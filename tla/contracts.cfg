\* Does the compiler accept the sound builds and nothing else, does the factory
\* keep what it is told and tell what it does, does the history list every diff?
CONSTANTS
  Contract = {1, 2, 3, 4}
  Ghost = {Missing}
  Unentered = Unentered
  Missing = Missing
  Vague = Vague
  Nothing = Nothing
  Builds <- AllBuilds
  Plural <- Plurals
  Stdlib <- StdlibName
  Entity = {order, ordering}
  Route = {orders, accounts}
  accounts = accounts
  PluralOf <- OnePlural
  Nobody = Nobody
  MaxRuns = 3
  MaxDropped = 1
  MaxMessages = 5
  MaxTools = 2
  MaxVersion = 4
  Diff = {d1, d2, d3, d4}
  Saver = {drain, http, refine}
  None = None
  MaxCrashes = 1
SPECIFICATION ContractsSpec
INVARIANTS
  DependenciesFirst
  OrderIsComplete
  JudgedRightly
  NothingIsLost
  HalfWrittenResumes
  OnlyOverlapsLose
PROPERTIES
  AnswersAreKept
  
CHECK_DEADLOCK FALSE
