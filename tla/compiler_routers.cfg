\* Does every router of an accepted build have a prefix of its own?
CONSTANTS
  Contract = {1, 2, 3, 4}
  Ghost = {Missing}
  Unentered = Unentered
  Missing = Missing
  Vague = Vague
  Nothing = Nothing
  Builds <- AllBuilds
  Plural <- Plurals
  Stdlib <- StdlibName
SPECIFICATION MCSpec
INVARIANTS
  RoutersDiffer
CHECK_DEADLOCK FALSE
