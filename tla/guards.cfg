\* Do the limits on errors and on spending hold, whoever comes in between? Are
\* calls to a model retried, recorded and ended as they should be, and do links
\* and pages decide what their readers may decide, once?
CONSTANTS
  Contract = {contract}
  NoContract = NoContract
  Unattributed = Unattributed
  One = 2
  Burst = 4
  Rate = 1
  GlobalBurst = 6
  GlobalRate = 1
  IdleEviction = 4
  MaxTime = 6
  Caller = {c1, c2}
  Usage <- Usages
  TokenBudget = 3
  SpendLimit = 4
  None = None
  IsPriced = TRUE
  InputPrice = 1
  OutputPrice = 3
  Window = 2
  Threshold = 2
  Cooldown = 2
  Thread = {p1, p2}
  Sink = {governor, meter}
  Raising = {meter}
  MaxAttempts = 2
  MaxCalls = 2
  Server = {w1, w2}
  Ticket = {ticket}
  Person = {ann, bob}
  Link = Link
  Static = Static
  Nobody = Nobody
  Configuration <- Configurations
  LinkTTL = 1
  FormTTL = 1
  MaxClock = 1
  MaxPages = 1
  MaxDeaths = 1
SPECIFICATION GuardsSpec
INVARIANTS
  NobodyExceeds
  SpendingIsBounded
  FailuresAreBounded
  CallsAreRecorded
  LinksDecideOnce
  LinksAreSpentWell
  ApprovalsAreTrue
PROPERTIES
  ImplementsAllowance
  RefusalsEnd
  CallsEnd
CHECK_DEADLOCK FALSE
