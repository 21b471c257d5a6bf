\* A second operator at the command line next to the sidecar: what still holds
\* when two of them decide at the same time.
SPECIFICATION Spec
CONSTANTS
  Ticket = {t1, t2}
  Contract = {c1}
  NoContract = NoContract
  Missing = Missing
  None = None
  raw = raw
  tidy = tidy
  better = better
  messy = messy
  junk = junk
  Content <- MCContent
  Valid <- MCValid
  Normal <- MCNormal
  ErrorClass <- FixableErrors
  Threshold = 10
  Worker = {drain, fix}
  Operator = {http, cli}
  MaxEdits = 0
  MaxAborts = 1
INVARIANTS
  ClaimIsExclusive
  OnlyValidFixes
  UnattendedFixesAreCertain
  AppliedIsOnRecord
  OfferedIsApplied
CHECK_DEADLOCK FALSE
