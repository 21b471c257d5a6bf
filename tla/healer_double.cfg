\* Two operators approve the same proposal.
SPECIFICATION Spec
CONSTANTS
  Ticket = {t1}
  Contract = {c1}
  NoContract = NoContract
  Missing = Missing
  None = None
  raw = raw
  tidy = tidy
  better = better
  messy = messy
  junk = junk
  Content <- MCContent
  Valid <- MCValid
  Normal <- MCNormal
  ErrorClass <- MCErrorClass
  Threshold = 10
  Worker = {drain, fix}
  Operator = {http, cli}
  MaxEdits = 0
  MaxAborts = 0
INVARIANTS
  FixAppliedOnce
CHECK_DEADLOCK FALSE
