\* The sidecar as it is deployed: its drain thread and its event loop, and
\* somebody running "healer fix" next to it. What it keeps, and that it goes on.
SPECIFICATION FairSpec
CONSTANTS
  Ticket = {t1, t2}
  Contract = {c1}
  NoContract = NoContract
  Missing = Missing
  None = None
  raw = raw
  tidy = tidy
  better = better
  messy = messy
  junk = junk
  Content <- FewContents
  Valid <- FewValid
  Normal <- FewNormal
  ErrorClass <- MCErrorClass
  Threshold = 10
  Worker = {drain, fix}
  Operator = {http}
  MaxEdits = 1
  MaxAborts = 2
INVARIANTS
  FixAppliedOnce
  OnlyAbortsStrand
PROPERTIES
  ImplementsLifecycle
  EveryTicketIsHandled
  EveryApprovalIsSettled
CHECK_DEADLOCK FALSE
