\* Do two lookups of a table get in each other's way?
CONSTANTS
  Id = {1, 2}
  State = {open}
  Initial = open
  Edge = {}
  Guarded = {}
  Client = {c}
  User = {}
  Adapter = {"memory"}
  PageSize = 1
  MaxTime = 0
  Load = {l1}
  MaxLookup = 2
  MaxLimit = 2
  MaxVisits = 1
  MaxCalls = 2
  None = None
  Unborn = Unborn
  Deleted = Deleted
SPECIFICATION NamesSpec
INVARIANT
  NamesAreResolved
CHECK_DEADLOCK FALSE
