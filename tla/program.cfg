\* Does the database follow the contracts, whenever the program boots and
\* whatever its rows hold? Do pages, moves and deletions hold together while
\* others use the records?
SPECIFICATION ProgramSpec
CONSTANTS
  Table = {tickets}
  Column = {subject}
  Type = {text, int}
  Absent = Absent
  Generator = {forge}
  MaxVersion = 3
  MaxMishaps = 1
  Fields <- FieldShapes
  Gone = Gone
  MaxFiles = 2
  MaxEdits = 2
  Id = {1, 2, 3}
  Old = {1, 2}
  State = {open, done, dropped}
  Open = open
  Done = done
  Dropped = dropped
  Initial = open
  Edge <- Workflow
  Guarded <- WhenFilled
  Client = {u, c}
  User = {u}
  Adapter = {"memory", "conditional", "locking"}
  PageSize = 1
  MaxTime = 1
  Load = {l1, l2}
  MaxVisits = 1
  MaxCalls = 3
  None = None
  Unborn = Unborn
  Deleted = Deleted
INVARIANTS
  OnlyMishapsDiverge
  OnlyMishapsBlock
  MigrationsArrive
  OnlyTheNewIsUnflagged
  PagesAreComplete
  RemovedIsGone
PROPERTIES
  FilesTakeEffect
  MovesAreLegal
CHECK_DEADLOCK FALSE
