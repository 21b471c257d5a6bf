------------------------------ MODULE RecordStore ------------------------------
(***************************************************************************)
(* The repository of an entity in a generated program, behind its routes:  *)
(* records are created, changed, deleted, listed by pages and moved along  *)
(* the workflow of the entity. There are three adapters: one in memory and *)
(* two for Postgres, one of which locks the row it moves, because the      *)
(* workflow has guards that Python has to look at; the other moves it with *)
(* one conditional UPDATE.                                                 *)
(***************************************************************************)
EXTENDS Integers, SequencesExt

CONSTANTS
  Id,         \* ids, drawn by uuid4 and never drawn again
  State, Initial,
  Edge,       \* pairs of states: the transitions of the workflow
  Guarded,    \* those with require_fields
  Client,     \* requests to the server at a time
  Adapter,    \* the adapters there may be
  PageSize, MaxTime,
  Unborn, Deleted, None

ASSUME RecordsAssumption ==
  /\ Id \subseteq Nat /\ IsFiniteSet(Id) /\ Initial \in State
  /\ Edge \subseteq State \X State /\ Guarded \subseteq Edge
  /\ Adapter \subseteq {"memory", "conditional", "locking"}
  /\ PageSize \in Nat \ {0} /\ MaxTime \in Nat
  /\ None \notin Id \cup State

VARIABLES
  adapter,
  row,        \* the record of an id; Unborn before it is stored, then Deleted
  time,
  call        \* what a client asked for, and how far it is

storeVars == <<adapter, row, time, call>>

\* filled: whether the fields that a guard requires hold something
Row == [state : State, filled : BOOLEAN, made : 0..MaxTime]
Exists(i) == row[i] \in Row
Ids == {i \in Id : Exists(i)}

Operation == {"create", "patch", "delete", "move"}
Answered == {"ok", "not_found", "invalid_transition", "guard_failed", "failed"}
Call == [op : Operation, id : Id, want : State \cup BOOLEAN, at : 0..MaxTime,
         step : {"sent", "locked", "missed"} \cup Answered]

ASSUME AbsenceAssumption ==
  /\ None \notin Answered \cup Call
  /\ {Unborn, Deleted} \cap Row = {} /\ Unborn # Deleted

StoreTypeOK ==
  /\ adapter \in Adapter
  /\ row \in [Id -> Row \cup {Unborn, Deleted}]
  /\ time \in 0..MaxTime
  /\ call \in [Client -> Call \cup {None}]
  /\ \A c \in Client : call[c] # None /\ call[c].step = "locked" =>
       /\ Exists(call[c].id)
       /\ \A d \in Client \ {c} :
            call[d] # None /\ call[d].step = "locked" => call[d].id # call[c].id

StoreInit ==
  /\ adapter \in Adapter
  /\ row = [i \in Id |-> Unborn]
  /\ time = 0
  /\ call = [c \in Client |-> None]

-------------------------------------------------------------------------------
\* ORDER BY created_at DESC, id DESC
Precedes(x, y) == x.made > y.made \/ (x.made = y.made /\ x.id > y.id)

Keyed(i) == [id |-> i, made |-> row[i].made, state |-> row[i].state]

BeyondInTime(x, cursor) == \* mutant
  cursor = None \/ cursor.made > x.made

Beyond(x, cursor) == cursor = None \/ Precedes(cursor, x)

InOrder(s) == \A j, k \in DOMAIN s : j < k => Precedes(s[j], s[k])

\* list: PageSize + 1 rows are asked for, and the last one shows there is more.
Page(cursor) ==
  LET found == {x \in {Keyed(i) : i \in Ids} : Beyond(x, cursor)}
      rows == CHOOSE s \in SetToSeqs(found) : InOrder(s)
      more == Len(rows) > PageSize
      items == IF more THEN SubSeq(rows, 1, PageSize) ELSE rows
  IN [items |-> items, next |-> IF more THEN items[PageSize] ELSE None]

-------------------------------------------------------------------------------
\* created_at is taken before the row is inserted.
Ask(c, op, i, want) ==
  /\ call[c] = None
  /\ op = "create" => row[i] = Unborn /\ \A d \in Client : call[d] # None => call[d].id # i
  /\ call' = [call EXCEPT ![c] =
       [op |-> op, id |-> i, want |-> want, at |-> time, step |-> "sent"]]
  /\ UNCHANGED <<adapter, row, time>>

At(c, op, step) == call[c] # None /\ call[c].op = op /\ call[c].step = step

\* Another transaction holds the row with FOR UPDATE.
IsLocked(i) == \E d \in Client : call[d] # None /\ call[d].step = "locked" /\ call[d].id = i

Reply(c, answer) == call' = [call EXCEPT ![c].step = answer]

Set(i, field, value) == row' = [row EXCEPT ![i][field] = value]

Create(c) ==
  /\ At(c, "create", "sent")
  /\ row' = [row EXCEPT ![call[c].id] =
               [state |-> Initial, filled |-> call[c].want, made |-> call[c].at]]
  /\ Reply(c, "ok")
  /\ UNCHANGED <<adapter, time>>

\* state is not among the fields of the model of an update.
Patch(c) ==
  LET i == call[c].id IN
  /\ At(c, "patch", "sent") /\ ~IsLocked(i)
  /\ \/ Exists(i) /\ Set(i, "filled", call[c].want) /\ Reply(c, "ok")
     \/ ~Exists(i) /\ UNCHANGED row /\ Reply(c, "not_found")
  /\ UNCHANGED <<adapter, time>>

Erase(c) ==
  LET i == call[c].id IN
  /\ At(c, "delete", "sent") /\ ~IsLocked(i)
  /\ \/ Exists(i) /\ row' = [row EXCEPT ![i] = Deleted] /\ Reply(c, "ok")
     \/ ~Exists(i) /\ UNCHANGED row /\ Reply(c, "not_found")
  /\ UNCHANGED <<adapter, time>>

Refusal(i, want) ==
  IF ~Exists(i) THEN "not_found"
  ELSE IF <<row[i].state, want>> \notin Edge THEN "invalid_transition"
  ELSE IF <<row[i].state, want>> \in Guarded /\ ~row[i].filled THEN "guard_failed"
  ELSE None

\* The adapter in memory does not await between the read and the write.
MoveInMemory(c) ==
  LET i == call[c].id  refusal == Refusal(i, call[c].want) IN
  /\ adapter = "memory" /\ At(c, "move", "sent")
  /\ IF refusal = None
     THEN Set(i, "state", call[c].want) /\ Reply(c, "ok")
     ELSE UNCHANGED row /\ Reply(c, refusal)
  /\ UNCHANGED <<adapter, time>>

\* UPDATE ... WHERE state = ANY(sources): for a workflow without guards
MoveIf(c) ==
  LET i == call[c].id IN
  /\ adapter = "conditional" /\ At(c, "move", "sent")
  /\ IF Exists(i) /\ <<row[i].state, call[c].want>> \in Edge
     THEN Set(i, "state", call[c].want) /\ Reply(c, "ok")
     ELSE UNCHANGED row /\ Reply(c, "missed")
  /\ UNCHANGED <<adapter, time>>

TellMissing(c) ==
  /\ At(c, "move", "missed")
  /\ Reply(c, IF Exists(call[c].id) THEN "invalid_transition" ELSE "not_found")
  /\ UNCHANGED <<adapter, row, time>>

\* SELECT ... FOR UPDATE, and the checks
LockUnwaiting(c) == \* mutant
  LET refusal == Refusal(call[c].id, call[c].want) IN
  /\ adapter = "locking" /\ At(c, "move", "sent")
  /\ Reply(c, IF refusal = None THEN "locked" ELSE refusal)
  /\ UNCHANGED <<adapter, row, time>>

Lock(c) ==
  LET refusal == Refusal(call[c].id, call[c].want) IN
  /\ adapter = "locking" /\ At(c, "move", "sent") /\ ~IsLocked(call[c].id)
  /\ Reply(c, IF refusal = None THEN "locked" ELSE refusal)
  /\ UNCHANGED <<adapter, row, time>>

Move(c) ==
  /\ At(c, "move", "locked")
  /\ Set(call[c].id, "state", call[c].want) /\ Reply(c, "ok")
  /\ UNCHANGED <<adapter, time>>

\* The connection breaks, and a transaction is rolled back.
Break(c) ==
  /\ call[c] # None /\ call[c].step \notin Answered
  /\ Reply(c, "failed")
  /\ UNCHANGED <<adapter, row, time>>

Tick ==
  /\ time < MaxTime /\ time' = time + 1
  /\ UNCHANGED <<adapter, row, call>>

Handle(c) ==
  \/ Create(c) \/ Patch(c) \/ Erase(c)
  \/ MoveInMemory(c) \/ MoveIf(c) \/ TellMissing(c) \/ Lock(c) \/ Move(c)
  \/ Break(c)

-------------------------------------------------------------------------------
\* Nobody gets around the workflow, however many move, change and delete a
\* record at a time (transition): a record moves along an edge, and along a
\* guarded one only while the fields that the guard requires are there.
LegalMoves ==
  \A i \in Id : Exists(i) /\ row'[i] \in Row /\ row'[i].state # row[i].state =>
    /\ <<row[i].state, row'[i].state>> \in Edge
    /\ (adapter # "conditional" /\ <<row[i].state, row'[i].state>> \in Guarded)
         => row[i].filled

MovesAreLegal == [][LegalMoves]_storeVars
================================================================================
