------------------------------- MODULE MCProgram -------------------------------
(***************************************************************************)
(* What becomes of a generated program: its migrations, as files and as    *)
(* statements on a column, and its records and their lists. They share     *)
(* nothing here, so it is enough to let one of them move in a behavior.    *)
(***************************************************************************)
EXTENDS Migrations, ColumnMigrations, RecordList

CONSTANTS Open, Done, Dropped,   \* a workflow: only closing has a guard
          Old                    \* records made at one time, before all others

VARIABLE part

Workflow == {<<Open, Done>>, <<Open, Dropped>>}
WhenFilled == {<<Open, Done>>}

OldRecords ==
  [i \in Id |-> IF i \in Old THEN [state |-> Initial, filled |-> TRUE, made |-> 0]
                ELSE Unborn]

Plain ==
  [type |-> "text", scale |-> 0, required |-> FALSE, default |-> FALSE,
   computed |-> "", reference |-> FALSE]

\* Every combination that decides the nullability, and each other attribute.
FieldShapes ==
  {[Plain EXCEPT !.type = t, !.required = r, !.default = d, !.computed = c] :
     t \in {"text", "integer"}, r \in BOOLEAN, d \in BOOLEAN, c \in {"", "now"}}
  \cup {[Plain EXCEPT !.type = "decimal", !.scale = s] : s \in {0, 2}}
  \cup {[Plain EXCEPT !.computed = "current_user"], [Plain EXCEPT !.reference = TRUE]}

ProgramInit ==
  /\ part \in {"files", "column", "records"}
  /\ Init
  /\ ColumnInit /\ (part # "column" => field = Plain)
  /\ adapter \in Adapter /\ (part # "records" => adapter = "memory")
  /\ row = OldRecords /\ time = 0 /\ call = [c \in Client |-> None]
  /\ ListInit

ProgramNext ==
  \/ part = "files" /\ Next /\ UNCHANGED <<part, columnVars, recordVars>>
  \/ part = "column" /\ ColumnNext /\ UNCHANGED <<part, vars, recordVars>>
  \/ part = "records" /\ RecordsNext /\ UNCHANGED <<part, vars, columnVars>>

ProgramSpec == ProgramInit /\ [][ProgramNext]_<<part, vars, columnVars, recordVars>>

================================================================================
