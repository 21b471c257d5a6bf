--------------------------- MODULE ColumnMigrations ---------------------------
(***************************************************************************)
(* One field of an entity as its contract changes: the change contract     *)
(* recorded with the diff (forge/diff/tracker.py, change_contract.py), the *)
(* statements the differ and the SQL writer make of it                     *)
(* (forge/targets/migrations), and the column of a table with rows they    *)
(* run against. Migrations is about files; this module is about what a     *)
(* file does to a column.                                                  *)
(*                                                                         *)
(* "Both render their DDL through the same emitters in gen_ddl, so a       *)
(* column definition cannot differ between them" (generator.py), but the   *)
(* differ compares neither the scale of a decimal nor a reference.         *)
(***************************************************************************)
EXTENDS Naturals, Sequences, FiniteSets

CONSTANTS
  Fields,        \* the ways a contract may declare the field
  Gone,          \* no field, no column
  MaxFiles,      \* bound: migrations waiting to be applied
  MaxEdits       \* bound: changes of the contract

ASSUME FieldsAssumption ==
  /\ Gone \notin Fields
  /\ Fields \subseteq [type : {"text", "integer", "decimal"}, scale : Nat, required : BOOLEAN,
                       default : BOOLEAN, computed : {"", "now", "current_user"},
                       reference : BOOLEAN]
  /\ MaxFiles \in Nat /\ MaxEdits \in Nat

VARIABLES
  field,         \* the field in the contract
  compared,      \* the field in the snapshot of the differ
  flagged,       \* what the change contracts since that snapshot say: migration_required
  waiting,         \* the migrations not applied yet, each a sequence of statements
  column,        \* the column in the database
  cells,         \* which contents its rows have: "null", "value"
  populated,     \* has the table rows?
  edits

columnVars == <<field, compared, flagged, waiting, column, cells, populated, edits>>

-------------------------------------------------------------------------------
(***************************************************************************)
(* gen_ddl.py: what the database fills in, and the column of a field.      *)
(* "current_user" is computed by the application.                          *)
(***************************************************************************)
ServerDefault(f) == f.computed = "now"

DefaultClause(f) ==
  IF ServerDefault(f) THEN "now()" ELSE IF f.default THEN "literal" ELSE "none"

NotNull(f) == f.required \/ ServerDefault(f)

\* pg_column_type: precision and scale are part of NUMERIC.
ColumnType(f) == [name |-> f.type, scale |-> IF f.type = "decimal" THEN f.scale ELSE 0]

Definition(f) ==
  [type |-> ColumnType(f), notNull |-> NotNull(f), default |-> DefaultClause(f), fk |-> f.reference]

ColumnShape == \* what a column may be
  [type : [name : {"text", "integer", "decimal"}, scale : Nat], notNull : BOOLEAN,
   default : {"now()", "literal", "none"}, fk : BOOLEAN]

ASSUME GoneAssumption == Gone \notin ColumnShape

-------------------------------------------------------------------------------
(***************************************************************************)
(* _diff_entity_fields, and the statements of sql_writer.py. What is not   *)
(* compared (scale, references) changes nothing.                           *)
(***************************************************************************)
Statement(kind, f) == [kind |-> kind, field |-> f]

If(condition, statement) == IF condition THEN <<statement>> ELSE <<>>

\* mutant: required and default are compared, and not the rendered column.
AlterationsOfAttributes(old, new) ==
  If(old.type # new.type, Statement("alter_type", new))
  \o If(old.default # new.default,
        Statement(IF new.default THEN "set_default" ELSE "drop_default", new))
  \o If(old.required # new.required,
        Statement(IF new.required THEN "set_not_null" ELSE "drop_not_null", new))

Alterations(old, new) ==
  If(old.type # new.type, Statement("alter_type", new))
  \o If(DefaultClause(old) # DefaultClause(new),
        Statement(IF DefaultClause(new) = "none" THEN "drop_default" ELSE "set_default", new))
  \o If(NotNull(old) # NotNull(new),
        Statement(IF NotNull(new) THEN "set_not_null" ELSE "drop_not_null", new))

Statements(old, new) ==
  IF old = new THEN <<>>
  ELSE IF old = Gone THEN <<Statement("add_column", new)>>
  ELSE IF new = Gone THEN <<Statement("drop_column", old)>>
  ELSE Alterations(old, new)

(***************************************************************************)
(* compute_diff names the attributes that changed, build_change_contract   *)
(* judges their paths: a field that is gone, and .type, .required and      *)
(* .default, require a migration.                                          *)
(***************************************************************************)
ChangedAttributes(old, new) == {a \in DOMAIN old : old[a] # new[a]}

\* mutant: a path that ends with .default is not looked for.
RequiresMigrationWithoutDefault(old, new) ==
  \/ old # Gone /\ new = Gone
  \/ Gone \notin {old, new} /\ ChangedAttributes(old, new) \cap {"type", "required"} # {}

RequiresMigration(old, new) ==
  \/ old # Gone /\ new = Gone
  \/ Gone \notin {old, new} /\ ChangedAttributes(old, new) \cap {"type", "required", "default"} # {}

-------------------------------------------------------------------------------
(***************************************************************************)
(* PostgreSQL, external. Adding what is there and dropping what is not do  *)
(* nothing. An added column has its default in every row; a type is        *)
(* changed by casting the rows and the default, and the default of a text  *)
(* is not cast to a number; NOT NULL needs rows without NULL. Where a cast *)
(* of the rows fails, the file stays as if it had not been tried.          *)
(***************************************************************************)
Added(f) ==
  [column |-> Definition(f),
   cells  |-> IF ~populated THEN {} ELSE IF DefaultClause(f) = "none" THEN {"null"} ELSE {"value"}]

Fails(s, d) ==
  CASE s.kind = "add_column" ->
         d.column = Gone /\ populated /\ NotNull(s.field) /\ DefaultClause(s.field) = "none"
    [] s.kind = "drop_column" -> FALSE
    [] s.kind = "alter_type" ->
         \/ d.column = Gone
         \/ d.column.type.name = "text" /\ s.field.type # "text" /\ d.column.default = "literal"
    [] s.kind = "set_not_null" -> d.column = Gone \/ "null" \in d.cells
    [] OTHER -> d.column = Gone

After(s, d) ==
  CASE s.kind = "add_column"    -> IF d.column = Gone THEN Added(s.field) ELSE d
    [] s.kind = "drop_column"   -> [column |-> Gone, cells |-> {}]
    [] s.kind = "alter_type"    -> [d EXCEPT !.column.type = ColumnType(s.field)]
    [] s.kind = "set_default"   -> [d EXCEPT !.column.default = DefaultClause(s.field)]
    [] s.kind = "drop_default"  -> [d EXCEPT !.column.default = "none"]
    [] s.kind = "set_not_null"  -> [d EXCEPT !.column.notNull = TRUE]
    [] s.kind = "drop_not_null" -> [d EXCEPT !.column.notNull = FALSE]

\* The database before each statement of a file that runs, and after the last.
Course(file, d) ==
  LET course[i \in 1..Len(file) + 1] == IF i = 1 THEN d ELSE After(file[i - 1], course[i - 1])
  IN  course

Here == [column |-> column, cells |-> cells]

\* Up to its first failure a file runs; after it there is nothing to ask.
FailsAt(file, i) == Fails(file[i], Course(SubSeq(file, 1, i - 1), Here)[i])

Blocked(file) ==
  \E i \in DOMAIN file : FailsAt(file, i) /\ \A j \in 1..i - 1 : ~FailsAt(file, j)

-------------------------------------------------------------------------------
ColumnTypeOK ==
  /\ {field, compared} \subseteq Fields \cup {Gone} /\ flagged \in BOOLEAN
  /\ Len(waiting) <= MaxFiles
  /\ column \in ColumnShape \cup {Gone}
  /\ cells \subseteq {"null", "value"} /\ (column = Gone \/ ~populated => cells = {})
  /\ populated \in BOOLEAN /\ edits \in 0..MaxEdits

\* schema.sql gave the database the column of the first contract.
ColumnInit ==
  /\ field \in Fields \cup {Gone}
  /\ compared = field /\ flagged = FALSE /\ waiting = <<>>
  /\ column = IF field = Gone THEN Gone ELSE Definition(field)
  /\ cells = {} /\ populated = FALSE /\ edits = 0

\* Refine, the healer or an editor: the change leaves a diff with a change contract.
Edit ==
  /\ edits < MaxEdits
  /\ \E f \in (Fields \cup {Gone}) \ {field} :
       field' = f /\ flagged' = (flagged \/ RequiresMigration(field, f))
  /\ edits' = edits + 1
  /\ UNCHANGED <<compared, waiting, column, cells, populated>>

\* specora forge generate: no statements, no file.
Generate ==
  /\ compared # field /\ Len(waiting) < MaxFiles
  /\ compared' = field /\ flagged' = FALSE
  /\ waiting' = waiting \o (IF Statements(compared, field) = <<>> THEN <<>>
                        ELSE <<Statements(compared, field)>>)
  /\ UNCHANGED <<field, column, cells, populated, edits>>

\* The generated program boots: a file is one transaction. One that fails stays.
ApplyFile ==
  /\ waiting # <<>> /\ ~Blocked(Head(waiting))
  /\ LET after == Course(Head(waiting), Here)[Len(Head(waiting)) + 1]
     IN  column' = after.column /\ cells' = after.cells
  /\ waiting' = Tail(waiting)
  /\ UNCHANGED <<field, compared, flagged, populated, edits>>

\* A row is written: with a value, or without one where the column allows it.
Insert ==
  /\ populated' = TRUE
  /\ cells' = IF column = Gone THEN {} ELSE cells \cup {IF column.notNull THEN "value" ELSE "null"}
  /\ UNCHANGED <<field, compared, flagged, waiting, column, edits>>

InsertValue ==
  /\ column # Gone /\ populated' = TRUE
  /\ cells' = cells \cup {"value"}
  /\ UNCHANGED <<field, compared, flagged, waiting, column, edits>>

\* Somebody fills the empty cells, as the note of SET NOT NULL asks for.
Backfill ==
  /\ "null" \in cells
  /\ cells' = (cells \ {"null"}) \cup {"value"}
  /\ UNCHANGED <<field, compared, flagged, waiting, column, populated, edits>>

ColumnNext == Edit \/ Generate \/ ApplyFile \/ Insert \/ InsertValue \/ Backfill

ColumnSpec == ColumnInit /\ [][ColumnNext]_columnVars

-------------------------------------------------------------------------------
(***************************************************************************)
(* Migrations lead where the contract is: once all files are applied, the    *)
(* column has the type, the default and the nullability of the field that  *)
(* was compared last, whatever was edited in between ("so comparing the    *)
(* raw attributes emitted no migration at all and the database silently    *)
(* diverged from the contract", differ.py).                                *)
(***************************************************************************)
Compared(c) == <<c.type.name, c.default, c.notNull>>

MigrationsArrive ==
  waiting = <<>> =>
    /\ (column = Gone) = (compared = Gone)
    /\ column # Gone => Compared(column) = Compared(Definition(compared))

(***************************************************************************)
(* A change contract that requires no migration may be trusted, except for *)
(* an added field and one whose computed value changed: otherwise the next *)
(* generation writes no statement (change_contract.py, differ.py).         *)
(***************************************************************************)
OnlyTheNewIsUnflagged ==
  /\ compared # Gone /\ field # Gone
  /\ ~flagged /\ compared.computed = field.computed
  => Statements(compared, field) = <<>>

===============================================================================
