------------------------------ MODULE Migrations ------------------------------
(***************************************************************************)
(* Schema migrations: `specora forge generate` and the regeneration after  *)
(* a fix of the Healer compare the compiled contracts with a snapshot of   *)
(* the previous ones and write what changed into a numbered file           *)
(* (forge/targets/migrations); the generated program brings its database   *)
(* up to date with these files when it boots (_apply_schema_and_migrations *)
(* in forge/targets/fastapi_prod/gen_app.py).                              *)
(*                                                                         *)
(* A schema says which tables exist and what type each column has. What    *)
(* else a column has (default, nullability) changes by statements of its   *)
(* own as its type does; indexes, keys and triggers are left out. The      *)
(* contracts are edited at any time, so a generator may find any schema.   *)
(*                                                                         *)
(* A definition marked as a mutant is not part of the model: it is what    *)
(* the one after it would be with a plausible bug.                         *)
(***************************************************************************)
EXTENDS Integers, FiniteSets, FiniteSetsExt

CONSTANTS
  Table, Column, Type,
  Absent,         \* no such table, column, file or snapshot
  Generator,      \* those who generate, each with a snapshot of its own
  MaxVersion,     \* bound on the numbers of migrations
  MaxMishaps      \* bound on crashes, deletions and overlaps

ASSUME AbsentAssumption == Absent \notin Type \cup Column

(***************************************************************************)
(* Three digits number a migration, and names sort like numbers up to 999. *)
(***************************************************************************)
ASSUME VersionAssumption == MaxVersion \in 1..999 /\ MaxMishaps \in Nat

VARIABLES
  snapshot,   \* what each generator compares with
  pc,         \* what each generator does next
  ir,         \* the schema it has compiled
  draft,      \* the migration it is about to write, with its name
  schemaSql,  \* database/schema.sql
  files,      \* database/migrations, the migration of each name
  db,         \* the schema of the database
  ledger,     \* the names in _specora_migrations
  image,      \* the migrations of the program that is booting
  mishaps     \* mishaps so far

generator == <<snapshot, pc, ir, draft>>
vars == <<generator, schemaSql, files, db, ledger, image, mishaps>>

Columns == [Column -> Type \cup {Absent}]
Schema  == [Table -> Columns \cup {Absent}]
Empty   == [t \in Table |-> Absent]

ASSUME SchemaAssumption == Absent \notin Schema

-------------------------------------------------------------------------------
(***************************************************************************)
(* The changes that lead from one schema to another: a table or a column   *)
(* comes, goes, or a column is altered.                                    *)
(***************************************************************************)
Op(old, new) ==
  IF old = Absent THEN "add" ELSE IF new = Absent THEN "drop" ELSE "alter"

Change ==
  [op : {"add", "drop", "alter"}, table : Table, column : Column \cup {Absent}]

TableChanges(old, new) ==
  {[op |-> Op(old[t], new[t]), table |-> t, column |-> Absent] :
     t \in {u \in Table : (old[u] = Absent) # (new[u] = Absent)}}

ColumnChanges(old, new) ==
  LET Altered(t) ==
        IF Absent \in {old[t], new[t]} THEN {}
        ELSE {c \in Column : old[t][c] # new[t][c]}
  IN  UNION {{[op |-> Op(old[t][c], new[t][c]), table |-> t, column |-> c] :
                c \in Altered(t)} : t \in Table}

ChangesThatComeAndGo(old, new) ==                              \* mutant
  TableChanges(old, new)
    \cup {ch \in ColumnChanges(old, new) : ch.op # "alter"}

Changes(old, new) == TableChanges(old, new) \cup ColumnChanges(old, new)

(***************************************************************************)
(* A file of migrations holds the changes, and the schema that has the     *)
(* columns and types they need. It is named after its only change, or      *)
(* after the number of its changes.                                        *)
(***************************************************************************)
Migration == [changes : SUBSET Change, to : Schema]

MigrationTo(old, new) == [changes |-> Changes(old, new), to |-> new]

Describe(changes) ==
  [count |-> Cardinality(changes),
   only  |-> IF Cardinality(changes) = 1 THEN changes ELSE {}]

NextVersion == Max({n.version : n \in DOMAIN files} \cup {0}) + 1

(***************************************************************************)
(* What the statements of a migration make of a schema. Adding what exists *)
(* and dropping what does not changes nothing; any other statement about   *)
(* a missing table or column is an error, and the whole file rolls back.   *)
(***************************************************************************)
Runs(m, s) ==
  \A ch \in m.changes :
    ch.column # Absent =>
      /\ s[ch.table] # Absent
      /\ ch.op = "alter" => s[ch.table][ch.column] # Absent

Has(m, op, t, c) == [op |-> op, table |-> t, column |-> c] \in m.changes

MigratedColumn(m, t, c, type) ==
  IF \/ Has(m, "alter", t, c)
     \/ Has(m, "add", t, c) /\ type = Absent
  THEN m.to[t][c]
  ELSE IF Has(m, "drop", t, c) THEN Absent ELSE type

MigratedTable(m, t, columns) ==
  IF columns = Absent
  THEN IF Has(m, "add", t, Absent) THEN m.to[t] ELSE Absent
  ELSE IF Has(m, "drop", t, Absent) THEN Absent
       ELSE [c \in Column |-> MigratedColumn(m, t, c, columns[c])]

Migrated(m, s) == [t \in Table |-> MigratedTable(m, t, s[t])]

-------------------------------------------------------------------------------
Name ==
  [version : 1..MaxVersion, about : [count : Nat, only : SUBSET Change]]

Numbered(version, about) == [version |-> version, about |-> about]

TypeOK ==
  /\ snapshot \in [Generator -> Schema \cup {Absent}]
  /\ pc \in [Generator -> {"idle", "schema", "diff", "write"}]
  /\ ir \in [Generator -> Schema]
  /\ \A g \in Generator :
       pc[g] = "write" => draft[g].name \in Name /\ draft[g].file \in Migration
  /\ schemaSql \in Schema \cup {Absent}
  /\ \A n \in DOMAIN files : n \in Name /\ files[n] \in Migration
  /\ db \in Schema
  /\ ledger \subseteq Name
  /\ mishaps \in 0..MaxMishaps

Init ==
  /\ snapshot = [g \in Generator |-> Absent]
  /\ pc       = [g \in Generator |-> "idle"]
  /\ ir       = [g \in Generator |-> Empty]
  /\ draft    = [g \in Generator |-> Absent]
  /\ schemaSql = Absent /\ files = <<>>
  /\ db = Empty /\ ledger = {} /\ image = Absent
  /\ mishaps = 0

GoesOn(g, from, to) ==
  /\ pc[g] = from
  /\ pc' = [pc EXCEPT ![g] = to]

Mishap == mishaps < MaxMishaps /\ mishaps' = mishaps + 1

-------------------------------------------------------------------------------
(***************************************************************************)
(* A generator compiles the contracts as they are now and writes the       *)
(* schema for an empty database before it compares. Nothing keeps another  *)
(* one from running at the same time, which counts as a mishap.            *)
(***************************************************************************)
Compile(g) ==
  /\ GoesOn(g, "idle", "schema")
  /\ \E s \in Schema : ir' = [ir EXCEPT ![g] = s]
  /\ IF \A h \in Generator : pc[h] = "idle" THEN UNCHANGED mishaps ELSE Mishap
  /\ UNCHANGED <<snapshot, draft, schemaSql, files, db, ledger, image>>

WriteSchema(g) ==
  /\ GoesOn(g, "schema", "diff")
  /\ schemaSql' = ir[g]
  /\ UNCHANGED <<snapshot, ir, draft, files, db, ledger, image, mishaps>>

(***************************************************************************)
(* generate loads the snapshot, counts the files and stores the new        *)
(* snapshot; the file it returns is written by its caller. Without a       *)
(* snapshot everything is new.                                             *)
(***************************************************************************)
Diff(g) ==
  LET first   == snapshot[g] = Absent
      file    == MigrationTo(IF first THEN Empty ELSE snapshot[g], ir[g])
      nothing == ~first /\ file.changes = {}
      about   == IF first THEN Describe({}) ELSE Describe(file.changes)
  IN
  /\ GoesOn(g, "diff", IF nothing THEN "idle" ELSE "write")
  /\ nothing \/ NextVersion <= MaxVersion
  /\ snapshot' = [snapshot EXCEPT ![g] = ir[g]]
  /\ draft' = [draft EXCEPT ![g] =
                 IF nothing THEN Absent
                 ELSE [name |-> Numbered(NextVersion, about), file |-> file]]
  /\ UNCHANGED <<ir, schemaSql, files, db, ledger, image, mishaps>>

WriteMigration(g) ==
  /\ GoesOn(g, "write", "idle")
  /\ files' = [n \in DOMAIN files \cup {draft[g].name} |->
                IF n = draft[g].name THEN draft[g].file ELSE files[n]]
  /\ draft' = [draft EXCEPT ![g] = Absent]
  /\ UNCHANGED <<snapshot, ir, schemaSql, db, ledger, image, mishaps>>

-------------------------------------------------------------------------------
(***************************************************************************)
(* The program boots with the migrations that are there when its image is  *)
(* built. One worker at a time, it gives an empty database the whole       *)
(* schema and records every migration as done.                             *)
(***************************************************************************)
IsFresh == db = Empty /\ schemaSql # Absent

BootstrapUnrecorded ==                                         \* mutant
  /\ image = Absent /\ IsFresh
  /\ db' = schemaSql
  /\ UNCHANGED <<generator, schemaSql, files, ledger, image, mishaps>>

Bootstrap ==
  /\ image = Absent /\ IsFresh
  /\ db' = schemaSql
  /\ ledger' = ledger \cup DOMAIN files
  /\ UNCHANGED <<generator, schemaSql, files, image, mishaps>>

Boot ==
  /\ image = Absent /\ ~IsFresh
  /\ image' = files
  /\ UNCHANGED <<generator, schemaSql, files, db, ledger, mishaps>>

NamedAfter(n, m) == n.version >= m.version                     \* mutant

(***************************************************************************)
(* Otherwise it runs what is not recorded in the order of the names, each  *)
(* file together with its record. A file that fails ends the boot.         *)
(***************************************************************************)
NamedBefore(n, m) == n.version <= m.version

Pending == IF image = Absent THEN {} ELSE DOMAIN image \ ledger

IsNext(n) == \A m \in Pending : NamedBefore(n, m)

Migrate(n) ==
  /\ IsNext(n)
  /\ Runs(image[n], db)
  /\ db' = Migrated(image[n], db)
  /\ ledger' = ledger \cup {n}
  /\ UNCHANGED <<generator, schemaSql, files, image, mishaps>>

(***************************************************************************)
(* The boot is done, or failed, or died. What it committed stays.          *)
(***************************************************************************)
BootEnds ==
  /\ image # Absent /\ image' = Absent
  /\ UNCHANGED <<generator, schemaSql, files, db, ledger, mishaps>>

-------------------------------------------------------------------------------
(***************************************************************************)
(* A generator dies, or a file cannot be written. A snapshot that was only *)
(* half written does not load.                                             *)
(***************************************************************************)
Crash(g) ==
  /\ Mishap /\ pc[g] # "idle"
  /\ pc'    = [pc EXCEPT ![g] = "idle"]
  /\ draft' = [draft EXCEPT ![g] = Absent]
  /\ \/ UNCHANGED snapshot
     \/ pc[g] = "diff" /\ snapshot' = [snapshot EXCEPT ![g] = Absent]
  /\ UNCHANGED <<ir, schemaSql, files, db, ledger, image>>

(***************************************************************************)
(* What was generated is disposable, so somebody deletes it.               *)
(***************************************************************************)
Delete ==
  /\ Mishap
  /\ schemaSql' = Absent /\ files' = <<>>
  /\ UNCHANGED <<generator, db, ledger, image>>

Next ==
  \/ \E g \in Generator :
       Compile(g) \/ WriteSchema(g) \/ Diff(g) \/ WriteMigration(g) \/ Crash(g)
  \/ Bootstrap \/ Boot \/ (\E n \in Pending : Migrate(n)) \/ BootEnds
  \/ Delete

Spec == Init /\ [][Next]_vars

-------------------------------------------------------------------------------
(***************************************************************************)
(* With nobody generating and nothing left to migrate, the database has    *)
(* the schema a fresh one would get, unless there was a mishap: whenever   *)
(* the program booted in between, also between schema.sql and the          *)
(* migration that goes with it ("two views of one schema", generator.py).  *)
(***************************************************************************)
Settled ==
  /\ \A g \in Generator : pc[g] = "idle"
  /\ DOMAIN files # {} /\ DOMAIN files \subseteq ledger

OnlyMishapsDiverge == mishaps = 0 /\ Settled => db = schemaSql

(***************************************************************************)
(* The file a boot is about to run never fails for a table or a column     *)
(* that is missing, unless there was a mishap: no boot is stuck.           *)
(***************************************************************************)
OnlyMishapsBlock ==
  mishaps = 0 => \A n \in Pending : IsNext(n) => Runs(image[n], db)

(***************************************************************************)
(* A file that is recorded by running it has had its effect: every change  *)
(* it names is there afterwards ("each file either finds its change        *)
(* already present and does nothing, or applies it", sql_writer.py).       *)
(***************************************************************************)
Present(ch, m, s) ==
  IF ch.column = Absent
  THEN s[ch.table] = m.to[ch.table]
  ELSE s[ch.table][ch.column] = m.to[ch.table][ch.column]

FilesTakeEffect ==
  [][mishaps = 0 =>
       \A n \in Pending \cap ledger' :
         \A ch \in image[n].changes : Present(ch, image[n], db')]_vars
===============================================================================
