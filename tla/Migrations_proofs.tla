-------------------------- MODULE Migrations_proofs ---------------------------
(***************************************************************************)
(* The migrations of a generated program and the columns they are about.   *)
(***************************************************************************)
EXTENDS Migrations, ColumnMigrations, SequenceTheorems,
        Induction, TLAPS

(***************************************************************************)
(* The migrations of a program, for any tables, columns and types and any  *)
(* number of files, when one generator writes them and nothing is lost:    *)
(* the files are the steps of one history of schemas, and the database is  *)
(* where the ledger says, or one step further.                             *)
(***************************************************************************)

(***************************************************************************)
(* Which changes lead from one schema to another.                          *)
(***************************************************************************)
LEMMA TableChange ==
  ASSUME NEW old \in Schema, NEW new \in Schema, NEW op, NEW t \in Table
  PROVE  Has(MigrationTo(old, new), op, t, Absent)
           <=> /\ (old[t] = Absent) # (new[t] = Absent)
               /\ op = Op(old[t], new[t])
<1> DEFINE ch == [op |-> op, table |-> t, column |-> Absent]
<1>1. Has(MigrationTo(old, new), op, t, Absent)
        <=> ch \in TableChanges(old, new) \/ ch \in ColumnChanges(old, new)
  BY DEF Has, MigrationTo, Changes
<1>2. ch \notin ColumnChanges(old, new)
  <2>1. SUFFICES ASSUME NEW u \in Table, NEW c \in Column,
                        ch = [op |-> Op(old[u][c], new[u][c]), table |-> u, column |-> c]
                 PROVE  FALSE
    BY DEF ColumnChanges
  <2>2. ch.column = Absent /\ ch.column = c
    BY <2>1
  <2>3. QED
    BY <2>2, AbsentAssumption
<1>3. ch \in TableChanges(old, new)
        <=> /\ (old[t] = Absent) # (new[t] = Absent)
            /\ op = Op(old[t], new[t])
  <2>1. ASSUME ch \in TableChanges(old, new)
        PROVE  (old[t] = Absent) # (new[t] = Absent) /\ op = Op(old[t], new[t])
    <3>1. PICK u \in Table : /\ (old[u] = Absent) # (new[u] = Absent)
                             /\ ch = [op |-> Op(old[u], new[u]), table |-> u, column |-> Absent]
      BY <2>1 DEF TableChanges
    <3>2. ch.table = t /\ ch.table = u /\ ch.op = op /\ ch.op = Op(old[u], new[u])
      BY <3>1
    <3>3. QED
      BY <3>1, <3>2
  <2>2. ASSUME (old[t] = Absent) # (new[t] = Absent), op = Op(old[t], new[t])
        PROVE  ch \in TableChanges(old, new)
    BY <2>2 DEF TableChanges
  <2>3. QED
    BY <2>1, <2>2
<1>4. QED
  BY <1>1, <1>2, <1>3

LEMMA ColumnChange ==
  ASSUME NEW old \in Schema, NEW new \in Schema, NEW op, NEW t \in Table, NEW c \in Column
  PROVE  Has(MigrationTo(old, new), op, t, c)
           <=> /\ old[t] # Absent /\ new[t] # Absent
               /\ old[t][c] # new[t][c]
               /\ op = Op(old[t][c], new[t][c])
<1> DEFINE ch == [op |-> op, table |-> t, column |-> c]
<1>1. Has(MigrationTo(old, new), op, t, c)
        <=> ch \in TableChanges(old, new) \/ ch \in ColumnChanges(old, new)
  BY DEF Has, MigrationTo, Changes
<1>2. ch \notin TableChanges(old, new)
  <2>1. SUFFICES ASSUME NEW u \in Table,
                        ch = [op |-> Op(old[u], new[u]), table |-> u, column |-> Absent]
                 PROVE  FALSE
    BY DEF TableChanges
  <2>2. ch.column = Absent /\ ch.column = c
    BY <2>1
  <2>3. QED
    BY <2>2, AbsentAssumption
<1>3. ASSUME ch \in ColumnChanges(old, new)
      PROVE  /\ old[t] # Absent /\ new[t] # Absent
             /\ old[t][c] # new[t][c]
             /\ op = Op(old[t][c], new[t][c])
  <2>1. PICK u \in Table : ch \in {[op |-> Op(old[u][d], new[u][d]), table |-> u, column |-> d] :
                                     d \in IF Absent \in {old[u], new[u]} THEN {}
                                           ELSE {e \in Column : old[u][e] # new[u][e]}}
    BY <1>3 DEF ColumnChanges
  <2>2. PICK d \in (IF Absent \in {old[u], new[u]} THEN {} ELSE {e \in Column : old[u][e] # new[u][e]}) :
          ch = [op |-> Op(old[u][d], new[u][d]), table |-> u, column |-> d]
    BY <2>1
  <2>3. Absent \notin {old[u], new[u]} /\ d \in Column /\ old[u][d] # new[u][d]
    BY <2>2
  <2>4. /\ ch.table = t /\ ch.table = u /\ ch.column = c /\ ch.column = d
        /\ ch.op = op /\ ch.op = Op(old[u][d], new[u][d])
    BY <2>2
  <2>5. QED
    BY <2>3, <2>4
<1>4. ASSUME old[t] # Absent, new[t] # Absent, old[t][c] # new[t][c], op = Op(old[t][c], new[t][c])
      PROVE  ch \in ColumnChanges(old, new)
  <2>1. c \in (IF Absent \in {old[t], new[t]} THEN {} ELSE {e \in Column : old[t][e] # new[t][e]})
    BY <1>4
  <2>2. ch \in {[op |-> Op(old[t][d], new[t][d]), table |-> t, column |-> d] :
                  d \in IF Absent \in {old[t], new[t]} THEN {}
                        ELSE {e \in Column : old[t][e] # new[t][e]}}
    BY <1>4, <2>1
  <2>3. QED
    BY <2>2 DEF ColumnChanges
<1>5. QED
  BY <1>1, <1>2, <1>3, <1>4

-------------------------------------------------------------------------------
(***************************************************************************)
(* A migration runs on the schema it comes from and on the one it goes to, *)
(* and leads from both of them to the second.                              *)
(***************************************************************************)
LEMMA MigrationRuns ==
  ASSUME NEW old \in Schema, NEW new \in Schema, NEW s \in {old, new}
  PROVE  Runs(MigrationTo(old, new), s)
<1> DEFINE m == MigrationTo(old, new)
<1> SUFFICES ASSUME NEW ch \in m.changes, ch.column # Absent
             PROVE  /\ s[ch.table] # Absent
                    /\ ch.op = "alter" => s[ch.table][ch.column] # Absent
  BY DEF Runs
<1>1. ch \in TableChanges(old, new) \/ ch \in ColumnChanges(old, new)
  BY DEF MigrationTo, Changes
<1>2. ch \notin TableChanges(old, new)
  BY DEF TableChanges
<1>3. PICK t \in Table : ch \in {[op |-> Op(old[t][d], new[t][d]), table |-> t, column |-> d] :
                                     d \in IF Absent \in {old[t], new[t]} THEN {}
                                           ELSE {e \in Column : old[t][e] # new[t][e]}}
  BY <1>1, <1>2 DEF ColumnChanges
<1>4. PICK c \in (IF Absent \in {old[t], new[t]} THEN {} ELSE {e \in Column : old[t][e] # new[t][e]}) :
        ch = [op |-> Op(old[t][c], new[t][c]), table |-> t, column |-> c]
  BY <1>3
<1>5. Absent \notin {old[t], new[t]} /\ c \in Column /\ old[t][c] # new[t][c]
  BY <1>4
<1>6. ch.table = t /\ ch.column = c /\ ch.op = Op(old[t][c], new[t][c])
  BY <1>4
<1>7. s[t] # Absent
  BY <1>5
<1>8. ch.op = "alter" => old[t][c] # Absent /\ new[t][c] # Absent
  BY <1>6 DEF Op
<1>9. QED
  BY <1>6, <1>7, <1>8

LEMMA MigrationLeads ==
  ASSUME NEW old \in Schema, NEW new \in Schema, NEW s \in {old, new}
  PROVE  Migrated(MigrationTo(old, new), s) = new
<1> DEFINE m == MigrationTo(old, new)
<1>1. m.to = new
  BY DEF MigrationTo
<1>2. new = [t \in Table |-> new[t]] /\ s \in Schema
  BY DEF Schema
<1>3. ASSUME NEW t \in Table
      PROVE  MigratedTable(m, t, s[t]) = new[t]
  <2>0. new[t] \in Columns \cup {Absent} /\ old[t] \in Columns \cup {Absent}
    BY DEF Schema
  <2>1. /\ Has(m, "add", t, Absent) <=> old[t] = Absent /\ new[t] # Absent
        /\ Has(m, "drop", t, Absent) <=> old[t] # Absent /\ new[t] = Absent
    BY TableChange DEF Op
  <2> HIDE DEF m
  <2>2. CASE s[t] = Absent
    BY <1>1, <2>1, <2>2 DEF MigratedTable
  <2>3. CASE s[t] # Absent /\ new[t] = Absent
    <3>1. old[t] # Absent
      BY <2>3
    <3>2. QED
      BY <2>1, <2>3, <3>1 DEF MigratedTable
  <2>4. CASE s[t] # Absent /\ new[t] # Absent
    <3>1. MigratedTable(m, t, s[t]) = [c \in Column |-> MigratedColumn(m, t, c, s[t][c])]
      BY <2>1, <2>4 DEF MigratedTable
    <3>2. new[t] = [c \in Column |-> new[t][c]]
      BY <2>0, <2>4 DEF Columns
    <3>3. ASSUME NEW c \in Column
          PROVE  MigratedColumn(m, t, c, s[t][c]) = new[t][c]
      <4>1. \A op : Has(m, op, t, c) <=> /\ old[t] # Absent /\ new[t] # Absent
                                         /\ old[t][c] # new[t][c]
                                         /\ op = Op(old[t][c], new[t][c])
        BY ColumnChange DEF m
      <4>2. CASE old[t] = Absent
        <5>1. s[t] = new[t]
          BY <2>4, <4>2
        <5>2. QED
          BY <4>1, <4>2, <5>1 DEF MigratedColumn
      <4>3. CASE old[t] # Absent /\ old[t][c] = new[t][c]
        <5>1. s[t][c] = new[t][c]
          BY <4>3
        <5>2. QED
          BY <4>1, <4>3, <5>1 DEF MigratedColumn
      <4>4. CASE old[t] # Absent /\ old[t][c] # new[t][c]
        <5>1. /\ Has(m, "add", t, c) <=> old[t][c] = Absent
              /\ Has(m, "drop", t, c) <=> old[t][c] # Absent /\ new[t][c] = Absent
              /\ Has(m, "alter", t, c) <=> old[t][c] # Absent /\ new[t][c] # Absent
          BY <2>4, <4>1, <4>4 DEF Op
        <5>2. s[t][c] = old[t][c] \/ s[t][c] = new[t][c]
          OBVIOUS
        <5>3. QED
          BY <1>1, <4>4, <5>1, <5>2 DEF MigratedColumn
      <4>5. QED
        BY <4>2, <4>3, <4>4
    <3>4. QED
      BY <3>1, <3>2, <3>3
  <2>5. QED
    BY <2>2, <2>3, <2>4
<1> HIDE DEF m
<1>4. Migrated(m, s) = [t \in Table |-> MigratedTable(m, t, s[t])]
  BY DEF Migrated
<1>5. QED
  BY <1>2, <1>3, <1>4 DEF m

(***************************************************************************)
(* Schemas between which nothing changes are the same.                     *)
(***************************************************************************)
LEMMA NothingChanges ==
  ASSUME NEW old \in Schema, NEW new \in Schema, Changes(old, new) = {}
  PROVE  old = new
<1>1. \A ch : ch \notin MigrationTo(old, new).changes
  BY DEF MigrationTo
<1>2. \A op, t, c : ~Has(MigrationTo(old, new), op, t, c)
  BY <1>1 DEF Has
<1>3. ASSUME NEW t \in Table
      PROVE  old[t] = new[t]
  <2>1. (old[t] = Absent) = (new[t] = Absent)
    BY <1>2, TableChange
  <2>2. CASE old[t] = Absent
    BY <2>1, <2>2
  <2>3. CASE old[t] # Absent
    <3>1. new[t] # Absent /\ old[t] \in Columns /\ new[t] \in Columns
      BY <2>1, <2>3 DEF Schema
    <3>2. \A c \in Column : old[t][c] = new[t][c]
      BY <1>2, <2>3, <3>1, ColumnChange
    <3>3. QED
      BY <3>1, <3>2 DEF Columns
  <2>4. QED
    BY <2>2, <2>3
<1>4. old = [t \in Table |-> old[t]] /\ new = [t \in Table |-> new[t]]
  BY DEF Schema
<1>5. QED
  BY <1>3, <1>4

-------------------------------------------------------------------------------
(***************************************************************************)
(* One history of schemas: S[0] is empty, file number v leads from S[v-1]  *)
(* to S[v]. There are k files, and the first l of them are recorded.       *)
(* S[k+1] is what schema.sql says, which is ahead of the files between the *)
(* time it is written and the time the migration is.                       *)
(***************************************************************************)
Alone == \E g : Generator = {g}

FilesAre(S, k) ==
  /\ \A n \in DOMAIN files :
       n.version \in 1..k /\ files[n] = MigrationTo(S[n.version - 1], S[n.version])
  /\ \A v \in 1..k : \E n \in DOMAIN files : n.version = v
  /\ \A n, m \in DOMAIN files : n.version = m.version => n = m

LedgerIs(l) == ledger = {n \in DOMAIN files : n.version <= l}

\* An image has the files there once were, which are the first of those there are.
ImageIs ==
  image # Absent =>
    /\ DOMAIN image \subseteq DOMAIN files
    /\ \A n \in DOMAIN image :
         /\ image[n] = files[n]
         /\ \A m \in DOMAIN files : m.version <= n.version => m \in DOMAIN image

SchemaIs(S, k) == IF schemaSql = Absent THEN k = 0 /\ S[1] = Empty ELSE schemaSql = S[k + 1]

GeneratorIs(S, k) ==
  \A g \in Generator :
    /\ pc[g] # "write" => IF snapshot[g] = Absent THEN k = 0 ELSE snapshot[g] = S[k]
    /\ pc[g] \in {"idle", "schema"} => S[k + 1] = S[k]
    /\ pc[g] \in {"diff", "write"} => schemaSql = ir[g]
    /\ pc[g] = "write" => /\ snapshot[g] = ir[g]
                          /\ draft[g].name.version = k + 1
                          /\ draft[g].file = MigrationTo(S[k], S[k + 1])

Straight(S, k, l) ==
  /\ l <= k /\ S[0] = Empty
  /\ FilesAre(S, k) /\ LedgerIs(l) /\ ImageIs
  /\ db \in {S[l], S[l + 1]}
  /\ SchemaIs(S, k) /\ GeneratorIs(S, k)

GeneratorTyped ==
  /\ snapshot \in [Generator -> Schema \cup {Absent}]
  /\ pc \in [Generator -> {"idle", "schema", "diff", "write"}]
  /\ ir \in [Generator -> Schema]
  /\ draft = [g \in Generator |-> draft[g]]
  /\ schemaSql \in Schema \cup {Absent}
  /\ mishaps \in Nat

OneHistory == \E S \in [Nat -> Schema], k \in Nat, l \in Nat : Straight(S, k, l)

FilesInv == GeneratorTyped /\ (Alone /\ mishaps = 0 => OneHistory)

LEMMA EmptyIsASchema == Empty \in Schema
BY DEF Empty, Schema

LEMMA FilesInitially == Init => FilesInv
<1> SUFFICES ASSUME Init PROVE FilesInv
  OBVIOUS
<1>1. GeneratorTyped
  BY EmptyIsASchema DEF Init, GeneratorTyped
<1>2. OneHistory
  <2> DEFINE S == [i \in Nat |-> Empty]
  <2>1. S \in [Nat -> Schema] /\ S[0] = Empty /\ S[0 + 1] = Empty /\ S[1] = Empty
    BY EmptyIsASchema
  <2> HIDE DEF S
  <2>2. DOMAIN files = {}
    BY DEF Init
  <2>3. FilesAre(S, 0) /\ LedgerIs(0) /\ ImageIs
    BY <2>2 DEF FilesAre, LedgerIs, ImageIs, Init
  <2>4. db \in {S[0], S[0 + 1]} /\ SchemaIs(S, 0) /\ GeneratorIs(S, 0)
    BY <2>1 DEF SchemaIs, GeneratorIs, Init
  <2>5. Straight(S, 0, 0)
    BY <2>1, <2>3, <2>4 DEF Straight
  <2>6. QED
    BY <2>1, <2>5 DEF OneHistory
<1>3. QED
  BY <1>1, <1>2 DEF FilesInv

LEMMA TheNextNumber ==
  ASSUME NEW S, NEW k \in Nat, FilesAre(S, k)
  PROVE  NextVersion = k + 1
<1>1. {n.version : n \in DOMAIN files} \cup {0} = 0..k
  <2>1. ASSUME NEW v \in 1..k PROVE v \in {n.version : n \in DOMAIN files}
    BY DEF FilesAre
  <2>2. \A n \in DOMAIN files : n.version \in 1..k
    BY DEF FilesAre
  <2>3. QED
    BY <2>1, <2>2
<1>2. Max(0..k) = k
  <2>1. k \in 0..k /\ \A y \in 0..k : k >= y
    OBVIOUS
  <2>2. \A x \in 0..k : (\A y \in 0..k : x >= y) => x = k
    BY <2>1
  <2>3. QED
    BY <2>1, <2>2 DEF Max
<1>3. QED
  BY <1>1, <1>2 DEF NextVersion

(***************************************************************************)
(* The types are kept by every step, and mishaps are never forgotten.      *)
(***************************************************************************)
LEMMA TypesKept ==
  GeneratorTyped /\ [Next]_vars => GeneratorTyped' /\ (mishaps' = 0 => mishaps = 0)
<1> SUFFICES ASSUME GeneratorTyped, [Next]_vars
             PROVE  GeneratorTyped' /\ (mishaps' = 0 => mishaps = 0)
  OBVIOUS
<1> USE DEF GeneratorTyped, Mishap, GoesOn
<1>1. ASSUME NEW g \in Generator, Compile(g)
      PROVE  GeneratorTyped' /\ (mishaps' = 0 => mishaps = 0)
  <2>1. PICK s \in Schema : ir' = [ir EXCEPT ![g] = s]
    BY <1>1 DEF Compile
  <2>2. mishaps' \in Nat /\ (mishaps' = 0 => mishaps = 0)
    BY <1>1 DEF Compile
  <2>3. QED
    BY <1>1, <2>1, <2>2 DEF Compile
<1>2. ASSUME NEW g \in Generator, WriteSchema(g)
      PROVE  GeneratorTyped' /\ (mishaps' = 0 => mishaps = 0)
  BY <1>2 DEF WriteSchema
<1>3. ASSUME NEW g \in Generator, Diff(g)
      PROVE  GeneratorTyped' /\ (mishaps' = 0 => mishaps = 0)
  <2>1. /\ UNCHANGED <<ir, schemaSql, mishaps>>
        /\ snapshot' = [snapshot EXCEPT ![g] = ir[g]]
        /\ \E to \in {"idle", "write"} : pc' = [pc EXCEPT ![g] = to]
        /\ \E d : draft' = [draft EXCEPT ![g] = d]
    BY <1>3 DEF Diff
  <2>2. draft' = [h \in Generator |-> draft'[h]]
    BY <2>1
  <2>3. QED
    BY <2>1, <2>2
<1>4. ASSUME NEW g \in Generator, WriteMigration(g)
      PROVE  GeneratorTyped' /\ (mishaps' = 0 => mishaps = 0)
  <2>1. draft' = [draft EXCEPT ![g] = Absent]
    BY <1>4 DEF WriteMigration
  <2>2. draft' = [h \in Generator |-> draft'[h]]
    BY <2>1
  <2>3. QED
    BY <1>4, <2>2 DEF WriteMigration
<1>5. ASSUME NEW g \in Generator, Crash(g)
      PROVE  GeneratorTyped' /\ (mishaps' = 0 => mishaps = 0)
  <2>1. draft' = [draft EXCEPT ![g] = Absent]
    BY <1>5 DEF Crash
  <2>2. draft' = [h \in Generator |-> draft'[h]]
    BY <2>1
  <2>3. QED
    BY <1>5, <2>2 DEF Crash
<1>6. CASE Bootstrap \/ Boot \/ (\E n \in Pending : Migrate(n)) \/ BootEnds \/ UNCHANGED vars
  BY <1>6 DEF Bootstrap, Boot, Migrate, BootEnds, vars, generator
<1>7. CASE Delete
  BY <1>7 DEF Delete, generator
<1>8. QED
  BY <1>1, <1>2, <1>3, <1>4, <1>5, <1>6, <1>7 DEF Next

-------------------------------------------------------------------------------
(***************************************************************************)
(* Each step goes on with the history, as long as nothing goes wrong.      *)
(***************************************************************************)
LEMMA CompileKeeps ==
  ASSUME GeneratorTyped, Alone, NEW S \in [Nat -> Schema], NEW k \in Nat, NEW l \in Nat,
         Straight(S, k, l), NEW g \in Generator, Compile(g)
  PROVE  Straight(S, k, l)'
<1>1. UNCHANGED <<snapshot, draft, schemaSql, files, db, ledger, image>>
  BY DEF Compile
<1>2. /\ pc[g] = "idle" /\ pc' = [pc EXCEPT ![g] = "schema"]
      /\ \A h \in Generator : h = g
  BY DEF Compile, GoesOn, Alone
<1>3. pc'[g] = "schema"
  BY <1>2 DEF GeneratorTyped
<1>4. GeneratorIs(S, k)'
  BY <1>1, <1>2, <1>3 DEF Straight, GeneratorIs
<1>5. QED
  BY <1>1, <1>4 DEF Straight, FilesAre, LedgerIs, ImageIs, SchemaIs

LEMMA WriteSchemaKeeps ==
  ASSUME GeneratorTyped, Alone, NEW S \in [Nat -> Schema], NEW k \in Nat, NEW l \in Nat,
         Straight(S, k, l), NEW g \in Generator, WriteSchema(g)
  PROVE  OneHistory'
<1>0. PICK R : R = [S EXCEPT ![k + 1] = ir[g]]
  OBVIOUS
<1>1. /\ UNCHANGED <<snapshot, ir, draft, files, db, ledger, image>>
      /\ schemaSql' = ir[g] /\ ir[g] \in Schema
  BY DEF WriteSchema, GeneratorTyped
<1>2. /\ pc[g] = "schema" /\ pc'[g] = "diff" /\ \A h \in Generator : h = g
  BY DEF WriteSchema, GoesOn, Alone, GeneratorTyped
<1>3. R \in [Nat -> Schema] /\ R[k + 1] = ir[g] /\ \A i \in 0..k : R[i] = S[i]
  BY <1>0, <1>1
<1>4. S[k + 1] = S[k] /\ l <= k /\ S[0] = Empty
  BY <1>2 DEF Straight, GeneratorIs
<1>5. FilesAre(R, k)'
  <2>1. ASSUME NEW n \in DOMAIN files
        PROVE  n.version \in 1..k /\ files[n] = MigrationTo(R[n.version - 1], R[n.version])
    <3>1. n.version \in 1..k /\ files[n] = MigrationTo(S[n.version - 1], S[n.version])
      BY DEF Straight, FilesAre
    <3>2. n.version \in 0..k /\ n.version - 1 \in 0..k
      BY <3>1
    <3>3. QED
      BY <1>3, <3>1, <3>2
  <2>2. QED
    BY <1>1, <2>1 DEF Straight, FilesAre
<1>6. (db \in {R[l], R[l + 1]})'
  <2>1. CASE l = k
    BY <1>1, <1>3, <1>4, <2>1 DEF Straight
  <2>2. CASE l # k
    <3>1. l \in 0..k /\ l + 1 \in 0..k
      BY <1>4, <2>2
    <3>2. QED
      BY <1>1, <1>3, <3>1 DEF Straight
  <2>3. QED
    BY <2>1, <2>2
<1>7. SchemaIs(R, k)'
  <2>1. schemaSql' # Absent
    BY <1>1, SchemaAssumption
  <2>2. QED
    BY <1>1, <1>3, <2>1 DEF SchemaIs
<1>8. GeneratorIs(R, k)'
  <2>1. IF snapshot[g] = Absent THEN k = 0 ELSE snapshot[g] = S[k]
    BY <1>2 DEF Straight, GeneratorIs
  <2>2. QED
    BY <1>1, <1>2, <1>3, <2>1 DEF GeneratorIs
<1>9. LedgerIs(l)' /\ ImageIs'
  BY <1>1 DEF Straight, LedgerIs, ImageIs
<1>10. Straight(R, k, l)'
  BY <1>3, <1>4, <1>5, <1>6, <1>7, <1>8, <1>9 DEF Straight
<1>11. QED
  BY <1>3, <1>10 DEF OneHistory

LEMMA DiffKeeps ==
  ASSUME GeneratorTyped, Alone, NEW S \in [Nat -> Schema], NEW k \in Nat, NEW l \in Nat,
         Straight(S, k, l), NEW g \in Generator, Diff(g)
  PROVE  Straight(S, k, l)'
<1> DEFINE first   == snapshot[g] = Absent
           file    == MigrationTo(IF first THEN Empty ELSE snapshot[g], ir[g])
           nothing == ~first /\ file.changes = {}
<1>1. UNCHANGED <<ir, schemaSql, files, db, ledger, image>>
  BY DEF Diff
<1>2. /\ pc[g] = "diff" /\ pc'[g] = (IF nothing THEN "idle" ELSE "write")
      /\ \A h \in Generator : h = g
  BY DEF Diff, GoesOn, Alone, GeneratorTyped
<1>3. schemaSql = ir[g] /\ ir[g] \in Schema /\ S[k] \in Schema /\ S[k + 1] \in Schema
  BY <1>2 DEF Straight, GeneratorIs, GeneratorTyped
<1>4. S[k + 1] = ir[g]
  BY <1>3, SchemaAssumption DEF Straight, SchemaIs
<1>5. (IF first THEN Empty ELSE snapshot[g]) = S[k]
  BY <1>2 DEF Straight, GeneratorIs
<1>6. file = MigrationTo(S[k], S[k + 1])
  BY <1>4, <1>5
<1>7. snapshot'[g] = ir[g] /\ snapshot'[g] # Absent
  BY <1>3, SchemaAssumption DEF Diff, GeneratorTyped
<1>8. GeneratorIs(S, k)'
  <2>1. CASE nothing
    <3>1. Changes(S[k], S[k + 1]) = {}
      BY <1>6, <2>1 DEF MigrationTo
    <3>2. S[k] = S[k + 1]
      BY <1>3, <3>1, NothingChanges
    <3>3. QED
      BY <1>2, <1>4, <1>7, <2>1, <3>2 DEF GeneratorIs
  <2>2. CASE ~nothing
    <3>1. \E about : draft'[g] = [name |-> Numbered(NextVersion, about), file |-> file]
      BY <2>2 DEF Diff, GeneratorTyped
    <3>2. NextVersion = k + 1
      BY TheNextNumber DEF Straight
    <3>3. draft'[g].name.version = k + 1 /\ draft'[g].file = file
      BY <3>1, <3>2 DEF Numbered
    <3> HIDE DEF file
    <3>4. QED
      BY <1>1, <1>2, <1>3, <1>6, <1>7, <2>2, <3>3 DEF GeneratorIs
  <2>3. QED
    BY <2>1, <2>2
<1>9. QED
  BY <1>1, <1>8 DEF Straight, FilesAre, LedgerIs, ImageIs, SchemaIs

LEMMA WriteMigrationKeeps ==
  ASSUME GeneratorTyped, Alone, NEW S \in [Nat -> Schema], NEW k \in Nat, NEW l \in Nat,
         Straight(S, k, l), NEW g \in Generator, WriteMigration(g)
  PROVE  OneHistory'
<1>0. PICK R, name : R = [S EXCEPT ![k + 2] = S[k + 1]] /\ name = draft[g].name
  OBVIOUS
<1>1. /\ UNCHANGED <<snapshot, ir, schemaSql, db, ledger, image>>
      /\ files' = [n \in DOMAIN files \cup {name} |-> IF n = name THEN draft[g].file ELSE files[n]]
  BY <1>0 DEF WriteMigration
<1>2. /\ pc[g] = "write" /\ pc'[g] = "idle" /\ \A h \in Generator : h = g
  BY DEF WriteMigration, GoesOn, Alone, GeneratorTyped
<1>3. /\ schemaSql = ir[g] /\ snapshot[g] = ir[g] /\ ir[g] \in Schema
      /\ name.version = k + 1 /\ draft[g].file = MigrationTo(S[k], S[k + 1])
  BY <1>0, <1>2 DEF Straight, GeneratorIs, GeneratorTyped
<1>4. /\ R \in [Nat -> Schema] /\ R[(k + 1) + 1] = S[k + 1] /\ \A i \in 0..k + 1 : R[i] = S[i]
  <2>1. S[k + 1] \in Schema /\ k + 2 = (k + 1) + 1
    OBVIOUS
  <2>2. QED
    BY <1>0, <2>1
<1>5. \A n \in DOMAIN files : n.version \in 1..k
  BY DEF Straight, FilesAre
<1>6. name \notin DOMAIN files
  BY <1>3, <1>5
<1>7. /\ DOMAIN files' = DOMAIN files \cup {name}
      /\ files'[name] = MigrationTo(S[k], S[k + 1])
      /\ \A n \in DOMAIN files : files'[n] = files[n]
  BY <1>1, <1>3, <1>6
<1>8. FilesAre(R, k + 1)'
  <2>1. ASSUME NEW n \in DOMAIN files'
        PROVE  n.version \in 1..k + 1 /\ files'[n] = MigrationTo(R[n.version - 1], R[n.version])
    <3>1. CASE n = name
      <4>1. R[k] = S[k] /\ R[k + 1] = S[k + 1] /\ (k + 1) - 1 = k
        BY <1>4
      <4>2. QED
        BY <1>3, <1>7, <3>1, <4>1
    <3>2. CASE n \in DOMAIN files
      <4>1. n.version \in 1..k /\ files[n] = MigrationTo(S[n.version - 1], S[n.version])
        BY <3>2 DEF Straight, FilesAre
      <4>2. R[n.version] = S[n.version] /\ R[n.version - 1] = S[n.version - 1]
        BY <1>4, <4>1
      <4>3. QED
        BY <1>7, <3>2, <4>1, <4>2
    <3>3. QED
      BY <1>7, <3>1, <3>2
  <2>2. ASSUME NEW v \in 1..k + 1
        PROVE  \E n \in DOMAIN files' : n.version = v
    <3>1. CASE v = k + 1
      BY <1>3, <1>7, <3>1
    <3>2. CASE v # k + 1
      <4>1. v \in 1..k
        BY <3>2
      <4>2. QED
        BY <1>7, <4>1 DEF Straight, FilesAre
    <3>3. QED
      BY <3>1, <3>2
  <2>3. ASSUME NEW n \in DOMAIN files', NEW m \in DOMAIN files', n.version = m.version
        PROVE  n = m
    BY <1>3, <1>5, <1>7, <2>3 DEF Straight, FilesAre
  <2>4. QED
    BY <2>1, <2>2, <2>3 DEF FilesAre
<1>9. l <= k /\ l <= k + 1 /\ S[0] = Empty /\ R[0] = Empty
  BY <1>4 DEF Straight
<1>10. LedgerIs(l)'
  <2>1. {n \in DOMAIN files' : n.version <= l} = {n \in DOMAIN files : n.version <= l}
    BY <1>3, <1>7, <1>9
  <2>2. QED
    BY <1>1, <2>1 DEF Straight, LedgerIs
<1>11. ImageIs'
  <2> SUFFICES ASSUME image # Absent
               PROVE  /\ DOMAIN image \subseteq DOMAIN files'
                      /\ \A n \in DOMAIN image :
                           /\ image[n] = files'[n]
                           /\ \A m \in DOMAIN files' : m.version <= n.version => m \in DOMAIN image
    BY <1>1 DEF ImageIs
  <2>1. /\ DOMAIN image \subseteq DOMAIN files
        /\ \A n \in DOMAIN image :
             /\ image[n] = files[n]
             /\ \A m \in DOMAIN files : m.version <= n.version => m \in DOMAIN image
    BY DEF Straight, ImageIs
  <2>2. ASSUME NEW n \in DOMAIN image, NEW m \in DOMAIN files', m.version <= n.version
        PROVE  m \in DOMAIN image
    <3>1. n.version \in 1..k
      BY <1>5, <2>1
    <3>2. m # name
      BY <1>3, <2>2, <3>1
    <3>3. QED
      BY <1>7, <2>1, <2>2, <3>2
  <2>3. QED
    BY <1>7, <2>1, <2>2
<1>12. (db \in {R[l], R[l + 1]})'
  <2>1. l \in 0..k + 1 /\ l + 1 \in 0..k + 1
    BY <1>9
  <2>2. QED
    BY <1>1, <1>4, <2>1 DEF Straight
<1>13. S[k + 1] = ir[g]
  BY <1>3, SchemaAssumption DEF Straight, SchemaIs
<1>14. R[k + 1] = S[k + 1]
  BY <1>4
<1>15. SchemaIs(R, k + 1)' /\ GeneratorIs(R, k + 1)'
  <2>1. schemaSql' = R[(k + 1) + 1] /\ schemaSql' # Absent
    BY <1>1, <1>3, <1>4, <1>13, SchemaAssumption
  <2>2. snapshot'[g] = R[k + 1] /\ R[(k + 1) + 1] = R[k + 1] /\ snapshot'[g] # Absent
    BY <1>1, <1>3, <1>4, <1>13, <1>14, SchemaAssumption
  <2>3. QED
    BY <1>2, <2>1, <2>2 DEF SchemaIs, GeneratorIs
<1>16. k + 1 \in Nat /\ Straight(R, k + 1, l)'
  BY <1>8, <1>9, <1>10, <1>11, <1>12, <1>15 DEF Straight
<1>17. QED
  BY <1>4, <1>16 DEF OneHistory

LEMMA BootstrapKeeps ==
  ASSUME GeneratorTyped, NEW S \in [Nat -> Schema], NEW k \in Nat, NEW l \in Nat,
         Straight(S, k, l), Bootstrap
  PROVE  Straight(S, k, k)'
<1>1. /\ UNCHANGED <<snapshot, pc, ir, draft, schemaSql, files, image>>
      /\ schemaSql # Absent /\ db' = schemaSql /\ ledger' = ledger \cup DOMAIN files /\ image = Absent
  BY DEF Bootstrap, IsFresh, generator
<1>2. db' = S[k + 1]
  BY <1>1 DEF Straight, SchemaIs
<1>3. LedgerIs(k)'
  <2>1. ledger' = DOMAIN files
    BY <1>1 DEF Straight, LedgerIs
  <2>2. \A n \in DOMAIN files : n.version \in 1..k
    BY DEF Straight, FilesAre
  <2>3. QED
    BY <1>1, <2>1, <2>2 DEF LedgerIs
<1>4. QED
  BY <1>1, <1>2, <1>3 DEF Straight, FilesAre, ImageIs, SchemaIs, GeneratorIs

LEMMA BootKeeps ==
  ASSUME NEW S \in [Nat -> Schema], NEW k \in Nat, NEW l \in Nat,
         Straight(S, k, l), Boot \/ BootEnds \/ UNCHANGED vars
  PROVE  Straight(S, k, l)'
<1>1. /\ UNCHANGED <<snapshot, pc, ir, draft, schemaSql, files, db, ledger>>
      /\ image' \in {files, Absent, image}
  BY DEF Boot, BootEnds, vars, generator
<1>2. ImageIs'
  BY <1>1 DEF Straight, ImageIs
<1>3. QED
  BY <1>1, <1>2 DEF Straight, FilesAre, LedgerIs, SchemaIs, GeneratorIs

(***************************************************************************)
(* The file that is next is the one after the last that is recorded.       *)
(***************************************************************************)
LEMMA TheNextFile ==
  ASSUME NEW S \in [Nat -> Schema], NEW k \in Nat, NEW l \in Nat, Straight(S, k, l),
         NEW n \in Pending, IsNext(n)
  PROVE  /\ n \in DOMAIN files /\ n.version = l + 1 /\ l + 1 <= k
         /\ image[n] = MigrationTo(S[l], S[l + 1])
         /\ image # Absent
<1>1. image # Absent /\ n \in DOMAIN image \ ledger
  BY DEF Pending
<1>2. /\ n \in DOMAIN files /\ image[n] = files[n]
      /\ \A m \in DOMAIN files : m.version <= n.version => m \in DOMAIN image
  BY <1>1 DEF Straight, ImageIs
<1>3. n.version \in 1..k /\ ~(n.version <= l) /\ l <= k
  BY <1>1, <1>2 DEF Straight, FilesAre, LedgerIs
<1>4. PICK m \in DOMAIN files : m.version = l + 1
  <2>1. l + 1 \in 1..k
    BY <1>3
  <2>2. QED
    BY <2>1 DEF Straight, FilesAre
<1>5. m \in DOMAIN image /\ m \notin ledger
  BY <1>2, <1>3, <1>4 DEF Straight, LedgerIs
<1>6. m \in Pending
  BY <1>1, <1>5 DEF Pending
<1>7. n.version <= m.version
  BY <1>6 DEF IsNext, NamedBefore
<1>8. n.version = l + 1
  BY <1>3, <1>4, <1>7
<1>9. files[n] = MigrationTo(S[n.version - 1], S[n.version])
  BY <1>2 DEF Straight, FilesAre
<1>10. (l + 1) - 1 = l
  OBVIOUS
<1>11. QED
  BY <1>1, <1>2, <1>3, <1>8, <1>9, <1>10

LEMMA MigrateKeeps ==
  ASSUME NEW S \in [Nat -> Schema], NEW k \in Nat, NEW l \in Nat, Straight(S, k, l),
         NEW n \in Pending, Migrate(n)
  PROVE  Straight(S, k, l + 1)' /\ db' = S[l + 1]
<1>1. /\ UNCHANGED <<snapshot, pc, ir, draft, schemaSql, files, image>>
      /\ IsNext(n) /\ db' = Migrated(image[n], db) /\ ledger' = ledger \cup {n}
  BY DEF Migrate, generator
<1>2. /\ n \in DOMAIN files /\ n.version = l + 1 /\ l + 1 <= k
      /\ image[n] = MigrationTo(S[l], S[l + 1])
  BY <1>1, TheNextFile
<1>3. S[l] \in Schema /\ S[l + 1] \in Schema /\ db \in {S[l], S[l + 1]}
  BY DEF Straight
<1>4. db' = S[l + 1]
  BY <1>1, <1>2, <1>3, MigrationLeads
<1>5. LedgerIs(l + 1)'
  <2>1. ledger = {m \in DOMAIN files : m.version <= l}
    BY DEF Straight, LedgerIs
  <2>2. ASSUME NEW m \in DOMAIN files
        PROVE  m.version <= l + 1 <=> m.version <= l \/ m = n
    <3>1. m.version \in Nat
      BY DEF Straight, FilesAre
    <3>2. m.version = l + 1 => m = n
      BY <1>2 DEF Straight, FilesAre
    <3>3. QED
      BY <1>2, <3>1, <3>2
  <2>3. QED
    BY <1>1, <1>2, <2>1, <2>2 DEF LedgerIs
<1>6. l + 1 <= k /\ (db \in {S[l + 1], S[(l + 1) + 1]})'
  BY <1>2, <1>4
<1>7. QED
  BY <1>1, <1>4, <1>5, <1>6 DEF Straight, FilesAre, ImageIs, SchemaIs, GeneratorIs

(***************************************************************************)
(* With one generator the files stay one history until a mishap.           *)
(***************************************************************************)
THEOREM FilesHold == Spec => []FilesInv
<1>1. ASSUME FilesInv, [Next]_vars
      PROVE  FilesInv'
  <2>1. GeneratorTyped' /\ (mishaps' = 0 => mishaps = 0)
    BY <1>1, TypesKept DEF FilesInv
  <2>2. SUFFICES ASSUME Alone, mishaps' = 0
                 PROVE  OneHistory'
    BY <2>1 DEF FilesInv
  <2>3. PICK S \in [Nat -> Schema], k \in Nat, l \in Nat : Straight(S, k, l)
    BY <1>1, <2>1, <2>2 DEF FilesInv, OneHistory
  <2>4. GeneratorTyped
    BY <1>1 DEF FilesInv
  <2>5. ASSUME NEW g \in Generator, Compile(g) \/ Diff(g)
        PROVE  OneHistory'
    <3>1. Straight(S, k, l)'
      BY <2>2, <2>3, <2>4, <2>5, CompileKeeps, DiffKeeps
    <3>2. QED
      BY <3>1 DEF OneHistory
  <2>6. ASSUME NEW g \in Generator, WriteSchema(g) \/ WriteMigration(g)
        PROVE  OneHistory'
    BY <2>2, <2>3, <2>4, <2>6, WriteSchemaKeeps, WriteMigrationKeeps
  <2>7. CASE Bootstrap
    <3>1. Straight(S, k, k)'
      BY <2>3, <2>4, <2>7, BootstrapKeeps
    <3>2. QED
      BY <3>1 DEF OneHistory
  <2>8. CASE Boot \/ BootEnds \/ UNCHANGED vars
    <3>1. Straight(S, k, l)'
      BY <2>3, <2>8, BootKeeps
    <3>2. QED
      BY <3>1 DEF OneHistory
  <2>9. ASSUME NEW n \in Pending, Migrate(n)
        PROVE  OneHistory'
    <3>1. Straight(S, k, l + 1)' /\ l + 1 \in Nat
      BY <2>3, <2>9, MigrateKeeps
    <3>2. QED
      BY <3>1 DEF OneHistory
  <2>10. CASE Delete \/ \E g \in Generator : Crash(g)
    <3>1. mishaps' = mishaps + 1
      BY <2>10 DEF Delete, Crash, Mishap
    <3>2. QED
      BY <2>2, <2>4, <3>1 DEF GeneratorTyped
  <2>11. QED
    BY <1>1, <2>5, <2>6, <2>7, <2>8, <2>9, <2>10 DEF Next
<1>2. QED
  BY <1>1, FilesInitially, PTL DEF Spec

-------------------------------------------------------------------------------
(***************************************************************************)
(* With one generator, a database that has run all files has the schema a  *)
(* fresh one would get (gen_app.py), unless there was a mishap.            *)
(***************************************************************************)
THEOREM OneGeneratorConverges == ASSUME Alone PROVE Spec => []OnlyMishapsDiverge
<1>1. FilesInv => OnlyMishapsDiverge
  <2> SUFFICES ASSUME FilesInv, mishaps = 0, Settled
               PROVE  db = schemaSql
    BY DEF OnlyMishapsDiverge
  <2>1. PICK S \in [Nat -> Schema], k \in Nat, l \in Nat : Straight(S, k, l)
    BY DEF FilesInv, OneHistory
  <2>2. PICK n \in DOMAIN files : TRUE
    BY DEF Settled
  <2>3. k >= 1
    BY <2>1, <2>2 DEF Straight, FilesAre
  <2>4. l = k
    <3>1. PICK m \in DOMAIN files : m.version = k
      BY <2>1, <2>3 DEF Straight, FilesAre
    <3>2. m \in ledger
      BY <3>1 DEF Settled
    <3>3. m.version <= l /\ l <= k
      BY <2>1, <3>2 DEF Straight, LedgerIs
    <3>4. QED
      BY <3>1, <3>3
  <2>5. S[k + 1] = S[k]
    <3>1. PICK g \in Generator : pc[g] = "idle"
      BY DEF Settled, Alone
    <3>2. QED
      BY <2>1, <3>1 DEF Straight, GeneratorIs
  <2>6. schemaSql = S[k + 1]
    BY <2>1, <2>3 DEF Straight, SchemaIs
  <2>7. QED
    BY <2>1, <2>4, <2>5, <2>6 DEF Straight
<1>2. QED
  BY <1>1, FilesHold, PTL

(***************************************************************************)
(* With one generator, the file a boot is about to run never fails for     *)
(* what is missing, unless there was a mishap (gen_app.py).                *)
(***************************************************************************)
THEOREM OneGeneratorNeverBlocks == ASSUME Alone PROVE Spec => []OnlyMishapsBlock
<1>1. FilesInv => OnlyMishapsBlock
  <2> SUFFICES ASSUME FilesInv, mishaps = 0, NEW n \in Pending, IsNext(n)
               PROVE  Runs(image[n], db)
    BY DEF OnlyMishapsBlock
  <2>1. PICK S \in [Nat -> Schema], k \in Nat, l \in Nat : Straight(S, k, l)
    BY DEF FilesInv, OneHistory
  <2>2. image[n] = MigrationTo(S[l], S[l + 1])
    BY <2>1, TheNextFile
  <2>3. S[l] \in Schema /\ S[l + 1] \in Schema /\ db \in {S[l], S[l + 1]}
    BY <2>1 DEF Straight
  <2>4. QED
    BY <2>2, <2>3, MigrationRuns
<1>2. QED
  BY <1>1, FilesHold, PTL

(***************************************************************************)
(* With one generator, a file that is recorded by running it has had its   *)
(* effect (sql_writer.py), unless there was a mishap.                      *)
(***************************************************************************)
THEOREM OneGeneratorTakesEffect == ASSUME Alone PROVE Spec => FilesTakeEffect
<1>1. ASSUME FilesInv, [Next]_vars
      PROVE  [mishaps = 0 =>
                \A n \in Pending \cap ledger' :
                  \A ch \in image[n].changes : Present(ch, image[n], db')]_vars
  <2> SUFFICES ASSUME mishaps = 0, NEW n \in Pending \cap ledger',
                      NEW ch \in image[n].changes
               PROVE  Present(ch, image[n], db')
    OBVIOUS
  <2>1. PICK S \in [Nat -> Schema], k \in Nat, l \in Nat : Straight(S, k, l)
    BY <1>1 DEF FilesInv, OneHistory
  <2>2. n \in Pending /\ n \in ledger' /\ n \notin ledger /\ image # Absent
    BY DEF Pending
  <2>3. ledger' # ledger
    BY <2>2
  <2>4. ~Bootstrap
    BY <2>2 DEF Bootstrap
  <2>5. PICK m \in Pending : Migrate(m)
    <3>1. ASSUME NEW g \in Generator, Compile(g) \/ WriteSchema(g) \/ Diff(g) \/ WriteMigration(g) \/ Crash(g)
          PROVE  ledger' = ledger
      BY <3>1 DEF Compile, WriteSchema, Diff, WriteMigration, Crash
    <3>2. Boot \/ BootEnds \/ Delete \/ UNCHANGED vars => ledger' = ledger
      BY DEF Boot, BootEnds, Delete, vars
    <3>3. QED
      BY <1>1, <2>3, <2>4, <3>1, <3>2 DEF Next
  <2>6. n = m
    BY <2>2, <2>5 DEF Migrate
  <2>7. db' = S[l + 1] /\ image[n] = MigrationTo(S[l], S[l + 1])
    <3>1. IsNext(m)
      BY <2>5 DEF Migrate
    <3>2. QED
      BY <2>1, <2>5, <2>6, <3>1, MigrateKeeps, TheNextFile
  <2>8. image[n].to = db'
    BY <2>7 DEF MigrationTo
  <2>9. QED
    BY <2>8 DEF Present
<1>2. QED
  BY <1>1, FilesHold, PTL DEF Spec, FilesTakeEffect

-------------------------------------------------------------------------------
(***************************************************************************)
(* The column of a field, for any ways to declare the field and any number *)
(* of edits and of migrations that wait.                                   *)
(***************************************************************************)

(***************************************************************************)
(* What a file does: its statements, one after the other.                  *)
(***************************************************************************)
IsCourse(c, n, file, d) ==
  c = [i \in 1..n + 1 |-> IF i = 1 THEN d ELSE After(file[i - 1], c[i - 1])]

LEMMA CourseExists ==
  ASSUME NEW file, NEW d
  PROVE  \A n \in Nat : \E c : IsCourse(c, n, file, d)
<1> DEFINE S == {n \in Nat : \E c : IsCourse(c, n, file, d)}
<1>1. 0 \in S
  <2> DEFINE c == [i \in 1..1 |-> d]
  <2>1. c = [i \in 1..0 + 1 |-> IF i = 1 THEN d ELSE After(file[i - 1], c[i - 1])]
    OBVIOUS
  <2> HIDE DEF c
  <2>2. QED
    BY <2>1 DEF IsCourse
<1>2. ASSUME NEW n \in Nat, n \in S
      PROVE  n + 1 \in S
  <2>1. PICK c : IsCourse(c, n, file, d)
    BY <1>2
  <2> DEFINE e == [i \in 1..n + 2 |-> IF i = n + 2 THEN After(file[n + 1], c[n + 1]) ELSE c[i]]
  <2>2. ASSUME NEW i \in 1..(n + 1) + 1
        PROVE  e[i] = IF i = 1 THEN d ELSE After(file[i - 1], e[i - 1])
    <3>1. CASE i = n + 2
      <4>1. e[i] = After(file[n + 1], c[n + 1]) /\ e[i - 1] = c[n + 1] /\ i - 1 = n + 1
        BY <3>1
      <4>2. QED
        BY <3>1, <4>1
    <3>2. CASE i # n + 2
      <4>1. i \in 1..n + 1 /\ e[i] = c[i] /\ (i # 1 => i - 1 \in 1..n + 1 /\ e[i - 1] = c[i - 1])
        BY <3>2
      <4>2. c[i] = IF i = 1 THEN d ELSE After(file[i - 1], c[i - 1])
        BY <2>1, <4>1 DEF IsCourse
      <4>3. QED
        BY <4>1, <4>2
    <3>3. QED
      BY <3>1, <3>2
  <2>3. e = [i \in 1..(n + 1) + 1 |-> e[i]]
    OBVIOUS
  <2> HIDE DEF e
  <2>4. IsCourse(e, n + 1, file, d)
    BY <2>2, <2>3 DEF IsCourse
  <2>5. QED
    BY <2>4
<1> HIDE DEF S
<1>3. Nat \subseteq S
  BY <1>1, <1>2, SetInduction
<1>4. QED
  BY <1>3 DEF S

LEMMA CourseSteps ==
  ASSUME NEW file, NEW d, Len(file) \in Nat
  PROVE  /\ Course(file, d)[1] = d
         /\ \A i \in 1..Len(file) : Course(file, d)[i + 1] = After(file[i], Course(file, d)[i])
<1> DEFINE c == Course(file, d)
<1>1. c = [i \in 1..Len(file) + 1 |-> IF i = 1 THEN d ELSE After(file[i - 1], c[i - 1])]
  <2>1. \E f : IsCourse(f, Len(file), file, d)
    BY CourseExists
  <2>2. QED
    BY <2>1, Zenon DEF Course, IsCourse
<1> HIDE DEF c
<1>2. c[1] = d
  BY <1>1
<1>3. ASSUME NEW i \in 1..Len(file)
      PROVE  c[i + 1] = After(file[i], c[i])
  <2>1. i + 1 \in 1..Len(file) + 1 /\ i + 1 # 1 /\ (i + 1) - 1 = i
    OBVIOUS
  <2>2. c[i + 1] = After(file[(i + 1) - 1], c[(i + 1) - 1])
    BY <1>1, <2>1
  <2>3. QED
    BY <2>1, <2>2
<1>4. QED
  BY <1>2, <1>3 DEF c

Final(file, d) == Course(file, d)[Len(file) + 1]

Maybe(p, s, d) == IF p THEN After(s, d) ELSE d

LEMMA FinalSteps ==
  ASSUME NEW d
  PROVE  /\ Final(<<>>, d) = d
         /\ \A a : Final(<<a>>, d) = After(a, d)
         /\ \A a, b : Final(<<a, b>>, d) = After(b, After(a, d))
<1>1. Final(<<>>, d) = d
  <2>1. Len(<<>>) = 0
    OBVIOUS
  <2>2. QED
    BY <2>1, CourseSteps DEF Final
<1>2. ASSUME NEW a PROVE Final(<<a>>, d) = After(a, d)
  <2>1. PICK f : f = <<a>>
    OBVIOUS
  <2>2. Len(f) = 1 /\ f[1] = a
    BY <2>1
  <2>3. Course(f, d)[1] = d /\ Course(f, d)[1 + 1] = After(f[1], Course(f, d)[1])
    BY <2>2, CourseSteps
  <2>4. QED
    BY <2>1, <2>2, <2>3 DEF Final
<1>3. ASSUME NEW a, NEW b PROVE Final(<<a, b>>, d) = After(b, After(a, d))
  <2>1. PICK f : f = <<a, b>>
    OBVIOUS
  <2>2. Len(f) = 2 /\ f[1] = a /\ f[2] = b
    BY <2>1
  <2>3. /\ Course(f, d)[1] = d /\ Course(f, d)[1 + 1] = After(f[1], Course(f, d)[1])
        /\ Course(f, d)[2 + 1] = After(f[2], Course(f, d)[2])
    BY <2>2, CourseSteps
  <2>4. QED
    BY <2>1, <2>2, <2>3 DEF Final
<1>4. QED
  BY <1>1, <1>2, <1>3

LEMMA PairsAndTriples ==
  ASSUME NEW a, NEW b, NEW c
  PROVE  <<a>> \o <<b>> = <<a, b>> /\ <<a, b>> \o <<c>> = <<a, b, c>>
<1> DEFINE S == {a, b, c}
<1>1. PICK s, t : s = <<a>> \o <<b>> /\ t = <<a, b>>
  OBVIOUS
<1>2. s \in Seq(S) /\ Len(s) = 2 /\ s[1] = a /\ s[2] = b
  BY <1>1
<1>3. t \in Seq(S) /\ Len(t) = 2 /\ t[1] = a /\ t[2] = b
  BY <1>1
<1>4. s = t
  BY <1>2, <1>3, SeqEqual
<1>5. PICK u, v : u = <<a, b>> \o <<c>> /\ v = <<a, b, c>>
  OBVIOUS
<1>6. u \in Seq(S) /\ Len(u) = 3 /\ u[1] = a /\ u[2] = b /\ u[3] = c
  BY <1>5
<1>7. v \in Seq(S) /\ Len(v) = 3 /\ v[1] = a /\ v[2] = b /\ v[3] = c
  BY <1>5
<1>8. u = v
  BY <1>6, <1>7, SeqEqual
<1>9. QED
  BY <1>1, <1>4, <1>5, <1>8

LEMMA Empties ==
  ASSUME NEW a, NEW b
  PROVE  /\ <<>> \o <<>> = <<>> /\ <<>> \o <<a>> = <<a>> /\ <<a>> \o <<>> = <<a>>
         /\ <<a, b>> \o <<>> = <<a, b>>
OBVIOUS

LEMMA FinalOfATriple ==
  ASSUME NEW d, NEW a, NEW b, NEW c
  PROVE  Final(<<a, b, c>>, d) = After(c, After(b, After(a, d)))
<1>1. PICK f : f = <<a, b, c>>
  OBVIOUS
<1>2. Len(f) = 3 /\ f[1] = a /\ f[2] = b /\ f[3] = c
  BY <1>1
<1>3. /\ Course(f, d)[1] = d /\ Course(f, d)[1 + 1] = After(f[1], Course(f, d)[1])
      /\ Course(f, d)[2 + 1] = After(f[2], Course(f, d)[2])
      /\ Course(f, d)[3 + 1] = After(f[3], Course(f, d)[3])
  <2>1. Len(f) \in Nat /\ 1 \in 1..Len(f) /\ 2 \in 1..Len(f) /\ 3 \in 1..Len(f)
    BY <1>2
  <2>2. Course(f, d)[1] = d /\ \A i \in 1..Len(f) : Course(f, d)[i + 1] = After(f[i], Course(f, d)[i])
    BY <2>1, CourseSteps
  <2>3. QED
    BY <2>1, <2>2, Zenon
<1>4. QED
  BY <1>1, <1>2, <1>3 DEF Final

LEMMA FinalOfThree ==
  ASSUME NEW d, NEW a, NEW b, NEW c, NEW p \in BOOLEAN, NEW q \in BOOLEAN, NEW r \in BOOLEAN
  PROVE  Final(If(p, a) \o If(q, b) \o If(r, c), d) = Maybe(r, c, Maybe(q, b, Maybe(p, a, d)))
<1>1. /\ If(p, a) = (IF p THEN <<a>> ELSE <<>>) /\ If(q, b) = (IF q THEN <<b>> ELSE <<>>)
      /\ If(r, c) = (IF r THEN <<c>> ELSE <<>>)
  BY DEF If
<1>2. CASE p /\ q /\ r
  <2>1. If(p, a) = <<a>> /\ If(q, b) = <<b>> /\ If(r, c) = <<c>>
    BY <1>1, <1>2
  <2>2. If(p, a) \o If(q, b) \o If(r, c) = <<a, b, c>>
    <3>1. <<a>> \o <<b>> = <<a, b>> /\ <<a, b>> \o <<c>> = <<a, b, c>>
      BY ONLY PairsAndTriples, Zenon
    <3>2. QED
      BY ONLY <2>1, <3>1, Zenon
  <2>3. Maybe(r, c, Maybe(q, b, Maybe(p, a, d))) = After(c, After(b, After(a, d)))
    BY <1>2 DEF Maybe
  <2>4. Final(<<a, b, c>>, d) = After(c, After(b, After(a, d)))
    BY FinalOfATriple
  <2>5. QED
    BY ONLY <2>2, <2>3, <2>4, Zenon
<1>3. CASE p /\ q /\ ~r
  <2>1. If(p, a) = <<a>> /\ If(q, b) = <<b>> /\ If(r, c) = <<>>
    BY <1>1, <1>3
  <2>2. If(p, a) \o If(q, b) \o If(r, c) = <<a, b>>
    <3>1. <<a>> \o <<b>> = <<a, b>> /\ <<a, b>> \o <<>> = <<a, b>>
      BY ONLY Empties, PairsAndTriples, Zenon
    <3>2. QED
      BY ONLY <2>1, <3>1, Zenon
  <2>3. Maybe(r, c, Maybe(q, b, Maybe(p, a, d))) = After(b, After(a, d))
    BY <1>3 DEF Maybe
  <2>4. Final(<<a, b>>, d) = After(b, After(a, d))
    BY FinalSteps
  <2>5. QED
    BY ONLY <2>2, <2>3, <2>4, Zenon
<1>4. CASE p /\ ~q /\ r
  <2>1. If(p, a) = <<a>> /\ If(q, b) = <<>> /\ If(r, c) = <<c>>
    BY <1>1, <1>4
  <2>2. If(p, a) \o If(q, b) \o If(r, c) = <<a, c>>
    <3>1. <<a>> \o <<>> = <<a>> /\ <<a>> \o <<c>> = <<a, c>>
      BY ONLY Empties, PairsAndTriples, Zenon
    <3>2. QED
      BY ONLY <2>1, <3>1, Zenon
  <2>3. Maybe(r, c, Maybe(q, b, Maybe(p, a, d))) = After(c, After(a, d))
    BY <1>4 DEF Maybe
  <2>4. Final(<<a, c>>, d) = After(c, After(a, d))
    BY FinalSteps
  <2>5. QED
    BY ONLY <2>2, <2>3, <2>4, Zenon
<1>5. CASE p /\ ~q /\ ~r
  <2>1. If(p, a) = <<a>> /\ If(q, b) = <<>> /\ If(r, c) = <<>>
    BY <1>1, <1>5
  <2>2. If(p, a) \o If(q, b) \o If(r, c) = <<a>>
    BY ONLY <2>1, PairsAndTriples, Empties, Zenon
  <2>3. Maybe(r, c, Maybe(q, b, Maybe(p, a, d))) = After(a, d)
    BY <1>5 DEF Maybe
  <2>4. Final(<<a>>, d) = After(a, d)
    BY FinalSteps
  <2>5. QED
    BY ONLY <2>2, <2>3, <2>4, Zenon
<1>6. CASE ~p /\ q /\ r
  <2>1. If(p, a) = <<>> /\ If(q, b) = <<b>> /\ If(r, c) = <<c>>
    BY <1>1, <1>6
  <2>2. If(p, a) \o If(q, b) \o If(r, c) = <<b, c>>
    <3>1. <<>> \o <<b>> = <<b>> /\ <<b>> \o <<c>> = <<b, c>>
      BY ONLY Empties, PairsAndTriples, Zenon
    <3>2. QED
      BY ONLY <2>1, <3>1, Zenon
  <2>3. Maybe(r, c, Maybe(q, b, Maybe(p, a, d))) = After(c, After(b, d))
    BY <1>6 DEF Maybe
  <2>4. Final(<<b, c>>, d) = After(c, After(b, d))
    BY FinalSteps
  <2>5. QED
    BY ONLY <2>2, <2>3, <2>4, Zenon
<1>7. CASE ~p /\ q /\ ~r
  <2>1. If(p, a) = <<>> /\ If(q, b) = <<b>> /\ If(r, c) = <<>>
    BY <1>1, <1>7
  <2>2. If(p, a) \o If(q, b) \o If(r, c) = <<b>>
    BY ONLY <2>1, PairsAndTriples, Empties, Zenon
  <2>3. Maybe(r, c, Maybe(q, b, Maybe(p, a, d))) = After(b, d)
    BY <1>7 DEF Maybe
  <2>4. Final(<<b>>, d) = After(b, d)
    BY FinalSteps
  <2>5. QED
    BY ONLY <2>2, <2>3, <2>4, Zenon
<1>8. CASE ~p /\ ~q /\ r
  <2>1. If(p, a) = <<>> /\ If(q, b) = <<>> /\ If(r, c) = <<c>>
    BY <1>1, <1>8
  <2>2. If(p, a) \o If(q, b) \o If(r, c) = <<c>>
    BY ONLY <2>1, PairsAndTriples, Empties, Zenon
  <2>3. Maybe(r, c, Maybe(q, b, Maybe(p, a, d))) = After(c, d)
    BY <1>8 DEF Maybe
  <2>4. Final(<<c>>, d) = After(c, d)
    BY FinalSteps
  <2>5. QED
    BY ONLY <2>2, <2>3, <2>4, Zenon
<1>9. CASE ~p /\ ~q /\ ~r
  <2>1. If(p, a) = <<>> /\ If(q, b) = <<>> /\ If(r, c) = <<>>
    BY <1>1, <1>9
  <2>2. If(p, a) \o If(q, b) \o If(r, c) = <<>>
    BY ONLY <2>1, PairsAndTriples, Empties, Zenon
  <2>3. Maybe(r, c, Maybe(q, b, Maybe(p, a, d))) = d
    BY <1>9 DEF Maybe
  <2>4. Final(<<>>, d) = d
    BY FinalSteps
  <2>5. QED
    BY ONLY <2>2, <2>3, <2>4, Zenon
<1>10. QED
  BY <1>2, <1>3, <1>4, <1>5, <1>6, <1>7, <1>8, <1>9

-------------------------------------------------------------------------------
(***************************************************************************)
(* What the statements between two contracts do to a column that is like   *)
(* the first of them: it is like the second.                               *)
(***************************************************************************)
AnyField == Fields \cup {Gone}

\* No statement tells these two contracts apart.
Same(f, g) ==
  /\ (f = Gone) = (g = Gone)
  /\ f # Gone => Compared(Definition(f)) = Compared(Definition(g))

Like(c, f) ==
  /\ (c = Gone) = (f = Gone)
  /\ c # Gone => Compared(c) = Compared(Definition(f))

\* A column and its cells as ColumnTypeOK has them.
ColumnState == [column : ColumnShape \cup {Gone}, cells : SUBSET {"null", "value"}]

Standing(d) == d \in ColumnState /\ (d.column = Gone \/ ~populated => d.cells = {})

LEMMA FieldsAreShaped ==
  ASSUME NEW f \in Fields
  PROVE  /\ Definition(f) \in ColumnShape /\ ColumnType(f) \in [name : {"text", "integer", "decimal"}, scale : Nat]
         /\ ColumnType(f).name = f.type
         /\ Definition(f).type.name = f.type /\ Definition(f).default = DefaultClause(f)
         /\ Definition(f).notNull = NotNull(f)
         /\ DefaultClause(f) \in {"now()", "literal", "none"} /\ NotNull(f) \in BOOLEAN
<1>1. f \in [type : {"text", "integer", "decimal"}, scale : Nat, required : BOOLEAN,
             default : BOOLEAN, computed : {"", "now", "current_user"}, reference : BOOLEAN]
  BY FieldsAssumption
<1>2. /\ f.type \in {"text", "integer", "decimal"} /\ f.scale \in Nat /\ f.required \in BOOLEAN
      /\ f.computed \in {"", "now", "current_user"} /\ f.reference \in BOOLEAN
  BY <1>1
<1>3. DefaultClause(f) \in {"now()", "literal", "none"} /\ NotNull(f) \in BOOLEAN
  BY <1>2 DEF DefaultClause, NotNull, ServerDefault
<1>4. /\ ColumnType(f) \in [name : {"text", "integer", "decimal"}, scale : Nat]
      /\ ColumnType(f).name = f.type
  BY <1>2 DEF ColumnType
<1>5. QED
  BY <1>2, <1>3, <1>4 DEF Definition, ColumnShape

LEMMA LikeTheSame ==
  ASSUME NEW c \in ColumnShape \cup {Gone}, NEW f \in AnyField, NEW g \in AnyField,
         Like(c, f), Same(f, g)
  PROVE  Like(c, g)
BY DEF Like, Same

LEMMA SameIsSymmetric ==
  ASSUME NEW f \in AnyField, NEW g \in AnyField, Same(f, g)
  PROVE  Same(g, f)
BY DEF Same

(***************************************************************************)
(* One statement on a column that is there.                                *)
(***************************************************************************)
LEMMA TypeAltered ==
  ASSUME NEW d, Standing(d), d.column # Gone, NEW f \in Fields
  PROVE  LET e == After(Statement("alter_type", f), d)
         IN  /\ Standing(e) /\ e.column # Gone
             /\ e.column.type.name = f.type
             /\ e.column.default = d.column.default /\ e.column.notNull = d.column.notNull
<1> DEFINE e == After(Statement("alter_type", f), d)
<1>1. e = [d EXCEPT !.column.type = ColumnType(f)]
  BY DEF After, Statement
<1>2. d \in ColumnState /\ d.column \in ColumnShape
  BY DEF Standing, ColumnState
<1>3. /\ e \in ColumnState /\ e.column \in ColumnShape /\ e.cells = d.cells
      /\ e.column.type = ColumnType(f)
      /\ e.column.default = d.column.default /\ e.column.notNull = d.column.notNull
  BY <1>1, <1>2, FieldsAreShaped DEF ColumnState, ColumnShape
<1> HIDE DEF e
<1>4. e.column # Gone
  BY <1>3, GoneAssumption
<1>5. QED
  BY <1>3, <1>4, FieldsAreShaped DEF Standing, e

LEMMA DefaultAltered ==
  ASSUME NEW d, Standing(d), d.column # Gone, NEW f \in Fields
  PROVE  LET e == After(Statement(IF DefaultClause(f) = "none" THEN "drop_default" ELSE "set_default", f), d)
         IN  /\ Standing(e) /\ e.column # Gone
             /\ e.column.default = DefaultClause(f)
             /\ e.column.type = d.column.type /\ e.column.notNull = d.column.notNull
<1> DEFINE e == After(Statement(IF DefaultClause(f) = "none" THEN "drop_default" ELSE "set_default", f), d)
<1>1. e = [d EXCEPT !.column.default = DefaultClause(f)]
  <2>1. CASE DefaultClause(f) = "none"
    BY <2>1 DEF After, Statement
  <2>2. CASE DefaultClause(f) # "none"
    BY <2>2 DEF After, Statement
  <2>3. QED
    BY <2>1, <2>2
<1>2. d \in ColumnState /\ d.column \in ColumnShape
  BY DEF Standing, ColumnState
<1>3. /\ e \in ColumnState /\ e.column \in ColumnShape /\ e.cells = d.cells
      /\ e.column.default = DefaultClause(f)
      /\ e.column.type = d.column.type /\ e.column.notNull = d.column.notNull
  BY <1>1, <1>2, FieldsAreShaped DEF ColumnState, ColumnShape
<1> HIDE DEF e
<1>4. e.column # Gone
  BY <1>3, GoneAssumption
<1>5. QED
  BY <1>3, <1>4 DEF Standing, e

LEMMA NotNullAltered ==
  ASSUME NEW d, Standing(d), d.column # Gone, NEW f \in Fields
  PROVE  LET e == After(Statement(IF NotNull(f) THEN "set_not_null" ELSE "drop_not_null", f), d)
         IN  /\ Standing(e) /\ e.column # Gone
             /\ e.column.notNull = NotNull(f)
             /\ e.column.type = d.column.type /\ e.column.default = d.column.default
<1> DEFINE e == After(Statement(IF NotNull(f) THEN "set_not_null" ELSE "drop_not_null", f), d)
<1>0. NotNull(f) \in BOOLEAN
  BY FieldsAreShaped
<1>1. e = [d EXCEPT !.column.notNull = NotNull(f)]
  <2>1. CASE NotNull(f)
    <3>1. NotNull(f) = TRUE
      BY <2>1, <1>0
    <3>2. QED
      BY <3>1 DEF After, Statement
  <2>2. CASE ~NotNull(f)
    <3>1. NotNull(f) = FALSE
      BY <2>2, <1>0
    <3>2. QED
      BY <3>1 DEF After, Statement
  <2>3. QED
    BY <2>1, <2>2
<1>2. d \in ColumnState /\ d.column \in ColumnShape
  BY DEF Standing, ColumnState
<1>3. /\ e \in ColumnState /\ e.column \in ColumnShape /\ e.cells = d.cells
      /\ e.column.notNull = NotNull(f)
      /\ e.column.type = d.column.type /\ e.column.default = d.column.default
  BY <1>0, <1>1, <1>2 DEF ColumnState, ColumnShape
<1> HIDE DEF e
<1>4. e.column # Gone
  BY <1>3, GoneAssumption
<1>5. QED
  BY <1>3, <1>4 DEF Standing, e

LEMMA AlterationsLand ==
  ASSUME NEW old \in Fields, NEW new \in Fields, NEW d, Standing(d), d.column # Gone, Like(d.column, old)
  PROVE  /\ Standing(Final(Alterations(old, new), d))
         /\ Like(Final(Alterations(old, new), d).column, new)
<1> DEFINE p == old.type # new.type
           q == DefaultClause(old) # DefaultClause(new)
           r == NotNull(old) # NotNull(new)
           a == Statement("alter_type", new)
           b == Statement(IF DefaultClause(new) = "none" THEN "drop_default" ELSE "set_default", new)
           c == Statement(IF NotNull(new) THEN "set_not_null" ELSE "drop_not_null", new)
           e == Maybe(p, a, d)
           f == Maybe(q, b, e)
           g == Maybe(r, c, f)
<1>1. Final(Alterations(old, new), d) = g
  <2>1. p \in BOOLEAN /\ q \in BOOLEAN /\ r \in BOOLEAN
    OBVIOUS
  <2>2. Alterations(old, new) = If(p, a) \o If(q, b) \o If(r, c)
    BY DEF Alterations
  <2> HIDE DEF p, q, r, a, b, c
  <2>3. QED
    BY <2>1, <2>2, FinalOfThree
<1>2. /\ d.column.type.name = old.type /\ d.column.default = DefaultClause(old)
      /\ d.column.notNull = NotNull(old)
  BY FieldsAreShaped DEF Like, Compared
<1>3. /\ Standing(e) /\ e.column # Gone /\ e.column.type.name = new.type
      /\ e.column.default = DefaultClause(old) /\ e.column.notNull = NotNull(old)
  <2>1. CASE p
    <3>1. e = After(Statement("alter_type", new), d)
      BY <2>1 DEF Maybe
    <3>2. QED
      BY <1>2, <3>1, TypeAltered
  <2>2. CASE ~p
    <3>1. e = d
      BY <2>2 DEF Maybe
    <3>2. QED
      BY <1>2, <2>2, <3>1
  <2>3. QED
    BY <2>1, <2>2
<1> HIDE DEF e
<1>4. /\ Standing(f) /\ f.column # Gone /\ f.column.type.name = new.type
      /\ f.column.default = DefaultClause(new) /\ f.column.notNull = NotNull(old)
  <2>1. CASE q
    <3>1. f = After(b, e)
      BY <2>1 DEF Maybe
    <3>2. QED
      BY <1>3, <3>1, DefaultAltered
  <2>2. CASE ~q
    <3>1. f = e
      BY <2>2 DEF Maybe
    <3>2. QED
      BY <1>3, <2>2, <3>1
  <2>3. QED
    BY <2>1, <2>2
<1> HIDE DEF f
<1>5. /\ Standing(g) /\ g.column # Gone /\ g.column.type.name = new.type
      /\ g.column.default = DefaultClause(new) /\ g.column.notNull = NotNull(new)
  <2>1. CASE r
    <3>1. g = After(c, f)
      BY <2>1 DEF Maybe
    <3>2. QED
      BY <1>4, <3>1, NotNullAltered
  <2>2. CASE ~r
    <3>1. g = f
      BY <2>2 DEF Maybe
    <3>2. QED
      BY <1>4, <2>2, <3>1
  <2>3. QED
    BY <2>1, <2>2
<1> HIDE DEF g
<1>6. Like(g.column, new)
  BY <1>5, FieldsAreShaped, FieldsAssumption DEF Like, Compared
<1>7. QED
  BY <1>1, <1>5, <1>6

LEMMA MigrationsLand ==
  ASSUME NEW old \in AnyField, NEW new \in AnyField, NEW d, Standing(d), Like(d.column, old)
  PROVE  /\ Standing(Final(Statements(old, new), d))
         /\ Like(Final(Statements(old, new), d).column, new)
<1> DEFINE e == Final(Statements(old, new), d)
<1>1. CASE old = new
  <2>1. Statements(old, new) = <<>>
    BY <1>1 DEF Statements
  <2>2. e = d
    BY <2>1, FinalSteps
  <2>3. QED
    BY <1>1, <2>2
<1>2. CASE old # new /\ old = Gone
  <2>1. Statements(old, new) = <<Statement("add_column", new)>>
    BY <1>2 DEF Statements
  <2>2. e = After(Statement("add_column", new), d)
    BY <2>1, FinalSteps
  <2>3. d.column = Gone
    BY <1>2 DEF Like
  <2>4. e = Added(new)
    BY <2>2, <2>3 DEF After, Statement
  <2>5. e.column = Definition(new) /\ e \in ColumnState /\ (~populated => e.cells = {})
    BY <1>2, <2>4, FieldsAreShaped DEF Added, ColumnState, AnyField
  <2> HIDE DEF e
  <2>6. e.column # Gone
    BY <1>2, <2>5, FieldsAreShaped, GoneAssumption DEF AnyField
  <2>7. Standing(e) /\ Like(e.column, new)
    BY <1>2, <2>5, <2>6 DEF Standing, Like
  <2>8. QED
    BY <2>7 DEF e
<1>3. CASE old # new /\ old # Gone /\ new = Gone
  <2>1. Statements(old, new) = <<Statement("drop_column", old)>>
    BY <1>3 DEF Statements
  <2>2. e = After(Statement("drop_column", old), d)
    BY <2>1, FinalSteps
  <2>3. e = [column |-> Gone, cells |-> {}]
    BY <2>2 DEF After, Statement
  <2>4. QED
    BY <1>3, <2>3 DEF Standing, Like, ColumnState
<1>4. CASE old # new /\ old # Gone /\ new # Gone
  <2>1. Statements(old, new) = Alterations(old, new)
    BY <1>4 DEF Statements
  <2>2. old \in Fields /\ new \in Fields /\ d.column # Gone
    BY <1>4 DEF AnyField, Like
  <2>3. QED
    BY <2>1, <2>2, AlterationsLand
<1>5. QED
  BY <1>1, <1>2, <1>3, <1>4

LEMMA IfIsASequence ==
  ASSUME NEW S, NEW x \in S, NEW p \in BOOLEAN
  PROVE  If(p, x) \in Seq(S) /\ (p => Len(If(p, x)) = 1)
BY DEF If

(***************************************************************************)
(* Where there is nothing to state, no statement would tell the two apart. *)
(***************************************************************************)
LEMMA SilenceIsSameness ==
  ASSUME NEW old \in AnyField, NEW new \in AnyField, Statements(old, new) = <<>>
  PROVE  Same(old, new)
<1>1. CASE old = new
  BY <1>1 DEF Same
<1>2. CASE old # new
  <2>1. old # Gone /\ new # Gone /\ Alterations(old, new) = <<>>
    <3>1. \A x : <<x>> # <<>>
      OBVIOUS
    <3>2. QED
      BY <1>2, <3>1 DEF Statements
  <2> DEFINE a == If(old.type # new.type, Statement("alter_type", new))
             b == If(DefaultClause(old) # DefaultClause(new),
                     Statement(IF DefaultClause(new) = "none" THEN "drop_default" ELSE "set_default", new))
             c == If(NotNull(old) # NotNull(new),
                     Statement(IF NotNull(new) THEN "set_not_null" ELSE "drop_not_null", new))
             S == {Statement("alter_type", new),
                   Statement(IF DefaultClause(new) = "none" THEN "drop_default" ELSE "set_default", new),
                   Statement(IF NotNull(new) THEN "set_not_null" ELSE "drop_not_null", new)}
  <2>2. a \in Seq(S) /\ b \in Seq(S) /\ c \in Seq(S)
    BY IfIsASequence
  <2>3. a \o b \o c = <<>>
    BY <2>1 DEF Alterations
  <2>4. /\ old.type # new.type => Len(a) = 1
        /\ DefaultClause(old) # DefaultClause(new) => Len(b) = 1
        /\ NotNull(old) # NotNull(new) => Len(c) = 1
    BY DEF If
  <2> HIDE DEF a, b, c, S
  <2>5. Len(a) + Len(b) + Len(c) = 0
    <3>1. a \o b \in Seq(S) /\ Len(a \o b) = Len(a) + Len(b)
      BY <2>2
    <3>2. Len((a \o b) \o c) = Len(a \o b) + Len(c)
      BY <2>2, <3>1
    <3>3. Len((a \o b) \o c) = 0
      BY <2>3
    <3>4. QED
      BY <3>1, <3>2, <3>3
  <2>6. Len(a) = 0 /\ Len(b) = 0 /\ Len(c) = 0
    <3>1. Len(a) \in Nat /\ Len(b) \in Nat /\ Len(c) \in Nat
      BY <2>2
    <3>2. QED
      BY <2>5, <3>1
  <2>7. old.type = new.type /\ DefaultClause(old) = DefaultClause(new) /\ NotNull(old) = NotNull(new)
    BY <2>4, <2>6
  <2>8. QED
    BY <2>1, <2>7, FieldsAreShaped DEF Same, Compared, AnyField
<1>3. QED
  BY <1>1, <1>2

-------------------------------------------------------------------------------
(***************************************************************************)
(* The files that wait lead from the column to the compared contract: a    *)
(* chain of contracts, the column like its first, the compared like its    *)
(* last, and each file the statements to one of them from a contract that  *)
(* is the same as the one before it to every statement.                    *)
(***************************************************************************)
File == {Statements(old, new) : old \in AnyField, new \in AnyField}

Leads(chain, written, c, f) ==
  /\ chain \in [1..Len(written) + 1 -> AnyField]
  /\ Like(c, chain[1])
  /\ Same(chain[Len(written) + 1], f)
  /\ \A i \in 1..Len(written) : \E old \in AnyField :
       Same(old, chain[i]) /\ written[i] = Statements(old, chain[i + 1])

FieldsTyped ==
  /\ field \in AnyField /\ compared \in AnyField /\ flagged \in BOOLEAN /\ populated \in BOOLEAN
  /\ waiting \in Seq(File)
  /\ column \in ColumnShape \cup {Gone} /\ cells \in SUBSET {"null", "value"}
  /\ column = Gone \/ ~populated => cells = {}

WaitingLeads == \E chain : Leads(chain, waiting, column, compared)

\* Without a flag, no attribute that a change contract looks at has changed.
UnflaggedIsUnchanged ==
  ~flagged /\ compared # Gone =>
    /\ field # Gone
    /\ compared.type = field.type /\ compared.required = field.required /\ compared.default = field.default

ColumnInv == FieldsTyped /\ WaitingLeads /\ UnflaggedIsUnchanged

LEMMA ColumnInitially == ColumnInit => ColumnInv
<1> SUFFICES ASSUME ColumnInit PROVE ColumnInv
  OBVIOUS
<1>1. waiting = <<>> /\ Len(waiting) = 0 /\ waiting \in Seq(File)
  BY DEF ColumnInit
<1>2. column \in ColumnShape \cup {Gone} /\ Like(column, field)
  <2>1. CASE field = Gone
    BY <2>1 DEF ColumnInit, Like
  <2>2. CASE field # Gone
    <3>1. column = Definition(field) /\ field \in Fields
      BY <2>2 DEF ColumnInit
    <3>2. column \in ColumnShape /\ column # Gone
      BY <3>1, FieldsAreShaped, GoneAssumption
    <3>3. QED
      BY <2>2, <3>1, <3>2 DEF Like
  <2>3. QED
    BY <2>1, <2>2
<1>3. FieldsTyped
  BY <1>1, <1>2 DEF ColumnInit, FieldsTyped, AnyField
<1>4. WaitingLeads
  <2> DEFINE chain == [i \in 1..1 |-> field]
  <2>1. chain \in [1..Len(waiting) + 1 -> AnyField] /\ chain[1] = field /\ chain[Len(waiting) + 1] = field
    BY <1>1, <1>3 DEF FieldsTyped
  <2> HIDE DEF chain
  <2>2. Leads(chain, waiting, column, compared)
    BY <1>1, <1>2, <2>1 DEF Leads, Same, ColumnInit
  <2>3. QED
    BY <2>2 DEF WaitingLeads
<1>5. UnflaggedIsUnchanged
  BY DEF ColumnInit, UnflaggedIsUnchanged
<1>6. QED
  BY <1>3, <1>4, <1>5 DEF ColumnInv

LEMMA EditStep == ColumnInv /\ Edit => ColumnInv'
<1> SUFFICES ASSUME ColumnInv, Edit PROVE ColumnInv'
  OBVIOUS
<1>1. PICK f \in (Fields \cup {Gone}) \ {field} :
        field' = f /\ flagged' = (flagged \/ RequiresMigration(field, f))
  BY DEF Edit
<1>2. UNCHANGED <<compared, waiting, column, cells, populated>>
  BY DEF Edit
<1>3. FieldsTyped'
  <2>1. flagged' \in BOOLEAN
    BY <1>1 DEF ColumnInv, FieldsTyped
  <2>2. QED
    BY <1>1, <1>2, <2>1 DEF ColumnInv, FieldsTyped, AnyField
<1>4. WaitingLeads'
  BY <1>2 DEF ColumnInv, WaitingLeads
<1>5. UnflaggedIsUnchanged'
  <2> SUFFICES ASSUME ~flagged', compared # Gone
               PROVE  /\ f # Gone
                      /\ compared.type = f.type /\ compared.required = f.required
                      /\ compared.default = f.default
    BY <1>1, <1>2 DEF UnflaggedIsUnchanged
  <2>1. ~flagged /\ ~RequiresMigration(field, f)
    BY <1>1
  <2>2. /\ field # Gone
        /\ compared.type = field.type /\ compared.required = field.required
        /\ compared.default = field.default
    BY <2>1 DEF ColumnInv, UnflaggedIsUnchanged
  <2>3. f # Gone
    BY <2>1, <2>2 DEF RequiresMigration
  <2>4. {"type", "required", "default"} \subseteq DOMAIN field
    BY <2>2, FieldsAssumption DEF ColumnInv, FieldsTyped, AnyField
  <2>5. ChangedAttributes(field, f) \cap {"type", "required", "default"} = {}
    BY <2>1, <2>2, <2>3 DEF RequiresMigration
  <2>6. field["type"] = f["type"] /\ field["required"] = f["required"] /\ field["default"] = f["default"]
    BY <2>4, <2>5 DEF ChangedAttributes
  <2>7. QED
    BY <2>2, <2>3, <2>6
<1>6. QED
  BY <1>3, <1>4, <1>5 DEF ColumnInv

LEMMA GenerateStep == ColumnInv /\ Generate => ColumnInv'
<1> SUFFICES ASSUME ColumnInv, Generate PROVE ColumnInv'
  OBVIOUS
<1>1. /\ compared' = field /\ field' = field /\ flagged' = FALSE
      /\ UNCHANGED <<column, cells, populated>>
  BY DEF Generate
<1>2. PICK chain : Leads(chain, waiting, column, compared)
  BY DEF ColumnInv, WaitingLeads
<1>3. UnflaggedIsUnchanged'
  BY <1>1 DEF UnflaggedIsUnchanged
<1>4. CASE Statements(compared, field) = <<>>
  <2>1. waiting' = waiting
    BY <1>4 DEF Generate, ColumnInv, FieldsTyped
  <2>2. Same(compared, field)
    BY <1>4, SilenceIsSameness DEF ColumnInv, FieldsTyped
  <2>3. Leads(chain, waiting, column, field)
    BY <1>2, <2>2 DEF Leads, Same
  <2>4. WaitingLeads'
    BY <1>1, <2>1, <2>3 DEF WaitingLeads
  <2>5. FieldsTyped'
    BY <1>1, <2>1 DEF ColumnInv, FieldsTyped
  <2>6. QED
    BY <1>3, <2>4, <2>5 DEF ColumnInv
<1>5. CASE Statements(compared, field) # <<>>
  <2> DEFINE file == Statements(compared, field)
             n == Len(waiting)
             longer == [i \in 1..n + 2 |-> IF i = n + 2 THEN field ELSE chain[i]]
  <2>1. waiting' = Append(waiting, file)
    <3>1. waiting' = waiting \o <<file>>
      BY <1>5 DEF Generate
    <3>2. file \in File /\ waiting \in Seq(File)
      BY DEF File, ColumnInv, FieldsTyped
    <3> HIDE DEF file
    <3>3. QED
      BY <3>1, <3>2
  <2>2. file \in File /\ n \in Nat /\ field \in AnyField /\ compared \in AnyField
    BY DEF File, ColumnInv, FieldsTyped
  <2>3. /\ waiting' \in Seq(File) /\ Len(waiting') = n + 1 /\ waiting'[n + 1] = file
        /\ \A i \in 1..n : waiting'[i] = waiting[i]
    <3> HIDE DEF file
    <3>1. QED
      BY <2>1, <2>2 DEF ColumnInv, FieldsTyped
  <2>4. FieldsTyped'
    BY <1>1, <2>3 DEF ColumnInv, FieldsTyped
  <2>5. /\ chain \in [1..n + 1 -> AnyField] /\ Like(column, chain[1]) /\ Same(chain[n + 1], compared)
        /\ \A i \in 1..n : \E old \in AnyField :
             Same(old, chain[i]) /\ waiting[i] = Statements(old, chain[i + 1])
    BY <1>2 DEF Leads
  <2>6. /\ longer \in [1..Len(waiting') + 1 -> AnyField]
        /\ \A i \in 1..n + 1 : longer[i] = chain[i]
        /\ longer[n + 2] = field
    BY <2>2, <2>3, <2>5
  <2> HIDE DEF file, longer
  <2>7. Like(column', longer[1]) /\ Same(longer[Len(waiting') + 1], compared')
    <3>1. longer[1] = chain[1] /\ Len(waiting') + 1 = n + 2
      BY <2>2, <2>3, <2>6
    <3>2. Same(field, field)
      BY DEF Same
    <3>3. QED
      BY <1>1, <2>5, <2>6, <3>1, <3>2
  <2>8. ASSUME NEW i \in 1..Len(waiting')
        PROVE  \E old \in AnyField : Same(old, longer[i]) /\ waiting'[i] = Statements(old, longer[i + 1])
    <3>1. CASE i \in 1..n
      <4>1. longer[i] = chain[i] /\ longer[i + 1] = chain[i + 1] /\ waiting'[i] = waiting[i]
        BY <2>2, <2>3, <2>6, <3>1
      <4>2. QED
        BY <2>5, <3>1, <4>1
    <3>2. CASE i = n + 1
      <4>1. longer[i] = chain[n + 1] /\ longer[i + 1] = field /\ waiting'[i] = file
        BY <2>2, <2>3, <2>6, <3>2
      <4>2. Same(compared, chain[n + 1])
        BY <2>5 DEF Same
      <4>3. file = Statements(compared, field)
        BY DEF file
      <4>4. QED
        BY <2>2, <4>1, <4>2, <4>3
    <3>3. QED
      BY <2>2, <2>3, <3>1, <3>2
  <2>9. Leads(longer, waiting', column', compared')
    BY <2>6, <2>7, <2>8 DEF Leads
  <2>10. WaitingLeads'
    BY <2>9 DEF WaitingLeads
  <2>11. QED
    BY <1>3, <2>4, <2>10 DEF ColumnInv
<1>6. QED
  BY <1>4, <1>5

LEMMA ApplyFileStep == ColumnInv /\ ApplyFile => ColumnInv'
<1> SUFFICES ASSUME ColumnInv, ApplyFile PROVE ColumnInv'
  OBVIOUS
<1>1. /\ waiting # <<>> /\ waiting' = Tail(waiting)
      /\ UNCHANGED <<field, compared, flagged, populated>>
  BY DEF ApplyFile
<1>2. PICK chain : Leads(chain, waiting, column, compared)
  BY DEF ColumnInv, WaitingLeads
<1> DEFINE n == Len(waiting)
<1>3. /\ waiting \in Seq(File) /\ n \in Nat /\ n >= 1
      /\ waiting' \in Seq(File) /\ Len(waiting') = n - 1 /\ Head(waiting) = waiting[1]
      /\ \A i \in 1..n - 1 : waiting'[i] = waiting[i + 1]
  BY <1>1 DEF ColumnInv, FieldsTyped
<1>4. /\ chain \in [1..n + 1 -> AnyField] /\ Like(column, chain[1]) /\ Same(chain[n + 1], compared)
      /\ \A i \in 1..n : \E old \in AnyField :
           Same(old, chain[i]) /\ waiting[i] = Statements(old, chain[i + 1])
  BY <1>2 DEF Leads
<1>5. PICK old \in AnyField : Same(old, chain[1]) /\ waiting[1] = Statements(old, chain[2])
  <2>1. \E old \in AnyField : Same(old, chain[1]) /\ waiting[1] = Statements(old, chain[1 + 1])
    BY <1>3, <1>4
  <2>2. QED
    BY <2>1
<1>6. chain[1] \in AnyField /\ chain[2] \in AnyField
  <2>1. 1 \in 1..n + 1 /\ 2 \in 1..n + 1
    BY <1>3
  <2>2. QED
    BY <1>4, <2>1, Zenon
<1>7. Standing(Here) /\ Here.column = column
  BY DEF ColumnInv, FieldsTyped, Standing, Here, ColumnState
<1>8. Like(Here.column, old)
  BY <1>4, <1>5, <1>7 DEF Like, Same
<1>9. /\ Standing(Final(waiting[1], Here)) /\ Like(Final(waiting[1], Here).column, chain[2])
  BY <1>5, <1>6, <1>7, <1>8, MigrationsLand
<1>10. column' = Final(waiting[1], Here).column /\ cells' = Final(waiting[1], Here).cells
  BY <1>3 DEF ApplyFile, Final
<1>11. FieldsTyped'
  BY <1>1, <1>3, <1>9, <1>10 DEF ColumnInv, FieldsTyped, Standing, ColumnState
<1>12. WaitingLeads'
  <2> DEFINE rest == [i \in 1..n |-> chain[i + 1]]
  <2>1. /\ rest \in [1..Len(waiting') + 1 -> AnyField]
        /\ \A i \in 1..n : rest[i] = chain[i + 1]
    BY <1>3, <1>4
  <2> HIDE DEF rest
  <2>2. Like(column', rest[1])
    BY <1>3, <1>9, <1>10, <2>1
  <2>3. Same(rest[Len(waiting') + 1], compared')
    BY <1>1, <1>3, <1>4, <2>1
  <2>4. ASSUME NEW i \in 1..Len(waiting')
        PROVE  \E o \in AnyField : Same(o, rest[i]) /\ waiting'[i] = Statements(o, rest[i + 1])
    <3>1. i \in 1..n - 1 /\ i + 1 \in 1..n
      BY <1>3
    <3>2. rest[i] = chain[i + 1] /\ rest[i + 1] = chain[(i + 1) + 1] /\ waiting'[i] = waiting[i + 1]
      BY <1>3, <2>1, <3>1
    <3>3. QED
      BY <1>4, <3>1, <3>2
  <2>5. Leads(rest, waiting', column', compared')
    BY <2>1, <2>2, <2>3, <2>4 DEF Leads
  <2>6. QED
    BY <2>5 DEF WaitingLeads
<1>13. UnflaggedIsUnchanged'
  BY <1>1 DEF ColumnInv, UnflaggedIsUnchanged
<1>14. QED
  BY <1>11, <1>12, <1>13 DEF ColumnInv

LEMMA RowsStep == ColumnInv /\ (Insert \/ InsertValue \/ Backfill \/ UNCHANGED columnVars) => ColumnInv'
<1> SUFFICES ASSUME ColumnInv, Insert \/ InsertValue \/ Backfill \/ UNCHANGED columnVars
             PROVE  ColumnInv'
  OBVIOUS
<1>1. UNCHANGED <<field, compared, flagged, waiting, column>>
  BY DEF Insert, InsertValue, Backfill, columnVars
<1>2. /\ populated' \in BOOLEAN /\ cells' \in SUBSET {"null", "value"}
      /\ column = Gone \/ ~populated' => cells' = {}
  <2>1. CASE Insert
    <3>1. populated' = TRUE /\ cells' = IF column = Gone THEN {}
                                        ELSE cells \cup {IF column.notNull THEN "value" ELSE "null"}
      BY <2>1 DEF Insert
    <3>2. QED
      BY <3>1 DEF ColumnInv, FieldsTyped
  <2>2. CASE InsertValue
    BY <2>2 DEF InsertValue, ColumnInv, FieldsTyped
  <2>3. CASE Backfill
    BY <2>3 DEF Backfill, ColumnInv, FieldsTyped
  <2>4. CASE UNCHANGED columnVars
    BY <2>4 DEF columnVars, ColumnInv, FieldsTyped
  <2>5. QED
    BY <2>1, <2>2, <2>3, <2>4
<1>3. FieldsTyped'
  BY <1>1, <1>2 DEF ColumnInv, FieldsTyped
<1>4. WaitingLeads' /\ UnflaggedIsUnchanged'
  BY <1>1 DEF ColumnInv, WaitingLeads, UnflaggedIsUnchanged
<1>5. QED
  BY <1>3, <1>4 DEF ColumnInv

(***************************************************************************)
(* In every state the files that wait lead to the compared contract, and   *)
(* what is not flagged has not changed.                                    *)
(***************************************************************************)
THEOREM ColumnsHold == ColumnSpec => []ColumnInv
<1>1. ColumnInv /\ [ColumnNext]_columnVars => ColumnInv'
  BY EditStep, GenerateStep, ApplyFileStep, RowsStep DEF ColumnNext
<1>2. QED
  BY <1>1, ColumnInitially, PTL DEF ColumnSpec

(***************************************************************************)
(* Once the files are applied the column is that of the compared contract  *)
(* (differ.py, sql_writer.py), whatever was edited, generated and written  *)
(* in between.                                                             *)
(***************************************************************************)
THEOREM MigrationsDoArrive == ColumnSpec => []MigrationsArrive
<1>1. ColumnInv => MigrationsArrive
  <2> SUFFICES ASSUME ColumnInv, waiting = <<>>
               PROVE  /\ (column = Gone) = (compared = Gone)
                      /\ column # Gone => Compared(column) = Compared(Definition(compared))
    BY DEF MigrationsArrive
  <2>1. PICK chain : Leads(chain, waiting, column, compared)
    BY DEF ColumnInv, WaitingLeads
  <2>2. Len(waiting) = 0
    OBVIOUS
  <2>3. Like(column, chain[1]) /\ Same(chain[1], compared)
    BY <2>1, <2>2 DEF Leads
  <2>4. QED
    BY <2>3 DEF Like, Same
<1>2. QED
  BY <1>1, ColumnsHold, PTL

(***************************************************************************)
(* A change contract without migration_required may be trusted, but for an *)
(* added field and a changed computed value (change_contract.py).          *)
(***************************************************************************)
THEOREM TheUnflaggedAreSilent == ColumnSpec => []OnlyTheNewIsUnflagged
<1>1. ColumnInv => OnlyTheNewIsUnflagged
  <2> SUFFICES ASSUME ColumnInv, compared # Gone, field # Gone, ~flagged, compared.computed = field.computed
               PROVE  Statements(compared, field) = <<>>
    BY DEF OnlyTheNewIsUnflagged
  <2>1. compared.type = field.type /\ compared.required = field.required /\ compared.default = field.default
    BY DEF ColumnInv, UnflaggedIsUnchanged
  <2>2. DefaultClause(compared) = DefaultClause(field) /\ NotNull(compared) = NotNull(field)
    BY <2>1 DEF DefaultClause, NotNull, ServerDefault
  <2>3. Alterations(compared, field) = <<>> \o <<>> \o <<>>
    BY <2>1, <2>2 DEF Alterations, If
  <2>4. QED
    BY <2>3 DEF Statements
<1>2. QED
  BY <1>1, ColumnsHold, PTL

===============================================================================
