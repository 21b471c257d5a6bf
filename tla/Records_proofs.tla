---------------------------- MODULE Records_proofs ----------------------------
(***************************************************************************)
(* Records, pages and moves for any number of records, requests, loads and *)
(* visits, any workflow, any size of a page and any adapters.              *)
(***************************************************************************)
EXTENDS RecordList, FiniteSetTheorems, TLAPS

(***************************************************************************)
(* Rows come in one order, newest first: what can be told apart by its key *)
(* can be put in order. The place of a row is how many come up to it.      *)
(***************************************************************************)
Distinct(S) == \A x, y \in S : x.id = y.id => x = y

LEMMA PrecedesIsAnOrder ==
  ASSUME NEW S \in SUBSET Item, Distinct(S)
  PROVE  /\ \A x \in S : ~Precedes(x, x)
         /\ \A x, y \in S : x # y => Precedes(x, y) \/ Precedes(y, x)
         /\ \A x, y \in S : ~(Precedes(x, y) /\ Precedes(y, x))
         /\ \A x, y, z \in S : Precedes(x, y) /\ Precedes(y, z) => Precedes(x, z)
<1>1. \A x \in S : x.id \in Nat /\ x.made \in Nat
  <2>1. \A x \in Item : x.id \in Id /\ x.made \in 0..MaxTime
    BY DEF Item
  <2>2. Id \subseteq Nat /\ 0..MaxTime \subseteq Nat
    BY RecordsAssumption DEF RecordsAssumption
  <2>3. QED
    BY <2>1, <2>2
<1>2. \A x, y \in S : x # y => x.id # y.id
  BY DEF Distinct
<1>3. QED
  BY <1>1, <1>2 DEF Precedes

LEMMA RowsCanBeOrdered ==
  ASSUME NEW S \in SUBSET Item, IsFiniteSet(S), Distinct(S)
  PROVE  \E s \in SetToSeqs(S) : InOrder(s)
<1> DEFINE n == Cardinality(S)
           upTo(x) == {y \in S : Precedes(y, x) \/ y = x}
           rank == [x \in S |-> Cardinality(upTo(x))]
           s == [k \in 1..n |-> CHOOSE x \in S : rank[x] = k]
<1>1. n \in Nat /\ IsFiniteSet(1..n) /\ Cardinality(1..n) = n
  BY FS_CardinalityType, FS_Interval
<1>2. \A x \in S : /\ IsFiniteSet(upTo(x)) /\ Cardinality(upTo(x)) \in Nat
                   /\ Cardinality(upTo(x)) # 0 /\ Cardinality(upTo(x)) <= n
  <2> SUFFICES ASSUME NEW x \in S
               PROVE  /\ IsFiniteSet(upTo(x)) /\ Cardinality(upTo(x)) \in Nat
                      /\ Cardinality(upTo(x)) # 0 /\ Cardinality(upTo(x)) <= n
    OBVIOUS
  <2>1. upTo(x) \in SUBSET S /\ x \in upTo(x)
    OBVIOUS
  <2> HIDE DEF upTo
  <2>2. QED
    BY <2>1, FS_Subset, FS_CardinalityType, FS_EmptySet
<1>3. \A x \in S : rank[x] \in 1..n
  BY <1>1, <1>2
<1>4. \A x, y \in S : Precedes(x, y) => rank[x] < rank[y]
  <2> SUFFICES ASSUME NEW x \in S, NEW y \in S, Precedes(x, y)
               PROVE  Cardinality(upTo(x)) < Cardinality(upTo(y))
    OBVIOUS
  <2>1. upTo(x) \in SUBSET upTo(y) /\ y \in upTo(y) /\ y \notin upTo(x)
    BY PrecedesIsAnOrder
  <2>2. IsFiniteSet(upTo(y)) /\ Cardinality(upTo(x)) \in Nat /\ Cardinality(upTo(y)) \in Nat
    BY <1>2
  <2> HIDE DEF upTo
  <2>3. Cardinality(upTo(x)) <= Cardinality(upTo(y)) /\ Cardinality(upTo(x)) # Cardinality(upTo(y))
    BY <2>1, <2>2, FS_Subset
  <2>4. QED
    BY <2>2, <2>3
<1> HIDE DEF rank
<1>5. \A x, y \in S : rank[x] = rank[y] => x = y
  BY <1>1, <1>3, <1>4, PrecedesIsAnOrder
<1>6. \A k \in 1..n : \E x \in S : rank[x] = k
  <2>1. rank \in [S -> 1..n]
    BY <1>3 DEF rank
  <2>2. rank \in Injection(S, 1..n)
    BY <1>5, <2>1 DEF Injection, IsInjective
  <2>3. rank \in Surjection(S, 1..n)
    BY <1>1, <2>2, FS_Injection
  <2>4. QED
    BY <2>3 DEF Surjection
<1>7. \A k \in 1..n : s[k] \in S /\ rank[s[k]] = k
  BY <1>6
<1>8. s \in SetToSeqs(S)
  BY <1>7 DEF SetToSeqs
<1>9. InOrder(s)
  <2> SUFFICES ASSUME NEW j \in 1..n, NEW k \in 1..n, j < k
               PROVE  Precedes(s[j], s[k])
    BY DEF InOrder
  <2>1. s[j] \in S /\ s[k] \in S /\ rank[s[j]] = j /\ rank[s[k]] = k
    BY <1>7
  <2> HIDE DEF s
  <2>2. ~Precedes(s[k], s[j]) /\ s[j] # s[k]
    BY <2>1, <1>1, <1>4
  <2>3. QED
    BY <2>1, <2>2, PrecedesIsAnOrder
<1>10. QED
  BY <1>8, <1>9

(***************************************************************************)
(* The rows of a query, in order, are all of its rows.                     *)
(***************************************************************************)
Found(after) == {x \in {Keyed(i) : i \in Ids} : Beyond(x, after)}

Ordered(after) == CHOOSE s \in SetToSeqs(Found(after)) : InOrder(s)

LEMMA KeyedTypes ==
  ASSUME StoreTypeOK
  PROVE  \A i \in Ids : Keyed(i) \in Item /\ Keyed(i).id = i
<1>1. \A i \in Ids : row[i].state \in State /\ row[i].made \in 0..MaxTime /\ i \in Id
  BY DEF Ids, Exists, Row
<1>2. QED
  BY <1>1 DEF Keyed, Item

LEMMA OrderedIsAll ==
  ASSUME StoreTypeOK, NEW after
  PROVE  /\ Ordered(after) \in Seq(Item) /\ InOrder(Ordered(after))
         /\ \A k \in DOMAIN Ordered(after) : Ordered(after)[k] \in Found(after)
         /\ \A x \in Found(after) : \E k \in DOMAIN Ordered(after) : Ordered(after)[k] = x
<1> DEFINE S == Found(after)
           n == Cardinality(S)
<1>1. \A i \in Ids : Keyed(i) \in Item /\ Keyed(i).id = i
  BY KeyedTypes
<1>2. S \in SUBSET Item
  BY <1>1 DEF Found
<1>3. Distinct(S)
  BY <1>1 DEF Found, Distinct
<1>4. IsFiniteSet(S)
  <2>1. \A x \in S : x.id \in Id
    BY <1>2 DEF Item
  <2> DEFINE key == [x \in S |-> x.id]
  <2>2. key \in [S -> Id]
    BY <2>1
  <2>3. key \in Injection(S, Id)
    BY <2>2, <1>3 DEF Injection, IsInjective, Distinct
  <2>4. IsFiniteSet(Id)
    BY RecordsAssumption DEF RecordsAssumption
  <2>5. QED
    BY <2>3, <2>4, FS_Injection
<1>5. n \in Nat /\ IsFiniteSet(1..n) /\ Cardinality(1..n) = n
  BY <1>4, FS_CardinalityType, FS_Interval
<1> HIDE DEF S
<1>6. PICK s : s = Ordered(after)
  OBVIOUS
<1>7. s \in SetToSeqs(S) /\ InOrder(s)
  BY <1>2, <1>3, <1>4, <1>6, RowsCanBeOrdered DEF Ordered, S
<1>8. s \in [1..n -> S] /\ \A i, j \in 1..n : i # j => s[i] # s[j]
  BY <1>7 DEF SetToSeqs
<1>9. s \in Seq(Item) /\ DOMAIN s = 1..n
  BY <1>2, <1>5, <1>8
<1>10. \A x \in S : \E k \in 1..n : s[k] = x
  <2>1. s \in Injection(1..n, S)
    BY <1>8 DEF Injection, IsInjective
  <2>2. s \in Surjection(1..n, S)
    BY <2>1, <1>4, <1>5, FS_Injection
  <2>3. QED
    BY <2>2 DEF Surjection
<1>11. QED
  BY <1>6, <1>7, <1>8, <1>9, <1>10 DEF S

(***************************************************************************)
(* A page is of what there is, and what it leaves out comes after its end. *)
(***************************************************************************)
Pages == [items : Seq(Item), next : Item \cup {None}]

LEMMA PageIsComplete ==
  ASSUME StoreTypeOK, NEW after \in Item \cup {None}
  PROVE  /\ Page(after) \in Pages
         /\ IdsOf(Page(after).items) \subseteq Ids
         /\ \A i \in Ids :
              Beyond(Keyed(i), after) =>
                \/ i \in IdsOf(Page(after).items)
                \/ Page(after).next # None /\ Precedes(Page(after).next, Keyed(i))
<1>1. PICK rows : rows = Ordered(after)
  OBVIOUS
<1> DEFINE more == Len(rows) > PageSize
<1>2. PICK items : items = IF more THEN SubSeq(rows, 1, PageSize) ELSE rows
  OBVIOUS
<1>3. Page(after) = [items |-> items, next |-> IF more THEN items[PageSize] ELSE None]
  BY <1>1, <1>2 DEF Page, Ordered, Found
<1>4. /\ rows \in Seq(Item) /\ InOrder(rows)
      /\ \A k \in DOMAIN rows : rows[k] \in Found(after)
      /\ \A x \in Found(after) : \E k \in DOMAIN rows : rows[k] = x
  BY <1>1, OrderedIsAll
<1>5. PageSize \in Nat \ {0}
  BY RecordsAssumption DEF RecordsAssumption
<1>6. \A i \in Ids : Keyed(i).id = i
  BY KeyedTypes
<1>7. Len(rows) \in Nat /\ DOMAIN rows = 1..Len(rows)
  BY <1>4
<1>8. /\ items \in Seq(Item)
      /\ DOMAIN items = IF more THEN 1..PageSize ELSE 1..Len(rows)
      /\ \A k \in DOMAIN items : items[k] = rows[k] /\ k \in DOMAIN rows
  BY <1>2, <1>4, <1>5, <1>7
<1>9. IdsOf(items) \subseteq Ids
  BY <1>4, <1>6, <1>8 DEF IdsOf, Found
<1>10. more => items[PageSize] \in Item
  BY <1>5, <1>8
<1>11. ASSUME NEW i \in Ids, Beyond(Keyed(i), after)
       PROVE  i \in IdsOf(items) \/ (more /\ Precedes(items[PageSize], Keyed(i)))
  <2>1. PICK k \in DOMAIN rows : rows[k] = Keyed(i)
    BY <1>4, <1>11 DEF Found
  <2>2. CASE k \in DOMAIN items
    BY <2>1, <2>2, <1>6, <1>8 DEF IdsOf
  <2>3. CASE k \notin DOMAIN items
    <3>1. more /\ k > PageSize /\ PageSize \in DOMAIN items /\ PageSize \in DOMAIN rows
      BY <2>1, <2>3, <1>5, <1>7, <1>8
    <3>2. Precedes(rows[PageSize], rows[k])
      BY <3>1, <2>1, <1>4, <1>7, <1>5 DEF InOrder
    <3>3. QED
      BY <3>1, <3>2, <2>1, <1>8
  <2>4. QED
    BY <2>2, <2>3
<1>12. more => items[PageSize] # None
  BY <1>10, ItemAssumption
<1>13. Page(after) \in Pages
  BY <1>3, <1>8, <1>10 DEF Pages
<1>14. QED
  BY <1>3, <1>9, <1>11, <1>12, <1>13

-------------------------------------------------------------------------------
(***************************************************************************)
(* The store. A creation has its id for itself, what was erased is gone    *)
(* for good, and whoever holds the lock of a row has found its move legal  *)
(* and keeps it legal: others can neither move, change nor erase the row.  *)
(***************************************************************************)
WantInv ==
  \A c \in Client : call[c] # None =>
    /\ call[c].op = "move" => call[c].want \in State
    /\ call[c].op \in {"create", "patch"} => call[c].want \in BOOLEAN

CreateInv ==
  \A c \in Client : At(c, "create", "sent") =>
    /\ row[call[c].id] = Unborn
    /\ \A d \in Client \ {c} : At(d, "create", "sent") => call[d].id # call[c].id

EraseInv == \A c \in Client : At(c, "delete", "ok") => row[call[c].id] = Deleted

Holds(c) == call[c] # None /\ call[c].step = "locked"

LockInv ==
  \A c \in Client : Holds(c) =>
    LET i == call[c].id IN
    /\ call[c].op = "move" /\ adapter = "locking" /\ Exists(i)
    /\ <<row[i].state, call[c].want>> \in Edge
    /\ <<row[i].state, call[c].want>> \in Guarded => row[i].filled

StoreInv == StoreTypeOK /\ WantInv /\ CreateInv /\ EraseInv /\ LockInv

-------------------------------------------------------------------------------
(***************************************************************************)
(* The list. What is present and not shown yet comes after the cursor, or  *)
(* is on the page that was served to the present load, or comes after      *)
(* that page. A load of the present generation knows the cursor and shows  *)
(* in a flag, which is why there is one at a time.                         *)
(***************************************************************************)
LoadType ==
  [fresh : BOOLEAN, after : Item \cup {None}, step : {"asked", "answered"},
   page : Pages \cup {None}]

ListTypeOK ==
  /\ shown \in Seq(Item) /\ cursor \in Item \cup {None}
  /\ load \in [Load -> LoadType \cup {None}]
  /\ present \subseteq Ids /\ removed \subseteq {i \in Id : row[i] = Deleted}
  /\ {loading, loadingMore, error} \subseteq BOOLEAN

Fresh(l) == load[l] # None /\ load[l].fresh

Answer(l) == Fresh(l) /\ load[l].step = "answered"

LoadInv ==
  /\ \A k, l \in Load : Fresh(k) /\ Fresh(l) => k = l
  /\ \A l \in Load : Fresh(l) =>
       IF loading THEN load[l].after = None
       ELSE loadingMore /\ ~error /\ load[l].after = cursor /\ cursor # None
  /\ \A l \in Load : Answer(l) => load[l].page \in Pages

Covers(items, after, next) ==
  \A i \in present : Beyond(Keyed(i), after) =>
    i \in IdsOf(items) \/ (next # None /\ Precedes(next, Keyed(i)))

PageInv ==
  \A l \in Load : Answer(l) =>
    Covers(load[l].page.items, load[l].after, load[l].page.next)

ShownInv == Rows => Covers(shown, None, cursor)

GoneInv ==
  /\ RemovedIsGone
  /\ \A l \in Load : Answer(l) => removed \cap IdsOf(load[l].page.items) = {}

ListInv == ListTypeOK /\ LoadInv /\ PageInv /\ ShownInv /\ GoneInv

-------------------------------------------------------------------------------
(***************************************************************************)
(* What no step does to a record: it brings back what was erased, or makes *)
(* a record older or younger.                                              *)
(***************************************************************************)
Kept ==
  \A i \in Id :
    /\ row[i] = Deleted => row'[i] = Deleted
    /\ Exists(i) => \/ row'[i] = Deleted
                    \/ row'[i] \in Row /\ row'[i].made = row[i].made

StoreKept == StoreInv' /\ LegalMoves /\ Kept

LEMMA ReplyFields ==
  ASSUME StoreTypeOK, NEW c \in Client, call[c] # None,
         NEW a \in {"locked", "missed"} \cup Answered, Reply(c, a)
  PROVE  /\ call' \in [Client -> Call \cup {None}]
         /\ call'[c] # None /\ call'[c].step = a
         /\ call'[c].op = call[c].op /\ call'[c].id = call[c].id
         /\ call'[c].want = call[c].want /\ call'[c].at = call[c].at
         /\ \A d \in Client \ {c} : call'[d] = call[d]
<1>1. PICK next : next = [call[c] EXCEPT !.step = a]
  OBVIOUS
<1>2. call[c] \in Call
  BY DEF StoreTypeOK
<1>3. /\ next \in Call /\ next.step = a /\ next.op = call[c].op /\ next.id = call[c].id
      /\ next.want = call[c].want /\ next.at = call[c].at
  BY <1>1, <1>2 DEF Call
<1>4. next # None
  BY <1>3, AbsenceAssumption
<1>5. call' = [call EXCEPT ![c] = next]
  BY <1>1 DEF Reply
<1>6. QED
  BY <1>3, <1>4, <1>5 DEF StoreTypeOK

(***************************************************************************)
(* An answer that changes no record.                                       *)
(***************************************************************************)
LEMMA AnswerKeeps ==
  ASSUME StoreInv, NEW c \in Client, call[c] # None,
         NEW a \in {"missed"} \cup Answered, Reply(c, a),
         call[c].op = "delete" => a # "ok", UNCHANGED <<adapter, row, time>>
  PROVE  StoreKept
<1> USE DEF StoreInv
<1>1. /\ call' \in [Client -> Call \cup {None}]
      /\ call'[c] # None /\ call'[c].step = a
      /\ call'[c].op = call[c].op /\ call'[c].id = call[c].id
      /\ call'[c].want = call[c].want /\ call'[c].at = call[c].at
      /\ \A d \in Client \ {c} : call'[d] = call[d]
  BY ReplyFields
<1>2. a # "locked" /\ a # "sent"
  BY DEF Answered
<1>3. StoreTypeOK'
  BY <1>1, <1>2 DEF StoreTypeOK, Exists
<1>4. WantInv'
  BY <1>1 DEF WantInv
<1>5. CreateInv' /\ EraseInv'
  BY <1>1, <1>2 DEF CreateInv, EraseInv, At
<1>6. LockInv'
  BY <1>1, <1>2 DEF LockInv, Holds, Exists
<1>7. Kept
  BY DEF Kept, Exists, StoreTypeOK
<1>8. LegalMoves
  BY DEF LegalMoves
<1>9. QED
  BY <1>3, <1>4, <1>5, <1>6, <1>7, <1>8 DEF StoreKept

(***************************************************************************)
(* An answer to a request that changed its record, while nobody else holds *)
(* the lock of it.                                                         *)
(***************************************************************************)
Written(c, i, r) ==
  /\ call[c] # None /\ i = call[c].id /\ Reply(c, "ok")
  /\ r \in Row \cup {Deleted} /\ row' = [row EXCEPT ![i] = r]
  /\ UNCHANGED <<adapter, time>>
  /\ \A d \in Client \ {c} : Holds(d) => call[d].id # i
  /\ call[c].op = "delete" => r = Deleted
  /\ Exists(i) \/ (row[i] = Unborn /\ At(c, "create", "sent"))
  /\ Exists(i) /\ r \in Row => r.made = row[i].made
  /\ Exists(i) /\ r \in Row /\ r.state # row[i].state =>
       /\ <<row[i].state, r.state>> \in Edge
       /\ adapter # "conditional" /\ <<row[i].state, r.state>> \in Guarded => row[i].filled

LEMMA WriteKeeps ==
  ASSUME StoreInv, NEW c \in Client, NEW i, NEW r, Written(c, i, r)
  PROVE  StoreKept
<1> USE DEF StoreInv, Written
<1>1. /\ call' \in [Client -> Call \cup {None}]
      /\ call'[c] # None /\ call'[c].step = "ok"
      /\ call'[c].op = call[c].op /\ call'[c].id = call[c].id
      /\ call'[c].want = call[c].want /\ call'[c].at = call[c].at
      /\ \A d \in Client \ {c} : call'[d] = call[d]
  BY ReplyFields DEF Answered
<1>2. i \in Id
  BY DEF StoreTypeOK, Call
<1>3. row'[i] = r /\ \A j \in Id \ {i} : row'[j] = row[j]
  BY <1>2 DEF StoreTypeOK
<1>4. row' \in [Id -> Row \cup {Unborn, Deleted}]
  BY <1>2 DEF StoreTypeOK
<1>5. row[i] # Deleted
  BY AbsenceAssumption DEF Exists
<1>6. \A d \in Client : Holds(d)' => d # c /\ Holds(d) /\ call'[d] = call[d] /\ call[d].id # i
  BY <1>1 DEF Holds
<1>7. \A d \in Client : call[d] # None => call[d].id \in Id
  BY DEF StoreTypeOK, Call
<1>8. StoreTypeOK'
  BY <1>1, <1>3, <1>4, <1>6, <1>7 DEF StoreTypeOK, Exists, Holds
<1>9. WantInv'
  BY <1>1 DEF WantInv
<1>10. CreateInv'
  <2>1. \A d \in Client : At(d, "create", "sent")' => d # c /\ At(d, "create", "sent")
    BY <1>1 DEF At
  <2>2. \A d \in Client : At(d, "create", "sent")' => call[d].id # i
    BY <2>1, AbsenceAssumption DEF CreateInv, Exists
  <2>3. QED
    BY <1>1, <1>3, <1>7, <2>1, <2>2 DEF CreateInv, At
<1>11. EraseInv'
  BY <1>1, <1>3, <1>5, <1>7 DEF EraseInv, At
<1>12. LockInv'
  BY <1>3, <1>6, <1>7 DEF LockInv, Exists, Holds
<1>13. Kept
  BY <1>3, <1>5, <1>2 DEF Kept, Exists, StoreTypeOK
<1>14. LegalMoves
  BY <1>3 DEF LegalMoves, Exists
<1>15. QED
  BY <1>8, <1>9, <1>10, <1>11, <1>12, <1>13, <1>14 DEF StoreKept

-------------------------------------------------------------------------------
(***************************************************************************)
(* Each operation of the store.                                            *)
(***************************************************************************)
LEMMA RowTypes ==
  ASSUME StoreTypeOK, NEW i, Exists(i)
  PROVE  /\ \A s \in State : [row[i] EXCEPT !.state = s] \in Row
         /\ \A f \in BOOLEAN : [row[i] EXCEPT !.filled = f] \in Row
         /\ \A s \in State : LET r == [row[i] EXCEPT !.state = s] IN
              r.state = s /\ r.filled = row[i].filled /\ r.made = row[i].made
         /\ \A f \in BOOLEAN : LET r == [row[i] EXCEPT !.filled = f] IN
              r.state = row[i].state /\ r.filled = f /\ r.made = row[i].made
BY DEF Exists, Row

LEMMA CreateStep ==
  ASSUME StoreInv, NEW c \in Client, Create(c)
  PROVE  StoreKept
<1>1. At(c, "create", "sent") /\ Reply(c, "ok") /\ UNCHANGED <<adapter, time>>
  BY DEF Create
<1>2. call[c] # None /\ call[c].op = "create" /\ call[c].step = "sent"
  BY <1>1 DEF At
<1>3. call[c] \in Call
  BY <1>2 DEF StoreInv, StoreTypeOK
<1>4. PICK r : r = [state |-> Initial, filled |-> call[c].want, made |-> call[c].at]
  OBVIOUS
<1>5. call[c].want \in BOOLEAN /\ call[c].at \in 0..MaxTime /\ Initial \in State
  BY <1>2, <1>3, RecordsAssumption DEF StoreInv, WantInv, Call, RecordsAssumption
<1>6. r \in Row
  BY <1>4, <1>5 DEF Row
<1>7. PICK i : i = call[c].id
  OBVIOUS
<1>8. row' = [row EXCEPT ![i] = r]
  BY <1>4, <1>7 DEF Create
<1>9. row[i] = Unborn
  BY <1>1, <1>7 DEF StoreInv, CreateInv
<1>10. ~Exists(i)
  BY <1>9, AbsenceAssumption DEF Exists
<1>11. \A d \in Client : Holds(d) => call[d].id # i
  BY <1>10 DEF StoreInv, LockInv
<1>12. Written(c, i, r)
  BY <1>1, <1>2, <1>6, <1>7, <1>8, <1>9, <1>10, <1>11 DEF Written
<1>13. QED
  BY <1>12, WriteKeeps

LEMMA PatchStep ==
  ASSUME StoreInv, NEW c \in Client, Patch(c)
  PROVE  StoreKept
<1>1. PICK i : i = call[c].id
  OBVIOUS
<1>2. /\ call[c] # None /\ call[c].op = "patch" /\ call[c].step = "sent" /\ ~IsLocked(i)
      /\ UNCHANGED <<adapter, time>>
  BY <1>1 DEF Patch, At
<1>3. CASE Exists(i) /\ Set(i, "filled", call[c].want) /\ Reply(c, "ok")
  <2>1. PICK r : r = [row[i] EXCEPT !.filled = call[c].want]
    OBVIOUS
  <2>2. call[c].want \in BOOLEAN
    BY <1>2 DEF StoreInv, WantInv
  <2>3. /\ r \in Row /\ r \in Row \cup {Deleted}
        /\ r.state = row[i].state /\ r.made = row[i].made
    BY <1>3, <2>1, <2>2, RowTypes DEF StoreInv
  <2>4. row' = [row EXCEPT ![i] = r]
    BY <1>3, <2>1 DEF Set
  <2>5. \A d \in Client \ {c} : Holds(d) => call[d].id # i
    BY <1>2 DEF IsLocked, Holds
  <2>6. Written(c, i, r)
    BY <1>1, <1>2, <1>3, <2>3, <2>4, <2>5 DEF Written
  <2>7. QED
    BY <2>6, WriteKeeps
<1>4. CASE ~Exists(i) /\ UNCHANGED row /\ Reply(c, "not_found")
  BY <1>2, <1>4, AnswerKeeps DEF Answered
<1>5. QED
  BY <1>1, <1>3, <1>4 DEF Patch

LEMMA EraseStep ==
  ASSUME StoreInv, NEW c \in Client, Erase(c)
  PROVE  StoreKept
<1>1. PICK i : i = call[c].id
  OBVIOUS
<1>2. /\ call[c] # None /\ call[c].op = "delete" /\ call[c].step = "sent" /\ ~IsLocked(i)
      /\ UNCHANGED <<adapter, time>>
  BY <1>1 DEF Erase, At
<1>3. CASE Exists(i) /\ row' = [row EXCEPT ![i] = Deleted] /\ Reply(c, "ok")
  <2>1. \A d \in Client \ {c} : Holds(d) => call[d].id # i
    BY <1>2 DEF IsLocked, Holds
  <2>2. Deleted \notin Row
    BY AbsenceAssumption
  <2>3. PICK r : r = Deleted
    OBVIOUS
  <2>4. r \in Row \cup {Deleted} /\ r \notin Row /\ row' = [row EXCEPT ![i] = r]
    BY <1>3, <2>2, <2>3
  <2>5. Written(c, i, r)
    BY <1>1, <1>2, <1>3, <2>1, <2>4 DEF Written
  <2>6. QED
    BY <2>5, WriteKeeps
<1>4. CASE ~Exists(i) /\ UNCHANGED row /\ Reply(c, "not_found")
  BY <1>2, <1>4, AnswerKeeps DEF Answered
<1>5. QED
  BY <1>1, <1>3, <1>4 DEF Erase

(***************************************************************************)
(* The three ways to move a record write it in the same way.               *)
(***************************************************************************)
LEMMA MoveWrites ==
  ASSUME StoreInv, NEW c \in Client, call[c] # None, call[c].op = "move",
         NEW i, i = call[c].id, Exists(i), Set(i, "state", call[c].want), Reply(c, "ok"),
         UNCHANGED <<adapter, time>>,
         \A d \in Client \ {c} : Holds(d) => call[d].id # i,
         <<row[i].state, call[c].want>> \in Edge,
         adapter # "conditional" /\ <<row[i].state, call[c].want>> \in Guarded => row[i].filled
  PROVE  StoreKept
<1>1. PICK r : r = [row[i] EXCEPT !.state = call[c].want]
  OBVIOUS
<1>2. call[c].want \in State
  BY DEF StoreInv, WantInv
<1>3. r \in Row /\ r.state = call[c].want /\ r.made = row[i].made
  BY <1>1, <1>2, RowTypes DEF StoreInv
<1>4. row' = [row EXCEPT ![i] = r]
  BY <1>1 DEF Set
<1>5. Written(c, i, r)
  BY <1>3, <1>4 DEF Written
<1>6. QED
  BY <1>5, WriteKeeps

LEMMA RefusalIsAnswer ==
  ASSUME NEW i, NEW want
  PROVE  /\ Refusal(i, want) \in Answered \cup {None}
         /\ Refusal(i, want) # "ok"
         /\ Refusal(i, want) = None =>
              /\ Exists(i) /\ <<row[i].state, want>> \in Edge
              /\ <<row[i].state, want>> \in Guarded => row[i].filled
BY AbsenceAssumption DEF Refusal, Answered

LEMMA MoveInMemoryStep ==
  ASSUME StoreInv, NEW c \in Client, MoveInMemory(c)
  PROVE  StoreKept
<1>1. PICK i : i = call[c].id
  OBVIOUS
<1>2. PICK refusal : refusal = Refusal(i, call[c].want)
  OBVIOUS
<1>3. /\ adapter = "memory" /\ call[c] # None /\ call[c].op = "move"
      /\ UNCHANGED <<adapter, time>>
      /\ IF refusal = None THEN Set(i, "state", call[c].want) /\ Reply(c, "ok")
                           ELSE UNCHANGED row /\ Reply(c, refusal)
  BY <1>1, <1>2 DEF MoveInMemory, At
<1>4. CASE refusal = None
  <2>1. \A d \in Client : ~Holds(d)
    BY <1>3 DEF StoreInv, LockInv
  <2>2. QED
    BY <1>1, <1>2, <1>3, <1>4, <2>1, RefusalIsAnswer, MoveWrites
<1>5. CASE refusal # None
  BY <1>2, <1>3, <1>5, RefusalIsAnswer, AnswerKeeps
<1>6. QED
  BY <1>4, <1>5

LEMMA MoveIfStep ==
  ASSUME StoreInv, NEW c \in Client, MoveIf(c)
  PROVE  StoreKept
<1>1. PICK i : i = call[c].id
  OBVIOUS
<1>2. /\ adapter = "conditional" /\ call[c] # None /\ call[c].op = "move"
      /\ UNCHANGED <<adapter, time>>
  BY <1>1 DEF MoveIf, At
<1>3. CASE Exists(i) /\ <<row[i].state, call[c].want>> \in Edge
  <2>1. \A d \in Client : ~Holds(d)
    BY <1>2 DEF StoreInv, LockInv
  <2>2. Set(i, "state", call[c].want) /\ Reply(c, "ok")
    BY <1>1, <1>3 DEF MoveIf
  <2>3. QED
    BY <1>1, <1>2, <1>3, <2>1, <2>2, MoveWrites
<1>4. CASE ~(Exists(i) /\ <<row[i].state, call[c].want>> \in Edge)
  <2>1. UNCHANGED row /\ Reply(c, "missed")
    BY <1>1, <1>4 DEF MoveIf
  <2>2. QED
    BY <1>2, <2>1, AnswerKeeps
<1>5. QED
  BY <1>3, <1>4

LEMMA MoveStep ==
  ASSUME StoreInv, NEW c \in Client, Move(c)
  PROVE  StoreKept
<1>1. PICK i : i = call[c].id
  OBVIOUS
<1>2. /\ call[c] # None /\ call[c].op = "move" /\ Holds(c)
      /\ UNCHANGED <<adapter, time>> /\ Set(i, "state", call[c].want) /\ Reply(c, "ok")
  BY <1>1 DEF Move, At, Holds
<1>3. /\ Exists(i) /\ <<row[i].state, call[c].want>> \in Edge
      /\ <<row[i].state, call[c].want>> \in Guarded => row[i].filled
  BY <1>1, <1>2 DEF StoreInv, LockInv
<1>4. \A d \in Client \ {c} : Holds(d) => call[d].id # i
  BY <1>1, <1>2 DEF StoreInv, StoreTypeOK, Holds
<1>5. QED
  BY <1>1, <1>2, <1>3, <1>4, MoveWrites

LEMMA LockStep ==
  ASSUME StoreInv, NEW c \in Client, Lock(c)
  PROVE  StoreKept
<1>1. PICK i : i = call[c].id
  OBVIOUS
<1>2. PICK refusal : refusal = Refusal(i, call[c].want)
  OBVIOUS
<1>3. /\ adapter = "locking" /\ call[c] # None /\ call[c].op = "move" /\ ~IsLocked(i)
      /\ Reply(c, IF refusal = None THEN "locked" ELSE refusal)
      /\ UNCHANGED <<adapter, row, time>>
  BY <1>1, <1>2 DEF Lock, At
<1>4. CASE refusal = None
  <2>1. /\ call' \in [Client -> Call \cup {None}]
        /\ call'[c] # None /\ call'[c].step = "locked"
        /\ call'[c].op = call[c].op /\ call'[c].id = call[c].id
        /\ call'[c].want = call[c].want /\ call'[c].at = call[c].at
        /\ \A d \in Client \ {c} : call'[d] = call[d]
    BY <1>3, <1>4, ReplyFields DEF StoreInv
  <2>2. /\ Exists(i) /\ <<row[i].state, call[c].want>> \in Edge
        /\ <<row[i].state, call[c].want>> \in Guarded => row[i].filled
    BY <1>2, <1>4, RefusalIsAnswer
  <2>3. \A d \in Client : Holds(d) => call[d].id # i
    BY <1>3 DEF IsLocked, Holds
  <2>4. StoreTypeOK'
    BY <1>1, <1>3, <2>1, <2>2, <2>3 DEF StoreInv, StoreTypeOK, Exists, Holds
  <2>5. WantInv'
    <3> SUFFICES ASSUME NEW d \in Client, call'[d] # None
                 PROVE  /\ call'[d].op = "move" => call'[d].want \in State
                        /\ call'[d].op \in {"create", "patch"} => call'[d].want \in BOOLEAN
      BY DEF WantInv
    <3>1. call[d] # None /\ call'[d].op = call[d].op /\ call'[d].want = call[d].want
      BY <1>3, <2>1
    <3>2. QED
      BY <3>1 DEF StoreInv, WantInv
  <2>6. CreateInv' /\ EraseInv'
    BY <1>3, <2>1 DEF StoreInv, CreateInv, EraseInv, At
  <2>7. LockInv'
    BY <1>1, <1>3, <2>1, <2>2 DEF StoreInv, LockInv, Holds, Exists
  <2>8. Kept /\ LegalMoves
    BY <1>3 DEF Kept, LegalMoves, Exists
  <2>9. QED
    BY <2>4, <2>5, <2>6, <2>7, <2>8 DEF StoreKept, StoreInv
<1>5. CASE refusal # None
  BY <1>2, <1>3, <1>5, RefusalIsAnswer, AnswerKeeps
<1>6. QED
  BY <1>4, <1>5

LEMMA HandleStep ==
  ASSUME StoreInv, NEW c \in Client, Handle(c)
  PROVE  StoreKept
<1>1. CASE TellMissing(c)
  <2>1. /\ call[c] # None /\ call[c].op = "move" /\ UNCHANGED <<adapter, row, time>>
        /\ Reply(c, IF Exists(call[c].id) THEN "invalid_transition" ELSE "not_found")
    BY <1>1 DEF TellMissing, At
  <2>2. (IF Exists(call[c].id) THEN "invalid_transition" ELSE "not_found") \in Answered
    BY DEF Answered
  <2>3. QED
    BY <2>1, <2>2, AnswerKeeps
<1>2. CASE Break(c)
  BY <1>2, AnswerKeeps DEF Break, Answered
<1>3. QED
  BY <1>1, <1>2, CreateStep, PatchStep, EraseStep, MoveInMemoryStep, MoveIfStep, LockStep,
     MoveStep DEF Handle

(***************************************************************************)
(* What asks and what is forgotten changes no record.                      *)
(***************************************************************************)
LEMMA AskStep ==
  ASSUME StoreInv, NEW c \in Client, NEW op \in Operation, NEW i \in Id, NEW want,
         IF op = "move" THEN want \in State ELSE want \in BOOLEAN,
         Ask(c, op, i, want)
  PROVE  StoreInv' /\ UNCHANGED row
<1>1. PICK asked : asked = [op |-> op, id |-> i, want |-> want, at |-> time, step |-> "sent"]
  OBVIOUS
<1>2. /\ call' = [call EXCEPT ![c] = asked] /\ UNCHANGED <<adapter, row, time>>
      /\ op = "create" => /\ row[i] = Unborn
                          /\ \A d \in Client : call[d] # None => call[d].id # i
  BY <1>1 DEF Ask
<1>3. /\ asked \in Call /\ asked.step = "sent" /\ asked.op = op /\ asked.id = i
      /\ asked.want = want
  BY <1>1 DEF Call, StoreInv, StoreTypeOK
<1>4. /\ call' \in [Client -> Call \cup {None}] /\ call'[c] = asked
      /\ \A d \in Client \ {c} : call'[d] = call[d]
  BY <1>2, <1>3 DEF StoreInv, StoreTypeOK
<1>5. StoreTypeOK'
  BY <1>2, <1>3, <1>4 DEF StoreInv, StoreTypeOK, Exists
<1>6. WantInv'
  BY <1>3, <1>4 DEF StoreInv, WantInv
<1>7. CreateInv'
  BY <1>2, <1>3, <1>4 DEF StoreInv, CreateInv, At
<1>8. EraseInv' /\ LockInv'
  BY <1>2, <1>3, <1>4 DEF StoreInv, EraseInv, LockInv, At, Holds, Exists
<1>9. QED
  BY <1>2, <1>5, <1>6, <1>7, <1>8 DEF StoreInv

LEMMA ForgetStep ==
  ASSUME StoreInv, NEW c \in Client, Forget(c)
  PROVE  StoreInv' /\ UNCHANGED row
<1>1. /\ call' = [call EXCEPT ![c] = None] /\ UNCHANGED <<adapter, row, time>>
  BY DEF Forget
<1>2. /\ call' \in [Client -> Call \cup {None}] /\ call'[c] = None
      /\ \A d \in Client \ {c} : call'[d] = call[d]
  BY <1>1 DEF StoreInv, StoreTypeOK
<1>3. StoreTypeOK'
  BY <1>1, <1>2 DEF StoreInv, StoreTypeOK, Exists
<1>4. WantInv' /\ CreateInv'
  BY <1>1, <1>2 DEF StoreInv, WantInv, CreateInv, At
<1>5. EraseInv' /\ LockInv'
  BY <1>1, <1>2 DEF StoreInv, EraseInv, LockInv, At, Holds, Exists
<1>6. QED
  BY <1>1, <1>3, <1>4, <1>5 DEF StoreInv

LEMMA TimeStep ==
  ASSUME StoreInv, UNCHANGED <<adapter, row, call>>, time' \in 0..MaxTime
  PROVE  StoreInv' /\ UNCHANGED row
BY DEF StoreInv, StoreTypeOK, WantInv, CreateInv, EraseInv, LockInv, At, Holds, Exists

LEMMA SameRows ==
  ASSUME StoreTypeOK, UNCHANGED row
  PROVE  LegalMoves /\ Kept
BY DEF LegalMoves, Kept, Exists, StoreTypeOK

-------------------------------------------------------------------------------
(***************************************************************************)
(* The list. The key of a record stays what it is while the record exists. *)
(***************************************************************************)
LEMMA KeyKept ==
  ASSUME Kept, NEW i \in Ids, row'[i] \in Row, NEW x
  PROVE  /\ Beyond(Keyed(i), x)' <=> Beyond(Keyed(i), x)
         /\ Precedes(x, Keyed(i))' <=> Precedes(x, Keyed(i))
<1>1. row'[i].made = row[i].made
  BY AbsenceAssumption DEF Kept, Ids
<1>2. QED
  BY <1>1 DEF Beyond, Precedes, Keyed

LEMMA ListStutters ==
  ASSUME ListInv, UNCHANGED <<listVars, histories, row>>
  PROVE  ListInv'
BY DEF ListInv, ListTypeOK, LoadInv, PageInv, ShownInv, GoneInv, RemovedIsGone, Covers, Fresh,
       Answer, Rows, IdsOf, Ids, Exists, Keyed, Beyond, Precedes, listVars, histories

LEMMA CoversKept ==
  ASSUME Kept, ListTypeOK, present' = {i \in present : row'[i] \in Row},
         NEW items, NEW after, NEW next, Covers(items, after, next)
  PROVE  Covers(items, after, next)'
<1> SUFFICES ASSUME NEW i \in present', Beyond(Keyed(i), after)'
             PROVE  i \in IdsOf(items) \/ (next # None /\ Precedes(next, Keyed(i))')
  BY DEF Covers, IdsOf
<1>1. i \in present /\ i \in Ids /\ row'[i] \in Row
  BY DEF ListTypeOK
<1>2. Beyond(Keyed(i), after)
  BY <1>1, KeyKept
<1>3. i \in IdsOf(items) \/ (next # None /\ Precedes(next, Keyed(i)))
  BY <1>1, <1>2 DEF Covers
<1>4. QED
  BY <1>1, <1>3, KeyKept

LEMMA StoreStep ==
  ASSUME StoreInv, ListInv, NEW c \in Client, Store(c)
  PROVE  StoreKept /\ ListInv'
<1>1. StoreKept
  BY HandleStep DEF Store
<1>2. /\ UNCHANGED listVars /\ removed' = removed
      /\ present' = {i \in present : row'[i] \in Row}
  BY DEF Store
<1>3. Kept /\ ListTypeOK
  BY <1>1 DEF StoreKept, ListInv
<1>4. ListTypeOK'
  BY <1>2, <1>3 DEF ListTypeOK, Kept, Ids, Exists, listVars
<1>5. LoadInv' /\ GoneInv'
  BY <1>2 DEF ListInv, LoadInv, GoneInv, RemovedIsGone, Fresh, Answer, IdsOf, listVars
<1>6. PageInv'
  <2> SUFFICES ASSUME NEW l \in Load, Answer(l)'
               PROVE  Covers(load[l].page.items, load[l].after, load[l].page.next)'
    BY DEF PageInv
  <2>1. PICK items, after, next :
          items = load[l].page.items /\ after = load[l].after /\ next = load[l].page.next
    OBVIOUS
  <2>2. Covers(items, after, next)
    BY <1>2, <2>1 DEF ListInv, PageInv, Answer, Fresh, listVars
  <2>3. Covers(items, after, next)'
    BY <1>2, <1>3, <2>2, CoversKept
  <2>4. QED
    BY <1>2, <2>1, <2>3 DEF Covers, listVars
<1>7. ShownInv'
  <2> SUFFICES ASSUME Rows'
               PROVE  Covers(shown, None, cursor)'
    BY DEF ShownInv
  <2>1. PICK items, next : items = shown /\ next = cursor
    OBVIOUS
  <2>2. Covers(items, None, next)
    BY <1>2, <2>1 DEF ListInv, ShownInv, Rows, listVars
  <2>3. Covers(items, None, next)'
    BY <1>2, <1>3, <2>2, CoversKept
  <2>4. QED
    BY <1>2, <2>1, <2>3 DEF Covers, listVars
<1>8. QED
  BY <1>1, <1>4, <1>5, <1>6, <1>7 DEF ListInv

(***************************************************************************)
(* A reload begins a generation: every load under way is old.              *)
(***************************************************************************)
LEMMA ReloadStep ==
  ASSUME StoreTypeOK, ListInv, NEW l \in Load, Reload(l), UNCHANGED row,
         removed' \subseteq {i \in Id : row[i] = Deleted}
  PROVE  ListInv'
<1>1. PICK begun : begun = Started(None)
  OBVIOUS
<1>2. begun \in LoadType /\ begun.fresh /\ begun.step = "asked" /\ begun.after = None
  BY <1>1 DEF Started, LoadType
<1>3. /\ Free(l) /\ load' = [Aged EXCEPT ![l] = begun]
      /\ shown' = <<>> /\ cursor' = None /\ loading' = TRUE /\ error' = FALSE
      /\ loadingMore' = loadingMore /\ present' = Ids
  BY <1>1 DEF Reload
<1>4. Aged \in [Load -> LoadType \cup {None}]
  <2> SUFFICES ASSUME NEW k \in Load, load[k] # None
               PROVE  [load[k] EXCEPT !.fresh = FALSE] \in LoadType
    BY DEF Aged, Free
  <2>1. load[k] \in LoadType
    BY DEF ListInv, ListTypeOK
  <2>2. QED
    BY <2>1 DEF LoadType
<1>5. \A k \in Load : Aged[k] # None => ~Aged[k].fresh
  <2> SUFFICES ASSUME NEW k \in Load, load[k] # None
               PROVE  ~[load[k] EXCEPT !.fresh = FALSE].fresh
    BY DEF Aged, Free
  <2>1. load[k] \in LoadType
    BY DEF ListInv, ListTypeOK
  <2>2. QED
    BY <2>1 DEF LoadType
<1>6. /\ load' \in [Load -> LoadType \cup {None}] /\ load'[l] = begun
      /\ \A k \in Load \ {l} : load'[k] = Aged[k]
  BY <1>2, <1>3, <1>4
<1>7. \A k \in Load : Fresh(k)' => k = l /\ ~Answer(k)'
  BY <1>2, <1>5, <1>6 DEF Fresh, Answer
<1>8. ListTypeOK'
  <2>1. shown' \in Seq(Item) /\ cursor' \in Item \cup {None}
    BY <1>3
  <2>2. present' \subseteq Ids' /\ removed' \subseteq {i \in Id : row'[i] = Deleted}
    BY <1>3 DEF Ids, Exists
  <2>3. {loading', loadingMore', error'} \subseteq BOOLEAN
    BY <1>3 DEF ListInv, ListTypeOK
  <2>4. QED
    BY <1>6, <2>1, <2>2, <2>3 DEF ListTypeOK
<1>9. LoadInv' /\ PageInv'
  BY <1>2, <1>3, <1>6, <1>7 DEF LoadInv, PageInv, Answer
<1>10. ShownInv'
  BY <1>3 DEF ShownInv, Rows
<1>11. GoneInv'
  BY <1>3, <1>7 DEF GoneInv, RemovedIsGone, IdsOf, Answer
<1>12. QED
  BY <1>8, <1>9, <1>10, <1>11 DEF ListInv

LEMMA LoadMoreStep ==
  ASSUME ListInv, NEW l \in Load, LoadMore(l)
  PROVE  ListInv'
<1>1. PICK begun : begun = Started(cursor)
  OBVIOUS
<1>2. /\ load' = [load EXCEPT ![l] = begun] /\ loadingMore' = TRUE /\ error' = FALSE
      /\ ~loading /\ ~error /\ cursor # None /\ ~loadingMore
      /\ UNCHANGED <<row, shown, cursor, loading, present, removed>>
  BY <1>1 DEF LoadMore, storeVars, histories
<1>3. begun \in LoadType /\ begun.fresh /\ begun.step = "asked" /\ begun.after = cursor
  BY <1>1 DEF Started, LoadType, ListInv, ListTypeOK
<1>4. \A k \in Load : ~Fresh(k)
  BY <1>2 DEF ListInv, LoadInv
<1>5. /\ load' \in [Load -> LoadType \cup {None}] /\ load'[l] = begun
      /\ \A k \in Load \ {l} : load'[k] = load[k]
  BY <1>2, <1>3 DEF ListInv, ListTypeOK
<1>6. \A k \in Load : Fresh(k)' => k = l /\ ~Answer(k)'
  BY <1>3, <1>4, <1>5 DEF Fresh, Answer
<1>7. ListTypeOK'
  BY <1>2, <1>5 DEF ListInv, ListTypeOK, Ids, Exists
<1>8. LoadInv' /\ PageInv'
  BY <1>2, <1>3, <1>5, <1>6 DEF LoadInv, PageInv, Answer
<1>9. ShownInv'
  BY <1>2 DEF ListInv, ShownInv, Rows, Covers, IdsOf, Keyed, Beyond, Precedes
<1>10. GoneInv'
  BY <1>2, <1>6 DEF ListInv, GoneInv, RemovedIsGone, IdsOf, Answer
<1>11. QED
  BY <1>7, <1>8, <1>9, <1>10 DEF ListInv

(***************************************************************************)
(* The server answers with all that comes after the cursor, up to a page.  *)
(***************************************************************************)
LEMMA ServeStep ==
  ASSUME StoreTypeOK, ListInv, NEW l \in Load, Serve(l)
  PROVE  ListInv'
<1>1. Fresh(l) /\ load[l].step = "asked"
  BY DEF Serve, Fresh, Free
<1>2. PICK after : after = load[l].after
  OBVIOUS
<1>3. PICK page : page = Page(after)
  OBVIOUS
<1>4. PICK served : served = [load[l] EXCEPT !.step = "answered", !.page = page]
  OBVIOUS
<1>5. /\ load' = [load EXCEPT ![l] = served]
      /\ UNCHANGED <<row, shown, cursor, loading, loadingMore, error, present, removed>>
  BY <1>2, <1>3, <1>4 DEF Serve, storeVars, histories
<1>6. load[l] \in LoadType
  BY <1>1 DEF ListInv, ListTypeOK, Fresh
<1>7. after \in Item \cup {None}
  BY <1>2, <1>6 DEF LoadType
<1>8. /\ page \in Pages /\ IdsOf(page.items) \subseteq Ids
      /\ \A i \in Ids : Beyond(Keyed(i), after) =>
           i \in IdsOf(page.items) \/ (page.next # None /\ Precedes(page.next, Keyed(i)))
  BY <1>3, <1>7, PageIsComplete
<1>9. /\ served \in LoadType /\ served.fresh = load[l].fresh /\ served.after = after
      /\ served.page = page
  BY <1>2, <1>4, <1>6, <1>8 DEF LoadType
<1>10. /\ load' \in [Load -> LoadType \cup {None}] /\ load'[l] = served
       /\ \A k \in Load \ {l} : load'[k] = load[k]
  BY <1>5, <1>9 DEF ListInv, ListTypeOK
<1>11. \A k \in Load : /\ Fresh(k)' => Fresh(k) /\ load'[k].after = load[k].after
                       /\ Answer(k)' => k = l
  <2>1. \A k \in Load : Fresh(k)' => Fresh(k) /\ load'[k].after = load[k].after
    BY <1>1, <1>2, <1>9, <1>10 DEF Fresh
  <2>2. \A k \in Load : Fresh(k) => k = l
    BY <1>1 DEF ListInv, LoadInv
  <2>3. QED
    BY <2>1, <2>2 DEF Answer
<1>12. ListTypeOK'
  BY <1>5, <1>10 DEF ListInv, ListTypeOK, Ids, Exists
<1>13. LoadInv'
  BY <1>5, <1>8, <1>9, <1>10, <1>11 DEF ListInv, LoadInv
<1>14. PageInv'
  <2>1. present \subseteq Ids
    BY DEF ListInv, ListTypeOK
  <2>2. Covers(page.items, after, page.next)
    BY <1>8, <2>1 DEF Covers
  <2>3. Covers(load'[l].page.items, load'[l].after, load'[l].page.next)
    BY <1>9, <1>10, <2>2
  <2>4. QED
    BY <1>5, <1>11, <2>3 DEF PageInv, Covers, IdsOf, Keyed, Beyond, Precedes
<1>15. ShownInv'
  BY <1>5 DEF ListInv, ShownInv, Rows, Covers, IdsOf, Keyed, Beyond, Precedes
<1>16. GoneInv'
  <2>1. removed \cap Ids = {}
    BY AbsenceAssumption DEF ListInv, ListTypeOK, Ids, Exists
  <2>2. removed \cap IdsOf(load'[l].page.items) = {}
    BY <1>8, <1>9, <1>10, <2>1
  <2>3. QED
    BY <1>5, <1>11, <2>2 DEF ListInv, GoneInv, RemovedIsGone, IdsOf
<1>17. QED
  BY <1>12, <1>13, <1>14, <1>15, <1>16 DEF ListInv

(***************************************************************************)
(* The one load of the present generation ends, and others may end.        *)
(***************************************************************************)
LEMMA Finished ==
  ASSUME ListInv, NEW l \in Load, Finish(l)
  PROVE  /\ load' \in [Load -> LoadType \cup {None}]
         /\ \A k \in Load : Fresh(k)' => Fresh(k) /\ k # l /\ load'[k] = load[k]
         /\ Fresh(l) => \A k \in Load : ~Fresh(k)'
<1>1. /\ load' \in [Load -> LoadType \cup {None}] /\ load'[l] = None
      /\ \A k \in Load \ {l} : load'[k] = load[k]
  BY DEF ListInv, ListTypeOK, Finish
<1>2. \A k \in Load : Fresh(k)' => Fresh(k) /\ k # l /\ load'[k] = load[k]
  BY <1>1 DEF Fresh
<1>3. Fresh(l) => \A k \in Load : Fresh(k) => k = l
  BY DEF ListInv, LoadInv
<1>4. QED
  BY <1>1, <1>2, <1>3

LEMMA ReceiveErrorStep ==
  ASSUME ListInv, NEW l \in Load, ReceiveError(l)
  PROVE  ListInv'
<1>1. /\ Fresh(l) /\ Finish(l) /\ error' = TRUE /\ loading' = FALSE /\ loadingMore' = FALSE
      /\ UNCHANGED <<row, shown, cursor, present, removed>>
  BY DEF ReceiveError, Fresh, Free, storeVars, histories
<1>2. load' \in [Load -> LoadType \cup {None}] /\ \A k \in Load : ~Fresh(k)'
  BY <1>1, Finished
<1>3. ListTypeOK'
  BY <1>1, <1>2 DEF ListInv, ListTypeOK, Ids, Exists
<1>4. LoadInv' /\ PageInv' /\ ShownInv'
  BY <1>1, <1>2 DEF LoadInv, PageInv, ShownInv, Answer, Rows
<1>5. GoneInv'
  BY <1>1, <1>2 DEF ListInv, GoneInv, RemovedIsGone, IdsOf, Answer
<1>6. QED
  BY <1>3, <1>4, <1>5 DEF ListInv

LEMMA DropOldStep ==
  ASSUME ListInv, NEW l \in Load, DropOld(l)
  PROVE  ListInv'
<1>1. /\ Finish(l)
      /\ UNCHANGED <<row, shown, cursor, loading, loadingMore, error, present, removed>>
  BY DEF DropOld, storeVars, histories
<1>2. /\ load' \in [Load -> LoadType \cup {None}]
      /\ \A k \in Load : Fresh(k)' => Fresh(k) /\ load'[k] = load[k]
      /\ \A k \in Load : Answer(k)' => Answer(k) /\ load'[k] = load[k]
  BY <1>1, Finished DEF Answer
<1>3. ListTypeOK'
  BY <1>1, <1>2 DEF ListInv, ListTypeOK, Ids, Exists
<1>4. LoadInv'
  BY <1>1, <1>2 DEF ListInv, LoadInv
<1>5. PageInv'
  BY <1>1, <1>2 DEF ListInv, PageInv, Covers, IdsOf, Keyed, Beyond, Precedes
<1>6. ShownInv'
  BY <1>1 DEF ListInv, ShownInv, Rows, Covers, IdsOf, Keyed, Beyond, Precedes
<1>7. GoneInv'
  BY <1>1, <1>2 DEF ListInv, GoneInv, RemovedIsGone, IdsOf
<1>8. QED
  BY <1>3, <1>4, <1>5, <1>6, <1>7 DEF ListInv

(***************************************************************************)
(* What arrives is shown: what there is comes after the end of the page,   *)
(* or is on the page, or was shown before it.                              *)
(***************************************************************************)
LEMMA IdsOfBoth ==
  ASSUME NEW s \in Seq(Item), NEW t \in Seq(Item)
  PROVE  s \o t \in Seq(Item) /\ IdsOf(s \o t) = IdsOf(s) \cup IdsOf(t)
<1>1. s \o t \in Seq(Item) /\ DOMAIN (s \o t) = 1..(Len(s) + Len(t))
  OBVIOUS
<1>2. /\ \A k \in DOMAIN s : k \in DOMAIN (s \o t) /\ (s \o t)[k] = s[k]
      /\ \A k \in DOMAIN t : k + Len(s) \in DOMAIN (s \o t) /\ (s \o t)[k + Len(s)] = t[k]
  OBVIOUS
<1>3. \A k \in DOMAIN (s \o t) : \/ k \in DOMAIN s /\ (s \o t)[k] = s[k]
                                 \/ k - Len(s) \in DOMAIN t /\ (s \o t)[k] = t[k - Len(s)]
  OBVIOUS
<1> HIDE DEF IdsOf
<1>4. IdsOf(s \o t) \subseteq IdsOf(s) \cup IdsOf(t)
  BY <1>3 DEF IdsOf
<1>5. IdsOf(s) \subseteq IdsOf(s \o t)
  BY <1>2 DEF IdsOf
<1>6. IdsOf(t) \subseteq IdsOf(s \o t)
  BY <1>2 DEF IdsOf
<1>7. QED
  BY <1>1, <1>4, <1>5, <1>6

LEMMA ReceiveStep ==
  ASSUME ListInv, NEW l \in Load, Receive(l)
  PROVE  ListInv'
<1>1. Answer(l) /\ Fresh(l) /\ load[l].page \in Pages
  BY DEF Receive, Answer, Fresh, Free, ListInv, LoadInv
<1>2. PICK after, items, next :
        after = load[l].after /\ items = load[l].page.items /\ next = load[l].page.next
  OBVIOUS
<1>3. items \in Seq(Item) /\ next \in Item \cup {None}
  BY <1>1, <1>2 DEF Pages
<1>4. /\ Finish(l) /\ loading' = FALSE /\ loadingMore' = FALSE /\ cursor' = next
      /\ shown' = (IF after = None THEN items ELSE shown \o items)
      /\ UNCHANGED <<row, error, present, removed>>
  BY <1>2 DEF Receive, storeVars, histories
<1>5. shown \in Seq(Item)
  BY DEF ListInv, ListTypeOK
<1>6. shown' \in Seq(Item)
  BY <1>3, <1>4, <1>5, IdsOfBoth
<1>7. /\ after = None => IdsOf(shown') = IdsOf(items)
      /\ after # None => IdsOf(shown') = IdsOf(shown) \cup IdsOf(items)
  BY <1>3, <1>4, <1>5, IdsOfBoth
<1>8. load' \in [Load -> LoadType \cup {None}] /\ \A k \in Load : ~Fresh(k)'
  BY <1>1, <1>4, Finished
<1>9. ListTypeOK'
  <2>1. present' \subseteq Ids' /\ removed' \subseteq {i \in Id : row'[i] = Deleted}
    BY <1>4 DEF ListInv, ListTypeOK, Ids, Exists
  <2>2. {loading', loadingMore', error'} \subseteq BOOLEAN
    BY <1>4 DEF ListInv, ListTypeOK
  <2>3. QED
    BY <1>3, <1>4, <1>6, <1>8, <2>1, <2>2 DEF ListTypeOK
<1>10. LoadInv' /\ PageInv'
  BY <1>8 DEF LoadInv, PageInv, Answer
<1>11. ShownInv'
  <2>1. Covers(items, after, next)
    BY <1>1, <1>2 DEF ListInv, PageInv
  <2>2. ASSUME NEW i \in present
        PROVE  i \in IdsOf(shown') \/ (next # None /\ Precedes(next, Keyed(i)))
    <3>1. CASE after = None
      BY <1>7, <2>1, <3>1 DEF Covers, Beyond
    <3>2. CASE after # None
      <4>1. Rows /\ after = cursor /\ cursor # None
        BY <1>1, <1>2, <3>2 DEF ListInv, LoadInv, Rows
      <4>2. i \in IdsOf(shown) \/ Precedes(cursor, Keyed(i))
        BY <4>1 DEF ListInv, ShownInv, Covers, Beyond
      <4>3. QED
        BY <1>7, <2>1, <3>2, <4>1, <4>2 DEF Covers, Beyond
    <3>3. QED
      BY <3>1, <3>2
  <2>3. Covers(shown', None, next)
    BY <2>2 DEF Covers
  <2>4. QED
    BY <1>4, <2>3 DEF ShownInv, Covers, IdsOf, Keyed, Beyond, Precedes
<1>12. GoneInv'
  <2>1. removed \cap IdsOf(items) = {} /\ removed \cap IdsOf(shown) = {}
    BY <1>1, <1>2 DEF ListInv, GoneInv, RemovedIsGone
  <2>2. removed \cap IdsOf(shown') = {}
    BY <1>7, <2>1
  <2>3. QED
    BY <1>4, <1>8, <2>2 DEF GoneInv, RemovedIsGone, IdsOf, Answer
<1>13. QED
  BY <1>9, <1>10, <1>11, <1>12 DEF ListInv

-------------------------------------------------------------------------------
(***************************************************************************)
(* The requests that come from the list and from others.                   *)
(***************************************************************************)
LEMMA ActedStep ==
  ASSUME StoreInv, ListInv, NEW u \in Client, Acted(u)
  PROVE  StoreKept /\ ListInv'
<1>1. Forget(u) /\ Told(u) /\ UNCHANGED row
  BY DEF Acted, Forget
<1>2. StoreInv'
  BY <1>1, ForgetStep
<1>3. StoreKept
  BY <1>1, <1>2, SameRows DEF StoreKept, StoreInv
<1>4. CASE ListStays
  BY <1>1, <1>3, <1>4, ListStutters DEF ListStays
<1>5. CASE /\ call[u].step = "ok"
           /\ removed' = IF call[u].op = "delete" THEN removed \cup {call[u].id} ELSE removed
           /\ \E l \in Load : Reload(l)
  <2>1. call[u] # None /\ call[u].id \in Id
    BY <1>1 DEF Told, StoreInv, StoreTypeOK, Call
  <2>2. call[u].op = "delete" => row[call[u].id] = Deleted
    BY <1>5, <2>1 DEF StoreInv, EraseInv, At
  <2>3. removed' \subseteq {i \in Id : row[i] = Deleted}
    BY <1>5, <2>1, <2>2 DEF ListInv, ListTypeOK
  <2>4. QED
    BY <1>1, <1>3, <1>5, <2>3, ReloadStep DEF StoreInv
<1>6. QED
  BY <1>4, <1>5 DEF Acted

LEMMA AskedStep ==
  ASSUME StoreInv, ListInv, NEW c \in Client, NEW op \in Operation, NEW i \in Id, NEW want,
         IF op = "move" THEN want \in State ELSE want \in BOOLEAN,
         Ask(c, op, i, want), ListStays
  PROVE  StoreKept /\ ListInv'
<1>1. StoreInv' /\ UNCHANGED row
  BY AskStep
<1>2. QED
  BY <1>1, SameRows, ListStutters DEF StoreKept, StoreInv, ListStays

LEMMA OthersStep ==
  ASSUME StoreInv, ListInv, NEW c \in Client, Others(c)
  PROVE  StoreKept /\ ListInv'
<1>1. ListStays
  BY DEF Others
<1>2. CASE Forget(c)
  <2>1. StoreInv' /\ UNCHANGED row
    BY <1>2, ForgetStep
  <2>2. QED
    BY <1>1, <2>1, SameRows, ListStutters DEF StoreKept, StoreInv, ListStays
<1>3. ASSUME NEW i \in Id, NEW full \in BOOLEAN, Ask(c, "patch", i, full)
      PROVE  StoreKept /\ ListInv'
  BY <1>1, <1>3, AskedStep DEF Operation
<1>4. ASSUME NEW i \in Id, Ask(c, "create", i, FALSE) \/ Ask(c, "delete", i, FALSE)
      PROVE  StoreKept /\ ListInv'
  BY <1>1, <1>4, AskedStep DEF Operation
<1>5. ASSUME NEW i \in Id, NEW s \in State, Ask(c, "move", i, s)
      PROVE  StoreKept /\ ListInv'
  BY <1>1, <1>5, AskedStep DEF Operation
<1>6. QED
  BY <1>2, <1>3, <1>4, <1>5 DEF Others

LEMMA UserStep ==
  ASSUME StoreInv, ListInv, NEW u \in User, NEW k \in DOMAIN shown,
         AskToDelete(u, k) \/ \E s \in State : AskToMove(u, k, s)
  PROVE  StoreKept /\ ListInv'
<1>1. u \in Client
  BY ListAssumption DEF ListAssumption
<1>2. shown[k].id \in Id
  <2>1. shown[k] \in Item
    BY DEF ListInv, ListTypeOK
  <2>2. QED
    BY <2>1 DEF Item
<1>3. CASE AskToDelete(u, k)
  BY <1>1, <1>2, <1>3, AskedStep DEF AskToDelete, Operation
<1>4. ASSUME NEW s \in State, AskToMove(u, k, s)
      PROVE  StoreKept /\ ListInv'
  BY <1>1, <1>2, <1>4, AskedStep DEF AskToMove, Operation
<1>5. QED
  BY <1>3, <1>4

-------------------------------------------------------------------------------
RecordsInv == StoreInv /\ ListInv

LEMMA RecordsStart == RecordsInit => RecordsInv
<1> SUFFICES ASSUME RecordsInit PROVE RecordsInv
  OBVIOUS
<1> USE DEF RecordsInit, StoreInit, ListInit
<1>1. 0 \in 0..MaxTime /\ <<>> \in Seq(Item)
  BY RecordsAssumption DEF RecordsAssumption
<1>2. StoreInv
  BY <1>1 DEF StoreInv, StoreTypeOK, WantInv, CreateInv, EraseInv, LockInv, At, Holds
<1>3. ListTypeOK
  BY <1>1 DEF ListTypeOK
<1>4. ListInv
  BY <1>3 DEF ListInv, LoadInv, PageInv, ShownInv, GoneInv, RemovedIsGone, Fresh, Answer, Rows
<1>5. QED
  BY <1>2, <1>4 DEF RecordsInv

LEMMA RecordsStep ==
  ASSUME RecordsInv, [RecordsNext]_recordVars
  PROVE  RecordsInv' /\ [LegalMoves]_storeVars
<1>1. StoreInv /\ ListInv /\ StoreTypeOK
  BY DEF RecordsInv, StoreInv
<1>2. ASSUME UNCHANGED <<storeVars, listVars, histories>>
      PROVE  RecordsInv' /\ [LegalMoves]_storeVars
  BY <1>1, <1>2, TimeStep, ListStutters DEF storeVars, RecordsInv, StoreInv, StoreTypeOK
<1>3. ASSUME UNCHANGED storeVars, ListInv'
      PROVE  RecordsInv' /\ [LegalMoves]_storeVars
  BY <1>1, <1>3, TimeStep DEF storeVars, RecordsInv, StoreInv, StoreTypeOK
<1>4. ASSUME StoreKept, ListInv'
      PROVE  RecordsInv' /\ [LegalMoves]_storeVars
  BY <1>4 DEF RecordsInv, StoreKept
<1>5. ASSUME NEW l \in Load, Visit(l)
      PROVE  RecordsInv' /\ [LegalMoves]_storeVars
  <2>1. UNCHANGED <<storeVars, row, removed>> /\ Reload(l)
    BY <1>5 DEF Visit, storeVars
  <2>2. removed' \subseteq {i \in Id : row[i] = Deleted}
    BY <1>1, <2>1 DEF ListInv, ListTypeOK
  <2>3. QED
    BY <1>1, <1>3, <2>1, <2>2, ReloadStep
<1>6. ASSUME NEW l \in Load, LoadMore(l)
      PROVE  RecordsInv' /\ [LegalMoves]_storeVars
  <2>1. UNCHANGED storeVars
    BY <1>6 DEF LoadMore
  <2>2. QED
    BY <1>1, <1>3, <1>6, <2>1, LoadMoreStep
<1>7. ASSUME NEW l \in Load, Serve(l)
      PROVE  RecordsInv' /\ [LegalMoves]_storeVars
  <2>1. UNCHANGED storeVars
    BY <1>7 DEF Serve
  <2>2. QED
    BY <1>1, <1>3, <1>7, <2>1, ServeStep
<1>8. ASSUME NEW l \in Load, Receive(l)
      PROVE  RecordsInv' /\ [LegalMoves]_storeVars
  <2>1. UNCHANGED storeVars
    BY <1>8 DEF Receive
  <2>2. QED
    BY <1>1, <1>3, <1>8, <2>1, ReceiveStep
<1>9. ASSUME NEW l \in Load, ReceiveError(l) \/ DropOld(l)
      PROVE  RecordsInv' /\ [LegalMoves]_storeVars
  <2>1. UNCHANGED storeVars
    BY <1>9 DEF ReceiveError, DropOld
  <2>2. QED
    BY <1>1, <1>3, <1>9, <2>1, ReceiveErrorStep, DropOldStep
<1>10. ASSUME NEW u \in User, NEW k \in DOMAIN shown,
              AskToDelete(u, k) \/ \E s \in State : AskToMove(u, k, s)
       PROVE  RecordsInv' /\ [LegalMoves]_storeVars
  BY <1>1, <1>4, <1>10, UserStep
<1>11. ASSUME NEW c \in Client, Store(c) \/ Acted(c) \/ Others(c)
       PROVE  RecordsInv' /\ [LegalMoves]_storeVars
  BY <1>1, <1>4, <1>11, StoreStep, ActedStep, OthersStep
<1>12. CASE Tick /\ UNCHANGED counts /\ ListStays
  <2>1. UNCHANGED <<adapter, row, call>> /\ time' \in 0..MaxTime
    BY <1>1, <1>12, RecordsAssumption DEF Tick, StoreTypeOK, RecordsAssumption
  <2>2. StoreKept
    BY <1>1, <2>1, TimeStep, SameRows DEF StoreKept
  <2>3. ListInv'
    BY <1>1, <1>12, <2>1, ListStutters DEF ListStays
  <2>4. QED
    BY <1>4, <2>2, <2>3
<1>13. CASE UNCHANGED recordVars
  BY <1>2, <1>13 DEF recordVars
<1>14. QED
  BY <1>5, <1>6, <1>7, <1>8, <1>9, <1>10, <1>11, <1>12, <1>13 DEF RecordsNext

(***************************************************************************)
(* The invariant of the records and of the list that pages through them.   *)
(***************************************************************************)
THEOREM RecordsHold == RecordsSpec => []RecordsInv
<1>1. RecordsInit => RecordsInv
  BY RecordsStart
<1>2. RecordsInv /\ [RecordsNext]_recordVars => RecordsInv'
  BY RecordsStep
<1>3. QED
  BY <1>1, <1>2, PTL DEF RecordsSpec

(***************************************************************************)
(* However many requests move, change and delete a record at a time, with  *)
(* any adapter, it moves along the edges of its workflow, and along a      *)
(* guarded one only while it holds what the guard requires (transition).   *)
(***************************************************************************)
THEOREM RecordsMoveLegally == RecordsSpec => MovesAreLegal
<1>1. RecordsInv /\ [RecordsNext]_recordVars => [LegalMoves]_storeVars
  BY RecordsStep
<1>2. QED
  BY <1>1, RecordsHold, PTL DEF RecordsSpec, MovesAreLegal

(***************************************************************************)
(* Whoever pages to the end has seen everything that was there all along,  *)
(* for pages of any size, whatever others do meanwhile (useCursorList).    *)
(***************************************************************************)
THEOREM NoRecordIsSkipped == RecordsSpec => []PagesAreComplete
<1>1. RecordsInv => PagesAreComplete
  BY DEF RecordsInv, ListInv, ListTypeOK, ShownInv, Covers, Beyond, PagesAreComplete
<1>2. QED
  BY <1>1, RecordsHold, PTL

(***************************************************************************)
(* What the user deleted is not shown again by a load that began before.   *)
(***************************************************************************)
THEOREM NothingDeletedComesBack == RecordsSpec => []RemovedIsGone
<1>1. RecordsInv => RemovedIsGone
  BY DEF RecordsInv, ListInv, GoneInv
<1>2. QED
  BY <1>1, RecordsHold, PTL
===============================================================================
