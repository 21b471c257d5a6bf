------------------------------- MODULE RecordList -------------------------------
(***************************************************************************)
(* A list of records in a generated frontend, as a table or as a board: it *)
(* loads pages one after the other (useCursorList), and deletes and moves  *)
(* the records it shows. Others use the store meanwhile.                   *)
(*                                                                         *)
(* A reload begins a generation. A load only asks whether its generation   *)
(* is the current one, so it is enough to know which loads are old.        *)
(***************************************************************************)
EXTENDS RecordStore, FiniteSets

CONSTANTS
  User,       \* the requests that the user of the list may make at a time
  Load,       \* pages under way at a time, at most
  MaxVisits,  \* bound on the visits of the user to the list
  MaxCalls    \* bound on what anybody asks of the server beside pages

ASSUME ListAssumption ==
  /\ User \subseteq Client
  /\ MaxVisits \in Nat /\ MaxCalls \in Nat

VARIABLES
  shown,      \* items
  cursor,
  loading, loadingMore, error,
  inFlight,
  load,       \* the pages under way
  visits, calls, \* how many there were
  present,    \* history: what was there ever since the list was loaded last
  removed     \* history: what the user deleted from here

listVars == <<shown, cursor, loading, loadingMore, error, inFlight, load>>
counts == <<visits, calls>>
histories == <<present, removed>>
recordVars == <<storeVars, listVars, counts, histories>>

Item == [id : Id, made : 0..MaxTime, state : State]

ASSUME ItemAssumption == None \notin Item

IdsOf(items) == {items[k].id : k \in DOMAIN items}

RecordsTypeOK ==
  /\ StoreTypeOK
  /\ shown \in Seq(Item) /\ cursor \in Item \cup {None}
  /\ \A b \in {loading, loadingMore, error, inFlight} : b \in BOOLEAN
  /\ \A l \in Load : load[l] # None =>
       /\ load[l].fresh \in BOOLEAN /\ load[l].after \in Item \cup {None}
       /\ load[l].step \in {"asked", "answered"}
  /\ visits \in 0..MaxVisits /\ calls \in 0..MaxCalls
  /\ present \subseteq Id /\ removed \subseteq Id
  /\ loading => shown = <<>> /\ cursor = None
  /\ \A k, l \in Load :
       (load[k] # None /\ load[l] # None /\ load[k].fresh /\ load[l].fresh) => k = l

ListInit ==
  /\ shown = <<>> /\ cursor = None
  /\ loading = TRUE /\ loadingMore = FALSE /\ error = FALSE /\ inFlight = FALSE
  /\ load = [l \in Load |-> None]
  /\ visits = 0 /\ calls = 0 /\ present = {} /\ removed = {}

RecordsInit == StoreInit /\ ListInit

-------------------------------------------------------------------------------
Free(l) == load[l] = None
Started(after) == [fresh |-> TRUE, after |-> after, step |-> "asked", page |-> None]
Aged == [l \in Load |-> IF Free(l) THEN None ELSE [load[l] EXCEPT !.fresh = FALSE]]

\* reload: inFlight is reset, so load(null) goes ahead.
Reload(l) ==
  /\ Free(l)
  /\ load' = [Aged EXCEPT ![l] = Started(None)]
  /\ shown' = <<>> /\ cursor' = None
  /\ loading' = TRUE /\ error' = FALSE /\ inFlight' = TRUE
  /\ UNCHANGED loadingMore
  /\ present' = Ids

\* The user comes to the list, or tries again after an error.
Visit(l) ==
  /\ visits < MaxVisits /\ visits' = visits + 1
  /\ Reload(l)
  /\ UNCHANGED <<storeVars, calls, removed>>

\* The button is there with the rows, and not while more are loading.
LoadMore(l) ==
  /\ ~loading /\ ~error /\ shown # <<>> /\ cursor # None /\ ~loadingMore
  /\ ~inFlight /\ Free(l)
  /\ load' = [load EXCEPT ![l] = Started(cursor)]
  /\ inFlight' = TRUE /\ loadingMore' = TRUE /\ error' = FALSE
  /\ UNCHANGED <<storeVars, shown, cursor, loading, counts, histories>>

\* What the server answers to an old load will be dropped.
Serve(l) ==
  /\ ~Free(l) /\ load[l].fresh /\ load[l].step = "asked"
  /\ load' = [load EXCEPT ![l].step = "answered", ![l].page = Page(load[l].after)]
  /\ UNCHANGED <<storeVars, shown, cursor, loading, loadingMore, error, inFlight,
                 counts, histories>>

\* finally: inFlight is reset by an old load, too.
Finish(l) ==
  /\ load' = [load EXCEPT ![l] = None]
  /\ inFlight' = FALSE

ReceiveRegardless(l) == \* mutant
  /\ ~Free(l) /\ load[l].step = "answered"
  /\ shown' = IF load[l].after = None THEN load[l].page.items
              ELSE shown \o load[l].page.items
  /\ cursor' = load[l].page.next
  /\ loading' = FALSE /\ loadingMore' = FALSE
  /\ Finish(l)
  /\ UNCHANGED <<storeVars, error, counts, histories>>

Receive(l) ==
  /\ ~Free(l) /\ load[l].step = "answered" /\ load[l].fresh
  /\ shown' = IF load[l].after = None THEN load[l].page.items
              ELSE shown \o load[l].page.items
  /\ cursor' = load[l].page.next
  /\ loading' = FALSE /\ loadingMore' = FALSE
  /\ Finish(l)
  /\ UNCHANGED <<storeVars, error, counts, histories>>

\* ErrorState takes the place of the rows.
ReceiveError(l) ==
  /\ ~Free(l) /\ load[l].fresh
  /\ error' = TRUE /\ loading' = FALSE /\ loadingMore' = FALSE
  /\ Finish(l)
  /\ UNCHANGED <<storeVars, shown, cursor, counts, histories>>

DropOld(l) ==
  /\ ~Free(l) /\ ~load[l].fresh
  /\ Finish(l)
  /\ UNCHANGED <<storeVars, shown, cursor, loading, loadingMore, error, counts, histories>>

-------------------------------------------------------------------------------
Rows == ~loading /\ ~error
ListStays == UNCHANGED <<listVars, histories>>
Count == calls < MaxCalls /\ calls' = calls + 1 /\ UNCHANGED visits

\* handleDelete of the table
AskToDelete(u, k) ==
  /\ Rows /\ k \in DOMAIN shown
  /\ Ask(u, "delete", shown[k].id, FALSE)
  /\ Count /\ ListStays

\* handleDrop of the board: canDrop goes by the state that is shown.
AskToMove(u, k, s) ==
  /\ Rows /\ k \in DOMAIN shown
  /\ <<shown[k].state, s>> \in Edge
  /\ Ask(u, "move", shown[k].id, s)
  /\ Count /\ ListStays

Told(u) == call[u] # None /\ call[u].step \in Answered
Forget(u) == call' = [call EXCEPT ![u] = None] /\ UNCHANGED <<adapter, row, time>>

\* handleDelete and handleTransition reload the list when they hear that they
\* succeeded and show an error otherwise; the answer may be lost.
Acted(u) ==
  /\ u \in User /\ Told(u)
  /\ Forget(u) /\ UNCHANGED counts
  /\ \/ /\ call[u].step = "ok"
        /\ removed' = IF call[u].op = "delete" THEN removed \cup {call[u].id} ELSE removed
        /\ \E l \in Load : Reload(l)
     \/ ListStays

\* What was deleted is no longer present; everything else is the others' own.
Store(c) ==
  /\ Handle(c)
  /\ present' = {i \in present : row'[i] \in Row}
  /\ UNCHANGED <<listVars, counts, removed>>

Others(c) ==
  /\ c \in Client \ User
  /\ \/ /\ Count
        /\ \E i \in Id :
             \/ \E full \in BOOLEAN : Ask(c, "patch", i, full)
             \/ Ask(c, "create", i, FALSE) \/ Ask(c, "delete", i, FALSE)
             \/ \E s \in State : Ask(c, "move", i, s)
     \/ Told(c) /\ Forget(c) /\ UNCHANGED counts
  /\ ListStays

RecordsNext ==
  \/ \E l \in Load : \/ Visit(l) \/ LoadMore(l) \/ Serve(l)
                     \/ Receive(l) \/ ReceiveError(l) \/ DropOld(l)
  \/ \E u \in User, k \in DOMAIN shown : AskToDelete(u, k) \/ \E s \in State : AskToMove(u, k, s)
  \/ \E c \in Client : Store(c) \/ Acted(c) \/ Others(c)
  \/ Tick /\ UNCHANGED counts /\ ListStays

RecordsSpec == RecordsInit /\ [][RecordsNext]_recordVars

-------------------------------------------------------------------------------
\* Whoever pages to the end has seen everything that was there all along
\* (list, useCursorList): a record that comes, goes or moves meanwhile does not
\* push another one from a page that is still to come to one that was loaded.
PagesAreComplete ==
  Rows /\ cursor = None => present \subseteq IdsOf(shown)

\* What the user deleted is not shown again by a load that began before.
RemovedIsGone == removed \cap IdsOf(shown) = {}
================================================================================
