------------------------------ MODULE RecordNames ------------------------------
(***************************************************************************)
(* The names that a table of records shows for what its rows refer to. Its *)
(* effect asks for the names of all the rows on screen when these change;  *)
(* what comes back replaces the names that were there. Each record refers  *)
(* to a target of its own, which is known here by the record.              *)
(***************************************************************************)
EXTENDS RecordList

CONSTANTS
  MaxLookup,  \* MAX_LOOKUP_IDS: ids that a lookup may name
  MaxLimit    \* MAX_PAGE_SIZE: the largest limit that the server takes

VARIABLES
  names,      \* the targets whose names the table knows
  lookup,     \* the lookups under way, each the ids it asked for
  unanswered  \* history: whether one was lost

nameVars == <<names, lookup, unanswered>>

NamesInit == RecordsInit /\ names = {} /\ lookup = {} /\ unanswered = FALSE

RowsOf(items) == [k \in DOMAIN items |-> items[k].id]
Mounted == Rows /\ shown # <<>>
Sought == IF Mounted THEN IdsOf(shown) ELSE {}

\* LoadingState, EmptyState and ErrorState take the place of the table, and its
\* state is gone with it.
Effect ==
  IF ~Mounted' THEN names' = {} /\ lookup' = {} /\ unanswered' = FALSE
  ELSE /\ lookup' = IF Sought' = Sought THEN lookup ELSE lookup \cup {RowsOf(shown')}
       /\ UNCHANGED <<names, unanswered>>

\* The limit of a lookup is the number of its ids; only the first are named.
Refused(asked) == Len(asked) > MaxLimit
Found(asked) == {asked[k] : k \in {n \in DOMAIN asked : n <= MaxLookup}}

NamesArrive(asked) ==
  /\ ~Refused(asked)
  /\ names' = Found(asked) /\ lookup' = lookup \ {asked}
  /\ UNCHANGED unanswered

NamesFail(asked) ==
  /\ lookup' = lookup \ {asked}
  /\ unanswered' = (unanswered \/ ~Refused(asked))
  /\ UNCHANGED names

NamesNext ==
  \/ RecordsNext /\ Effect
  \/ UNCHANGED recordVars /\ \E asked \in lookup : NamesArrive(asked) \/ NamesFail(asked)

NamesSpec == NamesInit /\ [][NamesNext]_<<recordVars, nameVars>>

-------------------------------------------------------------------------------
\* Once all lookups are back and none was lost, every target that is there has
\* its name on screen: "What remains unresolved is a genuinely missing target"
\* (comment of ReferenceValue).
NamesAreResolved ==
  lookup = {} /\ ~unanswered /\ Mounted => IdsOf(shown) \subseteq names
================================================================================
