------------------------------- MODULE DiffStore -------------------------------
(***************************************************************************)
(* The store of contract diffs (forge/diff/store.py): a directory with one *)
(* file per diff and an index that lists them. The applier of the Healer,  *)
(* which runs in a worker thread and in the event loop of the sidecar and  *)
(* in the command line, and `factory refine` each make a DiffStore of      *)
(* their own for every diff they save. Nothing orders their savings.       *)
(*                                                                         *)
(* The index is kept as the set of the diffs it lists: a contract is part  *)
(* of its diffs, and the order of the list is never used. An index that is *)
(* missing, empty or torn lists nothing.                                   *)
(*                                                                         *)
(* saved and disturbed are history variables. A definition marked as a     *)
(* mutant is not part of the model: it is what the one after it would be   *)
(* with a plausible bug.                                                   *)
(***************************************************************************)
EXTENDS Naturals

CONSTANTS
  Diff,         \* the diffs ever created, each with its own id
  Saver,        \* those who save diffs
  None,         \* no diff
  MaxCrashes    \* bound on the processes that die while they save

ASSUME StoreAssumption ==
  /\ None \notin Diff
  /\ MaxCrashes \in Nat

VARIABLES
  files,      \* the diffs whose file is complete
  index,      \* what a reader finds listed in index.json
  blank,      \* index.json was emptied and nobody has filled it since
  pc,         \* what each saver does next
  held,       \* the diff it saves
  memory,     \* its copy of the index
  crashes,    \* savers that died so far
  saved,      \* the diffs whose save returned
  disturbed   \* somebody died, or two had the index in hand at a time

vars == <<files, index, blank, pc, held, memory, crashes, saved, disturbed>>

HasIndex == {"truncate", "write"}

TypeOK ==
  /\ files     \subseteq Diff
  /\ index     \subseteq Diff
  /\ blank     \in BOOLEAN
  /\ pc        \in [Saver -> {"idle", "record", "load"} \cup HasIndex]
  /\ held      \in [Saver -> Diff \cup {None}]
  /\ memory    \in [Saver -> SUBSET Diff]
  /\ crashes   \in Nat
  /\ saved     \subseteq Diff
  /\ disturbed \in BOOLEAN

Init ==
  /\ files = {} /\ index = {} /\ saved = {}
  /\ pc     = [s \in Saver |-> "idle"]
  /\ held   = [s \in Saver |-> None]
  /\ memory = [s \in Saver |-> {}]
  /\ crashes = 0 /\ blank = FALSE /\ disturbed = FALSE

GoesOn(s, from, to) ==
  /\ pc[s] = from
  /\ pc' = [pc EXCEPT ![s] = to]

(***************************************************************************)
(* save is called with a diff that was just created.                       *)
(***************************************************************************)
Save(s, d) ==
  /\ GoesOn(s, "idle", "record")
  /\ d \notin files /\ \A r \in Saver : held[r] # d
  /\ held' = [held EXCEPT ![s] = d]
  /\ UNCHANGED <<files, index, blank, memory, crashes, saved, disturbed>>

WriteRecord(s) ==
  /\ GoesOn(s, "record", "load")
  /\ files' = files \cup {held[s]}
  /\ UNCHANGED <<index, blank, held, memory, crashes, saved, disturbed>>

(***************************************************************************)
(* What does not parse is taken for an empty index.                        *)
(***************************************************************************)
LoadNothing(s) ==                                               \* mutant
  /\ GoesOn(s, "load", "truncate")
  /\ memory' = [memory EXCEPT ![s] = {held[s]}]
  /\ disturbed' = (disturbed \/ \E r \in Saver : pc[r] \in HasIndex)
  /\ UNCHANGED <<files, index, blank, held, crashes, saved>>

LoadIndex(s) ==
  /\ GoesOn(s, "load", "truncate")
  /\ memory' = [memory EXCEPT ![s] = index \cup {held[s]}]
  /\ disturbed' = (disturbed \/ \E r \in Saver : pc[r] \in HasIndex)
  /\ UNCHANGED <<files, index, blank, held, crashes, saved>>

(***************************************************************************)
(* write_text empties the file when it opens it and fills it afterwards.   *)
(* Where somebody else has filled the file in between, the longer of the   *)
(* two texts sticks out behind the other one, which is not valid JSON.     *)
(***************************************************************************)
Truncate(s) ==
  /\ GoesOn(s, "truncate", "write")
  /\ index' = {} /\ blank' = TRUE
  /\ UNCHANGED <<files, held, memory, crashes, saved, disturbed>>

WriteIndex(s) ==
  /\ GoesOn(s, "write", "idle")
  /\ index' \in IF blank THEN {memory[s]} ELSE {memory[s], {}}
  /\ blank' = FALSE
  /\ held'   = [held EXCEPT ![s] = None]
  /\ memory' = [memory EXCEPT ![s] = {}]
  /\ saved'  = saved \cup {held[s]}
  /\ UNCHANGED <<files, crashes, disturbed>>

Crash(s) ==
  /\ pc[s] # "idle" /\ crashes < MaxCrashes
  /\ crashes' = crashes + 1
  /\ disturbed' = TRUE
  /\ pc'     = [pc EXCEPT ![s] = "idle"]
  /\ held'   = [held EXCEPT ![s] = None]
  /\ memory' = [memory EXCEPT ![s] = {}]
  /\ UNCHANGED <<files, index, blank, saved>>

Next ==
  \E s \in Saver :
    \/ \E d \in Diff : Save(s, d)
    \/ WriteRecord(s) \/ LoadIndex(s) \/ Truncate(s) \/ WriteIndex(s)
    \/ Crash(s)

Spec == Init /\ [][Next]_vars

--------------------------------------------------------------------------------
(***************************************************************************)
(* Whatever dies or overlaps, get_history never meets an id without a file *)
(* behind it: the file is complete before the id is listed anywhere, also  *)
(* in the copies of the index that savers still hold.                      *)
(***************************************************************************)
ListedIsStored ==
  /\ index \subseteq files
  /\ \A s \in Saver : memory[s] \subseteq files

(***************************************************************************)
(* The history of a contract is lost only by a crash or by two savers who  *)
(* have the index in hand at a time: otherwise every saved diff is listed, *)
(* or is about to be listed again by the saver who emptied the file.       *)
(***************************************************************************)
OnlyOverlapsLose ==
  ~disturbed =>
    saved \subseteq index \cup UNION {memory[s] : s \in Saver}

================================================================================
