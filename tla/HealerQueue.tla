----------------------------- MODULE HealerQueue -----------------------------
(***************************************************************************)
(* The ticket table of the Healer's SQLite queue (healer/queue.py).        *)
(*                                                                         *)
(* Each operator below is one committed statement: it is atomic whatever   *)
(* the number of threads and processes that share the database file, and   *)
(* it is all the atomicity the queue offers.                               *)
(*                                                                         *)
(* A definition marked as a mutant is not part of the model: it is what    *)
(* the definition after it would be with a plausible bug, and the README   *)
(* says which property tells the two apart.                                *)
(***************************************************************************)
EXTENDS HealerTypes

VARIABLES
  status,     \* status of each ticket; "absent" while there is no row
  resolved,   \* resolved_at is set
  prio,       \* priority_order
  tier,       \* 0 until classified
  created,    \* created_at, in ticks of clock; 0 while absent
  clock,      \* the tickets inserted so far
  about,      \* contract_fqn
  error,      \* how the classifier will classify raw_error
  proposal    \* the stored proposal, or None

tickets ==
  <<status, resolved, prio, tier, created, clock, about, error, proposal>>

QueueInit ==
  /\ status   = [t \in Ticket |-> "absent"]
  /\ resolved = [t \in Ticket |-> FALSE]
  /\ prio     = [t \in Ticket |-> Medium]
  /\ tier     = [t \in Ticket |-> 0]
  /\ created  = [t \in Ticket |-> 0]
  /\ about    = [t \in Ticket |-> NoContract]
  /\ clock    = 0
  /\ error    = [t \in Ticket |-> None]
  /\ proposal = [t \in Ticket |-> None]

QueueTypeOK ==
  /\ status   \in [Ticket -> Status \cup {"absent"}]
  /\ resolved \in [Ticket -> BOOLEAN]
  /\ prio     \in [Ticket -> Critical .. Low]
  /\ tier     \in [Ticket -> 0 .. 3]
  /\ created  \in [Ticket -> Nat]
  /\ about    \in [Ticket -> Contract \cup {NoContract}]
  /\ clock    \in Nat
  /\ error    \in [Ticket -> ErrorClass \cup {None}]
  /\ proposal \in [Ticket -> Proposal \cup {None}]

InQueueOrOffered(t) == status[t] \in {"queued", "proposed"}   \* mutant

InQueue(t) == status[t] = "queued"

(***************************************************************************)
(* INSERT of a new ticket. created_at was read when the ticket was made,   *)
(* so another process may insert a later one first. No caller sets a       *)
(* priority, so every ticket enters with the default one.                  *)
(***************************************************************************)
Enqueue(t, fqn, class) ==
  /\ status[t] = "absent"
  /\ status'  = [status EXCEPT ![t] = "queued"]
  /\ about'   = [about EXCEPT ![t] = fqn]
  /\ error'   = [error EXCEPT ![t] = class]
  /\ clock'   = clock + 1
  /\ \E at \in 1 .. clock' : created' = [created EXCEPT ![t] = at]
  /\ UNCHANGED <<resolved, prio, tier, proposal>>

(***************************************************************************)
(* ORDER BY priority_order ASC, created_at ASC.                            *)
(***************************************************************************)
ServedStrictlyBefore(t, u) ==                             \* mutant
  \/ prio[t] < prio[u]
  \/ prio[t] = prio[u] /\ created[t] < created[u]

ServedBefore(t, u) ==
  \/ prio[t] < prio[u]
  \/ prio[t] = prio[u] /\ created[t] <= created[u]

NextQueued(t) ==
  /\ InQueue(t)
  /\ \A u \in Ticket : InQueue(u) => ServedBefore(t, u)

(***************************************************************************)
(* One UPDATE ... RETURNING selects the ticket and takes it.               *)
(***************************************************************************)
ClaimSelectedBefore(t) ==                                 \* mutant
  /\ status[t] \in {"queued", "analyzing"}
  /\ status' = [status EXCEPT ![t] = "analyzing"]
  /\ UNCHANGED <<resolved, prio, tier, created, clock, about, error, proposal>>

ClaimNext(t) ==
  /\ NextQueued(t)
  /\ status' = [status EXCEPT ![t] = "analyzing"]
  /\ UNCHANGED <<resolved, prio, tier, created, clock, about, error, proposal>>

(***************************************************************************)
(* UPDATE by id, whatever the status is now. resolved_at is set with a     *)
(* terminal status and never cleared.                                      *)
(***************************************************************************)
UpdateStatus(t, s) ==
  /\ status'   = [status EXCEPT ![t] = s]
  /\ resolved' = [resolved EXCEPT ![t] = resolved[t] \/ s \in Terminal]
  /\ UNCHANGED <<prio, tier, created, clock, about, error, proposal>>

SetClassification(t, class) ==
  /\ tier' = [tier EXCEPT ![t] = class.tier]
  /\ prio' = [prio EXCEPT ![t] = class.prio]
  /\ UNCHANGED <<status, resolved, created, clock, about, error, proposal>>

SetProposal(t, p) ==
  /\ proposal' = [proposal EXCEPT ![t] = p]
  /\ UNCHANGED <<status, resolved, prio, tier, created, clock, about, error>>
==============================================================================
