--------------------------- MODULE HealerInvariant ---------------------------
(***************************************************************************)
(* The inductive invariants behind the properties of the pipeline. IInv    *)
(* holds with any number of operators, SoloInv when there is only one.     *)
(***************************************************************************)
EXTENDS HealerProperties

(***************************************************************************)
(* Program counters and memory agree: who is idle has nothing in memory,   *)
(* workers and operators keep to their own steps, a proposal is at hand    *)
(* wherever one is needed and its content validates from the check on.     *)
(***************************************************************************)
MemoryInv ==
  \A p \in Process :
    /\ pc[p] = "idle" <=> held[p] = None
    /\ p \in Worker => pc[p] \notin OperatorSteps
    /\ p \in Operator => pc[p] \notin WorkerSteps
    /\ pc[p] \in {"store", "offer", "write", "diff", "settle"} =>
         draft[p] # None
    /\ pc[p] \in {"write", "diff", "settle"} =>
         draft[p].after \in Valid /\ about[held[p]] \in Contract

(***************************************************************************)
(* Whose ticket it is: a worker's ticket is analyzing and only his, an     *)
(* operator's ticket has been offered. What was not taken yet has not been *)
(* classified by anybody, and what was offered has a proposal.             *)
(***************************************************************************)
OwnerInv ==
  /\ ClaimIsExclusive
  /\ \A o \in Operator :
       held[o] # None =>
         status[held[o]] \in {"proposed", "approved"} \cup Terminal
  /\ \A t \in Ticket : status[t] # "absent" => error[t] # None
  /\ \A t \in Ticket : status[t] \in {"absent", "queued"} => prio[t] = Medium
  /\ \A t \in Ticket : status[t] = "proposed" => proposal[t] # None
  /\ \A w \in Worker : pc[w] = "offer" => draft[w] = proposal[held[w]]

(***************************************************************************)
(* How far a fix has come: nothing is written for a ticket nobody took or  *)
(* that is not yet stored, a worker applies only what may go unattended,   *)
(* and who is past a step of apply_fix has left its record.                *)
(***************************************************************************)
FixInv ==
  /\ \A x \in written :
       status[x.ticket] \notin {"absent", "queued"}
  /\ \A w \in Worker, x \in written :
       pc[w] \in WorkerSteps => x.ticket # held[w]
  /\ \A w \in Worker :
       pc[w] \in {"apply", "write", "diff", "settle"} =>
         /\ draft[w] # None
         /\ draft[w] = proposal[held[w]]
         /\ Unattended(held[w], draft[w])
  /\ \A p \in Process :
       pc[p] \in {"diff", "settle"} =>
         \E x \in written :
           x.ticket = held[p] /\ x.by = p /\ x.now = draft[p].after
  /\ \A p \in Process :
       pc[p] = "settle" =>
         \E d \in diffs :
           d.ticket = held[p] /\ d.by = p /\ d.after = draft[p].after

(***************************************************************************)
(* What a worker applied, its ticket still says it may.                    *)
(***************************************************************************)
GateInv ==
  \A x \in written :
    x.by \in Worker => Unattended(x.ticket, proposal[x.ticket])

IInv ==
  /\ TypeOK
  /\ MemoryInv
  /\ OwnerInv
  /\ FixInv
  /\ OnlyValidFixes
  /\ AppliedIsOnRecord
  /\ OfferedIsApplied
  /\ GateInv

(***************************************************************************)
(* One operator at a time: the status he read is still there when he       *)
(* writes, so a ticket is approved or rejected but not both, and nobody    *)
(* starts to apply a fix that is already in.                               *)
(***************************************************************************)
SingleOperator == \A o, q \in Operator : o = q

Fixed(t) == \E x \in written : x.ticket = t

OutcomeInv ==
  \A t \in Ticket :
    /\ status[t] \in {"absent", "queued", "proposed", "failed"} => ~Fixed(t)
    /\ status[t] = "applied" => Fixed(t)

DecisionInv ==
  \A o \in Operator :
    /\ pc[o] \in OperatorSteps => status[held[o]] = "proposed"
    /\ pc[o] \in ApplySteps => status[held[o]] = "approved"

StartInv ==
  \A p \in Process :
    pc[p] \notin {"idle", "diff", "settle"} => ~Fixed(held[p])

SoloInv ==
  /\ FixAppliedOnce
  /\ RejectedIsNotApplied
  /\ OutcomeInv
  /\ DecisionInv
  /\ StartInv
==============================================================================
