--------------------------- MODULE HealerProperties ---------------------------
(***************************************************************************)
(* The properties of the Healer's pipeline. Those of the first part hold   *)
(* with any number of workers and operators, those of the second one when  *)
(* a single operator decides at a time, and the last ones are what the     *)
(* documentation says and the code does not do.                            *)
(***************************************************************************)
EXTENDS HealerPipeline

(***************************************************************************)
(* A ticket somebody works on is in analysis, and it is nobody else's:     *)
(* the claim is atomic and no later statement gives the ticket away before *)
(* the worker is done with it (HealerQueue.claim_next, _process_ticket).   *)
(***************************************************************************)
ClaimIsExclusive ==
  \A w \in Worker :
    held[w] # None =>
      /\ status[held[w]] = "analyzing"
      /\ \A p \in Process : held[p] = held[w] => p = w

(***************************************************************************)
(* A file the applier has written always holds a content that validates,   *)
(* although normalization may have produced one that does not and the      *)
(* check and the replacement are separate steps (apply_fix).               *)
(***************************************************************************)
OnlyValidFixes == \A w \in written : w.now \in Valid

(***************************************************************************)
(* No fix a model wrote reaches a contract without an operator: whatever a *)
(* worker applies is a deterministic fix of a tier 1 ticket, as long as    *)
(* the threshold is above what a model can score on one (pipeline.py,      *)
(* "Only a proposal the healer is certain about").                         *)
(***************************************************************************)
UnattendedFixesAreCertain ==
  \A w \in written :
    w.by \in Worker =>
      /\ tier[w.ticket] = 1
      /\ proposal[w.ticket].method = "deterministic"

(***************************************************************************)
(* A ticket is recorded as applied only with a replacement of its contract *)
(* and a diff behind it, whoever died in between ("Every applied fix       *)
(* creates a diff record", docs/healer.md).                                *)
(***************************************************************************)
AppliedIsOnRecord ==
  \A t \in Ticket :
    status[t] = "applied" =>
      \E d \in diffs, w \in written :
        d.ticket = t /\ w.ticket = t /\ d.by = w.by /\ d.after = w.now

(***************************************************************************)
(* Tickets are taken in the order they were created. The priority column   *)
(* comes first in the sort, but every queued ticket has the same one.      *)
(***************************************************************************)
OldestIsClaimed ==
  [][\A t, u \in Ticket :
       /\ status[t] = "queued" /\ status'[t] # "queued"
       /\ status[u] = "queued"
       => created[t] <= created[u]]_vars

(***************************************************************************)
(* A proposal that was offered does not change any more: what an operator  *)
(* applies is what stands in the queue (set_proposal is called before the  *)
(* ticket is offered, and never after).                                    *)
(***************************************************************************)
OfferedIsApplied ==
  \A o \in Operator :
    held[o] # None => draft[o] # None /\ draft[o] = proposal[held[o]]

-------------------------------------------------------------------------------
(***************************************************************************)
(* The pipeline keeps the promise of TicketLifecycle, with the tickets in  *)
(* written as the fixed ones, when one operator decides at a time.         *)
(***************************************************************************)
Lifecycle ==
  INSTANCE TicketLifecycle WITH fixed <- {w.ticket : w \in written}

ImplementsLifecycle == Lifecycle!Spec

(***************************************************************************)
(* A fix reaches its contract at most once, however often the ticket is    *)
(* approved (queue.py, "applied the same fix twice").                      *)
(***************************************************************************)
FixAppliedOnce == \A v, w \in written : v.ticket = w.ticket => v = w

(***************************************************************************)
(* A fix that was rejected is not in a contract, and a ticket has a time   *)
(* of resolution exactly when it is resolved.                              *)
(***************************************************************************)
RejectedIsNotApplied ==
  \A t \in Ticket :
    /\ status[t] = "rejected" => \A w \in written : w.ticket # t
    /\ resolved[t] <=> status[t] \in Terminal

(***************************************************************************)
(* A ticket is in the middle of being handled and nobody handles it.       *)
(***************************************************************************)
Stranded(t) ==
  /\ status[t] \in {"analyzing", "approved"}
  /\ \A p \in Process : held[p] # t

(***************************************************************************)
(* Only a crash or an exception leaves a ticket stranded: without one,     *)
(* every ticket in the middle of being handled is in somebody's hands.     *)
(***************************************************************************)
OnlyAbortsStrand == aborts = 0 => \A t \in Ticket : ~Stranded(t)

-------------------------------------------------------------------------------
(***************************************************************************)
(* Every reported error is eventually offered, fixed or given up, unless   *)
(* its handler aborted: the workers go on with the other tickets.          *)
(***************************************************************************)
EveryTicketIsHandled ==
  \A t \in Ticket :
    status[t] = "queued" ~>
      Stranded(t) \/ status[t] \in {"proposed", "applied", "failed"}

(***************************************************************************)
(* Every approval is eventually followed by a result, unless the one who   *)
(* applies aborted.                                                        *)
(***************************************************************************)
EveryApprovalIsSettled ==
  \A t \in Ticket :
    status[t] = "approved" ~> Stranded(t) \/ status[t] \in Terminal

==============================================================================
