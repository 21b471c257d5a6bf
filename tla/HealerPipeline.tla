---------------------------- MODULE HealerPipeline ----------------------------
(***************************************************************************)
(* The Healer's pipeline (healer/pipeline.py, healer/applier.py) as it     *)
(* runs in several threads and processes over one ticket database and one  *)
(* directory of contracts.                                                 *)
(*                                                                         *)
(*   - A worker runs process_next in a loop: the drain thread of the       *)
(*     sidecar, and each run of `healer fix`.                              *)
(*   - An operator runs approve_ticket and reject_ticket: the event loop   *)
(*     of the sidecar, which serves its requests one after the other, and  *)
(*     each run of `healer approve` or `healer reject`.                    *)
(*   - Whoever else may write the contract files: an editor, git, the      *)
(*     factory.                                                            *)
(*                                                                         *)
(* A step of a worker or an operator is one database statement, one look   *)
(* at the contracts or one file operation, together with the computation   *)
(* that leads to the next one. Between two steps anybody may move, and the *)
(* process may die or its handler raise. Nothing looks for a ticket whose  *)
(* handler stopped half-way.                                               *)
(*                                                                         *)
(* written is a history variable: what the fixes really did to the files.  *)
(***************************************************************************)
EXTENDS HealerQueue

CONSTANTS
  Worker,       \* runs of process_next
  Operator,     \* those who approve and reject
  MaxEdits,     \* bound on the writes of others to the contracts
  MaxAborts     \* bound on crashes and unhandled exceptions

VARIABLES
  disk,         \* the content of each contract file
  diffs,        \* the diff records saved by the applier
  pc,           \* what each worker and operator does next
  held,         \* the ticket it has in memory
  draft,        \* the proposal it has in memory
  edits,        \* writes of others so far
  aborts,       \* aborted handlers so far
  written       \* every replacement of a contract file by a fix

files == <<disk, diffs, written>>
local == <<pc, held, draft>>
vars  == <<tickets, files, local, edits, aborts>>

Process == Worker \cup Operator

ASSUME ProcessAssumption == Worker \cap Operator = {}

ASSUME BoundAssumption == MaxEdits \in Nat /\ MaxAborts \in Nat

WorkerSteps   == {"classify", "propose", "store", "offer"}
OperatorSteps == {"approve", "reject"}
ApplySteps    == {"apply", "write", "diff", "settle", "fail"}

Write ==
  [ticket : Ticket, by : Process, was : Content \cup {Missing}, now : Content]

Diff ==
  [ticket : Ticket, by : Process, before : Content, after : Content]

TypeOK ==
  /\ QueueTypeOK
  /\ disk    \in [Contract -> Content \cup {Missing}]
  /\ diffs   \subseteq Diff
  /\ written \subseteq Write
  /\ pc    \in [Process -> {"idle"} \cup WorkerSteps \cup OperatorSteps
                             \cup ApplySteps]
  /\ held  \in [Process -> Ticket \cup {None}]
  /\ draft \in [Process -> Proposal \cup {None}]
  /\ edits  \in Nat
  /\ aborts \in Nat

Init ==
  /\ QueueInit
  /\ disk \in [Contract -> Content]
  /\ diffs = {} /\ written = {}
  /\ pc    = [p \in Process |-> "idle"]
  /\ held  = [p \in Process |-> None]
  /\ draft = [p \in Process |-> None]
  /\ edits = 0 /\ aborts = 0

-------------------------------------------------------------------------------
(***************************************************************************)
(* Program counters.                                                       *)
(***************************************************************************)
GoesOn(p, from, to) ==
  /\ pc[p] = from
  /\ pc' = [pc EXCEPT ![p] = to]

Releases(p) ==
  /\ pc'    = [pc EXCEPT ![p] = "idle"]
  /\ held'  = [held EXCEPT ![p] = None]
  /\ draft' = [draft EXCEPT ![p] = None]

(***************************************************************************)
(* An error reaches the queue, from the ingest endpoint, the watcher or    *)
(* `healer fix`.                                                           *)
(***************************************************************************)
Report(t) ==
  /\ \E fqn \in Contract \cup {NoContract}, class \in ErrorClass :
       Enqueue(t, fqn, class)
  /\ UNCHANGED <<files, local, edits, aborts>>

-------------------------------------------------------------------------------
(***************************************************************************)
(* process_next, by a worker.                                              *)
(***************************************************************************)
Claim(w) ==
  /\ GoesOn(w, "idle", "classify")
  /\ \E t \in Ticket :
       /\ ClaimNext(t)
       /\ held' = [held EXCEPT ![w] = t]
  /\ UNCHANGED <<files, draft, edits, aborts>>

(***************************************************************************)
(* What the classifier decides is stored before anything can fail. A       *)
(* generator bug or a data issue is not for a contract to fix.             *)
(***************************************************************************)
Classify(w) ==
  LET class == error[held[w]] IN
  /\ GoesOn(w, "classify",
            IF class.fixable \in {"generator", "data"}
            THEN "fail" ELSE "propose")
  /\ SetClassification(held[w], class)
  /\ UNCHANGED <<files, held, draft, edits, aborts>>

(***************************************************************************)
(* The proposals that may come out of a content: the normal form when that *)
(* differs, otherwise what a model answered, which is used only when it    *)
(* validates and changes something.                                        *)
(***************************************************************************)
ProposalsFor(content) ==
  IF Normal[content] # content
  THEN {[before |-> content, after |-> Normal[content],
         method |-> "deterministic"]}
  ELSE {[before |-> content, after |-> a, method |-> "llm"] :
          a \in Valid \ {content}}

ContractFound(t) == about[t] \in Contract /\ disk[about[t]] # Missing

(***************************************************************************)
(* The contract is read here, and not again before it is replaced. No      *)
(* proposal is possible without a contract, and none is certain to come    *)
(* where a model is asked: no engine, a refusal of the governor, an        *)
(* unusable answer.                                                        *)
(***************************************************************************)
Propose(w) ==
  /\ GoesOn(w, "propose", "store")
  /\ ContractFound(held[w])
  /\ \E p \in ProposalsFor(disk[about[held[w]]]) :
       draft' = [draft EXCEPT ![w] = p]
  /\ UNCHANGED <<tickets, files, held, edits, aborts>>

ProposeNothingSilently(w) ==                              \* mutant
  /\ pc[w] = "propose"
  /\ ContractFound(held[w]) =>
       LET content == disk[about[held[w]]] IN Normal[content] = content
  /\ Releases(w)
  /\ UNCHANGED <<tickets, files, edits, aborts>>

ProposeNothing(w) ==
  /\ GoesOn(w, "propose", "fail")
  /\ ContractFound(held[w]) =>
       LET content == disk[about[held[w]]] IN Normal[content] = content
  /\ UNCHANGED <<tickets, files, held, draft, edits, aborts>>

UnattendedOnTier(t, p) == tier[t] = 1                     \* mutant

Unattended(t, p) == tier[t] = 1 /\ Confidence(p, tier[t]) >= Threshold

StoreProposal(w) ==
  /\ GoesOn(w, "store",
            IF Unattended(held[w], draft[w]) THEN "apply" ELSE "offer")
  /\ SetProposal(held[w], draft[w])
  /\ UNCHANGED <<files, held, draft, edits, aborts>>

Offer(w) ==
  /\ pc[w] = "offer"
  /\ UpdateStatus(held[w], "proposed")
  /\ Releases(w)
  /\ UNCHANGED <<files, edits, aborts>>

-------------------------------------------------------------------------------
(***************************************************************************)
(* approve_ticket and reject_ticket, by an operator: the ticket is read    *)
(* and its status checked here, and written in a later statement. A ticket *)
(* that is not proposed is refused, which changes nothing.                 *)
(***************************************************************************)
OpenOfferedOnce(o, t, decision) ==                        \* mutant
  /\ GoesOn(o, "idle", decision)
  /\ proposal[t] # None /\ status[t] # "rejected"
  /\ held'  = [held EXCEPT ![o] = t]
  /\ draft' = [draft EXCEPT ![o] = proposal[t]]
  /\ UNCHANGED <<tickets, files, edits, aborts>>

Open(o, t, decision) ==
  /\ GoesOn(o, "idle", decision)
  /\ status[t] = "proposed"
  /\ held'  = [held EXCEPT ![o] = t]
  /\ draft' = [draft EXCEPT ![o] = proposal[t]]
  /\ UNCHANGED <<tickets, files, edits, aborts>>

Approve(o) ==
  /\ GoesOn(o, "approve", "apply")
  /\ UpdateStatus(held[o], "approved")
  /\ UNCHANGED <<files, held, draft, edits, aborts>>

Reject(o) ==
  /\ pc[o] = "reject"
  /\ UpdateStatus(held[o], "rejected")
  /\ Releases(o)
  /\ UNCHANGED <<files, edits, aborts>>

-------------------------------------------------------------------------------
(***************************************************************************)
(* _apply_and_notify and apply_fix, by whoever applies.                    *)
(***************************************************************************)
ApplicableUnvalidated(p) ==                               \* mutant
  draft[p] # None /\ ContractFound(held[p])

Applicable(p) ==
  /\ draft[p] # None
  /\ ContractFound(held[p])
  /\ draft[p].after \in Valid

CheckFixOnly(p) ==                                        \* mutant
  /\ GoesOn(p, "apply", IF Applicable(p) THEN "settle" ELSE "fail")
  /\ UNCHANGED <<tickets, files, held, draft, edits, aborts>>

CheckFixPatiently(p) ==                                   \* mutant
  /\ GoesOn(p, "apply", "write") /\ Applicable(p)
  /\ UNCHANGED <<tickets, files, held, draft, edits, aborts>>

CheckFix(p) ==
  /\ GoesOn(p, "apply", IF Applicable(p) THEN "write" ELSE "fail")
  /\ UNCHANGED <<tickets, files, held, draft, edits, aborts>>

(***************************************************************************)
(* os.replace puts the new content in place, whatever is there now.        *)
(***************************************************************************)
ReplaceUnrecorded(p) ==                                   \* mutant
  LET c == about[held[p]] IN
  /\ GoesOn(p, "write", "settle")
  /\ disk'    = [disk EXCEPT ![c] = draft[p].after]
  /\ written' = written \cup {[ticket |-> held[p], by |-> p,
                               was |-> disk[c], now |-> draft[p].after]}
  /\ UNCHANGED <<tickets, diffs, held, draft, edits, aborts>>

Replace(p) ==
  LET c == about[held[p]] IN
  /\ GoesOn(p, "write", "diff")
  /\ disk'    = [disk EXCEPT ![c] = draft[p].after]
  /\ written' = written \cup {[ticket |-> held[p], by |-> p,
                               was |-> disk[c], now |-> draft[p].after]}
  /\ UNCHANGED <<tickets, diffs, held, draft, edits, aborts>>

ReplaceFails(p) ==
  /\ GoesOn(p, "write", "fail")
  /\ UNCHANGED <<tickets, files, held, draft, edits, aborts>>

(***************************************************************************)
(* The diff records the content the proposal was computed from.            *)
(***************************************************************************)
SaveDiff(p) ==
  /\ GoesOn(p, "diff", "settle")
  /\ diffs' = diffs \cup {[ticket |-> held[p], by |-> p,
                           before |-> draft[p].before,
                           after |-> draft[p].after]}
  /\ UNCHANGED <<tickets, disk, written, held, draft, edits, aborts>>

Settle(p) ==
  /\ pc[p] = "settle"
  /\ UpdateStatus(held[p], "applied")
  /\ Releases(p)
  /\ UNCHANGED <<files, edits, aborts>>

Fail(p) ==
  /\ pc[p] = "fail"
  /\ UpdateStatus(held[p], "failed")
  /\ Releases(p)
  /\ UNCHANGED <<files, edits, aborts>>

-------------------------------------------------------------------------------
(***************************************************************************)
(* The environment: somebody else writes or removes a contract; a process  *)
(* dies, or its handler raises. The worker then takes the next ticket and  *)
(* the operator serves the next request.                                   *)
(***************************************************************************)
Edit(c) ==
  /\ edits < MaxEdits
  /\ edits' = edits + 1
  /\ \E content \in (Content \cup {Missing}) \ {disk[c]} :
       disk' = [disk EXCEPT ![c] = content]
  /\ UNCHANGED <<tickets, diffs, written, local, aborts>>

Abort(p) ==
  /\ pc[p] # "idle"
  /\ aborts < MaxAborts
  /\ aborts' = aborts + 1
  /\ Releases(p)
  /\ UNCHANGED <<tickets, files, edits>>

-------------------------------------------------------------------------------
Apply(p) ==
  CheckFix(p) \/ Replace(p) \/ ReplaceFails(p) \/ SaveDiff(p)
    \/ Settle(p) \/ Fail(p)

ProcessTicket(w) ==
  Classify(w) \/ Propose(w) \/ ProposeNothing(w)
    \/ StoreProposal(w) \/ Offer(w) \/ Apply(w)

Decide(o) == Approve(o) \/ Reject(o) \/ Apply(o)

Next ==
  \/ \E t \in Ticket : Report(t)
  \/ \E w \in Worker : Claim(w) \/ ProcessTicket(w)
  \/ \E o \in Operator : Decide(o)
  \/ \E o \in Operator, t \in Ticket, d \in OperatorSteps : Open(o, t, d)
  \/ \E c \in Contract : Edit(c)
  \/ \E p \in Process : Abort(p)

Spec == Init /\ [][Next]_vars

(***************************************************************************)
(* The drain loop polls the queue every few seconds and goes on after an   *)
(* exception, so some worker keeps claiming; a ticket that was claimed and *)
(* a request that was accepted are served to their end unless they abort.  *)
(* Nobody has to report an error or to decide a proposal.                  *)
(***************************************************************************)
Fairness ==
  /\ WF_vars(\E w \in Worker : Claim(w))
  /\ \A w \in Worker : WF_vars(ProcessTicket(w))
  /\ \A o \in Operator : WF_vars(Decide(o))

FairSpec == Spec /\ Fairness
==============================================================================
