---------------------------- MODULE Healer_proofs -----------------------------
(***************************************************************************)
(* The Healer. IInv is an invariant of the pipeline, and with it the       *)
(* properties that hold with any number of operators. With one operator so *)
(* is SoloInv, and then the pipeline implements TicketLifecycle.           *)
(***************************************************************************)
EXTENDS HealerInvariant, TLAPS

(***************************************************************************)
(* IInv is an invariant of the pipeline, and with it the properties that   *)
(* hold with any number of operators.                                      *)
(***************************************************************************)

USE DEF Process, WorkerSteps, OperatorSteps, ApplySteps, tickets, files, local

(***************************************************************************)
(* What comes out of _propose is a proposal for the content it read.       *)
(***************************************************************************)
LEMMA ProposalsAreProposals ==
  ASSUME NEW content \in Content
  PROVE  ProposalsFor(content) \subseteq Proposal
BY ContentAssumption DEF ProposalsFor, Proposal

(***************************************************************************)
(* Each action keeps IInv: one lemma per action, in the order of           *)
(* HealerPipeline, with one step per part of IInv the action can disturb.  *)
(***************************************************************************)
LEMMA ReportKeepsIInv ==
  ASSUME IInv, NEW t \in Ticket, Report(t)
  PROVE  IInv'
<1>1. TypeOK'
  BY DEF IInv, TypeOK, QueueTypeOK, Report, Enqueue, Status
<1>2. MemoryInv'
  BY DEF IInv, MemoryInv, OwnerInv, ClaimIsExclusive, Terminal, Report, Enqueue
<1>3. OwnerInv'
  BY SentinelAssumption
  DEF IInv, TypeOK, QueueTypeOK, OwnerInv, ClaimIsExclusive, Terminal, Report,
      Enqueue
<1>4. FixInv'
  BY DEF IInv, FixInv, Unattended, Report, Enqueue
<1>5. AppliedIsOnRecord' /\ OfferedIsApplied' /\ GateInv' /\ OnlyValidFixes'
  BY DEF IInv, OfferedIsApplied, AppliedIsOnRecord, GateInv, Unattended,
      OnlyValidFixes, Report, Enqueue
<1>6. QED
  BY <1>1, <1>2, <1>3, <1>4, <1>5 DEF IInv

LEMMA ClaimKeepsIInv ==
  ASSUME IInv, NEW w \in Worker, Claim(w)
  PROVE  IInv'
<1>1. TypeOK'
  BY DEF IInv, TypeOK, QueueTypeOK, Claim, ClaimNext, GoesOn, Status
<1>2. MemoryInv'
  BY SentinelAssumption, ProcessAssumption
  DEF IInv, TypeOK, MemoryInv, Claim, ClaimNext, GoesOn
<1>3. OwnerInv'
  BY ProcessAssumption
  DEF IInv, TypeOK, QueueTypeOK, OwnerInv, ClaimIsExclusive, Terminal, Claim,
      ClaimNext, NextQueued, InQueue, GoesOn
<1>4. FixInv'
  BY DEF IInv, TypeOK, FixInv, Unattended, Claim, ClaimNext, NextQueued, InQueue,
      GoesOn
<1>5. AppliedIsOnRecord' /\ OfferedIsApplied' /\ GateInv' /\ OnlyValidFixes'
  BY ProcessAssumption
  DEF IInv, OfferedIsApplied, AppliedIsOnRecord, GateInv, Unattended,
      OnlyValidFixes, Claim, ClaimNext
<1>6. QED
  BY <1>1, <1>2, <1>3, <1>4, <1>5 DEF IInv

LEMMA ClassifyKeepsIInv ==
  ASSUME IInv, NEW w \in Worker, Classify(w)
  PROVE  IInv'
<1>1. TypeOK'
  BY ErrorClassAssumption
  DEF IInv, TypeOK, QueueTypeOK, MemoryInv, OwnerInv, ClaimIsExclusive,
      Classify, SetClassification, GoesOn, Classification, OfValidation,
      OfRuntime, OfCompilation, OfManual, Critical, High, Medium, Low
<1>2. MemoryInv'
  BY DEF IInv, MemoryInv, Classify, SetClassification, GoesOn
<1>3. OwnerInv'
  BY SentinelAssumption
  DEF IInv, OwnerInv, ClaimIsExclusive, Classify, SetClassification, GoesOn
<1>4. FixInv'
  BY DEF IInv, MemoryInv, OwnerInv, ClaimIsExclusive, FixInv, Unattended,
      Classify, SetClassification, GoesOn
<1>5. AppliedIsOnRecord' /\ OfferedIsApplied' /\ OnlyValidFixes'
  BY DEF IInv, OfferedIsApplied, AppliedIsOnRecord, OnlyValidFixes, Classify,
      SetClassification
<1>6. GateInv'
  BY DEF IInv, FixInv, GateInv, Unattended, Classify, SetClassification, GoesOn
<1>7. QED
  BY <1>1, <1>2, <1>3, <1>4, <1>5, <1>6 DEF IInv

LEMMA ProposeKeepsIInv ==
  ASSUME IInv, NEW w \in Worker, Propose(w)
  PROVE  IInv'
<1>1. TypeOK'
  BY ProposalsAreProposals
  DEF IInv, TypeOK, QueueTypeOK, Propose, ContractFound, GoesOn
<1>2. MemoryInv'
  <2>1. draft'[w] \in Proposal
    BY ProposalsAreProposals DEF IInv, TypeOK, QueueTypeOK, MemoryInv,
        OwnerInv, Propose, ContractFound
  <2>2. QED
    BY <2>1, SentinelAssumption, ProcessAssumption
    DEF IInv, TypeOK, MemoryInv, Propose, GoesOn
<1>3. OwnerInv'
  BY DEF IInv, OwnerInv, ClaimIsExclusive, Propose, GoesOn
<1>4. FixInv'
  BY DEF IInv, FixInv, Unattended, Propose, GoesOn
<1>5. AppliedIsOnRecord' /\ OfferedIsApplied' /\ GateInv' /\ OnlyValidFixes'
  BY ProcessAssumption
  DEF IInv, OfferedIsApplied, AppliedIsOnRecord, GateInv, Unattended,
      OnlyValidFixes, Propose
<1>6. QED
  BY <1>1, <1>2, <1>3, <1>4, <1>5 DEF IInv

LEMMA ProposeNothingKeepsIInv ==
  ASSUME IInv, NEW w \in Worker, ProposeNothing(w)
  PROVE  IInv'
<1>1. TypeOK'
  BY DEF IInv, TypeOK, QueueTypeOK, ProposeNothing, GoesOn
<1>2. MemoryInv'
  BY DEF IInv, MemoryInv, ProposeNothing, GoesOn
<1>3. OwnerInv'
  BY DEF IInv, OwnerInv, ClaimIsExclusive, ProposeNothing, GoesOn
<1>4. FixInv'
  BY DEF IInv, FixInv, Unattended, ProposeNothing, GoesOn
<1>5. AppliedIsOnRecord' /\ OfferedIsApplied' /\ GateInv' /\ OnlyValidFixes'
  BY DEF IInv, OfferedIsApplied, AppliedIsOnRecord, GateInv, Unattended,
      OnlyValidFixes, ProposeNothing
<1>6. QED
  BY <1>1, <1>2, <1>3, <1>4, <1>5 DEF IInv

LEMMA StoreProposalKeepsIInv ==
  ASSUME IInv, NEW w \in Worker, StoreProposal(w)
  PROVE  IInv'
<1>1. TypeOK'
  BY DEF IInv, TypeOK, QueueTypeOK, MemoryInv, StoreProposal, SetProposal, GoesOn
<1>2. MemoryInv'
  BY DEF IInv, MemoryInv, StoreProposal, SetProposal, GoesOn
<1>3. OwnerInv'
  BY DEF IInv, TypeOK, QueueTypeOK, MemoryInv, OwnerInv, ClaimIsExclusive,
      StoreProposal, SetProposal, GoesOn
<1>4. FixInv'
  BY DEF IInv, TypeOK, QueueTypeOK, MemoryInv, OwnerInv, ClaimIsExclusive,
      FixInv, Unattended, StoreProposal, SetProposal, GoesOn
<1>5. AppliedIsOnRecord' /\ OnlyValidFixes'
  BY DEF IInv, AppliedIsOnRecord, OnlyValidFixes, StoreProposal, SetProposal
<1>6. OfferedIsApplied'
  BY DEF IInv, OwnerInv, ClaimIsExclusive, OfferedIsApplied, StoreProposal,
      SetProposal
<1>7. GateInv'
  BY DEF IInv, FixInv, GateInv, Unattended, StoreProposal, SetProposal, GoesOn
<1>8. QED
  BY <1>1, <1>2, <1>3, <1>4, <1>5, <1>6, <1>7 DEF IInv

LEMMA OfferKeepsIInv ==
  ASSUME IInv, NEW w \in Worker, Offer(w)
  PROVE  IInv'
<1>1. TypeOK'
  BY DEF IInv, TypeOK, QueueTypeOK, MemoryInv, Offer, UpdateStatus, Releases,
      Status
<1>2. MemoryInv'
  BY DEF IInv, TypeOK, MemoryInv, Offer, UpdateStatus, Releases
<1>3. OwnerInv'
  BY DEF IInv, TypeOK, MemoryInv, OwnerInv, ClaimIsExclusive, Offer,
      UpdateStatus, Releases
<1>4. FixInv'
  BY DEF IInv, TypeOK, FixInv, Unattended, Offer, UpdateStatus, Releases
<1>5. AppliedIsOnRecord' /\ OfferedIsApplied' /\ GateInv' /\ OnlyValidFixes'
  BY ProcessAssumption
  DEF IInv, OfferedIsApplied, AppliedIsOnRecord, GateInv, Unattended,
      OnlyValidFixes, Offer, UpdateStatus, Releases
<1>6. QED
  BY <1>1, <1>2, <1>3, <1>4, <1>5 DEF IInv

LEMMA OpenKeepsIInv ==
  ASSUME IInv, NEW o \in Operator, NEW t \in Ticket,
         NEW d \in OperatorSteps, Open(o, t, d)
  PROVE  IInv'
<1>1. TypeOK'
  BY DEF IInv, TypeOK, QueueTypeOK, Open, GoesOn
<1>2. MemoryInv'
  BY SentinelAssumption, ProcessAssumption
  DEF IInv, TypeOK, MemoryInv, Open, GoesOn
<1>3. OwnerInv'
  BY ProcessAssumption DEF IInv, OwnerInv, ClaimIsExclusive, Open, GoesOn
<1>4. FixInv'
  BY DEF IInv, FixInv, Unattended, Open, GoesOn
<1>5. AppliedIsOnRecord' /\ GateInv' /\ OnlyValidFixes'
  BY DEF IInv, AppliedIsOnRecord, GateInv, Unattended, OnlyValidFixes, Open
<1>6. OfferedIsApplied'
  BY DEF IInv, TypeOK, OwnerInv, OfferedIsApplied, Open
<1>7. QED
  BY <1>1, <1>2, <1>3, <1>4, <1>5, <1>6 DEF IInv

LEMMA ApproveKeepsIInv ==
  ASSUME IInv, NEW o \in Operator, Approve(o)
  PROVE  IInv'
<1>1. TypeOK'
  BY DEF IInv, TypeOK, QueueTypeOK, MemoryInv, Approve, UpdateStatus, GoesOn,
      Status
<1>2. MemoryInv'
  BY DEF IInv, MemoryInv, Approve, UpdateStatus, GoesOn
<1>3. OwnerInv'
  BY SentinelAssumption
  DEF IInv, OwnerInv, ClaimIsExclusive, Terminal, Approve, UpdateStatus,
      GoesOn
<1>4. FixInv'
  BY ProcessAssumption
  DEF IInv, FixInv, Unattended, Approve, UpdateStatus, GoesOn
<1>5. AppliedIsOnRecord' /\ OfferedIsApplied' /\ GateInv' /\ OnlyValidFixes'
  BY DEF IInv, OfferedIsApplied, AppliedIsOnRecord, GateInv, Unattended,
      OnlyValidFixes, Approve, UpdateStatus
<1>6. QED
  BY <1>1, <1>2, <1>3, <1>4, <1>5 DEF IInv

LEMMA RejectKeepsIInv ==
  ASSUME IInv, NEW o \in Operator, Reject(o)
  PROVE  IInv'
<1>1. TypeOK'
  BY DEF IInv, TypeOK, QueueTypeOK, MemoryInv, Reject, UpdateStatus, Releases,
      Status
<1>2. MemoryInv'
  BY DEF IInv, TypeOK, MemoryInv, Reject, UpdateStatus, Releases
<1>3. OwnerInv'
  BY SentinelAssumption
  DEF IInv, OwnerInv, ClaimIsExclusive, Terminal, Reject, UpdateStatus,
      Releases
<1>4. FixInv'
  BY DEF IInv, FixInv, Unattended, Reject, UpdateStatus, Releases
<1>5. AppliedIsOnRecord' /\ OfferedIsApplied' /\ GateInv' /\ OnlyValidFixes'
  BY DEF IInv, TypeOK, OfferedIsApplied, AppliedIsOnRecord, GateInv, Unattended,
      OnlyValidFixes, Reject, UpdateStatus, Releases
<1>6. QED
  BY <1>1, <1>2, <1>3, <1>4, <1>5 DEF IInv

LEMMA CheckFixKeepsIInv ==
  ASSUME IInv, NEW p \in Process, CheckFix(p)
  PROVE  IInv'
<1>1. TypeOK'
  BY DEF IInv, TypeOK, QueueTypeOK, CheckFix, GoesOn
<1>2. MemoryInv'
  BY DEF IInv, MemoryInv, CheckFix, Applicable, ContractFound, GoesOn
<1>3. OwnerInv'
  BY DEF IInv, OwnerInv, ClaimIsExclusive, CheckFix, GoesOn
<1>4. FixInv'
  BY DEF IInv, FixInv, Unattended, CheckFix, GoesOn
<1>5. AppliedIsOnRecord' /\ OfferedIsApplied' /\ GateInv' /\ OnlyValidFixes'
  BY DEF IInv, OfferedIsApplied, AppliedIsOnRecord, GateInv, Unattended,
      OnlyValidFixes, CheckFix
<1>6. QED
  BY <1>1, <1>2, <1>3, <1>4, <1>5 DEF IInv

LEMMA ReplaceKeepsIInv ==
  ASSUME IInv, NEW p \in Process, Replace(p)
  PROVE  IInv'
<1>1. TypeOK'
  BY ContentAssumption
  DEF IInv, TypeOK, QueueTypeOK, MemoryInv, Replace, GoesOn, Write
<1>2. MemoryInv'
  BY DEF IInv, MemoryInv, Replace, GoesOn
<1>3. OwnerInv'
  BY DEF IInv, OwnerInv, ClaimIsExclusive, Replace, GoesOn
<1>4. FixInv'
  <2> DEFINE new == [ticket |-> held[p], by |-> p,
                     was |-> disk[about[held[p]]], now |-> draft[p].after]
  <2>1. /\ written' = written \cup {new}
        /\ new.ticket = held'[p] /\ new.by = p /\ new.now = draft'[p].after
    BY DEF Replace
  <2>2. \A x \in written' : status'[x.ticket] \notin {"absent", "queued"}
    BY <2>1, ProcessAssumption
    DEF IInv, FixInv, OwnerInv, ClaimIsExclusive, MemoryInv, TypeOK,
        QueueTypeOK, Terminal, Replace, GoesOn
  <2>3. \A w \in Worker, x \in written' :
          pc'[w] \in WorkerSteps => x.ticket # held'[w]
    BY <2>1, ProcessAssumption
    DEF IInv, FixInv, OwnerInv, ClaimIsExclusive, MemoryInv, TypeOK,
        Replace, GoesOn
  <2>4. ASSUME NEW q \in Process, pc'[q] \in {"diff", "settle"}
        PROVE  \E x \in written' :
                 x.ticket = held'[q] /\ x.by = q /\ x.now = draft'[q].after
    <3>1. CASE q = p
      <4>1. new \in written'
        BY <2>1
      <4>2. QED
        BY <4>1, <2>1, <3>1
    <3>2. CASE q # p
      <4>1. /\ pc[q] \in {"diff", "settle"}
            /\ held'[q] = held[q] /\ draft'[q] = draft[q]
        BY <2>4, <3>2 DEF Replace, GoesOn, IInv, TypeOK
      <4>2. QED
        BY <4>1, <2>1 DEF IInv, FixInv
    <3>3. QED
      BY <3>1, <3>2
  <2>5. QED
    BY <2>2, <2>3, <2>4, ProcessAssumption
    DEF IInv, FixInv, TypeOK, Unattended, Replace, GoesOn
<1>5. AppliedIsOnRecord' /\ OfferedIsApplied'
  BY DEF IInv, OfferedIsApplied, AppliedIsOnRecord, Replace
<1>6. OnlyValidFixes'
  BY DEF IInv, MemoryInv, OnlyValidFixes, Replace, GoesOn
<1>7. GateInv'
  BY DEF IInv, FixInv, GateInv, Unattended, Replace, GoesOn
<1>8. QED
  BY <1>1, <1>2, <1>3, <1>4, <1>5, <1>6, <1>7 DEF IInv

LEMMA ReplaceFailsKeepsIInv ==
  ASSUME IInv, NEW p \in Process, ReplaceFails(p)
  PROVE  IInv'
<1>1. TypeOK'
  BY DEF IInv, TypeOK, QueueTypeOK, ReplaceFails, GoesOn
<1>2. MemoryInv'
  BY DEF IInv, MemoryInv, ReplaceFails, GoesOn
<1>3. OwnerInv'
  BY DEF IInv, OwnerInv, ClaimIsExclusive, ReplaceFails, GoesOn
<1>4. FixInv'
  BY DEF IInv, FixInv, Unattended, ReplaceFails, GoesOn
<1>5. AppliedIsOnRecord' /\ OfferedIsApplied' /\ GateInv' /\ OnlyValidFixes'
  BY DEF IInv, OfferedIsApplied, AppliedIsOnRecord, GateInv, Unattended,
      OnlyValidFixes, ReplaceFails
<1>6. QED
  BY <1>1, <1>2, <1>3, <1>4, <1>5 DEF IInv

LEMMA SaveDiffKeepsIInv ==
  ASSUME IInv, NEW p \in Process, SaveDiff(p)
  PROVE  IInv'
<1>1. TypeOK'
  BY DEF IInv, TypeOK, QueueTypeOK, MemoryInv, SaveDiff, GoesOn, Diff, Proposal
<1>2. MemoryInv'
  BY DEF IInv, MemoryInv, SaveDiff, GoesOn
<1>3. OwnerInv'
  BY DEF IInv, OwnerInv, ClaimIsExclusive, SaveDiff, GoesOn
<1>4. FixInv'
  <2> DEFINE new == [ticket |-> held[p], by |-> p,
                     before |-> draft[p].before, after |-> draft[p].after]
  <2>1. /\ new \in diffs' /\ diffs \subseteq diffs'
        /\ new.ticket = held'[p] /\ new.by = p /\ new.after = draft'[p].after
    BY DEF SaveDiff
  <2>2. \A q \in Process :
          pc'[q] = "settle" =>
            \E d \in diffs' :
              d.ticket = held'[q] /\ d.by = q /\ d.after = draft'[q].after
    <3>1. ASSUME NEW q \in Process, q # p, pc'[q] = "settle"
          PROVE  /\ pc[q] = "settle"
                 /\ held'[q] = held[q] /\ draft'[q] = draft[q]
      BY <3>1 DEF SaveDiff, GoesOn, IInv, TypeOK
    <3>2. QED
      BY <3>1, <2>1 DEF IInv, FixInv
  <2>3. QED
    BY <2>2, ProcessAssumption
    DEF IInv, FixInv, TypeOK, Unattended, SaveDiff, GoesOn
<1>5. AppliedIsOnRecord' /\ OfferedIsApplied' /\ GateInv' /\ OnlyValidFixes'
  BY DEF IInv, OfferedIsApplied, AppliedIsOnRecord, GateInv, Unattended,
      OnlyValidFixes, SaveDiff
<1>6. QED
  BY <1>1, <1>2, <1>3, <1>4, <1>5 DEF IInv

LEMMA SettleKeepsIInv ==
  ASSUME IInv, NEW p \in Process, Settle(p)
  PROVE  IInv'
<1>1. TypeOK'
  BY DEF IInv, TypeOK, QueueTypeOK, MemoryInv, Settle, UpdateStatus, Releases,
      Status
<1>2. MemoryInv'
  BY DEF IInv, TypeOK, MemoryInv, Settle, UpdateStatus, Releases
<1>3. OwnerInv'
  BY SentinelAssumption
  DEF IInv, TypeOK, OwnerInv, ClaimIsExclusive, Terminal, Settle,
      UpdateStatus, Releases
<1>4. FixInv'
  BY DEF IInv, TypeOK, FixInv, Unattended, Settle, UpdateStatus, Releases
<1>5. AppliedIsOnRecord'
  BY DEF IInv, FixInv, AppliedIsOnRecord, Settle, UpdateStatus
<1>6. OfferedIsApplied' /\ GateInv' /\ OnlyValidFixes'
  BY DEF IInv, TypeOK, OfferedIsApplied, GateInv, Unattended, OnlyValidFixes,
      Settle, UpdateStatus, Releases
<1>7. QED
  BY <1>1, <1>2, <1>3, <1>4, <1>5, <1>6 DEF IInv

LEMMA FailKeepsIInv ==
  ASSUME IInv, NEW p \in Process, Fail(p)
  PROVE  IInv'
<1>1. TypeOK'
  BY DEF IInv, TypeOK, QueueTypeOK, MemoryInv, Fail, UpdateStatus, Releases,
      Status
<1>2. MemoryInv'
  BY DEF IInv, TypeOK, MemoryInv, Fail, UpdateStatus, Releases
<1>3. OwnerInv'
  BY SentinelAssumption
  DEF IInv, TypeOK, OwnerInv, ClaimIsExclusive, Terminal, Fail, UpdateStatus,
      Releases
<1>4. FixInv'
  BY DEF IInv, FixInv, Unattended, Fail, UpdateStatus, Releases
<1>5. AppliedIsOnRecord' /\ OfferedIsApplied' /\ GateInv' /\ OnlyValidFixes'
  BY DEF IInv, TypeOK, OfferedIsApplied, AppliedIsOnRecord, GateInv, Unattended,
      OnlyValidFixes, Fail, UpdateStatus, Releases
<1>6. QED
  BY <1>1, <1>2, <1>3, <1>4, <1>5 DEF IInv

LEMMA EditKeepsIInv ==
  ASSUME IInv, NEW c \in Contract, Edit(c)
  PROVE  IInv'
<1>1. TypeOK'
  BY DEF IInv, TypeOK, QueueTypeOK, Edit
<1>2. MemoryInv'
  BY DEF IInv, MemoryInv, Edit
<1>3. OwnerInv'
  BY DEF IInv, OwnerInv, ClaimIsExclusive, Edit
<1>4. FixInv'
  BY DEF IInv, FixInv, Unattended, Edit
<1>5. AppliedIsOnRecord' /\ OfferedIsApplied' /\ GateInv' /\ OnlyValidFixes'
  BY DEF IInv, OfferedIsApplied, AppliedIsOnRecord, GateInv, Unattended,
      OnlyValidFixes, Edit
<1>6. QED
  BY <1>1, <1>2, <1>3, <1>4, <1>5 DEF IInv

LEMMA AbortKeepsIInv ==
  ASSUME IInv, NEW p \in Process, Abort(p)
  PROVE  IInv'
<1>1. TypeOK'
  BY DEF IInv, TypeOK, QueueTypeOK, Abort, Releases
<1>2. MemoryInv'
  BY DEF IInv, TypeOK, MemoryInv, Abort, Releases
<1>3. OwnerInv'
  BY DEF IInv, TypeOK, OwnerInv, ClaimIsExclusive, Abort, Releases
<1>4. FixInv'
  BY DEF IInv, TypeOK, FixInv, Unattended, Abort, Releases
<1>5. AppliedIsOnRecord' /\ OfferedIsApplied' /\ GateInv' /\ OnlyValidFixes'
  BY DEF IInv, TypeOK, OfferedIsApplied, AppliedIsOnRecord, GateInv, Unattended,
      OnlyValidFixes, Abort, Releases
<1>6. QED
  BY <1>1, <1>2, <1>3, <1>4, <1>5 DEF IInv

(***************************************************************************)
(* IInv holds at the start, and every step keeps it.                       *)
(***************************************************************************)
LEMMA InitEstablishesIInv ==
  ASSUME Init
  PROVE  IInv
<1>1. TypeOK
  BY ContentAssumption DEF Init, QueueInit, TypeOK, QueueTypeOK, Medium,
      Critical, Low
<1>2. MemoryInv /\ OwnerInv /\ OfferedIsApplied
  BY DEF Init, QueueInit, MemoryInv, OwnerInv, ClaimIsExclusive,
      OfferedIsApplied
<1>3. FixInv /\ OnlyValidFixes /\ AppliedIsOnRecord /\ GateInv
  BY DEF Init, QueueInit, FixInv, OnlyValidFixes, AppliedIsOnRecord, GateInv
<1>4. QED
  BY <1>1, <1>2, <1>3 DEF IInv

LEMMA StutteringKeepsIInv ==
  ASSUME IInv, UNCHANGED vars
  PROVE  IInv'
BY DEF vars, IInv, TypeOK, QueueTypeOK, MemoryInv, OwnerInv, ClaimIsExclusive,
    FixInv, Unattended, OnlyValidFixes, AppliedIsOnRecord, OfferedIsApplied,
    GateInv

LEMMA NextKeepsIInv ==
  ASSUME IInv, [Next]_vars
  PROVE  IInv'
<1>1. ASSUME NEW t \in Ticket, Report(t) PROVE IInv'
  BY <1>1, ReportKeepsIInv
<1>2. ASSUME NEW w \in Worker, Claim(w) \/ ProcessTicket(w) PROVE IInv'
  <2>1. CASE Apply(w)
    BY <2>1, CheckFixKeepsIInv, ReplaceKeepsIInv, ReplaceFailsKeepsIInv,
       SaveDiffKeepsIInv, SettleKeepsIInv, FailKeepsIInv DEF Apply
  <2>2. CASE ~Apply(w)
    BY <1>2, <2>2, ClaimKeepsIInv, ClassifyKeepsIInv, ProposeKeepsIInv,
       ProposeNothingKeepsIInv, StoreProposalKeepsIInv, OfferKeepsIInv
    DEF ProcessTicket
  <2>3. QED
    BY <2>1, <2>2
<1>3. ASSUME NEW o \in Operator, Decide(o) PROVE IInv'
  BY <1>3, ApproveKeepsIInv, RejectKeepsIInv, CheckFixKeepsIInv,
     ReplaceKeepsIInv, ReplaceFailsKeepsIInv, SaveDiffKeepsIInv,
     SettleKeepsIInv, FailKeepsIInv DEF Decide, Apply
<1>4. ASSUME NEW o \in Operator, NEW t \in Ticket, NEW d \in OperatorSteps,
             Open(o, t, d)
      PROVE  IInv'
  BY <1>4, OpenKeepsIInv
<1>5. ASSUME NEW c \in Contract, Edit(c) PROVE IInv'
  BY <1>5, EditKeepsIInv
<1>6. ASSUME NEW p \in Process, Abort(p) PROVE IInv'
  BY <1>6, AbortKeepsIInv
<1>7. CASE UNCHANGED vars
  BY <1>7, StutteringKeepsIInv
<1>8. QED
  BY <1>1, <1>2, <1>3, <1>4, <1>5, <1>6, <1>7 DEF Next

(***************************************************************************)
(* The inductive invariant holds of every execution, for any number of     *)
(* tickets, contracts, workers and operators, and without a bound on edits *)
(* and aborts.                                                             *)
(***************************************************************************)
THEOREM IInvHolds == Spec => []IInv
<1>1. Init => IInv
  BY InitEstablishesIInv
<1>2. IInv /\ [Next]_vars => IInv'
  BY NextKeepsIInv
<1>3. QED
  BY <1>1, <1>2, PTL DEF Spec

(***************************************************************************)
(* Every variable keeps its type (HealerQueue, HealerPipeline).            *)
(***************************************************************************)
THEOREM TypeCorrectness == Spec => []TypeOK
<1>1. IInv => TypeOK
  BY DEF IInv
<1>2. QED
  BY <1>1, IInvHolds, PTL

(***************************************************************************)
(* A claimed ticket is analyzing and belongs to one worker until he is     *)
(* done with it (claim_next, _process_ticket).                             *)
(***************************************************************************)
THEOREM ClaimsAreExclusive == Spec => []ClaimIsExclusive
<1>1. IInv => ClaimIsExclusive
  BY DEF IInv, OwnerInv
<1>2. QED
  BY <1>1, IInvHolds, PTL

(***************************************************************************)
(* Whatever apply_fix puts into a contract file validates.                 *)
(***************************************************************************)
THEOREM OnlyValidContentIsWritten == Spec => []OnlyValidFixes
<1>1. IInv => OnlyValidFixes
  BY DEF IInv
<1>2. QED
  BY <1>1, IInvHolds, PTL

(***************************************************************************)
(* With a threshold above what a model's proposal can score on tier 1,     *)
(* only deterministic fixes of tier 1 tickets are applied unattended       *)
(* (_process_ticket). The default threshold is 10.                         *)
(***************************************************************************)
THEOREM NoModelFixIsUnattended ==
  Threshold > 5 => (Spec => []UnattendedFixesAreCertain)
<1> SUFFICES ASSUME Threshold > 5
             PROVE  Spec => []UnattendedFixesAreCertain
  OBVIOUS
<1>1. ASSUME IInv
      PROVE  UnattendedFixesAreCertain
  <2>1. SUFFICES ASSUME NEW x \in written, x.by \in Worker
                 PROVE  /\ tier[x.ticket] = 1
                        /\ proposal[x.ticket].method = "deterministic"
    BY DEF UnattendedFixesAreCertain
  <2>2. Unattended(x.ticket, proposal[x.ticket])
    BY <1>1, <2>1 DEF IInv, GateInv
  <2>3. QED
    BY <2>2, ThresholdAssumption DEF Unattended, Confidence
<1>2. QED
  BY <1>1, IInvHolds, PTL

(***************************************************************************)
(* A ticket becomes applied only with a replacement and a saved diff       *)
(* behind it (apply_fix, _apply_and_notify).                               *)
(***************************************************************************)
THEOREM AppliedTicketsAreOnRecord == Spec => []AppliedIsOnRecord
<1>1. IInv => AppliedIsOnRecord
  BY DEF IInv
<1>2. QED
  BY <1>1, IInvHolds, PTL

(***************************************************************************)
(* What an operator has in hand is what stands in the queue                *)
(* (approve_ticket, set_proposal).                                         *)
(***************************************************************************)
THEOREM OfferedProposalsAreApplied == Spec => []OfferedIsApplied
<1>1. IInv => OfferedIsApplied
  BY DEF IInv
<1>2. QED
  BY <1>1, IInvHolds, PTL

(***************************************************************************)
(* A ticket somebody works on is not in the queue any more.                *)
(***************************************************************************)
LEMMA HeldTicketsAreTaken ==
  ASSUME IInv, NEW p \in Process, pc[p] # "idle"
  PROVE  held[p] \in Ticket /\ status[held[p]] \notin {"absent", "queued"}
BY DEF IInv, TypeOK, MemoryInv, OwnerInv, ClaimIsExclusive, Terminal

(***************************************************************************)
(* Only claim_next takes tickets out of the queue, and it takes the        *)
(* oldest.                                                                 *)
(***************************************************************************)
LEMMA NextTakesTheOldest ==
  ASSUME IInv, Next, NEW t \in Ticket, NEW u \in Ticket,
         status[t] = "queued", status'[t] # "queued", status[u] = "queued"
  PROVE  created[t] <= created[u]
<1>1. ASSUME NEW w \in Worker, Claim(w) PROVE created[t] <= created[u]
  BY <1>1 DEF Claim, ClaimNext, NextQueued, InQueue, ServedBefore, IInv,
      TypeOK, QueueTypeOK, OwnerInv, Medium
<1>2. ASSUME NEW v \in Ticket, Report(v) PROVE FALSE
  BY <1>2 DEF Report, Enqueue, IInv, TypeOK, QueueTypeOK
<1>3. ASSUME NEW p \in Process, pc[p] # "idle", NEW s \in Status,
             UpdateStatus(held[p], s)
      PROVE  FALSE
  BY <1>3, HeldTicketsAreTaken DEF UpdateStatus, IInv, TypeOK, QueueTypeOK
<1>4. ASSUME NEW w \in Worker, ProcessTicket(w) PROVE FALSE
  BY <1>3, <1>4 DEF ProcessTicket, Classify, SetClassification, Propose,
      ProposeNothing, StoreProposal, SetProposal, Offer, Apply, CheckFix,
      Replace, ReplaceFails, SaveDiff, Settle, Fail, Status
<1>5. ASSUME NEW o \in Operator, Decide(o) PROVE FALSE
  BY <1>3, <1>5 DEF Decide, Approve, Reject, Apply, CheckFix, GoesOn, Replace,
      ReplaceFails, SaveDiff, Settle, Fail, Status
<1>6. QED
  BY <1>1, <1>2, <1>4, <1>5 DEF Next, Open, Edit, Abort

(***************************************************************************)
(* Tickets leave the queue in the order they were created (claim_next).    *)
(***************************************************************************)
THEOREM OldestTicketIsClaimed == Spec => OldestIsClaimed
<1>1. IInv /\ [Next]_vars =>
        [\A t, u \in Ticket :
           /\ status[t] = "queued" /\ status'[t] # "queued"
           /\ status[u] = "queued"
           => created[t] <= created[u]]_vars
  BY NextTakesTheOldest
<1>2. QED
  BY <1>1, IInvHolds, PTL DEF Spec, OldestIsClaimed

(***************************************************************************)
(* Whoever gives a ticket up has moved it on first.                        *)
(***************************************************************************)
LEMMA NextStrandsNobody ==
  ASSUME IInv, OnlyAbortsStrand, [Next]_vars
  PROVE  OnlyAbortsStrand'
<1> USE DEF OnlyAbortsStrand, Stranded, IInv, TypeOK, QueueTypeOK, MemoryInv
<1>1. ASSUME NEW t \in Ticket, Report(t) PROVE OnlyAbortsStrand'
  BY <1>1 DEF Report, Enqueue
<1>2. ASSUME NEW w \in Worker, Claim(w) PROVE OnlyAbortsStrand'
  BY <1>2, SentinelAssumption DEF Claim, ClaimNext, GoesOn
<1>3. ASSUME NEW p \in Process,
             pc[p] # "idle", UNCHANGED <<status, held, aborts>>
      PROVE  OnlyAbortsStrand'
  BY <1>3
<1>4. ASSUME NEW p \in Process, pc[p] # "idle", Releases(p), aborts' = aborts,
             NEW s \in Terminal \cup {"proposed"}, UpdateStatus(held[p], s)
      PROVE  OnlyAbortsStrand'
  BY <1>4 DEF Releases, UpdateStatus, Terminal
<1>5. ASSUME NEW o \in Operator, Approve(o) PROVE OnlyAbortsStrand'
  BY <1>5 DEF Approve, UpdateStatus, GoesOn
<1>6. ASSUME NEW o \in Operator, NEW t \in Ticket, NEW d \in OperatorSteps,
             Open(o, t, d)
      PROVE  OnlyAbortsStrand'
  BY <1>6, SentinelAssumption DEF Open, GoesOn
<1>7. ASSUME NEW p \in Process, Abort(p) PROVE OnlyAbortsStrand'
  BY <1>7, BoundAssumption DEF Abort
<1>8. ASSUME NEW p \in Process, Apply(p) PROVE OnlyAbortsStrand'
  BY <1>3, <1>4, <1>8 DEF Apply, CheckFix, Replace, ReplaceFails, SaveDiff,
      Settle, Fail, GoesOn, Terminal
<1>9. ASSUME NEW w \in Worker, ProcessTicket(w), ~Apply(w)
      PROVE  OnlyAbortsStrand'
  BY <1>3, <1>4, <1>9 DEF ProcessTicket, Classify, SetClassification, Propose,
      ProposeNothing, StoreProposal, SetProposal, Offer, GoesOn
<1>10. ASSUME NEW o \in Operator, Reject(o) PROVE OnlyAbortsStrand'
  BY <1>4, <1>10 DEF Reject, Terminal
<1>11. CASE UNCHANGED vars \/ \E c \in Contract : Edit(c)
  BY <1>11 DEF vars, Edit
<1>12. QED
  BY <1>1, <1>2, <1>5, <1>6, <1>7, <1>8, <1>9, <1>10, <1>11
  DEF Next, Decide

(***************************************************************************)
(* Without a crash or an exception every ticket in the middle of being     *)
(* handled is in somebody's hands, with any number of operators.           *)
(***************************************************************************)
THEOREM OnlyAbortsStrandTickets == Spec => []OnlyAbortsStrand
<1>1. Init => OnlyAbortsStrand
  BY DEF Init, QueueInit, OnlyAbortsStrand, Stranded
<1>2. IInv /\ OnlyAbortsStrand /\ [Next]_vars => OnlyAbortsStrand'
  BY NextStrandsNobody
<1>3. QED
  BY <1>1, <1>2, IInvHolds, PTL DEF Spec

-------------------------------------------------------------------------------
(***************************************************************************)
(* SoloInv is an invariant of the pipeline when there is one operator, and *)
(* with it the pipeline implements TicketLifecycle.                        *)
(***************************************************************************)

USE DEF Process, WorkerSteps, OperatorSteps, ApplySteps, tickets, files, local

(***************************************************************************)
(* update_status with a terminal status sets resolved_at of that ticket    *)
(* and leaves the others alone.                                            *)
(***************************************************************************)
LEMMA ResolvedIsStamped ==
  ASSUME TypeOK, NEW t \in Ticket, NEW s \in Terminal, UpdateStatus(t, s)
  PROVE  /\ status' = [status EXCEPT ![t] = s]
         /\ resolved'[t]
         /\ \A u \in Ticket \ {t} : resolved'[u] = resolved[u]
BY DEF TypeOK, QueueTypeOK, UpdateStatus

(***************************************************************************)
(* Each action keeps SoloInv when there is one operator.                   *)
(***************************************************************************)
LEMMA ReportKeepsSoloInv ==
  ASSUME IInv, SingleOperator, SoloInv, NEW t \in Ticket, Report(t)
  PROVE  SoloInv'
<1>1. FixAppliedOnce' /\ RejectedIsNotApplied'
  BY DEF SoloInv, Terminal, FixAppliedOnce, RejectedIsNotApplied, Report, Enqueue
<1>2. OutcomeInv'
  BY DEF SoloInv, OutcomeInv, Fixed, Report, Enqueue
<1>3. DecisionInv'
  BY DEF SoloInv, DecisionInv, Report, Enqueue
<1>4. StartInv'
  BY DEF SoloInv, StartInv, Fixed, Report
<1>5. QED
  BY <1>1, <1>2, <1>3, <1>4 DEF SoloInv

LEMMA ClaimKeepsSoloInv ==
  ASSUME IInv, SingleOperator, SoloInv, NEW w \in Worker, Claim(w)
  PROVE  SoloInv'
<1>1. FixAppliedOnce' /\ RejectedIsNotApplied'
  BY DEF SoloInv, Terminal, FixAppliedOnce, RejectedIsNotApplied, Claim,
      ClaimNext, NextQueued, InQueue
<1>2. OutcomeInv'
  BY DEF SoloInv, OutcomeInv, Fixed, Claim, ClaimNext
<1>3. DecisionInv'
  BY DEF SoloInv, DecisionInv, Claim, ClaimNext, NextQueued, InQueue, GoesOn
<1>4. StartInv'
  BY DEF IInv, SoloInv, TypeOK, OutcomeInv, StartInv, Fixed, Claim, ClaimNext,
      NextQueued, InQueue, GoesOn
<1>5. QED
  BY <1>1, <1>2, <1>3, <1>4 DEF SoloInv

LEMMA ClassifyKeepsSoloInv ==
  ASSUME IInv, SingleOperator, SoloInv, NEW w \in Worker, Classify(w)
  PROVE  SoloInv'
<1>1. FixAppliedOnce' /\ RejectedIsNotApplied' /\ OutcomeInv'
  BY DEF SoloInv, FixAppliedOnce, RejectedIsNotApplied, OutcomeInv, Fixed,
      Classify, SetClassification
<1>2. DecisionInv'
  BY ProcessAssumption
  DEF SoloInv, DecisionInv, Classify, SetClassification, GoesOn
<1>3. StartInv'
  BY DEF SoloInv, StartInv, Fixed, Classify, GoesOn
<1>4. QED
  BY <1>1, <1>2, <1>3 DEF SoloInv

LEMMA ProposeKeepsSoloInv ==
  ASSUME IInv, SingleOperator, SoloInv, NEW w \in Worker, Propose(w)
  PROVE  SoloInv'
<1>1. FixAppliedOnce' /\ RejectedIsNotApplied' /\ OutcomeInv'
  BY DEF SoloInv, FixAppliedOnce, RejectedIsNotApplied, OutcomeInv, Fixed,
      Propose
<1>2. DecisionInv'
  BY DEF SoloInv, DecisionInv, Propose, GoesOn
<1>3. StartInv'
  BY DEF SoloInv, StartInv, Fixed, Propose, GoesOn
<1>4. QED
  BY <1>1, <1>2, <1>3 DEF SoloInv

LEMMA ProposeNothingKeepsSoloInv ==
  ASSUME IInv, SingleOperator, SoloInv, NEW w \in Worker, ProposeNothing(w)
  PROVE  SoloInv'
<1>1. FixAppliedOnce' /\ RejectedIsNotApplied' /\ OutcomeInv'
  BY DEF SoloInv, FixAppliedOnce, RejectedIsNotApplied, OutcomeInv, Fixed,
      ProposeNothing
<1>2. DecisionInv'
  BY ProcessAssumption DEF SoloInv, DecisionInv, ProposeNothing, GoesOn
<1>3. StartInv'
  BY DEF SoloInv, StartInv, Fixed, ProposeNothing, GoesOn
<1>4. QED
  BY <1>1, <1>2, <1>3 DEF SoloInv

LEMMA StoreProposalKeepsSoloInv ==
  ASSUME IInv, SingleOperator, SoloInv, NEW w \in Worker, StoreProposal(w)
  PROVE  SoloInv'
<1>1. FixAppliedOnce' /\ RejectedIsNotApplied' /\ OutcomeInv'
  BY DEF SoloInv, FixAppliedOnce, RejectedIsNotApplied, OutcomeInv, Fixed,
      StoreProposal, SetProposal
<1>2. DecisionInv'
  BY ProcessAssumption
  DEF SoloInv, DecisionInv, StoreProposal, SetProposal, GoesOn
<1>3. StartInv'
  BY DEF SoloInv, StartInv, Fixed, StoreProposal, GoesOn
<1>4. QED
  BY <1>1, <1>2, <1>3 DEF SoloInv

LEMMA OfferKeepsSoloInv ==
  ASSUME IInv, SingleOperator, SoloInv, NEW w \in Worker, Offer(w)
  PROVE  SoloInv'
<1>1. FixAppliedOnce' /\ RejectedIsNotApplied'
  BY SentinelAssumption
  DEF IInv, SoloInv, TypeOK, QueueTypeOK, OwnerInv, ClaimIsExclusive,
      Terminal, FixAppliedOnce, RejectedIsNotApplied, Offer, UpdateStatus
<1>2. OutcomeInv'
  BY DEF SoloInv, OutcomeInv, StartInv, Fixed, Offer, UpdateStatus
<1>3. DecisionInv'
  BY DEF IInv, SoloInv, MemoryInv, OwnerInv, ClaimIsExclusive, DecisionInv,
      Offer, UpdateStatus, Releases
<1>4. StartInv'
  BY DEF IInv, SoloInv, TypeOK, StartInv, Fixed, Offer, Releases
<1>5. QED
  BY <1>1, <1>2, <1>3, <1>4 DEF SoloInv

LEMMA OpenKeepsSoloInv ==
  ASSUME IInv, SingleOperator, SoloInv, NEW o \in Operator, NEW t \in Ticket,
         NEW d \in OperatorSteps, Open(o, t, d)
  PROVE  SoloInv'
<1>1. FixAppliedOnce' /\ RejectedIsNotApplied' /\ OutcomeInv'
  BY DEF SoloInv, FixAppliedOnce, RejectedIsNotApplied, OutcomeInv, Fixed, Open
<1>2. DecisionInv'
  BY DEF IInv, TypeOK, SingleOperator, DecisionInv, Open, GoesOn
<1>3. StartInv'
  BY DEF IInv, SoloInv, TypeOK, OutcomeInv, StartInv, Fixed, Open, GoesOn
<1>4. QED
  BY <1>1, <1>2, <1>3 DEF SoloInv

LEMMA ApproveKeepsSoloInv ==
  ASSUME IInv, SingleOperator, SoloInv, NEW o \in Operator, Approve(o)
  PROVE  SoloInv'
<1>1. FixAppliedOnce' /\ RejectedIsNotApplied'
  BY DEF IInv, SoloInv, TypeOK, QueueTypeOK, Terminal, FixAppliedOnce,
      RejectedIsNotApplied, DecisionInv, Approve, UpdateStatus, GoesOn
<1>2. OutcomeInv'
  BY DEF SoloInv, OutcomeInv, Fixed, Approve, UpdateStatus
<1>3. DecisionInv'
  BY DEF IInv, TypeOK, QueueTypeOK, MemoryInv, SingleOperator, DecisionInv,
      Approve, UpdateStatus, GoesOn
<1>4. StartInv'
  BY DEF SoloInv, StartInv, Fixed, Approve, GoesOn
<1>5. QED
  BY <1>1, <1>2, <1>3, <1>4 DEF SoloInv

LEMMA RejectKeepsSoloInv ==
  ASSUME IInv, SingleOperator, SoloInv, NEW o \in Operator, Reject(o)
  PROVE  SoloInv'
<1>1. FixAppliedOnce'
  BY DEF SoloInv, FixAppliedOnce, Reject
<1>2. RejectedIsNotApplied'
  <2>1. held[o] \in Ticket
    BY DEF IInv, TypeOK, MemoryInv, Reject
  <2>2. /\ status' = [status EXCEPT ![held[o]] = "rejected"]
        /\ resolved'[held[o]]
        /\ \A u \in Ticket \ {held[o]} : resolved'[u] = resolved[u]
    BY <2>1, ResolvedIsStamped DEF IInv, Terminal, Reject
  <2>3. written' = written /\ ~Fixed(held[o])
    BY DEF Reject, IInv, MemoryInv, SoloInv, StartInv
  <2>4. QED
    BY <2>1, <2>2, <2>3
    DEF IInv, TypeOK, QueueTypeOK, Terminal, SoloInv, RejectedIsNotApplied, Fixed
<1>3. OutcomeInv'
  BY DEF SoloInv, OutcomeInv, Fixed, Reject, UpdateStatus
<1>4. DecisionInv'
  BY DEF IInv, TypeOK, SingleOperator, DecisionInv, Reject, Releases
<1>5. StartInv'
  BY DEF IInv, SoloInv, TypeOK, StartInv, Fixed, Reject, Releases
<1>6. QED
  BY <1>1, <1>2, <1>3, <1>4, <1>5 DEF SoloInv

LEMMA CheckFixKeepsSoloInv ==
  ASSUME IInv, SingleOperator, SoloInv, NEW p \in Process, CheckFix(p)
  PROVE  SoloInv'
<1>1. FixAppliedOnce' /\ RejectedIsNotApplied' /\ OutcomeInv'
  BY DEF SoloInv, FixAppliedOnce, RejectedIsNotApplied, OutcomeInv, Fixed,
      CheckFix
<1>2. DecisionInv'
  BY DEF SoloInv, DecisionInv, CheckFix, GoesOn
<1>3. StartInv'
  BY DEF SoloInv, StartInv, Fixed, CheckFix, GoesOn
<1>4. QED
  BY <1>1, <1>2, <1>3 DEF SoloInv

LEMMA ReplaceKeepsSoloInv ==
  ASSUME IInv, SingleOperator, SoloInv, NEW p \in Process, Replace(p)
  PROVE  SoloInv'
<1>1. FixAppliedOnce'
  BY DEF SoloInv, FixAppliedOnce, StartInv, Fixed, Replace, GoesOn
<1>2. RejectedIsNotApplied'
  BY SentinelAssumption
  DEF IInv, SoloInv, OwnerInv, ClaimIsExclusive, RejectedIsNotApplied,
      DecisionInv, Replace, GoesOn
<1>3. OutcomeInv'
  BY SentinelAssumption
  DEF IInv, SoloInv, OwnerInv, ClaimIsExclusive, OutcomeInv, DecisionInv,
      Fixed, Replace, GoesOn
<1>4. DecisionInv'
  BY DEF SoloInv, DecisionInv, Replace, GoesOn
<1>5. StartInv'
  BY DEF IInv, SoloInv, TypeOK, MemoryInv, OwnerInv, ClaimIsExclusive,
      SingleOperator, StartInv, Fixed, Replace, GoesOn
<1>6. QED
  BY <1>1, <1>2, <1>3, <1>4, <1>5 DEF SoloInv

LEMMA ReplaceFailsKeepsSoloInv ==
  ASSUME IInv, SingleOperator, SoloInv, NEW p \in Process, ReplaceFails(p)
  PROVE  SoloInv'
<1>1. FixAppliedOnce' /\ RejectedIsNotApplied' /\ OutcomeInv'
  BY DEF SoloInv, FixAppliedOnce, RejectedIsNotApplied, OutcomeInv, Fixed,
      ReplaceFails
<1>2. DecisionInv'
  BY DEF SoloInv, DecisionInv, ReplaceFails, GoesOn
<1>3. StartInv'
  BY DEF SoloInv, StartInv, Fixed, ReplaceFails, GoesOn
<1>4. QED
  BY <1>1, <1>2, <1>3 DEF SoloInv

LEMMA SaveDiffKeepsSoloInv ==
  ASSUME IInv, SingleOperator, SoloInv, NEW p \in Process, SaveDiff(p)
  PROVE  SoloInv'
<1>1. FixAppliedOnce' /\ RejectedIsNotApplied' /\ OutcomeInv'
  BY DEF SoloInv, FixAppliedOnce, RejectedIsNotApplied, OutcomeInv, Fixed,
      SaveDiff
<1>2. DecisionInv'
  BY DEF SoloInv, DecisionInv, SaveDiff, GoesOn
<1>3. StartInv'
  BY DEF SoloInv, StartInv, Fixed, SaveDiff, GoesOn
<1>4. QED
  BY <1>1, <1>2, <1>3 DEF SoloInv

LEMMA SettleKeepsSoloInv ==
  ASSUME IInv, SingleOperator, SoloInv, NEW p \in Process, Settle(p)
  PROVE  SoloInv'
<1>1. FixAppliedOnce'
  BY DEF SoloInv, FixAppliedOnce, Settle
<1>2. RejectedIsNotApplied'
  <2>1. held[p] \in Ticket
    BY DEF IInv, TypeOK, MemoryInv, Settle
  <2>2. /\ status' = [status EXCEPT ![held[p]] = "applied"]
        /\ resolved'[held[p]]
        /\ \A u \in Ticket \ {held[p]} : resolved'[u] = resolved[u]
    BY <2>1, ResolvedIsStamped DEF IInv, Terminal, Settle
  <2>3. written' = written
    BY DEF Settle
  <2>4. QED
    BY <2>1, <2>2, <2>3
    DEF IInv, TypeOK, QueueTypeOK, Terminal, SoloInv, RejectedIsNotApplied
<1>3. OutcomeInv'
  BY DEF IInv, SoloInv, FixInv, OutcomeInv, Fixed, Settle, UpdateStatus
<1>4. DecisionInv'
  BY DEF IInv, SoloInv, TypeOK, FixInv, FixAppliedOnce, DecisionInv, StartInv,
      Fixed, Settle, UpdateStatus, Releases
<1>5. StartInv'
  BY DEF SoloInv, StartInv, Fixed, Settle, Releases
<1>6. QED
  BY <1>1, <1>2, <1>3, <1>4, <1>5 DEF SoloInv

LEMMA FailKeepsSoloInv ==
  ASSUME IInv, SingleOperator, SoloInv, NEW p \in Process, Fail(p)
  PROVE  SoloInv'
<1>1. FixAppliedOnce'
  BY DEF SoloInv, FixAppliedOnce, Fail
<1>2. RejectedIsNotApplied'
  <2>1. held[p] \in Ticket
    BY DEF IInv, TypeOK, MemoryInv, Fail
  <2>2. /\ status' = [status EXCEPT ![held[p]] = "failed"]
        /\ resolved'[held[p]]
        /\ \A u \in Ticket \ {held[p]} : resolved'[u] = resolved[u]
    BY <2>1, ResolvedIsStamped DEF IInv, Terminal, Fail
  <2>3. written' = written
    BY DEF Fail
  <2>4. QED
    BY <2>1, <2>2, <2>3
    DEF IInv, TypeOK, QueueTypeOK, Terminal, SoloInv, RejectedIsNotApplied
<1>3. OutcomeInv'
  BY DEF SoloInv, OutcomeInv, StartInv, Fixed, Fail, UpdateStatus
<1>4. DecisionInv'
  BY DEF IInv, SoloInv, TypeOK, MemoryInv, OwnerInv, ClaimIsExclusive,
      SingleOperator, DecisionInv, Fail, UpdateStatus, Releases
<1>5. StartInv'
  BY DEF IInv, SoloInv, TypeOK, StartInv, Fixed, Fail, Releases
<1>6. QED
  BY <1>1, <1>2, <1>3, <1>4, <1>5 DEF SoloInv

LEMMA EditKeepsSoloInv ==
  ASSUME IInv, SingleOperator, SoloInv, NEW c \in Contract, Edit(c)
  PROVE  SoloInv'
<1>1. FixAppliedOnce' /\ RejectedIsNotApplied' /\ OutcomeInv'
  BY DEF SoloInv, FixAppliedOnce, RejectedIsNotApplied, OutcomeInv, Fixed, Edit
<1>2. DecisionInv'
  BY DEF SoloInv, DecisionInv, Edit
<1>3. StartInv'
  BY DEF SoloInv, StartInv, Fixed, Edit
<1>4. QED
  BY <1>1, <1>2, <1>3 DEF SoloInv

LEMMA AbortKeepsSoloInv ==
  ASSUME IInv, SingleOperator, SoloInv, NEW p \in Process, Abort(p)
  PROVE  SoloInv'
<1>1. FixAppliedOnce' /\ RejectedIsNotApplied' /\ OutcomeInv'
  BY DEF SoloInv, FixAppliedOnce, RejectedIsNotApplied, OutcomeInv, Fixed, Abort
<1>2. DecisionInv'
  BY DEF IInv, SoloInv, TypeOK, DecisionInv, Abort, Releases
<1>3. StartInv'
  BY DEF IInv, SoloInv, TypeOK, StartInv, Fixed, Abort, Releases
<1>4. QED
  BY <1>1, <1>2, <1>3 DEF SoloInv

(***************************************************************************)
(* SoloInv holds at the start, and every step keeps it.                    *)
(***************************************************************************)
LEMMA InitEstablishesSoloInv ==
  ASSUME Init
  PROVE  SoloInv
BY DEF Init, QueueInit, SoloInv, FixAppliedOnce, RejectedIsNotApplied,
    OutcomeInv, DecisionInv, StartInv, Fixed, Terminal

LEMMA StutteringKeepsSoloInv ==
  ASSUME SoloInv, UNCHANGED vars
  PROVE  SoloInv'
BY DEF vars, SoloInv, FixAppliedOnce, RejectedIsNotApplied, OutcomeInv,
    DecisionInv, StartInv, Fixed

LEMMA NextKeepsSoloInv ==
  ASSUME IInv, SingleOperator, SoloInv, [Next]_vars
  PROVE  SoloInv'
<1>1. ASSUME NEW t \in Ticket, Report(t) PROVE SoloInv'
  BY <1>1, ReportKeepsSoloInv
<1>2. ASSUME NEW p \in Process, Apply(p) PROVE SoloInv'
  BY <1>2, CheckFixKeepsSoloInv, ReplaceKeepsSoloInv,
     ReplaceFailsKeepsSoloInv, SaveDiffKeepsSoloInv, SettleKeepsSoloInv,
     FailKeepsSoloInv DEF Apply
<1>3. ASSUME NEW w \in Worker, Claim(w) \/ ProcessTicket(w) PROVE SoloInv'
  BY <1>2, <1>3, ClaimKeepsSoloInv, ClassifyKeepsSoloInv,
     ProposeKeepsSoloInv, ProposeNothingKeepsSoloInv,
     StoreProposalKeepsSoloInv, OfferKeepsSoloInv DEF ProcessTicket
<1>4. ASSUME NEW o \in Operator, Decide(o) PROVE SoloInv'
  BY <1>2, <1>4, ApproveKeepsSoloInv, RejectKeepsSoloInv DEF Decide
<1>5. ASSUME NEW o \in Operator, NEW t \in Ticket, NEW d \in OperatorSteps,
             Open(o, t, d)
      PROVE  SoloInv'
  BY <1>5, OpenKeepsSoloInv
<1>6. ASSUME NEW c \in Contract, Edit(c) PROVE SoloInv'
  BY <1>6, EditKeepsSoloInv
<1>7. ASSUME NEW p \in Process, Abort(p) PROVE SoloInv'
  BY <1>7, AbortKeepsSoloInv
<1>8. CASE UNCHANGED vars
  BY <1>8, StutteringKeepsSoloInv
<1>9. QED
  BY <1>1, <1>3, <1>4, <1>5, <1>6, <1>7, <1>8 DEF Next

(***************************************************************************)
(* With one operator, the status he read is still there when he writes.    *)
(***************************************************************************)
THEOREM SoloInvHolds == SingleOperator => (Spec => []SoloInv)
<1> SUFFICES ASSUME SingleOperator
             PROVE  Spec => []SoloInv
  OBVIOUS
<1>1. Init => SoloInv
  BY InitEstablishesSoloInv
<1>2. IInv /\ SoloInv /\ [Next]_vars => SoloInv'
  BY NextKeepsSoloInv
<1>3. QED
  BY <1>1, <1>2, IInvHolds, PTL DEF Spec

(***************************************************************************)
(* With one operator, a fix reaches its contract at most once              *)
(* (approve_ticket, apply_fix).                                            *)
(***************************************************************************)
THEOREM FixesAreAppliedOnce == SingleOperator => (Spec => []FixAppliedOnce)
<1> SUFFICES ASSUME SingleOperator
             PROVE  Spec => []FixAppliedOnce
  OBVIOUS
<1>1. Spec => []SoloInv
  BY SoloInvHolds
<1>2. SoloInv => FixAppliedOnce
  BY DEF SoloInv
<1>3. QED
  BY <1>1, <1>2, PTL

(***************************************************************************)
(* With one operator, a rejected fix is in no contract, and exactly the    *)
(* resolved tickets have a time of resolution (reject_ticket,              *)
(* update_status).                                                         *)
(***************************************************************************)
THEOREM RejectedFixesAreNotApplied ==
  SingleOperator => (Spec => []RejectedIsNotApplied)
<1> SUFFICES ASSUME SingleOperator
             PROVE  Spec => []RejectedIsNotApplied
  OBVIOUS
<1>1. Spec => []SoloInv
  BY SoloInvHolds
<1>2. SoloInv => RejectedIsNotApplied
  BY Zenon DEF SoloInv
<1>3. QED
  BY <1>1, <1>2, PTL

(***************************************************************************)
(* The abstract variable fixed, and what it says about a ticket.           *)
(***************************************************************************)
LEMMA FixedIsLifecycle ==
  ASSUME NEW t
  PROVE  Fixed(t) <=> t \in {x.ticket : x \in written}
BY DEF Fixed

(***************************************************************************)
(* Whoever is about to apply does so in a status that allows it.           *)
(***************************************************************************)
LEMMA AppliesInFixing ==
  ASSUME IInv, SoloInv, NEW p \in Process, pc[p] \in ApplySteps
  PROVE  held[p] \in Ticket /\ Lifecycle!InFixing(held[p])
BY DEF IInv, TypeOK, MemoryInv, OwnerInv, ClaimIsExclusive, SoloInv,
    DecisionInv, Lifecycle!InFixing

(***************************************************************************)
(* Every step of the pipeline is a step of the lifecycle or leaves it      *)
(* alone.                                                                  *)
(***************************************************************************)
LEMMA NextIsLifecycleNext ==
  ASSUME IInv, SoloInv, [Next]_vars
  PROVE  [Lifecycle!Next]_(Lifecycle!vars)
<1> DEFINE fixed == {x.ticket : x \in written}
<1> USE DEF IInv, TypeOK, QueueTypeOK, MemoryInv
<1>1. CASE UNCHANGED <<status, written>>
  BY <1>1 DEF Lifecycle!vars
<1>2. ASSUME NEW t \in Ticket, Report(t) PROVE Lifecycle!Next
  <2>1. Lifecycle!Moves(t, "absent", "queued")
    BY <1>2 DEF Report, Enqueue, Lifecycle!Moves
  <2>2. QED
    BY <2>1 DEF Lifecycle!Next
<1>3. ASSUME NEW w \in Worker, Claim(w) PROVE Lifecycle!Next
  <2>1. PICK t \in Ticket : ClaimNext(t)
    BY <1>3 DEF Claim
  <2>2. Lifecycle!Moves(t, "queued", "analyzing")
    BY <1>3, <2>1 DEF Claim, ClaimNext, NextQueued, InQueue, Lifecycle!Moves
  <2>3. QED
    BY <2>2 DEF Lifecycle!Next
<1>4. ASSUME NEW w \in Worker, Offer(w) PROVE Lifecycle!Next
  <2>1. held[w] \in Ticket /\ held[w] \notin fixed
    BY <1>4, FixedIsLifecycle DEF Offer, SoloInv, StartInv
  <2>2. Lifecycle!Moves(held[w], "analyzing", "proposed")
    BY <1>4, <2>1 DEF Offer, UpdateStatus, OwnerInv, ClaimIsExclusive,
        Lifecycle!Moves
  <2>3. QED
    BY <2>1, <2>2 DEF Lifecycle!Next
<1>5. ASSUME NEW o \in Operator, Approve(o) PROVE Lifecycle!Next
  <2>1. held[o] \in Ticket /\ status[held[o]] = "proposed"
    BY <1>5 DEF Approve, GoesOn, SoloInv, DecisionInv
  <2>2. Lifecycle!Moves(held[o], "proposed", "approved")
    BY <1>5, <2>1 DEF Approve, UpdateStatus, Lifecycle!Moves
  <2>3. QED
    BY <2>1, <2>2 DEF Lifecycle!Next
<1>6. ASSUME NEW o \in Operator, Reject(o) PROVE Lifecycle!Next
  <2>1. held[o] \in Ticket /\ status[held[o]] = "proposed"
    BY <1>6 DEF Reject, SoloInv, DecisionInv
  <2>2. Lifecycle!Moves(held[o], "proposed", "rejected")
    BY <1>6, <2>1 DEF Reject, UpdateStatus, Lifecycle!Moves
  <2>3. QED
    BY <2>1, <2>2 DEF Lifecycle!Next
<1>7. ASSUME NEW p \in Process, Replace(p) PROVE Lifecycle!Next
  <2>1. held[p] \in Ticket /\ Lifecycle!InFixing(held[p])
    BY <1>7, AppliesInFixing DEF Replace, GoesOn
  <2>2. held[p] \notin fixed
    BY <1>7, FixedIsLifecycle DEF Replace, GoesOn, SoloInv, StartInv
  <2>3. fixed' = fixed \cup {held[p]}
    <3> DEFINE new == [ticket |-> held[p], by |-> p,
                       was |-> disk[about[held[p]]], now |-> draft[p].after]
    <3>1. new.ticket = held[p] /\ written' = written \cup {new}
      BY <1>7 DEF Replace
    <3> HIDE DEF new
    <3>2. QED
      BY <3>1
  <2>4. Lifecycle!Fix(held[p])
    BY <1>7, <2>1, <2>2, <2>3 DEF Replace, Lifecycle!Fix
  <2>5. QED
    BY <2>1, <2>4 DEF Lifecycle!Next, Lifecycle!Fix
<1>8. ASSUME NEW p \in Process, Settle(p) PROVE Lifecycle!Next
  <2>1. held[p] \in Ticket /\ Lifecycle!InFixing(held[p])
    BY <1>8, AppliesInFixing DEF Settle
  <2>2. held[p] \in fixed
    BY <1>8 DEF Settle, FixInv
  <2>3. Lifecycle!Settle(held[p])
    BY <1>8, <2>1, <2>2 DEF Settle, UpdateStatus, Lifecycle!Settle,
        Lifecycle!Moves
  <2>4. QED
    BY <2>1, <2>3 DEF Lifecycle!Next
<1>9. ASSUME NEW p \in Process, Fail(p) PROVE Lifecycle!Next
  <2>1. held[p] \in Ticket /\ Lifecycle!InFixing(held[p])
    BY <1>9, AppliesInFixing DEF Fail
  <2>2. held[p] \notin fixed
    BY <1>9, FixedIsLifecycle DEF Fail, SoloInv, StartInv
  <2>3. Lifecycle!Settle(held[p])
    BY <1>9, <2>1, <2>2 DEF Fail, UpdateStatus, Lifecycle!Settle,
        Lifecycle!Moves
  <2>4. QED
    BY <2>1, <2>3 DEF Lifecycle!Next
<1>10. QED
  BY <1>1, <1>2, <1>3, <1>4, <1>5, <1>6, <1>7, <1>8, <1>9
  DEF vars, Next, ProcessTicket, Decide, Apply, Classify, SetClassification,
      Propose, ProposeNothing, StoreProposal, SetProposal, Open, CheckFix,
      ReplaceFails, SaveDiff, Edit, Abort

(***************************************************************************)
(* With one operator, the pipeline implements TicketLifecycle.             *)
(***************************************************************************)
THEOREM PipelineImplementsLifecycle ==
  SingleOperator => (Spec => ImplementsLifecycle)
<1> SUFFICES ASSUME SingleOperator
             PROVE  Spec => ImplementsLifecycle
  OBVIOUS
<1>1. Init => Lifecycle!Init
  BY DEF Init, QueueInit, Lifecycle!Init
<1>2. IInv /\ SoloInv /\ [Next]_vars => [Lifecycle!Next]_(Lifecycle!vars)
  BY NextIsLifecycleNext
<1>3. QED
  BY <1>1, <1>2, IInvHolds, SoloInvHolds, PTL
  DEF Spec, ImplementsLifecycle, Lifecycle!Spec

===============================================================================
