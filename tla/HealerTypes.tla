----------------------------- MODULE HealerTypes -----------------------------
(***************************************************************************)
(* The data that flows through the Healer: tickets, their statuses and     *)
(* classifications, contracts and the fixes proposed for them              *)
(* (healer/models.py, healer/analyzer/classifier.py, healer/proposer).     *)
(*                                                                         *)
(* The text of an error is kept only as the classification it gets, and    *)
(* the text of a contract as a member of Content: the Healer compares      *)
(* contents, validates them and normalizes them, nothing else.             *)
(***************************************************************************)
EXTENDS Naturals

CONSTANTS
  Ticket,       \* the tickets that may ever be enqueued
  Contract,     \* the contract files, named by FQN
  NoContract,   \* the contract_fqn of a ticket that names no contract
  Content,      \* what a contract file may hold
  Missing,      \* the state of a contract file that does not exist
  Valid,        \* the contents validate_contract accepts
  Normal,       \* the content normalization makes of each content
  ErrorClass,   \* the classifications of the errors that are reported
  Threshold,    \* least confidence that is applied unattended, in tenths
  None          \* no ticket, no proposal

(***************************************************************************)
(* Ticket statuses, and the three a ticket is resolved in.                 *)
(***************************************************************************)
Status ==
  {"queued", "analyzing", "proposed", "approved",
   "applied", "failed", "rejected"}

Terminal == {"applied", "failed", "rejected"}

(***************************************************************************)
(* Priorities by their sort key: the queue serves the least first.         *)
(***************************************************************************)
Critical == 0
High     == 1
Medium   == 2
Low      == 3

(***************************************************************************)
(* Every outcome the classifier can return, by the source of the error.    *)
(***************************************************************************)
OfValidation ==
  [tier : {1}, prio : {High}, fixable : {"contract"}]
    \cup [tier : {2}, prio : {High, Medium}, fixable : {"contract"}]

OfRuntime ==
  [tier : {3}, prio : {Critical, High},
   fixable : {"contract", "generator", "data"}]

OfCompilation == [tier : {2}, prio : {Critical, High}, fixable : {"contract"}]

OfManual == [tier : {2}, prio : {Medium}, fixable : {"unknown"}]

Classification == OfValidation \cup OfRuntime \cup OfCompilation \cup OfManual

(***************************************************************************)
(* A proposal replaces the content it was computed from by another one.    *)
(* The normalizer is certain of its proposals; a model's are scored by     *)
(* the tier of the ticket.                                                 *)
(***************************************************************************)
Proposal ==
  [before : Content, after : Content, method : {"deterministic", "llm"}]

Confidence(proposal, tier) ==
  IF proposal.method = "deterministic" THEN 10
  ELSE IF tier = 2 THEN 7 ELSE 5

ASSUME ContentAssumption ==
  /\ Valid \subseteq Content
  /\ Normal \in [Content -> Content]
  /\ Missing \notin Content

ASSUME SentinelAssumption ==
  /\ NoContract \notin Contract
  /\ None \notin Ticket
  /\ None \notin Proposal
  /\ None \notin ErrorClass

ASSUME ErrorClassAssumption == ErrorClass \subseteq Classification

ASSUME ThresholdAssumption == Threshold \in Nat
==============================================================================
