----------------------------- MODULE FactoryChat ------------------------------
(***************************************************************************)
(* specora factory chat (factory/cli/chat.py): a conversation in which the *)
(* model proposes new entities and changes to contracts by tool calls, the *)
(* person confirms them, and the result of every call goes back to the     *)
(* model. A change runs specora factory refine (factory/cli/refine.py).    *)
(* Meanwhile others, an editor or the healer, write the same files.        *)
(***************************************************************************)
EXTENDS Naturals, Sequences, FiniteSets

CONSTANTS
  MaxMessages,   \* bound: length of the conversation
  MaxTools,      \* bound: tool calls in one answer
  MaxVersion     \* bound: versions of files

ASSUME ChatAssumption ==
  /\ MaxMessages \in Nat /\ MaxTools \in Nat \ {0} /\ MaxVersion \in Nat

VARIABLES
  messages,      \* the conversation: roles, and the tool calls of a message
  step,          \* what the command is doing
  calls,         \* tool calls of the answer still to execute
  results,       \* results of those executed
  stored,        \* the version of each contract of an entity, 0 where there is none
  version,       \* the last version anybody wrote
  seen,          \* refine: the version read and sent to the model
  made,          \* refine: the version written
  refused,       \* history: the person refused what the last refine made
  touched,       \* files the current tool call wrote
  recorded       \* the diffs of refine: versions before and after

chatVars ==
  <<messages, step, calls, results, stored, version, seen, made, refused, touched, recorded>>

\* The contracts of one entity, in the order propose_entity writes them.
Contracts == <<"entity", "route", "page">>

Written == {Contracts[i] : i \in DOMAIN Contracts}

Tools == {"propose_entity", "propose_modification", "validate_domain"}

\* What a result tells the model: that nothing was changed, or what was.
Denials == {"rejected", "declined", "validated"}

Texts == Denials \cup {"created", "modified", "completed", "failed"}

Roles == {"user", "calls", "results", "text"}

ChatTypeOK ==
  /\ messages \in Seq([role : Roles, tools : 0..MaxTools]) /\ Len(messages) <= MaxMessages + 3
  /\ step \in {"input", "ask", "tool", "propose", "write", "modify", "refine", "confirm", "record", "ended"}
  /\ calls \in Seq(Tools) /\ results \in Seq(Texts)
  /\ stored \in [Written -> 0..version] /\ version \in 0..MaxVersion
  /\ {seen, made} \subseteq 0..version
  /\ refused \in BOOLEAN /\ touched \subseteq Written
  /\ recorded \subseteq (0..version) \X (0..version)

ChatInit ==
  /\ messages = <<>> /\ step = "input" /\ calls = <<>> /\ results = <<>>
  /\ version \in {0, 1}
  /\ stored = [c \in Written |-> version]
  /\ seen = 0 /\ made = 0 /\ refused = FALSE /\ touched = {} /\ recorded = {}

Message(role, n) == [role |-> role, tools |-> n]

Conversation == <<messages, calls, results>>
Refining == <<seen, made, refused>>
Disk == <<stored, version, recorded>>

\* Somebody writes version + 1 of a contract.
Write(c) ==
  /\ version < MaxVersion
  /\ version' = version + 1
  /\ stored' = [stored EXCEPT ![c] = version + 1]

-------------------------------------------------------------------------------
(***************************************************************************)
(* The turn of the person, and the answer of the model.                    *)
(***************************************************************************)
Type ==
  /\ step = "input" /\ Len(messages) < MaxMessages
  /\ messages' = Append(messages, Message("user", 0))
  /\ step' = "ask"
  /\ UNCHANGED <<calls, results, Refining, touched, Disk>>

\* An empty answer is not kept.
AnswerInWords ==
  /\ step = "ask"
  /\ \E empty \in BOOLEAN :
       messages' = IF empty THEN messages ELSE Append(messages, Message("text", 0))
  /\ step' = "input"
  /\ UNCHANGED <<calls, results, Refining, touched, Disk>>

AnswerInCalls ==
  /\ step = "ask" /\ Len(messages) < MaxMessages
  /\ \E n \in 1..MaxTools : calls' \in [1..n -> Tools]
  /\ results' = <<>>
  /\ step' = "tool"
  /\ UNCHANGED <<messages, Refining, touched, Disk>>

\* engine.chat raises: the message of the person is taken back if it is the last one.
ModelFails ==
  /\ step = "ask"
  /\ messages' = IF messages[Len(messages)].role = "user"
                 THEN SubSeq(messages, 1, Len(messages) - 1) ELSE messages
  /\ step' = "input"
  /\ UNCHANGED <<calls, results, Refining, touched, Disk>>

\* Ctrl-D, exit, or Ctrl-C where nobody catches it.
End ==
  /\ step # "ended"
  /\ step' = "ended"
  /\ UNCHANGED <<Conversation, Refining, touched, Disk>>

-------------------------------------------------------------------------------
(***************************************************************************)
(* _execute_tool. Every path leaves a result; when the last call has its   *)
(* own, the calls and the results are added to the conversation together.  *)
(***************************************************************************)
Result(text) ==
  /\ results' = Append(results, text)
  /\ IF Len(results) + 1 < Len(calls)
     THEN step' = "tool" /\ UNCHANGED <<messages, calls>>
     ELSE /\ messages' = messages \o <<Message("calls", Len(calls)), Message("results", Len(calls))>>
          /\ calls' = calls
          /\ step' = "ask"

Stand(place) == step' = place /\ UNCHANGED Conversation

Tool == calls[Len(results) + 1]

ValidateDomain ==
  /\ step = "tool" /\ Tool = "validate_domain"
  /\ Result("validated") /\ touched' = {}
  /\ UNCHANGED <<Refining, Disk>>

\* Names and contents are checked, then that none of the three files is there.
ProposeEntity ==
  /\ step = "tool" /\ Tool = "propose_entity"
  /\ touched' = {}
  /\ \/ Result("rejected")
     \/ (\A c \in Written : stored[c] = 0) /\ Stand("propose")
  /\ UNCHANGED <<Refining, Disk>>

Decline ==
  /\ step \in {"propose", "modify"}
  /\ Result("declined")
  /\ UNCHANGED <<Refining, touched, Disk>>

Agree ==
  /\ step \in {"propose", "modify"}
  /\ Stand(IF step = "propose" THEN "write" ELSE "refine")
  /\ UNCHANGED <<Refining, touched, Disk>>

WriteProposed ==
  /\ step = "write"
  /\ LET c == Contracts[Cardinality(touched) + 1]
     IN  /\ Write(c) /\ touched' = touched \cup {c}
         /\ IF Cardinality(touched) + 1 < Len(Contracts) THEN Stand("write") ELSE Result("created")
  /\ UNCHANGED <<Refining, recorded>>

\* An exception from write_atomic or the diff store is caught and told.
WriteFails ==
  /\ step \in {"write", "confirm", "record"}
  /\ Result("failed")
  /\ UNCHANGED <<Refining, touched, Disk>>

-------------------------------------------------------------------------------
(***************************************************************************)
(* _propose_modification of the entity's contract, and factory_refine.     *)
(***************************************************************************)
ProposeModification ==
  /\ step = "tool" /\ Tool = "propose_modification"
  /\ touched' = {}
  /\ IF stored["entity"] = 0 THEN Result("rejected") ELSE Result("rejected") \/ Stand("modify")
  /\ UNCHANGED <<Refining, Disk>>

Read ==
  /\ step = "refine"
  /\ seen' = stored["entity"] /\ refused' = FALSE
  /\ Stand("confirm")
  /\ UNCHANGED <<made, touched, Disk>>

(***************************************************************************)
(* The model fails or its contract will not do: refine exits and chat      *)
(* takes that for "Modification completed.". The person refuses what the   *)
(* model made: refine returns, and chat says "Modified".                   *)
(***************************************************************************)
\* mutant: one answer, however refine ended.
RefineExitsUnnoticed ==
  /\ step = "confirm"
  /\ Result("modified")
  /\ UNCHANGED <<Refining, touched, Disk>>

RefineExits ==
  /\ step = "confirm"
  /\ Result("completed")
  /\ UNCHANGED <<Refining, touched, Disk>>

RefuseRefinement ==
  /\ step = "confirm"
  /\ refused' = TRUE
  /\ Result("modified")
  /\ UNCHANGED <<seen, made, touched, Disk>>

Apply ==
  /\ step = "confirm"
  /\ Write("entity") /\ touched' = {"entity"} /\ made' = version + 1
  /\ Stand("record")
  /\ UNCHANGED <<seen, refused, recorded>>

\* The diff is between what was read and what was written.
RecordDiff ==
  /\ step = "record"
  /\ recorded' = recorded \cup {<<seen, made>>}
  /\ Result("modified")
  /\ UNCHANGED <<Refining, touched, stored, version>>

\* Somebody else creates or changes a contract.
Meanwhile ==
  /\ step # "ended"
  /\ \E c \in Written : Write(c)
  /\ UNCHANGED <<Conversation, step, Refining, touched, recorded>>

ChatNext ==
  \/ Type \/ AnswerInWords \/ AnswerInCalls \/ ModelFails \/ End
  \/ ValidateDomain
  \/ ProposeEntity \/ Decline \/ Agree \/ WriteProposed \/ WriteFails
  \/ ProposeModification \/ Read \/ RefineExits \/ RefuseRefinement \/ Apply \/ RecordDiff
  \/ Meanwhile

ChatSpec == ChatInit /\ [][ChatNext]_chatVars

-------------------------------------------------------------------------------
(***************************************************************************)
(* Of all that the model is told about files, one thing is false: a        *)
(* refinement that the person refused is reported as "Modified" although   *)
(* it wrote nothing (_propose_modification takes any return of refine for  *)
(* success). Otherwise a call reported as rejected, declined, validated or *)
(* completed wrote nothing, "Created" wrote all three contracts, and       *)
(* "Modified" wrote the entity's contract and put the diff from what       *)
(* refine read to what it wrote on record ("Every accepted refinement      *)
(* produces a ContractDiff", cli-reference.md). An error promises nothing. *)
(***************************************************************************)
Report == results'[Len(results')]

OnlyRefusalsMislead ==
  [][Len(results') > Len(results) =>
       /\ Report \in Denials \cup {"completed"} => touched' = {}
       /\ Report = "created" => touched' = Written
       /\ Report = "modified" =>
            IF refused' THEN touched' = {}
            ELSE touched' = {"entity"} /\ <<seen, made>> \in recorded']_chatVars

===============================================================================
