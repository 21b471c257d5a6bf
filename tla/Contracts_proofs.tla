--------------------------- MODULE Contracts_proofs ---------------------------
(***************************************************************************)
(* What works on contracts beside the compiler: the history of their       *)
(* changes, and the factory that writes them with a person.                *)
(***************************************************************************)
EXTENDS DiffStore, FactoryChat, FactoryInterview,
        FiniteSetTheorems, Induction, TLAPS

(***************************************************************************)
(* The diff store for any number of savers, diffs and crashes.             *)
(***************************************************************************)

(***************************************************************************)
(* Who is past the record has it on disk, and nobody keeps a copy of the   *)
(* index unless he is about to write it.                                   *)
(***************************************************************************)
MemoryInv ==
  \A s \in Saver :
    /\ pc[s] # "idle" => held[s] \in Diff
    /\ pc[s] \in {"load"} \cup HasIndex => held[s] \in files
    /\ pc[s] \notin HasIndex => memory[s] = {}

StoreInv == TypeOK /\ MemoryInv /\ ListedIsStored

(***************************************************************************)
(* StoreInv holds at the start, and every step keeps it.                   *)
(***************************************************************************)
LEMMA InitEstablishesStoreInv ==
  ASSUME Init
  PROVE  StoreInv
BY StoreAssumption
DEF Init, StoreInv, TypeOK, MemoryInv, ListedIsStored, HasIndex

LEMMA NextKeepsStoreInv ==
  ASSUME StoreInv, [Next]_vars
  PROVE  StoreInv'
<1> USE DEF StoreInv, TypeOK, MemoryInv, ListedIsStored, HasIndex, GoesOn
<1>1. ASSUME NEW s \in Saver, NEW d \in Diff, Save(s, d) PROVE StoreInv'
  BY <1>1 DEF Save
<1>2. ASSUME NEW s \in Saver, WriteRecord(s) PROVE StoreInv'
  BY <1>2 DEF WriteRecord
<1>3. ASSUME NEW s \in Saver, LoadIndex(s) PROVE StoreInv'
  BY <1>3 DEF LoadIndex
<1>4. ASSUME NEW s \in Saver, Truncate(s) PROVE StoreInv'
  BY <1>4 DEF Truncate
<1>5. ASSUME NEW s \in Saver, WriteIndex(s) PROVE StoreInv'
  BY <1>5 DEF WriteIndex
<1>6. ASSUME NEW s \in Saver, Crash(s) PROVE StoreInv'
  BY <1>6 DEF Crash
<1>7. CASE UNCHANGED vars
  BY <1>7 DEF vars
<1>8. QED
  BY <1>1, <1>2, <1>3, <1>4, <1>5, <1>6, <1>7 DEF Next

(***************************************************************************)
(* The inductive invariant holds for any number of savers, diffs and       *)
(* crashes.                                                                *)
(***************************************************************************)
THEOREM StoreInvHolds == Spec => []StoreInv
<1>1. Init => StoreInv
  BY InitEstablishesStoreInv
<1>2. StoreInv /\ [Next]_vars => StoreInv'
  BY NextKeepsStoreInv
<1>3. QED
  BY <1>1, <1>2, PTL DEF Spec

(***************************************************************************)
(* Neither the index nor a saver's copy of it ever lists a diff whose file *)
(* is not complete (DiffStore.save).                                       *)
(***************************************************************************)
THEOREM ListedDiffsAreStored == Spec => []ListedIsStored
<1>1. StoreInv => ListedIsStored
  BY DEF StoreInv
<1>2. QED
  BY <1>1, StoreInvHolds, PTL

(***************************************************************************)
(* While nothing has been disturbed, one saver at most has the index in    *)
(* hand. Until he writes it, what was saved is in the index and in his     *)
(* copy; once he has emptied the file, it is in his copy alone.            *)
(***************************************************************************)
TurnInv ==
  ~disturbed =>
    /\ \A s, r \in Saver :
         pc[s] \in HasIndex /\ pc[r] \in HasIndex => s = r
    /\ \A s \in Saver :
         pc[s] \in HasIndex => saved \cup {held[s]} \subseteq memory[s]
    /\ \A s \in Saver : pc[s] = "write" => blank
    /\ (\A s \in Saver : pc[s] # "write") => saved \subseteq index

(***************************************************************************)
(* TurnInv holds at the start, and every step keeps it.                    *)
(***************************************************************************)
LEMMA InitEstablishesTurnInv ==
  ASSUME Init
  PROVE  TurnInv
BY DEF Init, TurnInv, HasIndex

LEMMA NextKeepsTurnInv ==
  ASSUME StoreInv, TurnInv, [Next]_vars
  PROVE  TurnInv'
<1> USE DEF StoreInv, TypeOK, MemoryInv, HasIndex, GoesOn, TurnInv
<1>1. ASSUME NEW s \in Saver, NEW d \in Diff, Save(s, d) PROVE TurnInv'
  BY <1>1 DEF Save
<1>2. ASSUME NEW s \in Saver, WriteRecord(s) PROVE TurnInv'
  BY <1>2 DEF WriteRecord
<1>3. ASSUME NEW s \in Saver, LoadIndex(s) PROVE TurnInv'
  BY <1>3 DEF LoadIndex
<1>4. ASSUME NEW s \in Saver, Truncate(s) PROVE TurnInv'
  BY <1>4 DEF Truncate
<1>5. ASSUME NEW s \in Saver, WriteIndex(s) PROVE TurnInv'
  BY <1>5 DEF WriteIndex
<1>6. ASSUME NEW s \in Saver, Crash(s) PROVE TurnInv'
  BY <1>6 DEF Crash
<1>7. CASE UNCHANGED vars
  BY <1>7 DEF vars
<1>8. QED
  BY <1>1, <1>2, <1>3, <1>4, <1>5, <1>6, <1>7 DEF Next

(***************************************************************************)
(* A saved diff is lost from the history only by a crash or by two savers  *)
(* who have the index in hand at a time (_load_index, _save_index).        *)
(***************************************************************************)
THEOREM OnlyOverlapsLoseHistory == Spec => []OnlyOverlapsLose
<1>1. Init => TurnInv
  BY InitEstablishesTurnInv
<1>2. StoreInv /\ TurnInv /\ [Next]_vars => TurnInv'
  BY NextKeepsTurnInv
<1>3. TurnInv => OnlyOverlapsLose
  BY DEF TurnInv, OnlyOverlapsLose, HasIndex
<1>4. QED
  BY <1>1, <1>2, <1>3, StoreInvHolds, PTL DEF Spec

-------------------------------------------------------------------------------
(***************************************************************************)
(* The factory's chat, for any length of a conversation and any number of  *)
(* calls and versions, and its interview, for any names, plurals, number   *)
(* of runs and files dropped.                                              *)
(***************************************************************************)

(***************************************************************************)
(* What a tool call has written when the person is asked, when the files   *)
(* of an entity are written one by one, and when refine reads and asks.    *)
(***************************************************************************)
ChatInv ==
  /\ results \in Seq(Texts)
  /\ step \in {"propose", "modify", "refine", "confirm"} => touched = {}
  /\ step = "confirm" => ~refused
  /\ step = "record" => ~refused /\ touched = {"entity"}
  /\ step = "write" => touched \in {{}, {"entity"}, {"entity", "route"}}

LEMMA WrittenInOrder ==
  /\ Len(Contracts) = 3 /\ Written = {"entity", "route", "page"}
  /\ Cardinality({}) = 0 /\ Cardinality({"entity"}) = 1
  /\ Cardinality({"entity", "route"}) = 2
  /\ Contracts[1] = "entity" /\ Contracts[2] = "route" /\ Contracts[3] = "page"
<1>1. Contracts = <<"entity", "route", "page">>
  BY DEF Contracts
<1>2. Cardinality({}) = 0
  BY FS_EmptySet
<1>3. IsFiniteSet({"entity"}) /\ Cardinality({"entity"}) = 1
  BY FS_Singleton
<1>4. {"entity", "route"} = {"entity"} \cup {"route"} /\ "route" \notin {"entity"}
  OBVIOUS
<1>5. Cardinality({"entity", "route"}) = 2
  BY <1>3, <1>4, FS_AddElement
<1>6. DOMAIN Contracts = 1..3
  BY <1>1
<1>7. Written = {"entity", "route", "page"}
  BY <1>1, <1>6 DEF Written
<1>8. QED
  BY <1>1, <1>2, <1>3, <1>5, <1>7

(***************************************************************************)
(* A result is the last of the results, and there is one more of them.     *)
(***************************************************************************)
LEMMA ResultIsReported ==
  ASSUME ChatInv, NEW text \in Texts, Result(text)
  PROVE  /\ results' \in Seq(Texts) /\ Report = text
         /\ step' \in {"tool", "ask"}
BY DEF ChatInv, Result, Report

LEMMA NothingReported ==
  ASSUME ChatInv, UNCHANGED results \/ results' = <<>>
  PROVE  results' \in Seq(Texts) /\ ~(Len(results') > Len(results))
<1>1. results \in Seq(Texts) /\ Len(results) \in Nat
  BY DEF ChatInv
<1>2. <<>> \in Seq(Texts) /\ Len(<<>>) = 0
  OBVIOUS
<1>3. CASE UNCHANGED results
  BY <1>1, <1>3
<1>4. CASE results' = <<>>
  <2>1. Len(results') = 0 /\ results' \in Seq(Texts)
    BY <1>2, <1>4
  <2>2. QED
    BY <1>1, <2>1
<1>5. QED
  BY <1>3, <1>4

ReportIsTrue ==
  Len(results') > Len(results) =>
    /\ Report \in Denials \cup {"completed"} => touched' = {}
    /\ Report = "created" => touched' = Written
    /\ Report = "modified" =>
         IF refused' THEN touched' = {}
         ELSE touched' = {"entity"} /\ <<seen, made>> \in recorded'

LEMMA ChatStart == ChatInit => ChatInv
<1>1. <<>> \in Seq(Texts)
  OBVIOUS
<1>2. QED
  BY <1>1 DEF ChatInit, ChatInv

LEMMA ChatStep ==
  ASSUME ChatInv, [ChatNext]_chatVars
  PROVE  ChatInv' /\ ReportIsTrue
<1> USE DEF Conversation, Refining, Disk
<1>1. CASE Type \/ AnswerInWords \/ AnswerInCalls \/ ModelFails \/ End
  <2>1. (UNCHANGED results \/ results' = <<>>) /\ step' \in {"ask", "input", "tool", "ended"}
    BY <1>1 DEF Type, AnswerInWords, AnswerInCalls, ModelFails, End
  <2>2. QED
    BY <2>1, NothingReported DEF ChatInv, ReportIsTrue
<1>2. ASSUME NEW text \in Texts, Result(text),
             text \in Denials \cup {"completed"} => touched' = {}, text # "created",
             text = "modified" =>
               IF refused' THEN touched' = {}
               ELSE touched' = {"entity"} /\ <<seen, made>> \in recorded'
      PROVE  ChatInv' /\ ReportIsTrue
  BY <1>2, ResultIsReported DEF ChatInv, ReportIsTrue
<1>3. ASSUME NEW place \in {"propose", "modify", "refine", "confirm", "record"}, Stand(place),
             IF place = "record" THEN touched' = {"entity"} ELSE touched' = {},
             place \in {"confirm", "record"} => ~refused'
      PROVE  ChatInv' /\ ReportIsTrue
  <2>1. UNCHANGED results /\ step' = place
    BY <1>3 DEF Stand
  <2>2. QED
    BY <1>3, <2>1, NothingReported DEF ChatInv, ReportIsTrue
<1>4. CASE ValidateDomain
  BY <1>2, <1>4 DEF ValidateDomain, Denials, Texts
<1>5. CASE ProposeEntity
  BY <1>2, <1>3, <1>5 DEF ProposeEntity, Denials, Texts
<1>6. CASE Decline
  BY <1>2, <1>6 DEF Decline, Denials, Texts, ChatInv
<1>7. CASE Agree
  <2>1. touched' = {} /\ (step' = "write" \/ step' = "refine") /\ UNCHANGED results
    BY <1>7 DEF Agree, ChatInv, Stand
  <2>2. QED
    BY <2>1, NothingReported DEF ChatInv, ReportIsTrue
<1>8. CASE WriteProposed
  <2>1. PICK c : c = Contracts[Cardinality(touched) + 1]
    OBVIOUS
  <2>2. /\ touched \in {{}, {"entity"}, {"entity", "route"}} /\ touched' = touched \cup {c}
        /\ IF Cardinality(touched) + 1 < Len(Contracts) THEN Stand("write") ELSE Result("created")
    BY <1>8, <2>1 DEF WriteProposed, ChatInv
  <2>3. CASE touched = {"entity", "route"}
    <3>1. Result("created") /\ touched' = Written
      BY <2>1, <2>2, <2>3, WrittenInOrder
    <3>2. "created" \in Texts /\ "created" \notin Denials
      BY DEF Texts, Denials
    <3>3. QED
      BY <3>1, <3>2, ResultIsReported DEF ChatInv, ReportIsTrue
  <2>4. CASE touched \in {{}, {"entity"}}
    <3>1. Stand("write") /\ touched' \in {{}, {"entity"}, {"entity", "route"}}
      BY <2>1, <2>2, <2>4, WrittenInOrder
    <3>2. QED
      BY <3>1, NothingReported DEF Stand, ChatInv, ReportIsTrue
  <2>5. QED
    BY <2>2, <2>3, <2>4
<1>9. CASE WriteFails
  BY <1>2, <1>9 DEF WriteFails, Denials, Texts
<1>10. CASE ProposeModification
  <2>1. touched' = {} /\ (Result("rejected") \/ Stand("modify"))
    BY <1>10 DEF ProposeModification
  <2>2. QED
    BY <1>2, <1>3, <2>1 DEF Denials, Texts
<1>11. CASE Read
  BY <1>3, <1>11 DEF Read, ChatInv
<1>12. CASE RefineExits \/ RefuseRefinement
  <2>1. CASE RefineExits
    BY <1>2, <2>1 DEF RefineExits, ChatInv, Denials, Texts
  <2>2. CASE RefuseRefinement
    BY <1>2, <2>2 DEF RefuseRefinement, ChatInv, Denials, Texts
  <2>3. QED
    BY <1>12, <2>1, <2>2
<1>13. CASE Apply
  BY <1>3, <1>13 DEF Apply, ChatInv
<1>14. CASE RecordDiff
  BY <1>2, <1>14 DEF RecordDiff, ChatInv, Denials, Texts
<1>15. CASE Meanwhile \/ UNCHANGED chatVars
  <2>1. UNCHANGED <<results, step, refused, touched>>
    BY <1>15 DEF Meanwhile, chatVars
  <2>2. QED
    BY <2>1, NothingReported DEF ChatInv, ReportIsTrue
<1>16. QED
  BY <1>1, <1>4, <1>5, <1>6, <1>7, <1>8, <1>9, <1>10, <1>11, <1>12, <1>13, <1>14, <1>15
     DEF ChatNext

(***************************************************************************)
(* What the model is told was done to the files was done, except that it   *)
(* is told "Modified" of a refinement the person refused, however long the *)
(* conversation is and whatever others write meanwhile (_execute_tool,     *)
(* factory_refine).                                                        *)
(***************************************************************************)
THEOREM OnlyRefusalsMisleadTheModel == ChatSpec => OnlyRefusalsMislead
<1>1. ChatInit => ChatInv
  BY ChatStart
<1>2. ChatInv /\ [ChatNext]_chatVars => ChatInv' /\ [ReportIsTrue]_chatVars
  BY ChatStep
<1>3. QED
  BY <1>1, <1>2, PTL DEF ChatSpec, OnlyRefusalsMislead, ReportIsTrue

-------------------------------------------------------------------------------
(***************************************************************************)
(* The interview. The session of a run is the saved one from the first     *)
(* answer on, or has nothing in it yet, and the phase of the saved one     *)
(* says where the run is.                                                  *)
(***************************************************************************)
Phase == {"absent", "", "entities", "workflows", "emit"}

SessionType ==
  [phase : Phase, found : Seq(Entity), answers : UNION {[E -> Knowledge] : E \in SUBSET Entity},
   cycles : SUBSET Entity, machines : SUBSET Entity]

Saved(s) == s \in SessionType /\ s.answers \in [Range(s.found) -> Knowledge]

SessionInv ==
  /\ run \in {"off", "resume", "domain", "entities", "workflows", "emit", "write", "created"}
  /\ Saved(session) /\ Saved(file)
  /\ file.phase = "absent" => file = Absent
  /\ file.phase = "" => file = Blank
  /\ run = "off" => session \in {Blank, file}
  /\ run \in {"resume", "domain"} => session = Blank
  /\ run = "resume" => file.phase # "absent"
  /\ run = "domain" => file.phase \in {"absent", ""}
  /\ run \in {"entities", "workflows", "emit"} => session = file /\ file.phase = run
  /\ run = "write" => session = file /\ file.phase = "emit"

(***************************************************************************)
(* What is still to be written of the accepted files is ahead in the list. *)
(***************************************************************************)
WriteInv ==
  /\ DOMAIN draft \subseteq Path /\ disk = [p \in Path |-> disk[p]]
  /\ HalfWrittenResumes
  /\ run = "write" => \A p \in Pending : \E i \in ToWrite : Listing(session)[i] = p

InterviewInv == at \in Nat /\ SessionInv /\ WriteInv

Keeps(known, machines) == known \subseteq Known(file') /\ machines \subseteq file'.machines

KeepsAnswers ==
  \/ StartAfresh \/ Finish \/ run = "created"
  \/ Keeps(Known(session) \cup Known(file), session.machines \cup file.machines)

LEMMA NothingKnown ==
  /\ Saved(Blank) /\ Known(Blank) = {} /\ Blank.machines = {} /\ Blank.phase = ""
  /\ Saved(Absent) /\ Known(Absent) = {} /\ Absent.machines = {} /\ Absent.phase = "absent"
<1>1. PICK none : none = <<>>
  OBVIOUS
<1>2. none \in Seq(Entity) /\ DOMAIN none = {} /\ Range(none) = {}
  BY <1>1 DEF Range
<1>3. none \in [{} -> Knowledge]
  BY <1>1
<1>4. none \in UNION {[E -> Knowledge] : E \in SUBSET Entity}
  BY <1>3
<1>5. Blank = [phase |-> "", found |-> none, answers |-> none, cycles |-> {}, machines |-> {}]
  BY <1>1 DEF Blank
<1>6. /\ Blank \in SessionType /\ Blank.phase = "" /\ Blank.found = none
      /\ Blank.answers = none /\ Blank.machines = {}
  BY <1>2, <1>4, <1>5 DEF SessionType, Phase
<1>7. /\ Absent \in SessionType /\ Absent.phase = "absent" /\ Absent.found = none
      /\ Absent.answers = none /\ Absent.machines = {}
  BY <1>6 DEF SessionType, Phase, Absent
<1>8. QED
  BY <1>2, <1>3, <1>6, <1>7 DEF Saved, Known

LEMMA ListingTypes ==
  ASSUME NEW s, s.found \in Seq(Entity)
  PROVE  /\ DOMAIN Listing(s) \subseteq Nat
         /\ \A k \in DOMAIN Listing(s) : k >= 1 /\ 1..k - 1 \subseteq DOMAIN Listing(s)
         /\ \A k \in DOMAIN Listing(s) : Listing(s)[k] \in Path
<1> DEFINE n == Len(s.found)
<1>1. n \in Nat /\ \A k \in 1..n : s.found[k] \in Entity
  OBVIOUS
<1>2. DOMAIN Listing(s) = 1..4 * n
  BY DEF Listing
<1>3. ASSUME NEW k \in 1..4 * n
      PROVE  Listing(s)[k] \in Path
  <2>1. CASE k <= n
    BY <1>1, <2>1 DEF Listing, Path
  <2>2. CASE k > n /\ k <= 2 * n
    <3>1. k - n \in 1..n /\ k \in 1..4 * n /\ ~(k <= n)
      BY <1>1, <2>2
    <3>2. Listing(s)[k] = <<"workflows", s.found[k - n]>>
      BY <1>1, <2>2, <3>1, Zenon DEF Listing
    <3>3. QED
      BY <1>1, <3>1, <3>2 DEF Path
  <2>3. CASE k > 2 * n
    <3>1. PICK j : j = (k - 2 * n + 1) \div 2
      OBVIOUS
    <3>2. j \in 1..n
      <4>1. \A e \in 2..2 * n + 1 : e \div 2 \in 1..n
        BY <1>1
      <4>2. k - 2 * n + 1 \in 2..2 * n + 1
        BY <1>1, <2>3
      <4>3. QED
        BY <3>1, <4>1, <4>2, Zenon
    <3>3. PICK kind : kind = IF k % 2 = 1 THEN "routes" ELSE "pages"
      OBVIOUS
    <3>4. Listing(s)[k] = <<kind, PluralOf[s.found[j]]>>
      BY <1>1, <2>3, <3>1, <3>3 DEF Listing
    <3>5. PluralOf[s.found[j]] \in Route
      BY <1>1, <3>2, InterviewAssumption DEF InterviewAssumption
    <3>6. QED
      BY <3>3, <3>4, <3>5 DEF Path
  <2>4. QED
    BY <1>1, <2>1, <2>2, <2>3
<1>4. QED
  BY <1>1, <1>2, <1>3

-------------------------------------------------------------------------------
(***************************************************************************)
(* Steps that change no file: they keep the saved session, or nothing was  *)
(* half written.                                                           *)
(***************************************************************************)
LEMMA FilesKept ==
  ASSUME WriteInv, UNCHANGED Files, run' \notin {"created", "write"},
         file' = file \/ file.phase # "emit"
  PROVE  WriteInv'
<1>1. UNCHANGED <<draft, disk>> /\ Pending' = Pending
  BY DEF Files, Pending
<1>2. HalfWrittenResumes'
  BY <1>1 DEF WriteInv, HalfWrittenResumes
<1>3. QED
  BY <1>1, <1>2 DEF WriteInv

LEMMA NoFiles ==
  ASSUME WriteInv, draft' = <<>>, disk' = disk, run' # "write"
  PROVE  WriteInv'
BY DEF WriteInv, HalfWrittenResumes, Pending

LEMMA StartRunStep ==
  ASSUME InterviewInv, StartRun
  PROVE  InterviewInv' /\ KeepsAnswers
<1>1. /\ session' = Blank /\ file' = file /\ UNCHANGED Files /\ at' = 1
      /\ run' = IF file = Absent THEN "domain" ELSE "resume"
      /\ run \in {"off", "created"}
  BY DEF StartRun, GoOn
<1>2. SessionInv'
  BY <1>1, NothingKnown DEF InterviewInv, SessionInv
<1>3. WriteInv'
  BY <1>1, FilesKept DEF InterviewInv
<1>4. KeepsAnswers
  BY <1>1, NothingKnown DEF InterviewInv, SessionInv, KeepsAnswers, Keeps
<1>5. QED
  BY <1>1, <1>2, <1>3, <1>4 DEF InterviewInv

LEMMA AgreeToResumeStep ==
  ASSUME InterviewInv, AgreeToResume
  PROVE  InterviewInv' /\ KeepsAnswers
<1>1. /\ session' = file /\ file' = file /\ UNCHANGED Files /\ at' = 1
      /\ run' = IF file.phase = "" THEN "domain" ELSE file.phase
      /\ run = "resume"
  BY DEF AgreeToResume, GoOn
<1>2. file.phase \in Phase
  BY DEF InterviewInv, SessionInv, Saved, SessionType
<1>3. SessionInv'
  BY <1>1, <1>2, NothingKnown DEF InterviewInv, SessionInv, Phase
<1>4. WriteInv'
  BY <1>1, <1>2, FilesKept DEF InterviewInv, Phase, SessionInv
<1>5. KeepsAnswers
  BY <1>1, NothingKnown DEF InterviewInv, SessionInv, KeepsAnswers, Keeps
<1>6. QED
  BY <1>1, <1>3, <1>4, <1>5 DEF InterviewInv

LEMMA StartAfreshStep ==
  ASSUME InterviewInv, StartAfresh
  PROVE  InterviewInv' /\ KeepsAnswers
<1>1. /\ session' = session /\ file' = Absent /\ draft' = <<>> /\ disk' = disk /\ at' = 1
      /\ run = "resume" /\ run' = "domain"
  BY DEF StartAfresh, GoOn
<1>2. SessionInv'
  BY <1>1, NothingKnown DEF InterviewInv, SessionInv
<1>3. WriteInv'
  BY <1>1, NoFiles DEF InterviewInv
<1>4. QED
  BY <1>1, <1>2, <1>3 DEF InterviewInv, KeepsAnswers

LEMMA DescribeDomainStep ==
  ASSUME InterviewInv, DescribeDomain
  PROVE  InterviewInv' /\ KeepsAnswers
<1>1. PICK found \in SetToAllKPermutations(Entity) :
        Keep([Blank EXCEPT !.phase = "entities", !.found = found,
                           !.answers = [e \in Range(found) |-> "asked"]])
  BY DEF DescribeDomain
<1>2. /\ run = "domain" /\ run' = "entities" /\ at' = 1
      /\ draft' = <<>> /\ disk' = disk
  BY DEF DescribeDomain, GoOn
<1>3. found \in Seq(Entity) /\ Range(found) \subseteq Entity
  <2>1. PICK E \in SUBSET Entity : found \in SetToSeqs(E)
    BY DEF SetToAllKPermutations
  <2>2. IsFiniteSet(E) /\ Cardinality(E) \in Nat
    BY InterviewAssumption, FS_Subset, FS_CardinalityType DEF InterviewAssumption
  <2>3. found \in [1..Cardinality(E) -> E]
    BY <2>1 DEF SetToSeqs
  <2>4. found \in Seq(Entity)
    BY <2>2, <2>3
  <2>5. Range(found) \subseteq Entity
    BY <2>3 DEF Range
  <2>6. QED
    BY <2>4, <2>5
<1>4. PICK answers : answers = [e \in Range(found) |-> "asked"]
  OBVIOUS
<1>5. PICK s : s = [Blank EXCEPT !.phase = "entities", !.found = found, !.answers = answers]
  OBVIOUS
<1>6. session' = s /\ file' = s
  BY <1>1, <1>4, <1>5 DEF Keep
<1>7. Saved(s)
  <2>1. answers \in [Range(found) -> Knowledge]
    BY <1>4 DEF Knowledge
  <2>2. answers \in UNION {[E -> Knowledge] : E \in SUBSET Entity}
    BY <1>3, <2>1
  <2>3. Blank \in SessionType
    BY NothingKnown DEF Saved
  <2>4. s \in SessionType /\ s.answers = answers /\ s.found = found
    BY <1>3, <1>5, <2>2, <2>3 DEF SessionType, Phase
  <2>5. QED
    BY <2>1, <2>4 DEF Saved
<1>8. s.phase = "entities"
  BY <1>5, NothingKnown DEF Saved, SessionType
<1>9. SessionInv'
  BY <1>2, <1>6, <1>7, <1>8 DEF SessionInv
<1>10. WriteInv'
  BY <1>2, NoFiles DEF InterviewInv
<1>11. KeepsAnswers
  BY <1>2, NothingKnown DEF InterviewInv, SessionInv, KeepsAnswers, Keeps
<1>12. QED
  BY <1>2, <1>9, <1>10, <1>11 DEF InterviewInv

(***************************************************************************)
(* The steps that keep the session as it is, and those that end a run.     *)
(***************************************************************************)
LEMMA RunEndsStep ==
  ASSUME InterviewInv, NameNothing \/ Interrupt \/ GiveUpEmitting \/ RunDies
  PROVE  InterviewInv' /\ KeepsAnswers
<1>1. /\ UNCHANGED Files /\ run' = "off" /\ at' = 1
      /\ run \notin {"off", "created"}
      /\ \/ session' \in {session, Blank} /\ file' = file
         \/ session' = session /\ file' = session /\ run \notin {"resume", "write"}
  BY DEF NameNothing, Interrupt, GiveUpEmitting, RunDies, Keep, GoOn
<1>2. session' \in {file, Blank} /\ session \in {file, Blank}
  BY <1>1 DEF InterviewInv, SessionInv
<1>3. file' \in {file, Blank} /\ (file' # file => file.phase \in {"absent", ""})
  BY <1>1, <1>2 DEF InterviewInv, SessionInv
<1>4. session' \in {file', Blank}
  BY <1>1, <1>2
<1>5. SessionInv'
  BY <1>1, <1>3, <1>4, NothingKnown DEF InterviewInv, SessionInv
<1>6. WriteInv'
  BY <1>1, <1>3, FilesKept DEF InterviewInv
<1>7. file.phase \in {"absent", ""} => Known(file) = {} /\ file.machines = {}
  BY NothingKnown DEF InterviewInv, SessionInv
<1>8. KeepsAnswers
  BY <1>2, <1>3, <1>7, NothingKnown DEF KeepsAnswers, Keeps
<1>9. QED
  BY <1>1, <1>5, <1>6, <1>8 DEF InterviewInv

(***************************************************************************)
(* An answer is added to the saved session, and a phase ends.              *)
(***************************************************************************)
LEMMA AnsweredKeeps ==
  ASSUME InterviewInv, run \in {"entities", "workflows"},
         NEW s, Saved(s), s.phase \in {"entities", "workflows", "emit"},
         Known(session) \subseteq Known(s), session.machines \subseteq s.machines,
         session' = s, file' = s, run' = s.phase, at' \in Nat, UNCHANGED Files
  PROVE  InterviewInv' /\ KeepsAnswers
<1>1. session = file /\ file.phase # "emit"
  BY DEF InterviewInv, SessionInv
<1>2. SessionInv'
  BY DEF InterviewInv, SessionInv
<1>3. WriteInv'
  BY <1>1, FilesKept DEF InterviewInv
<1>4. QED
  BY <1>1, <1>2, <1>3 DEF InterviewInv, KeepsAnswers, Keeps

LEMMA AskedInRange ==
  ASSUME InterviewInv, NEW i \in DOMAIN session.found
  PROVE  session.found[i] \in Entity /\ session.found[i] \in Range(session.found) /\ i \in Nat
<1>1. session.found \in Seq(Entity)
  BY DEF InterviewInv, SessionInv, Saved, SessionType
<1>2. QED
  BY <1>1 DEF Range

LEMMA DescribeEntityStep ==
  ASSUME InterviewInv, DescribeEntity
  PROVE  InterviewInv' /\ KeepsAnswers
<1>1. PICK i \in DOMAIN session.found, known \in {"bare", "fields"}, cycle \in BOOLEAN :
        LET e == session.found[i]
        IN  /\ Asked(i)
            /\ Answered(i, [session EXCEPT !.answers[e] = known,
                                           !.cycles = IF cycle THEN @ \cup {e} ELSE @ \ {e}])
  BY DEF DescribeEntity
<1>2. PICK e : e = session.found[i]
  OBVIOUS
<1>3. PICK answers : answers = [session.answers EXCEPT ![e] = known]
  OBVIOUS
<1>4. PICK cycles : cycles = IF cycle THEN session.cycles \cup {e} ELSE session.cycles \ {e}
  OBVIOUS
<1>5. PICK s : s = [session EXCEPT !.answers = answers, !.cycles = cycles]
  OBVIOUS
<1>6. /\ run = "entities" /\ run' = run /\ UNCHANGED Files /\ at' = i + 1
      /\ session' = s /\ file' = s
  BY <1>1, <1>2, <1>3, <1>4, <1>5 DEF DescribeEntity, Answered, Keep
<1>7. e \in Entity /\ e \in Range(session.found) /\ i \in Nat
  BY <1>2, AskedInRange
<1>8. Saved(session) /\ session.phase = "entities"
  BY <1>6 DEF InterviewInv, SessionInv
<1>9. session.answers[e] # "fields"
  BY <1>1, <1>2, <1>8 DEF Asked, Ahead, ToAsk
<1>10. answers \in [Range(session.found) -> Knowledge]
  BY <1>3, <1>7, <1>8 DEF Saved, Knowledge
<1>11. /\ s \in SessionType /\ s.answers = answers /\ s.found = session.found
       /\ s.machines = session.machines /\ s.phase = session.phase
  <2>1. Range(session.found) \subseteq Entity
    BY AskedInRange DEF Range
  <2>2. answers \in UNION {[E -> Knowledge] : E \in SUBSET Entity}
    BY <1>10, <2>1
  <2>3. cycles \in SUBSET Entity
    BY <1>4, <1>7, <1>8 DEF Saved, SessionType
  <2>4. QED
    BY <1>5, <1>8, <2>2, <2>3 DEF Saved, SessionType
<1>12. Saved(s)
  BY <1>10, <1>11 DEF Saved
<1>13. Known(session) \subseteq Known(s)
  BY <1>3, <1>8, <1>9, <1>11 DEF Known, Saved
<1>14. QED
  BY <1>6, <1>7, <1>8, <1>11, <1>12, <1>13, AnsweredKeeps

LEMMA DescribeWorkflowStep ==
  ASSUME InterviewInv, DescribeWorkflow
  PROVE  InterviewInv' /\ KeepsAnswers
<1>1. PICK i \in DOMAIN session.found :
        Answered(i, [session EXCEPT !.machines = @ \cup {session.found[i]}])
  BY DEF DescribeWorkflow
<1>2. PICK machines : machines = session.machines \cup {session.found[i]}
  OBVIOUS
<1>3. PICK s : s = [session EXCEPT !.machines = machines]
  OBVIOUS
<1>4. /\ run = "workflows" /\ run' = run /\ UNCHANGED Files /\ at' = i + 1
      /\ session' = s /\ file' = s
  BY <1>1, <1>2, <1>3 DEF DescribeWorkflow, Answered, Keep
<1>5. Saved(session) /\ session.phase = "workflows"
  BY <1>4 DEF InterviewInv, SessionInv
<1>6. machines \in SUBSET Entity /\ i \in Nat
  BY <1>2, <1>5, AskedInRange DEF Saved, SessionType
<1>7. /\ s \in SessionType /\ s.answers = session.answers /\ s.found = session.found
      /\ s.machines = machines /\ s.phase = session.phase
  BY <1>3, <1>5, <1>6 DEF Saved, SessionType
<1>8. Saved(s) /\ Known(s) = Known(session)
  BY <1>5, <1>7 DEF Saved, Known
<1>9. session.machines \subseteq s.machines /\ s.phase = run' /\ at' \in Nat
  BY <1>2, <1>4, <1>5, <1>6, <1>7
<1>10. QED
  BY <1>4, <1>5, <1>7, <1>8, <1>9, AnsweredKeeps

LEMMA EndPhaseStep ==
  ASSUME InterviewInv, EndPhase
  PROVE  InterviewInv' /\ KeepsAnswers
<1>1. PICK next : next = IF run = "entities" THEN "workflows" ELSE "emit"
  OBVIOUS
<1>2. PICK s : s = [session EXCEPT !.phase = next]
  OBVIOUS
<1>3. /\ run \in {"entities", "workflows"} /\ run' = next /\ UNCHANGED Files /\ at' = 1
      /\ session' = s /\ file' = s
  BY <1>1, <1>2 DEF EndPhase, Keep, GoOn
<1>4. Saved(session)
  BY DEF InterviewInv, SessionInv
<1>5. /\ s \in SessionType /\ s.answers = session.answers /\ s.found = session.found
      /\ s.machines = session.machines /\ s.phase = next
  BY <1>1, <1>2, <1>4 DEF Saved, SessionType, Phase
<1>6. Saved(s) /\ Known(s) = Known(session)
  BY <1>4, <1>5 DEF Saved, Known
<1>7. s.phase \in {"entities", "workflows", "emit"} /\ s.phase = run' /\ at' \in Nat
  BY <1>1, <1>3, <1>5
<1>8. QED
  BY <1>3, <1>5, <1>6, <1>7, AnsweredKeeps

-------------------------------------------------------------------------------
(***************************************************************************)
(* The files: accepted, written one after the other, and done.             *)
(***************************************************************************)
LEMMA AcceptStep ==
  ASSUME InterviewInv, Accept
  PROVE  InterviewInv' /\ KeepsAnswers
<1>1. PICK dropped : draft' = [p \in Emitted(session) \ dropped |-> About(session, p)]
  BY DEF Accept
<1>2. /\ run = "emit" /\ run' = "write" /\ at' = 1
      /\ UNCHANGED <<session, file, disk>>
  BY DEF Accept, GoOn
<1>3. session = file /\ file.phase = "emit" /\ session.found \in Seq(Entity)
  BY <1>2 DEF InterviewInv, SessionInv, Saved, SessionType
<1>4. SessionInv'
  BY <1>2, <1>3 DEF InterviewInv, SessionInv
<1>5. PICK listed : listed = Listing(session)
  OBVIOUS
<1>6. /\ DOMAIN listed \subseteq Nat
      /\ \A k \in DOMAIN listed : k >= 1 /\ 1..k - 1 \subseteq DOMAIN listed /\ listed[k] \in Path
  BY <1>3, <1>5, ListingTypes
<1>7. /\ DOMAIN draft' \subseteq Range(listed)
      /\ \A p \in DOMAIN draft' : draft'[p] = About(file, p)
  BY <1>1, <1>3, <1>5 DEF Emitted
<1>8. DOMAIN draft' \subseteq Path
  BY <1>6, <1>7 DEF Range
<1>9. ASSUME NEW p \in DOMAIN draft'
      PROVE  \E i \in ToWrite' : listed[i] = p
  <2> DEFINE T == {i \in DOMAIN listed : listed[i] = p}
  <2>1. T \in SUBSET Nat /\ T # {}
    BY <1>6, <1>7, <1>9 DEF Range
  <2>2. PICK i \in T : \A j \in T : i <= j
    BY <2>1, Least
  <2>3. i \in DOMAIN listed /\ listed[i] = p /\ i \in Nat /\ i >= 1
    BY <2>1, <2>2, <1>6
  <2>4. \A j \in 1..i - 1 : listed[j] # listed[i]
    <3> SUFFICES ASSUME NEW j \in 1..i - 1, listed[j] = listed[i] PROVE FALSE
      OBVIOUS
    <3>1. j \in T /\ j < i
      BY <2>3, <1>6
    <3>2. QED
      BY <2>2, <2>3, <3>1
  <2>5. ToWrite' = {k \in DOMAIN listed : /\ k >= at' /\ listed[k] \in DOMAIN draft'
                                          /\ \A j \in 1..k - 1 : listed[j] # listed[k]}
    BY <1>2, <1>5 DEF ToWrite
  <2>6. QED
    BY <1>2, <1>9, <2>3, <2>4, <2>5
<1>10. WriteInv'
  <2>1. Pending' \subseteq DOMAIN draft'
    BY DEF Pending
  <2>2. HalfWrittenResumes'
    BY <1>2, <1>3, <1>7 DEF HalfWrittenResumes
  <2>3. \A p \in Pending' : \E i \in ToWrite' : Listing(session')[i] = p
    BY <1>2, <1>5, <1>9, <2>1
  <2>4. QED
    BY <1>2, <1>8, <2>2, <2>3 DEF WriteInv, InterviewInv
<1>11. KeepsAnswers
  BY <1>2, <1>3 DEF KeepsAnswers, Keeps
<1>12. QED
  BY <1>2, <1>4, <1>10, <1>11 DEF InterviewInv

LEMMA WriteContractStep ==
  ASSUME InterviewInv, WriteContract
  PROVE  InterviewInv' /\ KeepsAnswers
<1>1. PICK listed : listed = Listing(session)
  OBVIOUS
<1>2. PICK i \in ToWrite :
        /\ \A j \in ToWrite : i <= j
        /\ disk' = [disk EXCEPT ![listed[i]] = draft[listed[i]]]
        /\ at' = i + 1
  BY <1>1 DEF WriteContract
<1>3. run = "write" /\ UNCHANGED <<run, session, file, draft>>
  BY DEF WriteContract
<1>4. session = file /\ file.phase = "emit" /\ session.found \in Seq(Entity)
  BY <1>3 DEF InterviewInv, SessionInv, Saved, SessionType
<1>5. SessionInv'
  BY <1>3 DEF InterviewInv, SessionInv
<1>6. /\ ToWrite = {k \in DOMAIN listed : /\ k >= at /\ listed[k] \in DOMAIN draft
                                          /\ \A j \in 1..k - 1 : listed[j] # listed[k]}
      /\ ToWrite' = {k \in DOMAIN listed : /\ k >= at' /\ listed[k] \in DOMAIN draft
                                           /\ \A j \in 1..k - 1 : listed[j] # listed[k]}
  BY <1>1, <1>3 DEF ToWrite
<1>7. DOMAIN listed \subseteq Nat /\ i \in Nat /\ listed[i] \in DOMAIN draft
  BY <1>1, <1>4, <1>6, ListingTypes
<1>8. \A k \in ToWrite : k # i => k \in ToWrite'
  <2> SUFFICES ASSUME NEW k \in ToWrite, k # i PROVE k >= at'
    BY <1>6
  <2>1. k \in Nat /\ i <= k
    BY <1>2, <1>6, <1>7
  <2>2. QED
    BY <1>2, <1>7, <2>1
<1>9. Pending' = Pending \ {listed[i]}
  BY <1>2, <1>3, <1>7 DEF InterviewInv, WriteInv, Pending
<1>10. HalfWrittenResumes'
  BY <1>3, <1>9 DEF InterviewInv, WriteInv, HalfWrittenResumes
<1>11. \A p \in Pending' : \E k \in ToWrite' : listed[k] = p
  BY <1>1, <1>3, <1>8, <1>9 DEF InterviewInv, WriteInv
<1>12. disk' = [p \in Path |-> disk'[p]]
  BY <1>2 DEF InterviewInv, WriteInv
<1>13. WriteInv'
  BY <1>1, <1>3, <1>10, <1>11, <1>12 DEF InterviewInv, WriteInv
<1>14. KeepsAnswers
  BY <1>3, <1>4 DEF KeepsAnswers, Keeps
<1>15. QED
  BY <1>2, <1>5, <1>7, <1>13, <1>14 DEF InterviewInv

LEMMA FinishStep ==
  ASSUME InterviewInv, Finish
  PROVE  InterviewInv' /\ KeepsAnswers
<1>1. /\ run = "write" /\ run' = "created" /\ at' = 1 /\ file' = Absent /\ ToWrite = {}
      /\ UNCHANGED <<session, draft, disk>>
  BY DEF Finish, GoOn
<1>2. SessionInv'
  BY <1>1, NothingKnown DEF InterviewInv, SessionInv
<1>3. Pending = {} /\ Pending' = {}
  BY <1>1 DEF InterviewInv, WriteInv, Pending
<1>4. WriteInv'
  BY <1>1, <1>3 DEF InterviewInv, WriteInv, HalfWrittenResumes
<1>5. QED
  BY <1>1, <1>2, <1>4 DEF InterviewInv, KeepsAnswers

LEMMA InterviewStart == InterviewInit => InterviewInv
<1> SUFFICES ASSUME InterviewInit PROVE InterviewInv
  OBVIOUS
<1>1. /\ run = "off" /\ at = 1 /\ session = Blank /\ file = Absent /\ draft = <<>>
      /\ disk = [p \in Path |-> Nobody]
  BY DEF InterviewInit
<1>2. SessionInv
  BY <1>1, NothingKnown DEF SessionInv
<1>3. DOMAIN draft = {} /\ disk = [p \in Path |-> disk[p]]
  BY <1>1
<1>4. WriteInv
  BY <1>1, <1>3 DEF WriteInv, HalfWrittenResumes, Pending
<1>5. QED
  BY <1>1, <1>2, <1>4 DEF InterviewInv

LEMMA InterviewStep ==
  ASSUME InterviewInv, InterviewNext
  PROVE  InterviewInv' /\ KeepsAnswers
BY StartRunStep, AgreeToResumeStep, StartAfreshStep, DescribeDomainStep, RunEndsStep,
   DescribeEntityStep, DescribeWorkflowStep, EndPhaseStep, AcceptStep, WriteContractStep,
   FinishStep
DEF InterviewNext

LEMMA InterviewStays ==
  ASSUME InterviewInv, UNCHANGED interviewVars
  PROVE  InterviewInv'
<1>1. UNCHANGED <<run, at, session, file, draft, disk>>
  BY DEF interviewVars
<1>2. Pending' = Pending /\ ToWrite' = ToWrite
  BY <1>1 DEF Pending, ToWrite
<1>3. SessionInv'
  BY <1>1 DEF InterviewInv, SessionInv
<1>4. WriteInv'
  BY <1>1, <1>2 DEF InterviewInv, WriteInv, HalfWrittenResumes
<1>5. QED
  BY <1>1, <1>3, <1>4 DEF InterviewInv

(***************************************************************************)
(* The invariant of the interview.                                         *)
(***************************************************************************)
THEOREM InterviewHolds == InterviewSpec => []InterviewInv
<1>1. InterviewInit => InterviewInv
  BY InterviewStart
<1>2. InterviewInv /\ [InterviewNext]_interviewVars => InterviewInv'
  BY InterviewStep, InterviewStays
<1>3. QED
  BY <1>1, <1>2, PTL DEF InterviewSpec

(***************************************************************************)
(* No interruption, crash or resumption loses an answer with fields or a   *)
(* machine, however many names, runs and phases (factory_new, Session).    *)
(***************************************************************************)
THEOREM NoAnswerIsLost == InterviewSpec => AnswersAreKept
<1>1. InterviewInv /\ [InterviewNext]_interviewVars => [KeepsAnswers]_interviewVars
  BY InterviewStep
<1>2. QED
  BY <1>1, InterviewHolds, PTL DEF InterviewSpec, AnswersAreKept, KeepsAnswers, Keeps

(***************************************************************************)
(* An interview whose files are written in part can be taken up again, and *)
(* the domain is created only when all its accepted files are there.       *)
(***************************************************************************)
THEOREM HalfWrittenCanResume == InterviewSpec => []HalfWrittenResumes
<1>1. InterviewInv => HalfWrittenResumes
  BY DEF InterviewInv, WriteInv
<1>2. QED
  BY <1>1, InterviewHolds, PTL

===============================================================================
