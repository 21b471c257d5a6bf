--------------------------- MODULE FactoryInterview ---------------------------
(***************************************************************************)
(* specora factory new (factory/cli/new.py) and the session it saves after *)
(* every answer (factory/session.py). One person runs it, is asked about   *)
(* the domain, each entity and each lifecycle, looks the contracts over    *)
(* and has them written file by file; Ctrl-C and crashes end a run         *)
(* anywhere, and the next one offers to resume.                            *)
(***************************************************************************)
EXTENDS Naturals, Sequences, FiniteSets, SequencesExt

CONSTANTS
  Entity,        \* names of entities
  Route,         \* stems of routes and pages
  PluralOf,      \* forge/targets/naming.py: pluralize
  Nobody,        \* what a file that is not there is about
  MaxRuns,       \* bound: runs of the command
  MaxDropped     \* bound: files deleted in the editor

ASSUME InterviewAssumption ==
  /\ IsFiniteSet(Entity) /\ PluralOf \in [Entity -> Route]
  /\ Nobody \notin Entity /\ MaxRuns \in Nat /\ MaxDropped \in Nat

VARIABLES
  run,           \* where the run is
  at,            \* the position of its loop over entities or files
  session,       \* Session.state of the run
  file,          \* .factory/session.json
  draft,         \* the contracts accepted last for the session: what each file is about
  disk,          \* domains/<domain>: what each file is about
  runs           \* runs so far

interviewVars == <<run, at, session, file, draft, disk, runs>>

Path == {"entities", "workflows"} \X Entity \cup {"routes", "pages"} \X Route

(***************************************************************************)
(* What is known of an entity: nothing ("asked"), an answer with neither   *)
(* fields nor mixins, or one with fields. cycles are the entities that     *)
(* have a state machine, machines those whose machine is described.        *)
(***************************************************************************)
Knowledge == {"asked", "bare", "fields"}

Blank == [phase |-> "", found |-> <<>>, answers |-> <<>>, cycles |-> {}, machines |-> {}]

Absent == [Blank EXCEPT !.phase = "absent"]

InterviewTypeOK ==
  /\ run \in {"off", "resume", "domain", "entities", "workflows", "emit", "write", "created"}
  /\ at \in Nat /\ runs \in 0..MaxRuns
  /\ \A s \in {session, file} :
       /\ s.phase \in {"absent", "", "entities", "workflows", "emit"}
       /\ s.answers \in [Range(s.found) -> Knowledge]
       /\ s.machines \subseteq s.cycles /\ s.cycles \subseteq Range(s.found)
  /\ disk \in [Path -> Entity \cup {Nobody}]
  /\ DOMAIN draft \subseteq Path

InterviewInit ==
  /\ run = "off" /\ at = 1 /\ session = Blank /\ file = Absent
  /\ draft = <<>> /\ disk = [p \in Path |-> Nobody] /\ runs = 0

Files == <<draft, disk>>

\* session.save(): an atomic replacement of the file by the state in memory.
Keep(s) == session' = s /\ file' = s

GoOn(place) == run' = place /\ at' = 1

-------------------------------------------------------------------------------
(***************************************************************************)
(* can_resume. A phase is skipped once the session is past it, and the     *)
(* domain is asked for whenever the session has none.                      *)
(***************************************************************************)
StartRun ==
  /\ run \in {"off", "created"} /\ runs < MaxRuns
  /\ runs' = runs + 1
  /\ session' = Blank
  /\ GoOn(IF file = Absent THEN "domain" ELSE "resume")
  /\ UNCHANGED <<file, Files>>

AgreeToResume ==
  /\ run = "resume"
  /\ session' = file
  /\ GoOn(IF file.phase = "" THEN "domain" ELSE file.phase)
  /\ UNCHANGED <<file, runs, Files>>

\* session.cleanup(): the person gives the saved answers up.
StartAfresh ==
  /\ run = "resume"
  /\ file' = Absent /\ draft' = <<>>
  /\ GoOn("domain")
  /\ UNCHANGED <<session, disk, runs>>

\* run_domain_interview, Session.start and the description it has of each entity.
DescribeDomain ==
  /\ run = "domain"
  /\ \E found \in SetToAllKPermutations(Entity) :
       /\ found # <<>>
       /\ Keep([Blank EXCEPT !.phase = "entities", !.found = found,
                             !.answers = [e \in Range(found) |-> "asked"]])
  /\ GoOn("entities")
  /\ draft' = <<>>
  /\ UNCHANGED <<disk, runs>>

\* InterviewInputError: nothing is saved.
NameNothing ==
  /\ run = "domain"
  /\ GoOn("off")
  /\ UNCHANGED <<session, file, runs, Files>>

(***************************************************************************)
(* Ctrl-C at a question: what the session holds is saved, which before the *)
(* domain is known is a session with nothing in it.                        *)
(***************************************************************************)
Interrupt ==
  /\ run \in {"domain", "entities", "workflows"}
  /\ Keep(session)
  /\ GoOn("off")
  /\ UNCHANGED <<runs, Files>>

(***************************************************************************)
(* The loops over the entities found: the next one with something to ask,  *)
(* and the end of the phase when there is none.                            *)
(***************************************************************************)
ToAsk(s) ==
  IF s.phase = "entities"
  THEN {i \in DOMAIN s.found : s.answers[s.found[i]] # "fields"}
  ELSE {i \in DOMAIN s.found : s.found[i] \in s.cycles \ s.machines}

Ahead == {i \in ToAsk(session) : i >= at}

Asked(i) == i \in Ahead /\ \A j \in Ahead : i <= j

Answered(i, s) ==
  /\ Keep(s) /\ at' = i + 1
  /\ UNCHANGED <<run, runs, Files>>

\* mutant: the answers are saved when the phase ends.
DescribeEntityUnsaved ==
  /\ run = "entities"
  /\ \E i \in DOMAIN session.found, known \in {"bare", "fields"}, cycle \in BOOLEAN :
       LET e == session.found[i]
       IN  /\ Asked(i)
           /\ session' = [session EXCEPT !.answers[e] = known,
                                         !.cycles = IF cycle THEN @ \cup {e} ELSE @ \ {e}]
           /\ at' = i + 1
           /\ UNCHANGED <<run, file, runs, Files>>

DescribeEntity ==
  /\ run = "entities"
  /\ \E i \in DOMAIN session.found, known \in {"bare", "fields"}, cycle \in BOOLEAN :
       LET e == session.found[i]
       IN  /\ Asked(i)
           /\ Answered(i, [session EXCEPT !.answers[e] = known,
                                          !.cycles = IF cycle THEN @ \cup {e} ELSE @ \ {e}])

DescribeWorkflow ==
  /\ run = "workflows"
  /\ \E i \in DOMAIN session.found :
       /\ Asked(i)
       /\ Answered(i, [session EXCEPT !.machines = @ \cup {session.found[i]}])

EndPhase ==
  /\ run \in {"entities", "workflows"} /\ Ahead = {}
  /\ LET next == IF run = "entities" THEN "workflows" ELSE "emit"
     IN  Keep([session EXCEPT !.phase = next]) /\ GoOn(next)
  /\ UNCHANGED <<runs, Files>>

-------------------------------------------------------------------------------
(***************************************************************************)
(* _emit_domain: a dictionary from paths to contracts. An entity without   *)
(* fields, mixins and machine is refused by emit_entity; two entities of   *)
(* one plural share a route and a page, which are about the later one.     *)
(***************************************************************************)
Emittable(s) == \A e \in Range(s.found) : s.answers[e] = "fields" \/ e \in s.cycles

Place(s, e) == CHOOSE i \in DOMAIN s.found : s.found[i] = e

LastOf(s, E) == CHOOSE e \in E : \A d \in E : Place(s, d) <= Place(s, e)

\* The order of the paths: an entity without machine gives no workflow, and the
\* route and the page of a plural keep the place where they came first.
Listing(s) ==
  LET n == Len(s.found) IN
  [k \in 1..4 * n |->
     IF k <= n THEN <<"entities", s.found[k]>>
     ELSE IF k <= 2 * n THEN <<"workflows", s.found[k - n]>>
     ELSE <<IF k % 2 = 1 THEN "routes" ELSE "pages", PluralOf[s.found[(k - 2 * n + 1) \div 2]]>>]

Emitted(s) == {p \in Range(Listing(s)) : p[1] = "workflows" => p[2] \in s.machines}

About(s, path) ==
  IF path[1] \in {"entities", "workflows"} THEN path[2]
  ELSE LastOf(s, {e \in Range(s.found) : PluralOf[e] = path[2]})

\* EmitterError, a preview declined or contracts broken in the editor: the session stays.
GiveUpEmitting ==
  /\ run = "emit"
  /\ Keep(session)
  /\ GoOn("off")
  /\ UNCHANGED <<runs, Files>>

\* preview_contracts: files deleted in the editor are not written.
Accept ==
  /\ run = "emit" /\ Emittable(session)
  /\ \E dropped \in UNION {kSubset(k, Emitted(session)) : k \in 0..MaxDropped} :
       draft' = [p \in Emitted(session) \ dropped |-> About(session, p)]
  /\ GoOn("write")
  /\ UNCHANGED <<session, file, disk, runs>>

ToWrite ==
  LET listed == Listing(session) IN
  {i \in DOMAIN listed : /\ i >= at /\ listed[i] \in DOMAIN draft
                         /\ \A j \in 1..i - 1 : listed[j] # listed[i]}

\* write_atomic: a file is replaced whole, whoever wrote it before.
WriteContract ==
  /\ run = "write"
  /\ \E i \in ToWrite :
       /\ \A j \in ToWrite : i <= j
       /\ LET p == Listing(session)[i] IN disk' = [disk EXCEPT ![p] = draft[p]]
       /\ at' = i + 1
  /\ UNCHANGED <<run, session, file, draft, runs>>

\* mutant: the session is removed before the last file is written.
FinishEarly ==
  /\ run = "write" /\ Cardinality(ToWrite) <= 1
  /\ file' = Absent
  /\ IF ToWrite = {} THEN GoOn("created") ELSE UNCHANGED <<run, at>>
  /\ UNCHANGED <<session, draft, disk, runs>>

\* session.cleanup() follows the last write.
Finish ==
  /\ run = "write" /\ ToWrite = {}
  /\ file' = Absent
  /\ GoOn("created")
  /\ UNCHANGED <<session, draft, disk, runs>>

\* The process dies, or an error nobody catches leaves the command.
RunDies ==
  /\ run \notin {"off", "created"}
  /\ GoOn("off")
  /\ session' = Blank
  /\ UNCHANGED <<file, runs, Files>>

InterviewNext ==
  \/ StartRun \/ AgreeToResume \/ StartAfresh
  \/ DescribeDomain \/ NameNothing \/ Interrupt
  \/ DescribeEntity \/ DescribeWorkflow \/ EndPhase
  \/ GiveUpEmitting \/ Accept \/ WriteContract \/ Finish
  \/ RunDies

InterviewSpec == InterviewInit /\ [][InterviewNext]_interviewVars

-------------------------------------------------------------------------------
(***************************************************************************)
(* No answer is lost: until the command finishes or the person starts      *)
(* afresh, every step leaves in the file all the answers with fields and   *)
(* all the machines that the file or the run knew of, whatever interrupts, *)
(* crashes and further runs come between (new.py's saves, resume).         *)
(***************************************************************************)
Known(s) == {e \in Range(s.found) : s.answers[e] = "fields"}

AnswersAreKept ==
  [][\/ StartAfresh \/ Finish \/ run = "created"
     \/ /\ Known(session) \cup Known(file) \subseteq Known(file')
        /\ session.machines \cup file.machines \subseteq file'.machines]_interviewVars

(***************************************************************************)
(* An interview whose files are written in part can be taken up again: as  *)
(* long as an accepted file is not on disk as accepted, the session is,    *)
(* complete and past the interviews; and once the command says the domain  *)
(* is created, every accepted file is there (new.py's write loop and the   *)
(* cleanup after it).                                                      *)
(***************************************************************************)
Pending == {p \in DOMAIN draft : disk[p] # draft[p]}

HalfWrittenResumes ==
  /\ Pending # {} => file.phase = "emit" /\ \A p \in DOMAIN draft : draft[p] = About(file, p)
  /\ run = "created" => Pending = {}

===============================================================================
