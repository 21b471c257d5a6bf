------------------------------ MODULE MCContracts ------------------------------
(***************************************************************************)
(* The compiler, the factory's interview and chat and the store of diffs   *)
(* share no state, so it is enough to let one of them move in a behavior.  *)
(***************************************************************************)
EXTENDS MCCompiler, FactoryInterview, FactoryChat, DiffStore

CONSTANT accounts    \* a route and a page of this name for every entity

VARIABLE part

\* Two entities with one plural.
OnePlural == [e \in Entity |-> accounts]

NoBuild ==
  /\ requires = [n \in Contract |-> {}] /\ declared = {}
  /\ GraphStart
  /\ source = <<>> /\ misfiled = {} /\ phase = "load" /\ ir = <<>>

ContractsInit ==
  /\ part \in {"compiler", "interview", "chat", "diffs"}
  /\ IF part = "compiler" THEN MCInit ELSE NoBuild
  /\ InterviewInit /\ ChatInit /\ Init
  /\ part # "chat" => version = 0

ContractsNext ==
  \/ part = "compiler" /\ MCNext /\ UNCHANGED <<part, interviewVars, chatVars, vars>>
  \/ part = "interview" /\ InterviewNext /\ UNCHANGED <<part, compilerVars, chatVars, vars>>
  \/ part = "chat" /\ ChatNext /\ UNCHANGED <<part, compilerVars, interviewVars, vars>>
  \/ part = "diffs" /\ Next /\ UNCHANGED <<part, compilerVars, interviewVars, chatVars>>

ContractsSpec ==
  ContractsInit /\ [][ContractsNext]_<<part, compilerVars, interviewVars, chatVars, vars>>

================================================================================
