------------------------------ MODULE ModelCalls ------------------------------
(***************************************************************************)
(* Calls to a language model (engine/engine.py, retry.py, telemetry.py):   *)
(* the gates are asked once, the request is sent up to MaxAttempts times   *)
(* while its failures may pass, and one record of the call goes to every   *)
(* sink. Threads of the healer call at once; sinks come and go, and some   *)
(* of them raise.                                                          *)
(***************************************************************************)
EXTENDS Naturals, Sequences, FiniteSets

CONSTANTS
  Thread,         \* callers of LLMEngine.chat
  Sink,           \* telemetry sinks, the spend governor among them
  Raising,        \* the sinks whose record() raises
  MaxAttempts,    \* RetryPolicy.max_attempts
  MaxCalls        \* bound: calls of a thread

ASSUME CallsAssumption ==
  /\ Raising \subseteq Sink
  /\ MaxAttempts \in Nat \ {0} /\ MaxCalls \in Nat

VARIABLES
  at,             \* where each thread is in chat()
  made,           \* the calls each thread has begun
  failures,       \* the failures of the attempts of its call, in order
  verdict,        \* how its call ended
  untold,         \* the sinks emit() has still to tell
  sinks,          \* the sinks registered now
  shut,           \* does a gate refuse calls now?
  heard            \* heard[s]: the records a sink took, in order

callVars == <<at, made, failures, verdict, untold, sinks, shut, heard>>

Record == [thread : Thread, call : 1..MaxCalls, outcome : {"ok", "error"}]

CallsTypeOK ==
  /\ at \in [Thread -> {"idle", "gates", "send", "backoff", "emit"}]
  /\ made \in [Thread -> 0..MaxCalls]
  /\ failures \in [Thread -> Seq({"transient", "permanent"})]
  /\ verdict \in [Thread -> {"none", "refused", "ok", "error"}]
  /\ untold \in [Thread -> SUBSET Sink]
  /\ sinks \subseteq Sink
  /\ shut \in BOOLEAN
  /\ heard \in [Sink -> Seq(Record)]

CallsInit ==
  /\ at = [t \in Thread |-> "idle"]
  /\ made = [t \in Thread |-> 0]
  /\ failures = [t \in Thread |-> <<>>]
  /\ verdict = [t \in Thread |-> "none"]
  /\ untold = [t \in Thread |-> {}]
  /\ sinks = Sink /\ shut = FALSE
  /\ heard = [s \in Sink |-> <<>>]

MoveTo(t, place) == at' = [at EXCEPT ![t] = place]

\* The threads share the registries and nothing else.
Shared == <<sinks, shut, heard>>

-------------------------------------------------------------------------------
Begin(t) ==
  /\ at[t] = "idle" /\ made[t] < MaxCalls
  /\ MoveTo(t, "gates")
  /\ made' = [made EXCEPT ![t] = @ + 1]
  /\ failures' = [failures EXCEPT ![t] = <<>>]
  /\ verdict' = [verdict EXCEPT ![t] = "none"]
  /\ UNCHANGED <<untold, Shared>>

\* check_gates: CallBlockedError leaves chat() before anything is sent or recorded.
AskGates(t) ==
  /\ at[t] = "gates"
  /\ MoveTo(t, IF shut THEN "idle" ELSE "send")
  /\ verdict' = [verdict EXCEPT ![t] = IF shut THEN "refused" ELSE @]
  /\ UNCHANGED <<made, failures, untold, Shared>>

(***************************************************************************)
(* The end of the attempts, and emit()'s copy of the sinks.                *)
(***************************************************************************)
Conclude(t, outcome) ==
  /\ MoveTo(t, "emit")
  /\ verdict' = [verdict EXCEPT ![t] = outcome]
  /\ untold' = [untold EXCEPT ![t] = sinks]

Succeed(t) ==
  /\ at[t] = "send"
  /\ Conclude(t, "ok")
  /\ UNCHANGED <<made, failures, Shared>>

\* mutant: the last attempt is followed by a wait for another.
FailForever(t) ==
  /\ at[t] = "send"
  /\ \E kind \in {"transient", "permanent"} :
       IF kind = "transient" THEN MoveTo(t, "backoff") /\ UNCHANGED <<verdict, untold>>
                             ELSE Conclude(t, "error")
  /\ UNCHANGED <<made, failures, Shared>>

Fail(t) ==
  /\ at[t] = "send"
  /\ \E kind \in {"transient", "permanent"} :
       /\ failures' = [failures EXCEPT ![t] = Append(@, kind)]
       /\ IF kind = "transient" /\ Len(failures[t]) + 1 < MaxAttempts
          THEN MoveTo(t, "backoff") /\ UNCHANGED <<verdict, untold>>
          ELSE Conclude(t, "error")
  /\ UNCHANGED <<made, Shared>>

\* The gates are not asked again: a ceiling reached meanwhile does not stop a retry.
Resend(t) ==
  /\ at[t] = "backoff"
  /\ MoveTo(t, "send")
  /\ UNCHANGED <<made, failures, verdict, untold, Shared>>

(***************************************************************************)
(* emit() tells the sinks of its copy one by one, in the order they were   *)
(* registered; one that raises is passed over.                             *)
(***************************************************************************)
Report(t) == [thread |-> t, call |-> made[t], outcome |-> verdict[t]]

\* mutant: a sink that raises ends the round.
TellUntilRaised(t) ==
  /\ at[t] = "emit"
  /\ \E s \in untold[t] :
       /\ untold' = [untold EXCEPT ![t] = IF s \in Raising THEN {} ELSE @ \ {s}]
       /\ heard' = IF s \in Raising THEN heard
                  ELSE [heard EXCEPT ![s] = Append(@, Report(t))]
  /\ UNCHANGED <<at, made, failures, verdict, sinks, shut>>

Tell(t) ==
  /\ at[t] = "emit"
  /\ \E s \in untold[t] :
       /\ untold' = [untold EXCEPT ![t] = @ \ {s}]
       /\ heard' = IF s \in Raising THEN heard
                  ELSE [heard EXCEPT ![s] = Append(@, Report(t))]
  /\ UNCHANGED <<at, made, failures, verdict, sinks, shut>>

Return(t) ==
  /\ at[t] = "emit" /\ untold[t] = {}
  /\ MoveTo(t, "idle")
  /\ UNCHANGED <<made, failures, verdict, untold, Shared>>

-------------------------------------------------------------------------------
\* register_sink, unregister_sink: a new engine, the end of a test or a command.
Enlist(s) ==
  /\ sinks' = IF s \in sinks THEN sinks \ {s} ELSE sinks \cup {s}
  /\ UNCHANGED <<at, made, failures, verdict, untold, shut, heard>>

\* A spend ceiling is reached, or its window passes.
Turn ==
  /\ shut' = ~shut
  /\ UNCHANGED <<at, made, failures, verdict, untold, sinks, heard>>

Step(t) == AskGates(t) \/ Succeed(t) \/ Fail(t) \/ Resend(t) \/ Tell(t) \/ Return(t)

CallsNext ==
  \/ \E t \in Thread : Begin(t) \/ Step(t)
  \/ \E s \in Raising : Enlist(s)
  \/ Turn

(***************************************************************************)
(* A thread goes on: a request has a timeout, after which it has failed.   *)
(***************************************************************************)
CallsSpec == CallsInit /\ [][CallsNext]_callVars /\ \A t \in Thread : WF_callVars(Step(t))

-------------------------------------------------------------------------------
(***************************************************************************)
(* A request is sent again only after a failure that may pass, never more  *)
(* than MaxAttempts times, and not at all once a gate refused the call:    *)
(* "the retry layer must never retry around a refusal" (telemetry.py).     *)
(***************************************************************************)
RetriesAreWarranted ==
  \A t \in Thread :
    /\ Len(failures[t]) <= MaxAttempts
    /\ \A i \in 1..(Len(failures[t]) - 1) : failures[t][i] = "transient"
    /\ at[t] \in {"send", "backoff"} =>
         \A i \in DOMAIN failures[t] : failures[t][i] = "transient"
    /\ verdict[t] = "refused" => failures[t] = <<>>

(***************************************************************************)
(* A sink that stays, like the spend governor, takes one record of each    *)
(* call that was sent, with its outcome, whatever other sinks raise, and   *)
(* none of a call that was refused.                                        *)
(***************************************************************************)
RecordsOf(s, t, k) ==
  {i \in DOMAIN heard[s] : heard[s][i].thread = t /\ heard[s][i].call = k}

CallsAreRecorded ==
  \A s \in Sink \ Raising, t \in Thread :
    /\ \A k \in 1..made[t] : Cardinality(RecordsOf(s, t, k)) <= 1
    /\ at[t] = "idle" /\ made[t] > 0 =>
         {heard[s][i].outcome : i \in RecordsOf(s, t, made[t])} = {verdict[t]} \ {"refused"}

(***************************************************************************)
(* A call comes back, with an answer, a refusal or an error.               *)
(***************************************************************************)
CallsEnd == \A t \in Thread : at[t] # "idle" ~> at[t] = "idle"

================================================================================
