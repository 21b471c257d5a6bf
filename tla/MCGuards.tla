------------------------------- MODULE MCGuards -------------------------------
(***************************************************************************)
(* The rate limiter, the spend governor, the calls to a model and the      *)
(* approvals over HTTP share nothing, so it is enough to let one of them   *)
(* move in a behavior. Time passes for the governor and calls go on.       *)
(***************************************************************************)
EXTENDS RateLimiter, SpendGovernor, ModelCalls, Approvals

VARIABLE part

Usages == {[input |-> 1, output |-> 0], [input |-> 1, output |-> 1]}

\* Every pair of schemes that meet, and each alone.
Configurations ==
  {{"signed"}, {"proxy"}, {"signed", "proxy"}, {"operator", "proxy"}}

GuardsInit ==
  /\ part \in {"limiter", "governor", "calls", "approvals"}
  /\ LimiterInit /\ GovernorInit /\ CallsInit /\ ApprovalsInit
  /\ part # "approvals" => schemes = {"signed"}

GuardsNext ==
  \/ part = "limiter" /\ LimiterNext
     /\ UNCHANGED <<part, governorVars, callVars, approvalVars>>
  \/ part = "governor" /\ GovernorNext
     /\ UNCHANGED <<part, limiterVars, callVars, approvalVars>>
  \/ part = "calls" /\ CallsNext
     /\ UNCHANGED <<part, limiterVars, governorVars, approvalVars>>
  \/ part = "approvals" /\ ApprovalsNext
     /\ UNCHANGED <<part, limiterVars, governorVars, callVars>>

Elsewhere == <<part, limiterVars, approvalVars>>

GuardsSpec ==
  /\ GuardsInit
  /\ [][GuardsNext]_<<part, limiterVars, governorVars, callVars, approvalVars>>
  /\ WF_governorVars(part = "governor" /\ Tick /\ UNCHANGED <<Elsewhere, callVars>>)
  /\ \A t \in Thread :
       WF_callVars(part = "calls" /\ Step(t) /\ UNCHANGED <<Elsewhere, governorVars>>)

===============================================================================
