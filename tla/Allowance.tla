------------------------------- MODULE Allowance -------------------------------
(***************************************************************************)
(* What the rate limiter promises. Every key has an allowance, and so have *)
(* all keys together. Both grow with time up to their size. A request      *)
(* takes one from each if both have one, and nothing otherwise.            *)
(***************************************************************************)
EXTENDS Integers

CONSTANTS
  Key,          \* what is limited separately
  One,          \* the units a request takes
  Burst,        \* the size of the allowance of a key
  Rate,         \* the units it grows by in a unit of time
  GlobalBurst,  \* the same for all keys together
  GlobalRate

VARIABLES
  level,        \* what a key has left
  globalLevel,  \* what all have left
  decision      \* the last decision: the key, and who refused or nobody

allowances == <<level, globalLevel, decision>>

AtMost(limit, n) == IF n < limit THEN n ELSE limit

Begin ==
  /\ level = [k \in Key |-> Burst]
  /\ globalLevel = GlobalBurst
  /\ decision = [key |-> "none", refusedBy |-> "nobody"]

Grow ==
  /\ level' = [k \in Key |-> AtMost(Burst, level[k] + Rate)]
  /\ globalLevel' = AtMost(GlobalBurst, globalLevel + GlobalRate)
  /\ UNCHANGED decision

Admit(k) ==
  /\ level[k] >= One /\ globalLevel >= One
  /\ level' = [level EXCEPT ![k] = @ - One]
  /\ globalLevel' = globalLevel - One
  /\ decision' = [key |-> k, refusedBy |-> "nobody"]

Refuse(k) ==
  /\ decision' = [key |-> k, refusedBy |-> IF level[k] < One THEN "key" ELSE "global"]
  /\ level[k] < One \/ globalLevel < One
  /\ UNCHANGED <<level, globalLevel>>

Step == Grow \/ \E k \in Key : Admit(k) \/ Refuse(k)

Allowances == Begin /\ [][Step]_allowances

===============================================================================
