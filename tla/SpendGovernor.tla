----------------------------- MODULE SpendGovernor -----------------------------
(***************************************************************************)
(* What the Healer may spend on a language model (healer/cost.py,          *)
(* healer/proposer/llm_proposer.py): a budget of tokens and of money over  *)
(* a rolling window, and a breaker that opens when the model keeps         *)
(* failing. Whoever wants a proposal asks, calls, and only then records    *)
(* what it cost; the drain thread and every `healer fix` do so at the same *)
(* time.                                                                   *)
(*                                                                         *)
(* A definition marked as a mutant is not part of the model: it is what a  *)
(* plausible mistake would have made of the definition after it.           *)
(***************************************************************************)
EXTENDS Integers, Sequences, FiniteSets, FiniteSetsExt

CONSTANTS
  Caller,        \* who asks the model for proposals
  Usage,         \* the tokens of an answered call, [input, output]
  TokenBudget,   \* tokens per window, 0 for no limit
  SpendLimit,    \* money per window, or None
  None,          \* no limit
  IsPriced,      \* has the model a price?
  InputPrice,    \* money per token
  OutputPrice,
  Window,        \* ticks that usage counts against the budget
  Threshold,     \* failures that open the breaker, 0 for never
  Cooldown       \* ticks it stays open

ASSUME GovernorAssumption ==
  /\ IsFiniteSet(Caller)
  /\ Usage \subseteq [input : Nat, output : Nat] /\ IsFiniteSet(Usage)
  /\ TokenBudget \in Nat /\ SpendLimit \in Nat \cup {None}
  /\ IsPriced \in BOOLEAN /\ InputPrice \in Nat /\ OutputPrice \in Nat
  /\ Window \in Nat /\ Threshold \in Nat /\ Cooldown \in Nat

VARIABLES
  calls,    \* table llm_usage, the newest call first
  stage,    \* where each caller is
  attempt   \* its first or its second attempt

governorVars == <<calls, stage, attempt>>

(***************************************************************************)
(* A record of a call. Its age is the time since created_at; what is older *)
(* than Horizon is the same for every check.                               *)
(***************************************************************************)
Larger(m, n) == IF m < n THEN n ELSE m
Horizon == Larger(Window + 1, Cooldown)

Call == [ok : BOOLEAN, tokens : Nat, cost : Nat, age : 0..Horizon]

GovernorTypeOK ==
  /\ calls \in Seq(Call)
  /\ stage \in [Caller -> {"idle", "retry", "budget", "call"}]
  /\ attempt \in [Caller -> 1..2]

GovernorInit ==
  /\ calls = <<>>
  /\ stage = [c \in Caller |-> "idle"]
  /\ attempt = [c \in Caller |-> 1]

-------------------------------------------------------------------------------
(***************************************************************************)
(* The breaker is open while the last calls have all failed, the newest    *)
(* not long ago.                                                           *)
(***************************************************************************)
BreakerNeedsMore ==                                            \* mutant
  /\ Threshold > 0 /\ Len(calls) > Threshold
  /\ \A i \in 1..(Threshold + 1) : ~calls[i].ok
  /\ calls[1].age < Cooldown

BreakerStaysOpen ==                                            \* mutant
  /\ Threshold > 0 /\ Len(calls) >= Threshold
  /\ \A i \in 1..Threshold : ~calls[i].ok

BreakerIsOpen ==
  /\ Threshold > 0 /\ Len(calls) >= Threshold
  /\ \A i \in 1..Threshold : ~calls[i].ok
  /\ calls[1].age < Cooldown

(***************************************************************************)
(* The budget is exhausted when the window has used it up, or when there   *)
(* is a limit on money and no price.                                       *)
(***************************************************************************)
InWindow(call) == call.age <= Window

Total(amounts) ==
  LET sum[n \in 0..Len(amounts)] == IF n = 0 THEN 0 ELSE sum[n - 1] + amounts[n]
  IN  sum[Len(amounts)]

TokensSpent ==
  Total([i \in 1..Len(calls) |-> IF InWindow(calls[i]) THEN calls[i].tokens ELSE 0])

MoneySpent ==
  Total([i \in 1..Len(calls) |-> IF InWindow(calls[i]) THEN calls[i].cost ELSE 0])

ExhaustedWhenExceeded ==                                       \* mutant
  \/ TokenBudget > 0 /\ TokensSpent > TokenBudget
  \/ SpendLimit # None /\ (~IsPriced \/ MoneySpent > SpendLimit)

Exhausted ==
  \/ TokenBudget > 0 /\ TokensSpent >= TokenBudget
  \/ SpendLimit # None /\ (~IsPriced \/ MoneySpent >= SpendLimit)

Cost(usage) ==
  IF IsPriced THEN usage.input * InputPrice + usage.output * OutputPrice ELSE 0

-------------------------------------------------------------------------------
(***************************************************************************)
(* A check reads the outcomes, then the totals. Who is refused has no      *)
(* proposal.                                                               *)
(***************************************************************************)
CheckBreaker(c) ==
  /\ stage[c] \in {"idle", "retry"}
  /\ attempt' = [attempt EXCEPT ![c] = IF stage[c] = "retry" THEN 2 ELSE 1]
  /\ stage' = [stage EXCEPT ![c] = IF BreakerIsOpen THEN "idle" ELSE "budget"]
  /\ UNCHANGED calls

CheckBudget(c) ==
  /\ stage[c] = "budget"
  /\ stage' = [stage EXCEPT ![c] = IF Exhausted THEN "idle" ELSE "call"]
  /\ UNCHANGED <<calls, attempt>>

(***************************************************************************)
(* The call ends and is recorded. An answer without a usable proposal, and *)
(* a failure, are tried once more.                                         *)
(***************************************************************************)
AfterThis(c) == IF attempt[c] = 1 THEN "retry" ELSE "idle"

RecordAnswer(c, usage) ==
  calls' = <<[ok |-> TRUE, tokens |-> usage.input + usage.output,
              cost |-> Cost(usage), age |-> 0]>> \o calls

Answer(c, usage) ==
  /\ stage[c] = "call"
  /\ RecordAnswer(c, usage)
  /\ \E next \in {"idle", AfterThis(c)} : stage' = [stage EXCEPT ![c] = next]
  /\ UNCHANGED attempt

Failure(c) ==
  /\ stage[c] = "call"
  /\ calls' = <<[ok |-> FALSE, tokens |-> 0, cost |-> 0, age |-> 0]>> \o calls
  /\ stage' = [stage EXCEPT ![c] = AfterThis(c)]
  /\ UNCHANGED attempt

(***************************************************************************)
(* The process dies, or the record cannot be written: a call that is not   *)
(* counted.                                                                *)
(***************************************************************************)
Die(c) ==
  /\ stage[c] # "idle"
  /\ stage' = [stage EXCEPT ![c] = "idle"]
  /\ UNCHANGED <<calls, attempt>>

(***************************************************************************)
(* Time passes. Records that no check can tell any more are left out.      *)
(***************************************************************************)
Older(call) == [call EXCEPT !.age = IF @ < Horizon THEN @ + 1 ELSE @]

Seen == {i \in DOMAIN calls : i <= Threshold \/ Older(calls[i]).age < Horizon}

Tick ==
  /\ calls' = [i \in 1..Cardinality(Seen) |-> Older(calls[i])]
  /\ UNCHANGED <<stage, attempt>>

GovernorNext ==
  \/ \E c \in Caller :
       \/ CheckBreaker(c) \/ CheckBudget(c)
       \/ \E usage \in Usage : Answer(c, usage)
       \/ Failure(c)
       \/ Die(c)
  \/ Tick

GovernorSpec == GovernorInit /\ [][GovernorNext]_governorVars

-------------------------------------------------------------------------------
(***************************************************************************)
(* What the window holds and what is under way exceed the budget by less   *)
(* than one call of each caller: the price of recording a call only after  *)
(* it was made. (check, cost.py, and _attempt_fix, llm_proposer.py)        *)
(***************************************************************************)
Calling == {c \in Caller : stage[c] = "call"}

MostTokens == Max({u.input + u.output : u \in Usage} \cup {0})

MostMoney == Max({Cost(u) : u \in Usage} \cup {0})

Within(spent, limit, most) ==
  spent + Cardinality(Calling) * most <= (limit - 1) + Cardinality(Caller) * most

SpendingIsBounded ==
  /\ TokenBudget > 0 => Within(TokensSpent, TokenBudget, MostTokens)
  /\ SpendLimit # None /\ SpendLimit # 0 => Within(MoneySpent, SpendLimit, MostMoney)

(***************************************************************************)
(* A model that is down is not asked again and again: within a cooldown,   *)
(* fewer calls fail in a row than the threshold and one of each caller,    *)
(* those under way included. (_breaker_decision, cost.py)                  *)
(***************************************************************************)
PastBreaker == {c \in Caller : stage[c] \in {"budget", "call"}}

FailuresAreBounded ==
  Threshold > 0 =>
    \A n \in 0..Len(calls) :
      (\A i \in 1..n : ~calls[i].ok /\ calls[i].age < Cooldown)
        => n + Cardinality(PastBreaker) <= (Threshold - 1) + Cardinality(Caller)

(***************************************************************************)
(* Nobody is refused for ever: the breaker closes and the window moves on, *)
(* without anybody's help. (SpendGovernor, cost.py)                        *)
(***************************************************************************)
RefusalsEnd == []<>~BreakerIsOpen /\ []<>~Exhausted

===============================================================================
