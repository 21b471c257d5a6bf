------------------------------ MODULE RateLimiter ------------------------------
(***************************************************************************)
(* The limit on reported errors (healer/ratelimit.py): a token bucket for  *)
(* each contract and one for all. A bucket is refilled only when somebody  *)
(* looks at it, and dropped when nobody did for long.                      *)
(*                                                                         *)
(* The code counts tokens and seconds in floats. Here a token is One       *)
(* units, so that a bucket grows by a whole number of units with each tick *)
(* of the clock.                                                           *)
(*                                                                         *)
(* A definition marked as a mutant is not part of the model: it is what a  *)
(* plausible mistake would have made of the definition after it.           *)
(***************************************************************************)
EXTENDS Integers

CONSTANTS
  Contract,       \* the contracts errors are reported of
  NoContract,     \* no contract
  Unattributed,   \* the key of such errors
  One,            \* the units in a token
  Burst,          \* the capacity of a bucket
  Rate,           \* the units it gets per tick
  GlobalBurst,    \* the same of the bucket for all
  GlobalRate,
  IdleEviction,   \* the ticks after which an idle bucket may be dropped
  MaxTime         \* bound: the ticks of a behavior

Key == Contract \cup {Unattributed}
Absent == [tokens |-> -1, updated |-> -1]

ASSUME LimiterAssumption ==
  /\ NoContract \notin Contract
  /\ One \in Nat \ {0} /\ MaxTime \in Nat
  /\ Burst \in Nat /\ Rate \in Nat /\ IdleEviction \in Nat
  /\ GlobalBurst \in Nat /\ GlobalRate \in Nat

VARIABLES
  clock,          \* time.monotonic
  buckets,        \* the bucket of each key, or Absent
  global,         \* the bucket for all
  decision,       \* the last answer
  since,          \* history: when somebody began to count
  admitted,       \* history: what was admitted since then, for each key
  admittedAll     \* history: and altogether

history == <<since, admitted, admittedAll>>
limiterVars == <<clock, buckets, global, decision, since, admitted, admittedAll>>

Bucket == [tokens : Nat, updated : Nat]

LimiterTypeOK ==
  /\ clock \in Nat /\ since \in 0..clock
  /\ buckets \in [Key -> Bucket \cup {Absent}]
  /\ global \in Bucket
  /\ decision \in [key : Key \cup {"none"}, refusedBy : {"nobody", "key", "global"}]
  /\ admitted \in [Key -> Nat] /\ admittedAll \in Nat

LimiterInit ==
  /\ clock = 0
  /\ buckets = [k \in Key |-> Absent]
  /\ global = [tokens |-> GlobalBurst, updated |-> 0]
  /\ decision = [key |-> "none", refusedBy |-> "nobody"]
  /\ since = 0 /\ admitted = [k \in Key |-> 0] /\ admittedAll = 0

-------------------------------------------------------------------------------
KeyOf(contract) == IF contract = NoContract THEN Unattributed ELSE contract

AtMost(limit, n) == IF n < limit THEN n ELSE limit

(***************************************************************************)
(* What a bucket holds by now, and the bucket that is brought up to date.  *)
(***************************************************************************)
Content(b, capacity, rate) ==
  AtMost(capacity, b.tokens + rate * (clock - b.updated))

RefilledStale(b, capacity, rate) ==                            \* mutant
  [tokens |-> Content(b, capacity, rate), updated |-> b.updated]

Refilled(b, capacity, rate) ==
  [tokens |-> Content(b, capacity, rate), updated |-> clock]

Taken(b) == [b EXCEPT !.tokens = @ - One]

IsIdleSinceCreated(b) == b # Absent                            \* mutant

IsIdle(b) == b # Absent /\ clock - b.updated > IdleEviction

(***************************************************************************)
(* A request: idle buckets go, whoever they belong to; the bucket of the   *)
(* key is refilled, or made; then, if it has a token, the one for all. A   *)
(* token is taken from both or from none.                                  *)
(***************************************************************************)
Kept == [k \in Key |-> IF IsIdle(buckets[k]) THEN Absent ELSE buckets[k]]

Mine(k) ==
  IF Kept[k] = Absent THEN [tokens |-> Burst, updated |-> clock] ELSE Kept[k]

RefusedByKey(k, own) ==
  /\ own.tokens < One
  /\ buckets' = [Kept EXCEPT ![k] = own]
  /\ decision' = [key |-> k, refusedBy |-> "key"]
  /\ UNCHANGED <<global, history>>

RefusedByAll(k, own, all) ==
  /\ own.tokens >= One /\ all.tokens < One
  /\ buckets' = [Kept EXCEPT ![k] = own]
  /\ global' = all
  /\ decision' = [key |-> k, refusedBy |-> "global"]
  /\ UNCHANGED history

Admitted(k, own, all) ==
  /\ own.tokens >= One /\ all.tokens >= One
  /\ buckets' = [Kept EXCEPT ![k] = Taken(own)]
  /\ global' = Taken(all)
  /\ decision' = [key |-> k, refusedBy |-> "nobody"]
  /\ admitted' = [admitted EXCEPT ![k] = @ + 1]
  /\ admittedAll' = admittedAll + 1
  /\ UNCHANGED since

Check(contract) ==
  LET k   == KeyOf(contract)
      own == Refilled(Mine(k), Burst, Rate)
      all == Refilled(global, GlobalBurst, GlobalRate)
  IN
  /\ RefusedByKey(k, own) \/ RefusedByAll(k, own, all) \/ Admitted(k, own, all)
  /\ UNCHANGED clock

Pass ==
  /\ clock < MaxTime
  /\ clock' = clock + 1
  /\ UNCHANGED <<buckets, global, decision, history>>

(***************************************************************************)
(* Somebody begins to count, at any time, so that what holds for his count *)
(* holds for every interval.                                               *)
(***************************************************************************)
BeginToCount ==
  /\ since' = clock /\ admitted' = [k \in Key |-> 0] /\ admittedAll' = 0
  /\ UNCHANGED <<clock, buckets, global, decision>>

LimiterNext ==
  \/ \E c \in Contract \cup {NoContract} : Check(c)
  \/ Pass
  \/ BeginToCount

LimiterSpec == LimiterInit /\ [][LimiterNext]_limiterVars

-------------------------------------------------------------------------------
(***************************************************************************)
(* In any interval, no contract and not all of them together get more in   *)
(* than a full bucket and what comes in during that time, whatever is      *)
(* refused, refilled late or dropped in between. (_refill_and_peek and     *)
(* _evict_idle, ratelimit.py)                                              *)
(***************************************************************************)
NobodyExceeds ==
  /\ \A k \in Key : One * admitted[k] <= Burst + Rate * (clock - since)
  /\ One * admittedAll <= GlobalBurst + GlobalRate * (clock - since)

(***************************************************************************)
(* Buckets that are refilled late and dropped decide exactly like ones     *)
(* that are refilled all the time and never dropped. (check, ratelimit.py) *)
(***************************************************************************)
Level(b) == IF b = Absent THEN Burst ELSE Content(b, Burst, Rate)

Eager ==
  INSTANCE Allowance WITH
    level <- [k \in Key |-> Level(buckets[k])],
    globalLevel <- Content(global, GlobalBurst, GlobalRate)

ImplementsAllowance == Eager!Allowances

===============================================================================
