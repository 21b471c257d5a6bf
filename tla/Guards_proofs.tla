---------------------------- MODULE Guards_proofs -----------------------------
(***************************************************************************)
(* What guards the Healer and the models it calls: the rate limiter, the   *)
(* spend governor, the approvals over HTTP, and the calls to a model.      *)
(***************************************************************************)
EXTENDS RateLimiter, SpendGovernor, Approvals, ModelCalls,
        FiniteSetTheorems, Induction, TLAPS

(***************************************************************************)
(* The rate limiter for any number of contracts, any rates and any         *)
(* interval. One assumption is needed beside the types: a bucket is idle   *)
(* for long enough to be full when it is dropped.                          *)
(***************************************************************************)

IdleRefills == Rate * IdleEviction >= Burst

-------------------------------------------------------------------------------
(***************************************************************************)
(* Arithmetic of a bucket: a tick later it holds a rate more, what is up   *)
(* to date does not grow, and what is idle is full.                        *)
(***************************************************************************)
LEMMA GrowsByRate ==
  ASSUME NEW c \in Nat, NEW r \in Nat, NEW t \in Nat, NEW n \in Nat, NEW u \in 0..n
  PROVE  AtMost(c, t + r * ((n + 1) - u)) = AtMost(c, AtMost(c, t + r * (n - u)) + r)
<1> DEFINE p == r * (n - u)
<1>1. p \in Nat
  BY SMT
<1>2. r * ((n + 1) - u) = p + r
  BY SMT
<1> HIDE DEF p
<1>3. AtMost(c, t + (p + r)) = AtMost(c, AtMost(c, t + p) + r)
  BY <1>1, SMT DEF AtMost
<1>4. QED
  BY <1>2, <1>3 DEF p

LEMMA NothingGrowsAtOnce ==
  ASSUME NEW c \in Nat, NEW r \in Nat, NEW t \in Nat, NEW n \in Nat
  PROVE  AtMost(c, t + r * (n - n)) = AtMost(c, t)
<1>1. r * (n - n) = 0
  BY SMT
<1>2. QED
  BY <1>1, SMT DEF AtMost

LEMMA IdleIsFull ==
  ASSUME IdleRefills, NEW t \in Nat, NEW d \in Nat, d > IdleEviction
  PROVE  AtMost(Burst, t + Rate * d) = Burst
<1> USE LimiterAssumption DEF LimiterAssumption
<1>1. Rate * d = Rate * IdleEviction + Rate * (d - IdleEviction)
  BY SMT
<1>2. Rate * (d - IdleEviction) \in Nat /\ Rate * IdleEviction \in Nat
  BY SMT
<1>3. QED
  BY <1>1, <1>2, SMT DEF AtMost, IdleRefills

LEMMA ContentType ==
  ASSUME NEW c \in Nat, NEW r \in Nat, NEW t \in Nat, NEW d \in Nat
  PROVE  AtMost(c, t + r * d) \in 0..c
<1>1. r * d \in Nat
  BY SMT
<1>2. QED
  BY <1>1, SMT DEF AtMost

-------------------------------------------------------------------------------
(***************************************************************************)
(* No bucket is from the future.                                           *)
(***************************************************************************)
UpToNow ==
  /\ \A k \in Key : buckets[k] # Absent => buckets[k].updated <= clock
  /\ global.updated <= clock

BucketInv == LimiterTypeOK /\ UpToNow

(***************************************************************************)
(* Dropping the idle buckets changes no level, and a bucket that is        *)
(* brought up to date holds what its level was.                            *)
(***************************************************************************)
LEMMA KeptLevels ==
  ASSUME BucketInv, IdleRefills, NEW k \in Key
  PROVE  /\ Kept[k] \in Bucket \cup {Absent}
         /\ Kept[k] # Absent => Kept[k].updated <= clock
         /\ Level(Kept[k]) = Level(buckets[k])
<1> USE DEF BucketInv, LimiterTypeOK, UpToNow
<1>1. buckets[k] \in Bucket \cup {Absent}
  OBVIOUS
<1>2. CASE ~IsIdle(buckets[k])
  BY <1>1, <1>2 DEF Kept
<1>3. CASE IsIdle(buckets[k])
  <2>1. Kept[k] = Absent
    BY <1>3 DEF Kept
  <2>2. /\ buckets[k] # Absent /\ buckets[k].tokens \in Nat
        /\ clock - buckets[k].updated \in Nat
        /\ clock - buckets[k].updated > IdleEviction
    BY <1>1, <1>3 DEF IsIdle, Bucket
  <2>3. Content(buckets[k], Burst, Rate) = Burst
    BY <2>2, IdleIsFull DEF Content
  <2>4. QED
    BY <2>1, <2>2, <2>3 DEF Level
<1>4. QED
  BY <1>2, <1>3

LEMMA MineIsTheLevel ==
  ASSUME BucketInv, IdleRefills, NEW k \in Key
  PROVE  /\ Refilled(Mine(k), Burst, Rate) \in Bucket
         /\ Refilled(Mine(k), Burst, Rate).updated = clock
         /\ Refilled(Mine(k), Burst, Rate).tokens = Level(buckets[k])
         /\ Level(buckets[k]) \in 0..Burst
<1> USE LimiterAssumption DEF LimiterAssumption
<1>0. clock \in Nat
  BY DEF BucketInv, LimiterTypeOK
<1>1. CASE Kept[k] = Absent
  <2>1. Content(Mine(k), Burst, Rate) = AtMost(Burst, Burst + Rate * (clock - clock))
    BY <1>1 DEF Mine, Content
  <2>2. Content(Mine(k), Burst, Rate) = Burst
    BY <1>0, <2>1, NothingGrowsAtOnce DEF AtMost
  <2>3. Level(buckets[k]) = Burst
    BY <1>1, KeptLevels DEF Level
  <2>4. QED
    BY <1>0, <2>2, <2>3 DEF Refilled, Bucket
<1>2. CASE Kept[k] # Absent
  <2>1. /\ Mine(k) = Kept[k] /\ Kept[k].tokens \in Nat
        /\ clock - Kept[k].updated \in Nat
    BY <1>0, <1>2, KeptLevels DEF Mine, Bucket
  <2>2. Content(Mine(k), Burst, Rate) \in 0..Burst
    BY <2>1, ContentType DEF Content
  <2>3. Level(buckets[k]) = Content(Mine(k), Burst, Rate)
    BY <1>2, <2>1, KeptLevels DEF Level
  <2>4. QED
    BY <1>0, <2>2, <2>3 DEF Refilled, Bucket
<1>3. QED
  BY <1>1, <1>2

LEMMA AllIsTheLevel ==
  ASSUME BucketInv
  PROVE  /\ Refilled(global, GlobalBurst, GlobalRate) \in Bucket
         /\ Refilled(global, GlobalBurst, GlobalRate).updated = clock
         /\ Refilled(global, GlobalBurst, GlobalRate).tokens
              = Content(global, GlobalBurst, GlobalRate)
         /\ Content(global, GlobalBurst, GlobalRate) \in 0..GlobalBurst
<1> USE LimiterAssumption DEF LimiterAssumption
<1>1. /\ clock \in Nat /\ global.tokens \in Nat
      /\ clock - global.updated \in Nat
  BY DEF BucketInv, LimiterTypeOK, UpToNow, Bucket
<1>2. Content(global, GlobalBurst, GlobalRate) \in 0..GlobalBurst
  BY <1>1, ContentType DEF Content
<1>3. QED
  BY <1>1, <1>2 DEF Refilled, Bucket

(***************************************************************************)
(* A bucket that is up to date and not above its capacity holds its        *)
(* tokens.                                                                 *)
(***************************************************************************)
LEMMA UpToDateContent ==
  ASSUME clock \in Nat, NEW STATE b, b \in Bucket, b.updated = clock,
         NEW capacity \in Nat, NEW rate \in Nat, b.tokens <= capacity
  PROVE  Content(b, capacity, rate) = b.tokens
<1>1. AtMost(capacity, b.tokens + rate * (clock - clock)) = AtMost(capacity, b.tokens)
  BY NothingGrowsAtOnce DEF Bucket
<1>2. QED
  BY <1>1 DEF Content, AtMost, Bucket

-------------------------------------------------------------------------------
(***************************************************************************)
(* A request keeps the buckets in order, and it is a request of the        *)
(* abstract limiter, with the same answer.                                 *)
(***************************************************************************)
RefusedStep(k) == Eager!Refuse(k) /\ UNCHANGED history

AdmittedStep(k) ==
  /\ Eager!Admit(k)
  /\ admitted' = [admitted EXCEPT ![k] = @ + 1]
  /\ admittedAll' = admittedAll + 1
  /\ UNCHANGED since

LEMMA OthersKeepTheirLevels ==
  ASSUME BucketInv, IdleRefills, clock' = clock, NEW k \in Key, NEW b,
         buckets' = [Kept EXCEPT ![k] = b]
  PROVE  /\ buckets'[k] = b
         /\ \A j \in Key \ {k} :
              /\ buckets'[j] = Kept[j]
              /\ Level(buckets[j])' = Level(buckets[j])
<1>1. buckets'[k] = b /\ \A j \in Key \ {k} : buckets'[j] = Kept[j]
  BY DEF Kept
<1>2. ASSUME NEW j \in Key \ {k} PROVE Level(buckets[j])' = Level(buckets[j])
  <2>1. Level(buckets[j])' = Level(Kept[j])
    BY <1>1 DEF Level, Content
  <2>2. QED
    BY <2>1, KeptLevels
<1>3. QED
  BY <1>1, <1>2

LEMMA BucketsStayInOrder ==
  ASSUME BucketInv, IdleRefills, clock' = clock, NEW k \in Key, NEW b \in Bucket,
         b.updated = clock, buckets' = [Kept EXCEPT ![k] = b],
         global' \in Bucket, global'.updated <= clock
  PROVE  /\ buckets' \in [Key -> Bucket \cup {Absent}]
         /\ UpToNow'
<1>1. clock \in Nat
  BY DEF BucketInv, LimiterTypeOK
<1>2. \A j \in Key : /\ Kept[j] \in Bucket \cup {Absent}
                     /\ Kept[j] # Absent => Kept[j].updated <= clock
  BY KeptLevels
<1>3. buckets' \in [Key -> Bucket \cup {Absent}]
  BY <1>2 DEF Kept
<1>4. \A j \in Key : buckets'[j] = (IF j = k THEN b ELSE Kept[j])
  BY DEF Kept
<1>5. QED
  BY <1>1, <1>2, <1>3, <1>4 DEF UpToNow

LEMMA CheckDecides ==
  ASSUME BucketInv, IdleRefills, NEW c \in Contract \cup {NoContract}, Check(c)
  PROVE  /\ BucketInv'
         /\ RefusedStep(KeyOf(c)) \/ AdmittedStep(KeyOf(c))
<1> DEFINE k == KeyOf(c)
           own == Refilled(Mine(k), Burst, Rate)
           all == Refilled(global, GlobalBurst, GlobalRate)
           L == [j \in Key |-> Level(buckets[j])]
           G == Content(global, GlobalBurst, GlobalRate)
<1>k. k \in Key
  BY DEF KeyOf, Key
<1>a. One \in Nat \ {0} /\ Burst \in Nat /\ Rate \in Nat /\ GlobalBurst \in Nat
      /\ GlobalRate \in Nat
  BY LimiterAssumption DEF LimiterAssumption
<1>o. own \in Bucket /\ own.updated = clock /\ own.tokens = L[k] /\ L[k] \in 0..Burst
  BY <1>k, MineIsTheLevel
<1>g. all \in Bucket /\ all.updated = clock /\ all.tokens = G /\ G \in 0..GlobalBurst
  BY AllIsTheLevel
<1>t. /\ clock \in Nat /\ since \in 0..clock /\ clock' = clock
      /\ admitted \in [Key -> Nat] /\ admittedAll \in Nat
      /\ global \in Bucket /\ global.updated <= clock
  BY DEF BucketInv, LimiterTypeOK, UpToNow, Check
<1>s. RefusedByKey(k, own) \/ RefusedByAll(k, own, all) \/ Admitted(k, own, all)
  BY DEF Check
<1> HIDE DEF k, own, all
<1>1. CASE RefusedByKey(k, own)
  <2> USE <1>1 DEF RefusedByKey
  <2>1. /\ buckets'[k] = own
        /\ \A j \in Key \ {k} : Level(buckets[j])' = Level(buckets[j])
    BY <1>k, <1>t, OthersKeepTheirLevels
  <2>2. Content(own, Burst, Rate) = L[k]
    BY <1>a, <1>o, <1>t, UpToDateContent
  <2>3. own # Absent
    BY <1>o DEF Bucket, Absent
  <2>4. Level(buckets[k])' = L[k]
    BY <1>t, <2>1, <2>2, <2>3 DEF Level, Content
  <2>5. L' = L
    BY <1>k, <2>1, <2>4
  <2>6. G' = G
    BY <1>t DEF Content
  <2>7. BucketInv'
    BY <1>k, <1>o, <1>t, BucketsStayInOrder DEF BucketInv, LimiterTypeOK, history
  <2>8. Eager!Refuse(k)
    BY <1>o, <2>5, <2>6 DEF Eager!Refuse
  <2>9. QED
    BY <2>7, <2>8 DEF RefusedStep, k
<1>2. CASE RefusedByAll(k, own, all)
  <2> USE <1>2 DEF RefusedByAll
  <2>1. /\ buckets'[k] = own
        /\ \A j \in Key \ {k} : Level(buckets[j])' = Level(buckets[j])
    BY <1>k, <1>t, OthersKeepTheirLevels
  <2>2. /\ Content(own, Burst, Rate) = L[k]
        /\ Content(all, GlobalBurst, GlobalRate) = G
    BY <1>a, <1>o, <1>g, <1>t, UpToDateContent
  <2>3. own # Absent
    BY <1>o DEF Bucket, Absent
  <2>4. Level(buckets[k])' = L[k]
    BY <1>t, <2>1, <2>2, <2>3 DEF Level, Content
  <2>5. L' = L
    BY <1>k, <2>1, <2>4
  <2>6. G' = G
    BY <1>t, <2>2 DEF Content
  <2>7. BucketInv'
    <3>0. global' \in Bucket /\ global'.updated <= clock
      BY <1>g, <1>t
    <3>1. buckets' \in [Key -> Bucket \cup {Absent}] /\ UpToNow'
      BY <1>k, <1>o, <1>t, <3>0, BucketsStayInOrder
    <3>2. clock' \in Nat /\ since' \in 0..clock' /\ global' \in Bucket
      BY <1>g, <1>t DEF history
    <3>3. decision' \in [key : Key \cup {"none"}, refusedBy : {"nobody", "key", "global"}]
      BY <1>k
    <3>4. admitted' \in [Key -> Nat] /\ admittedAll' \in Nat
      BY <1>t DEF history
    <3>5. QED
      BY <3>1, <3>2, <3>3, <3>4 DEF BucketInv, LimiterTypeOK
  <2>8. Eager!Refuse(k)
    BY <1>a, <1>k, <1>o, <1>g, <2>5, <2>6 DEF Eager!Refuse
  <2>9. QED
    BY <2>7, <2>8 DEF RefusedStep, k
<1>3. CASE Admitted(k, own, all)
  <2> USE <1>3 DEF Admitted
  <2>0. /\ Taken(own) \in Bucket /\ Taken(own).updated = clock
        /\ Taken(own).tokens = L[k] - One /\ Taken(own) # Absent
        /\ Taken(all) \in Bucket /\ Taken(all).updated = clock
        /\ Taken(all).tokens = G - One
    BY <1>a, <1>o, <1>g DEF Taken, Bucket, Absent
  <2>1. /\ buckets'[k] = Taken(own)
        /\ \A j \in Key \ {k} : Level(buckets[j])' = Level(buckets[j])
    BY <1>k, <1>t, OthersKeepTheirLevels
  <2>2. /\ Content(Taken(own), Burst, Rate) = L[k] - One
        /\ Content(Taken(all), GlobalBurst, GlobalRate) = G - One
    BY <1>a, <1>o, <1>g, <1>t, <2>0, UpToDateContent
  <2>4. Level(buckets[k])' = L[k] - One
    BY <1>t, <2>0, <2>1, <2>2 DEF Level, Content
  <2>5. L' = [L EXCEPT ![k] = @ - One]
    BY <1>k, <2>1, <2>4
  <2>6. G' = G - One
    BY <1>t, <2>2 DEF Content
  <2>7. BucketInv'
    <3>0. global' \in Bucket /\ global'.updated <= clock
      BY <1>t, <2>0
    <3>1. buckets' \in [Key -> Bucket \cup {Absent}] /\ UpToNow'
      BY <1>k, <1>t, <2>0, <3>0, BucketsStayInOrder
    <3>2. clock' \in Nat /\ since' \in 0..clock' /\ global' \in Bucket
      BY <1>t, <2>0
    <3>3. decision' \in [key : Key \cup {"none"}, refusedBy : {"nobody", "key", "global"}]
      BY <1>k
    <3>4. admitted' \in [Key -> Nat] /\ admittedAll' \in Nat
      BY <1>k, <1>t
    <3>5. QED
      BY <3>1, <3>2, <3>3, <3>4 DEF BucketInv, LimiterTypeOK
  <2>8. Eager!Admit(k)
    BY <1>o, <1>g, <2>5, <2>6 DEF Eager!Admit
  <2>9. QED
    BY <2>7, <2>8 DEF AdmittedStep, k
<1>4. QED
  BY <1>s, <1>1, <1>2, <1>3

(***************************************************************************)
(* A tick lets all levels grow, although no bucket changes.                *)
(***************************************************************************)
LEMMA PassGrows ==
  ASSUME BucketInv, Pass
  PROVE  BucketInv' /\ Eager!Grow
<1>0. clock \in Nat
  BY DEF BucketInv, LimiterTypeOK
<1>1. /\ clock \in Nat /\ clock' = clock + 1
      /\ UNCHANGED <<buckets, global, decision>>
  BY DEF BucketInv, LimiterTypeOK, Pass
<1>2. BucketInv'
  BY DEF BucketInv, LimiterTypeOK, UpToNow, Pass, Bucket, history
<1>3. ASSUME NEW k \in Key PROVE Level(buckets[k])' = AtMost(Burst, Level(buckets[k]) + Rate)
  <2>0. Burst \in Nat /\ Rate \in Nat
    BY LimiterAssumption DEF LimiterAssumption
  <2>g. \A t \in Nat, u \in 0..clock :
          AtMost(Burst, t + Rate * ((clock + 1) - u))
            = AtMost(Burst, AtMost(Burst, t + Rate * (clock - u)) + Rate)
    BY <1>0, <2>0, GrowsByRate
  <2>1. CASE buckets[k] = Absent
    BY <1>1, <2>0, <2>1 DEF Level, AtMost
  <2>2. CASE buckets[k] # Absent
    <3> DEFINE t == buckets[k].tokens
               u == buckets[k].updated
    <3>1. t \in Nat /\ u \in 0..clock
      BY <1>1, <2>2 DEF Bucket, BucketInv, LimiterTypeOK, UpToNow
    <3>2. Level(buckets[k]) = AtMost(Burst, t + Rate * (clock - u))
      BY <2>2 DEF Level, Content
    <3>3. Level(buckets[k])' = AtMost(Burst, t + Rate * ((clock + 1) - u))
      BY <1>1, <2>2 DEF Level, Content
    <3> HIDE DEF t, u
    <3>4. AtMost(Burst, t + Rate * ((clock + 1) - u))
            = AtMost(Burst, AtMost(Burst, t + Rate * (clock - u)) + Rate)
      BY <2>g, <3>1
    <3>5. QED
      BY <3>2, <3>3, <3>4
  <2>3. QED
    BY <2>1, <2>2
<1>4. Content(global, GlobalBurst, GlobalRate)'
        = AtMost(GlobalBurst, Content(global, GlobalBurst, GlobalRate) + GlobalRate)
  <2> DEFINE t == global.tokens
             u == global.updated
  <2>0. GlobalBurst \in Nat /\ GlobalRate \in Nat
    BY LimiterAssumption DEF LimiterAssumption
  <2>1. t \in Nat /\ u \in 0..clock
    BY <1>1 DEF Bucket, BucketInv, LimiterTypeOK, UpToNow
  <2>2. /\ Content(global, GlobalBurst, GlobalRate) = AtMost(GlobalBurst, t + GlobalRate * (clock - u))
        /\ Content(global, GlobalBurst, GlobalRate)'
             = AtMost(GlobalBurst, t + GlobalRate * ((clock + 1) - u))
    BY <1>1 DEF Content
  <2> HIDE DEF t, u
  <2>3. AtMost(GlobalBurst, t + GlobalRate * ((clock + 1) - u))
          = AtMost(GlobalBurst, AtMost(GlobalBurst, t + GlobalRate * (clock - u)) + GlobalRate)
    BY <1>0, <2>0, <2>1, GrowsByRate
  <2>4. QED
    BY <2>2, <2>3
<1>5. Eager!Grow
  BY <1>1, <1>3, <1>4 DEF Eager!Grow, Eager!AtMost, AtMost
<1>6. QED
  BY <1>2, <1>5

(***************************************************************************)
(* The beginning, and a step that leaves the buckets and the clock alone.  *)
(***************************************************************************)
LEMMA InitIsInOrder ==
  ASSUME LimiterInit
  PROVE  BucketInv /\ Eager!Begin
<1> USE LimiterAssumption DEF LimiterAssumption, LimiterInit
<1>1. BucketInv
  BY DEF BucketInv, LimiterTypeOK, UpToNow, Bucket, Absent
<1>2. Content(global, GlobalBurst, GlobalRate) = GlobalBurst
  <2>1. Content(global, GlobalBurst, GlobalRate)
          = AtMost(GlobalBurst, GlobalBurst + GlobalRate * (0 - 0))
    BY DEF Content
  <2>2. QED
    BY <2>1, NothingGrowsAtOnce DEF AtMost
<1>3. QED
  BY <1>1, <1>2 DEF Eager!Begin, Level

LEMMA NothingHappens ==
  ASSUME BucketInv, UNCHANGED <<clock, buckets, global, decision>>,
         since' \in 0..clock, admitted' \in [Key -> Nat], admittedAll' \in Nat
  PROVE  BucketInv' /\ UNCHANGED Eager!allowances
<1>1. BucketInv'
  BY DEF BucketInv, LimiterTypeOK, UpToNow
<1>2. UNCHANGED Eager!allowances
  BY DEF Eager!allowances, Level, Content
<1>3. QED
  BY <1>1, <1>2

(***************************************************************************)
(* Every step keeps the buckets in order and is a step of the allowances.  *)
(***************************************************************************)
LEMMA StepIsAllowed ==
  ASSUME BucketInv, IdleRefills, [LimiterNext]_limiterVars
  PROVE  BucketInv' /\ [Eager!Step]_(Eager!allowances)
<1>1. ASSUME NEW c \in Contract \cup {NoContract}, Check(c)
      PROVE  BucketInv' /\ Eager!Step
  <2>1. KeyOf(c) \in Key
    BY DEF KeyOf, Key
  <2>2. QED
    BY <1>1, <2>1, CheckDecides DEF Eager!Step, RefusedStep, AdmittedStep
<1>2. CASE Pass
  BY <1>2, PassGrows DEF Eager!Step
<1>3. CASE BeginToCount
  <2>1. clock \in Nat
    BY DEF BucketInv, LimiterTypeOK
  <2>2. QED
    BY <1>3, <2>1, NothingHappens DEF BeginToCount
<1>4. CASE UNCHANGED limiterVars
  <2>1. since \in 0..clock /\ admitted \in [Key -> Nat] /\ admittedAll \in Nat
    BY DEF BucketInv, LimiterTypeOK
  <2>2. QED
    BY <1>4, <2>1, NothingHappens DEF limiterVars
<1>5. QED
  BY <1>1, <1>2, <1>3, <1>4 DEF LimiterNext

-------------------------------------------------------------------------------
(***************************************************************************)
(* The types, for any parameters that keep idle buckets until they are     *)
(* full.                                                                   *)
(***************************************************************************)
THEOREM LimiterTypes ==
  ASSUME IdleRefills
  PROVE  LimiterSpec => []LimiterTypeOK
<1>1. LimiterInit => BucketInv
  BY InitIsInOrder
<1>2. BucketInv /\ [LimiterNext]_limiterVars => BucketInv'
  BY StepIsAllowed
<1>3. BucketInv => LimiterTypeOK
  BY DEF BucketInv
<1>4. QED
  BY <1>1, <1>2, <1>3, PTL DEF LimiterSpec

(***************************************************************************)
(* The limiter in the code, which refills late and forgets, makes exactly  *)
(* the decisions of one that does neither.                                 *)
(***************************************************************************)
THEOREM LimiterImplementsAllowance ==
  ASSUME IdleRefills
  PROVE  LimiterSpec => ImplementsAllowance
<1>1. LimiterInit => BucketInv /\ Eager!Begin
  BY InitIsInOrder
<1>2. BucketInv /\ [LimiterNext]_limiterVars => BucketInv' /\ [Eager!Step]_(Eager!allowances)
  BY StepIsAllowed
<1>3. QED
  BY <1>1, <1>2, PTL DEF LimiterSpec, ImplementsAllowance, Eager!Allowances

-------------------------------------------------------------------------------
(***************************************************************************)
(* What was admitted and what is left together stay below the bound: the   *)
(* invariant behind NobodyExceeds, in terms of the levels.                 *)
(***************************************************************************)
CountInv ==
  /\ \A k \in Key :
       One * admitted[k] + Level(buckets[k]) <= Burst + Rate * (clock - since)
  /\ One * admittedAll + Content(global, GlobalBurst, GlobalRate)
       <= GlobalBurst + GlobalRate * (clock - since)

LEMMA LevelTypes ==
  ASSUME BucketInv, IdleRefills
  PROVE  /\ \A k \in Key : Level(buckets[k]) \in 0..Burst
         /\ Content(global, GlobalBurst, GlobalRate) \in 0..GlobalBurst
BY MineIsTheLevel, AllIsTheLevel

(***************************************************************************)
(* One more is admitted and costs a token; time adds a rate to the bound   *)
(* and at most that to what is left.                                       *)
(***************************************************************************)
LEMMA OneMore ==
  ASSUME NEW n \in Nat
  PROVE  One * (n + 1) = One * n + One /\ One * n \in Nat
BY LimiterAssumption, SMT DEF LimiterAssumption

LEMMA LaterBound ==
  ASSUME NEW r \in Nat, NEW n \in Nat, NEW s \in 0..n
  PROVE  r * ((n + 1) - s) = r * (n - s) + r /\ r * (n - s) \in Nat
BY SMT

LEMMA StepKeepsCount ==
  ASSUME BucketInv, CountInv, IdleRefills, [LimiterNext]_limiterVars
  PROVE  CountInv'
<1> DEFINE G == Content(global, GlobalBurst, GlobalRate)
<1>a. /\ One \in Nat \ {0} /\ Burst \in Nat /\ Rate \in Nat
      /\ GlobalBurst \in Nat /\ GlobalRate \in Nat
  BY LimiterAssumption DEF LimiterAssumption
<1>t. /\ clock \in Nat /\ since \in 0..clock
      /\ admitted \in [Key -> Nat] /\ admittedAll \in Nat
  BY DEF BucketInv, LimiterTypeOK
<1>l. (\A k \in Key : Level(buckets[k]) \in 0..Burst) /\ G \in 0..GlobalBurst
  BY LevelTypes
<1>m. (\A n \in Nat : One * (n + 1) = One * n + One /\ One * n \in Nat)
  BY OneMore
<1>b. /\ Rate * ((clock + 1) - since) = Rate * (clock - since) + Rate
      /\ Rate * (clock - since) \in Nat
      /\ GlobalRate * ((clock + 1) - since) = GlobalRate * (clock - since) + GlobalRate
      /\ GlobalRate * (clock - since) \in Nat
  BY <1>a, <1>t, LaterBound
<1>1. ASSUME NEW c \in Contract \cup {NoContract}, Check(c) PROVE CountInv'
  <2> DEFINE k == KeyOf(c)
  <2>1. k \in Key /\ UNCHANGED <<clock>>
    BY <1>1 DEF KeyOf, Key, Check
  <2>2. RefusedStep(k) \/ AdmittedStep(k)
    BY <1>1, CheckDecides
  <2> HIDE DEF k
  <2>3. CASE RefusedStep(k)
    <3>1. (\A j \in Key : Level(buckets[j])' = Level(buckets[j])) /\ G' = G
      <4>1. [j \in Key |-> Level(buckets[j])]' = [j \in Key |-> Level(buckets[j])]
        BY <2>3 DEF RefusedStep, Eager!Refuse
      <4>2. G' = G
        BY <2>3 DEF RefusedStep, Eager!Refuse
      <4>3. QED
        BY <4>1, <4>2
    <3>2. UNCHANGED <<since, admitted, admittedAll>>
      BY <2>3 DEF RefusedStep, history
    <3>3. QED
      BY <2>1, <3>1, <3>2 DEF CountInv
  <2>4. CASE AdmittedStep(k)
    <3>1. /\ Level(buckets[k])' = Level(buckets[k]) - One
          /\ \A j \in Key \ {k} : Level(buckets[j])' = Level(buckets[j])
          /\ G' = G - One
      <4> DEFINE L == [j \in Key |-> Level(buckets[j])]
      <4>1. L' = [L EXCEPT ![k] = @ - One] /\ G' = G - One
        BY <2>4 DEF AdmittedStep, Eager!Admit
      <4>2. \A j \in Key : L'[j] = Level(buckets[j])' /\ L[j] = Level(buckets[j])
        OBVIOUS
      <4> HIDE DEF L, G
      <4>3. L'[k] = L[k] - One /\ \A j \in Key \ {k} : L'[j] = L[j]
        <5>1. DOMAIN L = Key
          BY DEF L
        <5>2. QED
          BY <2>1, <4>1, <5>1
      <4>4. QED
        BY <2>1, <4>1, <4>2, <4>3
    <3>2. /\ since' = since
          /\ admitted' = [admitted EXCEPT ![k] = @ + 1] /\ admittedAll' = admittedAll + 1
      BY <2>4 DEF AdmittedStep
    <3>3. ASSUME NEW j \in Key
          PROVE  One * admitted'[j] + Level(buckets[j])' <= Burst + Rate * (clock' - since')
      <4>1. One * admitted[j] + Level(buckets[j]) <= Burst + Rate * (clock - since)
        BY DEF CountInv
      <4>2. CASE j = k
        <5>1. One * admitted'[k] = One * admitted[k] + One /\ One * admitted[k] \in Nat
          BY <1>m, <1>t, <2>1, <3>2
        <5>2. QED
          BY <1>a, <1>b, <1>l, <2>1, <3>1, <3>2, <4>1, <4>2, <5>1
      <4>3. CASE j # k
        BY <1>t, <2>1, <3>1, <3>2, <4>1, <4>3
      <4>4. QED
        BY <4>2, <4>3
    <3>4. One * admittedAll' + G' <= GlobalBurst + GlobalRate * (clock' - since')
      <4>1. One * admittedAll + G <= GlobalBurst + GlobalRate * (clock - since)
        BY DEF CountInv
      <4>2. One * admittedAll' = One * admittedAll + One /\ One * admittedAll \in Nat
        BY <1>m, <1>t, <3>2
      <4> HIDE DEF G
      <4>3. QED
        BY <1>a, <1>b, <1>l, <2>1, <3>1, <3>2, <4>1, <4>2
    <3>5. QED
      BY <3>3, <3>4 DEF CountInv
  <2>5. QED
    BY <2>2, <2>3, <2>4
<1>2. CASE Pass
  <2>1. Eager!Grow /\ clock' = clock + 1 /\ UNCHANGED <<since, admitted, admittedAll>>
    BY <1>2, PassGrows DEF Pass, history
  <2>2. /\ \A j \in Key : /\ Level(buckets[j])' \in Nat
                          /\ Level(buckets[j])' <= Level(buckets[j]) + Rate
        /\ G' \in Nat /\ G' <= G + GlobalRate
    <3>1. /\ [j \in Key |-> Level(buckets[j])]'
               = [j \in Key |-> Eager!AtMost(Burst, Level(buckets[j]) + Rate)]
          /\ G' = Eager!AtMost(GlobalBurst, G + GlobalRate)
      BY <2>1 DEF Eager!Grow
    <3>2. \A j \in Key : Level(buckets[j])' = Eager!AtMost(Burst, Level(buckets[j]) + Rate)
      BY <3>1
    <3> HIDE DEF G
    <3>3. QED
      BY <1>a, <1>l, <3>1, <3>2 DEF Eager!AtMost
  <2> HIDE DEF G
  <2>4. ASSUME NEW j \in Key
        PROVE  One * admitted'[j] + Level(buckets[j])' <= Burst + Rate * (clock' - since')
    <3>1. One * admitted[j] + Level(buckets[j]) <= Burst + Rate * (clock - since)
      BY DEF CountInv
    <3>2. One * admitted[j] \in Nat
      BY <1>m, <1>t
    <3>3. QED
      BY <1>a, <1>b, <1>l, <2>1, <2>2, <3>1, <3>2
  <2>5. One * admittedAll' + G' <= GlobalBurst + GlobalRate * (clock' - since')
    <3>1. One * admittedAll + G <= GlobalBurst + GlobalRate * (clock - since)
      BY DEF CountInv, G
    <3>2. One * admittedAll \in Nat
      BY <1>m, <1>t
    <3>3. QED
      BY <1>a, <1>b, <1>l, <2>1, <2>2, <3>1, <3>2
  <2>6. QED
    BY <2>4, <2>5 DEF CountInv, G
<1>3. CASE BeginToCount
  <2>1. /\ clock' = clock /\ since' = clock
        /\ \A j \in Key : Level(buckets[j])' = Level(buckets[j]) /\ admitted'[j] = 0
        /\ G' = G /\ admittedAll' = 0
    BY <1>3 DEF BeginToCount, Level, Content
  <2>2. One * 0 = 0 /\ Rate * (clock - clock) = 0 /\ GlobalRate * (clock - clock) = 0
    BY <1>a, <1>t, SMT
  <2> HIDE DEF G
  <2>3. (\A j \in Key : One * admitted'[j] + Level(buckets[j])' <= Burst + Rate * (clock' - since'))
        /\ One * admittedAll' + G' <= GlobalBurst + GlobalRate * (clock' - since')
    BY <1>a, <1>l, <2>1, <2>2
  <2>4. QED
    BY <2>3 DEF CountInv, G
<1>4. CASE UNCHANGED limiterVars
  BY <1>4 DEF limiterVars, CountInv, Level, Content
<1>5. QED
  BY <1>1, <1>2, <1>3, <1>4 DEF LimiterNext

(***************************************************************************)
(* In no interval does a contract, or do all of them together, get more    *)
(* than a full bucket and what comes in meanwhile.                         *)
(***************************************************************************)
THEOREM NobodyEverExceeds ==
  ASSUME IdleRefills
  PROVE  LimiterSpec => []NobodyExceeds
<1>1. LimiterInit => BucketInv /\ CountInv
  <2> SUFFICES ASSUME LimiterInit PROVE BucketInv /\ CountInv
    OBVIOUS
  <2>1. BucketInv
    BY InitIsInOrder
  <2>2. /\ One * 0 = 0 /\ Rate * (0 - 0) = 0 /\ GlobalRate * (0 - 0) = 0
        /\ Burst \in Nat /\ GlobalBurst \in Nat
    BY LimiterAssumption, SMT DEF LimiterAssumption
  <2>3. (\A k \in Key : Level(buckets[k]) \in 0..Burst)
        /\ Content(global, GlobalBurst, GlobalRate) \in 0..GlobalBurst
    BY <2>1, LevelTypes
  <2>4. QED
    BY <2>1, <2>2, <2>3 DEF LimiterInit, CountInv
<1>2. BucketInv /\ CountInv /\ [LimiterNext]_limiterVars => BucketInv' /\ CountInv'
  BY StepIsAllowed, StepKeepsCount
<1>3. BucketInv /\ CountInv => NobodyExceeds
  <2> SUFFICES ASSUME BucketInv, CountInv PROVE NobodyExceeds
    OBVIOUS
  <2>1. /\ One \in Nat /\ Burst \in Nat /\ Rate \in Nat /\ GlobalBurst \in Nat
        /\ GlobalRate \in Nat /\ clock \in Nat /\ since \in 0..clock
        /\ admitted \in [Key -> Nat] /\ admittedAll \in Nat
    BY LimiterAssumption DEF LimiterAssumption, BucketInv, LimiterTypeOK
  <2>2. /\ \A n \in Nat : One * n \in Nat
        /\ Rate * (clock - since) \in Nat /\ GlobalRate * (clock - since) \in Nat
    BY <2>1, OneMore, LaterBound
  <2>3. (\A k \in Key : Level(buckets[k]) \in 0..Burst)
        /\ Content(global, GlobalBurst, GlobalRate) \in 0..GlobalBurst
    BY LevelTypes
  <2>4. QED
    BY <2>1, <2>2, <2>3 DEF CountInv, NobodyExceeds
<1>4. QED
  BY <1>1, <1>2, <1>3, PTL DEF LimiterSpec

-------------------------------------------------------------------------------
(***************************************************************************)
(* The budget and the breaker of the spend governor, for any callers, any  *)
(* usage, any prices, any limits and any cooldown.                         *)
(***************************************************************************)

BreakerInv == GovernorTypeOK /\ FailuresAreBounded

-------------------------------------------------------------------------------
(***************************************************************************)
(* Records are records, also when they get older.                          *)
(***************************************************************************)
LEMMA HorizonType == Horizon \in Nat /\ Cooldown <= Horizon
BY GovernorAssumption DEF GovernorAssumption, Horizon, Larger

LEMMA CostType ==
  ASSUME NEW usage \in Usage
  PROVE  Cost(usage) \in Nat /\ usage.input + usage.output \in Nat
<1>1. usage.input \in Nat /\ usage.output \in Nat /\ InputPrice \in Nat /\ OutputPrice \in Nat
  BY GovernorAssumption DEF GovernorAssumption
<1>2. usage.input * InputPrice \in Nat /\ usage.output * OutputPrice \in Nat
  BY <1>1, SMT
<1>3. QED
  BY <1>1, <1>2 DEF Cost

LEMMA OlderCall ==
  ASSUME NEW call \in Call
  PROVE  /\ Older(call) \in Call
         /\ Older(call).ok = call.ok
         /\ call.age <= Older(call).age
<1>1. call.age \in 0..Horizon /\ Horizon \in Nat
  BY HorizonType DEF Call
<1>2. Older(call) = [call EXCEPT !.age = IF call.age < Horizon THEN call.age + 1 ELSE call.age]
  BY DEF Older
<1>3. QED
  BY <1>1, <1>2 DEF Call

LEMMA RecordedCalls ==
  ASSUME NEW call \in Call, NEW table \in Seq(Call)
  PROVE  /\ <<call>> \o table \in Seq(Call)
         /\ Len(<<call>> \o table) = Len(table) + 1
         /\ (<<call>> \o table)[1] = call
         /\ \A i \in 1..Len(table) : (<<call>> \o table)[i + 1] = table[i]
OBVIOUS

LEMMA CountUpTo ==
  ASSUME NEW n \in Nat
  PROVE  IsFiniteSet(1..n) /\ Cardinality(1..n) = n
BY FS_Interval

LEMMA AppendedTo ==
  ASSUME NEW S, NEW s \in Seq(S), NEW e \in S
  PROVE  /\ Append(s, e) \in Seq(S) /\ Len(Append(s, e)) = Len(s) + 1
         /\ DOMAIN Append(s, e) = DOMAIN s \cup {Len(s) + 1} /\ Len(s) + 1 \notin DOMAIN s
         /\ \A i \in DOMAIN s : Append(s, e)[i] = s[i]
         /\ Append(s, e)[Len(s) + 1] = e
OBVIOUS

LEMMA SeenCalls ==
  ASSUME calls \in Seq(Call)
  PROVE  Cardinality(Seen) \in 0..Len(calls)
<1>1. Seen \subseteq 1..Len(calls) /\ Len(calls) \in Nat
  BY DEF Seen
<1>2. IsFiniteSet(1..Len(calls)) /\ Cardinality(1..Len(calls)) = Len(calls)
  BY <1>1, CountUpTo, Zenon
<1>3. Cardinality(Seen) <= Cardinality(1..Len(calls)) /\ IsFiniteSet(Seen)
  BY <1>1, <1>2, FS_Subset, Zenon
<1>4. QED
  BY <1>1, <1>2, <1>3, FS_CardinalityType

-------------------------------------------------------------------------------
(***************************************************************************)
(* How many callers there are, and how their number changes.               *)
(***************************************************************************)
LEMMA FewPastBreaker ==
  ASSUME NEW S \in SUBSET Caller
  PROVE  /\ IsFiniteSet(S) /\ Cardinality(S) \in Nat
         /\ Cardinality(Caller) \in Nat /\ Cardinality(S) <= Cardinality(Caller)
         /\ \A T \in SUBSET S : Cardinality(T) <= Cardinality(S)
         /\ \A c \in S : Cardinality(S \ {c}) = Cardinality(S) - 1
<1>1. IsFiniteSet(Caller)
  BY GovernorAssumption DEF GovernorAssumption
<1>2. IsFiniteSet(S) /\ Cardinality(S) <= Cardinality(Caller)
  BY <1>1, FS_Subset
<1>3. \A T \in SUBSET S : Cardinality(T) <= Cardinality(S)
  BY <1>2, FS_Subset
<1>4. \A c \in S : Cardinality(S \ {c}) = Cardinality(S) - 1
  BY <1>2, FS_RemoveElement
<1>5. QED
  BY <1>1, <1>2, <1>3, <1>4, FS_CardinalityType

-------------------------------------------------------------------------------
(***************************************************************************)
(* A run: the last n calls failed within the cooldown. A call that joins a *)
(* run had its caller past the breaker, so that the run and those who may  *)
(* still join it do not become more.                                       *)
(***************************************************************************)
IsRun(n) == \A i \in 1..n : ~calls[i].ok /\ calls[i].age < Cooldown

Bounded(n) == n + Cardinality(PastBreaker) <= (Threshold - 1) + Cardinality(Caller)

LEMMA RunsAreBounded ==
  FailuresAreBounded <=>
    (Threshold > 0 => \A n \in 0..Len(calls) : IsRun(n) => Bounded(n))
BY DEF FailuresAreBounded, IsRun, Bounded

LEMMA PastBreakerType ==
  /\ PastBreaker \in SUBSET Caller
  /\ Cardinality(PastBreaker) \in Nat /\ Cardinality(Caller) \in Nat
  /\ Cardinality(PastBreaker) <= Cardinality(Caller)
<1>1. PastBreaker \in SUBSET Caller
  BY DEF PastBreaker
<1>2. QED
  BY <1>1, FewPastBreaker

(***************************************************************************)
(* Who passes the check found the breaker closed: there is no run as long  *)
(* as the threshold.                                                       *)
(***************************************************************************)
LEMMA ClosedMeansShortRuns ==
  ASSUME GovernorTypeOK, Threshold > 0, ~BreakerIsOpen,
         NEW n \in 0..Len(calls), IsRun(n)
  PROVE  n <= Threshold - 1
<1>1. Len(calls) \in Nat /\ Threshold \in Nat
  BY GovernorAssumption DEF GovernorAssumption, GovernorTypeOK
<1>2. SUFFICES ASSUME n >= Threshold PROVE FALSE
  BY <1>1
<1>3. Len(calls) >= Threshold /\ 1 \in 1..n
  BY <1>1, <1>2
<1>4. \A i \in 1..Threshold : ~calls[i].ok
  BY <1>1, <1>2 DEF IsRun
<1>5. calls[1].age < Cooldown
  BY <1>3 DEF IsRun
<1>6. QED
  BY <1>3, <1>4, <1>5 DEF BreakerIsOpen

LEMMA CheckBreakerKeeps ==
  ASSUME BreakerInv, NEW c \in Caller, CheckBreaker(c)
  PROVE  BreakerInv'
<1>1. GovernorTypeOK'
  BY DEF BreakerInv, GovernorTypeOK, CheckBreaker
<1>2. calls' = calls
  BY DEF CheckBreaker
<1>3. CASE BreakerIsOpen
  <2>1. PastBreaker' = PastBreaker
    BY <1>3 DEF BreakerInv, GovernorTypeOK, CheckBreaker, PastBreaker
  <2>2. QED
    BY <1>1, <1>2, <2>1 DEF BreakerInv, FailuresAreBounded
<1>4. CASE ~BreakerIsOpen
  <2>1. /\ PastBreaker' \in SUBSET Caller
        /\ Cardinality(PastBreaker') \in Nat /\ Cardinality(Caller) \in Nat
        /\ Cardinality(PastBreaker') <= Cardinality(Caller)
    <3>1. PastBreaker' \in SUBSET Caller
      BY DEF PastBreaker
    <3>2. QED
      BY <3>1, FewPastBreaker
  <2>2. ASSUME Threshold > 0, NEW n \in 0..Len(calls), IsRun(n)
        PROVE  n + Cardinality(PastBreaker') <= (Threshold - 1) + Cardinality(Caller)
    <3>1. n <= Threshold - 1
      BY <1>4, <2>2, ClosedMeansShortRuns DEF BreakerInv
    <3>2. n \in Nat /\ Threshold \in Nat
      BY GovernorAssumption DEF GovernorAssumption, BreakerInv, GovernorTypeOK
    <3>3. QED
      BY <2>1, <3>1, <3>2
  <2>3. FailuresAreBounded'
    BY <1>2, <2>2 DEF FailuresAreBounded, IsRun
  <2>4. QED
    BY <1>1, <2>3 DEF BreakerInv
<1>5. QED
  BY <1>3, <1>4

(***************************************************************************)
(* A step that makes no run longer and lets nobody pass the breaker.       *)
(***************************************************************************)
LEMMA NothingNew ==
  ASSUME BreakerInv, GovernorTypeOK', PastBreaker' \subseteq PastBreaker,
         \A n \in 0..Len(calls') : IsRun(n)' => n \in 0..Len(calls) /\ IsRun(n)
  PROVE  BreakerInv'
<1>1. Cardinality(PastBreaker') <= Cardinality(PastBreaker)
  BY PastBreakerType, FewPastBreaker
<1>2. Cardinality(PastBreaker') \in Nat
  BY PastBreakerType, FewPastBreaker
<1>3. ASSUME Threshold > 0, NEW n \in 0..Len(calls'), IsRun(n)'
      PROVE  Bounded(n)'
  <2>1. Bounded(n)
    BY <1>3, RunsAreBounded DEF BreakerInv
  <2>2. n \in Nat /\ Threshold \in Nat
    BY <1>3, GovernorAssumption DEF GovernorAssumption, GovernorTypeOK
  <2>3. QED
    BY <1>1, <1>2, <2>1, <2>2, PastBreakerType DEF Bounded
<1>4. FailuresAreBounded'
  BY <1>3 DEF FailuresAreBounded, IsRun, Bounded
<1>5. QED
  BY <1>4 DEF BreakerInv

LEMMA CheckBudgetKeeps ==
  ASSUME BreakerInv, NEW c \in Caller, CheckBudget(c)
  PROVE  BreakerInv'
<1>1. GovernorTypeOK'
  BY DEF BreakerInv, GovernorTypeOK, CheckBudget
<1>2. PastBreaker' \subseteq PastBreaker
  BY DEF BreakerInv, GovernorTypeOK, CheckBudget, PastBreaker
<1>3. calls' = calls
  BY DEF CheckBudget
<1>4. QED
  BY <1>1, <1>2, <1>3, NothingNew DEF IsRun

LEMMA DieKeeps ==
  ASSUME BreakerInv, NEW c \in Caller, Die(c)
  PROVE  BreakerInv'
<1>1. GovernorTypeOK'
  BY DEF BreakerInv, GovernorTypeOK, Die
<1>2. PastBreaker' \subseteq PastBreaker
  BY DEF BreakerInv, GovernorTypeOK, Die, PastBreaker
<1>3. calls' = calls
  BY DEF Die
<1>4. QED
  BY <1>1, <1>2, <1>3, NothingNew DEF IsRun

(***************************************************************************)
(* An answer ends every run.                                               *)
(***************************************************************************)
LEMMA AnswerKeeps ==
  ASSUME BreakerInv, NEW c \in Caller, NEW usage \in Usage, Answer(c, usage)
  PROVE  BreakerInv'
<1> DEFINE call == [ok |-> TRUE, tokens |-> usage.input + usage.output,
                    cost |-> Cost(usage), age |-> 0]
<1>1. call \in Call
  BY CostType, HorizonType DEF Call
<1>2. calls \in Seq(Call) /\ stage \in [Caller -> {"idle", "retry", "budget", "call"}]
      /\ attempt \in [Caller -> 1..2]
  BY DEF BreakerInv, GovernorTypeOK
<1>3. /\ calls' \in Seq(Call) /\ calls'[1] = call
  <2> HIDE DEF call
  <2>1. calls' = <<call>> \o calls
    BY DEF Answer, RecordAnswer, call
  <2>2. QED
    BY <1>1, <1>2, <2>1, RecordedCalls
<1>4. PICK next \in {"idle", "retry"} : stage' = [stage EXCEPT ![c] = next]
  BY DEF Answer, AfterThis
<1>5. GovernorTypeOK'
  BY <1>2, <1>3, <1>4 DEF GovernorTypeOK, Answer
<1>6. PastBreaker' \subseteq PastBreaker
  BY <1>2, <1>4 DEF PastBreaker
<1>7. ASSUME NEW n \in 0..Len(calls'), IsRun(n)' PROVE n \in 0..Len(calls) /\ IsRun(n)
  <2>1. n = 0
    <3>1. SUFFICES ASSUME n # 0 PROVE FALSE
      OBVIOUS
    <3>2. 1 \in 1..n
      BY <1>3, <3>1
    <3>3. ~calls'[1].ok
      BY <1>7, <3>2 DEF IsRun
    <3>4. QED
      BY <1>3, <3>3
  <2>2. QED
    BY <1>2, <2>1 DEF IsRun
<1>8. QED
  BY <1>5, <1>6, <1>7, NothingNew

(***************************************************************************)
(* A failure makes a run longer, and its caller leaves.                    *)
(***************************************************************************)
LEMMA FailureKeeps ==
  ASSUME BreakerInv, NEW c \in Caller, Failure(c)
  PROVE  BreakerInv'
<1> DEFINE call == [ok |-> FALSE, tokens |-> 0, cost |-> 0, age |-> 0]
<1>1. call \in Call
  BY HorizonType DEF Call
<1>2. /\ calls \in Seq(Call) /\ attempt \in [Caller -> 1..2]
      /\ stage \in [Caller -> {"idle", "retry", "budget", "call"}]
  BY DEF BreakerInv, GovernorTypeOK
<1>3. /\ calls' \in Seq(Call) /\ Len(calls') = Len(calls) + 1
      /\ \A i \in 1..Len(calls) : calls'[i + 1] = calls[i]
  <2>1. calls' = <<call>> \o calls
    BY DEF Failure
  <2> HIDE DEF call
  <2>2. QED
    BY <1>1, <1>2, <2>1, RecordedCalls
<1>4. GovernorTypeOK'
  BY <1>2, <1>3 DEF GovernorTypeOK, Failure, AfterThis
<1>5. PastBreaker' = PastBreaker \ {c} /\ c \in PastBreaker
  BY <1>2 DEF PastBreaker, Failure, AfterThis
<1>6. Cardinality(PastBreaker') = Cardinality(PastBreaker) - 1
  BY <1>5, PastBreakerType, FewPastBreaker
<1>7. ASSUME Threshold > 0, NEW n \in 0..Len(calls'), IsRun(n)'
      PROVE  Bounded(n)'
  <2>0. /\ Len(calls) \in Nat /\ n \in Nat /\ Threshold \in Nat
        /\ Cardinality(PastBreaker) \in Nat /\ Cardinality(Caller) \in Nat
        /\ Cardinality(PastBreaker) <= Cardinality(Caller)
    BY <1>2, <1>3, PastBreakerType, GovernorAssumption DEF GovernorAssumption
  <2>1. CASE n = 0
    BY <1>6, <1>7, <2>0, <2>1 DEF Bounded
  <2>2. CASE n > 0
    <3>1. n - 1 \in 0..Len(calls)
      BY <1>3, <2>0, <2>2
    <3>2. IsRun(n - 1)
      <4>1. ASSUME NEW i \in 1..(n - 1) PROVE ~calls[i].ok /\ calls[i].age < Cooldown
        <5>1. i + 1 \in 1..n /\ i \in 1..Len(calls)
          BY <2>0, <3>1
        <5>2. ~calls'[i + 1].ok /\ calls'[i + 1].age < Cooldown
          BY <1>7, <5>1 DEF IsRun
        <5>3. QED
          BY <1>3, <5>1, <5>2
      <4>2. QED
        BY <4>1 DEF IsRun
    <3>3. Bounded(n - 1)
      BY <1>7, <3>1, <3>2, RunsAreBounded DEF BreakerInv
    <3>4. QED
      BY <1>6, <2>0, <3>3 DEF Bounded
  <2>3. QED
    BY <2>0, <2>1, <2>2
<1>8. FailuresAreBounded'
  BY <1>7 DEF FailuresAreBounded, IsRun, Bounded
<1>9. QED
  BY <1>4, <1>8 DEF BreakerInv

(***************************************************************************)
(* With time, runs become shorter.                                         *)
(***************************************************************************)
LEMMA TickKeeps ==
  ASSUME BreakerInv, Tick
  PROVE  BreakerInv'
<1>1. calls \in Seq(Call)
  BY DEF BreakerInv, GovernorTypeOK
<1>2. Cardinality(Seen) \in 0..Len(calls)
  BY <1>1, SeenCalls
<1>3. \A i \in 1..Cardinality(Seen) : calls[i] \in Call
  BY <1>1, <1>2
<1>4. /\ calls' \in Seq(Call) /\ Len(calls') = Cardinality(Seen)
      /\ \A i \in 1..Cardinality(Seen) : calls'[i] = Older(calls[i])
  <2>1. calls' = [i \in 1..Cardinality(Seen) |-> Older(calls[i])]
    BY DEF Tick
  <2>2. \A i \in 1..Cardinality(Seen) : Older(calls[i]) \in Call
    BY <1>3, OlderCall
  <2>3. Cardinality(Seen) \in Nat
    BY <1>1, <1>2
  <2>4. QED
    BY <2>1, <2>2, <2>3
<1>5. GovernorTypeOK' /\ PastBreaker' \subseteq PastBreaker
  BY <1>4 DEF BreakerInv, GovernorTypeOK, Tick, PastBreaker
<1>6. ASSUME NEW n \in 0..Len(calls'), IsRun(n)' PROVE n \in 0..Len(calls) /\ IsRun(n)
  <2>1. n \in 0..Len(calls) /\ \A i \in 1..n : i \in 1..Cardinality(Seen)
    BY <1>1, <1>2, <1>4
  <2>2. ASSUME NEW i \in 1..n PROVE ~calls[i].ok /\ calls[i].age < Cooldown
    <3>1. ~Older(calls[i]).ok /\ Older(calls[i]).age < Cooldown
      BY <1>4, <1>6, <2>1 DEF IsRun
    <3>2. /\ Older(calls[i]).ok = calls[i].ok /\ calls[i].age <= Older(calls[i]).age
          /\ calls[i] \in Call /\ Older(calls[i]) \in Call
      BY <1>3, <2>1, OlderCall
    <3>3. Cooldown \in Nat
      BY GovernorAssumption DEF GovernorAssumption
    <3>4. calls[i].age \in Nat /\ Older(calls[i]).age \in Nat
      BY <3>2, HorizonType DEF Call
    <3>5. QED
      BY <3>1, <3>2, <3>3, <3>4
  <2>3. QED
    BY <2>1, <2>2 DEF IsRun
<1>7. QED
  BY <1>5, <1>6, NothingNew

-------------------------------------------------------------------------------
(***************************************************************************)
(* Every step keeps the invariant.                                         *)
(***************************************************************************)
LEMMA StepKeepsBreakerInv ==
  ASSUME BreakerInv, [GovernorNext]_governorVars
  PROVE  BreakerInv'
<1>1. CASE UNCHANGED governorVars
  BY <1>1 DEF governorVars, BreakerInv, GovernorTypeOK, FailuresAreBounded, PastBreaker
<1>2. QED
  BY <1>1, CheckBreakerKeeps, CheckBudgetKeeps, AnswerKeeps, FailureKeeps, DieKeeps, TickKeeps
  DEF GovernorNext

LEMMA InitIsBounded ==
  ASSUME GovernorInit
  PROVE  BreakerInv
<1>1. GovernorTypeOK
  BY DEF GovernorInit, GovernorTypeOK
<1>2. Len(calls) = 0
  BY DEF GovernorInit
<1>3. ASSUME Threshold > 0, NEW n \in 0..Len(calls) PROVE Bounded(n)
  <2>1. n = 0 /\ Threshold \in Nat
    BY <1>2, GovernorAssumption DEF GovernorAssumption
  <2>2. QED
    BY <1>3, <2>1, PastBreakerType DEF Bounded
<1>4. QED
  BY <1>1, <1>3, RunsAreBounded DEF BreakerInv

(***************************************************************************)
(* The types and the bound on failures, for any number of callers.         *)
(***************************************************************************)
THEOREM BreakerInvHolds == GovernorSpec => []BreakerInv
<1>1. GovernorInit => BreakerInv
  BY InitIsBounded
<1>2. BreakerInv /\ [GovernorNext]_governorVars => BreakerInv'
  BY StepKeepsBreakerInv
<1>3. QED
  BY <1>1, <1>2, PTL DEF GovernorSpec

(***************************************************************************)
(* The variables of the governor keep their types.                         *)
(***************************************************************************)
THEOREM GovernorTypes == GovernorSpec => []GovernorTypeOK
<1>1. BreakerInv => GovernorTypeOK
  BY DEF BreakerInv
<1>2. QED
  BY <1>1, BreakerInvHolds, PTL

(***************************************************************************)
(* Within a cooldown, fewer calls fail in a row than the threshold and one *)
(* of each caller.                                                         *)
(***************************************************************************)
THEOREM FailuresStayBounded == GovernorSpec => []FailuresAreBounded
<1>1. BreakerInv => FailuresAreBounded
  BY DEF BreakerInv
<1>2. QED
  BY <1>1, BreakerInvHolds, PTL

-------------------------------------------------------------------------------
(***************************************************************************)
(* Totals. They grow by what is put in front and with what is added up.    *)
(***************************************************************************)
Summing(amounts) ==
  CHOOSE sum : sum = [n \in 0..Len(amounts) |-> IF n = 0 THEN 0 ELSE sum[n - 1] + amounts[n]]

LEMMA SumUnfolds ==
  ASSUME NEW amounts \in Seq(Nat)
  PROVE  /\ Total(amounts) = Summing(amounts)[Len(amounts)]
         /\ Summing(amounts)[0] = 0
         /\ \A n \in 0..Len(amounts) : Summing(amounts)[n] \in Nat
         /\ \A n \in 0..Len(amounts) - 1 :
              Summing(amounts)[n + 1] = Summing(amounts)[n] + amounts[n + 1]
<1> DEFINE m == Len(amounts)
           add == [n \in Nat |-> [sum \in Nat |-> IF n < m THEN sum + amounts[n + 1] ELSE sum]]
           S == Summing(amounts)
<1>1. m \in Nat /\ \A n \in Nat : n < m => amounts[n + 1] \in Nat
  OBVIOUS
<1>2. \A n \in Nat : \A sum \in Nat : (IF n < m THEN sum + amounts[n + 1] ELSE sum) \in Nat
  BY <1>1
<1>3. add \in [Nat -> [Nat -> Nat]]
  BY <1>2
<1>4. \A n \in Nat : \A sum \in Nat : n < m => add[n][sum] = sum + amounts[n + 1]
  OBVIOUS
<1> HIDE DEF add
<1>5. PICK f : f \in [Nat -> Nat] /\ f[0] = 0 /\ \A n \in Nat : f[n + 1] = add[n][f[n]]
  <2>1. \E f : Iterates(f, Nat, 0, add)
    BY <1>3, Iteration
  <2>2. QED
    BY <2>1 DEF Iterates
<1> DEFINE h == [n \in 0..m |-> f[n]]
<1>6. \A n \in 0..m : h[n] = IF n = 0 THEN 0 ELSE h[n - 1] + amounts[n]
  <2> TAKE n \in 0..m
  <2>1. CASE n = 0
    BY <1>1, <1>5, <2>1
  <2>2. CASE n # 0
    <3>1. n - 1 \in Nat /\ n - 1 < m /\ n - 1 \in 0..m /\ (n - 1) + 1 = n
      BY <1>1, <2>2
    <3>2. f[(n - 1) + 1] = add[n - 1][f[n - 1]]
      BY <1>5, <3>1
    <3>3. f[n] = f[n - 1] + amounts[n]
      BY <1>4, <1>5, <3>1, <3>2
    <3>4. QED
      BY <2>2, <3>1, <3>3
  <2>3. QED
    BY <2>1, <2>2
<1>7. h = [n \in 0..m |-> h[n]]
  OBVIOUS
<1> HIDE DEF h
<1>8. h = [n \in 0..m |-> IF n = 0 THEN 0 ELSE h[n - 1] + amounts[n]]
  BY <1>6, <1>7
<1>9. S = [n \in 0..m |-> IF n = 0 THEN 0 ELSE S[n - 1] + amounts[n]]
  BY <1>8 DEF Summing
<1>10. Total(amounts) = S[m]
  BY DEF Total, Summing
<1> HIDE DEF S
<1>11. \A n \in 0..m : S[n] = IF n = 0 THEN 0 ELSE S[n - 1] + amounts[n]
  BY <1>9
<1>12. S[0] = 0
  BY <1>1, <1>11
<1>13. ASSUME NEW n \in 0..m - 1
       PROVE  S[n + 1] = S[n] + amounts[n + 1]
  <2>1. n + 1 \in 0..m /\ n + 1 # 0 /\ (n + 1) - 1 = n
    BY <1>1
  <2>2. QED
    BY <1>11, <2>1
<1> DEFINE T == {n \in Nat : n <= m => S[n] \in Nat}
<1>14. 0 \in T
  BY <1>1, <1>12
<1>15. ASSUME NEW n \in Nat, n \in T
       PROVE  n + 1 \in T
  <2>1. SUFFICES ASSUME n + 1 <= m PROVE S[n + 1] \in Nat
    OBVIOUS
  <2>2. n \in 0..m - 1 /\ amounts[n + 1] \in Nat /\ S[n] \in Nat
    BY <1>1, <1>15, <2>1
  <2>3. S[n + 1] = S[n] + amounts[n + 1]
    BY <1>13, <2>2
  <2>4. QED
    BY <2>2, <2>3
<1> HIDE DEF T
<1>18. Nat \subseteq T
  BY <1>14, <1>15, SetInduction
<1>16. \A n \in 0..m : S[n] \in Nat
  BY <1>1, <1>18 DEF T
<1>17. QED
  BY <1>10, <1>12, <1>13, <1>16 DEF S

LEMMA TotalType ==
  ASSUME NEW amounts \in Seq(Nat)
  PROVE  Total(amounts) \in Nat
BY SumUnfolds

LEMMA TotalOfNothing ==
  ASSUME NEW amounts \in Seq(Nat), Len(amounts) = 0
  PROVE  Total(amounts) = 0
BY SumUnfolds

LEMMA AmountsAreNat == \A a \in Seq(Nat) : \A i \in 1..Len(a) : a[i] \in Nat
OBVIOUS

LEMMA TotalWithOneMore ==
  ASSUME NEW amounts \in Seq(Nat), NEW longer \in Seq(Nat), Len(longer) = Len(amounts) + 1,
         \A i \in 1..Len(amounts) : longer[i + 1] = amounts[i]
  PROVE  Total(longer) = longer[1] + Total(amounts)
<1> DEFINE m == Len(amounts)
           T == {n \in Nat : n <= m => Summing(longer)[n + 1] = longer[1] + Summing(amounts)[n]}
<1>1. m \in Nat /\ longer[1] \in Nat
  OBVIOUS
<1>7. \A i \in 1..m : amounts[i] \in Nat
  BY AmountsAreNat, Zenon
<1>2. 0 \in T
  BY <1>1, SumUnfolds
<1>3. ASSUME NEW n \in Nat, n \in T
      PROVE  n + 1 \in T
  <2>1. SUFFICES ASSUME n + 1 <= m
                 PROVE  Summing(longer)[(n + 1) + 1] = longer[1] + Summing(amounts)[n + 1]
    OBVIOUS
  <2>2. n + 1 \in 0..Len(longer) - 1 /\ n \in 0..m - 1 /\ n + 1 \in 1..m
    BY <1>1, <2>1
  <2>3. Summing(longer)[(n + 1) + 1] = Summing(longer)[n + 1] + longer[(n + 1) + 1]
    BY <2>2, SumUnfolds
  <2>4. Summing(amounts)[n + 1] = Summing(amounts)[n] + amounts[n + 1]
    BY <2>2, SumUnfolds
  <2>5. longer[(n + 1) + 1] = amounts[n + 1] /\ amounts[n + 1] \in Nat
    <3>1. amounts[n + 1] \in Nat
      BY <1>7, <2>2, Zenon
    <3>2. \A i \in 1..m : longer[i + 1] = amounts[i]
      OBVIOUS
    <3>3. QED
      BY <2>2, <3>1, <3>2, Zenon
  <2>6. Summing(amounts)[n] \in Nat
    BY <2>2, SumUnfolds
  <2>7. Summing(longer)[n + 1] = longer[1] + Summing(amounts)[n]
    BY <1>1, <1>3, <2>2
  <2>8. QED
    BY <1>1, <2>3, <2>4, <2>5, <2>6, <2>7
<1> HIDE DEF T
<1>4. Nat \subseteq T
  BY <1>2, <1>3, SetInduction
<1>5. Summing(longer)[m + 1] = longer[1] + Summing(amounts)[m]
  BY <1>1, <1>4 DEF T
<1>6. QED
  BY <1>5, SumUnfolds

LEMMA TotalOfLess ==
  ASSUME NEW amounts \in Seq(Nat), NEW less \in Seq(Nat), Len(less) <= Len(amounts),
         \A i \in 1..Len(less) : less[i] <= amounts[i]
  PROVE  Total(less) <= Total(amounts)
<1> DEFINE m == Len(amounts)
           k == Len(less)
           T == {n \in Nat : n <= m =>
                   IF n <= k THEN Summing(less)[n] <= Summing(amounts)[n]
                             ELSE Summing(less)[k] <= Summing(amounts)[n]}
<1>1. m \in Nat /\ k \in Nat /\ k <= m
  OBVIOUS
<1>7. \A i \in 1..k : less[i] \in Nat
  BY AmountsAreNat, Zenon
<1>2. 0 \in T
  BY <1>1, SumUnfolds
<1>3. ASSUME NEW n \in Nat, n \in T
      PROVE  n + 1 \in T
  <2>1. SUFFICES ASSUME n + 1 <= m PROVE n + 1 \in T
    OBVIOUS
  <2>2. n \in 0..m - 1 /\ n + 1 \in 1..m /\ n \in 0..m /\ k \in 0..k
    BY <1>1, <2>1
  <2>3. /\ Summing(amounts)[n + 1] = Summing(amounts)[n] + amounts[n + 1]
        /\ Summing(amounts)[n] \in Nat /\ amounts[n + 1] \in Nat /\ Summing(less)[k] \in Nat
    BY <2>2, SumUnfolds
  <2>4. CASE n + 1 <= k
    <3>1. n \in 0..k - 1 /\ n + 1 \in 1..k /\ n \in 0..k
      BY <1>1, <2>4
    <3>2. Summing(less)[n + 1] = Summing(less)[n] + less[n + 1] /\ Summing(less)[n] \in Nat
      BY <3>1, SumUnfolds
    <3>3. less[n + 1] \in Nat /\ less[n + 1] <= amounts[n + 1]
      BY <1>7, <3>1, Zenon
    <3>4. Summing(less)[n] <= Summing(amounts)[n]
      BY <1>3, <2>2, <3>1
    <3>5. Summing(less)[n + 1] <= Summing(amounts)[n + 1]
      <4>1. \A w, x, y, z \in Nat : w <= x /\ y <= z => w + y <= x + z
        OBVIOUS
      <4>2. QED
        BY <2>3, <3>2, <3>3, <3>4, <4>1, Zenon
    <3>6. QED
      BY <2>4, <3>5
  <2>5. CASE n + 1 > k
    <3>1. Summing(less)[k] <= Summing(amounts)[n]
      <4>1. n <= m /\ (n <= k => n = k)
        BY <1>1, <2>2, <2>5
      <4>2. QED
        BY <1>3, <4>1
    <3>2. Summing(less)[k] <= Summing(amounts)[n + 1]
      <4>1. \A x, y, z \in Nat : x <= y => x <= y + z
        OBVIOUS
      <4>2. QED
        BY <2>3, <3>1, <4>1, Zenon
    <3>3. QED
      BY <1>1, <2>5, <3>2
  <2>6. QED
    BY <1>1, <2>4, <2>5
<1> HIDE DEF T
<1>4. Nat \subseteq T
  BY <1>2, <1>3, SetInduction
<1>5. Summing(less)[k] <= Summing(amounts)[m]
  BY <1>1, <1>4 DEF T
<1>6. QED
  BY <1>5, SumUnfolds

-------------------------------------------------------------------------------
(***************************************************************************)
(* A call costs no more than the most expensive one.                       *)
(***************************************************************************)
LEMMA MostExists ==
  ASSUME NEW S \in SUBSET Nat, IsFiniteSet(S), S # {}
  PROVE  Max(S) \in S /\ \A x \in S : x <= Max(S)
<1>1. PICK m \in Nat : ExistsBijection(1..m, S)
  BY FS_CardinalityType
<1>2. PICK f \in [1..m -> S] : \A x \in S : \E i \in 1..m : f[i] = x
  BY <1>1 DEF ExistsBijection, Bijection, Surjection
<1>3. \A i \in 1..m : f[i] \in Nat
  OBVIOUS
<1> DEFINE T == {n \in Nat : n <= m => \E bound \in Nat : \A i \in 1..n : f[i] <= bound}
<1>4. 0 \in T
  OBVIOUS
<1>5. ASSUME NEW n \in Nat, n \in T
      PROVE  n + 1 \in T
  <2>1. SUFFICES ASSUME n + 1 <= m PROVE \E bound \in Nat : \A i \in 1..n + 1 : f[i] <= bound
    OBVIOUS
  <2>2. PICK bound \in Nat : \A i \in 1..n : f[i] <= bound
    BY <1>5, <2>1
  <2>3. f[n + 1] \in Nat /\ \A i \in 1..n : f[i] \in Nat
    BY <1>3, <2>1
  <2>4. bound + f[n + 1] \in Nat /\ \A i \in 1..n + 1 : f[i] <= bound + f[n + 1]
    <3>1. \A i \in 1..n : f[i] <= bound + f[n + 1]
      BY <2>2, <2>3
    <3>2. f[n + 1] <= bound + f[n + 1] /\ bound + f[n + 1] \in Nat
      BY <2>3
    <3>3. \A i \in 1..n + 1 : i \in 1..n \/ i = n + 1
      OBVIOUS
    <3>4. QED
      BY <3>1, <3>2, <3>3, Zenon
  <2>5. QED
    BY <2>4
<1> HIDE DEF T
<1>6. Nat \subseteq T
  BY <1>4, <1>5, SetInduction
<1>11. m \in T
  BY <1>6
<1>12. PICK bound \in Nat : \A i \in 1..m : f[i] <= bound
  BY <1>11 DEF T
<1>13. \A x \in S : x \in Nat /\ x <= bound
  BY <1>2, <1>12
<1> DEFINE U == {bound - x : x \in S}
<1>7. U \in SUBSET Nat /\ U # {}
  BY <1>13
<1>8. PICK u \in U : \A y \in U : u <= y
  BY <1>7, Least
<1>9. PICK x \in S : u = bound - x
  BY <1>8
<1>10. ASSUME NEW y \in S PROVE x >= y
  <2>1. u <= bound - y
    BY <1>8
  <2>2. QED
    BY <1>9, <1>13, <2>1
<1>14. Max(S) \in S /\ \A y \in S : Max(S) >= y
  BY <1>10 DEF Max
<1>15. QED
  BY <1>13, <1>14

LEMMA MostBounds ==
  /\ MostTokens \in Nat /\ \A u \in Usage : u.input + u.output <= MostTokens
  /\ MostMoney \in Nat /\ \A u \in Usage : Cost(u) <= MostMoney
<1> DEFINE S == {u.input + u.output : u \in Usage}
           M == {Cost(u) : u \in Usage}
<1>1. IsFiniteSet(Usage)
  BY GovernorAssumption DEF GovernorAssumption
<1>2. IsFiniteSet(S)
  <2>1. [u \in Usage |-> u.input + u.output] \in Surjection(Usage, S)
    BY DEF Surjection
  <2>2. QED
    BY <1>1, <2>1, FS_Surjection
<1>3. IsFiniteSet(M)
  <2>1. [u \in Usage |-> Cost(u)] \in Surjection(Usage, M)
    BY DEF Surjection
  <2>2. QED
    BY <1>1, <2>1, FS_Surjection
<1>4. IsFiniteSet(S \cup {0}) /\ IsFiniteSet(M \cup {0})
  BY <1>2, <1>3, FS_AddElement
<1>5. S \cup {0} \in SUBSET Nat /\ M \cup {0} \in SUBSET Nat
  BY CostType
<1>6. MostTokens = Max(S \cup {0}) /\ MostMoney = Max(M \cup {0})
  BY DEF MostTokens, MostMoney
<1>7. MostTokens \in S \cup {0} /\ \A x \in S \cup {0} : x <= MostTokens
  <2> HIDE DEF S
  <2>1. QED
    BY <1>4, <1>5, <1>6, MostExists
<1>8. MostMoney \in M \cup {0} /\ \A x \in M \cup {0} : x <= MostMoney
  <2> HIDE DEF M
  <2>1. QED
    BY <1>4, <1>5, <1>6, MostExists
<1>9. QED
  BY <1>5, <1>7, <1>8

-------------------------------------------------------------------------------
(***************************************************************************)
(* What is spent in the window. A record counts for what it says until it  *)
(* is older than the window.                                               *)
(***************************************************************************)
TokenAmounts(table) ==
  [i \in 1..Len(table) |-> IF InWindow(table[i]) THEN table[i].tokens ELSE 0]

MoneyAmounts(table) ==
  [i \in 1..Len(table) |-> IF InWindow(table[i]) THEN table[i].cost ELSE 0]

LEMMA AmountsType ==
  ASSUME NEW table \in Seq(Call)
  PROVE  /\ TokenAmounts(table) \in Seq(Nat) /\ Len(TokenAmounts(table)) = Len(table)
         /\ MoneyAmounts(table) \in Seq(Nat) /\ Len(MoneyAmounts(table)) = Len(table)
         /\ Total(TokenAmounts(table)) \in Nat /\ Total(MoneyAmounts(table)) \in Nat
<1>1. ASSUME NEW i \in 1..Len(table)
      PROVE  table[i].tokens \in Nat /\ table[i].cost \in Nat
  <2>1. table[i] \in Call
    OBVIOUS
  <2>2. QED
    BY <2>1 DEF Call
<1>2. Len(table) \in Nat
  OBVIOUS
<1>3. TokenAmounts(table) \in Seq(Nat) /\ Len(TokenAmounts(table)) = Len(table)
  BY <1>1, <1>2 DEF TokenAmounts
<1>4. MoneyAmounts(table) \in Seq(Nat) /\ Len(MoneyAmounts(table)) = Len(table)
  BY <1>1, <1>2 DEF MoneyAmounts
<1>5. QED
  BY <1>3, <1>4, TotalType

LEMMA Spent ==
  /\ TokensSpent = Total(TokenAmounts(calls)) /\ TokensSpent' = Total(TokenAmounts(calls'))
  /\ MoneySpent = Total(MoneyAmounts(calls)) /\ MoneySpent' = Total(MoneyAmounts(calls'))
BY DEF TokensSpent, MoneySpent, TokenAmounts, MoneyAmounts, InWindow

\* A record made now counts from now on.
LEMMA SpentOnMore ==
  ASSUME calls \in Seq(Call), NEW call \in Call, calls' = <<call>> \o calls, call.age = 0
  PROVE  TokensSpent' = call.tokens + TokensSpent /\ MoneySpent' = call.cost + MoneySpent
<1>1. PICK n \in Nat : n = Len(calls)
  OBVIOUS
<1>2. /\ calls' \in Seq(Call) /\ Len(calls') = n + 1 /\ calls'[1] = call
      /\ \A i \in 1..n : calls'[i + 1] = calls[i]
  BY <1>1, RecordedCalls
<1>3. InWindow(call)
  BY GovernorAssumption DEF GovernorAssumption, InWindow
<1>4. PICK tokens, money : tokens = TokenAmounts(calls) /\ money = MoneyAmounts(calls)
  OBVIOUS
<1>5. PICK moreTokens, moreMoney : moreTokens = TokenAmounts(calls') /\ moreMoney = MoneyAmounts(calls')
  OBVIOUS
<1>6. /\ tokens \in Seq(Nat) /\ Len(tokens) = n /\ TokensSpent = Total(tokens)
      /\ money \in Seq(Nat) /\ Len(money) = n /\ MoneySpent = Total(money)
  BY <1>1, <1>4, AmountsType, Spent
<1>7. /\ moreTokens \in Seq(Nat) /\ Len(moreTokens) = n + 1 /\ TokensSpent' = Total(moreTokens)
      /\ moreMoney \in Seq(Nat) /\ Len(moreMoney) = n + 1 /\ MoneySpent' = Total(moreMoney)
  BY <1>2, <1>5, AmountsType, Spent
<1>8. moreTokens[1] = call.tokens /\ moreMoney[1] = call.cost
  BY <1>2, <1>3, <1>5 DEF TokenAmounts, MoneyAmounts
<1>9. \A i \in 1..n : moreTokens[i + 1] = tokens[i] /\ moreMoney[i + 1] = money[i]
  BY <1>1, <1>2, <1>4, <1>5 DEF TokenAmounts, MoneyAmounts
<1>10. Total(moreTokens) = moreTokens[1] + Total(tokens)
  BY <1>6, <1>7, <1>9, TotalWithOneMore
<1>11. Total(moreMoney) = moreMoney[1] + Total(money)
  BY <1>6, <1>7, <1>9, TotalWithOneMore
<1>12. QED
  BY <1>6, <1>7, <1>8, <1>10, <1>11

\* With time, less is in the window.
LEMMA SpentOnLess ==
  ASSUME calls \in Seq(Call), Tick
  PROVE  calls' \in Seq(Call) /\ TokensSpent' <= TokensSpent /\ MoneySpent' <= MoneySpent
<1>1. PICK n \in Nat : n = Cardinality(Seen) /\ n <= Len(calls)
  BY SeenCalls
<1>2. calls' = [i \in 1..n |-> Older(calls[i])]
  BY <1>1 DEF Tick
<1>3. \A i \in 1..n : i \in 1..Len(calls) /\ calls[i] \in Call
  BY <1>1
<1>4. /\ calls' \in Seq(Call) /\ Len(calls') = n
      /\ \A i \in 1..n : calls'[i] = Older(calls[i])
  BY <1>2, <1>3, OlderCall
<1>5. ASSUME NEW call \in Call
      PROVE  /\ Older(call).tokens = call.tokens /\ Older(call).cost = call.cost
             /\ call.tokens \in Nat /\ call.cost \in Nat
             /\ InWindow(Older(call)) => InWindow(call)
  <2>1. Older(call).tokens = call.tokens /\ Older(call).cost = call.cost
    BY DEF Older, Call
  <2>2. Older(call) \in Call /\ call.age <= Older(call).age
    BY OlderCall
  <2>3. call.age \in Nat /\ Older(call).age \in Nat /\ Window \in Nat
    BY <2>2, HorizonType, GovernorAssumption DEF Call, GovernorAssumption
  <2>4. QED
    BY <2>1, <2>2, <2>3 DEF InWindow, Call
<1>6. PICK tokens, money : tokens = TokenAmounts(calls) /\ money = MoneyAmounts(calls)
  OBVIOUS
<1>7. PICK lessTokens, lessMoney : lessTokens = TokenAmounts(calls') /\ lessMoney = MoneyAmounts(calls')
  OBVIOUS
<1>8. /\ tokens \in Seq(Nat) /\ Len(tokens) = Len(calls) /\ TokensSpent = Total(tokens)
      /\ money \in Seq(Nat) /\ Len(money) = Len(calls) /\ MoneySpent = Total(money)
  BY <1>6, AmountsType, Spent
<1>9. /\ lessTokens \in Seq(Nat) /\ Len(lessTokens) = n /\ TokensSpent' = Total(lessTokens)
      /\ lessMoney \in Seq(Nat) /\ Len(lessMoney) = n /\ MoneySpent' = Total(lessMoney)
  BY <1>4, <1>7, AmountsType, Spent
<1>10. ASSUME NEW i \in 1..n
       PROVE  lessTokens[i] <= tokens[i] /\ lessMoney[i] <= money[i]
  <2>1. PICK call \in Call : call = calls[i]
    BY <1>3
  <2>2. calls'[i] = Older(call) /\ i \in 1..Len(calls) /\ i \in 1..Len(calls')
    BY <1>3, <1>4, <2>1
  <2>3. /\ lessTokens[i] = IF InWindow(Older(call)) THEN call.tokens ELSE 0
        /\ lessMoney[i] = IF InWindow(Older(call)) THEN call.cost ELSE 0
    <3>1. /\ lessTokens[i] = IF InWindow(calls'[i]) THEN calls'[i].tokens ELSE 0
          /\ lessMoney[i] = IF InWindow(calls'[i]) THEN calls'[i].cost ELSE 0
      BY <1>7, <2>2 DEF TokenAmounts, MoneyAmounts, InWindow
    <3>2. QED
      BY <1>5, <2>2, <3>1
  <2>4. /\ tokens[i] = IF InWindow(call) THEN call.tokens ELSE 0
        /\ money[i] = IF InWindow(call) THEN call.cost ELSE 0
    BY <1>6, <2>1, <2>2 DEF TokenAmounts, MoneyAmounts
  <2>5. QED
    BY <1>5, <2>3, <2>4
<1>11. QED
  BY <1>1, <1>4, <1>8, <1>9, <1>10, TotalOfLess

-------------------------------------------------------------------------------
(***************************************************************************)
(* A call under way stands for the most that one may cost.                 *)
(***************************************************************************)
LEMMA CallingType ==
  /\ Calling \in SUBSET Caller /\ Cardinality(Calling) \in Nat /\ Cardinality(Caller) \in Nat
  /\ Cardinality(Calling) <= Cardinality(Caller)
<1>1. Calling \in SUBSET Caller
  BY DEF Calling
<1>2. QED
  BY <1>1, FewPastBreaker

LEMMA Product ==
  ASSUME NEW most \in Nat, NEW m \in Nat, NEW n \in Nat, m <= n
  PROVE  m * most \in Nat /\ n * most \in Nat /\ m * most <= n * most
<1>1. PICK k \in Nat : n = m + k
  <2>1. n - m \in Nat /\ n = m + (n - m)
    OBVIOUS
  <2>2. QED
    BY <2>1
<1>2. n * most = m * most + k * most
  BY <1>1
<1>3. m * most \in Nat /\ k * most \in Nat
  BY <1>1
<1>4. QED
  BY <1>2, <1>3

\* A step that spends nothing and lets nobody call.
LEMMA NothingMoreSpent ==
  ASSUME Calling' \subseteq Calling, NEW most \in Nat, NEW limit \in Nat,
         NEW spent \in Nat, NEW later \in Nat, later <= spent, Within(spent, limit, most)
  PROVE  Within(later, limit, most)'
<1>1. Cardinality(Calling') <= Cardinality(Calling) /\ Cardinality(Calling') \in Nat
  BY CallingType, FewPastBreaker
<1>2. PICK m \in Nat, n \in Nat, all \in Nat :
        m = Cardinality(Calling') /\ n = Cardinality(Calling) /\ all = Cardinality(Caller)
  BY <1>1, CallingType
<1>3. m * most <= n * most /\ m * most \in Nat /\ n * most \in Nat /\ all * most \in Nat
  BY <1>1, <1>2, Product
<1>4. spent + n * most <= (limit - 1) + all * most
  BY <1>2 DEF Within
<1>5. later + m * most <= (limit - 1) + all * most
  BY <1>3, <1>4
<1>6. QED
  BY <1>2, <1>5 DEF Within

\* Who passes the check found less than the limit spent.
LEMMA PassedWithin ==
  ASSUME NEW most \in Nat, NEW limit \in Nat, NEW spent \in Nat, spent < limit
  PROVE  Within(spent, limit, most)'
<1>1. Calling' \in SUBSET Caller
  BY DEF Calling
<1>2. PICK m \in Nat, all \in Nat :
        m = Cardinality(Calling') /\ all = Cardinality(Caller) /\ m <= all
  BY <1>1, FewPastBreaker
<1>3. m * most <= all * most /\ m * most \in Nat /\ all * most \in Nat
  BY <1>2, Product
<1>4. spent + m * most <= (limit - 1) + all * most
  BY <1>3
<1>5. QED
  BY <1>2, <1>4 DEF Within

\* Who has called spends no more than he stood for.
LEMMA CallSpent ==
  ASSUME NEW c \in Calling, Calling' = Calling \ {c}, NEW most \in Nat, NEW limit \in Nat,
         NEW spent \in Nat, NEW cost \in Nat, cost <= most, Within(spent, limit, most)
  PROVE  Within(cost + spent, limit, most)'
<1>1. Cardinality(Calling') = Cardinality(Calling) - 1
  BY CallingType, FewPastBreaker
<1>2. Cardinality(Calling') \in Nat
  BY CallingType, FewPastBreaker
<1>3. PICK m \in Nat, all \in Nat :
        m = Cardinality(Calling') /\ m + 1 = Cardinality(Calling) /\ all = Cardinality(Caller)
  BY <1>1, <1>2, CallingType
<1>4. spent + (m + 1) * most <= (limit - 1) + all * most
  BY <1>3 DEF Within
<1>5. (m + 1) * most = m * most + most /\ m * most \in Nat /\ all * most \in Nat
  OBVIOUS
<1>6. (cost + spent) + m * most <= (limit - 1) + all * most
  BY <1>4, <1>5
<1>7. QED
  BY <1>3, <1>6 DEF Within

LEMMA StepKeepsSpending ==
  ASSUME GovernorTypeOK, SpendingIsBounded, [GovernorNext]_governorVars
  PROVE  SpendingIsBounded'
<1>1. /\ calls \in Seq(Call) /\ stage \in [Caller -> {"idle", "retry", "budget", "call"}]
      /\ attempt \in [Caller -> 1..2]
  BY DEF GovernorTypeOK
<1>2. /\ TokenBudget \in Nat /\ (SpendLimit # None => SpendLimit \in Nat)
      /\ MostTokens \in Nat /\ MostMoney \in Nat /\ TokensSpent \in Nat /\ MoneySpent \in Nat
  BY <1>1, GovernorAssumption, MostBounds, AmountsType, Spent DEF GovernorAssumption
<1>3. ASSUME Calling' \subseteq Calling, TokensSpent' \in Nat, MoneySpent' \in Nat,
             TokensSpent' <= TokensSpent, MoneySpent' <= MoneySpent
      PROVE  SpendingIsBounded'
  <2>1. PICK tokens \in Nat, money \in Nat : tokens = TokensSpent' /\ money = MoneySpent'
    BY <1>3
  <2>2. TokenBudget > 0 => Within(tokens, TokenBudget, MostTokens)'
    BY <1>2, <1>3, <2>1, NothingMoreSpent DEF SpendingIsBounded
  <2>3. SpendLimit # None /\ SpendLimit # 0 => Within(money, SpendLimit, MostMoney)'
    BY <1>2, <1>3, <2>1, NothingMoreSpent DEF SpendingIsBounded
  <2>4. QED
    BY <2>1, <2>2, <2>3 DEF SpendingIsBounded
<1>4. ASSUME calls' = calls, Calling' \subseteq Calling
      PROVE  SpendingIsBounded'
  <2>1. TokensSpent' = TokensSpent /\ MoneySpent' = MoneySpent
    BY <1>4 DEF TokensSpent, MoneySpent
  <2>2. QED
    BY <1>2, <1>3, <1>4, <2>1
<1>5. ASSUME NEW c \in Caller, NEW call \in Call, calls' = <<call>> \o calls, call.age = 0,
             c \in Calling, Calling' = Calling \ {c},
             call.tokens <= MostTokens, call.cost <= MostMoney
      PROVE  SpendingIsBounded'
  <2>1. TokensSpent' = call.tokens + TokensSpent /\ MoneySpent' = call.cost + MoneySpent
    BY <1>1, <1>5, SpentOnMore
  <2>2. call.tokens \in Nat /\ call.cost \in Nat
    BY DEF Call
  <2>3. PICK tokens \in Nat, money \in Nat : tokens = TokensSpent /\ money = MoneySpent
    BY <1>2
  <2>4. TokenBudget > 0 => Within(call.tokens + tokens, TokenBudget, MostTokens)'
    BY <1>2, <1>5, <2>2, <2>3, CallSpent DEF SpendingIsBounded
  <2>5. SpendLimit # None /\ SpendLimit # 0 => Within(call.cost + money, SpendLimit, MostMoney)'
    BY <1>2, <1>5, <2>2, <2>3, CallSpent DEF SpendingIsBounded
  <2>6. QED
    BY <2>1, <2>3, <2>4, <2>5 DEF SpendingIsBounded
<1>6. CASE UNCHANGED governorVars
  BY <1>4, <1>6 DEF governorVars, Calling
<1>7. ASSUME NEW c \in Caller, CheckBreaker(c) PROVE SpendingIsBounded'
  <2>1. calls' = calls /\ Calling' \subseteq Calling
    BY <1>1, <1>7 DEF CheckBreaker, Calling
  <2>2. QED
    BY <1>4, <2>1
<1>8. ASSUME NEW c \in Caller, CheckBudget(c) PROVE SpendingIsBounded'
  <2>1. calls' = calls
    BY <1>8 DEF CheckBudget
  <2>2. CASE Exhausted
    <3>1. Calling' \subseteq Calling
      BY <1>1, <1>8, <2>2 DEF CheckBudget, Calling
    <3>2. QED
      BY <1>4, <2>1, <3>1
  <2>3. CASE ~Exhausted
    <3>1. PICK tokens \in Nat, money \in Nat : tokens = TokensSpent /\ money = MoneySpent
      BY <1>2
    <3>2. tokens = TokensSpent' /\ money = MoneySpent'
      BY <2>1, <3>1 DEF TokensSpent, MoneySpent
    <3>3. (TokenBudget > 0 => tokens < TokenBudget) /\ (SpendLimit # None => money < SpendLimit)
      BY <1>2, <2>3, <3>1 DEF Exhausted
    <3>4. TokenBudget > 0 => Within(tokens, TokenBudget, MostTokens)'
      BY <1>2, <3>3, PassedWithin
    <3>5. SpendLimit # None => Within(money, SpendLimit, MostMoney)'
      BY <1>2, <3>3, PassedWithin
    <3>6. QED
      BY <3>2, <3>4, <3>5 DEF SpendingIsBounded
  <2>4. QED
    BY <2>2, <2>3
<1>9. ASSUME NEW c \in Caller, NEW usage \in Usage, Answer(c, usage) PROVE SpendingIsBounded'
  <2>1. PICK call : call = [ok |-> TRUE, tokens |-> usage.input + usage.output,
                            cost |-> Cost(usage), age |-> 0]
    OBVIOUS
  <2>2. call \in Call /\ call.age = 0 /\ call.tokens <= MostTokens /\ call.cost <= MostMoney
    BY <2>1, CostType, HorizonType, MostBounds DEF Call
  <2>3. calls' = <<call>> \o calls
    BY <1>9, <2>1 DEF Answer, RecordAnswer
  <2>4. c \in Calling /\ Calling' = Calling \ {c}
    BY <1>1, <1>9 DEF Answer, AfterThis, Calling
  <2>5. QED
    BY <1>5, <2>2, <2>3, <2>4
<1>10. ASSUME NEW c \in Caller, Failure(c) PROVE SpendingIsBounded'
  <2>1. PICK call : call = [ok |-> FALSE, tokens |-> 0, cost |-> 0, age |-> 0]
    OBVIOUS
  <2>2. call \in Call /\ call.age = 0 /\ call.tokens <= MostTokens /\ call.cost <= MostMoney
    BY <1>2, <2>1, HorizonType DEF Call
  <2>3. calls' = <<call>> \o calls
    BY <1>10, <2>1 DEF Failure
  <2>4. c \in Calling /\ Calling' = Calling \ {c}
    BY <1>1, <1>10 DEF Failure, AfterThis, Calling
  <2>5. QED
    BY <1>5, <2>2, <2>3, <2>4
<1>11. ASSUME NEW c \in Caller, Die(c) PROVE SpendingIsBounded'
  <2>1. calls' = calls /\ Calling' \subseteq Calling
    BY <1>1, <1>11 DEF Die, Calling
  <2>2. QED
    BY <1>4, <2>1
<1>12. CASE Tick
  <2>1. calls' \in Seq(Call) /\ TokensSpent' <= TokensSpent /\ MoneySpent' <= MoneySpent
    BY <1>1, <1>12, SpentOnLess
  <2>2. TokensSpent' \in Nat /\ MoneySpent' \in Nat
    BY <2>1, AmountsType, Spent
  <2>3. Calling' = Calling
    BY <1>12 DEF Tick, Calling
  <2>4. QED
    BY <1>3, <2>1, <2>2, <2>3
<1>13. QED
  BY <1>6, <1>7, <1>8, <1>9, <1>10, <1>11, <1>12 DEF GovernorNext

(***************************************************************************)
(* What the window holds exceeds a budget by less than one call of each    *)
(* caller, those under way included. (SpendGovernor.check, cost.py)        *)
(***************************************************************************)
THEOREM SpendingStaysBounded == GovernorSpec => []SpendingIsBounded
<1>1. GovernorInit => SpendingIsBounded
  <2> SUFFICES ASSUME GovernorInit PROVE SpendingIsBounded
    OBVIOUS
  <2>1. Len(calls) = 0 /\ calls \in Seq(Call) /\ Calling = {}
    BY DEF GovernorInit, Calling
  <2>2. TokensSpent = 0 /\ MoneySpent = 0
    BY <2>1, AmountsType, Spent, TotalOfNothing
  <2>3. Cardinality(Calling) = 0
    BY <2>1, FS_EmptySet
  <2>4. ASSUME NEW most \in Nat, NEW limit \in Nat, limit > 0
        PROVE  Within(0, limit, most)
    <3>1. PICK all \in Nat : all = Cardinality(Caller)
      BY CallingType
    <3>2. 0 * most = 0 /\ all * most \in Nat
      OBVIOUS
    <3>3. 0 + 0 * most <= (limit - 1) + all * most
      BY <2>4, <3>2
    <3>4. QED
      BY <2>3, <3>1, <3>3 DEF Within
  <2>5. QED
    BY <2>2, <2>4, MostBounds, GovernorAssumption DEF SpendingIsBounded, GovernorAssumption
<1>2. GovernorTypeOK /\ SpendingIsBounded /\ [GovernorNext]_governorVars => SpendingIsBounded'
  BY StepKeepsSpending
<1>3. QED
  BY <1>1, <1>2, GovernorTypes, PTL DEF GovernorSpec

-------------------------------------------------------------------------------
(***************************************************************************)
(* Links, nonces and answers for any number of processes, tickets, people  *)
(* and pages, any lifetimes and any configuration. That a link decides     *)
(* once follows from whose a burned nonce is: of one request in progress   *)
(* or of one decision. What a reader is told stays true because a ticket   *)
(* whose page was rendered is past being analyzed and is never offered     *)
(* again.                                                                  *)
(***************************************************************************)

Decision ==
  [ticket : Ticket, act : Mutating, by : Principal, token : Token \cup {Nobody}]

Reading ==
  [ticket : Ticket, by : Principal, token : Token \cup {Nobody},
   says : {"Rejected.", "Approved.", "Could not approve."}]

HistoryTypeOK ==
  /\ Len(pages) <= MaxPages
  /\ decisions \in Seq(Decision)
  /\ told \in Reading \cup {Nobody}

\* What request s shows, if it shows a single-use token
Shows(s) == request[s] # Nobody /\ request[s].token # Nobody

NonceInv ==
  /\ \A s \in Server : Shows(s) => request[s].token \in burnt
  /\ \A i \in DOMAIN decisions :
       decisions[i].token # Nobody => decisions[i].token \in burnt
  /\ \A r, s \in Server :
       Shows(r) /\ Shows(s) /\ request[r].token = request[s].token => r = s
  /\ \A s \in Server, i \in DOMAIN decisions :
       Shows(s) => decisions[i].token # request[s].token
  /\ LinksDecideOnce

\* A ticket somebody has a page of has left the hands of the worker.
ReaderInv ==
  /\ \A m \in DOMAIN pages : status[pages[m].ticket] # "analyzing"
  /\ \A s \in Server :
       request[s] # Nobody /\ request[s].form => status[request[s].ticket] # "analyzing"

\* The decision that an answer "Approved." speaks of
ApprovalOf(answer) ==
  [ticket |-> answer.ticket, act |-> "approve", by |-> answer.by, token |-> answer.token]

\* A nonce that is burned, is of no request any more and decided nothing
Wasted(token) ==
  /\ token \in burnt
  /\ \A s \in Server : Shows(s) => request[s].token # token
  /\ \A i \in DOMAIN decisions : decisions[i].token # token

AnswerInv ==
  told # Nobody =>
    /\ status[told.ticket] \notin {"analyzing", "proposed"}
    /\ told.says = "Approved." => \E i \in DOMAIN decisions : decisions[i] = ApprovalOf(told)
    /\ told.says = "Could not approve." /\ told.token # Nobody => Wasted(told.token)

ApprovalsInv ==
  ApprovalsTypeOK /\ HistoryTypeOK /\ NonceInv /\ ReaderInv /\ AnswerInv

USE ApprovalsAssumption DEF ApprovalsAssumption

-------------------------------------------------------------------------------
LEMMA NothingDecided ==
  ASSUME ApprovalsInit
  PROVE  ApprovalsInv
<1> USE DEF ApprovalsInit
<1>1. ApprovalsTypeOK
  <2>1. pages \in Seq(Page) /\ schemes \subseteq {"signed", "operator", "proxy"}
    OBVIOUS
  <2>2. QED
    BY <2>1 DEF ApprovalsTypeOK, Statuses
<1>2. HistoryTypeOK
  <2>1. Len(pages) = 0 /\ decisions \in Seq(Decision) /\ MaxPages \in Nat
    OBVIOUS
  <2>2. QED
    BY <2>1 DEF HistoryTypeOK
<1>3. NonceInv /\ ReaderInv /\ AnswerInv
  BY DEF NonceInv, ReaderInv, AnswerInv, LinksDecideOnce, Shows
<1>4. QED
  BY <1>1, <1>2, <1>3 DEF ApprovalsInv

(***************************************************************************)
(* Who a request is from, and that it carries what requests carry.         *)
(***************************************************************************)
LEMMA StandingType ==
  ASSUME NEW c \in Person \cup {Static, Nobody}
  PROVE  ByStanding(c) \in Principal \cup {Nobody}
BY DEF ByStanding, Principal

LEMMA PageNumbers ==
  ASSUME ApprovalsTypeOK, HistoryTypeOK
  PROVE  \A i \in {0} \cup DOMAIN pages : i \in 0..MaxPages
<1>1. PICK n \in Nat : n = Len(pages) /\ DOMAIN pages = 1..n
  BY DEF ApprovalsTypeOK
<1>2. n <= MaxPages /\ MaxPages \in Nat
  BY <1>1 DEF HistoryTypeOK
<1>3. QED
  BY <1>1, <1>2

LEMMA PageTickets ==
  ASSUME ApprovalsTypeOK
  PROVE  \A m \in DOMAIN pages : pages[m].ticket \in Ticket
<1>1. \A m \in DOMAIN pages : pages[m] \in Page
  BY DEF ApprovalsTypeOK
<1>2. QED
  BY <1>1 DEF Page

LEMMA ActorType ==
  ASSUME ApprovalsTypeOK, NEW t \in Ticket, NEW n \in {0} \cup DOMAIN pages,
         NEW c \in Person \cup {Static, Nobody}
  PROVE  Actor(t, n, c) \in Principal \cup {Nobody}
<1>1. n # 0 => pages[n] \in Page
  BY DEF ApprovalsTypeOK
<1>2. n # 0 => pages[n].to \in Principal
  BY <1>1 DEF Page
<1>3. QED
  BY <1>2, StandingType DEF Actor

-------------------------------------------------------------------------------
LEMMA OfferStep ==
  ASSUME ApprovalsInv, NEW t \in Ticket, Offer(t)
  PROVE  ApprovalsInv'
<1> USE DEF ApprovalsInv, Offer
<1>1. PICK s \in {"proposed", "failed"} : status' = [status EXCEPT ![t] = s]
  OBVIOUS
<1>2. ViewLinks(t, LinkTTL) \subseteq [ticket : Ticket, exp : Nat]
  <2>1. now + LinkTTL \in Nat
    BY DEF ApprovalsTypeOK
  <2>2. QED
    BY <2>1 DEF ViewLinks
<1>3. ApprovalsTypeOK'
  BY <1>1, <1>2 DEF ApprovalsTypeOK, Statuses
<1>4. HistoryTypeOK' /\ NonceInv'
  BY DEF HistoryTypeOK, NonceInv, LinksDecideOnce, Shows
<1>5. \A u \in Ticket : status'[u] # "analyzing" <=> status[u] # "analyzing" \/ u = t
  BY <1>1 DEF ApprovalsTypeOK
<1>6. ReaderInv'
  <2>1. \A m \in DOMAIN pages : pages[m].ticket \in Ticket
    BY PageTickets
  <2>2. \A r \in Server : request[r] # Nobody => request[r].ticket \in Ticket
    BY DEF ApprovalsTypeOK, Request
  <2>3. QED
    BY <1>5, <2>1, <2>2 DEF ReaderInv
<1>7. AnswerInv'
  <2> SUFFICES ASSUME told # Nobody
               PROVE  status'[told.ticket] \notin {"analyzing", "proposed"}
    BY DEF AnswerInv, Wasted, Shows, ApprovalOf
  <2>1. told.ticket \in Ticket
    BY DEF HistoryTypeOK, Reading
  <2>2. status[told.ticket] \notin {"analyzing", "proposed"}
    BY DEF AnswerInv
  <2>3. told.ticket # t /\ status'[told.ticket] = status[told.ticket]
    BY <1>1, <2>1, <2>2 DEF ApprovalsTypeOK
  <2>4. QED
    BY <2>2, <2>3 DEF AnswerInv
<1>8. QED
  BY <1>3, <1>4, <1>6, <1>7

LEMMA OvertakeStep ==
  ASSUME ApprovalsInv, NEW t \in Ticket, Overtake(t)
  PROVE  ApprovalsInv'
<1> USE DEF ApprovalsInv, Overtake
<1>1. PICK s \in {"approved", "rejected"} : status' = [status EXCEPT ![t] = s]
  OBVIOUS
<1>2. ApprovalsTypeOK'
  BY <1>1 DEF ApprovalsTypeOK, Statuses
<1>3. HistoryTypeOK' /\ NonceInv'
  BY DEF HistoryTypeOK, NonceInv, LinksDecideOnce, Shows
<1>4. \A u \in Ticket : status[u] # "analyzing" => status'[u] # "analyzing"
  BY <1>1 DEF ApprovalsTypeOK
<1>5. ReaderInv'
  <2>1. \A m \in DOMAIN pages : pages[m].ticket \in Ticket
    BY PageTickets
  <2>2. \A r \in Server : request[r] # Nobody => request[r].ticket \in Ticket
    BY DEF ApprovalsTypeOK, Request
  <2>3. QED
    BY <1>4, <2>1, <2>2 DEF ReaderInv
<1>6. AnswerInv'
  <2>1. told # Nobody => status'[told.ticket] \notin {"analyzing", "proposed"}
    BY <1>1 DEF AnswerInv, HistoryTypeOK, Reading, ApprovalsTypeOK
  <2>2. QED
    BY <2>1 DEF AnswerInv, Wasted, Shows, ApprovalOf
<1>7. QED
  BY <1>2, <1>3, <1>5, <1>6

LEMMA ViewStep ==
  ASSUME ApprovalsInv, NEW s \in Server, NEW t \in Ticket, View(s, t)
  PROVE  ApprovalsInv'
<1> USE DEF ApprovalsInv, View
<1>1. PICK p \in Principal :
        pages' = Append(pages, [ticket |-> t, to |-> p, exp |-> now + FormTTL,
                                key |-> Secret(s)])
  OBVIOUS
<1> DEFINE page == [ticket |-> t, to |-> p, exp |-> now + FormTTL, key |-> Secret(s)]
<1>2. page \in Page
  <2>1. Secret(s) \in Server \X Nat \cup {Nobody}
    BY DEF Secret, ApprovalsTypeOK
  <2>2. now + FormTTL \in Nat
    BY DEF ApprovalsTypeOK
  <2>3. QED
    BY <2>1, <2>2 DEF Page
<1> HIDE DEF page
<1>3. /\ pages' \in Seq(Page) /\ Len(pages') = Len(pages) + 1
      /\ DOMAIN pages' = DOMAIN pages \cup {Len(pages) + 1}
      /\ \A m \in DOMAIN pages : pages'[m] = pages[m]
      /\ pages'[Len(pages) + 1] = page
  <2>1. pages \in Seq(Page)
    BY DEF ApprovalsTypeOK
  <2>2. pages' = Append(pages, page)
    BY <1>1 DEF page
  <2>3. QED
    BY <1>2, <2>1, <2>2, AppendedTo
<1>4. ApprovalsTypeOK'
  BY <1>3 DEF ApprovalsTypeOK
<1>5. HistoryTypeOK' /\ NonceInv' /\ AnswerInv'
  <2>1. HistoryTypeOK'
    BY <1>3 DEF HistoryTypeOK, ApprovalsTypeOK
  <2>2. NonceInv'
    BY DEF NonceInv, LinksDecideOnce, Shows
  <2>3. AnswerInv'
    BY DEF AnswerInv, Wasted, Shows, ApprovalOf
  <2>4. QED
    BY <2>1, <2>2, <2>3
<1>6. ReaderInv'
  BY <1>3 DEF ReaderInv, page
<1>7. QED
  BY <1>4, <1>5, <1>6

(***************************************************************************)
(* A nonce that is not burned is of no request in progress and of no       *)
(* decision: whoever burns it has it alone.                                *)
(***************************************************************************)
LEMMA SubmitStep ==
  ASSUME ApprovalsInv, NEW s \in Server, NEW t \in Ticket, NEW act \in Mutating,
         NEW n \in {0} \cup ActionTokens, NEW m \in {0} \cup DOMAIN pages,
         NEW c \in Person \cup {Static, Nobody}, NEW form \in BOOLEAN,
         Submit(s, t, act, n, m, c, form)
  PROVE  ApprovalsInv'
<1> USE DEF ApprovalsInv
<1>1. /\ request[s] = Nobody /\ Actor(t, n, c) # Nobody
      /\ NeedsCsrf(t, n, c, form) => PassesCsrf(s, t, m, Actor(t, n, c))
      /\ Burn(TokenOf(n, act))
      /\ UNCHANGED <<schemes, status, links, pages, boots, now, decisions, told>>
  BY DEF Submit
<1> DEFINE shown == TokenOf(n, act)
           asked == [ticket |-> t, act |-> act, by |-> Actor(t, n, c),
                     page |-> IF n # 0 THEN n ELSE IF NeedsCsrf(t, n, c, form) THEN m ELSE 0,
                     token |-> shown, form |-> form, found |-> FALSE]
<1>2. request' = [request EXCEPT ![s] = asked]
  BY DEF Submit, Accepted
<1>3. n \in {0} \cup DOMAIN pages /\ n \in 0..MaxPages /\ m \in 0..MaxPages
  <2>1. \A i \in {0} \cup DOMAIN pages : i \in 0..MaxPages
    BY PageNumbers
  <2>2. n \in {0} \cup DOMAIN pages
    BY DEF ActionTokens
  <2>3. QED
    BY <2>1, <2>2, Zenon
<1>4. shown \in Token \cup {Nobody}
  BY <1>3 DEF TokenOf, Token
<1>5. asked \in Request
  <2>1. Actor(t, n, c) \in Principal
    BY <1>1, <1>3, ActorType
  <2>2. (IF n # 0 THEN n ELSE IF NeedsCsrf(t, n, c, form) THEN m ELSE 0) \in 0..MaxPages
    BY <1>3
  <2>3. QED
    BY <2>1, <2>2, <1>4 DEF Request
<1>6. asked.token = shown /\ asked.form = form /\ asked.ticket = t
  OBVIOUS
<1> HIDE DEF shown, asked
<1>7. shown \notin burnt /\ burnt' = IF shown = Nobody THEN burnt ELSE burnt \cup {shown}
  BY <1>1 DEF Burn, shown
<1>8. request'[s] = asked /\ \A r \in Server \ {s} : request'[r] = request[r]
  BY <1>2 DEF ApprovalsTypeOK
<1>9. ApprovalsTypeOK'
  BY <1>1, <1>2, <1>4, <1>5, <1>7 DEF ApprovalsTypeOK
<1>10. HistoryTypeOK' /\ AnswerInv'
  <2>1. HistoryTypeOK'
    BY <1>1 DEF HistoryTypeOK
  <2>2. \A token \in burnt : Wasted(token) => Wasted(token)'
    BY <1>1, <1>6, <1>7, <1>8 DEF Wasted, Shows
  <2>3. AnswerInv'
    BY <2>2, <1>1 DEF AnswerInv, Wasted, ApprovalOf
  <2>4. QED
    BY <2>1, <2>3
<1>11. NonceInv'
  <2>1. burnt \subseteq burnt' /\ (shown # Nobody => shown \in burnt')
    BY <1>7
  <2>2. \A r \in Server \ {s} : Shows(r)' <=> Shows(r)
    BY <1>8 DEF Shows
  <2>3. Shows(s)' => request'[s].token = shown /\ shown # Nobody
    BY <1>8, <1>6 DEF Shows
  <2>4. \A r \in Server : Shows(r) => request[r].token # shown
    BY <1>7 DEF NonceInv
  <2>5. \A i \in DOMAIN decisions :
          shown # Nobody => decisions[i].token # shown
    BY <1>7 DEF NonceInv
  <2>6. \A r \in Server : Shows(r)' => request'[r].token \in burnt'
    BY <2>1, <2>2, <2>3, <1>8 DEF NonceInv
  <2>7. \A q, r \in Server :
          Shows(q)' /\ Shows(r)' /\ request'[q].token = request'[r].token => q = r
    BY <2>2, <2>3, <2>4, <1>8 DEF NonceInv
  <2>8. \A r \in Server, i \in DOMAIN decisions :
          Shows(r)' => decisions[i].token # request'[r].token
    BY <2>2, <2>3, <2>5, <1>8 DEF NonceInv
  <2>9. QED
    BY <1>1, <2>1, <2>6, <2>7, <2>8 DEF NonceInv, LinksDecideOnce
<1>12. ReaderInv'
  <2>1. form => m \in DOMAIN pages /\ pages[m].ticket = t
    BY <1>1 DEF NeedsCsrf, PassesCsrf
  <2>2. QED
    BY <1>1, <1>6, <1>8, <2>1 DEF ReaderInv
<1>13. QED
  BY <1>9, <1>10, <1>11, <1>12

-------------------------------------------------------------------------------
(***************************************************************************)
(* The end of a request, whether or not it decided something.              *)
(***************************************************************************)
LEMMA ReplyTypes ==
  ASSUME ApprovalsTypeOK, HistoryTypeOK, NEW s \in Server, NEW success \in BOOLEAN,
         request[s] # Nobody, Reply(s, success), UNCHANGED <<schemes, now>>
  PROVE  /\ request' \in [Server -> Request \cup {Nobody}]
         /\ request'[s] = Nobody /\ \A r \in Server \ {s} : request'[r] = request[r]
         /\ told' \in Reading \cup {Nobody}
         /\ links' \subseteq [ticket : Ticket, exp : Nat]
<1>1. request[s] \in Request
  BY DEF ApprovalsTypeOK
<1>2. /\ request[s].ticket \in Ticket /\ request[s].by \in Principal
      /\ request[s].token \in Token \cup {Nobody}
  BY <1>1 DEF Request
<1>3. request' = [request EXCEPT ![s] = Nobody]
  BY DEF Reply
<1>4. Says(request[s], success) \in {"Rejected.", "Approved.", "Could not approve."}
  BY DEF Says
<1>5. told' \in Reading \cup {Nobody}
  BY <1>2, <1>4 DEF Reply, Reading, HistoryTypeOK
<1>6. ViewLinks(request[s].ticket, FormTTL) \subseteq [ticket : Ticket, exp : Nat]
  <2>1. now + FormTTL \in Nat
    BY DEF ApprovalsTypeOK
  <2>2. QED
    BY <1>2, <2>1 DEF ViewLinks
<1>7. links' \subseteq [ticket : Ticket, exp : Nat]
  BY <1>6 DEF Reply, ApprovalsTypeOK
<1>8. QED
  BY <1>3, <1>5, <1>7 DEF ApprovalsTypeOK

LEMMA LookStep ==
  ASSUME ApprovalsInv, NEW s \in Server, Look(s)
  PROVE  ApprovalsInv'
<1> USE DEF ApprovalsInv
<1>1. request[s] # Nobody /\ UNCHANGED <<schemes, status, pages, burnt, boots, now, decisions>>
  BY DEF Look
<1>2. request[s] \in Request
  BY <1>1 DEF ApprovalsTypeOK
<1>3. CASE status[request[s].ticket] = "proposed"
  <2>1. request' = [request EXCEPT ![s].found = TRUE] /\ UNCHANGED <<links, told>>
    BY <1>3 DEF Look
  <2> DEFINE found == [request[s] EXCEPT !.found = TRUE]
  <2>2. found \in Request /\ found.token = request[s].token
        /\ found.form = request[s].form /\ found.ticket = request[s].ticket
    BY <1>2 DEF Request
  <2> HIDE DEF found
  <2>3. request' = [request EXCEPT ![s] = found]
    BY <2>1 DEF found
  <2>4. request'[s] = found /\ \A r \in Server \ {s} : request'[r] = request[r]
    BY <2>3 DEF ApprovalsTypeOK
  <2>5. ApprovalsTypeOK' /\ HistoryTypeOK'
    BY <1>1, <2>1, <2>2, <2>3 DEF ApprovalsTypeOK, HistoryTypeOK
  <2>6. \A r \in Server : Shows(r)' => Shows(r) /\ request'[r].token = request[r].token
    BY <1>1, <2>2, <2>4 DEF Shows
  <2>7. NonceInv'
    BY <1>1, <2>6 DEF NonceInv, LinksDecideOnce
  <2>8. ReaderInv'
    BY <1>1, <2>2, <2>4 DEF ReaderInv
  <2>9. AnswerInv'
    <3>1. \A token : Wasted(token) => Wasted(token)'
      BY <1>1, <2>6 DEF Wasted
    <3>2. QED
      BY <1>1, <2>1, <3>1 DEF AnswerInv, ApprovalOf
  <2>10. QED
    BY <2>5, <2>7, <2>8, <2>9
<1>4. CASE status[request[s].ticket] # "proposed"
  <2>1. Reply(s, FALSE)
    BY <1>4 DEF Look
  <2>2. /\ request' \in [Server -> Request \cup {Nobody}]
        /\ request'[s] = Nobody /\ \A r \in Server \ {s} : request'[r] = request[r]
        /\ told' \in Reading \cup {Nobody}
        /\ links' \subseteq [ticket : Ticket, exp : Nat]
    BY <1>1, <2>1, ReplyTypes
  <2>3. ApprovalsTypeOK' /\ HistoryTypeOK'
    BY <1>1, <2>2 DEF ApprovalsTypeOK, HistoryTypeOK
  <2>4. \A r \in Server : Shows(r)' => Shows(r) /\ request'[r].token = request[r].token
    BY <2>2 DEF Shows
  <2>5. NonceInv'
    BY <1>1, <2>4 DEF NonceInv, LinksDecideOnce
  <2>6. ReaderInv'
    BY <1>1, <2>2 DEF ReaderInv
  <2>7. AnswerInv'
    <3>1. CASE request[s].form
      <4>1. told' = [ticket |-> request[s].ticket, by |-> request[s].by,
                     token |-> request[s].token, says |-> Says(request[s], FALSE)]
        BY <3>1, <2>1 DEF Reply
      <4>2. /\ told'.ticket = request[s].ticket /\ told'.token = request[s].token
            /\ told'.says # "Approved."
        BY <4>1 DEF Says
      <4>3. status[request[s].ticket] # "analyzing"
        BY <3>1, <1>1 DEF ReaderInv
      <4>4. \A token : token = request[s].token /\ token # Nobody => Wasted(token)'
        <5> SUFFICES ASSUME NEW token, token = request[s].token, token # Nobody
                     PROVE  Wasted(token)'
          OBVIOUS
        <5>1. Shows(s)
          BY <1>1 DEF Shows
        <5>2. \A q \in Server : Shows(q)' => q # s
          BY <2>2 DEF Shows
        <5>3. QED
          BY <5>1, <5>2, <1>1, <2>4 DEF Wasted, NonceInv
      <4>5. told'.says = "Could not approve." /\ told'.token # Nobody
              => \A token : token = told'.token => Wasted(token)'
        BY <4>2, <4>4
      <4>6. status'[told'.ticket] \notin {"analyzing", "proposed"}
        BY <1>1, <1>4, <4>2, <4>3, <1>2 DEF ApprovalsTypeOK, Request, Statuses
      <4>7. QED
        BY <4>2, <4>5, <4>6 DEF AnswerInv, Wasted, Shows
    <3>2. CASE ~request[s].form
      <4>1. \A token : Wasted(token) => Wasted(token)'
        BY <1>1, <2>4 DEF Wasted
      <4>2. told' = told
        BY <3>2, <2>1 DEF Reply
      <4>3. QED
        BY <4>1, <4>2, <1>1 DEF AnswerInv, ApprovalOf
    <3>3. QED
      BY <3>1, <3>2
  <2>8. QED
    BY <2>3, <2>5, <2>6, <2>7
<1>5. QED
  BY <1>3, <1>4

(***************************************************************************)
(* The nonce goes from the request to its decision.                        *)
(***************************************************************************)
LEMMA DecideStep ==
  ASSUME ApprovalsInv, NEW s \in Server, Decide(s)
  PROVE  ApprovalsInv'
<1> USE DEF ApprovalsInv
<1>1. /\ request[s] # Nobody /\ Reply(s, TRUE)
      /\ UNCHANGED <<schemes, pages, burnt, boots, now>>
  BY DEF Decide
<1> DEFINE r == request[s]
           taken == [ticket |-> r.ticket, act |-> r.act, by |-> r.by, token |-> r.token]
<1>2. PICK result \in {"approved", "rejected"} : status' = [status EXCEPT ![request[s].ticket] = result]
  BY DEF Decide
<1>3. PICK d : d = taken /\ decisions' = Append(decisions, d)
  BY DEF Decide
<1>4. r \in Request
  BY <1>1 DEF ApprovalsTypeOK
<1>5. d \in Decision /\ d.token = r.token /\ d.ticket = r.ticket /\ d.by = r.by
  BY <1>3, <1>4 DEF Request, Decision
<1>6. r.ticket \in Ticket
  BY <1>4 DEF Request
<1>7. PICK last : last = Len(decisions) + 1
  OBVIOUS
<1>8. /\ decisions' \in Seq(Decision)
      /\ DOMAIN decisions' = DOMAIN decisions \cup {last} /\ last \notin DOMAIN decisions
      /\ decisions'[last] = d
      /\ \A i \in DOMAIN decisions : decisions'[i] = decisions[i]
  <2>1. decisions \in Seq(Decision) /\ decisions' = Append(decisions, d)
    BY <1>3 DEF HistoryTypeOK
  <2>2. QED
    BY <1>5, <1>7, <2>1, AppendedTo
<1>9. /\ request' \in [Server -> Request \cup {Nobody}]
      /\ request'[s] = Nobody /\ \A q \in Server \ {s} : request'[q] = request[q]
      /\ told' \in Reading \cup {Nobody}
      /\ links' \subseteq [ticket : Ticket, exp : Nat]
  BY <1>1, ReplyTypes
<1>10. ApprovalsTypeOK'
  BY <1>1, <1>2, <1>9 DEF ApprovalsTypeOK, Statuses
<1>11. HistoryTypeOK'
  BY <1>1, <1>8, <1>9 DEF HistoryTypeOK
<1>12. NonceInv'
  <2>1. \A q \in Server : Shows(q)' => q # s /\ Shows(q) /\ request'[q].token = request[q].token
    BY <1>9 DEF Shows
  <2>2. d.token # Nobody => Shows(s) /\ d.token = request[s].token
    BY <1>1, <1>5 DEF Shows
  <2>3. \A q \in Server : Shows(q)' => request'[q].token \in burnt'
    BY <2>1, <1>1 DEF NonceInv
  <2>4. \A i \in DOMAIN decisions' :
          decisions'[i].token # Nobody => decisions'[i].token \in burnt'
    BY <2>2, <1>1, <1>8 DEF NonceInv
  <2>5. \A p, q \in Server :
          Shows(p)' /\ Shows(q)' /\ request'[p].token = request'[q].token => p = q
    BY <2>1 DEF NonceInv
  <2>6. \A q \in Server, i \in DOMAIN decisions' :
          Shows(q)' => decisions'[i].token # request'[q].token
    <3> SUFFICES ASSUME NEW q \in Server, NEW i \in DOMAIN decisions', Shows(q)'
                 PROVE  decisions'[i].token # request'[q].token
      OBVIOUS
    <3>1. CASE i = last
      BY <3>1, <2>1, <1>1, <1>5, <1>8 DEF NonceInv, Shows
    <3>2. CASE i # last
      BY <3>2, <2>1, <1>8 DEF NonceInv
    <3>3. QED
      BY <3>1, <3>2
  <2>7. LinksDecideOnce'
    BY <2>2, <1>8 DEF NonceInv, LinksDecideOnce
  <2>8. QED
    BY <2>3, <2>4, <2>5, <2>6, <2>7 DEF NonceInv
<1>13. \A u \in Ticket : /\ u # r.ticket => status'[u] = status[u]
                         /\ status'[request[s].ticket] = result
  BY <1>2, <1>6 DEF ApprovalsTypeOK
<1>14. ReaderInv'
  <2>1. \A m \in DOMAIN pages : pages[m].ticket \in Ticket
    BY PageTickets
  <2>2. \A q \in Server : request[q] # Nobody => request[q].ticket \in Ticket
    BY DEF ApprovalsTypeOK, Request
  <2>3. QED
    BY <1>1, <1>9, <1>13, <2>1, <2>2 DEF ReaderInv
<1>15. AnswerInv'
  <2>1. CASE request[s].form
    <3>1. told' = [ticket |-> r.ticket, by |-> r.by, token |-> r.token, says |-> Says(r, TRUE)]
      BY <2>1, <1>1 DEF Reply
    <3>2. told'.says # "Could not approve." /\ (told'.says = "Approved." => r.act = "approve")
      BY <3>1, <1>4 DEF Says, Request, Mutating
    <3>3. r.act = "approve" => decisions'[last] = ApprovalOf(told')
      BY <3>1, <1>3, <1>8 DEF ApprovalOf
    <3>4. status'[told'.ticket] \notin {"analyzing", "proposed"}
      BY <3>1, <1>6, <1>13
    <3>5. QED
      BY <3>2, <3>3, <3>4, <1>8 DEF AnswerInv, ApprovalOf
  <2>2. CASE ~request[s].form
    <3>1. told' = told
      BY <2>2, <1>1 DEF Reply
    <3>2. told # Nobody => told.ticket \in Ticket
      BY DEF HistoryTypeOK, Reading
    <3>3. told # Nobody => status'[told.ticket] \notin {"analyzing", "proposed"}
      BY <3>2, <1>13 DEF AnswerInv
    <3>4. \A token \in Token : Wasted(token) => Wasted(token)'
      <4> SUFFICES ASSUME NEW token \in Token, Wasted(token)
                   PROVE  Wasted(token)'
        OBVIOUS
      <4>1. \A q \in Server : Shows(q)' => request'[q].token # token
        BY <1>9 DEF Wasted, Shows
      <4>2. d.token # token
        BY <1>1, <1>5, NobodyAssumption DEF Wasted, Shows
      <4>3. QED
        BY <4>1, <4>2, <1>1, <1>8 DEF Wasted
    <3>5. told # Nobody /\ told.token # Nobody => told.token \in Token
      BY DEF HistoryTypeOK, Reading
    <3>6. QED
      BY <3>1, <3>3, <3>4, <3>5, <1>8 DEF AnswerInv, ApprovalOf
  <2>3. QED
    BY <2>1, <2>2
<1>16. QED
  BY <1>10, <1>11, <1>12, <1>14, <1>15

LEMMA ServerDiesStep ==
  ASSUME ApprovalsInv, NEW s \in Server, ServerDies(s)
  PROVE  ApprovalsInv'
<1> USE DEF ApprovalsInv, ServerDies
<1>1. request'[s] = Nobody /\ \A r \in Server \ {s} : request'[r] = request[r]
  BY DEF ApprovalsTypeOK
<1>2. ApprovalsTypeOK' /\ HistoryTypeOK'
  <2>1. ApprovalsTypeOK'
    BY DEF ApprovalsTypeOK
  <2>2. HistoryTypeOK'
    BY DEF HistoryTypeOK
  <2>3. QED
    BY <2>1, <2>2
<1>3. \A r \in Server : Shows(r)' => Shows(r) /\ request'[r].token = request[r].token
  BY <1>1 DEF Shows
<1>4. NonceInv'
  BY <1>3 DEF NonceInv, LinksDecideOnce
<1>5. ReaderInv' /\ AnswerInv'
  <2>1. ReaderInv'
    BY <1>1 DEF ReaderInv
  <2>2. \A token : Wasted(token) => Wasted(token)'
    BY <1>3 DEF Wasted
  <2>3. QED
    BY <2>1, <2>2 DEF AnswerInv, ApprovalOf
<1>6. QED
  BY <1>2, <1>4, <1>5

LEMMA ClockStep ==
  ASSUME ApprovalsInv, TimePasses \/ UNCHANGED approvalVars
  PROVE  ApprovalsInv'
<1>1. now' \in Nat /\ UNCHANGED <<schemes, status, links, pages, burnt, request, boots,
                                  decisions, told>>
  BY DEF ApprovalsInv, ApprovalsTypeOK, TimePasses, approvalVars
<1>2. QED
  BY <1>1 DEF ApprovalsInv, ApprovalsTypeOK, HistoryTypeOK, NonceInv, LinksDecideOnce,
              Shows, ReaderInv, AnswerInv, Wasted, ApprovalOf

-------------------------------------------------------------------------------
(***************************************************************************)
(* The inductive invariant holds in any configuration, whichever processes *)
(* overlap or die and whatever readers show.                               *)
(***************************************************************************)
THEOREM ApprovalsInvHolds == ApprovalsSpec => []ApprovalsInv
<1>1. ApprovalsInit => ApprovalsInv
  BY NothingDecided
<1>2. ApprovalsInv /\ [ApprovalsNext]_approvalVars => ApprovalsInv'
  BY OfferStep, OvertakeStep, ViewStep, SubmitStep, LookStep, DecideStep, ServerDiesStep,
     ClockStep DEF ApprovalsNext
<1>3. QED
  BY <1>1, <1>2, PTL DEF ApprovalsSpec

(***************************************************************************)
(* A single-use token decides at most once, on however many processes it   *)
(* is shown at a time.                                                     *)
(***************************************************************************)
THEOREM EveryLinkDecidesOnce == ApprovalsSpec => []LinksDecideOnce
<1>1. ApprovalsInv => LinksDecideOnce
  BY DEF ApprovalsInv, NonceInv
<1>2. QED
  BY <1>1, ApprovalsInvHolds, PTL

(***************************************************************************)
(* "Approved." is said of the decision the reader made with what he        *)
(* showed, and "Could not approve." of a ticket that is not offered any    *)
(* more and a token that decided nothing. The answer to a rejection is     *)
(* not in this theorem: it is false of a ticket somebody else approved.    *)
(***************************************************************************)
THEOREM ApprovalsAreToldTruly == ApprovalsSpec => []ApprovalsAreTrue
<1>1. ApprovalsInv => ApprovalsAreTrue
  BY DEF ApprovalsInv, AnswerInv, ApprovalsAreTrue, ApprovalOf, Wasted
<1>2. QED
  BY <1>1, ApprovalsInvHolds, PTL

-------------------------------------------------------------------------------
(***************************************************************************)
(* A burned nonce is of a page that was rendered, and a request that shows *)
(* one is about the ticket of its page.                                    *)
(***************************************************************************)
TokenInv ==
  /\ \A k \in burnt : k.page \in DOMAIN pages
  /\ \A s \in Server :
       Shows(s) => pages[request[s].token.page].ticket = request[s].ticket

SpentWell == TokenInv /\ LinksAreSpentWell

SpentInv == ApprovalsInv /\ SpentWell

\* Whoever shows the nonce k.
Bears(s, k) == request[s] # Nobody /\ request[s].token = k

\* A burned link is of a page, and is shown for the ticket of that page.
LEMMA BearerOf ==
  ASSUME SpentInv, NEW s \in Server, NEW k \in burnt
  PROVE  /\ pages[k.page].ticket \in Ticket
         /\ Bears(s, k) => pages[k.page].ticket = request[s].ticket
<1>1. k # Nobody
  BY NobodyAssumption DEF SpentInv, ApprovalsInv, ApprovalsTypeOK
<1>2. k.page \in DOMAIN pages
  BY DEF SpentInv, SpentWell, TokenInv
<1>3. pages[k.page].ticket \in Ticket
  BY <1>2, PageTickets DEF SpentInv, ApprovalsInv
<1>4. ASSUME Bears(s, k) PROVE pages[k.page].ticket = request[s].ticket
  <2>1. Shows(s) /\ request[s].token = k
    BY <1>1, <1>4 DEF Bears, Shows
  <2>2. QED
    BY <2>1 DEF SpentInv, SpentWell, TokenInv
<1>5. QED
  BY <1>3, <1>4

(***************************************************************************)
(* What neither offers a ticket nor ends a request keeps links well spent. *)
(***************************************************************************)
LEMMA NothingSpent ==
  ASSUME SpentInv, UNCHANGED burnt, 
         \A k \in burnt : k.page \in DOMAIN pages' /\ pages'[k.page] = pages[k.page],
         \A s \in Server : boots'[s] = 0 => boots[s] = 0,
         (\A s \in Server : boots'[s] = 0) =>
           \A k \in burnt :
             status'[pages[k.page].ticket] = "proposed" =>
               /\ status[pages[k.page].ticket] = "proposed"
               /\ \A s \in Server : Bears(s, k) => Bears(s, k)',
         \A s \in Server :
           Shows(s)' => /\ Shows(s) /\ request'[s].token = request[s].token
                        /\ request'[s].ticket = request[s].ticket
  PROVE  SpentWell'
<1>1. \A s \in Server : Shows(s) => request[s].token \in burnt
  BY DEF SpentInv, ApprovalsInv, NonceInv
<1>2. TokenInv'
  BY <1>1 DEF SpentInv, SpentWell, TokenInv
<1>3. LinksAreSpentWell'
  BY DEF SpentInv, SpentWell, LinksAreSpentWell, Bears
<1>4. QED
  BY <1>2, <1>3 DEF SpentWell

LEMMA SpentStart ==
  ASSUME ApprovalsInit
  PROVE  SpentInv
BY NothingDecided DEF ApprovalsInit, SpentInv, SpentWell, TokenInv, LinksAreSpentWell, Shows

LEMMA SpentStep ==
  ASSUME SpentInv, [ApprovalsNext]_approvalVars
  PROVE  SpentWell'
<1> USE DEF Bears
<1>1. ASSUME NEW t \in Ticket, Offer(t)
      PROVE  SpentWell'
  <2>1. \A k \in burnt : status[pages[k.page].ticket] # "analyzing"
    BY DEF SpentInv, SpentWell, TokenInv, ApprovalsInv, ReaderInv
  <2>2. \A u \in Ticket : u # t => status'[u] = status[u]
    BY <1>1 DEF Offer, SpentInv, ApprovalsInv, ApprovalsTypeOK
  <2>3. \A k \in burnt : pages[k.page].ticket \in Ticket
    BY PageTickets DEF SpentInv, SpentWell, TokenInv, ApprovalsInv
  <2>4. \A k \in burnt : status'[pages[k.page].ticket] = status[pages[k.page].ticket]
    BY <1>1, <2>1, <2>2, <2>3 DEF Offer
  <2>5. QED
    BY <1>1, <2>4, NothingSpent DEF Offer, SpentInv, SpentWell, TokenInv, Shows
<1>2. ASSUME NEW t \in Ticket, Overtake(t)
      PROVE  SpentWell'
  <2>1. \A u \in Ticket : status'[u] = "proposed" => status[u] = "proposed"
    BY <1>2 DEF Overtake, SpentInv, ApprovalsInv, ApprovalsTypeOK
  <2>2. \A k \in burnt : pages[k.page].ticket \in Ticket
    BY PageTickets DEF SpentInv, SpentWell, TokenInv, ApprovalsInv
  <2>3. QED
    BY <1>2, <2>1, <2>2, NothingSpent DEF Overtake, SpentInv, SpentWell, TokenInv, Shows
<1>3. ASSUME NEW s \in Server, NEW t \in Ticket, View(s, t)
      PROVE  SpentWell'
  <2>1. \E p : pages' = Append(pages, p)
    BY <1>3 DEF View
  <2>2. pages \in Seq(Page)
    BY DEF SpentInv, ApprovalsInv, ApprovalsTypeOK
  <2>3. \A m \in DOMAIN pages : m \in DOMAIN pages' /\ pages'[m] = pages[m]
    BY <2>1, <2>2
  <2>4. QED
    BY <1>3, <2>3, NothingSpent DEF View, SpentInv, SpentWell, TokenInv, Shows
<1>4. ASSUME NEW s \in Server, NEW t \in Ticket, NEW act \in Mutating,
             NEW n \in {0} \cup ActionTokens, NEW m \in {0} \cup DOMAIN pages,
             NEW c \in Person \cup {Static, Nobody}, NEW form \in BOOLEAN,
             Submit(s, t, act, n, m, c, form)
      PROVE  SpentWell'
  <2> DEFINE asked == [ticket |-> t, act |-> act, by |-> Actor(t, n, c),
                       page |-> IF n # 0 THEN n ELSE IF NeedsCsrf(t, n, c, form) THEN m ELSE 0,
                       token |-> TokenOf(n, act), form |-> form, found |-> FALSE]
  <2>1. /\ asked.token = TokenOf(n, act) /\ asked.ticket = t
        /\ request' = [request EXCEPT ![s] = asked]
    BY <1>4 DEF Submit, Accepted
  <2> HIDE DEF asked
  <2>2. PICK shown : shown = TokenOf(n, act)
    OBVIOUS
  <2>3. request[s] = Nobody /\ \A r \in Server \ {s} : request'[r] = request[r]
    BY <1>4, <2>1 DEF Submit, SpentInv, ApprovalsInv, ApprovalsTypeOK
  <2>4. request'[s] = asked
    BY <2>1 DEF SpentInv, ApprovalsInv, ApprovalsTypeOK
  <2>5. burnt' = IF shown = Nobody THEN burnt ELSE burnt \cup {shown}
    BY <1>4, <2>2 DEF Submit, Burn
  <2>6. n # 0 => n \in DOMAIN pages /\ pages[n].ticket = t /\ shown.page = n
    BY <1>4, <2>2 DEF Submit, Actor, ActionTokens, TokenOf
  <2>7. shown = Nobody \/ n # 0
    BY <2>2 DEF TokenOf
  <2>8. asked # Nobody
    <3>1. n \in {0} \cup DOMAIN pages /\ n \in 0..MaxPages /\ m \in 0..MaxPages
      <4>1. \A i \in {0} \cup DOMAIN pages : i \in 0..MaxPages
        BY PageNumbers DEF SpentInv, ApprovalsInv
      <4>2. n \in {0} \cup DOMAIN pages
        BY DEF ActionTokens
      <4>3. QED
        BY <4>1, <4>2, Zenon
    <3>2. Actor(t, n, c) \in Principal
      BY <1>4, <3>1, ActorType DEF Submit, SpentInv, ApprovalsInv
    <3>3. TokenOf(n, act) \in Token \cup {Nobody}
      BY <3>1 DEF TokenOf, Token
    <3>4. asked \in Request
      BY <3>1, <3>2, <3>3 DEF asked, Request
    <3>5. QED
      BY <3>4, NobodyAssumption
  <2>9. TokenInv'
    BY <1>4, <2>1, <2>2, <2>3, <2>4, <2>5, <2>6, <2>7 DEF Submit, SpentInv, SpentWell, TokenInv, Shows
  <2>10. LinksAreSpentWell'
    BY <1>4, <2>1, <2>2, <2>3, <2>4, <2>5, <2>8 DEF Submit, SpentInv, SpentWell, TokenInv, LinksAreSpentWell
  <2>11. QED
    BY <2>9, <2>10 DEF SpentWell
<1>5. ASSUME NEW s \in Server, Look(s)
      PROVE  SpentWell'
  <2>1. CASE status[request[s].ticket] = "proposed"
    <3>1. request' = [request EXCEPT ![s].found = TRUE]
      BY <1>5, <2>1 DEF Look
    <3>2. request[s] \in Request
      BY <1>5 DEF Look, SpentInv, ApprovalsInv, ApprovalsTypeOK
    <3>3. PICK found : found = [request[s] EXCEPT !.found = TRUE]
      OBVIOUS
    <3>4. /\ found \in Request /\ found # Nobody /\ found.token = request[s].token
          /\ found.ticket = request[s].ticket
      <4>1. found \in Request
        BY <3>2, <3>3 DEF Request
      <4>2. found.token = request[s].token /\ found.ticket = request[s].ticket
        BY <3>2, <3>3 DEF Request
      <4>3. found # Nobody
        BY <4>1, NobodyAssumption
      <4>4. QED
        BY <4>1, <4>2, <4>3
    <3>5. request'[s] = found /\ \A r \in Server \ {s} : request'[r] = request[r]
      BY <3>1, <3>3 DEF SpentInv, ApprovalsInv, ApprovalsTypeOK
    <3>6. QED
      BY <1>5, <3>4, <3>5, NothingSpent DEF Look, SpentInv, SpentWell, TokenInv, Shows
  <2>2. CASE status[request[s].ticket] # "proposed"
    <3>1. request'[s] = Nobody /\ \A r \in Server \ {s} : request'[r] = request[r]
      BY <1>5, <2>2 DEF Look, Reply, SpentInv, ApprovalsInv, ApprovalsTypeOK
    <3>2. \A r \in Server : Shows(r)' => Shows(r) /\ request'[r] = request[r]
      BY <3>1 DEF Shows
    <3>3. \A k \in burnt : Bears(s, k) => status[pages[k.page].ticket] # "proposed"
      <4> SUFFICES ASSUME NEW k \in burnt, Bears(s, k)
                   PROVE  status[pages[k.page].ticket] # "proposed"
        OBVIOUS
      <4>1. pages[k.page].ticket = request[s].ticket
        BY BearerOf
      <4>2. QED
        BY <2>2, <4>1
    <3>4. QED
      BY <1>5, <3>1, <3>2, <3>3, NothingSpent DEF Look, SpentInv, SpentWell, TokenInv
  <2>3. QED
    BY <2>1, <2>2
<1>6. ASSUME NEW s \in Server, Decide(s)
      PROVE  SpentWell'
  <2>1. request'[s] = Nobody /\ \A r \in Server \ {s} : request'[r] = request[r]
    BY <1>6 DEF Decide, Reply, SpentInv, ApprovalsInv, ApprovalsTypeOK
  <2>2. \A r \in Server : Shows(r)' => Shows(r) /\ request'[r] = request[r]
    BY <2>1 DEF Shows
  <2>3. PICK result \in {"approved", "rejected"} :
          status' = [status EXCEPT ![request[s].ticket] = result]
    BY <1>6 DEF Decide
  <2>4. \A u \in Ticket : status'[u] = "proposed" => status[u] = "proposed" /\ u # request[s].ticket
    BY <2>3 DEF SpentInv, ApprovalsInv, ApprovalsTypeOK
  <2>5. \A k \in burnt :
          /\ pages[k.page].ticket \in Ticket
          /\ Bears(s, k) => pages[k.page].ticket = request[s].ticket
    BY BearerOf
  <2>6. QED
    BY <1>6, <2>1, <2>2, <2>4, <2>5, NothingSpent DEF Decide, SpentInv, SpentWell, TokenInv
<1>7. ASSUME NEW s \in Server, ServerDies(s)
      PROVE  SpentWell'
  <2>1. request'[s] = Nobody /\ \A r \in Server \ {s} : request'[r] = request[r]
    BY <1>7 DEF ServerDies, SpentInv, ApprovalsInv, ApprovalsTypeOK
  <2>2. boots'[s] # 0 /\ \A r \in Server \ {s} : boots'[r] = boots[r]
    BY <1>7 DEF ServerDies, SpentInv, ApprovalsInv, ApprovalsTypeOK
  <2>3. \A r \in Server : Shows(r)' => Shows(r) /\ request'[r] = request[r]
    BY <2>1 DEF Shows
  <2>4. QED
    BY <1>7, <2>2, <2>3, NothingSpent DEF ServerDies, SpentInv, SpentWell, TokenInv
<1>8. CASE TimePasses \/ UNCHANGED approvalVars
  BY <1>8, NothingSpent DEF TimePasses, approvalVars, SpentInv, SpentWell, TokenInv, Shows
<1>9. CASE \E s \in Server, t \in Ticket, act \in Mutating, n \in {0} \cup ActionTokens,
             m \in {0} \cup DOMAIN pages, c \in Person \cup {Static, Nobody},
             form \in BOOLEAN : Submit(s, t, act, n, m, c, form)
  BY ONLY <1>4, <1>9
<1>10. CASE \/ \E t \in Ticket : Offer(t) \/ Overtake(t)
            \/ \E s \in Server, t \in Ticket : View(s, t)
            \/ \E s \in Server : Look(s) \/ Decide(s) \/ ServerDies(s)
  BY ONLY <1>1, <1>2, <1>3, <1>5, <1>6, <1>7, <1>10
<1>11. QED
  BY <1>8, <1>9, <1>10 DEF ApprovalsNext

(***************************************************************************)
(* While no process dies, a link to a ticket that still waits was burned   *)
(* by a request in progress: none is spent for nothing.                    *)
(***************************************************************************)
THEOREM EveryLinkIsSpentWell == ApprovalsSpec => []LinksAreSpentWell
<1>1. ApprovalsInit => SpentInv
  BY SpentStart
<1>2. SpentInv /\ [ApprovalsNext]_approvalVars /\ ApprovalsInv' => SpentInv'
  BY SpentStep DEF SpentInv
<1>3. SpentInv => LinksAreSpentWell
  BY DEF SpentInv, SpentWell
<1>4. QED
  BY <1>1, <1>2, <1>3, ApprovalsInvHolds, PTL DEF ApprovalsSpec

HIDE ApprovalsAssumption DEF ApprovalsAssumption

-------------------------------------------------------------------------------
(***************************************************************************)
(* Attempts and records of model calls, for any number of threads, sinks,  *)
(* attempts and calls. That a call is recorded once is not inductive: the  *)
(* invariant counts the records a sink has of the present call by how far  *)
(* emit() has come, and says that there are none of calls to come.         *)
(***************************************************************************)

\* Where a thread is and how its call has ended agree.
PlaceInv ==
  \A t \in Thread :
    /\ at[t] \in {"gates", "send", "backoff"} => verdict[t] = "none" /\ made[t] > 0
    /\ at[t] = "emit" => verdict[t] \in {"ok", "error"} /\ made[t] > 0
    /\ at[t] = "idle" /\ made[t] > 0 => verdict[t] # "none"
    /\ at[t] = "idle" /\ made[t] = 0 => failures[t] = <<>>

\* There is room for another attempt wherever one may be made.
AttemptInv ==
  \A t \in Thread :
    /\ at[t] = "gates" => failures[t] = <<>>
    /\ at[t] \in {"gates", "send", "backoff"} => Len(failures[t]) < MaxAttempts

Staying == Sink \ Raising

\* The round has passed sink s, which took a record of the call.
Told(s, t) ==
  \/ at[t] = "emit" /\ s \notin untold[t]
  \/ at[t] = "idle" /\ verdict[t] \in {"ok", "error"}

RecordInv ==
  /\ Staying \subseteq sinks
  /\ \A s \in Staying, t \in Thread :
       /\ \A k \in 1..MaxCalls : \A i, j \in RecordsOf(s, t, k) : i = j
       /\ \A k \in 1..MaxCalls : k > made[t] => RecordsOf(s, t, k) = {}
       /\ Told(s, t) =>
            \E i \in RecordsOf(s, t, made[t]) : heard[s][i].outcome = verdict[t]
       /\ ~Told(s, t) => RecordsOf(s, t, made[t]) = {}

CallsInv == CallsTypeOK /\ PlaceInv /\ AttemptInv /\ RetriesAreWarranted /\ RecordInv

USE CallsAssumption DEF CallsAssumption

-------------------------------------------------------------------------------
LEMMA NoRecordsYet ==
  ASSUME CallsInit
  PROVE  CallsInv
<1>1. CallsTypeOK
  <2>1. heard \in [Sink -> Seq(Record)] /\ failures \in [Thread -> Seq({"transient", "permanent"})]
    BY DEF CallsInit
  <2>2. made \in [Thread -> 0..MaxCalls] /\ untold \in [Thread -> SUBSET Sink]
    BY DEF CallsInit
  <2>3. QED
    BY <2>1, <2>2 DEF CallsInit, CallsTypeOK
<1>2. PlaceInv /\ AttemptInv
  BY DEF CallsInit, PlaceInv, AttemptInv
<1>3. RetriesAreWarranted
  BY DEF CallsInit, RetriesAreWarranted
<1>4. \A s \in Sink, t \in Thread, k \in Nat : RecordsOf(s, t, k) = {}
  BY DEF CallsInit, RecordsOf
<1>5. RecordInv
  BY <1>4 DEF CallsInit, RecordInv, Staying, Told
<1>6. QED
  BY <1>1, <1>3, <1>5, <1>2 DEF CallsInv

(***************************************************************************)
(* A step that tells no sink anything and begins no call keeps the records *)
(* as they are, if it also keeps what Told says of each thread.            *)
(***************************************************************************)
LEMMA NothingTold ==
  ASSUME CallsInv, Staying \subseteq sinks', UNCHANGED <<heard, made>>,
         \A s \in Staying, t \in Thread : Told(s, t)' <=> Told(s, t),
         \A s \in Staying, t \in Thread : Told(s, t) => verdict'[t] = verdict[t]
  PROVE  RecordInv'
BY DEF CallsInv, RecordInv, RecordsOf, Staying

\* The same when one thread moves.
LEMMA NothingToldBy ==
  ASSUME CallsInv, NEW t \in Thread, UNCHANGED <<heard, made, sinks>>,
         \A u \in Thread \ {t} : at'[u] = at[u] /\ verdict'[u] = verdict[u] /\ untold'[u] = untold[u],
         \A s \in Staying : Told(s, t)' <=> Told(s, t),
         \A s \in Staying : Told(s, t) => verdict'[t] = verdict[t]
  PROVE  RecordInv'
<1>1. Staying \subseteq sinks'
  BY DEF CallsInv, RecordInv
<1>2. ASSUME NEW s \in Staying, NEW u \in Thread
      PROVE  (Told(s, u)' <=> Told(s, u)) /\ (Told(s, u) => verdict'[u] = verdict[u])
  <2>1. CASE u = t
    BY <2>1
  <2>2. CASE u # t
    BY <2>2 DEF Told
  <2>3. QED
    BY <2>1, <2>2
<1>3. QED
  BY <1>1, <1>2, NothingTold

LEMMA BeginStep ==
  ASSUME CallsInv, NEW t \in Thread, Begin(t)
  PROVE  CallsInv'
<1> USE DEF CallsInv, Begin, MoveTo, Shared
<1>1. CallsTypeOK'
  BY DEF CallsTypeOK
<1>2. PlaceInv' /\ AttemptInv'
  BY DEF CallsTypeOK, PlaceInv, AttemptInv
<1>3. RetriesAreWarranted'
  BY DEF CallsTypeOK, RetriesAreWarranted
<1>4. RecordInv'
  <2>1. \A s, u, k : RecordsOf(s, u, k)' = RecordsOf(s, u, k)
    BY DEF RecordsOf
  <2>2. \A s \in Staying : ~Told(s, t)'
    BY DEF Told, CallsTypeOK
  <2>3. \A s \in Staying, u \in Thread \ {t} : Told(s, u)' <=> Told(s, u)
    BY DEF Told, CallsTypeOK
  <2>4. \A s \in Staying : RecordsOf(s, t, made'[t]) = {}
    <3>1. made'[t] = made[t] + 1 /\ made'[t] \in 1..MaxCalls /\ made[t] \in 0..MaxCalls
      BY DEF CallsTypeOK
    <3>2. QED
      BY <3>1 DEF RecordInv
  <2>5. Staying \subseteq sinks'
    BY DEF RecordInv
  <2>6. \A s \in Staying, u \in Thread :
          /\ \A k \in 1..MaxCalls : \A i, j \in RecordsOf(s, u, k)' : i = j
          /\ \A k \in 1..MaxCalls : k > made'[u] => RecordsOf(s, u, k)' = {}
    BY <2>1 DEF RecordInv, CallsTypeOK
  <2>7. \A s \in Staying, u \in Thread :
          /\ Told(s, u)' =>
               \E i \in RecordsOf(s, u, made[u])' : heard'[s][i].outcome = verdict'[u]
          /\ ~Told(s, u)' => RecordsOf(s, u, made[u])' = {}
    <3> SUFFICES ASSUME NEW s \in Staying, NEW u \in Thread
                 PROVE  /\ Told(s, u)' =>
                             \E i \in RecordsOf(s, u, made[u])' : heard'[s][i].outcome = verdict'[u]
                        /\ ~Told(s, u)' => RecordsOf(s, u, made[u])' = {}
      OBVIOUS
    <3>1. CASE u = t
      <4>1. RecordsOf(s, t, made[t])' = RecordsOf(s, t, made'[t])
        BY DEF RecordsOf
      <4>2. RecordsOf(s, t, made[t])' = {} /\ ~Told(s, t)'
        BY <4>1, <2>2, <2>4
      <4>3. QED
        BY <3>1, <4>2
    <3>2. CASE u # t
      <4>1. made'[u] = made[u] /\ verdict'[u] = verdict[u]
        BY <3>2 DEF CallsTypeOK
      <4>2. RecordsOf(s, u, made[u])' = RecordsOf(s, u, made[u])
        BY <4>1 DEF RecordsOf
      <4>3. /\ Told(s, u) => \E i \in RecordsOf(s, u, made[u]) : heard[s][i].outcome = verdict[u]
            /\ ~Told(s, u) => RecordsOf(s, u, made[u]) = {}
        BY DEF RecordInv
      <4>4. Told(s, u)' <=> Told(s, u)
        BY <3>2, <2>3
      <4>5. QED
        BY <4>1, <4>2, <4>3, <4>4
    <3>3. QED
      BY <3>1, <3>2
  <2>8. QED
    BY <2>5, <2>6, <2>7 DEF RecordInv, Staying
<1>5. QED
  BY <1>1, <1>2, <1>3, <1>4

LEMMA AskGatesStep ==
  ASSUME CallsInv, NEW t \in Thread, AskGates(t)
  PROVE  CallsInv'
<1> USE DEF CallsInv, AskGates, MoveTo, Shared
<1>1. CallsTypeOK'
  BY DEF CallsTypeOK
<1>2. PlaceInv' /\ AttemptInv'
  BY DEF CallsTypeOK, PlaceInv, AttemptInv
<1>3. RetriesAreWarranted'
  BY DEF CallsTypeOK, RetriesAreWarranted, AttemptInv
<1>4. RecordInv'
  <2>1. \A u \in Thread \ {t} : at'[u] = at[u] /\ verdict'[u] = verdict[u] /\ untold'[u] = untold[u]
    BY DEF CallsTypeOK
  <2>2. at[t] = "gates" /\ at'[t] \in {"idle", "send"} /\ verdict'[t] \in {"refused", "none"}
    BY DEF CallsTypeOK, PlaceInv
  <2>3. \A s \in Staying : ~Told(s, t) /\ ~Told(s, t)'
    BY <2>2 DEF Told
  <2>4. QED
    BY <2>1, <2>3, NothingToldBy
<1>5. QED
  BY <1>1, <1>2, <1>3, <1>4

LEMMA SucceedStep ==
  ASSUME CallsInv, NEW t \in Thread, Succeed(t)
  PROVE  CallsInv'
<1> USE DEF CallsInv, Succeed, Conclude, MoveTo, Shared
<1>1. CallsTypeOK'
  BY DEF CallsTypeOK
<1>2. PlaceInv' /\ AttemptInv'
  BY DEF CallsTypeOK, PlaceInv, AttemptInv
<1>3. RetriesAreWarranted'
  BY DEF CallsTypeOK, RetriesAreWarranted
<1>4. RecordInv'
  <2>1. \A s \in Staying : s \in sinks
    BY DEF RecordInv
  <2>2. \A s \in Staying : ~Told(s, t) /\ ~Told(s, t)'
    BY <2>1 DEF Told, CallsTypeOK
  <2>3. \A u \in Thread \ {t} :
          at'[u] = at[u] /\ verdict'[u] = verdict[u] /\ untold'[u] = untold[u]
    BY DEF CallsTypeOK
  <2>4. QED
    BY <2>2, <2>3, NothingToldBy
<1>5. QED
  BY <1>1, <1>2, <1>3, <1>4

LEMMA FailStep ==
  ASSUME CallsInv, NEW t \in Thread, Fail(t)
  PROVE  CallsInv'
<1> USE DEF CallsInv
<1>1. PICK kind \in {"transient", "permanent"} :
        /\ failures' = [failures EXCEPT ![t] = Append(@, kind)]
        /\ IF kind = "transient" /\ Len(failures[t]) + 1 < MaxAttempts
           THEN MoveTo(t, "backoff") /\ UNCHANGED <<verdict, untold>>
           ELSE Conclude(t, "error")
  BY DEF Fail
<1>2. at[t] = "send" /\ UNCHANGED <<made, Shared>>
  BY DEF Fail
<1> USE DEF MoveTo, Conclude, Shared
<1>3. failures[t] \in Seq({"transient", "permanent"}) /\ Len(failures[t]) < MaxAttempts
  BY <1>2 DEF CallsTypeOK, AttemptInv
<1>4. /\ failures'[t] \in Seq({"transient", "permanent"})
      /\ Len(failures'[t]) = Len(failures[t]) + 1
      /\ \A i \in 1..Len(failures[t]) : failures'[t][i] = failures[t][i]
      /\ failures'[t][Len(failures[t]) + 1] = kind
  BY <1>1, <1>3 DEF CallsTypeOK
<1>5. \A u \in Thread \ {t} : failures'[u] = failures[u] /\ at'[u] = at[u] /\ verdict'[u] = verdict[u]
  BY <1>1 DEF CallsTypeOK
<1>6. CallsTypeOK'
  BY <1>1, <1>2, <1>4 DEF CallsTypeOK
<1>7. PlaceInv'
  BY <1>1, <1>2, <1>5 DEF CallsTypeOK, PlaceInv
<1>8. AttemptInv'
  BY <1>1, <1>2, <1>4, <1>5 DEF CallsTypeOK, AttemptInv
<1>9. RetriesAreWarranted'
  <2> SUFFICES ASSUME NEW u \in Thread
               PROVE  /\ Len(failures'[u]) <= MaxAttempts
                      /\ \A i \in 1..(Len(failures'[u]) - 1) : failures'[u][i] = "transient"
                      /\ at'[u] \in {"send", "backoff"} =>
                           \A i \in DOMAIN failures'[u] : failures'[u][i] = "transient"
                      /\ verdict'[u] = "refused" => failures'[u] = <<>>
    BY DEF RetriesAreWarranted
  <2>1. CASE u # t
    BY <2>1, <1>5 DEF RetriesAreWarranted
  <2>2. CASE u = t
    <3>1. \A i \in 1..Len(failures[t]) : failures[t][i] = "transient"
      BY <1>2, <1>3 DEF RetriesAreWarranted
    <3>2. \A i \in 1..(Len(failures'[t]) - 1) : failures'[t][i] = "transient"
      BY <3>1, <1>3, <1>4
    <3>3. at'[t] \in {"send", "backoff"} => kind = "transient"
      BY <1>1, <1>2 DEF CallsTypeOK
    <3>4. at'[t] \in {"send", "backoff"} =>
            \A i \in DOMAIN failures'[t] : failures'[t][i] = "transient"
      <4>1. \A i \in DOMAIN failures'[t] : i \in 1..Len(failures[t]) \/ i = Len(failures[t]) + 1
        BY <1>3, <1>4
      <4>2. QED
        BY <1>4, <3>1, <3>3, <4>1, Zenon
    <3>5. verdict'[t] # "refused"
      BY <1>1, <1>2 DEF CallsTypeOK, PlaceInv
    <3>6. QED
      BY <2>2, <3>2, <3>4, <3>5, <1>3, <1>4
  <2>3. QED
    BY <2>1, <2>2
<1>10. RecordInv'
  <2>1. \A s \in Staying : s \in sinks
    BY DEF RecordInv
  <2>2. \A u \in Thread \ {t} : at'[u] = at[u] /\ verdict'[u] = verdict[u] /\ untold'[u] = untold[u]
    BY <1>1 DEF CallsTypeOK
  <2>3. at'[t] = "backoff" \/ (at'[t] = "emit" /\ untold'[t] = sinks)
    BY <1>1 DEF CallsTypeOK
  <2>4. \A s \in Staying : ~Told(s, t) /\ ~Told(s, t)'
    BY <1>2, <2>1, <2>3 DEF Told
  <2>5. QED
    BY <1>2, <2>2, <2>4, NothingToldBy
<1>11. QED
  BY <1>6, <1>7, <1>8, <1>9, <1>10

LEMMA ResendStep ==
  ASSUME CallsInv, NEW t \in Thread, Resend(t)
  PROVE  CallsInv'
<1> USE DEF CallsInv, Resend, MoveTo, Shared
<1>1. CallsTypeOK'
  BY DEF CallsTypeOK
<1>2. PlaceInv' /\ AttemptInv'
  BY DEF CallsTypeOK, PlaceInv, AttemptInv
<1>3. RetriesAreWarranted'
  BY DEF CallsTypeOK, RetriesAreWarranted
<1>4. RecordInv'
  <2>1. at'[t] = "send" /\ \A u \in Thread \ {t} : at'[u] = at[u]
    BY DEF CallsTypeOK
  <2>2. \A s \in Staying : ~Told(s, t) /\ ~Told(s, t)'
    BY <2>1 DEF Told
  <2>3. QED
    BY <2>1, <2>2, NothingToldBy
<1>5. QED
  BY <1>1, <1>2, <1>3, <1>4

(***************************************************************************)
(* A sink is told of a call while the round has not passed it, so the      *)
(* record it takes is its first of this call.                              *)
(***************************************************************************)
LEMMA TellStep ==
  ASSUME CallsInv, NEW t \in Thread, Tell(t)
  PROVE  CallsInv'
<1> USE DEF CallsInv
<1>1. PICK s \in untold[t] :
        /\ untold' = [untold EXCEPT ![t] = @ \ {s}]
        /\ heard' = IF s \in Raising THEN heard
                    ELSE [heard EXCEPT ![s] = Append(@, Report(t))]
  BY DEF Tell
<1>2. at[t] = "emit" /\ UNCHANGED <<at, made, failures, verdict, sinks, shut>>
  BY DEF Tell
<1>3. s \in Sink /\ heard[s] \in Seq(Record) /\ Len(heard[s]) \in Nat
  BY <1>1 DEF CallsTypeOK
<1>4. Report(t) \in Record
  BY <1>2 DEF Report, Record, CallsTypeOK, PlaceInv
<1>5. CallsTypeOK'
  BY <1>1, <1>2, <1>3, <1>4 DEF CallsTypeOK
<1>6. PlaceInv' /\ AttemptInv' /\ RetriesAreWarranted'
  BY <1>2 DEF PlaceInv, AttemptInv, RetriesAreWarranted
<1>7. CASE s \in Raising
  <2>1. \A r \in Staying, u \in Thread : Told(r, u)' <=> Told(r, u)
    BY <1>1, <1>2, <1>7 DEF Told, Staying, CallsTypeOK
  <2>2. RecordInv'
    BY <2>1, <1>1, <1>2, <1>7, NothingTold DEF RecordInv
  <2>3. QED
    BY <1>5, <1>6, <2>2
<1>8. CASE s \notin Raising
  <2> DEFINE n == Len(heard[s]) + 1
  <2>1. /\ heard'[s] = Append(heard[s], Report(t))
        /\ \A r \in Sink \ {s} : heard'[r] = heard[r]
    BY <1>1, <1>3, <1>8 DEF CallsTypeOK
  <2>2. /\ DOMAIN heard'[s] = DOMAIN heard[s] \cup {n}
        /\ heard'[s][n] = Report(t)
        /\ \A i \in DOMAIN heard[s] : heard'[s][i] = heard[s][i]
        /\ n \notin DOMAIN heard[s]
    BY <2>1, <1>3, <1>4
  <2> HIDE DEF n
  <2>3. Report(t).thread = t /\ Report(t).call = made[t] /\ Report(t).outcome = verdict[t]
    BY DEF Report
  <2>4. \A u, k : RecordsOf(s, u, k)' =
          IF u = t /\ k = made[t] THEN RecordsOf(s, u, k) \cup {n} ELSE RecordsOf(s, u, k)
    BY <2>2, <2>3 DEF RecordsOf
  <2>5. \A r \in Sink \ {s} : \A u, k : RecordsOf(r, u, k)' = RecordsOf(r, u, k)
    BY <2>1 DEF RecordsOf
  <2>6. s \in Staying /\ ~Told(s, t) /\ Told(s, t)'
    BY <1>1, <1>2, <1>3, <1>8 DEF Told, Staying, CallsTypeOK
  <2>7. RecordsOf(s, t, made[t]) = {} /\ made[t] \in 1..MaxCalls
    BY <2>6, <1>2 DEF RecordInv, PlaceInv, CallsTypeOK
  <2>8. \A r \in Staying, u \in Thread : (r # s \/ u # t) => (Told(r, u)' <=> Told(r, u))
    BY <1>1, <1>2 DEF Told, CallsTypeOK
  <2>9. RecordInv'
    <3> SUFFICES ASSUME NEW r \in Staying, NEW u \in Thread
                 PROVE  /\ \A k \in 1..MaxCalls : \A i, j \in RecordsOf(r, u, k)' : i = j
                        /\ \A k \in 1..MaxCalls : k > made[u] => RecordsOf(r, u, k)' = {}
                        /\ Told(r, u)' =>
                             \E i \in RecordsOf(r, u, made[u])' : heard'[r][i].outcome = verdict[u]
                        /\ ~Told(r, u)' => RecordsOf(r, u, made[u])' = {}
      <4>1. Staying \subseteq sinks'
        BY <1>2 DEF RecordInv
      <4>2. made' = made /\ verdict' = verdict
        BY <1>2
      <4>3. QED
        BY <4>1, <4>2 DEF RecordInv, Staying
    <3> r \in Sink
      BY DEF Staying
    <3>1. CASE r = s /\ u = t
      <4>1. \A k \in 1..MaxCalls : \A i, j \in RecordsOf(s, t, k)' : i = j
        BY <2>4, <2>7, <2>6 DEF RecordInv
      <4>2. \A k \in 1..MaxCalls : k > made[t] => RecordsOf(s, t, k)' = {}
        BY <2>4, <2>6, <2>7 DEF RecordInv
      <4>3. n \in RecordsOf(s, t, made[t])' /\ heard'[s][n].outcome = verdict[t]
        BY <1>2, <2>2, <2>3 DEF RecordsOf
      <4>4. QED
        BY <3>1, <4>1, <4>2, <4>3, <2>6
    <3>2. CASE r # s \/ u # t
      <4>1. \A k : RecordsOf(r, u, k)' = RecordsOf(r, u, k)
        BY <3>2, <2>4, <2>5
      <4>2. \A i \in RecordsOf(r, u, made[u]) : heard'[r][i] = heard[r][i]
        BY <2>1, <2>2 DEF RecordsOf
      <4>3. RecordsOf(r, u, made[u])' = RecordsOf(r, u, made[u])
        BY <4>1, <1>2 DEF RecordsOf
      <4>4. QED
        BY <3>2, <4>1, <4>2, <4>3, <2>8, <1>2 DEF RecordInv
    <3>3. QED
      BY <3>1, <3>2
  <2>10. QED
    BY <1>5, <1>6, <2>9
<1>9. QED
  BY <1>7, <1>8

LEMMA ReturnStep ==
  ASSUME CallsInv, NEW t \in Thread, Return(t)
  PROVE  CallsInv'
<1> USE DEF CallsInv, Return, MoveTo, Shared
<1>1. CallsTypeOK'
  BY DEF CallsTypeOK
<1>2. PlaceInv' /\ AttemptInv'
  BY DEF CallsTypeOK, PlaceInv, AttemptInv
<1>3. RetriesAreWarranted'
  BY DEF CallsTypeOK, RetriesAreWarranted
<1>4. RecordInv'
  <2>1. at'[t] = "idle" /\ \A u \in Thread \ {t} : at'[u] = at[u]
    BY DEF CallsTypeOK
  <2>2. verdict[t] \in {"ok", "error"}
    BY DEF PlaceInv
  <2>3. \A s \in Staying : Told(s, t) /\ Told(s, t)'
    BY <2>1, <2>2 DEF Told
  <2>4. QED
    BY <2>1, <2>3, NothingToldBy
<1>5. QED
  BY <1>1, <1>2, <1>3, <1>4

LEMMA RegistryStep ==
  ASSUME CallsInv, (\E s \in Raising : Enlist(s)) \/ Turn \/ UNCHANGED callVars
  PROVE  CallsInv'
<1> USE DEF CallsInv, Enlist, Turn, callVars
<1>1. CallsTypeOK'
  BY DEF CallsTypeOK
<1>2. PlaceInv' /\ AttemptInv' /\ RetriesAreWarranted'
  BY DEF PlaceInv, AttemptInv, RetriesAreWarranted
<1>3. Staying \subseteq sinks'
  BY DEF RecordInv, Staying
<1>4. RecordInv'
  BY <1>3, NothingTold DEF Told
<1>5. QED
  BY <1>1, <1>2, <1>4

-------------------------------------------------------------------------------
(***************************************************************************)
(* The inductive invariant holds whichever threads, sinks and gates move.  *)
(***************************************************************************)
THEOREM CallsInvHolds == CallsSpec => []CallsInv
<1>1. CallsInit => CallsInv
  BY NoRecordsYet
<1>2. CallsInv /\ [CallsNext]_callVars => CallsInv'
  BY BeginStep, AskGatesStep, SucceedStep, FailStep, ResendStep, TellStep, ReturnStep,
     RegistryStep DEF CallsNext, Step
<1>3. CallsSpec => CallsInit /\ [][CallsNext]_callVars
  BY PTL DEF CallsSpec
<1>4. QED
  BY <1>1, <1>2, <1>3, PTL

(***************************************************************************)
(* What the retry layer holds is of its types, whatever fails.             *)
(***************************************************************************)
THEOREM CallsAreTyped == CallsSpec => []CallsTypeOK
<1>1. CallsInv => CallsTypeOK
  BY DEF CallsInv
<1>2. QED
  BY <1>1, CallsInvHolds, PTL

(***************************************************************************)
(* A request is sent again only after failures that may pass, at most      *)
(* MaxAttempts times, and never after a refusal.                           *)
(***************************************************************************)
THEOREM NoRetryIsUnwarranted == CallsSpec => []RetriesAreWarranted
<1>1. CallsInv => RetriesAreWarranted
  BY DEF CallsInv
<1>2. QED
  BY <1>1, CallsInvHolds, PTL

(***************************************************************************)
(* A sink that stays takes one record of each call that was sent, with its *)
(* outcome, and none of a call that was refused.                           *)
(***************************************************************************)
THEOREM EveryCallIsRecordedOnce == CallsSpec => []CallsAreRecorded
<1>1. CallsInv => CallsAreRecorded
  <2> SUFFICES ASSUME CallsInv, NEW s \in Staying, NEW t \in Thread
               PROVE  /\ \A k \in 1..made[t] : Cardinality(RecordsOf(s, t, k)) <= 1
                      /\ at[t] = "idle" /\ made[t] > 0 =>
                           {heard[s][i].outcome : i \in RecordsOf(s, t, made[t])}
                             = {verdict[t]} \ {"refused"}
    BY DEF CallsAreRecorded, Staying
  <2> USE DEF CallsInv
  <2>1. made[t] \in 0..MaxCalls
    BY DEF CallsTypeOK
  <2>2. ASSUME NEW k \in 1..made[t]
        PROVE  Cardinality(RecordsOf(s, t, k)) <= 1
    <3>1. \A i, j \in RecordsOf(s, t, k) : i = j
      BY <2>1 DEF RecordInv
    <3>2. CASE RecordsOf(s, t, k) = {}
      BY <3>2, FS_EmptySet
    <3>3. CASE \E i : RecordsOf(s, t, k) = {i}
      BY <3>3, FS_Singleton
    <3>4. QED
      BY <3>1, <3>2, <3>3
  <2>3. ASSUME at[t] = "idle", made[t] > 0
        PROVE  {heard[s][i].outcome : i \in RecordsOf(s, t, made[t])}
                 = {verdict[t]} \ {"refused"}
    <3>1. verdict[t] \in {"refused", "ok", "error"}
      BY <2>3 DEF PlaceInv, CallsTypeOK
    <3>2. CASE verdict[t] = "refused"
      <4>1. RecordsOf(s, t, made[t]) = {}
        BY <2>3, <3>2 DEF RecordInv, Told
      <4>2. QED
        BY <4>1, <3>2
    <3>3. CASE verdict[t] \in {"ok", "error"}
      <4>1. PICK i \in RecordsOf(s, t, made[t]) : heard[s][i].outcome = verdict[t]
        BY <2>3, <3>3 DEF RecordInv, Told
      <4>2. \A j \in RecordsOf(s, t, made[t]) : j = i
        BY <2>1, <2>3 DEF RecordInv
      <4>3. RecordsOf(s, t, made[t]) = {i}
        BY <4>1, <4>2
      <4>4. QED
        BY <4>1, <4>3, <3>3
    <3>4. QED
      BY <3>1, <3>2, <3>3
  <2>4. QED
    BY <2>2, <2>3
<1>2. QED
  BY <1>1, CallsInvHolds, PTL

===============================================================================
