---------------------------- MODULE Sessions_proofs ----------------------------
(***************************************************************************)
(* The refresh tokens of the server, and the browser that spends them, for *)
(* any number of requests, tabs, activities, tokens, families and          *)
(* accounts.                                                               *)
(*                                                                         *)
(* First the ledger, whatever its clients present. Neither OneHeir nor     *)
(* RevokedIsDead is inductive as it stands: what a request has in hand     *)
(* must be of a family there has been, or a sign-in could open a family    *)
(* that others hold a token of.                                            *)
(*                                                                         *)
(* Then the session. A browser without trouble is calm: all who wait for   *)
(* an answer are in one tab, one of them at most trades a token, and a     *)
(* token that is held is good unless its successor is on the way to where  *)
(* it is held. With trouble nothing of this is left, but what is presented *)
(* was issued; so every session is one of the clients of the ledger.       *)
(***************************************************************************)
EXTENDS Session, FiniteSetTheorems, TLAPS

\* A family there is a token of has been opened.
FamilyInv == \A t \in Token : familyOf[t] \in opened \cup {None}

\* What is on its way or in the ledger was issued.
IssuedInv ==
  /\ \A t \in live : familyOf[t] # None
  /\ \A r \in Request : token[r] # None => familyOf[token[r]] # None

\* A request works on a family that has been opened.
HandInv ==
  \A r \in Request : step[r] \in {"consume", "revoke", "issue"} => family[r] \in opened

LedgerInv ==
  /\ TokensTypeOK /\ FamilyInv /\ IssuedInv /\ HandInv
  /\ OneHeir /\ RevokedIsDead

USE LedgerAssumption DEF LedgerAssumption

-------------------------------------------------------------------------------
(***************************************************************************)
(* A server starts with rows an earlier build left, all of them of the     *)
(* families that stand for sign-ins before there were any.                 *)
(***************************************************************************)
LEMMA InheritedLedger ==
  ASSUME NEW inherited \in SUBSET Token, NEW past \in SUBSET Family,
         NEW of \in [inherited -> Legacy], LedgerInit(inherited, of, past)
  PROVE  LedgerInv
<1>1. \A t \in live : familyOf[t] \in Legacy
  BY DEF LedgerInit
<1>2. TokensTypeOK
  BY DEF LedgerInit, TokensTypeOK, Working, Replied, Kind
<1>3. FamilyInv /\ IssuedInv /\ HandInv
  BY DEF LedgerInit, FamilyInv, IssuedInv, HandInv
<1>4. \A f \in Family : Rotations(f) = {}
  BY DEF LedgerInit, Rotations
<1>5. \A f \in Family \ Legacy : Heirs(f) = {}
  BY <1>1 DEF Heirs
<1>6. OneHeir /\ RevokedIsDead
  BY <1>4, <1>5 DEF LedgerInit, OneHeir, RevokedIsDead
<1>7. QED
  BY <1>2, <1>3, <1>6 DEF LedgerInv

(***************************************************************************)
(* A step that issues no token, opens and revokes no family and lets no    *)
(* request come to issue one keeps both properties.                        *)
(***************************************************************************)
LEMMA NothingNew ==
  ASSUME OneHeir, RevokedIsDead,
         live' \subseteq live, UNCHANGED <<familyOf, histories>>,
         \A r \in Request :
           step'[r] = "issue" => step[r] = "issue" /\ family'[r] = family[r]
  PROVE  OneHeir' /\ RevokedIsDead'
<1>1. \A f \in Family : Heirs(f)' \subseteq Heirs(f) /\ Rotations(f)' \subseteq Rotations(f)
  BY DEF Heirs, Rotations
<1>2. \A f \in revoked : Heirs(f)' \subseteq Heirs(f) /\ Rotations(f)' \subseteq Rotations(f)
  BY DEF Heirs, Rotations
<1>3. OneHeir'
  <2> SUFFICES ASSUME NEW f \in Family \ Legacy
               PROVE  /\ \A s, t \in Heirs(f)' : s = t
                      /\ \A q, r \in Rotations(f)' : q = r
                      /\ Heirs(f)' = {} \/ Rotations(f)' = {}
    BY DEF OneHeir
  <2>1. Heirs(f)' \subseteq Heirs(f) /\ Rotations(f)' \subseteq Rotations(f)
    BY <1>1
  <2>2. /\ \A s, t \in Heirs(f) : s = t
        /\ \A q, r \in Rotations(f) : q = r
        /\ Heirs(f) = {} \/ Rotations(f) = {}
    BY Zenon DEF OneHeir
  <2>3. QED
    BY <2>1, <2>2
<1>4. RevokedIsDead'
  BY <1>2 DEF RevokedIsDead, histories
<1>5. QED
  BY <1>3, <1>4

-------------------------------------------------------------------------------
LEMMA ArriveStep ==
  ASSUME LedgerInv, NEW r \in Request, NEW k \in Kind, NEW t \in Issued \cup {None},
         Arrive(r, k, t)
  PROVE  LedgerInv'
<1> USE DEF LedgerInv, Arrive, GoTo, Issued
<1>1. TokensTypeOK'
  BY DEF TokensTypeOK, histories, Working
<1>2. FamilyInv' /\ IssuedInv'
  BY DEF FamilyInv, IssuedInv, TokensTypeOK
<1>3. HandInv'
  BY DEF HandInv, TokensTypeOK
<1>4. \A q \in Request : step'[q] = "issue" => step[q] = "issue" /\ family'[q] = family[q]
  BY DEF TokensTypeOK
<1>5. QED
  BY <1>1, <1>2, <1>3, <1>4, NothingNew

LEMMA DecodeStep ==
  ASSUME LedgerInv, NEW r \in Request, Decode(r)
  PROVE  LedgerInv'
<1> USE DEF LedgerInv, Decode, GoTo, Answer, Readable
<1>1. TokensTypeOK'
  BY DEF TokensTypeOK, histories, Working, Replied, FamilyInv, IssuedInv
<1>2. FamilyInv' /\ IssuedInv'
  BY DEF FamilyInv, IssuedInv, TokensTypeOK
<1>3. HandInv'
  BY DEF HandInv, TokensTypeOK, FamilyInv, IssuedInv
<1>4. \A q \in Request : step'[q] = "issue" => step[q] = "issue" /\ family'[q] = family[q]
  BY DEF TokensTypeOK
<1>5. QED
  BY <1>1, <1>2, <1>3, <1>4, NothingNew

(***************************************************************************)
(* Whoever spends the token of a family is the only one to issue into it:  *)
(* the row it deleted was the one heir, and nobody was about to issue.     *)
(***************************************************************************)
LEMMA ConsumeStep ==
  ASSUME LedgerInv, NEW r \in Request, Consume(r)
  PROVE  LedgerInv'
<1> USE DEF LedgerInv, Consume, GoTo
<1>1. TokensTypeOK'
  BY DEF TokensTypeOK, histories, Working
<1>2. FamilyInv' /\ IssuedInv'
  BY DEF FamilyInv, IssuedInv, TokensTypeOK
<1>3. HandInv'
  BY DEF HandInv, TokensTypeOK
<1>4. CASE ~Spendable(r)
  <2>1. \A q \in Request : step'[q] = "issue" => step[q] = "issue" /\ family'[q] = family[q]
    BY <1>4 DEF TokensTypeOK
  <2>2. QED
    BY <1>1, <1>2, <1>3, <1>4, <2>1, NothingNew
<1>5. CASE Spendable(r)
  <2> DEFINE f == family[r]
  <2>1. f \in opened /\ f \in Family /\ token[r] \in Heirs(f)
    BY <1>5 DEF Spendable, Heirs, HandInv, TokensTypeOK
  <2>2. \A g : Heirs(g)' = Heirs(g) \ {token[r]}
    BY <1>5 DEF Heirs
  <2>3. \A g : g # f => Rotations(g)' = Rotations(g)
    BY <1>5 DEF Rotations, TokensTypeOK
  <2>4. Rotations(f)' = Rotations(f) \cup {r}
    BY <1>5 DEF Rotations, TokensTypeOK
  <2>5. OneHeir'
    <3> SUFFICES ASSUME NEW g \in Family \ Legacy
                 PROVE  /\ \A s, t \in Heirs(g)' : s = t
                        /\ \A p, q \in Rotations(g)' : p = q
                        /\ Heirs(g)' = {} \/ Rotations(g)' = {}
      BY DEF OneHeir
    <3>1. CASE g = f
      BY <3>1, <2>1, <2>2, <2>4 DEF OneHeir
    <3>2. CASE g # f
      BY <3>2, <2>2, <2>3 DEF OneHeir
    <3>3. QED
      BY <3>1, <3>2
  <2>6. RevokedIsDead'
    BY <2>1, <2>2, <2>3 DEF RevokedIsDead, histories
  <2>7. QED
    BY <1>1, <1>2, <1>3, <2>5, <2>6
<1>6. QED
  BY <1>4, <1>5

(***************************************************************************)
(* A revocation takes what the ledger holds of a family, and what it       *)
(* misses, a token about to be issued, makes an overlap of it.             *)
(***************************************************************************)
LEMMA RevokeStep ==
  ASSUME LedgerInv, NEW r \in Request, Revoke(r)
  PROVE  LedgerInv'
<1> USE DEF LedgerInv, Revoke, GoTo, Answer
<1>1. Reached(r) \subseteq opened
  BY DEF Reached, HandInv, TokensTypeOK
<1>2. TokensTypeOK'
  BY <1>1 DEF TokensTypeOK, Working, Replied
<1>3. FamilyInv' /\ IssuedInv'
  BY DEF FamilyInv, IssuedInv, TokensTypeOK
<1>4. HandInv'
  BY DEF HandInv, TokensTypeOK
<1>5. \A f : /\ Heirs(f)' = IF f \in Reached(r) THEN {} ELSE Heirs(f)
             /\ Rotations(f)' = Rotations(f)
  BY DEF Heirs, Rotations, TokensTypeOK
<1>6. OneHeir'
  BY <1>5 DEF OneHeir
<1>7. RevokedIsDead'
  BY <1>5 DEF RevokedIsDead
<1>8. QED
  BY <1>2, <1>3, <1>4, <1>6, <1>7

LEMMA VerifyStep ==
  ASSUME LedgerInv, NEW r \in Request, Verify(r)
  PROVE  LedgerInv'
<1> USE DEF LedgerInv, Verify
<1>1. CASE Answer(r, "denied", None) /\ UNCHANGED opened
  <2> USE <1>1 DEF Answer, GoTo
  <2>1. TokensTypeOK'
    BY DEF TokensTypeOK, histories, Working, Replied
  <2>2. FamilyInv' /\ IssuedInv' /\ HandInv'
    BY DEF FamilyInv, IssuedInv, HandInv, TokensTypeOK
  <2>3. \A q \in Request : step'[q] = "issue" => step[q] = "issue" /\ family'[q] = family[q]
    BY DEF TokensTypeOK
  <2>4. QED
    BY <2>1, <2>2, <2>3, NothingNew
<1>2. CASE ~UNCHANGED opened
  <2>1. PICK f \in Family \ opened :
               /\ opened' = opened \cup {f}
               /\ family' = [family EXCEPT ![r] = f]
               /\ GoTo(r, "issue")
               /\ UNCHANGED token
    BY <1>2
  <2> USE <2>1 DEF GoTo
  <2>2. TokensTypeOK'
    BY DEF TokensTypeOK, histories, Working
  <2>3. FamilyInv' /\ IssuedInv' /\ HandInv'
    BY DEF FamilyInv, IssuedInv, HandInv, TokensTypeOK
  <2>4. Heirs(f) = {} /\ Rotations(f) = {}
    BY DEF Heirs, Rotations, FamilyInv, IssuedInv, HandInv, TokensTypeOK
  <2>5. \A g : Heirs(g)' = Heirs(g)
    BY DEF Heirs
  <2>6. Rotations(f)' = {r}
    BY <2>4 DEF Rotations, TokensTypeOK
  <2>7. \A g : g # f => Rotations(g)' = Rotations(g)
    BY DEF Rotations, TokensTypeOK
  <2>8. OneHeir'
    BY <2>4, <2>5, <2>6, <2>7 DEF OneHeir
  <2>9. RevokedIsDead'
    BY <2>5, <2>7 DEF RevokedIsDead, TokensTypeOK, histories
  <2>10. QED
    BY <2>2, <2>3, <2>8, <2>9
<1>3. QED
  BY <1>1, <1>2

(***************************************************************************)
(* The heir takes the place of the request that issues it.                 *)
(***************************************************************************)
LEMMA IssueStep ==
  ASSUME LedgerInv, NEW r \in Request, NEW t \in Token, Issue(r, t)
  PROVE  LedgerInv'
<1> USE DEF LedgerInv, Issue, GoTo, Answer
<1>0. PICK f \in opened : f = family[r]
  BY DEF HandInv
<1>1. f \in Family /\ f # None /\ f = family[r] /\ r \in Rotations(f)
  BY <1>0 DEF TokensTypeOK, Rotations
<1>2. TokensTypeOK'
  BY <1>1 DEF TokensTypeOK, histories, Working, Replied
<1>3. FamilyInv' /\ IssuedInv' /\ HandInv'
  BY <1>1 DEF FamilyInv, IssuedInv, HandInv, TokensTypeOK
<1>4. Heirs(f)' = Heirs(f) \cup {t}
  <2>1. familyOf'[t] = f /\ \A u \in live : familyOf'[u] = familyOf[u]
    BY <1>1 DEF TokensTypeOK
  <2>2. QED
    BY <2>1 DEF Heirs
<1>5. \A g : g # f => Heirs(g)' = Heirs(g)
  BY <1>1 DEF Heirs, TokensTypeOK
<1>6. \A g : Rotations(g)' = Rotations(g) \ {r}
  BY DEF Rotations, TokensTypeOK
<1>7. OneHeir'
  <2> SUFFICES ASSUME NEW g \in Family \ Legacy
               PROVE  /\ \A s, u \in Heirs(g)' : s = u
                      /\ \A p, q \in Rotations(g)' : p = q
                      /\ Heirs(g)' = {} \/ Rotations(g)' = {}
    BY DEF OneHeir
  <2>1. CASE g = f
    <3>1. Heirs(f) = {} /\ \A q \in Rotations(f) : q = r
      BY <2>1, <1>1, Zenon DEF OneHeir
    <3>2. QED
      BY <2>1, <3>1, <1>4, <1>6
  <2>2. CASE g # f
    BY <2>2, <1>5, <1>6 DEF OneHeir
  <2>3. QED
    BY <2>1, <2>2
<1>8. RevokedIsDead'
  BY <1>1, <1>5, <1>6 DEF RevokedIsDead, histories
<1>9. QED
  BY <1>2, <1>3, <1>7, <1>8

LEMMA FailStep ==
  ASSUME LedgerInv, NEW r \in Request, Fail(r)
  PROVE  LedgerInv'
<1> USE DEF LedgerInv, Fail, GoTo, Answer
<1>1. TokensTypeOK'
  BY DEF TokensTypeOK, histories, Working, Replied
<1>2. FamilyInv' /\ IssuedInv' /\ HandInv'
  BY DEF FamilyInv, IssuedInv, HandInv, TokensTypeOK
<1>3. \A q \in Request : step'[q] = "issue" => step[q] = "issue" /\ family'[q] = family[q]
  BY DEF TokensTypeOK
<1>4. QED
  BY <1>1, <1>2, <1>3, NothingNew

LEMMA CollectStep ==
  ASSUME LedgerInv, NEW r \in Request, Collect(r)
  PROVE  LedgerInv'
<1> USE DEF LedgerInv, Collect, GoTo, Answer
<1>1. TokensTypeOK'
  BY DEF TokensTypeOK, histories, Working, Replied, Kind
<1>2. FamilyInv' /\ IssuedInv' /\ HandInv'
  BY DEF FamilyInv, IssuedInv, HandInv, TokensTypeOK
<1>3. \A q \in Request : step'[q] = "issue" => step[q] = "issue" /\ family'[q] = family[q]
  BY DEF TokensTypeOK
<1>4. QED
  BY <1>1, <1>2, <1>3, NothingNew

LEMMA ExpireStep ==
  ASSUME LedgerInv, NEW t \in Token, Expire(t)
  PROVE  LedgerInv'
<1> USE DEF LedgerInv, Expire
<1>1. TokensTypeOK'
  BY DEF TokensTypeOK, histories
<1>2. FamilyInv' /\ IssuedInv' /\ HandInv'
  BY DEF FamilyInv, IssuedInv, HandInv, TokensTypeOK
<1>3. QED
  BY <1>1, <1>2, NothingNew

LEMMA RestartStep ==
  ASSUME LedgerInv, Restart
  PROVE  LedgerInv'
<1> USE DEF LedgerInv, Restart
<1>1. TokensTypeOK'
  BY DEF TokensTypeOK, histories, Working, Replied
<1>2. FamilyInv' /\ IssuedInv'
  BY DEF FamilyInv, IssuedInv, TokensTypeOK
<1>3. \A q \in Request : step'[q] \notin Working
  BY DEF Working
<1>4. HandInv'
  BY <1>3 DEF HandInv, Working
<1>5. QED
  BY <1>1, <1>2, <1>3, <1>4, NothingNew DEF Working

-------------------------------------------------------------------------------
LEMMA LedgerStep ==
  ASSUME LedgerInv, [LedgerNext]_ledgerVars
  PROVE  LedgerInv'
<1>1. CASE UNCHANGED ledgerVars
  BY <1>1 DEF ledgerVars, LedgerInv, TokensTypeOK, FamilyInv, IssuedInv, HandInv,
              OneHeir, RevokedIsDead, Heirs, Rotations, histories
<1>2. CASE \E r \in Request : \E k \in Kind, t \in Issued \cup {None} : Arrive(r, k, t)
  BY <1>2, ArriveStep
<1>3. CASE \E r \in Request : Handle(r) \/ Collect(r)
  BY <1>3, DecodeStep, ConsumeStep, RevokeStep, VerifyStep, FailStep, CollectStep DEF Handle
<1>4. CASE \E r \in Request : \E t \in Token : Issue(r, t)
  BY <1>4, IssueStep
<1>5. CASE \E t \in Token : Expire(t)
  BY <1>5, ExpireStep
<1>6. CASE Restart
  BY <1>6, RestartStep
<1>7. QED
  BY <1>1, <1>2, <1>3, <1>4, <1>5, <1>6 DEF LedgerNext

(***************************************************************************)
(* The inductive invariant holds whatever the clients present, whichever   *)
(* requests overlap, fail or are cut off by a restart.                     *)
(***************************************************************************)
THEOREM LedgerInvHolds == LedgerSpec => []LedgerInv
<1>1. (\E inherited \in SUBSET Token, past \in SUBSET Family :
         \E of \in [inherited -> Legacy] : LedgerInit(inherited, of, past)) => LedgerInv
  BY InheritedLedger
<1>2. LedgerInv /\ [LedgerNext]_ledgerVars => LedgerInv'
  BY LedgerStep
<1>3. QED
  BY <1>1, <1>2, PTL DEF LedgerSpec

(***************************************************************************)
(* A sign-in has one live refresh token at most, or one request about to   *)
(* issue it, however many requests present the same token at a time.       *)
(***************************************************************************)
THEOREM FamiliesHaveOneHeir == LedgerSpec => []OneHeir
<1>1. LedgerInv => OneHeir
  BY DEF LedgerInv
<1>2. QED
  BY <1>1, LedgerInvHolds, PTL

(***************************************************************************)
(* A revoked family has no live token and nobody about to issue one,       *)
(* unless it was revoked between a spent token and its successor.          *)
(***************************************************************************)
THEOREM RevokedFamiliesAreDead == LedgerSpec => []RevokedIsDead
<1>1. LedgerInv => RevokedIsDead
  BY DEF LedgerInv
<1>2. QED
  BY <1>1, LedgerInvHolds, PTL

-------------------------------------------------------------------------------
(***************************************************************************)
(* A token that was spent although its sign-in goes on: whoever presents   *)
(* it is taken for a thief.                                                *)
(***************************************************************************)
Lasting(x) == x # None /\ familyOf[x] \notin revoked
Dead(x) == Lasting(x) /\ x \notin live

Asking == {"probing", "spending", "settling", "login", "leaving"}

Endpoint(what) ==
  IF what = "login" THEN "login" ELSE IF what = "leaving" THEN "logout" ELSE "refresh"

\* The request of r takes a token from the browser and brings another one.
Rotating(r, doing) ==
  sender[r] # None /\ act[sender[r]] \in doing /\ step[r] \in {"issue", "ok"}

BrowserTypeOK ==
  /\ keeps \in BOOLEAN /\ troubled \in BOOLEAN
  /\ mishaps \in 0..MaxMishaps /\ others \in 0..MaxOthers
  /\ cookie \in Token \cup {None}
  /\ page \in [Tab -> {"closed", "login", "checking", "ready"}]
  /\ mode \in [Tab -> {"unknown", "cookie", "body"}]
  /\ stored \in [Tab -> Token \cup {None}]
  /\ leader \in [Tab -> Activity \cup {None}]
  /\ act \in [Activity -> {"idle", "pending"} \cup Busy]
  /\ kept \in [Activity -> Token \cup {None}]
  /\ sender \in [Request -> Activity \cup {None}]

(***************************************************************************)
(* What holds with trouble or without it.                                  *)
(***************************************************************************)
Known(x) == x = None \/ familyOf[x] # None

HeldInv ==
  /\ Known(cookie)
  /\ \A t \in Tab : Known(stored[t])
  /\ \A a \in Activity : Known(kept[a])
  /\ cookie # None => keeps
  /\ \A a \in Activity : kept[a] # None => act[a] \in {"probing", "spending", "settling", "pending"}

HandlingInv ==
  /\ \A r \in Request : step[r] = "consume" => kind[r] = "refresh"
  /\ \A r \in Request : step[r] = "issue" => kind[r] \in {"refresh", "login"}
  /\ \A r \in Request : step[r] = "revoke" => kind[r] # "login"
  /\ \A r \in Request : step[r] \in {"consume", "revoke"} =>
       token[r] # None /\ family[r] = familyOf[token[r]]
  /\ \A r \in Request : step[r] = "denied" => kind[r] \in {"refresh", "login"}

TabInv ==
  /\ \A q, r \in Request : sender[q] = sender[r] /\ sender[r] # None => q = r
  /\ \A r \in Request : sender[r] # None => step[r] # "idle" /\ act[sender[r]] \in Asking
  /\ \A t \in Tab : IF Waiters(t) = {} THEN leader[t] = None ELSE leader[t] \in Waiters(t)
  /\ \A a \in Activity : act[a] \in {"probing", "spending"} => leader[TabOf[a]] = a
  /\ \A a \in Activity : act[a] \in {"login", "settling"} => page[TabOf[a]] = "login"
  /\ \A a \in Activity : page[TabOf[a]] = "login" => act[a] \in {"idle", "login", "settling", "pending"}
  /\ \A a \in Activity : page[TabOf[a]] = "checking" => act[a] \in {"idle"} \cup Refreshing
  /\ \A a, b \in Activity :
       act[a] \in {"login", "settling"} /\ TabOf[a] = TabOf[b] /\ a # b => act[b] = "idle"

(***************************************************************************)
(* While there is no trouble, whoever asks is heard, and all who ask are   *)
(* in one tab.                                                             *)
(***************************************************************************)
CalmAsking ==
  /\ expired = {}
  /\ \A r \in Request : step[r] # "failed"
  /\ \A r \in Request : sender[r] = None /\ step[r] # "idle" => kind[r] = "logout all"
  /\ \A r \in Request : sender[r] # None => kind[r] = Endpoint(act[sender[r]])
  /\ \A a \in Activity : act[a] \in Asking => \E r \in Request : sender[r] = a
  /\ \A q, r \in Pending : TabOf[sender[q]] = TabOf[sender[r]]
  /\ \A a \in Activity : act[a] # "pending"

(***************************************************************************)
(* Nobody holds the token of another: one that lasts is in the cookie, or  *)
(* in the storage of one tab.                                              *)
(***************************************************************************)
CalmHolding ==
  /\ \A a \in Activity : act[a] \in {"probing", "spending"} => kept[a] = stored[TabOf[a]]
  /\ keeps => \A t \in Tab : ~Lasting(stored[t])
  /\ \A t, u \in Tab : Lasting(stored[t]) /\ stored[t] = stored[u] => t = u
  /\ \A a \in Activity, t \in Tab :
       act[a] = "settling" /\ Lasting(kept[a]) => kept[a] # stored[t]

(***************************************************************************)
(* What is held is good, unless it is about to be replaced.                *)
(***************************************************************************)
CalmTokens ==
  /\ Dead(cookie) => \E r \in Request : Rotating(r, {"probing", "settling"})
  /\ \A t \in Tab : Dead(stored[t]) =>
       \E r \in Request : Rotating(r, {"spending"}) /\ TabOf[sender[r]] = t
  /\ \A a \in Activity : act[a] = "settling" /\ Dead(kept[a]) =>
       \E r \in Request : Rotating(r, {"settling"}) /\ sender[r] = a

(***************************************************************************)
(* A refresh under way presents a good token: that of the cookie, of the   *)
(* storage, or of the sign-in that waits for it.                           *)
(***************************************************************************)
PresentsGood(r, a) ==
  /\ step[r] \in {"arrived", "consume"} =>
       /\ ~Dead(token[r])
       /\ act[a] = "spending" => token[r] = kept[a] /\ token[r] # None
       /\ act[a] = "settling" /\ keeps => token[r] = kept[a]
  /\ act[a] \in {"probing", "settling"} /\ ~keeps =>
       step[r] = "denied" \/ (step[r] = "arrived" /\ token[r] = None)
  /\ step[r] = "revoke" => family[r] \in revoked
  /\ act[a] = "spending" /\ keeps /\ step[r] = "issue" => family[r] \in revoked
  /\ act[a] = "settling" /\ keeps /\ step[r] \in {"revoke", "denied"} => ~Lasting(kept[a])

BringsGood(r, a) ==
  /\ token[r] # None /\ ~Dead(token[r])
  /\ Lasting(token[r]) =>
       /\ token[r] # cookie
       /\ \A t \in Tab : token[r] # stored[t]
       /\ \A b \in Activity : token[r] # kept[b]
       /\ ~(act[a] = "spending" /\ keeps)

CalmRequests ==
  \A r \in Pending :
    /\ kind[r] = "refresh" => PresentsGood(r, sender[r])
    /\ step[r] = "ok" /\ kind[r] \in {"refresh", "login"} => BringsGood(r, sender[r])

Calm == CalmAsking /\ CalmHolding /\ CalmTokens /\ CalmRequests /\ suspected = {}

AlwaysInv == LedgerInv /\ BrowserTypeOK /\ HeldInv /\ HandlingInv /\ TabInv

SessionInv == AlwaysInv /\ (~troubled => Calm)

USE SessionAssumption DEF SessionAssumption

-------------------------------------------------------------------------------
(***************************************************************************)
(* The idle request that a page sends is some idle request.                *)
(***************************************************************************)
SentAs(r, a, k, body) ==
  /\ step[r] = "idle"
  /\ Arrive(r, k, IF body = None /\ k # "login" THEN cookie ELSE body)
  /\ sender' = [sender EXCEPT ![r] = a]
  /\ troubled' = (troubled \/ Overlaps(a))

LEMMA SomeRequestIsSent ==
  ASSUME NEW a, NEW k, NEW body, Send(a, k, body)
  PROVE  \E r \in Request : SentAs(r, a, k, body)
BY Zenon DEF Send, SentAs

(***************************************************************************)
(* Whatever a page presents was issued once: a browser is one of the       *)
(* clients that a ledger meets.                                            *)
(***************************************************************************)
LEMMA ArrivalKeepsLedger ==
  ASSUME LedgerInv, NEW r \in Request, NEW k \in Kind, NEW t \in Token \cup {None},
         Known(t), Arrive(r, k, t)
  PROVE  LedgerInv'
<1>1. t \in Issued \cup {None}
  BY DEF Known, Issued
<1>2. QED
  BY <1>1, ArriveStep

LEMMA CookieIsKnown ==
  ASSUME AlwaysInv, NEW r \in Request
  PROVE  CookieAfter(r) \in Token \cup {None} /\ Known(CookieAfter(r))
BY DEF AlwaysInv, LedgerInv, IssuedInv, TokensTypeOK, BrowserTypeOK, HeldInv, CookieAfter, Known

-------------------------------------------------------------------------------
(***************************************************************************)
(* The server at work: no step of it touches the browser.                  *)
(***************************************************************************)
Untouched ==
  /\ UNCHANGED <<keeps, cookie, tabVars, act, kept, sender>>
  /\ mishaps' \in 0..MaxMishaps /\ others' \in 0..MaxOthers /\ troubled' \in BOOLEAN

LEMMA BrowserAtRest ==
  ASSUME AlwaysInv, LedgerInv', HandlingInv', Untouched,
         \A x \in Token : familyOf[x] # None => familyOf'[x] # None,
         \A r \in Request : step[r] # "idle" => step'[r] # "idle"
  PROVE  AlwaysInv'
<1> USE DEF AlwaysInv, Untouched, tabVars
<1>1. BrowserTypeOK'
  BY DEF BrowserTypeOK
<1>2. HeldInv'
  BY DEF HeldInv, Known, BrowserTypeOK
<1>3. TabInv'
  BY DEF TabInv, Waiters, Activities
<1>4. QED
  BY <1>1, <1>2, <1>3

LEMMA RestIsUntouched ==
  ASSUME AlwaysInv, UNCHANGED browserVars
  PROVE  Untouched
BY DEF AlwaysInv, BrowserTypeOK, Untouched, browserVars, tabVars, counts

LEMMA MishapUntouched ==
  ASSUME AlwaysInv, Mishap, troubled' = TRUE,
         UNCHANGED <<keeps, cookie, tabVars, act, kept, sender>>
  PROVE  Untouched
BY DEF AlwaysInv, BrowserTypeOK, Untouched, Mishap

\* What the handler of one request has to keep, the rest being left alone.
LEMMA HandlingNext ==
  ASSUME HandlingInv, NEW r \in Request, familyOf' = familyOf,
         \A q \in Request : q # r =>
           step'[q] = step[q] /\ kind'[q] = kind[q] /\ token'[q] = token[q] /\ family'[q] = family[q],
         step'[r] = "consume" => kind'[r] = "refresh",
         step'[r] \in {"issue", "denied"} => kind'[r] \in {"refresh", "login"},
         step'[r] = "revoke" => kind'[r] # "login",
         step'[r] \in {"consume", "revoke"} =>
           token'[r] # None /\ family'[r] = familyOf[token'[r]]
  PROVE  HandlingInv'
<1>1. ASSUME NEW q \in Request
      PROVE  /\ step'[q] = "consume" => kind'[q] = "refresh"
             /\ step'[q] = "issue" => kind'[q] \in {"refresh", "login"}
             /\ step'[q] = "revoke" => kind'[q] # "login"
             /\ step'[q] \in {"consume", "revoke"} =>
                  token'[q] # None /\ family'[q] = familyOf[token'[q]]
             /\ step'[q] = "denied" => kind'[q] \in {"refresh", "login"}
  <2>1. CASE q = r
    BY <2>1
  <2>2. CASE q # r
    BY <2>2 DEF HandlingInv
  <2>3. QED
    BY <2>1, <2>2
<1>2. QED
  BY <1>1 DEF HandlingInv

LEMMA DecodeAlways ==
  ASSUME AlwaysInv, NEW r \in Request, Decode(r), UNCHANGED browserVars
  PROVE  AlwaysInv'
<1> USE DEF Decode, GoTo, Answer, Readable
<1>1. LedgerInv'
  BY DecodeStep DEF AlwaysInv
<1>2. HandlingInv'
  <2>1. DOMAIN step = Request /\ DOMAIN family = Request /\ DOMAIN token = Request
    BY DEF AlwaysInv, LedgerInv, TokensTypeOK
  <2>2. /\ UNCHANGED <<kind, familyOf>> /\ kind[r] # "login"
        /\ \A q \in Request : q # r =>
             step'[q] = step[q] /\ token'[q] = token[q] /\ family'[q] = family[q]
    BY <2>1
  <2>3. /\ step'[r] \in {"consume", "denied"} => kind[r] = "refresh"
        /\ step'[r] \in {"consume", "revoke", "denied", "ok"}
        /\ step'[r] \in {"consume", "revoke"} =>
             token'[r] # None /\ family'[r] = familyOf[token'[r]]
    <3>1. CASE Readable(token[r])
      BY <2>1, <3>1
    <3>2. CASE ~Readable(token[r])
      BY <2>1, <3>2
    <3>3. QED
      BY <3>1, <3>2
  <2>4. HandlingInv
    BY DEF AlwaysInv
  <2> HIDE DEF Decode
  <2>5. QED
    BY <2>2, <2>3, <2>4, HandlingNext
<1>3. \A q \in Request : step[q] # "idle" => step'[q] # "idle"
  BY DEF AlwaysInv, LedgerInv, TokensTypeOK
<1>4. QED
  BY <1>1, <1>2, <1>3, BrowserAtRest, RestIsUntouched

LEMMA ConsumeAlways ==
  ASSUME AlwaysInv, NEW r \in Request, Consume(r), UNCHANGED browserVars
  PROVE  AlwaysInv'
<1> USE DEF Consume, GoTo
<1>1. LedgerInv'
  BY ConsumeStep DEF AlwaysInv
<1>2. HandlingInv'
  <2>1. DOMAIN step = Request
    BY DEF AlwaysInv, LedgerInv, TokensTypeOK
  <2>2. /\ UNCHANGED <<kind, familyOf, token, family>>
        /\ \A q \in Request : q # r => step'[q] = step[q]
        /\ step'[r] \in {"issue", "revoke"}
    BY <2>1
  <2>3. HandlingInv
    BY DEF AlwaysInv
  <2>4. kind[r] = "refresh" /\ token[r] # None /\ family[r] = familyOf[token[r]]
    BY <2>3 DEF HandlingInv
  <2> HIDE DEF Consume
  <2>5. QED
    BY <2>2, <2>3, <2>4, HandlingNext
<1>3. \A q \in Request : step[q] # "idle" => step'[q] # "idle"
  BY DEF AlwaysInv, LedgerInv, TokensTypeOK
<1>4. QED
  BY <1>1, <1>2, <1>3, BrowserAtRest, RestIsUntouched

LEMMA RevokeAlways ==
  ASSUME AlwaysInv, NEW r \in Request, Revoke(r), UNCHANGED browserVars
  PROVE  AlwaysInv'
<1> USE DEF Revoke, GoTo, Answer
<1>1. LedgerInv'
  BY RevokeStep DEF AlwaysInv
<1>2. HandlingInv'
  <2>1. DOMAIN step = Request /\ DOMAIN family = Request /\ DOMAIN token = Request
    BY DEF AlwaysInv, LedgerInv, TokensTypeOK
  <2>2. /\ UNCHANGED <<kind, familyOf>>
        /\ \A q \in Request : q # r =>
             step'[q] = step[q] /\ token'[q] = token[q] /\ family'[q] = family[q]
        /\ step'[r] = IF kind[r] = "refresh" THEN "denied" ELSE "ok"
    BY <2>1
  <2>3. HandlingInv
    BY DEF AlwaysInv
  <2> HIDE DEF Revoke
  <2>4. QED
    BY <2>2, <2>3, HandlingNext
<1>3. \A q \in Request : step[q] # "idle" => step'[q] # "idle"
  BY DEF AlwaysInv, LedgerInv, TokensTypeOK
<1>4. QED
  BY <1>1, <1>2, <1>3, BrowserAtRest, RestIsUntouched

LEMMA VerifyAlways ==
  ASSUME AlwaysInv, NEW r \in Request, Verify(r), UNCHANGED browserVars
  PROVE  AlwaysInv'
<1> USE DEF Verify, GoTo, Answer
<1>1. LedgerInv'
  BY VerifyStep DEF AlwaysInv
<1>2. HandlingInv'
  <2>1. DOMAIN step = Request /\ DOMAIN family = Request /\ DOMAIN token = Request
    BY DEF AlwaysInv, LedgerInv, TokensTypeOK
  <2>2. /\ UNCHANGED <<kind, familyOf>> /\ kind[r] = "login"
        /\ \A q \in Request : q # r =>
             step'[q] = step[q] /\ token'[q] = token[q] /\ family'[q] = family[q]
        /\ step'[r] \in {"denied", "issue"}
    BY <2>1
  <2>3. HandlingInv
    BY DEF AlwaysInv
  <2> HIDE DEF Verify
  <2>4. QED
    BY <2>2, <2>3, HandlingNext
<1>3. \A q \in Request : step[q] # "idle" => step'[q] # "idle"
  BY DEF AlwaysInv, LedgerInv, TokensTypeOK
<1>4. QED
  BY <1>1, <1>2, <1>3, BrowserAtRest, RestIsUntouched

(***************************************************************************)
(* A new token is one that nobody holds, so that what is held stays of     *)
(* the family it was issued into.                                          *)
(***************************************************************************)
LEMMA IssueKeepsHeld ==
  ASSUME AlwaysInv, NEW r \in Request, NEW y \in Unheld, Issue(r, y)
  PROVE  /\ y \in Token /\ familyOf'[y] = family[r] /\ family[r] \in Family
         /\ \A x \in Token : x # y => familyOf'[x] = familyOf[x]
         /\ y # cookie /\ (\A t \in Tab : y # stored[t]) /\ \A a \in Activity : y # kept[a]
         /\ \A q \in Request : step[q] # "idle" => y # token[q]
BY DEF Issue, Unheld, Held, AlwaysInv, LedgerInv, TokensTypeOK, HandInv

LEMMA IssueAlways ==
  ASSUME AlwaysInv, NEW r \in Request, NEW y \in Unheld, Issue(r, y), UNCHANGED browserVars
  PROVE  AlwaysInv'
<1>0. /\ y \in Token /\ familyOf'[y] = family[r] /\ family[r] # None
      /\ \A x \in Token : x # y => familyOf'[x] = familyOf[x]
      /\ \A q \in Request : step[q] # "idle" => y # token[q]
  BY IssueKeepsHeld
<1>1. LedgerInv'
  BY <1>0, IssueStep DEF AlwaysInv
<1> USE DEF Issue, GoTo, Answer
<1>2. HandlingInv'
  <2>1. \A q \in Request : token[q] \in Token \cup {None}
    BY DEF AlwaysInv, LedgerInv, TokensTypeOK
  <2>2. DOMAIN step = Request /\ DOMAIN token = Request /\ DOMAIN family = Request
    BY DEF AlwaysInv, LedgerInv, TokensTypeOK
  <2>3. QED
    BY <1>0, <2>1, <2>2 DEF AlwaysInv, HandlingInv
<1>3. \A q \in Request : step[q] # "idle" => step'[q] # "idle"
  BY DEF AlwaysInv, LedgerInv, TokensTypeOK
<1>4. \A x \in Token : familyOf[x] # None => familyOf'[x] # None
  BY <1>0
<1>5. QED
  BY <1>1, <1>2, <1>3, <1>4, BrowserAtRest, RestIsUntouched

LEMMA FailAlways ==
  ASSUME AlwaysInv, NEW r \in Request, Fail(r), Untouched
  PROVE  AlwaysInv'
<1> USE DEF Fail, GoTo, Answer
<1>1. LedgerInv'
  BY FailStep DEF AlwaysInv
<1>2. HandlingInv'
  BY DEF AlwaysInv, LedgerInv, TokensTypeOK, HandlingInv
<1>3. \A q \in Request : step[q] # "idle" => step'[q] # "idle"
  BY DEF AlwaysInv, LedgerInv, TokensTypeOK
<1>4. QED
  BY <1>1, <1>2, <1>3, BrowserAtRest

LEMMA OutageAlways ==
  ASSUME AlwaysInv, Outage
  PROVE  AlwaysInv'
<1>1. Untouched
  BY MishapUntouched DEF Outage
<1>2. CASE Restart
  <2>1. LedgerInv'
    BY <1>2, RestartStep DEF AlwaysInv
  <2>2. HandlingInv'
    BY <1>2 DEF Restart, Working, AlwaysInv, HandlingInv
  <2>3. \A q \in Request : step[q] # "idle" => step'[q] # "idle"
    BY <1>2 DEF Restart
  <2>4. QED
    BY <1>1, <1>2, <2>1, <2>2, <2>3, BrowserAtRest DEF Restart
<1>3. CASE \E x \in Token : Expire(x)
  <2>1. LedgerInv'
    BY <1>3, ExpireStep DEF AlwaysInv
  <2>2. HandlingInv'
    BY <1>3 DEF Expire, AlwaysInv, HandlingInv
  <2>3. QED
    BY <1>1, <1>3, <2>1, <2>2, BrowserAtRest DEF Expire
<1>4. QED
  BY <1>2, <1>3 DEF Outage

LEMMA ElsewhereAlways ==
  ASSUME AlwaysInv, NEW r \in Request, Elsewhere(r)
  PROVE  AlwaysInv'
<1>1. PICK x \in live : Arrive(r, "logout all", x)
  BY DEF Elsewhere
<1>2. Untouched
  <2>1. mishaps' \in 0..MaxMishaps /\ others' \in 0..MaxOthers
    <3> HIDE DEF SessionAssumption
    <3>1. mishaps \in 0..MaxMishaps /\ others \in 0..MaxOthers /\ MaxOthers \in Nat
      BY SessionAssumption DEF AlwaysInv, BrowserTypeOK, SessionAssumption
    <3>2. others < MaxOthers /\ others' = others + 1 /\ mishaps' = mishaps
      BY DEF Elsewhere
    <3>3. QED
      BY <3>1, <3>2
  <2>2. troubled' \in BOOLEAN
    BY Zenon DEF Elsewhere, AlwaysInv, BrowserTypeOK
  <2>3. UNCHANGED <<keeps, cookie, tabVars, act, kept, sender>>
    BY DEF Elsewhere
  <2>4. QED
    BY <2>1, <2>2, <2>3 DEF Untouched
<1>3. LedgerInv'
  <2>1. x \in Token /\ Known(x)
    BY DEF AlwaysInv, LedgerInv, TokensTypeOK, IssuedInv, Known
  <2>2. QED
    BY <1>1, <2>1, ArrivalKeepsLedger DEF AlwaysInv, Kind
<1>4. HandlingInv'
  <2>1. DOMAIN step = Request /\ DOMAIN kind = Request /\ DOMAIN token = Request
    BY DEF AlwaysInv, LedgerInv, TokensTypeOK
  <2>2. /\ UNCHANGED <<family, familyOf>> /\ step'[r] = "arrived"
        /\ \A q \in Request : q # r =>
             step'[q] = step[q] /\ kind'[q] = kind[q] /\ token'[q] = token[q]
    BY <1>1, <2>1 DEF Arrive, GoTo
  <2>3. HandlingInv
    BY DEF AlwaysInv
  <2>4. QED
    BY <2>2, <2>3, HandlingNext
<1>5. \A q \in Request : step[q] # "idle" => step'[q] # "idle"
  BY <1>1 DEF Arrive, GoTo, AlwaysInv, LedgerInv, TokensTypeOK
<1>6. QED
  BY <1>1, <1>2, <1>3, <1>4, <1>5, BrowserAtRest DEF Arrive

\* What Discard and every Receive that ends an exchange do to the server
LEMMA CollectAlways ==
  ASSUME AlwaysInv, NEW r \in Request, Collect(r)
  PROVE  /\ LedgerInv' /\ HandlingInv'
         /\ step' = [step EXCEPT ![r] = "idle"]
         /\ familyOf' = familyOf
<1>1. LedgerInv'
  BY CollectStep DEF AlwaysInv
<1>2. step' = [step EXCEPT ![r] = "idle"] /\ familyOf' = familyOf
  BY DEF Collect, Answer, GoTo
<1>3. HandlingInv'
  BY DEF Collect, Answer, GoTo, AlwaysInv, LedgerInv, TokensTypeOK, HandlingInv
<1>4. QED
  BY <1>1, <1>2, <1>3

LEMMA DiscardAlways ==
  ASSUME AlwaysInv, NEW r \in Request, Discard(r)
  PROVE  AlwaysInv'
<1>1. /\ sender[r] = None /\ Collect(r)
      /\ cookie' \in {cookie, CookieAfter(r)}
      /\ UNCHANGED <<keeps, page, mode, stored, leader, act, kept, sender, mishaps, others, troubled>>
  BY DEF Discard, tabVars, counts
<1>2. LedgerInv' /\ HandlingInv' /\ step' = [step EXCEPT ![r] = "idle"] /\ familyOf' = familyOf
  BY <1>1, CollectAlways
<1>3. cookie' \in Token \cup {None} /\ Known(cookie') /\ (cookie' # None => keeps)
  BY <1>1, CookieIsKnown DEF CookieAfter, AlwaysInv, BrowserTypeOK, HeldInv
<1>4. BrowserTypeOK'
  BY <1>1, <1>3 DEF AlwaysInv, BrowserTypeOK
<1>5. HeldInv'
  BY <1>1, <1>2, <1>3 DEF AlwaysInv, HeldInv, Known
<1>6. TabInv'
  BY <1>1, <1>2 DEF AlwaysInv, LedgerInv, TokensTypeOK, TabInv, Waiters, Activities
<1>7. QED
  BY <1>2, <1>4, <1>5, <1>6 DEF AlwaysInv

-------------------------------------------------------------------------------
(***************************************************************************)
(* The pages. A tab that is left forgets what it waited for; whether an    *)
(* answer, a reload or the end of the session makes it do so.              *)
(***************************************************************************)
Bookkeeping ==
  /\ keeps' = keeps /\ troubled' \in BOOLEAN
  /\ mishaps' \in 0..MaxMishaps /\ others' \in 0..MaxOthers
  /\ cookie' \in Token \cup {None} /\ Known(cookie)' /\ (cookie' # None => keeps)
  /\ familyOf' = familyOf
  /\ LedgerInv' /\ HandlingInv'

LEMMA LeaveAlways ==
  ASSUME AlwaysInv, Bookkeeping, NEW t \in Tab, NEW to \in {"login", "checking"}, Leave(t, to),
         stored' \in [Tab -> Token \cup {None}], \A u \in Tab : Known(stored[u])',
         sender' \in [Request -> Activity \cup {None}],
         \A r \in Request : sender'[r] # None =>
           sender'[r] = sender[r] /\ TabOf[sender[r]] # t /\ step'[r] # "idle"
  PROVE  AlwaysInv'
<1>1. /\ page' = [page EXCEPT ![t] = to] /\ mode' = [mode EXCEPT ![t] = "unknown"]
      /\ leader' = [leader EXCEPT ![t] = None]
      /\ act' = [a \in Activity |-> IF TabOf[a] = t THEN "idle" ELSE act[a]]
      /\ kept' = [a \in Activity |-> IF TabOf[a] = t THEN None ELSE kept[a]]
  BY DEF Leave
<1>2. BrowserTypeOK'
  <2>1. BrowserTypeOK
    BY DEF AlwaysInv
  <2>2. /\ page' \in [Tab -> {"closed", "login", "checking", "ready"}]
        /\ mode' \in [Tab -> {"unknown", "cookie", "body"}]
        /\ leader' \in [Tab -> Activity \cup {None}]
    BY <1>1, <2>1 DEF BrowserTypeOK
  <2>3. /\ act' \in [Activity -> {"idle", "pending"} \cup Busy]
        /\ kept' \in [Activity -> Token \cup {None}]
    BY <1>1, <2>1 DEF BrowserTypeOK
  <2>4. keeps' \in BOOLEAN
    BY <2>1, Zenon DEF BrowserTypeOK, Bookkeeping
  <2>5. QED
    BY <2>2, <2>3, <2>4 DEF BrowserTypeOK, Bookkeeping
<1>3. HeldInv'
  BY <1>1 DEF Bookkeeping, AlwaysInv, HeldInv, Known
<1>4. TabInv'
  <2>1. TabInv /\ \A u \in Tab : page[u] \in {"closed", "login", "checking", "ready"}
    BY DEF AlwaysInv, BrowserTypeOK
  <2>2. DOMAIN page = Tab /\ DOMAIN leader = Tab
    BY DEF AlwaysInv, BrowserTypeOK
  <2>3. \A a \in Activity : TabOf[a] = t => act'[a] = "idle"
    BY <1>1
  <2>4. \A a \in Activity : TabOf[a] # t => act'[a] = act[a]
    BY <1>1
  <2>5. Waiters(t)' = {}
    BY <2>3 DEF Waiters, Activities, Refreshing
  <2>6. \A u \in Tab : u # t => Waiters(u)' = Waiters(u) /\ leader'[u] = leader[u] /\ page'[u] = page[u]
    BY <1>1, <2>2, <2>4 DEF Waiters, Activities
  <2>7. /\ \A q, r \in Request : sender'[q] = sender'[r] /\ sender'[r] # None => q = r
        /\ \A r \in Request : sender'[r] # None => step'[r] # "idle" /\ act'[sender'[r]] \in Asking
    BY <2>1, <2>4 DEF TabInv
  <2>8. \A u \in Tab : IF Waiters(u)' = {} THEN leader'[u] = None ELSE leader'[u] \in Waiters(u)'
    BY <1>1, <2>1, <2>2, <2>5, <2>6 DEF TabInv
  <2>9. \A a \in Activity : act'[a] \in {"probing", "spending"} => leader'[TabOf[a]] = a
    BY <2>1, <2>3, <2>4, <2>6 DEF TabInv
  <2>10. /\ \A a \in Activity : act'[a] \in {"login", "settling"} => page'[TabOf[a]] = "login"
         /\ \A a \in Activity : page'[TabOf[a]] = "login" =>
              act'[a] \in {"idle", "login", "settling", "pending"}
         /\ \A a \in Activity : page'[TabOf[a]] = "checking" => act'[a] \in {"idle"} \cup Refreshing
    BY <2>1, <2>3, <2>4, <2>6 DEF TabInv
  <2>11. \A a, b \in Activity :
           act'[a] \in {"login", "settling"} /\ TabOf[a] = TabOf[b] /\ a # b => act'[b] = "idle"
    BY <2>1, <2>3, <2>4 DEF TabInv
  <2>12. QED
    BY <2>7, <2>8, <2>9, <2>10, <2>11 DEF TabInv
<1>5. QED
  BY <1>2, <1>3, <1>4 DEF AlwaysInv, Bookkeeping

(***************************************************************************)
(* Steps in which the server only loses a request, or nothing happens      *)
(* there.                                                                  *)
(***************************************************************************)
LEMMA ReceiptIsKept ==
  ASSUME AlwaysInv, NEW r \in Request, cookie' = CookieAfter(r), familyOf' = familyOf,
         UNCHANGED <<keeps, counts>>, troubled' \in BOOLEAN, LedgerInv', HandlingInv'
  PROVE  Bookkeeping
<1>1. cookie' \in Token \cup {None} /\ Known(cookie)' /\ (cookie' # None => keeps)
  BY CookieIsKnown DEF CookieAfter, Known
<1>2. mishaps' \in 0..MaxMishaps /\ others' \in 0..MaxOthers
  BY DEF counts, AlwaysInv, BrowserTypeOK
<1>3. QED
  BY <1>1, <1>2 DEF Bookkeeping

LEMMA AtRestIsKept ==
  ASSUME AlwaysInv, UNCHANGED <<ledgerVars, keeps, cookie>>, troubled' \in BOOLEAN,
         mishaps' \in 0..MaxMishaps, others' \in 0..MaxOthers
  PROVE  Bookkeeping
<1>1. LedgerInv'
  BY LedgerStep DEF AlwaysInv
<1>2. HandlingInv'
  BY DEF ledgerVars, AlwaysInv, HandlingInv
<1>3. cookie' \in Token \cup {None} /\ Known(cookie)' /\ (cookie' # None => keeps)
  BY DEF ledgerVars, AlwaysInv, BrowserTypeOK, HeldInv, Known
<1>4. QED
  BY <1>1, <1>2, <1>3 DEF Bookkeeping, ledgerVars

LEMMA EndSessionAlways ==
  ASSUME AlwaysInv, Bookkeeping, NEW t \in Tab, NEW done \in SUBSET Request,
         EndSession(t, done),
         \A r \in Request : sender[r] # None /\ r \notin done => step'[r] # "idle"
  PROVE  AlwaysInv'
<1>1. Leave(t, "login") /\ stored' = [stored EXCEPT ![t] = None]
  BY DEF EndSession
<1>2. sender' = [r \in Request |->
                  IF r \in {q \in Pending \ done : TabOf[sender[q]] = t} \cup done
                  THEN None ELSE sender[r]]
  BY DEF EndSession, Abandon
<1>3. stored' \in [Tab -> Token \cup {None}] /\ \A u \in Tab : Known(stored[u])'
  BY <1>1 DEF AlwaysInv, BrowserTypeOK, HeldInv, Bookkeeping, Known
<1>4. sender' \in [Request -> Activity \cup {None}]
  BY <1>2 DEF AlwaysInv, BrowserTypeOK
<1>5. \A r \in Request : sender'[r] # None =>
        sender'[r] = sender[r] /\ TabOf[sender[r]] # t /\ step'[r] # "idle"
  BY <1>2 DEF Pending
<1>6. QED
  BY <1>1, <1>3, <1>4, <1>5, LeaveAlways

-------------------------------------------------------------------------------
\* An answer arrives at the activity that asked.
Hears(r, a) ==
  /\ step[r] \in Replied /\ sender[r] = a
  /\ cookie' = CookieAfter(r) /\ UNCHANGED <<keeps, counts>>

LEMMA SessionEndsAlways ==
  ASSUME AlwaysInv, NEW r \in Request, NEW a \in Activity, Hears(r, a),
         Collect(r), EndSession(TabOf[a], {r})
  PROVE  AlwaysInv'
<1>1. LedgerInv' /\ HandlingInv' /\ step' = [step EXCEPT ![r] = "idle"] /\ familyOf' = familyOf
  BY CollectAlways
<1>2. troubled' \in BOOLEAN
  BY DEF EndSession, Abandon
<1>3. Bookkeeping
  BY <1>1, <1>2, ReceiptIsKept DEF Hears
<1>4. \A q \in Request : sender[q] # None /\ q \notin {r} => step'[q] # "idle"
  BY <1>1 DEF AlwaysInv, TabInv
<1>5. QED
  BY <1>3, <1>4, EndSessionAlways

LEMMA ResolveAlways ==
  ASSUME AlwaysInv, NEW r \in Request, NEW a \in Activity, Hears(r, a), Received(r),
         act[a] \in {"probing", "spending"}, Resolve(TabOf[a]),
         mode' \in [Tab -> {"unknown", "cookie", "body"}],
         stored' \in [Tab -> Token \cup {None}], \A u \in Tab : Known(stored[u])'
  PROVE  AlwaysInv'
<1> DEFINE t == TabOf[a]
<1>1. /\ LedgerInv' /\ HandlingInv' /\ step' = [step EXCEPT ![r] = "idle"] /\ familyOf' = familyOf
      /\ sender' = [sender EXCEPT ![r] = None] /\ troubled' = troubled
  BY CollectAlways DEF Received
<1>2. troubled' \in BOOLEAN
  BY <1>1, Zenon DEF AlwaysInv, BrowserTypeOK
<1>3. Bookkeeping
  BY <1>1, <1>2, ReceiptIsKept DEF Hears
<1>4. /\ leader' = [leader EXCEPT ![t] = None] /\ page' = [page EXCEPT ![t] = "ready"]
      /\ act' = [b \in Activity |-> IF b \notin Waiters(t) THEN act[b]
                                     ELSE IF page[t] = "checking" THEN "idle" ELSE "again"]
      /\ kept' = [b \in Activity |-> IF b \in Waiters(t) THEN None ELSE kept[b]]
  BY DEF Resolve
<1>5. BrowserTypeOK'
  <2>1. BrowserTypeOK
    BY DEF AlwaysInv
  <2>2. act' \in [Activity -> {"idle", "pending"} \cup Busy]
    BY <1>4, <2>1 DEF BrowserTypeOK, Busy
  <2>3. /\ kept' \in [Activity -> Token \cup {None}] /\ leader' \in [Tab -> Activity \cup {None}]
        /\ page' \in [Tab -> {"closed", "login", "checking", "ready"}]
        /\ sender' \in [Request -> Activity \cup {None}]
    BY <1>1, <1>4, <2>1 DEF BrowserTypeOK
  <2>4. keeps' \in BOOLEAN
    BY <2>1, Zenon DEF BrowserTypeOK, Hears
  <2>5. QED
    BY <1>3, <2>2, <2>3, <2>4 DEF BrowserTypeOK, Bookkeeping
<1>6. HeldInv'
  BY <1>1, <1>3, <1>4 DEF Bookkeeping, AlwaysInv, HeldInv, Known
<1>7. TabInv'
  <2>1. /\ TabInv /\ DOMAIN page = Tab /\ DOMAIN leader = Tab /\ DOMAIN step = Request
        /\ DOMAIN sender = Request
    BY DEF AlwaysInv, BrowserTypeOK, LedgerInv, TokensTypeOK
  <2>2. \A b \in Activity : TabOf[b] # t => act'[b] = act[b]
    BY <1>4 DEF Waiters, Activities
  <2>3. \A b \in Activity : TabOf[b] = t =>
          act'[b] \notin Refreshing /\ (act[b] \notin Refreshing => act'[b] = act[b])
    BY <1>4 DEF Waiters, Activities, Refreshing
  <2>4. leader[t] = a /\ page[t] # "login"
    BY <2>1 DEF TabInv
  <2>5. \A u \in Tab : u # t => Waiters(u)' = Waiters(u) /\ leader'[u] = leader[u] /\ page'[u] = page[u]
    BY <1>4, <2>1, <2>2 DEF Waiters, Activities
  <2>6. page'[t] = "ready" /\ Waiters(t)' = {}
    BY <1>4, <2>1, <2>3 DEF Waiters, Activities
  <2>7. \A q \in Request : sender'[q] # None =>
          q # r /\ sender'[q] = sender[q] /\ step'[q] # "idle" /\ act'[sender[q]] \in Asking
    <3> SUFFICES ASSUME NEW q \in Request, sender'[q] # None
                 PROVE  q # r /\ sender'[q] = sender[q] /\ step'[q] # "idle" /\ act'[sender[q]] \in Asking
      OBVIOUS
    <3>1. q # r /\ sender'[q] = sender[q] /\ step'[q] = step[q] /\ sender[q] # None
      BY <1>1, <2>1
    <3>2. sender[q] # a /\ sender[q] \in Activity
      BY <3>1, <2>1 DEF Hears, TabInv, AlwaysInv, BrowserTypeOK
    <3>3. act[sender[q]] \in Asking /\ step[q] # "idle"
      BY <3>1, <2>1 DEF TabInv
    <3>4. TabOf[sender[q]] = t => act[sender[q]] \notin {"probing", "spending"}
      BY <2>1, <2>4, <3>2 DEF TabInv
    <3>5. act'[sender[q]] = act[sender[q]]
      BY <2>2, <2>3, <3>2, <3>3, <3>4 DEF Asking, Refreshing
    <3>6. QED
      BY <3>1, <3>3, <3>5
  <2>8. \A q, p \in Request : sender'[q] = sender'[p] /\ sender'[p] # None => q = p
    BY <2>1, <2>7 DEF TabInv
  <2>9. \A u \in Tab : IF Waiters(u)' = {} THEN leader'[u] = None ELSE leader'[u] \in Waiters(u)'
    BY <1>4, <2>1, <2>5, <2>6 DEF TabInv
  <2>10. \A b \in Activity : act'[b] \in {"probing", "spending"} => leader'[TabOf[b]] = b
    BY <2>1, <2>2, <2>3, <2>5 DEF TabInv, Refreshing
  <2>11. \A b \in Activity : act[b] \in {"login", "settling"} => TabOf[b] # t
    BY <2>1, <2>4 DEF TabInv
  <2>12. /\ \A b \in Activity : act'[b] \in {"login", "settling"} => page'[TabOf[b]] = "login"
         /\ \A b \in Activity : page'[TabOf[b]] = "login" =>
              act'[b] \in {"idle", "login", "settling", "pending"}
         /\ \A b \in Activity : page'[TabOf[b]] = "checking" => act'[b] \in {"idle"} \cup Refreshing
    <3>1. \A b \in Activity : act'[b] \in {"login", "settling"} => TabOf[b] # t
      BY <1>4, <2>11
    <3>2. QED
      BY <2>1, <2>2, <2>5, <2>6, <3>1 DEF TabInv
  <2>13. \A b, c \in Activity :
           act'[b] \in {"login", "settling"} /\ TabOf[b] = TabOf[c] /\ b # c => act'[c] = "idle"
    <3>1. \A b \in Activity : act'[b] \in {"login", "settling"} => TabOf[b] # t
      BY <1>4, <2>11
    <3>2. QED
      BY <2>1, <2>2, <3>1 DEF TabInv
  <2>14. QED
    BY <2>7, <2>8, <2>9, <2>10, <2>12, <2>13 DEF TabInv
<1>8. QED
  BY <1>1, <1>5, <1>6, <1>7 DEF AlwaysInv

LEMMA RefreshedByCookieAlways ==
  ASSUME AlwaysInv, NEW r \in Request, NEW a \in Activity, Hears(r, a), RefreshedByCookie(r, a)
  PROVE  AlwaysInv'
<1>1. /\ mode' = [mode EXCEPT ![TabOf[a]] = "cookie"]
      /\ stored' = [stored EXCEPT ![TabOf[a]] = None]
      /\ familyOf' = familyOf
  BY CollectAlways DEF RefreshedByCookie, Received
<1>2. /\ mode' \in [Tab -> {"unknown", "cookie", "body"}]
      /\ stored' \in [Tab -> Token \cup {None}] /\ \A u \in Tab : Known(stored[u])'
  BY <1>1 DEF AlwaysInv, BrowserTypeOK, HeldInv, Known
<1>3. QED
  BY <1>2, ResolveAlways DEF RefreshedByCookie

LEMMA RefreshedByBodyAlways ==
  ASSUME AlwaysInv, NEW r \in Request, NEW a \in Activity, Hears(r, a), RefreshedByBody(r, a)
  PROVE  AlwaysInv'
<1>1. /\ mode' = mode /\ stored' = [stored EXCEPT ![TabOf[a]] = token[r]] /\ familyOf' = familyOf
  BY CollectAlways DEF RefreshedByBody, Received
<1>2. token[r] \in Token \cup {None} /\ Known(token[r])
  BY DEF AlwaysInv, LedgerInv, TokensTypeOK, IssuedInv, Known
<1>3. /\ mode' \in [Tab -> {"unknown", "cookie", "body"}]
      /\ stored' \in [Tab -> Token \cup {None}] /\ \A u \in Tab : Known(stored[u])'
  BY <1>1, <1>2 DEF AlwaysInv, BrowserTypeOK, HeldInv, Known
<1>4. QED
  BY <1>3, ResolveAlways DEF RefreshedByBody

(***************************************************************************)
(* The cookie was refused, and the page spends the token it stored.        *)
(***************************************************************************)
LEMMA CookieRefusedAlways ==
  ASSUME AlwaysInv, NEW r \in Request, NEW a \in Activity, Hears(r, a), CookieRefused(r, a)
  PROVE  AlwaysInv'
<1>1. CASE kept[a] = None /\ Collect(r) /\ EndSession(TabOf[a], {r})
  BY <1>1, SessionEndsAlways
<1>2. CASE kept[a] # None /\ Arrive(r, "refresh", kept[a])
  <2>1. /\ act' = [act EXCEPT ![a] = "spending"] /\ mode' = [mode EXCEPT ![TabOf[a]] = "body"]
        /\ act[a] = "probing"
        /\ UNCHANGED <<page, stored, leader, kept, sender, troubled>>
    BY <1>2 DEF CookieRefused, Become
  <2>2. kept[a] \in Token \cup {None} /\ Known(kept[a])
    BY DEF AlwaysInv, BrowserTypeOK, HeldInv
  <2>3. LedgerInv'
    BY <1>2, <2>2, ArrivalKeepsLedger DEF AlwaysInv, Kind
  <2>4. HandlingInv'
    BY <1>2 DEF Arrive, GoTo, AlwaysInv, LedgerInv, TokensTypeOK, HandlingInv
  <2>5. step' = [step EXCEPT ![r] = "arrived"] /\ familyOf' = familyOf
    BY <1>2 DEF Arrive, GoTo
  <2>6. troubled' \in BOOLEAN
    BY <2>1, Zenon DEF AlwaysInv, BrowserTypeOK
  <2>7. Bookkeeping
    BY <2>3, <2>4, <2>5, <2>6, ReceiptIsKept DEF Hears
  <2>8. BrowserTypeOK'
    <3>1. BrowserTypeOK
      BY DEF AlwaysInv
    <3>2. /\ act' \in [Activity -> {"idle", "pending"} \cup Busy]
          /\ mode' \in [Tab -> {"unknown", "cookie", "body"}]
      BY <2>1, <3>1 DEF BrowserTypeOK, Busy, Refreshing
    <3>3. keeps' \in BOOLEAN
      BY <3>1, Zenon DEF BrowserTypeOK, Hears
    <3>4. QED
      BY <2>1, <2>7, <3>1, <3>2, <3>3 DEF BrowserTypeOK, Bookkeeping
  <2>9. HeldInv'
    BY <2>1, <2>7 DEF Bookkeeping, AlwaysInv, BrowserTypeOK, HeldInv, Known
  <2>10. TabInv'
    <3>1. TabInv /\ DOMAIN act = Activity /\ DOMAIN step = Request
      BY DEF AlwaysInv, BrowserTypeOK, LedgerInv, TokensTypeOK
    <3>2. \A u \in Tab : Waiters(u)' = Waiters(u)
      BY <2>1, <3>1 DEF Waiters, Activities, Refreshing
    <3>3. page[TabOf[a]] # "login"
      BY <2>1, <3>1 DEF TabInv
    <3>4. \A b \in Activity : b # a => act'[b] = act[b]
      BY <2>1, <3>1
    <3>5. act'[a] = "spending"
      BY <2>1, <3>1
    <3>6. \A q \in Request : step[q] # "idle" => step'[q] # "idle"
      BY <2>5, <3>1
    <3>7. \A b \in Activity : act[b] \in {"login", "settling"} => TabOf[b] # TabOf[a]
      BY <3>1, <3>3 DEF TabInv
    <3>8. \A q \in Request : sender[q] # None => act'[sender[q]] \in Asking
      BY <3>1, <3>4, <3>5 DEF TabInv, Asking, AlwaysInv, BrowserTypeOK
    <3>9. \A b \in Activity : act'[b] \in {"probing", "spending"} => leader[TabOf[b]] = b
      BY <2>1, <3>1, <3>4 DEF TabInv
    <3>10. \A b \in Activity : page[TabOf[b]] = "checking" => act'[b] \in {"idle"} \cup Refreshing
      BY <3>1, <3>4, <3>5 DEF TabInv, Refreshing
    <3>11. /\ \A b \in Activity : act'[b] \in {"login", "settling"} => page[TabOf[b]] = "login"
           /\ \A b \in Activity : page[TabOf[b]] = "login" =>
                act'[b] \in {"idle", "login", "settling", "pending"}
      BY <3>1, <3>3, <3>4, <3>5 DEF TabInv
    <3>12. \A b, c \in Activity :
             act'[b] \in {"login", "settling"} /\ TabOf[b] = TabOf[c] /\ b # c => act'[c] = "idle"
      BY <3>1, <3>4, <3>5, <3>7 DEF TabInv
    <3>13. \A u \in Tab : IF Waiters(u)' = {} THEN leader'[u] = None ELSE leader'[u] \in Waiters(u)'
      BY <2>1, <3>1, <3>2 DEF TabInv
    <3>14. QED
      BY <2>1, <3>1, <3>6, <3>8, <3>9, <3>10, <3>11, <3>12, <3>13 DEF TabInv
  <2>11. QED
    BY <2>3, <2>4, <2>8, <2>9, <2>10 DEF AlwaysInv
<1>3. QED
  BY <1>1, <1>2 DEF CookieRefused

LEMMA SignedInAlways ==
  ASSUME AlwaysInv, NEW r \in Request, NEW a \in Activity, Hears(r, a), SignedIn(r, a)
  PROVE  AlwaysInv'
<1>1. /\ act' = [act EXCEPT ![a] = "settling"] /\ act[a] = "login"
      /\ kept' = [kept EXCEPT ![a] = token[r]]
      /\ Arrive(r, "refresh", CookieAfter(r))
      /\ UNCHANGED <<page, mode, stored, leader, sender>>
      /\ troubled' = (troubled \/ Overlaps(a))
  BY DEF SignedIn, Become
<1>2. token[r] \in Token \cup {None} /\ Known(token[r])
  BY DEF AlwaysInv, LedgerInv, TokensTypeOK, IssuedInv, Known
<1>3. LedgerInv'
  BY <1>1, CookieIsKnown, ArrivalKeepsLedger DEF AlwaysInv, Kind
<1>4. HandlingInv'
  BY <1>1 DEF Arrive, GoTo, AlwaysInv, LedgerInv, TokensTypeOK, HandlingInv
<1>5. step' = [step EXCEPT ![r] = "arrived"] /\ familyOf' = familyOf
  BY <1>1 DEF Arrive, GoTo
<1>6. troubled' \in BOOLEAN
  BY <1>1
<1>7. Bookkeeping
  BY <1>3, <1>4, <1>5, <1>6, ReceiptIsKept DEF Hears
<1>8. BrowserTypeOK'
  <2>1. BrowserTypeOK
    BY DEF AlwaysInv
  <2>2. /\ act' \in [Activity -> {"idle", "pending"} \cup Busy]
        /\ kept' \in [Activity -> Token \cup {None}]
    BY <1>1, <1>2, <2>1 DEF BrowserTypeOK, Busy
  <2>3. keeps' \in BOOLEAN
    BY <2>1, Zenon DEF BrowserTypeOK, Hears
  <2>4. QED
    BY <1>1, <1>7, <2>1, <2>2, <2>3 DEF BrowserTypeOK, Bookkeeping
<1>9. HeldInv'
  BY <1>1, <1>2, <1>7 DEF Bookkeeping, AlwaysInv, BrowserTypeOK, HeldInv, Known
<1>10. TabInv'
  <2>1. TabInv /\ DOMAIN act = Activity /\ DOMAIN step = Request
    BY DEF AlwaysInv, BrowserTypeOK, LedgerInv, TokensTypeOK
  <2>2. \A u \in Tab : Waiters(u)' = Waiters(u)
    BY <1>1, <2>1 DEF Waiters, Activities, Refreshing
  <2>3. \A b \in Activity : b # a => act'[b] = act[b]
    BY <1>1, <2>1
  <2>4. act'[a] = "settling"
    BY <1>1, <2>1
  <2>5. \A q \in Request : step[q] # "idle" => step'[q] # "idle"
    BY <1>5, <2>1
  <2>6. \A b \in Activity : b # a /\ TabOf[b] = TabOf[a] => act[b] = "idle"
    BY <1>1, <2>1 DEF TabInv
  <2>7. QED
    BY <1>1, <2>1, <2>2, <2>3, <2>4, <2>5, <2>6 DEF TabInv, Asking
<1>11. QED
  BY <1>3, <1>4, <1>8, <1>9, <1>10 DEF AlwaysInv

(***************************************************************************)
(* An activity is over, whether or not it had a request under way.         *)
(***************************************************************************)
LEMMA BecomesIdleAlways ==
  ASSUME AlwaysInv, Bookkeeping, NEW a \in Activity,
         act[a] \in {"login", "leaving", "calling", "again"}, Become(a, "idle"),
         UNCHANGED <<page, mode, stored, leader, kept>>,
         sender' \in [Request -> Activity \cup {None}],
         \A q \in Request : sender'[q] # None =>
           sender'[q] = sender[q] /\ sender[q] # a /\ step'[q] # "idle"
  PROVE  AlwaysInv'
<1>1. act' = [act EXCEPT ![a] = "idle"]
  BY DEF Become
<1>2. BrowserTypeOK'
  <2>1. BrowserTypeOK
    BY DEF AlwaysInv
  <2>2. act' \in [Activity -> {"idle", "pending"} \cup Busy]
    BY <1>1, <2>1 DEF BrowserTypeOK
  <2>3. keeps' \in BOOLEAN
    BY <2>1, Zenon DEF BrowserTypeOK, Bookkeeping
  <2>4. QED
    BY <2>1, <2>2, <2>3 DEF BrowserTypeOK, Bookkeeping
<1>3. HeldInv'
  BY <1>1 DEF Bookkeeping, AlwaysInv, BrowserTypeOK, HeldInv, Known
<1>4. TabInv'
  <2>1. TabInv /\ DOMAIN act = Activity
    BY DEF AlwaysInv, BrowserTypeOK
  <2>2. \A u \in Tab : Waiters(u)' = Waiters(u)
    BY <1>1, <2>1 DEF Waiters, Activities, Refreshing
  <2>3. \A b \in Activity : b # a => act'[b] = act[b]
    BY <1>1, <2>1
  <2>4. act'[a] = "idle"
    BY <1>1, <2>1
  <2>5. QED
    BY <2>1, <2>2, <2>3, <2>4 DEF TabInv, Asking, AlwaysInv, BrowserTypeOK
<1>5. QED
  BY <1>2, <1>3, <1>4 DEF AlwaysInv, Bookkeeping

LEMMA AnswerEndsAlways ==
  ASSUME AlwaysInv, NEW r \in Request, NEW a \in Activity, Hears(r, a),
         SignInRefused(r, a) \/ SignOutFailed(r, a)
  PROVE  AlwaysInv'
<1>1. /\ Become(a, "idle") /\ act[a] \in {"login", "leaving"} /\ Collect(r)
      /\ sender' = [sender EXCEPT ![r] = None] /\ troubled' = troubled
      /\ UNCHANGED <<page, mode, stored, leader, kept>>
  BY DEF SignInRefused, SignOutFailed, Received, tabVars
<1>2. LedgerInv' /\ HandlingInv' /\ step' = [step EXCEPT ![r] = "idle"] /\ familyOf' = familyOf
  BY <1>1, CollectAlways
<1>3. troubled' \in BOOLEAN
  BY <1>1, Zenon DEF AlwaysInv, BrowserTypeOK
<1>4. Bookkeeping
  BY <1>2, <1>3, ReceiptIsKept DEF Hears
<1>5. sender' \in [Request -> Activity \cup {None}]
  BY <1>1 DEF AlwaysInv, BrowserTypeOK
<1>6. \A q \in Request : sender'[q] # None =>
        sender'[q] = sender[q] /\ sender[q] # a /\ step'[q] # "idle"
  BY <1>1, <1>2 DEF AlwaysInv, BrowserTypeOK, LedgerInv, TokensTypeOK, TabInv, Hears
<1>7. QED
  BY <1>1, <1>4, <1>5, <1>6, BecomesIdleAlways

LEMMA SettledAlways ==
  ASSUME AlwaysInv, NEW r \in Request, NEW a \in Activity, Hears(r, a), Settled(r, a)
  PROVE  AlwaysInv'
<1>1. /\ act[a] = "settling" /\ Leave(TabOf[a], "checking") /\ Collect(r)
      /\ stored' = [stored EXCEPT ![TabOf[a]] = IF step[r] = "ok" THEN None ELSE kept[a]]
      /\ sender' = [sender EXCEPT ![r] = None] /\ troubled' = troubled
  BY DEF Settled, Received
<1>2. LedgerInv' /\ HandlingInv' /\ step' = [step EXCEPT ![r] = "idle"] /\ familyOf' = familyOf
  BY <1>1, CollectAlways
<1>3. troubled' \in BOOLEAN
  BY <1>1, Zenon DEF AlwaysInv, BrowserTypeOK
<1>4. Bookkeeping
  BY <1>2, <1>3, ReceiptIsKept DEF Hears
<1>5. stored' \in [Tab -> Token \cup {None}] /\ \A u \in Tab : Known(stored[u])'
  BY <1>1, <1>2 DEF AlwaysInv, BrowserTypeOK, HeldInv, Known
<1>6. sender' \in [Request -> Activity \cup {None}]
  BY <1>1 DEF AlwaysInv, BrowserTypeOK
<1>7. \A q \in Request : sender'[q] # None =>
        sender'[q] = sender[q] /\ TabOf[sender[q]] # TabOf[a] /\ step'[q] # "idle"
  <2> SUFFICES ASSUME NEW q \in Request, sender'[q] # None
               PROVE  sender'[q] = sender[q] /\ TabOf[sender[q]] # TabOf[a] /\ step'[q] # "idle"
    OBVIOUS
  <2>1. q # r /\ sender'[q] = sender[q] /\ step'[q] = step[q]
    BY <1>1, <1>2 DEF AlwaysInv, BrowserTypeOK, LedgerInv, TokensTypeOK
  <2>2. sender[q] \in Activity /\ sender[q] # a /\ act[sender[q]] \in Asking /\ step[q] # "idle"
    BY <2>1 DEF AlwaysInv, BrowserTypeOK, TabInv, Hears
  <2>3. QED
    BY <1>1, <2>1, <2>2 DEF AlwaysInv, TabInv, Asking
<1>8. QED
  BY <1>1, <1>4, <1>5, <1>6, <1>7, LeaveAlways

LEMMA ReceiveAlways ==
  ASSUME AlwaysInv, NEW r \in Request, Receive(r)
  PROVE  AlwaysInv'
<1> DEFINE a == sender[r]
<1>1. a \in Activity /\ Hears(r, a)
  BY DEF Receive, Hears, AlwaysInv, BrowserTypeOK
<1>2. \/ RefreshedByCookie(r, a) \/ CookieRefused(r, a)
      \/ RefreshedByBody(r, a) \/ BodyRefused(r, a)
      \/ SignedIn(r, a) \/ SignInRefused(r, a) \/ Settled(r, a)
      \/ SignedOut(r, a) \/ SignOutFailed(r, a)
  BY DEF Receive
<1>3. CASE BodyRefused(r, a) \/ SignedOut(r, a)
  BY <1>1, <1>3, SessionEndsAlways DEF BodyRefused, SignedOut
<1>4. QED
  BY <1>1, <1>2, <1>3, RefreshedByCookieAlways, CookieRefusedAlways, RefreshedByBodyAlways,
     SignedInAlways, AnswerEndsAlways, SettledAlways

-------------------------------------------------------------------------------
LEMMA LoseAlways ==
  ASSUME AlwaysInv, NEW r \in Request, Lose(r)
  PROVE  AlwaysInv'
<1> DEFINE a == sender[r]
<1>1. /\ a \in Activity /\ UNCHANGED <<ledgerVars, keeps, cookie>>
      /\ mishaps < MaxMishaps /\ mishaps' = mishaps + 1 /\ others' = others
  BY DEF Lose, Mishap, AlwaysInv, BrowserTypeOK
<1>2. mishaps' \in 0..MaxMishaps /\ others' \in 0..MaxOthers
  BY <1>1 DEF AlwaysInv, BrowserTypeOK
<1>3. \A q \in Request : sender[q] # None => step'[q] # "idle"
  BY <1>1 DEF ledgerVars, AlwaysInv, TabInv
<1>4. CASE EndSession(TabOf[a], {})
  <2>1. troubled' \in BOOLEAN
    BY <1>4 DEF EndSession, Abandon
  <2>2. Bookkeeping
    BY <1>1, <1>2, <2>1, AtRestIsKept
  <2>3. QED
    BY <1>1, <1>3, <1>4, <2>2, EndSessionAlways
<1>5. CASE /\ act[a] \in {"login", "settling", "leaving"}
           /\ Become(a, IF act[a] = "settling" THEN "pending" ELSE "idle")
           /\ sender' = [sender EXCEPT ![r] = None]
           /\ troubled' = TRUE
           /\ UNCHANGED <<page, mode, stored, leader, kept>>
  <2>1. Bookkeeping
    BY <1>1, <1>2, <1>5, AtRestIsKept
  <2>2. sender' \in [Request -> Activity \cup {None}]
    BY <1>5 DEF AlwaysInv, BrowserTypeOK
  <2>3. \A q \in Request : sender'[q] # None =>
          sender'[q] = sender[q] /\ sender[q] # a /\ step'[q] # "idle"
    BY <1>3, <1>5 DEF AlwaysInv, BrowserTypeOK, TabInv
  <2>4. CASE act[a] # "settling"
    BY <1>1, <1>5, <2>1, <2>2, <2>3, <2>4, BecomesIdleAlways
  <2>5. CASE act[a] = "settling"
    <3>1. act' = [act EXCEPT ![a] = "pending"]
      BY <1>5, <2>5 DEF Become
    <3>2. BrowserTypeOK'
      <4>1. BrowserTypeOK
        BY DEF AlwaysInv
      <4>2. act' \in [Activity -> {"idle", "pending"} \cup Busy]
        BY <3>1, <4>1 DEF BrowserTypeOK
      <4>3. keeps' \in BOOLEAN
        BY <2>1, <4>1, Zenon DEF BrowserTypeOK, Bookkeeping
      <4>4. QED
        BY <1>5, <2>1, <2>2, <4>1, <4>2, <4>3 DEF BrowserTypeOK, Bookkeeping
    <3>3. HeldInv'
      BY <1>5, <2>1, <3>1 DEF Bookkeeping, AlwaysInv, BrowserTypeOK, HeldInv, Known
    <3>4. TabInv'
      <4>1. TabInv /\ DOMAIN act = Activity
        BY DEF AlwaysInv, BrowserTypeOK
      <4>2. \A u \in Tab : Waiters(u)' = Waiters(u)
        BY <2>5, <3>1, <4>1 DEF Waiters, Activities, Refreshing
      <4>3. (\A b \in Activity : b # a => act'[b] = act[b]) /\ act'[a] = "pending"
        BY <1>1, <3>1, <4>1
      <4>4. \A b \in Activity : b # a /\ TabOf[b] = TabOf[a] => act[b] = "idle"
        BY <1>1, <2>5, <4>1 DEF TabInv
      <4>7. page[TabOf[a]] = "login"
        BY <1>1, <2>5, <4>1 DEF TabInv
      <4>5. \A q \in Request : sender'[q] # None => sender[q] \in Activity
        BY <2>3 DEF AlwaysInv, BrowserTypeOK
      <4>6. QED
        BY <1>1, <1>5, <2>3, <4>1, <4>2, <4>3, <4>4, <4>5, <4>7 DEF TabInv, Asking
    <3>5. QED
      BY <2>1, <3>2, <3>3, <3>4 DEF AlwaysInv, Bookkeeping
  <2>6. QED
    BY <2>4, <2>5
<1>6. QED
  BY <1>4, <1>5 DEF Lose, tabVars

LEMMA AnsweredAlways ==
  ASSUME AlwaysInv, NEW a \in Activity, Answered(a)
  PROVE  AlwaysInv'
<1>1. /\ act[a] \in {"calling", "again"} /\ Become(a, "idle")
      /\ UNCHANGED <<ledgerVars, keeps, cookie, page, mode, stored, leader, kept, sender, mishaps, others, troubled>>
  BY DEF Answered, tabVars, counts
<1>2. troubled' \in BOOLEAN
  BY <1>1, Zenon DEF AlwaysInv, BrowserTypeOK
<1>3. mishaps' \in 0..MaxMishaps /\ others' \in 0..MaxOthers
  BY <1>1 DEF AlwaysInv, BrowserTypeOK
<1>4. Bookkeeping
  BY <1>1, <1>2, <1>3, AtRestIsKept
<1>5. /\ sender' \in [Request -> Activity \cup {None}]
      /\ \A q \in Request : sender'[q] # None =>
           sender'[q] = sender[q] /\ sender[q] # a /\ step'[q] # "idle"
  BY <1>1 DEF ledgerVars, AlwaysInv, BrowserTypeOK, TabInv, Asking
<1>6. QED
  BY <1>1, <1>4, <1>5, BecomesIdleAlways

LEMMA RefusedAlways ==
  ASSUME AlwaysInv, NEW a \in Activity, Refused(a)
  PROVE  AlwaysInv'
<1>1. /\ UNCHANGED <<ledgerVars, keeps, cookie, mishaps, others>>
      /\ EndSession(TabOf[a], {})
  BY DEF Refused, counts
<1>2. mishaps' \in 0..MaxMishaps /\ others' \in 0..MaxOthers
  BY <1>1 DEF AlwaysInv, BrowserTypeOK
<1>3. troubled' \in BOOLEAN
  BY <1>1 DEF EndSession, Abandon
<1>4. Bookkeeping
  BY <1>1, <1>2, <1>3, AtRestIsKept
<1>5. \A q \in Request : sender[q] # None => step'[q] # "idle"
  BY <1>1 DEF ledgerVars, AlwaysInv, TabInv
<1>6. QED
  BY <1>1, <1>4, <1>5, EndSessionAlways

LEMMA VisitAlways ==
  ASSUME AlwaysInv, NEW t \in Tab, Visit(t)
  PROVE  AlwaysInv'
<1>1. /\ Leave(t, "checking") /\ Abandon(t, {})
      /\ UNCHANGED <<ledgerVars, keeps, cookie, stored>>
  BY DEF Visit
<1>2. mishaps' \in 0..MaxMishaps /\ others' \in 0..MaxOthers
  <2>1. CASE Mishap
    BY <2>1 DEF Mishap, AlwaysInv, BrowserTypeOK
  <2>2. CASE UNCHANGED counts
    BY <2>2 DEF counts, AlwaysInv, BrowserTypeOK
  <2>3. QED
    BY <2>1, <2>2, Zenon DEF Visit
<1>3. troubled' \in BOOLEAN
  BY <1>1 DEF Abandon
<1>4. Bookkeeping
  BY <1>1, <1>2, <1>3, AtRestIsKept
<1>5. sender' = [r \in Request |->
                  IF r \in {q \in Pending \ {} : TabOf[sender[q]] = t} \cup {} THEN None ELSE sender[r]]
  BY <1>1 DEF Abandon
<1>6. sender' \in [Request -> Activity \cup {None}]
  BY <1>5 DEF AlwaysInv, BrowserTypeOK
<1>7. \A r \in Request : sender'[r] # None =>
        sender'[r] = sender[r] /\ TabOf[sender[r]] # t /\ step'[r] # "idle"
  BY <1>1, <1>5 DEF Pending, AlwaysInv, TabInv, ledgerVars
<1>8. stored' \in [Tab -> Token \cup {None}] /\ \A u \in Tab : Known(stored[u])'
  BY <1>1 DEF ledgerVars, AlwaysInv, BrowserTypeOK, HeldInv, Known
<1>9. QED
  BY <1>1, <1>4, <1>6, <1>7, <1>8, LeaveAlways

-------------------------------------------------------------------------------
(***************************************************************************)
(* Activities that begin: a call, a refresh that is joined or led, a       *)
(* sign-in, a sign-out.                                                    *)
(***************************************************************************)
LEMMA CallAlways ==
  ASSUME AlwaysInv, NEW a \in Activity, Call(a)
  PROVE  AlwaysInv'
<1>1. /\ act[a] = "idle" /\ act' = [act EXCEPT ![a] = "calling"] /\ page[TabOf[a]] = "ready"
      /\ UNCHANGED <<ledgerVars, keeps, cookie, page, mode, stored, leader, kept, sender,
                     mishaps, others, troubled>>
  BY DEF Call, Become, tabVars, counts
<1>2. troubled' \in BOOLEAN /\ keeps' \in BOOLEAN
  BY <1>1, Zenon DEF AlwaysInv, BrowserTypeOK
<1>3. mishaps' \in 0..MaxMishaps /\ others' \in 0..MaxOthers
  BY <1>1 DEF AlwaysInv, BrowserTypeOK
<1>4. Bookkeeping
  BY <1>1, <1>2, <1>3, AtRestIsKept
<1>5. BrowserTypeOK'
  BY <1>1, <1>2, <1>4 DEF Bookkeeping, AlwaysInv, BrowserTypeOK, Busy
<1>6. HeldInv'
  BY <1>1, <1>4 DEF Bookkeeping, AlwaysInv, BrowserTypeOK, HeldInv, Known
<1>7. TabInv'
  <2>1. TabInv /\ DOMAIN act = Activity
    BY DEF AlwaysInv, BrowserTypeOK
  <2>2. \A u \in Tab : Waiters(u)' = Waiters(u)
    BY <1>1, <2>1 DEF Waiters, Activities, Refreshing
  <2>3. (\A b \in Activity : b # a => act'[b] = act[b]) /\ act'[a] = "calling"
    BY <1>1, <2>1
  <2>4. \A b \in Activity : act[b] \in {"login", "settling"} => TabOf[b] # TabOf[a]
    BY <1>1, <2>1 DEF TabInv
  <2>5. \A q \in Request : sender[q] # a
    BY <1>1, <2>1 DEF TabInv, Asking
  <2>6. \A q \in Request : sender[q] # None => sender[q] \in Activity
    BY DEF AlwaysInv, BrowserTypeOK
  <2>7. QED
    BY <1>1, <2>1, <2>2, <2>3, <2>4, <2>5, <2>6 DEF TabInv, ledgerVars
<1>8. QED
  BY <1>4, <1>5, <1>6, <1>7 DEF AlwaysInv, Bookkeeping

LEMMA JoinAlways ==
  ASSUME AlwaysInv, NEW a \in Activity, act[a] \in {"idle", "calling"},
         page[TabOf[a]] # "login", act[a] = "calling" => page[TabOf[a]] # "checking",
         leader[TabOf[a]] # None, Become(a, "waiting"), SendNothing,
         UNCHANGED <<keeps, cookie, page, mode, stored, counts, leader, kept>>
  PROVE  AlwaysInv'
<1>1. /\ act' = [act EXCEPT ![a] = "waiting"]
      /\ UNCHANGED <<ledgerVars, keeps, cookie, page, mode, stored, leader, kept, sender,
                     mishaps, others, troubled>>
  BY DEF Become, SendNothing, counts
<1>2. troubled' \in BOOLEAN /\ keeps' \in BOOLEAN
  BY <1>1, Zenon DEF AlwaysInv, BrowserTypeOK
<1>3. mishaps' \in 0..MaxMishaps /\ others' \in 0..MaxOthers
  BY <1>1 DEF AlwaysInv, BrowserTypeOK
<1>4. Bookkeeping
  BY <1>1, <1>2, <1>3, AtRestIsKept
<1>5. BrowserTypeOK'
  BY <1>1, <1>2, <1>4 DEF Bookkeeping, AlwaysInv, BrowserTypeOK, Busy, Refreshing
<1>6. HeldInv'
  BY <1>1, <1>4 DEF Bookkeeping, AlwaysInv, BrowserTypeOK, HeldInv, Known
<1>7. TabInv'
  <2>1. TabInv /\ DOMAIN act = Activity
    BY DEF AlwaysInv, BrowserTypeOK
  <2>2. \A u \in Tab : Waiters(u)' = Waiters(u) \cup (IF u = TabOf[a] THEN {a} ELSE {})
    BY <1>1, <2>1 DEF Waiters, Activities, Refreshing
  <2>3. (\A b \in Activity : b # a => act'[b] = act[b]) /\ act'[a] = "waiting"
    BY <1>1, <2>1
  <2>4. \A b \in Activity : act[b] \in {"login", "settling"} => TabOf[b] # TabOf[a]
    BY <2>1 DEF TabInv
  <2>5. \A q \in Request : sender[q] # a
    BY <2>1 DEF TabInv, Asking
  <2>6. \A q \in Request : sender[q] # None => sender[q] \in Activity
    BY DEF AlwaysInv, BrowserTypeOK
  <2>7. \A u \in Tab : IF Waiters(u)' = {} THEN leader'[u] = None ELSE leader'[u] \in Waiters(u)'
    BY <1>1, <2>1, <2>2 DEF TabInv
  <2>8. \A b \in Activity : page[TabOf[b]] = "checking" => act'[b] \in {"idle"} \cup Refreshing
    BY <2>1, <2>3 DEF TabInv, Refreshing
  <2>9. QED
    BY <1>1, <2>1, <2>3, <2>4, <2>5, <2>6, <2>7, <2>8 DEF TabInv, ledgerVars
<1>8. QED
  BY <1>4, <1>5, <1>6, <1>7 DEF AlwaysInv, Bookkeeping

(***************************************************************************)
(* An activity that was idle or called sends a request.                    *)
(***************************************************************************)
LEMMA SentAlways ==
  ASSUME AlwaysInv, NEW r \in Request, NEW a \in Activity, NEW k \in Kind,
         NEW body \in Token \cup {None}, Known(body), SentAs(r, a, k, body),
         UNCHANGED <<keeps, cookie, page, mode, stored, counts>>,
         act[a] \in {"idle", "calling"},
         NEW what \in Asking \ {"settling"}, Become(a, what),
         leader' \in [Tab -> Activity \cup {None}], kept' \in [Activity -> Token \cup {None}],
         \A b \in Activity \ {a} : kept'[b] = kept[b],
         Known(kept'[a]), kept'[a] # None => what \in {"probing", "spending"},
         TabInv'
  PROVE  AlwaysInv'
<1>1. /\ step[r] = "idle" /\ sender' = [sender EXCEPT ![r] = a]
      /\ Arrive(r, k, IF body = None /\ k # "login" THEN cookie ELSE body)
      /\ troubled' = (troubled \/ Overlaps(a))
      /\ act' = [act EXCEPT ![a] = what]
  BY DEF SentAs, Become
<1>2. LedgerInv'
  <2> DEFINE x == IF body = None /\ k # "login" THEN cookie ELSE body
  <2>1. x \in Token \cup {None} /\ Known(x)
    BY DEF AlwaysInv, BrowserTypeOK, HeldInv
  <2> HIDE DEF x
  <2>2. Arrive(r, k, x)
    BY <1>1 DEF x
  <2>3. QED
    BY <2>1, <2>2, ArrivalKeepsLedger DEF AlwaysInv
<1>3. HandlingInv'
  BY <1>1 DEF Arrive, GoTo, AlwaysInv, LedgerInv, TokensTypeOK, HandlingInv
<1>4. familyOf' = familyOf
  BY <1>1 DEF Arrive
<1>5. troubled' \in BOOLEAN
  BY <1>1
<1>6. BrowserTypeOK'
  <2>1. BrowserTypeOK
    BY DEF AlwaysInv
  <2>2. act' \in [Activity -> {"idle", "pending"} \cup Busy]
    BY <1>1, <2>1 DEF BrowserTypeOK, Busy, Refreshing, Asking
  <2>3. keeps' \in BOOLEAN
    BY <2>1, Zenon DEF BrowserTypeOK
  <2>4. sender' \in [Request -> Activity \cup {None}]
    BY <1>1, <2>1 DEF BrowserTypeOK
  <2>5. QED
    BY <1>5, <2>1, <2>2, <2>3, <2>4 DEF BrowserTypeOK, counts
<1>7. HeldInv'
  <2>1. \A b \in Activity \ {a} : act'[b] = act[b]
    BY <1>1 DEF AlwaysInv, BrowserTypeOK
  <2>2. act'[a] = what
    BY <1>1 DEF AlwaysInv, BrowserTypeOK
  <2>3. QED
    BY <1>4, <2>1, <2>2 DEF AlwaysInv, HeldInv, Known
<1>8. QED
  BY <1>2, <1>3, <1>6, <1>7 DEF AlwaysInv

(***************************************************************************)
(* What is common to the three ways to begin with a request, for TabInv.   *)
(***************************************************************************)
LEMMA AskersAfterSending ==
  ASSUME AlwaysInv, NEW r \in Request, NEW a \in Activity, NEW k, NEW body,
         SentAs(r, a, k, body), act[a] \in {"idle", "calling"},
         NEW what \in Asking, Become(a, what)
  PROVE  /\ \A b \in Activity : b # a => act'[b] = act[b]
         /\ act'[a] = what
         /\ \A p, q \in Request : sender'[p] = sender'[q] /\ sender'[q] # None => p = q
         /\ \A q \in Request : sender'[q] # None => step'[q] # "idle" /\ act'[sender'[q]] \in Asking
<1>1. /\ sender' = [sender EXCEPT ![r] = a] /\ step' = [step EXCEPT ![r] = "arrived"]
      /\ act' = [act EXCEPT ![a] = what]
  BY DEF SentAs, Become, Arrive, GoTo
<1>2. /\ TabInv /\ DOMAIN act = Activity /\ DOMAIN step = Request
      /\ sender \in [Request -> Activity \cup {None}]
  BY DEF AlwaysInv, BrowserTypeOK, LedgerInv, TokensTypeOK
<1>3. \A q \in Request : sender[q] # a
  <2> SUFFICES ASSUME NEW q \in Request, sender[q] = a
               PROVE  FALSE
    OBVIOUS
  <2>1. act[a] \in Asking
    BY <1>2 DEF TabInv
  <2>2. QED
    BY <2>1 DEF Asking
<1>4. (\A b \in Activity : b # a => act'[b] = act[b]) /\ act'[a] = what
  BY <1>1, <1>2
<1>5. QED
  BY <1>1, <1>2, <1>3, <1>4 DEF TabInv

LEMMA LeadAlways ==
  ASSUME AlwaysInv, NEW a \in Activity, act[a] \in {"idle", "calling"},
         page[TabOf[a]] # "login", act[a] = "calling" => page[TabOf[a]] # "checking",
         NEW what \in {"probing", "spending"}, Become(a, what),
         NEW body \in Token \cup {None}, Known(body), Send(a, "refresh", body),
         leader[TabOf[a]] = None, leader' = [leader EXCEPT ![TabOf[a]] = a],
         kept' = [kept EXCEPT ![a] = stored[TabOf[a]]],
         UNCHANGED <<keeps, cookie, page, mode, stored, counts>>
  PROVE  AlwaysInv'
<1> DEFINE t == TabOf[a]
<1>1. PICK r \in Request : SentAs(r, a, "refresh", body)
  BY SomeRequestIsSent
<1>2. /\ \A b \in Activity : b # a => act'[b] = act[b]
      /\ act'[a] = what
      /\ \A p, q \in Request : sender'[p] = sender'[q] /\ sender'[q] # None => p = q
      /\ \A q \in Request : sender'[q] # None => step'[q] # "idle" /\ act'[sender'[q]] \in Asking
  BY <1>1, AskersAfterSending DEF Asking
<1>3. TabInv'
  <2>1. TabInv /\ DOMAIN leader = Tab
    BY DEF AlwaysInv, BrowserTypeOK
  <2>2. Waiters(t) = {}
    BY <2>1 DEF TabInv, Waiters, Activities
  <2>3. Waiters(t)' = {a}
    BY <1>2, <2>2 DEF Waiters, Activities, Refreshing
  <2>4. \A u \in Tab : u # t => Waiters(u)' = Waiters(u) /\ leader'[u] = leader[u]
    BY <1>2, <2>1 DEF Waiters, Activities
  <2>5. leader'[t] = a
    BY <2>1
  <2>6. \A u \in Tab : IF Waiters(u)' = {} THEN leader'[u] = None ELSE leader'[u] \in Waiters(u)'
    BY <2>1, <2>3, <2>4, <2>5 DEF TabInv
  <2>7. \A b \in Activity : act[b] \in {"probing", "spending"} => TabOf[b] # t
    BY <2>2 DEF Waiters, Activities, Refreshing
  <2>8. \A b \in Activity : act'[b] \in {"probing", "spending"} => leader'[TabOf[b]] = b
    BY <1>2, <2>1, <2>4, <2>5, <2>7 DEF TabInv
  <2>9. \A b \in Activity : act[b] \in {"login", "settling"} => TabOf[b] # t
    BY <2>1 DEF TabInv
  <2>10. /\ \A b \in Activity : act'[b] \in {"login", "settling"} => page[TabOf[b]] = "login"
         /\ \A b \in Activity : page[TabOf[b]] = "login" =>
              act'[b] \in {"idle", "login", "settling", "pending"}
         /\ \A b \in Activity : page[TabOf[b]] = "checking" => act'[b] \in {"idle"} \cup Refreshing
    BY <1>2, <2>1 DEF TabInv, Refreshing
  <2>11. \A b, c \in Activity :
           act'[b] \in {"login", "settling"} /\ TabOf[b] = TabOf[c] /\ b # c => act'[c] = "idle"
    BY <1>2, <2>1, <2>9 DEF TabInv
  <2>12. QED
    BY <1>2, <2>6, <2>8, <2>10, <2>11 DEF TabInv
<1>4. /\ leader' \in [Tab -> Activity \cup {None}] /\ kept' \in [Activity -> Token \cup {None}]
      /\ \A b \in Activity \ {a} : kept'[b] = kept[b]
      /\ Known(kept'[a])
  BY DEF AlwaysInv, BrowserTypeOK, HeldInv
<1>5. QED
  BY <1>1, <1>3, <1>4, SentAlways DEF Asking, Kind

LEMMA StartRefreshAlways ==
  ASSUME AlwaysInv, NEW a \in Activity, act[a] \in {"idle", "calling"},
         page[TabOf[a]] # "login", act[a] = "calling" => page[TabOf[a]] # "checking",
         StartRefresh(a)
  PROVE  AlwaysInv'
<1> DEFINE t == TabOf[a]
<1>1. UNCHANGED <<keeps, cookie, page, mode, stored, counts>>
  BY DEF StartRefresh
<1>2. CASE leader[t] # None /\ Become(a, "waiting") /\ UNCHANGED <<leader, kept>> /\ SendNothing
  BY <1>1, <1>2, JoinAlways
<1>3. CASE /\ leader[t] = None
           /\ leader' = [leader EXCEPT ![t] = a]
           /\ kept' = [kept EXCEPT ![a] = stored[t]]
           /\ Become(a, "probing") /\ Send(a, "refresh", None)
  BY <1>1, <1>3, LeadAlways DEF Known
<1>4. CASE /\ leader[t] = None
           /\ leader' = [leader EXCEPT ![t] = a]
           /\ kept' = [kept EXCEPT ![a] = stored[t]]
           /\ Become(a, "spending") /\ Send(a, "refresh", stored[t])
  <2>1. stored[t] \in Token \cup {None} /\ Known(stored[t])
    BY DEF AlwaysInv, BrowserTypeOK, HeldInv
  <2>2. QED
    BY <1>1, <1>4, <2>1, LeadAlways
<1>5. QED
  BY <1>2, <1>3, <1>4 DEF StartRefresh

LEMMA RefusedForNowAlways ==
  ASSUME AlwaysInv, NEW a \in Activity, RefusedForNow(a)
  PROVE  AlwaysInv'
BY StartRefreshAlways DEF RefusedForNow, AlwaysInv, TabInv, Refreshing

\* A page that was just loaded waits for nothing else.
LEMMA GateIsIdle ==
  ASSUME AlwaysInv, NEW a \in Activity, Gate(a)
  PROVE  act[a] = "idle" /\ page[TabOf[a]] = "checking" /\ StartRefresh(a)
<1> DEFINE t == TabOf[a]
<1>1. /\ page[t] = "checking" /\ Waiters(t) = {} /\ StartRefresh(a)
      /\ a = CHOOSE b \in Activities(t) : act[b] = "idle"
  BY DEF Gate
<1>2. a \in Activities(t) /\ act[a] = "idle"
  BY <1>1 DEF AlwaysInv, TabInv, Waiters, Activities
<1>3. QED
  BY <1>1, <1>2

LEMMA GateAlways ==
  ASSUME AlwaysInv, NEW a \in Activity, Gate(a)
  PROVE  AlwaysInv'
BY GateIsIdle, StartRefreshAlways

LEMMA SignInAlways ==
  ASSUME AlwaysInv, NEW a \in Activity, SignIn(a)
  PROVE  AlwaysInv'
<1>1. /\ page[TabOf[a]] = "login" /\ \A b \in Activity : TabOf[b] = TabOf[a] => act[b] = "idle"
      /\ Become(a, "login") /\ UNCHANGED <<keeps, cookie, page, mode, stored, leader, kept, counts>>
  BY DEF SignIn, Activities, tabVars
<1>2. PICK r \in Request : SentAs(r, a, "login", None)
  BY SomeRequestIsSent DEF SignIn
<1>3. act[a] = "idle"
  BY <1>1
<1>4. /\ \A b \in Activity : b # a => act'[b] = act[b]
      /\ act'[a] = "login"
      /\ \A p, q \in Request : sender'[p] = sender'[q] /\ sender'[q] # None => p = q
      /\ \A q \in Request : sender'[q] # None => step'[q] # "idle" /\ act'[sender'[q]] \in Asking
  BY <1>1, <1>2, <1>3, AskersAfterSending DEF Asking
<1>5. TabInv'
  <2>1. TabInv
    BY DEF AlwaysInv
  <2>2. \A u \in Tab : Waiters(u)' = Waiters(u)
    BY <1>3, <1>4 DEF Waiters, Activities, Refreshing
  <2>3. \A u \in Tab : IF Waiters(u)' = {} THEN leader'[u] = None ELSE leader'[u] \in Waiters(u)'
    BY <1>1, <2>1, <2>2 DEF TabInv
  <2>4. \A b \in Activity : act'[b] \in {"probing", "spending"} => leader'[TabOf[b]] = b
    BY <1>1, <1>4, <2>1 DEF TabInv
  <2>5. /\ \A b \in Activity : act'[b] \in {"login", "settling"} => page'[TabOf[b]] = "login"
        /\ \A b \in Activity : page'[TabOf[b]] = "login" =>
             act'[b] \in {"idle", "login", "settling", "pending"}
        /\ \A b \in Activity : page'[TabOf[b]] = "checking" => act'[b] \in {"idle"} \cup Refreshing
    BY <1>1, <1>4, <2>1 DEF TabInv
  <2>6. \A b, c \in Activity :
          act'[b] \in {"login", "settling"} /\ TabOf[b] = TabOf[c] /\ b # c => act'[c] = "idle"
    BY <1>1, <1>4, <2>1 DEF TabInv
  <2>7. QED
    BY <1>4, <2>3, <2>4, <2>5, <2>6 DEF TabInv
<1>6. /\ leader' \in [Tab -> Activity \cup {None}] /\ kept' \in [Activity -> Token \cup {None}]
      /\ kept'[a] = None
  BY <1>1, <1>3 DEF AlwaysInv, BrowserTypeOK, HeldInv
<1>7. QED
  BY <1>1, <1>2, <1>3, <1>5, <1>6, SentAlways DEF Asking, Kind, Known

LEMMA SignOutAlways ==
  ASSUME AlwaysInv, NEW a \in Activity, SignOut(a)
  PROVE  AlwaysInv'
<1> DEFINE t == TabOf[a]
<1>1. /\ page[t] = "ready" /\ act[a] = "idle"
      /\ Become(a, "leaving") /\ UNCHANGED <<keeps, cookie, page, mode, stored, leader, kept, counts>>
  BY DEF SignOut, tabVars
<1>2. PICK r \in Request : SentAs(r, a, "logout", stored[t])
  BY SomeRequestIsSent DEF SignOut
<1>4. /\ \A b \in Activity : b # a => act'[b] = act[b]
      /\ act'[a] = "leaving"
      /\ \A p, q \in Request : sender'[p] = sender'[q] /\ sender'[q] # None => p = q
      /\ \A q \in Request : sender'[q] # None => step'[q] # "idle" /\ act'[sender'[q]] \in Asking
  BY <1>1, <1>2, AskersAfterSending DEF Asking
<1>5. TabInv'
  <2>1. TabInv
    BY DEF AlwaysInv
  <2>2. \A u \in Tab : Waiters(u)' = Waiters(u)
    BY <1>1, <1>4 DEF Waiters, Activities, Refreshing
  <2>3. \A u \in Tab : IF Waiters(u)' = {} THEN leader'[u] = None ELSE leader'[u] \in Waiters(u)'
    BY <1>1, <2>1, <2>2 DEF TabInv
  <2>4. \A b \in Activity : act'[b] \in {"probing", "spending"} => leader'[TabOf[b]] = b
    BY <1>1, <1>4, <2>1 DEF TabInv
  <2>5. /\ \A b \in Activity : act'[b] \in {"login", "settling"} => page'[TabOf[b]] = "login"
        /\ \A b \in Activity : page'[TabOf[b]] = "login" =>
             act'[b] \in {"idle", "login", "settling", "pending"}
        /\ \A b \in Activity : page'[TabOf[b]] = "checking" => act'[b] \in {"idle"} \cup Refreshing
    BY <1>1, <1>4, <2>1 DEF TabInv
  <2>6. \A b, c \in Activity :
          act'[b] \in {"login", "settling"} /\ TabOf[b] = TabOf[c] /\ b # c => act'[c] = "idle"
    BY <1>1, <1>4, <2>1 DEF TabInv
  <2>7. QED
    BY <1>4, <2>3, <2>4, <2>5, <2>6 DEF TabInv
<1>6. /\ leader' \in [Tab -> Activity \cup {None}] /\ kept' \in [Activity -> Token \cup {None}]
      /\ kept'[a] = None
      /\ stored[t] \in Token \cup {None} /\ Known(stored[t])
  BY <1>1 DEF AlwaysInv, BrowserTypeOK, HeldInv
<1>7. QED
  BY <1>1, <1>2, <1>5, <1>6, SentAlways DEF Asking, Kind, Known

-------------------------------------------------------------------------------
LEMMA ServeAlways ==
  ASSUME AlwaysInv, NEW r \in Request, Serve(r)
  PROVE  AlwaysInv'
<1>1. CASE (Decode(r) \/ Consume(r) \/ Revoke(r) \/ Verify(r)) /\ UNCHANGED browserVars
  BY <1>1, DecodeAlways, ConsumeAlways, RevokeAlways, VerifyAlways
<1>2. CASE Unheld # {} /\ Issue(r, CHOOSE t \in Unheld : TRUE) /\ UNCHANGED browserVars
  BY <1>2, IssueAlways
<1>3. CASE Fail(r) /\ Mishap /\ troubled' = TRUE /\ UNCHANGED <<keeps, cookie, tabVars, act, kept, sender>>
  BY <1>3, FailAlways, MishapUntouched
<1>4. QED
  BY <1>1, <1>2, <1>3 DEF Serve

LEMMA AlwaysAfterStep ==
  ASSUME AlwaysInv, [Next]_vars
  PROVE  AlwaysInv'
<1>1. CASE UNCHANGED vars
  <2>1. UNCHANGED browserVars /\ UNCHANGED ledgerVars
    BY <1>1, Zenon DEF vars
  <2>2. LedgerInv'
    BY <2>1, LedgerStep DEF AlwaysInv
  <2>3. HandlingInv'
    BY <2>1 DEF ledgerVars, AlwaysInv, HandlingInv
  <2>4. QED
    BY <2>1, <2>2, <2>3, BrowserAtRest, RestIsUntouched DEF ledgerVars
<1>2. CASE \E r \in Request : Serve(r) \/ Receive(r) \/ Lose(r) \/ Discard(r) \/ Elsewhere(r)
  BY <1>2, ServeAlways, ReceiveAlways, LoseAlways, DiscardAlways, ElsewhereAlways
<1>3. CASE \E a \in Activity : Api(a) \/ Call(a) \/ Gate(a) \/ SignIn(a) \/ SignOut(a)
  BY <1>3, AnsweredAlways, RefusedAlways, RefusedForNowAlways, CallAlways, GateAlways,
     SignInAlways, SignOutAlways DEF Api
<1>4. CASE \E t \in Tab : Visit(t)
  BY <1>4, VisitAlways
<1>5. CASE Outage
  BY <1>5, OutageAlways
<1>6. QED
  BY <1>1, <1>2, <1>3, <1>4, <1>5 DEF Next

LEMMA AlwaysAtStart ==
  ASSUME Init
  PROVE  AlwaysInv
<1>1. PICK past \in SUBSET Family, old \in SUBSET Token : \E of \in [old -> Legacy] : LedgerInit(old, of, past)
  BY DEF Init
<1>2. PICK of \in [old -> Legacy] : LedgerInit(old, of, past)
  BY <1>1
<1>3. LedgerInv
  BY <1>2, InheritedLedger
<1>4. PICK t \in Tab, s \in live \cup {None} :
         stored = [u \in Tab |-> IF u = t THEN s ELSE None] /\ (s # None => ~keeps)
  BY DEF Init
<1>5. live \subseteq Token /\ \A x \in live : familyOf[x] # None
  BY <1>3 DEF LedgerInv, TokensTypeOK, IssuedInv
<1>6. BrowserTypeOK
  <2>1. keeps \in BOOLEAN /\ troubled \in BOOLEAN
    BY Zenon DEF Init
  <2>2. stored \in [Tab -> Token \cup {None}]
    BY <1>4, <1>5
  <2>3. QED
    BY <1>5, <2>1, <2>2 DEF Init, BrowserTypeOK, Busy
<1>7. HeldInv
  <2>1. \A u \in Tab : Known(stored[u])
    BY <1>4, <1>5 DEF Known
  <2>2. QED
    BY <1>5, <2>1 DEF Init, HeldInv, Known
<1>8. HandlingInv
  BY <1>2 DEF LedgerInit, HandlingInv
<1>9. TabInv
  BY DEF Init, TabInv, Waiters, Activities, Refreshing
<1>10. QED
  BY <1>3, <1>6, <1>7, <1>8, <1>9 DEF AlwaysInv

-------------------------------------------------------------------------------
(***************************************************************************)
(* Without trouble there is one request at a time that is about tokens:    *)
(* tabs do not overlap, a tab has one refresh, and whoever signs in waits. *)
(***************************************************************************)
LEMMA OneAtATime ==
  ASSUME AlwaysInv, Calm, NEW q \in Request, NEW r \in Request,
         sender[q] # None, sender[r] # None,
         kind[q] \in {"refresh", "login"}, kind[r] \in {"refresh", "login"}
  PROVE  q = r
<1> DEFINE a == sender[q]
           b == sender[r]
<1>1. a \in Activity /\ b \in Activity
  BY DEF AlwaysInv, BrowserTypeOK
<1>2. TabOf[a] = TabOf[b]
  BY DEF Calm, CalmAsking, Pending
<1>3. act[a] \in Asking \ {"leaving"} /\ act[b] \in Asking \ {"leaving"}
  <2>1. act[a] \in Asking /\ act[b] \in Asking
    BY DEF AlwaysInv, TabInv
  <2>2. kind[q] = Endpoint(act[a]) /\ kind[r] = Endpoint(act[b])
    BY DEF Calm, CalmAsking
  <2>3. QED
    BY <2>1, <2>2 DEF Endpoint
<1>4. a = b
  <2>1. CASE act[a] \in {"login", "settling"} \/ act[b] \in {"login", "settling"}
    BY <1>1, <1>2, <1>3, <2>1 DEF Asking, AlwaysInv, TabInv
  <2>2. CASE act[a] \in {"probing", "spending"} /\ act[b] \in {"probing", "spending"}
    BY <1>1, <1>2, <2>2 DEF AlwaysInv, TabInv
  <2>3. QED
    BY <1>3, <2>1, <2>2 DEF Asking
<1>5. QED
  BY <1>4 DEF AlwaysInv, TabInv

\* Who refreshes or signs in has one request, and it is the only one.
LEMMA AskersAreOne ==
  ASSUME AlwaysInv, Calm, NEW r \in Request, sender[r] # None, kind[r] \in {"refresh", "login"},
         NEW b \in Activity, act[b] \in {"probing", "spending", "settling", "login"}
  PROVE  b = sender[r]
<1>1. PICK q \in Request : sender[q] = b
  BY DEF Calm, CalmAsking, Asking
<1>2. sender[q] # None /\ kind[q] = Endpoint(act[b])
  BY <1>1 DEF Calm, CalmAsking
<1>3. kind[q] \in {"refresh", "login"}
  BY <1>2 DEF Endpoint
<1>4. q = r
  BY <1>2, <1>3, OneAtATime
<1>5. QED
  BY <1>1, <1>4

LEMMA RotatingIsOne ==
  ASSUME AlwaysInv, Calm, NEW r \in Request, sender[r] # None, kind[r] \in {"refresh", "login"},
         NEW q \in Request, NEW doing \in SUBSET {"probing", "spending", "settling"},
         Rotating(q, doing)
  PROVE  q = r /\ act[sender[r]] \in doing /\ step[r] \in {"issue", "ok"}
<1>1. sender[q] # None /\ act[sender[q]] \in doing /\ step[q] \in {"issue", "ok"}
  BY DEF Rotating
<1>2. kind[q] = "refresh"
  BY <1>1 DEF Calm, CalmAsking, Endpoint
<1>3. q = r
  BY <1>1, <1>2, OneAtATime
<1>4. QED
  BY <1>1, <1>3

\* Nothing that is held is dead while the request about tokens has not spent one.
LEMMA NothingIsDead ==
  ASSUME AlwaysInv, Calm, NEW r \in Request, sender[r] # None, kind[r] \in {"refresh", "login"}
  PROVE  /\ Dead(cookie) => act[sender[r]] \in {"probing", "settling"} /\ step[r] \in {"issue", "ok"}
         /\ \A t \in Tab : Dead(stored[t]) =>
              /\ act[sender[r]] = "spending" /\ step[r] \in {"issue", "ok"}
              /\ TabOf[sender[r]] = t
         /\ \A b \in Activity : act[b] = "settling" /\ Dead(kept[b]) =>
              b = sender[r] /\ step[r] \in {"issue", "ok"}
<1>1. ASSUME Dead(cookie)
      PROVE  act[sender[r]] \in {"probing", "settling"} /\ step[r] \in {"issue", "ok"}
  <2>1. PICK q \in Request : Rotating(q, {"probing", "settling"})
    BY <1>1 DEF Calm, CalmTokens
  <2>2. QED
    BY <2>1, RotatingIsOne
<1>2. ASSUME NEW t \in Tab, Dead(stored[t])
      PROVE  act[sender[r]] = "spending" /\ step[r] \in {"issue", "ok"} /\ TabOf[sender[r]] = t
  <2>1. PICK q \in Request : Rotating(q, {"spending"}) /\ TabOf[sender[q]] = t
    BY <1>2 DEF Calm, CalmTokens
  <2>2. q = r /\ act[sender[r]] \in {"spending"} /\ step[r] \in {"issue", "ok"}
    BY <2>1, RotatingIsOne
  <2>3. QED
    BY <2>1, <2>2
<1>3. ASSUME NEW b \in Activity, act[b] = "settling", Dead(kept[b])
      PROVE  b = sender[r] /\ step[r] \in {"issue", "ok"}
  <2>1. PICK q \in Request : Rotating(q, {"settling"}) /\ sender[q] = b
    BY <1>3 DEF Calm, CalmTokens
  <2>2. q = r /\ step[r] \in {"issue", "ok"}
    BY <2>1, RotatingIsOne
  <2>3. QED
    BY <2>1, <2>2
<1>4. QED
  BY <1>1, <1>2, <1>3

-------------------------------------------------------------------------------
(***************************************************************************)
(* The server at work on a calm browser.                                   *)
(***************************************************************************)
LEMMA AskingAtRest ==
  ASSUME CalmAsking, UNCHANGED browserVars, kind' = kind, expired' = {},
         \A r \in Request : step'[r] # "failed" /\ (step[r] = "idle" => step'[r] = "idle")
  PROVE  CalmAsking'
BY DEF CalmAsking, browserVars, tabVars, Pending

LEMMA CalmAskingNext ==
  ASSUME expired' = {} /\ \A q \in Request : step'[q] # "failed",
         \A q \in Request : sender'[q] = None /\ step'[q] # "idle" => kind'[q] = "logout all",
         \A q \in Request : sender'[q] # None => kind'[q] = Endpoint(act'[sender'[q]]),
         \A b \in Activity : act'[b] \in Asking => \E q \in Request : sender'[q] = b,
         \A p, q \in Request :
           sender'[p] # None /\ sender'[q] # None => TabOf[sender'[p]] = TabOf[sender'[q]],
         \A b \in Activity : act'[b] # "pending"
  PROVE  CalmAsking'
BY Zenon DEF CalmAsking, Pending

\* What is asked, and who asked it.
LEMMA WhatIsAsked ==
  ASSUME Calm
  PROVE  /\ \A r \in Request : sender[r] = None /\ step[r] # "idle" => kind[r] = "logout all"
         /\ \A r \in Request : sender[r] # None => kind[r] = Endpoint(act[sender[r]])
         /\ \A a \in Activity : act[a] \in Asking => \E r \in Request : sender[r] = a
         /\ \A q, r \in Request :
              sender[q] # None /\ sender[r] # None => TabOf[sender[q]] = TabOf[sender[r]]
         /\ \A a \in Activity : act[a] # "pending"
BY Zenon DEF Calm, CalmAsking, Pending

LEMMA SameTabNext ==
  ASSUME Calm, sender' = sender
  PROVE  \A p, q \in Request :
           sender'[p] # None /\ sender'[q] # None => TabOf[sender'[p]] = TabOf[sender'[q]]
BY WhatIsAsked, Zenon

LEMMA NobodyFails ==
  ASSUME Calm
  PROVE  expired = {} /\ \A r \in Request : step[r] # "failed"
BY Zenon DEF Calm, CalmAsking

LEMMA SomebodyAsked ==
  ASSUME AlwaysInv, Calm, NEW r \in Request, step[r] # "idle", kind[r] # "logout all"
  PROVE  /\ sender[r] # None /\ sender[r] \in Activity
         /\ act[sender[r]] \in Asking /\ kind[r] = Endpoint(act[sender[r]])
<1>1. sender[r] # None
  BY Zenon DEF Calm, CalmAsking
<1>2. sender[r] \in Activity
  BY <1>1 DEF AlwaysInv, BrowserTypeOK
<1>3. kind[r] = Endpoint(act[sender[r]])
  BY <1>1, Zenon DEF Calm, CalmAsking
<1>4. QED
  BY <1>1, <1>2, <1>3 DEF AlwaysInv, TabInv

LEMMA DecodeCalm ==
  ASSUME AlwaysInv, Calm, NEW r \in Request, Decode(r), UNCHANGED browserVars
  PROVE  Calm'
<1>1. /\ step[r] = "arrived" /\ kind[r] # "login"
      /\ UNCHANGED <<live, familyOf, expired, opened, kind, revoked, suspected>>
      /\ UNCHANGED <<keeps, cookie, page, mode, stored, leader, act, kept, sender>>
      /\ \A q \in Request : q # r => step'[q] = step[q] /\ token'[q] = token[q] /\ family'[q] = family[q]
  BY DEF Decode, GoTo, Answer, browserVars, tabVars, histories, AlwaysInv, LedgerInv, TokensTypeOK
<1>2. CASE /\ token[r] # None
           /\ family'[r] = familyOf[token[r]] /\ token'[r] = token[r]
           /\ step'[r] = IF kind[r] = "refresh" THEN "consume" ELSE "revoke"
  <2>1. CalmAsking'
    <3>1. CalmAsking /\ expired' = {} /\ kind' = kind
      BY <1>1 DEF Calm, CalmAsking
    <3>2. \A q \in Request : step'[q] # "failed" /\ (step[q] = "idle" => step'[q] = "idle")
      BY <1>1, <1>2, NobodyFails
    <3>3. QED
      BY <3>1, <3>2, AskingAtRest
  <2>2. CalmHolding'
    BY <1>1 DEF Calm, CalmHolding, Lasting
  <2>3. CalmTokens'
    BY <1>1 DEF Calm, CalmTokens, Dead, Lasting, Rotating
  <2>4. CalmRequests'
    <3> SUFFICES ASSUME NEW q \in Request, sender[q] # None
                 PROVE  /\ kind[q] = "refresh" => PresentsGood(q, sender[q])'
                        /\ step'[q] = "ok" /\ kind[q] \in {"refresh", "login"} => BringsGood(q, sender[q])'
      BY <1>1 DEF CalmRequests, Pending
    <3>1. /\ kind[q] = "refresh" => PresentsGood(q, sender[q])
          /\ step[q] = "ok" /\ kind[q] \in {"refresh", "login"} => BringsGood(q, sender[q])
      BY DEF Calm, CalmRequests, Pending
    <3>2. CASE q # r
      BY <1>1, <3>1, <3>2 DEF PresentsGood, BringsGood, Dead, Lasting
    <3>3. CASE q = r
      BY <1>1, <1>2, <3>1, <3>3 DEF PresentsGood, BringsGood, Dead, Lasting
    <3>4. QED
      BY <3>2, <3>3
  <2>5. QED
    BY <1>1, <2>1, <2>2, <2>3, <2>4 DEF Calm
<1>3. CASE /\ token[r] = None /\ step'[r] = IF kind[r] = "refresh" THEN "denied" ELSE "ok"
  <2>1. CalmAsking'
    <3>1. CalmAsking /\ expired' = {} /\ kind' = kind
      BY <1>1 DEF Calm, CalmAsking
    <3>2. \A q \in Request : step'[q] # "failed" /\ (step[q] = "idle" => step'[q] = "idle")
      BY <1>1, <1>3, NobodyFails
    <3>3. QED
      BY <3>1, <3>2, AskingAtRest
  <2>2. CalmHolding'
    BY <1>1 DEF Calm, CalmHolding, Lasting
  <2>3. CalmTokens'
    BY <1>1 DEF Calm, CalmTokens, Dead, Lasting, Rotating
  <2>4. CalmRequests'
    <3> SUFFICES ASSUME NEW q \in Request, sender[q] # None
                 PROVE  /\ kind[q] = "refresh" => PresentsGood(q, sender[q])'
                        /\ step'[q] = "ok" /\ kind[q] \in {"refresh", "login"} => BringsGood(q, sender[q])'
      BY <1>1 DEF CalmRequests, Pending
    <3>1. /\ kind[q] = "refresh" => PresentsGood(q, sender[q])
          /\ step[q] = "ok" /\ kind[q] \in {"refresh", "login"} => BringsGood(q, sender[q])
      BY DEF Calm, CalmRequests, Pending
    <3>2. CASE q # r
      BY <1>1, <3>1, <3>2 DEF PresentsGood, BringsGood, Dead, Lasting
    <3>3. CASE q = r
      BY <1>1, <1>3, <3>1, <3>3 DEF PresentsGood, BringsGood, Dead, Lasting
    <3>4. QED
      BY <3>2, <3>3
  <2>5. QED
    BY <1>1, <2>1, <2>2, <2>3, <2>4 DEF Calm
<1>4. QED
  <2>1. expired = {} /\ token[r] \in Token \cup {None}
    BY DEF Calm, CalmAsking, AlwaysInv, LedgerInv, TokensTypeOK
  <2>2. DOMAIN step = Request /\ DOMAIN family = Request
    BY DEF AlwaysInv, LedgerInv, TokensTypeOK
  <2>3. CASE token[r] = None
    BY <1>3, <2>1, <2>2, <2>3 DEF Decode, Readable, Answer, GoTo
  <2>4. CASE token[r] # None
    BY <1>2, <2>1, <2>2, <2>4 DEF Decode, Readable, GoTo
  <2>5. QED
    BY <2>3, <2>4

(***************************************************************************)
(* The token that a refresh spends is dead from then on, and it is the     *)
(* very one that its answer replaces.                                      *)
(***************************************************************************)
LEMMA ConsumeCalm ==
  ASSUME AlwaysInv, Calm, NEW r \in Request, Consume(r), UNCHANGED browserVars
  PROVE  Calm'
<1> DEFINE a == sender[r]
           x == token[r]
<1>1. /\ step[r] = "consume"
      /\ UNCHANGED <<familyOf, expired, opened, kind, token, family, revoked, suspected>>
      /\ UNCHANGED <<keeps, cookie, page, mode, stored, leader, act, kept, sender>>
      /\ \A q \in Request : q # r => step'[q] = step[q]
  BY DEF Consume, GoTo, browserVars, tabVars, histories, AlwaysInv, LedgerInv, TokensTypeOK
<1>2. kind[r] = "refresh" /\ x # None /\ x \in Token /\ family[r] = familyOf[x]
  BY <1>1 DEF AlwaysInv, HandlingInv, LedgerInv, TokensTypeOK
<1>3. a # None /\ a \in Activity
  BY <1>1, <1>2, SomebodyAsked
<1>4. act[a] \in {"probing", "spending", "settling"}
  <2>1. kind[r] = Endpoint(act[a]) /\ act[a] \in Asking
    BY <1>1, <1>2, SomebodyAsked
  <2>2. QED
    BY <1>2, <2>1 DEF Endpoint, Asking
<1>5. PresentsGood(r, a)
  BY <1>2, <1>3 DEF Calm, CalmRequests, Pending
<1>6. /\ ~Dead(cookie) /\ (\A t \in Tab : ~Dead(stored[t]))
      /\ \A b \in Activity : act[b] = "settling" => ~Dead(kept[b]) /\ b = a
  <2>1. \A b \in Activity : act[b] = "settling" => b = a
    BY <1>2, <1>3, AskersAreOne
  <2>2. QED
    BY <1>1, <1>2, <1>3, <2>1, NothingIsDead
<1>7. \A q \in Request : q # r /\ sender[q] # None => kind[q] \notin {"refresh", "login"}
  BY <1>2, <1>3, OneAtATime
<1>8. expired = {}
  BY DEF Calm, CalmAsking
<1>9. act[a] = "spending" /\ keeps => ~Lasting(x)
  BY <1>1, <1>3, <1>5 DEF PresentsGood, Calm, CalmHolding
<1>10. CASE x \notin live
  <2>1. live' = live /\ step'[r] = "revoke"
    BY <1>1, <1>10 DEF Consume, Spendable, GoTo, AlwaysInv, LedgerInv, TokensTypeOK
  <2>2. ~Lasting(x) /\ family[r] \in revoked
    BY <1>1, <1>2, <1>5, <1>10 DEF PresentsGood, Dead, Lasting
  <2>3. CalmAsking'
    <3>1. CalmAsking /\ expired' = {} /\ kind' = kind
      BY <1>1 DEF Calm, CalmAsking
    <3>2. \A q \in Request : step'[q] # "failed" /\ (step[q] = "idle" => step'[q] = "idle")
      BY <1>1, <2>1, NobodyFails
    <3>3. QED
      BY <3>1, <3>2, AskingAtRest
  <2>4. CalmHolding'
    BY <1>1 DEF Calm, CalmHolding, Lasting
  <2>5. CalmTokens'
    BY <1>1, <1>6, <2>1 DEF CalmTokens, Dead, Lasting
  <2>6. PresentsGood(r, a)'
    BY <1>1, <1>5, <2>1, <2>2 DEF PresentsGood, Lasting
  <2>7. CalmRequests'
    BY <1>1, <1>7, <2>1, <2>6 DEF CalmRequests, Pending
  <2>8. QED
    BY <1>1, <2>3, <2>4, <2>5, <2>7 DEF Calm
<1>11. CASE x \in live
  <2>1. live' = live \ {x} /\ step'[r] = "issue"
    BY <1>1, <1>2, <1>8, <1>11 DEF Consume, Spendable, GoTo, AlwaysInv, LedgerInv, TokensTypeOK
  <2>2. ~(act[a] \in {"probing", "settling"} /\ ~keeps)
    BY <1>1, <1>5 DEF PresentsGood
  <2>3. CalmAsking'
    <3>1. CalmAsking /\ expired' = {} /\ kind' = kind
      BY <1>1 DEF Calm, CalmAsking
    <3>2. \A q \in Request : step'[q] # "failed" /\ (step[q] = "idle" => step'[q] = "idle")
      BY <1>1, <2>1, NobodyFails
    <3>3. QED
      BY <3>1, <3>2, AskingAtRest
  <2>4. CalmHolding'
    BY <1>1 DEF Calm, CalmHolding, Lasting
  <2>5. CalmTokens'
    <3>1. Rotating(r, {act[a]})'
      BY <1>1, <1>3, <2>1 DEF Rotating
    <3>2. Dead(cookie)' => act[a] \in {"probing", "settling"}
      <4> SUFFICES ASSUME Dead(cookie)', act[a] = "spending"
                   PROVE  FALSE
        BY <1>4
      <4>1. cookie = x /\ Lasting(x)
        BY <1>1, <1>6, <2>1 DEF Dead, Lasting
      <4>2. keeps
        BY <4>1 DEF Lasting, AlwaysInv, HeldInv
      <4>3. QED
        BY <1>9, <4>1, <4>2
    <3>3. \A t \in Tab : Dead(stored[t])' => act[a] = "spending" /\ TabOf[a] = t
      <4> SUFFICES ASSUME NEW t \in Tab, Dead(stored[t])'
                   PROVE  act[a] = "spending" /\ TabOf[a] = t
        OBVIOUS
      <4>1. stored[t] = x /\ Lasting(x)
        BY <1>1, <1>6, <2>1 DEF Dead, Lasting
      <4>2. ~keeps
        BY <4>1 DEF Calm, CalmHolding
      <4>3. act[a] = "spending"
        BY <1>4, <2>2, <4>2
      <4>4. stored[TabOf[a]] = x
        BY <1>1, <1>3, <1>5, <4>3 DEF PresentsGood, Calm, CalmHolding
      <4>5. QED
        BY <1>3, <4>1, <4>3, <4>4 DEF Calm, CalmHolding
    <3>4. \A b \in Activity : act'[b] = "settling" => b = a
      BY <1>1, <1>6
    <3>5. QED
      BY <1>1, <1>3, <3>1, <3>2, <3>3, <3>4 DEF CalmTokens, Rotating
  <2>6. PresentsGood(r, a)'
    <3>1. act[a] = "spending" /\ keeps => family[r] \in revoked
      BY <1>2, <1>9 DEF Lasting
    <3>2. QED
      BY <1>1, <2>1, <2>2, <3>1 DEF PresentsGood
  <2>7. CalmRequests'
    BY <1>1, <1>7, <2>1, <2>6 DEF CalmRequests, Pending
  <2>8. QED
    BY <1>1, <2>3, <2>4, <2>5, <2>7 DEF Calm
<1>12. QED
  BY <1>10, <1>11

LEMMA RevokeCalm ==
  ASSUME AlwaysInv, Calm, NEW r \in Request, Revoke(r), UNCHANGED browserVars
  PROVE  Calm'
<1>1. /\ step[r] = "revoke"
      /\ UNCHANGED <<familyOf, expired, opened, kind>>
      /\ UNCHANGED <<keeps, cookie, page, mode, stored, leader, act, kept, sender>>
      /\ \A q \in Request : q # r => step'[q] = step[q] /\ token'[q] = token[q] /\ family'[q] = family[q]
      /\ step'[r] = IF kind[r] = "refresh" THEN "denied" ELSE "ok"
      /\ live' = {t \in live : familyOf[t] \notin Reached(r)}
      /\ revoked' = revoked \cup Reached(r)
      /\ suspected' = IF kind[r] = "refresh" THEN suspected \cup (Reached(r) \ revoked) ELSE suspected
  BY DEF Revoke, GoTo, Answer, browserVars, tabVars, AlwaysInv, LedgerInv, TokensTypeOK
<1>2. \A x : (Lasting(x)' => Lasting(x)) /\ (Dead(x)' => Dead(x))
  BY <1>1 DEF Lasting, Dead
<1>3. suspected' = {}
  <2>1. CASE kind[r] = "refresh"
    <3>1. sender[r] # None
      BY <1>1, <2>1 DEF Calm, CalmAsking
    <3>2. family[r] \in revoked
      BY <1>1, <2>1, <3>1 DEF Calm, CalmRequests, PresentsGood, Pending
    <3>3. QED
      BY <1>1, <2>1, <3>2 DEF Reached, Calm
  <2>2. CASE kind[r] # "refresh"
    BY <1>1, <2>2 DEF Calm
  <2>3. QED
    BY <2>1, <2>2
<1>4. CalmAsking'
  <2>1. CalmAsking /\ expired' = {} /\ kind' = kind
    BY <1>1 DEF Calm, CalmAsking
  <2>2. \A q \in Request : step'[q] # "failed" /\ (step[q] = "idle" => step'[q] = "idle")
    BY <1>1, NobodyFails
  <2>3. QED
    BY <2>1, <2>2, AskingAtRest
<1>5. CalmHolding'
  <2>1. \A t \in Tab : Lasting(stored[t])' => Lasting(stored[t])
    BY <1>1, <1>2
  <2>2. \A b \in Activity : Lasting(kept[b])' => Lasting(kept[b])
    BY <1>1, <1>2
  <2>3. QED
    BY <1>1, <2>1, <2>2 DEF Calm, CalmHolding
<1>6. CalmTokens'
  <2>1. Dead(cookie)' => Dead(cookie)
    BY <1>1, <1>2
  <2>2. \A t \in Tab : Dead(stored[t])' => Dead(stored[t])
    BY <1>1, <1>2
  <2>3. \A b \in Activity : Dead(kept[b])' => Dead(kept[b])
    BY <1>1, <1>2
  <2>4. \A q \in Request : \A doing : Rotating(q, doing) => Rotating(q, doing)'
    BY <1>1 DEF Rotating
  <2>5. QED
    BY <1>1, <2>1, <2>2, <2>3, <2>4 DEF Calm, CalmTokens
<1>7. CalmRequests'
  <2> SUFFICES ASSUME NEW q \in Request, sender[q] # None
               PROVE  /\ kind[q] = "refresh" => PresentsGood(q, sender[q])'
                      /\ step'[q] = "ok" /\ kind[q] \in {"refresh", "login"} => BringsGood(q, sender[q])'
    BY <1>1 DEF CalmRequests, Pending
  <2>1. /\ kind[q] = "refresh" => PresentsGood(q, sender[q])
        /\ step[q] = "ok" /\ kind[q] \in {"refresh", "login"} => BringsGood(q, sender[q])
    BY DEF Calm, CalmRequests, Pending
  <2>2. CASE q # r
    <3>1. step'[q] = step[q] /\ token'[q] = token[q] /\ family'[q] = family[q]
      BY <1>1, <2>2
    <3>2. /\ Dead(token[q])' => Dead(token[q])
          /\ Lasting(token[q])' => Lasting(token[q])
          /\ Lasting(kept[sender[q]])' => Lasting(kept[sender[q]])
      BY <1>1, <1>2, <3>1
    <3>3. kind[q] = "refresh" => PresentsGood(q, sender[q])'
      BY <1>1, <2>1, <3>1, <3>2 DEF PresentsGood
    <3>4. step'[q] = "ok" /\ kind[q] \in {"refresh", "login"} => BringsGood(q, sender[q])'
      BY <1>1, <2>1, <3>1, <3>2 DEF BringsGood
    <3>5. QED
      BY <3>3, <3>4
  <2>3. CASE q = r
    <3>1. Lasting(kept[sender[r]])' => Lasting(kept[sender[r]])
      BY <1>1, <1>2
    <3>2. kind[r] # "login"
      BY <1>1 DEF AlwaysInv, HandlingInv
    <3>3. kind[r] = "refresh" => PresentsGood(r, sender[r])'
      BY <1>1, <2>1, <2>3, <3>1 DEF PresentsGood
    <3>4. QED
      BY <1>1, <2>3, <3>2, <3>3
  <2>4. QED
    BY <2>2, <2>3
<1>8. QED
  BY <1>3, <1>4, <1>5, <1>6, <1>7 DEF Calm

LEMMA VerifyCalm ==
  ASSUME AlwaysInv, Calm, NEW r \in Request, Verify(r), UNCHANGED browserVars
  PROVE  Calm'
<1>1. /\ step[r] = "arrived" /\ kind[r] = "login" /\ step'[r] \in {"denied", "issue"}
      /\ UNCHANGED <<live, familyOf, expired, kind, revoked, suspected>>
      /\ UNCHANGED <<keeps, cookie, page, mode, stored, leader, act, kept, sender>>
      /\ \A q \in Request : q # r => step'[q] = step[q] /\ token'[q] = token[q] /\ family'[q] = family[q]
  BY DEF Verify, GoTo, Answer, browserVars, tabVars, histories, AlwaysInv, LedgerInv, TokensTypeOK
<1>2. CalmAsking'
  <2>1. CalmAsking /\ expired' = {} /\ kind' = kind
    BY <1>1 DEF Calm, CalmAsking
  <2>2. \A q \in Request : step'[q] # "failed" /\ (step[q] = "idle" => step'[q] = "idle")
    BY <1>1, NobodyFails
  <2>3. QED
    BY <2>1, <2>2, AskingAtRest
<1>3. CalmHolding'
  BY <1>1 DEF Calm, CalmHolding, Lasting
<1>4. CalmTokens'
  BY <1>1 DEF Calm, CalmTokens, Dead, Lasting, Rotating
<1>5. CalmRequests'
  <2> SUFFICES ASSUME NEW q \in Request, sender[q] # None
               PROVE  /\ kind[q] = "refresh" => PresentsGood(q, sender[q])'
                      /\ step'[q] = "ok" /\ kind[q] \in {"refresh", "login"} => BringsGood(q, sender[q])'
    BY <1>1 DEF CalmRequests, Pending
  <2>1. /\ kind[q] = "refresh" => PresentsGood(q, sender[q])
        /\ step[q] = "ok" /\ kind[q] \in {"refresh", "login"} => BringsGood(q, sender[q])
    BY DEF Calm, CalmRequests, Pending
  <2>2. CASE q # r
    BY <1>1, <2>1, <2>2 DEF PresentsGood, BringsGood, Dead, Lasting
  <2>3. CASE q = r
    BY <1>1, <2>3
  <2>4. QED
    BY <2>2, <2>3
<1>6. QED
  BY <1>1, <1>2, <1>3, <1>4, <1>5 DEF Calm

(***************************************************************************)
(* The successor is a token nobody holds, so what others hold is as good   *)
(* as it was.                                                              *)
(***************************************************************************)
LEMMA IssueCalm ==
  ASSUME AlwaysInv, Calm, NEW r \in Request, NEW y \in Unheld, Issue(r, y), UNCHANGED browserVars
  PROVE  Calm'
<1> DEFINE a == sender[r]
<1>1. /\ y \in Token /\ familyOf'[y] = family[r] /\ family[r] # None
      /\ \A x \in Token : x # y => familyOf'[x] = familyOf[x]
      /\ y # cookie /\ (\A t \in Tab : y # stored[t]) /\ \A b \in Activity : y # kept[b]
      /\ \A q \in Request : step[q] # "idle" => y # token[q]
  BY IssueKeepsHeld
<1>2. /\ step[r] = "issue" /\ step'[r] = "ok" /\ token'[r] = y
      /\ UNCHANGED <<opened, kind, revoked, suspected>>
      /\ live' = live \cup {y} /\ expired' = expired \ {y}
      /\ UNCHANGED <<keeps, cookie, page, mode, stored, leader, act, kept, sender>>
      /\ \A q \in Request : q # r => step'[q] = step[q] /\ token'[q] = token[q] /\ family'[q] = family[q]
  BY DEF Issue, GoTo, Answer, browserVars, tabVars, histories, AlwaysInv, LedgerInv, TokensTypeOK
<1>3. kind[r] \in {"refresh", "login"}
  BY <1>2 DEF AlwaysInv, HandlingInv
<1>4. a # None /\ a \in Activity
  BY <1>2, <1>3, SomebodyAsked
<1>5. \A x \in Token \cup {None} : x # y => (Lasting(x)' <=> Lasting(x)) /\ (Dead(x)' <=> Dead(x))
  BY <1>1, <1>2 DEF Lasting, Dead
<1>6. /\ cookie \in Token \cup {None} /\ \A t \in Tab : stored[t] \in Token \cup {None}
      /\ \A b \in Activity : kept[b] \in Token \cup {None}
      /\ \A q \in Request : token[q] \in Token \cup {None}
  BY DEF AlwaysInv, BrowserTypeOK, LedgerInv, TokensTypeOK
<1>7. /\ (Lasting(cookie)' <=> Lasting(cookie)) /\ (Dead(cookie)' <=> Dead(cookie))
      /\ \A t \in Tab : (Lasting(stored[t])' <=> Lasting(stored[t])) /\ (Dead(stored[t])' <=> Dead(stored[t]))
      /\ \A b \in Activity : (Lasting(kept[b])' <=> Lasting(kept[b])) /\ (Dead(kept[b])' <=> Dead(kept[b]))
  BY <1>1, <1>2, <1>6 DEF Lasting, Dead
<1>8. CalmAsking'
  <2>1. CalmAsking /\ expired' = {} /\ kind' = kind
    BY <1>2, NobodyFails DEF Calm
  <2>2. \A q \in Request : step'[q] # "failed" /\ (step[q] = "idle" => step'[q] = "idle")
    BY <1>2, NobodyFails
  <2>3. QED
    BY <2>1, <2>2, AskingAtRest
<1>9. CalmHolding'
  BY <1>2, <1>7 DEF Calm, CalmHolding
<1>10. CalmTokens'
  <2>1. \A q \in Request : \A doing : Rotating(q, doing) => Rotating(q, doing)'
    BY <1>2 DEF Rotating
  <2>2. QED
    BY <1>2, <1>7, <2>1 DEF Calm, CalmTokens
<1>11. CalmRequests'
  <2> SUFFICES ASSUME NEW q \in Request, sender[q] # None
               PROVE  /\ kind[q] = "refresh" => PresentsGood(q, sender[q])'
                      /\ step'[q] = "ok" /\ kind[q] \in {"refresh", "login"} => BringsGood(q, sender[q])'
    BY <1>2 DEF CalmRequests, Pending
  <2>1. CASE q # r
    BY <1>2, <1>3, <1>4, <2>1, OneAtATime
  <2>2. CASE q = r
    <3>1. kind[r] = "refresh" => PresentsGood(r, a)
      BY <1>4 DEF Calm, CalmRequests, Pending
    <3>2. kind[r] = "refresh" => PresentsGood(r, a)'
      BY <1>2, <3>1 DEF PresentsGood
    <3>3. ~(act[a] = "spending" /\ keeps /\ Lasting(y)')
      <4> SUFFICES ASSUME act[a] = "spending", keeps
                   PROVE  ~Lasting(y)'
        OBVIOUS
      <4>1. kind[r] = "refresh"
        BY <1>2, <1>3, SomebodyAsked DEF Endpoint
      <4>2. family[r] \in revoked
        BY <1>2, <3>1, <4>1 DEF PresentsGood
      <4>3. QED
        BY <1>1, <1>2, <4>2 DEF Lasting
    <3>4. BringsGood(r, a)'
      BY <1>1, <1>2, <3>3 DEF BringsGood, Dead
    <3>5. QED
      BY <2>2, <3>2, <3>4
  <2>3. QED
    BY <2>1, <2>2
<1>12. QED
  BY <1>2, <1>8, <1>9, <1>10, <1>11 DEF Calm

(***************************************************************************)
(* Requests that the browser has nothing to do with come and go. At most   *)
(* the cookie is cleared.                                                  *)
(***************************************************************************)
LEMMA StrangerCalm ==
  ASSUME AlwaysInv, Calm, NEW r \in Request, sender[r] = None,
         step'[r] = "idle" \/ (step'[r] = "arrived" /\ kind'[r] = "logout all"),
         \A q \in Request : q # r =>
           step'[q] = step[q] /\ kind'[q] = kind[q] /\ token'[q] = token[q] /\ family'[q] = family[q],
         UNCHANGED <<live, familyOf, expired, revoked, suspected>>,
         UNCHANGED <<keeps, stored, act, kept, sender>>, cookie' \in {cookie, None}
  PROVE  Calm'
<1>1. \A q \in Request : sender[q] # None => q # r
  OBVIOUS
<1>2. CalmAsking'
  <2>1. expired' = {} /\ \A q \in Request : step'[q] # "failed"
    BY NobodyFails
  <2>2. \A q \in Request : sender'[q] = None /\ step'[q] # "idle" => kind'[q] = "logout all"
    <3> SUFFICES ASSUME NEW q \in Request, sender[q] = None, step'[q] # "idle"
                 PROVE  kind'[q] = "logout all"
      OBVIOUS
    <3>1. CASE q = r
      BY <3>1, Zenon
    <3>2. CASE q # r
      <4>1. step'[q] = step[q] /\ kind'[q] = kind[q]
        BY <3>2, Zenon
      <4>2. kind[q] = "logout all"
        BY <4>1, WhatIsAsked, Zenon
      <4>3. QED
        BY <4>1, <4>2, Zenon
    <3>3. QED
      BY <3>1, <3>2, Zenon
  <2>3. \A q \in Request : sender'[q] # None => kind'[q] = Endpoint(act'[sender'[q]])
    <3> SUFFICES ASSUME NEW q \in Request, sender[q] # None
                 PROVE  kind'[q] = Endpoint(act[sender[q]])
      OBVIOUS
    <3>1. kind'[q] = kind[q]
      BY <1>1, Zenon
    <3>2. kind[q] = Endpoint(act[sender[q]])
      BY WhatIsAsked, Zenon
    <3>3. QED
      BY <3>1, <3>2, Zenon
  <2>4. \A b \in Activity : act'[b] \in Asking => \E q \in Request : sender'[q] = b
    BY WhatIsAsked, Zenon
  <2>5. \A p, q \in Request :
          sender'[p] # None /\ sender'[q] # None => TabOf[sender'[p]] = TabOf[sender'[q]]
    <3>1. sender' = sender
      OBVIOUS
    <3>2. QED
      BY <3>1, SameTabNext, Zenon
  <2>6. \A b \in Activity : act'[b] # "pending"
    BY WhatIsAsked, Zenon
  <2>7. QED
    BY <2>1, <2>2, <2>3, <2>4, <2>5, <2>6, CalmAskingNext, Zenon
<1>3. CalmHolding'
  <2>1. \A x : Lasting(x)' <=> Lasting(x)
    BY Zenon DEF Lasting
  <2>2. CalmHolding
    BY DEF Calm
  <2>3. QED
    BY <2>1, <2>2, Zenon DEF CalmHolding
<1>4. CalmTokens'
  <2>1. \A q \in Request : \A doing : Rotating(q, doing) => Rotating(q, doing)'
    BY <1>1 DEF Rotating
  <2>2. Dead(cookie)' => Dead(cookie)
    BY DEF Dead, Lasting
  <2>3. /\ \A t \in Tab : Dead(stored[t])' <=> Dead(stored[t])
        /\ \A b \in Activity : Dead(kept[b])' <=> Dead(kept[b])
    BY DEF Dead, Lasting
  <2>4. CalmTokens
    BY DEF Calm
  <2>5. Dead(cookie)' => \E q \in Request : Rotating(q, {"probing", "settling"})'
    BY <2>1, <2>2, <2>4, Zenon DEF CalmTokens
  <2>6. \A t \in Tab : Dead(stored[t])' =>
          \E q \in Request : Rotating(q, {"spending"})' /\ TabOf[sender[q]] = t
    BY <2>1, <2>3, <2>4, Zenon DEF CalmTokens
  <2>7. \A b \in Activity : act[b] = "settling" /\ Dead(kept[b])' =>
          \E q \in Request : Rotating(q, {"settling"})' /\ sender[q] = b
    BY <2>1, <2>3, <2>4, Zenon DEF CalmTokens
  <2>8. QED
    BY <2>5, <2>6, <2>7 DEF CalmTokens
<1>5. CalmRequests'
  <2> SUFFICES ASSUME NEW q \in Request, sender[q] # None
               PROVE  /\ kind'[q] = "refresh" => PresentsGood(q, sender[q])'
                      /\ step'[q] = "ok" /\ kind'[q] \in {"refresh", "login"} => BringsGood(q, sender[q])'
    BY DEF CalmRequests, Pending
  <2>1. step'[q] = step[q] /\ kind'[q] = kind[q] /\ token'[q] = token[q] /\ family'[q] = family[q]
    BY <1>1
  <2>2. /\ kind[q] = "refresh" => PresentsGood(q, sender[q])
        /\ step[q] = "ok" /\ kind[q] \in {"refresh", "login"} => BringsGood(q, sender[q])
    BY DEF Calm, CalmRequests, Pending
  <2>3. kind[q] = "refresh" => PresentsGood(q, sender[q])'
    BY <2>1, <2>2 DEF PresentsGood, Dead, Lasting
  <2>4. step[q] = "ok" /\ kind[q] \in {"refresh", "login"} => BringsGood(q, sender[q])'
    <3>1. \A x : (Lasting(x)' <=> Lasting(x)) /\ (Dead(x)' <=> Dead(x))
      BY DEF Dead, Lasting
    <3>2. BringsGood(q, sender[q]) => BringsGood(q, sender[q])'
      BY <2>1, <3>1 DEF BringsGood
    <3>3. QED
      BY <2>2, <3>2, Zenon
  <2>5. QED
    BY <2>1, <2>3, <2>4
<1>6. QED
  BY <1>2, <1>3, <1>4, <1>5 DEF Calm

LEMMA ElsewhereCalm ==
  ASSUME AlwaysInv, Calm, NEW r \in Request, Elsewhere(r)
  PROVE  Calm'
<1>1. PICK x \in live : Arrive(r, "logout all", x)
  BY DEF Elsewhere
<1>2. /\ step[r] = "idle" /\ sender[r] = None
      /\ UNCHANGED <<keeps, cookie, stored, act, kept, sender>>
  BY DEF Elsewhere, tabVars, AlwaysInv, TabInv
<1>3. /\ UNCHANGED <<live, familyOf, expired, revoked, suspected>>
      /\ step'[r] = "arrived" /\ kind'[r] = "logout all"
      /\ \A q \in Request : q # r =>
           step'[q] = step[q] /\ kind'[q] = kind[q] /\ token'[q] = token[q] /\ family'[q] = family[q]
  BY <1>1 DEF Arrive, GoTo, histories, AlwaysInv, LedgerInv, TokensTypeOK
<1>4. QED
  BY <1>2, <1>3, StrangerCalm

LEMMA DiscardCalm ==
  ASSUME AlwaysInv, Calm, NEW r \in Request, Discard(r)
  PROVE  Calm'
<1>1. /\ sender[r] = None /\ Collect(r) /\ step[r] \in Replied
      /\ cookie' \in {cookie, CookieAfter(r)}
      /\ UNCHANGED <<keeps, stored, act, kept, sender>>
  BY DEF Discard, Collect, tabVars
<1>2. kind[r] = "logout all"
  <2>1. step[r] # "idle"
    BY <1>1 DEF Replied
  <2>2. QED
    BY <1>1, <2>1, SomebodyAsked
<1>3. cookie' \in {cookie, None}
  BY <1>1, <1>2 DEF CookieAfter
<1>4. /\ UNCHANGED <<live, familyOf, expired, revoked, suspected>>
      /\ step'[r] = "idle"
      /\ \A q \in Request : q # r =>
           step'[q] = step[q] /\ kind'[q] = kind[q] /\ token'[q] = token[q] /\ family'[q] = family[q]
  BY <1>1 DEF Collect, Answer, GoTo, histories, AlwaysInv, LedgerInv, TokensTypeOK
<1>5. QED
  BY <1>1, <1>3, <1>4, StrangerCalm

-------------------------------------------------------------------------------
(***************************************************************************)
(* An answer that ends what was asked: whoever heard it asks no more, and  *)
(* the others that wait are signing out.                                   *)
(***************************************************************************)
LEMMA AnswerTakenCalm ==
  ASSUME AlwaysInv, Calm, NEW r \in Request, NEW a \in Activity, Hears(r, a), Collect(r),
         \A q \in Request : q # r /\ sender[q] # None => kind[q] = "logout",
         sender'[r] = None, \A q \in Request : q # r => sender'[q] = sender[q],
         act'[a] \notin Asking \cup {"pending"},
         \A b \in Activity : b # a /\ (act[b] \in Asking \/ act'[b] \in Asking \cup {"pending"}) =>
           act'[b] = act[b],
         \A u \in Tab : u # TabOf[a] => stored'[u] = stored[u],
         ~Dead(cookie)', ~Dead(stored[TabOf[a]])', keeps => ~Lasting(stored[TabOf[a]])',
         \A u \in Tab : u # TabOf[a] /\ Lasting(stored[TabOf[a]])' => stored'[TabOf[a]] # stored[u]
  PROVE  Calm'
<1> DEFINE t == TabOf[a]
<1>1. /\ keeps' = keeps
      /\ UNCHANGED <<live, familyOf, expired, revoked, suspected>>
      /\ step'[r] = "idle"
      /\ \A q \in Request : q # r =>
           step'[q] = step[q] /\ kind'[q] = kind[q] /\ token'[q] = token[q] /\ family'[q] = family[q]
  BY DEF Hears, Collect, Answer, GoTo, histories, AlwaysInv, LedgerInv, TokensTypeOK
<1>2. \A x : (Lasting(x)' <=> Lasting(x)) /\ (Dead(x)' <=> Dead(x))
  BY <1>1 DEF Lasting, Dead
<1>3. sender[r] = a /\ a # None
  BY SessionAssumption DEF Hears, SessionAssumption
<1>4. \A b \in Activity : b # a /\ act[b] \in Asking => act[b] = "leaving"
  <2> SUFFICES ASSUME NEW b \in Activity, b # a, act[b] \in Asking
               PROVE  act[b] = "leaving"
    OBVIOUS
  <2>1. PICK q \in Request : sender[q] = b
    BY DEF Calm, CalmAsking
  <2>2. q # r /\ sender[q] # None
    BY <1>3, <2>1, SessionAssumption DEF SessionAssumption
  <2>3. kind[q] = "logout" /\ kind[q] = Endpoint(act[b])
    BY <2>1, <2>2 DEF Calm, CalmAsking
  <2>4. QED
    BY <2>3 DEF Endpoint
<1>5. \A b \in Activity : act'[b] \notin {"probing", "spending", "settling", "pending"}
  <2>1. \A b \in Activity : act[b] # "pending"
    BY DEF Calm, CalmAsking
  <2>2. QED
    BY <1>4, <2>1 DEF Asking
<1>6. \A u \in Tab : u # t => ~Dead(stored[u])
  <2> SUFFICES ASSUME NEW u \in Tab, u # t, Dead(stored[u])
               PROVE  FALSE
    OBVIOUS
  <2>1. PICK q \in Request : Rotating(q, {"spending"}) /\ TabOf[sender[q]] = u
    BY DEF Calm, CalmTokens
  <2>2. q # r /\ kind[q] = "refresh"
    BY <1>3, <2>1 DEF Rotating, Calm, CalmAsking, Endpoint
  <2>3. QED
    BY <2>1, <2>2 DEF Rotating
<1>7. CalmAsking'
  <2>1. expired' = {} /\ \A q \in Request : step'[q] # "failed"
    BY <1>1, NobodyFails
  <2>2. \A q \in Request : sender'[q] = None /\ step'[q] # "idle" => kind'[q] = "logout all"
    <3> SUFFICES ASSUME NEW q \in Request, sender'[q] = None, step'[q] # "idle"
                 PROVE  kind'[q] = "logout all"
      OBVIOUS
    <3>1. q # r /\ step'[q] = step[q] /\ kind'[q] = kind[q]
      BY <1>1
    <3>2. sender[q] = None
      BY <3>1, Zenon
    <3>3. kind[q] = "logout all"
      BY <3>1, <3>2, WhatIsAsked, Zenon
    <3>4. QED
      BY <3>1, <3>3, Zenon
  <2>3. \A q \in Request : sender'[q] # None => q # r /\ sender[q] \in Activity /\ act[sender[q]] \in Asking
    BY DEF AlwaysInv, BrowserTypeOK, TabInv
  <2>4. \A q \in Request : sender'[q] # None => sender[q] # a
    BY <1>3, <2>3 DEF AlwaysInv, TabInv
  <2>5. \A q \in Request : sender'[q] # None => sender'[q] = sender[q] /\ act'[sender[q]] = act[sender[q]]
    BY <2>3, <2>4
  <2>6. \A q \in Request : sender'[q] # None => kind'[q] = Endpoint(act'[sender'[q]])
    <3> SUFFICES ASSUME NEW q \in Request, sender'[q] # None
                 PROVE  kind'[q] = Endpoint(act'[sender'[q]])
      OBVIOUS
    <3>1. q # r /\ sender'[q] = sender[q] /\ act'[sender[q]] = act[sender[q]] /\ sender[q] # None
      BY <2>3, <2>5
    <3>2. kind'[q] = kind[q] /\ kind[q] = Endpoint(act[sender[q]])
      BY <1>1, <3>1, WhatIsAsked
    <3>3. QED
      BY <3>1, <3>2
  <2>7. \A b \in Activity : act'[b] \in Asking => \E q \in Request : sender'[q] = b
    <3> SUFFICES ASSUME NEW b \in Activity, act'[b] \in Asking
                 PROVE  \E q \in Request : sender'[q] = b
      OBVIOUS
    <3>1. b # a /\ act[b] \in Asking
      OBVIOUS
    <3>2. PICK q \in Request : sender[q] = b
      BY <3>1 DEF Calm, CalmAsking
    <3>3. QED
      BY <1>3, <3>1, <3>2
  <2>8. \A p, q \in Request : sender'[p] # None /\ sender'[q] # None =>
          TabOf[sender'[p]] = TabOf[sender'[q]]
    <3> SUFFICES ASSUME NEW p \in Request, NEW q \in Request, sender'[p] # None, sender'[q] # None
                 PROVE  TabOf[sender'[p]] = TabOf[sender'[q]]
      OBVIOUS
    <3>1. sender'[p] = sender[p] /\ sender'[q] = sender[q] /\ sender[p] # None /\ sender[q] # None
      BY <2>5
    <3>2. \A x, y \in Request : sender[x] # None /\ sender[y] # None => TabOf[sender[x]] = TabOf[sender[y]]
      BY WhatIsAsked, Zenon
    <3>3. TabOf[sender[p]] = TabOf[sender[q]]
      BY <3>1, <3>2, Zenon
    <3>4. QED
      BY <3>1, <3>3
  <2>9. \A b \in Activity : act'[b] # "pending"
    BY <1>5
  <2>10. QED
    BY <2>1, <2>2, <2>6, <2>7, <2>8, <2>9, CalmAskingNext, Zenon
<1>8. CalmHolding'
  <2>1. keeps' => \A u \in Tab : ~Lasting(stored[u])'
    BY <1>1, <1>2 DEF Calm, CalmHolding, Lasting
  <2>2. \A u, w \in Tab : Lasting(stored[u])' /\ stored'[u] = stored'[w] => u = w
    <3>1. \A u, w \in Tab : Lasting(stored[u]) /\ stored[u] = stored[w] => u = w
      BY DEF Calm, CalmHolding
    <3> SUFFICES ASSUME NEW u \in Tab, NEW w \in Tab, Lasting(stored[u])', stored'[u] = stored'[w], u # w
                 PROVE  FALSE
      OBVIOUS
    <3>2. Lasting(stored[w])'
      BY DEF Lasting
    <3>3. CASE u # t /\ w # t
      BY <1>1, <3>1, <3>3 DEF Lasting
    <3>4. CASE u = t \/ w = t
      BY <3>2, <3>4
    <3>5. QED
      BY <3>3, <3>4
  <2>3. QED
    BY <1>5, <2>1, <2>2 DEF CalmHolding
<1>9. CalmTokens'
  <2>1. \A u \in Tab : ~Dead(stored[u])'
    BY <1>1, <1>6 DEF Dead, Lasting
  <2>2. QED
    BY <1>5, <2>1 DEF CalmTokens
<1>10. CalmRequests'
  BY <1>1 DEF CalmRequests, Pending
<1>11. QED
  BY <1>1, <1>7, <1>8, <1>9, <1>10 DEF Calm

\* What somebody hears is an answer to what he asked, and no failure.
LEMMA HearsWell ==
  ASSUME AlwaysInv, Calm, NEW r \in Request, NEW a \in Activity, Hears(r, a)
  PROVE  /\ step[r] \in {"ok", "denied"} /\ kind[r] = Endpoint(act[a])
         /\ sender[r] = a /\ a # None /\ r \in Pending
         /\ step[r] = "denied" => kind[r] \in {"refresh", "login"}
<1>1. sender[r] = a /\ a # None
  BY SessionAssumption DEF Hears, SessionAssumption
<1>2. step[r] \in {"ok", "denied"}
  BY NobodyFails DEF Hears, Replied
<1>3. kind[r] = Endpoint(act[a])
  BY <1>1, Zenon DEF Calm, CalmAsking
<1>4. QED
  BY <1>1, <1>2, <1>3 DEF AlwaysInv, HandlingInv, Pending

(***************************************************************************)
(* A session that ends without abandoning anything was the only one that   *)
(* waited.                                                                 *)
(***************************************************************************)
LEMMA SessionEndsCalm ==
  ASSUME AlwaysInv, Calm, ~troubled', NEW r \in Request, NEW a \in Activity, Hears(r, a),
         Collect(r), EndSession(TabOf[a], {r}),
         kind[r] = "refresh" => step[r] = "denied", kind[r] # "login"
  PROVE  Calm'
<1> DEFINE t == TabOf[a]
           left == {q \in Pending \ {r} : TabOf[sender[q]] = t}
<1>1. /\ sender[r] = a /\ a # None /\ r \in Pending /\ step[r] \in {"ok", "denied"}
      /\ kind[r] = Endpoint(act[a])
      /\ step[r] = "denied" => kind[r] \in {"refresh", "login"}
  BY HearsWell
<1>2. /\ stored' = [stored EXCEPT ![t] = None] /\ Leave(t, "login")
      /\ sender' = [q \in Request |-> IF q \in left \cup {r} THEN None ELSE sender[q]]
      /\ troubled' = (troubled \/ left # {})
  BY DEF EndSession, Abandon
<1>3. \A q \in Request : sender[q] # None => q = r
  <2> SUFFICES ASSUME NEW q \in Request, sender[q] # None, q # r
               PROVE  FALSE
    OBVIOUS
  <2>1. TabOf[sender[q]] = t
    <3>1. \A x, y \in Request : sender[x] # None /\ sender[y] # None => TabOf[sender[x]] = TabOf[sender[y]]
      BY WhatIsAsked, Zenon
    <3>2. TabOf[sender[q]] = TabOf[sender[r]]
      BY <1>1, <3>1, Zenon
    <3>3. QED
      BY <1>1, <3>2, Zenon
  <2>2. q \in left
    BY <2>1 DEF Pending
  <2>3. QED
    BY <1>2, <2>2
<1>4. cookie' = None
  BY <1>1 DEF Hears, CookieAfter, Endpoint
<1>5. \A u \in Tab : u # t => stored'[u] = stored[u]
  BY <1>2 DEF AlwaysInv, BrowserTypeOK
<1>6. stored'[t] = None
  BY <1>2 DEF AlwaysInv, BrowserTypeOK
<1>7. \A b \in Activity : b # a => act[b] \notin Asking
  <2> SUFFICES ASSUME NEW b \in Activity, b # a, act[b] \in Asking
               PROVE  FALSE
    OBVIOUS
  <2>1. PICK q \in Request : sender[q] = b
    BY WhatIsAsked
  <2>2. QED
    BY <1>1, <1>3, <2>1, SessionAssumption DEF SessionAssumption
<1>8. \A b \in Activity : act'[b] = IF TabOf[b] = t THEN "idle" ELSE act[b]
  BY <1>2 DEF Leave
<1>9. act'[a] = "idle"
  BY <1>8
<1>10. \A b \in Activity : b # a => act'[b] \notin Asking \cup {"pending"}
  BY <1>7, <1>8, WhatIsAsked DEF Asking
<1>11. sender'[r] = None /\ \A q \in Request : q # r => sender'[q] = sender[q]
  BY <1>2, <1>3
<1>12. ~Dead(cookie)' /\ ~Dead(stored[t])' /\ ~Lasting(stored[t])'
  BY <1>4, <1>6 DEF Dead, Lasting
<1>13. QED
  BY <1>3, <1>5, <1>7, <1>9, <1>10, <1>11, <1>12, AnswerTakenCalm DEF Asking

\* A form that was waiting is alone in its tab, so nobody else waits at all.
LEMMA FormIsAlone ==
  ASSUME AlwaysInv, Calm, NEW r \in Request, sender[r] # None, act[sender[r]] \in {"login", "settling"}
  PROVE  /\ \A q \in Request : sender[q] # None => q = r
         /\ \A b \in Activity : b # sender[r] => act[b] \notin Asking
<1> DEFINE a == sender[r]
<1>1. a \in Activity /\ TabInv
  BY DEF AlwaysInv, BrowserTypeOK
<1>2. \A q \in Request : sender[q] # None => q = r
  <2> SUFFICES ASSUME NEW q \in Request, sender[q] # None
               PROVE  q = r
    OBVIOUS
  <2>1. sender[q] \in Activity /\ act[sender[q]] \in Asking
    BY DEF AlwaysInv, BrowserTypeOK, TabInv
  <2>2. TabOf[a] = TabOf[sender[q]]
    BY WhatIsAsked
  <2>3. sender[q] = a
    BY <1>1, <2>1, <2>2 DEF TabInv, Asking
  <2>4. QED
    BY <1>1, <2>3 DEF TabInv
<1>3. \A b \in Activity : b # a => act[b] \notin Asking
  <2> SUFFICES ASSUME NEW b \in Activity, b # a, act[b] \in Asking
               PROVE  FALSE
    OBVIOUS
  <2>1. PICK q \in Request : sender[q] = b
    BY WhatIsAsked
  <2>2. QED
    BY <1>2, <2>1, SessionAssumption DEF SessionAssumption
<1>4. QED
  BY <1>2, <1>3

LEMMA SignInRefusedCalm ==
  ASSUME AlwaysInv, Calm, NEW r \in Request, NEW a \in Activity, Hears(r, a), SignInRefused(r, a)
  PROVE  Calm'
<1>1. /\ sender[r] = a /\ a # None /\ step[r] = "denied" /\ kind[r] = "login"
      /\ act[a] = "login"
  BY HearsWell DEF SignInRefused, Endpoint
<1>2. /\ act' = [act EXCEPT ![a] = "idle"] /\ sender' = [sender EXCEPT ![r] = None]
      /\ Collect(r) /\ stored' = stored
  BY DEF SignInRefused, Become, Received, tabVars
<1>3. /\ \A q \in Request : sender[q] # None => q = r
      /\ \A b \in Activity : b # a => act[b] \notin Asking
  BY <1>1, FormIsAlone
<1>4. /\ act'[a] = "idle" /\ \A b \in Activity : b # a => act'[b] = act[b]
      /\ sender'[r] = None /\ \A q \in Request : q # r => sender'[q] = sender[q]
  BY <1>2 DEF AlwaysInv, BrowserTypeOK
<1>5. cookie' \in {cookie, None}
  BY <1>1 DEF Hears, CookieAfter
<1>6. ~Dead(cookie) /\ \A u \in Tab : ~Dead(stored[u])
  BY <1>1, NothingIsDead
<1>7. /\ UNCHANGED <<live, familyOf, revoked>>
      /\ keeps => ~Lasting(stored[TabOf[a]])
      /\ \A u \in Tab : u # TabOf[a] /\ Lasting(stored[TabOf[a]]) => stored[TabOf[a]] # stored[u]
  BY <1>2 DEF Collect, histories, Calm, CalmHolding
<1>8. ~Dead(cookie)'
  BY <1>5, <1>6, <1>7 DEF Dead, Lasting
<1>9. ~Dead(stored[TabOf[a]])' /\ (Lasting(stored[TabOf[a]])' <=> Lasting(stored[TabOf[a]]))
  BY <1>2, <1>6, <1>7 DEF Dead, Lasting
<1>10. QED
  BY <1>2, <1>3, <1>4, <1>7, <1>8, <1>9, AnswerTakenCalm DEF Asking

LEMMA SettledCalm ==
  ASSUME AlwaysInv, Calm, NEW r \in Request, NEW a \in Activity, Hears(r, a), Settled(r, a)
  PROVE  Calm'
<1> DEFINE t == TabOf[a]
<1>1. /\ sender[r] = a /\ a # None /\ step[r] \in {"ok", "denied"} /\ kind[r] = "refresh"
      /\ act[a] = "settling" /\ r \in Pending
  BY HearsWell DEF Settled, Endpoint
<1>2. /\ stored' = [stored EXCEPT ![t] = IF step[r] = "ok" THEN None ELSE kept[a]]
      /\ Leave(t, "checking") /\ Collect(r) /\ sender' = [sender EXCEPT ![r] = None]
  BY DEF Settled, Received
<1>3. /\ \A q \in Request : sender[q] # None => q = r
      /\ \A b \in Activity : b # a => act[b] \notin Asking
  BY <1>1, FormIsAlone
<1>4. /\ \A b \in Activity : act'[b] = IF TabOf[b] = t THEN "idle" ELSE act[b]
      /\ sender'[r] = None /\ \A q \in Request : q # r => sender'[q] = sender[q]
  BY <1>2 DEF Leave, AlwaysInv, BrowserTypeOK
<1>5. \A b \in Activity : act'[b] \notin Asking \cup {"pending"}
  BY <1>3, <1>4, WhatIsAsked DEF Asking
<1>6. /\ \A u \in Tab : u # t => stored'[u] = stored[u]
      /\ stored'[t] = IF step[r] = "ok" THEN None ELSE kept[a]
  BY <1>2 DEF AlwaysInv, BrowserTypeOK
<1>7. UNCHANGED <<live, familyOf, revoked>>
  BY <1>2 DEF Collect, histories
<1>8. cookie' = IF keeps /\ step[r] = "ok" THEN token[r] ELSE None
  BY <1>1 DEF Hears, CookieAfter
<1>9. PresentsGood(r, a) /\ (step[r] = "ok" => ~Dead(token[r]))
  BY <1>1 DEF Calm, CalmRequests, BringsGood
<1>10. ~Dead(cookie)'
  BY <1>7, <1>8, <1>9 DEF Dead, Lasting
<1>11. step[r] = "denied" => ~Dead(kept[a])
  BY <1>1, NothingIsDead
<1>12. ~Dead(stored[t])'
  BY <1>1, <1>6, <1>7, <1>11 DEF Dead, Lasting
<1>13. keeps => ~Lasting(stored[t])'
  BY <1>1, <1>6, <1>7, <1>9 DEF PresentsGood, Lasting
<1>14. \A u \in Tab : u # t /\ Lasting(stored[t])' => stored'[t] # stored[u]
  <2>1. Lasting(stored[t])' => stored'[t] = kept[a] /\ Lasting(kept[a])
    BY <1>6, <1>7 DEF Lasting
  <2>2. \A u \in Tab : Lasting(kept[a]) => kept[a] # stored[u]
    BY <1>1 DEF Calm, CalmHolding
  <2>3. QED
    BY <2>1, <2>2
<1>15. QED
  BY <1>2, <1>3, <1>4, <1>5, <1>6, <1>10, <1>12, <1>13, <1>14, AnswerTakenCalm

(***************************************************************************)
(* A refresh that succeeded: the others of the tab call again.             *)
(***************************************************************************)
LEMMA RefreshedCalm ==
  ASSUME AlwaysInv, Calm, NEW r \in Request, NEW a \in Activity, Hears(r, a),
         act[a] \in {"probing", "spending"}, step[r] = "ok",
         NEW put \in {None, token[r]}, put = token[r] => act[a] = "spending",
         stored' = [stored EXCEPT ![TabOf[a]] = put],
         Resolve(TabOf[a]), Received(r)
  PROVE  Calm'
<1> DEFINE t == TabOf[a]
<1>1. /\ sender[r] = a /\ a # None /\ kind[r] = "refresh" /\ r \in Pending
  BY HearsWell DEF Endpoint
<1>2. /\ Collect(r) /\ sender' = [sender EXCEPT ![r] = None]
      /\ \A b \in Activity : act'[b] = IF b \notin Waiters(t) THEN act[b]
                                       ELSE IF page[t] = "checking" THEN "idle" ELSE "again"
  BY DEF Received, Resolve
<1>3. \A q \in Request : q # r /\ sender[q] # None => kind[q] = "logout"
  <2> SUFFICES ASSUME NEW q \in Request, q # r, sender[q] # None
               PROVE  kind[q] = "logout"
    OBVIOUS
  <2>1. kind[q] \notin {"refresh", "login"}
    BY <1>1, OneAtATime
  <2>2. kind[q] = Endpoint(act[sender[q]])
    BY WhatIsAsked
  <2>3. QED
    BY <2>1, <2>2 DEF Endpoint
<1>4. sender'[r] = None /\ \A q \in Request : q # r => sender'[q] = sender[q]
  BY <1>2 DEF AlwaysInv, BrowserTypeOK
<1>5. act'[a] \in {"idle", "again"}
  BY <1>2 DEF Waiters, Activities, Refreshing
<1>6. \A b \in Activity : b # a /\ act[b] \in Asking => act[b] = "leaving"
  BY <1>1, AskersAreOne DEF Asking
<1>7. \A b \in Activity : b # a /\ (act[b] \in Asking \/ act'[b] \in Asking \cup {"pending"}) =>
        act'[b] = act[b]
  BY <1>2, <1>6 DEF Asking, Waiters, Refreshing
<1>8. /\ \A u \in Tab : u # t => stored'[u] = stored[u]
      /\ stored'[t] = put
  BY DEF AlwaysInv, BrowserTypeOK
<1>9. UNCHANGED <<live, familyOf, revoked>>
  BY <1>2 DEF Collect, histories
<1>10. BringsGood(r, a)
  BY <1>1 DEF Calm, CalmRequests
<1>11. cookie' \in {None, token[r]}
  BY <1>1 DEF Hears, CookieAfter
<1>12. ~Dead(cookie)' /\ ~Dead(stored[t])'
  BY <1>8, <1>9, <1>10, <1>11 DEF BringsGood, Dead, Lasting
<1>13. Lasting(stored[t])' => put = token[r] /\ act[a] = "spending" /\ Lasting(token[r])
  BY <1>8, <1>9 DEF Lasting
<1>14. keeps => ~Lasting(stored[t])'
  BY <1>10, <1>13 DEF BringsGood
<1>15. \A u \in Tab : u # t /\ Lasting(stored[t])' => stored'[t] # stored[u]
  BY <1>8, <1>10, <1>13 DEF BringsGood
<1>16. QED
  BY <1>2, <1>3, <1>4, <1>5, <1>7, <1>8, <1>12, <1>14, <1>15, AnswerTakenCalm DEF Asking

(***************************************************************************)
(* An answer that is followed by another request of the same activity: the *)
(* probe failed and the stored token is spent, or a sign-in succeeded and  *)
(* the cookie is tried.                                                    *)
(***************************************************************************)
LEMMA AskingAgain ==
  ASSUME AlwaysInv, Calm, NEW r \in Request, NEW a \in Activity, sender[r] = a, a # None,
         NEW what \in {"spending", "settling"}, act' = [act EXCEPT ![a] = what],
         NEW x, Arrive(r, "refresh", x), UNCHANGED sender
  PROVE  CalmAsking'
<1>1. /\ \A b \in Activity : b # a => act'[b] = act[b]
      /\ act'[a] = what
      /\ expired' = expired /\ step'[r] = "arrived" /\ kind'[r] = "refresh"
      /\ \A q \in Request : q # r => step'[q] = step[q] /\ kind'[q] = kind[q]
  BY DEF Arrive, GoTo, AlwaysInv, BrowserTypeOK, LedgerInv, TokensTypeOK
<1>2. expired' = {} /\ \A q \in Request : step'[q] # "failed"
  BY <1>1, NobodyFails
<1>3. \A q \in Request : sender'[q] = None /\ step'[q] # "idle" => kind'[q] = "logout all"
  <2> SUFFICES ASSUME NEW q \in Request, sender[q] = None, step'[q] # "idle"
               PROVE  kind'[q] = "logout all"
    OBVIOUS
  <2>1. q # r
    OBVIOUS
  <2>2. step'[q] = step[q] /\ kind'[q] = kind[q]
    BY <1>1, <2>1, Zenon
  <2>3. kind[q] = "logout all"
    BY <2>2, WhatIsAsked, Zenon
  <2>4. QED
    BY <2>2, <2>3, Zenon
<1>4. \A q \in Request : sender'[q] # None => kind'[q] = Endpoint(act'[sender'[q]])
  <2> SUFFICES ASSUME NEW q \in Request, sender[q] # None
               PROVE  kind'[q] = Endpoint(act'[sender[q]])
    OBVIOUS
  <2>1. CASE q = r
    BY <1>1, <2>1 DEF Endpoint
  <2>2. CASE q # r
    <3>1. sender[q] \in Activity /\ sender[q] # a
      BY <2>2 DEF AlwaysInv, BrowserTypeOK, TabInv
    <3>2. act'[sender[q]] = act[sender[q]] /\ kind'[q] = kind[q]
      BY <1>1, <2>2, <3>1
    <3>3. kind[q] = Endpoint(act[sender[q]])
      BY WhatIsAsked
    <3>4. QED
      BY <3>2, <3>3
  <2>3. QED
    BY <2>1, <2>2
<1>5. \A b \in Activity : act'[b] \in Asking => \E q \in Request : sender'[q] = b
  BY <1>1, WhatIsAsked
<1>6. \A p, q \in Request : sender'[p] # None /\ sender'[q] # None => TabOf[sender'[p]] = TabOf[sender'[q]]
  BY WhatIsAsked
<1>7. \A b \in Activity : act'[b] # "pending"
  BY <1>1, WhatIsAsked
<1>8. QED
  BY <1>2, <1>3, <1>4, <1>5, <1>6, <1>7, CalmAskingNext, Zenon

LEMMA SpendsInsteadCalm ==
  ASSUME AlwaysInv, Calm, NEW r \in Request, NEW a \in Activity, Hears(r, a),
         act[a] = "probing", step[r] # "ok", kept[a] # None,
         Become(a, "spending"), Arrive(r, "refresh", kept[a]), UNCHANGED <<stored, kept, sender>>
  PROVE  Calm'
<1> DEFINE t == TabOf[a]
<1>1. /\ sender[r] = a /\ a # None /\ kind[r] = "refresh" /\ step[r] = "denied"
  BY HearsWell DEF Endpoint
<1>2. /\ act' = [act EXCEPT ![a] = "spending"]
      /\ \A b \in Activity : b # a => act'[b] = act[b]
      /\ act'[a] = "spending"
      /\ UNCHANGED <<live, familyOf, revoked, suspected, keeps>>
      /\ step'[r] = "arrived" /\ token'[r] = kept[a]
      /\ \A q \in Request : q # r => kind'[q] = kind[q]
  BY DEF Become, Hears, Arrive, GoTo, histories, AlwaysInv, BrowserTypeOK, LedgerInv, TokensTypeOK
<1>3. cookie' = None
  BY <1>1 DEF Hears, CookieAfter
<1>4. CalmAsking'
  BY <1>1, <1>2, AskingAgain
<1>5. CalmHolding'
  BY <1>2 DEF Calm, CalmHolding, Lasting
<1>6. /\ \A u \in Tab : ~Dead(stored[u])
      /\ \A b \in Activity : act[b] = "settling" => ~Dead(kept[b])
  BY <1>1, NothingIsDead
<1>7. CalmTokens'
  BY <1>2, <1>3, <1>6 DEF CalmTokens, Dead, Lasting
<1>8. kept[a] = stored[t]
  BY DEF Calm, CalmHolding
<1>9. PresentsGood(r, a)'
  BY <1>2, <1>6, <1>8 DEF PresentsGood, Dead, Lasting
<1>10. \A q \in Request : q # r /\ sender[q] # None => kind'[q] \notin {"refresh", "login"}
  BY <1>1, <1>2, OneAtATime
<1>11. CalmRequests'
  BY <1>1, <1>2, <1>9, <1>10 DEF CalmRequests, Pending
<1>12. QED
  BY <1>2, <1>4, <1>5, <1>7, <1>11 DEF Calm

LEMMA SignedInCalm ==
  ASSUME AlwaysInv, Calm, NEW r \in Request, NEW a \in Activity, Hears(r, a), SignedIn(r, a)
  PROVE  Calm'
<1> DEFINE x == IF keeps THEN token[r] ELSE None
<1>1. /\ sender[r] = a /\ a # None /\ kind[r] = "login" /\ step[r] = "ok" /\ act[a] = "login"
      /\ r \in Pending
  BY HearsWell DEF SignedIn, Endpoint
<1>2. CookieAfter(r) = x
  BY <1>1 DEF CookieAfter
<1>3. cookie' = x
  BY <1>2 DEF Hears
<1>4. Arrive(r, "refresh", x)
  BY <1>2 DEF SignedIn
<1> HIDE DEF x
<1>5. /\ act' = [act EXCEPT ![a] = "settling"] /\ UNCHANGED <<stored, sender, keeps>>
      /\ kept' = [kept EXCEPT ![a] = token[r]]
  BY DEF SignedIn, Become, Hears
<1>6. /\ \A b \in Activity : b # a => act'[b] = act[b] /\ kept'[b] = kept[b]
      /\ act'[a] = "settling" /\ kept'[a] = token[r]
  BY <1>5 DEF AlwaysInv, BrowserTypeOK
<1>7. /\ UNCHANGED <<live, familyOf, revoked, suspected>>
      /\ step'[r] = "arrived" /\ token'[r] = x
  BY <1>4 DEF Arrive, GoTo, histories, AlwaysInv, LedgerInv, TokensTypeOK
<1>8. CalmAsking'
  BY <1>1, <1>4, <1>5, AskingAgain
<1>9. /\ \A q \in Request : sender[q] # None => q = r
      /\ \A b \in Activity : b # a => act[b] \notin Asking
  BY <1>1, FormIsAlone
<1>10. \A b \in Activity : act'[b] \in Asking => b = a
  BY <1>6, <1>9
<1>11. BringsGood(r, a)
  BY <1>1 DEF Calm, CalmRequests
<1>12. CalmHolding'
  <2>1. /\ keeps' => \A u \in Tab : ~Lasting(stored[u])'
        /\ \A u, w \in Tab : Lasting(stored[u])' /\ stored'[u] = stored'[w] => u = w
    BY <1>5, <1>7 DEF Calm, CalmHolding, Lasting
  <2>2. \A b \in Activity : act'[b] \notin {"probing", "spending"}
    BY <1>6, <1>10 DEF Asking
  <2>3. \A b \in Activity, u \in Tab : act'[b] = "settling" /\ Lasting(kept[b])' => kept'[b] # stored'[u]
    BY <1>5, <1>6, <1>7, <1>10, <1>11 DEF Asking, Lasting, BringsGood
  <2>4. QED
    BY <2>1, <2>2, <2>3 DEF CalmHolding
<1>13. ~Dead(x) /\ ~Dead(token[r])
  BY <1>11 DEF x, BringsGood, Dead, Lasting
<1>14. CalmTokens'
  <2>1. ~Dead(cookie)'
    BY <1>3, <1>7, <1>13 DEF Dead, Lasting
  <2>2. \A u \in Tab : ~Dead(stored[u])
    BY <1>1, NothingIsDead
  <2>3. \A u \in Tab : ~Dead(stored[u])'
    BY <1>5, <1>7, <2>2 DEF Dead, Lasting
  <2>4. \A b \in Activity : act'[b] = "settling" => ~Dead(kept[b])'
    BY <1>6, <1>7, <1>10, <1>13 DEF Asking, Dead, Lasting
  <2>5. QED
    BY <2>1, <2>3, <2>4 DEF CalmTokens
<1>15. PresentsGood(r, a)'
  <2>1. ~Dead(token[r])'
    BY <1>7, <1>13 DEF Dead, Lasting
  <2>2. keeps' => token'[r] = kept'[a]
    BY <1>5, <1>6, <1>7 DEF x
  <2>3. ~keeps' => token'[r] = None
    BY <1>5, <1>7 DEF x
  <2>4. QED
    BY <1>6, <1>7, <2>1, <2>2, <2>3 DEF PresentsGood
<1>16. CalmRequests'
  BY <1>1, <1>5, <1>7, <1>9, <1>15 DEF CalmRequests, Pending
<1>17. QED
  BY <1>7, <1>8, <1>12, <1>14, <1>16 DEF Calm

\* Whoever signs out is never refused: a sign-out is not denied.
LEMMA ReceiveCalm ==
  ASSUME AlwaysInv, Calm, ~troubled', NEW r \in Request, Receive(r)
  PROVE  Calm'
<1> DEFINE a == sender[r]
<1>1. a \in Activity /\ Hears(r, a)
  BY DEF Receive, Hears, AlwaysInv, BrowserTypeOK
<1>2. /\ step[r] \in {"ok", "denied"} /\ kind[r] = Endpoint(act[a])
      /\ step[r] = "denied" => kind[r] \in {"refresh", "login"}
  BY <1>1, HearsWell
<1>3. CASE RefreshedByCookie(r, a)
  <2>1. /\ act[a] = "probing" /\ step[r] = "ok" /\ stored' = [stored EXCEPT ![TabOf[a]] = None]
        /\ Resolve(TabOf[a]) /\ Received(r)
    BY <1>3 DEF RefreshedByCookie
  <2>2. token[r] # None
    BY <1>1, <1>2, <2>1, HearsWell DEF Calm, CalmRequests, BringsGood, Endpoint
  <2>3. QED
    BY <1>1, <2>1, <2>2, RefreshedCalm
<1>4. CASE RefreshedByBody(r, a)
  <2>1. /\ act[a] = "spending" /\ step[r] = "ok" /\ stored' = [stored EXCEPT ![TabOf[a]] = token[r]]
        /\ Resolve(TabOf[a]) /\ Received(r)
    BY <1>4 DEF RefreshedByBody
  <2>2. QED
    BY <1>1, <2>1, RefreshedCalm
<1>5. CASE CookieRefused(r, a)
  <2>1. act[a] = "probing" /\ step[r] # "ok"
    BY <1>5 DEF CookieRefused
  <2>2. CASE /\ kept[a] # None
             /\ Become(a, "spending") /\ Arrive(r, "refresh", kept[a])
             /\ UNCHANGED <<page, stored, leader, kept, sender, troubled>>
    BY <1>1, <2>1, <2>2, SpendsInsteadCalm
  <2>3. CASE Collect(r) /\ EndSession(TabOf[a], {r})
    BY <1>1, <1>2, <2>1, <2>3, SessionEndsCalm DEF Endpoint
  <2>4. QED
    BY <1>5, <2>2, <2>3 DEF CookieRefused
<1>6. CASE BodyRefused(r, a)
  BY <1>1, <1>2, <1>6, SessionEndsCalm DEF BodyRefused, Endpoint
<1>7. CASE SignedIn(r, a)
  BY <1>1, <1>7, SignedInCalm
<1>8. CASE SignInRefused(r, a)
  BY <1>1, <1>8, SignInRefusedCalm
<1>9. CASE Settled(r, a)
  BY <1>1, <1>9, SettledCalm
<1>10. CASE SignedOut(r, a)
  BY <1>1, <1>2, <1>10, SessionEndsCalm DEF SignedOut, Endpoint
<1>11. CASE SignOutFailed(r, a)
  BY <1>2, <1>11 DEF SignOutFailed, Endpoint
<1>12. QED
  BY <1>3, <1>4, <1>5, <1>6, <1>7, <1>8, <1>9, <1>10, <1>11 DEF Receive

-------------------------------------------------------------------------------
(***************************************************************************)
(* A page that is left while none of its requests is under way, and an     *)
(* activity that asks for nothing: neither the server nor any other tab    *)
(* sees a difference.                                                      *)
(***************************************************************************)
LEMMA QuietCalm ==
  ASSUME AlwaysInv, Calm, UNCHANGED <<ledgerVars, keeps, cookie, sender>>,
         \A b \in Activity : act[b] \in Asking \/ act'[b] \in Asking \cup {"pending"} =>
           act'[b] = act[b] /\ kept'[b] = kept[b] /\ stored'[TabOf[b]] = stored[TabOf[b]],
         \A b \in Activity : kept'[b] \in {kept[b], None},
         \A u \in Tab : stored'[u] \in {stored[u], None}
  PROVE  Calm'
<1>1. UNCHANGED <<live, familyOf, expired, step, kind, token, family, revoked, suspected>>
  BY DEF ledgerVars, histories
<1>2. \A q \in Request : sender[q] # None =>
        /\ sender[q] \in Activity /\ act'[sender[q]] = act[sender[q]]
        /\ kept'[sender[q]] = kept[sender[q]]
  BY DEF AlwaysInv, BrowserTypeOK, TabInv
<1>3. \A b \in Activity : act'[b] # "pending"
  BY WhatIsAsked
<1>4. CalmAsking'
  <2>1. \A q \in Request : sender'[q] # None => kind'[q] = Endpoint(act'[sender'[q]])
    <3> SUFFICES ASSUME NEW q \in Request, sender[q] # None
                 PROVE  kind[q] = Endpoint(act'[sender[q]])
      BY <1>1
    <3>1. act'[sender[q]] = act[sender[q]] /\ kind[q] = Endpoint(act[sender[q]])
      BY <1>2, WhatIsAsked
    <3>2. QED
      BY <3>1
  <2>2. \A b \in Activity : act'[b] \in Asking => \E q \in Request : sender'[q] = b
    BY WhatIsAsked
  <2>3. /\ expired' = {} /\ \A q \in Request : step'[q] # "failed"
    BY <1>1, NobodyFails
  <2>4. \A q \in Request : sender'[q] = None /\ step'[q] # "idle" => kind'[q] = "logout all"
    BY <1>1, WhatIsAsked
  <2>5. \A p, q \in Request : sender'[p] # None /\ sender'[q] # None => TabOf[sender'[p]] = TabOf[sender'[q]]
    <3>1. sender' = sender
      OBVIOUS
    <3>2. QED
      BY <3>1, SameTabNext, Zenon
  <2>6. QED
    BY <1>3, <2>1, <2>2, <2>3, <2>4, <2>5, CalmAskingNext, Zenon
<1>5. /\ \A u \in Tab : Lasting(stored[u])' => stored'[u] = stored[u] /\ Lasting(stored[u])
      /\ \A u \in Tab : Dead(stored[u])' => stored'[u] = stored[u] /\ Dead(stored[u])
  BY <1>1 DEF Lasting, Dead
<1>6. CalmHolding'
  <2>1. \A b \in Activity : act'[b] \in {"probing", "spending"} => kept'[b] = stored'[TabOf[b]]
    BY DEF Asking, Calm, CalmHolding
  <2>2. keeps' => \A u \in Tab : ~Lasting(stored[u])'
    BY <1>5 DEF Calm, CalmHolding
  <2>3. \A u, w \in Tab : Lasting(stored[u])' /\ stored'[u] = stored'[w] => u = w
    <3> SUFFICES ASSUME NEW u \in Tab, NEW w \in Tab, Lasting(stored[u])', stored'[u] = stored'[w]
                 PROVE  u = w
      OBVIOUS
    <3>1. Lasting(stored[w])'
      BY DEF Lasting
    <3>2. Lasting(stored[u]) /\ stored[u] = stored[w]
      BY <1>5, <3>1
    <3>3. QED
      BY <3>2 DEF Calm, CalmHolding
  <2>4. \A b \in Activity, u \in Tab : act'[b] = "settling" /\ Lasting(kept[b])' => kept'[b] # stored'[u]
    <3> SUFFICES ASSUME NEW b \in Activity, NEW u \in Tab, act'[b] = "settling", Lasting(kept[b])'
                 PROVE  kept'[b] # stored'[u]
      OBVIOUS
    <3>1. act[b] = "settling" /\ kept'[b] = kept[b]
      BY DEF Asking
    <3>2. Lasting(kept[b])
      BY <1>1, <3>1 DEF Lasting
    <3>3. kept[b] # stored[u] /\ kept[b] # None
      BY <3>1, <3>2 DEF Calm, CalmHolding, Lasting
    <3>4. QED
      BY <3>1, <3>3
  <2>5. QED
    BY <2>1, <2>2, <2>3, <2>4 DEF CalmHolding
<1>7. \A q \in Request : \A doing : Rotating(q, doing) => Rotating(q, doing)' /\ sender[q] # None
  BY <1>1, <1>2 DEF Rotating
<1>8. CalmTokens'
  <2>1. Dead(cookie)' => \E q \in Request : Rotating(q, {"probing", "settling"})'
    <3>1. Dead(cookie)' => Dead(cookie)
      BY <1>1 DEF Dead, Lasting
    <3>2. QED
      BY <1>7, <3>1 DEF Calm, CalmTokens
  <2>2. \A u \in Tab : Dead(stored[u])' =>
          \E q \in Request : Rotating(q, {"spending"})' /\ TabOf[sender'[q]] = u
    <3> SUFFICES ASSUME NEW u \in Tab, Dead(stored[u])'
                 PROVE  \E q \in Request : Rotating(q, {"spending"})' /\ TabOf[sender'[q]] = u
      OBVIOUS
    <3>1. PICK q \in Request : Rotating(q, {"spending"}) /\ TabOf[sender[q]] = u
      BY <1>5 DEF Calm, CalmTokens
    <3>2. QED
      BY <1>7, <3>1
  <2>3. \A b \in Activity : act'[b] = "settling" /\ Dead(kept[b])' =>
          \E q \in Request : Rotating(q, {"settling"})' /\ sender'[q] = b
    <3> SUFFICES ASSUME NEW b \in Activity, act'[b] = "settling", Dead(kept[b])'
                 PROVE  \E q \in Request : Rotating(q, {"settling"})' /\ sender'[q] = b
      OBVIOUS
    <3>1. act[b] = "settling" /\ kept'[b] = kept[b]
      BY DEF Asking
    <3>2. Dead(kept[b])
      BY <1>1, <3>1 DEF Dead, Lasting
    <3>3. PICK q \in Request : Rotating(q, {"settling"}) /\ sender[q] = b
      BY <3>1, <3>2 DEF Calm, CalmTokens
    <3>4. QED
      BY <1>7, <3>3
  <2>4. QED
    BY <2>1, <2>2, <2>3 DEF CalmTokens
<1>9. CalmRequests'
  <2> SUFFICES ASSUME NEW q \in Request, sender[q] # None
               PROVE  /\ kind[q] = "refresh" => PresentsGood(q, sender[q])'
                      /\ step[q] = "ok" /\ kind[q] \in {"refresh", "login"} => BringsGood(q, sender[q])'
    BY <1>1 DEF CalmRequests, Pending
  <2>1. /\ kind[q] = "refresh" => PresentsGood(q, sender[q])
        /\ step[q] = "ok" /\ kind[q] \in {"refresh", "login"} => BringsGood(q, sender[q])
    BY DEF Calm, CalmRequests, Pending
  <2>2. kind[q] = "refresh" => PresentsGood(q, sender[q])'
    BY <1>1, <1>2, <2>1 DEF PresentsGood, Dead, Lasting
  <2>3. step[q] = "ok" /\ kind[q] \in {"refresh", "login"} => BringsGood(q, sender[q])'
    <3> SUFFICES ASSUME step[q] = "ok", kind[q] \in {"refresh", "login"}
                 PROVE  BringsGood(q, sender[q])'
      OBVIOUS
    <3> DEFINE y == token[q]
    <3>1. y # None /\ ~Dead(y) /\ BringsGood(q, sender[q])
      BY <2>1 DEF BringsGood
    <3>2. QED
      BY <1>1, <1>2, <3>1 DEF BringsGood, Dead, Lasting
  <2>4. QED
    BY <2>2, <2>3
<1>10. QED
  BY <1>1, <1>4, <1>6, <1>8, <1>9 DEF Calm

\* Nobody asks in a tab that is left without being troubled.
LEMMA LeftInPeace ==
  ASSUME AlwaysInv, Calm, ~troubled', NEW t \in Tab, NEW to, Leave(t, to), Abandon(t, {})
  PROVE  /\ sender' = sender
         /\ \A b \in Activity : act[b] \in Asking \/ act'[b] \in Asking \cup {"pending"} =>
              TabOf[b] # t /\ act'[b] = act[b] /\ kept'[b] = kept[b]
         /\ \A b \in Activity : kept'[b] \in {kept[b], None}
<1>1. \A q \in Request : sender[q] # None => TabOf[sender[q]] # t
  BY DEF Abandon, Pending
<1>2. sender' = sender
  <2>1. sender' = [q \in Request |-> IF q \in {p \in Pending : TabOf[sender[p]] = t} THEN None ELSE sender[q]]
    BY DEF Abandon
  <2>2. {p \in Pending : TabOf[sender[p]] = t} = {}
    BY <1>1 DEF Pending
  <2>3. sender \in [Request -> Activity \cup {None}]
    BY DEF AlwaysInv, BrowserTypeOK
  <2>4. QED
    BY <2>1, <2>2, <2>3
<1>3. \A b \in Activity : act[b] \in Asking => TabOf[b] # t
  <2> SUFFICES ASSUME NEW b \in Activity, act[b] \in Asking
               PROVE  TabOf[b] # t
    OBVIOUS
  <2>1. PICK q \in Request : sender[q] = b
    BY WhatIsAsked
  <2>2. QED
    BY <1>1, <2>1, SessionAssumption DEF SessionAssumption
<1>4. \A b \in Activity : /\ act'[b] = IF TabOf[b] = t THEN "idle" ELSE act[b]
                          /\ kept'[b] = IF TabOf[b] = t THEN None ELSE kept[b]
  BY DEF Leave
<1>5. QED
  BY <1>2, <1>3, <1>4 DEF Asking

LEMMA RefusedCalm ==
  ASSUME AlwaysInv, Calm, ~troubled', NEW a \in Activity, Refused(a)
  PROVE  Calm'
<1>1. /\ UNCHANGED <<ledgerVars, keeps, cookie>>
      /\ stored' = [stored EXCEPT ![TabOf[a]] = None]
      /\ Leave(TabOf[a], "login") /\ Abandon(TabOf[a], {})
  BY DEF Refused, EndSession
<1>2. \A u \in Tab : /\ stored'[u] \in {stored[u], None}
                     /\ u # TabOf[a] => stored'[u] = stored[u]
  BY <1>1 DEF AlwaysInv, BrowserTypeOK
<1>3. QED
  BY <1>1, <1>2, LeftInPeace, QuietCalm

LEMMA VisitCalm ==
  ASSUME AlwaysInv, Calm, ~troubled', NEW t \in Tab, Visit(t)
  PROVE  Calm'
<1>1. /\ UNCHANGED <<ledgerVars, keeps, cookie, stored>>
      /\ Leave(t, "checking") /\ Abandon(t, {})
  BY DEF Visit
<1>2. QED
  BY <1>1, LeftInPeace, QuietCalm

\* A call, its answer, and a refresh that is joined
LEMMA NothingAskedCalm ==
  ASSUME AlwaysInv, Calm, NEW a \in Activity, act[a] \in {"idle", "calling", "again"},
         NEW what \in {"idle", "calling", "waiting"}, Become(a, what),
         UNCHANGED <<ledgerVars, keeps, cookie, stored, kept, sender>>
  PROVE  Calm'
<1>1. act'[a] = what /\ \A b \in Activity : b # a => act'[b] = act[b]
  BY DEF Become, AlwaysInv, BrowserTypeOK
<1>2. \A b \in Activity : act[b] \in Asking \/ act'[b] \in Asking \cup {"pending"} => act'[b] = act[b]
  BY <1>1 DEF Asking
<1>3. QED
  BY <1>2, QuietCalm

-------------------------------------------------------------------------------
(***************************************************************************)
(* A request that is sent without an overlap finds the tab alone with the  *)
(* server.                                                                 *)
(***************************************************************************)
LEMMA AskingAfterSending ==
  ASSUME AlwaysInv, Calm, ~troubled', NEW r \in Request, NEW a \in Activity, NEW k, NEW body,
         SentAs(r, a, k, body), act[a] \in {"idle", "calling"},
         NEW what \in Asking, k = Endpoint(what), Become(a, what)
  PROVE  /\ CalmAsking'
         /\ sender'[r] = a /\ a # None /\ \A q \in Request : q # r => sender'[q] = sender[q]
         /\ act'[a] = what /\ \A b \in Activity : b # a => act'[b] = act[b]
         /\ \A q \in Request : sender[q] # None =>
              q # r /\ sender[q] # a /\ sender[q] \in Activity /\ TabOf[sender[q]] = TabOf[a]
         /\ step'[r] = "arrived" /\ kind'[r] = k
         /\ token'[r] = IF body = None /\ k # "login" THEN cookie ELSE body
         /\ \A q \in Request : q # r =>
              step'[q] = step[q] /\ kind'[q] = kind[q] /\ token'[q] = token[q] /\ family'[q] = family[q]
         /\ UNCHANGED <<live, familyOf, expired, revoked, suspected>>
<1>1. /\ step[r] = "idle"
      /\ Arrive(r, k, IF body = None /\ k # "login" THEN cookie ELSE body)
      /\ sender' = [sender EXCEPT ![r] = a]
      /\ troubled' = (troubled \/ Overlaps(a))
      /\ act' = [act EXCEPT ![a] = what]
  BY DEF SentAs, Become
<1>2. /\ step'[r] = "arrived" /\ kind'[r] = k
      /\ token'[r] = IF body = None /\ k # "login" THEN cookie ELSE body
      /\ \A q \in Request : q # r =>
           step'[q] = step[q] /\ kind'[q] = kind[q] /\ token'[q] = token[q] /\ family'[q] = family[q]
      /\ UNCHANGED <<live, familyOf, expired, revoked, suspected>>
  BY <1>1 DEF Arrive, GoTo, histories, AlwaysInv, LedgerInv, TokensTypeOK
<1>3. /\ sender'[r] = a /\ a # None /\ \A q \in Request : q # r => sender'[q] = sender[q]
      /\ act'[a] = what /\ \A b \in Activity : b # a => act'[b] = act[b]
  BY <1>1, SessionAssumption DEF AlwaysInv, BrowserTypeOK, SessionAssumption
<1>4. \A q \in Request : sender[q] # None =>
        q # r /\ sender[q] # a /\ sender[q] \in Activity /\ TabOf[sender[q]] = TabOf[a]
  <2> SUFFICES ASSUME NEW q \in Request, sender[q] # None
               PROVE  q # r /\ sender[q] # a /\ sender[q] \in Activity /\ TabOf[sender[q]] = TabOf[a]
    OBVIOUS
  <2>1. sender[q] \in Activity /\ step[q] # "idle" /\ act[sender[q]] \in Asking
    BY DEF AlwaysInv, BrowserTypeOK, TabInv
  <2>2. TabOf[sender[q]] = TabOf[a]
    BY <1>1 DEF Overlaps, Pending
  <2>3. QED
    BY <1>1, <2>1, <2>2 DEF Asking
<1>5. CalmAsking'
  <2>1. /\ expired' = {} /\ \A q \in Request : step'[q] # "failed"
    BY <1>2, NobodyFails
  <2>2. \A q \in Request : sender'[q] = None /\ step'[q] # "idle" => kind'[q] = "logout all"
    <3> SUFFICES ASSUME NEW q \in Request, sender'[q] = None, step'[q] # "idle"
                 PROVE  kind'[q] = "logout all"
      OBVIOUS
    <3>1. q # r
      BY <1>3
    <3>2. sender[q] = None /\ step[q] # "idle" /\ kind'[q] = kind[q]
      BY <1>2, <1>3, <3>1
    <3>3. QED
      BY <3>2, WhatIsAsked
  <2>3. \A q \in Request : sender'[q] # None => kind'[q] = Endpoint(act'[sender'[q]])
    <3> SUFFICES ASSUME NEW q \in Request, sender'[q] # None
                 PROVE  kind'[q] = Endpoint(act'[sender'[q]])
      OBVIOUS
    <3>1. CASE q = r
      BY <1>2, <1>3, <3>1
    <3>2. CASE q # r
      <4>1. sender'[q] = sender[q] /\ act'[sender[q]] = act[sender[q]] /\ kind'[q] = kind[q]
        BY <1>2, <1>3, <1>4, <3>2
      <4>2. kind[q] = Endpoint(act[sender[q]])
        BY <3>2, <4>1, WhatIsAsked
      <4>3. QED
        BY <4>1, <4>2
    <3>3. QED
      BY <3>1, <3>2
  <2>4. \A b \in Activity : act'[b] \in Asking => \E q \in Request : sender'[q] = b
    <3> SUFFICES ASSUME NEW b \in Activity, act'[b] \in Asking
                 PROVE  \E q \in Request : sender'[q] = b
      OBVIOUS
    <3>1. CASE b = a
      BY <1>3, <3>1
    <3>2. CASE b # a
      <4>1. PICK q \in Request : sender[q] = b
        BY <1>3, <3>2, WhatIsAsked
      <4>2. b # None
        BY SessionAssumption DEF SessionAssumption
      <4>3. QED
        BY <1>3, <1>4, <4>1, <4>2
    <3>3. QED
      BY <3>1, <3>2
  <2>5. \A q \in Request : sender'[q] # None => TabOf[sender'[q]] = TabOf[a]
    BY <1>3, <1>4
  <2>6. \A b \in Activity : act'[b] # "pending"
    <3>1. what # "pending"
      BY DEF Asking
    <3>2. QED
      BY <1>3, <3>1, WhatIsAsked
  <2>7. QED
    BY <2>1, <2>2, <2>3, <2>4, <2>5, <2>6 DEF CalmAsking, Pending
<1>6. QED
  BY <1>2, <1>3, <1>4, <1>5

\* A tab that begins to refresh or to sign in finds that nobody else does.
LEMMA NobodyElseTrades ==
  ASSUME AlwaysInv, Calm, NEW t \in Tab,
         \A q \in Request : sender[q] # None => TabOf[sender[q]] = t,
         \A b \in Activity : TabOf[b] = t => act[b] \notin {"probing", "spending", "settling", "login"}
  PROVE  /\ \A b \in Activity : act[b] \notin {"probing", "spending", "settling", "login"}
         /\ \A q \in Request : sender[q] # None => kind[q] \notin {"refresh", "login"}
         /\ ~Dead(cookie) /\ \A u \in Tab : ~Dead(stored[u])
<1>1. \A b \in Activity : act[b] \notin {"probing", "spending", "settling", "login"}
  <2> SUFFICES ASSUME NEW b \in Activity, act[b] \in {"probing", "spending", "settling", "login"}
               PROVE  FALSE
    OBVIOUS
  <2>1. PICK q \in Request : sender[q] = b
    BY WhatIsAsked DEF Asking
  <2>2. QED
    BY <2>1, SessionAssumption DEF SessionAssumption
<1>2. \A q \in Request : sender[q] # None =>
        sender[q] \in Activity /\ act[sender[q]] = "leaving" /\ kind[q] = "logout"
  <2> SUFFICES ASSUME NEW q \in Request, sender[q] # None
               PROVE  sender[q] \in Activity /\ act[sender[q]] = "leaving" /\ kind[q] = "logout"
    OBVIOUS
  <2>1. sender[q] \in Activity /\ act[sender[q]] \in Asking
    BY DEF AlwaysInv, BrowserTypeOK, TabInv
  <2>2. act[sender[q]] = "leaving"
    BY <1>1, <2>1 DEF Asking
  <2>3. kind[q] = Endpoint(act[sender[q]])
    BY WhatIsAsked
  <2>4. QED
    BY <2>1, <2>2, <2>3 DEF Endpoint
<1>3. \A q \in Request : ~Rotating(q, {"probing", "settling"}) /\ ~Rotating(q, {"spending"})
  BY <1>2 DEF Rotating
<1>4. QED
  BY <1>1, <1>2, <1>3 DEF Calm, CalmTokens

LEMMA LeadCalm ==
  ASSUME AlwaysInv, Calm, ~troubled', NEW a \in Activity, act[a] \in {"idle", "calling"},
         page[TabOf[a]] # "login", NEW what \in {"probing", "spending"}, Become(a, what),
         NEW body \in Token \cup {None}, Send(a, "refresh", body),
         body = IF what = "probing" THEN None ELSE stored[TabOf[a]],
         what = "spending" => body # None,
         leader[TabOf[a]] = None, kept' = [kept EXCEPT ![a] = stored[TabOf[a]]],
         UNCHANGED <<keeps, cookie, stored>>
  PROVE  Calm'
<1> DEFINE t == TabOf[a]
<1>1. PICK r \in Request : SentAs(r, a, "refresh", body)
  BY SomeRequestIsSent
<1>2. what \in Asking /\ Endpoint(what) = "refresh"
  BY DEF Asking, Endpoint
<1>3. /\ CalmAsking'
      /\ sender'[r] = a /\ a # None /\ \A q \in Request : q # r => sender'[q] = sender[q]
      /\ act'[a] = what /\ \A b \in Activity : b # a => act'[b] = act[b]
      /\ \A q \in Request : sender[q] # None =>
           q # r /\ sender[q] # a /\ sender[q] \in Activity /\ TabOf[sender[q]] = TabOf[a]
      /\ step'[r] = "arrived" /\ kind'[r] = "refresh"
      /\ token'[r] = IF body = None THEN cookie ELSE body
      /\ \A q \in Request : q # r =>
           step'[q] = step[q] /\ kind'[q] = kind[q] /\ token'[q] = token[q] /\ family'[q] = family[q]
      /\ UNCHANGED <<live, familyOf, expired, revoked, suspected>>
  BY <1>1, <1>2, AskingAfterSending
<1>4. \A b \in Activity : TabOf[b] = t => act[b] \notin {"probing", "spending", "settling", "login"}
  BY SessionAssumption DEF AlwaysInv, TabInv, SessionAssumption
<1>5. /\ \A b \in Activity : act[b] \notin {"probing", "spending", "settling", "login"}
      /\ \A q \in Request : sender[q] # None => kind[q] \notin {"refresh", "login"}
      /\ ~Dead(cookie) /\ \A u \in Tab : ~Dead(stored[u])
  BY <1>3, <1>4, NobodyElseTrades
<1>6. kept'[a] = stored[t]
  BY DEF AlwaysInv, BrowserTypeOK
<1>7. \A b \in Activity : act'[b] \in {"probing", "spending", "settling", "login"} => b = a
  BY <1>3, <1>5
<1>8. CalmHolding'
  <2>1. /\ keeps' => \A u \in Tab : ~Lasting(stored[u])'
        /\ \A u, w \in Tab : Lasting(stored[u])' /\ stored'[u] = stored'[w] => u = w
    BY <1>3 DEF Calm, CalmHolding, Lasting
  <2>2. QED
    BY <1>3, <1>6, <1>7, <2>1 DEF CalmHolding
<1>9. CalmTokens'
  <2>1. ~Dead(cookie)' /\ \A u \in Tab : ~Dead(stored[u])'
    BY <1>3, <1>5 DEF Dead, Lasting
  <2>2. QED
    BY <1>3, <1>7, <2>1 DEF CalmTokens
<1>10. PresentsGood(r, a)'
  <2>1. token'[r] \in {cookie, stored[t]}
    BY <1>3
  <2>2. ~Dead(token[r])'
    BY <1>3, <1>5, <2>1 DEF Dead, Lasting
  <2>3. CASE what = "probing"
    <3>1. token'[r] = cookie
      BY <1>3, <2>3
    <3>2. ~keeps => cookie = None
      BY DEF AlwaysInv, HeldInv
    <3>3. QED
      BY <1>3, <2>2, <2>3, <3>1, <3>2 DEF PresentsGood
  <2>4. CASE what = "spending"
    <3>1. token'[r] = kept'[a] /\ token'[r] # None
      BY <1>3, <1>6, <2>4
    <3>2. QED
      BY <1>3, <2>2, <2>4, <3>1 DEF PresentsGood
  <2>5. QED
    BY <2>3, <2>4
<1>11. CalmRequests'
  <2> SUFFICES ASSUME NEW q \in Request, sender'[q] # None
               PROVE  /\ kind'[q] = "refresh" => PresentsGood(q, sender[q])'
                      /\ step'[q] = "ok" /\ kind'[q] \in {"refresh", "login"} => BringsGood(q, sender[q])'
    BY DEF CalmRequests, Pending
  <2>1. CASE q = r
    BY <1>3, <1>10, <2>1
  <2>2. CASE q # r
    BY <1>3, <1>5, <2>2
  <2>3. QED
    BY <2>1, <2>2
<1>12. suspected' = {}
  BY <1>3 DEF Calm
<1>13. QED
  BY <1>3, <1>8, <1>9, <1>11, <1>12 DEF Calm

LEMMA StartRefreshCalm ==
  ASSUME AlwaysInv, Calm, ~troubled', NEW a \in Activity, act[a] \in {"idle", "calling"},
         page[TabOf[a]] # "login", StartRefresh(a)
  PROVE  Calm'
<1> DEFINE t == TabOf[a]
<1>1. UNCHANGED <<keeps, cookie, stored>>
  BY DEF StartRefresh
<1>2. CASE Become(a, "waiting") /\ UNCHANGED <<leader, kept>> /\ SendNothing
  BY <1>1, <1>2, NothingAskedCalm DEF SendNothing
<1>3. CASE /\ leader[t] = None /\ kept' = [kept EXCEPT ![a] = stored[t]]
           /\ Become(a, "probing") /\ Send(a, "refresh", None)
  BY <1>1, <1>3, LeadCalm
<1>4. CASE /\ leader[t] = None /\ kept' = [kept EXCEPT ![a] = stored[t]] /\ stored[t] # None
           /\ Become(a, "spending") /\ Send(a, "refresh", stored[t])
  <2>1. stored[t] \in Token \cup {None}
    BY DEF AlwaysInv, BrowserTypeOK
  <2>2. QED
    BY <1>1, <1>4, <2>1, LeadCalm
<1>5. QED
  BY <1>2, <1>3, <1>4 DEF StartRefresh

LEMMA RefusedForNowCalm ==
  ASSUME AlwaysInv, Calm, ~troubled', NEW a \in Activity, RefusedForNow(a)
  PROVE  Calm'
BY StartRefreshCalm DEF RefusedForNow, AlwaysInv, TabInv

LEMMA GateCalm ==
  ASSUME AlwaysInv, Calm, ~troubled', NEW a \in Activity, Gate(a)
  PROVE  Calm'
BY GateIsIdle, StartRefreshCalm

LEMMA SignInCalm ==
  ASSUME AlwaysInv, Calm, ~troubled', NEW a \in Activity, SignIn(a)
  PROVE  Calm'
<1> DEFINE t == TabOf[a]
<1>1. /\ \A b \in Activity : TabOf[b] = TabOf[a] => act[b] = "idle"
      /\ Become(a, "login") /\ UNCHANGED <<keeps, cookie, stored, kept>>
  BY DEF SignIn, Activities, tabVars
<1>2. PICK r \in Request : SentAs(r, a, "login", None)
  BY SomeRequestIsSent DEF SignIn
<1>3. "login" \in Asking /\ Endpoint("login") = "login" /\ act[a] = "idle"
  BY <1>1 DEF Asking, Endpoint
<1>4. /\ CalmAsking'
      /\ sender'[r] = a /\ \A q \in Request : q # r => sender'[q] = sender[q]
      /\ act'[a] = "login" /\ \A b \in Activity : b # a => act'[b] = act[b]
      /\ \A q \in Request : sender[q] # None => TabOf[sender[q]] = TabOf[a]
      /\ step'[r] = "arrived" /\ kind'[r] = "login"
      /\ \A q \in Request : q # r => kind'[q] = kind[q]
      /\ UNCHANGED <<live, familyOf, revoked, suspected>>
  BY <1>1, <1>2, <1>3, AskingAfterSending
<1>5. \A b \in Activity : TabOf[b] = t => act[b] \notin {"probing", "spending", "settling", "login"}
  BY <1>1
<1>6. /\ \A b \in Activity : act[b] \notin {"probing", "spending", "settling", "login"}
      /\ \A q \in Request : sender[q] # None => kind[q] \notin {"refresh", "login"}
      /\ ~Dead(cookie) /\ \A u \in Tab : ~Dead(stored[u])
  BY <1>4, <1>5, NobodyElseTrades
<1>7. \A b \in Activity : act'[b] \notin {"probing", "spending", "settling"}
  BY <1>4, <1>6
<1>8. CalmHolding'
  <2>1. /\ keeps' => \A u \in Tab : ~Lasting(stored[u])'
        /\ \A u, w \in Tab : Lasting(stored[u])' /\ stored'[u] = stored'[w] => u = w
    BY <1>1, <1>4 DEF Calm, CalmHolding, Lasting
  <2>2. QED
    BY <1>7, <2>1 DEF CalmHolding
<1>9. CalmTokens'
  <2>1. ~Dead(cookie)' /\ \A u \in Tab : ~Dead(stored[u])'
    BY <1>1, <1>4, <1>6 DEF Dead, Lasting
  <2>2. QED
    BY <1>7, <2>1 DEF CalmTokens
<1>10. CalmRequests'
  BY <1>4, <1>6 DEF CalmRequests, Pending
<1>11. suspected' = {}
  BY <1>4 DEF Calm
<1>12. QED
  BY <1>4, <1>8, <1>9, <1>10, <1>11 DEF Calm

\* Signing out asks beside a refresh of the same tab, and touches no token.
LEMMA SignOutCalm ==
  ASSUME AlwaysInv, Calm, ~troubled', NEW a \in Activity, SignOut(a)
  PROVE  Calm'
<1> DEFINE t == TabOf[a]
<1>1. /\ act[a] = "idle" /\ Become(a, "leaving") /\ UNCHANGED <<keeps, cookie, stored, kept>>
  BY DEF SignOut, tabVars
<1>2. PICK r \in Request : SentAs(r, a, "logout", stored[t])
  BY SomeRequestIsSent DEF SignOut
<1>3. "leaving" \in Asking /\ Endpoint("leaving") = "logout"
  BY DEF Asking, Endpoint
<1>4. /\ CalmAsking'
      /\ sender'[r] = a /\ \A q \in Request : q # r => sender'[q] = sender[q]
      /\ act'[a] = "leaving" /\ \A b \in Activity : b # a => act'[b] = act[b]
      /\ \A q \in Request : sender[q] # None => q # r /\ sender[q] # a /\ sender[q] \in Activity
      /\ step'[r] = "arrived" /\ kind'[r] = "logout"
      /\ \A q \in Request : q # r =>
           step'[q] = step[q] /\ kind'[q] = kind[q] /\ token'[q] = token[q] /\ family'[q] = family[q]
      /\ UNCHANGED <<live, familyOf, revoked, suspected>>
  BY <1>1, <1>2, <1>3, AskingAfterSending
<1>5. \A q \in Request : sender[q] # None =>
        sender'[q] = sender[q] /\ act'[sender[q]] = act[sender[q]] /\ kept'[sender[q]] = kept[sender[q]]
  BY <1>1, <1>4
<1>6. \A b \in Activity : act'[b] \in {"probing", "spending", "settling"} => act[b] = act'[b]
  BY <1>4
<1>7. CalmHolding'
  BY <1>1, <1>4, <1>6 DEF Calm, CalmHolding, Lasting
<1>8. CalmTokens'
  <2>1. \A q \in Request : \A doing : Rotating(q, doing) => Rotating(q, doing)' /\ sender'[q] = sender[q]
    BY <1>4, <1>5 DEF Rotating
  <2>2. /\ Dead(cookie)' => Dead(cookie)
        /\ \A u \in Tab : Dead(stored[u])' => Dead(stored[u])
        /\ \A b \in Activity : Dead(kept[b])' => Dead(kept[b])
    BY <1>1, <1>4 DEF Dead, Lasting
  <2>3. Dead(cookie)' => \E q \in Request : Rotating(q, {"probing", "settling"})'
    BY <2>1, <2>2 DEF Calm, CalmTokens
  <2>4. \A u \in Tab : Dead(stored[u])' =>
          \E q \in Request : Rotating(q, {"spending"})' /\ TabOf[sender'[q]] = u
    BY <2>1, <2>2 DEF Calm, CalmTokens
  <2>5. \A b \in Activity : act'[b] = "settling" /\ Dead(kept[b])' =>
          \E q \in Request : Rotating(q, {"settling"})' /\ sender'[q] = b
    BY <1>6, <2>1, <2>2 DEF Calm, CalmTokens
  <2>6. QED
    BY <2>3, <2>4, <2>5 DEF CalmTokens
<1>9. CalmRequests'
  <2> SUFFICES ASSUME NEW q \in Request, sender'[q] # None, q # r
               PROVE  /\ kind'[q] = "refresh" => PresentsGood(q, sender[q])'
                      /\ step'[q] = "ok" /\ kind'[q] \in {"refresh", "login"} => BringsGood(q, sender[q])'
    BY <1>4 DEF CalmRequests, Pending
  <2>1. /\ sender[q] # None /\ sender'[q] = sender[q]
        /\ act'[sender[q]] = act[sender[q]] /\ kept'[sender[q]] = kept[sender[q]]
        /\ step'[q] = step[q] /\ kind'[q] = kind[q] /\ token'[q] = token[q] /\ family'[q] = family[q]
    BY <1>4, <1>5
  <2>2. /\ kind[q] = "refresh" => PresentsGood(q, sender[q])
        /\ step[q] = "ok" /\ kind[q] \in {"refresh", "login"} => BringsGood(q, sender[q])
    BY <2>1 DEF Calm, CalmRequests, Pending
  <2>3. kind[q] = "refresh" => PresentsGood(q, sender[q])'
    BY <1>1, <1>4, <2>1, <2>2 DEF PresentsGood, Dead, Lasting
  <2>4. step[q] = "ok" /\ kind[q] \in {"refresh", "login"} => BringsGood(q, sender[q])'
    BY <1>1, <1>4, <2>1, <2>2 DEF BringsGood, Dead, Lasting
  <2>5. QED
    BY <2>1, <2>3, <2>4
<1>10. suspected' = {}
  BY <1>4 DEF Calm
<1>11. QED
  BY <1>4, <1>7, <1>8, <1>9, <1>10 DEF Calm

-------------------------------------------------------------------------------
\* Trouble is remembered.
LEMMA TroubleLasts ==
  ASSUME [Next]_vars, troubled
  PROVE  troubled'
<1>1. CASE UNCHANGED vars
  BY <1>1 DEF vars, browserVars
<1>2. ASSUME NEW r \in Request, Serve(r)
      PROVE  troubled'
  BY <1>2 DEF Serve, browserVars
<1>3. ASSUME NEW r \in Request, Receive(r)
      PROVE  troubled'
  BY <1>3 DEF Receive, RefreshedByCookie, CookieRefused, RefreshedByBody, BodyRefused, SignedIn,
       SignInRefused, Settled, SignedOut, SignOutFailed, Received, EndSession, Abandon
<1>4. ASSUME NEW r \in Request, Lose(r) \/ Discard(r) \/ Elsewhere(r)
      PROVE  troubled'
  BY <1>4 DEF Lose, Discard, Elsewhere, EndSession, Abandon
<1>5. ASSUME NEW a \in Activity, Api(a) \/ Call(a) \/ Gate(a) \/ SignIn(a) \/ SignOut(a)
      PROVE  troubled'
  BY <1>5 DEF Api, Answered, Refused, RefusedForNow, EndSession, Abandon, StartRefresh, Send,
       SendNothing, Call, Gate, SignIn, SignOut
<1>6. ASSUME NEW t \in Tab, Visit(t)
      PROVE  troubled'
  BY <1>6 DEF Visit, Abandon
<1>7. CASE Outage
  BY <1>7 DEF Outage
<1>8. QED
  BY <1>1, <1>2, <1>3, <1>4, <1>5, <1>6, <1>7 DEF Next

\* What troubles: an outage, a handler that fails, an answer that gets lost
LEMMA LostIsTrouble ==
  ASSUME AlwaysInv, NEW r \in Request, Lose(r)
  PROVE  troubled'
<1> DEFINE a == sender[r]
           left == {q \in Pending \ {} : TabOf[sender[q]] = TabOf[a]}
<1>1. r \in left
  BY DEF Lose, Pending
<1>2. CASE EndSession(TabOf[a], {})
  BY <1>1, <1>2 DEF EndSession, Abandon
<1>3. QED
  BY <1>2 DEF Lose

LEMMA CalmStep ==
  ASSUME AlwaysInv, Calm, ~troubled', [Next]_vars
  PROVE  Calm'
<1>1. CASE UNCHANGED vars
  <2>1. UNCHANGED <<ledgerVars, keeps, cookie, stored, act, kept, sender>>
    BY <1>1 DEF vars, browserVars, tabVars
  <2>2. QED
    BY <2>1, QuietCalm
<1>2. ASSUME NEW r \in Request, Serve(r)
      PROVE  Calm'
  BY <1>2, DecodeCalm, ConsumeCalm, RevokeCalm, VerifyCalm, IssueCalm DEF Serve
<1>3. ASSUME NEW r \in Request, Receive(r) \/ Lose(r) \/ Discard(r) \/ Elsewhere(r)
      PROVE  Calm'
  BY <1>3, ReceiveCalm, LostIsTrouble, DiscardCalm, ElsewhereCalm
<1>4. ASSUME NEW a \in Activity, Answered(a) \/ Call(a)
      PROVE  Calm'
  <2>1. /\ act[a] \in {"idle", "calling", "again"}
        /\ UNCHANGED <<ledgerVars, keeps, cookie, stored, kept, sender>>
        /\ Become(a, "idle") \/ Become(a, "calling")
    BY <1>4 DEF Answered, Call, tabVars
  <2>2. QED
    BY <2>1, NothingAskedCalm
<1>5. ASSUME NEW a \in Activity, Refused(a) \/ RefusedForNow(a) \/ Gate(a) \/ SignIn(a) \/ SignOut(a)
      PROVE  Calm'
  BY <1>5, RefusedCalm, RefusedForNowCalm, GateCalm, SignInCalm, SignOutCalm
<1>6. ASSUME NEW t \in Tab, Visit(t)
      PROVE  Calm'
  BY <1>6, VisitCalm
<1>7. ~Outage
  BY DEF Outage
<1>8. QED
  BY <1>1, <1>2, <1>3, <1>4, <1>5, <1>6, <1>7 DEF Next, Api

LEMMA CalmAtStart ==
  ASSUME Init
  PROVE  Calm
<1>1. /\ expired = {} /\ suspected = {} /\ \A r \in Request : step[r] = "idle"
  BY DEF Init, LedgerInit
<1>2. /\ \A a \in Activity : act[a] = "idle"
      /\ \A r \in Request : sender[r] = None
      /\ cookie \in live \cup {None}
  BY DEF Init
<1>3. PICK t \in Tab, s \in live \cup {None} :
        stored = [u \in Tab |-> IF u = t THEN s ELSE None] /\ (s # None => ~keeps)
  BY DEF Init
<1>4. \A u \in Tab : /\ stored[u] \in live \cup {None}
                     /\ stored[u] # None => u = t /\ ~keeps
  BY <1>3
<1>5. CalmAsking
  BY <1>1, <1>2 DEF CalmAsking, Pending, Asking
<1>6. CalmHolding
  BY <1>2, <1>4 DEF CalmHolding, Lasting
<1>7. CalmTokens
  BY <1>2, <1>4 DEF CalmTokens, Dead, Lasting
<1>8. CalmRequests
  BY <1>2 DEF CalmRequests, Pending
<1>9. QED
  BY <1>1, <1>5, <1>6, <1>7, <1>8 DEF Calm

-------------------------------------------------------------------------------
(***************************************************************************)
(* The invariant of the session: what always holds, and the calm of a      *)
(* session that met no trouble.                                            *)
(***************************************************************************)
LEMMA SessionStep ==
  ASSUME SessionInv, [Next]_vars
  PROVE  SessionInv'
<1>1. AlwaysInv'
  BY AlwaysAfterStep DEF SessionInv
<1>2. ASSUME ~troubled'
      PROVE  Calm'
  BY <1>2, TroubleLasts, CalmStep DEF SessionInv
<1>3. QED
  BY <1>1, <1>2 DEF SessionInv

THEOREM SessionInvHolds == Spec => []SessionInv
<1>1. Init => SessionInv
  BY AlwaysAtStart, CalmAtStart DEF SessionInv
<1>2. SessionInv /\ [Next]_vars => SessionInv'
  BY SessionStep
<1>3. QED
  BY <1>1, <1>2, PTL DEF Spec

(***************************************************************************)
(* Whatever tabs, activities and requests there are, and however they are  *)
(* interleaved: nobody is taken for a thief and signed out everywhere,     *)
(* unless an answer was lost, a page was left while it waited, or two tabs *)
(* were at it at a time (rotate_refresh, refreshSession).                  *)
(***************************************************************************)
THEOREM OnlyTroubleIsTakenForTheft == Spec => []OnlyTroubleSignsOut
<1>1. SessionInv => OnlyTroubleSignsOut
  BY DEF SessionInv, Calm, OnlyTroubleSignsOut
<1>2. QED
  BY <1>1, SessionInvHolds, PTL

(***************************************************************************)
(* Every variable has its type: an activity waits for one answer at most,  *)
(* and who waits for the refresh of a tab waits for one of them.           *)
(***************************************************************************)
THEOREM SessionsHaveTheirType == Spec => []SessionTypeOK
<1>1. ASSUME AlwaysInv, NEW a \in Activity
      PROVE  Cardinality(Awaited(a)) <= 1
  <2>1. CASE Awaited(a) = {}
    BY <2>1, FS_EmptySet
  <2>2. CASE Awaited(a) # {}
    <3>1. PICK r \in Request : sender[r] = a
      BY <2>2 DEF Awaited
    <3>2. Awaited(a) = {r}
      BY <1>1, <3>1, SessionAssumption DEF Awaited, AlwaysInv, TabInv, SessionAssumption
    <3>3. Cardinality({r}) = 1
      BY FS_Singleton
    <3>4. QED
      BY <3>2, <3>3
  <2>3. QED
    BY <2>1, <2>2
<1>2. SessionInv => SessionTypeOK
  <2> SUFFICES ASSUME AlwaysInv
               PROVE  SessionTypeOK
    BY DEF SessionInv
  <2>1. \A t \in Tab : Waiters(t) # {} => leader[t] \in Waiters(t)
    BY DEF AlwaysInv, TabInv
  <2>2. keeps \in BOOLEAN /\ troubled \in BOOLEAN
    BY Zenon DEF AlwaysInv, BrowserTypeOK
  <2>3. TokensTypeOK /\ (cookie # None => keeps)
    BY Zenon DEF AlwaysInv, LedgerInv, HeldInv
  <2>4. QED
    BY <1>1, <2>1, <2>2, <2>3 DEF AlwaysInv, BrowserTypeOK, SessionTypeOK
<1>3. QED
  BY <1>2, SessionInvHolds, PTL

-------------------------------------------------------------------------------
(***************************************************************************)
(* The browser is a client of the ledger: what it presents was issued.     *)
(***************************************************************************)
LEMMA ArrivalIsAllowed ==
  ASSUME NEW r \in Request, NEW k \in Kind, NEW x \in Token \cup {None}, Known(x), Arrive(r, k, x)
  PROVE  LedgerNext
BY DEF LedgerNext, Known, Issued

LEMMA SendingIsAllowed ==
  ASSUME AlwaysInv, NEW a \in Activity, NEW k \in Kind, NEW body \in Token \cup {None},
         Known(body), Send(a, k, body)
  PROVE  LedgerNext
<1> DEFINE x == IF body = None /\ k # "login" THEN cookie ELSE body
<1>1. PICK r \in Request : SentAs(r, a, k, body)
  BY SomeRequestIsSent
<1>2. x \in Token \cup {None} /\ Known(x) /\ Arrive(r, k, x)
  BY <1>1 DEF SentAs, AlwaysInv, BrowserTypeOK, HeldInv
<1> HIDE DEF x
<1>3. QED
  BY <1>2, ArrivalIsAllowed

LEMMA RefreshIsAllowed ==
  ASSUME AlwaysInv, NEW a \in Activity, StartRefresh(a)
  PROVE  LedgerNext \/ UNCHANGED ledgerVars
<1> DEFINE x == stored[TabOf[a]]
<1>1. x \in Token \cup {None} /\ Known(x) /\ Known(None) /\ "refresh" \in Kind
  BY DEF AlwaysInv, BrowserTypeOK, HeldInv, Known, Kind
<1>2. SendNothing \/ Send(a, "refresh", None) \/ Send(a, "refresh", x)
  BY DEF StartRefresh
<1> HIDE DEF x
<1>3. QED
  BY <1>1, <1>2, SendingIsAllowed DEF SendNothing

LEMMA ReceiptIsAllowed ==
  ASSUME AlwaysInv, NEW r \in Request, Receive(r)
  PROVE  LedgerNext
<1> DEFINE a == sender[r]
<1>1. a \in Activity
  BY DEF Receive, AlwaysInv, BrowserTypeOK
<1>2. /\ kept[a] \in Token \cup {None} /\ Known(kept[a])
      /\ CookieAfter(r) \in Token \cup {None} /\ Known(CookieAfter(r))
      /\ "refresh" \in Kind
  BY <1>1, CookieIsKnown DEF AlwaysInv, BrowserTypeOK, HeldInv, Kind
<1>3. Collect(r) \/ Arrive(r, "refresh", kept[a]) \/ Arrive(r, "refresh", CookieAfter(r))
  BY DEF Receive, RefreshedByCookie, CookieRefused, RefreshedByBody, BodyRefused, SignedIn,
     SignInRefused, Settled, SignedOut, SignOutFailed, Received
<1>4. QED
  BY <1>2, <1>3, ArrivalIsAllowed, Zenon DEF LedgerNext

LEMMA SessionStepsTheLedger ==
  ASSUME AlwaysInv, [Next]_vars
  PROVE  [LedgerNext]_ledgerVars
<1>1. CASE UNCHANGED vars
  BY <1>1 DEF vars
<1>2. ASSUME NEW r \in Request, Serve(r)
      PROVE  LedgerNext
  <2>1. CASE Decode(r) \/ Consume(r) \/ Revoke(r) \/ Verify(r) \/ Fail(r)
    BY <2>1 DEF LedgerNext, Handle
  <2>2. CASE Unheld # {} /\ Issue(r, CHOOSE t \in Unheld : TRUE)
    <3>1. PICK t \in Token : Issue(r, t)
      BY <2>2 DEF Unheld
    <3>2. QED
      BY <3>1 DEF LedgerNext
  <2>3. QED
    BY <1>2, <2>1, <2>2 DEF Serve
<1>3. ASSUME NEW r \in Request, Receive(r)
      PROVE  LedgerNext
  BY <1>3, ReceiptIsAllowed
<1>4. ASSUME NEW r \in Request, Lose(r) \/ Discard(r)
      PROVE  LedgerNext \/ UNCHANGED ledgerVars
  BY <1>4 DEF Lose, Discard, LedgerNext
<1>5. ASSUME NEW r \in Request, Elsewhere(r)
      PROVE  LedgerNext
  <2>1. PICK x \in live : Arrive(r, "logout all", x)
    BY <1>5 DEF Elsewhere
  <2>2. x \in Token /\ Known(x) /\ "logout all" \in Kind
    BY DEF AlwaysInv, LedgerInv, TokensTypeOK, IssuedInv, Known, Kind
  <2>3. QED
    BY <2>1, <2>2, ArrivalIsAllowed
<1>6. ASSUME NEW a \in Activity, Answered(a) \/ Refused(a) \/ Call(a)
      PROVE  UNCHANGED ledgerVars
  BY <1>6 DEF Answered, Refused, Call
<1>7. ASSUME NEW a \in Activity, RefusedForNow(a) \/ Gate(a)
      PROVE  LedgerNext \/ UNCHANGED ledgerVars
  BY <1>7, RefreshIsAllowed DEF RefusedForNow, Gate
<1>8. ASSUME NEW a \in Activity, SignIn(a)
      PROVE  LedgerNext
  <2>1. Send(a, "login", None) /\ "login" \in Kind /\ Known(None)
    BY <1>8 DEF SignIn, Kind, Known
  <2>2. QED
    BY <2>1, SendingIsAllowed
<1>9. ASSUME NEW a \in Activity, SignOut(a)
      PROVE  LedgerNext
  <2> DEFINE x == stored[TabOf[a]]
  <2>1. Send(a, "logout", x) /\ "logout" \in Kind /\ Known(x) /\ x \in Token \cup {None}
    BY <1>9 DEF SignOut, Kind, AlwaysInv, BrowserTypeOK, HeldInv
  <2> HIDE DEF x
  <2>2. QED
    BY <2>1, SendingIsAllowed
<1>10. ASSUME NEW t \in Tab, Visit(t)
       PROVE  UNCHANGED ledgerVars
  BY <1>10 DEF Visit
<1>11. CASE Outage
  BY <1>11 DEF Outage, LedgerNext
<1>12. QED
  BY <1>1, <1>2, <1>3, <1>4, <1>5, <1>6, <1>7, <1>8, <1>9, <1>10, <1>11 DEF Next, Api

(***************************************************************************)
(* The browser and its server implement the ledger that meets clients of   *)
(* any kind: what is proved of that holds of every session.                *)
(***************************************************************************)
THEOREM SessionImplementsLedger == Spec => LedgerSpec
<1>1. Init => \E inherited \in SUBSET Token, past \in SUBSET Family :
                \E of \in [inherited -> Legacy] : LedgerInit(inherited, of, past)
  BY Zenon DEF Init
<1>2. SessionInv /\ [Next]_vars => [LedgerNext]_ledgerVars
  BY SessionStepsTheLedger DEF SessionInv
<1>3. QED
  BY <1>1, <1>2, SessionInvHolds, PTL DEF Spec, LedgerSpec

(***************************************************************************)
(* So a sign-in has one live token at most in every browser, however often *)
(* it refreshes, and a family that was revoked is dead.                    *)
(***************************************************************************)
THEOREM SessionsHaveOneHeir == Spec => [](OneHeir /\ RevokedIsDead)
BY SessionImplementsLedger, FamiliesHaveOneHeir, RevokedFamiliesAreDead, PTL

===============================================================================
