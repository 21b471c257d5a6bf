----------------------------- MODULE TokenFamilies -----------------------------
(***************************************************************************)
(* The refresh tokens of a generated program. A sign-in opens a family. A  *)
(* refresh token is spent when it is used and another one is issued into   *)
(* the same family; one that was spent already ends its family, and so     *)
(* does signing out. The ledger holds a row for each token that was issued *)
(* and neither spent nor revoked.                                          *)
(*                                                                         *)
(* A request is handled in steps, one statement of the database each.      *)
(* Between two of them anybody else may come, and any of them may fail.    *)
(***************************************************************************)
CONSTANTS
  Request,    \* what the server handles at a time
  Token,      \* refresh tokens; the client holds it, the ledger its jti
  Family,     \* sign-ins
  Legacy,     \* the families that stand for all sign-ins before there were any
  Subject,    \* accounts
  Owner,      \* whose sign-in a family is
  Durable,    \* DATABASE_BACKEND is postgres
  None

ASSUME LedgerAssumption ==
  /\ Legacy \subseteq Family
  /\ Owner \in [Family -> Subject]
  /\ Durable \in BOOLEAN
  /\ None \notin Token \cup Family

VARIABLES
  live,       \* the rows of _auth_refresh_tokens
  familyOf,   \* the family a token was issued into, a signed claim of it
  expired,    \* the tokens whose time is over
  opened,     \* the families there have been
  step,       \* how far the handler of a request is
  kind,       \* which endpoint it is
  token,      \* the token it was given; in the end the one it answers with
  family,     \* the family it decoded, or the one it issues into
  revoked,    \* history: the families that were revoked
  overlapped, \* history: those revoked between a spent token and its successor
  suspected   \* history: those revoked because a spent token came again

ledgerVars == <<live, familyOf, expired, opened, step, kind, token, family,
                revoked, overlapped, suspected>>
histories == <<revoked, overlapped, suspected>>

Working == {"arrived", "consume", "revoke", "issue"}
Replied == {"ok", "denied", "failed"}
Kind == {"refresh", "logout", "logout all", "login"}

TokensTypeOK ==
  /\ live \subseteq Token /\ expired \subseteq Token
  /\ familyOf \in [Token -> Family \cup {None}]
  /\ opened \subseteq Family
  /\ step \in [Request -> {"idle"} \cup Working \cup Replied]
  /\ kind \in [Request -> Kind]
  /\ token \in [Request -> Token \cup {None}]
  /\ family \in [Request -> Family \cup {None}]
  /\ revoked \subseteq opened
  /\ overlapped \subseteq revoked /\ suspected \subseteq revoked

\* The rows an earlier build left have no family; the upgrade files all of an
\* account under one, and so does _family_of with a token that has no claim.
LedgerInit(inherited, of, past) ==
  /\ live = inherited
  /\ familyOf = [t \in Token |-> IF t \in inherited THEN of[t] ELSE None]
  /\ expired = {}
  /\ opened = Legacy \cup past
  /\ step = [r \in Request |-> "idle"]
  /\ kind = [r \in Request |-> "refresh"]
  /\ token = [r \in Request |-> None]
  /\ family = [r \in Request |-> None]
  /\ revoked = {} /\ overlapped = {} /\ suspected = {}

Heirs(f) == {t \in live : familyOf[t] = f}
Rotations(f) == {r \in Request : step[r] = "issue" /\ family[r] = f}

-------------------------------------------------------------------------------
GoTo(r, next) == step' = [step EXCEPT ![r] = next]

\* What the handler of r had in hand is gone.
Answer(r, what, t) ==
  /\ GoTo(r, what)
  /\ token' = [token EXCEPT ![r] = t]
  /\ family' = [family EXCEPT ![r] = None]

\* A request for an endpoint, with body.refresh_token or else with the cookie
Arrive(r, k, t) ==
  /\ step[r] \in {"idle"} \cup Replied
  /\ GoTo(r, "arrived")
  /\ kind' = [kind EXCEPT ![r] = k]
  /\ token' = [token EXCEPT ![r] = t]
  /\ UNCHANGED <<live, familyOf, expired, opened, family, histories>>

\* What jwt.decode accepts: signed by this server, for refreshing, in time
Readable(t) == t # None /\ t \notin expired

Decode(r) ==
  /\ step[r] = "arrived" /\ kind[r] # "login"
  /\ \/ /\ Readable(token[r])
        /\ family' = [family EXCEPT ![r] = familyOf[token[r]]]
        /\ GoTo(r, IF kind[r] = "refresh" THEN "consume" ELSE "revoke")
        /\ UNCHANGED token
     \/ /\ ~Readable(token[r])
        /\ Answer(r, IF kind[r] = "refresh" THEN "denied" ELSE "ok", None)
  /\ UNCHANGED <<live, familyOf, expired, opened, kind, histories>>

Spendable(r) ==
  /\ token[r] \in live \ expired
  /\ familyOf[token[r]] = family[r]

ConsumeSelectedBefore(r) == \* mutant
  /\ step[r] = "consume"
  /\ IF Spendable(r) \/ (token[r] \notin expired /\ \E q \in Request \ {r} : token[q] = token[r])
     THEN live' = live \ {token[r]} /\ GoTo(r, "issue")
     ELSE UNCHANGED live /\ GoTo(r, "revoke")
  /\ UNCHANGED <<familyOf, expired, opened, kind, token, family, histories>>

\* DELETE ... RETURNING, or pop under the lock
Consume(r) ==
  /\ step[r] = "consume"
  /\ IF Spendable(r)
     THEN live' = live \ {token[r]} /\ GoTo(r, "issue")
     ELSE UNCHANGED live /\ GoTo(r, "revoke")
  /\ UNCHANGED <<familyOf, expired, opened, kind, token, family, histories>>

Reached(r) ==
  IF kind[r] = "logout all"
  THEN {f \in opened : Owner[f] = Owner[family[r]]}
  ELSE {family[r]}

RevokePresented(r) == \* mutant
  /\ step[r] = "revoke"
  /\ live' = live \ {token[r]}
  /\ Answer(r, IF kind[r] = "refresh" THEN "denied" ELSE "ok", None)
  /\ revoked' = revoked \cup Reached(r)
  /\ overlapped' = overlapped \cup {f \in Reached(r) : Rotations(f) # {}}
  /\ suspected' = IF kind[r] = "refresh"
                  THEN suspected \cup (Reached(r) \ revoked) ELSE suspected
  /\ UNCHANGED <<familyOf, expired, opened, kind>>

Revoke(r) ==
  /\ step[r] = "revoke"
  /\ live' = {t \in live : familyOf[t] \notin Reached(r)}
  /\ Answer(r, IF kind[r] = "refresh" THEN "denied" ELSE "ok", None)
  /\ revoked' = revoked \cup Reached(r)
  /\ overlapped' = overlapped \cup {f \in Reached(r) : Rotations(f) # {}}
  /\ suspected' = IF kind[r] = "refresh"
                  THEN suspected \cup (Reached(r) \ revoked) ELSE suspected
  /\ UNCHANGED <<familyOf, expired, opened, kind>>

\* The password is compared whether or not there is such an account.
Verify(r) ==
  /\ step[r] = "arrived" /\ kind[r] = "login"
  /\ \/ Answer(r, "denied", None) /\ UNCHANGED opened
     \/ \E f \in Family \ opened :
          /\ opened' = opened \cup {f}
          /\ family' = [family EXCEPT ![r] = f]
          /\ GoTo(r, "issue")
          /\ UNCHANGED token
  /\ UNCHANGED <<live, familyOf, expired, kind, histories>>

Issue(r, t) ==
  /\ step[r] = "issue" /\ t \notin live
  /\ live' = live \cup {t}
  /\ familyOf' = [familyOf EXCEPT ![t] = family[r]]
  /\ expired' = expired \ {t}
  /\ Answer(r, "ok", t)
  /\ UNCHANGED <<opened, kind, histories>>

Fail(r) ==
  /\ step[r] \in Working
  /\ Answer(r, "failed", None)
  /\ UNCHANGED <<live, familyOf, expired, opened, kind, histories>>

Restart ==
  /\ step' = [r \in Request |-> IF step[r] \in Working THEN "failed" ELSE step[r]]
  /\ token' = [r \in Request |-> IF step[r] \in Working THEN None ELSE token[r]]
  /\ family' = [r \in Request |-> None]
  /\ live' = IF Durable THEN live ELSE {}
  /\ UNCHANGED <<familyOf, expired, opened, kind, histories>>

Expire(t) ==
  /\ familyOf[t] # None
  /\ expired' = expired \cup {t}
  /\ UNCHANGED <<live, familyOf, opened, step, kind, token, family, histories>>

Collect(r) ==
  /\ step[r] \in Replied
  /\ Answer(r, "idle", None)
  /\ kind' = [kind EXCEPT ![r] = "refresh"]
  /\ UNCHANGED <<live, familyOf, expired, opened, histories>>

-------------------------------------------------------------------------------
Handle(r) == Decode(r) \/ Consume(r) \/ Revoke(r) \/ Verify(r) \/ Fail(r)

Issued == {t \in Token : familyOf[t] # None}

\* Clients of any kind, that may present any token there has been.
LedgerNext ==
  \/ \E r \in Request :
       \/ \E k \in Kind, t \in Issued \cup {None} : Arrive(r, k, t)
       \/ Handle(r) \/ Collect(r)
       \/ \E t \in Token : Issue(r, t)
  \/ \E t \in Token : Expire(t)
  \/ Restart

LedgerSpec ==
  /\ \E inherited \in SUBSET Token, past \in SUBSET Family :
       \E of \in [inherited -> Legacy] : LedgerInit(inherited, of, past)
  /\ [][LedgerNext]_ledgerVars

-------------------------------------------------------------------------------
\* However many requests present a token at the same time, a sign-in has one
\* live token at most, or one that is about to be issued (consume).
OneHeir ==
  \A f \in Family \ Legacy :
    /\ \A s, t \in Heirs(f) : s = t
    /\ \A q, r \in Rotations(f) : q = r
    /\ Heirs(f) = {} \/ Rotations(f) = {}

\* A family that was revoked stays dead, unless a token of it had been spent
\* and its successor was not issued yet (revoke_family, revoke_subject).
RevokedIsDead ==
  \A f \in revoked \ overlapped : Heirs(f) = {} /\ Rotations(f) = {}

\* A family that was revoked stays dead (docstrings of issue_tokens and logout).
RevokingReachesAll == \A f \in revoked : Heirs(f) = {}

===============================================================================
