-------------------------------- MODULE Session --------------------------------
(***************************************************************************)
(* The session of a user in a browser: the tabs of a generated frontend,   *)
(* the cookie they share, and the requests they make of the server, which  *)
(* handles them as TokenFamilies says. Each tab trades its refresh token   *)
(* for a new one when a page is loaded and when a call is refused.         *)
(*                                                                         *)
(* An activity is one asynchronous call of the page: the gate, a request   *)
(* of a component, a sign-in or a sign-out.                                *)
(***************************************************************************)
EXTENDS TokenFamilies, Integers, FiniteSets

CONSTANTS
  Tab,
  Activity,
  TabOf,      \* where an activity runs
  CookieWorks,\* whether this browser keeps the cookie: may be TRUE, FALSE or either
  MaxMishaps, \* bound on lost answers, failures and pages left in the middle
  MaxOthers   \* bound on what other devices do

ASSUME SessionAssumption ==
  /\ TabOf \in [Activity -> Tab]
  /\ CookieWorks \subseteq BOOLEAN
  /\ None \notin Activity
  /\ MaxMishaps \in Nat /\ MaxOthers \in Nat

VARIABLES
  keeps,      \* whether the browser keeps the cookie
  cookie,     \* the refresh token in it
  page,       \* what a tab shows; a closed one stays closed
  mode,       \* cookieRefresh: null, true or false
  stored,     \* the refresh token in sessionStorage
  leader,     \* refreshInFlight: the activity that runs the refresh
  act,        \* what an activity waits for
  kept,       \* the refresh token it holds meanwhile
  sender,     \* the activity that waits for the answer to a request
  mishaps, others, \* how many there were
  troubled    \* history: an answer got lost, a page was left, or tabs overlapped

counts == <<mishaps, others>>
tabVars == <<page, mode, stored, leader>>
browserVars == <<keeps, cookie, tabVars, act, kept, sender, counts, troubled>>
vars == <<ledgerVars, browserVars>>

Refreshing == {"waiting", "probing", "spending"}
Busy == Refreshing \cup {"calling", "again", "login", "settling", "leaving"}

Activities(t) == {a \in Activity : TabOf[a] = t}
Waiters(t) == {a \in Activities(t) : act[a] \in Refreshing}
Awaited(a) == {r \in Request : sender[r] = a}
Pending == {r \in Request : sender[r] # None}

SessionTypeOK ==
  /\ TokensTypeOK
  /\ keeps \in BOOLEAN /\ troubled \in BOOLEAN
  /\ mishaps \in 0..MaxMishaps /\ others \in 0..MaxOthers
  /\ cookie \in Token \cup {None} /\ (cookie # None => keeps)
  /\ page \in [Tab -> {"closed", "login", "checking", "ready"}]
  /\ mode \in [Tab -> {"unknown", "cookie", "body"}]
  /\ stored \in [Tab -> Token \cup {None}]
  /\ leader \in [Tab -> Activity \cup {None}]
  /\ act \in [Activity -> {"idle", "pending"} \cup Busy]
  /\ kept \in [Activity -> Token \cup {None}]
  /\ sender \in [Request -> Activity \cup {None}]
  /\ \A t \in Tab : Waiters(t) # {} => leader[t] \in Waiters(t)
  /\ \A a \in Activity : Cardinality(Awaited(a)) <= 1

\* A tab may be open with a token from before there were families.
Init ==
  /\ keeps \in CookieWorks
  /\ \E past \in SUBSET Family, old \in SUBSET Token : \E of \in [old -> Legacy] :
       LedgerInit(old, of, past)
  /\ cookie \in live \cup {None} /\ (cookie # None => keeps)
  /\ \E t \in Tab, s \in live \cup {None} :
       /\ stored = [u \in Tab |-> IF u = t THEN s ELSE None]
       /\ s # None => ~keeps
  /\ page \in [Tab -> {"login", "closed"}]
  /\ mode = [t \in Tab |-> "unknown"]
  /\ leader = [t \in Tab |-> None]
  /\ act = [a \in Activity |-> "idle"]
  /\ kept = [a \in Activity |-> None]
  /\ sender = [r \in Request |-> None]
  /\ mishaps \in 0..MaxMishaps /\ others \in 0..MaxOthers
  /\ troubled = FALSE

-------------------------------------------------------------------------------
\* uuid4().hex is an id that nobody holds.
Held == {cookie} \cup {stored[t] : t \in Tab} \cup {kept[a] : a \in Activity}
          \cup {token[r] : r \in {q \in Request : step[q] # "idle"}}
Unheld == {t \in Token : t \notin Held \cup live}

Become(a, what) == act' = [act EXCEPT ![a] = what]

Overlaps(a) == \E q \in Pending : TabOf[sender[q]] # TabOf[a]

\* fetch, with credentials: the cookie goes with it and is used without a body
Send(a, k, body) ==
  LET free == {q \in Request : step[q] = "idle"}
      r == CHOOSE q \in free : TRUE IN
  /\ free # {}
  /\ Arrive(r, k, IF body = None /\ k # "login" THEN cookie ELSE body)
  /\ sender' = [sender EXCEPT ![r] = a]
  /\ troubled' = (troubled \/ Overlaps(a))

SendNothing == UNCHANGED <<ledgerVars, sender, troubled>>

\* A full navigation: the memory of the page and whatever it waits for are gone.
Leave(t, to) ==
  /\ page' = [page EXCEPT ![t] = to]
  /\ mode' = [mode EXCEPT ![t] = "unknown"]
  /\ leader' = [leader EXCEPT ![t] = None]
  /\ act' = [a \in Activity |-> IF TabOf[a] = t THEN "idle" ELSE act[a]]
  /\ kept' = [a \in Activity |-> IF TabOf[a] = t THEN None ELSE kept[a]]

Abandon(t, except) ==
  LET left == {r \in Pending \ except : TabOf[sender[r]] = t} IN
  /\ sender' = [r \in Request |-> IF r \in left \cup except THEN None ELSE sender[r]]
  /\ troubled' = (troubled \/ left # {})

\* clearSession and the way to the sign-in page
EndSession(t, except) ==
  /\ stored' = [stored EXCEPT ![t] = None]
  /\ Leave(t, "login")
  /\ Abandon(t, except)

-------------------------------------------------------------------------------
StartRefreshAlone(a) == \* mutant
  LET t == TabOf[a] IN
  /\ UNCHANGED <<keeps, cookie, page, mode, stored, counts>>
  /\ leader' = [leader EXCEPT ![t] = a]
  /\ kept' = [kept EXCEPT ![a] = stored[t]]
  /\ \/ mode[t] # "body" /\ Become(a, "probing") /\ Send(a, "refresh", None)
     \/ mode[t] = "body" /\ stored[t] # None /\ Become(a, "spending")
          /\ Send(a, "refresh", stored[t])

\* What refreshSession begins with; a second caller joins the first.
StartRefresh(a) ==
  LET t == TabOf[a] IN
  /\ UNCHANGED <<keeps, cookie, page, mode, stored, counts>>
  /\ \/ /\ leader[t] # None
        /\ Become(a, "waiting")
        /\ UNCHANGED <<leader, kept>> /\ SendNothing
     \/ /\ leader[t] = None
        /\ leader' = [leader EXCEPT ![t] = a]
        /\ kept' = [kept EXCEPT ![a] = stored[t]]
        /\ \/ mode[t] # "body" /\ Become(a, "probing") /\ Send(a, "refresh", None)
           \/ mode[t] = "body" /\ stored[t] # None /\ Become(a, "spending")
                /\ Send(a, "refresh", stored[t])

\* Body mode without a token: refreshSession resolves to false at once.
NothingToSpend(t) == leader[t] = None /\ mode[t] = "body" /\ stored[t] = None

\* The refresh of a tab is over, and whoever waited for it goes on.
Resolve(t) ==
  /\ leader' = [leader EXCEPT ![t] = None]
  /\ page' = [page EXCEPT ![t] = "ready"]
  /\ act' = [a \in Activity |->
       IF a \notin Waiters(t) THEN act[a]
       ELSE IF page[t] = "checking" THEN "idle" ELSE "again"]
  /\ kept' = [a \in Activity |-> IF a \in Waiters(t) THEN None ELSE kept[a]]

\* The Set-Cookie header of an answer
CookieAfter(r) ==
  IF ~keeps THEN None
  ELSE IF step[r] = "ok" /\ kind[r] \in {"refresh", "login"} THEN token[r]
  ELSE IF step[r] = "ok" \/ (step[r] = "denied" /\ kind[r] = "refresh") THEN None
  ELSE cookie

Received(r) == Collect(r) /\ sender' = [sender EXCEPT ![r] = None] /\ UNCHANGED troubled

RefreshedByCookie(r, a) ==
  /\ act[a] = "probing" /\ step[r] = "ok"
  /\ mode' = [mode EXCEPT ![TabOf[a]] = "cookie"]
  /\ stored' = [stored EXCEPT ![TabOf[a]] = None]
  /\ Resolve(TabOf[a]) /\ Received(r)

CookieRefused(r, a) ==
  /\ act[a] = "probing" /\ step[r] # "ok"
  /\ \/ /\ kept[a] # None
        /\ mode' = [mode EXCEPT ![TabOf[a]] = "body"]
        /\ Become(a, "spending") /\ Arrive(r, "refresh", kept[a])
        /\ UNCHANGED <<page, stored, leader, kept, sender, troubled>>
     \/ kept[a] = None /\ Collect(r) /\ EndSession(TabOf[a], {r})

RefreshedByBody(r, a) ==
  /\ act[a] = "spending" /\ step[r] = "ok"
  /\ stored' = [stored EXCEPT ![TabOf[a]] = token[r]]
  /\ Resolve(TabOf[a]) /\ Received(r)
  /\ UNCHANGED mode

BodyRefused(r, a) ==
  /\ act[a] = "spending" /\ step[r] # "ok"
  /\ Collect(r) /\ EndSession(TabOf[a], {r})

\* The sign-in asks at once for a refresh without a body, to see whether the
\* cookie works; a token it holds meanwhile is stored only if it does not.
SignedIn(r, a) ==
  /\ act[a] = "login" /\ step[r] = "ok"
  /\ kept' = [kept EXCEPT ![a] = token[r]]
  /\ Become(a, "settling") /\ Arrive(r, "refresh", CookieAfter(r))
  /\ troubled' = (troubled \/ Overlaps(a))
  /\ UNCHANGED <<page, mode, stored, leader, sender>>

SignInRefused(r, a) ==
  /\ act[a] = "login" /\ step[r] # "ok"
  /\ Become(a, "idle") /\ Received(r)
  /\ UNCHANGED <<tabVars, kept>>

Settled(r, a) ==
  /\ act[a] = "settling"
  /\ stored' = [stored EXCEPT ![TabOf[a]] = IF step[r] = "ok" THEN None ELSE kept[a]]
  /\ Leave(TabOf[a], "checking") /\ Received(r)

SignedOut(r, a) ==
  /\ act[a] = "leaving" /\ step[r] = "ok"
  /\ Collect(r) /\ EndSession(TabOf[a], {r})

SignOutFailed(r, a) ==
  /\ act[a] = "leaving" /\ step[r] # "ok"
  /\ Become(a, "idle") /\ Received(r)
  /\ UNCHANGED <<tabVars, kept>>

Receive(r) ==
  /\ step[r] \in Replied /\ sender[r] # None
  /\ cookie' = CookieAfter(r) /\ UNCHANGED <<keeps, counts>>
  /\ LET a == sender[r] IN
       \/ RefreshedByCookie(r, a) \/ CookieRefused(r, a)
       \/ RefreshedByBody(r, a) \/ BodyRefused(r, a)
       \/ SignedIn(r, a) \/ SignInRefused(r, a) \/ Settled(r, a)
       \/ SignedOut(r, a) \/ SignOutFailed(r, a)

Mishap == mishaps < MaxMishaps /\ mishaps' = mishaps + 1 /\ UNCHANGED others

\* fetch throws, whatever the server makes of the request. refreshSession keeps
\* the tokens and resolves to false, but whoever awaits it ends the session.
\* The form that signs in never hears of a probe that throws.
Lose(r) ==
  /\ sender[r] # None /\ Mishap
  /\ LET a == sender[r] IN
       \/ act[a] \in {"probing", "spending"} /\ EndSession(TabOf[a], {})
       \/ /\ act[a] \in {"login", "settling", "leaving"}
          /\ Become(a, IF act[a] = "settling" THEN "pending" ELSE "idle")
          /\ sender' = [sender EXCEPT ![r] = None]
          /\ troubled' = TRUE
          /\ UNCHANGED <<tabVars, kept>>
  /\ UNCHANGED <<ledgerVars, keeps, cookie>>

\* An answer nobody waits for; its cookie may have been set.
Discard(r) ==
  /\ sender[r] = None /\ Collect(r)
  /\ cookie' \in {cookie, CookieAfter(r)}
  /\ UNCHANGED <<keeps, tabVars, act, kept, sender, counts, troubled>>

-------------------------------------------------------------------------------
\* Only so many requests are under way: a user waits until there is room.
Room == Cardinality({r \in Request : step[r] = "idle"})
          > Cardinality({a \in Activity : act[a] # "idle" /\ Awaited(a) = {}})

Call(a) ==
  /\ Room /\ page[TabOf[a]] = "ready" /\ act[a] = "idle"
  /\ Become(a, "calling")
  /\ UNCHANGED <<ledgerVars, keeps, cookie, tabVars, kept, sender, counts, troubled>>

\* Any answer but a 401, or none
Answered(a) ==
  /\ act[a] \in {"calling", "again"}
  /\ Become(a, "idle")
  /\ UNCHANGED <<ledgerVars, keeps, cookie, tabVars, kept, sender, counts, troubled>>

Refused(a) ==
  /\ UNCHANGED <<ledgerVars, keeps, cookie, counts>>
  /\ \/ act[a] = "again"
     \/ act[a] = "calling" /\ NothingToSpend(TabOf[a])
  /\ EndSession(TabOf[a], {})

RefusedForever(a) == \* mutant
  act[a] \in {"calling", "again"} /\ ~NothingToSpend(TabOf[a]) /\ StartRefresh(a)

RefusedForNow(a) == act[a] = "calling" /\ ~NothingToSpend(TabOf[a]) /\ StartRefresh(a)

\* The gate of a page that was just loaded
Gate(a) ==
  LET t == TabOf[a] IN
  /\ page[t] = "checking" /\ Waiters(t) = {}
  /\ a = CHOOSE b \in Activities(t) : act[b] = "idle"
  /\ StartRefresh(a)

SignIn(a) ==
  LET t == TabOf[a] IN
  /\ Room /\ page[t] = "login" /\ \A b \in Activities(t) : act[b] = "idle"
  /\ Become(a, "login")
  /\ Send(a, "login", None)
  /\ UNCHANGED <<keeps, cookie, tabVars, kept, counts>>

SignOut(a) ==
  LET t == TabOf[a] IN
  /\ Room /\ page[t] = "ready" /\ \A b \in Activities(t) : act[b] # "leaving"
  /\ act[a] = "idle" /\ Become(a, "leaving")
  /\ Send(a, "logout", stored[t])
  /\ UNCHANGED <<keeps, cookie, tabVars, kept, counts>>

\* The user opens or reloads a page.
Visit(t) ==
  /\ Room /\ page[t] # "closed"
  /\ Leave(t, "checking") /\ Abandon(t, {})
  /\ IF \E r \in Pending : TabOf[sender[r]] = t THEN Mishap ELSE UNCHANGED counts
  /\ UNCHANGED <<ledgerVars, keeps, cookie, stored>>

Serve(r) ==
  \/ (Decode(r) \/ Consume(r) \/ Revoke(r) \/ Verify(r)) /\ UNCHANGED browserVars
  \/ Unheld # {} /\ Issue(r, CHOOSE t \in Unheld : TRUE) /\ UNCHANGED browserVars
  \/ Fail(r) /\ Mishap /\ troubled' = TRUE /\ UNCHANGED <<keeps, cookie, tabVars, act, kept, sender>>

\* The server dies and comes back, or a month passes.
Outage ==
  /\ Mishap /\ troubled' = TRUE
  /\ Restart \/ \E t \in Token : Expire(t)
  /\ UNCHANGED <<keeps, cookie, tabVars, act, kept, sender>>

\* Another client signs out of all devices, with a token of its own.
Elsewhere(r) ==
  /\ others < MaxOthers /\ others' = others + 1 /\ UNCHANGED mishaps
  /\ step[r] = "idle"
  /\ \E t \in live \ Held : Arrive(r, "logout all", t)
  /\ UNCHANGED <<keeps, cookie, tabVars, act, kept, sender, troubled>>

Api(a) == Answered(a) \/ Refused(a) \/ RefusedForNow(a)

Next ==
  \/ \E r \in Request : Serve(r) \/ Receive(r) \/ Lose(r) \/ Discard(r) \/ Elsewhere(r)
  \/ \E a \in Activity : Api(a) \/ Call(a) \/ Gate(a) \/ SignIn(a) \/ SignOut(a)
  \/ \E t \in Tab : Visit(t)
  \/ Outage

\* The server and the network answer in the end, and a browser goes on.
Fairness ==
  /\ \A r \in Request : WF_vars(Serve(r) \/ Receive(r) \/ Discard(r))
  /\ \A a \in Activity : WF_vars(Api(a) \/ Gate(a))

Spec == Init /\ [][Next]_vars /\ Fairness

-------------------------------------------------------------------------------
\* Nobody is taken for a thief (rotate_refresh) because his page is busy: a
\* spent token comes again only after a lost answer, after a page was left in
\* the middle, or when two tabs were at it at a time.
OnlyTroubleSignsOut == suspected # {} => troubled

\* Whoever calls, signs in or signs out hears of it (request tries again once;
\* refreshSession resolves). The form whose probe was lost is "pending".
EverybodyHears == \A a \in Activity : act[a] \in Busy ~> act[a] \notin Busy

================================================================================
