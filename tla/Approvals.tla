------------------------------- MODULE Approvals -------------------------------
(***************************************************************************)
(* Who may approve or reject a fix over HTTP, and how often                *)
(* (healer/security.py, the control plane of healer/api/server.py).        *)
(*                                                                         *)
(* A notification carries a signed link to the page of a ticket. The page  *)
(* carries, for each of the two actions, a single-use action token (when   *)
(* signed tokens are configured) and a CSRF token for whoever reads it.    *)
(* A request authenticates, shows its CSRF token, burns the nonce of its   *)
(* action token and only then looks at the ticket. The server processes    *)
(* share the ticket database and the configured secrets; without a         *)
(* configured secret each process signs CSRF tokens with one of its own,   *)
(* which it loses when it dies.                                            *)
(*                                                                         *)
(* A page stands for the tokens it carries: the signature, type, ticket    *)
(* and action of a token are what its page and action are. What an         *)
(* approval goes on to do is in HealerPipeline.                            *)
(***************************************************************************)
EXTENDS Integers, Sequences, FiniteSets

CONSTANTS
  Server,      \* processes that serve the control plane
  Ticket,
  Person,      \* identities an authenticating proxy vouches for
  Link,        \* the principal of a link minted for nobody in particular
  Static,      \* the principal of the operator token
  Nobody,
  Configuration,   \* the sets of credential schemes that may be configured
  LinkTTL,     \* lifetime of the link in a notification
  FormTTL,     \* lifetime of the tokens in a page
  MaxClock,     \* bound on the clock
  MaxPages,    \* bound on the pages rendered
  MaxDeaths    \* bound on the processes that die

ASSUME ApprovalsAssumption ==
  /\ {Link, Static, Nobody} \cap Person = {} /\ Cardinality({Link, Static, Nobody}) = 3
  /\ Configuration \subseteq SUBSET {"signed", "operator", "proxy"}
  /\ {LinkTTL, FormTTL, MaxClock, MaxPages, MaxDeaths} \subseteq Nat

VARIABLES
  schemes,     \* the credential schemes configured
  status,      \* the status of each ticket
  links,       \* view tokens that went out
  pages,       \* pages with forms, in the order they were rendered
  burnt,       \* the consumed_tokens table
  request,     \* what each process is serving
  boots,       \* how often each process has been replaced
  now,
  decisions,   \* history: what was decided through the control plane
  told         \* history: the last answer to a form

approvalVars ==
  <<schemes, status, links, pages, burnt, request, boots, now, decisions, told>>

Mutating  == {"approve", "reject"}
Principal == Person \cup {Link, Static}
Token     == [page : 1..MaxPages, act : Mutating]
Statuses  == {"analyzing", "proposed", "approved", "rejected", "failed"}

Page == [ticket : Ticket, to : Principal, exp : Nat, key : Server \X Nat \cup {Nobody}]

Request ==
  [ticket : Ticket, act : Mutating, by : Principal, page : 0..MaxPages,
   token : Token \cup {Nobody}, form : BOOLEAN, found : BOOLEAN]

ASSUME NobodyAssumption == Nobody \notin Request \cup Token

ApprovalsTypeOK ==
  /\ schemes \subseteq {"signed", "operator", "proxy"}
  /\ status \in [Ticket -> Statuses]
  /\ links \subseteq [ticket : Ticket, exp : Nat]
  /\ pages \in Seq(Page)
  /\ burnt \subseteq Token
  /\ request \in [Server -> Request \cup {Nobody}]
  /\ boots \in [Server -> Nat]
  /\ now \in Nat

ApprovalsInit ==
  /\ schemes \in Configuration
  /\ status = [t \in Ticket |-> "analyzing"]
  /\ links = {} /\ pages = <<>> /\ burnt = {} /\ told = Nobody
  /\ request = [s \in Server |-> Nobody]
  /\ boots = [s \in Server |-> 0]
  /\ now = 0 /\ decisions = <<>>

-------------------------------------------------------------------------------
(***************************************************************************)
(* The worker offers a fix, or gives up, and notifies: the link is good    *)
(* for viewing only, and for nobody in particular.                         *)
(***************************************************************************)
ViewLinks(t, ttl) ==
  IF "signed" \in schemes THEN {[ticket |-> t, exp |-> now + ttl]} ELSE {}

Offer(t) ==
  /\ status[t] = "analyzing"
  /\ \E s \in {"proposed", "failed"} : status' = [status EXCEPT ![t] = s]
  /\ links' = links \cup ViewLinks(t, LinkTTL)
  /\ UNCHANGED <<schemes, pages, burnt, request, boots, now, decisions, told>>

(***************************************************************************)
(* The chain of authenticators, for a request that shows a credential c    *)
(* besides its action token, if any. A signed token that does not verify   *)
(* ends the chain: `who` is then Nobody, as it is when nobody answers.     *)
(***************************************************************************)
ByStanding(c) ==
  IF c = Static /\ "operator" \in schemes THEN Static
  ELSE IF c \in Person /\ "proxy" \in schemes THEN c ELSE Nobody

Secret(s) ==
  IF schemes \cap {"signed", "operator"} = {} THEN <<s, boots[s]>> ELSE Nobody

(***************************************************************************)
(* Somebody opens the page of a ticket, by a link or a standing            *)
(* credential. Only the page of an offered fix has forms.                  *)
(***************************************************************************)
View(s, t) ==
  /\ request[s] = Nobody /\ Len(pages) < MaxPages
  /\ status[t] = "proposed"
  /\ \E p \in Principal :
       /\ \/ p = Link /\ \E l \in links : l.ticket = t /\ l.exp > now
          \/ p = ByStanding(p)
       /\ pages' = Append(pages, [ticket |-> t, to |-> p, exp |-> now + FormTTL,
                                  key |-> Secret(s)])
  /\ UNCHANGED <<schemes, status, links, burnt, request, boots, now, decisions, told>>

-------------------------------------------------------------------------------
(***************************************************************************)
(* _authorize, for a mutation. An action token names the principal its     *)
(* page was rendered for. CSRF is asked of forms and of identities that a  *)
(* browser attaches by itself. Only then is the nonce burned.              *)
(***************************************************************************)
PassesCsrf(s, t, m, who) ==
  /\ m # 0
  /\ pages[m].ticket = t /\ pages[m].to = who
  /\ pages[m].exp > now /\ pages[m].key = Secret(s)

Burn(token) ==
  /\ token \notin burnt
  /\ burnt' = IF token = Nobody THEN burnt ELSE burnt \cup {token}

(***************************************************************************)
(* Whom a request is from that shows the action token of page n (0: none)  *)
(* and a standing credential c. A token that does not verify ends it.      *)
(***************************************************************************)
Actor(t, n, c) ==
  IF n = 0 THEN ByStanding(c)
  ELSE IF pages[n].ticket = t /\ pages[n].exp > now THEN pages[n].to
  ELSE Nobody

TokenOf(n, act) == IF n = 0 THEN Nobody ELSE [page |-> n, act |-> act]

ActionTokens == IF "signed" \in schemes THEN DOMAIN pages ELSE {}

NeedsCsrf(t, n, c, form) ==
  form \/ (n = 0 /\ Actor(t, n, c) \in Person)

Accepted(s, t, act, n, m, c, form) ==
  request' = [request EXCEPT ![s] =
    [ticket |-> t, act |-> act, by |-> Actor(t, n, c),
     page |-> IF n # 0 THEN n ELSE IF NeedsCsrf(t, n, c, form) THEN m ELSE 0,
     token |-> TokenOf(n, act),
     form |-> form, found |-> FALSE]]

\* mutant: the nonce is burned before the CSRF token is looked at.
SubmitBurningFirst(s, t, act, n, m, c, form) ==
  /\ request[s] = Nobody
  /\ Actor(t, n, c) # Nobody
  /\ Burn(TokenOf(n, act))
  /\ IF NeedsCsrf(t, n, c, form) /\ ~PassesCsrf(s, t, m, Actor(t, n, c))
     THEN UNCHANGED request
     ELSE Accepted(s, t, act, n, m, c, form)
  /\ UNCHANGED <<schemes, status, links, pages, boots, now, decisions, told>>

\* mutant: the nonces that were used are not looked up.
SubmitUnburned(s, t, act, n, m, c, form) ==
  /\ request[s] = Nobody
  /\ Actor(t, n, c) # Nobody
  /\ NeedsCsrf(t, n, c, form) => PassesCsrf(s, t, m, Actor(t, n, c))
  /\ Accepted(s, t, act, n, m, c, form)
  /\ UNCHANGED <<schemes, status, links, pages, burnt, boots, now, decisions, told>>

(***************************************************************************)
(* Somebody posts to the form (or the JSON) endpoint of an action, with    *)
(* the action token of page n, the CSRF token of page m and a standing     *)
(* credential c. What is refused changes nothing.                          *)
(***************************************************************************)
Submit(s, t, act, n, m, c, form) ==
  /\ request[s] = Nobody
  /\ Actor(t, n, c) # Nobody
  /\ NeedsCsrf(t, n, c, form) => PassesCsrf(s, t, m, Actor(t, n, c))
  /\ Burn(TokenOf(n, act))
  /\ Accepted(s, t, act, n, m, c, form)
  /\ UNCHANGED <<schemes, status, links, pages, boots, now, decisions, told>>

-------------------------------------------------------------------------------
(***************************************************************************)
(* approve_ticket and reject_ticket: the status is read, and later         *)
(* written. The form handler for a rejection does not ask whether there    *)
(* was anything to reject. A form answered with a token gets a new link.   *)
(***************************************************************************)
\* mutant: the form handler for an approval does not ask either.
SaysBlindly(r, success) ==
  IF r.act = "reject" THEN "Rejected." ELSE "Approved."

Says(r, success) ==
  IF r.act = "reject" THEN "Rejected."
  ELSE IF success THEN "Approved." ELSE "Could not approve."

Reply(s, success) ==
  LET r == request[s] IN
  /\ request' = [request EXCEPT ![s] = Nobody]
  /\ told' = IF r.form
             THEN [ticket |-> r.ticket, by |-> r.by, token |-> r.token,
                   says |-> Says(r, success)]
             ELSE told
  /\ links' = IF r.form /\ r.token # Nobody
              THEN links \cup ViewLinks(r.ticket, FormTTL) ELSE links

Look(s) ==
  /\ request[s] # Nobody /\ ~request[s].found
  /\ IF status[request[s].ticket] = "proposed"
     THEN /\ request' = [request EXCEPT ![s].found = TRUE]
          /\ UNCHANGED <<links, told>>
     ELSE Reply(s, FALSE)
  /\ UNCHANGED <<schemes, status, pages, burnt, boots, now, decisions>>

Decide(s) ==
  LET r == request[s] IN
  /\ r # Nobody /\ r.found
  /\ status' = [status EXCEPT ![r.ticket] =
                  IF r.act = "approve" THEN "approved" ELSE "rejected"]
  /\ decisions' = Append(decisions,
       [ticket |-> r.ticket, act |-> r.act, by |-> r.by, token |-> r.token])
  /\ Reply(s, TRUE)
  /\ UNCHANGED <<schemes, pages, burnt, boots, now>>

(***************************************************************************)
(* The command line decides too, a process dies, time passes.              *)
(***************************************************************************)
Overtake(t) ==
  /\ status[t] = "proposed"
  /\ \E s \in {"approved", "rejected"} : status' = [status EXCEPT ![t] = s]
  /\ UNCHANGED <<schemes, links, pages, burnt, request, boots, now, decisions, told>>

Deaths == LET Total[S \in SUBSET Server] ==
                IF S = {} THEN 0
                ELSE LET s == CHOOSE x \in S : TRUE IN boots[s] + Total[S \ {s}]
          IN Total[Server]

ServerDies(s) ==
  /\ Deaths < MaxDeaths
  /\ request' = [request EXCEPT ![s] = Nobody]
  /\ boots' = [boots EXCEPT ![s] = @ + 1]
  /\ UNCHANGED <<schemes, status, links, pages, burnt, now, decisions, told>>

TimePasses ==
  /\ now < MaxClock
  /\ now' = now + 1
  /\ UNCHANGED <<schemes, status, links, pages, burnt, request, boots, decisions, told>>

ApprovalsNext ==
  \/ \E t \in Ticket : Offer(t) \/ Overtake(t)
  \/ \E s \in Server, t \in Ticket : View(s, t)
  \/ \E s \in Server, t \in Ticket, act \in Mutating,
        n \in {0} \cup ActionTokens, m \in {0} \cup DOMAIN pages, c \in Person \cup {Static, Nobody},
        form \in BOOLEAN : Submit(s, t, act, n, m, c, form)
  \/ \E s \in Server : Look(s) \/ Decide(s) \/ ServerDies(s)
  \/ TimePasses

ApprovalsSpec == ApprovalsInit /\ [][ApprovalsNext]_approvalVars

-------------------------------------------------------------------------------
(***************************************************************************)
(* A link decides at most once, however often and on however many          *)
(* processes it is followed at the same time: the primary key on the       *)
(* nonces (queue.py consume_token_nonce) lets one of them proceed.         *)
(***************************************************************************)
LinksDecideOnce ==
  \A i, j \in DOMAIN decisions :
    decisions[i].token # Nobody /\ decisions[i].token = decisions[j].token => i = j

(***************************************************************************)
(* A link is burned before the status of the ticket is looked at. It is    *)
(* spent for nothing only when somebody else was faster or the process     *)
(* died: while nobody has died, a burned link to a ticket that still       *)
(* waits belongs to a request in progress.                                 *)
(***************************************************************************)
LinksAreSpentWell ==
  (\A s \in Server : boots[s] = 0) =>
    \A k \in burnt :
      status[pages[k.page].ticket] = "proposed" =>
        \E s \in Server : request[s] # Nobody /\ request[s].token = k

(***************************************************************************)
(* What a reader is told of an approval holds: "Approved." of a ticket     *)
(* that he approved, by the very token he showed, and "Could not approve." *)
(* of one that is offered to nobody any more and that his token, although  *)
(* it is spent, decided nothing about. Of "Rejected." this says nothing.   *)
(***************************************************************************)
ApprovalsAreTrue ==
  told # Nobody =>
    /\ told.says = "Approved." =>
         \E i \in DOMAIN decisions :
           decisions[i] = [ticket |-> told.ticket, act |-> "approve",
                           by |-> told.by, token |-> told.token]
    /\ told.says = "Could not approve." =>
         /\ status[told.ticket] # "proposed"
         /\ \A i \in DOMAIN decisions :
              told.token # Nobody => decisions[i].token # told.token

(***************************************************************************)
(* "Clicking Reject marks the ticket as rejected" (docs/webhooks.md), and  *)
(* the page that answers the click says so. That does not hold:            *)
(* reject_action drops the result of reject_ticket, and who clicks Reject  *)
(* after somebody else approved reads "Rejected." of a fix that is applied.*)
(***************************************************************************)
RejectedMeansRejected ==
  told # Nobody /\ told.says = "Rejected." => status[told.ticket] = "rejected"

================================================================================
