--------------------------- MODULE TicketLifecycle ---------------------------
(***************************************************************************)
(* What the Healer promises about one ticket after the other, with no      *)
(* threads, no processes and no memory but the ticket's status: it is      *)
(* taken once, decided once, and its fix reaches a contract at most once,  *)
(* either unattended while it is analyzed or after it was approved. A      *)
(* ticket ends as applied exactly when its fix is in.                      *)
(*                                                                         *)
(* This is the diagram under "Ticket Lifecycle" in docs/healer.md with the *)
(* unattended fixes of tier 1 added, which go from analyzing to applied.   *)
(***************************************************************************)
CONSTANT Ticket

VARIABLES
  status,   \* status of each ticket, "absent" before it is reported
  fixed     \* the tickets whose fix has reached a contract

vars == <<status, fixed>>

Init ==
  /\ status = [t \in Ticket |-> "absent"]
  /\ fixed = {}

Moves(t, from, to) ==
  /\ status[t] = from
  /\ status' = [status EXCEPT ![t] = to]
  /\ UNCHANGED fixed

InFixing(t) == status[t] \in {"analyzing", "approved"}

Fix(t) ==
  /\ InFixing(t)
  /\ t \notin fixed
  /\ fixed' = fixed \cup {t}
  /\ UNCHANGED status

Settle(t) ==
  /\ InFixing(t)
  /\ Moves(t, status[t], IF t \in fixed THEN "applied" ELSE "failed")

Next ==
  \E t \in Ticket :
    \/ Moves(t, "absent", "queued")
    \/ Moves(t, "queued", "analyzing")
    \/ Moves(t, "analyzing", "proposed") /\ t \notin fixed
    \/ Moves(t, "proposed", "approved")
    \/ Moves(t, "proposed", "rejected")
    \/ Fix(t)
    \/ Settle(t)

Spec == Init /\ [][Next]_vars
==============================================================================
