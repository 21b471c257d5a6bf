------------------------------ MODULE MCSessions ------------------------------
(***************************************************************************)
(* One tab that makes two calls at a time, signs in and meets a mishap; or *)
(* two tabs that make one each, with a session from before the upgrade, as *)
(* another device has it, too.                                             *)
(***************************************************************************)
EXTENDS Session

CONSTANTS TabA, TabB, TabC, ActivityB, ActivityC, Earlier

MCTabOf == [a \in Activity |-> IF a = ActivityB THEN TabB ELSE IF a = ActivityC THEN TabC ELSE TabA]
MCOwner == [f \in Family |-> IF f = Earlier THEN 2 ELSE 1]

First == CHOOSE t \in Token : TRUE
Second == CHOOSE t \in Token : t # First

MCInit ==
  /\ Init
  /\ \/ /\ page = [t \in Tab |-> IF t = TabA THEN "login" ELSE "closed"]
        /\ live = {} /\ opened = Legacy \cup {Earlier} /\ mishaps = 0 /\ others = MaxOthers
     \/ /\ page = [t \in Tab |-> IF t = TabA THEN "closed" ELSE "login"]
        /\ live = {First, Second} /\ opened = Family /\ mishaps = MaxMishaps /\ others = 0
        /\ IF keeps THEN cookie = First ELSE stored[TabB] = First

MCSpec == MCInit /\ [][Next]_vars /\ Fairness
===============================================================================
