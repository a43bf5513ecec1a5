--------------------------- MODULE NotifyPromise ---------------------------
(***************************************************************************)
(* What a notification server promises to its clients: every Notify gets   *)
(* an id of its own, and a notification that was shown is announced closed *)
(* when, and only when, it leaves the screen: exactly once, in the life of *)
(* one server.                                                             *)
(***************************************************************************)
EXTENDS Naturals

CONSTANT Ids

VARIABLES
    next,    \* the id that the next notification gets
    shown,   \* the ids on the screen
    told     \* how many NotificationClosed signals each id has had

vars == << next, shown, told >>

Init ==
    /\ next = 1
    /\ shown = {}
    /\ told = [i \in Ids |-> 0]

(* A new notification is shown, or, with "do not disturb", only recorded.  *)
Add ==
    /\ next' = next + 1
    /\ shown' \in {shown, shown \cup {next}}
    /\ UNCHANGED told

Close ==
    /\ \E i \in shown :
          /\ shown' = shown \ {i}
          /\ told' = [told EXCEPT ![i] = @ + 1]
    /\ UNCHANGED next

(* A server that ends forgets all, and the next one begins anew.           *)
Restart == Init'

Next == Add \/ Close \/ Restart
Spec == Init /\ [][Next]_vars
=============================================================================
