---------------------------- MODULE LockPromise ----------------------------
(***************************************************************************)
(* What a screen locker promises, without pipes, processes or timers: the  *)
(* attempts are judged in the order in which they were made, a wrong one   *)
(* never opens the session, and only a right one, a signal of the user or  *)
(* the end of the locker ends the lock.                                    *)
(***************************************************************************)
EXTENDS Naturals, Sequences

VARIABLES
    session,    \* "locked", "unlocked", or "dead": locked, with no client
    pending,    \* attempts without an answer, oldest first: TRUE if right
    refused,    \* how many attempts were refused
    released,   \* the locker has decided to end
    connected,  \* the locker reaches the compositor
    signalled   \* the user asked for the end with a signal

vars == << session, pending, refused, released, connected, signalled >>

Init ==
    /\ session = "locked"
    /\ pending = << >>
    /\ refused = 0
    /\ released = FALSE
    /\ connected = TRUE
    /\ signalled = FALSE

Attempt ==
    /\ session = "locked"
    /\ \E right \in BOOLEAN : pending' = Append(pending, right)
    /\ UNCHANGED << session, refused, released, connected, signalled >>

(* The backend may refuse a right password; it never accepts a wrong one.  *)
Overrule ==
    /\ session = "locked"
    /\ \E i \in 1 .. Len(pending) :
          pending[i] /\ pending' = [pending EXCEPT ![i] = FALSE]
    /\ UNCHANGED << session, refused, released, connected, signalled >>

Refuse ==
    /\ session = "locked" /\ pending # << >> /\ ~Head(pending)
    /\ pending' = Tail(pending)
    /\ refused' = refused + 1
    /\ UNCHANGED << session, released, connected, signalled >>

Accept ==
    /\ session = "locked" /\ pending # << >> /\ Head(pending)
    /\ pending' = Tail(pending)
    /\ released' = TRUE
    /\ UNCHANGED << session, refused, connected, signalled >>

(* The backend dies: the attempt in its hands is lost.                     *)
Lose ==
    /\ \E i \in 1 .. Len(pending) :
          pending' = SubSeq(pending, 1, i - 1) \o SubSeq(pending, i + 1, Len(pending))
    /\ UNCHANGED << session, refused, released, connected, signalled >>

Signal ==
    /\ session = "locked"
    /\ signalled' = TRUE
    /\ UNCHANGED << session, pending, refused, released, connected >>

Obey ==
    /\ session = "locked" /\ signalled
    /\ released' = TRUE
    /\ UNCHANGED << session, pending, refused, connected, signalled >>

(* The connection breaks: the locker ends, but it cannot unlock any more.  *)
Disconnect ==
    /\ session = "locked"
    /\ connected' = FALSE /\ released' = TRUE
    /\ UNCHANGED << session, pending, refused, signalled >>

Unlock ==
    /\ session = "locked" /\ released /\ connected
    /\ session' = "unlocked"
    /\ UNCHANGED << pending, refused, released, connected, signalled >>

(* The locker fails: the compositor keeps the session locked.              *)
Die ==
    /\ session = "locked"
    /\ session' = "dead"
    /\ connected' \in {connected, FALSE}
    /\ UNCHANGED << pending, refused, released, signalled >>

Next ==
    \/ Attempt \/ Overrule \/ Refuse \/ Accept \/ Lose
    \/ Signal \/ Obey \/ Disconnect \/ Unlock \/ Die

Spec == Init /\ [][Next]_vars
=============================================================================
