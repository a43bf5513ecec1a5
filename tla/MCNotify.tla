------------------------------ MODULE MCNotify ------------------------------
(* Instances of Notify for TLC.                                            *)
EXTENDS Notify

Allows(replace, dnd, clear, end) ==
    [replace |-> replace, dnd |-> dnd, clear |-> clear, end |-> end]

(* One server with all its calls, and servers that follow each other.      *)
MCBudgets == {Allows(1, 2, 1, 0), Allows(0, 1, 0, 1), Allows(1, 0, 0, 1)}
=============================================================================
