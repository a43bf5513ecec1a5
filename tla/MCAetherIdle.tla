---------------------------- MODULE MCAetherIdle ----------------------------
(* Instances of AetherIdle for TLC: one timeout, one idlehint.             *)
EXTENDS AetherIdle

CONSTANTS lock, hint

MCCmds  == {lock, hint}
MCNever == {}

Allows(leave, inhibit, sleep, reload, usr1) ==
    [leave |-> leave, inhibit |-> inhibit, sleep |-> sleep, reload |-> reload,
     usr1 |-> usr1]

(* The events in fours; sleeps come again and again and among all others   *)
(* except SIGUSR1, which multiplies the states.                            *)
MCBudgets == {Allows(1, 1, 0, 1, 1), Allows(1, 2, 0, 1, 0),
              Allows(1, 0, 2, 1, 0), Allows(0, 1, 2, 1, 0)}

(* The configuration file stays as it is.                                  *)
SteadyBudgets == {Allows(1, 2, 0, 0, 0)}
=============================================================================
