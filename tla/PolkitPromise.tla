--------------------------- MODULE PolkitPromise ---------------------------
(***************************************************************************)
(* What the polkit agent promises to polkitd and to the user: every        *)
(* request gets one outcome, and only the one is granted whose own dialog  *)
(* the user accepted and which polkitd has not withdrawn.                  *)
(***************************************************************************)
CONSTANT Requests

VARIABLES
    outcome,   \* outcome[r]: "none" (not asked), "asked", "granted", "denied"
    consent,   \* consent[r]: the user accepted the dialog of r
    withdrawn  \* withdrawn[r]: polkitd cancelled r

vars == << outcome, consent, withdrawn >>

Init ==
    /\ outcome = [r \in Requests |-> "none"]
    /\ consent = [r \in Requests |-> FALSE]
    /\ withdrawn = [r \in Requests |-> FALSE]

Ask(r) ==
    /\ outcome[r] = "none"
    /\ outcome' = [outcome EXCEPT ![r] = "asked"]
    /\ UNCHANGED << consent, withdrawn >>

Consent(r) ==
    /\ outcome[r] = "asked" /\ ~consent[r]
    /\ consent' = [consent EXCEPT ![r] = TRUE]
    /\ UNCHANGED << outcome, withdrawn >>

Withdraw(r) ==
    /\ outcome[r] = "asked"
    /\ withdrawn' = [withdrawn EXCEPT ![r] = TRUE]
    /\ UNCHANGED << outcome, consent >>

Grant(r) ==
    /\ outcome[r] = "asked" /\ consent[r] /\ ~withdrawn[r]
    /\ outcome' = [outcome EXCEPT ![r] = "granted"]
    /\ UNCHANGED << consent, withdrawn >>

(* The agent may deny one request, or go and leave all of them denied.     *)
Deny(lost) ==
    /\ \A r \in lost : outcome[r] = "asked"
    /\ outcome' = [r \in Requests |-> IF r \in lost THEN "denied"
                                                    ELSE outcome[r]]
    /\ UNCHANGED << consent, withdrawn >>

Next ==
    \/ \E r \in Requests : Ask(r) \/ Consent(r) \/ Withdraw(r) \/ Grant(r)
    \/ \E lost \in SUBSET Requests : Deny(lost)

Spec == Init /\ [][Next]_vars
=============================================================================
