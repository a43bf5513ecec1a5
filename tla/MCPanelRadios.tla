--------------------------- MODULE MCPanelRadios ---------------------------
(* Instances of PanelRadios for TLC: every request makes at most one       *)
(* attempt or two contexts.                                                *)
EXTENDS PanelRadios

MCStarts   == {[l \in Links |-> on] : on \in BOOLEAN}
MCAttempts == 1 .. MaxRequests
MCContexts == 1 .. 2 * MaxRequests
=============================================================================
