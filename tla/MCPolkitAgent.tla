--------------------------- MODULE MCPolkitAgent ---------------------------
(* Instances of PolkitAgent for TLC.                                       *)
EXTENDS PolkitAgent
=============================================================================
