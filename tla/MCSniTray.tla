----------------------------- MODULE MCSniTray -----------------------------
(* Instances of SniTray for TLC.                                           *)
EXTENDS SniTray
=============================================================================
