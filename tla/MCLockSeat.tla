----------------------------- MODULE MCLockSeat -----------------------------
(* Instances of LockSeat for TLC: scale factors and sizes that give equal  *)
(* and different buffer sizes.                                             *)
EXTENDS LockSeat

MCScales == [o \in Outputs |-> {1, 2}]
MCWidths == [o \in Outputs |-> {1, 2}]
=============================================================================
