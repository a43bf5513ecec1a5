----------------------------- MODULE MCLockAuth -----------------------------
(* Instances of LockAuth for TLC.                                          *)
EXTENDS LockAuth

(* One character and room for two: right password "a", wrong ones "", "aa". *)
MCLetters == {"a"}
MCSecret  == << "a" >>
=============================================================================
