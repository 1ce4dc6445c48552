----------------------------- MODULE MCFailsafe -----------------------------
(* The flight loop and its failsafes, for TLC. *)
EXTENDS FailsafeWatch
=============================================================================
