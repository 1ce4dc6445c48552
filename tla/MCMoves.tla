------------------------------ MODULE MCMoves ------------------------------
(* Moves and their acknowledgement, for TLC. *)
EXTENDS MoveProtocol
=============================================================================
