---------------------------- MODULE MoveContract ----------------------------
(***************************************************************************)
(* What the companion is promised about SROT_MOVE: the moves are issued in *)
(* order, an issued move is open until it gets its one terminal result,    *)
(* and that result is never revised.  CANCELLED names a move that a newer  *)
(* one displaced.                                                          *)
(***************************************************************************)
EXTENDS Naturals

CONSTANT MaxMoves

VARIABLE outcome   \* what each move has come to

Moves == 1 .. MaxMoves

Terminals == {"ACCEPTED", "CANCELLED", "FAILED"}

Issued(s) == outcome[s] # "unissued"

Newest(s) == Issued(s) /\ \A n \in Moves : n > s => ~Issued(n)

Init == outcome = [s \in Moves |-> "unissued"]

Issue(s) ==
  /\ ~Issued(s)
  /\ \A n \in Moves : n < s => Issued(n)
  /\ outcome' = [outcome EXCEPT ![s] = "open"]

Resolve(s, result) ==
  /\ outcome[s] = "open"
  /\ result = "CANCELLED" => ~Newest(s)
  /\ outcome' = [outcome EXCEPT ![s] = result]

\* A displaced move and its successor may both be answered in one report.
Report ==
  \E s, n \in Moves, r1, r2 \in Terminals :
    /\ s < n /\ outcome[s] = "open" /\ outcome[n] = "open"
    /\ r1 # "FAILED" /\ r2 # "CANCELLED" /\ Newest(n)
    /\ outcome' = [outcome EXCEPT ![s] = r1, ![n] = r2]

Next ==
  \/ \E s \in Moves : Issue(s)
  \/ \E s \in Moves, result \in Terminals : Resolve(s, result)
  \/ Report

Spec == Init /\ [][Next]_outcome
=============================================================================
