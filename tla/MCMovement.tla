----------------------------- MODULE MCMovement -----------------------------
(* The movement primitives, for TLC, and their relation to the flight loop's view. *)
EXTENDS Movement

\* The phase as ControlLoop sees it.
LoopPhase ==
  CASE mv.phase \in Timed \cup ClosedLoop -> "RUN"
    [] mv.phase = "IDLE"                  -> "NONE"
    [] OTHER                              -> mv.phase

Loop == INSTANCE ControlLoop WITH
  GcsModes <- {}, Orders <- {}, EnvFaults <- {}, Depths <- {}, MaxMoves <- 0,
  BatHold <- 0, SurfHold <- 0, LockMiss <- FALSE,
  control <- 0, test <- 0, cal <- 0, in <- 0, st <- 0, act <- 0, acted <- 0,
  pc <- 0, core0 <- 0, mach <- 0

(***************************************************************************)
(* The phases with their timers are a case of what ControlLoop lets the    *)
(* movement do: an update takes a step of its MoveUpdate, an order enters  *)
(* a phase its EnterMode may choose, and only a change of mode cancels.    *)
(***************************************************************************)
LoopPhases ==
  [][\/ Update /\ LoopPhase' \in {m.move : m \in Loop!MoveUpdate([move |-> LoopPhase, stunt |-> TRUE])}
     \/ ~Update /\ LoopPhase' = LoopPhase
     \/ orders' < orders /\ LoopPhase' \in {"RUN", "STYLE", "BRAKE"}
     \/ auto' # auto /\ LoopPhase' = "NONE"]_vars
=============================================================================
