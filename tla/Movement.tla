------------------------------ MODULE Movement ------------------------------
(***************************************************************************)
(* The movement primitives of AUTO with their timers: legs that cruise and *)
(* brake, closed-loop legs, HOLD, STOP, STYLE, the time-out, and what the  *)
(* flight loop does to them (enter, start, abort, cancel, update).         *)
(*                                                                         *)
(* Time is counted in passes of the loop.  Speeds are counted in steps of  *)
(* the acceleration ramp, and a brake lasts one pass for each step.        *)
(* Headings, depths and yaw rates are left out; an order of an unknown type*)
(* cannot come, the command handler refuses it.                            *)
(***************************************************************************)
EXTENDS Naturals

CONSTANTS
  Axes,        \* travel directions: ahead, astern, to the left, to the right
  MaxSpeed,    \* move_cruise_max, in steps of the ramp
  Durations,   \* durations an order may name, in passes; 0 holds until the time-out
  Timeouts,    \* time-outs an order may name, in passes; 0 is one shorter than a pass
  Beyond,      \* an age beyond every limit; older ones are alike
  Orders,      \* bound on the orders, aborts and interludes of a behaviour
  StopAgain    \* whether a STOP may be ordered while the vehicle is braking

ASSUME MovementAssumption ==
  /\ MaxSpeed \in Nat \ {0} /\ Orders \in Nat /\ StopAgain \in BOOLEAN
  /\ Durations \subseteq Nat /\ Timeouts \subseteq Nat /\ Beyond \in Nat
  /\ \A n \in {MaxSpeed} \cup Durations \cup Timeouts : n < Beyond
  /\ "none" \notin Axes

VARIABLES
  auto,      \* the loop runs in AUTO
  mv,        \* the variables of movement.cpp
  out,       \* the translation demanded by the last update: an axis and a sense
  orders,    \* orders, aborts and interludes still to come
  momentum   \* observer: speed of the hull that nothing has braked yet

vars == <<auto, mv, out, orders, momentum>>

Timed == {"CRUISE", "HOLD"}
ClosedLoop == {"TURN", "DIVE"}
Phases == {"IDLE", "BRAKE", "STYLE", "DONE"} \cup Timed \cup ClosedLoop

BrakePasses(speed) == speed

NoThrust == [axis |-> "none", sense |-> "off"]
Push(axis, speed, sense) ==
  IF axis = "none" \/ speed = 0 THEN NoThrust ELSE [axis |-> axis, sense |-> sense]

Init ==
  /\ auto = FALSE /\ out = NoThrust /\ orders = Orders /\ momentum = 0
  /\ mv = [phase |-> "IDLE", running |-> FALSE, axis |-> "none", speed |-> 0, cur |-> 0,
           elapsed |-> 0, dur |-> 0, brake |-> 0, limit |-> Beyond - 1]
-----------------------------------------------------------------------------
(* What the flight loop calls. *)

\* AUTO is entered: enter() keeps the axis and the speed of the last leg.
EnterAuto ==
  /\ ~auto /\ auto' = TRUE /\ momentum' = 0
  /\ mv' = [mv EXCEPT !.phase = "IDLE", !.running = FALSE, !.cur = 0]
  /\ UNCHANGED <<out, orders>>

\* AUTO is left: cancel() ends the leg at once.
LeaveAuto ==
  /\ auto /\ auto' = FALSE /\ out' = NoThrust /\ momentum' = 0
  /\ mv' = [mv EXCEPT !.phase = "IDLE", !.running = FALSE, !.cur = 0, !.axis = "none"]
  /\ UNCHANGED orders

Ordered(phase, limit) ==
  [mv EXCEPT !.phase = phase, !.running = TRUE, !.elapsed = 0, !.limit = limit, !.axis = "none"]

Order == auto /\ orders > 0 /\ orders' = orders - 1 /\ UNCHANGED <<auto, out>>

\* A new leg takes over from the old one, whose momentum is its own to deal with.
StartTravel ==
  /\ Order /\ momentum' = 0
  /\ \E axis \in Axes, speed \in 1 .. MaxSpeed, dur \in Durations, limit \in Timeouts :
       mv' = [Ordered("CRUISE", limit) EXCEPT !.axis = axis, !.speed = speed, !.dur = dur, !.cur = 0]

StartHold ==
  /\ Order /\ momentum' = 0
  /\ \E speed \in 0 .. MaxSpeed, dur \in Durations, limit \in Timeouts :
       mv' = [Ordered("HOLD", limit) EXCEPT !.speed = speed, !.dur = dur, !.cur = 0]

StartClosedLoop ==
  /\ Order /\ momentum' = 0
  /\ \E phase \in ClosedLoop \cup {"STYLE"}, speed \in 0 .. MaxSpeed, limit \in Timeouts :
       mv' = [Ordered(phase, limit) EXCEPT !.speed = speed]

\* Mutant, the STOP that coasted: the axis is reset before the brake reads it.
StopLegCoasting(limit) == [Ordered("BRAKE", limit) EXCEPT !.speed = mv.cur, !.brake = BrakePasses(mv.cur)]

\* STOP brakes along the axis of the leg it ends, from the speed it had reached.
StopLeg(limit) ==
  [Ordered("BRAKE", limit) EXCEPT
     !.axis = mv.axis, !.speed = mv.cur, !.brake = BrakePasses(mv.cur)]

StartStop ==
  /\ Order /\ (StopAgain \/ mv.phase # "BRAKE") /\ UNCHANGED momentum
  /\ \E limit \in Timeouts : mv' = StopLeg(limit)

\* The disarm edge and the safety monitor abort, in any mode; the vehicle is then disarmed.
Abort ==
  /\ orders > 0 /\ orders' = orders - 1 /\ momentum' = 0
  /\ mv' = [mv EXCEPT !.phase = "BRAKE", !.running = TRUE, !.elapsed = 0,
                      !.brake = BrakePasses(mv.cur)]
  /\ UNCHANGED <<auto, out>>
-----------------------------------------------------------------------------
(* update(), once in a pass. *)

\* Mutant: a HOLD is not subject to the time-out.
TimedOutNotHold(m) == m.running /\ m.phase \notin {"BRAKE", "HOLD"} /\ m.elapsed > m.limit

\* The global time-out ends every leg but a brake.
TimedOut(m) == m.running /\ m.phase # "BRAKE" /\ m.elapsed > m.limit

Limited(m) ==
  IF TimedOut(m)
  THEN [m EXCEPT !.phase = "BRAKE", !.elapsed = 0, !.brake = BrakePasses(m.cur)]
  ELSE m

\* Mutant: the ramp does not stop at the cruise speed.
RampedPast(m) == m.cur + 1

Ramped(m) == IF m.cur < m.speed THEN m.cur + 1 ELSE m.cur

Cruised(m) ==
  LET c == [m EXCEPT !.cur = Ramped(m)]
  IN  IF m.elapsed >= m.dur
      THEN [c EXCEPT !.phase = "BRAKE", !.elapsed = 0, !.brake = BrakePasses(m.speed)]
      ELSE c

Braked(m) == [m EXCEPT !.cur = 0, !.phase = IF m.elapsed >= m.brake THEN "DONE" ELSE @]

\* Mutant: a HOLD that ends skips PH_DONE, the state in which the loop sees it finished.
HeldIdle(m) == [m EXCEPT !.phase = IF m.dur > 0 /\ m.elapsed >= m.dur THEN "IDLE" ELSE @]

Held(m) == [m EXCEPT !.phase = IF m.dur > 0 /\ m.elapsed >= m.dur THEN "DONE" ELSE @]

\* Closed-loop legs end on their error, STYLE when the spin is complete.
Steered(m) == {m, [m EXCEPT !.phase = "DONE"]}

Stepped(m) ==
  CASE m.phase = "CRUISE" -> {Cruised(m)}
    [] m.phase = "BRAKE"  -> {Braked(m)}
    [] m.phase = "HOLD"   -> {Held(m)}
    [] m.phase \in ClosedLoop \cup {"STYLE"} -> Steered(m)
    [] m.phase \in {"DONE", "IDLE"} -> {[m EXCEPT !.phase = "IDLE", !.running = FALSE]}

Demand(m) ==
  CASE m.phase = "CRUISE" -> Push(m.axis, Ramped(m), "along")
    [] m.phase = "BRAKE"  -> Push(m.axis, m.speed, "against")
    [] OTHER              -> NoThrust

\* What the demand does to the hull: the ramp speeds it up, the brake takes a step off.
Hull(m) ==
  CASE m.phase = "CRUISE" -> Ramped(m)
    [] m.phase = "BRAKE" /\ Demand(m).sense = "against" /\ momentum > 0 -> momentum - 1
    [] OTHER -> momentum

Passed(m) == [m EXCEPT !.elapsed = IF @ < Beyond THEN @ + 1 ELSE @]

Update ==
  /\ auto
  /\ LET m == Limited(mv)
     IN  /\ \E stepped \in Stepped(m) : mv' = Passed(stepped)
         /\ out' = Demand(m) /\ momentum' = Hull(m)
  /\ UNCHANGED <<auto, orders>>

\* Something else drives for a while, another mode, a motor test or a tune: what it
\* makes of the hull is its own affair.
Interlude ==
  /\ mv.elapsed < Beyond
  /\ \E later \in (mv.elapsed + 1) .. Beyond : mv' = [mv EXCEPT !.elapsed = later]
  /\ IF auto THEN orders > 0 /\ orders' = orders - 1 ELSE UNCHANGED orders
  /\ out' = NoThrust /\ momentum' = 0 /\ UNCHANGED auto

Next ==
  \/ EnterAuto \/ LeaveAuto
  \/ StartTravel \/ StartHold \/ StartClosedLoop \/ StartStop \/ Abort
  \/ Update \/ Interlude

Spec == Init /\ [][Next]_vars

\* The loop is periodic, and interludes end: in AUTO an update always comes.
FairSpec == Spec /\ WF_vars(Update)
-----------------------------------------------------------------------------
TypeOK ==
  /\ auto \in BOOLEAN /\ orders \in 0 .. Orders /\ momentum \in 0 .. MaxSpeed
  /\ out \in [axis : Axes \cup {"none"}, sense : {"off", "along", "against"}]
  /\ mv \in [phase : Phases, running : BOOLEAN, axis : Axes \cup {"none"}, speed : 0 .. MaxSpeed,
             cur : 0 .. MaxSpeed, elapsed : 0 .. Beyond, dur : 0 .. Beyond, brake : 0 .. MaxSpeed,
             limit : 0 .. Beyond]

(***************************************************************************)
(* Every move comes to an end, by itself, by its time-out, or because AUTO *)
(* is left, provided that the orders end.                                  *)
(***************************************************************************)
EveryMoveEnds == auto /\ mv.running ~> ~mv.running \/ ~auto

(***************************************************************************)
(* A leg that has come to its end leaves no speed unbraked: not one ended  *)
(* by a STOP in the middle of its ramp, and not one that timed out.        *)
(***************************************************************************)
StopsAtRest == mv.phase = "DONE" => momentum = 0
=============================================================================
