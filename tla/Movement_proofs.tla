--------------------------- MODULE Movement_proofs --------------------------
(***************************************************************************)
(* The movement primitives, for all speeds, durations and time-outs: their *)
(* types, that a leg that has ended leaves no speed unbraked, and that     *)
(* they implement what the flight loop's module assumes of a move.         *)
(***************************************************************************)
EXTENDS MCMovement, TLAPS

\* Only a leg or its brake has speed, and an axis to brake it along.
Moving == momentum > 0 => mv.phase \in {"CRUISE", "BRAKE"} /\ mv.axis # "none" /\ mv.speed > 0

\* A leg has an axis, and its ramp knows the speed it has reached.
Ramping == mv.phase = "CRUISE" => momentum <= mv.cur /\ mv.cur <= mv.speed /\ mv.axis # "none"

\* A brake has a pass left for every step of speed: it pushes in the passes of
\* age up to `brake', and a STOP gives it one more.
PassesLeft == mv.phase = "BRAKE" /\ momentum > 0 => momentum + mv.elapsed <= mv.brake + 1

\* The inductive invariant of StopsAtRest.
RestInv == TypeOK /\ Moving /\ Ramping /\ PassesLeft

---------------------------------------------------------------------------
(* Types *)

MvType ==
  [phase : Phases, running : BOOLEAN, axis : Axes \cup {"none"}, speed : 0 .. MaxSpeed,
   cur : 0 .. MaxSpeed, elapsed : 0 .. Beyond, dur : 0 .. Beyond, brake : 0 .. MaxSpeed,
   limit : 0 .. Beyond]

\* The limits that an order may name.
LEMMA Limits ==
  ASSUME MovementAssumption
  PROVE  /\ MaxSpeed \in Nat \ {0} /\ Beyond \in Nat /\ Orders \in Nat
         /\ Durations \subseteq 0 .. Beyond /\ Timeouts \subseteq 0 .. Beyond
         /\ 0 \in 0 .. MaxSpeed /\ 0 \in 0 .. Beyond /\ Beyond - 1 \in 0 .. Beyond
         /\ 1 .. MaxSpeed \subseteq 0 .. MaxSpeed /\ "none" \notin Axes
<1>1. /\ MaxSpeed \in Nat \ {0} /\ Beyond \in Nat /\ Orders \in Nat /\ MaxSpeed < Beyond
      /\ "none" \notin Axes
  BY DEF MovementAssumption
<1>2. \A n \in Durations \cup Timeouts : n \in Nat /\ n < Beyond
  BY DEF MovementAssumption
<1> QED
  BY <1>1, <1>2

\* The phases, by name.
LEMMA PhaseNames ==
  Phases = {"IDLE", "BRAKE", "STYLE", "DONE", "CRUISE", "HOLD", "TURN", "DIVE"}
  BY DEF Phases, Timed, ClosedLoop

LEMMA MovementInit == ASSUME MovementAssumption, Init PROVE RestInv
<1>1. /\ auto = FALSE /\ out = NoThrust /\ orders = Orders /\ momentum = 0
      /\ mv = [phase |-> "IDLE", running |-> FALSE, axis |-> "none", speed |-> 0, cur |-> 0,
               elapsed |-> 0, dur |-> 0, brake |-> 0, limit |-> Beyond - 1]
  BY DEF Init
<1>2. mv \in MvType
  BY <1>1, Limits, PhaseNames DEF MvType
<1>3. out \in [axis : Axes \cup {"none"}, sense : {"off", "along", "against"}]
  BY <1>1 DEF NoThrust
<1>4. TypeOK
  <2>1. auto \in BOOLEAN /\ orders \in 0 .. Orders /\ momentum \in 0 .. MaxSpeed
    <3>1. Orders \in 0 .. Orders /\ 0 \in 0 .. MaxSpeed
      BY Limits
    <3> QED
      BY <1>1, <3>1, Zenon
  <2> QED
    BY <1>2, <1>3, <2>1 DEF TypeOK, MvType
<1> QED
  BY <1>1, <1>4 DEF RestInv, Moving, Ramping, PassesLeft

---------------------------------------------------------------------------
(* Modes and orders *)

LEMMA ModeTypes ==
  ASSUME MovementAssumption, TypeOK, EnterAuto \/ LeaveAuto
  PROVE  TypeOK' /\ momentum' = 0 /\ mv'.phase = "IDLE"
<1>2. momentum' = 0 /\ auto' \in BOOLEAN /\ orders' = orders
  BY DEF EnterAuto, LeaveAuto
<1>3. out' \in [axis : Axes \cup {"none"}, sense : {"off", "along", "against"}]
  BY DEF EnterAuto, LeaveAuto, TypeOK, NoThrust
<1>4. mv' \in MvType /\ mv'.phase = "IDLE"
  BY Limits, PhaseNames DEF EnterAuto, LeaveAuto, TypeOK, MvType
<1>5. TypeOK'
  BY <1>2, <1>3, <1>4, Limits DEF TypeOK, MvType
<1> QED
  BY <1>2, <1>4, <1>5

LEMMA OrderedType ==
  ASSUME TypeOK, MovementAssumption, NEW phase \in Phases, NEW limit \in Timeouts
  PROVE  Ordered(phase, limit) \in MvType /\ Ordered(phase, limit).phase = phase
<1>1. mv \in MvType
  BY DEF TypeOK, MvType
<1> QED
  BY <1>1, Limits DEF Ordered, MvType

LEMMA OrderTypes ==
  ASSUME MovementAssumption, TypeOK, StartTravel \/ StartHold \/ StartClosedLoop
  PROVE  /\ TypeOK' /\ momentum' = 0
         /\ mv'.phase = "CRUISE" => mv'.cur <= mv'.speed /\ mv'.axis # "none"
<1>2. momentum' = 0 /\ auto' = auto /\ out' = out /\ orders > 0 /\ orders' = orders - 1
  BY DEF StartTravel, StartHold, StartClosedLoop, Order
<1>3. mv' \in MvType /\ (mv'.phase = "CRUISE" => mv'.cur <= mv'.speed /\ mv'.axis # "none")
  <2>1. CASE StartTravel
    <3>1. PICK axis \in Axes, speed \in 1 .. MaxSpeed, dur \in Durations, limit \in Timeouts :
            mv' = [Ordered("CRUISE", limit) EXCEPT !.axis = axis, !.speed = speed, !.dur = dur,
                                                   !.cur = 0]
      BY <2>1, Zenon DEF StartTravel
    <3>2. Ordered("CRUISE", limit) \in MvType
      BY OrderedType, PhaseNames
    <3>3. /\ speed \in 0 .. MaxSpeed /\ dur \in 0 .. Beyond /\ 0 \in 0 .. MaxSpeed /\ 0 <= speed
          /\ axis # "none"
      BY Limits
    <3> HIDE DEF Ordered
    <3> QED
      BY <3>1, <3>2, <3>3 DEF MvType
  <2>2. CASE StartHold
    <3>1. PICK speed \in 0 .. MaxSpeed, dur \in Durations, limit \in Timeouts :
            mv' = [Ordered("HOLD", limit) EXCEPT !.speed = speed, !.dur = dur, !.cur = 0]
      BY <2>2, Zenon DEF StartHold
    <3>2. Ordered("HOLD", limit) \in MvType /\ Ordered("HOLD", limit).phase = "HOLD"
      BY OrderedType, PhaseNames
    <3>3. dur \in 0 .. Beyond /\ 0 \in 0 .. MaxSpeed
      BY Limits
    <3> QED
      BY <3>1, <3>2, <3>3 DEF MvType
  <2>3. CASE StartClosedLoop
    <3>1. PICK phase \in ClosedLoop \cup {"STYLE"}, speed \in 0 .. MaxSpeed, limit \in Timeouts :
            mv' = [Ordered(phase, limit) EXCEPT !.speed = speed]
      BY <2>3, Zenon DEF StartClosedLoop
    <3>2. phase \in Phases /\ phase # "CRUISE"
      BY PhaseNames DEF ClosedLoop
    <3>3. Ordered(phase, limit) \in MvType /\ Ordered(phase, limit).phase = phase
      BY <3>2, OrderedType
    <3> QED
      BY <3>1, <3>2, <3>3, Limits DEF MvType
  <2> QED
    BY <2>1, <2>2, <2>3
<1>4. TypeOK'
  BY <1>2, <1>3, Limits DEF TypeOK, MvType
<1> QED
  BY <1>2, <1>3, <1>4

\* STOP brakes along the axis of the leg it ends, from the speed of its ramp.
LEMMA StopTypes ==
  ASSUME MovementAssumption, TypeOK, StartStop
  PROVE  /\ TypeOK' /\ momentum' = momentum /\ mv'.phase = "BRAKE" /\ mv'.elapsed = 0
         /\ mv'.axis = mv.axis /\ mv'.speed = mv.cur /\ mv'.brake = mv.cur
<1>1. momentum' = momentum /\ auto' = auto /\ out' = out /\ orders > 0 /\ orders' = orders - 1
  BY DEF StartStop, Order
<1>2. PICK limit \in Timeouts :
        mv' = [Ordered("BRAKE", limit) EXCEPT !.axis = mv.axis, !.speed = mv.cur, !.brake = mv.cur]
  BY Zenon DEF StartStop, StopLeg, BrakePasses
<1>3. mv \in MvType
  BY DEF TypeOK, MvType
<1>4. Ordered("BRAKE", limit) \in MvType /\ Ordered("BRAKE", limit).phase = "BRAKE"
  BY OrderedType, PhaseNames
<1>5. Ordered("BRAKE", limit).elapsed = 0
  BY <1>3 DEF Ordered, MvType
<1>6. /\ mv' \in MvType /\ mv'.phase = "BRAKE" /\ mv'.elapsed = 0
      /\ mv'.axis = mv.axis /\ mv'.speed = mv.cur /\ mv'.brake = mv.cur
  BY <1>2, <1>3, <1>4, <1>5, Zenon DEF MvType
<1>7. TypeOK'
  BY <1>1, <1>6, Limits DEF TypeOK, MvType
<1> QED
  BY <1>1, <1>6, <1>7

LEMMA AbortTypes ==
  ASSUME MovementAssumption, TypeOK, Abort PROVE TypeOK' /\ momentum' = 0 /\ mv'.phase = "BRAKE"
<1>1. mv \in MvType
  BY DEF TypeOK, MvType
<1>2. momentum' = 0 /\ auto' = auto /\ out' = out /\ orders > 0 /\ orders' = orders - 1
  BY DEF Abort
<1>3. mv' \in MvType /\ mv'.phase = "BRAKE"
  BY <1>1, Limits, PhaseNames DEF Abort, BrakePasses, MvType
<1>4. TypeOK'
  BY <1>2, <1>3, Limits DEF TypeOK, MvType
<1> QED
  BY <1>2, <1>3, <1>4

LEMMA InterludeTypes ==
  ASSUME MovementAssumption, TypeOK, Interlude
  PROVE  /\ TypeOK' /\ momentum' = 0
         /\ mv'.phase = mv.phase /\ mv'.cur = mv.cur /\ mv'.speed = mv.speed /\ mv'.axis = mv.axis
<1>1. mv \in MvType
  BY DEF TypeOK, MvType
<1>2. PICK later \in (mv.elapsed + 1) .. Beyond : mv' = [mv EXCEPT !.elapsed = later]
  BY Zenon DEF Interlude
<1>3. /\ momentum' = 0 /\ auto' = auto /\ out' = NoThrust
      /\ orders' = orders \/ (orders > 0 /\ orders' = orders - 1)
  BY DEF Interlude
<1>4. later \in 0 .. Beyond
  BY <1>1, Limits DEF MvType
<1>5. /\ mv' \in MvType /\ mv'.phase = mv.phase /\ mv'.cur = mv.cur
      /\ mv'.speed = mv.speed /\ mv'.axis = mv.axis
  BY <1>1, <1>2, <1>4 DEF MvType
<1>6. TypeOK'
  <2>1. out' \in [axis : Axes \cup {"none"}, sense : {"off", "along", "against"}]
    BY <1>3 DEF NoThrust
  <2> QED
    BY <1>3, <1>5, <2>1, Limits DEF TypeOK, MvType
<1> QED
  BY <1>3, <1>5, <1>6

---------------------------------------------------------------------------
(* update() *)

\* The state after the time-out has been looked at.
LEMMA LimitedType ==
  ASSUME MovementAssumption, TypeOK
  PROVE  /\ Limited(mv) \in MvType
         /\ \/ Limited(mv) = mv
            \/ /\ mv.phase # "BRAKE"
               /\ Limited(mv).phase = "BRAKE" /\ Limited(mv).elapsed = 0
               /\ Limited(mv).brake = mv.cur
               /\ Limited(mv).axis = mv.axis /\ Limited(mv).speed = mv.speed
<1>1. mv \in MvType
  BY DEF TypeOK, MvType
<1>2. CASE ~TimedOut(mv)
  BY <1>1, <1>2, Zenon DEF Limited
<1>3. CASE TimedOut(mv)
  <2>1. Limited(mv) = [mv EXCEPT !.phase = "BRAKE", !.elapsed = 0, !.brake = mv.cur]
    BY <1>3, Zenon DEF Limited, BrakePasses
  <2>2. mv.phase # "BRAKE"
    BY <1>3, Zenon DEF TimedOut
  <2> QED
    BY <1>1, <2>1, <2>2, Limits, PhaseNames DEF MvType
<1> QED
  BY <1>2, <1>3

\* The ramp stops at the cruise speed.
LEMMA Ramp ==
  ASSUME MovementAssumption, NEW m \in MvType
  PROVE  /\ Ramped(m) \in 0 .. MaxSpeed /\ Ramped(m) >= m.cur
         /\ m.cur <= m.speed => Ramped(m) <= m.speed
BY Limits DEF Ramped, MvType

\* What a pass of each phase leaves.
LEMMA CruisePass ==
  ASSUME MovementAssumption, NEW m \in MvType, m.phase = "CRUISE"
  PROVE  /\ Cruised(m) \in MvType
         /\ Cruised(m).cur = Ramped(m) /\ Cruised(m).speed = m.speed /\ Cruised(m).axis = m.axis
         /\ \/ Cruised(m).phase = "CRUISE"
            \/ Cruised(m).phase = "BRAKE" /\ Cruised(m).elapsed = 0 /\ Cruised(m).brake = m.speed
<1>1. PICK r \in 0 .. MaxSpeed : r = Ramped(m)
  BY Ramp
<1>2. CASE m.elapsed >= m.dur
  <2>1. Cruised(m) = [[m EXCEPT !.cur = r] EXCEPT !.phase = "BRAKE", !.elapsed = 0,
                                                  !.brake = m.speed]
    BY <1>1, <1>2, Zenon DEF Cruised, BrakePasses
  <2> QED
    BY <1>1, <2>1, Limits, PhaseNames DEF MvType
<1>3. CASE ~(m.elapsed >= m.dur)
  <2>1. Cruised(m) = [m EXCEPT !.cur = r]
    BY <1>1, <1>3, Zenon DEF Cruised
  <2> QED
    BY <1>1, <2>1 DEF MvType
<1> QED
  BY <1>2, <1>3

LEMMA BrakePass ==
  ASSUME MovementAssumption, NEW m \in MvType, m.phase = "BRAKE"
  PROVE  /\ Braked(m) \in MvType
         /\ Braked(m).axis = m.axis /\ Braked(m).speed = m.speed
         /\ Braked(m).elapsed = m.elapsed /\ Braked(m).brake = m.brake
         /\ \/ Braked(m).phase = "BRAKE" /\ m.elapsed < m.brake
            \/ Braked(m).phase = "DONE" /\ m.elapsed >= m.brake
<1>1. CASE m.elapsed >= m.brake
  <2>1. Braked(m) = [m EXCEPT !.cur = 0, !.phase = "DONE"]
    BY <1>1 DEF Braked, MvType
  <2> QED
    BY <1>1, <2>1, Limits, PhaseNames DEF MvType
<1>2. CASE m.elapsed < m.brake
  <2>1. Braked(m) = [m EXCEPT !.cur = 0, !.phase = m.phase]
    <3>1. ~(m.elapsed >= m.brake)
      BY <1>2, Limits DEF MvType
    <3> QED
      BY <3>1, Zenon DEF Braked
  <2> QED
    BY <1>2, <2>1, Limits DEF MvType
<1>3. m.elapsed \in Nat /\ m.brake \in Nat
  BY Limits DEF MvType
<1> QED
  BY <1>1, <1>2, <1>3

\* A leg and a brake step in one way.
LEMMA OneWay ==
  ASSUME NEW m
  PROVE  /\ m.phase = "CRUISE" => Stepped(m) = {Cruised(m)}
         /\ m.phase = "BRAKE" => Stepped(m) = {Braked(m)}
<1>1. ASSUME m.phase = "CRUISE" PROVE Stepped(m) = {Cruised(m)}
  <2>1. m.phase \notin {"BRAKE", "HOLD", "TURN", "DIVE", "STYLE", "DONE", "IDLE"}
    BY <1>1
  <2> QED
    BY <1>1, <2>1 DEF Stepped, ClosedLoop
<1>2. ASSUME m.phase = "BRAKE" PROVE Stepped(m) = {Braked(m)}
  <2>1. m.phase \notin {"CRUISE", "HOLD", "TURN", "DIVE", "STYLE", "DONE", "IDLE"}
    BY <1>2
  <2> QED
    BY <1>2, <2>1 DEF Stepped, ClosedLoop
<1> QED
  BY <1>1, <1>2

LEMMA OtherPass ==
  ASSUME MovementAssumption, NEW m \in MvType, m.phase \notin {"CRUISE", "BRAKE"},
         NEW next \in Stepped(m)
  PROVE  next \in MvType /\ next.phase \notin {"CRUISE", "BRAKE"}
<1>1. CASE m.phase = "HOLD"
  <2>1. next = Held(m)
    BY <1>1 DEF Stepped, ClosedLoop
  <2>2. \/ next = [m EXCEPT !.phase = "DONE"]
        \/ next = [m EXCEPT !.phase = m.phase]
    BY <2>1 DEF Held
  <2> QED
    BY <1>1, <2>2, PhaseNames DEF MvType
<1>2. CASE m.phase \in ClosedLoop \cup {"STYLE"}
  <2>1. next \in Steered(m)
    BY <1>2 DEF Stepped, ClosedLoop
  <2>2. next = m \/ next = [m EXCEPT !.phase = "DONE"]
    BY <2>1 DEF Steered
  <2> QED
    BY <1>2, <2>2, PhaseNames DEF MvType, ClosedLoop
<1>3. CASE m.phase \in {"DONE", "IDLE"}
  <2>1. next = [m EXCEPT !.phase = "IDLE", !.running = FALSE]
    BY <1>3 DEF Stepped, ClosedLoop
  <2> QED
    BY <2>1, PhaseNames DEF MvType
<1>4. m.phase \in Phases
  BY DEF MvType
<1> QED
  BY <1>1, <1>2, <1>3, <1>4, PhaseNames DEF ClosedLoop

\* A pass ages the phase.
LEMMA Aged ==
  ASSUME MovementAssumption, NEW m \in MvType
  PROVE  /\ Passed(m) \in MvType /\ Passed(m).elapsed <= m.elapsed + 1
         /\ Passed(m).phase = m.phase /\ Passed(m).cur = m.cur /\ Passed(m).brake = m.brake
         /\ Passed(m).axis = m.axis /\ Passed(m).speed = m.speed
<1>1. m.elapsed \in 0 .. Beyond
  BY DEF MvType
<1>2. PICK age \in 0 .. Beyond :
        age <= m.elapsed + 1 /\ age = IF m.elapsed < Beyond THEN m.elapsed + 1 ELSE m.elapsed
  BY <1>1, Limits
<1>3. Passed(m) = [m EXCEPT !.elapsed = age]
  BY <1>2 DEF Passed
<1> QED
  BY <1>2, <1>3 DEF MvType

LEMMA UpdateTypes == ASSUME MovementAssumption, TypeOK, Update PROVE TypeOK'
<1>1. PICK m \in MvType : m = Limited(mv)
  BY LimitedType
<1>2. PICK next \in Stepped(m) : mv' = Passed(next)
  BY <1>1, Zenon DEF Update
<1>3. out' = Demand(m) /\ momentum' = Hull(m) /\ auto' = auto /\ orders' = orders
  BY <1>1, Zenon DEF Update
<1>4. momentum \in 0 .. MaxSpeed /\ auto \in BOOLEAN /\ orders \in 0 .. Orders
  BY DEF TypeOK
<1>5. next \in MvType
  <2>1. CASE m.phase = "CRUISE"
    BY <2>1, CruisePass, OneWay
  <2>2. CASE m.phase = "BRAKE"
    BY <2>2, BrakePass, OneWay
  <2> QED
    BY <2>1, <2>2, OtherPass
<1>6. mv' \in MvType
  BY <1>2, <1>5, Aged
<1>7. momentum' \in 0 .. MaxSpeed
  <2>1. CASE m.phase = "CRUISE"
    BY <1>3, <2>1, Ramp DEF Hull
  <2>2. CASE m.phase # "CRUISE"
    <3>1. momentum' = momentum \/ (momentum > 0 /\ momentum' = momentum - 1)
      BY <1>3, <2>2, Zenon DEF Hull
    <3> QED
      BY <1>4, <3>1, Limits
  <2> QED
    BY <2>1, <2>2
<1>8. out' \in [axis : Axes \cup {"none"}, sense : {"off", "along", "against"}]
  BY <1>3 DEF Demand, Push, NoThrust, MvType
<1> QED
  BY <1>3, <1>4, <1>6, <1>7, <1>8, Zenon DEF TypeOK, MvType

LEMMA TypeStep == ASSUME MovementAssumption, TypeOK, [Next]_vars PROVE TypeOK'
<1>1. CASE Next
  BY <1>1, ModeTypes, OrderTypes, StopTypes, AbortTypes, UpdateTypes, InterludeTypes DEF Next
<1>2. CASE UNCHANGED vars
  BY <1>2, Zenon DEF vars, TypeOK
<1> QED
  BY <1>1, <1>2

(***************************************************************************)
(* The variables of movement.cpp stay in their ranges, speeds, brake times *)
(* and ages among them, whatever is ordered, aborted and updated.          *)
(***************************************************************************)
THEOREM MovementTypeCorrect == ASSUME MovementAssumption PROVE Spec => []TypeOK
<1>1. Init => TypeOK
  BY MovementInit DEF RestInv
<1>2. TypeOK /\ [Next]_vars => TypeOK'
  BY TypeStep
<1> QED
  BY <1>1, <1>2, PTL DEF Spec

---------------------------------------------------------------------------
(* The brake *)

\* A step that leaves no speed keeps the invariant.
LEMMA AtRest ==
  ASSUME TypeOK', momentum' = 0,
         mv'.phase = "CRUISE" => mv'.cur <= mv'.speed /\ mv'.axis # "none"
  PROVE  RestInv'
<1>1. mv'.phase = "CRUISE" => 0 <= mv'.cur
  BY DEF TypeOK
<1> QED
  BY <1>1 DEF RestInv, Moving, Ramping, PassesLeft

\* What STOP brakes is the speed the ramp has reached; without a leg there is none.
LEMMA StopHolds ==
  ASSUME MovementAssumption, StopAgain = FALSE, RestInv, StartStop PROVE RestInv'
<1>1. TypeOK /\ Moving /\ Ramping /\ mv.phase # "BRAKE"
  BY DEF RestInv, StartStop
<1>2. /\ TypeOK' /\ momentum' = momentum /\ mv'.phase = "BRAKE" /\ mv'.elapsed = 0
      /\ mv'.axis = mv.axis /\ mv'.speed = mv.cur /\ mv'.brake = mv.cur
  BY <1>1, StopTypes
<1>3. momentum > 0 => mv.axis # "none" /\ momentum <= mv.cur
  BY <1>1 DEF Moving, Ramping
<1>4. momentum \in Nat /\ mv.cur \in Nat
  BY <1>1, Limits DEF TypeOK
<1> QED
  BY <1>2, <1>3, <1>4 DEF RestInv, Moving, Ramping, PassesLeft

\* The time-out brakes a leg by the speed of its ramp.
LEMMA AfterLimit ==
  ASSUME MovementAssumption, RestInv, NEW m \in MvType, m = Limited(mv)
  PROVE  /\ momentum > 0 => m.phase \in {"CRUISE", "BRAKE"} /\ m.axis # "none" /\ m.speed > 0
         /\ m.phase = "CRUISE" => momentum <= m.cur /\ m.cur <= m.speed /\ m.axis # "none"
         /\ m.phase = "BRAKE" /\ momentum > 0 => momentum + m.elapsed <= m.brake + 1
<1>1. TypeOK /\ Moving /\ Ramping /\ PassesLeft
  BY DEF RestInv
<1>2. CASE m = mv
  <2>1. /\ momentum > 0 => mv.phase \in {"CRUISE", "BRAKE"} /\ mv.axis # "none" /\ mv.speed > 0
        /\ mv.phase = "CRUISE" => momentum <= mv.cur /\ mv.cur <= mv.speed /\ mv.axis # "none"
        /\ mv.phase = "BRAKE" /\ momentum > 0 => momentum + mv.elapsed <= mv.brake + 1
    BY <1>1 DEF Moving, Ramping, PassesLeft
  <2> QED
    BY <1>2, <2>1
<1>3. CASE m # mv
  <2>1. /\ mv.phase # "BRAKE" /\ m.phase = "BRAKE" /\ m.elapsed = 0
        /\ m.brake = mv.cur /\ m.axis = mv.axis /\ m.speed = mv.speed
    BY <1>1, <1>3, LimitedType
  <2>2. momentum > 0 => mv.axis # "none" /\ mv.speed > 0 /\ momentum <= mv.cur
    BY <1>1, <2>1 DEF Moving, Ramping
  <2>3. momentum \in Nat /\ mv.cur \in Nat
    BY <1>1, Limits DEF TypeOK
  <2> QED
    BY <2>1, <2>2, <2>3
<1> QED
  BY <1>2, <1>3

LEMMA UpdateHolds == ASSUME MovementAssumption, RestInv, Update PROVE RestInv'
<1>1. TypeOK /\ TypeOK'
  BY UpdateTypes DEF RestInv
<1>2. PICK m \in MvType : m = Limited(mv)
  BY <1>1, LimitedType
<1>3. PICK next \in Stepped(m) : mv' = Passed(next)
  BY <1>2, Zenon DEF Update
<1>4. momentum' = Hull(m)
  BY <1>2, Zenon DEF Update
<1>5. momentum \in Nat /\ m.cur \in Nat /\ m.elapsed \in Nat /\ m.brake \in Nat /\ m.speed \in Nat
  BY <1>1, Limits DEF TypeOK, MvType
<1>6. CASE m.phase = "CRUISE"
  <2>1. PICK r \in 0 .. MaxSpeed : r = Ramped(m)
    BY Ramp
  <2>2. r >= m.cur /\ r <= m.speed /\ m.axis # "none"
    BY <1>2, <1>6, <2>1, AfterLimit, Ramp
  <2>3. momentum' = r
    BY <1>4, <1>6, <2>1 DEF Hull
  <2>4. /\ next \in MvType /\ next.cur = r /\ next.speed = m.speed /\ next.axis = m.axis
        /\ \/ next.phase = "CRUISE"
           \/ next.phase = "BRAKE" /\ next.elapsed = 0 /\ next.brake = m.speed
    BY <1>3, <1>6, <2>1, CruisePass, OneWay
  <2>5. /\ mv'.phase = next.phase /\ mv'.cur = r /\ mv'.speed = m.speed /\ mv'.axis = m.axis
        /\ mv'.brake = next.brake /\ mv'.elapsed <= next.elapsed + 1
    BY <1>3, <2>4, Aged
  <2>6. mv'.elapsed \in Nat /\ r \in Nat
    BY <1>1, Limits DEF TypeOK
  <2> QED
    BY <1>1, <1>5, <2>2, <2>3, <2>4, <2>5, <2>6 DEF RestInv, Moving, Ramping, PassesLeft
<1>7. CASE m.phase = "BRAKE"
  <2>1. momentum > 0 =>
          m.axis # "none" /\ m.speed > 0 /\ momentum + m.elapsed <= m.brake + 1
    BY <1>2, <1>7, AfterLimit
  <2>2. momentum > 0 => momentum' = momentum - 1
    <3>1. momentum > 0 => m.axis # "none" /\ m.speed # 0
      BY <1>5, <2>1
    <3>2. momentum > 0 => Demand(m).sense = "against"
      BY <1>7, <3>1 DEF Demand, Push
    <3> QED
      BY <1>4, <1>7, <3>2 DEF Hull
  <2>3. ~(momentum > 0) => momentum' = momentum
    BY <1>4, <1>7, Zenon DEF Hull
  <2>4. /\ next \in MvType /\ next.speed = m.speed /\ next.axis = m.axis
        /\ next.elapsed = m.elapsed /\ next.brake = m.brake
        /\ \/ next.phase = "BRAKE" /\ m.elapsed < m.brake
           \/ next.phase = "DONE" /\ m.elapsed >= m.brake
    BY <1>3, <1>7, BrakePass, OneWay
  <2>5. /\ mv'.phase = next.phase /\ mv'.speed = m.speed /\ mv'.axis = m.axis
        /\ mv'.brake = m.brake /\ mv'.elapsed <= m.elapsed + 1
    BY <1>3, <2>4, Aged
  <2>6. mv'.elapsed \in Nat
    BY <1>1, Limits DEF TypeOK
  <2> QED
    BY <1>1, <1>5, <2>1, <2>2, <2>3, <2>4, <2>5, <2>6 DEF RestInv, Moving, Ramping, PassesLeft
<1>8. CASE m.phase \notin {"CRUISE", "BRAKE"}
  <2>1. momentum = 0
    BY <1>2, <1>5, <1>8, AfterLimit
  <2>2. momentum' = momentum
    BY <1>4, <1>8 DEF Hull
  <2>3. mv'.phase \notin {"CRUISE", "BRAKE"}
    BY <1>3, <1>8, OtherPass, Aged
  <2> QED
    BY <1>1, <2>1, <2>2, <2>3, AtRest
<1> QED
  BY <1>6, <1>7, <1>8

LEMMA RestStep ==
  ASSUME MovementAssumption, StopAgain = FALSE, RestInv, [Next]_vars PROVE RestInv'
<1>1. TypeOK /\ Ramping
  BY DEF RestInv
<1>2. CASE EnterAuto \/ LeaveAuto \/ StartTravel \/ StartHold \/ StartClosedLoop \/ Abort
  BY <1>1, <1>2, ModeTypes, OrderTypes, AbortTypes, AtRest
<1>3. CASE Interlude
  <2>1. /\ TypeOK' /\ momentum' = 0
        /\ mv'.phase = mv.phase /\ mv'.cur = mv.cur /\ mv'.speed = mv.speed /\ mv'.axis = mv.axis
    BY <1>1, <1>3, InterludeTypes
  <2> QED
    BY <1>1, <2>1, AtRest DEF Ramping
<1>4. CASE UNCHANGED vars
  BY <1>4, Zenon DEF vars, RestInv, TypeOK, Moving, Ramping, PassesLeft
<1> QED
  BY <1>2, <1>3, <1>4, StopHolds, UpdateHolds DEF Next

\* The inductive invariant in all states, with one STOP for a leg.
THEOREM RestThroughout ==
  ASSUME MovementAssumption, StopAgain = FALSE PROVE Spec => []RestInv
<1>1. Init => RestInv
  BY MovementInit
<1>2. RestInv /\ [Next]_vars => RestInv'
  BY RestStep
<1> QED
  BY <1>1, <1>2, PTL DEF Spec

(***************************************************************************)
(* A leg that has come to its end leaves no speed unbraked, for every      *)
(* cruise speed, ramp and time-out.  A second STOP in the brake of the     *)
(* first is left out: it restarts the brake from the speed of the ramp,    *)
(* which the first pass of the brake has set to zero.                      *)
(***************************************************************************)
THEOREM LegsEndAtRest ==
  ASSUME MovementAssumption, StopAgain = FALSE PROVE Spec => []StopsAtRest
<1>1. RestInv => StopsAtRest
  BY Limits DEF RestInv, TypeOK, Moving, StopsAtRest
<1> QED
  BY <1>1, RestThroughout, PTL
---------------------------------------------------------------------------
(* The phases as the flight loop sees them *)

\* The phases of ControlLoop that an update may lead to.
After(phase) == {m.move : m \in Loop!MoveUpdate([move |-> phase, stunt |-> TRUE])}

LEMMA LoopUpdates ==
  /\ {"RUN", "BRAKE", "DONE"} \subseteq After("RUN")
  /\ {"BRAKE", "DONE"} \subseteq After("BRAKE")
  /\ {"NONE", "BRAKE", "DONE"} \subseteq After("DONE")
  /\ "NONE" \in After("NONE")
  /\ {"STYLE", "BRAKE", "DONE"} \subseteq After("STYLE")
<1> DEFINE R(phase) == [move |-> phase, stunt |-> TRUE]
           To(old, phase) == [R(old) EXCEPT !.move = phase]
<1>1. \A old, phase : To(old, phase).move = phase /\ R(old).move = old
  OBVIOUS
<1>2. /\ Loop!MoveUpdate(R("RUN")) = {To("RUN", p) : p \in {"RUN", "BRAKE", "DONE"}}
      /\ Loop!MoveUpdate(R("BRAKE")) = {To("BRAKE", p) : p \in {"BRAKE", "DONE"}}
      /\ Loop!MoveUpdate(R("DONE")) = {To("DONE", p) : p \in {"NONE", "BRAKE", "DONE"}}
      /\ Loop!MoveUpdate(R("NONE")) = {R("NONE")}
  BY DEF Loop!MoveUpdate
<1>3. /\ To("STYLE", "BRAKE") \in Loop!MoveUpdate(R("STYLE"))
      /\ To("STYLE", "DONE") \in Loop!MoveUpdate(R("STYLE"))
      /\ [R("STYLE") EXCEPT !.stunt = TRUE, !.move = "STYLE"] \in Loop!MoveUpdate(R("STYLE"))
  BY DEF Loop!MoveUpdate, Loop!MachineUpdate
<1>4. [R("STYLE") EXCEPT !.stunt = TRUE, !.move = "STYLE"].move = "STYLE"
  OBVIOUS
<1>5. \A phase, m : m \in Loop!MoveUpdate(R(phase)) => m.move \in After(phase)
  BY Zenon DEF After
<1> HIDE DEF R, To
<1>6. {"RUN", "BRAKE", "DONE"} \subseteq After("RUN")
  BY <1>1, <1>2, <1>5
<1>7. {"BRAKE", "DONE"} \subseteq After("BRAKE")
  BY <1>1, <1>2, <1>5
<1>8. {"NONE", "BRAKE", "DONE"} \subseteq After("DONE")
  BY <1>1, <1>2, <1>5
<1>9. "NONE" \in After("NONE")
  BY <1>1, <1>2, <1>5
<1>10. {"STYLE", "BRAKE", "DONE"} \subseteq After("STYLE")
  <2>1. "STYLE" \in After("STYLE")
    BY <1>3, <1>4, <1>5, Zenon
  <2>2. "BRAKE" \in After("STYLE") /\ "DONE" \in After("STYLE")
    BY <1>1, <1>3, <1>5, Zenon
  <2> QED
    BY <2>1, <2>2
<1> QED
  BY <1>6, <1>7, <1>8, <1>9, <1>10

\* PH_IDLE leaves no time-out to end.
PhaseInv == TypeOK /\ (mv.phase = "IDLE" => ~mv.running)

LEMMA LoopPhaseIs ==
  /\ mv.phase \in {"CRUISE", "HOLD", "TURN", "DIVE"} => LoopPhase = "RUN"
  /\ mv.phase = "IDLE" => LoopPhase = "NONE"
  /\ mv.phase \in {"BRAKE", "STYLE", "DONE"} => LoopPhase = mv.phase
BY DEF LoopPhase, Timed, ClosedLoop

LEMMA LoopPhaseThen ==
  /\ mv'.phase \in {"CRUISE", "HOLD", "TURN", "DIVE"} => LoopPhase' = "RUN"
  /\ mv'.phase = "IDLE" => LoopPhase' = "NONE"
  /\ mv'.phase \in {"BRAKE", "STYLE", "DONE"} => LoopPhase' = mv'.phase
BY DEF LoopPhase, Timed, ClosedLoop

\* One update, by phase.
LEMMA UpdatePhases ==
  ASSUME MovementAssumption, PhaseInv, Update
  PROVE  /\ mv.phase \in {"CRUISE", "HOLD", "TURN", "DIVE"} =>
              mv'.phase \in {"CRUISE", "HOLD", "TURN", "DIVE", "BRAKE", "DONE"}
         /\ mv.phase = "BRAKE" => mv'.phase \in {"BRAKE", "DONE"}
         /\ mv.phase = "STYLE" => mv'.phase \in {"STYLE", "BRAKE", "DONE"}
         /\ mv.phase = "DONE" => mv'.phase \in {"IDLE", "BRAKE", "DONE"}
         /\ mv.phase = "IDLE" => mv'.phase = "IDLE"
         /\ mv'.phase = "IDLE" => ~mv'.running
<1>2. PICK m : m = Limited(mv)
  OBVIOUS
<1>3. PICK next \in Stepped(m) : mv' = Passed(next)
  BY <1>2, Zenon DEF Update
<1>4. m \in MvType /\ (m.phase = mv.phase \/ (m.phase = "BRAKE" /\ mv.phase # "IDLE"))
  <2>1. m \in MvType /\ (m = mv \/ m.phase = "BRAKE")
    BY <1>2, LimitedType, Zenon DEF PhaseInv
  <2>2. mv.phase = "IDLE" => m = mv
    BY <1>2, Zenon DEF Limited, TimedOut, PhaseInv
  <2> QED
    BY <2>1, <2>2
<1>5. /\ m.phase = "CRUISE" => next.phase \in {"CRUISE", "BRAKE"}
      /\ m.phase = "BRAKE" => next.phase \in {"BRAKE", "DONE"}
      /\ m.phase = "HOLD" => next.phase \in {"HOLD", "DONE"}
      /\ m.phase \in {"TURN", "DIVE", "STYLE"} => next.phase \in {m.phase, "DONE"}
      /\ m.phase \in {"DONE", "IDLE"} => next.phase = "IDLE" /\ next.running = FALSE
  BY <1>3, <1>4 DEF Stepped, Cruised, Braked, Held, Steered, ClosedLoop, MvType
<1> QED
  BY <1>3, <1>4, <1>5, PhaseNames DEF Passed, MvType

\* An order or an abort begins a leg or a brake.
LEMMA OrderPhases ==
  ASSUME MovementAssumption, PhaseInv, StartTravel \/ StartHold \/ StartClosedLoop \/ StartStop \/ Abort
  PROVE  mv'.phase \in {"CRUISE", "HOLD", "TURN", "DIVE", "STYLE", "BRAKE"}
<1>1. mv \in MvType /\ TypeOK
  BY Zenon DEF PhaseInv, TypeOK, MvType
<1>2. ASSUME NEW phase \in Phases, NEW limit \in Timeouts
      PROVE  Ordered(phase, limit) \in MvType /\ Ordered(phase, limit).phase = phase
  BY <1>1, OrderedType
<1>3. CASE StartTravel
  <2>1. PICK axis \in Axes, speed \in 1 .. MaxSpeed, dur \in Durations, limit \in Timeouts :
          mv' = [Ordered("CRUISE", limit) EXCEPT !.axis = axis, !.speed = speed, !.dur = dur,
                                                 !.cur = 0]
    BY <1>3, Zenon DEF StartTravel
  <2>2. Ordered("CRUISE", limit) \in MvType /\ Ordered("CRUISE", limit).phase = "CRUISE"
    BY <1>2, PhaseNames
  <2> QED
    BY <2>1, <2>2, Zenon DEF MvType
<1>4. CASE StartHold
  <2>1. PICK speed \in 0 .. MaxSpeed, dur \in Durations, limit \in Timeouts :
          mv' = [Ordered("HOLD", limit) EXCEPT !.speed = speed, !.dur = dur, !.cur = 0]
    BY <1>4, Zenon DEF StartHold
  <2>2. Ordered("HOLD", limit) \in MvType /\ Ordered("HOLD", limit).phase = "HOLD"
    BY <1>2, PhaseNames
  <2> QED
    BY <2>1, <2>2, Zenon DEF MvType
<1>5. CASE StartClosedLoop
  <2>1. PICK phase \in ClosedLoop \cup {"STYLE"}, speed \in 0 .. MaxSpeed, limit \in Timeouts :
          mv' = [Ordered(phase, limit) EXCEPT !.speed = speed]
    BY <1>5, Zenon DEF StartClosedLoop
  <2>2. phase \in Phases /\ phase \in {"TURN", "DIVE", "STYLE"}
    BY PhaseNames DEF ClosedLoop
  <2>3. Ordered(phase, limit) \in MvType /\ Ordered(phase, limit).phase = phase
    BY <1>2, <2>2
  <2>4. mv'.phase = phase
    BY <2>1, <2>3, Zenon DEF MvType
  <2> QED
    BY <2>2, <2>4
<1>6. CASE StartStop
  BY <1>1, <1>6, StopTypes
<1>7. CASE Abort
  BY <1>1, <1>7, Zenon DEF Abort, MvType
<1> QED
  BY <1>3, <1>4, <1>5, <1>6, <1>7

LEMMA PhaseStep == ASSUME MovementAssumption, PhaseInv, [Next]_vars PROVE PhaseInv'
<1>1. TypeOK'
  BY TypeStep DEF PhaseInv
<1>2. mv \in MvType
  BY Zenon DEF PhaseInv, TypeOK, MvType
<1>3. CASE Update
  BY <1>1, <1>3, UpdatePhases DEF PhaseInv
<1>4. CASE EnterAuto \/ LeaveAuto
  BY <1>1, <1>2, <1>4, Zenon DEF EnterAuto, LeaveAuto, PhaseInv, MvType
<1>5. CASE StartTravel \/ StartHold \/ StartClosedLoop \/ StartStop \/ Abort
  BY <1>1, <1>5, OrderPhases DEF PhaseInv
<1>6. CASE Interlude
  BY <1>1, <1>2, <1>6, Zenon DEF Interlude, PhaseInv, MvType
<1>7. CASE UNCHANGED vars
  BY <1>1, <1>7, Zenon DEF vars, PhaseInv
<1> QED
  BY <1>3, <1>4, <1>5, <1>6, <1>7 DEF Next

(***************************************************************************)
(* The movement primitives implement the flight loop's view of a move      *)
(* (LoopPhases), for every speed, duration and time-out.                   *)
(***************************************************************************)
THEOREM ImplementsLoopPhases == ASSUME MovementAssumption PROVE Spec => LoopPhases
<1> DEFINE Sees ==
      \/ Update /\ LoopPhase' \in {m.move : m \in Loop!MoveUpdate([move |-> LoopPhase, stunt |-> TRUE])}
      \/ ~Update /\ LoopPhase' = LoopPhase
      \/ orders' < orders /\ LoopPhase' \in {"RUN", "STYLE", "BRAKE"}
      \/ auto' # auto /\ LoopPhase' = "NONE"
<1>1. ASSUME PhaseInv, Next PROVE Sees
  <2>1. CASE Update
    <3>1. LoopPhase' \in After(LoopPhase)
      <4>1. mv.phase \in Phases
        BY <1>1 DEF PhaseInv, TypeOK
      <4> QED
        BY <1>1, <2>1, <4>1, UpdatePhases, LoopPhaseIs, LoopPhaseThen, LoopUpdates, PhaseNames
    <3> QED
      BY <2>1, <3>1, Zenon DEF After
  <2>2. CASE EnterAuto \/ LeaveAuto
    <3>1. auto' # auto /\ mv'.phase = "IDLE"
      BY <1>1, <2>2, ModeTypes DEF EnterAuto, LeaveAuto, PhaseInv
    <3> QED
      BY <3>1, LoopPhaseThen
  <2>3. CASE StartTravel \/ StartHold \/ StartClosedLoop \/ StartStop \/ Abort
    <3>1. mv'.phase \in {"CRUISE", "HOLD", "TURN", "DIVE", "STYLE", "BRAKE"}
      BY <1>1, <2>3, OrderPhases
    <3>2. orders' < orders
      <4>1. orders' = orders - 1
        BY <2>3, Zenon DEF StartTravel, StartHold, StartClosedLoop, StartStop, Abort, Order
      <4>2. orders \in Nat
        BY <1>1, Limits DEF PhaseInv, TypeOK
      <4> QED
        BY <4>1, <4>2
    <3> QED
      BY <3>1, <3>2, LoopPhaseThen
  <2>4. CASE Interlude
    <3>1. mv'.phase = mv.phase
      BY <1>1, <2>4, Zenon DEF Interlude, PhaseInv, TypeOK
    <3>2. LoopPhase' = LoopPhase
      BY <3>1, Zenon DEF LoopPhase
    <3> QED
      BY <2>1, <3>2
  <2> QED
    BY <1>1, <2>1, <2>2, <2>3, <2>4 DEF Next
<1>2. PhaseInv /\ [Next]_vars => [Sees]_vars
  BY <1>1
<1>3. Init => PhaseInv
  <2> SUFFICES ASSUME Init PROVE PhaseInv
    OBVIOUS
  <2>1. TypeOK
    BY MovementInit DEF RestInv
  <2>2. mv.running = FALSE
    BY DEF Init
  <2> QED
    BY <2>1, <2>2, Zenon DEF PhaseInv
<1>4. PhaseInv /\ [Next]_vars => PhaseInv'
  BY PhaseStep
<1> QED
  BY <1>2, <1>3, <1>4, PTL DEF Spec, LoopPhases
=============================================================================
