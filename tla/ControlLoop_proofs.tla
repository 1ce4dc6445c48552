------------------------- MODULE ControlLoop_proofs -------------------------
(***************************************************************************)
(* Type correctness of the flight loop, for all values of the constants.   *)
(* One lemma per section of the loop and one for the handlers; in each, a  *)
(* step per variable that the action changes.                              *)
(***************************************************************************)
EXTENDS ControlLoop, TLAPS

\* A hold timer that ticks stays in its range.
LEMMA TickRange ==
  ASSUME NEW hold \in Nat, NEW since \in 0 .. hold + 1
  PROVE  Tick(since, hold) \in 0 .. hold + 1
  BY DEF Tick

\* Init establishes the types.
LEMMA InitType == ConstantsAssumption /\ Init => TypeOK
  BY DEF ConstantsAssumption, Init, TypeOK, ControlType, LoopInType, LatchType,
         MachType, Modes, Selectable, Sections, TestStates, DepthReadings,
         Routines, Phases, Drivers, Decisions, Faults, MoveSeqs, Core0Type

\* The snapshot has the type of what it copies, a stale one included.
LEMMA ReadInputsType == ConstantsAssumption /\ TypeOK /\ ReadInputs => TypeOK'
<1> SUFFICES ASSUME ConstantsAssumption, TypeOK, ReadInputs PROVE TypeOK'
  OBVIOUS
<1> USE DEF TypeOK
<1>1. Depths \subseteq DepthReadings
  BY Zenon DEF ConstantsAssumption
<1>2. in' \in LoopInType
  BY <1>1, SMT DEF ReadInputs, LoopInType, ControlType, Locked, LockOutcome
<1> QED
  BY <1>2, Zenon DEF ReadInputs, Sections

LEMMA CalibrateType == TypeOK /\ Calibrate => TypeOK'
  BY Zenon DEF TypeOK, Calibrate, Sections, TestStates, Routines

LEMMA ArmStateEdgesType == TypeOK /\ ArmStateEdges => TypeOK'
<1> SUFFICES ASSUME TypeOK, ArmStateEdges PROVE TypeOK'
  OBVIOUS
<1> USE DEF TypeOK
<1>1. st' \in LatchType
  BY Zenon DEF ArmStateEdges, LatchType, LoopInType
<1>2. in' \in LoopInType
  BY Zenon DEF ArmStateEdges, LoopInType, TestStates
<1>3. mach' \in MachType
  BY Zenon DEF ArmStateEdges, MachType, AbortAll, Phases
<1>4. control' \in ControlType
  BY Zenon DEF ArmStateEdges, DisarmClears, ControlType, Locked
<1>5. test' \in TestStates /\ cal' \in Routines
  BY Zenon DEF ArmStateEdges, ArmEdgeTest, TestStates, Routines, Locked
<1> QED
  BY <1>1, <1>2, <1>3, <1>4, <1>5, Zenon DEF ArmStateEdges, Sections

LEMMA RefuseDepthModesType == TypeOK /\ RefuseDepthModes => TypeOK'
<1> SUFFICES ASSUME TypeOK, RefuseDepthModes PROVE TypeOK'
  OBVIOUS
<1> USE DEF TypeOK
<1>1. in' \in LoopInType
  BY Zenon DEF RefuseDepthModes, LoopInType, Modes, Selectable
<1>2. control' \in ControlType
  BY Zenon DEF RefuseDepthModes, ControlType, Locked, Modes, Selectable
<1> QED
  BY <1>1, <1>2, Zenon DEF RefuseDepthModes, Sections

LEMMA MotorDetectDoneType == TypeOK /\ MotorDetectDone => TypeOK'
<1> SUFFICES ASSUME TypeOK, MotorDetectDone PROVE TypeOK'
  OBVIOUS
<1> USE DEF TypeOK
<1>1. in' \in LoopInType
  BY Zenon DEF MotorDetectDone, DetectHandsOver, LoopInType, Modes, Selectable
<1>2. control' \in ControlType
  BY Zenon DEF MotorDetectDone, DetectHandsOver, ControlType, Locked, Modes,
               Selectable
<1>3. acted' \in SUBSET Decisions
  BY DEF MotorDetectDone, Decisions
<1> QED
  BY <1>1, <1>2, <1>3, Zenon DEF MotorDetectDone, Sections

LEMMA EnterModeType == TypeOK /\ EnterMode => TypeOK'
<1> SUFFICES ASSUME TypeOK, EnterMode PROVE TypeOK'
  OBVIOUS
<1> USE DEF TypeOK
<1>1. st' \in LatchType
  BY Zenon DEF EnterMode, LatchType, LoopInType
<1>2. mach' \in MachType
  BY Zenon DEF EnterMode, MachType, EnterMachines, StartMove, Phases
<1>3. cal' \in Routines
  BY Zenon DEF EnterMode, EnterRoutine, Routines, Locked
<1> QED
  BY <1>1, <1>2, <1>3, Zenon DEF EnterMode, Sections

LEMMA TunesType == TypeOK /\ Tunes => TypeOK'
<1> SUFFICES ASSUME TypeOK, Tunes PROVE TypeOK'
  OBVIOUS
<1> USE DEF TypeOK
<1>1. AutotuneWanted \in BOOLEAN /\ MotorTuneWanted \in BOOLEAN
  BY Zenon DEF AutotuneWanted, MotorTuneWanted
<1>2. in' \in LoopInType
  BY Zenon DEF Tunes, LoopInType, Modes, Selectable
<1>3. control' \in ControlType
  BY Zenon DEF Tunes, ControlType, Locked, Modes, Selectable
<1>4. st' \in LatchType
  BY <1>1, Zenon DEF Tunes, LatchType
<1>5. mach' \in MachType
  BY Zenon DEF Tunes, MachType
<1>6. act' \in [at : BOOLEAN, mt : BOOLEAN]
  BY <1>1, Zenon DEF Tunes
<1> QED
  BY <1>2, <1>3, <1>4, <1>5, <1>6, Zenon DEF Tunes, Sections

LEMMA SafetyMonitorType == TypeOK /\ SafetyMonitor => TypeOK'
<1> SUFFICES ASSUME TypeOK, SafetyMonitor PROVE TypeOK'
  OBVIOUS
<1> USE DEF TypeOK
<1>1. st' \in LatchType
  BY Zenon DEF SafetyMonitor, LatchType
<1>2. in' \in LoopInType
  BY Zenon DEF SafetyMonitor, LoopInType
<1>3. mach' \in MachType
  BY Zenon DEF SafetyMonitor, MachType, AbortAll, Phases
<1>4. control' \in ControlType
  BY Zenon DEF SafetyMonitor, ControlType, Locked
<1>5. acted' \in SUBSET Decisions
  BY DEF SafetyMonitor, Decisions
<1>6. act' \in [at : BOOLEAN, mt : BOOLEAN]
  <2>1. [at |-> FALSE, mt |-> FALSE] \in [at : BOOLEAN, mt : BOOLEAN]
    BY SMT
  <2> QED
    BY <2>1, Zenon DEF SafetyMonitor
<1> QED
  BY <1>1, <1>2, <1>3, <1>4, <1>5, <1>6, Zenon DEF SafetyMonitor, Sections

LEMMA FailsafeType == ConstantsAssumption /\ TypeOK /\ Failsafe => TypeOK'
<1> SUFFICES ASSUME ConstantsAssumption, TypeOK, Failsafe PROVE TypeOK'
  OBVIOUS
<1> USE DEF TypeOK
<1>1. /\ st.surf_since \in 0 .. SurfHold + 1 /\ st.bat_since \in 0 .. BatHold + 1
      /\ BatHold \in Nat /\ SurfHold \in Nat
  BY Zenon DEF LatchType, ConstantsAssumption
<1>2. /\ BatteryTimer(st.bat_since) \in 0 .. BatHold + 1
      /\ SurfaceTimer(st.surf_since) \in 0 .. SurfHold + 1
      /\ 0 \in 0 .. BatHold + 1 /\ 0 \in 0 .. SurfHold + 1
  <2>1. /\ Tick(st.bat_since, BatHold) \in 0 .. BatHold + 1
        /\ Tick(st.surf_since, SurfHold) \in 0 .. SurfHold + 1
    BY <1>1, TickRange, Zenon
  <2>2. 0 \in 0 .. BatHold + 1 /\ 0 \in 0 .. SurfHold + 1
    BY <1>1, SMT
  <2> QED
    BY <2>1, <2>2, Zenon DEF BatteryTimer, SurfaceTimer
<1>3. FailsafeCauses \subseteq Faults
  BY DEF FailsafeCauses, LoopInType, ConstantsAssumption
<1>4. CASE ForceSurface
  <2>1. st' \in LatchType
    BY <1>2, <1>4, Zenon DEF ForceSurface, LatchType
  <2>2. in' \in LoopInType
    BY <1>4, Zenon DEF ForceSurface, LoopInType, Modes, Selectable
  <2>3. control' \in ControlType
    BY <1>4, Zenon DEF ForceSurface, ControlType, Locked, Modes, Selectable
  <2>4. acted' \in SUBSET Decisions
    BY <1>3, <1>4 DEF ForceSurface, Decisions
  <2> QED
    BY <2>1, <2>2, <2>3, <2>4, Zenon DEF Failsafe, Sections
<1>5. CASE SurfaceAndDisarm
  <2>1. st' \in LatchType
    BY <1>2, <1>5, Zenon DEF SurfaceAndDisarm, LatchType
  <2>2. in' \in LoopInType
    BY <1>5, Zenon DEF SurfaceAndDisarm, LoopInType
  <2>3. control' \in ControlType
    BY <1>5, Zenon DEF SurfaceAndDisarm, ControlType, Locked
  <2>4. acted' \in SUBSET Decisions
    BY <1>5 DEF SurfaceAndDisarm, Decisions
  <2> QED
    BY <2>1, <2>2, <2>3, <2>4, Zenon DEF Failsafe, Sections
<1> QED
  BY <1>4, <1>5, Zenon DEF Failsafe

LEMMA DriveType == TypeOK /\ Drive => TypeOK'
<1> SUFFICES ASSUME TypeOK, Drive PROVE TypeOK'
  OBVIOUS
<1> USE DEF TypeOK
<1>1. test' \in TestStates /\ in' \in LoopInType
  BY Zenon DEF Drive, LoopInType, TestStates, Locked
<1>2. out' \in [armed : BOOLEAN, driver : Drivers]
  <2>1. Driver \in Drivers
    BY Zenon DEF Driver, Drivers
  <2> QED
    BY <2>1, SMT DEF Drive, Locked, LoopInType
<1>3. /\ mach' \in MachType /\ control' \in ControlType
      /\ acted' \in SUBSET Decisions
  <2>1. CASE DriveTest
    BY <2>1, Zenon DEF DriveTest
  <2>2. CASE DriveMotorTune
    <3>1. mach' \in MachType
      BY <2>2, Zenon DEF DriveMotorTune, MachineUpdate, MachType
    <3>2. control' \in ControlType
      BY <2>2, Zenon DEF DriveMotorTune, TuneFinished, ControlType, Modes, Selectable
    <3>3. acted' \in SUBSET Decisions
      BY <2>2 DEF DriveMotorTune, Decisions
    <3> QED
      BY <3>1, <3>2, <3>3
  <2>3. CASE DriveAutotune
    <3>1. mach' \in MachType
      BY <2>3, Zenon DEF DriveAutotune, MachineUpdate, MachType
    <3>2. control' \in ControlType
      BY <2>3, Zenon DEF DriveAutotune, TuneFinished, ControlType, Modes, Selectable
    <3>3. acted' \in SUBSET Decisions
      BY <2>3 DEF DriveAutotune, Decisions
    <3> QED
      BY <3>1, <3>2, <3>3
  <2>4. CASE DriveStunt
    BY <2>4, Zenon DEF DriveStunt, MachineUpdate, MachType, Locked, ControlType,
                       Modes, Selectable
  <2>5. CASE DrivePattern
    BY <2>5, Zenon DEF DrivePattern, MachineUpdate, MachType, Locked, ControlType,
                       Modes, Selectable
  <2>6. CASE DriveMode
    <3>1. MoveUpdate(mach) \subseteq MachType
      <4>1. \A phase \in Phases : [mach EXCEPT !.move = phase] \in MachType
        BY Zenon DEF MachType
      <4>2. \A phase \in Phases, spinning \in BOOLEAN :
              [mach EXCEPT !.stunt = spinning, !.move = phase] \in MachType
        BY Zenon DEF MachType
      <4>3. mach.move \in Phases
        BY Zenon DEF MachType
      <4> QED
        BY <4>1, <4>2, <4>3, Zenon DEF MoveUpdate, MachineUpdate, Phases
    <3> QED
      BY <2>6, <3>1, Zenon DEF DriveMode
  <2> QED
    BY <2>1, <2>2, <2>3, <2>4, <2>5, <2>6, Zenon DEF Drive
<1> QED
  BY <1>1, <1>2, <1>3, Zenon DEF Drive, Sections

LEMMA PublishMoveType == TypeOK /\ PublishMove => TypeOK'
<1> SUFFICES ASSUME TypeOK, PublishMove PROVE TypeOK'
  OBVIOUS
<1> USE DEF TypeOK
<1>1. control' \in ControlType
  BY Zenon DEF PublishMove, ControlType, LatchType
<1>2. st' \in LatchType
  BY Zenon DEF PublishMove, LatchType
<1> QED
  BY <1>1, <1>2, Zenon DEF PublishMove, Sections

\* Each section of the loop keeps the types.
LEMMA LoopType == ConstantsAssumption /\ TypeOK /\ Loop => TypeOK'
  BY ReadInputsType, CalibrateType, ArmStateEdgesType, RefuseDepthModesType,
     MotorDetectDoneType, EnterModeType, TunesType, SafetyMonitorType,
     FailsafeType, DriveType, PublishMoveType, Zenon DEF Loop

\* SROT_MOVE counts up only what its first step has seen room for.
MoveRoom ==
  /\ \A task \in Core0Tasks : core0[task] = "move" => control.mv_seq < MaxMoves
  /\ (\A task \in Core0Tasks : core0[task] = "move") => control.mv_seq + 1 < MaxMoves

\* The inductive invariant: the types need MoveRoom when MoveIssue counts up.
IInv == TypeOK /\ MoveRoom

\* A handler that takes its turn changes core0 for its own task.
LEMMA TurnsOwn ==
  ASSUME core0 \in Core0Type, NEW task \in Core0Tasks, NEW from,
         NEW to \in {"idle", "move", "test"}, Turns(task, from, to)
  PROVE  /\ core0' \in Core0Type /\ core0[task] = from /\ core0'[task] = to
         /\ \A other \in Core0Tasks : other # task => core0'[other] = core0[other]
  BY SMT DEF Core0Type, Turns

\* A handler leaves the loop alone.
LEMMA CommandFrame == ASSUME Command PROVE UNCHANGED <<pc, in, st, mach, act, out, acted>>
  BY Zenon DEF Command, ArmCommand, ModeCommand, Arm, JsArm, Disarm, SetMode, Stunt, Pattern,
     Autotune, ManualControl, StartCalibration, MoveCheck, MoveIssue, MoveRejected,
     MotorTestCheck, MotorTestSet, Finish, WritesControl

\* The handlers write control, the test override, the routine, or core0.
LEMMA CommandType == ConstantsAssumption /\ IInv /\ Command => TypeOK'
<1> SUFFICES ASSUME ConstantsAssumption, IInv, Command PROVE TypeOK'
  OBVIOUS
<1> USE DEF IInv, TypeOK, WritesControl
<1>1. CASE Arm \/ JsArm \/ Disarm \/ Autotune \/ ManualControl
  BY <1>1, Zenon DEF Arm, JsArm, Disarm, Autotune, ManualControl, ControlType
<1>2. CASE (\E m \in GcsModes : SetMode(m)) \/ Stunt \/ Pattern
  BY <1>2, Zenon DEF SetMode, Stunt, Pattern, ControlType, Modes, ConstantsAssumption
<1>3. ASSUME NEW task \in Core0Tasks, MoveIssue(task) PROVE TypeOK'
  <2>1. core0' \in Core0Type /\ core0[task] = "move"
    BY <1>3, TurnsOwn, Zenon DEF MoveIssue
  <2>2. control.mv_seq + 1 \in MoveSeqs
    BY <2>1, SMT DEF MoveRoom, ControlType, MoveSeqs, ConstantsAssumption
  <2> QED
    BY <1>3, <2>1, <2>2, Zenon DEF MoveIssue, ControlType, Modes, Selectable
<1>4. ASSUME NEW task \in Core0Tasks,
             MoveCheck(task) \/ MoveRejected(task) \/ MotorTestCheck(task) \/ MotorTestSet(task)
      PROVE  TypeOK'
  <2>1. core0' \in Core0Type
    BY <1>4, TurnsOwn, Zenon DEF MoveCheck, MoveRejected, MotorTestCheck, MotorTestSet
  <2> QED
    BY <1>4, <2>1, Zenon DEF MoveCheck, MoveRejected, MotorTestCheck, MotorTestSet, TestStates
<1>5. CASE StartCalibration
  BY <1>5, Zenon DEF StartCalibration, Routines
<1> QED
  BY <1>1, <1>2, <1>3, <1>4, <1>5, Zenon DEF Command, ArmCommand, ModeCommand, Finish

\* Time passing for the sticks and for the test override.
LEMMA TimeType == TypeOK /\ (SticksAge \/ TestLapses) => TypeOK'
  BY Zenon DEF TypeOK, SticksAge, TestLapses, WritesControl, ControlType, LoopInType,
               TestStates

\* No section of the loop counts moves or takes part in a handler.
LEMMA LoopCounts ==
  ASSUME TypeOK, Loop PROVE core0' = core0 /\ control'.mv_seq = control.mv_seq
<1> USE DEF TypeOK, ControlType
<1>1. CASE ReadInputs \/ Calibrate \/ EnterMode
  BY <1>1, Zenon DEF ReadInputs, Calibrate, EnterMode
<1>2. CASE ArmStateEdges \/ RefuseDepthModes \/ MotorDetectDone
  BY <1>2, Zenon DEF ArmStateEdges, RefuseDepthModes, MotorDetectDone,
                     DetectHandsOver, DisarmClears, Locked
<1>3. CASE Tunes \/ SafetyMonitor \/ PublishMove
  BY <1>3, Zenon DEF Tunes, SafetyMonitor, PublishMove, Locked
<1>4. CASE Failsafe
  BY <1>4, Zenon DEF Failsafe, ForceSurface, SurfaceAndDisarm, Locked
<1>5. CASE Drive
  BY <1>5, Zenon DEF Drive, DriveTest, DriveMotorTune, DriveAutotune,
                     DriveStunt, DrivePattern, DriveMode, TuneFinished, Locked
<1> QED
  BY <1>1, <1>2, <1>3, <1>4, <1>5, Zenon DEF Loop

\* A handler counts only with room.
LEMMA RoomKept == ConstantsAssumption /\ IInv /\ Next => MoveRoom'
<1> SUFFICES ASSUME ConstantsAssumption, IInv, Next PROVE MoveRoom'
  OBVIOUS
<1> USE DEF IInv, TypeOK, ControlType
<1>1. CASE Loop
  <2>1. core0' = core0 /\ control'.mv_seq = control.mv_seq
    BY <1>1, LoopCounts, Zenon
  <2> QED
    BY <2>1, Zenon DEF MoveRoom
<1>2. ASSUME NEW task \in Core0Tasks, MoveCheck(task) PROVE MoveRoom'
  <2>1. /\ RoomForMove /\ core0[task] = "idle" /\ control' = control
        /\ \A other \in Core0Tasks : core0'[other] = "move" => other = task \/ core0[other] = "move"
    BY <1>2, TurnsOwn, Zenon DEF MoveCheck
  <2>2. control.mv_seq \in Nat /\ MaxMoves \in Nat
    BY SMT DEF MoveSeqs, ConstantsAssumption
  <2>3. PICK other \in Core0Tasks : other # task
    BY DEF Core0Tasks
  <2>4. control'.mv_seq < MaxMoves
    BY <2>1, <2>2 DEF RoomForMove
  <2>5. core0'[other] = "move" => control'.mv_seq + 1 < MaxMoves
    BY <2>1, <2>3 DEF RoomForMove
  <2> QED
    BY <2>4, <2>5, Zenon DEF MoveRoom
<1>3. ASSUME NEW task \in Core0Tasks, MoveIssue(task) PROVE MoveRoom'
  <2>1. /\ core0'[task] = "idle" /\ core0[task] = "move" /\ control'.mv_seq = control.mv_seq + 1
        /\ \A other \in Core0Tasks : other # task => core0'[other] = core0[other]
    BY <1>3, TurnsOwn, Zenon DEF MoveIssue
  <2>2. \A other \in Core0Tasks : core0'[other] = "move" => \A t \in Core0Tasks : core0[t] = "move"
    BY <2>1 DEF Core0Tasks
  <2> QED
    BY <2>1, <2>2, Zenon DEF MoveRoom
<1>4. ASSUME UNCHANGED control.mv_seq,
             \A task \in Core0Tasks : core0'[task] = "move" => core0[task] = "move"
      PROVE  MoveRoom'
  BY <1>4, Zenon DEF MoveRoom
<1>5. ASSUME NEW task \in Core0Tasks,
             MoveRejected(task) \/ MotorTestCheck(task) \/ MotorTestSet(task)
      PROVE  MoveRoom'
  <2>1. \A other \in Core0Tasks : core0'[other] = "move" => core0[other] = "move"
    BY <1>5, TurnsOwn, Zenon DEF MoveRejected, MotorTestCheck, MotorTestSet
  <2> QED
    BY <1>4, <1>5, <2>1, Zenon DEF MoveRejected, MotorTestCheck, MotorTestSet
<1>6. CASE \/ ArmCommand \/ Disarm \/ Stunt \/ Pattern \/ Autotune \/ ManualControl
           \/ StartCalibration \/ \E m \in GcsModes : SetMode(m)
  BY <1>4, <1>6, Zenon DEF ArmCommand, WritesControl, Arm, JsArm, Disarm, SetMode, Stunt, Pattern,
     Autotune, ManualControl, StartCalibration
<1>7. CASE Command
  BY <1>2, <1>3, <1>5, <1>6, <1>7, Zenon DEF Command, ModeCommand, Finish
<1>8. CASE SticksAge \/ TestLapses
  BY <1>8, Zenon DEF SticksAge, TestLapses, WritesControl, MoveRoom
<1> QED
  BY <1>1, <1>7, <1>8, Zenon DEF Next

\* Every step, stuttering included, keeps the inductive invariant.
LEMMA IInvStep == ConstantsAssumption /\ IInv /\ [Next]_vars => IInv'
<1> SUFFICES ASSUME ConstantsAssumption, IInv, [Next]_vars PROVE IInv'
  OBVIOUS
<1>1. CASE Next
  BY <1>1, LoopType, CommandType, TimeType, RoomKept, Zenon DEF Next, IInv
<1>2. CASE UNCHANGED vars
  BY <1>2, Zenon DEF IInv, TypeOK, MoveRoom, vars
<1> QED
  BY <1>1, <1>2

\* No handler is under way at boot.
LEMMA IInvInit == ConstantsAssumption /\ Init => IInv
<1>1. Init => \A task \in Core0Tasks : core0[task] # "move"
  BY SMT DEF Init
<1> QED
  BY <1>1, InitType DEF IInv, MoveRoom, Core0Tasks

\* The inductive invariant holds throughout.
THEOREM Inductive == Spec => []IInv
  BY ConstantsAssumption, IInvInit, IInvStep, PTL DEF Spec

\* Whatever the operator, the vehicle and the locks do, and however the loop
\* and the handlers interleave, the state of the flight loop keeps its type:
\* the hold timers stay in range and mv_seq and mv_done_seq never run ahead.
THEOREM TypeCorrect == Spec => []TypeOK
  BY Inductive, PTL DEF IInv

---------------------------------------------------------------------------
(* The hypothesis of the theorems that need every write to land: a lock that *)
(* is missed is skipped, and the loop writes each decision once.           *)

LocksGranted == LockMiss = FALSE

\* A timed take of the loop is then always granted.
LEMMA Granted == ASSUME LocksGranted PROVE \A lk \in LockOutcome : lk
  BY Zenon DEF LocksGranted, LockOutcome
=============================================================================
