------------------------ MODULE FailsafeWatch_proofs ------------------------
(***************************************************************************)
(* The hold times of the failsafes, for all values of the constants: the   *)
(* loop's own timers never run ahead of what the observer has counted.     *)
(***************************************************************************)
EXTENDS FailsafeWatch, ControlLoop_proofs

\* The sections between the snapshot and the failsafes.
BeforeFailsafe == pc \in Sections \ {"read", "drive", "publish"}

\* Before the failsafes run, their next tick is covered by a sample counted
\* already, and SURFACE under a failsafe's latch has been SURFACE since.
Covered ==
  /\ in.armed /\ "battery" \in in.faults => Tick(st.bat_since, BatHold) <= watch.low
  /\ in.armed /\ in.depth = "shallow" => Tick(st.surf_since, SurfHold) <= watch.shallow
  /\ st.fs_surface /\ in.mode = "SURFACE" => watch.forced
  /\ \A d \in Faults \cup {"surfaced"} : d \notin acted

\* Once they have run, the timers themselves are covered.
Counted ==
  /\ st.bat_since <= watch.low
  /\ st.surf_since <= watch.shallow
  /\ st.fs_surface => watch.forced

\* The inductive invariant of the hold times.
HoldInv ==
  /\ IInv
  /\ watch \in WatchType
  /\ IF BeforeFailsafe THEN Covered ELSE Counted
  /\ SurfacedDisarmEarned
  /\ BatteryDebounced

---------------------------------------------------------------------------
(* Facts about the hold timers *)

\* A tick keeps the order of two timers of the same hold.
LEMMA TickMonotone ==
  ASSUME NEW hold \in Nat, NEW a \in 0 .. hold + 1, NEW b \in 0 .. hold + 1, a <= b
  PROVE  Tick(a, hold) <= Tick(b, hold)
  BY DEF Tick

\* The ranges that the comparisons below rest on.
LEMMA Ranges ==
  ASSUME ConstantsAssumption, IInv, watch \in WatchType
  PROVE  /\ BatHold \in Nat /\ SurfHold \in Nat
         /\ st.bat_since \in 0 .. BatHold + 1
         /\ st.surf_since \in 0 .. SurfHold + 1
         /\ watch.low \in 0 .. BatHold + 1
         /\ watch.shallow \in 0 .. SurfHold + 1
         /\ watch.forced \in BOOLEAN
         /\ in.faults \subseteq Faults
<1>1. in.faults \subseteq EnvFaults
  BY Zenon DEF IInv, TypeOK, LoopInType
<1> QED
  BY <1>1, Zenon DEF ConstantsAssumption, IInv, TypeOK, LatchType, WatchType

---------------------------------------------------------------------------
(* The steps *)

\* What the sections between the snapshot and the failsafes leave alone: they
\* may disarm and may leave SURFACE, never the reverse.
LEMMA QuietSections ==
  ASSUME IInv,
         \/ Calibrate \/ ArmStateEdges \/ RefuseDepthModes \/ MotorDetectDone
         \/ EnterMode \/ Tunes \/ SafetyMonitor
  PROVE  /\ in'.armed => in.armed
         /\ in'.mode = "SURFACE" => in.mode = "SURFACE"
         /\ in'.depth = in.depth /\ in'.faults = in.faults
         /\ st'.bat_since = st.bat_since /\ st'.surf_since = st.surf_since
         /\ st'.fs_surface = st.fs_surface
         /\ \A d \in Faults \cup {"surfaced"} : d \in acted' => d \in acted
         /\ BeforeFailsafe /\ BeforeFailsafe'
<1> USE DEF IInv, TypeOK, LoopInType, LatchType, BeforeFailsafe, Sections, Faults
<1>1. CASE Calibrate
  BY <1>1, Zenon DEF Calibrate
<1>2. CASE ArmStateEdges
  BY <1>2, Zenon DEF ArmStateEdges
<1>3. CASE RefuseDepthModes
  BY <1>3, Zenon DEF RefuseDepthModes
<1>4. CASE MotorDetectDone
  BY <1>4, Zenon DEF MotorDetectDone, DetectHandsOver
<1>5. CASE EnterMode
  BY <1>5, Zenon DEF EnterMode
<1>6. CASE Tunes
  BY <1>6, Zenon DEF Tunes
<1>7. CASE SafetyMonitor
  BY <1>7, Zenon DEF SafetyMonitor
<1> QED
  BY <1>1, <1>2, <1>3, <1>4, <1>5, <1>6, <1>7

\* The snapshot: the observer counts the sample before any timer does.
LEMMA ReadHolds ==
  ASSUME ConstantsAssumption, HoldInv, ReadInputs, WRead, IInv'
  PROVE  HoldInv'
<1> USE DEF HoldInv
<1>1. /\ Counted /\ BeforeFailsafe' /\ acted' = {} /\ st' = st
  BY Zenon DEF ReadInputs, BeforeFailsafe, Sections
<1>2. /\ watch'.low = IF in'.armed /\ "battery" \in in'.faults
                        THEN Tick(watch.low, BatHold) ELSE 0
      /\ watch'.shallow = IF in'.armed /\ in'.depth = "shallow"
                            THEN Tick(watch.shallow, SurfHold) ELSE 0
      /\ watch'.forced = (watch.forced /\ in'.mode = "SURFACE")
  BY Zenon DEF WRead, WatchType
<1>3. watch' \in WatchType
  <2>1. /\ Tick(watch.low, BatHold) \in 0 .. BatHold + 1
        /\ Tick(watch.shallow, SurfHold) \in 0 .. SurfHold + 1
    BY Ranges, TickRange, Zenon
  <2>2. 0 \in 0 .. BatHold + 1 /\ 0 \in 0 .. SurfHold + 1
    BY Ranges
  <2> QED
    BY <2>1, <2>2, Zenon DEF WRead, WatchType
<1>4. Covered'
  <2>1. in'.armed /\ "battery" \in in'.faults =>
          Tick(st'.bat_since, BatHold) <= watch'.low
    BY <1>1, <1>2, Ranges, TickMonotone DEF Counted
  <2>2. in'.armed /\ in'.depth = "shallow" =>
          Tick(st'.surf_since, SurfHold) <= watch'.shallow
    BY <1>1, <1>2, Ranges, TickMonotone DEF Counted
  <2>3. st'.fs_surface /\ in'.mode = "SURFACE" => watch'.forced
    BY <1>1, <1>2, Zenon DEF Counted
  <2> QED
    BY <1>1, <2>1, <2>2, <2>3, Zenon DEF Covered
<1> QED
  BY <1>1, <1>3, <1>4, Zenon DEF SurfacedDisarmEarned, BatteryDebounced

\* The sections up to the failsafes keep the cover.
LEMMA QuietHolds ==
  ASSUME HoldInv, watch' = watch, IInv',
         \/ Calibrate \/ ArmStateEdges \/ RefuseDepthModes \/ MotorDetectDone
         \/ EnterMode \/ Tunes \/ SafetyMonitor
  PROVE  HoldInv'
<1>1. Covered
  BY QuietSections, Zenon DEF HoldInv
<1>2. Covered'
  <2>1. st'.bat_since = st.bat_since /\ st'.surf_since = st.surf_since
    BY QuietSections, Zenon DEF HoldInv
  <2>2. /\ in'.armed /\ "battery" \in in'.faults =>
             Tick(st'.bat_since, BatHold) <= watch'.low
        /\ in'.armed /\ in'.depth = "shallow" =>
             Tick(st'.surf_since, SurfHold) <= watch'.shallow
    BY <1>1, <2>1, QuietSections, Zenon DEF HoldInv, Covered
  <2>3. st'.fs_surface /\ in'.mode = "SURFACE" => watch'.forced
    BY <1>1, QuietSections, Zenon DEF HoldInv, Covered
  <2>4. \A d \in Faults \cup {"surfaced"} : d \notin acted'
    BY <1>1, QuietSections, Zenon DEF HoldInv, Covered
  <2> QED
    BY <2>2, <2>3, <2>4, Zenon DEF Covered
<1>3. SurfacedDisarmEarned' /\ BatteryDebounced'
  BY <1>2, Zenon DEF Covered, SurfacedDisarmEarned, BatteryDebounced, Faults
<1> QED
  BY <1>2, <1>3, QuietSections, Zenon DEF HoldInv

\* The failsafes: what fires was covered, so it has been counted.
LEMMA FailsafeHolds ==
  ASSUME ConstantsAssumption, HoldInv, Failsafe, WSection, IInv'
  PROVE  HoldInv'
<1> USE DEF HoldInv
<1>1. Covered /\ ~BeforeFailsafe' /\ pc = "failsafe"
  BY Zenon DEF Failsafe, BeforeFailsafe, Sections
<1>2. /\ watch'.low = watch.low /\ watch'.shallow = watch.shallow
      /\ watch'.forced = (watch.forced \/ Fires)
      /\ watch' \in WatchType
  BY <1>1, Zenon DEF WSection, WatchType
<1>3. BatteryTimer(st.bat_since) <= watch.low
  BY <1>1, Ranges DEF BatteryTimer, Covered
<1>4. CASE ForceSurface
  <2>1. /\ st'.bat_since = BatteryTimer(st.bat_since) /\ st'.surf_since = 0
        /\ st'.fs_surface = (in.armed /\ FailsafeCauses # {})
    BY <1>4, Zenon DEF ForceSurface, LatchType, IInv, TypeOK
  <2>2. acted' = IF in.armed THEN acted \cup FailsafeCauses ELSE acted
    BY <1>4 DEF ForceSurface
  <2>3. FailsafeCauses \subseteq Faults
    BY Ranges DEF FailsafeCauses
  <2>4. Counted'
    <3>1. CASE in.armed /\ FailsafeCauses # {}
      <4>1. PICK f \in FailsafeCauses : TRUE
        BY <3>1
      <4>2. f \in acted' /\ f \in Faults /\ f \notin acted
        BY <1>1, <2>2, <2>3, <3>1, <4>1, Zenon DEF Covered
      <4>3. Fires
        BY <4>2 DEF Fires
      <4> QED
        BY <1>2, <1>3, <2>1, <4>3, Ranges DEF Counted
    <3>2. CASE ~(in.armed /\ FailsafeCauses # {})
      BY <1>2, <1>3, <2>1, <3>2, Ranges DEF Counted
    <3> QED
      BY <3>1, <3>2
  <2>5. "battery" \in acted' => watch'.low > BatHold
    <3>1. "battery" \notin acted
      BY <1>1, Zenon DEF Covered, Faults
    <3> QED
      BY <1>2, <1>3, <2>2, <3>1, Ranges DEF FailsafeCauses, BatteryTimer, Tick
  <2>6. "surfaced" \notin acted'
    BY <1>1, <2>2, <2>3 DEF Covered, Faults
  <2> QED
    BY <1>1, <1>2, <2>4, <2>5, <2>6, Zenon DEF SurfacedDisarmEarned, BatteryDebounced
<1>5. CASE SurfaceAndDisarm
  <2> DEFINE since == SurfaceTimer(st.surf_since)
  <2>1. /\ in.mode = "SURFACE"
        /\ st'.bat_since = 0 /\ st'.fs_surface = st.fs_surface
        /\ st'.surf_since = IF since > SurfHold THEN 0 ELSE since
        /\ acted' = IF since > SurfHold THEN acted \cup {"surfaced"} ELSE acted
    BY <1>5, Zenon DEF SurfaceAndDisarm, LatchType, IInv, TypeOK
  <2>2. /\ since \in Nat /\ since <= watch.shallow
        /\ since > SurfHold => st.fs_surface
    BY <1>1, Ranges DEF SurfaceTimer, Covered, Tick
  <2>3. st.fs_surface => watch'.forced
    BY <1>1, <1>2, <2>1, Zenon DEF Covered
  <2>4. Counted'
    BY <1>2, <2>1, <2>2, <2>3, Ranges DEF Counted
  <2>5. "battery" \notin acted'
    BY <1>1, <2>1, Zenon DEF Covered, Faults
  <2>6. "surfaced" \in acted' => watch'.forced /\ watch'.shallow > SurfHold
    <3>1. "surfaced" \in acted' => since > SurfHold
      BY <1>1, <2>1, Zenon DEF Covered
    <3>2. since > SurfHold => watch'.shallow > SurfHold
      BY <1>2, <2>2, Ranges
    <3> QED
      BY <2>2, <2>3, <3>1, <3>2, Zenon
  <2> QED
    BY <1>1, <1>2, <2>4, <2>5, <2>6, Zenon DEF SurfacedDisarmEarned, BatteryDebounced
<1> QED
  BY <1>4, <1>5, Zenon DEF Failsafe

\* After the failsafes nothing touches the timers, the latch or acted's faults.
LEMMA LateHolds ==
  ASSUME HoldInv, Drive \/ PublishMove, watch' = watch, IInv'
  PROVE  HoldInv'
<1> USE DEF HoldInv
<1>1. /\ Counted /\ ~BeforeFailsafe'
      /\ st'.bat_since = st.bat_since /\ st'.surf_since = st.surf_since
      /\ st'.fs_surface = st.fs_surface
  BY Zenon DEF Drive, PublishMove, BeforeFailsafe, Sections, IInv, TypeOK, LatchType
<1>2. /\ "battery" \in acted' => "battery" \in acted
      /\ "surfaced" \in acted' => "surfaced" \in acted
  BY Zenon DEF Drive, PublishMove, DriveTest, DriveMotorTune, DriveAutotune,
     DriveStunt, DrivePattern, DriveMode
<1> QED
  BY <1>1, <1>2, Zenon DEF Counted, SurfacedDisarmEarned, BatteryDebounced

\* Neither a handler nor the passing of time touches what the invariant reads.
LEMMA OutsideHolds ==
  ASSUME HoldInv, IInv', watch' \in WatchType,
         \/ Command /\ WCommand
         \/ (SticksAge \/ TestLapses) /\ UNCHANGED watch
  PROVE  HoldInv'
<1> USE DEF HoldInv
<1>1. /\ watch'.low = watch.low /\ watch'.shallow = watch.shallow
      /\ watch'.forced = watch.forced
  BY Zenon DEF WCommand, WatchType
<1>2. /\ pc' = pc /\ st' = st /\ acted' = acted
      /\ in'.armed = in.armed /\ in'.mode = in.mode
      /\ in'.depth = in.depth /\ in'.faults = in.faults
  BY CommandFrame, Zenon DEF SticksAge, TestLapses, WritesControl, IInv, TypeOK, LoopInType
<1> QED
  BY <1>1, <1>2, Zenon DEF BeforeFailsafe, Covered, Counted, SurfacedDisarmEarned,
     BatteryDebounced

\* The orders an observer records keep its type.
LEMMA CommandWatchType ==
  ASSUME watch \in WatchType, WCommand PROVE watch' \in WatchType
  BY Zenon DEF WCommand, WatchType

---------------------------------------------------------------------------
(* The theorems *)

\* Nothing is latched, counted or decided at the start.
LEMMA HoldInit == ConstantsAssumption /\ WInit => HoldInv
<1> SUFFICES ASSUME ConstantsAssumption, WInit PROVE HoldInv
  OBVIOUS
<1>1. IInv
  BY IInvInit, Zenon DEF WInit
<1>2. watch \in WatchType
  <2>1. 0 \in 0 .. BatHold + 1 /\ 0 \in 0 .. SurfHold + 1
    BY DEF ConstantsAssumption
  <2> QED
    BY <2>1, Zenon DEF WInit, WatchType
<1>3. ~BeforeFailsafe /\ SurfacedDisarmEarned /\ BatteryDebounced
  BY Zenon DEF WInit, Init, BeforeFailsafe, SurfacedDisarmEarned, BatteryDebounced
<1>4. Counted
  BY SMT DEF Init, WInit, Counted
<1> QED
  BY <1>1, <1>2, <1>3, <1>4, Zenon DEF HoldInv

\* Every step of the watched loop keeps the inductive invariant.
LEMMA HoldStep == ConstantsAssumption /\ HoldInv /\ [WNext]_wvars => HoldInv'
<1> SUFFICES ASSUME ConstantsAssumption, HoldInv, [WNext]_wvars PROVE HoldInv'
  OBVIOUS
<1>1. IInv'
  BY IInvStep, Zenon DEF HoldInv, WNext, WLoop, Next, Loop, wvars, vars
<1>2. CASE ReadInputs /\ WRead
  BY <1>1, <1>2, ReadHolds
<1>3. CASE Loop /\ pc # "read" /\ WSection
  <2>1. CASE Failsafe
    BY <1>1, <1>3, <2>1, FailsafeHolds
  <2>2. watch' = watch \/ Failsafe
    BY <1>3, Zenon DEF WSection, Loop, ReadInputs, Calibrate, ArmStateEdges, RefuseDepthModes,
       MotorDetectDone, EnterMode, Tunes, SafetyMonitor, Drive, PublishMove
  <2>3. CASE Drive \/ PublishMove
    BY <1>1, <2>1, <2>2, <2>3, LateHolds
  <2>4. CASE \/ Calibrate \/ ArmStateEdges \/ RefuseDepthModes \/ MotorDetectDone
             \/ EnterMode \/ Tunes \/ SafetyMonitor
    BY <1>1, <2>1, <2>2, <2>4, QuietHolds
  <2> QED
    BY <1>3, <2>1, <2>3, <2>4, Zenon DEF Loop, ReadInputs
<1>4. CASE Command /\ WCommand
  BY <1>1, <1>4, OutsideHolds, CommandWatchType, Zenon DEF HoldInv
<1>5. CASE (SticksAge \/ TestLapses) /\ UNCHANGED watch
  BY <1>1, <1>5, OutsideHolds, Zenon DEF HoldInv
<1>6. CASE UNCHANGED wvars
  BY <1>1, <1>6, Zenon DEF wvars, vars, HoldInv, BeforeFailsafe, Covered, Counted,
     SurfacedDisarmEarned, BatteryDebounced
<1> QED
  BY <1>2, <1>3, <1>4, <1>5, <1>6, Zenon DEF WNext, WLoop

\* The inductive invariant of the hold times holds throughout.
THEOREM HoldsThroughout == WSpec => []HoldInv
  BY ConstantsAssumption, HoldInit, HoldStep, PTL DEF WSpec

\* For every hold time, interleaving and lock miss, the loop's own disarm at the
\* surface follows a failsafe's order to surface and a full FS_SURFACE_HOLD_MS
\* of consecutive armed, shallow snapshots.
THEOREM SurfacedDisarmIsEarned == WSpec => []SurfacedDisarmEarned
  BY HoldsThroughout, PTL DEF HoldInv

\* For every hold time, interleaving and lock miss, the battery failsafe fires
\* only after a full FS_BAT_HOLD_MS of consecutive armed, low samples.
THEOREM BatteryIsDebounced == WSpec => []BatteryDebounced
  BY HoldsThroughout, PTL DEF HoldInv

---------------------------------------------------------------------------
(* Once a failsafe has taken over *)

\* Nothing is left that drives past the mode: no missed write, no ATUNE trigger,
\* no motor test, neither ordered nor pulsed by MOTOR_DETECT.
NothingOverrides ==
  /\ LocksGranted
  /\ "autotune" \notin Orders /\ "motor_test" \notin Orders
  /\ "MOTOR_DETECT" \notin GcsModes

\* The triggers and overrides that nobody sets stay as they were.
Unused ==
  /\ ~control.autotune /\ ~in.autotune
  /\ test = "off" /\ in.test = "off" /\ cal # "MOTOR_DETECT"
  /\ \A task \in Core0Tasks : core0[task] # "test"
  /\ control.mode # "MOTOR_DETECT" /\ in.mode # "MOTOR_DETECT" /\ st.mode # "MOTOR_DETECT"

\* The mode a failsafe wrote stays until a fresh order; a motor tune that ends
\* in the pass of the failsafe writes another one, but disarms with it.
ModeHolds == watch.takeover # "no" => control.mode = "SURFACE" \/ ~control.armed

\* From the failsafe on each pass surfaces, and from the next one on no tune is
\* active.
PassHolds ==
  /\ watch.takeover = "now" => pc \in {"read", "drive", "publish"}
  /\ watch.takeover # "no" /\ pc # "read" => in.mode = "SURFACE"
  /\ watch.takeover = "due" /\ pc \in {"safety", "failsafe", "drive"} => ~act.at /\ ~act.mt

\* The inductive invariant of a takeover.
OwnInv ==
  IInv /\ watch \in WatchType /\ Unused /\ ModeHolds /\ PassHolds /\ FailsafeOwnsThrusters

\* The observer keeps its type in every step.
LEMMA WatchStep ==
  ASSUME ConstantsAssumption, IInv, watch \in WatchType, [WNext]_wvars
  PROVE  watch' \in WatchType
<1>1. CASE ReadInputs /\ WRead
  <2>1. /\ Tick(watch.low, BatHold) \in 0 .. BatHold + 1
        /\ Tick(watch.shallow, SurfHold) \in 0 .. SurfHold + 1
    BY Ranges, TickRange, Zenon
  <2>2. 0 \in 0 .. BatHold + 1 /\ 0 \in 0 .. SurfHold + 1
    BY Ranges
  <2> QED
    BY <1>1, <2>1, <2>2, Zenon DEF WRead, WatchType
<1>2. CASE Loop /\ pc # "read" /\ WSection
  BY <1>2, Zenon DEF WSection, WatchType
<1>3. CASE Command /\ WCommand
  BY <1>3, CommandWatchType
<1> QED
  BY <1>1, <1>2, <1>3, Zenon DEF WNext, WLoop, wvars

LEMMA UnusedEarly ==
  ASSUME NothingOverrides, IInv, Unused,
         \/ ReadInputs \/ Calibrate \/ ArmStateEdges \/ RefuseDepthModes \/ MotorDetectDone
  PROVE  Unused'
<1> USE DEF IInv, TypeOK, Unused
<1>1. CASE ReadInputs
  <2>1. /\ in'.autotune = control.autotune /\ in'.mode = control.mode /\ in'.test = test
        /\ UNCHANGED <<control, test, cal, st, core0>>
    BY <1>1, Granted, SMT DEF ReadInputs, Locked, NothingOverrides
  <2> QED
    BY <2>1
<1>2. CASE Calibrate
  BY <1>2, Zenon DEF Calibrate
<1>3. CASE ArmStateEdges
  BY <1>3, Zenon DEF ArmStateEdges, ArmEdgeTest, DisarmClears, Locked, ControlType,
     LoopInType, LatchType
<1>4. CASE RefuseDepthModes \/ MotorDetectDone
  BY <1>4, Zenon DEF RefuseDepthModes, MotorDetectDone, Locked, ControlType, LoopInType
<1> QED
  BY <1>1, <1>2, <1>3, <1>4

LEMMA UnusedLate ==
  ASSUME IInv, Unused,
         EnterMode \/ Tunes \/ SafetyMonitor \/ Failsafe \/ Drive \/ PublishMove
  PROVE  Unused'
<1> USE DEF IInv, TypeOK, Unused
<1>1. CASE EnterMode
  BY <1>1, Zenon DEF EnterMode, EnterRoutine, LatchType
<1>2. CASE Tunes \/ SafetyMonitor
  BY <1>2, Zenon DEF Tunes, SafetyMonitor, Locked, ControlType, LoopInType, LatchType
<1>3. CASE Failsafe
  BY <1>3, Zenon DEF Failsafe, ForceSurface, SurfaceAndDisarm, Locked, ControlType,
     LoopInType, LatchType
<1>4. CASE Drive
  <2>1. UNCHANGED <<cal, st, core0>> /\ test' = "off" /\ in' = in
    BY <1>4, Zenon DEF Drive, Locked
  <2>2. ~control'.autotune /\ control'.mode # "MOTOR_DETECT"
    <3>1. CASE DriveTest \/ DriveMode
      BY <3>1, Zenon DEF DriveTest, DriveMode
    <3>2. CASE DriveMotorTune \/ DriveAutotune
      BY <3>2, Zenon DEF DriveMotorTune, DriveAutotune, TuneFinished, ControlType
    <3>3. CASE DriveStunt \/ DrivePattern
      BY <3>3, Zenon DEF DriveStunt, DrivePattern, Locked, ControlType
    <3> QED
      BY <1>4, <3>1, <3>2, <3>3, Zenon DEF Drive
  <2> QED
    BY <2>1, <2>2
<1>5. CASE PublishMove
  BY <1>5, Zenon DEF PublishMove, ControlType, LatchType
<1> QED
  BY <1>1, <1>2, <1>3, <1>4, <1>5

LEMMA UnusedOutside ==
  ASSUME NothingOverrides, IInv, Unused, Command \/ SticksAge \/ TestLapses
  PROVE  Unused'
<1> USE DEF IInv, TypeOK, Unused
<1>1. ASSUME NEW task \in Core0Tasks,
             MoveCheck(task) \/ MotorTestCheck(task) \/ Finish(task)
      PROVE  Unused'
  <2>1. /\ \A other \in Core0Tasks : core0'[other] # "test"
        /\ ~MotorTestSet(task)
    BY <1>1, TurnsOwn, Zenon DEF Finish, MoveCheck, MoveIssue, MoveRejected, MotorTestCheck,
       MotorTestSet, NothingOverrides
  <2> QED
    BY <1>1, <2>1, Zenon DEF Finish, MoveCheck, MoveIssue, MoveRejected, MotorTestCheck,
       NothingOverrides, ControlType
<1>2. CASE \/ ArmCommand \/ Disarm \/ Stunt \/ Pattern \/ Autotune \/ ManualControl
           \/ StartCalibration \/ \E m \in GcsModes : SetMode(m)
  BY <1>2, Zenon DEF NothingOverrides, ArmCommand, Arm, JsArm, Disarm, SetMode, Stunt, Pattern,
     Autotune, ManualControl, StartCalibration, WritesControl, Core0Free, ControlType
<1>3. CASE Command
  BY <1>1, <1>2, <1>3, Zenon DEF Command, ModeCommand, Finish
<1>4. CASE SticksAge \/ TestLapses
  BY <1>4, Zenon DEF SticksAge, TestLapses, WritesControl, ControlType
<1> QED
  BY <1>3, <1>4

\* The snapshot of an armed pass takes over the mode that the failsafe wrote.
LEMMA OwnRead ==
  ASSUME NothingOverrides, OwnInv, ReadInputs, WRead
  PROVE  ModeHolds' /\ PassHolds' /\ FailsafeOwnsThrusters'
<1> USE DEF OwnInv, IInv, TypeOK
<1>1. /\ in'.armed = control.armed /\ in'.mode = control.mode
      /\ control' = control /\ pc' = "calibrate"
  BY Granted, SMT DEF ReadInputs, Locked, NothingOverrides
<1>2. watch'.takeover = IF in'.armed /\ watch.takeover # "no" THEN "due" ELSE "no"
  BY Zenon DEF WRead, WatchType
<1> QED
  BY <1>1, <1>2, Zenon DEF ModeHolds, PassHolds, FailsafeOwnsThrusters

\* The other sections up to the drive section leave SURFACE alone.
LEMMA OwnQuiet ==
  ASSUME NothingOverrides, OwnInv, watch' = watch,
         \/ Calibrate \/ ArmStateEdges \/ RefuseDepthModes \/ MotorDetectDone
         \/ EnterMode \/ Tunes \/ SafetyMonitor
  PROVE  ModeHolds' /\ PassHolds' /\ FailsafeOwnsThrusters'
<1> USE DEF OwnInv, IInv, TypeOK
<1>1. pc # "read" /\ pc' \notin {"read", "drive", "publish"}
  BY Zenon DEF Calibrate, ArmStateEdges, RefuseDepthModes, MotorDetectDone, EnterMode,
     Tunes, SafetyMonitor
<1>2. in'.armed => in.armed
  BY QuietSections
<1>3. watch.takeover # "no" => watch.takeover = "due" /\ in.mode = "SURFACE"
  <2>1. pc \notin {"read", "drive", "publish"}
    BY Zenon DEF Calibrate, ArmStateEdges, RefuseDepthModes, MotorDetectDone, EnterMode,
       Tunes, SafetyMonitor
  <2> QED
    BY <1>1, <2>1, Zenon DEF PassHolds, WatchType
<1>4. CASE Calibrate \/ EnterMode
  <2>1. control' = control /\ in' = in /\ pc' \notin {"safety", "failsafe", "drive"}
    BY <1>4, Zenon DEF Calibrate, EnterMode
  <2> QED
    BY <1>1, <1>3, <2>1, Zenon DEF ModeHolds, PassHolds, FailsafeOwnsThrusters
<1>5. CASE ArmStateEdges
  <2>1. /\ control'.armed = control.armed /\ control'.mode = control.mode
        /\ in'.mode = in.mode /\ pc' \notin {"safety", "failsafe", "drive"}
    BY <1>5, Zenon DEF ArmStateEdges, DisarmClears, Locked, ControlType, LoopInType
  <2> QED
    BY <1>1, <1>3, <2>1, Zenon DEF ModeHolds, PassHolds, FailsafeOwnsThrusters
<1>6. CASE RefuseDepthModes \/ MotorDetectDone
  <2>1. /\ in.mode = "SURFACE" => UNCHANGED <<in, control>>
        /\ pc' \notin {"safety", "failsafe", "drive"}
    BY <1>6, Zenon DEF RefuseDepthModes, MotorDetectDone, NeedsDepth
  <2> QED
    BY <1>1, <1>3, <2>1, Zenon DEF ModeHolds, PassHolds, FailsafeOwnsThrusters
<1>7. CASE Tunes
  <2>1. in.mode = "SURFACE" => ~AutotuneWanted /\ ~MotorTuneWanted
    BY Zenon DEF AutotuneWanted, MotorTuneWanted, Unused
  <2>2. in.mode = "SURFACE" => UNCHANGED <<in, control>>
    BY <1>7, <2>1, Zenon DEF Tunes
  <2>3. act'.at = AutotuneWanted /\ act'.mt = MotorTuneWanted
    BY <1>7, Zenon DEF Tunes
  <2> QED
    BY <1>1, <1>3, <2>1, <2>2, <2>3, Zenon DEF ModeHolds, PassHolds, FailsafeOwnsThrusters
<1>8. CASE SafetyMonitor
  <2>1. /\ control'.mode = control.mode /\ in'.mode = in.mode
        /\ control'.armed => control.armed
        /\ act' = act \/ act' = [at |-> FALSE, mt |-> FALSE]
        /\ pc = "safety"
    BY <1>8, Zenon DEF SafetyMonitor, Locked, ControlType, LoopInType
  <2> QED
    BY <1>1, <1>3, <2>1, Zenon DEF ModeHolds, PassHolds, FailsafeOwnsThrusters
<1> QED
  BY <1>4, <1>5, <1>6, <1>7, <1>8

\* The failsafe that fires writes SURFACE; the one that has surfaced disarms.
LEMMA OwnFailsafe ==
  ASSUME NothingOverrides, OwnInv, Failsafe, WSection
  PROVE  ModeHolds' /\ PassHolds' /\ FailsafeOwnsThrusters'
<1> USE DEF OwnInv, IInv, TypeOK
<1>1. pc = "failsafe" /\ pc' = "drive" /\ act' = act
  BY Zenon DEF Failsafe
<1>2. CASE Fires
  <2>1. watch'.takeover = "now"
    BY <1>1, <1>2, Zenon DEF WSection, WatchType
  <2>2. acted' # acted
    BY <1>2, Zenon DEF Fires
  <2>3. CASE ForceSurface
    <3>1. control'.mode = "SURFACE" /\ in'.mode = "SURFACE"
      BY <2>2, <2>3, Granted, Zenon DEF ForceSurface, Locked, NothingOverrides, ControlType, LoopInType
    <3> QED
      BY <1>1, <2>1, <3>1, Zenon DEF ModeHolds, PassHolds, FailsafeOwnsThrusters
  <2>4. CASE SurfaceAndDisarm
    <3>1. ~control'.armed /\ in'.mode = "SURFACE"
      BY <2>2, <2>4, Granted, Zenon DEF SurfaceAndDisarm, Locked, NothingOverrides,
         ControlType, LoopInType
    <3> QED
      BY <1>1, <2>1, <3>1, Zenon DEF ModeHolds, PassHolds, FailsafeOwnsThrusters
  <2> QED
    BY <2>3, <2>4, Zenon DEF Failsafe
<1>3. CASE ~Fires
  <2>1. watch' = watch
    BY <1>1, <1>3, Zenon DEF WSection
  <2>2. watch.takeover # "no" => watch.takeover = "due" /\ in.mode = "SURFACE"
    BY <1>1, Zenon DEF PassHolds, WatchType
  <2>3. in.mode = "SURFACE" =>
          /\ in'.mode = "SURFACE" /\ control'.mode = control.mode
          /\ control'.armed => control.armed
    BY Zenon DEF Failsafe, ForceSurface, SurfaceAndDisarm, Locked, ControlType, LoopInType
  <2> QED
    BY <1>1, <2>1, <2>2, <2>3, Zenon DEF ModeHolds, PassHolds, FailsafeOwnsThrusters
<1> QED
  BY <1>2, <1>3

\* With SURFACE in the snapshot and no tune active, SURFACE is what drives.
LEMMA OwnDrive ==
  ASSUME NothingOverrides, OwnInv, Drive, watch' = watch
  PROVE  ModeHolds' /\ PassHolds' /\ FailsafeOwnsThrusters'
<1> USE DEF OwnInv, IInv, TypeOK
<1>1. pc = "drive" /\ pc' = "publish" /\ act' = act
  BY Zenon DEF Drive
<1>2. in' = in /\ in.test = "off"
  BY Zenon DEF Drive, Unused
<1>3. out' = [armed |-> in.armed, driver |-> Driver]
  BY Granted, Zenon DEF Drive, Locked, NothingOverrides
<1>4. ModeHolds'
  <2>1. CASE DriveTest \/ DriveMode
    BY <2>1, Zenon DEF DriveTest, DriveMode, ModeHolds
  <2>2. CASE DriveMotorTune \/ DriveAutotune
    <3>1. control' = control \/ ~control'.armed
      BY <2>2, Zenon DEF DriveMotorTune, DriveAutotune, TuneFinished, ControlType
    <3> QED
      BY <3>1, Zenon DEF ModeHolds
  <2>3. CASE DriveStunt \/ DrivePattern
    <3>1. in.mode # "SURFACE"
      BY <2>3, Zenon DEF DriveStunt, DrivePattern
    <3>2. watch.takeover = "no"
      BY <1>1, <3>1, Zenon DEF PassHolds
    <3> QED
      BY <3>2, Zenon DEF ModeHolds
  <2> QED
    BY <2>1, <2>2, <2>3, Zenon DEF Drive
<1>5. PassHolds'
  BY <1>1, <1>2, Zenon DEF PassHolds
<1>6. FailsafeOwnsThrusters'
  <2> SUFFICES ASSUME watch.takeover = "due" PROVE out'.driver = "SURFACE"
    BY Zenon DEF FailsafeOwnsThrusters
  <2>1. in.mode = "SURFACE" /\ ~act.at /\ ~act.mt
    BY <1>1, Zenon DEF PassHolds
  <2>2. Driver = "SURFACE"
    BY <1>2, <2>1, SMT DEF Driver
  <2> QED
    BY <1>3, <2>2
<1> QED
  BY <1>4, <1>5, <1>6

\* An order to change the mode, or to arm, is fresh; the others leave both alone.
LEMMA OwnCommand ==
  ASSUME OwnInv, Command, WCommand
  PROVE  ModeHolds' /\ PassHolds' /\ FailsafeOwnsThrusters'
<1> USE DEF OwnInv, IInv, TypeOK
<1>1. pc' = pc /\ in' = in /\ act' = act /\ out' = out
  BY CommandFrame, Zenon
<1>2. watch'.takeover = IF FreshOrder THEN "no" ELSE watch.takeover
  BY Zenon DEF WCommand, WatchType
<1>3. FreshOrder \/ (control'.mode = control.mode /\ (control'.armed => control.armed))
  <2>1. ModeCommand => FreshOrder
    BY Zenon DEF FreshOrder
  <2>2. ArmCommand => FreshOrder \/ control.armed
    BY Zenon DEF FreshOrder
  <2>3. ArmCommand => control'.mode = control.mode
    BY Zenon DEF ArmCommand, Arm, JsArm, WritesControl, ControlType
  <2>4. ArmCommand \/ ModeCommand \/
        (control'.mode = control.mode /\ (control'.armed => control.armed))
    BY Zenon DEF Command, ModeCommand, Finish, Disarm, Autotune, ManualControl,
       StartCalibration, MoveCheck, MoveRejected, MotorTestCheck, MotorTestSet, WritesControl, ControlType
  <2> QED
    BY <2>1, <2>2, <2>3, <2>4
<1> QED
  BY <1>1, <1>2, <1>3, Zenon DEF ModeHolds, PassHolds, FailsafeOwnsThrusters

LEMMA OwnStep ==
  ASSUME NothingOverrides
  PROVE  ConstantsAssumption /\ OwnInv /\ [WNext]_wvars => OwnInv'
<1> SUFFICES ASSUME ConstantsAssumption, OwnInv, [WNext]_wvars PROVE OwnInv'
  OBVIOUS
<1>1. IInv'
  BY IInvStep, Zenon DEF OwnInv, WNext, WLoop, Next, Loop, wvars, vars
<1>2. watch' \in WatchType
  BY WatchStep, Zenon DEF OwnInv
<1>3. Unused'
  <2>1. CASE UNCHANGED wvars
    BY <2>1, Zenon DEF wvars, vars, OwnInv, Unused
  <2> QED
    BY <2>1, UnusedEarly, UnusedLate, UnusedOutside, Zenon DEF OwnInv, WNext, WLoop, Loop
<1>4. ModeHolds' /\ PassHolds' /\ FailsafeOwnsThrusters'
  <2>1. CASE ReadInputs /\ WRead
    BY <2>1, OwnRead
  <2>2. CASE Loop /\ pc # "read" /\ WSection
    <3>1. CASE Failsafe
      BY <2>2, <3>1, OwnFailsafe
    <3>2. watch' = watch \/ Failsafe
      BY <2>2, Zenon DEF WSection, Loop, ReadInputs, Calibrate, ArmStateEdges,
         RefuseDepthModes, MotorDetectDone, EnterMode, Tunes, SafetyMonitor, Drive, PublishMove
    <3>3. CASE Drive
      BY <3>1, <3>2, <3>3, OwnDrive
    <3>4. CASE PublishMove
      <4>1. /\ in' = in /\ pc' = "read"
            /\ control'.mode = control.mode /\ control'.armed = control.armed
        BY <3>4, Zenon DEF PublishMove, OwnInv, IInv, TypeOK, ControlType
      <4> QED
        BY <3>1, <3>2, <4>1, Zenon DEF OwnInv, ModeHolds, PassHolds, FailsafeOwnsThrusters
    <3>5. CASE \/ Calibrate \/ ArmStateEdges \/ RefuseDepthModes \/ MotorDetectDone
               \/ EnterMode \/ Tunes \/ SafetyMonitor
      BY <3>1, <3>2, <3>5, OwnQuiet
    <3> QED
      BY <2>2, <3>1, <3>3, <3>4, <3>5, Zenon DEF Loop, ReadInputs
  <2>3. CASE Command /\ WCommand
    BY <2>3, OwnCommand
  <2>4. CASE (SticksAge \/ TestLapses) /\ UNCHANGED watch
    <3>1. /\ pc' = pc /\ act' = act /\ out' = out /\ in'.mode = in.mode
          /\ control'.mode = control.mode /\ control'.armed = control.armed
      BY <2>4, Zenon DEF SticksAge, TestLapses, WritesControl, OwnInv, IInv, TypeOK,
         ControlType, LoopInType
    <3> QED
      BY <2>4, <3>1, Zenon DEF OwnInv, ModeHolds, PassHolds, FailsafeOwnsThrusters
  <2>5. CASE UNCHANGED wvars
    BY <2>5, Zenon DEF wvars, vars, OwnInv, ModeHolds, PassHolds, FailsafeOwnsThrusters
  <2> QED
    BY <2>1, <2>2, <2>3, <2>4, <2>5, Zenon DEF WNext, WLoop
<1> QED
  BY <1>1, <1>2, <1>3, <1>4, Zenon DEF OwnInv

\* Where nothing overrides the mode and no write is missed, a failsafe that has
\* forced SURFACE owns the thrusters from the next pass on: no stunt, pattern,
\* move, tune or stick drives an armed vehicle before a fresh order.
THEOREM FailsafeTakesOver ==
  ASSUME NothingOverrides PROVE WSpec => []FailsafeOwnsThrusters
<1>1. WInit => OwnInv
  <2> SUFFICES ASSUME WInit PROVE OwnInv
    OBVIOUS
  <2>1. IInv /\ watch \in WatchType
    BY ConstantsAssumption, HoldInit, Zenon DEF HoldInv
  <2>2. watch.takeover = "no" /\ ~out.armed
    BY Zenon DEF WInit, Init
  <2>3. Unused
    BY Zenon DEF WInit, Init, Unused
  <2> QED
    BY <2>1, <2>2, <2>3, Zenon DEF OwnInv, ModeHolds, PassHolds, FailsafeOwnsThrusters
<1>2. OwnInv => FailsafeOwnsThrusters
  BY Zenon DEF OwnInv
<1> QED
  BY <1>1, <1>2, ConstantsAssumption, OwnStep, PTL DEF WSpec
=============================================================================
