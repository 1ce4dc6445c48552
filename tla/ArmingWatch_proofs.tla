------------------------- MODULE ArmingWatch_proofs -------------------------
(***************************************************************************)
(* Arming and manoeuvres, for all values of the constants.  That nothing   *)
(* interrupted drives holds whatever the locks do; that an arm inherits    *)
(* neither motor test nor stick holds when no timed lock misses: the loop  *)
(* clears each of them once.                                               *)
(***************************************************************************)
EXTENDS ArmingWatch, ControlLoop_proofs

\* A manoeuvre that was interrupted does not run.  The stunt machine also flies
\* the STYLE leg of AUTO; it then runs in another mode than STUNT.
Stopped ==
  /\ "autotune" \in watch.interrupted => ~mach.autotune
  /\ "motor_tune" \in watch.interrupted => ~mach.motor_tune
  /\ "PATTERN" \in watch.interrupted => ~mach.pattern
  /\ "STUNT" \in watch.interrupted /\ mach.stunt => st.mode # "STUNT"

\* From the mode entry to the drive section the pass flies the mode that was
\* entered, or one that a tune or a failsafe put in its place.
Entered ==
  pc \in {"tunes", "safety", "failsafe", "drive"} =>
    in.mode = st.mode \/ in.mode \in {"AUTOTUNE", "SURFACE"}

\* The inductive invariant of the manoeuvres.
StopInv == IInv /\ watch \in WatchType /\ Stopped /\ Entered

\* A disarmed pass has its edge still to come.
EdgeAhead == pc \in {"calibrate", "edges"} /\ ~in.armed

\* The pass is armed only if its arm edge is behind it.
EdgeBehind == pc \notin {"calibrate", "edges"} /\ in.armed => st.armed

\* An override older than the last disarmed pass has the arm edge still to come.
OldTestWaits ==
  (test = "live" \/ in.test = "live") /\ ~watch.freshTest => ~st.armed \/ EdgeAhead

\* Sticks older than the disarm have the disarm edge still to come.
OldSticksWait ==
  (control.stick \/ in.stick) /\ ~watch.sticks => st.armed /\ EdgeAhead

\* The inductive invariant of arming.
ArmInv ==
  IInv /\ watch \in WatchType /\ EdgeBehind /\ OldTestWaits /\ OldSticksWait

---------------------------------------------------------------------------
(* The observer *)

LEMMA ReadWatch ==
  ASSUME watch \in WatchType, ARead
  PROVE  /\ watch' \in WatchType
         /\ watch'.interrupted = watch.interrupted
         /\ watch'.freshTest = (watch.freshTest /\ (in'.armed \/ control.armed))
         /\ watch'.sticks = (watch.sticks /\ ~(st.armed /\ ~in'.armed))
  BY Zenon DEF ARead, WatchType

LEMMA SectionWatch ==
  ASSUME watch \in WatchType, ASection
  PROVE  /\ watch' \in WatchType
         /\ watch'.interrupted =
              (IF Interrupts THEN watch.interrupted \cup RunningManoeuvres
                             ELSE watch.interrupted) \ Starting
         /\ watch'.freshTest = \/ watch.freshTest
                               \/ pc = "calibrate" /\ cal = "MOTOR_DETECT" /\ test' = "live"
         /\ watch'.sticks = watch.sticks
<1> DEFINE now == IF Interrupts THEN watch.interrupted \cup RunningManoeuvres
                                ELSE watch.interrupted
<1>1. now \ Starting \in SUBSET Manoeuvres
  BY DEF RunningManoeuvres, WatchType
<1> QED
  BY <1>1, Zenon DEF ASection, WatchType

LEMMA CommandWatch ==
  ASSUME watch \in WatchType, ACommand
  PROVE  /\ watch' \in WatchType
         /\ watch'.interrupted = watch.interrupted
         /\ watch'.freshTest = (watch.freshTest \/ TestCommand)
         /\ watch'.sticks = (watch.sticks \/ ManualControl)
  BY Zenon DEF ACommand, WatchType

\* The observer adds nothing to the steps of the loop.
LEMMA ANextIsNext == [ANext]_avars => [Next]_vars
  BY Zenon DEF ANext, Next, Loop, avars, vars

\* The observer keeps its type in every step.
LEMMA WatchStep == watch \in WatchType /\ [ANext]_avars => watch' \in WatchType
  BY ReadWatch, SectionWatch, CommandWatch, Zenon DEF ANext, avars

LEMMA WatchInit == AInit => watch \in WatchType
<1>1. {} \in SUBSET Manoeuvres
  OBVIOUS
<1> QED
  BY <1>1, SMT DEF AInit, WatchType

LEMMA StateInit == ConstantsAssumption /\ AInit => IInv
  BY IInvInit, Zenon DEF AInit

---------------------------------------------------------------------------
(* Nothing interrupted drives *)

\* A section that neither interrupts nor starts leaves the interrupted ones.
LEMMA PlainSection ==
  ASSUME watch \in WatchType, ASection, pc \notin {"edges", "enter", "tunes", "safety"}
  PROVE  watch'.interrupted = watch.interrupted
<1>1. Starting = {} /\ ~Interrupts
  BY Zenon DEF Starting, Interrupts
<1> QED
  BY <1>1, SectionWatch

\* A manoeuvre that a section stops is not running after AbortAll.
LEMMA AbortStops ==
  ASSUME mach \in MachType, mach' = AbortAll(mach)
  PROVE  ~mach'.stunt /\ ~mach'.pattern /\ ~mach'.autotune /\ ~mach'.motor_tune
  BY Zenon DEF AbortAll, MachType

LEMMA EdgesStop ==
  ASSUME StopInv, ArmStateEdges, ASection
  PROVE  Stopped'
<1> USE DEF StopInv, IInv, TypeOK
<1>1. CASE DisarmEdge
  <2>1. mach' = AbortAll(mach)
    BY <1>1, Zenon DEF ArmStateEdges, ArmEdge, DisarmEdge
  <2> QED
    BY <2>1, AbortStops, Zenon DEF Stopped
<1>2. CASE ~DisarmEdge
  <2>1. mach' = mach /\ st'.mode = st.mode
    BY <1>2, Zenon DEF ArmStateEdges, LatchType
  <2>2. ~Interrupts /\ Starting = {}
    BY <1>2, Zenon DEF ArmStateEdges, Interrupts, Starting
  <2>3. watch'.interrupted = watch.interrupted
    BY <2>2, SectionWatch
  <2> QED
    BY <2>1, <2>3, Zenon DEF Stopped
<1> QED
  BY <1>1, <1>2

LEMMA EnterStops ==
  ASSUME StopInv, EnterMode, ASection
  PROVE  Stopped' /\ Entered'
<1> USE DEF StopInv, IInv, TypeOK
<1>1. pc = "enter" /\ pc' = "tunes" /\ in' = in /\ st'.mode = in.mode
  BY Zenon DEF EnterMode, LatchType
<1>2. Entered'
  BY <1>1, Zenon DEF Entered
<1>3. watch'.interrupted = watch.interrupted \ Starting
  BY <1>1, SectionWatch, Zenon DEF Interrupts
<1>4. mach'.autotune = mach.autotune /\ mach'.motor_tune = mach.motor_tune
  BY Zenon DEF EnterMode, EnterMachines, StartMove, MachType
<1>5. mach'.pattern => mach.pattern \/ (in.mode = "PATTERN" /\ in.mode # st.mode)
  BY Zenon DEF EnterMode, EnterMachines, StartMove, MachType
<1>6. mach'.stunt =>
        \/ mach.stunt
        \/ in.mode = "STUNT" /\ in.mode # st.mode
        \/ in.mode = "AUTO"
  BY Zenon DEF EnterMode, EnterMachines, StartMove, MachType
<1>7. \A m \in Manoeuvres : in.mode = m /\ in.mode # st.mode => m \in Starting
  BY <1>1, Zenon DEF Starting
<1>8. Stopped'
  <2>1. /\ "autotune" \in watch'.interrupted => ~mach'.autotune
        /\ "motor_tune" \in watch'.interrupted => ~mach'.motor_tune
    BY <1>3, <1>4, Zenon DEF Stopped
  <2>2. "PATTERN" \in watch'.interrupted => ~mach'.pattern
    BY <1>3, <1>5, <1>7, Zenon DEF Stopped, Manoeuvres
  <2>3. "STUNT" \in watch'.interrupted /\ mach'.stunt => st'.mode # "STUNT"
    BY <1>1, <1>3, <1>6, <1>7, Zenon DEF Stopped, Manoeuvres
  <2> QED
    BY <2>1, <2>2, <2>3, Zenon DEF Stopped
<1> QED
  BY <1>2, <1>8

LEMMA TunesStop ==
  ASSUME StopInv, Tunes, ASection
  PROVE  Stopped' /\ Entered'
<1> USE DEF StopInv, IInv, TypeOK
<1>1. /\ pc = "tunes" /\ pc' = "safety" /\ st'.mode = st.mode
      /\ in'.mode = in.mode \/ in'.mode = "AUTOTUNE"
  BY Zenon DEF Tunes, LatchType, LoopInType
<1>2. Entered'
  BY <1>1, Zenon DEF Entered
<1>3. watch'.interrupted = watch.interrupted \ Starting
  BY <1>1, SectionWatch, Zenon DEF Interrupts
<1>4. /\ mach'.stunt = mach.stunt /\ mach'.pattern = mach.pattern
      /\ mach'.autotune => mach.autotune \/ "autotune" \in Starting
      /\ mach'.motor_tune => mach.motor_tune \/ "motor_tune" \in Starting
  BY <1>1, Zenon DEF Tunes, MachType, Starting, Manoeuvres
<1> QED
  BY <1>1, <1>2, <1>3, <1>4 DEF Stopped

LEMMA SafetyStops ==
  ASSUME StopInv, SafetyMonitor, ASection
  PROVE  Stopped' /\ Entered'
<1> USE DEF StopInv, IInv, TypeOK
<1>1. /\ pc = "safety" /\ pc' = "failsafe" /\ st'.mode = st.mode
      /\ in'.mode = in.mode
  BY Zenon DEF SafetyMonitor, LatchType, LoopInType
<1>2. Entered'
  BY <1>1, Zenon DEF Entered
<1>3. CASE mach' = AbortAll(mach)
  BY <1>2, <1>3, AbortStops, Zenon DEF Stopped
<1>4. CASE mach' = mach /\ acted' = acted
  <2>1. ~Interrupts /\ Starting = {}
    BY <1>1, <1>4, Zenon DEF Interrupts, Starting, DecidesToDisarm
  <2>2. watch'.interrupted = watch.interrupted
    BY <2>1, SectionWatch
  <2> QED
    BY <1>1, <1>2, <1>4, <2>2, Zenon DEF Stopped
<1> QED
  BY <1>3, <1>4, Zenon DEF SafetyMonitor

\* update() stops a manoeuvre or lets it run; it starts none.
LEMMA DriveStops ==
  ASSUME StopInv, Drive, ASection
  PROVE  Stopped' /\ Entered'
<1> USE DEF StopInv, IInv, TypeOK
<1>1. pc = "drive" /\ pc' = "publish" /\ st' = st
  BY Zenon DEF Drive
<1>2. watch'.interrupted = watch.interrupted
  BY <1>1, PlainSection
<1>3. /\ mach'.stunt => mach.stunt
      /\ mach'.pattern => mach.pattern
      /\ mach'.autotune => mach.autotune
      /\ mach'.motor_tune => mach.motor_tune
  <2>1. CASE DriveTest \/ DriveMotorTune \/ DriveAutotune
    BY <2>1, Zenon DEF DriveTest, DriveMotorTune, DriveAutotune, MachineUpdate, MachType
  <2>2. CASE DriveStunt \/ DrivePattern
    BY <2>2, Zenon DEF DriveStunt, DrivePattern, MachineUpdate, MachType
  <2>3. CASE DriveMode
    <3> DEFINE Kept(m) == /\ m.stunt => mach.stunt
                          /\ m.pattern = mach.pattern /\ m.autotune = mach.autotune
                          /\ m.motor_tune = mach.motor_tune
    <3>1. \A m \in MoveUpdate(mach) : Kept(m)
      <4>1. mach.move \in Phases
        BY Zenon DEF MachType
      <4>2. \A phase \in Phases : Kept([mach EXCEPT !.move = phase])
        BY Zenon DEF MachType
      <4>3. \A phase \in Phases, spinning \in MachineUpdate(mach.stunt) :
              Kept([mach EXCEPT !.stunt = spinning, !.move = phase])
        BY Zenon DEF MachType, MachineUpdate
      <4>4. Kept(mach)
        OBVIOUS
      <4> HIDE DEF Kept
      <4> QED
        BY <4>1, <4>2, <4>3, <4>4, Zenon DEF MoveUpdate, MachineUpdate, Phases
    <3> QED
      BY <2>3, <3>1, Zenon DEF DriveMode
  <2> QED
    BY <2>1, <2>2, <2>3, Zenon DEF Drive
<1>4. Entered'
  BY <1>1, Zenon DEF Entered
<1> QED
  BY <1>1, <1>2, <1>3, <1>4, Zenon DEF Stopped

\* The sections that touch neither the machines nor the entered mode.
LEMMA OtherSectionsStop ==
  ASSUME StopInv, ASection, pc # "read",
         \/ Calibrate \/ RefuseDepthModes \/ MotorDetectDone \/ Failsafe \/ PublishMove
  PROVE  Stopped' /\ Entered'
<1> USE DEF StopInv, IInv, TypeOK
<1>1. pc \notin {"edges", "enter", "tunes", "safety"}
  BY Zenon DEF Calibrate, RefuseDepthModes, MotorDetectDone, Failsafe, PublishMove
<1>2. mach' = mach /\ st'.mode = st.mode
  <2>1. CASE Calibrate \/ RefuseDepthModes \/ MotorDetectDone
    BY <2>1, Zenon DEF Calibrate, RefuseDepthModes, MotorDetectDone
  <2>2. CASE Failsafe \/ PublishMove
    BY <2>2, Zenon DEF Failsafe, ForceSurface, SurfaceAndDisarm, PublishMove, LatchType
  <2> QED
    BY <2>1, <2>2
<1>3. Entered'
  <2>1. CASE Calibrate \/ RefuseDepthModes \/ MotorDetectDone \/ PublishMove
    BY <2>1, Zenon DEF Entered, Calibrate, RefuseDepthModes, MotorDetectDone, PublishMove
  <2>2. CASE Failsafe
    <3>1. in'.mode = in.mode \/ in'.mode = "SURFACE"
      BY <2>2, Zenon DEF Failsafe, ForceSurface, SurfaceAndDisarm, LoopInType
    <3> QED
      BY <1>2, <2>2, <3>1, Zenon DEF Entered, Failsafe
  <2> QED
    BY <2>1, <2>2
<1> QED
  BY <1>1, <1>2, <1>3, PlainSection, Zenon DEF Stopped

LEMMA StopStep == ConstantsAssumption /\ StopInv /\ [ANext]_avars => StopInv'
<1> SUFFICES ASSUME ConstantsAssumption, StopInv, [ANext]_avars PROVE Stopped' /\ Entered'
  BY IInvStep, ANextIsNext, WatchStep, Zenon DEF StopInv
<1>1. CASE ReadInputs /\ ARead
  BY <1>1, ReadWatch, Zenon DEF StopInv, Stopped, Entered, ReadInputs
<1>2. CASE Loop /\ pc # "read" /\ ASection
  <2>1. CASE ArmStateEdges
    BY <1>2, <2>1, EdgesStop, Zenon DEF ArmStateEdges, Entered
  <2> QED
    BY <1>2, <2>1, EnterStops, TunesStop, SafetyStops, DriveStops, OtherSectionsStop,
       Zenon DEF Loop, ReadInputs
<1>3. CASE Command /\ ACommand
  <2>1. mach' = mach /\ st' = st /\ in' = in /\ pc' = pc
    BY <1>3, CommandFrame, Zenon
  <2> QED
    BY <1>3, <2>1, CommandWatch, Zenon DEF StopInv, Stopped, Entered
<1>4. CASE (SticksAge \/ TestLapses) /\ UNCHANGED watch
  <2>1. mach' = mach /\ st' = st /\ in'.mode = in.mode /\ pc' = pc
    BY <1>4, Zenon DEF SticksAge, TestLapses, WritesControl, StopInv, IInv, TypeOK, LoopInType
  <2> QED
    BY <1>4, <2>1, Zenon DEF StopInv, Stopped, Entered
<1>5. CASE UNCHANGED avars
  BY <1>5, Zenon DEF avars, vars, StopInv, Stopped, Entered
<1> QED
  BY <1>1, <1>2, <1>3, <1>4, <1>5, Zenon DEF ANext

LEMMA StopInit == ConstantsAssumption /\ AInit => StopInv
<1> SUFFICES ASSUME ConstantsAssumption, AInit PROVE StopInv
  OBVIOUS
<1>1. watch.interrupted = {} /\ pc = "read"
  BY Zenon DEF AInit, Init
<1> QED
  BY <1>1, StateInit, WatchInit, Zenon DEF StopInv, Stopped, Entered

THEOREM StopsThroughout == ASpec => []StopInv
  BY ConstantsAssumption, StopInit, StopStep, PTL DEF ASpec

\* Whatever the locks, the commands and the vehicle do, a stunt, pattern or tune
\* that a disarm or a safety abort stopped drives again only when started again.
THEOREM InterruptedStaysStopped == ASpec => []InterruptedNeverDrives
<1>1. StopInv => InterruptedNeverDrives
  <2> SUFFICES ASSUME StopInv, pc = "drive", Driver \in watch.interrupted PROVE FALSE
    BY DEF InterruptedNeverDrives
  <2>1. Driver \in Manoeuvres
    BY DEF StopInv, WatchType
  <2>2. in.mode = "STUNT" => st.mode = "STUNT"
    BY Zenon DEF StopInv, Entered
  <2> QED
    BY <2>1, <2>2, Zenon DEF Driver, Manoeuvres, StopInv, Stopped
<1> QED
  BY <1>1, StopsThroughout, PTL

---------------------------------------------------------------------------
(* Arming, when every timed lock is granted *)

\* The sections behind the edges arm nothing, and set neither override nor stick.
Disarming ==
  /\ st'.armed = st.armed
  /\ in'.armed => in.armed
  /\ test' = "live" => test = "live"
  /\ in'.test = "live" => in.test = "live"
  /\ control'.stick => control.stick
  /\ in'.stick => in.stick

LEMMA ModeSections ==
  ASSUME IInv, RefuseDepthModes \/ EnterMode \/ Tunes \/ PublishMove PROVE Disarming
<1> USE DEF IInv, TypeOK
<1>1. /\ in'.armed = in.armed /\ in'.test = in.test /\ in'.stick = in.stick
      /\ st'.armed = st.armed /\ test' = test
  BY Zenon DEF RefuseDepthModes, EnterMode, Tunes, PublishMove, LoopInType, LatchType
<1>2. control'.stick = control.stick
  BY Zenon DEF Locked, RefuseDepthModes, EnterMode, Tunes, PublishMove, ControlType
<1> QED
  BY <1>1, <1>2, Zenon DEF Disarming

LEMMA DecidingSections ==
  ASSUME IInv, MotorDetectDone \/ SafetyMonitor \/ Failsafe PROVE Disarming
<1> USE DEF IInv, TypeOK
<1>1. test' = test /\ st'.armed = st.armed
  BY Zenon DEF MotorDetectDone, SafetyMonitor, Failsafe, ForceSurface, SurfaceAndDisarm, LatchType
<1>2. in'.test = in.test /\ in'.stick = in.stick /\ (in'.armed => in.armed)
  BY Zenon DEF MotorDetectDone, DetectHandsOver, SafetyMonitor, Failsafe, ForceSurface,
     SurfaceAndDisarm, LoopInType
<1>3. control'.stick = control.stick
  BY Zenon DEF Locked, MotorDetectDone, DetectHandsOver, SafetyMonitor, Failsafe, ForceSurface,
     SurfaceAndDisarm, ControlType
<1> QED
  BY <1>1, <1>2, <1>3, Zenon DEF Disarming

LEMMA DriveSection == ASSUME IInv, Drive PROVE Disarming
<1> USE DEF IInv, TypeOK
<1>1. /\ st' = st /\ in'.armed = in.armed /\ in'.stick = in.stick
      /\ in'.test = "live" => in.test = "live"
      /\ test' = "live" => test = "live"
  BY Zenon DEF Drive, LoopInType, Locked
<1>2. control'.stick = control.stick
  BY Zenon DEF Drive, DriveTest, DriveMotorTune, DriveAutotune, DriveStunt, DrivePattern,
     DriveMode, TuneFinished, Locked, ControlType
<1> QED
  BY <1>1, <1>2, Zenon DEF Disarming

\* Behind the edges nothing arms, and nothing old comes back.
LEMMA LaterHolds ==
  ASSUME ArmInv, ASection,
         \/ RefuseDepthModes \/ MotorDetectDone \/ EnterMode \/ Tunes
         \/ SafetyMonitor \/ Failsafe \/ Drive \/ PublishMove
  PROVE  EdgeBehind' /\ OldTestWaits' /\ OldSticksWait'
<1>1. Disarming
  BY ModeSections, DecidingSections, DriveSection, Zenon DEF ArmInv
<1>2. /\ pc \notin {"calibrate", "edges", "read"} /\ pc' \notin {"calibrate", "edges"}
      /\ pc = "publish" => pc' = "read"
  BY Zenon DEF RefuseDepthModes, MotorDetectDone, EnterMode, Tunes, SafetyMonitor,
     Failsafe, Drive, PublishMove
<1>3. /\ watch.freshTest => watch'.freshTest
      /\ watch'.sticks = watch.sticks
  BY SectionWatch, Zenon DEF ArmInv
<1>5. EdgeBehind'
  BY <1>1, <1>2, Zenon DEF ArmInv, EdgeBehind, Disarming
<1>6. OldTestWaits'
  BY <1>1, <1>2, <1>3, Zenon DEF ArmInv, OldTestWaits, EdgeAhead, Disarming
<1>7. OldSticksWait'
  BY <1>1, <1>2, <1>3, Zenon DEF ArmInv, OldSticksWait, EdgeAhead, Disarming
<1> QED
  BY <1>5, <1>6, <1>7

\* The snapshot: what is older than a disarm has the edge of this pass ahead.
LEMMA ReadHandsOver ==
  ASSUME LocksGranted, ArmInv, ReadInputs, ARead
  PROVE  EdgeBehind' /\ OldTestWaits' /\ OldSticksWait'
<1>1. /\ pc = "read" /\ pc' = "calibrate" /\ st' = st /\ control' = control /\ test' = test
      /\ in'.armed = control.armed /\ in'.stick = control.stick /\ in'.test = test
  BY Granted, SMT DEF Locked, ReadInputs
<1>2. /\ watch'.freshTest = (watch.freshTest /\ (in'.armed \/ control.armed))
      /\ watch'.sticks = (watch.sticks /\ ~(st.armed /\ ~in'.armed))
  BY ReadWatch, Zenon DEF ArmInv
<1>4. EdgeBehind'
  BY <1>1, Zenon DEF EdgeBehind
<1>5. OldTestWaits'
  BY <1>1, <1>2, Zenon DEF ArmInv, OldTestWaits, EdgeAhead
<1>6. OldSticksWait'
  BY <1>1, <1>2, Zenon DEF ArmInv, OldSticksWait, EdgeAhead
<1> QED
  BY <1>4, <1>5, <1>6

\* A routine that pulses a motor sets the override afresh.
LEMMA CalibrateHandsOver ==
  ASSUME ArmInv, Calibrate, ASection
  PROVE  EdgeBehind' /\ OldTestWaits' /\ OldSticksWait'
<1>1. /\ pc = "calibrate" /\ pc' = "edges" /\ st' = st /\ control' = control /\ in' = in
      /\ acted' = acted
      /\ test' = test \/ (cal = "MOTOR_DETECT" /\ test' = "live")
  BY Zenon DEF Calibrate
<1>2. /\ watch'.sticks = watch.sticks
      /\ watch'.freshTest = \/ watch.freshTest
                            \/ pc = "calibrate" /\ cal = "MOTOR_DETECT" /\ test' = "live"
  BY <1>1, SectionWatch, Zenon DEF ArmInv
<1>4. EdgeBehind'
  BY <1>1, Zenon DEF EdgeBehind
<1>5. OldTestWaits'
  BY <1>1, <1>2, Zenon DEF ArmInv, OldTestWaits, EdgeAhead
<1>6. OldSticksWait'
  BY <1>1, <1>2, Zenon DEF ArmInv, OldSticksWait, EdgeAhead
<1> QED
  BY <1>4, <1>5, <1>6

\* The arm edge drops the override, the disarm edge the sticks.
LEMMA EdgesHandOver ==
  ASSUME LocksGranted, ArmInv, ArmStateEdges, ASection
  PROVE  EdgeBehind' /\ OldTestWaits' /\ OldSticksWait'
<1> USE DEF ArmInv, IInv, TypeOK
<1>1. /\ pc = "edges" /\ pc' = "refuse" /\ acted' = acted /\ st'.armed = in.armed
      /\ in'.armed = in.armed
  BY Zenon DEF ArmStateEdges, LatchType, LoopInType
<1>2. watch'.sticks = watch.sticks /\ watch'.freshTest = watch.freshTest
  <2>1. watch \in WatchType /\ watch.freshTest \in BOOLEAN /\ pc # "calibrate"
    BY <1>1, Zenon DEF WatchType
  <2> HIDE DEF ArmInv, IInv, TypeOK
  <2> QED
    BY <2>1, SectionWatch, Zenon
<1>3. control'.armed = control.armed
  BY Zenon DEF ArmStateEdges, DisarmClears, Locked, ControlType
<1>4. CASE ArmEdge
  <2>1. /\ test' = "off" /\ in'.test = "off" /\ control' = control
        /\ in'.stick = in.stick /\ in.armed
    BY <1>4, Granted, Zenon DEF Locked, ArmStateEdges, ArmEdge, DisarmEdge, ArmEdgeTest, LoopInType
  <2> QED
    BY <1>1, <1>2, <2>1, Zenon DEF EdgeBehind, OldTestWaits,
       OldSticksWait, EdgeAhead
<1>5. CASE DisarmEdge
  <2>1. /\ test' = test /\ in'.test = in.test /\ ~in'.stick /\ ~control'.stick /\ ~in.armed
    BY <1>5, Granted, Zenon DEF Locked, ArmStateEdges, ArmEdge, DisarmEdge, DisarmClears,
       LoopInType, ControlType
  <2> QED
    BY <1>1, <1>2, <1>3, <2>1, Zenon DEF EdgeBehind, OldTestWaits,
       OldSticksWait, EdgeAhead
<1>6. CASE in.armed = st.armed
  <2>1. test' = test /\ in' = in /\ control' = control
    BY <1>6, Zenon DEF ArmStateEdges, ArmEdge, DisarmEdge
  <2> QED
    BY <1>1, <1>2, <1>6, <2>1, Zenon DEF EdgeBehind, OldTestWaits,
       OldSticksWait, EdgeAhead
<1> QED
  BY <1>4, <1>5, <1>6, Zenon DEF ArmStateEdges

\* An operator's order is recorded in the step that carries it out.
LEMMA CommandHandsOver ==
  ASSUME ArmInv, Command, ACommand
  PROVE  EdgeBehind' /\ OldTestWaits' /\ OldSticksWait'
<1> USE DEF ArmInv, IInv, TypeOK
<1>1. pc' = pc /\ in' = in /\ st' = st
  BY CommandFrame, Zenon
<1>2. control'.armed => control.armed \/ ArmCommand
  BY Zenon DEF Command, ArmCommand, ModeCommand, Disarm, SetMode, Stunt,
     Pattern, Autotune, ManualControl, StartCalibration, Finish, MoveCheck, MoveIssue,
     MoveRejected, MotorTestCheck, MotorTestSet, WritesControl, ControlType
<1>3. control'.stick => control.stick \/ ManualControl
  BY Zenon DEF Command, ArmCommand, ModeCommand, Arm, JsArm, Disarm, SetMode, Stunt,
     Pattern, Autotune, StartCalibration, Finish, MoveCheck, MoveIssue,
     MoveRejected, MotorTestCheck, MotorTestSet, WritesControl, ControlType
<1>4. test' = test \/ TestCommand
  BY Zenon DEF Command, ArmCommand, ModeCommand, Arm, JsArm, Disarm, SetMode, Stunt,
     Pattern, Autotune, ManualControl, StartCalibration, Finish, MoveCheck, MoveIssue,
     MoveRejected, MotorTestCheck, TestCommand, WritesControl
<1>5. /\ watch'.freshTest = (watch.freshTest \/ TestCommand)
      /\ watch'.sticks = (watch.sticks \/ ManualControl)
  BY CommandWatch
<1> QED
  BY <1>1, <1>2, <1>3, <1>4, <1>5, Zenon DEF EdgeBehind, OldTestWaits,
     OldSticksWait, EdgeAhead

\* Time only takes away what is live.
LEMMA TimeHandsOver ==
  ASSUME ArmInv, SticksAge \/ TestLapses, UNCHANGED watch
  PROVE  EdgeBehind' /\ OldTestWaits' /\ OldSticksWait'
<1> USE DEF ArmInv, IInv, TypeOK
<1>1. /\ pc' = pc /\ st' = st
      /\ in'.armed = in.armed /\ in'.stick = in.stick
      /\ in'.test = "live" => in.test = "live"
      /\ test' = "live" => test = "live"
      /\ control'.armed = control.armed
      /\ control'.stick => control.stick
  BY Zenon DEF SticksAge, TestLapses, WritesControl, ControlType, LoopInType
<1> QED
  BY <1>1, Zenon DEF EdgeBehind, OldTestWaits, OldSticksWait, EdgeAhead

LEMMA ArmStep ==
  ASSUME LocksGranted
  PROVE  ConstantsAssumption /\ ArmInv /\ [ANext]_avars => ArmInv'
<1> SUFFICES ASSUME ConstantsAssumption, ArmInv, [ANext]_avars
             PROVE  EdgeBehind' /\ OldTestWaits' /\ OldSticksWait'
  BY IInvStep, ANextIsNext, WatchStep, Zenon DEF ArmInv
<1>1. CASE ReadInputs /\ ARead
  BY <1>1, ReadHandsOver
<1>2. CASE Loop /\ pc # "read" /\ ASection
  BY <1>2, CalibrateHandsOver, EdgesHandOver, LaterHolds, Zenon DEF Loop, ReadInputs
<1>3. CASE Command /\ ACommand
  BY <1>3, CommandHandsOver
<1>4. CASE (SticksAge \/ TestLapses) /\ UNCHANGED watch
  BY <1>4, TimeHandsOver
<1>5. CASE UNCHANGED avars
  BY <1>5, Zenon DEF avars, vars, ArmInv, EdgeBehind, OldTestWaits,
     OldSticksWait, EdgeAhead
<1> QED
  BY <1>1, <1>2, <1>3, <1>4, <1>5, Zenon DEF ANext

LEMMA ArmInit == ConstantsAssumption /\ AInit => ArmInv
<1> SUFFICES ASSUME ConstantsAssumption, AInit PROVE ArmInv
  OBVIOUS
<1>1. /\ ~control.armed /\ ~in.armed /\ ~control.stick /\ ~in.stick
      /\ test = "off" /\ in.test = "off"
  BY Zenon DEF AInit, Init
<1> QED
  BY <1>1, StateInit, WatchInit, Zenon DEF ArmInv, EdgeBehind, OldTestWaits,
     OldSticksWait, EdgeAhead

THEOREM ArmingThroughout == ASSUME LocksGranted PROVE ASpec => []ArmInv
  BY ConstantsAssumption, ArmInit, ArmStep, PTL DEF ASpec

\* If no timed lock misses, an armed pass drives a test motor only for an
\* override that was set after the last disarmed pass.
THEOREM OldTestsAreDropped == ASSUME LocksGranted PROVE ASpec => []ArmingDropsOldTest
<1>1. ArmInv => ArmingDropsOldTest
  BY Zenon DEF ArmInv, EdgeBehind, OldTestWaits, EdgeAhead, ArmingDropsOldTest
<1> QED
  BY <1>1, ArmingThroughout, PTL

\* If no timed lock misses, an armed pass flies on no stick that is older than
\* the last disarm the loop has seen.
THEOREM OldSticksAreDropped == ASSUME LocksGranted PROVE ASpec => []DisarmDropsSticks
<1>1. ArmInv => DisarmDropsSticks
  BY Zenon DEF ArmInv, OldSticksWait, EdgeAhead, DisarmDropsSticks
<1> QED
  BY <1>1, ArmingThroughout, PTL
=============================================================================
