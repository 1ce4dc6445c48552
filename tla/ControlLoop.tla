---------------------------- MODULE ControlLoop ----------------------------
(***************************************************************************)
(* The 500 Hz flight loop (Task_ControlLoop, Core 1) and the MAVLink       *)
(* command handlers of Core 0 that share g_state with it.                  *)
(*                                                                         *)
(* One pass of the loop is a chain of sections, each a step of its own:    *)
(* read -> calibrate -> edges -> refuse -> detect -> enter -> tunes ->     *)
(* safety -> failsafe -> drive -> publish.  A section takes the mutex of   *)
(* the structure it touches and releases it, so a handler of Core 0 may    *)
(* run between any two sections; this is the interleaving the loop's       *)
(* snapshot `in' exists for.  Every lock of the loop is a timed take of    *)
(* 1 or 2 ms whose miss is skipped, never retried: LockMiss says whether   *)
(* a take may miss.                                                        *)
(*                                                                         *)
(* The vehicle is the environment: the depth, the faults and the verdict   *)
(* of the safety monitor are chosen freely at every pass.  Attitude, PID   *)
(* and mixing arithmetic is left out; what is kept is which controller     *)
(* owns the thrusters and whether they are armed.                          *)
(***************************************************************************)
EXTENDS Naturals

CONSTANTS
  GcsModes,    \* modes an operator may select (isSupportedMode)
  Orders,      \* other command handlers that Core 0 may run
  EnvFaults,   \* failsafe causes that can occur and are enabled by parameter
  Depths,      \* depth readings the vehicle can give
  MaxMoves,    \* bound on the number of SROT_MOVE commands accepted
  BatHold,     \* FS_BAT_HOLD_MS in passes of the loop
  SurfHold,    \* FS_SURFACE_HOLD_MS in passes of the loop
  LockMiss     \* may a timed lock take of the loop miss?

Selectable == {"MANUAL", "STABILIZE", "ACRO", "DEPTH_HOLD", "SURFACE", "MOTOR_DETECT",
               "AUTOTUNE", "MOTOR_TUNE", "AUTO"}

Faults == {"leak", "battery", "link"}

\* No healthy depth reading, deeper than FS_SURFACE_DEPTH_M, shallower.
DepthReadings == {"none", "deep", "shallow"}

OrderKinds == {"arm", "js_arm", "disarm", "stunt", "pattern", "autotune",
               "motor_test", "manual_control", "calibrate"}

ASSUME ConstantsAssumption ==
  /\ GcsModes \subseteq Selectable
  /\ Orders \subseteq OrderKinds
  /\ EnvFaults \subseteq Faults
  /\ Depths \subseteq DepthReadings
  /\ MaxMoves \in Nat
  /\ BatHold \in Nat
  /\ SurfHold \in Nat
  /\ LockMiss \in BOOLEAN

VARIABLES
  pc,       \* the section of the loop that runs next
  control,  \* g_state.control: armed, mode, autotune_active, sticks, mv_*
  test,     \* g_state.thrusters.test_override with its deadline
  cal,      \* g_state.cal.routine
  in,       \* LoopIn: the snapshot the pass works on
  st,       \* the loop's own latches, edges and timers
  mach,     \* the manoeuvre state machines
  act,      \* at_active and mt_active of this pass
  out,      \* what was last published to the DShot task
  acted,    \* what the loop decided by itself in this pass
  core0     \* for each task of Core 0, its handler that is between two locks

vars == <<pc, control, test, cal, in, st, mach, act, out, acted, core0>>

---------------------------------------------------------------------------
(* Types *)

Modes == Selectable \cup {"STUNT", "PATTERN"}

Sections == {"read", "calibrate", "edges", "refuse", "detect", "enter",
             "tunes", "safety", "failsafe", "drive", "publish"}

\* test_override off, on and within its deadline, on and past its deadline.
TestStates == {"off", "live", "lapsed"}

Routines == {"NONE", "MOTOR_DETECT", "OTHER"}

\* movement: no command, in a leg, in PH_STYLE (a leg flown by the stunt
\* machine), in PH_BRAKE, in PH_DONE.
Phases == {"NONE", "RUN", "STYLE", "BRAKE", "DONE"}

Drivers == {"none", "test", "motor_tune", "autotune", "STUNT", "PATTERN",
            "AUTO", "SURFACE", "pilot"}

Decisions == Faults \cup {"safety", "surfaced", "detected", "tuned"}

MoveSeqs == 0 .. MaxMoves

\* The tasks that handle messages: from the UART, and from the LoRa uplink.
Core0Tasks == {"mavlink", "lora"}

ControlType == [armed : BOOLEAN, mode : Modes, autotune : BOOLEAN,
                stick : BOOLEAN, mv_seq : MoveSeqs, mv_active : BOOLEAN,
                mv_done_seq : MoveSeqs]

LoopInType == [armed : BOOLEAN, mode : Modes, autotune : BOOLEAN,
               stick : BOOLEAN, mv_seq : MoveSeqs, depth : DepthReadings,
               faults : SUBSET EnvFaults, test : TestStates]

LatchType == [mode : Modes, armed : BOOLEAN, autotune : BOOLEAN,
              mtune : BOOLEAN, mv_seq : MoveSeqs, mv_was_active : BOOLEAN,
              fs_surface : BOOLEAN, surf_since : 0 .. SurfHold + 1,
              bat_since : 0 .. BatHold + 1]

MachType == [move : Phases, autotune : BOOLEAN, motor_tune : BOOLEAN,
             stunt : BOOLEAN, pattern : BOOLEAN]

Core0Type == [Core0Tasks -> {"idle", "move", "test"}]

\* The type invariant: every variable keeps its type through every section and
\* handler; in particular the hold timers of the failsafes stay in their range
\* and no sequence number runs ahead of the commands accepted.
TypeOK ==
  /\ pc \in Sections
  /\ control \in ControlType
  /\ test \in TestStates
  /\ cal \in Routines
  /\ in \in LoopInType
  /\ st \in LatchType
  /\ mach \in MachType
  /\ act \in [at : BOOLEAN, mt : BOOLEAN]
  /\ out \in [armed : BOOLEAN, driver : Drivers]
  /\ acted \in SUBSET Decisions
  /\ core0 \in Core0Type

Init ==
  /\ pc = "read"
  /\ control = [armed |-> FALSE, mode |-> "MANUAL", autotune |-> FALSE,
                stick |-> FALSE, mv_seq |-> 0, mv_active |-> FALSE,
                mv_done_seq |-> 0]
  /\ test = "off"
  /\ cal = "NONE"
  /\ in = [armed |-> FALSE, mode |-> "MANUAL", autotune |-> FALSE,
           stick |-> FALSE, mv_seq |-> 0, depth |-> "none", faults |-> {},
           test |-> "off"]
  /\ st = [mode |-> "MANUAL", armed |-> FALSE, autotune |-> FALSE,
           mtune |-> FALSE, mv_seq |-> 0, mv_was_active |-> FALSE,
           fs_surface |-> FALSE, surf_since |-> 0, bat_since |-> 0]
  /\ mach = [move |-> "NONE", autotune |-> FALSE, motor_tune |-> FALSE,
             stunt |-> FALSE, pattern |-> FALSE]
  /\ act = [at |-> FALSE, mt |-> FALSE]
  /\ out = [armed |-> FALSE, driver |-> "none"]
  /\ acted = {}
  /\ core0 = [task \in Core0Tasks |-> "idle"]

---------------------------------------------------------------------------
(* Helpers of the loop *)

\* A timed take of a StateLock: it may miss, and the caller then skips.
LockOutcome == IF LockMiss THEN BOOLEAN ELSE {TRUE}

\* `if (lk.ok()) new' -- the write is lost when the take missed.
Locked(lk, new, old) == IF lk THEN new ELSE old

\* One more pass on a running hold timer; 0 is "not running".
Tick(since, hold) == IF since > hold THEN since ELSE since + 1

ArmEdge == in.armed /\ ~st.armed
DisarmEdge == ~in.armed /\ st.armed

\* motor_tune, autotune, movement, stunt and pattern abort().  movement::abort
\* parks the command in PH_BRAKE; the others stop at once.
AbortAllForgetsStunt(m) ==
  [m EXCEPT !.move = "BRAKE", !.autotune = FALSE, !.motor_tune = FALSE,
            !.pattern = FALSE]
AbortAllIdle(m) ==
  [m EXCEPT !.move = "IDLE", !.autotune = FALSE, !.motor_tune = FALSE,
            !.stunt = FALSE, !.pattern = FALSE]
AbortAll(m) ==
  [m EXCEPT !.move = "BRAKE", !.autotune = FALSE, !.motor_tune = FALSE,
            !.stunt = FALSE, !.pattern = FALSE]

\* What the disarm edge clears of the shared control state: the sticks, so that
\* the next arm does not thrust on them, and the ATUNE trigger.
DisarmKeepsSticks(c) == [c EXCEPT !.autotune = FALSE]
DisarmClears(c) == [c EXCEPT !.stick = FALSE, !.autotune = FALSE]

\* What the arm edge leaves of the shared motor-test override.
ArmEdgeKeepsTest(t, lk) == t
ArmEdgeTest(t, lk) == Locked(lk, "off", t)

---------------------------------------------------------------------------
(* The sections of one pass *)

\* readInputs: a lock miss keeps the previous snapshot of that structure.
ReadInputs ==
  /\ pc = "read"
  /\ \E lkControl, lkThrusters \in LockOutcome,
        d \in Depths, f \in SUBSET EnvFaults :
       LET c == Locked(lkControl,
                       [armed |-> control.armed, mode |-> control.mode,
                        autotune |-> control.autotune, stick |-> control.stick,
                        mv_seq |-> control.mv_seq],
                       [armed |-> in.armed, mode |-> in.mode,
                        autotune |-> in.autotune, stick |-> in.stick,
                        mv_seq |-> in.mv_seq])
       IN  in' = [armed |-> c.armed, mode |-> c.mode, autotune |-> c.autotune,
                  stick |-> c.stick, mv_seq |-> c.mv_seq, depth |-> d,
                  faults |-> f, test |-> Locked(lkThrusters, test, in.test)]
  /\ acted' = {}
  /\ pc' = "calibrate"
  /\ UNCHANGED <<control, test, cal, st, mach, act, out, core0>>

\* calibration::update: settle or miss the lock, pulse a motor through the
\* test override, or finish the routine.
Calibrate ==
  /\ pc = "calibrate"
  /\ \/ UNCHANGED <<test, cal>>
     \/ /\ cal = "MOTOR_DETECT"
        /\ test' = "live"
        /\ UNCHANGED cal
     \/ /\ cal # "NONE"
        /\ cal' = "NONE"
        /\ UNCHANGED test
  /\ pc' = "edges"
  /\ UNCHANGED <<control, in, st, mach, act, out, acted, core0>>

\* The DISARMED -> ARMED and ARMED -> DISARMED edges of the snapshot.
ArmStateEdges ==
  /\ pc = "edges"
  /\ \/ /\ ArmEdge
        /\ \E lk \in LockOutcome : test' = ArmEdgeTest(test, lk)
        /\ in' = [in EXCEPT !.test = "off"]
        /\ UNCHANGED <<control, cal, mach>>
     \/ /\ DisarmEdge
        /\ mach' = AbortAll(mach)
        /\ \E lkCal, lk \in LockOutcome :
             /\ cal' = Locked(lkCal, "NONE", cal)
             /\ control' = Locked(lk, DisarmClears(control), control)
        /\ in' = [in EXCEPT !.stick = FALSE]
        /\ UNCHANGED test
     \/ /\ in.armed = st.armed
        /\ UNCHANGED <<control, test, cal, in, mach>>
  /\ st' = [st EXCEPT !.armed = in.armed]
  /\ pc' = "refuse"
  /\ UNCHANGED <<act, out, acted, core0>>

NeedsDepth == {"DEPTH_HOLD", "AUTO", "PATTERN"}

\* Depth-dependent modes fall back to STABILIZE without a depth reading.
RefuseDepthModes ==
  /\ pc = "refuse"
  /\ IF in.depth = "none" /\ in.mode \in NeedsDepth
       THEN /\ in' = [in EXCEPT !.mode = "STABILIZE"]
            /\ \E lk \in LockOutcome :
                 control' = Locked(lk, [control EXCEPT !.mode = "STABILIZE"],
                                   control)
       ELSE UNCHANGED <<in, control>>
  /\ pc' = "detect"
  /\ UNCHANGED <<test, cal, st, mach, act, out, acted, core0>>

\* What MOTOR_DETECT hands over to when its routine has ended.
DetectHandsOverArmed(c) == [c EXCEPT !.mode = "STABILIZE"]
DetectHandsOver(c) == [c EXCEPT !.mode = "MANUAL", !.armed = FALSE]

\* MOTOR_DETECT whose routine has ended goes to MANUAL, disarmed; MOTOR_DETECT
\* selected while disarmed is refused.
MotorDetectDone ==
  /\ pc = "detect"
  /\ \E lkCal, lk \in LockOutcome :
       LET finished == /\ in.mode = "MOTOR_DETECT"
                       /\ st.mode = "MOTOR_DETECT"
                       /\ ~(lkCal /\ cal = "MOTOR_DETECT")
       IN  \/ /\ finished
              /\ in' = DetectHandsOver(in)
              /\ control' = Locked(lk, DetectHandsOver(control), control)
              /\ acted' = acted \cup {"detected"}
           \/ /\ ~finished
              /\ in.mode = "MOTOR_DETECT" /\ ~in.armed
              /\ in' = [in EXCEPT !.mode = "STABILIZE"]
              /\ control' = Locked(lk, [control EXCEPT !.mode = "STABILIZE"],
                                   control)
              /\ UNCHANGED acted
           \/ /\ ~finished
              /\ in.mode = "MOTOR_DETECT" => in.armed
              /\ UNCHANGED <<in, control, acted>>
  /\ pc' = "enter"
  /\ UNCHANGED <<test, cal, st, mach, act, out, core0>>

\* The state machines after `if (in.mode != prev_mode)': STUNT and PATTERN
\* start, AUTO enters idle (movement::enter), leaving AUTO ends the running
\* move at once (movement::cancel).
LeavingAutoKeepsMove(m) ==
  [m EXCEPT !.stunt = @ \/ in.mode = "STUNT",
            !.pattern = @ \/ in.mode = "PATTERN",
            !.move = IF in.mode = "AUTO" THEN "NONE" ELSE @]
EnterMachines(m) ==
  [m EXCEPT !.stunt = @ \/ in.mode = "STUNT",
            !.pattern = @ \/ in.mode = "PATTERN",
            !.move = IF "AUTO" \in {in.mode, st.mode} THEN "NONE" ELSE @]

\* Entering MOTOR_DETECT starts the routine, leaving it stops the routine.
EnterRoutine(lk) ==
  CASE in.mode = "MOTOR_DETECT" -> Locked(lk, "MOTOR_DETECT", cal)
    [] st.mode = "MOTOR_DETECT" /\ cal = "MOTOR_DETECT" -> Locked(lk, "NONE", cal)
    [] OTHER -> cal

\* movement::start: STOP starts in PH_BRAKE, STYLE starts the stunt machine,
\* every other verb starts a leg.
StartMove(m, phase) == [m EXCEPT !.move = phase, !.stunt = @ \/ phase = "STYLE"]

\* Mode entry, then the start of a new AUTO command on a changed mv_seq.
EnterMode ==
  /\ pc = "enter"
  /\ LET entering == in.mode # st.mode
         starts == in.mode = "AUTO" /\ in.mv_seq # st.mv_seq
         entered == IF entering THEN EnterMachines(mach) ELSE mach
     IN  /\ \E lk \in LockOutcome : cal' = IF entering THEN EnterRoutine(lk) ELSE cal
         /\ \/ /\ starts
               /\ \E phase \in {"RUN", "STYLE", "BRAKE"} :
                    mach' = StartMove(entered, phase)
               /\ st' = [st EXCEPT !.mode = in.mode, !.mv_seq = in.mv_seq]
            \/ /\ ~starts
               /\ mach' = entered
               /\ st' = [st EXCEPT !.mode = in.mode]
  /\ pc' = "tunes"
  /\ UNCHANGED <<control, test, in, act, out, acted, core0>>

\* at_active: the ATUNE trigger or the AUTOTUNE mode, while armed.
AutotuneWanted == (in.autotune \/ in.mode = "AUTOTUNE") /\ in.armed
\* mt_active: the MOTOR_TUNE mode (with MTUNE_EN set), while armed.
MotorTuneLatched == (in.mode = "MOTOR_TUNE" \/ st.mtune) /\ in.armed
MotorTuneWanted == in.mode = "MOTOR_TUNE" /\ in.armed

\* Start and stop edges of the two tuners.
Tunes ==
  /\ pc = "tunes"
  /\ LET starts == AutotuneWanted /\ ~st.autotune
     IN  /\ IF starts /\ in.mode # "AUTOTUNE"
              THEN /\ in' = [in EXCEPT !.mode = "AUTOTUNE"]
                   /\ \E lk \in LockOutcome :
                        control' = Locked(lk, [control EXCEPT !.mode = "AUTOTUNE"],
                                          control)
              ELSE UNCHANGED <<in, control>>
         /\ mach' = [mach EXCEPT
                       !.autotune = starts \/ (@ /\ (AutotuneWanted \/ ~st.autotune)),
                       !.motor_tune = \/ MotorTuneWanted /\ ~st.mtune
                                      \/ @ /\ (MotorTuneWanted \/ ~st.mtune)]
  /\ act' = [at |-> AutotuneWanted, mt |-> MotorTuneWanted]
  /\ st' = [st EXCEPT !.autotune = AutotuneWanted, !.mtune = MotorTuneWanted]
  /\ pc' = "safety"
  /\ UNCHANGED <<test, cal, out, acted, core0>>

\* An automatic manoeuvre is armed: the safety monitor watches it.
Monitored == in.armed /\ (act.at \/ act.mt \/ in.mode \in {"AUTO", "STUNT", "PATTERN"})

\* safety_monitor::ok, whose verdict is free; on a tumble, spin-out or depth
\* runaway everything aborts and the vehicle disarms.
SafetyMonitor ==
  /\ pc = "safety"
  /\ \/ UNCHANGED <<control, in, st, mach, act, acted>>
     \/ /\ Monitored
        /\ mach' = AbortAll(mach)
        /\ \E lk \in LockOutcome :
             control' = Locked(lk, [control EXCEPT !.armed = FALSE,
                                                   !.autotune = FALSE],
                               control)
        /\ in' = [in EXCEPT !.armed = FALSE]
        /\ act' = [at |-> FALSE, mt |-> FALSE]
        /\ st' = [st EXCEPT !.autotune = FALSE, !.mtune = FALSE]
        /\ acted' = acted \cup {"safety"}
  /\ pc' = "failsafe"
  /\ UNCHANGED <<test, cal, out, core0>>

\* s_bat_low_since after this pass: it runs only while armed, out of SURFACE
\* and below the threshold.
BatteryTimerOnBench(since) ==
  IF "battery" \in in.faults THEN Tick(since, BatHold) ELSE 0
BatteryTimer(since) ==
  IF in.armed /\ "battery" \in in.faults THEN Tick(since, BatHold) ELSE 0

\* s_at_surface_since after this pass, before the disarm resets it.
SurfaceTimerCumulative(since) ==
  IF st.fs_surface /\ in.armed /\ in.depth = "shallow"
    THEN Tick(since, SurfHold) ELSE since
SurfaceTimerSubmerged(since) ==
  IF st.fs_surface /\ in.armed /\ in.depth = "deep"
    THEN Tick(since, SurfHold) ELSE 0
SurfaceTimer(since) ==
  IF st.fs_surface /\ in.armed /\ in.depth = "shallow"
    THEN Tick(since, SurfHold) ELSE 0

\* The causes that hold in this pass.  The leak and the links act at once, the
\* battery after its hold time.
FailsafeCauses ==
  {f \in in.faults : f = "battery" => BatteryTimer(st.bat_since) > BatHold}

\* Failsafes outside SURFACE: force SURFACE and latch that a failsafe did.
ForceSurface ==
  /\ in.mode # "SURFACE"
  /\ LET fires == in.armed /\ FailsafeCauses # {}
     IN  /\ st' = [st EXCEPT !.bat_since = BatteryTimer(@), !.surf_since = 0,
                             !.fs_surface = fires]
         /\ IF fires
              THEN /\ in' = [in EXCEPT !.mode = "SURFACE"]
                   /\ \E lk \in LockOutcome :
                        control' = Locked(lk, [control EXCEPT !.mode = "SURFACE"],
                                          control)
                   /\ acted' = acted \cup FailsafeCauses
              ELSE UNCHANGED <<in, control, acted>>

\* Already surfacing: disarm once the depth has been shallow long enough, if
\* a failsafe chose SURFACE.
SurfaceAndDisarm ==
  /\ in.mode = "SURFACE"
  /\ LET since == SurfaceTimer(st.surf_since)
         done == since > SurfHold
     IN  /\ st' = [st EXCEPT !.bat_since = 0,
                             !.surf_since = IF done THEN 0 ELSE since]
         /\ IF done
              THEN /\ in' = [in EXCEPT !.armed = FALSE]
                   /\ \E lk \in LockOutcome :
                        control' = Locked(lk, [control EXCEPT !.armed = FALSE],
                                          control)
                   /\ acted' = acted \cup {"surfaced"}
              ELSE UNCHANGED <<in, control, acted>>

Failsafe ==
  /\ pc = "failsafe"
  /\ ForceSurface \/ SurfaceAndDisarm
  /\ pc' = "drive"
  /\ UNCHANGED <<test, cal, mach, act, out, core0>>

\* update() of a tuner, stunt or pattern: it goes on or finishes, and one that
\* is not running reports that it is not.
MachineUpdate(running) == IF running THEN BOOLEAN ELSE {FALSE}

\* movement::update.  PH_DONE falls idle on the next call; the global time-out
\* may send any phase but PH_BRAKE to PH_BRAKE, which ends in the same call
\* when the brake time is zero.
MoveUpdate(m) ==
  LET To(phases) == {[m EXCEPT !.move = phase] : phase \in phases}
  IN  CASE m.move = "RUN"   -> To({"RUN", "BRAKE", "DONE"})
        [] m.move = "BRAKE" -> To({"BRAKE", "DONE"})
        [] m.move = "DONE"  -> To({"NONE", "BRAKE", "DONE"})
        [] m.move = "NONE"  -> {m}
        [] m.move = "STYLE" ->
             To({"BRAKE", "DONE"}) \cup
             {[m EXCEPT !.stunt = spinning, !.move = IF spinning THEN @ ELSE "DONE"] :
                spinning \in MachineUpdate(m.stunt)}

\* `running' of a finished tune: disarm, and leave the tune's mode.
TuneFinished(c, mode) == [c EXCEPT !.armed = FALSE, !.mode = mode]

\* The branches of the drive section: who computes the thrust of this pass.
DriveTest ==
  /\ in.test = "live"
  /\ UNCHANGED <<control, mach, acted>>

DriveMotorTune ==
  /\ in.test # "live" /\ act.mt
  /\ \E running \in MachineUpdate(mach.motor_tune), lk \in LockOutcome :
       /\ mach' = [mach EXCEPT !.motor_tune = running]
       /\ IF lk /\ ~running
            THEN /\ control' = TuneFinished(control, "STABILIZE")
                 /\ acted' = acted \cup {"tuned"}
            ELSE UNCHANGED <<control, acted>>

DriveAutotune ==
  /\ in.test # "live" /\ ~act.mt /\ act.at
  /\ \E running \in MachineUpdate(mach.autotune), lk \in LockOutcome :
       /\ mach' = [mach EXCEPT !.autotune = running]
       /\ IF lk /\ ~running
            THEN /\ control' = [TuneFinished(control,
                                  IF in.mode = "AUTOTUNE" THEN "STABILIZE"
                                                          ELSE control.mode)
                                EXCEPT !.autotune = FALSE]
                 /\ acted' = acted \cup {"tuned"}
            ELSE UNCHANGED <<control, acted>>

DriveStunt ==
  /\ in.test # "live" /\ ~act.mt /\ ~act.at /\ in.mode = "STUNT"
  /\ \E running \in MachineUpdate(mach.stunt), lk \in LockOutcome :
       /\ mach' = [mach EXCEPT !.stunt = running]
       /\ control' = Locked(lk /\ ~running,
                            [control EXCEPT !.mode = "STABILIZE"], control)
  /\ UNCHANGED acted

DrivePattern ==
  /\ in.test # "live" /\ ~act.mt /\ ~act.at /\ in.mode = "PATTERN"
  /\ \E running \in MachineUpdate(mach.pattern), lk \in LockOutcome :
       /\ mach' = [mach EXCEPT !.pattern = running]
       /\ control' = Locked(lk /\ ~running,
                            [control EXCEPT !.mode = "STABILIZE"], control)
  /\ UNCHANGED acted

DriveMode ==
  /\ in.test # "live" /\ ~act.mt /\ ~act.at
  /\ in.mode \notin {"STUNT", "PATTERN"}
  /\ IF in.mode = "AUTO"
       THEN mach' \in MoveUpdate(mach)
       ELSE UNCHANGED mach
  /\ UNCHANGED <<control, acted>>

\* Who this pass's thrust comes from, in the order the branches are tried.
\* A stunt or pattern that is not running turns nothing by itself.
Driver ==
  CASE in.test = "live" -> "test"
    [] in.test # "live" /\ act.mt -> IF mach.motor_tune THEN "motor_tune" ELSE "none"
    [] in.test # "live" /\ ~act.mt /\ act.at ->
         IF mach.autotune THEN "autotune" ELSE "none"
    [] OTHER ->
         CASE in.mode = "STUNT"   -> IF mach.stunt THEN "STUNT" ELSE "pilot"
           [] in.mode = "PATTERN" -> IF mach.pattern THEN "PATTERN" ELSE "none"
           [] in.mode = "AUTO"    -> "AUTO"
           [] in.mode = "SURFACE" -> "SURFACE"
           [] OTHER               -> "pilot"

\* The test override first (a lapsed one is cleared), then the branches, then
\* the publication of the thrust and the arm state.
Drive ==
  /\ pc = "drive"
  /\ \E lk \in LockOutcome :
       /\ test' = Locked(lk /\ in.test = "lapsed", "off", test)
       /\ in' = IF in.test = "lapsed" THEN [in EXCEPT !.test = "off"] ELSE in
  /\ \/ DriveTest \/ DriveMotorTune \/ DriveAutotune
     \/ DriveStunt \/ DrivePattern \/ DriveMode
  /\ \E lk \in LockOutcome :
       out' = Locked(lk, [armed |-> in.armed, driver |-> Driver], out)
  /\ pc' = "publish"
  /\ UNCHANGED <<cal, st, act, core0>>

\* The unconditional mv_* publication; mv_done_seq is latched on its falling
\* edge, and the edge tracker advances only when the write landed.
PublishMove ==
  /\ pc = "publish"
  /\ LET active == mach.move # "NONE"
     IN  \/ /\ control' = [control EXCEPT
                 !.mv_active = active,
                 !.mv_done_seq = IF st.mv_was_active /\ ~active
                                   THEN st.mv_seq ELSE @]
            /\ st' = [st EXCEPT !.mv_was_active = active]
         \/ LockMiss /\ UNCHANGED <<control, st>>
  /\ pc' = "read"
  /\ UNCHANGED <<test, cal, in, mach, act, out, acted, core0>>

Loop ==
  \/ ReadInputs \/ Calibrate \/ ArmStateEdges \/ RefuseDepthModes
  \/ MotorDetectDone \/ EnterMode \/ Tunes \/ SafetyMonitor
  \/ Failsafe \/ Drive \/ PublishMove

---------------------------------------------------------------------------
(* The handlers of Core 0.  Each of its two tasks runs one at a time; those *)
(* that take the lock twice are two steps with core0 saying which is under  *)
(* way in the task, and the other task runs between them as it likes.       *)
(* A lock miss of a handler changes nothing, so it needs no step.           *)

\* A task is free to take a handler from the first lock to the last.
Core0Free(order) == order \in Orders /\ \E task \in Core0Tasks : core0[task] = "idle"

Turns(task, from, to) == core0[task] = from /\ core0' = [core0 EXCEPT ![task] = to]

\* A handler that writes g_state.control and nothing else.
WritesControl(c) ==
  /\ control' = c
  /\ UNCHANGED <<pc, test, cal, in, st, mach, act, out, acted, core0>>

\* ARM: canArm refuses while a calibration routine runs; its sensor checks
\* are free here.
Arm == Core0Free("arm") /\ cal = "NONE" /\ WritesControl([control EXCEPT !.armed = TRUE])

\* The JS_ARM button calls setArmed with no check.
JsArm == Core0Free("js_arm") /\ WritesControl([control EXCEPT !.armed = TRUE])

Disarm == Core0Free("disarm") /\ WritesControl([control EXCEPT !.armed = FALSE])

SetMode(m) ==
  /\ m \in GcsModes /\ \E task \in Core0Tasks : core0[task] = "idle"
  /\ WritesControl([control EXCEPT !.mode = m])

Stunt == Core0Free("stunt") /\ WritesControl([control EXCEPT !.mode = "STUNT"])

Pattern == Core0Free("pattern") /\ WritesControl([control EXCEPT !.mode = "PATTERN"])

\* MAV_CMD_USER_5, and PARAM_SET of ATUNE to 1 or more.
Autotune == Core0Free("autotune") /\ WritesControl([control EXCEPT !.autotune = TRUE])

ManualControl ==
  Core0Free("manual_control") /\ WritesControl([control EXCEPT !.stick = TRUE])

\* Sticks older than MANUAL_DECAY_MS scale to nothing when they are read.
SticksAge == control.stick /\ WritesControl([control EXCEPT !.stick = FALSE])

\* PREFLIGHT_CALIBRATION and DO_START_MAG_CAL set the routine, whatever runs.
StartCalibration ==
  /\ Core0Free("calibrate")
  /\ cal' = "OTHER"
  /\ UNCHANGED <<pc, control, test, in, st, mach, act, out, acted, core0>>

\* Room below the bound, with the moves that have passed their check counted in.
RoomForMove ==
  IF \E task \in Core0Tasks : core0[task] = "move"
    THEN control.mv_seq + 1 < MaxMoves ELSE control.mv_seq < MaxMoves

\* SROT_MOVE: the armed check releases the lock, the write takes it again.
MoveCheck(task) ==
  /\ control.armed /\ RoomForMove
  /\ Turns(task, "idle", "move")
  /\ UNCHANGED <<pc, control, test, cal, in, st, mach, act, out, acted>>

MoveIssue(task) ==
  /\ Turns(task, "move", "idle")
  /\ control' = [control EXCEPT !.mode = "AUTO", !.mv_seq = @ + 1]
  /\ UNCHANGED <<pc, test, cal, in, st, mach, act, out, acted>>

\* The second lock of SROT_MOVE missed: TEMPORARILY_REJECTED.
MoveRejected(task) ==
  /\ LockMiss /\ Turns(task, "move", "idle")
  /\ UNCHANGED <<pc, control, test, cal, in, st, mach, act, out, acted>>

\* DO_MOTOR_TEST: the armed check and the override are under two locks.
MotorTestCheck(task) ==
  /\ "motor_test" \in Orders /\ control.armed
  /\ Turns(task, "idle", "test")
  /\ UNCHANGED <<pc, control, test, cal, in, st, mach, act, out, acted>>

MotorTestSet(task) ==
  /\ Turns(task, "test", "idle")
  /\ test' = "live"
  /\ UNCHANGED <<pc, control, cal, in, st, mach, act, out, acted>>

\* test_expire_ms passes, for the snapshot first when the shared deadline was
\* renewed since.
TestLapses ==
  /\ \/ /\ test = "live"
        /\ test' = "lapsed"
        /\ in' = [in EXCEPT !.test = IF @ = "live" THEN "lapsed" ELSE @]
     \/ /\ in.test = "live"
        /\ in' = [in EXCEPT !.test = "lapsed"]
        /\ UNCHANGED test
  /\ UNCHANGED <<pc, control, cal, st, mach, act, out, acted, core0>>

ArmCommand == Arm \/ JsArm
ModeCommand ==
  \/ Stunt \/ Pattern
  \/ \E m \in GcsModes : SetMode(m)
  \/ \E task \in Core0Tasks : MoveIssue(task)

\* The rest of a handler that is between its two locks.
Finish(task) == MoveIssue(task) \/ MoveRejected(task) \/ MotorTestSet(task)

Command ==
  \/ ArmCommand \/ Disarm \/ ModeCommand \/ Autotune \/ ManualControl \/ StartCalibration
  \/ \E task \in Core0Tasks : MoveCheck(task) \/ MotorTestCheck(task) \/ Finish(task)

Next == Loop \/ Command \/ SticksAge \/ TestLapses

Spec == Init /\ [][Next]_vars

---------------------------------------------------------------------------
(* Liveness of the loop, under the fairness of FailsafeWatch *)

\* From some point on no command arrives, a fault persists and the vehicle is
\* at the surface with a working depth sensor.
AbandonedAtSurface ==
  /\ <>[][~Command]_vars
  /\ <>[](in.faults # {} /\ in.depth = "shallow")

\* An abandoned vehicle at the surface ends disarmed: no fault, mode or
\* manoeuvre leaves it armed and station-keeping for ever.
AbandonedEndsDisarmed == AbandonedAtSurface => <>[](~control.armed)
=============================================================================
