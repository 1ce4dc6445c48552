---------------------------- MODULE ArmingWatch ----------------------------
(***************************************************************************)
(* The flight loop beside an observer of arming: which manoeuvres a disarm *)
(* or a safety abort interrupted, whether the arm state still rests on an  *)
(* operator's command, and since when the motor-test override has been     *)
(* set.  As in FailsafeWatch the observer is a history variable.           *)
(***************************************************************************)
EXTENDS ControlLoop

VARIABLE watch

avars == <<vars, watch>>

\* The manoeuvres a disarm must stop for good.  A move is not one of them:
\* movement::abort means to brake.
Manoeuvres == {"STUNT", "PATTERN", "autotune", "motor_tune"}

WatchType ==
  [interrupted : SUBSET Manoeuvres, \* stopped while running, not started again
   cleared : BOOLEAN,               \* armed by command since the loop disarmed
   freshTest : BOOLEAN,             \* override set since the loop saw a disarm
   sticks : BOOLEAN]                \* sticks moved since the last disarm seen

AInit ==
  /\ Init
  /\ watch = [interrupted |-> {}, cleared |-> FALSE, freshTest |-> FALSE,
              sticks |-> FALSE]

RunningManoeuvres ==
  {m \in Manoeuvres : \/ m = "STUNT" /\ mach.stunt
                      \/ m = "PATTERN" /\ mach.pattern
                      \/ m = "autotune" /\ mach.autotune
                      \/ m = "motor_tune" /\ mach.motor_tune}

\* What the current section is about to start.
Starting ==
  {m \in Manoeuvres :
     \/ pc = "enter" /\ in.mode # st.mode /\ m = in.mode
     \/ pc = "tunes" /\ m = "autotune" /\ AutotuneWanted /\ ~st.autotune
     \/ pc = "tunes" /\ m = "motor_tune" /\ MotorTuneWanted /\ ~st.mtune}

SelfDisarms == {"safety", "surfaced", "detected", "tuned"}

DecidesToDisarm == acted' \cap SelfDisarms # acted \cap SelfDisarms

Interrupts == \/ pc = "edges" /\ DisarmEdge
              \/ pc = "safety" /\ DecidesToDisarm

ARead ==
  watch' = [watch EXCEPT !.freshTest = @ /\ (in'.armed \/ control.armed),
                         !.sticks = @ /\ ~(st.armed /\ ~in'.armed)]

ASection ==
  watch' = [watch EXCEPT
    !.interrupted = (IF Interrupts THEN @ \cup RunningManoeuvres ELSE @) \ Starting,
    !.cleared = @ /\ ~DecidesToDisarm,
    !.freshTest = @ \/ (pc = "calibrate" /\ cal = "MOTOR_DETECT" /\ test' = "live")]

TestCommand == \E task \in Core0Tasks : MotorTestSet(task)

ACommand ==
  watch' = [watch EXCEPT !.cleared = @ \/ ArmCommand,
                         !.freshTest = @ \/ TestCommand,
                         !.sticks = @ \/ ManualControl]

ANext ==
  \/ ReadInputs /\ ARead
  \/ Loop /\ pc # "read" /\ ASection
  \/ Command /\ ACommand
  \/ (SticksAge \/ TestLapses) /\ UNCHANGED watch

ASpec == AInit /\ [][ANext]_avars

---------------------------------------------------------------------------
(* Properties *)

\* A manoeuvre that a disarm or a safety abort stopped never drives again on
\* its own: it has to be started afresh, by a mode entry or a tune's start.
InterruptedNeverDrives ==
  pc = "drive" => Driver \notin watch.interrupted

\* When the loop itself disarms -- safety monitor, surfaced failsafe, finished
\* tune, finished motor detect -- no later section sees an armed vehicle until
\* an operator arms it again.
SelfDisarmSticks ==
  pc = "drive" /\ in.armed => watch.cleared

\* An armed vehicle drives a test motor only for an override that was set after
\* the last disarmed pass: re-arming never resumes the last-tested motor.
ArmingDropsOldTest ==
  pc = "drive" /\ in.armed /\ in.test = "live" => watch.freshTest

\* Sticks held across a disarm are never thrust on the next arm: an armed pass
\* that flies on the sticks has had a packet since the disarm was seen.
DisarmDropsSticks ==
  pc = "drive" /\ in.armed /\ in.stick => watch.sticks
=============================================================================
