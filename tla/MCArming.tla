----------------------------- MODULE MCArming -----------------------------
(***************************************************************************)
(* The flight loop, arming and manoeuvres, for TLC.  The manoeuvres and    *)
(* the overrides of the mixing (motor test, calibration, sticks) are run   *)
(* side by side, each against arming: a behaviour keeps to one of the two  *)
(* settings, since all of both together is beyond a run.                   *)
(***************************************************************************)
EXTENDS ArmingWatch

VARIABLE setting

mcvars == <<avars, setting>>

\* Stunts, patterns and tunes.
AmongManoeuvres ==
  /\ setting = "manoeuvres"
  /\ test = "off" /\ cal = "NONE" /\ ~control.stick
  /\ control.mode # "MOTOR_DETECT"
  /\ core0 = [task \in Core0Tasks |-> "idle"]
  /\ in.faults = {}

\* Motor test, motor detect, calibrations and sticks, at the surface with a leak
\* or none.  One task tests motors; the other runs its handlers in between.
AmongOverrides ==
  /\ setting = "overrides"
  /\ core0["lora"] = "idle"
  /\ control.mode \in {"MANUAL", "STABILIZE", "SURFACE", "MOTOR_DETECT"}
  /\ ~control.autotune

MCInit == AInit /\ setting \in {"manoeuvres", "overrides"}

MCNext ==
  /\ ANext
  /\ UNCHANGED setting
  /\ (AmongManoeuvres \/ AmongOverrides)'

MCSpec == MCInit /\ [][MCNext]_mcvars
=============================================================================
