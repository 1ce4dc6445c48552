--------------------------- MODULE FailsafeWatch ---------------------------
(***************************************************************************)
(* The flight loop beside an observer of its failsafes.  The observer is a *)
(* history variable: it counts snapshots and orders, never the loop's own  *)
(* timers and latches, and the properties compare the two.                 *)
(***************************************************************************)
EXTENDS ControlLoop

VARIABLE watch

wvars == <<vars, watch>>

WatchType ==
  [shallow : 0 .. SurfHold + 1,     \* consecutive armed, shallow snapshots
   low : 0 .. BatHold + 1,          \* consecutive armed, low-battery snapshots
   forced : BOOLEAN,                \* a failsafe fired; only SURFACE seen since
   takeover : {"no", "now", "due"}, \* SURFACE was forced and no fresh order
                                    \* came since: in this pass, earlier
   pilot : BOOLEAN]                 \* the last order to SURFACE was a pilot's

WInit ==
  /\ Init
  /\ watch = [shallow |-> 0, low |-> 0, forced |-> FALSE, takeover |-> "no",
              pilot |-> FALSE]

\* The loop takes a snapshot.
WRead ==
  watch' = [watch EXCEPT
    !.shallow = IF in'.armed /\ in'.depth = "shallow" THEN Tick(@, SurfHold) ELSE 0,
    !.low = IF in'.armed /\ "battery" \in in'.faults THEN Tick(@, BatHold) ELSE 0,
    !.forced = @ /\ in'.mode = "SURFACE",
    !.takeover = IF in'.armed /\ @ # "no" THEN "due" ELSE "no"]

\* A failsafe fires in this step.
Fires == acted' \cap Faults # acted \cap Faults

WSection ==
  watch' = IF pc = "failsafe" /\ Fires
             THEN [watch EXCEPT !.forced = TRUE, !.takeover = "now", !.pilot = FALSE]
             ELSE watch

\* An order that starts something new: a mode, a move, a tune, arming again.
FreshOrder == ModeCommand \/ Autotune \/ (ArmCommand /\ ~control.armed)

WCommand ==
  watch' = [watch EXCEPT
    !.takeover = IF FreshOrder THEN "no" ELSE @,
    !.pilot = IF ModeCommand THEN control'.mode = "SURFACE" ELSE @]

WLoop ==
  \/ ReadInputs /\ WRead
  \/ Loop /\ pc # "read" /\ WSection

WNext ==
  \/ WLoop
  \/ Command /\ WCommand
  \/ (SticksAge \/ TestLapses) /\ UNCHANGED watch

WSpec == WInit /\ [][WNext]_wvars

\* The loop is a periodic task of the highest priority on its core, so it never
\* stops; nothing obliges an operator to send a command.
WFairSpec == WSpec /\ WF_wvars(WLoop)

---------------------------------------------------------------------------
(* Properties *)

\* The failsafe disarm at the surface is earned: a failsafe chose SURFACE, no
\* other mode was seen since, and every one of the last FS_SURFACE_HOLD_MS of
\* snapshots was armed and shallow -- a wave over the sensor, a mode change or
\* an earlier surfacing cannot shorten the window.
SurfacedDisarmEarned ==
  "surfaced" \in acted => watch.forced /\ watch.shallow > SurfHold

\* The battery failsafe fires only after FS_BAT_HOLD_MS of consecutive low
\* samples under arms: no part of the window is bench time, and none is left
\* over from before a surfacing.
BatteryDebounced ==
  "battery" \in acted => watch.low > BatHold

\* Once a failsafe has forced SURFACE and no fresh order has come since, from
\* the next pass on nothing but the SURFACE controller drives an armed vehicle:
\* no tune, stunt, pattern, move or stick keeps the thrusters.
FailsafeOwnsThrusters ==
  pc = "publish" /\ out.armed /\ watch.takeover = "due" => out.driver = "SURFACE"

\* A pilot who selects SURFACE keeps the thrusters at the top: the loop's own
\* disarm never ends a surfacing whose last order was the pilot's.
PilotSurfaceKeepsThrusters ==
  "surfaced" \in acted => ~watch.pilot

\* A tuner gives way to a failsafe: while a failsafe holds the vehicle in
\* SURFACE, the autotune relay does not drive the thrusters.
TunerYieldsToFailsafe ==
  pc = "publish" /\ out.armed /\ watch.takeover = "due" /\ in.mode = "SURFACE"
    => out.driver # "autotune"
=============================================================================
