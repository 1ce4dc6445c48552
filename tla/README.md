# Verification of the SROT control board firmware

TLA+ specifications, TLC model-checking runs and TLAPS proofs for the control
core of the underwater vehicle's firmware: the 500 Hz flight loop, the MAVLink
command handlers that share its state, the acknowledgement of high-level moves to
the companion computer, the link to the thruster co-processor, and what surrounds
them: movement, status texts, link timers, mission upload, parameters and
calibration in flash, and the LoRa downlink.

## 1. Inventory of the system

The firmware runs on a dual-core ESP32 under FreeRTOS, with a Raspberry Pi Pico
as thruster co-processor and a second board that broadcasts the thruster-pack
voltage over ESP-NOW. Its tasks share one global `g_state` of six sub-structures,
each with its own mutex, taken through `StateLock` with a time-out; on the flight
core the time-out is 1 or 2 ms and **a missed lock is skipped, never retried**.

| Component | State | Operations | Talks to |
|---|---|---|---|
| Flight loop `task_control_loop.cpp` (core 1, 500 Hz) | `LoopIn` snapshot; edge latches `prev_*`; failsafe timers | one pass: read, calibrate, arm edges, refuse modes, detect, mode entry, tunes, safety, failsafe, drive, publish | everything below through `g_state`; status texts through a ring |
| Command handlers `mav_commands.cpp` (core 0) | link stamps, button edges | arm, mode, move, motor test, calibration, stunt, pattern, autotune, manual control, parameters | write `g_state.control`, `.cal`, `.thrusters` |
| Move acknowledgement `mav_stream.cpp: updateMove` (core 0, 100 Hz) | `s_seq`, `s_seen_active`, `s_resolved`, `s_track_ms` | sample `mv_*`, send `COMMAND_ACK` | reads what the loop publishes; answers the companion |
| Movement `movement.cpp` | type, phase, start and time-out stamps, axis, speed | `enter`, `start`, `abort`, `cancel`, `update` | called by the loop; STYLE uses the stunt machine |
| Stunt, pattern, autotune, motor tune | phase, progress, measurements | `start`, `abort`, `update` | called by the loop |
| Calibration `calibration.cpp` | active routine, per-motor phase | `update`, `finish`, `saveToNVS` | motor pulses through the test override; core 0 writes the flash |
| Arming checks, safety monitor | none / counters | `canArm`, `ok` | gate arming; abort manoeuvres |
| Telemetry, STATUSTEXT ring `mav_stream.cpp` | ring of 4 texts, stream rates | queue, drain, stream | core 1 queues, core 0 drains |
| Thruster output `task_dshot_rmt.cpp`, `thruster_link.cpp`, `pico/main.cpp` | cached command; link stamp, flags, output mode of the Pico | send every cycle, configure every second, receive, output, watchdog | reads what the loop publishes, drives the ESCs |
| Link timers | last heartbeat of the GCS and the companion | `gcsLinkOk`, `companionLost` | stamped on core 0, read on core 1 |
| Parameters, persistence | parameter table, NVS | init, migrate, set, deferred save | flash |
| Mission store `mission.cpp` | items, upload progress | upload, download, clear | stored only, never flown |
| LoRa bridge `mavlink_bridge.cpp` | byte ring of frames | tap, pop | filled by every sender of MAVLink, drained by the radio task |
| Sensors, radio, UI | driver state | sampling, LoRa, display | sensors feed the loop |

What is hard here: two cores interleave between any two locks of a pass; the loop
works on a snapshot that its own later sections overwrite; every lock may miss;
edges (`prev_armed`, `prev_mode`, `prev_mv_seq`) are consumed once; several state
machines keep a phase while something else drives; timers must observe a *full*
window; and the acknowledgement samples, at its own pace, flags that are not tied
to the sequence number it tracks. `PROJECT.json` lists each hazard at its line.

What makes each part correct, in short: the failsafes act only after their full
window, then own the thrusters, and always end disarmed; a disarm stops everything
for good; nothing old (stick, motor test, manoeuvre) drives after a new arm; the
displayed mode is what the vehicle does; each move has exactly one true terminal
result; a leg ends at rest; a silent link or a disarm stops the motors whatever is
lost or reset; what was reported stored is stored, after any restart, and what was not
is reported; no queued text or frame is lost, torn or reordered without being dropped
whole.

## 2. Modules

```
ControlLoop ──┬── FailsafeWatch
              ├── ArmingWatch
              ├── MoveProtocol ──(INSTANCE)── MoveContract
Movement ─────┴(INSTANCE, in MCMovement)
ThrusterLink
StatusQueue ──(INSTANCE)── StatusFifo
StatusQueue, MissionUpload, LinkTimers, Persistence, LoraRing ── MCComms
MCFailsafe, MCArming, MCMoves, MCMovement, MCComms: what TLC runs

Proofs                   about
ControlLoop_proofs       ControlLoop; the next three extend it
FailsafeWatch_proofs     FailsafeWatch
ArmingWatch_proofs       ArmingWatch
MoveProtocol_proofs      MoveProtocol, MoveContract
Movement_proofs          Movement, MCMovement
ThrusterLink_proofs      ThrusterLink
Rings_proofs             StatusQueue, StatusFifo, LoraRing, LinkTimers
Stores_proofs            MissionUpload, Persistence
```

**ControlLoop** is the flight loop and the handlers. One pass is eleven actions in
the order of the source, `pc` naming the next one:

| Action | `task_control_loop.cpp` | What it does |
|---|---|---|
| `ReadInputs` | 64–148 | snapshot; a missed lock keeps the previous one |
| `Calibrate` | 286, `calibration.cpp` | a routine runs, pulses a motor, or ends |
| `ArmStateEdges` | 290–340 | arm edge drops the motor test; disarm edge aborts all, drops the routine, sticks and ATUNE |
| `RefuseDepthModes` | 353–378 | without depth: STABILIZE |
| `MotorDetectDone` | 380–422 | routine over: MANUAL and disarmed; disarmed: refused |
| `EnterMode` | 424–501 | start, enter, cancel machines and routine; start a new move |
| `Tunes` | 503–551 | start and stop edges of the tuners |
| `SafetyMonitor` | 553–610 | abort everything and disarm |
| `Failsafe` | 616–748 | force SURFACE, or disarm once surfaced |
| `Drive` | 793–924 | motor test, motor tune, autotune, stunt, pattern or mode; publish the output |
| `PublishMove` | 930–950 | `mv_active`, and `mv_done_seq` on its falling edge |

`control`, `test`, `cal` are the shared structures; `in` is `LoopIn`; `st` the
loop's latches and timers; `mach` the manoeuvre machines; `act` the locals
`at_active`, `mt_active`; `out` what the output task was given; `acted` what the loop
decided by itself in this pass. Handlers (`Arm`, `JsArm`, `Disarm`, `SetMode`, …) run
between any two sections. Two tasks of core 0 call them, the MAVLink task for the UART
and the LoRa task for the radio, and each runs one at a time. `SROT_MOVE` and
`DO_MOTOR_TEST` take the lock twice and are two actions each, `core0` telling for each
task which is under way; the other task's handlers run in between. Two environment steps
let sticks age and a motor test lapse.

Abstractions, each deliberate: sticks are "deflected or not"; depth is none, deep or
shallow; the motor-test deadline is off, live or lapsed; sensors, the safety
verdict and the faults are free at every pass. Several locks of one section are one
step: the disarm edge takes `mtx_cal` and then `mtx_control`, `calibration::update`
takes `mtx_cal` and then the test override; both outcomes of each lock are kept, the
interleaving between the two is not. Pre-arm checks are modelled with
`ARMING_CHECK` on; `JsArm`, which has none, covers it off. `MTUNE_EN` is on. A
handler whose lock missed did nothing, so it needs no step.

**FailsafeWatch** and **ArmingWatch** put a history variable beside the loop. It
counts snapshots and orders, never the loop's own timers and latches, so a property
compares two independent records. **MoveProtocol** adds `updateMove` and the client;
`fate` is a history variable saying what the loop really did with each move.
**MoveContract** is what the companion is promised: an issued move is open until its
one terminal result, which is never revised, and CANCELLED names only a displaced
move. `Contract == INSTANCE MoveContract WITH outcome <- Outcome` reads the outcome off
the ACKs sent; `OneTerminalResult == Contract!Spec` is the refinement.

**Movement** is `movement.cpp` with its timers: `EnterAuto` is `enter`, `LeaveAuto`
is `cancel`, `Start…` the branches of `start`, `Abort` is `abort`, `Update` is `update`
in the order of the source (time-out, then the phase). Speeds are steps of the ramp,
one per pass; a brake lasts as many passes. `momentum`, a history variable, is what
the ramp gave the hull and nothing has taken back. Headings, depth ramps and the error
tests of TURN, DIVE and STYLE are free. `Interlude` is a time in which something else
drives. MCMovement checks that its phases are a case of `ControlLoop!MoveUpdate`, so
the flight loop's coarse view of a move and this one are the same.

**ThrusterLink** goes from the flight loop's publication to the ESCs: the DShot task
with its cache (`CachedArmed`: a missed lock keeps the command), the two frames of a
cycle, each lost or not, the receive queue, core 1 of the Pico (store, then stamp, in
two steps as in the code), core 0 in three (copy the command and read the clock;
judge the link by the stamp; output and feed the watchdog), and resets of the ESP32
and of the Pico by brown-out or watchdog. Stamps are ages, saturated where no
comparison can tell any more. `silent` is a history variable. The feeding of the watchdog
in the idle wait (`pico/main.cpp:190`) is left out: with it the bound of `DeadMan` is
longer by one output period, 0.5 ms, at most.

**StatusQueue** is the ring of STATUSTEXTs between the cores, one action per critical
section; **StatusFifo** is what it promises, a bounded first-in first-out queue that
refuses a text when it is full and at no other time.
**MissionUpload** is `mission::handle`, one action per branch, with a ground station
and a link that loses and a station that repeats. **LinkTimers** is the mark and the
stamp of the two link timers, written on core 0 in two steps and read on core 1 in
two, with a clock that wraps; `overtaken` is a history variable. It has one heartbeat in
hand at a time, where `feedGcs` (`mav_commands.cpp:101`) may be run by the LoRa task while
the MAVLink task is in `handle`: both write TRUE and a current stamp. **Persistence** is
the parameter table, its migrations, the calibration record and the two deferred
saves, with a reset between any two writes and writes that fail. Four rows stand for the
table: one for each kind of migration, and one that none touches. A value is its origin
(older firmware, default, operator, tuner; below a migration's threshold or not).
**LoraRing** is the byte ring with its length prefixes: a payload byte is the number of
its frame, by which a torn frame shows.

## 3. Runs

Passing runs:

| Run | Checks | Shows |
|---|---|---|
| Failsafe | `TypeOK`, `SurfacedDisarmEarned`, `BatteryDebounced` | neither window can be shortened or inherited, with every lock free to miss |
| Takeover | `FailsafeOwnsThrusters`, `AbandonedEndsDisarmed` | a failsafe ends every manoeuvre's hold on the thrusters, and an abandoned vehicle at the surface ends disarmed (liveness) |
| Arming | `InterruptedNeverDrives`, `SelfDisarmSticks`, `ArmingDropsOldTest`, `DisarmDropsSticks` | nothing interrupted resumes; the loop's own disarms hold; a new arm inherits neither a motor test nor a stick |
| MoveContract | `OneTerminalResult` | refinement: pipelined moves, aborts, missed snapshots, every lock of the loop free to miss |
| MoveAnswered | `MTypeOK`, `AcceptedMeansEnded`, `EveryMoveAnswered` | a client that waits gets an answer to each move (liveness), and ACCEPTED is true |
| ThrusterLink | `TypeOK`, `DeadMan`, `DisarmStops`, `ModeFollows` | both failsafes of the Pico add up to a bound; a disarm reaches the motors (liveness); the output mode returns after a Pico reset (liveness) |
| Movement | `TypeOK`, `EveryMoveEnds`, `StopsAtRest`, `LoopPhases` | every move ends (liveness), at rest, stopped and timed-out ones too; the phases implement `ControlLoop`'s |
| Comms | `QTypeOK`, `NoTextLost`, `RingIsFifo`, `WaitingIsSent` | the text ring is a bounded queue that refuses nothing while it has room (refinement), and drains (liveness) |
| | `UTypeOK`, `StoredWhole`, `AckedIsStored`, `UploadEnds` | a mission is stored whole or not at all, ACCEPTED can be relied on, and an upload over a link that becomes good ends (liveness) |
| | `LossReported`, `LossIsReal` | silence is reported, and a mistaken report needs a heartbeat in the middle of the check |
| | `PTypeOK`, `LegacyGone`, `OperatorKeepsValue`, `SaveNeverSilent`, `CalibrationSaved` | migrations run once and to the end under resets; a requested save is done or reported |
| | `FramesWhole` | LoRa frames arrive whole, once and in order |

Comms is a sum of five components that share no state: `part` chooses one per
behaviour, so that the run has the states of all of them and not their product. In the
same way Arming is two settings, `setting` choosing one per behaviour: arming with stunts,
patterns and tunes, and arming with what overrides the mixing (motor tests, MOTOR_DETECT and
calibrations, sticks) and a leak. Each setting is a restriction of what the operators and
the vehicle do, none of what the loop does.

Runs in which TLC refutes a statement of the source or of the documents (quoted in
`PROJECT.json`, "findings"):

| Run | Refutes | How |
|---|---|---|
| TunerFailsafe | `TunerYieldsToFailsafe` | ATUNE stays latched when a failsafe forces SURFACE: the relay tune keeps driving |
| PilotSurface | `PilotSurfaceKeepsThrusters` | SURFACE selected during a failsafe surfacing still ends in a disarm |
| MoveStranded | `EveryMoveAnswered` | `abort` parks PH_BRAKE outside AUTO; the next refused move is IN_PROGRESS for ever |
| MissedArmEdge | `ArmingDropsOldTest` | the arm edge is consumed though its lock was missed (302): the motor test of before the disarm drives |

Every property of a passing run has a mutant in `PROJECT.json` that breaks it. Most
of them restore a fault the source's comments record as once real (the stunt without
`abort`, the bench-time battery timer, the mode change that stranded a move, the
terminal ACK sent for ever).

### Further disagreements

The models show these too, by changing a constant or a property of a run above; no run
is kept for them. In the control core:

* When the operator had already selected SURFACE the failsafe branch is never reached
  (`task_control_loop.cpp:629`), so a vehicle whose link is lost then stays armed at the
  surface for ever: the fault that the comment at 716 describes as removed, "a permanent
  link loss left the vehicle armed and station-keeping at 0 m indefinitely" (Takeover
  with SURFACE in `GcsModes` violates `AbandonedEndsDisarmed`).
* A move that a mode change or a failsafe took away is reported ACCEPTED with progress
  100 (`mav_stream.cpp:625`); `JETSON_COMMS.md:176` says "Completed normally".
  `AcceptedMeansEnded` is the weaker statement that holds.
* A tune started by the ATUNE trigger goes on in whatever mode the pilot selects
  next: the mode is written on the start edge only (`task_control_loop.cpp:511`,
  against the comments at 518 and 530).
* The loop's own disarms are single timed writes. When the one that ends MOTOR_DETECT misses
  its lock (400) the next pass reads armed and MOTOR_DETECT from the shared state, while
  `prev_mode` is MANUAL, and enters the routine again, although nobody armed it: 397 calls the
  disarm "the part that matters" (Arming with `LockMiss = TRUE` violates `SelfDisarmSticks`).
  A finished tune tries again in the next pass, the surfaced failsafe after another hold
  time. The safety monitor does not: when its disarm misses in AUTOTUNE or MOTOR_TUNE it has
  aborted the tune and cleared its edge (`task_control_loop.cpp:588, 607`), so that the next
  pass, armed, starts a fresh one.
* A missed control lock in `snapshot()` reads as "not active", and a running move is
  acknowledged ACCEPTED (`mav_stream.cpp:623`; MoveAnswered with `SnapMiss = TRUE`).
* A leg that ends in its first update, such as a turn already at its heading, is active in one
  publication. If that one misses its 1 ms lock (945) there is no falling edge to latch
  `mv_done_seq` on, and `updateMove`, which sees AUTO and never `mv_active`, neither accepts
  nor fails the move, against `JETSON_COMMS.md:160`, "Every command reaches exactly one
  terminal result". The comment at 948 keeps the tracker on a miss so that no completion is
  dropped; a missed rising edge drops one all the same (MoveAnswered with `LockMiss = TRUE`
  violates `EveryMoveAnswered` even under strong fairness of the sections that get their lock).
* `mv_active` of a parked PH_BRAKE is taken for the new move's (604), which is then
  acknowledged before it starts.
* A move reported FAILED starts when the operator selects AUTO later, because its
  sequence number is still new to the loop (`task_control_loop.cpp:497`).
* Of two moves handled in one drain of the receive buffer the first is never tracked
  and gets no terminal result (`mav_stream.cpp:569`).

In the parts around it:

* **Movement.** A second STOP while the first is braking cuts the brake: PH_BRAKE sets
  `s_cur_speed` to 0 in its first pass (`movement.cpp:194`) and the new STOP brakes from
  that (Movement with `StopAgain = TRUE` violates `StopsAtRest`; the comment at 115 says
  that such a coast "is unrecoverable state"). CRUISE brakes from the commanded speed at
  its end (187) and from the reached one on a time-out (177), so a leg shorter than its
  ramp is braked for longer than it was driven. `progress()` falls back from 1.0 to 0.5
  in PH_DONE (251, 261). A heading lock left pending by a leg that is aborted before its
  first update is emitted by the next update. Every phase but PH_BRAKE is subject to the
  time-out (176), PH_DONE among them: with a time-out shorter than one pass, PH_DONE is late in
  every pass, brakes for 0 ms, is reached again, and the move never ends; `JETSON_COMMS.md:96`
  names no smallest `timeout_s` (Movement with `Timeouts = {0}` violates `EveryMoveEnds`).
* **Thruster link.** Core 1 stores a command under the mutex and stamps it afterwards
  (`pico/main.cpp:483`): one output cycle can pair an old command with a new stamp, or an
  old stamp with a new one. `now - s_last_cmd_ms` is unsigned and a stamp newer than
  `now` reads as an age of 49 days: the link is lost for one cycle, in which an armed
  vehicle's motors stop and the mode switch of 215 ("never mid-flight", 214) is allowed. After a
  reset of the Pico under arms with `DSHOT_BIDIR` 0 the outputs stay bidirectional until
  a disarm. A stalled flight loop does not stop the motors: the DShot task re-sends its
  last command for ever, by design (38).
* **Link timers.** The mark of a companion is set before its stamp (`mav_commands.cpp:754`), so
  that a check between the two reads its very first heartbeat as a loss, against the comments at
  67, "can only ever fail after the companion has been heard at least once", and 80, "has been
  seen and has now gone quiet". A stamp may also be newer than the clock read before it. Either
  makes `companionLost()` true for one pass, which is enough to surface (`LossIsReal` without
  its exception for `overtaken` is violated).
* **Mission.** A MISSION_COUNT drops the stored mission at once (68). When the closing ACK
  is lost, repeating the last item gets no answer, since the upload is over (76); only a
  new COUNT does. A new upload begun while messages of the old one are under way is
  outside the model, which starts one on a quiet link, and so are two stations that upload
  at once by UART and LoRa: `handle` takes no lock and runs in two tasks.
* **Flash.** A boot, and the reset to defaults, drop the result of their writes
  (`params.cpp:463, 597`): a failed one leaves the legacy value under a marker that says it
  was migrated (Comms with `UncheckedFail = TRUE` violates `LegacyGone`). `saveToNVS`
  returns silently when it misses `mtx_cal` for 10 ms (`calibration.cpp:36`), and
  "Calibration saved + verified on flash" is announced (`mav_commands.cpp:814`; `CalLockMiss
  = TRUE` violates `CalibrationSaved`). A reset in the middle of a save leaves keys of
  two calibrations, loaded without a word at the next boot; one between SUCCESS and the
  save loses it. The directions of an inconclusive MOTOR_DETECT are in RAM, so that any
  later save stores them, against `calibration.cpp:421`, "an inconclusive run cannot
  reach flash". The live gains of an autotune cut short are neither saved nor reported.
  Two tasks of core 0 use `s_prefs` without a lock.
* **LoRa.** `tx` offers a frame to the ring before it knows whether the UART has room
  (`mavlink_bridge.cpp:79`), so a retried PARAM_VALUE goes over the air again each time.

### Bounds

* `BatHold`, `SurfHold`, `LateHold` stand for 3 s, 5 s and 500 ms in passes of the
  loop; 0 or 1 is enough because each timer is compared with its bound only, and 1 is
  the smallest window that can be interrupted in its middle. `LateHold` is 1: with 0 a
  move could be declared late within one pass, which 500 ms never are. The proofs have them
  arbitrary.
* `MaxMoves` is 2 where moves are the subject: a move and the one that displaces it.
  `updateMove` tracks one sequence number, so a third move repeats the second.
* `GcsModes`, `Orders`, `EnvFaults`, `Depths` name what the environment may do in a
  run. Each run takes those its property is about. Where a choice is more than a
  matter of size it is this: Takeover leaves out the ATUNE trigger (TunerFailsafe is
  the run about it) and motor tests (which are meant to override the mixer), and
  SURFACE selected by the operator (PilotSurface and the list above); MoveAnswered
  leaves out disarms, safety aborts and AUTO selected by the operator (MoveStranded
  and the list above are about those).
* `LockMiss`, `SnapMiss` are on where the property is to survive a missed lock:
  Failsafe and MoveContract. Arming and MoveAnswered are made without them, since a single
  missed lock refutes the last three properties of Arming (`ArmingDropsOldTest` in
  MissedArmEdge, `SelfDisarmSticks` in the list above, `DisarmDropsSticks` by a disarm edge
  that clears the sticks in the snapshot only) and the liveness of MoveAnswered (same list). Takeover leaves them off because a
  missed write of a mode or a disarm puts off what it is about to a later pass, and for
  ever if every lock misses.
* Arming: in the setting of the manoeuvres depth is always known, since a mode refused for
  want of it is, with every lock granted, one more change of mode; in the other one task
  tests motors while the handlers of the other run in between. A second test only sets the
  same override again.
* ThrusterLink: `LinkTimeout` 2 and `Watchdog` 1 are the smallest that differ and that a
  stamp can pass through; `Fifo` 2 holds a command and a configuration in either order;
  two upsets are a reset and a change of `DSHOT_BIDIR`, or a reset of each side. In the
  proof all are arbitrary.
* MissedArmEdge is Arming with `LockMiss` and fewer orders.
* Movement: three steps of speed, so that a leg can be stopped in the middle of its ramp;
  durations and time-outs on either side of each other; `Beyond` 7, one more than the
  longest; one order more than a leg, its
  replacement and its STOP need.
* Comms: `QCAP` 3 and six texts let the head wrap twice; three missions of up to three
  items, one more than fits, with four faults; a clock of seven ticks wraps in the middle of
  every time-out; three orders, resets, tunes or new firmwares for the flash; a ring of
  eight bytes with frames of one to three bytes (and a length in base 2) wraps in every
  position of a frame.
* Deadlock is checked in every run but Comms, whose behaviours end when the bounds on
  their inputs are used up.

### Fairness

Weak fairness of the loop's sections (`WF(WLoop)`, `WF(MLoop)`): the loop is periodic
and runs at a high priority on its core, so a pass always goes on.
`WF(UpdateMove)`, and `WF(MCommand /\ Finish(task))` for each of the two tasks of core 0:
Task_MAVLink is periodic and a handler, once begun, runs to its end. `SF` on the
advance of the movement phases out of a leg, out of the brake and out of PH_DONE:
every leg has a time-out (60 s by default) and every brake a duration, and they pass
however often the move is replaced; the assumption this hides is a time-out longer
than one pass (`movement.cpp:176`, and the list above for the others). Nothing
obliges an operator to send anything: liveness is stated for behaviours whose commands stop.

`Movement` assumes `WF(Update)`: in AUTO the loop calls it in every pass, and an
interlude ends. `ThrusterLink`: time passes, both cores of the Pico run, an output cycle
that hangs is ended by the watchdog; `SF` for a cycle of the DShot task that gets its
lock, and for a configuration that gets through, since the task is periodic and
neither is refused for ever. Commands owe nothing: `DisarmStops` holds with every frame lost.
`StatusQueue`: `WF` of the drain, in a periodic task whose UART writes time out.
`MissionUpload`: messages under way are handled and a station without an answer starts
over; faults are bounded, that is, the link becomes good.

## 4. Proofs

Every invariant and every action property of a passing run but `SelfDisarmSticks`, and every
refinement, is a theorem, for all values of the constants that the named assumptions allow:
`ConstantsAssumption`, `ProtocolAssumption`, `LinkAssumption`, `MovementAssumption`,
`QueueAssumption`, `RingAssumption`, `TimersAssumption`, `UploadAssumption` and
`PersistenceAssumption`. TLC evaluates them in the runs. Where a theorem needs more, it
is a hypothesis of the theorem; the table below lists them.

Each proof has the same shape. The property is not inductive; a stronger invariant is,
made of named parts that each say one thing.
One lemma says that it holds initially and one that every step keeps it, with a step for
each action and below it one for each part the action can disturb.

| Theorem | States | Inductive invariant | Hypothesis |
|---|---|---|---|
| `TypeCorrect` | `TypeOK` of ControlLoop | `IInv` | |
| `SurfacedDisarmIsEarned`, `BatteryIsDebounced` | `SurfacedDisarmEarned`, `BatteryDebounced` | `HoldInv` | |
| `FailsafeTakesOver` | `FailsafeOwnsThrusters` | `OwnInv` | `NothingOverrides` |
| `InterruptedStaysStopped` | `InterruptedNeverDrives` | `StopInv` | |
| `OldTestsAreDropped`, `OldSticksAreDropped` | `ArmingDropsOldTest`, `DisarmDropsSticks` | `ArmInv` | `LocksGranted` |
| `AckTypeCorrect`, `ImplementsContract` | `MTypeOK`, `OneTerminalResult` (refinement) | `AckInv` | |
| `AcceptedIsTrue` | `AcceptedMeansEnded` | `TrueInv` | `Undisturbed`, no `AbortsOnDisarm` |
| `MovementTypeCorrect`, `ImplementsLoopPhases` | `TypeOK` of Movement, `LoopPhases` (refinement) | `TypeOK`, `PhaseInv` | |
| `LegsEndAtRest` | `StopsAtRest` | `RestInv` | `StopAgain = FALSE` |
| `LinkTypeCorrect`, `DeadManHolds` | `TypeOK` of ThrusterLink, `DeadMan` | `LinkInv` | |
| `QueueTypeCorrect`, `QueueLosesNone`, `RingImplementsFifo` | `QTypeOK`, `NoTextLost`, `RingIsFifo` (refinement) | `QueueInv` | |
| `FramesStayWhole` | `FramesWhole` | `LoraInv` | |
| `SilenceIsReported`, `LossIsNotImagined` | `LossReported`, `LossIsReal` | `TimerInv` | |
| `UploadTypeCorrect`, `NoMixture`, `AcceptedIsThere` | `UTypeOK`, `StoredWhole`, `AckedIsStored` | `UInv` | |
| `FlashTypeCorrect`, `SavesAreNotSilent` | `PTypeOK`, `SaveNeverSilent` | `StoreInv`, `SaveInv` | |
| `CalibrationIsSaved` | `CalibrationSaved` | `StoreInv`, `CalInv` | `CalLockMiss = FALSE` |
| `MigrationsComplete`, `OperatorIsObeyed` | `LegacyGone`, `OperatorKeepsValue` | `StoreInv`, `BootInv`, `OwnInv` | `UncheckedFail = FALSE` |

### The hypotheses

None is there for the prover's sake: without it the property is false, and a run of
the second table or "Further disagreements" shows it.

* `LocksGranted` (`LockMiss = FALSE`): the cleared motor test and the cleared sticks are one
  timed write each (MissedArmEdge). Typing, the hold times, `InterruptedNeverDrives` and the
  refinement of `MoveContract` do without it.
* `NothingOverrides`: locks granted, no ATUNE trigger, no motor test, and no MOTOR_DETECT,
  which pulses motors through the same override. TunerFailsafe is the counterexample for
  the trigger; a motor test overrides by design.
* `Undisturbed`: locks granted, snapshots not missed, a client that waits for its answer,
  no abort by the safety monitor, AUTO entered by SROT_MOVE only, and a late start declared
  after one full pass at the earliest. `AbortsOnDisarm`, a disarm edge in the loop, is excluded by
  the theorem's `[]~AbortsOnDisarm`, since the loop's own disarms (end of MOTOR_DETECT,
  failsafe at the surface) park PH_BRAKE too. Failsafes, refused modes, and every mode but
  AUTO selected by the operator are included.
* `StopAgain = FALSE`: a second STOP in the brake of the first cuts that brake.
* `CalLockMiss = FALSE`: `saveToNVS` drops a missed lock silently.
* `UncheckedFail = FALSE`: the boot and the reset to defaults do not look at the result of
  their writes. Writes of the saves may fail in all theorems.

### The arguments

**Flight loop.** `TypeOK` alone is not inductive: `MoveIssue` increments `mv_seq` after
`MoveCheck` released the lock, so `IInv` adds `MoveRoom`: a move under way has room below
`MaxMoves`.

**Hold times.** `HoldInv` relates the loop's timers to the observer's counts: *Covered*
says that a running timer never exceeds the observer's count (up to one during the
sections of a pass in which the observer has counted and the timer not yet) and
that a latched surfacing was forced by a failsafe; *Counted* says that the decision,
once in `acted`, rests on a full count until the pass ends. The subtle cases are the
sections between snapshot and failsafe that disarm or change the mode (safety
monitor, end of MOTOR_DETECT, refused modes): they can only reset the timers.

**Takeover.** `OwnInv`: the mode that a failsafe wrote stays until a fresh order
(*ModeHolds*, with the exception of a motor tune that ends in the same pass, which writes
another mode and disarms); the passes from then on have read it and their tunes are over
(*PassHolds*); and the overrides that nobody sets stay as they were (*Unused*).

**Arming.** `StopInv`: an interrupted machine does not run (*Stopped*; the stunt machine
may, for the STYLE leg of AUTO, but then the mode entered is not STUNT), and
between the mode entry and the drive section the pass still flies the mode it entered, or
one put there by a tune or a failsafe (*Entered*). `ArmInv` says where in a pass the edge
stands that is to clear an old override or an old stick: an override older than the last
disarmed pass has the arm edge ahead of it, a stick older than the disarm the disarm edge.

**Acknowledgement.** `AckInv`: each move has at most one terminal ACK and none beyond the
one tracked (*AnsweredOnce*); resolved means answered (*Tracked*). With that every step of
`updateMove` is a step of `MoveContract`, whatever the flags it samples say, and every
other step leaves the outcomes alone. That ACCEPTED is true takes much more, because
`mv_active` and `mv_done_seq` are not tied to the move tracked: *Runs* ties the machine to
the sequence number last started, *Published* the flags to that number, *Newest* and *Waits*
say that the client's patience leaves no older move in between, and *Watched* what the
tracker may conclude: a move that did not start in the pass after it was tracked does not
start any more, so that "late" is final.

**Movement.** `RestInv`: only a leg or its brake has speed (*Moving*), the ramp knows the
speed it has reached (*Ramping*), and a brake has a pass left for every step of speed, a
STOP one more (*PassesLeft*). `PhaseInv` adds to the types that PH_IDLE is never running,
so that no time-out can turn it into a brake; with it every update is one that
`ControlLoop!MoveUpdate` allows, and the coarse phases of the flight loop's module are the
ones the code goes through.

**Thruster link.** The bound of `DeadMan` is the end of a chain: `StampHonest` (a stamp is
never younger than the command it was taken for), `LagInHang` (a cycle in progress is no
older than the last feeding of the watchdog), `DecidedFresh` (a cycle that decided to drive
relied on a command of less than the time-out when it began), `DriveBounded` (what a cycle
sent stays in force for as long as the next one is late).

**Rings.** Counting on from a place wraps at most once: `SlotWraps` and `SlotsDiffer` for
the texts, the same for the bytes, `ClockWraps` for the clock. `WaitingAppended` and
`WaitingTaken` say what a put and a take do to the sequence that the text ring stands for,
and the rest of that proof no longer mentions slots. In the byte ring, *Laid* says where
each unread frame lies: an offset for every frame, length bytes and payload at it, no two
overlapping, the last one ending at the head. `TimerInv` relates the age that the code computes to the silence
that the observer counts: a stamp is at most the lag younger than its heartbeat
(*StampInv*), and unless a heartbeat overtakes the check, the age it will compute is no
more than the silence (*CheckInv*).

**Stores.** `UInv` of the mission: an order goes out on a quiet link and so leads all items
(*OrdersLead*), nothing under way is of an earlier mission (*UpIsCurrent*), and an upload
of an earlier mission that goes on has been told nothing of this one (*Heard*), so that
its items cannot be completed by the new ones. `StoreInv` gives the jobs that write the
flash their shape; `SaveInv` and `CalInv` account for every row and key: stored, or still in
the work of the save that took the request, or reported. `BootInv` says that the plan of
writes of a boot puts rows before the markers that vouch for them, so that a boot cut off
anywhere is finished by the next; *Steady*, a flash in which no boot finds anything to do, is
what protects the operator's values.

### What is only model-checked

Liveness: `AbandonedEndsDisarmed`, `EveryMoveAnswered`, `DisarmStops`, `ModeFollows`,
`EveryMoveEnds`, `WaitingIsSent`, `UploadEnds`. It needs fairness and `ENABLED`, which are
outside the prover's reach. `SelfDisarmSticks`: with a missed lock it is false,
and without one it follows from the assignments of each disarm, so that a theorem about it
would say little more than its hypothesis; the run keeps watch over the four places.

## 5. Not modelled

Attitude, depth, mixing and feedforward arithmetic (floating point), the RPM loop of the
Pico and the steps inside the tuners (arithmetic on measurements); the in-flight IMU
warning (it only reports); sensors and drivers; telemetry, display, LEDs, buzzer and SD
log (output only); the second board (a one-way broadcast whose freshness is part of the free
battery fault); boot order. In the modelled parts: the beacon chirp, the CAL_* rows, the
erasure of an unusable flash partition, the radio of the LoRa link and the flag that
switches its tap on, mission types other than missions.

The repository holds some 228 000 lines of C, of which about 10 000 are firmware; the
rest is the generated MAVLink dialects and the MS5837 driver under `lib/`, which the
firmware uses through a few dozen packing and parsing functions and which keep none of
its state. They are taken as they are.

## 6. Plan

1. Calibration: the hand-over of `routine` between two locks (merged into one step here), and
   the composition of the detected motor signs.
2. The baro health gate and the freshness of the second board's voltage, both unsigned ages
   like those of `LinkTimers`.
3. The composition of `ThrusterLink` with `ControlLoop`, which publishes `want`.
4. Proofs of the modules above as they come, and weaker hypotheses for those there are:
   `AcceptedMeansEnded` up to the first abort, disarm or AUTO of the operator instead of in
   behaviours without one, `FailsafeOwnsThrusters` with motor tests that have lapsed.
