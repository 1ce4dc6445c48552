---------------------------- MODULE ThrusterLink ----------------------------
(***************************************************************************)
(* Thruster output: the task Task_DShot_RMT of the ESP32, the serial link, *)
(* and the two cores of the Pico that drives the ESCs.                     *)
(*                                                                         *)
(* Time is counted in ticks.  A stamp of the code is an age here: the ticks*)
(* since it was taken, saturated where the code cannot tell any more.      *)
(* Thrust values are left out: a command says armed or not.  So are the    *)
(* beacon chirp, which replaces the stop of a disarmed output, and the     *)
(* telemetry, which the motors do not depend on.                           *)
(***************************************************************************)
EXTENDS Naturals, Sequences

CONSTANTS
  LinkTimeout,   \* LINK_TIMEOUT_MS of the Pico, in ticks
  Watchdog,      \* the Pico's hardware watchdog, in ticks
  Fifo,          \* frames the wire and the Pico's receive FIFO hold
  Upsets         \* bound on resets and parameter changes

ASSUME LinkAssumption ==
  /\ LinkTimeout \in Nat \ {0} /\ Watchdog \in Nat \ {0}
  /\ Fifo \in Nat \ {0} /\ Upsets \in Nat

VARIABLES
  want,      \* thrusters.armed, as the flight loop last published it
  bidir,     \* the parameter DSHOT_BIDIR
  cached,    \* `armed' of the DShot task: what it read under the last lock it got
  rx,        \* command and configuration frames on their way to core 1
  pico,      \* what the two cores of the Pico share
  core1,     \* "idle", or "stamp": a command is stored and not yet stamped
  core0,     \* the output cycle: its next step and its locals
  motors,    \* what the last output cycle sent to the ESCs
  upsets,    \* upsets that may still happen
  silent     \* observer: ticks since a command frame was last accepted

EspVars == <<want, bidir, cached>>
PicoVars == <<pico, core1, core0, motors, silent>>
vars == <<EspVars, rx, PicoVars, upsets>>

LongAgo == LinkTimeout + 2 * Watchdog
Expired == LinkTimeout + Watchdog          \* an age no cycle takes for fresh

Frame == [kind : {"cmd"}, armed : BOOLEAN] \cup [kind : {"cfg"}, bidir : BOOLEAN]

Older(age, limit) == IF age < limit THEN age + 1 ELSE age

\* Both cores start disarmed, with no stamp and in the bidirectional mode.
PicoBoot == [armed |-> FALSE, age |-> Expired, desired |-> TRUE, bidir |-> TRUE, hung |-> 0]
CycleStart == [pc |-> "sample", armed |-> FALSE, lag |-> 0]

Init ==
  /\ want = FALSE /\ bidir \in BOOLEAN /\ cached = FALSE /\ rx = <<>>
  /\ pico = PicoBoot /\ core1 = "idle" /\ core0 = CycleStart /\ motors = "stop"
  /\ upsets = Upsets /\ silent = LongAgo
-----------------------------------------------------------------------------
(* The ESP32. *)

\* The flight loop arms or disarms, and publishes it together with the throttle.
PublishArmed == want' = ~want /\ UNCHANGED <<bidir, cached, rx, PicoVars, upsets>>

\* An operator changes DSHOT_BIDIR.
SetBidir ==
  /\ upsets > 0 /\ upsets' = upsets - 1 /\ bidir' = ~bidir
  /\ UNCHANGED <<want, cached, rx, PicoVars>>

\* Mutant: an armed command, once read, is never given up.
CachedLatched(hit) == (hit /\ want) \/ cached

\* A missed lock keeps the cached command: the task never sends nothing.
CachedArmed(hit) == IF hit THEN want ELSE cached

CmdFrame(hit) == [kind |-> "cmd", armed |-> CachedArmed(hit)]
CfgFrame == [kind |-> "cfg", bidir |-> bidir]

\* Of the two frames of a cycle, those that arrive.
Arriving(hit, arrives) ==
  (IF "cmd" \in arrives THEN <<CmdFrame(hit)>> ELSE <<>>)
  \o (IF "cfg" \in arrives THEN <<CfgFrame>> ELSE <<>>)

\* Mutant: the frames are queued whether or not they fit.
DshotCycleBlind(hit, arrives) ==
  /\ rx' = rx \o Arriving(hit, arrives)
  /\ cached' = CachedArmed(hit)
  /\ UNCHANGED <<want, bidir, PicoVars, upsets>>

\* A command goes out in every cycle and a configuration about once a second.  A
\* frame is dropped when the buffer is full, and one damaged on the wire fails its CRC.
DshotCycle(hit, arrives) ==
  /\ Len(rx) + Len(Arriving(hit, arrives)) <= Fifo
  /\ rx' = rx \o Arriving(hit, arrives)
  /\ cached' = CachedArmed(hit)
  /\ UNCHANGED <<want, bidir, PicoVars, upsets>>

\* A reset of the ESP32: it starts disarmed, and is silent until its tasks run again.
EspReset ==
  /\ upsets > 0 /\ upsets' = upsets - 1
  /\ want' = FALSE /\ cached' = FALSE
  /\ UNCHANGED <<bidir, rx, PicoVars>>
-----------------------------------------------------------------------------
(* Core 1 of the Pico: the link. *)

\* A command is stored under the mutex.
ReceiveCommand ==
  /\ core1 = "idle" /\ rx # <<>> /\ Head(rx).kind = "cmd"
  /\ rx' = Tail(rx) /\ pico' = [pico EXCEPT !.armed = Head(rx).armed]
  /\ core1' = "stamp" /\ silent' = 0
  /\ UNCHANGED <<EspVars, core0, motors, upsets>>

\* s_last_cmd_ms is written after the mutex is released.
StampCommand ==
  /\ core1 = "stamp" /\ core1' = "idle" /\ pico' = [pico EXCEPT !.age = 0]
  /\ UNCHANGED <<EspVars, rx, core0, motors, upsets, silent>>

\* Mutant: every frame counts as a sign of life.
ReceiveConfigStamps ==
  /\ core1 = "idle" /\ rx # <<>> /\ Head(rx).kind = "cfg"
  /\ rx' = Tail(rx) /\ pico' = [pico EXCEPT !.desired = Head(rx).bidir, !.age = 0]
  /\ UNCHANGED <<EspVars, core1, core0, motors, upsets, silent>>

\* A configuration asks for an output mode, which core 0 applies; it is no sign of life.
ReceiveConfig ==
  /\ core1 = "idle" /\ rx # <<>> /\ Head(rx).kind = "cfg"
  /\ rx' = Tail(rx) /\ pico' = [pico EXCEPT !.desired = Head(rx).bidir]
  /\ UNCHANGED <<EspVars, core1, core0, motors, upsets, silent>>
-----------------------------------------------------------------------------
(* Core 0 of the Pico: the output cycle. *)

\* The command is copied under the mutex, and the clock read.
Sample ==
  /\ core0.pc = "sample" /\ core0' = [pc |-> "decide", armed |-> pico.armed, lag |-> 0]
  /\ UNCHANGED <<EspVars, rx, pico, core1, motors, upsets, silent>>

\* now - s_last_cmd_ms is unsigned: a stamp younger than `now' makes it huge.
LinkFresh == pico.age >= core0.lag /\ pico.age - core0.lag < LinkTimeout

Armed == core0.armed /\ LinkFresh

\* Mutant: the output mode is switched only for a disarmed command that is fresh.
OutputModeIfFresh == IF core0.armed \/ ~LinkFresh THEN pico.bidir ELSE pico.desired

\* The output mode is switched only while disarmed.
OutputMode == IF Armed THEN pico.bidir ELSE pico.desired

\* The link is judged by the stamp, which core 1 writes without the mutex.
Decide ==
  /\ core0.pc = "decide" /\ core0' = [pc |-> "output", armed |-> Armed, lag |-> 0]
  /\ pico' = [pico EXCEPT !.bidir = OutputMode]
  /\ UNCHANGED <<EspVars, rx, core1, motors, upsets, silent>>

\* The frames go out and the watchdog is fed.
Output ==
  /\ core0.pc = "output" /\ core0' = CycleStart
  /\ motors' = IF core0.armed THEN "drive" ELSE "stop"
  /\ pico' = [pico EXCEPT !.hung = 0]
  /\ UNCHANGED <<EspVars, rx, core1, upsets, silent>>

PicoRestart ==
  /\ pico' = PicoBoot /\ core1' = "idle" /\ core0' = CycleStart /\ motors' = "stop"
  /\ rx' = <<>> /\ silent' = LongAgo
  /\ UNCHANGED EspVars

\* A brown-out resets the Pico at any time, the watchdog when its output cycle hangs.
PowerReset == upsets > 0 /\ upsets' = upsets - 1 /\ PicoRestart
WatchdogReset == pico.hung = Watchdog /\ PowerReset
-----------------------------------------------------------------------------
\* The stamp follows the store at once; an output cycle may be late.
Tick ==
  /\ pico.hung < Watchdog /\ core1 = "idle"
  /\ pico' = [pico EXCEPT !.age = Older(pico.age, Expired), !.hung = pico.hung + 1]
  /\ core0' = IF core0.pc = "decide" THEN [core0 EXCEPT !.lag = core0.lag + 1] ELSE core0
  /\ silent' = Older(silent, LongAgo)
  /\ UNCHANGED <<EspVars, rx, core1, motors, upsets>>

Cycle(hit) == \E arrives \in SUBSET {"cmd", "cfg"} : DshotCycle(hit, arrives)

Next ==
  \/ PublishArmed \/ SetBidir \/ (\E hit \in BOOLEAN : Cycle(hit)) \/ EspReset
  \/ ReceiveCommand \/ StampCommand \/ ReceiveConfig
  \/ Sample \/ Decide \/ Output \/ PowerReset \/ WatchdogReset \/ Tick

Spec == Init /\ [][Next]_vars

(***************************************************************************)
(* Time passes, and an output cycle ends, by itself or by the watchdog.    *)
(* The DShot task is periodic: however often the lock is missed, a cycle   *)
(* now and then gets it, and then its configuration gets through.  Command *)
(* frames owe nothing: the link may lose every one of them.                *)
(***************************************************************************)
Fairness ==
  /\ WF_vars(Tick) /\ WF_vars(Sample) /\ WF_vars(Decide) /\ WF_vars(Output \/ WatchdogReset)
  /\ WF_vars(ReceiveCommand \/ StampCommand \/ ReceiveConfig)
  /\ SF_vars(Cycle(TRUE)) /\ SF_vars(\E hit \in BOOLEAN : DshotCycle(hit, {"cfg"}))

FairSpec == Spec /\ Fairness
-----------------------------------------------------------------------------
TypeOK ==
  /\ want \in BOOLEAN /\ bidir \in BOOLEAN /\ cached \in BOOLEAN
  /\ rx \in Seq(Frame) /\ Len(rx) <= Fifo
  /\ pico \in [armed : BOOLEAN, age : 0 .. Expired, desired : BOOLEAN, bidir : BOOLEAN,
               hung : 0 .. Watchdog]
  /\ core1 \in {"idle", "stamp"}
  /\ core0 \in [pc : {"sample", "decide", "output"}, armed : BOOLEAN, lag : 0 .. Watchdog]
  /\ motors \in {"drive", "stop"} /\ upsets \in 0 .. Upsets /\ silent \in 0 .. LongAgo

(***************************************************************************)
(* The two layers of the Pico's failsafe together: after the last accepted *)
(* command the motors turn for the link time-out, and beyond it only as    *)
(* long as the watchdog lets an output cycle stand still, once before and  *)
(* once after the cycle that found the link fresh.                         *)
(***************************************************************************)
DeadMan == motors = "drive" => silent < LinkTimeout + 2 * Watchdog

(***************************************************************************)
(* A disarm reaches the motors, whatever the link loses, whichever side is *)
(* reset and however often the DShot task misses its lock.                 *)
(***************************************************************************)
DisarmStops == ~want ~> (motors = "stop" \/ want)

(***************************************************************************)
(* The output mode follows DSHOT_BIDIR after resets of the Pico as well,   *)
(* once the vehicle stays disarmed.                                        *)
(***************************************************************************)
ModeFollows == <>[](~want) => <>[](pico.bidir = bidir)
=============================================================================
