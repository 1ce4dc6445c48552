---------------------------- MODULE Persistence ----------------------------
(***************************************************************************)
(* Parameters and calibration, in memory and in flash: the boot with its   *)
(* default versions and one-shot migrations, PARAM_SET, the reset to       *)
(* defaults, the deferred saves that Core 0 serves for the routines of     *)
(* Core 1, write failures, and a reset of the board between any two        *)
(* writes.  One put is atomic and durable.                                 *)
(*                                                                         *)
(* Four rows stand for the table: "pin" (PIN_BATTVOLT, PIN_BATTCURR),      *)
(* "mult" (PM1_VMULT), "ref" (MAG_YAW_REF, PM2_VMULT) and "gain" (a row no *)
(* migration touches).  A value is where it comes from: an older firmware, *)
(* this one's default, the operator, or a tuner.                           *)
(***************************************************************************)
EXTENDS Naturals, Sequences

CONSTANTS
  Budget,          \* bound on orders, tunes, calibrations, resets and new firmware
  UncheckedFail,   \* whether the writes whose result the code drops may fail
  CalLockMiss      \* whether saveToNVS may miss mtx_cal

ASSUME PersistenceAssumption ==
  Budget \in Nat /\ UncheckedFail \in BOOLEAN /\ CalLockMiss \in BOOLEAN

VARIABLES
  flash,     \* the two namespaces: rows, migration markers, defaults version, calibration
  live,      \* g_params
  boot,      \* the writes params::init() has still to do; none once the tasks run
  job,       \* Core 0: what it is at, the rows or keys left, and whether a write failed
  saveReq,   \* s_save_req
  cal,       \* g_state.cal: the generation of the calibration, persist_pending
  fw,        \* PARAM_DEFAULTS_VER of the firmware on the board
  budget,
  owned,     \* observer: what the operator set and was told nothing bad about
  due,       \* observer: rows a save request covers, and no SAVE FAILED answered
  calWarned  \* observer: the last calibration save was reported as failed

persistVars == <<flash, live, boot, job, saveReq, cal, fw, budget, owned, due, calWarned>>

Rows == {"pin", "mult", "ref", "gain"}
RowOrder == <<"pin", "mult", "ref", "gain">>
Keys == {"mag", "level"}
KeyOrder == <<"mag", "level">>
Markers == {"ref", "pm1", "pins"}
Own == {"own", "own low"}
Low == {"legacy", "own low"}     \* below the threshold of a migration
Values == {"legacy", "default", "tuned"} \cup Own
Absent == "absent"

NoCopy == [k \in Keys |-> 0]
Rest == [at |-> "rest", left |-> <<>>, value |-> Absent, copy |-> NoCopy, failed |-> FALSE]
Running == boot = <<>>
Spend == budget > 0 /\ budget' = budget - 1
-----------------------------------------------------------------------------
(* params::init(), which runs before any task. *)

\* Mutant: a key that is not there is read as it is.
LoadedBare(f) == [r \in Rows |-> f.row[r]]

Loaded(f) == [r \in Rows |-> IF f.row[r] = Absent THEN "default" ELSE f.row[r]]

Row(r)    == [put |-> "row", of |-> r]
Marker(m) == [put |-> "marker", of |-> m]
Version   == [put |-> "version", of |-> ""]

\* Mutant: the marker is written only by a boot that changed something.
MigratedIfApplied(f, forced, m, rows, applies) ==
  IF m \in f.marks THEN <<>>
  ELSE IF ~forced /\ applies THEN rows \o <<Marker(m)>> ELSE <<>>

\* Mutant: first the marker, then the rows.
MigratedMarkFirst(f, forced, m, rows, applies) ==
  IF m \in f.marks THEN <<>>
  ELSE <<Marker(m)>> \o (IF ~forced /\ applies THEN rows ELSE <<>>)

\* The writes of one migration: its rows, if it applies, and the marker in any case.
Migrated(f, forced, m, rows, applies) ==
  IF m \in f.marks THEN <<>>
  ELSE (IF ~forced /\ applies THEN rows ELSE <<>>) \o <<Marker(m)>>

\* Every write of a boot stores a default.  The thresholds look at loaded values that
\* no earlier migration changes, so all writes are known when the boot begins.
BootWrites(f, version) ==
  LET forced == f.ver # version
      low(r) == Loaded(f)[r] \in Low
  IN  (IF forced THEN [i \in 1 .. Len(RowOrder) |-> Row(RowOrder[i])] \o <<Version>> ELSE <<>>)
      \o Migrated(f, forced, "ref", <<Row("ref")>>, low("ref"))
      \o Migrated(f, forced, "pm1", <<Row("mult")>>, low("mult"))
      \o Migrated(f, forced, "pins", <<Row("pin"), Row("mult")>>, TRUE)

BootWrite ==
  /\ ~Running /\ boot' = Tail(boot)
  /\ LET w == Head(boot)
     IN  /\ flash' \in
              {CASE w.put = "row"     -> [flash EXCEPT !.row[w.of] = "default"]
                 [] w.put = "marker"  -> [flash EXCEPT !.marks = @ \cup {w.of}]
                 [] w.put = "version" -> [flash EXCEPT !.ver = fw]}
              \cup (IF UncheckedFail THEN {flash} ELSE {})
         /\ live' = IF w.put = "row" THEN [live EXCEPT ![w.of] = "default"] ELSE live
  /\ UNCHANGED <<job, saveReq, cal, fw, budget, owned, due, calWarned>>

\* What a board starts with: nothing, or the rows of an older firmware, with this
\* version of the defaults or another, and the first migration behind it or not.
PInit ==
  /\ fw = 1 /\ budget = Budget
  /\ \E ver \in {0, 1}, blank \in BOOLEAN, marks \in {{}, {"pm1"}} :
       LET moved == IF ver = 0 THEN {} ELSE IF marks = {} THEN {"gain"} ELSE {"gain", "mult"}
       IN  flash = [row |-> [r \in Rows |-> IF blank THEN Absent
                                             ELSE IF r \in moved THEN "default" ELSE "legacy"],
                    marks |-> IF blank THEN {} ELSE marks, ver |-> IF blank THEN 0 ELSE ver,
                    cal |-> [k \in Keys |-> 0]]
  /\ live = Loaded(flash) /\ boot = BootWrites(flash, fw)
  /\ job = Rest /\ saveReq = FALSE /\ cal = [gen |-> [k \in Keys |-> 0], pending |-> FALSE]
  /\ owned = [r \in Rows |-> Absent] /\ due = {} /\ calWarned = FALSE

Restart(f, version) ==
  /\ flash' = f /\ fw' = version /\ live' = Loaded(f) /\ boot' = BootWrites(f, version)
  /\ job' = Rest /\ saveReq' = FALSE /\ cal' = [gen |-> f.cal, pending |-> FALSE]
  /\ due' = {} /\ calWarned' = FALSE

Reset == Spend /\ Restart(flash, fw) /\ UNCHANGED owned

\* Another firmware, with other defaults: what is stored is of the one before.
NewFirmware ==
  /\ Spend /\ owned' = [r \in Rows |-> Absent]
  /\ Restart([flash EXCEPT !.row = [r \in Rows |-> IF @[r] = Absent THEN Absent ELSE "legacy"]], fw + 1)
-----------------------------------------------------------------------------
(* Core 1: the tuners and the calibration routines. *)

\* A gain, or all of them; autotune may be cut off and never request the save.
TuneWrite ==
  /\ Running /\ Spend /\ live' = [live EXCEPT !["gain"] = "tuned"]
  /\ due' = due \ {"gain"} /\ owned' = [owned EXCEPT !["gain"] = Absent]
  /\ UNCHANGED <<flash, boot, job, saveReq, cal, fw, calWarned>>

RequestSaveAll ==
  /\ Running /\ Spend /\ saveReq' = TRUE /\ due' = Rows
  /\ UNCHANGED <<flash, live, boot, job, cal, fw, owned, calWarned>>

CalFinish ==
  /\ Running /\ Spend
  /\ cal' = [gen |-> [k \in Keys |-> cal.gen[k] + 1], pending |-> TRUE]
  /\ UNCHANGED <<flash, live, boot, job, saveReq, fw, owned, due, calWarned>>
-----------------------------------------------------------------------------
(* Core 0: the handlers. *)

Idle == Running /\ job.at = "rest"

\* PARAM_SET: the live value at once, the flash afterwards.
ParamSet ==
  /\ Idle /\ Spend
  /\ \E r \in Rows, v \in Own :
       /\ live' = [live EXCEPT ![r] = v] /\ due' = due \ {r}
       /\ job' = [Rest EXCEPT !.at = "set", !.left = <<r>>, !.value = v]
       /\ owned' = [owned EXCEPT ![r] = Absent]
  /\ UNCHANGED <<flash, boot, saveReq, cal, fw, calWarned>>

\* A failed write is told ("set but NOT saved"), and the value stays in force.
ParamStore ==
  /\ job.at = "set" /\ job' = Rest
  /\ LET r == Head(job.left)
     IN  \/ /\ flash' = [flash EXCEPT !.row[r] = job.value]
            /\ owned' = [owned EXCEPT ![r] = IF live[r] = job.value THEN job.value ELSE Absent]
         \/ flash.row[r] # job.value /\ UNCHANGED <<flash, owned>>
  /\ UNCHANGED <<live, boot, saveReq, cal, fw, budget, due, calWarned>>

\* PREFLIGHT_STORAGE 2.
ResetAllToDefaults ==
  /\ Idle /\ Spend /\ job' = [Rest EXCEPT !.at = "defaults", !.left = RowOrder]
  /\ UNCHANGED <<flash, live, boot, saveReq, cal, fw, owned, due, calWarned>>

DefaultRow ==
  /\ job.at = "defaults" /\ job.left # <<>> /\ job' = [job EXCEPT !.left = Tail(@)]
  /\ LET r == Head(job.left)
     IN  /\ live' = [live EXCEPT ![r] = "default"] /\ due' = due \ {r}
         /\ owned' = [owned EXCEPT ![r] = Absent]
         /\ flash' \in {[flash EXCEPT !.row[r] = "default"]} \cup (IF UncheckedFail THEN {flash} ELSE {})
  /\ UNCHANGED <<boot, saveReq, cal, fw, budget, calWarned>>

\* The version is stored again, and the motor directions are set back.
DefaultsEnd ==
  /\ job.at = "defaults" /\ job.left = <<>> /\ job' = Rest
  /\ flash' = [flash EXCEPT !.ver = fw]
  /\ cal' = [gen |-> [k \in Keys |-> cal.gen[k] + 1], pending |-> TRUE]
  /\ UNCHANGED <<live, boot, saveReq, fw, budget, owned, due, calWarned>>

\* PREFLIGHT_STORAGE 1: both saves.
RequestStorage ==
  /\ Idle /\ Spend /\ saveReq' = TRUE /\ due' = Rows /\ cal' = [cal EXCEPT !.pending = TRUE]
  /\ UNCHANGED <<flash, live, boot, job, fw, owned, calWarned>>
-----------------------------------------------------------------------------
(* Core 0: the deferred saves of update(). *)

\* The flag is cleared under the lock, and the calibration copied under it again.
CalSaveStart ==
  /\ Idle /\ cal.pending /\ cal' = [cal EXCEPT !.pending = FALSE]
  /\ job' = [Rest EXCEPT !.at = "snapshot"]
  /\ UNCHANGED <<flash, live, boot, saveReq, fw, budget, owned, due, calWarned>>

\* Without the lock nothing is written, and the count of failures stays as it was.
CalSnapshot ==
  /\ job.at = "snapshot"
  /\ job' \in {[Rest EXCEPT !.at = "cal", !.left = KeyOrder, !.copy = cal.gen]}
             \cup (IF CalLockMiss THEN {Rest} ELSE {})
  /\ UNCHANGED <<flash, live, boot, saveReq, cal, fw, budget, owned, due, calWarned>>

CalWriteKey ==
  /\ job.at = "cal" /\ job.left # <<>>
  /\ \/ /\ flash' = [flash EXCEPT !.cal[Head(job.left)] = job.copy[Head(job.left)]]
        /\ job' = [job EXCEPT !.left = Tail(@)]
     \/ UNCHANGED flash /\ job' = [job EXCEPT !.left = Tail(@), !.failed = TRUE]
  /\ UNCHANGED <<live, boot, saveReq, cal, fw, budget, owned, due, calWarned>>

\* Mutant: the flag is cleared when the save is over.
CalSaveEndClears ==
  /\ job.at = "cal" /\ job.left = <<>> /\ job' = Rest /\ calWarned' = job.failed
  /\ cal' = [cal EXCEPT !.pending = FALSE]
  /\ UNCHANGED <<flash, live, boot, saveReq, fw, budget, owned, due>>

CalSaveEnd ==
  /\ job.at = "cal" /\ job.left = <<>> /\ job' = Rest /\ calWarned' = job.failed
  /\ UNCHANGED <<flash, live, boot, saveReq, cal, fw, budget, owned, due>>

\* serviceSaveAll clears its flag before it saves.
SaveAllStart ==
  /\ Idle /\ saveReq /\ saveReq' = FALSE
  /\ job' = [Rest EXCEPT !.at = "save", !.left = RowOrder]
  /\ UNCHANGED <<flash, live, boot, cal, fw, budget, owned, due, calWarned>>

\* A row already stored is skipped; one write may fail and the others go on.
SaveRow ==
  /\ job.at = "save" /\ job.left # <<>>
  /\ LET r == Head(job.left)
     IN  \/ /\ flash' = [flash EXCEPT !.row[r] = live[r]]
            /\ job' = [job EXCEPT !.left = Tail(@)]
         \/ /\ flash.row[r] # live[r] /\ UNCHANGED flash
            /\ job' = [job EXCEPT !.left = Tail(@), !.failed = TRUE]
  /\ UNCHANGED <<live, boot, saveReq, cal, fw, budget, owned, due, calWarned>>

\* Mutant: the request flag is cleared when the save is over.
SaveAllEndClears ==
  /\ job.at = "save" /\ job.left = <<>> /\ job' = Rest /\ saveReq' = FALSE
  /\ due' = IF job.failed /\ ~saveReq THEN {} ELSE due
  /\ UNCHANGED <<flash, live, boot, cal, fw, budget, owned, calWarned>>

\* Either text goes out: "Params saved to flash", or SAVE FAILED, which does not answer
\* a request that has come meanwhile.
SaveAllEnd ==
  /\ job.at = "save" /\ job.left = <<>> /\ job' = Rest
  /\ due' = IF job.failed /\ ~saveReq THEN {} ELSE due
  /\ UNCHANGED <<flash, live, boot, saveReq, cal, fw, budget, owned, calWarned>>

PNext ==
  \/ BootWrite \/ Reset \/ NewFirmware
  \/ TuneWrite \/ RequestSaveAll \/ CalFinish
  \/ ParamSet \/ ParamStore \/ ResetAllToDefaults \/ DefaultRow \/ DefaultsEnd \/ RequestStorage
  \/ CalSaveStart \/ CalSnapshot \/ CalWriteKey \/ CalSaveEnd
  \/ SaveAllStart \/ SaveRow \/ SaveAllEnd

PSpec == PInit /\ [][PNext]_persistVars
-----------------------------------------------------------------------------
PTypeOK ==
  /\ flash \in [row : [Rows -> Values \cup {Absent}], marks : SUBSET Markers, ver : 0 .. fw,
                cal : [Keys -> 0 .. Budget]]
  /\ live \in [Rows -> Values] /\ owned \in [Rows -> Own \cup {Absent}] /\ due \subseteq Rows
  /\ cal \in [gen : [Keys -> 0 .. Budget], pending : BOOLEAN] /\ fw \in 1 .. Budget + 1
  /\ job.at \in {"rest", "set", "defaults", "snapshot", "cal", "save"}
  /\ Len(job.left) <= Len(RowOrder) /\ job.failed \in BOOLEAN
  /\ saveReq \in BOOLEAN /\ calWarned \in BOOLEAN /\ budget \in 0 .. Budget
  /\ ~Running => job = Rest /\ ~saveReq

(***************************************************************************)
(* No row keeps a value of an older firmware, in force or in flash, once a *)
(* boot has come to its end, wherever the boots before it were cut off.    *)
(***************************************************************************)
LegacyGone == Running => \A r \in Rows : flash.row[r] # "legacy" /\ live[r] # "legacy"

(***************************************************************************)
(* A value the operator set and that was not reported unsaved stays in     *)
(* flash and in force, over any number of restarts: no migration runs      *)
(* again, even if the value lies below its threshold.                      *)
(***************************************************************************)
OperatorKeepsValue ==
  \A r \in Rows : owned[r] # Absent =>
    flash.row[r] = owned[r] /\ (Running => live[r] = owned[r])

(***************************************************************************)
(* A save that was asked for, by a tuner on the other core perhaps while   *)
(* another save was under way, is done for every row or reported as failed.*)
(***************************************************************************)
SaveNeverSilent == Idle /\ ~saveReq => \A r \in due : flash.row[r] = live[r]

(***************************************************************************)
(* The same of the calibration: what a routine finished while an earlier   *)
(* result was being written is not left behind, and no mixture of the two  *)
(* is left in flash.                                                       *)
(***************************************************************************)
CalibrationSaved == Idle /\ ~cal.pending => flash.cal = cal.gen \/ calWarned
=============================================================================
