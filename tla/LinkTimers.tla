----------------------------- MODULE LinkTimers -----------------------------
(***************************************************************************)
(* The two link timers of the failsafe: Core 0 marks and stamps a link as  *)
(* a heartbeat comes in, Core 1 asks in every pass whether it is lost, and *)
(* no lock is held.  The clock and the ages are unsigned and wrap.         *)
(*                                                                         *)
(* Any heartbeat feeds the timer of the ground stations, one that matches  *)
(* FS_GCS_SYSID and FS_GCS_COMPID the companion's as well.                 *)
(***************************************************************************)
EXTENDS Naturals, Sequences

CONSTANTS
  Timeout,   \* GCS_FAILSAFE_MS, in ticks
  Lag,       \* ticks that the handling of a heartbeat, or a check, may take
  Wrap       \* ticks after which the clock starts again at 0

ASSUME TimersAssumption ==
  /\ Timeout \in Nat \ {0} /\ Lag \in Nat /\ Wrap \in Nat
  /\ Timeout + 2 * Lag < Wrap

Links == {"gcs", "companion"}

VARIABLES
  clock,       \* millis()
  seen, last,  \* s_gcs_seen, s_companion_seen and the stamps
  feed,        \* Core 0: what is left to do of the heartbeat in hand
  check,       \* Core 1: the link asked about, and the time read for it
  lost,        \* what Core 1 was last told of each link
  silent,      \* observer: ticks since a heartbeat of the link began to be handled
  overtaken    \* observer: a heartbeat of the link was in hand during the check

timerVars == <<clock, seen, last, feed, check, lost, silent, overtaken>>

Resting == [link |-> "none", now |-> 0]

LInit ==
  /\ clock \in 0 .. Wrap - 1 /\ seen = [l \in Links |-> FALSE] /\ last = [l \in Links |-> 0]
  /\ feed = <<>> /\ check = Resting /\ lost = [l \in Links |-> FALSE]
  /\ silent = [l \in Links |-> Wrap] /\ overtaken = FALSE

\* Mutant: the difference is not taken modulo the width of the clock.
AgeUnwrapped(now, stamp) == IF now >= stamp THEN now - stamp ELSE Wrap

Age(now, stamp) == (now + Wrap - stamp) % Wrap
-----------------------------------------------------------------------------
(* Core 0. *)

\* Mutant, the fault the second timer was made for: any heartbeat feeds both.
FedByOne(sender) == <<"gcs", "companion">>

FedBy(sender) == IF sender = "companion" THEN <<"gcs", "companion">> ELSE <<"gcs">>

Heartbeat ==
  /\ feed = <<>>
  /\ \E sender \in Links :
       /\ feed' = FedBy(sender)
       /\ silent' = [l \in Links |-> IF l = "gcs" \/ l = sender THEN 0 ELSE silent[l]]
       /\ overtaken' = (overtaken \/ check.link \in {"gcs", sender})
  /\ UNCHANGED <<clock, seen, last, check, lost>>

\* First the mark, then the stamp.
Mark ==
  /\ feed # <<>> /\ ~seen[Head(feed)]
  /\ seen' = [seen EXCEPT ![Head(feed)] = TRUE]
  /\ UNCHANGED <<clock, last, feed, check, lost, silent, overtaken>>

Stamp ==
  /\ feed # <<>> /\ seen[Head(feed)]
  /\ last' = [last EXCEPT ![Head(feed)] = clock] /\ feed' = Tail(feed)
  /\ UNCHANGED <<clock, seen, check, lost, silent, overtaken>>
-----------------------------------------------------------------------------
(* Core 1. *)

InHand(link) == \E i \in 1 .. Len(feed) : feed[i] = link

\* gcsLinkOk and companionLost read the mark, and then the clock.  A ground station
\* never heard counts as lost, a companion never heard does not.
Ask(link) ==
  /\ check = Resting
  /\ IF seen[link]
     THEN check' = [link |-> link, now |-> clock] /\ overtaken' = InHand(link) /\ UNCHANGED lost
     ELSE lost' = [lost EXCEPT ![link] = link = "gcs"] /\ UNCHANGED <<check, overtaken>>
  /\ UNCHANGED <<clock, seen, last, feed, silent>>

\* The compiler may read either side of the difference first.  Here the stamp is read
\* last, so that it may be younger than the time it is compared with.
Aged(link) == Age(check.now, last[link]) >= Timeout

Conclude(link) ==
  /\ check.link = link /\ check' = Resting
  /\ lost' = [lost EXCEPT ![link] = Aged(link)]
  /\ UNCHANGED <<clock, seen, last, feed, silent, overtaken>>
-----------------------------------------------------------------------------
Pass ==
  /\ check # Resting => Age(clock, check.now) < Lag
  /\ \A l \in Links : InHand(l) => silent[l] < Lag
  /\ clock' = (clock + 1) % Wrap
  /\ silent' = [l \in Links |-> IF silent[l] < Wrap THEN silent[l] + 1 ELSE Wrap]
  /\ UNCHANGED <<seen, last, feed, check, lost, overtaken>>

LNext == Heartbeat \/ Mark \/ Stamp \/ (\E l \in Links : Ask(l) \/ Conclude(l)) \/ Pass

LSpec == LInit /\ [][LNext]_timerVars
-----------------------------------------------------------------------------
Concludes(link) == check.link = link /\ check' = Resting

(***************************************************************************)
(* A link that has been silent for the time-out is reported lost, whatever *)
(* the other link does, up to the delays of handler and check, and until   *)
(* the clock has wrapped.                                                  *)
(***************************************************************************)
LossReported ==
  [][\A l \in Links :
       Concludes(l) /\ silent[l] \in Timeout + 2 * Lag .. Wrap - 1 => lost'[l]]_timerVars

(***************************************************************************)
(* A link is reported lost by mistake only in a check that a heartbeat of  *)
(* this very link overtakes: its mark is set and its stamp is not, or the  *)
(* stamp is younger than the time read before it.                          *)
(***************************************************************************)
LossIsReal ==
  [][\A l \in Links : Concludes(l) /\ lost'[l] => silent[l] >= Timeout \/ overtaken]_timerVars
=============================================================================
