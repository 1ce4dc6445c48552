---------------------------- MODULE MoveProtocol ----------------------------
(***************************************************************************)
(* The life of a SROT_MOVE as the companion sees it.  The flight loop      *)
(* (ControlLoop) starts, flies and ends the move and publishes mv_active   *)
(* and mv_done_seq; updateMove of mav_stream, on Core 0, samples them at   *)
(* its own pace and turns them into the terminal COMMAND_ACK.  `fate' is a *)
(* history variable: what really became of each move.                      *)
(***************************************************************************)
EXTENDS ControlLoop, Sequences

CONSTANTS
  LateHold,   \* the 500 ms after which an unstarted move fails, in passes
  Pipelined,  \* may the client send a move before the last one is answered?
  Aborts,     \* may the safety monitor trip?
  SnapMiss    \* may the snapshot of updateMove miss the control lock?

ASSUME ProtocolAssumption ==
  /\ LateHold \in Nat
  /\ Pipelined \in BOOLEAN
  /\ Aborts \in BOOLEAN
  /\ SnapMiss \in BOOLEAN

VARIABLES
  trk,      \* the statics of updateMove
  replies,  \* the terminal ACKs sent for each move
  fate      \* history: what the loop did with each move

mvars == <<vars, trk, replies, fate>>

Moves == 1 .. MaxMoves

Terminals == {"ACCEPTED", "CANCELLED", "FAILED"}

\* s_seq, s_seen_active, s_resolved, and the passes since s_track_ms.
TrackType == [seq : MoveSeqs, seen : BOOLEAN, resolved : BOOLEAN,
              age : 0 .. LateHold + 1]

Fates == {"pending", "running", "completed", "cut"}

\* The type invariant; each reply is one of the terminal results.
MTypeOK ==
  /\ TypeOK
  /\ trk \in TrackType
  /\ replies \in [Moves -> Seq(Terminals)]
  /\ fate \in [Moves -> Fates]

MInit ==
  /\ Init
  /\ trk = [seq |-> 0, seen |-> FALSE, resolved |-> FALSE, age |-> 0]
  /\ replies = [s \in Moves |-> <<>>]
  /\ fate = [s \in Moves |-> "pending"]

---------------------------------------------------------------------------
(* updateMove *)

\* The snapshot; on a lock miss it is the default-constructed one.
Snapshots ==
  {[mode |-> control.mode, active |-> control.mv_active,
    seq |-> control.mv_seq, done |-> control.mv_done_seq]} \cup
  IF SnapMiss
    THEN {[mode |-> "MANUAL", active |-> FALSE, seq |-> 0, done |-> 0]}
    ELSE {}

Open(t) == t.seq # 0 /\ ~t.resolved

\* A sequence number not tracked yet takes over the tracking.
AdoptsResolved(t, snap) == snap.seq # 0 /\ (snap.seq # t.seq \/ t.resolved)
Adopts(t, snap) == snap.seq # 0 /\ snap.seq # t.seq

\* The tracking after adoption and after `if (s.mv_active) s_seen_active'.
TracksUnseen(t, snap) ==
  IF Adopts(t, snap)
    THEN [seq |-> snap.seq, seen |-> TRUE, resolved |-> FALSE, age |-> 0] ELSE t
Tracks(t, snap) ==
  LET a == IF Adopts(t, snap)
             THEN [seq |-> snap.seq, seen |-> FALSE, resolved |-> FALSE, age |-> 0]
             ELSE t
  IN  [a EXCEPT !.seen = @ \/ (Open(a) /\ snap.active)]

\* The terminal result of the move that an adoption displaces.
Displaced(t, snap) ==
  IF Adopts(t, snap) /\ Open(t)
    THEN <<IF snap.done = t.seq THEN "ACCEPTED" ELSE "CANCELLED">> ELSE <<>>

\* The terminal result of the tracked move, if this call finds one.
VerdictRejects(t, snap) ==
  IF Open(t)
    THEN IF ~t.seen /\ snap.mode # "AUTO" /\ t.age > LateHold
           THEN <<"TEMPORARILY_REJECTED">>
           ELSE IF snap.done = t.seq \/ (t.seen /\ ~snap.active) THEN <<"ACCEPTED">> ELSE <<>>
    ELSE <<>>
Verdict(t, snap) ==
  IF Open(t)
    THEN IF ~t.seen /\ snap.mode # "AUTO" /\ t.age > LateHold
           THEN <<"FAILED">>
           ELSE IF snap.done = t.seq \/ (t.seen /\ ~snap.active) THEN <<"ACCEPTED">> ELSE <<>>
    ELSE <<>>

\* It runs in the task that handles the messages of the UART.
UpdateMove ==
  /\ core0["mavlink"] = "idle"
  /\ \E snap \in Snapshots :
       LET t == Tracks(trk, snap)
           displaced == Displaced(trk, snap)
           verdict == Verdict(t, snap)
       IN  /\ trk' = [t EXCEPT !.resolved = @ \/ verdict # <<>>]
           /\ replies' = [s \in Moves |->
                replies[s] \o (IF s = trk.seq THEN displaced ELSE <<>>)
                           \o (IF s = t.seq THEN verdict ELSE <<>>)]
  /\ UNCHANGED <<vars, fate>>

---------------------------------------------------------------------------
(* The history and the composition *)

Ending(how) == [s \in Moves |-> IF fate[s] = "running" THEN how ELSE fate[s]]

\* A move starts on a new prev_mv_seq, completes when update() lets it fall
\* idle, and is cut when anything else changes its phase.
RecordFate ==
  fate' = IF st'.mv_seq # st.mv_seq
            THEN [Ending("cut") EXCEPT ![st'.mv_seq] = "running"]
            ELSE IF mach'.move = mach.move \/ (pc = "drive" /\ mach'.move # "NONE")
                   THEN fate
                   ELSE Ending(IF pc = "drive" THEN "completed" ELSE "cut")

MLoop ==
  /\ Loop
  /\ ~Aborts => "safety" \notin acted'
  /\ RecordFate
  /\ trk' = IF pc = "read" /\ Open(trk)
              THEN [trk EXCEPT !.age = Tick(@, LateHold)] ELSE trk
  /\ UNCHANGED replies

Answered(s) == replies[s] # <<>>

\* A client that does not pipeline waits for the newest move's result, and sends nothing
\* while a move is in hand.
ClientReady ==
  \/ Pipelined
  \/ /\ \A s \in Moves : s = control.mv_seq => Answered(s)
     /\ \A task \in Core0Tasks : core0[task] # "move"

MCommand ==
  /\ Command
  /\ (\E task \in Core0Tasks : MoveCheck(task)) => ClientReady
  /\ UNCHANGED <<trk, replies, fate>>

\* The sticks and the deadline of a motor test grow old.
MLapse == (SticksAge \/ TestLapses) /\ UNCHANGED <<trk, replies, fate>>

MNext ==
  \/ MLoop
  \/ MCommand
  \/ UpdateMove
  \/ MLapse

MSpec == MInit /\ [][MNext]_mvars

\* A movement step from one of the phases to another.
Advances(from, to) ==
  MLoop /\ pc = "drive" /\ mach.move \in from /\ mach'.move \in to

\* Both tasks are periodic and a handler runs to its end.  Every leg has a
\* time-out, the brake a duration, and a time-out is longer than a pass.
MFairSpec ==
  /\ MSpec
  /\ WF_mvars(MLoop)
  /\ WF_mvars(UpdateMove)
  /\ \A task \in Core0Tasks : WF_mvars(MCommand /\ Finish(task))
  /\ SF_mvars(Advances({"RUN", "STYLE"}, {"BRAKE", "DONE"}))
  /\ SF_mvars(Advances({"BRAKE"}, {"DONE"}))
  /\ SF_mvars(Advances({"DONE"}, {"NONE"}))

---------------------------------------------------------------------------
(* Properties *)

\* The contract as the companion sees it: a move is open from the accepted
\* command on, and a second terminal result would be an outcome of its own.
Outcome ==
  [s \in Moves |->
    IF s > control.mv_seq THEN "unissued"
    ELSE IF replies[s] = <<>> THEN "open"
    ELSE IF Len(replies[s]) = 1 THEN replies[s][1] ELSE "revised"]

Contract == INSTANCE MoveContract WITH outcome <- Outcome

\* updateMove implements the contract: at most one terminal result per move,
\* never one for a move that was not issued, never CANCELLED for a move that
\* nothing displaced, whatever the loop and the locks do.
OneTerminalResult == Contract!Spec

\* ACCEPTED is said of a move that has ended: not of one that is still running
\* and not of one that has not begun.
AcceptedMeansEnded ==
  \A s \in Moves :
    Answered(s) /\ replies[s][1] = "ACCEPTED" => fate[s] \in {"completed", "cut"}

\* Every move is answered once no more command comes: the move
\* ends, is taken away or never starts, and updateMove notices each of these.
EveryMoveAnswered ==
  <>[][~Command]_mvars =>
    \A s \in Moves : (control.mv_seq >= s) ~> Answered(s)
=============================================================================
