------------------------ MODULE MoveProtocol_proofs -------------------------
(***************************************************************************)
(* The acknowledgement of SROT_MOVE, for all values of the constants: its  *)
(* types, that updateMove implements MoveContract, whatever the loop, the  *)
(* operator and the locks do, and that ACCEPTED is true, if nobody breaks  *)
(* in.                                                                     *)
(***************************************************************************)
EXTENDS MoveProtocol, ControlLoop_proofs

\* A move has been answered once at most, and none that is not tracked yet.
AnsweredOnce ==
  \A s \in Moves : /\ replies[s] = <<>> \/ \E r \in Terminals : replies[s] = <<r>>
                   /\ s > trk.seq => replies[s] = <<>>

\* The tracking is not ahead of the commands, and resolved means answered.
Tracked ==
  /\ trk.seq <= control.mv_seq
  /\ trk.seq # 0 => (trk.resolved <=> Answered(trk.seq))

\* The inductive invariant of the acknowledgement.
AckInv == IInv /\ MTypeOK /\ AnsweredOnce /\ Tracked

---------------------------------------------------------------------------
(* The numbers of the moves *)

\* The commands are counted one by one.
LEMMA CommandCounts ==
  ASSUME ConstantsAssumption, IInv, Command
  PROVE  \/ control'.mv_seq = control.mv_seq
         \/ control'.mv_seq = control.mv_seq + 1 /\ control'.mv_seq \in Moves
<1> USE DEF IInv, TypeOK, ControlType
<1>1. CASE \E task \in Core0Tasks : MoveIssue(task)
  <2>1. control'.mv_seq = control.mv_seq + 1
    BY <1>1, Zenon DEF MoveIssue
  <2>2. control.mv_seq \in 0 .. MaxMoves /\ control.mv_seq < MaxMoves /\ MaxMoves \in Nat
    BY <1>1, TurnsOwn, Zenon DEF MoveIssue, MoveRoom, MoveSeqs, ConstantsAssumption
  <2> QED
    BY <2>1, <2>2 DEF Moves
<1>2. CASE ~\E task \in Core0Tasks : MoveIssue(task)
  BY <1>2, Zenon DEF Finish, Command, ArmCommand, ModeCommand, WritesControl, Arm, JsArm, Disarm, SetMode,
       Stunt, Pattern, Autotune, ManualControl, StartCalibration, MoveCheck, MoveRejected,
       MotorTestCheck, MotorTestSet
<1> QED
  BY <1>1, <1>2

\* Sequence numbers are naturals, and all but zero are moves.
LEMMA Numbers ==
  ASSUME ConstantsAssumption
  PROVE  /\ MoveSeqs \subseteq Nat /\ Moves \subseteq MoveSeqs /\ 0 \in MoveSeqs
         /\ \A s \in MoveSeqs : s # 0 <=> s \in Moves
  BY DEF ConstantsAssumption, MoveSeqs, Moves

---------------------------------------------------------------------------
(* updateMove *)

\* Only an open move gets a verdict.
LEMMA VerdictOfOpen == ASSUME NEW t, NEW snap, ~Open(t) PROVE Verdict(t, snap) = <<>>
  BY Zenon DEF Verdict

\* What one call does: it tracks n from now on, and may say d of the move that
\* n displaces and v of n.
LEMMA Update ==
  ASSUME ConstantsAssumption, ProtocolAssumption, AckInv, UpdateMove
  PROVE  \E n \in MoveSeqs,
            d \in {<<>>, <<"ACCEPTED">>, <<"CANCELLED">>}, v \in {<<>>, <<"ACCEPTED">>, <<"FAILED">>} :
           /\ trk' \in TrackType /\ trk'.seq = n
           /\ trk'.resolved <=> (n = trk.seq /\ trk.resolved) \/ v # <<>>
           /\ n = trk.seq \/ (n = control.mv_seq /\ n # 0)
           /\ d # <<>> => trk.seq # 0 /\ ~trk.resolved /\ n # trk.seq
           /\ v # <<>> => n # 0 /\ (n = trk.seq => ~trk.resolved)
           /\ replies' = [s \in Moves |-> replies[s] \o (IF s = trk.seq THEN d ELSE <<>>)
                                                     \o (IF s = n THEN v ELSE <<>>)]
<1>1. PICK snap \in Snapshots :
        /\ trk' = [Tracks(trk, snap) EXCEPT !.resolved =
                     @ \/ Verdict(Tracks(trk, snap), snap) # <<>>]
        /\ replies' = [s \in Moves |->
             replies[s] \o (IF s = trk.seq THEN Displaced(trk, snap) ELSE <<>>)
                        \o (IF s = Tracks(trk, snap).seq
                              THEN Verdict(Tracks(trk, snap), snap) ELSE <<>>)]
  BY Zenon DEF UpdateMove
<1> DEFINE t == Tracks(trk, snap)
           d == Displaced(trk, snap)
           v == Verdict(t, snap)
<1>2. /\ snap.seq \in {control.mv_seq, 0} /\ snap.active \in BOOLEAN
      /\ control.mv_seq \in MoveSeqs /\ trk \in TrackType
  <2>1. control \in ControlType /\ trk \in TrackType
    BY DEF AckInv, MTypeOK, TypeOK
  <2>2. CASE snap = [mode |-> control.mode, active |-> control.mv_active,
                     seq |-> control.mv_seq, done |-> control.mv_done_seq]
    BY <2>1, <2>2 DEF ControlType
  <2>3. CASE snap = [mode |-> "MANUAL", active |-> FALSE, seq |-> 0, done |-> 0]
    BY <2>1, <2>3 DEF ControlType
  <2> QED
    BY <2>2, <2>3 DEF Snapshots
<1>3. /\ t \in TrackType
      /\ t.seq = IF Adopts(trk, snap) THEN snap.seq ELSE trk.seq
      /\ t.resolved = IF Adopts(trk, snap) THEN FALSE ELSE trk.resolved
  <2>1. 0 \in MoveSeqs /\ 0 \in 0 .. LateHold + 1
    BY Numbers DEF ProtocolAssumption
  <2> QED
    BY <1>2, <2>1, Zenon DEF Tracks, TrackType, Adopts, Open
<1>4. d \in {<<>>, <<"ACCEPTED">>, <<"CANCELLED">>}
  BY Zenon DEF Displaced
<1>5. v \in {<<>>, <<"ACCEPTED">>, <<"FAILED">>}
  BY Zenon DEF Verdict
<1>6. t.seq = trk.seq \/ (t.seq = control.mv_seq /\ t.seq # 0)
  BY <1>2, <1>3, Zenon DEF Adopts
<1>7. d # <<>> => trk.seq # 0 /\ ~trk.resolved /\ t.seq # trk.seq
  BY <1>3, Zenon DEF Displaced, Adopts, Open
<1>8. v # <<>> => t.seq # 0 /\ (t.seq = trk.seq => ~trk.resolved)
  <2>1. v # <<>> => Open(t)
    BY VerdictOfOpen, Zenon
  <2>2. Open(t) /\ t.seq = trk.seq => ~trk.resolved
    BY <1>3, Zenon DEF Open, Adopts
  <2> QED
    BY <2>1, <2>2, Zenon DEF Open
<1>9. (t.resolved \/ v # <<>>) <=> ((t.seq = trk.seq /\ trk.resolved) \/ v # <<>>)
  BY <1>2, <1>3, Zenon DEF Adopts
<1>10. replies' = [s \in Moves |-> replies[s] \o (IF s = trk.seq THEN d ELSE <<>>)
                                              \o (IF s = t.seq THEN v ELSE <<>>)]
  BY <1>1, Zenon
<1>11. trk' = [t EXCEPT !.resolved = t.resolved \/ v # <<>>]
  BY <1>1, Zenon
<1> HIDE DEF t, d, v
<1>12. /\ trk' \in TrackType /\ trk'.seq = t.seq
       /\ trk'.resolved <=> (t.resolved \/ v # <<>>)
  BY <1>3, <1>11, Zenon DEF TrackType
<1>13. t.seq \in MoveSeqs
  BY <1>3, Zenon DEF TrackType
<1> QED
  BY <1>4, <1>5, <1>6, <1>7, <1>8, <1>9, <1>10, <1>12, <1>13, Zenon

\* The results that one call may send.
Displacing == {<<>>, <<"ACCEPTED">>, <<"CANCELLED">>}
Verdicts == {<<>>, <<"ACCEPTED">>, <<"FAILED">>}

\* What one call comes to: a result goes to a move that had none.
Says(n, d, v) ==
  /\ trk' \in TrackType /\ trk'.seq = n
  /\ trk'.resolved <=> (n = trk.seq /\ trk.resolved) \/ v # <<>>
  /\ n = trk.seq \/ (n = control.mv_seq /\ n > trk.seq)
  /\ d # <<>> => trk.seq \in Moves /\ n # trk.seq /\ replies[trk.seq] = <<>>
  /\ v # <<>> => n \in Moves /\ replies[n] = <<>>
  /\ replies' \in [Moves -> Seq(Terminals)]
  /\ \A s \in Moves : replies'[s] = IF s = trk.seq /\ d # <<>> THEN d
                                    ELSE IF s = n /\ v # <<>> THEN v ELSE replies[s]

LEMMA Joined ==
  ASSUME NEW S, NEW q \in Seq(S)
  PROVE  q \o <<>> = q /\ <<>> \o q = q
  OBVIOUS

LEMMA Reports ==
  ASSUME ConstantsAssumption, ProtocolAssumption, AckInv, UpdateMove
  PROVE  \E n \in MoveSeqs, d \in Displacing, v \in Verdicts : Says(n, d, v)
<1>1. PICK n \in MoveSeqs, d \in Displacing, v \in Verdicts :
        /\ trk' \in TrackType /\ trk'.seq = n
        /\ trk'.resolved <=> (n = trk.seq /\ trk.resolved) \/ v # <<>>
        /\ n = trk.seq \/ (n = control.mv_seq /\ n # 0)
        /\ d # <<>> => trk.seq # 0 /\ ~trk.resolved /\ n # trk.seq
        /\ v # <<>> => n # 0 /\ (n = trk.seq => ~trk.resolved)
        /\ replies' = [s \in Moves |-> replies[s] \o (IF s = trk.seq THEN d ELSE <<>>)
                                                  \o (IF s = n THEN v ELSE <<>>)]
  BY Update, Zenon DEF Displacing, Verdicts
<1>2. /\ trk.seq \in MoveSeqs /\ control.mv_seq \in MoveSeqs /\ trk.seq <= control.mv_seq
      /\ replies \in [Moves -> Seq(Terminals)]
      /\ AnsweredOnce /\ Tracked
  BY Zenon DEF AckInv, MTypeOK, TypeOK, TrackType, ControlType, Tracked
<1>3. n = trk.seq \/ (n = control.mv_seq /\ n > trk.seq)
  BY <1>1, <1>2, Numbers
<1>4. d # <<>> => trk.seq \in Moves /\ n # trk.seq /\ replies[trk.seq] = <<>>
  BY <1>1, <1>2, Numbers, Zenon DEF Tracked, Answered
<1>5. v # <<>> => n \in Moves /\ replies[n] = <<>>
  BY <1>1, <1>2, <1>3, Numbers, Zenon DEF Tracked, Answered, AnsweredOnce
<1>6. /\ d \in Seq(Terminals) /\ v \in Seq(Terminals) /\ <<>> \in Seq(Terminals)
  <2>1. <<>> \in Seq(Terminals) /\ \A r \in Terminals : <<r>> \in Seq(Terminals)
    OBVIOUS
  <2> QED
    BY <2>1, Zenon DEF Displacing, Verdicts, Terminals
<1>7. ASSUME NEW s \in Moves
      PROVE  replies'[s] = IF s = trk.seq /\ d # <<>> THEN d
                           ELSE IF s = n /\ v # <<>> THEN v ELSE replies[s]
  <2>1. /\ replies'[s] = replies[s] \o (IF s = trk.seq THEN d ELSE <<>>)
                                    \o (IF s = n THEN v ELSE <<>>)
        /\ replies[s] \in Seq(Terminals)
    BY <1>1, <1>2
  <2>2. CASE s = trk.seq /\ d # <<>>
    <3>1. replies'[s] = (<<>> \o d) \o <<>>
      BY <1>4, <2>1, <2>2, Zenon
    <3> QED
      BY <1>6, <2>2, <3>1, Joined, Zenon
  <2>3. CASE s = n /\ v # <<>> /\ ~(s = trk.seq /\ d # <<>>)
    <3>1. replies'[s] = (<<>> \o <<>>) \o v
      BY <1>5, <2>1, <2>3, Zenon
    <3> QED
      BY <1>6, <2>3, <3>1, Joined, Zenon
  <2>4. CASE ~(s = n /\ v # <<>>) /\ ~(s = trk.seq /\ d # <<>>)
    <3>1. replies'[s] = (replies[s] \o <<>>) \o <<>>
      BY <2>1, <2>4, Zenon
    <3> QED
      BY <2>1, <2>4, <3>1, Joined, Zenon
  <2> QED
    BY <2>2, <2>3, <2>4, Zenon
<1>8. replies' \in [Moves -> Seq(Terminals)]
  <2>1. \A s \in Moves : replies'[s] \in Seq(Terminals)
    BY <1>2, <1>6, <1>7
  <2> QED
    BY <1>1, <2>1
<1>9. Says(n, d, v)
  BY <1>1, <1>3, <1>4, <1>5, <1>7, <1>8 DEF Says
<1> QED
  BY <1>9

LEMMA ReportHolds ==
  ASSUME ConstantsAssumption, ProtocolAssumption, AckInv, UpdateMove
  PROVE  AckInv'
<1>1. PICK n \in MoveSeqs, d \in Displacing, v \in Verdicts : Says(n, d, v)
  BY Reports
<1>2. /\ vars' = vars /\ fate' = fate
  BY Zenon DEF UpdateMove
<1>3. /\ trk.seq \in MoveSeqs /\ control.mv_seq \in MoveSeqs /\ trk.seq <= control.mv_seq
      /\ IInv /\ TypeOK /\ fate \in [Moves -> Fates] /\ AnsweredOnce /\ Tracked
  BY Zenon DEF AckInv, MTypeOK, TypeOK, TrackType, ControlType, Tracked
<1>4. IInv' /\ TypeOK' /\ control' = control
  BY <1>2, <1>3, Zenon DEF IInv, TypeOK, MoveRoom, vars
<1>5. MTypeOK'
  BY <1>1, <1>2, <1>3, <1>4, Zenon DEF MTypeOK, Says
<1>6. trk.seq <= n /\ n <= control.mv_seq /\ n \in Nat
  BY <1>1, <1>3, Numbers DEF Says
<1>7. AnsweredOnce'
  <2> SUFFICES ASSUME NEW s \in Moves
               PROVE  /\ replies'[s] = <<>> \/ \E r \in Terminals : replies'[s] = <<r>>
                      /\ s > n => replies'[s] = <<>>
    BY <1>1, Zenon DEF AnsweredOnce, Says
  <2>1. replies'[s] = IF s = trk.seq /\ d # <<>> THEN d
                      ELSE IF s = n /\ v # <<>> THEN v ELSE replies[s]
    BY <1>1, Zenon DEF Says
  <2>2. /\ d = <<>> \/ \E r \in Terminals : d = <<r>>
        /\ v = <<>> \/ \E r \in Terminals : v = <<r>>
    BY DEF Displacing, Verdicts, Terminals
  <2>3. s > n => s # n /\ s > trk.seq /\ s # trk.seq
    <3>1. s \in Nat /\ trk.seq \in Nat
      BY <1>3, Numbers
    <3> QED
      BY <1>6, <3>1
  <2> QED
    BY <1>3, <2>1, <2>2, <2>3, Zenon DEF AnsweredOnce
<1>8. Tracked'
  <2>1. ASSUME n # 0 PROVE trk'.resolved <=> replies'[n] # <<>>
    <3>1. n \in Moves
      BY <1>1, <2>1, Numbers
    <3>2. replies'[n] = IF n = trk.seq /\ d # <<>> THEN d
                        ELSE IF n = n /\ v # <<>> THEN v ELSE replies[n]
      BY <1>1, <3>1, Zenon DEF Says
    <3>3. n # trk.seq => replies[n] = <<>>
      BY <1>1, <1>3, <3>1, Zenon DEF Says, AnsweredOnce
    <3>4. n = trk.seq => (trk.resolved <=> replies[n] # <<>>)
      BY <1>3, <2>1, Zenon DEF Tracked, Answered
    <3>5. d # <<>> => n # trk.seq
      BY <1>1, Zenon DEF Says
    <3>6. trk'.resolved <=> (n = trk.seq /\ trk.resolved) \/ v # <<>>
      BY <1>1, Zenon DEF Says
    <3> QED
      BY <3>2, <3>3, <3>4, <3>5, <3>6, Zenon
  <2>2. trk'.seq = n /\ control'.mv_seq = control.mv_seq
    BY <1>1, <1>4, Zenon DEF Says
  <2> QED
    BY <1>6, <2>1, <2>2, Zenon DEF Tracked, Answered
<1> QED
  BY <1>4, <1>5, <1>7, <1>8, Zenon DEF AckInv

---------------------------------------------------------------------------
(* The other steps *)

\* A step that sends nothing, and tracks no other move.
LEMMA QuietHolds ==
  ASSUME ConstantsAssumption, ProtocolAssumption, AckInv, [Next]_vars,
         trk' \in TrackType, trk'.seq = trk.seq, trk'.resolved = trk.resolved,
         replies' = replies, fate' \in [Moves -> Fates], control.mv_seq <= control'.mv_seq
  PROVE  AckInv'
<1>1. /\ trk.seq \in MoveSeqs /\ control.mv_seq \in MoveSeqs /\ trk.seq <= control.mv_seq
      /\ IInv /\ replies \in [Moves -> Seq(Terminals)] /\ AnsweredOnce /\ Tracked
  BY Zenon DEF AckInv, MTypeOK, TypeOK, TrackType, ControlType, Tracked
<1>2. IInv' /\ TypeOK'
  BY <1>1, IInvStep, Zenon DEF IInv
<1>3. MTypeOK'
  BY <1>1, <1>2, Zenon DEF MTypeOK
<1>4. trk'.seq <= control'.mv_seq
  <2>1. control'.mv_seq \in MoveSeqs
    BY <1>2, Zenon DEF TypeOK, ControlType
  <2>2. trk.seq \in Nat /\ control.mv_seq \in Nat /\ control'.mv_seq \in Nat
    BY <1>1, <2>1, Numbers
  <2> QED
    BY <1>1, <2>2
<1>5. AnsweredOnce' /\ Tracked'
  BY <1>1, <1>4, Zenon DEF AnsweredOnce, Tracked, Answered
<1> QED
  BY <1>2, <1>3, <1>5, Zenon DEF AckInv

LEMMA FateType ==
  ASSUME MTypeOK, RecordFate PROVE fate' \in [Moves -> Fates]
<1>1. Ending("completed") \in [Moves -> Fates] /\ Ending("cut") \in [Moves -> Fates]
  BY Zenon DEF Ending, MTypeOK, Fates
<1>2. [Ending("cut") EXCEPT ![st'.mv_seq] = "running"] \in [Moves -> Fates]
  BY <1>1, Zenon DEF Fates
<1> QED
  BY <1>1, <1>2, Zenon DEF RecordFate, MTypeOK

LEMMA LoopHolds ==
  ASSUME ConstantsAssumption, ProtocolAssumption, AckInv, MLoop PROVE AckInv'
<1>1. /\ Loop /\ RecordFate /\ replies' = replies
      /\ trk' = IF pc = "read" /\ Open(trk)
                  THEN [trk EXCEPT !.age = Tick(trk.age, LateHold)] ELSE trk
  BY Zenon DEF MLoop
<1>2. trk \in TrackType /\ control \in ControlType /\ TypeOK /\ MTypeOK
  BY Zenon DEF AckInv, MTypeOK, TypeOK
<1>3. Tick(trk.age, LateHold) \in 0 .. LateHold + 1
  BY <1>2, TickRange, Zenon DEF TrackType, ProtocolAssumption
<1>4. trk' \in TrackType /\ trk'.seq = trk.seq /\ trk'.resolved = trk.resolved
  BY <1>1, <1>2, <1>3, Zenon DEF TrackType
<1>5. control.mv_seq <= control'.mv_seq
  <2>1. control'.mv_seq = control.mv_seq
    BY <1>1, <1>2, LoopCounts
  <2>2. control.mv_seq \in Nat
    BY <1>2, Numbers, Zenon DEF ControlType
  <2> QED
    BY <2>1, <2>2
<1>6. [Next]_vars
  BY <1>1, Zenon DEF Next
<1> QED
  BY <1>1, <1>2, <1>4, <1>5, <1>6, FateType, QuietHolds

LEMMA CommandHolds ==
  ASSUME ConstantsAssumption, ProtocolAssumption, AckInv, MCommand PROVE AckInv'
<1>1. Command /\ trk' = trk /\ replies' = replies /\ fate' = fate
  BY Zenon DEF MCommand
<1>2. /\ trk \in TrackType /\ control \in ControlType /\ IInv /\ fate \in [Moves -> Fates]
  BY Zenon DEF AckInv, MTypeOK, TypeOK
<1>3. control.mv_seq <= control'.mv_seq
  <2>1. control.mv_seq \in Nat
    BY <1>2, Numbers, Zenon DEF ControlType
  <2> QED
    BY <1>1, <1>2, <2>1, CommandCounts
<1>4. [Next]_vars
  BY <1>1, Zenon DEF Next
<1> QED
  BY <1>1, <1>2, <1>3, <1>4, QuietHolds

LEMMA LapseHolds ==
  ASSUME ConstantsAssumption, ProtocolAssumption, AckInv, MLapse PROVE AckInv'
<1>1. (SticksAge \/ TestLapses) /\ trk' = trk /\ replies' = replies /\ fate' = fate
  BY Zenon DEF MLapse
<1>2. /\ trk \in TrackType /\ control \in ControlType /\ fate \in [Moves -> Fates]
  BY Zenon DEF AckInv, MTypeOK, TypeOK
<1>3. control'.mv_seq = control.mv_seq
  BY <1>1, <1>2, Zenon DEF SticksAge, TestLapses, WritesControl, ControlType
<1>4. control.mv_seq <= control'.mv_seq
  <2>1. control.mv_seq \in Nat
    BY <1>2, Numbers, Zenon DEF ControlType
  <2> QED
    BY <1>3, <2>1
<1>5. [Next]_vars
  BY <1>1, Zenon DEF Next
<1> QED
  BY <1>1, <1>2, <1>4, <1>5, QuietHolds

LEMMA AckInit == ASSUME ConstantsAssumption, ProtocolAssumption, MInit PROVE AckInv
<1>1. IInv /\ TypeOK
  BY IInvInit, Zenon DEF IInv, MInit
<1>2. /\ trk = [seq |-> 0, seen |-> FALSE, resolved |-> FALSE, age |-> 0]
      /\ replies = [s \in Moves |-> <<>>] /\ fate = [s \in Moves |-> "pending"]
      /\ control.mv_seq = 0
  BY DEF MInit, Init
<1>3. 0 \in MoveSeqs /\ 0 \in 0 .. LateHold + 1
  BY Numbers DEF ProtocolAssumption
<1>4. trk \in TrackType /\ replies \in [Moves -> Seq(Terminals)] /\ fate \in [Moves -> Fates]
  <2>1. <<>> \in Seq(Terminals) /\ "pending" \in Fates
    BY DEF Fates
  <2> QED
    BY <1>2, <1>3, <2>1 DEF TrackType
<1>5. AnsweredOnce /\ Tracked
  BY <1>2 DEF AnsweredOnce, Tracked
<1> QED
  BY <1>1, <1>4, <1>5 DEF AckInv, MTypeOK

LEMMA AckStep ==
  ASSUME ConstantsAssumption, ProtocolAssumption, AckInv, [MNext]_mvars PROVE AckInv'
<1>1. CASE UNCHANGED mvars
  <2>1. /\ vars' = vars /\ trk' = trk /\ replies' = replies /\ fate' = fate
    BY <1>1, Zenon DEF mvars
  <2>2. IInv' /\ TypeOK' /\ control' = control
    BY <2>1, Zenon DEF IInv, TypeOK, MoveRoom, vars, AckInv
  <2> QED
    BY <2>1, <2>2, Zenon DEF AckInv, MTypeOK, AnsweredOnce, Tracked, Answered
<1> QED
  BY <1>1, LoopHolds, CommandHolds, ReportHolds, LapseHolds, Zenon DEF MNext

\* The inductive invariant holds throughout.
THEOREM AckThroughout == MSpec => []AckInv
<1>1. MInit => AckInv
  BY AckInit, ConstantsAssumption, ProtocolAssumption
<1>2. AckInv /\ [MNext]_mvars => AckInv'
  BY AckStep, ConstantsAssumption, ProtocolAssumption
<1> QED
  BY <1>1, <1>2, PTL DEF MSpec

\* The statics of updateMove keep their types, the flight loop's state does, and
\* every reply is a terminal result (MTypeOK).
THEOREM AckTypeCorrect == MSpec => []MTypeOK
<1>1. AckInv => MTypeOK
  BY DEF AckInv
<1> QED
  BY <1>1, AckThroughout, PTL

---------------------------------------------------------------------------
(* The refinement *)

\* What a move has come to, read off its replies.
LEMMA Outcomes ==
  ASSUME ConstantsAssumption, AckInv, NEW s \in Moves
  PROVE  /\ s > control.mv_seq => Outcome[s] = "unissued"
         /\ s <= control.mv_seq /\ replies[s] = <<>> => Outcome[s] = "open"
         /\ \A r \in Terminals : s <= control.mv_seq /\ replies[s] = <<r>> => Outcome[s] = r
         /\ s <= control.mv_seq => Outcome[s] # "unissued"
<1>1. control.mv_seq \in Nat /\ s \in Nat
  <2>1. control.mv_seq \in MoveSeqs /\ s \in MoveSeqs
    BY Numbers, Zenon DEF AckInv, MTypeOK, TypeOK, ControlType
  <2> QED
    BY <2>1, Numbers
<1>2. Outcome[s] = IF s > control.mv_seq THEN "unissued"
                   ELSE IF replies[s] = <<>> THEN "open"
                   ELSE IF Len(replies[s]) = 1 THEN replies[s][1] ELSE "revised"
  BY Zenon DEF Outcome
<1>3. \A r : <<r>> # <<>> /\ Len(<<r>>) = 1 /\ <<r>>[1] = r
  OBVIOUS
<1>4. replies[s] = <<>> \/ \E r \in Terminals : replies[s] = <<r>>
  BY Zenon DEF AckInv, AnsweredOnce
<1>5. s > control.mv_seq <=> ~(s <= control.mv_seq)
  BY <1>1
<1>6. \A r \in Terminals : s <= control.mv_seq /\ replies[s] = <<r>> => Outcome[s] = r
  BY <1>2, <1>3, <1>5, Zenon
<1>7. \A r \in Terminals : r # "unissued"
  BY DEF Terminals
<1> QED
  BY <1>2, <1>4, <1>5, <1>6, <1>7, Zenon

LEMMA ContractInit == ASSUME ConstantsAssumption, MInit PROVE Contract!Init
<1>1. replies = [s \in Moves |-> <<>>] /\ control.mv_seq = 0
  BY DEF MInit, Init
<1>2. \A s \in Moves : s > 0
  BY DEF Moves, ConstantsAssumption
<1> QED
  BY <1>1, <1>2 DEF Outcome, Contract!Init, Contract!Moves, Moves

\* A move whose replies stay, and which is not issued now, keeps its outcome.
LEMMA OutcomeKept ==
  ASSUME NEW s \in Moves, replies'[s] = replies[s],
         s > control.mv_seq <=> s > control'.mv_seq
  PROVE  Outcome'[s] = Outcome[s]
  BY Zenon DEF Outcome

\* The outcome of an issued move after a step.
LEMMA OutcomeThen ==
  ASSUME NEW s \in Moves, ~(s > control'.mv_seq)
  PROVE  /\ replies'[s] = <<>> => Outcome'[s] = "open"
         /\ \A r : replies'[s] = <<r>> => Outcome'[s] = r
<1>1. Outcome'[s] = IF s > control'.mv_seq THEN "unissued"
                    ELSE IF replies'[s] = <<>> THEN "open"
                    ELSE IF Len(replies'[s]) = 1 THEN replies'[s][1] ELSE "revised"
  BY Zenon DEF Outcome
<1>2. \A r : <<r>> # <<>> /\ Len(<<r>>) = 1 /\ <<r>>[1] = r
  OBVIOUS
<1> QED
  BY <1>1, <1>2, Zenon

\* An outcome that changes at one move only.
LEMMA OneChange ==
  ASSUME NEW k \in Moves, NEW r, Outcome'[k] = r,
         \A s \in Moves : s # k => Outcome'[s] = Outcome[s]
  PROVE  Outcome' = [Outcome EXCEPT ![k] = r]
<1>1. /\ Outcome = [s \in Moves |-> Outcome[s]] /\ Outcome' = [s \in Moves |-> Outcome'[s]]
  BY DEF Outcome
<1>2. DOMAIN Outcome = Moves
  BY <1>1
<1> HIDE DEF Outcome
<1> QED
  BY <1>1, <1>2

\* The outcomes as a whole, from those of the moves.
LEMMA NoChange ==
  ASSUME \A s \in Moves : Outcome'[s] = Outcome[s] PROVE Outcome' = Outcome
<1>1. Outcome = [s \in Moves |-> Outcome[s]] /\ Outcome' = [s \in Moves |-> Outcome'[s]]
  BY DEF Outcome
<1> HIDE DEF Outcome
<1> QED
  BY <1>1

LEMMA TwoChanges ==
  ASSUME NEW k \in Moves, NEW m \in Moves, k # m, NEW r, NEW q, Outcome'[k] = r, Outcome'[m] = q,
         \A s \in Moves : s # k /\ s # m => Outcome'[s] = Outcome[s]
  PROVE  Outcome' = [Outcome EXCEPT ![k] = r, ![m] = q]
<1>1. /\ Outcome = [s \in Moves |-> Outcome[s]] /\ Outcome' = [s \in Moves |-> Outcome'[s]]
  BY DEF Outcome
<1>2. DOMAIN Outcome = Moves
  BY <1>1
<1> HIDE DEF Outcome
<1> QED
  BY <1>1, <1>2

\* What was issued: the moves up to mv_seq.
LEMMA IssuedMoves ==
  ASSUME ConstantsAssumption, AckInv, NEW s \in Moves
  PROVE  Contract!Issued(s) <=> s <= control.mv_seq
<1>1. control.mv_seq \in Nat /\ s \in Nat
  <2>1. control.mv_seq \in MoveSeqs /\ s \in MoveSeqs
    BY Numbers, Zenon DEF AckInv, MTypeOK, TypeOK, ControlType
  <2> QED
    BY <2>1, Numbers
<1>2. s > control.mv_seq \/ s <= control.mv_seq
  BY <1>1
<1>3. ~(s > control.mv_seq /\ s <= control.mv_seq)
  BY <1>1
<1> QED
  BY <1>2, <1>3, Outcomes, Zenon DEF Contract!Issued

\* A command issues the next move, or none.
LEMMA CommandImplements ==
  ASSUME ConstantsAssumption, ProtocolAssumption, AckInv, AckInv', MCommand
  PROVE  Contract!Next \/ Outcome' = Outcome
<1>1. Command /\ replies' = replies
  BY Zenon DEF MCommand
<1>2. IInv /\ control.mv_seq \in MoveSeqs
  BY Zenon DEF AckInv, MTypeOK, TypeOK, ControlType
<1>3. CASE control'.mv_seq = control.mv_seq
  BY <1>1, <1>3, Zenon DEF Outcome
<1>4. CASE control'.mv_seq = control.mv_seq + 1 /\ control'.mv_seq \in Moves
  <2> DEFINE k == control'.mv_seq
  <2>1. /\ k \in Moves /\ k \in Nat /\ control.mv_seq \in Nat /\ k = control.mv_seq + 1
    BY <1>2, <1>4, Numbers
  <2>2. PICK c \in Moves : c = k
    BY <2>1
  <2> HIDE DEF k
  <2>3. \A s \in Moves : s \in Nat
    BY Numbers
  <2>4. c > control.mv_seq /\ c <= control'.mv_seq /\ replies'[c] = <<>>
    <3>1. trk.seq <= control.mv_seq /\ trk.seq \in MoveSeqs /\ AnsweredOnce
      BY Zenon DEF AckInv, Tracked, MTypeOK, TrackType
    <3>2. c > trk.seq /\ c > control.mv_seq /\ c <= k
      BY <2>1, <2>2, <3>1, Numbers
    <3> QED
      BY <1>1, <2>2, <3>1, <3>2, Zenon DEF AnsweredOnce, k
  <2>5. Outcome'[c] = "open"
    <3>1. ~(c > control'.mv_seq)
      BY <2>1, <2>2, <2>3 DEF k
    <3> QED
      BY <2>4, <3>1, OutcomeThen
  <2>6. Outcome[c] = "unissued"
    BY <2>4, Outcomes
  <2>7. ASSUME NEW s \in Moves, s # c PROVE Outcome'[s] = Outcome[s]
    <3>1. s > control.mv_seq <=> s > k
      BY <2>1, <2>2, <2>3, <2>7
    <3> QED
      BY <1>1, <3>1, OutcomeKept, Zenon DEF k
  <2>8. \A n \in Moves : n < c => Contract!Issued(n)
    <3>1. \A n \in Moves : n < c => n <= control.mv_seq
      BY <2>1, <2>2, <2>3
    <3> QED
      BY <3>1, IssuedMoves
  <2>9. Contract!Issue(c)
    BY <2>5, <2>6, <2>7, <2>8, OneChange, Zenon DEF Contract!Issue, Contract!Issued, Contract!Moves, Moves
  <2> QED
    BY <2>9, Zenon DEF Contract!Next, Contract!Moves, Moves
<1> QED
  BY <1>1, <1>2, <1>3, <1>4, CommandCounts

\* A call of updateMove resolves a move, or two, or none.
LEMMA ReportImplements ==
  ASSUME ConstantsAssumption, ProtocolAssumption, AckInv, UpdateMove
  PROVE  Contract!Next \/ Outcome' = Outcome
<1>1. PICK n \in MoveSeqs, d \in Displacing, v \in Verdicts : Says(n, d, v)
  BY Reports
<1> DEFINE old == trk.seq
<1>2. control' = control
  BY Zenon DEF UpdateMove, vars
<1>3. /\ control.mv_seq \in Nat /\ old \in Nat /\ old <= control.mv_seq /\ n \in Nat
      /\ n = old \/ (n = control.mv_seq /\ n > old)
      /\ \A s \in Moves : s \in Nat
  <2>1. control.mv_seq \in MoveSeqs /\ trk.seq \in MoveSeqs /\ trk.seq <= control.mv_seq
    BY Zenon DEF AckInv, MTypeOK, TypeOK, ControlType, TrackType, Tracked
  <2> QED
    BY <1>1, <2>1, Numbers DEF Says
<1>4. n <= control.mv_seq
  BY <1>3
<1>5. \A s \in Moves : replies'[s] = IF s = old /\ d # <<>> THEN d
                                     ELSE IF s = n /\ v # <<>> THEN v ELSE replies[s]
  BY <1>1, Zenon DEF Says
<1>6. /\ d # <<>> => old \in Moves /\ n # old /\ replies[old] = <<>>
      /\ v # <<>> => n \in Moves /\ replies[n] = <<>>
  BY <1>1, Zenon DEF Says
<1> HIDE DEF old
<1>7. ASSUME NEW s \in Moves, s # old \/ d = <<>>, s # n \/ v = <<>>
      PROVE  Outcome'[s] = Outcome[s]
  <2>1. replies'[s] = replies[s]
    BY <1>5, <1>7, Zenon
  <2> QED
    BY <1>2, <2>1, OutcomeKept, Zenon
<1>8. ASSUME d # <<>>
      PROVE  \E r \in {"ACCEPTED", "CANCELLED"} :
               Outcome[old] = "open" /\ Outcome'[old] = r /\ ~Contract!Newest(old)
  <2>1. PICK r \in {"ACCEPTED", "CANCELLED"} : d = <<r>>
    BY <1>8 DEF Displacing
  <2>2. old \in Moves /\ replies[old] = <<>> /\ replies'[old] = <<r>> /\ n # old
    BY <1>5, <1>6, <1>8, <2>1, Zenon
  <2>3. Outcome[old] = "open"
    BY <1>3, <2>2, Outcomes
  <2>4. Outcome'[old] = r
    <3>1. ~(old > control'.mv_seq)
      BY <1>2, <1>3
    <3> QED
      BY <2>2, <3>1, OutcomeThen
  <2>5. ~Contract!Newest(old)
    <3>1. control.mv_seq \in Moves /\ control.mv_seq > old /\ control.mv_seq <= control.mv_seq
      <4>1. control.mv_seq \in MoveSeqs
        BY Zenon DEF AckInv, MTypeOK, TypeOK, ControlType
      <4> QED
        BY <1>3, <2>2, <4>1, Numbers
    <3>2. PICK c \in Moves : c = control.mv_seq
      BY <3>1
    <3>3. Contract!Issued(c)
      BY <3>1, <3>2, IssuedMoves
    <3> QED
      BY <3>1, <3>2, <3>3, Zenon DEF Contract!Newest, Contract!Moves, Moves
  <2> QED
    BY <2>3, <2>4, <2>5
<1>9. ASSUME v # <<>>
      PROVE  \E r \in {"ACCEPTED", "FAILED"} : Outcome[n] = "open" /\ Outcome'[n] = r
  <2>1. PICK r \in {"ACCEPTED", "FAILED"} : v = <<r>>
    BY <1>9 DEF Verdicts
  <2>2. n \in Moves /\ replies[n] = <<>> /\ replies'[n] = <<r>>
    BY <1>5, <1>6, <1>9, <2>1, Zenon
  <2>3. Outcome[n] = "open"
    BY <1>4, <2>2, Outcomes
  <2>4. Outcome'[n] = r
    <3>1. ~(n > control'.mv_seq)
      BY <1>2, <1>3
    <3> QED
      BY <2>2, <3>1, OutcomeThen
  <2> QED
    BY <2>3, <2>4
<1>10. CASE d = <<>> /\ v = <<>>
  <2>1. \A s \in Moves : Outcome'[s] = Outcome[s]
    BY <1>7, <1>10
  <2> QED
    BY <2>1, NoChange
<1>11. CASE d = <<>> /\ v # <<>>
  <2>1. PICK r \in {"ACCEPTED", "FAILED"} : Outcome[n] = "open" /\ Outcome'[n] = r
    BY <1>9, <1>11
  <2>2. n \in Moves /\ \A s \in Moves : s # n => Outcome'[s] = Outcome[s]
    BY <1>6, <1>7, <1>11
  <2>3. Outcome' = [Outcome EXCEPT ![n] = r]
    BY <2>1, <2>2, OneChange
  <2>4. Contract!Resolve(n, r) /\ r \in Contract!Terminals
    BY <2>1, <2>3 DEF Contract!Resolve, Contract!Terminals
  <2> QED
    BY <2>2, <2>4, Zenon DEF Contract!Next, Contract!Moves, Moves
<1>12. CASE d # <<>> /\ v = <<>>
  <2>1. PICK r \in {"ACCEPTED", "CANCELLED"} :
          Outcome[old] = "open" /\ Outcome'[old] = r /\ ~Contract!Newest(old)
    BY <1>8, <1>12
  <2>2. old \in Moves /\ \A s \in Moves : s # old => Outcome'[s] = Outcome[s]
    BY <1>6, <1>7, <1>12
  <2>3. Outcome' = [Outcome EXCEPT ![old] = r]
    BY <2>1, <2>2, OneChange
  <2>4. Contract!Resolve(old, r) /\ r \in Contract!Terminals
    BY <2>1, <2>3 DEF Contract!Resolve, Contract!Terminals
  <2> QED
    BY <2>2, <2>4, Zenon DEF Contract!Next, Contract!Moves, Moves
<1>13. CASE d # <<>> /\ v # <<>>
  <2>1. PICK r1 \in {"ACCEPTED", "CANCELLED"} : Outcome[old] = "open" /\ Outcome'[old] = r1
    BY <1>8, <1>13
  <2>2. PICK r2 \in {"ACCEPTED", "FAILED"} : Outcome[n] = "open" /\ Outcome'[n] = r2
    BY <1>9, <1>13
  <2>3. old \in Moves /\ n \in Moves /\ old # n /\ old < n /\ n = control.mv_seq
    BY <1>3, <1>6, <1>13
  <2>4. Outcome' = [Outcome EXCEPT ![old] = r1, ![n] = r2]
    <3>1. \A s \in Moves : s # old /\ s # n => Outcome'[s] = Outcome[s]
      BY <1>7
    <3> QED
      BY <2>1, <2>2, <2>3, <3>1, TwoChanges
  <2>5. Contract!Newest(n)
    <3>1. Contract!Issued(n) /\ \A s \in Moves : s > n => ~Contract!Issued(s)
      <4>1. \A s \in Moves : s > n => ~(s <= control.mv_seq)
        BY <1>3, <2>3
      <4> QED
        BY <1>4, <2>3, <4>1, IssuedMoves
    <3> QED
      BY <3>1, Zenon DEF Contract!Newest, Contract!Moves, Moves
  <2>6. r1 \in Contract!Terminals /\ r2 \in Contract!Terminals /\ r1 # "FAILED" /\ r2 # "CANCELLED"
    BY DEF Contract!Terminals
  <2>7. Contract!Report
    <3>1. Contract!Moves = Moves
      BY Zenon DEF Contract!Moves, Moves
    <3>2. /\ old < n /\ Outcome[old] = "open" /\ Outcome[n] = "open"
          /\ r1 # "FAILED" /\ r2 # "CANCELLED" /\ Contract!Newest(n)
          /\ Outcome' = [Outcome EXCEPT ![old] = r1, ![n] = r2]
      BY <2>1, <2>2, <2>3, <2>4, <2>5, <2>6, Zenon
    <3>3. /\ old \in Contract!Moves /\ n \in Contract!Moves
          /\ r1 \in Contract!Terminals /\ r2 \in Contract!Terminals
      BY <2>3, <2>6, <3>1, Zenon
    <3> QED
      BY <3>2, <3>3, Zenon DEF Contract!Report
  <2> QED
    BY <2>7, Zenon DEF Contract!Next
<1> QED
  BY <1>10, <1>11, <1>12, <1>13, Zenon

\* Every step of the model is a step of the contract, or none.
LEMMA ContractStep ==
  ASSUME ConstantsAssumption, ProtocolAssumption, AckInv, AckInv', [MNext]_mvars
  PROVE  [Contract!Next]_Outcome
<1>1. CASE MLoop
  <2>1. control'.mv_seq = control.mv_seq /\ replies' = replies
    BY <1>1, LoopCounts, Zenon DEF MLoop, AckInv, MTypeOK
  <2> QED
    BY <2>1, Zenon DEF Outcome
<1>2. CASE MCommand
  BY <1>2, CommandImplements
<1>3. CASE UpdateMove
  BY <1>3, ReportImplements
<1>4. CASE MLapse
  <2>1. control \in ControlType
    BY Zenon DEF AckInv, MTypeOK, TypeOK
  <2>2. control'.mv_seq = control.mv_seq /\ replies' = replies
    BY <1>4, <2>1, Zenon DEF MLapse, SticksAge, TestLapses, WritesControl, ControlType
  <2> QED
    BY <2>2, Zenon DEF Outcome
<1>5. CASE UNCHANGED mvars
  <2>1. control' = control /\ replies' = replies
    BY <1>5, Zenon DEF mvars, vars
  <2> QED
    BY <2>1, Zenon DEF Outcome
<1> QED
  BY <1>1, <1>2, <1>3, <1>4, <1>5 DEF MNext

\* updateMove implements the contract (OneTerminalResult): one terminal result
\* at most for every move, none for a move that was not issued, CANCELLED only
\* for one that was displaced; with any client, any aborts and any missed lock.
THEOREM ImplementsContract == MSpec => OneTerminalResult
<1>1. MInit => Contract!Init
  BY ContractInit, ConstantsAssumption
<1>2. AckInv /\ AckInv' /\ [MNext]_mvars => [Contract!Next]_Outcome
  BY ContractStep, ConstantsAssumption, ProtocolAssumption
<1> QED
  BY <1>1, <1>2, AckThroughout, PTL DEF MSpec, OneTerminalResult, Contract!Spec

---------------------------------------------------------------------------
(* ACCEPTED is true *)

Ended == {"completed", "cut"}

\* The sections from the snapshot to the start of a move, and from there to its publication.
Early == {"calibrate", "edges", "refuse", "detect", "enter"}
Late == {"tunes", "safety", "failsafe", "drive", "publish"}

\* The machine of movement.cpp runs for the move that was started last, and for no other.
Runs ==
  /\ st.mv_seq <= in.mv_seq /\ in.mv_seq <= control.mv_seq
  /\ \A s \in Moves : s > st.mv_seq => fate[s] = "pending"
  /\ \A s \in Moves : fate[s] = "running" <=> s = st.mv_seq /\ mach.move # "NONE"
  /\ mach.move # "NONE" => st.mv_seq # 0

\* What the loop publishes is about that move, and what is done has ended.
Published ==
  /\ control.mv_active = st.mv_was_active
  /\ control.mv_active => st.mv_seq # 0 /\ fate[st.mv_seq] # "pending"
  /\ control.mv_done_seq # 0 => fate[control.mv_done_seq] \in Ended
  /\ control.mv_active => control.mv_done_seq # st.mv_seq

\* What runs, is published or is about to start is the newest move.
Newest ==
  /\ control.mv_active \/ mach.move # "NONE" => st.mv_seq = control.mv_seq
  /\ in.mode = "AUTO" /\ in.mv_seq # st.mv_seq => in.mv_seq = control.mv_seq

NewestAnswered == \A s \in Moves : s = control.mv_seq => Answered(s)

\* Nothing runs, and nothing will before the next command.
AtRest ==
  /\ mach.move = "NONE" /\ ~control.mv_active
  /\ control.mode = "AUTO" => st.mv_seq = control.mv_seq
  /\ in.mode = "AUTO" => in.mv_seq = st.mv_seq

\* The tasks that have a move in hand, between its two locks.
InHand == {task \in Core0Tasks : core0[task] = "move"}

\* The client waits; an answer finds the machine at rest.
Waits ==
  /\ \A s \in Moves : s < control.mv_seq => Answered(s)
  /\ \A a, b \in InHand : a = b
  /\ \A task \in InHand : NewestAnswered
  /\ NewestAnswered => AtRest

\* What updateMove has seen of the move it tracks.  A move that did not start in the
\* pass after it was tracked does not start any more.
Watched(t) ==
  /\ t.seen /\ t.seq # 0 => fate[t.seq] # "pending"
  /\ Open(t) /\ t.seen /\ ~control.mv_active => mach.move = "NONE"
  /\ mach.move # "NONE" /\ ~control.mv_active => pc \in Late /\ (Open(t) => t.age <= 1)
  /\ Open(t) /\ t.age >= 1 => in.mv_seq = control.mv_seq
  /\ Open(t) /\ t.age >= 1 /\ st.mv_seq # t.seq =>
       (control.mode = "AUTO" => in.mode = "AUTO") /\ (in.mode = "AUTO" => pc \in Early)
  /\ Open(t) /\ t.age >= 2 /\ st.mv_seq # t.seq => control.mode # "AUTO" /\ in.mode # "AUTO"

\* The inductive invariant.
TrueInv == Runs /\ Published /\ Newest /\ Waits /\ Watched(trk) /\ AcceptedMeansEnded

\* The conditions: a client that waits, no abort, and no AUTO but by SROT_MOVE.
Undisturbed ==
  /\ LocksGranted /\ ~SnapMiss /\ ~Pipelined /\ ~Aborts
  /\ "AUTO" \notin GcsModes /\ LateHold >= 1

\* The disarm edge parks a brake.
AbortsOnDisarm == pc = "edges" /\ DisarmEdge

---------------------------------------------------------------------------
(* What a step does to a move *)

Kept ==
  /\ control'.mv_seq = control.mv_seq /\ control'.mv_active = control.mv_active
  /\ control'.mv_done_seq = control.mv_done_seq
  /\ st'.mv_seq = st.mv_seq /\ st'.mv_was_active = st.mv_was_active
  /\ trk' = trk /\ replies' = replies

\* It neither reads, starts nor publishes one, but may end one.
Passes ==
  /\ Kept /\ in'.mv_seq = in.mv_seq
  /\ in'.mode = "AUTO" => in.mode = "AUTO"
  /\ control'.mode = "AUTO" => control.mode = "AUTO" /\ (in.mode = "AUTO" => in'.mode = "AUTO")
  /\ \/ InHand' \subseteq InHand
     \/ NewestAnswered /\ \A a, b \in InHand' : a = b
  /\ pc \in Late => pc' \in Late
  /\ pc \in Early => pc' \in Early \/ (in.mode = "AUTO" => in.mv_seq = st.mv_seq)
  /\ \/ fate' = fate /\ (mach'.move = "NONE" <=> mach.move = "NONE")
     \/ mach'.move = "NONE" /\ \E how \in Ended : fate' = Ending(how)

Reads ==
  /\ pc = "read" /\ pc' = "calibrate" /\ in'.mode = control.mode /\ in'.mv_seq = control.mv_seq
  /\ trk' = IF Open(trk) THEN [trk EXCEPT !.age = Tick(trk.age, LateHold)] ELSE trk
  /\ UNCHANGED <<control, st, mach, core0, replies, fate>>

Starts ==
  /\ pc = "enter" /\ pc' = "tunes" /\ in.mode = "AUTO" /\ in.mv_seq # st.mv_seq
  /\ mach'.move # "NONE" /\ st'.mv_seq = in.mv_seq /\ st'.mv_was_active = st.mv_was_active
  /\ fate' = [Ending("cut") EXCEPT ![in.mv_seq] = "running"]
  /\ UNCHANGED <<control, in, core0, trk, replies>>

Publishes ==
  /\ pc = "publish" /\ pc' = "read"
  /\ control'.mode = control.mode /\ control'.mv_seq = control.mv_seq
  /\ control'.mv_active = (mach.move # "NONE") /\ st'.mv_was_active = (mach.move # "NONE")
  /\ control'.mv_done_seq = IF st.mv_was_active /\ mach.move = "NONE" THEN st.mv_seq
                            ELSE control.mv_done_seq
  /\ st'.mv_seq = st.mv_seq
  /\ UNCHANGED <<in, mach, core0, trk, replies, fate>>

Issues ==
  /\ \E task \in InHand : InHand' = InHand \ {task}
  /\ control'.mode = "AUTO" /\ control'.mv_seq = control.mv_seq + 1 /\ control'.mv_seq \in Moves
  /\ control'.mv_active = control.mv_active /\ control'.mv_done_seq = control.mv_done_seq
  /\ UNCHANGED <<pc, in, st, mach, trk, replies, fate>>

LEMMA MoveUpdateRests ==
  ASSUME mach \in MachType, mach.move = "NONE", NEW m \in MoveUpdate(mach)
  PROVE  m.move = "NONE"
BY Zenon DEF MoveUpdate

LEMMA HandsKept == ASSUME core0' = core0 PROVE InHand' = InHand
  BY DEF InHand

\* Each section, and what the others do to a move.
LEMMA LoopDoes ==
  ASSUME ConstantsAssumption, Undisturbed, TypeOK, MLoop, ~AbortsOnDisarm
  PROVE  Reads \/ Starts \/ Publishes \/ Passes
<1>1. /\ Loop /\ RecordFate /\ replies' = replies /\ "safety" \notin acted'
      /\ trk' = IF pc = "read" /\ Open(trk)
                  THEN [trk EXCEPT !.age = Tick(trk.age, LateHold)] ELSE trk
  BY Zenon DEF MLoop, Undisturbed
<1>2. /\ control \in ControlType /\ in \in LoopInType /\ st \in LatchType /\ mach \in MachType
  BY Zenon DEF TypeOK
<1>3. \A l \in LockOutcome : l
  BY Granted DEF Undisturbed
<1>4. CASE ReadInputs
  <2>1. pc = "read" /\ pc' = "calibrate" /\ UNCHANGED <<control, st, mach, core0>>
    BY <1>4, Zenon DEF ReadInputs
  <2>2. in'.mode = control.mode /\ in'.mv_seq = control.mv_seq
    BY <1>3, <1>4, SMT DEF ReadInputs, Locked
  <2>3. fate' = fate
    BY <1>1, <2>1, Zenon DEF RecordFate
  <2> QED
    BY <1>1, <2>1, <2>2, <2>3, Zenon DEF Reads
\* A section with nothing to do for the moves.
<1>5. ASSUME pc # "read", core0' = core0, st'.mv_seq = st.mv_seq,
             st'.mv_was_active = st.mv_was_active,
             mach'.move = mach.move, in'.mv_seq = in.mv_seq, control'.mv_seq = control.mv_seq,
             control'.mv_active = control.mv_active, control'.mv_done_seq = control.mv_done_seq,
             in'.mode = "AUTO" => in.mode = "AUTO",
             control'.mode = "AUTO" => control.mode = "AUTO" /\ (in.mode = "AUTO" => in'.mode = "AUTO"),
             pc \in Late => pc' \in Late, pc \in Early => pc' \in Early
      PROVE  Passes
  <2>1. fate' = fate
    BY <1>1, <1>5, Zenon DEF RecordFate
  <2> QED
    BY <1>1, <1>5, <2>1, HandsKept, Zenon DEF Passes, Kept
<1>6. CASE Calibrate
  BY <1>5, <1>6 DEF Calibrate, Early, Late
<1>7. CASE ArmStateEdges
  <2>1. ~DisarmEdge
    BY <1>7, Zenon DEF ArmStateEdges, AbortsOnDisarm
  <2>2. /\ pc = "edges" /\ pc' = "refuse" /\ core0' = core0 /\ mach' = mach /\ control' = control
        /\ st' = [st EXCEPT !.armed = in.armed]
        /\ in' = in \/ in' = [in EXCEPT !.test = "off"]
    BY <1>7, <2>1, Zenon DEF ArmStateEdges
  <2>3. /\ st'.mv_seq = st.mv_seq /\ st'.mv_was_active = st.mv_was_active
        /\ in'.mv_seq = in.mv_seq /\ in'.mode = in.mode
    BY <1>2, <2>2, Zenon DEF LatchType, LoopInType
  <2> QED
    BY <1>5, <2>2, <2>3 DEF Early, Late
<1>8. CASE RefuseDepthModes
  <2>1. /\ pc = "refuse" /\ pc' = "detect" /\ core0' = core0 /\ mach' = mach /\ st' = st
        /\ \/ in' = in /\ control' = control
           \/ /\ in' = [in EXCEPT !.mode = "STABILIZE"]
              /\ control' = [control EXCEPT !.mode = "STABILIZE"]
    BY <1>3, <1>8, Zenon DEF RefuseDepthModes, Locked
  <2>2. /\ in'.mv_seq = in.mv_seq /\ control'.mv_seq = control.mv_seq
        /\ control'.mv_active = control.mv_active /\ control'.mv_done_seq = control.mv_done_seq
        /\ \/ in'.mode = in.mode /\ control'.mode = control.mode
           \/ in'.mode = "STABILIZE" /\ control'.mode = "STABILIZE"
    BY <1>2, <2>1, Zenon DEF ControlType, LoopInType
  <2> QED
    BY <1>5, <2>1, <2>2 DEF Early, Late
<1>9. CASE MotorDetectDone
  <2>1. /\ pc = "detect" /\ pc' = "enter" /\ core0' = core0 /\ mach' = mach /\ st' = st
        /\ \/ in' = in /\ control' = control
           \/ /\ in' = [in EXCEPT !.mode = "STABILIZE"]
              /\ control' = [control EXCEPT !.mode = "STABILIZE"]
           \/ in' = DetectHandsOver(in) /\ control' = DetectHandsOver(control)
    BY <1>3, <1>9, Zenon DEF MotorDetectDone, Locked
  <2>2. /\ in'.mv_seq = in.mv_seq /\ control'.mv_seq = control.mv_seq
        /\ control'.mv_active = control.mv_active /\ control'.mv_done_seq = control.mv_done_seq
        /\ \/ in'.mode = in.mode /\ control'.mode = control.mode
           \/ in'.mode = "STABILIZE" /\ control'.mode = "STABILIZE"
           \/ in'.mode = "MANUAL" /\ control'.mode = "MANUAL"
    BY <1>2, <2>1, Zenon DEF ControlType, LoopInType, DetectHandsOver
  <2> QED
    BY <1>5, <2>1, <2>2 DEF Early, Late
<1>10. CASE EnterMode
  <2>1. /\ pc = "enter" /\ pc' = "tunes" /\ UNCHANGED <<control, in, core0>>
    BY <1>10, Zenon DEF EnterMode
  <2>2. trk' = trk
    BY <1>1, <2>1, Zenon
  <2> DEFINE entered == IF in.mode # st.mode THEN EnterMachines(mach) ELSE mach
  <2>3. entered.move \in {mach.move, "NONE"} /\ entered \in MachType
    BY <1>2, Zenon DEF EnterMachines, MachType, Phases
  <2>4. CASE in.mode = "AUTO" /\ in.mv_seq # st.mv_seq
    <3>1. PICK phase \in {"RUN", "STYLE", "BRAKE"} :
            /\ mach' = StartMove(entered, phase)
            /\ st' = [st EXCEPT !.mode = in.mode, !.mv_seq = in.mv_seq]
      BY <1>10, <2>4, Zenon DEF EnterMode
    <3>2. st'.mv_seq = in.mv_seq /\ st'.mv_was_active = st.mv_was_active
      BY <1>2, <3>1, Zenon DEF LatchType
    <3>3. mach'.move = phase
      BY <2>3, <3>1, Zenon DEF StartMove, MachType
    <3>4. fate' = [Ending("cut") EXCEPT ![in.mv_seq] = "running"]
      BY <1>1, <2>4, <3>2, Zenon DEF RecordFate
    <3> QED
      BY <1>1, <2>1, <2>2, <2>4, <3>2, <3>3, <3>4 DEF Starts
  <2>5. CASE ~(in.mode = "AUTO" /\ in.mv_seq # st.mv_seq)
    <3>1. mach' = entered /\ st' = [st EXCEPT !.mode = in.mode]
      BY <1>10, <2>5, Zenon DEF EnterMode
    <3>2. st'.mv_seq = st.mv_seq /\ st'.mv_was_active = st.mv_was_active
      BY <1>2, <3>1, Zenon DEF LatchType
    <3>3. \/ fate' = fate /\ (mach'.move = "NONE" <=> mach.move = "NONE")
          \/ mach'.move = "NONE" /\ \E how \in Ended : fate' = Ending(how)
      <4>1. CASE mach'.move = mach.move
        BY <1>1, <3>2, <4>1, Zenon DEF RecordFate
      <4>2. CASE mach'.move # mach.move
        BY <1>1, <2>1, <2>3, <3>1, <3>2, <4>2, Zenon DEF RecordFate, Ended
      <4> QED
        BY <4>1, <4>2
    <3>4. pc \notin Late /\ (in.mode = "AUTO" => in.mv_seq = st.mv_seq)
      BY <2>1, <2>5 DEF Late
    <3> QED
      BY <1>1, <2>1, <2>2, <3>2, <3>3, <3>4, HandsKept, Zenon DEF Passes, Kept
  <2> QED
    BY <2>4, <2>5
<1>11. CASE Tunes
  <2>1. /\ pc = "tunes" /\ pc' = "safety" /\ core0' = core0
        /\ st' = [st EXCEPT !.autotune = AutotuneWanted, !.mtune = MotorTuneWanted]
        /\ \/ in' = in /\ control' = control
           \/ /\ in' = [in EXCEPT !.mode = "AUTOTUNE"]
              /\ control' = [control EXCEPT !.mode = "AUTOTUNE"]
    BY <1>3, <1>11, Zenon DEF Tunes, Locked
  <2>2. /\ in'.mv_seq = in.mv_seq /\ control'.mv_seq = control.mv_seq
        /\ control'.mv_active = control.mv_active /\ control'.mv_done_seq = control.mv_done_seq
        /\ \/ in'.mode = in.mode /\ control'.mode = control.mode
           \/ in'.mode = "AUTOTUNE" /\ control'.mode = "AUTOTUNE"
    BY <1>2, <2>1, Zenon DEF ControlType, LoopInType
  <2>3. st'.mv_seq = st.mv_seq /\ st'.mv_was_active = st.mv_was_active
    BY <1>2, <2>1, Zenon DEF LatchType
  <2>4. mach'.move = mach.move
    BY <1>2, <1>11, Zenon DEF Tunes, MachType
  <2> QED
    BY <1>5, <2>1, <2>2, <2>3, <2>4 DEF Early, Late
<1>12. CASE SafetyMonitor
  <2>1. pc = "safety" /\ pc' = "failsafe" /\ UNCHANGED <<control, in, st, mach, core0>>
    BY <1>1, <1>12, Zenon DEF SafetyMonitor
  <2> QED
    BY <1>5, <2>1 DEF Early, Late
<1>13. CASE Failsafe
  <2>1. pc = "failsafe" /\ pc' = "drive" /\ core0' = core0 /\ mach' = mach
    BY <1>13, Zenon DEF Failsafe
  <2>2. \/ in' = in /\ control' = control
        \/ /\ in' = [in EXCEPT !.mode = "SURFACE"]
           /\ control' = [control EXCEPT !.mode = "SURFACE"]
        \/ /\ in' = [in EXCEPT !.armed = FALSE]
           /\ control' = [control EXCEPT !.armed = FALSE]
    BY <1>3, <1>13, Zenon DEF Failsafe, ForceSurface, SurfaceAndDisarm, Locked
  <2>3. /\ in'.mv_seq = in.mv_seq /\ control'.mv_seq = control.mv_seq
        /\ control'.mv_active = control.mv_active /\ control'.mv_done_seq = control.mv_done_seq
        /\ \/ in'.mode = in.mode /\ control'.mode = control.mode
           \/ in'.mode = "SURFACE" /\ control'.mode = "SURFACE"
    BY <1>2, <2>2, Zenon DEF ControlType, LoopInType
  <2>4. st'.mv_seq = st.mv_seq /\ st'.mv_was_active = st.mv_was_active
    BY <1>2, <1>13, Zenon DEF Failsafe, ForceSurface, SurfaceAndDisarm, LatchType
  <2> QED
    BY <1>5, <2>1, <2>3, <2>4 DEF Early, Late
<1>14. CASE Drive
  <2>1. /\ pc = "drive" /\ pc' = "publish" /\ core0' = core0 /\ st' = st
        /\ in' = in \/ in' = [in EXCEPT !.test = "off"]
        /\ DriveTest \/ DriveMotorTune \/ DriveAutotune \/ DriveStunt \/ DrivePattern \/ DriveMode
    BY <1>14, Zenon DEF Drive
  <2>2. in'.mv_seq = in.mv_seq /\ in'.mode = in.mode
    BY <1>2, <2>1, Zenon DEF LoopInType
  <2>3. /\ control'.mv_seq = control.mv_seq
        /\ control'.mv_active = control.mv_active /\ control'.mv_done_seq = control.mv_done_seq
        /\ control'.mode \in {control.mode, "STABILIZE"}
    <3>1. CASE control' = control
      BY <3>1
    <3>2. CASE DriveMotorTune /\ control' # control
      BY <1>2, <3>2, Zenon DEF DriveMotorTune, TuneFinished, ControlType
    <3>3. CASE DriveAutotune /\ control' # control
      <4>1. PICK mode \in {"STABILIZE", control.mode} :
              control' = [TuneFinished(control, mode) EXCEPT !.autotune = FALSE]
        BY <3>3, Zenon DEF DriveAutotune
      <4> QED
        BY <1>2, <4>1, Zenon DEF TuneFinished, ControlType
    <3>4. CASE control' = [control EXCEPT !.mode = "STABILIZE"]
      BY <1>2, <3>4, Zenon DEF ControlType
    <3> QED
      BY <2>1, <3>1, <3>2, <3>3, <3>4, Zenon DEF DriveTest, DriveStunt, DrivePattern, DriveMode, Locked
  <2>4. mach.move = "NONE" => mach'.move = "NONE"
    <3>1. CASE DriveMode
      BY <1>2, <3>1, MoveUpdateRests, Zenon DEF DriveMode
    <3>2. CASE ~DriveMode
      BY <1>2, <2>1, <3>2, Zenon DEF DriveTest, DriveMotorTune, DriveAutotune, DriveStunt, DrivePattern, MachType
    <3> QED
      BY <3>1, <3>2
  <2>5. \/ fate' = fate /\ (mach'.move = "NONE" <=> mach.move = "NONE")
        \/ mach'.move = "NONE" /\ \E how \in Ended : fate' = Ending(how)
    <3>1. st'.mv_seq = st.mv_seq
      BY <2>1
    <3>2. CASE mach'.move = mach.move \/ mach'.move # "NONE"
      BY <1>1, <2>1, <2>4, <3>1, <3>2, Zenon DEF RecordFate
    <3>3. CASE mach'.move # mach.move /\ mach'.move = "NONE"
      BY <1>1, <2>1, <3>1, <3>3, Zenon DEF RecordFate, Ended
    <3> QED
      BY <3>2, <3>3
  <2>6. trk' = trk /\ pc' \in Late /\ pc \notin Early
    BY <1>1, <2>1 DEF Late, Early
  <2>7. Kept
    BY <1>1, <2>1, <2>3, <2>6, Zenon DEF Kept
  <2>8. control'.mode = "AUTO" => control.mode = "AUTO"
    BY <2>3
  <2> QED
    BY <1>1, <2>1, <2>2, <2>5, <2>6, <2>7, <2>8, HandsKept, Zenon DEF Passes
<1>15. CASE PublishMove
  <2>1. /\ pc = "publish" /\ pc' = "read" /\ UNCHANGED <<in, mach, core0>>
        /\ control' = [control EXCEPT
             !.mv_active = (mach.move # "NONE"),
             !.mv_done_seq = IF st.mv_was_active /\ ~(mach.move # "NONE")
                               THEN st.mv_seq ELSE control.mv_done_seq]
        /\ st' = [st EXCEPT !.mv_was_active = (mach.move # "NONE")]
    BY <1>15, Zenon DEF PublishMove, Undisturbed, LocksGranted
  <2>2. /\ control'.mode = control.mode /\ control'.mv_seq = control.mv_seq
        /\ control'.mv_active = (mach.move # "NONE")
        /\ control'.mv_done_seq = IF st.mv_was_active /\ mach.move = "NONE" THEN st.mv_seq
                                  ELSE control.mv_done_seq
    BY <1>2, <2>1, Zenon DEF ControlType
  <2>3. st'.mv_was_active = (mach.move # "NONE") /\ st'.mv_seq = st.mv_seq
    BY <1>2, <2>1, Zenon DEF LatchType
  <2>4. trk' = trk /\ fate' = fate
    BY <1>1, <2>1, <2>3, Zenon DEF RecordFate
  <2> QED
    BY <1>1, <2>1, <2>2, <2>3, <2>4, Zenon DEF Publishes
<1> QED
  BY <1>1, <1>4, <1>6, <1>7, <1>8, <1>9, <1>10, <1>11, <1>12, <1>13, <1>14, <1>15, Zenon DEF Loop

\* A command issues a move once the last one is answered, or does nothing to the moves.
LEMMA CommandDoes ==
  ASSUME ConstantsAssumption, Undisturbed, AckInv, MCommand \/ MLapse
  PROVE  Issues \/ Passes
<1>1. control \in ControlType /\ in \in LoopInType /\ IInv
  BY Zenon DEF AckInv, MTypeOK, TypeOK
<1>2. trk' = trk /\ replies' = replies /\ fate' = fate
  BY Zenon DEF MCommand, MLapse
<1>3. ASSUME pc' = pc, st' = st, mach' = mach,
             in' = in \/ \E t : in' = [in EXCEPT !.test = t],
             control' = control \/ (/\ control'.mv_seq = control.mv_seq
                                    /\ control'.mv_active = control.mv_active
                                    /\ control'.mv_done_seq = control.mv_done_seq
                                    /\ control'.mode = "AUTO" => control.mode = "AUTO"),
             InHand' \subseteq InHand \/ (NewestAnswered /\ \A a, b \in InHand' : a = b)
      PROVE  Passes
  <2>1. in'.mv_seq = in.mv_seq /\ in'.mode = in.mode
    BY <1>1, <1>3, Zenon DEF LoopInType
  <2> QED
    BY <1>2, <1>3, <2>1, Zenon DEF Passes, Kept
<1>4. CASE MLapse
  <2>1. CASE SticksAge
    BY <1>1, <1>3, <2>1, HandsKept, Zenon DEF SticksAge, WritesControl, ControlType
  <2>2. CASE TestLapses
    BY <1>3, <2>2, HandsKept, Zenon DEF TestLapses
  <2> QED
    BY <1>4, <2>1, <2>2, Zenon DEF MLapse
<1>5. CASE MCommand
  <2>1. Command /\ pc' = pc /\ st' = st /\ mach' = mach /\ in' = in
    BY <1>5, CommandFrame, Zenon DEF MCommand
  <2>2. ASSUME NEW task \in Core0Tasks, MoveIssue(task) PROVE Issues
    <3>1. /\ core0[task] = "move" /\ core0'[task] = "idle"
          /\ \A other \in Core0Tasks : other # task => core0'[other] = core0[other]
          /\ control' = [control EXCEPT !.mode = "AUTO", !.mv_seq = control.mv_seq + 1]
      BY <1>1, <2>2, TurnsOwn, Zenon DEF MoveIssue, IInv, TypeOK
    <3>2. task \in InHand /\ InHand' = InHand \ {task}
      BY <3>1 DEF InHand
    <3>3. /\ control'.mode = "AUTO" /\ control'.mv_seq = control.mv_seq + 1
          /\ control'.mv_active = control.mv_active /\ control'.mv_done_seq = control.mv_done_seq
      BY <1>1, <3>1, Zenon DEF ControlType
    <3>4. control.mv_seq \in Nat
      BY <1>1, Numbers, Zenon DEF ControlType
    <3>5. control'.mv_seq \in Moves
      BY <1>1, <2>1, <3>3, <3>4, CommandCounts
    <3> QED
      BY <1>2, <2>1, <3>2, <3>3, <3>5, Zenon DEF Issues
  <2>3. ASSUME NEW task \in Core0Tasks, MoveCheck(task) PROVE Passes
    <3>1. NewestAnswered /\ \A other \in Core0Tasks : core0[other] # "move"
      BY <1>5, <2>3, Zenon DEF MCommand, ClientReady, Undisturbed, NewestAnswered
    <3>2. \A other \in Core0Tasks : other # task => core0'[other] = core0[other]
      BY <1>1, <2>3, TurnsOwn, Zenon DEF MoveCheck, IInv, TypeOK
    <3>3. \A a, b \in InHand' : a = b
      BY <3>1, <3>2, Zenon DEF InHand
    <3> QED
      BY <1>3, <2>1, <2>3, <3>1, <3>3, Zenon DEF MoveCheck
  <2>4. ASSUME NEW task \in Core0Tasks,
               MoveRejected(task) \/ MotorTestCheck(task) \/ MotorTestSet(task)
        PROVE  Passes
    <3>1. control' = control
      BY <2>4, Zenon DEF MoveRejected, MotorTestCheck, MotorTestSet
    <3>2. \A other \in Core0Tasks : core0'[other] = "move" => core0[other] = "move"
      BY <1>1, <2>4, TurnsOwn, Zenon DEF MoveRejected, MotorTestCheck, MotorTestSet, IInv, TypeOK
    <3>3. InHand' \subseteq InHand
      BY <3>2, Zenon DEF InHand
    <3> QED
      BY <1>3, <2>1, <3>1, <3>3, Zenon
  <2>5. ASSUME \/ ArmCommand \/ Disarm \/ Stunt \/ Pattern \/ Autotune \/ ManualControl
               \/ StartCalibration \/ \E m \in GcsModes : SetMode(m)
        PROVE  Passes
    <3>1. core0' = core0
      BY <2>5, Zenon DEF ArmCommand, WritesControl, Arm, JsArm, Disarm, SetMode, Stunt, Pattern,
         Autotune, ManualControl, StartCalibration
    <3>2. PICK m : m \in {"STUNT", "PATTERN"} \cup GcsModes /\
            \/ control' = control
            \/ control' = [control EXCEPT !.mode = m]
            \/ \E b : control' = [control EXCEPT !.armed = b]
            \/ control' = [control EXCEPT !.autotune = TRUE]
            \/ control' = [control EXCEPT !.stick = TRUE]
      BY <2>5, Zenon DEF ArmCommand, WritesControl, Arm, JsArm, Disarm, SetMode, Stunt, Pattern,
         Autotune, ManualControl, StartCalibration
    <3>3. m # "AUTO"
      BY <3>2 DEF Undisturbed
    <3>4. control' = control \/ (/\ control'.mv_seq = control.mv_seq
                                 /\ control'.mv_active = control.mv_active
                                 /\ control'.mv_done_seq = control.mv_done_seq
                                 /\ control'.mode = "AUTO" => control.mode = "AUTO")
      BY <1>1, <3>2, <3>3, Zenon DEF ControlType
    <3>5. InHand' \subseteq InHand
      BY <3>1, HandsKept, Zenon
    <3> QED
      BY <1>3, <2>1, <3>4, <3>5, Zenon
  <2> QED
    BY <2>1, <2>2, <2>3, <2>4, <2>5, Zenon DEF Command, ModeCommand, Finish
<1> QED
  BY <1>4, <1>5

---------------------------------------------------------------------------
(* The steps keep the invariant *)

\* The facts of type that the steps below need.
LEMMA MoveTypes ==
  ASSUME ConstantsAssumption, AckInv
  PROVE  /\ control.mv_seq \in Nat /\ in.mv_seq \in Nat /\ st.mv_seq \in Nat
         /\ st.mv_seq # 0 <=> st.mv_seq \in Moves
         /\ in.mv_seq # 0 <=> in.mv_seq \in Moves
         /\ control.mv_seq # 0 <=> control.mv_seq \in Moves
         /\ control.mv_done_seq # 0 <=> control.mv_done_seq \in Moves
         /\ trk.seq # 0 <=> trk.seq \in Moves
         /\ trk.seq \in Nat /\ trk.age \in Nat /\ trk \in TrackType
         /\ \A s \in Moves : s \in Nat
         /\ fate \in [Moves -> Fates]
         /\ control.mv_active \in BOOLEAN /\ st.mv_was_active \in BOOLEAN
<1>1. /\ control \in ControlType /\ in \in LoopInType /\ st \in LatchType
      /\ trk \in TrackType /\ fate \in [Moves -> Fates]
  BY Zenon DEF AckInv, MTypeOK, TypeOK
<1>2. /\ control.mv_seq \in MoveSeqs /\ in.mv_seq \in MoveSeqs /\ st.mv_seq \in MoveSeqs
      /\ control.mv_done_seq \in MoveSeqs /\ trk.seq \in MoveSeqs
      /\ trk.age \in 0 .. LateHold + 1
      /\ control.mv_active \in BOOLEAN /\ st.mv_was_active \in BOOLEAN
  BY <1>1, Zenon DEF ControlType, LoopInType, LatchType, TrackType
<1> QED
  BY <1>1, <1>2, Numbers

\* An open move is the newest, since the others have been answered.
LEMMA OpenIsNewest ==
  ASSUME ConstantsAssumption, AckInv, Waits
  PROVE  Open(trk) => trk.seq = control.mv_seq /\ ~NewestAnswered
<1> SUFFICES ASSUME Open(trk) PROVE trk.seq = control.mv_seq /\ ~NewestAnswered
  OBVIOUS
<1>1. trk.seq \in Moves /\ ~Answered(trk.seq) /\ trk.seq <= control.mv_seq
  BY MoveTypes, Zenon DEF Open, AckInv, Tracked
<1>2. ~(trk.seq < control.mv_seq)
  BY <1>1, Zenon DEF Waits
<1>3. trk.seq = control.mv_seq
  BY <1>1, <1>2, MoveTypes
<1> QED
  BY <1>1, <1>3, Zenon DEF NewestAnswered

\* Fates that only change from running to ended.
LEMMA FatesEnd ==
  ASSUME ConstantsAssumption, AckInv, TrueInv, Passes
  PROVE  /\ Runs'
         /\ \A s \in Moves : fate[s] \in Ended => fate'[s] \in Ended
         /\ \A s \in Moves : fate[s] # "pending" => fate'[s] # "pending"
         /\ mach.move = "NONE" => mach'.move = "NONE"
<1>1. Kept /\ in'.mv_seq = in.mv_seq /\ Runs
  BY Zenon DEF Passes, TrueInv
<1>2. CASE fate' = fate /\ (mach'.move = "NONE" <=> mach.move = "NONE")
  BY <1>1, <1>2, Zenon DEF Runs, Kept
<1>3. CASE mach'.move = "NONE" /\ \E how \in Ended : fate' = Ending(how)
  <2>1. PICK how \in Ended : fate' = Ending(how)
    BY <1>3
  <2>2. how # "running" /\ how # "pending"
    BY DEF Ended
  <2>3. \A s \in Moves : fate'[s] = IF fate[s] = "running" THEN how ELSE fate[s]
    BY <2>1, Zenon DEF Ending
  <2>4. \A s \in Moves : fate'[s] # "running"
    BY <2>2, <2>3, Zenon
  <2>5. \A s \in Moves : fate[s] # "pending" => fate'[s] # "pending"
    BY <2>2, <2>3, Zenon
  <2>6. \A s \in Moves : fate[s] \in Ended => fate'[s] \in Ended
    BY <2>3, Zenon
  <2>7. \A s \in Moves : s > st.mv_seq => fate'[s] = "pending"
    <3>1. \A s \in Moves : s > st.mv_seq => fate[s] = "pending"
      BY <1>1, Zenon DEF Runs
    <3>2. \A s \in Moves : fate[s] = "pending" => fate'[s] = "pending"
      BY <2>3
    <3> QED
      BY <3>1, <3>2, Zenon
  <2>8. Runs'
    BY <1>1, <1>3, <2>4, <2>7, Zenon DEF Runs, Kept
  <2> QED
    BY <1>3, <2>5, <2>6, <2>8
<1> QED
  BY <1>2, <1>3, Zenon DEF Passes

LEMMA PassesHolds ==
  ASSUME ConstantsAssumption, AckInv, TrueInv, Passes PROVE TrueInv'
<1>1. Kept /\ in'.mv_seq = in.mv_seq /\ Runs /\ Published /\ Newest /\ Waits /\ Watched(trk)
      /\ AcceptedMeansEnded
  BY Zenon DEF Passes, TrueInv
<1>2. /\ Runs'
      /\ \A s \in Moves : fate[s] \in Ended => fate'[s] \in Ended
      /\ \A s \in Moves : fate[s] # "pending" => fate'[s] # "pending"
      /\ mach.move = "NONE" => mach'.move = "NONE"
  BY FatesEnd
<1>3. Published'
  BY <1>1, <1>2, MoveTypes, Zenon DEF Published, Kept
<1>4. in'.mode = "AUTO" => in.mode = "AUTO"
  BY Zenon DEF Passes
<1>5. Newest'
  BY <1>1, <1>2, <1>4, Zenon DEF Newest, Kept
<1>6. \A s : Answered(s)' <=> Answered(s)
  BY <1>1, Zenon DEF Answered, Kept
<1>7. NewestAnswered' <=> NewestAnswered
  BY <1>1, <1>6, Zenon DEF NewestAnswered, Kept
<1>8. AtRest => AtRest'
  BY <1>1, <1>2, <1>4, Zenon DEF AtRest, Kept, Passes
<1>9. Waits'
  BY <1>1, <1>6, <1>7, <1>8, Zenon DEF Waits, Kept, Passes
<1>10. Watched(trk)'
  <2>1. /\ trk' = trk /\ control'.mv_active = control.mv_active
        /\ control'.mv_seq = control.mv_seq /\ st'.mv_seq = st.mv_seq
        /\ Open(trk)' <=> Open(trk)
    BY <1>1, Zenon DEF Kept, Open
  <2>2. /\ trk'.seen /\ trk'.seq # 0 => fate'[trk'.seq] # "pending"
        /\ Open(trk)' /\ trk'.seen /\ ~control'.mv_active => mach'.move = "NONE"
        /\ Open(trk)' /\ trk'.age >= 1 => in'.mv_seq = control'.mv_seq
    BY <1>1, <1>2, <2>1, MoveTypes, Zenon DEF Watched
  <2>3. mach'.move # "NONE" /\ ~control'.mv_active => pc' \in Late /\ (Open(trk)' => trk'.age <= 1)
    BY <1>1, <1>2, <2>1, Zenon DEF Watched, Passes
  <2>4. ASSUME Open(trk), trk.age >= 1, st.mv_seq # trk.seq
        PROVE  /\ control'.mode = "AUTO" => in'.mode = "AUTO"
               /\ in'.mode = "AUTO" => pc' \in Early
    <3>1. /\ control.mode = "AUTO" => in.mode = "AUTO"
          /\ in.mode = "AUTO" => pc \in Early
          /\ in.mv_seq = control.mv_seq /\ trk.seq = control.mv_seq
      BY <1>1, <2>4, OpenIsNewest, Zenon DEF Watched
    <3> QED
      BY <2>4, <3>1, Zenon DEF Passes
  <2>5. Open(trk)' /\ trk'.age >= 2 /\ st'.mv_seq # trk'.seq =>
          control'.mode # "AUTO" /\ in'.mode # "AUTO"
    BY <1>1, <1>4, <2>1, Zenon DEF Watched, Passes
  <2> QED
    BY <2>1, <2>2, <2>3, <2>4, <2>5, Zenon DEF Watched
<1>11. AcceptedMeansEnded'
  BY <1>1, <1>2, Zenon DEF AcceptedMeansEnded, Ended, Answered, Kept
<1> QED
  BY <1>2, <1>3, <1>5, <1>9, <1>10, <1>11 DEF TrueInv

LEMMA ReadsHolds ==
  ASSUME ConstantsAssumption, ProtocolAssumption, AckInv, TrueInv, Reads PROVE TrueInv'
<1>1. /\ pc = "read" /\ pc' = "calibrate" /\ in'.mode = control.mode /\ in'.mv_seq = control.mv_seq
      /\ control' = control /\ st' = st /\ mach' = mach /\ core0' = core0 /\ replies' = replies
      /\ fate' = fate
      /\ Runs /\ Published /\ Newest /\ Waits /\ Watched(trk) /\ AcceptedMeansEnded
  BY Zenon DEF Reads, TrueInv
<1>2. Runs'
  <2>1. st.mv_seq <= control.mv_seq /\ control.mv_seq <= control.mv_seq
    BY <1>1, MoveTypes DEF Runs
  <2> QED
    BY <1>1, <2>1, Zenon DEF Runs
<1>3. Published' /\ Newest' /\ AcceptedMeansEnded'
  BY <1>1, Zenon DEF Published, Newest, AcceptedMeansEnded, Answered
<1>4. Waits'
  BY <1>1, HandsKept, Zenon DEF Waits, NewestAnswered, Answered, AtRest
<1>5. /\ trk'.seq = trk.seq /\ trk'.seen = trk.seen /\ trk'.resolved = trk.resolved
      /\ trk'.age = IF Open(trk) THEN Tick(trk.age, LateHold) ELSE trk.age
  BY MoveTypes, Zenon DEF Reads, TrackType
<1>6. Open(trk)' <=> Open(trk)
  BY <1>5, Zenon DEF Open
<1>7. mach.move # "NONE" => control.mv_active
  BY <1>1 DEF Watched, Late
<1>8. ASSUME Open(trk), trk'.age >= 2, st.mv_seq # trk.seq PROVE control.mode # "AUTO"
  <2>1. trk.age >= 1
    BY <1>5, <1>8, MoveTypes DEF Tick
  <2> QED
    BY <1>1, <1>8, <2>1 DEF Watched, Early
<1>9. Watched(trk)'
  <2>1. "calibrate" \in Early
    BY DEF Early
  <2> QED
    BY <1>1, <1>5, <1>6, <1>7, <1>8, <2>1, Zenon DEF Watched
<1> QED
  BY <1>2, <1>3, <1>4, <1>9 DEF TrueInv

LEMMA StartsHolds ==
  ASSUME ConstantsAssumption, AckInv, TrueInv, Starts PROVE TrueInv'
<1>1. /\ pc = "enter" /\ pc' = "tunes" /\ in.mode = "AUTO" /\ in.mv_seq # st.mv_seq
      /\ mach'.move # "NONE" /\ st'.mv_seq = in.mv_seq /\ st'.mv_was_active = st.mv_was_active
      /\ fate' = [Ending("cut") EXCEPT ![in.mv_seq] = "running"]
      /\ control' = control /\ in' = in /\ core0' = core0 /\ trk' = trk /\ replies' = replies
      /\ Runs /\ Published /\ Newest /\ Waits /\ Watched(trk) /\ AcceptedMeansEnded
  BY Zenon DEF Starts, TrueInv
<1> DEFINE new == in.mv_seq
<1>2. new \in Moves /\ new > st.mv_seq /\ new = control.mv_seq /\ fate[new] = "pending"
  BY <1>1, MoveTypes DEF Runs, Newest
<1>3. ~NewestAnswered
  BY <1>1, Zenon DEF Waits, AtRest
<1>4. ~control.mv_active
  BY <1>1, <1>2, Zenon DEF Newest
<1>5. \A s \in Moves : fate'[s] = IF s = new THEN "running"
                                  ELSE IF fate[s] = "running" THEN "cut" ELSE fate[s]
  BY <1>1, Zenon DEF Ending
<1>6. \A s \in Moves : /\ fate[s] \in Ended => fate'[s] \in Ended
                       /\ fate[s] # "pending" => fate'[s] # "pending"
  <2>1. "pending" \notin Ended /\ "running" \notin Ended /\ "cut" # "pending" /\ "running" # "pending"
    BY DEF Ended
  <2> QED
    BY <1>2, <1>5, <2>1, Zenon
<1>7. Runs'
  <2>1. \A s \in Moves : s > new => fate'[s] = "pending"
    <3>1. \A s \in Moves : s > new => s # new /\ s > st.mv_seq
      BY <1>2, MoveTypes
    <3>2. \A s \in Moves : s > new => fate[s] = "pending"
      BY <1>1, <3>1, Zenon DEF Runs
    <3> QED
      BY <1>5, <3>1, <3>2
  <2>2. \A s \in Moves : fate'[s] = "running" <=> s = new
    BY <1>5
  <2>3. new <= new /\ new # 0 /\ new <= control.mv_seq
    BY <1>2, MoveTypes
  <2> QED
    BY <1>1, <2>1, <2>2, <2>3, Zenon DEF Runs
<1>8. Published'
  BY <1>1, <1>4, <1>6, MoveTypes, Zenon DEF Published
<1>9. Newest' /\ Waits'
  BY <1>1, <1>2, <1>3, HandsKept, Zenon DEF Newest, Waits, NewestAnswered, Answered
<1>10. Watched(trk)'
  <2>1. Open(trk)' <=> Open(trk)
    BY <1>1, Zenon DEF Open
  <2>2. Open(trk) => trk.seq = new
    BY <1>1, <1>2, OpenIsNewest
  <2>3. Open(trk) => trk.age <= 1 /\ ~trk.seen
    <3>1. Open(trk) => ~(trk.age >= 2)
      BY <1>1, <2>2, Zenon DEF Watched
    <3>2. Open(trk) => ~trk.seen
      BY <1>1, <1>2, <2>2, MoveTypes, Zenon DEF Watched
    <3> QED
      BY <3>1, <3>2, MoveTypes
  <2>4. "tunes" \in Late
    BY DEF Late
  <2>5. trk.seen /\ trk.seq # 0 => fate'[trk.seq] # "pending"
    BY <1>1, <1>6, MoveTypes, Zenon DEF Watched
  <2> QED
    BY <1>1, <1>2, <2>1, <2>2, <2>3, <2>4, <2>5, Zenon DEF Watched
<1>11. AcceptedMeansEnded'
  BY <1>1, <1>6, Zenon DEF AcceptedMeansEnded, Answered, Ended
<1> QED
  BY <1>7, <1>8, <1>9, <1>10, <1>11 DEF TrueInv

LEMMA PublishesHolds ==
  ASSUME ConstantsAssumption, AckInv, TrueInv, Publishes PROVE TrueInv'
<1>1. /\ pc = "publish" /\ pc' = "read" /\ in' = in /\ mach' = mach /\ core0' = core0
      /\ control'.mode = control.mode /\ control'.mv_seq = control.mv_seq
      /\ control'.mv_active = (mach.move # "NONE") /\ st'.mv_was_active = (mach.move # "NONE")
      /\ control'.mv_done_seq = IF st.mv_was_active /\ mach.move = "NONE" THEN st.mv_seq
                                ELSE control.mv_done_seq
      /\ st'.mv_seq = st.mv_seq /\ trk' = trk /\ replies' = replies /\ fate' = fate
      /\ Runs /\ Published /\ Newest /\ Waits /\ Watched(trk) /\ AcceptedMeansEnded
  BY Zenon DEF Publishes, TrueInv
<1>2. Runs' /\ AcceptedMeansEnded' /\ Newest'
  BY <1>1, Zenon DEF Runs, AcceptedMeansEnded, Answered, Newest
<1>3. mach.move # "NONE" => st.mv_seq \in Moves /\ fate[st.mv_seq] = "running"
  BY <1>1, MoveTypes, Zenon DEF Runs
<1>4. "running" \notin Ended /\ "running" # "pending"
  BY DEF Ended
<1>5. control'.mv_done_seq # 0 => fate[control'.mv_done_seq] \in Ended
  <2>1. CASE st.mv_was_active /\ mach.move = "NONE"
    <3>1. st.mv_seq \in Moves /\ fate[st.mv_seq] # "pending" /\ fate[st.mv_seq] # "running"
      BY <1>1, <2>1, MoveTypes, Zenon DEF Published, Runs
    <3>2. fate[st.mv_seq] \in Fates
      BY <3>1, MoveTypes
    <3> QED
      BY <1>1, <2>1, <3>1, <3>2 DEF Fates, Ended
  <2>2. CASE ~(st.mv_was_active /\ mach.move = "NONE")
    BY <1>1, <2>2, Zenon DEF Published
  <2> QED
    BY <2>1, <2>2
<1>6. mach.move # "NONE" => control'.mv_done_seq # st.mv_seq
  BY <1>3, <1>4, <1>5, MoveTypes, Zenon
<1>7. Published'
  BY <1>1, <1>3, <1>4, <1>5, <1>6, MoveTypes, Zenon DEF Published
<1>8. Waits'
  BY <1>1, HandsKept, Zenon DEF Waits, NewestAnswered, Answered, AtRest
<1>9. Watched(trk)'
  <2>1. Open(trk)' <=> Open(trk)
    BY <1>1, Zenon DEF Open
  <2>2. "publish" \notin Early
    BY DEF Early
  <2> QED
    BY <1>1, <2>1, <2>2, Zenon DEF Watched
<1> QED
  BY <1>2, <1>7, <1>8, <1>9 DEF TrueInv

LEMMA IssuesHolds ==
  ASSUME ConstantsAssumption, AckInv, AckInv', TrueInv, Issues PROVE TrueInv'
<1>1. /\ \E task \in InHand : InHand' = InHand \ {task}
      /\ control'.mv_seq = control.mv_seq + 1 /\ control'.mv_seq \in Moves
      /\ control'.mv_active = control.mv_active /\ control'.mv_done_seq = control.mv_done_seq
      /\ pc' = pc /\ in' = in /\ st' = st /\ mach' = mach /\ trk' = trk /\ replies' = replies
      /\ fate' = fate
      /\ Runs /\ Published /\ Newest /\ Waits /\ Watched(trk) /\ AcceptedMeansEnded
  BY Zenon DEF Issues, TrueInv
<1>2. NewestAnswered /\ AtRest
  BY <1>1, Zenon DEF Waits
<1>3. Runs'
  <2>1. in.mv_seq <= control'.mv_seq
    BY <1>1, MoveTypes DEF Runs
  <2> QED
    BY <1>1, <2>1, Zenon DEF Runs
<1>4. Published' /\ AcceptedMeansEnded'
  BY <1>1, Zenon DEF Published, AcceptedMeansEnded, Answered
<1>5. Newest'
  BY <1>1, <1>2, Zenon DEF Newest, AtRest
<1>6. ~Answered(control'.mv_seq)
  <2>1. control'.mv_seq > trk.seq
    BY <1>1, MoveTypes DEF AckInv, Tracked
  <2> QED
    BY <1>1, <2>1, Zenon DEF AckInv, AnsweredOnce, Answered
<1>7. Waits'
  <2>1. ~NewestAnswered'
    BY <1>1, <1>6, Zenon DEF NewestAnswered, Answered
  <2>2. \A s \in Moves : s < control'.mv_seq => Answered(s)
    <3>1. \A s \in Moves : s < control'.mv_seq => s < control.mv_seq \/ s = control.mv_seq
      BY <1>1, MoveTypes
    <3> QED
      BY <1>1, <1>2, <3>1, Zenon DEF Waits, NewestAnswered
  <2>3. InHand' = {}
    BY <1>1, Zenon DEF Waits
  <2> QED
    BY <1>1, <2>1, <2>2, <2>3, Zenon DEF Waits, Answered
<1>8. Watched(trk)'
  <2>1. ~Open(trk) /\ (Open(trk)' <=> Open(trk))
    BY <1>1, <1>2, OpenIsNewest, Zenon DEF Open
  <2> QED
    BY <1>1, <1>2, <2>1, Zenon DEF Watched, AtRest
<1> QED
  BY <1>3, <1>4, <1>5, <1>7, <1>8 DEF TrueInv

---------------------------------------------------------------------------
(* updateMove *)

\* The one snapshot there is.
Sampled == [mode |-> control.mode, active |-> control.mv_active,
            seq |-> control.mv_seq, done |-> control.mv_done_seq]

\* What a call tracks has been watched, and nothing is displaced.
LEMMA TrackedIsWatched ==
  ASSUME ConstantsAssumption, ProtocolAssumption, AckInv, TrueInv
  PROVE  /\ Displaced(trk, Sampled) = <<>>
         /\ Tracks(trk, Sampled) \in TrackType
         /\ Watched(Tracks(trk, Sampled))
         /\ Open(Tracks(trk, Sampled)) =>
              /\ Tracks(trk, Sampled).seq = control.mv_seq /\ control.mv_seq \in Moves
              /\ ~Answered(control.mv_seq)
              /\ Tracks(trk, Sampled).seen \/ ~control.mv_active
<1> DEFINE t == Tracks(trk, Sampled)
<1>1. /\ Sampled.mode = control.mode /\ Sampled.active = control.mv_active
      /\ Sampled.seq = control.mv_seq /\ Sampled.done = control.mv_done_seq
  BY DEF Sampled
<1>2. Runs /\ Published /\ Newest /\ Waits /\ Watched(trk) /\ AnsweredOnce /\ Tracked
  BY Zenon DEF TrueInv, AckInv
<1>3. CASE Adopts(trk, Sampled)
  <2>1. control.mv_seq # 0 /\ control.mv_seq # trk.seq /\ ~Open(trk)
    BY <1>1, <1>2, <1>3, OpenIsNewest, Zenon DEF Adopts
  <2>2. t = [[seq |-> control.mv_seq, seen |-> FALSE, resolved |-> FALSE, age |-> 0]
               EXCEPT !.seen = FALSE \/ control.mv_active]
    BY <1>1, <1>3, <2>1 DEF Tracks, Open
  <2>3. t.seq = control.mv_seq /\ t.seen = control.mv_active /\ ~t.resolved /\ t.age = 0
    BY <2>2, MoveTypes
  <2>4. t \in TrackType
    <3>1. control.mv_seq \in MoveSeqs
      BY <2>1, MoveTypes, Numbers
    <3>2. 0 \in 0 .. LateHold + 1
      BY DEF ProtocolAssumption
    <3> QED
      BY <2>2, <3>1, <3>2, MoveTypes DEF TrackType
  <2>5. ~Answered(control.mv_seq)
    <3>1. control.mv_seq > trk.seq
      BY <1>2, <2>1, MoveTypes DEF Tracked
    <3> QED
      BY <1>2, <2>1, <3>1, MoveTypes, Zenon DEF AnsweredOnce, Answered
  <2> HIDE DEF t
  <2>6. Watched(t)
    <3>1. ~(t.age >= 1) /\ ~(t.age >= 2) /\ t.age <= 1
      BY <2>3
    <3> QED
      BY <1>2, <2>3, <3>1, Zenon DEF Watched, Published, Newest
  <2>7. Displaced(trk, Sampled) = <<>>
    BY <2>1, Zenon DEF Displaced
  <2> QED
    BY <2>1, <2>3, <2>4, <2>5, <2>6, <2>7, MoveTypes, Zenon DEF t
<1>4. CASE ~Adopts(trk, Sampled)
  <2>1. t = [trk EXCEPT !.seen = trk.seen \/ (Open(trk) /\ control.mv_active)]
    BY <1>1, <1>4, Zenon DEF Tracks
  <2>2. trk \in TrackType
    BY MoveTypes
  <2>3. /\ t.seq = trk.seq /\ t.resolved = trk.resolved /\ t.age = trk.age
        /\ t.seen = (trk.seen \/ (Open(trk) /\ control.mv_active)) /\ t \in TrackType
    BY <2>1, <2>2, Zenon DEF TrackType
  <2> HIDE DEF t
  <2>4. Open(t) <=> Open(trk)
    BY <2>3, Zenon DEF Open
  <2>5. Open(trk) => /\ trk.seq = control.mv_seq /\ control.mv_seq \in Moves
                     /\ ~Answered(control.mv_seq)
    BY <1>2, OpenIsNewest, MoveTypes, Zenon DEF Open, NewestAnswered
  <2>6. t.seen /\ t.seq # 0 => fate[t.seq] # "pending"
    <3>1. Open(trk) /\ control.mv_active => fate[trk.seq] # "pending"
      BY <1>2, <2>5, Zenon DEF Published, Newest
    <3> QED
      BY <1>2, <2>3, <3>1, Zenon DEF Watched
  <2>7. Watched(t)
    BY <1>2, <2>3, <2>4, <2>6, Zenon DEF Watched
  <2>8. Displaced(trk, Sampled) = <<>>
    BY <1>4, Zenon DEF Displaced
  <2> QED
    BY <2>3, <2>4, <2>5, <2>7, <2>8, Zenon DEF t
<1> QED
  BY <1>3, <1>4

\* A verdict finds the machine at rest, and ACCEPTED one that has ended.
LEMMA VerdictIsTrue ==
  ASSUME ConstantsAssumption, Undisturbed, AckInv, TrueInv, NEW t \in TrackType, Watched(t), Open(t),
         t.seq = control.mv_seq, control.mv_seq \in Moves, t.seen \/ ~control.mv_active,
         Verdict(t, Sampled) # <<>>
  PROVE  /\ AtRest
         /\ \/ Verdict(t, Sampled) = <<"ACCEPTED">> /\ fate[t.seq] \in Ended
            \/ Verdict(t, Sampled) = <<"FAILED">>
<1>1. /\ Sampled.mode = control.mode /\ Sampled.active = control.mv_active
      /\ Sampled.seq = control.mv_seq /\ Sampled.done = control.mv_done_seq
  BY DEF Sampled
<1>2. Runs /\ Published /\ Newest /\ Waits
  BY Zenon DEF TrueInv
<1>3. \/ /\ ~t.seen /\ control.mode # "AUTO" /\ t.age > LateHold
         /\ Verdict(t, Sampled) = <<"FAILED">>
      \/ /\ control.mv_done_seq = t.seq \/ (t.seen /\ ~control.mv_active)
         /\ Verdict(t, Sampled) = <<"ACCEPTED">>
  BY <1>1, Zenon DEF Verdict
<1>4. st.mv_seq = control.mv_seq => in.mv_seq = st.mv_seq
  BY <1>2, MoveTypes DEF Runs
<1>5. CASE ~t.seen /\ control.mode # "AUTO" /\ t.age > LateHold /\ Verdict(t, Sampled) = <<"FAILED">>
  <2>1. t.age >= 2 /\ ~(t.age <= 1)
    <3>1. t.age \in 0 .. LateHold + 1
      BY Zenon DEF TrackType
    <3>2. LateHold \in Nat /\ LateHold >= 1
      BY ProtocolAssumption DEF Undisturbed, ProtocolAssumption
    <3> QED
      BY <1>5, <3>1, <3>2
  <2>2. mach.move = "NONE"
    BY <1>5, <2>1, Zenon DEF Watched
  <2>3. in.mode = "AUTO" => in.mv_seq = st.mv_seq
    BY <1>4, <2>1, Zenon DEF Watched
  <2> QED
    BY <1>5, <2>2, <2>3, Zenon DEF AtRest
<1>6. CASE /\ control.mv_done_seq = t.seq \/ (t.seen /\ ~control.mv_active)
           /\ Verdict(t, Sampled) = <<"ACCEPTED">>
  <2>1. fate[t.seq] \in Fates /\ t.seq # 0
    BY MoveTypes
  <2>2. fate[t.seq] \in Ended /\ mach.move = "NONE" /\ ~control.mv_active /\ st.mv_seq = t.seq
    <3>1. CASE control.mv_done_seq = t.seq
      <4>1. fate[t.seq] \in Ended
        BY <1>2, <2>1, <3>1, Zenon DEF Published
      <4>2. fate[t.seq] # "pending" /\ fate[t.seq] # "running"
        BY <4>1 DEF Ended
      <4>3. ~(t.seq > st.mv_seq)
        BY <1>2, <4>2, Zenon DEF Runs
      <4>4. st.mv_seq = t.seq
        BY <1>2, <4>3, MoveTypes DEF Runs
      <4> QED
        BY <1>2, <3>1, <4>1, <4>2, <4>4, Zenon DEF Runs, Published
    <3>2. CASE t.seen /\ ~control.mv_active
      <4>1. fate[t.seq] # "pending" /\ mach.move = "NONE"
        BY <2>1, <3>2, Zenon DEF Watched
      <4>2. fate[t.seq] # "running"
        BY <1>2, <4>1, Zenon DEF Runs
      <4>3. ~(t.seq > st.mv_seq)
        BY <1>2, <4>1, Zenon DEF Runs
      <4>4. st.mv_seq = t.seq
        BY <1>2, <4>3, MoveTypes DEF Runs
      <4> QED
        BY <2>1, <3>2, <4>1, <4>2, <4>4 DEF Fates, Ended
    <3> QED
      BY <1>6, <3>1, <3>2
  <2> QED
    BY <1>4, <1>6, <2>2, Zenon DEF AtRest
<1> QED
  BY <1>3, <1>5, <1>6

LEMMA UpdateHolds ==
  ASSUME ConstantsAssumption, ProtocolAssumption, Undisturbed, AckInv, TrueInv, UpdateMove
  PROVE  TrueInv'
<1> DEFINE t == Tracks(trk, Sampled)
           v == Verdict(t, Sampled)
<1>1. /\ vars' = vars /\ fate' = fate
      /\ trk' = [t EXCEPT !.resolved = t.resolved \/ v # <<>>]
      /\ replies' = [s \in Moves |-> replies[s] \o (IF s = trk.seq THEN <<>> ELSE <<>>)
                                                \o (IF s = t.seq THEN v ELSE <<>>)]
  <2>1. Snapshots = {Sampled}
    BY Zenon DEF Snapshots, Sampled, Undisturbed
  <2>2. Displaced(trk, Sampled) = <<>>
    BY TrackedIsWatched
  <2>3. \E snap \in {Sampled} :
          /\ trk' = [Tracks(trk, snap) EXCEPT !.resolved =
                       @ \/ Verdict(Tracks(trk, snap), snap) # <<>>]
          /\ replies' = [s \in Moves |->
               replies[s] \o (IF s = trk.seq THEN Displaced(trk, snap) ELSE <<>>)
                          \o (IF s = Tracks(trk, snap).seq
                                THEN Verdict(Tracks(trk, snap), snap) ELSE <<>>)]
    BY <2>1, Zenon DEF UpdateMove
  <2>4. /\ trk' = [t EXCEPT !.resolved = t.resolved \/ v # <<>>]
        /\ replies' = [s \in Moves |->
             replies[s] \o (IF s = trk.seq THEN Displaced(trk, Sampled) ELSE <<>>)
                        \o (IF s = t.seq THEN v ELSE <<>>)]
    BY <2>3, Zenon
  <2>5. vars' = vars /\ fate' = fate
    BY Zenon DEF UpdateMove
  <2> HIDE DEF t, v
  <2> QED
    BY <2>2, <2>4, <2>5, Zenon
<1>2. /\ t \in TrackType /\ Watched(t)
      /\ Open(t) => /\ t.seq = control.mv_seq /\ control.mv_seq \in Moves
                    /\ ~Answered(control.mv_seq) /\ (t.seen \/ ~control.mv_active)
  BY TrackedIsWatched
<1>3. v # <<>> => /\ Open(t) /\ AtRest
                  /\ (v = <<"ACCEPTED">> /\ fate[t.seq] \in Ended) \/ v = <<"FAILED">>
  BY <1>2, VerdictOfOpen, VerdictIsTrue, Zenon
<1> HIDE DEF t, v
<1>4. /\ trk'.seq = t.seq /\ trk'.seen = t.seen /\ trk'.age = t.age
      /\ trk'.resolved = (t.resolved \/ v # <<>>)
  BY <1>1, <1>2, Zenon DEF TrackType
<1>5. /\ pc' = pc /\ control' = control /\ in' = in /\ st' = st /\ mach' = mach /\ core0' = core0
  BY <1>1, Zenon DEF vars
<1>6. ASSUME NEW s \in Moves
      PROVE  replies'[s] = IF s = t.seq /\ v # <<>> THEN v ELSE replies[s]
  <2>1. /\ replies'[s] = (replies[s] \o <<>>) \o (IF s = t.seq THEN v ELSE <<>>)
        /\ replies[s] \in Seq(Terminals) /\ <<>> \in Seq(Terminals)
    <3>1. replies \in [Moves -> Seq(Terminals)]
      BY Zenon DEF AckInv, MTypeOK
    <3>2. replies'[s] = (replies[s] \o <<>>) \o (IF s = t.seq THEN v ELSE <<>>)
      BY <1>1, Zenon
    <3> QED
      BY <3>1, <3>2
  <2>2. replies[s] \o <<>> = replies[s]
    BY <2>1, Joined
  <2>3. CASE s = t.seq /\ v # <<>>
    <3>1. replies[s] = <<>>
      BY <1>2, <1>3, <2>3, Zenon DEF Answered
    <3>2. v \in Seq(Terminals)
      BY <1>3, <2>3 DEF Terminals
    <3> QED
      BY <2>1, <2>2, <2>3, <3>1, <3>2, Joined, Zenon
  <2>4. CASE ~(s = t.seq /\ v # <<>>)
    <3>1. replies'[s] = replies[s] \o <<>>
      BY <2>1, <2>2, <2>4, Zenon
    <3> QED
      BY <2>2, <2>4, <3>1, Zenon
  <2> QED
    BY <2>3, <2>4
<1>7. Runs /\ Published /\ Newest /\ Waits /\ AcceptedMeansEnded
  BY Zenon DEF TrueInv
<1>8. Runs' /\ Published' /\ Newest'
  BY <1>1, <1>5, <1>7, Zenon DEF Runs, Published, Newest
<1>9. \A s \in Moves : Answered(s)' <=> Answered(s) \/ (s = t.seq /\ v # <<>>)
  BY <1>6, Zenon DEF Answered
<1>10. AtRest' <=> AtRest
  BY <1>5, Zenon DEF AtRest
<1>11. NewestAnswered' => AtRest
  <2>1. CASE v = <<>>
    BY <1>5, <1>7, <1>9, <2>1, Zenon DEF NewestAnswered, Waits
  <2>2. CASE v # <<>>
    BY <1>3, <2>2
  <2> QED
    BY <2>1, <2>2
<1>12. Waits'
  <2>1. InHand' = InHand /\ (NewestAnswered => NewestAnswered')
    BY <1>5, <1>9, HandsKept, Zenon DEF NewestAnswered
  <2> QED
    BY <1>5, <1>7, <1>9, <1>10, <1>11, <2>1, Zenon DEF Waits
<1>13. Watched(trk)'
  <2>1. Open(trk)' => Open(t)
    BY <1>4, Zenon DEF Open
  <2> QED
    BY <1>1, <1>2, <1>4, <1>5, <2>1, Zenon DEF Watched
<1>14. AcceptedMeansEnded'
  <2> SUFFICES ASSUME NEW s \in Moves, replies'[s] # <<>>, replies'[s][1] = "ACCEPTED"
               PROVE  fate[s] \in Ended
    BY <1>1, Zenon DEF AcceptedMeansEnded, Answered, Ended
  <2>1. CASE s = t.seq /\ v # <<>>
    <3>1. replies'[s] = v
      BY <1>6, <2>1, Zenon
    <3>2. v # <<"FAILED">>
      BY <3>1
    <3> QED
      BY <1>3, <2>1, <3>2
  <2>2. CASE ~(s = t.seq /\ v # <<>>)
    <3>1. replies'[s] = replies[s]
      BY <1>6, <2>2, Zenon
    <3> QED
      BY <1>7, <3>1, Zenon DEF AcceptedMeansEnded, Answered, Ended
  <2> QED
    BY <2>1, <2>2
<1> QED
  BY <1>8, <1>12, <1>13, <1>14 DEF TrueInv

LEMMA TrueInit == ASSUME ConstantsAssumption, MInit PROVE TrueInv
<1>1. /\ control.mv_seq = 0 /\ in.mv_seq = 0 /\ st.mv_seq = 0 /\ mach.move = "NONE"
      /\ control.mv_active = FALSE /\ st.mv_was_active = FALSE /\ control.mv_done_seq = 0
      /\ control.mode = "MANUAL" /\ in.mode = "MANUAL" /\ InHand = {}
      /\ trk.seq = 0 /\ trk.seen = FALSE
      /\ replies = [s \in Moves |-> <<>>] /\ fate = [s \in Moves |-> "pending"]
  BY DEF MInit, Init, InHand
<1>2. \A s \in Moves : s # 0 /\ ~(s < 0)
  BY DEF Moves, ConstantsAssumption
<1>3. Runs /\ Published
  <2>1. \A s \in Moves : fate[s] = "pending"
    BY <1>1
  <2>2. 0 <= 0 /\ "pending" # "running"
    OBVIOUS
  <2> QED
    BY <1>1, <1>2, <2>1, <2>2, Zenon DEF Runs, Published
<1>4. Newest /\ Waits
  BY <1>1, <1>2 DEF Newest, Waits, NewestAnswered, AtRest
<1>5. Watched(trk) /\ AcceptedMeansEnded
  BY <1>1 DEF Watched, AcceptedMeansEnded, Open, Answered
<1> QED
  BY <1>3, <1>4, <1>5 DEF TrueInv

LEMMA TrueStep ==
  ASSUME ConstantsAssumption, ProtocolAssumption, Undisturbed, AckInv, AckInv', TrueInv,
         ~AbortsOnDisarm, [MNext]_mvars
  PROVE  TrueInv'
<1>1. CASE MLoop
  <2>1. TypeOK
    BY DEF AckInv, MTypeOK
  <2> QED
    BY <1>1, <2>1, LoopDoes, ReadsHolds, StartsHolds, PublishesHolds, PassesHolds
<1>2. CASE MCommand \/ MLapse
  BY <1>2, CommandDoes, IssuesHolds, PassesHolds
<1>3. CASE UNCHANGED mvars
  <2>1. Passes
    BY <1>3, HandsKept, Zenon DEF mvars, vars, Passes, Kept
  <2> QED
    BY <2>1, PassesHolds
<1> QED
  BY <1>1, <1>2, <1>3, UpdateHolds DEF MNext

\* ACCEPTED is said of a move that has ended (AcceptedMeansEnded), for every number of
\* moves and every time of the late start, with failsafes and any mode but AUTO selected by
\* the operator; provided that the client waits for its answers and nothing is aborted.
THEOREM AcceptedIsTrue ==
  ASSUME Undisturbed
  PROVE  MSpec /\ []~AbortsOnDisarm => []AcceptedMeansEnded
<1>1. MInit => TrueInv
  BY TrueInit, ConstantsAssumption
<1>2. AckInv /\ AckInv' /\ TrueInv /\ ~AbortsOnDisarm /\ [MNext]_mvars => TrueInv'
  BY TrueStep, Undisturbed, ConstantsAssumption, ProtocolAssumption
<1>3. TrueInv => AcceptedMeansEnded
  BY DEF TrueInv
<1> QED
  BY <1>1, <1>2, <1>3, AckThroughout, PTL DEF MSpec
=============================================================================
