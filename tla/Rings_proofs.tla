----------------------------- MODULE Rings_proofs -----------------------------
(***************************************************************************)
(* What wraps between the cores and tasks, for every size: the ring of     *)
(* status texts implements a bounded queue, the one of bytes hands the     *)
(* LoRa downlink whole frames in order, and the two link timers tell a     *)
(* lost link from a live one although their clock starts again at 0.       *)
(*                                                                         *)
(* In all of them counting on from a place wraps at most once; that is     *)
(* what turns the arithmetic of the code into sequences and into ages.     *)
(***************************************************************************)
EXTENDS StatusQueue, LoraRing, LinkTimers, SequenceTheorems, TLAPS

---------------------------------------------------------------------------
(* StatusQueue: a stored text is appended to the waiting ones, and giving  *)
(* back the head slot leaves their tail.                                   *)

\* Counting on from the head wraps at most once.
LEMMA SlotWraps ==
  ASSUME NEW x \in 0 .. 2 * QCAP - 1
  PROVE  /\ x < QCAP => x % QCAP = x
         /\ x >= QCAP => x % QCAP = x - QCAP
  BY QueueAssumption, Z3 DEF QueueAssumption

\* What the ring alone keeps: its waiting slots hold texts.
RingInv ==
  /\ s_q \in [Slots -> 0 .. MaxTexts] /\ s_qhead \in Slots /\ s_qcount \in 0 .. QCAP
  /\ \A i \in 1 .. s_qcount : s_q[(s_qhead + i - 1) % QCAP] \in Texts

LEMMA WaitingType ==
  ASSUME RingInv
  PROVE  Waiting \in Seq(Texts) /\ Len(Waiting) = s_qcount
<1>1. s_qcount \in Nat /\ \A i \in 1 .. s_qcount : Waiting[i] \in Texts
  BY QueueAssumption, SMT DEF QueueAssumption, RingInv, Waiting
<1>2. Waiting = [i \in 1 .. s_qcount |-> Waiting[i]]
  BY DEF Waiting
<1> QED
  BY <1>1, <1>2

\* The slots of the waiting texts, and the one after them, are different slots.
LEMMA SlotsDiffer ==
  ASSUME RingInv, NEW i \in 1 .. QCAP, NEW j \in 1 .. QCAP, i # j
  PROVE  /\ (s_qhead + i - 1) % QCAP \in Slots
         /\ (s_qhead + i - 1) % QCAP # (s_qhead + j - 1) % QCAP
<1>1. s_qhead \in 0 .. QCAP - 1 /\ QCAP \in Nat \ {0}
  BY QueueAssumption DEF QueueAssumption, RingInv, Slots
<1>2. s_qhead + i - 1 \in 0 .. 2 * QCAP - 1 /\ s_qhead + j - 1 \in 0 .. 2 * QCAP - 1
  BY <1>1
<1>3. /\ (s_qhead + i - 1) % QCAP =
           IF s_qhead + i - 1 < QCAP THEN s_qhead + i - 1 ELSE s_qhead + i - 1 - QCAP
      /\ (s_qhead + j - 1) % QCAP =
           IF s_qhead + j - 1 < QCAP THEN s_qhead + j - 1 ELSE s_qhead + j - 1 - QCAP
  BY <1>1, <1>2, SlotWraps
<1> QED
  BY <1>1, <1>3, SMT DEF Slots

\* A text put in after the waiting ones is the last of them.
LEMMA WaitingAppended ==
  ASSUME RingInv, NEW text \in Texts, s_qcount < QCAP,
         s_q' = [s_q EXCEPT ![(s_qhead + s_qcount) % QCAP] = text],
         s_qcount' = s_qcount + 1, s_qhead' = s_qhead
  PROVE  Waiting' = Append(Waiting, text) /\ RingInv'
<1>1. s_qcount \in Nat /\ s_qhead \in Nat /\ QCAP \in Nat \ {0} /\ s_qcount + 1 \in 1 .. QCAP
  BY QueueAssumption DEF QueueAssumption, RingInv, Slots
<1> DEFINE free == (s_qhead + (s_qcount + 1) - 1) % QCAP
<1>2. free = (s_qhead + s_qcount) % QCAP
  BY <1>1
<1>3. free \in Slots
  <2>1. s_qhead + s_qcount \in 0 .. 2 * QCAP - 1
    BY <1>1, SMT DEF RingInv, Slots
  <2>2. (s_qhead + s_qcount) % QCAP =
          IF s_qhead + s_qcount < QCAP THEN s_qhead + s_qcount ELSE s_qhead + s_qcount - QCAP
    BY <2>1, <1>1, SlotWraps
  <2> HIDE DEF free
  <2> QED
    BY <2>2, <1>1, <1>2, SMT DEF RingInv, Slots
<1>4. ASSUME NEW i \in 1 .. s_qcount
      PROVE  s_q'[(s_qhead + i - 1) % QCAP] = s_q[(s_qhead + i - 1) % QCAP]
  <2>1. i \in 1 .. QCAP /\ i # s_qcount + 1
    BY <1>1, <1>4
  <2>2. (s_qhead + i - 1) % QCAP \in Slots /\ (s_qhead + i - 1) % QCAP # free
    BY <2>1, <1>1, SlotsDiffer
  <2> HIDE DEF free
  <2> QED
    BY <2>2, <1>2, Zenon DEF RingInv
<1>5. s_q'[free] = text
  BY <1>2, <1>3, Zenon DEF RingInv
<1>6. Waiting' = [i \in 1 .. s_qcount + 1 |-> s_q'[(s_qhead + i - 1) % QCAP]]
  <2>1. Waiting' = [i \in 1 .. s_qcount' |-> s_q'[(s_qhead' + i - 1) % QCAP]]
    BY DEF Waiting
  <2> HIDE DEF free
  <2> QED
    BY <2>1
<1>7. Waiting' = [i \in 1 .. s_qcount + 1 |-> IF i = s_qcount + 1 THEN text ELSE Waiting[i]]
  <2>1. ASSUME NEW i \in 1 .. s_qcount + 1
        PROVE  s_q'[(s_qhead + i - 1) % QCAP] = IF i = s_qcount + 1 THEN text ELSE Waiting[i]
    <3>1. CASE i = s_qcount + 1
      BY <3>1, <1>5
    <3>2. CASE i # s_qcount + 1
      <4>1. i \in 1 .. s_qcount
        BY <3>2, <1>1
      <4>2. Waiting[i] = s_q[(s_qhead + i - 1) % QCAP]
        BY <4>1, Zenon DEF Waiting
      <4> QED
        BY <4>1, <4>2, <3>2, <1>4
    <3> QED
      BY <3>1, <3>2
  <2> QED
    BY <2>1, <1>6, Zenon
<1>8. Waiting' = Append(Waiting, text)
  <2>1. Waiting \in Seq(Texts) /\ Len(Waiting) = s_qcount
    BY WaitingType
  <2>2. /\ Append(Waiting, text) \in Seq(Texts) /\ Len(Append(Waiting, text)) = s_qcount + 1
        /\ \A i \in 1 .. s_qcount + 1 :
             Append(Waiting, text)[i] = IF i = s_qcount + 1 THEN text ELSE Waiting[i]
    BY <2>1, <1>1
  <2>3. \A i \in 1 .. s_qcount + 1 : (IF i = s_qcount + 1 THEN text ELSE Waiting[i]) \in Texts
    BY <2>1, <1>1
  <2> DEFINE w == [i \in 1 .. s_qcount + 1 |-> IF i = s_qcount + 1 THEN text ELSE Waiting[i]]
  <2>4. w \in Seq(Texts) /\ Len(w) = s_qcount + 1
    BY <2>3, <1>1
  <2>5. \A i \in 1 .. Len(w) : w[i] = Append(Waiting, text)[i]
    BY <2>2, <2>4
  <2>6. w = Append(Waiting, text)
    <3> HIDE DEF w, free
    <3> QED
      BY <2>2, <2>4, <2>5, SeqEqual
  <2> QED
    BY <2>6, <1>7
<1>9. RingInv'
  <2>1. s_q' \in [Slots -> 0 .. MaxTexts]
    <3>1. text \in 0 .. MaxTexts
      BY QueueAssumption DEF QueueAssumption, Texts
    <3> QED
      BY <3>1, <1>2, <1>3, Zenon DEF RingInv
  <2>2. s_qcount' \in 0 .. QCAP /\ s_qhead' \in Slots
    BY <1>1, SMT DEF RingInv
  <2>3. ASSUME NEW i \in 1 .. s_qcount'
        PROVE  s_q'[(s_qhead' + i - 1) % QCAP] \in Texts
    <3>1. CASE i = s_qcount + 1
      BY <3>1, <1>5
    <3>2. CASE i # s_qcount + 1
      <4>1. i \in 1 .. s_qcount
        BY <3>2, <1>1
      <4> QED
        BY <4>1, <1>4, Zenon DEF RingInv
    <3> QED
      BY <3>1, <3>2
  <2> QED
    BY <2>1, <2>2, <2>3 DEF RingInv
<1> QED
  BY <1>8, <1>9

\* Giving back the head slot leaves the tail of the waiting texts.
LEMMA WaitingTaken ==
  ASSUME RingInv, s_qcount > 0, s_q' = s_q,
         s_qhead' = (s_qhead + 1) % QCAP, s_qcount' = s_qcount - 1
  PROVE  /\ Waiting # <<>> /\ s_q[s_qhead] = Head(Waiting)
         /\ Waiting' = Tail(Waiting) /\ RingInv'
<1>1. /\ s_qcount \in 1 .. QCAP /\ s_qhead \in 0 .. QCAP - 1 /\ QCAP \in Nat \ {0}
  BY QueueAssumption DEF QueueAssumption, RingInv, Slots
<1>2. s_qhead' = IF s_qhead + 1 < QCAP THEN s_qhead + 1 ELSE s_qhead + 1 - QCAP
  <2>1. s_qhead + 1 \in 0 .. 2 * QCAP - 1
    BY <1>1
  <2> QED
    BY <2>1, <1>1, SlotWraps
<1>3. ASSUME NEW i \in 1 .. s_qcount - 1
      PROVE  (s_qhead' + i - 1) % QCAP = (s_qhead + (i + 1) - 1) % QCAP
  <2>1. /\ s_qhead + (i + 1) - 1 \in 0 .. 2 * QCAP - 1 /\ s_qhead' + i - 1 \in 0 .. 2 * QCAP - 1
    BY <1>1, <1>2
  <2>2. (s_qhead + (i + 1) - 1) % QCAP =
          IF s_qhead + (i + 1) - 1 < QCAP THEN s_qhead + (i + 1) - 1 ELSE s_qhead + (i + 1) - 1 - QCAP
    BY <2>1, <1>1, SlotWraps
  <2>3. (s_qhead' + i - 1) % QCAP =
          IF s_qhead' + i - 1 < QCAP THEN s_qhead' + i - 1 ELSE s_qhead' + i - 1 - QCAP
    BY <2>1, <1>1, <1>2, SlotWraps
  <2> QED
    BY <2>2, <2>3, <1>1, <1>2
<1>4. Waiting \in Seq(Texts) /\ Len(Waiting) = s_qcount
  BY WaitingType
<1>5. s_q[s_qhead] = Head(Waiting)
  <2>1. (s_qhead + 1 - 1) % QCAP = s_qhead
    <3>1. s_qhead + 1 - 1 = s_qhead /\ s_qhead \in 0 .. 2 * QCAP - 1 /\ s_qhead < QCAP
      BY <1>1
    <3> QED
      BY <3>1, SlotWraps
  <2>2. Waiting[1] = s_q[(s_qhead + 1 - 1) % QCAP]
    BY <1>1 DEF Waiting
  <2> QED
    BY <2>1, <2>2, <1>1, <1>4
<1>6. Waiting' = Tail(Waiting)
  <2>1. Waiting' = [i \in 1 .. s_qcount - 1 |-> s_q[(s_qhead' + i - 1) % QCAP]]
    BY Zenon DEF Waiting
  <2>2. ASSUME NEW i \in 1 .. s_qcount - 1
        PROVE  s_q[(s_qhead' + i - 1) % QCAP] = Waiting[i + 1]
    <3>1. i + 1 \in 1 .. s_qcount
      BY <1>1
    <3>2. Waiting[i + 1] = s_q[(s_qhead + (i + 1) - 1) % QCAP]
      BY <3>1, Zenon DEF Waiting
    <3> QED
      BY <3>2, <1>3
  <2>3. Waiting' = [i \in 1 .. s_qcount - 1 |-> Waiting[i + 1]]
    BY <2>1, <2>2, Zenon
  <2> QED
    <3>1. /\ Tail(Waiting) \in Seq(Texts) /\ Len(Tail(Waiting)) = s_qcount - 1
          /\ \A i \in 1 .. s_qcount - 1 : Tail(Waiting)[i] = Waiting[i + 1]
      BY <1>1, <1>4
    <3> DEFINE w == [i \in 1 .. s_qcount - 1 |-> Waiting[i + 1]]
    <3>2. \A i \in 1 .. s_qcount - 1 : Waiting[i + 1] \in Texts
      BY <1>1, <1>4
    <3>3. w \in Seq(Texts) /\ Len(w) = s_qcount - 1
      BY <3>2, <1>1
    <3>4. \A i \in 1 .. Len(w) : w[i] = Tail(Waiting)[i]
      BY <3>1, <3>3
    <3>5. w = Tail(Waiting)
      <4> HIDE DEF w
      <4> QED
        BY <3>1, <3>3, <3>4, SeqEqual
    <3> QED
      BY <3>5, <2>3
<1>7. RingInv'
  <2>1. s_qcount' \in 0 .. QCAP /\ s_qhead' \in Slots
    BY <1>1, <1>2 DEF Slots
  <2>2. ASSUME NEW i \in 1 .. s_qcount'
        PROVE  s_q'[(s_qhead' + i - 1) % QCAP] \in Texts
    <3>1. i \in 1 .. s_qcount - 1 /\ i + 1 \in 1 .. s_qcount
      BY <1>1
    <3>2. s_q[(s_qhead + (i + 1) - 1) % QCAP] \in Texts
      BY <3>1, Zenon DEF RingInv
    <3> QED
      BY <3>1, <3>2, <1>3
  <2> QED
    BY <2>1, <2>2, Zenon DEF RingInv
<1> QED
  BY <1>1, <1>4, <1>5, <1>6, <1>7
-----------------------------------------------------------------------------
\* The texts that were not refused, in the order in which they leave.
Kept == taken \o Waiting

KeptInv ==
  /\ {Kept[i] : i \in 1 .. Len(Kept)} = (1 .. offered) \ refused
  /\ \A i, j \in 1 .. Len(Kept) : i < j => Kept[i] < Kept[j]

CountInv ==
  /\ offered \in 0 .. MaxTexts /\ refused \subseteq 1 .. offered
  /\ flush \in {"idle", "loop", "send"} /\ taken \in Seq(Texts) /\ sent \in Nat
  /\ Len(taken) + s_qcount <= offered
  /\ Len(taken) = IF flush = "send" THEN sent + 1 ELSE sent

QueueInv == RingInv /\ CountInv /\ KeptInv

LEMMA InitQueue == QInit => QueueInv /\ Waiting = <<>>
<1> SUFFICES ASSUME QInit PROVE QueueInv /\ Waiting = <<>>
  OBVIOUS
<1>1. RingInv
  <2>1. s_q \in [Slots -> 0 .. MaxTexts]
    BY QueueAssumption DEF QueueAssumption, QInit
  <2> QED
    BY <2>1, QueueAssumption, SMT DEF QueueAssumption, QInit, RingInv, Slots
<1>2. Waiting = <<>>
  BY WaitingType, <1>1 DEF QInit
<1>3. CountInv
  BY QueueAssumption DEF QueueAssumption, QInit, CountInv
<1>4. Kept = <<>>
  BY <1>2 DEF QInit, Kept
<1>5. KeptInv
  BY <1>4 DEF QInit, KeptInv
<1> QED
  BY <1>1, <1>2, <1>3, <1>5 DEF QueueInv

\* An offered text is the newest: it goes to the end, or is counted as refused.
LEMMA OfferStep ==
  ASSUME QueueInv, QueueStatusText
  PROVE  /\ QueueInv'
         /\ Fifo!Next
<1> DEFINE text == offered + 1
<1>1. /\ text \in Texts /\ offered' = offered + 1 /\ offered' \in 0 .. MaxTexts
      /\ UNCHANGED <<flush, taken, sent>> /\ taken \in Seq(Texts)
  BY QueueAssumption DEF QueueAssumption, QueueInv, CountInv, QueueStatusText, Texts
<1>2. Waiting \in Seq(Texts) /\ Len(Waiting) = s_qcount /\ s_qcount \in 0 .. QCAP
  BY WaitingType DEF QueueInv, RingInv
<1>3. CASE s_qcount < QCAP
  <2>1. /\ s_q' = [s_q EXCEPT ![(s_qhead + s_qcount) % QCAP] = text]
        /\ s_qcount' = s_qcount + 1 /\ s_qhead' = s_qhead /\ refused' = refused
    BY <1>3 DEF QueueStatusText, Store
  <2>2. Waiting' = Append(Waiting, text) /\ RingInv'
    <3> HIDE DEF text
    <3> QED
      BY <2>1, <1>1, <1>3, WaitingAppended DEF QueueInv
  <2>3. CountInv'
    BY <1>1, <1>2, <2>1, QueueAssumption, SMT DEF QueueAssumption, QueueInv, CountInv
  <2>4. /\ Kept \in Seq(Texts) /\ Len(Kept') = Len(Kept) + 1
        /\ \A i \in 1 .. Len(Kept) : Kept'[i] = Kept[i]
        /\ Kept'[Len(Kept) + 1] = text
    BY <1>1, <1>2, <2>2 DEF Kept
  <2>5. KeptInv'
    <3>1. text \notin refused /\ 1 .. offered' = (1 .. offered) \cup {text}
      BY <1>1 DEF QueueInv, CountInv
    <3>2. {Kept'[i] : i \in 1 .. Len(Kept')} = {Kept[i] : i \in 1 .. Len(Kept)} \cup {text}
      <4>1. 1 .. Len(Kept') = (1 .. Len(Kept)) \cup {Len(Kept) + 1}
        BY <2>4
      <4> QED
        BY <4>1, <2>4, Zenon
    <3>3. {Kept'[i] : i \in 1 .. Len(Kept')} = (1 .. offered') \ refused'
      BY <3>1, <3>2, <2>1 DEF QueueInv, KeptInv
    <3>4. \A i \in 1 .. Len(Kept) : Kept[i] \in 1 .. offered
      BY DEF QueueInv, KeptInv
    <3>5. ASSUME NEW i \in 1 .. Len(Kept'), NEW j \in 1 .. Len(Kept'), i < j
          PROVE  Kept'[i] < Kept'[j]
      <4>1. i \in 1 .. Len(Kept)
        BY <3>5, <2>4
      <4>2. CASE j = Len(Kept) + 1
        <5>1. Kept'[i] = Kept[i] /\ Kept[i] \in 1 .. offered /\ Kept'[j] = text
          BY <4>1, <4>2, <2>4, <3>4
        <5>2. offered \in Nat
          BY QueueAssumption DEF QueueAssumption, QueueInv, CountInv
        <5> QED
          BY <5>1, <5>2
      <4>3. CASE j # Len(Kept) + 1
        <5>1. j \in 1 .. Len(Kept)
          BY <4>3, <2>4
        <5> QED
          BY <4>1, <5>1, <3>5, <2>4 DEF QueueInv, KeptInv
      <4> QED
        BY <4>2, <4>3
    <3> QED
      BY <3>3, <3>5 DEF KeptInv
  <2>6. Fifo!Accept(text)
    BY <1>1, <1>2, <1>3, <2>1, <2>2 DEF Fifo!Accept
  <2> QED
    BY <1>1, <2>2, <2>3, <2>5, <2>6 DEF QueueInv, Fifo!Next
<1>4. CASE ~(s_qcount < QCAP)
  <2>1. /\ refused' = refused \cup {text} /\ UNCHANGED ring
    BY <1>4 DEF QueueStatusText, Store
  <2>2. UNCHANGED <<Waiting, taken>> /\ RingInv'
    BY <2>1, <1>1 DEF Waiting, ring, QueueInv, RingInv
  <2>3. CountInv'
    BY <1>1, <1>2, <2>1, QueueAssumption, SMT DEF QueueAssumption, QueueInv, CountInv, ring
  <2>4. KeptInv'
    <3>1. (1 .. offered') \ refused' = (1 .. offered) \ refused
      BY <1>1, <2>1 DEF QueueInv, CountInv
    <3> QED
      BY <3>1, <2>2 DEF QueueInv, KeptInv, Kept
  <2>5. Fifo!Refuse(text)
    <3>1. Len(Waiting) = QCAP
      BY <1>2, <1>4, QueueAssumption DEF QueueAssumption
    <3> QED
      BY <2>1, <2>2, <3>1 DEF Fifo!Refuse
  <2> QED
    BY <1>1, <2>2, <2>3, <2>4, <2>5 DEF QueueInv, Fifo!Next
<1> QED
  BY <1>3, <1>4

\* The oldest waiting text changes sides, and nothing else moves.
LEMMA TakeStep ==
  ASSUME QueueInv, FlushTake
  PROVE  QueueInv' /\ Fifo!Next
<1>1. /\ Waiting # <<>> /\ s_q[s_qhead] = Head(Waiting) /\ Waiting' = Tail(Waiting) /\ RingInv'
  BY WaitingTaken DEF QueueInv, FlushTake
<1>2. Waiting \in Seq(Texts) /\ taken \in Seq(Texts)
  BY WaitingType DEF QueueInv, CountInv
<1>3. taken' = Append(taken, Head(Waiting))
  BY <1>1 DEF FlushTake
<1>4. CountInv'
  <2>1. taken' \in Seq(Texts) /\ Len(taken') = Len(taken) + 1
    BY <1>1, <1>2, <1>3
  <2>2. s_qcount \in Nat /\ s_qcount' = s_qcount - 1 /\ flush = "loop" /\ flush' = "send"
    BY QueueAssumption DEF QueueAssumption, FlushTake, QueueInv, RingInv
  <2> QED
    BY <2>1, <2>2 DEF FlushTake, QueueInv, CountInv
<1>5. Kept' = Kept
  <2>1. Kept' = Append(taken, Head(Waiting)) \o Tail(Waiting)
    BY <1>1, <1>3 DEF Kept
  <2>2. /\ Kept \in Seq(Texts) /\ Kept' \in Seq(Texts) /\ Len(Kept') = Len(Kept)
        /\ \A i \in 1 .. Len(Kept') : Kept'[i] = Kept[i]
    BY <2>1, <1>1, <1>2 DEF Kept
  <2> QED
    BY <2>2, SeqEqual
<1>6. KeptInv'
  BY <1>5 DEF QueueInv, KeptInv, FlushTake
<1>7. Fifo!Take
  BY <1>1, <1>3 DEF FlushTake, Fifo!Take
<1> QED
  BY <1>1, <1>4, <1>6, <1>7 DEF QueueInv, Fifo!Next

\* The other steps of the sender leave the ring and what was taken alone.
LEMMA OtherStep ==
  ASSUME QueueInv, FlushStart \/ FlushSend \/ FlushEnd \/ UNCHANGED queueVars
  PROVE  QueueInv' /\ UNCHANGED <<Waiting, taken, refused>>
<1>1. UNCHANGED <<s_q, s_qhead, s_qcount, taken, offered, refused>>
  BY DEF FlushStart, FlushSend, FlushEnd, queueVars, ring
<1>2. UNCHANGED <<Waiting, taken>> /\ RingInv'
  BY <1>1 DEF Waiting, QueueInv, RingInv
<1>3. CountInv'
  BY <1>1 DEF FlushStart, FlushSend, FlushEnd, queueVars, QueueInv, CountInv
<1>4. KeptInv'
  BY <1>1, <1>2 DEF QueueInv, KeptInv, Kept
<1> QED
  BY <1>1, <1>2, <1>3, <1>4 DEF QueueInv

LEMMA QueueStep ==
  ASSUME QueueInv, [QNext]_queueVars
  PROVE  QueueInv' /\ [Fifo!Next]_<<Waiting, taken, refused>>
  BY OfferStep, TakeStep, OtherStep DEF QNext, Flush

LEMMA QueueInvariant == QSpec => []QueueInv
<1>1. QInit => QueueInv
  BY InitQueue
<1>2. QueueInv /\ [QNext]_queueVars => QueueInv'
  BY QueueStep
<1> QED
  BY <1>1, <1>2, PTL DEF QSpec

(***************************************************************************)
(* Head and count of the ring keep their ranges for every number of slots, *)
(* and no more texts are sent than were offered.                           *)
(***************************************************************************)
THEOREM QueueTypeCorrect == QSpec => []QTypeOK
<1>1. QueueInv => QTypeOK
  BY QueueAssumption, SMT DEF QueueAssumption, QueueInv, RingInv, CountInv, QTypeOK, Texts
<1> QED
  BY <1>1, QueueInvariant, PTL

(***************************************************************************)
(* No text is lost or doubled between the cores, and none overtakes        *)
(* another, except for those refused at a full ring.                       *)
(***************************************************************************)
THEOREM QueueLosesNone == QSpec => []NoTextLost
<1>1. QueueInv => NoTextLost
  BY DEF QueueInv, KeptInv, Kept, NoTextLost
<1> QED
  BY <1>1, QueueInvariant, PTL

(***************************************************************************)
(* The ring of any number of slots implements the bounded first-in         *)
(* first-out queue of that capacity.                                       *)
(***************************************************************************)
THEOREM RingImplementsFifo == QSpec => RingIsFifo
<1>1. QInit => Fifo!Init
  BY InitQueue DEF QInit, Fifo!Init
<1>2. QueueInv /\ [QNext]_queueVars => [Fifo!Next]_<<Waiting, taken, refused>>
  BY QueueStep
<1> QED
  BY <1>1, <1>2, QueueInvariant, PTL DEF QSpec, RingIsFifo, Fifo!Spec

---------------------------------------------------------------------------
(* LoraRing *)

Offsets == 0 .. LORA_RING_SZ - 1

\* The slot that lies so many bytes behind another.
Slot(t, o) == (t + o) % LORA_RING_SZ

\* A sum of two offsets wraps at most once.
LEMMA Wraps ==
  ASSUME NEW x \in 0 .. 2 * LORA_RING_SZ - 1
  PROVE  /\ x < LORA_RING_SZ => x % LORA_RING_SZ = x
         /\ x >= LORA_RING_SZ => x % LORA_RING_SZ = x - LORA_RING_SZ
  BY RingAssumption, Z3 DEF RingAssumption

LEMMA SlotIs ==
  ASSUME NEW t \in Offsets, NEW o \in Offsets
  PROVE  /\ Slot(t, o) = (IF t + o < LORA_RING_SZ THEN t + o ELSE t + o - LORA_RING_SZ)
         /\ Slot(t, o) \in Offsets /\ Slot(t, 0) = t
<1>1. LORA_RING_SZ \in Nat \ {0}
  BY RingAssumption DEF RingAssumption
<1>2. t + o \in 0 .. 2 * LORA_RING_SZ - 1 /\ t + 0 \in 0 .. 2 * LORA_RING_SZ - 1
  BY <1>1 DEF Offsets
<1> QED
  BY <1>1, <1>2, Wraps DEF Slot, Offsets

\* Counting on from a slot, and back to it.
LEMMA SlotAdds ==
  ASSUME NEW t \in Offsets, NEW d \in Offsets, NEW o \in Offsets, d + o \in Offsets
  PROVE  Slot(Slot(t, d), o) = Slot(t, d + o)
<1>1. LORA_RING_SZ \in Nat \ {0}
  BY RingAssumption DEF RingAssumption
<1>2. Slot(t, d) = IF t + d < LORA_RING_SZ THEN t + d ELSE t + d - LORA_RING_SZ
  BY SlotIs
<1>3. Slot(t, d) \in Offsets
  BY SlotIs
<1>4. Slot(t, d + o) = IF t + (d + o) < LORA_RING_SZ THEN t + (d + o) ELSE t + (d + o) - LORA_RING_SZ
  BY SlotIs
<1>5. Slot(Slot(t, d), o) = IF Slot(t, d) + o < LORA_RING_SZ THEN Slot(t, d) + o
                            ELSE Slot(t, d) + o - LORA_RING_SZ
  BY <1>3, SlotIs
<1> QED
  BY <1>1, <1>2, <1>4, <1>5 DEF Offsets

LEMMA SlotBack ==
  ASSUME NEW t \in Offsets, NEW u \in Offsets, NEW o \in Offsets
  PROVE  (Slot(t, o) + LORA_RING_SZ - Slot(t, u)) % LORA_RING_SZ
           = IF o >= u THEN o - u ELSE o + LORA_RING_SZ - u
<1>1. LORA_RING_SZ \in Nat \ {0}
  BY RingAssumption DEF RingAssumption
<1>2. /\ Slot(t, o) = (IF t + o < LORA_RING_SZ THEN t + o ELSE t + o - LORA_RING_SZ)
      /\ Slot(t, u) = (IF t + u < LORA_RING_SZ THEN t + u ELSE t + u - LORA_RING_SZ)
  BY SlotIs
<1>3. PICK x : x = Slot(t, o) + LORA_RING_SZ - Slot(t, u)
  OBVIOUS
<1>4. /\ x \in 0 .. 2 * LORA_RING_SZ - 1
      /\ (IF o >= u THEN o - u ELSE o + LORA_RING_SZ - u) = IF x < LORA_RING_SZ THEN x ELSE x - LORA_RING_SZ
  BY <1>1, <1>2, <1>3 DEF Offsets
<1>5. x % LORA_RING_SZ = IF x < LORA_RING_SZ THEN x ELSE x - LORA_RING_SZ
  BY <1>1, <1>4, Wraps, SMT
<1> QED
  BY <1>3, <1>4, <1>5

LEMMA FreeIs ==
  ASSUME NEW t \in Offsets, NEW u \in Offsets
  PROVE  (t + LORA_RING_SZ - Slot(t, u) - 1) % LORA_RING_SZ = LORA_RING_SZ - 1 - u
<1>1. LORA_RING_SZ \in Nat \ {0}
  BY RingAssumption DEF RingAssumption
<1>2. Slot(t, u) = (IF t + u < LORA_RING_SZ THEN t + u ELSE t + u - LORA_RING_SZ)
  BY SlotIs
<1>3. PICK x : x = t + LORA_RING_SZ - Slot(t, u) - 1
  OBVIOUS
<1>4. /\ x \in 0 .. 2 * LORA_RING_SZ - 1
      /\ LORA_RING_SZ - 1 - u = IF x < LORA_RING_SZ THEN x ELSE x - LORA_RING_SZ
  BY <1>1, <1>2, <1>3 DEF Offsets
<1>5. x % LORA_RING_SZ = IF x < LORA_RING_SZ THEN x ELSE x - LORA_RING_SZ
  BY <1>1, <1>4, Wraps, SMT
<1> QED
  BY <1>3, <1>4, <1>5

\* The two bytes of a length give it back.
LEMMA LengthBack ==
  ASSUME NEW len \in Nat
  PROVE  /\ len % Base \in Nat /\ len \div Base \in Nat
         /\ (len % Base) + Base * (len \div Base) = len
  BY RingAssumption, Z3 DEF RingAssumption
\* A frame lies so many bytes behind the tail.
FrameAt(bytes, t, g, m) ==
  /\ bytes[Slot(t, g)] = Len(m) % Base /\ bytes[Slot(t, g + 1)] = Len(m) \div Base
  /\ \A i \in 1 .. Len(m) : bytes[Slot(t, g + 1 + i)] = m[i]

Unread == Len(popped) + 1 .. Len(tapped)

\* Where the unread frames lie: one behind the other from the tail to the head.
Laid(f) ==
  /\ f \in [Len(popped) + 1 .. Len(tapped) + 1 -> Offsets] /\ f[Len(popped) + 1] = 0
  /\ \A n \in Unread : \A m \in n + 1 .. Len(tapped) + 1 : f[n] + 2 + Len(tapped[n]) <= f[m]
  /\ \A n \in Unread : f[n + 1] = f[n] + 2 + Len(tapped[n])
  /\ \A n \in Unread : FrameAt(s_ring, s_tail, f[n], tapped[n])
  /\ s_head = Slot(s_tail, f[Len(tapped) + 1])

LoraType ==
  /\ s_ring \in [Offsets -> Nat] /\ s_head \in Offsets /\ s_tail \in Offsets
  /\ tapped \in Seq(Seq(Nat)) /\ pushes \in Nat /\ popped \in Seq(Seq(Nat))
  /\ Len(popped) <= Len(tapped)

Given == \A n \in 1 .. Len(popped) : popped[n] = IF Len(tapped[n]) > Cap THEN <<>> ELSE tapped[n]

LoraInv == LoraType /\ Given /\ \E f : Laid(f)

LEMMA LoraInit == ASSUME RInit PROVE LoraInv
<1>1. /\ s_ring = [i \in Offsets |-> 0] /\ s_head = 0 /\ s_tail = 0
      /\ tapped = <<>> /\ pushes = 0 /\ popped = <<>>
  BY DEF RInit, Offsets
<1>2. 0 \in Offsets
  BY RingAssumption DEF RingAssumption, Offsets
<1>3. LoraType /\ Len(popped) = 0 /\ Len(tapped) = 0
  BY <1>1, <1>2 DEF LoraType
<1>4. Given
  BY <1>3 DEF Given
<1>5. Laid([n \in Len(popped) + 1 .. Len(tapped) + 1 |-> 0])
  <2>1. Unread = {} /\ Len(popped) + 1 .. Len(tapped) + 1 = {1} /\ Len(tapped) + 1 = 1
    BY <1>3 DEF Unread
  <2>2. s_head = Slot(s_tail, 0)
    BY <1>1, <1>2, SlotIs
  <2> QED
    BY <1>2, <1>3, <2>1, <2>2 DEF Laid
<1> QED
  BY <1>3, <1>4, <1>5 DEF LoraInv

\* The bytes from the tail to the head are those of the unread frames.
LEMMA Order ==
  ASSUME LoraType, NEW f, Laid(f)
  PROVE  /\ f[Len(tapped) + 1] \in Offsets
         /\ \A n \in Unread : /\ f[n] \in Offsets /\ f[n + 1] \in Offsets /\ Len(tapped[n]) \in Nat
                              /\ f[n] + 2 + Len(tapped[n]) <= f[Len(tapped) + 1]
                              /\ tapped[n] \in Seq(Nat)
<1>1. Len(popped) \in Nat /\ Len(tapped) \in Nat /\ Len(popped) <= Len(tapped)
  BY DEF LoraType
<1>2. f \in [Len(popped) + 1 .. Len(tapped) + 1 -> Offsets]
  BY DEF Laid
<1>3. f[Len(tapped) + 1] \in Offsets
  BY <1>1, <1>2
<1>4. ASSUME NEW n \in Unread
      PROVE  /\ f[n] \in Offsets /\ f[n + 1] \in Offsets /\ tapped[n] \in Seq(Nat)
             /\ f[n] + 2 + Len(tapped[n]) <= f[Len(tapped) + 1]
  <2>1. n \in Len(popped) + 1 .. Len(tapped) + 1 /\ n + 1 \in Len(popped) + 1 .. Len(tapped) + 1
        /\ n \in 1 .. Len(tapped) /\ Len(tapped) + 1 \in n + 1 .. Len(tapped) + 1
    BY <1>1 DEF Unread
  <2>2. tapped[n] \in Seq(Nat)
    BY <2>1 DEF LoraType
  <2> QED
    BY <1>2, <2>1, <2>2 DEF Laid
<1> QED
  BY <1>3, <1>4

\* A frame that finds no room changes nothing of the ring.
LEMMA PushRefused ==
  ASSUME LoraInv, NEW len \in FrameLens, RingPush(len), UNCHANGED <<s_ring, s_head, tapped>>
  PROVE  LoraInv'
<1>1. UNCHANGED <<s_tail, popped>> /\ pushes' = pushes + 1
  BY DEF RingPush
<1>2. LoraType' /\ Given'
  BY <1>1 DEF LoraInv, LoraType, Given
<1>3. PICK f : Laid(f)
  BY DEF LoraInv
<1>4. Laid(f)'
  BY <1>1, <1>3 DEF Laid, Unread
<1> QED
  BY <1>2, <1>4 DEF LoraInv

\* What a frame brings into the ring.
Bytes(n, len) == <<len % Base, len \div Base>> \o Payload(n, len)

LEMMA BytesAre ==
  ASSUME NEW n \in Nat, NEW len \in Nat
  PROVE  /\ Payload(n, len) \in Seq(Nat) /\ Len(Payload(n, len)) = len
         /\ Bytes(n, len) \in Seq(Nat) /\ Len(Bytes(n, len)) = 2 + len
         /\ Bytes(n, len)[1] = len % Base /\ Bytes(n, len)[2] = len \div Base
         /\ \A i \in 1 .. len : Bytes(n, len)[2 + i] = Payload(n, len)[i]
<1>1. Payload(n, len) \in Seq(Nat) /\ Len(Payload(n, len)) = len
  BY DEF Payload
<1>2. len % Base \in Nat /\ len \div Base \in Nat
  BY LengthBack
<1>3. <<len % Base, len \div Base>> \in Seq(Nat) /\ Len(<<len % Base, len \div Base>>) = 2
  BY <1>2
<1>4. /\ Len(Bytes(n, len)) = 2 + len /\ Bytes(n, len) \in Seq(Nat)
      /\ \A i \in 1 .. 2 : Bytes(n, len)[i] = <<len % Base, len \div Base>>[i]
      /\ \A i \in 1 .. len : Bytes(n, len)[2 + i] = Payload(n, len)[i]
  <2>1. /\ Len(<<len % Base, len \div Base>> \o Payload(n, len)) = 2 + len
        /\ \A i \in 1 .. 2 : (<<len % Base, len \div Base>> \o Payload(n, len))[i] = <<len % Base, len \div Base>>[i]
        /\ \A i \in 1 .. len : (<<len % Base, len \div Base>> \o Payload(n, len))[2 + i] = Payload(n, len)[i]
    BY <1>1, <1>3, ConcatProperties
  <2>2. <<len % Base, len \div Base>> \o Payload(n, len) \in Seq(Nat)
    BY <1>1, <1>3
  <2> QED
    BY <2>1, <2>2 DEF Bytes
<1> QED
  BY <1>1, <1>4

\* A frame that fits: the bytes behind the head, and no other.
LEMMA PushBytes ==
  ASSUME LoraType, NEW u \in Offsets, s_head = Slot(s_tail, u), NEW len \in FrameLens, RingPush(len)
  PROVE  \/ UNCHANGED <<s_ring, s_head, tapped>>
         \/ /\ u + 2 + len \in Offsets /\ len \in Nat
            /\ s_ring' \in [Offsets -> Nat] /\ s_head' = Slot(s_tail, u + 2 + len)
            /\ tapped' = Append(tapped, Payload(pushes + 1, len))
            /\ \A o \in Offsets : o < u => s_ring'[Slot(s_tail, o)] = s_ring[Slot(s_tail, o)]
            /\ \A j \in 1 .. 2 + len : s_ring'[Slot(s_tail, u + j - 1)] = Bytes(pushes + 1, len)[j]
<1> DEFINE at(i) == ((i + LORA_RING_SZ - s_head) % LORA_RING_SZ) + 1
           b == Bytes(pushes + 1, len)
<1>1. LORA_RING_SZ \in Nat \ {0} /\ len \in Nat /\ s_tail \in Offsets /\ pushes + 1 \in Nat
  BY RingAssumption DEF RingAssumption, LoraType
<1>2. b \in Seq(Nat) /\ Len(b) = 2 + len
  BY <1>1, BytesAre
<1>3. RingFree = LORA_RING_SZ - 1 - u
  BY <1>1, FreeIs DEF RingFree
<1>4. \/ UNCHANGED <<s_ring, s_head, tapped>>
      \/ /\ 2 + len <= RingFree
         /\ s_ring' = [i \in DOMAIN s_ring |-> IF at(i) <= 2 + len THEN b[at(i)] ELSE s_ring[i]]
         /\ s_head' = (s_head + (2 + len)) % LORA_RING_SZ
         /\ tapped' = Append(tapped, Payload(pushes + 1, len))
  <2>1. IF Len(b) <= RingFree
        THEN /\ s_ring' = [i \in DOMAIN s_ring |-> IF at(i) <= Len(b) THEN b[at(i)] ELSE s_ring[i]]
             /\ s_head' = (s_head + Len(b)) % LORA_RING_SZ
             /\ tapped' = Append(tapped, Payload(pushes + 1, len))
        ELSE UNCHANGED <<s_ring, s_head, tapped>>
    BY Zenon DEF RingPush, Bytes
  <2> HIDE DEF b
  <2> QED
    BY <1>2, <2>1
<1>5. ASSUME /\ 2 + len <= RingFree
             /\ s_ring' = [i \in DOMAIN s_ring |-> IF at(i) <= 2 + len THEN b[at(i)] ELSE s_ring[i]]
             /\ s_head' = (s_head + (2 + len)) % LORA_RING_SZ
      PROVE  /\ u + 2 + len \in Offsets
             /\ s_ring' \in [Offsets -> Nat] /\ s_head' = Slot(s_tail, u + 2 + len)
             /\ \A o \in Offsets : o < u => s_ring'[Slot(s_tail, o)] = s_ring[Slot(s_tail, o)]
             /\ \A j \in 1 .. 2 + len : s_ring'[Slot(s_tail, u + j - 1)] = b[j]
  <2>1. u + 2 + len \in Offsets /\ u + (2 + len) = u + 2 + len /\ 2 + len \in Offsets
    BY <1>1, <1>3, <1>5 DEF Offsets
  <2>2. s_head' = Slot(s_tail, u + 2 + len)
    <3>1. Slot(Slot(s_tail, u), 2 + len) = Slot(s_tail, u + (2 + len))
      BY <1>1, <2>1, SlotAdds
    <3> QED
      BY <1>5, <2>1, <3>1 DEF Slot
  <2>3. \A i \in Offsets : s_ring'[i] = IF at(i) <= 2 + len THEN b[at(i)] ELSE s_ring[i]
    <3>1. DOMAIN s_ring = Offsets
      BY DEF LoraType
    <3> HIDE DEF at, b
    <3> QED
      BY <1>5, <3>1
  <2>4. \A o \in Offsets : /\ Slot(s_tail, o) \in Offsets
                           /\ at(Slot(s_tail, o)) = (IF o >= u THEN o - u ELSE o + LORA_RING_SZ - u) + 1
    BY <1>1, SlotBack, SlotIs
  <2>5. ASSUME NEW o \in Offsets, o < u
        PROVE  s_ring'[Slot(s_tail, o)] = s_ring[Slot(s_tail, o)]
    <3>1. at(Slot(s_tail, o)) = o + LORA_RING_SZ - u + 1 /\ Slot(s_tail, o) \in Offsets
      BY <1>1, <2>4, <2>5 DEF Offsets
    <3>2. ~(o + LORA_RING_SZ - u + 1 <= 2 + len)
      BY <1>1, <1>3, <1>5 DEF Offsets
    <3> HIDE DEF at, b
    <3> QED
      BY <2>3, <3>1, <3>2
  <2>6. ASSUME NEW j \in 1 .. 2 + len PROVE s_ring'[Slot(s_tail, u + j - 1)] = b[j]
    <3>1. u + j - 1 \in Offsets /\ u + j - 1 >= u /\ u + j - 1 - u + 1 = j /\ j <= 2 + len
      BY <1>1, <2>1 DEF Offsets
    <3>2. at(Slot(s_tail, u + j - 1)) = j /\ Slot(s_tail, u + j - 1) \in Offsets
      <4>1. PICK o \in Offsets : o = u + j - 1
        BY <3>1
      <4>2. o >= u /\ o - u + 1 = j
        BY <3>1, <4>1
      <4> HIDE DEF at
      <4>3. at(Slot(s_tail, o)) = j /\ Slot(s_tail, o) \in Offsets
        BY <2>4, <4>2
      <4> QED
        BY <4>1, <4>3
    <3> HIDE DEF at, b
    <3> QED
      BY <2>3, <3>1, <3>2
  <2>7. s_ring' \in [Offsets -> Nat]
    <3>1. \A i \in Offsets : at(i) \in Nat \ {0}
      <4> SUFFICES ASSUME NEW i \in Offsets PROVE at(i) \in Nat \ {0}
        OBVIOUS
      <4>1. i + LORA_RING_SZ - s_head \in 0 .. 2 * LORA_RING_SZ - 1
        BY <1>1 DEF Offsets, LoraType
      <4>2. (i + LORA_RING_SZ - s_head) % LORA_RING_SZ \in Nat
        BY <1>1, <4>1, Wraps, SMT
      <4> QED
        BY <4>2
    <3> HIDE DEF at, b
    <3>2. \A i \in Offsets : (IF at(i) <= 2 + len THEN b[at(i)] ELSE s_ring[i]) \in Nat
      BY <1>1, <1>2, <3>1 DEF LoraType
    <3>3. DOMAIN s_ring = Offsets
      BY DEF LoraType
    <3> QED
      BY <1>5, <3>2, <3>3
  <2> QED
    BY <2>1, <2>2, <2>5, <2>6, <2>7
<1> QED
  BY <1>1, <1>4, <1>5

LEMMA RingPushHolds == ASSUME LoraInv, NEW len \in FrameLens, RingPush(len) PROVE LoraInv'
<1>1. LoraType /\ Given
  BY DEF LoraInv
<1>2. PICK f : Laid(f)
  BY DEF LoraInv
<1> DEFINE P == Len(popped)
           T == Len(tapped)
           u == f[T + 1]
           m == Payload(pushes + 1, len)
<1>3. P \in Nat /\ T \in Nat /\ P <= T /\ pushes + 1 \in Nat /\ s_tail \in Offsets /\ LORA_RING_SZ \in Nat
  BY <1>1, RingAssumption DEF LoraType, RingAssumption
<1>4. u \in Offsets /\ s_head = Slot(s_tail, u)
  BY <1>1, <1>2, Order DEF Laid
<1>5. UNCHANGED <<s_tail, popped>> /\ pushes' = pushes + 1
  BY DEF RingPush
<1>6. CASE UNCHANGED <<s_ring, s_head, tapped>>
  BY <1>6, PushRefused
<1>7. CASE /\ u + 2 + len \in Offsets /\ len \in Nat
           /\ s_ring' \in [Offsets -> Nat] /\ s_head' = Slot(s_tail, u + 2 + len)
           /\ tapped' = Append(tapped, m)
           /\ \A o \in Offsets : o < u => s_ring'[Slot(s_tail, o)] = s_ring[Slot(s_tail, o)]
           /\ \A j \in 1 .. 2 + len : s_ring'[Slot(s_tail, u + j - 1)] = Bytes(pushes + 1, len)[j]
  <2>1. m \in Seq(Nat) /\ Len(m) = len
    BY <1>3, <1>7, BytesAre
  <2>2. /\ tapped' \in Seq(Seq(Nat)) /\ Len(tapped') = T + 1 /\ tapped'[T + 1] = m
        /\ \A n \in 1 .. T : tapped'[n] = tapped[n]
    <3> HIDE DEF m
    <3> QED
      BY <1>1, <1>7, <2>1 DEF LoraType
  <2>3. LoraType'
    <3>1. s_head' \in Offsets
      BY <1>3, <1>7, SlotIs
    <3> QED
      BY <1>1, <1>3, <1>5, <1>7, <2>2, <3>1 DEF LoraType
  <2>4. Given'
    <3>1. \A n \in 1 .. P : tapped'[n] = tapped[n]
      BY <1>3, <2>2
    <3> QED
      BY <1>1, <1>5, <3>1 DEF Given
  <2> DEFINE g == [n \in P + 1 .. T + 2 |-> IF n <= T + 1 THEN f[n] ELSE u + 2 + len]
  <2>5. /\ \A n \in P + 1 .. T + 1 : g[n] = f[n] /\ f[n] \in Offsets
        /\ g[T + 2] = u + 2 + len /\ g \in [P + 1 .. T + 2 -> Offsets]
    <3>1. f \in [P + 1 .. T + 1 -> Offsets]
      BY <1>2 DEF Laid
    <3>2. ASSUME NEW n \in P + 1 .. T + 2 PROVE (IF n <= T + 1 THEN f[n] ELSE u + 2 + len) \in Offsets
      <4>1. n <= T + 1 => n \in P + 1 .. T + 1
        BY <1>3
      <4> QED
        BY <1>7, <3>1, <4>1
    <3> HIDE DEF u
    <3> QED
      BY <1>3, <3>1, <3>2
  <2>6. Unread' = P + 1 .. T + 1 /\ Len(popped') + 1 = P + 1 /\ Len(tapped') + 1 = T + 2
    BY <1>3, <1>5, <2>2 DEF Unread
  <2>7. ASSUME NEW n \in P + 1 .. T + 1
        PROVE  /\ \A q \in n + 1 .. T + 2 : g[n] + 2 + Len(tapped'[n]) <= g[q]
               /\ g[n + 1] = g[n] + 2 + Len(tapped'[n])
               /\ FrameAt(s_ring', s_tail, g[n], tapped'[n])
    <3>1. CASE n = T + 1
      <4>1. g[n] = u /\ tapped'[n] = m /\ g[n + 1] = u + 2 + len /\ n + 1 = T + 2
        BY <1>3, <2>2, <2>5, <3>1
      <4>2. \A q \in n + 1 .. T + 2 : q = T + 2
        BY <1>3, <3>1
      <4>3. g[n] + 2 + Len(tapped'[n]) = u + 2 + len
        BY <2>1, <4>1
      <4>4. FrameAt(s_ring', s_tail, u, m)
        <5>1. u \in Nat /\ u + 1 - 1 = u /\ u + 2 - 1 = u + 1 /\ \A i \in 1 .. len : u + (2 + i) - 1 = u + 1 + i
          BY <1>4, <1>7 DEF Offsets
        <5>2. /\ 1 \in 1 .. 2 + len /\ 2 \in 1 .. 2 + len /\ \A i \in 1 .. len : 2 + i \in 1 .. 2 + len
          BY <1>7
        <5>3. /\ Bytes(pushes + 1, len)[1] = len % Base /\ Bytes(pushes + 1, len)[2] = len \div Base
              /\ \A i \in 1 .. len : Bytes(pushes + 1, len)[2 + i] = m[i]
          BY <1>3, <1>7, BytesAre
        <5>4. s_ring'[Slot(s_tail, u)] = len % Base /\ s_ring'[Slot(s_tail, u + 1)] = len \div Base
          <6>1. /\ s_ring'[Slot(s_tail, u + 1 - 1)] = Bytes(pushes + 1, len)[1]
                /\ s_ring'[Slot(s_tail, u + 2 - 1)] = Bytes(pushes + 1, len)[2]
            BY <1>7, <5>2
          <6> QED
            BY <5>1, <5>3, <6>1
        <5>5. ASSUME NEW i \in 1 .. len PROVE s_ring'[Slot(s_tail, u + 1 + i)] = m[i]
          <6>1. s_ring'[Slot(s_tail, u + (2 + i) - 1)] = Bytes(pushes + 1, len)[2 + i]
            BY <1>7, <5>2
          <6> QED
            BY <5>1, <5>3, <6>1
        <5> HIDE DEF u, m
        <5> QED
          BY <2>1, <5>4, <5>5 DEF FrameAt
      <4>5. g[T + 2] = u + 2 + len
        BY <2>5
      <4> HIDE DEF g, u, m
      <4>6. \A q \in n + 1 .. T + 2 : g[n] + 2 + Len(tapped'[n]) <= g[q]
        <5>1. u + 2 + len <= u + 2 + len
          BY <1>4, <1>7 DEF Offsets
        <5> QED
          BY <4>2, <4>3, <4>5, <5>1
      <4>7. FrameAt(s_ring', s_tail, g[n], tapped'[n])
        BY <4>1, <4>4, Zenon
      <4> QED
        BY <4>1, <4>3, <4>6, <4>7
    <3>2. CASE n # T + 1
      <4>1. n \in Unread /\ n \in 1 .. T /\ n + 1 \in P + 1 .. T + 1
        BY <1>3, <3>2 DEF Unread
      <4>2. tapped'[n] = tapped[n] /\ g[n] = f[n] /\ g[n + 1] = f[n + 1]
        BY <2>2, <2>5, <4>1
      <4>3. /\ f[n] \in Offsets /\ Len(tapped[n]) \in Nat
            /\ f[n] + 2 + Len(tapped[n]) <= u
        BY <1>1, <1>2, <4>1, Order
      <4>4. /\ \A q \in n + 1 .. T + 1 : f[n] + 2 + Len(tapped[n]) <= f[q]
            /\ f[n + 1] = f[n] + 2 + Len(tapped[n])
            /\ FrameAt(s_ring, s_tail, f[n], tapped[n])
        BY <1>2, <4>1 DEF Laid
      <4>5. ASSUME NEW q \in n + 1 .. T + 2 PROVE f[n] + 2 + Len(tapped[n]) <= g[q]
        <5>1. CASE q = T + 2
          <6>1. g[q] = u + 2 + len
            BY <2>5, <5>1
          <6> HIDE DEF g, u
          <6> QED
            BY <1>4, <1>7, <4>3, <6>1 DEF Offsets
        <5>2. CASE q # T + 2
          <6>1. q \in n + 1 .. T + 1 /\ q \in P + 1 .. T + 1
            BY <1>3, <5>2
          <6> HIDE DEF g
          <6> QED
            BY <2>5, <4>4, <6>1
        <5> QED
          BY <5>1, <5>2
      <4>6. FrameAt(s_ring', s_tail, f[n], tapped[n])
        <5>1. \A o \in f[n] .. f[n] + 1 + Len(tapped[n]) : s_ring'[Slot(s_tail, o)] = s_ring[Slot(s_tail, o)]
          <6>1. ASSUME NEW o \in f[n] .. f[n] + 1 + Len(tapped[n]) PROVE o \in Offsets /\ o < u
            <7>1. PICK a \in Offsets : a = f[n]
              BY <4>3
            <7>2. PICK e \in Offsets : e = u
              BY <1>4
            <7>3. PICK l \in Nat : l = Len(tapped[n])
              BY <4>3
            <7> HIDE DEF u, T
            <7>4. o \in a .. a + 1 + l /\ a + 2 + l <= e
              BY <4>3, <7>1, <7>2, <7>3
            <7>5. LORA_RING_SZ \in Nat
              BY <1>3
            <7>6. o \in Offsets /\ o < e
              BY <7>4, <7>5 DEF Offsets
            <7> QED
              BY <7>2, <7>6
          <6> QED
            BY <1>7, <6>1
        <5>2. /\ f[n] \in f[n] .. f[n] + 1 + Len(tapped[n]) /\ f[n] + 1 \in f[n] .. f[n] + 1 + Len(tapped[n])
              /\ \A i \in 1 .. Len(tapped[n]) : f[n] + 1 + i \in f[n] .. f[n] + 1 + Len(tapped[n])
          BY <4>3 DEF Offsets
        <5> QED
          BY <4>4, <5>1, <5>2 DEF FrameAt
      <4> HIDE DEF g
      <4> QED
        BY <4>2, <4>4, <4>5, <4>6
    <3> QED
      BY <3>1, <3>2
  <2>8. PICK h : h = g
    OBVIOUS
  <2>9. Laid(h)'
    <3>1. g[P + 1] = 0
      <4>1. P + 1 \in P + 1 .. T + 1 /\ f[P + 1] = 0
        BY <1>2, <1>3 DEF Laid
      <4> HIDE DEF g
      <4> QED
        BY <2>5, <4>1
    <3>2. s_head' = Slot(s_tail, g[T + 2])
      BY <1>7, <2>5
    <3> HIDE DEF g
    <3>3. h[P + 1] = 0 /\ s_head' = Slot(s_tail, h[T + 2]) /\ h \in [P + 1 .. T + 2 -> Offsets]
      BY <2>5, <2>8, <3>1, <3>2
    <3>4. ASSUME NEW n \in P + 1 .. T + 1
          PROVE  /\ \A q \in n + 1 .. T + 2 : h[n] + 2 + Len(tapped'[n]) <= h[q]
                 /\ h[n + 1] = h[n] + 2 + Len(tapped'[n])
                 /\ FrameAt(s_ring', s_tail, h[n], tapped'[n])
      BY <2>7, <2>8, Zenon
    <3> QED
      BY <1>5, <2>6, <3>3, <3>4 DEF Laid
  <2> QED
    BY <2>3, <2>4, <2>9 DEF LoraInv
<1> QED
  BY <1>1, <1>4, <1>6, <1>7, PushBytes

LEMMA LoraTapPopHolds == ASSUME LoraInv, LoraTapPop PROVE LoraInv'
<1>1. LoraType /\ Given
  BY DEF LoraInv
<1>2. PICK f : Laid(f)
  BY DEF LoraInv
<1> DEFINE P == Len(popped)
           T == Len(tapped)
           byte(i) == s_ring[(s_tail + i) % LORA_RING_SZ]
           len == byte(0) + Base * byte(1)
           m == tapped[P + 1]
<1>3. P \in Nat /\ T \in Nat /\ P <= T /\ s_tail \in Offsets /\ LORA_RING_SZ \in Nat
  BY <1>1, RingAssumption DEF LoraType, RingAssumption
<1>4. /\ s_head # s_tail /\ s_tail' = (s_tail + 2 + len) % LORA_RING_SZ
      /\ popped' = Append(popped, IF len > Cap THEN <<>> ELSE [i \in 1 .. len |-> byte(1 + i)])
      /\ UNCHANGED <<s_ring, s_head, tapped, pushes>>
  BY DEF LoraTapPop
<1>5. P < T
  <2>1. P = T => s_head = Slot(s_tail, 0)
    BY <1>2 DEF Laid
  <2>2. s_tail = Slot(s_tail, 0)
    <3>1. 0 \in Offsets
      BY RingAssumption DEF RingAssumption, Offsets
    <3> QED
      BY <1>3, <3>1, SlotIs
  <2> QED
    BY <1>3, <1>4, <2>1, <2>2
<1>6. P + 1 \in Unread /\ P + 1 \in 1 .. T
  BY <1>3, <1>5 DEF Unread
<1>7. /\ f[P + 1] = 0 /\ f[P + 2] \in Offsets /\ m \in Seq(Nat) /\ Len(m) \in Nat
      /\ f[P + 2] = 2 + Len(m) /\ FrameAt(s_ring, s_tail, 0, m)
  <2>1. (P + 1) + 1 = P + 2
    BY <1>3
  <2>2. f[P + 2] \in Offsets /\ m \in Seq(Nat)
    BY <1>1, <1>2, <1>6, <2>1, Order
  <2>3. /\ f[P + 1] = 0 /\ f[P + 2] = f[P + 1] + 2 + Len(m)
        /\ FrameAt(s_ring, s_tail, f[P + 1], m)
    BY <1>2, <1>6, <2>1 DEF Laid
  <2> QED
    BY <2>2, <2>3
<1>8. /\ byte(0) = Len(m) % Base /\ byte(1) = Len(m) \div Base
      /\ \A i \in 1 .. Len(m) : byte(1 + i) = m[i]
  BY <1>7 DEF FrameAt, Slot
<1>9. len = Len(m)
  <2> HIDE DEF byte, m
  <2> QED
    BY <1>7, <1>8, LengthBack
<1>10. Append(popped, IF Len(m) > Cap THEN <<>> ELSE m) = popped'
  <2>1. [i \in 1 .. Len(m) |-> byte(1 + i)] = m
    <3> HIDE DEF byte
    <3> QED
      BY <1>7, <1>8
  <2> HIDE DEF byte, len
  <2> QED
    BY <1>4, <1>9, <2>1
<1>11. /\ popped' \in Seq(Seq(Nat)) /\ Len(popped') = P + 1
       /\ popped'[P + 1] = (IF Len(m) > Cap THEN <<>> ELSE m)
       /\ \A n \in 1 .. P : popped'[n] = popped[n]
  <2>1. (IF Len(m) > Cap THEN <<>> ELSE m) \in Seq(Nat)
    BY <1>7
  <2>2. PICK w \in Seq(Nat) : w = IF Len(m) > Cap THEN <<>> ELSE m
    BY <2>1
  <2>3. popped' = Append(popped, w)
    BY <1>10, <2>2
  <2> QED
    BY <1>1, <2>2, <2>3 DEF LoraType
<1>12. Given'
  <2> SUFFICES ASSUME NEW n \in 1 .. P + 1
               PROVE  popped'[n] = IF Len(tapped[n]) > Cap THEN <<>> ELSE tapped[n]
    BY <1>4, <1>11 DEF Given
  <2>1. CASE n = P + 1
    BY <1>11, <2>1
  <2>2. CASE n # P + 1
    <3>1. n \in 1 .. P
      BY <1>3, <2>2
    <3> QED
      BY <1>1, <1>11, <3>1 DEF Given
  <2> QED
    BY <2>1, <2>2
<1> DEFINE d == f[P + 2]
<1>13. s_tail' = Slot(s_tail, d) /\ s_tail' \in Offsets
  <2>1. s_tail' = (s_tail + (2 + Len(m))) % LORA_RING_SZ
    <3>1. s_tail + 2 + len = s_tail + (2 + Len(m))
      <4> HIDE DEF len, m
      <4> QED
        BY <1>3, <1>7, <1>9 DEF Offsets
    <3> QED
      BY <1>4, <3>1
  <2> QED
    BY <1>3, <1>7, <2>1, SlotIs DEF Slot
<1>14. LoraType'
  <2>1. P + 1 <= T
    BY <1>3, <1>5
  <2> QED
    BY <1>1, <1>4, <1>11, <1>13, <2>1 DEF LoraType
<1> DEFINE g == [n \in P + 2 .. T + 1 |-> f[n] - d]
<1>15. \A n \in P + 2 .. T + 1 : f[n] \in Offsets /\ d <= f[n]
  <2> SUFFICES ASSUME NEW n \in P + 2 .. T + 1 PROVE f[n] \in Offsets /\ d <= f[n]
    OBVIOUS
  <2>1. n \in P + 1 .. T + 1 /\ n \in (P + 1) + 1 .. T + 1
    BY <1>3
  <2>2. f[n] \in Offsets /\ f[P + 1] + 2 + Len(m) <= f[n]
    BY <1>2, <1>6, <2>1 DEF Laid
  <2> HIDE DEF m
  <2> QED
    BY <1>7, <2>2
<1>16. d \in Offsets /\ d \in Nat
  BY <1>7 DEF Offsets
<1> HIDE DEF d
<1>17. /\ g \in [P + 2 .. T + 1 -> Offsets]
       /\ \A n \in P + 2 .. T + 1 : g[n] = f[n] - d
  BY <1>3, <1>15, <1>16 DEF Offsets
<1> HIDE DEF g
<1>18. Unread' = P + 2 .. T /\ Len(popped') + 1 = P + 2 /\ Len(tapped') + 1 = T + 1
  BY <1>3, <1>4, <1>11 DEF Unread
<1>19. ASSUME NEW n \in P + 2 .. T + 1, NEW o \in Nat, f[n] + o \in Offsets
       PROVE  Slot(s_tail', g[n] + o) = Slot(s_tail, f[n] + o)
  <2>1. g[n] + o \in Offsets /\ d + (g[n] + o) = f[n] + o
    BY <1>3, <1>15, <1>16, <1>17, <1>19 DEF Offsets
  <2>2. d + (g[n] + o) \in Offsets
    BY <1>19, <2>1
  <2>3. Slot(Slot(s_tail, d), g[n] + o) = Slot(s_tail, d + (g[n] + o))
    BY <1>3, <1>16, <2>1, <2>2, SlotAdds
  <2> QED
    BY <1>13, <2>1, <2>3, Zenon
<1>20. ASSUME NEW n \in P + 2 .. T
       PROVE  /\ \A q \in n + 1 .. T + 1 : g[n] + 2 + Len(tapped[n]) <= g[q]
              /\ g[n + 1] = g[n] + 2 + Len(tapped[n])
              /\ FrameAt(s_ring, s_tail', g[n], tapped[n])
  <2>1. n \in Unread /\ n \in P + 2 .. T + 1 /\ n + 1 \in P + 2 .. T + 1
    BY <1>3 DEF Unread
  <2>2. /\ \A q \in n + 1 .. T + 1 : f[n] + 2 + Len(tapped[n]) <= f[q]
        /\ f[n + 1] = f[n] + 2 + Len(tapped[n])
        /\ FrameAt(s_ring, s_tail, f[n], tapped[n])
    BY <1>2, <2>1 DEF Laid
  <2>3. f[n] \in Offsets /\ f[n + 1] \in Offsets /\ Len(tapped[n]) \in Nat
    BY <1>1, <1>2, <2>1, Order
  <2>4. ASSUME NEW q \in n + 1 .. T + 1 PROVE g[n] + 2 + Len(tapped[n]) <= g[q]
    <3>1. q \in P + 2 .. T + 1
      BY <1>3
    <3>2. f[q] \in Offsets /\ g[q] = f[q] - d /\ g[n] = f[n] - d
      BY <1>15, <1>17, <2>1, <3>1
    <3>3. f[n] + 2 + Len(tapped[n]) <= f[q]
      BY <2>2
    <3>4. PICK a \in Offsets, b \in Offsets : a = f[n] /\ b = f[q]
      BY <2>3, <3>2
    <3>5. a - d + 2 + Len(tapped[n]) <= b - d
      BY <1>16, <2>3, <3>3, <3>4 DEF Offsets
    <3> QED
      BY <3>2, <3>4, <3>5
  <2>5. g[n + 1] = g[n] + 2 + Len(tapped[n])
    <3>1. PICK a \in Offsets, l \in Nat : a = f[n] /\ l = Len(tapped[n])
      BY <2>3
    <3>2. f[n + 1] = a + 2 + l
      BY <2>2, <3>1
    <3>3. g[n + 1] = (a + 2 + l) - d /\ g[n] = a - d
      BY <1>17, <2>1, <3>1, <3>2
    <3>4. (a + 2 + l) - d = (a - d) + 2 + l
      BY <1>16 DEF Offsets
    <3> QED
      BY <3>1, <3>3, <3>4
  <2>6. FrameAt(s_ring, s_tail', g[n], tapped[n])
    <3>1. ASSUME NEW o \in 0 .. 1 + Len(tapped[n])
          PROVE  Slot(s_tail', g[n] + o) = Slot(s_tail, f[n] + o)
      <4>1. o \in Nat /\ f[n] + o \in Offsets
        BY <1>3, <2>2, <2>3 DEF Offsets
      <4> QED
        BY <1>19, <2>1, <4>1
    <3>2. /\ 0 \in 0 .. 1 + Len(tapped[n]) /\ 1 \in 0 .. 1 + Len(tapped[n])
          /\ \A i \in 1 .. Len(tapped[n]) : 1 + i \in 0 .. 1 + Len(tapped[n])
      BY <2>3
    <3>3. /\ g[n] + 0 = g[n] /\ f[n] + 0 = f[n]
          /\ \A i \in 1 .. Len(tapped[n]) : g[n] + (1 + i) = g[n] + 1 + i /\ f[n] + (1 + i) = f[n] + 1 + i
      BY <1>17, <2>1, <2>3 DEF Offsets
    <3>4. Slot(s_tail', g[n]) = Slot(s_tail, f[n]) /\ Slot(s_tail', g[n] + 1) = Slot(s_tail, f[n] + 1)
      BY <3>1, <3>2, <3>3
    <3>5. \A i \in 1 .. Len(tapped[n]) : Slot(s_tail', g[n] + 1 + i) = Slot(s_tail, f[n] + 1 + i)
      BY <3>1, <3>2, <3>3
    <3> QED
      BY <2>2, <3>4, <3>5 DEF FrameAt
  <2> QED
    BY <2>4, <2>5, <2>6
<1>21. PICK h : h = g
  OBVIOUS
<1>22. Laid(h)'
  <2>1. P + 2 \in P + 2 .. T + 1 /\ T + 1 \in P + 2 .. T + 1
    BY <1>3, <1>5
  <2>2. g[P + 2] = 0
    BY <1>16, <1>17, <2>1 DEF d
  <2>3. s_head' = Slot(s_tail', g[T + 1])
    <3>1. f[T + 1] \in Offsets /\ s_head = Slot(s_tail, f[T + 1])
      BY <1>2, <1>15, <2>1 DEF Laid
    <3>2. /\ 0 \in Nat /\ f[T + 1] + 0 = f[T + 1] /\ g[T + 1] + 0 = g[T + 1]
      BY <1>17, <2>1, <3>1 DEF Offsets
    <3>3. f[T + 1] + 0 \in Offsets
      BY <3>1, <3>2
    <3>4. Slot(s_tail', g[T + 1] + 0) = Slot(s_tail, f[T + 1] + 0)
      BY <1>19, <2>1, <3>2, <3>3
    <3> QED
      BY <1>4, <3>1, <3>2, <3>4
  <2>4. /\ h[P + 2] = 0 /\ s_head' = Slot(s_tail', h[T + 1]) /\ h \in [P + 2 .. T + 1 -> Offsets]
    BY <1>17, <1>21, <2>2, <2>3
  <2>5. ASSUME NEW n \in P + 2 .. T
        PROVE  /\ \A q \in n + 1 .. T + 1 : h[n] + 2 + Len(tapped[n]) <= h[q]
               /\ h[n + 1] = h[n] + 2 + Len(tapped[n])
               /\ FrameAt(s_ring, s_tail', h[n], tapped[n])
    BY <1>20, <1>21, Zenon
  <2> QED
    BY <1>4, <1>18, <2>4, <2>5 DEF Laid
<1> QED
  BY <1>12, <1>14, <1>22 DEF LoraInv

(***************************************************************************)
(* The reader gets the frames that were let in, whole, once and in order,  *)
(* and the ring is empty only when it has got them all, for every size of  *)
(* the ring, every set of lengths, every base of the length bytes and any  *)
(* number of frames.                                                       *)
(***************************************************************************)
THEOREM FramesStayWhole == RSpec => []FramesWhole
<1>1. RInit => LoraInv
  BY LoraInit
<1>2. LoraInv /\ [RNext]_ringVars => LoraInv'
  <2>1. LoraInv /\ UNCHANGED ringVars => LoraInv'
    BY Zenon DEF LoraInv, LoraType, Given, Laid, Unread, ringVars
  <2> QED
    BY <2>1, RingPushHolds, LoraTapPopHolds DEF RNext
<1>3. LoraInv => FramesWhole
  <2> SUFFICES ASSUME LoraInv PROVE FramesWhole
    OBVIOUS
  <2>1. LoraType /\ Given
    BY DEF LoraInv
  <2>2. PICK f : Laid(f)
    BY DEF LoraInv
  <2>3. Len(popped) \in Nat /\ Len(tapped) \in Nat /\ Len(popped) <= Len(tapped) /\ s_tail \in Offsets
    BY <2>1 DEF LoraType
  <2>4. f[Len(tapped) + 1] \in Offsets /\ s_head = Slot(s_tail, f[Len(tapped) + 1])
    BY <2>1, <2>2, Order DEF Laid
  <2>5. CASE Len(popped) = Len(tapped)
    <3>1. f[Len(tapped) + 1] = 0
      BY <2>2, <2>5 DEF Laid
    <3>2. s_head = s_tail
      BY <2>3, <2>4, <3>1, SlotIs
    <3> QED
      BY <2>1, <2>3, <2>5, <3>2 DEF FramesWhole, Given
  <2>6. CASE Len(popped) # Len(tapped)
    <3>1. Len(tapped) \in Unread
      BY <2>3, <2>6 DEF Unread
    <3>2. f[Len(tapped) + 1] >= 2
      BY <2>1, <2>2, <3>1, Order DEF Offsets
    <3>3. s_head # s_tail
      <4>1. LORA_RING_SZ \in Nat \ {0}
        BY RingAssumption DEF RingAssumption
      <4>2. PICK u \in Offsets : u = f[Len(tapped) + 1]
        BY <2>4
      <4>3. s_head = IF s_tail + u < LORA_RING_SZ THEN s_tail + u ELSE s_tail + u - LORA_RING_SZ
        BY <2>3, <2>4, <4>2, SlotIs
      <4> QED
        BY <2>3, <3>2, <4>1, <4>2, <4>3 DEF Offsets
    <3> QED
      BY <2>1, <2>3, <2>6, <3>3 DEF FramesWhole, Given
  <2> QED
    BY <2>5, <2>6
<1> QED
  BY <1>1, <1>2, <1>3, PTL DEF RSpec

---------------------------------------------------------------------------
(* LinkTimers: an age is a difference modulo the width of the clock, so    *)
(* that a tick makes it one older and two ages are compared as numbers.    *)

Ticks == 0 .. Wrap - 1

LEMMA ClockWraps ==
  ASSUME NEW x \in 0 .. 2 * Wrap - 1
  PROVE  (x < Wrap => x % Wrap = x) /\ (x >= Wrap => x % Wrap = x - Wrap)
<1>1. Wrap \in Nat \ {0}
  BY TimersAssumption DEF TimersAssumption
<1> QED
  BY <1>1, Z3

LEMMA AgeIs ==
  ASSUME NEW now \in Ticks, NEW stamp \in Ticks
  PROVE  Age(now, stamp) = (IF now >= stamp THEN now - stamp ELSE now - stamp + Wrap)
         /\ Age(now, stamp) \in Ticks /\ Age(now, now) = 0
<1>1. Wrap \in Nat \ {0}
  BY TimersAssumption DEF TimersAssumption
<1>2. now + Wrap - stamp \in 0 .. 2 * Wrap - 1 /\ now + Wrap - now \in 0 .. 2 * Wrap - 1
  BY <1>1 DEF Ticks
<1>3. /\ (now + Wrap - stamp) % Wrap = IF now >= stamp THEN now - stamp ELSE now - stamp + Wrap
      /\ (now + Wrap - now) % Wrap = 0
  BY <1>1, <1>2, ClockWraps DEF Ticks
<1> QED
  BY <1>1, <1>3 DEF Age, Ticks

\* A tick makes every age one older, until it wraps.
LEMMA AgeTicks ==
  ASSUME NEW now \in Ticks, NEW stamp \in Ticks
  PROVE  /\ (now + 1) % Wrap \in Ticks
         /\ Age(now, stamp) + 1 < Wrap => Age((now + 1) % Wrap, stamp) = Age(now, stamp) + 1
<1>1. Wrap \in Nat \ {0}
  BY TimersAssumption DEF TimersAssumption
<1>2. PICK next : next = (now + 1) % Wrap
  OBVIOUS
<1>3. now + 1 \in 0 .. 2 * Wrap - 1
  BY <1>1 DEF Ticks
<1>4. next = (IF now + 1 < Wrap THEN now + 1 ELSE 0) /\ next \in Ticks
  BY <1>1, <1>2, <1>3, ClockWraps DEF Ticks
<1>5. /\ Age(now, stamp) = (IF now >= stamp THEN now - stamp ELSE now - stamp + Wrap)
      /\ Age(next, stamp) = (IF next >= stamp THEN next - stamp ELSE next - stamp + Wrap)
  BY <1>4, AgeIs
<1> QED
  BY <1>1, <1>2, <1>4, <1>5 DEF Ticks

\* A younger and an older time: the age between them is the difference of their ages.
LEMMA AgeBetween ==
  ASSUME NEW now \in Ticks, NEW asked \in Ticks, NEW stamp \in Ticks,
         Age(now, asked) <= Age(now, stamp)
  PROVE  Age(asked, stamp) = Age(now, stamp) - Age(now, asked)
<1>1. Wrap \in Nat \ {0}
  BY TimersAssumption DEF TimersAssumption
<1>2. /\ Age(now, stamp) = (IF now >= stamp THEN now - stamp ELSE now - stamp + Wrap)
      /\ Age(now, asked) = (IF now >= asked THEN now - asked ELSE now - asked + Wrap)
      /\ Age(asked, stamp) = (IF asked >= stamp THEN asked - stamp ELSE asked - stamp + Wrap)
  BY AgeIs
<1> QED
  BY <1>1, <1>2 DEF Ticks

Feeds == {<<>>, <<"gcs">>, <<"companion">>, <<"gcs", "companion">>}

TimerType ==
  /\ clock \in Ticks /\ seen \in [Links -> BOOLEAN] /\ last \in [Links -> Ticks] /\ feed \in Feeds
  /\ check \in [link : Links \cup {"none"}, now : Ticks] /\ lost \in [Links -> BOOLEAN]
  /\ silent \in [Links -> 0 .. Wrap] /\ overtaken \in BOOLEAN

\* A heartbeat in hand has come within the lag; of a link stamped since, the stamp is at
\* most the lag younger than the heartbeat.
StampInv ==
  \A l \in Links :
    /\ InHand(l) => silent[l] <= Lag
    /\ seen[l] /\ ~InHand(l) /\ silent[l] < Wrap =>
         Age(clock, last[l]) <= silent[l] /\ silent[l] <= Age(clock, last[l]) + Lag

\* The time read for a check is at most the lag old.  Unless a heartbeat overtakes the
\* check, the stamp was no older then than the silence is now.
CheckInv ==
  check # Resting =>
    /\ check.link \in Links /\ seen[check.link] /\ Age(clock, check.now) <= Lag
    /\ ~overtaken => /\ ~InHand(check.link)
                     /\ silent[check.link] < Wrap =>
                          Age(check.now, last[check.link]) <= silent[check.link]

TimerInv == TimerType /\ StampInv /\ CheckInv

LEMMA FeedFacts ==
  ASSUME feed \in Feeds
  PROVE  /\ feed # <<>> => /\ Head(feed) \in Links /\ Tail(feed) \in Feeds /\ InHand(Head(feed))
                           /\ \A l : (\E i \in 1 .. Len(Tail(feed)) : Tail(feed)[i] = l)
                                       <=> InHand(l) /\ l # Head(feed)
         /\ feed = <<>> => \A l : ~InHand(l)
<1>1. CASE feed = <<>>
  BY <1>1 DEF InHand
<1>2. CASE feed = <<"gcs">> \/ feed = <<"companion">>
  <2>1. PICK x \in Links : feed = <<x>>
    BY <1>2 DEF Links
  <2>2. Head(feed) = x /\ Tail(feed) = <<>> /\ Len(feed) = 1 /\ feed[1] = x /\ Len(Tail(feed)) = 0
    BY <2>1
  <2> QED
    BY <2>1, <2>2 DEF InHand, Feeds
<1>3. CASE feed = <<"gcs", "companion">>
  <2>1. /\ Head(feed) = "gcs" /\ Tail(feed) = <<"companion">> /\ Len(feed) = 2 /\ feed[1] = "gcs"
        /\ feed[2] = "companion" /\ Len(Tail(feed)) = 1 /\ Tail(feed)[1] = "companion"
    BY <1>3
  <2>2. \A l : InHand(l) <=> l = "gcs" \/ l = "companion"
    BY <2>1 DEF InHand
  <2>3. \A l : (\E i \in 1 .. Len(Tail(feed)) : Tail(feed)[i] = l) <=> l = "companion"
    <3>1. PICK rest : rest = Tail(feed)
      OBVIOUS
    <3>2. 1 .. Len(rest) = {1} /\ rest[1] = "companion"
      BY <2>1, <3>1
    <3> QED
      BY <3>1, <3>2, Zenon
  <2>4. Tail(feed) \in Feeds /\ feed # <<>>
    BY <2>1 DEF Feeds
  <2>5. \A l : (\E i \in 1 .. Len(Tail(feed)) : Tail(feed)[i] = l) <=> InHand(l) /\ l # Head(feed)
    BY <2>1, <2>2, <2>3
  <2> QED
    BY <2>1, <2>2, <2>4, <2>5 DEF Links
<1> QED
  BY <1>1, <1>2, <1>3 DEF Feeds

LEMMA RestingIs == Resting.link = "none" /\ "none" \notin Links /\ {"gcs", "companion"} = Links
BY DEF Resting, Links

LEMMA TimersInit == LInit => TimerInv
<1> SUFFICES ASSUME LInit PROVE TimerInv
  OBVIOUS
<1>1. Wrap \in Nat \ {0}
  BY TimersAssumption DEF TimersAssumption
<1>2. /\ clock \in Ticks /\ seen = [l \in Links |-> FALSE] /\ last = [l \in Links |-> 0]
      /\ feed = <<>> /\ check = Resting /\ lost = [l \in Links |-> FALSE]
      /\ silent = [l \in Links |-> Wrap] /\ overtaken = FALSE
  BY DEF LInit, Ticks
<1>3. TimerType
  <2>1. 0 \in Ticks /\ Wrap \in 0 .. Wrap
    BY <1>1 DEF Ticks
  <2>2. Resting \in [link : Links \cup {"none"}, now : Ticks]
    BY <2>1 DEF Resting
  <2>3. last \in [Links -> Ticks] /\ silent \in [Links -> 0 .. Wrap]
    BY <1>2, <2>1, Zenon
  <2>4. seen \in [Links -> BOOLEAN] /\ lost \in [Links -> BOOLEAN] /\ overtaken \in BOOLEAN
    BY <1>2, Zenon
  <2> QED
    BY <1>2, <2>2, <2>3, <2>4 DEF TimerType, Feeds
<1>4. \A l : ~InHand(l)
  BY <1>2, <1>3, FeedFacts DEF TimerType
<1> QED
  BY <1>2, <1>3, <1>4 DEF TimerInv, StampInv, CheckInv

LEMMA HeartbeatHolds == ASSUME TimerInv, Heartbeat PROVE TimerInv'
<1>1. TimerType /\ StampInv /\ CheckInv
  BY DEF TimerInv
<1>2. PICK sender \in Links :
        /\ feed' = FedBy(sender)
        /\ silent' = [l \in Links |-> IF l = "gcs" \/ l = sender THEN 0 ELSE silent[l]]
        /\ overtaken' = (overtaken \/ check.link \in {"gcs", sender})
  BY Zenon DEF Heartbeat
<1>3. feed = <<>> /\ UNCHANGED <<clock, seen, last, check, lost>>
  BY DEF Heartbeat
<1>4. Wrap \in Nat \ {0} /\ Lag \in Nat
  BY TimersAssumption DEF TimersAssumption
<1>5. feed' \in Feeds /\ \A l : InHand(l)' <=> l = "gcs" \/ l = sender
  <2>1. CASE sender = "gcs"
    <3>1. feed' = <<"gcs">>
      BY <1>2, <2>1 DEF FedBy
    <3> QED
      BY <2>1, <3>1 DEF Feeds, InHand
  <2>2. CASE sender = "companion"
    <3>1. feed' = <<"gcs", "companion">>
      BY <1>2, <2>2 DEF FedBy
    <3>2. Len(feed') = 2 /\ feed'[1] = "gcs" /\ feed'[2] = "companion"
      BY <3>1
    <3> QED
      BY <2>2, <3>1, <3>2 DEF Feeds, InHand
  <2> QED
    BY <2>1, <2>2 DEF Links
<1>6. TimerType'
  BY <1>1, <1>2, <1>3, <1>4, <1>5 DEF TimerType
<1>7. \A l : ~InHand(l)
  BY <1>1, <1>3, FeedFacts DEF TimerType
<1>8. StampInv'
  <2> SUFFICES ASSUME NEW l \in Links
               PROVE  /\ InHand(l)' => silent'[l] <= Lag
                      /\ seen'[l] /\ ~InHand(l)' /\ silent'[l] < Wrap =>
                           /\ Age(clock', last'[l]) <= silent'[l]
                           /\ silent'[l] <= Age(clock', last'[l]) + Lag
    BY DEF StampInv
  <2>1. CASE l = "gcs" \/ l = sender
    BY <1>2, <1>4, <1>5, <2>1
  <2>2. CASE ~(l = "gcs" \/ l = sender)
    <3>1. silent'[l] = silent[l] /\ ~InHand(l)' /\ ~InHand(l)
      BY <1>2, <1>5, <1>7, <2>2
    <3> QED
      BY <1>1, <1>3, <3>1 DEF StampInv
  <2> QED
    BY <2>1, <2>2
<1>9. CheckInv'
  <2>1. ASSUME check # Resting, ~overtaken'
        PROVE  ~InHand(check.link)' /\ silent'[check.link] = silent[check.link] /\ ~overtaken
    <3>1. check.link \in Links /\ ~overtaken /\ ~(check.link = "gcs" \/ check.link = sender)
      BY <1>1, <1>2, <2>1 DEF CheckInv
    <3>2. PICK k : k = check.link
      OBVIOUS
    <3>3. k \in Links /\ ~(k = "gcs" \/ k = sender)
      BY <3>1, <3>2
    <3>4. silent'[k] = silent[k] /\ ~InHand(k)'
      BY <1>2, <1>5, <3>3
    <3> QED
      BY <1>3, <3>1, <3>2, <3>4
  <2> QED
    BY <1>1, <1>3, <2>1 DEF CheckInv
<1> QED
  BY <1>6, <1>8, <1>9 DEF TimerInv

LEMMA MarkHolds == ASSUME TimerInv, Mark PROVE TimerInv'
<1>1. TimerType /\ StampInv /\ CheckInv
  BY DEF TimerInv
<1>2. /\ feed # <<>> /\ seen' = [seen EXCEPT ![Head(feed)] = TRUE]
      /\ UNCHANGED <<clock, last, feed, check, lost, silent, overtaken>>
  BY DEF Mark
<1>3. Head(feed) \in Links /\ InHand(Head(feed)) /\ \A l : InHand(l)' <=> InHand(l)
  BY <1>1, <1>2, FeedFacts DEF TimerType, InHand
<1>4. TimerType'
  BY <1>1, <1>2, <1>3 DEF TimerType
<1>5. \A l \in Links : seen[l] => seen'[l]
  BY <1>1, <1>2, <1>3 DEF TimerType
<1>6. \A l \in Links : seen'[l] /\ ~InHand(l) => seen[l]
  BY <1>1, <1>2, <1>3 DEF TimerType
<1>7. StampInv'
  BY <1>1, <1>2, <1>3, <1>6 DEF StampInv
<1>8. CheckInv'
  BY <1>1, <1>2, <1>3, <1>5 DEF CheckInv
<1> QED
  BY <1>4, <1>7, <1>8 DEF TimerInv

LEMMA StampHolds == ASSUME TimerInv, Stamp PROVE TimerInv'
<1>1. TimerType /\ StampInv /\ CheckInv
  BY DEF TimerInv
<1>2. /\ feed # <<>> /\ last' = [last EXCEPT ![Head(feed)] = clock] /\ feed' = Tail(feed)
      /\ UNCHANGED <<clock, seen, check, lost, silent, overtaken>>
  BY DEF Stamp
<1>3. /\ Head(feed) \in Links /\ InHand(Head(feed)) /\ feed' \in Feeds
      /\ \A l : InHand(l)' <=> InHand(l) /\ l # Head(feed)
  BY <1>1, <1>2, FeedFacts, Zenon DEF TimerType, InHand
<1>4. TimerType'
  BY <1>1, <1>2, <1>3 DEF TimerType
<1>5. StampInv'
  <2> SUFFICES ASSUME NEW l \in Links
               PROVE  /\ InHand(l)' => silent'[l] <= Lag
                      /\ seen'[l] /\ ~InHand(l)' /\ silent'[l] < Wrap =>
                           /\ Age(clock', last'[l]) <= silent'[l]
                           /\ silent'[l] <= Age(clock', last'[l]) + Lag
    BY DEF StampInv
  <2>1. CASE l = Head(feed)
    <3>1. last'[l] = clock' /\ silent'[l] = silent[l] /\ silent[l] <= Lag /\ silent[l] \in 0 .. Wrap
      BY <1>1, <1>2, <1>3, <2>1 DEF TimerType, StampInv
    <3>2. Age(clock', last'[l]) = 0
      BY <1>4, <3>1, AgeIs DEF TimerType
    <3>3. Lag \in Nat /\ Wrap \in Nat
      BY TimersAssumption DEF TimersAssumption
    <3>4. PICK s : s = silent'[l] /\ s = silent[l]
      BY <3>1
    <3>5. 0 <= s /\ s <= 0 + Lag
      BY <3>1, <3>3, <3>4
    <3> QED
      BY <1>3, <2>1, <3>2, <3>4, <3>5
  <2>2. CASE l # Head(feed)
    <3>1. last'[l] = last[l] /\ (InHand(l)' <=> InHand(l))
      BY <1>1, <1>2, <1>3, <2>2 DEF TimerType
    <3> QED
      BY <1>1, <1>2, <3>1 DEF StampInv
  <2> QED
    BY <2>1, <2>2
<1>6. CheckInv'
  <2>1. ASSUME check # Resting, ~overtaken
        PROVE  ~InHand(check.link)' /\ last'[check.link] = last[check.link]
    <3>1. ~InHand(check.link) /\ check.link \in Links
      BY <1>1, <2>1 DEF CheckInv
    <3>2. check.link # Head(feed)
      BY <1>3, <3>1
    <3> QED
      BY <1>1, <1>2, <1>3, <3>1, <3>2 DEF TimerType
  <2> QED
    BY <1>1, <1>2, <2>1 DEF CheckInv
<1> QED
  BY <1>4, <1>5, <1>6 DEF TimerInv

LEMMA AskHolds == ASSUME TimerInv, NEW link \in Links, Ask(link) PROVE TimerInv'
<1>1. TimerType /\ StampInv /\ CheckInv
  BY DEF TimerInv
<1>2. check = Resting /\ UNCHANGED <<clock, seen, last, feed, silent>>
  BY DEF Ask
<1>3. \A l : InHand(l)' <=> InHand(l)
  BY <1>2 DEF InHand
<1>4. StampInv'
  BY <1>1, <1>2, <1>3 DEF StampInv
<1>5. CASE seen[link]
  <2>1. check' = [link |-> link, now |-> clock] /\ overtaken' = InHand(link) /\ UNCHANGED lost
    BY <1>5 DEF Ask
  <2>2. check'.link = link /\ check'.now = clock
    BY <2>1
  <2>3. InHand(link) \in BOOLEAN
    BY DEF InHand
  <2>4. TimerType'
    BY <1>1, <1>2, <2>1, <2>3 DEF TimerType
  <2>5. Age(clock, clock) = 0 /\ 0 <= Lag
    BY <1>1, AgeIs, TimersAssumption DEF TimerType, TimersAssumption
  <2>6. ~InHand(link) /\ silent[link] < Wrap => Age(clock, last[link]) <= silent[link]
    BY <1>1, <1>5 DEF StampInv
  <2>7. CheckInv'
    BY <1>2, <1>3, <1>5, <2>1, <2>2, <2>5, <2>6 DEF CheckInv
  <2> QED
    BY <1>4, <2>4, <2>7 DEF TimerInv
<1>6. CASE ~seen[link]
  <2>1. lost' = [lost EXCEPT ![link] = (link = "gcs")] /\ UNCHANGED <<check, overtaken>>
    BY <1>6 DEF Ask
  <2>2. TimerType'
    BY <1>1, <1>2, <2>1 DEF TimerType
  <2>3. CheckInv'
    BY <1>2, <2>1 DEF CheckInv
  <2> QED
    BY <1>4, <2>2, <2>3 DEF TimerInv
<1> QED
  BY <1>5, <1>6

LEMMA ConcludeHolds == ASSUME TimerInv, NEW link \in Links, Conclude(link) PROVE TimerInv'
<1>1. TimerType /\ StampInv
  BY DEF TimerInv
<1>2. /\ check' = Resting /\ lost' = [lost EXCEPT ![link] = Aged(link)]
      /\ UNCHANGED <<clock, seen, last, feed, silent, overtaken>>
  BY DEF Conclude
<1>3. Aged(link) \in BOOLEAN /\ \A l : InHand(l)' <=> InHand(l)
  BY <1>2 DEF Aged, InHand
<1>4. Resting \in [link : Links \cup {"none"}, now : Ticks]
  BY TimersAssumption DEF Resting, Ticks, TimersAssumption
<1>5. TimerType'
  BY <1>1, <1>2, <1>3, <1>4 DEF TimerType
<1>6. StampInv'
  BY <1>1, <1>2, <1>3 DEF StampInv
<1> QED
  BY <1>2, <1>5, <1>6 DEF TimerInv, CheckInv

LEMMA PassHolds == ASSUME TimerInv, Pass PROVE TimerInv'
<1>1. TimerType /\ StampInv /\ CheckInv
  BY DEF TimerInv
<1>2. /\ check # Resting => Age(clock, check.now) < Lag
      /\ \A l \in Links : InHand(l) => silent[l] < Lag
      /\ clock' = (clock + 1) % Wrap
      /\ silent' = [l \in Links |-> IF silent[l] < Wrap THEN silent[l] + 1 ELSE Wrap]
      /\ UNCHANGED <<seen, last, feed, check, lost, overtaken>>
  BY DEF Pass
<1>3. Wrap \in Nat /\ Lag \in Nat /\ Timeout \in Nat /\ Timeout + 2 * Lag < Wrap /\ Lag < Wrap
  BY TimersAssumption DEF TimersAssumption
<1>4. \A l : InHand(l)' <=> InHand(l)
  BY <1>2 DEF InHand
<1>5. TimerType'
  BY <1>1, <1>2, <1>3, AgeTicks DEF TimerType
<1>6. \A l \in Links : /\ silent[l] \in 0 .. Wrap /\ last[l] \in Ticks
                       /\ silent'[l] = IF silent[l] < Wrap THEN silent[l] + 1 ELSE Wrap
  BY <1>1, <1>2 DEF TimerType
<1>7. StampInv'
  <2> SUFFICES ASSUME NEW l \in Links
               PROVE  /\ InHand(l)' => silent'[l] <= Lag
                      /\ seen'[l] /\ ~InHand(l)' /\ silent'[l] < Wrap =>
                           /\ Age(clock', last'[l]) <= silent'[l]
                           /\ silent'[l] <= Age(clock', last'[l]) + Lag
    BY DEF StampInv
  <2>1. InHand(l)' => silent'[l] <= Lag
    BY <1>2, <1>3, <1>4, <1>6
  <2>2. ASSUME seen'[l], ~InHand(l)', silent'[l] < Wrap
        PROVE  Age(clock', last'[l]) <= silent'[l] /\ silent'[l] <= Age(clock', last'[l]) + Lag
    <3>1. silent[l] \in Nat /\ silent[l] + 1 < Wrap /\ silent'[l] = silent[l] + 1 /\ silent[l] < Wrap
      BY <1>3, <1>6, <2>2
    <3>2. Age(clock, last[l]) <= silent[l] /\ silent[l] <= Age(clock, last[l]) + Lag
      BY <1>1, <1>2, <1>4, <2>2, <3>1 DEF StampInv
    <3>3. Age(clock, last[l]) \in Ticks
      BY <1>1, <1>6, AgeIs DEF TimerType
    <3>4. Age(clock, last[l]) + 1 < Wrap
      BY <1>3, <3>1, <3>2, <3>3 DEF Ticks
    <3>5. Age(clock', last'[l]) = Age(clock, last[l]) + 1
      BY <1>1, <1>2, <1>6, <3>4, AgeTicks DEF TimerType
    <3> QED
      BY <1>3, <3>1, <3>2, <3>3, <3>5 DEF Ticks
  <2> QED
    BY <2>1, <2>2
<1>8. CheckInv'
  <2> SUFFICES ASSUME check # Resting PROVE CheckInv'
    BY <1>2 DEF CheckInv
  <2>1. check.link \in Links /\ seen[check.link] /\ Age(clock, check.now) < Lag /\ check.now \in Ticks
    BY <1>1, <1>2 DEF CheckInv, TimerType
  <2>2. Age(clock, check.now) \in Ticks
    BY <1>1, <2>1, AgeIs DEF TimerType
  <2>3. Age(clock', check.now) <= Lag
    <3>1. Age(clock, check.now) + 1 < Wrap
      BY <1>3, <2>1, <2>2 DEF Ticks
    <3>2. Age(clock', check.now) = Age(clock, check.now) + 1
      BY <1>1, <1>2, <2>1, <3>1, AgeTicks DEF TimerType
    <3> QED
      BY <1>3, <2>1, <2>2, <3>2 DEF Ticks
  <2>4. ASSUME ~overtaken
        PROVE  /\ ~InHand(check.link)'
               /\ silent'[check.link] < Wrap => Age(check.now, last[check.link]) <= silent'[check.link]
    <3>1. /\ ~InHand(check.link)
          /\ silent[check.link] < Wrap => Age(check.now, last[check.link]) <= silent[check.link]
      BY <1>1, <2>4 DEF CheckInv
    <3>2. Age(check.now, last[check.link]) \in Ticks
      BY <1>6, <2>1, AgeIs
    <3>3. PICK a, s : a = Age(check.now, last[check.link]) /\ s = silent[check.link]
      OBVIOUS
    <3>4. s \in 0 .. Wrap /\ silent'[check.link] = IF s < Wrap THEN s + 1 ELSE Wrap
      BY <1>6, <2>1, <3>3
    <3>5. a \in 0 .. Wrap - 1 /\ (s < Wrap => a <= s)
      BY <3>1, <3>2, <3>3 DEF Ticks
    <3>6. silent'[check.link] < Wrap => a <= silent'[check.link]
      BY <1>3, <3>4, <3>5
    <3> QED
      BY <1>2, <1>4, <3>1, <3>3, <3>6
  <2> QED
    BY <1>2, <2>1, <2>3, <2>4 DEF CheckInv
<1> QED
  BY <1>5, <1>7, <1>8 DEF TimerInv

LEMMA TimersStep == ASSUME TimerInv, [LNext]_timerVars PROVE TimerInv'
<1>1. CASE UNCHANGED timerVars
  BY <1>1, Zenon DEF timerVars, TimerInv, TimerType, StampInv, CheckInv, InHand
<1>2. CASE LNext
  BY <1>2, HeartbeatHolds, MarkHolds, StampHolds, AskHolds, ConcludeHolds, PassHolds DEF LNext
<1> QED
  BY <1>1, <1>2

\* Only the end of a check concludes anything.
LEMMA Concluded ==
  ASSUME TimerInv, [LNext]_timerVars, NEW l \in Links, Concludes(l)
  PROVE  /\ lost'[l] = (Age(check.now, last[l]) >= Timeout)
         /\ check # Resting
<1>1. check # Resting /\ check' # check
  BY RestingIs DEF Concludes
<1>2. PICK link \in Links : Conclude(link)
  BY <1>1, Zenon DEF LNext, timerVars, Heartbeat, Mark, Stamp, Ask, Pass
<1>3. link = l
  BY <1>2 DEF Conclude, Concludes
<1>4. lost' = [lost EXCEPT ![l] = Aged(l)] /\ lost \in [Links -> BOOLEAN]
  BY <1>2, <1>3 DEF Conclude, TimerInv, TimerType
<1> QED
  BY <1>1, <1>4 DEF Aged

(***************************************************************************)
(* A link that has been silent for the time-out and the delays is reported *)
(* lost, for every time-out, lag and width of the clock.                   *)
(***************************************************************************)
THEOREM SilenceIsReported == LSpec => LossReported
<1>1. ASSUME TimerInv, [LNext]_timerVars, NEW l \in Links, Concludes(l),
             silent[l] \in Timeout + 2 * Lag .. Wrap - 1
      PROVE  lost'[l]
  <2>1. TimerType /\ StampInv /\ CheckInv
    BY <1>1 DEF TimerInv
  <2>2. Timeout \in Nat \ {0} /\ Lag \in Nat /\ Wrap \in Nat
    BY TimersAssumption DEF TimersAssumption
  <2>3. lost'[l] = (Age(check.now, last[l]) >= Timeout) /\ check # Resting /\ check.link = l
    BY <1>1, Concluded DEF Concludes
  <2>4. seen[l] /\ Age(clock, check.now) <= Lag
    BY <2>1, <2>3 DEF CheckInv
  <2>5. silent[l] \in Nat /\ silent[l] >= Timeout + 2 * Lag /\ silent[l] < Wrap
    BY <1>1, <2>2
  <2>6. ~InHand(l)
    BY <2>1, <2>2, <2>5 DEF StampInv
  <2>7. silent[l] <= Age(clock, last[l]) + Lag
    BY <2>1, <2>4, <2>5, <2>6 DEF StampInv
  <2>8. clock \in Ticks /\ check.now \in Ticks /\ last[l] \in Ticks
    BY <2>1 DEF TimerType
  <2>9. Age(clock, check.now) \in Ticks /\ Age(clock, last[l]) \in Ticks
    BY <2>8, AgeIs
  <2>10. Age(clock, check.now) <= Age(clock, last[l])
    BY <2>2, <2>4, <2>5, <2>7, <2>9 DEF Ticks
  <2>11. Age(check.now, last[l]) = Age(clock, last[l]) - Age(clock, check.now)
    BY <2>8, <2>10, AgeBetween
  <2>12. Age(check.now, last[l]) >= Timeout
    <3>1. PICK a, b, s : a = Age(clock, check.now) /\ b = Age(clock, last[l]) /\ s = silent[l]
      OBVIOUS
    <3>2. b - a >= Timeout
      BY <2>2, <2>4, <2>5, <2>7, <2>9, <3>1 DEF Ticks
    <3> QED
      BY <2>11, <3>1, <3>2
  <2> QED
    BY <2>3, <2>12
<1>2. TimerInv /\ [LNext]_timerVars =>
        [\A l \in Links : Concludes(l) /\ silent[l] \in Timeout + 2 * Lag .. Wrap - 1 => lost'[l]]_timerVars
  BY <1>1
<1> QED
  BY <1>2, TimersInit, TimersStep, PTL DEF LSpec, LossReported

(***************************************************************************)
(* A link is reported lost by mistake only in a check that one of its own  *)
(* heartbeats overtakes, for every time-out, lag and width of the clock.   *)
(***************************************************************************)
THEOREM LossIsNotImagined == LSpec => LossIsReal
<1>1. ASSUME TimerInv, [LNext]_timerVars, NEW l \in Links, Concludes(l), lost'[l]
      PROVE  silent[l] >= Timeout \/ overtaken
  <2>1. TimerType /\ CheckInv
    BY <1>1 DEF TimerInv
  <2>2. Timeout \in Nat \ {0} /\ Lag \in Nat /\ Wrap \in Nat /\ Timeout + 2 * Lag < Wrap
    BY TimersAssumption DEF TimersAssumption
  <2>3. Age(check.now, last[l]) >= Timeout /\ check # Resting /\ check.link = l
    BY <1>1, Concluded DEF Concludes
  <2>4. silent[l] \in 0 .. Wrap
    BY <2>1 DEF TimerType
  <2>5. ~overtaken /\ silent[l] < Wrap => Age(check.now, last[l]) <= silent[l]
    BY <2>1, <2>3 DEF CheckInv
  <2>6. Age(check.now, last[l]) \in Ticks
    BY <2>1, AgeIs DEF TimerType
  <2> QED
    BY <2>2, <2>3, <2>4, <2>5, <2>6 DEF Ticks
<1>2. TimerInv /\ [LNext]_timerVars =>
        [\A l \in Links : Concludes(l) /\ lost'[l] => silent[l] >= Timeout \/ overtaken]_timerVars
  BY <1>1
<1> QED
  BY <1>2, TimersInit, TimersStep, PTL DEF LSpec, LossIsReal
=============================================================================
