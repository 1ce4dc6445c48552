----------------------------- MODULE StatusQueue ----------------------------
(***************************************************************************)
(* The STATUSTEXT ring between the cores: the flight loop (Core 1) and the *)
(* LoRa task put texts in, Task_MAVLink takes them out one at a time and   *)
(* sends each with the spinlock released.                                  *)
(*                                                                         *)
(* Texts are numbered by the order in which they are offered.  The local   *)
(* copies of a text are left out, the 64 bytes it is cut to as well.       *)
(***************************************************************************)
EXTENDS Naturals, Sequences

CONSTANTS
  QCAP,       \* slots of the ring
  MaxTexts    \* bound on the texts of a behaviour

ASSUME QueueAssumption == QCAP \in Nat \ {0} /\ MaxTexts \in Nat

VARIABLES
  s_q,        \* the slots
  s_qhead,    \* the slot of the oldest text
  s_qcount,   \* how many texts wait
  offered,    \* texts offered so far; the last one has this number
  refused,    \* observer: numbers of the texts that found no room
  flush,      \* Task_MAVLink: "idle", "loop", or "send" with a text in hand
  taken,      \* observer: texts taken out, in order
  sent        \* observer: how many of them were handed to the UART

ring == <<s_q, s_qhead, s_qcount>>
queueVars == <<ring, offered, refused, flush, taken, sent>>

Texts == 1 .. MaxTexts
Slots == 0 .. QCAP - 1

QInit ==
  /\ s_q = [i \in Slots |-> 0] /\ s_qhead = 0 /\ s_qcount = 0
  /\ offered = 0 /\ refused = {} /\ flush = "idle" /\ taken = <<>> /\ sent = 0

\* Mutant: the last slot is never used, and a text refused that had room.
StoreOneLess(text) ==
  IF s_qcount + 1 < QCAP
  THEN /\ s_q' = [s_q EXCEPT ![(s_qhead + s_qcount) % QCAP] = text]
       /\ s_qcount' = s_qcount + 1
       /\ UNCHANGED <<s_qhead, refused>>
  ELSE refused' = refused \cup {text} /\ UNCHANGED ring

\* Mutant: the slot after the last one is counted without the wrap of the head.
StoreUnwrapped(text) ==
  IF s_qcount < QCAP
  THEN /\ s_q' = [s_q EXCEPT ![s_qcount] = text] /\ s_qcount' = s_qcount + 1
       /\ UNCHANGED <<s_qhead, refused>>
  ELSE refused' = refused \cup {text} /\ UNCHANGED ring

\* Mutant: one text too many.
StoreOneMore(text) ==
  IF s_qcount <= QCAP
  THEN /\ s_q' = [s_q EXCEPT ![(s_qhead + s_qcount) % QCAP] = text]
       /\ s_qcount' = s_qcount + 1
       /\ UNCHANGED <<s_qhead, refused>>
  ELSE refused' = refused \cup {text} /\ UNCHANGED ring

\* A text that finds the ring full is dropped, the newest one.
Store(text) ==
  IF s_qcount < QCAP
  THEN /\ s_q' = [s_q EXCEPT ![(s_qhead + s_qcount) % QCAP] = text]
       /\ s_qcount' = s_qcount + 1
       /\ UNCHANGED <<s_qhead, refused>>
  ELSE refused' = refused \cup {text} /\ UNCHANGED ring

\* A producer on either core, in one critical section.
QueueStatusText ==
  /\ offered < MaxTexts /\ offered' = offered + 1
  /\ Store(offered + 1)
  /\ UNCHANGED <<flush, taken, sent>>

FlushStart == flush = "idle" /\ flush' = "loop" /\ UNCHANGED <<ring, offered, refused, taken, sent>>

\* Mutant: the whole ring is given back with the first text.
FlushTakeClears ==
  /\ flush = "loop" /\ s_qcount > 0 /\ flush' = "send"
  /\ taken' = Append(taken, s_q[s_qhead])
  /\ s_qhead' = (s_qhead + 1) % QCAP /\ s_qcount' = 0
  /\ UNCHANGED <<s_q, offered, refused, sent>>

\* The oldest text is copied out and its slot given back, in one critical section.
FlushTake ==
  /\ flush = "loop" /\ s_qcount > 0 /\ flush' = "send"
  /\ taken' = Append(taken, s_q[s_qhead])
  /\ s_qhead' = (s_qhead + 1) % QCAP /\ s_qcount' = s_qcount - 1
  /\ UNCHANGED <<s_q, offered, refused, sent>>

\* The text goes to the UART with no lock of the ring held.
FlushSend ==
  /\ flush = "send" /\ flush' = "loop" /\ sent' = sent + 1
  /\ UNCHANGED <<ring, offered, refused, taken>>

FlushEnd ==
  /\ flush = "loop" /\ s_qcount = 0 /\ flush' = "idle"
  /\ UNCHANGED <<ring, offered, refused, taken, sent>>

Flush == FlushStart \/ FlushTake \/ FlushSend \/ FlushEnd

QNext == QueueStatusText \/ Flush

QSpec == QInit /\ [][QNext]_queueVars

\* Task_MAVLink is periodic and the UART write is bounded by a time-out.
QFairSpec == QSpec /\ WF_queueVars(Flush)
-----------------------------------------------------------------------------
\* The waiting texts, oldest first.
Waiting == [i \in 1 .. s_qcount |-> s_q[(s_qhead + i - 1) % QCAP]]

Fifo == INSTANCE StatusFifo WITH Capacity <- QCAP, queue <- Waiting

(***************************************************************************)
(* The ring with its wrapping head is a bounded first-in first-out queue   *)
(* that turns a text away only when every slot is taken, whatever the      *)
(* order in which the two cores enter it.                                  *)
(***************************************************************************)
RingIsFifo == Fifo!Spec

(***************************************************************************)
(* A text is missing only because it was refused at a full ring: what was  *)
(* taken and what waits are all the texts offered and not refused, each    *)
(* once and in the order offered.                                          *)
(***************************************************************************)
NoTextLost ==
  LET kept == taken \o Waiting
  IN  /\ {kept[i] : i \in 1 .. Len(kept)} = (1 .. offered) \ refused
      /\ \A i, j \in 1 .. Len(kept) : i < j => kept[i] < kept[j]

QTypeOK ==
  /\ s_q \in [Slots -> 0 .. MaxTexts] /\ s_qhead \in Slots /\ s_qcount \in 0 .. QCAP
  /\ offered \in 0 .. MaxTexts /\ refused \subseteq Texts
  /\ flush \in {"idle", "loop", "send"} /\ taken \in Seq(Texts) /\ sent \in 0 .. MaxTexts

(***************************************************************************)
(* Every text the ring took is handed to the UART in the end, which waits  *)
(* for room and gives up after a time-out of its own.                      *)
(***************************************************************************)
WaitingIsSent == \A n \in Texts : n \in (1 .. offered) \ refused ~> n \in {taken[i] : i \in 1 .. sent}
=============================================================================
