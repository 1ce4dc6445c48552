------------------------ MODULE ThrusterLink_proofs ------------------------
(***************************************************************************)
(* The dead man's switch of the thruster link, for all time-outs and       *)
(* lengths of the queue.                                                   *)
(*                                                                         *)
(* DeadMan is not inductive: it needs the chain from a command accepted by *)
(* core 1 to its stamp, from the stamp to the cycle of core 0 that reads   *)
(* it, and from that cycle to the next one, each with its own delay.       *)
(***************************************************************************)
EXTENDS ThrusterLink, TLAPS

\* A cycle in progress is no older than the time since the watchdog was fed.
LagInHang == core0.lag <= pico.hung

\* A stamp is never younger than the command it was taken for.
StampHonest ==
  /\ pico.age < Expired => silent <= pico.age
  /\ core1 = "stamp" => silent = 0

\* A cycle that decided to drive relied on a command of that age when it began.
DecidedFresh ==
  core0.pc = "output" /\ core0.armed => silent < LinkTimeout + pico.hung

\* What a cycle decided may be in force for as long as the next one is late.
DriveBounded == motors = "drive" => silent < LinkTimeout + Watchdog + pico.hung

PicoType == [armed : BOOLEAN, age : 0 .. Expired, desired : BOOLEAN, bidir : BOOLEAN,
             hung : 0 .. Watchdog]
CycleType == [pc : {"sample", "decide", "output"}, armed : BOOLEAN, lag : 0 .. Watchdog]

LinkInv == TypeOK /\ LagInHang /\ StampHonest /\ DecidedFresh /\ DriveBounded

\* What a reset of the Pico leaves behind.
LEMMA BootType ==
  /\ PicoBoot \in PicoType /\ CycleStart \in CycleType
  /\ PicoBoot.age = Expired /\ PicoBoot.hung = 0 /\ CycleStart.lag = 0
  /\ LongAgo \in 0 .. LongAgo /\ <<>> \in Seq(Frame) /\ Len(<<>>) <= Fifo
<1>1. Expired \in 0 .. Expired /\ 0 \in 0 .. Watchdog /\ LongAgo \in 0 .. LongAgo
  BY LinkAssumption, SMT DEF LinkAssumption, Expired, LongAgo
<1>2. PicoBoot \in PicoType /\ CycleStart \in CycleType
  BY <1>1, Zenon DEF PicoBoot, CycleStart, PicoType, CycleType
<1> QED
  BY <1>1, <1>2, LinkAssumption, SMT DEF LinkAssumption, PicoBoot, CycleStart

LEMMA InitLink == Init => LinkInv
<1> SUFFICES ASSUME Init PROVE LinkInv
  OBVIOUS
<1>1. TypeOK
  <2>1. upsets \in 0 .. Upsets
    BY LinkAssumption, SMT DEF LinkAssumption, Init
  <2> QED
    BY <2>1, BootType, Zenon DEF Init, TypeOK, PicoType, CycleType
<1>2. LagInHang /\ StampHonest /\ DecidedFresh /\ DriveBounded
  BY BootType, LinkAssumption, SMT
     DEF LinkAssumption, Init, LagInHang, StampHonest, DecidedFresh, DriveBounded, Expired, CycleStart
<1> QED
  BY <1>1, <1>2 DEF LinkInv

LEMMA ArrivingType ==
  ASSUME TypeOK, NEW hit \in BOOLEAN, NEW arrives
  PROVE  Arriving(hit, arrives) \in Seq(Frame)
<1>1. CachedArmed(hit) \in BOOLEAN /\ bidir \in BOOLEAN
  BY Zenon DEF TypeOK, CachedArmed
<1>2. CmdFrame(hit) \in Frame /\ CfgFrame \in Frame
  BY <1>1, SMT DEF CmdFrame, CfgFrame, Frame
<1>3. /\ (IF "cmd" \in arrives THEN <<CmdFrame(hit)>> ELSE <<>>) \in Seq(Frame)
      /\ (IF "cfg" \in arrives THEN <<CfgFrame>> ELSE <<>>) \in Seq(Frame)
  BY <1>2
<1> QED
  BY <1>3 DEF Arriving

\* The ESP32 changes no variable of the Pico but the queue of frames.
LEMMA EspPreserves ==
  ASSUME LinkInv,
         PublishArmed \/ SetBidir \/ EspReset \/ \E hit \in BOOLEAN : Cycle(hit)
  PROVE  LinkInv'
<1> USE DEF LinkAssumption, LinkInv, LagInHang, StampHonest, DecidedFresh, DriveBounded,
            TypeOK, PicoVars
<1>1. CASE PublishArmed
  BY <1>1 DEF PublishArmed
<1>2. CASE SetBidir
  BY <1>2, LinkAssumption DEF SetBidir
<1>3. CASE EspReset
  <2>1. upsets' \in 0 .. Upsets
    BY <1>3, LinkAssumption, SMT DEF EspReset
  <2> QED
    BY <1>3, <2>1, Zenon DEF EspReset
<1>4. ASSUME NEW hit \in BOOLEAN, NEW arrives \in SUBSET {"cmd", "cfg"}, DshotCycle(hit, arrives)
      PROVE  LinkInv'
  <2>1. Arriving(hit, arrives) \in Seq(Frame)
    BY ArrivingType
  <2>2. rx' \in Seq(Frame) /\ Len(rx') <= Fifo
    BY <1>4, <2>1, LinkAssumption, SMT DEF DshotCycle
  <2>3. cached' \in BOOLEAN
    BY <1>4, Zenon DEF DshotCycle, CachedArmed
  <2> QED
    BY <1>4, <2>2, <2>3 DEF DshotCycle
<1> QED
  BY <1>1, <1>2, <1>3, <1>4 DEF Cycle

\* Core 1 takes a frame, or stamps the command it took.
LEMMA Core1Preserves ==
  ASSUME LinkInv, ReceiveCommand \/ StampCommand \/ ReceiveConfig
  PROVE  LinkInv'
<1> USE DEF LinkAssumption, LinkInv, LagInHang, StampHonest, DecidedFresh, DriveBounded,
            TypeOK, PicoType, CycleType, EspVars, Expired, LongAgo
<1>1. ASSUME rx # <<>>, rx' = Tail(rx)
      PROVE  rx' \in Seq(Frame) /\ Len(rx') <= Fifo /\ Head(rx) \in Frame
  BY <1>1, LinkAssumption
<1>2. CASE ReceiveCommand
  <2>1. rx' \in Seq(Frame) /\ Len(rx') <= Fifo /\ Head(rx) \in Frame
    BY <1>1, <1>2 DEF ReceiveCommand
  <2>2. Head(rx).armed \in BOOLEAN
    BY <1>2, <2>1 DEF ReceiveCommand, Frame
  <2>3. /\ pico' \in PicoType
        /\ pico'.age = pico.age /\ pico'.hung = pico.hung
    BY <1>2, <2>2, Zenon DEF ReceiveCommand
  <2> QED
    BY <1>2, <2>1, <2>3, LinkAssumption, SMT DEF ReceiveCommand
<1>3. CASE StampCommand
  <2>1. /\ pico' \in PicoType
        /\ pico'.age = 0 /\ pico'.hung = pico.hung
    <3>1. 0 \in 0 .. Expired
      BY LinkAssumption, SMT
    <3> QED
      BY <1>3, <3>1, Zenon DEF StampCommand
  <2> QED
    BY <1>3, <2>1, LinkAssumption, SMT DEF StampCommand
<1>4. CASE ReceiveConfig
  <2>1. rx' \in Seq(Frame) /\ Len(rx') <= Fifo /\ Head(rx) \in Frame
    BY <1>1, <1>4 DEF ReceiveConfig
  <2>2. Head(rx).bidir \in BOOLEAN
    BY <1>4, <2>1 DEF ReceiveConfig, Frame
  <2>3. /\ pico' \in PicoType
        /\ pico'.age = pico.age /\ pico'.hung = pico.hung
    BY <1>4, <2>2, Zenon DEF ReceiveConfig
  <2> QED
    BY <1>4, <2>1, <2>3, SMT DEF ReceiveConfig
<1> QED
  BY <1>2, <1>3, <1>4

\* The cycle: it reads the command, judges the link, and may drive upon that alone.
LEMMA Core0Preserves ==
  ASSUME LinkInv, Sample \/ Decide \/ Output
  PROVE  LinkInv'
<1> USE DEF LinkAssumption, LinkInv, LagInHang, StampHonest, DecidedFresh, DriveBounded,
            TypeOK, PicoType, CycleType, EspVars, Expired, LongAgo
<1>1. CASE Sample
  <2>1. /\ core0' \in CycleType
        /\ core0'.lag = 0 /\ core0'.pc = "decide"
    BY <1>1, LinkAssumption, SMT DEF Sample
  <2> QED
    BY <1>1, <2>1, LinkAssumption, SMT DEF Sample
<1>2. CASE Decide
  <2>1. Armed => silent < LinkTimeout + pico.hung
    BY LinkAssumption, SMT DEF Armed, LinkFresh
  <2>2. OutputMode \in BOOLEAN /\ Armed \in BOOLEAN
    BY Zenon DEF OutputMode, Armed, LinkFresh
  <2>3. /\ pico' \in PicoType
        /\ pico'.age = pico.age /\ pico'.hung = pico.hung
    BY <1>2, <2>2, Zenon DEF Decide
  <2>4. /\ core0' \in CycleType
        /\ core0'.lag = 0 /\ core0'.armed = Armed
    <3>1. 0 \in 0 .. Watchdog
      BY LinkAssumption, SMT
    <3> QED
      BY <1>2, <2>2, <3>1, Zenon DEF Decide
  <2> HIDE DEF Armed
  <2> QED
    BY <1>2, <2>1, <2>3, <2>4, LinkAssumption, SMT DEF Decide
<1>3. CASE Output
  <2>1. /\ pico' \in PicoType
        /\ pico'.age = pico.age /\ pico'.hung = 0
    <3>1. 0 \in 0 .. Watchdog
      BY LinkAssumption, SMT
    <3> QED
      BY <1>3, <3>1, Zenon DEF Output
  <2>2. /\ core0' \in CycleType
        /\ core0'.lag = 0 /\ core0'.pc = "sample"
    BY <1>3, LinkAssumption, SMT DEF Output, CycleStart
  <2> QED
    BY <1>3, <2>1, <2>2, LinkAssumption, SMT DEF Output
<1> QED
  BY <1>1, <1>2, <1>3

\* After a reset of the Pico nothing turns.
LEMMA RestartPreserves ==
  ASSUME LinkInv, PowerReset \/ WatchdogReset
  PROVE  LinkInv'
<1> USE DEF LinkAssumption, LinkInv, TypeOK
<1>1. upsets' \in 0 .. Upsets
  BY LinkAssumption, SMT DEF PowerReset, WatchdogReset
<1>2. /\ pico' = PicoBoot /\ core1' = "idle" /\ core0' = CycleStart /\ motors' = "stop"
      /\ rx' = <<>> /\ silent' = LongAgo /\ UNCHANGED EspVars
  BY Zenon DEF PowerReset, WatchdogReset, PicoRestart
<1>3. TypeOK'
  BY <1>1, <1>2, BootType, SMT DEF EspVars, PicoType, CycleType
<1>4. LagInHang' /\ StampHonest' /\ DecidedFresh' /\ DriveBounded'
  BY <1>2, BootType, LinkAssumption, SMT
     DEF LagInHang, StampHonest, DecidedFresh, DriveBounded, Expired, CycleStart
<1> QED
  BY <1>3, <1>4

\* A tick ages the stamp, the silence, the cycle and the hang together.
LEMMA TickPreserves == ASSUME LinkInv, Tick PROVE LinkInv'
<1> USE DEF LinkAssumption, LinkInv, LagInHang, StampHonest, DecidedFresh, DriveBounded,
            TypeOK, PicoType, CycleType, EspVars, Expired, LongAgo
<1>1. /\ pico' \in PicoType
      /\ pico'.age = Older(pico.age, Expired) /\ pico'.hung = pico.hung + 1
  <2>1. Older(pico.age, Expired) \in 0 .. Expired /\ pico.hung + 1 \in 0 .. Watchdog
    BY LinkAssumption, SMT DEF Tick, Older
  <2> QED
    BY <2>1, Zenon DEF Tick
<1>2. /\ core0' \in CycleType
      /\ core0'.lag <= core0.lag + 1
      /\ core0'.pc = core0.pc /\ core0'.armed = core0.armed
  BY LinkAssumption, SMT DEF Tick
<1>3. silent' = Older(silent, LongAgo) /\ silent' \in 0 .. LongAgo
  BY LinkAssumption, SMT DEF Tick, Older
<1>4. TypeOK'
  BY <1>1, <1>2, <1>3, Zenon DEF Tick
<1>5. LagInHang'
  BY <1>1, <1>2, LinkAssumption, SMT
<1>6. StampHonest'
  BY <1>1, <1>3, LinkAssumption, SMT DEF Tick, Older
<1>7. DriveBounded'
  BY <1>1, <1>3, LinkAssumption, SMT DEF Tick, Older
<1>8. DecidedFresh'
  BY <1>1, <1>2, <1>3, LinkAssumption, SMT DEF Tick, Older
<1> QED
  BY <1>4, <1>5, <1>6, <1>7, <1>8

LEMMA LinkStep == LinkInv /\ [Next]_vars => LinkInv'
<1> SUFFICES ASSUME LinkInv, [Next]_vars PROVE LinkInv'
  OBVIOUS
<1>1. CASE UNCHANGED vars
  BY <1>1 DEF LinkInv, TypeOK, LagInHang, StampHonest, DecidedFresh, DriveBounded,
              vars, EspVars, PicoVars
<1>2. CASE Next
  BY <1>2, EspPreserves, Core1Preserves, Core0Preserves, RestartPreserves, TickPreserves DEF Next
<1> QED
  BY <1>1, <1>2

(***************************************************************************)
(* Every variable of the link keeps its range; the queue of frames never   *)
(* holds more than it can, whatever is dropped.                            *)
(***************************************************************************)
THEOREM LinkTypeCorrect == Spec => []TypeOK
<1>1. LinkInv => TypeOK
  BY DEF LinkInv
<1> QED
  BY InitLink, LinkStep, <1>1, PTL DEF Spec

(***************************************************************************)
(* For every link time-out and watchdog: without a fresh command the       *)
(* motors are stopped within the time-out and two watchdog periods.        *)
(***************************************************************************)
THEOREM DeadManHolds == Spec => []DeadMan
<1>1. LinkInv => DeadMan
  BY LinkAssumption, SMT DEF LinkAssumption, LinkInv, TypeOK, DriveBounded, DeadMan
<1> QED
  BY InitLink, LinkStep, <1>1, PTL DEF Spec
=============================================================================
