------------------------------ MODULE LoraRing ------------------------------
(***************************************************************************)
(* The byte ring between the tasks of Core 0 that send MAVLink messages    *)
(* and the LoRa downlink: frames of different lengths, each behind two     *)
(* bytes that hold its length, laid over the end of the array.             *)
(*                                                                         *)
(* A byte of the payload is the number of its frame, by which a frame that *)
(* was torn or mixed with another shows.  Both ends hold the mutex.        *)
(***************************************************************************)
EXTENDS Naturals, Sequences

CONSTANTS
  LORA_RING_SZ,   \* bytes of the ring
  Base,           \* values of a byte of the length
  FrameLens,      \* lengths of the frames
  Cap,            \* bytes the reader has room for
  MaxFrames       \* bound on the frames of a behaviour

ASSUME RingAssumption ==
  /\ LORA_RING_SZ \in Nat \ {0} /\ Base \in Nat \ {0} /\ Cap \in Nat /\ MaxFrames \in Nat
  /\ FrameLens \subseteq 1 .. Base * Base - 1

VARIABLES
  s_ring,         \* the bytes
  s_head, s_tail, \* where to write, where to read
  tapped,         \* observer: the frames that were let in, in order
  pushes,         \* frames offered so far
  popped          \* observer: what the reader got

ringVars == <<s_ring, s_head, s_tail, tapped, pushes, popped>>

RInit ==
  /\ s_ring = [i \in 0 .. LORA_RING_SZ - 1 |-> 0] /\ s_head = 0 /\ s_tail = 0
  /\ tapped = <<>> /\ pushes = 0 /\ popped = <<>>

Payload(n, len) == [i \in 1 .. len |-> n]

\* Mutant: no byte is kept free, so that a full ring looks like an empty one.
RingFreeWhole ==
  IF s_head = s_tail THEN LORA_RING_SZ ELSE (s_tail + LORA_RING_SZ - s_head) % LORA_RING_SZ

\* One byte stays free, to tell a full ring from an empty one.
RingFree == (s_tail + LORA_RING_SZ - s_head - 1) % LORA_RING_SZ

\* A frame goes in whole, behind its length, or not at all.
RingPush(len) ==
  LET bytes == <<len % Base, len \div Base>> \o Payload(pushes + 1, len)
      at(i) == ((i + LORA_RING_SZ - s_head) % LORA_RING_SZ) + 1
  IN  /\ pushes < MaxFrames /\ pushes' = pushes + 1
      /\ IF Len(bytes) <= RingFree
         THEN /\ s_ring' = [i \in DOMAIN s_ring |->
                              IF at(i) <= Len(bytes) THEN bytes[at(i)] ELSE s_ring[i]]
              /\ s_head' = (s_head + Len(bytes)) % LORA_RING_SZ
              /\ tapped' = Append(tapped, Payload(pushes + 1, len))
         ELSE UNCHANGED <<s_ring, s_head, tapped>>
      /\ UNCHANGED <<s_tail, popped>>

\* A frame that the reader has no room for is taken out, and given up.
LoraTapPop ==
  LET byte(i) == s_ring[(s_tail + i) % LORA_RING_SZ]
      len == byte(0) + Base * byte(1)
  IN  /\ s_head # s_tail
      /\ s_tail' = (s_tail + 2 + len) % LORA_RING_SZ
      /\ popped' = Append(popped, IF len > Cap THEN <<>> ELSE [i \in 1 .. len |-> byte(1 + i)])
      /\ UNCHANGED <<s_ring, s_head, tapped, pushes>>

RNext == (\E len \in FrameLens : RingPush(len)) \/ LoraTapPop

RSpec == RInit /\ [][RNext]_ringVars

(***************************************************************************)
(* The reader gets the frames that were let in, whole, once and in order,  *)
(* up to those it has no room for, though neither end keeps a count and    *)
(* one wrong byte would put all later frames out of step; and the ring is  *)
(* empty only when it has got them all.                                    *)
(***************************************************************************)
FramesWhole ==
  /\ Len(popped) <= Len(tapped)
  /\ \A n \in 1 .. Len(popped) : popped[n] = IF Len(tapped[n]) > Cap THEN <<>> ELSE tapped[n]
  /\ s_head = s_tail <=> Len(popped) = Len(tapped)
=============================================================================
