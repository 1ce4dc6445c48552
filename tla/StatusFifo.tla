----------------------------- MODULE StatusFifo -----------------------------
(***************************************************************************)
(* What the cross-core text queue promises: a first-in first-out channel   *)
(* of bounded capacity that refuses a text only when it is full, and hands *)
(* each text it took to the sender once.                                   *)
(***************************************************************************)
EXTENDS Naturals, Sequences

CONSTANTS Texts, Capacity

VARIABLES
  queue,   \* texts accepted and not yet taken
  taken,   \* texts taken so far
  refused  \* texts turned away

Init == queue = <<>> /\ taken = <<>> /\ refused = {}

Accept(text) ==
  /\ Len(queue) < Capacity
  /\ queue' = Append(queue, text) /\ UNCHANGED <<taken, refused>>

Refuse(text) ==
  /\ Len(queue) = Capacity
  /\ refused' = refused \cup {text} /\ UNCHANGED <<queue, taken>>

Take ==
  /\ queue # <<>>
  /\ taken' = Append(taken, Head(queue)) /\ queue' = Tail(queue) /\ UNCHANGED refused

Next == (\E text \in Texts : Accept(text) \/ Refuse(text)) \/ Take

Spec == Init /\ [][Next]_<<queue, taken, refused>>
=============================================================================
