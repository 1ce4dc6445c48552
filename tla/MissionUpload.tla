--------------------------- MODULE MissionUpload ----------------------------
(***************************************************************************)
(* The upload of a mission: the handlers of mission.cpp and a ground       *)
(* station that answers their requests, over a link that keeps the order   *)
(* of messages, loses some, and carries some twice.                        *)
(*                                                                         *)
(* An item is the number of the mission it belongs to; its place is the    *)
(* index it is stored at.  Downloads change nothing and are left out, and  *)
(* so are the other mission types, which are refused.                      *)
(***************************************************************************)
EXTENDS Naturals, Sequences

CONSTANTS
  MAX_ITEMS,    \* items the vehicle can store
  MaxMissions,  \* bound on the missions of a behaviour
  Channel,      \* messages the link holds in each direction
  MaxFaults     \* bound on the messages lost or repeated

ASSUME UploadAssumption ==
  MAX_ITEMS \in Nat \ {0} /\ MaxMissions \in Nat /\ Channel \in Nat \ {0} /\ MaxFaults \in Nat

VARIABLES
  store,   \* the variables of mission.cpp
  gcs,     \* the ground station: what it does, for which mission, the item last asked for
  up,      \* messages to the vehicle
  down,    \* messages to the ground station
  faults   \* losses and repetitions so far

uploadVars == <<store, gcs, up, down, faults>>

Missions == 1 .. MaxMissions
Unasked == MAX_ITEMS
Seqs == 0 .. MAX_ITEMS - 1
Lengths == 0 .. MAX_ITEMS + 1      \* of a mission; the longest one is refused

\* s_items is static and starts as zeros.
UInit ==
  /\ store = [items |-> [i \in Seqs |-> 0], count |-> 0, uploading |-> FALSE,
              expected |-> 0, next |-> 0]
  /\ gcs = [does |-> "rest", mission |-> 0, size |-> 0, asked |-> Unasked]
  /\ up = <<>> /\ down = <<>> /\ faults = 0

Quiet == up = <<>> /\ down = <<>>

Count(n)   == [msg |-> "count", n |-> n]
Item(m, i) == [msg |-> "item", mission |-> m, seq |-> i]
ClearAll   == [msg |-> "clear"]
Request(i) == [msg |-> "request", seq |-> i]
Ack(type)  == [msg |-> "ack", type |-> type]

\* mav::tx drops a message that does not fit; the ground station's link does the same.
Sent(link, m) == IF Len(link) < Channel THEN Append(link, m) ELSE link
-----------------------------------------------------------------------------
(* The ground station. *)

Send(m) == up' = Sent(up, m)
Fault   == faults < MaxFaults /\ faults' = faults + 1

\* A new mission, possibly too long or empty, in the place of one given up perhaps.
StartUpload ==
  /\ Quiet /\ gcs.mission < MaxMissions
  /\ \E n \in Lengths :
       /\ gcs' = [does |-> "upload", mission |-> gcs.mission + 1, size |-> n, asked |-> Unasked]
       /\ Send(Count(n))
  /\ UNCHANGED <<store, down, faults>>

StartClear ==
  /\ Quiet /\ gcs.does = "rest" /\ gcs.size > 0
  /\ gcs' = [gcs EXCEPT !.does = "clear", !.size = 0] /\ Send(ClearAll)
  /\ UNCHANGED <<store, down, faults>>

\* When all is quiet and no answer has come, it starts from the beginning.
Retry ==
  /\ Quiet /\ gcs.does # "rest"
  /\ Send(IF gcs.does = "clear" THEN ClearAll ELSE Count(gcs.size))
  /\ UNCHANGED <<store, gcs, down, faults>>

\* Impatient, it repeats the item it sent last.
RepeatItem ==
  /\ gcs.does = "upload" /\ gcs.asked # Unasked /\ Send(Item(gcs.mission, gcs.asked))
  /\ Fault /\ UNCHANGED <<store, gcs, down>>

AnswerRequest(i) ==
  /\ down # <<>> /\ Head(down) = Request(i) /\ down' = Tail(down)
  /\ IF gcs.does = "upload" /\ i < gcs.size
     THEN Send(Item(gcs.mission, i)) /\ gcs' = [gcs EXCEPT !.asked = i]
     ELSE UNCHANGED <<gcs, up>>
  /\ UNCHANGED <<store, faults>>

\* A refusal ends the upload too: nothing of this mission is on the vehicle.
ReceiveAck ==
  /\ down # <<>> /\ Head(down).msg = "ack" /\ down' = Tail(down)
  /\ gcs' = [gcs EXCEPT !.does = "rest", !.size = IF Head(down).type = "accepted" THEN @ ELSE 0]
  /\ UNCHANGED <<store, up, faults>>
-----------------------------------------------------------------------------
(* The vehicle: each handler runs to its end, and answers. *)

Got(m) == up # <<>> /\ Head(up) = m /\ up' = Tail(up) /\ UNCHANGED <<gcs, faults>>
Answer(m) == down' = Sent(down, m)

RefuseCount(n) ==
  /\ Got(Count(n)) /\ n > MAX_ITEMS /\ Answer(Ack("no space")) /\ UNCHANGED store

\* Mutant: the next item of the upload before is waited for.
AcceptCountKeepsNext(n) ==
  /\ Got(Count(n)) /\ n <= MAX_ITEMS
  /\ store' = [store EXCEPT !.uploading = n > 0, !.expected = n, !.count = 0]
  /\ Answer(IF n = 0 THEN Ack("accepted") ELSE Request(0))

\* Mutant: a mission is not accepted during an upload.
AcceptCountIdle(n) ==
  /\ Got(Count(n)) /\ n <= MAX_ITEMS
  /\ IF store.uploading
     THEN UNCHANGED <<store, down>>
     ELSE /\ store' = [store EXCEPT !.uploading = n > 0, !.expected = n, !.next = 0, !.count = 0]
          /\ Answer(IF n = 0 THEN Ack("accepted") ELSE Request(0))

\* The stored mission is dropped before the first item of the new one has come.
AcceptCount(n) ==
  /\ Got(Count(n)) /\ n <= MAX_ITEMS
  /\ store' = [store EXCEPT !.uploading = n > 0, !.expected = n, !.next = 0, !.count = 0]
  /\ Answer(IF n = 0 THEN Ack("accepted") ELSE Request(0))

\* Mutant: any item of the mission is taken, and counted.
ExpectedAny(seq) == seq < store.expected

\* Only the item that was asked for is stored; any other is answered by asking again.
Expected(seq) == seq = store.next

\* Mutant: the upload goes on one item longer.
StoredOneMore(m, i) ==
  LET done == store.next >= store.expected
  IN  [store EXCEPT !.items[i] = m, !.next = @ + 1,
                    !.uploading = ~done, !.count = IF done THEN store.expected ELSE @]

Stored(m, i) ==
  LET done == store.next + 1 >= store.expected
  IN  [store EXCEPT !.items[i] = m, !.next = @ + 1,
                    !.uploading = ~done, !.count = IF done THEN store.expected ELSE @]

IgnoreItem(m, i) == Got(Item(m, i)) /\ ~store.uploading /\ UNCHANGED <<store, down>>

AskAgain(m, i) ==
  /\ Got(Item(m, i)) /\ store.uploading /\ ~Expected(i)
  /\ Answer(Request(store.next)) /\ UNCHANGED store

StoreItem(m, i) ==
  /\ Got(Item(m, i)) /\ store.uploading /\ Expected(i) /\ store' = Stored(m, i)
  /\ Answer(IF store'.uploading THEN Request(store'.next) ELSE Ack("accepted"))

OnClearAll ==
  /\ store' = [store EXCEPT !.count = 0, !.uploading = FALSE]
  /\ Got(ClearAll) /\ Answer(Ack("accepted"))
-----------------------------------------------------------------------------
\* The link loses a message, in either direction.
LoseUp   == Fault /\ up # <<>> /\ up' = Tail(up) /\ UNCHANGED <<store, gcs, down>>
LoseDown == Fault /\ down # <<>> /\ down' = Tail(down) /\ UNCHANGED <<store, gcs, up>>

Handle ==
  \/ \E n \in Lengths : RefuseCount(n) \/ AcceptCount(n)
  \/ \E m \in Missions, i \in Seqs : IgnoreItem(m, i) \/ AskAgain(m, i) \/ StoreItem(m, i)
  \/ OnClearAll

Hear == (\E i \in Seqs : AnswerRequest(i)) \/ ReceiveAck

UNext == StartUpload \/ StartClear \/ Retry \/ RepeatItem \/ Hear \/ Handle \/ LoseUp \/ LoseDown

USpec == UInit /\ [][UNext]_uploadVars

(***************************************************************************)
(* What is under way arrives.  A ground station without an answer starts   *)
(* over: repeating the last item is no use when the closing ACK was lost,  *)
(* since the vehicle ignores an item outside an upload.                    *)
(***************************************************************************)
UFairSpec == USpec /\ WF_uploadVars(Retry) /\ WF_uploadVars(Handle) /\ WF_uploadVars(Hear)
-----------------------------------------------------------------------------
UTypeOK ==
  /\ store \in [items : [Seqs -> 0 .. MaxMissions], count : 0 .. MAX_ITEMS, uploading : BOOLEAN,
                expected : 0 .. MAX_ITEMS, next : 0 .. MAX_ITEMS]
  /\ store.uploading => store.next < store.expected /\ store.count = 0
  /\ gcs \in [does : {"rest", "upload", "clear"}, mission : 0 .. MaxMissions,
              size : Lengths, asked : 0 .. MAX_ITEMS]
  /\ faults \in 0 .. MaxFaults
  /\ Len(up) <= Channel /\ Len(down) <= Channel

Holds(m, n) == store.count = n /\ \A i \in 0 .. n - 1 : store.items[i] = m

(***************************************************************************)
(* What the vehicle holds is never a mixture of two missions, though an    *)
(* upload overwrites the items of the one before in place, may be given up *)
(* half-way, and items carry no mark of the upload they belong to.         *)
(***************************************************************************)
StoredWhole == store.count > 0 => \E m \in Missions : Holds(m, store.count)

(***************************************************************************)
(* A ground station that was told ACCEPTED can rely on it until it sends   *)
(* something else: duplicates still under way do not spoil the mission.    *)
(***************************************************************************)
AckedIsStored == gcs.does = "rest" /\ gcs.size > 0 => Holds(gcs.mission, gcs.size)

(***************************************************************************)
(* An upload comes to an end once the link has become good.                *)
(***************************************************************************)
UploadEnds == (gcs.does # "rest") ~> (gcs.does = "rest")
=============================================================================
