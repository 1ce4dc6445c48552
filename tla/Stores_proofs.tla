---------------------------- MODULE Stores_proofs ----------------------------
(***************************************************************************)
(* What the vehicle keeps for its operator, for every bound: the mission   *)
(* that was uploaded, over any link, and the parameters and calibration in *)
(* flash, over any number of orders, tunes, resets and firmwares.          *)
(***************************************************************************)
EXTENDS MissionUpload, Persistence, SequenceTheorems, TLAPS

---------------------------------------------------------------------------
(* MissionUpload *)

ToVehicle ==
  [msg : {"count"}, n : Lengths] \cup [msg : {"item"}, mission : Missions, seq : Seqs]
    \cup {ClearAll}

ToStation == [msg : {"request"}, seq : Seqs] \cup [msg : {"ack"}, type : {"accepted", "no space"}]

LinkType == up \in Seq(ToVehicle) /\ down \in Seq(ToStation)

Msgs(link) == {link[k] : k \in 1 .. Len(link)}

\* The vehicle has not yet answered anything about the current mission.
Unheard ==
  /\ gcs.asked = Unasked
  /\ \A m \in Msgs(up) : m.msg # "item"
  /\ \A m \in Msgs(down) : m.msg # "request"

\* The upload on the vehicle is that of the current mission.
Current ==
  /\ store.expected = gcs.size
  /\ \A i \in 0 .. store.next - 1 : store.items[i] = gcs.mission

\* An order (a count or a clear) goes out on a quiet link: it is ahead of the
\* items, and nothing is under way to the station.
OrdersLead ==
  up # <<>> => /\ \A m \in Msgs(Tail(up)) : m.msg = "item"
               /\ Head(up).msg # "item" => down = <<>>

\* Nothing under way to the vehicle is of an earlier mission.
UpIsCurrent ==
  /\ \A m \in Msgs(up) : /\ m.msg = "item" => m.mission = gcs.mission
                         /\ m.msg = "count" => gcs.does = "upload" /\ m.n = gcs.size
                         /\ m.msg = "clear" => gcs.does = "clear"
  /\ gcs.does = "clear" => gcs.size = 0
  /\ gcs.does = "upload" => gcs.mission \in Missions

\* An upload of an earlier mission that goes on was told nothing of this one.
Heard == store.uploading => Current \/ Unheard

\* A mission that is too long is refused before any of it is asked for.
Refused == gcs.size > MAX_ITEMS \/ Ack("no space") \in Msgs(down) => Unheard

\* From the closing ACK on the mission is stored.
Told ==
  (Ack("accepted") \in Msgs(down) \/ gcs.does = "rest") /\ gcs.size > 0 =>
    ~store.uploading /\ Holds(gcs.mission, gcs.size)

\* The inductive invariant of the upload.
UInv ==
  /\ UTypeOK /\ LinkType /\ OrdersLead /\ UpIsCurrent /\ Heard /\ Refused /\ Told
  /\ StoredWhole

---------------------------------------------------------------------------
(* Links *)

\* Taking the first message.
LEMMA Taken ==
  ASSUME NEW S, NEW link \in Seq(S), link # <<>>
  PROVE  /\ Head(link) \in S /\ Head(link) \in Msgs(link)
         /\ Tail(link) \in Seq(S) /\ Msgs(Tail(link)) \subseteq Msgs(link)
         /\ Len(Tail(link)) <= Len(link)
<1>1. Tail(link) \in Seq(S) /\ Len(Tail(link)) = Len(link) - 1 /\ Len(link) \in Nat \ {0}
  OBVIOUS
<1>2. Head(link) = link[1] /\ 1 \in 1 .. Len(link) /\ Head(link) \in S
  BY <1>1
<1>3. \A k \in 1 .. Len(Tail(link)) : Tail(link)[k] = link[k + 1] /\ k + 1 \in 1 .. Len(link)
  BY <1>1
<1> QED
  BY <1>1, <1>2, <1>3 DEF Msgs

\* Every message is the first one or behind it.
LEMMA HeadOrTail ==
  ASSUME NEW S, NEW link \in Seq(S), NEW m \in Msgs(link)
  PROVE  link # <<>> /\ (m = Head(link) \/ m \in Msgs(Tail(link)))
<1>1. PICK k \in 1 .. Len(link) : m = link[k]
  BY DEF Msgs
<1>2. link # <<>> /\ Len(link) \in Nat /\ Head(link) = link[1]
  BY <1>1
<1>3. CASE k = 1
  BY <1>1, <1>2, <1>3
<1>4. CASE k # 1
  <2>1. k - 1 \in 1 .. Len(Tail(link)) /\ Tail(link)[k - 1] = link[k]
    BY <1>2, <1>4
  <2> QED
    BY <1>1, <1>2, <2>1 DEF Msgs
<1> QED
  BY <1>3, <1>4

\* Adding a message, or dropping it on a full link.
LEMMA Added ==
  ASSUME NEW S, NEW link \in Seq(S), NEW m \in S, Channel \in Nat \ {0}
  PROVE  /\ Sent(link, m) \in Seq(S)
         /\ \A x \in Msgs(Sent(link, m)) : x \in Msgs(link) \/ x = m
         /\ Len(link) <= Channel => Len(Sent(link, m)) <= Channel
         /\ link = <<>> => Sent(link, m) = <<m>>
         /\ link # <<>> =>
              /\ Head(Sent(link, m)) = Head(link)
              /\ \A x \in Msgs(Tail(Sent(link, m))) : x \in Msgs(Tail(link)) \/ x = m
<1>1. CASE Len(link) < Channel
  <2>1. Sent(link, m) = Append(link, m)
    BY <1>1 DEF Sent
  <2>2. /\ Append(link, m) \in Seq(S) /\ Len(Append(link, m)) = Len(link) + 1
        /\ Len(link) \in Nat
        /\ \A k \in 1 .. Len(link) + 1 :
             Append(link, m)[k] = IF k = Len(link) + 1 THEN m ELSE link[k]
    OBVIOUS
  <2>3. Msgs(Append(link, m)) \subseteq Msgs(link) \cup {m}
    BY <2>2 DEF Msgs
  <2>4. ASSUME link # <<>>
        PROVE  /\ Head(Append(link, m)) = Head(link)
               /\ Msgs(Tail(Append(link, m))) \subseteq Msgs(Tail(link)) \cup {m}
    <3>1. Head(Append(link, m)) = Head(link)
      BY <2>2, <2>4
    <3>2. Tail(Append(link, m)) = Append(Tail(link), m)
      BY <2>4
    <3>3. Tail(link) \in Seq(S)
      BY <2>4
    <3>4. /\ Len(Append(Tail(link), m)) = Len(Tail(link)) + 1 /\ Len(Tail(link)) \in Nat
          /\ \A k \in 1 .. Len(Tail(link)) + 1 :
               Append(Tail(link), m)[k] = IF k = Len(Tail(link)) + 1 THEN m ELSE Tail(link)[k]
      BY <3>3
    <3>5. Msgs(Append(Tail(link), m)) \subseteq Msgs(Tail(link)) \cup {m}
      BY <3>4 DEF Msgs
    <3> QED
      BY <3>1, <3>2, <3>5
  <2>5. link = <<>> => Append(link, m) = <<m>>
    OBVIOUS
  <2> QED
    BY <1>1, <2>1, <2>2, <2>3, <2>4, <2>5
<1>2. CASE ~(Len(link) < Channel)
  <2>1. Sent(link, m) = link
    BY <1>2 DEF Sent
  <2>2. link # <<>>
    BY <1>2
  <2> QED
    BY <2>1, <2>2
<1> QED
  BY <1>1, <1>2

LEMMA OneMessage == ASSUME NEW m PROVE /\ Msgs(<<m>>) = {m} /\ Msgs(<<>>) = {}
                                      /\ Head(<<m>>) = m /\ Tail(<<m>>) = <<>> /\ <<m>> # <<>>
<1>1. Len(<<m>>) = 1 /\ <<m>>[1] = m /\ Len(<<>>) = 0
  OBVIOUS
<1> QED
  BY <1>1 DEF Msgs

\* The messages have a kind each, and the fields of their kind.
LEMMA Kinds ==
  /\ \A n : Count(n).msg = "count" /\ Count(n).n = n
  /\ \A m, i : Item(m, i).msg = "item" /\ Item(m, i).mission = m /\ Item(m, i).seq = i
  /\ ClearAll.msg = "clear"
  /\ \A i : Request(i).msg = "request"
  /\ \A type : Ack(type).msg = "ack" /\ Ack(type).type = type
  BY DEF Count, Item, ClearAll, Request, Ack

\* The types that the steps rest on.
LEMMA Constants ==
  ASSUME UploadAssumption
  PROVE  /\ MAX_ITEMS \in Nat \ {0} /\ MaxMissions \in Nat /\ Channel \in Nat \ {0}
         /\ MaxFaults \in Nat /\ Unasked \in 0 .. MAX_ITEMS
         /\ \A i \in Seqs : i \in 0 .. MAX_ITEMS /\ i # Unasked
  BY DEF UploadAssumption, Unasked, Seqs

\* What is sent has the type of its link.
LEMMA MessageTypes ==
  /\ \A n \in Lengths : Count(n) \in ToVehicle
  /\ \A m \in Missions, i \in Seqs : Item(m, i) \in ToVehicle
  /\ ClearAll \in ToVehicle
  /\ \A i \in Seqs : Request(i) \in ToStation
  /\ Ack("accepted") \in ToStation /\ Ack("no space") \in ToStation
  BY DEF ToVehicle, ToStation, Count, Item, Request, Ack

\* Whether the store holds one mission depends on the store only.
LEMMA StoreKept == ASSUME StoredWhole, store' = store PROVE StoredWhole'
  BY DEF StoredWhole, Holds

---------------------------------------------------------------------------
(* The station *)

\* What an order changes of the station: all, to the next mission; the size, to
\* forget a mission that is there; nothing.
LEMMA OrderGiven ==
  ASSUME UploadAssumption, UTypeOK, StartUpload \/ StartClear \/ Retry
  PROVE  /\ up = <<>> /\ down = <<>> /\ down' = <<>> /\ store' = store /\ faults' = faults
         /\ gcs' \in [does : {"upload", "clear"}, mission : 0 .. MaxMissions,
                      size : Lengths, asked : 0 .. MAX_ITEMS]
         /\ \/ gcs'.does = "upload" /\ gcs'.asked = Unasked /\ gcs'.mission \in Missions
            \/ gcs.does = "rest" /\ gcs.size > 0 /\ gcs'.does = "clear" /\ gcs'.size = 0
            \/ gcs' = gcs
         /\ \/ gcs'.does = "upload" /\ up' = Sent(up, Count(gcs'.size))
            \/ gcs'.does = "clear" /\ up' = Sent(up, ClearAll)
<1>1. CASE StartUpload
  <2>1. PICK n \in Lengths :
          /\ gcs' = [does |-> "upload", mission |-> gcs.mission + 1, size |-> n,
                     asked |-> Unasked]
          /\ up' = Sent(up, Count(n))
    BY <1>1 DEF StartUpload, Send
  <2>2. gcs.mission + 1 \in 0 .. MaxMissions /\ gcs.mission + 1 \in Missions
    BY <1>1, Constants DEF StartUpload, UTypeOK, Missions
  <2>3. gcs'.does = "upload" /\ gcs'.asked = Unasked /\ gcs'.size = n /\ gcs'.mission \in Missions
    BY <2>1, <2>2
  <2>4. gcs' \in [does : {"upload", "clear"}, mission : 0 .. MaxMissions,
                  size : Lengths, asked : 0 .. MAX_ITEMS]
    BY <2>1, <2>2, Constants
  <2> QED
    BY <1>1, <2>1, <2>3, <2>4 DEF StartUpload, Quiet
<1>2. CASE StartClear
  <2>1. gcs' = [gcs EXCEPT !.does = "clear", !.size = 0] /\ up' = Sent(up, ClearAll)
    BY <1>2 DEF StartClear, Send
  <2>2. 0 \in Lengths
    BY Constants DEF Lengths
  <2>3. gcs' \in [does : {"upload", "clear"}, mission : 0 .. MaxMissions,
                  size : Lengths, asked : 0 .. MAX_ITEMS]
    BY <2>1, <2>2 DEF UTypeOK
  <2>4. gcs'.does = "clear" /\ gcs'.size = 0
    BY <2>1 DEF UTypeOK
  <2> QED
    BY <1>2, <2>1, <2>3, <2>4 DEF StartClear, Quiet
<1>3. CASE Retry
  <2>1. gcs' = gcs /\ gcs.does \in {"upload", "clear"}
    BY <1>3 DEF Retry, UTypeOK
  <2>2. gcs' \in [does : {"upload", "clear"}, mission : 0 .. MaxMissions,
                  size : Lengths, asked : 0 .. MAX_ITEMS]
    BY <2>1 DEF UTypeOK
  <2> QED
    BY <1>3, <2>1, <2>2 DEF Retry, Quiet, Send
<1> QED
  BY <1>1, <1>2, <1>3

LEMMA OrderHolds ==
  ASSUME UploadAssumption, UInv, StartUpload \/ StartClear \/ Retry
  PROVE  UInv'
<1>1. UTypeOK /\ Heard /\ Refused /\ Told /\ StoredWhole /\ UpIsCurrent
  BY DEF UInv
<1> DEFINE Given ==
      /\ up = <<>> /\ down = <<>> /\ down' = <<>> /\ store' = store /\ faults' = faults
      /\ gcs' \in [does : {"upload", "clear"}, mission : 0 .. MaxMissions,
                   size : Lengths, asked : 0 .. MAX_ITEMS]
      /\ \/ gcs'.does = "upload" /\ gcs'.asked = Unasked /\ gcs'.mission \in Missions
         \/ gcs.does = "rest" /\ gcs.size > 0 /\ gcs'.does = "clear" /\ gcs'.size = 0
         \/ gcs' = gcs
<1>2. Given
  BY <1>1, OrderGiven
<1>3. PICK m \in ToVehicle :
        /\ up' = Sent(<<>>, m)
        /\ m.msg \in {"count", "clear"}
        /\ m.msg = "count" => gcs'.does = "upload" /\ m.n = gcs'.size
        /\ m.msg = "clear" => gcs'.does = "clear"
  <2>1. CASE gcs'.does = "upload" /\ up' = Sent(up, Count(gcs'.size))
    <3>1. gcs'.size \in Lengths /\ up = <<>>
      BY <1>2
    <3> QED
      BY <2>1, <3>1, Kinds, MessageTypes
  <2>2. CASE gcs'.does = "clear" /\ up' = Sent(up, ClearAll)
    <3>1. up = <<>>
      BY <1>2
    <3> QED
      BY <2>2, <3>1, Kinds, MessageTypes
  <2> QED
    BY <1>1, <2>1, <2>2, OrderGiven
<1>4. up' = <<m>> /\ Msgs(up') = {m} /\ Head(up') = m /\ Tail(up') = <<>> /\ Msgs(Tail(up')) = {}
  <2>1. <<>> \in Seq(ToVehicle)
    OBVIOUS
  <2>2. up' = <<m>>
    <3>1. Sent(<<>>, m) = <<m>>
      BY <2>1, Added, Constants, Zenon
    <3> QED
      BY <1>3, <3>1
  <2> QED
    BY <2>2, OneMessage
<1>5. down = <<>> /\ down' = <<>> /\ Msgs(down) = {} /\ Msgs(down') = {}
  BY <1>2, OneMessage
<1>6. UTypeOK' /\ LinkType'
  <2>1. LinkType'
    BY <1>4, <1>5 DEF LinkType
  <2>2. gcs' \in [does : {"rest", "upload", "clear"}, mission : 0 .. MaxMissions,
                  size : Lengths, asked : 0 .. MAX_ITEMS]
    BY <1>2
  <2>3. Len(up') <= Channel /\ Len(down') <= Channel
    BY <1>4, <1>5, Constants
  <2> QED
    BY <1>1, <1>2, <2>1, <2>2, <2>3 DEF UTypeOK
<1>7. OrdersLead'
  BY <1>4, <1>5 DEF OrdersLead
<1>8. gcs'.does = "clear" => gcs'.size = 0
  BY <1>1, <1>2 DEF UpIsCurrent
<1>9. UpIsCurrent'
  <2>1. gcs'.does = "upload" => gcs'.mission \in Missions
    BY <1>1, <1>2 DEF UpIsCurrent
  <2> QED
    BY <1>3, <1>4, <1>8, <2>1 DEF UpIsCurrent
<1>10. StoredWhole'
  BY <1>1, <1>2, StoreKept
<1>11. gcs'.asked = Unasked <=> Unheard'
  BY <1>3, <1>4, <1>5 DEF Unheard
<1>12. Heard'
  <2>1. CASE gcs.does = "rest" /\ gcs.size > 0
    BY <1>1, <1>2, <2>1 DEF Heard, Told
  <2>2. CASE gcs' = gcs
    BY <1>1, <1>2, <1>11, <2>2 DEF Heard, Unheard, Current
  <2> QED
    BY <1>2, <1>11, <2>1, <2>2 DEF Heard
<1>13. Refused'
  <2>1. CASE gcs'.size = 0
    <3>1. ~(0 > MAX_ITEMS)
      BY Constants
    <3>2. Ack("no space") \notin Msgs(down')
      BY <1>5, Zenon
    <3> QED
      BY <2>1, <3>1, <3>2 DEF Refused
  <2>2. CASE gcs' = gcs
    BY <1>1, <1>5, <1>11, <2>2 DEF Refused, Unheard
  <2> QED
    BY <1>2, <1>11, <2>1, <2>2 DEF Refused
<1>14. Told'
  BY <1>2, <1>5 DEF Told
<1> QED
  BY <1>6, <1>7, <1>9, <1>10, <1>12, <1>13, <1>14 DEF UInv

\* An item sent for the current mission goes behind what is under way.
LEMMA ItemSent ==
  ASSUME UploadAssumption, UTypeOK, LinkType, OrdersLead, UpIsCurrent,
         NEW i \in Seqs, up' = Sent(up, Item(gcs.mission, i)),
         gcs.does = "upload", gcs'.does = gcs.does, gcs'.mission = gcs.mission,
         gcs'.size = gcs.size, down = <<>> => down' = <<>>
  PROVE  up' \in Seq(ToVehicle) /\ Len(up') <= Channel /\ OrdersLead' /\ UpIsCurrent'
<1>1. PICK m \in ToVehicle :
        /\ m.msg = "item" /\ m.mission = gcs.mission
        /\ up' = Sent(up, m)
  <2>1. gcs.mission \in Missions
    BY DEF UpIsCurrent
  <2> QED
    <3>1. Item(gcs.mission, i) \in ToVehicle
      BY <2>1, MessageTypes, Zenon
    <3>2. Item(gcs.mission, i).msg = "item" /\ Item(gcs.mission, i).mission = gcs.mission
      BY DEF Item
    <3> QED
      BY <3>1, <3>2, Zenon
<1>2. up \in Seq(ToVehicle) /\ Channel \in Nat \ {0} /\ Len(up) <= Channel
  BY Constants DEF LinkType, UTypeOK
<1>3. /\ up' \in Seq(ToVehicle) /\ Len(up') <= Channel
      /\ \A x \in Msgs(up') : x \in Msgs(up) \/ x = m
      /\ up = <<>> => up' = <<m>>
      /\ up # <<>> => /\ Head(up') = Head(up)
                      /\ \A x \in Msgs(Tail(up')) : x \in Msgs(Tail(up)) \/ x = m
  <2>1. Sent(up, m) \in Seq(ToVehicle) /\ Len(Sent(up, m)) <= Channel
    BY <1>2, Added, Zenon
  <2>2. \A x \in Msgs(Sent(up, m)) : x \in Msgs(up) \/ x = m
    BY <1>2, Added, Zenon
  <2>3. up = <<>> => Sent(up, m) = <<m>>
    BY <1>2, SMT DEF Sent
  <2>4. up # <<>> => Head(Sent(up, m)) = Head(up)
    BY <1>2, Added, Zenon
  <2>5. up # <<>> => \A x \in Msgs(Tail(Sent(up, m))) : x \in Msgs(Tail(up)) \/ x = m
    BY <1>2, Added, Zenon
  <2> QED
    BY <1>1, <2>1, <2>2, <2>3, <2>4, <2>5, Zenon
<1>4. OrdersLead'
  <2>1. CASE up = <<>>
    <3>1. Msgs(Tail(up')) = {} /\ Head(up') = m
      BY <1>3, <2>1, OneMessage
    <3> QED
      BY <1>1, <3>1 DEF OrdersLead
  <2>2. CASE up # <<>>
    BY <1>1, <1>3, <2>2 DEF OrdersLead
  <2> QED
    BY <2>1, <2>2
<1>5. UpIsCurrent'
  <2>1. ASSUME NEW x \in Msgs(up')
        PROVE  /\ x.msg = "item" => x.mission = gcs'.mission
               /\ x.msg = "count" => gcs'.does = "upload" /\ x.n = gcs'.size
               /\ x.msg = "clear" => gcs'.does = "clear"
    <3>1. CASE x = m
      BY <1>1, <3>1
    <3>2. CASE x \in Msgs(up)
      BY <3>2 DEF UpIsCurrent
    <3> QED
      BY <1>3, <2>1, <3>1, <3>2
  <2> QED
    BY <2>1 DEF UpIsCurrent
<1> QED
  BY <1>3, <1>4, <1>5

\* To repeat an item the station must have been asked for it.
LEMMA RepeatItemHolds == ASSUME UploadAssumption, UInv, RepeatItem PROVE UInv'
<1>1. /\ UTypeOK /\ LinkType /\ OrdersLead /\ UpIsCurrent /\ Heard /\ Refused /\ Told
      /\ StoredWhole
  BY DEF UInv
<1>2. /\ gcs.does = "upload" /\ gcs.asked # Unasked /\ up' = Sent(up, Item(gcs.mission, gcs.asked))
      /\ faults < MaxFaults /\ faults' = faults + 1
      /\ store' = store /\ gcs' = gcs /\ down' = down
  BY DEF RepeatItem, Send, Fault
<1>3. gcs.asked \in Seqs
  BY <1>1, <1>2, Constants DEF UTypeOK, Unasked, Seqs
<1>4. up' \in Seq(ToVehicle) /\ Len(up') <= Channel /\ OrdersLead' /\ UpIsCurrent'
  BY <1>1, <1>2, <1>3, ItemSent
<1>5. LinkType'
  BY <1>1, <1>2, <1>4 DEF LinkType
<1>6. UTypeOK'
  BY <1>1, <1>2, <1>4, Constants DEF UTypeOK
<1>7. Heard' /\ Refused'
  BY <1>1, <1>2 DEF Heard, Refused, Unheard, Current
<1>8. Told' /\ StoredWhole'
  BY <1>1, <1>2, StoreKept DEF Told, Holds
<1> QED
  BY <1>4, <1>5, <1>6, <1>7, <1>8 DEF UInv

\* A request says that the vehicle has heard of the current mission.
LEMMA AnswerRequestHolds ==
  ASSUME UploadAssumption, UInv, NEW i \in Seqs, AnswerRequest(i) PROVE UInv'
<1>1. /\ UTypeOK /\ LinkType /\ OrdersLead /\ UpIsCurrent /\ Heard /\ Refused /\ Told
      /\ StoredWhole
  BY DEF UInv
<1>2. /\ down # <<>> /\ Head(down) = Request(i) /\ down' = Tail(down)
      /\ store' = store /\ faults' = faults
      /\ \/ /\ gcs.does = "upload" /\ up' = Sent(up, Item(gcs.mission, i))
            /\ gcs' = [gcs EXCEPT !.asked = i]
         \/ gcs' = gcs /\ up' = up
  BY DEF AnswerRequest, Send
<1>3. /\ Head(down) \in Msgs(down) /\ down' \in Seq(ToStation) /\ Msgs(down') \subseteq Msgs(down)
      /\ Len(down') <= Len(down) /\ Len(down) \in Nat /\ Len(down') \in Nat
  BY <1>1, <1>2, Taken DEF LinkType
<1>4. ~Unheard
  BY <1>2, <1>3, Kinds DEF Unheard
<1>5. /\ gcs' \in [does : {"rest", "upload", "clear"}, mission : 0 .. MaxMissions,
                   size : Lengths, asked : 0 .. MAX_ITEMS]
      /\ gcs'.does = gcs.does /\ gcs'.mission = gcs.mission /\ gcs'.size = gcs.size
  BY <1>1, <1>2, Constants DEF UTypeOK
<1>6. up' \in Seq(ToVehicle) /\ Len(up') <= Channel /\ OrdersLead' /\ UpIsCurrent'
  <2>1. CASE gcs' = gcs /\ up' = up
    BY <1>1, <1>2, <2>1 DEF LinkType, UTypeOK, OrdersLead, UpIsCurrent
  <2>2. CASE gcs.does = "upload" /\ up' = Sent(up, Item(gcs.mission, i))
    BY <1>1, <1>2, <1>5, <2>2, ItemSent
  <2> QED
    BY <1>2, <2>1, <2>2
<1>7. LinkType'
  BY <1>3, <1>6 DEF LinkType
<1>8. UTypeOK'
  BY <1>1, <1>2, <1>3, <1>5, <1>6, Constants DEF UTypeOK
<1>9. Heard'
  BY <1>1, <1>2, <1>4, <1>5 DEF Heard, Current
<1>10. Refused'
  BY <1>1, <1>3, <1>4, <1>5 DEF Refused
<1>11. Told' /\ StoredWhole'
  BY <1>1, <1>2, <1>3, <1>5, StoreKept DEF Told, Holds
<1> QED
  BY <1>6, <1>7, <1>8, <1>9, <1>10, <1>11 DEF UInv

\* The station takes an ACK only once its orders have been read.
LEMMA ReceiveAckHolds == ASSUME UploadAssumption, UInv, ReceiveAck PROVE UInv'
<1>1. /\ UTypeOK /\ LinkType /\ OrdersLead /\ UpIsCurrent /\ Heard /\ Refused /\ Told
      /\ StoredWhole
  BY DEF UInv
<1>2. /\ down # <<>> /\ Head(down).msg = "ack" /\ down' = Tail(down)
      /\ gcs' = [gcs EXCEPT !.does = "rest",
                            !.size = IF Head(down).type = "accepted" THEN gcs.size ELSE 0]
      /\ store' = store /\ up' = up /\ faults' = faults
  BY DEF ReceiveAck
<1>3. /\ Head(down) \in Msgs(down) /\ down' \in Seq(ToStation) /\ Msgs(down') \subseteq Msgs(down)
      /\ Len(down') <= Len(down) /\ Len(down) \in Nat /\ Len(down') \in Nat
      /\ Head(down) \in ToStation
  BY <1>1, <1>2, Taken DEF LinkType
<1>4. Head(down) \in {Ack("accepted"), Ack("no space")}
  BY <1>2, <1>3, Kinds DEF ToStation, Ack
<1>5. /\ gcs' \in [does : {"rest", "upload", "clear"}, mission : 0 .. MaxMissions,
                   size : Lengths, asked : 0 .. MAX_ITEMS]
      /\ gcs'.does = "rest" /\ gcs'.mission = gcs.mission /\ gcs'.asked = gcs.asked
      /\ gcs'.size = IF Head(down).type = "accepted" THEN gcs.size ELSE 0
  <2>1. 0 \in Lengths
    BY Constants DEF Lengths
  <2> QED
    BY <1>1, <1>2, <2>1 DEF UTypeOK
<1>6. \/ Head(down) = Ack("accepted") /\ gcs'.size = gcs.size
      \/ Head(down) = Ack("no space") /\ gcs'.size = 0
  <2>1. Ack("accepted").type = "accepted" /\ Ack("no space").type = "no space"
    BY Kinds
  <2> QED
    BY <1>4, <1>5, <2>1
<1>7. \A m \in Msgs(up) : m.msg = "item"
  <2>1. ASSUME up # <<>> PROVE Head(up).msg = "item" /\ \A m \in Msgs(Tail(up)) : m.msg = "item"
    BY <1>1, <1>2, <2>1 DEF OrdersLead
  <2> QED
    BY <1>1, <2>1, HeadOrTail DEF LinkType
<1>8. OrdersLead'
  BY <1>1, <1>2, <1>7, Taken DEF OrdersLead, LinkType
<1>9. UpIsCurrent'
  BY <1>1, <1>2, <1>5, <1>7 DEF UpIsCurrent
<1>10. LinkType' /\ UTypeOK'
  BY <1>1, <1>2, <1>3, <1>5, Constants DEF UTypeOK, LinkType
<1>11. Unheard => Unheard'
  BY <1>2, <1>3, <1>5 DEF Unheard
<1>12. Heard'
  <2>1. CASE Head(down) = Ack("accepted") /\ gcs'.size = gcs.size
    BY <1>1, <1>2, <1>5, <1>11, <2>1 DEF Heard, Current
  <2>2. CASE Head(down) = Ack("no space")
    BY <1>1, <1>3, <1>11, <2>2 DEF Heard, Refused
  <2> QED
    BY <1>6, <2>1, <2>2
<1>13. Refused'
  <2>1. ~(0 > MAX_ITEMS)
    BY Constants
  <2> QED
    BY <1>1, <1>3, <1>6, <1>11, <2>1 DEF Refused
<1>14. Told'
  <2>1. CASE Head(down) = Ack("accepted") /\ gcs'.size = gcs.size
    <3>1. gcs.size > 0 => ~store.uploading /\ Holds(gcs.mission, gcs.size)
      BY <1>1, <1>3, <2>1 DEF Told
    <3> QED
      BY <1>2, <1>5, <2>1, <3>1 DEF Told, Holds
  <2>2. CASE gcs'.size = 0
    BY <2>2 DEF Told
  <2> QED
    BY <1>6, <2>1, <2>2
<1> QED
  BY <1>1, <1>2, <1>8, <1>9, <1>10, <1>12, <1>13, <1>14, StoreKept DEF UInv

---------------------------------------------------------------------------
(* The vehicle, and the link *)

\* Behind the first message to the vehicle there are only items of this mission.
LEMMA Popped ==
  ASSUME UTypeOK, LinkType, OrdersLead, UpIsCurrent, UploadAssumption,
         up # <<>>, up' = Tail(up), gcs' = gcs
  PROVE  /\ up' \in Seq(ToVehicle) /\ Len(up') <= Channel /\ OrdersLead' /\ UpIsCurrent'
         /\ \A m \in Msgs(up') : m.msg = "item"
         /\ \A m \in Msgs(up') : m \in Msgs(up)
         /\ Head(up) \in Msgs(up)
         /\ Head(up).msg # "item" => down = <<>>
<1>1. /\ up \in Seq(ToVehicle) /\ up' \in Seq(ToVehicle) /\ Msgs(up') \subseteq Msgs(up)
      /\ Len(up') <= Len(up) /\ Len(up) <= Channel /\ Head(up) \in Msgs(up)
  BY Taken DEF LinkType, UTypeOK
<1>2. Len(up') <= Channel
  BY <1>1, Constants
<1>3. \A m \in Msgs(up') : m.msg = "item"
  BY DEF OrdersLead
<1>4. OrdersLead'
  <2>1. ASSUME up' # <<>> PROVE Head(up') \in Msgs(up') /\ Msgs(Tail(up')) \subseteq Msgs(up')
    BY <1>1, <2>1, Taken
  <2> QED
    BY <1>3, <2>1 DEF OrdersLead
<1>5. UpIsCurrent'
  BY <1>1, <1>3 DEF UpIsCurrent
<1> QED
  BY <1>1, <1>2, <1>3, <1>4, <1>5 DEF OrdersLead

\* An answer is behind what is under way to the station, or lost.
LEMMA Answered ==
  ASSUME UploadAssumption, UTypeOK, LinkType, NEW a \in ToStation, Answer(a)
  PROVE  /\ down' \in Seq(ToStation) /\ Len(down') <= Channel
         /\ \A x \in Msgs(down') : x \in Msgs(down) \/ x = a
<1>1. /\ down \in Seq(ToStation) /\ Len(down) <= Channel /\ Channel \in Nat \ {0}
      /\ down' = Sent(down, a)
  BY Constants DEF LinkType, UTypeOK, Answer
<1>2. Sent(down, a) \in Seq(ToStation) /\ Len(Sent(down, a)) <= Channel
  BY <1>1, Added, Zenon
<1>3. \A x \in Msgs(Sent(down, a)) : x \in Msgs(down) \/ x = a
  BY <1>1, Added, Zenon
<1> QED
  BY <1>1, <1>2, <1>3, Zenon

\* Nothing is under way to the station when an order is read.
LEMMA OrderRead ==
  ASSUME UploadAssumption, UInv, NEW m, Got(m), m.msg # "item"
  PROVE  down = <<>> /\ Msgs(down) = {} /\ m \in Msgs(up)
<1>1. up # <<>> /\ Head(up) = m /\ up' = Tail(up) /\ gcs' = gcs
  BY DEF Got
<1>2. down = <<>> /\ m \in Msgs(up)
  BY <1>1, Popped DEF UInv
<1> QED
  BY <1>2, OneMessage

\* A count is that of the current mission.
LEMMA CountRead ==
  ASSUME UploadAssumption, UInv, NEW n \in Lengths, Got(Count(n))
  PROVE  n = gcs.size /\ gcs.does = "upload" /\ Msgs(down) = {}
<1>1. Count(n).msg = "count" /\ Count(n).n = n
  BY Kinds
<1>2. Msgs(down) = {} /\ Count(n) \in Msgs(up)
  BY <1>1, OrderRead
<1> QED
  BY <1>1, <1>2 DEF UInv, UpIsCurrent

\* An item is of the current mission, which the vehicle has answered.
LEMMA ItemRead ==
  ASSUME UploadAssumption, UInv, NEW m \in Missions, NEW i \in Seqs, Got(Item(m, i))
  PROVE  /\ m = gcs.mission /\ ~Unheard
         /\ ~(gcs.size > MAX_ITEMS) /\ Ack("no space") \notin Msgs(down)
         /\ store.uploading => Current
<1>1. up # <<>> /\ Head(up) = Item(m, i) /\ up' = Tail(up) /\ gcs' = gcs
  BY DEF Got
<1>2. Item(m, i) \in Msgs(up)
  BY <1>1, Popped DEF UInv
<1>3. Item(m, i).msg = "item" /\ Item(m, i).mission = m
  BY Kinds
<1>4. m = gcs.mission /\ ~Unheard
  BY <1>2, <1>3 DEF Unheard, UInv, UpIsCurrent
<1> QED
  BY <1>4 DEF UInv, Refused, Heard

\* The parts of the invariant that every handler keeps.
LEMMA HandlerHolds ==
  ASSUME UploadAssumption, UInv, NEW m, Got(m)
  PROVE  /\ up' \in Seq(ToVehicle) /\ Len(up') <= Channel /\ OrdersLead' /\ UpIsCurrent'
         /\ gcs' = gcs /\ faults' = faults
         /\ \A x \in Msgs(up') : x.msg = "item"
         /\ \A x \in Msgs(up') : x \in Msgs(up)
<1>1. up # <<>> /\ up' = Tail(up) /\ gcs' = gcs /\ faults' = faults
  BY DEF Got
<1> QED
  BY <1>1, Popped DEF UInv

LEMMA RefuseCountHolds ==
  ASSUME UploadAssumption, UInv, NEW n \in Lengths, RefuseCount(n) PROVE UInv'
<1>1. /\ UTypeOK /\ LinkType /\ Refused /\ StoredWhole
  BY DEF UInv
<1>2. Got(Count(n)) /\ n > MAX_ITEMS /\ Answer(Ack("no space")) /\ store' = store
  BY DEF RefuseCount
<1>3. n = gcs.size /\ gcs.does = "upload" /\ Msgs(down) = {}
  BY <1>2, CountRead
<1>4. /\ up' \in Seq(ToVehicle) /\ Len(up') <= Channel /\ OrdersLead' /\ UpIsCurrent'
      /\ gcs' = gcs /\ faults' = faults
      /\ \A x \in Msgs(up') : x \in Msgs(up)
  BY <1>2, HandlerHolds
<1>5. /\ down' \in Seq(ToStation) /\ Len(down') <= Channel
      /\ \A x \in Msgs(down') : x = Ack("no space")
  BY <1>1, <1>2, <1>3, Answered, MessageTypes
<1>6. LinkType' /\ UTypeOK'
  BY <1>1, <1>2, <1>4, <1>5 DEF LinkType, UTypeOK
<1>7. Unheard'
  <2>1. Unheard
    BY <1>1, <1>2, <1>3 DEF Refused
  <2>2. Ack("no space").msg = "ack"
    BY Kinds
  <2> QED
    BY <1>4, <1>5, <2>1, <2>2 DEF Unheard
<1>8. Told'
  <2>1. Ack("no space").type = "no space" /\ Ack("accepted").type = "accepted"
    BY Kinds
  <2> QED
    BY <1>3, <1>4, <1>5, <2>1 DEF Told
<1> QED
  BY <1>1, <1>2, <1>4, <1>6, <1>7, <1>8, StoreKept DEF UInv, Heard, Refused

\* Whatever was stored or under way: the upload starts from its first item.
LEMMA AcceptCountHolds ==
  ASSUME UploadAssumption, UInv, NEW n \in Lengths, AcceptCount(n) PROVE UInv'
<1>1. UTypeOK /\ LinkType
  BY DEF UInv
<1>2. /\ Got(Count(n)) /\ n <= MAX_ITEMS
      /\ store' = [store EXCEPT !.uploading = n > 0, !.expected = n, !.next = 0, !.count = 0]
      /\ Answer(IF n = 0 THEN Ack("accepted") ELSE Request(0))
  BY DEF AcceptCount
<1>3. n = gcs.size /\ gcs.does = "upload" /\ Msgs(down) = {} /\ n \in 0 .. MAX_ITEMS
  <2>1. n \in 0 .. MAX_ITEMS
    BY <1>2, Constants DEF Lengths
  <2> QED
    BY <1>2, <2>1, CountRead
<1>4. /\ up' \in Seq(ToVehicle) /\ Len(up') <= Channel /\ OrdersLead' /\ UpIsCurrent'
      /\ gcs' = gcs /\ faults' = faults
  BY <1>2, HandlerHolds
<1>5. PICK a \in ToStation : Answer(a) /\ a = IF n = 0 THEN Ack("accepted") ELSE Request(0)
  <2>1. Ack("accepted") \in ToStation /\ Request(0) \in ToStation
    <3>1. 0 \in Seqs
      BY Constants DEF Seqs
    <3> QED
      BY <3>1, MessageTypes
  <2> QED
    BY <1>2, <2>1
<1>6. down' \in Seq(ToStation) /\ Len(down') <= Channel /\ \A x \in Msgs(down') : x = a
  BY <1>1, <1>3, <1>5, Answered
<1>7. /\ store' \in [items : [Seqs -> 0 .. MaxMissions], count : 0 .. MAX_ITEMS,
                     uploading : BOOLEAN, expected : 0 .. MAX_ITEMS, next : 0 .. MAX_ITEMS]
      /\ store'.uploading <=> n > 0
      /\ store'.expected = n /\ store'.next = 0 /\ store'.count = 0
  <2>1. 0 \in 0 .. MAX_ITEMS /\ (n > 0) \in BOOLEAN
    BY Constants
  <2> QED
    BY <1>1, <1>2, <1>3, <2>1 DEF UTypeOK
<1>8. LinkType' /\ UTypeOK'
  <2>1. store'.uploading => store'.next < store'.expected /\ store'.count = 0
    BY <1>7
  <2> QED
    BY <1>1, <1>4, <1>6, <1>7, <2>1 DEF LinkType, UTypeOK
<1>9. Current'
  BY <1>3, <1>4, <1>7 DEF Current
<1>10. /\ a # Ack("no space")
       /\ n > 0 => a # Ack("accepted")
  <2>1. CASE n = 0
    <3>1. a = Ack("accepted") /\ Ack("accepted").type = "accepted" /\ Ack("no space").type = "no space"
      BY <1>5, <2>1, Kinds
    <3>2. ~(n > 0)
      BY <2>1
    <3>3. a # Ack("no space")
      BY <3>1
    <3> QED
      BY <3>2, <3>3
  <2>2. CASE n # 0
    <3>1. a = Request(0) /\ Request(0).msg = "request" /\ \A type : Ack(type).msg = "ack"
      BY <1>5, <2>2, Kinds
    <3> QED
      BY <3>1
  <2> QED
    BY <2>1, <2>2
<1>11. Refused'
  <2>1. ~(gcs'.size > MAX_ITEMS)
    BY <1>3, <1>4, Constants
  <2> QED
    BY <1>6, <1>10, <2>1 DEF Refused
<1>12. Told'
  BY <1>3, <1>4, <1>6, <1>10 DEF Told
<1>13. StoredWhole'
  BY <1>7 DEF StoredWhole
<1> QED
  BY <1>4, <1>8, <1>9, <1>11, <1>12, <1>13 DEF UInv, Heard

LEMMA IgnoreItemHolds ==
  ASSUME UploadAssumption, UInv, NEW m \in Missions, NEW i \in Seqs, IgnoreItem(m, i) PROVE UInv'
<1>1. UTypeOK /\ LinkType /\ Refused /\ Told /\ StoredWhole
  BY DEF UInv
<1>2. Got(Item(m, i)) /\ ~store.uploading /\ store' = store /\ down' = down
  BY DEF IgnoreItem
<1>3. ~Unheard
  BY <1>2, ItemRead
<1>4. /\ up' \in Seq(ToVehicle) /\ Len(up') <= Channel /\ OrdersLead' /\ UpIsCurrent'
      /\ gcs' = gcs /\ faults' = faults
  BY <1>2, HandlerHolds
<1>5. LinkType' /\ UTypeOK'
  BY <1>1, <1>2, <1>4 DEF LinkType, UTypeOK
<1>6. Heard' /\ Refused'
  BY <1>1, <1>2, <1>3, <1>4 DEF Heard, Refused
<1>7. Told' /\ StoredWhole'
  BY <1>1, <1>2, <1>4, StoreKept DEF Told, Holds
<1> QED
  BY <1>4, <1>5, <1>6, <1>7 DEF UInv

LEMMA AskAgainHolds ==
  ASSUME UploadAssumption, UInv, NEW m \in Missions, NEW i \in Seqs, AskAgain(m, i) PROVE UInv'
<1>1. UTypeOK /\ LinkType /\ Refused /\ Told /\ StoredWhole
  BY DEF UInv
<1>2. Got(Item(m, i)) /\ store.uploading /\ Answer(Request(store.next)) /\ store' = store
  BY DEF AskAgain
<1>3. ~Unheard /\ ~(gcs.size > MAX_ITEMS) /\ Ack("no space") \notin Msgs(down) /\ Current
  BY <1>2, ItemRead
<1>4. /\ up' \in Seq(ToVehicle) /\ Len(up') <= Channel /\ OrdersLead' /\ UpIsCurrent'
      /\ gcs' = gcs /\ faults' = faults
  BY <1>2, HandlerHolds
<1>5. PICK a \in ToStation : Answer(a) /\ a = Request(store.next)
  <2>1. store.next \in Seqs
    BY <1>1, <1>2, Constants DEF UTypeOK, Seqs
  <2> QED
    BY <1>2, <2>1, MessageTypes
<1>6. /\ down' \in Seq(ToStation) /\ Len(down') <= Channel
      /\ \A x \in Msgs(down') : x \in Msgs(down) \/ x = a
  BY <1>1, <1>5, Answered
<1>7. a # Ack("accepted") /\ a # Ack("no space")
  BY <1>5, Kinds
<1>8. LinkType' /\ UTypeOK'
  BY <1>1, <1>2, <1>4, <1>6 DEF LinkType, UTypeOK
<1>9. Current'
  BY <1>2, <1>3, <1>4 DEF Current
<1>10. Refused'
  BY <1>3, <1>4, <1>6, <1>7 DEF Refused
<1>11. Told'
  BY <1>1, <1>2, <1>4, <1>6, <1>7 DEF Told, Holds
<1> QED
  BY <1>1, <1>2, <1>4, <1>8, <1>9, <1>10, <1>11, StoreKept DEF UInv, Heard

\* The item that completes a mission is the last of the current one.
LEMMA StoreItemHolds ==
  ASSUME UploadAssumption, UInv, NEW m \in Missions, NEW i \in Seqs, StoreItem(m, i) PROVE UInv'
<1>1. UTypeOK /\ LinkType /\ Refused /\ Told /\ StoredWhole
  BY DEF UInv
<1>2. /\ Got(Item(m, i)) /\ store.uploading /\ i = store.next /\ store' = Stored(m, i)
      /\ Answer(IF store'.uploading THEN Request(store'.next) ELSE Ack("accepted"))
  BY DEF StoreItem, Expected
<1>3. /\ m = gcs.mission /\ ~Unheard /\ ~(gcs.size > MAX_ITEMS)
      /\ Ack("no space") \notin Msgs(down) /\ Current
  BY <1>2, ItemRead
<1>4. /\ up' \in Seq(ToVehicle) /\ Len(up') <= Channel /\ OrdersLead' /\ UpIsCurrent'
      /\ gcs' = gcs /\ faults' = faults
  BY <1>2, HandlerHolds
<1> DEFINE done == store.next + 1 >= store.expected
<1>5. /\ store.next \in 0 .. MAX_ITEMS /\ store.expected \in 0 .. MAX_ITEMS
      /\ store.next < store.expected /\ store.count = 0
      /\ store.items \in [Seqs -> 0 .. MaxMissions] /\ MAX_ITEMS \in Nat
      /\ m \in 0 .. MaxMissions
  BY <1>1, <1>2, Constants DEF UTypeOK, Missions
<1>6. store' = [store EXCEPT !.items = [store.items EXCEPT ![i] = m], !.next = store.next + 1,
                             !.uploading = ~done, !.count = IF done THEN store.expected ELSE store.count]
  BY <1>1, <1>2 DEF Stored, UTypeOK
<1>7. /\ store' \in [items : [Seqs -> 0 .. MaxMissions], count : 0 .. MAX_ITEMS,
                     uploading : BOOLEAN, expected : 0 .. MAX_ITEMS, next : 0 .. MAX_ITEMS]
      /\ store'.items = [store.items EXCEPT ![i] = m]
      /\ store'.next = store.next + 1 /\ store'.expected = store.expected
      /\ store'.uploading <=> ~done
      /\ store'.count = IF done THEN store.expected ELSE store.count
  <2>1. store.next + 1 \in 0 .. MAX_ITEMS /\ done \in BOOLEAN
    BY <1>5
  <2>2. [store.items EXCEPT ![i] = m] \in [Seqs -> 0 .. MaxMissions]
    BY <1>5
  <2>3. (IF done THEN store.expected ELSE store.count) \in 0 .. MAX_ITEMS
    BY <1>1, <1>5 DEF UTypeOK
  <2> HIDE DEF done
  <2> QED
    BY <1>1, <1>5, <1>6, <2>1, <2>2, <2>3 DEF UTypeOK
<1>8. \A j \in 0 .. store.next : store'.items[j] = m
  <2> SUFFICES ASSUME NEW j \in 0 .. store.next PROVE store'.items[j] = m
    OBVIOUS
  <2>1. j \in Seqs
    BY <1>5 DEF Seqs
  <2>2. CASE j = store.next
    BY <1>2, <1>5, <1>7, <2>1, <2>2
  <2>3. CASE j # store.next
    <3>1. j \in 0 .. store.next - 1
      BY <1>5, <2>3
    <3> QED
      BY <1>2, <1>3, <1>5, <1>7, <2>1, <2>3, <3>1 DEF Current
  <2> QED
    BY <2>2, <2>3
<1>9. Current'
  <2>1. \A j \in 0 .. store'.next - 1 : store'.items[j] = gcs'.mission
    <3>1. 0 .. store'.next - 1 = 0 .. store.next
      BY <1>5, <1>7
    <3> QED
      BY <1>3, <1>4, <1>8, <3>1
  <2> QED
    BY <1>3, <1>4, <1>7, <2>1 DEF Current
<1>10. PICK a \in ToStation :
         Answer(a) /\ a = IF done THEN Ack("accepted") ELSE Request(store.next + 1)
  <2>1. CASE done
    BY <1>2, <1>7, <2>1, MessageTypes
  <2>2. CASE ~done
    <3>1. store.next + 1 \in Seqs
      BY <1>5, <2>2 DEF Seqs
    <3> QED
      BY <1>2, <1>7, <2>2, <3>1, MessageTypes
  <2> QED
    BY <2>1, <2>2
<1>11. /\ down' \in Seq(ToStation) /\ Len(down') <= Channel
       /\ \A x \in Msgs(down') : x \in Msgs(down) \/ x = a
  BY <1>1, <1>10, Answered
<1>12. a # Ack("no space") /\ (~done => a # Ack("accepted"))
  <2>1. CASE done
    <3>1. a = Ack("accepted") /\ Ack("accepted").type = "accepted" /\ Ack("no space").type = "no space"
      BY <1>10, <2>1, Kinds
    <3> QED
      BY <2>1, <3>1
  <2>2. CASE ~done
    <3>1. /\ a = Request(store.next + 1) /\ Request(store.next + 1).msg = "request"
          /\ \A type : Ack(type).msg = "ack"
      BY <1>10, <2>2, Kinds
    <3> QED
      BY <3>1
  <2> QED
    BY <2>1, <2>2
<1>13. LinkType' /\ UTypeOK'
  <2>1. store'.uploading => store'.next < store'.expected /\ store'.count = 0
    BY <1>5, <1>7
  <2> QED
    BY <1>1, <1>4, <1>7, <1>11, <2>1 DEF LinkType, UTypeOK
<1>14. Refused'
  BY <1>3, <1>4, <1>11, <1>12 DEF Refused
<1>15. ASSUME done PROVE store'.count = gcs.size /\ Holds(m, gcs.size)'
  <2>1. store'.count = gcs.size /\ gcs.size = store.next + 1
    <3>1. store.expected = gcs.size
      BY <1>3 DEF Current
    <3> QED
      BY <1>5, <1>7, <1>15, <3>1
  <2>2. \A j \in 0 .. gcs.size - 1 : store'.items[j] = m
    BY <1>5, <1>8, <2>1
  <2> QED
    BY <1>4, <2>1, <2>2 DEF Holds
<1>16. Told'
  <2>1. CASE done
    BY <1>3, <1>4, <1>7, <1>15, <2>1 DEF Told
  <2>2. CASE ~done
    <3>1. ~(Ack("accepted") \in Msgs(down) \/ gcs.does = "rest") \/ ~(gcs.size > 0)
      BY <1>1, <1>2 DEF Told
    <3> QED
      BY <1>4, <1>11, <1>12, <2>2, <3>1 DEF Told
  <2> QED
    BY <2>1, <2>2
<1>17. StoredWhole'
  <2>1. CASE done
    BY <1>4, <1>15, <2>1 DEF StoredWhole
  <2>2. CASE ~done
    BY <1>5, <1>7, <2>2 DEF StoredWhole
  <2> QED
    BY <2>1, <2>2
<1> QED
  BY <1>4, <1>9, <1>13, <1>14, <1>16, <1>17 DEF UInv, Heard

LEMMA ClearHolds == ASSUME UploadAssumption, UInv, OnClearAll PROVE UInv'
<1>1. UTypeOK /\ LinkType /\ UpIsCurrent
  BY DEF UInv
<1>2. /\ Got(ClearAll) /\ store' = [store EXCEPT !.count = 0, !.uploading = FALSE]
      /\ Answer(Ack("accepted"))
  BY DEF OnClearAll
<1>3. ClearAll.msg = "clear"
  BY Kinds
<1>4. Msgs(down) = {} /\ ClearAll \in Msgs(up)
  BY <1>2, <1>3, OrderRead
<1>5. gcs.does = "clear" /\ gcs.size = 0
  BY <1>1, <1>3, <1>4 DEF UpIsCurrent
<1>6. /\ up' \in Seq(ToVehicle) /\ Len(up') <= Channel /\ OrdersLead' /\ UpIsCurrent'
      /\ gcs' = gcs /\ faults' = faults
  BY <1>2, HandlerHolds
<1>7. /\ down' \in Seq(ToStation) /\ Len(down') <= Channel
      /\ \A x \in Msgs(down') : x = Ack("accepted")
  BY <1>1, <1>2, <1>4, Answered, MessageTypes
<1>8. /\ store' \in [items : [Seqs -> 0 .. MaxMissions], count : 0 .. MAX_ITEMS,
                     uploading : BOOLEAN, expected : 0 .. MAX_ITEMS, next : 0 .. MAX_ITEMS]
      /\ ~store'.uploading /\ store'.count = 0
  <2>1. 0 \in 0 .. MAX_ITEMS
    BY Constants
  <2> QED
    BY <1>1, <1>2, <2>1 DEF UTypeOK
<1>9. LinkType' /\ UTypeOK'
  BY <1>1, <1>6, <1>7, <1>8 DEF LinkType, UTypeOK
<1>10. Refused'
  <2>1. ~(0 > MAX_ITEMS)
    BY Constants
  <2>2. Ack("no space") # Ack("accepted")
    <3>1. Ack("accepted").type = "accepted" /\ Ack("no space").type = "no space"
      BY Kinds
    <3> QED
      BY <3>1
  <2> QED
    BY <1>5, <1>6, <1>7, <2>1, <2>2 DEF Refused
<1>11. Heard' /\ Told' /\ StoredWhole'
  BY <1>5, <1>6, <1>8 DEF Heard, Told, StoredWhole
<1> QED
  BY <1>6, <1>9, <1>10, <1>11 DEF UInv

\* A lost message leaves less under way.
LEMMA LossHolds == ASSUME UploadAssumption, UInv, LoseUp \/ LoseDown PROVE UInv'
<1>1. /\ UTypeOK /\ LinkType /\ OrdersLead /\ UpIsCurrent /\ Heard /\ Refused /\ Told
      /\ StoredWhole
  BY DEF UInv
<1>2. store' = store /\ gcs' = gcs /\ faults < MaxFaults /\ faults' = faults + 1
  BY DEF LoseUp, LoseDown, Fault
<1>3. /\ up' \in Seq(ToVehicle) /\ Len(up') <= Channel /\ OrdersLead' /\ UpIsCurrent'
      /\ \A x \in Msgs(up') : x \in Msgs(up)
  <2>1. CASE LoseUp
    BY <1>1, <2>1, Popped DEF LoseUp
  <2>2. CASE LoseDown
    <3>1. up' = up /\ (down = <<>> => down' = <<>>)
      BY <2>2 DEF LoseDown
    <3>2. OrdersLead' /\ UpIsCurrent'
      BY <1>1, <1>2, <3>1 DEF OrdersLead, UpIsCurrent
    <3> QED
      BY <1>1, <3>1, <3>2 DEF LinkType, UTypeOK
  <2> QED
    BY <2>1, <2>2
<1>4. /\ down' \in Seq(ToStation) /\ Len(down') <= Channel
      /\ \A x \in Msgs(down') : x \in Msgs(down)
  <2>1. CASE LoseUp
    BY <1>1, <2>1 DEF LoseUp, LinkType, UTypeOK
  <2>2. CASE LoseDown
    <3>1. down # <<>> /\ down' = Tail(down)
      BY <2>2 DEF LoseDown
    <3>2. /\ down' \in Seq(ToStation) /\ Msgs(down') \subseteq Msgs(down)
          /\ Len(down') <= Len(down)
      BY <1>1, <3>1, Taken DEF LinkType
    <3>3. Len(down') <= Channel
      BY <1>1, <3>2, Constants DEF LinkType, UTypeOK
    <3> QED
      BY <3>2, <3>3
  <2> QED
    BY <2>1, <2>2
<1>5. LinkType' /\ UTypeOK'
  BY <1>1, <1>2, <1>3, <1>4, Constants DEF LinkType, UTypeOK
<1>6. Unheard => Unheard'
  BY <1>2, <1>3, <1>4 DEF Unheard
<1>7. Heard' /\ Refused'
  BY <1>1, <1>2, <1>4, <1>6 DEF Heard, Refused, Current
<1>8. Told'
  BY <1>1, <1>2, <1>4 DEF Told, Holds
<1> QED
  BY <1>1, <1>2, <1>3, <1>5, <1>7, <1>8, StoreKept DEF UInv
---------------------------------------------------------------------------
LEMMA UploadInit == ASSUME UploadAssumption, UInit PROVE UInv
<1>1. /\ store = [items |-> [i \in Seqs |-> 0], count |-> 0, uploading |-> FALSE,
                  expected |-> 0, next |-> 0]
      /\ gcs = [does |-> "rest", mission |-> 0, size |-> 0, asked |-> Unasked]
      /\ up = <<>> /\ down = <<>> /\ faults = 0
  BY DEF UInit
<1>2. 0 \in 0 .. MAX_ITEMS /\ 0 \in 0 .. MaxMissions /\ 0 \in Lengths /\ 0 \in 0 .. MaxFaults
  BY Constants DEF Lengths
<1>3. UTypeOK
  <2>1. [i \in Seqs |-> 0] \in [Seqs -> 0 .. MaxMissions]
    BY <1>2
  <2>2. store \in [items : [Seqs -> 0 .. MaxMissions], count : 0 .. MAX_ITEMS,
                   uploading : BOOLEAN, expected : 0 .. MAX_ITEMS, next : 0 .. MAX_ITEMS]
    BY <1>1, <1>2, <2>1
  <2>3. gcs \in [does : {"rest", "upload", "clear"}, mission : 0 .. MaxMissions,
                 size : Lengths, asked : 0 .. MAX_ITEMS]
    BY <1>1, <1>2, Constants
  <2> QED
    BY <1>1, <1>2, <2>2, <2>3, Constants DEF UTypeOK
<1>4. LinkType /\ Msgs(up) = {} /\ Msgs(down) = {}
  <2>1. Msgs(up) = {} /\ Msgs(down) = {}
    BY <1>1, OneMessage
  <2>2. up \in Seq(ToVehicle) /\ down \in Seq(ToStation)
    BY <1>1
  <2> QED
    BY <2>1, <2>2 DEF LinkType
<1>5. ~(0 > MAX_ITEMS) /\ gcs.size = 0 /\ gcs.does = "rest" /\ store.count = 0 /\ ~store.uploading
  BY <1>1, Constants
<1>6. OrdersLead /\ UpIsCurrent
  BY <1>1, <1>4, <1>5 DEF OrdersLead, UpIsCurrent
<1>7. Heard /\ Refused /\ Told /\ StoredWhole
  BY <1>4, <1>5 DEF Heard, Refused, Told, StoredWhole
<1> QED
  BY <1>3, <1>4, <1>6, <1>7 DEF UInv

LEMMA UploadStep == ASSUME UploadAssumption, UInv, [UNext]_uploadVars PROVE UInv'
<1>1. ASSUME UNext PROVE UInv'
  <2>1. CASE StartUpload \/ StartClear \/ Retry
    BY <2>1, OrderHolds
  <2>2. CASE RepeatItem
    BY <2>2, RepeatItemHolds
  <2>3. CASE Hear
    BY <2>3, AnswerRequestHolds, ReceiveAckHolds DEF Hear
  <2>4. CASE Handle
    BY <2>4, RefuseCountHolds, AcceptCountHolds, IgnoreItemHolds, AskAgainHolds, StoreItemHolds,
       ClearHolds DEF Handle
  <2>5. CASE LoseUp \/ LoseDown
    BY <2>5, LossHolds
  <2> QED
    BY <1>1, <2>1, <2>2, <2>3, <2>4, <2>5 DEF UNext
<1>2. ASSUME UNCHANGED uploadVars PROVE UInv'
  <2>1. store' = store /\ gcs' = gcs /\ up' = up /\ down' = down /\ faults' = faults
    BY <1>2 DEF uploadVars
  <2> QED
    BY <2>1 DEF UInv, UTypeOK, LinkType, OrdersLead, UpIsCurrent, Heard, Refused, Told,
                StoredWhole, Holds, Unheard, Current
<1> QED
  BY <1>1, <1>2

\* The inductive invariant holds throughout, on any link.
THEOREM UploadThroughout == ASSUME UploadAssumption PROVE USpec => []UInv
<1>1. UInit => UInv
  BY UploadInit
<1>2. UInv /\ [UNext]_uploadVars => UInv'
  BY UploadStep
<1> QED
  BY <1>1, <1>2, PTL DEF USpec

\* mission.cpp's variables and the station's keep their types and bounds.
THEOREM UploadTypeCorrect == ASSUME UploadAssumption PROVE USpec => []UTypeOK
<1>1. UInv => UTypeOK
  BY DEF UInv
<1> QED
  BY <1>1, UploadThroughout, PTL

\* What the vehicle holds is never a mixture of two missions (StoredWhole), for
\* any number of missions, items, messages under way, losses and repetitions.
THEOREM NoMixture == ASSUME UploadAssumption PROVE USpec => []StoredWhole
<1>1. UInv => StoredWhole
  BY DEF UInv
<1> QED
  BY <1>1, UploadThroughout, PTL

\* A ground station that was told ACCEPTED can rely on it (AckedIsStored).
THEOREM AcceptedIsThere == ASSUME UploadAssumption PROVE USpec => []AckedIsStored
<1>1. UInv => AckedIsStored
  BY DEF UInv, Told, AckedIsStored
<1> QED
  BY <1>1, UploadThroughout, PTL

---------------------------------------------------------------------------
(* Persistence *)
---------------------------------------------------------------------------
(* The writes of a boot *)

Writes == {Row(r) : r \in Rows} \cup {Marker(m) : m \in Markers} \cup {Version}

Has(s, w) == \E i \in 1 .. Len(s) : s[i] = w

\* The rows of a migration.
MigratedBy(m) == IF m = "ref" THEN {"ref"} ELSE IF m = "pm1" THEN {"mult"} ELSE {"pin", "mult"}

\* The rows that must not be old any more when a write says that they are new.
Vouched(w) ==
  IF w.put = "version" THEN Rows ELSE IF w.put = "marker" THEN MigratedBy(w.of) ELSE {}

\* No marker and no version goes before an old row it vouches for.
RowsFirst(s, old) ==
  \A i \in 1 .. Len(s) : \A r \in Vouched(s[i]) \cap old : \E j \in 1 .. i - 1 : s[j] = Row(r)

LEMMA WriteNames ==
  /\ \A r, q : Row(r) = Row(q) <=> r = q
  /\ \A r, m : Row(r) # Marker(m) /\ Row(r) # Version /\ Marker(r) # Version
  /\ \A r : Row(r).put = "row" /\ Row(r).of = r
  /\ \A m : Marker(m).put = "marker" /\ Marker(m).of = m
  /\ Version.put = "version"
<1>1. \A r : Row(r).put = "row" /\ Row(r).of = r
  BY DEF Row
<1>2. \A m : Marker(m).put = "marker" /\ Marker(m).of = m
  BY DEF Marker
<1>3. Version.put = "version"
  BY DEF Version
<1>4. ASSUME NEW r, NEW q, Row(r) = Row(q) PROVE r = q
  <2>1. Row(r).of = r /\ Row(q).of = q
    BY <1>1, Zenon
  <2> QED
    BY <1>4, <2>1
<1>5. "row" # "marker" /\ "row" # "version" /\ "marker" # "version"
  OBVIOUS
<1>6. \A r, m : Row(r) # Marker(m) /\ Row(r) # Version /\ Marker(r) # Version
  BY <1>1, <1>2, <1>3, <1>5, Zenon
<1> QED
  BY <1>1, <1>2, <1>3, <1>4, <1>6, Zenon

LEMMA HasConcat ==
  ASSUME NEW s \in Seq(Writes), NEW t \in Seq(Writes), NEW w
  PROVE  Has(s \o t, w) <=> Has(s, w) \/ Has(t, w)
<1>1. /\ Len(s \o t) = Len(s) + Len(t)
      /\ \A i \in 1 .. Len(s) : (s \o t)[i] = s[i]
      /\ \A i \in 1 .. Len(t) : (s \o t)[Len(s) + i] = t[i]
  BY ConcatProperties
<1>2. Len(s) \in Nat /\ Len(t) \in Nat
  OBVIOUS
<1>3. ASSUME Has(s \o t, w) PROVE Has(s, w) \/ Has(t, w)
  <2>1. PICK i \in 1 .. Len(s \o t) : (s \o t)[i] = w
    BY <1>3 DEF Has
  <2>2. CASE i \in 1 .. Len(s)
    BY <1>1, <2>1, <2>2, Zenon DEF Has
  <2>3. CASE i \notin 1 .. Len(s)
    <3>1. i - Len(s) \in 1 .. Len(t) /\ Len(s) + (i - Len(s)) = i
      BY <1>1, <1>2, <2>3
    <3>2. t[i - Len(s)] = w
      BY <1>1, <2>1, <3>1
    <3> QED
      BY <3>1, <3>2 DEF Has
  <2> QED
    BY <2>2, <2>3
<1>4. ASSUME Has(s, w) PROVE Has(s \o t, w)
  <2>1. PICK i \in 1 .. Len(s) : s[i] = w
    BY <1>4 DEF Has
  <2>2. i \in 1 .. Len(s \o t) /\ (s \o t)[i] = w
    BY <1>1, <1>2, <2>1
  <2> QED
    BY <2>2 DEF Has
<1>5. ASSUME Has(t, w) PROVE Has(s \o t, w)
  <2>1. PICK i \in 1 .. Len(t) : t[i] = w
    BY <1>5 DEF Has
  <2>2. Len(s) + i \in 1 .. Len(s \o t) /\ (s \o t)[Len(s) + i] = w
    BY <1>1, <1>2, <2>1
  <2> QED
    BY <2>2 DEF Has
<1> QED
  BY <1>3, <1>4, <1>5

\* Rows may also be written in the part that goes before.
LEMMA OrderConcat ==
  ASSUME NEW s \in Seq(Writes), NEW t \in Seq(Writes), NEW old, RowsFirst(s, old),
         NEW left, RowsFirst(t, left), \A r \in old : r \in left \/ Has(s, Row(r))
  PROVE  RowsFirst(s \o t, old)
<1>1. /\ Len(s \o t) = Len(s) + Len(t)
      /\ \A i \in 1 .. Len(s) : (s \o t)[i] = s[i]
      /\ \A i \in 1 .. Len(t) : (s \o t)[Len(s) + i] = t[i]
  BY ConcatProperties
<1>2. Len(s) \in Nat /\ Len(t) \in Nat
  OBVIOUS
<1> SUFFICES ASSUME NEW i \in 1 .. Len(s \o t), NEW r \in Vouched((s \o t)[i]) \cap old
             PROVE  \E j \in 1 .. i - 1 : (s \o t)[j] = Row(r)
  BY DEF RowsFirst
<1>3. CASE i \in 1 .. Len(s)
  <2>1. r \in Vouched(s[i]) \cap old
    BY <1>1, <1>3
  <2>2. PICK j \in 1 .. i - 1 : s[j] = Row(r)
    BY <1>3, <2>1, Zenon DEF RowsFirst
  <2>3. j \in 1 .. Len(s)
    BY <1>2, <1>3
  <2> QED
    BY <1>1, <2>2, <2>3
<1>4. CASE i \notin 1 .. Len(s)
  <2>1. /\ i - Len(s) \in 1 .. Len(t) /\ Len(s) + (i - Len(s)) = i
        /\ i \in Nat /\ \A j \in 1 .. Len(s) : j \in 1 .. i - 1
    BY <1>1, <1>2, <1>4
  <2>2. r \in Vouched(t[i - Len(s)]) /\ r \in old
    BY <1>1, <2>1
  <2>3. CASE r \in left
    <3>1. PICK j \in 1 .. i - Len(s) - 1 : t[j] = Row(r)
      BY <2>1, <2>2, <2>3, Zenon DEF RowsFirst
    <3>2. Len(s) + j \in 1 .. i - 1 /\ j \in 1 .. Len(t)
      BY <1>2, <2>1
    <3>3. (s \o t)[Len(s) + j] = Row(r)
      BY <1>1, <3>1, <3>2
    <3> QED
      BY <3>2, <3>3
  <2>4. CASE Has(s, Row(r))
    <3>1. PICK j \in 1 .. Len(s) : s[j] = Row(r)
      BY <2>4 DEF Has
    <3> QED
      BY <1>1, <2>1, <3>1
  <2> QED
    BY <2>2, <2>3, <2>4
<1> QED
  BY <1>3, <1>4

\* A sequence of rows vouches for nothing.
LEMMA RowsVouchNothing ==
  ASSUME NEW s \in Seq({Row(r) : r \in Rows}), NEW old
  PROVE  s \in Seq(Writes) /\ RowsFirst(s, old)
<1>1. {Row(r) : r \in Rows} \subseteq Writes
  BY DEF Writes
<1>2. s \in Seq(Writes)
  BY <1>1
<1>3. ASSUME NEW i \in 1 .. Len(s) PROVE Vouched(s[i]) = {}
  <2>1. PICK r \in Rows : s[i] = Row(r)
    BY <1>3
  <2> QED
    BY <2>1, WriteNames DEF Vouched
<1> QED
  BY <1>2, <1>3, Zenon DEF RowsFirst

LEMMA OneWrite ==
  ASSUME NEW w \in Writes, NEW old, Vouched(w) \cap old = {}
  PROVE  <<w>> \in Seq(Writes) /\ RowsFirst(<<w>>, old) /\ Has(<<w>>, w)
<1>1. Len(<<w>>) = 1 /\ <<w>>[1] = w /\ <<w>> \in Seq(Writes)
  OBVIOUS
<1> QED
  BY <1>1 DEF RowsFirst, Has

LEMMA NoWrite == ASSUME NEW old PROVE <<>> \in Seq(Writes) /\ RowsFirst(<<>>, old)
BY DEF RowsFirst

---------------------------------------------------------------------------
\* A migration writes its marker, after its rows.
LEMMA MigratedSafe ==
  ASSUME NEW f, NEW forced \in BOOLEAN, NEW m \in Markers, NEW rows \in Seq({Row(r) : r \in Rows}),
         NEW applies \in BOOLEAN, NEW old,
         m \notin f.marks =>
           \A r \in MigratedBy(m) \cap old : ~forced /\ applies /\ Has(rows, Row(r))
  PROVE  /\ Migrated(f, forced, m, rows, applies) \in Seq(Writes)
         /\ RowsFirst(Migrated(f, forced, m, rows, applies), old)
         /\ m \notin f.marks => Has(Migrated(f, forced, m, rows, applies), Marker(m))
         /\ m \notin f.marks /\ ~forced /\ applies =>
              \A r : Has(rows, Row(r)) => Has(Migrated(f, forced, m, rows, applies), Row(r))
<1> DEFINE s == Migrated(f, forced, m, rows, applies)
<1>1. CASE m \in f.marks
  BY <1>1, NoWrite DEF Migrated
<1>2. CASE m \notin f.marks
  <2>1. Marker(m) \in Writes /\ Vouched(Marker(m)) = MigratedBy(m)
    BY WriteNames DEF Writes, Vouched
  <2>2. rows \in Seq(Writes) /\ RowsFirst(rows, old)
    BY RowsVouchNothing
  <2>3. CASE ~forced /\ applies
    <3>1. s = rows \o <<Marker(m)>>
      BY <1>2, <2>3 DEF Migrated
    <3>2. /\ <<Marker(m)>> \in Seq(Writes) /\ Has(<<Marker(m)>>, Marker(m))
          /\ RowsFirst(<<Marker(m)>>, old \ MigratedBy(m))
      <4>1. Vouched(Marker(m)) \cap (old \ MigratedBy(m)) = {}
        BY <2>1
      <4> QED
        BY <2>1, <4>1, OneWrite
    <3>3. \A r \in old : r \in old \ MigratedBy(m) \/ Has(rows, Row(r))
      BY <1>2
    <3>4. RowsFirst(rows \o <<Marker(m)>>, old)
      BY <2>2, <3>2, <3>3, OrderConcat
    <3>5. \A w : Has(rows \o <<Marker(m)>>, w) <=> Has(rows, w) \/ Has(<<Marker(m)>>, w)
      BY <2>2, <3>2, HasConcat
    <3>6. rows \o <<Marker(m)>> \in Seq(Writes)
      BY <2>2, <3>2
    <3> QED
      BY <3>1, <3>2, <3>4, <3>5, <3>6, Zenon
  <2>4. CASE ~(~forced /\ applies)
    <3>1. s = <<>> \o <<Marker(m)>>
      BY <1>2, <2>4, Zenon DEF Migrated
    <3>2. s = <<Marker(m)>>
      BY <3>1
    <3>3. Vouched(Marker(m)) \cap old = {}
      BY <1>2, <2>1, <2>4
    <3> QED
      BY <2>1, <2>4, <3>2, <3>3, OneWrite
  <2> QED
    BY <2>3, <2>4
<1> QED
  BY <1>1, <1>2

---------------------------------------------------------------------------
\* The rows of an older firmware that are still in flash.
Old(f) == {r \in Rows : f.row[r] = "legacy"}

\* A flash with this firmware's version has old rows only where a migration is to come.
FlashReady(f, version) ==
  f.ver = version => \A r \in Old(f) : \E m \in Markers \ f.marks : r \in MigratedBy(m)

FlashType ==
  [row : [Rows -> Values \cup {Absent}], marks : SUBSET Markers, ver : Nat, cal : [Keys -> Nat]]

\* What a boot has still to write: every old row, every missing marker, the version,
\* in an order in which nothing vouches for a row that is still to come.
BootPlan(s, f, version) ==
  /\ s \in Seq(Writes) /\ RowsFirst(s, Old(f))
  /\ \A r \in Old(f) : Has(s, Row(r))
  /\ \A m \in Markers \ f.marks : Has(s, Marker(m))
  /\ f.ver # version => Has(s, Version)

\* The rows and the version of a boot that stores the defaults.
LEMMA ForcedPart ==
  LET s == [i \in 1 .. Len(RowOrder) |-> Row(RowOrder[i])] \o <<Version>>
  IN  /\ s \in Seq(Writes) /\ \A old \in SUBSET Rows : RowsFirst(s, old)
      /\ \A r \in Rows : Has(s, Row(r))
      /\ Has(s, Version)
<1> DEFINE rows == [i \in 1 .. Len(RowOrder) |-> Row(RowOrder[i])]
<1>1. /\ Len(RowOrder) = 4 /\ RowOrder[1] = "pin" /\ RowOrder[2] = "mult"
      /\ RowOrder[3] = "ref" /\ RowOrder[4] = "gain"
  BY DEF RowOrder
<1>2. \A i \in 1 .. 4 : RowOrder[i] \in Rows
  <2>1. \A i \in 1 .. 4 : i = 1 \/ i = 2 \/ i = 3 \/ i = 4
    OBVIOUS
  <2> QED
    BY <1>1, <2>1 DEF Rows
<1>3. rows = [i \in 1 .. 4 |-> Row(RowOrder[i])]
  BY <1>1
<1>4. rows \in Seq({Row(r) : r \in Rows}) /\ Len(rows) = 4
  <2>1. \A i \in 1 .. 4 : Row(RowOrder[i]) \in {Row(r) : r \in Rows}
    BY <1>2
  <2>2. ASSUME NEW R, \A i \in 1 .. 4 : Row(RowOrder[i]) \in R
        PROVE  /\ [i \in 1 .. 4 |-> Row(RowOrder[i])] \in Seq(R)
               /\ Len([i \in 1 .. 4 |-> Row(RowOrder[i])]) = 4
    BY <2>2
  <2> HIDE DEF rows
  <2> QED
    BY <1>3, <2>1, <2>2
<1>5. \A r \in Rows : Has(rows, Row(r))
  <2>1. \A r \in Rows : \E i \in 1 .. 4 : RowOrder[i] = r
    BY <1>1 DEF Rows
  <2>2. \A i \in 1 .. 4 : rows[i] = Row(RowOrder[i])
    BY <1>3
  <2> HIDE DEF rows
  <2> QED
    BY <1>4, <2>1, <2>2 DEF Has
<1>6. rows \in Seq(Writes) /\ \A old : RowsFirst(rows, old)
  <2> HIDE DEF rows
  <2> QED
    BY <1>4, RowsVouchNothing
<1>7. Version \in Writes
  BY DEF Writes
<1>8. /\ <<Version>> \in Seq(Writes) /\ RowsFirst(<<Version>>, {})
      /\ Has(<<Version>>, Version)
  BY <1>7, OneWrite
<1> HIDE DEF rows
<1>9. ASSUME NEW old \in SUBSET Rows PROVE RowsFirst(rows \o <<Version>>, old)
  <2>1. \A r \in old : r \in {} \/ Has(rows, Row(r))
    BY <1>5
  <2>2. RowsFirst(rows, old) /\ rows \in Seq(Writes)
    BY <1>6
  <2> QED
    BY <1>8, <2>1, <2>2, OrderConcat
<1>10. \A w : Has(rows \o <<Version>>, w) <=> Has(rows, w) \/ Has(<<Version>>, w)
  BY <1>6, <1>8, HasConcat
<1>11. rows \o <<Version>> \in Seq(Writes)
  BY <1>6, <1>8
<1> QED
  BY <1>5, <1>8, <1>9, <1>10, <1>11 DEF rows

\* Putting a part of a boot, complete in itself, in front.
LEMMA BootPlanned ==
  ASSUME NEW f \in FlashType, NEW version \in Nat
  PROVE  /\ BootWrites(f, version) \in Seq(Writes)
         /\ FlashReady(f, version) => BootPlan(BootWrites(f, version), f, version)
<1> DEFINE forced == f.ver # version
           low(r) == Loaded(f)[r] \in Low
           a == IF forced THEN [i \in 1 .. Len(RowOrder) |-> Row(RowOrder[i])] \o <<Version>> ELSE <<>>
           b == Migrated(f, forced, "ref", <<Row("ref")>>, low("ref"))
           c == Migrated(f, forced, "pm1", <<Row("mult")>>, low("mult"))
           d == Migrated(f, forced, "pins", <<Row("pin"), Row("mult")>>, TRUE)
           old == IF forced THEN {} ELSE Old(f)
<1>1. BootWrites(f, version) = a \o b \o c \o d
  BY Zenon DEF BootWrites
<1>2. /\ forced \in BOOLEAN /\ low("ref") \in BOOLEAN /\ low("mult") \in BOOLEAN
      /\ Old(f) \in SUBSET Rows
  BY DEF Old
<1>3. \A r \in Rows : r \in Old(f) => low(r)
  BY DEF Old, Loaded, Low, Absent
<1>4. /\ a \in Seq(Writes) /\ RowsFirst(a, Old(f)) /\ (forced => Has(a, Version))
      /\ \A r \in Old(f) : r \in old \/ Has(a, Row(r))
  <2>1. CASE forced
    BY <1>2, <2>1, ForcedPart
  <2>2. CASE ~forced
    BY <1>2, <2>2, NoWrite
  <2> QED
    BY <2>1, <2>2
<1>5. /\ <<Row("ref")>> \in Seq({Row(r) : r \in Rows}) /\ Has(<<Row("ref")>>, Row("ref"))
      /\ <<Row("mult")>> \in Seq({Row(r) : r \in Rows}) /\ Has(<<Row("mult")>>, Row("mult"))
      /\ <<Row("pin"), Row("mult")>> \in Seq({Row(r) : r \in Rows})
      /\ Has(<<Row("pin"), Row("mult")>>, Row("pin"))
      /\ Has(<<Row("pin"), Row("mult")>>, Row("mult"))
  <2>1. \A r \in {"ref", "mult", "pin"} : Row(r) \in {Row(q) : q \in Rows}
    BY DEF Rows
  <2>2. ASSUME NEW R, NEW x \in R PROVE <<x>> \in Seq(R) /\ Has(<<x>>, x)
    <3>1. <<x>> \in Seq(R) /\ Len(<<x>>) = 1 /\ <<x>>[1] = x
      OBVIOUS
    <3> QED
      BY <3>1 DEF Has
  <2>3. ASSUME NEW R, NEW x \in R, NEW y \in R
        PROVE  <<x, y>> \in Seq(R) /\ Has(<<x, y>>, x) /\ Has(<<x, y>>, y)
    <3>1. <<x, y>> \in Seq(R) /\ Len(<<x, y>>) = 2 /\ <<x, y>>[1] = x /\ <<x, y>>[2] = y
      OBVIOUS
    <3> QED
      BY <3>1 DEF Has
  <2> QED
    BY <2>1, <2>2, <2>3, Zenon
<1>6. "ref" \in Markers /\ "pm1" \in Markers /\ "pins" \in Markers
  BY DEF Markers
<1>7. /\ MigratedBy("ref") = {"ref"} /\ MigratedBy("pm1") = {"mult"}
      /\ MigratedBy("pins") = {"pin", "mult"}
  BY DEF MigratedBy
<1>8. \A r \in old : ~forced /\ low(r)
  BY <1>2, <1>3
<1> HIDE DEF a, forced, low, old
<1>9. /\ b \in Seq(Writes) /\ RowsFirst(b, old)
      /\ "ref" \notin f.marks => Has(b, Marker("ref"))
      /\ "ref" \notin f.marks /\ "ref" \in old => Has(b, Row("ref"))
  <2>1. \A r \in MigratedBy("ref") \cap old : ~forced /\ low("ref") /\ Has(<<Row("ref")>>, Row(r))
    BY <1>5, <1>7, <1>8
  <2> HIDE DEF Has
  <2> QED
    BY <1>2, <1>5, <1>6, <1>8, <2>1, MigratedSafe
<1>10. /\ c \in Seq(Writes) /\ RowsFirst(c, old)
       /\ "pm1" \notin f.marks => Has(c, Marker("pm1"))
       /\ "pm1" \notin f.marks /\ "mult" \in old => Has(c, Row("mult"))
  <2>1. \A r \in MigratedBy("pm1") \cap old : ~forced /\ low("mult") /\ Has(<<Row("mult")>>, Row(r))
    BY <1>5, <1>7, <1>8
  <2> QED
    BY <1>2, <1>5, <1>6, <1>8, <2>1, MigratedSafe
<1>11. /\ d \in Seq(Writes) /\ RowsFirst(d, old)
       /\ "pins" \notin f.marks => Has(d, Marker("pins"))
       /\ "pins" \notin f.marks /\ old # {} => Has(d, Row("pin")) /\ Has(d, Row("mult"))
  <2>1. \A r \in MigratedBy("pins") \cap old : ~forced /\ Has(<<Row("pin"), Row("mult")>>, Row(r))
    BY <1>5, <1>7, <1>8
  <2> QED
    BY <1>2, <1>5, <1>6, <1>8, <2>1, MigratedSafe
<1> HIDE DEF b, c, d
<1>12. RowsFirst(a \o b, Old(f)) /\ a \o b \in Seq(Writes)
  BY <1>4, <1>9, OrderConcat
<1>13. \A w : Has(a \o b, w) <=> Has(a, w) \/ Has(b, w)
  BY <1>4, <1>9, HasConcat
<1>14. RowsFirst(a \o b \o c, Old(f)) /\ a \o b \o c \in Seq(Writes)
  <2>1. \A r \in Old(f) : r \in old \/ Has(a \o b, Row(r))
    BY <1>4, <1>13
  <2>2. RowsFirst(a \o b \o c, Old(f))
    BY <1>10, <1>12, <2>1, OrderConcat
  <2> QED
    BY <1>10, <1>12, <2>2
<1>15. \A w : Has(a \o b \o c, w) <=> Has(a \o b, w) \/ Has(c, w)
  BY <1>10, <1>12, HasConcat
<1>16. RowsFirst(a \o b \o c \o d, Old(f)) /\ a \o b \o c \o d \in Seq(Writes)
  <2>1. \A r \in Old(f) : r \in old \/ Has(a \o b \o c, Row(r))
    BY <1>4, <1>13, <1>15
  <2>2. RowsFirst(a \o b \o c \o d, Old(f))
    BY <1>11, <1>14, <2>1, OrderConcat
  <2> QED
    BY <1>11, <1>14, <2>2
<1>17. \A w : Has(a \o b \o c \o d, w) <=> Has(a, w) \/ Has(b, w) \/ Has(c, w) \/ Has(d, w)
  <2>1. \A w : Has(a \o b \o c \o d, w) <=> Has(a \o b \o c, w) \/ Has(d, w)
    BY <1>11, <1>14, HasConcat
  <2> QED
    BY <2>1, <1>13, <1>15, Zenon
<1>18. ASSUME FlashReady(f, version), NEW r \in Old(f)
       PROVE  Has(a, Row(r)) \/ Has(b, Row(r)) \/ Has(c, Row(r)) \/ Has(d, Row(r))
  <2>1. CASE forced
    BY <1>4, <1>8, <1>18, <2>1
  <2>2. CASE ~forced
    <3>1. r \in old /\ f.ver = version
      BY <1>18, <2>2 DEF old, forced
    <3>2. PICK m \in Markers \ f.marks : r \in MigratedBy(m)
      BY <1>18, <3>1 DEF FlashReady
    <3>3. m = "ref" \/ m = "pm1" \/ m = "pins"
      BY DEF Markers
    <3> QED
      BY <1>7, <1>9, <1>10, <1>11, <3>1, <3>2, <3>3
  <2> QED
    BY <2>1, <2>2
<1>19. ASSUME NEW m \in Markers \ f.marks
       PROVE  Has(b, Marker(m)) \/ Has(c, Marker(m)) \/ Has(d, Marker(m))
  <2>1. m = "ref" \/ m = "pm1" \/ m = "pins"
    BY DEF Markers
  <2> QED
    BY <1>9, <1>10, <1>11, <1>19, <2>1
<1>20. f.ver # version => Has(a, Version)
  BY <1>4 DEF forced
<1> QED
  BY <1>1, <1>16, <1>17, <1>18, <1>19, <1>20, Zenon DEF BootPlan

---------------------------------------------------------------------------
(* Types *)

Jobs == {"rest", "set", "defaults", "snapshot", "cal", "save"}

JobType ==
  [at : Jobs, left : Seq(Rows \cup Keys), value : Values \cup {Absent}, copy : [Keys -> Nat],
   failed : BOOLEAN]

TypeInv ==
  /\ flash \in FlashType /\ live \in [Rows -> Values] /\ boot \in Seq(Writes)
  /\ job \in JobType /\ saveReq \in BOOLEAN /\ cal \in [gen : [Keys -> Nat], pending : BOOLEAN]
  /\ fw \in Nat /\ budget \in Nat /\ owned \in [Rows -> Own \cup {Absent}]
  /\ due \in SUBSET Rows /\ calWarned \in BOOLEAN

\* What is left of a job is of its kind.
JobShape ==
  /\ job.at \in {"set", "defaults", "save"} => job.left \in Seq(Rows)
  /\ job.at = "cal" => job.left \in Seq(Keys)
  /\ job.at = "set" => job.left # <<>> /\ job.value \in Own
  /\ Len(job.left) <= Len(RowOrder)

\* Nothing is at work while the board starts.
Starting == ~Running => job = Rest /\ ~saveReq /\ due = {} /\ ~cal.pending

\* What is left of a budget bounds the generations and the firmwares to come.
Counted ==
  /\ fw >= 1 /\ fw + budget <= Budget + 1 /\ flash.ver <= fw
  /\ \A k \in Keys :
       /\ flash.cal[k] <= cal.gen[k] /\ job.copy[k] <= cal.gen[k]
       /\ cal.gen[k] + budget + (IF job.at = "defaults" THEN 1 ELSE 0) <= Budget

StoreInv == TypeInv /\ JobShape /\ Starting /\ Counted

LEMMA SetFacts ==
  /\ Keys = {"mag", "level"} /\ Rows = {"pin", "mult", "ref", "gain"}
  /\ Own \subseteq Values /\ {"default", "tuned", "legacy"} \subseteq Values
  /\ Len(RowOrder) = 4 /\ Len(KeyOrder) = 2 /\ RowOrder \in Seq(Rows) /\ KeyOrder \in Seq(Keys)
  /\ NoCopy \in [Keys -> Nat] /\ \A k \in Keys : NoCopy[k] = 0
<1>1. /\ Keys = {"mag", "level"} /\ Rows = {"pin", "mult", "ref", "gain"}
      /\ Own \subseteq Values /\ {"default", "tuned", "legacy"} \subseteq Values
  BY DEF Keys, Rows, Values
<1>2. Len(RowOrder) = 4 /\ RowOrder \in Seq(Rows)
  BY DEF RowOrder, Rows
<1>3. Len(KeyOrder) = 2 /\ KeyOrder \in Seq(Keys)
  BY DEF KeyOrder, Keys
<1>4. NoCopy \in [Keys -> Nat] /\ \A k \in Keys : NoCopy[k] = 0
  BY DEF NoCopy
<1> QED
  BY <1>1, <1>2, <1>3, <1>4

LEMMA RestType == Rest \in JobType /\ Rest.at = "rest" /\ Rest.left = <<>> /\ Rest.failed = FALSE
                  /\ Rest.copy = NoCopy /\ Rest.value = Absent
<1>1. <<>> \in Seq(Rows \cup Keys)
  OBVIOUS
<1> QED
  BY <1>1, SetFacts DEF Rest, JobType, Jobs

LEMMA LoadedType == ASSUME NEW f \in FlashType PROVE Loaded(f) \in [Rows -> Values]
<1>1. \A r \in Rows : f.row[r] \in Values \cup {Absent}
  BY DEF FlashType
<1>2. \A r \in Rows : (IF f.row[r] = Absent THEN "default" ELSE f.row[r]) \in Values
  BY <1>1, SetFacts
<1> QED
  BY <1>2, Zenon DEF Loaded

\* A board that starts from a well-formed flash.
LEMMA RestartHolds ==
  ASSUME PersistenceAssumption, NEW f \in FlashType, NEW version \in Nat, version >= 1, f.ver <= version,
         budget' \in Nat, version + budget' <= Budget + 1,
         \A k \in Keys : f.cal[k] + budget' <= Budget,
         owned' \in [Rows -> Own \cup {Absent}], Restart(f, version)
  PROVE  StoreInv' /\ (FlashReady(f, version) => BootPlan(boot', flash', fw'))
<1>1. /\ flash' = f /\ fw' = version /\ live' = Loaded(f) /\ boot' = BootWrites(f, version)
      /\ job' = Rest /\ saveReq' = FALSE /\ cal' = [gen |-> f.cal, pending |-> FALSE]
      /\ due' = {} /\ calWarned' = FALSE
  BY DEF Restart
<1>2. boot' \in Seq(Writes) /\ (FlashReady(f, version) => BootPlan(boot', flash', fw'))
  BY <1>1, BootPlanned
<1>4. live' \in [Rows -> Values]
  BY <1>1, LoadedType
<1>5. f.cal \in [Keys -> Nat]
  BY DEF FlashType
<1>6. TypeInv'
  <2>1. cal' \in [gen : [Keys -> Nat], pending : BOOLEAN]
    BY <1>1, <1>5
  <2> QED
    BY <1>1, <1>2, <1>4, <2>1, RestType DEF TypeInv
<1>7. JobShape'
  BY <1>1, RestType, SetFacts DEF JobShape
<1>8. Starting'
  BY <1>1 DEF Starting
<1>9. Counted'
  <2>1. /\ cal'.gen = f.cal /\ flash'.cal = f.cal /\ job'.copy = NoCopy /\ job'.at # "defaults"
    BY <1>1, RestType
  <2>2. \A k \in Keys : f.cal[k] \in Nat
    BY <1>5
  <2>3. Budget \in Nat /\ budget' \in Nat
    BY DEF PersistenceAssumption
  <2>4. fw' >= 1 /\ fw' + budget' <= Budget + 1 /\ flash'.ver <= fw'
    BY <1>1, <2>3
  <2>5. ASSUME NEW k \in Keys
        PROVE  /\ flash'.cal[k] <= cal'.gen[k] /\ job'.copy[k] <= cal'.gen[k]
               /\ cal'.gen[k] + budget' + (IF job'.at = "defaults" THEN 1 ELSE 0) <= Budget
    <3>1. f.cal[k] + budget' + 0 <= Budget /\ f.cal[k] <= f.cal[k] /\ NoCopy[k] <= f.cal[k]
      BY <2>2, <2>3, SetFacts
    <3> QED
      BY <2>1, <3>1
  <2> QED
    BY <2>4, <2>5 DEF Counted
<1> QED
  BY <1>2, <1>6, <1>7, <1>8, <1>9 DEF StoreInv

\* The boards there are: new ones, and those of an older firmware or this one.
LEMMA FirstFlash ==
  ASSUME PersistenceAssumption, PInit
  PROVE  /\ flash \in FlashType /\ flash.ver <= 1 /\ fw = 1 /\ FlashReady(flash, 1)
         /\ \A k \in Keys : flash.cal[k] = 0
<1>1. PICK ver \in {0, 1}, blank \in BOOLEAN, marks \in {{}, {"pm1"}} :
        LET moved == IF ver = 0 THEN {} ELSE IF marks = {} THEN {"gain"} ELSE {"gain", "mult"}
        IN  flash = [row |-> [r \in Rows |-> IF blank THEN Absent
                                              ELSE IF r \in moved THEN "default" ELSE "legacy"],
                     marks |-> IF blank THEN {} ELSE marks, ver |-> IF blank THEN 0 ELSE ver,
                     cal |-> [k \in Keys |-> 0]]
  BY Zenon DEF PInit
<1> DEFINE moved == IF ver = 0 THEN {} ELSE IF marks = {} THEN {"gain"} ELSE {"gain", "mult"}
<1>2. /\ flash.row = [r \in Rows |-> IF blank THEN Absent ELSE IF r \in moved THEN "default" ELSE "legacy"]
      /\ flash.marks = (IF blank THEN {} ELSE marks)
      /\ flash.ver = (IF blank THEN 0 ELSE ver)
      /\ flash.cal = [k \in Keys |-> 0]
      /\ flash = [row |-> flash.row, marks |-> flash.marks, ver |-> flash.ver, cal |-> flash.cal]
  BY <1>1
<1>3. flash.row \in [Rows -> Values \cup {Absent}]
  <2>1. \A r \in Rows : (IF blank THEN Absent ELSE IF r \in moved THEN "default" ELSE "legacy")
                        \in Values \cup {Absent}
    BY SetFacts
  <2> HIDE DEF moved
  <2> QED
    BY <1>2, <2>1
<1>4. flash.marks \in SUBSET Markers /\ flash.ver \in Nat /\ flash.ver <= 1
  BY <1>2 DEF Markers
<1>5. flash \in FlashType /\ \A k \in Keys : flash.cal[k] = 0
  BY <1>2, <1>3, <1>4 DEF FlashType
<1>6. FlashReady(flash, 1)
  <2> SUFFICES ASSUME flash.ver = 1, NEW r \in Rows, flash.row[r] = "legacy"
               PROVE  \E m \in Markers \ flash.marks : r \in MigratedBy(m)
    BY DEF FlashReady, Old
  <2>1. ~blank /\ ver = 1 /\ flash.marks = marks /\ flash.row[r] = IF r \in moved THEN "default" ELSE "legacy"
    BY <1>2
  <2>2. r \notin moved
    BY <2>1
  <2>3. r # "gain" /\ (marks # {} => r # "mult")
    BY <2>1, <2>2
  <2>4. r \in {"pin", "mult", "ref"}
    BY <2>3, SetFacts
  <2>5. "ref" \notin marks /\ "pins" \notin marks
    OBVIOUS
  <2> QED
    BY <2>1, <2>4, <2>5 DEF Markers, MigratedBy
<1> QED
  BY <1>4, <1>5, <1>6 DEF PInit

LEMMA StoreInit ==
  ASSUME PersistenceAssumption, PInit
  PROVE  StoreInv /\ FlashReady(flash, fw) /\ BootPlan(boot, flash, fw)
<1>1. /\ flash \in FlashType /\ flash.ver <= 1 /\ fw = 1 /\ FlashReady(flash, 1)
      /\ \A k \in Keys : flash.cal[k] = 0
  BY FirstFlash
<1>2. /\ budget = Budget /\ live = Loaded(flash) /\ boot = BootWrites(flash, fw)
      /\ job = Rest /\ saveReq = FALSE /\ cal = [gen |-> [k \in Keys |-> 0], pending |-> FALSE]
      /\ owned = [r \in Rows |-> Absent] /\ due = {} /\ calWarned = FALSE
  BY DEF PInit
<1>3. boot \in Seq(Writes) /\ BootPlan(boot, flash, fw)
  BY <1>1, <1>2, BootPlanned
<1>4. live \in [Rows -> Values]
  BY <1>1, <1>2, LoadedType
<1>5. owned \in [Rows -> Own \cup {Absent}] /\ cal \in [gen : [Keys -> Nat], pending : BOOLEAN]
  BY <1>2
<1>6. TypeInv
  BY <1>1, <1>2, <1>3, <1>4, <1>5, RestType DEF TypeInv, PersistenceAssumption
<1>7. JobShape
  BY <1>2, RestType, SetFacts DEF JobShape
<1>8. Starting
  BY <1>2 DEF Starting
<1>9. Counted
  <2>1. /\ \A k \in Keys : cal.gen[k] = 0
        /\ job.copy = NoCopy /\ job.at # "defaults"
    BY <1>2, RestType
  <2> QED
    BY <1>1, <1>2, <2>1, SetFacts DEF Counted, PersistenceAssumption
<1> QED
  BY <1>1, <1>3, <1>6, <1>7, <1>8, <1>9 DEF StoreInv

---------------------------------------------------------------------------
(* One step *)

\* What stays in the type when one row is stored, in memory or in flash.
LEMMA OneRow ==
  ASSUME NEW r \in Rows, NEW v \in Values
  PROVE  /\ \A f \in FlashType :
              LET g == [f EXCEPT !.row[r] = v]
              IN  /\ g \in FlashType /\ g.cal = f.cal /\ g.ver = f.ver /\ g.marks = f.marks
                  /\ g.row = [f.row EXCEPT ![r] = v]
         /\ \A l \in [Rows -> Values] : [l EXCEPT ![r] = v] \in [Rows -> Values]
BY DEF FlashType

\* The write of one step of a boot.
LEMMA Written ==
  ASSUME BootWrite, NEW w \in Writes, w = Head(boot)
  PROVE  /\ \/ UncheckedFail /\ flash' = flash
            \/ w.put = "row" /\ flash' = [flash EXCEPT !.row[w.of] = "default"]
            \/ w.put = "marker" /\ flash' = [flash EXCEPT !.marks = @ \cup {w.of}]
            \/ w.put = "version" /\ flash' = [flash EXCEPT !.ver = fw]
         /\ live' = IF w.put = "row" THEN [live EXCEPT ![w.of] = "default"] ELSE live
<1>1. w.put = "row" \/ w.put = "marker" \/ w.put = "version"
  BY WriteNames DEF Writes
<1>2. /\ flash' \in
            {CASE w.put = "row"     -> [flash EXCEPT !.row[w.of] = "default"]
               [] w.put = "marker"  -> [flash EXCEPT !.marks = @ \cup {w.of}]
               [] w.put = "version" -> [flash EXCEPT !.ver = fw]}
            \cup (IF UncheckedFail THEN {flash} ELSE {})
      /\ live' = IF w.put = "row" THEN [live EXCEPT ![w.of] = "default"] ELSE live
  BY DEF BootWrite
<1>3. CASE w.put = "row"
  BY <1>2, <1>3
<1>4. CASE w.put = "marker"
  BY <1>2, <1>4
<1>5. CASE w.put = "version"
  BY <1>2, <1>5
<1> QED
  BY <1>1, <1>3, <1>4, <1>5

LEMMA BootWriteHolds == ASSUME StoreInv, BootWrite PROVE StoreInv'
<1>1. TypeInv /\ Starting /\ Counted /\ JobShape
  BY DEF StoreInv
<1>2. /\ ~Running /\ boot # <<>> /\ boot' = Tail(boot)
      /\ UNCHANGED <<job, saveReq, cal, fw, budget, owned, due, calWarned>>
  BY Zenon DEF BootWrite, Running
<1>3. PICK w \in Writes : w = Head(boot)
  BY <1>1, <1>2 DEF TypeInv
<1>4. /\ \/ flash' = flash
         \/ w.put = "row" /\ flash' = [flash EXCEPT !.row[w.of] = "default"]
         \/ w.put = "marker" /\ flash' = [flash EXCEPT !.marks = @ \cup {w.of}]
         \/ w.put = "version" /\ flash' = [flash EXCEPT !.ver = fw]
      /\ live' = IF w.put = "row" THEN [live EXCEPT ![w.of] = "default"] ELSE live
  BY <1>3, Written
<1>5. boot' \in Seq(Writes)
  BY <1>1, <1>2 DEF TypeInv
<1>6. (w.put = "row" => w.of \in Rows) /\ (w.put = "marker" => w.of \in Markers)
  BY WriteNames DEF Writes
<1>7. /\ flash' \in FlashType /\ flash'.cal = flash.cal
      /\ flash'.ver = flash.ver \/ flash'.ver = fw
  <2>1. flash \in FlashType /\ fw \in Nat
    BY <1>1 DEF TypeInv
  <2>2. CASE w.put = "row" /\ flash' = [flash EXCEPT !.row[w.of] = "default"]
    BY <1>6, <2>1, <2>2, SetFacts DEF FlashType
  <2>3. CASE w.put = "marker" /\ flash' = [flash EXCEPT !.marks = @ \cup {w.of}]
    BY <1>6, <2>1, <2>3 DEF FlashType
  <2>4. CASE w.put = "version" /\ flash' = [flash EXCEPT !.ver = fw]
    BY <2>1, <2>4 DEF FlashType
  <2> QED
    BY <1>4, <2>1, <2>2, <2>3, <2>4
<1>8. live' \in [Rows -> Values]
  BY <1>1, <1>4, <1>6, SetFacts DEF TypeInv
<1>9. TypeInv'
  BY <1>1, <1>2, <1>5, <1>7, <1>8, Zenon DEF TypeInv
<1>10. Counted'
  BY <1>1, <1>2, <1>7 DEF Counted, TypeInv
<1>11. JobShape' /\ Starting'
  BY <1>1, <1>2 DEF JobShape, Starting
<1> QED
  BY <1>9, <1>10, <1>11 DEF StoreInv

\* A reset spends, and finds in flash what was written.
LEMMA ResetHolds ==
  ASSUME PersistenceAssumption, StoreInv, Reset
  PROVE  StoreInv' /\ (FlashReady(flash, fw) => BootPlan(boot', flash', fw'))
<1>1. TypeInv /\ Counted
  BY DEF StoreInv
<1>2. budget > 0 /\ budget' = budget - 1 /\ owned' = owned /\ Restart(flash, fw)
  BY DEF Reset, Spend
<1>3. ASSUME NEW k \in Keys PROVE flash.cal[k] + budget' <= Budget
  <2>1. flash.cal[k] \in Nat /\ cal.gen[k] \in Nat /\ budget \in Nat /\ Budget \in Nat
    BY <1>1 DEF TypeInv, FlashType, PersistenceAssumption
  <2>2. /\ flash.cal[k] <= cal.gen[k]
        /\ cal.gen[k] + budget + (IF job.at = "defaults" THEN 1 ELSE 0) <= Budget
    BY <1>1 DEF Counted
  <2> QED
    BY <1>2, <2>1, <2>2
<1>4. /\ flash \in FlashType /\ fw \in Nat /\ fw >= 1 /\ flash.ver <= fw /\ budget' \in Nat
      /\ fw + budget' <= Budget + 1 /\ owned' \in [Rows -> Own \cup {Absent}]
  BY <1>1, <1>2 DEF TypeInv, Counted, PersistenceAssumption
<1> QED
  BY <1>2, <1>3, <1>4, RestartHolds

LEMMA NewFirmwareHolds ==
  ASSUME PersistenceAssumption, StoreInv, NewFirmware
  PROVE  StoreInv' /\ BootPlan(boot', flash', fw')
<1> DEFINE f == [flash EXCEPT !.row = [r \in Rows |-> IF @[r] = Absent THEN Absent ELSE "legacy"]]
<1>1. TypeInv /\ Counted
  BY DEF StoreInv
<1>2. /\ budget > 0 /\ budget' = budget - 1 /\ owned' = [r \in Rows |-> Absent]
      /\ Restart(f, fw + 1)
  BY Zenon DEF NewFirmware, Spend
<1>3. f \in FlashType /\ f.cal = flash.cal /\ f.ver = flash.ver
  <2>1. flash \in FlashType
    BY <1>1 DEF TypeInv
  <2>2. \A r \in Rows : (IF flash.row[r] = Absent THEN Absent ELSE "legacy") \in Values \cup {Absent}
    BY SetFacts
  <2> QED
    BY <2>1, <2>2 DEF FlashType
<1>4. ASSUME NEW k \in Keys PROVE f.cal[k] + budget' <= Budget
  <2>1. flash.cal[k] \in Nat /\ cal.gen[k] \in Nat /\ budget \in Nat /\ Budget \in Nat
    BY <1>1 DEF TypeInv, FlashType, PersistenceAssumption
  <2>2. /\ flash.cal[k] <= cal.gen[k]
        /\ cal.gen[k] + budget + (IF job.at = "defaults" THEN 1 ELSE 0) <= Budget
    BY <1>1 DEF Counted
  <2>3. flash.cal[k] + budget' <= Budget
    BY <1>2, <2>1, <2>2
  <2> QED
    BY <1>3, <2>3
<1>5. f.ver # fw + 1
  BY <1>1, <1>3 DEF TypeInv, FlashType, Counted
<1>6. FlashReady(f, fw + 1)
  BY <1>5 DEF FlashReady
<1>7. /\ fw + 1 \in Nat /\ fw + 1 >= 1 /\ flash.ver <= fw + 1 /\ budget' \in Nat
      /\ fw + 1 + budget' <= Budget + 1
  BY <1>1, <1>2 DEF TypeInv, FlashType, Counted, PersistenceAssumption
<1>8. owned' \in [Rows -> Own \cup {Absent}]
  BY <1>2
<1> HIDE DEF f
<1> QED
  BY <1>2, <1>3, <1>4, <1>6, <1>7, <1>8, RestartHolds

\* Who spends may begin one more generation.
LEMMA Spent ==
  ASSUME PersistenceAssumption, TypeInv, Counted, budget > 0, budget' = budget - 1,
         flash' = flash, fw' = fw,
         \A k \in Keys : cal'.gen[k] = cal.gen[k] \/ (cal'.gen[k] = cal.gen[k] + 1 /\ job' = job),
         job' = job \/ (job.at = "rest" /\ job'.copy = NoCopy)
  PROVE  Counted'
<1>1. fw' >= 1 /\ fw' + budget' <= Budget + 1 /\ flash'.ver <= fw'
  BY DEF TypeInv, Counted, PersistenceAssumption
<1>2. ASSUME NEW k \in Keys
      PROVE  /\ flash'.cal[k] <= cal'.gen[k] /\ job'.copy[k] <= cal'.gen[k]
             /\ cal'.gen[k] + budget' + (IF job'.at = "defaults" THEN 1 ELSE 0) <= Budget
  <2>1. /\ flash.cal[k] \in Nat /\ cal.gen[k] \in Nat /\ job.copy[k] \in Nat /\ budget \in Nat
        /\ Budget \in Nat
    BY DEF TypeInv, FlashType, JobType, PersistenceAssumption
  <2>2. /\ flash.cal[k] <= cal.gen[k] /\ job.copy[k] <= cal.gen[k]
        /\ cal.gen[k] + budget + (IF job.at = "defaults" THEN 1 ELSE 0) <= Budget
    BY DEF Counted
  <2>3. job' = job \/ (job.at = "rest" /\ job'.copy[k] = 0 /\ cal'.gen[k] = cal.gen[k])
    BY SetFacts, RestType
  <2> QED
    BY <2>1, <2>2, <2>3
<1> QED
  BY <1>1, <1>2 DEF Counted

\* The routines of core 1, and the orders, leave flash and boot alone.
LEMMA RoutineHolds ==
  ASSUME PersistenceAssumption, StoreInv, TuneWrite \/ RequestSaveAll \/ CalFinish
  PROVE  StoreInv'
<1>1. TypeInv /\ JobShape /\ Counted /\ Running
  BY DEF StoreInv, TuneWrite, RequestSaveAll, CalFinish
<1>2. /\ UNCHANGED <<flash, boot, fw, calWarned, job>> /\ budget > 0 /\ budget' = budget - 1
      /\ Running'
  BY <1>1, Zenon DEF TuneWrite, RequestSaveAll, CalFinish, Spend, Running
<1>3. live' \in [Rows -> Values] /\ due' \in SUBSET Rows /\ owned' \in [Rows -> Own \cup {Absent}]
  <2>1. CASE TuneWrite
    <3>1. "gain" \in Rows /\ "tuned" \in Values
      BY SetFacts
    <3> QED
      BY <1>1, <2>1, <3>1 DEF TypeInv, TuneWrite
  <2>2. CASE RequestSaveAll \/ CalFinish
    BY <1>1, <2>2 DEF TypeInv, RequestSaveAll, CalFinish
  <2> QED
    BY <2>1, <2>2
<1>4. /\ cal' \in [gen : [Keys -> Nat], pending : BOOLEAN] /\ saveReq' \in BOOLEAN
      /\ \A k \in Keys : cal'.gen[k] = cal.gen[k] \/ cal'.gen[k] = cal.gen[k] + 1
  <2>1. cal.gen \in [Keys -> Nat] /\ cal \in [gen : [Keys -> Nat], pending : BOOLEAN] /\ saveReq \in BOOLEAN
    BY <1>1 DEF TypeInv
  <2>2. CASE CalFinish
    BY <2>1, <2>2 DEF CalFinish
  <2>3. CASE TuneWrite \/ RequestSaveAll
    BY <2>1, <2>3 DEF TuneWrite, RequestSaveAll
  <2> QED
    BY <2>2, <2>3
<1>5. TypeInv'
  BY <1>1, <1>2, <1>3, <1>4 DEF TypeInv
<1>6. JobShape' /\ Starting'
  BY <1>1, <1>2 DEF JobShape, Starting
<1>7. Counted'
  BY <1>1, <1>2, <1>4, Spent
<1> QED
  BY <1>5, <1>6, <1>7 DEF StoreInv

LEMMA OperatorHolds ==
  ASSUME PersistenceAssumption, StoreInv, ParamSet \/ ResetAllToDefaults \/ RequestStorage
  PROVE  StoreInv'
<1>1. TypeInv /\ JobShape /\ Counted /\ Running /\ job.at = "rest"
  BY DEF StoreInv, ParamSet, ResetAllToDefaults, RequestStorage, Idle
<1>2. /\ UNCHANGED <<flash, boot, fw, calWarned>> /\ budget > 0 /\ budget' = budget - 1
      /\ Running' /\ cal'.gen = cal.gen /\ cal' \in [gen : [Keys -> Nat], pending : BOOLEAN]
      /\ saveReq' \in BOOLEAN
  BY <1>1 DEF TypeInv, ParamSet, ResetAllToDefaults, RequestStorage, Spend, Running
<1>3. /\ live' \in [Rows -> Values] /\ due' \in SUBSET Rows /\ owned' \in [Rows -> Own \cup {Absent}]
      /\ job' \in JobType
      /\ \/ job' = job
         \/ /\ job'.copy = NoCopy /\ Len(job'.left) <= Len(RowOrder) /\ job'.left \in Seq(Rows)
            /\ \/ job'.at = "set" /\ job'.left # <<>> /\ job'.value \in Own
               \/ job'.at = "defaults"
  <2>1. CASE ParamSet
    <3>1. PICK r \in Rows, v \in Own :
            /\ live' = [live EXCEPT ![r] = v] /\ due' = due \ {r}
            /\ job' = [Rest EXCEPT !.at = "set", !.left = <<r>>, !.value = v]
            /\ owned' = [owned EXCEPT ![r] = Absent]
      BY <2>1, Zenon DEF ParamSet
    <3>2. v \in Values /\ <<r>> \in Seq(Rows) /\ <<r>> \in Seq(Rows \cup Keys) /\ Len(<<r>>) = 1
          /\ <<r>> # <<>>
      BY SetFacts
    <3>3. job' \in JobType /\ job'.copy = NoCopy /\ job'.left = <<r>> /\ job'.at = "set"
          /\ job'.value = v
      BY <3>1, <3>2, RestType, Zenon DEF JobType, Jobs
    <3>4. Len(job'.left) <= Len(RowOrder)
      BY <3>2, <3>3, SetFacts
    <3> QED
      BY <1>1, <3>1, <3>2, <3>3, <3>4 DEF TypeInv
  <2>2. CASE ResetAllToDefaults
    <3>1. job' = [Rest EXCEPT !.at = "defaults", !.left = RowOrder] /\ UNCHANGED <<live, due, owned>>
      BY <2>2 DEF ResetAllToDefaults
    <3>2. RowOrder \in Seq(Rows) /\ RowOrder \in Seq(Rows \cup Keys) /\ Len(RowOrder) <= Len(RowOrder)
      BY SetFacts
    <3>3. job' \in JobType /\ job'.copy = NoCopy /\ job'.left = RowOrder /\ job'.at = "defaults"
      BY <3>1, <3>2, RestType, Zenon DEF JobType, Jobs
    <3> QED
      BY <1>1, <3>1, <3>2, <3>3 DEF TypeInv
  <2>3. CASE RequestStorage
    BY <1>1, <2>3 DEF TypeInv, RequestStorage
  <2> QED
    BY <2>1, <2>2, <2>3
<1>4. TypeInv'
  BY <1>1, <1>2, <1>3 DEF TypeInv
<1>5. JobShape' /\ Starting'
  BY <1>1, <1>2, <1>3 DEF JobShape, Starting
<1>6. Counted'
  BY <1>1, <1>2, <1>3, Spent
<1> QED
  BY <1>4, <1>5, <1>6 DEF StoreInv

\* A job at work is one of a board that runs.
LEMMA AtWork == ASSUME Starting, job.at # "rest" \/ Idle PROVE Running
BY RestType DEF Starting, Idle

\* What the rest of a sequence keeps of it.
LEMMA TailFacts ==
  ASSUME NEW S, NEW s \in Seq(S), s # <<>>
  PROVE  /\ Head(s) \in S /\ Tail(s) \in Seq(S) /\ Len(Tail(s)) <= Len(s)
         /\ \A x : Has(s, x) => x = Head(s) \/ Has(Tail(s), x)
<1>1. Head(s) \in S /\ Tail(s) \in Seq(S) /\ Len(Tail(s)) = Len(s) - 1 /\ Len(s) \in Nat \ {0}
  OBVIOUS
<1>2. ASSUME NEW x, Has(s, x), x # Head(s) PROVE Has(Tail(s), x)
  <2>1. PICK i \in 1 .. Len(s) : s[i] = x
    BY <1>2 DEF Has
  <2>2. i # 1
    BY <1>2, <2>1
  <2>3. i - 1 \in 1 .. Len(Tail(s)) /\ Tail(s)[i - 1] = s[i]
    BY <1>1, <2>2
  <2> QED
    BY <2>1, <2>3 DEF Has
<1> QED
  BY <1>1, <1>2

\* A job of core 0 goes on: it is enough to look at what it touches.
LEMMA JobHolds ==
  ASSUME PersistenceAssumption, StoreInv, job.at # "rest" \/ Idle,
         UNCHANGED <<boot, fw, budget, live, owned>>,
         flash' \in FlashType, flash'.ver <= fw, due' \in SUBSET Rows, saveReq' \in BOOLEAN,
         calWarned' \in BOOLEAN, job' \in JobType, JobShape',
         cal' \in [gen : [Keys -> Nat], pending : BOOLEAN], cal'.gen = cal.gen,
         job'.at = "defaults" => job.at = "defaults",
         \A k \in Keys : flash'.cal[k] <= cal.gen[k] /\ job'.copy[k] <= cal.gen[k]
  PROVE  StoreInv'
<1>1. TypeInv /\ Starting /\ Counted
  BY DEF StoreInv
<1>2. Running' /\ Starting'
  BY <1>1, AtWork DEF Running, Starting
<1>3. TypeInv'
  BY <1>1, Zenon DEF TypeInv
<1>4. Counted'
  <2>1. ASSUME NEW k \in Keys
        PROVE  cal.gen[k] + budget + (IF job'.at = "defaults" THEN 1 ELSE 0) <= Budget
    <3>1. cal.gen[k] + budget + (IF job.at = "defaults" THEN 1 ELSE 0) <= Budget
      BY <1>1 DEF Counted
    <3>2. cal.gen[k] \in Nat /\ budget \in Nat
      BY <1>1 DEF TypeInv
    <3>3. CASE job.at = "defaults"
      BY <3>1, <3>2, <3>3 DEF PersistenceAssumption
    <3>4. CASE job.at # "defaults"
      BY <3>1, <3>4
    <3> QED
      BY <3>3, <3>4
  <2> QED
    BY <1>1, <2>1 DEF Counted
<1> QED
  BY <1>2, <1>3, <1>4 DEF StoreInv

\* A job that ends leaves the counts as they are.
LEMMA Idling ==
  ASSUME PersistenceAssumption, TypeInv, Counted, job' = Rest, flash'.cal = flash.cal,
         flash'.ver = flash.ver, UNCHANGED <<fw, budget>>, cal'.gen = cal.gen
  PROVE  Counted'
<1>1. ASSUME NEW k \in Keys
      PROVE  /\ flash'.cal[k] <= cal'.gen[k] /\ job'.copy[k] <= cal'.gen[k]
             /\ cal'.gen[k] + budget' + (IF job'.at = "defaults" THEN 1 ELSE 0) <= Budget
  <2>1. cal.gen[k] \in Nat /\ budget \in Nat /\ Budget \in Nat
    BY DEF TypeInv, PersistenceAssumption
  <2>2. /\ flash.cal[k] <= cal.gen[k]
        /\ cal.gen[k] + budget + (IF job.at = "defaults" THEN 1 ELSE 0) <= Budget
    BY DEF Counted
  <2>3. job'.at = "rest" /\ job'.copy[k] = 0
    BY RestType, SetFacts
  <2> QED
    BY <2>1, <2>2, <2>3
<1> QED
  BY <1>1 DEF Counted

LEMMA ParamStoreHolds == ASSUME PersistenceAssumption, StoreInv, ParamStore PROVE StoreInv'
<1>1. TypeInv /\ JobShape /\ Starting /\ Counted /\ job.at = "set"
  BY DEF StoreInv, ParamStore
<1>2. PICK r \in Rows : r = Head(job.left)
  BY <1>1 DEF JobShape
<1>3. /\ job' = Rest /\ UNCHANGED <<live, boot, saveReq, cal, fw, budget, due, calWarned>>
      /\ \/ /\ flash' = [flash EXCEPT !.row[r] = job.value]
            /\ owned' = [owned EXCEPT ![r] = IF live[r] = job.value THEN job.value ELSE Absent]
         \/ UNCHANGED <<flash, owned>>
  BY <1>2, Zenon DEF ParamStore
<1>4. job.value \in Own /\ job.value \in Values
  BY <1>1, SetFacts DEF JobShape
<1>5. flash' \in FlashType /\ flash'.cal = flash.cal /\ flash'.ver = flash.ver
  <2>1. flash \in FlashType
    BY <1>1 DEF TypeInv
  <2>2. CASE flash' = flash
    BY <2>1, <2>2
  <2>3. CASE flash' = [flash EXCEPT !.row[r] = job.value]
    BY <1>4, <2>1, <2>3, OneRow
  <2> QED
    BY <1>3, <2>2, <2>3
<1>6. owned' \in [Rows -> Own \cup {Absent}]
  BY <1>1, <1>3, <1>4 DEF TypeInv
<1>7. Running'
  BY <1>1, <1>3, AtWork DEF Running
<1>8. TypeInv'
  BY <1>1, <1>3, <1>5, <1>6, RestType, Zenon DEF TypeInv
<1>9. JobShape' /\ Starting'
  BY <1>3, <1>7, RestType, SetFacts DEF JobShape, Starting
<1>10. Counted'
  BY <1>1, <1>3, <1>5, Idling
<1> QED
  BY <1>8, <1>9, <1>10 DEF StoreInv

LEMMA DefaultRowHolds == ASSUME PersistenceAssumption, StoreInv, DefaultRow PROVE StoreInv'
<1>1. TypeInv /\ JobShape /\ Starting /\ Counted /\ job.at = "defaults" /\ job.left # <<>>
  BY DEF StoreInv, DefaultRow
<1>2. PICK r \in Rows : r = Head(job.left)
  BY <1>1 DEF JobShape
<1>3. /\ job' = [job EXCEPT !.left = Tail(@)] /\ UNCHANGED <<boot, saveReq, cal, fw, budget, calWarned>>
      /\ live' = [live EXCEPT ![r] = "default"] /\ due' = due \ {r}
      /\ owned' = [owned EXCEPT ![r] = Absent]
      /\ flash' = flash \/ flash' = [flash EXCEPT !.row[r] = "default"]
  BY <1>2 DEF DefaultRow
<1>4. flash' \in FlashType /\ flash'.cal = flash.cal /\ flash'.ver = flash.ver
  <2>1. flash \in FlashType /\ "default" \in Values
    BY <1>1, SetFacts DEF TypeInv
  <2>2. CASE flash' = flash
    BY <2>1, <2>2
  <2>3. CASE flash' = [flash EXCEPT !.row[r] = "default"]
    BY <2>1, <2>3, OneRow
  <2> QED
    BY <1>3, <2>2, <2>3
<1>5. /\ Tail(job.left) \in Seq(Rows) /\ Tail(job.left) \in Seq(Rows \cup Keys)
      /\ Len(Tail(job.left)) <= Len(RowOrder)
  BY <1>1, SetFacts DEF TypeInv, JobType, JobShape
<1>6. job' \in JobType /\ job'.at = "defaults" /\ job'.copy = job.copy /\ job'.left = Tail(job.left)
  BY <1>1, <1>3, <1>5, Zenon DEF TypeInv, JobType
<1>7. live' \in [Rows -> Values] /\ due' \in SUBSET Rows /\ owned' \in [Rows -> Own \cup {Absent}]
  BY <1>1, <1>3, SetFacts DEF TypeInv
<1>8. TypeInv'
  BY <1>1, <1>3, <1>4, <1>6, <1>7, Zenon DEF TypeInv
<1>9. JobShape' /\ Starting'
  BY <1>1, <1>3, <1>5, <1>6, AtWork DEF JobShape, Starting, Running
<1>10. Counted'
  BY <1>1, <1>3, <1>4, <1>6, Zenon DEF Counted
<1> QED
  BY <1>8, <1>9, <1>10 DEF StoreInv

\* The generation that the reset to defaults begins was spent with its order.
LEMMA DefaultsEndHolds == ASSUME PersistenceAssumption, StoreInv, DefaultsEnd PROVE StoreInv'
<1>1. TypeInv /\ JobShape /\ Starting /\ Counted /\ job.at = "defaults"
  BY DEF StoreInv, DefaultsEnd
<1>2. /\ job' = Rest /\ UNCHANGED <<live, boot, saveReq, fw, budget, owned, due, calWarned>>
      /\ flash' = [flash EXCEPT !.ver = fw]
      /\ cal' = [gen |-> [k \in Keys |-> cal.gen[k] + 1], pending |-> TRUE]
  BY DEF DefaultsEnd
<1>3. flash' \in FlashType /\ flash'.cal = flash.cal /\ flash'.ver = fw
  BY <1>1, <1>2 DEF TypeInv, FlashType
<1>4. /\ cal' \in [gen : [Keys -> Nat], pending : BOOLEAN]
      /\ \A k \in Keys : cal'.gen[k] = cal.gen[k] + 1
  BY <1>1, <1>2 DEF TypeInv
<1>5. TypeInv'
  BY <1>1, <1>2, <1>3, <1>4, RestType, Zenon DEF TypeInv
<1>6. JobShape' /\ Starting'
  BY <1>1, <1>2, RestType, SetFacts, AtWork DEF JobShape, Starting, Running
<1>7. ASSUME NEW k \in Keys
      PROVE  /\ flash'.cal[k] <= cal'.gen[k] /\ job'.copy[k] <= cal'.gen[k]
             /\ cal'.gen[k] + budget' + (IF job'.at = "defaults" THEN 1 ELSE 0) <= Budget
  <2>1. /\ flash.cal[k] \in Nat /\ cal.gen[k] \in Nat /\ budget \in Nat /\ Budget \in Nat
    BY <1>1 DEF TypeInv, FlashType, PersistenceAssumption
  <2>2. flash.cal[k] <= cal.gen[k] /\ cal.gen[k] + budget + 1 <= Budget
    BY <1>1 DEF Counted
  <2>3. job'.at = "rest" /\ job'.copy[k] = 0
    BY <1>2, RestType, SetFacts
  <2> QED
    BY <1>2, <1>3, <1>4, <2>1, <2>2, <2>3
<1>8. Counted'
  BY <1>1, <1>2, <1>3, <1>7 DEF Counted, TypeInv
<1> QED
  BY <1>5, <1>6, <1>8 DEF StoreInv

LEMMA CalJobHolds ==
  ASSUME PersistenceAssumption, StoreInv, CalSaveStart \/ CalSnapshot \/ CalSaveEnd PROVE StoreInv'
<1>1. TypeInv /\ JobShape /\ Starting /\ Counted
  BY DEF StoreInv
<1>2. /\ UNCHANGED <<flash, live, boot, saveReq, fw, budget, owned, due>>
      /\ job.at # "rest" \/ Idle
  BY DEF CalSaveStart, CalSnapshot, CalSaveEnd
<1>3. /\ cal' \in [gen : [Keys -> Nat], pending : BOOLEAN] /\ cal'.gen = cal.gen
      /\ calWarned' \in BOOLEAN
  <2>1. /\ cal \in [gen : [Keys -> Nat], pending : BOOLEAN] /\ calWarned \in BOOLEAN
        /\ job.failed \in BOOLEAN
    BY <1>1 DEF TypeInv, JobType
  <2>2. \/ cal' = [cal EXCEPT !.pending = FALSE] /\ calWarned' = calWarned
        \/ cal' = cal /\ calWarned' \in {calWarned, job.failed}
    BY DEF CalSaveStart, CalSnapshot, CalSaveEnd
  <2> QED
    BY <2>1, <2>2
<1>4. /\ job' \in JobType /\ job'.at # "defaults" /\ JobShape'
      /\ job'.copy = NoCopy \/ job'.copy = cal.gen
  <2>1. CASE CalSaveStart
    <3>1. job' = [Rest EXCEPT !.at = "snapshot"]
      BY <2>1 DEF CalSaveStart
    <3>2. job' \in JobType /\ job'.at = "snapshot" /\ job'.copy = NoCopy /\ job'.left = <<>>
      BY <3>1, RestType, Zenon DEF JobType, Jobs
    <3> QED
      BY <3>2, SetFacts DEF JobShape
  <2>2. CASE CalSnapshot \/ CalSaveEnd
    <3>1. job' = Rest \/ job' = [Rest EXCEPT !.at = "cal", !.left = KeyOrder, !.copy = cal.gen]
      BY <2>2 DEF CalSnapshot, CalSaveEnd
    <3>2. CASE job' = Rest
      BY <3>2, RestType, SetFacts DEF JobShape
    <3>3. CASE job' = [Rest EXCEPT !.at = "cal", !.left = KeyOrder, !.copy = cal.gen]
      <4>1. cal.gen \in [Keys -> Nat] /\ KeyOrder \in Seq(Rows \cup Keys)
        BY <1>1, SetFacts DEF TypeInv
      <4>2. job' \in JobType /\ job'.at = "cal" /\ job'.copy = cal.gen /\ job'.left = KeyOrder
        BY <3>3, <4>1, RestType, Zenon DEF JobType, Jobs
      <4> QED
        BY <4>2, SetFacts DEF JobShape
    <3> QED
      BY <3>1, <3>2, <3>3
  <2> QED
    BY <2>1, <2>2
<1>5. \A k \in Keys : flash'.cal[k] <= cal.gen[k] /\ job'.copy[k] <= cal.gen[k]
  <2>1. cal.gen \in [Keys -> Nat]
    BY <1>1 DEF TypeInv
  <2> QED
    BY <1>1, <1>2, <1>4, <2>1, SetFacts DEF Counted
<1>6. flash' \in FlashType /\ flash'.ver <= fw /\ due' \in SUBSET Rows /\ saveReq' \in BOOLEAN
  BY <1>1, <1>2 DEF TypeInv, Counted
<1> QED
  BY <1>2, <1>3, <1>4, <1>5, <1>6, JobHolds

LEMMA CalWriteHolds == ASSUME PersistenceAssumption, StoreInv, CalWriteKey PROVE StoreInv'
<1>1. TypeInv /\ JobShape /\ Counted /\ job.at = "cal" /\ job.left # <<>>
  BY DEF StoreInv, CalWriteKey
<1>2. PICK k \in Keys : k = Head(job.left)
  BY <1>1 DEF JobShape
<1>3. /\ UNCHANGED <<live, boot, saveReq, cal, fw, budget, owned, due, calWarned>>
      /\ \/ /\ flash' = [flash EXCEPT !.cal[k] = job.copy[k]]
            /\ job' = [job EXCEPT !.left = Tail(@)]
         \/ flash' = flash /\ job' = [job EXCEPT !.left = Tail(@), !.failed = TRUE]
  BY <1>2 DEF CalWriteKey
<1>4. /\ Tail(job.left) \in Seq(Keys) /\ Tail(job.left) \in Seq(Rows \cup Keys)
      /\ Len(Tail(job.left)) <= Len(RowOrder)
  BY <1>1, SetFacts DEF TypeInv, JobType, JobShape
<1>5. job' \in JobType /\ job'.at = "cal" /\ job'.copy = job.copy /\ job'.left = Tail(job.left)
  BY <1>1, <1>3, <1>4, Zenon DEF TypeInv, JobType
<1>6. /\ flash' \in FlashType /\ flash'.ver = flash.ver
      /\ \A q \in Keys : flash'.cal[q] = flash.cal[q] \/ flash'.cal[q] = job.copy[q]
  <2>1. flash \in FlashType /\ job.copy[k] \in Nat
    BY <1>1 DEF TypeInv, JobType
  <2>2. CASE flash' = flash
    BY <2>1, <2>2
  <2>3. CASE flash' = [flash EXCEPT !.cal[k] = job.copy[k]]
    BY <2>1, <2>3 DEF FlashType
  <2> QED
    BY <1>3, <2>2, <2>3
<1>7. \A q \in Keys : flash'.cal[q] <= cal.gen[q] /\ job'.copy[q] <= cal.gen[q]
  BY <1>1, <1>5, <1>6 DEF Counted
<1>8. JobShape'
  BY <1>4, <1>5 DEF JobShape
<1>9. /\ flash'.ver <= fw /\ due' \in SUBSET Rows /\ saveReq' \in BOOLEAN /\ calWarned' \in BOOLEAN
      /\ cal' \in [gen : [Keys -> Nat], pending : BOOLEAN] /\ cal'.gen = cal.gen
  BY <1>1, <1>3, <1>6 DEF TypeInv, Counted
<1> QED
  BY <1>1, <1>3, <1>5, <1>6, <1>7, <1>8, <1>9, JobHolds

LEMMA SaveAllHolds ==
  ASSUME PersistenceAssumption, StoreInv, SaveAllStart \/ SaveAllEnd PROVE StoreInv'
<1>1. TypeInv /\ Counted
  BY DEF StoreInv
<1>2. /\ UNCHANGED <<flash, live, boot, cal, fw, budget, owned, calWarned>>
      /\ job.at # "rest" \/ Idle
      /\ saveReq' \in BOOLEAN /\ due' \in SUBSET Rows
  BY <1>1 DEF TypeInv, SaveAllStart, SaveAllEnd
<1>3. job' \in JobType /\ job'.at # "defaults" /\ JobShape' /\ job'.copy = NoCopy
  <2>1. CASE SaveAllStart
    <3>1. job' = [Rest EXCEPT !.at = "save", !.left = RowOrder] /\ RowOrder \in Seq(Rows \cup Keys)
      BY <2>1, SetFacts DEF SaveAllStart
    <3>2. job' \in JobType /\ job'.at = "save" /\ job'.copy = NoCopy /\ job'.left = RowOrder
      BY <3>1, RestType, Zenon DEF JobType, Jobs
    <3> QED
      BY <3>2, SetFacts DEF JobShape
  <2>2. CASE SaveAllEnd
    BY <2>2, RestType, SetFacts DEF JobShape, SaveAllEnd
  <2> QED
    BY <2>1, <2>2
<1>4. \A k \in Keys : flash'.cal[k] <= cal.gen[k] /\ job'.copy[k] <= cal.gen[k]
  <2>1. cal.gen \in [Keys -> Nat]
    BY <1>1 DEF TypeInv
  <2> QED
    BY <1>1, <1>2, <1>3, <2>1, SetFacts DEF Counted
<1>5. /\ flash' \in FlashType /\ flash'.ver <= fw /\ calWarned' \in BOOLEAN
      /\ cal' \in [gen : [Keys -> Nat], pending : BOOLEAN] /\ cal'.gen = cal.gen
  BY <1>1, <1>2 DEF TypeInv, Counted
<1> QED
  BY <1>2, <1>3, <1>4, <1>5, JobHolds

LEMMA SaveRowHolds == ASSUME PersistenceAssumption, StoreInv, SaveRow PROVE StoreInv'
<1>1. TypeInv /\ JobShape /\ Counted /\ job.at = "save" /\ job.left # <<>>
  BY DEF StoreInv, SaveRow
<1>2. PICK r \in Rows : r = Head(job.left)
  BY <1>1 DEF JobShape
<1>3. /\ UNCHANGED <<live, boot, saveReq, cal, fw, budget, owned, due, calWarned>>
      /\ \/ /\ flash' = [flash EXCEPT !.row[r] = live[r]]
            /\ job' = [job EXCEPT !.left = Tail(@)]
         \/ flash' = flash /\ job' = [job EXCEPT !.left = Tail(@), !.failed = TRUE]
  BY <1>2 DEF SaveRow
<1>4. /\ Tail(job.left) \in Seq(Rows) /\ Tail(job.left) \in Seq(Rows \cup Keys)
      /\ Len(Tail(job.left)) <= Len(RowOrder)
  BY <1>1, SetFacts DEF TypeInv, JobType, JobShape
<1>5. job' \in JobType /\ job'.at = "save" /\ job'.copy = job.copy /\ job'.left = Tail(job.left)
  BY <1>1, <1>3, <1>4, Zenon DEF TypeInv, JobType
<1>6. flash' \in FlashType /\ flash'.cal = flash.cal /\ flash'.ver = flash.ver
  <2>1. flash \in FlashType /\ live[r] \in Values
    BY <1>1 DEF TypeInv
  <2>2. CASE flash' = flash
    BY <2>1, <2>2
  <2>3. CASE flash' = [flash EXCEPT !.row[r] = live[r]]
    BY <2>1, <2>3, OneRow
  <2> QED
    BY <1>3, <2>2, <2>3
<1>7. JobShape'
  BY <1>4, <1>5 DEF JobShape
<1>8. \A k \in Keys : flash'.cal[k] <= cal.gen[k] /\ job'.copy[k] <= cal.gen[k]
  BY <1>1, <1>5, <1>6 DEF Counted
<1>9. /\ flash'.ver <= fw /\ due' \in SUBSET Rows /\ saveReq' \in BOOLEAN /\ calWarned' \in BOOLEAN
      /\ cal' \in [gen : [Keys -> Nat], pending : BOOLEAN] /\ cal'.gen = cal.gen
  BY <1>1, <1>3, <1>6 DEF TypeInv, Counted
<1> QED
  BY <1>1, <1>3, <1>5, <1>6, <1>7, <1>8, <1>9, JobHolds

LEMMA StoreStep == ASSUME PersistenceAssumption, StoreInv, [PNext]_persistVars PROVE StoreInv'
<1>1. CASE UNCHANGED persistVars
  BY <1>1, Zenon DEF persistVars, StoreInv, TypeInv, JobShape, Starting, Running, Counted
<1>2. CASE PNext
  BY <1>2, BootWriteHolds, ResetHolds, NewFirmwareHolds, RoutineHolds, OperatorHolds, ParamStoreHolds,
     DefaultRowHolds, DefaultsEndHolds, CalJobHolds, CalWriteHolds, SaveAllHolds, SaveRowHolds
     DEF PNext
<1> QED
  BY <1>1, <1>2

(***************************************************************************)
(* Flash, parameters, jobs and flags keep their types, and nothing is at   *)
(* work before the boot has ended, for every budget and with failures of   *)
(* every write.                                                            *)
(***************************************************************************)
THEOREM FlashTypeCorrect == ASSUME PersistenceAssumption PROVE PSpec => []PTypeOK
<1>1. StoreInv => PTypeOK
  <2> SUFFICES ASSUME StoreInv PROVE PTypeOK
    OBVIOUS
  <2>1. TypeInv /\ JobShape /\ Starting /\ Counted /\ Budget \in Nat
    BY DEF StoreInv, PersistenceAssumption
  <2>2. ASSUME NEW k \in Keys PROVE flash.cal[k] \in 0 .. Budget /\ cal.gen[k] \in 0 .. Budget
    <3>1. flash.cal[k] \in Nat /\ cal.gen[k] \in Nat /\ budget \in Nat
      BY <2>1 DEF TypeInv, FlashType
    <3>2. /\ flash.cal[k] <= cal.gen[k]
          /\ cal.gen[k] + budget + (IF job.at = "defaults" THEN 1 ELSE 0) <= Budget
      BY <2>1 DEF Counted
    <3> QED
      BY <2>1, <3>1, <3>2
  <2>3. /\ flash.ver \in 0 .. fw /\ fw \in 1 .. Budget + 1 /\ budget \in 0 .. Budget
    BY <2>1 DEF TypeInv, FlashType, Counted
  <2>4. flash \in [row : [Rows -> Values \cup {Absent}], marks : SUBSET Markers, ver : 0 .. fw,
                   cal : [Keys -> 0 .. Budget]]
    BY <2>1, <2>2, <2>3 DEF TypeInv, FlashType
  <2>5. cal \in [gen : [Keys -> 0 .. Budget], pending : BOOLEAN]
    BY <2>1, <2>2 DEF TypeInv
  <2>6. job.at \in Jobs /\ Len(job.left) <= Len(RowOrder) /\ job.failed \in BOOLEAN
    BY <2>1 DEF TypeInv, JobType, JobShape
  <2> QED
    BY <2>1, <2>3, <2>4, <2>5, <2>6 DEF PTypeOK, TypeInv, Jobs, Starting
<1>2. PInit => StoreInv
  BY StoreInit
<1>3. StoreInv /\ [PNext]_persistVars => StoreInv'
  BY StoreStep
<1> QED
  BY <1>1, <1>2, <1>3, PTL DEF PSpec

---------------------------------------------------------------------------
(* Saves *)

\* A row that a request covers is stored, or still in the work of the save that has
\* taken the request, or the save has failed.  No other job is about to store it.
SaveInv ==
  ~saveReq => \A r \in due :
    \/ job.at # "save" /\ flash.row[r] = live[r] /\ (job.at = "set" => ~Has(job.left, r))
    \/ job.at = "save" /\ (flash.row[r] = live[r] \/ Has(job.left, r) \/ job.failed)

LEMMA AllRows == \A r \in Rows : Has(RowOrder, r)
<1>1. /\ Len(RowOrder) = 4 /\ RowOrder[1] = "pin" /\ RowOrder[2] = "mult"
      /\ RowOrder[3] = "ref" /\ RowOrder[4] = "gain"
  BY DEF RowOrder
<1> QED
  BY <1>1, SetFacts DEF Has

LEMMA SaveStep ==
  ASSUME StoreInv, SaveInv, [PNext]_persistVars PROVE SaveInv'
<1>1. TypeInv /\ JobShape /\ Starting
  BY DEF StoreInv
<1>2. CASE UNCHANGED persistVars \/ CalFinish \/ CalWriteKey
  <2>1. UNCHANGED <<live, saveReq, due>> /\ flash'.row = flash.row
    BY <1>1, <1>2 DEF persistVars, TypeInv, FlashType, CalFinish, CalWriteKey
  <2>2. job' = job \/ (job.at = "cal" /\ job'.at = "cal")
    BY <1>1, <1>2 DEF persistVars, TypeInv, JobType, CalFinish, CalWriteKey
  <2> QED
    BY <2>1, <2>2 DEF SaveInv
<1>3. CASE BootWrite \/ Reset \/ NewFirmware
  <2>1. due' = {}
    BY <1>1, <1>3 DEF Starting, BootWrite, Reset, NewFirmware, Restart
  <2> QED
    BY <2>1 DEF SaveInv
<1>4. CASE TuneWrite
  <2>1. /\ live' = [live EXCEPT !["gain"] = "tuned"] /\ due' = due \ {"gain"}
        /\ UNCHANGED <<flash, job, saveReq>>
    BY <1>4 DEF TuneWrite
  <2>2. \A r \in due' : r \in due /\ live'[r] = live[r]
    BY <1>1, <2>1 DEF TypeInv
  <2> QED
    BY <2>1, <2>2 DEF SaveInv
<1>5. CASE RequestSaveAll \/ RequestStorage
  BY <1>5 DEF RequestSaveAll, RequestStorage, SaveInv
<1>6. CASE ParamSet
  <2>1. PICK r \in Rows, v \in Own :
          /\ live' = [live EXCEPT ![r] = v] /\ due' = due \ {r}
          /\ job' = [Rest EXCEPT !.at = "set", !.left = <<r>>, !.value = v]
    BY <1>6, Zenon DEF ParamSet
  <2>2. UNCHANGED <<flash, saveReq>> /\ job.at = "rest"
    BY <1>6 DEF ParamSet, Idle
  <2>3. \A q \in due' : q \in due /\ live'[q] = live[q]
    BY <1>1, <2>1 DEF TypeInv
  <2>4. job'.at = "set" /\ job'.left = <<r>>
    BY <2>1, RestType, Zenon DEF JobType
  <2>5. \A q \in due' : ~Has(job'.left, q)
    BY <2>1, <2>4 DEF Has
  <2> QED
    BY <2>2, <2>3, <2>4, <2>5 DEF SaveInv
<1>7. CASE ParamStore
  <2>1. job.at = "set" /\ job' = Rest /\ UNCHANGED <<live, saveReq, due>>
    BY <1>7 DEF ParamStore
  <2>2. job.left # <<>> /\ job.left \in Seq(Rows)
    BY <1>1, <2>1 DEF JobShape
  <2>3. Has(job.left, Head(job.left))
    BY <2>2 DEF Has
  <2>4. flash' = flash \/ flash' = [flash EXCEPT !.row[Head(job.left)] = job.value]
    BY <1>7 DEF ParamStore
  <2>5. \A q \in due : q # Head(job.left) => flash'.row[q] = flash.row[q]
    BY <1>1, <2>4 DEF TypeInv, FlashType
  <2> QED
    BY <2>1, <2>3, <2>5, RestType DEF SaveInv
<1>8. CASE ResetAllToDefaults \/ DefaultsEnd \/ CalSaveStart \/ CalSnapshot \/ CalSaveEnd
  <2>1. /\ UNCHANGED <<live, saveReq, due>> /\ flash'.row = flash.row
        /\ job.at # "save"
    BY <1>1, <1>8 DEF TypeInv, FlashType, ResetAllToDefaults, DefaultsEnd, CalSaveStart, CalSnapshot,
                      CalSaveEnd, Idle
  <2>2. job'.at \notin {"save", "set"}
    BY <1>8, RestType DEF ResetAllToDefaults, DefaultsEnd, CalSaveStart, CalSnapshot, CalSaveEnd, JobType
  <2> QED
    BY <2>1, <2>2 DEF SaveInv
<1>9. CASE DefaultRow
  <2>1. PICK r \in Rows : r = Head(job.left)
    BY <1>1, <1>9 DEF JobShape, DefaultRow
  <2>2. /\ live' = [live EXCEPT ![r] = "default"] /\ due' = due \ {r}
        /\ job.at = "defaults" /\ job' = [job EXCEPT !.left = Tail(@)] /\ saveReq' = saveReq
        /\ flash' = flash \/ flash' = [flash EXCEPT !.row[r] = "default"]
    BY <1>9, <2>1 DEF DefaultRow
  <2>3. \A q \in due' : q \in due /\ live'[q] = live[q] /\ flash'.row[q] = flash.row[q]
    BY <1>1, <2>2 DEF TypeInv, FlashType
  <2>4. job'.at = "defaults"
    BY <1>1, <2>2 DEF TypeInv, JobType
  <2> QED
    BY <2>2, <2>3, <2>4 DEF SaveInv
<1>10. CASE SaveAllStart
  <2>1. /\ UNCHANGED <<flash, live, due>>
        /\ job' = [Rest EXCEPT !.at = "save", !.left = RowOrder]
    BY <1>10 DEF SaveAllStart
  <2>2. job'.at = "save" /\ job'.left = RowOrder
    BY <2>1, RestType, Zenon DEF JobType
  <2>3. \A r \in Rows : Has(RowOrder, r)
    BY AllRows
  <2> QED
    BY <1>1, <2>1, <2>2, <2>3 DEF SaveInv, TypeInv
<1>11. CASE SaveRow
  <2>1. /\ job.at = "save" /\ job.left # <<>> /\ job.left \in Seq(Rows)
        /\ UNCHANGED <<live, saveReq, due>>
    BY <1>1, <1>11 DEF JobShape, SaveRow
  <2>2. PICK r \in Rows : r = Head(job.left)
    BY <2>1
  <2>3. \/ /\ flash' = [flash EXCEPT !.row[r] = live[r]]
           /\ job' = [job EXCEPT !.left = Tail(@)]
        \/ flash' = flash /\ job' = [job EXCEPT !.left = Tail(@), !.failed = TRUE]
    BY <1>11, <2>2 DEF SaveRow
  <2>4. job'.at = "save" /\ job'.left = Tail(job.left) /\ (job'.failed = job.failed \/ job'.failed = TRUE)
    BY <1>1, <2>1, <2>3, Zenon DEF TypeInv, JobType
  <2>5. job'.failed = TRUE \/ flash'.row[r] = live[r]
    BY <1>1, <2>3 DEF TypeInv, JobType, FlashType
  <2>6. \A q \in Rows : q # r => flash'.row[q] = flash.row[q]
    BY <1>1, <2>3 DEF TypeInv, FlashType
  <2>7. \A q : Has(job.left, q) => q = r \/ Has(Tail(job.left), q)
    BY <2>1, <2>2, TailFacts
  <2> QED
    BY <1>1, <2>1, <2>4, <2>5, <2>6, <2>7, Zenon DEF SaveInv, TypeInv
<1>12. CASE SaveAllEnd
  <2>1. /\ job.at = "save" /\ job.left = <<>> /\ job' = Rest
        /\ due' = IF job.failed /\ ~saveReq THEN {} ELSE due
        /\ UNCHANGED <<flash, live, saveReq>>
    BY <1>12 DEF SaveAllEnd
  <2>2. \A r : ~Has(job.left, r)
    BY <2>1 DEF Has
  <2> QED
    BY <2>1, <2>2, RestType DEF SaveInv
<1> QED
  BY <1>2, <1>3, <1>4, <1>5, <1>6, <1>7, <1>8, <1>9, <1>10, <1>11, <1>12 DEF PNext

(***************************************************************************)
(* A save that was asked for is done for every row or reported as failed,  *)
(* whatever fails or comes in between, a second request among it: for      *)
(* every budget, and with failures of every write.                         *)
(***************************************************************************)
THEOREM SavesAreNotSilent == ASSUME PersistenceAssumption PROVE PSpec => []SaveNeverSilent
<1>1. PInit => StoreInv /\ SaveInv
  <2>1. PInit => SaveInv
    BY DEF PInit, SaveInv
  <2> QED
    BY <2>1, StoreInit
<1>2. StoreInv /\ SaveInv /\ [PNext]_persistVars => (StoreInv /\ SaveInv)'
  BY StoreStep, SaveStep
<1>3. SaveInv => SaveNeverSilent
  BY DEF SaveInv, SaveNeverSilent, Idle
<1> QED
  BY <1>1, <1>2, <1>3, PTL DEF PSpec

\* With no request pending, the record in flash is the one in memory, or a save of it
\* is under way, or the last one is known to have failed.
CalInv ==
  ~cal.pending =>
    \/ job.at = "snapshot"
    \/ /\ job.at = "cal" /\ job.copy = cal.gen
       /\ job.failed \/ \A k \in Keys : Has(job.left, k) \/ flash.cal[k] = cal.gen[k]
    \/ job.at \notin {"snapshot", "cal"} /\ (flash.cal = cal.gen \/ calWarned)

LEMMA CalStep ==
  ASSUME CalLockMiss = FALSE, StoreInv, CalInv, [PNext]_persistVars PROVE CalInv'
<1>1. TypeInv /\ JobShape
  BY DEF StoreInv
<1>2. CASE UNCHANGED persistVars \/ TuneWrite \/ RequestSaveAll
  BY <1>2 DEF persistVars, TuneWrite, RequestSaveAll, CalInv
<1>3. CASE CalFinish \/ RequestStorage \/ DefaultsEnd
  <2>1. cal'.pending = TRUE
    BY <1>1, <1>3 DEF TypeInv, CalFinish, RequestStorage, DefaultsEnd
  <2> QED
    BY <2>1 DEF CalInv
<1>4. CASE Reset \/ NewFirmware
  <2>1. PICK f, version : Restart(f, version)
    BY <1>4, Zenon DEF Reset, NewFirmware
  <2>2. flash' = f /\ cal' = [gen |-> f.cal, pending |-> FALSE] /\ job' = Rest
    BY <2>1 DEF Restart
  <2> QED
    BY <2>2, RestType DEF CalInv
<1>5. CASE BootWrite \/ ParamSet \/ ParamStore \/ ResetAllToDefaults \/ DefaultRow \/ SaveAllStart
           \/ SaveRow \/ SaveAllEnd
  <2>1. UNCHANGED <<cal, calWarned>>
    BY <1>5 DEF BootWrite, ParamSet, ParamStore, ResetAllToDefaults, DefaultRow, SaveAllStart, SaveRow,
                SaveAllEnd
  <2>2. flash'.cal = flash.cal
    <3>1. flash \in FlashType
      BY <1>1 DEF TypeInv
    <3>2. CASE BootWrite
      <4>1. Head(boot) \in Writes
        BY <1>1, <3>2 DEF TypeInv, BootWrite, Running
      <4> QED
        BY <3>1, <3>2, <4>1, Written DEF FlashType
    <3>3. CASE ParamSet \/ ResetAllToDefaults \/ SaveAllStart \/ SaveAllEnd
      BY <3>3 DEF ParamSet, ResetAllToDefaults, SaveAllStart, SaveAllEnd
    <3>4. CASE ParamStore \/ DefaultRow \/ SaveRow
      <4>1. flash' = flash \/ \E r, v : flash' = [flash EXCEPT !.row[r] = v]
        BY <3>4 DEF ParamStore, DefaultRow, SaveRow
      <4> QED
        BY <3>1, <4>1 DEF FlashType
    <3> QED
      BY <1>5, <3>2, <3>3, <3>4
  <2>3. job' = job \/ (job.at \notin {"snapshot", "cal"} /\ job'.at \notin {"snapshot", "cal"})
    <3>1. CASE BootWrite
      BY <3>1 DEF BootWrite
    <3>2. CASE ParamSet \/ ResetAllToDefaults \/ SaveAllStart
      <4>1. job.at = "rest"
        BY <3>2 DEF ParamSet, ResetAllToDefaults, SaveAllStart, Idle
      <4>2. job'.at \in {"set", "defaults", "save"}
        BY <3>2, RestType DEF ParamSet, ResetAllToDefaults, SaveAllStart, JobType
      <4> QED
        BY <4>1, <4>2
    <3>3. CASE ParamStore \/ SaveAllEnd
      BY <3>3, RestType DEF ParamStore, SaveAllEnd
    <3>4. CASE DefaultRow \/ SaveRow
      <4>1. job.at \in {"defaults", "save"} /\ job'.at = job.at
        BY <1>1, <3>4 DEF DefaultRow, SaveRow, TypeInv, JobType
      <4> QED
        BY <4>1
    <3> QED
      BY <1>5, <3>1, <3>2, <3>3, <3>4
  <2> QED
    BY <2>1, <2>2, <2>3 DEF CalInv
<1>6. CASE CalSaveStart
  <2>1. job'.at = "snapshot"
    BY <1>6, RestType DEF CalSaveStart, JobType
  <2> QED
    BY <2>1 DEF CalInv
<1>7. CASE CalSnapshot
  <2>1. /\ job' = [Rest EXCEPT !.at = "cal", !.left = KeyOrder, !.copy = cal.gen]
        /\ UNCHANGED <<flash, cal, calWarned>>
    BY <1>7 DEF CalSnapshot
  <2>2. job'.at = "cal" /\ job'.left = KeyOrder /\ job'.copy = cal.gen
    BY <2>1, RestType, Zenon DEF JobType
  <2>3. \A k \in Keys : Has(KeyOrder, k)
    <3>1. Len(KeyOrder) = 2 /\ KeyOrder[1] = "mag" /\ KeyOrder[2] = "level"
      BY DEF KeyOrder
    <3> QED
      BY <3>1, SetFacts DEF Has
  <2> QED
    BY <2>1, <2>2, <2>3 DEF CalInv
<1>8. CASE CalWriteKey
  <2>1. job.at = "cal" /\ job.left # <<>> /\ job.left \in Seq(Keys) /\ UNCHANGED <<cal, calWarned>>
    BY <1>1, <1>8 DEF JobShape, CalWriteKey
  <2>2. PICK k \in Keys : k = Head(job.left)
    BY <2>1
  <2>3. \/ /\ flash' = [flash EXCEPT !.cal[k] = job.copy[k]]
           /\ job' = [job EXCEPT !.left = Tail(@)]
        \/ flash' = flash /\ job' = [job EXCEPT !.left = Tail(@), !.failed = TRUE]
    BY <1>8, <2>2 DEF CalWriteKey
  <2>4. /\ job'.at = "cal" /\ job'.left = Tail(job.left) /\ job'.copy = job.copy
        /\ job'.failed = job.failed \/ job'.failed = TRUE
    BY <1>1, <2>1, <2>3, Zenon DEF TypeInv, JobType
  <2>5. job'.failed = TRUE \/ flash'.cal[k] = job.copy[k]
    BY <1>1, <2>3 DEF TypeInv, JobType, FlashType
  <2>6. \A q \in Keys : q # k => flash'.cal[q] = flash.cal[q]
    BY <1>1, <2>3 DEF TypeInv, FlashType
  <2>7. \A q : Has(job.left, q) => q = k \/ Has(Tail(job.left), q)
    BY <2>1, <2>2, TailFacts
  <2> QED
    BY <2>1, <2>4, <2>5, <2>6, <2>7 DEF CalInv
<1>9. CASE CalSaveEnd
  <2>1. /\ job.at = "cal" /\ job.left = <<>> /\ job' = Rest /\ calWarned' = job.failed
        /\ UNCHANGED <<flash, cal>>
    BY <1>9 DEF CalSaveEnd
  <2>2. \A k : ~Has(job.left, k)
    BY <2>1 DEF Has
  <2>3. ASSUME ~cal.pending, ~job.failed PROVE flash.cal = cal.gen
    <3>1. \A k \in Keys : flash.cal[k] = cal.gen[k]
      BY <2>1, <2>2, <2>3 DEF CalInv
    <3> QED
      BY <1>1, <3>1 DEF TypeInv, FlashType
  <2> QED
    BY <1>1, <2>1, <2>3, RestType DEF CalInv, TypeInv, JobType
<1> QED
  BY <1>2, <1>3, <1>4, <1>5, <1>6, <1>7, <1>8, <1>9 DEF PNext

(***************************************************************************)
(* What a calibration routine finished is in flash, or a save of it is     *)
(* still to come, or its failure was announced: for every budget, and with *)
(* failures of every write, provided that saveToNVS gets its lock.         *)
(***************************************************************************)
THEOREM CalibrationIsSaved ==
  ASSUME PersistenceAssumption, CalLockMiss = FALSE PROVE PSpec => []CalibrationSaved
<1>1. PInit => StoreInv /\ CalInv
  <2>1. ASSUME PInit PROVE CalInv
    <3>1. \A k \in Keys : flash.cal[k] = 0 /\ flash \in FlashType
      BY <2>1, FirstFlash
    <3>2. job = Rest /\ cal.gen = [k \in Keys |-> 0]
      BY <2>1 DEF PInit
    <3>3. flash.cal = cal.gen
      BY <3>1, <3>2, SetFacts DEF FlashType
    <3> QED
      BY <3>2, <3>3, RestType DEF CalInv
  <2> QED
    BY <2>1, StoreInit
<1>2. StoreInv /\ CalInv /\ [PNext]_persistVars => (StoreInv /\ CalInv)'
  BY StoreStep, CalStep
<1>3. CalInv => CalibrationSaved
  BY DEF CalInv, CalibrationSaved, Idle
<1> QED
  BY <1>1, <1>2, <1>3, PTL DEF PSpec
---------------------------------------------------------------------------
(* What a boot leaves *)

\* What is to be written is planned, and an old value in force is one in flash.
BootInv ==
  /\ BootPlan(boot, flash, fw) /\ FlashReady(flash, fw)
  /\ \A r \in Rows : live[r] = "legacy" => r \in Old(flash)

\* A value the operator owns is stored and in force, so that a boot has nothing to do.
OwnInv ==
  \A r \in Rows : owned[r] # Absent => Running /\ flash.row[r] = owned[r] /\ live[r] = owned[r]

\* A flash that is done: every boot finds nothing to write.
Steady ==
  /\ \A r \in Rows : flash.row[r] # "legacy" /\ live[r] # "legacy"
  /\ flash.marks = Markers /\ flash.ver = fw

\* The first write vouches for no old row, and the order holds for the rest.
LEMMA TailOrder ==
  ASSUME NEW s \in Seq(Writes), s # <<>>, NEW old, NEW new, RowsFirst(s, old),
         \A r \in new : r \in old /\ Head(s) # Row(r)
  PROVE  Vouched(Head(s)) \cap old = {} /\ RowsFirst(Tail(s), new)
<1>1. /\ Len(s) \in Nat \ {0} /\ Head(s) = s[1] /\ Len(Tail(s)) = Len(s) - 1
      /\ \A i \in 1 .. Len(s) - 1 : Tail(s)[i] = s[i + 1]
  OBVIOUS
<1>2. Vouched(Head(s)) \cap old = {}
  <2>1. 1 \in 1 .. Len(s) /\ 1 .. 1 - 1 = {}
    BY <1>1
  <2>2. \A r \in Vouched(s[1]) \cap old : \E j \in 1 .. 1 - 1 : s[j] = Row(r)
    BY <2>1, Zenon DEF RowsFirst
  <2> QED
    BY <1>1, <2>1, <2>2
<1>3. ASSUME NEW i \in 1 .. Len(Tail(s)), NEW r \in Vouched(Tail(s)[i]) \cap new
      PROVE  \E j \in 1 .. i - 1 : Tail(s)[j] = Row(r)
  <2>1. i + 1 \in 1 .. Len(s) /\ Tail(s)[i] = s[i + 1]
    BY <1>1
  <2>2. r \in Vouched(s[i + 1]) \cap old
    BY <1>3, <2>1
  <2>3. PICK j \in 1 .. (i + 1) - 1 : s[j] = Row(r)
    BY <2>1, <2>2, Zenon DEF RowsFirst
  <2>4. j # 1
    BY <1>1, <2>3
  <2>5. j - 1 \in 1 .. i - 1 /\ Tail(s)[j - 1] = s[j]
    BY <1>1, <2>4
  <2> QED
    BY <2>3, <2>5
<1> QED
  BY <1>2, <1>3, Zenon DEF RowsFirst

LEMMA BootWriteReady ==
  ASSUME UncheckedFail = FALSE, TypeInv, BootInv, BootWrite PROVE BootInv'
<1>1. /\ boot \in Seq(Writes) /\ boot # <<>> /\ boot' = Tail(boot) /\ fw' = fw
      /\ flash \in FlashType /\ live \in [Rows -> Values]
  BY Zenon DEF TypeInv, BootWrite, Running
<1>2. PICK w \in Writes : w = Head(boot)
  BY <1>1
<1>3. /\ boot' \in Seq(Writes) /\ \A x : Has(boot, x) => x = w \/ Has(boot', x)
  BY <1>1, <1>2, TailFacts
<1>4. BootPlan(boot, flash, fw) /\ FlashReady(flash, fw)
  BY DEF BootInv
<1>5. Vouched(w) \cap Old(flash) = {}
  <2>1. RowsFirst(boot, Old(flash))
    BY <1>4 DEF BootPlan
  <2>2. \A r \in {} : r \in Old(flash) /\ Head(boot) # Row(r)
    OBVIOUS
  <2> QED
    BY <1>1, <1>2, <2>1, <2>2, TailOrder
<1>6. ASSUME Old(flash') \subseteq Old(flash), \A r \in Old(flash') : w # Row(r)
      PROVE  /\ RowsFirst(boot', Old(flash'))
             /\ \A r \in Old(flash') : Has(boot', Row(r))
  <2>1. RowsFirst(boot, Old(flash)) /\ \A r \in Old(flash) : Has(boot, Row(r))
    BY <1>4 DEF BootPlan
  <2>2. \A r \in Old(flash') : r \in Old(flash) /\ Head(boot) # Row(r)
    BY <1>2, <1>6
  <2>3. RowsFirst(Tail(boot), Old(flash'))
    BY <1>1, <2>1, <2>2, TailOrder
  <2> QED
    BY <1>1, <1>3, <1>6, <2>1, <2>3
<1>7. ASSUME NEW r \in Rows, w = Row(r) PROVE BootInv'
  <2>1. w.put = "row" /\ w.of = r
    BY <1>7, WriteNames
  <2>2. flash' = [flash EXCEPT !.row[r] = "default"] /\ live' = [live EXCEPT ![r] = "default"]
    BY <1>2, <2>1, Written
  <2>3. flash'.marks = flash.marks /\ flash'.ver = flash.ver /\ flash'.row = [flash.row EXCEPT ![r] = "default"]
    BY <1>1, <2>2, OneRow, SetFacts
  <2>4. Old(flash') = Old(flash) \ {r}
    BY <1>1, <2>3 DEF Old, FlashType
  <2>5. /\ RowsFirst(boot', Old(flash')) /\ \A q \in Old(flash') : Has(boot', Row(q))
    <3>1. \A q \in Old(flash') : w # Row(q)
      BY <1>7, <2>4, WriteNames
    <3> QED
      BY <1>6, <2>4, <3>1
  <2>6. /\ \A m \in Markers \ flash'.marks : Has(boot', Marker(m))
        /\ flash'.ver # fw' => Has(boot', Version)
    BY <1>1, <1>3, <1>4, <1>7, <2>3, WriteNames DEF BootPlan
  <2>7. FlashReady(flash', fw')
    BY <1>1, <1>4, <2>3, <2>4 DEF FlashReady
  <2>8. \A q \in Rows : live'[q] = "legacy" => q \in Old(flash')
    <3> SUFFICES ASSUME NEW q \in Rows, live'[q] = "legacy" PROVE q \in Old(flash')
      OBVIOUS
    <3>1. q # r /\ live[q] = "legacy"
      BY <1>1, <2>2
    <3> QED
      BY <2>4, <3>1 DEF BootInv
  <2> QED
    BY <1>3, <2>5, <2>6, <2>7, <2>8 DEF BootInv, BootPlan
<1>8. ASSUME NEW m \in Markers, w = Marker(m) PROVE BootInv'
  <2>1. w.put = "marker" /\ w.of = m /\ \A r : w # Row(r)
    BY <1>8, WriteNames
  <2>2. flash' = [flash EXCEPT !.marks = @ \cup {m}] /\ live' = live
    BY <1>2, <2>1, Written
  <2>3. flash'.marks = flash.marks \cup {m} /\ flash'.ver = flash.ver /\ flash'.row = flash.row
    BY <1>1, <2>2 DEF FlashType
  <2>4. Old(flash') = Old(flash)
    BY <2>3 DEF Old
  <2>5. /\ RowsFirst(boot', Old(flash')) /\ \A q \in Old(flash') : Has(boot', Row(q))
    BY <1>6, <2>1, <2>4
  <2>6. ASSUME NEW n \in Markers \ flash'.marks PROVE Has(boot', Marker(n))
    <3>1. n \in Markers \ flash.marks /\ n # m
      BY <2>3
    <3>2. Has(boot, Marker(n)) /\ Marker(n) # w
      BY <1>4, <2>1, <3>1, WriteNames DEF BootPlan
    <3> QED
      BY <1>3, <3>2
  <2>7. flash'.ver # fw' => Has(boot', Version)
    <3>1. w # Version
      BY <1>8, WriteNames
    <3> QED
      BY <1>1, <1>3, <1>4, <2>3, <3>1 DEF BootPlan
  <2>8. FlashReady(flash', fw')
    <3> SUFFICES ASSUME flash'.ver = fw, NEW r \in Old(flash')
                 PROVE  \E n \in Markers \ flash'.marks : r \in MigratedBy(n)
      BY <1>1 DEF FlashReady
    <3>1. PICK n \in Markers \ flash.marks : r \in MigratedBy(n)
      BY <1>4, <2>3, <2>4 DEF FlashReady
    <3>2. r \notin MigratedBy(m)
      BY <1>5, <2>1, <2>4 DEF Vouched
    <3> QED
      BY <2>3, <3>1, <3>2
  <2>9. \A q \in Rows : live'[q] = "legacy" => q \in Old(flash')
    BY <2>2, <2>4 DEF BootInv
  <2> QED
    BY <1>3, <2>5, <2>6, <2>7, <2>8, <2>9 DEF BootInv, BootPlan
<1>9. ASSUME w = Version PROVE BootInv'
  <2>1. w.put = "version" /\ (\A r : w # Row(r)) /\ \A m : w # Marker(m)
    BY <1>9 DEF Version, Row, Marker
  <2>2. flash' = [flash EXCEPT !.ver = fw] /\ live' = live
    BY <1>2, <2>1, Written
  <2>3. flash'.marks = flash.marks /\ flash'.ver = fw /\ flash'.row = flash.row
    BY <1>1, <2>2 DEF FlashType
  <2>4. Old(flash) = {} /\ Old(flash') = {}
    BY <1>5, <2>1, <2>3 DEF Old, Vouched
  <2>5. /\ RowsFirst(boot', Old(flash')) /\ \A q \in Old(flash') : Has(boot', Row(q))
    BY <1>6, <2>4
  <2>6. \A m \in Markers \ flash'.marks : Has(boot', Marker(m))
    BY <1>3, <1>4, <2>1, <2>3 DEF BootPlan
  <2>7. FlashReady(flash', fw')
    BY <2>4 DEF FlashReady
  <2>8. \A q \in Rows : live'[q] = "legacy" => q \in Old(flash')
    BY <2>2, <2>4 DEF BootInv
  <2> QED
    BY <1>1, <1>3, <2>3, <2>5, <2>6, <2>7, <2>8 DEF BootInv, BootPlan
<1> QED
  BY <1>7, <1>8, <1>9 DEF Writes

\* A board that runs has nothing to write, so its flash is done.
LEMMA RunningSteady == ASSUME TypeInv, BootInv, Running PROVE Steady
<1>1. boot = <<>> /\ flash \in FlashType
  BY DEF TypeInv, Running
<1>2. \A x : ~Has(boot, x)
  BY <1>1 DEF Has
<1>3. Old(flash) = {} /\ Markers \ flash.marks = {} /\ flash.ver = fw
  BY <1>2 DEF BootInv, BootPlan
<1>4. flash.marks = Markers
  BY <1>1, <1>3 DEF FlashType
<1> QED
  BY <1>3, <1>4 DEF Steady, BootInv, Old

LEMMA SteadyReady == ASSUME TypeInv', Running', Steady' PROVE BootInv'
<1>1. boot' = <<>> /\ boot' \in Seq(Writes) /\ Len(boot') = 0
  BY DEF TypeInv, Running
<1>2. Old(flash') = {}
  BY DEF Steady, Old
<1> QED
  BY <1>1, <1>2 DEF BootInv, BootPlan, FlashReady, RowsFirst, Steady

LEMMA NothingToWrite ==
  ASSUME NEW f, NEW version, f.marks = Markers, f.ver = version
  PROVE  BootWrites(f, version) = <<>>
<1>1. \A m \in Markers : \A forced, rows, applies : Migrated(f, forced, m, rows, applies) = <<>>
  BY DEF Migrated
<1>2. {"ref", "pm1", "pins"} \subseteq Markers
  BY DEF Markers
<1> DEFINE m1 == Migrated(f, f.ver # version, "ref", <<Row("ref")>>, Loaded(f)["ref"] \in Low)
           m2 == Migrated(f, f.ver # version, "pm1", <<Row("mult")>>, Loaded(f)["mult"] \in Low)
           m3 == Migrated(f, f.ver # version, "pins", <<Row("pin"), Row("mult")>>, TRUE)
<1>3. m1 = <<>> /\ m2 = <<>> /\ m3 = <<>>
  BY <1>1, <1>2
<1>4. BootWrites(f, version) = <<>> \o m1 \o m2 \o m3
  BY Zenon DEF BootWrites
<1>5. <<>> \o <<>> \o <<>> \o <<>> = <<>>
  OBVIOUS
<1> HIDE DEF m1, m2, m3
<1> QED
  BY <1>3, <1>4, <1>5, Zenon

\* What one step of a board that runs does to the rows: no old value is stored, and
\* what the operator owns is left in place or newly stored.
LEMMA RunningStep ==
  ASSUME StoreInv, Running, PNext, ~(BootWrite \/ Reset \/ NewFirmware)
  PROVE  /\ boot' = boot /\ fw' = fw /\ flash'.marks = flash.marks /\ flash'.ver \in {flash.ver, fw}
         /\ \A q \in Rows :
              /\ flash'.row[q] \in {flash.row[q], live[q], "default"} \cup Own
              /\ live'[q] \in {live[q], "tuned", "default"} \cup Own
              /\ \/ owned'[q] = Absent
                 \/ owned'[q] = flash'.row[q] /\ owned'[q] = live'[q]
                 \/ owned'[q] = owned[q] /\ flash'.row[q] \in {flash.row[q], live[q]} /\ live'[q] = live[q]
<1>1. TypeInv /\ JobShape
  BY DEF StoreInv
<1>2. flash \in FlashType /\ live \in [Rows -> Values] /\ owned \in [Rows -> Own \cup {Absent}]
  BY <1>1 DEF TypeInv
<1>3. CASE RequestSaveAll \/ CalFinish \/ ResetAllToDefaults \/ RequestStorage \/ CalSaveStart
           \/ CalSnapshot \/ CalSaveEnd \/ SaveAllStart \/ SaveAllEnd
  BY <1>3 DEF RequestSaveAll, CalFinish, ResetAllToDefaults, RequestStorage, CalSaveStart,
              CalSnapshot, CalSaveEnd, SaveAllStart, SaveAllEnd
<1>4. CASE TuneWrite
  <2>1. /\ live' = [live EXCEPT !["gain"] = "tuned"] /\ owned' = [owned EXCEPT !["gain"] = Absent]
        /\ UNCHANGED <<flash, boot, fw>>
    BY <1>4 DEF TuneWrite
  <2> QED
    BY <1>2, <2>1
<1>5. CASE ParamSet
  <2>1. PICK r \in Rows, v \in Own : live' = [live EXCEPT ![r] = v] /\ owned' = [owned EXCEPT ![r] = Absent]
    BY <1>5, Zenon DEF ParamSet
  <2>2. UNCHANGED <<flash, boot, fw>>
    BY <1>5 DEF ParamSet
  <2> QED
    BY <1>2, <2>1, <2>2
<1>6. CASE ParamStore
  <2>1. job.at = "set" /\ UNCHANGED <<live, boot, fw>>
    BY <1>6 DEF ParamStore
  <2>2. PICK r \in Rows : r = Head(job.left)
    BY <1>1, <2>1 DEF JobShape
  <2>3. PICK v \in Own : v = job.value
    BY <1>1, <2>1 DEF JobShape
  <2>4. \/ /\ flash' = [flash EXCEPT !.row[r] = v]
           /\ owned' = [owned EXCEPT ![r] = IF live[r] = v THEN v ELSE Absent]
        \/ flash' = flash /\ owned' = owned
    BY <1>6, <2>2, <2>3, Zenon DEF ParamStore
  <2>5. CASE flash' = flash /\ owned' = owned
    BY <2>1, <2>5
  <2>6. CASE /\ flash' = [flash EXCEPT !.row[r] = v]
             /\ owned' = [owned EXCEPT ![r] = IF live[r] = v THEN v ELSE Absent]
    <3>1. /\ flash'.marks = flash.marks /\ flash'.ver = flash.ver /\ flash'.row = [flash.row EXCEPT ![r] = v]
      BY <1>2, <2>6, OneRow, SetFacts
    <3>2. flash.row \in [Rows -> Values \cup {Absent}]
      BY <1>2 DEF FlashType
    <3> QED
      BY <1>2, <2>1, <2>6, <3>1, <3>2
  <2> QED
    BY <2>4, <2>5, <2>6
<1>7. CASE DefaultRow
  <2>1. job.at = "defaults" /\ job.left # <<>> /\ UNCHANGED <<boot, fw>>
    BY <1>7 DEF DefaultRow
  <2>2. PICK r \in Rows : r = Head(job.left)
    BY <1>1, <2>1 DEF JobShape
  <2>3. /\ live' = [live EXCEPT ![r] = "default"] /\ owned' = [owned EXCEPT ![r] = Absent]
        /\ flash' = flash \/ flash' = [flash EXCEPT !.row[r] = "default"]
    BY <1>7, <2>2 DEF DefaultRow
  <2>4. flash.row \in [Rows -> Values \cup {Absent}]
    BY <1>2 DEF FlashType
  <2>5. /\ flash'.marks = flash.marks /\ flash'.ver = flash.ver
        /\ flash'.row = flash.row \/ flash'.row = [flash.row EXCEPT ![r] = "default"]
    <3>1. CASE flash' = flash
      BY <3>1
    <3>2. CASE flash' = [flash EXCEPT !.row[r] = "default"]
      BY <1>2, <3>2, OneRow, SetFacts
    <3> QED
      BY <2>3, <3>1, <3>2
  <2> QED
    BY <1>2, <2>1, <2>3, <2>4, <2>5
<1>8. CASE DefaultsEnd
  <2>1. flash' = [flash EXCEPT !.ver = fw] /\ UNCHANGED <<live, boot, fw, owned>>
    BY <1>8 DEF DefaultsEnd
  <2>2. flash'.marks = flash.marks /\ flash'.ver = fw /\ flash'.row = flash.row
    BY <1>2, <2>1 DEF FlashType
  <2> QED
    BY <2>1, <2>2
<1>9. CASE CalWriteKey
  <2>1. UNCHANGED <<live, boot, fw, owned>>
    BY <1>9 DEF CalWriteKey
  <2>2. flash' = flash \/ \E k, g : flash' = [flash EXCEPT !.cal[k] = g]
    BY <1>9 DEF CalWriteKey
  <2>3. flash'.marks = flash.marks /\ flash'.ver = flash.ver /\ flash'.row = flash.row
    BY <1>2, <2>2 DEF FlashType
  <2> QED
    BY <2>1, <2>3
<1>10. CASE SaveRow
  <2>1. job.at = "save" /\ job.left # <<>> /\ UNCHANGED <<live, boot, fw, owned>>
    BY <1>10 DEF SaveRow
  <2>2. PICK r \in Rows : r = Head(job.left)
    BY <1>1, <2>1 DEF JobShape
  <2>3. flash' = flash \/ flash' = [flash EXCEPT !.row[r] = live[r]]
    BY <1>10, <2>2 DEF SaveRow
  <2>4. flash.row \in [Rows -> Values \cup {Absent}] /\ live[r] \in Values
    BY <1>2 DEF FlashType
  <2>5. /\ flash'.marks = flash.marks /\ flash'.ver = flash.ver
        /\ flash'.row = flash.row \/ flash'.row = [flash.row EXCEPT ![r] = live[r]]
    <3>1. CASE flash' = flash
      BY <3>1
    <3>2. CASE flash' = [flash EXCEPT !.row[r] = live[r]]
      BY <1>2, <2>4, <3>2, OneRow
    <3> QED
      BY <2>3, <3>1, <3>2
  <2> QED
    BY <1>2, <2>1, <2>4, <2>5
<1> QED
  BY <1>3, <1>4, <1>5, <1>6, <1>7, <1>8, <1>9, <1>10 DEF PNext

LEMMA BootStep ==
  ASSUME PersistenceAssumption, UncheckedFail = FALSE, StoreInv, BootInv, OwnInv, [PNext]_persistVars
  PROVE  (BootInv /\ OwnInv)'
<1>1. TypeInv /\ TypeInv' /\ Starting
  BY StoreStep DEF StoreInv
<1>2. CASE UNCHANGED persistVars
  <2>1. UNCHANGED <<boot, flash, fw, live, owned>>
    BY <1>2 DEF persistVars
  <2>2. BootInv'
    BY <2>1 DEF BootInv
  <2> QED
    BY <2>1, <2>2 DEF OwnInv, Running
<1>3. CASE BootWrite
  <2>1. BootInv'
    BY <1>1, <1>3, BootWriteReady
  <2>2. ~Running /\ owned' = owned
    BY <1>3, Zenon DEF BootWrite
  <2> QED
    BY <2>1, <2>2 DEF OwnInv
<1>4. CASE Reset
  <2>1. /\ flash' = flash /\ fw' = fw /\ live' = Loaded(flash) /\ boot' = BootWrites(flash, fw)
        /\ owned' = owned
    BY <1>4 DEF Reset, Restart
  <2>2. \A r \in Rows : live'[r] = IF flash.row[r] = Absent THEN "default" ELSE flash.row[r]
    BY <2>1, Zenon DEF Loaded
  <2>3. FlashReady(flash, fw)
    BY DEF BootInv
  <2>4. BootPlan(boot', flash', fw')
    BY <1>4, <2>3, ResetHolds
  <2>5. \A r \in Rows : live'[r] = "legacy" => r \in Old(flash')
    BY <2>1, <2>2 DEF Old
  <2>6. BootInv'
    BY <2>1, <2>3, <2>4, <2>5 DEF BootInv
  <2>7. ASSUME NEW r \in Rows, owned'[r] # Absent
        PROVE  Running' /\ flash'.row[r] = owned'[r] /\ live'[r] = owned'[r]
    <3>1. Running /\ flash.row[r] = owned[r]
      BY <2>1, <2>7 DEF OwnInv
    <3>2. Steady
      BY <1>1, <3>1, RunningSteady
    <3>3. boot' = <<>>
      BY <2>1, <3>2, NothingToWrite DEF Steady
    <3> QED
      BY <2>1, <2>2, <2>7, <3>1, <3>3 DEF Running
  <2> QED
    BY <2>6, <2>7 DEF OwnInv
<1>5. CASE NewFirmware
  <2>1. PICK f : f = [flash EXCEPT !.row = [r \in Rows |-> IF @[r] = Absent THEN Absent ELSE "legacy"]]
    OBVIOUS
  <2>2. /\ flash' = f /\ fw' = fw + 1 /\ live' = Loaded(f) /\ owned' = [r \in Rows |-> Absent]
    BY <1>5, <2>1, Zenon DEF NewFirmware, Restart
  <2>3. f.ver = flash.ver
    BY <1>1, <2>1 DEF TypeInv, FlashType
  <2>4. BootPlan(boot', flash', fw')
    BY <1>5, NewFirmwareHolds
  <2>5. f.ver # fw + 1
    BY <1>1, <2>3 DEF StoreInv, TypeInv, FlashType, Counted
  <2>6. FlashReady(flash', fw')
    BY <2>2, <2>5 DEF FlashReady
  <2>7. \A r \in Rows : live'[r] = IF f.row[r] = Absent THEN "default" ELSE f.row[r]
    BY <2>2, Zenon DEF Loaded
  <2>8. \A r \in Rows : live'[r] = "legacy" => r \in Old(flash')
    BY <2>2, <2>7 DEF Old
  <2> QED
    BY <2>2, <2>4, <2>6, <2>8 DEF BootInv, OwnInv
<1>6. CASE PNext /\ ~(BootWrite \/ Reset \/ NewFirmware)
  <2>1. Running
    BY <1>1, <1>6, AtWork DEF PNext, TuneWrite, RequestSaveAll, CalFinish, ParamSet, ParamStore,
       ResetAllToDefaults, DefaultRow, DefaultsEnd, RequestStorage, CalSaveStart, CalSnapshot,
       CalWriteKey, CalSaveEnd, SaveAllStart, SaveRow, SaveAllEnd
  <2>2. Steady
    BY <1>1, <2>1, RunningSteady
  <2>3. /\ boot' = boot /\ fw' = fw /\ flash'.marks = flash.marks /\ flash'.ver \in {flash.ver, fw}
        /\ \A q \in Rows :
             /\ flash'.row[q] \in {flash.row[q], live[q], "default"} \cup Own
             /\ live'[q] \in {live[q], "tuned", "default"} \cup Own
             /\ \/ owned'[q] = Absent
                \/ owned'[q] = flash'.row[q] /\ owned'[q] = live'[q]
                \/ owned'[q] = owned[q] /\ flash'.row[q] \in {flash.row[q], live[q]} /\ live'[q] = live[q]
    BY <1>6, <2>1, RunningStep
  <2>4. Running'
    BY <2>1, <2>3 DEF Running
  <2>5. "legacy" \notin Own
    BY DEF Own
  <2>6. Steady'
    BY <2>2, <2>3, <2>5 DEF Steady
  <2>7. BootInv'
    BY <1>1, <2>4, <2>6, SteadyReady
  <2>8. OwnInv'
    BY <2>3, <2>4 DEF OwnInv
  <2> QED
    BY <2>7, <2>8
<1> QED
  BY <1>2, <1>3, <1>4, <1>5, <1>6

LEMMA BootInit == ASSUME PersistenceAssumption, PInit PROVE StoreInv /\ BootInv /\ OwnInv
<1>1. StoreInv /\ FlashReady(flash, fw) /\ BootPlan(boot, flash, fw)
  BY StoreInit
<1>2. live = Loaded(flash) /\ owned = [r \in Rows |-> Absent]
  BY DEF PInit
<1>3. \A r \in Rows : live[r] = IF flash.row[r] = Absent THEN "default" ELSE flash.row[r]
  BY <1>2, Zenon DEF Loaded
<1> QED
  BY <1>1, <1>2, <1>3 DEF BootInv, OwnInv, Old

(***************************************************************************)
(* No value of an older firmware outlives the boot, wherever the boots     *)
(* before it were cut off and whatever is done meanwhile, for every budget *)
(* of resets and firmwares, provided that the writes whose result the boot *)
(* drops succeed.                                                          *)
(***************************************************************************)
THEOREM MigrationsComplete ==
  ASSUME PersistenceAssumption, UncheckedFail = FALSE PROVE PSpec => []LegacyGone
<1>1. PInit => StoreInv /\ BootInv /\ OwnInv
  BY BootInit
<1>2. StoreInv /\ BootInv /\ OwnInv /\ [PNext]_persistVars => (StoreInv /\ BootInv /\ OwnInv)'
  BY StoreStep, BootStep
<1>3. StoreInv /\ BootInv /\ OwnInv => LegacyGone
  BY RunningSteady DEF StoreInv, Steady, LegacyGone
<1> QED
  BY <1>1, <1>2, <1>3, PTL DEF PSpec

(***************************************************************************)
(* What the operator set, and was told nothing bad about, stays stored and *)
(* in force over every number of restarts: a boot of a flash in which such *)
(* a value stands has nothing to write.  The same proviso.                 *)
(***************************************************************************)
THEOREM OperatorIsObeyed ==
  ASSUME PersistenceAssumption, UncheckedFail = FALSE PROVE PSpec => []OperatorKeepsValue
<1>1. PInit => StoreInv /\ BootInv /\ OwnInv
  BY BootInit
<1>2. StoreInv /\ BootInv /\ OwnInv /\ [PNext]_persistVars => (StoreInv /\ BootInv /\ OwnInv)'
  BY StoreStep, BootStep
<1>3. OwnInv => OperatorKeepsValue
  BY DEF OwnInv, OperatorKeepsValue
<1> QED
  BY <1>1, <1>2, <1>3, PTL DEF PSpec
=============================================================================
