----------------------------- MODULE RakPeerProofs -----------------------------
(***************************************************************************)
(* What holds of RakPeer for any number of clients, of slots and of        *)
(* repetitions. Time-outs and datagrams are as free as in the model; the   *)
(* fairness of PeerSpec is not used.                                       *)
(***************************************************************************)
EXTENDS RakPeer, TLAPS

(* What the safety properties rest on. *)

\* A request is queued, then granted, then answered: one after the other.
OneStageAtATime == \A g \in Guids :
    /\ g \in requestedConnectionQueue => told[g] = "nothing" /\ clientMode[g] = "none"
    /\ clientMode[g] = "REQUESTED_CONNECTION" => told[g] = "nothing"
    /\ clientMode[g] = "CONNECTED" => told[g] = "CONNECTION_REQUEST_ACCEPTED"

\* The client's request is off the queue, for good.
Past(g) == /\ g \notin requestedConnectionQueue
           /\ told[g] # "nothing" \/ clientMode[g] # "none"

Accepted(g) == told[g] \in {"CONNECTION_REQUEST_ACCEPTED", "CONNECTION_LOST"}

\* Only a client whose second request was granted asks for the connection; only
\* one that has asked for it is found connected; only one that was accepted
\* sends what follows.
EachSendsInTurn == \A g \in Guids :
    /\ Sent(g, "CONNECTION_REQUEST") => Past(g)
    /\ Sent(g, "ALREADY_CONNECTED") => Sent(g, "CONNECTION_REQUEST")
    /\ \A id \in {"NEW_INCOMING_CONNECTION", "CONNECTED_PING"} :
           Sent(g, id) => Accepted(g) /\ Sent(g, "CONNECTION_REQUEST_ACCEPTED")

\* A slot is where it is because of what its client sent.
SlotsFollowClients == \A i \in Active :
    LET rs == remoteSystemList[i]
    IN  /\ rs.connectMode # "UNVERIFIED_SENDER" => Sent(rs.guid, "CONNECTION_REQUEST")
        /\ rs.connectMode = "CONNECTED" => Accepted(rs.guid)

\* The server has accepted a client only in a slot it still has, or has given up.
AcceptedHasSlot == \A g \in Guids :
    Sent(g, "CONNECTION_REQUEST_ACCEPTED") =>
        \/ g \in dropped
        \/ \E i \in SlotsOf(g) : remoteSystemList[i].connectMode # "UNVERIFIED_SENDER"

PeerInv == /\ PeerTypeOK
           /\ OneSlotPerClient
           /\ OneStageAtATime
           /\ EachSendsInTurn
           /\ NeverAlreadyConnected
           /\ SlotsFollowClients
           /\ AcceptedHasSlot

-----------------------------------------------------------------------------
(* Lemmas about the steps. *)

\* What has been sent once `ids` are sent to or by `g`.
LEMMA SendsIsSent ==
    ASSUME NEW g, NEW ids, Sends(g, ids)
    PROVE  \A h, id : Sent(h, id)' <=> Sent(h, id) \/ (h = g /\ id \in ids)
BY DEF Sends, Sent

\* Nothing is sent where the datagrams stay as they are.
LEMMA UnsentStays ==
    ASSUME UNCHANGED datagrams
    PROVE  \A h, id : Sent(h, id)' <=> Sent(h, id)
BY DEF Sent

\* The datagrams stay well formed.
LEMMA SendsTyped ==
    ASSUME NEW g \in Guids, NEW ids \in SUBSET (RequestIds \cup ReplyIds),
           datagrams \subseteq Datagram, Sends(g, ids)
    PROVE  datagrams' \subseteq Datagram
BY DEF Sends, Datagram

\* PeerTypeOK holds of every state of RakPeer.
LEMMA TypeInit == ASSUME PeerInit PROVE PeerTypeOK
<1>1. Active = {}
  BY DEF PeerInit, Active
<1>2. remoteSystemList \in [Active -> RemoteSystem]
  BY <1>1 DEF PeerInit
<1>3. 0 \in 0 .. sendConnectionAttemptCount + 1
  BY RakPeerAssumption
<1>4. requestsMade \in [Guids -> 0 .. sendConnectionAttemptCount + 1]
  BY <1>3 DEF PeerInit
<1>5. QED BY <1>1, <1>2, <1>4 DEF PeerInit, PeerTypeOK

LEMMA TypeStep ==
    ASSUME PeerTypeOK, [PeerNext]_peerVars
    PROVE  PeerTypeOK'
<1> USE RakPeerAssumption
<1> USE DEF PeerTypeOK, clientVars, serverVars
<1>0. CASE UNCHANGED peerVars
  BY <1>0 DEF peerVars, Active
<1>1. ASSUME NEW g \in Guids, Connect(g) PROVE PeerTypeOK'
  BY <1>1 DEF Connect, Active
<1>2. ASSUME NEW g \in Guids, RepeatRequest(g) PROVE PeerTypeOK'
  <2>1. datagrams' \subseteq Datagram
    BY <1>2, SendsTyped DEF RepeatRequest, RequestIds
  <2>2. QED BY <2>1, <1>2 DEF RepeatRequest, Active
<1>3. ASSUME NEW g \in Guids, GiveUp(g) PROVE PeerTypeOK'
  BY <1>3 DEF GiveUp, Unqueue, Tells, Answers, Active
<1>4. ASSUME NEW g \in Guids, OnOpenConnectionReply1(g) PROVE PeerTypeOK'
  <2>1. datagrams' \subseteq Datagram
    BY <1>4, SendsTyped DEF OnOpenConnectionReply1, RequestIds
  <2>2. QED BY <2>1, <1>4 DEF OnOpenConnectionReply1, Active
<1>5. ASSUME NEW g \in Guids, OnOpenConnectionReply2(g) PROVE PeerTypeOK'
  <2>1. datagrams' \subseteq Datagram
    BY <1>5, SendsTyped DEF OnOpenConnectionReply2, RequestIds
  <2>2. QED BY <2>1, <1>5 DEF OnOpenConnectionReply2, Unqueue, Active
<1>6. ASSUME NEW g \in Guids, OnRefusal(g) PROVE PeerTypeOK'
  BY <1>6 DEF OnRefusal, Unqueue, Tells, Answers, Active
<1>7. ASSUME NEW g \in Guids, OnConnectionRequestAccepted(g) PROVE PeerTypeOK'
  <2>1. datagrams' \subseteq Datagram
    BY <1>7, SendsTyped DEF OnConnectionRequestAccepted, RequestIds
  <2>2. QED BY <2>1, <1>7 DEF OnConnectionRequestAccepted, Tells, Answers, Active
<1>8. ASSUME NEW g \in Guids, RequestTimesOut(g) \/ ConnectionDies(g) PROVE PeerTypeOK'
  BY <1>8 DEF RequestTimesOut, ConnectionDies, ClientCloses, Tells, Answers, Active
<1>9. ASSUME NEW g \in Guids,
             \/ RefuseBanned(g) \/ OnOpenConnectionRequest1(g) \/ AnswerAgain(g)
             \/ RefuseConnected(g) \/ RefuseFull(g)
      PROVE  PeerTypeOK'
  <2>1. datagrams' \subseteq Datagram
    BY <1>9, SendsTyped DEF RefuseBanned, OnOpenConnectionRequest1, AnswerAgain,
       RefuseConnected, RefuseFull, ReplyIds, Refusals
  <2>2. UNCHANGED <<clientVars, serverVars>>
    BY <1>9 DEF RefuseBanned, OnOpenConnectionRequest1, AnswerAgain,
       RefuseConnected, RefuseFull
  <2>3. QED BY <2>1, <2>2 DEF Active
<1>10. ASSUME NEW g \in Guids, Admit(g) PROVE PeerTypeOK'
  <2>1. datagrams' \subseteq Datagram
    BY <1>10, SendsTyped DEF Admit, ReplyIds
  <2>2. Active' \subseteq 1..maximumNumberOfPeers' /\ remoteSystemList' \in [Active' -> RemoteSystem]
    <3>1. CASE UNCHANGED remoteSystemList
      BY <3>1, <1>10 DEF Admit, Active
    <3>2. ASSUME NEW i \in 1..maximumNumberOfPeers \ Active,
                 remoteSystemList' = [j \in Active \cup {i} |->
                     IF j = i THEN [guid |-> g, connectMode |-> "UNVERIFIED_SENDER",
                                    received |-> {}]
                              ELSE remoteSystemList[j]]
          PROVE  /\ Active' \subseteq 1..maximumNumberOfPeers'
                 /\ remoteSystemList' \in [Active' -> RemoteSystem]
      <4>1. [guid |-> g, connectMode |-> "UNVERIFIED_SENDER", received |-> {}] \in RemoteSystem
        BY DEF RemoteSystem, HalfOpen
      <4>2. Active' = Active \cup {i}
        BY <3>2 DEF Active
      <4>3. QED BY <4>1, <4>2, <3>2, <1>10 DEF Admit
    <3>3. QED BY <3>1, <3>2, <1>10 DEF Admit
  <2>3. QED BY <2>1, <2>2, <1>10 DEF Admit
<1>11. ASSUME NEW i \in Slots, OnConnectionRequest(i) PROVE PeerTypeOK'
  <2>1. remoteSystemList[i] \in RemoteSystem /\ i \in Active
    BY <1>11 DEF OnConnectionRequest, Passes
  <2>2. datagrams' \subseteq Datagram
    BY <2>1, <1>11, SendsTyped DEF OnConnectionRequest, ReplyIds, RemoteSystem
  <2>3. Active' = Active /\ remoteSystemList' \in [Active -> RemoteSystem]
    BY <2>1, <1>11 DEF OnConnectionRequest, Becomes, RemoteSystem, HalfOpen, Active
  <2>4. QED BY <2>2, <2>3, <1>11 DEF OnConnectionRequest
<1>12. ASSUME NEW i \in Slots, OnNewIncomingConnection(i) PROVE PeerTypeOK'
  <2>1. remoteSystemList[i] \in RemoteSystem /\ i \in Active
    BY <1>12 DEF OnNewIncomingConnection, Passes
  <2>2. Active' = Active /\ remoteSystemList' \in [Active -> RemoteSystem]
    BY <2>1, <1>12 DEF OnNewIncomingConnection, Becomes, RemoteSystem, Active
  <2>3. QED BY <2>2, <1>12 DEF OnNewIncomingConnection
<1>13. ASSUME NEW i \in Slots, BanUnverified(i) \/ HalfOpenTimesOut(i) \/ SlotDies(i)
       PROVE  PeerTypeOK'
  <2>1. i \in Active /\ Free(i) /\ banned' \in BOOLEAN
        /\ UNCHANGED <<clientVars, maximumNumberOfPeers, datagrams>>
    BY <1>13 DEF BanUnverified, HalfOpenTimesOut, SlotDies, Passes, Connected
  <2>2. remoteSystemList[i].guid \in Guids
    BY <2>1 DEF RemoteSystem
  <2>3. Active' = Active \ {i}
    BY <2>1 DEF Free, Active
  <2>4. QED BY <2>1, <2>2, <2>3 DEF Free
<1>14. ASSUME BanExpires PROVE PeerTypeOK'
  BY <1>14 DEF BanExpires, Active
<1>15. QED
  BY <1>0, <1>1, <1>2, <1>3, <1>4, <1>5, <1>6, <1>7, <1>8, <1>9, <1>10, <1>11,
     <1>12, <1>13, <1>14 DEF PeerNext, UpdateRequests

\* The types of RakPeer, for any clients, sizes and number of repetitions.
THEOREM PeersAreTyped == PeerSpec => []PeerTypeOK
<1>1. PeerInit => PeerTypeOK BY TypeInit
<1>2. PeerTypeOK /\ [PeerNext]_peerVars => PeerTypeOK' BY TypeStep
<1>3. QED BY <1>1, <1>2, PTL DEF PeerSpec

-----------------------------------------------------------------------------
(* PeerInv is inductive. *)

Monotone == \A h, id : Sent(h, id) => Sent(h, id)'
StayAccepted == \A g \in Guids : Accepted(g) => Accepted(g)'
AcceptsNobody == \A g \in Guids :
    Sent(g, "CONNECTION_REQUEST_ACCEPTED")' => Sent(g, "CONNECTION_REQUEST_ACCEPTED")

AboutSlots == OneSlotPerClient /\ SlotsFollowClients /\ AcceptedHasSlot

\* A step of a client leaves what is known of the slots true.
LEMMA ClientKeepsSlots ==
    ASSUME PeerInv, UNCHANGED serverVars, Monotone, StayAccepted, AcceptsNobody
    PROVE  AboutSlots'
<1> USE DEF PeerInv, PeerTypeOK, serverVars, Active
<1>1. \A i \in Active : remoteSystemList[i].guid \in Guids
  BY DEF RemoteSystem
<1>2. OneSlotPerClient'
  BY DEF OneSlotPerClient
<1>3. SlotsFollowClients'
  BY <1>1 DEF SlotsFollowClients, Monotone, StayAccepted
<1>4. AcceptedHasSlot'
  BY DEF AcceptedHasSlot, AcceptsNobody, SlotsOf
<1>5. QED BY <1>2, <1>3, <1>4 DEF AboutSlots

\* A step of the server leaves what is known of the clients true, as far as it
\* sends nothing but replies.
LEMMA ServerKeepsClients ==
    ASSUME PeerInv, UNCHANGED clientVars, Monotone,
           \A h \in Guids, id \in RequestIds : Sent(h, id)' => Sent(h, id),
           \A h \in Guids : Sent(h, "ALREADY_CONNECTED")' =>
               Sent(h, "ALREADY_CONNECTED") \/ Sent(h, "CONNECTION_REQUEST")
    PROVE  OneStageAtATime' /\ EachSendsInTurn' /\ NeverAlreadyConnected'
<1> USE DEF PeerInv, clientVars
<1>1. OneStageAtATime' /\ NeverAlreadyConnected'
  BY DEF OneStageAtATime, NeverAlreadyConnected
<1>2. EachSendsInTurn'
  BY DEF EachSendsInTurn, Past, Accepted, Monotone, RequestIds
<1>3. QED BY <1>1, <1>2

\* Connect, RepeatRequest, GiveUp, OnOpenConnectionReply1 and 2.
LEMMA ClientAsks ==
    ASSUME PeerInv, NEW g \in Guids,
           \/ Connect(g) \/ UpdateRequests(g)
           \/ OnOpenConnectionReply1(g) \/ OnOpenConnectionReply2(g)
    PROVE  /\ OneStageAtATime' /\ EachSendsInTurn' /\ NeverAlreadyConnected'
           /\ AboutSlots'
<1> USE DEF PeerInv
<1>1. \A h, id : Sent(h, id)' => Sent(h, id) \/
          (h = g /\ id \in {"OPEN_CONNECTION_REQUEST_1", "OPEN_CONNECTION_REQUEST_2",
                            "CONNECTION_REQUEST"})
  BY SendsIsSent, UnsentStays DEF Connect, UpdateRequests, RepeatRequest, GiveUp,
     OnOpenConnectionReply1, OnOpenConnectionReply2
<1>2. Monotone
  BY SendsIsSent, UnsentStays DEF Monotone, Connect, UpdateRequests, RepeatRequest,
     GiveUp, OnOpenConnectionReply1, OnOpenConnectionReply2
<1>3. UNCHANGED serverVars
  BY DEF Connect, UpdateRequests, RepeatRequest, GiveUp,
     OnOpenConnectionReply1, OnOpenConnectionReply2
<1>4. OneStageAtATime' /\ NeverAlreadyConnected'
  BY DEF PeerTypeOK, OneStageAtATime, NeverAlreadyConnected, clientVars, Connect,
     UpdateRequests, RepeatRequest, GiveUp, OnOpenConnectionReply1,
     OnOpenConnectionReply2, Unqueue, Tells
<1>5. \A h \in Guids : Accepted(h)' <=> Accepted(h)
  BY DEF PeerTypeOK, OneStageAtATime, Accepted, clientVars, Connect, UpdateRequests,
     RepeatRequest, GiveUp, OnOpenConnectionReply1, OnOpenConnectionReply2,
     Unqueue, Tells
<1>6. \A h \in Guids : Past(h) => Past(h)'
  BY DEF PeerTypeOK, OneStageAtATime, Past, clientVars, Connect, UpdateRequests,
     RepeatRequest, GiveUp, OnOpenConnectionReply1, OnOpenConnectionReply2,
     Unqueue, Tells
<1>7. Sent(g, "CONNECTION_REQUEST")' => Sent(g, "CONNECTION_REQUEST") \/ Past(g)'
  BY SendsIsSent, UnsentStays DEF PeerTypeOK, Past, Connect, UpdateRequests,
     RepeatRequest, GiveUp, OnOpenConnectionReply1, OnOpenConnectionReply2, Unqueue
<1>8. EachSendsInTurn'
  BY <1>1, <1>2, <1>5, <1>6, <1>7 DEF EachSendsInTurn, Monotone
<1>9. AboutSlots'
  BY <1>1, <1>2, <1>3, <1>5, ClientKeepsSlots DEF StayAccepted, AcceptsNobody
<1>10. QED BY <1>4, <1>8, <1>9

\* OnRefusal, OnConnectionRequestAccepted, and the end of a connection.
LEMMA ClientIsTold ==
    ASSUME PeerInv, NEW g \in Guids,
           \/ OnRefusal(g) \/ OnConnectionRequestAccepted(g)
           \/ RequestTimesOut(g) \/ ConnectionDies(g)
    PROVE  /\ OneStageAtATime' /\ EachSendsInTurn' /\ NeverAlreadyConnected'
           /\ AboutSlots'
<1> USE DEF PeerInv
<1>1. \A h, id : Sent(h, id)' => Sent(h, id) \/
          (h = g /\ id \in {"NEW_INCOMING_CONNECTION", "CONNECTED_PING"})
  BY SendsIsSent, UnsentStays DEF OnRefusal, OnConnectionRequestAccepted,
     RequestTimesOut, ConnectionDies, ClientCloses
<1>2. Monotone
  BY SendsIsSent, UnsentStays DEF Monotone, OnRefusal, OnConnectionRequestAccepted,
     RequestTimesOut, ConnectionDies, ClientCloses
<1>3. UNCHANGED serverVars
  BY DEF OnRefusal, OnConnectionRequestAccepted, RequestTimesOut, ConnectionDies,
     ClientCloses
<1>4. NeverAlreadyConnected'
  <2>1. g \in requestedConnectionQueue => ~Sent(g, "ALREADY_CONNECTED")
    BY DEF EachSendsInTurn, Past
  <2>2. QED
    BY <2>1 DEF PeerTypeOK, NeverAlreadyConnected, OnRefusal, Refusals, Unqueue,
       OnConnectionRequestAccepted, RequestTimesOut, ConnectionDies, ClientCloses, Tells
<1>5. OneStageAtATime'
  BY DEF PeerTypeOK, OneStageAtATime, OnRefusal, Refusals, Unqueue,
     OnConnectionRequestAccepted, RequestTimesOut, ConnectionDies, ClientCloses, Tells
<1>6. StayAccepted
  BY DEF StayAccepted, PeerTypeOK, OneStageAtATime, Accepted, OnRefusal, Unqueue,
     OnConnectionRequestAccepted, RequestTimesOut, ConnectionDies, ClientCloses, Tells
<1>7. \A h \in Guids : Past(h) => Past(h)'
  BY DEF PeerTypeOK, OneStageAtATime, Past, OnRefusal, Refusals, Unqueue,
     OnConnectionRequestAccepted, RequestTimesOut, ConnectionDies, ClientCloses, Tells
<1>8. \A id \in {"NEW_INCOMING_CONNECTION", "CONNECTED_PING"} :
          Sent(g, id)' => Sent(g, id) \/
              (Accepted(g)' /\ Sent(g, "CONNECTION_REQUEST_ACCEPTED"))
  BY UnsentStays DEF PeerTypeOK, Accepted, OnRefusal, OnConnectionRequestAccepted,
     RequestTimesOut, ConnectionDies, ClientCloses, Tells
<1>9. EachSendsInTurn'
  BY <1>1, <1>2, <1>6, <1>7, <1>8 DEF EachSendsInTurn, Monotone, StayAccepted
<1>10. AboutSlots'
  BY <1>1, <1>2, <1>3, <1>6, ClientKeepsSlots DEF AcceptsNobody
<1>11. QED BY <1>4, <1>5, <1>9, <1>10

\* The replies that change no slot.
LEMMA ServerReplies ==
    ASSUME PeerInv, NEW g \in Guids,
           \/ RefuseBanned(g) \/ OnOpenConnectionRequest1(g) \/ AnswerAgain(g)
           \/ RefuseConnected(g) \/ RefuseFull(g)
    PROVE  /\ OneStageAtATime' /\ EachSendsInTurn' /\ NeverAlreadyConnected'
           /\ AboutSlots'
<1>1. \A h, id : Sent(h, id)' => \/ Sent(h, id)
                                 \/ h = g /\ RefuseConnected(g) /\ id = "ALREADY_CONNECTED"
                                 \/ id \in ReplyIds \ {"ALREADY_CONNECTED",
                                                       "CONNECTION_REQUEST_ACCEPTED"}
  BY SendsIsSent DEF RefuseBanned, OnOpenConnectionRequest1, AnswerAgain,
     RefuseConnected, RefuseFull, ReplyIds, Refusals
<1>2. Monotone
  BY SendsIsSent DEF Monotone, RefuseBanned, OnOpenConnectionRequest1, AnswerAgain,
     RefuseConnected, RefuseFull
<1>3. UNCHANGED <<clientVars, serverVars>>
  BY DEF RefuseBanned, OnOpenConnectionRequest1, AnswerAgain, RefuseConnected, RefuseFull
<1>4. RefuseConnected(g) => Sent(g, "CONNECTION_REQUEST")
  BY DEF PeerInv, SlotsFollowClients, RefuseConnected, KnownAs, SlotsOf
<1>5. OneStageAtATime' /\ EachSendsInTurn' /\ NeverAlreadyConnected'
  BY <1>1, <1>2, <1>3, <1>4, ServerKeepsClients DEF RequestIds, ReplyIds, Refusals
<1>6. StayAccepted /\ AcceptsNobody
  BY <1>1, <1>3 DEF StayAccepted, AcceptsNobody, Accepted, clientVars
<1>7. AboutSlots'
  BY <1>2, <1>3, <1>6, ClientKeepsSlots
<1>8. QED BY <1>5, <1>7

\* A new client gets a slot, if there is one.
LEMMA ServerAdmits ==
    ASSUME PeerInv, NEW g \in Guids, Admit(g)
    PROVE  /\ OneStageAtATime' /\ EachSendsInTurn' /\ NeverAlreadyConnected'
           /\ AboutSlots'
<1> USE DEF PeerInv, PeerTypeOK
<1>1. /\ \A h, id : Sent(h, id)' => Sent(h, id) \/ id = "OPEN_CONNECTION_REPLY_2"
      /\ Monotone
  BY SendsIsSent DEF Admit, Monotone
<1>2. UNCHANGED <<clientVars, dropped>>
  BY DEF Admit
<1>3. OneStageAtATime' /\ EachSendsInTurn' /\ NeverAlreadyConnected'
  BY <1>1, <1>2, ServerKeepsClients DEF RequestIds
<1>4. StayAccepted /\ AcceptsNobody
  BY <1>1, <1>2 DEF StayAccepted, AcceptsNobody, Accepted, clientVars
<1>5. CASE UNCHANGED remoteSystemList
  <2>1. UNCHANGED serverVars
    BY <1>5 DEF Admit, serverVars
  <2>2. QED BY <2>1, <1>1, <1>3, <1>4, ClientKeepsSlots
<1>6. ASSUME NEW i \in 1..maximumNumberOfPeers \ Active,
             remoteSystemList' = [j \in Active \cup {i} |->
                 IF j = i THEN [guid |-> g, connectMode |-> "UNVERIFIED_SENDER",
                                received |-> {}]
                          ELSE remoteSystemList[j]]
      PROVE  AboutSlots'
  <2>1. Active' = Active \cup {i}
    BY <1>6 DEF Active
  <2>2. \A j \in Active : remoteSystemList[j].guid \in Guids \ {g}
    BY DEF Admit, IsNew, KnownAs, SlotsOf, RemoteSystem
  <2>3. /\ remoteSystemList'[i].guid = g
        /\ remoteSystemList'[i].connectMode = "UNVERIFIED_SENDER"
        /\ \A j \in Active : remoteSystemList'[j] = remoteSystemList[j]
    BY <1>6
  <2>4. OneSlotPerClient'
    BY <2>1, <2>2, <2>3 DEF OneSlotPerClient
  <2>5. SlotsFollowClients'
    BY <2>1, <2>2, <2>3, <1>1, <1>4 DEF SlotsFollowClients, Monotone, StayAccepted
  <2>6. AcceptedHasSlot'
    BY <2>1, <2>2, <2>3, <1>2, <1>4 DEF AcceptedHasSlot, AcceptsNobody, SlotsOf
  <2>7. QED BY <2>4, <2>5, <2>6 DEF AboutSlots
<1>7. QED BY <1>3, <1>5, <1>6 DEF Admit

\* A slot moves on: the request is accepted, or the connection is there.
LEMMA SlotMoves ==
    ASSUME PeerInv, NEW i \in Slots, OnConnectionRequest(i) \/ OnNewIncomingConnection(i)
    PROVE  /\ OneStageAtATime' /\ EachSendsInTurn' /\ NeverAlreadyConnected'
           /\ AboutSlots'
<1> DEFINE g == remoteSystemList[i].guid
<1> USE DEF PeerInv, PeerTypeOK
<1>1. i \in Active /\ g \in Guids
  BY DEF OnConnectionRequest, OnNewIncomingConnection, Passes, RemoteSystem
<1>2. /\ \A h, id : Sent(h, id)' => \/ Sent(h, id)
                                    \/ h = g /\ id = "CONNECTION_REQUEST_ACCEPTED"
      /\ Monotone
  BY SendsIsSent, UnsentStays DEF OnConnectionRequest, OnNewIncomingConnection, Monotone
<1>3. UNCHANGED <<clientVars, dropped>>
  BY DEF OnConnectionRequest, OnNewIncomingConnection
<1>4. OneStageAtATime' /\ EachSendsInTurn' /\ NeverAlreadyConnected'
  BY <1>2, <1>3, ServerKeepsClients DEF RequestIds
<1>5. StayAccepted
  BY <1>3 DEF StayAccepted, Accepted, clientVars
<1>6. /\ Active' = Active
      /\ \A j \in Active : j # i => remoteSystemList'[j] = remoteSystemList[j]
      /\ remoteSystemList'[i].guid = g
      /\ remoteSystemList'[i].connectMode # "UNVERIFIED_SENDER"
  BY <1>1 DEF OnConnectionRequest, OnNewIncomingConnection, Becomes, RemoteSystem, Active
<1>7. OneSlotPerClient'
  BY <1>6 DEF OneSlotPerClient
<1>8. Sent(g, "CONNECTION_REQUEST")
  BY <1>1 DEF OnConnectionRequest, OnNewIncomingConnection, Passes, Arrives,
     SlotsFollowClients
<1>9. remoteSystemList'[i].connectMode = "CONNECTED" => Accepted(g)
  <2>1. CASE OnConnectionRequest(i)
    BY <2>1, <1>1 DEF OnConnectionRequest, Becomes, SlotsFollowClients, RemoteSystem
  <2>2. CASE OnNewIncomingConnection(i)
    BY <2>2, <1>1 DEF OnNewIncomingConnection, Passes, Arrives, EachSendsInTurn
  <2>3. QED BY <2>1, <2>2
<1>10. SlotsFollowClients'
  <2>1. \A j \in Active : remoteSystemList[j].guid \in Guids
    BY DEF RemoteSystem
  <2>2. QED
    BY <2>1, <1>1, <1>2, <1>5, <1>6, <1>8, <1>9
    DEF SlotsFollowClients, Monotone, StayAccepted
<1>11. AcceptedHasSlot'
  BY <1>1, <1>2, <1>3, <1>6 DEF AcceptedHasSlot, SlotsOf
<1>12. QED BY <1>4, <1>7, <1>10, <1>11 DEF AboutSlots

\* A slot is given up.
LEMMA SlotEnds ==
    ASSUME PeerInv, NEW i \in Slots,
           BanUnverified(i) \/ HalfOpenTimesOut(i) \/ SlotDies(i)
    PROVE  /\ OneStageAtATime' /\ EachSendsInTurn' /\ NeverAlreadyConnected'
           /\ AboutSlots'
<1> USE DEF PeerInv, PeerTypeOK
<1>1. /\ i \in Active
      /\ Free(i)
      /\ UNCHANGED <<clientVars, datagrams>>
  BY DEF BanUnverified, HalfOpenTimesOut, SlotDies, Passes, Connected
<1>2. \A h, id : Sent(h, id)' <=> Sent(h, id)
  BY <1>1, UnsentStays
<1>3. OneStageAtATime' /\ EachSendsInTurn' /\ NeverAlreadyConnected'
  BY <1>1, <1>2, ServerKeepsClients DEF Monotone
<1>4. /\ Active' = Active \ {i}
      /\ \A j \in Active' : remoteSystemList'[j] = remoteSystemList[j]
  BY <1>1 DEF Free, Active
<1>5. OneSlotPerClient'
  BY <1>4 DEF OneSlotPerClient
<1>6. SlotsFollowClients'
  BY <1>1, <1>2, <1>4 DEF SlotsFollowClients, Accepted, clientVars
<1>7. AcceptedHasSlot'
  BY <1>1, <1>2, <1>4 DEF AcceptedHasSlot, SlotsOf, Free
<1>8. QED BY <1>3, <1>5, <1>6, <1>7 DEF AboutSlots

\* The inductive invariant holds at first and after every step.
LEMMA InvInit == ASSUME PeerInit PROVE PeerInv
<1>1. \A h, id : ~Sent(h, id)
  BY DEF PeerInit, Sent
<1>2. Active = {}
  BY DEF PeerInit, Active
<1>3. PeerTypeOK BY TypeInit
<1>4. OneStageAtATime /\ NeverAlreadyConnected
  BY DEF PeerInit, OneStageAtATime, NeverAlreadyConnected
<1>5. QED
  BY <1>1, <1>2, <1>3, <1>4 DEF PeerInv, OneSlotPerClient, EachSendsInTurn,
     SlotsFollowClients, AcceptedHasSlot

LEMMA InvStep ==
    ASSUME PeerInv, [PeerNext]_peerVars
    PROVE  PeerInv'
<1> DEFINE Rest == OneStageAtATime /\ EachSendsInTurn /\ NeverAlreadyConnected /\ AboutSlots
<1>1. PeerTypeOK' BY TypeStep DEF PeerInv
<1>2. Rest'
  <2>1. ASSUME UNCHANGED <<clientVars, datagrams, remoteSystemList, dropped>> PROVE Rest'
    <3>1. \A h, id : Sent(h, id)' <=> Sent(h, id)
      BY <2>1, UnsentStays
    <3>2. OneStageAtATime' /\ EachSendsInTurn' /\ NeverAlreadyConnected'
      BY <2>1, <3>1, ServerKeepsClients DEF Monotone
    <3>3. AboutSlots'
      BY <2>1, <3>1 DEF PeerInv, AboutSlots, OneSlotPerClient, SlotsFollowClients,
         AcceptedHasSlot, SlotsOf, Active, Accepted, clientVars
    <3>4. QED BY <3>2, <3>3
  <2>2. CASE UNCHANGED peerVars
    BY <2>1, <2>2 DEF peerVars, serverVars
  <2>3. CASE BanExpires
    BY <2>1, <2>3 DEF BanExpires
  <2>4. CASE PeerNext
    BY <2>3, <2>4, ClientAsks, ClientIsTold, ServerReplies, ServerAdmits, SlotMoves,
       SlotEnds DEF PeerNext
  <2>5. QED BY <2>2, <2>4
<1>3. QED BY <1>1, <1>2 DEF PeerInv, AboutSlots

-----------------------------------------------------------------------------
(* The properties of RakPeer. *)

LEMMA InvHolds == PeerSpec => []PeerInv
<1>1. PeerInit => PeerInv BY InvInit
<1>2. PeerInv /\ [PeerNext]_peerVars => PeerInv' BY InvStep
<1>3. QED BY <1>1, <1>2, PTL DEF PeerSpec

\* No client ever holds two slots of a server of any size.
THEOREM ClientsHoldOneSlot == PeerSpec => []OneSlotPerClient
<1>1. PeerInv => OneSlotPerClient BY DEF PeerInv
<1>2. QED BY <1>1, InvHolds, PTL

\* No client that asks once is told that it is connected already.
THEOREM NobodyIsConnectedAlready == PeerSpec => []NeverAlreadyConnected
<1>1. PeerInv => NeverAlreadyConnected BY DEF PeerInv
<1>2. QED BY <1>1, InvHolds, PTL

\* A client is banned only after the server has given up a slot of it.
THEOREM OnlyDroppedAreBanned == PeerSpec => BansFollowDrops
<1>1. ASSUME PeerInv, NEW i \in Slots, BanUnverified(i)
      PROVE  remoteSystemList[i].guid \in dropped
  <2>1. /\ i \in Active
        /\ remoteSystemList[i].guid \in Guids
        /\ remoteSystemList[i].connectMode = "UNVERIFIED_SENDER"
    BY <1>1 DEF BanUnverified, Passes, PeerInv, PeerTypeOK, RemoteSystem
  <2>2. Sent(remoteSystemList[i].guid, "CONNECTION_REQUEST_ACCEPTED")
    BY <1>1, <2>1 DEF BanUnverified, Passes, Arrives, PeerInv, EachSendsInTurn
  <2>3. \A j \in SlotsOf(remoteSystemList[i].guid) : j = i
    BY <1>1, <2>1 DEF PeerInv, OneSlotPerClient, SlotsOf
  <2>4. QED BY <1>1, <2>1, <2>2, <2>3 DEF PeerInv, AcceptedHasSlot
<1>2. PeerInv => [\A i \in Slots : BanUnverified(i) => remoteSystemList[i].guid \in dropped]_peerVars
  BY <1>1
<1>3. QED BY <1>2, InvHolds, PTL DEF BansFollowDrops

-----------------------------------------------------------------------------
(* RakPeer implements Connections. *)


\* Every session has a slot of its own.
LEMMA SessionsFit ==
    PeerTypeOK => \E place \in [Sessions -> 1..maximumNumberOfPeers] :
                      \A h, k \in Sessions : place[h] = place[k] => h = k
<1> SUFFICES ASSUME PeerTypeOK
             PROVE  \E place \in [Sessions -> 1..maximumNumberOfPeers] :
                        \A h, k \in Sessions : place[h] = place[k] => h = k
  OBVIOUS
<1> DEFINE slot == [g \in Sessions |-> CHOOSE i \in Connected : remoteSystemList[i].guid = g]
<1>1. \A g \in Sessions : slot[g] \in Connected /\ remoteSystemList[slot[g]].guid = g
  BY DEF Sessions
<1>2. Connected \subseteq 1..maximumNumberOfPeers
  BY DEF PeerTypeOK, Connected
<1>3. slot \in [Sessions -> 1..maximumNumberOfPeers]
  BY <1>1, <1>2
<1>4. \A h, k \in Sessions : slot[h] = slot[k] => h = k
  BY <1>1
<1>5. QED BY <1>3, <1>4

\* A step that tells a client something moves its answer, and that alone.
LEMMA TellingMoves ==
    ASSUME PeerInv, NEW g \in Guids, NEW id, Tells(g, id), UNCHANGED serverVars,
           NEW from, NEW to, Outcome(told[g]) = from, Outcome(id) = to
    PROVE  Promised!Moves(g, from, to)
<1>1. Answer[g] = from
  BY DEF Answer
<1>2. Answer' = [Answer EXCEPT ![g] = to]
  BY DEF Answer, Tells, PeerInv, PeerTypeOK, Outcome
<1>3. UNCHANGED <<Sessions, maximumNumberOfPeers>>
  BY DEF Sessions, Connected, Active, serverVars
<1>4. QED BY <1>1, <1>2, <1>3 DEF Promised!Moves

\* Every step of RakPeer is one of Connections, or none.
LEMMA StepsArePromised ==
    ASSUME PeerInv, PeerInv', [PeerNext]_peerVars
    PROVE  [Promised!ConnectionsNext]_<<Answer, Sessions, maximumNumberOfPeers>>
<1> DEFINE Stutter == UNCHANGED <<Answer, Sessions, maximumNumberOfPeers>>
           Step == Promised!ConnectionsNext \/ Stutter
<1> USE DEF PeerInv, PeerTypeOK
<1>0. ASSUME UNCHANGED <<told, maximumNumberOfPeers, remoteSystemList>> PROVE Step
  BY <1>0 DEF Answer, Sessions, Connected, Active
<1>1. ASSUME NEW g \in Guids,
             \/ Connect(g) \/ RepeatRequest(g)
             \/ OnOpenConnectionReply1(g) \/ OnOpenConnectionReply2(g)
             \/ RefuseBanned(g) \/ OnOpenConnectionRequest1(g) \/ AnswerAgain(g)
             \/ RefuseConnected(g) \/ RefuseFull(g)
      PROVE  Step
  BY <1>0, <1>1 DEF Connect, RepeatRequest, OnOpenConnectionReply1,
     OnOpenConnectionReply2, RefuseBanned, OnOpenConnectionRequest1, AnswerAgain,
     RefuseConnected, RefuseFull, clientVars, serverVars
<1>2. ASSUME NEW g \in Guids, GiveUp(g) \/ OnRefusal(g) \/ RequestTimesOut(g) PROVE Step
  <2>1. told[g] = "nothing"
    BY <1>2 DEF OneStageAtATime, GiveUp, OnRefusal, Unqueue, RequestTimesOut, ClientCloses
  <2>2. PICK id \in Refusals \cup {"CONNECTION_ATTEMPT_FAILED"} : Tells(g, id)
    BY <1>2 DEF GiveUp, OnRefusal, RequestTimesOut, ClientCloses
  <2>3. UNCHANGED serverVars
    BY <1>2 DEF GiveUp, OnRefusal, RequestTimesOut, ClientCloses
  <2>4. Outcome(told[g]) = "none" /\ Outcome(id) = "failed"
    BY <2>1 DEF Outcome, Refusals
  <2>5. Promised!Moves(g, "none", "failed")
    BY <2>2, <2>3, <2>4, TellingMoves
  <2>6. QED BY <2>5 DEF Promised!ConnectionsNext
<1>3. ASSUME NEW g \in Guids, OnConnectionRequestAccepted(g) PROVE Step
  <2>1. /\ told[g] = "nothing"
        /\ Tells(g, "CONNECTION_REQUEST_ACCEPTED")
        /\ UNCHANGED serverVars
    BY <1>3 DEF OneStageAtATime, OnConnectionRequestAccepted
  <2>2. Promised!Moves(g, "none", "accepted")
    BY <2>1, TellingMoves DEF Outcome
  <2>3. QED BY <2>2 DEF Promised!ConnectionsNext
<1>4. ASSUME NEW g \in Guids, ConnectionDies(g) PROVE Step
  <2>1. /\ told[g] = "CONNECTION_REQUEST_ACCEPTED"
        /\ Tells(g, "CONNECTION_LOST")
        /\ UNCHANGED serverVars
    BY <1>4 DEF OneStageAtATime, ConnectionDies, ClientCloses
  <2>2. Promised!Moves(g, "accepted", "lost")
    BY <2>1, TellingMoves DEF Outcome
  <2>3. QED BY <2>2 DEF Promised!ConnectionsNext
<1>5. ASSUME NEW g \in Guids, Admit(g) PROVE Step
  <2>1. CASE UNCHANGED remoteSystemList
    BY <2>1, <1>5, <1>0 DEF Admit, clientVars
  <2>2. ASSUME NEW i \in 1..maximumNumberOfPeers \ Active,
               remoteSystemList' = [j \in Active \cup {i} |->
                   IF j = i THEN [guid |-> g, connectMode |-> "UNVERIFIED_SENDER",
                                  received |-> {}]
                            ELSE remoteSystemList[j]]
        PROVE  Sessions' = Sessions
    <3>1. /\ Active' = Active \cup {i}
          /\ remoteSystemList'[i].connectMode # "CONNECTED"
          /\ \A j \in Active : remoteSystemList'[j] = remoteSystemList[j]
      BY <2>2 DEF Active
    <3>2. Connected' = Connected
      BY <3>1 DEF Connected
    <3>3. QED BY <3>1, <3>2 DEF Sessions, Connected
  <2>3. QED BY <2>1, <2>2, <1>5 DEF Admit, Answer, clientVars
<1>6. ASSUME NEW i \in Slots, OnConnectionRequest(i) PROVE Step
  <2>1. /\ i \in Active
        /\ \A j \in Active : /\ remoteSystemList'[j].guid = remoteSystemList[j].guid
                             /\ remoteSystemList'[j].connectMode = "CONNECTED"
                                  <=> remoteSystemList[j].connectMode = "CONNECTED"
        /\ Active' = Active
    BY <1>6 DEF OnConnectionRequest, Passes, Becomes, RemoteSystem, Active
  <2>2. Sessions' = Sessions
    BY <2>1 DEF Sessions, Connected
  <2>3. QED BY <2>2, <1>6 DEF OnConnectionRequest, Answer, clientVars
<1>7. ASSUME NEW i \in Slots, OnNewIncomingConnection(i) PROVE Step
  <2> DEFINE g == remoteSystemList[i].guid
  <2>1. /\ i \in Active /\ g \in Guids
        /\ remoteSystemList[i].connectMode = "HANDLING_CONNECTION_REQUEST"
        /\ Sent(g, "NEW_INCOMING_CONNECTION")
    BY <1>7 DEF OnNewIncomingConnection, Passes, Arrives, RemoteSystem
  <2>2. Answer[g] \in {"accepted", "lost"}
    BY <2>1 DEF EachSendsInTurn, Accepted, Answer, Outcome
  <2>3. g \notin Sessions
    BY <2>1 DEF Sessions, Connected, OneSlotPerClient
  <2>4. /\ Active' = Active
        /\ remoteSystemList'[i].guid = g
        /\ remoteSystemList'[i].connectMode = "CONNECTED"
        /\ \A j \in Active : j # i => remoteSystemList'[j] = remoteSystemList[j]
    BY <1>7, <2>1 DEF OnNewIncomingConnection, Becomes, RemoteSystem, Active
  <2>5. Sessions' = Sessions \cup {g}
    BY <2>1, <2>4 DEF Sessions, Connected
  <2>6. (\E place \in [Sessions -> 1..maximumNumberOfPeers] :
             \A h, k \in Sessions : place[h] = place[k] => h = k)'
    BY SessionsFit, PTL
  <2>7. UNCHANGED <<Answer, maximumNumberOfPeers>>
    BY <1>7 DEF OnNewIncomingConnection, Answer, clientVars
  <2>8. Promised!Opens(g)
    BY <2>2, <2>3, <2>5, <2>6, <2>7 DEF Promised!Opens
  <2>9. QED BY <2>1, <2>8 DEF Promised!ConnectionsNext
<1>8. ASSUME NEW i \in Slots, BanUnverified(i) \/ HalfOpenTimesOut(i) \/ SlotDies(i) PROVE Step
  <2> DEFINE g == remoteSystemList[i].guid
  <2>1. /\ i \in Active /\ g \in Guids
        /\ Free(i)
        /\ UNCHANGED <<told, maximumNumberOfPeers>>
    BY <1>8 DEF BanUnverified, HalfOpenTimesOut, SlotDies, Passes, Connected, RemoteSystem,
       clientVars
  <2>2. Active' = Active \ {i} /\ \A j \in Active' : remoteSystemList'[j] = remoteSystemList[j]
    BY <2>1 DEF Free, Active
  <2>3. Connected' = Connected \ {i}
    BY <2>2 DEF Connected
  <2>4. \A j \in Connected : j # i => remoteSystemList[j].guid # g
    BY <2>1 DEF OneSlotPerClient, Connected
  <2>5. UNCHANGED Answer
    BY <2>1 DEF Answer
  <2>6. CASE i \in Connected
    <3>1. g \in Sessions /\ Sessions' = Sessions \ {g}
      BY <2>2, <2>3, <2>4, <2>6 DEF Sessions, Connected
    <3>2. Promised!Closes(g)
      BY <3>1, <2>1, <2>5 DEF Promised!Closes
    <3>3. QED BY <3>2, <2>1 DEF Promised!ConnectionsNext
  <2>7. CASE i \notin Connected
    <3>1. Sessions' = Sessions
      BY <2>2, <2>3, <2>7 DEF Sessions, Connected
    <3>2. QED BY <3>1, <2>1, <2>5
  <2>8. QED BY <2>6, <2>7
<1>9. ASSUME BanExpires \/ UNCHANGED peerVars PROVE Step
  BY <1>0, <1>9 DEF BanExpires, peerVars, clientVars, serverVars
<1>10. QED
  BY <1>1, <1>2, <1>3, <1>4, <1>5, <1>6, <1>7, <1>8, <1>9 DEF PeerNext, UpdateRequests

\* Whatever the network does, the connections are those of Connections.
THEOREM ConnectionsArePromised == PeerSpec => ImplementsConnections
<1>1. ASSUME PeerInit PROVE Promised!ConnectionsInit
  <2>1. Answer = [g \in Guids |-> "none"]
    BY <1>1 DEF PeerInit, Answer, Outcome
  <2>2. Sessions = {}
    BY <1>1 DEF PeerInit, Sessions, Connected, Active
  <2>3. QED BY <1>1, <2>1, <2>2 DEF PeerInit, Promised!ConnectionsInit
<1>2. PeerInv /\ PeerInv' /\ [PeerNext]_peerVars
        => [Promised!ConnectionsNext]_Promised!connectionsVars
  BY StepsArePromised DEF Promised!connectionsVars
<1>3. QED
  BY <1>1, <1>2, InvHolds, PTL
  DEF PeerSpec, ImplementsConnections, Promised!ConnectionsSpec
================================================================================
