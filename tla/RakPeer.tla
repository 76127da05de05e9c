-------------------------------- MODULE RakPeer --------------------------------
(***************************************************************************)
(* How RakPeer connects clients to a server over UDP: RakPeer.cpp of       *)
(* src/RakNet_RPG/Library/RakNet/Source.                                   *)
(*                                                                         *)
(* Offline datagrams (OPEN_CONNECTION_REQUEST_1 and 2, their replies,      *)
(* refusals) reserve one of the server's slots; three messages that go     *)
(* through the reliability layers of both (CONNECTION_REQUEST,             *)
(* CONNECTION_REQUEST_ACCEPTED, NEW_INCOMING_CONNECTION) turn the slot into *)
(* a connection. Each action is one handler, or one turn of a loop, of the *)
(* network thread of one peer.                                             *)
(*                                                                         *)
(* A datagram that was sent may arrive at any time, any number of times    *)
(* and in any order, or never. There is no clock: a time-out may strike    *)
(* whenever what it watches is pending.                                    *)
(*                                                                         *)
(* As in the game, a client asks one server, once in the life of its       *)
(* process, from an address of its own, which therefore stands for its     *)
(* GUID and is named by it. All of them have one IP, that of 127.0.0.1.    *)
(* Neither side closes a connection by itself, uses security or a password. *)
(***************************************************************************)
EXTENDS Naturals, FiniteSets

CONSTANTS
    Guids,                        \* the clients
    Sizes,                        \* numbers of connections a server may be started for
    sendConnectionAttemptCount    \* repetitions of the first request

ASSUME RakPeerAssumption ==
    /\ Sizes \subseteq Nat
    /\ sendConnectionAttemptCount \in Nat

VARIABLES
    requestedConnectionQueue,   \* clients with a request in their queue
    requestsMade,               \* of that request
    clientMode,                 \* connectMode of the server, at each client
    told,                       \* id of the last packet for a client's program
    maximumNumberOfPeers,       \* slots of the server
    remoteSystemList,           \* the server's active slots
    banned,                     \* TRUE while the ban list holds the clients' IP
    datagrams,                  \* what has been sent, either way
    dropped                     \* clients whose slot the server has given up

clientVars == <<requestedConnectionQueue, requestsMade, clientMode, told>>
serverVars == <<maximumNumberOfPeers, remoteSystemList, banned, dropped>>
peerVars == <<clientVars, serverVars, datagrams>>

\* Server/main.cpp gives Startup and SetMaximumIncomingConnections one number.
maximumIncomingConnections == maximumNumberOfPeers

Slots == UNION {1..n : n \in Sizes}

RequestIds == {"OPEN_CONNECTION_REQUEST_1", "OPEN_CONNECTION_REQUEST_2",
               "CONNECTION_REQUEST", "NEW_INCOMING_CONNECTION", "CONNECTED_PING"}
Refusals == {"ALREADY_CONNECTED", "NO_FREE_INCOMING_CONNECTIONS", "CONNECTION_BANNED"}
ReplyIds == {"OPEN_CONNECTION_REPLY_1", "OPEN_CONNECTION_REPLY_2",
             "CONNECTION_REQUEST_ACCEPTED"} \cup Refusals

\* A request travels from the client `guid` to the server, a reply back.
Datagram == [guid : Guids, id : RequestIds \cup ReplyIds]

\* `received` is what the slot's reliability layer has passed on and would
\* not pass on again.
HalfOpen == {"UNVERIFIED_SENDER", "HANDLING_CONNECTION_REQUEST"}
RemoteSystem == [guid : Guids, connectMode : HalfOpen \cup {"CONNECTED"},
                 received : SUBSET {"CONNECTION_REQUEST", "NEW_INCOMING_CONNECTION"}]

Answers == {"CONNECTION_REQUEST_ACCEPTED", "CONNECTION_ATTEMPT_FAILED",
            "CONNECTION_LOST"} \cup Refusals

PeerInit ==
    /\ requestedConnectionQueue = {}
    /\ requestsMade = [g \in Guids |-> 0]
    /\ clientMode = [g \in Guids |-> "none"]
    /\ told = [g \in Guids |-> "nothing"]
    /\ maximumNumberOfPeers \in Sizes
    /\ remoteSystemList = << >>
    /\ banned = FALSE
    /\ datagrams = {}
    /\ dropped = {}

Sent(g, id) == [guid |-> g, id |-> id] \in datagrams

Sends(g, ids) == datagrams' = datagrams \cup {[guid |-> g, id |-> id] : id \in ids}

Tells(g, id) == told' = [told EXCEPT ![g] = id]

-----------------------------------------------------------------------------
(* A client. *)

\* SendConnectionRequest: not while connected, or with a request pending.
Connect(g) ==
    /\ told[g] = "nothing"
    /\ clientMode[g] = "none"
    /\ g \notin requestedConnectionQueue
    /\ requestedConnectionQueue' = requestedConnectionQueue \cup {g}
    /\ UNCHANGED <<requestsMade, clientMode, told, serverVars, datagrams>>

Unqueue(g) == /\ g \in requestedConnectionQueue
              /\ requestedConnectionQueue' = requestedConnectionQueue \ {g}

\* Mutant of RepeatRequest: a request is made after the last.
RepeatOnceMore(g) ==
    /\ g \in requestedConnectionQueue
    /\ \E n \in requestsMade[g] + 1 .. sendConnectionAttemptCount + 2 :
           requestsMade' = [requestsMade EXCEPT ![g] = n]
    /\ Sends(g, {"OPEN_CONNECTION_REQUEST_1"})
    /\ UNCHANGED <<requestedConnectionQueue, clientMode, told, serverVars>>

\* RunUpdateCycle, once the time of the next request has come. A send that
\* takes long may skip requests.
RepeatRequest(g) ==
    /\ g \in requestedConnectionQueue
    /\ \E n \in requestsMade[g] + 1 .. sendConnectionAttemptCount + 1 :
           requestsMade' = [requestsMade EXCEPT ![g] = n]
    /\ Sends(g, {"OPEN_CONNECTION_REQUEST_1"})
    /\ UNCHANGED <<requestedConnectionQueue, clientMode, told, serverVars>>

GiveUp(g) ==
    /\ requestsMade[g] = sendConnectionAttemptCount + 1
    /\ Unqueue(g)
    /\ Tells(g, "CONNECTION_ATTEMPT_FAILED")
    /\ UNCHANGED <<requestsMade, clientMode, serverVars, datagrams>>

OnOpenConnectionReply1(g) ==
    /\ Sent(g, "OPEN_CONNECTION_REPLY_1")
    /\ g \in requestedConnectionQueue
    /\ Sends(g, {"OPEN_CONNECTION_REQUEST_2"})
    /\ UNCHANGED <<clientVars, serverVars>>

\* Mutant of OnOpenConnectionReply2: the request is not taken off the queue.
ConnectButKeepAsking(g) ==
    /\ Sent(g, "OPEN_CONNECTION_REPLY_2")
    /\ g \in requestedConnectionQueue
    /\ clientMode' = [clientMode EXCEPT ![g] = "REQUESTED_CONNECTION"]
    /\ Sends(g, {"CONNECTION_REQUEST"})
    /\ UNCHANGED <<requestedConnectionQueue, requestsMade, told, serverVars>>

\* The client has slots to spare: that it finds none is left out.
OnOpenConnectionReply2(g) ==
    /\ Sent(g, "OPEN_CONNECTION_REPLY_2")
    /\ Unqueue(g)
    /\ clientMode' = [clientMode EXCEPT ![g] = "REQUESTED_CONNECTION"]
    /\ Sends(g, {"CONNECTION_REQUEST"})
    /\ UNCHANGED <<requestsMade, told, serverVars>>

\* Mutant of OnRefusal: the program is not told.
OnRefusalSilently(g) ==
    /\ \E id \in Refusals : Sent(g, id)
    /\ Unqueue(g)
    /\ UNCHANGED <<requestsMade, clientMode, told, serverVars, datagrams>>

\* A refusal counts only as long as the request is queued.
OnRefusal(g) ==
    /\ \E id \in Refusals : Sent(g, id) /\ Tells(g, id)
    /\ Unqueue(g)
    /\ UNCHANGED <<requestsMade, clientMode, serverVars, datagrams>>

OnConnectionRequestAccepted(g) ==
    /\ Sent(g, "CONNECTION_REQUEST_ACCEPTED")
    /\ clientMode[g] = "REQUESTED_CONNECTION"
    /\ clientMode' = [clientMode EXCEPT ![g] = "CONNECTED"]
    /\ Tells(g, "CONNECTION_REQUEST_ACCEPTED")
    /\ Sends(g, {"NEW_INCOMING_CONNECTION", "CONNECTED_PING"})
    /\ UNCHANGED <<requestedConnectionQueue, requestsMade, serverVars>>

\* RunUpdateCycle finds the connection dead, or requested too long ago.
ClientCloses(g, mode, id) ==
    /\ clientMode[g] = mode
    /\ clientMode' = [clientMode EXCEPT ![g] = "none"]
    /\ Tells(g, id)
    /\ UNCHANGED <<requestedConnectionQueue, requestsMade, serverVars, datagrams>>

RequestTimesOut(g) ==
    ClientCloses(g, "REQUESTED_CONNECTION", "CONNECTION_ATTEMPT_FAILED")

ConnectionDies(g) == ClientCloses(g, "CONNECTED", "CONNECTION_LOST")

-----------------------------------------------------------------------------
(* The server. *)

Active == DOMAIN remoteSystemList

SlotsOf(g) == {i \in Active : remoteSystemList[i].guid = g}

\* Clients alone initiate connections, so all of the server's are incoming.
Connected == {i \in Active : remoteSystemList[i].connectMode = "CONNECTED"}
AllowIncomingConnections == Cardinality(Connected) < maximumIncomingConnections

\* IsBanned: whatever the client sends is answered with a refusal.
RefuseBanned(g) ==
    /\ banned
    /\ \E id \in RequestIds : Sent(g, id)
    /\ Sends(g, {"CONNECTION_BANNED"})
    /\ UNCHANGED <<clientVars, serverVars>>

Arrives(g, id) == Sent(g, id) /\ ~banned

OnOpenConnectionRequest1(g) ==
    /\ Arrives(g, "OPEN_CONNECTION_REQUEST_1")
    /\ Sends(g, {"OPEN_CONNECTION_REPLY_1"})
    /\ UNCHANGED <<clientVars, serverVars>>

\* Mutant of KnownAs: the slots of the client are not looked for.
Unknown(g, modes) == FALSE

\* The address and the GUID of the client are those of a slot in one of `modes`.
KnownAs(g, modes) == \E i \in SlotsOf(g) : remoteSystemList[i].connectMode \in modes

\* A request that was repeated gets the same answer.
AnswerAgain(g) ==
    /\ Arrives(g, "OPEN_CONNECTION_REQUEST_2")
    /\ KnownAs(g, {"UNVERIFIED_SENDER"})
    /\ Sends(g, {"OPEN_CONNECTION_REPLY_2"})
    /\ UNCHANGED <<clientVars, serverVars>>

RefuseConnected(g) ==
    /\ Arrives(g, "OPEN_CONNECTION_REQUEST_2")
    /\ KnownAs(g, {"HANDLING_CONNECTION_REQUEST", "CONNECTED"})
    /\ Sends(g, {"ALREADY_CONNECTED"})
    /\ UNCHANGED <<clientVars, serverVars>>

IsNew(g) == /\ Arrives(g, "OPEN_CONNECTION_REQUEST_2")
            /\ ~KnownAs(g, HalfOpen \cup {"CONNECTED"})

RefuseFull(g) ==
    /\ IsNew(g)
    /\ ~AllowIncomingConnections
    /\ Sends(g, {"NO_FREE_INCOMING_CONNECTIONS"})
    /\ UNCHANGED <<clientVars, serverVars>>

\* AssignSystemAddressToRemoteSystemList takes the first inactive slot. Where
\* there is none the reply is sent all the same.
Admit(g) ==
    /\ IsNew(g)
    /\ AllowIncomingConnections
    /\ \/ Active = 1..maximumNumberOfPeers /\ UNCHANGED remoteSystemList
       \/ \E i \in 1..maximumNumberOfPeers \ Active :
              /\ 1..(i - 1) \subseteq Active
              /\ remoteSystemList' = [j \in Active \cup {i} |->
                     IF j = i THEN [guid |-> g, connectMode |-> "UNVERIFIED_SENDER",
                                    received |-> {}]
                              ELSE remoteSystemList[j]]
    /\ Sends(g, {"OPEN_CONNECTION_REPLY_2"})
    /\ UNCHANGED <<clientVars, maximumNumberOfPeers, banned, dropped>>

\* The reliability layer of slot `i` passes on a message of the slot's client,
\* one it has sent reliably only the first time.
Passes(i, id) ==
    /\ i \in Active
    /\ Arrives(remoteSystemList[i].guid, id)
    /\ id \notin remoteSystemList[i].received

\* The connectMode of slot `i` once it has received `id`.
Becomes(i, mode, id) ==
    remoteSystemList' = [remoteSystemList EXCEPT ![i].connectMode = mode,
                                                 ![i].received = @ \cup {id}]

\* Mutant of OnConnectionRequest: the answer to a request opens the connection.
ConnectOnRequest(i) ==
    /\ Passes(i, "CONNECTION_REQUEST")
    /\ Becomes(i, "CONNECTED", "CONNECTION_REQUEST")
    /\ Sends(remoteSystemList[i].guid, {"CONNECTION_REQUEST_ACCEPTED"})
    /\ UNCHANGED <<clientVars, maximumNumberOfPeers, banned, dropped>>

\* Mutant of OnConnectionRequest: the slot stays unverified.
AcceptUnverified(i) ==
    /\ Passes(i, "CONNECTION_REQUEST")
    /\ Becomes(i, remoteSystemList[i].connectMode, "CONNECTION_REQUEST")
    /\ Sends(remoteSystemList[i].guid, {"CONNECTION_REQUEST_ACCEPTED"})
    /\ UNCHANGED <<clientVars, maximumNumberOfPeers, banned, dropped>>

OnConnectionRequest(i) ==
    /\ Passes(i, "CONNECTION_REQUEST")
    /\ LET mode == remoteSystemList[i].connectMode
       IN  Becomes(i, IF mode = "UNVERIFIED_SENDER"
                      THEN "HANDLING_CONNECTION_REQUEST" ELSE mode,
                   "CONNECTION_REQUEST")
    /\ Sends(remoteSystemList[i].guid, {"CONNECTION_REQUEST_ACCEPTED"})
    /\ UNCHANGED <<clientVars, maximumNumberOfPeers, banned, dropped>>

OnNewIncomingConnection(i) ==
    /\ Passes(i, "NEW_INCOMING_CONNECTION")
    /\ remoteSystemList[i].connectMode = "HANDLING_CONNECTION_REQUEST"
    /\ Becomes(i, "CONNECTED", "NEW_INCOMING_CONNECTION")
    /\ UNCHANGED <<clientVars, maximumNumberOfPeers, banned, datagrams, dropped>>

Free(i) == /\ remoteSystemList' = [j \in Active \ {i} |-> remoteSystemList[j]]
           /\ dropped' = dropped \cup {remoteSystemList[i].guid}

\* Anything but a request from a sender not yet verified is taken for nonsense.
BanUnverified(i) ==
    /\ \E id \in {"NEW_INCOMING_CONNECTION", "CONNECTED_PING"} : Passes(i, id)
    /\ remoteSystemList[i].connectMode = "UNVERIFIED_SENDER"
    /\ Free(i)
    /\ banned' = TRUE
    /\ UNCHANGED <<clientVars, maximumNumberOfPeers, datagrams>>

BanExpires == /\ banned
              /\ banned' = FALSE
              /\ UNCHANGED <<clientVars, maximumNumberOfPeers, remoteSystemList,
                             dropped, datagrams>>

\* Mutant of HalfOpenTimesOut: only the requests being handled time out.
HandlingTimesOut(i) ==
    /\ i \in Active
    /\ remoteSystemList[i].connectMode = "HANDLING_CONNECTION_REQUEST"
    /\ Free(i)
    /\ UNCHANGED <<clientVars, maximumNumberOfPeers, banned, datagrams>>

\* RunUpdateCycle finds the connection dead, or half open for too long.
HalfOpenTimesOut(i) ==
    /\ i \in Active
    /\ remoteSystemList[i].connectMode \in HalfOpen
    /\ Free(i)
    /\ UNCHANGED <<clientVars, maximumNumberOfPeers, banned, datagrams>>

SlotDies(i) ==
    /\ i \in Connected
    /\ Free(i)
    /\ UNCHANGED <<clientVars, maximumNumberOfPeers, banned, datagrams>>

-----------------------------------------------------------------------------
UpdateRequests(g) == RepeatRequest(g) \/ GiveUp(g)

PeerNext ==
    \/ \E g \in Guids : \/ Connect(g) \/ UpdateRequests(g)
                        \/ OnOpenConnectionReply1(g) \/ OnOpenConnectionReply2(g)
                        \/ OnRefusal(g) \/ OnConnectionRequestAccepted(g)
                        \/ RequestTimesOut(g) \/ ConnectionDies(g)
                        \/ RefuseBanned(g) \/ OnOpenConnectionRequest1(g)
                        \/ AnswerAgain(g) \/ RefuseConnected(g)
                        \/ RefuseFull(g) \/ Admit(g)
    \/ \E i \in Slots : \/ OnConnectionRequest(i) \/ OnNewIncomingConnection(i)
                        \/ BanUnverified(i) \/ HalfOpenTimesOut(i) \/ SlotDies(i)
    \/ BanExpires

\* The network threads keep running and their clocks advance, so what waits
\* for a time is done. That a datagram arrives is not assumed, nor that a
\* connection dies.
PeerFairness ==
    /\ \A g \in Guids : /\ WF_peerVars(UpdateRequests(g))
                        /\ WF_peerVars(RequestTimesOut(g))
    /\ \A i \in Slots : WF_peerVars(HalfOpenTimesOut(i))

PeerSpec == PeerInit /\ [][PeerNext]_peerVars /\ PeerFairness

-----------------------------------------------------------------------------
(* Properties. *)

\* Types of the variables of RakPeer: the states of a client's request, of
\* the server's slots and of the datagrams between them.
PeerTypeOK ==
    /\ requestedConnectionQueue \subseteq Guids
    /\ requestsMade \in [Guids -> 0 .. sendConnectionAttemptCount + 1]
    /\ clientMode \in [Guids -> {"none", "REQUESTED_CONNECTION", "CONNECTED"}]
    /\ told \in [Guids -> {"nothing"} \cup Answers]
    /\ maximumNumberOfPeers \in Sizes
    /\ Active \subseteq 1..maximumNumberOfPeers
    /\ remoteSystemList \in [Active -> RemoteSystem]
    /\ banned \in BOOLEAN
    /\ datagrams \subseteq Datagram
    /\ dropped \subseteq Guids

\* However often a request is repeated or duplicated, a client never holds two
\* of the server's slots.
OneSlotPerClient == \A i, j \in Active :
    remoteSystemList[i].guid = remoteSystemList[j].guid => i = j

\* A client that asks once is never told ALREADY_CONNECTED, whatever becomes
\* of the second requests still on their way when the first was granted.
NeverAlreadyConnected == \A g \in Guids : told[g] # "ALREADY_CONNECTED"

\* The server bans a client (and with it all of that IP) for sending what an
\* unverified sender may not only when it has given up a slot of it before:
\* the handshake by itself never provokes it.
BansFollowDrops ==
    [][\A i \in Slots : BanUnverified(i) => remoteSystemList[i].guid \in dropped]_peerVars

\* The connections are those of Connections: one answer for each client, and
\* sessions only with those accepted, as many as there are slots.
Outcome(id) ==
    CASE id = "nothing" -> "none"
      [] id = "CONNECTION_REQUEST_ACCEPTED" -> "accepted"
      [] id = "CONNECTION_LOST" -> "lost"
      [] OTHER -> "failed"

Answer == [g \in Guids |-> Outcome(told[g])]
Sessions == {remoteSystemList[i].guid : i \in Connected}

Promised == INSTANCE Connections WITH
    Limits <- Sizes, limit <- maximumNumberOfPeers, answer <- Answer, sessions <- Sessions

ImplementsConnections == Promised!ConnectionsSpec

\* Whoever asks to be connected is told the outcome, with every datagram lost
\* at worst.
Asking(g) == g \in requestedConnectionQueue \/ clientMode[g] = "REQUESTED_CONNECTION"
EveryAttemptIsAnswered == \A g \in Guids : Asking(g) ~> told[g] # "nothing"

\* A slot reserved for a client that says nothing more does not stay reserved.
IsHalfOpen(i) == i \in Active /\ remoteSystemList[i].connectMode \in HalfOpen
HalfOpenSlotsAreFreed == \A i \in Slots : IsHalfOpen(i) ~> ~IsHalfOpen(i)
================================================================================
