-------------------------- MODULE GameServerSafety --------------------------
(***************************************************************************)
(* What no interleaving of the two threads, of the players and of losses   *)
(* can do to a character: theorems of GameServer about m_status and        *)
(* m_health; and what the real classes and the real die add to them.       *)
(***************************************************************************)
EXTENDS GameServerProofs, CharacterClass

-----------------------------------------------------------------------------
(* The inductive invariant.                                                *)

\* The clients a packet with this identifier is queued from, and that none is
\* queued twice from one client.
Sent(id) == {inbox[i].guid : i \in {j \in DOMAIN inbox : inbox[j].id = id}}

Once(id) == \A i, j \in DOMAIN inbox :
                /\ inbox[i].id = id
                /\ inbox[j].id = id
                /\ inbox[i].guid = inbox[j].guid
                => i = j

\* The player in a slot has the number of that slot.
NumberIsSlot ==
    \A s \in Slots : playersIDs[s] \in m_players => m_number[playersIDs[s]] = s

\* Whoever is announced as a new connection is unknown to the server: a
\* process connects once.
NewcomersAreNew ==
    /\ Once("NEW_INCOMING_CONNECTION")
    /\ m_players \cup SlotGuids \subseteq launched \cup {NoGuid}
    /\ Sent("NEW_INCOMING_CONNECTION")
           \subseteq launched \ (m_players \cup SlotGuids)

\* A class is chosen once.
ReadyOnce ==
    /\ Once("LOBBY_READY")
    /\ Sent("LOBBY_READY") \subseteq ready
    /\ \A g \in Guids : m_class[g] # NoClass => g \in ready \ Sent("LOBBY_READY")

\* IsGameOver announces a player who is still in the game.
WinnerStands ==
    packetPc = "announce" =>
        /\ g_networkState = "NS_GameOver"
        /\ winner # 0 => winner \in ConnectedSlots

BeforeGame == {"NS_Init", "NS_PendingStart", "NS_WaitingPlayers"}

\* Before the game nobody has a turn and nobody is out.
LobbyIsPeaceful ==
    g_networkState \in BeforeGame =>
        /\ \A g \in m_players : m_status[g] = "PS_Connected"
        /\ \A g \in Guids : yourTurn[g] = << >>
        /\ \A id \in TurnPackets : Sent(id) = {}
        /\ mainPc \in {"poll", "publish"}

\* NS_WaitingPlayers is published over NS_PendingStart only.
PublishOnce == mainPc = "publish" => g_networkState = "NS_PendingStart"

WinnerAtTheEnd ==
    \A g \in m_players : m_status[g] = "PS_Winner" => g_networkState = "NS_GameOver"

SafeInv == /\ TypeInv
           /\ NumberIsSlot
           /\ NewcomersAreNew
           /\ ReadyOnce
           /\ HealthMatchesStatus
           /\ WinnerStands
           /\ LobbyIsPeaceful
           /\ PublishOnce
           /\ WinnerAtTheEnd

-----------------------------------------------------------------------------
(* The queue of packets.                                                   *)

\* The first packet is taken.
Received == inbox # << >> /\ inbox' = Tail(inbox)

LEMMA ReceivedPositions ==
    ASSUME inbox \in Seq(Packet), Received
    PROVE  /\ 1 \in DOMAIN inbox /\ Head(inbox) = inbox[1]
           /\ \A i \in DOMAIN inbox' : /\ i \in Nat \ {0}
                                       /\ i + 1 \in DOMAIN inbox
                                       /\ inbox'[i] = inbox[i + 1]
BY HeadTailProperties DEF Received

\* A packet taken leaves no other of its kind from its client behind, and the
\* rest of the queue as it was.
LEMMA SentReceived ==
    ASSUME inbox \in Seq(Packet), Received, NEW id
    PROVE  /\ Sent(id)' \subseteq Sent(id)
           /\ Once(id) => Once(id)'
           /\ Head(inbox).id = id => sender \in Sent(id)
           /\ Head(inbox).id = id /\ Once(id) => sender \notin Sent(id)'
<1>1. Sent(id)' \subseteq Sent(id)
    BY ReceivedPositions DEF Sent
<1>2. Once(id) => Once(id)'
  <2>. SUFFICES ASSUME Once(id),
                       NEW i \in DOMAIN inbox', NEW j \in DOMAIN inbox',
                       inbox'[i].id = id, inbox'[j].id = id,
                       inbox'[i].guid = inbox'[j].guid
                PROVE  i = j
      BY DEF Once
  <2>1. i + 1 = j + 1
      BY ReceivedPositions DEF Once
  <2>. QED
      BY <2>1, ReceivedPositions
<1>3. Head(inbox).id = id => sender \in Sent(id)
    BY ReceivedPositions DEF Sent, sender
<1>4. ASSUME Head(inbox).id = id, Once(id), sender \in Sent(id)' PROVE FALSE
  <2>1. PICK i \in DOMAIN inbox' : inbox'[i].id = id /\ inbox'[i].guid = sender
      BY <1>4 DEF Sent
  <2>2. i + 1 = 1
      BY <1>4, <2>1, ReceivedPositions DEF Once, sender
  <2>. QED
      BY <2>1, <2>2, ReceivedPositions
<1>. QED
    BY <1>1, <1>2, <1>3, <1>4

LEMMA SentPosted ==
    ASSUME inbox \in Seq(Packet), NEW packet \in Packet, Post(packet), NEW id
    PROVE  /\ Sent(id)' \subseteq Sent(id) \cup {packet.guid}
           /\ packet.id # id => Sent(id)' \subseteq Sent(id)
           /\ Once(id) /\ (packet.id = id => packet.guid \notin Sent(id)) => Once(id)'
<1>1. \A i \in DOMAIN inbox' : \/ i \in DOMAIN inbox /\ inbox'[i] = inbox[i]
                               \/ i = Len(inbox) + 1 /\ inbox'[i] = packet
    BY AppendProperties DEF Post
<1>2. /\ Sent(id)' \subseteq Sent(id) \cup {packet.guid}
      /\ packet.id # id => Sent(id)' \subseteq Sent(id)
    BY <1>1 DEF Sent
<1>3. ASSUME Once(id), packet.id = id => packet.guid \notin Sent(id)
      PROVE  Once(id)'
    BY <1>1, <1>3 DEF Once, Sent
<1>. QED
    BY <1>2, <1>3

-----------------------------------------------------------------------------
(* Steps that leave the players and the state of the game alone.           *)

\* Nobody stops defending.
DefendersStay == \A g \in Guids : m_isDefending[g] => m_isDefending'[g]

LEMMA SameDefenders == ASSUME UNCHANGED m_isDefending PROVE DefendersStay
BY DEF DefendersStay

\* What most steps have in common: no part of the invariant is about what
\* they change.
QuietStep ==
    /\ UNCHANGED <<g_networkState, m_players, playersIDs, m_number, m_class,
                   m_status, m_health, launched, ready>>
    /\ mainPc' = "publish" => g_networkState = "NS_PendingStart"
    /\ g_networkState \in BeforeGame =>
           UNCHANGED yourTurn /\ mainPc' \in {"poll", "publish"}
    /\ packetPc' = "announce" => UNCHANGED <<packetPc, winner>>
    /\ inbox' = inbox \/ Received
    /\ DefendersStay

LEMMA QuietKeeps ==
    ASSUME SafeInv, TypeInv', QuietStep
    PROVE  SafeInv'
<1>. USE DEF SafeInv, QuietStep
<1>1. inbox \in Seq(Packet)
    BY DEF TypeInv, TypeOK
<1>2. \A id : Sent(id)' \subseteq Sent(id) /\ (Once(id) => Once(id)')
    BY <1>1, SentReceived DEF Sent, Once
<1>3. SlotGuids' = SlotGuids
    BY DEF SlotGuids
<1>4. NumberIsSlot' /\ HealthMatchesStatus' /\ WinnerAtTheEnd'
    BY DEF NumberIsSlot, HealthMatchesStatus, WinnerAtTheEnd
<1>5. NewcomersAreNew'
    BY <1>2, <1>3 DEF NewcomersAreNew
<1>6. ReadyOnce'
    BY <1>2 DEF ReadyOnce
<1>7. WinnerStands'
    BY DEF WinnerStands, ConnectedSlots
<1>8. LobbyIsPeaceful'
    BY <1>2 DEF LobbyIsPeaceful
<1>9. PublishOnce'
    BY DEF PublishOnce
<1>. QED
    BY <1>4, <1>5, <1>6, <1>7, <1>8, <1>9

\* The steps of main, all of them but the two that change g_networkState.
LEMMA MainQuiet ==
    ASSUME SafeInv, Main
    PROVE  MainInit \/ MainPublish \/ QuietStep
<1>. USE DEF SafeInv, QuietStep, PublishOnce, LobbyIsPeaceful, BeforeGame,
             MainStep, playerVars, packetVars, clientVars
<1>1. CASE MainInit \/ MainPublish
    BY <1>1
<1>2. CASE MainListen \/ MainPoll \/ MainNoTurn \/ MainNextTurn \/ MainClear
    BY <1>2, SameDefenders DEF MainListen, MainPoll, MainNoTurn, MainNextTurn, MainClear
<1>3. CASE MainPick
    BY <1>3, SameDefenders DEF MainPick, GetPlayers, Abort
<1>4. CASE MainBroadcast
    BY <1>4, SameDefenders DEF MainBroadcast, GetPlayerStats, GetPlayers, Characters, Abort
<1>5. CASE MainYourTurn
    BY <1>5, SameDefenders DEF MainYourTurn, YourTurn, GetPlayers, Abort
<1>. QED
    BY <1>1, <1>2, <1>3, <1>4, <1>5 DEF Main

LEMMA MainKeeps ==
    ASSUME SafeInv, TypeInv', Main
    PROVE  SafeInv'
<1>1. CASE MainInit \/ MainPublish
  <2>. USE <1>1 DEF SafeInv, MainInit, MainPublish, MainStep, playerVars,
                    packetVars, clientVars
  <2>1. /\ UNCHANGED <<playerVars, packetVars, clientVars, inbox>>
        /\ g_networkState \in BeforeGame /\ g_networkState' \in BeforeGame
        /\ mainPc' = "poll"
      BY DEF PublishOnce, BeforeGame
  <2>2. NumberIsSlot' /\ HealthMatchesStatus'
      BY DEF NumberIsSlot, HealthMatchesStatus
  <2>3. NewcomersAreNew' /\ ReadyOnce'
      BY DEF NewcomersAreNew, ReadyOnce, Sent, Once, SlotGuids
  <2>4. LobbyIsPeaceful'
      BY <2>1 DEF LobbyIsPeaceful, Sent
  <2>5. WinnerStands' /\ WinnerAtTheEnd'
      BY <2>1 DEF WinnerStands, WinnerAtTheEnd, BeforeGame
  <2>. QED
      BY <2>1, <2>2, <2>3, <2>4, <2>5 DEF PublishOnce
<1>. QED
    BY <1>1, MainQuiet, QuietKeeps

-----------------------------------------------------------------------------
(* The clients and RakNet.                                                 *)

LEMMA EnvironmentKeeps ==
    ASSUME SafeInv, TypeInv', Environment
    PROVE  SafeInv'
<1>. SUFFICES ASSUME NEW g \in Guids,
                     Connect(g) \/ ChooseClass(g) \/ Act(g) \/ Lose(g)
              PROVE  SafeInv'
    BY DEF Environment
<1>1. UNCHANGED serverVars
    BY Zenon DEF Connect, ChooseClass, Act, Lose
<1>2. inbox \in Seq(Packet)
    BY DEF SafeInv, TypeInv, TypeOK
<1>. USE DEF SafeInv, serverVars, playerVars, packetVars
<1>3. NumberIsSlot' /\ HealthMatchesStatus' /\ WinnerAtTheEnd' /\ WinnerStands' /\ PublishOnce'
    BY <1>1 DEF NumberIsSlot, HealthMatchesStatus, WinnerAtTheEnd, WinnerStands,
                PublishOnce, ConnectedSlots
<1>4. SlotGuids' = SlotGuids
    BY <1>1 DEF SlotGuids
<1>5. CASE Connect(g)
  <2>1. /\ g \notin launched
        /\ launched' = launched \cup {g}
        /\ UNCHANGED <<ready, yourTurn>>
        /\ \/ Post([id |-> "NEW_INCOMING_CONNECTION", guid |-> g])
           \/ UNCHANGED inbox
      BY <1>5, Zenon DEF Connect
  <2>2. CASE UNCHANGED inbox
    <3>0. \A id : Sent(id)' = Sent(id) /\ Once(id)' = Once(id)
        BY <2>2 DEF Sent, Once
    <3>1. NewcomersAreNew'
        BY <1>1, <1>4, <2>1, <3>0 DEF NewcomersAreNew
    <3>2. ReadyOnce' /\ LobbyIsPeaceful'
        BY <1>1, <2>1, <3>0 DEF ReadyOnce, LobbyIsPeaceful
    <3>. QED
        BY <1>3, <3>1, <3>2
  <2>3. CASE Post([id |-> "NEW_INCOMING_CONNECTION", guid |-> g])
    <3>. DEFINE packet == [id |-> "NEW_INCOMING_CONNECTION", guid |-> g]
    <3>1. packet \in Packet
        BY DEF Packet
    <3>2. /\ packet.id = "NEW_INCOMING_CONNECTION" /\ packet.guid = g
          /\ packet.id # "LOBBY_READY" /\ packet.id \notin TurnPackets
        BY DEF TurnPackets
    <3>. HIDE DEF packet
    <3>3. NewcomersAreNew'
      <4>1. g \notin m_players \cup SlotGuids
          BY <2>1, GuidsAssumption DEF NewcomersAreNew
      <4>2. Sent("NEW_INCOMING_CONNECTION")'
                \subseteq Sent("NEW_INCOMING_CONNECTION") \cup {g}
          BY <1>2, <2>3, <3>1, <3>2, SentPosted DEF packet
      <4>3. Once("NEW_INCOMING_CONNECTION")'
        <5>1. g \notin Sent("NEW_INCOMING_CONNECTION")
            BY <2>1 DEF NewcomersAreNew
        <5>. QED
            BY <1>2, <2>3, <3>1, <3>2, <5>1, SentPosted DEF packet, NewcomersAreNew
      <4>. QED
          BY <1>1, <1>4, <2>1, <4>1, <4>2, <4>3 DEF NewcomersAreNew
    <3>4. \A id : id # packet.id => Sent(id)' \subseteq Sent(id) /\ (Once(id) => Once(id)')
        BY <1>2, <2>3, <3>1, SentPosted DEF packet
    <3>5. ReadyOnce' /\ LobbyIsPeaceful'
        BY <1>1, <2>1, <3>2, <3>4 DEF ReadyOnce, LobbyIsPeaceful
    <3>. QED
        BY <1>3, <3>3, <3>5
  <2>. QED
      BY <2>1, <2>2, <2>3
<1>6. CASE ChooseClass(g)
  <2>. DEFINE packet(class) == [id |-> "LOBBY_READY", guid |-> g, class |-> class]
  <2>1. PICK class \in Classes : Post(packet(class))
      BY <1>6 DEF ChooseClass
  <2>2. g \notin ready /\ ready' = ready \cup {g} /\ UNCHANGED <<launched, yourTurn>>
      BY <1>6 DEF ChooseClass
  <2>3. /\ packet(class) \in Packet
        /\ packet(class).id = "LOBBY_READY" /\ packet(class).guid = g
      BY DEF Packet
  <2>. HIDE DEF packet
  <2>4. /\ Sent("LOBBY_READY")' \subseteq Sent("LOBBY_READY") \cup {g}
        /\ \A id : id # "LOBBY_READY" =>
                Sent(id)' \subseteq Sent(id) /\ (Once(id) => Once(id)')
      BY <1>2, <2>1, <2>3, SentPosted
  <2>5. ReadyOnce'
    <3>1. g \notin Sent("LOBBY_READY") /\ m_class[g] = NoClass
        BY <2>2 DEF ReadyOnce
    <3>2. Once("LOBBY_READY")'
        BY <1>2, <2>1, <2>3, <3>1, SentPosted DEF ReadyOnce
    <3>. QED
        BY <1>1, <2>2, <2>4, <3>1, <3>2 DEF ReadyOnce
  <2>6. NewcomersAreNew'
      BY <1>1, <1>4, <2>2, <2>4 DEF NewcomersAreNew
  <2>7. LobbyIsPeaceful'
      BY <1>1, <2>2, <2>4 DEF LobbyIsPeaceful, TurnPackets
  <2>. QED
      BY <1>3, <2>5, <2>6, <2>7
<1>7. CASE Act(g)
  <2>1. PICK packet \in Packet : Post(packet) /\ packet.id \in TurnPackets
    <3>1. \A t \in Head(yourTurn[g]) :
              [id |-> "PLAYER_ATTACK", guid |-> g, target |-> t] \in Packet
      <4>1. Head(yourTurn[g]) \in SUBSET Slots
          BY <1>7, HeadTailProperties DEF Act, TypeInv, TypeOK
      <4>. QED
          BY <4>1 DEF Packet
    <3>2. CASE \E t \in Head(yourTurn[g]) :
                   Post([id |-> "PLAYER_ATTACK", guid |-> g, target |-> t])
        BY <3>1, <3>2 DEF TurnPackets
    <3>3. CASE Post([id |-> "PLAYER_DEFEND", guid |-> g])
        BY <3>3 DEF Packet, TurnPackets
    <3>4. CASE Post([id |-> "PLAYER_HEAL", guid |-> g])
        BY <3>4 DEF Packet, TurnPackets
    <3>. QED
        BY <1>7, <3>2, <3>3, <3>4 DEF Act
  <2>2. yourTurn[g] # << >> /\ UNCHANGED <<launched, ready>>
      BY <1>7 DEF Act
  <2>3. \A id \in {"NEW_INCOMING_CONNECTION", "LOBBY_READY"} :
            Sent(id)' \subseteq Sent(id) /\ (Once(id) => Once(id)')
      BY <1>2, <2>1, SentPosted DEF TurnPackets
  <2>4. NewcomersAreNew' /\ ReadyOnce'
      BY <1>1, <1>4, <2>2, <2>3 DEF NewcomersAreNew, ReadyOnce
  <2>5. LobbyIsPeaceful'
      BY <1>1, <2>2 DEF LobbyIsPeaceful
  <2>. QED
      BY <1>3, <2>4, <2>5
<1>8. CASE Lose(g)
  <2>. DEFINE packet == [id |-> "CONNECTION_LOST", guid |-> g]
  <2>1. /\ Post(packet)
        /\ yourTurn' = [yourTurn EXCEPT ![g] = << >>]
        /\ UNCHANGED <<launched, ready>>
      BY <1>8 DEF Lose
  <2>2. packet \in Packet /\ packet.id = "CONNECTION_LOST"
      BY DEF Packet
  <2>. HIDE DEF packet
  <2>3. \A id : id # "CONNECTION_LOST" =>
            Sent(id)' \subseteq Sent(id) /\ (Once(id) => Once(id)')
      BY <1>2, <2>1, <2>2, SentPosted
  <2>4. NewcomersAreNew' /\ ReadyOnce'
      BY <1>1, <1>4, <2>1, <2>3 DEF NewcomersAreNew, ReadyOnce
  <2>5. yourTurn \in [Guids -> Seq(SUBSET Slots)]
      BY DEF TypeInv, TypeOK
  <2>6. LobbyIsPeaceful'
      BY <1>1, <2>1, <2>3, <2>5 DEF LobbyIsPeaceful, TurnPackets
  <2>. QED
      BY <1>3, <2>4, <2>6
<1>. QED
    BY <1>5, <1>6, <1>7, <1>8

-----------------------------------------------------------------------------
(* The handlers of packets.                                                *)

LEMMA ReceiveIsReceived ==
    ASSUME SafeInv, NEW id, Receive(id)
    PROVE  /\ Received
           /\ packetPc = "receive"
           /\ Head(inbox).id = id
           /\ sender \in Guids
           /\ \A other : /\ Sent(other)' \subseteq Sent(other)
                         /\ Once(other) => Once(other)'
<1>1. inbox \in Seq(Packet)
    BY DEF SafeInv, TypeInv, TypeOK
<1>2. Received
    BY DEF Receive, Received
<1>3. sender \in Guids
    BY PacketTyped DEF SafeInv, TypeInv
<1>. QED
    BY <1>1, <1>2, <1>3, SentReceived DEF Receive

\* A failed assertion and the like change nothing.
LEMMA AbortQuiet ==
    ASSUME SafeInv, NEW why, Abort(why), inbox' = inbox \/ Received
    PROVE  QuietStep
BY SameDefenders DEF SafeInv, PublishOnce, LobbyIsPeaceful, QuietStep, Abort,
                     playerVars, packetVars, clientVars

LEMMA PacketQuiet ==
    ASSUME SafeInv, \/ CompareTurn \/ TransferTurn \/ GameGoesOn \/ ScanFails
                    \/ NoWinner \/ StartTurn
    PROVE  QuietStep
<1>. USE DEF SafeInv, PublishOnce, LobbyIsPeaceful
<1>1. CASE ScanFails
    BY <1>1, AbortQuiet DEF ScanFails
<1>2. CASE NoWinner
    BY <1>2, AbortQuiet DEF NoWinner
<1>3. CASE CompareTurn \/ TransferTurn \/ GameGoesOn \/ StartTurn
    BY <1>3, SameDefenders DEF CompareTurn, TransferTurn, GameGoesOn, StartTurn,
                               PacketStep, ReturnPc, QuietStep, playerVars, clientVars
<1>. QED
    BY <1>1, <1>2, <1>3

\* Nobody who has left the game comes back to it: the step NobodyComesBack is
\* about.
NobodyReturns ==
    /\ \A g \in m_players :
         /\ m_status[g] # "PS_Connected"
                => m_health'[g] >= m_health[g] /\ (m_isDefending[g] => m_isDefending'[g])
         /\ m_status[g] \in {"PS_Disconnected", "PS_Winner"} => m_status'[g] = m_status[g]
         /\ m_status[g] = "PS_Dead" => m_status'[g] \in {"PS_Dead", "PS_Disconnected"}
    /\ g_networkState = "NS_GameOver" => g_networkState' = "NS_GameOver"

\* A step that leaves the statuses, the health and the state alone.
LEMMA SameReturns ==
    ASSUME TypeInv, UNCHANGED <<m_status, m_health>>, DefendersStay,
           g_networkState = "NS_GameOver" => g_networkState' = "NS_GameOver"
    PROVE  NobodyReturns
<1>1. \A n \in Nat : n >= n
    OBVIOUS
<1>2. \A g \in m_players : g \in Guids /\ m_health[g] \in Nat
    BY DEF TypeInv, TypeOK
<1>3. \A g \in m_players : m_health[g] >= m_health[g]
    BY <1>1, <1>2
<1>4. \A g \in m_players : m_isDefending[g] => m_isDefending'[g]
    BY <1>2 DEF DefendersStay
<1>. QED
    BY <1>3, <1>4 DEF NobodyReturns

\* A new player has a free slot or the first one, an entry of his own, and no
\* class.
LEMMA IncomingKeeps ==
    ASSUME SafeInv, TypeInv', OnIncomingConnection
    PROVE  SafeInv' /\ NobodyReturns
<1>. USE DEF SafeInv, playerVars, turnVars, packetVars, clientVars
<1>. DEFINE slot == AvailableSlot
<1>1. /\ m_players' = m_players \cup {sender}
      /\ playersIDs' = [playersIDs EXCEPT ![slot] = sender]
      /\ m_number' = [m_number EXCEPT ![sender] = slot]
      /\ m_status' = [m_status EXCEPT ![sender] = "PS_Connected"]
      /\ m_class' = [m_class EXCEPT ![sender] = NoClass]
      /\ m_health' = [m_health EXCEPT ![sender] = 0]
      /\ m_isDefending' = [m_isDefending EXCEPT ![sender] = FALSE]
      /\ UNCHANGED <<g_networkState, mainPc, packetPc, winner, launched, ready,
                     yourTurn>>
    BY DEF OnIncomingConnection
<1>2. slot \in Slots
    BY AvailableSlotTyped
<1>. HIDE DEF slot
<1>3. /\ Received /\ packetPc = "receive" /\ sender \in Guids
      /\ Head(inbox).id = "NEW_INCOMING_CONNECTION"
      /\ \A id : Sent(id)' \subseteq Sent(id) /\ (Once(id) => Once(id)')
    BY ReceiveIsReceived DEF OnIncomingConnection
<1>4. /\ sender \in Sent("NEW_INCOMING_CONNECTION")
      /\ sender \notin Sent("NEW_INCOMING_CONNECTION")'
    BY <1>3, SentReceived DEF NewcomersAreNew, TypeInv, TypeOK
<1>5. sender \in launched /\ sender \notin m_players /\ sender \notin SlotGuids
    BY <1>4 DEF NewcomersAreNew
<1>6. /\ playersIDs \in [Slots -> Guids \cup {NoGuid}]
      /\ m_number \in [Guids -> Slots \cup {0}]
      /\ m_class \in [Guids -> Classes \cup {NoClass}]
      /\ m_status \in [Guids -> SPlayerStatus]
      /\ m_health \in [Guids -> Nat]
      /\ m_players \subseteq Guids
    BY DEF TypeInv, TypeOK
<1>7. SlotGuids' \subseteq SlotGuids \cup {sender}
    BY <1>1, <1>2, <1>6 DEF SlotGuids
<1>8. NumberIsSlot'
  <2>. SUFFICES ASSUME NEW s \in Slots, playersIDs'[s] \in m_players'
                PROVE  m_number'[playersIDs'[s]] = s
      BY DEF NumberIsSlot
  <2>1. CASE s = slot
      BY <1>1, <1>2, <1>3, <1>6, <2>1
  <2>2. CASE s # slot
    <3>1. playersIDs'[s] = playersIDs[s] /\ playersIDs[s] # sender
        BY <1>1, <1>5, <1>6, <2>2 DEF SlotGuids
    <3>. QED
        BY <1>1, <1>6, <3>1 DEF NumberIsSlot
  <2>. QED
      BY <2>1, <2>2
<1>9. NewcomersAreNew'
    BY <1>1, <1>3, <1>4, <1>5, <1>7 DEF NewcomersAreNew
<1>10. ReadyOnce'
    BY <1>1, <1>3, <1>6 DEF ReadyOnce
<1>11. HealthMatchesStatus'
    BY <1>1, <1>3, <1>6 DEF HealthMatchesStatus
<1>12. WinnerStands' /\ PublishOnce'
    BY <1>1, <1>3 DEF WinnerStands, PublishOnce
<1>13. LobbyIsPeaceful'
    BY <1>1, <1>3, <1>6 DEF LobbyIsPeaceful
<1>14. WinnerAtTheEnd'
    BY <1>1, <1>3, <1>6 DEF WinnerAtTheEnd
<1>15. NobodyReturns
  <2>1. \A g \in m_players : m_status'[g] = m_status[g] /\ m_health'[g] = m_health[g]
      BY <1>1, <1>5, <1>6
  <2>2. \A g \in m_players : m_health[g] >= m_health[g]
      BY <1>6
  <2>3. \A g \in m_players : m_isDefending'[g] = m_isDefending[g]
      BY <1>1, <1>5, <1>6 DEF TypeInv, TypeOK
  <2>. QED
      BY <1>1, <2>1, <2>2, <2>3 DEF NobodyReturns
<1>. QED
    BY <1>8, <1>9, <1>10, <1>11, <1>12, <1>13, <1>14, <1>15

\* A class comes with its full health, and is chosen by a player without one.
LEMMA ReadyKeeps ==
    ASSUME SafeInv, TypeInv', OnLobbyReady
    PROVE  SafeInv' /\ NobodyReturns
<1>. USE DEF SafeInv, playerVars, turnVars, packetVars, clientVars
<1>. DEFINE class == Head(inbox).class
<1>1. /\ Received /\ packetPc = "receive" /\ sender \in Guids
      /\ Head(inbox).id = "LOBBY_READY"
      /\ \A id : Sent(id)' \subseteq Sent(id) /\ (Once(id) => Once(id)')
    BY ReceiveIsReceived DEF OnLobbyReady
<1>2. class \in Classes
    BY PacketTyped DEF OnLobbyReady, TypeInv
<1>3. AttribHealth[class] \in Nat /\ AttribHealth[class] > 0 /\ class # NoClass
    BY <1>2, AttribsAssumption, ClassesAssumption
<1>4. CASE sender \notin m_players
  <2>1. QuietStep
      BY <1>1, <1>4, AbortQuiet DEF OnLobbyReady, GetPlayer, GetPlayers
  <2>. QED
      BY <2>1, QuietKeeps, SameReturns DEF QuietStep
<1>5. CASE sender \in m_players
  <2>1. /\ m_class' = [m_class EXCEPT ![sender] = class]
        /\ m_health' = [m_health EXCEPT ![sender] = AttribHealth[class]]
        /\ CheckGameStart(m_class')
        /\ UNCHANGED <<m_players, playersIDs, m_number, m_status, m_isDefending,
                       mainPc, packetPc, winner, launched, ready, yourTurn>>
      BY <1>5 DEF OnLobbyReady, GetPlayer, GetPlayers
  <2>. HIDE DEF class
  <2>2. \/ g_networkState' = g_networkState
        \/ g_networkState = "NS_WaitingPlayers" /\ g_networkState' = "NS_GameStarted"
      BY <2>1 DEF CheckGameStart
  <2>3. /\ sender \in Sent("LOBBY_READY")
        /\ sender \notin Sent("LOBBY_READY")'
      BY <1>1, SentReceived DEF ReadyOnce, TypeInv, TypeOK
  <2>4. m_class[sender] = NoClass
      BY <1>1, <2>3 DEF ReadyOnce
  <2>5. /\ m_class \in [Guids -> Classes \cup {NoClass}]
        /\ m_health \in [Guids -> Nat]
        /\ m_players \subseteq Guids
      BY DEF TypeInv, TypeOK
  <2>6. NumberIsSlot'
      BY <2>1 DEF NumberIsSlot
  <2>7. NewcomersAreNew'
      BY <1>1, <2>1 DEF NewcomersAreNew, SlotGuids
  <2>8. ReadyOnce'
    <3>1. sender \in ready
        BY <2>3 DEF ReadyOnce
    <3>. QED
        BY <1>1, <2>1, <2>3, <2>5, <3>1 DEF ReadyOnce
  <2>9. HealthMatchesStatus'
    <3>. SUFFICES ASSUME NEW g \in m_players
                  PROVE  \/ m_class'[g] = NoClass /\ m_health'[g] = 0
                         \/ /\ m_class'[g] # NoClass
                            /\ m_health'[g] <= AttribHealth[m_class'[g]]
                            /\ m_status'[g] \in {"PS_Connected", "PS_Winner"}
                                   => m_health'[g] > 0
        BY <2>1 DEF HealthMatchesStatus
    <3>1. CASE g = sender
        BY <1>1, <1>3, <2>1, <2>5, <3>1
    <3>2. CASE g # sender
        BY <1>1, <2>1, <2>5, <3>2 DEF HealthMatchesStatus
    <3>. QED
        BY <3>1, <3>2
  <2>10. WinnerStands' /\ PublishOnce'
    <3>1. mainPc # "publish" \/ g_networkState' = g_networkState
        BY <2>2 DEF PublishOnce
    <3>. QED
        BY <1>1, <2>1, <3>1 DEF WinnerStands, PublishOnce
  <2>11. LobbyIsPeaceful'
      BY <1>1, <2>1, <2>2 DEF LobbyIsPeaceful, BeforeGame
  <2>12. WinnerAtTheEnd'
      BY <2>1, <2>2 DEF WinnerAtTheEnd
  <2>13. NobodyReturns
    <3>1. \A g \in m_players : m_health'[g] >= m_health[g]
      <4>1. m_health[sender] = 0
          BY <1>5, <2>4 DEF HealthMatchesStatus
      <4>2. \A n \in Nat : n >= n /\ n >= 0
          OBVIOUS
      <4>3. m_health'[sender] >= m_health[sender]
          BY <1>1, <1>3, <2>1, <2>5, <4>1, <4>2
      <4>. QED
          BY <1>1, <2>1, <2>5, <4>2, <4>3
    <3>. QED
        BY <2>1, <2>2, <3>1 DEF NobodyReturns
  <2>. QED
      BY <2>6, <2>7, <2>8, <2>9, <2>10, <2>11, <2>12, <2>13
<1>. QED
    BY <1>4, <1>5

\* A lost player leaves the lobby, or is out of the game.
LEMMA LostKeeps ==
    ASSUME SafeInv, TypeInv', OnLostConnection
    PROVE  SafeInv' /\ NobodyReturns
<1>. USE DEF SafeInv, playerVars, turnVars, packetVars, clientVars
<1>1. /\ Received /\ packetPc = "receive" /\ sender \in Guids
      /\ \A id : Sent(id)' \subseteq Sent(id) /\ (Once(id) => Once(id)')
    BY ReceiveIsReceived DEF OnLostConnection
<1>2. /\ playersIDs \in [Slots -> Guids \cup {NoGuid}]
      /\ m_status \in [Guids -> SPlayerStatus]
      /\ m_health \in [Guids -> Nat]
      /\ m_players \subseteq Guids
    BY DEF TypeInv, TypeOK
<1>3. CASE sender \notin m_players
  <2>1. QuietStep
      BY <1>1, <1>3, AbortQuiet DEF OnLostConnection, GetPlayer, GetPlayers
  <2>. QED
      BY <2>1, QuietKeeps, SameReturns DEF QuietStep
<1>4. CASE sender \in m_players
  <2>1. /\ UNCHANGED <<g_networkState, m_number, m_class, m_isDefending, m_health,
                       mainPc, winner, launched, ready, yourTurn>>
        /\ packetPc' \in {"isGameOver", "compare"}
        /\ \/ /\ g_networkState = "NS_WaitingPlayers"
              /\ playersIDs' = [playersIDs EXCEPT ![m_number[sender]] = NoGuid]
              /\ m_players' = m_players \ {sender}
              /\ UNCHANGED m_status
           \/ /\ g_networkState = "NS_GameStarted"
              /\ m_status' = [m_status EXCEPT ![sender] = "PS_Disconnected"]
              /\ UNCHANGED <<m_players, playersIDs>>
           \/ UNCHANGED <<m_players, playersIDs, m_status>>
      BY <1>4 DEF OnLostConnection, GetPlayer, GetPlayers
  <2>2. m_players' \subseteq m_players
      BY <2>1
  <2>3. \A s \in Slots : playersIDs'[s] = playersIDs[s] \/ playersIDs'[s] = NoGuid
      BY <1>2, <2>1
  <2>4. NumberIsSlot'
    <3>1. NoGuid \notin m_players
        BY <1>2, GuidsAssumption
    <3>. QED
        BY <2>1, <2>2, <2>3, <3>1 DEF NumberIsSlot
  <2>5. NewcomersAreNew'
    <3>1. SlotGuids' \subseteq SlotGuids \cup {NoGuid}
        BY <2>3 DEF SlotGuids
    <3>2. NoGuid \notin Sent("NEW_INCOMING_CONNECTION")'
      <4>1. launched \subseteq Guids
          BY DEF TypeInv, TypeOK
      <4>. QED
          BY <1>1, <4>1, GuidsAssumption DEF NewcomersAreNew
    <3>. QED
        BY <1>1, <2>1, <2>2, <3>1, <3>2 DEF NewcomersAreNew
  <2>6. ReadyOnce'
      BY <1>1, <2>1 DEF ReadyOnce
  <2>7. \A g \in m_players : m_status'[g] = m_status[g] \/ m_status'[g] = "PS_Disconnected"
      BY <1>2, <2>1
  <2>8. HealthMatchesStatus'
      BY <2>1, <2>2, <2>7 DEF HealthMatchesStatus
  <2>9. WinnerStands' /\ PublishOnce'
      BY <2>1 DEF WinnerStands, PublishOnce
  <2>10. LobbyIsPeaceful'
      BY <1>1, <2>1 DEF LobbyIsPeaceful, BeforeGame
  <2>11. WinnerAtTheEnd'
      BY <2>1, <2>2, <2>7 DEF WinnerAtTheEnd
  <2>12. NobodyReturns
    <3>1. \A n \in Nat : n >= n
        OBVIOUS
    <3>2. \A g \in m_players : m_health'[g] >= m_health[g]
        BY <1>2, <2>1, <3>1
    <3>3. \A g \in m_players : m_status[g] = "PS_Winner" => m_status'[g] = m_status[g]
        BY <2>1 DEF WinnerAtTheEnd, LobbyIsPeaceful, BeforeGame
    <3>. QED
        BY <2>1, <2>7, <3>2, <3>3 DEF NobodyReturns
  <2>. QED
      BY <2>4, <2>5, <2>6, <2>8, <2>9, <2>10, <2>11, <2>12
<1>. QED
    BY <1>3, <1>4

\* Before the game IsGameOver meets an empty slot or finds everybody connected.
LEMMA LobbyGoesOn ==
    ASSUME SafeInv, g_networkState \in BeforeGame, SlotGuids \subseteq m_players
    PROVE  ~LastOneStanding
<1>1. ConnectedSlots = Slots
    BY DEF ConnectedSlots, SlotGuids, SafeInv, LobbyIsPeaceful
<1>2. Cardinality(Slots) = MAX_CONNECTIONS
    BY FS_Interval, ConnectionsAssumption DEF Slots
<1>. QED
    BY <1>1, <1>2, ConnectionsAssumption DEF LastOneStanding

\* The game ends once: the winner is the last of those still in it.
LEMMA OverKeeps ==
    ASSUME SafeInv, TypeInv', GameIsOver
    PROVE  SafeInv' /\ NobodyReturns
<1>. USE DEF SafeInv, playerVars, turnVars, packetVars, clientVars
<1>1. /\ UNCHANGED <<m_players, playersIDs, m_number, m_class, m_status, m_health,
                     mainPc, launched, ready, yourTurn, inbox>>
      /\ g_networkState' = "NS_GameOver"
      /\ winner' = IF ConnectedSlots = {} THEN 0
                   ELSE m_number[playersIDs[Greatest(ConnectedSlots)]]
      /\ SlotGuids \subseteq m_players
      /\ LastOneStanding
      /\ DefendersStay
    BY SameDefenders DEF GameIsOver, PacketStep
<1>2. g_networkState \notin BeforeGame
    BY <1>1, LobbyGoesOn
<1>3. NumberIsSlot' /\ HealthMatchesStatus' /\ WinnerAtTheEnd'
    BY <1>1 DEF NumberIsSlot, HealthMatchesStatus, WinnerAtTheEnd
<1>4. NewcomersAreNew' /\ ReadyOnce'
    BY <1>1 DEF NewcomersAreNew, ReadyOnce, Sent, Once, SlotGuids
<1>5. LobbyIsPeaceful' /\ PublishOnce'
    BY <1>1, <1>2 DEF LobbyIsPeaceful, PublishOnce, BeforeGame
<1>6. WinnerStands'
  <2>1. ConnectedSlots' = ConnectedSlots
      BY <1>1 DEF ConnectedSlots
  <2>2. CASE ConnectedSlots # {}
    <3>1. Greatest(ConnectedSlots) \in ConnectedSlots
        BY <2>2, GreatestIsMember DEF ConnectedSlots
    <3>2. winner' = Greatest(ConnectedSlots)
        BY <1>1, <2>2, <3>1 DEF NumberIsSlot, ConnectedSlots
    <3>. QED
        BY <1>1, <2>1, <3>1, <3>2 DEF WinnerStands
  <2>. QED
      BY <1>1, <2>2 DEF WinnerStands
<1>. QED
    BY <1>1, <1>3, <1>4, <1>5, <1>6, SameReturns

LEMMA AnnounceKeeps ==
    ASSUME SafeInv, TypeInv', AnnounceWinner
    PROVE  SafeInv' /\ NobodyReturns
<1>. USE DEF SafeInv, playerVars, turnVars, packetVars, clientVars
<1>1. CASE \E why : Abort(why)
  <2>1. QuietStep
      BY <1>1, AbortQuiet DEF AnnounceWinner
  <2>. QED
      BY <2>1, QuietKeeps, SameReturns DEF QuietStep
<1>2. CASE ~ \E why : Abort(why)
  <2>1. /\ m_status' = [m_status EXCEPT ![playersIDs[winner]] = "PS_Winner"]
        /\ packetPc' \in {"receive", "startTurn"}
        /\ UNCHANGED <<g_networkState, m_players, playersIDs, m_number, m_class,
                       m_isDefending, m_health, mainPc, launched, ready, yourTurn, inbox>>
      BY <1>2 DEF AnnounceWinner, GetPlayerStats, GetPlayers, Characters, ReturnPc
  <2>2. g_networkState = "NS_GameOver" /\ winner \in ConnectedSlots
      BY DEF AnnounceWinner, WinnerStands
  <2>3. /\ m_status \in [Guids -> SPlayerStatus]
        /\ m_health \in [Guids -> Nat]
        /\ m_players \subseteq Guids
      BY DEF TypeInv, TypeOK
  <2>4. NumberIsSlot'
      BY <2>1 DEF NumberIsSlot
  <2>5. NewcomersAreNew' /\ ReadyOnce'
      BY <2>1 DEF NewcomersAreNew, ReadyOnce, Sent, Once, SlotGuids
  <2>6. HealthMatchesStatus'
      BY <2>1, <2>2, <2>3 DEF HealthMatchesStatus, ConnectedSlots
  <2>7. WinnerStands' /\ PublishOnce' /\ LobbyIsPeaceful' /\ WinnerAtTheEnd'
      BY <2>1, <2>2 DEF WinnerStands, PublishOnce, LobbyIsPeaceful, BeforeGame,
                        WinnerAtTheEnd
  <2>8. NobodyReturns
    <3>1. \A n \in Nat : n >= n
        OBVIOUS
    <3>2. \A g \in m_players : m_health'[g] >= m_health[g]
        BY <2>1, <2>3, <3>1
    <3>3. \A g \in m_players : m_status'[g] = m_status[g]
                               \/ m_status[g] = "PS_Connected"
        BY <2>1, <2>2, <2>3 DEF ConnectedSlots
    <3>. QED
        BY <2>1, <3>2, <3>3 DEF NobodyReturns
  <2>. QED
      BY <2>4, <2>5, <2>6, <2>7, <2>8
<1>. QED
    BY <1>1, <1>2

\* A blow strikes a player who is in the game, and leaves him alive or out.
LEMMA AttackKeeps ==
    ASSUME SafeInv, TypeInv', ResolveAttack
    PROVE  SafeInv' /\ NobodyReturns
<1>. USE DEF SafeInv, playerVars, turnVars, packetVars, clientVars
<1>. DEFINE target == playersIDs[Head(inbox).target]
<1>1. /\ Received /\ packetPc = "receive" /\ sender \in Guids
      /\ Head(inbox).id = "PLAYER_ATTACK"
      /\ \A id : Sent(id)' \subseteq Sent(id) /\ (Once(id) => Once(id)')
    BY ReceiveIsReceived DEF ResolveAttack
<1>2. g_networkState \notin BeforeGame
  <2>1. sender \in Sent("PLAYER_ATTACK")
      BY <1>1, SentReceived DEF TypeInv, TypeOK
  <2>. QED
      BY <2>1 DEF LobbyIsPeaceful, TurnPackets
<1>3. CASE \E why : Abort(why)
  <2>1. QuietStep
      BY <1>1, <1>3, AbortQuiet
  <2>. QED
      BY <2>1, QuietKeeps, SameReturns DEF QuietStep
<1>4. CASE /\ packetPc' = "startTurn"
           /\ UNCHANGED <<g_networkState, playerVars, turnVars, mainPc,
                          lostPlayer, winner, failure, clientVars>>
  <2>1. QuietStep
      BY <1>1, <1>2, <1>4, SameDefenders DEF QuietStep, PublishOnce
  <2>. QED
      BY <2>1, QuietKeeps, SameReturns DEF QuietStep
<1>5. ASSUME NEW roll \in DieFaces, Strike(target, roll), target \in m_players,
             m_status[target] = "PS_Connected", m_class[target] # NoClass,
             Hits(roll, target) => m_class[sender] # NoClass
      PROVE  SafeInv' /\ NobodyReturns
  <2>. DEFINE left == IF Hits(roll, target)
                      THEN Wounded(m_health[target], AttribDamage[m_class[sender]])
                      ELSE m_health[target]
  <2>. HIDE DEF target
  <2>1. /\ m_health' = [m_health EXCEPT ![target] = left]
        /\ m_status' = [m_status EXCEPT ![target] =
                            IF Hits(roll, target) /\ left = 0 THEN "PS_Dead" ELSE @]
        /\ m_isDefending' = [m_isDefending EXCEPT ![target] = FALSE]
        /\ packetPc' = "isGameOver"
        /\ UNCHANGED <<g_networkState, m_players, playersIDs, m_number, m_class,
                       mainPc, winner, launched, ready, yourTurn>>
      BY <1>5 DEF Strike
  <2>2. /\ m_class \in [Guids -> Classes \cup {NoClass}]
        /\ m_status \in [Guids -> SPlayerStatus]
        /\ m_health \in [Guids -> Nat]
        /\ m_players \subseteq Guids
      BY DEF TypeInv, TypeOK
  <2>3. /\ m_health[target] \in Nat
        /\ m_health[target] > 0
        /\ m_health[target] <= AttribHealth[m_class[target]]
        /\ AttribHealth[m_class[target]] \in Nat
      BY <1>5, <2>2, AttribsAssumption DEF HealthMatchesStatus
  <2>4. left \in Nat /\ left <= m_health[target]
    <3>1. Hits(roll, target) => AttribDamage[m_class[sender]] \in Nat
        BY <1>1, <1>5, <2>2, AttribsAssumption
    <3>. QED
        BY <2>3, <3>1 DEF Wounded
  <2>5. left <= AttribHealth[m_class[target]] /\ (left = 0 => Hits(roll, target))
      BY <2>3, <2>4
  <2>. HIDE DEF left
  <2>6. NumberIsSlot'
      BY <2>1 DEF NumberIsSlot
  <2>7. NewcomersAreNew' /\ ReadyOnce'
      BY <1>1, <2>1 DEF NewcomersAreNew, ReadyOnce, SlotGuids
  <2>8. HealthMatchesStatus'
    <3>. SUFFICES ASSUME NEW g \in m_players
                  PROVE  \/ m_class'[g] = NoClass /\ m_health'[g] = 0
                         \/ /\ m_class'[g] # NoClass
                            /\ m_health'[g] <= AttribHealth[m_class'[g]]
                            /\ m_status'[g] \in {"PS_Connected", "PS_Winner"}
                                   => m_health'[g] > 0
        BY <2>1 DEF HealthMatchesStatus
    <3>1. CASE g = target
        BY <1>5, <2>1, <2>2, <2>4, <2>5, <3>1
    <3>2. CASE g # target
        BY <1>5, <2>1, <2>2, <3>2 DEF HealthMatchesStatus
    <3>. QED
        BY <3>1, <3>2
  <2>9. WinnerStands' /\ PublishOnce' /\ LobbyIsPeaceful'
      BY <1>2, <2>1 DEF WinnerStands, PublishOnce, LobbyIsPeaceful
  <2>10. \A g \in m_players :
             \/ m_status'[g] = m_status[g] /\ m_health'[g] = m_health[g]
             \/ /\ m_status[g] = "PS_Connected"
                /\ m_status'[g] \in {"PS_Connected", "PS_Dead"}
      BY <1>5, <2>1, <2>2
  <2>11. WinnerAtTheEnd'
      BY <2>1, <2>10 DEF WinnerAtTheEnd
  <2>12. NobodyReturns
    <3>1. \A n \in Nat : n >= n
        OBVIOUS
    <3>2. \A g \in m_players : m_health[g] >= m_health[g]
        BY <2>2, <3>1
    <3>3. \A g \in m_players : g # target => m_isDefending'[g] = m_isDefending[g]
        BY <2>1, <2>2 DEF TypeInv, TypeOK
    <3>. QED
        BY <1>5, <2>1, <2>10, <3>2, <3>3 DEF NobodyReturns
  <2>. QED
      BY <2>6, <2>7, <2>8, <2>9, <2>11, <2>12
<1>. QED
    BY <1>3, <1>4, <1>5 DEF ResolveAttack, GetPlayers, Characters

LEMMA DefendKeeps ==
    ASSUME SafeInv, TypeInv', ResolveDefend
    PROVE  SafeInv' /\ NobodyReturns
<1>. USE DEF SafeInv, playerVars, turnVars, packetVars, clientVars
<1>1. Received /\ packetPc = "receive"
    BY ReceiveIsReceived DEF ResolveDefend
<1>2. QuietStep
  <2>1. CASE \E why : Abort(why)
      BY <1>1, <2>1, AbortQuiet
  <2>2. CASE ~ \E why : Abort(why)
    <3>1. m_isDefending' = [m_isDefending EXCEPT ![sender] = TRUE]
        BY <2>2 DEF ResolveDefend, GetPlayer, GetPlayers
    <3>2. m_isDefending \in [Guids -> BOOLEAN]
        BY DEF TypeInv, TypeOK
    <3>3. DefendersStay
        BY <3>1, <3>2, Zenon DEF DefendersStay
    <3>. QED
        BY <1>1, <2>2, <3>3 DEF ResolveDefend, GetPlayer, GetPlayers, QuietStep,
                                PublishOnce, LobbyIsPeaceful
  <2>. QED
      BY <2>1, <2>2
<1>. QED
    BY <1>2, QuietKeeps, SameReturns DEF QuietStep

LEMMA HealKeeps ==
    ASSUME SafeInv, TypeInv', ResolveHeal
    PROVE  SafeInv' /\ NobodyReturns
<1>. USE DEF SafeInv, playerVars, turnVars, packetVars, clientVars
<1>1. /\ Received /\ packetPc = "receive" /\ sender \in Guids
      /\ Head(inbox).id = "PLAYER_HEAL"
      /\ \A id : Sent(id)' \subseteq Sent(id) /\ (Once(id) => Once(id)')
    BY ReceiveIsReceived DEF ResolveHeal
<1>2. CASE \E why : Abort(why)
  <2>1. QuietStep
      BY <1>1, <1>2, AbortQuiet
  <2>. QED
      BY <2>1, QuietKeeps, SameReturns DEF QuietStep
<1>3. ASSUME NEW roll \in DieFaces, m_class[sender] # NoClass,
             m_health' = [m_health EXCEPT ![sender] =
                              Healed(m_class[sender], @, roll)],
             packetPc' = "startTurn",
             UNCHANGED <<g_networkState, m_players, playersIDs, m_number,
                         m_class, m_status, m_isDefending, turnVars, mainPc,
                         lostPlayer, winner, failure, clientVars>>
      PROVE  SafeInv' /\ NobodyReturns
  <2>. DEFINE healed == Healed(m_class[sender], m_health[sender], roll)
  <2>1. /\ m_class \in [Guids -> Classes \cup {NoClass}]
        /\ m_health \in [Guids -> Nat]
        /\ m_players \subseteq Guids
      BY DEF TypeInv, TypeOK
  <2>2. /\ healed \in Nat
        /\ healed >= m_health[sender]
        /\ m_health[sender] <= AttribHealth[m_class[sender]]
               => healed <= AttribHealth[m_class[sender]]
      BY <1>1, <1>3, <2>1, HealedTyped, DiceAssumption
  <2>3. m_health' = [m_health EXCEPT ![sender] = healed]
      BY <1>3
  <2>. HIDE DEF healed
  <2>4. NumberIsSlot'
      BY <1>3 DEF NumberIsSlot
  <2>5. NewcomersAreNew' /\ ReadyOnce'
      BY <1>1, <1>3 DEF NewcomersAreNew, ReadyOnce, SlotGuids
  <2>6. HealthMatchesStatus'
    <3>. SUFFICES ASSUME NEW g \in m_players
                  PROVE  \/ m_class'[g] = NoClass /\ m_health'[g] = 0
                         \/ /\ m_class'[g] # NoClass
                            /\ m_health'[g] <= AttribHealth[m_class'[g]]
                            /\ m_status'[g] \in {"PS_Connected", "PS_Winner"}
                                   => m_health'[g] > 0
        BY <1>3 DEF HealthMatchesStatus
    <3>1. CASE g = sender
      <4>1. m_health[g] \in Nat /\ healed \in Nat /\ healed >= m_health[g]
          BY <1>1, <2>1, <2>2, <3>1
      <4>2. m_health[g] > 0 => healed > 0
          BY <4>1
      <4>. QED
          BY <1>1, <1>3, <2>1, <2>2, <2>3, <3>1, <4>2 DEF HealthMatchesStatus
    <3>2. CASE g # sender
        BY <1>3, <2>1, <2>3, <3>2 DEF HealthMatchesStatus
    <3>. QED
        BY <3>1, <3>2
  <2>7. WinnerStands' /\ PublishOnce' /\ LobbyIsPeaceful' /\ WinnerAtTheEnd'
      BY <1>1, <1>3 DEF WinnerStands, PublishOnce, LobbyIsPeaceful, WinnerAtTheEnd
  <2>8. NobodyReturns
    <3>1. \A n \in Nat : n >= n
        OBVIOUS
    <3>2. \A g \in m_players : m_health'[g] >= m_health[g]
        BY <1>1, <2>1, <2>2, <2>3, <3>1
    <3>. QED
        BY <1>3, <3>2 DEF NobodyReturns
  <2>. QED
      BY <2>4, <2>5, <2>6, <2>7, <2>8
<1>. QED
    BY <1>1, <1>2, <1>3 DEF ResolveHeal, GetPlayer, GetPlayers, Characters

-----------------------------------------------------------------------------
(* The invariant, and what it is for.                                      *)

LEMMA SafeInit == Init => SafeInv
<1>. SUFFICES ASSUME Init PROVE SafeInv
    OBVIOUS
<1>. USE DEF Init
<1>1. TypeInv
    BY TypeInit
<1>2. DOMAIN inbox = {}
    BY EmptySeq
<1>3. \A id : Sent(id) = {} /\ Once(id)
    BY <1>2 DEF Sent, Once
<1>4. SlotGuids \subseteq {NoGuid}
    BY DEF SlotGuids
<1>5. NumberIsSlot /\ HealthMatchesStatus /\ WinnerAtTheEnd
    BY DEF NumberIsSlot, HealthMatchesStatus, WinnerAtTheEnd
<1>6. NewcomersAreNew /\ ReadyOnce
    BY <1>3, <1>4 DEF NewcomersAreNew, ReadyOnce
<1>7. WinnerStands /\ LobbyIsPeaceful /\ PublishOnce
    BY <1>3 DEF WinnerStands, LobbyIsPeaceful, PublishOnce
<1>. QED
    BY <1>1, <1>5, <1>6, <1>7 DEF SafeInv

LEMMA SafeNext == SafeInv /\ [Next]_vars => SafeInv' /\ [NobodyReturns]_vars
<1>. SUFFICES ASSUME SafeInv, [Next]_vars PROVE SafeInv' /\ [NobodyReturns]_vars
    OBVIOUS
<1>1. TypeInv' /\ TypeInv
    BY TypeNext DEF SafeInv
<1>2. CASE UNCHANGED vars
  <2>1. QuietStep
      BY <1>2, SameDefenders DEF QuietStep, SafeInv, PublishOnce, LobbyIsPeaceful, vars,
                                 playerVars, packetVars, clientVars
  <2>. QED
      BY <1>1, <1>2, <2>1, QuietKeeps
<1>3. CASE Main
  <2>1. UNCHANGED <<m_status, m_health>> /\ DefendersStay
    <3>1. QuietStep => UNCHANGED <<m_status, m_health>> /\ DefendersStay
        BY DEF QuietStep
    <3>2. MainInit \/ MainPublish => UNCHANGED <<m_status, m_health>> /\ DefendersStay
        BY SameDefenders DEF MainInit, MainPublish, playerVars
    <3>. QED
        BY <1>3, <3>1, <3>2, MainQuiet
  <2>2. g_networkState = "NS_GameOver" => g_networkState' = "NS_GameOver"
    <3>1. QuietStep => UNCHANGED g_networkState
        BY DEF QuietStep
    <3>2. ASSUME MainInit \/ MainPublish PROVE g_networkState # "NS_GameOver"
        BY <3>2 DEF MainInit, MainPublish, MainStep, SafeInv, PublishOnce
    <3>. QED
        BY <1>3, <3>1, <3>2, MainQuiet
  <2>. QED
      BY <1>1, <1>3, <2>1, <2>2, MainKeeps, SameReturns
<1>4. CASE Environment
  <2>1. UNCHANGED serverVars
      BY <1>4, Zenon DEF Environment, Connect, ChooseClass, Act, Lose
  <2>2. NobodyReturns
      BY <1>1, <2>1, SameReturns, SameDefenders DEF serverVars, playerVars
  <2>. QED
      BY <1>1, <1>4, <2>2, EnvironmentKeeps
<1>5. CASE PacketThread
  <2>1. CASE \/ CompareTurn \/ TransferTurn \/ GameGoesOn \/ ScanFails
             \/ NoWinner \/ StartTurn
    <3>1. QuietStep
        BY <2>1, PacketQuiet
    <3>. QED
        BY <1>1, <3>1, QuietKeeps, SameReturns DEF QuietStep
  <2>. QED
      BY <1>1, <1>5, <2>1, IncomingKeeps, ReadyKeeps, LostKeeps, OverKeeps,
         AnnounceKeeps, AttackKeeps, DefendKeeps, HealKeeps DEF PacketThread
<1>. QED
    BY <1>2, <1>3, <1>4, <1>5 DEF Next

\* Blows and heals keep the health of a character between 0 and that of a new
\* one, and whoever is in the game or has won it is alive, however attacks,
\* heals, losses and the end of the game meet (ResolveAttack, ResolveHeal,
\* IsGameOver).
THEOREM HealthSound == Spec => []HealthMatchesStatus
<1>1. SafeInv => HealthMatchesStatus
    BY DEF SafeInv
<1>2. SafeInv /\ [Next]_vars => SafeInv'
    BY SafeNext
<1>. QED
    BY <1>1, <1>2, SafeInit, PTL DEF Spec

\* Nobody who died or was lost is taken back into the game, the winner stays the
\* winner, none of them is touched by a blow any more (the health of the dead, too,
\* never sinks, and they go on defending), and a finished game is not taken up again
\* (ResolveAttack, OnLostConnection, OnLobbyReady, main).
THEOREM GameIsLeftForGood == Spec => NobodyComesBack
<1>1. SafeInv /\ [Next]_vars => SafeInv'
    BY SafeNext
<1>2. SafeInv /\ [Next]_vars => [NobodyReturns]_vars
    BY SafeNext
<1>3. Spec => [][NobodyReturns]_vars
    BY <1>1, <1>2, SafeInit, PTL DEF Spec
<1>. QED
    BY <1>3, PTL DEF NobodyComesBack, NobodyReturns
-----------------------------------------------------------------------------
(* The numbers of the real classes and of the real die.                    *)

RealNumbers ==
    /\ Classes = EPlayerClass
    /\ AttribHealth = HealthPoints
    /\ AttribDamage = DamagePoints
    /\ AttribDefense = DefensePoints
    /\ DefendBonus = 5
    /\ DieFaces = Rolld20

\* What the points of any two classes have to do with each other, and with the
\* highest face of the die.
LEMMA NumbersFit ==
    ASSUME RealNumbers
    PROVE  /\ \A c, d \in Classes : AttribDamage[c] < AttribHealth[d]
           /\ 20 \in DieFaces
           /\ \A c \in Classes : AttribDefense[c] + DefendBonus <= 20
<1>. USE DEF EPlayerClass, Qualities, WarriorClass, RogueClass, ClericClass
<1>1. \A c \in EPlayerClass : HealthPoints[c] \in {40, 60, 80}
    BY DEF HealthPoints, GetAttribHealth
<1>2. \A c \in EPlayerClass : DamagePoints[c] \in {5, 10, 15}
    BY DEF DamagePoints, GetAttribDamage
<1>3. \A c \in EPlayerClass : DefensePoints[c] \in {5, 10, 15}
    BY DEF DefensePoints, GetAttribDefense
<1>4. 20 \in Rolld20
  <2>1. 19 \in 0 .. 19 /\ (19 % 20) + 1 = 20
      OBVIOUS
  <2>. QED
      BY <2>1 DEF Rolld20
<1>. HIDE DEF EPlayerClass
<1>5. \A c, d \in Classes : AttribDamage[c] < AttribHealth[d]
    BY <1>1, <1>2 DEF RealNumbers
<1>6. \A c \in Classes : AttribDefense[c] + DefendBonus <= 20
    BY <1>3 DEF RealNumbers
<1>. QED
    BY <1>4, <1>5, <1>6 DEF RealNumbers

\* In a step nobody at full health dies: the step LivesThroughFirstBlow is about.
FullHealthLasts ==
    \A g \in m_players :
        m_status[g] = "PS_Connected" /\ m_status'[g] = "PS_Dead"
            => m_health[g] < AttribHealth[m_class[g]]

\* Only a blow kills.
LEMMA OthersKillNobody ==
    ASSUME SafeInv, [Next]_vars, ~ResolveAttack, NEW g \in m_players,
           m_status[g] = "PS_Connected"
    PROVE  m_status'[g] # "PS_Dead"
<1>1. /\ m_status \in [Guids -> SPlayerStatus]
      /\ m_players \subseteq Guids
    BY DEF SafeInv, TypeInv, TypeOK
<1>2. CASE UNCHANGED m_status
    BY <1>2
<1>3. CASE Main
  <2>1. QuietStep => UNCHANGED m_status
      BY DEF QuietStep
  <2>2. MainInit \/ MainPublish => UNCHANGED m_status
      BY DEF MainInit, MainPublish, playerVars
  <2>. QED
      BY <1>2, <1>3, <2>1, <2>2, MainQuiet
<1>4. CASE Environment
  <2>1. UNCHANGED serverVars
      BY <1>4, Zenon DEF Environment, Connect, ChooseClass, Act, Lose
  <2>. QED
      BY <1>2, <2>1 DEF serverVars, playerVars
<1>5. CASE \/ CompareTurn \/ TransferTurn \/ GameGoesOn \/ ScanFails
           \/ NoWinner \/ StartTurn \/ GameIsOver
  <2>1. QuietStep => UNCHANGED m_status
      BY DEF QuietStep
  <2>2. GameIsOver => UNCHANGED m_status
      BY DEF GameIsOver, playerVars
  <2>. QED
      BY <1>2, <1>5, <2>1, <2>2, PacketQuiet
<1>6. CASE OnLobbyReady \/ ResolveDefend \/ ResolveHeal
    BY <1>2, <1>6 DEF OnLobbyReady, ResolveDefend, ResolveHeal, GetPlayer, GetPlayers,
                      Characters, Abort, playerVars
<1>7. CASE OnIncomingConnection
  <2>1. m_status' = [m_status EXCEPT ![sender] = "PS_Connected"]
      BY <1>7 DEF OnIncomingConnection
  <2>. QED
      BY <1>1, <2>1
<1>8. CASE OnLostConnection
  <2>1. UNCHANGED m_status \/ m_status' = [m_status EXCEPT ![sender] = "PS_Disconnected"]
      BY <1>8 DEF OnLostConnection, GetPlayer, GetPlayers, Abort, playerVars
  <2>. QED
      BY <1>1, <2>1
<1>9. CASE AnnounceWinner
  <2>1. \/ UNCHANGED m_status
        \/ m_status' = [m_status EXCEPT ![playersIDs[winner]] = "PS_Winner"]
      BY <1>9 DEF AnnounceWinner, GetPlayerStats, GetPlayers, Characters, Abort, playerVars
  <2>. QED
      BY <1>1, <2>1
<1>10. UNCHANGED vars => UNCHANGED m_status
    BY DEF vars, playerVars
<1>. QED
    BY <1>2, <1>3, <1>4, <1>5, <1>6, <1>7, <1>8, <1>9, <1>10 DEF Next, PacketThread

\* The damage of no class is enough.
LEMMA BlowsAreBearable ==
    ASSUME SafeInv, RealNumbers, ResolveAttack
    PROVE  FullHealthLasts
<1>. DEFINE target == playersIDs[Head(inbox).target]
<1>1. /\ m_class \in [Guids -> Classes \cup {NoClass}]
      /\ m_status \in [Guids -> SPlayerStatus]
      /\ m_health \in [Guids -> Nat]
      /\ m_players \subseteq Guids
    BY DEF SafeInv, TypeInv, TypeOK
<1>2. sender \in Guids
    BY ReceiveIsReceived DEF ResolveAttack
<1>3. CASE UNCHANGED m_status
    BY <1>3 DEF FullHealthLasts
<1>4. ASSUME NEW roll \in DieFaces, Strike(target, roll), target \in m_players,
             m_class[target] # NoClass,
             Hits(roll, target) => m_class[sender] # NoClass
      PROVE  FullHealthLasts
  <2>. DEFINE left == IF Hits(roll, target)
                      THEN Wounded(m_health[target], AttribDamage[m_class[sender]])
                      ELSE m_health[target]
  <2>1. m_status' = [m_status EXCEPT ![target] =
                         IF Hits(roll, target) /\ left = 0 THEN "PS_Dead" ELSE @]
      BY <1>4 DEF Strike
  <2>. HIDE DEF target
  <2>. SUFFICES ASSUME NEW g \in m_players,
                       m_status[g] = "PS_Connected", m_status'[g] = "PS_Dead"
                PROVE  m_health[g] < AttribHealth[m_class[g]]
      BY DEF FullHealthLasts
  <2>2. g = target /\ Hits(roll, target) /\ left = 0
      BY <1>1, <2>1
  <2>3. m_class[sender] \in Classes /\ m_class[g] \in Classes /\ m_health[g] \in Nat
      BY <1>1, <1>2, <1>4, <2>2
  <2>4. /\ AttribDamage[m_class[sender]] \in Nat
        /\ AttribHealth[m_class[g]] \in Nat
      BY <2>3, AttribsAssumption
  <2>5. Wounded(m_health[g], AttribDamage[m_class[sender]]) = 0
      BY <2>2
  <2>6. m_health[g] <= AttribDamage[m_class[sender]]
      BY <2>3, <2>4, <2>5 DEF Wounded
  <2>7. AttribDamage[m_class[sender]] < AttribHealth[m_class[g]]
      BY <2>3, NumbersFit
  <2>. QED
      BY <2>3, <2>4, <2>6, <2>7
<1>. QED
    BY <1>3, <1>4 DEF ResolveAttack, GetPlayers, Characters, Abort, playerVars

\* With the numbers of the real classes and die, and any number of players, no
\* roll makes a player unassailable, defending or not (Rogue: 15 + 5 against a
\* die of 20, ResolveAttack).
THEOREM EveryoneCanBeHit == RealNumbers /\ Spec => []NobodyIsInvulnerable
<1>1. ASSUME RealNumbers, TypeOK PROVE NobodyIsInvulnerable
  <2>. SUFFICES ASSUME NEW s \in ConnectedSlots, m_class[playersIDs[s]] # NoClass
                PROVE  20 \in DieFaces /\ Hits(20, playersIDs[s])
      BY DEF NobodyIsInvulnerable
  <2>1. playersIDs[s] \in Guids
      BY <1>1 DEF ConnectedSlots, TypeOK
  <2>2. m_class[playersIDs[s]] \in Classes
      BY <1>1, <2>1 DEF TypeOK
  <2>3. /\ AttribDefense[m_class[playersIDs[s]]] \in Nat
        /\ AttribDefense[m_class[playersIDs[s]]] + DefendBonus <= 20
        /\ DefendBonus \in Nat
        /\ 20 \in DieFaces
      BY <1>1, <2>2, NumbersFit, AttribsAssumption, DiceAssumption
  <2>. QED
      BY <2>3 DEF Hits, Defense
<1>2. RealNumbers => RealNumbers'
    BY DEF RealNumbers
<1>. QED
    BY <1>1, <1>2, TypeCorrect, PTL

\* With the same numbers no blow kills a character at full health: every player
\* outlives the first blow, whatever was lost before (ResolveAttack and the
\* points of CharacterClass).
THEOREM FirstBlowIsSurvived == RealNumbers /\ Spec => LivesThroughFirstBlow
<1>1. SafeInv /\ [Next]_vars => SafeInv'
    BY SafeNext
<1>2. RealNumbers /\ SafeInv /\ [Next]_vars => [FullHealthLasts]_vars
  <2>. SUFFICES ASSUME RealNumbers, SafeInv, [Next]_vars PROVE FullHealthLasts
      OBVIOUS
  <2>1. CASE ResolveAttack
      BY <2>1, BlowsAreBearable
  <2>2. CASE ~ResolveAttack
      BY <2>2, OthersKillNobody DEF FullHealthLasts
  <2>. QED
      BY <2>1, <2>2
<1>3. RealNumbers => RealNumbers'
    BY DEF RealNumbers
<1>4. RealNumbers /\ Spec => [][FullHealthLasts]_vars
    BY <1>1, <1>2, <1>3, SafeInit, PTL DEF Spec
<1>. QED
    BY <1>4, PTL DEF LivesThroughFirstBlow, FullHealthLasts
=============================================================================
