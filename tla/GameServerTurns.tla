---------------------------- MODULE GameServerTurns ----------------------------
(***************************************************************************)
(* The turn as long as no connection is lost: theorems of GameServer about *)
(* its path through the two threads, the client and the queue.             *)
(***************************************************************************)
EXTENDS GameServerOutcome

USE ConnectionsAssumption, GuidsAssumption

-----------------------------------------------------------------------------
(* Without losses nothing fails.                                           *)

\* A client's connection reaches the server before anything else he sends.
Announced ==
    /\ connected \subseteq m_players \cup Sent("NEW_INCOMING_CONNECTION")
    /\ \A i \in DOMAIN inbox :
           \/ inbox[i].guid \in m_players
           \/ \E j \in DOMAIN inbox : /\ j <= i
                                      /\ inbox[j].id = "NEW_INCOMING_CONNECTION"
                                      /\ inbox[j].guid = inbox[i].guid

\* OnLostConnection never runs, and IsGameOver only in a game.
NobodyLost ==
    /\ LossStates = {}
    /\ Sent("CONNECTION_LOST") = {}
    /\ lostPlayer = NoGuid
    /\ packetPc \notin {"compare", "transfer"}
    /\ packetPc = "isGameOver" => g_networkState = "NS_GameStarted"
    /\ packetPc = "announce" => winner # 0

\* A turn is wanted when the game starts.
FirstTurn == g_networkState \in BeforeGame => isDefineTurn /\ packetPc = "receive"

LosslessInv == GameInv /\ Announced /\ NobodyLost /\ FirstTurn /\ NothingFails

\* A packet taken is the only one that goes.
LEMMA OthersStay ==
    ASSUME inbox \in Seq(Packet), Received, NEW id
    PROVE  /\ Sent(id) \subseteq Sent(id)' \cup {sender}
           /\ Head(inbox).id # id => Sent(id) \subseteq Sent(id)'
           /\ \A i \in DOMAIN inbox : \/ i = 1
                                      \/ i - 1 \in DOMAIN inbox' /\ inbox'[i - 1] = inbox[i]
<1>1. inbox' \in Seq(Packet) /\ Len(inbox') = Len(inbox) - 1 /\ Len(inbox) \in Nat
    BY HeadTailProperties, LenProperties DEF Received
<1>2. \A i \in DOMAIN inbox : \/ i = 1
                              \/ i - 1 \in DOMAIN inbox' /\ inbox'[i - 1] = inbox[i]
    BY <1>1, HeadTailProperties, LenProperties DEF Received
<1>3. Head(inbox) = inbox[1]
    BY ReceivedPositions
<1>. QED
    BY <1>2, <1>3 DEF Sent, sender

LEMMA ReceivedAnnounced ==
    ASSUME TypeInv, Announced, Received, UNCHANGED connected,
           m_players \subseteq m_players',
           Head(inbox).id = "NEW_INCOMING_CONNECTION" => sender \in m_players'
    PROVE  Announced'
<1>. USE DEF Announced
<1>1. inbox \in Seq(Packet)
    BY DEF TypeInv, TypeOK
<1>2. connected' \subseteq m_players' \cup Sent("NEW_INCOMING_CONNECTION")'
    BY <1>1, OthersStay
<1>3. ASSUME NEW i \in DOMAIN inbox'
      PROVE  \/ inbox'[i].guid \in m_players'
             \/ \E j \in DOMAIN inbox' : /\ j <= i
                                         /\ inbox'[j].id = "NEW_INCOMING_CONNECTION"
                                         /\ inbox'[j].guid = inbox'[i].guid
  <2>1. i \in Nat /\ i + 1 \in DOMAIN inbox /\ inbox'[i] = inbox[i + 1]
      BY <1>1, <1>3, ReceivedPositions
  <2>2. CASE inbox[i + 1].guid \in m_players
      BY <2>1, <2>2
  <2>3. ASSUME NEW j \in DOMAIN inbox, j <= i + 1,
               inbox[j].id = "NEW_INCOMING_CONNECTION",
               inbox[j].guid = inbox[i + 1].guid
        PROVE  \/ inbox'[i].guid \in m_players'
               \/ \E k \in DOMAIN inbox' : /\ k <= i
                                           /\ inbox'[k].id = "NEW_INCOMING_CONNECTION"
                                           /\ inbox'[k].guid = inbox'[i].guid
    <3>1. CASE j = 1
        BY <1>1, <2>1, <2>3, <3>1, ReceivedPositions DEF sender
    <3>2. CASE j # 1
      <4>1. j - 1 \in DOMAIN inbox' /\ inbox'[j - 1] = inbox[j]
          BY <1>1, <3>2, OthersStay
      <4>2. j \in Nat /\ j - 1 <= i
          BY <1>1, <2>1, <2>3, LenProperties
      <4>. QED
          BY <2>1, <2>3, <4>1, <4>2
    <3>. QED
        BY <3>1, <3>2
  <2>. QED
      BY <2>1, <2>2, <2>3
<1>. QED
    BY <1>2, <1>3

LEMMA PostedAnnounced ==
    ASSUME TypeInv, Announced, UNCHANGED m_players,
           NEW packet \in Packet, Post(packet),
           \/ packet.id = "NEW_INCOMING_CONNECTION"
           \/ packet.guid \in connected,
           \/ UNCHANGED connected
           \/ /\ packet.id = "NEW_INCOMING_CONNECTION"
              /\ connected' = connected \cup {packet.guid}
    PROVE  Announced'
<1>. USE DEF Announced
<1>0. inbox \in Seq(Packet)
    BY DEF TypeInv, TypeOK
<1>1. /\ inbox \in Seq(Packet) /\ Len(inbox) \in Nat
      /\ \A i \in DOMAIN inbox : i \in Nat /\ i <= Len(inbox)
    BY <1>0, LenProperties
<1>2. /\ \A i \in DOMAIN inbox' : \/ i \in DOMAIN inbox /\ inbox'[i] = inbox[i]
                                  \/ i = Len(inbox) + 1 /\ inbox'[i] = packet
      /\ \A i \in DOMAIN inbox : i \in DOMAIN inbox' /\ inbox'[i] = inbox[i]
      /\ Len(inbox) + 1 \in DOMAIN inbox' /\ inbox'[Len(inbox) + 1] = packet
    BY <1>1, AppendProperties DEF Post
<1>3. connected' \subseteq m_players' \cup Sent("NEW_INCOMING_CONNECTION")'
  <2>1. Sent("NEW_INCOMING_CONNECTION") \subseteq Sent("NEW_INCOMING_CONNECTION")'
      BY <1>2 DEF Sent
  <2>2. packet.id = "NEW_INCOMING_CONNECTION"
            => packet.guid \in Sent("NEW_INCOMING_CONNECTION")'
      BY <1>2 DEF Sent
  <2>. QED
      BY <2>1, <2>2
<1>4. ASSUME NEW i \in DOMAIN inbox'
      PROVE  \/ inbox'[i].guid \in m_players'
             \/ \E j \in DOMAIN inbox' : /\ j <= i
                                         /\ inbox'[j].id = "NEW_INCOMING_CONNECTION"
                                         /\ inbox'[j].guid = inbox'[i].guid
  <2>1. CASE i \in DOMAIN inbox /\ inbox'[i] = inbox[i]
      BY <1>2, <2>1
  <2>2. CASE i = Len(inbox) + 1 /\ inbox'[i] = packet
    <3>1. CASE packet.id = "NEW_INCOMING_CONNECTION"
        BY <1>1, <1>2, <2>2, <3>1
    <3>2. CASE packet.guid \in m_players
        BY <2>2, <3>2
    <3>3. CASE packet.guid \in Sent("NEW_INCOMING_CONNECTION")
      <4>1. PICK j \in DOMAIN inbox : /\ inbox[j].id = "NEW_INCOMING_CONNECTION"
                                      /\ inbox[j].guid = packet.guid
          BY <3>3 DEF Sent
      <4>2. j \in DOMAIN inbox' /\ inbox'[j] = inbox[j] /\ j <= i
          BY <1>1, <1>2, <2>2
      <4>. QED
          BY <2>2, <4>1, <4>2
    <3>. QED
        BY <3>1, <3>2, <3>3
  <2>. QED
      BY <1>2, <2>1, <2>2
<1>. QED
    BY <1>3, <1>4

-----------------------------------------------------------------------------
LEMMA LosslessInit == LossStates = {} /\ Init => LosslessInv
<1>. SUFFICES ASSUME LossStates = {}, Init PROVE LosslessInv
    OBVIOUS
<1>1. GameInv
    BY GameInit DEF FewClients
<1>2. DOMAIN inbox = {}
    BY EmptySeq DEF Init
<1>3. Announced
    BY <1>2 DEF Init, Announced
<1>4. NobodyLost
    BY <1>2 DEF Init, NobodyLost, Sent
<1>. QED
    BY <1>1, <1>3, <1>4 DEF Init, LosslessInv, FirstTurn, NothingFails

\* A step of main.
LEMMA MainLossless ==
    ASSUME LosslessInv, Main
    PROVE  Announced' /\ NobodyLost' /\ FirstTurn'
<1>. USE DEF LosslessInv, GameInv, SafeInv, LobbyIsPeaceful, PublishOnce
<1>1. UNCHANGED <<m_players, connected, inbox, packetVars>>
    BY DEF Main, MainInit, MainListen, MainPublish, MainPoll, MainNoTurn,
           MainNextTurn, MainClear, MainPick, MainBroadcast, MainYourTurn,
           YourTurn, GetPlayerStats, GetPlayers, Characters, Abort, MainStep,
           playerVars, clientVars
<1>2. Announced'
    BY <1>1 DEF Announced, Sent
<1>3. CASE MainInit \/ MainPublish
  <2>1. /\ g_networkState \in BeforeGame /\ g_networkState' \in BeforeGame
        /\ UNCHANGED isDefineTurn
      BY <1>3 DEF MainInit, MainPublish, MainStep, BeforeGame, turnVars
  <2>2. FirstTurn'
      BY <1>1, <2>1 DEF FirstTurn, packetVars
  <2>3. NobodyLost'
      BY <1>1, <2>1 DEF NobodyLost, Sent, packetVars, BeforeGame
  <2>. QED
      BY <1>2, <2>2, <2>3
<1>4. CASE QuietStep
  <2>1. UNCHANGED g_networkState
      BY <1>4 DEF QuietStep
  <2>2. UNCHANGED isDefineTurn \/ g_networkState \notin BeforeGame
      BY DEF Main, MainInit, MainListen, MainPublish, MainPoll, MainNoTurn,
             MainNextTurn, MainClear, MainPick, MainBroadcast, MainYourTurn,
             YourTurn, GetPlayerStats, GetPlayers, Characters, Abort, MainStep,
             turnVars
  <2>3. NobodyLost' /\ FirstTurn'
      BY <1>1, <2>1, <2>2 DEF NobodyLost, FirstTurn, Sent, packetVars
  <2>. QED
      BY <1>2, <2>3
<1>. QED
    BY <1>3, <1>4, MainQuiet

\* A step of a client or of RakNet.
LEMMA ClientsLossless ==
    ASSUME LosslessInv, TypeInv', Environment
    PROVE  Announced' /\ NobodyLost' /\ FirstTurn'
<1>. USE DEF LosslessInv, GameInv, SafeInv
<1>1. PICK g \in Guids : Connect(g) \/ ChooseClass(g) \/ Act(g)
    BY DEF Environment, Lose, NobodyLost
<1>2. UNCHANGED serverVars
    BY <1>1, Zenon DEF Connect, ChooseClass, Act
<1>3. inbox \in Seq(Packet)
    BY DEF TypeInv, TypeOK
<1>4. \/ UNCHANGED <<inbox, connected>>
      \/ \E packet \in Packet :
             /\ Post(packet)
             /\ packet.id # "CONNECTION_LOST"
             /\ packet.id = "NEW_INCOMING_CONNECTION" \/ packet.guid \in connected
             /\ \/ UNCHANGED connected
                \/ /\ packet.id = "NEW_INCOMING_CONNECTION"
                   /\ connected' = connected \cup {packet.guid}
  <2>1. CASE Connect(g)
    <3>1. LET packet == [id |-> "NEW_INCOMING_CONNECTION", guid |-> g] IN
          /\ packet \in Packet /\ packet.id = "NEW_INCOMING_CONNECTION"
          /\ packet.guid = g
        BY DEF Packet
    <3>. QED
        BY <2>1, <3>1 DEF Connect
  <2>2. CASE ChooseClass(g)
    <3>1. \A class \in Classes :
              LET packet == [id |-> "LOBBY_READY", guid |-> g, class |-> class] IN
              /\ packet \in Packet /\ packet.id = "LOBBY_READY" /\ packet.guid = g
        BY DEF Packet
    <3>. QED
        BY <2>2, <3>1 DEF ChooseClass
  <2>3. CASE Act(g)
    <3>1. Head(yourTurn[g]) \in SUBSET Slots
        BY <2>3, HeadTailProperties DEF Act, TypeInv, TypeOK
    <3>2. \E packet \in Packet : /\ Post(packet) /\ packet.guid = g
                                 /\ packet.id \in TurnPackets
      <4>1. CASE Post([id |-> "PLAYER_DEFEND", guid |-> g])
          BY <4>1 DEF Packet, TurnPackets
      <4>2. CASE Post([id |-> "PLAYER_HEAL", guid |-> g])
          BY <4>2 DEF Packet, TurnPackets
      <4>3. ASSUME NEW t \in Slots,
                   Post([id |-> "PLAYER_ATTACK", guid |-> g, target |-> t])
            PROVE  \E packet \in Packet : /\ Post(packet) /\ packet.guid = g
                                          /\ packet.id \in TurnPackets
          BY <4>3 DEF Packet, TurnPackets
      <4>. QED
          BY <2>3, <3>1, <4>1, <4>2, <4>3 DEF Act
    <3>. QED
        BY <2>3, <3>2 DEF Act, TurnPackets
  <2>. QED
      BY <1>1, <2>1, <2>2, <2>3
<1>5. Announced'
  <2>1. UNCHANGED m_players
      BY <1>2 DEF serverVars, playerVars
  <2>2. CASE UNCHANGED <<inbox, connected>>
      BY <2>1, <2>2 DEF Announced, Sent
  <2>. QED
      BY <1>4, <2>1, <2>2, PostedAnnounced
<1>6. Sent("CONNECTION_LOST")' \subseteq Sent("CONNECTION_LOST")
  <2>1. CASE UNCHANGED inbox
      BY <2>1 DEF Sent
  <2>. QED
      BY <1>3, <1>4, <2>1, SentPosted
<1>. QED
    BY <1>2, <1>5, <1>6 DEF NobodyLost, FirstTurn, serverVars, turnVars, packetVars

\* Before the game the packet thread finds every player it looks for, and in
\* it every search for a winner finds one.
LEMMA NothingFailsNext ==
    ASSUME LosslessInv, Next
    PROVE  UNCHANGED failure
<1>. USE DEF LosslessInv, GameInv, SafeInv
<1>1. CASE g_networkState \notin BeforeGame
  <2>1. ~NoWinner
      BY DEF NoWinner, NobodyLost
  <2>. QED
      BY <1>1, <2>1, GameGoesThrough
<1>2. CASE g_networkState \in BeforeGame
  <2>1. /\ mainPc \in {"poll", "publish"} /\ packetPc = "receive"
        /\ \A id \in TurnPackets : Sent(id) = {}
      BY <1>2 DEF LobbyIsPeaceful, FirstTurn
  <2>2. CASE Main
      BY <2>1, <2>2 DEF Main, MainInit, MainListen, MainPublish, MainPoll, MainNoTurn,
                        MainNextTurn, MainClear, MainPick, MainBroadcast,
                        MainYourTurn, MainStep
  <2>3. CASE Environment
      BY <2>3, Zenon DEF Environment, Connect, ChooseClass, Act, Lose, serverVars
  <2>4. CASE PacketThread
    <3>1. \A id : Receive(id) => sender \in Sent(id)
        BY SentReceived DEF Receive, Received, TypeInv, TypeOK
    <3>2. OnIncomingConnection \/ OnLobbyReady
        BY <2>1, <2>4, <3>1 DEF PacketThread, PacketStep, OnLostConnection, CompareTurn,
           TransferTurn, GameGoesOn, GameIsOver, ScanFails, AnnounceWinner, NoWinner,
           ResolveAttack, ResolveDefend, ResolveHeal, StartTurn, NobodyLost, TurnPackets
    <3>3. CASE OnIncomingConnection
        BY <3>3 DEF OnIncomingConnection
    <3>4. CASE OnLobbyReady
      <4>1. inbox \in Seq(Packet) /\ Received /\ Head(inbox).id = "LOBBY_READY"
          BY <3>4 DEF OnLobbyReady, Receive, Received, TypeInv, TypeOK
      <4>2. 1 \in DOMAIN inbox /\ Head(inbox) = inbox[1]
          BY <4>1, ReceivedPositions
      <4>3. \A j \in DOMAIN inbox : j <= 1 => j = 1
          BY <4>1, LenProperties
      <4>4. sender \in m_players
          BY <4>1, <4>2, <4>3 DEF Announced, sender
      <4>. QED
          BY <3>4, <4>4 DEF OnLobbyReady, GetPlayer, GetPlayers
    <3>. QED
        BY <3>2, <3>3, <3>4
  <2>. QED
      BY <2>2, <2>3, <2>4 DEF Next
<1>. QED
    BY <1>1, <1>2

\* A step of a handler that does not fail.
LEMMA HandlersLossless ==
    ASSUME LosslessInv, PacketThread, failure' = "none"
    PROVE  Announced' /\ NobodyLost' /\ FirstTurn'
<1>. USE DEF LosslessInv, GameInv, SafeInv, PartyInv
<1>1. inbox \in Seq(Packet)
    BY DEF TypeInv, TypeOK
<1>2. /\ ~Abort("unregistered guid") /\ ~Abort("null character")
      /\ ~Abort("no winner")
    BY DEF Abort
<1>3. ASSUME NEW id, Receive(id), UNCHANGED <<connected, lostPlayer, winner>>,
             m_players \subseteq m_players',
             id = "NEW_INCOMING_CONNECTION" => sender \in m_players',
             packetPc' \notin {"compare", "transfer", "announce"},
             packetPc' = "isGameOver" => g_networkState' = "NS_GameStarted"
      PROVE  Announced' /\ NobodyLost'
  <2>1. Received /\ Head(inbox).id = id
      BY <1>3 DEF Receive, Received
  <2>2. Sent("CONNECTION_LOST")' \subseteq Sent("CONNECTION_LOST")
      BY <1>1, <2>1, SentReceived
  <2>3. Announced'
      BY <1>3, <2>1, ReceivedAnnounced
  <2>. QED
      BY <1>3, <2>2, <2>3 DEF NobodyLost
<1>4. ASSUME UNCHANGED <<connected, inbox, m_players>>
      PROVE  Announced' /\ Sent("CONNECTION_LOST")' = {}
    BY <1>4 DEF Announced, NobodyLost, Sent
<1>5. \A id : Receive(id) => sender \in Sent(id) /\ packetPc = "receive"
    BY <1>1, SentReceived DEF Receive, Received
<1>6. CASE OnIncomingConnection
  <2>1. /\ m_players' = m_players \cup {sender}
        /\ UNCHANGED <<connected, lostPlayer, winner, packetPc, g_networkState, isDefineTurn>>
      BY <1>6 DEF OnIncomingConnection, clientVars, packetVars, turnVars
  <2>2. Announced' /\ NobodyLost'
      BY <1>3, <1>5, <1>6, <2>1 DEF OnIncomingConnection
  <2>. QED
      BY <2>1, <2>2 DEF FirstTurn
<1>7. CASE OnLobbyReady
  <2>1. /\ UNCHANGED <<m_players, connected, lostPlayer, winner, packetPc, isDefineTurn>>
        /\ CheckGameStart(m_class')
      BY <1>2, <1>7 DEF OnLobbyReady, GetPlayer, GetPlayers, clientVars, packetVars, turnVars
  <2>2. Announced' /\ NobodyLost'
      BY <1>3, <1>5, <1>7, <2>1 DEF OnLobbyReady
  <2>3. g_networkState' \in BeforeGame => g_networkState \in BeforeGame
      BY <2>1 DEF CheckGameStart, BeforeGame
  <2>. QED
      BY <2>1, <2>2, <2>3 DEF FirstTurn
<1>8. CASE OnLostConnection
    BY <1>5, <1>8 DEF OnLostConnection, NobodyLost
<1>9. CASE CompareTurn \/ TransferTurn
    BY <1>9 DEF CompareTurn, TransferTurn, PacketStep, NobodyLost
<1>10. CASE ScanFails \/ NoWinner
    BY <1>2, <1>10 DEF ScanFails, NoWinner
<1>11. CASE GameGoesOn
  <2>1. /\ UNCHANGED <<connected, inbox, m_players, winner, g_networkState, isDefineTurn>>
        /\ g_networkState = "NS_GameStarted"
        /\ packetPc' = "startTurn" /\ lostPlayer' = NoGuid
      BY <1>11 DEF GameGoesOn, PacketStep, ReturnPc, NobodyLost, clientVars, turnVars,
                   playerVars
  <2>. QED
      BY <1>4, <2>1 DEF NobodyLost, FirstTurn, BeforeGame
<1>12. CASE GameIsOver
  <2>1. /\ UNCHANGED <<connected, inbox, m_players, lostPlayer>>
        /\ g_networkState = "NS_GameStarted" /\ g_networkState' = "NS_GameOver"
        /\ packetPc' = "announce"
        /\ winner' = IF ConnectedSlots = {} THEN 0
                     ELSE m_number[playersIDs[Greatest(ConnectedSlots)]]
      BY <1>12 DEF GameIsOver, PacketStep, NobodyLost, clientVars, playerVars
  <2>2. winner' # 0
    <3>1. ConnectedSlots # {}
        BY <2>1, SurvivorsSeated DEF Opponents
    <3>2. ConnectedSlots \in SUBSET Slots
        BY DEF ConnectedSlots
    <3>3. Greatest(ConnectedSlots) \in ConnectedSlots
        BY <3>1, <3>2, GreatestIsMember
    <3>4. m_number[playersIDs[Greatest(ConnectedSlots)]] \in Slots
        BY <3>3, ConnectedTyped DEF TypeInv
    <3>. QED
        BY <2>1, <3>1, <3>4 DEF Slots
  <2>. QED
      BY <1>4, <2>1, <2>2 DEF NobodyLost, FirstTurn, BeforeGame
<1>13. CASE AnnounceWinner
  <2>1. /\ UNCHANGED <<connected, inbox, m_players, g_networkState, isDefineTurn>>
        /\ packetPc = "announce"
        /\ packetPc' = "startTurn" /\ lostPlayer' = NoGuid
      BY <1>2, <1>13 DEF AnnounceWinner, GetPlayerStats, GetPlayers, Characters, ReturnPc,
                         NobodyLost, clientVars, turnVars
  <2>. QED
      BY <1>4, <2>1 DEF NobodyLost, FirstTurn, WinnerStands, BeforeGame
<1>14. CASE ResolveAttack
  <2>1. /\ UNCHANGED <<connected, m_players, lostPlayer, winner, g_networkState, isDefineTurn>>
        /\ \/ packetPc' = "startTurn"
           \/ /\ packetPc' = "isGameOver"
              /\ playersIDs[Head(inbox).target] \in Survivors
      BY <1>2, <1>14 DEF ResolveAttack, GetPlayers, Characters, Strike, Survivors,
                         clientVars, turnVars, playerVars
  <2>2. g_networkState \notin BeforeGame /\ packetPc = "receive"
      BY <1>5, <1>14 DEF ResolveAttack, LobbyIsPeaceful, TurnPackets
  <2>3. packetPc' = "isGameOver" => g_networkState = "NS_GameStarted"
    <3>1. packetPc' = "isGameOver" => g_networkState # "NS_GameOver"
        BY <2>1, <2>2 DEF Ending
    <3>. QED
        BY <2>2, <3>1 DEF TypeInv, TypeOK, NetworkStates, BeforeGame
  <2>4. Announced' /\ NobodyLost'
      BY <1>3, <1>14, <2>1, <2>3 DEF ResolveAttack
  <2>. QED
      BY <2>1, <2>2, <2>4 DEF FirstTurn
<1>15. CASE ResolveDefend \/ ResolveHeal
  <2>1. /\ UNCHANGED <<connected, m_players, lostPlayer, winner, g_networkState, isDefineTurn>>
        /\ packetPc' = "startTurn"
        /\ Receive("PLAYER_DEFEND") \/ Receive("PLAYER_HEAL")
      BY <1>2, <1>15 DEF ResolveDefend, ResolveHeal, GetPlayer, GetPlayers, Characters,
                         clientVars, turnVars
  <2>2. g_networkState \notin BeforeGame
      BY <1>5, <2>1 DEF LobbyIsPeaceful, TurnPackets
  <2>3. Announced' /\ NobodyLost'
      BY <1>3, <2>1
  <2>. QED
      BY <2>1, <2>2, <2>3 DEF FirstTurn
<1>16. CASE StartTurn
  <2>1. /\ UNCHANGED <<connected, inbox, m_players, lostPlayer, winner, g_networkState>>
        /\ packetPc = "startTurn" /\ packetPc' = "receive"
      BY <1>16 DEF StartTurn, PacketStep, clientVars, playerVars
  <2>. QED
      BY <1>4, <2>1 DEF NobodyLost, FirstTurn
<1>. QED
    BY <1>6, <1>7, <1>8, <1>9, <1>10, <1>11, <1>12, <1>13, <1>14, <1>15, <1>16
    DEF PacketThread

LEMMA LosslessNext == LosslessInv /\ [Next]_vars => LosslessInv'
<1>. SUFFICES ASSUME LosslessInv, [Next]_vars PROVE LosslessInv'
    OBVIOUS
<1>1. GameInv'
    BY GameNext DEF LosslessInv
<1>2. CASE UNCHANGED vars
  <2>1. Announced' /\ NobodyLost' /\ FirstTurn' /\ NothingFails'
      BY <1>2 DEF vars, playerVars, turnVars, packetVars, clientVars, LosslessInv,
                  Announced, NobodyLost, FirstTurn, NothingFails, Sent
  <2>. QED
      BY <1>1, <2>1 DEF LosslessInv
<1>3. CASE Next
  <2>1. failure' = "none"
      BY <1>3, NothingFailsNext DEF LosslessInv, NothingFails
  <2>2. TypeInv'
      BY <1>1 DEF GameInv, SafeInv
  <2>3. Announced' /\ NobodyLost' /\ FirstTurn'
      BY <1>3, <2>1, <2>2, MainLossless, HandlersLossless, ClientsLossless DEF Next
  <2>. QED
      BY <1>1, <2>1, <2>3 DEF LosslessInv, NothingFails
<1>. QED
    BY <1>2, <1>3

LEMMA LosslessHolds == LossStates = {} /\ Spec => []LosslessInv
<1>. QED
    BY LosslessInit, LosslessNext, PTL DEF Spec

\* Without losses nothing stops the server, with any number of clients: every
\* player looked for is there and has a character, every index is in range
\* (the assertion of GetPlayer; lines 205 and 698).
THEOREM ServerStands == LossStates = {} /\ Spec => []NothingFails
<1>1. LosslessInv => NothingFails
    BY DEF LosslessInv
<1>. QED
    BY <1>1, LosslessHolds, PTL

-----------------------------------------------------------------------------
(* The path of the turn.                                                   *)

Player == playersIDs[lastPlayerTurn]

NobodyAsked == \A g \in Guids : yourTurn[g] = << >>

OnlyPlayerAsked ==
    /\ Player \in Guids
    /\ Len(yourTurn[Player]) = 1
    /\ \A g \in Guids \ {Player} : yourTurn[g] = << >>

\* main has given a turn out and not taken the next one up.
Given == mainPc \in {"poll", "test", "clear"} /\ (mainPc # "clear" => ~isDefineTurn)

\* The five places of a turn, each with everything that belongs to it.
Wanted ==
    /\ isDefineTurn /\ mainPc \in {"poll", "test"}
    /\ packetPc = "receive" /\ inbox = << >> /\ NobodyAsked

Started ==
    /\ mainPc \in {"pick", "broadcast", "yourTurn"}
    /\ packetPc = "receive" /\ inbox = << >> /\ NobodyAsked

Asked == Given /\ packetPc = "receive" /\ inbox = << >> /\ OnlyPlayerAsked

Answered ==
    /\ Given /\ packetPc = "receive" /\ NobodyAsked
    /\ Len(inbox) = 1 /\ inbox[1].guid = Player

Resolved ==
    /\ Given /\ packetPc \in {"isGameOver", "startTurn"}
    /\ inbox = << >> /\ NobodyAsked

OnPath == Wanted \/ Started \/ Asked \/ Answered \/ Resolved

\* The next turn was wanted before line 702, which clears the request: main is
\* about to clear it, or has done so.
Dropped == Given /\ packetPc = "receive" /\ inbox = << >> /\ NobodyAsked

TurnPath == g_networkState = "NS_GameStarted" => OnPath \/ Dropped

TurnInv == LosslessInv /\ TurnPath

\* What a step does to the turn: it stays on its path, unless the packet thread
\* wants the next one too early, and a turn that is dropped does not come back.
TurnStep ==
    /\ OnPath => OnPath' \/ (mainPc = "clear" /\ packetPc = "startTurn" /\ Dropped')
    /\ Dropped => Dropped'

\* In a game without losses the only packets are the answers of its players.
OnlyAnswers ==
    g_networkState \notin BeforeGame
        => \A i \in DOMAIN inbox : inbox[i].id \in TurnPackets

LEMMA AnswersOnly == LosslessInv => OnlyAnswers
<1>. SUFFICES ASSUME LosslessInv, g_networkState \notin BeforeGame,
                     NEW i \in DOMAIN inbox
              PROVE  inbox[i].id \in TurnPackets
    BY DEF OnlyAnswers
<1>. USE DEF LosslessInv, GameInv, SafeInv
<1>1. \A g \in m_players : m_class[g] # NoClass
    BY GameIsComplete
<1>2. inbox[i].guid \in m_players /\ m_players \subseteq Guids
    BY GameIsComplete DEF TypeInv, TypeOK
<1>3. \A id : inbox[i].id = id => inbox[i].guid \in Sent(id)
    BY DEF Sent
<1>4. inbox[i].id # "NEW_INCOMING_CONNECTION"
    BY <1>2, <1>3 DEF NewcomersAreNew
<1>5. inbox[i].id # "LOBBY_READY"
    BY <1>1, <1>2, <1>3 DEF ReadyOnce
<1>6. inbox[i].id # "CONNECTION_LOST"
    BY <1>3 DEF NobodyLost
<1>7. inbox[i] \in Packet
  <2>1. inbox \in Seq(Packet)
      BY DEF TypeInv, TypeOK
  <2>. QED
      BY <2>1, ElementOfSeq, LenProperties
<1>8. \A packet \in Packet :
          packet.id \in TurnPackets \cup {"NEW_INCOMING_CONNECTION", "LOBBY_READY",
                                         "CONNECTION_LOST"}
    BY DEF Packet, TurnPackets
<1>. QED
    BY <1>4, <1>5, <1>6, <1>7, <1>8

\* The game starts with a turn that is wanted, and an empty queue.
LEMMA GameBegins ==
    ASSUME LosslessInv, LosslessInv', OnLobbyReady,
           g_networkState # "NS_GameStarted", g_networkState' = "NS_GameStarted"
    PROVE  Wanted'
<1>. USE DEF LosslessInv, GameInv, SafeInv
<1>1. /\ g_networkState = "NS_WaitingPlayers" /\ Received /\ inbox \in Seq(Packet)
      /\ UNCHANGED <<mainPc, packetPc, isDefineTurn, yourTurn>>
    BY DEF OnLobbyReady, GetPlayer, GetPlayers, Abort, CheckGameStart, Receive, Received,
           packetVars, turnVars, clientVars, TypeInv, TypeOK
<1>2. g_networkState \in BeforeGame /\ g_networkState' \notin BeforeGame
    BY <1>1 DEF BeforeGame
<1>3. mainPc = "poll" /\ packetPc = "receive" /\ isDefineTurn /\ NobodyAsked
    BY <1>1, <1>2 DEF LobbyIsPeaceful, PublishOnce, FirstTurn, NobodyAsked
<1>4. inbox' = << >>
  <2>1. inbox' \in Seq(Packet)
      BY DEF TypeInv, TypeOK
  <2>2. \A i \in DOMAIN inbox' : inbox'[i].id \in TurnPackets
    <3>1. OnlyAnswers'
        BY AnswersOnly, PTL
    <3>. QED
        BY <1>2, <3>1 DEF OnlyAnswers
  <2>3. \A id \in TurnPackets : Sent(id)' = {}
      BY <1>1, <1>2, SentReceived DEF LobbyIsPeaceful
  <2>4. DOMAIN inbox' = {}
      BY <2>2, <2>3 DEF Sent
  <2>. QED
      BY <2>1, <2>4, EmptySeq, LenProperties
<1>. QED
    BY <1>1, <1>3, <1>4 DEF Wanted, NobodyAsked

\* main takes a turn that is wanted to the player whose turn it is.
LEMMA MainTurns ==
    ASSUME TurnInv, g_networkState = "NS_GameStarted", Main, failure' = "none"
    PROVE  TurnStep
<1>. USE DEF TurnInv, LosslessInv, GameInv, SafeInv, PartyInv, MainStep
<1>1. /\ ~Abort("unregistered guid") /\ ~Abort("null character")
      /\ ~Abort("index out of range")
    BY DEF Abort
<1>2. /\ Asked => Given /\ ~Wanted /\ ~Started
      /\ Answered => Given /\ ~Wanted /\ ~Started
      /\ Resolved => Given /\ ~Wanted /\ ~Started
      /\ Dropped => Given /\ ~Wanted /\ ~Started
      /\ Wanted => isDefineTurn /\ mainPc \in {"poll", "test"}
      /\ Started => mainPc \in {"pick", "broadcast", "yourTurn"}
      /\ OnPath \/ Dropped
    BY DEF Given, Wanted, Started, Asked, Answered, Resolved, Dropped, TurnPath
<1>3. CASE MainInit \/ MainListen \/ MainPublish
    BY <1>3 DEF MainInit, MainListen, MainPublish, PublishOnce
<1>4. CASE MainPoll \/ MainNoTurn \/ MainClear
  <2>1. /\ mainPc \in {"poll", "test", "clear"} /\ mainPc' \in {"poll", "test"}
        /\ IF mainPc = "clear" THEN ~isDefineTurn' ELSE UNCHANGED isDefineTurn
        /\ UNCHANGED <<lastPlayerTurn, packetPc, inbox, yourTurn, playersIDs>>
      BY <1>4 DEF MainPoll, MainNoTurn, MainClear, turnVars, packetVars, clientVars,
                  playerVars
  <2>2. UNCHANGED <<Player, NobodyAsked, OnlyPlayerAsked>>
      BY <2>1 DEF Player, NobodyAsked, OnlyPlayerAsked
  <2>3. CASE Wanted
    <3>1. ~Dropped /\ Wanted'
        BY <1>2, <2>1, <2>2, <2>3 DEF Wanted
    <3>. QED
        BY <3>1 DEF TurnStep, OnPath
  <2>4. CASE Given
    <3>1. Given'
        BY <2>1, <2>4 DEF Given
    <3>2. /\ Asked => Asked'
          /\ Answered => Answered'
          /\ Resolved => Resolved'
          /\ Dropped => Dropped'
        BY <2>1, <2>2, <3>1 DEF Asked, Answered, Resolved, Dropped
    <3>3. ~Wanted /\ ~Started
        BY <2>4 DEF Given, Wanted, Started
    <3>. QED
        BY <3>2, <3>3 DEF TurnStep, OnPath
  <2>. QED
      BY <1>2, <2>1, <2>3, <2>4 DEF OnPath
<1>5. CASE MainNextTurn \/ MainPick \/ MainBroadcast
  <2>1. /\ mainPc' \in {"pick", "broadcast", "yourTurn"}
        /\ UNCHANGED <<packetPc, inbox, yourTurn>>
      BY <1>1, <1>5 DEF MainNextTurn, MainPick, MainBroadcast, GetPlayers, GetPlayerStats,
                        Characters, packetVars, clientVars
  <2>2. (Wanted \/ Started) /\ ~Dropped
      BY <1>2, <1>5 DEF MainNextTurn, MainPick, MainBroadcast, Given, OnPath
  <2>3. Started'
      BY <2>1, <2>2 DEF Wanted, Started, NobodyAsked
  <2>. QED
      BY <2>2, <2>3 DEF TurnStep, OnPath
<1>6. CASE MainYourTurn
  <2>1. Started /\ ~Dropped
      BY <1>2, <1>6 DEF MainYourTurn, Given, OnPath
  <2>2. YourTurn(lastPlayerTurn) /\ lastPlayerTurn \in Slots /\ UNCHANGED inbox
      BY <1>1, <1>6 DEF MainYourTurn
  <2>3. Player \in m_players /\ m_players \subseteq connected /\ Player \in Guids
    <3>1. Player \in m_players
        BY <2>2, GameIsComplete DEF BeforeGame, Player
    <3>. QED
        BY <3>1 DEF GuestsFit, NobodyLost, TypeInv, TypeOK
  <2>4. PICK targets :
            /\ mainPc' = "clear"
            /\ yourTurn' = [yourTurn EXCEPT ![Player] = Append(@, targets)]
            /\ UNCHANGED <<lastPlayerTurn, packetPc, playersIDs>>
      BY <1>1, <2>2, <2>3 DEF YourTurn, GetPlayers, Player, turnVars, packetVars, playerVars
  <2>5. yourTurn[Player] = << >> /\ yourTurn \in [Guids -> Seq(SUBSET Slots)]
      BY <2>1, <2>3 DEF Started, NobodyAsked, TypeInv, TypeOK
  <2>6. yourTurn'[Player] = <<targets>> /\ Len(<<targets>>) = 1
      BY <2>3, <2>4, <2>5
  <2>7. \A g \in Guids \ {Player} : yourTurn'[g] = << >>
      BY <2>1, <2>4, <2>5 DEF Started, NobodyAsked
  <2>8. OnlyPlayerAsked'
    <3>1. Player' = Player
        BY <2>4 DEF Player
    <3>. QED
        BY <2>3, <2>6, <2>7, <3>1, Zenon DEF OnlyPlayerAsked
  <2>9. Asked'
      BY <2>1, <2>2, <2>4, <2>8 DEF Started, Asked, Given
  <2>. QED
      BY <2>1, <2>9 DEF TurnStep, OnPath
<1>. QED
    BY <1>3, <1>4, <1>5, <1>6 DEF Main

\* The player who is asked answers, and nobody else.
LEMMA AnswerTurns ==
    ASSUME TurnInv, TypeInv', OnlyAnswers', g_networkState = "NS_GameStarted", Environment
    PROVE  TurnStep
<1>. USE DEF TurnInv, LosslessInv, GameInv, SafeInv
<1>1. PICK g \in Guids : Connect(g) \/ ChooseClass(g) \/ Act(g)
    BY DEF Environment, Lose, NobodyLost
<1>2. UNCHANGED serverVars
    BY <1>1, Zenon DEF Connect, ChooseClass, Act
<1>3. /\ inbox \in Seq(Packet) /\ Len(inbox) \in Nat
      /\ yourTurn \in [Guids -> Seq(SUBSET Slots)]
    BY LenProperties DEF TypeInv, TypeOK
<1>4. \A packet \in Packet : Post(packet) => packet.id \in TurnPackets
  <2>. SUFFICES ASSUME NEW packet \in Packet, Post(packet)
                PROVE  packet.id \in TurnPackets
      OBVIOUS
  <2>1. Len(inbox) + 1 \in DOMAIN inbox' /\ inbox'[Len(inbox) + 1] = packet
      BY <1>3, AppendProperties DEF Post
  <2>. QED
      BY <1>2, <2>1 DEF OnlyAnswers, serverVars, BeforeGame
<1>5. CASE Connect(g)
  <2>1. ~Post([id |-> "NEW_INCOMING_CONNECTION", guid |-> g])
    <3>1. [id |-> "NEW_INCOMING_CONNECTION", guid |-> g] \in Packet
        BY DEF Packet
    <3>. QED
        BY <1>4, <3>1 DEF TurnPackets
  <2>2. UNCHANGED <<inbox, yourTurn>>
      BY <1>5, <2>1 DEF Connect
  <2>. QED
      BY <1>2, <2>2 DEF serverVars, playerVars, turnVars, packetVars, TurnStep, OnPath, Given,
         Wanted, Started, Asked, Answered, Resolved, Dropped, NobodyAsked, OnlyPlayerAsked,
         Player
<1>6. CASE ChooseClass(g)
  <2>1. \A class \in Classes : [id |-> "LOBBY_READY", guid |-> g, class |-> class] \in Packet
      BY DEF Packet
  <2>. QED
      BY <1>4, <1>6, <2>1 DEF ChooseClass, TurnPackets
<1>7. CASE Act(g)
  <2>1. Asked /\ Player = g /\ ~Dropped
      BY <1>7 DEF Act, TurnPath, OnPath, Wanted, Started, Asked, Answered, Resolved, Dropped,
                  NobodyAsked, OnlyPlayerAsked
  <2>2. PICK packet : Post(packet) /\ packet.guid = g
    <3>1. ASSUME NEW t, Post([id |-> "PLAYER_ATTACK", guid |-> g, target |-> t])
          PROVE  \E packet : Post(packet) /\ packet.guid = g
        BY <3>1
    <3>2. CASE Post([id |-> "PLAYER_DEFEND", guid |-> g])
        BY <3>2
    <3>3. CASE Post([id |-> "PLAYER_HEAL", guid |-> g])
        BY <3>3
    <3>. QED
        BY <1>7, <3>1, <3>2, <3>3 DEF Act
  <2>3. yourTurn' = [yourTurn EXCEPT ![g] = Tail(@)]
      BY <1>7 DEF Act
  <2>4. Tail(yourTurn[g]) = << >>
    <3>1. Len(yourTurn[g]) = 1 /\ yourTurn[g] \in Seq(SUBSET Slots)
        BY <1>3, <2>1 DEF Asked, OnlyPlayerAsked
    <3>2. yourTurn[g] # << >>
        BY <1>7 DEF Act
    <3>3. Tail(yourTurn[g]) \in Seq(SUBSET Slots) /\ Len(Tail(yourTurn[g])) = 0
        BY <3>1, <3>2, HeadTailProperties
    <3>. QED
        BY <3>3, EmptySeq
  <2>5. NobodyAsked'
      BY <1>3, <2>1, <2>3, <2>4 DEF Asked, OnlyPlayerAsked, NobodyAsked
  <2>6. Len(inbox') = 1 /\ inbox'[1] = packet
      BY <2>1, <2>2 DEF Post, Asked
  <2>7. Answered'
      BY <1>2, <2>1, <2>2, <2>5, <2>6 DEF serverVars, playerVars, turnVars, packetVars,
         Asked, Answered, Given, Player
  <2>. QED
      BY <2>1, <2>7 DEF TurnStep, OnPath
<1>. QED
    BY <1>1, <1>5, <1>6, <1>7

\* The answer is resolved, and the next turn wanted when that is done.
LEMMA HandlerTurns ==
    ASSUME TurnInv, OnlyAnswers, PacketThread, failure' = "none",
           g_networkState = "NS_GameStarted", g_networkState' = "NS_GameStarted"
    PROVE  TurnStep
<1>. USE DEF TurnInv, LosslessInv, GameInv, SafeInv
<1>1. OnPath \/ Dropped
    BY DEF TurnPath
<1>2. /\ ~Abort("unregistered guid") /\ ~Abort("null character")
      /\ ~Abort("no winner")
    BY DEF Abort
<1>3. inbox \in Seq(Packet)
    BY DEF TypeInv, TypeOK
<1>4. ASSUME NEW id, Receive(id), packetPc' \in {"isGameOver", "startTurn"},
             UNCHANGED <<isDefineTurn, mainPc, yourTurn>>
      PROVE  TurnStep
  <2>1. Answered /\ ~Dropped
      BY <1>1, <1>4 DEF Receive, OnPath, Wanted, Started, Asked, Resolved, Dropped
  <2>2. inbox' = << >>
    <3>1. inbox' = Tail(inbox) /\ inbox # << >> /\ Len(inbox) = 1
        BY <1>4, <2>1 DEF Receive, Answered
    <3>2. inbox' \in Seq(Packet) /\ Len(inbox') = 0
        BY <1>3, <3>1, HeadTailProperties
    <3>. QED
        BY <3>2, EmptySeq
  <2>3. Resolved'
      BY <1>4, <2>1, <2>2 DEF Answered, Resolved, Given, NobodyAsked
  <2>. QED
      BY <2>1, <2>3 DEF TurnStep, OnPath
<1>5. CASE OnIncomingConnection \/ OnLobbyReady \/ OnLostConnection
  <2>1. PICK id \in {"NEW_INCOMING_CONNECTION", "LOBBY_READY", "CONNECTION_LOST"} : Receive(id)
      BY <1>5 DEF OnIncomingConnection, OnLobbyReady, OnLostConnection
  <2>2. 1 \in DOMAIN inbox /\ inbox[1].id = id
      BY <1>3, <2>1, ReceivedPositions DEF Receive, Received
  <2>. QED
      BY <2>2 DEF OnlyAnswers, TurnPackets, BeforeGame
<1>6. CASE CompareTurn \/ TransferTurn
    BY <1>6 DEF CompareTurn, TransferTurn, PacketStep, NobodyLost
<1>7. CASE ScanFails \/ NoWinner
    BY <1>2, <1>7 DEF ScanFails, NoWinner
<1>8. CASE GameIsOver
    BY <1>8 DEF GameIsOver
<1>9. CASE AnnounceWinner
    BY <1>9 DEF AnnounceWinner, WinnerStands
<1>10. CASE GameGoesOn
  <2>1. /\ packetPc = "isGameOver" /\ packetPc' = "startTurn"
        /\ UNCHANGED <<isDefineTurn, mainPc, inbox, yourTurn>>
      BY <1>10 DEF GameGoesOn, PacketStep, ReturnPc, NobodyLost, turnVars, clientVars
  <2>2. Resolved /\ ~Dropped
      BY <1>1, <2>1 DEF OnPath, Wanted, Started, Asked, Answered, Dropped
  <2>3. Resolved'
      BY <2>1, <2>2 DEF Resolved, Given, NobodyAsked
  <2>. QED
      BY <2>2, <2>3 DEF TurnStep, OnPath
<1>11. CASE ResolveAttack
  <2>1. /\ packetPc' \in {"isGameOver", "startTurn"}
        /\ UNCHANGED <<isDefineTurn, mainPc, yourTurn>>
      BY <1>2, <1>11 DEF ResolveAttack, GetPlayers, Characters, Strike, clientVars, turnVars
  <2>. QED
      BY <1>4, <1>11, <2>1 DEF ResolveAttack
<1>12. CASE ResolveDefend \/ ResolveHeal
  <2>1. /\ packetPc' = "startTurn"
        /\ UNCHANGED <<isDefineTurn, mainPc, yourTurn>>
      BY <1>2, <1>12 DEF ResolveDefend, ResolveHeal, GetPlayer, GetPlayers, Characters,
                         clientVars, turnVars
  <2>. QED
      BY <1>4, <1>12, <2>1 DEF ResolveDefend, ResolveHeal
<1>13. CASE StartTurn
  <2>1. /\ packetPc = "startTurn" /\ packetPc' = "receive" /\ isDefineTurn'
        /\ UNCHANGED <<mainPc, inbox, yourTurn>>
      BY <1>13 DEF StartTurn, PacketStep, clientVars
  <2>2. Resolved /\ ~Dropped
      BY <1>1, <2>1 DEF OnPath, Wanted, Started, Asked, Answered, Dropped
  <2>3. IF mainPc = "clear" THEN Dropped' ELSE Wanted'
      BY <2>1, <2>2 DEF Resolved, Given, Dropped, Wanted, NobodyAsked
  <2>. QED
      BY <2>1, <2>2, <2>3 DEF TurnStep, OnPath
<1>. QED
    BY <1>5, <1>6, <1>7, <1>8, <1>9, <1>10, <1>11, <1>12, <1>13 DEF PacketThread

\* Only OnLobbyReady starts a game.
LEMMA StartsOnReady ==
    ASSUME LosslessInv, Next, g_networkState' = "NS_GameStarted",
           g_networkState # "NS_GameStarted"
    PROVE  OnLobbyReady
<1>1. CASE Main
  <2>1. MainInit \/ MainPublish \/ QuietStep
      BY <1>1, MainQuiet DEF LosslessInv, GameInv
  <2>. QED
      BY <2>1 DEF MainInit, MainPublish, QuietStep
<1>2. CASE Environment
    BY <1>2, Zenon DEF Environment, Connect, ChooseClass, Act, Lose, serverVars
<1>3. CASE PacketThread
  <2>. USE DEF Abort, PacketStep
  <2>1. CASE OnIncomingConnection \/ OnLostConnection \/ ScanFails \/ NoWinner
      BY <2>1 DEF OnIncomingConnection, OnLostConnection, GetPlayer, GetPlayers, ScanFails,
                  NoWinner
  <2>2. CASE CompareTurn \/ TransferTurn \/ GameGoesOn \/ GameIsOver \/ StartTurn
      BY <2>2 DEF CompareTurn, TransferTurn, GameGoesOn, GameIsOver, StartTurn
  <2>3. CASE AnnounceWinner \/ ResolveDefend \/ ResolveHeal
      BY <2>3 DEF AnnounceWinner, GetPlayerStats, ResolveDefend, ResolveHeal, GetPlayer,
                  GetPlayers, Characters
  <2>4. CASE ResolveAttack
      BY <2>4 DEF ResolveAttack, Strike, GetPlayers, Characters
  <2>. QED
      BY <1>3, <2>1, <2>2, <2>3, <2>4 DEF PacketThread
<1>. QED
    BY <1>1, <1>2, <1>3 DEF Next

LEMMA TurnInit == LossStates = {} /\ Init => TurnInv
BY LosslessInit DEF TurnInv, TurnPath, Init

\* A game starts with a turn on its path, and every step of it does with the turn
\* what TurnStep says.
LEMMA TurnNext ==
    ASSUME TurnInv, [Next]_vars
    PROVE  /\ TurnInv'
           /\ g_networkState' = "NS_GameStarted"
                  => IF g_networkState = "NS_GameStarted" THEN TurnStep ELSE OnPath'
<1>1. LosslessInv /\ LosslessInv'
    BY LosslessNext DEF TurnInv
<1>2. OnlyAnswers /\ OnlyAnswers'
    BY <1>1, AnswersOnly, PTL
<1>3. g_networkState' = "NS_GameStarted"
          => IF g_networkState = "NS_GameStarted" THEN TurnStep ELSE OnPath'
  <2>1. CASE UNCHANGED vars
      BY <2>1 DEF vars, playerVars, turnVars, packetVars, clientVars, TurnStep, OnPath, Given,
         Wanted, Started, Asked, Answered, Resolved, Dropped, NobodyAsked, OnlyPlayerAsked,
         Player
  <2>2. CASE Next /\ g_networkState' = "NS_GameStarted" /\ g_networkState # "NS_GameStarted"
      BY <1>1, <2>2, StartsOnReady, GameBegins DEF OnPath
  <2>3. CASE Next /\ g_networkState' = "NS_GameStarted" /\ g_networkState = "NS_GameStarted"
    <3>1. failure' = "none" /\ TypeInv'
        BY <1>1 DEF LosslessInv, NothingFails, GameInv, SafeInv
    <3>. QED
        BY <1>2, <2>3, <3>1, MainTurns, HandlerTurns, AnswerTurns DEF Next
  <2>. QED
      BY <2>1, <2>2, <2>3
<1>4. TurnPath'
    BY <1>3 DEF TurnInv, TurnPath, TurnStep
<1>. QED
    BY <1>1, <1>3, <1>4 DEF TurnInv

LEMMA TurnHolds == LossStates = {} /\ Spec => []TurnInv
BY TurnInit, TurnNext, PTL DEF Spec

-----------------------------------------------------------------------------
(* Counting turns.                                                         *)

LEMMA NobodyCounted == ASSUME NobodyAsked PROVE Cardinality(Unanswered) = 0
<1>1. Unanswered = {}
    BY EmptySeq DEF NobodyAsked, Unanswered
<1>. QED
    BY <1>1, FS_EmptySet

LEMMA PlayerCounted == ASSUME OnlyPlayerAsked PROVE Cardinality(Unanswered) = 1
<1>1. ASSUME NEW g \in Guids, NEW n \in 1 .. 2
      PROVE  n <= Len(yourTurn[g]) <=> g = Player /\ n = 1
  <2>1. CASE g = Player
    <3>1. Len(yourTurn[g]) = 1
        BY <2>1, Zenon DEF OnlyPlayerAsked
    <3>2. n <= 1 <=> n = 1
        OBVIOUS
    <3>. QED
        BY <2>1, <3>1, <3>2
  <2>2. CASE g # Player
    <3>1. Len(yourTurn[g]) = 0
        BY <2>2, EmptySeq DEF OnlyPlayerAsked
    <3>. QED
        BY <2>2, <3>1
  <2>. QED
      BY <2>1, <2>2
<1>2. ASSUME NEW u \in Guids \X (1 .. 2)
      PROVE  u[1] \in Guids /\ u[2] \in 1 .. 2 /\ u = <<u[1], u[2]>>
    OBVIOUS
<1>3. <<Player, 1>> \in Guids \X (1 .. 2)
    BY DEF OnlyPlayerAsked
<1>4. \A u \in Unanswered : u = <<Player, 1>>
    BY <1>1, <1>2 DEF Unanswered
<1>5. <<Player, 1>> \in Unanswered
    BY <1>1, <1>3 DEF Unanswered
<1>6. Unanswered = {<<Player, 1>>}
    BY <1>4, <1>5
<1>. QED
    BY <1>6, FS_Singleton

LEMMA AnswersCounted ==
    ASSUME inbox \in Seq(Packet), OnlyAnswers, g_networkState = "NS_GameStarted"
    PROVE  /\ Answers = DOMAIN inbox
           /\ inbox = << >> => Cardinality(Answers) = 0
           /\ Len(inbox) = 1 => Answers = {1} /\ Cardinality(Answers) = 1
<1>1. Answers = DOMAIN inbox
    BY DEF Answers, OnlyAnswers, BeforeGame
<1>2. inbox = << >> => Cardinality(Answers) = 0
    BY <1>1, EmptySeq, FS_EmptySet
<1>3. Len(inbox) = 1 => Answers = {1} /\ Cardinality(Answers) = 1
  <2>1. Len(inbox) = 1 => DOMAIN inbox = {1}
      BY LenProperties
  <2>. QED
      BY <1>1, <2>1, FS_Singleton
<1>. QED
    BY <1>1, <1>2, <1>3

\* The turn on its path counts, the dropped one does not.
LEMMA TurnCounted ==
    TurnInv /\ g_networkState = "NS_GameStarted"
        => (OnPath => TurnsUnderWay = 1) /\ (Dropped => TurnsUnderWay = 0)
<1>. SUFFICES ASSUME TurnInv, g_networkState = "NS_GameStarted"
              PROVE  (OnPath => TurnsUnderWay = 1) /\ (Dropped => TurnsUnderWay = 0)
    OBVIOUS
<1>0. inbox \in Seq(Packet) /\ OnlyAnswers
    BY AnswersOnly DEF TurnInv, LosslessInv, GameInv, SafeInv, TypeInv, TypeOK
<1>. USE DEF TurnsUnderWay, One, Given
<1>1. CASE Wanted
    BY <1>0, <1>1, NobodyCounted, AnswersCounted DEF Wanted, Dropped
<1>2. CASE Started
    BY <1>0, <1>2, NobodyCounted, AnswersCounted DEF Started, Dropped
<1>3. CASE Asked
  <2>1. ~NobodyAsked
      BY <1>3 DEF Asked, OnlyPlayerAsked, NobodyAsked
  <2>. QED
      BY <1>0, <1>3, <2>1, PlayerCounted, AnswersCounted DEF Asked, Dropped
<1>4. CASE Answered
    BY <1>0, <1>4, NobodyCounted, AnswersCounted DEF Answered, Dropped
<1>5. CASE Resolved
    BY <1>0, <1>5, NobodyCounted, AnswersCounted DEF Resolved, Dropped
<1>6. CASE Dropped /\ ~OnPath
    BY <1>0, <1>6, NobodyCounted, AnswersCounted DEF Dropped
<1>. QED
    BY <1>1, <1>2, <1>3, <1>4, <1>5, <1>6 DEF OnPath

\* Without losses no two turns are ever under way at once, for any number of
\* players and however the threads and the players interleave: isDefineTurn,
\* which both threads write without a lock (475, 702), is set again only when the
\* turn it started has been answered and resolved.
THEOREM OneTurn == LossStates = {} /\ Spec => []OneTurnAtATime
<1>1. TurnInv => OneTurnAtATime
  <2>1. ASSUME TurnInv, g_networkState = "NS_GameStarted" PROVE TurnsUnderWay <= 1
      BY <2>1, TurnCounted DEF TurnInv, TurnPath
  <2>. QED
      BY <2>1 DEF OneTurnAtATime
<1>. QED
    BY <1>1, TurnHolds, PTL

\* Without losses a game starts with a turn and keeps it, but for one place: the
\* handler asks for the next turn (475) while main has sent the last one and not
\* yet reached line 702, which clears the request. The turn is then gone for good.
THEOREM WhereTurnsAreDropped == LossStates = {} /\ Spec => TurnIsDroppedAtClearOnly
<1>. DEFINE Kept == g_networkState' = "NS_GameStarted"
                        => \/ TurnsUnderWay' = IF g_networkState = "NS_GameStarted"
                                                THEN TurnsUnderWay ELSE 1
                           \/ mainPc = "clear" /\ packetPc = "startTurn"
<1>1. TurnInv /\ [Next]_vars => TurnInv' /\ [Kept]_vars
  <2>. SUFFICES ASSUME TurnInv, [Next]_vars PROVE TurnInv' /\ Kept
      OBVIOUS
  <2>1. TurnInv'
      BY TurnNext
  <2>2. ASSUME g_networkState = "NS_GameStarted"
        PROVE  (OnPath => TurnsUnderWay = 1) /\ (Dropped => TurnsUnderWay = 0)
      BY <2>2, TurnCounted
  <2>3. g_networkState' = "NS_GameStarted"
            => (OnPath' => TurnsUnderWay' = 1) /\ (Dropped' => TurnsUnderWay' = 0)
    <3>1. (TurnInv /\ g_networkState = "NS_GameStarted"
              => (OnPath => TurnsUnderWay = 1) /\ (Dropped => TurnsUnderWay = 0))'
        BY TurnCounted, PTL
    <3>. QED
        BY <2>1, <3>1
  <2>4. g_networkState' = "NS_GameStarted"
            => IF g_networkState = "NS_GameStarted" THEN TurnStep ELSE OnPath'
      BY TurnNext
  <2>5. g_networkState = "NS_GameStarted" => OnPath \/ Dropped
      BY DEF TurnInv, TurnPath
  <2>. QED
      BY <2>1, <2>2, <2>3, <2>4, <2>5 DEF TurnStep
<1>2. Spec /\ LossStates = {} => [][Kept]_vars
    BY <1>1, TurnInit, PTL DEF Spec
<1>. QED
    BY <1>2, PTL DEF TurnIsDroppedAtClearOnly

\* Without losses every action the server reads in a game comes from the player
\* on turn: ResolveTurn, which never asks, needs not ask.
THEOREM OnlyHeIsHeard == LossStates = {} /\ Spec => []OnlyThePlayerOnTurnActs
<1>1. ASSUME TurnInv PROVE OnlyThePlayerOnTurnActs
  <2>. SUFFICES ASSUME g_networkState = "NS_GameStarted", NEW i \in Answers
                PROVE  inbox[i].guid = playersIDs[lastPlayerTurn]
      BY DEF OnlyThePlayerOnTurnActs
  <2>1. inbox \in Seq(Packet) /\ OnlyAnswers
      BY <1>1, AnswersOnly DEF TurnInv, LosslessInv, GameInv, SafeInv, TypeInv, TypeOK
  <2>2. CASE inbox = << >>
      BY <2>1, <2>2, AnswersCounted, EmptySeq
  <2>3. CASE Answered
      BY <2>1, <2>3, AnswersCounted DEF Answered, Player
  <2>. QED
      BY <1>1, <2>2, <2>3 DEF TurnInv, TurnPath, OnPath, Wanted, Started, Asked, Resolved,
                              Dropped
<1>. QED
    BY <1>1, TurnHolds, PTL
=============================================================================
