-------------------------- MODULE GameServerOutcome --------------------------
(***************************************************************************)
(* How a game goes, whatever connections are lost and whenever: theorems   *)
(* of GameServer about the players as a whole. They hold as long as no     *)
(* client finds the slots taken, see FewClients.                           *)
(***************************************************************************)
EXTENDS GameServerSafety

USE ConnectionsAssumption, GuidsAssumption

-----------------------------------------------------------------------------
(* The inductive invariant, on top of SafeInv.                             *)

\* Either there are not more clients than slots, or no connection is lost, so
\* that RakNet's own limit keeps the others out.
FewClients == Cardinality(Guids) <= MAX_CONNECTIONS \/ LossStates = {}

\* Whoever is known to the server or sends it a packet has a slot to go to.
GuestsFit ==
    /\ FewClients
    /\ LossStates = {} => /\ m_players \subseteq connected
                          /\ \A i \in DOMAIN inbox : inbox[i].guid \in connected
                          /\ Cardinality(connected) <= MAX_CONNECTIONS

\* From its start on a game has all its players, and each has a class.
FullGame ==
    g_networkState \notin BeforeGame =>
        /\ Cardinality(m_players) = MAX_CONNECTIONS
        /\ \A g \in m_players : m_class[g] # NoClass

\* The turn is that of a slot while main starts it.
TurnInRange ==
    /\ lastPlayerTurn <= MAX_CONNECTIONS
    /\ mainPc \in {"pick", "broadcast", "yourTurn"} => lastPlayerTurn \in Slots

Survivors == {g \in m_players : m_status[g] = "PS_Connected"}
Winners   == {g \in m_players : m_status[g] = "PS_Winner"}

\* A step takes at most one player out of the game, and then its end is
\* looked for.
Opponents ==
    g_networkState = "NS_GameStarted" =>
        /\ Survivors # {}
        /\ packetPc \in {"receive", "startTurn"} => Cardinality(Survivors) >= 2

\* The end of the game: the last survivor is found, then becomes the winner.
Ending ==
    g_networkState = "NS_GameOver" =>
        /\ packetPc = "announce" /\ winner # 0
               => Survivors = {playersIDs[winner]} /\ Winners = {}
        /\ ~(packetPc = "announce" /\ winner # 0) => Survivors = {}
        /\ packetPc \in {"receive", "startTurn"} => \E w \in Guids : Winners = {w}

\* The players' part and the threads' part.
PartyInv == SlotsMatchPlayers /\ GuestsFit /\ FullGame /\ Opponents /\ Ending

GameInv == SafeInv /\ PartyInv /\ TurnInRange /\ GameSurvivesLosses

-----------------------------------------------------------------------------
(* Counting players by their slots.                                        *)

LEMMA SlotsCounted == IsFiniteSet(Slots) /\ Cardinality(Slots) = MAX_CONNECTIONS
<1>1. 1 \in Int /\ MAX_CONNECTIONS \in Int /\ ~(1 > MAX_CONNECTIONS)
    OBVIOUS
<1>2. /\ IsFiniteSet(1 .. MAX_CONNECTIONS)
      /\ Cardinality(1 .. MAX_CONNECTIONS) = MAX_CONNECTIONS - 1 + 1
    BY <1>1, FS_Interval
<1>. QED
    BY <1>2 DEF Slots

LEMMA PlayersCounted ==
    ASSUME TypeInv
    PROVE  IsFiniteSet(m_players) /\ Cardinality(m_players) \in Nat
<1>1. m_players \in SUBSET Guids
    BY DEF TypeInv, TypeOK
<1>2. IsFiniteSet(m_players)
    BY <1>1, FS_Subset
<1>. QED
    BY <1>2, FS_CardinalityType

\* Each player has a slot of his own.
LEMMA SeatsAreOwn ==
    ASSUME TypeInv, SlotsMatchPlayers
    PROVE  [g \in m_players |-> m_number[g]] \in Injection(m_players, Slots)
<1>. DEFINE f == [g \in m_players |-> m_number[g]]
<1>1. f \in [m_players -> Slots]
    BY DEF SlotsMatchPlayers
<1>2. \A g, h \in m_players : f[g] = f[h] => g = h
    BY DEF SlotsMatchPlayers
<1>. QED
    BY <1>1, <1>2 DEF Injection, IsInjective

LEMMA PlayersFit ==
    ASSUME TypeInv, SlotsMatchPlayers
    PROVE  Cardinality(m_players) <= MAX_CONNECTIONS
BY SeatsAreOwn, SlotsCounted, FS_Injection

\* With as many players as slots every slot is taken.
LEMMA AllSeated ==
    ASSUME TypeInv, SlotsMatchPlayers, Cardinality(m_players) = MAX_CONNECTIONS
    PROVE  /\ SlotGuids = m_players
           /\ \A s \in Slots : playersIDs[s] \in m_players
<1>. DEFINE f == [g \in m_players |-> m_number[g]]
<1>1. f \in Surjection(m_players, Slots)
    BY SeatsAreOwn, SlotsCounted, FS_Injection
<1>2. ASSUME NEW s \in Slots
      PROVE  \E g \in m_players : m_number[g] = s
    BY <1>1 DEF Surjection
<1>3. \A s \in Slots : playersIDs[s] \in m_players
    BY <1>2 DEF SlotsMatchPlayers
<1>4. m_players \subseteq SlotGuids
    BY DEF SlotsMatchPlayers, SlotGuids
<1>. QED
    BY <1>3, <1>4 DEF SlotGuids

\* The connected players and the slots they are found by.
LEMMA SurvivorsSeated ==
    ASSUME TypeInv, NumberIsSlot, SlotsMatchPlayers
    PROVE  /\ IsFiniteSet(Survivors) /\ IsFiniteSet(ConnectedSlots)
           /\ Cardinality(Survivors) \in Nat
           /\ Cardinality(ConnectedSlots) = Cardinality(Survivors)
           /\ \A s \in ConnectedSlots : playersIDs[s] \in Survivors
                                        /\ m_number[playersIDs[s]] = s
           /\ \A g \in Survivors : m_number[g] \in ConnectedSlots
                                   /\ playersIDs[m_number[g]] = g
<1>. DEFINE f == [g \in Survivors |-> m_number[g]]
<1>1. IsFiniteSet(Survivors) /\ Cardinality(Survivors) \in Nat
    BY PlayersCounted, FS_Subset, FS_CardinalityType DEF Survivors
<1>2. \A s \in ConnectedSlots : playersIDs[s] \in Survivors /\ m_number[playersIDs[s]] = s
    BY DEF ConnectedSlots, Survivors, NumberIsSlot
<1>3. \A g \in Survivors : m_number[g] \in ConnectedSlots /\ playersIDs[m_number[g]] = g
    BY DEF SlotsMatchPlayers, ConnectedSlots, Survivors
<1>4. f \in Bijection(Survivors, ConnectedSlots)
    BY <1>2, <1>3 DEF Bijection, Injection, IsInjective, Surjection
<1>5. IsFiniteSet(ConnectedSlots) /\ Cardinality(ConnectedSlots) = Cardinality(Survivors)
    BY <1>1, <1>4, FS_Bijection DEF ExistsBijection
<1>. QED
    BY <1>1, <1>2, <1>3, <1>5

-----------------------------------------------------------------------------
(* Room for everybody.                                                     *)

\* A packet just put on the queue is behind the others.
LEMMA PostedLast ==
    ASSUME inbox \in Seq(Packet), NEW packet \in Packet, Post(packet)
    PROVE  \A i \in DOMAIN inbox' : \/ i \in DOMAIN inbox /\ inbox'[i] = inbox[i]
                                    \/ i = Len(inbox) + 1 /\ inbox'[i] = packet
BY AppendProperties DEF Post

LEMMA SenderQueued ==
    ASSUME TypeInv, Received
    PROVE  \E i \in DOMAIN inbox : inbox[i].guid = sender
<1>1. 1 \in DOMAIN inbox /\ Head(inbox) = inbox[1]
    BY ReceivedPositions DEF TypeInv, TypeOK
<1>. QED
    BY <1>1 DEF sender

\* When the game is full nobody else is heard of.
LEMMA HouseFull ==
    ASSUME TypeInv, GuestsFit, Cardinality(m_players) = MAX_CONNECTIONS
    PROVE  \A i \in DOMAIN inbox : inbox[i].guid \in m_players
<1>1. /\ m_players \in SUBSET Guids /\ connected \in SUBSET Guids
      /\ \A i \in DOMAIN inbox : inbox[i].guid \in Guids
  <2>1. \A i \in DOMAIN inbox : inbox[i] \in Packet
      BY ElementOfSeq, LenProperties DEF TypeInv, TypeOK
  <2>2. \A packet \in Packet : packet.guid \in Guids
      BY DEF Packet
  <2>. QED
      BY <2>1, <2>2 DEF TypeInv, TypeOK
<1>2. CASE Cardinality(Guids) <= MAX_CONNECTIONS
  <2>1. /\ Cardinality(m_players) <= Cardinality(Guids)
        /\ Cardinality(Guids) = Cardinality(m_players) => Guids = m_players
      BY <1>1, FS_Subset
  <2>2. Cardinality(Guids) \in Nat
      BY FS_CardinalityType
  <2>3. Guids = m_players
      BY <1>2, <2>1, <2>2
  <2>. QED
      BY <1>1, <2>3
<1>3. CASE /\ m_players \subseteq connected
           /\ \A i \in DOMAIN inbox : inbox[i].guid \in connected
           /\ Cardinality(connected) <= MAX_CONNECTIONS
  <2>1. IsFiniteSet(connected) /\ Cardinality(connected) \in Nat
      BY <1>1, FS_Subset, FS_CardinalityType
  <2>2. /\ Cardinality(m_players) <= Cardinality(connected)
        /\ Cardinality(connected) = Cardinality(m_players) => connected = m_players
      BY <1>3, <2>1, FS_Subset
  <2>3. connected = m_players
      BY <1>3, <2>1, <2>2
  <2>. QED
      BY <1>3, <2>3
<1>. QED
    BY <1>2, <1>3 DEF GuestsFit, FewClients

\* A client that is not known yet finds a free slot.
LEMMA SlotIsFree ==
    ASSUME TypeInv, NumberIsSlot, SlotsMatchPlayers, GuestsFit,
           NEW i \in DOMAIN inbox, inbox[i].guid \notin m_players
    PROVE  /\ playersIDs[AvailableSlot] = NoGuid
           /\ Cardinality(m_players) # MAX_CONNECTIONS
<1>1. /\ Cardinality(m_players) \in Nat
      /\ Cardinality(m_players) < MAX_CONNECTIONS
    BY PlayersFit, PlayersCounted, HouseFull
<1>2. PICK s \in Slots : playersIDs[s] = NoGuid
  <2>. SUFFICES ASSUME \A s \in Slots : playersIDs[s] # NoGuid
                PROVE  FALSE
      OBVIOUS
  <2>. DEFINE f == [s \in Slots |-> playersIDs[s]]
  <2>1. f \in Injection(Slots, m_players)
      BY DEF SlotsMatchPlayers, NumberIsSlot, Injection, IsInjective
  <2>2. Cardinality(Slots) <= Cardinality(m_players)
      BY <2>1, PlayersCounted, FS_Injection
  <2>. QED
      BY <1>1, <2>2, SlotsCounted
<1>3. {t \in Slots : playersIDs[t] = NoGuid} \in SUBSET Nat
    BY DEF Slots
<1>4. AvailableSlot \in {t \in Slots : playersIDs[t] = NoGuid}
    BY <1>2, <1>3, LeastIsMember DEF AvailableSlot
<1>. QED
    BY <1>1, <1>4

\* The server hears of a client from a packet only.
LEMMA GuestsStay ==
    ASSUME TypeInv, GuestsFit, UNCHANGED connected,
           \/ inbox' = inbox /\ m_players' \subseteq m_players
           \/ Received /\ m_players' \subseteq m_players \cup {sender}
    PROVE  GuestsFit'
<1>1. CASE inbox' = inbox /\ m_players' \subseteq m_players
    BY <1>1 DEF GuestsFit
<1>2. CASE Received /\ m_players' \subseteq m_players \cup {sender}
  <2>1. \A i \in DOMAIN inbox' : i + 1 \in DOMAIN inbox /\ inbox'[i] = inbox[i + 1]
      BY <1>2, ReceivedPositions DEF TypeInv, TypeOK
  <2>2. \E i \in DOMAIN inbox : inbox[i].guid = sender
      BY <1>2, SenderQueued
  <2>. QED
      BY <1>2, <2>1, <2>2 DEF GuestsFit
<1>. QED
    BY <1>1, <1>2

LEMMA GuestsArrive ==
    ASSUME TypeInv, TypeInv', GuestsFit, Environment
    PROVE  GuestsFit'
<1>1. CASE LossStates # {}
    BY <1>1 DEF GuestsFit
<1>2. CASE /\ LossStates = {}
           /\ m_players \subseteq connected
           /\ \A i \in DOMAIN inbox : inbox[i].guid \in connected
           /\ Cardinality(connected) <= MAX_CONNECTIONS
  <2>1. PICK g \in Guids : Connect(g) \/ ChooseClass(g) \/ Act(g)
      BY <1>2 DEF Environment, Lose
  <2>2. UNCHANGED m_players
      BY <2>1, Zenon DEF Connect, ChooseClass, Act, serverVars, playerVars
  <2>3. /\ connected \subseteq connected' /\ connected' \subseteq connected \cup {g}
        /\ Cardinality(connected') <= MAX_CONNECTIONS
    <3>1. CASE UNCHANGED connected
        BY <1>2, <3>1
    <3>2. CASE /\ Cardinality(connected) < MAX_CONNECTIONS
               /\ connected' = connected \cup {g}
      <4>1. connected \in SUBSET Guids
          BY DEF TypeInv, TypeOK
      <4>2. IsFiniteSet(connected) /\ Cardinality(connected) \in Nat
          BY <4>1, FS_Subset, FS_CardinalityType
      <4>3. Cardinality(connected') = IF g \in connected THEN Cardinality(connected)
                                     ELSE Cardinality(connected) + 1
          BY <3>2, <4>2, FS_AddElement
      <4>. QED
          BY <3>2, <4>2, <4>3
    <3>. QED
        BY <2>1, <3>1, <3>2 DEF Connect, ChooseClass, Act
  <2>4. UNCHANGED inbox \/ \E packet \in Packet : /\ Post(packet)
                                                  /\ packet.guid \in connected'
    <3>1. CASE Connect(g)
      <4>1. /\ [id |-> "NEW_INCOMING_CONNECTION", guid |-> g] \in Packet
            /\ [id |-> "NEW_INCOMING_CONNECTION", guid |-> g].guid = g
          BY DEF Packet
      <4>. QED
          BY <3>1, <4>1 DEF Connect
    <3>2. CASE ChooseClass(g)
      <4>1. \A class \in Classes :
                /\ [id |-> "LOBBY_READY", guid |-> g, class |-> class] \in Packet
                /\ [id |-> "LOBBY_READY", guid |-> g, class |-> class].guid = g
          BY DEF Packet
      <4>2. g \in connected'
          BY <3>2 DEF ChooseClass
      <4>. QED
          BY <3>2, <4>1, <4>2 DEF ChooseClass
    <3>3. CASE Act(g)
      <4>1. Head(yourTurn[g]) \in SUBSET Slots
          BY <3>3, HeadTailProperties DEF Act, TypeInv, TypeOK
      <4>2. /\ \A t \in Slots :
                   /\ [id |-> "PLAYER_ATTACK", guid |-> g, target |-> t] \in Packet
                   /\ [id |-> "PLAYER_ATTACK", guid |-> g, target |-> t].guid = g
            /\ [id |-> "PLAYER_DEFEND", guid |-> g] \in Packet
            /\ [id |-> "PLAYER_DEFEND", guid |-> g].guid = g
            /\ [id |-> "PLAYER_HEAL", guid |-> g] \in Packet
            /\ [id |-> "PLAYER_HEAL", guid |-> g].guid = g
          BY DEF Packet
      <4>3. g \in connected'
          BY <3>3 DEF Act
      <4>. QED
          BY <3>3, <4>1, <4>2, <4>3 DEF Act
    <3>. QED
        BY <2>1, <3>1, <3>2, <3>3
  <2>5. \A i \in DOMAIN inbox' : inbox'[i].guid \in connected'
      BY <1>2, <2>3, <2>4, PostedLast DEF TypeInv, TypeOK
  <2>. QED
      BY <1>2, <2>2, <2>3, <2>5 DEF GuestsFit
<1>. QED
    BY <1>1, <1>2 DEF GuestsFit

-----------------------------------------------------------------------------
(* main's part, and what may fail.                                         *)

LEMMA MainKeepsRange ==
    ASSUME SafeInv, FullGame, TurnInRange, Main
    PROVE  TurnInRange'
<1>. USE DEF TurnInRange, MainStep, turnVars
<1>1. lastPlayerTurn \in Nat
    BY DEF SafeInv, TypeInv, TypeOK
<1>2. CASE MainInit \/ MainListen \/ MainPublish \/ MainPoll \/ MainNoTurn \/ MainClear
    BY <1>2 DEF MainInit, MainListen, MainPublish, MainPoll, MainNoTurn, MainClear
<1>3. CASE MainNextTurn
  <2>1. g_networkState \notin BeforeGame
      BY <1>3 DEF MainNextTurn, SafeInv, LobbyIsPeaceful
  <2>2. Cardinality(m_players) = MAX_CONNECTIONS
      BY <2>1 DEF FullGame
  <2>3. NextNumber \in Slots
      BY <1>1, <2>2 DEF NextNumber, Slots
  <2>. QED
      BY <1>3, <2>3 DEF MainNextTurn, Slots
<1>4. CASE MainPick
  <2>. DEFINE ahead == {s \in ConnectedSlots : s >= lastPlayerTurn}
  <2>1. CASE Abort("unregistered guid")
      BY <1>4, <2>1 DEF Abort
  <2>2. CASE lastPlayerTurn' = IF ahead = {} THEN lastPlayerTurn
                               ELSE m_number[playersIDs[Least(ahead)]]
    <3>1. ahead \in SUBSET ConnectedSlots /\ ahead \in SUBSET Nat
        BY DEF ConnectedSlots, Slots
    <3>2. ahead # {} => m_number[playersIDs[Least(ahead)]] \in Slots
        BY <3>1, LeastIsMember, ConnectedTyped DEF SafeInv, TypeInv
    <3>. QED
        BY <1>4, <2>2, <3>2 DEF MainPick, Slots
  <2>. QED
      BY <1>4, <2>1, <2>2 DEF MainPick, GetPlayers
<1>5. CASE MainBroadcast
    BY <1>5 DEF MainBroadcast, GetPlayerStats, GetPlayers, Characters, Abort
<1>6. CASE MainYourTurn
    BY <1>6 DEF MainYourTurn, YourTurn, GetPlayers, Abort
<1>. QED
    BY <1>2, <1>3, <1>4, <1>5, <1>6 DEF Main

\* The packet thread never moves main, nor the turn.
LEMMA ThreadsApart ==
    ASSUME PacketThread
    PROVE  UNCHANGED <<lastPlayerTurn, mainPc>>
<1>. USE DEF turnVars, Abort, PacketStep
<1>1. CASE OnIncomingConnection \/ OnLobbyReady \/ OnLostConnection
    BY <1>1 DEF OnIncomingConnection, OnLobbyReady, OnLostConnection, GetPlayer,
                GetPlayers
<1>2. CASE CompareTurn \/ TransferTurn \/ GameGoesOn \/ GameIsOver \/ StartTurn
    BY <1>2 DEF CompareTurn, TransferTurn, GameGoesOn, GameIsOver, StartTurn
<1>3. CASE ScanFails \/ NoWinner \/ AnnounceWinner
    BY <1>3 DEF ScanFails, NoWinner, AnnounceWinner, GetPlayerStats, GetPlayers,
                Characters
<1>4. CASE ResolveAttack
    BY <1>4 DEF ResolveAttack, Strike, GetPlayers, Characters
<1>5. CASE ResolveDefend \/ ResolveHeal
    BY <1>5 DEF ResolveDefend, ResolveHeal, GetPlayer, GetPlayers, Characters
<1>. QED
    BY <1>1, <1>2, <1>3, <1>4, <1>5 DEF PacketThread

LEMMA RangeKeeps ==
    ASSUME SafeInv, FullGame, TurnInRange, [Next]_vars
    PROVE  TurnInRange'
<1>1. CASE UNCHANGED <<lastPlayerTurn, mainPc>>
    BY <1>1 DEF TurnInRange
<1>2. Environment => UNCHANGED <<lastPlayerTurn, mainPc>>
    BY Zenon DEF Environment, Connect, ChooseClass, Act, Lose, serverVars, turnVars
<1>. QED
    BY <1>1, <1>2, ThreadsApart, MainKeepsRange DEF Next, vars, turnVars

\* Everything a handler may look up in a game.
LEMMA GameIsComplete ==
    ASSUME GameInv, g_networkState \notin BeforeGame
    PROVE  /\ SlotGuids = m_players
           /\ \A s \in Slots : playersIDs[s] \in m_players
           /\ \A g \in m_players : m_class[g] # NoClass
           /\ \A i \in DOMAIN inbox : inbox[i].guid \in m_players
BY AllSeated, HouseFull DEF GameInv, PartyInv, SafeInv, FullGame

\* In a game nothing fails but the search for a winner.
LEMMA GameGoesThrough ==
    ASSUME GameInv, g_networkState \notin BeforeGame, Next
    PROVE  UNCHANGED failure \/ NoWinner
<1>1. /\ SlotGuids = m_players
      /\ \A s \in Slots : playersIDs[s] \in m_players
      /\ \A g \in m_players : m_class[g] # NoClass
    BY GameIsComplete
<1>2. \A id : Receive(id) => sender \in m_players
  <2>. SUFFICES ASSUME NEW id, Receive(id) PROVE sender \in m_players
      OBVIOUS
  <2>1. \E i \in DOMAIN inbox : inbox[i].guid = sender
      BY SenderQueued DEF Receive, Received, GameInv, SafeInv
  <2>. QED
      BY <2>1, GameIsComplete
<1>3. CASE MainPick
  <2>1. {playersIDs[s] : s \in Slots} \subseteq m_players
      BY <1>1
  <2>. QED
      BY <1>3, <2>1 DEF MainPick, GetPlayers
<1>4. CASE MainBroadcast
    BY <1>1, <1>4 DEF MainBroadcast, GetPlayerStats, GetPlayers, Characters
<1>5. CASE MainYourTurn
  <2>1. lastPlayerTurn \in Slots
      BY <1>5 DEF MainYourTurn, GameInv, TurnInRange
  <2>. QED
      BY <1>1, <1>5, <2>1 DEF MainYourTurn, YourTurn, GetPlayers
<1>6. CASE Main /\ ~MainPick /\ ~MainBroadcast /\ ~MainYourTurn
    BY <1>6 DEF Main, MainInit, MainListen, MainPublish, MainPoll, MainNoTurn,
                MainNextTurn, MainClear
<1>7. CASE OnIncomingConnection \/ OnLobbyReady \/ OnLostConnection
    BY <1>2, <1>7 DEF OnIncomingConnection, OnLobbyReady, OnLostConnection,
                      GetPlayer, GetPlayers
<1>8. CASE CompareTurn \/ TransferTurn \/ GameGoesOn \/ GameIsOver \/ StartTurn
    BY <1>8 DEF CompareTurn, TransferTurn, GameGoesOn, GameIsOver, StartTurn, PacketStep
<1>9. CASE ScanFails
    BY <1>1, <1>9 DEF ScanFails
<1>10. CASE AnnounceWinner
    BY <1>1, <1>10 DEF AnnounceWinner, GetPlayerStats, GetPlayers, Characters
<1>11. CASE ResolveAttack
  <2>1. Head(inbox).target \in Slots
      BY <1>11, PacketTyped DEF ResolveAttack, GameInv, SafeInv, TypeInv
  <2>2. playersIDs[Head(inbox).target] \in m_players /\ sender \in m_players
      BY <1>1, <1>2, <1>11, <2>1 DEF ResolveAttack
  <2>3. \A roll : Strike(playersIDs[Head(inbox).target], roll) => UNCHANGED failure
      BY DEF Strike
  <2>. QED
      BY <1>1, <1>11, <2>2, <2>3 DEF ResolveAttack, GetPlayers, Characters
<1>12. CASE ResolveDefend \/ ResolveHeal
    BY <1>1, <1>2, <1>12 DEF ResolveDefend, ResolveHeal, GetPlayer, GetPlayers,
                             Characters
<1>13. CASE Environment
    BY <1>13, Zenon DEF Environment, Connect, ChooseClass, Act, Lose, serverVars
<1>. QED
    BY <1>3, <1>4, <1>5, <1>6, <1>7, <1>8, <1>9, <1>10, <1>11, <1>12, <1>13
    DEF Next, PacketThread

\* Whoever changes the state of the game has not failed.
LEMMA StateMoves ==
    ASSUME Next, g_networkState' # g_networkState
    PROVE  failure = "none" /\ failure' = failure
<1>1. CASE Main
    BY <1>1 DEF Main, MainInit, MainListen, MainPublish, MainPoll, MainNoTurn,
                MainNextTurn, MainClear, MainPick, MainBroadcast, MainYourTurn,
                YourTurn, GetPlayerStats, GetPlayers, Characters, Abort,
                MainStep, Running
<1>2. CASE PacketThread
  <2>1. OnLobbyReady \/ GameIsOver
    <3>1. CASE OnIncomingConnection \/ OnLostConnection
        BY <3>1 DEF OnIncomingConnection, OnLostConnection, GetPlayer, GetPlayers, Abort
    <3>2. CASE CompareTurn \/ TransferTurn \/ GameGoesOn \/ StartTurn
        BY <3>2 DEF CompareTurn, TransferTurn, GameGoesOn, StartTurn, PacketStep
    <3>3. CASE ScanFails \/ NoWinner \/ AnnounceWinner
        BY <3>3 DEF ScanFails, NoWinner, AnnounceWinner, GetPlayerStats, GetPlayers,
                    Characters, Abort
    <3>4. CASE ResolveAttack
        BY <3>4 DEF ResolveAttack, Strike, GetPlayers, Characters, Abort
    <3>5. CASE ResolveDefend \/ ResolveHeal
        BY <3>5 DEF ResolveDefend, ResolveHeal, GetPlayer, GetPlayers, Characters, Abort
    <3>. QED
        BY <1>2, <3>1, <3>2, <3>3, <3>4, <3>5 DEF PacketThread
  <2>. QED
      BY <2>1 DEF OnLobbyReady, GameIsOver, Receive, GetPlayer, GetPlayers, Abort,
                  PacketStep, Running
<1>3. CASE Environment
    BY <1>3, Zenon DEF Environment, Connect, ChooseClass, Act, Lose, serverVars
<1>. QED
    BY <1>1, <1>2, <1>3 DEF Next

LEMMA SurvivalKeeps ==
    ASSUME GameInv, [Next]_vars
    PROVE  GameSurvivesLosses'
<1>. SUFFICES ASSUME g_networkState' = "NS_GameStarted" PROVE failure' = "none"
    BY DEF GameSurvivesLosses
<1>1. CASE UNCHANGED vars
    BY <1>1 DEF vars, GameInv, GameSurvivesLosses
<1>2. CASE Next /\ g_networkState' # g_networkState
    BY <1>2, StateMoves
<1>3. CASE Next /\ g_networkState' = g_networkState
  <2>1. g_networkState = "NS_GameStarted" /\ failure = "none"
      BY <1>3 DEF GameInv, GameSurvivesLosses
  <2>2. ~NoWinner
      BY <2>1 DEF NoWinner, GameInv, SafeInv, WinnerStands
  <2>3. g_networkState \notin BeforeGame
      BY <2>1 DEF BeforeGame
  <2>. QED
      BY <1>3, <2>1, <2>2, <2>3, GameGoesThrough
<1>. QED
    BY <1>1, <1>2, <1>3

-----------------------------------------------------------------------------
(* The course of the game, and the abstract game it implements.            *)

Phase == IF g_networkState = "NS_GameStarted" THEN "playing"
         ELSE IF g_networkState = "NS_GameOver" THEN "over" ELSE "lobby"

Alive == {g \in m_players : m_status[g] \in {"PS_Connected", "PS_Winner"}}

GameStep == Game!Next \/ UNCHANGED <<Phase, Alive>>

\* TurnGame counts as everybody does.
LEMMA GameCounts == ASSUME NEW S PROVE Game!Cardinality(S) = Cardinality(S)
BY DEF Game!Cardinality, Cardinality

\* There is no winner before the end.
LEMMA AliveSurvive ==
    ASSUME SafeInv, g_networkState # "NS_GameOver"
    PROVE  Alive = Survivors /\ Winners = {}
BY DEF SafeInv, WinnerAtTheEnd, Alive, Survivors, Winners

\* Steps that take nobody out of the game and bring nobody in.
LEMMA StillPlays ==
    ASSUME GameInv, SafeInv', GuestsFit',
           UNCHANGED <<g_networkState, m_players, playersIDs, m_number, m_status>>,
           \A g \in m_players : m_class[g] # NoClass => m_class'[g] # NoClass,
           \/ UNCHANGED <<packetPc, winner>>
           \/ /\ packetPc \in {"receive", "startTurn"}
              /\ packetPc' \in {"receive", "startTurn"}
           \/ /\ packetPc # "announce"
              /\ packetPc' \in {"compare", "transfer", "isGameOver"}
    PROVE  PartyInv' /\ GameStep
<1>. USE DEF GameInv, PartyInv
<1>1. Survivors' = Survivors /\ Winners' = Winners /\ Alive' = Alive /\ Phase' = Phase
    BY DEF Survivors, Winners, Alive, Phase
<1>2. SlotsMatchPlayers' /\ FullGame'
    BY DEF SlotsMatchPlayers, FullGame
<1>3. Opponents'
    BY <1>1 DEF Opponents
<1>4. Ending'
    BY <1>1 DEF Ending
<1>. QED
    BY <1>1, <1>2, <1>3, <1>4 DEF GameStep

\* A player falls, by a blow or a loss.
LEMMA OneFalls ==
    ASSUME GameInv, SafeInv', GuestsFit', g_networkState = "NS_GameStarted",
           UNCHANGED <<g_networkState, m_players, playersIDs, m_number, m_class>>,
           packetPc = "receive", packetPc' \in {"compare", "isGameOver"},
           NEW g \in Survivors, NEW status \in {"PS_Dead", "PS_Disconnected"},
           m_status' = [m_status EXCEPT ![g] = status]
    PROVE  PartyInv' /\ GameStep
<1>. USE DEF GameInv, PartyInv
<1>1. /\ m_players \subseteq Guids /\ m_status \in [Guids -> SPlayerStatus]
      /\ g \in m_players /\ m_status[g] = "PS_Connected"
    BY DEF SafeInv, TypeInv, TypeOK, Survivors
<1>2. \A h \in m_players : m_status'[h] = IF h = g THEN status ELSE m_status[h]
    BY <1>1
<1>3. Survivors' = Survivors \ {g}
    BY <1>2 DEF Survivors
<1>4. Alive' = Alive \ {g} /\ g \in Alive
    BY <1>1, <1>2 DEF Alive
<1>5. /\ IsFiniteSet(Survivors) /\ Cardinality(Survivors) \in Nat
      /\ Cardinality(Survivors) >= 2
    BY SurvivorsSeated DEF SafeInv, Opponents
<1>6. Survivors' # {}
  <2>1. Cardinality(Survivors \ {g}) = Cardinality(Survivors) - 1
      BY <1>5, FS_RemoveElement
  <2>2. Cardinality(Survivors \ {g}) # 0
      BY <1>5, <2>1
  <2>. QED
      BY <1>3, <2>2, FS_EmptySet
<1>7. SlotsMatchPlayers' /\ FullGame' /\ Opponents' /\ Ending'
    BY <1>6 DEF SlotsMatchPlayers, FullGame, Opponents, Ending
<1>8. Game!Fall(g)
  <2>1. Cardinality(Alive) >= 2
      BY <1>5, AliveSurvive
  <2>2. Phase = "playing" /\ Phase' = Phase
      BY DEF Phase
  <2>. QED
      BY <1>4, <2>1, <2>2, GameCounts DEF Game!Fall, Phase, Alive
<1>9. g \in Guids
    BY <1>1
<1>. QED
    BY <1>7, <1>8, <1>9 DEF GameStep, Game!Next

LEMMA MainPlays ==
    ASSUME GameInv, SafeInv', Main
    PROVE  PartyInv' /\ GameStep
<1>. USE DEF GameInv, PartyInv
<1>1. UNCHANGED <<packetPc, winner, connected, inbox>>
    BY DEF Main, MainInit, MainListen, MainPublish, MainPoll, MainNoTurn,
           MainNextTurn, MainClear, MainPick, MainBroadcast, MainYourTurn,
           YourTurn, GetPlayerStats, GetPlayers, Characters, Abort, MainStep,
           packetVars, clientVars
<1>2. CASE MainInit \/ MainPublish
  <2>1. /\ UNCHANGED <<m_players, playersIDs, m_number, m_class, m_status>>
        /\ g_networkState \in BeforeGame /\ g_networkState' \in BeforeGame
      BY <1>2 DEF MainInit, MainPublish, MainStep, SafeInv, PublishOnce, BeforeGame,
                  playerVars
  <2>2. GuestsFit'
      BY <1>1, <2>1, GuestsStay DEF SafeInv
  <2>3. SlotsMatchPlayers' /\ FullGame' /\ Opponents' /\ Ending'
      BY <2>1 DEF SlotsMatchPlayers, FullGame, Opponents, Ending, BeforeGame
  <2>4. UNCHANGED <<Phase, Alive>>
      BY <2>1 DEF Phase, Alive, BeforeGame
  <2>. QED
      BY <2>2, <2>3, <2>4 DEF GameStep
<1>3. CASE QuietStep
  <2>1. UNCHANGED <<g_networkState, m_players, playersIDs, m_number, m_class, m_status>>
      BY <1>3 DEF QuietStep
  <2>2. GuestsFit'
      BY <1>1, <2>1, GuestsStay DEF SafeInv
  <2>. QED
      BY <1>1, <2>1, <2>2, StillPlays
<1>. QED
    BY <1>2, <1>3, MainQuiet

LEMMA EnvironmentPlays ==
    ASSUME GameInv, SafeInv', Environment
    PROVE  PartyInv' /\ GameStep
<1>1. UNCHANGED serverVars
    BY Zenon DEF Environment, Connect, ChooseClass, Act, Lose
<1>2. GuestsFit'
    BY GuestsArrive DEF GameInv, PartyInv, SafeInv
<1>. QED
    BY <1>1, <1>2, StillPlays DEF serverVars, playerVars, packetVars

\* A failed assertion and the like take nobody out of the game.
LEMMA AbortPlays ==
    ASSUME GameInv, SafeInv', NEW why, Abort(why), inbox' = inbox \/ Received
    PROVE  PartyInv' /\ GameStep
<1>1. UNCHANGED <<g_networkState, m_players, playersIDs, m_number, m_class, m_status,
                  packetPc, winner, connected>>
    BY DEF Abort, playerVars, packetVars, clientVars
<1>2. GuestsFit'
    BY <1>1, GuestsStay DEF GameInv, PartyInv, SafeInv
<1>. QED
    BY <1>1, <1>2, StillPlays

LEMMA HandlerPlays ==
    ASSUME GameInv, SafeInv',
           \/ CompareTurn \/ TransferTurn \/ StartTurn \/ ScanFails \/ NoWinner
           \/ ResolveDefend \/ ResolveHeal
    PROVE  PartyInv' /\ GameStep
<1>1. CASE ScanFails \/ NoWinner
    BY <1>1, AbortPlays DEF ScanFails, NoWinner
<1>2. CASE CompareTurn \/ TransferTurn \/ StartTurn
  <2>1. UNCHANGED <<g_networkState, m_players, playersIDs, m_number, m_class, m_status,
                    winner, connected, inbox>>
      BY <1>2 DEF CompareTurn, TransferTurn, StartTurn, PacketStep, playerVars, clientVars
  <2>2. \/ packetPc \in {"compare", "transfer"} /\ packetPc' \in {"transfer", "isGameOver"}
        \/ packetPc = "startTurn" /\ packetPc' = "receive"
      BY <1>2 DEF CompareTurn, TransferTurn, StartTurn, PacketStep
  <2>3. GuestsFit'
      BY <2>1, GuestsStay DEF GameInv, PartyInv, SafeInv
  <2>. QED
      BY <2>1, <2>2, <2>3, StillPlays
<1>3. CASE ResolveDefend \/ ResolveHeal
  <2>1. Received /\ packetPc = "receive"
      BY <1>3 DEF ResolveDefend, ResolveHeal, Receive, Received
  <2>2. CASE \E why : Abort(why)
      BY <2>1, <2>2, AbortPlays
  <2>3. CASE ~ \E why : Abort(why)
    <3>1. /\ UNCHANGED <<g_networkState, m_players, playersIDs, m_number, m_class,
                         m_status, connected>>
          /\ packetPc' = "startTurn"
        BY <1>3, <2>3 DEF ResolveDefend, ResolveHeal, GetPlayer, GetPlayers,
                          Characters, clientVars
    <3>2. GuestsFit'
        BY <2>1, <3>1, GuestsStay DEF GameInv, PartyInv, SafeInv
    <3>. QED
        BY <2>1, <3>1, <3>2, StillPlays
  <2>. QED
      BY <2>2, <2>3
<1>. QED
    BY <1>1, <1>2, <1>3

\* A newcomer joins the lobby: there is a slot for him, and no game without him.
LEMMA IncomingPlays ==
    ASSUME GameInv, SafeInv', OnIncomingConnection
    PROVE  PartyInv' /\ GameStep
<1>. USE DEF GameInv, PartyInv
<1>. DEFINE slot == AvailableSlot
<1>1. /\ m_players' = m_players \cup {sender}
      /\ playersIDs' = [playersIDs EXCEPT ![slot] = sender]
      /\ m_number' = [m_number EXCEPT ![sender] = slot]
      /\ m_status' = [m_status EXCEPT ![sender] = "PS_Connected"]
      /\ UNCHANGED <<g_networkState, connected>>
    BY DEF OnIncomingConnection, clientVars
<1>2. slot \in Slots
    BY AvailableSlotTyped
<1>3. /\ Received /\ sender \in Guids
      /\ Head(inbox).id = "NEW_INCOMING_CONNECTION"
    BY ReceiveIsReceived DEF OnIncomingConnection
<1>4. sender \notin m_players
    BY <1>3, SentReceived DEF SafeInv, NewcomersAreNew, TypeInv, TypeOK
<1>5. /\ playersIDs[slot] = NoGuid
      /\ Cardinality(m_players) # MAX_CONNECTIONS
    BY <1>3, <1>4, SenderQueued, SlotIsFree DEF SafeInv
<1>. HIDE DEF slot
<1>6. /\ playersIDs \in [Slots -> Guids \cup {NoGuid}]
      /\ m_number \in [Guids -> Slots \cup {0}]
      /\ m_status \in [Guids -> SPlayerStatus]
      /\ m_players \subseteq Guids
    BY DEF SafeInv, TypeInv, TypeOK
<1>7. g_networkState \in BeforeGame
    BY <1>5 DEF FullGame
<1>8. SlotsMatchPlayers'
  <2>1. \A g \in m_players : /\ m_number'[g] = m_number[g] /\ m_number[g] \in Slots
                              /\ m_number[g] # slot
    <3>1. \A g \in m_players : playersIDs[m_number[g]] # NoGuid
        BY <1>6 DEF SlotsMatchPlayers
    <3>. QED
        BY <1>1, <1>4, <1>5, <1>6, <3>1 DEF SlotsMatchPlayers
  <2>2. \A s \in Slots : playersIDs'[s] = IF s = slot THEN sender ELSE playersIDs[s]
      BY <1>1, <1>6
  <2>3. m_number'[sender] = slot
      BY <1>1, <1>3, <1>6
  <2>. QED
      BY <1>1, <1>2, <2>1, <2>2, <2>3 DEF SlotsMatchPlayers
<1>9. GuestsFit'
    BY <1>1, <1>3, GuestsStay DEF SafeInv
<1>10. FullGame' /\ Opponents' /\ Ending'
    BY <1>1, <1>7 DEF FullGame, Opponents, Ending, BeforeGame
<1>11. PICK g \in Guids : g = sender
    BY <1>3
<1>12. Game!Join(g)
  <2>1. Phase = "lobby" /\ Phase' = Phase
      BY <1>1, <1>7 DEF Phase, BeforeGame
  <2>2. Alive' = Alive \cup {g} /\ g \notin Alive
      BY <1>1, <1>3, <1>4, <1>6, <1>11 DEF Alive
  <2>. QED
      BY <2>1, <2>2 DEF Game!Join, Phase, Alive
<1>. QED
    BY <1>8, <1>9, <1>10, <1>12 DEF GameStep, Game!Next

\* The last class chosen starts the game, with everybody in it.
LEMMA ReadyPlays ==
    ASSUME GameInv, SafeInv', OnLobbyReady
    PROVE  PartyInv' /\ GameStep
<1>. USE DEF GameInv, PartyInv
<1>. DEFINE class == Head(inbox).class
<1>1. Received /\ packetPc = "receive" /\ sender \in Guids
    BY ReceiveIsReceived DEF OnLobbyReady
<1>2. class # NoClass
    BY PacketTyped, ClassesAssumption DEF OnLobbyReady, SafeInv, TypeInv
<1>3. CASE sender \notin m_players
    BY <1>1, <1>3, AbortPlays DEF OnLobbyReady, GetPlayer, GetPlayers
<1>4. CASE sender \in m_players
  <2>1. /\ m_class' = [m_class EXCEPT ![sender] = class]
        /\ CheckGameStart(m_class')
        /\ UNCHANGED <<m_players, playersIDs, m_number, m_status, packetPc,
                       winner, connected>>
      BY <1>4 DEF OnLobbyReady, GetPlayer, GetPlayers, packetVars, clientVars
  <2>. HIDE DEF class
  <2>2. GuestsFit'
      BY <1>1, <2>1, GuestsStay DEF SafeInv
  <2>3. m_class \in [Guids -> Classes \cup {NoClass}] /\ m_players \subseteq Guids
      BY DEF SafeInv, TypeInv, TypeOK
  <2>4. \A g \in m_players : m_class[g] # NoClass => m_class'[g] # NoClass
      BY <1>1, <1>2, <2>1, <2>3
  <2>5. CASE UNCHANGED g_networkState
      BY <2>1, <2>2, <2>4, <2>5, StillPlays
  <2>6. CASE ~ UNCHANGED g_networkState
    <3>1. /\ g_networkState = "NS_WaitingPlayers"
          /\ g_networkState' = "NS_GameStarted"
          /\ Cardinality(m_players) >= MAX_CONNECTIONS
          /\ \A g \in m_players : m_class'[g] # NoClass
        BY <2>1, <2>6 DEF CheckGameStart, MayStart
    <3>2. Cardinality(m_players) = MAX_CONNECTIONS
        BY <3>1, PlayersFit, PlayersCounted DEF SafeInv
    <3>3. Survivors = m_players /\ Survivors' = m_players
        BY <2>1, <3>1 DEF Survivors, SafeInv, LobbyIsPeaceful, BeforeGame
    <3>4. Survivors' # {} /\ Cardinality(Survivors') >= 2
        BY <3>2, <3>3, FS_EmptySet
    <3>5. SlotsMatchPlayers' /\ FullGame' /\ Opponents' /\ Ending'
        BY <2>1, <3>1, <3>2, <3>4
        DEF SlotsMatchPlayers, FullGame, Opponents, Ending
    <3>6. Game!Begin
      <4>1. Phase = "lobby" /\ Phase' = "playing"
          BY <3>1 DEF Phase
      <4>2. Alive' = Alive
          BY <2>1 DEF Alive
      <4>3. Alive = m_players
          BY <3>1, <3>3, AliveSurvive
      <4>. QED
          BY <3>2, <4>1, <4>2, <4>3, GameCounts DEF Game!Begin, Phase, Alive
    <3>. QED
        BY <2>2, <3>5, <3>6 DEF GameStep, Game!Next
  <2>. QED
      BY <2>5, <2>6
<1>. QED
    BY <1>3, <1>4

\* A lost player leaves the lobby, or falls.
LEMMA LostPlays ==
    ASSUME GameInv, SafeInv', OnLostConnection
    PROVE  PartyInv' /\ GameStep
<1>. USE DEF GameInv, PartyInv
<1>1. Received /\ packetPc = "receive" /\ sender \in Guids
    BY ReceiveIsReceived DEF OnLostConnection
<1>2. PICK g \in Guids : g = sender
    BY <1>1
<1>3. /\ playersIDs \in [Slots -> Guids \cup {NoGuid}]
      /\ m_status \in [Guids -> SPlayerStatus]
      /\ m_players \subseteq Guids
    BY DEF SafeInv, TypeInv, TypeOK
<1>4. CASE g \notin m_players
    BY <1>1, <1>2, <1>4, AbortPlays DEF OnLostConnection, GetPlayer, GetPlayers
<1>5. CASE g \in m_players
  <2>1. UNCHANGED <<g_networkState, m_number, m_class, winner, connected>>
      BY <1>2, <1>5 DEF OnLostConnection, GetPlayer, GetPlayers, clientVars
  <2>2. \/ /\ g_networkState = "NS_WaitingPlayers"
           /\ playersIDs' = [playersIDs EXCEPT ![m_number[g]] = NoGuid]
           /\ m_players' = m_players \ {g}
           /\ packetPc' = "isGameOver"
           /\ UNCHANGED m_status
        \/ /\ g_networkState = "NS_GameStarted"
           /\ m_status' = [m_status EXCEPT ![g] = "PS_Disconnected"]
           /\ packetPc' = "compare"
           /\ UNCHANGED <<m_players, playersIDs>>
        \/ /\ packetPc' = "isGameOver"
           /\ UNCHANGED <<m_players, playersIDs, m_status>>
      BY <1>2, <1>5 DEF OnLostConnection, GetPlayer, GetPlayers
  <2>3. GuestsFit'
    <3>1. m_players' \subseteq m_players
        BY <2>2
    <3>. QED
        BY <1>1, <2>1, <3>1, GuestsStay DEF SafeInv
  <2>4. CASE /\ g_networkState = "NS_WaitingPlayers"
             /\ playersIDs' = [playersIDs EXCEPT ![m_number[g]] = NoGuid]
             /\ m_players' = m_players \ {g}
             /\ UNCHANGED m_status
    <3>1. SlotsMatchPlayers'
      <4>1. m_number[g] \in Slots /\ playersIDs[m_number[g]] = g
          BY <1>5 DEF SlotsMatchPlayers
      <4>2. \A s \in Slots :
                playersIDs'[s] = IF s = m_number[g] THEN NoGuid ELSE playersIDs[s]
          BY <1>3, <2>4
      <4>3. \A h \in m_players' : m_number[h] \in Slots /\ playersIDs'[m_number[h]] = h
          BY <2>4, <4>1, <4>2 DEF SlotsMatchPlayers
      <4>4. \A s \in Slots : playersIDs'[s] # NoGuid => playersIDs'[s] \in m_players'
          BY <1>5, <2>4, <4>1, <4>2 DEF SlotsMatchPlayers, SafeInv, NumberIsSlot
      <4>. QED
          BY <2>1, <4>3, <4>4 DEF SlotsMatchPlayers
    <3>2. FullGame' /\ Opponents' /\ Ending'
        BY <2>1, <2>4 DEF FullGame, Opponents, Ending, BeforeGame
    <3>3. Game!Leave(g)
      <4>1. Phase = "lobby" /\ Phase' = Phase
          BY <2>1, <2>4 DEF Phase
      <4>2. Alive' = Alive \ {g}
          BY <2>4 DEF Alive
      <4>3. g \in Alive
          BY <1>5, <2>4 DEF Alive, SafeInv, LobbyIsPeaceful, BeforeGame
      <4>. QED
          BY <4>1, <4>2, <4>3 DEF Game!Leave, Phase, Alive
    <3>. QED
        BY <2>3, <3>1, <3>2, <3>3 DEF GameStep, Game!Next
  <2>5. CASE /\ g_networkState = "NS_GameStarted"
             /\ m_status' = [m_status EXCEPT ![g] = "PS_Disconnected"]
             /\ packetPc' = "compare"
             /\ UNCHANGED <<m_players, playersIDs>>
    <3>1. CASE g \in Survivors
        BY <1>1, <2>1, <2>3, <2>5, <3>1, OneFalls
    <3>2. CASE g \notin Survivors
      <4>1. m_status[g] \notin {"PS_Connected", "PS_Winner"}
          BY <1>5, <2>5, <3>2 DEF Survivors, SafeInv, WinnerAtTheEnd
      <4>2. \A h \in m_players : m_status'[h] = IF h = g THEN "PS_Disconnected"
                                               ELSE m_status[h]
          BY <1>3, <2>5
      <4>3. UNCHANGED <<Survivors, Alive, Phase>>
          BY <2>1, <2>5, <4>1, <4>2 DEF Survivors, Alive, Phase
      <4>4. SlotsMatchPlayers' /\ FullGame' /\ Opponents' /\ Ending'
          BY <2>1, <2>5, <4>3 DEF SlotsMatchPlayers, FullGame, Opponents, Ending
      <4>. QED
          BY <2>3, <4>3, <4>4 DEF GameStep
    <3>. QED
        BY <3>1, <3>2
  <2>6. CASE packetPc' = "isGameOver" /\ UNCHANGED <<m_players, playersIDs, m_status>>
      BY <1>1, <2>1, <2>3, <2>6, StillPlays
  <2>. QED
      BY <2>2, <2>4, <2>5, <2>6
<1>. QED
    BY <1>4, <1>5

\* The scan of IsGameOver finds two players left, or ends the game.
LEMMA OverPlays ==
    ASSUME GameInv, SafeInv', GameGoesOn \/ GameIsOver
    PROVE  PartyInv' /\ GameStep
<1>. USE DEF GameInv, PartyInv
<1>1. /\ UNCHANGED <<m_players, playersIDs, m_number, m_class, m_status, connected, inbox>>
      /\ packetPc = "isGameOver"
    BY DEF GameGoesOn, GameIsOver, PacketStep, playerVars, clientVars
<1>2. GuestsFit'
    BY <1>1, GuestsStay DEF SafeInv
<1>3. /\ IsFiniteSet(ConnectedSlots) /\ IsFiniteSet(Survivors)
      /\ Cardinality(Survivors) \in Nat
      /\ Cardinality(ConnectedSlots) = Cardinality(Survivors)
      /\ \A s \in ConnectedSlots : /\ s \in Slots /\ playersIDs[s] \in Survivors
                                   /\ m_number[playersIDs[s]] = s
    BY SurvivorsSeated DEF SafeInv, ConnectedSlots
<1>4. UNCHANGED <<Survivors, Winners, Alive>> /\ SlotsMatchPlayers'
    BY <1>1 DEF Survivors, Winners, Alive, SlotsMatchPlayers
<1>5. CASE GameGoesOn
  <2>1. /\ UNCHANGED g_networkState
        /\ packetPc' \in {"receive", "startTurn"}
        /\ Cardinality(Survivors) >= 2
      BY <1>3, <1>5 DEF GameGoesOn, LastOneStanding, PacketStep, ReturnPc
  <2>2. g_networkState # "NS_GameOver"
      BY <1>1, <2>1, FS_EmptySet DEF Ending
  <2>3. Opponents' /\ Ending' /\ FullGame'
      BY <1>1, <1>4, <2>1, <2>2 DEF Opponents, Ending, FullGame
  <2>4. UNCHANGED <<Phase, Alive>>
      BY <1>4, <2>1 DEF Phase
  <2>. QED
      BY <1>2, <1>4, <2>3, <2>4 DEF GameStep
<1>6. CASE GameIsOver
  <2>1. /\ g_networkState' = "NS_GameOver"
        /\ packetPc' = "announce"
        /\ winner' = IF ConnectedSlots = {} THEN 0
                     ELSE m_number[playersIDs[Greatest(ConnectedSlots)]]
        /\ Cardinality(Survivors) <= 1
        /\ SlotGuids \subseteq m_players
      BY <1>3, <1>6 DEF GameIsOver, LastOneStanding, PacketStep
  <2>2. g_networkState \notin BeforeGame
    <3>. SUFFICES ASSUME g_networkState \in BeforeGame PROVE FALSE
        OBVIOUS
    <3>1. \A s \in Slots : s \in ConnectedSlots
        BY <2>1 DEF SlotGuids, ConnectedSlots, SafeInv, LobbyIsPeaceful
    <3>2. ConnectedSlots = Slots
        BY <1>3, <3>1
    <3>. QED
        BY <1>3, <2>1, <3>2, SlotsCounted
  <2>3. CASE g_networkState = "NS_GameStarted"
    <3>1. Cardinality(Survivors) = 1
        BY <1>3, <2>1, <2>3, FS_EmptySet DEF Opponents
    <3>2. PICK w : Survivors = {w}
        BY <1>3, <3>1, FS_Singleton
    <3>3. ConnectedSlots # {}
        BY <1>3, <3>1, FS_EmptySet
    <3>4. /\ winner' \in Slots /\ playersIDs[winner'] = w
      <4>1. ConnectedSlots \in SUBSET Slots
          BY <1>3
      <4>2. Greatest(ConnectedSlots) \in ConnectedSlots
          BY <3>3, <4>1, GreatestIsMember
      <4>3. winner' = Greatest(ConnectedSlots)
          BY <1>3, <2>1, <3>3, <4>2
      <4>. QED
          BY <1>3, <3>2, <4>2, <4>3
    <3>5. winner' # 0
        BY <3>4 DEF Slots
    <3>6. Winners = {}
        BY <2>3, AliveSurvive
    <3>7. Ending'
        BY <1>1, <1>4, <2>1, <3>2, <3>4, <3>5, <3>6 DEF Ending
    <3>8. Opponents' /\ FullGame'
        BY <1>1, <2>1, <2>2 DEF Opponents, FullGame
    <3>9. Game!End
      <4>1. Phase = "playing" /\ Phase' = "over"
          BY <2>1, <2>3 DEF Phase
      <4>2. Cardinality(Alive) = 1
          BY <2>3, <3>1, AliveSurvive
      <4>. QED
          BY <1>4, <4>1, <4>2, GameCounts DEF Game!End, Phase, Alive
    <3>. QED
        BY <1>2, <1>4, <3>7, <3>8, <3>9 DEF GameStep, Game!Next
  <2>4. CASE g_networkState = "NS_GameOver"
    <3>1. Survivors = {}
        BY <1>1, <2>4 DEF Ending
    <3>2. ConnectedSlots = {}
        BY <1>3, <3>1
    <3>3. Ending' /\ Opponents' /\ FullGame'
        BY <1>1, <1>4, <2>1, <2>2, <3>1, <3>2 DEF Ending, Opponents, FullGame
    <3>4. UNCHANGED <<Phase, Alive>>
        BY <1>4, <2>1, <2>4 DEF Phase
    <3>. QED
        BY <1>2, <1>4, <3>3, <3>4 DEF GameStep
  <2>. QED
      BY <2>2, <2>3, <2>4 DEF SafeInv, TypeInv, TypeOK, NetworkStates, BeforeGame
<1>. QED
    BY <1>5, <1>6

\* The last survivor becomes the winner, and the only one.
LEMMA AnnouncePlays ==
    ASSUME GameInv, SafeInv', AnnounceWinner
    PROVE  PartyInv' /\ GameStep
<1>. USE DEF GameInv, PartyInv
<1>1. CASE \E why : Abort(why)
    BY <1>1, AbortPlays DEF AnnounceWinner
<1>2. CASE ~ \E why : Abort(why)
  <2>. DEFINE w == playersIDs[winner]
  <2>1. /\ m_status' = [m_status EXCEPT ![w] = "PS_Winner"]
        /\ packetPc' = ReturnPc
        /\ UNCHANGED <<g_networkState, m_players, playersIDs, m_number, m_class,
                       connected, inbox>>
      BY <1>2 DEF AnnounceWinner, GetPlayerStats, GetPlayers, Characters, clientVars
  <2>2. g_networkState = "NS_GameOver" /\ Survivors = {w} /\ Winners = {}
      BY DEF AnnounceWinner, SafeInv, WinnerStands, Ending
  <2>. HIDE DEF w
  <2>3. /\ m_players \subseteq Guids /\ m_status \in [Guids -> SPlayerStatus]
        /\ w \in m_players /\ m_status[w] = "PS_Connected"
      BY <2>2 DEF SafeInv, TypeInv, TypeOK, Survivors
  <2>4. \A g \in m_players : m_status'[g] = IF g = w THEN "PS_Winner" ELSE m_status[g]
      BY <2>1, <2>3
  <2>5. Survivors' = {}
      BY <2>1, <2>2, <2>4 DEF Survivors
  <2>6. Winners' = {w}
      BY <2>1, <2>2, <2>3, <2>4 DEF Winners
  <2>7. UNCHANGED <<Phase, Alive>>
      BY <2>1, <2>3, <2>4 DEF Phase, Alive
  <2>8. packetPc' # "announce" /\ \E g \in Guids : Winners' = {g}
      BY <2>1, <2>3, <2>6 DEF ReturnPc
  <2>9. SlotsMatchPlayers' /\ FullGame' /\ Opponents' /\ Ending'
      BY <2>1, <2>2, <2>5, <2>8 DEF SlotsMatchPlayers, FullGame, Opponents, Ending
  <2>10. GuestsFit'
      BY <2>1, GuestsStay DEF SafeInv
  <2>. QED
      BY <2>7, <2>9, <2>10 DEF GameStep
<1>. QED
    BY <1>1, <1>2

\* A blow is struck in a game only, and takes one player out of it or none.
LEMMA AttackPlays ==
    ASSUME GameInv, SafeInv', ResolveAttack
    PROVE  PartyInv' /\ GameStep
<1>. USE DEF GameInv, PartyInv
<1>1. /\ Received /\ packetPc = "receive" /\ sender \in Guids
      /\ Head(inbox).id = "PLAYER_ATTACK"
    BY ReceiveIsReceived DEF ResolveAttack
<1>2. CASE \E why : Abort(why)
    BY <1>1, <1>2, AbortPlays
<1>3. CASE ~ \E why : Abort(why)
  <2>0. playersIDs[Head(inbox).target] \in m_players
      BY <1>3 DEF ResolveAttack, GetPlayers
  <2>1. PICK g \in m_players : g = playersIDs[Head(inbox).target]
      BY <2>0
  <2>2. CASE /\ packetPc' = "startTurn"
             /\ UNCHANGED <<g_networkState, m_players, playersIDs, m_number,
                            m_class, m_status, connected>>
    <3>1. GuestsFit'
        BY <1>1, <2>2, GuestsStay DEF SafeInv
    <3>. QED
        BY <1>1, <2>2, <3>1, StillPlays
  <2>3. ASSUME NEW roll \in DieFaces, Strike(g, roll), m_status[g] = "PS_Connected"
        PROVE  PartyInv' /\ GameStep
    <3>1. /\ packetPc' = "isGameOver"
          /\ \/ UNCHANGED m_status
             \/ m_status' = [m_status EXCEPT ![g] = "PS_Dead"]
          /\ UNCHANGED <<g_networkState, m_players, playersIDs, m_number, m_class,
                         connected>>
      <4>1. m_status \in [Guids -> SPlayerStatus]
          BY DEF SafeInv, TypeInv, TypeOK
      <4>. QED
          BY <2>3, <4>1 DEF Strike, clientVars
    <3>2. GuestsFit'
        BY <1>1, <3>1, GuestsStay DEF SafeInv
    <3>3. CASE UNCHANGED m_status
        BY <1>1, <3>1, <3>2, <3>3, StillPlays
    <3>4. CASE m_status' = [m_status EXCEPT ![g] = "PS_Dead"]
      <4>1. g \in Survivors
          BY <2>3 DEF Survivors
      <4>2. g_networkState = "NS_GameStarted"
        <5>1. g_networkState # "NS_GameOver"
            BY <1>1, <4>1 DEF Ending
        <5>2. g_networkState \notin BeforeGame
          <6>1. sender \in Sent("PLAYER_ATTACK")
              BY <1>1, SentReceived DEF SafeInv, TypeInv, TypeOK
          <6>. QED
              BY <6>1 DEF SafeInv, LobbyIsPeaceful, TurnPackets
        <5>. QED
            BY <5>1, <5>2 DEF SafeInv, TypeInv, TypeOK, NetworkStates, BeforeGame
      <4>. QED
          BY <1>1, <3>1, <3>2, <3>4, <4>1, <4>2, OneFalls
    <3>. QED
        BY <3>1, <3>3, <3>4
  <2>4. \/ /\ packetPc' = "startTurn"
           /\ UNCHANGED <<g_networkState, m_players, playersIDs, m_number,
                          m_class, m_status, connected>>
        \/ /\ m_status[g] = "PS_Connected"
           /\ \E roll \in DieFaces : Strike(g, roll)
      BY <1>3, <2>1 DEF ResolveAttack, GetPlayers, Characters, playerVars, clientVars
  <2>. QED
      BY <2>2, <2>3, <2>4
<1>. QED
    BY <1>2, <1>3

-----------------------------------------------------------------------------
(* The invariant, and what it is for.                                      *)

LEMMA GameInit == FewClients /\ Init => GameInv
<1>. SUFFICES ASSUME FewClients, Init PROVE GameInv
    OBVIOUS
<1>. USE DEF Init
<1>1. SafeInv
    BY SafeInit
<1>2. DOMAIN inbox = {} /\ SlotGuids \subseteq {NoGuid}
    BY EmptySeq DEF SlotGuids
<1>3. SlotsMatchPlayers
    BY DEF SlotsMatchPlayers
<1>4. GuestsFit
    BY <1>2, FS_EmptySet DEF GuestsFit
<1>5. FullGame /\ Opponents /\ Ending
    BY DEF FullGame, Opponents, Ending, BeforeGame
<1>6. TurnInRange /\ GameSurvivesLosses
    BY DEF TurnInRange, GameSurvivesLosses
<1>. QED
    BY <1>1, <1>3, <1>4, <1>5, <1>6 DEF GameInv, PartyInv

LEMMA GameNext == GameInv /\ [Next]_vars => GameInv' /\ GameStep
<1>. SUFFICES ASSUME GameInv, [Next]_vars PROVE GameInv' /\ GameStep
    OBVIOUS
<1>1. SafeInv'
    BY SafeNext DEF GameInv
<1>2. TurnInRange' /\ GameSurvivesLosses'
    BY RangeKeeps, SurvivalKeeps DEF GameInv, PartyInv
<1>3. PartyInv' /\ GameStep
  <2>1. CASE UNCHANGED vars
    <3>1. GuestsFit'
        BY <2>1 DEF vars, playerVars, clientVars, GameInv, PartyInv, GuestsFit
    <3>. QED
        BY <1>1, <2>1, <3>1, StillPlays DEF vars, playerVars, packetVars
  <2>2. CASE Main \/ Environment
      BY <1>1, <2>2, MainPlays, EnvironmentPlays
  <2>3. CASE PacketThread
      BY <1>1, <2>3, IncomingPlays, ReadyPlays, LostPlays, HandlerPlays, OverPlays,
         AnnouncePlays, AttackPlays DEF PacketThread
  <2>. QED
      BY <2>1, <2>2, <2>3 DEF Next
<1>. QED
    BY <1>1, <1>2, <1>3 DEF GameInv

LEMMA GameHolds == FewClients /\ Spec => []GameInv
<1>1. GameInv /\ [Next]_vars => GameInv'
    BY GameNext
<1>. QED
    BY <1>1, GameInit, PTL DEF Spec

\* The number in a player's entry and the player in the slot of that number
\* stay in agreement through joins and losses in any order: a slot that is
\* given away is free (OnIncomingConnection, OnLostConnection).
THEOREM SlotsAgree == FewClients /\ Spec => []SlotsMatchPlayers
<1>1. GameInv => SlotsMatchPlayers
    BY DEF GameInv, PartyInv
<1>. QED
    BY <1>1, GameHolds, PTL

\* However blows and losses follow one another, no game goes on with fewer
\* than two players: each handler that takes one out looks for the end before
\* the next packet is read (ResolveAttack, OnLostConnection, IsGameOver).
THEOREM OpponentsRemain == FewClients /\ Spec => []GameHasOpponents
<1>1. GameInv => GameHasOpponents
    BY SurvivorsSeated DEF GameInv, PartyInv, SafeInv, Opponents, GameHasOpponents
<1>. QED
    BY <1>1, GameHolds, PTL

\* A finished game has exactly one winner and nobody else left in it, also
\* when a turn or a loss comes after its end (IsGameOver).
THEOREM WinnerIsOne == FewClients /\ Spec => []OneWinner
<1>1. ASSUME GameInv PROVE OneWinner
  <2>. SUFFICES ASSUME g_networkState = "NS_GameOver",
                       packetPc \in {"receive", "startTurn"}
                PROVE  /\ ConnectedSlots = {}
                       /\ Cardinality({g \in m_players : m_status[g] = "PS_Winner"}) = 1
      BY DEF OneWinner
  <2>1. Survivors = {} /\ \E w : Winners = {w}
      BY <1>1 DEF GameInv, PartyInv, Ending
  <2>2. ConnectedSlots = {}
      BY <1>1, <2>1, SurvivorsSeated DEF GameInv, PartyInv, SafeInv
  <2>3. Cardinality(Winners) = 1
      BY <2>1, FS_Singleton
  <2>. QED
      BY <2>2, <2>3 DEF Winners
<1>. QED
    BY <1>1, GameHolds, PTL

\* A started game is proof against losses: whenever they come, main and the
\* handlers find every entry, every character and every index they use.
THEOREM GameIsRobust == FewClients /\ Spec => []GameSurvivesLosses
<1>1. GameInv => GameSurvivesLosses
    BY DEF GameInv
<1>. QED
    BY <1>1, GameHolds, PTL

\* The server implements the game its players know: a game starts full, loses
\* its players one at a time, and ends when, and only when, one is left.
THEOREM GameIsPromised == FewClients /\ Spec => ImplementsTurnGame
<1>1. ASSUME Init PROVE Game!Init
  <2>1. Phase = "lobby" /\ Alive = {}
      BY <1>1 DEF Init, Phase, Alive
  <2>. QED
      BY <2>1 DEF Game!Init, Phase, Alive
<1>2. GameInv /\ [Next]_vars => [Game!Next]_Game!gameVars
    BY GameNext DEF GameStep, Game!gameVars, Phase, Alive
<1>. QED
    BY <1>1, <1>2, GameHolds, PTL DEF Spec, ImplementsTurnGame, Game!Spec
=============================================================================
