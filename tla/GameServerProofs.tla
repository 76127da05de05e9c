-------------------------- MODULE GameServerProofs --------------------------
(***************************************************************************)
(* Theorems about the server, for any number of slots, clients, classes    *)
(* and die faces, with or without losses.                                  *)
(***************************************************************************)
EXTENDS GameServer, TLAPS, SequenceTheorems, FiniteSetTheorems,
        WellFoundedInduction

USE ConnectionsAssumption, GuidsAssumption

\* The first of some slots is one of them: the search of OnIncomingConnection
\* and of main for the lowest suitable index.
LEMMA LeastIsMember ==
    ASSUME NEW S \in SUBSET Nat, S # {}
    PROVE  Least(S) \in S /\ \A t \in S : Least(S) <= t
<1>. DEFINE R == OpToRel(<, Nat)
<1>1. IsWellFoundedOn(R, Nat)
    BY NatLessThanWellFounded
<1>2. \A x, y \in Nat : x < y => <<x, y>> \in R
    BY DEF OpToRel
<1>. HIDE DEF R
<1>3. PICK s \in S : \A t \in S : <<t, s>> \notin R
    BY <1>1, WFMin
<1>4. \A t \in S : ~(t < s)
    BY <1>2, <1>3, Zenon
<1>5. \A t \in S : s <= t
    BY <1>4
<1>. QED
    BY <1>5 DEF Least

\* The last of some slots is one of them: IsGameOver keeps the last connected
\* player it meets.
LEMMA GreatestIsMember ==
    ASSUME NEW S \in SUBSET Slots, S # {}
    PROVE  Greatest(S) \in S
<1>. DEFINE Mirror == {MAX_CONNECTIONS - s : s \in S}
<1>1. \A s \in S : s \in Nat /\ MAX_CONNECTIONS - s \in Nat
    BY DEF Slots
<1>2. Mirror \in SUBSET Nat /\ Mirror # {}
    BY <1>1
<1>3. PICK s \in S : Least(Mirror) = MAX_CONNECTIONS - s
    BY <1>2, LeastIsMember
<1>4. \A t \in S : t <= s
  <2>. SUFFICES ASSUME NEW t \in S PROVE t <= s
      OBVIOUS
  <2>1. MAX_CONNECTIONS - s <= MAX_CONNECTIONS - t
      BY <1>2, <1>3, LeastIsMember
  <2>. QED
      BY <2>1, <1>1
<1>. QED
    BY <1>4 DEF Greatest

-----------------------------------------------------------------------------
(* Types. TypeOK is not inductive as it stands: that YOUR_TURN lists slots  *)
(* needs that the number of a player in the map is never the initial 0.     *)

NumbersOK == \A g \in m_players : m_number[g] \in Slots

TypeInv == TypeOK /\ NumbersOK

\* TypeOK in three parts: the players, the two threads, their environment. A
\* step usually leaves all of a part alone, or all but one variable.
PlayersOK ==
    /\ g_networkState \in NetworkStates
    /\ m_players \subseteq Guids
    /\ playersIDs \in [Slots -> Guids \cup {NoGuid}]
    /\ m_number \in [Guids -> Slots \cup {0}]
    /\ m_class \in [Guids -> Classes \cup {NoClass}]
    /\ m_status \in [Guids -> SPlayerStatus]
    /\ m_isDefending \in [Guids -> BOOLEAN]
    /\ m_health \in [Guids -> Nat]

ThreadsOK ==
    /\ isDefineTurn \in BOOLEAN
    /\ lastPlayerTurn \in Nat
    /\ mainPc \in {"poll", "publish", "test", "pick", "broadcast", "yourTurn",
                   "clear"}
    /\ packetPc \in {"receive", "compare", "transfer", "isGameOver",
                     "announce", "startTurn"}
    /\ lostPlayer \in Guids \cup {NoGuid}
    /\ winner \in Slots \cup {0}
    /\ failure \in {"none", "unregistered guid", "null character",
                    "index out of range", "no winner"}

ClientsOK ==
    /\ connected \subseteq Guids
    /\ launched \subseteq Guids
    /\ ready \subseteq Guids
    /\ yourTurn \in [Guids -> Seq(SUBSET Slots)]

LEMMA TypeParts ==
    TypeInv <=> PlayersOK /\ ThreadsOK /\ ClientsOK /\ inbox \in Seq(Packet) /\ NumbersOK
BY Zenon DEF TypeInv, TypeOK, PlayersOK, ThreadsOK, ClientsOK

LEMMA PartsTyped ==
    ASSUME PlayersOK', ThreadsOK', ClientsOK', inbox' \in Seq(Packet), NumbersOK'
    PROVE  TypeInv'
BY Zenon DEF TypeInv, TypeOK, PlayersOK, ThreadsOK, ClientsOK

LEMMA SamePlayers ==
    ASSUME PlayersOK, NumbersOK, UNCHANGED <<g_networkState, playerVars>>
    PROVE  PlayersOK' /\ NumbersOK'
BY Zenon DEF PlayersOK, NumbersOK, playerVars

LEMMA SameThreads ==
    ASSUME ThreadsOK, UNCHANGED <<turnVars, mainPc, packetVars, failure>>
    PROVE  ThreadsOK'
BY Zenon DEF ThreadsOK, turnVars, packetVars

LEMMA SameClients ==
    ASSUME ClientsOK, UNCHANGED clientVars
    PROVE  ClientsOK'
BY Zenon DEF ClientsOK, clientVars

\* What a handler finds in the packet it takes from the queue.
LEMMA PacketTyped ==
    ASSUME TypeOK, NEW id, Receive(id)
    PROVE  /\ inbox' \in Seq(Packet)
           /\ sender \in Guids
           /\ id = "LOBBY_READY" => Head(inbox).class \in Classes
           /\ id = "PLAYER_ATTACK" => Head(inbox).target \in Slots
<1>1. Head(inbox) \in Packet /\ Tail(inbox) \in Seq(Packet)
    BY HeadTailProperties DEF TypeOK, Receive
<1>. QED
    BY <1>1 DEF Receive, Packet, sender

\* A failure changes nothing but the reason for it.
LEMMA AbortTyped ==
    ASSUME TypeInv, inbox' \in Seq(Packet),
           NEW why \in {"unregistered guid", "null character",
                        "index out of range", "no winner"},
           Abort(why)
    PROVE  TypeInv'
<1>1. PlayersOK' /\ NumbersOK' /\ ClientsOK'
    BY TypeParts, SamePlayers, SameClients DEF Abort
<1>2. ThreadsOK'
    BY TypeParts, Zenon DEF Abort, ThreadsOK, turnVars, packetVars
<1>. QED
    BY <1>1, <1>2, PartsTyped, Zenon

LEMMA TypeInit == Init => TypeInv
<1>. SUFFICES ASSUME Init PROVE TypeInv
    OBVIOUS
<1>1. << >> \in Seq(Packet) /\ << >> \in Seq(SUBSET Slots)
    BY EmptySeq
<1>2. NumbersOK
    BY DEF Init, NumbersOK
<1>3. TypeOK
    BY <1>1 DEF Init, TypeOK, NetworkStates, SPlayerStatus
<1>. QED
    BY <1>2, <1>3 DEF TypeInv

\* Wherever a player is still connected there is a slot number.
LEMMA ConnectedTyped ==
    ASSUME NumbersOK
    PROVE  \A s \in ConnectedSlots : s \in Slots /\ m_number[playersIDs[s]] \in Slots
BY DEF NumbersOK, ConnectedSlots

LEMMA ListedTyped ==
    ASSUME NumbersOK
    PROVE  {m_number[playersIDs[s]] : s \in ConnectedSlots} \in SUBSET Slots
BY ConnectedTyped

LEMMA NextNumberTyped ==
    ASSUME lastPlayerTurn \in Nat
    PROVE  NextNumber \in Nat
BY DEF NextNumber

LEMMA PickTyped ==
    ASSUME NumbersOK, NEW ahead \in SUBSET ConnectedSlots, ahead # {}
    PROVE  m_number[playersIDs[Least(ahead)]] \in Nat
<1>1. ahead \in SUBSET Nat
    BY DEF ConnectedSlots, Slots
<1>2. Least(ahead) \in ConnectedSlots
    BY <1>1, LeastIsMember
<1>. QED
    BY <1>2, ConnectedTyped DEF Slots

\* The steps of main keep the types.
LEMMA MainTyped == TypeInv /\ Main => TypeInv'
<1>. SUFFICES ASSUME TypeInv, Main PROVE TypeInv'
    OBVIOUS
<1>. USE DEF TypeInv, TypeOK, NumbersOK, playerVars, turnVars, packetVars,
             clientVars, MainStep
<1>1. CASE MainInit
    BY <1>1 DEF MainInit, NetworkStates
<1>2. CASE MainListen
    BY <1>2 DEF MainListen
<1>3. CASE MainPublish
    BY <1>3 DEF MainPublish, NetworkStates
<1>4. CASE MainPoll
    BY <1>4 DEF MainPoll
<1>5. CASE MainNoTurn
    BY <1>5 DEF MainNoTurn
<1>6. CASE MainNextTurn
  <2>1. NextNumber \in Nat
      BY NextNumberTyped
  <2>. QED
      BY <1>6, <2>1 DEF MainNextTurn
<1>7. CASE MainPick
  <2>. DEFINE ahead == {s \in ConnectedSlots : s >= lastPlayerTurn}
  <2>1. CASE failure' = "unregistered guid" /\ Abort("unregistered guid")
      BY <1>7, <2>1, AbortTyped DEF MainPick
  <2>2. CASE /\ mainPc' = "broadcast"
             /\ lastPlayerTurn' = IF ahead = {} THEN lastPlayerTurn
                                  ELSE m_number[playersIDs[Least(ahead)]]
             /\ UNCHANGED <<g_networkState, playerVars, isDefineTurn,
                            packetVars, failure, clientVars, inbox>>
    <3>1. ahead # {} => m_number[playersIDs[Least(ahead)]] \in Nat
        BY PickTyped
    <3>2. lastPlayerTurn' \in Nat
        BY <2>2, <3>1
    <3>. HIDE DEF ahead
    <3>3. ThreadsOK'
        BY <2>2, <3>2, Zenon DEF ThreadsOK
    <3>4. PlayersOK' /\ NumbersOK' /\ ClientsOK' /\ inbox' \in Seq(Packet)
        BY <2>2, TypeParts, SamePlayers, SameClients, Zenon
    <3>. QED
        BY <3>3, <3>4, PartsTyped, Zenon
  <2>. QED
      BY <1>7, <2>1, <2>2 DEF MainPick, GetPlayers, Abort
<1>8. CASE MainBroadcast
  <2>1. CASE \E why \in {"unregistered guid", "null character"} : Abort(why)
      BY <1>8, <2>1, AbortTyped DEF MainBroadcast
  <2>2. CASE /\ mainPc' = "yourTurn"
             /\ UNCHANGED <<g_networkState, playerVars, turnVars, packetVars,
                            failure, clientVars, inbox>>
      BY <2>2
  <2>. QED
      BY <1>8, <2>1, <2>2 DEF MainBroadcast, GetPlayerStats, GetPlayers, Characters
<1>9. CASE MainYourTurn
  <2>1. CASE \E why \in {"unregistered guid", "index out of range"} : Abort(why)
      BY <1>9, <2>1, AbortTyped DEF MainYourTurn
  <2>2. CASE lastPlayerTurn \in Slots /\ SlotGuids \subseteq m_players
    <3>. DEFINE player  == playersIDs[lastPlayerTurn]
                targets == {m_number[playersIDs[s]] : s \in ConnectedSlots}
                               \ {lastPlayerTurn}
    <3>1. /\ mainPc' = "clear"
          /\ yourTurn' = IF player \in connected
                         THEN [yourTurn EXCEPT ![player] = Append(@, targets)]
                         ELSE yourTurn
          /\ UNCHANGED <<g_networkState, playerVars, turnVars, packetVars,
                         failure, connected, launched, ready, inbox>>
        BY <1>9, <2>2 DEF MainYourTurn, YourTurn, GetPlayers
    <3>2. targets \in SUBSET Slots
        BY ListedTyped
    <3>3. player \in connected => Append(yourTurn[player], targets) \in Seq(SUBSET Slots)
        BY <3>2, AppendProperties
    <3>4. yourTurn' \in [Guids -> Seq(SUBSET Slots)]
        BY <3>1, <3>3
    <3>. QED
        BY <3>1, <3>4
  <2>. QED
      BY <1>9, <2>1, <2>2 DEF MainYourTurn, YourTurn, GetPlayers
<1>10. CASE MainClear
    BY <1>10 DEF MainClear
<1>. QED
    BY <1>1, <1>2, <1>3, <1>4, <1>5, <1>6, <1>7, <1>8, <1>9, <1>10 DEF Main

LEMMA AvailableSlotTyped == AvailableSlot \in Slots
<1>. DEFINE free == {s \in Slots : playersIDs[s] = NoGuid}
<1>1. free \in SUBSET Nat /\ 1 \in Slots
    BY DEF Slots
<1>2. free # {} => Least(free) \in free
    BY <1>1, LeastIsMember
<1>. QED
    BY <1>1, <1>2 DEF AvailableSlot

\* The handlers of packets keep the types, one lemma for each part of
\* PacketHandler.
LEMMA LobbyTyped ==
    TypeInv /\ (OnIncomingConnection \/ OnLobbyReady \/ OnLostConnection) => TypeInv'
<1>. SUFFICES ASSUME TypeInv,
                     OnIncomingConnection \/ OnLobbyReady \/ OnLostConnection
              PROVE  TypeInv'
    OBVIOUS
<1>. USE DEF TypeInv, TypeOK, NumbersOK, playerVars, turnVars, packetVars,
             clientVars
<1>1. CASE OnIncomingConnection
  <2>1. AvailableSlot \in Slots
      BY AvailableSlotTyped
  <2>2. inbox' \in Seq(Packet) /\ sender \in Guids
      BY <1>1, PacketTyped DEF OnIncomingConnection
  <2>3. /\ m_players' \subseteq Guids
        /\ playersIDs' \in [Slots -> Guids \cup {NoGuid}]
        /\ m_number' \in [Guids -> Slots \cup {0}]
        /\ m_class' \in [Guids -> Classes \cup {NoClass}]
      BY <1>1, <2>1, <2>2 DEF OnIncomingConnection
  <2>4. /\ m_status' \in [Guids -> SPlayerStatus]
        /\ m_isDefending' \in [Guids -> BOOLEAN]
        /\ m_health' \in [Guids -> Nat]
      BY <1>1, <2>2 DEF OnIncomingConnection, SPlayerStatus
  <2>5. NumbersOK'
    <3>1. m_number'[sender] \in Slots
        BY <1>1, <2>1, <2>2 DEF OnIncomingConnection
    <3>2. \A g \in m_players : g # sender => m_number'[g] = m_number[g]
        BY <1>1 DEF OnIncomingConnection
    <3>. QED
        BY <1>1, <3>1, <3>2 DEF OnIncomingConnection
  <2>6. PlayersOK'
      BY <1>1, <2>3, <2>4, Zenon DEF OnIncomingConnection, PlayersOK
  <2>7. ThreadsOK' /\ ClientsOK'
      BY <1>1, TypeParts, SameThreads, SameClients, Zenon DEF OnIncomingConnection
  <2>. QED
      BY <2>2, <2>5, <2>6, <2>7, PartsTyped, Zenon
<1>2. CASE OnLobbyReady
  <2>1. inbox' \in Seq(Packet) /\ sender \in Guids /\ Head(inbox).class \in Classes
      BY <1>2, PacketTyped DEF OnLobbyReady
  <2>2. CASE sender \notin m_players
      BY <1>2, <2>1, <2>2, AbortTyped DEF OnLobbyReady, GetPlayer, GetPlayers
  <2>3. CASE sender \in m_players
    <3>1. AttribHealth[Head(inbox).class] \in Nat
        BY <2>1, AttribsAssumption
    <3>2. g_networkState' \in NetworkStates
        BY <1>2, <2>3 DEF OnLobbyReady, GetPlayer, GetPlayers, CheckGameStart,
                          NetworkStates
    <3>3. /\ m_class' = [m_class EXCEPT ![sender] = Head(inbox).class]
          /\ m_health' = [m_health EXCEPT ![sender] = AttribHealth[Head(inbox).class]]
          /\ UNCHANGED <<m_players, playersIDs, m_number, m_status,
                         m_isDefending, turnVars, mainPc, packetVars,
                         failure, clientVars>>
        BY <1>2, <2>3 DEF OnLobbyReady, GetPlayer, GetPlayers
    <3>4. PlayersOK'
        BY <2>1, <3>1, <3>2, <3>3 DEF PlayersOK
    <3>5. ThreadsOK' /\ ClientsOK'
        BY <3>3, TypeParts, SameThreads, SameClients, Zenon
    <3>6. NumbersOK'
        BY <3>3
    <3>. QED
        BY <2>1, <3>4, <3>5, <3>6, PartsTyped, Zenon
  <2>. QED
      BY <2>2, <2>3
<1>3. CASE OnLostConnection
  <2>1. inbox' \in Seq(Packet) /\ sender \in Guids
      BY <1>3, PacketTyped DEF OnLostConnection
  <2>2. CASE sender \notin m_players
      BY <1>3, <2>1, <2>2, AbortTyped DEF OnLostConnection, GetPlayer, GetPlayers
  <2>3. CASE sender \in m_players
      BY <1>3, <2>1, <2>3 DEF OnLostConnection, GetPlayer, GetPlayers, SPlayerStatus
  <2>. QED
      BY <2>2, <2>3
<1>. QED
    BY <1>1, <1>2, <1>3

LEMMA OverTyped ==
    TypeInv /\ (GameGoesOn \/ GameIsOver \/ ScanFails \/ AnnounceWinner \/ NoWinner)
        => TypeInv'
<1>. SUFFICES ASSUME TypeInv, \/ GameGoesOn \/ GameIsOver \/ ScanFails
                              \/ AnnounceWinner \/ NoWinner
              PROVE  TypeInv'
    OBVIOUS
<1>. USE DEF TypeInv, TypeOK, NumbersOK, playerVars, turnVars, packetVars,
             clientVars, PacketStep, ReturnPc
<1>1. CASE GameGoesOn
    BY <1>1 DEF GameGoesOn
<1>2. CASE GameIsOver
  <2>1. ConnectedSlots # {} => m_number[playersIDs[Greatest(ConnectedSlots)]] \in Slots
    <3>1. ConnectedSlots # {} => Greatest(ConnectedSlots) \in ConnectedSlots
        BY GreatestIsMember DEF ConnectedSlots
    <3>. QED
        BY <3>1, ConnectedTyped
  <2>. QED
      BY <1>2, <2>1 DEF GameIsOver, NetworkStates
<1>3. CASE ScanFails
    BY <1>3, AbortTyped DEF ScanFails
<1>4. CASE AnnounceWinner
  <2>1. CASE \E why \in {"unregistered guid", "null character"} : Abort(why)
      BY <1>4, <2>1, AbortTyped DEF AnnounceWinner
  <2>2. CASE ~ \E why \in {"unregistered guid", "null character"} : Abort(why)
    <3>1. /\ m_status' = [m_status EXCEPT ![playersIDs[winner]] = "PS_Winner"]
          /\ packetPc' = ReturnPc
          /\ lostPlayer' = NoGuid
          /\ winner' = 0
          /\ UNCHANGED <<g_networkState, m_players, playersIDs, m_number,
                         m_class, m_isDefending, m_health, turnVars, mainPc,
                         failure, clientVars, inbox>>
        BY <1>4, <2>2 DEF AnnounceWinner, GetPlayerStats, GetPlayers, Characters
    <3>. QED
        BY <3>1 DEF SPlayerStatus
  <2>. QED
      BY <2>1, <2>2
<1>5. CASE NoWinner
    BY <1>5, AbortTyped DEF NoWinner
<1>. QED
    BY <1>1, <1>2, <1>3, <1>4, <1>5

\* A blow leaves a natural number of points.
LEMMA WoundedTyped == \A health, damage \in Nat : Wounded(health, damage) \in Nat
BY DEF Wounded

\* A heal too, never fewer than before nor more than a new character has.
LEMMA HealedTyped ==
    ASSUME NEW class \in Classes, NEW health \in Nat, NEW roll \in Nat
    PROVE  LET healed == Healed(class, health, roll) IN
           /\ healed \in Nat
           /\ healed >= health
           /\ health <= AttribHealth[class] => healed <= AttribHealth[class]
<1>1. AttribHealth[class] \in Nat
    BY AttribsAssumption
<1>. QED
    BY <1>1 DEF Healed

LEMMA CombatTyped ==
    TypeInv /\ (ResolveAttack \/ ResolveDefend \/ ResolveHeal) => TypeInv'
<1>. SUFFICES ASSUME TypeInv, ResolveAttack \/ ResolveDefend \/ ResolveHeal
              PROVE  TypeInv'
    OBVIOUS
<1>. USE DEF TypeInv, TypeOK, NumbersOK, playerVars, turnVars, packetVars,
             clientVars
<1>1. CASE ResolveAttack
  <2>. DEFINE target == playersIDs[Head(inbox).target]
  <2>1. inbox' \in Seq(Packet) /\ sender \in Guids
      BY <1>1, PacketTyped DEF ResolveAttack
  <2>2. CASE \E why \in {"unregistered guid", "null character"} : Abort(why)
      BY <2>1, <2>2, AbortTyped
  <2>3. CASE /\ packetPc' = "startTurn"
             /\ UNCHANGED <<g_networkState, playerVars, turnVars, mainPc,
                            lostPlayer, winner, failure, clientVars>>
      BY <2>1, <2>3
  <2>4. ASSUME NEW roll \in DieFaces, Strike(target, roll), target \in m_players,
               Hits(roll, target) => m_class[sender] # NoClass
        PROVE  TypeInv'
    <3>1. Hits(roll, target) => AttribDamage[m_class[sender]] \in Nat
        BY <2>1, <2>4, AttribsAssumption
    <3>2. Hits(roll, target) =>
              Wounded(m_health[target], AttribDamage[m_class[sender]]) \in Nat
        BY <2>4, <3>1, WoundedTyped
    <3>3. m_health' \in [Guids -> Nat]
        BY <2>4, <3>2 DEF Strike
    <3>4. m_status' \in [Guids -> SPlayerStatus]
        BY <2>4 DEF Strike, SPlayerStatus
    <3>. QED
        BY <2>1, <2>4, <3>3, <3>4 DEF Strike
  <2>. QED
      BY <1>1, <2>2, <2>3, <2>4 DEF ResolveAttack, GetPlayers, Characters
<1>2. CASE ResolveDefend
  <2>1. inbox' \in Seq(Packet) /\ sender \in Guids
      BY <1>2, PacketTyped DEF ResolveDefend
  <2>. QED
      BY <1>2, <2>1, AbortTyped DEF ResolveDefend, GetPlayer, GetPlayers
<1>3. CASE ResolveHeal
  <2>1. inbox' \in Seq(Packet) /\ sender \in Guids
      BY <1>3, PacketTyped DEF ResolveHeal
  <2>2. CASE \E why \in {"unregistered guid", "null character"} : Abort(why)
      BY <2>1, <2>2, AbortTyped
  <2>3. ASSUME NEW roll \in DieFaces, m_class[sender] # NoClass,
               m_health' = [m_health EXCEPT ![sender] =
                                Healed(m_class[sender], @, roll)],
               packetPc' = "startTurn",
               UNCHANGED <<g_networkState, m_players, playersIDs, m_number,
                           m_class, m_status, m_isDefending, turnVars, mainPc,
                           lostPlayer, winner, failure, clientVars>>
        PROVE  TypeInv'
    <3>1. Healed(m_class[sender], m_health[sender], roll) \in Nat
        BY <2>1, <2>3, HealedTyped, DiceAssumption
    <3>. QED
        BY <2>1, <2>3, <3>1
  <2>. QED
      BY <1>3, <2>2, <2>3 DEF ResolveHeal, GetPlayer, GetPlayers, Characters
<1>. QED
    BY <1>1, <1>2, <1>3

LEMMA PacketThreadTyped == TypeInv /\ PacketThread => TypeInv'
<1>. SUFFICES ASSUME TypeInv, CompareTurn \/ TransferTurn \/ StartTurn
              PROVE  TypeInv'
    BY LobbyTyped, OverTyped, CombatTyped DEF PacketThread
<1>1. UNCHANGED <<g_networkState, playerVars, clientVars, inbox>>
    BY DEF CompareTurn, TransferTurn, StartTurn, PacketStep
<1>2. ThreadsOK'
    BY TypeParts DEF CompareTurn, TransferTurn, StartTurn, PacketStep, ThreadsOK,
                     turnVars
<1>. QED
    BY <1>1, <1>2, TypeParts, PartsTyped, SamePlayers, SameClients, Zenon

\* A packet put on the queue.
LEMMA PostTyped ==
    ASSUME inbox \in Seq(Packet), NEW packet \in Packet, Post(packet)
    PROVE  inbox' \in Seq(Packet)
BY AppendProperties DEF Post

\* A step of the environment leaves the server alone.
LEMMA ServerTyped ==
    ASSUME TypeInv, UNCHANGED serverVars, inbox' \in Seq(Packet), ClientsOK'
    PROVE  TypeInv'
<1>1. PlayersOK' /\ NumbersOK'
    BY TypeParts, SamePlayers, Zenon DEF serverVars
<1>2. ThreadsOK'
    BY TypeParts, SameThreads, Zenon DEF serverVars
<1>. QED
    BY <1>1, <1>2, PartsTyped, Zenon

LEMMA EnvironmentTyped == TypeInv /\ Environment => TypeInv'
<1>. SUFFICES ASSUME TypeInv, NEW g \in Guids,
                     Connect(g) \/ ChooseClass(g) \/ Act(g) \/ Lose(g)
              PROVE  TypeInv'
    BY DEF Environment
<1>. inbox \in Seq(Packet) /\ ClientsOK
    BY TypeParts
<1>1. CASE Connect(g)
  <2>1. [id |-> "NEW_INCOMING_CONNECTION", guid |-> g] \in Packet
      BY DEF Packet
  <2>2. inbox' \in Seq(Packet)
      BY <1>1, <2>1, PostTyped DEF Connect
  <2>3. ClientsOK'
      BY <1>1, Zenon DEF Connect, ClientsOK
  <2>. QED
      BY <1>1, <2>2, <2>3, ServerTyped, Zenon DEF Connect
<1>2. CASE ChooseClass(g)
  <2>1. \A class \in Classes :
            [id |-> "LOBBY_READY", guid |-> g, class |-> class] \in Packet
      BY DEF Packet
  <2>2. inbox' \in Seq(Packet)
      BY <1>2, <2>1, PostTyped DEF ChooseClass
  <2>3. ClientsOK'
      BY <1>2, Zenon DEF ChooseClass, ClientsOK
  <2>. QED
      BY <1>2, <2>2, <2>3, ServerTyped, Zenon DEF ChooseClass
<1>3. CASE Act(g)
  <2>1. Head(yourTurn[g]) \in SUBSET Slots /\ Tail(yourTurn[g]) \in Seq(SUBSET Slots)
      BY <1>3, HeadTailProperties DEF Act, ClientsOK
  <2>2. /\ \A t \in Slots :
               [id |-> "PLAYER_ATTACK", guid |-> g, target |-> t] \in Packet
        /\ [id |-> "PLAYER_DEFEND", guid |-> g] \in Packet
        /\ [id |-> "PLAYER_HEAL", guid |-> g] \in Packet
      BY DEF Packet
  <2>3. inbox' \in Seq(Packet)
      BY <1>3, <2>1, <2>2, PostTyped DEF Act
  <2>4. ClientsOK'
      BY <1>3, <2>1 DEF Act, ClientsOK
  <2>. QED
      BY <1>3, <2>3, <2>4, ServerTyped, Zenon DEF Act
<1>4. CASE Lose(g)
  <2>1. [id |-> "CONNECTION_LOST", guid |-> g] \in Packet
      BY DEF Packet
  <2>2. inbox' \in Seq(Packet)
      BY <1>4, <2>1, PostTyped DEF Lose
  <2>3. ClientsOK'
    <3>1. << >> \in Seq(SUBSET Slots)
        BY EmptySeq
    <3>. QED
        BY <1>4, <3>1 DEF Lose, ClientsOK
  <2>. QED
      BY <1>4, <2>2, <2>3, ServerTyped, Zenon DEF Lose
<1>. QED
    BY <1>1, <1>2, <1>3, <1>4

LEMMA TypeNext == TypeInv /\ [Next]_vars => TypeInv'
<1>. SUFFICES ASSUME TypeInv, [Next]_vars PROVE TypeInv'
    OBVIOUS
<1>1. CASE UNCHANGED vars
  <2>1. UNCHANGED <<g_networkState, playerVars, turnVars, mainPc, packetVars,
                    failure, clientVars, inbox>>
      BY <1>1 DEF vars
  <2>2. PlayersOK' /\ NumbersOK' /\ ThreadsOK' /\ ClientsOK'
      BY <2>1, TypeParts, SamePlayers, SameThreads, SameClients, Zenon
  <2>. QED
      BY <2>1, <2>2, TypeParts, PartsTyped, Zenon
<1>. QED
    BY <1>1, MainTyped, PacketThreadTyped, EnvironmentTyped DEF Next

\* In every reachable state every variable holds what its C++ counterpart can
\* hold: in particular no handler leaves a negative health, a status that is
\* none, or a slot number outside playersIDs in a message.
THEOREM TypeCorrect == Spec => []TypeOK
<1>1. TypeInv => TypeOK
    BY DEF TypeInv
<1>. QED
    BY <1>1, TypeInit, TypeNext, PTL DEF Spec
=============================================================================
