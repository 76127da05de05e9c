------------------------------ MODULE GameServer ------------------------------
(***************************************************************************)
(* The game server of RakNet_RPG (src/RakNet_RPG/Server/main.cpp): the     *)
(* thread of main, which starts turns, the thread of PacketHandler, which  *)
(* handles packets one after another, and the globals they share.          *)
(*                                                                         *)
(* The module is closed by its environment, reduced to what the server can *)
(* see of it: RakNet pushes packets on one queue and knows who is          *)
(* connected, and a client process connects once, sends LOBBY_READY once   *)
(* and answers each YOUR_TURN with one action.                             *)
(*                                                                         *)
(* A step is one access to shared state, or a stretch of code no other     *)
(* thread can tell from one access: m_status only ever moves away from     *)
(* PS_Connected, so that a scan of the players which stops at the first    *)
(* connected one is a single step.                                         *)
(***************************************************************************)
EXTENDS Naturals, Sequences, FiniteSets

CONSTANTS
    Guids,            \* client processes, by the RakNetGUID of their peer
    NoGuid,           \* an element of playersIDs whose ToUint32 is 0
    MAX_CONNECTIONS,  \* slots, required players and RakNet's limit (line 20)
    Classes,          \* EPlayerClass, without EPlayerClass_ERROR
    Healers,          \* the classes whose DoTurn offers <3> - Heal
    NoClass,          \* the m_class of a value-initialised SPlayer
    AttribHealth,     \* GetAttribHealth() of a class
    AttribDamage,     \* GetAttribDamage() of a class
    AttribDefense,    \* GetAttribDefense() of a class
    DefendBonus,      \* what defending adds to the defense (line 371)
    DieFaces,         \* what Rolld20() may return
    LossStates,       \* the server states in which connections may be lost
    PromptMain        \* TRUE: nobody presses a key while main is between two
                      \* adjacent statements, lines 627-629 or 700-702

Slots == 1 .. MAX_CONNECTIONS

NetworkStates == {"NS_Init", "NS_PendingStart", "NS_WaitingPlayers",
                  "NS_GameStarted", "NS_GameOver"}

ASSUME GuidsAssumption == NoGuid \notin Guids /\ IsFiniteSet(Guids)
ASSUME ConnectionsAssumption == MAX_CONNECTIONS \in Nat /\ MAX_CONNECTIONS >= 2
ASSUME ClassesAssumption == NoClass \notin Classes /\ Healers \subseteq Classes
ASSUME AttribsAssumption == /\ AttribHealth \in [Classes -> Nat \ {0}]
                            /\ AttribDamage \in [Classes -> Nat]
                            /\ AttribDefense \in [Classes -> Nat]
ASSUME DiceAssumption == DefendBonus \in Nat /\ DieFaces \subseteq Nat
ASSUME EnvironmentAssumption == /\ LossStates \subseteq NetworkStates
                                /\ PromptMain \in BOOLEAN

VARIABLES
    g_networkState,
    m_players,        \* the guids with an entry in the map
    playersIDs,       \* guid of the player in each slot
    m_number, m_class, m_status, m_isDefending,  \* SPlayer, by guid
    m_health,         \* of *m_character, which exists once m_class is set
    isDefineTurn,     \* a new turn is wanted
    lastPlayerTurn,   \* number of the player whose turn it is
    mainPc,           \* where main is in its loop
    packetPc,         \* where PacketHandler is in the handler it runs
    lostPlayer,       \* local of OnLostConnection, NoGuid outside it
    winner,           \* local of IsGameOver, 0 outside it
    failure,          \* "none", or what stopped the process
    connected,        \* guids RakNet holds a connection to
    inbox,            \* packets not yet returned by Receive()
    launched,         \* client processes that have tried to connect
    ready,            \* client processes that have sent LOBBY_READY
    yourTurn          \* per client, the target lists of unanswered YOUR_TURNs

playerVars == <<m_players, playersIDs, m_number, m_class, m_status,
                m_isDefending, m_health>>
turnVars   == <<isDefineTurn, lastPlayerTurn>>
packetVars == <<packetPc, lostPlayer, winner>>
clientVars == <<connected, launched, ready, yourTurn>>
vars == <<g_networkState, playerVars, turnVars, mainPc, packetVars, failure,
          clientVars, inbox>>

-----------------------------------------------------------------------------
(* Packets, in the order Receive() returns them. *)

Packet == [id : {"NEW_INCOMING_CONNECTION", "CONNECTION_LOST",
                 "PLAYER_DEFEND", "PLAYER_HEAL"}, guid : Guids]
            \cup [id : {"LOBBY_READY"}, guid : Guids, class : Classes]
            \cup [id : {"PLAYER_ATTACK"}, guid : Guids, target : Slots]

TurnPackets == {"PLAYER_ATTACK", "PLAYER_DEFEND", "PLAYER_HEAL"}

Post(packet) == inbox' = Append(inbox, packet)

\* The process is up: once an assertion fails or a bad pointer or index is
\* used, nothing runs any more.
Running == failure = "none"

Abort(why) == /\ failure' = why
              /\ UNCHANGED <<g_networkState, playerVars, turnVars, mainPc,
                             packetVars, clientVars>>

\* GetPlayer of the guids in G finds an entry for each and A goes on with
\* them, or its assertion fails.
GetPlayers(G, A) == IF G \subseteq m_players
                    THEN A ELSE Abort("unregistered guid")

GetPlayer(g, A) == GetPlayers({g}, A)

SlotGuids == {playersIDs[s] : s \in Slots}

\* A reads the characters of the players in G: a null pointer without a class.
Characters(G, A) == IF \A g \in G : m_class[g] # NoClass
                    THEN A ELSE Abort("null character")

\* GetPlayerStats: looks up every occupied slot and reads its character.
GetPlayerStats(A) == LET taken == SlotGuids \ {NoGuid}
                     IN  GetPlayers(taken, Characters(taken, A))

\* The slots whose players are still in the game.
ConnectedSlots == {s \in Slots : /\ playersIDs[s] \in m_players
                                 /\ m_status[playersIDs[s]] = "PS_Connected"}

Least(S) == CHOOSE s \in S : \A t \in S : s <= t
Greatest(S) == CHOOSE s \in S : \A t \in S : t <= s

-----------------------------------------------------------------------------
Init ==
    /\ g_networkState = "NS_Init"
    /\ m_players = {}
    /\ playersIDs = [s \in Slots |-> NoGuid]
    /\ m_number = [g \in Guids |-> 0]
    /\ m_class = [g \in Guids |-> NoClass]
    /\ m_status = [g \in Guids |-> "PS_Connected"]
    /\ m_isDefending = [g \in Guids |-> FALSE]
    /\ m_health = [g \in Guids |-> 0]
    /\ isDefineTurn = TRUE
    /\ lastPlayerTurn = 0
    /\ mainPc = "poll"
    /\ packetPc = "receive"
    /\ lostPlayer = NoGuid
    /\ winner = 0
    /\ failure = "none"
    /\ connected = {}
    /\ inbox = << >>
    /\ launched = {}
    /\ ready = {}
    /\ yourTurn = [g \in Guids |-> << >>]

-----------------------------------------------------------------------------
(* The thread of main. *)

\* main goes from one place of its loop to another.
MainStep(from, to) == Running /\ mainPc = from /\ mainPc' = to

MainInit == /\ MainStep("poll", "poll")
            /\ g_networkState = "NS_Init"
            /\ g_networkState' = "NS_PendingStart"
            /\ UNCHANGED <<playerVars, turnVars, packetVars, failure,
                           clientVars, inbox>>

\* Startup and SetMaximumIncomingConnections: from here on clients get in.
MainListen == /\ MainStep("poll", "publish")
              /\ g_networkState = "NS_PendingStart"
              /\ UNCHANGED <<g_networkState, playerVars, turnVars, packetVars,
                             failure, clientVars, inbox>>

MainPublish == /\ MainStep("publish", "poll")
               /\ g_networkState' = "NS_WaitingPlayers"
               /\ UNCHANGED <<playerVars, turnVars, packetVars, failure,
                              clientVars, inbox>>

\* Line 640 reads g_networkState, line 642 reads isDefineTurn: two accesses.
MainPoll == /\ MainStep("poll", "test")
            /\ g_networkState = "NS_GameStarted"
            /\ UNCHANGED <<g_networkState, playerVars, turnVars, packetVars,
                           failure, clientVars, inbox>>

MainNoTurn == /\ MainStep("test", "poll")
              /\ ~isDefineTurn
              /\ UNCHANGED <<g_networkState, playerVars, turnVars, packetVars,
                             failure, clientVars, inbox>>

\* Mutant of NextNumber: the wrap comes one number too early.
NextNumberWrapsEarly == IF lastPlayerTurn + 1 >= Cardinality(m_players)
                        THEN 1 ELSE lastPlayerTurn + 1

\* The number after lastPlayerTurn, round the size of the map.
NextNumber == IF lastPlayerTurn + 1 > Cardinality(m_players)
              THEN 1 ELSE lastPlayerTurn + 1

MainNextTurn == /\ MainStep("test", "pick")
                /\ isDefineTurn
                /\ lastPlayerTurn' = NextNumber
                /\ UNCHANGED <<g_networkState, playerVars, isDefineTurn,
                               packetVars, failure, clientVars, inbox>>

\* "Get a valid player": the scan stops at the first connected player from
\* lastPlayerTurn up, and leaves lastPlayerTurn alone when it meets none.
MainPick ==
    LET ahead == {s \in ConnectedSlots : s >= lastPlayerTurn}
        seen  == {s \in Slots : /\ s >= lastPlayerTurn
                                /\ ahead # {} => s <= Least(ahead)}
    IN  /\ Running
        /\ mainPc = "pick"
        /\ GetPlayers({playersIDs[s] : s \in seen},
                      /\ mainPc' = "broadcast"
                      /\ lastPlayerTurn' = IF ahead = {} THEN lastPlayerTurn
                                           ELSE m_number[playersIDs[Least(ahead)]]
                      /\ UNCHANGED <<g_networkState, playerVars, isDefineTurn,
                                     packetVars, failure, clientVars>>)
        /\ UNCHANGED inbox

\* PLAYER_TURN, with the statistics of the players, to everybody.
MainBroadcast ==
    /\ Running
    /\ mainPc = "broadcast"
    /\ GetPlayerStats(/\ mainPc' = "yourTurn"
                      /\ UNCHANGED <<g_networkState, playerVars, turnVars,
                                     packetVars, failure, clientVars>>)
    /\ UNCHANGED inbox

\* Mutant of YourTurn: Send with broadcast TRUE, as for PLAYER_TURN.
YourTurnBroadcast(turn) ==
    /\ mainPc' = "clear"
    /\ yourTurn' = [g \in Guids |->
                       IF g \in connected THEN Append(yourTurn[g], Slots \ {turn})
                                          ELSE yourTurn[g]]
    /\ UNCHANGED <<g_networkState, playerVars, turnVars, packetVars, failure,
                   connected, launched, ready>>

\* YOUR_TURN, with the numbers that may be attacked, to the player on turn.
\* RakNet drops what is sent to an address it holds no connection to.
YourTurn(turn) ==
    LET player  == playersIDs[turn]
        targets == {m_number[playersIDs[s]] : s \in ConnectedSlots} \ {turn}
    IN  GetPlayers(SlotGuids,
            /\ mainPc' = "clear"
            /\ yourTurn' = IF player \in connected
                           THEN [yourTurn EXCEPT ![player] = Append(@, targets)]
                           ELSE yourTurn
            /\ UNCHANGED <<g_networkState, playerVars, turnVars, packetVars,
                           failure, connected, launched, ready>>)

MainYourTurn == /\ Running
                /\ mainPc = "yourTurn"
                /\ IF lastPlayerTurn \in Slots
                   THEN YourTurn(lastPlayerTurn)
                   ELSE Abort("index out of range")
                /\ UNCHANGED inbox

\* Mutant of MainClear: line 702 is missing.
MainKeepsRequest == /\ MainStep("clear", "poll")
                    /\ UNCHANGED <<g_networkState, playerVars, turnVars,
                                   packetVars, failure, clientVars, inbox>>

MainClear == /\ MainStep("clear", "poll")
             /\ isDefineTurn' = FALSE
             /\ UNCHANGED <<g_networkState, playerVars, lastPlayerTurn,
                            packetVars, failure, clientVars, inbox>>

Main == \/ MainInit \/ MainListen \/ MainPublish
        \/ MainPoll \/ MainNoTurn \/ MainNextTurn
        \/ MainPick \/ MainBroadcast \/ MainYourTurn \/ MainClear

-----------------------------------------------------------------------------
(* The thread of PacketHandler. *)

\* PacketHandler takes a packet from the queue.
Receive(id) == /\ Running
               /\ packetPc = "receive"
               /\ inbox # << >>
               /\ Head(inbox).id = id
               /\ inbox' = Tail(inbox)

\* The guid of the packet in hand.
sender == Head(inbox).guid

\* Mutant of AvailableSlot: the search never leaves the first slot.
FirstSlot == 1

\* The first free slot, and slot 1 when there is none.
AvailableSlot == LET free == {s \in Slots : playersIDs[s] = NoGuid}
                 IN  IF free = {} THEN 1 ELSE Least(free)

\* insert adds an entry: the guid is always a new one, since a process connects
\* once (NewcomersAreNew of GameServerSafety).
OnIncomingConnection ==
    /\ Receive("NEW_INCOMING_CONNECTION")
    /\ m_players' = m_players \cup {sender}
    /\ playersIDs' = [playersIDs EXCEPT ![AvailableSlot] = sender]
    /\ m_number' = [m_number EXCEPT ![sender] = AvailableSlot]
    /\ m_status' = [m_status EXCEPT ![sender] = "PS_Connected"]
    /\ m_class' = [m_class EXCEPT ![sender] = NoClass]
    /\ m_isDefending' = [m_isDefending EXCEPT ![sender] = FALSE]
    /\ m_health' = [m_health EXCEPT ![sender] = 0]
    /\ UNCHANGED <<g_networkState, turnVars, mainPc, packetVars, failure,
                   clientVars>>

\* Mutants of MayStart: the size of the map is not tested, or one too many is
\* required.
MayStartEarly(class) == \A g \in m_players : class[g] # NoClass
MayStartWithOneMore(class) == /\ Cardinality(m_players) > MAX_CONNECTIONS
                              /\ \A g \in m_players : class[g] # NoClass

\* Everybody is here and has a class.
MayStart(class) == /\ Cardinality(m_players) >= MAX_CONNECTIONS
                   /\ \A g \in m_players : class[g] # NoClass

\* CheckGameStart, with the classes OnLobbyReady has just stored.
CheckGameStart(class) ==
    g_networkState' = IF g_networkState = "NS_WaitingPlayers" /\ MayStart(class)
                      THEN "NS_GameStarted" ELSE g_networkState

OnLobbyReady ==
    /\ Receive("LOBBY_READY")
    /\ GetPlayer(sender,
           LET class == Head(inbox).class IN
           /\ m_class' = [m_class EXCEPT ![sender] = class]
           /\ m_health' = [m_health EXCEPT ![sender] = AttribHealth[class]]
           /\ CheckGameStart(m_class')
           /\ UNCHANGED <<m_players, playersIDs, m_number, m_status,
                          m_isDefending, turnVars, mainPc, packetVars,
                          failure, clientVars>>)

\* OnLostConnection up to the test of lastPlayerTurn.
OnLostConnection ==
    /\ Receive("CONNECTION_LOST")
    /\ GetPlayer(sender,
           /\ lostPlayer' = sender
           /\ \/ /\ g_networkState = "NS_WaitingPlayers"
                 /\ playersIDs' = [playersIDs EXCEPT ![m_number[sender]] = NoGuid]
                 /\ m_players' = m_players \ {sender}
                 /\ packetPc' = "isGameOver"
                 /\ UNCHANGED m_status
              \/ /\ g_networkState = "NS_GameStarted"
                 /\ m_status' = [m_status EXCEPT ![sender] = "PS_Disconnected"]
                 /\ packetPc' = "compare"
                 /\ UNCHANGED <<m_players, playersIDs>>
              \/ /\ g_networkState \notin {"NS_WaitingPlayers", "NS_GameStarted"}
                 /\ packetPc' = "isGameOver"
                 /\ UNCHANGED <<m_players, playersIDs, m_status>>
           /\ UNCHANGED <<g_networkState, m_number, m_class, m_isDefending,
                          m_health, turnVars, mainPc, winner, failure,
                          clientVars>>)

\* PacketHandler goes from one place of a handler to another.
PacketStep(from, to) == /\ Running
                        /\ packetPc = from
                        /\ packetPc' = to
                        /\ UNCHANGED <<mainPc, failure, clientVars, inbox>>

\* Was it the turn of the lost player?
CompareTurn == /\ PacketStep("compare", IF m_number[lostPlayer] = lastPlayerTurn
                                        THEN "transfer" ELSE "isGameOver")
               /\ UNCHANGED <<g_networkState, playerVars, turnVars, lostPlayer,
                              winner>>

TransferTurn == /\ PacketStep("transfer", "isGameOver")
                /\ isDefineTurn' = TRUE
                /\ UNCHANGED <<g_networkState, playerVars, lastPlayerTurn,
                               lostPlayer, winner>>

\* Where IsGameOver returns to: OnLostConnection is then done, ResolveTurn
\* goes on to line 475.
ReturnPc == IF lostPlayer = NoGuid THEN "startTurn" ELSE "receive"

\* Mutants of LastOneStanding: off by one, either way.
NobodyStanding == Cardinality(ConnectedSlots) < 1
TwoStanding == Cardinality(ConnectedSlots) <= 2

\* IsGameOver counts the players still connected.
LastOneStanding == Cardinality(ConnectedSlots) <= 1

GameGoesOn == /\ ~LastOneStanding
              /\ SlotGuids \subseteq m_players
              /\ PacketStep("isGameOver", ReturnPc)
              /\ lostPlayer' = NoGuid
              /\ UNCHANGED <<g_networkState, playerVars, turnVars, winner>>

GameIsOver == /\ LastOneStanding
              /\ SlotGuids \subseteq m_players
              /\ PacketStep("isGameOver", "announce")
              /\ g_networkState' = "NS_GameOver"
              /\ winner' = IF ConnectedSlots = {} THEN 0
                           ELSE m_number[playersIDs[Greatest(ConnectedSlots)]]
              /\ UNCHANGED <<playerVars, turnVars, lostPlayer>>

\* A slot is empty: the scan of IsGameOver fails the assertion of GetPlayer.
ScanFails == /\ Running
             /\ packetPc = "isGameOver"
             /\ ~(SlotGuids \subseteq m_players)
             /\ Abort("unregistered guid")
             /\ UNCHANGED inbox

\* The rest of IsGameOver: the winner and GAME_OVER, or index -1 without one.
AnnounceWinner ==
    /\ Running
    /\ packetPc = "announce"
    /\ winner # 0
    /\ GetPlayerStats(
           /\ m_status' = [m_status EXCEPT ![playersIDs[winner]] = "PS_Winner"]
           /\ packetPc' = ReturnPc
           /\ lostPlayer' = NoGuid
           /\ winner' = 0
           /\ UNCHANGED <<g_networkState, m_players, playersIDs, m_number,
                          m_class, m_isDefending, m_health, turnVars, mainPc,
                          failure, clientVars>>)
    /\ UNCHANGED inbox

NoWinner == /\ Running
            /\ packetPc = "announce"
            /\ winner = 0
            /\ Abort("no winner")
            /\ UNCHANGED inbox

\* What ResolveAttack compares the die with.
Defense(g) == AttribDefense[m_class[g]]
                  + (IF m_isDefending[g] THEN DefendBonus ELSE 0)

\* Mutant of Hits: strict comparison.
HitsAbove(roll, target) == roll > Defense(target)

Hits(roll, target) == roll >= Defense(target)

\* Mutant of Wounded: line 387 is missing.
WoundedBelowZero(health, damage) == health - damage

\* The health a blow leaves.
Wounded(health, damage) == IF damage >= health THEN 0 ELSE health - damage

\* The blow at a connected target: a defending target is hit less easily and
\* stops defending, hit or not; one left without health is dead.
Strike(target, roll) ==
    LET hit  == Hits(roll, target)
        left == IF hit
                THEN Wounded(m_health[target], AttribDamage[m_class[sender]])
                ELSE m_health[target]
    IN  /\ m_isDefending' = [m_isDefending EXCEPT ![target] = FALSE]
        /\ m_health' = [m_health EXCEPT ![target] = left]
        /\ m_status' = [m_status EXCEPT ![target] =
                            IF hit /\ left = 0 THEN "PS_Dead" ELSE @]
        /\ packetPc' = "isGameOver"
        /\ UNCHANGED <<g_networkState, m_players, playersIDs, m_number, m_class,
                       turnVars, mainPc, lostPlayer, winner, failure, clientVars>>

\* Mutant of ResolveAttack: line 365 spares the disconnected and the winner, but
\* not the dead.
ResolveAttackOnDead ==
    /\ Receive("PLAYER_ATTACK")
    /\ LET target == playersIDs[Head(inbox).target]
       IN  \/ /\ m_status[target] \in {"PS_Disconnected", "PS_Winner"}
              /\ packetPc' = "startTurn"
              /\ UNCHANGED <<g_networkState, playerVars, turnVars, mainPc,
                             lostPlayer, winner, failure, clientVars>>
           \/ /\ m_status[target] \in {"PS_Connected", "PS_Dead"}
              /\ \E roll \in DieFaces : Strike(target, roll)

\* ResolveTurn and ResolveAttack, up to the call of IsGameOver. A target that
\* is no longer connected is left alone, and IsGameOver is not called.
ResolveAttack ==
    /\ Receive("PLAYER_ATTACK")
    /\ LET target == playersIDs[Head(inbox).target]
       IN  GetPlayers({sender, target},
             \/ /\ m_status[target] # "PS_Connected"
                /\ packetPc' = "startTurn"
                /\ UNCHANGED <<g_networkState, playerVars, turnVars, mainPc,
                               lostPlayer, winner, failure, clientVars>>
             \/ /\ m_status[target] = "PS_Connected"
                /\ Characters({target},
                      \E roll \in DieFaces :
                         Characters(IF Hits(roll, target) THEN {sender} ELSE {},
                                    Strike(target, roll))))

ResolveDefend ==
    /\ Receive("PLAYER_DEFEND")
    /\ GetPlayer(sender,
           /\ m_isDefending' = [m_isDefending EXCEPT ![sender] = TRUE]
           /\ packetPc' = "startTurn"
           /\ UNCHANGED <<g_networkState, m_players, playersIDs, m_number,
                          m_class, m_status, m_health, turnVars, mainPc,
                          lostPlayer, winner, failure, clientVars>>)

\* Mutant of Healed: no limit.
HealedWithoutLimit(class, health, roll) == health + roll

\* The health after a heal of `roll` points, at most that of a new character.
\* Line 441 compares as unsigned: were more than nothing missing below zero,
\* it would be more than any roll.
Healed(class, health, roll) ==
    LET missing == AttribHealth[class] - health
    IN  health + (IF missing >= 0 /\ roll > missing THEN missing ELSE roll)

ResolveHeal ==
    /\ Receive("PLAYER_HEAL")
    /\ GetPlayer(sender, Characters({sender},
           /\ \E roll \in DieFaces :
                 m_health' = [m_health EXCEPT ![sender] =
                                  Healed(m_class[sender], @, roll)]
           /\ packetPc' = "startTurn"
           /\ UNCHANGED <<g_networkState, m_players, playersIDs, m_number,
                          m_class, m_status, m_isDefending, turnVars, mainPc,
                          lostPlayer, winner, failure, clientVars>>))

\* Mutant of StartTurn: line 475 is missing.
StartNoTurn == /\ PacketStep("startTurn", "receive")
               /\ UNCHANGED <<g_networkState, playerVars, turnVars, lostPlayer,
                              winner>>

\* The end of ResolveTurn, whoever sent the packet.
StartTurn == /\ PacketStep("startTurn", "receive")
             /\ isDefineTurn' = TRUE
             /\ UNCHANGED <<g_networkState, playerVars, lastPlayerTurn,
                            lostPlayer, winner>>

PacketThread == \/ OnIncomingConnection \/ OnLobbyReady \/ OnLostConnection
                \/ CompareTurn \/ TransferTurn
                \/ GameGoesOn \/ GameIsOver \/ ScanFails
                \/ AnnounceWinner \/ NoWinner
                \/ ResolveAttack \/ ResolveDefend \/ ResolveHeal \/ StartTurn

-----------------------------------------------------------------------------
(* RakNet and the client processes, as far as the server can tell. *)

serverVars == <<g_networkState, playerVars, turnVars, mainPc, packetVars, failure>>

\* The peer has started and accepts connections.
Listening == mainPc = "publish" \/ g_networkState \notin {"NS_Init", "NS_PendingStart"}

\* A process connects once, and never again when RakNet's limit is reached.
Connect(g) ==
    /\ Running
    /\ Listening
    /\ g \notin launched
    /\ launched' = launched \cup {g}
    /\ \/ /\ Cardinality(connected) < MAX_CONNECTIONS
          /\ connected' = connected \cup {g}
          /\ Post([id |-> "NEW_INCOMING_CONNECTION", guid |-> g])
       \/ /\ Cardinality(connected) >= MAX_CONNECTIONS
          /\ UNCHANGED <<connected, inbox>>
    /\ UNCHANGED <<serverVars, ready, yourTurn>>

\* SelectClass and LOBBY_READY.
ChooseClass(g) ==
    /\ Running
    /\ g \in connected \ ready
    /\ PromptMain => mainPc # "publish"
    /\ ready' = ready \cup {g}
    /\ \E class \in Classes :
          Post([id |-> "LOBBY_READY", guid |-> g, class |-> class])
    /\ UNCHANGED <<serverVars, connected, launched, yourTurn>>

\* OnPlayerTurn of the client: one action for the oldest YOUR_TURN. Attack
\* with no target to choose never returns from ChooseTarget.
Act(g) ==
    /\ Running
    /\ g \in connected \cap ready
    /\ yourTurn[g] # << >>
    /\ PromptMain => mainPc # "clear"
    /\ yourTurn' = [yourTurn EXCEPT ![g] = Tail(@)]
    /\ \/ \E t \in Head(yourTurn[g]) :
              Post([id |-> "PLAYER_ATTACK", guid |-> g, target |-> t])
       \/ Post([id |-> "PLAYER_DEFEND", guid |-> g])
       \/ /\ m_class[g] \in Healers
          /\ Post([id |-> "PLAYER_HEAL", guid |-> g])
    /\ UNCHANGED <<serverVars, connected, launched, ready>>

\* RakNet gives a connection up, behind the packets it already delivered.
Lose(g) ==
    /\ Running
    /\ g_networkState \in LossStates
    /\ g \in connected
    /\ connected' = connected \ {g}
    /\ yourTurn' = [yourTurn EXCEPT ![g] = << >>]
    /\ Post([id |-> "CONNECTION_LOST", guid |-> g])
    /\ UNCHANGED <<serverVars, launched, ready>>

Environment == \E g \in Guids : Connect(g) \/ ChooseClass(g) \/ Act(g) \/ Lose(g)

Next == Main \/ PacketThread \/ Environment

Spec == Init /\ [][Next]_vars

\* The scheduler runs both threads again and again, RakNet pushes what it
\* receives, and every player who is asked eventually presses a key.
FairSpec == /\ Spec
            /\ WF_vars(Main)
            /\ WF_vars(PacketThread)
            /\ \A g \in Guids : WF_vars(Connect(g) \/ ChooseClass(g) \/ Act(g))

-----------------------------------------------------------------------------
(* Properties. *)

SPlayerStatus == {"PS_Connected", "PS_Dead", "PS_Disconnected", "PS_Winner"}

\* The variables hold what their C++ counterparts can hold.
TypeOK ==
    /\ g_networkState \in NetworkStates
    /\ m_players \subseteq Guids
    /\ playersIDs \in [Slots -> Guids \cup {NoGuid}]
    /\ m_number \in [Guids -> Slots \cup {0}]
    /\ m_class \in [Guids -> Classes \cup {NoClass}]
    /\ m_status \in [Guids -> SPlayerStatus]
    /\ m_isDefending \in [Guids -> BOOLEAN]
    /\ m_health \in [Guids -> Nat]
    /\ isDefineTurn \in BOOLEAN
    /\ lastPlayerTurn \in Nat
    /\ mainPc \in {"poll", "publish", "test", "pick", "broadcast", "yourTurn",
                   "clear"}
    /\ packetPc \in {"receive", "compare", "transfer", "isGameOver",
                     "announce", "startTurn"}
    /\ lostPlayer \in Guids \cup {NoGuid}
    /\ winner \in Slots \cup {0}
    /\ failure \in {"none", "unregistered guid", "null character",
                    "index out of range", "no winner"}
    /\ connected \subseteq Guids
    /\ inbox \in Seq(Packet)
    /\ launched \subseteq Guids
    /\ ready \subseteq Guids
    /\ yourTurn \in [Guids -> Seq(SUBSET Slots)]

\* The two records of a player, the map entry with its number and the element
\* of playersIDs, point at each other: no two players share a slot and none is
\* in the map without one (OnIncomingConnection, OnLostConnection).
SlotsMatchPlayers ==
    /\ \A g \in m_players : m_number[g] \in Slots /\ playersIDs[m_number[g]] = g
    /\ \A s \in Slots : playersIDs[s] # NoGuid => playersIDs[s] \in m_players

\* Blows and heals keep the health between 0 and that of a new character, and
\* whoever is still in the game, or has won it, is alive: m_status and m_health
\* are changed together in ResolveAttack.
HealthMatchesStatus ==
    \A g \in m_players :
        \/ m_class[g] = NoClass /\ m_health[g] = 0
        \/ /\ m_class[g] # NoClass
           /\ m_health[g] <= AttribHealth[m_class[g]]
           /\ m_status[g] \in {"PS_Connected", "PS_Winner"} => m_health[g] > 0

\* A game goes on only while somebody is left to play against: every handler
\* that takes a player out of the game checks for its end before it returns.
GameHasOpponents ==
    g_networkState = "NS_GameStarted" /\ packetPc \in {"receive", "startTurn"}
        => Cardinality(ConnectedSlots) >= 2

\* A finished game has one winner and nobody else in it (IsGameOver).
OneWinner ==
    g_networkState = "NS_GameOver" /\ packetPc \in {"receive", "startTurn"}
        => /\ ConnectedSlots = {}
           /\ Cardinality({g \in m_players : m_status[g] = "PS_Winner"}) = 1

\* The places where a turn can be: wanted, being started by main, with a
\* player, answered, or being resolved.
Unanswered == {u \in Guids \X (1 .. 2) : u[2] <= Len(yourTurn[u[1]])}
Answers    == {i \in DOMAIN inbox : inbox[i].id \in TurnPackets}
One(condition) == IF condition THEN 1 ELSE 0

TurnsUnderWay == One(isDefineTurn /\ mainPc \in {"poll", "test"})
                   + One(mainPc \in {"pick", "broadcast", "yourTurn"})
                   + Cardinality(Unanswered) + Cardinality(Answers)
                   + One(packetPc # "receive")

\* In a game two turns are never under way at once, whatever the two threads
\* and the players do (isDefineTurn, YOUR_TURN and the answer to it).
OneTurnAtATime == g_networkState = "NS_GameStarted" => TurnsUnderWay <= 1

\* A game starts with a turn under way, and no step of it drops the turn or adds
\* one, but for this: the answer is resolved, and the next turn wanted by line
\* 475, before main reaches line 702 and clears the request. No connection needs
\* to be lost for it, and a turn dropped there is never made up for.
TurnIsDroppedAtClearOnly ==
    [][g_networkState' = "NS_GameStarted"
           => \/ TurnsUnderWay' = IF g_networkState = "NS_GameStarted"
                                   THEN TurnsUnderWay ELSE 1
              \/ mainPc = "clear" /\ packetPc = "startTurn"]_vars

\* Only the player on turn is heard. ResolveTurn never asks whose turn it is:
\* that an answer comes from lastPlayerTurn rests on the path of the turn.
OnlyThePlayerOnTurnActs ==
    g_networkState = "NS_GameStarted"
        => \A i \in Answers : inbox[i].guid = playersIDs[lastPlayerTurn]

\* No assertion fails, no null character is read, no index is out of range.
NothingFails == failure = "none"

\* As long as the game lasts it survives every loss: OnLostConnection and the
\* turn in preparation find the entries and the characters of all players.
GameSurvivesLosses == g_networkState = "NS_GameStarted" => failure = "none"

\* Nobody who is out of the game comes back to it, and no blow touches him any
\* more, be he dead, disconnected or the winner: his health goes up only, and he
\* keeps defending, although a dead player may be given a turn and heal
\* (TurnGoesToValidPlayer). A finished game is not taken up again.
NobodyComesBack ==
    [][/\ \A g \in m_players :
            /\ m_status[g] # "PS_Connected"
                   => m_health'[g] >= m_health[g] /\ (m_isDefending[g] => m_isDefending'[g])
            /\ m_status[g] \in {"PS_Disconnected", "PS_Winner"} => m_status'[g] = m_status[g]
            /\ m_status[g] = "PS_Dead" => m_status'[g] \in {"PS_Dead", "PS_Disconnected"}
       /\ g_networkState = "NS_GameOver" => g_networkState' = "NS_GameOver"]_vars

\* No roll makes a player unassailable: whatever the class, and also while
\* defending, the highest face of the die hits (lines 368-379).
NobodyIsInvulnerable ==
    \A s \in ConnectedSlots :
        m_class[playersIDs[s]] # NoClass
            => \E roll \in DieFaces : Hits(roll, playersIDs[s])

\* No blow kills a character at full health: every player outlives the first
\* blow, and a heal to full health always saves from the next one.
LivesThroughFirstBlow ==
    [][\A g \in m_players :
          m_status[g] = "PS_Connected" /\ m_status'[g] = "PS_Dead"
              => m_health[g] < AttribHealth[m_class[g]]]_vars

\* What the server promises, apart from how it goes about it.
Game == INSTANCE TurnGame WITH
    Players <- Guids,
    Size    <- MAX_CONNECTIONS,
    phase   <- IF g_networkState = "NS_GameStarted" THEN "playing"
               ELSE IF g_networkState = "NS_GameOver" THEN "over" ELSE "lobby",
    alive   <- {g \in m_players : m_status[g] \in {"PS_Connected", "PS_Winner"}}

\* The server implements the game: it starts full, loses its players one at a
\* time, and ends when, and only when, one is left.
ImplementsTurnGame == Game!Spec

\* Once every player has a class the game starts (OnLobbyReady, CheckGameStart),
\* if nobody is ready before main has announced the lobby (line 629, PromptMain).
GameStarts == <>(g_networkState = "NS_GameStarted")

\* Each player still in the game gets a turn again and again, to the end of
\* the game: neither the wrap of lastPlayerTurn nor the scan for a valid
\* player passes one over for ever, as long as no turn is dropped (PromptMain,
\* TurnIsDroppedAtClearOnly).
EveryPlayerGetsTurns ==
    \A g \in Guids :
        g_networkState = "NS_GameStarted" /\ g \in m_players /\ m_status[g] = "PS_Connected"
            ~> \/ yourTurn[g] # << >>
               \/ m_status[g] # "PS_Connected"

\* Comment of line 648, "Get a valid player": the turn is given to a player
\* who is in the game.
TurnGoesToValidPlayer ==
    mainPc = "broadcast" => lastPlayerTurn \in ConnectedSlots

\* Comment of line 238, "Transfer the turn to another player": after it
\* another player gets the turn, unless the loss has ended the game.
LostTurnIsTransferred ==
    packetPc = "transfer"
        ~> \/ \E g \in connected : yourTurn[g] # << >>
           \/ g_networkState = "NS_GameOver"

\* The assertion of line 44, when a player leaves before the game starts.
GetPlayerFindsEntry == failure # "unregistered guid"

\* playersIDs[winner - 1] is an element of playersIDs (line 205).
WinnerExists == failure # "no winner"

\* Comment of line 210, "Notify all player that game has finished": then no
\* turn is started any more.
NoTurnAfterGameOver ==
    [][g_networkState = "NS_GameOver" /\ packetPc = "receive" =>
           \A g \in Guids : Len(yourTurn'[g]) <= Len(yourTurn[g])]_vars

=============================================================================
