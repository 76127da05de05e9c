------------------------------- MODULE RpgSystem -------------------------------
(***************************************************************************)
(* The whole game: the server of GameServer and the client processes of    *)
(* src/RakNet_RPG/Client/main.cpp, each with its three threads (main,      *)
(* InputHandler, PacketHandler), joined by the messages they send.         *)
(*                                                                         *)
(* The server's steps are those of GameServer together with what they      *)
(* send. Its environment is not used here: ServerAssumptionsHold says that *)
(* the clients below are such an environment.                              *)
(*                                                                         *)
(* RakNet keeps the order of what a peer sends to another. What a client   *)
(* sends is on the server's queue at once: it may wait there as long as it *)
(* could have waited on the way. What the server sends waits in c_inbox.   *)
(***************************************************************************)
EXTENDS GameServer

CONSTANT Fragile      \* clients whose connection may be lost

ASSUME FragileAssumption == Fragile \subseteq Guids

VARIABLES
    c_networkState,   \* g_networkState of a client
    c_serverAddress,  \* TRUE once g_serverAddress is set
    c_playerClass,    \* the global playerClass
    c_attempt,        \* where the connection attempt of its peer is
    c_inputPc,        \* where InputHandler is
    c_packetPc,       \* where PacketHandler is in the handler it runs
    c_failed,         \* the clients an assertion has stopped
    c_inbox           \* packets not yet returned by a client's Receive()

processVars == <<c_networkState, c_serverAddress, c_playerClass, c_attempt,
                 c_inputPc, c_packetPc, c_failed>>
systemVars == <<vars, processVars, c_inbox>>

ClientStates == {"NS_Init", "NS_Started", "NS_Lobby",
                 "NS_WaitingPlayers", "NS_GameStarted", "NS_GameOver"}

\* Packets a client acts upon, and of their contents the targets of YOUR_TURN.
\* Those it only prints are left out: PLAYER_READY, PLAYER_TURN, the notices of
\* a refused or failed attempt, CONNECTION_LOST.
Message == [id : {"CONNECTION_REQUEST_ACCEPTED", "THEGAME_START", "THEGAME_OVER"}]
             \cup [id : {"YOUR_TURN"}, targets : SUBSET Slots]

SystemInit ==
    /\ Init
    /\ c_networkState = [g \in Guids |-> "NS_Init"]
    /\ c_serverAddress = [g \in Guids |-> FALSE]
    /\ c_playerClass = [g \in Guids |-> NoClass]
    /\ c_attempt = [g \in Guids |-> "none"]
    /\ c_inputPc = [g \in Guids |-> "poll"]
    /\ c_packetPc = [g \in Guids |-> "receive"]
    /\ c_failed = {}
    /\ c_inbox = [g \in Guids |-> << >>]

-----------------------------------------------------------------------------
(* The server: every step with the messages it sends. *)

\* `id` goes to everybody RakNet is connected to.
Broadcast(id) ==
    c_inbox' = [g \in Guids |-> IF g \in connected
                                THEN Append(c_inbox[g], [id |-> id])
                                ELSE c_inbox[g]]

\* What MainYourTurn adds to yourTurn is what it sends.
SendYourTurn ==
    /\ MainYourTurn
    /\ c_inbox' = [g \in Guids |->
                      LET n == Len(yourTurn'[g])
                      IN  IF n = Len(yourTurn[g]) THEN c_inbox[g]
                          ELSE Append(c_inbox[g], [id |-> "YOUR_TURN",
                                                   targets |-> yourTurn'[g][n]])]

StartsGame == /\ g_networkState = "NS_WaitingPlayers"
              /\ g_networkState' = "NS_GameStarted"

SendGameStart == /\ OnLobbyReady
                 /\ IF StartsGame THEN Broadcast("THEGAME_START")
                                  ELSE UNCHANGED c_inbox

\* Mutant of SendGameOver: the winner alone hears of it.
SendGameOverToWinner ==
    /\ AnnounceWinner
    /\ c_inbox' = [c_inbox EXCEPT ![playersIDs[winner]] =
                       Append(@, [id |-> "THEGAME_OVER"])]

SendGameOver == /\ AnnounceWinner
                /\ IF Running' THEN Broadcast("THEGAME_OVER")
                               ELSE UNCHANGED c_inbox

\* The other steps send nothing a client acts upon.
SilentMain == /\ \/ MainInit \/ MainListen \/ MainPublish
                 \/ MainPoll \/ MainNoTurn \/ MainNextTurn
                 \/ MainPick \/ MainBroadcast \/ MainClear
              /\ UNCHANGED c_inbox

SilentPacketThread == /\ \/ OnIncomingConnection \/ OnLostConnection
                         \/ CompareTurn \/ TransferTurn
                         \/ GameGoesOn \/ GameIsOver \/ ScanFails \/ NoWinner
                         \/ ResolveAttack \/ ResolveDefend \/ ResolveHeal
                         \/ StartTurn
                      /\ UNCHANGED c_inbox

ServerMain == /\ SilentMain \/ SendYourTurn
              /\ UNCHANGED processVars

ServerPacketThread == /\ SilentPacketThread \/ SendGameStart \/ SendGameOver
                      /\ UNCHANGED processVars

-----------------------------------------------------------------------------
(* The thread of main of a client. *)

Up(g) == g \notin c_failed

Goes(pc, g, from, to) == pc[g] = from /\ pc' = [pc EXCEPT ![g] = to]

\* The loop of main, through NS_PendingStart and Startup to the call of Connect:
\* the other threads wait for NS_Lobby and for packets until then. RakNet
\* tries to connect a few times on its own; main never does again.
ClientMain(g) ==
    /\ Up(g)
    /\ Goes(c_networkState, g, "NS_Init", "NS_Started")
    /\ c_attempt' = [c_attempt EXCEPT ![g] = "pending"]
    /\ UNCHANGED <<vars, c_serverAddress, c_playerClass, c_inputPc, c_packetPc,
                   c_failed, c_inbox>>

-----------------------------------------------------------------------------
(* The thread of InputHandler of a client. *)

\* Line 219 sees NS_Lobby.
SeeLobby(g) ==
    /\ Up(g)
    /\ c_networkState[g] = "NS_Lobby"
    /\ Goes(c_inputPc, g, "poll", "select")
    /\ UNCHANGED <<vars, c_networkState, c_serverAddress, c_playerClass,
                   c_attempt, c_packetPc, c_failed, c_inbox>>

\* Mutant of SelectClass: the loop of line 111 lets a fourth key through.
SelectAnything(g) ==
    /\ Up(g)
    /\ Goes(c_inputPc, g, "select", "send")
    /\ \E class \in Classes \cup {"EPlayerClass_ERROR"} :
          c_playerClass' = [c_playerClass EXCEPT ![g] = class]
    /\ UNCHANGED <<vars, c_networkState, c_serverAddress, c_attempt, c_packetPc,
                   c_failed, c_inbox>>

SelectClass(g) ==
    /\ Up(g)
    /\ Goes(c_inputPc, g, "select", "send")
    /\ \E class \in Classes : c_playerClass' = [c_playerClass EXCEPT ![g] = class]
    /\ UNCHANGED <<vars, c_networkState, c_serverAddress, c_attempt,
                   c_packetPc, c_failed, c_inbox>>

\* A packet for the server: it reaches a server that runs and still holds the
\* connection, and is lost without notice otherwise.
Reaches(g) == Running /\ g \in connected

\* Mutant of SendLobbyReady: the packet has left when the assertion fails.
SendBeforeFailing(g) ==
    /\ Up(g)
    /\ Goes(c_inputPc, g, "send", "wait")
    /\ Reaches(g)
    /\ c_failed' = IF c_serverAddress[g] THEN c_failed ELSE c_failed \cup {g}
    /\ Post([id |-> "LOBBY_READY", guid |-> g, class |-> c_playerClass[g]])
    /\ ready' = ready \cup {g}
    /\ UNCHANGED <<serverVars, connected, launched, yourTurn, c_networkState,
                   c_serverAddress, c_playerClass, c_attempt, c_packetPc, c_inbox>>

\* LOBBY_READY. Send returns 0 for an address that is not set yet, and the
\* assertion around it stops the client.
SendLobbyReady(g) ==
    /\ Up(g)
    /\ PromptMain => mainPc # "publish"
    /\ IF c_serverAddress[g]
       THEN Goes(c_inputPc, g, "send", "wait") /\ UNCHANGED c_failed
       ELSE /\ c_inputPc[g] = "send"
            /\ c_failed' = c_failed \cup {g}
            /\ UNCHANGED c_inputPc
    /\ IF c_serverAddress[g] /\ Reaches(g)
       THEN /\ Post([id |-> "LOBBY_READY", guid |-> g, class |-> c_playerClass[g]])
            /\ ready' = ready \cup {g}
       ELSE UNCHANGED <<inbox, ready>>
    /\ UNCHANGED <<serverVars, connected, launched, yourTurn, c_networkState,
                   c_serverAddress, c_playerClass, c_attempt, c_packetPc,
                   c_inbox>>

\* Mutant of WaitForPlayers: line 240 is missing, and the lobby is seen again.
StayInLobby(g) ==
    /\ Up(g)
    /\ Goes(c_inputPc, g, "wait", "poll")
    /\ UNCHANGED <<vars, c_networkState, c_serverAddress, c_playerClass,
                   c_attempt, c_packetPc, c_failed, c_inbox>>

\* Line 240, whatever PacketHandler has stored there meanwhile.
WaitForPlayers(g) ==
    /\ Up(g)
    /\ Goes(c_inputPc, g, "wait", "poll")
    /\ c_networkState' = [c_networkState EXCEPT ![g] = "NS_WaitingPlayers"]
    /\ UNCHANGED <<vars, c_serverAddress, c_playerClass, c_attempt, c_packetPc,
                   c_failed, c_inbox>>

InputHandler(g) == SeeLobby(g) \/ SelectClass(g) \/ SendLobbyReady(g)
                   \/ WaitForPlayers(g)

-----------------------------------------------------------------------------
(* The thread of PacketHandler of a client. *)

\* The packet at the head of the queue is the one in hand until its handler is
\* done with it.
InHand(g, id) == /\ Up(g)
                 /\ c_inbox[g] # << >>
                 /\ Head(c_inbox[g]).id = id

Done(g) == c_inbox' = [c_inbox EXCEPT ![g] = Tail(@)]

Handle(g, id) == InHand(g, id) /\ c_packetPc[g] = "receive" /\ Done(g)

\* The lobby is entered (line 148) before the address is known (line 150).
OnConnectionAccepted(g) ==
    /\ Handle(g, "CONNECTION_REQUEST_ACCEPTED")
    /\ c_packetPc' = [c_packetPc EXCEPT ![g] = "accepted"]
    /\ c_networkState' = [c_networkState EXCEPT ![g] = "NS_Lobby"]
    /\ UNCHANGED <<vars, c_serverAddress, c_playerClass, c_attempt, c_inputPc,
                   c_failed>>

StoreAddress(g) ==
    /\ Up(g)
    /\ Goes(c_packetPc, g, "accepted", "receive")
    /\ c_serverAddress' = [c_serverAddress EXCEPT ![g] = TRUE]
    /\ UNCHANGED <<vars, c_networkState, c_playerClass, c_attempt, c_inputPc,
                   c_failed, c_inbox>>

\* OnGameStarted and OnGameOver.
Enter(g, id, state) ==
    /\ Handle(g, id)
    /\ c_networkState' = [c_networkState EXCEPT ![g] = state]
    /\ UNCHANGED <<vars, c_serverAddress, c_playerClass, c_attempt, c_inputPc,
                   c_packetPc, c_failed>>

OnGameStarted(g) == Enter(g, "THEGAME_START", "NS_GameStarted")
OnGameOver(g) == Enter(g, "THEGAME_OVER", "NS_GameOver")

\* The Send at the end of OnPlayerTurn.
Answer(g, packet) ==
    /\ PromptMain => mainPc # "clear"
    /\ Done(g)
    /\ IF Reaches(g)
       THEN Post(packet) /\ yourTurn' = [yourTurn EXCEPT ![g] = Tail(@)]
       ELSE UNCHANGED <<inbox, yourTurn>>
    /\ UNCHANGED <<serverVars, connected, launched, ready, c_networkState,
                   c_serverAddress, c_playerClass, c_attempt, c_inputPc,
                   c_failed>>

\* OnPlayerTurn, when the key pressed in DoTurn is that of Attack.
ChooseAttack(g) ==
    /\ InHand(g, "YOUR_TURN")
    /\ Goes(c_packetPc, g, "receive", "target")
    /\ UNCHANGED <<vars, c_networkState, c_serverAddress, c_playerClass,
                   c_attempt, c_inputPc, c_failed, c_inbox>>

\* ChooseTarget waits for a number on the list, in vain when it is empty.
ChooseTarget(g) ==
    /\ InHand(g, "YOUR_TURN")
    /\ Goes(c_packetPc, g, "target", "receive")
    /\ \E t \in Head(c_inbox[g]).targets :
          Answer(g, [id |-> "PLAYER_ATTACK", guid |-> g, target |-> t])

\* Mutant of ChooseDefend: no answer is sent.
ForgetToDefend(g) ==
    /\ Handle(g, "YOUR_TURN")
    /\ UNCHANGED <<vars, processVars>>

ChooseDefend(g) ==
    /\ InHand(g, "YOUR_TURN")
    /\ c_packetPc[g] = "receive"
    /\ Answer(g, [id |-> "PLAYER_DEFEND", guid |-> g])
    /\ UNCHANGED c_packetPc

ChooseHeal(g) ==
    /\ InHand(g, "YOUR_TURN")
    /\ c_packetPc[g] = "receive"
    /\ c_playerClass[g] \in Healers
    /\ Answer(g, [id |-> "PLAYER_HEAL", guid |-> g])
    /\ UNCHANGED c_packetPc

ClientPacketHandler(g) ==
    \/ OnConnectionAccepted(g) \/ StoreAddress(g)
    \/ OnGameStarted(g) \/ OnGameOver(g)
    \/ ChooseAttack(g) \/ ChooseTarget(g) \/ ChooseDefend(g) \/ ChooseHeal(g)

-----------------------------------------------------------------------------
(* RakNet between a client and the server. *)

\* The server's RakNet answers, with a slot left for the client.
AcceptAttempt(g) ==
    /\ Running /\ Listening
    /\ Cardinality(connected) < MAX_CONNECTIONS
    /\ launched' = launched \cup {g}
    /\ connected' = connected \cup {g}
    /\ Post([id |-> "NEW_INCOMING_CONNECTION", guid |-> g])
    /\ c_inbox' = [c_inbox EXCEPT ![g] =
                       Append(@, [id |-> "CONNECTION_REQUEST_ACCEPTED"])]
    /\ UNCHANGED <<serverVars, ready, yourTurn>>

\* Nobody answers, or there is no slot left: the client prints it, that is all.
RefuseAttempt(g) ==
    /\ Running /\ Listening => Cardinality(connected) >= MAX_CONNECTIONS
    /\ UNCHANGED <<vars, c_inbox>>

RakNet(g) == /\ Goes(c_attempt, g, "pending", "settled")
             /\ AcceptAttempt(g) \/ RefuseAttempt(g)
             /\ UNCHANGED <<c_networkState, c_serverAddress, c_playerClass,
                            c_inputPc, c_packetPc, c_failed>>

\* Both sides notice the loss; what was still on its way to the client may not
\* arrive, except for the packet a handler has in hand.
LoseConnection(g) ==
    /\ g \in Fragile /\ Lose(g)
    /\ \E n \in 0 .. Len(c_inbox[g]) :
          /\ c_packetPc[g] = "target" => n > 0
          /\ c_inbox' = [c_inbox EXCEPT ![g] = SubSeq(@, 1, n)]
    /\ UNCHANGED processVars

Client(g) == \/ ClientMain(g) \/ InputHandler(g) \/ ClientPacketHandler(g)
             \/ RakNet(g)

SystemNext == \/ ServerMain \/ ServerPacketThread
              \/ \E g \in Guids : Client(g) \/ LoseConnection(g)

\* The two threads of the server run again and again, and a client that can do
\* something does it: its threads are loops, its attempt to connect is settled,
\* and its player, when asked, eventually presses a key.
SystemSpec ==
    /\ SystemInit
    /\ [][SystemNext]_systemVars
    /\ WF_systemVars(ServerMain)
    /\ WF_systemVars(ServerPacketThread)
    /\ \A g \in Guids : WF_systemVars(Client(g))

-----------------------------------------------------------------------------
(* Properties. *)

\* The variables of the clients hold what their C++ counterparts can hold.
SystemTypeOK ==
    /\ c_networkState \in [Guids -> ClientStates]
    /\ c_serverAddress \in [Guids -> BOOLEAN]
    /\ c_playerClass \in [Guids -> Classes \cup {NoClass}]
    /\ c_attempt \in [Guids -> {"none", "pending", "settled"}]
    /\ c_inputPc \in [Guids -> {"poll", "select", "send", "wait"}]
    /\ c_packetPc \in [Guids -> {"receive", "accepted", "target"}]
    /\ c_failed \subseteq Guids
    /\ c_inbox \in [Guids -> Seq(Message)]

\* The clients and RakNet are the environment GameServer assumes: a process
\* connects once and is ready once, although three threads of it share one
\* network state; each YOUR_TURN is answered at most once, in order, with a
\* target from its own list or an action of the class the server has stored.
ServerAssumptionsHold == Spec

\* The assertion around the Send of LOBBY_READY can fail (line 237, when the
\* address is not stored yet), and then the server has never counted on the
\* client: it has no class, and the game has not started.
ClientFailsOnlyInLobby ==
    \A g \in c_failed : /\ g \notin ready
                        /\ m_class[g] = NoClass
                        /\ yourTurn[g] = << >>

\* A player who attacks with nobody to attack is caught in ChooseTarget: that
\* happens only when the game is over, or about to be declared so.
StuckOnlyAtTheEnd ==
    \A g \in Guids :
        c_packetPc[g] = "target" /\ Head(c_inbox[g]).targets = {}
            => g_networkState = "NS_GameOver" \/ packetPc # "receive" \/ ~Running

\* Every YOUR_TURN that has somebody to attack is answered, unless the
\* connection or the server is lost (OnPlayerTurn, ChooseTarget).
TurnsAreAnswered ==
    \A g \in Guids :
        yourTurn[g] # << >> /\ Head(yourTurn[g]) # {}
            ~> yourTurn[g] = << >> \/ ~Running

\* THEGAME_OVER reaches every client connected when the winner is announced: it
\* takes the message and enters NS_GameOver, unless it is caught in ChooseTarget,
\* or the connection or the server is lost. Entered, not kept: InputHandler may
\* overwrite the state afterwards, when it is still between the Send of LOBBY_READY
\* and line 240.
EndReachesClients ==
    \A g \in Guids :
        packetPc = "announce" /\ g \in connected
            ~> \/ c_networkState[g] = "NS_GameOver"
               \/ c_packetPc[g] = "target" /\ Head(c_inbox[g]).targets = {}
               \/ g \notin connected
               \/ ~Running

=============================================================================
