# RakNet_RPG in TLA+

A verification project for RakNet_RPG, a small turn-based role-playing game
played over RakNet: one server process, three client processes, and two threads
(the client: three) in each of them that share globals. Everything the players
may rely on is decided in the server, by two threads that share their state
without locks; it was modelled first. Around it are now the clients, composed
with the server, and below them the parts of RakNet the game stands on: how
connections are made, and how messages get through a network that loses them.

Paths below are relative to `src/`; `Server`, `Client` and `Common` stand for
`RakNet_RPG/Server`, `RakNet_RPG/Client` and `RakNet_RPG/Common`.

## 1. The system

### Game server (`Server/main.cpp`)

*State.* `g_networkState`; the map `m_players` from the 32-bit guid of a client
to its `SPlayer` (number, class, status, defending flag, character with its
health); `playersIDs`, the guid in each of the `MAX_CONNECTIONS` slots;
`isDefineTurn`, "start a new turn"; `lastPlayerTurn`, whose turn it is.

*Threads.* `main` brings the server up, and in a started game polls
`isDefineTurn`: it moves `lastPlayerTurn` to the next player, looks for one who
is still connected, broadcasts `ID_PLAYER_TURN`, sends that player
`ID_YOUR_TURN` with the players he may attack, and clears `isDefineTurn`.
`PacketHandler` takes packets from RakNet one after another and runs a handler
for each:

| packet | handler | effect |
|---|---|---|
| `ID_NEW_INCOMING_CONNECTION` | `OnIncomingConnection` | entry in the map, first free slot |
| `ID_THEGAME_LOBBY_READY` | `OnLobbyReady`, `CheckGameStart` | class and character; the last one starts the game |
| `ID_PLAYER_ATTACK` | `ResolveTurn`, `ResolveAttack`, `IsGameOver` | a blow, perhaps a death, perhaps the end |
| `ID_PLAYER_DEFEND`, `ID_PLAYER_HEAL` | `ResolveTurn`, `ResolveDefend`, `ResolveHeal` | the flag; health up to the maximum |
| `ID_CONNECTION_LOST` | `OnLostConnection`, `IsGameOver` | lobby: slot and entry freed; game: status, and the turn passed on |

*Hard.* The mutex protects only the writes of `g_networkState`; `isDefineTurn`,
`lastPlayerTurn`, the map and the statuses are read and written by both threads
without one. A loss may arrive at any point of the start of a turn. The handlers
do not ask whose turn it is: that only one player acts rests on the path of the
turn through both threads, the network and the client.

*Correct* when: the map and the slots agree; the numbers of a character agree
with its status; one turn is under way at a time and only the player who has it
is heard; every player still in the game gets turns; a game is left by death or
disconnection only and never re-entered; it ends when, and only when, one player
is left, who is the winner; and nothing stops the process.

### Character classes (`Common/*Class.h`)

Three qualities (health, damage, defense) per class, worth points that depend on
the quality, and the menu of the class (`DoTurn`): only the cleric heals.
Correct when every class can be hit and none dies of one blow.

### Game client (`Client/main.cpp`)

`main` connects once; `InputHandler` selects a class in the lobby and sends
`ID_THEGAME_LOBBY_READY`; `PacketHandler` shows what the server sends and, on
`ID_YOUR_TURN`, waits inside the handler for the player's keys. State:
`g_networkState`, `g_serverAddress`, `playerClass`. Hard: `InputHandler` writes
`NS_WaitingPlayers` after it has sent the message that may already have started
the game; the lobby is published before the address it needs; `ChooseTarget`
blocks the packet thread. Correct when a client connects once and is ready once,
when every turn it is given is answered, and when the end of the game reaches it.

### Protocol (`Common/Common.h`)

Network states, player states, message identifiers, `SPlayer`, the die.

### RakNet's reliability layer (`RakNet_RPG/Library/RakNet/Source/ReliabilityLayer.cpp`)

The game sends everything `RELIABLE_ORDERED` on channel 0. The sender numbers
the messages, packs them in datagrams, keeps them in a ring of slots
(`resendBuffer`) and a list (`resendLinkedListHead`) until they are acknowledged,
and remembers for the last datagrams which messages each carried
(`datagramHistory`). The receiver collects the datagrams it has seen in a
`RangeList` to acknowledge them, marks holes (`hasReceivedPacketQueue`), and holds
early messages back in a heap (`orderingHeaps`). Every number has 24 bits and
wraps. Hard: acknowledgements that are late, repeated or for a slot used again;
numbers about to wrap; a history that forgets. Correct when the receiver gets the
messages in order, each once, and none is given up before it has arrived.

### RakNet's connections (`RakNet_RPG/Library/RakNet/Source/RakPeer.cpp`)

A client with a request in its queue repeats `ID_OPEN_CONNECTION_REQUEST_1` until
it is answered or has asked often enough; a second request reserves a slot of the
server; three reliable messages turn the slot into a connection. Slots and
connections time out. Hard: requests and replies are repeated, reordered and
late; the limit counts finished connections only; a bad message bans the IP.
Correct when every attempt has one outcome, sessions stay within the limit, no
client has two slots, and no slot stays reserved.

### Unity scripts (`Unity MultiPlayer`)

A separate exercise: bullets take health on the server, enemies are destroyed,
players respawn where their owner puts them. Not modelled: section 5.

### Not part of the logic

Console output and keys; the RakNet extensions neither executable uses.

## 2. The modules

| module | what it is | maps to |
|---|---|---|
| `GameServer` | both server threads and, as the server sees it, their environment | `Server/main.cpp`, the client's side of the protocol |
| `CharacterClass` | the points of the classes and the die | `Common/*Class.h`, `Common.h` |
| `TurnGame` | abstract: a lobby, a game that loses players one at a time, an end | the promise, no code |
| `RpgSystem` | `GameServer` composed with the client processes | `Client/main.cpp`, the messages of `Server/main.cpp` |
| `SequenceNumbers` | 24-bit numbers and their order on the circle | `RakNetTypes.h`, `IsOlderOrderedPacket`, `LessThan` |
| `RangeList` | the list of ranges that is sent as an acknowledgement | `DS_RangeList.h` |
| `ReliabilityLayer` | a sender, a receiver, and the network between them | `ReliabilityLayer.cpp` |
| `ReliableChannel` | abstract: messages come out as they went in | the promise, no code |
| `RakPeer` | clients that connect to a server | `RakPeer.cpp` |
| `Connections` | abstract: one outcome for each attempt, sessions within a limit | the promise, no code |
| `MCGameServer`, `MCRpgSystem`, `MCReliabilityLayer`, `MCRakPeer` | small numbers with every outcome, for TLC | - |
| `MCDuel` | the real numbers, for TLC | - |
| `GameServerProofs` | types, for all values of the constants | - |
| `GameServerSafety` | what no interleaving can do to a character, likewise | - |
| `GameServerOutcome` | how a game goes and ends, whatever is lost: slots, opponents, winner, the refinement of `TurnGame`; likewise | - |
| `GameServerTurns` | the path of a turn without losses, likewise | - |
| `RpgSystemProofs` | the client processes are the environment `GameServer` assumes, likewise | - |
| `RakPeerProofs` | every safety property of `RakPeer`, likewise | - |
| `RangeListProofs` | the numbers and the ranges, for all numbers and lists | - |
| `ReliabilityLayerProofs` | every property of `ReliabilityLayer`, for all sizes | - |

How they stand on each other: `RpgSystem` EXTENDS `GameServer`, takes its server
steps as they are, and replaces its environment by client processes; that these
are such an environment is the property `ServerAssumptionsHold`. What `GameServer`
and `RpgSystem` take for granted of RakNet is stated by the two abstract modules:
packets in order and once (`ReliableChannel`), one outcome for each attempt and a
limit of sessions (`Connections`); `ReliabilityLayer` and `RakPeer` are shown to
implement these.

### State

`m_players` is the set of the guids with an entry; the fields of an `SPlayer`
are functions of the guid (`m_number`, `m_class`, `m_status`, `m_isDefending`),
and `m_health` is that of `*m_character`, which exists once `m_class` is set.
Numbers and slots start at 1: slot `s` is `playersIDs[s - 1]`. `NoGuid` is the
guid of an empty slot. `mainPc` and `packetPc` say where the threads are;
`lostPlayer` and `winner` are locals that survive from one step to the next.
`failure` is "none" until an assertion fails, a null `m_character` is used or an
index leaves its array; then the process is gone and nothing runs any more. Only
the debug build is modelled: with `NDEBUG` every `Send` disappears with its
`assert`.

The environment has `connected` (whom RakNet holds a connection to), `inbox`
(packets `Receive()` has not returned yet), `launched` and `ready` (processes
that have tried to connect, that have chosen a class), and `yourTurn`: for each
client the target lists of the `ID_YOUR_TURN`s it has not answered. Messages a
client only prints (`ID_PLAYER_TURN`, `ID_PLAYER_READY`, `ID_THEGAME_START`,
`ID_THEGAME_OVER`) are left out, the lookups made while they are built are not.

### Steps

A step is one access to state the other thread can see, or a stretch of code
that no other thread can tell from one access:

- `main`: the test of `g_networkState` (`MainPoll`), the test of `isDefineTurn`
  with the increment and wrap of `lastPlayerTurn` (`MainNextTurn`, `MainNoTurn`), the
  scan for a valid player (`MainPick`), the statistics and `ID_PLAYER_TURN`
  (`MainBroadcast`), the targets and `ID_YOUR_TURN` (`MainYourTurn`),
  `isDefineTurn = false` (`MainClear`). Start-up is `MainInit`, `MainListen`,
  `MainPublish`: clients get in before `NS_WaitingPlayers` is published.
- `PacketHandler`: `OnIncomingConnection` and `OnLobbyReady` touch nothing `main`
  reads before the game starts, and are one step each. `OnLostConnection` is
  `OnLostConnection` up to line 236, `CompareTurn` (237), `TransferTurn` (238).
  `IsGameOver` is a scan and the end of the game (`GameGoesOn`, `GameIsOver`,
  `ScanFails`) and the announcement (`AnnounceWinner`, `NoWinner`).
  `ResolveAttack`, `ResolveDefend`, `ResolveHeal` run up to `IsGameOver` or to
  line 475, which is `StartTurn`.

The scans of the players are single steps: `m_status` only ever moves away from
`PS_Connected`, so that a scan which stops at the first connected player could
have been made at one moment. The read of line 652 and the write of line
654 are merged, with the same states reached: only line 237 could see
`lastPlayerTurn` in between. If the lost player is another than the one found, it may as well
look before the scan; if he is the one found, it sets `isDefineTurn` in the model and not
in the code, which is no difference, since that stays true until line 702. The list of targets in `MainYourTurn` goes through
all slots: a target lost while it is collected may be on it or not, and the
model has the lists of before and after. It leaves out one case, two losses
during one scan of which the list shows only the later; what follows, an attack
on a player already lost, is in the model all the same, since a loss may happen
after the list is sent.

`ShowHeader` looks players up too (lines 77, 96, 117). It adds no failure: in the
lobby it skips empty slots, and a guid in a slot has an entry; in a started or
finished game all slots are taken.

`NEW_INCOMING_CONNECTION` cannot come twice for a process: the client connects
once and never again (`Client/main.cpp:474-497`). `ID_REMOTE_NEW_INCOMING_CONNECTION`
and `ID_DISCONNECTION_NOTIFICATION` never reach the server: nobody calls the
plugin or the shutdown that send them.

### `RpgSystem`

*State.* Each client has `c_networkState`, `c_serverAddress` (is it stored yet),
`c_playerClass`, and the places of its two handlers: `c_inputPc` (`poll`, `select`,
`send`, `wait`: lines 219, 223, 237, 240) and `c_packetPc` (`receive`; `accepted`
between lines 148 and 150; `target` inside `ChooseTarget`). `c_attempt` is RakNet's
attempt to connect, `c_failed` are the clients whose assertion failed, `c_inbox`
the messages `Receive()` has not returned, with only those the client acts upon.

*Steps.* The server's are those of `GameServer`, each joined with what it sends
(`SendGameStart`, `SendYourTurn`, `SendGameOver`; the others send nothing a client
acts upon). A client's main is one step up to `Connect`, since before it nothing
can arrive. The packet in hand stays at the head of `c_inbox` while its handler
runs, because `ChooseTarget` reads the targets from it. A client that is sent a
`YOUR_TURN` while it waits for a target does not see it until it is done: the
packet thread is the one that waits.

`InputHandler` passes `userInput`, never initialised, to `strcmp` (line 221). Debug
builds fill it, and not with "quit"; the comparison is left out.

### `ReliabilityLayer`

*State.* As in section 1, under the names of the code; `resendBuffer` is indexed by
slot, `resendList` is the list in the order of resending, `receiver` is the record
of what the receiving side keeps. `datagrams` and `acks` are what has been sent:
since nothing is taken out, anything may be lost, repeated, late or overtaken.
`start` is the number the modelled part of the connection's life begins with: 0,
or one near the wrap, with the state a longer life with everything acknowledged
leaves behind.

*Steps.* One action per call of `Send`, `Update` and
`HandleSocketReceiveFromConnectedPlayer`: all of them run in the network thread of
their peer, except `Send`, which the thread makes from the command queue. `Update`
resends a due front of the resend list and sends new messages, in one call, cut
into datagrams; the congestion window appears in it as the fact that it can hold
back a new datagram only while something is unacknowledged. There is no clock: any
packet may be due, and `AckTimeout` may strike whenever something is in the resend
buffer. The handler of NAKs only makes packets due, and adds nothing to that.

### `RakPeer`

*State.* The server's `remoteSystemList` is a function on its active slots;
`clientMode` is `connectMode` of the one slot a client uses; `told` is the last of
the packets that reach the client's program; `datagrams` is everything sent, as
above. A slot's `received` keeps what its reliability layer passes on once only.
`dropped` is a history variable: the clients whose slot was given up.

*Steps.* One per branch of `ProcessOfflineNetworkPacket`, per message handled in
`RunUpdateCycle`, and per thing that loop finds due. Time-outs may strike at any
moment their subject is pending.

## 3. What is checked

`MAX_CONNECTIONS` is 3, the program's own number (2 in `Duel` and `System`).

| run | what it asks | states |
|---|---|---|
| `Lossless` | without losses, four clients for three slots, all three classes: types, `HealthMatchesStatus`, `OneTurnAtATime`, `TurnIsDroppedAtClearOnly`, `OnlyThePlayerOnTurnActs`, `NothingFails` | 390 000 |
| `Turns` | without losses and with fairness: `GameStarts`, `EveryPlayerGetsTurns` | 70 000 |
| `Losses` | connections lost at any moment: `SlotsMatchPlayers`, `GameHasOpponents`, `OneWinner`, `GameSurvivesLosses`, `NobodyComesBack`, `ImplementsTurnGame` | 3 200 000 |
| `Duel` | the real points and the real die: `NobodyIsInvulnerable`, `LivesThroughFirstBlow` | 850 000 |
| `System` | server and clients composed: `SystemTypeOK`, `ClientFailsOnlyInLobby`, `StuckOnlyAtTheEnd`, `ServerAssumptionsHold`, `TurnsAreAnswered`, `EndReachesClients` | 230 000 |
| `Reliable` | messages over a bad network: `LayerTypeOK`, `NoMessageIsLost`, `ListIsBuffer`, `HistoryIsOfDatagrams`, `HolesStayInWindow`, `HeapIsAhead`, `ImplementsChannel` | 1 460 000 |
| `Connecting` | connections over a bad network: `PeerTypeOK`, `OneSlotPerClient`, `NeverAlreadyConnected`, `BansFollowDrops`, `ImplementsConnections`, `EveryAttemptIsAnswered`, `HalfOpenSlotsAreFreed` | 115 000 |
| `LobbyLoss`, `LateLoss`, `DeadTurn`, `LostTurn`, `TurnAfterEnd` | what the code says of itself and does not do, see below | |

*What the properties say.* `OneTurnAtATime` counts every place a turn can be in
(wanted, being started, with a player, answered, being resolved) and never finds
two. With `OnlyThePlayerOnTurnActs` this is why the
missing check of the sender in `ResolveTurn` does no harm without losses.
`TurnIsDroppedAtClearOnly` says how the count may go from one to none: a player
answers, and line 475 asks for the next turn, before `main` is at line 702, which then
clears the request. That takes no loss, and the game stands still from then on.
`NobodyComesBack` says that whoever is out (dead, lost or the winner) stays what he
is; that no blow reaches him any more, so that his health never sinks, although a dead
player may get a turn (`DeadTurn`) and heal; and that nothing takes him from `Defend`.
`GameSurvivesLosses` says that in a started game no loss can make a lookup
fail. `ImplementsTurnGame` is the refinement of `TurnGame`: a game starts full,
loses its players one at a time and is over when one is left and not before;
its mapping takes a client for alive while his status is `PS_Connected` or
`PS_Winner`.

`ServerAssumptionsHold` is `Spec` of `GameServer`, said of the composed system: its
clients connect once, are ready once although three threads share the state that
says so, and answer each turn at most once and from its own list. So what is shown
of the server with its assumed environment holds with the real clients.
`StuckOnlyAtTheEnd` bounds a real defect: even without a loss, a player may get a turn
after the end of the game (see `TurnAfterEnd`), with an empty list of targets; if he
presses the key of Attack his packet thread never returns from `ChooseTarget`.
That is possible only when the game is over. The race of `Client/main.cpp:240`, where
`NS_GameStarted` is overwritten by `NS_WaitingPlayers`, is in the model and keeps no
message from its client: `TurnsAreAnswered` holds with it, and `EndReachesClients` asks
that `NS_GameOver` is entered, hence that `ID_THEGAME_OVER` was taken from the queue. The
state need not last: line 240 may overwrite that one too.

`NoMessageIsLost` is the invariant behind every delivery promise of the layer: what
the receiver has not returned is still going to be sent or is held behind a hole.
`ImplementsChannel` is the safety half of the promise. A range that ends with
0xFFFFFF is refused by the receiver of the acknowledgement, together with all the
ranges behind it (`ReliabilityLayer.cpp:738-745`): near the wrap messages are sent
again that had arrived, and none is lost.

`ImplementsConnections` has the part a test would hardly reach: the limit counts
finished connections only (`RakPeer.cpp:5349`), so that more clients may be half open
than there are connections, and still no more than the limit are ever connected,
because each needs a slot. The server may hold a session with a client that has
given up or lost the connection meanwhile ("ghost" sessions; `Opens` allows `lost`); it
never holds one with a client that was refused.

*Bounds.* The numbers of a character are scaled (`MCGameServer`): health 1 or 2,
damage 1 or 3, defense 1 or 2, one point for defending, a die with three faces
(two in `Losses`, where a third would show nothing new). That has a miss and a
hit, a defense that only defending makes sufficient, a blow beyond the health
left, and a heal that is cut off; a game is still short enough to be explored to
its end. `Duel` repeats the combat with the real
numbers for two players. Where the class does not matter (`Turns`, `Losses`)
everybody is a cleric, the class with every action; the game of `Losses` ends
through deaths, losses and both. `LossStates` says in which server states
connections may be lost, and is empty where losses are not the subject.
`PromptMain` is TRUE where a run ignores a player who answers before `main` has
executed the assignment that follows the `Send` (lines 627-629 and 700-702). It is
FALSE in the runs about safety, `Lossless`, `Losses` and `System`, so that what they show
also holds for a `main` that is preempted there. It is TRUE in `Turns`, whose two
properties need it: a `LOBBY_READY` handled before line 629, and a turn dropped
by line 702, are never made up for. `Duel`, which asks about the numbers, and the
findings have it too: none of them needs that preemption.
`Losses` has no loss before `NS_WaitingPlayers`, when nothing but start-up runs.
Clients are symmetric in the runs without liveness.

`System`: two clients, one of whom may lose the connection in the started game
(losses elsewhere are in `Losses` and in the findings: most of them stop the server),
all clerics, a die with one face that makes every blow hit, defended or not. That
a third client is refused is only checked at the server (`Lossless`).
`Reliable`: three messages, a resend buffer of two slots, so that a slot is used
twice and the buffer is full in between; a history of two datagrams
(`DATAGRAM_MESSAGE_ID_ARRAY_LENGTH` + 1 with the length 1) for four, so that the
oldest are forgotten; up to two messages per datagram; two different
acknowledgements of up to two ranges; numbers from 0 and from 2^24 - 2, so that
all of them wrap on the way. `MaxMessages`, `MaxDatagrams`, `MaxAcks` and `MaxRanges`
end a behaviour, hence no check of deadlock and no liveness.
`Connecting`: two clients, one or two slots, a request repeated once. Nothing in
the model depends on the number of repetitions, which is 12 in the code (there the
number also has to be at least that of the MTU sizes, by which it is divided).

`CHECK_DEADLOCK FALSE` everywhere but in `Connecting`: the program stops doing anything when a game
is over (it has no next game), and when it has failed.

*Fairness* (`FairSpec`): weak fairness of `main` and of the packet thread, which
are loops the operating system schedules and which never block; and of each
client's own steps, as players who are asked for a key eventually press one.
Losses are never forced. `SystemSpec` has the same for the two threads of the server,
and weak fairness for each client as a whole: its threads are loops, its player
presses a key when asked, and RakNet settles its attempt to connect (which is what
`EveryAttemptIsAnswered` says of `RakPeer`). `PeerFairness` assumes only that network
threads run and clocks advance: a request is repeated or given up
(`UpdateRequests`), a pending connection and a half-open slot time out. No datagram
is ever assumed to arrive. `LayerSpec` has no fairness.

### Findings

- `LobbyLoss`: a client that leaves the lobby stops the server. `OnLostConnection`
  empties its slot (line 229) and then runs `IsGameOver`, whose scan asserts that
  every slot has a player (line 44).
- `LateLoss`: after the end of a game nobody is connected in the sense of the
  scan, and the first loss makes `IsGameOver` read `playersIDs[winner - 1]` with
  `winner` 0 (line 205).
- `DeadTurn`: "Get a valid player" (line 648) does not wrap: with the last player
  dead, after the turn of the one before him, the dead player gets the turn.
- `LostTurn`: "Transfer the turn to another player" (line 238) is lost when the
  connection is found lost while `main` is between lines 654 and 702 of the very
  turn: the game then stands still.
- `TurnAfterEnd`: `main` tests the state and then `isDefineTurn` (640, 642); a game
  that ends in between gets one turn more, after `ID_THEGAME_OVER`.

After a failed attempt to connect the client is told why, prints it and does no more:
`g_networkState` stays `NS_Started` and nothing calls `Connect` again (`Client/main.cpp:382`, `493`).
The code promises nothing else, so this is no finding.

`DeadTurn` does not contradict `EveryPlayerGetsTurns`: a dead player answers too,
and the turn moves on. When the dead slot belongs to a player who was lost, his
turn is never answered and the game stops, which is why that property is asked
of games without losses.

## 4. What is proved

`GameServerProofs` and `GameServerSafety` prove, for every number of slots from 2
up, every finite set of clients, every set of classes with positive health and natural damage and
defense, every die, with losses in any state and with either value of
`PromptMain`:

- `TypeCorrect`: `Spec => []TypeOK`. `TypeOK` is not inductive by itself: the targets
  of `ID_YOUR_TURN` are slots only because the number of a player in the map is one
  (`NumbersOK`). `TypeOK` is split into the players, the threads and the clients
  (`TypeParts`), since a step leaves most of these alone.
- `HealthSound`: `Spec => []HealthMatchesStatus`.
- `GameIsLeftForGood`: `Spec => NobodyComesBack`, an action property. For the blows
  this takes that an attack strikes only who is `PS_Connected` (line 365)
  and that `IsGameOver` touches nobody who is out.

The last two share the inductive invariant `SafeInv` of `GameServerSafety`. What it
adds to the types, and why each part is needed:

| part | why |
|---|---|
| `NumberIsSlot` | `IsGameOver` finds the winner by number and reads him by slot: the player it marks is the one it counted |
| `NewcomersAreNew` | `OnIncomingConnection` never meets a guid it knows: the model writes the entry and `insert` would keep an old one, and the part shows that the two agree |
| `ReadyOnce` | `OnLobbyReady` sets full health: it must find a player without a class, or it would heal or revive one |
| `WinnerStands` | between the scan and line 206 the winner is still connected, and the state is `NS_GameOver` |
| `LobbyIsPeaceful` | before the game all are connected, so that `IsGameOver` either meets an empty slot or counts `MAX_CONNECTIONS` players |
| `PublishOnce` | `main` cannot overwrite `NS_GameOver` by `NS_WaitingPlayers`; needs the previous part |
| `WinnerAtTheEnd` | a loss in the game never meets a winner |

These are facts about all steps, so they were first checked by TLC as
invariants, with two slots and a third client who joins after a loss as well as
with three slots. Most steps change nothing the invariant is about; they are
treated together (`QuietStep`), the others have a lemma each.

With the points of the three classes and the die of 20 (`RealNumbers`, the values of
`CharacterClass` that the run `Duel` uses) it proves, of games of any size and with losses,
what other numbers would break: `EveryoneCanBeHit` (`NobodyIsInvulnerable`: a defending
Rogue defends with 15 + 5, which a 20 just reaches, since line 379 compares by `>=`) and
`FirstBlowIsSurvived` (`LivesThroughFirstBlow`: 15 points of damage at most against 40
of health at least). `NumbersFit` is where the numbers are looked at.

### How a game goes

What follows needs one assumption more, `FewClients`: there are no more clients than
slots, or no connection is lost. Without it a client may be put over a player in slot 1
(the fourth client of section 5), and the agreement of slots and players is gone. Under
it, losses may come in any state and at any moment. `GameServerOutcome` proves, each as
`FewClients /\ Spec => ...`: `SlotsAgree` (`[]SlotsMatchPlayers`), `OpponentsRemain`
(`[]GameHasOpponents`), `WinnerIsOne` (`[]OneWinner`), `GameIsRobust`
(`[]GameSurvivesLosses`) and `GameIsPromised` (`ImplementsTurnGame`, the refinement).

Their inductive invariant `GameInv` is `SafeInv` and:

| part | why |
|---|---|
| `SlotsMatchPlayers` | slots and players correspond one to one: what the scans count by slot is a number of players |
| `GuestsFit` | whoever has sent a packet has a slot to go to: `AvailableSlot` never takes one that is in use |
| `FullGame` | a game starts with `MAX_CONNECTIONS` players, all with a class, and a loss in the game removes no entry: every later lookup succeeds |
| `Opponents` | a handler takes at most one player out of two or more, and only then is there one survivor, for `IsGameOver` to find |
| `Ending` | from the scan to line 206 the last survivor is the winner to be; after it there is one winner and no survivor |
| `TurnInRange` | `lastPlayerTurn` is the number of a slot while `main` reads `playersIDs` with it |
| `GameSurvivesLosses` | nothing has failed, so that the steps above are taken |

Cardinalities are compared through injections from slots to players (`SurvivorsSeated`,
`AllSeated`, `SlotIsFree`); the step of the refinement is shown for each handler
together with its part of the invariant (`GameStep`).

### The path of a turn

`GameServerTurns` is about games without losses (`LossStates = {}`), of any number of
players:

- `ServerStands`: `[]NothingFails`. In the lobby a packet may be of a client without
  entry yet; `Announced` says that its `NEW_INCOMING_CONNECTION` is then queued before it.
- `OneTurn` (`[]OneTurnAtATime`) and `OnlyHeIsHeard` (`[]OnlyThePlayerOnTurnActs`), with
  either value of `PromptMain`: also where a player answers before `main` has executed
  line 702.
- `WhereTurnsAreDropped` (`TurnIsDroppedAtClearOnly`).

The invariant `TurnInv` says where the turn is (`TurnPath`): wanted, started, asked,
answered or resolved (`OnPath`), or nowhere any more (`Dropped`), and for each place
everything that belongs to it: an empty queue, nobody else asked, `isDefineTurn` as it
must be for `main`. The properties only count and compare; it is the path that is
inductive. `TurnStep` says of each step that the turn stays on its path, but for the step
of line 475 while `main` is at line 702, and that no step leaves `Dropped`.

### The clients

`RpgSystemProofs` proves that the client processes of `Client/main.cpp`, three threads
each, are the environment `GameServer` assumes:

- `ClientsAreEnvironment`: `FewClients /\ SystemSpec => ServerAssumptionsHold`;
- `ClientsFailInLobby` (`[]ClientFailsOnlyInLobby`), `SystemTypeCorrect`
  (`[]SystemTypeOK`);
- `CaughtAtTheEnd` (`[]StuckOnlyAtTheEnd`): a turn without targets is given to the last
  survivor only (`EmptyTurnIsLast`), and he stays the last (`AloneStays`, from the
  refinement); until `IsGameOver` has seen it, the packet thread is not at `receive`;
- `SystemPlaysGame`: so the whole system implements `TurnGame`. The theorems about the
  server that start from `Spec` carry over in the same way.

The invariant is `GameInv` and, for each client, `ClientInv`:

| part | why |
|---|---|
| `AttemptFirst` | a client connects once: nothing is sent to it before, and `NS_Init` is left for good |
| `LobbyOnce` | `CONNECTION_REQUEST_ACCEPTED` is the first message of all, so that no later state is overwritten by `NS_Lobby` and `InputHandler` sees the lobby once |
| `ReadyBehind` | a client that has sent `LOBBY_READY` is past the lobby, whichever of `NS_WaitingPlayers` and `NS_GameStarted` was stored last |
| `SameClass` | the class the server has stored, or is about to, is the one the client keeps: only a healer offers to heal |
| `TurnsCarried` | the `YOUR_TURN`s in a client's queue are, in order, the turns the server waits for (`Carries`): the one in hand is the oldest |

`FewClients` is needed here too: the turn of a client without a class is what the fourth
client of section 5 may get.

### The transport

`RakPeerProofs` proves, for every set of clients, every set of sizes of the server
and every number of repetitions, all the safety properties of the run `Connecting`:

- `PeersAreTyped` (`PeerTypeOK`), `ClientsHoldOneSlot` (`OneSlotPerClient`),
  `NobodyIsConnectedAlready` (`NeverAlreadyConnected`), `OnlyDroppedAreBanned`
  (`BansFollowDrops`);
- `ConnectionsArePromised`: `PeerSpec => ImplementsConnections`, the refinement.

They share the inductive invariant `PeerInv`:

| part | why |
|---|---|
| `OneStageAtATime` | a request is queued, then granted, then answered: a client whose request is queued has been told nothing, so each outcome is the only one |
| `EachSendsInTurn` | what has been sent tells what was decided before: a connection is requested only by a client off its queue for good, `ALREADY_CONNECTED` is provoked only by one that has requested it, and only an accepted client sends what follows |
| `SlotsFollowClients` | a slot that is past `UNVERIFIED_SENDER` belongs to a client that has requested the connection, one that is connected to a client that was accepted |
| `AcceptedHasSlot` | an accepted client has its slot still, or the server has given it up: without this a ban could hit a client in the middle of its handshake |

Since `datagrams` only grows, most of it is kept by all steps (`Monotone`).

`RangeListProofs` proves of all 2^24 numbers what TLC can only sample: the
ordering indices in the half of the circle behind the one waited for are older
(`OlderIsBehind`), those ahead are not (`NewerIsNotOlder`), and `LessThan` is such an
order too (`LessThanIsBehind`). `Modulus` is expanded in one lemma only; the rest uses
that half of the circle is a whole number.

It also proves `InsertAddsTheNumber`: for every list of ranges in the order of
their first numbers, whether or not they overlap, `Insert` adds the number given to
those the list stands for and no other, and keeps the order. The argument goes along
the branches of `Insert`, each of which widens one range by a number (`Widened`) or
puts in a new one, joining two neighbours only when nothing lies between them. The
place found exists and is unique because the list is ordered (`PlaceIs`). A range for
0 may be put in twice; the theorem shows that this does no harm. It also shows that
the branch "increase maxIndex and join right" is never needed.

`ReliabilityLayerProofs` proves every property of the run `Reliable`, for every
length of the resend buffer and of the datagram history, every number of messages in a
datagram, every number a connection may begin with, and any number of losses,
repetitions and overtakings of datagrams and acknowledgements: `LayerTypeCorrect`
(`LayerTypeOK`), `ListIsAlwaysBuffer` (`ListIsBuffer`), `NoMessageIsEverLost`
(`NoMessageIsLost`), `HistoryStaysOfDatagrams` (`HistoryIsOfDatagrams`),
`HolesNeverLeaveWindow` (`HolesStayInWindow`), `HeapStaysAhead` (`HeapIsAhead`), and
`LayerIsChannel` (`ImplementsChannel`): what `RpgSystem` takes for granted of RakNet, every
message once and in order, is what the layer delivers.

Each theorem has the hypothesis `NothingOutlivesTheCircle`: at most 2^23 messages
and 2^24 datagrams are sent in the modelled part of a connection's life. This is a
real limit. An arbitrarily old datagram may arrive at any time in this model, as it may
on the network; once half of the circle has been used since it was sent, its
messages look new, and the code has nothing to tell them by. Any bound of that size on
what the game sends between two moments at which everything is acknowledged
satisfies it (`Starts` has the later beginnings).

The invariant is `LayerInv`. Its centre is that messages and datagrams are counted
without wrapping (message m of those passed to `Send`, datagram d of those sent), and that
every number of 24 bits in the state is the place on the circle of one of them
(`PacketOf`). What the code compares on the circle is then decided among the m
(`FromStart`, `OlderIsBehind`).

| part | why |
|---|---|
| `WaitingInOrder` | `reliableMessageNumber` is given late, `orderingIndex` early: both go the way of `Send`, so that a packet has the two numbers of one message |
| `AreNumbered` | all packets, in the list and in datagrams long sent, are of messages that got their numbers |
| `BufferIs` | `ListIsBuffer`: a slot is free when a packet is put in (line 2078) |
| `InWindow` | no unacknowledged message is a whole buffer behind: two in the list never share a slot, and the receiver's holes fit its queue; follows from `Room`, which looks at one slot per message only |
| `IsKept` | what left came or is in the list |
| `ReceiverOK` | `receivedPacketsBaseIndex` and `orderedReadIndex` wait for the same message, the one after those returned; the queue has a hole exactly for what is neither returned nor in the heap (`QueueOK`); the heap is in order although its weights count from an index that may be long gone (`HeapOK`) |
| `HistoryIs` | node i is of the datagram that many behind the last: popping moves all of them alike |
| `AreOfReceived` | every number in a list of ranges, waiting or under way, is that of a datagram whose messages the receiver has: this is what makes it safe to take from the list what an acknowledgement names, however late. It needs `InsertAddsTheNumber` |

`ReceiveAcksHolds` puts the last two together: the node found for an acknowledged number is
that of the datagram which has come (`NodeOfDatagram`), because fewer datagrams are
sent than there are numbers. `ReceiveDatagramHolds` goes through the packets of a
datagram one by one (`ReceivePacketsIs`, an induction over their number in the form of
`LeastNumber`: what is not true of all numbers has a first number of which it is not), and `UpdateHolds` shows that resent and new packets
together keep each part. For the refinement (`ChannelSteps`) the output
is the numbers 1 to its length, hence a prefix of what was sent, at every step.

The assumptions are those of `GameServer`, `RakPeer` and `ReliabilityLayer`, named and
evaluated by TLC in every run, and the hypotheses `FewClients`,
`RealNumbers` and `NothingOutlivesTheCircle` where a theorem states them; nothing else is assumed. Of the
resend buffer it is assumed that its length divides 2^24 and is at most a million
(it is 512, `RakNetDefines.h:104`): a larger one could get so far ahead of a hole that the
receiver refuses the packets.

*Only model-checked:* liveness (`GameStarts`, `EveryPlayerGetsTurns`, `TurnsAreAnswered`,
`EndReachesClients`, `EveryAttemptIsAnswered`, `HalfOpenSlotsAreFreed`), which is beyond
the prover; and the five findings, which are counterexamples. Every invariant and every
action property of a passing run has its theorem.

## 5. Not modelled, and why

- *What a client prints*, and what it acts upon in no other way.
- *Of the reliability layer*: unreliable, sequenced and split messages, priorities,
  receipts, timers and their back-off, NAKs (see section 2), statistics,
  `OnGotPacket` refusing a jump of more than 50000 datagrams, encryption. The game
  sends small messages of one kind on one channel.
- *Of the connections*: security and passwords, two peers that connect to each other
  at once, closing on request, a client without a free slot of its own (it has 8 and
  uses one), a limit on the frequency of connections (off by default), and a send
  refused as too long (`RakPeer.cpp:5791`), which may set `requestsMade` back.
- *The Unity scripts.* They are a few lines each between calls of Unity's engine: when
  a `SyncVar`, a `Command` or an `Rpc` arrives and when `Destroy` takes effect decides
  every question one could ask of them, and is not in the repository.
- *The rest of RakNet.* Of the half million lines of the repository nearly all are
  vendored extensions and samples (SQLite, jpeg, DXT, lobby, voice, replication, NAT) that
  neither executable links or calls; a model of them would say nothing of this program.
- *A fourth client during a game.* When a player was lost in a started game RakNet
  has room again, and a new client is put into slot 1 (no slot is free), over the
  player who has it; the map then has four entries and `lastPlayerTurn` can reach
  4. The model has these steps (`AvailableSlot`, `NextNumber`, "index out of
  range"), but the runs with losses have as many clients as slots: after such a
  join the agreements between map, slots and numbers are gone, and there is no
  promise left to check.
- *`lastPlayerAction`*, a `std::string` both threads use without a lock: data the
  model leaves out.
- *An optimised build.* The globals both threads use are neither atomic nor
  volatile; an optimiser may keep one in a register, in the empty loop of line
  637 for instance. The model is of the debug build: every access goes to
  memory, the words are aligned, and memory is taken for sequentially consistent.
- *`ToUint32`* collisions: every client has a key of its own.
- *The die* is seeded by the second; the model lets it show any face.

## 6. Plan

1. Done: the server (`GameServer`, `CharacterClass`, `TurnGame`), the whole game
   (`RpgSystem`), the transport (`ReliabilityLayer`, `RakPeer`), the runs, the findings and
   the theorems of section 4.
2. Done: the theorems about `ReliabilityLayer`.
3. Model: split messages in `ReliabilityLayer`; two peers that connect to each other
   in `RakPeer`.
