----------------------------- MODULE RpgSystemProofs -----------------------------
(***************************************************************************)
(* The clients of RpgSystem are the environment GameServer assumes, for    *)
(* any number of them: so what is proved of the server with its assumed    *)
(* environment is true of the server with the real clients.                *)
(***************************************************************************)
EXTENDS RpgSystem, GameServerOutcome

USE ConnectionsAssumption, GuidsAssumption, FragileAssumption

-----------------------------------------------------------------------------
(* The inductive invariant, client by client.                              *)

\* What RakNet does first: nothing passes between a client and the server
\* before the attempt to connect is settled.
AttemptFirst(g) ==
    /\ c_networkState[g] = "NS_Init" <=> c_attempt[g] = "none"
    /\ c_attempt[g] = "pending" => c_networkState[g] = "NS_Started"
    /\ c_attempt[g] # "settled" => /\ g \notin launched \cup connected
                                   /\ c_inbox[g] = << >>

\* A queue of messages whose CONNECTION_REQUEST_ACCEPTED, if it is still there,
\* comes first and finds the client in NS_Started.
Welcomes(box, state) ==
    \A i \in DOMAIN box : box[i].id = "CONNECTION_REQUEST_ACCEPTED"
                               => i = 1 /\ state = "NS_Started"

\* The lobby is entered once: the packet that leads there is the first of all.
LobbyOnce(g) ==
    /\ Welcomes(c_inbox[g], c_networkState[g])
    /\ c_networkState[g] \in {"NS_Init", "NS_Started"} => c_inputPc[g] = "poll"

\* LOBBY_READY is sent on the only way through InputHandler.
ReadyBehind(g) ==
    /\ g \in ready => \/ c_inputPc[g] = "wait"
                      \/ /\ c_inputPc[g] = "poll"
                         /\ c_networkState[g] \notin {"NS_Init", "NS_Started", "NS_Lobby"}
    /\ g \in c_failed => c_inputPc[g] = "send"

\* The LOBBY_READY of a client, while it is queued, has the class it keeps.
QueuedClass(g) ==
    \A i \in DOMAIN inbox : inbox[i].id = "LOBBY_READY" /\ inbox[i].guid = g
                                 => inbox[i].class = c_playerClass[g]

\* The server stores the class the client keeps.
SameClass(g) ==
    /\ c_inputPc[g] = "send" => c_playerClass[g] \in Classes
    /\ m_class[g] # NoClass => m_class[g] = c_playerClass[g]
    /\ QueuedClass(g)

\* The turns on the way to a client, in the order the server has given them.
Carries(box, turns) ==
    \E f \in [1 .. Len(turns) -> DOMAIN box] :
        /\ \A k, m \in 1 .. Len(turns) : k < m => f[k] < f[m]
        /\ \A k \in 1 .. Len(turns) : /\ box[f[k]].id = "YOUR_TURN"
                                      /\ box[f[k]].targets = turns[k]
        /\ \A i \in DOMAIN box : box[i].id = "YOUR_TURN"
                                     => \E k \in 1 .. Len(turns) : f[k] = i

TurnsCarried(g) ==
    /\ Running /\ g \in connected => Carries(c_inbox[g], yourTurn[g])
    /\ yourTurn[g] # << >> => m_class[g] # NoClass

ClientInv(g) == AttemptFirst(g) /\ LobbyOnce(g) /\ ReadyBehind(g)
                /\ SameClass(g) /\ TurnsCarried(g)

SystemInv == GameInv /\ SystemTypeOK /\ \A g \in Guids : ClientInv(g)

-----------------------------------------------------------------------------
(* The turns a client's queue carries.                                     *)

LEMMA NothingCarried == Carries(<< >>, << >>)
<1>. DEFINE f == [k \in 1 .. 0 |-> k]
<1>1. f \in [1 .. Len(<< >>) -> DOMAIN << >>]
    BY EmptySeq
<1>2. 1 .. Len(<< >>) = {} /\ DOMAIN << >> = {}
    BY EmptySeq
<1>. HIDE DEF f
<1>. QED
    BY <1>1, <1>2, Zenon DEF Carries

\* A message that is no turn joins the queue.
LEMMA AppendCarried ==
    ASSUME NEW box \in Seq(Message), NEW turns, Carries(box, turns),
           NEW message \in Message, message.id # "YOUR_TURN"
    PROVE  Carries(Append(box, message), turns)
<1>1. /\ \A i \in DOMAIN box : /\ i \in DOMAIN Append(box, message)
                               /\ Append(box, message)[i] = box[i]
      /\ \A i \in DOMAIN Append(box, message) :
             \/ i \in DOMAIN box /\ Append(box, message)[i] = box[i]
             \/ Append(box, message)[i] = message
    BY AppendProperties
<1>2. PICK f \in [1 .. Len(turns) -> DOMAIN box] :
          /\ \A k, m \in 1 .. Len(turns) : k < m => f[k] < f[m]
          /\ \A k \in 1 .. Len(turns) : /\ box[f[k]].id = "YOUR_TURN"
                                        /\ box[f[k]].targets = turns[k]
          /\ \A i \in DOMAIN box : box[i].id = "YOUR_TURN"
                                       => \E k \in 1 .. Len(turns) : f[k] = i
    BY DEF Carries
<1>. DEFINE longer == Append(box, message)
<1>3. f \in [1 .. Len(turns) -> DOMAIN longer]
    BY <1>1
<1>4. \A k \in 1 .. Len(turns) : /\ longer[f[k]].id = "YOUR_TURN"
                                /\ longer[f[k]].targets = turns[k]
    BY <1>1, <1>2
<1>5. \A i \in DOMAIN longer : longer[i].id = "YOUR_TURN"
                                   => \E k \in 1 .. Len(turns) : f[k] = i
    BY <1>1, <1>2
<1>. HIDE DEF longer
<1>6. Carries(longer, turns)
    BY <1>2, <1>3, <1>4, <1>5, Zenon DEF Carries
<1>. QED
    BY <1>6 DEF longer

\* A turn joins the queue.
LEMMA TurnCarried ==
    ASSUME NEW box \in Seq(Message), NEW turns \in Seq(SUBSET Slots),
           Carries(box, turns), NEW targets \in SUBSET Slots
    PROVE  Carries(Append(box, [id |-> "YOUR_TURN", targets |-> targets]),
                   Append(turns, targets))
<1>. DEFINE message == [id |-> "YOUR_TURN", targets |-> targets]
            longer == Append(box, message)
            more == Append(turns, targets)
<1>1. PICK f \in [1 .. Len(turns) -> DOMAIN box] :
          /\ \A k, m \in 1 .. Len(turns) : k < m => f[k] < f[m]
          /\ \A k \in 1 .. Len(turns) : /\ box[f[k]].id = "YOUR_TURN"
                                        /\ box[f[k]].targets = turns[k]
          /\ \A i \in DOMAIN box : box[i].id = "YOUR_TURN"
                                       => \E k \in 1 .. Len(turns) : f[k] = i
    BY DEF Carries
<1>2. message \in Message /\ message.id = "YOUR_TURN" /\ message.targets = targets
    BY DEF Message
<1>. HIDE DEF message
<1>3. /\ Len(box) \in Nat /\ \A i \in DOMAIN box : i \in 1 .. Len(box)
      /\ Len(turns) \in Nat
    BY LenProperties
<1>4. /\ DOMAIN longer = 1 .. Len(box) + 1
      /\ \A i \in DOMAIN box : i \in DOMAIN longer /\ longer[i] = box[i]
      /\ longer[Len(box) + 1] = message
    BY <1>2, <1>3, AppendProperties, LenProperties
<1>5. /\ Len(more) = Len(turns) + 1
      /\ \A k \in 1 .. Len(turns) : more[k] = turns[k]
      /\ more[Len(turns) + 1] = targets
    BY AppendProperties
<1>. HIDE DEF longer, more
<1>. DEFINE h == [k \in 1 .. Len(more) |-> IF k = Len(turns) + 1 THEN Len(box) + 1 ELSE f[k]]
<1>6. \A k \in 1 .. Len(more) : k = Len(turns) + 1 \/ k \in 1 .. Len(turns)
    BY <1>3, <1>5
<1>7. h \in [1 .. Len(more) -> DOMAIN longer]
    BY <1>3, <1>4, <1>5, <1>6
<1>8. \A k, m \in 1 .. Len(more) : k < m => h[k] < h[m]
  <2>. SUFFICES ASSUME NEW k \in 1 .. Len(more), NEW m \in 1 .. Len(more), k < m
                PROVE  h[k] < h[m]
      OBVIOUS
  <2>1. k \in 1 .. Len(turns) /\ k # Len(turns) + 1 /\ h[k] = f[k] /\ f[k] \in 1 .. Len(box)
      BY <1>3, <1>5, <1>6
  <2>2. CASE m = Len(turns) + 1
      BY <1>3, <2>1, <2>2
  <2>3. CASE m # Len(turns) + 1
      BY <1>1, <1>6, <2>1, <2>3
  <2>. QED
      BY <2>2, <2>3
<1>9. ASSUME NEW k \in 1 .. Len(more)
      PROVE  longer[h[k]].id = "YOUR_TURN" /\ longer[h[k]].targets = more[k]
  <2>1. CASE k = Len(turns) + 1
      BY <1>2, <1>4, <1>5, <2>1
  <2>2. CASE k # Len(turns) + 1
    <3>1. k \in 1 .. Len(turns) /\ h[k] = f[k]
        BY <1>6, <2>2
    <3>. QED
        BY <1>1, <1>4, <1>5, <3>1
  <2>. QED
      BY <2>1, <2>2
<1>10. ASSUME NEW i \in DOMAIN longer, longer[i].id = "YOUR_TURN"
       PROVE  \E k \in 1 .. Len(more) : h[k] = i
  <2>1. CASE i = Len(box) + 1
    <3>1. Len(turns) + 1 \in 1 .. Len(more) /\ h[Len(turns) + 1] = i
        BY <1>3, <1>5, <2>1
    <3>. QED
        BY <3>1
  <2>2. CASE i # Len(box) + 1
    <3>1. i \in DOMAIN box /\ box[i].id = "YOUR_TURN"
        BY <1>3, <1>4, <1>10, <2>2, LenProperties
    <3>2. PICK k \in 1 .. Len(turns) : f[k] = i
        BY <1>1, <3>1
    <3>3. k \in 1 .. Len(more) /\ h[k] = f[k]
        BY <1>3, <1>5
    <3>. QED
        BY <3>2, <3>3
  <2>. QED
      BY <2>1, <2>2
<1>. HIDE DEF h
<1>11. Carries(longer, more)
    BY <1>7, <1>8, <1>9, <1>10 DEF Carries
<1>. QED
    BY <1>11 DEF longer, more, message

\* The front of the queue is handled: if it is a turn, it is the oldest.
LEMMA TailCarried ==
    ASSUME NEW box \in Seq(Message), NEW turns \in Seq(SUBSET Slots),
           box # << >>, Carries(box, turns)
    PROVE  /\ Head(box).id # "YOUR_TURN" => Carries(Tail(box), turns)
           /\ Head(box).id = "YOUR_TURN" =>
                  /\ turns # << >>
                  /\ Head(turns) = Head(box).targets
                  /\ Carries(Tail(box), Tail(turns))
<1>1. PICK f \in [1 .. Len(turns) -> DOMAIN box] :
          /\ \A k, m \in 1 .. Len(turns) : k < m => f[k] < f[m]
          /\ \A k \in 1 .. Len(turns) : /\ box[f[k]].id = "YOUR_TURN"
                                        /\ box[f[k]].targets = turns[k]
          /\ \A i \in DOMAIN box : box[i].id = "YOUR_TURN"
                                       => \E k \in 1 .. Len(turns) : f[k] = i
    BY DEF Carries
<1>. DEFINE rest == Tail(box)
<1>2. /\ DOMAIN rest = 1 .. Len(box) - 1 /\ Len(box) \in Nat
      /\ \A i \in DOMAIN rest : rest[i] = box[i + 1]
      /\ Head(box) = box[1] /\ DOMAIN box = 1 .. Len(box) /\ 1 \in DOMAIN box
    BY HeadTailProperties, LenProperties
<1>3. Len(turns) \in Nat
    BY LenProperties
<1>. HIDE DEF rest
<1>4. ASSUME NEW i \in DOMAIN box, i # 1
      PROVE  /\ i \in 1 .. Len(box) /\ i > 1
             /\ i - 1 \in DOMAIN rest /\ rest[i - 1] = box[i]
  <2>1. i \in 1 .. Len(box) /\ i > 1 /\ i - 1 \in 1 .. Len(box) - 1 /\ (i - 1) + 1 = i
      BY <1>2, <1>4
  <2>. QED
      BY <1>2, <2>1
<1>5. CASE Head(box).id # "YOUR_TURN"
  <2>. DEFINE h == [k \in 1 .. Len(turns) |-> f[k] - 1]
  <2>1. \A k \in 1 .. Len(turns) : /\ f[k] \in 1 .. Len(box) /\ f[k] # 1
                                   /\ f[k] - 1 \in DOMAIN rest
                                   /\ rest[f[k] - 1] = box[f[k]]
    <3>1. \A k \in 1 .. Len(turns) : f[k] # 1
        BY <1>1, <1>2, <1>5
    <3>. QED
        BY <1>4, <3>1
  <2>2. h \in [1 .. Len(turns) -> DOMAIN rest]
      BY <2>1
  <2>3. \A k, m \in 1 .. Len(turns) : k < m => h[k] < h[m]
    <3>. SUFFICES ASSUME NEW k \in 1 .. Len(turns), NEW m \in 1 .. Len(turns), k < m
                  PROVE  h[k] < h[m]
        OBVIOUS
    <3>1. f[k] \in Nat /\ f[m] \in Nat /\ f[k] < f[m]
        BY <1>1, <1>2, <2>1
    <3>2. h[k] = f[k] - 1 /\ h[m] = f[m] - 1
        OBVIOUS
    <3>. QED
        BY <3>1, <3>2
  <2>4. \A k \in 1 .. Len(turns) : /\ rest[h[k]].id = "YOUR_TURN"
                                   /\ rest[h[k]].targets = turns[k]
      BY <1>1, <2>1
  <2>5. ASSUME NEW i \in DOMAIN rest, rest[i].id = "YOUR_TURN"
        PROVE  \E k \in 1 .. Len(turns) : h[k] = i
    <3>1. i + 1 \in DOMAIN box /\ box[i + 1].id = "YOUR_TURN"
        BY <1>2, <2>5
    <3>2. PICK k \in 1 .. Len(turns) : f[k] = i + 1
        BY <1>1, <3>1
    <3>3. h[k] = i
        BY <1>2, <2>5, <3>2
    <3>. QED
        BY <3>3
  <2>. HIDE DEF h
  <2>6. Carries(rest, turns)
      BY <2>2, <2>3, <2>4, <2>5 DEF Carries
  <2>. QED
      BY <1>5, <2>6 DEF rest
<1>6. CASE Head(box).id = "YOUR_TURN"
  <2>1. PICK one \in 1 .. Len(turns) : f[one] = 1
      BY <1>1, <1>2, <1>6
  <2>2. one = 1 /\ 1 \in 1 .. Len(turns) /\ f[1] = 1
    <3>1. 1 \in 1 .. Len(turns) /\ f[1] \in 1 .. Len(box)
        BY <1>2, <1>3, <2>1
    <3>2. ~(1 < one)
        BY <1>1, <2>1, <3>1
    <3>. QED
        BY <1>3, <2>1, <3>1, <3>2
  <2>3. /\ turns # << >> /\ Head(turns) = turns[1] /\ Tail(turns) \in Seq(SUBSET Slots)
        /\ Len(Tail(turns)) = Len(turns) - 1
        /\ \A k \in 1 .. Len(turns) - 1 : Tail(turns)[k] = turns[k + 1]
    <3>1. turns # << >>
        BY <2>2, EmptySeq
    <3>. QED
        BY <3>1, HeadTailProperties
  <2>4. Head(turns) = Head(box).targets
      BY <1>1, <1>2, <2>2, <2>3
  <2>. DEFINE others == Tail(turns)
              h == [k \in 1 .. Len(others) |-> f[k + 1] - 1]
  <2>. HIDE DEF others
  <2>5. /\ Len(others) \in Nat /\ Len(others) = Len(turns) - 1
        /\ \A k \in 1 .. Len(others) : /\ k + 1 \in 1 .. Len(turns)
                                       /\ others[k] = turns[k + 1]
      BY <1>3, <2>2, <2>3 DEF others
  <2>6. \A k \in 1 .. Len(others) : /\ f[k + 1] \in 1 .. Len(box) /\ f[k + 1] > 1
                                    /\ f[k + 1] - 1 \in DOMAIN rest
                                    /\ rest[f[k + 1] - 1] = box[f[k + 1]]
    <3>. SUFFICES ASSUME NEW k \in 1 .. Len(others)
                  PROVE  /\ f[k + 1] \in 1 .. Len(box) /\ f[k + 1] > 1
                         /\ f[k + 1] - 1 \in DOMAIN rest
                         /\ rest[f[k + 1] - 1] = box[f[k + 1]]
        OBVIOUS
    <3>1. k + 1 \in 1 .. Len(turns) /\ 1 < k + 1
        BY <2>5
    <3>2. f[k + 1] \in 1 .. Len(box) /\ f[k + 1] > 1
        BY <1>1, <1>2, <2>2, <3>1
    <3>. QED
        BY <1>2, <1>4, <3>2
  <2>7. h \in [1 .. Len(others) -> DOMAIN rest]
      BY <2>6
  <2>8. \A k, m \in 1 .. Len(others) : k < m => h[k] < h[m]
    <3>. SUFFICES ASSUME NEW k \in 1 .. Len(others), NEW m \in 1 .. Len(others), k < m
                  PROVE  h[k] < h[m]
        OBVIOUS
    <3>1. k + 1 < m + 1 /\ k + 1 \in 1 .. Len(turns) /\ m + 1 \in 1 .. Len(turns)
        BY <2>5
    <3>2. f[k + 1] < f[m + 1]
        BY <1>1, <3>1
    <3>. QED
        BY <2>6, <3>2
  <2>9. \A k \in 1 .. Len(others) : /\ rest[h[k]].id = "YOUR_TURN"
                                    /\ rest[h[k]].targets = others[k]
      BY <1>1, <2>5, <2>6
  <2>10. ASSUME NEW i \in DOMAIN rest, rest[i].id = "YOUR_TURN"
         PROVE  \E k \in 1 .. Len(others) : h[k] = i
    <3>1. i + 1 \in DOMAIN box /\ box[i + 1].id = "YOUR_TURN" /\ i + 1 # 1
        BY <1>2, <2>10
    <3>2. PICK k \in 1 .. Len(turns) : f[k] = i + 1
        BY <1>1, <3>1
    <3>3. k # 1
        BY <2>2, <3>1, <3>2
    <3>4. k - 1 \in 1 .. Len(others) /\ (k - 1) + 1 = k
        BY <1>3, <2>5, <3>3
    <3>5. h[k - 1] = i
        BY <1>2, <2>10, <3>2, <3>4
    <3>. QED
        BY <3>4, <3>5
  <2>. HIDE DEF h
  <2>11. Carries(rest, others)
      BY <2>7, <2>8, <2>9, <2>10 DEF Carries
  <2>. QED
      BY <1>6, <2>3, <2>4, <2>11 DEF rest, others
<1>. QED
    BY <1>5, <1>6

-----------------------------------------------------------------------------
(* What the system does, the server and its environment may do.            *)

\* The turn in a client's hand is the oldest the server waits for.
LEMMA TurnInHand ==
    ASSUME SystemInv, NEW g \in Guids, InHand(g, "YOUR_TURN"), Reaches(g)
    PROVE  /\ yourTurn[g] # << >>
           /\ Head(yourTurn[g]) = Head(c_inbox[g]).targets
           /\ g \in ready
           /\ m_class[g] = c_playerClass[g]
<1>1. c_inbox[g] \in Seq(Message) /\ yourTurn[g] \in Seq(SUBSET Slots)
    BY DEF SystemInv, SystemTypeOK, GameInv, SafeInv, TypeInv, TypeOK
<1>2. Carries(c_inbox[g], yourTurn[g]) /\ c_inbox[g] # << >>
      /\ Head(c_inbox[g]).id = "YOUR_TURN"
    BY DEF SystemInv, ClientInv, TurnsCarried, InHand, Reaches
<1>3. yourTurn[g] # << >> /\ Head(yourTurn[g]) = Head(c_inbox[g]).targets
    BY <1>1, <1>2, TailCarried
<1>4. m_class[g] # NoClass
    BY <1>3 DEF SystemInv, ClientInv, TurnsCarried
<1>. QED
    BY <1>3, <1>4 DEF SystemInv, ClientInv, SameClass, GameInv, SafeInv, ReadyOnce

\* An answer that reaches the server is one it may expect.
LEMMA AnswerIsAct ==
    ASSUME SystemInv, NEW g \in Guids, InHand(g, "YOUR_TURN"), Reaches(g), NEW packet,
           Answer(g, packet),
           \/ \E target \in Head(c_inbox[g]).targets :
                 packet = [id |-> "PLAYER_ATTACK", guid |-> g, target |-> target]
           \/ packet = [id |-> "PLAYER_DEFEND", guid |-> g]
           \/ /\ c_playerClass[g] \in Healers
              /\ packet = [id |-> "PLAYER_HEAL", guid |-> g]
    PROVE  Act(g)
<1>1. /\ yourTurn[g] # << >>
      /\ Head(yourTurn[g]) = Head(c_inbox[g]).targets
      /\ g \in ready
      /\ m_class[g] = c_playerClass[g]
    BY TurnInHand
<1>2. /\ Post(packet) /\ yourTurn' = [yourTurn EXCEPT ![g] = Tail(@)]
      /\ PromptMain => mainPc # "clear"
      /\ UNCHANGED <<serverVars, connected, launched, ready>>
      /\ Running /\ g \in connected
    BY DEF Answer, Reaches
<1>3. \/ \E target \in Head(yourTurn[g]) :
            Post([id |-> "PLAYER_ATTACK", guid |-> g, target |-> target])
      \/ Post([id |-> "PLAYER_DEFEND", guid |-> g])
      \/ m_class[g] \in Healers /\ Post([id |-> "PLAYER_HEAL", guid |-> g])
    BY <1>1, <1>2
<1>. QED
    BY <1>1, <1>2, <1>3 DEF Act

LEMMA AnswerLost ==
    ASSUME NEW g, NEW packet, Answer(g, packet), ~Reaches(g)
    PROVE  UNCHANGED vars
BY DEF Answer, vars, serverVars, clientVars

\* What a client and RakNet do, the environment of GameServer may do.
LEMMA ClientSteps ==
    ASSUME SystemInv, NEW g \in Guids, Client(g)
    PROVE  Connect(g) \/ ChooseClass(g) \/ Act(g) \/ UNCHANGED vars
<1>1. CASE \/ ClientMain(g) \/ SeeLobby(g) \/ SelectClass(g) \/ WaitForPlayers(g)
           \/ OnConnectionAccepted(g) \/ StoreAddress(g) \/ OnGameStarted(g)
           \/ OnGameOver(g) \/ ChooseAttack(g)
    BY <1>1 DEF ClientMain, SeeLobby, SelectClass, WaitForPlayers, OnConnectionAccepted,
                StoreAddress, OnGameStarted, OnGameOver, Enter, ChooseAttack
<1>2. CASE SendLobbyReady(g)
  <2>1. CASE c_serverAddress[g] /\ Reaches(g)
    <3>1. g \notin ready /\ c_playerClass[g] \in Classes
        BY <1>2, <2>1 DEF SystemInv, ClientInv, ReadyBehind, SameClass, SendLobbyReady, Goes
    <3>. QED
        BY <1>2, <2>1, <3>1 DEF SendLobbyReady, ChooseClass, Reaches
  <2>2. CASE ~(c_serverAddress[g] /\ Reaches(g))
      BY <1>2, <2>2 DEF SendLobbyReady, vars, serverVars, clientVars
  <2>. QED
      BY <2>1, <2>2
<1>3. CASE ChooseTarget(g) \/ ChooseDefend(g) \/ ChooseHeal(g)
  <2>1. InHand(g, "YOUR_TURN")
      BY <1>3 DEF ChooseTarget, ChooseDefend, ChooseHeal
  <2>2. PICK packet :
            /\ Answer(g, packet)
            /\ \/ \E target \in Head(c_inbox[g]).targets :
                     packet = [id |-> "PLAYER_ATTACK", guid |-> g, target |-> target]
               \/ packet = [id |-> "PLAYER_DEFEND", guid |-> g]
               \/ /\ c_playerClass[g] \in Healers
                  /\ packet = [id |-> "PLAYER_HEAL", guid |-> g]
      BY <1>3, Zenon DEF ChooseTarget, ChooseDefend, ChooseHeal
  <2>3. CASE Reaches(g)
      BY <2>1, <2>2, <2>3, AnswerIsAct
  <2>4. CASE ~Reaches(g)
      BY <2>2, <2>4, AnswerLost
  <2>. QED
      BY <2>3, <2>4
<1>4. CASE RakNet(g)
  <2>1. c_attempt[g] = "pending" /\ (AcceptAttempt(g) \/ RefuseAttempt(g))
      BY <1>4 DEF RakNet, Goes
  <2>2. g \notin launched
      BY <2>1 DEF SystemInv, ClientInv, AttemptFirst
  <2>. QED
      BY <2>1, <2>2 DEF AcceptAttempt, RefuseAttempt, Connect
<1>. QED
    BY <1>1, <1>2, <1>3, <1>4 DEF Client, InputHandler, ClientPacketHandler

LEMMA SystemSteps ==
    ASSUME SystemInv, [SystemNext]_systemVars
    PROVE  [Next]_vars
<1>1. CASE UNCHANGED systemVars
    BY <1>1 DEF systemVars
<1>2. CASE ServerMain
    BY <1>2 DEF ServerMain, SilentMain, SendYourTurn, Next, Main
<1>3. CASE ServerPacketThread
    BY <1>3 DEF ServerPacketThread, SilentPacketThread, SendGameStart, SendGameOver,
                Next, PacketThread
<1>4. ASSUME NEW g \in Guids, Client(g) PROVE [Next]_vars
    BY <1>4, ClientSteps DEF Next, Environment
<1>5. ASSUME NEW g \in Guids, LoseConnection(g) PROVE [Next]_vars
    BY <1>5 DEF LoseConnection, Next, Environment
<1>. QED
    BY <1>1, <1>2, <1>3, <1>4, <1>5 DEF SystemNext

-----------------------------------------------------------------------------
(* The queues, and what is not touched.                                    *)

LEMMA WelcomesAll ==
    ASSUME NEW box \in Seq(Message), NEW state, Welcomes(box, state)
    PROVE  /\ state # "NS_Started" => \A other : Welcomes(box, other)
           /\ box # << >> => \A other : Welcomes(Tail(box), other)
           /\ \A n \in 0 .. Len(box) : Welcomes(SubSeq(box, 1, n), state)
           /\ \A message \in Message :
                  \/ message.id # "CONNECTION_REQUEST_ACCEPTED"
                  \/ box = << >> /\ state = "NS_Started"
                  => Welcomes(Append(box, message), state)
<1>1. state # "NS_Started" => \A other : Welcomes(box, other)
    BY DEF Welcomes
<1>2. ASSUME box # << >>, NEW other PROVE Welcomes(Tail(box), other)
  <2>1. /\ DOMAIN Tail(box) = 1 .. Len(box) - 1 /\ Len(box) \in Nat
        /\ \A i \in DOMAIN Tail(box) : Tail(box)[i] = box[i + 1]
        /\ DOMAIN box = 1 .. Len(box)
      BY <1>2, HeadTailProperties, LenProperties
  <2>2. \A i \in DOMAIN Tail(box) : i + 1 \in DOMAIN box /\ i + 1 # 1
      BY <2>1
  <2>. QED
      BY <2>1, <2>2 DEF Welcomes
<1>3. ASSUME NEW n \in 0 .. Len(box) PROVE Welcomes(SubSeq(box, 1, n), state)
  <2>1. Len(box) \in Nat /\ DOMAIN box = 1 .. Len(box)
      BY LenProperties
  <2>2. \A i \in DOMAIN SubSeq(box, 1, n) : i \in DOMAIN box
                                             /\ SubSeq(box, 1, n)[i] = box[i]
      BY <2>1, SubSeqProperties
  <2>. QED
      BY <2>2 DEF Welcomes
<1>4. ASSUME NEW message \in Message,
             \/ message.id # "CONNECTION_REQUEST_ACCEPTED"
             \/ box = << >> /\ state = "NS_Started"
      PROVE  Welcomes(Append(box, message), state)
  <2>1. /\ Len(box) \in Nat /\ DOMAIN box = 1 .. Len(box)
        /\ \A i \in DOMAIN Append(box, message) :
               \/ i \in DOMAIN box /\ Append(box, message)[i] = box[i]
               \/ i = Len(box) + 1 /\ Append(box, message)[i] = message
      BY AppendProperties, LenProperties
  <2>2. CASE message.id # "CONNECTION_REQUEST_ACCEPTED"
      BY <2>1, <2>2 DEF Welcomes
  <2>3. CASE box = << >> /\ state = "NS_Started"
    <3>1. Len(box) = 0
        BY <2>3, EmptySeq
    <3>. QED
        BY <2>1, <2>3, <3>1 DEF Welcomes
  <2>. QED
      BY <1>4, <2>2, <2>3
<1>. QED
    BY <1>1, <1>2, <1>3, <1>4

LEMMA QueueGrows ==
    ASSUME inbox \in Seq(Packet), NEW g, QueuedClass(g),
           c_playerClass'[g] = c_playerClass[g],
           NEW packet \in Packet, Post(packet),
           packet.id = "LOBBY_READY" /\ packet.guid = g => packet.class = c_playerClass[g]
    PROVE  QueuedClass(g)'
BY PostedLast DEF QueuedClass

LEMMA QueueShrinks ==
    ASSUME inbox \in Seq(Packet), NEW g, QueuedClass(g),
           c_playerClass'[g] = c_playerClass[g], inbox' = inbox \/ Received
    PROVE  QueuedClass(g)'
<1>1. \A i \in DOMAIN inbox' : \E j \in DOMAIN inbox : inbox'[i] = inbox[j]
    BY ReceivedPositions
<1>. QED
    BY <1>1 DEF QueuedClass

-----------------------------------------------------------------------------
(* The steps of the server.                                                *)

\* A client is unaffected by a step of the server, but for its own queue.
LEMMA ServerStays ==
    ASSUME SystemInv, NEW h \in Guids, TurnsCarried(h)',
           UNCHANGED <<processVars, connected, launched, ready>>,
           inbox' = inbox \/ Received,
           m_class'[h] \in {m_class[h], NoClass, c_playerClass[h]},
           Welcomes(c_inbox'[h], c_networkState[h]),
           c_inbox'[h] = c_inbox[h] \/ h \in connected
    PROVE  ClientInv(h)'
<1>. USE DEF SystemInv, ClientInv, processVars
<1>1. AttemptFirst(h)'
    BY DEF AttemptFirst
<1>2. LobbyOnce(h)'
    BY DEF LobbyOnce
<1>3. ReadyBehind(h)'
    BY DEF ReadyBehind
<1>4. SameClass(h)'
  <2>1. QueuedClass(h)'
      BY QueueShrinks DEF SameClass, GameInv, SafeInv, TypeInv, TypeOK
  <2>. QED
      BY <2>1 DEF SameClass
<1>. QED
    BY <1>1, <1>2, <1>3, <1>4

\* A client whose class the server changes has no turn, or sends the class.
LEMMA ClassMoves ==
    ASSUME SystemInv, NEW h \in Guids, Main \/ PacketThread
    PROVE  \/ m_class'[h] = m_class[h]
           \/ m_class'[h] = NoClass /\ yourTurn[h] = << >>
           \/ m_class'[h] = c_playerClass[h] /\ m_class'[h] # NoClass
<1>. USE DEF SystemInv, GameInv, SafeInv
<1>1. CASE OnIncomingConnection
  <2>1. CASE sender = h
    <3>1. 1 \in DOMAIN inbox /\ inbox[1].guid = h
          /\ inbox[1].id = "NEW_INCOMING_CONNECTION"
        BY <1>1, <2>1, ReceivedPositions
        DEF OnIncomingConnection, Receive, Received, TypeInv, TypeOK, sender
    <3>2. h \notin m_players
        BY <3>1 DEF NewcomersAreNew, Sent
    <3>3. Cardinality(m_players) # MAX_CONNECTIONS
        BY <3>1, <3>2, SlotIsFree DEF PartyInv
    <3>4. yourTurn[h] = << >>
        BY <3>3 DEF PartyInv, FullGame, LobbyIsPeaceful
    <3>. QED
        BY <1>1, <2>1, <3>4 DEF OnIncomingConnection, TypeInv, TypeOK
  <2>2. CASE sender # h
      BY <1>1, <2>2 DEF OnIncomingConnection, TypeInv, TypeOK
  <2>. QED
      BY <2>1, <2>2
<1>2. CASE OnLobbyReady
  <2>1. CASE sender = h /\ sender \in m_players
    <3>1. 1 \in DOMAIN inbox /\ inbox[1].guid = h /\ inbox[1].id = "LOBBY_READY"
          /\ Head(inbox).class = inbox[1].class
        BY <1>2, <2>1, ReceivedPositions
        DEF OnLobbyReady, Receive, Received, TypeInv, TypeOK, sender
    <3>2. Head(inbox).class = c_playerClass[h]
        BY <3>1 DEF ClientInv, SameClass, QueuedClass
    <3>3. Head(inbox).class \in Classes
        BY <1>2, PacketTyped DEF OnLobbyReady, TypeInv
    <3>. QED
        BY <1>2, <2>1, <3>2, <3>3, ClassesAssumption
        DEF OnLobbyReady, GetPlayer, GetPlayers, TypeInv, TypeOK
  <2>2. CASE sender # h \/ sender \notin m_players
      BY <1>2, <2>2 DEF OnLobbyReady, GetPlayer, GetPlayers, Abort, playerVars,
                        TypeInv, TypeOK
  <2>. QED
      BY <2>1, <2>2
<1>3. CASE Main \/ OnLostConnection \/ CompareTurn \/ TransferTurn \/ GameGoesOn
           \/ GameIsOver \/ ScanFails \/ AnnounceWinner \/ NoWinner
           \/ ResolveAttack \/ ResolveDefend \/ ResolveHeal \/ StartTurn
  <2>1. UNCHANGED m_class
    <3>1. CASE Main
        BY <3>1, Zenon DEF Main, MainInit, MainListen, MainPublish, MainPoll, MainNoTurn,
           MainNextTurn, MainPick, MainBroadcast, MainYourTurn, MainClear, YourTurn,
           GetPlayerStats, GetPlayers, Characters, Abort, playerVars
    <3>2. CASE ~Main
        BY <1>3, <3>2, Zenon DEF OnLostConnection, CompareTurn, TransferTurn, GameGoesOn,
           GameIsOver, ScanFails, AnnounceWinner, NoWinner, ResolveAttack, Strike,
           ResolveDefend, ResolveHeal, StartTurn, PacketStep, GetPlayerStats, GetPlayer,
           GetPlayers, Characters, Abort, playerVars
    <3>. QED
        BY <3>1, <3>2
  <2>. QED
      BY <2>1
<1>. QED
    BY <1>1, <1>2, <1>3 DEF PacketThread

\* What the steps of the server leave alone.
LEMMA ServerFrame ==
    ASSUME Main \/ PacketThread
    PROVE  /\ Running
           /\ UNCHANGED <<connected, launched, ready>>
           /\ inbox' = inbox \/ Received
           /\ PacketThread \/ SilentMain => UNCHANGED yourTurn
<1>1. SilentMain => UNCHANGED yourTurn
    BY Zenon DEF SilentMain, MainInit, MainListen, MainPublish, MainPoll, MainNoTurn,
       MainNextTurn, MainPick, MainBroadcast, MainClear, GetPlayerStats, GetPlayers,
       Characters, Abort, clientVars
<1>2. Main => /\ Running /\ inbox' = inbox
              /\ UNCHANGED <<connected, launched, ready>>
    BY Zenon DEF Main, MainInit, MainListen, MainPublish, MainPoll, MainNoTurn,
       MainNextTurn, MainPick, MainBroadcast, MainYourTurn, MainClear, MainStep, YourTurn,
       GetPlayerStats, GetPlayers, Characters, Abort, clientVars
<1>3. PacketThread => /\ Running /\ (inbox' = inbox \/ Received)
                      /\ UNCHANGED <<connected, launched, ready, yourTurn>>
    BY Zenon DEF PacketThread, OnIncomingConnection, OnLobbyReady, OnLostConnection,
       CompareTurn, TransferTurn, GameGoesOn, GameIsOver, ScanFails, AnnounceWinner,
       NoWinner, ResolveAttack, Strike, ResolveDefend, ResolveHeal, StartTurn, PacketStep,
       Receive, Received, GetPlayerStats, GetPlayer, GetPlayers, Characters, Abort,
       clientVars
<1>. QED
    BY <1>1, <1>2, <1>3

\* A step of the server that sends no YOUR_TURN: what it sends, everybody gets.
LEMMA BroadcastKeeps ==
    ASSUME SystemInv, Main \/ PacketThread, UNCHANGED <<yourTurn, processVars>>,
           \/ UNCHANGED c_inbox
           \/ \E id \in {"THEGAME_START", "THEGAME_OVER"} : Broadcast(id),
           NEW h \in Guids
    PROVE  ClientInv(h)' /\ c_inbox'[h] \in Seq(Message)
<1>1. /\ Running /\ UNCHANGED <<connected, launched, ready>>
      /\ inbox' = inbox \/ Received
    BY ServerFrame
<1>2. \/ m_class'[h] = m_class[h]
      \/ m_class'[h] = NoClass /\ yourTurn[h] = << >>
      \/ m_class'[h] = c_playerClass[h] /\ m_class'[h] # NoClass
    BY ClassMoves
<1>3. c_inbox \in [Guids -> Seq(Message)] /\ c_inbox[h] \in Seq(Message)
    BY DEF SystemInv, SystemTypeOK
<1>. USE DEF SystemInv, ClientInv, TurnsCarried, LobbyOnce
<1>4. CASE UNCHANGED c_inbox
  <2>1. TurnsCarried(h)'
      BY <1>1, <1>2, <1>4 DEF Running
  <2>. QED
      BY <1>1, <1>2, <1>3, <1>4, <2>1, ServerStays DEF processVars
<1>5. ASSUME NEW id \in {"THEGAME_START", "THEGAME_OVER"}, Broadcast(id)
      PROVE  ClientInv(h)' /\ c_inbox'[h] \in Seq(Message)
  <2>. DEFINE message == [id |-> id]
  <2>1. message \in Message /\ message.id # "YOUR_TURN"
        /\ message.id # "CONNECTION_REQUEST_ACCEPTED"
      BY <1>5 DEF Message
  <2>2. c_inbox'[h] = IF h \in connected THEN Append(c_inbox[h], message) ELSE c_inbox[h]
      BY <1>5 DEF Broadcast
  <2>3. c_inbox'[h] \in Seq(Message)
      BY <1>3, <2>1, <2>2, AppendProperties
  <2>. HIDE DEF message
  <2>4. Running /\ h \in connected => Carries(c_inbox'[h], yourTurn[h])
      BY <1>3, <2>1, <2>2, AppendCarried
  <2>5. TurnsCarried(h)'
      BY <1>1, <1>2, <2>4
  <2>6. Welcomes(c_inbox'[h], c_networkState[h])
      BY <1>3, <2>1, <2>2, WelcomesAll
  <2>. QED
      BY <1>1, <1>2, <2>2, <2>3, <2>5, <2>6, ServerStays
<1>. QED
    BY <1>3, <1>4, <1>5

\* YOUR_TURN reaches a client that has a class, in the order of the turns.
LEMMA YourTurnKeeps ==
    ASSUME SystemInv, SendYourTurn, UNCHANGED processVars, NEW h \in Guids
    PROVE  ClientInv(h)' /\ c_inbox'[h] \in Seq(Message)
<1>1. MainYourTurn
    BY DEF SendYourTurn
<1>2. /\ Running /\ UNCHANGED <<connected, launched, ready>>
      /\ inbox' = inbox /\ UNCHANGED m_class
  <2>1. Main
      BY <1>1 DEF Main
  <2>. QED
      BY <1>1, <2>1, ServerFrame
      DEF MainYourTurn, YourTurn, GetPlayers, Abort, playerVars
<1>3. c_inbox \in [Guids -> Seq(Message)] /\ c_inbox[h] \in Seq(Message)
      /\ yourTurn \in [Guids -> Seq(SUBSET Slots)] /\ yourTurn[h] \in Seq(SUBSET Slots)
    BY DEF SystemInv, SystemTypeOK, GameInv, SafeInv, TypeInv, TypeOK
<1>4. \/ yourTurn'[h] = yourTurn[h]
      \/ /\ h \in connected /\ m_class[h] # NoClass
         /\ \E targets \in SUBSET Slots : yourTurn'[h] = Append(yourTurn[h], targets)
  <2>1. g_networkState \notin BeforeGame
      BY <1>1 DEF MainYourTurn, SystemInv, GameInv, SafeInv, LobbyIsPeaceful
  <2>2. /\ \A s \in Slots : playersIDs[s] \in m_players
        /\ \A g \in m_players : m_class[g] # NoClass
      BY <2>1, GameIsComplete DEF SystemInv
  <2>3. CASE lastPlayerTurn \in Slots
    <3>. DEFINE player  == playersIDs[lastPlayerTurn]
                targets == {m_number[playersIDs[s]] : s \in ConnectedSlots}
                               \ {lastPlayerTurn}
    <3>1. targets \in SUBSET Slots
        BY ListedTyped DEF SystemInv, GameInv, SafeInv, TypeInv
    <3>2. \/ yourTurn' = yourTurn
          \/ player \in connected
             /\ yourTurn' = [yourTurn EXCEPT ![player] = Append(@, targets)]
        BY <1>1, <2>3 DEF MainYourTurn, YourTurn, GetPlayers, Abort, clientVars
    <3>3. player \in m_players
        BY <2>2, <2>3
    <3>. HIDE DEF targets
    <3>. QED
        BY <1>3, <2>2, <3>1, <3>2, <3>3
  <2>4. CASE lastPlayerTurn \notin Slots
      BY <1>1, <2>4 DEF MainYourTurn, Abort, clientVars
  <2>. QED
      BY <2>3, <2>4
<1>5. CASE yourTurn'[h] = yourTurn[h]
  <2>1. c_inbox'[h] = c_inbox[h]
      BY <1>5 DEF SendYourTurn
  <2>2. TurnsCarried(h)'
      BY <1>2, <1>5, <2>1 DEF SystemInv, ClientInv, TurnsCarried
  <2>. QED
      BY <1>2, <1>3, <2>1, <2>2, ServerStays DEF SystemInv, ClientInv, LobbyOnce
<1>6. ASSUME h \in connected, m_class[h] # NoClass, NEW targets \in SUBSET Slots,
             yourTurn'[h] = Append(yourTurn[h], targets)
      PROVE  ClientInv(h)' /\ c_inbox'[h] \in Seq(Message)
  <2>. DEFINE message == [id |-> "YOUR_TURN", targets |-> targets]
  <2>1. message \in Message /\ message.id # "CONNECTION_REQUEST_ACCEPTED"
      BY DEF Message
  <2>2. /\ Len(yourTurn'[h]) # Len(yourTurn[h])
        /\ yourTurn'[h][Len(yourTurn'[h])] = targets
        /\ yourTurn'[h] # << >>
    <3>1. /\ Len(yourTurn'[h]) = Len(yourTurn[h]) + 1
          /\ yourTurn'[h][Len(yourTurn[h]) + 1] = targets
        BY <1>3, <1>6, AppendProperties
    <3>2. Len(yourTurn[h]) \in Nat
        BY <1>3, LenProperties
    <3>. QED
        BY <3>1, <3>2, EmptySeq
  <2>3. c_inbox'[h] = Append(c_inbox[h], message)
      BY <2>2 DEF SendYourTurn
  <2>4. Carries(c_inbox'[h], yourTurn'[h])
      BY <1>2, <1>3, <1>6, <2>3, TurnCarried DEF SystemInv, ClientInv, TurnsCarried
  <2>. HIDE DEF message
  <2>5. TurnsCarried(h)'
      BY <1>2, <1>6, <2>4 DEF TurnsCarried
  <2>6. Welcomes(c_inbox'[h], c_networkState[h])
      BY <1>3, <2>1, <2>3, WelcomesAll DEF SystemInv, ClientInv, LobbyOnce
  <2>7. c_inbox'[h] \in Seq(Message)
      BY <1>3, <2>1, <2>3, AppendProperties
  <2>8. ClientInv(h)'
      BY <1>2, <1>6, <2>5, <2>6, ServerStays
  <2>. QED
      BY <2>7, <2>8
<1>. QED
    BY <1>4, <1>5, <1>6

LEMMA ServerKeeps ==
    ASSUME SystemInv, ServerMain \/ ServerPacketThread
    PROVE  SystemTypeOK' /\ \A h \in Guids : ClientInv(h)'
<1>1. UNCHANGED processVars
    BY Zenon DEF ServerMain, ServerPacketThread
<1>2. \/ /\ Main \/ PacketThread
         /\ UNCHANGED yourTurn
         /\ \/ UNCHANGED c_inbox
            \/ \E id \in {"THEGAME_START", "THEGAME_OVER"} : Broadcast(id)
      \/ SendYourTurn
  <2>1. CASE SilentMain
    <3>1. Main
        BY <2>1, Zenon DEF SilentMain, Main
    <3>. QED
        BY <2>1, <3>1, ServerFrame DEF SilentMain
  <2>2. CASE ServerPacketThread
    <3>1. PacketThread
        BY <2>2, Zenon DEF ServerPacketThread, SilentPacketThread, SendGameStart,
           SendGameOver, PacketThread
    <3>2. \/ UNCHANGED c_inbox
          \/ \E id \in {"THEGAME_START", "THEGAME_OVER"} : Broadcast(id)
        BY <2>2 DEF ServerPacketThread, SilentPacketThread, SendGameStart, SendGameOver
    <3>. QED
        BY <3>1, <3>2, ServerFrame
  <2>3. CASE SendYourTurn
      BY <2>3
  <2>. QED
      BY <2>1, <2>2, <2>3 DEF ServerMain
<1>3. ASSUME NEW h \in Guids PROVE ClientInv(h)' /\ c_inbox'[h] \in Seq(Message)
    BY <1>1, <1>2, BroadcastKeeps, YourTurnKeeps
<1>4. c_inbox' = [h \in Guids |-> c_inbox'[h]]
    BY <1>2 DEF SystemInv, SystemTypeOK, Broadcast, SendYourTurn
<1>5. c_inbox' \in [Guids -> Seq(Message)]
    BY <1>3, <1>4
<1>. QED
    BY <1>1, <1>3, <1>5 DEF SystemInv, SystemTypeOK, processVars

-----------------------------------------------------------------------------
(* The steps of the clients.                                               *)

\* Nothing of a client is touched but the network state of others.
LEMMA ClientStays ==
    ASSUME SystemInv, NEW h \in Guids, QueuedClass(h)',
           c_networkState'[h] = c_networkState[h], c_attempt'[h] = c_attempt[h],
           c_inputPc'[h] = c_inputPc[h], c_playerClass'[h] = c_playerClass[h],
           c_inbox'[h] = c_inbox[h], yourTurn'[h] = yourTurn[h],
           h \in c_failed' <=> h \in c_failed, h \in launched' <=> h \in launched,
           h \in connected' <=> h \in connected, h \in ready' <=> h \in ready,
           UNCHANGED <<m_class, failure>>
    PROVE  ClientInv(h)'
<1>. USE DEF SystemInv, ClientInv
<1>1. AttemptFirst(h)' /\ LobbyOnce(h)'
    BY DEF AttemptFirst, LobbyOnce
<1>2. ReadyBehind(h)' /\ SameClass(h)'
    BY DEF ReadyBehind, SameClass
<1>3. TurnsCarried(h)'
    BY DEF TurnsCarried, Running
<1>. QED
    BY <1>1, <1>2, <1>3

\* What the steps of a client leave alone.
LEMMA ClientFrame ==
    ASSUME SystemInv, NEW g \in Guids, Client(g) \/ LoseConnection(g)
    PROVE  /\ UNCHANGED <<m_class, failure>>
           /\ \/ inbox' = inbox
              \/ \E packet \in Packet : /\ Post(packet) /\ packet.guid = g
                                        /\ packet.id = "LOBBY_READY" =>
                                             packet.class = c_playerClass[g]
<1>1. UNCHANGED <<m_class, failure>>
  <2>1. UNCHANGED serverVars \/ UNCHANGED vars
      BY Zenon DEF Client, LoseConnection, InputHandler, ClientPacketHandler, ClientMain,
         SeeLobby, SelectClass, SendLobbyReady, WaitForPlayers, OnConnectionAccepted,
         StoreAddress, OnGameStarted, OnGameOver, Enter, ChooseAttack, ChooseTarget,
         ChooseDefend, ChooseHeal, Answer, RakNet, AcceptAttempt, RefuseAttempt, Lose
  <2>. QED
      BY <2>1 DEF serverVars, vars, playerVars
<1>2. CASE SendLobbyReady(g)
  <2>1. CASE Post([id |-> "LOBBY_READY", guid |-> g, class |-> c_playerClass[g]])
            /\ c_inputPc[g] = "send"
    <3>1. c_playerClass[g] \in Classes
        BY <2>1 DEF SystemInv, ClientInv, SameClass
    <3>. QED
        BY <1>1, <2>1, <3>1 DEF Packet
  <2>. QED
      BY <1>1, <1>2, <2>1 DEF SendLobbyReady, Goes
<1>3. CASE ChooseTarget(g) \/ ChooseDefend(g) \/ ChooseHeal(g)
  <2>1. c_inbox[g] \in Seq(Message) /\ c_inbox[g] # << >>
        /\ Head(c_inbox[g]).id = "YOUR_TURN"
      BY <1>3 DEF SystemInv, SystemTypeOK, ChooseTarget, ChooseDefend, ChooseHeal, InHand
  <2>2. Head(c_inbox[g]).targets \subseteq Slots
    <3>1. Head(c_inbox[g]) \in Message
        BY <2>1, HeadTailProperties
    <3>. QED
        BY <2>1, <3>1 DEF Message
  <2>3. \A packet : Answer(g, packet) => inbox' = inbox \/ Post(packet)
      BY DEF Answer
  <2>4. \/ inbox' = inbox
        \/ \E t \in Slots : Post([id |-> "PLAYER_ATTACK", guid |-> g, target |-> t])
        \/ Post([id |-> "PLAYER_DEFEND", guid |-> g])
        \/ Post([id |-> "PLAYER_HEAL", guid |-> g])
      BY <1>3, <2>2, <2>3 DEF ChooseTarget, ChooseDefend, ChooseHeal
  <2>5. /\ \A t \in Slots : [id |-> "PLAYER_ATTACK", guid |-> g, target |-> t] \in Packet
        /\ [id |-> "PLAYER_DEFEND", guid |-> g] \in Packet
        /\ [id |-> "PLAYER_HEAL", guid |-> g] \in Packet
      BY DEF Packet
  <2>. QED
      BY <1>1, <2>4, <2>5
<1>4. CASE LoseConnection(g) \/ RakNet(g)
  <2>1. \/ inbox' = inbox
        \/ Post([id |-> "CONNECTION_LOST", guid |-> g])
        \/ Post([id |-> "NEW_INCOMING_CONNECTION", guid |-> g])
      BY <1>4 DEF LoseConnection, Lose, RakNet, AcceptAttempt, RefuseAttempt, vars
  <2>2. /\ [id |-> "CONNECTION_LOST", guid |-> g] \in Packet
        /\ [id |-> "NEW_INCOMING_CONNECTION", guid |-> g] \in Packet
      BY DEF Packet
  <2>. QED
      BY <1>1, <2>1, <2>2
<1>5. CASE UNCHANGED vars
    BY <1>1, <1>5 DEF vars
<1>. QED
    BY <1>2, <1>3, <1>4, <1>5, Zenon
    DEF Client, InputHandler, ClientPacketHandler, ClientMain, SeeLobby, SelectClass,
        WaitForPlayers, OnConnectionAccepted, StoreAddress, OnGameStarted, OnGameOver,
        Enter, ChooseAttack

\* What a client or its connection does is nothing to the others.
LEMMA OthersKeep ==
    ASSUME SystemInv, NEW g \in Guids, NEW h \in Guids, h # g,
           Client(g) \/ LoseConnection(g)
    PROVE  ClientInv(h)'
<1>1. /\ UNCHANGED <<m_class, failure>>
      /\ \/ inbox' = inbox
         \/ \E packet \in Packet : Post(packet) /\ packet.guid = g
    BY ClientFrame
<1>2. /\ c_networkState'[h] = c_networkState[h] /\ c_attempt'[h] = c_attempt[h]
      /\ c_inputPc'[h] = c_inputPc[h] /\ c_playerClass'[h] = c_playerClass[h]
      /\ c_inbox'[h] = c_inbox[h] /\ yourTurn'[h] = yourTurn[h]
      /\ h \in c_failed' <=> h \in c_failed
      /\ h \in launched' <=> h \in launched
      /\ h \in connected' <=> h \in connected
      /\ h \in ready' <=> h \in ready
  <2>. USE DEF SystemInv, SystemTypeOK, GameInv, SafeInv, TypeInv, TypeOK, Goes, Done,
               vars, clientVars, processVars
  <2>1. CASE ClientMain(g) \/ SeeLobby(g) \/ SelectClass(g) \/ WaitForPlayers(g)
    <3>1. CASE ClientMain(g)
        BY <3>1 DEF ClientMain
    <3>2. CASE SeeLobby(g)
        BY <3>2 DEF SeeLobby
    <3>3. CASE SelectClass(g)
        BY <3>3 DEF SelectClass
    <3>4. CASE WaitForPlayers(g)
        BY <3>4 DEF WaitForPlayers
    <3>. QED
        BY <2>1, <3>1, <3>2, <3>3, <3>4
  <2>2. CASE SendLobbyReady(g)
    <3>1. /\ UNCHANGED <<connected, launched, yourTurn, c_networkState, c_playerClass,
                         c_attempt, c_inbox>>
          /\ UNCHANGED c_inputPc \/ c_inputPc' = [c_inputPc EXCEPT ![g] = "wait"]
          /\ UNCHANGED c_failed \/ c_failed' = c_failed \cup {g}
          /\ UNCHANGED ready \/ ready' = ready \cup {g}
        BY <2>2, Zenon DEF SendLobbyReady
    <3>2. c_inputPc'[h] = c_inputPc[h]
        BY <3>1
    <3>. QED
        BY <3>1, <3>2
  <2>3. CASE \/ OnConnectionAccepted(g) \/ StoreAddress(g) \/ OnGameStarted(g)
             \/ OnGameOver(g) \/ ChooseAttack(g)
      BY <2>3 DEF OnConnectionAccepted, StoreAddress, OnGameStarted, OnGameOver, Enter,
                  Handle, ChooseAttack
  <2>4. CASE ChooseTarget(g) \/ ChooseDefend(g) \/ ChooseHeal(g)
    <3>1. \A packet : Answer(g, packet) =>
              /\ UNCHANGED <<connected, launched, ready, c_networkState, c_playerClass,
                             c_attempt, c_inputPc, c_failed>>
              /\ c_inbox'[h] = c_inbox[h]
              /\ yourTurn'[h] = yourTurn[h]
        BY DEF Answer
    <3>. QED
        BY <2>4, <3>1 DEF ChooseTarget, ChooseDefend, ChooseHeal
  <2>5. CASE RakNet(g)
      BY <2>5 DEF RakNet, AcceptAttempt, RefuseAttempt
  <2>6. CASE LoseConnection(g)
      BY <2>6 DEF LoseConnection, Lose
  <2>. QED
      BY <2>1, <2>2, <2>3, <2>4, <2>5, <2>6 DEF Client, InputHandler, ClientPacketHandler
<1>3. QueuedClass(h)'
  <2>1. inbox \in Seq(Packet) /\ QueuedClass(h)
      BY DEF SystemInv, ClientInv, SameClass, GameInv, SafeInv, TypeInv, TypeOK
  <2>. QED
      BY <1>1, <1>2, <2>1, QueueGrows, QueueShrinks
<1>. QED
    BY <1>1, <1>2, <1>3, ClientStays

\* The thread of main and that of InputHandler.
LEMMA InputKeeps ==
    ASSUME SystemInv, NEW g \in Guids, ClientMain(g) \/ InputHandler(g)
    PROVE  ClientInv(g)'
<1>. USE DEF SystemInv, ClientInv, SystemTypeOK, Goes
<1>1. UNCHANGED <<m_class, failure>> /\ c_inbox[g] \in Seq(Message)
  <2>1. Client(g)
      BY DEF Client
  <2>. QED
      BY <2>1, ClientFrame
<1>2. inbox \in Seq(Packet) /\ QueuedClass(g)
    BY DEF SameClass, GameInv, SafeInv, TypeInv, TypeOK
<1>3. CASE ClientMain(g) \/ SeeLobby(g) \/ WaitForPlayers(g)
  <2>1. /\ UNCHANGED <<vars, c_playerClass, c_failed, c_inbox>>
        /\ connected' = connected /\ launched' = launched /\ ready' = ready
        /\ yourTurn' = yourTurn /\ inbox' = inbox
      BY <1>3 DEF ClientMain, SeeLobby, WaitForPlayers, vars, clientVars
  <2>2. AttemptFirst(g)'
      BY <1>3, <2>1 DEF ClientMain, SeeLobby, WaitForPlayers, AttemptFirst, LobbyOnce
  <2>3. LobbyOnce(g)'
    <3>1. Welcomes(c_inbox[g], c_networkState'[g])
        BY <1>1, <1>3, WelcomesAll DEF ClientMain, SeeLobby, WaitForPlayers, LobbyOnce
    <3>. QED
        BY <1>3, <2>1, <3>1 DEF ClientMain, SeeLobby, WaitForPlayers, LobbyOnce
  <2>4. ReadyBehind(g)'
      BY <1>3, <2>1 DEF ClientMain, SeeLobby, WaitForPlayers, ReadyBehind, LobbyOnce, Up
  <2>5. SameClass(g)' /\ TurnsCarried(g)'
      BY <1>1, <1>2, <1>3, <2>1, QueueShrinks
      DEF ClientMain, SeeLobby, WaitForPlayers, SameClass, TurnsCarried, Running
  <2>. QED
      BY <2>2, <2>3, <2>4, <2>5
<1>4. CASE SelectClass(g)
  <2>1. /\ UNCHANGED <<vars, c_networkState, c_attempt, c_failed, c_inbox>>
        /\ connected' = connected /\ launched' = launched /\ ready' = ready
        /\ yourTurn' = yourTurn /\ inbox' = inbox
        /\ c_inputPc[g] = "select" /\ c_inputPc'[g] = "send"
        /\ c_playerClass'[g] \in Classes
      BY <1>4 DEF SelectClass, vars, clientVars
  <2>2. g \notin ready
      BY <2>1 DEF ReadyBehind
  <2>3. m_class[g] = NoClass /\ g \notin Sent("LOBBY_READY")
      BY <2>2 DEF GameInv, SafeInv, ReadyOnce
  <2>4. SameClass(g)'
      BY <1>1, <2>1, <2>3 DEF SameClass, QueuedClass, Sent
  <2>5. AttemptFirst(g)' /\ LobbyOnce(g)' /\ ReadyBehind(g)' /\ TurnsCarried(g)'
      BY <1>1, <2>1, <2>2
      DEF AttemptFirst, LobbyOnce, ReadyBehind, TurnsCarried, Running
  <2>. QED
      BY <2>4, <2>5
<1>5. CASE SendLobbyReady(g)
  <2>1. /\ UNCHANGED <<connected, launched, yourTurn, c_networkState, c_playerClass,
                       c_attempt, c_inbox>>
        /\ g \notin c_failed /\ c_inputPc[g] = "send"
        /\ \/ c_inputPc'[g] = "wait" /\ c_failed' = c_failed
           \/ c_inputPc'[g] = "send" /\ ready' = ready
      BY <1>5 DEF SendLobbyReady, Up
  <2>2. AttemptFirst(g)' /\ LobbyOnce(g)' /\ ReadyBehind(g)' /\ TurnsCarried(g)'
      BY <1>1, <2>1
      DEF AttemptFirst, LobbyOnce, ReadyBehind, TurnsCarried, Running
  <2>3. QueuedClass(g)'
    <3>1. \/ inbox' = inbox
          \/ \E packet \in Packet : /\ Post(packet) /\ packet.guid = g
                                    /\ packet.id = "LOBBY_READY" =>
                                         packet.class = c_playerClass[g]
      <4>1. Client(g)
          BY DEF Client
      <4>. QED
          BY <4>1, ClientFrame
    <3>. QED
        BY <1>2, <2>1, <3>1, QueueGrows, QueueShrinks
  <2>4. SameClass(g)'
      BY <1>1, <2>1, <2>3 DEF SameClass
  <2>. QED
      BY <2>2, <2>4
<1>. QED
    BY <1>3, <1>4, <1>5 DEF InputHandler

\* The thread of PacketHandler.
LEMMA PacketHandlerKeeps ==
    ASSUME SystemInv, NEW g \in Guids, ClientPacketHandler(g)
    PROVE  ClientInv(g)'
<1>. USE DEF SystemInv, ClientInv, SystemTypeOK, Goes
<1>1. /\ UNCHANGED <<m_class, failure>>
      /\ \/ inbox' = inbox
         \/ \E packet \in Packet : /\ Post(packet) /\ packet.guid = g
                                   /\ packet.id = "LOBBY_READY" =>
                                        packet.class = c_playerClass[g]
  <2>1. Client(g)
      BY DEF Client
  <2>. QED
      BY <2>1, ClientFrame
<1>2. /\ inbox \in Seq(Packet) /\ QueuedClass(g)
      /\ yourTurn \in [Guids -> Seq(SUBSET Slots)] /\ yourTurn[g] \in Seq(SUBSET Slots)
      /\ c_inbox[g] \in Seq(Message) /\ Welcomes(c_inbox[g], c_networkState[g])
    BY DEF SameClass, LobbyOnce, GameInv, SafeInv, TypeInv, TypeOK
<1>3. CASE StoreAddress(g) \/ ChooseAttack(g)
  <2>1. /\ UNCHANGED <<vars, c_networkState, c_attempt, c_inputPc, c_playerClass,
                       c_inbox, c_failed>>
        /\ connected' = connected /\ launched' = launched /\ ready' = ready
        /\ yourTurn' = yourTurn /\ inbox' = inbox
      BY <1>3 DEF StoreAddress, ChooseAttack, vars, clientVars
  <2>2. QueuedClass(g)'
      BY <1>2, <2>1, QueueShrinks
  <2>. QED
      BY <1>1, <2>1, <2>2, ClientStays
<1>4. ASSUME Done(g), c_inbox[g] # << >>,
             UNCHANGED <<c_attempt, c_inputPc, c_playerClass, c_failed, connected,
                         launched, ready>>,
             c_networkState'[g] # "NS_Init", c_attempt[g] = "settled",
             c_inputPc[g] = "poll" \/ c_networkState'[g] \notin {"NS_Init", "NS_Started"},
             g \in ready =>
                 c_inputPc[g] = "wait"
                 \/ c_networkState'[g] \notin {"NS_Init", "NS_Started", "NS_Lobby"},
             TurnsCarried(g)'
      PROVE  ClientInv(g)'
  <2>1. c_inbox'[g] = Tail(c_inbox[g])
      BY <1>4 DEF Done
  <2>2. Welcomes(c_inbox'[g], c_networkState'[g])
      BY <1>2, <1>4, <2>1, WelcomesAll
  <2>3. AttemptFirst(g)' /\ LobbyOnce(g)' /\ ReadyBehind(g)'
      BY <1>4, <2>2 DEF AttemptFirst, LobbyOnce, ReadyBehind
  <2>4. SameClass(g)'
      BY <1>1, <1>2, <1>4, QueueGrows, QueueShrinks DEF SameClass
  <2>. QED
      BY <1>4, <2>3, <2>4
<1>5. ASSUME NEW id, InHand(g, id)
      PROVE  /\ c_attempt[g] = "settled" /\ c_inbox[g] # << >>
             /\ id = "CONNECTION_REQUEST_ACCEPTED" => c_networkState[g] = "NS_Started"
             /\ Running /\ g \in connected /\ id # "YOUR_TURN"
                   => Carries(Tail(c_inbox[g]), yourTurn[g])
             /\ Running /\ g \in connected /\ id = "YOUR_TURN"
                   => Carries(Tail(c_inbox[g]), Tail(yourTurn[g])) /\ yourTurn[g] # << >>
  <2>1. c_inbox[g] # << >> /\ c_attempt[g] = "settled" /\ Head(c_inbox[g]).id = id
      BY <1>5 DEF InHand, AttemptFirst
  <2>2. 1 \in DOMAIN c_inbox[g] /\ Head(c_inbox[g]) = c_inbox[g][1]
      BY <1>2, <2>1, HeadTailProperties, LenProperties
  <2>3. id = "CONNECTION_REQUEST_ACCEPTED" => c_networkState[g] = "NS_Started"
      BY <1>2, <2>1, <2>2 DEF Welcomes
  <2>. QED
      BY <1>2, <2>1, <2>3, TailCarried DEF TurnsCarried
<1>6. CASE OnConnectionAccepted(g) \/ OnGameStarted(g) \/ OnGameOver(g)
  <2>1. PICK id : /\ InHand(g, id) /\ id # "YOUR_TURN" /\ Done(g)
                  /\ c_networkState'[g] \in {"NS_Lobby", "NS_GameStarted", "NS_GameOver"}
                  /\ c_networkState'[g] = "NS_Lobby"
                        => id = "CONNECTION_REQUEST_ACCEPTED"
                  /\ UNCHANGED <<vars, c_attempt, c_inputPc, c_playerClass, c_failed>>
      BY <1>6 DEF OnConnectionAccepted, OnGameStarted, OnGameOver, Enter, Handle
  <2>2. /\ connected' = connected /\ launched' = launched /\ ready' = ready
        /\ yourTurn' = yourTurn /\ inbox' = inbox
      BY <2>1 DEF vars, clientVars
  <2>3. TurnsCarried(g)'
    <3>1. c_inbox'[g] = Tail(c_inbox[g])
        BY <2>1 DEF Done
    <3>. QED
        BY <1>1, <1>5, <2>1, <2>2, <3>1 DEF TurnsCarried, Running
  <2>4. c_networkState'[g] = "NS_Lobby" => g \notin ready
      BY <1>5, <2>1 DEF ReadyBehind, LobbyOnce
  <2>. QED
      BY <1>4, <1>5, <2>1, <2>2, <2>3, <2>4
<1>7. CASE ChooseTarget(g) \/ ChooseDefend(g) \/ ChooseHeal(g)
  <2>1. InHand(g, "YOUR_TURN") /\ \E packet : Answer(g, packet)
      BY <1>7 DEF ChooseTarget, ChooseDefend, ChooseHeal
  <2>2. /\ Done(g)
        /\ UNCHANGED <<c_networkState, c_attempt, c_inputPc, c_playerClass, c_failed,
                       connected, launched, ready>>
        /\ IF Running /\ g \in connected
           THEN yourTurn' = [yourTurn EXCEPT ![g] = Tail(@)]
           ELSE yourTurn' = yourTurn
      BY <2>1 DEF Answer, Reaches
  <2>3. TurnsCarried(g)'
    <3>1. c_inbox'[g] = Tail(c_inbox[g])
        BY <2>2 DEF Done
    <3>2. CASE Running /\ g \in connected
      <4>1. yourTurn'[g] = Tail(yourTurn[g]) /\ yourTurn[g] # << >>
          BY <1>2, <1>5, <2>1, <2>2, <3>2
      <4>2. Carries(c_inbox'[g], yourTurn'[g])
          BY <1>5, <2>1, <3>1, <3>2, <4>1
      <4>3. m_class'[g] # NoClass
          BY <1>1, <4>1 DEF TurnsCarried
      <4>. QED
          BY <4>2, <4>3 DEF TurnsCarried
    <3>3. CASE ~(Running /\ g \in connected)
        BY <1>1, <2>2, <3>3 DEF TurnsCarried, Running
    <3>. QED
        BY <3>2, <3>3
  <2>4. /\ c_networkState[g] # "NS_Init"
        /\ c_inputPc[g] = "poll" \/ c_networkState[g] \notin {"NS_Init", "NS_Started"}
        /\ g \in ready =>
               c_inputPc[g] = "wait"
               \/ c_networkState[g] \notin {"NS_Init", "NS_Started", "NS_Lobby"}
      BY <1>5, <2>1 DEF AttemptFirst, LobbyOnce, ReadyBehind
  <2>. QED
      BY <1>4, <1>5, <2>1, <2>2, <2>3, <2>4
<1>. QED
    BY <1>3, <1>6, <1>7 DEF ClientPacketHandler

\* RakNet, when it settles the attempt to connect and when it gives up.
LEMMA ConnectionKeeps ==
    ASSUME SystemInv, NEW g \in Guids, RakNet(g) \/ LoseConnection(g)
    PROVE  ClientInv(g)'
<1>. USE DEF SystemInv, ClientInv, SystemTypeOK, Goes
<1>1. /\ UNCHANGED <<m_class, failure>>
      /\ \/ inbox' = inbox
         \/ \E packet \in Packet : /\ Post(packet) /\ packet.guid = g
                                   /\ packet.id = "LOBBY_READY" =>
                                        packet.class = c_playerClass[g]
  <2>1. Client(g) \/ LoseConnection(g)
      BY DEF Client
  <2>. QED
      BY <2>1, ClientFrame
<1>2. /\ inbox \in Seq(Packet) /\ QueuedClass(g)
      /\ c_inbox[g] \in Seq(Message) /\ Welcomes(c_inbox[g], c_networkState[g])
      /\ yourTurn \in [Guids -> Seq(SUBSET Slots)]
    BY DEF SameClass, LobbyOnce, GameInv, SafeInv, TypeInv, TypeOK
<1>3. UNCHANGED <<c_networkState, c_inputPc, c_playerClass, c_failed, ready>>
    BY DEF RakNet, LoseConnection, AcceptAttempt, RefuseAttempt, Lose, processVars,
           vars, clientVars
<1>4. ReadyBehind(g)' /\ SameClass(g)'
    BY <1>1, <1>2, <1>3, QueueGrows, QueueShrinks DEF ReadyBehind, SameClass
<1>5. CASE RakNet(g)
  <2>1. /\ c_attempt[g] = "pending" /\ c_attempt'[g] = "settled"
        /\ c_networkState[g] = "NS_Started" /\ c_inbox[g] = << >>
        /\ g \notin launched \cup connected
      BY <1>5 DEF RakNet, AttemptFirst
  <2>2. yourTurn[g] = << >>
    <3>1. g \notin ready
        BY <2>1 DEF ReadyBehind, LobbyOnce
    <3>2. m_class[g] = NoClass
        BY <3>1 DEF GameInv, SafeInv, ReadyOnce
    <3>. QED
        BY <3>2 DEF TurnsCarried
  <2>3. AttemptFirst(g)'
      BY <1>3, <2>1 DEF AttemptFirst
  <2>4. CASE AcceptAttempt(g)
    <3>. DEFINE message == [id |-> "CONNECTION_REQUEST_ACCEPTED"]
    <3>1. message \in Message /\ message.id # "YOUR_TURN"
        BY DEF Message
    <3>2. c_inbox'[g] = Append(c_inbox[g], message) /\ yourTurn' = yourTurn
        BY <2>4 DEF AcceptAttempt
    <3>. HIDE DEF message
    <3>3. Carries(c_inbox'[g], yourTurn'[g])
      <4>1. Carries(c_inbox[g], yourTurn[g])
          BY <2>1, <2>2, NothingCarried
      <4>. QED
          BY <1>2, <3>1, <3>2, <4>1, AppendCarried
    <3>4. Welcomes(c_inbox'[g], c_networkState'[g])
      <4>1. Welcomes(Append(c_inbox[g], message), c_networkState[g])
          BY <1>2, <2>1, <3>1, WelcomesAll
      <4>. QED
          BY <1>3, <3>2, <4>1
    <3>. QED
        BY <1>3, <1>4, <2>2, <2>3, <3>2, <3>3, <3>4 DEF LobbyOnce, TurnsCarried
  <2>5. CASE RefuseAttempt(g)
    <3>1. connected' = connected /\ yourTurn' = yourTurn /\ c_inbox' = c_inbox
        BY <2>5 DEF RefuseAttempt, vars, clientVars
    <3>. QED
        BY <1>2, <1>3, <1>4, <2>1, <2>2, <2>3, <3>1 DEF LobbyOnce, TurnsCarried
  <2>. QED
      BY <1>5, <2>4, <2>5 DEF RakNet
<1>6. CASE LoseConnection(g)
  <2>1. /\ c_attempt' = c_attempt /\ launched' = launched
        /\ g \in connected /\ g \notin connected' /\ connected' \subseteq connected
        /\ yourTurn'[g] = << >>
        /\ \E n \in 0 .. Len(c_inbox[g]) : c_inbox'[g] = SubSeq(c_inbox[g], 1, n)
      BY <1>2, <1>6 DEF LoseConnection, Lose, processVars
  <2>2. AttemptFirst(g)'
      BY <1>3, <2>1 DEF AttemptFirst
  <2>3. LobbyOnce(g)'
      BY <1>2, <1>3, <2>1, WelcomesAll DEF LobbyOnce
  <2>4. TurnsCarried(g)'
      BY <2>1 DEF TurnsCarried
  <2>. QED
      BY <1>4, <2>2, <2>3, <2>4
<1>. QED
    BY <1>5, <1>6

\* The variables of the clients keep their types.
LEMMA ClientsTyped ==
    ASSUME SystemInv, NEW g \in Guids, Client(g) \/ LoseConnection(g)
    PROVE  SystemTypeOK'
<1>. USE DEF SystemTypeOK, Goes, ClientStates
<1>. SUFFICES ASSUME SystemTypeOK PROVE SystemTypeOK'
    BY Zenon DEF SystemInv
<1>1. c_inbox[g] \in Seq(Message)
    OBVIOUS
<1>2. c_inbox[g] # << >> => Tail(c_inbox[g]) \in Seq(Message)
    BY <1>1, HeadTailProperties
<1>3. CASE ClientMain(g)
    BY <1>3 DEF ClientMain
<1>4. CASE SeeLobby(g) \/ SelectClass(g) \/ WaitForPlayers(g)
  <2>1. CASE SeeLobby(g)
      BY <2>1 DEF SeeLobby
  <2>2. CASE SelectClass(g)
      BY <2>2 DEF SelectClass
  <2>3. CASE WaitForPlayers(g)
      BY <2>3 DEF WaitForPlayers
  <2>. QED
      BY <1>4, <2>1, <2>2, <2>3
<1>5. CASE SendLobbyReady(g)
    BY <1>5 DEF SendLobbyReady
<1>6. CASE OnConnectionAccepted(g) \/ OnGameStarted(g) \/ OnGameOver(g)
  <2>1. c_inbox' \in [Guids -> Seq(Message)]
      BY <1>2, <1>6 DEF OnConnectionAccepted, OnGameStarted, OnGameOver, Enter, Handle,
                        InHand, Done
  <2>2. CASE OnConnectionAccepted(g)
      BY <2>1, <2>2 DEF OnConnectionAccepted
  <2>3. CASE OnGameStarted(g) \/ OnGameOver(g)
      BY <2>1, <2>3 DEF OnGameStarted, OnGameOver, Enter
  <2>. QED
      BY <1>6, <2>2, <2>3
<1>7. CASE StoreAddress(g) \/ ChooseAttack(g)
  <2>1. CASE StoreAddress(g)
      BY <2>1 DEF StoreAddress
  <2>2. CASE ChooseAttack(g)
      BY <2>2 DEF ChooseAttack
  <2>. QED
      BY <1>7, <2>1, <2>2
<1>8. CASE ChooseTarget(g) \/ ChooseDefend(g) \/ ChooseHeal(g)
  <2>1. /\ c_inbox[g] # << >>
        /\ c_packetPc' = c_packetPc \/ c_packetPc' = [c_packetPc EXCEPT ![g] = "receive"]
        /\ \E packet : Answer(g, packet)
      BY <1>8 DEF ChooseTarget, ChooseDefend, ChooseHeal, InHand
  <2>2. /\ UNCHANGED <<c_networkState, c_serverAddress, c_playerClass, c_attempt,
                       c_inputPc, c_failed>>
        /\ Done(g)
      BY <2>1 DEF Answer
  <2>3. c_inbox' \in [Guids -> Seq(Message)]
      BY <1>2, <2>1, <2>2 DEF Done
  <2>4. c_packetPc' \in [Guids -> {"receive", "accepted", "target"}]
      BY <2>1
  <2>. QED
      BY <2>2, <2>3, <2>4
<1>9. CASE RakNet(g)
  <2>1. [id |-> "CONNECTION_REQUEST_ACCEPTED"] \in Message
      BY DEF Message
  <2>2. Append(c_inbox[g], [id |-> "CONNECTION_REQUEST_ACCEPTED"]) \in Seq(Message)
      BY <1>1, <2>1, AppendProperties
  <2>3. c_inbox' \in [Guids -> Seq(Message)]
      BY <1>9, <2>2 DEF RakNet, AcceptAttempt, RefuseAttempt
  <2>. QED
      BY <1>9, <2>3 DEF RakNet
<1>10. CASE LoseConnection(g)
  <2>1. Len(c_inbox[g]) \in Nat
      BY <1>1, LenProperties
  <2>2. \A n \in 0 .. Len(c_inbox[g]) : SubSeq(c_inbox[g], 1, n) \in Seq(Message)
      BY <1>1, <2>1, SubSeqProperties
  <2>. QED
      BY <1>10, <2>2 DEF LoseConnection, processVars
<1>. QED
    BY <1>3, <1>4, <1>5, <1>6, <1>7, <1>8, <1>9, <1>10
    DEF Client, InputHandler, ClientPacketHandler

-----------------------------------------------------------------------------
(* The invariant, and what it is for.                                      *)

LEMMA SystemStarts ==
    ASSUME FewClients, SystemInit
    PROVE  SystemInv
<1>. USE DEF SystemInit
<1>1. GameInv
    BY GameInit
<1>2. SystemTypeOK
    BY EmptySeq DEF SystemTypeOK, ClientStates
<1>3. ASSUME NEW g \in Guids PROVE ClientInv(g)
  <2>1. /\ launched = {} /\ connected = {} /\ ready = {} /\ inbox = << >>
        /\ m_class[g] = NoClass /\ yourTurn[g] = << >>
        /\ DOMAIN << >> = {}
      BY EmptySeq DEF Init
  <2>2. AttemptFirst(g) /\ ReadyBehind(g)
      BY <2>1 DEF AttemptFirst, ReadyBehind
  <2>3. LobbyOnce(g)
      BY <2>1 DEF LobbyOnce, Welcomes
  <2>4. SameClass(g) /\ TurnsCarried(g)
      BY <2>1 DEF SameClass, QueuedClass, TurnsCarried
  <2>. QED
      BY <2>2, <2>3, <2>4 DEF ClientInv
<1>. QED
    BY <1>1, <1>2, <1>3 DEF SystemInv

LEMMA SystemStays ==
    ASSUME SystemInv, [SystemNext]_systemVars
    PROVE  SystemInv'
<1>1. GameInv'
    BY SystemSteps, GameNext DEF SystemInv
<1>2. CASE UNCHANGED systemVars
  <2>1. SystemTypeOK'
      BY <1>2 DEF systemVars, processVars, SystemInv, SystemTypeOK
  <2>2. \A h \in Guids : ClientInv(h)'
    <3>. SUFFICES ASSUME NEW h \in Guids PROVE ClientInv(h)'
        OBVIOUS
    <3>1. QueuedClass(h)'
        BY <1>2 DEF systemVars, processVars, vars, SystemInv, ClientInv, SameClass, QueuedClass
    <3>. QED
        BY <1>2, <3>1, ClientStays
        DEF systemVars, processVars, vars, playerVars, clientVars
  <2>. QED
      BY <1>1, <2>1, <2>2 DEF SystemInv
<1>3. CASE ServerMain \/ ServerPacketThread
    BY <1>1, <1>3, ServerKeeps DEF SystemInv
<1>4. ASSUME NEW g \in Guids, Client(g) \/ LoseConnection(g)
      PROVE  SystemInv'
  <2>1. SystemTypeOK'
      BY <1>4, ClientsTyped
  <2>2. ClientInv(g)'
      BY <1>4, InputKeeps, PacketHandlerKeeps, ConnectionKeeps DEF Client
  <2>3. \A h \in Guids : h # g => ClientInv(h)'
      BY <1>4, OthersKeep
  <2>. QED
      BY <1>1, <2>1, <2>2, <2>3 DEF SystemInv
<1>. QED
    BY <1>2, <1>3, <1>4 DEF SystemNext

LEMMA SystemHolds == FewClients /\ SystemSpec => []SystemInv
<1>1. SystemInv /\ [SystemNext]_systemVars => SystemInv'
    BY SystemStays
<1>2. FewClients /\ SystemInit => SystemInv
    BY SystemStarts
<1>. QED
    BY <1>1, <1>2, PTL DEF SystemSpec

-----------------------------------------------------------------------------
(* The last turn: who is caught in ChooseTarget, and when.                 *)

\* Nobody is left to attack, and nobody will be.
Alone == /\ g_networkState \notin BeforeGame
         /\ g_networkState = "NS_GameStarted" => \A a, b \in Survivors : a = b

\* ChooseTarget reads the targets of the turn in hand.
TurnIsHeld(g) ==
    c_packetPc[g] = "target" => c_inbox[g] # << >> /\ Head(c_inbox[g]).id = "YOUR_TURN"

\* A turn without a target is given to the last survivor only.
EmptyTurn(message) == message.id = "YOUR_TURN" /\ message.targets = {}

LastTurn(g) == (\E i \in DOMAIN c_inbox[g] : EmptyTurn(c_inbox[g][i])) => Alone

EndInv == \A g \in Guids : TurnIsHeld(g) /\ LastTurn(g)

LEMMA AloneStays ==
    ASSUME GameInv, [Next]_vars, Alone
    PROVE  Alone'
<1>1. GameInv' /\ GameStep
    BY GameNext
<1>2. Phase # "lobby"
  <2>1. g_networkState \in NetworkStates
      BY DEF GameInv, SafeInv, TypeInv, TypeOK
  <2>. QED
      BY <2>1 DEF Alone, Phase, NetworkStates, BeforeGame
<1>3. \/ Phase' = Phase /\ Alive' \subseteq Alive
      \/ Phase' = "over"
    BY <1>1, <1>2 DEF GameStep, Game!Next, Game!Begin, Game!End, Game!Join, Game!Leave,
                      Game!Fall, Phase, Alive
<1>4. g_networkState' \notin BeforeGame
    BY <1>2, <1>3 DEF Phase, BeforeGame
<1>5. ASSUME g_networkState' = "NS_GameStarted"
      PROVE  \A a, b \in Survivors' : a = b
  <2>1. Phase' = "playing"
      BY <1>5 DEF Phase
  <2>2. g_networkState = "NS_GameStarted" /\ Alive' \subseteq Alive
      BY <1>3, <2>1 DEF Phase
  <2>3. Alive = Survivors
      BY <2>2, AliveSurvive DEF GameInv
  <2>4. Survivors' \subseteq Alive'
      BY DEF Survivors, Alive
  <2>. QED
      BY <2>2, <2>3, <2>4 DEF Alone
<1>. QED
    BY <1>4, <1>5 DEF Alone

\* The targets of a turn are the other survivors.
LEMMA EmptyTurnIsLast ==
    ASSUME GameInv, g_networkState \notin BeforeGame,
           {m_number[playersIDs[s]] : s \in ConnectedSlots} \ {lastPlayerTurn} = {}
    PROVE  Alone
<1>1. \A a \in Survivors : /\ m_number[a] \in ConnectedSlots
                           /\ playersIDs[m_number[a]] = a
    BY DEF GameInv, PartyInv, SlotsMatchPlayers, Survivors, ConnectedSlots
<1>2. \A a \in Survivors : m_number[a] = lastPlayerTurn
    BY <1>1
<1>. QED
    BY <1>1, <1>2 DEF Alone

\* What may happen to the queue and the packet thread of a client.
Forwarded(h) ==
    \/ /\ c_inbox'[h] = c_inbox[h]
       /\ c_packetPc'[h] = "target" => c_packetPc[h] = "target" \/ InHand(h, "YOUR_TURN")
    \/ /\ \E message \in Message : /\ c_inbox'[h] = Append(c_inbox[h], message)
                                   /\ EmptyTurn(message) => Alone
       /\ c_packetPc'[h] = c_packetPc[h]
    \/ /\ c_inbox[h] # << >> /\ c_inbox'[h] = Tail(c_inbox[h])
       /\ c_packetPc'[h] # "target"
    \/ /\ \E n \in 0 .. Len(c_inbox[h]) :
             /\ c_packetPc[h] = "target" => n > 0
             /\ c_inbox'[h] = SubSeq(c_inbox[h], 1, n)
       /\ c_packetPc'[h] = c_packetPc[h]

LEMMA ForwardedKeeps ==
    ASSUME SystemInv, EndInv, Alone => Alone', NEW h \in Guids, Forwarded(h)
    PROVE  (TurnIsHeld(h) /\ LastTurn(h))'
<1>1. c_inbox[h] \in Seq(Message) /\ TurnIsHeld(h) /\ LastTurn(h)
    BY DEF SystemInv, SystemTypeOK, EndInv
<1>2. CASE /\ c_inbox'[h] = c_inbox[h]
           /\ c_packetPc'[h] = "target" => c_packetPc[h] = "target" \/ InHand(h, "YOUR_TURN")
    BY <1>1, <1>2 DEF TurnIsHeld, LastTurn, InHand
<1>3. ASSUME NEW message \in Message, c_inbox'[h] = Append(c_inbox[h], message),
             EmptyTurn(message) => Alone, c_packetPc'[h] = c_packetPc[h]
      PROVE  (TurnIsHeld(h) /\ LastTurn(h))'
  <2>1. \A i \in DOMAIN c_inbox'[h] : \/ i \in DOMAIN c_inbox[h]
                                         /\ c_inbox'[h][i] = c_inbox[h][i]
                                      \/ c_inbox'[h][i] = message
      BY <1>1, <1>3, AppendProperties
  <2>2. c_inbox[h] # << >> => c_inbox'[h] # << >> /\ Head(c_inbox'[h]) = Head(c_inbox[h])
      BY <1>1, <1>3, AppendProperties, HeadTailProperties, LenProperties
  <2>. QED
      BY <1>1, <1>3, <2>1, <2>2 DEF TurnIsHeld, LastTurn
<1>4. CASE /\ c_inbox[h] # << >> /\ c_inbox'[h] = Tail(c_inbox[h])
           /\ c_packetPc'[h] # "target"
  <2>1. \A i \in DOMAIN c_inbox'[h] : /\ i + 1 \in DOMAIN c_inbox[h]
                                      /\ c_inbox'[h][i] = c_inbox[h][i + 1]
      BY <1>1, <1>4, HeadTailProperties, LenProperties
  <2>. QED
      BY <1>1, <1>4, <2>1 DEF TurnIsHeld, LastTurn
<1>5. ASSUME NEW n \in 0 .. Len(c_inbox[h]), c_packetPc[h] = "target" => n > 0,
             c_inbox'[h] = SubSeq(c_inbox[h], 1, n), c_packetPc'[h] = c_packetPc[h]
      PROVE  (TurnIsHeld(h) /\ LastTurn(h))'
  <2>1. /\ Len(c_inbox[h]) \in Nat /\ DOMAIN c_inbox[h] = 1 .. Len(c_inbox[h])
        /\ c_inbox'[h] \in Seq(Message) /\ Len(c_inbox'[h]) = n
        /\ \A i \in 1 .. n : c_inbox'[h][i] = c_inbox[h][i]
      BY <1>1, <1>5, LenProperties, SubSeqProperties
  <2>2. \A i \in DOMAIN c_inbox'[h] : i \in DOMAIN c_inbox[h]
                                      /\ c_inbox'[h][i] = c_inbox[h][i]
      BY <2>1, LenProperties
  <2>3. n > 0 => c_inbox'[h] # << >> /\ Head(c_inbox'[h]) = Head(c_inbox[h])
    <3>. SUFFICES ASSUME n > 0
                  PROVE  c_inbox'[h] # << >> /\ Head(c_inbox'[h]) = Head(c_inbox[h])
        OBVIOUS
    <3>1. c_inbox'[h] # << >> /\ c_inbox[h] # << >> /\ 1 \in 1 .. n
        BY <2>1, EmptySeq
    <3>. QED
        BY <1>1, <2>1, <3>1, HeadTailProperties
  <2>. QED
      BY <1>1, <1>5, <2>2, <2>3 DEF TurnIsHeld, LastTurn
<1>. QED
    BY <1>2, <1>3, <1>4, <1>5 DEF Forwarded

\* Every step forwards, to every client.
LEMMA ServerForwards ==
    ASSUME SystemInv, ServerMain \/ ServerPacketThread, NEW h \in Guids
    PROVE  Forwarded(h)
<1>1. c_packetPc' = c_packetPc
    BY Zenon DEF ServerMain, ServerPacketThread, processVars
<1>2. CASE \/ UNCHANGED c_inbox
           \/ \E id \in {"THEGAME_START", "THEGAME_OVER"} : Broadcast(id)
  <2>1. \A id \in {"THEGAME_START", "THEGAME_OVER"} :
            [id |-> id] \in Message /\ ~EmptyTurn([id |-> id])
      BY DEF Message, EmptyTurn
  <2>2. \/ c_inbox'[h] = c_inbox[h]
        \/ \E id \in {"THEGAME_START", "THEGAME_OVER"} :
              c_inbox'[h] = Append(c_inbox[h], [id |-> id])
      BY <1>2 DEF Broadcast
  <2>. QED
      BY <1>1, <2>1, <2>2 DEF Forwarded
<1>3. CASE SendYourTurn
  <2>1. MainYourTurn /\ yourTurn[h] \in Seq(SUBSET Slots)
      BY <1>3 DEF SendYourTurn, SystemInv, GameInv, SafeInv, TypeInv, TypeOK
  <2>. DEFINE targets == {m_number[playersIDs[s]] : s \in ConnectedSlots}
                             \ {lastPlayerTurn}
              message == [id |-> "YOUR_TURN", targets |-> targets]
  <2>2. targets \in SUBSET Slots
      BY ListedTyped DEF SystemInv, GameInv, SafeInv, TypeInv
  <2>3. \/ yourTurn'[h] = yourTurn[h]
        \/ yourTurn'[h] = Append(yourTurn[h], targets)
    <3>1. yourTurn \in [Guids -> Seq(SUBSET Slots)]
        BY DEF SystemInv, GameInv, SafeInv, TypeInv, TypeOK
    <3>2. \/ yourTurn' = yourTurn
          \/ \E player : yourTurn' = [yourTurn EXCEPT ![player] = Append(@, targets)]
        BY <2>1 DEF MainYourTurn, YourTurn, GetPlayers, Abort, clientVars
    <3>. HIDE DEF targets
    <3>. QED
        BY <3>1, <3>2
  <2>4. EmptyTurn(message) => Alone
    <3>1. g_networkState \notin BeforeGame
        BY <2>1 DEF MainYourTurn, SystemInv, GameInv, SafeInv, LobbyIsPeaceful
    <3>. QED
        BY <3>1, EmptyTurnIsLast DEF SystemInv, EmptyTurn
  <2>5. message \in Message
      BY <2>2 DEF Message
  <2>. HIDE DEF targets
  <2>6. CASE yourTurn'[h] = yourTurn[h]
    <3>1. c_inbox'[h] = c_inbox[h]
        BY <1>3, <2>6 DEF SendYourTurn
    <3>. QED
        BY <1>1, <3>1 DEF Forwarded
  <2>7. CASE yourTurn'[h] = Append(yourTurn[h], targets)
    <3>1. /\ Len(yourTurn'[h]) = Len(yourTurn[h]) + 1
          /\ yourTurn'[h][Len(yourTurn[h]) + 1] = targets
        BY <2>1, <2>2, <2>7, AppendProperties
    <3>2. Len(yourTurn[h]) \in Nat
        BY <2>1, LenProperties
    <3>3. c_inbox'[h] = Append(c_inbox[h], message)
        BY <1>3, <3>1, <3>2 DEF SendYourTurn
    <3>. HIDE DEF message
    <3>. QED
        BY <1>1, <2>4, <2>5, <3>3 DEF Forwarded
  <2>. QED
      BY <2>3, <2>6, <2>7
<1>. QED
    BY <1>2, <1>3 DEF ServerMain, SilentMain, ServerPacketThread, SilentPacketThread,
                      SendGameStart, SendGameOver

LEMMA ClientForwards ==
    ASSUME SystemInv, NEW g \in Guids, Client(g) \/ LoseConnection(g), NEW h \in Guids
    PROVE  Forwarded(h)
<1>1. /\ c_inbox \in [Guids -> Seq(Message)]
      /\ c_packetPc \in [Guids -> {"receive", "accepted", "target"}]
    BY DEF SystemInv, SystemTypeOK
<1>2. CASE ClientMain(g) \/ InputHandler(g)
  <2>1. UNCHANGED <<c_inbox, c_packetPc>>
      BY <1>2, Zenon DEF ClientMain, InputHandler, SeeLobby, SelectClass, SendLobbyReady,
                         WaitForPlayers
  <2>. QED
      BY <2>1 DEF Forwarded
<1>3. CASE StoreAddress(g) \/ ChooseAttack(g)
  <2>1. /\ c_inbox' = c_inbox
        /\ \/ c_packetPc' = [c_packetPc EXCEPT ![g] = "receive"]
           \/ /\ InHand(g, "YOUR_TURN")
              /\ c_packetPc' = [c_packetPc EXCEPT ![g] = "target"]
      BY <1>3 DEF StoreAddress, ChooseAttack, Goes
  <2>. QED
      BY <1>1, <2>1 DEF Forwarded
<1>4. ASSUME c_inbox[g] # << >>, Done(g),
             \/ c_packetPc' = c_packetPc /\ c_packetPc[g] = "receive"
             \/ \E pc \in {"receive", "accepted"} :
                   c_packetPc' = [c_packetPc EXCEPT ![g] = pc]
      PROVE  Forwarded(h)
  <2>1. CASE h = g
      BY <1>1, <1>4, <2>1 DEF Done, Forwarded
  <2>2. CASE h # g
      BY <1>1, <1>4, <2>2 DEF Done, Forwarded
  <2>. QED
      BY <2>1, <2>2
<1>5. CASE OnConnectionAccepted(g) \/ OnGameStarted(g) \/ OnGameOver(g)
    BY <1>4, <1>5 DEF OnConnectionAccepted, OnGameStarted, OnGameOver, Enter, Handle, InHand
<1>6. CASE ChooseTarget(g) \/ ChooseDefend(g) \/ ChooseHeal(g)
  <2>1. \A packet : Answer(g, packet) => Done(g)
      BY DEF Answer
  <2>. QED
      BY <1>4, <1>6, <2>1 DEF ChooseTarget, ChooseDefend, ChooseHeal, InHand, Goes
<1>7. CASE RakNet(g)
  <2>. DEFINE message == [id |-> "CONNECTION_REQUEST_ACCEPTED"]
  <2>1. message \in Message /\ ~EmptyTurn(message)
      BY DEF Message, EmptyTurn
  <2>2. /\ c_packetPc' = c_packetPc
        /\ \/ c_inbox' = c_inbox
           \/ c_inbox' = [c_inbox EXCEPT ![g] = Append(@, message)]
      BY <1>7 DEF RakNet, AcceptAttempt, RefuseAttempt
  <2>. HIDE DEF message
  <2>3. c_inbox'[h] = c_inbox[h] \/ c_inbox'[h] = Append(c_inbox[h], message)
      BY <1>1, <2>2
  <2>. QED
      BY <2>1, <2>2, <2>3 DEF Forwarded
<1>8. CASE LoseConnection(g)
  <2>1. /\ c_packetPc' = c_packetPc
        /\ \E n \in 0 .. Len(c_inbox[g]) :
              /\ c_packetPc[g] = "target" => n > 0
              /\ c_inbox' = [c_inbox EXCEPT ![g] = SubSeq(@, 1, n)]
      BY <1>8 DEF LoseConnection, processVars
  <2>2. CASE h = g
      BY <1>1, <2>1, <2>2 DEF Forwarded
  <2>3. CASE h # g
      BY <1>1, <2>1, <2>3 DEF Forwarded
  <2>. QED
      BY <2>2, <2>3
<1>. QED
    BY <1>2, <1>3, <1>5, <1>6, <1>7, <1>8 DEF Client, ClientPacketHandler

LEMMA EndNext ==
    ASSUME SystemInv, EndInv, [SystemNext]_systemVars
    PROVE  EndInv'
<1>1. Alone => Alone'
    BY SystemSteps, AloneStays DEF SystemInv
<1>2. \A h \in Guids : Forwarded(h)
  <2>1. CASE UNCHANGED systemVars
      BY <2>1 DEF systemVars, processVars, Forwarded
  <2>2. CASE ServerMain \/ ServerPacketThread
      BY <2>2, ServerForwards
  <2>3. CASE \E g \in Guids : Client(g) \/ LoseConnection(g)
      BY <2>3, ClientForwards
  <2>. QED
      BY <2>1, <2>2, <2>3 DEF SystemNext
<1>. QED
    BY <1>1, <1>2, ForwardedKeeps DEF EndInv

LEMMA EndHolds == FewClients /\ SystemSpec => []EndInv
<1>1. SystemInit => EndInv
    BY EmptySeq DEF SystemInit, EndInv, TurnIsHeld, LastTurn
<1>2. SystemInv /\ EndInv /\ [SystemNext]_systemVars => EndInv'
    BY EndNext
<1>. QED
    BY <1>1, <1>2, SystemHolds, PTL DEF SystemSpec

-----------------------------------------------------------------------------
(* The theorems.                                                           *)

\* What InputHandler, PacketHandler and the thread of main of a client share
\* keeps to its states (g_networkState, playerClass, g_serverAddress).
THEOREM SystemTypeCorrect == FewClients /\ SystemSpec => []SystemTypeOK
<1>1. SystemInv => SystemTypeOK
    BY DEF SystemInv
<1>. QED
    BY <1>1, SystemHolds, PTL

\* The real clients are the environment the theorems about the server assume:
\* each connects once, is ready once although WaitForPlayers may overwrite what
\* OnGameStarted has stored, and answers its turns one by one, in order, with
\* the targets of that very turn and an action of the class the server has.
THEOREM ClientsAreEnvironment == FewClients /\ SystemSpec => ServerAssumptionsHold
<1>1. SystemInv /\ [SystemNext]_systemVars => [Next]_vars
    BY SystemSteps
<1>2. SystemInit => Init
    BY DEF SystemInit
<1>. QED
    BY <1>1, <1>2, SystemHolds, PTL DEF SystemSpec, ServerAssumptionsHold, Spec

\* When the Send of LOBBY_READY fails for want of an address, the server has
\* not counted on the client yet: it has given it no class and no turn.
THEOREM ClientsFailInLobby == FewClients /\ SystemSpec => []ClientFailsOnlyInLobby
<1>1. ASSUME SystemInv PROVE ClientFailsOnlyInLobby
  <2>. SUFFICES ASSUME NEW g \in c_failed
                PROVE  g \notin ready /\ m_class[g] = NoClass /\ yourTurn[g] = << >>
      BY DEF ClientFailsOnlyInLobby
  <2>1. g \in Guids /\ ReadyBehind(g) /\ TurnsCarried(g)
      BY <1>1 DEF SystemInv, SystemTypeOK, ClientInv
  <2>2. g \notin ready
      BY <2>1 DEF ReadyBehind
  <2>3. m_class[g] = NoClass
      BY <1>1, <2>1, <2>2 DEF SystemInv, GameInv, SafeInv, ReadyOnce
  <2>. QED
      BY <2>1, <2>2, <2>3 DEF TurnsCarried
<1>. QED
    BY <1>1, SystemHolds, PTL

\* ChooseTarget never returns from an empty list: that catches a player at the
\* end of the game only, when the game is over or IsGameOver is on its way to
\* find that out, and never while there is somebody to play against.
THEOREM CaughtAtTheEnd == FewClients /\ SystemSpec => []StuckOnlyAtTheEnd
<1>1. ASSUME SystemInv, EndInv PROVE StuckOnlyAtTheEnd
  <2>. SUFFICES ASSUME NEW g \in Guids, c_packetPc[g] = "target",
                       Head(c_inbox[g]).targets = {}
                PROVE  g_networkState = "NS_GameOver" \/ packetPc # "receive"
      BY DEF StuckOnlyAtTheEnd
  <2>1. c_inbox[g] \in Seq(Message) /\ c_inbox[g] # << >>
        /\ EmptyTurn(Head(c_inbox[g]))
      BY <1>1 DEF SystemInv, SystemTypeOK, EndInv, TurnIsHeld, EmptyTurn
  <2>2. 1 \in DOMAIN c_inbox[g] /\ Head(c_inbox[g]) = c_inbox[g][1]
      BY <2>1, HeadTailProperties, LenProperties
  <2>3. Alone
      BY <1>1, <2>1, <2>2 DEF EndInv, LastTurn
  <2>4. g_networkState \in {"NS_GameStarted", "NS_GameOver"}
      BY <1>1, <2>3 DEF SystemInv, GameInv, SafeInv, TypeInv, TypeOK, NetworkStates,
                        BeforeGame, Alone
  <2>5. CASE g_networkState = "NS_GameStarted"
    <3>1. PICK a \in Survivors : Survivors = {a}
        BY <1>1, <2>3, <2>5 DEF SystemInv, GameInv, PartyInv, Opponents, Alone
    <3>2. Cardinality(Survivors) = 1
        BY <3>1, FS_Singleton
    <3>. QED
        BY <1>1, <2>5, <3>2 DEF SystemInv, GameInv, PartyInv, Opponents
  <2>. QED
      BY <2>4, <2>5
<1>. QED
    BY <1>1, SystemHolds, EndHolds, PTL

\* The server and its real clients play the game their players know.
THEOREM SystemPlaysGame == FewClients /\ SystemSpec => ImplementsTurnGame
BY ClientsAreEnvironment, GameIsPromised, PTL DEF ServerAssumptionsHold
=============================================================================
