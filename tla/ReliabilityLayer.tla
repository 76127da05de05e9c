--------------------------- MODULE ReliabilityLayer ---------------------------
(***************************************************************************)
(* The reliability layer under every message of the game (ReliabilityLayer *)
(* .cpp): what one peer, the sender, does to get its RELIABLE_ORDERED      *)
(* messages to the other, the receiver, over a network that loses,         *)
(* duplicates and reorders. Each handler and each Update runs in the       *)
(* network thread of its peer and is one action.                           *)
(*                                                                         *)
(* Every number is a uint24_t and wraps. A connection begins at 0; Starts  *)
(* has it also in the state a longer life has brought it to, with as many  *)
(* datagrams and messages behind it and all of them acknowledged.          *)
(*                                                                         *)
(* Messages have one size and are not split. Timers are not modelled: a    *)
(* packet may be due again at any Update. This is all that a NAK could do, *)
(* whose handler (807-857) only sets timers, and so NAKs are left out.     *)
(***************************************************************************)
EXTENDS RangeList, FiniteSets

CONSTANTS
    RESEND_BUFFER_ARRAY_LENGTH,        \* a power of two
    DATAGRAM_MESSAGE_ID_ARRAY_LENGTH,
    PerDatagram,                       \* messages that fit in a datagram
    Starts,                            \* where the numbers of a connection begin
    MaxMessages,                       \* bound: calls of Send
    MaxDatagrams,                      \* bound: data datagrams
    MaxAcks,                           \* bound: different packets of acks
    MaxRanges                          \* bound: ranges waiting for SendACKs

\* The largest hole count that is believed.
MaxHole == 1000000

ASSUME LayerAssumption ==
    /\ {RESEND_BUFFER_ARRAY_LENGTH, DATAGRAM_MESSAGE_ID_ARRAY_LENGTH,
        PerDatagram} \subseteq Nat \ {0}
    /\ Modulus % RESEND_BUFFER_ARRAY_LENGTH = 0
    /\ RESEND_BUFFER_ARRAY_LENGTH <= MaxHole
    /\ \A s \in Starts : s = 0 \/ s \in DATAGRAM_MESSAGE_ID_ARRAY_LENGTH + 1 .. Modulus - 1
    /\ {MaxMessages, MaxDatagrams, MaxAcks, MaxRanges} \subseteq Nat

VARIABLES
    start,             \* the number the modelled part of its life begins with
    sent,              \* how many messages were passed to Send
    orderedWriteIndex,
    outgoing,          \* outgoingPacketBuffer
    sendReliableMessageNumberIndex,
    resendBuffer,      \* the packets sent and not acknowledged, by slot
    resendList,        \* the same, in the order they will be sent again
    datagramHistory,   \* the messages each of the last datagrams carried
    datagramHistoryPopCount,
    deadConnection,    \* the sender has given the connection up
    receiver,          \* the receiving layer
    acknowlegements,   \* the datagrams the receiver has to acknowledge
    datagrams,         \* data datagrams sent, in order: any may arrive, again
    acks               \* packets of acknowledgements sent, likewise

waitingVars == <<sent, orderedWriteIndex, outgoing>>
windowVars == <<sendReliableMessageNumberIndex, resendBuffer, resendList,
                datagramHistory, datagramHistoryPopCount>>
receivingVars == <<receiver, acknowlegements>>
layerVars == <<start, waitingVars, windowVars, deadConnection, receivingVars,
               datagrams, acks>>

Slot == 0 .. RESEND_BUFFER_ARRAY_LENGTH - 1
SlotOf(number) == number % RESEND_BUFFER_ARRAY_LENGTH

\* An InternalPacket: its reliableMessageNumber, its orderingIndex and which
\* of the messages it carries.
Packet == [number : Number, order : Number, message : 1 .. MaxMessages]
NoPacket == [number |-> Modulus, order |-> Modulus, message |-> 0]

\* How many of 1 .. n, from 1 on, are in `places` without a gap.
Leading(n, places) ==
    CHOOSE c \in 0 .. n : 1 .. c \subseteq places /\ (c < n => c + 1 \notin places)

LayerInit ==
    /\ start \in Starts
    /\ sent = 0
    /\ orderedWriteIndex = start
    /\ outgoing = << >>
    /\ sendReliableMessageNumberIndex = start
    /\ resendBuffer = [s \in Slot |-> NoPacket]
    /\ resendList = << >>
    /\ datagramHistory = IF start = 0 THEN << >>
                         ELSE [i \in 1 .. DATAGRAM_MESSAGE_ID_ARRAY_LENGTH + 1 |-> {}]
    /\ datagramHistoryPopCount = start - Len(datagramHistory)
    /\ deadConnection = FALSE
    /\ receiver = [receivedPacketsBaseIndex |-> start,
                   hasReceivedPacketQueue |-> << >>,
                   orderedReadIndex |-> start,
                   heapIndexOffset |-> 0,
                   orderingHeap |-> << >>,
                   outputQueue |-> << >>]
    /\ acknowlegements = << >>
    /\ datagrams = << >>
    /\ acks = {}

-----------------------------------------------------------------------------
(* The sender. *)

\* Send: the message gets its place in the channel, and waits for Update.
Send ==
    /\ sent < MaxMessages
    /\ ~deadConnection
    /\ sent' = sent + 1
    /\ outgoing' = Append(outgoing, [order |-> orderedWriteIndex, message |-> sent + 1])
    /\ orderedWriteIndex' = Plus(orderedWriteIndex, 1)
    /\ UNCHANGED <<start, windowVars, deadConnection, receivingVars, datagrams, acks>>

\* The packets, cut in datagrams.
InDatagrams(packets) ==
    LET cut(d) == d * PerDatagram
    IN  [d \in 1 .. (Len(packets) + PerDatagram - 1) \div PerDatagram |->
            SubSeq(packets, cut(d - 1) + 1,
                   IF cut(d) < Len(packets) THEN cut(d) ELSE Len(packets))]

\* The next n that wait, with the numbers they get.
Numbered(n) ==
    [i \in 1 .. n |-> [number  |-> Plus(sendReliableMessageNumberIndex, i - 1),
                       order   |-> outgoing[i].order,
                       message |-> outgoing[i].message]]

\* Mutant of Room: no slot is ever taken.
EndlessRoom == 0 .. Len(outgoing)

\* How many may leave before ResendBufferOverflow: each finds its slot free.
Room == {n \in 0 .. Len(outgoing) :
            /\ n <= RESEND_BUFFER_ARRAY_LENGTH
            /\ \A i \in 1 .. n : resendBuffer[SlotOf(Numbered(n)[i].number)] = NoPacket}

\* cwnd ends the loop only between two datagrams, and lets one leave when
\* nothing is unacknowledged.
CwndStops(n) == n % PerDatagram = 0 /\ (n = 0 => resendList # << >>)

\* Mutant of AddToDatagramHistory: the number of the oldest node stays.
AddUncounted(leaving) ==
    LET nodes == datagramHistory \o
                    [d \in DOMAIN leaving |-> {leaving[d][i].number : i \in DOMAIN leaving[d]}]
        popped == Len(nodes) - (DATAGRAM_MESSAGE_ID_ARRAY_LENGTH + 1)
    IN  /\ datagramHistory' = IF popped > 0 THEN SubSeq(nodes, popped + 1, Len(nodes))
                                            ELSE nodes
        /\ UNCHANGED datagramHistoryPopCount

\* A node for each datagram that leaves; the oldest make room for them.
AddToDatagramHistory(leaving) ==
    LET nodes == datagramHistory \o
                    [d \in DOMAIN leaving |-> {leaving[d][i].number : i \in DOMAIN leaving[d]}]
        surplus == Len(nodes) - (DATAGRAM_MESSAGE_ID_ARRAY_LENGTH + 1)
        popped == IF surplus > 0 THEN surplus ELSE 0
    IN  /\ datagramHistory' = SubSeq(nodes, popped + 1, Len(nodes))
        /\ datagramHistoryPopCount' = Plus(datagramHistoryPopCount, popped)

\* Update, with data to send: of the resend list the first k are due, and go
\* to its end; n of those that wait leave for the first time.
Update(k, n) ==
    /\ ~deadConnection
    /\ k \in 0 .. Len(resendList)
    /\ n \in Room
    /\ n + 1 \in Room => CwndStops(n)
    /\ LET old == SubSeq(resendList, 1, k)
           new == Numbered(n)
           leaving == InDatagrams(old) \o InDatagrams(new)
       IN  /\ leaving # << >>
           /\ Len(datagrams) + Len(leaving) <= MaxDatagrams
           /\ datagrams' = datagrams \o leaving
           /\ AddToDatagramHistory(leaving)
           /\ resendList' = SubSeq(resendList, k + 1, Len(resendList)) \o old \o new
           /\ resendBuffer' = [s \in Slot |->
                 LET mine == {i \in 1 .. n : SlotOf(new[i].number) = s}
                 IN  IF mine = {} THEN resendBuffer[s]
                     ELSE new[CHOOSE i \in mine : \A j \in mine : j <= i]]
    /\ outgoing' = SubSeq(outgoing, n + 1, Len(outgoing))
    /\ sendReliableMessageNumberIndex' = Plus(sendReliableMessageNumberIndex, n)
    /\ UNCHANGED <<start, sent, orderedWriteIndex, deadConnection, receivingVars, acks>>

\* Update, with a packet unacknowledged and nothing heard for timeoutTime.
AckTimeout ==
    /\ \E s \in Slot : resendBuffer[s] # NoPacket
    /\ ~deadConnection
    /\ deadConnection' = TRUE
    /\ UNCHANGED <<start, waitingVars, windowVars, receivingVars, datagrams, acks>>

\* The history nodes of the datagrams these ranges name.
NodesOf(ranges) ==
    {i \in DOMAIN datagramHistory :
        LET number == Plus(datagramHistoryPopCount, i - 1)
        IN  /\ \E j \in DOMAIN ranges : Within(number, ranges[j])
            /\ ~LessThan(number, datagramHistoryPopCount)}

\* Mutant of Settles: whatever is in the slot.
SettlesSlot(number, packet) ==
    packet # NoPacket /\ SlotOf(number) = SlotOf(packet.number)

\* An acknowledged message leaves its slot only if it is the one in there.
Settles(number, packet) == number = packet.number

\* The ranges before the first that the handler refuses: it returns there.
Accepted(ranges) ==
    SubSeq(ranges, 1, Leading(Len(ranges),
                              {i \in DOMAIN ranges : ranges[i].max # Modulus - 1}))

\* The resend list without the packets that are settled.
Unsettled(packets, settled) ==
    LET left[i \in 0 .. Len(packets)] ==
            IF i = 0 THEN << >>
            ELSE IF packets[i] \in settled THEN left[i - 1]
            ELSE Append(left[i - 1], packets[i])
    IN  left[Len(packets)]

\* A packet of acknowledgements: what the datagrams carried is not sent again.
ReceiveAcks ==
    /\ ~deadConnection
    /\ \E ranges \in acks :
          LET nodes == NodesOf(Accepted(ranges))
              settled == {p \in Range(resendList) :
                             \E i \in nodes : \E n \in datagramHistory[i] : Settles(n, p)}
          IN  /\ resendBuffer' = [s \in Slot |-> IF resendBuffer[s] \in settled
                                                 THEN NoPacket ELSE resendBuffer[s]]
              /\ resendList' = Unsettled(resendList, settled)
              /\ datagramHistory' = [i \in DOMAIN datagramHistory |->
                                        IF i \in nodes THEN {} ELSE datagramHistory[i]]
    /\ UNCHANGED <<start, waitingVars, sendReliableMessageNumberIndex,
                   datagramHistoryPopCount, deadConnection, receivingVars,
                   datagrams, acks>>

-----------------------------------------------------------------------------
(* The receiver. *)

\* How many packets after the oldest one that is missing.
HoleCount(r, p) == Minus(p.number, r.receivedPacketsBaseIndex)

\* Mutant of IsDuplicate: what has come ahead of a hole is taken twice.
IsOld(r, p) == HoleCount(r, p) > HalfSpan

\* Received before: the packet is behind the oldest hole, or is none itself.
IsDuplicate(r, p) ==
    LET holeCount == HoleCount(r, p)
        queue == r.hasReceivedPacketQueue
    IN  \/ holeCount > HalfSpan
        \/ holeCount \in 1 .. Len(queue) - 1 /\ ~queue[holeCount + 1]
        \/ holeCount >= Len(queue) /\ holeCount > MaxHole

\* The packet's place is no longer a hole (TRUE); those before it that never
\* came are. What has come at the front is forgotten.
MarkReceived(r, p) ==
    LET holeCount == HoleCount(r, p)
        queue == r.hasReceivedPacketQueue
        marked == IF holeCount < Len(queue)
                  THEN [queue EXCEPT ![holeCount + 1] = FALSE]
                  ELSE queue \o [i \in 1 .. holeCount - Len(queue) |-> TRUE] \o <<FALSE>>
        come == Leading(Len(marked), {i \in DOMAIN marked : ~marked[i]})
    IN  [r EXCEPT !.hasReceivedPacketQueue = SubSeq(marked, come + 1, Len(marked)),
                  !.receivedPacketsBaseIndex = Plus(@, come)]

\* The heap, kept in the order of its weights.
Push(heap, offset, p) ==
    LET before == {i \in DOMAIN heap :
                      Minus(heap[i].order, offset) < Minus(p.order, offset)}
    IN  InsertAt(heap, Leading(Len(heap), before) + 1, p)

\* Mutant of Release: the heap waits for the next packet.
ReleaseOne(r, p) ==
    [r EXCEPT !.outputQueue = Append(@, p.message),
              !.orderedReadIndex = Plus(@, 1)]

\* The packet waited for is returned, and those of the heap that follow it.
Release(r, p) ==
    LET heap == r.orderingHeap
        freed == Leading(Len(heap), {i \in DOMAIN heap : heap[i].order = Plus(p.order, i)})
    IN  [r EXCEPT !.outputQueue = Append(@, p.message) \o
                                     [i \in 1 .. freed |-> heap[i].message],
                  !.orderingHeap = SubSeq(heap, freed + 1, Len(heap)),
                  !.orderedReadIndex = Plus(@, freed + 1)]

\* A later packet waits in the heap, whose weights count from the index that
\* was waited for when it was last empty.
Delay(r, p) ==
    LET offset == IF r.orderingHeap = << >> THEN r.orderedReadIndex
                                            ELSE r.heapIndexOffset
    IN  [r EXCEPT !.heapIndexOffset = offset,
                  !.orderingHeap = Push(@, offset, p)]

\* Mutant of InOrder: a later packet is returned at once.
TakeNewer(r, p) ==
    IF IsOlderOrderedPacket(p.order, r.orderedReadIndex) THEN r ELSE Release(r, p)

InOrder(r, p) ==
    CASE p.order = r.orderedReadIndex -> Release(r, p)
      [] p.order # r.orderedReadIndex
           /\ ~IsOlderOrderedPacket(p.order, r.orderedReadIndex) -> Delay(r, p)
      [] OTHER -> r

ReceivePacket(r, p) == IF IsDuplicate(r, p) THEN r
                       ELSE InOrder(MarkReceived(r, p), p)

\* The packets of a datagram, one after the other.
ReceivePackets(packets) ==
    LET after[i \in 0 .. Len(packets)] ==
            IF i = 0 THEN receiver ELSE ReceivePacket(after[i - 1], packets[i])
    IN  after[Len(packets)]

\* Datagram i arrives, perhaps late and perhaps not for the first time.
ReceiveDatagram(i) ==
    /\ acknowlegements' = Insert(acknowlegements, Plus(start, i - 1))
    /\ Len(acknowlegements') <= MaxRanges
    /\ receiver' = ReceivePackets(datagrams[i])
    /\ UNCHANGED <<start, waitingVars, windowVars, deadConnection, datagrams, acks>>

\* SendACKs, in an Update of the receiver.
SendACKs ==
    /\ acknowlegements # << >>
    /\ acks' = acks \cup {acknowlegements}
    /\ Cardinality(acks') <= MaxAcks
    /\ acknowlegements' = << >>
    /\ UNCHANGED <<start, waitingVars, windowVars, deadConnection, receiver, datagrams>>

-----------------------------------------------------------------------------
LayerNext ==
    \/ Send
    \/ \E k \in 0 .. RESEND_BUFFER_ARRAY_LENGTH, n \in 0 .. MaxMessages : Update(k, n)
    \/ AckTimeout
    \/ ReceiveAcks
    \/ \E i \in DOMAIN datagrams : ReceiveDatagram(i)
    \/ SendACKs

LayerSpec == LayerInit /\ [][LayerNext]_layerVars

-----------------------------------------------------------------------------
\* Every variable has a value the code could store in it: numbers of 24 bits,
\* packets in slots and queues, and a channel index for each waiting message.
LayerTypeOK ==
    /\ start \in Starts
    /\ sent \in 0 .. MaxMessages
    /\ {orderedWriteIndex, sendReliableMessageNumberIndex,
        datagramHistoryPopCount} \subseteq Number
    /\ outgoing \in Seq([order : Number, message : 1 .. MaxMessages])
    /\ resendBuffer \in [Slot -> Packet \cup {NoPacket}]
    /\ resendList \in Seq(Packet)
    /\ datagramHistory \in Seq(SUBSET Number)
    /\ deadConnection \in BOOLEAN
    /\ receiver.receivedPacketsBaseIndex \in Number
    /\ receiver.hasReceivedPacketQueue \in Seq(BOOLEAN)
    /\ receiver.orderedReadIndex \in Number
    /\ receiver.heapIndexOffset \in Number
    /\ receiver.orderingHeap \in Seq(Packet)
    /\ receiver.outputQueue \in Seq(1 .. MaxMessages)
    /\ acknowlegements \in Seq(Range24)
    /\ datagrams \in Seq(Seq(Packet))
    /\ \A ranges \in acks : ranges \in Seq(Range24)

\* The application gets the messages in the order they were sent, each of them
\* once, whatever the network loses, repeats or reorders and wherever the
\* numbers wrap: the layer implements the channel of ReliableChannel.
Channel == INSTANCE ReliableChannel
             WITH Messages <- 1 .. MaxMessages,
                  sent <- [i \in 1 .. sent |-> i],
                  delivered <- receiver.outputQueue

ImplementsChannel == Channel!ChannelSpec

\* Every message the application of the receiver has not got is waiting to be
\* sent, or will be sent again, or is with the receiver behind a message that
\* is missing: no acknowledgement takes one from the resend buffer that has
\* not come, however late or often it arrives and however ranges were joined.
NoMessageIsLost ==
    LET missing == Len(receiver.outputQueue) + 1
        at(packets) == {packets[i].message : i \in DOMAIN packets}
    IN  \A m \in missing .. sent :
            \/ m \in at(outgoing) \cup at(resendList)
            \/ m # missing /\ m \in at(receiver.orderingHeap)

\* The resend buffer and the resend list hold the same packets, each in the
\* slot of its number and once in the list: no message is sent into a slot
\* that is taken (the assertion at 2078), and no two share one.
ListIsBuffer ==
    /\ IsInjective(resendList)
    /\ Range(resendList) = Range(resendBuffer) \ {NoPacket}
    /\ \A s \in Slot : resendBuffer[s] # NoPacket => SlotOf(resendBuffer[s].number) = s

\* Node i of the history is the node of the datagram whose acknowledgement
\* looks it up, and names the messages that datagram carried or, once it is
\* acknowledged, none (the assertion commented out at 3814).
HistoryIsOfDatagrams ==
    LET datagramOf(i) == Minus(Plus(datagramHistoryPopCount, i - 1), start) + 1
    IN  /\ Plus(datagramHistoryPopCount, Len(datagramHistory)) = Plus(start, Len(datagrams))
        /\ \A i \in DOMAIN datagramHistory :
              datagramHistory[i] # {} =>
                datagramHistory[i] = {p.number : p \in Range(datagrams[datagramOf(i)])}

\* The receiver's queue begins with the hole it waits for, ends with a packet
\* it has, and is no longer than the sender's resend buffer: the sender cannot
\* get further ahead of what is missing, so "Hole count too high" (1005) is
\* never met.
HolesStayInWindow ==
    LET queue == receiver.hasReceivedPacketQueue
    IN  queue # << >> =>
          /\ Head(queue) /\ ~Last(queue)
          /\ Len(queue) <= RESEND_BUFFER_ARRAY_LENGTH

\* What waits in the ordering heap is later than the message waited for, each
\* once and in the order of sending: the heap's weights, which count from an
\* index that may be long gone, keep this across the wrap, and what comes twice
\* does not get in twice. Else the loop that empties the heap (1376) stops at a
\* head that never matches again.
HeapIsAhead ==
    LET heap == receiver.orderingHeap
    IN  /\ \A i \in DOMAIN heap : heap[i].message > Len(receiver.outputQueue) + 1
        /\ \A i \in 1 .. Len(heap) - 1 : heap[i].message < heap[i + 1].message
================================================================================
