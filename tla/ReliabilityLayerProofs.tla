------------------------ MODULE ReliabilityLayerProofs ------------------------
(***************************************************************************)
(* The reliability layer keeps what it promises for every size of its      *)
(* buffers, of its datagrams and of the number of messages: over a network *)
(* that loses, repeats and reorders, it implements the channel of          *)
(* ReliableChannel, and no message is lost between its queues.             *)
(*                                                                         *)
(* All of it follows from LayerInv. Its centre is that a message has one   *)
(* number m among all that were sent, and that each of the numbers of 24   *)
(* bits in the state is the place on the circle of some m: what the code   *)
(* compares on the circle is then decided among the m. This needs the      *)
(* circle to be wide enough, NothingOutlivesTheCircle.                     *)
(***************************************************************************)
EXTENDS ReliabilityLayer, RangeListProofs

-----------------------------------------------------------------------------
(* The invariant.                                                          *)

\* The circle is large enough for the life that is modelled: no datagram
\* arrives after half of the message numbers have been used, and no
\* acknowledgement after all of the datagram numbers have.
NothingOutlivesTheCircle ==
    /\ MaxMessages <= HalfSpan + 1
    /\ MaxDatagrams <= Modulus

\* Messages get their two numbers in the order of Send.
PacketOf(s, m) == [number |-> Plus(s, m - 1), order |-> Plus(s, m - 1), message |-> m]

\* The packets are of the messages 1 .. n.
AreNumbered(s, n, packets) ==
    \A i \in DOMAIN packets : \E m \in 1 .. n : packets[i] = PacketOf(s, m)

\* The messages that wait in the receiver's heap, and all that it has.
Ahead(r) == {r.orderingHeap[i].message : i \in DOMAIN r.orderingHeap}
Came(r) == 1 .. Len(r.outputQueue) \cup Ahead(r)

ReceiverRecord ==
    [receivedPacketsBaseIndex : Number, hasReceivedPacketQueue : Seq(BOOLEAN),
     orderedReadIndex : Number, heapIndexOffset : Number,
     orderingHeap : Seq(Packet), outputQueue : Seq(1 .. MaxMessages)]

\* The heap: packets of messages up to n, in their order, behind at least one
\* that is missing, and with weights that count from a message before it.
HeapOK(s, n, r) ==
    LET got == Len(r.outputQueue)
        heap == r.orderingHeap
    IN  /\ AreNumbered(s, n, heap)
        /\ \A i \in DOMAIN heap : heap[i].message >= got + 1 + i
        /\ \A i, j \in DOMAIN heap :
              i < j => heap[j].message >= heap[i].message + (j - i)
        /\ heap # << >> => \E o \in 0 .. got : r.heapIndexOffset = Plus(s, o)

\* The queue of holes: one place for each message behind the first `got`, up to
\* the last of those in K; those not in K are holes.
QueueOK(queue, got, K) ==
    /\ \A i \in DOMAIN queue : queue[i] <=> got + i \notin K
    /\ \A m \in K : m <= got + Len(queue)
    /\ queue # << >> => got + Len(queue) \in K

\* What MarkReceived has changed once message m came: the first `come` that are
\* no longer missing are behind the base, and `queue` has the holes after it.
MarkedWith(s, r, m, come, queue) ==
    LET got == Len(r.outputQueue)
        K == Ahead(r) \cup {m}
    IN  /\ \A i \in 1 .. come : got + i \in K
        /\ got + come + 1 \notin K
        /\ QueueOK(queue, got + come, K)
        /\ MarkReceived(r, PacketOf(s, m)) =
              [r EXCEPT !.hasReceivedPacketQueue = queue,
                        !.receivedPacketsBaseIndex = Plus(s, got + come)]

\* A receiver on a connection that began at s, when n messages were numbered:
\* it waits for one message, by both numbers, and has returned those before.
ReceiverOK(s, n, r) ==
    LET got == Len(r.outputQueue)
    IN  /\ r \in ReceiverRecord
        /\ got <= n
        /\ r.outputQueue = [i \in 1 .. got |-> i]
        /\ r.receivedPacketsBaseIndex = Plus(s, got)
        /\ r.orderedReadIndex = Plus(s, got)
        /\ HeapOK(s, n, r)
        /\ QueueOK(r.hasReceivedPacketQueue, got, Ahead(r))

\* What a packet with message m makes of receiver r: `next` has the message,
\* and all that r had.
Receives(s, n, r, m, next) ==
    /\ ReceiverOK(s, n, next)
    /\ Came(next) = Came(r) \cup {m}
    /\ Len(next.outputQueue) >= Len(r.outputQueue)

-----------------------------------------------------------------------------
\* How many messages got their numbers: those that left at least once.
numbered == sent - Len(outgoing)

\* What waits are the last messages of Send.
WaitingInOrder ==
    /\ Len(outgoing) <= sent
    /\ \A i \in DOMAIN outgoing :
          outgoing[i] = [order |-> Plus(start, numbered + i - 1), message |-> numbered + i]
    /\ orderedWriteIndex = Plus(start, sent)
    /\ sendReliableMessageNumberIndex = Plus(start, numbered)

\* The resend list and the resend buffer hold the same packets.
BufferIs(buffer, list) ==
    /\ IsInjective(list)
    /\ Range(list) = Range(buffer) \ {NoPacket}
    /\ \A slot \in Slot : buffer[slot] # NoPacket => SlotOf(buffer[slot].number) = slot

\* No unacknowledged message is a whole resend buffer behind.
InWindow(n, list) ==
    \A p \in Range(list) : p.message + RESEND_BUFFER_ARRAY_LENGTH > n

\* Every message that left came, or will be sent again.
IsKept(n, list, r) ==
    \A m \in 1 .. n : m \in Came(r) \/ \E p \in Range(list) : p.message = m

\* A node of the history names the messages of one datagram, or none.
NodeIs(node, data, d) ==
    node # {} => /\ d \in DOMAIN data
                 /\ node = {data[d][j].number : j \in DOMAIN data[d]}

\* Node i of the history is of the datagram behind it by as many as follow.
HistoryIs(s, nodes, popCount, data) ==
    /\ Plus(popCount, Len(nodes)) = Plus(s, Len(data))
    /\ \A i \in DOMAIN nodes : NodeIs(nodes[i], data, Len(data) - Len(nodes) + i)

\* A datagram whose messages the receiver has.
HasAll(r, datagram) == \A j \in DOMAIN datagram : datagram[j].message \in Came(r)

\* Every number in a list of ranges is of such a datagram.
AreOfReceived(s, ranges, data, r) ==
    \A n \in Listed(ranges) : \E d \in DOMAIN data : n = Plus(s, d - 1) /\ HasAll(r, data[d])

LayerInv ==
    /\ LayerTypeOK
    /\ Len(datagrams) <= MaxDatagrams
    /\ ReceiverOK(start, numbered, receiver)
    /\ WaitingInOrder
    /\ AreNumbered(start, numbered, resendList)
    /\ \A d \in DOMAIN datagrams : AreNumbered(start, numbered, datagrams[d])
    /\ BufferIs(resendBuffer, resendList)
    /\ InWindow(numbered, resendList)
    /\ IsKept(numbered, resendList, receiver)
    /\ HistoryIs(start, datagramHistory, datagramHistoryPopCount, datagrams)
    /\ IsRangeList(acknowlegements)
    /\ AreOfReceived(start, acknowlegements, datagrams, receiver)
    /\ \A ranges \in acks : /\ IsRangeList(ranges)
                            /\ AreOfReceived(start, ranges, datagrams, receiver)

-----------------------------------------------------------------------------
(* Arithmetic.                                                             *)

\* Division with remainder, in the terms the provers use.
LEMMA DivMod ==
    ASSUME NEW r \in Nat \ {0}, NEW a \in Nat
    PROVE  /\ (a % r) \in 0 .. r - 1
           /\ a \div r \in Int
           /\ a = (r * (a \div r)) + (a % r)
<1>1. (a % r) \in 0 .. r - 1
  OBVIOUS
<1>2. a \div r \in Int
  OBVIOUS
<1>3. a = (r * (a \div r)) + (a % r)
  OBVIOUS
<1>4. QED BY <1>1, <1>2, <1>3

\* Only one multiple of r is less than r away from 0.
LEMMA NoMultiple ==
    ASSUME NEW r \in Nat \ {0}, NEW q \in Int, r * q > -r, r * q < r
    PROVE  q = 0
<1>1. CASE q >= 1
  <2>1. r * q >= r
    BY <1>1
  <2>2. QED BY <2>1
<1>2. CASE q <= -1
  <2>1. r * q <= -r
    BY <1>2
  <2>2. QED BY <2>1
<1>3. QED BY <1>1, <1>2

\* Two numbers that are less than r apart have different remainders.
LEMMA SameRemainder ==
    ASSUME NEW r \in Nat \ {0}, NEW a \in Nat, NEW b \in Nat,
           a % r = b % r, a - b < r, b - a < r
    PROVE  a = b
<1> DEFINE q == (a \div r) - (b \div r)
<1>1. /\ a = (r * (a \div r)) + (a % r) /\ b = (r * (b \div r)) + (b % r)
      /\ a \div r \in Int /\ b \div r \in Int
      /\ (a % r) \in Int /\ (b % r) \in Int
  BY DivMod
<1>2. a - b = r * q
  BY <1>1
<1>3. q = 0
  BY <1>2, <1>1, NoMultiple
<1>4. r * q = 0
  BY <1>3
<1>5. QED BY <1>2, <1>4

\* What is taken off in whole rounds does not change the remainder.
LEMMA DropMultiple ==
    ASSUME NEW r \in Nat \ {0}, NEW a \in Nat, NEW k \in Nat, k % r = 0, a >= k
    PROVE  (a - k) % r = a % r
<1> DEFINE b == a - k
           c == k \div r
           q == (a \div r) - (b \div r) - c
<1>1. a = (r * (a \div r)) + (a % r) /\ a \div r \in Int /\ (a % r) \in 0 .. r - 1
  BY DivMod
<1>2. b \in Nat
  OBVIOUS
<1>3. b = (r * (b \div r)) + (b % r) /\ b \div r \in Int /\ (b % r) \in 0 .. r - 1
  <2> HIDE DEF b
  <2>1. QED BY <1>2, DivMod
<1>4. k = r * c /\ c \in Int
  BY DivMod
<1>5. (b % r) - (a % r) = r * q
  BY <1>1, <1>3, <1>4
<1>6. q = 0
  BY <1>1, <1>3, <1>4, <1>5, NoMultiple
<1>7. r * q = 0
  BY <1>6
<1>8. QED BY <1>1, <1>3, <1>5, <1>7

\* The circle, seen from a number s on it.
LEMMA FromStart ==
    ASSUME NEW s \in Number, NEW a \in Number, NEW b \in Number
    PROVE  /\ Plus(s, a) \in Number
           /\ Plus(s, a) = Plus(s, b) => a = b
           /\ Minus(Plus(s, a), Plus(s, b)) = IF a < b THEN a - b + Modulus ELSE a - b
           /\ Minus(Plus(s, a), s) = a
           /\ a + b < Modulus => Plus(Plus(s, a), b) = Plus(s, a + b)
<1>1. /\ Plus(s, a) = IF s + a < Modulus THEN s + a ELSE s + a - Modulus
      /\ Plus(s, b) = IF s + b < Modulus THEN s + b ELSE s + b - Modulus
      /\ Plus(s, a) \in Number /\ Plus(s, b) \in Number
  BY PlusWraps
<1>2. /\ s \in Int /\ a \in Int /\ b \in Int /\ Modulus \in Int
      /\ 0 <= s /\ s < Modulus /\ 0 <= a /\ a < Modulus /\ 0 <= b /\ b < Modulus
  BY ModulusIs DEF Number
<1>3. Plus(s, a) = Plus(s, b) => a = b
  BY <1>1, <1>2
<1>4. Minus(Plus(s, a), Plus(s, b)) =
         IF Plus(s, a) < Plus(s, b) THEN Plus(s, a) - Plus(s, b) + Modulus
         ELSE Plus(s, a) - Plus(s, b)
  BY <1>1, MinusWraps
<1>5. Minus(Plus(s, a), s) = IF Plus(s, a) < s THEN Plus(s, a) - s + Modulus
                             ELSE Plus(s, a) - s
  BY <1>1, MinusWraps
<1>6. ASSUME a + b < Modulus
      PROVE  Plus(Plus(s, a), b) = Plus(s, a + b)
  <2>1. a + b \in Number
    BY <1>2, <1>6 DEF Number
  <2>2. Plus(s, a + b) = IF s + (a + b) < Modulus THEN s + (a + b)
                         ELSE s + (a + b) - Modulus
    BY <2>1, PlusWraps
  <2>3. Plus(Plus(s, a), b) = IF Plus(s, a) + b < Modulus THEN Plus(s, a) + b
                              ELSE Plus(s, a) + b - Modulus
    BY <1>1, PlusWraps
  <2>4. QED BY <1>1, <1>2, <1>6, <2>2, <2>3
<1>7. QED BY <1>1, <1>2, <1>3, <1>4, <1>5, <1>6

-----------------------------------------------------------------------------
(* Least numbers, recursion and sequences.                                 *)

\* Induction, for provers that know sets: what is not true of all numbers has
\* a first number of which it is not true.
LEMMA LeastNumber ==
    ASSUME NEW T \in SUBSET Nat, T # {}
    PROVE  \E p \in T : \A q \in T : p <= q
<1>1. PICK p \in T : \A q \in T : ~(<<q, p>> \in OpToRel(<, Nat))
  BY NatLessThanWellFounded, WFMin
<1>2. \A q \in T : ~(q < p)
  BY <1>1 DEF OpToRel
<1>3. QED BY <1>2

\* What Leading chooses: the last place before the first gap.
LEMMA LeadingIs ==
    ASSUME NEW n \in Nat, NEW places
    PROVE  /\ Leading(n, places) \in 0 .. n
           /\ \A i \in 1 .. Leading(n, places) : i \in places
           /\ Leading(n, places) < n => Leading(n, places) + 1 \notin places
<1> DEFINE T == {c \in 0 .. n : c < n => c + 1 \notin places}
<1>1. T \in SUBSET Nat /\ n \in T
  OBVIOUS
<1>2. PICK c \in T : \A q \in T : c <= q
  BY <1>1, LeastNumber
<1>3. \A i \in 1 .. c : i \in places
  <2>1. SUFFICES ASSUME NEW i \in 1 .. c, i \notin places
                 PROVE  FALSE
    OBVIOUS
  <2>2. i - 1 \in T /\ i - 1 < c
    BY <2>1
  <2>3. QED BY <1>2, <2>2
<1>4. 1 .. c \subseteq places /\ c \in 0 .. n /\ (c < n => c + 1 \notin places)
  BY <1>2, <1>3
<1>5. QED
  BY <1>4 DEF Leading

\* A function defined step by step, whose values stay in R.
Iterates(f, R, n, x, Step) ==
    /\ f \in [0 .. n -> R]
    /\ f[0] = x
    /\ \A i \in 1 .. n : f[i] = Step[<<f[i - 1], i>>]

\* There is one for every step.
LEMMA Recursion ==
    ASSUME NEW R, NEW n \in Nat, NEW x \in R, NEW Step \in [R \X (1 .. n) -> R]
    PROVE  \E f : Iterates(f, R, n, x, Step)
<1> DEFINE Fits(f, k) == /\ f \in [0 .. k -> R]
                         /\ f[0] = x
                         /\ \A i \in 1 .. k : f[i] = Step[<<f[i - 1], i>>]
           T == {k \in 0 .. n : ~\E f : Fits(f, k)}
<1>1. T = {}
  <2>1. SUFFICES ASSUME T # {} PROVE FALSE
    OBVIOUS
  <2>2. PICK k \in T : \A q \in T : k <= q
    <3>1. T \in SUBSET Nat
      OBVIOUS
    <3> HIDE DEF T
    <3>2. QED BY <2>1, <3>1, LeastNumber
  <2>3. CASE k = 0
    <3>1. Fits([i \in {0} |-> x], 0)
      OBVIOUS
    <3>2. QED BY <2>2, <2>3, <3>1
  <2>4. CASE k # 0
    <3>1. k - 1 \in 0 .. n /\ k - 1 \notin T
      BY <2>2, <2>4
    <3>2. PICK f : Fits(f, k - 1)
      BY <3>1
    <3> DEFINE g == [i \in 0 .. k |-> IF i = k THEN Step[<<f[k - 1], k>>] ELSE f[i]]
    <3>3. f[k - 1] \in R /\ k \in 1 .. n /\ Step[<<f[k - 1], k>>] \in R
      BY <2>2, <2>4, <3>2
    <3>4. g \in [0 .. k -> R] /\ g[0] = x /\ \A i \in 0 .. k - 1 : g[i] = f[i]
      BY <2>2, <2>4, <3>2, <3>3
    <3>5. ASSUME NEW i \in 1 .. k
          PROVE  g[i] = Step[<<g[i - 1], i>>]
      <4>1. g[i - 1] = f[i - 1]
        BY <2>2, <3>4, <3>5
      <4>2. CASE i = k
        <5>1. k \in 0 .. k
          BY <2>2
        <5>2. g[k] = Step[<<f[k - 1], k>>]
          BY <5>1
        <5>3. QED BY <4>1, <4>2, <5>2
      <4>3. CASE i # k
        <5>1. i \in 1 .. k - 1 /\ i \in 0 .. k - 1
          BY <2>2, <4>3
        <5>2. g[i] = f[i] /\ f[i] = Step[<<f[i - 1], i>>]
          BY <3>2, <3>4, <5>1
        <5>3. QED BY <4>1, <5>2
      <4>4. QED BY <4>2, <4>3
    <3>6. Fits(g, k)
      BY <3>4, <3>5
    <3>7. QED BY <2>2, <3>6
  <2>5. QED BY <2>3, <2>4
<1>2. n \in 0 .. n
  OBVIOUS
<1>3. PICK f : Fits(f, n)
  BY <1>1, <1>2
<1>4. QED BY <1>3 DEF Iterates

\* A function on 1 .. k is a sequence of length k.
LEMMA FunctionIsSeq ==
    ASSUME NEW S, NEW k \in Nat, NEW f \in [1 .. k -> S]
    PROVE  f \in Seq(S) /\ Len(f) = k /\ DOMAIN f = 1 .. k
<1>1. f \in Seq(S)
  BY SeqDef
<1>2. DOMAIN f = 1 .. Len(f) /\ DOMAIN f = 1 .. k /\ Len(f) \in Nat
  BY <1>1, LenProperties
<1>3. QED BY <1>1, <1>2

\* A sequence has elements if and only if it is not << >>.
LEMMA NotEmpty ==
    ASSUME NEW S, NEW s \in Seq(S)
    PROVE  s # << >> <=> Len(s) > 0
BY EmptySeq

\* Part of a sequence, from the place after a.
LEMMA SubSeqIs ==
    ASSUME NEW S, NEW s \in Seq(S), NEW a \in Nat, NEW b \in Nat, a <= b, b <= Len(s)
    PROVE  /\ SubSeq(s, a + 1, b) \in Seq(S)
           /\ Len(SubSeq(s, a + 1, b)) = b - a
           /\ \A i \in 1 .. b - a : SubSeq(s, a + 1, b)[i] = s[a + i]
<1>1. a + 1 \in Int /\ b \in Int /\ \A i \in a + 1 .. b : s[i] \in S
  BY ElementOfSeq, LenProperties
<1>2. /\ SubSeq(s, a + 1, b) \in Seq(S)
      /\ Len(SubSeq(s, a + 1, b)) = IF a + 1 <= b THEN b - (a + 1) + 1 ELSE 0
      /\ \A i \in 1 .. b - (a + 1) + 1 : SubSeq(s, a + 1, b)[i] = s[(a + 1) + i - 1]
  BY <1>1, SubSeqProperties
<1>3. QED BY <1>2

\* Two sequences end to end, looked at from either side.
LEMMA ConcatIs ==
    ASSUME NEW S, NEW s \in Seq(S), NEW t \in Seq(S)
    PROVE  /\ s \o t \in Seq(S)
           /\ Len(s \o t) = Len(s) + Len(t)
           /\ Len(s) \in Nat /\ Len(t) \in Nat
           /\ \A i \in 1 .. Len(s) : (s \o t)[i] = s[i]
           /\ \A i \in 1 .. Len(t) : (s \o t)[Len(s) + i] = t[i]
           /\ \A i \in 1 .. Len(s \o t) :
                 \/ i \in 1 .. Len(s)
                 \/ i - Len(s) \in 1 .. Len(t) /\ (s \o t)[i] = t[i - Len(s)]
<1>1. Len(s) \in Nat /\ Len(t) \in Nat
  BY LenProperties
<1>2. /\ s \o t \in Seq(S)
      /\ Len(s \o t) = Len(s) + Len(t)
      /\ \A i \in 1 .. Len(s) + Len(t) :
            (s \o t)[i] = IF i <= Len(s) THEN s[i] ELSE t[i - Len(s)]
  BY ConcatProperties
<1>3. QED BY <1>1, <1>2

-----------------------------------------------------------------------------
(* The receiver: what a packet makes of it.                                *)

\* All the proofs need to know of the bound on hole counts.
LEMMA MaxHoleIs == MaxHole \in Nat
BY SMT DEF MaxHole

\* The packet of a message, and its numbers.
LEMMA PacketIs ==
    ASSUME NothingOutlivesTheCircle, NEW s \in Number, NEW m \in 1 .. MaxMessages
    PROVE  /\ PacketOf(s, m) \in Packet
           /\ PacketOf(s, m).message = m
           /\ PacketOf(s, m).number = Plus(s, m - 1)
           /\ PacketOf(s, m).order = Plus(s, m - 1)
           /\ m - 1 \in Number
<1>1. m - 1 \in Number
  BY ModulusIs, LayerAssumption DEF NothingOutlivesTheCircle, Number
<1>2. Plus(s, m - 1) \in Number
  BY <1>1, PlusWraps
<1>3. QED
  BY <1>1, <1>2 DEF PacketOf, Packet

\* A receiver of the invariant, in the terms the next proofs use.
LEMMA ReceiverIs ==
    ASSUME NothingOutlivesTheCircle, NEW s \in Number, NEW n \in 0 .. MaxMessages,
           NEW r, ReceiverOK(s, n, r)
    PROVE  /\ r \in ReceiverRecord
           /\ Len(r.outputQueue) \in 0 .. n /\ Len(r.outputQueue) \in Number
           /\ n \in Nat /\ n <= MaxMessages /\ MaxMessages \in Nat
           /\ r.orderingHeap \in Seq(Packet)
           /\ Len(r.orderingHeap) \in Nat
           /\ DOMAIN r.orderingHeap = 1 .. Len(r.orderingHeap)
           /\ \A i \in 1 .. Len(r.orderingHeap) :
                 /\ r.orderingHeap[i].message \in 1 .. n
                 /\ r.orderingHeap[i] = PacketOf(s, r.orderingHeap[i].message)
                 /\ r.orderingHeap[i].order = Plus(s, r.orderingHeap[i].message - 1)
                 /\ r.orderingHeap[i].message >= Len(r.outputQueue) + 1 + i
           /\ r.hasReceivedPacketQueue \in Seq(BOOLEAN)
           /\ Len(r.hasReceivedPacketQueue) \in Nat
           /\ DOMAIN r.hasReceivedPacketQueue = 1 .. Len(r.hasReceivedPacketQueue)
           /\ \A m \in Ahead(r) : m \in 1 .. n /\ m > Len(r.outputQueue) + 1
<1> DEFINE got == Len(r.outputQueue)
           heap == r.orderingHeap
<1>1. /\ r \in ReceiverRecord /\ heap \in Seq(Packet)
      /\ r.hasReceivedPacketQueue \in Seq(BOOLEAN) /\ r.outputQueue \in Seq(1 .. MaxMessages)
  BY DEF ReceiverOK, ReceiverRecord
<1>2. /\ Len(heap) \in Nat /\ DOMAIN heap = 1 .. Len(heap) /\ got \in Nat
      /\ Len(r.hasReceivedPacketQueue) \in Nat
      /\ DOMAIN r.hasReceivedPacketQueue = 1 .. Len(r.hasReceivedPacketQueue)
  BY <1>1, LenProperties
<1>3. n \in Nat /\ n <= MaxMessages /\ MaxMessages \in Nat
  BY LayerAssumption
<1>4. got \in 0 .. n /\ got \in Number
  BY <1>2, <1>3, ModulusIs DEF ReceiverOK, NothingOutlivesTheCircle, Number
<1>5. ASSUME NEW i \in 1 .. Len(heap)
      PROVE  /\ heap[i].message \in 1 .. n
             /\ heap[i] = PacketOf(s, heap[i].message)
             /\ heap[i].order = Plus(s, heap[i].message - 1)
             /\ heap[i].message >= got + 1 + i
  <2>1. PICK m \in 1 .. n : heap[i] = PacketOf(s, m)
    BY <1>2 DEF ReceiverOK, HeapOK, AreNumbered
  <2>2. m \in 1 .. MaxMessages
    BY <1>3
  <2>3. heap[i].message = m /\ heap[i].order = Plus(s, m - 1)
    BY <2>1, <2>2, PacketIs
  <2>4. heap[i].message >= got + 1 + i
    BY <1>2 DEF ReceiverOK, HeapOK
  <2>5. QED BY <2>1, <2>3, <2>4
<1>6. ASSUME NEW m \in Ahead(r)
      PROVE  m \in 1 .. n /\ m > got + 1
  <2>1. PICK i \in 1 .. Len(heap) : m = heap[i].message
    BY <1>2 DEF Ahead
  <2>2. QED BY <1>2, <1>5, <2>1
<1>7. QED BY <1>1, <1>2, <1>3, <1>4, <1>5, <1>6

\* The hole count says how far ahead of the receiver a message is, and a packet
\* is taken for a duplicate if and only if its message came before.
LEMMA DuplicatesCame ==
    ASSUME NothingOutlivesTheCircle, NEW s \in Number, NEW n \in 0 .. MaxMessages,
           NEW r, ReceiverOK(s, n, r), NEW m \in 1 .. n,
           m - 1 - Len(r.outputQueue) <= MaxHole
    PROVE  /\ IsDuplicate(r, PacketOf(s, m)) <=> m \in Came(r)
           /\ m > Len(r.outputQueue) =>
                 HoleCount(r, PacketOf(s, m)) = m - 1 - Len(r.outputQueue)
<1> DEFINE got == Len(r.outputQueue)
           queue == r.hasReceivedPacketQueue
           p == PacketOf(s, m)
           holeCount == HoleCount(r, p)
<1>1. /\ got \in 0 .. n /\ got \in Number /\ n \in Nat /\ n <= MaxMessages
      /\ MaxMessages \in Nat /\ m - 1 - got <= MaxHole
      /\ Len(queue) \in Nat /\ DOMAIN queue = 1 .. Len(queue)
      /\ \A k \in Ahead(r) : k \in 1 .. n /\ k > got + 1
  BY ReceiverIs
<1>2. m - 1 \in Number /\ p.number = Plus(s, m - 1)
  <2>1. m \in 1 .. MaxMessages
    BY <1>1
  <2>2. QED BY <2>1, PacketIs
<1>3. holeCount = IF m - 1 < got THEN m - 1 - got + Modulus ELSE m - 1 - got
  <2>1. holeCount = Minus(Plus(s, m - 1), Plus(s, got))
    BY <1>2 DEF HoleCount, ReceiverOK
  <2> HIDE DEF got, holeCount
  <2>2. QED BY <1>1, <1>2, <2>1, FromStart
<1>4. QueueOK(queue, got, Ahead(r))
  BY DEF ReceiverOK
<1>5. /\ m <= HalfSpan + 1 /\ n <= HalfSpan + 1 /\ HalfSpan \in Nat /\ Modulus = 2 * HalfSpan + 2
      /\ MaxMessages \in Nat
  BY <1>1, ModulusIs, LayerAssumption DEF NothingOutlivesTheCircle
<1>6. m \in Came(r) <=> m <= got \/ m \in Ahead(r)
  BY <1>1 DEF Came
<1>7. IsDuplicate(r, p) <=>
         \/ holeCount > HalfSpan
         \/ holeCount \in 1 .. Len(queue) - 1 /\ ~queue[holeCount + 1]
         \/ holeCount >= Len(queue) /\ holeCount > MaxHole
  BY DEF IsDuplicate
<1> HIDE DEF holeCount, p, queue, got
<1>8. ASSUME m <= got
      PROVE  IsDuplicate(r, p) /\ m \in Came(r)
  <2>1. holeCount = m - 1 - got + Modulus
    BY <1>1, <1>3, <1>8
  <2>2. holeCount > HalfSpan
    BY <1>1, <1>5, <1>8, <2>1
  <2>3. QED BY <1>1, <1>6, <1>7, <1>8, <2>2
<1>9. ASSUME m > got
      PROVE  (IsDuplicate(r, p) <=> m \in Came(r)) /\ holeCount = m - 1 - got
  <2>1. holeCount = m - 1 - got /\ holeCount \in Nat /\ holeCount + 1 = m - got
    BY <1>1, <1>3, <1>9
  <2>2. ~(holeCount > HalfSpan) /\ ~(holeCount > MaxHole)
    BY <1>1, <1>5, <1>9, <2>1, MaxHoleIs
  <2>3. m \in Came(r) <=> m \in Ahead(r)
    BY <1>1, <1>6, <1>9
  <2>4. CASE holeCount = 0
    <3>1. m \notin Ahead(r)
      BY <1>1, <2>1, <2>4
    <3>2. ~(holeCount \in 1 .. Len(queue) - 1)
      BY <1>1, <2>4
    <3>3. QED BY <1>7, <2>1, <2>2, <2>3, <3>1, <3>2
  <2>5. CASE holeCount \in 1 .. Len(queue) - 1
    <3>1. holeCount + 1 \in DOMAIN queue
      BY <1>1, <2>1, <2>5
    <3>2. queue[holeCount + 1] <=> got + (holeCount + 1) \notin Ahead(r)
      BY <1>4, <3>1 DEF QueueOK
    <3>3. got + (holeCount + 1) = m
      BY <1>1, <2>1
    <3>4. QED BY <1>7, <2>1, <2>2, <2>3, <2>5, <3>2, <3>3
  <2>6. CASE holeCount # 0 /\ holeCount >= Len(queue)
    <3>1. m > got + Len(queue)
      BY <1>1, <2>1, <2>6
    <3>2. m \notin Ahead(r)
      BY <1>1, <1>4, <3>1 DEF QueueOK
    <3>3. ~(holeCount \in 1 .. Len(queue) - 1)
      BY <1>1, <2>6
    <3>4. QED BY <1>7, <2>1, <2>2, <2>3, <3>2, <3>3
  <2>7. QED BY <1>1, <2>1, <2>4, <2>5, <2>6
<1>10. (IsDuplicate(r, p) <=> m \in Came(r)) /\ (m > got => holeCount = m - 1 - got)
  BY <1>1, <1>8, <1>9
<1>11. QED
  BY <1>10 DEF got, p, holeCount

\* Sequences of flags.
LEMMA FlagsConcatIs ==
    ASSUME NEW s \in Seq(BOOLEAN), NEW t \in Seq(BOOLEAN)
    PROVE  /\ s \o t \in Seq(BOOLEAN)
           /\ Len(s \o t) = Len(s) + Len(t)
           /\ \A i \in 1 .. Len(s) : (s \o t)[i] = s[i]
           /\ \A i \in 1 .. Len(t) : (s \o t)[Len(s) + i] = t[i]
<1> DEFINE F == BOOLEAN
<1>1. s \in Seq(F) /\ t \in Seq(F)
  OBVIOUS
<1> HIDE DEF F
<1>2. /\ s \o t \in Seq(F)
      /\ Len(s \o t) = Len(s) + Len(t)
      /\ \A i \in 1 .. Len(s) : (s \o t)[i] = s[i]
      /\ \A i \in 1 .. Len(t) : (s \o t)[Len(s) + i] = t[i]
  BY <1>1, ConcatIs
<1>3. QED BY <1>2 DEF F

\* Part of a sequence of flags.
LEMMA FlagsSubSeqIs ==
    ASSUME NEW s \in Seq(BOOLEAN), NEW a \in Nat, NEW b \in Nat, a <= b, b <= Len(s)
    PROVE  /\ SubSeq(s, a + 1, b) \in Seq(BOOLEAN)
           /\ Len(SubSeq(s, a + 1, b)) = b - a
           /\ \A i \in 1 .. b - a : SubSeq(s, a + 1, b)[i] = s[a + i]
BY SubSeqIs, Zenon

\* What MarkReceived does to the queue and the base index: a hole less, and
\* what has come at the front is forgotten.
LEMMA MarkIs ==
    ASSUME NothingOutlivesTheCircle, NEW s \in Number, NEW n \in 0 .. MaxMessages,
           NEW r, ReceiverOK(s, n, r), NEW m \in 1 .. n, m \notin Came(r),
           m - 1 - Len(r.outputQueue) <= MaxHole
    PROVE  \E come \in Nat, queue \in Seq(BOOLEAN) : MarkedWith(s, r, m, come, queue)
<1> DEFINE got == Len(r.outputQueue)
           K == Ahead(r) \cup {m}
           queue == r.hasReceivedPacketQueue
           p == PacketOf(s, m)
           holeCount == HoleCount(r, p)
           gap == [i \in 1 .. holeCount - Len(queue) |-> TRUE]
           marked == IF holeCount < Len(queue)
                     THEN [queue EXCEPT ![holeCount + 1] = FALSE]
                     ELSE queue \o gap \o <<FALSE>>
           come == Leading(Len(marked), {i \in DOMAIN marked : ~marked[i]})
           rest == SubSeq(marked, come + 1, Len(marked))
<1>1. /\ got \in 0 .. n /\ got \in Number /\ n \in Nat /\ n <= MaxMessages
      /\ MaxMessages \in Nat /\ queue \in Seq(BOOLEAN) /\ r \in ReceiverRecord
      /\ Len(queue) \in Nat /\ DOMAIN queue = 1 .. Len(queue)
      /\ \A k \in Ahead(r) : k \in 1 .. n /\ k > got + 1
  BY ReceiverIs
<1>2. QueueOK(queue, got, Ahead(r))
  BY DEF ReceiverOK
<1>3. m > got /\ m \notin Ahead(r)
  BY <1>1 DEF Came
<1>4. holeCount = m - 1 - got /\ holeCount \in Nat
  <2>1. m > Len(r.outputQueue) => HoleCount(r, PacketOf(s, m)) = m - 1 - Len(r.outputQueue)
    BY DuplicatesCame
  <2>2. holeCount = m - 1 - got
    BY <1>3, <2>1
  <2>3. m - 1 - got \in Nat
    BY <1>1, <1>3
  <2>4. QED BY <2>2, <2>3
<1>5. MarkReceived(r, p) = [r EXCEPT !.hasReceivedPacketQueue = rest,
                                     !.receivedPacketsBaseIndex = Plus(@, come)]
  BY DEF MarkReceived
<1> HIDE DEF got, holeCount, queue
<1>6. marked \in Seq(BOOLEAN) /\ QueueOK(marked, got, K)
  <2>1. CASE holeCount < Len(queue)
    <3>1. /\ marked \in Seq(BOOLEAN) /\ Len(marked) = Len(queue)
          /\ \A i \in 1 .. Len(queue) : marked[i] = IF i = holeCount + 1 THEN FALSE ELSE queue[i]
      BY <1>1, <1>4, <2>1, ExceptSeq
    <3> HIDE DEF marked
    <3>2. DOMAIN marked = 1 .. Len(queue)
      BY <3>1, LenProperties
    <3>3. ASSUME NEW i \in DOMAIN marked
          PROVE  marked[i] <=> got + i \notin K
      <4>1. queue[i] <=> got + i \notin Ahead(r)
        BY <1>1, <1>2, <3>2 DEF QueueOK
      <4>2. i = holeCount + 1 <=> got + i = m
        BY <1>1, <1>4, <3>2
      <4>3. QED BY <3>1, <3>2, <4>1, <4>2
    <3>4. \A k \in K : k <= got + Len(marked)
      BY <1>1, <1>2, <1>4, <2>1, <3>1 DEF QueueOK
    <3>5. got + Len(marked) \in K
      BY <1>1, <1>2, <1>4, <2>1, <3>1 DEF QueueOK
    <3>6. QED BY <3>1, <3>3, <3>4, <3>5 DEF QueueOK
  <2>2. CASE ~(holeCount < Len(queue))
    <3> DEFINE last == <<FALSE>>
               longer == queue \o gap
    <3>1. /\ gap \in Seq(BOOLEAN) /\ Len(gap) = holeCount - Len(queue)
          /\ \A i \in 1 .. Len(gap) : gap[i] = TRUE
      <4>1. holeCount - Len(queue) \in Nat /\ gap \in [1 .. holeCount - Len(queue) -> BOOLEAN]
        BY <1>1, <1>4, <2>2
      <4> HIDE DEF gap
      <4>2. gap \in Seq(BOOLEAN) /\ Len(gap) = holeCount - Len(queue)
        BY <4>1, FunctionIsSeq
      <4>3. QED BY <4>2 DEF gap
    <3>2. last \in Seq(BOOLEAN) /\ Len(last) = 1 /\ last[1] = FALSE
      OBVIOUS
    <3> HIDE DEF gap, last
    <3>3. /\ longer \in Seq(BOOLEAN)
          /\ Len(longer) = Len(queue) + Len(gap)
          /\ \A i \in 1 .. Len(queue) : longer[i] = queue[i]
          /\ \A i \in 1 .. Len(gap) : longer[Len(queue) + i] = gap[i]
      <4>1. queue \in Seq(BOOLEAN) /\ gap \in Seq(BOOLEAN)
        BY <1>1, <3>1
      <4>2. QED BY <4>1, FlagsConcatIs, Zenon
    <3> HIDE DEF longer
    <3>4. /\ longer \o last \in Seq(BOOLEAN)
          /\ Len(longer \o last) = Len(longer) + Len(last)
          /\ \A i \in 1 .. Len(longer) : (longer \o last)[i] = longer[i]
          /\ \A i \in 1 .. Len(last) : (longer \o last)[Len(longer) + i] = last[i]
      <4>1. longer \in Seq(BOOLEAN) /\ last \in Seq(BOOLEAN)
        BY <3>2, <3>3
      <4>2. QED BY <4>1, FlagsConcatIs, Zenon
    <3>5. marked = longer \o last
      BY <2>2 DEF longer, last
    <3> HIDE DEF marked
    <3>6. /\ Len(longer) = holeCount /\ Len(marked) = holeCount + 1 /\ marked \in Seq(BOOLEAN)
          /\ DOMAIN marked = 1 .. holeCount + 1
      BY <1>1, <1>4, <3>1, <3>2, <3>3, <3>4, <3>5, LenProperties
    <3>7. ASSUME NEW i \in DOMAIN marked
          PROVE  marked[i] <=> got + i \notin K
      <4>1. CASE i \in 1 .. Len(queue)
        <5>1. i \in 1 .. Len(longer) /\ marked[i] = queue[i]
          BY <1>1, <1>4, <2>2, <3>3, <3>4, <3>5, <3>6, <4>1
        <5>2. got + i # m
          BY <1>1, <1>4, <2>2, <4>1
        <5>3. QED BY <1>1, <1>2, <4>1, <5>1, <5>2 DEF QueueOK
      <4>2. CASE i > Len(queue) /\ i <= holeCount
        <5>1. /\ i - Len(queue) \in 1 .. Len(gap) /\ i \in 1 .. Len(longer)
              /\ Len(queue) + (i - Len(queue)) = i
          BY <1>1, <1>4, <3>1, <3>6, <4>2
        <5>2. marked[i] = TRUE
          BY <3>1, <3>3, <3>4, <3>5, <5>1
        <5>3. got + i # m /\ got + i \notin Ahead(r)
          BY <1>1, <1>2, <1>4, <3>6, <4>2 DEF QueueOK
        <5>4. QED BY <5>2, <5>3
      <4>3. CASE i = holeCount + 1
        <5>1. 1 \in 1 .. Len(last) /\ Len(longer) + 1 = i
          BY <3>2, <3>6, <4>3
        <5>2. marked[i] = FALSE
          BY <3>2, <3>4, <3>5, <5>1
        <5>3. got + i = m
          BY <1>1, <1>4, <4>3
        <5>4. QED BY <5>2, <5>3
      <4>4. QED BY <1>1, <1>4, <3>6, <4>1, <4>2, <4>3
    <3>8. \A k \in K : k <= got + Len(marked)
      BY <1>1, <1>2, <1>4, <2>2, <3>6 DEF QueueOK
    <3>9. got + Len(marked) \in K
      BY <1>1, <1>4, <3>6
    <3>10. QED BY <3>6, <3>7, <3>8, <3>9 DEF QueueOK
  <2>3. QED BY <2>1, <2>2
<1> HIDE DEF marked
<1>7. Len(marked) \in Nat /\ DOMAIN marked = 1 .. Len(marked)
  BY <1>6, LenProperties
<1>8. /\ come \in 0 .. Len(marked)
      /\ \A i \in 1 .. come : i \in DOMAIN marked /\ ~marked[i]
      /\ come < Len(marked) => ~(come + 1 \in DOMAIN marked /\ ~marked[come + 1])
  <2> DEFINE places == {i \in DOMAIN marked : ~marked[i]}
  <2> HIDE DEF places
  <2>1. /\ Leading(Len(marked), places) \in 0 .. Len(marked)
        /\ \A i \in 1 .. Leading(Len(marked), places) : i \in places
        /\ Leading(Len(marked), places) < Len(marked) =>
              Leading(Len(marked), places) + 1 \notin places
    BY <1>7, LeadingIs
  <2>2. QED BY <2>1 DEF places
<1> HIDE DEF come
<1>9. \A i \in 1 .. come : got + i \in K
  BY <1>6, <1>8 DEF QueueOK
<1>10. got + come + 1 \notin K
  <2>1. CASE come < Len(marked)
    <3>1. come + 1 \in DOMAIN marked /\ marked[come + 1]
      BY <1>7, <1>8, <2>1
    <3>2. got + (come + 1) \notin K
      BY <1>6, <3>1 DEF QueueOK
    <3>3. QED BY <1>1, <1>7, <1>8, <3>2
  <2>2. CASE come = Len(marked)
    BY <1>1, <1>3, <1>6, <1>7, <2>2 DEF QueueOK
  <2>3. come \in Int /\ come <= Len(marked) /\ Len(marked) \in Int
    BY <1>7, <1>8
  <2>4. come < Len(marked) \/ come = Len(marked)
    BY <2>3
  <2>5. QED BY <2>1, <2>2, <2>4
<1>11. /\ rest \in Seq(BOOLEAN) /\ Len(rest) = Len(marked) - come
       /\ DOMAIN rest = 1 .. Len(marked) - come
       /\ \A i \in 1 .. Len(marked) - come : rest[i] = marked[come + i]
  <2>1. /\ rest \in Seq(BOOLEAN) /\ Len(rest) = Len(marked) - come
        /\ \A i \in 1 .. Len(marked) - come : rest[i] = marked[come + i]
    <3>1. /\ come \in Nat /\ Len(marked) \in Nat /\ come <= Len(marked)
          /\ Len(marked) <= Len(marked)
      BY <1>7, <1>8
    <3>2. marked \in Seq(BOOLEAN)
      BY <1>6
    <3>3. QED BY <3>1, <3>2, FlagsSubSeqIs, Zenon
  <2>2. QED BY <2>1, LenProperties
<1> HIDE DEF rest
<1>12. QueueOK(rest, got + come, K)
  <2>1. ASSUME NEW i \in DOMAIN rest
        PROVE  rest[i] <=> (got + come) + i \notin K
    <3>1. come + i \in DOMAIN marked /\ rest[i] = marked[come + i]
      <4>1. i \in 1 .. Len(marked) - come /\ rest[i] = marked[come + i]
        BY <1>11
      <4>2. come \in Nat /\ Len(marked) \in Nat /\ come <= Len(marked)
        BY <1>7, <1>8
      <4>3. come + i \in 1 .. Len(marked)
        BY <4>1, <4>2
      <4>4. QED BY <1>7, <4>1, <4>3
    <3>2. marked[come + i] <=> got + (come + i) \notin K
      BY <1>6, <3>1 DEF QueueOK
    <3>3. got + (come + i) = (got + come) + i
      BY <1>1, <1>8, <1>11
    <3>4. QED BY <3>1, <3>2, <3>3
  <2>2. (got + come) + Len(rest) = got + Len(marked)
    BY <1>1, <1>7, <1>8, <1>11
  <2>3. rest # << >> => marked # << >>
    BY <1>6, <1>7, <1>8, <1>11, NotEmpty
  <2>4. QED BY <1>6, <2>1, <2>2, <2>3 DEF QueueOK
<1>13. Plus(r.receivedPacketsBaseIndex, come) = Plus(s, got + come)
  <2>1. got + come \in Number /\ come \in Number
    <3>1. CASE come = 0
      BY <1>1, <3>1, ModulusIs DEF Number
    <3>2. CASE come # 0
      <4>1. got + come \in K
        BY <1>7, <1>8, <1>9, <3>2
      <4>2. got + come <= n
        BY <1>1, <4>1
      <4>3. QED BY <1>1, <1>7, <1>8, <4>2, ModulusIs DEF Number, NothingOutlivesTheCircle
    <3>3. QED BY <3>1, <3>2
  <2>2. got + come < Modulus
    BY <2>1, ModulusIs DEF Number
  <2>3. r.receivedPacketsBaseIndex = Plus(s, got)
    BY DEF ReceiverOK, got
  <2>4. QED BY <1>1, <2>1, <2>2, <2>3, FromStart
<1>14. come \in Nat
  BY <1>7, <1>8
<1>15. MarkReceived(r, p) = [r EXCEPT !.hasReceivedPacketQueue = rest,
                                     !.receivedPacketsBaseIndex = Plus(s, got + come)]
  BY <1>5, <1>13
<1>16. MarkedWith(s, r, m, come, rest)
  BY <1>9, <1>10, <1>12, <1>15 DEF MarkedWith, got, p
<1>17. QED
  BY <1>11, <1>14, <1>16

\* The message waited for: it is returned with those of the heap that follow it,
\* as many as are no longer in the queue of holes.
LEMMA ReleaseIs ==
    ASSUME NothingOutlivesTheCircle, NEW s \in Number, NEW n \in 0 .. MaxMessages,
           NEW r, ReceiverOK(s, n, r), NEW m \in 1 .. n, m = Len(r.outputQueue) + 1
    PROVE  Receives(s, n, r, m, ReceivePacket(r, PacketOf(s, m)))
<1> DEFINE got == Len(r.outputQueue)
           K == Ahead(r) \cup {m}
           p == PacketOf(s, m)
           mark == MarkReceived(r, p)
           heap == mark.orderingHeap
           freed == Leading(Len(heap), {i \in DOMAIN heap : heap[i].order = Plus(p.order, i)})
           next == ReceivePacket(r, p)
           got2 == got + 1 + freed
           heap2 == SubSeq(heap, freed + 1, Len(heap))
           returned == [i \in 1 .. freed |-> heap[i].message]
<1>1. /\ r \in ReceiverRecord
      /\ got \in 0 .. n /\ got \in Number /\ n \in Nat /\ n <= MaxMessages
      /\ MaxMessages \in Nat
  BY ReceiverIs
<1>2. \A k \in Ahead(r) : k \in 1 .. n /\ k > got + 1
  BY ReceiverIs
<1>3. /\ m = got + 1 /\ m \in 1 .. MaxMessages /\ m \notin Came(r)
      /\ m - 1 - got <= MaxHole
  BY <1>1, <1>2, MaxHoleIs DEF Came
<1>4. p.message = m /\ p.order = Plus(s, got) /\ m - 1 = got
  BY <1>1, <1>3, PacketIs
<1>5. r.orderedReadIndex = Plus(s, got)
  BY DEF ReceiverOK
<1>6. PICK come \in Nat, queue \in Seq(BOOLEAN) : MarkedWith(s, r, m, come, queue)
  BY <1>3, MarkIs
<1>7. /\ \A i \in 1 .. come : got + i \in K
      /\ got + come + 1 \notin K
      /\ QueueOK(queue, got + come, K)
      /\ mark = [r EXCEPT !.hasReceivedPacketQueue = queue,
                          !.receivedPacketsBaseIndex = Plus(s, got + come)]
  BY <1>6 DEF MarkedWith
<1>8. ~IsDuplicate(r, p)
  BY <1>3, DuplicatesCame
<1>9. next = Release(mark, p)
  <2>1. mark.orderedReadIndex = Plus(s, got)
    BY <1>1, <1>5, <1>7 DEF ReceiverRecord
  <2>2. InOrder(mark, p) = Release(mark, p)
    BY <1>4, <2>1 DEF InOrder
  <2>3. QED
    BY <1>8, <2>2 DEF ReceivePacket
<1>10. next = [mark EXCEPT !.outputQueue = Append(@, p.message) \o returned,
                           !.orderingHeap = heap2,
                           !.orderedReadIndex = Plus(@, freed + 1)]
  BY <1>9 DEF Release
<1>11. heap = r.orderingHeap
  BY <1>1, <1>7 DEF ReceiverRecord
<1> HIDE DEF p, mark, next, heap
<1>12. /\ r \in ReceiverRecord
      /\ got \in 0 .. n /\ got \in Number /\ n \in Nat /\ n <= MaxMessages
      /\ MaxMessages \in Nat /\ heap \in Seq(Packet)
      /\ Len(heap) \in Nat /\ DOMAIN heap = 1 .. Len(heap)
  BY <1>11, ReceiverIs
<1>13. \A i \in 1 .. Len(heap) :
         /\ heap[i].message \in 1 .. n
         /\ heap[i] = PacketOf(s, heap[i].message)
         /\ heap[i].order = Plus(s, heap[i].message - 1)
         /\ heap[i].message >= got + 1 + i
  BY <1>11, ReceiverIs
<1>14. /\ next.receivedPacketsBaseIndex = Plus(s, got + come)
       /\ next.hasReceivedPacketQueue = queue
       /\ next.orderedReadIndex = Plus(Plus(s, got), freed + 1)
       /\ next.heapIndexOffset = r.heapIndexOffset
       /\ next.orderingHeap = heap2
       /\ next.outputQueue = Append(r.outputQueue, m) \o returned
       /\ next = [receivedPacketsBaseIndex |-> next.receivedPacketsBaseIndex,
                  hasReceivedPacketQueue |-> next.hasReceivedPacketQueue,
                  orderedReadIndex |-> next.orderedReadIndex,
                  heapIndexOffset |-> next.heapIndexOffset,
                  orderingHeap |-> next.orderingHeap,
                  outputQueue |-> next.outputQueue]
  <2> HIDE DEF next, mark, heap2, returned, freed
  <2>1. QED
    BY <1>12, <1>4, <1>5, <1>7, <1>10 DEF ReceiverRecord
<1>15. /\ freed \in Nat /\ freed <= Len(heap)
       /\ \A i \in 1 .. freed : heap[i].message = got + 1 + i
       /\ freed < Len(heap) => heap[freed + 1].message > got + 2 + freed
  <2> DEFINE places == {i \in DOMAIN heap : heap[i].order = Plus(p.order, i)}
  <2>1. \A i \in 1 .. Len(heap) : i \in places <=> heap[i].order = Plus(p.order, i)
    BY <1>12
  <2> HIDE DEF places
  <2>2. ASSUME NEW i \in 1 .. Len(heap)
        PROVE  i \in places <=> heap[i].message = got + 1 + i
    <3>1. /\ i \in Number /\ got + i < Modulus
          /\ heap[i].message - 1 \in Number /\ got + i \in Number
      <4>1. /\ heap[i].message \in 1 .. n /\ heap[i].message >= got + 1 + i
            /\ i \in Nat
        BY <1>12, <1>13
      <4>2. n <= HalfSpan + 1
        BY <1>12, ModulusIs DEF NothingOutlivesTheCircle
      <4> HIDE DEF got
      <4>3. QED BY <1>12, <4>1, <4>2, ModulusIs DEF Number
    <3>2. Plus(p.order, i) = Plus(s, got + i)
      BY <1>12, <1>4, <3>1, FromStart
    <3>3. heap[i].order = Plus(s, heap[i].message - 1)
      BY <1>13
    <3>4. heap[i].order = Plus(p.order, i) <=> heap[i].message - 1 = got + i
      <4>1. \A u, v \in Number : Plus(s, u) = Plus(s, v) => u = v
        BY FromStart
      <4>2. QED BY <3>1, <3>2, <3>3, <4>1
    <3>5. heap[i].message \in Int /\ got \in Int /\ i \in Int
      BY <1>12, <1>13
    <3> HIDE DEF got
    <3>6. heap[i].message = got + 1 + i <=> heap[i].message - 1 = got + i
      BY <3>5
    <3>7. QED BY <2>1, <3>4, <3>6
  <2>3. /\ Leading(Len(heap), places) \in 0 .. Len(heap)
        /\ \A i \in 1 .. Leading(Len(heap), places) : i \in places
        /\ Leading(Len(heap), places) < Len(heap) =>
              Leading(Len(heap), places) + 1 \notin places
    BY <1>12, LeadingIs
  <2>4. freed = Leading(Len(heap), places)
    BY DEF places
  <2> HIDE DEF freed
  <2>5. freed \in Nat /\ freed <= Len(heap)
    BY <1>12, <2>3, <2>4
  <2>6. \A i \in 1 .. freed : heap[i].message = got + 1 + i
    BY <1>12, <2>2, <2>3, <2>4, <2>5
  <2>7. ASSUME freed < Len(heap)
        PROVE  heap[freed + 1].message > got + 2 + freed
    <3>1. freed + 1 \in 1 .. Len(heap) /\ freed + 1 \notin places
      BY <1>12, <2>3, <2>4, <2>5, <2>7
    <3>2. heap[freed + 1].message # got + 1 + (freed + 1)
      BY <2>2, <3>1
    <3>3. heap[freed + 1].message >= got + 1 + (freed + 1) /\ heap[freed + 1].message \in 1 .. n
      BY <1>13, <3>1
    <3> HIDE DEF got
    <3>4. QED BY <1>12, <2>5, <3>2, <3>3
  <2>8. QED BY <2>5, <2>6, <2>7
<1> HIDE DEF freed, got
<1>16. \A i, j \in 1 .. Len(heap) : i < j => heap[j].message >= heap[i].message + (j - i)
  BY <1>12, <1>11 DEF ReceiverOK, HeapOK
<1>17. come = freed + 1
  <2>1. freed + 1 <= come
    <3>1. SUFFICES ASSUME come <= freed PROVE FALSE
      BY <1>7, <1>15
    <3>2. CASE come = 0
      BY <1>12, <1>3, <1>7, <3>2
    <3>3. CASE come # 0
      <4>1. come \in 1 .. freed /\ come \in DOMAIN heap
        BY <1>12, <1>7, <1>15, <3>1, <3>3
      <4>2. heap[come].message = got + 1 + come /\ heap[come].message \in Ahead(r)
        BY <1>11, <1>15, <4>1 DEF Ahead
      <4>3. got + 1 + come = got + come + 1
        BY <1>12, <1>7
      <4>4. QED BY <1>7, <4>2, <4>3
    <3>4. QED BY <3>2, <3>3
  <2>2. come <= freed + 1
    <3>1. SUFFICES ASSUME freed + 2 <= come PROVE FALSE
      BY <1>7, <1>15
    <3>2. freed + 2 \in 1 .. come
      BY <1>7, <1>15, <3>1
    <3>3. got + (freed + 2) \in K /\ got + (freed + 2) # m
      <4>1. got + (freed + 2) \in K
        BY <1>7, <3>2
      <4>2. QED BY <1>12, <1>3, <1>15, <4>1
    <3>4. PICK j \in 1 .. Len(heap) : heap[j].message = got + (freed + 2)
      BY <1>11, <1>12, <3>3 DEF Ahead
    <3>5. ~(j <= freed)
      <4>1. SUFFICES ASSUME j <= freed PROVE FALSE
        OBVIOUS
      <4>2. j \in 1 .. freed /\ heap[j].message = got + 1 + j
        BY <1>15, <4>1
      <4>3. QED BY <1>12, <1>15, <3>4, <4>1, <4>2
    <3>6. freed < Len(heap) /\ freed + 1 \in 1 .. Len(heap)
      BY <1>12, <1>15, <3>5
    <3>7. heap[j].message >= heap[freed + 1].message
      <4>1. CASE j = freed + 1
        BY <1>13, <3>6, <4>1
      <4>2. CASE freed + 1 < j
        <5>1. heap[j].message >= heap[freed + 1].message + (j - (freed + 1))
          BY <1>16, <3>6, <4>2
        <5>2. heap[j].message \in Int /\ heap[freed + 1].message \in Int
          BY <1>13, <3>6
        <5>3. QED BY <1>15, <4>2, <5>1, <5>2
      <4>3. QED BY <1>15, <3>5, <4>1, <4>2
    <3>8. heap[freed + 1].message > got + 2 + freed /\ heap[freed + 1].message \in Int
      BY <1>13, <1>15, <3>6
    <3>9. QED BY <1>12, <1>15, <3>4, <3>7, <3>8
  <2>3. QED BY <1>7, <1>15, <2>1, <2>2
<1>18. /\ heap2 \in Seq(Packet) /\ Len(heap2) = Len(heap) - freed
       /\ DOMAIN heap2 = 1 .. Len(heap) - freed
       /\ \A i \in 1 .. Len(heap) - freed : heap2[i] = heap[freed + i]
  <2>1. /\ heap2 \in Seq(Packet) /\ Len(heap2) = Len(heap) - freed
        /\ \A i \in 1 .. Len(heap) - freed : heap2[i] = heap[freed + i]
    <3>1. Len(heap) <= Len(heap) /\ heap \in Seq(Packet) /\ Len(heap) \in Nat
      BY <1>12
    <3>2. freed \in Nat /\ freed <= Len(heap)
      BY <1>15
    <3>3. QED BY <3>1, <3>2, SubSeqIs
  <2>2. QED BY <2>1, LenProperties
<1>19. got2 \in Nat /\ got2 <= n /\ got2 \in Number /\ got2 = got + come /\ freed + 1 \in Number
  <2>1. got2 <= n
    <3>1. CASE freed = 0
      BY <1>12, <1>3, <3>1
    <3>2. CASE freed # 0
      <4>1. freed \in 1 .. Len(heap) /\ freed \in 1 .. freed
        BY <1>12, <1>15, <3>2
      <4>2. heap[freed].message = got + 1 + freed /\ heap[freed].message \in 1 .. n
        BY <1>13, <1>15, <4>1
      <4>3. QED BY <1>12, <4>2
    <3>3. QED BY <3>1, <3>2
  <2>2. QED
    BY <1>12, <1>15, <1>17, <2>1, ModulusIs DEF Number, NothingOutlivesTheCircle
<1>20. /\ got \in Nat /\ freed \in Nat /\ Len(heap) \in Nat /\ freed <= Len(heap)
      /\ got2 = got + 1 + freed
  <2>1. got2 = got + 1 + freed
    BY DEF got2
  <2> HIDE DEF got2
  <2>2. got \in Nat /\ Len(heap) \in Nat
    BY <1>12
  <2>3. freed \in Nat /\ freed <= Len(heap)
    BY <1>15
  <2>4. QED BY <2>1, <2>2, <2>3
<1>21. /\ next.outputQueue \in Seq(1 .. MaxMessages)
       /\ Len(next.outputQueue) = got2
       /\ next.outputQueue = [i \in 1 .. got2 |-> i]
  <2> DEFINE S == 1 .. MaxMessages
             out == r.outputQueue
             one == Append(out, m)
  <2>1. out \in Seq(S) /\ m \in S /\ Len(out) = got
    BY <1>12, <1>3 DEF ReceiverRecord, got
  <2>2. \A i \in 1 .. got : out[i] = i
    BY DEF ReceiverOK, got
  <2>3. /\ returned \in Seq(S) /\ Len(returned) = freed
        /\ \A i \in 1 .. freed : returned[i] = got + 1 + i
    <3>1. \A i \in 1 .. freed : heap[i].message \in S /\ heap[i].message = got + 1 + i
      BY <1>12, <1>13, <1>15
    <3>2. returned \in [1 .. freed -> S]
      BY <3>1
    <3>3. \A i \in 1 .. freed : returned[i] = got + 1 + i
      BY <3>1
    <3> HIDE DEF returned, S
    <3>4. returned \in Seq(S) /\ Len(returned) = freed
      BY <1>15, <3>2, FunctionIsSeq
    <3>5. QED BY <3>3, <3>4
  <2> HIDE DEF S, out, returned
  <2>4. /\ one \in Seq(S) /\ Len(one) = got + 1
        /\ \A i \in 1 .. got : one[i] = out[i]
        /\ one[got + 1] = m
    BY <1>12, <2>1, AppendProperties
  <2> HIDE DEF one
  <2>5. /\ one \o returned \in Seq(S)
        /\ Len(one \o returned) = Len(one) + Len(returned)
        /\ \A i \in 1 .. Len(one) : (one \o returned)[i] = one[i]
        /\ \A i \in 1 .. Len(returned) : (one \o returned)[Len(one) + i] = returned[i]
    <3>1. one \in Seq(S) /\ returned \in Seq(S)
      BY <2>3, <2>4
    <3>2. QED BY <3>1, ConcatIs
  <2>6. next.outputQueue = one \o returned
    BY <1>14 DEF one, out, returned
  <2> DEFINE whole == one \o returned
  <2> HIDE DEF whole
  <2>7. ASSUME NEW i \in 1 .. got2
        PROVE  whole[i] = i
    <3>1. CASE i <= got
      <4>1. i \in 1 .. got /\ i \in 1 .. Len(one)
        BY <1>12, <2>4, <3>1
      <4>2. QED BY <2>2, <2>4, <2>5, <4>1 DEF whole
    <3>2. CASE i = got + 1
      BY <1>12, <1>3, <2>4, <2>5, <3>2 DEF whole
    <3>3. CASE i > got + 1
      <4>1. i - (got + 1) \in 1 .. freed /\ (got + 1) + (i - (got + 1)) = i
        BY <1>12, <1>15, <3>3
      <4>2. whole[i] = returned[i - (got + 1)]
        BY <2>3, <2>4, <2>5, <4>1 DEF whole
      <4>3. QED BY <1>12, <2>3, <4>1, <4>2
    <3>4. QED BY <1>12, <3>1, <3>2, <3>3
  <2>8. whole \in Seq(S) /\ Len(whole) = got2
    BY <1>12, <1>15, <2>3, <2>4, <2>5 DEF whole
  <2>9. whole = [i \in 1 .. got2 |-> i]
    <3>1. DOMAIN whole = 1 .. got2 /\ whole \in [1 .. got2 -> S]
      BY <2>8, LenProperties
    <3>2. QED BY <2>7, <3>1
  <2>10. QED BY <2>6, <2>8, <2>9 DEF whole, S
<1>22. /\ next.orderedReadIndex = Plus(s, got2) /\ next.receivedPacketsBaseIndex = Plus(s, got2)
       /\ Plus(s, got2) \in Number
  <2>1. got + (freed + 1) = got2 /\ got + (freed + 1) < Modulus
    <3>1. got2 < Modulus
      BY <1>19, ModulusIs DEF Number
    <3>2. got + (freed + 1) = got2
      <4> HIDE DEF got2
      <4>1. QED BY <1>20
    <3>3. QED BY <3>1, <3>2
  <2>2. Plus(Plus(s, got), freed + 1) = Plus(s, got2)
    <3>1. /\ got \in Number /\ freed + 1 \in Number /\ got + (freed + 1) < Modulus
          /\ got + (freed + 1) = got2
      BY <1>12, <1>19, <2>1
    <3> HIDE DEF got2
    <3>2. Plus(Plus(s, got), freed + 1) = Plus(s, got + (freed + 1))
      BY <3>1, FromStart
    <3>3. QED BY <3>1, <3>2
  <2>3. Plus(s, got2) \in Number
    BY <1>19, PlusWraps
  <2>4. QED BY <1>14, <1>19, <2>2, <2>3
<1> HIDE DEF got2, heap2, returned
<1>23. HeapOK(s, n, next)
  <2>1. AreNumbered(s, n, heap2)
    <3>1. ASSUME NEW i \in DOMAIN heap2
          PROVE  \E k \in 1 .. n : heap2[i] = PacketOf(s, k)
      <4>1. i \in 1 .. Len(heap) - freed /\ heap2[i] = heap[freed + i]
        BY <1>18
      <4>2. freed + i \in 1 .. Len(heap)
        BY <1>20, <4>1
      <4>3. QED BY <1>13, <4>1, <4>2
    <3>2. QED BY <3>1 DEF AreNumbered
  <2>2. ASSUME NEW i \in DOMAIN heap2
        PROVE  heap2[i].message >= got2 + 1 + i
    <3>1. /\ freed + i \in 1 .. Len(heap) /\ heap2[i] = heap[freed + i]
          /\ freed + 1 \in 1 .. Len(heap) /\ freed < Len(heap) /\ i \in Nat /\ i >= 1
      <4>1. i \in 1 .. Len(heap) - freed
        BY <1>18
      <4>2. Len(heap) \in Nat /\ freed \in Nat /\ freed <= Len(heap)
        BY <1>12, <1>15
      <4>3. heap2[i] = heap[freed + i]
        BY <1>18, <4>1
      <4>4. QED BY <4>1, <4>2, <4>3
    <3>2. /\ heap[freed + i].message \in Int /\ heap[freed + 1].message \in Int
          /\ heap[freed + 1].message > got + 2 + freed
      BY <1>13, <1>15, <3>1
    <3>3. heap[freed + i].message >= heap[freed + 1].message + (i - 1)
      <4>1. CASE i = 1
        BY <3>2, <4>1
      <4>2. CASE i # 1
        <5>1. freed + 1 < freed + i
          BY <1>15, <3>1, <4>2
        <5>2. heap[freed + i].message >= heap[freed + 1].message + ((freed + i) - (freed + 1))
          BY <1>16, <3>1, <5>1
        <5>3. QED BY <1>15, <3>1, <3>2, <5>2
      <4>3. QED BY <4>1, <4>2
    <3>4. heap[freed + i].message >= got2 + 1 + i
      <4> DEFINE a == heap[freed + i].message
                 b == heap[freed + 1].message
      <4>1. /\ a \in Int /\ b \in Int /\ b > got + 2 + freed /\ a >= b + (i - 1)
            /\ i \in Nat /\ got \in Nat /\ freed \in Nat /\ got2 = got + 1 + freed
        BY <1>20, <3>1, <3>2, <3>3
      <4> HIDE DEF a, b, got2
      <4>2. a >= got2 + 1 + i
        BY <4>1
      <4>3. QED BY <4>2 DEF a
    <3>5. QED BY <3>1, <3>4
  <2>3. ASSUME NEW i \in DOMAIN heap2, NEW j \in DOMAIN heap2, i < j
        PROVE  heap2[j].message >= heap2[i].message + (j - i)
    <3>1. /\ freed + i \in 1 .. Len(heap) /\ heap2[i] = heap[freed + i]
          /\ freed + j \in 1 .. Len(heap) /\ heap2[j] = heap[freed + j]
          /\ freed + i < freed + j /\ i \in Int /\ j \in Int
      <4>1. i \in 1 .. Len(heap) - freed /\ j \in 1 .. Len(heap) - freed
        BY <1>18
      <4>2. heap2[i] = heap[freed + i] /\ heap2[j] = heap[freed + j]
        BY <1>18, <4>1
      <4>3. /\ freed + i \in 1 .. Len(heap) /\ freed + j \in 1 .. Len(heap)
            /\ i \in Int /\ j \in Int
        BY <1>20, <4>1
      <4>4. freed + i < freed + j
        BY <1>20, <2>3, <4>3
      <4>5. QED BY <4>2, <4>3, <4>4
    <3>2. heap[freed + j].message >= heap[freed + i].message + ((freed + j) - (freed + i))
      BY <1>16, <3>1
    <3>3. (freed + j) - (freed + i) = j - i
      BY <1>15, <3>1
    <3>4. QED BY <3>1, <3>2, <3>3
  <2>4. ASSUME heap2 # << >>
        PROVE  \E o \in 0 .. got2 : r.heapIndexOffset = Plus(s, o)
    <3>1. heap # << >>
      <4>1. Len(heap2) > 0
        BY <1>18, <2>4, NotEmpty
      <4>2. Len(heap) > 0
        BY <1>12, <1>15, <1>18, <4>1
      <4>3. QED BY <1>12, <4>2, NotEmpty
    <3>2. PICK o \in 0 .. got : r.heapIndexOffset = Plus(s, o)
      BY <1>11, <3>1 DEF ReceiverOK, HeapOK, got
    <3>3. o \in 0 .. got2
      BY <1>12, <1>15, <1>19 DEF got2
    <3>4. QED BY <3>2, <3>3
  <2>5. QED
    BY <1>14, <1>21, <2>1, <2>2, <2>3, <2>4 DEF HeapOK
<1>24. \A k : k \in Ahead(next) <=> k \in K /\ k > got2
  <2>1. ASSUME NEW i \in DOMAIN heap2
        PROVE  heap2[i].message \in K /\ heap2[i].message > got2
    <3>1. freed + i \in DOMAIN heap /\ heap2[i] = heap[freed + i]
      <4>1. i \in 1 .. Len(heap) - freed /\ heap2[i] = heap[freed + i]
        BY <1>18
      <4>2. freed + i \in 1 .. Len(heap)
        BY <1>20, <4>1
      <4>3. QED BY <1>12, <4>1, <4>2
    <3>2. heap2[i].message \in K
      BY <1>11, <3>1 DEF Ahead
    <3>3. heap2[i].message >= got2 + 1 + i /\ heap2[i].message \in Int /\ i \in 1 .. Len(heap2)
      <4>1. heap2[i].message >= got2 + 1 + i
        BY <1>14, <1>21, <1>23 DEF HeapOK
      <4>2. heap2[i].message \in Int /\ i \in 1 .. Len(heap2)
        BY <1>12, <1>13, <1>18, <3>1
      <4>3. QED BY <4>1, <4>2
    <3>4. QED BY <1>18, <1>19, <3>2, <3>3
  <2>2. ASSUME NEW k \in K, k > got2
        PROVE  \E i \in DOMAIN heap2 : k = heap2[i].message
    <3>1. k # m
      BY <1>12, <1>3, <1>15, <2>2 DEF got2
    <3>2. PICK j \in 1 .. Len(heap) : k = heap[j].message
      BY <1>11, <1>12, <2>2, <3>1 DEF Ahead
    <3>3. ~(j <= freed)
      <4>1. SUFFICES ASSUME j <= freed PROVE FALSE
        OBVIOUS
      <4>2. j \in 1 .. freed /\ heap[j].message = got + 1 + j
        BY <1>15, <4>1
      <4>3. QED BY <1>12, <1>15, <2>2, <3>2, <4>1, <4>2 DEF got2
    <3>4. j - freed \in 1 .. Len(heap) - freed /\ freed + (j - freed) = j
      BY <1>12, <1>15, <3>3
    <3>5. QED BY <1>18, <3>2, <3>4
  <2>3. QED
    <3>1. \A k : k \in Ahead(next) <=> \E i \in DOMAIN heap2 : k = heap2[i].message
      BY <1>14 DEF Ahead
    <3>2. QED BY <2>1, <2>2, <3>1
<1>25. QueueOK(queue, got2, Ahead(next))
  <2>1. ASSUME NEW i \in DOMAIN queue
        PROVE  queue[i] <=> got2 + i \notin Ahead(next)
    <3>1. queue[i] <=> got2 + i \notin K
      BY <1>7, <1>19 DEF QueueOK
    <3>2. i \in 1 .. Len(queue) /\ Len(queue) \in Nat
      BY LenProperties
    <3>3. got2 + i > got2
      BY <1>19, <3>2
    <3>4. QED BY <1>24, <3>1, <3>3
  <2>2. \A k \in Ahead(next) : k <= got2 + Len(queue)
    BY <1>7, <1>19, <1>24 DEF QueueOK
  <2>3. ASSUME queue # << >>
        PROVE  got2 + Len(queue) \in Ahead(next)
    <3>1. Len(queue) \in Nat /\ Len(queue) > 0
      BY <2>3, NotEmpty, LenProperties
    <3>2. got2 + Len(queue) \in K /\ got2 + Len(queue) > got2
      BY <1>7, <1>19, <2>3, <3>1 DEF QueueOK
    <3>3. QED BY <1>24, <3>2
  <2>4. QED BY <2>1, <2>2, <2>3 DEF QueueOK
<1>26. next \in ReceiverRecord
  <2>1. r.heapIndexOffset \in Number
    BY <1>12 DEF ReceiverRecord
  <2>2. QED
    BY <1>7, <1>14, <1>18, <1>21, <1>22, <2>1 DEF ReceiverRecord
<1>27. ReceiverOK(s, n, next)
  BY <1>14, <1>19, <1>21, <1>22, <1>23, <1>25, <1>26 DEF ReceiverOK
<1>28. Came(next) = Came(r) \cup {m}
  <2>1. ASSUME NEW k
        PROVE  k \in Came(next) <=> k \in Came(r) \/ k = m
    <3>1. k \in Came(next) <=> k \in 1 .. got2 \/ (k \in K /\ k > got2)
      BY <1>21, <1>24 DEF Came
    <3>2. k \in Came(r) <=> k \in 1 .. got \/ k \in Ahead(r)
      BY DEF Came, got
    <3>3. ASSUME k \in 1 .. got2
          PROVE  k \in 1 .. got \/ k \in K
      <4>1. CASE k <= got
        BY <1>12, <3>3, <4>1
      <4>2. CASE ~(k <= got)
        <5>1. k - got \in 1 .. come /\ got + (k - got) = k
          BY <1>12, <1>7, <1>19, <3>3, <4>2
        <5>2. QED BY <1>7, <5>1
      <4>3. QED BY <4>1, <4>2
    <3>4. \A x \in K : x \in Int /\ x >= 1
      BY <1>12, <1>2, <1>3
    <3>5. k \in K => k \in 1 .. got2 \/ k > got2
      BY <1>19, <3>4
    <3>6. k \in 1 .. got => k \in 1 .. got2
      BY <1>12, <1>15, <1>19 DEF got2
    <3>7. QED BY <3>1, <3>2, <3>3, <3>5, <3>6
  <2>2. QED BY <2>1
<1>29. Len(next.outputQueue) >= got
  BY <1>12, <1>15, <1>21 DEF got2
<1>30. QED
  BY <1>27, <1>28, <1>29 DEF Receives, next, p, got

\* What a number put at its place does to numbers that grow by one or more.
LEMMA InsertedGrows ==
    ASSUME NEW L \in Nat, NEW b \in Int, NEW m \in Int, NEW k \in 1 .. L + 1,
           NEW f \in [1 .. L -> Int], NEW g \in [1 .. L + 1 -> Int],
           \A i \in 1 .. L : f[i] >= b + i,
           \A i, j \in 1 .. L : i < j => f[j] >= f[i] + (j - i),
           m >= b + 1,
           \A i \in 1 .. k - 1 : f[i] < m,
           k <= L => f[k] > m,
           \A i \in 1 .. L + 1 : g[i] = IF i < k THEN f[i]
                                        ELSE IF i = k THEN m ELSE f[i - 1]
    PROVE  /\ \A i \in 1 .. L + 1 : g[i] >= b + i
           /\ \A i, j \in 1 .. L + 1 : i < j => g[j] >= g[i] + (j - i)
<1>1. ASSUME NEW i \in 1 .. k - 1
      PROVE  f[i] + (k - i) <= m
  <2>1. k - 1 \in 1 .. L /\ i \in 1 .. L /\ k - 1 \in 1 .. k - 1
    OBVIOUS
  <2>2. f[k - 1] < m /\ f[k - 1] \in Int /\ f[i] \in Int
    BY <2>1
  <2>3. CASE i = k - 1
    BY <2>2, <2>3
  <2>4. CASE i < k - 1
    <3>1. f[k - 1] >= f[i] + ((k - 1) - i)
      BY <2>1, <2>4
    <3> DEFINE x == f[k - 1]
               y == f[i]
    <3>2. x >= y + ((k - 1) - i) /\ x < m /\ x \in Int /\ y \in Int
      BY <2>2, <3>1
    <3> HIDE DEF x, y
    <3>3. y + (k - i) <= m
      BY <3>2
    <3>4. QED BY <3>3 DEF y
  <2>5. QED BY <2>3, <2>4
<1>2. ASSUME NEW i \in k .. L
      PROVE  f[i] >= m + (i - k) + 1
  <2>1. k \in 1 .. L /\ i \in 1 .. L
    OBVIOUS
  <2>2. f[k] > m /\ f[k] \in Int /\ f[i] \in Int
    BY <2>1
  <2>3. k < i => f[i] >= f[k] + (i - k)
    BY <2>1
  <2>4. QED BY <2>1, <2>2, <2>3
<1>3. m >= b + k
  <2>1. CASE k = 1
    BY <2>1
  <2>2. CASE k # 1
    <3>1. k - 1 \in 1 .. L /\ k - 1 \in 1 .. k - 1
      BY <2>2
    <3>2. f[k - 1] >= b + (k - 1) /\ f[k - 1] < m /\ f[k - 1] \in Int
      BY <3>1
    <3>3. QED BY <3>2
  <2>3. QED BY <2>1, <2>2
<1>4. ASSUME NEW i \in 1 .. L + 1
      PROVE  g[i] >= b + i
  <2>1. CASE i < k
    <3>1. i \in 1 .. L /\ g[i] = f[i]
      BY <2>1
    <3>2. QED BY <3>1
  <2>2. CASE i = k
    BY <1>3, <2>2
  <2>3. CASE i > k
    <3>1. i - 1 \in k .. L /\ g[i] = f[i - 1] /\ i - 1 \in 1 .. L
      BY <2>3
    <3>2. f[i - 1] >= m + ((i - 1) - k) + 1 /\ f[i - 1] \in Int
      BY <1>2, <3>1
    <3>3. QED BY <1>3, <3>1, <3>2
  <2>4. QED BY <2>1, <2>2, <2>3
<1>5. ASSUME NEW i \in 1 .. L + 1, NEW j \in 1 .. L + 1, i < j
      PROVE  g[j] >= g[i] + (j - i)
  <2>1. CASE j < k
    <3>1. i \in 1 .. L /\ g[i] = f[i] /\ j \in 1 .. L /\ g[j] = f[j]
      BY <1>5, <2>1
    <3>2. QED BY <1>5, <3>1
  <2>2. CASE i < k /\ ~(j < k)
    <3>1. i \in 1 .. k - 1 /\ g[i] = f[i] /\ i \in 1 .. L
      BY <2>2
    <3>2. f[i] + (k - i) <= m /\ f[i] \in Int
      BY <1>1, <3>1
    <3>3. CASE j = k
      BY <3>1, <3>2, <3>3
    <3>4. CASE j # k
      <4>1. j - 1 \in k .. L /\ g[j] = f[j - 1] /\ j - 1 \in 1 .. L
        BY <2>2, <3>4
      <4>2. f[j - 1] >= m + ((j - 1) - k) + 1 /\ f[j - 1] \in Int
        BY <1>2, <4>1
      <4>3. g[j] >= m + (j - k)
        BY <4>1, <4>2
      <4>4. m >= g[i] + (k - i) /\ g[i] \in Int /\ g[j] \in Int
        BY <3>1, <3>2, <4>1, <4>2
      <4>5. QED BY <4>3, <4>4
    <3>5. QED BY <3>3, <3>4
  <2>3. CASE ~(i < k)
    <3>1. j - 1 \in k .. L /\ g[j] = f[j - 1] /\ j - 1 \in 1 .. L
      BY <1>5, <2>3
    <3>2. CASE i = k
      <4>1. f[j - 1] >= m + ((j - 1) - k) + 1 /\ f[j - 1] \in Int
        BY <1>2, <3>1
      <4>2. g[i] = m
        BY <3>2
      <4>3. QED BY <3>1, <3>2, <4>1, <4>2
    <3>3. CASE i # k
      <4>1. i - 1 \in 1 .. L /\ g[i] = f[i - 1] /\ i - 1 < j - 1
        BY <1>5, <2>3, <3>3
      <4>2. f[j - 1] >= f[i - 1] + ((j - 1) - (i - 1))
        BY <3>1, <4>1
      <4>3. (j - 1) - (i - 1) = j - i
        OBVIOUS
      <4>4. QED BY <3>1, <4>1, <4>2, <4>3
    <3>4. QED BY <3>2, <3>3
  <2>4. QED BY <1>5, <2>1, <2>2, <2>3
<1>6. QED BY <1>4, <1>5

\* A later message is put in the heap at its place.
LEMMA PushIs ==
    ASSUME NothingOutlivesTheCircle, NEW s \in Number, NEW n \in 0 .. MaxMessages,
           NEW r, ReceiverOK(s, n, r), NEW m \in 1 .. n, m > Len(r.outputQueue) + 1,
           m \notin Ahead(r), NEW o \in 0 .. Len(r.outputQueue)
    PROVE  \E k \in 1 .. Len(r.orderingHeap) + 1 :
              /\ Push(r.orderingHeap, Plus(s, o), PacketOf(s, m))
                    = InsertAt(r.orderingHeap, k, PacketOf(s, m))
              /\ \A i \in 1 .. k - 1 : r.orderingHeap[i].message < m
              /\ k <= Len(r.orderingHeap) => r.orderingHeap[k].message > m
<1> DEFINE got == Len(r.outputQueue)
           heap == r.orderingHeap
           p == PacketOf(s, m)
           before == {i \in DOMAIN heap :
                         Minus(heap[i].order, Plus(s, o)) < Minus(p.order, Plus(s, o))}
           c == Leading(Len(heap), before)
<1>1. /\ got \in 0 .. n /\ got \in Number /\ n \in Nat /\ n <= MaxMessages
      /\ MaxMessages \in Nat /\ Len(heap) \in Nat /\ DOMAIN heap = 1 .. Len(heap)
  BY ReceiverIs
<1>2. \A i \in 1 .. Len(heap) :
         /\ heap[i].message \in 1 .. n
         /\ heap[i].order = Plus(s, heap[i].message - 1)
         /\ heap[i].message >= got + 1 + i
  BY ReceiverIs
<1>3. \A i \in 1 .. Len(heap) : heap[i].message # m
  BY <1>1 DEF Ahead
<1>4. Push(heap, Plus(s, o), p) = InsertAt(heap, c + 1, p)
  BY DEF Push
<1>5. \A i \in 1 .. Len(heap) :
         i \in before <=> Minus(heap[i].order, Plus(s, o)) < Minus(p.order, Plus(s, o))
  BY <1>1
<1>6. /\ m \in 1 .. MaxMessages /\ p.order = Plus(s, m - 1) /\ m - 1 \in Number /\ o \in Number
      /\ o <= got /\ o \in Int
  <2>1. m \in 1 .. MaxMessages
    BY <1>1
  <2>2. o \in 0 .. got
    OBVIOUS
  <2> HIDE DEF got
  <2>3. o \in Int /\ o >= 0 /\ o <= got /\ got \in Int
    BY <1>1, <2>2
  <2>4. o \in Number
    BY <1>1, <2>3, ModulusIs DEF Number
  <2>5. QED BY <2>1, <2>3, <2>4, PacketIs
<1> HIDE DEF got, heap, p, before, c
<1>7. ASSUME NEW i \in 1 .. Len(heap)
      PROVE  i \in before <=> heap[i].message < m
  <2> DEFINE w == heap[i].message
  <2>1. w \in 1 .. n /\ w > got /\ heap[i].order = Plus(s, w - 1)
    BY <1>1, <1>2
  <2> HIDE DEF w
  <2>2. n < Modulus
    BY <1>1, ModulusIs DEF NothingOutlivesTheCircle
  <2>3. w - 1 \in Number
    BY <1>1, <2>1, <2>2, ModulusIs DEF Number
  <2>4. Minus(Plus(s, w - 1), Plus(s, o)) =
           IF w - 1 < o THEN w - 1 - o + Modulus ELSE w - 1 - o
    <3>1. w - 1 \in Number /\ o \in Number /\ w \in Int /\ o \in Int
      BY <1>1, <1>6, <2>1, <2>3
    <3>2. QED BY <3>1, FromStart
  <2>5. Minus(Plus(s, m - 1), Plus(s, o)) =
           IF m - 1 < o THEN m - 1 - o + Modulus ELSE m - 1 - o
    BY <1>6, FromStart
  <2>6. m \in Int /\ m > got + 1 /\ got \in Int
    BY <1>1 DEF got
  <2>7. Minus(heap[i].order, Plus(s, o)) = w - 1 - o
    BY <1>6, <2>1, <2>4, <2>6
  <2>8. Minus(p.order, Plus(s, o)) = m - 1 - o
    BY <1>6, <2>5, <2>6
  <2>9. i \in before <=> w < m
    BY <1>5, <1>6, <2>1, <2>6, <2>7, <2>8
  <2>10. QED BY <2>9 DEF w
<1>8. /\ c \in 0 .. Len(heap)
      /\ \A i \in 1 .. c : i \in before
      /\ c < Len(heap) => c + 1 \notin before
  BY <1>1, LeadingIs DEF c
<1>9. c \in Nat /\ c <= Len(heap) /\ c + 1 \in 1 .. Len(heap) + 1 /\ (c + 1) - 1 = c
  BY <1>1, <1>8
<1>10. \A i \in 1 .. c : heap[i].message < m
  BY <1>1, <1>7, <1>8, <1>9
<1>11. c + 1 <= Len(heap) => heap[c + 1].message > m
  <2>1. SUFFICES ASSUME c + 1 <= Len(heap) PROVE heap[c + 1].message > m
    OBVIOUS
  <2>2. c + 1 \in 1 .. Len(heap) /\ c < Len(heap)
    BY <1>1, <1>9, <2>1
  <2>3. ~(heap[c + 1].message < m)
    BY <1>7, <1>8, <2>2
  <2>4. heap[c + 1].message # m /\ heap[c + 1].message \in 1 .. n
    BY <1>2, <1>3, <2>2
  <2>5. QED BY <1>1, <2>3, <2>4
<1>12. QED
  <2>1. /\ Push(heap, Plus(s, o), p) = InsertAt(heap, c + 1, p)
        /\ \A i \in 1 .. (c + 1) - 1 : heap[i].message < m
        /\ c + 1 <= Len(heap) => heap[c + 1].message > m
    BY <1>4, <1>9, <1>10, <1>11
  <2>2. QED BY <1>9, <2>1 DEF heap, p

\* A message ahead of the one that is waited for: it is put in the heap.
LEMMA DelayIs ==
    ASSUME NothingOutlivesTheCircle, NEW s \in Number, NEW n \in 0 .. MaxMessages,
           NEW r, ReceiverOK(s, n, r), NEW m \in 1 .. n, m > Len(r.outputQueue) + 1,
           m \notin Ahead(r), m - 1 - Len(r.outputQueue) <= MaxHole
    PROVE  Receives(s, n, r, m, ReceivePacket(r, PacketOf(s, m)))
<1> DEFINE got == Len(r.outputQueue)
           K == Ahead(r) \cup {m}
           p == PacketOf(s, m)
           heap == r.orderingHeap
           mark == MarkReceived(r, p)
           offset == IF mark.orderingHeap = << >> THEN mark.orderedReadIndex
                                                  ELSE mark.heapIndexOffset
           next == ReceivePacket(r, p)
<1>1. /\ r \in ReceiverRecord
      /\ got \in 0 .. n /\ got \in Number /\ n \in Nat /\ n <= MaxMessages
      /\ MaxMessages \in Nat /\ heap \in Seq(Packet)
      /\ Len(heap) \in Nat /\ DOMAIN heap = 1 .. Len(heap)
  BY ReceiverIs
<1>2. \A i \in 1 .. Len(heap) :
         /\ heap[i].message \in 1 .. n
         /\ heap[i] = PacketOf(s, heap[i].message)
         /\ heap[i].message >= got + 1 + i
  BY ReceiverIs
<1>3. \A k \in Ahead(r) : k \in 1 .. n /\ k > got + 1
  BY ReceiverIs
<1>4. /\ m \in Int /\ m > got + 1 /\ m \in 1 .. MaxMessages /\ m \notin Came(r)
      /\ m - 1 - got <= MaxHole
  <2>1. m \in Int /\ m > got + 1 /\ m \in 1 .. MaxMessages
    BY <1>1
  <2>2. m \notin 1 .. got /\ m \notin Ahead(r)
    BY <1>1
  <2>3. QED BY <2>1, <2>2 DEF Came
<1>5. /\ p.message = m /\ p.order = Plus(s, m - 1) /\ p \in Packet
      /\ m - 1 \in Number
  BY <1>4, PacketIs
<1>6. /\ r.orderedReadIndex = Plus(s, got) /\ r.receivedPacketsBaseIndex = Plus(s, got)
      /\ Plus(s, got) \in Number
  BY <1>1, PlusWraps DEF ReceiverOK
<1>7. PICK come \in Nat, queue \in Seq(BOOLEAN) : MarkedWith(s, r, m, come, queue)
  BY <1>4, MarkIs
<1>8. /\ \A i \in 1 .. come : got + i \in K
      /\ got + come + 1 \notin K
      /\ QueueOK(queue, got + come, K)
      /\ mark = [r EXCEPT !.hasReceivedPacketQueue = queue,
                          !.receivedPacketsBaseIndex = Plus(s, got + come)]
  BY <1>7 DEF MarkedWith
<1>9. ~IsDuplicate(r, p)
  BY <1>4, DuplicatesCame
<1>10. come = 0 /\ got + come = got
  <2>1. got + 1 \notin K
    BY <1>1, <1>3, <1>4
  <2>2. come # 0 => 1 \in 1 .. come
    OBVIOUS
  <2>3. come = 0
    BY <1>8, <2>1, <2>2
  <2>4. QED BY <1>1, <2>3
<1>11. /\ mark.orderedReadIndex = Plus(s, got)
       /\ mark.orderingHeap = heap
       /\ mark.heapIndexOffset = r.heapIndexOffset
       /\ mark.outputQueue = r.outputQueue
       /\ mark.hasReceivedPacketQueue = queue
       /\ mark.receivedPacketsBaseIndex = Plus(s, got)
       /\ mark = [receivedPacketsBaseIndex |-> mark.receivedPacketsBaseIndex,
                  hasReceivedPacketQueue |-> mark.hasReceivedPacketQueue,
                  orderedReadIndex |-> mark.orderedReadIndex,
                  heapIndexOffset |-> mark.heapIndexOffset,
                  orderingHeap |-> mark.orderingHeap,
                  outputQueue |-> mark.outputQueue]
  <2> HIDE DEF mark
  <2>1. QED BY <1>1, <1>6, <1>8, <1>10 DEF ReceiverRecord
<1>12. next = Delay(mark, p)
  <2>1. p.order # Plus(s, got)
    <3>1. got \in Number /\ m - 1 \in Number /\ m - 1 # got
      BY <1>1, <1>4, <1>5
    <3>2. QED BY <1>5, <3>1, FromStart
  <2>2. ~IsOlderOrderedPacket(p.order, Plus(s, got))
    <3> DEFINE d == m - 1 - got
    <3>1. d \in 0 .. HalfSpan /\ got + d = m - 1
      <4>1. m - 1 <= HalfSpan
        BY <1>4, LayerAssumption, ModulusIs DEF NothingOutlivesTheCircle
      <4> HIDE DEF got
      <4>2. QED BY <1>1, <1>4, <4>1, ModulusIs
    <3>2. d \in Number /\ got + d < Modulus
      <4> HIDE DEF got, d
      <4>1. QED BY <1>1, <1>5, <3>1, ModulusIs DEF Number
    <3> HIDE DEF d, got
    <3>3. Plus(Plus(s, got), d) = Plus(s, got + d)
      BY <1>1, <3>2, FromStart
    <3>4. ~IsOlderOrderedPacket(Plus(Plus(s, got), d), Plus(s, got))
      BY <1>6, <3>1, NewerIsNotOlder
    <3>5. QED BY <1>5, <3>1, <3>3, <3>4
  <2> HIDE DEF p, mark
  <2>3. InOrder(mark, p) = Delay(mark, p)
    BY <1>11, <2>1, <2>2 DEF InOrder
  <2>4. QED BY <1>9, <2>3 DEF ReceivePacket, mark
<1>13. PICK o \in 0 .. got : offset = Plus(s, o)
  <2>1. CASE heap = << >>
    <3>1. got \in 0 .. got
      BY <1>1
    <3>2. offset = Plus(s, got)
      BY <1>11, <2>1
    <3>3. QED BY <3>1, <3>2
  <2>2. CASE heap # << >>
    <3>1. offset = r.heapIndexOffset
      BY <1>11, <2>2
    <3>2. \E o \in 0 .. got : r.heapIndexOffset = Plus(s, o)
      BY <2>2 DEF ReceiverOK, HeapOK
    <3>3. QED BY <3>1, <3>2
  <2>3. QED BY <2>1, <2>2
<1>14. PICK k \in 1 .. Len(heap) + 1 :
          /\ Push(heap, Plus(s, o), p) = InsertAt(heap, k, p)
          /\ \A i \in 1 .. k - 1 : heap[i].message < m
          /\ k <= Len(heap) => heap[k].message > m
  BY PushIs
<1> DEFINE heap2 == InsertAt(heap, k, p)
<1>15. next = [mark EXCEPT !.heapIndexOffset = offset,
                           !.orderingHeap = Push(mark.orderingHeap, offset, p)]
  BY <1>12 DEF Delay
<1> HIDE DEF mark, next, offset, p, heap2
<1>16. /\ next.receivedPacketsBaseIndex = Plus(s, got)
       /\ next.hasReceivedPacketQueue = queue
       /\ next.orderedReadIndex = Plus(s, got)
       /\ next.heapIndexOffset = Plus(s, o)
       /\ next.orderingHeap = heap2
       /\ next.outputQueue = r.outputQueue
       /\ next = [receivedPacketsBaseIndex |-> next.receivedPacketsBaseIndex,
                  hasReceivedPacketQueue |-> next.hasReceivedPacketQueue,
                  orderedReadIndex |-> next.orderedReadIndex,
                  heapIndexOffset |-> next.heapIndexOffset,
                  orderingHeap |-> next.orderingHeap,
                  outputQueue |-> next.outputQueue]
  <2>1. Push(mark.orderingHeap, offset, p) = heap2
    BY <1>11, <1>13, <1>14 DEF heap2
  <2>2. QED BY <1>11, <1>13, <1>15, <2>1
<1>17. /\ heap2 \in Seq(Packet)
       /\ Len(heap2) = Len(heap) + 1
       /\ DOMAIN heap2 = 1 .. Len(heap) + 1
       /\ \A i \in 1 .. Len(heap) + 1 :
             heap2[i] = IF i < k THEN heap[i] ELSE IF i = k THEN p ELSE heap[i - 1]
  <2>1. heap \in Seq(Packet) /\ p \in Packet
    BY <1>1, <1>5
  <2>2. k \in 1 .. Len(heap) + 1
    OBVIOUS
  <2> HIDE DEF heap
  <2>3. /\ heap2 \in Seq(Packet)
        /\ Len(heap2) = Len(heap) + 1
        /\ \A i \in 1 .. Len(heap) + 1 :
             heap2[i] = IF i < k THEN heap[i] ELSE IF i = k THEN p ELSE heap[i - 1]
    BY <2>1, <2>2, InsertAtIs DEF heap2
  <2>4. QED BY <2>3, LenProperties
<1> HIDE DEF heap, got
<1>18. /\ \A i \in 1 .. k - 1 : i \in 1 .. Len(heap) /\ i < k /\ i # k
       /\ \A i \in k + 1 .. Len(heap) + 1 : i - 1 \in 1 .. Len(heap) /\ ~(i < k) /\ i # k
       /\ \A i \in 1 .. Len(heap) + 1 : i \in 1 .. k - 1 \/ i = k \/ i \in k + 1 .. Len(heap) + 1
  BY <1>1
<1>19. \A i \in 1 .. Len(heap) + 1 :
          \/ heap2[i] = p
          \/ \E j \in 1 .. Len(heap) : heap2[i] = heap[j]
  BY <1>17, <1>18
<1>20. /\ \A i \in 1 .. Len(heap) : \E j \in 1 .. Len(heap) + 1 : heap[i] = heap2[j]
       /\ \E j \in 1 .. Len(heap) + 1 : p = heap2[j]
  <2>1. ASSUME NEW i \in 1 .. Len(heap)
        PROVE  \E j \in 1 .. Len(heap) + 1 : heap[i] = heap2[j]
    <3>1. CASE i < k
      <4>1. i \in 1 .. Len(heap) + 1
        BY <1>1
      <4>2. QED BY <1>17, <3>1, <4>1
    <3>2. CASE ~(i < k)
      <4>1. i + 1 \in 1 .. Len(heap) + 1 /\ ~(i + 1 < k) /\ i + 1 # k /\ (i + 1) - 1 = i
        BY <1>1, <3>2
      <4>2. heap2[i + 1] = heap[(i + 1) - 1]
        BY <1>17, <4>1
      <4>3. QED BY <4>1, <4>2
    <3>3. QED BY <3>1, <3>2
  <2>2. heap2[k] = p
    BY <1>17
  <2>3. QED BY <2>1, <2>2
<1>21. HeapOK(s, n, next)
  <2>1. AreNumbered(s, n, heap2)
    <3>1. ASSUME NEW i \in DOMAIN heap2
          PROVE  \E x \in 1 .. n : heap2[i] = PacketOf(s, x)
      <4>1. CASE heap2[i] = p
        BY <4>1 DEF p
      <4>2. CASE \E j \in 1 .. Len(heap) : heap2[i] = heap[j]
        BY <1>2, <4>2
      <4>3. QED BY <1>17, <1>19, <4>1, <4>2
    <3>2. QED BY <3>1 DEF AreNumbered
  <2> DEFINE f == [i \in 1 .. Len(heap) |-> heap[i].message]
             g == [i \in 1 .. Len(heap) + 1 |-> heap2[i].message]
             L == Len(heap)
             b == got + 1
  <2>2. f \in [1 .. L -> Int] /\ (\A i \in 1 .. L : f[i] >= b + i) /\ b \in Int /\ L \in Nat
    BY <1>1, <1>2
  <2>3. \A i, j \in 1 .. L : i < j => f[j] >= f[i] + (j - i)
    BY <1>1 DEF ReceiverOK, HeapOK, heap
  <2>4. /\ (\A i \in 1 .. k - 1 : f[i] < m) /\ (k <= L => f[k] > m) /\ m >= b + 1 /\ m \in Int
        /\ k \in 1 .. L + 1
    <3>1. \A i \in 1 .. k - 1 : f[i] < m
      BY <1>14, <1>18
    <3>2. k <= L => k \in 1 .. L
      BY <1>1
    <3>3. m >= b + 1
      BY <1>1, <1>4
    <3>4. QED BY <1>4, <1>14, <3>1, <3>2, <3>3
  <2>5. \A i \in 1 .. L + 1 :
           g[i] = IF i < k THEN f[i] ELSE IF i = k THEN m ELSE f[i - 1]
    <3>1. ASSUME NEW i \in 1 .. L + 1
          PROVE  g[i] = IF i < k THEN f[i] ELSE IF i = k THEN m ELSE f[i - 1]
      <4>1. CASE i < k
        <5>1. i \in 1 .. L
          BY <1>1, <4>1
        <5>2. QED BY <1>17, <4>1, <5>1
      <4>2. CASE i = k
        BY <1>5, <1>17, <4>2
      <4>3. CASE ~(i < k) /\ i # k
        <5>1. i - 1 \in 1 .. L
          BY <1>1, <4>3
        <5>2. QED BY <1>17, <4>3, <5>1
      <4>4. QED BY <4>1, <4>2, <4>3
    <3>2. QED BY <3>1
  <2>6. g \in [1 .. L + 1 -> Int]
    <3>1. ASSUME NEW i \in 1 .. L + 1
          PROVE  heap2[i].message \in Int
      <4>1. CASE heap2[i] = p
        BY <1>4, <1>5, <4>1
      <4>2. ASSUME NEW j \in 1 .. Len(heap), heap2[i] = heap[j]
            PROVE  heap2[i].message \in Int
        BY <1>1, <1>2, <4>2
      <4>3. QED BY <1>19, <4>1, <4>2
    <3>2. QED BY <3>1
  <2>7. /\ \A i \in 1 .. L + 1 : heap2[i].message = g[i]
        /\ 1 .. L + 1 = DOMAIN heap2
    BY <1>17
  <2> HIDE DEF f, g, L, b
  <2>8. /\ \A i \in 1 .. L + 1 : g[i] >= b + i
        /\ \A i, j \in 1 .. L + 1 : i < j => g[j] >= g[i] + (j - i)
    BY <2>2, <2>3, <2>4, <2>5, <2>6, InsertedGrows
  <2>9. /\ \A i \in DOMAIN heap2 : heap2[i].message >= got + 1 + i
        /\ \A i, j \in DOMAIN heap2 : i < j => heap2[j].message >= heap2[i].message + (j - i)
    BY <2>7, <2>8 DEF b
  <2>10. QED
    BY <1>13, <1>16, <2>1, <2>9 DEF HeapOK, got
<1>22. Ahead(next) = K
  <2>1. ASSUME NEW x
        PROVE  x \in Ahead(next) <=> x \in Ahead(r) \/ x = m
    <3>1. x \in Ahead(next) <=> \E i \in 1 .. Len(heap) + 1 : x = heap2[i].message
      BY <1>16, <1>17 DEF Ahead
    <3>2. x \in Ahead(r) <=> \E i \in 1 .. Len(heap) : x = heap[i].message
      BY <1>1 DEF Ahead, heap
    <3>3. QED BY <1>5, <1>19, <1>20, <3>1, <3>2
  <2>2. QED BY <2>1
<1>23. Came(next) = Came(r) \cup {m}
  BY <1>16, <1>22 DEF Came, got
<1>24. next \in ReceiverRecord
  <2>1. Plus(s, o) \in Number
    <3>1. o \in Number
      BY <1>1, ModulusIs DEF Number
    <3>2. QED BY <3>1, PlusWraps
  <2>2. r.outputQueue \in Seq(1 .. MaxMessages)
    BY <1>1 DEF ReceiverRecord
  <2>3. QED BY <1>6, <1>16, <1>17, <2>1, <2>2 DEF ReceiverRecord
<1>25. QueueOK(queue, got, Ahead(next))
  BY <1>8, <1>10, <1>22
<1>26. ReceiverOK(s, n, next)
  <2>1. r.outputQueue = [i \in 1 .. got |-> i] /\ got <= n
    BY DEF ReceiverOK, got
  <2>2. QED
    BY <1>16, <1>21, <1>24, <1>25, <2>1 DEF ReceiverOK, got
<1>27. Len(next.outputQueue) >= got
  BY <1>1, <1>16 DEF got
<1>28. QED
  BY <1>23, <1>26, <1>27 DEF Receives, next, p, got

\* A receiver that had at least what r had, and a packet: it has what the packet
\* carries, and lost nothing.
LEMMA ReceiveIs ==
    ASSUME NothingOutlivesTheCircle, NEW s \in Number, NEW n \in 0 .. MaxMessages,
           NEW r, ReceiverOK(s, n, r), NEW m \in 1 .. n,
           m - 1 - Len(r.outputQueue) <= MaxHole
    PROVE  Receives(s, n, r, m, ReceivePacket(r, PacketOf(s, m)))
<1> DEFINE got == Len(r.outputQueue)
           p == PacketOf(s, m)
<1>1. /\ got \in Nat /\ n \in Nat /\ m \in Int /\ m >= 1
      /\ \A k \in Ahead(r) : k \in 1 .. n /\ k > got + 1
  BY ReceiverIs
<1>2. IsDuplicate(r, p) <=> m \in Came(r)
  BY DuplicatesCame
<1>3. CASE m \in Came(r)
  <2>1. ReceivePacket(r, p) = r
    BY <1>2, <1>3 DEF ReceivePacket
  <2>2. Came(r) = Came(r) \cup {m}
    BY <1>3
  <2>3. Receives(s, n, r, m, r)
    BY <1>1, <2>2 DEF Receives
  <2>4. QED BY <2>1, <2>3
<1>4. CASE m \notin Came(r) /\ m = got + 1
  BY <1>4, ReleaseIs
<1>5. CASE m \notin Came(r) /\ m # got + 1
  <2>1. ~(m \in 1 .. got) /\ m \notin Ahead(r)
    BY <1>5 DEF Came
  <2>2. m > got + 1
    BY <1>1, <1>5, <2>1
  <2>3. QED BY <2>1, <2>2, DelayIs
<1>6. QED BY <1>3, <1>4, <1>5

\* The receivers a datagram may find or leave, when it found `receiver`.
Receivers(s, n) ==
    {r \in ReceiverRecord : /\ ReceiverOK(s, n, r)
                            /\ Len(r.outputQueue) >= Len(receiver.outputQueue)
                            /\ Came(receiver) \subseteq Came(r)}

\* All packets of a datagram: the receiver has what they carry, and what it had.
LEMMA ReceivePacketsIs ==
    ASSUME NothingOutlivesTheCircle, NEW s \in Number, NEW n \in 0 .. MaxMessages,
           ReceiverOK(s, n, receiver),
           NEW packets \in Seq(Packet), AreNumbered(s, n, packets),
           \A i \in DOMAIN packets :
              packets[i].message - 1 - Len(receiver.outputQueue) <= MaxHole
    PROVE  /\ ReceivePackets(packets) \in Receivers(s, n)
           /\ \A i \in DOMAIN packets : packets[i].message \in Came(ReceivePackets(packets))
<1> DEFINE N == Len(packets)
           R == Receivers(s, n)
           got == Len(receiver.outputQueue)
           Step == [e \in R \X (1 .. N) |-> ReceivePacket(e[1], packets[e[2]])]
<1>1. N \in Nat /\ DOMAIN packets = 1 .. N /\ n \in Nat /\ MaxMessages \in Nat /\ n <= MaxMessages
  BY LenProperties, ReceiverIs
<1>2. receiver \in R
  <2>1. receiver \in ReceiverRecord /\ got \in Nat
    BY ReceiverIs
  <2>2. QED BY <2>1 DEF Receivers
<1>3. ASSUME NEW i \in 1 .. N
      PROVE  /\ packets[i].message \in 1 .. n
             /\ packets[i] = PacketOf(s, packets[i].message)
  <2>1. PICK m \in 1 .. n : packets[i] = PacketOf(s, m)
    BY <1>1 DEF AreNumbered
  <2>2. m \in 1 .. MaxMessages
    BY <1>1
  <2>3. packets[i].message = m
    BY <2>1, <2>2, PacketIs
  <2>4. QED BY <2>1, <2>3
<1>4. ASSUME NEW r \in R, NEW i \in 1 .. N
      PROVE  /\ ReceivePacket(r, packets[i]) \in R
             /\ Came(ReceivePacket(r, packets[i])) = Came(r) \cup {packets[i].message}
  <2> DEFINE m == packets[i].message
             next == ReceivePacket(r, packets[i])
  <2>1. ReceiverOK(s, n, r) /\ Len(r.outputQueue) >= got /\ Came(receiver) \subseteq Came(r)
    BY DEF Receivers
  <2>2. got \in Nat /\ Len(r.outputQueue) \in Nat /\ r \in ReceiverRecord
    BY <2>1, ReceiverIs
  <2>3. m \in 1 .. n /\ packets[i] = PacketOf(s, m)
    BY <1>3
  <2>4. m - 1 - got <= MaxHole
    BY <1>1
  <2>5. m - 1 - Len(r.outputQueue) <= MaxHole
    <3> HIDE DEF m, got
    <3>1. m \in Int
      BY <1>1, <2>3
    <3>2. QED BY <2>1, <2>2, <2>4, <3>1, MaxHoleIs
  <2> HIDE DEF m
  <2>6. Receives(s, n, r, m, ReceivePacket(r, PacketOf(s, m)))
    BY <2>1, <2>3, <2>5, ReceiveIs
  <2>7. next = ReceivePacket(r, PacketOf(s, m))
    BY <2>3
  <2> HIDE DEF next
  <2>8. /\ ReceiverOK(s, n, next) /\ Came(next) = Came(r) \cup {m}
        /\ Len(next.outputQueue) >= Len(r.outputQueue)
    BY <2>6, <2>7 DEF Receives
  <2>9. next \in ReceiverRecord /\ Len(next.outputQueue) \in Nat
    BY <2>8, ReceiverIs
  <2>10. Len(next.outputQueue) >= got
    BY <2>1, <2>2, <2>8, <2>9
  <2>11. Came(receiver) \subseteq Came(next)
    BY <2>1, <2>8
  <2>12. next \in R
    BY <2>8, <2>9, <2>10, <2>11 DEF Receivers
  <2>13. QED BY <2>8, <2>12 DEF next, m
<1> HIDE DEF R, N
<1>5. Step \in [R \X (1 .. N) -> R]
  BY <1>4
<1>6. \A r \in R, i \in 1 .. N : Step[<<r, i>>] = ReceivePacket(r, packets[i])
  OBVIOUS
<1> HIDE DEF Step
<1>7. PICK f : Iterates(f, R, N, receiver, Step)
  BY <1>1, <1>2, <1>5, Recursion
<1>8. /\ f[0] = receiver
      /\ \A i \in 1 .. N : f[i - 1] \in R /\ f[i] = ReceivePacket(f[i - 1], packets[i])
  <2>1. ASSUME NEW i \in 1 .. N
        PROVE  f[i - 1] \in R /\ f[i] = ReceivePacket(f[i - 1], packets[i])
    <3>1. i - 1 \in 0 .. N
      BY <1>1
    <3>2. f[i - 1] \in R
      BY <1>7, <3>1 DEF Iterates
    <3>3. f[i] = Step[<<f[i - 1], i>>]
      BY <1>7 DEF Iterates
    <3>4. QED BY <1>6, <3>2, <3>3
  <2>2. QED BY <1>7, <2>1 DEF Iterates
<1> DEFINE after[i \in 0 .. N] ==
              IF i = 0 THEN receiver ELSE ReceivePacket(after[i - 1], packets[i])
<1>9. f = [i \in 0 .. N |-> IF i = 0 THEN receiver ELSE ReceivePacket(f[i - 1], packets[i])]
  <2>1. \A i \in 0 .. N : f[i] = IF i = 0 THEN receiver ELSE ReceivePacket(f[i - 1], packets[i])
    <3>1. \A i \in 0 .. N : i # 0 => i \in 1 .. N
      BY <1>1
    <3>2. QED BY <1>8, <3>1
  <2>2. DOMAIN f = 0 .. N /\ f = [i \in DOMAIN f |-> f[i]]
    BY <1>7 DEF Iterates
  <2>3. QED BY <2>1, <2>2
<1>10. \E g : g = [i \in 0 .. N |-> IF i = 0 THEN receiver ELSE ReceivePacket(g[i - 1], packets[i])]
  BY <1>9
<1>11. after = [i \in 0 .. N |-> IF i = 0 THEN receiver
                                ELSE ReceivePacket(after[i - 1], packets[i])]
  BY <1>10
<1>12. ReceivePackets(packets) = after[N]
  BY DEF ReceivePackets, N
<1> HIDE DEF after
<1>13. /\ after[0] = receiver
       /\ \A i \in 1 .. N : after[i] = ReceivePacket(after[i - 1], packets[i])
  <2>1. 0 \in 0 .. N /\ \A i \in 1 .. N : i \in 0 .. N /\ i # 0
    BY <1>1
  <2>2. QED BY <1>11, <2>1
<1>14. \A k \in 0 .. N : /\ after[k] \in R
                        /\ \A i \in 1 .. k : packets[i].message \in Came(after[k])
  <2> DEFINE Good(k) == /\ after[k] \in R
                        /\ \A i \in 1 .. k : packets[i].message \in Came(after[k])
             T == {k \in 0 .. N : ~Good(k)}
  <2>1. SUFFICES ASSUME T # {} PROVE FALSE
    OBVIOUS
  <2>2. T \in SUBSET Nat
    BY <1>1
  <2> HIDE DEF T, Good
  <2>3. PICK k \in T : \A q \in T : k <= q
    BY <2>1, <2>2, LeastNumber
  <2>4. k \in 0 .. N /\ ~Good(k)
    BY <2>3 DEF T
  <2>5. k # 0
    <3>1. Good(0)
      BY <1>2, <1>13 DEF Good
    <3>2. QED BY <2>4, <3>1
  <2>6. k - 1 \in 0 .. N /\ k \in 1 .. N /\ ~(k <= k - 1)
    BY <1>1, <2>4, <2>5
  <2>7. Good(k - 1)
    BY <2>3, <2>6 DEF T
  <2>8. after[k] = ReceivePacket(after[k - 1], packets[k])
    BY <1>13, <2>6
  <2>9. after[k - 1] \in R /\ \A i \in 1 .. k - 1 : packets[i].message \in Came(after[k - 1])
    BY <2>7 DEF Good
  <2>10. after[k] \in R /\ Came(after[k]) = Came(after[k - 1]) \cup {packets[k].message}
    BY <1>4, <2>6, <2>8, <2>9
  <2>11. \A i \in 1 .. k : i \in 1 .. k - 1 \/ i = k
    BY <2>6
  <2>12. Good(k)
    BY <2>9, <2>10, <2>11 DEF Good
  <2>13. QED BY <2>4, <2>12
<1>15. N \in 0 .. N
  BY <1>1
<1>16. QED
  BY <1>1, <1>12, <1>14, <1>15 DEF R

-----------------------------------------------------------------------------
(* The sender: its lists, and the slots of the resend buffer.              *)

\* A new element at the end keeps a list without repetitions one.
LEMMA AppendIs ==
    ASSUME NEW S, NEW s \in Seq(S), NEW e \in S, IsInjective(s), e \notin Range(s)
    PROVE  /\ Append(s, e) \in Seq(S)
           /\ IsInjective(Append(s, e))
           /\ Range(Append(s, e)) = Range(s) \cup {e}
<1> DEFINE t == Append(s, e)
<1>1. /\ t \in Seq(S) /\ Len(t) = Len(s) + 1 /\ Len(s) \in Nat
      /\ \A i \in 1 .. Len(s) : t[i] = s[i]
      /\ t[Len(s) + 1] = e
  BY AppendProperties, LenProperties
<1>2. DOMAIN s = 1 .. Len(s) /\ DOMAIN t = 1 .. Len(s) + 1
  BY <1>1, LenProperties
<1> HIDE DEF t
<1>3. \A i \in 1 .. Len(s) + 1 : i \in 1 .. Len(s) \/ i = Len(s) + 1
  BY <1>1
<1>4. \A i \in 1 .. Len(s) : s[i] # e
  BY <1>2 DEF Range
<1>5. IsInjective(t)
  <2>1. ASSUME NEW a \in 1 .. Len(s) + 1, NEW b \in 1 .. Len(s) + 1, t[a] = t[b]
        PROVE  a = b
    <3>1. CASE a \in 1 .. Len(s) /\ b \in 1 .. Len(s)
      BY <1>1, <1>2, <2>1, <3>1 DEF IsInjective
    <3>2. CASE a \in 1 .. Len(s) /\ b = Len(s) + 1
      BY <1>1, <1>4, <2>1, <3>2
    <3>3. CASE a = Len(s) + 1 /\ b \in 1 .. Len(s)
      BY <1>1, <1>4, <2>1, <3>3
    <3>4. CASE a = Len(s) + 1 /\ b = Len(s) + 1
      BY <3>4
    <3>5. QED BY <1>3, <3>1, <3>2, <3>3, <3>4
  <2>2. QED BY <1>2, <2>1 DEF IsInjective
<1>6. Range(t) = Range(s) \cup {e}
  <2>1. ASSUME NEW x
        PROVE  x \in Range(t) <=> x \in Range(s) \/ x = e
    <3>1. x \in Range(t) <=> \E i \in 1 .. Len(s) + 1 : x = t[i]
      BY <1>2 DEF Range
    <3>2. x \in Range(s) <=> \E i \in 1 .. Len(s) : x = s[i]
      BY <1>2 DEF Range
    <3>3. Len(s) + 1 \in 1 .. Len(s) + 1 /\ \A i \in 1 .. Len(s) : i \in 1 .. Len(s) + 1
      BY <1>1
    <3>4. QED BY <1>1, <1>3, <3>1, <3>2, <3>3
  <2>2. QED BY <2>1
<1>7. QED BY <1>1, <1>5, <1>6 DEF t

\* The resend list keeps what is not settled, each packet once.
LEMMA UnsettledIs ==
    ASSUME NEW packets \in Seq(Packet), IsInjective(packets), NEW settled
    PROVE  /\ Unsettled(packets, settled) \in Seq(Packet)
           /\ IsInjective(Unsettled(packets, settled))
           /\ Range(Unsettled(packets, settled)) = Range(packets) \ settled
<1> DEFINE N == Len(packets)
           R == Seq(Packet)
           Step == [e \in R \X (1 .. N) |-> IF packets[e[2]] \in settled THEN e[1]
                                            ELSE Append(e[1], packets[e[2]])]
<1>1. N \in Nat /\ DOMAIN packets = 1 .. N /\ \A i \in 1 .. N : packets[i] \in Packet
  BY LenProperties, ElementOfSeq
<1>2. << >> \in R
  OBVIOUS
<1>3. ASSUME NEW l \in R, NEW i \in 1 .. N
      PROVE  Append(l, packets[i]) \in R
  BY <1>1, AppendProperties
<1> HIDE DEF N, R
<1>4. Step \in [R \X (1 .. N) -> R]
  BY <1>3
<1>5. \A l \in R, i \in 1 .. N :
         Step[<<l, i>>] = IF packets[i] \in settled THEN l ELSE Append(l, packets[i])
  OBVIOUS
<1> HIDE DEF Step
<1>6. PICK f : Iterates(f, R, N, << >>, Step)
  BY <1>1, <1>2, <1>4, Recursion
<1>7. f = [i \in 0 .. N |-> IF i = 0 THEN << >>
                            ELSE IF packets[i] \in settled THEN f[i - 1]
                            ELSE Append(f[i - 1], packets[i])]
  <2>1. ASSUME NEW i \in 1 .. N
        PROVE  f[i] = IF packets[i] \in settled THEN f[i - 1]
                      ELSE Append(f[i - 1], packets[i])
    <3>1. i - 1 \in 0 .. N
      BY <1>1
    <3>2. f[i - 1] \in R /\ f[i] = Step[<<f[i - 1], i>>]
      BY <1>6, <3>1 DEF Iterates
    <3>3. QED BY <1>5, <3>2
  <2>2. DOMAIN f = 0 .. N /\ f = [i \in DOMAIN f |-> f[i]] /\ f[0] = << >>
    BY <1>6 DEF Iterates
  <2>3. \A i \in 0 .. N : i # 0 => i \in 1 .. N
    BY <1>1
  <2>4. \A i \in 0 .. N : f[i] = IF i = 0 THEN << >>
                                 ELSE IF packets[i] \in settled THEN f[i - 1]
                                 ELSE Append(f[i - 1], packets[i])
    BY <2>1, <2>2, <2>3
  <2>5. QED BY <2>2, <2>4
<1> DEFINE left[i \in 0 .. N] ==
              IF i = 0 THEN << >>
              ELSE IF packets[i] \in settled THEN left[i - 1]
              ELSE Append(left[i - 1], packets[i])
<1>8. left = [i \in 0 .. N |-> IF i = 0 THEN << >>
                               ELSE IF packets[i] \in settled THEN left[i - 1]
                               ELSE Append(left[i - 1], packets[i])]
  <2>1. \E g : g = [i \in 0 .. N |-> IF i = 0 THEN << >>
                                     ELSE IF packets[i] \in settled THEN g[i - 1]
                                     ELSE Append(g[i - 1], packets[i])]
    BY <1>7
  <2>2. QED BY <2>1
<1>9. Unsettled(packets, settled) = left[N]
  BY DEF Unsettled, N
<1> HIDE DEF left
<1>10. /\ left[0] = << >>
       /\ \A i \in 1 .. N : left[i] = IF packets[i] \in settled THEN left[i - 1]
                                      ELSE Append(left[i - 1], packets[i])
  <2>1. 0 \in 0 .. N /\ \A i \in 1 .. N : i \in 0 .. N /\ i # 0
    BY <1>1
  <2>2. QED BY <1>8, <2>1
<1> DEFINE Good(k) == /\ left[k] \in R /\ IsInjective(left[k])
                      /\ Range(left[k]) = {packets[i] : i \in 1 .. k} \ settled
           T == {k \in 0 .. N : ~Good(k)}
<1>11. T = {}
  <2>1. SUFFICES ASSUME T # {} PROVE FALSE
    OBVIOUS
  <2>2. T \in SUBSET Nat
    BY <1>1
  <2> HIDE DEF T, Good
  <2>3. PICK k \in T : \A q \in T : k <= q
    BY <2>1, <2>2, LeastNumber
  <2>4. k \in 0 .. N /\ ~Good(k)
    BY <2>3 DEF T
  <2>5. k # 0
    <3>1. left[0] \in R /\ IsInjective(left[0]) /\ Range(left[0]) = {}
      BY <1>2, <1>10 DEF IsInjective, Range
    <3>2. {packets[i] : i \in 1 .. 0} = {}
      OBVIOUS
    <3>3. Good(0)
      BY <3>1, <3>2 DEF Good
    <3>4. QED BY <2>4, <3>3
  <2>6. /\ k - 1 \in 0 .. N /\ k \in 1 .. N /\ ~(k <= k - 1)
        /\ \A i \in 1 .. k : i \in 1 .. k - 1 \/ i = k
        /\ \A i \in 1 .. k - 1 : i \in 1 .. k /\ i \in 1 .. N /\ i # k
        /\ k \in 1 .. k
    BY <1>1, <2>4, <2>5
  <2>7. Good(k - 1)
    BY <2>3, <2>6 DEF T
  <2>8. left[k] = IF packets[k] \in settled THEN left[k - 1]
                  ELSE Append(left[k - 1], packets[k])
    BY <1>10, <2>6
  <2>9. /\ left[k - 1] \in R /\ IsInjective(left[k - 1])
        /\ Range(left[k - 1]) = {packets[i] : i \in 1 .. k - 1} \ settled
    BY <2>7 DEF Good
  <2>10. {packets[i] : i \in 1 .. k} = {packets[i] : i \in 1 .. k - 1} \cup {packets[k]}
    BY <2>6
  <2>11. CASE packets[k] \in settled
    BY <2>4, <2>8, <2>9, <2>10, <2>11 DEF Good
  <2>12. CASE packets[k] \notin settled
    <3>1. packets[k] \notin Range(left[k - 1])
      <4>1. \A i \in 1 .. k - 1 : packets[i] # packets[k]
        BY <1>1, <2>6 DEF IsInjective
      <4>2. QED BY <2>9, <4>1
    <3>2. left[k - 1] \in Seq(Packet) /\ packets[k] \in Packet
      BY <1>1, <2>6, <2>9 DEF R
    <3>3. /\ Append(left[k - 1], packets[k]) \in Seq(Packet)
          /\ IsInjective(Append(left[k - 1], packets[k]))
          /\ Range(Append(left[k - 1], packets[k])) = Range(left[k - 1]) \cup {packets[k]}
      BY <2>9, <3>1, <3>2, AppendIs
    <3>4. Good(k)
      BY <2>8, <2>9, <2>10, <2>12, <3>3 DEF Good, R
    <3>5. QED BY <2>4, <3>4
  <2>13. QED BY <2>11, <2>12
<1>12. Good(N)
  <2>1. N \in 0 .. N
    BY <1>1
  <2> HIDE DEF Good
  <2>2. QED BY <1>11, <2>1
<1>13. {packets[i] : i \in 1 .. N} = Range(packets)
  BY <1>1 DEF Range
<1>14. QED
  BY <1>9, <1>12, <1>13 DEF R

\* Plus on any natural numbers.
LEMMA PlusIsNumber ==
    ASSUME NEW a \in Nat, NEW b \in Nat
    PROVE  Plus(a, b) \in Number
<1>1. a + b \in Nat /\ Modulus \in Nat \ {0}
  BY ModulusIs
<1>2. ((a + b) % Modulus) \in 0 .. Modulus - 1
  BY <1>1, DivMod
<1>3. QED BY <1>2 DEF Plus, Number

\* Two steps on the circle are one.
LEMMA PlusPlus ==
    ASSUME NEW a \in Nat, NEW b \in Nat, NEW c \in Nat
    PROVE  Plus(Plus(a, b), c) = Plus(a, b + c)
<1> DEFINE x == a + b
           u == (x % Modulus) + c
           v == x + c
           q == (v \div Modulus) - (u \div Modulus) - (x \div Modulus)
<1>1. Modulus \in Nat \ {0} /\ x \in Nat /\ c \in Nat
  BY ModulusIs
<1> HIDE DEF x
<1>2. /\ x = (Modulus * (x \div Modulus)) + (x % Modulus)
      /\ x \div Modulus \in Int /\ (x % Modulus) \in Nat
  BY <1>1, DivMod
<1>3. u \in Nat /\ v \in Nat
  BY <1>1, <1>2
<1> HIDE DEF u, v
<1>4. /\ u = (Modulus * (u \div Modulus)) + (u % Modulus)
      /\ u \div Modulus \in Int /\ (u % Modulus) \in 0 .. Modulus - 1
      /\ v = (Modulus * (v \div Modulus)) + (v % Modulus)
      /\ v \div Modulus \in Int /\ (v % Modulus) \in 0 .. Modulus - 1
  BY <1>1, <1>3, DivMod
<1>5. v - u = Modulus * (x \div Modulus)
  BY <1>1, <1>2 DEF u, v
<1>6. (u % Modulus) - (v % Modulus) = Modulus * q
  BY <1>1, <1>2, <1>3, <1>4, <1>5
<1>7. q \in Int
  BY <1>2, <1>4
<1> HIDE DEF q
<1>8. Modulus * q > -Modulus /\ Modulus * q < Modulus
  BY <1>1, <1>4, <1>6
<1>9. q = 0
  BY <1>1, <1>7, <1>8, NoMultiple
<1>10. u % Modulus = v % Modulus
  BY <1>1, <1>4, <1>6, <1>9
<1>11. v = a + (b + c)
  BY DEF v, x
<1>12. QED
  BY <1>10, <1>11 DEF Plus, u, x

\* Two that meet after as many steps were together before.
LEMMA PlusCancel ==
    ASSUME NEW a \in Nat, NEW b \in Nat, NEW c \in Nat, NEW d \in Nat, NEW x \in Nat,
           Plus(a, b + x) = Plus(c, d + x)
    PROVE  Plus(a, b) = Plus(c, d)
<1> DEFINE u == a + b
           v == c + d
           U == u + x
           V == v + x
           q == (U \div Modulus) - (V \div Modulus) - (u \div Modulus) + (v \div Modulus)
<1>1. /\ Modulus \in Nat \ {0} /\ u \in Nat /\ v \in Nat /\ U \in Nat /\ V \in Nat
      /\ U = u + x /\ V = v + x
  BY ModulusIs
<1>2. U % Modulus = V % Modulus
  <2>1. a + (b + x) = U /\ c + (d + x) = V
    OBVIOUS
  <2> HIDE DEF U, V
  <2>2. QED BY <2>1 DEF Plus
<1> HIDE DEF u, v, U, V
<1>3. /\ u = (Modulus * (u \div Modulus)) + (u % Modulus)
      /\ u \div Modulus \in Int /\ (u % Modulus) \in 0 .. Modulus - 1
      /\ v = (Modulus * (v \div Modulus)) + (v % Modulus)
      /\ v \div Modulus \in Int /\ (v % Modulus) \in 0 .. Modulus - 1
  BY <1>1, DivMod
<1>4. /\ U = (Modulus * (U \div Modulus)) + (U % Modulus)
      /\ U \div Modulus \in Int /\ (U % Modulus) \in 0 .. Modulus - 1
      /\ V = (Modulus * (V \div Modulus)) + (V % Modulus)
      /\ V \div Modulus \in Int /\ (V % Modulus) \in 0 .. Modulus - 1
  BY <1>1, DivMod
<1>5. U - V = u - v
  BY <1>1
<1>6. (u % Modulus) - (v % Modulus) = Modulus * q
  BY <1>1, <1>2, <1>3, <1>4, <1>5
<1>7. q \in Int
  BY <1>3, <1>4
<1> HIDE DEF q
<1>8. Modulus * q > -Modulus /\ Modulus * q < Modulus
  BY <1>1, <1>3, <1>6
<1>9. q = 0
  BY <1>1, <1>7, <1>8, NoMultiple
<1>10. u % Modulus = v % Modulus
  BY <1>1, <1>3, <1>6, <1>9
<1>11. QED
  BY <1>10 DEF Plus, u, v

\* A place on the circle has the slot of the number that is counted to it.
LEMMA SlotIs ==
    ASSUME NEW s \in Number, NEW a \in Number
    PROVE  /\ SlotOf(Plus(s, a)) = (s + a) % RESEND_BUFFER_ARRAY_LENGTH
           /\ SlotOf(Plus(s, a)) \in Slot
<1> DEFINE r == RESEND_BUFFER_ARRAY_LENGTH
<1>1. r \in Nat \ {0} /\ Modulus % r = 0
  BY LayerAssumption
<1>2. s + a \in Nat /\ Modulus \in Nat /\ s \in Nat /\ a \in Nat
  BY ModulusIs DEF Number
<1> HIDE DEF r
<1>3. Plus(s, a) = (IF s + a < Modulus THEN s + a ELSE s + a - Modulus)
  BY PlusWraps
<1>4. Plus(s, a) % r = (s + a) % r
  <2>1. CASE s + a < Modulus
    BY <1>3, <2>1
  <2>2. CASE ~(s + a < Modulus)
    <3>1. s + a >= Modulus
      BY <1>2, <2>2
    <3>2. ((s + a) - Modulus) % r = (s + a) % r
      BY <1>1, <1>2, <3>1, DropMultiple
    <3>3. QED BY <1>2, <1>3, <2>2, <3>2
  <2>3. QED BY <2>1, <2>2
<1>5. ((s + a) % r) \in 0 .. r - 1
  BY <1>1, <1>2, DivMod
<1>6. QED
  BY <1>4, <1>5 DEF SlotOf, Slot, r

\* Of messages less than a resend buffer apart no two have one slot.
LEMMA OneSlot ==
    ASSUME NEW s \in Number, NEW a \in Number, NEW b \in Number,
           SlotOf(Plus(s, a)) = SlotOf(Plus(s, b)),
           a - b < RESEND_BUFFER_ARRAY_LENGTH, b - a < RESEND_BUFFER_ARRAY_LENGTH
    PROVE  a = b
<1> DEFINE r == RESEND_BUFFER_ARRAY_LENGTH
           x == s + a
           y == s + b
<1>1. r \in Nat \ {0}
  BY LayerAssumption
<1>2. x \in Nat /\ y \in Nat /\ s \in Nat /\ a \in Nat /\ b \in Nat
  BY ModulusIs DEF Number
<1>3. x % r = y % r
  BY SlotIs
<1>4. x - y < r /\ y - x < r
  BY <1>1, <1>2
<1> HIDE DEF x, y, r
<1>5. x = y
  BY <1>1, <1>2, <1>3, <1>4, SameRemainder
<1>6. QED
  BY <1>2, <1>5 DEF x, y

\* A message a resend buffer after another has its slot.
LEMMA NextRound ==
    ASSUME NEW s \in Number, NEW a \in Number, a + RESEND_BUFFER_ARRAY_LENGTH \in Number
    PROVE  SlotOf(Plus(s, a + RESEND_BUFFER_ARRAY_LENGTH)) = SlotOf(Plus(s, a))
<1> DEFINE r == RESEND_BUFFER_ARRAY_LENGTH
           x == s + (a + r)
<1>1. r \in Nat \ {0}
  BY LayerAssumption
<1>2. s \in Nat /\ a \in Nat /\ x \in Nat /\ x >= r /\ x - r = s + a
  BY <1>1, ModulusIs DEF Number
<1>3. r % r = 0
  BY <1>1
<1>4. SlotOf(Plus(s, a + r)) = x % r /\ SlotOf(Plus(s, a)) = (s + a) % r
  BY SlotIs
<1> HIDE DEF x, r
<1>5. (x - r) % r = x % r
  BY <1>1, <1>2, <1>3, DropMultiple
<1>6. QED
  BY <1>2, <1>4, <1>5 DEF r

\* Datagrams are made of the packets they are cut from.
Carries(leaving, packets) ==
    /\ leaving \in Seq(Seq(Packet))
    /\ \A d \in DOMAIN leaving : \A j \in DOMAIN leaving[d] :
          leaving[d][j] \in Range(packets)

\* Cutting packets into datagrams makes no packet up.
LEMMA InDatagramsIs ==
    ASSUME NEW packets \in Seq(Packet)
    PROVE  Carries(InDatagrams(packets), packets)
<1> DEFINE N == Len(packets)
           cut(d) == d * PerDatagram
           count == (N + PerDatagram - 1) \div PerDatagram
           upto(d) == IF cut(d) < N THEN cut(d) ELSE N
           datagram(d) == SubSeq(packets, cut(d - 1) + 1, upto(d))
           cuts == [d \in 1 .. count |-> datagram(d)]
<1>1. PerDatagram \in Nat \ {0} /\ N \in Nat /\ DOMAIN packets = 1 .. N
  BY LayerAssumption, LenProperties
<1>2. count \in Nat
  <2> DEFINE total == N + PerDatagram - 1
  <2>1. total \in Nat
    BY <1>1
  <2> HIDE DEF total
  <2>2. /\ total \div PerDatagram \in Int /\ (total % PerDatagram) \in 0 .. PerDatagram - 1
        /\ total = PerDatagram * (total \div PerDatagram) + (total % PerDatagram)
    BY <1>1, <2>1, DivMod
  <2>3. total \div PerDatagram >= 0
    <3> DEFINE x == total \div PerDatagram
               y == total % PerDatagram
               z == PerDatagram * x
    <3>1. x \in Int /\ y \in 0 .. PerDatagram - 1 /\ total = PerDatagram * x + y
      BY <2>2
    <3> HIDE DEF x, y
    <3>2. x \in Int /\ total = z + y /\ y \in Int /\ y < PerDatagram /\ z \in Int
      BY <1>1, <3>1
    <3>3. ASSUME x <= -1 PROVE FALSE
      <4>1. z <= -PerDatagram
        BY <1>1, <3>2, <3>3
      <4> HIDE DEF z
      <4>2. QED BY <1>1, <2>1, <3>2, <4>1
    <3>4. x >= 0
      BY <3>2, <3>3
    <3>5. QED BY <3>4 DEF x
  <2>4. QED BY <2>2, <2>3 DEF total
<1>3. InDatagrams(packets) = cuts
  BY DEF InDatagrams
<1>4. ASSUME NEW d \in 1 .. count
      PROVE  /\ datagram(d) \in Seq(Packet)
             /\ \A j \in DOMAIN datagram(d) : datagram(d)[j] \in Range(packets)
  <2> DEFINE a == cut(d - 1)
             b == upto(d)
  <2>1. a \in Nat /\ b \in Nat /\ b <= N
    <3>1. d - 1 \in Nat /\ d \in Nat
      BY <1>2
    <3>2. a \in Nat /\ cut(d) \in Nat
      BY <1>1, <3>1
    <3>3. QED BY <1>1, <3>2
  <2> HIDE DEF a, b, N
  <2>2. CASE a <= b
    <3>1. /\ SubSeq(packets, a + 1, b) \in Seq(Packet)
          /\ Len(SubSeq(packets, a + 1, b)) = b - a
          /\ \A i \in 1 .. b - a : SubSeq(packets, a + 1, b)[i] = packets[a + i]
      BY <2>1, <2>2, SubSeqIs DEF N
    <3>2. DOMAIN SubSeq(packets, a + 1, b) = 1 .. b - a
      BY <3>1, LenProperties
    <3>3. \A i \in 1 .. b - a : a + i \in 1 .. N
      BY <1>1, <2>1
    <3>4. \A i \in 1 .. b - a : packets[a + i] \in Range(packets)
      BY <1>1, <3>3 DEF Range
    <3>5. QED BY <3>1, <3>2, <3>4 DEF a, b
  <2>3. CASE ~(a <= b)
    <3>1. \A i \in 1 .. N : packets[i] \in Packet
      BY ElementOfSeq DEF N
    <3>2. SubSeq(packets, a + 1, b) = << >>
      BY <1>1, <2>1, <2>3, SubSeqProperties, EmptySeq
    <3>3. << >> \in Seq(Packet) /\ DOMAIN << >> = {}
      OBVIOUS
    <3>4. QED BY <3>2, <3>3 DEF a, b
  <2>4. QED BY <2>1, <2>2, <2>3
<1> HIDE DEF datagram, count, upto, cut, N
<1>5. cuts \in Seq(Seq(Packet)) /\ DOMAIN cuts = 1 .. count
  <2>1. cuts \in [1 .. count -> Seq(Packet)]
    BY <1>4
  <2> HIDE DEF cuts
  <2>2. QED BY <1>2, <2>1, FunctionIsSeq
<1>6. ASSUME NEW d \in 1 .. count, NEW j \in DOMAIN cuts[d]
      PROVE  cuts[d][j] \in Range(packets)
  <2>1. cuts[d] = datagram(d)
    OBVIOUS
  <2> HIDE DEF cuts
  <2>2. QED BY <1>4, <2>1
<1> HIDE DEF cuts
<1>7. Carries(cuts, packets)
  BY <1>5, <1>6 DEF Carries
<1>8. QED BY <1>3, <1>7

\* Sequences, end to end.
LEMMA JoinedRange ==
    ASSUME NEW S, NEW s \in Seq(S), NEW t \in Seq(S)
    PROVE  Range(s \o t) = Range(s) \cup Range(t)
<1>1. /\ s \o t \in Seq(S)
      /\ Len(s \o t) = Len(s) + Len(t) /\ Len(s) \in Nat /\ Len(t) \in Nat
      /\ \A i \in 1 .. Len(s) : (s \o t)[i] = s[i]
      /\ \A i \in 1 .. Len(t) : (s \o t)[Len(s) + i] = t[i]
      /\ \A i \in 1 .. Len(s \o t) :
            \/ i \in 1 .. Len(s)
            \/ i - Len(s) \in 1 .. Len(t) /\ (s \o t)[i] = t[i - Len(s)]
  BY ConcatIs
<1>2. DOMAIN s = 1 .. Len(s) /\ DOMAIN t = 1 .. Len(t) /\ DOMAIN (s \o t) = 1 .. Len(s \o t)
  BY <1>1, LenProperties
<1> DEFINE u == s \o t
<1>3. \A i \in 1 .. Len(s) : i \in 1 .. Len(u)
  BY <1>1
<1>4. \A i \in 1 .. Len(t) : Len(s) + i \in 1 .. Len(u)
  BY <1>1
<1>5. ASSUME NEW x
      PROVE  x \in Range(u) <=> x \in Range(s) \/ x \in Range(t)
  <2>1. x \in Range(u) <=> \E i \in 1 .. Len(u) : x = u[i]
    BY <1>2 DEF Range
  <2>2. x \in Range(s) <=> \E i \in 1 .. Len(s) : x = s[i]
    BY <1>2 DEF Range
  <2>3. x \in Range(t) <=> \E i \in 1 .. Len(t) : x = t[i]
    BY <1>2 DEF Range
  <2> HIDE DEF u
  <2>4. (\E i \in 1 .. Len(u) : x = u[i]) =>
           (\E i \in 1 .. Len(s) : x = s[i]) \/ (\E i \in 1 .. Len(t) : x = t[i])
    BY <1>1 DEF u
  <2>5. (\E i \in 1 .. Len(s) : x = s[i]) => \E i \in 1 .. Len(u) : x = u[i]
    BY <1>1, <1>3 DEF u
  <2>6. (\E i \in 1 .. Len(t) : x = t[i]) => \E i \in 1 .. Len(u) : x = u[i]
    BY <1>1, <1>4 DEF u
  <2>7. QED BY <2>1, <2>2, <2>3, <2>4, <2>5, <2>6
<1>6. QED BY <1>5

\* Two lists without repetitions, and without a common element.
LEMMA JoinedInjective ==
    ASSUME NEW S, NEW s \in Seq(S), NEW t \in Seq(S), IsInjective(s), IsInjective(t),
           Range(s) \cap Range(t) = {}
    PROVE  IsInjective(s \o t)
<1>1. /\ s \o t \in Seq(S)
      /\ Len(s \o t) = Len(s) + Len(t) /\ Len(s) \in Nat /\ Len(t) \in Nat
      /\ \A i \in 1 .. Len(s) : (s \o t)[i] = s[i]
      /\ \A i \in 1 .. Len(s \o t) :
            \/ i \in 1 .. Len(s)
            \/ i - Len(s) \in 1 .. Len(t) /\ (s \o t)[i] = t[i - Len(s)]
  BY ConcatIs
<1>2. DOMAIN s = 1 .. Len(s) /\ DOMAIN t = 1 .. Len(t) /\ DOMAIN (s \o t) = 1 .. Len(s \o t)
  BY <1>1, LenProperties
<1>3. \A i \in 1 .. Len(s), j \in 1 .. Len(t) : s[i] # t[j]
  BY <1>2 DEF Range
<1> DEFINE u == s \o t
<1>4. /\ \A i \in 1 .. Len(s) : u[i] = s[i]
      /\ \A i \in 1 .. Len(u) : \/ i \in 1 .. Len(s)
                                \/ i - Len(s) \in 1 .. Len(t) /\ u[i] = t[i - Len(s)]
      /\ Len(u) \in Nat /\ DOMAIN u = 1 .. Len(u)
  BY <1>1, <1>2
<1> HIDE DEF u
<1>5. ASSUME NEW a \in 1 .. Len(u), NEW b \in 1 .. Len(u), u[a] = u[b]
      PROVE  a = b
  <2>1. CASE a \in 1 .. Len(s) /\ b \in 1 .. Len(s)
    BY <1>2, <1>4, <1>5, <2>1 DEF IsInjective
  <2>2. CASE a \in 1 .. Len(s) /\ b \notin 1 .. Len(s)
    BY <1>3, <1>4, <1>5, <2>2
  <2>3. CASE a \notin 1 .. Len(s) /\ b \in 1 .. Len(s)
    BY <1>3, <1>4, <1>5, <2>3
  <2>4. CASE a \notin 1 .. Len(s) /\ b \notin 1 .. Len(s)
    <3>1. /\ a - Len(s) \in 1 .. Len(t) /\ u[a] = t[a - Len(s)]
          /\ b - Len(s) \in 1 .. Len(t) /\ u[b] = t[b - Len(s)]
      BY <1>4, <2>4
    <3>2. a - Len(s) = b - Len(s)
      BY <1>2, <1>5, <3>1 DEF IsInjective
    <3>3. QED BY <1>1, <1>4, <3>2
  <2>5. QED BY <2>1, <2>2, <2>3, <2>4
<1>6. IsInjective(u)
  BY <1>4, <1>5 DEF IsInjective
<1>7. QED BY <1>6 DEF u

\* The two parts of a sequence.
LEMMA PartsAre ==
    ASSUME NEW S, NEW s \in Seq(S), NEW k \in 0 .. Len(s)
    PROVE  /\ SubSeq(s, 1, k) \in Seq(S) /\ SubSeq(s, k + 1, Len(s)) \in Seq(S)
           /\ Range(SubSeq(s, 1, k)) \cup Range(SubSeq(s, k + 1, Len(s))) = Range(s)
           /\ IsInjective(s) =>
                 /\ IsInjective(SubSeq(s, 1, k)) /\ IsInjective(SubSeq(s, k + 1, Len(s)))
                 /\ Range(SubSeq(s, 1, k)) \cap Range(SubSeq(s, k + 1, Len(s))) = {}
<1> DEFINE N == Len(s)
           one == SubSeq(s, 1, k)
           two == SubSeq(s, k + 1, Len(s))
<1>1. /\ N \in Nat /\ k \in Nat /\ k <= N /\ DOMAIN s = 1 .. N /\ 0 + 1 = 1 /\ k - 0 = k
      /\ N <= N /\ 0 \in Nat /\ 0 <= k
  BY LenProperties
<1>2. /\ one \in Seq(S) /\ Len(one) = k /\ \A i \in 1 .. k : one[i] = s[i]
  <2>1. /\ SubSeq(s, 0 + 1, k) \in Seq(S) /\ Len(SubSeq(s, 0 + 1, k)) = k - 0
        /\ \A i \in 1 .. k - 0 : SubSeq(s, 0 + 1, k)[i] = s[0 + i]
    BY <1>1, SubSeqIs
  <2>2. \A i \in 1 .. k : 0 + i = i
    BY <1>1
  <2>3. QED BY <1>1, <2>1, <2>2
<1>3. /\ two \in Seq(S) /\ Len(two) = N - k /\ \A i \in 1 .. N - k : two[i] = s[k + i]
  <2>1. k \in Nat /\ Len(s) \in Nat /\ k <= Len(s) /\ Len(s) <= Len(s)
    BY <1>1
  <2>2. QED BY <2>1, SubSeqIs
<1>4. DOMAIN one = 1 .. k /\ DOMAIN two = 1 .. N - k
  BY <1>2, <1>3, LenProperties
<1> HIDE DEF one, two, N
<1>5. /\ \A i \in 1 .. k : i \in 1 .. N
      /\ \A i \in 1 .. N - k : k + i \in 1 .. N /\ k + i \notin 1 .. k
      /\ \A i \in 1 .. N : i \in 1 .. k \/ (i - k \in 1 .. N - k /\ k + (i - k) = i)
      /\ \A i, j \in 1 .. N - k : k + i = k + j => i = j
  BY <1>1
<1>6. Range(one) \cup Range(two) = Range(s)
  <2>1. \A x : x \in Range(one) <=> \E i \in 1 .. k : x = s[i]
    BY <1>2, <1>4 DEF Range
  <2>2. \A x : x \in Range(two) <=> \E i \in 1 .. N - k : x = s[k + i]
    BY <1>3, <1>4 DEF Range
  <2>3. \A x : x \in Range(s) <=> \E i \in 1 .. N : x = s[i]
    BY <1>1 DEF Range
  <2>4. ASSUME NEW x
        PROVE  x \in Range(s) <=> x \in Range(one) \/ x \in Range(two)
    BY <1>5, <2>1, <2>2, <2>3
  <2>5. QED BY <2>4
<1>7. ASSUME IsInjective(s)
      PROVE  IsInjective(one) /\ IsInjective(two) /\ Range(one) \cap Range(two) = {}
  <2>1. \A a, b \in 1 .. N : s[a] = s[b] => a = b
    BY <1>1, <1>7 DEF IsInjective
  <2>2. IsInjective(one)
    BY <1>2, <1>4, <1>5, <2>1 DEF IsInjective
  <2>3. IsInjective(two)
    BY <1>3, <1>4, <1>5, <2>1 DEF IsInjective
  <2>4. \A a \in 1 .. k, b \in 1 .. N - k : one[a] # two[b]
    BY <1>2, <1>3, <1>5, <2>1
  <2>5. QED BY <1>4, <2>2, <2>3, <2>4 DEF Range
<1>8. QED BY <1>2, <1>3, <1>6, <1>7 DEF one, two, N

-----------------------------------------------------------------------------
(* What stays true when messages, datagrams and receipts are added.        *)

\* Packets stay numbered when more messages are.
LEMMA StillNumbered ==
    ASSUME NEW s, NEW n \in Nat, NEW k \in Nat, n <= k, NEW packets, AreNumbered(s, n, packets)
    PROVE  AreNumbered(s, k, packets)
<1>1. \A m \in 1 .. n : m \in 1 .. k
  OBVIOUS
<1>2. QED BY <1>1 DEF AreNumbered

\* The receiver does not see that the sender numbered more messages.
LEMMA StillReceiver ==
    ASSUME NothingOutlivesTheCircle, NEW s \in Number, NEW n \in 0 .. MaxMessages,
           NEW k \in Nat, n <= k, NEW r, ReceiverOK(s, n, r)
    PROVE  ReceiverOK(s, k, r)
<1>1. n \in Nat /\ Len(r.outputQueue) \in 0 .. n
  BY ReceiverIs
<1>2. AreNumbered(s, k, r.orderingHeap)
  BY <1>1, StillNumbered DEF ReceiverOK, HeapOK
<1>3. Len(r.outputQueue) <= k
  BY <1>1
<1>4. HeapOK(s, k, r)
  BY <1>2 DEF ReceiverOK, HeapOK
<1>5. QED BY <1>3, <1>4 DEF ReceiverOK

\* An acknowledgement stays true while datagrams and what came only grow.
LEMMA StillReceived ==
    ASSUME NEW s, NEW ranges, NEW data, NEW data2, NEW r, NEW r2,
           AreOfReceived(s, ranges, data, r),
           \A d \in DOMAIN data : d \in DOMAIN data2 /\ data2[d] = data[d],
           Came(r) \subseteq Came(r2)
    PROVE  AreOfReceived(s, ranges, data2, r2)
<1>1. \A d : HasAll(r, d) => HasAll(r2, d)
  BY DEF HasAll
<1>2. QED BY <1>1 DEF AreOfReceived

\* The message numbers of the layer's states.
LEMMA LayerNumbers ==
    ASSUME NothingOutlivesTheCircle, LayerInv
    PROVE  /\ start \in Number /\ start \in Nat
           /\ sent \in Nat /\ sent <= MaxMessages /\ MaxMessages \in Nat
           /\ MaxMessages <= HalfSpan + 1
           /\ Len(outgoing) \in Nat /\ DOMAIN outgoing = 1 .. Len(outgoing)
           /\ sent = numbered + Len(outgoing)
           /\ numbered \in 0 .. MaxMessages /\ numbered \in Nat
<1>1. start \in Number
  <2>1. start \in Starts
    BY DEF LayerInv, LayerTypeOK
  <2>2. DATAGRAM_MESSAGE_ID_ARRAY_LENGTH \in Nat
    BY LayerAssumption
  <2>3. start = 0 \/ start \in DATAGRAM_MESSAGE_ID_ARRAY_LENGTH + 1 .. Modulus - 1
    BY <2>1, LayerAssumption
  <2>4. QED BY <2>2, <2>3, ModulusIs DEF Number
<1>2. /\ sent \in 0 .. MaxMessages /\ Len(outgoing) <= sent
      /\ outgoing \in Seq([order : Number, message : 1 .. MaxMessages])
  BY DEF LayerInv, LayerTypeOK, WaitingInOrder
<1>3. MaxMessages \in Nat /\ MaxMessages <= HalfSpan + 1
  BY LayerAssumption DEF NothingOutlivesTheCircle
<1>4. Len(outgoing) \in Nat /\ DOMAIN outgoing = 1 .. Len(outgoing)
  BY <1>2, LenProperties
<1>5. start \in Nat
  BY <1>1, ModulusIs DEF Number
<1>6. QED BY <1>1, <1>2, <1>3, <1>4, <1>5 DEF numbered

-----------------------------------------------------------------------------
(* Init, and the actions that only add to the channel or to the acks.      *)

\* LayerInit establishes the invariant, wherever the numbers begin.
LEMMA InitHolds ==
    ASSUME NothingOutlivesTheCircle, LayerInit
    PROVE  LayerInv
<1> DEFINE A == DATAGRAM_MESSAGE_ID_ARRAY_LENGTH
<1>1. /\ A \in Nat \ {0} /\ MaxMessages \in Nat /\ MaxDatagrams \in Nat
      /\ RESEND_BUFFER_ARRAY_LENGTH \in Nat \ {0}
  BY LayerAssumption
<1>2. start \in Number /\ start \in Nat /\ (start = 0 \/ start \in A + 1 .. Modulus - 1)
  <2>1. start = 0 \/ start \in A + 1 .. Modulus - 1
    BY LayerAssumption DEF LayerInit
  <2>2. QED BY <1>1, <2>1, ModulusIs DEF Number
<1>3. /\ sent = 0 /\ outgoing = << >> /\ resendList = << >> /\ datagrams = << >>
      /\ acknowlegements = << >> /\ acks = {} /\ deadConnection = FALSE
      /\ orderedWriteIndex = start /\ sendReliableMessageNumberIndex = start
      /\ resendBuffer = [s \in Slot |-> NoPacket] /\ start \in Starts
  BY DEF LayerInit
<1>4. Len(<< >>) = 0 /\ DOMAIN << >> = {} /\ \A S : << >> \in Seq(S)
  OBVIOUS
<1>5. numbered = 0 /\ Plus(start, 0) = start /\ 0 \in Number
  <2>1. 0 \in Number
    BY ModulusIs DEF Number
  <2>2. Plus(start, 0) = start
    <3>1. Plus(start, 0) = IF start + 0 < Modulus THEN start + 0 ELSE start + 0 - Modulus
      BY <1>2, <2>1, PlusWraps
    <3>2. QED BY <1>2, <3>1, ModulusIs DEF Number
  <2>3. sent = 0 /\ Len(outgoing) = 0
    BY <1>3, <1>4
  <2>4. numbered = 0
    BY <2>3 DEF numbered
  <2>5. QED BY <2>1, <2>2, <2>4
<1>6. /\ datagramHistory \in Seq(SUBSET Number)
      /\ \A i \in DOMAIN datagramHistory : datagramHistory[i] = {}
      /\ datagramHistoryPopCount \in Number
      /\ Plus(datagramHistoryPopCount, Len(datagramHistory)) = start
  <2>1. CASE start = 0
    <3>1. datagramHistory = << >>
      BY <2>1 DEF LayerInit
    <3>2. datagramHistoryPopCount = start - Len(datagramHistory) /\ Len(datagramHistory) = 0
      BY <1>4, <3>1 DEF LayerInit
    <3>3. datagramHistoryPopCount = start
      BY <1>2, <3>2
    <3>4. QED BY <1>2, <1>4, <1>5, <3>1, <3>3
  <2>2. CASE start # 0
    <3>1. datagramHistory = [i \in 1 .. A + 1 |-> {}]
      BY <2>2 DEF LayerInit
    <3>2. datagramHistory \in [1 .. A + 1 -> SUBSET Number] /\ A + 1 \in Nat
      BY <1>1, <3>1
    <3>3. datagramHistory \in Seq(SUBSET Number) /\ Len(datagramHistory) = A + 1
      BY <3>2, FunctionIsSeq
    <3>4. /\ datagramHistoryPopCount = start - (A + 1) /\ A + 1 \in Number
          /\ start - (A + 1) \in Number
      BY <1>1, <1>2, <2>2, <3>3, ModulusIs DEF LayerInit, Number
    <3>5. Plus(start - (A + 1), A + 1) = start
      <4> DEFINE x == start - (A + 1)
      <4>1. Plus(x, A + 1) = IF x + (A + 1) < Modulus THEN x + (A + 1) ELSE x + (A + 1) - Modulus
        BY <3>4, PlusWraps
      <4>2. x + (A + 1) = start /\ start < Modulus
        BY <1>1, <1>2, ModulusIs DEF Number
      <4>3. QED BY <4>1, <4>2
    <3>6. QED BY <3>1, <3>3, <3>4, <3>5
  <2>3. QED BY <2>1, <2>2
<1>7. /\ receiver = [receivedPacketsBaseIndex |-> start,
                     hasReceivedPacketQueue |-> << >>,
                     orderedReadIndex |-> start,
                     heapIndexOffset |-> 0,
                     orderingHeap |-> << >>,
                     outputQueue |-> << >>]
  BY DEF LayerInit
<1>8. receiver \in ReceiverRecord
  BY <1>2, <1>4, <1>5, <1>7 DEF ReceiverRecord
<1>9. ReceiverOK(start, 0, receiver)
  <2>1. /\ receiver.outputQueue = << >> /\ receiver.orderingHeap = << >>
        /\ receiver.hasReceivedPacketQueue = << >>
        /\ receiver.receivedPacketsBaseIndex = start /\ receiver.orderedReadIndex = start
    BY <1>7
  <2>2. << >> = [i \in 1 .. 0 |-> i]
    OBVIOUS
  <2>3. Ahead(receiver) = {}
    BY <1>4, <2>1 DEF Ahead
  <2>4. HeapOK(start, 0, receiver)
    BY <1>4, <2>1 DEF HeapOK, AreNumbered
  <2>5. QueueOK(<< >>, 0, Ahead(receiver))
    BY <1>4, <2>3 DEF QueueOK
  <2>6. QED BY <1>4, <1>5, <1>8, <2>1, <2>2, <2>4, <2>5 DEF ReceiverOK
<1>10. LayerTypeOK
  <2>1. resendBuffer \in [Slot -> Packet \cup {NoPacket}]
    BY <1>3
  <2>2. /\ receiver.receivedPacketsBaseIndex \in Number
        /\ receiver.hasReceivedPacketQueue \in Seq(BOOLEAN)
        /\ receiver.orderedReadIndex \in Number
        /\ receiver.heapIndexOffset \in Number
        /\ receiver.orderingHeap \in Seq(Packet)
        /\ receiver.outputQueue \in Seq(1 .. MaxMessages)
    BY <1>8 DEF ReceiverRecord
  <2>3. sent \in 0 .. MaxMessages
    BY <1>1, <1>3
  <2>4. QED BY <1>2, <1>3, <1>4, <1>6, <2>1, <2>2, <2>3 DEF LayerTypeOK
<1>11. WaitingInOrder
  BY <1>3, <1>4, <1>5 DEF WaitingInOrder
<1>12. Range(<< >>) = {} /\ IsInjective(<< >>)
  BY <1>4 DEF Range, IsInjective
<1>13. BufferIs(resendBuffer, resendList)
  <2>1. Range(resendBuffer) \ {NoPacket} = {} /\ \A s \in Slot : resendBuffer[s] = NoPacket
    BY <1>3 DEF Range
  <2>2. QED BY <1>3, <1>12, <2>1 DEF BufferIs
<1>14. InWindow(0, resendList) /\ IsKept(0, resendList, receiver)
  BY <1>3, <1>12 DEF InWindow, IsKept
<1>15. HistoryIs(start, datagramHistory, datagramHistoryPopCount, datagrams)
  BY <1>3, <1>4, <1>5, <1>6 DEF HistoryIs, NodeIs
<1>16. IsRangeList(acknowlegements) /\ AreOfReceived(start, acknowlegements, datagrams, receiver)
  <2>1. Listed(<< >>) = {}
    BY <1>4 DEF Listed
  <2>2. QED BY <1>3, <1>4, <2>1 DEF IsRangeList, AreOfReceived
<1>17. /\ Len(datagrams) <= MaxDatagrams
       /\ AreNumbered(start, 0, resendList)
       /\ \A d \in DOMAIN datagrams : AreNumbered(start, 0, datagrams[d])
  BY <1>1, <1>3, <1>4 DEF AreNumbered
<1>18. QED
  BY <1>3, <1>5, <1>9, <1>10, <1>11, <1>13, <1>14, <1>15, <1>16, <1>17 DEF LayerInv

\* Everything but the type and the waiting messages, in the next state.
LayerRest ==
    /\ Len(datagrams) <= MaxDatagrams
    /\ AreNumbered(start, numbered, resendList)
    /\ \A d \in DOMAIN datagrams : AreNumbered(start, numbered, datagrams[d])
    /\ BufferIs(resendBuffer, resendList)
    /\ InWindow(numbered, resendList)
    /\ HistoryIs(start, datagramHistory, datagramHistoryPopCount, datagrams)

\* The sender's part of the invariant, when its window does not change.
LEMMA RestStays ==
    ASSUME LayerInv, numbered' = numbered,
           UNCHANGED <<start, windowVars, datagrams>>
    PROVE  LayerRest'
BY DEF LayerInv, LayerRest, windowVars

\* The receiver's part of the invariant, when it does not change.
LEMMA ReceiptsStay ==
    ASSUME LayerInv, numbered' = numbered,
           UNCHANGED <<start, windowVars, receivingVars, datagrams, acks>>
    PROVE  /\ ReceiverOK(start, numbered, receiver)'
           /\ IsKept(numbered, resendList, receiver)'
           /\ IsRangeList(acknowlegements)'
           /\ AreOfReceived(start, acknowlegements, datagrams, receiver)'
           /\ (\A ranges \in acks : /\ IsRangeList(ranges)
                                    /\ AreOfReceived(start, ranges, datagrams, receiver))'
BY DEF LayerInv, windowVars, receivingVars

\* Send keeps the invariant.
LEMMA SendHolds ==
    ASSUME NothingOutlivesTheCircle, LayerInv, Send
    PROVE  LayerInv'
<1> DEFINE S == [order : Number, message : 1 .. MaxMessages]
           e == [order |-> orderedWriteIndex, message |-> sent + 1]
<1>1. /\ sent < MaxMessages /\ sent' = sent + 1 /\ outgoing' = Append(outgoing, e)
      /\ orderedWriteIndex' = Plus(orderedWriteIndex, 1)
      /\ UNCHANGED <<start, windowVars, deadConnection, receivingVars, datagrams, acks>>
  BY DEF Send
<1>2. /\ start \in Number /\ start \in Nat
      /\ sent \in Nat /\ sent <= MaxMessages /\ MaxMessages \in Nat
      /\ MaxMessages <= HalfSpan + 1
      /\ Len(outgoing) \in Nat /\ DOMAIN outgoing = 1 .. Len(outgoing)
      /\ sent = numbered + Len(outgoing)
      /\ numbered \in Nat
  BY LayerNumbers
<1>3. outgoing \in Seq(S) /\ orderedWriteIndex \in Number /\ LayerTypeOK /\ WaitingInOrder
  BY DEF LayerInv, LayerTypeOK
<1>4. e \in S
  BY <1>1, <1>2, <1>3
<1> HIDE DEF S, e
<1>5. /\ outgoing' \in Seq(S) /\ Len(outgoing') = Len(outgoing) + 1
      /\ \A i \in 1 .. Len(outgoing) : outgoing'[i] = outgoing[i]
      /\ outgoing'[Len(outgoing) + 1] = e
      /\ DOMAIN outgoing' = 1 .. Len(outgoing) + 1
  <2>1. /\ outgoing' \in Seq(S) /\ Len(outgoing') = Len(outgoing) + 1
        /\ \A i \in 1 .. Len(outgoing) : outgoing'[i] = outgoing[i]
        /\ outgoing'[Len(outgoing) + 1] = e
    BY <1>1, <1>3, <1>4, AppendProperties
  <2>2. QED BY <2>1, LenProperties
<1>6. numbered' = numbered
  BY <1>1, <1>2, <1>5 DEF numbered
<1>7. sent \in Number /\ sent + 1 < Modulus /\ 1 \in Number /\ sent + 1 \in 0 .. MaxMessages
  BY <1>1, <1>2, ModulusIs DEF Number
<1>8. /\ orderedWriteIndex = Plus(start, sent) /\ orderedWriteIndex' = Plus(start, sent + 1)
      /\ orderedWriteIndex' \in Number
  <2>1. orderedWriteIndex = Plus(start, sent)
    BY <1>3 DEF WaitingInOrder
  <2>2. Plus(Plus(start, sent), 1) = Plus(start, sent + 1)
    BY <1>2, <1>7, FromStart
  <2>3. orderedWriteIndex' \in Number
    BY <1>1, <1>3, <1>7, PlusWraps
  <2>4. QED BY <1>1, <2>1, <2>2, <2>3
<1>9. WaitingInOrder'
  <2>1. ASSUME NEW i \in 1 .. Len(outgoing) + 1
        PROVE  outgoing'[i] = [order |-> Plus(start, numbered + i - 1), message |-> numbered + i]
    <3>1. CASE i \in 1 .. Len(outgoing)
      BY <1>2, <1>3, <1>5, <3>1 DEF WaitingInOrder
    <3>2. CASE i \notin 1 .. Len(outgoing)
      <4>1. i = Len(outgoing) + 1 /\ numbered + i - 1 = sent /\ numbered + i = sent + 1
        BY <1>2, <3>2
      <4>2. QED BY <1>5, <1>8, <4>1 DEF e
    <3>3. QED BY <3>1, <3>2
  <2>2. Len(outgoing') <= sent'
    BY <1>1, <1>2, <1>5
  <2>3. start' = start /\ sendReliableMessageNumberIndex' = sendReliableMessageNumberIndex
    BY <1>1 DEF windowVars
  <2>4. QED
    BY <1>1, <1>3, <1>5, <1>6, <1>8, <2>1, <2>2, <2>3 DEF WaitingInOrder
<1>10. LayerTypeOK'
  BY <1>1, <1>3, <1>5, <1>7, <1>8 DEF LayerTypeOK, windowVars, receivingVars, S
<1>11. QED
  BY <1>1, <1>6, <1>9, <1>10, RestStays, ReceiptsStay DEF LayerInv, LayerRest

\* Giving the connection up keeps the invariant.
LEMMA AckTimeoutHolds ==
    ASSUME NothingOutlivesTheCircle, LayerInv, AckTimeout
    PROVE  LayerInv'
<1>1. /\ deadConnection' = TRUE
      /\ UNCHANGED <<start, waitingVars, windowVars, receivingVars, datagrams, acks>>
  BY DEF AckTimeout
<1>2. numbered' = numbered
  BY <1>1 DEF numbered, waitingVars
<1>3. WaitingInOrder' /\ LayerTypeOK'
  BY <1>1, <1>2 DEF LayerInv, WaitingInOrder, LayerTypeOK, waitingVars, windowVars, receivingVars
<1>4. QED
  BY <1>1, <1>2, <1>3, RestStays, ReceiptsStay DEF LayerInv, LayerRest

\* SendACKs keeps the invariant: what it sends was collected.
LEMMA SendACKsHolds ==
    ASSUME NothingOutlivesTheCircle, LayerInv, SendACKs
    PROVE  LayerInv'
<1>1. /\ acks' = acks \cup {acknowlegements}
      /\ acknowlegements' = << >>
      /\ UNCHANGED <<start, waitingVars, windowVars, deadConnection, receiver, datagrams>>
  BY DEF SendACKs
<1>2. numbered' = numbered
  BY <1>1 DEF numbered, waitingVars
<1>3. << >> \in Seq(Range24) /\ DOMAIN << >> = {} /\ Listed(<< >>) = {}
  BY DEF Listed
<1>4. WaitingInOrder' /\ LayerTypeOK'
  BY <1>1, <1>2, <1>3 DEF LayerInv, WaitingInOrder, LayerTypeOK, waitingVars, windowVars
<1>5. IsRangeList(<< >>) /\ AreOfReceived(start, << >>, datagrams, receiver)
  BY <1>3 DEF IsRangeList, AreOfReceived
<1>6. \A ranges \in acks' : /\ IsRangeList(ranges)
                            /\ AreOfReceived(start, ranges, datagrams, receiver)
  BY <1>1 DEF LayerInv
<1>7. /\ ReceiverOK(start, numbered, receiver)'
      /\ IsKept(numbered, resendList, receiver)'
  BY <1>1, <1>2 DEF LayerInv, windowVars
<1>8. QED
  BY <1>1, <1>2, <1>4, <1>5, <1>6, <1>7, RestStays DEF LayerInv, LayerRest

-----------------------------------------------------------------------------
(* A datagram arrives.                                                     *)

\* The sender is never more than a resend buffer ahead of what is missing.
LEMMA AheadByWindow ==
    ASSUME NothingOutlivesTheCircle, LayerInv
    PROVE  /\ Len(receiver.outputQueue) \in 0 .. numbered
           /\ numbered - Len(receiver.outputQueue) <= RESEND_BUFFER_ARRAY_LENGTH
<1> DEFINE got == Len(receiver.outputQueue)
           r == RESEND_BUFFER_ARRAY_LENGTH
<1>1. start \in Number /\ numbered \in 0 .. MaxMessages /\ numbered \in Nat
  BY LayerNumbers
<1>2. ReceiverOK(start, numbered, receiver)
  BY DEF LayerInv
<1>3. /\ got \in 0 .. numbered
      /\ \A m \in Ahead(receiver) : m \in 1 .. numbered /\ m > got + 1
  <2> HIDE DEF numbered
  <2>1. QED BY <1>1, <1>2, ReceiverIs
<1>4. r \in Nat \ {0}
  BY LayerAssumption
<1> HIDE DEF numbered, got, r
<1>5. CASE got = numbered
  BY <1>1, <1>4, <1>5 DEF got, r
<1>6. CASE got # numbered
  <2>1. got + 1 \in 1 .. numbered /\ got \in Nat
    BY <1>1, <1>3, <1>6
  <2>2. got + 1 \notin Came(receiver)
    <3>1. got + 1 \notin Ahead(receiver) /\ got + 1 \notin 1 .. got
      BY <1>3, <2>1
    <3>2. QED BY <3>1 DEF Came, got
  <2>3. PICK p \in Range(resendList) : p.message = got + 1
    BY <2>1, <2>2 DEF LayerInv, IsKept
  <2>4. (got + 1) + r > numbered
    BY <2>3 DEF LayerInv, InWindow, r
  <2>5. numbered - got <= r
    BY <1>1, <1>4, <2>1, <2>4
  <2>6. QED BY <1>3, <2>5 DEF got, r
<1>7. QED BY <1>3, <1>5, <1>6 DEF got

\* What a datagram makes of the receiver.
LEMMA DatagramIsReceived ==
    ASSUME NothingOutlivesTheCircle, LayerInv, NEW i \in DOMAIN datagrams
    PROVE  /\ ReceivePackets(datagrams[i]) \in Receivers(start, numbered)
           /\ \A j \in DOMAIN datagrams[i] :
                 datagrams[i][j].message \in Came(ReceivePackets(datagrams[i]))
<1> DEFINE packets == datagrams[i]
           got == Len(receiver.outputQueue)
<1>1. /\ start \in Number /\ start \in Nat /\ numbered \in 0 .. MaxMessages /\ numbered \in Nat
      /\ MaxMessages \in Nat
  BY LayerNumbers
<1>2. got \in 0 .. numbered /\ numbered - got <= RESEND_BUFFER_ARRAY_LENGTH
  BY AheadByWindow
<1>3. /\ ReceiverOK(start, numbered, receiver)
      /\ AreNumbered(start, numbered, packets)
      /\ datagrams \in Seq(Seq(Packet))
  BY DEF LayerInv, LayerTypeOK
<1>4. packets \in Seq(Packet)
  <2>1. DOMAIN datagrams = 1 .. Len(datagrams)
    BY <1>3, LenProperties
  <2>2. QED BY <1>3, <2>1, ElementOfSeq
<1> HIDE DEF numbered
<1>5. \A j \in DOMAIN packets : packets[j].message - 1 - got <= MaxHole
  <2>1. ASSUME NEW j \in DOMAIN packets
        PROVE  packets[j].message - 1 - got <= MaxHole
    <3>1. PICK m \in 1 .. numbered : packets[j] = PacketOf(start, m)
      BY <1>3 DEF AreNumbered
    <3>2. m \in 1 .. MaxMessages
      BY <1>1
    <3>3. packets[j].message = m
      BY <1>1, <3>1, <3>2, PacketIs
    <3>4. RESEND_BUFFER_ARRAY_LENGTH \in Nat /\ RESEND_BUFFER_ARRAY_LENGTH <= MaxHole
      BY LayerAssumption
    <3> HIDE DEF got
    <3>5. m - 1 - got <= MaxHole
      BY <1>1, <1>2, <3>4, MaxHoleIs
    <3>6. QED BY <3>3, <3>5
  <2>2. QED BY <2>1
<1>6. QED BY <1>1, <1>3, <1>4, <1>5, ReceivePacketsIs

\* A datagram keeps the invariant, whenever and however often it arrives: its
\* number is collected and the receiver has all it carries.
LEMMA ReceiveDatagramHolds ==
    ASSUME NothingOutlivesTheCircle, LayerInv, NEW i \in DOMAIN datagrams, ReceiveDatagram(i)
    PROVE  LayerInv'
<1> DEFINE packets == datagrams[i]
           next == ReceivePackets(packets)
           index == Plus(start, i - 1)
<1>1. /\ acknowlegements' = Insert(acknowlegements, index)
      /\ receiver' = next
      /\ UNCHANGED <<start, waitingVars, windowVars, deadConnection, datagrams, acks>>
  BY DEF ReceiveDatagram
<1>2. /\ start \in Number /\ start \in Nat /\ numbered \in 0 .. MaxMessages /\ numbered \in Nat
      /\ MaxMessages \in Nat
  BY LayerNumbers
<1>3. /\ datagrams \in Seq(Seq(Packet))
      /\ IsRangeList(acknowlegements)
      /\ AreOfReceived(start, acknowlegements, datagrams, receiver)
      /\ \A ranges \in acks : /\ IsRangeList(ranges)
                              /\ AreOfReceived(start, ranges, datagrams, receiver)
      /\ IsKept(numbered, resendList, receiver)
      /\ LayerTypeOK /\ WaitingInOrder
  BY DEF LayerInv, LayerTypeOK
<1>4. i \in Nat \ {0}
  <2>1. DOMAIN datagrams = 1 .. Len(datagrams) /\ Len(datagrams) \in Nat
    BY <1>3, LenProperties
  <2>2. QED BY <2>1
<1>5. numbered' = numbered
  BY <1>1 DEF numbered, waitingVars
<1>6. /\ next \in Receivers(start, numbered)
      /\ \A j \in DOMAIN packets : packets[j].message \in Came(next)
  BY DatagramIsReceived
<1> HIDE DEF next, index, numbered
<1>7. /\ ReceiverOK(start, numbered, next) /\ next \in ReceiverRecord
      /\ Came(receiver) \subseteq Came(next)
  BY <1>6 DEF Receivers
<1>8. index \in Number /\ index = Plus(start, i - 1)
  <2>1. i - 1 \in Nat
    BY <1>4
  <2>2. QED BY <1>2, <2>1, PlusIsNumber DEF index
<1>9. /\ IsRangeList(Insert(acknowlegements, index))
       /\ Listed(Insert(acknowlegements, index)) = Listed(acknowlegements) \cup {index}
  BY <1>3, <1>8, InsertAddsTheNumber
<1>10. \A ranges : AreOfReceived(start, ranges, datagrams, receiver) =>
                      AreOfReceived(start, ranges, datagrams, next)
  BY <1>7, StillReceived
<1>11. AreOfReceived(start, Insert(acknowlegements, index), datagrams, next)
  <2>1. HasAll(next, datagrams[i])
    BY <1>6 DEF HasAll
  <2>2. AreOfReceived(start, acknowlegements, datagrams, next)
    BY <1>3, <1>10
  <2>3. QED BY <1>8, <1>9, <2>1, <2>2 DEF AreOfReceived
<1>12. IsKept(numbered, resendList, next)
  BY <1>3, <1>7 DEF IsKept
<1>13. WaitingInOrder'
  BY <1>1, <1>3, <1>5 DEF WaitingInOrder, waitingVars, windowVars
<1>14. LayerTypeOK'
  <2>1. Insert(acknowlegements, index) \in Seq(Range24)
    BY <1>9 DEF IsRangeList
  <2>2. /\ next.receivedPacketsBaseIndex \in Number
        /\ next.hasReceivedPacketQueue \in Seq(BOOLEAN)
        /\ next.orderedReadIndex \in Number
        /\ next.heapIndexOffset \in Number
        /\ next.orderingHeap \in Seq(Packet)
        /\ next.outputQueue \in Seq(1 .. MaxMessages)
    BY <1>7 DEF ReceiverRecord
  <2>3. QED BY <1>1, <1>3, <2>1, <2>2 DEF LayerTypeOK, waitingVars, windowVars
<1>15. resendList' = resendList
  BY <1>1 DEF windowVars
<1>16. LayerRest'
  BY <1>1, <1>5, RestStays
<1>17. QED
  BY <1>1, <1>3, <1>5, <1>7, <1>9, <1>10, <1>11, <1>12, <1>13, <1>14, <1>15, <1>16
     DEF LayerInv, LayerRest

-----------------------------------------------------------------------------
(* A packet of acknowledgements arrives.                                   *)

\* The data datagrams: how many, and the datagrams themselves.
LEMMA DatagramsAre ==
    ASSUME NothingOutlivesTheCircle, LayerInv
    PROVE  /\ datagrams \in Seq(Seq(Packet))
           /\ Len(datagrams) \in Nat /\ DOMAIN datagrams = 1 .. Len(datagrams)
           /\ \A d \in DOMAIN datagrams : d \in Nat \ {0} /\ d - 1 \in Number
           /\ datagramHistory \in Seq(SUBSET Number)
           /\ Len(datagramHistory) \in Nat
           /\ DOMAIN datagramHistory = 1 .. Len(datagramHistory)
           /\ datagramHistoryPopCount \in Number /\ datagramHistoryPopCount \in Nat
<1>1. /\ datagrams \in Seq(Seq(Packet)) /\ datagramHistory \in Seq(SUBSET Number)
      /\ datagramHistoryPopCount \in Number /\ Len(datagrams) <= MaxDatagrams
  BY DEF LayerInv, LayerTypeOK
<1>2. Len(datagrams) \in Nat /\ DOMAIN datagrams = 1 .. Len(datagrams)
  BY <1>1, LenProperties
<1>3. Len(datagramHistory) \in Nat /\ DOMAIN datagramHistory = 1 .. Len(datagramHistory)
  BY <1>1, LenProperties
<1>4. MaxDatagrams \in Nat /\ MaxDatagrams <= Modulus
  BY LayerAssumption DEF NothingOutlivesTheCircle
<1>5. \A d \in 1 .. Len(datagrams) : d \in Nat \ {0} /\ d - 1 \in Number
  BY <1>1, <1>2, <1>4, ModulusIs DEF Number
<1>6. datagramHistoryPopCount \in Nat
  BY <1>1, ModulusIs DEF Number
<1>7. QED BY <1>1, <1>2, <1>3, <1>5, <1>6

\* The packets of an acknowledgement that are acted on name datagrams the
\* receiver has.
LEMMA AcceptedAreReceived ==
    ASSUME NothingOutlivesTheCircle, LayerInv, NEW ranges \in acks,
           NEW number \in Number,
           \E j \in DOMAIN Accepted(ranges) : Within(number, Accepted(ranges)[j])
    PROVE  \E d \in DOMAIN datagrams : number = Plus(start, d - 1) /\ HasAll(receiver, datagrams[d])
<1> DEFINE places == {i \in DOMAIN ranges : ranges[i].max # Modulus - 1}
           c == Leading(Len(ranges), places)
<1>1. IsRangeList(ranges) /\ AreOfReceived(start, ranges, datagrams, receiver)
  BY DEF LayerInv
<1>2. ranges \in Seq(Range24)
  BY <1>1 DEF IsRangeList
<1>3. Len(ranges) \in Nat /\ DOMAIN ranges = 1 .. Len(ranges)
  BY <1>2, LenProperties
<1>4. c \in 0 .. Len(ranges)
  BY <1>3, LeadingIs
<1>5. Accepted(ranges) = SubSeq(ranges, 1, c)
  BY DEF Accepted
<1> HIDE DEF c
<1>6. c \in Nat /\ c <= Len(ranges) /\ 0 \in Nat /\ 0 <= c
  BY <1>3, <1>4
<1>7. /\ SubSeq(ranges, 0 + 1, c) \in Seq(Range24)
      /\ Len(SubSeq(ranges, 0 + 1, c)) = c - 0
      /\ \A i \in 1 .. c - 0 : SubSeq(ranges, 0 + 1, c)[i] = ranges[0 + i]
  BY <1>2, <1>6, SubSeqIs
<1>8. /\ Accepted(ranges) \in Seq(Range24) /\ Len(Accepted(ranges)) = c
      /\ \A i \in 1 .. c : Accepted(ranges)[i] = ranges[i]
  BY <1>5, <1>6, <1>7
<1>9. PICK j \in 1 .. c : Within(number, ranges[j])
  <2>1. DOMAIN Accepted(ranges) = 1 .. c
    BY <1>8, LenProperties
  <2>2. QED BY <1>8, <2>1
<1>10. j \in DOMAIN ranges
  BY <1>3, <1>6
<1>11. number \in Listed(ranges)
  <2>1. Lists(ranges, number)
    BY <1>9, <1>10 DEF Lists
  <2>2. number \in Int
    BY ModulusIs DEF Number
  <2>3. QED BY <1>2, <2>1, <2>2, ListedIs
<1>12. QED BY <1>1, <1>11 DEF AreOfReceived

\* A node of the history that names messages, and the datagram whose
\* acknowledgement looks it up.
LEMMA NodeOfDatagram ==
    ASSUME NothingOutlivesTheCircle, LayerInv, NEW i \in DOMAIN datagramHistory,
           datagramHistory[i] # {}
    PROVE  LET d == Len(datagrams) - Len(datagramHistory) + i
           IN  /\ d \in DOMAIN datagrams
               /\ Plus(datagramHistoryPopCount, i - 1) = Plus(start, d - 1)
               /\ datagramHistory[i] = {datagrams[d][j].number : j \in DOMAIN datagrams[d]}
<1> DEFINE nodes == datagramHistory
           pop == datagramHistoryPopCount
           d == Len(datagrams) - Len(nodes) + i
           x == Len(nodes) - (i - 1)
<1>1. /\ Len(datagrams) \in Nat /\ DOMAIN datagrams = 1 .. Len(datagrams)
      /\ \A b \in DOMAIN datagrams : b \in Nat \ {0} /\ b - 1 \in Number
      /\ Len(nodes) \in Nat /\ DOMAIN nodes = 1 .. Len(nodes)
      /\ pop \in Nat
  BY DatagramsAre
<1>2. start \in Nat
  BY LayerNumbers
<1>3. i \in 1 .. Len(nodes) /\ i - 1 \in Nat /\ x \in Nat
  BY <1>1
<1>4. HistoryIs(start, nodes, pop, datagrams)
  BY DEF LayerInv
<1>5. NodeIs(nodes[i], datagrams, d) /\ Plus(pop, Len(nodes)) = Plus(start, Len(datagrams))
  BY <1>4 DEF HistoryIs
<1>6. d \in DOMAIN datagrams /\ nodes[i] = {datagrams[d][j].number : j \in DOMAIN datagrams[d]}
  BY <1>5 DEF NodeIs
<1>7. d - 1 \in Nat
  BY <1>1, <1>6
<1>8. (i - 1) + x = Len(nodes) /\ (d - 1) + x = Len(datagrams)
  <2>1. /\ i \in Nat /\ Len(nodes) \in Nat /\ Len(datagrams) \in Nat
        /\ d = Len(datagrams) - Len(nodes) + i /\ x = Len(nodes) - (i - 1)
    BY <1>1, <1>3
  <2> HIDE DEF d, x, nodes
  <2>2. QED BY <2>1
<1>9. Plus(pop, i - 1) = Plus(start, d - 1)
  <2> HIDE DEF d, x, pop, nodes
  <2>1. Plus(pop, (i - 1) + x) = Plus(start, (d - 1) + x)
    BY <1>5, <1>8
  <2>2. QED BY <1>1, <1>2, <1>3, <1>7, <2>1, PlusCancel
<1>10. QED BY <1>6, <1>9

\* A message that is settled has come.
LEMMA SettledCame ==
    ASSUME NothingOutlivesTheCircle, LayerInv, NEW ranges \in acks,
           NEW p \in Range(resendList), NEW i \in NodesOf(Accepted(ranges)),
           NEW n \in datagramHistory[i], Settles(n, p)
    PROVE  p.message \in Came(receiver)
<1> DEFINE nodes == datagramHistory
           pop == datagramHistoryPopCount
           number == Plus(pop, i - 1)
           d == Len(datagrams) - Len(nodes) + i
<1>1. /\ datagrams \in Seq(Seq(Packet))
      /\ Len(datagrams) \in Nat /\ DOMAIN datagrams = 1 .. Len(datagrams)
      /\ \A b \in DOMAIN datagrams : b \in Nat \ {0} /\ b - 1 \in Number
      /\ Len(nodes) \in Nat /\ DOMAIN nodes = 1 .. Len(nodes)
      /\ pop \in Nat
  BY DatagramsAre
<1>2. start \in Number /\ start \in Nat /\ numbered \in 0 .. MaxMessages /\ MaxMessages \in Nat
  BY LayerNumbers
<1>3. i \in DOMAIN nodes /\ \E j \in DOMAIN Accepted(ranges) : Within(number, Accepted(ranges)[j])
  BY DEF NodesOf
<1>4. i \in 1 .. Len(nodes) /\ i - 1 \in Nat
  BY <1>1, <1>3
<1>5. number \in Number
  BY <1>1, <1>4, PlusIsNumber
<1>6. PICK e \in DOMAIN datagrams : number = Plus(start, e - 1) /\ HasAll(receiver, datagrams[e])
  <2> HIDE DEF number
  <2>1. QED BY <1>3, <1>5, AcceptedAreReceived
<1>7. /\ d \in DOMAIN datagrams /\ number = Plus(start, d - 1)
      /\ nodes[i] = {datagrams[d][j].number : j \in DOMAIN datagrams[d]}
  BY <1>3, NodeOfDatagram
<1>8. n \in nodes[i]
  OBVIOUS
<1>9. \E j \in DOMAIN datagrams[d] : n = datagrams[d][j].number
  BY <1>7, <1>8
<1>10. d = e
  <2>1. d - 1 \in Number /\ e - 1 \in Number
    BY <1>1, <1>6, <1>7
  <2>2. Plus(start, d - 1) = Plus(start, e - 1)
    BY <1>6, <1>7
  <2> HIDE DEF d, number
  <2>3. d - 1 = e - 1
    <3>1. \A u, v \in Number : Plus(start, u) = Plus(start, v) => u = v
      BY <1>2, FromStart
    <3>2. QED BY <2>1, <2>2, <3>1
  <2>4. d \in Int /\ e \in Int
    BY <1>1, <1>6, <1>7
  <2>5. QED BY <2>3, <2>4
<1> HIDE DEF d, number, pop
<1>11. PICK j \in DOMAIN datagrams[e] : n = datagrams[e][j].number
  BY <1>9, <1>10
<1>12. PICK a \in 1 .. numbered : datagrams[e][j] = PacketOf(start, a)
  <2>1. AreNumbered(start, numbered, datagrams[e])
    BY <1>6 DEF LayerInv
  <2>2. QED BY <1>11, <2>1 DEF AreNumbered
<1>13. PICK b \in 1 .. numbered : p = PacketOf(start, b)
  <2>1. AreNumbered(start, numbered, resendList)
    BY DEF LayerInv
  <2>2. QED BY <2>1 DEF AreNumbered, Range
<1>14. a \in 1 .. MaxMessages /\ b \in 1 .. MaxMessages
  BY <1>2
<1>15. /\ datagrams[e][j].message = a /\ p.message = b
       /\ datagrams[e][j].number = Plus(start, a - 1) /\ p.number = Plus(start, b - 1)
       /\ a - 1 \in Number /\ b - 1 \in Number
  BY <1>2, <1>12, <1>13, <1>14, PacketIs
<1>16. Plus(start, a - 1) = Plus(start, b - 1)
  BY <1>11, <1>15 DEF Settles
<1>17. a - 1 = b - 1
  BY <1>2, <1>15, <1>16, FromStart
<1>18. a = b
  BY <1>14, <1>17
<1>19. QED BY <1>6, <1>11, <1>15, <1>18 DEF HasAll

\* Acknowledgements keep the invariant, whenever and however often they arrive.
LEMMA ReceiveAcksHolds ==
    ASSUME NothingOutlivesTheCircle, LayerInv, ReceiveAcks
    PROVE  LayerInv'
<1>1. /\ UNCHANGED <<start, waitingVars, sendReliableMessageNumberIndex,
                     datagramHistoryPopCount, deadConnection, receivingVars,
                     datagrams, acks>>
  BY DEF ReceiveAcks
<1>2. PICK ranges \in acks :
          LET nodes == NodesOf(Accepted(ranges))
              settled == {p \in Range(resendList) :
                             \E i \in nodes : \E n \in datagramHistory[i] : Settles(n, p)}
          IN  /\ resendBuffer' = [s \in Slot |-> IF resendBuffer[s] \in settled
                                                 THEN NoPacket ELSE resendBuffer[s]]
              /\ resendList' = Unsettled(resendList, settled)
              /\ datagramHistory' = [i \in DOMAIN datagramHistory |->
                                        IF i \in nodes THEN {} ELSE datagramHistory[i]]
  BY DEF ReceiveAcks
<1> DEFINE nodes == NodesOf(Accepted(ranges))
           settled == {p \in Range(resendList) :
                          \E i \in nodes : \E n \in datagramHistory[i] : Settles(n, p)}
<1>3. /\ resendBuffer' = [s \in Slot |-> IF resendBuffer[s] \in settled
                                         THEN NoPacket ELSE resendBuffer[s]]
      /\ resendList' = Unsettled(resendList, settled)
      /\ datagramHistory' = [i \in DOMAIN datagramHistory |->
                                IF i \in nodes THEN {} ELSE datagramHistory[i]]
  BY <1>2
<1>4. \A p \in settled : p \in Range(resendList) /\ p.message \in Came(receiver)
  BY SettledCame
<1> HIDE DEF nodes, settled
<1>5. /\ resendList \in Seq(Packet)
      /\ resendBuffer \in [Slot -> Packet \cup {NoPacket}]
      /\ datagramHistory \in Seq(SUBSET Number)
      /\ BufferIs(resendBuffer, resendList)
      /\ LayerTypeOK /\ WaitingInOrder
  BY DEF LayerInv, LayerTypeOK
<1>6. /\ resendList' \in Seq(Packet) /\ IsInjective(resendList')
      /\ Range(resendList') = Range(resendList) \ settled
  BY <1>3, <1>5, UnsettledIs DEF BufferIs
<1>7. numbered' = numbered
  BY <1>1 DEF numbered, waitingVars
<1>8. resendBuffer' \in [Slot -> Packet \cup {NoPacket}]
  BY <1>3, <1>5
<1>9. BufferIs(resendBuffer', resendList')
  <2>1. Range(resendBuffer') \ {NoPacket} = (Range(resendBuffer) \ {NoPacket}) \ settled
    <3>1. DOMAIN resendBuffer = Slot /\ DOMAIN resendBuffer' = Slot
      BY <1>5, <1>8
    <3>2. \A p : p \in Range(resendBuffer') <=> \E s \in Slot : p = resendBuffer'[s]
      BY <3>1 DEF Range
    <3>3. \A p : p \in Range(resendBuffer) <=> \E s \in Slot : p = resendBuffer[s]
      BY <3>1 DEF Range
    <3>4. \A s \in Slot : resendBuffer'[s] = IF resendBuffer[s] \in settled
                                             THEN NoPacket ELSE resendBuffer[s]
      BY <1>3
    <3>5. ASSUME NEW p, p # NoPacket
          PROVE  p \in Range(resendBuffer') <=> p \in Range(resendBuffer) /\ p \notin settled
      BY <3>2, <3>3, <3>4, <3>5
    <3>6. QED BY <3>5
  <2>2. Range(resendList') = Range(resendBuffer') \ {NoPacket}
    BY <1>5, <1>6, <2>1 DEF BufferIs
  <2>3. \A slot \in Slot :
            resendBuffer'[slot] # NoPacket => SlotOf(resendBuffer'[slot].number) = slot
    BY <1>3, <1>5 DEF BufferIs
  <2>4. QED BY <1>6, <2>2, <2>3 DEF BufferIs
<1>10. InWindow(numbered, resendList')
  BY <1>6 DEF LayerInv, InWindow
<1>11. AreNumbered(start, numbered, resendList')
  <2>1. \A p \in Range(resendList) : \E m \in 1 .. numbered : p = PacketOf(start, m)
    BY DEF LayerInv, AreNumbered, Range
  <2>2. \A i \in DOMAIN resendList' : resendList'[i] \in Range(resendList')
    BY DEF Range
  <2>3. QED BY <1>6, <2>1, <2>2 DEF AreNumbered
<1>12. IsKept(numbered, resendList', receiver)
  <2>1. IsKept(numbered, resendList, receiver)
    BY DEF LayerInv
  <2>2. QED BY <1>4, <1>6, <2>1 DEF IsKept
<1>13. /\ datagramHistory' \in Seq(SUBSET Number)
       /\ HistoryIs(start, datagramHistory', datagramHistoryPopCount, datagrams)
  <2>1. Len(datagramHistory) \in Nat /\ DOMAIN datagramHistory = 1 .. Len(datagramHistory)
    BY DatagramsAre
  <2>2. datagramHistory' \in [1 .. Len(datagramHistory) -> SUBSET Number]
    <3>1. \A i \in 1 .. Len(datagramHistory) : datagramHistory[i] \in SUBSET Number
      BY <1>5, <2>1, ElementOfSeq
    <3>2. QED BY <1>3, <2>1, <3>1
  <2>3. /\ datagramHistory' \in Seq(SUBSET Number)
        /\ Len(datagramHistory') = Len(datagramHistory)
        /\ DOMAIN datagramHistory' = DOMAIN datagramHistory
    BY <2>1, <2>2, FunctionIsSeq
  <2>4. \A i \in DOMAIN datagramHistory :
            datagramHistory'[i] = {} \/ datagramHistory'[i] = datagramHistory[i]
    BY <1>3
  <2>5. HistoryIs(start, datagramHistory, datagramHistoryPopCount, datagrams)
    BY DEF LayerInv
  <2>6. \A i \in DOMAIN datagramHistory :
           NodeIs(datagramHistory'[i], datagrams, Len(datagrams) - Len(datagramHistory) + i)
    BY <2>4, <2>5 DEF HistoryIs, NodeIs
  <2>7. QED BY <2>3, <2>5, <2>6 DEF HistoryIs
<1>14. WaitingInOrder'
  BY <1>1, <1>5, <1>7 DEF WaitingInOrder, waitingVars
<1>15. LayerTypeOK'
  BY <1>1, <1>5, <1>6, <1>8, <1>13 DEF LayerTypeOK, waitingVars, receivingVars
<1>16. /\ ReceiverOK(start, numbered, receiver)'
       /\ Len(datagrams') <= MaxDatagrams
       /\ (\A d \in DOMAIN datagrams : AreNumbered(start, numbered, datagrams[d]))'
       /\ IsRangeList(acknowlegements)'
       /\ AreOfReceived(start, acknowlegements, datagrams, receiver)'
       /\ (\A a \in acks : /\ IsRangeList(a)
                           /\ AreOfReceived(start, a, datagrams, receiver))'
  BY <1>1, <1>7 DEF LayerInv, receivingVars
<1>17. QED
  BY <1>1, <1>7, <1>9, <1>10, <1>11, <1>12, <1>13, <1>14, <1>15, <1>16
     DEF LayerInv, receivingVars

-----------------------------------------------------------------------------
(* Update: packets leave, again or for the first time.                     *)

\* The messages that leave for the first time are the next after those that
\* were numbered, each with the number of its place.
LEMMA NumberedIs ==
    ASSUME NothingOutlivesTheCircle, LayerInv, NEW n \in 0 .. Len(outgoing)
    PROVE  /\ Numbered(n) \in Seq(Packet) /\ Len(Numbered(n)) = n
           /\ DOMAIN Numbered(n) = 1 .. n /\ n \in Nat
           /\ \A i \in 1 .. n : /\ Numbered(n)[i] = PacketOf(start, numbered + i)
                                /\ Numbered(n)[i].number = Plus(start, numbered + i - 1)
                                /\ Numbered(n)[i].message = numbered + i
                                /\ numbered + i \in 1 .. MaxMessages
                                /\ numbered + i \in 1 .. numbered + n
                                /\ numbered + i - 1 \in Number
           /\ IsInjective(Numbered(n))
<1> DEFINE new == Numbered(n)
<1>1. /\ start \in Number /\ start \in Nat
      /\ sent \in Nat /\ sent <= MaxMessages /\ MaxMessages \in Nat
      /\ Len(outgoing) \in Nat /\ DOMAIN outgoing = 1 .. Len(outgoing)
      /\ sent = numbered + Len(outgoing)
      /\ numbered \in Nat
  BY LayerNumbers
<1>2. WaitingInOrder
  BY DEF LayerInv
<1>3. /\ \A i \in 1 .. Len(outgoing) :
            outgoing[i] = [order |-> Plus(start, numbered + i - 1), message |-> numbered + i]
      /\ sendReliableMessageNumberIndex = Plus(start, numbered)
  BY <1>1, <1>2 DEF WaitingInOrder
<1>4. n \in Nat /\ \A i \in 1 .. n : i \in 1 .. Len(outgoing)
  BY <1>1
<1> HIDE DEF numbered
<1>5. ASSUME NEW i \in 1 .. n
      PROVE  /\ new[i] = PacketOf(start, numbered + i)
             /\ numbered + i \in 1 .. MaxMessages
             /\ numbered + i \in 1 .. numbered + n
  <2>1. /\ i \in 1 .. Len(outgoing) /\ i - 1 \in Nat /\ numbered + (i - 1) = numbered + i - 1
        /\ (numbered + i) - 1 = numbered + i - 1
    BY <1>1, <1>4
  <2>2. Plus(sendReliableMessageNumberIndex, i - 1) = Plus(start, numbered + (i - 1))
    BY <1>1, <1>3, <2>1, PlusPlus
  <2>3. new[i] = [number  |-> Plus(sendReliableMessageNumberIndex, i - 1),
                  order   |-> outgoing[i].order,
                  message |-> outgoing[i].message]
    BY DEF Numbered
  <2>4. outgoing[i].order = Plus(start, numbered + i - 1) /\ outgoing[i].message = numbered + i
    <3>1. outgoing[i] = [order |-> Plus(start, numbered + i - 1), message |-> numbered + i]
      BY <1>3, <2>1
    <3>2. QED BY <3>1
  <2>5. new[i] = PacketOf(start, numbered + i)
    BY <2>1, <2>2, <2>3, <2>4 DEF PacketOf
  <2>6. numbered + i \in 1 .. MaxMessages /\ numbered + i \in 1 .. numbered + n
    BY <1>1, <1>4, <2>1
  <2>7. QED BY <2>5, <2>6
<1>6. DOMAIN new = 1 .. n
  BY DEF Numbered
<1>7. new = [i \in 1 .. n |-> new[i]]
  BY DEF Numbered
<1> HIDE DEF new
<1>8. ASSUME NEW i \in 1 .. n
      PROVE  /\ new[i] \in Packet /\ new[i].message = numbered + i
             /\ new[i].number = Plus(start, numbered + i - 1)
             /\ numbered + i - 1 \in Number
  <2>1. numbered + i \in 1 .. MaxMessages
    BY <1>5
  <2>2. /\ PacketOf(start, numbered + i) \in Packet
        /\ PacketOf(start, numbered + i).message = numbered + i
        /\ PacketOf(start, numbered + i).number = Plus(start, (numbered + i) - 1)
        /\ (numbered + i) - 1 \in Number
    BY <1>1, <2>1, PacketIs
  <2>3. new[i] = PacketOf(start, numbered + i)
    BY <1>5
  <2>4. (numbered + i) - 1 = numbered + i - 1
    BY <1>1, <1>4
  <2>5. QED BY <2>2, <2>3, <2>4
<1>9. new \in [1 .. n -> Packet]
  BY <1>6, <1>7, <1>8
<1>10. new \in Seq(Packet) /\ Len(new) = n
  BY <1>4, <1>9, FunctionIsSeq
<1>11. IsInjective(new)
  <2>1. ASSUME NEW a \in 1 .. n, NEW b \in 1 .. n, new[a] = new[b]
        PROVE  a = b
    <3>1. numbered + a = numbered + b
      BY <1>8, <2>1
    <3>2. QED BY <1>1, <1>4, <3>1
  <2>2. QED BY <1>6, <2>1 DEF IsInjective
<1>12. QED BY <1>4, <1>5, <1>6, <1>8, <1>10, <1>11 DEF new

\* What still waits, after n have left.
LEMMA StillWaiting ==
    ASSUME NothingOutlivesTheCircle, LayerInv, NEW n \in 0 .. Len(outgoing),
           start' = start, sent' = sent, orderedWriteIndex' = orderedWriteIndex,
           outgoing' = SubSeq(outgoing, n + 1, Len(outgoing)),
           sendReliableMessageNumberIndex' = Plus(sendReliableMessageNumberIndex, n)
    PROVE  /\ numbered' = numbered + n
           /\ WaitingInOrder'
           /\ outgoing' \in Seq([order : Number, message : 1 .. MaxMessages])
           /\ sendReliableMessageNumberIndex' \in Number
<1> DEFINE S == [order : Number, message : 1 .. MaxMessages]
<1>1. /\ start \in Number /\ start \in Nat
      /\ sent \in Nat
      /\ Len(outgoing) \in Nat /\ DOMAIN outgoing = 1 .. Len(outgoing)
      /\ sent = numbered + Len(outgoing)
      /\ numbered \in Nat
  BY LayerNumbers
<1>2. WaitingInOrder /\ outgoing \in Seq(S) /\ sendReliableMessageNumberIndex \in Number
  BY DEF LayerInv, LayerTypeOK
<1>3. n \in Nat /\ n <= Len(outgoing) /\ Len(outgoing) <= Len(outgoing)
  BY <1>1
<1> HIDE DEF S
<1>4. /\ outgoing' \in Seq(S) /\ Len(outgoing') = Len(outgoing) - n
      /\ \A i \in 1 .. Len(outgoing) - n : outgoing'[i] = outgoing[n + i]
  <2> DEFINE N == Len(outgoing)
             left == SubSeq(outgoing, n + 1, N)
  <2>1. N \in Nat /\ N = Len(outgoing) /\ N <= Len(outgoing) /\ n <= N
    BY <1>1, <1>3
  <2> HIDE DEF N
  <2>2. /\ left \in Seq(S) /\ Len(left) = N - n
        /\ \A i \in 1 .. N - n : left[i] = outgoing[n + i]
    BY <1>2, <1>3, <2>1, SubSeqIs
  <2>3. outgoing' = left
    BY DEF N
  <2> HIDE DEF left
  <2>4. QED BY <2>1, <2>2, <2>3
<1>5. DOMAIN outgoing' = 1 .. Len(outgoing) - n
  BY <1>4, LenProperties
<1>6. numbered' = numbered + n
  <2>1. numbered' = sent - Len(outgoing') /\ Len(outgoing') = Len(outgoing) - n
    BY <1>4 DEF numbered
  <2>2. sent - (Len(outgoing) - n) = numbered + n
    <3>1. sent = numbered + Len(outgoing) /\ numbered \in Nat /\ Len(outgoing) \in Nat /\ n \in Nat
      BY <1>1, <1>3
    <3> HIDE DEF numbered
    <3>2. QED BY <3>1
  <2>3. QED BY <2>1, <2>2
<1> HIDE DEF numbered
<1>7. /\ \A i \in 1 .. Len(outgoing) :
            outgoing[i] = [order |-> Plus(start, numbered + i - 1), message |-> numbered + i]
      /\ sendReliableMessageNumberIndex = Plus(start, numbered)
      /\ orderedWriteIndex = Plus(start, sent)
  BY <1>1, <1>2 DEF WaitingInOrder
<1>8. ASSUME NEW i \in 1 .. Len(outgoing) - n
      PROVE  outgoing'[i] = [order |-> Plus(start, numbered + n + i - 1),
                             message |-> numbered + n + i]
  <2>1. /\ n + i \in 1 .. Len(outgoing)
        /\ numbered + (n + i) - 1 = numbered + n + i - 1
        /\ numbered + (n + i) = numbered + n + i
    BY <1>1, <1>3
  <2>2. outgoing[n + i] = [order |-> Plus(start, numbered + (n + i) - 1),
                           message |-> numbered + (n + i)]
    BY <1>7, <2>1
  <2>3. QED BY <1>4, <2>1, <2>2
<1>9. sendReliableMessageNumberIndex' = Plus(start, numbered + n)
  BY <1>1, <1>3, <1>7, PlusPlus
<1>10. sendReliableMessageNumberIndex' \in Number
  <2>1. numbered + n \in Nat
    BY <1>1, <1>3
  <2>2. QED BY <1>1, <1>9, <2>1, PlusIsNumber
<1>11. Len(outgoing') <= sent'
  <2>1. Len(outgoing') = Len(outgoing) - n
    BY <1>4
  <2>2. Len(outgoing) - n <= sent
    BY <1>1, <1>3
  <2>3. QED BY <2>1, <2>2
<1>12. WaitingInOrder'
  BY <1>5, <1>6, <1>7, <1>8, <1>9, <1>11 DEF WaitingInOrder
<1>13. QED BY <1>4, <1>6, <1>10, <1>12 DEF S

\* The nodes of the history, with more at their end.
LEMMA NodesConcatIs ==
    ASSUME NEW nodes \in Seq(SUBSET Number), NEW more \in Seq(SUBSET Number)
    PROVE  /\ nodes \o more \in Seq(SUBSET Number)
           /\ Len(nodes \o more) = Len(nodes) + Len(more)
           /\ Len(nodes) \in Nat /\ Len(more) \in Nat
           /\ \A i \in 1 .. Len(nodes) : (nodes \o more)[i] = nodes[i]
           /\ \A i \in 1 .. Len(nodes \o more) :
                 \/ i \in 1 .. Len(nodes)
                 \/ i - Len(nodes) \in 1 .. Len(more) /\ (nodes \o more)[i] = more[i - Len(nodes)]
BY ConcatIs

\* Part of the history.
LEMMA NodesSubSeqIs ==
    ASSUME NEW nodes \in Seq(SUBSET Number), NEW a \in Nat, NEW b \in Nat,
           a <= b, b <= Len(nodes)
    PROVE  /\ SubSeq(nodes, a + 1, b) \in Seq(SUBSET Number)
           /\ Len(SubSeq(nodes, a + 1, b)) = b - a
           /\ \A i \in 1 .. b - a : SubSeq(nodes, a + 1, b)[i] = nodes[a + i]
BY SubSeqIs

\* The nodes of the datagrams that leave.
NamesOf(leaving) ==
    [d \in DOMAIN leaving |-> {leaving[d][i].number : i \in DOMAIN leaving[d]}]

\* One node for each datagram, with the numbers of its packets.
LEMMA NamesAre ==
    ASSUME NEW leaving \in Seq(Seq(Packet))
    PROVE  /\ NamesOf(leaving) \in Seq(SUBSET Number)
           /\ Len(NamesOf(leaving)) = Len(leaving)
           /\ \A d \in 1 .. Len(leaving) :
                 NamesOf(leaving)[d] = {leaving[d][j].number : j \in DOMAIN leaving[d]}
<1>1. DOMAIN leaving = 1 .. Len(leaving) /\ Len(leaving) \in Nat
  BY LenProperties
<1>2. ASSUME NEW d \in 1 .. Len(leaving)
      PROVE  {leaving[d][i].number : i \in DOMAIN leaving[d]} \in SUBSET Number
  <2> DEFINE packets == leaving[d]
  <2>1. packets \in Seq(Packet)
    BY <1>2, ElementOfSeq
  <2> HIDE DEF packets
  <2>2. \A i \in DOMAIN packets : packets[i] \in Packet
    BY <2>1, LenProperties, ElementOfSeq
  <2>3. \A i \in DOMAIN packets : packets[i].number \in Number
    BY <2>2 DEF Packet
  <2>4. QED BY <2>3 DEF packets
<1>3. NamesOf(leaving) \in [1 .. Len(leaving) -> SUBSET Number]
  BY <1>1, <1>2 DEF NamesOf
<1>4. NamesOf(leaving) \in Seq(SUBSET Number) /\ Len(NamesOf(leaving)) = Len(leaving)
  BY <1>1, <1>3, FunctionIsSeq
<1>5. \A d \in 1 .. Len(leaving) :
         NamesOf(leaving)[d] = {leaving[d][j].number : j \in DOMAIN leaving[d]}
  BY <1>1 DEF NamesOf
<1>6. QED BY <1>4, <1>5

\* The history, with the nodes of the datagrams that leave at its end and as
\* many popped as the handler likes.
LEMMA HistoryGrows ==
    ASSUME NEW s \in Nat, NEW nodes \in Seq(SUBSET Number), NEW pop \in Nat,
           NEW data \in Seq(Seq(Packet)), NEW leaving \in Seq(Seq(Packet)),
           HistoryIs(s, nodes, pop, data),
           NEW all, all = nodes \o NamesOf(leaving),
           NEW popped \in 0 .. Len(all)
    PROVE  /\ SubSeq(all, popped + 1, Len(all)) \in Seq(SUBSET Number)
           /\ HistoryIs(s, SubSeq(all, popped + 1, Len(all)), Plus(pop, popped), data \o leaving)
           /\ Plus(pop, popped) \in Number
<1> DEFINE more == NamesOf(leaving)
           left == SubSeq(all, popped + 1, Len(all))
           now == data \o leaving
<1>1. /\ more \in Seq(SUBSET Number) /\ Len(more) = Len(leaving)
      /\ \A d \in 1 .. Len(leaving) : more[d] = {leaving[d][j].number : j \in DOMAIN leaving[d]}
  BY NamesAre
<1> HIDE DEF more
<1>2. /\ all \in Seq(SUBSET Number)
      /\ Len(all) = Len(nodes) + Len(more)
      /\ Len(nodes) \in Nat /\ Len(more) \in Nat
      /\ \A i \in 1 .. Len(nodes) : all[i] = nodes[i]
      /\ \A i \in 1 .. Len(all) :
                 \/ i \in 1 .. Len(nodes)
                 \/ i - Len(nodes) \in 1 .. Len(more) /\ all[i] = more[i - Len(nodes)]
  <2>1. /\ nodes \o more \in Seq(SUBSET Number)
        /\ Len(nodes \o more) = Len(nodes) + Len(more)
        /\ Len(nodes) \in Nat /\ Len(more) \in Nat
        /\ \A i \in 1 .. Len(nodes) : (nodes \o more)[i] = nodes[i]
        /\ \A i \in 1 .. Len(nodes \o more) :
              \/ i \in 1 .. Len(nodes)
              \/ i - Len(nodes) \in 1 .. Len(more) /\ (nodes \o more)[i] = more[i - Len(nodes)]
    BY <1>1, NodesConcatIs
  <2>2. all = nodes \o more
    BY DEF more
  <2>3. QED BY <2>1, <2>2
<1>3. /\ now \in Seq(Seq(Packet))
      /\ Len(now) = Len(data) + Len(leaving)
      /\ Len(data) \in Nat /\ Len(leaving) \in Nat
      /\ \A i \in 1 .. Len(data) : now[i] = data[i]
      /\ \A i \in 1 .. Len(leaving) : now[Len(data) + i] = leaving[i]
  BY ConcatIs
<1>4. /\ DOMAIN now = 1 .. Len(data) + Len(leaving) /\ DOMAIN data = 1 .. Len(data)
      /\ DOMAIN nodes = 1 .. Len(nodes)
  BY <1>3, LenProperties
<1> HIDE DEF now
<1>5. popped \in Nat /\ popped <= Len(all) /\ Len(all) <= Len(all) /\ Len(all) \in Nat
  BY <1>2
<1>6. /\ left \in Seq(SUBSET Number) /\ Len(left) = Len(all) - popped
      /\ \A i \in 1 .. Len(all) - popped : left[i] = all[popped + i]
  <2>1. all \in Seq(SUBSET Number)
    BY <1>2
  <2>2. QED BY <1>5, <2>1, NodesSubSeqIs
<1>7. DOMAIN left = 1 .. Len(all) - popped
  BY <1>6, LenProperties
<1> HIDE DEF left
<1>8. Plus(pop, popped) \in Number
  BY <1>5, PlusIsNumber
<1>9. Plus(Plus(pop, popped), Len(left)) = Plus(s, Len(now))
  <2>1. Len(left) \in Nat /\ popped + Len(left) = Len(nodes) + Len(more)
    BY <1>2, <1>5, <1>6
  <2>2. Plus(Plus(pop, popped), Len(left)) = Plus(pop, Len(nodes) + Len(more))
    BY <1>5, <2>1, PlusPlus
  <2>3. Plus(pop, Len(nodes) + Len(more)) = Plus(Plus(pop, Len(nodes)), Len(more))
    BY <1>2, PlusPlus
  <2>4. Plus(pop, Len(nodes)) = Plus(s, Len(data))
    BY DEF HistoryIs
  <2>5. Plus(Plus(s, Len(data)), Len(more)) = Plus(s, Len(data) + Len(more))
    BY <1>2, <1>3, PlusPlus
  <2>6. QED BY <1>1, <1>3, <2>2, <2>3, <2>4, <2>5
<1>10. ASSUME NEW i \in 1 .. Len(all) - popped
      PROVE  NodeIs(left[i], now, Len(now) - Len(left) + i)
  <2> DEFINE d == Len(now) - Len(left) + i
             k == popped + i
  <2>1. k \in 1 .. Len(all) /\ k \in Nat /\ left[i] = all[k]
    BY <1>5, <1>6
  <2>2. d = Len(data) - Len(nodes) + k
    BY <1>1, <1>2, <1>3, <1>5, <1>6
  <2> HIDE DEF d, k
  <2>3. CASE k \in 1 .. Len(nodes)
    <3>1. left[i] = nodes[k]
      BY <1>2, <2>1, <2>3
    <3>2. NodeIs(nodes[k], data, d)
      BY <1>4, <2>2, <2>3 DEF HistoryIs
    <3>3. ASSUME left[i] # {}
          PROVE  d \in DOMAIN now /\ left[i] = {now[d][j].number : j \in DOMAIN now[d]}
      <4>1. d \in DOMAIN data /\ left[i] = {data[d][j].number : j \in DOMAIN data[d]}
        BY <3>1, <3>2, <3>3 DEF NodeIs
      <4>2. PICK e \in 1 .. Len(data) : e = d
        BY <1>4, <4>1
      <4>3. now[e] = data[e]
        BY <1>3
      <4>4. e \in 1 .. Len(data) + Len(leaving)
        BY <1>3
      <4>5. d \in DOMAIN now /\ now[d] = data[d]
        BY <1>4, <4>2, <4>3, <4>4
      <4>6. QED BY <4>1, <4>5
    <3>4. QED BY <3>3 DEF NodeIs, d
  <2>4. CASE k \notin 1 .. Len(nodes)
    <3>1. k - Len(nodes) \in 1 .. Len(more) /\ left[i] = more[k - Len(nodes)]
      BY <1>2, <2>1, <2>4
    <3>2. PICK e \in 1 .. Len(leaving) : e = k - Len(nodes)
      BY <1>1, <3>1
    <3>3. d = Len(data) + e /\ d \in 1 .. Len(data) + Len(leaving)
      <4>1. /\ Len(nodes) \in Nat /\ Len(data) \in Nat /\ Len(leaving) \in Nat
            /\ k \in Nat /\ d = Len(data) - Len(nodes) + k /\ e = k - Len(nodes)
        BY <1>2, <1>3, <2>1, <2>2, <3>2
      <4>2. d = Len(data) + e
        BY <4>1
      <4>3. QED BY <4>1, <4>2
    <3>4. now[d] = leaving[e]
      BY <1>3, <3>3
    <3>5. left[i] = {leaving[e][j].number : j \in DOMAIN leaving[e]}
      BY <1>1, <3>1, <3>2
    <3>6. d \in DOMAIN now /\ left[i] = {now[d][j].number : j \in DOMAIN now[d]}
      <4>1. d \in DOMAIN now
        BY <1>4, <3>3
      <4>2. QED BY <3>4, <3>5, <4>1
    <3>7. QED BY <3>6 DEF NodeIs, d
  <2>5. QED BY <2>3, <2>4 DEF d
<1>11. HistoryIs(s, left, Plus(pop, popped), now)
  BY <1>7, <1>9, <1>10 DEF HistoryIs
<1>12. QED BY <1>6, <1>8, <1>11 DEF left, now

\* The resend list of an Update: the packets that were due go to its end, and
\* those that leave for the first time follow.
LEMMA ListGrows ==
    ASSUME NothingOutlivesTheCircle, LayerInv, NEW n \in 0 .. Len(outgoing),
           NEW k \in 0 .. Len(resendList), NEW list,
           list = SubSeq(resendList, k + 1, Len(resendList))
                     \o SubSeq(resendList, 1, k) \o Numbered(n)
    PROVE  /\ list \in Seq(Packet)
           /\ IsInjective(list)
           /\ Range(list) = Range(resendList) \cup Range(Numbered(n))
<1> DEFINE old == SubSeq(resendList, 1, k)
           rest == SubSeq(resendList, k + 1, Len(resendList))
           new == Numbered(n)
<1>1. /\ resendList \in Seq(Packet) /\ IsInjective(resendList)
      /\ AreNumbered(start, numbered, resendList)
  BY DEF LayerInv, LayerTypeOK, BufferIs
<1>2. /\ old \in Seq(Packet) /\ rest \in Seq(Packet)
      /\ Range(old) \cup Range(rest) = Range(resendList)
      /\ IsInjective(old) /\ IsInjective(rest) /\ Range(old) \cap Range(rest) = {}
  BY <1>1, PartsAre
<1>3. /\ new \in Seq(Packet) /\ IsInjective(new) /\ DOMAIN new = 1 .. n
      /\ \A i \in 1 .. n : new[i].message = numbered + i
  BY NumberedIs
<1>4. list = (rest \o old) \o new
  OBVIOUS
<1> HIDE DEF old, rest, new
<1>5. /\ rest \o old \in Seq(Packet) /\ IsInjective(rest \o old)
      /\ Range(rest \o old) = Range(resendList)
  <2>1. rest \o old \in Seq(Packet)
    BY <1>2, ConcatProperties
  <2>2. Range(rest \o old) = Range(rest) \cup Range(old)
    BY <1>2, JoinedRange
  <2>3. Range(rest) \cap Range(old) = {}
    BY <1>2
  <2>4. IsInjective(rest \o old)
    BY <1>2, <2>3, JoinedInjective
  <2>5. QED BY <1>2, <2>1, <2>2, <2>4
<1>6. Range(resendList) \cap Range(new) = {}
  <2>1. /\ start \in Number /\ numbered \in 0 .. MaxMessages /\ numbered \in Nat
        /\ MaxMessages \in Nat
    BY LayerNumbers
  <2> HIDE DEF numbered
  <2>2. ASSUME NEW p \in Range(resendList), p \in Range(new)
        PROVE  FALSE
    <3>1. PICK m \in 1 .. numbered : p = PacketOf(start, m)
      BY <1>1 DEF AreNumbered, Range
    <3>2. m \in 1 .. MaxMessages
      BY <2>1
    <3>3. p.message = m
      BY <2>1, <3>1, <3>2, PacketIs
    <3>4. PICK i \in 1 .. n : p = new[i]
      BY <1>3, <2>2 DEF Range
    <3>5. m = numbered + i
      BY <1>3, <3>3, <3>4
    <3>6. QED BY <2>1, <3>5
  <2>3. QED BY <2>2
<1>7. list \in Seq(Packet)
  BY <1>3, <1>4, <1>5, ConcatProperties
<1>8. IsInjective(list)
  BY <1>3, <1>4, <1>5, <1>6, JoinedInjective
<1>9. Range(list) = Range(resendList) \cup Range(new)
  <2> DEFINE front == rest \o old
  <2>1. front \in Seq(Packet) /\ Range(front) = Range(resendList) /\ list = front \o new
    BY <1>4, <1>5
  <2>2. new \in Seq(Packet)
    BY <1>3
  <2> HIDE DEF front
  <2>3. Range(front \o new) = Range(front) \cup Range(new)
    BY <2>1, <2>2, JoinedRange
  <2>4. QED BY <2>1, <2>3
<1>10. QED BY <1>7, <1>8, <1>9 DEF new

\* Each packet that leaves for the first time has a slot of its own, that was
\* free.
LEMMA SlotsAreFree ==
    ASSUME NothingOutlivesTheCircle, LayerInv, NEW n \in Room
    PROVE  /\ n \in 0 .. Len(outgoing) /\ n \in Nat /\ n <= RESEND_BUFFER_ARRAY_LENGTH
           /\ \A i \in 1 .. n : /\ SlotOf(Numbered(n)[i].number) \in Slot
                                /\ resendBuffer[SlotOf(Numbered(n)[i].number)] = NoPacket
           /\ \A i, j \in 1 .. n :
                 SlotOf(Numbered(n)[i].number) = SlotOf(Numbered(n)[j].number) => i = j
<1> DEFINE new == Numbered(n)
           r == RESEND_BUFFER_ARRAY_LENGTH
<1>1. /\ n \in 0 .. Len(outgoing) /\ n <= r
      /\ \A i \in 1 .. n : resendBuffer[SlotOf(new[i].number)] = NoPacket
  BY DEF Room
<1>2. /\ n \in Nat
      /\ \A i \in 1 .. n : /\ new[i].number = Plus(start, numbered + i - 1)
                           /\ numbered + i - 1 \in Number
  BY <1>1, NumberedIs
<1>3. start \in Number /\ numbered \in Nat
  BY LayerNumbers
<1>4. r \in Nat
  BY LayerAssumption
<1> HIDE DEF new, r, numbered
<1>5. \A i \in 1 .. n : SlotOf(new[i].number) \in Slot
  BY <1>2, <1>3, SlotIs
<1>6. ASSUME NEW i \in 1 .. n, NEW j \in 1 .. n,
             SlotOf(new[i].number) = SlotOf(new[j].number)
      PROVE  i = j
  <2> DEFINE a == numbered + i - 1
             b == numbered + j - 1
  <2>1. a \in Number /\ b \in Number /\ SlotOf(Plus(start, a)) = SlotOf(Plus(start, b))
    BY <1>2, <1>6
  <2>2. a - b < r /\ b - a < r /\ (a = b => i = j)
    BY <1>1, <1>2, <1>3, <1>4
  <2> HIDE DEF a, b
  <2>3. a = b
    BY <1>3, <2>1, <2>2, OneSlot DEF r
  <2>4. QED BY <2>2, <2>3
<1>7. QED BY <1>1, <1>2, <1>5, <1>6 DEF new, r

\* The resend buffer of an Update.
LEMMA BufferGrows ==
    ASSUME NothingOutlivesTheCircle, LayerInv, NEW n \in Room, NEW list, NEW buffer,
           IsInjective(list), Range(list) = Range(resendList) \cup Range(Numbered(n)),
           buffer = [s \in Slot |->
                        LET mine == {i \in 1 .. n : SlotOf(Numbered(n)[i].number) = s}
                        IN  IF mine = {} THEN resendBuffer[s]
                            ELSE Numbered(n)[CHOOSE i \in mine : \A j \in mine : j <= i]]
    PROVE  /\ buffer \in [Slot -> Packet \cup {NoPacket}]
           /\ BufferIs(buffer, list)
<1> DEFINE new == Numbered(n)
           mine(s) == {i \in 1 .. n : SlotOf(new[i].number) = s}
           chosen(s) == CHOOSE i \in mine(s) : \A j \in mine(s) : j <= i
<1>1. /\ n \in 0 .. Len(outgoing) /\ n \in Nat
      /\ \A i \in 1 .. n : /\ SlotOf(new[i].number) \in Slot
                           /\ resendBuffer[SlotOf(new[i].number)] = NoPacket
      /\ \A i, j \in 1 .. n : SlotOf(new[i].number) = SlotOf(new[j].number) => i = j
  BY SlotsAreFree
<1>2. new \in Seq(Packet) /\ DOMAIN new = 1 .. n /\ Len(new) = n
  BY <1>1, NumberedIs
<1>3. /\ resendBuffer \in [Slot -> Packet \cup {NoPacket}]
      /\ Range(resendList) = Range(resendBuffer) \ {NoPacket}
      /\ \A slot \in Slot : resendBuffer[slot] # NoPacket =>
                               SlotOf(resendBuffer[slot].number) = slot
  BY DEF LayerInv, LayerTypeOK, BufferIs
<1>4. \A s \in Slot : buffer[s] = IF mine(s) = {} THEN resendBuffer[s] ELSE new[chosen(s)]
  OBVIOUS
<1>5. DOMAIN buffer = Slot
  OBVIOUS
<1>6. buffer = [s \in Slot |-> buffer[s]]
  OBVIOUS
<1> HIDE DEF new, chosen
<1>7. ASSUME NEW s \in Slot, NEW i \in 1 .. n, SlotOf(new[i].number) = s
      PROVE  buffer[s] = new[i]
  <2>1. i \in mine(s) /\ \A j \in mine(s) : j = i
    BY <1>1, <1>7
  <2>2. i <= i
    BY <1>1
  <2>3. i \in mine(s) /\ \A j \in mine(s) : j <= i
    BY <2>1, <2>2
  <2>4. chosen(s) \in mine(s)
    <3> HIDE DEF mine
    <3>1. QED BY <2>3 DEF chosen
  <2>5. chosen(s) = i
    BY <2>1, <2>4
  <2>6. QED BY <1>4, <2>1, <2>5
<1>8. ASSUME NEW s \in Slot, \A i \in 1 .. n : SlotOf(new[i].number) # s
      PROVE  buffer[s] = resendBuffer[s]
  BY <1>4, <1>8
<1>9. \A i \in 1 .. n : new[i] \in Packet /\ new[i] # NoPacket
  <2>1. \A i \in 1 .. n : new[i] \in Packet
    BY <1>2, ElementOfSeq
  <2>2. NoPacket \notin Packet
    BY ModulusIs DEF NoPacket, Packet, Number
  <2>3. QED BY <2>1, <2>2
<1> HIDE DEF mine
<1>10. \A s \in Slot : buffer[s] \in Packet \cup {NoPacket}
  BY <1>3, <1>7, <1>8, <1>9
<1>11. buffer \in [Slot -> Packet \cup {NoPacket}]
  BY <1>6, <1>10
<1>12. \A s \in Slot : buffer[s] # NoPacket => SlotOf(buffer[s].number) = s
  <2>1. ASSUME NEW s \in Slot, buffer[s] # NoPacket
        PROVE  SlotOf(buffer[s].number) = s
    <3>1. CASE \E i \in 1 .. n : SlotOf(new[i].number) = s
      BY <1>7, <3>1
    <3>2. CASE ~ \E i \in 1 .. n : SlotOf(new[i].number) = s
      BY <1>3, <1>8, <2>1, <3>2
    <3>3. QED BY <3>1, <3>2
  <2>2. QED BY <2>1
<1>13. Range(list) = Range(buffer) \ {NoPacket}
  <2>1. \A p : p \in Range(buffer) <=> \E s \in Slot : p = buffer[s]
    BY <1>5 DEF Range
  <2>2. \A p : p \in Range(resendBuffer) <=> \E s \in Slot : p = resendBuffer[s]
    BY <1>3 DEF Range
  <2>3. \A p : p \in Range(new) <=> \E i \in 1 .. n : p = new[i]
    BY <1>2 DEF Range
  <2>4. ASSUME NEW p \in Range(list)
        PROVE  p \in Range(buffer) /\ p # NoPacket
    <3>1. CASE p \in Range(new)
      <4>1. PICK i \in 1 .. n : p = new[i]
        BY <2>3, <3>1
      <4>2. PICK s \in Slot : s = SlotOf(new[i].number)
        BY <1>1
      <4>3. p = buffer[s] /\ p # NoPacket
        BY <1>7, <1>9, <4>1, <4>2
      <4>4. QED BY <2>1, <4>3
    <3>2. CASE p \in Range(resendList)
      <4>1. p # NoPacket /\ \E s \in Slot : p = resendBuffer[s]
        BY <1>3, <2>2, <3>2
      <4>2. PICK s \in Slot : p = resendBuffer[s]
        BY <4>1
      <4>3. \A i \in 1 .. n : SlotOf(new[i].number) # s
        BY <1>1, <4>1, <4>2
      <4>4. QED BY <1>8, <2>1, <4>1, <4>2, <4>3
    <3>3. QED BY <3>1, <3>2 DEF new
  <2>5. ASSUME NEW p \in Range(buffer), p # NoPacket
        PROVE  p \in Range(list)
    <3>1. PICK s \in Slot : p = buffer[s]
      BY <2>1
    <3>2. CASE \E i \in 1 .. n : SlotOf(new[i].number) = s
      <4>1. p \in Range(new)
        BY <1>7, <2>3, <3>1, <3>2
      <4>2. QED BY <4>1 DEF new
    <3>3. CASE ~ \E i \in 1 .. n : SlotOf(new[i].number) = s
      <4>1. p = resendBuffer[s]
        BY <1>8, <3>1, <3>3
      <4>2. p \in Range(resendList)
        BY <1>3, <2>2, <2>5, <4>1
      <4>3. QED BY <4>2
    <3>4. QED BY <3>2, <3>3
  <2>6. QED BY <2>4, <2>5
<1>14. QED BY <1>11, <1>12, <1>13 DEF BufferIs

\* No message leaves while the one a resend buffer before it is unacknowledged:
\* that one has its slot.
LEMMA WindowHolds ==
    ASSUME NothingOutlivesTheCircle, LayerInv, NEW n \in Room, NEW list,
           Range(list) = Range(resendList) \cup Range(Numbered(n))
    PROVE  InWindow(numbered + n, list)
<1> DEFINE new == Numbered(n)
           r == RESEND_BUFFER_ARRAY_LENGTH
<1>1. /\ n \in 0 .. Len(outgoing) /\ n \in Nat /\ n <= r
      /\ \A i \in 1 .. n : resendBuffer[SlotOf(new[i].number)] = NoPacket
  BY SlotsAreFree
<1>2. /\ DOMAIN new = 1 .. n
      /\ \A i \in 1 .. n : /\ new[i].number = Plus(start, numbered + i - 1)
                           /\ new[i].message = numbered + i
                           /\ numbered + i - 1 \in Number
  BY <1>1, NumberedIs
<1>3. /\ start \in Number /\ numbered \in 0 .. MaxMessages /\ numbered \in Nat
      /\ MaxMessages \in Nat
  BY LayerNumbers
<1>4. r \in Nat
  BY LayerAssumption
<1>5. /\ AreNumbered(start, numbered, resendList)
      /\ InWindow(numbered, resendList)
      /\ BufferIs(resendBuffer, resendList)
      /\ resendBuffer \in [Slot -> Packet \cup {NoPacket}]
  BY DEF LayerInv, LayerTypeOK
<1> HIDE DEF numbered, new
<1>6. ASSUME NEW p \in Range(resendList)
      PROVE  p.message + r > numbered + n
  <2>1. PICK m \in 1 .. numbered : p = PacketOf(start, m)
    BY <1>5 DEF AreNumbered, Range
  <2>2. m \in 1 .. MaxMessages
    BY <1>3
  <2>3. p.message = m /\ p.number = Plus(start, m - 1) /\ m - 1 \in Number
    BY <1>3, <2>1, <2>2, PacketIs
  <2>4. m + r > numbered
    BY <1>5, <2>3 DEF InWindow
  <2>5. ASSUME m + r <= numbered + n
        PROVE  FALSE
    <3> DEFINE i == m + r - numbered
               a == m - 1
    <3>1. i \in 1 .. n /\ numbered + i - 1 = a + r /\ a \in Number
      <4> HIDE DEF r
      <4>1. QED BY <1>1, <1>3, <1>4, <2>2, <2>3, <2>4, <2>5
    <3> HIDE DEF i, a
    <3>2. a + r \in Number /\ new[i].number = Plus(start, a + r)
      BY <1>2, <3>1
    <3>3. SlotOf(new[i].number) = SlotOf(Plus(start, a))
      BY <1>3, <3>1, <3>2, NextRound
    <3>4. SlotOf(new[i].number) = SlotOf(p.number)
      BY <2>3, <3>3 DEF a
    <3>5. resendBuffer[SlotOf(p.number)] = NoPacket
      BY <1>1, <3>1, <3>4
    <3>6. p \in Range(resendBuffer) /\ p # NoPacket
      BY <1>5 DEF BufferIs
    <3>7. PICK s \in Slot : p = resendBuffer[s]
      BY <1>5, <3>6 DEF Range
    <3>8. SlotOf(p.number) = s
      BY <1>5, <3>6, <3>7 DEF BufferIs
    <3>9. QED BY <3>5, <3>6, <3>7, <3>8
  <2>6. m + r > numbered + n
    <3>1. m \in Nat
      BY <2>2
    <3> HIDE DEF r
    <3>2. QED BY <1>1, <1>3, <1>4, <2>5, <3>1
  <2>7. QED BY <2>3, <2>6
<1>7. ASSUME NEW p \in Range(new)
      PROVE  p.message + r > numbered + n
  <2>1. PICK i \in 1 .. n : p = new[i]
    BY <1>2 DEF Range
  <2>2. p.message = numbered + i
    BY <1>2, <2>1
  <2> HIDE DEF r
  <2>3. (numbered + i) + r > numbered + n
    BY <1>1, <1>3, <1>4
  <2>4. QED BY <2>2, <2>3
<1>8. QED BY <1>6, <1>7 DEF InWindow, new

\* The datagrams of an Update carry packets that were numbered, now or before.
LEMMA LeavingIs ==
    ASSUME NothingOutlivesTheCircle, LayerInv, NEW n \in 0 .. Len(outgoing),
           NEW k \in 0 .. Len(resendList), NEW leaving,
           leaving = InDatagrams(SubSeq(resendList, 1, k)) \o InDatagrams(Numbered(n))
    PROVE  /\ leaving \in Seq(Seq(Packet))
           /\ \A d \in DOMAIN leaving : AreNumbered(start, numbered + n, leaving[d])
<1> DEFINE old == SubSeq(resendList, 1, k)
           new == Numbered(n)
           one == InDatagrams(old)
           two == InDatagrams(new)
<1>1. resendList \in Seq(Packet) /\ AreNumbered(start, numbered, resendList)
  BY DEF LayerInv, LayerTypeOK
<1>2. old \in Seq(Packet) /\ Range(old) \subseteq Range(resendList)
  BY <1>1, PartsAre
<1>3. /\ new \in Seq(Packet) /\ DOMAIN new = 1 .. n /\ n \in Nat
      /\ \A i \in 1 .. n : /\ new[i] = PacketOf(start, numbered + i)
                            /\ numbered + i \in 1 .. numbered + n
  BY NumberedIs
<1>4. numbered \in Nat
  BY LayerNumbers
<1> HIDE DEF old, new, numbered
<1>5. Carries(one, old) /\ Carries(two, new)
  BY <1>2, <1>3, InDatagramsIs
<1>6. leaving = one \o two
  BY DEF old, new
<1> HIDE DEF one, two
<1>7. one \in Seq(Seq(Packet)) /\ two \in Seq(Seq(Packet))
  BY <1>5 DEF Carries
<1>8. DOMAIN one = 1 .. Len(one) /\ DOMAIN two = 1 .. Len(two)
  BY <1>7, LenProperties
<1>9. /\ leaving \in Seq(Seq(Packet))
      /\ \A i \in 1 .. Len(one) : leaving[i] = one[i]
      /\ \A i \in 1 .. Len(leaving) :
            \/ i \in 1 .. Len(one)
            \/ i - Len(one) \in 1 .. Len(two) /\ leaving[i] = two[i - Len(one)]
  <2>1. /\ one \o two \in Seq(Seq(Packet))
        /\ \A i \in 1 .. Len(one) : (one \o two)[i] = one[i]
        /\ \A i \in 1 .. Len(one \o two) :
              \/ i \in 1 .. Len(one)
              \/ i - Len(one) \in 1 .. Len(two) /\ (one \o two)[i] = two[i - Len(one)]
    BY <1>7, ConcatIs
  <2>2. QED BY <1>6, <2>1
<1>10. DOMAIN leaving = 1 .. Len(leaving)
  BY <1>9, LenProperties
<1>11. \A p \in Range(old) : \E m \in 1 .. numbered + n : p = PacketOf(start, m)
  <2>1. \A p \in Range(resendList) : \E m \in 1 .. numbered : p = PacketOf(start, m)
    BY <1>1 DEF AreNumbered, Range
  <2>2. \A m \in 1 .. numbered : m \in 1 .. numbered + n
    BY <1>3, <1>4
  <2>3. QED BY <1>2, <2>1, <2>2
<1>12. \A p \in Range(new) : \E m \in 1 .. numbered + n : p = PacketOf(start, m)
  BY <1>3 DEF Range
<1>13. ASSUME NEW d \in 1 .. Len(leaving)
       PROVE  AreNumbered(start, numbered + n, leaving[d])
  <2>1. CASE d \in 1 .. Len(one)
    <3>1. \A j \in DOMAIN one[d] : one[d][j] \in Range(old)
      BY <1>5, <1>8, <2>1 DEF Carries
    <3>2. AreNumbered(start, numbered + n, one[d])
      BY <1>11, <3>1 DEF AreNumbered
    <3>3. QED BY <1>9, <2>1, <3>2
  <2>2. CASE d \notin 1 .. Len(one)
    <3>1. PICK e \in 1 .. Len(two) : leaving[d] = two[e]
      BY <1>9, <2>2
    <3>2. \A j \in DOMAIN two[e] : two[e][j] \in Range(new)
      BY <1>5, <1>8 DEF Carries
    <3>3. AreNumbered(start, numbered + n, two[e])
      BY <1>12, <3>2 DEF AreNumbered
    <3>4. QED BY <3>1, <3>3
  <2>3. QED BY <2>1, <2>2
<1>14. QED BY <1>9, <1>10, <1>13

\* Update keeps the invariant.
LEMMA UpdateHolds ==
    ASSUME NothingOutlivesTheCircle, LayerInv, NEW k, NEW n, Update(k, n)
    PROVE  LayerInv'
<1> DEFINE old == SubSeq(resendList, 1, k)
           new == Numbered(n)
           leaving == InDatagrams(old) \o InDatagrams(new)
           names == [d \in DOMAIN leaving |-> {leaving[d][i].number : i \in DOMAIN leaving[d]}]
           nodes == datagramHistory \o names
           surplus == Len(nodes) - (DATAGRAM_MESSAGE_ID_ARRAY_LENGTH + 1)
           popped == IF surplus > 0 THEN surplus ELSE 0
<1>1. /\ k \in 0 .. Len(resendList)
      /\ n \in Room
      /\ Len(datagrams) + Len(leaving) <= MaxDatagrams
      /\ datagrams' = datagrams \o leaving
      /\ datagramHistory' = SubSeq(nodes, popped + 1, Len(nodes))
      /\ datagramHistoryPopCount' = Plus(datagramHistoryPopCount, popped)
      /\ resendList' = SubSeq(resendList, k + 1, Len(resendList)) \o old \o new
      /\ outgoing' = SubSeq(outgoing, n + 1, Len(outgoing))
      /\ sendReliableMessageNumberIndex' = Plus(sendReliableMessageNumberIndex, n)
      /\ UNCHANGED <<start, sent, orderedWriteIndex, deadConnection, receivingVars, acks>>
  BY DEF Update, AddToDatagramHistory
<1>2. resendBuffer' = [s \in Slot |->
                        LET mine == {i \in 1 .. n : SlotOf(Numbered(n)[i].number) = s}
                        IN  IF mine = {} THEN resendBuffer[s]
                            ELSE Numbered(n)[CHOOSE i \in mine : \A j \in mine : j <= i]]
  BY DEF Update
<1>3. n \in 0 .. Len(outgoing) /\ n \in Nat
  BY <1>1, SlotsAreFree
<1>4. /\ start \in Number /\ start \in Nat /\ numbered \in 0 .. MaxMessages
      /\ numbered \in Nat /\ MaxMessages \in Nat
      /\ sent = numbered + Len(outgoing) /\ sent <= MaxMessages /\ Len(outgoing) \in Nat
  BY LayerNumbers
<1>5. /\ LayerTypeOK /\ ReceiverOK(start, numbered, receiver)
      /\ AreNumbered(start, numbered, resendList)
      /\ \A d \in DOMAIN datagrams : AreNumbered(start, numbered, datagrams[d])
      /\ IsKept(numbered, resendList, receiver)
      /\ HistoryIs(start, datagramHistory, datagramHistoryPopCount, datagrams)
      /\ IsRangeList(acknowlegements)
      /\ AreOfReceived(start, acknowlegements, datagrams, receiver)
      /\ \A ranges \in acks : /\ IsRangeList(ranges)
                              /\ AreOfReceived(start, ranges, datagrams, receiver)
  BY DEF LayerInv
<1>6. /\ datagrams \in Seq(Seq(Packet))
      /\ Len(datagrams) \in Nat /\ DOMAIN datagrams = 1 .. Len(datagrams)
      /\ datagramHistory \in Seq(SUBSET Number)
      /\ datagramHistoryPopCount \in Nat
  BY DatagramsAre
<1>7. /\ leaving \in Seq(Seq(Packet))
      /\ \A d \in DOMAIN leaving : AreNumbered(start, numbered + n, leaving[d])
  BY <1>1, <1>3, LeavingIs
<1>8. /\ resendList' \in Seq(Packet) /\ IsInjective(resendList')
      /\ Range(resendList') = Range(resendList) \cup Range(new)
  BY <1>1, <1>3, ListGrows
<1>9. /\ new \in Seq(Packet) /\ DOMAIN new = 1 .. n
      /\ \A i \in 1 .. n : /\ new[i] = PacketOf(start, numbered + i)
                           /\ new[i].message = numbered + i
                           /\ numbered + i \in 1 .. numbered + n
  BY <1>3, NumberedIs
<1>10. /\ resendBuffer' \in [Slot -> Packet \cup {NoPacket}]
       /\ BufferIs(resendBuffer', resendList')
  BY <1>1, <1>2, <1>8, BufferGrows
<1>11. InWindow(numbered + n, resendList')
  BY <1>1, <1>8, WindowHolds
<1>12. /\ numbered' = numbered + n
       /\ WaitingInOrder'
       /\ outgoing' \in Seq([order : Number, message : 1 .. MaxMessages])
       /\ sendReliableMessageNumberIndex' \in Number
  BY <1>1, <1>3, StillWaiting
<1>13. DOMAIN leaving = 1 .. Len(leaving) /\ Len(leaving) \in Nat
  BY <1>7, LenProperties
<1>14. names \in Seq(SUBSET Number) /\ names = NamesOf(leaving)
  BY <1>7, NamesAre DEF NamesOf
<1> HIDE DEF leaving, names
<1>15. nodes \in Seq(SUBSET Number) /\ Len(nodes) \in Nat
  BY <1>6, <1>14, NodesConcatIs, LenProperties
<1>16. popped \in 0 .. Len(nodes)
  <2>1. DATAGRAM_MESSAGE_ID_ARRAY_LENGTH \in Nat
    BY LayerAssumption
  <2> HIDE DEF nodes
  <2>2. QED BY <1>15, <2>1
<1> HIDE DEF popped
<1>17. /\ datagramHistory' \in Seq(SUBSET Number)
       /\ HistoryIs(start, datagramHistory', datagramHistoryPopCount', datagrams \o leaving)
       /\ datagramHistoryPopCount' \in Number
  <2> DEFINE left == SubSeq(nodes, popped + 1, Len(nodes))
  <2>1. nodes = datagramHistory \o NamesOf(leaving)
    BY <1>14
  <2>2. datagramHistory' = left /\ datagramHistoryPopCount' = Plus(datagramHistoryPopCount, popped)
    BY <1>1
  <2>3. HistoryIs(start, datagramHistory, datagramHistoryPopCount, datagrams)
    BY <1>5
  <2> HIDE DEF nodes
  <2>4. /\ left \in Seq(SUBSET Number)
        /\ HistoryIs(start, left, Plus(datagramHistoryPopCount, popped), datagrams \o leaving)
        /\ Plus(datagramHistoryPopCount, popped) \in Number
    BY <1>4, <1>6, <1>7, <1>16, <2>1, <2>3, HistoryGrows
  <2> HIDE DEF left
  <2>5. QED BY <2>2, <2>4
<1>18. /\ datagrams' \in Seq(Seq(Packet))
       /\ Len(datagrams') = Len(datagrams) + Len(leaving)
       /\ \A d \in 1 .. Len(datagrams) : datagrams'[d] = datagrams[d]
       /\ \A d \in 1 .. Len(datagrams') :
             \/ d \in 1 .. Len(datagrams)
             \/ /\ d - Len(datagrams) \in 1 .. Len(leaving)
                /\ datagrams'[d] = leaving[d - Len(datagrams)]
  BY <1>1, <1>6, <1>7, ConcatIs
<1>19. DOMAIN datagrams' = 1 .. Len(datagrams) + Len(leaving)
  BY <1>18, LenProperties
<1>20. \A d \in DOMAIN datagrams : d \in DOMAIN datagrams' /\ datagrams'[d] = datagrams[d]
  BY <1>6, <1>13, <1>18, <1>19
<1> HIDE DEF numbered, new, old, nodes
<1>21. /\ numbered + n \in 0 .. MaxMessages /\ numbered + n \in Nat /\ numbered <= numbered + n
  BY <1>3, <1>4
<1>22. ReceiverOK(start, numbered + n, receiver)
  BY <1>4, <1>5, <1>21, StillReceiver
<1>23. \A d \in DOMAIN datagrams' : AreNumbered(start, numbered + n, datagrams'[d])
  <2>1. ASSUME NEW d \in 1 .. Len(datagrams')
        PROVE  AreNumbered(start, numbered + n, datagrams'[d])
    <3>1. CASE d \in 1 .. Len(datagrams)
      <4>1. AreNumbered(start, numbered, datagrams[d])
        BY <1>5, <1>6, <3>1
      <4>2. AreNumbered(start, numbered + n, datagrams[d])
        BY <1>4, <1>21, <4>1, StillNumbered
      <4>3. QED BY <1>18, <3>1, <4>2
    <3>2. CASE d \notin 1 .. Len(datagrams)
      BY <1>7, <1>13, <1>18, <3>2
    <3>3. QED BY <3>1, <3>2
  <2>2. QED BY <1>18, <1>19, <2>1
<1>24. AreNumbered(start, numbered + n, resendList')
  <2>1. ASSUME NEW p \in Range(resendList')
        PROVE  \E m \in 1 .. numbered + n : p = PacketOf(start, m)
    <3>1. CASE p \in Range(resendList)
      <4>1. PICK m \in 1 .. numbered : p = PacketOf(start, m)
        BY <1>5, <3>1 DEF AreNumbered, Range
      <4>2. m \in 1 .. numbered + n
        BY <1>3, <1>4
      <4>3. QED BY <4>1, <4>2
    <3>2. CASE p \in Range(new)
      BY <1>9, <3>2 DEF Range
    <3>3. QED BY <1>8, <3>1, <3>2
  <2>2. \A i \in DOMAIN resendList' : resendList'[i] \in Range(resendList')
    BY DEF Range
  <2>3. QED BY <2>1, <2>2 DEF AreNumbered
<1>25. IsKept(numbered + n, resendList', receiver)
  <2>1. ASSUME NEW m \in 1 .. numbered + n
        PROVE  m \in Came(receiver) \/ \E p \in Range(resendList') : p.message = m
    <3>1. CASE m \in 1 .. numbered
      <4>1. m \in Came(receiver) \/ \E p \in Range(resendList) : p.message = m
        <5>1. IsKept(numbered, resendList, receiver)
          BY <1>5
        <5>2. QED BY <3>1, <5>1 DEF IsKept
      <4>2. Range(resendList) \subseteq Range(resendList')
        BY <1>8
      <4>3. QED BY <4>1, <4>2
    <3>2. CASE m \notin 1 .. numbered
      <4>1. PICK i \in 1 .. n : m = numbered + i
        <5>1. m - numbered \in 1 .. n /\ m = numbered + (m - numbered)
          BY <1>3, <1>4, <3>2
        <5>2. QED BY <5>1
      <4>2. new[i].message = m /\ new[i] \in Range(new)
        BY <1>9, <4>1 DEF Range
      <4>3. QED BY <1>8, <4>2
    <3>3. QED BY <3>1, <3>2
  <2>2. QED BY <2>1 DEF IsKept
<1>26. UNCHANGED <<start, receiver, acknowlegements, acks, sent, orderedWriteIndex, deadConnection>>
  BY <1>1 DEF receivingVars
<1>27. LayerTypeOK'
  BY <1>5, <1>8, <1>10, <1>12, <1>17, <1>18, <1>26 DEF LayerTypeOK
<1>28. Len(datagrams') <= MaxDatagrams
  BY <1>1, <1>18
<1>29. HistoryIs(start, datagramHistory', datagramHistoryPopCount', datagrams')
  BY <1>1, <1>17
<1>30. \A ranges : AreOfReceived(start, ranges, datagrams, receiver) =>
                      AreOfReceived(start, ranges, datagrams', receiver)
  BY <1>20, StillReceived
<1>31. /\ ReceiverOK(start, numbered, receiver)'
       /\ AreNumbered(start, numbered, resendList)'
       /\ (\A d \in DOMAIN datagrams : AreNumbered(start, numbered, datagrams[d]))'
       /\ InWindow(numbered, resendList)'
       /\ IsKept(numbered, resendList, receiver)'
  BY <1>11, <1>12, <1>22, <1>23, <1>24, <1>25, <1>26
<1>32. /\ IsRangeList(acknowlegements)'
       /\ AreOfReceived(start, acknowlegements, datagrams, receiver)'
       /\ (\A ranges \in acks : /\ IsRangeList(ranges)
                                /\ AreOfReceived(start, ranges, datagrams, receiver))'
  <2>1. /\ IsRangeList(acknowlegements)
        /\ AreOfReceived(start, acknowlegements, datagrams', receiver)
        /\ \A ranges \in acks : /\ IsRangeList(ranges)
                                /\ AreOfReceived(start, ranges, datagrams', receiver)
    <3>1. /\ IsRangeList(acknowlegements)
          /\ AreOfReceived(start, acknowlegements, datagrams, receiver)
      BY <1>5
    <3>2. \A ranges \in acks : /\ IsRangeList(ranges)
                                /\ AreOfReceived(start, ranges, datagrams, receiver)
      BY <1>5
    <3>3. QED BY <1>30, <3>1, <3>2
  <2>2. start' = start /\ receiver' = receiver /\ acknowlegements' = acknowlegements /\ acks' = acks
    BY <1>26
  <2>3. QED BY <2>1, <2>2
<1>33. HistoryIs(start, datagramHistory, datagramHistoryPopCount, datagrams)'
  BY <1>26, <1>29
<1>34. QED
  BY <1>10, <1>12, <1>27, <1>28, <1>31, <1>32, <1>33 DEF LayerInv

-----------------------------------------------------------------------------
(* The invariant holds.                                                    *)

\* Every step keeps the invariant.
LEMMA LayerStays ==
    ASSUME NothingOutlivesTheCircle, LayerInv, [LayerNext]_layerVars
    PROVE  LayerInv'
<1>1. CASE Send
  BY <1>1, SendHolds
<1>2. CASE \E k \in 0 .. RESEND_BUFFER_ARRAY_LENGTH, n \in 0 .. MaxMessages : Update(k, n)
  BY <1>2, UpdateHolds
<1>3. CASE AckTimeout
  BY <1>3, AckTimeoutHolds
<1>4. CASE ReceiveAcks
  BY <1>4, ReceiveAcksHolds
<1>5. CASE \E i \in DOMAIN datagrams : ReceiveDatagram(i)
  BY <1>5, ReceiveDatagramHolds
<1>6. CASE SendACKs
  BY <1>6, SendACKsHolds
<1>7. CASE UNCHANGED layerVars
  <2>1. /\ UNCHANGED <<start, windowVars, receivingVars, datagrams, acks>>
        /\ UNCHANGED waitingVars /\ deadConnection' = deadConnection
    BY <1>7 DEF layerVars
  <2>2. numbered' = numbered
    BY <2>1 DEF numbered, waitingVars
  <2>3. WaitingInOrder' /\ LayerTypeOK'
    BY <2>1, <2>2 DEF LayerInv, WaitingInOrder, LayerTypeOK, waitingVars, windowVars, receivingVars
  <2>4. QED
    BY <2>1, <2>2, <2>3, RestStays, ReceiptsStay DEF LayerInv, LayerRest
<1>8. QED
  BY <1>1, <1>2, <1>3, <1>4, <1>5, <1>6, <1>7 DEF LayerNext

\* The invariant holds in every state of every behaviour.
LEMMA LayerHolds == NothingOutlivesTheCircle /\ LayerSpec =>
                       [](NothingOutlivesTheCircle /\ LayerInv)
<1> DEFINE Inv == NothingOutlivesTheCircle /\ LayerInv
<1>1. NothingOutlivesTheCircle /\ LayerInit => Inv
  BY InitHolds
<1>2. Inv /\ [LayerNext]_layerVars => Inv'
  <2>1. NothingOutlivesTheCircle => NothingOutlivesTheCircle'
    BY DEF NothingOutlivesTheCircle
  <2>2. QED BY <2>1, LayerStays
<1>3. QED
  BY <1>1, <1>2, PTL DEF LayerSpec

-----------------------------------------------------------------------------
(* What it says of the layer.                                              *)

\* Every variable of the layer keeps its type: numbers stay in 24 bits, packets in
\* their slots and queues, whatever arrives.
THEOREM LayerTypeCorrect == NothingOutlivesTheCircle /\ LayerSpec => []LayerTypeOK
<1>1. LayerInv => LayerTypeOK
  BY DEF LayerInv
<1>2. QED BY <1>1, LayerHolds, PTL

\* The resend list and the resend buffer hold the same packets, each in the slot
\* of its number and once in the list.
THEOREM ListIsAlwaysBuffer == NothingOutlivesTheCircle /\ LayerSpec => []ListIsBuffer
<1>1. LayerInv => ListIsBuffer
  BY DEF LayerInv, BufferIs, ListIsBuffer
<1>2. QED BY <1>1, LayerHolds, PTL

\* What waits in the ordering heap is later than the message waited for, each
\* once and in the order of sending, across the wrap of its weights.
THEOREM HeapStaysAhead == NothingOutlivesTheCircle /\ LayerSpec => []HeapIsAhead
<1>1. ASSUME NothingOutlivesTheCircle, LayerInv
      PROVE  HeapIsAhead
  <2> DEFINE heap == receiver.orderingHeap
             got == Len(receiver.outputQueue)
  <2>1. start \in Number /\ numbered \in 0 .. MaxMessages
    BY <1>1, LayerNumbers
  <2>2. ReceiverOK(start, numbered, receiver)
    BY <1>1 DEF LayerInv
  <2> HIDE DEF numbered
  <2>3. /\ got \in Number /\ Len(heap) \in Nat /\ DOMAIN heap = 1 .. Len(heap)
        /\ numbered \in Nat
        /\ \A i \in 1 .. Len(heap) : /\ heap[i].message \in 1 .. numbered
                                     /\ heap[i].message >= got + 1 + i
    BY <1>1, <2>1, <2>2, ReceiverIs
  <2>4. \A i, j \in DOMAIN heap : i < j => heap[j].message >= heap[i].message + (j - i)
    BY <2>2 DEF ReceiverOK, HeapOK
  <2> HIDE DEF heap, got
  <2>5. got \in Nat
    BY <2>3, ModulusIs DEF Number
  <2>6. ASSUME NEW i \in DOMAIN heap
        PROVE  heap[i].message > got + 1
    <3>1. heap[i].message \in Nat /\ heap[i].message >= got + 1 + i /\ i \in Nat \ {0}
      BY <2>3
    <3>2. QED BY <2>5, <3>1
  <2>7. ASSUME NEW i \in 1 .. Len(heap) - 1
        PROVE  heap[i].message < heap[i + 1].message
    <3>1. i \in DOMAIN heap /\ i + 1 \in DOMAIN heap /\ i < i + 1 /\ (i + 1) - i = 1
      BY <2>3
    <3>2. heap[i + 1].message >= heap[i].message + ((i + 1) - i)
      BY <2>4, <3>1
    <3>3. heap[i + 1].message >= heap[i].message + 1
      BY <3>1, <3>2
    <3>4. heap[i].message \in Nat /\ heap[i + 1].message \in Nat
      BY <2>3, <3>1
    <3>5. QED BY <3>3, <3>4
  <2>8. QED BY <2>6, <2>7 DEF HeapIsAhead, heap, got
<1>2. NothingOutlivesTheCircle /\ LayerInv => HeapIsAhead
  BY <1>1
<1>3. QED BY <1>2, LayerHolds, PTL

\* The queue of holes begins with one, ends with a packet that came, and is never
\* longer than the resend buffer of the sender: the sender is no further ahead.
THEOREM HolesNeverLeaveWindow == NothingOutlivesTheCircle /\ LayerSpec => []HolesStayInWindow
<1>1. ASSUME NothingOutlivesTheCircle, LayerInv, receiver.hasReceivedPacketQueue # << >>
      PROVE  LET queue == receiver.hasReceivedPacketQueue
             IN  /\ Head(queue) /\ ~Last(queue)
                 /\ Len(queue) <= RESEND_BUFFER_ARRAY_LENGTH
  <2> DEFINE queue == receiver.hasReceivedPacketQueue
             got == Len(receiver.outputQueue)
             K == Ahead(receiver)
             r == RESEND_BUFFER_ARRAY_LENGTH
  <2>1. start \in Number /\ numbered \in 0 .. MaxMessages
    BY <1>1, LayerNumbers
  <2>2. ReceiverOK(start, numbered, receiver)
    BY <1>1 DEF LayerInv
  <2>3. got \in 0 .. numbered /\ numbered - got <= r
    BY <1>1, AheadByWindow
  <2> HIDE DEF numbered
  <2>4. /\ numbered \in Nat /\ queue \in Seq(BOOLEAN) /\ Len(queue) \in Nat
        /\ DOMAIN queue = 1 .. Len(queue)
        /\ \A m \in K : m \in 1 .. numbered /\ m > got + 1
    BY <1>1, <2>1, <2>2, ReceiverIs
  <2>5. QueueOK(queue, got, K)
    BY <2>2 DEF ReceiverOK
  <2>6. /\ \A i \in DOMAIN queue : queue[i] <=> got + i \notin K
        /\ got + Len(queue) \in K
    BY <1>1, <2>5 DEF QueueOK
  <2>7. r \in Nat
    BY LayerAssumption
  <2> HIDE DEF queue, got, K, r
  <2>8. got \in Nat
    BY <2>3, <2>4
  <2>9. queue # << >>
    BY <1>1 DEF queue
  <2>10. Len(queue) > 0
    BY <2>4, <2>9, NotEmpty
  <2>11. 1 \in DOMAIN queue /\ Len(queue) \in DOMAIN queue
    BY <2>4, <2>10
  <2>12. got + 1 \notin K
    BY <2>4, <2>8
  <2>13. queue[1] /\ ~queue[Len(queue)]
    BY <2>6, <2>11, <2>12
  <2>14. Head(queue) = queue[1] /\ Last(queue) = queue[Len(queue)]
    BY <2>4, <2>9, HeadTailProperties DEF Last
  <2>15. got + Len(queue) <= numbered
    BY <2>4, <2>6
  <2>16. Len(queue) <= r
    BY <2>3, <2>4, <2>7, <2>8, <2>15
  <2>17. QED BY <2>13, <2>14, <2>16 DEF queue, r
<1>2. NothingOutlivesTheCircle /\ LayerInv => HolesStayInWindow
  BY <1>1 DEF HolesStayInWindow
<1>3. QED BY <1>2, LayerHolds, PTL

\* Every message the application has not got is waiting, or will be sent again,
\* or is in the heap behind a missing one: no acknowledgement takes it away.
THEOREM NoMessageIsEverLost == NothingOutlivesTheCircle /\ LayerSpec => []NoMessageIsLost
<1>1. ASSUME NothingOutlivesTheCircle, LayerInv,
             NEW m \in Len(receiver.outputQueue) + 1 .. sent
      PROVE  \/ \E i \in DOMAIN outgoing : outgoing[i].message = m
             \/ \E i \in DOMAIN resendList : resendList[i].message = m
             \/ m # Len(receiver.outputQueue) + 1 /\ m \in Ahead(receiver)
  <2> DEFINE got == Len(receiver.outputQueue)
  <2>1. /\ start \in Number /\ numbered \in 0 .. MaxMessages /\ numbered \in Nat
        /\ sent \in Nat /\ Len(outgoing) \in Nat /\ DOMAIN outgoing = 1 .. Len(outgoing)
        /\ sent = numbered + Len(outgoing)
    BY <1>1, LayerNumbers
  <2>2. /\ ReceiverOK(start, numbered, receiver) /\ IsKept(numbered, resendList, receiver)
        /\ WaitingInOrder
    BY <1>1 DEF LayerInv
  <2>3. \A i \in DOMAIN outgoing : outgoing[i].message = numbered + i
    BY <2>2 DEF WaitingInOrder
  <2> HIDE DEF numbered
  <2>4. /\ got \in 0 .. numbered /\ got \in Nat
        /\ \A a \in Ahead(receiver) : a > got + 1
    BY <1>1, <2>1, <2>2, ReceiverIs
  <2>5. m \in got + 1 .. sent
    OBVIOUS
  <2> HIDE DEF got
  <2>6. CASE m > numbered
    <3>1. m - numbered \in DOMAIN outgoing /\ m = numbered + (m - numbered)
      BY <2>1, <2>4, <2>5, <2>6
    <3>2. QED BY <2>3, <3>1
  <2>7. CASE ~(m > numbered)
    <3>1. m \in 1 .. numbered /\ m \notin 1 .. got
      BY <2>1, <2>4, <2>5, <2>7
    <3>2. m \in Came(receiver) \/ \E p \in Range(resendList) : p.message = m
      BY <2>2, <3>1 DEF IsKept
    <3>3. m \in Ahead(receiver) \/ \E p \in Range(resendList) : p.message = m
      BY <3>1, <3>2 DEF Came, got
    <3>4. m \in Ahead(receiver) => m # got + 1
      BY <2>4
    <3>5. (\E p \in Range(resendList) : p.message = m) =>
             \E i \in DOMAIN resendList : resendList[i].message = m
      BY DEF Range
    <3>6. QED BY <3>3, <3>4, <3>5 DEF got
  <2>8. QED BY <2>6, <2>7
<1>2. NothingOutlivesTheCircle /\ LayerInv => NoMessageIsLost
  BY <1>1 DEF NoMessageIsLost, Ahead
<1>3. QED BY <1>2, LayerHolds, PTL

\* A node of the history is looked up by the acknowledgement of the datagram it
\* is of, and names the messages of that datagram or none.
THEOREM HistoryStaysOfDatagrams ==
    NothingOutlivesTheCircle /\ LayerSpec => []HistoryIsOfDatagrams
<1>1. ASSUME NothingOutlivesTheCircle, LayerInv, NEW i \in DOMAIN datagramHistory,
             datagramHistory[i] # {}
      PROVE  datagramHistory[i] =
                {p.number : p \in Range(datagrams[
                    Minus(Plus(datagramHistoryPopCount, i - 1), start) + 1])}
  <2> DEFINE d == Len(datagrams) - Len(datagramHistory) + i
             number == Plus(datagramHistoryPopCount, i - 1)
  <2>1. /\ d \in DOMAIN datagrams
        /\ number = Plus(start, d - 1)
        /\ datagramHistory[i] = {datagrams[d][j].number : j \in DOMAIN datagrams[d]}
    BY <1>1, NodeOfDatagram
  <2>2. d \in Nat \ {0} /\ d - 1 \in Number /\ start \in Number
    BY <1>1, <2>1, DatagramsAre, LayerNumbers
  <2> HIDE DEF d, number
  <2>3. Minus(number, start) = d - 1
    <3> DEFINE a == d - 1
    <3>1. a \in Number /\ number = Plus(start, a)
      BY <2>1, <2>2
    <3> HIDE DEF a
    <3>2. Minus(number, start) = a
      BY <2>2, <3>1, FromStart
    <3>3. QED BY <3>2 DEF a
  <2>4. Minus(number, start) + 1 = d
    BY <2>2, <2>3
  <2>5. {datagrams[d][j].number : j \in DOMAIN datagrams[d]}
           = {p.number : p \in Range(datagrams[d])}
    BY DEF Range
  <2>6. QED BY <2>1, <2>4, <2>5 DEF number
<1>2. NothingOutlivesTheCircle /\ LayerInv => HistoryIsOfDatagrams
  <2>1. LayerInv =>
            Plus(datagramHistoryPopCount, Len(datagramHistory)) = Plus(start, Len(datagrams))
    BY DEF LayerInv, HistoryIs
  <2>2. QED BY <1>1, <2>1 DEF HistoryIsOfDatagrams
<1>3. QED BY <1>2, LayerHolds, PTL

-----------------------------------------------------------------------------
(* The channel.                                                            *)

\* The messages 1 .. n, as they are sent and as they are returned.
LEMMA CountIs ==
    ASSUME NEW n \in Nat
    PROVE  LET count == [i \in 1 .. n |-> i]
           IN  /\ count \in Seq(Nat) /\ Len(count) = n
               /\ \A i \in 1 .. n : count[i] = i
<1> DEFINE count == [i \in 1 .. n |-> i]
<1>1. count \in [1 .. n -> Nat]
  OBVIOUS
<1>2. count \in Seq(Nat) /\ Len(count) = n
  BY <1>1, FunctionIsSeq
<1>3. QED BY <1>2

\* One message more is one at the end.
LEMMA CountAppends ==
    ASSUME NEW n \in Nat
    PROVE  [i \in 1 .. n + 1 |-> i] = Append([i \in 1 .. n |-> i], n + 1)
<1> DEFINE a == [i \in 1 .. n + 1 |-> i]
           b == [i \in 1 .. n |-> i]
           c == Append(b, n + 1)
<1>1. n + 1 \in Nat
  OBVIOUS
<1>2. a \in Seq(Nat) /\ Len(a) = n + 1 /\ \A i \in 1 .. n + 1 : a[i] = i
  BY <1>1, CountIs
<1>3. b \in Seq(Nat) /\ Len(b) = n /\ \A i \in 1 .. n : b[i] = i
  BY CountIs
<1> HIDE DEF a, b
<1>4. /\ c \in Seq(Nat) /\ Len(c) = n + 1
      /\ \A i \in 1 .. n : c[i] = b[i]
      /\ c[n + 1] = n + 1
  BY <1>1, <1>3, AppendProperties
<1> HIDE DEF c
<1>5. \A i \in 1 .. n + 1 : i \in 1 .. n \/ i = n + 1
  OBVIOUS
<1>6. \A i \in 1 .. n + 1 : a[i] = c[i]
  BY <1>2, <1>3, <1>4, <1>5
<1>7. a = c
  BY <1>2, <1>4, <1>6, SeqEqual
<1>8. QED BY <1>7 DEF a, b, c

\* Fewer messages are a prefix of more.
LEMMA CountIsPrefix ==
    ASSUME NEW n \in Nat, NEW m \in Nat, n <= m
    PROVE  IsPrefix([i \in 1 .. n |-> i], [i \in 1 .. m |-> i])
<1> DEFINE a == [i \in 1 .. n |-> i]
           b == [i \in 1 .. m |-> i]
<1>1. a \in Seq(Nat) /\ Len(a) = n /\ \A i \in 1 .. n : a[i] = i
  BY CountIs
<1>2. b \in Seq(Nat) /\ Len(b) = m /\ \A i \in 1 .. m : b[i] = i
  BY CountIs
<1> HIDE DEF a, b
<1>3. 0 \in Nat /\ 0 <= n /\ n <= Len(a) /\ n <= Len(b) /\ \A i \in 1 .. n : i \in 1 .. m
  BY <1>1, <1>2
<1> DEFINE x == SubSeq(a, 1, n)
           y == SubSeq(b, 1, n)
<1>4. x \in Seq(Nat) /\ Len(x) = n /\ \A i \in 1 .. n : x[i] = a[i]
  <2>1. /\ SubSeq(a, 0 + 1, n) \in Seq(Nat) /\ Len(SubSeq(a, 0 + 1, n)) = n - 0
        /\ \A i \in 1 .. n - 0 : SubSeq(a, 0 + 1, n)[i] = a[0 + i]
    BY <1>1, <1>3, SubSeqIs
  <2>2. QED BY <2>1
<1>5. y \in Seq(Nat) /\ Len(y) = n /\ \A i \in 1 .. n : y[i] = b[i]
  <2>1. /\ SubSeq(b, 0 + 1, n) \in Seq(Nat) /\ Len(SubSeq(b, 0 + 1, n)) = n - 0
        /\ \A i \in 1 .. n - 0 : SubSeq(b, 0 + 1, n)[i] = b[0 + i]
    BY <1>2, <1>3, SubSeqIs
  <2>2. QED BY <2>1
<1> HIDE DEF x, y
<1>6. \A i \in 1 .. n : x[i] = y[i]
  BY <1>1, <1>2, <1>3, <1>4, <1>5
<1>7. x = y
  BY <1>4, <1>5, <1>6, SeqEqual
<1>8. SubSeq(a, 1, Len(a)) = SubSeq(b, 1, Len(a)) /\ Len(a) <= Len(b)
  BY <1>1, <1>3, <1>7 DEF x, y
<1>9. IsPrefix(a, b)
  BY <1>8 DEF IsPrefix
<1>10. QED BY <1>9 DEF a, b

\* The queue of the receiver has the first messages, in their order.
LEMMA OutputIs ==
    ASSUME NothingOutlivesTheCircle, LayerInv
    PROVE  LET got == Len(receiver.outputQueue)
           IN  /\ receiver.outputQueue = [i \in 1 .. got |-> i]
               /\ got \in Nat /\ got <= sent /\ sent \in Nat
<1> DEFINE got == Len(receiver.outputQueue)
<1>1. sent \in Nat /\ Len(outgoing) \in Nat /\ sent = numbered + Len(outgoing) /\ numbered \in Nat
  BY LayerNumbers
<1>2. got \in 0 .. numbered
  BY AheadByWindow
<1>3. receiver.outputQueue = [i \in 1 .. got |-> i]
  BY DEF LayerInv, ReceiverOK
<1> HIDE DEF numbered, got
<1>4. got \in Nat /\ got <= sent
  BY <1>1, <1>2
<1>5. QED BY <1>1, <1>3, <1>4 DEF got

\* The channel begins empty.
LEMMA ChannelStarts == LayerInit => Channel!ChannelInit
<1>1. ASSUME LayerInit
      PROVE  [i \in 1 .. sent |-> i] = << >> /\ receiver.outputQueue = << >>
  <2>1. sent = 0 /\ receiver.outputQueue = << >>
    BY <1>1 DEF LayerInit
  <2>2. [i \in 1 .. 0 |-> i] = << >>
    OBVIOUS
  <2>3. QED BY <2>1, <2>2
<1>2. QED BY <1>1 DEF Channel!ChannelInit

\* Where nothing is sent and nothing returned, the channel does not move.
LEMMA ChannelStays ==
    ASSUME sent' = sent, receiver' = receiver
    PROVE  UNCHANGED Channel!channelVars
BY DEF Channel!channelVars

\* Every step of the layer is one of the channel, or none: Send is its Send, and
\* a datagram may deliver.
LEMMA ChannelSteps ==
    ASSUME NothingOutlivesTheCircle, LayerInv, [LayerNext]_layerVars
    PROVE  [(\E m \in 1 .. MaxMessages : Channel!Send(m)) \/ Channel!Deliver]_Channel!channelVars
<1>1. CASE Send
  <2>1. sent \in Nat /\ sent < MaxMessages /\ sent' = sent + 1 /\ receiver' = receiver
    BY <1>1, LayerNumbers DEF Send, receivingVars
  <2>2. sent + 1 \in 1 .. MaxMessages
    <3>1. MaxMessages \in Nat
      BY LayerAssumption
    <3>2. QED BY <2>1, <3>1
  <2>3. [i \in 1 .. sent + 1 |-> i] = Append([i \in 1 .. sent |-> i], sent + 1)
    BY <2>1, CountAppends
  <2>4. [i \in 1 .. sent' |-> i] = Append([i \in 1 .. sent |-> i], sent + 1)
    BY <2>1, <2>3
  <2>5. \E m \in 1 .. MaxMessages : Channel!Send(m)
    BY <2>1, <2>2, <2>4 DEF Channel!Send
  <2>6. QED BY <2>5
<1>2. CASE \E i \in DOMAIN datagrams : ReceiveDatagram(i)
  <2> DEFINE got == Len(receiver.outputQueue)
             now == Len(receiver'.outputQueue)
  <2>1. PICK i \in DOMAIN datagrams : ReceiveDatagram(i)
    BY <1>2
  <2>2. sent' = sent /\ receiver' = ReceivePackets(datagrams[i])
    BY <2>1 DEF ReceiveDatagram, waitingVars
  <2>3. now >= got
    BY <2>2, DatagramIsReceived DEF Receivers
  <2>4. receiver.outputQueue = [j \in 1 .. got |-> j] /\ got \in Nat /\ sent \in Nat
    BY OutputIs
  <2>5. receiver'.outputQueue = [j \in 1 .. now |-> j] /\ now \in Nat /\ now <= sent
    <3>1. ReceiverOK(start, numbered, receiver')
      BY <2>2, DatagramIsReceived DEF Receivers
    <3>2. /\ start \in Number /\ numbered \in 0 .. MaxMessages /\ numbered \in Nat
          /\ sent \in Nat /\ Len(outgoing) \in Nat /\ sent = numbered + Len(outgoing)
      BY LayerNumbers
    <3> HIDE DEF numbered
    <3>3. now \in 0 .. numbered
      BY <3>1, <3>2, ReceiverIs
    <3>4. receiver'.outputQueue = [j \in 1 .. now |-> j]
      BY <3>1 DEF ReceiverOK
    <3> HIDE DEF now
    <3>5. now \in Nat /\ now <= sent
      BY <3>2, <3>3
    <3>6. QED BY <3>4, <3>5
  <2> HIDE DEF got, now
  <2>6. IsPrefix(receiver.outputQueue, receiver'.outputQueue)
    BY <2>3, <2>4, <2>5, CountIsPrefix
  <2>7. IsPrefix(receiver'.outputQueue, [j \in 1 .. sent |-> j])
    BY <2>2, <2>4, <2>5, CountIsPrefix
  <2>8. CASE receiver'.outputQueue = receiver.outputQueue
    BY <2>2, <2>8 DEF Channel!channelVars
  <2>9. CASE receiver'.outputQueue # receiver.outputQueue
    <3>1. Channel!Deliver
      BY <2>2, <2>6, <2>7, <2>9 DEF Channel!Deliver, Channel!IsPrefix, IsPrefix
    <3>2. QED BY <3>1
  <2>10. QED BY <2>8, <2>9
<1>3. CASE \E k \in 0 .. RESEND_BUFFER_ARRAY_LENGTH, n \in 0 .. MaxMessages : Update(k, n)
  BY <1>3, ChannelStays DEF Update, receivingVars
<1>4. CASE AckTimeout
  BY <1>4, ChannelStays DEF AckTimeout, waitingVars, receivingVars
<1>5. CASE ReceiveAcks
  BY <1>5, ChannelStays DEF ReceiveAcks, waitingVars, receivingVars
<1>6. CASE SendACKs
  BY <1>6, ChannelStays DEF SendACKs, waitingVars
<1>7. CASE UNCHANGED layerVars
  BY <1>7, ChannelStays DEF layerVars, waitingVars, receivingVars
<1>8. QED
  BY <1>1, <1>2, <1>3, <1>4, <1>5, <1>6, <1>7 DEF LayerNext

\* The layer implements the channel: what the application gets is, at any time, a
\* prefix of what was sent, each message once, and it only grows.
THEOREM LayerIsChannel == NothingOutlivesTheCircle /\ LayerSpec => ImplementsChannel
<1> DEFINE Inv == NothingOutlivesTheCircle /\ LayerInv
<1>1. LayerInit => Channel!ChannelInit
  BY ChannelStarts
<1>2. Inv /\ [LayerNext]_layerVars =>
         [(\E m \in 1 .. MaxMessages : Channel!Send(m)) \/ Channel!Deliver]_Channel!channelVars
  BY ChannelSteps
<1>3. QED
  BY <1>1, <1>2, LayerHolds, PTL DEF LayerSpec, ImplementsChannel, Channel!ChannelSpec
================================================================================
