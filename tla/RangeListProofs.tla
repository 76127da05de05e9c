---------------------------- MODULE RangeListProofs ----------------------------
(***************************************************************************)
(* The circle of SequenceNumbers for all of its 2^24 numbers, which no     *)
(* instance can enumerate pair by pair. And RangeList::Insert keeps a list *)
(* of ranges a list of ranges, and adds to the numbers it stands for the   *)
(* one inserted and no other: the peer acknowledges what it received, at   *)
(* the wrap of the numbers as elsewhere.                                   *)
(***************************************************************************)
EXTENDS RangeList, SequenceTheorems, WellFoundedInduction, TLAPS

\* All the proofs need to know of the width: half of the circle, less one on
\* either side, is a whole number.
LEMMA ModulusIs ==
    /\ Modulus \in Nat
    /\ HalfSpan \in Nat
    /\ Modulus = 2 * HalfSpan + 2
    /\ HalfSpan > 1
BY SMT DEF Modulus, HalfSpan

\* What % does to the sums and differences of two numbers.
LEMMA PlusWraps ==
    ASSUME NEW a \in Number, NEW b \in Number
    PROVE  /\ Plus(a, b) = IF a + b < Modulus THEN a + b ELSE a + b - Modulus
           /\ Plus(a, b) \in Number
BY ModulusIs, SMT DEF Plus, Number

LEMMA MinusWraps ==
    ASSUME NEW a \in Number, NEW b \in Number
    PROVE  /\ Minus(a, b) = IF a < b THEN a - b + Modulus ELSE a - b
           /\ Minus(a, b) \in Number
BY ModulusIs, SMT DEF Minus, Number

\* The ordering indices IsOlderOrderedPacket calls older are those of the
\* half of the circle behind the index waited for, wherever that is.
THEOREM OlderIsBehind ==
    ASSUME NEW waiting \in Number, NEW distance \in 1 .. HalfSpan - 1
    PROVE  IsOlderOrderedPacket(Minus(waiting, distance), waiting)
<1>1. distance \in Number /\ HalfSpan \in Number /\ HalfSpan + 1 \in Number
  BY ModulusIs DEF Number
<1>2. Minus(waiting, distance) = IF waiting < distance THEN waiting - distance + Modulus
                                 ELSE waiting - distance
  BY <1>1, MinusWraps
<1>3. CASE waiting > HalfSpan
  <2>1. Minus(waiting, HalfSpan) = waiting - HalfSpan
    BY <1>1, <1>3, MinusWraps, ModulusIs DEF Number
  <2>2. QED
    BY <1>2, <1>3, <2>1, ModulusIs DEF IsOlderOrderedPacket, Number
<1>4. CASE ~(waiting > HalfSpan)
  <2>1. Minus(waiting, HalfSpan + 1) = waiting - (HalfSpan + 1) + Modulus
    BY <1>1, <1>4, MinusWraps, ModulusIs DEF Number
  <2>2. QED
    BY <1>2, <1>4, <2>1, ModulusIs DEF IsOlderOrderedPacket, Number
<1>5. QED BY <1>3, <1>4

\* What is waited for, or lies up to half of the circle ahead, is not older.
THEOREM NewerIsNotOlder ==
    ASSUME NEW waiting \in Number, NEW distance \in 0 .. HalfSpan
    PROVE  ~IsOlderOrderedPacket(Plus(waiting, distance), waiting)
<1>1. distance \in Number /\ HalfSpan \in Number /\ HalfSpan + 1 \in Number
  BY ModulusIs DEF Number
<1>2. Plus(waiting, distance) = IF waiting + distance < Modulus THEN waiting + distance
                                ELSE waiting + distance - Modulus
  BY <1>1, PlusWraps
<1>3. CASE waiting > HalfSpan
  <2>1. Minus(waiting, HalfSpan) = waiting - HalfSpan
    BY <1>1, <1>3, MinusWraps, ModulusIs DEF Number
  <2>2. QED
    BY <1>2, <1>3, <2>1, ModulusIs DEF IsOlderOrderedPacket, Number
<1>4. CASE ~(waiting > HalfSpan)
  <2>1. Minus(waiting, HalfSpan + 1) = waiting - (HalfSpan + 1) + Modulus
    BY <1>1, <1>4, MinusWraps, ModulusIs DEF Number
  <2>2. QED
    BY <1>2, <1>4, <2>1, ModulusIs DEF IsOlderOrderedPacket, Number
<1>5. QED BY <1>3, <1>4

\* LessThan orders two datagram numbers less than half of the circle apart,
\* and orders them one way only.
THEOREM LessThanIsBehind ==
    ASSUME NEW a \in Number, NEW distance \in 1 .. HalfSpan - 1
    PROVE  LessThan(a, Plus(a, distance)) /\ ~LessThan(Plus(a, distance), a)
<1> DEFINE b == Plus(a, distance)
<1>1. distance \in Number
  BY ModulusIs DEF Number
<1>2. b \in Number /\ b = IF a + distance < Modulus THEN a + distance
                          ELSE a + distance - Modulus
  BY <1>1, PlusWraps
<1>3. b # a
  BY <1>2, ModulusIs DEF Number
<1>4. /\ Minus(b, a) = IF b < a THEN b - a + Modulus ELSE b - a
      /\ Minus(a, b) = IF a < b THEN a - b + Modulus ELSE a - b
  BY <1>2, MinusWraps
<1>5. Minus(b, a) = distance /\ Minus(a, b) = Modulus - distance
  BY <1>1, <1>2, <1>4, ModulusIs DEF Number
<1>6. QED
  BY <1>3, <1>5, ModulusIs DEF LessThan, Number

-----------------------------------------------------------------------------
\* What Insert relies on: each range has a first and a last number, in this
\* order, and the ranges are in the order of their first numbers. That they
\* do not overlap is not kept by Insert.
IsRangeList(ranges) ==
    /\ ranges \in Seq(Range24)
    /\ \A i \in DOMAIN ranges : ranges[i].min <= ranges[i].max
    /\ \A i, j \in DOMAIN ranges : i < j => ranges[i].min <= ranges[j].min

\* Extensional form of Listed.
Lists(ranges, n) == \E i \in DOMAIN ranges : Within(n, ranges[i])

LEMMA RangesAre ==
    ASSUME NEW ranges \in Seq(Range24)
    PROVE  /\ Len(ranges) \in Nat
           /\ DOMAIN ranges = 1 .. Len(ranges)
           /\ \A i \in 1 .. Len(ranges) :
                 /\ ranges[i] \in Range24
                 /\ ranges[i].min \in Number /\ ranges[i].max \in Number
                 /\ ranges[i].min \in Int /\ ranges[i].max \in Int
<1>1. Len(ranges) \in Nat /\ DOMAIN ranges = 1 .. Len(ranges)
  BY LenProperties
<1>2. \A i \in 1 .. Len(ranges) : ranges[i] \in Range24
  BY ElementOfSeq
<1>3. \A range \in Range24 : range.min \in Number /\ range.max \in Number
  BY DEF Range24
<1>4. Number \subseteq Int
  BY ModulusIs DEF Number
<1>5. QED
  BY <1>1, <1>2, <1>3, <1>4

LEMMA ListedIs ==
    ASSUME NEW ranges \in Seq(Range24), NEW n
    PROVE  n \in Listed(ranges) <=> n \in Int /\ Lists(ranges, n)
<1>1. \A i \in DOMAIN ranges : ranges[i].min \in Int /\ ranges[i].max \in Int
  BY RangesAre
<1>2. \A i \in DOMAIN ranges :
         n \in ranges[i].min .. ranges[i].max <=> n \in Int /\ Within(n, ranges[i])
  BY <1>1 DEF Within
<1>3. QED
  BY <1>2 DEF Listed, Lists

\* The binary search finds a place: the range before which all begin below
\* the index.
LEMMA PlaceIs ==
    ASSUME NEW ranges \in Seq(Range24), NEW index \in Number
    PROVE  LET p == Place(ranges, index)
           IN  /\ p \in 1 .. Len(ranges) + 1
               /\ p <= Len(ranges) => ranges[p].min >= index
               /\ \A i \in 1 .. p - 1 : ranges[i].min < index
<1> DEFINE Holds(p) == /\ p <= Len(ranges) => ranges[p].min >= index
                       /\ \A i \in 1 .. p - 1 : ranges[i].min < index
           T == {p \in 1 .. Len(ranges) + 1 : p <= Len(ranges) => ranges[p].min >= index}
<1>1. Len(ranges) \in Nat /\ \A i \in 1 .. Len(ranges) : ranges[i].min \in Int
  BY RangesAre
<1>2. T \subseteq Nat /\ Len(ranges) + 1 \in T
  BY <1>1
<1>3. \E p \in T : \A q \in T : ~(<<q, p>> \in OpToRel(<, Nat))
  BY <1>2, NatLessThanWellFounded, WFMin
<1>4. PICK p \in T : \A q \in T : ~(<<q, p>> \in OpToRel(<, Nat))
  BY <1>3
<1>5. \A q \in T : ~(q < p)
  BY <1>2, <1>4 DEF OpToRel
<1>6. ASSUME NEW i \in 1 .. p - 1
      PROVE  ranges[i].min < index
  <2>1. i \in 1 .. Len(ranges) /\ i < p
    BY <1>1
  <2>2. i \notin T
    BY <1>5, <2>1
  <2>3. QED
    BY <1>1, <2>1, <2>2, ModulusIs DEF Number
<1>7. p \in 1 .. Len(ranges) + 1 /\ Holds(p)
  BY <1>6
<1>8. QED
  BY <1>7 DEF Place

\* What the sequence operators of the community modules do to the ranges.
LEMMA InsertAtIs ==
    ASSUME NEW S, NEW s \in Seq(S), NEW e \in S, NEW p \in 1 .. Len(s) + 1
    PROVE  /\ InsertAt(s, p, e) \in Seq(S)
           /\ Len(InsertAt(s, p, e)) = Len(s) + 1
           /\ \A i \in 1 .. Len(s) + 1 :
                 InsertAt(s, p, e)[i] = IF i < p THEN s[i]
                                        ELSE IF i = p THEN e ELSE s[i - 1]
<1> DEFINE left == SubSeq(s, 1, p - 1)
           right == SubSeq(s, p, Len(s))
           begun == left \o <<e>>
<1>0. Len(s) \in Nat /\ \A i \in 1 .. Len(s) : s[i] \in S
  BY ElementOfSeq, LenProperties
<1>1. /\ left \in Seq(S) /\ Len(left) = p - 1
      /\ \A i \in 1 .. p - 1 : left[i] = s[i]
  <2>1. 1 \in Int /\ p - 1 \in Int /\ \A i \in 1 .. p - 1 : s[i] \in S
    BY <1>0
  <2>2. /\ left \in Seq(S) /\ Len(left) = IF 1 <= p - 1 THEN p - 1 - 1 + 1 ELSE 0
        /\ \A i \in 1 .. p - 1 - 1 + 1 : left[i] = s[1 + i - 1]
    BY <2>1, SubSeqProperties
  <2>3. QED
    BY <1>0, <2>2
<1>2. /\ right \in Seq(S) /\ Len(right) = Len(s) - p + 1
      /\ \A i \in 1 .. Len(s) - p + 1 : right[i] = s[p + i - 1]
  <2>1. p \in Int /\ Len(s) \in Int /\ \A i \in p .. Len(s) : s[i] \in S
    BY <1>0
  <2>2. /\ right \in Seq(S) /\ Len(right) = IF p <= Len(s) THEN Len(s) - p + 1 ELSE 0
        /\ \A i \in 1 .. Len(s) - p + 1 : right[i] = s[p + i - 1]
    BY <2>1, SubSeqProperties
  <2>3. QED
    BY <1>0, <2>2
<1>3. <<e>> \in Seq(S) /\ Len(<<e>>) = 1 /\ <<e>>[1] = e
  OBVIOUS
<1>4. /\ begun \in Seq(S) /\ Len(begun) = p
      /\ \A i \in 1 .. p : begun[i] = IF i < p THEN s[i] ELSE e
  <2> HIDE DEF left
  <2> DEFINE single == <<e>>
  <2>1. single \in Seq(S) /\ Len(single) = 1 /\ single[1] = e
    BY <1>3
  <2> HIDE DEF single
  <2>2. /\ left \o single \in Seq(S)
        /\ Len(left \o single) = Len(left) + Len(single)
        /\ \A i \in 1 .. Len(left) + Len(single) :
              (left \o single)[i] = IF i <= Len(left) THEN left[i]
                                    ELSE single[i - Len(left)]
    BY <1>1, <2>1, ConcatProperties
  <2>3. /\ left \o single \in Seq(S) /\ Len(left \o single) = p
        /\ \A i \in 1 .. p : (left \o single)[i] = IF i < p THEN s[i] ELSE e
    BY <1>0, <1>1, <2>1, <2>2
  <2>4. QED
    BY <2>3 DEF single
<1>5. /\ begun \o right \in Seq(S)
      /\ Len(begun \o right) = Len(begun) + Len(right)
      /\ \A i \in 1 .. Len(begun) + Len(right) :
            (begun \o right)[i] =
               IF i <= Len(begun) THEN begun[i]
               ELSE right[i - Len(begun)]
  <2> HIDE DEF left, right, begun
  <2>1. QED BY <1>2, <1>4, ConcatProperties
<1>6. /\ begun \o right \in Seq(S)
      /\ Len(begun \o right) = Len(s) + 1
      /\ \A i \in 1 .. Len(s) + 1 :
            (begun \o right)[i] =
               IF i <= p THEN begun[i] ELSE right[i - p]
  <2> HIDE DEF left, right, begun
  <2>1. Len(begun) = p /\ Len(begun) + Len(right) = Len(s) + 1
    BY <1>0, <1>2, <1>4
  <2>2. QED BY <1>5, <2>1
<1>7. \A i \in 1 .. Len(s) + 1 : i > p => right[i - p] = s[i - 1]
  BY <1>0, <1>2
<1>8. InsertAt(s, p, e) = begun \o right
  BY DEF InsertAt
<1> HIDE DEF left, right, begun
<1>9. ASSUME NEW i \in 1 .. Len(s) + 1
      PROVE  (begun \o right)[i] = IF i < p THEN s[i] ELSE IF i = p THEN e ELSE s[i - 1]
  <2>1. CASE i <= p
    <3>1. i \in 1 .. p /\ (begun \o right)[i] = begun[i]
      BY <1>6, <2>1
    <3>2. QED BY <1>4, <2>1, <3>1
  <2>2. CASE ~(i <= p)
    <3>1. (begun \o right)[i] = right[i - p] /\ right[i - p] = s[i - 1]
      BY <1>0, <1>6, <1>7, <2>2
    <3>2. QED BY <1>0, <2>2, <3>1
  <2>3. QED BY <2>1, <2>2
<1>10. QED
  BY <1>6, <1>8, <1>9

LEMMA RemoveAtIs ==
    ASSUME NEW s \in Seq(Range24), NEW p \in 1 .. Len(s)
    PROVE  /\ RemoveAt(s, p) \in Seq(Range24)
           /\ Len(RemoveAt(s, p)) = Len(s) - 1
           /\ \A i \in 1 .. Len(s) - 1 :
                 RemoveAt(s, p)[i] = IF i < p THEN s[i] ELSE s[i + 1]
<1> DEFINE left == SubSeq(s, 1, p - 1)
           right == SubSeq(s, p + 1, Len(s))
<1>0. Len(s) \in Nat /\ \A i \in 1 .. Len(s) : s[i] \in Range24
  BY ElementOfSeq, LenProperties
<1>1. /\ left \in Seq(Range24) /\ Len(left) = p - 1
      /\ \A i \in 1 .. p - 1 : left[i] = s[i]
  <2>1. 1 \in Int /\ p - 1 \in Int /\ \A i \in 1 .. p - 1 : s[i] \in Range24
    BY <1>0
  <2>2. /\ left \in Seq(Range24) /\ Len(left) = IF 1 <= p - 1 THEN p - 1 - 1 + 1 ELSE 0
        /\ \A i \in 1 .. p - 1 - 1 + 1 : left[i] = s[1 + i - 1]
    BY <2>1, SubSeqProperties
  <2>3. QED
    BY <1>0, <2>2
<1>2. /\ right \in Seq(Range24) /\ Len(right) = Len(s) - p
      /\ \A i \in 1 .. Len(s) - p : right[i] = s[p + i]
  <2>1. p + 1 \in Int /\ Len(s) \in Int /\ \A i \in p + 1 .. Len(s) : s[i] \in Range24
    BY <1>0
  <2>2. /\ right \in Seq(Range24)
        /\ Len(right) = IF p + 1 <= Len(s) THEN Len(s) - (p + 1) + 1 ELSE 0
        /\ \A i \in 1 .. Len(s) - (p + 1) + 1 : right[i] = s[(p + 1) + i - 1]
    BY <2>1, SubSeqProperties
  <2>3. QED
    BY <1>0, <2>2
<1>3. /\ left \o right \in Seq(Range24)
      /\ Len(left \o right) = Len(left) + Len(right)
      /\ \A i \in 1 .. Len(left) + Len(right) :
            (left \o right)[i] = IF i <= Len(left) THEN left[i] ELSE right[i - Len(left)]
  <2> HIDE DEF left, right
  <2>1. QED BY <1>1, <1>2, ConcatProperties
<1>4. /\ left \o right \in Seq(Range24)
      /\ Len(left \o right) = Len(s) - 1
      /\ \A i \in 1 .. Len(s) - 1 :
            (left \o right)[i] = IF i <= p - 1 THEN left[i] ELSE right[i - (p - 1)]
  <2> HIDE DEF left, right
  <2>1. Len(left) = p - 1 /\ Len(left) + Len(right) = Len(s) - 1
    BY <1>0, <1>1, <1>2
  <2>2. QED BY <1>3, <2>1
<1>5. \A i \in 1 .. Len(s) - 1 : ~(i <= p - 1) => right[i - (p - 1)] = s[i + 1]
  BY <1>0, <1>2
<1>6. \A i \in 1 .. Len(s) - 1 :
         (left \o right)[i] = IF i < p THEN s[i] ELSE s[i + 1]
  <2> HIDE DEF left, right
  <2>1. SUFFICES ASSUME NEW i \in 1 .. Len(s) - 1
                 PROVE  (left \o right)[i] = IF i < p THEN s[i] ELSE s[i + 1]
    OBVIOUS
  <2>2. CASE i <= p - 1
    <3>1. i \in 1 .. p - 1 /\ (left \o right)[i] = left[i]
      BY <1>0, <1>4, <2>2
    <3>2. QED BY <1>0, <1>1, <2>2, <3>1
  <2>3. CASE ~(i <= p - 1)
    <3>1. (left \o right)[i] = right[i - (p - 1)]
      BY <1>4, <2>3
    <3>2. QED BY <1>0, <1>5, <2>3, <3>1
  <2>4. QED BY <2>2, <2>3
<1>7. RemoveAt(s, p) = left \o right
  BY DEF RemoveAt
<1>8. QED
  BY <1>4, <1>6, <1>7

\* A list with `index` put in: what Insert promises.
Adds(ranges, new, index) ==
    /\ IsRangeList(new)
    /\ Listed(new) = Listed(ranges) \cup {index}

\* It is enough to look at the ranges.
LEMMA AddsIs ==
    ASSUME NEW ranges \in Seq(Range24), NEW new, NEW index \in Number,
           IsRangeList(new),
           \A n \in Int : Lists(new, n) <=> Lists(ranges, n) \/ n = index
    PROVE  Adds(ranges, new, index)
<1>1. new \in Seq(Range24) /\ index \in Int
  BY ModulusIs DEF IsRangeList, Number
<1>2. \A n : n \in Listed(new) <=> n \in Listed(ranges) \cup {index}
  BY <1>1, ListedIs
<1>3. QED
  BY <1>2 DEF Adds

LEMMA OneIs ==
    ASSUME NEW index \in Number
    PROVE  /\ One(index) \in Range24
           /\ One(index).min = index /\ One(index).max = index
           /\ \A n \in Int : Within(n, One(index)) <=> n = index
BY ModulusIs DEF One, Range24, Within, Number

\* A range takes the place of another, and covers `index` as well.
LEMMA Widened ==
    ASSUME NEW ranges, IsRangeList(ranges), NEW index \in Number,
           NEW k \in 1 .. Len(ranges), NEW wide \in Range24,
           wide.min <= wide.max,
           \A j \in 1 .. k - 1 : ranges[j].min <= wide.min,
           \A j \in k + 1 .. Len(ranges) : wide.min <= ranges[j].min,
           \A n \in Int : Within(n, wide) <=> Within(n, ranges[k]) \/ n = index
    PROVE  Adds(ranges, [ranges EXCEPT ![k] = wide], index)
<1> DEFINE new == [ranges EXCEPT ![k] = wide]
<1>1. ranges \in Seq(Range24)
  BY DEF IsRangeList
<1>2. /\ new \in Seq(Range24) /\ Len(new) = Len(ranges)
      /\ \A j \in 1 .. Len(ranges) : new[j] = IF j = k THEN wide ELSE ranges[j]
  BY <1>1, ExceptSeq
<1>3. DOMAIN new = 1 .. Len(ranges) /\ DOMAIN ranges = 1 .. Len(ranges)
      /\ Len(ranges) \in Nat
  BY <1>1, <1>2, LenProperties
<1> HIDE DEF new
<1>4. IsRangeList(new)
  <2>1. \A i \in DOMAIN new : new[i].min <= new[i].max
    BY <1>2, <1>3 DEF IsRangeList
  <2>2. ASSUME NEW i \in DOMAIN new, NEW j \in DOMAIN new, i < j
        PROVE  new[i].min <= new[j].min
    <3>1. CASE i = k
      BY <1>2, <1>3, <2>2, <3>1
    <3>2. CASE j = k
      BY <1>2, <1>3, <2>2, <3>2
    <3>3. CASE i # k /\ j # k
      BY <1>2, <1>3, <2>2, <3>3 DEF IsRangeList
    <3>4. QED BY <3>1, <3>2, <3>3
  <2>3. QED
    BY <1>2, <2>1, <2>2 DEF IsRangeList
<1>5. ASSUME NEW n \in Int
      PROVE  Lists(new, n) <=> Lists(ranges, n) \/ n = index
  BY <1>2, <1>3 DEF Lists
<1>6. Adds(ranges, new, index)
  BY <1>1, <1>4, <1>5, AddsIs
<1>7. QED
  BY <1>6 DEF new

\* A range of its own before range p, or after the last.
LEMMA Separate ==
    ASSUME NEW ranges, IsRangeList(ranges), NEW index \in Number,
           NEW p \in 1 .. Len(ranges) + 1, NEW new \in Seq(Range24),
           Len(new) = Len(ranges) + 1,
           \A i \in 1 .. Len(ranges) + 1 :
               new[i] = IF i < p THEN ranges[i]
                        ELSE IF i = p THEN One(index) ELSE ranges[i - 1],
           \A i \in 1 .. p - 1 : ranges[i].min < index,
           p <= Len(ranges) => ranges[p].min >= index
    PROVE  Adds(ranges, new, index)
<1>1. ranges \in Seq(Range24)
  BY DEF IsRangeList
<1>2. /\ Len(ranges) \in Nat /\ DOMAIN ranges = 1 .. Len(ranges)
      /\ DOMAIN new = 1 .. Len(ranges) + 1
      /\ index \in Int
      /\ \A i \in 1 .. Len(ranges) : ranges[i].min \in Int
  BY <1>1, RangesAre, ModulusIs DEF Number
<1>3. IsRangeList(new)
  <2>1. ASSUME NEW i \in DOMAIN new
        PROVE  new[i].min <= new[i].max
    <3>1. CASE i < p
      BY <1>2, <3>1 DEF IsRangeList
    <3>2. CASE i = p
      BY <1>2, <3>2, OneIs
    <3>3. CASE i > p
      <4>1. i - 1 \in 1 .. Len(ranges) /\ new[i] = ranges[i - 1]
        BY <1>2, <3>3
      <4>2. QED BY <1>2, <4>1 DEF IsRangeList
    <3>4. QED BY <1>2, <3>1, <3>2, <3>3
  <2>2. ASSUME NEW j \in 1 .. Len(ranges), j >= p
        PROVE  index <= ranges[j].min
    <3>1. p \in 1 .. Len(ranges)
      BY <1>2, <2>2
    <3>2. ranges[p].min <= ranges[j].min
      BY <1>2, <2>2, <3>1 DEF IsRangeList
    <3>3. QED BY <1>2, <3>1, <3>2
  <2>3. ASSUME NEW i \in DOMAIN new, NEW j \in DOMAIN new, i < j
        PROVE  new[i].min <= new[j].min
    <3>1. CASE j < p
      BY <1>2, <2>3, <3>1 DEF IsRangeList
    <3>2. CASE j = p
      BY <1>2, <2>3, <3>2, OneIs
    <3>3. CASE j > p /\ i = p
      <4>1. j - 1 \in 1 .. Len(ranges) /\ new[j] = ranges[j - 1] /\ j - 1 >= p
        BY <1>2, <3>3
      <4>2. QED BY <1>2, <2>2, <3>3, <4>1, OneIs
    <3>4. CASE j > p /\ i > p
      <4>1. /\ j - 1 \in 1 .. Len(ranges) /\ new[j] = ranges[j - 1]
            /\ i - 1 \in 1 .. Len(ranges) /\ new[i] = ranges[i - 1]
            /\ i - 1 < j - 1
        BY <1>2, <2>3, <3>4
      <4>2. QED BY <1>2, <4>1 DEF IsRangeList
    <3>5. CASE j > p /\ i < p
      <4>1. /\ j - 1 \in 1 .. Len(ranges) /\ new[j] = ranges[j - 1]
            /\ i \in 1 .. Len(ranges) /\ new[i] = ranges[i]
            /\ i < j - 1
        BY <1>2, <2>3, <3>5
      <4>2. QED BY <1>2, <4>1 DEF IsRangeList
    <3>6. QED BY <1>2, <3>1, <3>2, <3>3, <3>4, <3>5
  <2>4. QED
    BY <2>1, <2>3 DEF IsRangeList
<1>4. ASSUME NEW n \in Int
      PROVE  Lists(new, n) <=> Lists(ranges, n) \/ n = index
  <2>1. ASSUME NEW i \in 1 .. Len(ranges), Within(n, ranges[i])
        PROVE  Lists(new, n)
    <3>1. CASE i < p
      BY <1>2, <2>1, <3>1 DEF Lists
    <3>2. CASE i >= p
      <4>1. i + 1 \in 1 .. Len(ranges) + 1 /\ (i + 1) - 1 = i /\ i + 1 > p
        BY <1>2, <3>2
      <4>2. new[i + 1] = ranges[i]
        BY <4>1
      <4>3. QED BY <1>2, <2>1, <4>1, <4>2 DEF Lists
    <3>3. QED BY <1>2, <3>1, <3>2
  <2>2. new[p] = One(index) /\ p \in DOMAIN new
    BY <1>2
  <2>3. ASSUME n = index
        PROVE  Lists(new, n)
    BY <2>2, <2>3, OneIs DEF Lists
  <2>4. ASSUME NEW i \in DOMAIN new, Within(n, new[i])
        PROVE  Lists(ranges, n) \/ n = index
    <3>1. CASE i < p
      BY <1>2, <2>4, <3>1 DEF Lists
    <3>2. CASE i = p
      BY <2>2, <2>4, <3>2, OneIs
    <3>3. CASE i > p
      <4>1. i - 1 \in 1 .. Len(ranges) /\ new[i] = ranges[i - 1]
        BY <1>2, <3>3
      <4>2. QED BY <1>2, <2>4, <4>1 DEF Lists
    <3>4. QED BY <1>2, <3>1, <3>2, <3>3
  <2>5. QED
    BY <1>2, <2>1, <2>3, <2>4 DEF Lists
<1>5. QED
  BY <1>1, <1>3, <1>4, AddsIs

\* Behind the last range there is no overlap either, unless it ends with the
\* last number of all.
LEMMA AtEnd ==
    ASSUME NEW ranges, IsRangeList(ranges), ranges # << >>, NEW index \in Number,
           \A i \in 1 .. Len(ranges) : ranges[i].min < index
    PROVE  Adds(ranges, InsertAtEnd(ranges, index), index)
<1> DEFINE last == Len(ranges)
<1>1. /\ ranges \in Seq(Range24)
      /\ last \in Nat /\ DOMAIN ranges = 1 .. last /\ last \in 1 .. last
      /\ \A i \in 1 .. last : /\ ranges[i] \in Range24
                              /\ ranges[i].min \in Number /\ ranges[i].max \in Number
                              /\ ranges[i].min <= ranges[i].max
  <2>1. ranges \in Seq(Range24)
    BY DEF IsRangeList
  <2>2. last \in Nat \ {0}
    BY <2>1, EmptySeq
  <2>3. QED
    BY <2>1, <2>2, RangesAre DEF IsRangeList
<1>2. index \in Int /\ ranges[last].min \in Int /\ ranges[last].max \in Int
      /\ 0 <= ranges[last].min
  BY <1>1, ModulusIs DEF Number
<1>3. Plus(ranges[last].max, 1) = IF ranges[last].max + 1 < Modulus
                                  THEN ranges[last].max + 1 ELSE 0
  <2>1. 1 \in Number
    BY ModulusIs DEF Number
  <2>2. Plus(ranges[last].max, 1) = IF ranges[last].max + 1 < Modulus
                                    THEN ranges[last].max + 1
                                    ELSE ranges[last].max + 1 - Modulus
    BY <1>1, <2>1, PlusWraps
  <2>3. ranges[last].max \in 0 .. Modulus - 1
    BY <1>1 DEF Number
  <2>4. QED
    BY <2>2, <2>3, ModulusIs
<1>4. CASE Follows(index, ranges[last])
  <2> DEFINE wide == [min |-> ranges[last].min, max |-> index]
  <2>1. ranges[last].max + 1 = index
    BY <1>1, <1>2, <1>3, <1>4 DEF Follows
  <2>2. wide \in Range24 /\ wide.min <= wide.max
    BY <1>1, <1>2 DEF Range24
  <2>3. \A n \in Int : Within(n, wide) <=> Within(n, ranges[last]) \/ n = index
    BY <1>1, <1>2, <2>1 DEF Within
  <2>4. [ranges[last] EXCEPT !.max = index] = wide
    BY <1>1 DEF Range24
  <2>5. InsertAtEnd(ranges, index) = [ranges EXCEPT ![last] = wide]
    <3>1. ~(index > Plus(ranges[last].max, 1))
      BY <1>2, <1>4 DEF Follows
    <3>2. InsertAtEnd(ranges, index) = [ranges EXCEPT ![last].max = index]
      BY <1>4, <3>1 DEF InsertAtEnd
    <3>3. QED
      BY <2>4, <3>2
  <2>6. \A j \in 1 .. last - 1 : ranges[j].min <= wide.min
    BY <1>1 DEF IsRangeList
  <2>7. \A j \in last + 1 .. Len(ranges) : wide.min <= ranges[j].min
    BY <1>1
  <2> HIDE DEF wide
  <2>8. Adds(ranges, [ranges EXCEPT ![last] = wide], index)
    BY <1>1, <2>2, <2>3, <2>6, <2>7, Widened
  <2>9. QED
    BY <2>5, <2>8
<1>5. CASE ~Follows(index, ranges[last]) /\ index > Plus(ranges[last].max, 1)
  <2>1. InsertAtEnd(ranges, index) = Append(ranges, One(index))
    BY <1>5 DEF InsertAtEnd
  <2>2. /\ Append(ranges, One(index)) \in Seq(Range24)
        /\ Len(Append(ranges, One(index))) = last + 1
        /\ \A i \in 1 .. last : Append(ranges, One(index))[i] = ranges[i]
        /\ Append(ranges, One(index))[last + 1] = One(index)
    BY <1>1, OneIs, AppendProperties
  <2>3. \A i \in 1 .. last + 1 : Append(ranges, One(index))[i] =
           IF i < last + 1 THEN ranges[i]
           ELSE IF i = last + 1 THEN One(index) ELSE ranges[i - 1]
    BY <1>1, <2>2
  <2>4. last + 1 \in 1 .. Len(ranges) + 1 /\ ~(last + 1 <= Len(ranges))
        /\ (last + 1) - 1 = last
    BY <1>1
  <2>5. QED
    BY <2>1, <2>2, <2>3, <2>4, Separate
<1>6. CASE ~Follows(index, ranges[last]) /\ ~(index > Plus(ranges[last].max, 1))
  <2>1. InsertAtEnd(ranges, index) = ranges
    BY <1>6 DEF InsertAtEnd
  <2>2. Within(index, ranges[last])
    BY <1>1, <1>2, <1>3, <1>6 DEF Follows, Within
  <2>3. \A n \in Int : Lists(ranges, n) <=> Lists(ranges, n) \/ n = index
    BY <1>1, <2>2 DEF Lists
  <2>4. QED
    BY <1>1, <2>1, <2>3, AddsIs
<1>7. QED
  BY <1>4, <1>5, <1>6

\* The range the index precedes is lengthened, and joined to the one before.
LEMMA Leftwards ==
    ASSUME NEW ranges, IsRangeList(ranges), NEW index \in Number,
           NEW p \in 1 .. Len(ranges),
           ranges[p].min = index + 1,
           \A i \in 1 .. p - 1 : ranges[i].min < index
    PROVE  Adds(ranges, JoinLeft(ranges, p), index)
<1> DEFINE wide == [min |-> index, max |-> ranges[p].max]
           lower == [ranges EXCEPT ![p] = wide]
<1>1. /\ ranges \in Seq(Range24)
      /\ Len(ranges) \in Nat /\ DOMAIN ranges = 1 .. Len(ranges)
      /\ \A i \in 1 .. Len(ranges) :
            /\ ranges[i] \in Range24
            /\ ranges[i].min \in Number /\ ranges[i].max \in Number
            /\ ranges[i].min <= ranges[i].max
            /\ ranges[i].min \in Int /\ ranges[i].max \in Int /\ 0 <= ranges[i].min
  <2>1. ranges \in Seq(Range24)
    BY DEF IsRangeList
  <2>2. \A n \in Number : 0 <= n
    BY ModulusIs DEF Number
  <2>3. QED
    BY <2>1, <2>2, RangesAre DEF IsRangeList
<1>2. index \in Int
  BY ModulusIs DEF Number
<1>3. /\ wide \in Range24 /\ wide.min = index /\ wide.max = ranges[p].max
      /\ wide.min <= wide.max
  BY <1>1, <1>2 DEF Range24
<1>4. \A n \in Int : Within(n, wide) <=> Within(n, ranges[p]) \/ n = index
  BY <1>1, <1>2, <1>3 DEF Within
<1>5. \A j \in p + 1 .. Len(ranges) : index + 1 <= ranges[j].min
  BY <1>1 DEF IsRangeList
<1>6. [ranges EXCEPT ![p].min = Minus(@, 1)] = lower
  <2>1. 1 \in Number
    BY ModulusIs DEF Number
  <2>2. Minus(ranges[p].min, 1) = IF ranges[p].min < 1 THEN ranges[p].min - 1 + Modulus
                                  ELSE ranges[p].min - 1
    BY <1>1, <2>1, MinusWraps
  <2>3. index >= 0
    BY ModulusIs DEF Number
  <2>4. Minus(ranges[p].min, 1) = index
    BY <1>1, <1>2, <2>2, <2>3
  <2>5. [ranges[p] EXCEPT !.min = Minus(@, 1)] = wide
    BY <1>1, <2>4 DEF Range24
  <2>6. QED
    BY <1>1, <2>5
<1> HIDE DEF wide
<1>7. Adds(ranges, lower, index)
  <2>1. \A j \in 1 .. p - 1 : ranges[j].min <= wide.min
    BY <1>1, <1>2, <1>3
  <2>2. \A j \in p + 1 .. Len(ranges) : wide.min <= ranges[j].min
    BY <1>1, <1>2, <1>3, <1>5
  <2>3. QED
    BY <1>3, <1>4, <2>1, <2>2, Widened
<1>8. lower \in Seq(Range24) /\ Len(lower) = Len(ranges)
      /\ \A j \in 1 .. Len(ranges) : lower[j] = IF j = p THEN wide ELSE ranges[j]
  BY <1>1, <1>3, ExceptSeq
<1>9. lower[p].min = index
  BY <1>3, <1>8
<1> HIDE DEF lower
<1>10. CASE ~(p > 1 /\ Plus(ranges[p - 1].max, 1) = lower[p].min)
  BY <1>6, <1>7, <1>10 DEF JoinLeft
<1>11. CASE p > 1 /\ Plus(ranges[p - 1].max, 1) = lower[p].min
  <2> DEFINE both == [min |-> ranges[p - 1].min, max |-> ranges[p].max]
             joined == [lower EXCEPT ![p - 1] = both]
             new == RemoveAt(joined, p)
  <2>1. p - 1 \in 1 .. Len(ranges) /\ p - 1 # p /\ p - 1 \in 1 .. p - 1
    BY <1>1, <1>11
  <2>2. ranges[p - 1].max + 1 = index /\ ranges[p - 1].min < index
    <3>1. 1 \in Number
      BY ModulusIs DEF Number
    <3>2. Plus(ranges[p - 1].max, 1) =
             IF ranges[p - 1].max + 1 < Modulus THEN ranges[p - 1].max + 1
             ELSE ranges[p - 1].max + 1 - Modulus
      BY <1>1, <2>1, <3>1, PlusWraps
    <3>3. ranges[p - 1].max < Modulus /\ ranges[p - 1].max \in Int
      BY <1>1, <2>1, ModulusIs DEF Number
    <3>4. ranges[p - 1].min < index /\ 0 <= ranges[p - 1].min
      BY <1>1, <2>1
    <3>5. QED
      BY <1>1, <1>2, <1>9, <1>11, <2>1, <3>2, <3>3, <3>4, ModulusIs
  <2>3. both \in Range24 /\ both.min = ranges[p - 1].min /\ both.max = ranges[p].max
        /\ both.min < index /\ both.min <= both.max
    BY <1>1, <1>2, <2>1, <2>2 DEF Range24
  <2>4. [lower EXCEPT ![p - 1].max = lower[p].max] = joined
    <3>1. lower[p - 1] = ranges[p - 1] /\ lower[p].max = ranges[p].max
      BY <1>3, <1>8, <2>1
    <3>2. [lower[p - 1] EXCEPT !.max = lower[p].max] = both
      BY <1>1, <2>1, <3>1 DEF Range24
    <3>3. QED
      BY <3>2
  <2>5. JoinLeft(ranges, p) = new
    BY <1>6, <1>11, <2>4 DEF JoinLeft
  <2> HIDE DEF both
  <2>6. /\ joined \in Seq(Range24) /\ Len(joined) = Len(ranges)
        /\ \A j \in 1 .. Len(ranges) :
              joined[j] = IF j = p - 1 THEN both ELSE lower[j]
    BY <1>8, <2>1, <2>3, ExceptSeq
  <2> HIDE DEF joined
  <2>7. /\ new \in Seq(Range24) /\ Len(new) = Len(ranges) - 1
        /\ \A i \in 1 .. Len(ranges) - 1 :
              new[i] = IF i < p THEN joined[i] ELSE joined[i + 1]
    <3>1. p \in 1 .. Len(joined)
      BY <1>1, <2>6
    <3>2. joined \in Seq(Range24) /\ Len(joined) = Len(ranges)
      BY <2>6
    <3>3. /\ RemoveAt(joined, p) \in Seq(Range24)
          /\ Len(RemoveAt(joined, p)) = Len(joined) - 1
          /\ \A i \in 1 .. Len(joined) - 1 :
                RemoveAt(joined, p)[i] = IF i < p THEN joined[i] ELSE joined[i + 1]
      BY <3>1, <3>2, RemoveAtIs
    <3>4. QED
      BY <3>2, <3>3
  <2> HIDE DEF new
  <2>8. /\ DOMAIN new = 1 .. Len(ranges) - 1
        /\ \A i \in 1 .. Len(ranges) - 1 :
              /\ i < p - 1 => new[i] = ranges[i]
              /\ i = p - 1 => new[i] = both
              /\ i > p - 1 => new[i] = ranges[i + 1]
        /\ p - 1 \in 1 .. Len(ranges) - 1
    <3>1. DOMAIN new = 1 .. Len(ranges) - 1 /\ p - 1 \in 1 .. Len(ranges) - 1
      BY <1>1, <2>1, <2>7, LenProperties
    <3>2. ASSUME NEW i \in 1 .. Len(ranges) - 1, i < p - 1
          PROVE  new[i] = ranges[i]
      BY <1>1, <1>8, <2>6, <2>7, <3>2
    <3>3. new[p - 1] = both
      BY <1>1, <2>1, <2>6, <2>7, <3>1
    <3>4. ASSUME NEW i \in 1 .. Len(ranges) - 1, i > p - 1
          PROVE  new[i] = ranges[i + 1]
      <4>1. i + 1 \in 1 .. Len(ranges) /\ i + 1 # p - 1 /\ i + 1 # p /\ ~(i < p)
        BY <1>1, <3>4
      <4>2. QED BY <1>8, <2>6, <2>7, <4>1
    <3>5. QED BY <3>1, <3>2, <3>3, <3>4
  <2>9. IsRangeList(new)
    <3>1. ASSUME NEW i \in DOMAIN new
          PROVE  new[i].min <= new[i].max
      <4>1. CASE i < p - 1
        BY <1>1, <2>8, <4>1
      <4>2. CASE i = p - 1
        BY <2>3, <2>8, <4>2
      <4>3. CASE i > p - 1
        <5>1. i + 1 \in 1 .. Len(ranges)
          BY <1>1, <2>8
        <5>2. QED BY <1>1, <2>8, <4>3, <5>1
      <4>4. QED BY <1>1, <2>8, <4>1, <4>2, <4>3
    <3>2. ASSUME NEW i \in DOMAIN new, NEW j \in DOMAIN new, i < j
          PROVE  new[i].min <= new[j].min
      <4> DEFINE at(k) == IF k <= p - 1 THEN k ELSE k + 1
      <4>1. ASSUME NEW k \in DOMAIN new
            PROVE  at(k) \in 1 .. Len(ranges) /\ new[k].min = ranges[at(k)].min
        <5>1. k \in 1 .. Len(ranges) - 1 /\ p - 1 \in 1 .. Len(ranges) - 1
          BY <2>8
        <5>2. CASE k < p - 1
          BY <1>1, <2>8, <5>1, <5>2
        <5>3. CASE k = p - 1
          BY <1>1, <2>3, <2>8, <5>1, <5>3
        <5>4. CASE k > p - 1
          BY <1>1, <2>8, <5>1, <5>4
        <5>5. QED BY <5>1, <5>2, <5>3, <5>4
      <4>2. at(i) < at(j)
        BY <1>1, <2>8, <3>2
      <4> HIDE DEF at
      <4>3. QED
        BY <1>1, <4>1, <4>2 DEF IsRangeList
    <3>3. QED
      BY <2>7, <3>1, <3>2 DEF IsRangeList
  <2>10. ASSUME NEW n \in Int
         PROVE  Lists(new, n) <=> Lists(ranges, n) \/ n = index
    <3>1. Within(n, both) <=>
             Within(n, ranges[p - 1]) \/ Within(n, ranges[p]) \/ n = index
      BY <1>1, <1>2, <2>1, <2>2, <2>3 DEF Within
    <3>2. ASSUME NEW i \in 1 .. Len(ranges), Within(n, ranges[i])
          PROVE  Lists(new, n)
      <4>1. CASE i < p - 1
        <5>1. i \in 1 .. Len(ranges) - 1 /\ new[i] = ranges[i]
          BY <1>1, <2>8, <4>1
        <5>2. QED BY <2>8, <3>2, <5>1 DEF Lists
      <4>2. CASE i = p - 1 \/ i = p
        BY <2>8, <3>1, <3>2, <4>2 DEF Lists
      <4>3. CASE i > p
        <5>1. i - 1 \in 1 .. Len(ranges) - 1 /\ i - 1 > p - 1 /\ (i - 1) + 1 = i
          BY <1>1, <4>3
        <5>2. new[i - 1] = ranges[i]
          BY <2>8, <5>1
        <5>3. QED BY <2>8, <3>2, <5>1, <5>2 DEF Lists
      <4>4. QED BY <1>1, <4>1, <4>2, <4>3
    <3>3. ASSUME n = index
          PROVE  Lists(new, n)
      BY <2>8, <3>1, <3>3 DEF Lists
    <3>4. ASSUME NEW i \in DOMAIN new, Within(n, new[i])
          PROVE  Lists(ranges, n) \/ n = index
      <4>1. CASE i < p - 1
        <5>1. i \in 1 .. Len(ranges) /\ new[i] = ranges[i]
          BY <1>1, <2>8, <4>1
        <5>2. QED BY <1>1, <3>4, <5>1 DEF Lists
      <4>2. CASE i = p - 1
        <5>1. p - 1 \in 1 .. Len(ranges) /\ p \in 1 .. Len(ranges)
          BY <1>1, <2>1
        <5>2. Within(n, both)
          BY <2>8, <3>4, <4>2
        <5>3. QED BY <1>1, <3>1, <5>1, <5>2 DEF Lists
      <4>3. CASE i > p - 1
        <5>1. i + 1 \in 1 .. Len(ranges) /\ new[i] = ranges[i + 1]
          BY <1>1, <2>8, <4>3
        <5>2. QED BY <1>1, <3>4, <5>1 DEF Lists
      <4>4. QED BY <1>1, <2>8, <4>1, <4>2, <4>3
    <3>5. QED
      BY <1>1, <3>2, <3>3, <3>4 DEF Lists
  <2>11. QED
    BY <1>1, <2>5, <2>9, <2>10, AddsIs
<1>12. QED
  BY <1>10, <1>11

\* Insert adds to the list the number inserted and no other, wherever it
\* falls: before, in, behind or between the ranges, and at both ends of the
\* numbers. What a peer acknowledges is what it received.
THEOREM InsertAddsTheNumber ==
    ASSUME NEW ranges, IsRangeList(ranges), NEW index \in Number
    PROVE  /\ IsRangeList(Insert(ranges, index))
           /\ Listed(Insert(ranges, index)) = Listed(ranges) \cup {index}
<1> DEFINE p == Place(ranges, index)
           new == Insert(ranges, index)
<1>1. /\ ranges \in Seq(Range24)
      /\ Len(ranges) \in Nat /\ DOMAIN ranges = 1 .. Len(ranges)
      /\ \A i \in 1 .. Len(ranges) :
            /\ ranges[i].min \in Number /\ ranges[i].max \in Number
            /\ ranges[i].min <= ranges[i].max
  <2>1. ranges \in Seq(Range24)
    BY DEF IsRangeList
  <2>2. QED
    BY <2>1, RangesAre DEF IsRangeList
<1>2. /\ p \in 1 .. Len(ranges) + 1
      /\ p <= Len(ranges) => ranges[p].min >= index
      /\ \A i \in 1 .. p - 1 : ranges[i].min < index
  BY <1>1, PlaceIs
<1>3. \A n \in Number : n \in Int /\ 0 <= n /\ n < Modulus
  BY ModulusIs DEF Number
<1> HIDE DEF p
<1>4. CASE ranges = << >>
  <2>1. new = << One(index) >>
    BY <1>4 DEF Insert
  <2>2. /\ << One(index) >> \in Seq(Range24) /\ Len(<< One(index) >>) = 1
        /\ << One(index) >>[1] = One(index) /\ Len(ranges) = 0
    BY <1>4, OneIs
  <2>3. \A i \in 1 .. Len(ranges) + 1 : << One(index) >>[i] =
           IF i < 1 THEN ranges[i] ELSE IF i = 1 THEN One(index) ELSE ranges[i - 1]
    BY <2>2
  <2> DEFINE first == << One(index) >>
  <2>4. first \in Seq(Range24) /\ Len(first) = Len(ranges) + 1 /\ Len(ranges) = 0
        /\ \A i \in 1 .. Len(ranges) + 1 : first[i] =
              IF i < 1 THEN ranges[i] ELSE IF i = 1 THEN One(index) ELSE ranges[i - 1]
    BY <2>2, <2>3
  <2> HIDE DEF first
  <2>5. /\ 1 \in 1 .. Len(ranges) + 1
        /\ \A i \in 1 .. 1 - 1 : ranges[i].min < index
        /\ ~(1 <= Len(ranges))
    BY <2>4
  <2>6. Adds(ranges, first, index)
    BY <2>4, <2>5, Separate
  <2>7. QED
    BY <2>1, <2>6 DEF Adds, first
<1>5. CASE ranges # << >> /\ p > Len(ranges)
  <2>1. new = InsertAtEnd(ranges, index)
    BY <1>5 DEF Insert, p
  <2>2. \A i \in 1 .. Len(ranges) : ranges[i].min < index
    BY <1>1, <1>2, <1>5
  <2>3. QED
    BY <1>5, <2>1, <2>2, AtEnd DEF Adds
<1>6. CASE ranges # << >> /\ p <= Len(ranges)
  <2>1. /\ p \in 1 .. Len(ranges) /\ ~(p > Len(ranges))
        /\ index \in Int /\ 0 <= index /\ index < Modulus
        /\ ranges[p].min \in Int /\ ranges[p].max \in Int
        /\ ranges[p].min >= index /\ ranges[p].min <= ranges[p].max
        /\ ranges[p].min < Modulus
    BY <1>1, <1>2, <1>3, <1>6
  <2>2. Minus(ranges[p].min, 1) = IF ranges[p].min < 1 THEN ranges[p].min - 1 + Modulus
                                  ELSE ranges[p].min - 1
    <3>1. 1 \in Number
      BY ModulusIs DEF Number
    <3>2. QED
      BY <1>1, <2>1, <3>1, MinusWraps
  <2>3. CASE index < Minus(ranges[p].min, 1)
    <3>1. new = InsertAt(ranges, p, One(index))
      BY <1>6, <2>1, <2>3 DEF Insert, InsertBefore, p
    <3>2. /\ InsertAt(ranges, p, One(index)) \in Seq(Range24)
          /\ Len(InsertAt(ranges, p, One(index))) = Len(ranges) + 1
          /\ \A i \in 1 .. Len(ranges) + 1 :
                InsertAt(ranges, p, One(index))[i] =
                   IF i < p THEN ranges[i] ELSE IF i = p THEN One(index) ELSE ranges[i - 1]
      <4>1. One(index) \in Range24
        BY OneIs
      <4> DEFINE e == One(index)
      <4> HIDE DEF e
      <4>2. e \in Range24 /\ ranges \in Seq(Range24) /\ p \in 1 .. Len(ranges)
        BY <1>1, <2>1, <4>1 DEF e
      <4>3. /\ InsertAt(ranges, p, e) \in Seq(Range24)
            /\ Len(InsertAt(ranges, p, e)) = Len(ranges) + 1
            /\ \A i \in 1 .. Len(ranges) + 1 :
                  InsertAt(ranges, p, e)[i] =
                     IF i < p THEN ranges[i] ELSE IF i = p THEN e ELSE ranges[i - 1]
        BY <4>2, InsertAtIs
      <4>4. QED
        BY <4>3 DEF e
    <3>3. Adds(ranges, InsertAt(ranges, p, One(index)), index)
      BY <1>2, <3>2, Separate
    <3>4. QED
      BY <3>1, <3>3 DEF Adds
  <2>4. CASE ~(index < Minus(ranges[p].min, 1)) /\ Precedes(index, ranges[p])
    <3>1. new = JoinLeft(ranges, p)
      BY <1>6, <2>1, <2>4 DEF Insert, InsertBefore, p
    <3>2. ranges[p].min = index + 1
      BY <2>1, <2>2, <2>4, ModulusIs DEF Precedes
    <3>3. QED
      BY <1>2, <2>1, <3>1, <3>2, Leftwards DEF Adds
  <2>5. CASE ~(index < Minus(ranges[p].min, 1)) /\ ~Precedes(index, ranges[p])
    <3>1. index = ranges[p].min /\ Within(index, ranges[p])
      BY <2>1, <2>2, <2>5, ModulusIs DEF Precedes, Within
    <3>2. new = ranges
      BY <1>6, <2>1, <2>5, <3>1 DEF Insert, InsertBefore, p
    <3>3. \A n \in Int : Lists(ranges, n) <=> Lists(ranges, n) \/ n = index
      BY <1>1, <2>1, <3>1 DEF Lists
    <3>4. QED
      BY <1>1, <3>2, <3>3, AddsIs DEF Adds
  <2>6. QED
    BY <2>3, <2>4, <2>5
<1>7. QED
  BY <1>2, <1>4, <1>5, <1>6
================================================================================
