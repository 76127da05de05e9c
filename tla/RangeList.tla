------------------------------- MODULE RangeList -------------------------------
(***************************************************************************)
(* DS_RangeList.h: a set of 24-bit numbers kept as a list of ranges in the *)
(* order of their first numbers. The reliability layer collects in one the *)
(* datagrams it has to acknowledge, and sends it as it is.                 *)
(***************************************************************************)
EXTENDS SequenceNumbers, Sequences, SequencesExt

Range24 == [min : Number, max : Number]

One(index) == [min |-> index, max |-> index]

Within(index, range) == range.min <= index /\ index <= range.max

\* The numbers a list stands for.
Listed(ranges) == UNION {ranges[i].min .. ranges[i].max : i \in DOMAIN ranges}

\* The place of `index` (GetIndexFromKey): the first range not below it.
Place(ranges, index) ==
    CHOOSE p \in 1 .. Len(ranges) + 1 :
        /\ p <= Len(ranges) => ranges[p].min >= index
        /\ \A i \in 1 .. p - 1 : ranges[i].min < index

Follows(index, range) == index = Plus(range.max, 1)
Precedes(index, range) == index = Minus(range.min, 1)

\* Mutant of InsertAtEnd: the last range is stretched across a gap.
StretchAtEnd(ranges, index) == [ranges EXCEPT ![Len(ranges)].max = index]

\* After the last range: lengthen it, begin another, or there already.
InsertAtEnd(ranges, index) ==
    LET last == Len(ranges)
    IN  CASE Follows(index, ranges[last]) ->
               [ranges EXCEPT ![last].max = index]
          [] index > Plus(ranges[last].max, 1) -> Append(ranges, One(index))
          [] OTHER -> ranges

\* Lengthen range p downwards, and join it to the one it now touches.
JoinLeft(ranges, p) ==
    LET lower == [ranges EXCEPT ![p].min = Minus(@, 1)]
    IN  IF p > 1 /\ Plus(ranges[p - 1].max, 1) = lower[p].min
        THEN RemoveAt([lower EXCEPT ![p - 1].max = lower[p].max], p)
        ELSE lower

\* Lengthen range p upwards, and join it to the one it now touches.
JoinRight(ranges, p) ==
    LET longer == [ranges EXCEPT ![p].max = Plus(@, 1)]
    IN  IF p < Len(ranges) /\ ranges[p + 1].min = Plus(longer[p].max, 1)
        THEN RemoveAt([longer EXCEPT ![p + 1].min = longer[p].min], p)
        ELSE longer

\* Where range p does not begin below the index. The range before it is not
\* looked at: an index that one covers already gets a range of its own, and
\* so does 0, again, if range p begins with it.
InsertBefore(ranges, p, index) ==
    IF index < Minus(ranges[p].min, 1) THEN InsertAt(ranges, p, One(index))
    ELSE IF Precedes(index, ranges[p]) THEN JoinLeft(ranges, p)
    ELSE IF ~Within(index, ranges[p]) /\ Follows(index, ranges[p])
         THEN JoinRight(ranges, p)
    ELSE ranges

\* RangeList::Insert.
Insert(ranges, index) ==
    LET p == Place(ranges, index)
    IN  IF ranges = << >> THEN << One(index) >>
        ELSE IF p > Len(ranges) THEN InsertAtEnd(ranges, index)
        ELSE InsertBefore(ranges, p, index)
================================================================================
