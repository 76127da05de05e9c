---------------------------- MODULE SequenceNumbers ----------------------------
(***************************************************************************)
(* The 24-bit numbers (uint24_t) RakNet gives to datagrams, to reliable    *)
(* messages and to the messages of an ordering channel. They wrap to 0, so *)
(* "earlier" and "later" are decided on the circle: of two numbers the     *)
(* nearer half of the circle decides.                                      *)
(***************************************************************************)
EXTENDS Integers

Modulus == 16777216          \* 2^24

Number == 0 .. Modulus - 1

\* Mutant of Plus: the number has room for the carry.
PlusUnwrapped(a, b) == a + b

\* Unsigned arithmetic of uint24_t.
Plus(a, b) == (a + b) % Modulus
Minus(a, b) == (a - b) % Modulus

HalfSpan == (Modulus - 1) \div 2

LessThan(a, b) == b # a /\ Minus(b, a) < HalfSpan

\* Mutant of IsOlderOrderedPacket: the branch of a small index for all.
IsOlderUnwrapped(new, waiting) == new < waiting

\* Is `new` before the index the channel waits for?
IsOlderOrderedPacket(new, waiting) ==
    IF waiting > HalfSpan
    THEN new >= Minus(waiting, HalfSpan) + 1 /\ new < waiting
    ELSE new >= Minus(waiting, HalfSpan + 1) \/ new < waiting
================================================================================
