-------------------------- MODULE MCReliabilityLayer --------------------------
(***************************************************************************)
(* Instances of ReliabilityLayer for TLC.                                  *)
(***************************************************************************)
EXTENDS ReliabilityLayer

\* A new connection, and one whose numbers are about to wrap.
NewOrOld == {0, Modulus - 2}
================================================================================
