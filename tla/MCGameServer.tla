---------------------------- MODULE MCGameServer ----------------------------
(***************************************************************************)
(* Values for the constants of GameServer. The numbers of the classes are  *)
(* scaled down so that a game is a few blows long and still has every      *)
(* outcome: a blow that misses and one that hits, a defense that only      *)
(* defending makes sufficient, a blow that exceeds the health left, a heal *)
(* that is cut off at full health.                                         *)
(***************************************************************************)
EXTENDS GameServer, TLC

MCHealers == {"Cleric"} \cap Classes
MCHealth  == [c \in Classes |-> IF c = "Rogue" THEN 1 ELSE 2]
MCDamage  == [c \in Classes |-> IF c = "Rogue" THEN 3 ELSE 1]
MCDefense == [c \in Classes |-> IF c = "Cleric" THEN 1 ELSE 2]

Symmetry == Permutations(Guids)
=============================================================================
