---------------------------- MODULE MCRpgSystem ----------------------------
(***************************************************************************)
(* Values for the constants of RpgSystem: the scaled numbers of            *)
(* MCGameServer, with which two players finish a game in a few blows.      *)
(***************************************************************************)
EXTENDS RpgSystem

MCHealers == {"Cleric"} \cap Classes
MCHealth  == [c \in Classes |-> IF c = "Rogue" THEN 1 ELSE 2]
MCDamage  == [c \in Classes |-> IF c = "Rogue" THEN 3 ELSE 1]
MCDefense == [c \in Classes |-> IF c = "Cleric" THEN 1 ELSE 2]
=============================================================================
