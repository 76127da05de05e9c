------------------------------- MODULE MCDuel -------------------------------
(***************************************************************************)
(* GameServer with the points of the real classes and the real die.        *)
(***************************************************************************)
EXTENDS GameServer, CharacterClass, TLC

Symmetry == Permutations(Guids)
=============================================================================
