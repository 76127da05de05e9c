------------------------------ MODULE TurnGame ------------------------------
(***************************************************************************)
(* A game of the RakNet_RPG server as its players know it: a lobby that    *)
(* fills, a game that everybody starts together and leaves by death or by  *)
(* disconnection, and an end when one player is left.                      *)
(***************************************************************************)
EXTENDS Naturals, FiniteSets

CONSTANTS Players,   \* who may ever play
          Size       \* how many a game is for

VARIABLES phase,     \* "lobby", "playing" or "over"
          alive      \* who is in the lobby, then who is left in the game

gameVars == <<phase, alive>>

Init == phase = "lobby" /\ alive = {}

Join(p) == /\ phase = "lobby"
           /\ p \notin alive
           /\ alive' = alive \cup {p}
           /\ UNCHANGED phase

Leave(p) == /\ phase = "lobby"
            /\ p \in alive
            /\ alive' = alive \ {p}
            /\ UNCHANGED phase

Begin == /\ phase = "lobby"
         /\ Cardinality(alive) = Size
         /\ phase' = "playing"
         /\ UNCHANGED alive

Fall(p) == /\ phase = "playing"
           /\ p \in alive
           /\ Cardinality(alive) >= 2
           /\ alive' = alive \ {p}
           /\ UNCHANGED phase

End == /\ phase = "playing"
       /\ Cardinality(alive) = 1
       /\ phase' = "over"
       /\ UNCHANGED alive

Next == Begin \/ End \/ \E p \in Players : Join(p) \/ Leave(p) \/ Fall(p)

Spec == Init /\ [][Next]_gameVars
=============================================================================
