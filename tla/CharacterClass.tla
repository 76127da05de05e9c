--------------------------- MODULE CharacterClass ---------------------------
(***************************************************************************)
(* The character classes of src/RakNet_RPG/Common: a class is three        *)
(* qualities, and a quality is worth a number of points that depends on    *)
(* what it is the quality of.                                              *)
(***************************************************************************)
EXTENDS Naturals

EPlayerClass == {"Warrior", "Rogue", "Cleric"}

GetAttribHealth  == [Low |-> 40, Medium |-> 60, High |-> 80]
GetAttribDamage  == [Low |-> 5, Medium |-> 10, High |-> 15]
GetAttribDefense == [Low |-> 5, Medium |-> 10, High |-> 15]

\* The qualities the constructors set.
WarriorClass == [health |-> "High", damage |-> "Medium", defense |-> "Medium"]
RogueClass   == [health |-> "Low", damage |-> "High", defense |-> "High"]
ClericClass  == [health |-> "Medium", damage |-> "Low", defense |-> "Medium"]

Qualities == [Warrior |-> WarriorClass, Rogue |-> RogueClass, Cleric |-> ClericClass]

\* The classes whose DoTurn has a third choice.
HealerClasses == {"Cleric"}

HealthPoints  == [c \in EPlayerClass |-> GetAttribHealth[Qualities[c].health]]

\* Mutant of DamagePoints: the points of a quality of health.
DamagePointsOfHealth == [c \in EPlayerClass |-> GetAttribHealth[Qualities[c].damage]]

DamagePoints  == [c \in EPlayerClass |-> GetAttribDamage[Qualities[c].damage]]
DefensePoints == [c \in EPlayerClass |-> GetAttribDefense[Qualities[c].defense]]

\* Rolld20: rand() % 20 + 1.
Rolld20 == {(r % 20) + 1 : r \in 0 .. 19}
=============================================================================
