------------------------------ MODULE MCFields ------------------------------
(* The fields (Harvest) and the rockets (Rockets) for TLC: two players on a *)
(* plot with a fruit, or one on a hunt; two players and one or two rockets  *)
(* with small tanks.  Fields and rockets share no variable, so a behaviour  *)
(* follows one of them while the other has not begun.                       *)
EXTENDS Harvest, Rockets, TLC

CONSTANTS p1, p2, g1, g2, g3, g4, g5, g6, r1, r2

VARIABLE part   \* which of the two moves

MCItems == {"fruit", "water", "spear", "meat", "seed", "house", "wood"}
MCStart == [g \in Ids |-> IF g = g1 THEN "fruit" ELSE None]
MCNeed == [r \in Recipes |-> [i \in Items |-> IF i = "wood" THEN 1 ELSE 0]]

FieldsInit == Init /\ RocketsInit /\ part \in {"fields", "rockets"}

FieldsNext ==
    \/ part = "fields" /\ Next /\ UNCHANGED <<rocketVars, part>>
    \/ part = "rockets" /\ RocketsNext /\ UNCHANGED <<vars, part>>

\* The fairness of FairSpec and RocketsFairSpec, each for its part.
FieldsSpec ==
    /\ FieldsInit
    /\ [][FieldsNext]_<<vars, rocketVars, part>>
    /\ WF_vars(part = "fields" /\ Ripen) /\ WF_vars(part = "fields" /\ TickResources)
    /\ WF_rocketVars(part = "rockets" /\ TickRockets)

-----------------------------------------------------------------------------
(* Bounds *)

\* Either two players farm the one fruit that is here, or one player hunts and
\* builds with what /get gave him, or has everything from /allinv and uses up two
\* things of it, with no mob around.
FarmScene ==
    \/ given = Zero
    \/ /\ todo[p2] = Idle /\ inv[p2] = Zero /\ drawn = 0
       /\ ground[g1] = "fruit" /\ spent["fruit"] = 0
       /\ given["meat"] > 0 =>
             bag = Zero /\ kills = 0 /\ SumFunctionOnSet(spent, Items) <= 2

\* Two rockets burn little fuel and stay near the ground, and one player alone
\* has infinite fuel.
RocketScene ==
    /\ p2 \notin cheat
    /\ r2 \in store => /\ r1 \in store /\ cheat = {}
                       /\ \A r \in Rockets : burned[r] <= 3 /\ zone[r] \in {"earth", "air"}

Scene == FarmScene /\ RocketScene

=============================================================================
