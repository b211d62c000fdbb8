------------------------------- MODULE MCMobs -------------------------------
(***************************************************************************)
(* Small instances of Mobs: one mob of each kind named by its kind.        *)
(***************************************************************************)
EXTENDS Mobs, TLC

CONSTANTS hostile, collector, pink, g1, g2, g3, g4, g5, g6, p1, p2, x1, x2

MCKind == [m \in Mobs |-> IF m = hostile THEN "hostile"
                          ELSE IF m = collector THEN "collector" ELSE "pink"]
MCStartHP == [m \in Mobs |-> IF m = collector THEN 2 ELSE 1]

\* Players, projectiles and equal resources are interchangeable (safety runs only).
Symmetry == Permutations(Players) \cup Permutations(Projs)
              \cup Permutations(StartFruit) \cup Permutations(Ids \ StartFruit)

=============================================================================
