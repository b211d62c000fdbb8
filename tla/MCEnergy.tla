------------------------------ MODULE MCEnergy ------------------------------
(***************************************************************************)
(* A small instance of Energy: recipes that cost one or two units, one of  *)
(* them from an item that tickHunger eats (the case tryCraftFactory holds  *)
(* its lock for), and batteries at different distances.                    *)
(***************************************************************************)
EXTENDS Energy, TLC

CONSTANTS s1, b1, b2, f1

\* All devices are placed from one item: the handlers differ in nothing else.
MCKind == [d \in Devices |-> "kit"]
MCNeed == [steel |-> [i \in Items |-> IF i = "ore" THEN 1 ELSE 0],
           stew |-> [i \in Items |-> IF i = "fruit" THEN 1 ELSE 0]]
MCOut == [steel |-> "steel", stew |-> "steel"]
MCEnergyOf == [steel |-> 1, stew |-> 2]

\* The panel is nearer to b1; for the factory the two batteries tie.
MCDist == [x \in Panels |-> [b \in Batteries |-> IF b = b1 THEN 1 ELSE 2]]
            @@ [x \in Factories |-> [b \in Batteries |-> 1]]

=============================================================================
