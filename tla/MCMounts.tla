------------------------------ MODULE MCMounts ------------------------------
(* Mounts for TLC: two players, a pair of mammoths, an unborn calf, a boat. *)
EXTENDS Mounts, TLC

CONSTANTS p1, p2, m1, m2, m3

PlayerSymmetry == Permutations({p1, p2})

\* Bound: either one player who breeds the herd or uses the boat, or two
\* players who meet over one tamed mammoth, which only one of them saddles, and
\* the boat.  Players differ in nothing, so p1 is the first to join.
HerdScene ==
    /\ p2 \in online \cup gone => p1 \in online \cup gone
    /\ \/ Cardinality(online \cup gone) <= 1 /\ (fedTotal = 0 \/ afloat = {})
       \/ fedTotal = 0 /\ m2 \in alive \ tamed /\ saddles[p2] >= Saddles

=============================================================================
