------------------------------- MODULE MCWorks -------------------------------
(* The factories (MCEnergy) and the herd (MCMounts) for TLC.  They share no *)
(* variable, so a behaviour follows one of them while the other has not     *)
(* begun.                                                                   *)
EXTENDS MCEnergy, MCMounts

VARIABLE part   \* which of the two moves

WorksInit == Init /\ MountsInit /\ part \in {"factories", "herd"}

WorksNext ==
    \/ part = "factories" /\ Next /\ UNCHANGED <<mountVars, part>>
    \/ part = "herd" /\ MountsNext /\ UNCHANGED <<vars, part>>

\* The fairness of FairSpec and MountsFairSpec, each for its part.
WorksSpec ==
    /\ WorksInit
    /\ [][WorksNext]_<<vars, mountVars, part>>
    /\ WF_vars(part = "factories" /\ TickHungerEnd)
    /\ WF_vars(part = "factories" /\ (TickPanels \/ TickCharge))
    /\ \A p \in Players : WF_vars(part = "factories" /\ (CraftStep(p) \/ PlaceEnd(p)))
    /\ WF_mountVars(part = "herd" /\ TickMounts)

=============================================================================
