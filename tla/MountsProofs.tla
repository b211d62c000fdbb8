---------------------------- MODULE MountsProofs ----------------------------
(* Proofs about Mounts, for any finite sets of players and mammoths, any    *)
(* boats and any numbers of saddles and of fruit that a birth takes.        *)
EXTENDS Mounts, SumTheorems

\* Every step keeps the variables in their types.
LEMMA TypeStep ==
    ASSUME MountsTypeOK, MountsNext
    PROVE  MountsTypeOK'
  <1> USE DEF MountsTypeOK
  <1>1. ASSUME NEW p \in Riders, Join(p) \/ Leave(p) \/ GetFruit(p)
        PROVE  MountsTypeOK'
    BY <1>1, MountsBounds
    DEF Join, Leave, GetFruit, herdVars, boats, ticks, counts
  <1>2. ASSUME NEW p \in Riders, TamePaid(p) \/ TameRollback(p) \/ UnsaddleTake(p)
        PROVE  MountsTypeOK'
    BY <1>2, MountsBounds
    DEF TamePaid, TameRollback, UnsaddleTake, herdVars, boats, ticks, counts
  <1>3. ASSUME NEW p \in Riders, Dismount(p) \/ GetOff(p)
        PROVE  MountsTypeOK'
    BY <1>3 DEF Dismount, GetOff, players, boats, ticks, counts
  <1>4. ASSUME NEW p \in Riders, NEW m \in Mammoths, TameWild(p, m) \/ Unsaddle(p, m)
        PROVE  MountsTypeOK'
    BY <1>4 DEF TameWild, Unsaddle, boats, ticks, counts
  <1>5. ASSUME NEW p \in Riders, NEW m \in Mammoths, Feed(p, m)
        PROVE  MountsTypeOK'
    BY <1>5, MountsBounds DEF Feed, boats, ticks
  <1>6. ASSUME NEW p \in Riders, NEW m \in Mammoths, Leash(p, m) \/ Saddle(p, m)
        PROVE  MountsTypeOK'
    BY <1>6 DEF Leash, Saddle, players, boats, ticks, counts
  <1>7. ASSUME NEW p \in Riders, NEW m \in Mammoths, Ride(p, m) \/ Kill(p, m)
        PROVE  MountsTypeOK'
    BY <1>7 DEF Ride, Kill, players, boats, ticks, counts
  <1>8. ASSUME NEW p \in Riders, NEW b \in Boats, PlaceBoat(p, b) \/ EnterBoat(p, b)
        PROVE  MountsTypeOK'
    BY <1>8 DEF PlaceBoat, EnterBoat, players, herdVars, ticks, counts
  <1>9. CASE TickHunger
    <2>1. PICK eaten \in [Riders -> 0..MaxFruit] :
             /\ \A p \in Riders : eaten[p] <= fruit[p]
             /\ fruit' = [p \in Riders |-> fruit[p] - eaten[p]]
      BY <1>9 DEF TickHunger
    <2>2. \A p \in Riders : fruit[p] - eaten[p] \in 0..MaxFruit
      BY <2>1, MountsBounds
    <2>3. fruit' \in [Riders -> 0..MaxFruit] BY <2>1, <2>2
    <2>4. QED BY <1>9, <2>3 DEF TickHunger, herdVars, boats, counts
  <1>10. CASE TickCollect \/ TickMammoths \/ TickBoats
    BY <1>10
    DEF TickCollect, TickMammoths, TickBoats, RiderAfter, LeashAfter,
        players, herdVars, boats, counts
  <1>11. CASE TickBreeding
    <2>1. PICK young \in SUBSET baby : Quiet(young) \/ Birth(young)
      BY <1>11 DEF TickBreeding
    <2>2. CASE Quiet(young)
      BY <1>11, <2>2 DEF TickBreeding, Quiet, players, boats, counts
    <2>3. CASE Birth(young)
      BY <1>11, <2>3 DEF TickBreeding, Birth, Candidates, players, boats
    <2>4. QED BY <2>1, <2>2, <2>3
  <1>12. QED
    BY <1>1, <1>2, <1>3, <1>4, <1>5, <1>6, <1>7, <1>8, <1>9, <1>10, <1>11
    DEF MountsNext, MountsHandler, TickMounts

\* No calf wears a saddle: this is what a rider's mount is grown up by, since
\* handleRideMammoth asks for the saddle only.
GrownSaddled == saddled \cap baby = {}

\* A rider sits on one mammoth, grown up and saddled, and in one boat.
MountInv == MountsTypeOK /\ OneMount /\ GrownSaddled

\* Every step keeps a rider on one mount at most, and mounts grown and saddled.
LEMMA MountStep ==
    ASSUME MountInv, MountsNext
    PROVE  OneMount' /\ GrownSaddled'
  <1> USE NobodyFresh DEF MountInv, MountsTypeOK, OneMount, GrownSaddled
  <1>1. ASSUME UNCHANGED <<saddled, baby, rider, boatRider>>
        PROVE  OneMount' /\ GrownSaddled'
    BY <1>1
  <1>2. ASSUME NEW p \in Riders,
               \/ Join(p) \/ Leave(p) \/ GetFruit(p)
               \/ TamePaid(p) \/ TameRollback(p) \/ UnsaddleTake(p)
               \/ \E m \in Mammoths : TameWild(p, m) \/ Feed(p, m) \/ Leash(p, m)
               \/ \E b \in Boats : PlaceBoat(p, b)
        PROVE  OneMount' /\ GrownSaddled'
    <2>1. UNCHANGED <<saddled, baby, rider, boatRider>>
      BY <1>2
      DEF Join, Leave, GetFruit, TamePaid, TameRollback, UnsaddleTake, TameWild, Feed,
          Leash, PlaceBoat, herdVars, boats
    <2>2. QED BY <1>1, <2>1
  <1>3. ASSUME NEW p \in Riders, Dismount(p)
        PROVE  OneMount' /\ GrownSaddled'
    BY <1>3 DEF Dismount, boats
  <1>4. ASSUME NEW p \in Riders, GetOff(p)
        PROVE  OneMount' /\ GrownSaddled'
    BY <1>4 DEF GetOff
  <1>5. ASSUME NEW p \in Riders, NEW m \in Mammoths, Saddle(p, m) \/ Unsaddle(p, m)
        PROVE  OneMount' /\ GrownSaddled'
    BY <1>5 DEF Saddle, Unsaddle, boats
  <1>6. ASSUME NEW p \in Riders, NEW m \in Mammoths, Ride(p, m)
        PROVE  OneMount' /\ GrownSaddled'
    <2>1. \A n \in Mammoths : rider[n] # p
      BY <1>6 DEF Ride, Ridden
    <2>2. QED BY <1>6, <2>1 DEF Ride, boats
  <1>7. ASSUME NEW p \in Riders, NEW m \in Mammoths, Kill(p, m)
        PROVE  OneMount' /\ GrownSaddled'
    BY <1>7 DEF Kill, boats
  <1>8. ASSUME NEW p \in Riders, NEW b \in Boats, EnterBoat(p, b)
        PROVE  OneMount' /\ GrownSaddled'
    BY <1>8 DEF EnterBoat
  <1>9. CASE TickHunger \/ TickCollect
    BY <1>1, <1>9 DEF TickHunger, TickCollect, herdVars, boats
  <1>10. CASE TickMammoths
    BY <1>10 DEF TickMammoths, RiderAfter, boats
  <1>11. CASE TickBoats
    BY <1>11 DEF TickBoats, herdVars
  <1>12. CASE TickBreeding
    <2>1. PICK young \in SUBSET baby : Quiet(young) \/ Birth(young)
      BY <1>12 DEF TickBreeding
    <2>2. CASE Quiet(young) BY <2>2 DEF Quiet, boats
    <2>3. CASE Birth(young) BY <2>3 DEF Birth, boats
    <2>4. QED BY <2>1, <2>2, <2>3
  <1>13. QED
    BY <1>2, <1>3, <1>4, <1>5, <1>6, <1>7, <1>8, <1>9, <1>10, <1>11, <1>12
    DEF MountsNext, MountsHandler, TickMounts

\* MountInv holds in every reachable state.
THEOREM MountsInvariant == MountsSpec => []MountInv
  <1>1. MountsInit => MountInv
    BY NobodyFresh, WildBorn, MountsBounds
    DEF MountsInit, MountInv, MountsTypeOK, OneMount, GrownSaddled
  <1>2. MountInv /\ [MountsNext]_mountVars => MountInv'
    <2> SUFFICES ASSUME MountInv, [MountsNext]_mountVars PROVE MountInv' OBVIOUS
    <2>1. CASE MountsNext BY <2>1, TypeStep, MountStep DEF MountInv
    <2>2. CASE UNCHANGED mountVars
      BY <2>2 DEF mountVars, MountInv, MountsTypeOK, OneMount, GrownSaddled
    <2>3. QED BY <2>1, <2>2
  <1>3. QED BY <1>1, <1>2, PTL DEF MountsSpec

\* Nobody rides two mammoths or two boats, nor a mammoth that is a calf or has
\* no saddle (handleRideMammoth, handleEnterBoat, handleSaddleMammoth).
THEOREM MountsOneEach == MountsSpec => []OneMount
  <1>1. MountInv => OneMount BY DEF MountInv
  <1>2. QED BY <1>1, MountsInvariant, PTL

-----------------------------------------------------------------------------
(* The ledgers of saddles and of fruit *)

\* The handlers that have taken a saddle off and not yet stowed it.
Carrying == {p \in Riders : task[p][1] = "saddle"}

\* The counts of SaddlesConserved are counts.
LEMMA SaddleCounts ==
    ASSUME MountsTypeOK
    PROVE  /\ saddles \in [Riders -> Int] /\ fed \in [Mammoths -> Int]
           /\ SumFunctionOnSet(saddles, Riders) \in Int
           /\ SumFunctionOnSet(fed, Mammoths) \in Int
           /\ IsFiniteSet(saddled) /\ Cardinality(saddled) \in Nat
           /\ IsFiniteSet(Carrying) /\ Cardinality(Carrying) \in Nat
           /\ IsFiniteSet(online \cup gone) /\ Cardinality(online \cup gone) \in Nat
  <1>1. saddles \in [Riders -> Int] /\ fed \in [Mammoths -> Int] BY DEF MountsTypeOK
  <1>2. /\ saddled \in SUBSET Mammoths /\ Carrying \in SUBSET Riders
        /\ online \cup gone \in SUBSET Riders
    BY DEF MountsTypeOK, Carrying
  <1>3. IsFiniteSet(saddled) /\ IsFiniteSet(Carrying) /\ IsFiniteSet(online \cup gone)
    BY <1>2, FiniteWorld, FS_Subset
  <1>4. QED BY <1>1, <1>3, FiniteWorld, SumType, FS_CardinalityType

\* The sum and the two counts of SaddlesConserved, and its bound.
SaddleSum == SumFunctionOnSet(saddles, Riders)
Known == Cardinality(online \cup gone)

\* A step that changes none of the counts, or lowers those on mammoths.
LEMMA SaddlesKept ==
    ASSUME MountsTypeOK, SaddlesConserved,
           SaddleSum' \in Int, Cardinality(saddled') \in Nat, Cardinality(Carrying') \in Nat,
           SaddleSum' + Cardinality(saddled') + Cardinality(Carrying')
             <= SaddleSum + Cardinality(saddled) + Cardinality(Carrying),
           online' \cup gone' = online \cup gone
    PROVE  SaddlesConserved'
  <1>1. Saddles * Cardinality(online \cup gone) \in Int
    BY SaddleCounts, MountsBounds
  <1>2. /\ SaddleSum \in Int /\ Cardinality(saddled) \in Nat /\ Cardinality(Carrying) \in Nat
    BY SaddleCounts DEF SaddleSum
  <1>3. SaddleSum + Cardinality(saddled) + Cardinality(Carrying)
          <= Saddles * Cardinality(online \cup gone)
    BY DEF SaddlesConserved, SaddleSum, Carrying
  <1>4. SaddleSum' + Cardinality(saddled') + Cardinality(Carrying')
          <= Saddles * Cardinality(online \cup gone)
    BY <1>1, <1>2, <1>3
  <1>5. QED BY <1>4 DEF SaddlesConserved, SaddleSum, Carrying

\* addItem and consumeItem on one inventory change the sum of all by as much.
LEMMA SaddlesMoved ==
    ASSUME MountsTypeOK, NEW p \in Riders, NEW v \in Int, saddles' = [saddles EXCEPT ![p] = v]
    PROVE  SaddleSum' = SaddleSum + (v - saddles[p])
  <1>1. saddles \in [Riders -> Int] BY SaddleCounts
  <1>2. IsFiniteSet(Riders) BY FiniteWorld
  <1>3. SumFunctionOnSet([saddles EXCEPT ![p] = v], Riders)
          = SumFunctionOnSet(saddles, Riders) + (v - saddles[p])
    BY <1>1, <1>2, SumUpdate
  <1>4. SaddleSum' = SumFunctionOnSet([saddles EXCEPT ![p] = v], Riders) BY DEF SaddleSum
  <1>5. QED BY <1>3, <1>4 DEF SaddleSum

\* Every step keeps the ledger of saddles.
LEMMA SaddlesStep ==
    ASSUME MountsTypeOK, SaddlesConserved, MountsNext
    PROVE  SaddlesConserved'
  <1>1. MountsTypeOK' BY TypeStep
  <1>2. /\ SaddleSum \in Int /\ Cardinality(saddled) \in Nat /\ Cardinality(Carrying) \in Nat
        /\ IsFiniteSet(saddled) /\ IsFiniteSet(Carrying) /\ saddles \in [Riders -> Nat]
    BY SaddleCounts DEF SaddleSum, MountsTypeOK
  <1>3. ASSUME UNCHANGED <<saddles, Carrying, saddled>>, online' \cup gone' = online \cup gone
        PROVE  SaddlesConserved'
    BY <1>2, <1>3, SaddlesKept DEF SaddleSum
  <1>4. ASSUME NEW p \in Riders, Join(p)
        PROVE  SaddlesConserved'
    <2>1. SaddleSum' = SaddleSum + (Saddles - saddles[p])
      <3>1. saddles' = [saddles EXCEPT ![p] = Saddles] BY <1>4 DEF Join
      <3>2. Saddles \in Int BY MountsBounds
      <3>3. QED BY <3>1, <3>2, SaddlesMoved
    <2>2. Cardinality(online' \cup gone') = Cardinality(online \cup gone) + 1
      <3>1. online' \cup gone' = (online \cup gone) \cup {p} BY <1>4 DEF Join
      <3>2. p \notin online \cup gone BY <1>4 DEF Join
      <3>3. IsFiniteSet(online \cup gone) BY SaddleCounts
      <3>4. QED BY <3>1, <3>2, <3>3, FS_AddElement
    <2>3. Saddles * (Known + 1) = Saddles * Known + Saddles /\ Saddles * Known \in Int
      <3>1. Known \in Nat BY SaddleCounts DEF Known
      <3>2. QED BY <3>1, MountsBounds
    <2>4. saddled' = saddled /\ Carrying' = Carrying BY <1>4 DEF Join, herdVars, Carrying
    <2>5. SaddleSum + Cardinality(saddled) + Cardinality(Carrying) <= Saddles * Known
      BY DEF SaddlesConserved, SaddleSum, Carrying, Known
    <2>6. saddles[p] \in Nat /\ Saddles \in Nat BY MountsBounds DEF MountsTypeOK
    <2>7. SaddleSum' + Cardinality(saddled) + Cardinality(Carrying) <= Saddles * (Known + 1)
      BY <1>2, <2>1, <2>3, <2>5, <2>6
    <2>8. QED BY <2>2, <2>4, <2>7 DEF SaddlesConserved, SaddleSum, Carrying, Known
  <1>5. ASSUME NEW p \in Riders, Leave(p) \/ GetFruit(p) \/ TamePaid(p) \/ TameRollback(p)
        PROVE  SaddlesConserved'
    <2>1. Carrying' = Carrying
      BY <1>5 DEF Leave, GetFruit, TamePaid, TameRollback, Carrying, MountsTypeOK, NoTask
    <2>2. UNCHANGED <<saddles, saddled>> /\ online' \cup gone' = online \cup gone
      BY <1>5 DEF Leave, GetFruit, TamePaid, TameRollback, herdVars, MountsTypeOK
    <2>3. QED BY <1>3, <2>1, <2>2
  <1>6. ASSUME NEW p \in Riders, UnsaddleTake(p)
        PROVE  SaddlesConserved'
    <2>1. SaddleSum' = SaddleSum + 1
      <3>1. saddles' = [saddles EXCEPT ![p] = saddles[p] + 1] /\ saddles[p] + 1 \in Int
        BY <1>2, <1>6 DEF UnsaddleTake
      <3>2. SaddleSum' = SaddleSum + ((saddles[p] + 1) - saddles[p])
        BY <3>1, SaddlesMoved
      <3>3. QED BY <1>2, <3>2
    <2>2. Cardinality(Carrying') = Cardinality(Carrying) - 1 /\ Cardinality(Carrying') \in Nat
      <3>1. p \in Carrying /\ Carrying' = Carrying \ {p}
        BY <1>6 DEF UnsaddleTake, Carrying, MountsTypeOK, NoTask
      <3>2. IsFiniteSet(Carrying \ {p}) /\ Cardinality(Carrying \ {p}) = Cardinality(Carrying) - 1
        BY <1>2, <3>1, FS_RemoveElement
      <3>3. QED BY <3>1, <3>2, FS_CardinalityType
    <2>3. saddled' = saddled /\ online' \cup gone' = online \cup gone
      BY <1>6 DEF UnsaddleTake, herdVars
    <2>4. SaddleSum' \in Int /\ Cardinality(saddled') \in Nat BY <1>2, <2>1, <2>3
    <2>5. SaddleSum' + Cardinality(saddled') + Cardinality(Carrying')
            <= SaddleSum + Cardinality(saddled) + Cardinality(Carrying)
      BY <1>2, <2>1, <2>2, <2>3
    <2>6. QED BY <2>2, <2>3, <2>4, <2>5, SaddlesKept
  <1>7. ASSUME NEW p \in Riders, NEW m \in Mammoths, Saddle(p, m)
        PROVE  SaddlesConserved'
    <2>1. SaddleSum' = SaddleSum - 1
      <3>1. saddles' = [saddles EXCEPT ![p] = saddles[p] - 1] /\ saddles[p] - 1 \in Int
        BY <1>2, <1>7 DEF Saddle
      <3>2. SaddleSum' = SaddleSum + ((saddles[p] - 1) - saddles[p])
        BY <3>1, SaddlesMoved
      <3>3. QED BY <1>2, <3>2
    <2>2. Cardinality(saddled') = Cardinality(saddled) + 1
      <3>1. m \notin saddled /\ saddled' = saddled \cup {m} BY <1>7 DEF Saddle
      <3>2. QED BY <1>2, <3>1, FS_AddElement
    <2>3. Carrying' = Carrying /\ online' \cup gone' = online \cup gone
      BY <1>7 DEF Saddle, Carrying
    <2>4. SaddleSum' \in Int /\ Cardinality(saddled') \in Nat /\ Cardinality(Carrying') \in Nat
      BY <1>2, <2>1, <2>2, <2>3
    <2>5. SaddleSum' + Cardinality(saddled') + Cardinality(Carrying')
            <= SaddleSum + Cardinality(saddled) + Cardinality(Carrying)
      BY <1>2, <2>1, <2>2, <2>3
    <2>6. QED BY <2>3, <2>4, <2>5, SaddlesKept
  <1>8. ASSUME NEW p \in Riders, NEW m \in Mammoths, Unsaddle(p, m)
        PROVE  SaddlesConserved'
    <2>1. SaddleSum' = SaddleSum /\ online' \cup gone' = online \cup gone
      BY <1>8 DEF Unsaddle, SaddleSum
    <2>2. Cardinality(saddled') = Cardinality(saddled) - 1 /\ Cardinality(saddled') \in Nat
      <3>1. m \in saddled /\ saddled' = saddled \ {m} BY <1>8 DEF Unsaddle
      <3>2. IsFiniteSet(saddled \ {m}) /\ Cardinality(saddled \ {m}) = Cardinality(saddled) - 1
        BY <1>2, <3>1, FS_RemoveElement
      <3>3. QED BY <3>1, <3>2, FS_CardinalityType
    <2>3. Cardinality(Carrying') = Cardinality(Carrying) + 1
      <3>1. p \notin Carrying /\ Carrying' = Carrying \cup {p}
        BY <1>8 DEF Unsaddle, CanBegin, Carrying, MountsTypeOK, NoTask
      <3>2. QED BY <1>2, <3>1, FS_AddElement
    <2>4. SaddleSum' \in Int /\ Cardinality(Carrying') \in Nat BY <1>2, <2>1, <2>3
    <2>5. SaddleSum' + Cardinality(saddled') + Cardinality(Carrying')
            <= SaddleSum + Cardinality(saddled) + Cardinality(Carrying)
      BY <1>2, <2>1, <2>2, <2>3
    <2>6. QED BY <2>1, <2>2, <2>4, <2>5, SaddlesKept
  <1>9. ASSUME NEW p \in Riders, NEW m \in Mammoths, Kill(p, m)
        PROVE  SaddlesConserved'
    <2>1. SaddleSum' = SaddleSum /\ Carrying' = Carrying /\ online' \cup gone' = online \cup gone
      BY <1>9 DEF Kill, players, SaddleSum, Carrying
    <2>2. saddled' \subseteq saddled BY <1>9 DEF Kill
    <2>3. Cardinality(saddled') <= Cardinality(saddled) /\ Cardinality(saddled') \in Nat
      BY <1>2, <2>2, FS_Subset, FS_CardinalityType
    <2>4. SaddleSum' \in Int /\ Cardinality(Carrying') \in Nat BY <1>2, <2>1
    <2>5. SaddleSum' + Cardinality(saddled') + Cardinality(Carrying')
            <= SaddleSum + Cardinality(saddled) + Cardinality(Carrying)
      BY <1>2, <2>1, <2>3
    <2>6. QED BY <2>1, <2>3, <2>4, <2>5, SaddlesKept
  <1>10. ASSUME NEW p \in Riders,
                NEW m \in Mammoths, TameWild(p, m) \/ Feed(p, m) \/ Leash(p, m) \/ Ride(p, m)
         PROVE  SaddlesConserved'
    <2>1. Carrying' = Carrying
      BY <1>10 DEF TameWild, Feed, Leash, Ride, players, CanBegin, Carrying, MountsTypeOK, NoTask
    <2>2. UNCHANGED <<saddles, saddled>> /\ online' \cup gone' = online \cup gone
      BY <1>10 DEF TameWild, Feed, Leash, Ride, players
    <2>3. QED BY <1>3, <2>1, <2>2
  <1>11. ASSUME NEW p \in Riders,
                Dismount(p) \/ GetOff(p) \/ \E b \in Boats : PlaceBoat(p, b) \/ EnterBoat(p, b)
         PROVE  SaddlesConserved'
    BY <1>3, <1>11 DEF Dismount, GetOff, PlaceBoat, EnterBoat, players, herdVars, Carrying
  <1>12. CASE TickMounts
    <2>1. CASE TickHunger \/ TickCollect \/ TickMammoths \/ TickBoats
      BY <1>3, <2>1 DEF TickHunger, TickCollect, TickMammoths, TickBoats, players, herdVars, Carrying
    <2>2. CASE TickBreeding
      <3>1. PICK young \in SUBSET baby : Quiet(young) \/ Birth(young)
        BY <2>2 DEF TickBreeding
      <3>2. QED BY <1>3, <3>1 DEF Quiet, Birth, players, Carrying
    <2>3. QED BY <1>12, <2>1, <2>2 DEF TickMounts
  <1>13. QED
    BY <1>4, <1>5, <1>6, <1>7, <1>8, <1>9, <1>10, <1>11, <1>12 DEF MountsNext, MountsHandler

\* Saddles move between inventories, mammoths and the hands of a handler, and no
\* interleaving of handleSaddleMammoth with the others makes one more.
THEOREM SaddlesAccounted == MountsSpec => []SaddlesConserved
  <1>1. MountsInit => SaddlesConserved
    <2> SUFFICES ASSUME MountsInit PROVE SaddlesConserved OBVIOUS
    <2>1. SumFunctionOnSet(saddles, Riders) = 0
      <3>1. saddles \in [Riders -> Int] /\ \A p \in Riders : saddles[p] = 0 BY DEF MountsInit
      <3>2. QED BY <3>1, FiniteWorld, SumZero
    <2>2. saddled = {} /\ Carrying = {} /\ online \cup gone = {}
      BY DEF MountsInit, Carrying, NoTask
    <2>3. Cardinality({}) = 0 BY FS_EmptySet
    <2>4. Saddles * 0 = 0 /\ 0 + 0 + 0 <= 0 BY MountsBounds
    <2>5. {p \in Riders : task[p][1] = "saddle"} = {} BY <2>2 DEF Carrying
    <2>6. SaddlesConserved <=> 0 + 0 + 0 <= Saddles * 0
      BY <2>1, <2>2, <2>3, <2>5, Zenon DEF SaddlesConserved
    <2>7. QED BY <2>4, <2>6
  <1>2. ASSUME MountInv, SaddlesConserved, [MountsNext]_mountVars
        PROVE  SaddlesConserved'
    <2>1. CASE MountsNext BY <1>2, <2>1, SaddlesStep DEF MountInv
    <2>2. CASE UNCHANGED mountVars BY <1>2, <2>2 DEF mountVars, SaddlesConserved
    <2>3. QED BY <1>2, <2>1, <2>2
  <1>3. QED BY <1>1, <1>2, MountsInvariant, PTL DEF MountsSpec

\* What the tamed mammoths have been fed and not yet used up by breeding.
FedSum == SumFunctionOnSet(fed, Mammoths)

\* Feeding a mammoth and resetting its count change the sum by as much.
LEMMA FedMoved ==
    ASSUME NEW f \in [Mammoths -> Int], NEW m \in Mammoths, NEW v \in Int
    PROVE  SumFunctionOnSet([f EXCEPT ![m] = v], Mammoths)
             = SumFunctionOnSet(f, Mammoths) + (v - f[m])
  BY FiniteWorld, SumUpdate

\* Every step keeps the ledger of births.
LEMMA BirthsStep ==
    ASSUME MountsTypeOK, BirthsPaid, MountsNext
    PROVE  BirthsPaid'
  <1>1. /\ fed \in [Mammoths -> Nat] /\ fed \in [Mammoths -> Int]
        /\ FedSum \in Int /\ births \in Nat /\ fedTotal \in Nat /\ 0 \in Int
    BY SaddleCounts DEF MountsTypeOK, FedSum
  <1>2. MinFed \in Nat /\ 2 * MinFed * births \in Nat /\ 2 * MinFed * births + FedSum <= fedTotal
    BY <1>1, MountsBounds DEF BirthsPaid, FedSum
  <1>3. ASSUME UNCHANGED <<fed, fedTotal, births>> PROVE BirthsPaid'
    BY <1>3 DEF BirthsPaid
  <1>4. ASSUME NEW p \in Riders, NEW m \in Mammoths, Feed(p, m)
        PROVE  BirthsPaid'
    <2>1. fed' = [fed EXCEPT ![m] = fed[m] + 1] /\ fed[m] + 1 \in Int
      BY <1>1, <1>4 DEF Feed
    <2>2. SumFunctionOnSet([fed EXCEPT ![m] = fed[m] + 1], Mammoths)
            = SumFunctionOnSet(fed, Mammoths) + ((fed[m] + 1) - fed[m])
      BY <1>1, <2>1, FedMoved
    <2>3. FedSum' = FedSum + ((fed[m] + 1) - fed[m]) BY <2>1, <2>2 DEF FedSum
    <2>4. fedTotal' = fedTotal + 1 /\ births' = births BY <1>4 DEF Feed
    <2>5. 2 * MinFed * births + FedSum' <= fedTotal' BY <1>1, <1>2, <2>3, <2>4
    <2>6. QED BY <2>4, <2>5 DEF BirthsPaid, FedSum
  <1>5. ASSUME NEW p \in Riders, NEW m \in Mammoths, Kill(p, m)
        PROVE  BirthsPaid'
    <2>1. SumFunctionOnSet([fed EXCEPT ![m] = 0], Mammoths)
            = SumFunctionOnSet(fed, Mammoths) + (0 - fed[m])
      BY <1>1, FedMoved
    <2>2. FedSum' = FedSum + (0 - fed[m]) BY <1>5, <2>1 DEF Kill, FedSum
    <2>3. fedTotal' = fedTotal /\ births' = births BY <1>5 DEF Kill, counts
    <2>4. 2 * MinFed * births + FedSum' <= fedTotal BY <1>1, <1>2, <2>2
    <2>5. QED BY <2>3, <2>4 DEF BirthsPaid, FedSum
  <1>6. ASSUME NEW young \in SUBSET baby, Birth(young)
        PROVE  BirthsPaid'
    <2>1. PICK male \in Candidates(young) \cap Males, female \in Candidates(young) \ Males :
            fed' = [fed EXCEPT ![male] = 0, ![female] = 0]
      BY <1>6 DEF Birth
    <2>2. /\ male \in Mammoths /\ female \in Mammoths /\ male # female
          /\ fed[male] >= MinFed /\ fed[female] >= MinFed
      BY <2>1 DEF Candidates, MountsTypeOK
    <2> DEFINE half == [fed EXCEPT ![male] = 0]
    <2>3. half \in [Mammoths -> Int] /\ half[female] = fed[female] /\ 0 \in Int BY <1>1, <2>2
    <2>4. fed' = [half EXCEPT ![female] = 0] BY <2>1
    <2>5. SumFunctionOnSet([fed EXCEPT ![male] = 0], Mammoths)
            = SumFunctionOnSet(fed, Mammoths) + (0 - fed[male])
      BY <1>1, <2>2, FedMoved
    <2>6. SumFunctionOnSet(half, Mammoths) = FedSum + (0 - fed[male]) BY <2>5 DEF FedSum
    <2> HIDE DEF half
    <2>7. SumFunctionOnSet([half EXCEPT ![female] = 0], Mammoths)
            = SumFunctionOnSet(half, Mammoths) + (0 - half[female])
      BY <2>2, <2>3, FedMoved
    <2>8. FedSum' = (FedSum + (0 - fed[male])) + (0 - fed[female])
      BY <2>3, <2>4, <2>6, <2>7 DEF FedSum
    <2>9. FedSum' + MinFed + MinFed <= FedSum BY <1>1, <1>2, <2>2, <2>8
    <2>10. fedTotal' = fedTotal /\ births' = births + 1 BY <1>6 DEF Birth
    <2>11. 2 * MinFed * (births + 1) = 2 * MinFed * births + MinFed + MinFed
      BY <1>1, <1>2
    <2>12. FedSum' \in Int BY <1>1, <2>2, <2>8
    <2>13. 2 * MinFed * (births + 1) + FedSum' <= fedTotal
      <3>1. \A a, s, t, n, f \in Int : a + s <= f /\ t + n + n <= s => a + n + n + t <= f
        OBVIOUS
      <3> DEFINE paid == 2 * MinFed * births
      <3>2. paid \in Int /\ fedTotal \in Int /\ MinFed \in Int BY <1>1, <1>2
      <3>3. paid + FedSum <= fedTotal BY <1>2
      <3> HIDE DEF paid
      <3>4. paid + MinFed + MinFed + FedSum' <= fedTotal
        BY <1>1, <2>9, <2>12, <3>1, <3>2, <3>3
      <3>5. QED BY <2>11, <3>4 DEF paid
    <2>14. QED BY <2>10, <2>13 DEF BirthsPaid, FedSum
  <1>7. ASSUME NEW p \in Riders,
               Join(p) \/ Leave(p) \/ GetFruit(p) \/ TamePaid(p) \/ TameRollback(p)
                 \/ UnsaddleTake(p) \/ Dismount(p) \/ GetOff(p)
                 \/ \E b \in Boats : PlaceBoat(p, b) \/ EnterBoat(p, b)
        PROVE  BirthsPaid'
    BY <1>3, <1>7 DEF Join, Leave, GetFruit, TamePaid, TameRollback, UnsaddleTake,
                      Dismount, GetOff, PlaceBoat, EnterBoat, herdVars, counts
  <1>8. ASSUME NEW p \in Riders, NEW m \in Mammoths,
               TameWild(p, m) \/ Leash(p, m) \/ Saddle(p, m) \/ Unsaddle(p, m) \/ Ride(p, m)
        PROVE  BirthsPaid'
    BY <1>3, <1>8 DEF TameWild, Leash, Saddle, Unsaddle, Ride, counts
  <1>9. CASE TickMounts
    <2>1. CASE TickHunger \/ TickCollect \/ TickMammoths \/ TickBoats
      BY <1>3, <2>1 DEF TickHunger, TickCollect, TickMammoths, TickBoats, herdVars, counts
    <2>2. CASE TickBreeding
      <3>1. PICK young \in SUBSET baby : Quiet(young) \/ Birth(young)
        BY <2>2 DEF TickBreeding
      <3>2. CASE Quiet(young) BY <1>3, <3>2 DEF Quiet, counts
      <3>3. QED BY <1>6, <3>1, <3>2
    <2>3. QED BY <1>9, <2>1, <2>2 DEF TickMounts
  <1>10. QED BY <1>4, <1>5, <1>7, <1>8, <1>9 DEF MountsNext, MountsHandler

\* Every mammoth born has cost two parents breedingMinFed fruit each: a killed or
\* twice chosen parent pays for no second birth (birthMammoth).
THEOREM BirthsAccounted == MountsSpec => []BirthsPaid
  <1>1. MountsInit => BirthsPaid
    <2> SUFFICES ASSUME MountsInit PROVE BirthsPaid OBVIOUS
    <2>1. FedSum = 0
      <3>1. fed \in [Mammoths -> Int] /\ \A m \in Mammoths : fed[m] = 0 BY DEF MountsInit
      <3>2. QED BY <3>1, FiniteWorld, SumZero DEF FedSum
    <2>2. 2 * MinFed * births = 0 /\ fedTotal = 0 BY MountsBounds DEF MountsInit
    <2>3. 2 * MinFed * births + FedSum <= fedTotal BY <2>1, <2>2
    <2>4. QED BY <2>3 DEF BirthsPaid, FedSum
  <1>2. ASSUME MountInv, BirthsPaid, [MountsNext]_mountVars
        PROVE  BirthsPaid'
    <2>1. CASE MountsNext BY <1>2, <2>1, BirthsStep DEF MountInv
    <2>2. CASE UNCHANGED mountVars BY <1>2, <2>2 DEF mountVars, BirthsPaid
    <2>3. QED BY <1>2, <2>1, <2>2
  <1>3. QED BY <1>1, <1>2, MountsInvariant, PTL DEF MountsSpec

-----------------------------------------------------------------------------
(* Players who have left *)

\* A player who has left gets hold of no mount and no leash any more; a tick
\* that did not see him takes him off every mammoth and takes his leash from
\* those that nobody rides, and tickBoats takes him out of his boat.
DepartedLoses ==
    [][/\ \A p \in gone : /\ \A m \in Mammoths : rider'[m] = p => rider[m] = p
                          /\ \A m \in Mammoths : leash'[m] = p => leash[m] = p
                          /\ \A b \in Boats : boatRider'[b] = p => boatRider[b] = p
       /\ phase = "mammoths" /\ phase' = "boats" =>
            \A p \in Riders \ seen, m \in Mammoths :
                rider'[m] # p /\ (leash'[m] = p => rider[m] # Nobody)
       /\ phase = "boats" /\ phase' = "breeding" =>
            \A p \in gone, b \in Boats : boatRider'[b] # p]_mountVars

\* Who has left is not online.
GoneOffline == online \cap gone = {}

\* A step of which the tick is no part, by a player who is online.
LEMMA HandlerHolds ==
    ASSUME MountsTypeOK, NEW p \in Riders, Join(p) \/ Leave(p) \/ GetFruit(p) \/ MountsHandler(p)
    PROVE  /\ phase' = phase
           /\ \A q \in Riders : q # p \/ p \notin online =>
                /\ \A m \in Mammoths : rider'[m] = q => rider[m] = q
                /\ \A m \in Mammoths : leash'[m] = q => leash[m] = q
                /\ \A b \in Boats : boatRider'[b] = q => boatRider[b] = q
  <1> USE NobodyFresh DEF MountsTypeOK
  <1>1. UNCHANGED phase
    BY DEF Join, Leave, GetFruit, MountsHandler, TamePaid, TameRollback, UnsaddleTake, Dismount, GetOff,
           TameWild, Feed, Leash, Saddle, Unsaddle, Ride, Kill, PlaceBoat, EnterBoat, ticks
  <1> DEFINE Holds == \A q \in Riders : q # p \/ p \notin online =>
                        /\ \A m \in Mammoths : rider'[m] = q => rider[m] = q
                        /\ \A m \in Mammoths : leash'[m] = q => leash[m] = q
                        /\ \A b \in Boats : boatRider'[b] = q => boatRider[b] = q
  <1>2. UNCHANGED <<rider, leash, boatRider>> => Holds OBVIOUS
  <1>3. ASSUME \/ Join(p) \/ Leave(p) \/ GetFruit(p)
               \/ TamePaid(p) \/ TameRollback(p) \/ UnsaddleTake(p)
               \/ \E m \in Mammoths : TameWild(p, m) \/ Feed(p, m) \/ Saddle(p, m) \/ Unsaddle(p, m)
               \/ \E b \in Boats : PlaceBoat(p, b)
        PROVE  Holds
    <2>1. UNCHANGED <<rider, leash, boatRider>>
      BY <1>3 DEF Join, Leave, GetFruit, TamePaid, TameRollback, UnsaddleTake, TameWild, Feed,
                  Saddle, Unsaddle, PlaceBoat, herdVars, boats
    <2>2. QED BY <1>2, <2>1
  <1>4. ASSUME Dismount(p) PROVE Holds BY <1>4 DEF Dismount, boats
  <1>5. ASSUME GetOff(p) PROVE Holds BY <1>5 DEF GetOff
  <1>6. ASSUME NEW m \in Mammoths, Leash(p, m) PROVE Holds BY <1>6 DEF Leash, CanBegin, boats
  <1>7. ASSUME NEW m \in Mammoths, Ride(p, m) PROVE Holds BY <1>7 DEF Ride, CanBegin, boats
  <1>8. ASSUME NEW m \in Mammoths, Kill(p, m) PROVE Holds BY <1>8 DEF Kill, boats
  <1>9. ASSUME NEW b \in Boats, EnterBoat(p, b) PROVE Holds BY <1>9 DEF EnterBoat, CanBegin
  <1> HIDE DEF Holds
  <1>10. Holds BY <1>3, <1>4, <1>5, <1>6, <1>7, <1>8, <1>9 DEF MountsHandler
  <1>11. QED BY <1>1, <1>10 DEF Holds

\* Who has left loses his mounts and his leashes and gets none back, however his
\* leaving falls between the phases of a tick (collectNearPlayers, tickMammoths,
\* tickBoats): the safety half of DepartedForgotten.
THEOREM DepartedLose == MountsSpec => DepartedLoses
  <1> DEFINE Holds == \A p \in gone : /\ \A m \in Mammoths : rider'[m] = p => rider[m] = p
                                      /\ \A m \in Mammoths : leash'[m] = p => leash[m] = p
                                      /\ \A b \in Boats : boatRider'[b] = p => boatRider[b] = p
             Cleared == phase = "mammoths" /\ phase' = "boats" =>
                          \A p \in Riders \ seen, m \in Mammoths :
                              rider'[m] # p /\ (leash'[m] = p => rider[m] # Nobody)
             Ashore == phase = "boats" /\ phase' = "breeding" =>
                          \A p \in gone, b \in Boats : boatRider'[b] # p
  <1>1. MountsInit => GoneOffline BY DEF MountsInit, GoneOffline
  <1>2. MountInv /\ GoneOffline /\ [MountsNext]_mountVars => GoneOffline'
    <2> SUFFICES ASSUME GoneOffline, [MountsNext]_mountVars PROVE GoneOffline' OBVIOUS
    <2>1. ASSUME NEW p \in Riders, Join(p) \/ Leave(p) PROVE GoneOffline'
      BY <2>1 DEF Join, Leave, GoneOffline
    <2>2. ASSUME NEW p \in Riders, GetFruit(p) \/ MountsHandler(p) PROVE UNCHANGED <<online, gone>>
      BY <2>2 DEF GetFruit, MountsHandler, TamePaid, TameRollback, UnsaddleTake, Dismount, GetOff,
           TameWild, Feed, Leash, Saddle, Unsaddle, Ride, Kill, PlaceBoat, EnterBoat, players
    <2>3. ASSUME TickMounts PROVE UNCHANGED <<online, gone>>
      BY <2>3 DEF TickMounts, TickHunger, TickCollect, TickMammoths, TickBoats, TickBreeding,
           Quiet, Birth, players
    <2>4. CASE UNCHANGED mountVars BY <2>4 DEF mountVars, GoneOffline
    <2>5. QED BY <2>1, <2>2, <2>3, <2>4 DEF MountsNext, GoneOffline
  <1>3. ASSUME MountInv, GoneOffline, [MountsNext]_mountVars PROVE Holds /\ Cleared /\ Ashore
    <2>0. MountsTypeOK /\ gone \subseteq Riders /\ Nobody \notin Riders
      BY <1>3, NobodyFresh DEF MountInv, MountsTypeOK
    <2>1. ASSUME NEW p \in Riders, Join(p) \/ Leave(p) \/ GetFruit(p) \/ MountsHandler(p)
          PROVE  Holds /\ Cleared /\ Ashore
      BY <1>3, <2>0, <2>1, HandlerHolds DEF GoneOffline
    <2>2. CASE TickHunger \/ TickCollect \/ TickBreeding
      <3>1. UNCHANGED <<rider, leash, boatRider>>
        BY <2>2 DEF TickHunger, TickCollect, TickBreeding, Quiet, Birth, herdVars, boats
      <3>2. phase \notin {"mammoths", "boats"} BY <2>2 DEF TickHunger, TickCollect, TickBreeding
      <3>3. QED BY <3>1, <3>2
    <2>3. CASE TickMammoths
      <3>1. /\ phase = "mammoths" /\ boatRider' = boatRider
            /\ rider' = [m \in Mammoths |-> RiderAfter(m)]
            /\ leash' = [m \in Mammoths |-> LeashAfter(m)]
        BY <2>3 DEF TickMammoths, boats
      <3>2. Holds BY <2>0, <3>1 DEF RiderAfter, LeashAfter
      <3>3. Cleared BY <2>0, <3>1 DEF RiderAfter, LeashAfter
      <3>4. QED BY <3>1, <3>2, <3>3
    <2>4. CASE TickBoats
      <3>1. /\ phase = "boats" /\ rider' = rider /\ leash' = leash
            /\ boatRider' = [b \in Boats |-> IF boatRider[b] \in online THEN boatRider[b] ELSE Nobody]
        BY <2>4 DEF TickBoats, herdVars
      <3>2. Holds BY <2>0, <3>1
      <3>3. Ashore BY <1>3, <2>0, <3>1 DEF GoneOffline
      <3>4. QED BY <3>1, <3>2, <3>3
    <2>5. CASE UNCHANGED mountVars BY <2>5 DEF mountVars
    <2>6. QED BY <1>3, <2>1, <2>2, <2>3, <2>4, <2>5 DEF MountsNext, TickMounts
  <1>4. MountInv /\ GoneOffline /\ [MountsNext]_mountVars => [Holds /\ Cleared /\ Ashore]_mountVars BY <1>3
  <1>5. QED BY <1>1, <1>2, <1>4, MountsInvariant, PTL DEF MountsSpec, DepartedLoses

=============================================================================
