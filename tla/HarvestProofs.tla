---------------------------- MODULE HarvestProofs ----------------------------
(***************************************************************************)
(* Proofs about Harvest, for any finite sets of players and identities, any *)
(* recipes and any times.  The goods of a kind lie in inventories, in bags, *)
(* on the ground and in the hands of handlers that are between two locks;   *)
(* the ledgers say what each action does to the sum of the four.            *)
(***************************************************************************)
EXTENDS Harvest, SumTheorems

\* The stages in which a handler has goods in its hands.
Held == {"add", "plant", "throw"}

\* What a handler that is between two critical sections has in its hands, or
\* what it came to look at.
TodoOK ==
    \A p \in Players :
        /\ todo[p].op = "add" => todo[p].item \in Items
        /\ todo[p].op = "plant" => todo[p].item = "seed"
        /\ todo[p].op = "throw" => todo[p].item = "spear"
        /\ todo[p].op \in {"waterPay", "waterSet"} => todo[p].id \in Ids

PlotInv == TypeOK /\ TodoOK

\* Between two hits of a throw at least Debounce has passed.
HitInv ==
    \A p \in Players : hits[p] > 0 =>
        throwAge[p] = Old \/ (hits[p] - 1) * Debounce + hitAge[p] <= throwAge[p]

-----------------------------------------------------------------------------
(* Identities *)

\* A finite set has subsets of every size up to its own.
LEMMA SubsetOfSize ==
    ASSUME NEW T, IsFiniteSet(T), NEW n \in Nat, n <= Cardinality(T)
    PROVE  \E S \in SUBSET T : Cardinality(S) = n
  <1> DEFINE G == {m \in Nat : m <= Cardinality(T) => \E S \in SUBSET T : Cardinality(S) = m}
  <1>1. 0 \in G
    <2>1. {} \in SUBSET T /\ Cardinality({}) = 0 BY FS_EmptySet
    <2>2. QED BY <2>1
  <1>2. ASSUME NEW m \in Nat, m \in G PROVE m + 1 \in G
    <2> SUFFICES ASSUME m + 1 <= Cardinality(T)
                 PROVE  \E S \in SUBSET T : Cardinality(S) = m + 1
      OBVIOUS
    <2>1. Cardinality(T) \in Nat BY FS_CardinalityType
    <2>2. PICK S \in SUBSET T : Cardinality(S) = m BY <1>2, <2>1
    <2>3. S # T BY <2>1, <2>2
    <2>4. PICK x \in T : x \notin S BY <2>2, <2>3
    <2>5. IsFiniteSet(S) BY <2>2, FS_Subset
    <2>6. Cardinality(S \cup {x}) = m + 1 BY <2>2, <2>4, <2>5, FS_AddElement
    <2>7. S \cup {x} \in SUBSET T BY <2>2, <2>4
    <2>8. QED BY <2>6, <2>7
  <1> HIDE DEF G
  <1>3. n \in G BY <1>1, <1>2, NatSetInduction
  <1>4. QED BY <1>3 DEF G

\* newID gives as many identities as are asked for, and none that is in use.
LEMMA NewIDsFresh ==
    ASSUME NEW n \in Nat, n <= Cardinality(Fresh)
    PROVE  /\ IsFiniteSet(Fresh) /\ NewIDs(n) \subseteq Fresh
           /\ IsFiniteSet(NewIDs(n)) /\ Cardinality(NewIDs(n)) = n
  <1>1. Fresh \in SUBSET Ids BY DEF Fresh
  <1>2. IsFiniteSet(Fresh) BY <1>1, FiniteAssumption, FS_Subset
  <1>3. \E S \in SUBSET Fresh : Cardinality(S) = n BY <1>2, SubsetOfSize
  <1>4. NewIDs(n) \in SUBSET Fresh /\ Cardinality(NewIDs(n)) = n BY <1>3 DEF NewIDs
  <1>5. IsFiniteSet(NewIDs(n)) BY <1>2, <1>4, FS_Subset
  <1>6. QED BY <1>2, <1>4, <1>5

\* One new identity.
LEMMA NewIDFresh ==
    ASSUME Fresh # {}
    PROVE  /\ NewIDs(1) \subseteq Fresh /\ IsFiniteSet(NewIDs(1))
           /\ Cardinality(NewIDs(1)) = 1
  <1>1. Fresh \in SUBSET Ids BY DEF Fresh
  <1>2. IsFiniteSet(Fresh) BY <1>1, FiniteAssumption, FS_Subset
  <1>3. Cardinality(Fresh) \in Nat /\ Cardinality(Fresh) # 0
    BY <1>2, FS_CardinalityType, FS_EmptySet
  <1>4. 1 \in Nat /\ 1 <= Cardinality(Fresh) BY <1>3
  <1>5. QED BY <1>4, NewIDsFresh

\* What is put on fresh identities disturbs nothing that lies on the ground.
LEMMA PutTyped ==
    ASSUME PlotInv, NEW S \in SUBSET Fresh, NEW k \in Items
    PROVE  /\ Put(ground, S, k) \in [Ids -> Items \cup {None}]
           /\ watered \subseteq {g \in Ids : Put(ground, S, k)[g] = "seed"}
  <1>1. \A g \in S : g \in Ids /\ ground[g] = None BY DEF Fresh
  <1>2. \A g \in watered : g \in Ids /\ ground[g] = "seed" BY DEF PlotInv, TypeOK
  <1>3. None # "seed" BY ItemsAssumption
  <1>4. \A g \in watered : g \notin S BY <1>1, <1>2, <1>3
  <1>5. QED BY <1>1, <1>2, <1>4 DEF Put, PlotInv, TypeOK

-----------------------------------------------------------------------------
(* Types *)

Ops == {"idle", "add", "plant", "waterPay", "waterSet", "throw", "drop", "house"}
Todo == [op : Ops, item : Items \cup {None}, id : Ids \cup {None}]

\* What a handler notes for its next critical section.
Fits(t) ==
    /\ t \in Todo
    /\ t.op = "add" => t.item \in Items
    /\ t.op = "plant" => t.item = "seed"
    /\ t.op = "throw" => t.item = "spear"
    /\ t.op \in {"waterPay", "waterSet"} => t.id \in Ids

InvOK == inv \in [Players -> Goods]
HandsOK == todo \in [Players -> Todo] /\ \A p \in Players : Fits(todo[p])
PlotOK ==
    /\ ground \in [Ids -> Items \cup {None}]
    /\ ripe \subseteq watered /\ watered \subseteq {g \in Ids : ground[g] = "seed"}
HuntOK ==
    /\ herd \in 0..Herd /\ kills \in Nat
    /\ throwAge \in [Players -> 0..Old] /\ hitAge \in [Players -> 0..Old]
    /\ hits \in [Players -> Nat]
TallyOK ==
    /\ given \in Goods /\ made \in Goods /\ spent \in Goods
    /\ drawn \in Nat /\ poured \in Nat /\ grown \in Nat
RestOK == bag \in Goods /\ house \in [Houses -> {"none", "closed", "open"}]

\* The parts of the type invariant.
LEMMA PlotParts ==
    PlotInv <=> InvOK /\ HandsOK /\ PlotOK /\ HuntOK /\ TallyOK /\ RestOK
  BY DEF PlotInv, TypeOK, TodoOK, InvOK, HandsOK, Fits, PlotOK, HuntOK, TallyOK, RestOK, Todo, Ops

\* addItem, consumeItem and the notes of a handler keep their types.
LEMMA InvTyped ==
    ASSUME inv \in [Players -> Goods], NEW p \in Players, NEW k \in Items,
           AddItem(p, k) \/ ConsumeItem(p, k)
    PROVE  inv' \in [Players -> Goods]
  <1>1. inv[p] \in Goods /\ inv[p][k] \in Nat BY DEF Goods
  <1>2. CASE AddItem(p, k)
    <2>1. [inv[p] EXCEPT ![k] = @ + 1] \in Goods BY <1>1 DEF Goods
    <2>2. QED BY <1>2, <2>1 DEF AddItem
  <1>3. CASE ConsumeItem(p, k)
    <2>1. [inv[p] EXCEPT ![k] = @ - 1] \in Goods BY <1>1, <1>3 DEF Goods, ConsumeItem
    <2>2. QED BY <1>3, <2>1 DEF ConsumeItem
  <1>4. QED BY <1>2, <1>3

\* A handler notes what fits, or is done.
LEMMA TodoTyped ==
    ASSUME HandsOK, NEW p \in Players, NEW t, Fits(t), todo' = [todo EXCEPT ![p] = t]
    PROVE  HandsOK'
  <1>1. t \in Todo BY DEF Fits
  <1>2. todo' \in [Players -> Todo] BY <1>1 DEF HandsOK
  <1>3. \A q \in Players : todo'[q] = IF q = p THEN t ELSE todo[q] BY DEF HandsOK
  <1>4. \A q \in Players : Fits(todo'[q]) BY <1>3 DEF HandsOK
  <1>5. QED BY <1>2, <1>4 DEF HandsOK, Fits, Todo

\* Done fits.
LEMMA DoneTyped ==
    ASSUME HandsOK, NEW p \in Players, Done(p)
    PROVE  HandsOK'
  <1>1. Fits(Idle) BY DEF Fits, Idle, Todo, Ops
  <1>2. QED BY <1>1, TodoTyped DEF Done

\* A group of variables that does not change keeps its type.
LEMMA Kept ==
    /\ InvOK /\ inv' = inv => InvOK'
    /\ HandsOK /\ todo' = todo => HandsOK'
    /\ PlotOK /\ UNCHANGED plot => PlotOK'
    /\ HuntOK /\ UNCHANGED hunt => HuntOK'
    /\ TallyOK /\ UNCHANGED tally => TallyOK'
    /\ RestOK /\ UNCHANGED <<bag, house>> => RestOK'
  <1>1. InvOK /\ inv' = inv => InvOK' BY DEF InvOK
  <1>2. HandsOK /\ todo' = todo => HandsOK' BY DEF HandsOK, Fits, Todo
  <1>3. PlotOK /\ UNCHANGED plot => PlotOK' BY DEF PlotOK, plot
  <1>4. HuntOK /\ UNCHANGED hunt => HuntOK' BY DEF HuntOK, hunt
  <1>5. TallyOK /\ UNCHANGED tally => TallyOK' BY DEF TallyOK, tally
  <1>6. RestOK /\ UNCHANGED <<bag, house>> => RestOK' BY DEF RestOK
  <1>7. QED BY <1>1, <1>2, <1>3, <1>4, <1>5, <1>6

Parts == InvOK /\ HandsOK /\ PlotOK /\ HuntOK /\ TallyOK /\ RestOK

\* Crafting, eating and the chat shortcuts.
LEMMA GoodsTyped ==
    ASSUME Parts, NEW p \in Players,
           \/ Eat(p) \/ CheatCommand(p) \/ TakeWater(p)
           \/ \E recipe \in Recipes : Craft(p, recipe)
    PROVE  Parts'
  <1> USE ItemsAssumption
  <1>1. InvOK /\ HandsOK /\ PlotOK /\ HuntOK /\ TallyOK /\ RestOK BY DEF Parts
  <1>2. inv[p] \in Goods /\ \A i \in Items : inv[p][i] \in Nat BY <1>1 DEF InvOK, Goods
  <1>3. UNCHANGED <<todo, plot, hunt, bag, house>>
    BY DEF Eat, CheatCommand, CheatGet, CheatAllInv, CheatClearInv, TakeWater, Craft
  <1>4. HandsOK' /\ PlotOK' /\ HuntOK' /\ RestOK' BY <1>1, <1>3, Kept
  <1>5. CASE Eat(p)
    <2>1. PICK food \in {"fruit", "meat"} :
            ConsumeItem(p, food) /\ spent' = [spent EXCEPT ![food] = @ + 1]
      BY <1>5 DEF Eat
    <2>2. InvOK' BY <1>1, <2>1, InvTyped DEF InvOK
    <2>3. TallyOK' BY <1>1, <1>5, <2>1 DEF TallyOK, Goods, Eat
    <2>4. QED BY <1>4, <2>2, <2>3 DEF Parts
  <1>6. ASSUME NEW k \in Gifts, CheatGet(p, k) PROVE Parts'
    <2>1. k \in Items BY BoundsAssumption
    <2>2. InvOK' BY <1>1, <1>6, <2>1, InvTyped DEF InvOK, CheatGet
    <2>3. TallyOK' BY <1>1, <1>6, <2>1 DEF TallyOK, Goods, CheatGet
    <2>4. QED BY <1>4, <2>2, <2>3 DEF Parts
  <1>7. CASE CheatAllInv(p)
    <2> DEFINE set == [i \in Items |-> IF i = "seed" THEN inv[p][i] ELSE Plenty]
    <2>1. set \in Goods BY <1>2, BoundsAssumption DEF Goods
    <2>2. inv' = [inv EXCEPT ![p] = set] BY <1>7 DEF CheatAllInv
    <2>3. given' = [i \in Items |-> IF set[i] > inv[p][i] THEN set[i] - inv[p][i] ELSE 0]
      BY <1>7 DEF CheatAllInv
    <2>4. spent' = [i \in Items |->
                      spent[i] + IF set[i] < inv[p][i] THEN inv[p][i] - set[i] ELSE 0]
      BY <1>7 DEF CheatAllInv
    <2> HIDE DEF set
    <2>5. InvOK' BY <1>1, <2>1, <2>2 DEF InvOK
    <2>6. given' \in Goods BY <1>2, <2>1, <2>3 DEF Goods
    <2>7. spent' \in Goods
      <3>1. spent \in Goods BY <1>1 DEF TallyOK
      <3>2. QED BY <1>2, <2>1, <2>4, <3>1 DEF Goods
    <2>8. TallyOK' BY <1>1, <1>7, <2>6, <2>7 DEF TallyOK, CheatAllInv
    <2>9. QED BY <1>4, <2>5, <2>8 DEF Parts
  <1>8. CASE CheatClearInv(p)
    <2>1. InvOK' BY <1>1, <1>8 DEF InvOK, CheatClearInv, Zero, Goods
    <2>2. TallyOK' BY <1>1, <1>2, <1>8 DEF TallyOK, CheatClearInv, Goods
    <2>3. QED BY <1>4, <2>1, <2>2 DEF Parts
  <1>9. CASE TakeWater(p)
    <2>1. InvOK' BY <1>1, <1>9, InvTyped DEF InvOK, TakeWater
    <2>2. TallyOK' BY <1>1, <1>9 DEF TallyOK, TakeWater
    <2>3. QED BY <1>4, <2>1, <2>2 DEF Parts
  <1>10. ASSUME NEW recipe \in Recipes, Craft(p, recipe) PROVE Parts'
    <2> DEFINE v == [i \in Items |-> inv[p][i] - Need[recipe][i] + IF i = recipe THEN 1 ELSE 0]
    <2>1. \A i \in Items : Need[recipe][i] \in Nat BY RecipesAssumption DEF Goods
    <2>2. v \in Goods BY <1>2, <1>10, <2>1 DEF Goods, Craft
    <2>3. inv' = [inv EXCEPT ![p] = v] BY <1>10 DEF Craft
    <2> HIDE DEF v
    <2>4. InvOK' BY <1>1, <2>2, <2>3 DEF InvOK
    <2>5. recipe \in Items BY RecipesAssumption
    <2>6. made' \in Goods BY <1>1, <1>10, <2>5 DEF TallyOK, Craft, Goods
    <2>7. spent' \in Goods BY <1>1, <1>10, <2>1 DEF TallyOK, Craft, Goods
    <2>8. TallyOK' BY <1>1, <1>10, <2>6, <2>7 DEF TallyOK, Craft
    <2>9. QED BY <1>4, <2>4, <2>8 DEF Parts
  <1>11. QED BY <1>5, <1>6, <1>7, <1>8, <1>9, <1>10 DEF CheatCommand

\* Picking up, planting and watering.
LEMMA FieldTyped ==
    ASSUME Parts, NEW p \in Players,
           \/ PickupAdd(p) \/ PlantPay(p) \/ PlantPut(p) \/ WaterPay(p) \/ WaterSet(p)
           \/ \E g \in Ids : Pickup(p, g) \/ WaterLook(p, g)
    PROVE  Parts'
  <1> USE ItemsAssumption
  <1>1. InvOK /\ HandsOK /\ PlotOK /\ HuntOK /\ TallyOK /\ RestOK BY DEF Parts
  <1>2. UNCHANGED <<hunt, bag, house>>
    BY DEF PickupAdd, PlantPay, PlantPut, WaterPay, WaterSet, Pickup, WaterLook
  <1>3. HuntOK' /\ RestOK' BY <1>1, <1>2, Kept
  <1>4. Fits(todo[p]) BY <1>1 DEF HandsOK
  <1>5. ASSUME NEW g \in Ids, Pickup(p, g) PROVE Parts'
    <2>1. ground[g] \in Items /\ ground[g] # "seed" BY <1>1, <1>5 DEF PlotOK, Pickup
    <2>2. Fits([op |-> "add", item |-> ground[g], id |-> g])
      BY <2>1 DEF Fits, Todo, Ops
    <2>3. HandsOK' BY <1>1, <1>5, <2>2, TodoTyped DEF Pickup, Goes
    <2>4. PlotOK' BY <1>1, <1>5, <2>1 DEF PlotOK, Pickup
    <2>5. InvOK' /\ TallyOK' BY <1>1, <1>5, Kept DEF Pickup
    <2>6. QED BY <1>3, <2>3, <2>4, <2>5 DEF Parts
  <1>6. CASE PickupAdd(p)
    <2>1. todo[p].item \in Items BY <1>4, <1>6 DEF Fits, PickupAdd
    <2>2. InvOK' BY <1>1, <1>6, <2>1, InvTyped DEF InvOK, PickupAdd
    <2>3. HandsOK' BY <1>1, <1>6, DoneTyped DEF PickupAdd
    <2>4. PlotOK' /\ TallyOK' BY <1>1, <1>6, Kept DEF PickupAdd
    <2>5. QED BY <1>3, <2>2, <2>3, <2>4 DEF Parts
  <1>7. CASE PlantPay(p)
    <2>1. InvOK' BY <1>1, <1>7, InvTyped DEF InvOK, PlantPay
    <2>2. Fits([op |-> "plant", item |-> "seed", id |-> None]) BY DEF Fits, Todo, Ops
    <2>3. HandsOK' BY <1>1, <1>7, <2>2, TodoTyped DEF PlantPay, Goes
    <2>4. PlotOK' /\ TallyOK' BY <1>1, <1>7, Kept DEF PlantPay
    <2>5. QED BY <1>3, <2>1, <2>3, <2>4 DEF Parts
  <1>8. CASE PlantPut(p)
    <2>1. InvOK' /\ TallyOK' BY <1>1, <1>8, Kept DEF PlantPut
    <2>2. HandsOK' BY <1>1, <1>8, DoneTyped DEF PlantPut
    <2>3. NewIDs(1) \in SUBSET Fresh BY <1>8, NewIDFresh DEF PlantPut
    <2>4. PlotInv BY <1>1, PlotParts
    <2>5. /\ Put(ground, NewIDs(1), "seed") \in [Ids -> Items \cup {None}]
          /\ watered \subseteq {g \in Ids : Put(ground, NewIDs(1), "seed")[g] = "seed"}
      BY <2>3, <2>4, PutTyped
    <2>6. PlotOK' BY <1>1, <1>8, <2>5 DEF PlotOK, PlantPut
    <2>7. QED BY <1>3, <2>1, <2>2, <2>6 DEF Parts
  <1>9. ASSUME NEW g \in Ids, WaterLook(p, g) PROVE Parts'
    <2>1. Fits([op |-> "waterPay", item |-> "water", id |-> g]) BY DEF Fits, Todo, Ops
    <2>2. HandsOK' BY <1>1, <1>9, <2>1, TodoTyped DEF WaterLook, Goes
    <2>3. InvOK' /\ PlotOK' /\ TallyOK' BY <1>1, <1>9, Kept DEF WaterLook
    <2>4. QED BY <1>3, <2>2, <2>3 DEF Parts
  <1>10. CASE WaterPay(p)
    <2>1. PlotOK' BY <1>1, <1>10, Kept DEF WaterPay
    <2>2. CASE inv[p]["water"] > 0
      <3>1. ConsumeItem(p, "water") /\ poured' = poured + 1
            /\ Goes(p, "waterSet", "water", todo[p].id)
        BY <1>10, <2>2 DEF WaterPay
      <3>2. InvOK' BY <1>1, <3>1, InvTyped DEF InvOK
      <3>3. Fits([op |-> "waterSet", item |-> "water", id |-> todo[p].id])
        BY <1>4, <1>10 DEF Fits, Todo, Ops, WaterPay
      <3>4. HandsOK' BY <1>1, <3>1, <3>3, TodoTyped DEF Goes
      <3>5. TallyOK' BY <1>1, <1>10, <3>1 DEF TallyOK, WaterPay
      <3>6. QED BY <1>3, <2>1, <3>2, <3>4, <3>5 DEF Parts
    <2>3. CASE ~(inv[p]["water"] > 0)
      <3>1. UNCHANGED <<inv, poured>> /\ Done(p) BY <1>10, <2>3 DEF WaterPay
      <3>2. InvOK' BY <1>1, <3>1, Kept
      <3>3. HandsOK' BY <1>1, <3>1, DoneTyped
      <3>4. TallyOK' BY <1>1, <1>10, <3>1 DEF TallyOK, WaterPay
      <3>5. QED BY <1>3, <2>1, <3>2, <3>3, <3>4 DEF Parts
    <2>4. QED BY <2>2, <2>3
  <1>11. CASE WaterSet(p)
    <2>1. InvOK' /\ TallyOK' BY <1>1, <1>11, Kept DEF WaterSet
    <2>2. HandsOK' BY <1>1, <1>11, DoneTyped DEF WaterSet
    <2>3. todo[p].id \in Ids BY <1>4, <1>11 DEF Fits, WaterSet
    <2>4. PlotOK' BY <1>1, <1>11, <2>3 DEF PlotOK, WaterSet
    <2>5. QED BY <1>3, <2>1, <2>2, <2>4 DEF Parts
  <1>12. QED BY <1>5, <1>6, <1>7, <1>8, <1>9, <1>10, <1>11

\* The tick loop and the mobs.
LEMMA TickTyped ==
    ASSUME Parts,
           \/ TickResources \/ Ripen \/ Elapse
           \/ \E g \in Ids : MobTakes(g)
           \/ \E item \in Items : MobDrops(item)
           \/ \E p \in Players : MobDelivers(p)
    PROVE  Parts'
  <1> USE ItemsAssumption
  <1>1. InvOK /\ HandsOK /\ PlotOK /\ HuntOK /\ TallyOK /\ RestOK BY DEF Parts
  <1>2. PlotInv BY <1>1, PlotParts
  <1>3. CASE TickResources
    <2>1. InvOK' /\ HandsOK' /\ HuntOK' /\ RestOK' BY <1>1, <1>3, Kept DEF TickResources
    <2>2. ripe \in SUBSET Ids BY <1>1 DEF PlotOK
    <2>3. IsFiniteSet(ripe) BY <2>2, FiniteAssumption, FS_Subset
    <2>4. Cardinality(ripe) \in Nat BY <2>3, FS_CardinalityType
    <2>5. 2 * Cardinality(ripe) \in Nat /\ 2 * Cardinality(ripe) <= Cardinality(Fresh)
      <3>1. Cardinality(Fresh) >= 2 * Cardinality(ripe) BY <1>3 DEF TickResources, Growing
      <3>2. IsFiniteSet(Fresh) BY FiniteAssumption, FS_Subset DEF Fresh
      <3>3. Cardinality(Fresh) \in Nat BY <3>2, FS_CardinalityType
      <3>4. QED BY <2>4, <3>1, <3>3
    <2> DEFINE S == NewIDs(2 * Cardinality(ripe))
    <2>6. S \subseteq Fresh BY <2>5, NewIDsFresh
    <2>7. \A g \in S : g \in Ids /\ ground[g] = None BY <2>6 DEF Fresh
    <2>8. ground' = Put(Put(ground, ripe, None), S, "fruit")
      BY <1>3 DEF TickResources, Growing
    <2> HIDE DEF S
    <2>9. ground' \in [Ids -> Items \cup {None}] BY <1>1, <2>8 DEF Put, PlotOK
    <2>10. watered' = watered \ ripe /\ ripe' = {} BY <1>3 DEF TickResources, Growing
    <2>11. \A g \in watered \ ripe : g \in Ids /\ ground'[g] = "seed"
      <3> SUFFICES ASSUME NEW g \in watered \ ripe PROVE g \in Ids /\ ground'[g] = "seed"
        OBVIOUS
      <3>1. g \in Ids /\ ground[g] = "seed" BY <1>1 DEF PlotOK
      <3>2. g \notin S BY <2>7, <3>1
      <3>3. QED BY <2>8, <3>1, <3>2 DEF Put
    <2>12. PlotOK' BY <2>9, <2>10, <2>11 DEF PlotOK
    <2>13. grown' \in Nat BY <1>1, <1>3, <2>4 DEF TallyOK, TickResources, Growing
    <2>14. TallyOK' BY <1>1, <1>3, <2>13 DEF TallyOK, TickResources
    <2>15. QED BY <2>1, <2>12, <2>14 DEF Parts
  <1>4. CASE Ripen
    <2>1. InvOK' /\ HandsOK' /\ HuntOK' /\ TallyOK' /\ RestOK' BY <1>1, <1>4, Kept DEF Ripen
    <2>2. PlotOK' BY <1>1, <1>4 DEF PlotOK, Ripen
    <2>3. QED BY <2>1, <2>2 DEF Parts
  <1>5. CASE Elapse
    <2>1. InvOK' /\ HandsOK' /\ PlotOK' /\ TallyOK' /\ RestOK' BY <1>1, <1>5, Kept DEF Elapse
    <2>2. Old \in Nat BY TimesAssumption DEF Old
    <2>3. HuntOK' BY <1>1, <1>5, <2>2 DEF HuntOK, Elapse
    <2>4. QED BY <2>1, <2>3 DEF Parts
  <1>6. ASSUME NEW g \in Ids, MobTakes(g) PROVE Parts'
    <2>1. InvOK' /\ HandsOK' /\ HuntOK' /\ TallyOK' BY <1>1, <1>6, Kept DEF MobTakes
    <2>2. PlotOK' BY <1>1, <1>6 DEF PlotOK, MobTakes
    <2>3. ground[g] \in Items BY <1>1, <1>6 DEF PlotOK, MobTakes
    <2>4. RestOK' BY <1>1, <1>6, <2>3 DEF RestOK, MobTakes, Goods
    <2>5. QED BY <2>1, <2>2, <2>4 DEF Parts
  <1>7. ASSUME NEW item \in Items, MobDrops(item) PROVE Parts'
    <2>1. InvOK' /\ HandsOK' /\ HuntOK' /\ TallyOK' BY <1>1, <1>7, Kept DEF MobDrops
    <2>2. NewIDs(1) \in SUBSET Fresh BY <1>7, NewIDFresh DEF MobDrops
    <2>3. /\ Put(ground, NewIDs(1), item) \in [Ids -> Items \cup {None}]
          /\ watered \subseteq {g \in Ids : Put(ground, NewIDs(1), item)[g] = "seed"}
      BY <1>2, <2>2, PutTyped
    <2>4. PlotOK' BY <1>1, <1>7, <2>3 DEF PlotOK, MobDrops
    <2>5. RestOK' BY <1>1, <1>7 DEF RestOK, MobDrops, Goods
    <2>6. QED BY <2>1, <2>4, <2>5 DEF Parts
  <1>8. ASSUME NEW p \in Players, MobDelivers(p) PROVE Parts'
    <2>1. HandsOK' /\ PlotOK' /\ HuntOK' /\ TallyOK' BY <1>1, <1>8, Kept DEF MobDelivers
    <2> DEFINE v == [i \in Items |-> inv[p][i] + bag[i]]
    <2>2. v \in Goods BY <1>1 DEF InvOK, RestOK, Goods
    <2>3. inv' = [inv EXCEPT ![p] = v] BY <1>8 DEF MobDelivers
    <2> HIDE DEF v
    <2>4. InvOK' BY <1>1, <2>2, <2>3 DEF InvOK
    <2>5. RestOK' BY <1>1, <1>8 DEF RestOK, MobDelivers, Zero, Goods
    <2>6. QED BY <2>1, <2>4, <2>5 DEF Parts
  <1>9. QED BY <1>3, <1>4, <1>5, <1>6, <1>7, <1>8

\* The drops of a mammoth: two new identities, one for the meat, one for the
\* spear.
LEMMA DropsFresh ==
    ASSUME Cardinality(Fresh) >= 2
    PROVE  \E m \in Fresh, k \in Fresh :
               /\ m # k /\ NewIDs(2) = {m, k}
               /\ m = CHOOSE g \in NewIDs(2) : TRUE
  <1>1. IsFiniteSet(Fresh) BY FiniteAssumption, FS_Subset DEF Fresh
  <1>2. Cardinality(Fresh) \in Nat BY <1>1, FS_CardinalityType
  <1>3. 2 \in Nat /\ 2 <= Cardinality(Fresh) BY <1>2
  <1> DEFINE D == NewIDs(2)
             m == CHOOSE g \in D : TRUE
  <1>4. D \subseteq Fresh /\ IsFiniteSet(D) /\ Cardinality(D) = 2 BY <1>3, NewIDsFresh
  <1> HIDE DEF D
  <1>5. D # {} BY <1>4, FS_EmptySet
  <1>6. m \in D BY <1>5
  <1> HIDE DEF m
  <1>7. IsFiniteSet(D \ {m}) /\ Cardinality(D \ {m}) = 1 BY <1>4, <1>6, FS_RemoveElement
  <1>8. PICK k : D \ {m} = {k} BY <1>7, FS_Singleton
  <1>9. k \in D /\ m # k /\ D = {m, k} BY <1>6, <1>8
  <1>10. QED BY <1>4, <1>6, <1>9 DEF D, m

\* Hunting and houses.
LEMMA HuntTyped ==
    ASSUME Parts, NEW p \in Players,
           \/ ThrowTake(p) \/ ThrowTooEarly(p) \/ Throw(p) \/ HitMammoth(p)
           \/ SpawnMammothDrops(p) \/ PlaceHousePay(p)
           \/ \E h \in Houses : PlaceHouse(p, h) \/ ToggleDoor(p, h)
    PROVE  Parts'
  <1> USE ItemsAssumption
  <1>1. InvOK /\ HandsOK /\ PlotOK /\ HuntOK /\ TallyOK /\ RestOK BY DEF Parts
  <1>2. Old \in Nat BY TimesAssumption DEF Old
  <1>3. CASE ThrowTake(p)
    <2>1. InvOK' BY <1>1, <1>3, InvTyped DEF InvOK, ThrowTake
    <2>2. Fits([op |-> "throw", item |-> "spear", id |-> None]) BY DEF Fits, Todo, Ops
    <2>3. HandsOK' BY <1>1, <1>3, <2>2, TodoTyped DEF ThrowTake, Goes
    <2>4. PlotOK' /\ HuntOK' /\ TallyOK' /\ RestOK' BY <1>1, <1>3, Kept DEF ThrowTake
    <2>5. QED BY <2>1, <2>3, <2>4 DEF Parts
  <1>4. CASE ThrowTooEarly(p)
    <2>1. InvOK' BY <1>1, <1>4, InvTyped DEF InvOK, ThrowTooEarly
    <2>2. HandsOK' BY <1>1, <1>4, DoneTyped DEF ThrowTooEarly
    <2>3. PlotOK' /\ HuntOK' /\ TallyOK' /\ RestOK' BY <1>1, <1>4, Kept DEF ThrowTooEarly
    <2>4. QED BY <2>1, <2>2, <2>3 DEF Parts
  <1>5. CASE Throw(p)
    <2>1. HandsOK' BY <1>1, <1>5, DoneTyped DEF Throw
    <2>2. InvOK' /\ PlotOK' /\ RestOK' BY <1>1, <1>5, Kept DEF Throw
    <2>3. HuntOK' BY <1>1, <1>2, <1>5 DEF HuntOK, Throw
    <2>4. TallyOK' BY <1>1, <1>5 DEF TallyOK, Throw, Goods
    <2>5. QED BY <2>1, <2>2, <2>3, <2>4 DEF Parts
  <1>6. CASE HitMammoth(p)
    <2>1. InvOK' /\ PlotOK' /\ TallyOK' /\ RestOK' BY <1>1, <1>6, Kept DEF HitMammoth
    <2>2. hitAge' \in [Players -> 0..Old] /\ hits' \in [Players -> Nat] /\ throwAge' = throwAge
      BY <1>1, <1>2, <1>6 DEF HuntOK, HitMammoth
    <2>3. CASE herd > 0 /\ herd' = herd - 1 /\ kills' = kills + 1 /\ Goes(p, "drop", "spear", None)
      <3>1. Fits([op |-> "drop", item |-> "spear", id |-> None]) BY DEF Fits, Todo, Ops
      <3>2. HandsOK' BY <1>1, <2>3, <3>1, TodoTyped DEF Goes
      <3>3. HuntOK' BY <1>1, <2>2, <2>3, BoundsAssumption DEF HuntOK
      <3>4. QED BY <2>1, <3>2, <3>3 DEF Parts
    <2>4. CASE UNCHANGED <<herd, kills, todo>>
      <3>1. HandsOK' BY <1>1, <2>4, Kept
      <3>2. HuntOK' BY <1>1, <2>2, <2>4 DEF HuntOK
      <3>3. QED BY <2>1, <3>1, <3>2 DEF Parts
    <2>5. QED BY <1>6, <2>3, <2>4 DEF HitMammoth
  <1>7. CASE SpawnMammothDrops(p)
    <2>1. HandsOK' BY <1>1, <1>7, DoneTyped DEF SpawnMammothDrops
    <2>2. InvOK' /\ HuntOK' /\ TallyOK' /\ RestOK' BY <1>1, <1>7, Kept DEF SpawnMammothDrops
    <2>3. PICK m \in Fresh, k \in Fresh :
            m # k /\ NewIDs(2) = {m, k} /\ m = CHOOSE g \in NewIDs(2) : TRUE
      BY <1>7, DropsFresh DEF SpawnMammothDrops
    <2>4. ground' = Put(Put(ground, {m}, "meat"), NewIDs(2) \ {m}, "spear")
      BY <1>7, <2>3 DEF SpawnMammothDrops
    <2>5. ground[m] = None /\ ground[k] = None BY DEF Fresh
    <2>6. PlotOK' BY <1>1, <1>7, <2>3, <2>4, <2>5 DEF PlotOK, Put, SpawnMammothDrops
    <2>7. QED BY <2>1, <2>2, <2>6 DEF Parts
  <1>8. CASE PlaceHousePay(p)
    <2>1. InvOK' BY <1>1, <1>8, InvTyped DEF InvOK, PlaceHousePay
    <2>2. Fits([op |-> "house", item |-> "house", id |-> None]) BY DEF Fits, Todo, Ops
    <2>3. HandsOK' BY <1>1, <1>8, <2>2, TodoTyped DEF PlaceHousePay, Goes
    <2>4. PlotOK' /\ HuntOK' /\ TallyOK' /\ RestOK' BY <1>1, <1>8, Kept DEF PlaceHousePay
    <2>5. QED BY <2>1, <2>3, <2>4 DEF Parts
  <1>9. ASSUME NEW h \in Houses, PlaceHouse(p, h) PROVE Parts'
    <2>1. HandsOK' BY <1>1, <1>9, DoneTyped DEF PlaceHouse
    <2>2. InvOK' /\ PlotOK' /\ HuntOK' BY <1>1, <1>9, Kept DEF PlaceHouse
    <2>3. RestOK' BY <1>1, <1>9 DEF RestOK, PlaceHouse
    <2>4. TallyOK' BY <1>1, <1>9 DEF TallyOK, PlaceHouse, Goods
    <2>5. QED BY <2>1, <2>2, <2>3, <2>4 DEF Parts
  <1>10. ASSUME NEW h \in Houses, ToggleDoor(p, h) PROVE Parts'
    <2>1. InvOK' /\ HandsOK' /\ PlotOK' /\ HuntOK' /\ TallyOK'
      BY <1>1, <1>10, Kept DEF ToggleDoor
    <2>2. RestOK' BY <1>1, <1>10 DEF RestOK, ToggleDoor
    <2>3. QED BY <2>1, <2>2 DEF Parts
  <1>11. QED BY <1>3, <1>4, <1>5, <1>6, <1>7, <1>8, <1>9, <1>10

\* Every step keeps the types.
LEMMA PartsStep == PlotInv /\ [Next]_vars => PlotInv'
  <1> SUFFICES ASSUME PlotInv, [Next]_vars PROVE PlotInv'
    OBVIOUS
  <1>1. Parts BY PlotParts DEF Parts
  <1>2. Next => Parts'
    BY <1>1, GoodsTyped, FieldTyped, TickTyped, HuntTyped DEF Next, Handler
  <1>3. UNCHANGED vars => Parts'
    <2> SUFFICES ASSUME UNCHANGED vars PROVE Parts' OBVIOUS
    <2>1. UNCHANGED <<inv, todo, plot, hunt, tally, bag, house>>
      BY DEF vars, plot, hunt, tally
    <2>2. QED BY <1>1, <2>1, Kept DEF Parts
  <1>4. PlotInv' <=> Parts'
    BY DEF Parts, PlotInv, TypeOK, TodoOK, InvOK, HandsOK, Fits, PlotOK, HuntOK, TallyOK,
           RestOK, Todo, Ops
  <1>5. QED BY <1>2, <1>3, <1>4

\* The state is well typed: no inventory goes below zero, whatever the
\* interleaving of handlers, mobs and the tick loop, and only a seed that is in
\* the ground is watered or ripe (handleWaterPlant looks again after it paid).
THEOREM HarvestTyped == Spec => []PlotInv
  <1>1. Init => PlotInv
    <2> SUFFICES ASSUME Init PROVE PlotInv OBVIOUS
    <2>1. Old \in Nat /\ Zero \in Goods BY TimesAssumption DEF Old, Zero, Goods
    <2>2. Fits(Idle) /\ Idle \in Todo BY DEF Fits, Idle, Todo, Ops
    <2>3. InvOK /\ PlotOK /\ TallyOK /\ RestOK
      BY <2>1, StartAssumption DEF Init, InvOK, PlotOK, TallyOK, RestOK
    <2>4. HandsOK BY <2>2 DEF Init, HandsOK
    <2>5. HuntOK BY <2>1, BoundsAssumption DEF Init, HuntOK
    <2>6. QED BY <2>3, <2>4, <2>5, PlotParts
  <1>2. QED BY <1>1, PartsStep, PTL DEF Spec

-----------------------------------------------------------------------------
(* Hits *)

\* Division: k steps of length d that fit into w are at most w \div d.
LEMMA StepsFit ==
    ASSUME NEW k \in Nat, NEW d \in Nat \ {0}, NEW w \in Nat, k * d <= w
    PROVE  k <= w \div d
  <1> DEFINE q == w \div d
  <1>1. q \in Nat /\ w < (q + 1) * d OBVIOUS
  <1> HIDE DEF q
  <1>2. ASSUME k >= q + 1 PROVE FALSE
    <2>1. k * d >= (q + 1) * d BY <1>1, <1>2
    <2>2. QED BY <1>1, <2>1
  <1>3. k <= q BY <1>1, <1>2
  <1>4. QED BY <1>3 DEF q

\* The bound and what makes it inductive.
HitsInv == HitInv /\ HitsPerThrow

\* Every step keeps the hits of a throw apart and few.
LEMMA HitStep ==
    ASSUME PlotInv, HitsInv, [Next]_vars
    PROVE  HitsInv'
  <1>1. HuntOK BY PlotParts
  <1>2. /\ Old \in Nat /\ Window < Old /\ Window \in Nat /\ Debounce \in Nat \ {0}
        /\ Window \div Debounce + 1 \in Int /\ Window \div Debounce \in Nat
    BY TimesAssumption DEF Old
  <1>3. \A p \in Players : throwAge[p] \in 0..Old /\ hitAge[p] \in 0..Old /\ hits[p] \in Nat
    BY <1>1 DEF HuntOK
  <1>4. ASSUME UNCHANGED <<throwAge, hitAge, hits>> PROVE HitsInv'
    BY <1>4 DEF HitsInv, HitInv, HitsPerThrow
  <1>5. CASE Elapse
    <2>1. HitsPerThrow' BY <1>5 DEF Elapse, HitsInv, HitsPerThrow
    <2> SUFFICES ASSUME NEW p \in Players, hits[p] > 0, throwAge'[p] # Old
                 PROVE  (hits[p] - 1) * Debounce + hitAge'[p] <= throwAge'[p]
      BY <1>5, <2>1 DEF HitsInv, HitInv, Elapse
    <2>2. throwAge[p] < Old /\ throwAge'[p] = throwAge[p] + 1
      BY <1>3, <1>5 DEF Elapse
    <2>3. (hits[p] - 1) * Debounce + hitAge[p] <= throwAge[p]
      BY <2>2, <1>2 DEF HitsInv, HitInv
    <2>4. hitAge'[p] \in Nat /\ hitAge'[p] <= hitAge[p] + 1
      BY <1>2, <1>3, <1>5 DEF Elapse
    <2>5. (hits[p] - 1) * Debounce \in Nat BY <1>2, <1>3
    <2>6. hitAge[p] \in Nat /\ throwAge[p] \in Nat BY <1>2, <1>3
    <2>7. QED BY <2>2, <2>3, <2>4, <2>5, <2>6
  <1>6. ASSUME NEW p \in Players, Throw(p) PROVE HitsInv'
    <2>1. /\ hits'[p] = 0 /\ hitAge' = hitAge
          /\ \A q \in Players \ {p} : hits'[q] = hits[q] /\ throwAge'[q] = throwAge[q]
      BY <1>1, <1>6 DEF HuntOK, Throw
    <2>2. HitInv' BY <2>1 DEF HitsInv, HitInv
    <2>3. HitsPerThrow' BY <1>2, <2>1 DEF HitsInv, HitsPerThrow
    <2>4. QED BY <2>2, <2>3 DEF HitsInv
  <1>7. ASSUME NEW p \in Players, HitMammoth(p) PROVE HitsInv'
    <2>1. /\ hits'[p] = hits[p] + 1 /\ hitAge'[p] = 0 /\ throwAge' = throwAge
          /\ \A q \in Players \ {p} : hits'[q] = hits[q] /\ hitAge'[q] = hitAge[q]
      BY <1>1, <1>7 DEF HuntOK, HitMammoth
    <2>2. hitAge[p] >= Debounce /\ throwAge[p] <= Window BY <1>7 DEF HitMammoth, Accepted
    <2>3. hits[p] * Debounce <= throwAge[p]
      <3>1. CASE hits[p] = 0 BY <1>2, <1>3, <3>1
      <3>2. CASE hits[p] > 0
        <4>1. (hits[p] - 1) * Debounce + hitAge[p] <= throwAge[p]
          BY <1>2, <1>3, <2>2, <3>2 DEF HitsInv, HitInv
        <4>2. PICK n \in Nat : n = hits[p] BY <1>3
        <4>3. (n - 1) * Debounce + Debounce = n * Debounce BY <1>2
        <4>4. /\ (n - 1) * Debounce \in Int /\ n * Debounce \in Int
              /\ hitAge[p] \in Int /\ throwAge[p] \in Int /\ Debounce \in Int
          BY <1>2, <1>3
        <4>5. (n - 1) * Debounce + hitAge[p] <= throwAge[p] BY <4>1, <4>2
        <4>6. n * Debounce <= throwAge[p] BY <2>2, <4>3, <4>4, <4>5
        <4>7. QED BY <4>2, <4>6
      <3>3. QED BY <1>3, <3>1, <3>2
    <2>4. hits[p] <= Window \div Debounce
      <3>1. hits[p] \in Nat /\ hits[p] * Debounce \in Nat /\ throwAge[p] \in Nat
        BY <1>2, <1>3
      <3>2. hits[p] * Debounce <= Window BY <1>2, <2>2, <2>3, <3>1
      <3>3. QED BY <1>2, <3>1, <3>2, StepsFit
    <2>5. hits'[p] <= Window \div Debounce + 1 BY <1>2, <1>3, <2>1, <2>4
    <2>6. HitsPerThrow' BY <2>1, <2>5 DEF HitsInv, HitsPerThrow
    <2>7. (hits'[p] - 1) * Debounce + hitAge'[p] <= throwAge'[p]
      <3>1. hits'[p] - 1 = hits[p] BY <1>3, <2>1
      <3>2. hits[p] * Debounce \in Int BY <1>2, <1>3
      <3>3. QED BY <2>1, <2>3, <3>1, <3>2
    <2>8. HitInv' BY <2>1, <2>7 DEF HitsInv, HitInv
    <2>9. QED BY <2>6, <2>8 DEF HitsInv
  <1>8. ASSUME NEW p \in Players,
               \/ Eat(p) \/ CheatCommand(p) \/ TakeWater(p)
               \/ \E recipe \in Recipes : Craft(p, recipe)
        PROVE  HitsInv'
    BY <1>4, <1>8
    DEF Eat, CheatCommand, CheatGet, CheatAllInv, CheatClearInv, TakeWater, Craft, hunt
  <1>9. ASSUME NEW p \in Players,
               \/ PickupAdd(p) \/ PlantPay(p) \/ PlantPut(p) \/ WaterPay(p) \/ WaterSet(p)
               \/ \E g \in Ids : Pickup(p, g) \/ WaterLook(p, g)
        PROVE  HitsInv'
    BY <1>4, <1>9
    DEF PickupAdd, PlantPay, PlantPut, WaterPay, WaterSet, Pickup, WaterLook, hunt
  <1>10. ASSUME NEW p \in Players,
                \/ ThrowTake(p) \/ ThrowTooEarly(p) \/ SpawnMammothDrops(p) \/ PlaceHousePay(p)
                \/ MobDelivers(p) \/ \E h \in Houses : PlaceHouse(p, h) \/ ToggleDoor(p, h)
         PROVE  HitsInv'
    BY <1>4, <1>10
    DEF ThrowTake, ThrowTooEarly, SpawnMammothDrops, PlaceHousePay, MobDelivers, PlaceHouse,
        ToggleDoor, hunt
  <1>11. CASE TickResources \/ Ripen \/ (\E g \in Ids : MobTakes(g))
                \/ \E item \in Items : MobDrops(item)
    BY <1>4, <1>11 DEF TickResources, Ripen, MobTakes, MobDrops, hunt
  <1>12. CASE UNCHANGED vars BY <1>4, <1>12 DEF vars
  <1>13. QED
    BY <1>5, <1>6, <1>7, <1>8, <1>9, <1>10, <1>11, <1>12 DEF Next, Handler

\* One throw is good for at most Window / Debounce + 1 hits, for every choice
\* of the times (throwHitWindow and hitDebounce of handleHitMammoth).
THEOREM HitsBounded == Spec => []HitsPerThrow
  <1>1. Init => HitsInv
    BY TimesAssumption DEF Init, HitsInv, HitInv, HitsPerThrow
  <1>2. PlotInv /\ HitsInv /\ [Next]_vars => HitsInv' BY HitStep
  <1>3. HitsInv => HitsPerThrow BY DEF HitsInv
  <1>4. QED BY <1>1, <1>2, <1>3, HarvestTyped, PTL DEF Spec

-----------------------------------------------------------------------------
(* Where the goods of a kind are *)

Store(i) == SumFunctionOnSet([p \in Players |-> inv[p][i]], Players)
Carriers(i) == {p \in Players : todo[p].op \in Held /\ todo[p].item = i}
Spots(i) == {g \in Ids : ground[g] = i}
Lying(i) == Cardinality(Spots(i))

\* One thing of kind k, counted among those of kind i.
One(k, i) == IF i = k THEN 1 ELSE 0
\* What the note t of a handler says it has in its hands.
InNote(t, i) == IF t.op \in Held /\ t.item = i THEN 1 ELSE 0

\* The four numbers are natural.
LEMMA CountsTyped ==
    ASSUME PlotInv, NEW i \in Items
    PROVE  /\ Store(i) \in Int /\ bag[i] \in Int /\ InHands(i) \in Int /\ Lying(i) \in Int
           /\ spent[i] \in Int /\ given[i] \in Int /\ made[i] \in Int /\ Started(i) \in Int
           /\ Total(i) = Store(i) + bag[i] + InHands(i) + Lying(i)
           /\ InHands(i) = Cardinality(Carriers(i))
           /\ IsFiniteSet(Carriers(i)) /\ IsFiniteSet(Spots(i))
  <1>1. [p \in Players |-> inv[p][i]] \in [Players -> Int] BY DEF PlotInv, TypeOK, Goods
  <1>2. Store(i) \in Int BY <1>1, FiniteAssumption, SumType DEF Store
  <1>3. IsFiniteSet(Carriers(i)) /\ IsFiniteSet(Spots(i)) /\ IsFiniteSet({g \in Ids : Start[g] = i})
    <2>1. Carriers(i) \in SUBSET Players BY DEF Carriers
    <2>2. Spots(i) \in SUBSET Ids /\ {g \in Ids : Start[g] = i} \in SUBSET Ids BY DEF Spots
    <2>3. QED BY <2>1, <2>2, FiniteAssumption, FS_Subset
  <1>4. InHands(i) = Cardinality(Carriers(i)) BY DEF InHands, Carriers, Held
  <1>5. InHands(i) \in Int /\ Lying(i) \in Int /\ Started(i) \in Int
    BY <1>3, <1>4, FS_CardinalityType DEF Lying, Started
  <1>6. bag[i] \in Int /\ spent[i] \in Int /\ given[i] \in Int /\ made[i] \in Int
    BY DEF PlotInv, TypeOK, Goods
  <1>7. Total(i) = Store(i) + bag[i] + InHands(i) + Lying(i)
    BY DEF Total, Store, Lying, Spots
  <1>8. QED BY <1>2, <1>3, <1>4, <1>5, <1>6, <1>7

Counted ==
    \A i \in Items :
        /\ Store(i) \in Int /\ bag[i] \in Int /\ InHands(i) \in Int /\ Lying(i) \in Int
        /\ spent[i] \in Int /\ given[i] \in Int /\ made[i] \in Int
        /\ Total(i) = Store(i) + bag[i] + InHands(i) + Lying(i)

\* The same of every state, the next one included.
LEMMA AlwaysCounted == PlotInv => Counted
  BY CountsTyped DEF Counted

\* A balance changes by what its parts change by.
LEMMA BalanceMoves ==
    ASSUME PlotInv, PlotInv', NEW i \in Items
    PROVE  /\ Balance(i) \in Int
           /\ Balance(i)' = Balance(i)
             + (Store(i)' - Store(i)) + (bag'[i] - bag[i]) + (InHands(i)' - InHands(i))
             + (Lying(i)' - Lying(i)) + (spent'[i] - spent[i])
             - (given'[i] - given[i]) - (made'[i] - made[i])
  <1>1. PICK a \in Int, b \in Int, c \in Int, d \in Int, e \in Int, f \in Int, g \in Int,
             s \in Int :
          /\ a = Store(i) /\ b = bag[i] /\ c = InHands(i) /\ d = Lying(i)
          /\ e = spent[i] /\ f = given[i] /\ g = made[i] /\ s = Started(i)
          /\ Total(i) = a + b + c + d
    BY CountsTyped
  <1>2. PICK aa \in Int, bb \in Int, cc \in Int, dd \in Int, ee \in Int, ff \in Int, gg \in Int :
          /\ aa = Store(i)' /\ bb = bag'[i] /\ cc = InHands(i)' /\ dd = Lying(i)'
          /\ ee = spent'[i] /\ ff = given'[i] /\ gg = made'[i]
          /\ Total(i)' = aa + bb + cc + dd
    <2>1. Counted' BY AlwaysCounted, PTL
    <2>2. /\ Store(i)' \in Int /\ bag'[i] \in Int /\ InHands(i)' \in Int /\ Lying(i)' \in Int
          /\ spent'[i] \in Int /\ given'[i] \in Int /\ made'[i] \in Int
          /\ Total(i)' = Store(i)' + bag'[i] + InHands(i)' + Lying(i)'
      BY <2>1 DEF Counted
    <2>3. QED BY <2>2
  <1>3. Balance(i) = a + b + c + d + e - s - f - g BY <1>1 DEF Balance
  <1>4. Balance(i)' = aa + bb + cc + dd + ee - s - ff - gg
    BY <1>1, <1>2 DEF Balance, Started
  <1>5. Balance(i)' = Balance(i) + (aa - a) + (bb - b) + (cc - c) + (dd - d) + (ee - e)
                        - (ff - f) - (gg - g)
    BY <1>3, <1>4
  <1>6. QED BY <1>1, <1>2, <1>3, <1>5

\* An inventory that is replaced.
LEMMA StoreMoves ==
    ASSUME PlotInv, NEW p \in Players, NEW v \in Goods, inv' = [inv EXCEPT ![p] = v],
           NEW i \in Items
    PROVE  Store(i)' - Store(i) = v[i] - inv[p][i]
  <1> DEFINE f == [q \in Players |-> inv[q][i]]
             h == [q \in Players |-> inv'[q][i]]
  <1>1. f \in [Players -> Int] /\ v[i] \in Int /\ f[p] = inv[p][i]
    BY DEF PlotInv, TypeOK, Goods
  <1>2. h = [f EXCEPT ![p] = v[i]] BY DEF PlotInv, TypeOK
  <1>3. Store(i) = SumFunctionOnSet(f, Players) /\ Store(i)' = SumFunctionOnSet(h, Players)
    BY DEF Store
  <1> HIDE DEF f, h
  <1>4. SumFunctionOnSet([f EXCEPT ![p] = v[i]], Players)
          = SumFunctionOnSet(f, Players) + (v[i] - f[p])
    BY <1>1, FiniteAssumption, SumUpdate
  <1>5. SumFunctionOnSet(f, Players) \in Int BY <1>1, FiniteAssumption, SumType
  <1>6. PICK a \in Int, b \in Int, c \in Int :
          a = SumFunctionOnSet(f, Players) /\ b = v[i] /\ c = f[p]
    BY <1>1, <1>5
  <1>7. Store(i) = a /\ Store(i)' = a + (b - c) BY <1>2, <1>3, <1>4, <1>6
  <1>8. (a + (b - c)) - a = b - c OBVIOUS
  <1>9. QED BY <1>1, <1>6, <1>7, <1>8

\* addItem and consumeItem.
LEMMA StoreAdds ==
    ASSUME PlotInv, NEW p \in Players, NEW k \in Items, NEW i \in Items
    PROVE  /\ AddItem(p, k) => Store(i)' - Store(i) = One(k, i)
           /\ ConsumeItem(p, k) => Store(i)' - Store(i) = -One(k, i)
  <1>1. inv[p] \in Goods /\ inv[p][k] \in Nat /\ inv[p][i] \in Nat BY DEF PlotInv, TypeOK, Goods
  <1>2. ASSUME AddItem(p, k) PROVE Store(i)' - Store(i) = One(k, i)
    <2> DEFINE v == [inv[p] EXCEPT ![k] = @ + 1]
    <2>1. v \in Goods /\ v[i] - inv[p][i] = One(k, i) BY <1>1 DEF Goods, One
    <2>2. inv' = [inv EXCEPT ![p] = v] BY <1>2 DEF AddItem
    <2> HIDE DEF v
    <2>3. QED BY <2>1, <2>2, StoreMoves
  <1>3. ASSUME ConsumeItem(p, k) PROVE Store(i)' - Store(i) = -One(k, i)
    <2> DEFINE v == [inv[p] EXCEPT ![k] = @ - 1]
    <2>1. v \in Goods /\ v[i] - inv[p][i] = -One(k, i) BY <1>1, <1>3 DEF Goods, One, ConsumeItem
    <2>2. inv' = [inv EXCEPT ![p] = v] BY <1>3 DEF ConsumeItem
    <2> HIDE DEF v
    <2>3. QED BY <2>1, <2>2, StoreMoves
  <1>4. QED BY <1>2, <1>3

\* A handler that takes something into its hands or puts it down.
LEMMA HandsMove ==
    ASSUME PlotInv, NEW p \in Players, NEW t, todo' = [todo EXCEPT ![p] = t], NEW i \in Items
    PROVE  InHands(i)' - InHands(i) = InNote(t, i) - InNote(todo[p], i)
  <1>1. todo'[p] = t /\ \A q \in Players \ {p} : todo'[q] = todo[q]
    BY DEF PlotInv, TypeOK
  <1> DEFINE C == Carriers(i)
             R == C \ {p}
  <1>2. IsFiniteSet(C) BY CountsTyped
  <1>3. /\ IsFiniteSet(R) /\ p \notin R
        /\ Cardinality(C) = Cardinality(R) + InNote(todo[p], i)
    <2>1. p \in C <=> InNote(todo[p], i) = 1 BY DEF Carriers, InNote
    <2>2. InNote(todo[p], i) \in {0, 1} BY DEF InNote
    <2>3. IsFiniteSet(R) /\ Cardinality(R) = IF p \in C THEN Cardinality(C) - 1 ELSE Cardinality(C)
      BY <1>2, FS_RemoveElement
    <2>4. Cardinality(C) \in Nat BY <1>2, FS_CardinalityType
    <2>5. QED BY <2>1, <2>2, <2>3, <2>4
  <1>4. Carriers(i)' = IF InNote(t, i) = 1 THEN R \cup {p} ELSE R
    BY <1>1 DEF Carriers, InNote
  <1>5. Cardinality(Carriers(i)') = Cardinality(R) + InNote(t, i)
    <2>1. InNote(t, i) \in {0, 1} BY DEF InNote
    <2>2. Cardinality(R \cup {p}) = Cardinality(R) + 1 BY <1>3, FS_AddElement
    <2>3. Cardinality(R) \in Nat BY <1>3, FS_CardinalityType
    <2>4. QED BY <1>4, <2>1, <2>2, <2>3
  <1>6. InHands(i) = Cardinality(C) /\ InHands(i)' = Cardinality(Carriers(i)')
    BY DEF InHands, Carriers, Held
  <1> HIDE DEF C, R
  <1>7. PICK n \in Nat, a \in Int, b \in Int :
          n = Cardinality(R) /\ a = InNote(t, i) /\ b = InNote(todo[p], i)
    BY <1>3, FS_CardinalityType DEF InNote
  <1>8. (n + a) - (n + b) = a - b OBVIOUS
  <1>9. QED BY <1>3, <1>5, <1>6, <1>7, <1>8

\* A thing that is picked up.
LEMMA LyingTakes ==
    ASSUME PlotInv, NEW g \in Ids, ground' = [ground EXCEPT ![g] = None], NEW i \in Items
    PROVE  Lying(i)' - Lying(i) = -One(ground[g], i)
  <1>1. Spots(i)' = Spots(i) \ {g} BY ItemsAssumption DEF Spots, PlotInv, TypeOK
  <1>2. IsFiniteSet(Spots(i)) BY CountsTyped
  <1>3. Cardinality(Spots(i) \ {g})
          = IF g \in Spots(i) THEN Cardinality(Spots(i)) - 1 ELSE Cardinality(Spots(i))
    BY <1>2, FS_RemoveElement
  <1>4. g \in Spots(i) <=> ground[g] = i BY DEF Spots
  <1>5. PICK n \in Nat : n = Cardinality(Spots(i)) BY <1>2, FS_CardinalityType
  <1>6. Lying(i) = n /\ Lying(i)' = IF ground[g] = i THEN n - 1 ELSE n
    BY <1>1, <1>3, <1>4, <1>5 DEF Lying
  <1>7. QED BY <1>6 DEF One

\* Things that are put on new identities.
LEMMA LyingPuts ==
    ASSUME PlotInv, NEW S \in SUBSET Fresh, NEW k \in Items, ground' = Put(ground, S, k),
           NEW i \in Items
    PROVE  Lying(i)' - Lying(i) = IF i = k THEN Cardinality(S) ELSE 0
  <1>1. \A g \in S : g \in Ids /\ ground[g] = None BY DEF Fresh
  <1>2. None # i BY ItemsAssumption
  <1>3. Spots(i)' = IF i = k THEN Spots(i) \cup S ELSE Spots(i)
    BY <1>1, <1>2 DEF Spots, Put
  <1>4. Spots(i) \cap S = {} BY <1>1, <1>2 DEF Spots
  <1>5. IsFiniteSet(Spots(i)) BY CountsTyped
  <1>6. IsFiniteSet(S)
    <2>1. S \in SUBSET Ids BY <1>1
    <2>2. QED BY <2>1, FiniteAssumption, FS_Subset
  <1>7. PICK n \in Nat, m \in Nat : n = Cardinality(Spots(i)) /\ m = Cardinality(S)
    BY <1>5, <1>6, FS_CardinalityType
  <1>8. Cardinality(Spots(i) \cup S) = n + m
    <2>1. Cardinality(Spots(i) \cup S)
            = Cardinality(Spots(i)) + Cardinality(S) - Cardinality(Spots(i) \cap S)
      BY <1>5, <1>6, FS_Union
    <2>2. Cardinality(Spots(i) \cap S) = 0 BY <1>4, FS_EmptySet
    <2>3. QED BY <1>7, <2>1, <2>2
  <1>9. Lying(i) = n /\ Lying(i)' = IF i = k THEN n + m ELSE n BY <1>3, <1>7, <1>8 DEF Lying
  <1>10. QED BY <1>7, <1>9

\* What does not change does not move.
LEMMA Still ==
    ASSUME PlotInv, NEW i \in Items
    PROVE  /\ inv' = inv => Store(i)' - Store(i) = 0
           /\ todo' = todo => InHands(i)' - InHands(i) = 0
           /\ ground' = ground => Lying(i)' - Lying(i) = 0
           /\ bag' = bag => bag'[i] - bag[i] = 0
           /\ spent' = spent => spent'[i] - spent[i] = 0
           /\ given' = given => given'[i] - given[i] = 0
           /\ made' = made => made'[i] - made[i] = 0
  <1>1. /\ Store(i) \in Int /\ InHands(i) \in Int /\ Lying(i) \in Int
        /\ bag[i] \in Int /\ spent[i] \in Int /\ given[i] \in Int /\ made[i] \in Int
    BY CountsTyped
  <1>2. ASSUME inv' = inv PROVE Store(i)' - Store(i) = 0
    <2>1. Store(i)' = Store(i) BY <1>2 DEF Store
    <2>2. QED BY <1>1, <2>1
  <1>3. ASSUME todo' = todo PROVE InHands(i)' - InHands(i) = 0
    <2>1. InHands(i)' = InHands(i) BY <1>3 DEF InHands
    <2>2. QED BY <1>1, <2>1
  <1>4. ASSUME ground' = ground PROVE Lying(i)' - Lying(i) = 0
    <2>1. Lying(i)' = Lying(i) BY <1>4 DEF Lying, Spots
    <2>2. QED BY <1>1, <2>1
  <1>5. QED BY <1>1, <1>2, <1>3, <1>4

\* Eating, crafting and the chat shortcuts keep every balance, taking water
\* adds water.
LEMMA GoodsBalance ==
    ASSUME PlotInv, PlotInv', NEW p \in Players, NEW i \in Items
    PROVE  /\ Eat(p) \/ CheatCommand(p) \/ (\E recipe \in Recipes : Craft(p, recipe))
                => Balance(i)' = Balance(i)
           /\ TakeWater(p) => Balance(i)' = Balance(i) + One("water", i)
  <1> USE ItemsAssumption
  <1>1. inv[p] \in Goods /\ inv[p][i] \in Nat BY DEF PlotInv, TypeOK, Goods
  <1>2. spent[i] \in Nat /\ given[i] \in Nat /\ made[i] \in Nat BY DEF PlotInv, TypeOK, Goods
  <1>3. spent \in Goods /\ given \in Goods /\ made \in Goods BY DEF PlotInv, TypeOK
  <1>4. ASSUME Eat(p) PROVE Balance(i)' = Balance(i)
    <2>1. PICK food \in {"fruit", "meat"} :
            ConsumeItem(p, food) /\ spent' = [spent EXCEPT ![food] = @ + 1]
      BY <1>4 DEF Eat
    <2>2. Store(i)' - Store(i) = -One(food, i) BY <2>1, StoreAdds
    <2>3. spent'[i] - spent[i] = One(food, i) BY <1>2, <1>3, <2>1 DEF One, Goods
    <2>4. /\ InHands(i)' - InHands(i) = 0 /\ Lying(i)' - Lying(i) = 0 /\ bag'[i] - bag[i] = 0
          /\ given'[i] - given[i] = 0 /\ made'[i] - made[i] = 0
      BY <1>4, Still DEF Eat, plot
    <2>5. One(food, i) \in Int BY DEF One
    <2>6. QED BY <2>2, <2>3, <2>4, <2>5, BalanceMoves
  <1>5. ASSUME NEW k \in Gifts, CheatGet(p, k) PROVE Balance(i)' = Balance(i)
    <2>1. k \in Items BY BoundsAssumption
    <2>2. Store(i)' - Store(i) = One(k, i) BY <1>5, <2>1, StoreAdds DEF CheatGet
    <2>3. given'[i] - given[i] = One(k, i) BY <1>2, <1>3, <1>5, <2>1 DEF One, Goods, CheatGet
    <2>4. /\ InHands(i)' - InHands(i) = 0 /\ Lying(i)' - Lying(i) = 0 /\ bag'[i] - bag[i] = 0
          /\ spent'[i] - spent[i] = 0 /\ made'[i] - made[i] = 0
      BY <1>5, Still DEF CheatGet, plot
    <2>5. One(k, i) \in Int BY DEF One
    <2>6. QED BY <2>2, <2>3, <2>4, <2>5, BalanceMoves
  <1>6. ASSUME CheatAllInv(p) PROVE Balance(i)' = Balance(i)
    <2> DEFINE set == [j \in Items |-> IF j = "seed" THEN inv[p][j] ELSE Plenty]
    <2>1. set \in Goods /\ set[i] \in Nat BY BoundsAssumption DEF Goods, PlotInv, TypeOK
    <2>2. inv' = [inv EXCEPT ![p] = set] BY <1>6 DEF CheatAllInv
    <2>3. given[i] = 0 /\ given'[i] = IF set[i] > inv[p][i] THEN set[i] - inv[p][i] ELSE 0
      BY <1>6 DEF CheatAllInv, Zero
    <2>4. spent'[i] = spent[i] + IF set[i] < inv[p][i] THEN inv[p][i] - set[i] ELSE 0
      BY <1>6 DEF CheatAllInv
    <2> HIDE DEF set
    <2>5. Store(i)' - Store(i) = set[i] - inv[p][i] BY <2>1, <2>2, StoreMoves
    <2>6. (spent'[i] - spent[i]) - (given'[i] - given[i]) = inv[p][i] - set[i]
      BY <1>1, <1>2, <2>1, <2>3, <2>4
    <2>7. /\ InHands(i)' - InHands(i) = 0 /\ Lying(i)' - Lying(i) = 0 /\ bag'[i] - bag[i] = 0
          /\ made'[i] - made[i] = 0
      BY <1>6, Still DEF CheatAllInv, plot
    <2>8. spent'[i] \in Int /\ given'[i] \in Int BY DEF PlotInv, TypeOK, Goods
    <2>9. QED BY <1>1, <1>2, <2>1, <2>5, <2>6, <2>7, <2>8, BalanceMoves
  <1>7. ASSUME CheatClearInv(p) PROVE Balance(i)' = Balance(i)
    <2>1. Zero \in Goods /\ Zero[i] = 0 BY DEF Zero, Goods
    <2>2. Store(i)' - Store(i) = 0 - inv[p][i] BY <1>7, <2>1, StoreMoves DEF CheatClearInv
    <2>3. spent'[i] - spent[i] = inv[p][i] BY <1>1, <1>2, <1>7 DEF CheatClearInv
    <2>4. /\ InHands(i)' - InHands(i) = 0 /\ Lying(i)' - Lying(i) = 0 /\ bag'[i] - bag[i] = 0
          /\ given'[i] - given[i] = 0 /\ made'[i] - made[i] = 0
      BY <1>7, Still DEF CheatClearInv, plot
    <2>5. QED BY <1>1, <2>2, <2>3, <2>4, BalanceMoves
  <1>8. ASSUME TakeWater(p) PROVE Balance(i)' = Balance(i) + One("water", i)
    <2>1. Store(i)' - Store(i) = One("water", i) BY <1>8, StoreAdds DEF TakeWater
    <2>2. /\ InHands(i)' - InHands(i) = 0 /\ Lying(i)' - Lying(i) = 0 /\ bag'[i] - bag[i] = 0
          /\ spent'[i] - spent[i] = 0 /\ given'[i] - given[i] = 0 /\ made'[i] - made[i] = 0
      BY <1>8, Still DEF TakeWater, plot
    <2>3. One("water", i) \in Int BY DEF One
    <2>4. QED BY <2>1, <2>2, <2>3, BalanceMoves
  <1>9. ASSUME NEW recipe \in Recipes, Craft(p, recipe) PROVE Balance(i)' = Balance(i)
    <2> DEFINE v == [j \in Items |-> inv[p][j] - Need[recipe][j] + IF j = recipe THEN 1 ELSE 0]
    <2>1. \A j \in Items : Need[recipe][j] \in Nat BY RecipesAssumption DEF Goods
    <2>2. v \in Goods BY <1>1, <1>9, <2>1 DEF Goods, Craft
    <2>3. inv' = [inv EXCEPT ![p] = v] BY <1>9 DEF Craft
    <2>4. v[i] = inv[p][i] - Need[recipe][i] + One(recipe, i) BY DEF One
    <2> HIDE DEF v
    <2>5. Store(i)' - Store(i) = v[i] - inv[p][i] BY <2>2, <2>3, StoreMoves
    <2>6. recipe \in Items /\ One(recipe, i) \in Int BY RecipesAssumption DEF One
    <2>7. made'[i] - made[i] = One(recipe, i)
      BY <1>2, <1>3, <1>9, <2>6 DEF One, Goods, Craft
    <2>8. spent'[i] - spent[i] = Need[recipe][i] BY <1>2, <1>9, <2>1 DEF Craft
    <2>9. /\ InHands(i)' - InHands(i) = 0 /\ Lying(i)' - Lying(i) = 0 /\ bag'[i] - bag[i] = 0
          /\ given'[i] - given[i] = 0
      BY <1>9, Still DEF Craft, plot
    <2>10. QED BY <1>1, <2>1, <2>4, <2>5, <2>6, <2>7, <2>8, <2>9, BalanceMoves
  <1>10. QED BY <1>4, <1>5, <1>6, <1>7, <1>8, <1>9 DEF CheatCommand

\* Picking up, planting and watering: goods go through the hands of the
\* handler, a planted fruit is a seed, and water that is poured is gone.
LEMMA FieldBalance ==
    ASSUME PlotInv, PlotInv', NEW p \in Players, NEW i \in Items
    PROVE  /\ PickupAdd(p) \/ PlantPut(p) \/ WaterSet(p)
                \/ (\E g \in Ids : Pickup(p, g) \/ WaterLook(p, g))
                => Balance(i)' = Balance(i)
           /\ PlantPay(p) => Balance(i)' = Balance(i) - One("fruit", i) + One("seed", i)
           /\ WaterPay(p) => Balance(i)' = Balance(i) - (poured' - poured) * One("water", i)
  <1> USE ItemsAssumption
  <1>1. \A k \in Items : One(k, i) \in Int BY DEF One
  <1>2. Fits(todo[p]) BY PlotParts DEF HandsOK
  <1>3. ASSUME PickupAdd(p) PROVE Balance(i)' = Balance(i)
    <2> DEFINE k == todo[p].item
    <2>1. k \in Items BY <1>2, <1>3 DEF Fits, PickupAdd
    <2>2. Store(i)' - Store(i) = One(k, i) BY <1>3, <2>1, StoreAdds DEF PickupAdd
    <2>3. InHands(i)' - InHands(i) = InNote(Idle, i) - InNote(todo[p], i)
      BY <1>3, HandsMove DEF PickupAdd, Done
    <2>4. InNote(Idle, i) = 0 /\ InNote(todo[p], i) = One(k, i)
      BY <1>3 DEF InNote, Idle, PickupAdd, Held, One
    <2>5. /\ Lying(i)' - Lying(i) = 0 /\ bag'[i] - bag[i] = 0 /\ spent'[i] - spent[i] = 0
          /\ given'[i] - given[i] = 0 /\ made'[i] - made[i] = 0
      BY <1>3, Still DEF PickupAdd, plot, tally
    <2>6. One(k, i) \in Int BY <1>1, <2>1
    <2> HIDE DEF k
    <2>7. QED BY <2>2, <2>3, <2>4, <2>5, <2>6, BalanceMoves
  <1>4. ASSUME PlantPut(p) PROVE Balance(i)' = Balance(i)
    <2>1. InHands(i)' - InHands(i) = InNote(Idle, i) - InNote(todo[p], i)
      BY <1>4, HandsMove DEF PlantPut, Done
    <2>2. InNote(Idle, i) = 0 /\ InNote(todo[p], i) = One("seed", i)
      BY <1>2, <1>4 DEF InNote, Idle, PlantPut, Held, One, Fits
    <2>3. NewIDs(1) \in SUBSET Fresh /\ Cardinality(NewIDs(1)) = 1
      BY <1>4, NewIDFresh DEF PlantPut
    <2>4. ground' = Put(ground, NewIDs(1), "seed") BY <1>4 DEF PlantPut
    <2>5. Lying(i)' - Lying(i) = IF i = "seed" THEN Cardinality(NewIDs(1)) ELSE 0
      BY <2>3, <2>4, LyingPuts
    <2>6. Lying(i)' - Lying(i) = One("seed", i) BY <2>3, <2>5 DEF One
    <2>7. /\ Store(i)' - Store(i) = 0 /\ bag'[i] - bag[i] = 0 /\ spent'[i] - spent[i] = 0
          /\ given'[i] - given[i] = 0 /\ made'[i] - made[i] = 0
      BY <1>4, Still DEF PlantPut, tally
    <2>8. QED BY <1>1, <2>1, <2>2, <2>6, <2>7, BalanceMoves
  <1>5. ASSUME WaterSet(p) PROVE Balance(i)' = Balance(i)
    <2>1. InHands(i)' - InHands(i) = InNote(Idle, i) - InNote(todo[p], i)
      BY <1>5, HandsMove DEF WaterSet, Done
    <2>2. InNote(Idle, i) = 0 /\ InNote(todo[p], i) = 0
      BY <1>5 DEF InNote, Idle, WaterSet, Held
    <2>3. /\ Store(i)' - Store(i) = 0 /\ Lying(i)' - Lying(i) = 0 /\ bag'[i] - bag[i] = 0
          /\ spent'[i] - spent[i] = 0 /\ given'[i] - given[i] = 0 /\ made'[i] - made[i] = 0
      BY <1>5, Still DEF WaterSet, tally
    <2>4. QED BY <2>1, <2>2, <2>3, BalanceMoves
  <1>6. ASSUME NEW g \in Ids, Pickup(p, g) PROVE Balance(i)' = Balance(i)
    <2> DEFINE k == ground[g]
    <2>1. k \in Items BY <1>6 DEF Pickup, PlotInv, TypeOK
    <2>2. Lying(i)' - Lying(i) = -One(k, i) BY <1>6, LyingTakes DEF Pickup
    <2>3. InHands(i)' - InHands(i)
            = InNote([op |-> "add", item |-> k, id |-> g], i) - InNote(todo[p], i)
      BY <1>6, HandsMove DEF Pickup, Goes
    <2>4. InNote(todo[p], i) = 0 /\ InNote([op |-> "add", item |-> k, id |-> g], i) = One(k, i)
      BY <1>6 DEF InNote, Idle, Pickup, CanAct, Held, One
    <2>5. /\ Store(i)' - Store(i) = 0 /\ bag'[i] - bag[i] = 0 /\ spent'[i] - spent[i] = 0
          /\ given'[i] - given[i] = 0 /\ made'[i] - made[i] = 0
      BY <1>6, Still DEF Pickup, tally
    <2>6. One(k, i) \in Int BY <1>1, <2>1
    <2> HIDE DEF k
    <2>7. QED BY <2>2, <2>3, <2>4, <2>5, <2>6, BalanceMoves
  <1>7. ASSUME NEW g \in Ids, WaterLook(p, g) PROVE Balance(i)' = Balance(i)
    <2>1. InHands(i)' - InHands(i)
            = InNote([op |-> "waterPay", item |-> "water", id |-> g], i) - InNote(todo[p], i)
      BY <1>7, HandsMove DEF WaterLook, Goes
    <2>2. InNote(todo[p], i) = 0 /\ InNote([op |-> "waterPay", item |-> "water", id |-> g], i) = 0
      BY <1>7 DEF InNote, Idle, WaterLook, CanAct, Held
    <2>3. /\ Store(i)' - Store(i) = 0 /\ Lying(i)' - Lying(i) = 0 /\ bag'[i] - bag[i] = 0
          /\ spent'[i] - spent[i] = 0 /\ given'[i] - given[i] = 0 /\ made'[i] - made[i] = 0
      BY <1>7, Still DEF WaterLook, plot, tally
    <2>4. QED BY <2>1, <2>2, <2>3, BalanceMoves
  <1>8. ASSUME PlantPay(p)
        PROVE  Balance(i)' = Balance(i) - One("fruit", i) + One("seed", i)
    <2>1. Store(i)' - Store(i) = -One("fruit", i) BY <1>8, StoreAdds DEF PlantPay
    <2>2. InHands(i)' - InHands(i)
            = InNote([op |-> "plant", item |-> "seed", id |-> None], i) - InNote(todo[p], i)
      BY <1>8, HandsMove DEF PlantPay, Goes
    <2>3. /\ InNote(todo[p], i) = 0
          /\ InNote([op |-> "plant", item |-> "seed", id |-> None], i) = One("seed", i)
      BY <1>8 DEF InNote, Idle, PlantPay, CanAct, Held, One
    <2>4. /\ Lying(i)' - Lying(i) = 0 /\ bag'[i] - bag[i] = 0 /\ spent'[i] - spent[i] = 0
          /\ given'[i] - given[i] = 0 /\ made'[i] - made[i] = 0
      BY <1>8, Still DEF PlantPay, plot, tally
    <2>5. One("fruit", i) \in Int /\ One("seed", i) \in Int BY <1>1
    <2>6. QED BY <2>1, <2>2, <2>3, <2>4, <2>5, BalanceMoves
  <1>9. ASSUME WaterPay(p)
        PROVE  Balance(i)' = Balance(i) - (poured' - poured) * One("water", i)
    <2>1. /\ Lying(i)' - Lying(i) = 0 /\ bag'[i] - bag[i] = 0 /\ spent'[i] - spent[i] = 0
          /\ given'[i] - given[i] = 0 /\ made'[i] - made[i] = 0
      BY <1>9, Still DEF WaterPay, plot
    <2>2. poured \in Nat /\ One("water", i) \in Int BY <1>1 DEF PlotInv, TypeOK
    <2>3. InNote(todo[p], i) = 0 BY <1>9 DEF InNote, WaterPay, Held
    <2>4. CASE inv[p]["water"] > 0
      <3>1. ConsumeItem(p, "water") /\ poured' = poured + 1
            /\ Goes(p, "waterSet", "water", todo[p].id)
        BY <1>9, <2>4 DEF WaterPay
      <3>2. Store(i)' - Store(i) = -One("water", i) BY <3>1, StoreAdds
      <3>3. InHands(i)' - InHands(i)
              = InNote([op |-> "waterSet", item |-> "water", id |-> todo[p].id], i) - InNote(todo[p], i)
        BY <3>1, HandsMove DEF Goes
      <3>4. InNote([op |-> "waterSet", item |-> "water", id |-> todo[p].id], i) = 0
        BY DEF InNote, Held
      <3>5. Balance(i)' = Balance(i) - One("water", i)
        BY <2>1, <2>2, <2>3, <3>2, <3>3, <3>4, BalanceMoves
      <3>6. poured' - poured = 1 BY <2>2, <3>1
      <3>7. QED BY <2>2, <3>5, <3>6
    <2>5. CASE ~(inv[p]["water"] > 0)
      <3>1. UNCHANGED <<inv, poured>> /\ Done(p) BY <1>9, <2>5 DEF WaterPay
      <3>2. Store(i)' - Store(i) = 0 BY <3>1, Still
      <3>3. InHands(i)' - InHands(i) = InNote(Idle, i) - InNote(todo[p], i)
        BY <3>1, HandsMove DEF Done
      <3>4. InNote(Idle, i) = 0 BY DEF InNote, Idle, Held
      <3>5. Balance(i) \in Int /\ Balance(i)' = Balance(i)
        BY <2>1, <2>3, <3>2, <3>3, <3>4, BalanceMoves
      <3>6. poured' - poured = 0 BY <2>2, <3>1
      <3>7. QED BY <2>2, <3>5, <3>6
    <2>6. QED BY <2>4, <2>5
  <1>10. QED BY <1>3, <1>4, <1>5, <1>6, <1>7, <1>8, <1>9

\* The ripe seeds leave the ground, and twice as many fruits come.
LEMMA SeedsGrow ==
    ASSUME PlotInv, TickResources, NEW i \in Items
    PROVE  /\ Cardinality(ripe) \in Nat
           /\ Lying(i)' - Lying(i) = 2 * Cardinality(ripe) * One("fruit", i)
                                       - Cardinality(ripe) * One("seed", i)
  <1> USE ItemsAssumption
  <1>1. ripe \in SUBSET Ids /\ \A g \in ripe : ground[g] = "seed" BY DEF PlotInv, TypeOK
  <1>2. IsFiniteSet(ripe) BY <1>1, FiniteAssumption, FS_Subset
  <1>3. PICK n \in Nat : n = Cardinality(ripe) BY <1>2, FS_CardinalityType
  <1>4. 2 * n \in Nat /\ 2 * n <= Cardinality(Fresh)
    <2>1. Cardinality(Fresh) >= 2 * n BY <1>3 DEF TickResources, Growing
    <2>2. IsFiniteSet(Fresh) BY FiniteAssumption, FS_Subset DEF Fresh
    <2>3. Cardinality(Fresh) \in Nat BY <2>2, FS_CardinalityType
    <2>4. QED BY <2>1, <2>3
  <1> DEFINE S == NewIDs(2 * n)
  <1>5. S \subseteq Fresh /\ IsFiniteSet(S) /\ Cardinality(S) = 2 * n BY <1>4, NewIDsFresh
  <1>6. \A g \in S : g \in Ids /\ ground[g] = None BY <1>5 DEF Fresh
  <1>7. ground' = Put(Put(ground, ripe, None), S, "fruit")
    BY <1>3 DEF TickResources, Growing
  <1> HIDE DEF S
  <1>8. IsFiniteSet(Spots(i)) BY CountsTyped
  <1>9. PICK m \in Nat : m = Cardinality(Spots(i)) BY <1>8, FS_CardinalityType
  <1>10. CASE i = "fruit"
    <2>1. Spots(i)' = Spots(i) \cup S BY <1>1, <1>6, <1>7, <1>10 DEF Spots, Put
    <2>2. Spots(i) \cap S = {} BY <1>6, <1>10 DEF Spots
    <2>3. Cardinality(Spots(i) \cup S)
            = Cardinality(Spots(i)) + Cardinality(S) - Cardinality(Spots(i) \cap S)
      BY <1>5, <1>8, FS_Union
    <2>4. Cardinality(Spots(i) \cap S) = 0 BY <2>2, FS_EmptySet
    <2>5. Lying(i) = m /\ Lying(i)' = m + 2 * n
      BY <1>5, <1>9, <2>1, <2>3, <2>4 DEF Lying
    <2>6. One("fruit", i) = 1 /\ One("seed", i) = 0 BY <1>10 DEF One
    <2>7. QED BY <1>3, <2>5, <2>6
  <1>11. CASE i = "seed"
    <2>1. Spots(i)' = Spots(i) \ ripe BY <1>1, <1>6, <1>7, <1>11 DEF Spots, Put
    <2>2. Spots(i) \cap ripe = ripe BY <1>1, <1>11 DEF Spots
    <2>3. Cardinality(Spots(i) \ ripe) = Cardinality(Spots(i)) - Cardinality(Spots(i) \cap ripe)
      BY <1>8, FS_Difference
    <2>4. Lying(i) = m /\ Lying(i)' = m - n BY <1>3, <1>9, <2>1, <2>2, <2>3 DEF Lying
    <2>5. One("fruit", i) = 0 /\ One("seed", i) = 1 BY <1>11 DEF One
    <2>6. QED BY <1>3, <2>4, <2>5
  <1>12. CASE i # "fruit" /\ i # "seed"
    <2>1. Spots(i)' = Spots(i) BY <1>1, <1>6, <1>7, <1>12 DEF Spots, Put
    <2>2. Lying(i) = m /\ Lying(i)' = m BY <1>9, <2>1 DEF Lying
    <2>3. One("fruit", i) = 0 /\ One("seed", i) = 0 BY <1>12 DEF One
    <2>4. QED BY <1>3, <2>2, <2>3
  <1>13. QED BY <1>10, <1>11, <1>12

\* The mobs and the time keep every balance; growing turns one seed into two
\* fruits.
LEMMA TickBalance ==
    ASSUME PlotInv, PlotInv', NEW i \in Items
    PROVE  /\ Ripen \/ Elapse \/ (\E g \in Ids : MobTakes(g))
                \/ (\E k \in Items : MobDrops(k)) \/ (\E p \in Players : MobDelivers(p))
                => Balance(i)' = Balance(i)
           /\ TickResources => Balance(i)' = Balance(i)
                + 2 * Cardinality(ripe) * One("fruit", i) - Cardinality(ripe) * One("seed", i)
  <1> USE ItemsAssumption
  <1>1. \A k \in Items : One(k, i) \in Int BY DEF One
  <1>2. bag \in Goods /\ bag[i] \in Nat BY DEF PlotInv, TypeOK, Goods
  <1>3. ASSUME Ripen \/ Elapse PROVE Balance(i)' = Balance(i)
    <2>1. /\ Store(i)' - Store(i) = 0 /\ InHands(i)' - InHands(i) = 0 /\ Lying(i)' - Lying(i) = 0
          /\ bag'[i] - bag[i] = 0 /\ spent'[i] - spent[i] = 0 /\ given'[i] - given[i] = 0
          /\ made'[i] - made[i] = 0
      BY <1>3, Still DEF Ripen, Elapse, plot, tally
    <2>2. QED BY <2>1, BalanceMoves
  <1>4. ASSUME NEW g \in Ids, MobTakes(g) PROVE Balance(i)' = Balance(i)
    <2> DEFINE k == ground[g]
    <2>1. k \in Items BY <1>4 DEF MobTakes, PlotInv, TypeOK
    <2>2. Lying(i)' - Lying(i) = -One(k, i) BY <1>4, LyingTakes DEF MobTakes
    <2>3. bag'[i] - bag[i] = One(k, i) BY <1>2, <1>4, <2>1 DEF MobTakes, One, Goods
    <2>4. /\ Store(i)' - Store(i) = 0 /\ InHands(i)' - InHands(i) = 0 /\ spent'[i] - spent[i] = 0
          /\ given'[i] - given[i] = 0 /\ made'[i] - made[i] = 0
      BY <1>4, Still DEF MobTakes, tally
    <2>5. One(k, i) \in Int BY <1>1, <2>1
    <2> HIDE DEF k
    <2>6. QED BY <2>2, <2>3, <2>4, <2>5, BalanceMoves
  <1>5. ASSUME NEW k \in Items, MobDrops(k) PROVE Balance(i)' = Balance(i)
    <2>1. NewIDs(1) \in SUBSET Fresh /\ Cardinality(NewIDs(1)) = 1
      BY <1>5, NewIDFresh DEF MobDrops
    <2>2. ground' = Put(ground, NewIDs(1), k) BY <1>5 DEF MobDrops
    <2>3. Lying(i)' - Lying(i) = IF i = k THEN Cardinality(NewIDs(1)) ELSE 0
      BY <2>1, <2>2, LyingPuts
    <2>4. Lying(i)' - Lying(i) = One(k, i) BY <2>1, <2>3 DEF One
    <2>5. bag'[i] - bag[i] = -One(k, i) BY <1>2, <1>5 DEF MobDrops, One, Goods
    <2>6. /\ Store(i)' - Store(i) = 0 /\ InHands(i)' - InHands(i) = 0 /\ spent'[i] - spent[i] = 0
          /\ given'[i] - given[i] = 0 /\ made'[i] - made[i] = 0
      BY <1>5, Still DEF MobDrops, tally
    <2>7. One(k, i) \in Int BY <1>1
    <2>8. QED BY <2>4, <2>5, <2>6, <2>7, BalanceMoves
  <1>6. ASSUME NEW p \in Players, MobDelivers(p) PROVE Balance(i)' = Balance(i)
    <2> DEFINE v == [j \in Items |-> inv[p][j] + bag[j]]
    <2>1. inv[p] \in Goods /\ inv[p][i] \in Nat BY DEF PlotInv, TypeOK, Goods
    <2>2. v \in Goods /\ v[i] - inv[p][i] = bag[i] BY <1>2, <2>1 DEF Goods
    <2>3. inv' = [inv EXCEPT ![p] = v] BY <1>6 DEF MobDelivers
    <2> HIDE DEF v
    <2>4. Store(i)' - Store(i) = bag[i] BY <2>2, <2>3, StoreMoves
    <2>5. bag'[i] - bag[i] = -bag[i] BY <1>2, <1>6 DEF MobDelivers, Zero
    <2>6. /\ InHands(i)' - InHands(i) = 0 /\ Lying(i)' - Lying(i) = 0 /\ spent'[i] - spent[i] = 0
          /\ given'[i] - given[i] = 0 /\ made'[i] - made[i] = 0
      BY <1>6, Still DEF MobDelivers, plot, tally
    <2>7. QED BY <1>2, <2>4, <2>5, <2>6, BalanceMoves
  <1>7. ASSUME TickResources
        PROVE  Balance(i)' = Balance(i)
                 + 2 * Cardinality(ripe) * One("fruit", i) - Cardinality(ripe) * One("seed", i)
    <2>1. /\ Store(i)' - Store(i) = 0 /\ InHands(i)' - InHands(i) = 0 /\ bag'[i] - bag[i] = 0
          /\ spent'[i] - spent[i] = 0 /\ given'[i] - given[i] = 0 /\ made'[i] - made[i] = 0
      BY <1>7, Still DEF TickResources
    <2>2. PICK n \in Nat : n = Cardinality(ripe) BY <1>7, SeedsGrow
    <2>3. PICK a \in Int, b \in Int : a = 2 * n * One("fruit", i) /\ b = n * One("seed", i)
      BY <1>1
    <2>4. Lying(i)' - Lying(i) = a - b BY <1>7, <2>2, <2>3, SeedsGrow
    <2>5. Balance(i)' = Balance(i) + a - b BY <2>1, <2>4, BalanceMoves
    <2>6. QED BY <2>2, <2>3, <2>5
  <1>8. QED BY <1>3, <1>4, <1>5, <1>6, <1>7

\* Hunting and houses: the drops of a mammoth bring a spear and meat, a house
\* that is paid for is spent when it stands.
LEMMA HuntBalance ==
    ASSUME PlotInv, PlotInv', NEW p \in Players, NEW i \in Items
    PROVE  /\ ThrowTake(p) \/ ThrowTooEarly(p) \/ Throw(p) \/ HitMammoth(p)
                \/ (\E h \in Houses : ToggleDoor(p, h))
                => Balance(i)' = Balance(i)
           /\ SpawnMammothDrops(p)
                => Balance(i)' = Balance(i) + One("meat", i) + One("spear", i)
           /\ PlaceHousePay(p) => Balance(i)' = Balance(i) - One("house", i)
           /\ (\E h \in Houses : PlaceHouse(p, h)) => Balance(i)' = Balance(i) + One("house", i)
  <1> USE ItemsAssumption
  <1>1. \A k \in Items : One(k, i) \in Int BY DEF One
  <1>2. spent \in Goods /\ spent[i] \in Nat BY DEF PlotInv, TypeOK, Goods
  <1>3. Fits(todo[p]) BY PlotParts DEF HandsOK
  <1>4. One("spear", i) \in Int /\ One("house", i) \in Int /\ One("meat", i) \in Int BY <1>1
  <1>5. InNote(Idle, i) = 0 BY DEF InNote, Idle, Held
  <1>6. ASSUME ThrowTake(p) PROVE Balance(i)' = Balance(i)
    <2>1. Store(i)' - Store(i) = -One("spear", i) BY <1>6, StoreAdds DEF ThrowTake
    <2>2. InHands(i)' - InHands(i)
            = InNote([op |-> "throw", item |-> "spear", id |-> None], i) - InNote(todo[p], i)
      BY <1>6, HandsMove DEF ThrowTake, Goes
    <2>3. /\ InNote(todo[p], i) = 0
          /\ InNote([op |-> "throw", item |-> "spear", id |-> None], i) = One("spear", i)
      BY <1>6 DEF InNote, Idle, ThrowTake, CanAct, Held, One
    <2>4. /\ Lying(i)' - Lying(i) = 0 /\ bag'[i] - bag[i] = 0 /\ spent'[i] - spent[i] = 0
          /\ given'[i] - given[i] = 0 /\ made'[i] - made[i] = 0
      BY <1>6, Still DEF ThrowTake, plot, tally
    <2>5. QED BY <1>4, <2>1, <2>2, <2>3, <2>4, BalanceMoves
  <1>7. ASSUME todo[p].op = "throw", Done(p)
        PROVE  InHands(i)' - InHands(i) = -One("spear", i)
    <2>1. InHands(i)' - InHands(i) = InNote(Idle, i) - InNote(todo[p], i)
      BY <1>7, HandsMove DEF Done
    <2>2. InNote(todo[p], i) = One("spear", i) BY <1>3, <1>7 DEF InNote, Held, One, Fits
    <2>3. QED BY <1>4, <1>5, <2>1, <2>2
  <1>8. ASSUME ThrowTooEarly(p) PROVE Balance(i)' = Balance(i)
    <2>1. Store(i)' - Store(i) = One("spear", i) BY <1>8, StoreAdds DEF ThrowTooEarly
    <2>2. InHands(i)' - InHands(i) = -One("spear", i) BY <1>7, <1>8 DEF ThrowTooEarly
    <2>3. /\ Lying(i)' - Lying(i) = 0 /\ bag'[i] - bag[i] = 0 /\ spent'[i] - spent[i] = 0
          /\ given'[i] - given[i] = 0 /\ made'[i] - made[i] = 0
      BY <1>8, Still DEF ThrowTooEarly, plot, tally
    <2>4. QED BY <1>4, <2>1, <2>2, <2>3, BalanceMoves
  <1>9. ASSUME Throw(p) PROVE Balance(i)' = Balance(i)
    <2>1. spent'[i] - spent[i] = One("spear", i) BY <1>2, <1>9 DEF Throw, One, Goods
    <2>2. InHands(i)' - InHands(i) = -One("spear", i) BY <1>7, <1>9 DEF Throw
    <2>3. /\ Store(i)' - Store(i) = 0 /\ Lying(i)' - Lying(i) = 0 /\ bag'[i] - bag[i] = 0
          /\ given'[i] - given[i] = 0 /\ made'[i] - made[i] = 0
      BY <1>9, Still DEF Throw, plot
    <2>4. QED BY <1>4, <2>1, <2>2, <2>3, BalanceMoves
  <1>10. ASSUME HitMammoth(p) PROVE Balance(i)' = Balance(i)
    <2>1. /\ Store(i)' - Store(i) = 0 /\ Lying(i)' - Lying(i) = 0 /\ bag'[i] - bag[i] = 0
          /\ spent'[i] - spent[i] = 0 /\ given'[i] - given[i] = 0 /\ made'[i] - made[i] = 0
      BY <1>10, Still DEF HitMammoth, plot, tally
    <2>2. InHands(i)' - InHands(i) = 0
      <3>1. CASE Goes(p, "drop", "spear", None)
        <4>1. InHands(i)' - InHands(i)
                = InNote([op |-> "drop", item |-> "spear", id |-> None], i) - InNote(todo[p], i)
          BY <3>1, HandsMove DEF Goes
        <4>2. /\ InNote(todo[p], i) = 0
              /\ InNote([op |-> "drop", item |-> "spear", id |-> None], i) = 0
          BY <1>10 DEF InNote, Idle, HitMammoth, CanAct, Held
        <4>3. QED BY <4>1, <4>2
      <3>2. CASE todo' = todo BY <3>2, Still
      <3>3. QED BY <1>10, <3>1, <3>2 DEF HitMammoth
    <2>3. QED BY <2>1, <2>2, BalanceMoves
  <1>11. ASSUME NEW h \in Houses, ToggleDoor(p, h) PROVE Balance(i)' = Balance(i)
    <2>1. /\ Store(i)' - Store(i) = 0 /\ InHands(i)' - InHands(i) = 0 /\ Lying(i)' - Lying(i) = 0
          /\ bag'[i] - bag[i] = 0 /\ spent'[i] - spent[i] = 0 /\ given'[i] - given[i] = 0
          /\ made'[i] - made[i] = 0
      BY <1>11, Still DEF ToggleDoor, plot, tally
    <2>2. QED BY <2>1, BalanceMoves
  <1>12. ASSUME SpawnMammothDrops(p)
         PROVE  Balance(i)' = Balance(i) + One("meat", i) + One("spear", i)
    <2>1. InHands(i)' - InHands(i) = InNote(Idle, i) - InNote(todo[p], i)
      BY <1>12, HandsMove DEF SpawnMammothDrops, Done
    <2>2. InNote(todo[p], i) = 0 BY <1>12 DEF InNote, SpawnMammothDrops, Held
    <2>3. PICK m \in Fresh, k \in Fresh :
            m # k /\ NewIDs(2) = {m, k} /\ m = CHOOSE g \in NewIDs(2) : TRUE
      BY <1>12, DropsFresh DEF SpawnMammothDrops
    <2>4. ground' = Put(Put(ground, {m}, "meat"), NewIDs(2) \ {m}, "spear")
      BY <1>12, <2>3 DEF SpawnMammothDrops
    <2>5. NewIDs(2) \ {m} = {k} BY <2>3
    <2>6. /\ m \in Ids /\ k \in Ids /\ ground[m] = None /\ ground[k] = None BY DEF Fresh
    <2>7. Spots(i)' = Spots(i) \cup (IF i = "meat" THEN {m} ELSE {})
                               \cup (IF i = "spear" THEN {k} ELSE {})
      BY <2>3, <2>4, <2>5, <2>6 DEF Spots, Put
    <2>8. m \notin Spots(i) /\ k \notin Spots(i) BY <2>6 DEF Spots
    <2>9. IsFiniteSet(Spots(i)) BY CountsTyped
    <2>10. PICK n \in Nat : n = Cardinality(Spots(i)) BY <2>9, FS_CardinalityType
    <2>11. Cardinality(Spots(i) \cup {m}) = n + 1 /\ Cardinality(Spots(i) \cup {k}) = n + 1
      BY <2>8, <2>9, <2>10, FS_AddElement
    <2>12. Lying(i)' - Lying(i) = One("meat", i) + One("spear", i)
      <3>1. CASE i = "meat"
        <4>1. Spots(i)' = Spots(i) \cup {m} BY <2>7, <3>1
        <4>2. Lying(i) = n /\ Lying(i)' = n + 1 BY <2>10, <2>11, <4>1 DEF Lying
        <4>3. QED BY <3>1, <4>2 DEF One
      <3>2. CASE i = "spear"
        <4>1. Spots(i)' = Spots(i) \cup {k} BY <2>7, <3>2
        <4>2. Lying(i) = n /\ Lying(i)' = n + 1 BY <2>10, <2>11, <4>1 DEF Lying
        <4>3. QED BY <3>2, <4>2 DEF One
      <3>3. CASE i # "meat" /\ i # "spear"
        <4>1. Spots(i)' = Spots(i) BY <2>7, <3>3
        <4>2. Lying(i) = n /\ Lying(i)' = n BY <2>10, <4>1 DEF Lying
        <4>3. QED BY <3>3, <4>2 DEF One
      <3>4. QED BY <3>1, <3>2, <3>3
    <2>13. /\ Store(i)' - Store(i) = 0 /\ bag'[i] - bag[i] = 0 /\ spent'[i] - spent[i] = 0
          /\ given'[i] - given[i] = 0 /\ made'[i] - made[i] = 0
      BY <1>12, Still DEF SpawnMammothDrops, tally
    <2>14. QED BY <1>4, <1>5, <2>1, <2>2, <2>12, <2>13, BalanceMoves
  <1>13. ASSUME PlaceHousePay(p) PROVE Balance(i)' = Balance(i) - One("house", i)
    <2>1. Store(i)' - Store(i) = -One("house", i) BY <1>13, StoreAdds DEF PlaceHousePay
    <2>2. InHands(i)' - InHands(i)
            = InNote([op |-> "house", item |-> "house", id |-> None], i) - InNote(todo[p], i)
      BY <1>13, HandsMove DEF PlaceHousePay, Goes
    <2>3. /\ InNote(todo[p], i) = 0
          /\ InNote([op |-> "house", item |-> "house", id |-> None], i) = 0
      BY <1>13 DEF InNote, Idle, PlaceHousePay, CanAct, Held
    <2>4. /\ Lying(i)' - Lying(i) = 0 /\ bag'[i] - bag[i] = 0 /\ spent'[i] - spent[i] = 0
          /\ given'[i] - given[i] = 0 /\ made'[i] - made[i] = 0
      BY <1>13, Still DEF PlaceHousePay, plot, tally
    <2>5. QED BY <1>4, <2>1, <2>2, <2>3, <2>4, BalanceMoves
  <1>14. ASSUME NEW h \in Houses, PlaceHouse(p, h) PROVE Balance(i)' = Balance(i) + One("house", i)
    <2>1. spent'[i] - spent[i] = One("house", i) BY <1>2, <1>14 DEF PlaceHouse, One, Goods
    <2>2. InHands(i)' - InHands(i) = InNote(Idle, i) - InNote(todo[p], i)
      BY <1>14, HandsMove DEF PlaceHouse, Done
    <2>3. InNote(todo[p], i) = 0 BY <1>14 DEF InNote, PlaceHouse, Held
    <2>4. /\ Store(i)' - Store(i) = 0 /\ Lying(i)' - Lying(i) = 0 /\ bag'[i] - bag[i] = 0
          /\ given'[i] - given[i] = 0 /\ made'[i] - made[i] = 0
      BY <1>14, Still DEF PlaceHouse, plot
    <2>5. QED BY <1>4, <1>5, <2>1, <2>2, <2>3, <2>4, BalanceMoves
  <1>15. QED BY <1>6, <1>8, <1>9, <1>10, <1>11, <1>12, <1>13, <1>14

-----------------------------------------------------------------------------
(* The ledgers *)

\* The handlers that are at one stage.
AtOp(o) == {p \in Players : todo[p].op = o}
OpCount(o) == Cardinality(AtOp(o))

\* A handler that goes from one stage to another.
LEMMA OpMoves ==
    ASSUME PlotInv, NEW p \in Players, NEW t, todo' = [todo EXCEPT ![p] = t], NEW o
    PROVE  /\ OpCount(o) \in Nat
           /\ OpCount(o)' = OpCount(o) + (IF t.op = o THEN 1 ELSE 0)
                                       - (IF todo[p].op = o THEN 1 ELSE 0)
  <1> DEFINE A == AtOp(o)
             R == A \ {p}
  <1>1. todo'[p] = t /\ \A q \in Players \ {p} : todo'[q] = todo[q] BY DEF PlotInv, TypeOK
  <1>2. A \in SUBSET Players BY DEF AtOp
  <1>3. IsFiniteSet(A) BY <1>2, FiniteAssumption, FS_Subset
  <1>4. IsFiniteSet(R) /\ Cardinality(R) = IF p \in A THEN Cardinality(A) - 1 ELSE Cardinality(A)
    BY <1>3, FS_RemoveElement
  <1>5. p \in A <=> todo[p].op = o BY DEF AtOp
  <1>6. AtOp(o)' = IF t.op = o THEN R \cup {p} ELSE R BY <1>1 DEF AtOp
  <1>7. Cardinality(R \cup {p}) = Cardinality(R) + 1 BY <1>4, FS_AddElement
  <1>8. OpCount(o) = Cardinality(A) BY DEF OpCount
  <1>9. OpCount(o)' = Cardinality(IF t.op = o THEN R \cup {p} ELSE R) BY <1>6 DEF OpCount
  <1>10. Cardinality(A) \in Nat BY <1>3, FS_CardinalityType
  <1> HIDE DEF A, R
  <1>11. PICK n \in Nat : n = Cardinality(A) BY <1>10
  <1>12. QED BY <1>4, <1>5, <1>7, <1>8, <1>9, <1>11

\* The stages that the ledgers count change with the actions that they are of.
LEMMA OpsKept ==
    ASSUME PlotInv, [Next]_vars
    PROVE  /\ \/ OpCount("drop")' = OpCount("drop") /\ kills' = kills
              \/ \E p \in Players : HitMammoth(p) \/ SpawnMammothDrops(p)
           /\ \/ OpCount("waterSet")' = OpCount("waterSet") /\ poured' = poured
              \/ \E p \in Players : WaterPay(p) \/ WaterSet(p)
           /\ grown' = grown \/ TickResources
           /\ drawn' = drawn \/ \E p \in Players : TakeWater(p)
  <1> DEFINE Kp(o) == OpCount(o)' = OpCount(o)
  <1>1. ASSUME todo' = todo, NEW o PROVE Kp(o) BY <1>1 DEF OpCount, AtOp
  <1>2. ASSUME NEW p \in Players, NEW t, todo' = [todo EXCEPT ![p] = t], NEW o,
               t.op # o, todo[p].op # o
        PROVE  Kp(o)
    <2>1. /\ OpCount(o) \in Nat
          /\ OpCount(o)' = OpCount(o) + (IF t.op = o THEN 1 ELSE 0)
                                      - (IF todo[p].op = o THEN 1 ELSE 0)
      BY <1>2, OpMoves
    <2>2. QED BY <1>2, <2>1
  <1> HIDE DEF Kp
  <1>2a. ASSUME NEW p \in Players, NEW op, NEW item, NEW id, Goes(p, op, item, id), NEW o,
                op # o, todo[p].op # o
         PROVE  Kp(o)
    <2> DEFINE t == [op |-> op, item |-> item, id |-> id]
    <2>1. t.op # o BY <1>2a
    <2>2. todo' = [todo EXCEPT ![p] = t] BY <1>2a DEF Goes
    <2> HIDE DEF t
    <2>3. QED BY <1>2, <1>2a, <2>1, <2>2
  <1>2b. ASSUME NEW p \in Players, Done(p), NEW o, o # "idle", todo[p].op # o PROVE Kp(o)
    <2>1. Idle.op # o /\ todo' = [todo EXCEPT ![p] = Idle] BY <1>2b DEF Done, Idle
    <2>2. QED BY <1>2, <1>2b, <2>1
  <1> DEFINE K == Kp("drop") /\ Kp("waterSet")
  <1>3. ASSUME NEW p \in Players, NEW t, todo' = [todo EXCEPT ![p] = t],
               t.op \notin {"drop", "waterSet"}, todo[p].op \notin {"drop", "waterSet"}
        PROVE  K
    BY <1>2, <1>3
  <1>4. ASSUME NEW p \in Players,
               \/ Eat(p) \/ CheatCommand(p) \/ (\E recipe \in Recipes : Craft(p, recipe))
               \/ MobDelivers(p) \/ \E h \in Houses : ToggleDoor(p, h)
        PROVE  K /\ UNCHANGED <<kills, poured, grown, drawn>>
    <2>1. todo' = todo /\ UNCHANGED <<kills, poured, grown, drawn>>
      BY <1>4 DEF Eat, CheatCommand, CheatGet, CheatAllInv, CheatClearInv, Craft, MobDelivers,
                  ToggleDoor, hunt, tally
    <2>2. QED BY <1>1, <2>1
  <1>5. ASSUME NEW p \in Players, TakeWater(p)
        PROVE  K /\ UNCHANGED <<kills, poured, grown>>
    <2>1. todo' = todo /\ UNCHANGED <<kills, poured, grown>> BY <1>5 DEF TakeWater, hunt
    <2>2. QED BY <1>1, <2>1
  <1>6. ASSUME NEW p \in Players, PickupAdd(p) \/ PlantPut(p) \/ ThrowTooEarly(p) \/ Throw(p)
                                    \/ \E h \in Houses : PlaceHouse(p, h)
        PROVE  K /\ UNCHANGED <<kills, poured, grown, drawn>>
    <2>1. UNCHANGED <<kills, poured, grown, drawn>>
      BY <1>6 DEF PickupAdd, PlantPut, ThrowTooEarly, Throw, PlaceHouse, hunt, tally
    <2>2. todo' = [todo EXCEPT ![p] = Idle] /\ todo[p].op \in {"add", "plant", "throw", "house"}
      BY <1>6 DEF PickupAdd, PlantPut, ThrowTooEarly, Throw, PlaceHouse, Done
    <2>3. Idle.op \notin {"drop", "waterSet"} /\ todo[p].op \notin {"drop", "waterSet"}
      BY <2>2 DEF Idle
    <2>4. QED BY <1>3, <2>1, <2>2, <2>3
  <1>7. ASSUME NEW p \in Players, PlantPay(p) \/ ThrowTake(p) \/ PlaceHousePay(p)
                                    \/ \E g \in Ids : Pickup(p, g) \/ WaterLook(p, g)
        PROVE  K /\ UNCHANGED <<kills, poured, grown, drawn>>
    <2>1. UNCHANGED <<kills, poured, grown, drawn>>
      BY <1>7 DEF PlantPay, ThrowTake, PlaceHousePay, Pickup, WaterLook, hunt, tally
    <2>2. todo[p].op = "idle"
      BY <1>7 DEF PlantPay, ThrowTake, PlaceHousePay, Pickup, WaterLook, CanAct, Idle
    <2>3. PICK op \in {"add", "plant", "throw", "house", "waterPay"} :
            \E item, id : Goes(p, op, item, id)
      BY <1>7 DEF PlantPay, ThrowTake, PlaceHousePay, Pickup, WaterLook
    <2>4. QED BY <1>2a, <2>1, <2>2, <2>3
  <1>8. ASSUME NEW p \in Players, WaterPay(p) \/ WaterSet(p)
        PROVE  Kp("drop") /\ UNCHANGED <<kills, grown, drawn>>
    <2>1. UNCHANGED <<kills, grown, drawn>> BY <1>8 DEF WaterPay, WaterSet, hunt, tally
    <2>2. Done(p) \/ Goes(p, "waterSet", "water", todo[p].id) BY <1>8 DEF WaterPay, WaterSet
    <2>3. todo[p].op # "drop" BY <1>8 DEF WaterPay, WaterSet
    <2>4. CASE Done(p) BY <1>2b, <2>1, <2>3, <2>4
    <2>5. CASE Goes(p, "waterSet", "water", todo[p].id) BY <1>2a, <2>1, <2>3, <2>5
    <2>6. QED BY <2>2, <2>4, <2>5
  <1>9. ASSUME NEW p \in Players, HitMammoth(p) \/ SpawnMammothDrops(p)
        PROVE  Kp("waterSet") /\ UNCHANGED <<poured, grown, drawn>>
    <2>1. UNCHANGED <<poured, grown, drawn>> BY <1>9 DEF HitMammoth, SpawnMammothDrops, tally
    <2>2. todo[p].op # "waterSet" BY <1>9 DEF HitMammoth, SpawnMammothDrops, CanAct, Idle
    <2>3. CASE todo' = todo BY <1>1, <2>1, <2>3
    <2>4. CASE Done(p) BY <1>2b, <2>1, <2>2, <2>4
    <2>5. CASE Goes(p, "drop", "spear", None) BY <1>2a, <2>1, <2>2, <2>5
    <2>6. QED BY <1>9, <2>3, <2>4, <2>5 DEF HitMammoth, SpawnMammothDrops
  <1>10. ASSUME Ripen \/ Elapse \/ (\E g \in Ids : MobTakes(g)) \/ (\E k \in Items : MobDrops(k))
         PROVE  K /\ UNCHANGED <<kills, poured, grown, drawn>>
    <2>1. todo' = todo /\ UNCHANGED <<kills, poured, grown, drawn>>
      BY <1>10 DEF Ripen, Elapse, MobTakes, MobDrops, hunt, tally
    <2>2. QED BY <1>1, <2>1
  <1>11. ASSUME TickResources PROVE K /\ UNCHANGED <<kills, poured, drawn>>
    <2>1. todo' = todo /\ UNCHANGED <<kills, poured, drawn>> BY <1>11 DEF TickResources, hunt
    <2>2. QED BY <1>1, <2>1
  <1>12. ASSUME UNCHANGED vars PROVE K /\ UNCHANGED <<kills, poured, grown, drawn>>
    <2>1. todo' = todo /\ UNCHANGED <<kills, poured, grown, drawn>> BY <1>12 DEF vars
    <2>2. QED BY <1>1, <2>1
  <1>13. QED
    BY <1>4, <1>5, <1>6, <1>7, <1>8, <1>9, <1>10, <1>11, <1>12 DEF Next, Handler, Kp

\* Every step keeps the balance of every item but those an action is known to
\* make or to use up.
LEMMA BalanceKept ==
    ASSUME PlotInv, PlotInv', [Next]_vars, NEW i \in Items
    PROVE  \/ Balance(i)' = Balance(i)
           \/ i = "water" /\ \E p \in Players : TakeWater(p) \/ WaterPay(p)
           \/ i \in {"fruit", "seed"} /\ (TickResources \/ \E p \in Players : PlantPay(p))
           \/ i \in {"meat", "spear"} /\ \E p \in Players : SpawnMammothDrops(p)
           \/ i = "house"
  <1> USE ItemsAssumption
  <1>1. Balance(i) \in Int BY BalanceMoves
  <1>2. ASSUME NEW p \in Players,
               \/ Eat(p) \/ CheatCommand(p) \/ TakeWater(p)
               \/ \E recipe \in Recipes : Craft(p, recipe)
        PROVE  Balance(i)' = Balance(i) \/ (i = "water" /\ TakeWater(p))
    BY <1>1, <1>2, GoodsBalance DEF One
  <1>3. ASSUME NEW p \in Players,
               \/ PickupAdd(p) \/ PlantPay(p) \/ PlantPut(p) \/ WaterPay(p) \/ WaterSet(p)
               \/ \E g \in Ids : Pickup(p, g) \/ WaterLook(p, g)
        PROVE  \/ Balance(i)' = Balance(i)
               \/ i \in {"fruit", "seed"} /\ PlantPay(p)
               \/ i = "water" /\ WaterPay(p)
    <2>1. CASE PlantPay(p) BY <1>1, <2>1, FieldBalance DEF One
    <2>2. CASE WaterPay(p)
      <3>1. poured' - poured \in Int BY DEF PlotInv, TypeOK
      <3>2. Balance(i)' = Balance(i) - (poured' - poured) * One("water", i)
        BY <2>2, FieldBalance
      <3>3. QED BY <1>1, <2>2, <3>1, <3>2 DEF One
    <2>3. QED BY <1>3, <2>1, <2>2, FieldBalance
  <1>4. ASSUME NEW p \in Players,
               \/ ThrowTake(p) \/ ThrowTooEarly(p) \/ Throw(p) \/ HitMammoth(p)
               \/ SpawnMammothDrops(p) \/ PlaceHousePay(p)
               \/ \E h \in Houses : PlaceHouse(p, h) \/ ToggleDoor(p, h)
        PROVE  \/ Balance(i)' = Balance(i)
               \/ i \in {"meat", "spear"} /\ SpawnMammothDrops(p)
               \/ i = "house"
    BY <1>1, <1>4, HuntBalance DEF One
  <1>5. ASSUME Ripen \/ Elapse \/ (\E g \in Ids : MobTakes(g))
                 \/ (\E k \in Items : MobDrops(k)) \/ (\E p \in Players : MobDelivers(p))
        PROVE  Balance(i)' = Balance(i)
    BY <1>5, TickBalance
  <1>6. ASSUME TickResources PROVE Balance(i)' = Balance(i) \/ i \in {"fruit", "seed"}
    <2>1. Cardinality(ripe) \in Nat BY <1>6, SeedsGrow
    <2>2. Balance(i)' = Balance(i)
            + 2 * Cardinality(ripe) * One("fruit", i) - Cardinality(ripe) * One("seed", i)
      BY <1>6, TickBalance
    <2>3. QED BY <1>1, <2>1, <2>2 DEF One
  <1>7. ASSUME UNCHANGED vars PROVE Balance(i)' = Balance(i)
    BY <1>7 DEF vars, Balance, Total, InHands, Started
  <1>8. QED BY <1>2, <1>3, <1>4, <1>5, <1>6, <1>7 DEF Next, Handler

\* Every step keeps the ledger of the fruit: a planted fruit is a seed, a seed
\* that grows is two fruits.
LEMMA FruitStep ==
    ASSUME PlotInv, PlotInv', FruitLedger, [Next]_vars
    PROVE  FruitLedger'
  <1> USE ItemsAssumption
  <1>1. PICK a \in Int, b \in Int : a = Balance("fruit") /\ b = Balance("seed")
    BY BalanceMoves
  <1>2. a + b = grown BY <1>1 DEF FruitLedger
  <1>3. /\ One("fruit", "fruit") = 1 /\ One("seed", "fruit") = 0
        /\ One("fruit", "seed") = 0 /\ One("seed", "seed") = 1
    BY DEF One
  <1>4. CASE TickResources
    <2>1. PICK n \in Nat : n = Cardinality(ripe) BY <1>4, SeedsGrow
    <2>2. Balance("fruit")' = Balance("fruit")
            + 2 * Cardinality(ripe) * One("fruit", "fruit") - Cardinality(ripe) * One("seed", "fruit")
      BY <1>4, TickBalance
    <2>3. Balance("seed")' = Balance("seed")
            + 2 * Cardinality(ripe) * One("fruit", "seed") - Cardinality(ripe) * One("seed", "seed")
      BY <1>4, TickBalance
    <2>4. Balance("fruit")' = a + 2 * n /\ Balance("seed")' = b - n
      BY <1>1, <1>3, <2>1, <2>2, <2>3
    <2>5. grown' = grown + n BY <1>4, <2>1 DEF TickResources, Growing
    <2>6. QED BY <1>2, <2>4, <2>5 DEF FruitLedger
  <1>5. ASSUME NEW p \in Players, PlantPay(p) PROVE FruitLedger'
    <2>1. /\ Balance("fruit")' = Balance("fruit") - One("fruit", "fruit") + One("seed", "fruit")
          /\ Balance("seed")' = Balance("seed") - One("fruit", "seed") + One("seed", "seed")
      BY <1>5, FieldBalance
    <2>2. Balance("fruit")' = a - 1 /\ Balance("seed")' = b + 1 BY <1>1, <1>3, <2>1
    <2>3. grown' = grown BY <1>5 DEF PlantPay, tally
    <2>4. QED BY <1>2, <2>2, <2>3 DEF FruitLedger
  <1>6. CASE ~TickResources /\ ~\E p \in Players : PlantPay(p)
    <2>1. Balance("fruit")' = Balance("fruit") /\ Balance("seed")' = Balance("seed")
      BY <1>6, BalanceKept
    <2>2. grown' = grown BY <1>6, OpsKept
    <2>3. QED BY <1>1, <1>2, <2>1, <2>2 DEF FruitLedger
  <1>7. QED BY <1>4, <1>5, <1>6

\* Every step keeps the ledger of the spears: a dead mammoth has one, which is
\* counted when spawnMammothDrops has put it on the ground.
LEMMA SpearStep ==
    ASSUME PlotInv, PlotInv', SpearLedger, [Next]_vars
    PROVE  SpearLedger'
  <1> USE ItemsAssumption
  <1>1. PICK a \in Int : a = Balance("spear") BY BalanceMoves
  <1>2. a = kills - OpCount("drop") BY <1>1 DEF SpearLedger, OpCount, AtOp
  <1>3. ASSUME Balance("spear")' = kills' - OpCount("drop")' PROVE SpearLedger'
    BY <1>3 DEF SpearLedger, OpCount, AtOp
  <1>4. kills \in Nat BY DEF PlotInv, TypeOK
  <1>5. ASSUME NEW p \in Players, SpawnMammothDrops(p) PROVE SpearLedger'
    <2>1. Balance("spear")' = Balance("spear") + One("meat", "spear") + One("spear", "spear")
      BY <1>5, HuntBalance
    <2>2. Balance("spear")' = a + 1 BY <1>1, <2>1 DEF One
    <2>3. todo' = [todo EXCEPT ![p] = Idle] /\ todo[p].op = "drop" /\ kills' = kills
      BY <1>5 DEF SpawnMammothDrops, Done, hunt
    <2>4. /\ OpCount("drop") \in Nat
          /\ OpCount("drop")' = OpCount("drop") + (IF Idle.op = "drop" THEN 1 ELSE 0)
                                                - (IF todo[p].op = "drop" THEN 1 ELSE 0)
      BY ZenonT(40), <2>3, OpMoves
    <2>5. OpCount("drop")' = OpCount("drop") - 1 BY <2>3, <2>4 DEF Idle
    <2>6. QED BY <1>2, <1>3, <1>4, <2>2, <2>3, <2>4, <2>5
  <1>6. ASSUME NEW p \in Players, HitMammoth(p) PROVE SpearLedger'
    <2>1. Balance("spear")' = Balance("spear") BY <1>6, HuntBalance
    <2>2. CASE UNCHANGED <<herd, kills, todo>>
      <3>1. OpCount("drop")' = OpCount("drop") BY <2>2 DEF OpCount, AtOp
      <3>2. QED BY <1>1, <1>2, <1>3, <2>1, <2>2, <3>1
    <2>3. CASE kills' = kills + 1 /\ Goes(p, "drop", "spear", None)
      <3> DEFINE t == [op |-> "drop", item |-> "spear", id |-> None]
      <3>1. todo' = [todo EXCEPT ![p] = t] /\ t.op = "drop" BY <2>3 DEF Goes
      <3>2. todo[p].op = "idle" BY <1>6 DEF HitMammoth, CanAct, Idle
      <3> HIDE DEF t
      <3>3. /\ OpCount("drop") \in Nat
            /\ OpCount("drop")' = OpCount("drop") + (IF t.op = "drop" THEN 1 ELSE 0)
                                                  - (IF todo[p].op = "drop" THEN 1 ELSE 0)
        BY <3>1, OpMoves
      <3>4. OpCount("drop")' = OpCount("drop") + 1 BY <3>1, <3>2, <3>3
      <3>5. QED BY <1>1, <1>2, <1>3, <1>4, <2>1, <2>3, <3>3, <3>4
    <2>4. QED BY <1>6, <2>2, <2>3 DEF HitMammoth
  <1>7. CASE ~\E p \in Players : HitMammoth(p) \/ SpawnMammothDrops(p)
    <2>1. Balance("spear")' = Balance("spear") BY <1>7, BalanceKept
    <2>2. OpCount("drop")' = OpCount("drop") /\ kills' = kills BY <1>7, OpsKept
    <2>3. QED BY <1>1, <1>2, <1>3, <2>1, <2>2
  <1>8. QED BY <1>5, <1>6, <1>7

\* Only watering wets a seed; a mob or the harvest takes wet seeds away.
LEMMA WateredMoves ==
    ASSUME [Next]_vars
    PROVE  \/ watered' = watered
           \/ \E p \in Players : WaterSet(p)
           \/ \E g \in Ids : MobTakes(g)
           \/ TickResources
  <1>1. ASSUME NEW p \in Players,
               \/ Eat(p) \/ CheatCommand(p) \/ TakeWater(p)
               \/ \E recipe \in Recipes : Craft(p, recipe)
        PROVE  watered' = watered
    BY <1>1 DEF Eat, CheatCommand, CheatGet, CheatAllInv, CheatClearInv, TakeWater, Craft, plot
  <1>2. ASSUME NEW p \in Players,
               \/ PickupAdd(p) \/ PlantPay(p) \/ PlantPut(p) \/ WaterPay(p) \/ MobDelivers(p)
               \/ \E g \in Ids : Pickup(p, g) \/ WaterLook(p, g)
        PROVE  watered' = watered
    BY <1>2 DEF PickupAdd, PlantPay, PlantPut, WaterPay, MobDelivers, Pickup, WaterLook, plot
  <1>3. ASSUME NEW p \in Players,
               \/ ThrowTake(p) \/ ThrowTooEarly(p) \/ Throw(p) \/ HitMammoth(p)
               \/ SpawnMammothDrops(p) \/ PlaceHousePay(p)
               \/ \E h \in Houses : PlaceHouse(p, h) \/ ToggleDoor(p, h)
        PROVE  watered' = watered
    BY <1>3 DEF ThrowTake, ThrowTooEarly, Throw, HitMammoth, SpawnMammothDrops, PlaceHousePay,
                PlaceHouse, ToggleDoor, plot
  <1>4. ASSUME Ripen \/ Elapse \/ (\E k \in Items : MobDrops(k)) \/ UNCHANGED vars
        PROVE  watered' = watered
    BY <1>4 DEF Ripen, Elapse, MobDrops, vars, plot
  <1>5. QED BY <1>1, <1>2, <1>3, <1>4 DEF Next, Handler

\* Water that was paid for and has not reached its seed is still to come.
WaterInv == grown + Cardinality(watered) + OpCount("waterSet") <= poured

\* Every step keeps the ledger of the water and what is still to be poured.
LEMMA WaterStep ==
    ASSUME PlotInv, PlotInv', WaterLedger, WaterInv, [Next]_vars
    PROVE  WaterLedger' /\ WaterInv'
  <1> USE ItemsAssumption
  <1>1. PICK a \in Int : a = Balance("water") BY BalanceMoves
  <1>2. drawn \in Nat /\ poured \in Nat /\ grown \in Nat /\ poured' \in Nat /\ grown' \in Nat
    BY DEF PlotInv, TypeOK
  <1>3. a + poured = drawn BY <1>1 DEF WaterLedger
  <1>4. watered \in SUBSET Ids /\ watered' \in SUBSET Ids /\ ripe \in SUBSET watered
    BY DEF PlotInv, TypeOK
  <1>5. IsFiniteSet(watered) /\ IsFiniteSet(watered') BY <1>4, FiniteAssumption, FS_Subset
  <1>6. PICK n \in Nat, m \in Nat : n = Cardinality(watered) /\ m = Cardinality(watered')
    BY <1>5, FS_CardinalityType
  <1>7. /\ AtOp("waterSet") \in SUBSET Players /\ AtOp("waterSet")' \in SUBSET Players
    BY DEF AtOp
  <1>8. IsFiniteSet(AtOp("waterSet")) /\ IsFiniteSet(AtOp("waterSet")')
    BY <1>7, FiniteAssumption, FS_Subset
  <1>9. PICK k \in Nat, l \in Nat : k = OpCount("waterSet") /\ l = OpCount("waterSet")'
    BY <1>8, FS_CardinalityType DEF OpCount
  <1>10. grown + n + k <= poured BY <1>6, <1>9 DEF WaterInv
  <1>11. ASSUME Balance("water")' + poured' = drawn', grown' + m + l <= poured'
         PROVE  WaterLedger' /\ WaterInv'
    <2>1. WaterInv' BY <1>6, <1>9, <1>11 DEF WaterInv
    <2>2. grown' + m <= poured'
      <3>1. PICK x \in Nat, y \in Nat : x = grown' /\ y = poured' BY <1>2
      <3>2. x + m + l <= y BY <1>11, <3>1
      <3>3. x + m <= y BY <3>2
      <3>4. QED BY <3>1, <3>3
    <2>3. WaterLedger' BY <1>6, <1>11, <2>2 DEF WaterLedger
    <2>4. QED BY <2>1, <2>3
  <1>12. One("water", "water") = 1 BY DEF One
  <1>13. ASSUME NEW p \in Players, TakeWater(p) PROVE WaterLedger' /\ WaterInv'
    <2>1. Balance("water")' = Balance("water") + One("water", "water") BY <1>13, GoodsBalance
    <2>2. drawn' = drawn + 1 /\ poured' = poured /\ grown' = grown /\ todo' = todo /\ watered' = watered
      BY <1>13 DEF TakeWater, plot
    <2>3. m = n /\ l = k BY <1>6, <1>9, <2>2 DEF OpCount, AtOp
    <2>4. Balance("water")' + poured' = drawn' BY <1>1, <1>2, <1>3, <1>12, <2>1, <2>2
    <2>5. grown' + m + l <= poured' BY <1>10, <2>2, <2>3
    <2>6. QED BY <1>11, <2>4, <2>5
  <1>14. ASSUME NEW p \in Players, WaterPay(p) PROVE WaterLedger' /\ WaterInv'
    <2>1. Balance("water")' = Balance("water") - (poured' - poured) * One("water", "water")
      BY <1>14, FieldBalance
    <2>2. drawn' = drawn /\ grown' = grown /\ watered' = watered BY <1>14 DEF WaterPay, plot
    <2>3. Balance("water")' + poured' = drawn' BY <1>1, <1>2, <1>3, <1>12, <2>1, <2>2
    <2>4. m = n BY <1>6, <2>2
    <2>5. todo[p].op = "waterPay" BY <1>14 DEF WaterPay
    <2>6. CASE poured' = poured + 1 /\ Goes(p, "waterSet", "water", todo[p].id)
      <3> DEFINE t == [op |-> "waterSet", item |-> "water", id |-> todo[p].id]
      <3>1. todo' = [todo EXCEPT ![p] = t] /\ t.op = "waterSet" BY <2>6 DEF Goes
      <3> HIDE DEF t
      <3>2. OpCount("waterSet")' = OpCount("waterSet") + (IF t.op = "waterSet" THEN 1 ELSE 0)
                                     - (IF todo[p].op = "waterSet" THEN 1 ELSE 0)
        BY <3>1, OpMoves
      <3>3. l = k + 1 BY <1>9, <2>5, <3>1, <3>2
      <3>4. grown' + m + l <= poured' BY <1>2, <1>10, <2>2, <2>4, <2>6, <3>3
      <3>5. QED BY <1>11, <2>3, <3>4
    <2>7. CASE poured' = poured /\ Done(p)
      <3>1. todo' = [todo EXCEPT ![p] = Idle] BY <2>7 DEF Done
      <3>2. OpCount("waterSet")' = OpCount("waterSet") + (IF Idle.op = "waterSet" THEN 1 ELSE 0)
                                     - (IF todo[p].op = "waterSet" THEN 1 ELSE 0)
        BY <3>1, OpMoves
      <3>3. l = k BY <1>9, <2>5, <3>2 DEF Idle
      <3>4. grown' + m + l <= poured' BY <1>10, <2>2, <2>4, <2>7, <3>3
      <3>5. QED BY <1>11, <2>3, <3>4
    <2>8. QED BY <1>14, <2>6, <2>7 DEF WaterPay
  <1>15. ASSUME NEW p \in Players, WaterSet(p) PROVE WaterLedger' /\ WaterInv'
    <2>1. Balance("water")' = Balance("water") BY <1>15, FieldBalance
    <2>2. drawn' = drawn /\ grown' = grown /\ poured' = poured BY <1>15 DEF WaterSet, tally
    <2>3. Balance("water")' + poured' = drawn' BY <1>1, <1>3, <2>1, <2>2
    <2>4. todo' = [todo EXCEPT ![p] = Idle] /\ todo[p].op = "waterSet"
      BY <1>15 DEF WaterSet, Done
    <2>5. OpCount("waterSet")' = OpCount("waterSet") + (IF Idle.op = "waterSet" THEN 1 ELSE 0)
                                   - (IF todo[p].op = "waterSet" THEN 1 ELSE 0)
      BY ZenonT(40), <2>4, OpMoves
    <2>6. l = k - 1 BY <1>9, <2>4, <2>5 DEF Idle
    <2>7. watered' = watered \/ watered' = watered \cup {todo[p].id} BY <1>15 DEF WaterSet
    <2>8. Cardinality(watered \cup {todo[p].id})
            = IF todo[p].id \in watered THEN Cardinality(watered) ELSE Cardinality(watered) + 1
      BY <1>5, FS_AddElement
    <2>9. m <= n + 1
      <3>1. CASE watered' = watered BY <1>6, <3>1
      <3>2. CASE watered' = watered \cup {todo[p].id} BY <1>6, <2>8, <3>2
      <3>3. QED BY <2>7, <3>1, <3>2
    <2>10. grown' + m + l <= poured' BY <1>2, <1>10, <2>2, <2>6, <2>9
    <2>11. QED BY <1>11, <2>3, <2>10
  <1>16. CASE TickResources
    <2>1. Cardinality(ripe) \in Nat BY <1>16, SeedsGrow
    <2>2. PICK r \in Nat : r = Cardinality(ripe) BY <2>1
    <2>3. Balance("water")' = Balance("water")
      <3>1. Balance("water")' = Balance("water") + 2 * Cardinality(ripe) * One("fruit", "water")
                                  - Cardinality(ripe) * One("seed", "water")
        BY <1>16, TickBalance
      <3>2. One("fruit", "water") = 0 /\ One("seed", "water") = 0 BY DEF One
      <3>3. QED BY <1>1, <2>1, <3>1, <3>2
    <2>4. /\ drawn' = drawn /\ poured' = poured /\ grown' = grown + r
          /\ todo' = todo /\ watered' = watered \ ripe
      BY <1>16, <2>2 DEF TickResources, Growing
    <2>5. Cardinality(watered \ ripe) = Cardinality(watered) - Cardinality(watered \cap ripe)
      BY <1>5, FS_Difference
    <2>6. watered \cap ripe = ripe BY <1>4
    <2>7. m = n - r BY <1>6, <2>2, <2>4, <2>5, <2>6
    <2>8. l = k BY <1>9, <2>4 DEF OpCount, AtOp
    <2>9. Balance("water")' + poured' = drawn' BY <1>1, <1>3, <2>3, <2>4
    <2>10. grown' + m + l <= poured' BY <1>2, <1>10, <2>4, <2>7, <2>8
    <2>11. QED BY <1>11, <2>9, <2>10
  <1>17. ASSUME NEW g \in Ids, MobTakes(g) PROVE WaterLedger' /\ WaterInv'
    <2>1. Balance("water")' = Balance("water") BY <1>17, TickBalance
    <2>2. /\ drawn' = drawn /\ poured' = poured /\ grown' = grown
          /\ todo' = todo /\ watered' = watered \ {g}
      BY <1>17 DEF MobTakes, tally
    <2>3. watered' \in SUBSET watered BY <2>2
    <2>4. m <= n BY <1>5, <1>6, <2>3, FS_Subset
    <2>5. l = k BY <1>9, <2>2 DEF OpCount, AtOp
    <2>6. Balance("water")' + poured' = drawn' BY <1>1, <1>3, <2>1, <2>2
    <2>7. grown' + m + l <= poured' BY <1>2, <1>10, <2>2, <2>4, <2>5
    <2>8. QED BY <1>11, <2>6, <2>7
  <1>18. CASE /\ ~TickResources /\ ~\E g \in Ids : MobTakes(g)
              /\ ~\E p \in Players : TakeWater(p) \/ WaterPay(p) \/ WaterSet(p)
    <2>1. Balance("water")' = Balance("water") BY <1>18, BalanceKept
    <2>2. /\ drawn' = drawn /\ poured' = poured /\ grown' = grown
          /\ OpCount("waterSet")' = OpCount("waterSet")
      BY <1>18, OpsKept
    <2>3. watered' = watered BY <1>18, WateredMoves
    <2>4. m = n /\ l = k BY <1>6, <1>9, <2>2, <2>3
    <2>5. Balance("water")' + poured' = drawn' BY <1>1, <1>3, <2>1, <2>2
    <2>6. grown' + m + l <= poured' BY <1>10, <2>2, <2>4
    <2>7. QED BY <1>11, <2>5, <2>6
  <1>19. QED BY <1>13, <1>14, <1>15, <1>16, <1>17, <1>18

-----------------------------------------------------------------------------
(* The ledgers *)

\* At the start nothing has moved.
LEMMA BalancedAtStart ==
    ASSUME Init, PlotInv, NEW i \in Items
    PROVE  Balance(i) = 0
  <1>1. Store(i) = 0
    <2>1. /\ [p \in Players |-> inv[p][i]] \in [Players -> Int]
          /\ \A y \in Players : [p \in Players |-> inv[p][i]][y] = 0
      BY DEF Init, Zero
    <2>2. QED BY <2>1, FiniteAssumption, SumZero DEF Store
  <1>2. InHands(i) = 0
    <2>1. Carriers(i) = {} BY DEF Carriers, Init, Idle, Held
    <2>2. QED BY <2>1, CountsTyped, FS_EmptySet
  <1>3. Lying(i) = Started(i) BY DEF Lying, Spots, Started, Init
  <1>4. bag[i] = 0 /\ spent[i] = 0 /\ given[i] = 0 /\ made[i] = 0 BY DEF Init, Zero
  <1>5. Started(i) \in Int /\ Total(i) = Store(i) + bag[i] + InHands(i) + Lying(i)
    BY CountsTyped
  <1>6. QED BY <1>1, <1>2, <1>3, <1>4, <1>5 DEF Balance

\* Nobody is in the middle of anything at the start.
LEMMA NobodyAtStart ==
    ASSUME Init, NEW op \in {"drop", "waterSet"}
    PROVE  Cardinality({p \in Players : todo[p].op = op}) = 0 /\ Cardinality(watered) = 0
  <1>1. {p \in Players : todo[p].op = op} = {} /\ watered = {} BY DEF Init, Idle
  <1>2. QED BY <1>1, FS_EmptySet

\* Fruit comes and goes only as the actions say, in every run of any number of
\* players: what handlePlantFruit, tickResources, the mobs and handlePickup do
\* between their locks neither loses a fruit nor makes one.
THEOREM FruitAccounted == Spec => []FruitLedger
  <1>1. Init /\ PlotInv => FruitLedger
    BY ItemsAssumption, BalancedAtStart DEF FruitLedger, Init
  <1>2. PlotInv /\ PlotInv' /\ FruitLedger /\ [Next]_vars => FruitLedger' BY FruitStep
  <1>3. QED BY <1>1, <1>2, HarvestTyped, PTL DEF Spec

\* Spears come to light with dead mammoths only, whatever handleThrowSpear,
\* handleHitMammoth and spawnMammothDrops of several players do at once.
THEOREM SpearsAccounted == Spec => []SpearLedger
  <1>1. Init /\ PlotInv => SpearLedger
    <2> SUFFICES ASSUME Init, PlotInv PROVE SpearLedger OBVIOUS
    <2>1. Balance("spear") = 0 BY ItemsAssumption, BalancedAtStart
    <2>2. Cardinality({p \in Players : todo[p].op = "drop"}) = 0 BY NobodyAtStart
    <2>3. kills = 0 BY DEF Init
    <2>4. QED BY <2>1, <2>2, <2>3 DEF SpearLedger
  <1>2. PlotInv /\ PlotInv' /\ SpearLedger /\ [Next]_vars => SpearLedger' BY SpearStep
  <1>3. QED BY <1>1, <1>2, HarvestTyped, PTL DEF Spec

\* Every watering has cost one water.  The ledger alone is not inductive: a
\* handler that has paid and has not looked again (WaterInv) is still to be
\* counted.
THEOREM WaterAccounted == Spec => []WaterLedger
  <1>1. Init /\ PlotInv => WaterLedger /\ WaterInv
    <2> SUFFICES ASSUME Init, PlotInv PROVE WaterLedger /\ WaterInv OBVIOUS
    <2>1. Balance("water") = 0 BY ItemsAssumption, BalancedAtStart
    <2>2. OpCount("waterSet") = 0 /\ Cardinality(watered) = 0
      BY NobodyAtStart DEF OpCount, AtOp
    <2>3. drawn = 0 /\ poured = 0 /\ grown = 0 BY DEF Init
    <2>4. QED BY <2>1, <2>2, <2>3 DEF WaterLedger, WaterInv
  <1>2. PlotInv /\ PlotInv' /\ WaterLedger /\ WaterInv /\ [Next]_vars
          => WaterLedger' /\ WaterInv'
    BY WaterStep
  <1>3. QED BY <1>1, <1>2, HarvestTyped, PTL DEF Spec

-----------------------------------------------------------------------------
(* Seeds *)

\* A watered seed stays watered, and a ripe one ripe, until it leaves the
\* ground: into two fruits when it is ripe, or into the bag of a mob.
SeedMoves(g) ==
    \/ g \in watered' /\ (g \in ripe => g \in ripe')
    \/ g \in ripe /\ ground'[g] = None /\ grown' > grown
    \/ ground'[g] = None /\ bag'["seed"] = bag["seed"] + 1

\* No seed is passed over by the tick in which one grows.
SeedStep == (\A g \in watered : SeedMoves(g)) /\ (grown' # grown => ripe' = {})

SeedsMoveOn == [][SeedStep]_vars

\* The tick: every ripe seed leaves the ground and is counted.
LEMMA RipeGrow ==
    ASSUME PlotInv, TickResources
    PROVE  SeedStep
  <1>1. ripe \in SUBSET Ids /\ ripe \subseteq watered /\ watered \subseteq Ids
    BY DEF PlotInv, TypeOK
  <1>2. IsFiniteSet(ripe) BY <1>1, FiniteAssumption, FS_Subset
  <1>3. Cardinality(ripe) \in Nat /\ Cardinality(ripe) # 0
    BY <1>2, FS_CardinalityType, FS_EmptySet DEF TickResources, Growing
  <1>4. grown' > grown
    <2>1. grown \in Nat BY DEF PlotInv, TypeOK
    <2>2. grown' = grown + Cardinality(ripe) BY DEF TickResources, Growing
    <2>3. QED BY <1>3, <2>1, <2>2
  <1>5. watered' = watered \ ripe /\ ripe' = {} BY DEF TickResources, Growing
  <1> DEFINE S == NewIDs(2 * Cardinality(ripe))
  <1>6. S \subseteq Fresh
    <2>1. Cardinality(Fresh) >= 2 * Cardinality(ripe) BY DEF TickResources, Growing
    <2>2. IsFiniteSet(Fresh) BY FiniteAssumption, FS_Subset DEF Fresh
    <2>3. Cardinality(Fresh) \in Nat BY <2>2, FS_CardinalityType
    <2>4. 2 * Cardinality(ripe) \in Nat /\ 2 * Cardinality(ripe) <= Cardinality(Fresh)
      BY <1>3, <2>1, <2>3
    <2>5. QED BY <2>4, NewIDsFresh
  <1>7. ground' = Put(Put(ground, ripe, None), S, "fruit") BY DEF TickResources, Growing
  <1> HIDE DEF S
  <1>8. ASSUME NEW g \in ripe PROVE ground'[g] = None
    <2>1. g \in Ids /\ ground[g] = "seed" BY DEF PlotInv, TypeOK
    <2>2. ground[g] # None BY <2>1, ItemsAssumption
    <2>3. g \notin S BY <1>6, <2>2 DEF Fresh
    <2>4. QED BY <1>7, <2>1, <2>3 DEF Put
  <1>9. \A g \in watered : SeedMoves(g) BY <1>4, <1>5, <1>8 DEF SeedMoves
  <1>10. QED BY <1>5, <1>9 DEF SeedStep

\* A mob that takes a seed has it, and no other seed notices.
LEMMA MobTakesSeed ==
    ASSUME PlotInv, NEW h \in Ids, MobTakes(h)
    PROVE  SeedStep
  <1>1. grown' = grown BY DEF MobTakes, tally
  <1>2. ASSUME NEW g \in watered PROVE SeedMoves(g)
    <2>1. g \in Ids /\ ground[g] = "seed" BY DEF PlotInv, TypeOK
    <2>2. CASE g = h
      <3>1. ground'[g] = None BY <2>1, <2>2 DEF MobTakes, PlotInv, TypeOK
      <3>2. bag \in Goods BY DEF PlotInv, TypeOK
      <3>3. bag' = [bag EXCEPT !["seed"] = @ + 1] BY <2>1, <2>2 DEF MobTakes
      <3>4. bag'["seed"] = bag["seed"] + 1 BY <3>2, <3>3, ItemsAssumption DEF Goods
      <3>5. QED BY <3>1, <3>4 DEF SeedMoves
    <2>3. CASE g # h BY <2>3 DEF MobTakes, SeedMoves
    <2>4. QED BY <2>2, <2>3
  <1>3. QED BY <1>1, <1>2 DEF SeedStep

\* A watered seed is never forgotten: whatever handlers and mobs do, it stays
\* watered until tickResources turns it into two fruits or a mob carries it off,
\* a ripe one stays ripe, and one tick takes all the ripe ones.  With the passing
\* of time and the ticks, which TLC adds, this is WateredGrows.
THEOREM SeedsNotForgotten == Spec => SeedsMoveOn
  <1>1. ASSUME PlotInv, [Next]_vars PROVE [SeedStep]_vars
    <2>1. ASSUME watered \subseteq watered', ripe \subseteq ripe', grown' = grown
          PROVE  SeedStep
      BY <2>1 DEF SeedStep, SeedMoves
    <2>2. ASSUME UNCHANGED <<plot, grown>> PROVE SeedStep BY <2>1, <2>2 DEF plot
    <2>3. CASE UNCHANGED vars BY <2>3
    <2>4. CASE TickResources BY <1>1, <2>4, RipeGrow
    <2>5. CASE Ripen BY <2>1, <2>5 DEF Ripen, tally
    <2>6. CASE Elapse BY <2>2, <2>6 DEF Elapse, tally
    <2>7. ASSUME NEW g \in Ids, MobTakes(g) PROVE SeedStep BY <1>1, <2>7, MobTakesSeed
    <2>8. ASSUME NEW item \in Items, MobDrops(item) PROVE SeedStep
      BY <2>1, <2>8 DEF MobDrops, tally
    <2>9. ASSUME NEW p \in Players, Handler(p) PROVE SeedStep
      <3>1. CASE Eat(p) \/ TakeWater(p) \/ \E recipe \in Recipes : Craft(p, recipe)
        BY <2>2, <3>1 DEF Eat, TakeWater, Craft
      <3>2. CASE CheatCommand(p)
        BY <2>2, <3>2 DEF CheatCommand, CheatAllInv, CheatClearInv, CheatGet
      <3>3. CASE PickupAdd(p) \/ PlantPay(p) \/ WaterPay(p) \/ MobDelivers(p)
        BY <2>2, <3>3 DEF PickupAdd, PlantPay, WaterPay, MobDelivers, tally
      <3>4. CASE PlantPut(p) \/ WaterSet(p) \/ SpawnMammothDrops(p)
        BY <2>1, <3>4 DEF PlantPut, WaterSet, SpawnMammothDrops, tally
      <3>5. CASE ThrowTake(p) \/ ThrowTooEarly(p) \/ Throw(p) \/ HitMammoth(p)
        BY <2>2, <3>5 DEF ThrowTake, ThrowTooEarly, Throw, HitMammoth, tally
      <3>6. CASE \E g \in Ids : Pickup(p, g) \/ WaterLook(p, g)
        BY <2>1, <3>6 DEF Pickup, WaterLook, plot, tally
      <3>7. CASE PlaceHousePay(p) \/ \E h \in Houses : PlaceHouse(p, h) \/ ToggleDoor(p, h)
        BY <2>2, <3>7 DEF PlaceHousePay, PlaceHouse, ToggleDoor, tally
      <3>8. QED BY <2>9, <3>1, <3>2, <3>3, <3>4, <3>5, <3>6, <3>7 DEF Handler
    <2>10. QED BY <1>1, <2>3, <2>4, <2>5, <2>6, <2>7, <2>8, <2>9 DEF Next
  <1>2. QED BY <1>1, HarvestTyped, PTL DEF Spec, SeedsMoveOn

=============================================================================
