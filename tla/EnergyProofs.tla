---------------------------- MODULE EnergyProofs ----------------------------
(***************************************************************************)
(* Energy is well typed and a craft in progress stays covered, for every   *)
(* recipe table, every layout and any number of players.  Neither fact is  *)
(* inductive alone: the tick loop may not eat a crafter's materials only   *)
(* because c.mu is held as long as the craft lasts (LockHeld).  The ledgers *)
(* of energy and materials follow from it and from SumTheorems.            *)
(***************************************************************************)
EXTENDS Energy, SumTheorems

\* c.mu of a player is held exactly while his craft is between its check and
\* its end.
LockHeld ==
    \A p \in Players : p \in locked <=> at[p].stage \in {"checked", "paid"}

IInv == TypeOK /\ LockHeld /\ CraftCovered

\* The initial state is well typed, with nothing locked and nothing crafted.
LEMMA InitIInv == Init => IInv
  <1> SUFFICES ASSUME Init PROVE IInv
    OBVIOUS
  <1> USE RecipesAssumption, NumbersAssumption, DevicesAssumption DEF Init
  <1>1. TypeOK
    BY DEF TypeOK, Empty, Idle
  <1>2. LockHeld
    BY DEF LockHeld, Idle
  <1>3. CraftCovered
    BY DEF CraftCovered, Idle
  <1> QED
    BY <1>1, <1>2, <1>3 DEF IInv

\* What one panel adds per tick is a natural number, for every tick rate.
LEMMA GainType == EnergyPerPanel \in Nat
  <1>1. 500 \div TickRate \in Nat
    BY NumbersAssumption
  <1>2. ASSUME NEW n \in Nat PROVE n \div 100 \in Nat
    BY <1>2
  <1> QED
    BY <1>1, <1>2 DEF EnergyPerPanel

\* Clamping keeps a charge within the battery.
LEMMA ClampType ==
    ASSUME NEW e \in Nat, NEW g \in Nat, NEW k \in Nat
    PROVE  Clamp(e + g * k) \in 0..BatteryMax
  <1>1. e + g * k \in Nat
    OBVIOUS
  <1>2. ASSUME NEW n \in Nat PROVE Clamp(n) \in 0..BatteryMax
    BY <1>2, NumbersAssumption DEF Clamp
  <1> QED
    BY <1>1, <1>2

\* Every step keeps the types: no inventory and no battery goes below zero,
\* no battery above its maximum.
LEMMA NextType == IInv /\ [Next]_vars => TypeOK'
  <1> SUFFICES ASSUME IInv, [Next]_vars PROVE TypeOK'
    OBVIOUS
  <1> USE RecipesAssumption, NumbersAssumption, DevicesAssumption
  <1> USE DEF IInv, TypeOK
  <1>1. ASSUME NEW p \in Players, NEW i \in Items, AddItem(p, i) PROVE TypeOK'
    BY <1>1 DEF AddItem, Change
  <1>2. ASSUME NEW p \in Players, NEW i \in Items, NEW n \in Amounts, CheatGet(p, i, n)
        PROVE TypeOK'
    BY <1>2 DEF CheatGet, Change
  <1>3. ASSUME NEW p \in Players, CheatClearInv(p) PROVE TypeOK'
    BY <1>3 DEF CheatClearInv, Empty
  <1>4. ASSUME NEW p \in Players, NEW d \in Devices, PlaceBegin(p, d) PROVE TypeOK'
    <2>1. inv' \in [Players -> [Items -> Nat]]
      BY <1>4 DEF PlaceBegin, Change
    <2>2. at' \in [Players -> {Idle} \cup Places \cup Crafts]
      BY <1>4 DEF PlaceBegin, Places
    <2> QED
      BY <1>4, <2>1, <2>2 DEF PlaceBegin
  <1>5. ASSUME NEW p \in Players, PlaceEnd(p) PROVE TypeOK'
    <2>1. at[p] \in Places
      <3>1. at[p] \in {Idle} \cup Places \cup Crafts OBVIOUS
      <3>2. at[p].stage = "place" BY <1>5 DEF PlaceEnd
      <3>3. at[p] # Idle BY <3>2 DEF Idle
      <3>4. at[p] \notin Crafts BY <3>2 DEF Crafts
      <3> QED BY <3>1, <3>3, <3>4
    <2>2. at[p].on \in Devices
      BY <2>1 DEF Places
    <2> QED
      BY <1>5, <2>2 DEF PlaceEnd
  <1>6. ASSUME NEW p \in Players, NEW f \in Factories, NEW r \in Recipes, CraftCheck(p, f, r)
        PROVE TypeOK'
    <2>1. at' \in [Players -> {Idle} \cup Places \cup Crafts]
      BY <1>6 DEF CraftCheck, Crafts
    <2> QED
      BY <1>6, <2>1 DEF CraftCheck
  <1>7. ASSUME NEW p \in Players, CraftDebit(p) PROVE TypeOK'
    <2>1. at[p] \in Crafts
      BY <1>7 DEF CraftDebit, Places, Crafts, Idle
    <2>2. [at[p] EXCEPT !.stage = "paid"] \in Crafts
      BY <2>1 DEF Crafts
    <2>3. at' \in [Players -> {Idle} \cup Places \cup Crafts]
      BY <1>7, <2>2 DEF CraftDebit
    <2>4. EnergyOf[at[p].recipe] \in Nat
      BY <2>1 DEF Crafts
    <2>5. energy' \in [Batteries -> 0..BatteryMax]
      BY <1>7, <2>4 DEF CraftDebit, Nearest
    <2> QED
      BY <1>7, <2>3, <2>5 DEF CraftDebit
  <1>8. ASSUME NEW p \in Players, CraftNoEnergy(p) PROVE TypeOK'
    BY SMTT(30), <1>8 DEF CraftNoEnergy
  <1>9. ASSUME NEW p \in Players, CraftFinish(p) PROVE TypeOK'
    <2>1. at[p] \in Crafts
      BY <1>9 DEF CraftFinish, Places, Crafts, Idle
    <2> DEFINE r == at[p].recipe
               left == [i \in Items |-> IF inv[p][i] > Need[r][i]
                                          THEN inv[p][i] - Need[r][i] ELSE 0]
    <2>2. r \in Recipes
      BY <2>1 DEF Crafts
    <2>3. left \in [Items -> Nat]
      BY <2>2
    <2>4. [left EXCEPT ![Out[r]] = @ + 1] \in [Items -> Nat]
      BY <2>2, <2>3
    <2>5. inv' = [inv EXCEPT ![p] = [left EXCEPT ![Out[r]] = @ + 1]]
      BY SMTT(30), <1>9 DEF CraftFinish
    <2>6. inv' \in [Players -> [Items -> Nat]]
      BY <2>4, <2>5
    <2> QED
      BY <1>9, <2>6 DEF CraftFinish
  <1>10. ASSUME NEW p \in Players, NEW i \in Items, TickEat(p, i) PROVE TypeOK'
    BY <1>10 DEF TickEat, Change
  <1>11. CASE TickHungerEnd
    BY <1>11 DEF TickHungerEnd
  <1>12. CASE TickPanels
    BY <1>12 DEF TickPanels
  <1>13. CASE TickCharge
    <2>1. PICK link \in [panels -> Batteries] :
            energy' = [b \in Batteries |->
              Clamp(energy[b] + EnergyPerPanel
                * Cardinality({x \in panels : Nearest(x) # {} /\ link[x] = b}))]
      BY <1>13 DEF TickCharge
    <2>2. \A b \in Batteries : Clamp(energy[b] + EnergyPerPanel
            * Cardinality({x \in panels : Nearest(x) # {} /\ link[x] = b})) \in 0..BatteryMax
      <3> TAKE b \in Batteries
      <3> DEFINE S == {x \in panels : Nearest(x) # {} /\ link[x] = b}
      <3>1. S \subseteq Panels
        OBVIOUS
      <3>2. Cardinality(S) \in Nat
        BY <3>1, FS_Subset, FS_CardinalityType
      <3>3. energy[b] \in Nat
        OBVIOUS
      <3> QED
        BY <3>2, <3>3, GainType, ClampType
    <2> QED
      BY <1>13, <2>1, <2>2 DEF TickCharge
  <1>14. CASE UNCHANGED vars
    BY <1>14 DEF vars
  <1> QED
    BY <1>1, <1>2, <1>3, <1>4, <1>5, <1>6, <1>7, <1>8, <1>9, <1>10, <1>11, <1>12, <1>13,
       <1>14 DEF Next, CraftStep, TickLoop

\* Every step keeps the lock with the craft.
LEMMA NextLock == IInv /\ [Next]_vars => LockHeld'
  <1> SUFFICES ASSUME IInv, [Next]_vars PROVE LockHeld'
    OBVIOUS
  <1> USE DEF IInv, TypeOK, LockHeld
  <1>1. ASSUME NEW p \in Players, NEW i \in Items, AddItem(p, i) PROVE LockHeld'
    BY <1>1 DEF AddItem
  <1>2. ASSUME NEW p \in Players, NEW i \in Items, NEW n \in Amounts, CheatGet(p, i, n)
        PROVE LockHeld'
    BY <1>2 DEF CheatGet
  <1>3. ASSUME NEW p \in Players, CheatClearInv(p) PROVE LockHeld'
    BY <1>3 DEF CheatClearInv
  <1>4. ASSUME NEW p \in Players, NEW d \in Devices, PlaceBegin(p, d) PROVE LockHeld'
    BY <1>4 DEF PlaceBegin, Idle
  <1>5. ASSUME NEW p \in Players, PlaceEnd(p) PROVE LockHeld'
    BY <1>5 DEF PlaceEnd, Idle
  <1>6. ASSUME NEW p \in Players, NEW f \in Factories, NEW r \in Recipes, CraftCheck(p, f, r)
        PROVE LockHeld'
    BY <1>6 DEF CraftCheck
  <1>7. ASSUME NEW p \in Players, CraftDebit(p) PROVE LockHeld'
    <2>1. at[p] \in Crafts
      BY <1>7 DEF CraftDebit, Places, Crafts, Idle
    <2>2. at'[p].stage = "paid" /\ \A q \in Players \ {p} : at'[q] = at[q]
      BY <1>7, <2>1 DEF CraftDebit, Crafts
    <2> QED
      BY <1>7, <2>2 DEF CraftDebit
  <1>8. ASSUME NEW p \in Players, CraftNoEnergy(p) PROVE LockHeld'
    BY <1>8 DEF CraftNoEnergy, Idle
  <1>9. ASSUME NEW p \in Players, CraftFinish(p) PROVE LockHeld'
    BY <1>9 DEF CraftFinish, Idle
  <1>10. ASSUME NEW p \in Players, NEW i \in Items, TickEat(p, i) PROVE LockHeld'
    BY <1>10 DEF TickEat
  <1>11. CASE TickHungerEnd
    BY <1>11 DEF TickHungerEnd
  <1>12. CASE TickPanels
    BY <1>12 DEF TickPanels
  <1>13. CASE TickCharge
    BY <1>13 DEF TickCharge
  <1>14. CASE UNCHANGED vars
    BY <1>14 DEF vars
  <1> QED
    BY <1>1, <1>2, <1>3, <1>4, <1>5, <1>6, <1>7, <1>8, <1>9, <1>10, <1>11, <1>12, <1>13,
       <1>14 DEF Next, CraftStep, TickLoop

\* Every step keeps the materials of the crafts in progress: additions only
\* help, and whatever takes items needs a lock that the crafter holds.
LEMMA NextCovered == IInv /\ [Next]_vars => CraftCovered'
  <1> SUFFICES ASSUME IInv, [Next]_vars PROVE CraftCovered'
    OBVIOUS
  <1> USE RecipesAssumption, NumbersAssumption DEF IInv, TypeOK, LockHeld, CraftCovered, Enough
  <1>1. ASSUME NEW p \in Players, NEW i \in Items, AddItem(p, i) PROVE CraftCovered'
    BY <1>1 DEF AddItem, Change
  <1>2. ASSUME NEW p \in Players, NEW i \in Items, NEW n \in Amounts, CheatGet(p, i, n)
        PROVE CraftCovered'
    BY <1>2 DEF CheatGet, Change
  <1>3. ASSUME NEW p \in Players, CheatClearInv(p) PROVE CraftCovered'
    BY <1>3 DEF CheatClearInv
  <1>4. ASSUME NEW p \in Players, NEW d \in Devices, PlaceBegin(p, d) PROVE CraftCovered'
    BY <1>4 DEF PlaceBegin, Change
  <1>5. ASSUME NEW p \in Players, PlaceEnd(p) PROVE CraftCovered'
    BY <1>5 DEF PlaceEnd, Idle
  <1>6. ASSUME NEW p \in Players, NEW f \in Factories, NEW r \in Recipes, CraftCheck(p, f, r)
        PROVE CraftCovered'
    BY <1>6 DEF CraftCheck
  <1>7. ASSUME NEW p \in Players, CraftDebit(p) PROVE CraftCovered'
    <2>1. at[p] \in Crafts
      BY <1>7 DEF CraftDebit, Places, Crafts, Idle
    <2>2. at'[p].recipe = at[p].recipe /\ \A q \in Players \ {p} : at'[q] = at[q]
      BY <1>7, <2>1 DEF CraftDebit, Crafts
    <2>3. inv' = inv /\ Enough(p, at[p].recipe)
      BY <1>7 DEF CraftDebit
    <2> QED
      BY <2>2, <2>3
  <1>8. ASSUME NEW p \in Players, CraftNoEnergy(p) PROVE CraftCovered'
    BY <1>8 DEF CraftNoEnergy, Idle
  <1>9. ASSUME NEW p \in Players, CraftFinish(p) PROVE CraftCovered'
    BY <1>9 DEF CraftFinish, Idle
  <1>10. ASSUME NEW p \in Players, NEW i \in Items, TickEat(p, i) PROVE CraftCovered'
    BY <1>10 DEF TickEat, Change
  <1>11. CASE TickHungerEnd
    BY <1>11 DEF TickHungerEnd
  <1>12. CASE TickPanels
    BY <1>12 DEF TickPanels
  <1>13. CASE TickCharge
    BY <1>13 DEF TickCharge
  <1>14. CASE UNCHANGED vars
    BY <1>14 DEF vars
  <1> QED
    BY <1>1, <1>2, <1>3, <1>4, <1>5, <1>6, <1>7, <1>8, <1>9, <1>10, <1>11, <1>12, <1>13,
       <1>14 DEF Next, CraftStep, TickLoop

\* The three facts together are an invariant of the specification.
THEOREM Invariance == Spec => []IInv
  <1>1. IInv /\ [Next]_vars => IInv'
    BY NextType, NextLock, NextCovered DEF IInv
  <1> QED
    BY InitIInv, <1>1, PTL DEF Spec

\* No inventory goes below zero and no battery leaves 0..MaxEnergy, whatever
\* the recipes, the devices and the players do (energy.go).
THEOREM EnergyTyped == Spec => []TypeOK
  <1>1. IInv => TypeOK
    BY DEF IInv
  <1> QED
    BY Invariance, <1>1, PTL

\* tryCraftFactory always has the materials it checked when it takes them.
THEOREM CraftsCovered == Spec => []CraftCovered
  <1>1. IInv => CraftCovered
    BY DEF IInv
  <1> QED
    BY Invariance, <1>1, PTL

-----------------------------------------------------------------------------
(* The ledgers.  The history variables are integers, and with that and IInv *)
(* each ledger is inductive: CraftFinish takes the whole of Need only       *)
(* because the craft is covered.                                            *)

HistoryTyped ==
    /\ supply \in [Players -> [Items -> Int]]
    /\ crafted \in [Players -> [Recipes -> Nat]]
    /\ charged \in Int

LedgerInv == IInv /\ HistoryTyped

\* A finished craft counts once, and what the other crafts of the player and
\* of the other players count for stays.
LEMMA FinishFacts ==
    ASSUME LedgerInv, NEW p \in Players, CraftFinish(p)
    PROVE  /\ at[p] \in Crafts /\ at[p].recipe \in Recipes
           /\ \A i \in Items : Need[at[p].recipe][i] \in Nat
           /\ \A i \in Items : inv'[p][i] = inv[p][i] - Need[at[p].recipe][i]
                                 + (IF Out[at[p].recipe] = i THEN 1 ELSE 0)
           /\ \A q \in Players \ {p} : inv'[q] = inv[q] /\ at'[q] = at[q]
           /\ crafted' = [crafted EXCEPT ![p] =
                [crafted[p] EXCEPT ![at[p].recipe] = crafted[p][at[p].recipe] + 1]]
           /\ supply' = supply /\ charged' = charged /\ energy' = energy /\ at'[p] = Idle
  <1> USE RecipesAssumption DEF LedgerInv, IInv, TypeOK, HistoryTyped
  <1> DEFINE r == at[p].recipe
             left == [i \in Items |-> IF inv[p][i] > Need[r][i]
                                        THEN inv[p][i] - Need[r][i] ELSE 0]
  <1>1. at[p] \in Crafts
    BY DEF CraftFinish, Places, Crafts, Idle
  <1>2. r \in Recipes /\ Out[r] \in Items
    BY <1>1 DEF Crafts
  <1>3. \A i \in Items : inv[p][i] \in Nat /\ Need[r][i] \in Nat /\ inv[p][i] >= Need[r][i]
    BY <1>1, <1>2 DEF CraftCovered, Enough, CraftFinish
  <1>4. left \in [Items -> Nat] /\ \A i \in Items : left[i] = inv[p][i] - Need[r][i]
    BY <1>3
  <1>5. inv' = [inv EXCEPT ![p] = [left EXCEPT ![Out[r]] = @ + 1]]
    BY DEF CraftFinish
  <1> HIDE DEF left
  <1>6. \A i \in Items : inv'[p][i] = left[i] + (IF Out[r] = i THEN 1 ELSE 0)
    BY <1>2, <1>4, <1>5
  <1>7. crafted' = [crafted EXCEPT ![p] = [crafted[p] EXCEPT ![r] = crafted[p][r] + 1]]
    BY <1>2 DEF CraftFinish
  <1>8. /\ supply' = supply /\ charged' = charged /\ energy' = energy /\ at'[p] = Idle
        /\ \A q \in Players \ {p} : inv'[q] = inv[q] /\ at'[q] = at[q]
    BY DEF CraftFinish
  <1> QED
    BY <1>1, <1>2, <1>3, <1>4, <1>6, <1>7, <1>8

\* Every step keeps the history variables integers.
LEMMA HistoryStep == LedgerInv /\ [Next]_vars => HistoryTyped'
  <1> SUFFICES ASSUME LedgerInv, [Next]_vars PROVE HistoryTyped'
    OBVIOUS
  <1> USE RecipesAssumption, NumbersAssumption, DevicesAssumption
  <1> USE DEF LedgerInv, IInv, TypeOK, HistoryTyped
  <1>1. ASSUME NEW p \in Players, NEW i \in Items, AddItem(p, i) PROVE HistoryTyped'
    BY <1>1 DEF AddItem, Change
  <1>2. ASSUME NEW p \in Players, NEW i \in Items, NEW n \in Amounts, CheatGet(p, i, n)
        PROVE HistoryTyped'
    BY <1>2 DEF CheatGet, Change
  <1>3. ASSUME NEW p \in Players, CheatClearInv(p) PROVE HistoryTyped'
    BY <1>3 DEF CheatClearInv
  <1>4. ASSUME NEW p \in Players, NEW d \in Devices, PlaceBegin(p, d) PROVE HistoryTyped'
    BY <1>4 DEF PlaceBegin, Change
  <1>5. ASSUME NEW p \in Players, PlaceEnd(p) PROVE HistoryTyped'
    BY <1>5 DEF PlaceEnd, history
  <1>6. ASSUME NEW p \in Players, NEW f \in Factories, NEW r \in Recipes, CraftCheck(p, f, r)
        PROVE HistoryTyped'
    BY <1>6 DEF CraftCheck, history
  <1>7. ASSUME NEW p \in Players, CraftDebit(p) PROVE HistoryTyped'
    BY <1>7 DEF CraftDebit, history
  <1>8. ASSUME NEW p \in Players, CraftNoEnergy(p) PROVE HistoryTyped'
    BY <1>8 DEF CraftNoEnergy, history
  <1>9. ASSUME NEW p \in Players, CraftFinish(p) PROVE HistoryTyped'
    <2> DEFINE r == at[p].recipe
    <2>1. r \in Recipes /\ supply' = supply /\ charged' = charged
      BY <1>9, FinishFacts
    <2>2. crafted' = [crafted EXCEPT ![p] = [crafted[p] EXCEPT ![r] = crafted[p][r] + 1]]
      BY <1>9, FinishFacts
    <2> HIDE DEF r
    <2>3. crafted' \in [Players -> [Recipes -> Nat]]
      BY <2>1, <2>2
    <2> QED
      BY <2>1, <2>3
  <1>10. ASSUME NEW p \in Players, NEW i \in Items, TickEat(p, i) PROVE HistoryTyped'
    BY <1>10 DEF TickEat, Change
  <1>11. CASE TickHungerEnd
    BY <1>11 DEF TickHungerEnd, history
  <1>12. CASE TickPanels
    BY <1>12 DEF TickPanels, history
  <1>13. CASE TickCharge
    <2>1. energy' \in [Batteries -> 0..BatteryMax]
      BY NextType
    <2>2. [b \in Batteries |-> energy'[b] - energy[b]] \in [Batteries -> Int]
      BY <2>1
    <2>3. SumFunctionOnSet([b \in Batteries |-> energy'[b] - energy[b]], Batteries) \in Int
      BY <2>2, SumType
    <2>4. charged' = charged
            + SumFunctionOnSet([b \in Batteries |-> energy'[b] - energy[b]], Batteries)
      BY <1>13 DEF TickCharge
    <2>5. charged' \in Int
      BY <2>3, <2>4
    <2> QED
      BY <1>13, <2>5 DEF TickCharge
  <1>14. CASE UNCHANGED vars
    BY <1>14 DEF vars
  <1> QED
    BY <1>1, <1>2, <1>3, <1>4, <1>5, <1>6, <1>7, <1>8, <1>9, <1>10, <1>11, <1>12, <1>13,
       <1>14 DEF Next, CraftStep, TickLoop

\* The invariant the ledgers rest on.
THEOREM LedgerInvariance == Spec => []LedgerInv
  <1>1. Init => HistoryTyped
    BY DEF Init, HistoryTyped, Empty
  <1>2. LedgerInv /\ [Next]_vars => LedgerInv'
    BY HistoryStep, NextType, NextLock, NextCovered DEF LedgerInv, IInv
  <1> QED
    BY InitIInv, <1>1, <1>2, PTL DEF Spec, LedgerInv

\* The weight of a player's crafts, recipe by recipe.
Weight(c, w) == SumFunctionOnSet([r \in Recipes |-> c[r] * w[r]], Recipes)

\* One more craft of r weighs as much as r does.
LEMMA OneMore ==
    ASSUME NEW c \in [Recipes -> Nat], NEW w \in [Recipes -> Int], NEW r \in Recipes,
           NEW d, d = [c EXCEPT ![r] = c[r] + 1]
    PROVE  Weight(d, w) = Weight(c, w) + w[r]
  <1> DEFINE f == [x \in Recipes |-> c[x] * w[x]]
             g == [x \in Recipes |-> d[x] * w[x]]
  <1>1. \A a \in Nat, b \in Int : a * b \in Int /\ (a + 1) * b = a * b + b
    OBVIOUS
  <1>2. f \in [Recipes -> Int]
    BY <1>1
  <1>3. c[r] \in Nat /\ w[r] \in Int /\ f[r] \in Int /\ f[r] = c[r] * w[r]
    BY <1>2
  <1>4. f[r] + w[r] \in Int /\ (c[r] + 1) * w[r] = f[r] + w[r]
    BY <1>1, <1>3
  <1>5. g = [f EXCEPT ![r] = f[r] + w[r]]
    <2>1. d[r] = c[r] + 1 /\ \A x \in Recipes : x # r => d[x] = c[x]
      OBVIOUS
    <2>2. g[r] = f[r] + w[r] /\ \A x \in Recipes : x # r => g[x] = f[x]
      BY <1>4, <2>1
    <2> QED
      BY <2>2
  <1> HIDE DEF f, g
  <1>6. SumFunctionOnSet(g, Recipes) = SumFunctionOnSet(f, Recipes) + ((f[r] + w[r]) - f[r])
    BY <1>2, <1>4, <1>5, SumUpdate, RecipesAssumption
  <1>7. SumFunctionOnSet(f, Recipes) \in Int
    BY <1>2, SumType, RecipesAssumption
  <1>8. SumFunctionOnSet(g, Recipes) = SumFunctionOnSet(f, Recipes) + w[r]
    BY <1>3, <1>6, <1>7
  <1> QED
    BY <1>8 DEF f, g, Weight

\* What a player's crafts have taken and made are integers.
LEMMA CountsTyped ==
    ASSUME LedgerInv, NEW p \in Players
    PROVE  /\ Spent(p) \in Int
           /\ \A i \in Items : Taken(p, i) \in Int /\ Made(p, i) \in Int
  <1> USE RecipesAssumption DEF LedgerInv, HistoryTyped
  <1>1. \A a \in Nat, b \in Nat : a * b \in Int
    OBVIOUS
  <1>2. [r \in Recipes |-> crafted[p][r] * EnergyOf[r]] \in [Recipes -> Int]
    BY <1>1
  <1>3. ASSUME NEW i \in Items
        PROVE  /\ [r \in Recipes |-> crafted[p][r] * Need[r][i]] \in [Recipes -> Int]
               /\ [r \in Recipes |-> IF Out[r] = i THEN crafted[p][r] ELSE 0] \in [Recipes -> Int]
    BY <1>1
  <1>4. Spent(p) \in Int
    BY <1>2, SumType DEF Spent
  <1>5. ASSUME NEW i \in Items PROVE Taken(p, i) \in Int /\ Made(p, i) \in Int
    BY <1>3, SumType DEF Taken, Made
  <1> QED
    BY <1>4, <1>5

\* CraftFinish moves the counts of its player by the recipe, and no others.
LEMMA FinishCounts ==
    ASSUME LedgerInv, NEW p \in Players, CraftFinish(p)
    PROVE  /\ Spent(p)' = Spent(p) + EnergyOf[at[p].recipe]
           /\ \A i \in Items : Taken(p, i)' = Taken(p, i) + Need[at[p].recipe][i]
           /\ \A i \in Items : Made(p, i)' = Made(p, i)
                                 + (IF Out[at[p].recipe] = i THEN 1 ELSE 0)
           /\ \A q \in Players \ {p} : crafted'[q] = crafted[q]
  <1> DEFINE r == at[p].recipe
             c == crafted[p]
             d == [c EXCEPT ![r] = c[r] + 1]
  <1>1. r \in Recipes /\ crafted' = [crafted EXCEPT ![p] = d]
    BY FinishFacts
  <1>2. crafted'[p] = d /\ \A q \in Players \ {p} : crafted'[q] = crafted[q]
    BY <1>1 DEF LedgerInv, HistoryTyped
  <1>3. c = crafted[p] /\ c \in [Recipes -> Nat] /\ d = [c EXCEPT ![r] = c[r] + 1]
    BY DEF LedgerInv, HistoryTyped
  <1> HIDE DEF r, c, d
  <1>7. IsFiniteSet(Recipes) /\ r \in Recipes
    BY <1>1, RecipesAssumption
  <1>8. c \in [Recipes -> Nat] /\ d = [c EXCEPT ![r] = c[r] + 1]
    BY <1>3
  <1>4. Spent(p)' = Spent(p) + EnergyOf[r]
    <2>1. EnergyOf \in [Recipes -> Int]
      BY RecipesAssumption
    <2>2. Weight(d, EnergyOf) = Weight(c, EnergyOf) + EnergyOf[r]
      BY <1>7, <1>8, <2>1, OneMore
    <2> QED
      BY <1>2, <1>3, <2>2 DEF Spent, Weight
  <1>5. ASSUME NEW i \in Items PROVE Taken(p, i)' = Taken(p, i) + Need[r][i]
    <2> DEFINE w == [x \in Recipes |-> Need[x][i]]
    <2>1. w \in [Recipes -> Int] /\ \A x \in Recipes : w[x] = Need[x][i]
      BY RecipesAssumption
    <2> HIDE DEF w
    <2>2. Weight(d, w) = Weight(c, w) + w[r]
      BY <1>7, <1>8, <2>1, OneMore
    <2>3. /\ [x \in Recipes |-> d[x] * w[x]] = [x \in Recipes |-> d[x] * Need[x][i]]
          /\ [x \in Recipes |-> c[x] * w[x]] = [x \in Recipes |-> c[x] * Need[x][i]]
          /\ w[r] = Need[r][i]
      BY <1>1, <2>1
    <2> QED
      BY <1>2, <1>3, <2>2, <2>3 DEF Taken, Weight
  <1>6. ASSUME NEW i \in Items
        PROVE  Made(p, i)' = Made(p, i) + (IF Out[r] = i THEN 1 ELSE 0)
    <2> DEFINE f == [x \in Recipes |-> IF Out[x] = i THEN c[x] ELSE 0]
               g == [x \in Recipes |-> IF Out[x] = i THEN d[x] ELSE 0]
               one == IF Out[r] = i THEN 1 ELSE 0
    <2>1. f \in [Recipes -> Int] /\ f[r] \in Int /\ one \in Int
      BY <1>1, <1>3
    <2>2. g = [f EXCEPT ![r] = f[r] + one]
      <3>1. g[r] = f[r] + one /\ \A x \in Recipes : x # r => g[x] = f[x]
        BY <1>1, <1>3
      <3> QED
        BY <3>1
    <2>3. Made(p, i) = SumFunctionOnSet(f, Recipes) /\ Made(p, i)' = SumFunctionOnSet(g, Recipes)
      BY <1>2, <1>3 DEF Made
    <2> HIDE DEF f, g, one
    <2>7. f[r] + one \in Int
      BY <2>1
    <2>8. SumFunctionOnSet([f EXCEPT ![r] = f[r] + one], Recipes)
            = SumFunctionOnSet(f, Recipes) + ((f[r] + one) - f[r])
      BY <1>7, <2>1, <2>7, SumUpdate
    <2>4. SumFunctionOnSet(g, Recipes) = SumFunctionOnSet(f, Recipes) + ((f[r] + one) - f[r])
      BY <2>2, <2>8
    <2>5. SumFunctionOnSet(f, Recipes) \in Int
      BY <2>1, SumType, RecipesAssumption
    <2>6. Made(p, i)' = Made(p, i) + one
      BY <2>1, <2>3, <2>4, <2>5
    <2> QED
      BY <2>6 DEF one
  <1> QED
    BY <1>2, <1>4, <1>5, <1>6 DEF r

\* Items that come into an inventory or leave it are booked in supply.
LEMMA BooksKept ==
    ASSUME LedgerInv, MaterialsLedger, TypeOK', HistoryTyped', crafted' = crafted,
           \A p \in Players, i \in Items :
               inv'[p][i] - supply'[p][i] = inv[p][i] - supply[p][i]
    PROVE  MaterialsLedger'
  <1> SUFFICES ASSUME NEW p \in Players, NEW i \in Items
               PROVE  inv'[p][i] + Taken(p, i)' = supply'[p][i] + Made(p, i)'
    BY DEF MaterialsLedger
  <1>1. Taken(p, i)' = Taken(p, i) /\ Made(p, i)' = Made(p, i)
    BY DEF Taken, Made
  <1>2. Taken(p, i) \in Int /\ Made(p, i) \in Int
    BY CountsTyped
  <1>3. inv[p][i] + Taken(p, i) = supply[p][i] + Made(p, i)
    BY DEF MaterialsLedger
  <1>4. /\ inv[p][i] \in Int /\ inv'[p][i] \in Int
        /\ supply[p][i] \in Int /\ supply'[p][i] \in Int
    BY DEF LedgerInv, IInv, TypeOK, HistoryTyped
  <1>5. inv'[p][i] - supply'[p][i] = inv[p][i] - supply[p][i]
    OBVIOUS
  <1> QED
    BY SMTT(30), <1>1, <1>2, <1>3, <1>4, <1>5

\* Every step keeps the books of the materials.
LEMMA MaterialsStep == LedgerInv /\ MaterialsLedger /\ [Next]_vars => MaterialsLedger'
  <1> SUFFICES ASSUME LedgerInv, MaterialsLedger, [Next]_vars PROVE MaterialsLedger'
    OBVIOUS
  <1> USE RecipesAssumption, NumbersAssumption, DevicesAssumption
  <1> DEFINE Booked == /\ crafted' = crafted
                       /\ \A p \in Players, i \in Items :
                            inv'[p][i] - supply'[p][i] = inv[p][i] - supply[p][i]
  <1>0. TypeOK' /\ HistoryTyped'
    BY NextType, HistoryStep DEF LedgerInv
  <1> USE DEF LedgerInv, IInv, TypeOK, HistoryTyped
  <1>1. ASSUME NEW p \in Players, NEW i \in Items, NEW n \in Int, Change(p, i, n),
               crafted' = crafted
        PROVE  Booked
    BY <1>1 DEF Change
  <1>2. ASSUME UNCHANGED <<inv, supply, crafted>> PROVE Booked
    BY <1>2
  <1>3. ASSUME NEW p \in Players, CheatClearInv(p) PROVE Booked
    BY <1>3 DEF CheatClearInv, Empty
  <1>4. ASSUME NEW p \in Players, NEW i \in Items, AddItem(p, i) PROVE Booked
    BY <1>1, <1>4 DEF AddItem
  <1>5. ASSUME NEW p \in Players, NEW i \in Items, NEW n \in Amounts, CheatGet(p, i, n)
        PROVE Booked
    BY <1>1, <1>5 DEF CheatGet
  <1>6. ASSUME NEW p \in Players, NEW d \in Devices, PlaceBegin(p, d) PROVE Booked
    <2>1. Kind[d] \in Items /\ -1 \in Int
      OBVIOUS
    <2>2. Change(p, Kind[d], -1) /\ crafted' = crafted
      BY <1>6 DEF PlaceBegin
    <2> QED
      BY <1>1, <2>1, <2>2
  <1>7. ASSUME NEW p \in Players, NEW i \in Items, TickEat(p, i) PROVE Booked
    BY <1>1, <1>7 DEF TickEat
  <1>8. ASSUME NEW p \in Players,
               PlaceEnd(p) \/ CraftDebit(p) \/ CraftNoEnergy(p)
                 \/ \E f \in Factories, r \in Recipes : CraftCheck(p, f, r)
        PROVE  Booked
    BY <1>2, <1>8 DEF PlaceEnd, CraftDebit, CraftNoEnergy, CraftCheck, history
  <1>9. ASSUME TickHungerEnd \/ TickPanels \/ TickCharge \/ UNCHANGED vars
        PROVE  Booked
    <2>1. UNCHANGED <<inv, supply, crafted>>
      BY <1>9 DEF TickHungerEnd, TickPanels, TickCharge, vars, history
    <2> QED
      BY <2>1
  <1> HIDE RecipesAssumption, NumbersAssumption, DevicesAssumption
      DEF LedgerInv, IInv, TypeOK, HistoryTyped
  <1>10. ASSUME Booked PROVE MaterialsLedger'
    BY <1>0, <1>10, BooksKept
  <1>11. ASSUME NEW p \in Players, CraftFinish(p) PROVE MaterialsLedger'
    <2> SUFFICES ASSUME NEW q \in Players, NEW i \in Items
                 PROVE  inv'[q][i] + Taken(q, i)' = supply'[q][i] + Made(q, i)'
      BY DEF MaterialsLedger
    <2>1. inv[q][i] + Taken(q, i) = supply[q][i] + Made(q, i)
      BY DEF MaterialsLedger
    <2>2. supply' = supply
      BY <1>11, FinishFacts
    <2>3. CASE q # p
      <3>1. inv'[q] = inv[q]
        BY <1>11, <2>3, FinishFacts
      <3>2. crafted'[q] = crafted[q]
        BY <1>11, <2>3, FinishCounts
      <3>3. Taken(q, i)' = Taken(q, i) /\ Made(q, i)' = Made(q, i)
        BY <3>2 DEF Taken, Made
      <3> QED
        BY <2>1, <2>2, <3>1, <3>3
    <2>4. CASE q = p
      <3> DEFINE need == Need[at[p].recipe][i]
                 one == IF Out[at[p].recipe] = i THEN 1 ELSE 0
      <3>1. need \in Nat /\ inv'[p][i] = inv[p][i] - need + one
        BY <1>11, FinishFacts
      <3>2. Taken(p, i)' = Taken(p, i) + need /\ Made(p, i)' = Made(p, i) + one
        BY <1>11, FinishCounts
      <3>3. Taken(p, i) \in Int /\ Made(p, i) \in Int /\ one \in Int
        BY CountsTyped
      <3>4. inv[p][i] \in Int /\ supply[p][i] \in Int
        BY DEF LedgerInv, IInv, TypeOK, HistoryTyped
      <3> HIDE DEF need, one
      <3>5. inv[p][i] + Taken(p, i) = supply[p][i] + Made(p, i)
        BY <2>1, <2>4
      <3>6. inv'[p][i] + Taken(p, i)' = supply'[p][i] + Made(p, i)'
        <4>1. PICK n \in Int, k \in Int : n = need /\ k = one
          BY <3>1, <3>3
        <4>2. PICK a \in Int, b \in Int, c \in Int, d \in Int :
                  a = inv[p][i] /\ b = Taken(p, i) /\ c = supply[p][i] /\ d = Made(p, i)
          BY <3>3, <3>4
        <4>3. a + b = c + d
          BY <3>5, <4>2
        <4>4. (a - n + k) + (b + n) = c + (d + k)
          BY <4>3
        <4> QED
          BY <2>2, <3>1, <3>2, <4>1, <4>2, <4>4
      <3> QED
        BY <2>4, <3>6
    <2> QED
      BY <2>3, <2>4
  <1> QED
    BY <1>3, <1>4, <1>5, <1>6, <1>7, <1>8, <1>9, <1>10, <1>11 DEF Next, CraftStep, TickLoop

\* Every product of a factory is paid for in full with the player's items, for
\* every recipe table: no interleaving of the tick loop's meals with
\* tryCraftFactory lets a craft end with less than its recipe asks for.
THEOREM MaterialsAccounted == Spec => []MaterialsLedger
  <1>1. Init => MaterialsLedger
    <2> SUFFICES ASSUME Init, NEW p \in Players, NEW i \in Items
                 PROVE  inv[p][i] + Taken(p, i) = supply[p][i] + Made(p, i)
      BY DEF MaterialsLedger
    <2> DEFINE f == [r \in Recipes |-> crafted[p][r] * Need[r][i]]
               g == [r \in Recipes |-> IF Out[r] = i THEN crafted[p][r] ELSE 0]
    <2>1. f \in [Recipes -> Int] /\ \A r \in Recipes : f[r] = 0
      BY RecipesAssumption DEF Init
    <2>2. g \in [Recipes -> Int] /\ \A r \in Recipes : g[r] = 0
      BY DEF Init
    <2>3. Taken(p, i) = SumFunctionOnSet(f, Recipes) /\ Made(p, i) = SumFunctionOnSet(g, Recipes)
      BY DEF Taken, Made
    <2>4. IsFiniteSet(Recipes)
      BY RecipesAssumption
    <2> HIDE DEF f, g
    <2>5. Taken(p, i) = 0 /\ Made(p, i) = 0
      BY <2>1, <2>2, <2>3, <2>4, SumZero
    <2> QED
      BY <2>5 DEF Init, Empty
  <1> QED
    BY <1>1, LedgerInvariance, MaterialsStep, PTL DEF Spec

\* The energy that has left the batteries, player by player.
Sunk == [p \in Players |-> InHand(p) + Spent(p)]
EnergySum == SumFunctionOnSet(energy, Batteries)
SunkSum == SumFunctionOnSet(Sunk, Players)

\* The two sums of the ledger are sums of integers.
LEMMA SunkTyped ==
    ASSUME LedgerInv
    PROVE  /\ energy \in [Batteries -> Int] /\ Sunk \in [Players -> Int]
           /\ EnergySum \in Int /\ SunkSum \in Int
           /\ \A p \in Players : InHand(p) \in Int /\ Spent(p) \in Int
                                   /\ Sunk[p] = InHand(p) + Spent(p)
  <1>1. energy \in [Batteries -> Int]
    BY NumbersAssumption DEF LedgerInv, IInv, TypeOK
  <1>2. ASSUME NEW p \in Players PROVE InHand(p) \in Int
    <2>1. CASE at[p].stage = "paid"
      <3>1. at[p] \in Crafts
        BY <2>1 DEF LedgerInv, IInv, TypeOK, Places, Crafts, Idle
      <3>2. EnergyOf[at[p].recipe] \in Int
        BY <3>1, RecipesAssumption DEF Crafts
      <3> QED
        BY <2>1, <3>2 DEF InHand
    <2>2. CASE at[p].stage # "paid"
      BY <2>2 DEF InHand
    <2> QED
      BY <2>1, <2>2
  <1>3. \A p \in Players : Spent(p) \in Int
    BY CountsTyped
  <1>4. Sunk \in [Players -> Int] /\ \A p \in Players : Sunk[p] = InHand(p) + Spent(p)
    BY <1>2, <1>3 DEF Sunk
  <1>5. IsFiniteSet(Batteries) /\ IsFiniteSet(Players)
    BY DevicesAssumption, RecipesAssumption
  <1>6. EnergySum \in Int
    BY <1>1, <1>5, SumType DEF EnergySum
  <1>7. SunkSum \in Int
    BY <1>4, <1>5, SumType DEF SunkSum
  <1> QED
    BY <1>1, <1>2, <1>3, <1>4, <1>6, <1>7

\* A step that neither charges nor debits and finishes nothing moves no energy.
LEMMA EnergyQuiet ==
    ASSUME EnergyLedger, UNCHANGED <<energy, crafted, charged>>,
           \A q \in Players : at'[q].stage = "paid" \/ at[q].stage = "paid" => at'[q] = at[q]
    PROVE  EnergyLedger'
  <1>1. \A q \in Players : InHand(q)' = InHand(q)
    BY DEF InHand
  <1>2. \A q \in Players : Spent(q)' = Spent(q)
    BY DEF Spent
  <1>3. Sunk' = Sunk
    BY <1>1, <1>2 DEF Sunk
  <1> QED
    BY <1>3 DEF EnergyLedger, Sunk

\* Charging: what the batteries gain is what is booked as charged.
LEMMA ChargeBooked ==
    ASSUME LedgerInv, EnergyLedger, TypeOK', TickCharge
    PROVE  EnergyLedger'
  <1> DEFINE d == [b \in Batteries |-> energy'[b] - energy[b]]
  <1>1. energy \in [Batteries -> Int] /\ EnergySum \in Int /\ SunkSum \in Int
    BY SunkTyped
  <1>2. energy' \in [Batteries -> Int]
    BY NumbersAssumption DEF TypeOK
  <1>3. d \in [Batteries -> Int] /\ \A b \in Batteries : energy'[b] = energy[b] + d[b]
    BY <1>1, <1>2
  <1>4. charged' = charged + SumFunctionOnSet(d, Batteries)
    BY DEF TickCharge
  <1> HIDE DEF d
  <1>5. IsFiniteSet(Batteries)
    BY DevicesAssumption
  <1>6. SumFunctionOnSet(energy', Batteries)
          = SumFunctionOnSet(energy, Batteries) + SumFunctionOnSet(d, Batteries)
    BY <1>1, <1>2, <1>3, <1>5, SumAdd
  <1>7. SumFunctionOnSet(d, Batteries) \in Int
    BY <1>3, <1>5, SumType
  <1>8. Sunk' = Sunk
    BY DEF TickCharge, Sunk, InHand, Spent
  <1>9. charged = EnergySum + SunkSum
    BY DEF EnergyLedger, EnergySum, SunkSum, Sunk
  <1>10. charged' = SumFunctionOnSet(energy', Batteries) + SunkSum
    BY <1>1, <1>4, <1>6, <1>7, <1>9 DEF EnergySum
  <1> QED
    BY <1>8, <1>10 DEF EnergyLedger, SunkSum, Sunk

\* What one battery, or one player, gains or loses goes to the sum.
LEMMA OneBattery ==
    ASSUME energy \in [Batteries -> Int], NEW b \in Batteries, NEW l \in Int,
           energy' = [energy EXCEPT ![b] = energy[b] + l]
    PROVE  EnergySum' = EnergySum + l
  <1>1. IsFiniteSet(Batteries) BY DevicesAssumption
  <1>2. PICK v \in Int : v = energy[b] + l OBVIOUS
  <1>3. SumFunctionOnSet([energy EXCEPT ![b] = v], Batteries)
          = SumFunctionOnSet(energy, Batteries) + (v - energy[b])
    BY <1>1, <1>2, SumUpdate
  <1>4. v - energy[b] = l BY <1>2
  <1> QED BY <1>2, <1>3, <1>4, Zenon DEF EnergySum

LEMMA OnePlayer ==
    ASSUME Sunk \in [Players -> Int], NEW p \in Players, NEW k \in Int,
           Sunk' = [Sunk EXCEPT ![p] = Sunk[p] + k]
    PROVE  SunkSum' = SunkSum + k
  <1>1. IsFiniteSet(Players) BY RecipesAssumption
  <1>2. PICK v \in Int : v = Sunk[p] + k OBVIOUS
  <1>3. SumFunctionOnSet([Sunk EXCEPT ![p] = v], Players)
          = SumFunctionOnSet(Sunk, Players) + (v - Sunk[p])
    BY <1>1, <1>2, SumUpdate
  <1>4. v - Sunk[p] = k BY <1>2
  <1> QED BY <1>2, <1>3, <1>4, Zenon DEF SunkSum

\* A debit goes from the battery into the handler's hands.
LEMMA DebitMoves ==
    ASSUME LedgerInv, EnergyLedger, NEW p \in Players, CraftDebit(p)
    PROVE  EnergyLedger'
  <1> DEFINE e == EnergyOf[at[p].recipe]
  <1>1. at[p] \in Crafts /\ at[p].stage # "paid"
    BY DEF CraftDebit, LedgerInv, IInv, TypeOK, Places, Crafts, Idle
  <1>2. e \in Int
    BY <1>1, RecipesAssumption DEF Crafts
  <1>3. PICK b \in Batteries : energy' = [energy EXCEPT ![b] = energy[b] - e]
    BY DEF CraftDebit, Nearest
  <1>4. /\ energy \in [Batteries -> Int] /\ Sunk \in [Players -> Int]
        /\ EnergySum \in Int /\ SunkSum \in Int
    BY SunkTyped
  <1>5. /\ at'[p].stage = "paid" /\ at'[p].recipe = at[p].recipe
        /\ \A q \in Players \ {p} : at'[q] = at[q]
    BY <1>1 DEF CraftDebit, LedgerInv, IInv, TypeOK, Crafts
  <1>6. InHand(p)' = e /\ InHand(p) = 0 /\ \A q \in Players \ {p} : InHand(q)' = InHand(q)
    BY <1>1, <1>5 DEF InHand
  <1>7. \A q \in Players : Spent(q)' = Spent(q)
    BY DEF Spent, CraftDebit, history
  <1> HIDE DEF e
  <1>8. Sunk' = [Sunk EXCEPT ![p] = Sunk[p] + e]
    <2>1. Spent(p) \in Int
      BY SunkTyped
    <2>2. InHand(p)' + Spent(p)' = Sunk[p] + e
      BY <1>2, <1>6, <1>7, <2>1 DEF Sunk
    <2>3. \A q \in Players \ {p} : InHand(q)' + Spent(q)' = Sunk[q]
      BY <1>6, <1>7 DEF Sunk
    <2>4. Sunk' = [q \in Players |-> InHand(q)' + Spent(q)']
      BY DEF Sunk
    <2> QED
      BY <1>4, <2>2, <2>3, <2>4
  <1>10. PICK k \in Int, l \in Int : k = e /\ l = -e
    BY <1>2
  <1>11. energy' = [energy EXCEPT ![b] = energy[b] + l]
    <2>1. energy[b] \in Int /\ energy[b] - k = energy[b] + l
      BY <1>4, <1>10
    <2> QED
      BY <1>3, <1>10, <2>1
  <1>12. EnergySum' = EnergySum - e
    <2>1. EnergySum' = EnergySum + l
      BY <1>4, <1>11, OneBattery
    <2> QED
      BY <1>4, <1>10, <2>1
  <1>13. SunkSum' = SunkSum + e
    <2>1. Sunk' = [Sunk EXCEPT ![p] = Sunk[p] + k]
      BY <1>8, <1>10
    <2>2. SunkSum' = SunkSum + k
      BY <1>4, <2>1, OnePlayer
    <2> QED
      BY <1>10, <2>2
  <1>14. charged = EnergySum + SunkSum /\ charged' = charged
    BY DEF EnergyLedger, EnergySum, SunkSum, Sunk, CraftDebit, history
  <1>15. charged' = EnergySum' + SunkSum'
    BY <1>2, <1>4, <1>12, <1>13, <1>14
  <1> QED
    BY <1>15 DEF EnergyLedger, EnergySum, SunkSum, Sunk

\* A finished craft turns what was in hand into what is spent.
LEMMA FinishMoves ==
    ASSUME LedgerInv, EnergyLedger, NEW p \in Players, CraftFinish(p)
    PROVE  EnergyLedger'
  <1> DEFINE e == EnergyOf[at[p].recipe]
  <1>1. /\ at'[p] = Idle /\ \A q \in Players \ {p} : at'[q] = at[q]
        /\ charged' = charged /\ energy' = energy
    BY FinishFacts
  <1>2. /\ Spent(p)' = Spent(p) + e /\ \A q \in Players \ {p} : crafted'[q] = crafted[q]
    BY FinishCounts
  <1>3. InHand(p) = e /\ InHand(p)' = 0
    BY <1>1 DEF InHand, CraftFinish, Idle
  <1>4. \A q \in Players \ {p} : InHand(q)' = InHand(q) /\ Spent(q)' = Spent(q)
    BY <1>1, <1>2 DEF InHand, Spent
  <1>5. InHand(p) \in Int /\ Spent(p) \in Int
    BY SunkTyped
  <1>6. InHand(p)' + Spent(p)' = InHand(p) + Spent(p)
    BY <1>2, <1>3, <1>5
  <1>7. Sunk' = Sunk
    BY <1>4, <1>6 DEF Sunk
  <1> QED
    BY <1>1, <1>7 DEF EnergyLedger, Sunk

\* Every step keeps the energy ledger.
LEMMA EnergyStep == LedgerInv /\ EnergyLedger /\ [Next]_vars => EnergyLedger'
  <1> SUFFICES ASSUME LedgerInv, EnergyLedger, [Next]_vars PROVE EnergyLedger'
    OBVIOUS
  <1> DEFINE Quiet == /\ UNCHANGED <<energy, crafted, charged>>
                      /\ \A q \in Players : at'[q].stage = "paid" \/ at[q].stage = "paid"
                                              => at'[q] = at[q]
  <1>1. ASSUME Quiet PROVE EnergyLedger'
    BY <1>1, EnergyQuiet
  <1> USE DEF LedgerInv, IInv, TypeOK
  <1>2. ASSUME NEW p \in Players,
               (\E i \in Items : AddItem(p, i)) \/ (\E i \in Items, n \in Amounts : CheatGet(p, i, n))
        PROVE  Quiet
    BY <1>2 DEF AddItem, CheatGet
  <1>3. ASSUME NEW p \in Players, CheatClearInv(p) PROVE Quiet
    BY <1>3 DEF CheatClearInv
  <1>4. ASSUME NEW p \in Players, NEW d \in Devices, PlaceBegin(p, d) PROVE Quiet
    BY <1>4 DEF PlaceBegin, Idle
  <1>5. ASSUME NEW p \in Players, PlaceEnd(p) PROVE Quiet
    BY <1>5 DEF PlaceEnd, Idle, history
  <1>6. ASSUME NEW p \in Players, NEW f \in Factories, NEW r \in Recipes, CraftCheck(p, f, r)
        PROVE  Quiet
    BY <1>6 DEF CraftCheck, Idle, history
  <1>7. ASSUME NEW p \in Players, CraftNoEnergy(p) PROVE Quiet
    BY <1>7 DEF CraftNoEnergy, Idle, history
  <1>8. ASSUME NEW p \in Players, NEW i \in Items, TickEat(p, i) PROVE Quiet
    BY <1>8 DEF TickEat
  <1>9. ASSUME TickHungerEnd \/ TickPanels \/ UNCHANGED vars PROVE Quiet
    BY <1>9 DEF TickHungerEnd, TickPanels, vars, history
  <1> HIDE DEF LedgerInv, IInv, TypeOK, Quiet
  <1>10. CASE TickCharge
    BY <1>10, NextType, ChargeBooked DEF LedgerInv
  <1>11. ASSUME NEW p \in Players, CraftDebit(p) \/ CraftFinish(p) PROVE EnergyLedger'
    BY <1>11, DebitMoves, FinishMoves
  <1> QED
    BY <1>1, <1>2, <1>3, <1>4, <1>5, <1>6, <1>7, <1>8, <1>9, <1>10, <1>11
    DEF Next, CraftStep, TickLoop

\* No energy is lost or made, for every layout of panels, batteries and
\* factories and every recipe: tickEnergy, tryCraftFactory and its refusals
\* move what the panels have put in and nothing else.
THEOREM EnergyAccounted == Spec => []EnergyLedger
  <1>1. Init => EnergyLedger
    <2> SUFFICES ASSUME Init PROVE EnergyLedger
      OBVIOUS
    <2>1. IsFiniteSet(Batteries) /\ IsFiniteSet(Players) /\ IsFiniteSet(Recipes)
      BY DevicesAssumption, RecipesAssumption
    <2>2. EnergySum = 0
      <3>1. energy \in [Batteries -> Int] /\ \A b \in Batteries : energy[b] = 0
        BY DEF Init
      <3> QED
        BY <2>1, <3>1, SumZero DEF EnergySum
    <2>3. ASSUME NEW p \in Players PROVE InHand(p) = 0 /\ Spent(p) = 0
      <3> DEFINE f == [r \in Recipes |-> crafted[p][r] * EnergyOf[r]]
      <3>1. f \in [Recipes -> Int] /\ \A r \in Recipes : f[r] = 0
        BY RecipesAssumption DEF Init
      <3>2. Spent(p) = SumFunctionOnSet(f, Recipes)
        BY DEF Spent
      <3> HIDE DEF f
      <3>3. Spent(p) = 0
        BY <2>1, <3>1, <3>2, SumZero
      <3> QED
        BY <3>3 DEF InHand, Init, Idle
    <2>4. Sunk \in [Players -> Int] /\ \A p \in Players : Sunk[p] = 0
      BY <2>3 DEF Sunk
    <2>5. SunkSum = 0
      BY <2>1, <2>4, SumZero DEF SunkSum
    <2>6. charged = EnergySum + SunkSum
      BY <2>2, <2>5 DEF Init
    <2> QED
      BY <2>6 DEF EnergyLedger, EnergySum, SunkSum, Sunk
  <1> QED
    BY <1>1, LedgerInvariance, EnergyStep, PTL DEF Spec

-----------------------------------------------------------------------------
(* What the panels give at the tick rate of the server *)

\* At more than five ticks a second the share of one panel in one tick is
\* rounded to nothing.
LEMMA NoGain == TickRate > 5 => EnergyPerPanel = 0
  <1> SUFFICES ASSUME TickRate > 5 PROVE EnergyPerPanel = 0 OBVIOUS
  <1>1. PICK r \in Nat : r = TickRate /\ r > 5 BY NumbersAssumption
  <1>2. PICK q \in Nat : q = 500 \div r BY <1>1
  <1>3. r * q <= 500 BY <1>1, <1>2
  <1>4. q < 100
    <2> SUFFICES ASSUME q >= 100 PROVE FALSE BY <1>2
    <2>1. \A a, b \in Nat : a >= 6 /\ b >= 100 => a * b >= 600 BY SMTT(30)
    <2> QED BY <1>1, <1>2, <1>3, <2>1
  <1>5. q \div 100 = 0 BY <1>2, <1>4
  <1> QED BY <1>1, <1>2, <1>5 DEF EnergyPerPanel

\* Nothing is in a battery, and no craft that costs energy was ever paid.
Powerless ==
    /\ \A b \in Batteries : energy[b] = 0
    /\ \A p \in Players : at[p].stage = "paid" => EnergyOf[at[p].recipe] = 0
    /\ \A p \in Players, r \in Recipes : crafted[p][r] > 0 => EnergyOf[r] = 0

\* A tick without gain leaves the batteries empty.
LEMMA EmptyTick ==
    ASSUME Powerless, TypeOK, EnergyPerPanel = 0, TickCharge
    PROVE  \A b \in Batteries : energy'[b] = 0
  <1> SUFFICES ASSUME NEW b \in Batteries PROVE energy'[b] = 0 OBVIOUS
  <1>1. PICK link \in [panels -> Batteries] :
            energy' = [c \in Batteries |-> Clamp(energy[c] + EnergyPerPanel
                          * Cardinality({x \in panels : Nearest(x) # {} /\ link[x] = c}))]
    BY DEF TickCharge
  <1> DEFINE X == {x \in panels : Nearest(x) # {} /\ link[x] = b}
  <1>2. energy'[b] = Clamp(0 + 0 * Cardinality(X)) BY <1>1 DEF Powerless
  <1>3. Cardinality(X) \in Nat
    <2>1. IsFiniteSet(X) BY DevicesAssumption, FS_Subset DEF TypeOK
    <2> QED BY <2>1, FS_CardinalityType
  <1> HIDE DEF X
  <1>4. 0 + 0 * Cardinality(X) = 0 BY <1>3
  <1>5. Clamp(0) = 0 BY NumbersAssumption DEF Clamp
  <1> QED BY <1>2, <1>4, <1>5, Zenon

\* Every other step finds the batteries empty and leaves them so: a craft that
\* costs energy is refused.
LEMMA PowerlessStep ==
    ASSUME LedgerInv, Powerless, EnergyPerPanel = 0, [Next]_vars
    PROVE  Powerless'
  <1>0. TypeOK BY DEF LedgerInv, IInv
  <1> DEFINE Same == UNCHANGED <<energy, crafted>>
                       /\ \A q \in Players : at'[q].stage = "paid" => at'[q] = at[q]
  <1>1. Same => Powerless' BY DEF Powerless
  <1>2. ASSUME NEW p \in Players, NEW i \in Items,
               AddItem(p, i) \/ (\E n \in Amounts : CheatGet(p, i, n)) \/ TickEat(p, i)
        PROVE  Same
    BY <1>2 DEF AddItem, CheatGet, TickEat
  <1>3. ASSUME NEW p \in Players, CheatClearInv(p) PROVE Same
    BY <1>3 DEF CheatClearInv
  <1>4. ASSUME NEW p \in Players, NEW d \in Devices, PlaceBegin(p, d) PROVE Same
    BY <1>0, <1>4 DEF PlaceBegin, TypeOK
  <1>5. ASSUME NEW p \in Players, PlaceEnd(p) \/ CraftNoEnergy(p) PROVE Same
    BY <1>0, <1>5 DEF PlaceEnd, CraftNoEnergy, TypeOK, Idle, history
  <1>6. ASSUME NEW p \in Players, NEW f \in Factories, NEW r \in Recipes, CraftCheck(p, f, r)
        PROVE  Same
    BY <1>0, <1>6 DEF CraftCheck, TypeOK, history
  <1>7. ASSUME TickHungerEnd \/ TickPanels \/ UNCHANGED vars PROVE Same
    BY <1>7 DEF TickHungerEnd, TickPanels, vars, history
  <1> HIDE DEF Same
  <1>8. CASE TickCharge
    <2>1. \A b \in Batteries : energy'[b] = 0 BY <1>0, <1>8, EmptyTick
    <2>2. UNCHANGED <<at, crafted>> BY <1>8 DEF TickCharge
    <2> QED BY <2>1, <2>2 DEF Powerless
  <1>9. ASSUME NEW p \in Players, CraftDebit(p) PROVE Powerless'
    <2>1. at[p] \in Crafts
      BY <1>0, <1>9 DEF CraftDebit, TypeOK, Places, Crafts, Idle
    <2>2. PICK b \in Nearest(at[p].on) :
              /\ energy[b] >= EnergyOf[at[p].recipe]
              /\ energy' = [energy EXCEPT ![b] = @ - EnergyOf[at[p].recipe]]
      BY <1>9 DEF CraftDebit
    <2>3. b \in Batteries BY DEF Nearest
    <2>4. EnergyOf[at[p].recipe] \in Nat BY <2>1, RecipesAssumption DEF Crafts
    <2>5. EnergyOf[at[p].recipe] = 0 BY <2>2, <2>3, <2>4 DEF Powerless
    <2>6. \A c \in Batteries : energy'[c] = 0
      BY <1>0, <2>2, <2>3, <2>5 DEF Powerless, TypeOK
    <2>7. crafted' = crafted /\ at' = [at EXCEPT ![p].stage = "paid"]
      BY <1>9 DEF CraftDebit, history
    <2>8. \A q \in Players : at'[q].stage = "paid" => EnergyOf[at'[q].recipe] = 0
      <3>1. at'[p].recipe = at[p].recipe BY <1>0, <2>1, <2>7 DEF TypeOK, Crafts
      <3>2. \A q \in Players : q # p => at'[q] = at[q] BY <1>0, <2>7 DEF TypeOK
      <3> QED BY <2>5, <3>1, <3>2 DEF Powerless
    <2> QED BY <2>6, <2>7, <2>8 DEF Powerless
  <1>10. ASSUME NEW p \in Players, CraftFinish(p) PROVE Powerless'
    <2>1. EnergyOf[at[p].recipe] = 0 BY <1>10 DEF CraftFinish, Powerless
    <2>2. /\ crafted' = [crafted EXCEPT ![p][at[p].recipe] = @ + 1]
          /\ at' = [at EXCEPT ![p] = Idle] /\ energy' = energy
      BY <1>10 DEF CraftFinish
    <2>3. crafted \in [Players -> [Recipes -> Nat]] BY DEF LedgerInv, HistoryTyped
    <2>4. ASSUME NEW q \in Players, NEW r \in Recipes, crafted'[q][r] > 0
          PROVE  EnergyOf[r] = 0
      <3>1. CASE q = p /\ r = at[p].recipe BY <2>1, <3>1
      <3>2. CASE q # p \/ r # at[p].recipe
        <4>1. crafted'[q][r] = crafted[q][r] BY <2>2, <2>3, <3>2
        <4> QED BY <2>4, <4>1 DEF Powerless
      <3> QED BY <3>1, <3>2
    <2>5. \A q \in Players : at'[q].stage = "paid" => at'[q] = at[q]
      BY <1>0, <2>2 DEF TypeOK, Idle
    <2> QED BY <2>2, <2>4, <2>5 DEF Powerless
  <1> QED
    BY <1>1, <1>2, <1>3, <1>4, <1>5, <1>6, <1>7, <1>8, <1>9, <1>10
    DEF Next, CraftStep, TickLoop

\* At the default of 20 ticks a second, and at every rate above 5, no battery is
\* ever charged and no recipe that costs energy is ever crafted, whatever panels
\* and batteries are placed (tickEnergy): what the run energy_rate shows of
\* PanelsCharge on one layout, for all of them.
THEOREM NothingCharges ==
    ASSUME TickRate > 5
    PROVE  Spec => []Powerless
  <1>1. Init => Powerless BY DEF Init, Powerless, Idle
  <1>2. EnergyPerPanel = 0 BY NoGain
  <1>3. LedgerInv /\ Powerless /\ [Next]_vars => Powerless' BY <1>2, PowerlessStep
  <1> QED BY <1>1, <1>3, LedgerInvariance, PTL DEF Spec

=============================================================================
