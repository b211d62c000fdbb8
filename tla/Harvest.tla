------------------------------- MODULE Harvest -------------------------------
(***************************************************************************)
(* Where food and tools come from: planting, watering and growing, wells,  *)
(* crafting, hunting with spears, picking up, eating, houses and the chat  *)
(* shortcuts.  Handlers of different players and the tick loop share the   *)
(* resources on the ground (s.resources) and the inventories (c.mu), and   *)
(* most handlers take the two locks one after the other.  Distances and    *)
(* hunger are left open; time matters only for throws and hits.            *)
(***************************************************************************)
EXTENDS Integers, FiniteSets, Functions

CONSTANTS
    Players, Ids,         \* connections; identities of resources
    Items,                \* kinds of goods, "seed" (never crafted) included
    Start,                \* what spawnResources leaves: [Ids -> Items or None]
    Houses, Herd,         \* houses to place; number of mammoths to hunt
    Recipes, Need,        \* craftable items and what each one takes
    Cooldown,             \* least time between two throws
    Window, Debounce,     \* a hit follows a throw by at most, a hit by at least
    Gifts, MaxGiven,      \* bound: what /get is asked for, how often in all
    Plenty,               \* what /allinv sets an item to
    MaxDrawn,             \* bound: buckets drawn from wells
    None

Goods == [Items -> Nat]

ASSUME FiniteAssumption == IsFiniteSet(Players) /\ IsFiniteSet(Ids)
ASSUME ItemsAssumption ==
    {"fruit", "water", "spear", "meat", "seed", "house"} \subseteq Items /\ None \notin Items
ASSUME RecipesAssumption == Recipes \subseteq Items /\ Need \in [Recipes -> Goods]
ASSUME StartAssumption == Start \in [Ids -> Items \cup {None}]
ASSUME TimesAssumption ==
    Cooldown \in Nat /\ Window \in Nat /\ Debounce \in Nat \ {0} /\ Debounce <= Window
ASSUME BoundsAssumption ==
    Herd \in Nat /\ Gifts \subseteq Items /\ MaxGiven \in Nat /\ MaxDrawn \in Nat
    /\ Plenty \in Nat

VARIABLES
    inv,                  \* Client.inventory
    todo,                 \* what a handler still has to do: [op, item, id]
    ground,               \* s.resources by identity
    watered, ripe,        \* seeds with Watered; those whose GrowAt has come
    bag,                  \* what mobs have picked up
    house, herd,          \* "none", "closed" or "open"; mammoths left
    throwAge, hitAge,     \* time since lastThrowAt and lastHitAt
    given, drawn, poured, \* history: /get; water from wells; water used on seeds
    made, spent, grown,   \* history: goods crafted; goods used up; seeds grown
    kills, hits           \* history: mammoths killed; hits since the last throw

plot == <<ground, watered, ripe>>
tally == <<given, drawn, poured, made, spent, grown>>
hunt == <<herd, throwAge, hitAge, kills, hits>>
vars == <<inv, todo, ground, watered, ripe, bag, house, herd, throwAge, hitAge,
          given, drawn, poured, made, spent, grown, kills, hits>>

Zero == [i \in Items |-> 0]
Idle == [op |-> "idle", item |-> None, id |-> None]
\* Older than every limit: the zero time of Go.
Old == Window + Cooldown + 1

Init ==
    /\ inv = [p \in Players |-> Zero] /\ todo = [p \in Players |-> Idle]
    /\ ground = Start /\ watered = {} /\ ripe = {} /\ bag = Zero
    /\ house = [h \in Houses |-> "none"] /\ herd = Herd
    /\ throwAge = [p \in Players |-> Old] /\ hitAge = [p \in Players |-> Old]
    /\ given = Zero /\ drawn = 0 /\ poured = 0 /\ made = Zero /\ spent = Zero /\ grown = 0
    /\ kills = 0 /\ hits = [p \in Players |-> 0]

-----------------------------------------------------------------------------
(* Inventories, under c.mu *)

CanAct(p) == todo[p] = Idle
Goes(p, op, item, id) == todo' = [todo EXCEPT ![p] = [op |-> op, item |-> item, id |-> id]]
Done(p) == todo' = [todo EXCEPT ![p] = Idle]

AddItem(p, item) == inv' = [inv EXCEPT ![p][item] = @ + 1]
ConsumeItem(p, item) == inv[p][item] > 0 /\ inv' = [inv EXCEPT ![p][item] = @ - 1]

Craft(p, recipe) ==
    /\ CanAct(p) /\ \A i \in Items : inv[p][i] >= Need[recipe][i]
    /\ inv' = [inv EXCEPT ![p] = [i \in Items |->
                 @[i] - Need[recipe][i] + IF i = recipe THEN 1 ELSE 0]]
    /\ made' = [made EXCEPT ![recipe] = @ + 1]
    /\ spent' = [i \in Items |-> spent[i] + Need[recipe][i]]
    /\ UNCHANGED <<todo, plot, bag, house, hunt, given, drawn, poured, grown>>

\* handleEatFruitMsg, and tickHunger, which also runs inside other handlers.
Eat(p) ==
    /\ \E food \in {"fruit", "meat"} :
         ConsumeItem(p, food) /\ spent' = [spent EXCEPT ![food] = @ + 1]
    /\ UNCHANGED <<todo, plot, bag, house, hunt, given, drawn, poured, made, grown>>

CheatGet(p, item) ==
    /\ CanAct(p) /\ SumFunctionOnSet(given, Items) < MaxGiven
    /\ AddItem(p, item) /\ given' = [given EXCEPT ![item] = @ + 1]
    /\ UNCHANGED <<todo, plot, bag, house, hunt, drawn, poured, made, spent, grown>>

\* /allinv sets every item but seeds to the same amount, whatever was there.
\* Bound: it is the first thing that is given.
CheatAllInv(p) ==
    LET set == [i \in Items |-> IF i = "seed" THEN inv[p][i] ELSE Plenty]
    IN  /\ CanAct(p) /\ given = Zero
        /\ inv' = [inv EXCEPT ![p] = set]
        /\ given' = [i \in Items |-> IF set[i] > inv[p][i] THEN set[i] - inv[p][i] ELSE 0]
        /\ spent' = [i \in Items |->
              spent[i] + IF set[i] < inv[p][i] THEN inv[p][i] - set[i] ELSE 0]
        /\ UNCHANGED <<todo, plot, bag, house, hunt, drawn, poured, made, grown>>

CheatClearInv(p) ==
    /\ CanAct(p) /\ inv[p] # Zero
    /\ inv' = [inv EXCEPT ![p] = Zero]
    /\ spent' = [i \in Items |-> spent[i] + inv[p][i]]
    /\ UNCHANGED <<todo, plot, bag, house, hunt, given, drawn, poured, made, grown>>

TakeWater(p) ==
    /\ CanAct(p) /\ drawn < MaxDrawn
    /\ AddItem(p, "water") /\ drawn' = drawn + 1
    /\ UNCHANGED <<todo, plot, bag, house, hunt, given, poured, made, spent, grown>>

-----------------------------------------------------------------------------
(* The ground, under s.resources *)

\* newID never repeats.  An identity that nothing on the ground and no handler
\* refers to cannot be told from a new one.
Fresh == {g \in Ids : ground[g] = None /\ \A p \in Players : todo[p].id # g}
NewIDs(n) == CHOOSE S \in SUBSET Fresh : Cardinality(S) = n

\* Resources of one kind, put on the ground of a plot.
Put(plotted, ids, item) == [g \in Ids |-> IF g \in ids THEN item ELSE plotted[g]]

\* The goods of a resource lie in nobody's hands until addItem.
Pickup(p, g) ==
    /\ CanAct(p) /\ ground[g] \notin {None, "seed"}
    /\ ground' = [ground EXCEPT ![g] = None]
    /\ Goes(p, "add", ground[g], g)
    /\ UNCHANGED <<inv, watered, ripe, bag, house, hunt, tally>>

PickupAdd(p) ==
    /\ todo[p].op = "add" /\ AddItem(p, todo[p].item) /\ Done(p)
    /\ UNCHANGED <<plot, bag, house, hunt, tally>>

PlantPay(p) ==
    /\ CanAct(p) /\ ConsumeItem(p, "fruit") /\ Goes(p, "plant", "seed", None)
    /\ UNCHANGED <<plot, bag, house, hunt, tally>>

PlantPut(p) ==
    /\ todo[p].op = "plant" /\ Done(p)
    /\ Fresh # {} /\ ground' = Put(ground, NewIDs(1), "seed")
    /\ UNCHANGED <<inv, watered, ripe, bag, house, hunt, tally>>

\* handleWaterPlant looks at the seed, unlocks, pays, locks and looks again.
WaterLook(p, g) ==
    /\ CanAct(p) /\ ground[g] = "seed" /\ g \notin watered
    /\ Goes(p, "waterPay", "water", g)
    /\ UNCHANGED <<inv, plot, bag, house, hunt, tally>>

\* Mutant: the answer of consumeItem is not looked at.
WaterPayAnyway(p) ==
    /\ todo[p].op = "waterPay"
    /\ inv' = [inv EXCEPT ![p]["water"] = IF @ > 0 THEN @ - 1 ELSE 0]
    /\ poured' = IF inv[p]["water"] > 0 THEN poured + 1 ELSE poured
    /\ Goes(p, "waterSet", "water", todo[p].id)
    /\ UNCHANGED <<plot, bag, house, hunt, given, drawn, made, spent, grown>>

WaterPay(p) ==
    /\ todo[p].op = "waterPay"
    /\ IF inv[p]["water"] > 0
         THEN /\ ConsumeItem(p, "water") /\ poured' = poured + 1
              /\ Goes(p, "waterSet", "water", todo[p].id)
         ELSE UNCHANGED <<inv, poured>> /\ Done(p)
    /\ UNCHANGED <<plot, bag, house, hunt, given, drawn, made, spent, grown>>

\* Mutant: the copy read before the payment is written back.
WaterSetStale(p) ==
    /\ todo[p].op = "waterSet" /\ Done(p)
    /\ ground' = [ground EXCEPT ![todo[p].id] = "seed"]
    /\ watered' = watered \cup {todo[p].id}
    /\ UNCHANGED <<inv, ripe, bag, house, hunt, tally>>

WaterSet(p) ==
    /\ todo[p].op = "waterSet" /\ Done(p)
    /\ watered' = IF ground[todo[p].id] = "seed" THEN watered \cup {todo[p].id} ELSE watered
    /\ UNCHANGED <<inv, ground, ripe, bag, house, hunt, tally>>

\* growDelay has passed for some seed.
Ripen ==
    /\ \E g \in watered \ ripe : ripe' = ripe \cup {g}
    /\ UNCHANGED <<inv, todo, ground, watered, bag, house, hunt, tally>>

\* Mutant: a seed that is not ripe ends the loop instead of the iteration.
GrowingAll == IF \A g \in Ids : ground[g] = "seed" => g \in ripe THEN ripe ELSE {}

Growing == ripe

\* tickResources: every ripe seed becomes two fruits.
TickResources ==
    /\ Growing # {} /\ Cardinality(Fresh) >= 2 * Cardinality(Growing)
    /\ ground' = Put(Put(ground, Growing, None), NewIDs(2 * Cardinality(Growing)), "fruit")
    /\ watered' = watered \ Growing /\ ripe' = ripe \ Growing
    /\ grown' = grown + Cardinality(Growing)
    /\ UNCHANGED <<inv, todo, bag, house, hunt, given, drawn, poured, made, spent>>

\* tickCollector and pinkPickUpResource take seeds too, watered or not.
MobTakes(g) ==
    /\ ground[g] # None
    /\ ground' = [ground EXCEPT ![g] = None]
    /\ bag' = [bag EXCEPT ![ground[g]] = @ + 1]
    /\ watered' = watered \ {g} /\ ripe' = ripe \ {g}
    /\ UNCHANGED <<inv, todo, house, hunt, tally>>

\* spawnCollectorDrop: a fresh resource, a seed is dry again.
MobDrops(item) ==
    /\ bag[item] > 0 /\ bag' = [bag EXCEPT ![item] = @ - 1]
    /\ Fresh # {} /\ ground' = Put(ground, NewIDs(1), item)
    /\ UNCHANGED <<inv, todo, watered, ripe, house, hunt, tally>>

\* pinkDeliver, a seed included: its owner can do nothing with it.
MobDelivers(p) ==
    /\ bag # Zero /\ bag' = Zero
    /\ inv' = [inv EXCEPT ![p] = [i \in Items |-> @[i] + bag[i]]]
    /\ UNCHANGED <<todo, plot, house, hunt, tally>>

-----------------------------------------------------------------------------
(* Hunting *)

\* One unit of time; ages beyond Old are all the same.
Elapse ==
    /\ \E p \in Players : throwAge[p] < Old \/ hitAge[p] < Old
    /\ throwAge' = [p \in Players |-> IF throwAge[p] < Old THEN throwAge[p] + 1 ELSE Old]
    /\ hitAge' = [p \in Players |-> IF hitAge[p] < Old THEN hitAge[p] + 1 ELSE Old]
    /\ UNCHANGED <<todo, inv, plot, bag, house, herd, tally, kills, hits>>

\* handleThrowSpear takes the spear first ...
ThrowTake(p) ==
    /\ CanAct(p) /\ ConsumeItem(p, "spear") /\ Goes(p, "throw", "spear", None)
    /\ UNCHANGED <<plot, bag, house, hunt, tally>>

\* Mutant: the spear of a throw that comes too early is not given back.
ThrowTooEarlyLost(p) ==
    /\ todo[p].op = "throw" /\ throwAge[p] < Cooldown
    /\ Done(p)
    /\ UNCHANGED <<inv, plot, bag, house, hunt, tally>>

\* ... and gives it back when the last throw was too recent.
ThrowTooEarly(p) ==
    /\ todo[p].op = "throw" /\ throwAge[p] < Cooldown
    /\ AddItem(p, "spear") /\ Done(p)
    /\ UNCHANGED <<plot, bag, house, hunt, tally>>

Throw(p) ==
    /\ todo[p].op = "throw" /\ throwAge[p] >= Cooldown /\ Done(p)
    /\ throwAge' = [throwAge EXCEPT ![p] = 0]
    /\ spent' = [spent EXCEPT !["spear"] = @ + 1] /\ hits' = [hits EXCEPT ![p] = 0]
    /\ UNCHANGED <<inv, plot, bag, house, herd, hitAge, kills, given, drawn, poured, made, grown>>

Accepted(p) == hitAge[p] >= Debounce /\ throwAge[p] <= Window

\* Mutant: lastHitAt is not set.
HitMammothAgain(p) ==
    /\ CanAct(p) /\ Accepted(p)
    /\ hits' = [hits EXCEPT ![p] = @ + 1]
    /\ \/ herd > 0 /\ herd' = herd - 1 /\ kills' = kills + 1 /\ Goes(p, "drop", "spear", None)
       \/ UNCHANGED <<herd, kills, todo>>
    /\ UNCHANGED <<inv, plot, bag, house, throwAge, hitAge, tally>>

\* handleHitMammoth: the named mammoth dies, or is not there or too far.
HitMammoth(p) ==
    /\ CanAct(p) /\ Accepted(p)
    /\ hitAge' = [hitAge EXCEPT ![p] = 0] /\ hits' = [hits EXCEPT ![p] = @ + 1]
    /\ \/ herd > 0 /\ herd' = herd - 1 /\ kills' = kills + 1 /\ Goes(p, "drop", "spear", None)
       \/ UNCHANGED <<herd, kills, todo>>
    /\ UNCHANGED <<inv, plot, bag, house, throwAge, tally>>

SpawnMammothDrops(p) ==
    /\ todo[p].op = "drop" /\ Done(p)
    /\ Cardinality(Fresh) >= 2
    /\ LET drops == NewIDs(2)
           meat == CHOOSE g \in drops : TRUE
       IN  ground' = Put(Put(ground, {meat}, "meat"), drops \ {meat}, "spear")
    /\ UNCHANGED <<inv, watered, ripe, bag, house, hunt, tally>>

-----------------------------------------------------------------------------
(* Houses *)

PlaceHousePay(p) ==
    /\ CanAct(p) /\ ConsumeItem(p, "house") /\ Goes(p, "house", "house", None)
    /\ UNCHANGED <<plot, bag, house, hunt, tally>>

PlaceHouse(p, h) ==
    /\ todo[p].op = "house" /\ house[h] = "none" /\ Done(p)
    /\ house' = [house EXCEPT ![h] = "closed"]
    /\ spent' = [spent EXCEPT !["house"] = @ + 1]
    /\ UNCHANGED <<inv, plot, bag, hunt, given, drawn, poured, made, grown>>

ToggleDoor(p, h) ==
    /\ CanAct(p) /\ house[h] # "none"
    /\ house' = [house EXCEPT ![h] = IF @ = "open" THEN "closed" ELSE "open"]
    /\ UNCHANGED <<todo, inv, plot, bag, hunt, tally>>

-----------------------------------------------------------------------------
(* Next *)

\* handleCheatCommand: the commands that change inventories.
CheatCommand(p) ==
    CheatAllInv(p) \/ CheatClearInv(p) \/ \E item \in Gifts : CheatGet(p, item)

Handler(p) ==
    \/ Eat(p) \/ CheatCommand(p) \/ TakeWater(p) \/ PickupAdd(p)
    \/ PlantPay(p) \/ PlantPut(p) \/ WaterPay(p) \/ WaterSet(p)
    \/ ThrowTake(p) \/ ThrowTooEarly(p) \/ Throw(p) \/ HitMammoth(p) \/ SpawnMammothDrops(p)
    \/ PlaceHousePay(p) \/ MobDelivers(p)
    \/ \E g \in Ids : Pickup(p, g) \/ WaterLook(p, g)
    \/ \E recipe \in Recipes : Craft(p, recipe)
    \/ \E h \in Houses : PlaceHouse(p, h) \/ ToggleDoor(p, h)

Next ==
    \/ \E p \in Players : Handler(p)
    \/ TickResources \/ Ripen \/ Elapse
    \/ \E g \in Ids : MobTakes(g)
    \/ \E item \in Items : MobDrops(item)

Spec == Init /\ [][Next]_vars

\* Time passes and the tick loop runs.
FairSpec == Spec /\ WF_vars(Ripen) /\ WF_vars(TickResources)

-----------------------------------------------------------------------------
(* Properties *)

\* The state is well formed: no inventory is negative, and only a seed that is
\* still in the ground is watered or ripe (handleWaterPlant, tickResources).
TypeOK ==
    /\ inv \in [Players -> Goods]
    /\ todo \in [Players -> [op : {"idle", "add", "plant", "waterPay", "waterSet", "throw",
                                   "drop", "house"},
                             item : Items \cup {None}, id : Ids \cup {None}]]
    /\ ground \in [Ids -> Items \cup {None}]
    /\ ripe \subseteq watered /\ watered \subseteq {g \in Ids : ground[g] = "seed"}
    /\ bag \in Goods /\ house \in [Houses -> {"none", "closed", "open"}] /\ herd \in 0..Herd
    /\ throwAge \in [Players -> 0..Old] /\ hitAge \in [Players -> 0..Old]
    /\ given \in Goods /\ made \in Goods /\ spent \in Goods /\ hits \in [Players -> Nat]
    /\ {drawn, poured, grown, kills} \subseteq Nat

InHands(item) == Cardinality({p \in Players : todo[p].op \in {"add", "plant", "throw"}
                                              /\ todo[p].item = item})

Total(item) ==
    SumFunctionOnSet([p \in Players |-> inv[p][item]], Players) + bag[item] + InHands(item)
      + Cardinality({g \in Ids : ground[g] = item})

Started(item) == Cardinality({g \in Ids : Start[g] = item})

\* What is somewhere or was used up came from the start, /get or a craft.
Balance(item) == Total(item) + spent[item] - Started(item) - given[item] - made[item]

\* Fruit is neither lost nor made but by a seed, which was itself a fruit, when
\* it grows, and that once: a seed that was taken, or has grown, between the two
\* looks of handleWaterPlant does not come back.
FruitLedger == Balance("fruit") + Balance("seed") = grown

\* Every watering has cost one water: the seeds that have grown or are wet are
\* no more than the buckets poured out, whichever of two players was first.
WaterLedger ==
    /\ Balance("water") + poured = drawn
    /\ grown + Cardinality(watered) <= poured

\* Spears come to light with dead mammoths only: handleThrowSpear takes the
\* spear before it looks at the cooldown, and gives the one of a throw that
\* comes too early back.
SpearLedger == Balance("spear") = kills - Cardinality({p \in Players : todo[p].op = "drop"})

\* One throw is good for a bounded number of hits: duplicates of HitMammoth
\* that arrive within the debounce time are not counted as new hits.
HitsPerThrow == \A p \in Players : hits[p] <= Window \div Debounce + 1

\* A seed that was watered does not stay in the ground for ever: it grows, or
\* a mob takes it.
WateredGrows == \A g \in Ids : g \in watered ~> g \notin watered

=============================================================================
