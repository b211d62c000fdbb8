------------------------------- MODULE Energy -------------------------------
(***************************************************************************)
(* Solar panels, batteries and factories (energy.go).  Panels charge the   *)
(* nearest battery in every tick; tryCraftFactory holds the player's c.mu  *)
(* while it checks the materials, takes the energy under s.batteries and   *)
(* then takes the materials.  The player's other handlers wait for it, but *)
(* the tick loop eats from the same inventory and delivers to it.          *)
(***************************************************************************)
EXTENDS Integers, FiniteSets, Functions

CONSTANTS
    Players, Items,
    Panels, Batteries, Factories,
    Kind,        \* the item a device is placed from
    Food,        \* the items that tickHunger eats
    Recipes, Need, Out, EnergyOf,   \* factoryRecipes
    Dist,        \* squared distance from a panel or factory to a battery
    LinkRadius,  \* energyLinkRadiusD2
    BatteryMax,  \* batteryMaxEnergy
    TickRate,
    Amounts,     \* quantities /get may ask for
    MaxGiven,    \* bound: items that come into the game
    None         \* no device, no recipe

Devices == Panels \cup Batteries \cup Factories

ASSUME DevicesAssumption ==
    /\ IsFiniteSet(Panels) /\ IsFiniteSet(Batteries)
    /\ Panels \cap Batteries = {} /\ Panels \cap Factories = {}
    /\ Batteries \cap Factories = {}
    /\ Kind \in [Devices -> Items]
    /\ Dist \in [Panels \cup Factories -> [Batteries -> Nat]] /\ LinkRadius \in Nat
ASSUME RecipesAssumption ==
    /\ IsFiniteSet(Players) /\ IsFiniteSet(Recipes)
    /\ Food \subseteq Items
    /\ Need \in [Recipes -> [Items -> Nat]]
    /\ Out \in [Recipes -> Items]
    /\ EnergyOf \in [Recipes -> Nat]
ASSUME NumbersAssumption ==
    /\ BatteryMax \in Nat /\ TickRate \in Nat \ {0}
    /\ Amounts \subseteq Nat /\ MaxGiven \in Nat

VARIABLES
    inv,        \* inv[p][i]: c.inventory, a missing key being 0
    locked,     \* players whose c.mu is held by tryCraftFactory
    at,         \* where the handler of a player is
    placed,     \* devices in s.solar, s.batteries and s.factories
    energy,     \* Battery.Energy
    tick,       \* the phase the tick loop runs next
    panels,     \* the panels tickEnergy has collected
    given, supply, crafted, charged  \* history, for the ledgers

vars == <<inv, locked, at, placed, energy, tick, panels, given, supply, crafted, charged>>
history == <<given, supply, crafted, charged>>

Idle == [stage |-> "idle", on |-> None, recipe |-> None]
Empty == [i \in Items |-> 0]

Init ==
    /\ inv = [p \in Players |-> Empty]
    /\ locked = {} /\ at = [p \in Players |-> Idle]
    /\ placed = {} /\ energy = [b \in Batteries |-> 0]
    /\ tick = "hunger" /\ panels = {}
    /\ given = 0 /\ supply = [p \in Players |-> Empty]
    /\ crafted = [p \in Players |-> [r \in Recipes |-> 0]] /\ charged = 0

-----------------------------------------------------------------------------
(* Items come into an inventory and leave it. *)

Change(p, i, n) ==
    /\ inv' = [inv EXCEPT ![p][i] = @ + n]
    /\ supply' = [supply EXCEPT ![p][i] = @ + n]

\* addItem, called by the player's own handlers and by the tick loop (a
\* delivery of a pink mob): it only needs c.mu.
AddItem(p, i) ==
    /\ p \notin locked /\ given < MaxGiven
    /\ given' = given + 1 /\ Change(p, i, 1)
    /\ UNCHANGED <<locked, at, placed, energy, tick, panels, crafted, charged>>

CheatGet(p, i, n) ==
    /\ at[p] = Idle /\ p \notin locked /\ given + n <= MaxGiven
    /\ given' = given + n /\ Change(p, i, n)
    /\ UNCHANGED <<locked, at, placed, energy, tick, panels, crafted, charged>>

CheatClearInv(p) ==
    /\ at[p] = Idle /\ p \notin locked
    /\ inv' = [inv EXCEPT ![p] = Empty]
    /\ supply' = [supply EXCEPT ![p] = [i \in Items |-> supply[p][i] - inv[p][i]]]
    /\ UNCHANGED <<locked, at, placed, energy, tick, panels, given, crafted, charged>>

\* The place handlers: consumeItem, and then the store, two critical sections.
PlaceBegin(p, d) ==
    /\ at[p] = Idle /\ p \notin locked /\ d \notin placed
    /\ \A q \in Players : ~(at[q].stage = "place" /\ at[q].on = d)
    /\ inv[p][Kind[d]] > 0
    /\ Change(p, Kind[d], -1)
    /\ at' = [at EXCEPT ![p] = [stage |-> "place", on |-> d, recipe |-> None]]
    /\ UNCHANGED <<locked, placed, energy, tick, panels, given, crafted, charged>>

PlaceEnd(p) ==
    /\ at[p].stage = "place"
    /\ placed' = placed \cup {at[p].on}
    /\ at' = [at EXCEPT ![p] = Idle]
    /\ UNCHANGED <<inv, locked, energy, tick, panels, history>>

-----------------------------------------------------------------------------
(* handleCraftFactory *)

\* The placed batteries in range that no placed battery is nearer than: more
\* than one when distances tie, and the map is walked in any order.
Nearest(x) ==
    LET near == {b \in placed \cap Batteries : Dist[x][b] < LinkRadius}
    IN  {b \in near : \A c \in near : Dist[x][b] <= Dist[x][c]}

Enough(p, r) == \A i \in Items : inv[p][i] >= Need[r][i]

\* Mutant: the check and the payment are two critical sections of c.mu, as
\* they once were.
CraftCheckUnlocked(p, f, r) ==
    /\ at[p] = Idle /\ p \notin locked
    /\ f \in placed /\ Enough(p, r)
    /\ at' = [at EXCEPT ![p] = [stage |-> "checked", on |-> f, recipe |-> r]]
    /\ UNCHANGED <<inv, locked, placed, energy, tick, panels, history>>

CraftCheck(p, f, r) ==
    /\ at[p] = Idle /\ p \notin locked
    /\ f \in placed /\ Enough(p, r)
    /\ locked' = locked \cup {p}
    /\ at' = [at EXCEPT ![p] = [stage |-> "checked", on |-> f, recipe |-> r]]
    /\ UNCHANGED <<inv, placed, energy, tick, panels, history>>

\* Mutant: the comparison with the battery's charge is missing.
CraftDebitUnchecked(p) ==
    /\ at[p].stage = "checked"
    /\ \E b \in Nearest(at[p].on) :
        energy' = [energy EXCEPT ![b] = @ - EnergyOf[at[p].recipe]]
    /\ at' = [at EXCEPT ![p].stage = "paid"]
    /\ UNCHANGED <<inv, locked, placed, tick, panels, history>>

CraftDebit(p) ==
    /\ at[p].stage = "checked"
    /\ \E b \in Nearest(at[p].on) :
        /\ energy[b] >= EnergyOf[at[p].recipe]
        /\ energy' = [energy EXCEPT ![b] = @ - EnergyOf[at[p].recipe]]
    /\ at' = [at EXCEPT ![p].stage = "paid"]
    /\ UNCHANGED <<inv, locked, placed, tick, panels, history>>

\* Mutant: the energy is taken before the refusal and not given back.
CraftNoEnergyTaken(p) ==
    /\ at[p].stage = "checked"
    /\ \E b \in Nearest(at[p].on) :
        /\ energy[b] < EnergyOf[at[p].recipe]
        /\ energy' = [energy EXCEPT ![b] = 0]
    /\ at' = [at EXCEPT ![p] = Idle] /\ locked' = locked \ {p}
    /\ UNCHANGED <<inv, placed, tick, panels, history>>

CraftNoEnergy(p) ==
    /\ at[p].stage = "checked"
    /\ \/ Nearest(at[p].on) = {}
       \/ \E b \in Nearest(at[p].on) : energy[b] < EnergyOf[at[p].recipe]
    /\ at' = [at EXCEPT ![p] = Idle] /\ locked' = locked \ {p}
    /\ UNCHANGED <<inv, placed, energy, tick, panels, history>>

\* The materials go, an entry that would fall below zero is deleted, and the
\* product is added; the deferred unlock.
CraftFinish(p) ==
    /\ at[p].stage = "paid"
    /\ LET r == at[p].recipe
           left == [i \in Items |-> IF inv[p][i] > Need[r][i] THEN inv[p][i] - Need[r][i] ELSE 0]
       IN  /\ inv' = [inv EXCEPT ![p] = [left EXCEPT ![Out[r]] = @ + 1]]
           /\ crafted' = [crafted EXCEPT ![p][r] = @ + 1]
    /\ at' = [at EXCEPT ![p] = Idle] /\ locked' = locked \ {p}
    /\ UNCHANGED <<placed, energy, tick, panels, given, supply, charged>>

-----------------------------------------------------------------------------
(* The phases of tickLoop that touch this state. *)

\* tickHunger eats while the player is hungry and has food.
TickEat(p, i) ==
    /\ tick = "hunger" /\ p \notin locked
    /\ i \in Food /\ inv[p][i] > 0
    /\ Change(p, i, -1)
    /\ UNCHANGED <<locked, at, placed, energy, tick, panels, given, crafted, charged>>

TickHungerEnd ==
    /\ tick = "hunger" /\ tick' = "panels"
    /\ UNCHANGED <<inv, locked, at, placed, energy, panels, history>>

TickPanels ==
    /\ tick = "panels" /\ tick' = "charge"
    /\ panels' = placed \cap Panels
    /\ UNCHANGED <<inv, locked, at, placed, energy, history>>

\* Mutant: dt is an integer.
EnergyPerPanelInt == 5 * (1 \div TickRate)

\* int(5 * dt * 100) / 100 with dt = 1 / tickRate
EnergyPerPanel == (500 \div TickRate) \div 100

Clamp(n) == IF n > BatteryMax THEN BatteryMax ELSE n

\* Every collected panel adds to the battery nearest to it now.
TickCharge ==
    /\ tick = "charge" /\ tick' = "hunger"
    /\ \E link \in [panels -> Batteries] :
        /\ \A x \in panels : Nearest(x) # {} => link[x] \in Nearest(x)
        /\ LET gain(b) == EnergyPerPanel
                            * Cardinality({x \in panels : Nearest(x) # {} /\ link[x] = b})
           IN  /\ energy' = [b \in Batteries |-> Clamp(energy[b] + gain(b))]
               /\ charged' = charged
                    + SumFunctionOnSet([b \in Batteries |-> energy'[b] - energy[b]], Batteries)
    /\ UNCHANGED <<inv, locked, at, placed, panels, given, supply, crafted>>

-----------------------------------------------------------------------------
CraftStep(p) == CraftDebit(p) \/ CraftNoEnergy(p) \/ CraftFinish(p)

TickLoop ==
    \/ \E p \in Players, i \in Items : TickEat(p, i)
    \/ TickHungerEnd \/ TickPanels \/ TickCharge

Next ==
    \/ \E p \in Players :
        \/ \E i \in Items : AddItem(p, i) \/ \E n \in Amounts : CheatGet(p, i, n)
        \/ CheatClearInv(p)
        \/ \E d \in Devices : PlaceBegin(p, d)
        \/ PlaceEnd(p)
        \/ \E f \in Factories, r \in Recipes : CraftCheck(p, f, r)
        \/ CraftStep(p)
    \/ TickLoop

Spec == Init /\ [][Next]_vars

\* A tick that has begun goes on to the next one, a handler that has begun
\* runs to its end.
FairSpec ==
    /\ Spec
    /\ WF_vars(TickHungerEnd) /\ WF_vars(TickPanels \/ TickCharge)
    /\ \A p \in Players : WF_vars(CraftStep(p) \/ PlaceEnd(p))

-----------------------------------------------------------------------------
(* Properties *)

Places == [stage : {"place"}, on : Devices, recipe : {None}]
Crafts == [stage : {"checked", "paid"}, on : Factories, recipe : Recipes]

\* The state is well formed; no battery is below zero or above MaxEnergy.
TypeOK ==
    /\ inv \in [Players -> [Items -> Nat]]
    /\ locked \subseteq Players
    /\ at \in [Players -> {Idle} \cup Places \cup Crafts]
    /\ placed \subseteq Devices
    /\ energy \in [Batteries -> 0..BatteryMax]
    /\ tick \in {"hunger", "panels", "charge"} /\ panels \subseteq Panels

\* Between the check and the payment the materials stay in the inventory: the
\* tick loop cannot eat them, which the comment of tryCraftFactory is about.
CraftCovered ==
    \A p \in Players : at[p].stage \in {"checked", "paid"} => Enough(p, at[p].recipe)

\* The energy in the hands of a handler that has paid and not yet finished,
\* and the energy in the products of a player.
InHand(p) == IF at[p].stage = "paid" THEN EnergyOf[at[p].recipe] ELSE 0
Spent(p) == SumFunctionOnSet([r \in Recipes |-> crafted[p][r] * EnergyOf[r]], Recipes)

\* No energy is lost or made: what the panels have put in is in the batteries,
\* in finished products or in the hands of a handler that has paid.
EnergyLedger ==
    charged = SumFunctionOnSet(energy, Batteries)
                + SumFunctionOnSet([p \in Players |-> InHand(p) + Spent(p)], Players)

\* The items of kind i that a player's crafts took, and those they made.
Taken(p, i) == SumFunctionOnSet([r \in Recipes |-> crafted[p][r] * Need[r][i]], Recipes)
Made(p, i) ==
    SumFunctionOnSet([r \in Recipes |-> IF Out[r] = i THEN crafted[p][r] ELSE 0], Recipes)

\* Every product of a factory is paid for in full with the player's items.
MaterialsLedger ==
    \A p \in Players, i \in Items :
        inv[p][i] + Taken(p, i) = supply[p][i] + Made(p, i)

\* "Panels charge the nearest batteries": a battery that is the nearest one of
\* a placed panel does not stay empty.
PanelsCharge ==
    \A x \in Panels, b \in Batteries :
        (x \in placed /\ Nearest(x) = {b}) ~> (energy[b] > 0 \/ Nearest(x) # {b})

=============================================================================
