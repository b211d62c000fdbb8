-------------------------------- MODULE Mobs --------------------------------
(***************************************************************************)
(* Mobs, contracts, projectiles and the goods that pass between the ground,*)
(* the players and the mobs.  tickMobs holds s.mobs for its whole pass and *)
(* takes s.resources, s.projectiles and c.mu inside it, one mob at a time; *)
(* tickProjectiles works in four separate critical sections.  The players' *)
(* handlers interleave wherever the lock they need is free.  Distances and *)
(* cooldowns are left open: what is near enough is a free choice.          *)
(***************************************************************************)
EXTENDS Integers, FiniteSets, Functions

CONSTANTS
    Players, Mobs,
    Kind,         \* "hostile", "collector" or "pink"
    StartHP,      \* HP a mob is spawned with
    Ids,          \* identities of resources; the start set lies on the ground
    StartFruit,   \* the resources spawnResources puts there, all fruit here
    Projs,        \* identities of projectiles
    Nobody, None,
    GatherTarget, \* pinkGatherTarget
    GuardPrice,   \* spears a guard costs
    HostileDrop,  \* spears a hostile mob leaves
    Damage,       \* mobAttackDamage
    PlayerHP,
    TTL,          \* projTTL, in ticks
    MaxGiven      \* bound: spears /get puts into the game

Types == {"spear", "fruit"}
Goods == [Types -> Nat]

ASSUME FiniteAssumption ==
    IsFiniteSet(Players) /\ IsFiniteSet(Mobs) /\ IsFiniteSet(Ids) /\ IsFiniteSet(Projs)
ASSUME KindAssumption == Kind \in [Mobs -> {"hostile", "collector", "pink"}]
ASSUME NumberAssumption ==
    /\ StartHP \in [Mobs -> Nat \ {0}] /\ StartFruit \subseteq Ids
    /\ GatherTarget \in Nat \ {0} /\ GuardPrice \in Nat \ {0} /\ HostileDrop \in Nat
    /\ Damage \in Nat \ {0} /\ PlayerHP \in Nat /\ TTL \in Nat /\ MaxGiven \in Nat
ASSUME FreshAssumption == Nobody \notin Players /\ None \notin Types \cup Players \cup Mobs

VARIABLES
    online, gone,
    inv, php,          \* players' inventories and HP
    todo,              \* what a handler still has to do: [op, arg]
    ground, used,      \* s.resources, by identity; identities ever used
    alive, hp, angered, bag, contract, owner,
    target, age,       \* s.projectiles: TargetID (None: no such projectile), age
    tick,              \* the step tickLoop takes next
    left, cur, aim,    \* tickMobs: mobs to visit, the one that picks, what it picks
    crowd,             \* the players of snapshotMobPlayers
    seen, hits, kills, \* tickProjectiles: mob snapshot, deferred hits, killed mobs
    given, spent       \* history: spears from /get; goods that were used up

players == <<online, gone, inv, php, todo>>
res == <<ground, used>>
herd == <<alive, hp, angered, bag, contract, owner>>
projectiles == <<target, age>>
ticks == <<tick, left, cur, aim, crowd, seen, hits, kills>>
vars == <<online, gone, inv, php, todo, ground, used, alive, hp, angered, bag, contract,
          owner, target, age, tick, left, cur, aim, crowd, seen, hits, kills, given, spent>>

Zero == [t \in Types |-> 0]
Idle == [op |-> "idle", arg |-> None]
Count(goods) == goods["spear"] + goods["fruit"]

Init ==
    /\ online = {} /\ gone = {}
    /\ inv = [p \in Players |-> Zero] /\ php = [p \in Players |-> PlayerHP]
    /\ todo = [p \in Players |-> Idle]
    /\ ground = [g \in Ids |-> IF g \in StartFruit THEN "fruit" ELSE None]
    /\ used = StartFruit
    /\ alive = Mobs /\ hp = StartHP /\ angered = {}
    /\ bag = [m \in Mobs |-> Zero]
    /\ contract = [m \in Mobs |-> "none"] /\ owner = [m \in Mobs |-> Nobody]
    /\ target = [x \in Projs |-> None] /\ age = [x \in Projs |-> 0]
    /\ tick = "mobs" /\ left = {} /\ cur = None /\ aim = None
    /\ crowd = {} /\ seen = {} /\ hits = {} /\ kills = {} /\ given = 0 /\ spent = Zero

-----------------------------------------------------------------------------
(* Sessions and inventories *)

CanAct(p) == p \in online /\ todo[p] = Idle

Join(p) ==
    /\ p \notin online \cup gone
    /\ online' = online \cup {p}
    /\ UNCHANGED <<gone, inv, php, todo, res, herd, projectiles, ticks, given, spent>>

Leave(p) ==
    /\ CanAct(p)
    /\ online' = online \ {p} /\ gone' = gone \cup {p}
    /\ UNCHANGED <<inv, php, todo, res, herd, projectiles, ticks, given, spent>>

CheatGet(p) ==
    /\ CanAct(p) /\ given < MaxGiven
    /\ given' = given + 1
    /\ inv' = [inv EXCEPT ![p]["spear"] = @ + 1]
    /\ UNCHANGED <<online, gone, php, todo, res, herd, projectiles, ticks, spent>>

\* handlePickup: the resource leaves the map under s.resources, and reaches
\* the inventory under c.mu later.
Pickup(p, g) ==
    /\ CanAct(p) /\ ground[g] # None
    /\ ground' = [ground EXCEPT ![g] = None]
    /\ todo' = [todo EXCEPT ![p] = [op |-> "add", arg |-> ground[g]]]
    /\ UNCHANGED <<online, gone, inv, php, used, herd, projectiles, ticks, given, spent>>

AddItem(p) ==
    /\ todo[p].op = "add"
    /\ inv' = [inv EXCEPT ![p][todo[p].arg] = @ + 1]
    /\ todo' = [todo EXCEPT ![p] = Idle]
    /\ UNCHANGED <<online, gone, php, res, herd, projectiles, ticks, given, spent>>

\* tickHunger and handleEatFruitMsg.
Eat(p) ==
    /\ p \in online /\ inv[p]["fruit"] > 0
    /\ inv' = [inv EXCEPT ![p]["fruit"] = @ - 1]
    /\ spent' = [spent EXCEPT !["fruit"] = @ + 1]
    /\ UNCHANGED <<online, gone, php, todo, res, herd, projectiles, ticks, given>>

-----------------------------------------------------------------------------
(* Handlers under s.mobs; tickMobs holds it from its first to its last mob. *)

MobsFree == tick # "visit"

Threat(m) == Kind[m] = "hostile" \/ m \in angered

\* applyHitMob: the spear, the hit, the anger and the removal in one section.
HitMob(p, m) ==
    /\ CanAct(p) /\ MobsFree /\ m \in alive /\ inv[p]["spear"] > 0
    /\ inv' = [inv EXCEPT ![p]["spear"] = @ - 1]
    /\ hp' = [hp EXCEPT ![m] = @ - 1]
    /\ angered' = IF Kind[m] = "collector" THEN angered \cup {m} ELSE angered
    /\ alive' = IF hp[m] - 1 <= 0 THEN alive \ {m} ELSE alive
    /\ todo' = [todo EXCEPT ![p] = IF hp[m] - 1 <= 0 THEN [op |-> "drop", arg |-> m] ELSE Idle]
    /\ spent' = [spent EXCEPT !["spear"] = @ + 1]
    /\ UNCHANGED <<online, gone, php, res, bag, contract, owner, projectiles, ticks, given>>

\* What spawnDrops leaves for a mob: a pink leaves nothing, what it has gathered
\* stays in the bag of a dead mob.
DropOf(m) ==
    CASE Kind[m] = "hostile" -> [Zero EXCEPT !["spear"] = HostileDrop]
      [] Kind[m] = "collector" -> bag[m]
      [] OTHER -> Zero

\* Fresh resources for the drops of a set of mobs.
SpawnDrops(dead) ==
    \E spears \in SUBSET (Ids \ used) : \E fruits \in SUBSET (Ids \ (used \cup spears)) :
        /\ Cardinality(spears) = SumFunctionOnSet([m \in dead |-> DropOf(m)["spear"]], dead)
        /\ Cardinality(fruits) = SumFunctionOnSet([m \in dead |-> DropOf(m)["fruit"]], dead)
        /\ used' = used \cup spears \cup fruits
        /\ ground' = [g \in Ids |-> IF g \in spears THEN "spear"
                                    ELSE IF g \in fruits THEN "fruit" ELSE ground[g]]
        /\ bag' = [m \in Mobs |-> IF m \in dead /\ Kind[m] = "collector" THEN Zero ELSE bag[m]]

HitDrop(p) ==
    /\ todo[p].op = "drop"
    /\ SpawnDrops({todo[p].arg})
    /\ todo' = [todo EXCEPT ![p] = Idle]
    /\ UNCHANGED <<online, gone, inv, php, alive, hp, angered, contract, owner,
                   projectiles, ticks, given, spent>>

Price(c) == IF c = "gather4" THEN [Zero EXCEPT !["fruit"] = 1]
                             ELSE [Zero EXCEPT !["spear"] = GuardPrice]

\* Mutant: a busy mob takes a second contract.
AcceptContractBusy(p, m, c) ==
    /\ CanAct(p) /\ MobsFree /\ m \in alive /\ Kind[m] = "pink"
    /\ \A t \in Types : inv[p][t] >= Price(c)[t]
    /\ inv' = [inv EXCEPT ![p] = [t \in Types |-> inv[p][t] - Price(c)[t]]]
    /\ contract' = [contract EXCEPT ![m] = c]
    /\ owner' = [owner EXCEPT ![m] = p]
    /\ bag' = IF c = "gather4" THEN [bag EXCEPT ![m] = Zero] ELSE bag
    /\ spent' = [t \in Types |-> spent[t] + Price(c)[t]]
    /\ UNCHANGED <<online, gone, php, todo, res, alive, hp, angered, projectiles, ticks, given>>

\* tryAcceptContract, with payContractPrice and applyContract.
AcceptContract(p, m, c) ==
    /\ CanAct(p) /\ MobsFree /\ m \in alive /\ Kind[m] = "pink" /\ contract[m] = "none"
    /\ \A t \in Types : inv[p][t] >= Price(c)[t]
    /\ inv' = [inv EXCEPT ![p] = [t \in Types |-> inv[p][t] - Price(c)[t]]]
    /\ contract' = [contract EXCEPT ![m] = c]
    /\ owner' = [owner EXCEPT ![m] = p]
    /\ bag' = IF c = "gather4" THEN [bag EXCEPT ![m] = Zero] ELSE bag
    /\ spent' = [t \in Types |-> spent[t] + Price(c)[t]]
    /\ UNCHANGED <<online, gone, php, todo, res, alive, hp, angered, projectiles, ticks, given>>

-----------------------------------------------------------------------------
(* tickMobs: the mobs in any order, each in one or two steps *)

TickMobs ==
    /\ tick = "mobs" /\ tick' = "visit" /\ left' = alive /\ crowd' = online
    /\ UNCHANGED <<players, res, herd, projectiles, cur, aim, seen, hits, kills, given, spent>>

TickMobsEnd ==
    /\ tick = "visit" /\ left = {} /\ cur = None /\ tick' = "snapshot" /\ crowd' = {}
    /\ UNCHANGED <<players, res, herd, projectiles, left, cur, aim, seen, hits, kills, given, spent>>

Visit(m) == tick = "visit" /\ cur = None /\ m \in left /\ left' = left \ {m}

Gathers(m) == Kind[m] = "pink" /\ contract[m] = "gather4"
Full(m) == Count(bag[m]) >= GatherTarget

Launch(v) ==
    \E x \in Projs : /\ target[x] = None
                     /\ target' = [target EXCEPT ![x] = v]
                     /\ age' = [age EXCEPT ![x] = 0]

\* pinkAutoShoot: before anything else a pink may shoot at a threat.
AutoShoot(m) ==
    \/ UNCHANGED projectiles
    \/ Kind[m] = "pink" /\ \E v \in {n \in alive : Threat(n)} : Launch(v)

\* tickPinkFlee: a pink without a contract runs from the threat or wanders.
VisitFlee(m) ==
    /\ Visit(m) /\ Kind[m] = "pink" /\ contract[m] = "none"
    /\ AutoShoot(m)
    /\ UNCHANGED <<players, res, herd, tick, cur, aim, crowd, seen, hits, kills, given, spent>>

\* A mob that finds nothing to do, follows or moves.
VisitMove(m) ==
    /\ Visit(m) /\ (Kind[m] = "pink" => contract[m] # "none")
    /\ ~(contract[m] = "guard" /\ owner[m] \notin online)
    /\ AutoShoot(m)
    /\ UNCHANGED <<players, res, herd, tick, cur, aim, crowd, seen, hits, kills, given, spent>>

\* tickHostileMob: mobThrowSpear at a player in range.
VisitThrow(m, p) ==
    /\ Visit(m) /\ Threat(m) /\ p \in crowd /\ Launch(p)
    /\ UNCHANGED <<players, res, herd, tick, cur, aim, crowd, seen, hits, kills, given, spent>>

\* tickCollector and pinkGatherPick: the nearest resource, found under RLock.
VisitAim(m, g) ==
    /\ Visit(m) /\ ground[g] # None
    /\ \/ Kind[m] = "collector" /\ m \notin angered
       \/ Gathers(m) /\ ~Full(m)
    /\ cur' = m /\ aim' = g
    /\ AutoShoot(m)
    /\ UNCHANGED <<players, res, herd, tick, crowd, seen, hits, kills, given, spent>>

\* Mutant: the resource is not looked up again.
VisitPickStale(m) ==
    /\ cur = m /\ cur' = None /\ aim' = None
    /\ ground' = [ground EXCEPT ![aim] = None]
    /\ bag' = [bag EXCEPT ![m]["fruit"] = @ + 1]
    /\ UNCHANGED <<players, used, alive, hp, angered, contract, owner, projectiles,
                   tick, left, crowd, seen, hits, kills, given, spent>>

\* The resource is taken under Lock if it is still there.
VisitPick(m) ==
    /\ cur = m /\ cur' = None /\ aim' = None
    /\ IF ground[aim] = None THEN UNCHANGED <<ground, bag>>
       ELSE /\ ground' = [ground EXCEPT ![aim] = None]
            /\ bag' = [bag EXCEPT ![m][ground[aim]] = @ + 1]
    /\ UNCHANGED <<players, used, alive, hp, angered, contract, owner, projectiles,
                   tick, left, crowd, seen, hits, kills, given, spent>>

\* pinkDeliver, when the owner is near.
VisitDeliver(m) ==
    /\ Visit(m) /\ Gathers(m) /\ Full(m) /\ owner[m] \in online
    /\ inv' = [inv EXCEPT ![owner[m]] = [t \in Types |-> @[t] + bag[m][t]]]
    /\ bag' = [bag EXCEPT ![m] = Zero]
    /\ contract' = [contract EXCEPT ![m] = "none"] /\ owner' = [owner EXCEPT ![m] = Nobody]
    /\ AutoShoot(m)
    /\ UNCHANGED <<online, gone, php, todo, res, alive, hp, angered,
                   tick, cur, aim, crowd, seen, hits, kills, given, spent>>

\* Mutant: a guard waits for its owner.
VisitReleaseNot(m) ==
    /\ Visit(m) /\ contract[m] = "guard" /\ owner[m] \notin online
    /\ AutoShoot(m)
    /\ UNCHANGED <<players, res, herd, tick, cur, aim, crowd, seen, hits, kills, given, spent>>

\* tickPinkGuard when the owner is gone.
VisitRelease(m) ==
    /\ Visit(m) /\ contract[m] = "guard" /\ owner[m] \notin online
    /\ contract' = [contract EXCEPT ![m] = "none"] /\ owner' = [owner EXCEPT ![m] = Nobody]
    /\ AutoShoot(m)
    /\ UNCHANGED <<players, res, alive, hp, angered, bag,
                   tick, cur, aim, crowd, seen, hits, kills, given, spent>>

-----------------------------------------------------------------------------
(* tickProjectiles *)

SnapshotMobPositions ==
    /\ tick = "snapshot" /\ tick' = "advance"
    /\ seen' = alive
    /\ UNCHANGED <<players, res, herd, projectiles, left, cur, aim, crowd, hits, kills, given, spent>>

Flying == {x \in Projs : target[x] # None}

\* Mutant: a projectile whose target has gone never expires.
ExpiredTargeted == {x \in Flying : age[x] > TTL /\ target[x] \in online \cup seen}

Expired == {x \in Flying : age[x] > TTL}

Floor(n) == IF n < 0 THEN 0 ELSE n

\* Ages beyond the TTL are all the same.
Older(n) == IF n > TTL THEN n ELSE n + 1

\* advanceProjectiles: some projectiles strike the player or the mob they aim
\* at; an expired one is removed and strikes nothing.
AdvanceProjectiles ==
    /\ tick = "advance" /\ tick' = "apply"
    /\ \E striking \in SUBSET {x \in Flying \ Expired : target[x] \in online \cup seen} :
        /\ hits' = {<<x, target[x]>> : x \in {y \in striking : target[y] \in Mobs}}
        /\ php' = [p \in Players |->
             Floor(php[p] - Damage * Cardinality({x \in striking : target[x] = p}))]
        /\ target' = [x \in Projs |-> IF x \in striking \cup Expired THEN None ELSE target[x]]
        /\ age' = [x \in Projs |-> IF x \in striking \cup Expired \/ target[x] = None
                                     THEN 0 ELSE Older(age[x])]
    /\ UNCHANGED <<online, gone, inv, todo, res, herd, left, cur, aim, crowd, seen, kills, given, spent>>

\* Mutant: a mob that somebody else has killed is killed again.
VictimsAgain == {h[2] : h \in hits}

\* The hits find only mobs that are still there.
Victims == {h[2] : h \in hits} \cap alive

\* applyMobHits
ApplyMobHits ==
    /\ tick = "apply" /\ tick' = "drops" /\ hits' = {}
    /\ LET hurt == [m \in Mobs |-> hp[m] - Damage * Cardinality({h \in hits : h[2] = m})]
       IN  /\ hp' = [m \in Mobs |-> IF m \in Victims THEN hurt[m] ELSE hp[m]]
           /\ kills' = {m \in Victims : hurt[m] <= 0}
           /\ alive' = alive \ {m \in Victims : hurt[m] <= 0}
    /\ UNCHANGED <<players, res, angered, bag, contract, owner, projectiles,
                   left, cur, aim, crowd, seen, given, spent>>

TickDrops ==
    /\ tick = "drops" /\ tick' = "mobs" /\ kills' = {} /\ seen' = {}
    /\ SpawnDrops(kills)
    /\ UNCHANGED <<players, alive, hp, angered, contract, owner, projectiles,
                   left, cur, aim, crowd, hits, given, spent>>

-----------------------------------------------------------------------------
Handler(p) ==
    \/ Join(p) \/ Leave(p) \/ CheatGet(p) \/ AddItem(p) \/ Eat(p) \/ HitDrop(p)
    \/ \E g \in Ids : Pickup(p, g)
    \/ \E m \in Mobs : HitMob(p, m) \/ \E c \in {"gather4", "guard"} : AcceptContract(p, m, c)

TickMob(m) ==
    \/ VisitFlee(m) \/ VisitMove(m) \/ VisitPick(m) \/ VisitDeliver(m) \/ VisitRelease(m)
    \/ \E p \in Players : VisitThrow(m, p)
    \/ \E g \in Ids : VisitAim(m, g)

TickLoop ==
    \/ TickMobs \/ TickMobsEnd
    \/ \E m \in Mobs : TickMob(m)
    \/ SnapshotMobPositions \/ AdvanceProjectiles \/ ApplyMobHits \/ TickDrops

Next == TickLoop \/ \E p \in Players : Handler(p)

Spec == Init /\ [][Next]_vars

\* The tick loop goes on.
FairSpec == Spec /\ WF_vars(TickLoop)

-----------------------------------------------------------------------------
(* Properties *)

\* The domains of the variables; damage never takes a player below 0 HP.
TypeOK ==
    /\ online \subseteq Players /\ gone \subseteq Players
    /\ inv \in [Players -> Goods] /\ php \in [Players -> 0..PlayerHP]
    /\ todo \in [Players -> {Idle} \cup [op : {"add"}, arg : Types] \cup [op : {"drop"}, arg : Mobs]]
    /\ ground \in [Ids -> Types \cup {None}] /\ used \subseteq Ids
    /\ alive \subseteq Mobs /\ angered \subseteq Mobs
    /\ hp \in [Mobs -> Int] /\ bag \in [Mobs -> Goods]
    /\ contract \in [Mobs -> {"none", "gather4", "guard"}] /\ owner \in [Mobs -> Players \cup {Nobody}]
    /\ target \in [Projs -> Players \cup Mobs \cup {None}] /\ age \in [Projs -> 0..TTL + 1]
    /\ tick \in {"mobs", "visit", "snapshot", "advance", "apply", "drops"}
    /\ left \subseteq Mobs /\ crowd \subseteq Players /\ cur \in Mobs \cup {None} /\ aim \in Ids \cup {None}
    /\ seen \subseteq Mobs /\ hits \subseteq Projs \X Mobs /\ kills \subseteq Mobs

Total(t) ==
    Cardinality({g \in Ids : ground[g] = t})
    + SumFunctionOnSet([p \in Players |-> inv[p][t]], Players)
    + SumFunctionOnSet([m \in Mobs |-> bag[m][t]], Mobs)
    + Cardinality({p \in Players : todo[p] = [op |-> "add", arg |-> t]})

\* Goods are neither duplicated nor lost, although players, collectors and
\* pinks reach for the same resource and hits on one mob come from two loops:
\* what is there and what was used up is what was spawned, asked for or left by
\* hostile mobs, each of which leaves its spears once.  Only what a pink had
\* gathered when it was killed is out of everybody's reach.
GoodsConserved ==
    /\ Total("fruit") + spent["fruit"] = Cardinality(StartFruit)
    /\ Total("spear") + spent["spear"] = given
         + HostileDrop * Cardinality({m \in Mobs \ alive :
                           /\ Kind[m] = "hostile" /\ m \notin kills
                           /\ \A p \in Players : todo[p] # [op |-> "drop", arg |-> m]})

\* A contract is taken from a player who keeps it until the pink has delivered,
\* until the player has left (guard) or until the pink is dead.
ContractKept ==
    [][\A m \in Mobs : contract[m] # "none" /\ contract'[m] # contract[m] =>
          \/ contract[m] = "guard" /\ owner[m] \in gone
          \/ contract[m] = "gather4" /\ Count(inv'[owner[m]]) >= Count(inv[owner[m]]) + GatherTarget]_vars

\* A guard whose owner has left becomes free again.
GuardReleased ==
    \A m \in Mobs, p \in Players :
        contract[m] = "guard" /\ owner[m] = p /\ p \in gone ~> owner[m] # p \/ m \notin alive

\* "If the target is gone, the projectile flies on until its TTL": no
\* projectile flies for ever.
ProjectilesEnd ==
    \A x \in Projs : target[x] # None ~> target[x] = None

=============================================================================
