------------------------------- MODULE Mounts -------------------------------
(***************************************************************************)
(* Mammoths and boats: taming, feeding, leashing, saddling, riding,        *)
(* killing and breeding by the players' handlers, against the tick loop    *)
(* that works on a snapshot of the players taken before it locks the       *)
(* mammoths.  A player is one connection and runs one handler at a time;   *)
(* a handler that releases s.mammoths and goes on is two steps.  Distances *)
(* and times are left open: a handler may always find its target too far.  *)
(***************************************************************************)
EXTENDS Integers, FiniteSets, Functions

CONSTANTS
    Riders,      \* the players: connections; each joins at most once
    Mammoths,    \* identities of mammoths, the unborn ones included
    Males,       \* the ones whose Sex is "m"
    Wild,        \* the ones spawnMammoths puts into the world
    Boats,
    Nobody,      \* the empty RiderID and LeashedTo
    MinFed,      \* breedingMinFed
    MaxFruit,    \* bound: fruit in one inventory
    MaxFed,      \* bound: fruit fed to mammoths in a whole behaviour
    Saddles      \* saddles each player has crafted when he begins to use them

ASSUME NobodyFresh == Nobody \notin Riders
ASSUME FiniteWorld == IsFiniteSet(Riders) /\ IsFiniteSet(Mammoths)
ASSUME WildBorn == Wild \subseteq Mammoths /\ Males \subseteq Mammoths
ASSUME MountsBounds ==
    MinFed \in Nat /\ MaxFruit \in Nat /\ MaxFed \in Nat /\ Saddles \in Nat

VARIABLES
    online, gone,       \* players in s.clients; players who left
    born, alive,        \* identities ever used; mammoths in the store
    tamed, baby, saddled,
    rider, leash, fed,  \* RiderID, LeashedTo, FedCount
    afloat, boatRider,  \* boats in the store and their RiderID
    fruit, saddles,     \* what the inventories hold of the two items
    task,               \* what the handler of a player still has to do
    seen,               \* the players collectNearPlayers found
    phase,              \* the phase the tick loop runs next
    fedTotal, births    \* history: fruit fed and mammoths born

players == <<online, gone, fruit, saddles, task>>
herdVars == <<born, alive, tamed, baby, saddled, rider, leash, fed>>
boats == <<afloat, boatRider>>
ticks == <<seen, phase>>
counts == <<fedTotal, births>>
mountVars == <<online, gone, fruit, saddles, task, born, alive, tamed, baby, saddled,
               rider, leash, fed, afloat, boatRider, seen, phase, fedTotal, births>>

NoTask == <<"idle", Nobody>>

MountsInit ==
    /\ online = {} /\ gone = {}
    /\ born = Wild /\ alive = Wild
    /\ tamed = {} /\ baby = {} /\ saddled = {}
    /\ rider = [m \in Mammoths |-> Nobody]
    /\ leash = [m \in Mammoths |-> Nobody]
    /\ fed = [m \in Mammoths |-> 0]
    /\ afloat = {}
    /\ boatRider = [b \in Boats |-> Nobody]
    /\ fruit = [p \in Riders |-> 0]
    /\ saddles = [p \in Riders |-> 0]
    /\ task = [p \in Riders |-> NoTask]
    /\ seen = {} /\ phase = "hunger"
    /\ fedTotal = 0 /\ births = 0

-----------------------------------------------------------------------------
(* Players come and go; what they carry arrives from other handlers. *)

Join(p) ==
    /\ p \notin online \cup gone
    /\ online' = online \cup {p}
    /\ saddles' = [saddles EXCEPT ![p] = Saddles]
    /\ UNCHANGED <<gone, fruit, task, herdVars, boats, ticks, counts>>

\* unregisterClient runs when the last handler is over.  It does not touch
\* mammoths or boats: the tick loop does.
Leave(p) ==
    /\ p \in online /\ task[p] = NoTask
    /\ online' = online \ {p}
    /\ gone' = gone \cup {p}
    /\ UNCHANGED <<fruit, saddles, task, herdVars, boats, ticks, counts>>

GetFruit(p) ==
    /\ p \in online /\ fruit[p] < MaxFruit
    /\ fruit' = [fruit EXCEPT ![p] = @ + 1]
    /\ UNCHANGED <<online, gone, saddles, task, herdVars, boats, ticks, counts>>

-----------------------------------------------------------------------------
(* handleTameMammoth *)

CanBegin(p) == p \in online /\ task[p] = NoTask

\* The mammoth is marked tamed before the fruit is paid, and s.mammoths is
\* released in between.
TameWild(p, m) ==
    /\ CanBegin(p) /\ m \in alive \ tamed
    /\ tamed' = tamed \cup {m}
    /\ task' = [task EXCEPT ![p] = <<"tame", m>>]
    /\ UNCHANGED <<online, gone, fruit, saddles, born, alive, baby, saddled,
                   rider, leash, fed, boats, ticks, counts>>

TamePaid(p) ==
    /\ task[p][1] = "tame" /\ fruit[p] > 0
    /\ fruit' = [fruit EXCEPT ![p] = @ - 1]
    /\ task' = [task EXCEPT ![p] = NoTask]
    /\ UNCHANGED <<online, gone, saddles, herdVars, boats, ticks, counts>>

\* The rollback writes through the pointer it kept, whatever happened since.
TameRollback(p) ==
    /\ task[p][1] = "tame" /\ fruit[p] = 0
    /\ tamed' = tamed \ {task[p][2]}
    /\ task' = [task EXCEPT ![p] = NoTask]
    /\ UNCHANGED <<online, gone, fruit, saddles, born, alive, baby, saddled,
                   rider, leash, fed, boats, ticks, counts>>

Feed(p, m) ==
    /\ CanBegin(p) /\ m \in alive \cap tamed /\ fruit[p] > 0
    /\ fedTotal < MaxFed
    /\ fruit' = [fruit EXCEPT ![p] = @ - 1]
    /\ fed' = [fed EXCEPT ![m] = @ + 1]
    /\ fedTotal' = fedTotal + 1
    /\ UNCHANGED <<online, gone, saddles, task, born, alive, tamed, baby, saddled,
                   rider, leash, boats, ticks, births>>

-----------------------------------------------------------------------------
(* handleLeashMammoth, handleSaddleMammoth, handleRideMammoth, handleHitMammoth *)

Leash(p, m) ==
    /\ CanBegin(p) /\ m \in alive \cap tamed
    /\ leash' = [leash EXCEPT ![m] = IF @ = p THEN Nobody ELSE p]
    /\ UNCHANGED <<players, born, alive, tamed, baby, saddled, rider, fed,
                   boats, ticks, counts>>

Saddle(p, m) ==
    /\ CanBegin(p) /\ m \in (alive \cap tamed) \ (baby \cup saddled)
    /\ saddles[p] > 0
    /\ saddles' = [saddles EXCEPT ![p] = @ - 1]
    /\ saddled' = saddled \cup {m}
    /\ UNCHANGED <<online, gone, fruit, task, born, alive, tamed, baby,
                   rider, leash, fed, boats, ticks, counts>>

\* Mutant: the saddle stays on the mammoth.
UnsaddleCopy(p, m) ==
    /\ CanBegin(p) /\ m \in ((alive \cap tamed) \ baby) \cap saddled
    /\ rider[m] = Nobody
    /\ task' = [task EXCEPT ![p] = <<"saddle", m>>]
    /\ UNCHANGED <<online, gone, fruit, saddles, herdVars, boats, ticks, counts>>

\* Taking the saddle off; addItem follows after s.mammoths is released.
Unsaddle(p, m) ==
    /\ CanBegin(p) /\ m \in ((alive \cap tamed) \ baby) \cap saddled
    /\ rider[m] = Nobody
    /\ saddled' = saddled \ {m}
    /\ task' = [task EXCEPT ![p] = <<"saddle", m>>]
    /\ UNCHANGED <<online, gone, fruit, saddles, born, alive, tamed, baby,
                   rider, leash, fed, boats, ticks, counts>>

UnsaddleTake(p) ==
    /\ task[p][1] = "saddle"
    /\ saddles' = [saddles EXCEPT ![p] = @ + 1]
    /\ task' = [task EXCEPT ![p] = NoTask]
    /\ UNCHANGED <<online, gone, fruit, herdVars, boats, ticks, counts>>

Ridden(p) == {m \in alive : rider[m] = p}

\* A player on a mammoth gets off, whatever mammoth the message names.
Dismount(p) ==
    /\ CanBegin(p)
    /\ \E m \in Ridden(p) : rider' = [rider EXCEPT ![m] = Nobody]
    /\ UNCHANGED <<players, born, alive, tamed, baby, saddled, leash, fed,
                   boats, ticks, counts>>

\* Mutant: the scan for the current mount is missing.
RideSecond(p, m) ==
    /\ CanBegin(p)
    /\ m \in alive \cap tamed \cap saddled /\ rider[m] = Nobody
    /\ rider' = [rider EXCEPT ![m] = p]
    /\ UNCHANGED <<players, born, alive, tamed, baby, saddled, leash, fed,
                   boats, ticks, counts>>

Ride(p, m) ==
    /\ CanBegin(p) /\ Ridden(p) = {}
    /\ m \in alive \cap tamed \cap saddled /\ rider[m] = Nobody
    /\ rider' = [rider EXCEPT ![m] = p]
    /\ UNCHANGED <<players, born, alive, tamed, baby, saddled, leash, fed,
                   boats, ticks, counts>>

\* HP is 1: a hit that is accepted removes the mammoth and all it carries.
Kill(p, m) ==
    /\ CanBegin(p) /\ m \in alive
    /\ alive' = alive \ {m} /\ tamed' = tamed \ {m}
    /\ baby' = baby \ {m} /\ saddled' = saddled \ {m}
    /\ rider' = [rider EXCEPT ![m] = Nobody]
    /\ leash' = [leash EXCEPT ![m] = Nobody]
    /\ fed' = [fed EXCEPT ![m] = 0]
    /\ UNCHANGED <<players, born, boats, ticks, counts>>

-----------------------------------------------------------------------------
(* handlePlaceBoat, handleEnterBoat *)

PlaceBoat(p, b) ==
    /\ CanBegin(p) /\ b \notin afloat
    /\ afloat' = afloat \cup {b}
    /\ UNCHANGED <<players, herdVars, boatRider, ticks, counts>>

\* First the player leaves every boat and mammoth he is on, also when the boat
\* he asks for is then refused (unknown, too far, occupied).
GetOff(p) ==
    /\ CanBegin(p)
    /\ rider' = [m \in Mammoths |-> IF rider[m] = p THEN Nobody ELSE rider[m]]
    /\ boatRider' = [b \in Boats |-> IF boatRider[b] = p THEN Nobody ELSE boatRider[b]]
    /\ UNCHANGED <<players, born, alive, tamed, baby, saddled, leash, fed,
                   afloat, ticks, counts>>

EnterBoat(p, b) ==
    /\ CanBegin(p) /\ b \in afloat /\ boatRider[b] \in {Nobody, p}
    /\ rider' = [m \in Mammoths |-> IF rider[m] = p THEN Nobody ELSE rider[m]]
    /\ boatRider' = [x \in Boats |->
                       IF x = b THEN p ELSE IF boatRider[x] = p THEN Nobody ELSE boatRider[x]]
    /\ UNCHANGED <<players, born, alive, tamed, baby, saddled, leash, fed,
                   afloat, ticks, counts>>

-----------------------------------------------------------------------------
(* The phases of tickLoop that touch this state, in their order. *)

\* tickHunger: hungry players eat fruit from their inventories.
TickHunger ==
    /\ phase = "hunger" /\ phase' = "collect"
    /\ \E eaten \in [Riders -> 0..MaxFruit] :
        /\ \A p \in Riders : eaten[p] <= fruit[p] /\ (p \notin online => eaten[p] = 0)
        /\ fruit' = [p \in Riders |-> fruit[p] - eaten[p]]
    /\ UNCHANGED <<online, gone, saddles, task, herdVars, boats, seen, counts>>

TickCollect ==
    /\ phase = "collect" /\ phase' = "mammoths"
    /\ seen' = online
    /\ UNCHANGED <<players, herdVars, boats, counts>>

\* Mutant: a rider who is not in the snapshot stays on.
RiderKept(m) == rider[m]

\* tickRiddenMammoth
RiderAfter(m) == IF rider[m] \in seen THEN rider[m] ELSE Nobody

\* tickLeashedMammoth: only a mammoth that is not ridden loses the leash of an
\* owner who is not there.  Following the owner and fleeing move it, no more.
LeashAfter(m) == IF rider[m] = Nobody /\ leash[m] \notin seen THEN Nobody ELSE leash[m]

TickMammoths ==
    /\ phase = "mammoths" /\ phase' = "boats"
    /\ rider' = [m \in Mammoths |-> RiderAfter(m)]
    /\ leash' = [m \in Mammoths |-> LeashAfter(m)]
    /\ UNCHANGED <<players, born, alive, tamed, baby, saddled, fed, boats, seen, counts>>

TickBoats ==
    /\ phase = "boats" /\ phase' = "breeding"
    /\ boatRider' = [b \in Boats |-> IF boatRider[b] \in online THEN boatRider[b] ELSE Nobody]
    /\ UNCHANGED <<players, herdVars, afloat, seen, counts>>

\* collectBreedingCandidates, after some babies have grown up.
Candidates(young) ==
    {m \in (alive \cap tamed) \ young : fed[m] >= MinFed}

Quiet(young) ==
    /\ baby' = young
    /\ UNCHANGED <<players, born, alive, tamed, saddled, rider, leash, fed,
                   boats, seen, counts>>

\* Mutant: birthMammoth resets only the male.
BirthHalf(young) ==
    \E male \in Candidates(young) \cap Males, female \in Candidates(young) \ Males,
       newborn \in Mammoths \ born :
        /\ born' = born \cup {newborn} /\ alive' = alive \cup {newborn}
        /\ tamed' = tamed \cup {newborn} /\ baby' = young \cup {newborn}
        /\ fed' = [fed EXCEPT ![male] = 0]
        /\ births' = births + 1
        /\ UNCHANGED <<players, saddled, rider, leash, boats, seen, fedTotal>>

\* birthMammoth: one pair that is close enough, at most one birth per tick.
Birth(young) ==
    \E male \in Candidates(young) \cap Males, female \in Candidates(young) \ Males,
       newborn \in Mammoths \ born :
        /\ born' = born \cup {newborn} /\ alive' = alive \cup {newborn}
        /\ tamed' = tamed \cup {newborn} /\ baby' = young \cup {newborn}
        /\ fed' = [fed EXCEPT ![male] = 0, ![female] = 0]
        /\ births' = births + 1
        /\ UNCHANGED <<players, saddled, rider, leash, boats, seen, fedTotal>>

TickBreeding ==
    /\ phase = "breeding" /\ phase' = "hunger"
    /\ \E young \in SUBSET baby : Quiet(young) \/ Birth(young)

-----------------------------------------------------------------------------
MountsHandler(p) ==
    \/ TamePaid(p) \/ TameRollback(p) \/ UnsaddleTake(p)
    \/ Dismount(p) \/ GetOff(p)
    \/ \E m \in Mammoths : \/ TameWild(p, m) \/ Feed(p, m) \/ Leash(p, m)
                           \/ Saddle(p, m) \/ Unsaddle(p, m) \/ Ride(p, m) \/ Kill(p, m)
    \/ \E b \in Boats : PlaceBoat(p, b) \/ EnterBoat(p, b)

TickMounts == TickHunger \/ TickCollect \/ TickMammoths \/ TickBoats \/ TickBreeding

MountsNext ==
    \/ \E p \in Riders : Join(p) \/ Leave(p) \/ GetFruit(p) \/ MountsHandler(p)
    \/ TickMounts

MountsSpec == MountsInit /\ [][MountsNext]_mountVars

\* The tick loop runs; handlers come when clients send.
MountsFairSpec == MountsSpec /\ WF_mountVars(TickMounts)

-----------------------------------------------------------------------------
(* Properties *)

\* The state is well formed: only mammoths of the store are tamed, saddled or
\* young, and consumeItem never takes fruit or saddles nobody has.
MountsTypeOK ==
    /\ online \subseteq Riders /\ gone \subseteq Riders
    /\ born \subseteq Mammoths /\ alive \subseteq born
    /\ tamed \subseteq alive /\ baby \subseteq alive /\ saddled \subseteq alive
    /\ rider \in [Mammoths -> Riders \cup {Nobody}]
    /\ leash \in [Mammoths -> Riders \cup {Nobody}]
    /\ fed \in [Mammoths -> Nat]
    /\ afloat \subseteq Boats
    /\ boatRider \in [Boats -> Riders \cup {Nobody}]
    /\ fruit \in [Riders -> 0..MaxFruit]
    /\ saddles \in [Riders -> Nat]
    /\ task \in [Riders -> {NoTask} \cup ({"tame", "saddle"} \X Mammoths)]
    /\ seen \subseteq Riders
    /\ phase \in {"hunger", "collect", "mammoths", "boats", "breeding"}
    /\ fedTotal \in 0..MaxFed /\ births \in Nat

\* Nobody sits on two mammoths or in two boats, although handlers of several
\* players and the tick loop move riders at the same time; and a mammoth somebody
\* sits on is grown up and saddled: nobody takes the saddle from under a rider,
\* and the rollback of a taming does not unseat him.
OneMount ==
    \A p \in Riders :
        /\ \A m, n \in Mammoths : rider[m] = p /\ rider[n] = p => m = n
        /\ \A b, d \in Boats : boatRider[b] = p /\ boatRider[d] = p => b = d
        /\ \A m \in Mammoths : rider[m] = p => m \in saddled \ baby

\* Saddles are never duplicated: those in inventories, on mammoths and in the
\* hands of a handler are at most the ones the players brought.
SaddlesConserved ==
    SumFunctionOnSet(saddles, Riders)
      + Cardinality(saddled)
      + Cardinality({p \in Riders : task[p][1] = "saddle"})
        <= Saddles * Cardinality(online \cup gone)

\* Every birth is paid for: two parents fed MinFed times each, whose count is
\* then used up.
BirthsPaid ==
    2 * MinFed * births + SumFunctionOnSet(fed, Mammoths) <= fedTotal

\* handleLeashMammoth, handleSaddleMammoth and handleRideMammoth refuse a
\* mammoth that is not tamed, so a wild mammoth has no leash, saddle or rider.
WildIsFree ==
    \A m \in alive \ tamed :
        leash[m] = Nobody /\ rider[m] = Nobody /\ m \notin saddled

\* A player who left is taken off his mammoth and out of his boat, and his
\* leash is taken from every mammoth that nobody rides.
DepartedForgotten ==
    \A p \in Riders : p \in gone ~>
        /\ \A m \in Mammoths : rider[m] # p /\ (leash[m] = p => rider[m] # Nobody)
        /\ \A b \in Boats : boatRider[b] # p

=============================================================================
