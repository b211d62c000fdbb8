------------------------------ MODULE Rockets ------------------------------
(***************************************************************************)
(* Rockets: placing, boarding, steering, leaving, the fuel they burn and   *)
(* the body they belong to.  Every handler and tickRockets work under      *)
(* s.rockets; the order in which they get it is open.  The flight itself   *)
(* is abstracted to the zone a rocket is in, and where it goes in one tick *)
(* is a free choice among the zones within reach.                          *)
(***************************************************************************)
EXTENDS Integers, FiniteSets

CONSTANTS
    Pilots, Rockets,
    Nobody,      \* the empty OwnerID
    MaxFuel,     \* rocketMaxFuel
    Unit,        \* fuelAccum at which one unit of fuel goes
    Burns,       \* what one tick at some thrust adds to fuelAccum; 0: no thrust
    MaxRefills   \* bound: refills by players with infinite fuel

ASSUME NobodyFresh == Nobody \notin Pilots
\* Clients send a thrust of -1, 0 or 1; at 20 ticks per second full thrust
\* adds a quarter of a unit.
ASSUME FuelAssumption ==
    /\ MaxFuel \in Nat \ {0} /\ Unit \in Nat \ {0} /\ MaxRefills \in Nat
    /\ 0 \in Burns /\ Burns \subseteq 0..Unit

\* On Earth; in its atmosphere; above it within the SOI; beyond; on the Sun.
Zones == {"earth", "air", "high", "deep", "sun"}
NearEarth == {"earth", "air", "high"}

\* Where gravity, thrust, drag, speed limit and collisions may take a rocket in
\* one tick; the speed is limited near Earth only.
Reach == [z \in Zones |->
    CASE z = "earth" -> {"earth", "air"}
      [] z = "air"   -> {"earth", "air", "high"}
      [] z = "high"  -> {"earth", "air", "high", "deep"}
      [] z = "deep"  -> Zones
      [] z = "sun"   -> {"deep", "sun"}]

VARIABLES
    online, gone, cheat, \* connected players; those who left; with infiniteFuel
    store,               \* s.rockets
    owner, thrust,       \* OwnerID (Piloted: not Nobody); Thrust as what it burns
    fuel, accum, free,   \* Fuel, fuelAccum, rockets with InfiniteFuel
    zone, body, orbit,   \* where Pos is; PrimaryBody ("none": empty); InOrbit
    burned, refilled     \* history: fuelAccum ever added; fuel units refilled

crew == <<online, gone, cheat>>
tank == <<fuel, accum, free, burned, refilled>>
flight == <<zone, body, orbit>>
rocketVars == <<online, gone, cheat, store, owner, thrust, fuel, accum, free,
                zone, body, orbit, burned, refilled>>

RocketsInit ==
    /\ online = {} /\ gone = {} /\ cheat = {}
    /\ store = {}
    /\ owner = [r \in Rockets |-> Nobody] /\ thrust = [r \in Rockets |-> 0]
    /\ fuel = [r \in Rockets |-> MaxFuel] /\ accum = [r \in Rockets |-> 0] /\ free = {}
    /\ zone = [r \in Rockets |-> "earth"] /\ body = [r \in Rockets |-> "none"] /\ orbit = {}
    /\ burned = [r \in Rockets |-> 0] /\ refilled = [r \in Rockets |-> 0]

-----------------------------------------------------------------------------
(* Handlers *)

Join(p) ==
    /\ p \notin online \cup gone /\ online' = online \cup {p}
    /\ UNCHANGED <<gone, cheat, store, owner, thrust, tank, flight>>

\* unregisterClient releases every rocket of the player.
Leave(p) ==
    /\ p \in online /\ online' = online \ {p} /\ gone' = gone \cup {p}
    /\ owner' = [r \in Rockets |-> IF owner[r] = p THEN Nobody ELSE owner[r]]
    /\ thrust' = [r \in Rockets |-> IF owner[r] = p THEN 0 ELSE thrust[r]]
    /\ UNCHANGED <<cheat, store, tank, flight>>

CheatInfiniteFuel(p) ==
    /\ p \in online
    /\ cheat' = IF p \in cheat THEN cheat \ {p} ELSE cheat \cup {p}
    /\ UNCHANGED <<online, gone, store, owner, thrust, tank, flight>>

PlaceRocket(p, r) ==
    /\ p \in online /\ r \notin store /\ store' = store \cup {r}
    /\ UNCHANGED <<crew, owner, thrust, tank, flight>>

\* Nothing is asked about other rockets of the player, and the thrust stays
\* what it is.
BoardRocket(p, r) ==
    /\ p \in online /\ r \in store /\ owner[r] \in {Nobody, p}
    /\ owner' = [owner EXCEPT ![r] = p]
    /\ UNCHANGED <<crew, store, thrust, tank, flight>>

\* The first rocket of the player the map yields; its thrust stays.
ExitRocket(p, r) ==
    /\ p \in online /\ owner[r] = p
    /\ owner' = [owner EXCEPT ![r] = Nobody]
    /\ UNCHANGED <<crew, store, thrust, tank, flight>>

\* A player with infinite fuel fills the tank with every input.
Refill(p, r) == IF p \in cheat THEN MaxFuel - fuel[r] ELSE 0

\* handleRocketInput, to the first rocket of the player the map yields.
RocketInput(p, r, t) ==
    /\ p \in online /\ owner[r] = p
    /\ refilled[r] + Refill(p, r) <= MaxRefills
    /\ thrust' = [thrust EXCEPT ![r] = t]
    /\ free' = IF p \in cheat THEN free \cup {r} ELSE free \ {r}
    /\ fuel' = [fuel EXCEPT ![r] = @ + Refill(p, r)]
    /\ refilled' = [refilled EXCEPT ![r] = @ + Refill(p, r)]
    /\ UNCHANGED <<crew, store, owner, accum, burned, flight>>

-----------------------------------------------------------------------------
(* tickRockets *)

Piloted == {r \in store : owner[r] # Nobody}

\* consumeThrust: what the tick adds to fuelAccum.
SpentFuel(r) == IF r \in Piloted \ free /\ fuel[r] > 0 THEN thrust[r] ELSE 0

\* The loop of consumeThrust: whole units of fuelAccum, while there is fuel.
UnitsGone(r) ==
    LET whole == (accum[r] + SpentFuel(r)) \div Unit
    IN  IF SpentFuel(r) = 0 THEN 0 ELSE IF whole < fuel[r] THEN whole ELSE fuel[r]

\* Mutant: fuelAccum starts again at zero.
AccumReset(r) == IF UnitsGone(r) > 0 THEN 0 ELSE accum[r] + SpentFuel(r)

\* fuelAccum after the tick.
AccumAfter(r) == accum[r] + SpentFuel(r) - Unit * UnitsGone(r)

FuelAfter(r) == fuel[r] - UnitsGone(r)

\* tickFreeRocket: on Earth again, wherever it was, unless it belongs to the
\* Sun; Earth comes and goes by one that stands still beside the Sun.
Parked(r) ==
    CASE body[r] # "sun" -> {"earth"}
      [] body[r] = "sun" /\ zone[r] = "sun" -> {"sun"}
      [] OTHER -> Zones \ {"sun"}

\* updateRocketFrame: PrimaryBody follows from the zone before the move.
Primary(r) == IF zone[r] \in NearEarth THEN "earth" ELSE "sun"

\* updateOrbitalParams: where a rocket may be in a stable orbit.
Stable(r, z) == IF Primary(r) = "earth" THEN z \in {"high", "deep"} ELSE z # "sun"

\* InOrbit of the piloted rockets is set anew, that of the others stays.
OrbitAfter(s) == s \cup (orbit \ Piloted)

\* Mutant: a rocket that was left keeps its thrust.
ThrustKept(r) == thrust[r]

ThrustAfter(r) == IF r \in Piloted THEN thrust[r] ELSE 0

\* tickPilotedRocket and tickFreeRocket for all rockets.
TickRockets ==
    /\ fuel' = [r \in Rockets |-> FuelAfter(r)]
    /\ accum' = [r \in Rockets |-> AccumAfter(r)]
    /\ burned' = [r \in Rockets |-> burned[r] + SpentFuel(r)]
    /\ \E z \in [Rockets -> Zones] :
        /\ \A r \in Rockets : z[r] \in CASE r \in Piloted -> Reach[zone[r]]
                                         [] r \in store \ Piloted -> Parked(r)
                                         [] OTHER -> {zone[r]}
        /\ zone' = z
        /\ \E s \in SUBSET {r \in Piloted : Stable(r, z[r])} : orbit' = OrbitAfter(s)
    /\ body' = [r \in Rockets |-> IF r \in Piloted THEN Primary(r) ELSE body[r]]
    /\ thrust' = [r \in Rockets |-> ThrustAfter(r)]
    /\ UNCHANGED <<crew, store, owner, free, refilled>>

-----------------------------------------------------------------------------
RocketsNext ==
    \/ \E p \in Pilots :
        \/ Join(p) \/ Leave(p) \/ CheatInfiniteFuel(p)
        \/ \E r \in Rockets :
            \/ PlaceRocket(p, r) \/ BoardRocket(p, r) \/ ExitRocket(p, r)
            \/ \E t \in Burns : RocketInput(p, r, t)
    \/ TickRockets

RocketsSpec == RocketsInit /\ [][RocketsNext]_rocketVars

\* The tick loop runs.
RocketsFairSpec == RocketsSpec /\ WF_rocketVars(TickRockets)

-----------------------------------------------------------------------------
(* Properties *)

\* The state is well formed: no rocket has less than no fuel or more than a full
\* tank, whatever is refilled in handleRocketInput and burned in the tick.
RocketsTypeOK ==
    /\ online \subseteq Pilots /\ gone \subseteq Pilots /\ cheat \subseteq Pilots
    /\ store \subseteq Rockets
    /\ owner \in [Rockets -> Pilots \cup {Nobody}] /\ thrust \in [Rockets -> Burns]
    /\ fuel \in [Rockets -> 0..MaxFuel] /\ accum \in [Rockets -> Nat] /\ free \subseteq Rockets
    /\ zone \in [Rockets -> Zones] /\ body \in [Rockets -> {"none", "earth", "sun"}]
    /\ orbit \subseteq Rockets
    /\ burned \in [Rockets -> Nat] /\ refilled \in [Rockets -> Nat]

\* The fuel account closes: through changes of pilot, refills and switches of
\* infinite fuel, what was burned is what left the tank and what fuelAccum holds,
\* which is less than a unit even over an empty tank: no debt of an earlier
\* flight is taken from a refilled tank.
FuelLedger ==
    \A r \in Rockets :
        /\ burned[r] = Unit * (MaxFuel + refilled[r] - fuel[r]) + accum[r]
        /\ accum[r] < Unit

\* A rocket without a pilot comes to rest, without thrust on Earth or beside
\* the Sun, or is boarded.
FreeRests ==
    \A r \in Rockets :
        r \in store /\ owner[r] = Nobody ~>
            \/ owner[r] # Nobody
            \/ thrust[r] = 0 /\ (zone[r] = "earth" \/ body[r] = "sun")

=============================================================================
