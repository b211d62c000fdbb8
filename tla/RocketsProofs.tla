--------------------------- MODULE RocketsProofs ---------------------------
(* Proofs about Rockets, for any players and rockets, any tank, any unit of *)
(* fuel and any set of burns that are no more than a unit per tick.         *)
EXTENDS Rockets, TLAPS

\* Whole units in what fuelAccum holds after one tick: none or one.
LEMMA WholeUnits ==
    ASSUME NEW u \in Nat, u > 0, NEW a \in Nat, a < u + u
    PROVE  /\ a < u => a \div u = 0
           /\ a >= u => a \div u = 1
  OBVIOUS

\* One unit more out of the tank is Unit more burned.
LEMMA OneUnitMore ==
    ASSUME NEW u \in Nat, NEW x \in Int
    PROVE  u * (x + 1) = u * x + u /\ u * 0 = 0 /\ u * 1 = u
  OBVIOUS

\* The inductive invariant: the types and the fuel account.
FuelInv == RocketsTypeOK /\ FuelLedger

\* What consumeThrust does to one rocket: it takes no unit or one, never one
\* the tank does not have, and leaves less than a unit in fuelAccum.
LEMMA Consume ==
    ASSUME FuelInv, NEW r \in Rockets
    PROVE  /\ SpentFuel(r) \in Nat
           /\ UnitsGone(r) \in {0, 1} /\ UnitsGone(r) <= fuel[r]
           /\ AccumAfter(r) \in Nat /\ AccumAfter(r) < Unit
           /\ accum[r] + SpentFuel(r) = AccumAfter(r) + Unit * UnitsGone(r)
  <1>1. /\ Unit \in Nat /\ Unit > 0 /\ fuel[r] \in 0..MaxFuel /\ MaxFuel \in Nat
        /\ accum[r] \in Nat /\ accum[r] < Unit
        /\ thrust[r] \in Nat /\ thrust[r] <= Unit
    <2>1. /\ Unit \in Nat /\ Unit > 0 /\ MaxFuel \in Nat /\ Burns \subseteq 0..Unit
      BY FuelAssumption
    <2>2. /\ fuel[r] \in 0..MaxFuel /\ accum[r] \in Nat /\ accum[r] < Unit
          /\ thrust[r] \in Burns
      BY DEF FuelInv, RocketsTypeOK, FuelLedger
    <2>3. thrust[r] \in 0..Unit BY <2>1, <2>2
    <2>4. QED BY <2>1, <2>2, <2>3
  <1>2. /\ SpentFuel(r) \in Nat /\ SpentFuel(r) <= Unit
        /\ SpentFuel(r) # 0 => fuel[r] > 0
    BY <1>1 DEF SpentFuel
  <1> DEFINE a == accum[r] + SpentFuel(r)
  <1>3. a \in Nat /\ a < Unit + Unit BY <1>1, <1>2
  <1>4. /\ a < Unit => a \div Unit = 0
        /\ a >= Unit => a \div Unit = 1
    BY <1>1, <1>3, WholeUnits
  <1>5. Unit * 0 = 0 /\ Unit * 1 = Unit BY <1>1
  <1>6. CASE SpentFuel(r) = 0
    <2>1. UnitsGone(r) = 0 BY <1>6 DEF UnitsGone
    <2>2. AccumAfter(r) = accum[r] BY <1>1, <1>5, <1>6, <2>1 DEF AccumAfter
    <2>3. QED BY <1>1, <1>2, <1>5, <1>6, <2>1, <2>2
  <1>7. CASE SpentFuel(r) # 0 /\ a < Unit
    <2>1. UnitsGone(r) = 0 BY <1>1, <1>2, <1>4, <1>7 DEF UnitsGone
    <2>2. AccumAfter(r) = a BY <1>1, <1>2, <1>5, <2>1 DEF AccumAfter
    <2>3. QED BY <1>1, <1>2, <1>3, <1>5, <1>7, <2>1, <2>2
  <1>8. CASE SpentFuel(r) # 0 /\ a >= Unit
    <2>1. UnitsGone(r) = 1 BY <1>1, <1>2, <1>4, <1>8 DEF UnitsGone
    <2>2. AccumAfter(r) = a - Unit BY <1>1, <1>2, <1>5, <2>1 DEF AccumAfter
    <2>3. QED BY <1>1, <1>2, <1>3, <1>5, <1>8, <2>1, <2>2
  <1>9. QED BY <1>1, <1>3, <1>6, <1>7, <1>8

\* A tick keeps the types and the account of every rocket.
LEMMA TickStep ==
    ASSUME FuelInv, TickRockets
    PROVE  FuelInv'
  <1>1. ASSUME NEW r \in Rockets
        PROVE  /\ fuel'[r] = fuel[r] - UnitsGone(r) /\ accum'[r] = AccumAfter(r)
               /\ burned'[r] = burned[r] + SpentFuel(r) /\ refilled'[r] = refilled[r]
    BY DEF TickRockets, FuelAfter
  <1>2. RocketsTypeOK'
    <2>1. fuel' \in [Rockets -> 0..MaxFuel]
      <3>1. \A r \in Rockets : FuelAfter(r) \in 0..MaxFuel
        BY Consume, FuelAssumption DEF FuelAfter, FuelInv, RocketsTypeOK
      <3>2. QED BY <3>1 DEF TickRockets
    <2>2. accum' \in [Rockets -> Nat] BY Consume DEF TickRockets
    <2>3. burned' \in [Rockets -> Nat]
      <3>1. \A r \in Rockets : burned[r] + SpentFuel(r) \in Nat
        BY Consume DEF FuelInv, RocketsTypeOK
      <3>2. QED BY <3>1 DEF TickRockets
    <2>4. zone' \in [Rockets -> Zones] BY DEF TickRockets
    <2>5. orbit' \subseteq Rockets
      <3>1. PICK z \in [Rockets -> Zones] :
               \E s \in SUBSET {r \in Piloted : Stable(r, z[r])} : orbit' = OrbitAfter(s)
        BY DEF TickRockets
      <3>2. QED BY <3>1 DEF OrbitAfter, Piloted, FuelInv, RocketsTypeOK
    <2>6. body' \in [Rockets -> {"none", "earth", "sun"}]
      BY DEF TickRockets, Primary, FuelInv, RocketsTypeOK
    <2>7. thrust' \in [Rockets -> Burns]
      BY FuelAssumption DEF TickRockets, ThrustAfter, FuelInv, RocketsTypeOK
    <2>8. QED
      BY <2>1, <2>2, <2>3, <2>4, <2>5, <2>6, <2>7
      DEF TickRockets, crew, FuelInv, RocketsTypeOK
  <1>3. FuelLedger'
    <2> SUFFICES ASSUME NEW r \in Rockets
                 PROVE  /\ burned'[r] = Unit * (MaxFuel + refilled'[r] - fuel'[r]) + accum'[r]
                        /\ accum'[r] < Unit
      BY DEF FuelLedger
    <2> DEFINE x == MaxFuel + refilled[r] - fuel[r]
    <2>1. /\ x \in Int /\ Unit \in Nat /\ burned[r] \in Nat /\ accum[r] \in Nat
          /\ fuel[r] \in Int /\ refilled[r] \in Int /\ MaxFuel \in Int
      BY FuelAssumption DEF FuelInv, RocketsTypeOK
    <2>2. burned[r] = Unit * x + accum[r] BY DEF FuelInv, FuelLedger
    <2>3. MaxFuel + refilled'[r] - fuel'[r] = x + UnitsGone(r)
      BY <1>1, <2>1, Consume
    <2>4. Unit * (x + UnitsGone(r)) = Unit * x + Unit * UnitsGone(r)
      <3>1. Unit * (x + 0) = Unit * x + Unit * 0 BY <2>1
      <3>2. Unit * (x + 1) = Unit * x + Unit * 1 BY <2>1, OneUnitMore
      <3>3. UnitsGone(r) = 0 \/ UnitsGone(r) = 1 BY Consume
      <3>4. QED BY <3>1, <3>2, <3>3
    <2> HIDE DEF x
    <2>5. Unit * x \in Int /\ Unit * UnitsGone(r) \in Int
      <3>1. UnitsGone(r) \in Int BY Consume
      <3>2. QED BY <2>1, <3>1
    <2>6. burned[r] + SpentFuel(r) = Unit * x + Unit * UnitsGone(r) + AccumAfter(r)
      BY <2>1, <2>2, <2>5, Consume
    <2>7. QED BY <1>1, <2>3, <2>4, <2>6, Consume
  <1>4. QED BY <1>2, <1>3 DEF FuelInv

\* An input of the pilot keeps them: what it refills is in the account.
LEMMA InputStep ==
    ASSUME FuelInv, NEW p \in Pilots, NEW r \in Rockets, NEW t \in Burns,
           RocketInput(p, r, t)
    PROVE  FuelInv'
  <1>1. /\ fuel[r] \in 0..MaxFuel /\ refilled[r] \in Nat /\ MaxFuel \in Nat
    BY FuelAssumption DEF FuelInv, RocketsTypeOK
  <1>2. /\ Refill(p, r) \in Nat /\ fuel[r] + Refill(p, r) \in 0..MaxFuel
        /\ refilled[r] + Refill(p, r) \in Nat
    BY <1>1 DEF Refill
  <1>3. RocketsTypeOK'
    BY <1>2 DEF RocketInput, FuelInv, RocketsTypeOK, crew, flight
  <1>4. FuelLedger'
    <2> SUFFICES ASSUME NEW q \in Rockets
                 PROVE  /\ burned'[q] = Unit * (MaxFuel + refilled'[q] - fuel'[q]) + accum'[q]
                        /\ accum'[q] < Unit
      BY DEF FuelLedger
    <2>1. burned'[q] = burned[q] /\ accum'[q] = accum[q]
      BY DEF RocketInput
    <2>2. MaxFuel + refilled'[q] - fuel'[q] = MaxFuel + refilled[q] - fuel[q]
      <3>1. CASE q = r
        <4>1. /\ refilled'[q] = refilled[r] + Refill(p, r)
              /\ fuel'[q] = fuel[r] + Refill(p, r)
          BY <3>1 DEF RocketInput, FuelInv, RocketsTypeOK
        <4>2. QED BY <1>1, <1>2, <3>1, <4>1
      <3>2. CASE q # r BY <3>2 DEF RocketInput, FuelInv, RocketsTypeOK
      <3>3. QED BY <3>1, <3>2
    <2>3. QED BY <2>1, <2>2 DEF FuelInv, FuelLedger
  <1>5. QED BY <1>3, <1>4 DEF FuelInv

\* The rockets start full, with nothing burned.
LEMMA InitFuel == RocketsInit => FuelInv
  <1> SUFFICES ASSUME RocketsInit PROVE FuelInv OBVIOUS
  <1>1. RocketsTypeOK BY FuelAssumption DEF RocketsInit, RocketsTypeOK, Zones
  <1>2. FuelLedger
    <2>1. Unit * (MaxFuel + 0 - MaxFuel) + 0 = 0 /\ 0 < Unit BY FuelAssumption
    <2>2. QED BY <2>1 DEF RocketsInit, FuelLedger
  <1>3. QED BY <1>1, <1>2 DEF FuelInv

\* Every step, stuttering included, preserves types and account.
LEMMA NextFuel == FuelInv /\ [RocketsNext]_rocketVars => FuelInv'
  <1> SUFFICES ASSUME FuelInv, [RocketsNext]_rocketVars PROVE FuelInv' OBVIOUS
  <1>1. CASE UNCHANGED rocketVars
    BY <1>1 DEF rocketVars, FuelInv, RocketsTypeOK, FuelLedger
  <1>2. ASSUME UNCHANGED tank, RocketsTypeOK' PROVE FuelInv'
    BY <1>2 DEF tank, FuelInv, FuelLedger
  <1>3. ASSUME NEW p \in Pilots, Join(p) \/ Leave(p) \/ CheatInfiniteFuel(p)
        PROVE  FuelInv'
    <2>1. UNCHANGED tank BY <1>3 DEF Join, Leave, CheatInfiniteFuel
    <2>2. RocketsTypeOK'
      BY <1>3, FuelAssumption
      DEF Join, Leave, CheatInfiniteFuel, FuelInv, RocketsTypeOK, tank, flight
    <2>3. QED BY <1>2, <2>1, <2>2
  <1>4. ASSUME NEW p \in Pilots, NEW r \in Rockets,
               PlaceRocket(p, r) \/ BoardRocket(p, r) \/ ExitRocket(p, r)
        PROVE  FuelInv'
    <2>1. UNCHANGED tank BY <1>4 DEF PlaceRocket, BoardRocket, ExitRocket
    <2>2. RocketsTypeOK'
      BY <1>4 DEF PlaceRocket, BoardRocket, ExitRocket, FuelInv, RocketsTypeOK, crew, tank, flight
    <2>3. QED BY <1>2, <2>1, <2>2
  <1>5. QED BY <1>1, <1>3, <1>4, InputStep, TickStep DEF RocketsNext

\* In every reachable state tanks hold between nothing and a full tank, and
\* every field of a rocket has its type.
THEOREM RocketsTyped == RocketsSpec => []RocketsTypeOK
  <1>1. FuelInv => RocketsTypeOK BY DEF FuelInv
  <1>2. QED BY <1>1, InitFuel, NextFuel, PTL DEF RocketsSpec

\* What the pilots of a rocket burned is what left its tank and what fuelAccum
\* holds, less than a unit (handleRocketInput, consumeThrust).
THEOREM FuelAccounted == RocketsSpec => []FuelLedger
  <1>1. FuelInv => FuelLedger BY DEF FuelInv
  <1>2. QED BY <1>1, InitFuel, NextFuel, PTL DEF RocketsSpec

-----------------------------------------------------------------------------
(* Rockets without a pilot *)

\* At rest: no thrust, and on Earth or beside the Sun.
Rested(r) == thrust[r] = 0 /\ (zone[r] = "earth" \/ body[r] = "sun")

\* One tick brings a rocket without a pilot to rest, and it stays there until it
\* is boarded.
RestsAtOnce ==
    [][\A r \in store : owner[r] = Nobody =>
          /\ TickRockets => Rested(r)'
          /\ Rested(r) => Rested(r)' \/ owner'[r] # Nobody]_rocketVars

\* A rocket that its pilot left, by Exit or by going away, is at rest after the
\* next tick, whatever thrust and zone he left it with, and nothing but a new
\* pilot moves it (handleExitRocket, unregisterClient, tickFreeRocket): the
\* safety half of FreeRests.
THEOREM FreeRestAtOnce == RocketsSpec => RestsAtOnce
  <1> DEFINE Rest(r) == owner[r] = Nobody =>
                          /\ TickRockets => Rested(r)'
                          /\ Rested(r) => Rested(r)' \/ owner'[r] # Nobody
  <1>1. ASSUME RocketsTypeOK, [RocketsNext]_rocketVars, NEW r \in store PROVE Rest(r)
    <2> SUFFICES ASSUME owner[r] = Nobody
                 PROVE  /\ TickRockets => Rested(r)'
                        /\ Rested(r) => Rested(r)' \/ owner'[r] # Nobody
      OBVIOUS
    <2>0. r \in Rockets /\ r \notin Piloted BY <1>1 DEF RocketsTypeOK, Piloted
    <2>1. ASSUME TickRockets PROVE Rested(r)'
      <3>1. PICK z \in [Rockets -> Zones] :
              /\ \A q \in Rockets : z[q] \in CASE q \in Piloted -> Reach[zone[q]]
                                               [] q \in store \ Piloted -> Parked(q)
                                               [] OTHER -> {zone[q]}
              /\ zone' = z
        BY <2>1 DEF TickRockets
      <3>2. zone'[r] \in Parked(r) BY <2>0, <3>1
      <3>3. body'[r] = body[r] /\ thrust'[r] = 0
        BY <2>0, <2>1 DEF TickRockets, ThrustAfter
      <3>4. body[r] # "sun" => zone'[r] = "earth" BY <3>2 DEF Parked
      <3>5. QED BY <3>3, <3>4 DEF Rested
    <2>2. ASSUME NEW p \in Pilots, Join(p) \/ Leave(p) \/ CheatInfiniteFuel(p)
          PROVE  Rested(r) => Rested(r)'
      <3>1. thrust'[r] = thrust[r] \/ thrust'[r] = 0
        BY <2>0, <2>2 DEF Join, Leave, CheatInfiniteFuel
      <3>2. UNCHANGED <<zone, body>> BY <2>2 DEF Join, Leave, CheatInfiniteFuel, flight
      <3>3. QED BY <3>1, <3>2 DEF Rested
    <2>3. ASSUME NEW p \in Pilots, NEW q \in Rockets,
                 PlaceRocket(p, q) \/ BoardRocket(p, q) \/ ExitRocket(p, q)
          PROVE  Rested(r) => Rested(r)'
      BY <2>3 DEF PlaceRocket, BoardRocket, ExitRocket, flight, Rested
    <2>4. ASSUME NEW p \in Pilots, NEW q \in Rockets, NEW t \in Burns, RocketInput(p, q, t)
          PROVE  Rested(r) => Rested(r)'
      <3>1. q # r BY <2>4, NobodyFresh DEF RocketInput
      <3>2. thrust'[r] = thrust[r] BY <1>1, <2>0, <2>4, <3>1 DEF RocketInput, RocketsTypeOK
      <3>3. UNCHANGED <<zone, body>> BY <2>4 DEF RocketInput, flight
      <3>4. QED BY <3>2, <3>3 DEF Rested
    <2>5. CASE UNCHANGED rocketVars BY <2>1, <2>5 DEF rocketVars, Rested
    <2>6. QED BY <1>1, <2>1, <2>2, <2>3, <2>4, <2>5 DEF RocketsNext
  <1>2. RocketsTypeOK /\ [RocketsNext]_rocketVars => [\A r \in store : Rest(r)]_rocketVars BY <1>1
  <1>3. QED BY <1>2, RocketsTyped, PTL DEF RocketsSpec, RestsAtOnce

=============================================================================
