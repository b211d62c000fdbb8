----------------------------- MODULE MobsProofs -----------------------------
(***************************************************************************)
(* Proofs about Mobs, for any finite sets of players, mobs, resources and  *)
(* projectiles and any prices, drops and targets: every mob dies once and  *)
(* is robbed of its goods once, no resource is taken twice, and a contract *)
(* ends only when it was served or its owner has left.                     *)
(***************************************************************************)
EXTENDS Mobs, SumTheorems

-----------------------------------------------------------------------------
(* Types *)

\* What a handler may still have to do.
Todo == {Idle} \cup [op : {"add"}, arg : Types] \cup [op : {"drop"}, arg : Mobs]

\* TypeOK in six parts, with the history variables.
PlayersOK ==
    /\ online \subseteq Players /\ gone \subseteq Players
    /\ inv \in [Players -> Goods] /\ php \in [Players -> 0..PlayerHP]
    /\ todo \in [Players -> Todo]
GroundOK == ground \in [Ids -> Types \cup {None}] /\ used \subseteq Ids
HerdOK ==
    /\ alive \subseteq Mobs /\ angered \subseteq Mobs
    /\ hp \in [Mobs -> Int] /\ bag \in [Mobs -> Goods]
    /\ contract \in [Mobs -> {"none", "gather4", "guard"}]
    /\ owner \in [Mobs -> Players \cup {Nobody}]
FlightOK ==
    target \in [Projs -> Players \cup Mobs \cup {None}] /\ age \in [Projs -> 0..TTL + 1]
TickOK ==
    /\ tick \in {"mobs", "visit", "snapshot", "advance", "apply", "drops"}
    /\ left \subseteq Mobs /\ crowd \subseteq Players
    /\ cur \in Mobs \cup {None} /\ aim \in Ids \cup {None}
    /\ seen \subseteq Mobs /\ hits \subseteq Projs \X Mobs /\ kills \subseteq Mobs
HistoryOK == given \in Nat /\ spent \in Goods

Parts == PlayersOK /\ GroundOK /\ HerdOK /\ FlightOK /\ TickOK /\ HistoryOK

\* tickMobs holds s.mobs: the mobs it has still to visit and the one that
\* reaches for a resource are alive, and that one gathers.
VisitOK ==
    /\ tick = "visit" => left \subseteq alive
    /\ cur # None => /\ tick = "visit" /\ cur \in alive /\ aim \in Ids
                     /\ Kind[cur] = "pink" => contract[cur] = "gather4"

\* A mob is killed by one handler or by the tick loop, not by both or two.
KillsOK ==
    /\ kills # {} => tick = "drops"
    /\ kills \cap alive = {}
    /\ \A p \in Players : todo[p].op = "drop" => todo[p].arg \notin alive \cup kills
    /\ \A p, q \in Players :
          todo[p].op = "drop" /\ todo[q].op = "drop" /\ todo[p].arg = todo[q].arg => p = q

\* A pink that is alive and does not gather has nothing: applyContract, which
\* gives it an empty inventory, destroys nothing.
PinkOK ==
    \A m \in alive : Kind[m] = "pink" /\ contract[m] # "gather4" => bag[m] = Zero

\* The owner of a contract is or was a player.
OwnerOK == \A m \in Mobs : contract[m] # "none" => owner[m] \in online \cup gone

\* newID never repeats.
UsedOK == \A g \in Ids : ground[g] # None => g \in used

MobsInv == Parts /\ VisitOK /\ KillsOK /\ PinkOK /\ OwnerOK /\ UsedOK

\* The parts are TypeOK.
LEMMA PartsTyped == Parts => TypeOK
  BY DEF Parts, PlayersOK, GroundOK, HerdOK, FlightOK, TickOK, TypeOK, Todo

\* What does not change keeps its type.
LEMMA PartsKept ==
    ASSUME Parts
    PROVE  /\ UNCHANGED players => PlayersOK'
           /\ UNCHANGED res => GroundOK'
           /\ UNCHANGED herd => HerdOK'
           /\ UNCHANGED projectiles => FlightOK'
           /\ UNCHANGED ticks => TickOK'
           /\ UNCHANGED <<given, spent>> => HistoryOK'
  <1> USE DEF Parts
  <1>1. UNCHANGED players => PlayersOK' BY DEF players, PlayersOK
  <1>2. UNCHANGED res => GroundOK' BY DEF res, GroundOK
  <1>3. UNCHANGED herd => HerdOK' BY DEF herd, HerdOK
  <1>4. UNCHANGED projectiles => FlightOK' BY DEF projectiles, FlightOK
  <1>5. UNCHANGED ticks => TickOK' BY DEF ticks, TickOK
  <1>6. UNCHANGED <<given, spent>> => HistoryOK' BY DEF HistoryOK
  <1>7. QED BY <1>1, <1>2, <1>3, <1>4, <1>5, <1>6

\* Goods that are added and taken away one by one.
LEMMA GoodsTyped ==
    /\ Zero \in Goods /\ Types = {"spear", "fruit"}
    /\ \A v \in Goods : \A k \in Types :
          /\ v[k] \in Nat /\ [v EXCEPT ![k] = @ + 1] \in Goods
          /\ v[k] > 0 => [v EXCEPT ![k] = @ - 1] \in Goods
    /\ \A c \in {"gather4", "guard"} : Price(c) \in Goods
  BY NumberAssumption DEF Zero, Goods, Types, Price

\* Handlers keep the types.
LEMMA HandlerTyped ==
    ASSUME Parts, NEW p \in Players
    PROVE  Handler(p) => Parts'
  <1> USE DEF Parts
  <1>1. inv[p] \in Goods /\ inv \in [Players -> Goods] /\ spent \in Goods BY DEF PlayersOK, HistoryOK
  <1>2. ASSUME Join(p) \/ Leave(p) PROVE Parts'
    <2>1. PlayersOK' BY <1>2 DEF Join, Leave, PlayersOK
    <2>2. QED BY <1>2, <2>1, PartsKept DEF Join, Leave
  <1>3. ASSUME CheatGet(p) PROVE Parts'
    <2>1. [inv[p] EXCEPT !["spear"] = @ + 1] \in Goods BY <1>1, GoodsTyped
    <2>2. PlayersOK' BY <1>3, <2>1 DEF CheatGet, PlayersOK
    <2>3. HistoryOK' BY <1>3 DEF CheatGet, HistoryOK
    <2>4. QED BY <1>3, <2>2, <2>3, PartsKept DEF CheatGet
  <1>4. ASSUME AddItem(p) PROVE Parts'
    <2>1. todo[p].arg \in Types BY <1>4 DEF AddItem, PlayersOK, Todo, Idle
    <2>2. [inv[p] EXCEPT ![todo[p].arg] = @ + 1] \in Goods BY <1>1, <2>1, GoodsTyped
    <2>3. PlayersOK' BY <1>4, <2>2 DEF AddItem, PlayersOK, Todo
    <2>4. QED BY <1>4, <2>3, PartsKept DEF AddItem
  <1>5. ASSUME Eat(p) PROVE Parts'
    <2>1. [inv[p] EXCEPT !["fruit"] = @ - 1] \in Goods /\ [spent EXCEPT !["fruit"] = @ + 1] \in Goods
      BY <1>1, <1>5, GoodsTyped DEF Eat
    <2>2. PlayersOK' BY <1>5, <2>1 DEF Eat, PlayersOK
    <2>3. HistoryOK' BY <1>5, <2>1 DEF Eat, HistoryOK
    <2>4. QED BY <1>5, <2>2, <2>3, PartsKept DEF Eat
  <1>6. ASSUME NEW g \in Ids, Pickup(p, g) PROVE Parts'
    <2>1. ground[g] \in Types BY <1>6 DEF Pickup, GroundOK
    <2>2. PlayersOK' BY <1>6, <2>1 DEF Pickup, PlayersOK, Todo
    <2>3. GroundOK' BY <1>6 DEF Pickup, GroundOK
    <2>4. QED BY <1>6, <2>2, <2>3, PartsKept DEF Pickup
  <1>7. ASSUME NEW m \in Mobs, HitMob(p, m) PROVE Parts'
    <2>1. [inv[p] EXCEPT !["spear"] = @ - 1] \in Goods /\ [spent EXCEPT !["spear"] = @ + 1] \in Goods
      BY <1>1, <1>7, GoodsTyped DEF HitMob
    <2>2. PlayersOK' BY <1>7, <2>1 DEF HitMob, PlayersOK, Todo
    <2>3. HerdOK' BY <1>7 DEF HitMob, HerdOK
    <2>4. HistoryOK' BY <1>7, <2>1 DEF HitMob, HistoryOK
    <2>5. QED BY <1>7, <2>2, <2>3, <2>4, PartsKept DEF HitMob
  <1>8. ASSUME HitDrop(p) PROVE Parts'
    <2>1. PlayersOK' BY <1>8 DEF HitDrop, PlayersOK, Todo
    <2>2. GroundOK' BY <1>8 DEF HitDrop, SpawnDrops, GroundOK, Types
    <2>3. HerdOK' BY SMTT(30), <1>8, GoodsTyped DEF HitDrop, SpawnDrops, HerdOK
    <2>4. QED BY <1>8, <2>1, <2>2, <2>3, PartsKept DEF HitDrop
  <1>9. ASSUME NEW m \in Mobs, NEW c \in {"gather4", "guard"}, AcceptContract(p, m, c)
        PROVE  Parts'
    <2>1. Price(c) \in Goods BY GoodsTyped
    <2>2. /\ [t \in Types |-> inv[p][t] - Price(c)[t]] \in Goods
          /\ [t \in Types |-> spent[t] + Price(c)[t]] \in Goods
      BY <1>1, <1>9, <2>1 DEF AcceptContract, Goods
    <2>3. PlayersOK' BY <1>9, <2>2 DEF AcceptContract, PlayersOK
    <2>4. HerdOK' BY <1>9, GoodsTyped DEF AcceptContract, HerdOK
    <2>5. HistoryOK' BY <1>9, <2>2 DEF AcceptContract, HistoryOK
    <2>6. QED BY <1>9, <2>3, <2>4, <2>5, PartsKept DEF AcceptContract
  <1>10. QED BY <1>2, <1>3, <1>4, <1>5, <1>6, <1>7, <1>8, <1>9 DEF Handler

\* A projectile that is launched, or none.
LEMMA ShotTyped ==
    ASSUME Parts, NEW m \in Mobs
    PROVE  /\ AutoShoot(m) => FlightOK'
           /\ \A v \in Players \cup Mobs : Launch(v) => FlightOK'
  <1> USE DEF Parts
  <1>1. ASSUME NEW v \in Players \cup Mobs, Launch(v) PROVE FlightOK'
    BY <1>1, NumberAssumption DEF Launch, FlightOK
  <1>2. QED BY <1>1, PartsKept DEF AutoShoot, HerdOK

\* The visits of tickMobs keep the types.
LEMMA VisitTyped ==
    ASSUME Parts, VisitOK, NEW m \in Mobs
    PROVE  TickMob(m) => Parts'
  <1> USE DEF Parts
  <1>1. ASSUME VisitFlee(m) \/ VisitMove(m) PROVE Parts'
    <2>1. FlightOK' BY <1>1, ShotTyped DEF VisitFlee, VisitMove
    <2>2. TickOK' BY <1>1 DEF VisitFlee, VisitMove, Visit, TickOK
    <2>3. QED BY <1>1, <2>1, <2>2, PartsKept DEF VisitFlee, VisitMove
  <1>2. ASSUME NEW p \in Players, VisitThrow(m, p) PROVE Parts'
    <2>1. FlightOK' BY <1>2, ShotTyped DEF VisitThrow
    <2>2. TickOK' BY <1>2 DEF VisitThrow, Visit, TickOK
    <2>3. QED BY <1>2, <2>1, <2>2, PartsKept DEF VisitThrow
  <1>3. ASSUME NEW g \in Ids, VisitAim(m, g) PROVE Parts'
    <2>1. FlightOK' BY <1>3, ShotTyped DEF VisitAim
    <2>2. TickOK' BY <1>3 DEF VisitAim, Visit, TickOK
    <2>3. QED BY <1>3, <2>1, <2>2, PartsKept DEF VisitAim
  <1>4. ASSUME VisitPick(m) PROVE Parts'
    <2>1. aim \in Ids BY <1>4, FreshAssumption DEF VisitPick, VisitOK
    <2>2. GroundOK' BY <1>4 DEF VisitPick, GroundOK
    <2>3. HerdOK'
      <3>1. CASE ground[aim] = None BY <1>4, <3>1 DEF VisitPick, HerdOK
      <3>2. CASE ground[aim] # None
        <4>1. ground[aim] \in Types BY <2>1, <3>2 DEF GroundOK
        <4>2. [bag[m] EXCEPT ![ground[aim]] = @ + 1] \in Goods BY <4>1, GoodsTyped DEF HerdOK
        <4>3. QED BY <1>4, <3>2, <4>2 DEF VisitPick, HerdOK
      <3>3. QED BY <3>1, <3>2
    <2>4. TickOK' BY <1>4 DEF VisitPick, TickOK
    <2>5. QED BY <1>4, <2>2, <2>3, <2>4, PartsKept DEF VisitPick
  <1>5. ASSUME VisitDeliver(m) PROVE Parts'
    <2>1. owner[m] \in Players BY <1>5 DEF VisitDeliver, PlayersOK
    <2>2. bag[m] \in Goods /\ inv[owner[m]] \in Goods BY <2>1 DEF PlayersOK, HerdOK
    <2>3. [t \in Types |-> inv[owner[m]][t] + bag[m][t]] \in Goods BY <2>2 DEF Goods
    <2>4. PlayersOK' BY <1>5, <2>3 DEF VisitDeliver, PlayersOK
    <2>5. HerdOK' BY <1>5, GoodsTyped DEF VisitDeliver, HerdOK
    <2>6. FlightOK' BY <1>5, ShotTyped DEF VisitDeliver
    <2>7. TickOK' BY <1>5 DEF VisitDeliver, Visit, TickOK
    <2>8. QED BY <1>5, <2>4, <2>5, <2>6, <2>7, PartsKept DEF VisitDeliver
  <1>6. ASSUME VisitRelease(m) PROVE Parts'
    <2>1. HerdOK' BY <1>6 DEF VisitRelease, HerdOK
    <2>2. FlightOK' BY <1>6, ShotTyped DEF VisitRelease
    <2>3. TickOK' BY <1>6 DEF VisitRelease, Visit, TickOK
    <2>4. QED BY <1>6, <2>1, <2>2, <2>3, PartsKept DEF VisitRelease
  <1>7. QED BY <1>1, <1>2, <1>3, <1>4, <1>5, <1>6 DEF TickMob

\* Damage is not negative, and nobody falls below 0 HP.
LEMMA DamageTyped ==
    ASSUME NEW S \in SUBSET Projs, NEW n \in 0..PlayerHP
    PROVE  Floor(n - Damage * Cardinality(S)) \in 0..PlayerHP
  <1>1. IsFiniteSet(S) BY FiniteAssumption, FS_Subset
  <1>2. PICK k \in Nat : k = Cardinality(S) BY <1>1, FS_CardinalityType
  <1>3. PICK d \in Nat : d = Damage BY NumberAssumption
  <1>4. d * k \in Nat BY <1>2, <1>3
  <1>5. PICK x \in Nat : x = d * k BY <1>4
  <1>6. n - x <= PlayerHP /\ n - x \in Int BY <1>5, NumberAssumption
  <1>7. QED BY <1>2, <1>3, <1>5, <1>6, NumberAssumption DEF Floor

\* The other steps of the tick loop keep the types.
LEMMA TickTyped ==
    ASSUME Parts
    PROVE  TickMobs \/ TickMobsEnd \/ SnapshotMobPositions \/ AdvanceProjectiles
             \/ ApplyMobHits \/ TickDrops => Parts'
  <1> USE DEF Parts
  <1>1. ASSUME TickMobs \/ TickMobsEnd \/ SnapshotMobPositions PROVE Parts'
    <2>1. TickOK' BY <1>1 DEF TickMobs, TickMobsEnd, SnapshotMobPositions, TickOK, HerdOK, PlayersOK
    <2>2. QED BY <1>1, <2>1, PartsKept DEF TickMobs, TickMobsEnd, SnapshotMobPositions
  <1>2. ASSUME AdvanceProjectiles PROVE Parts'
    <2>1. PICK striking \in SUBSET {x \in Flying \ Expired : target[x] \in online \cup seen} :
            /\ hits' = {<<x, target[x]>> : x \in {y \in striking : target[y] \in Mobs}}
            /\ php' = [p \in Players |->
                 Floor(php[p] - Damage * Cardinality({x \in striking : target[x] = p}))]
            /\ target' = [x \in Projs |->
                 IF x \in striking \cup Expired THEN None ELSE target[x]]
            /\ age' = [x \in Projs |-> IF x \in striking \cup Expired \/ target[x] = None
                                         THEN 0 ELSE Older(age[x])]
      BY <1>2 DEF AdvanceProjectiles
    <2>2. striking \in SUBSET Projs BY DEF Flying
    <2>3. PlayersOK'
      <3>1. \A p \in Players :
              Floor(php[p] - Damage * Cardinality({x \in striking : target[x] = p})) \in 0..PlayerHP
        <4> TAKE p \in Players
        <4>1. php[p] \in 0..PlayerHP BY DEF PlayersOK
        <4>2. {x \in striking : target[x] = p} \in SUBSET Projs BY <2>2
        <4>3. QED BY <4>1, <4>2, DamageTyped
      <3>2. php' \in [Players -> 0..PlayerHP] BY <2>1, <3>1
      <3>3. QED BY <1>2, <3>2 DEF AdvanceProjectiles, PlayersOK
    <2>4. FlightOK'
      <3>1. target' \in [Projs -> Players \cup Mobs \cup {None}] BY <2>1 DEF FlightOK
      <3>2. \A n \in 0..TTL + 1 : Older(n) \in 0..TTL + 1 BY NumberAssumption DEF Older
      <3>3. age' \in [Projs -> 0..TTL + 1] BY <2>1, <3>2, NumberAssumption DEF FlightOK
      <3>4. QED BY <3>1, <3>3 DEF FlightOK
    <2>5. TickOK' BY <1>2, <2>1, <2>2 DEF AdvanceProjectiles, TickOK
    <2>6. QED BY <1>2, <2>3, <2>4, <2>5, PartsKept DEF AdvanceProjectiles
  <1>3. ASSUME ApplyMobHits PROVE Parts'
    <2>1. HerdOK'
      <3>1. \A m \in Mobs : hp[m] - Damage * Cardinality({h \in hits : h[2] = m}) \in Int
        <4> TAKE m \in Mobs
        <4>1. hits \in SUBSET (Projs \X Mobs) BY DEF TickOK
        <4>2. IsFiniteSet(Projs \X Mobs) BY FiniteAssumption, FS_Product
        <4>3. {h \in hits : h[2] = m} \in SUBSET (Projs \X Mobs) BY <4>1
        <4>4. IsFiniteSet({h \in hits : h[2] = m}) BY <4>2, <4>3, FS_Subset
        <4>5. PICK k \in Nat : k = Cardinality({h \in hits : h[2] = m})
          BY <4>4, FS_CardinalityType
        <4>6. hp[m] \in Int /\ Damage \in Int BY NumberAssumption DEF HerdOK
        <4>7. QED BY <4>5, <4>6
      <3>2. hp' \in [Mobs -> Int] BY <1>3, <3>1 DEF ApplyMobHits, HerdOK
      <3>3. alive' \subseteq Mobs BY <1>3 DEF ApplyMobHits, HerdOK
      <3>4. QED BY <1>3, <3>2, <3>3 DEF ApplyMobHits, HerdOK
    <2>2. TickOK' BY <1>3 DEF ApplyMobHits, TickOK, Victims, HerdOK
    <2>3. QED BY <1>3, <2>1, <2>2, PartsKept DEF ApplyMobHits
  <1>4. ASSUME TickDrops PROVE Parts'
    <2>1. GroundOK' BY <1>4 DEF TickDrops, SpawnDrops, GroundOK, Types
    <2>2. HerdOK' BY SMTT(30), <1>4, GoodsTyped DEF TickDrops, SpawnDrops, HerdOK
    <2>3. TickOK' BY <1>4 DEF TickDrops, TickOK
    <2>4. QED BY <1>4, <2>1, <2>2, <2>3, PartsKept DEF TickDrops
  <1>5. QED BY <1>1, <1>2, <1>3, <1>4

-----------------------------------------------------------------------------
(* Who holds what: the inductive invariant *)

\* What the invariant needs of the state beside the types.
Duties == VisitOK /\ KillsOK /\ PinkOK /\ OwnerOK /\ UsedOK

\* Goods that lie on new identities.
LEMMA DropsUsed ==
    ASSUME Parts, UsedOK, NEW dead \in SUBSET Mobs, SpawnDrops(dead)
    PROVE  UsedOK'
  BY DEF Parts, GroundOK, UsedOK, SpawnDrops

\* Handlers keep the invariant: they wait for s.mobs while tickMobs holds it.
LEMMA HandlerDuties ==
    ASSUME MobsInv, NEW p \in Players
    PROVE  Handler(p) => Duties'
  <1> USE DEF MobsInv, Parts
  <1>1. todo \in [Players -> Todo] /\ alive \subseteq Mobs BY DEF PlayersOK, HerdOK
  <1>2. ASSUME Join(p) \/ Leave(p) PROVE Duties'
    <2>1. VisitOK' /\ KillsOK' /\ PinkOK' /\ UsedOK'
      BY <1>2 DEF Join, Leave, herd, res, ticks, VisitOK, KillsOK, PinkOK, UsedOK
    <2>2. OwnerOK' BY <1>2 DEF Join, Leave, herd, OwnerOK
    <2>3. QED BY <2>1, <2>2 DEF Duties
  <1>3. ASSUME CheatGet(p) \/ Eat(p) PROVE Duties'
    BY <1>3 DEF CheatGet, Eat, herd, res, ticks, VisitOK, KillsOK, PinkOK, OwnerOK, UsedOK, Duties
  <1>4. ASSUME AddItem(p) PROVE Duties'
    <2>1. KillsOK' BY <1>1, <1>4 DEF AddItem, KillsOK, herd, ticks, Idle
    <2>2. QED BY <1>4, <2>1
      DEF AddItem, herd, res, ticks, VisitOK, PinkOK, OwnerOK, UsedOK, Duties
  <1>5. ASSUME NEW g \in Ids, Pickup(p, g) PROVE Duties'
    <2>1. KillsOK' BY <1>1, <1>5 DEF Pickup, KillsOK, herd, ticks
    <2>2. UsedOK' BY <1>5 DEF Pickup, UsedOK, GroundOK
    <2>3. QED BY <1>5, <2>1, <2>2
      DEF Pickup, herd, ticks, VisitOK, PinkOK, OwnerOK, Duties
  <1>6. ASSUME NEW m \in Mobs, HitMob(p, m) PROVE Duties'
    <2>1. tick # "visit" /\ cur = None BY <1>6 DEF HitMob, MobsFree, VisitOK
    <2>2. VisitOK' BY <1>6, <2>1 DEF HitMob, ticks, VisitOK
    <2>3. KillsOK'
      <3>1. alive' \subseteq alive /\ kills' = kills /\ tick' = tick BY <1>6 DEF HitMob, ticks
      <3>2. m \in alive /\ m \notin kills BY <1>6 DEF HitMob, KillsOK
      <3>3. todo'[p].op = "drop" => todo'[p].arg = m /\ m \notin alive'
        BY <1>1, <1>6 DEF HitMob, Idle
      <3>4. \A q \in Players \ {p} : todo'[q] = todo[q] BY <1>1, <1>6 DEF HitMob
      <3>5. \A q \in Players \ {p} : todo[q].op = "drop" => todo[q].arg # m
        BY <3>2 DEF KillsOK
      <3>6. QED BY <3>1, <3>2, <3>3, <3>4, <3>5 DEF KillsOK
    <2>4. PinkOK' BY <1>6 DEF HitMob, PinkOK
    <2>5. QED BY <1>6, <2>2, <2>3, <2>4 DEF HitMob, res, OwnerOK, UsedOK, Duties
  <1>7. ASSUME HitDrop(p) PROVE Duties'
    <2>1. todo[p].arg \in Mobs /\ todo[p].arg \notin alive
      BY <1>1, <1>7 DEF HitDrop, Todo, Idle, KillsOK
    <2>2. UsedOK' BY <1>7, <2>1, DropsUsed DEF HitDrop
    <2>3. KillsOK' BY <1>1, <1>7 DEF HitDrop, KillsOK, ticks, Idle
    <2>4. PinkOK' BY <1>1, <1>7, <2>1 DEF HitDrop, SpawnDrops, PinkOK
    <2>5. QED BY <1>7, <2>2, <2>3, <2>4 DEF HitDrop, ticks, VisitOK, OwnerOK, Duties
  <1>8. ASSUME NEW m \in Mobs, NEW c \in {"gather4", "guard"}, AcceptContract(p, m, c)
        PROVE  Duties'
    <2>1. tick # "visit" /\ cur = None BY <1>8 DEF AcceptContract, MobsFree, VisitOK
    <2>2. VisitOK' BY <1>8, <2>1 DEF AcceptContract, ticks, VisitOK
    <2>3. KillsOK' BY <1>8 DEF AcceptContract, KillsOK, ticks
    <2>4. PinkOK' BY <1>1, <1>8 DEF AcceptContract, PinkOK, HerdOK
    <2>5. OwnerOK' BY <1>8 DEF AcceptContract, CanAct, OwnerOK, HerdOK
    <2>6. UsedOK' BY <1>8 DEF AcceptContract, res, UsedOK
    <2>7. QED BY <2>2, <2>3, <2>4, <2>5, <2>6 DEF Duties
  <1>9. QED BY <1>2, <1>3, <1>4, <1>5, <1>6, <1>7, <1>8 DEF Handler

\* The visits keep the invariant.
LEMMA VisitDuties ==
    ASSUME MobsInv, NEW m \in Mobs
    PROVE  TickMob(m) => Duties'
  <1> USE DEF MobsInv, Parts
  <1>0. m # None BY FreshAssumption
  <1>1. ASSUME VisitFlee(m) \/ VisitMove(m) \/ \E p \in Players : VisitThrow(m, p) PROVE Duties'
    <2>1. VisitOK' BY <1>1 DEF VisitFlee, VisitMove, VisitThrow, Visit, herd, VisitOK
    <2>2. QED BY <1>1, <2>1 DEF VisitFlee, VisitMove, VisitThrow, Visit, herd, players, res,
                                KillsOK, PinkOK, OwnerOK, UsedOK, Duties
  <1>2. ASSUME NEW g \in Ids, VisitAim(m, g) PROVE Duties'
    <2>1. VisitOK' BY <1>0, <1>2 DEF VisitAim, Visit, Gathers, herd, VisitOK
    <2>2. QED BY <1>2, <2>1 DEF VisitAim, Visit, herd, players, res,
                                KillsOK, PinkOK, OwnerOK, UsedOK, Duties
  <1>3. ASSUME VisitPick(m) PROVE Duties'
    <2>1. aim \in Ids /\ m \in alive /\ (Kind[m] = "pink" => contract[m] = "gather4")
      BY <1>0, <1>3 DEF VisitPick, VisitOK
    <2>2. VisitOK' BY <1>3 DEF VisitPick, VisitOK
    <2>3. PinkOK'
      <3>1. \A n \in Mobs : n # m => bag'[n] = bag[n] BY <1>3 DEF VisitPick, HerdOK
      <3>2. alive' = alive /\ contract' = contract BY <1>3 DEF VisitPick
      <3>3. QED BY <2>1, <3>1, <3>2 DEF PinkOK, HerdOK
    <2>4. UsedOK' BY <1>3, <2>1 DEF VisitPick, UsedOK, GroundOK
    <2>5. QED BY <1>3, <2>2, <2>3, <2>4 DEF VisitPick, players, KillsOK, OwnerOK, Duties
  <1>4. ASSUME VisitDeliver(m) PROVE Duties'
    <2>1. VisitOK' BY <1>4 DEF VisitDeliver, Visit, VisitOK
    <2>2. PinkOK' BY <1>4 DEF VisitDeliver, PinkOK, HerdOK
    <2>3. OwnerOK' BY <1>4 DEF VisitDeliver, OwnerOK, HerdOK
    <2>4. QED BY <1>4, <2>1, <2>2, <2>3 DEF VisitDeliver, Visit, res, KillsOK, UsedOK, Duties
  <1>5. ASSUME VisitRelease(m) PROVE Duties'
    <2>1. VisitOK' BY <1>5 DEF VisitRelease, Visit, VisitOK
    <2>2. PinkOK' BY <1>5 DEF VisitRelease, PinkOK, HerdOK
    <2>3. OwnerOK' BY <1>5 DEF VisitRelease, OwnerOK, HerdOK, players
    <2>4. QED BY <1>5, <2>1, <2>2, <2>3
      DEF VisitRelease, Visit, players, res, KillsOK, UsedOK, Duties
  <1>6. QED BY <1>1, <1>2, <1>3, <1>4, <1>5 DEF TickMob

\* The other steps of the tick loop keep the invariant.
LEMMA TickDuties ==
    ASSUME MobsInv
    PROVE  TickMobs \/ TickMobsEnd \/ SnapshotMobPositions \/ AdvanceProjectiles
             \/ ApplyMobHits \/ TickDrops => Duties'
  <1> USE DEF MobsInv, Parts
  <1>1. ASSUME TickMobs \/ TickMobsEnd \/ SnapshotMobPositions PROVE Duties'
    BY <1>1 DEF TickMobs, TickMobsEnd, SnapshotMobPositions, players, res, herd,
                VisitOK, KillsOK, PinkOK, OwnerOK, UsedOK, Duties
  <1>2. ASSUME AdvanceProjectiles PROVE Duties'
    BY <1>2 DEF AdvanceProjectiles, res, herd, VisitOK, KillsOK, PinkOK, OwnerOK, UsedOK, Duties
  <1>3. ASSUME ApplyMobHits PROVE Duties'
    <2>1. kills' \subseteq alive /\ alive' = alive \ kills' /\ todo' = todo /\ tick' = "drops"
      BY <1>3 DEF ApplyMobHits, Victims, players
    <2>2. VisitOK' BY <1>3 DEF ApplyMobHits, VisitOK
    <2>3. KillsOK' BY <2>1 DEF KillsOK
    <2>4. PinkOK' BY <1>3, <2>1 DEF ApplyMobHits, PinkOK
    <2>5. QED BY <1>3, <2>2, <2>3, <2>4 DEF ApplyMobHits, players, res, OwnerOK, UsedOK, Duties
  <1>4. ASSUME TickDrops PROVE Duties'
    <2>1. kills \in SUBSET Mobs BY DEF TickOK
    <2>2. UsedOK' BY <1>4, <2>1, DropsUsed DEF TickDrops
    <2>3. VisitOK' BY <1>4 DEF TickDrops, VisitOK
    <2>4. KillsOK' BY <1>4 DEF TickDrops, KillsOK, players
    <2>5. PinkOK' BY <1>4 DEF TickDrops, SpawnDrops, PinkOK, KillsOK, HerdOK
    <2>6. QED BY <1>4, <2>2, <2>3, <2>4, <2>5 DEF TickDrops, players, OwnerOK, Duties
  <1>5. QED BY <1>1, <1>2, <1>3, <1>4

\* Every step keeps the invariant.
LEMMA MobsStep == MobsInv /\ [Next]_vars => MobsInv'
  <1> SUFFICES ASSUME MobsInv, [Next]_vars PROVE MobsInv' OBVIOUS
  <1>1. Parts /\ VisitOK BY DEF MobsInv
  <1>2. CASE Next
    <2>1. Parts' BY <1>1, <1>2, HandlerTyped, VisitTyped, TickTyped DEF Next, TickLoop
    <2>2. Duties' BY <1>2, HandlerDuties, VisitDuties, TickDuties DEF Next, TickLoop
    <2>3. QED BY <2>1, <2>2 DEF Duties, MobsInv
  <1>3. CASE UNCHANGED vars
    <2>1. /\ UNCHANGED players /\ UNCHANGED res /\ UNCHANGED herd
          /\ UNCHANGED projectiles /\ UNCHANGED ticks /\ UNCHANGED <<given, spent>>
      BY <1>3 DEF vars, players, res, herd, projectiles, ticks
    <2>2. Parts' BY <1>1, <2>1, PartsKept DEF Parts
    <2>3. Duties' BY <1>3 DEF MobsInv, vars, VisitOK, KillsOK, PinkOK, OwnerOK, UsedOK, Duties
    <2>4. QED BY <2>2, <2>3 DEF Duties, MobsInv
  <1>4. QED BY <1>2, <1>3

\* MobsInv holds in every reachable state, and with it TypeOK: damage takes no
\* player below 0 HP (Client.damage), a mob dies by one hand only (applyHitMob,
\* applyMobHits), and a pink without a gathering contract has nothing.
THEOREM MobsInvariant == Spec => [](MobsInv /\ TypeOK)
  <1>1. Init => MobsInv
    <2> SUFFICES ASSUME Init PROVE MobsInv OBVIOUS
    <2>1. PlayersOK /\ HistoryOK
      BY GoodsTyped, NumberAssumption DEF Init, PlayersOK, HistoryOK, Todo
    <2>2. GroundOK
      <3>1. /\ ground = [g \in Ids |-> IF g \in StartFruit THEN "fruit" ELSE None]
            /\ used = StartFruit
        BY DEF Init
      <3>2. StartFruit \subseteq Ids /\ "fruit" \in Types BY NumberAssumption DEF Types
      <3>3. QED BY <3>1, <3>2 DEF GroundOK
    <2>6. HerdOK
      <3>1. /\ alive = Mobs /\ hp = StartHP /\ angered = {} /\ bag = [m \in Mobs |-> Zero]
            /\ contract = [m \in Mobs |-> "none"] /\ owner = [m \in Mobs |-> Nobody]
        BY DEF Init
      <3>2. StartHP \in [Mobs -> Int] BY NumberAssumption
      <3>3. Zero \in Goods BY GoodsTyped
      <3>4. QED BY <3>1, <3>2, <3>3 DEF HerdOK
    <2>3. FlightOK /\ TickOK BY NumberAssumption DEF Init, FlightOK, TickOK
    <2>4. Duties BY DEF Init, VisitOK, KillsOK, PinkOK, OwnerOK, UsedOK, Duties, Idle
    <2>5. QED BY <2>1, <2>2, <2>3, <2>4, <2>6 DEF MobsInv, Parts, Duties
  <1>2. MobsInv => TypeOK BY PartsTyped DEF MobsInv
  <1>3. QED BY <1>1, <1>2, MobsStep, PTL DEF Spec

-----------------------------------------------------------------------------
(* Contracts *)

\* What ContractKept says of a step.
Honoured ==
    \A m \in Mobs : contract[m] # "none" /\ contract'[m] # contract[m] =>
        \/ contract[m] = "guard" /\ owner[m] \in gone
        \/ contract[m] = "gather4" /\ Count(inv'[owner[m]]) >= Count(inv[owner[m]]) + GatherTarget

\* Every step honours the contracts.
LEMMA ContractStep ==
    ASSUME MobsInv, [Next]_vars
    PROVE  Honoured
  <1> USE DEF MobsInv, Parts
  <1>1. contract \in [Mobs -> {"none", "gather4", "guard"}] BY DEF HerdOK
  <1>2. ASSUME contract' = contract PROVE Honoured BY <1>2 DEF Honoured
  <1>3. ASSUME NEW p \in Players,
               \/ Join(p) \/ Leave(p) \/ CheatGet(p) \/ AddItem(p) \/ Eat(p) \/ HitDrop(p)
               \/ \E g \in Ids : Pickup(p, g)
               \/ \E m \in Mobs : HitMob(p, m)
        PROVE  contract' = contract
    BY <1>3 DEF Join, Leave, CheatGet, AddItem, Eat, HitDrop, Pickup, HitMob, herd
  <1>4. ASSUME NEW p \in Players, NEW m \in Mobs, NEW c \in {"gather4", "guard"},
               AcceptContract(p, m, c)
        PROVE  Honoured
    BY <1>1, <1>4 DEF AcceptContract, Honoured
  <1>5. ASSUME NEW m \in Mobs,
               \/ VisitFlee(m) \/ VisitMove(m) \/ VisitPick(m)
               \/ \E p \in Players : VisitThrow(m, p)
               \/ \E g \in Ids : VisitAim(m, g)
        PROVE  contract' = contract
    BY <1>5 DEF VisitFlee, VisitMove, VisitPick, VisitThrow, VisitAim, herd
  <1>6. ASSUME NEW m \in Mobs, VisitDeliver(m) PROVE Honoured
    <2>1. contract[m] = "gather4" /\ \A n \in Mobs : n # m => contract'[n] = contract[n]
      BY <1>1, <1>6 DEF VisitDeliver, Gathers
    <2>2. owner[m] \in Players BY <1>6 DEF VisitDeliver, PlayersOK
    <2>3. inv'[owner[m]] = [t \in Types |-> inv[owner[m]][t] + bag[m][t]]
      BY <1>6, <2>2 DEF VisitDeliver, PlayersOK
    <2>4. bag[m] \in Goods /\ inv[owner[m]] \in Goods BY <2>2 DEF PlayersOK, HerdOK
    <2>5. Count(bag[m]) >= GatherTarget BY <1>6 DEF VisitDeliver, Full
    <2>6. Count(inv'[owner[m]]) = Count(inv[owner[m]]) + Count(bag[m])
      BY <2>3, <2>4 DEF Count, Goods, Types
    <2>7. Count(inv[owner[m]]) \in Nat /\ Count(bag[m]) \in Nat BY <2>4 DEF Count, Goods, Types
    <2>8. Count(inv'[owner[m]]) >= Count(inv[owner[m]]) + GatherTarget
      BY <2>5, <2>6, <2>7, NumberAssumption
    <2>9. QED BY <2>1, <2>8 DEF Honoured
  <1>7. ASSUME NEW m \in Mobs, VisitRelease(m) PROVE Honoured
    <2>1. owner[m] \in gone BY <1>7 DEF VisitRelease, OwnerOK
    <2>2. QED BY <1>1, <1>7, <2>1 DEF VisitRelease, Honoured
  <1>8. ASSUME TickMobs \/ TickMobsEnd \/ SnapshotMobPositions \/ AdvanceProjectiles
                 \/ ApplyMobHits \/ TickDrops
        PROVE  contract' = contract
    BY <1>8 DEF TickMobs, TickMobsEnd, SnapshotMobPositions, AdvanceProjectiles, ApplyMobHits,
                TickDrops, herd
  <1>9. CASE UNCHANGED vars BY <1>2, <1>9 DEF vars
  <1>10. CASE Next
    BY <1>2, <1>3, <1>4, <1>5, <1>6, <1>7, <1>8, <1>10 DEF Next, TickLoop, TickMob, Handler
  <1>11. QED BY <1>9, <1>10

\* A contract is kept: tryAcceptContract gives a busy pink to nobody else, and
\* only pinkDeliver, with enough for the owner, and tickPinkGuard, when the
\* owner has left, end it.
THEOREM ContractsKept == Spec => ContractKept
  <1>1. MobsInv /\ [Next]_vars =>
          [\A m \in Mobs : contract[m] # "none" /\ contract'[m] # contract[m] =>
             \/ contract[m] = "guard" /\ owner[m] \in gone
             \/ contract[m] = "gather4"
                  /\ Count(inv'[owner[m]]) >= Count(inv[owner[m]]) + GatherTarget]_vars
    BY ContractStep DEF Honoured
  <1>2. QED BY <1>1, MobsInvariant, PTL DEF Spec, ContractKept

-----------------------------------------------------------------------------
(* Where the goods are *)

Spots(t) == {g \in Ids : ground[g] = t}
Lying(t) == Cardinality(Spots(t))
Store(t) == SumFunctionOnSet([p \in Players |-> inv[p][t]], Players)
Bags(t) == SumFunctionOnSet([m \in Mobs |-> bag[m][t]], Mobs)
\* The handlers between handlePickup's two critical sections.
Carriers(t) == {p \in Players : todo[p] = [op |-> "add", arg |-> t]}
Hands(t) == Cardinality(Carriers(t))

\* The hostile mobs that have left their spears.
Robbed == {m \in Mobs \ alive :
              /\ Kind[m] = "hostile" /\ m \notin kills
              /\ \A p \in Players : todo[p] # [op |-> "drop", arg |-> m]}
Hostile == {m \in Mobs : Kind[m] = "hostile"}

\* One thing of kind k, counted among those of kind t; a note of addItem.
One(k, t) == IF k = t THEN 1 ELSE 0
Note(n, t) == IF n = [op |-> "add", arg |-> t] THEN 1 ELSE 0
\* What a hostile mob leaves, and what /get gives, of kind t.
Left(t) == IF t = "spear" THEN HostileDrop ELSE 0
Got(n, t) == IF t = "spear" THEN n ELSE 0

\* What is there and what was used up, less what it comes from.
Balance(t) == Total(t) + spent[t] - Got(given, t) - Left(t) * Cardinality(Robbed)

\* The numbers are integers, the sets finite.
Counted ==
    \A t \in Types :
        /\ Lying(t) \in Int /\ Store(t) \in Int /\ Bags(t) \in Int /\ Hands(t) \in Int
        /\ spent[t] \in Int /\ Got(given, t) \in Int
        /\ Total(t) = Lying(t) + Store(t) + Bags(t) + Hands(t)
        /\ IsFiniteSet(Spots(t)) /\ IsFiniteSet(Carriers(t))
        /\ IsFiniteSet(Robbed) /\ Cardinality(Robbed) \in Int

\* They are, in every state.
LEMMA AlwaysCounted == MobsInv => Counted
  <1> SUFFICES ASSUME MobsInv, NEW t \in Types
               PROVE  /\ Lying(t) \in Int /\ Store(t) \in Int /\ Bags(t) \in Int /\ Hands(t) \in Int
                      /\ spent[t] \in Int /\ Got(given, t) \in Int
                      /\ Total(t) = Lying(t) + Store(t) + Bags(t) + Hands(t)
                      /\ IsFiniteSet(Spots(t)) /\ IsFiniteSet(Carriers(t))
                      /\ IsFiniteSet(Robbed) /\ Cardinality(Robbed) \in Int
    BY DEF Counted
  <1> USE DEF MobsInv, Parts
  <1>1. /\ [p \in Players |-> inv[p][t]] \in [Players -> Int]
        /\ [m \in Mobs |-> bag[m][t]] \in [Mobs -> Int]
    BY DEF PlayersOK, HerdOK, Goods
  <1>2. Store(t) \in Int BY <1>1, FiniteAssumption, SumType DEF Store
  <1>3. Bags(t) \in Int BY <1>1, FiniteAssumption, SumType DEF Bags
  <1>4. IsFiniteSet(Spots(t)) /\ IsFiniteSet(Carriers(t)) /\ IsFiniteSet(Robbed)
    <2>1. Spots(t) \in SUBSET Ids BY DEF Spots
    <2>2. Carriers(t) \in SUBSET Players BY DEF Carriers
    <2>3. Robbed \in SUBSET Mobs BY DEF Robbed
    <2>4. QED BY <2>1, <2>2, <2>3, FiniteAssumption, FS_Subset
  <1>5. Lying(t) \in Int /\ Hands(t) \in Int /\ Cardinality(Robbed) \in Int
    BY <1>4, FS_CardinalityType DEF Lying, Hands
  <1>6. spent[t] \in Int /\ Got(given, t) \in Int BY DEF HistoryOK, Goods, Got
  <1>7. Total(t) = Lying(t) + Store(t) + Bags(t) + Hands(t)
    BY DEF Total, Lying, Spots, Store, Bags, Hands, Carriers
  <1>8. QED BY <1>2, <1>3, <1>4, <1>5, <1>6, <1>7

\* A balance changes by what its parts change by.
LEMMA BalanceMoves ==
    ASSUME MobsInv, MobsInv', NEW t \in Types
    PROVE  /\ Balance(t) \in Int
           /\ Balance(t)' = Balance(t)
             + (Lying(t)' - Lying(t)) + (Store(t)' - Store(t)) + (Bags(t)' - Bags(t))
             + (Hands(t)' - Hands(t)) + (spent'[t] - spent[t])
             - (Got(given', t) - Got(given, t))
             - Left(t) * (Cardinality(Robbed)' - Cardinality(Robbed))
  <1>1. PICK a \in Int, b \in Int, c \in Int, d \in Int, e \in Int, f \in Int, r \in Int :
          /\ a = Lying(t) /\ b = Store(t) /\ c = Bags(t) /\ d = Hands(t)
          /\ e = spent[t] /\ f = Got(given, t) /\ r = Cardinality(Robbed)
          /\ Total(t) = a + b + c + d
    BY AlwaysCounted DEF Counted
  <1>2. PICK aa \in Int, bb \in Int, cc \in Int, dd \in Int, ee \in Int, ff \in Int, rr \in Int :
          /\ aa = Lying(t)' /\ bb = Store(t)' /\ cc = Bags(t)' /\ dd = Hands(t)'
          /\ ee = spent'[t] /\ ff = Got(given', t) /\ rr = Cardinality(Robbed)'
          /\ Total(t)' = aa + bb + cc + dd
    <2>1. Counted' BY AlwaysCounted, PTL
    <2>2. Got(given, t)' = Got(given', t) BY DEF Got
    <2>3. QED BY <2>1, <2>2 DEF Counted
  <1>3. PICK h \in Int : h = Left(t) BY NumberAssumption DEF Left
  <1>4. Balance(t) = a + b + c + d + e - f - h * r BY <1>1, <1>3 DEF Balance
  <1>5. Balance(t)' = aa + bb + cc + dd + ee - ff - h * rr
    <2>1. Balance(t)' = Total(t)' + spent'[t] - Got(given', t) - Left(t) * Cardinality(Robbed)'
      BY DEF Balance, Got, Left
    <2>2. QED BY <1>2, <1>3, <2>1
  <1>6. h * (rr - r) = h * rr - h * r OBVIOUS
  <1>7. PICK x \in Int, y \in Int : x = h * r /\ y = h * rr OBVIOUS
  <1>8. Balance(t)' = Balance(t) + (aa - a) + (bb - b) + (cc - c) + (dd - d) + (ee - e)
                        - (ff - f) - (y - x)
    BY <1>4, <1>5, <1>7
  <1>9. Balance(t) \in Int BY <1>4, <1>7
  <1>10. QED BY <1>1, <1>2, <1>3, <1>6, <1>7, <1>8, <1>9

\* An inventory that is replaced.
LEMMA StoreMoves ==
    ASSUME MobsInv, NEW p \in Players, NEW v \in Goods, inv' = [inv EXCEPT ![p] = v],
           NEW t \in Types
    PROVE  Store(t)' - Store(t) = v[t] - inv[p][t]
  <1> DEFINE f == [q \in Players |-> inv[q][t]]
             h == [q \in Players |-> inv'[q][t]]
  <1>1. f \in [Players -> Int] /\ v[t] \in Int /\ f[p] = inv[p][t]
    BY DEF MobsInv, Parts, PlayersOK, Goods
  <1>2. h = [f EXCEPT ![p] = v[t]] BY DEF MobsInv, Parts, PlayersOK
  <1>3. Store(t) = SumFunctionOnSet(f, Players) /\ Store(t)' = SumFunctionOnSet(h, Players)
    BY DEF Store
  <1> HIDE DEF f, h
  <1>4. SumFunctionOnSet([f EXCEPT ![p] = v[t]], Players)
          = SumFunctionOnSet(f, Players) + (v[t] - f[p])
    BY <1>1, FiniteAssumption, SumUpdate
  <1>5. SumFunctionOnSet(f, Players) \in Int BY <1>1, FiniteAssumption, SumType
  <1>6. PICK a \in Int, b \in Int, c \in Int :
          a = SumFunctionOnSet(f, Players) /\ b = v[t] /\ c = f[p]
    BY <1>1, <1>5
  <1>7. Store(t) = a /\ Store(t)' = a + (b - c) BY <1>2, <1>3, <1>4, <1>6
  <1>8. (a + (b - c)) - a = b - c OBVIOUS
  <1>9. QED BY <1>1, <1>6, <1>7, <1>8

\* A mob's bag that is replaced.
LEMMA BagsMove ==
    ASSUME MobsInv, NEW m \in Mobs, NEW v \in Goods, bag' = [bag EXCEPT ![m] = v],
           NEW t \in Types
    PROVE  Bags(t)' - Bags(t) = v[t] - bag[m][t]
  <1> DEFINE f == [n \in Mobs |-> bag[n][t]]
             h == [n \in Mobs |-> bag'[n][t]]
  <1>1. f \in [Mobs -> Int] /\ v[t] \in Int /\ f[m] = bag[m][t]
    BY DEF MobsInv, Parts, HerdOK, Goods
  <1>2. h = [f EXCEPT ![m] = v[t]] BY DEF MobsInv, Parts, HerdOK
  <1>3. Bags(t) = SumFunctionOnSet(f, Mobs) /\ Bags(t)' = SumFunctionOnSet(h, Mobs)
    BY DEF Bags
  <1> HIDE DEF f, h
  <1>4. SumFunctionOnSet([f EXCEPT ![m] = v[t]], Mobs) = SumFunctionOnSet(f, Mobs) + (v[t] - f[m])
    BY <1>1, FiniteAssumption, SumUpdate
  <1>5. SumFunctionOnSet(f, Mobs) \in Int BY <1>1, FiniteAssumption, SumType
  <1>6. PICK a \in Int, b \in Int, c \in Int :
          a = SumFunctionOnSet(f, Mobs) /\ b = v[t] /\ c = f[m]
    BY <1>1, <1>5
  <1>7. Bags(t) = a /\ Bags(t)' = a + (b - c) BY <1>2, <1>3, <1>4, <1>6
  <1>8. (a + (b - c)) - a = b - c OBVIOUS
  <1>9. QED BY <1>1, <1>6, <1>7, <1>8

\* A handler that takes something into its hands or puts it down.
LEMMA HandsMove ==
    ASSUME MobsInv, NEW p \in Players, NEW n, todo' = [todo EXCEPT ![p] = n], NEW t \in Types
    PROVE  Hands(t)' - Hands(t) = Note(n, t) - Note(todo[p], t)
  <1>1. todo'[p] = n /\ \A q \in Players \ {p} : todo'[q] = todo[q]
    BY DEF MobsInv, Parts, PlayersOK
  <1> DEFINE C == Carriers(t)
             R == C \ {p}
  <1>2. IsFiniteSet(C) BY AlwaysCounted DEF Counted
  <1>3. /\ IsFiniteSet(R) /\ p \notin R
        /\ Cardinality(C) = Cardinality(R) + Note(todo[p], t)
    <2>1. p \in C <=> Note(todo[p], t) = 1 BY DEF Carriers, Note
    <2>2. Note(todo[p], t) \in {0, 1} BY DEF Note
    <2>3. IsFiniteSet(R) /\ Cardinality(R) = IF p \in C THEN Cardinality(C) - 1 ELSE Cardinality(C)
      BY <1>2, FS_RemoveElement
    <2>4. Cardinality(C) \in Nat BY <1>2, FS_CardinalityType
    <2>5. QED BY <2>1, <2>2, <2>3, <2>4
  <1>4. Carriers(t)' = IF Note(n, t) = 1 THEN R \cup {p} ELSE R
    BY <1>1 DEF Carriers, Note
  <1>5. Cardinality(Carriers(t)') = Cardinality(R) + Note(n, t)
    <2>1. Note(n, t) \in {0, 1} BY DEF Note
    <2>2. Cardinality(R \cup {p}) = Cardinality(R) + 1 BY <1>3, FS_AddElement
    <2>3. Cardinality(R) \in Nat BY <1>3, FS_CardinalityType
    <2>4. QED BY <1>4, <2>1, <2>2, <2>3
  <1>6. Hands(t) = Cardinality(C) /\ Hands(t)' = Cardinality(Carriers(t)')
    BY DEF Hands
  <1> HIDE DEF C, R
  <1>7. PICK k \in Nat, a \in Int, b \in Int :
          k = Cardinality(R) /\ a = Note(n, t) /\ b = Note(todo[p], t)
    BY <1>3, FS_CardinalityType DEF Note
  <1>8. (k + a) - (k + b) = a - b OBVIOUS
  <1>9. QED BY <1>3, <1>5, <1>6, <1>7, <1>8

\* A thing that is picked up.
LEMMA LyingTakes ==
    ASSUME MobsInv, NEW g \in Ids, ground' = [ground EXCEPT ![g] = None], NEW t \in Types
    PROVE  Lying(t)' - Lying(t) = -One(ground[g], t)
  <1>1. Spots(t)' = Spots(t) \ {g} BY FreshAssumption DEF Spots, MobsInv, Parts, GroundOK
  <1>2. IsFiniteSet(Spots(t)) BY AlwaysCounted DEF Counted
  <1>3. Cardinality(Spots(t) \ {g})
          = IF g \in Spots(t) THEN Cardinality(Spots(t)) - 1 ELSE Cardinality(Spots(t))
    BY <1>2, FS_RemoveElement
  <1>4. g \in Spots(t) <=> ground[g] = t BY DEF Spots
  <1>5. PICK n \in Nat : n = Cardinality(Spots(t)) BY <1>2, FS_CardinalityType
  <1>6. Lying(t) = n /\ Lying(t)' = IF ground[g] = t THEN n - 1 ELSE n
    BY <1>1, <1>3, <1>4, <1>5 DEF Lying
  <1>7. QED BY <1>6 DEF One

\* What spawnDrops puts on the ground, on new identities.
LEMMA LyingPuts ==
    ASSUME MobsInv, NEW dead \in SUBSET Mobs, SpawnDrops(dead), NEW t \in Types
    PROVE  Lying(t)' - Lying(t) = SumFunctionOnSet([m \in dead |-> DropOf(m)[t]], dead)
  <1>1. PICK spears \in SUBSET Ids, fruits \in SUBSET Ids :
          /\ (spears \cup fruits) \cap used = {} /\ spears \cap fruits = {}
          /\ Cardinality(spears) = SumFunctionOnSet([m \in dead |-> DropOf(m)["spear"]], dead)
          /\ Cardinality(fruits) = SumFunctionOnSet([m \in dead |-> DropOf(m)["fruit"]], dead)
          /\ ground' = [g \in Ids |-> IF g \in spears THEN "spear"
                                      ELSE IF g \in fruits THEN "fruit" ELSE ground[g]]
    BY DEF SpawnDrops
  <1> DEFINE N == IF t = "spear" THEN spears ELSE fruits
  <1>2. t \in {"spear", "fruit"} BY DEF Types
  <1>3. \A g \in spears \cup fruits : g \in Ids /\ ground[g] = None
    BY <1>1 DEF MobsInv, UsedOK
  <1>4. None # t /\ spears \cap fruits = {} BY <1>1, FreshAssumption
  <1>5. Spots(t)' = Spots(t) \cup N BY <1>1, <1>2, <1>3, <1>4 DEF Spots
  <1>6. Spots(t) \cap N = {} BY <1>3, <1>4 DEF Spots
  <1>7. N \in SUBSET Ids /\ Cardinality(N) = SumFunctionOnSet([m \in dead |-> DropOf(m)[t]], dead)
    BY <1>1, <1>2
  <1> HIDE DEF N
  <1>8. IsFiniteSet(N) /\ IsFiniteSet(Spots(t))
    BY <1>7, FiniteAssumption, FS_Subset, AlwaysCounted DEF Counted
  <1>9. PICK n \in Nat, k \in Nat : n = Cardinality(Spots(t)) /\ k = Cardinality(N)
    BY <1>8, FS_CardinalityType
  <1>10. Cardinality(Spots(t) \cup N) = n + k
    <2>1. Cardinality(Spots(t) \cup N)
            = Cardinality(Spots(t)) + Cardinality(N) - Cardinality(Spots(t) \cap N)
      BY <1>8, FS_Union
    <2>2. Cardinality(Spots(t) \cap N) = 0 BY <1>6, FS_EmptySet
    <2>3. QED BY <1>9, <2>1, <2>2
  <1>11. Lying(t) = n /\ Lying(t)' = n + k BY <1>5, <1>9, <1>10 DEF Lying
  <1>12. QED BY <1>7, <1>9, <1>11

\* What spawnDrops adds to the goods: a collector's goods change their place
\* only, a hostile mob's spears are new.
LEMMA DropsMove ==
    ASSUME MobsInv, NEW dead \in SUBSET Mobs, SpawnDrops(dead), NEW t \in Types
    PROVE  (Lying(t)' - Lying(t)) + (Bags(t)' - Bags(t)) = Left(t) * Cardinality(dead \cap Hostile)
  <1> DEFINE f == [m \in dead |-> DropOf(m)[t]]
             w == OnlyOn(f, dead, Mobs)
             c == [m \in dead \cap Hostile |-> Left(t)]
             h == OnlyOn(c, dead \cap Hostile, Mobs)
             e == [m \in Mobs |-> IF m \in dead /\ Kind[m] = "collector" THEN bag[m][t] ELSE 0]
             b == [m \in Mobs |-> bag[m][t]]
             k == [m \in Mobs |-> bag'[m][t]]
  <1>1. bag \in [Mobs -> Goods] /\ Left(t) \in Int /\ t \in {"spear", "fruit"}
    BY NumberAssumption DEF MobsInv, Parts, HerdOK, Left, Types
  <1>2. bag' = [m \in Mobs |-> IF m \in dead /\ Kind[m] = "collector" THEN Zero ELSE bag[m]]
    BY DEF SpawnDrops
  <1>3. \A m \in Mobs : bag[m][t] \in Int /\ Zero[t] = 0 BY <1>1 DEF Goods, Zero
  <1>4. \A m \in dead : DropOf(m)[t] = IF Kind[m] = "hostile" THEN Left(t)
                                       ELSE IF Kind[m] = "collector" THEN bag[m][t] ELSE 0
    BY <1>1, <1>3, KindAssumption DEF DropOf, Left, Zero, Types
  <1>5. f \in [dead -> Int] BY <1>1, <1>3, <1>4
  <1>6. c \in [dead \cap Hostile -> Int] /\ \A m \in dead \cap Hostile : c[m] = Left(t)
    BY <1>1
  <1>7. w \in [Mobs -> Int] /\ h \in [Mobs -> Int] BY <1>5, <1>6 DEF OnlyOn
  <1>8. e \in [Mobs -> Int] /\ b \in [Mobs -> Int] BY <1>3
  <1>9. k \in [Mobs -> Int] BY <1>2, <1>3
  <1>10. \A m \in Mobs : w[m] = h[m] + e[m]
    BY <1>1, <1>3, <1>4 DEF OnlyOn, Hostile
  <1>11. \A m \in Mobs : b[m] = k[m] + e[m] BY <1>2, <1>3
  <1>12. Lying(t)' - Lying(t) = SumFunctionOnSet(f, dead) BY LyingPuts
  <1>13. Bags(t) = SumFunctionOnSet(b, Mobs) /\ Bags(t)' = SumFunctionOnSet(k, Mobs) BY DEF Bags
  <1>14. SumFunctionOnSet(f, dead) = SumFunctionOnSet(w, Mobs) BY <1>5, FiniteAssumption, SumPart
  <1>15. SumFunctionOnSet(h, Mobs) = Left(t) * Cardinality(dead \cap Hostile)
    <2>1. dead \cap Hostile \in SUBSET Mobs OBVIOUS
    <2>2. QED BY <1>1, <1>6, <2>1, FiniteAssumption, SumConstant
  <1> HIDE DEF f, w, c, h, e, b, k
  <1>16. SumFunctionOnSet(w, Mobs) = SumFunctionOnSet(h, Mobs) + SumFunctionOnSet(e, Mobs)
    BY <1>7, <1>8, <1>10, FiniteAssumption, SumAdd
  <1>17. SumFunctionOnSet(b, Mobs) = SumFunctionOnSet(k, Mobs) + SumFunctionOnSet(e, Mobs)
    BY <1>8, <1>9, <1>11, FiniteAssumption, SumAdd
  <1>18. PICK x \in Int, y \in Int, z \in Int :
           x = SumFunctionOnSet(h, Mobs) /\ y = SumFunctionOnSet(e, Mobs)
           /\ z = SumFunctionOnSet(k, Mobs)
    BY <1>7, <1>8, <1>9, FiniteAssumption, SumType
  <1>19. (x + y) + (z - (z + y)) = x OBVIOUS
  <1>20. QED BY <1>12, <1>13, <1>14, <1>15, <1>16, <1>17, <1>18, <1>19

\* Hostile mobs that have been robbed since.
LEMMA RobbedGrows ==
    ASSUME MobsInv, NEW dead \in SUBSET Mobs, Robbed' = Robbed \cup (dead \cap Hostile),
           Robbed \cap dead = {}
    PROVE  /\ Cardinality(dead \cap Hostile) \in Int
           /\ Cardinality(Robbed)' - Cardinality(Robbed) = Cardinality(dead \cap Hostile)
  <1>1. IsFiniteSet(Robbed)
    <2>1. Robbed \in SUBSET Mobs BY DEF Robbed
    <2>2. QED BY <2>1, FiniteAssumption, FS_Subset
  <1>2. IsFiniteSet(dead \cap Hostile)
    <2>1. dead \cap Hostile \in SUBSET Mobs OBVIOUS
    <2>2. QED BY <2>1, FiniteAssumption, FS_Subset
  <1>3. PICK n \in Nat, k \in Nat : n = Cardinality(Robbed) /\ k = Cardinality(dead \cap Hostile)
    BY <1>1, <1>2, FS_CardinalityType
  <1>4. Cardinality(Robbed \cup (dead \cap Hostile)) = n + k
    <2>1. Robbed \cap (dead \cap Hostile) = {} OBVIOUS
    <2>2. Cardinality(Robbed \cup (dead \cap Hostile)) = Cardinality(Robbed)
            + Cardinality(dead \cap Hostile) - Cardinality(Robbed \cap (dead \cap Hostile))
      BY <1>1, <1>2, FS_Union
    <2>3. Cardinality(Robbed \cap (dead \cap Hostile)) = 0 BY <2>1, FS_EmptySet
    <2>4. QED BY <1>3, <2>2, <2>3
  <1>5. QED BY <1>3, <1>4

\* What does not change does not move.
LEMMA Still ==
    ASSUME MobsInv, NEW t \in Types
    PROVE  /\ inv' = inv => Store(t)' - Store(t) = 0
           /\ todo' = todo => Hands(t)' - Hands(t) = 0
           /\ ground' = ground => Lying(t)' - Lying(t) = 0
           /\ bag' = bag => Bags(t)' - Bags(t) = 0
           /\ spent' = spent => spent'[t] - spent[t] = 0
           /\ given' = given => Got(given', t) - Got(given, t) = 0
           /\ Robbed' = Robbed => Cardinality(Robbed)' - Cardinality(Robbed) = 0
           /\ UNCHANGED <<alive, kills, todo>> => Robbed' = Robbed
  <1>1. /\ Store(t) \in Int /\ Hands(t) \in Int /\ Lying(t) \in Int /\ Bags(t) \in Int
        /\ spent[t] \in Int /\ Got(given, t) \in Int /\ Cardinality(Robbed) \in Int
    BY AlwaysCounted DEF Counted
  <1>2. ASSUME inv' = inv PROVE Store(t)' - Store(t) = 0
    <2>1. Store(t)' = Store(t) BY <1>2 DEF Store
    <2>2. QED BY <1>1, <2>1
  <1>3. ASSUME todo' = todo PROVE Hands(t)' - Hands(t) = 0
    <2>1. Hands(t)' = Hands(t) BY <1>3 DEF Hands, Carriers
    <2>2. QED BY <1>1, <2>1
  <1>4. ASSUME ground' = ground PROVE Lying(t)' - Lying(t) = 0
    <2>1. Lying(t)' = Lying(t) BY <1>4 DEF Lying, Spots
    <2>2. QED BY <1>1, <2>1
  <1>5. ASSUME bag' = bag PROVE Bags(t)' - Bags(t) = 0
    <2>1. Bags(t)' = Bags(t) BY <1>5 DEF Bags
    <2>2. QED BY <1>1, <2>1
  <1>6. ASSUME Robbed' = Robbed PROVE Cardinality(Robbed)' - Cardinality(Robbed) = 0
    BY <1>1, <1>6
  <1>7. UNCHANGED <<alive, kills, todo>> => Robbed' = Robbed BY DEF Robbed
  <1>8. ASSUME spent' = spent PROVE spent'[t] - spent[t] = 0 BY <1>1, <1>8
  <1>9. ASSUME given' = given PROVE Got(given', t) - Got(given, t) = 0 BY <1>1, <1>9
  <1>10. QED BY <1>2, <1>3, <1>4, <1>5, <1>6, <1>7, <1>8, <1>9

\* When only drops are made, the balance is kept.
LEMMA DropsSettle ==
    ASSUME MobsInv, MobsInv', NEW t \in Types, NEW r \in Int,
           (Lying(t)' - Lying(t)) + (Bags(t)' - Bags(t)) = Left(t) * r,
           Cardinality(Robbed)' - Cardinality(Robbed) = r,
           Store(t)' - Store(t) = 0, Hands(t)' - Hands(t) = 0, spent'[t] - spent[t] = 0,
           Got(given', t) - Got(given, t) = 0
    PROVE  Balance(t)' = Balance(t)
  <1>1. PICK h \in Int : h = Left(t) BY NumberAssumption DEF Left
  <1>2. PICK x \in Int : x = h * r OBVIOUS
  <1>3. PICK a \in Int, b \in Int : a = Lying(t)' - Lying(t) /\ b = Bags(t)' - Bags(t)
    <2>1. Counted /\ Counted' BY AlwaysCounted, PTL
    <2>2. QED BY <2>1 DEF Counted
  <1>4. a + b = x BY <1>1, <1>2, <1>3
  <1>5. PICK z \in Int : z = Balance(t) BY BalanceMoves
  <1>6. Balance(t)' = z + a + 0 + b + 0 + 0 - 0 - x
    BY <1>1, <1>2, <1>3, <1>5, BalanceMoves
  <1>7. QED BY <1>4, <1>5, <1>6

\* Handlers that touch one player's goods.
LEMMA HandlerBalance ==
    ASSUME MobsInv, MobsInv', NEW p \in Players, NEW t \in Types
    PROVE  Handler(p) => Balance(t)' = Balance(t)
  <1>1. inv[p] \in Goods /\ inv[p][t] \in Int /\ spent \in Goods /\ spent[t] \in Int
    BY DEF MobsInv, Parts, PlayersOK, HistoryOK, Goods
  <1>2. t \in {"spear", "fruit"} /\ "spear" \in Types /\ "fruit" \in Types BY DEF Types
  <1>3. \A k \in Types : One(k, t) \in Int BY DEF One
  <1>4. todo \in [Players -> Todo] BY DEF MobsInv, Parts, PlayersOK
  <1>5. ASSUME Join(p) \/ Leave(p) PROVE Balance(t)' = Balance(t)
    <2>1. UNCHANGED <<ground, inv, bag, todo, spent, given, alive, kills>>
      BY <1>5 DEF Join, Leave, res, herd, ticks
    <2>2. QED BY <2>1, Still, BalanceMoves, NumberAssumption DEF Left
  <1>7. ASSUME CheatGet(p) PROVE Balance(t)' = Balance(t)
    <2> DEFINE v == [inv[p] EXCEPT !["spear"] = @ + 1]
    <2>1. v \in Goods /\ v[t] - inv[p][t] = One("spear", t)
      BY <1>1, <1>2, GoodsTyped DEF Goods, One
    <2>2. inv' = [inv EXCEPT ![p] = v] BY <1>7 DEF CheatGet
    <2> HIDE DEF v
    <2>3. Store(t)' - Store(t) = One("spear", t) BY <2>1, <2>2, StoreMoves
    <2>4. Got(given', t) - Got(given, t) = One("spear", t)
      BY <1>2, <1>7 DEF CheatGet, Got, One, MobsInv, Parts, HistoryOK
    <2>5. UNCHANGED <<ground, bag, todo, spent, alive, kills>>
      BY <1>7 DEF CheatGet, res, herd, ticks
    <2>6. QED BY <1>2, <1>3, <2>3, <2>4, <2>5, Still, BalanceMoves, NumberAssumption DEF Left
  <1>8. ASSUME Eat(p) PROVE Balance(t)' = Balance(t)
    <2> DEFINE v == [inv[p] EXCEPT !["fruit"] = @ - 1]
    <2>1. v \in Goods /\ v[t] - inv[p][t] = -One("fruit", t)
      BY <1>1, <1>2, <1>8, GoodsTyped DEF Goods, One, Eat
    <2>2. inv' = [inv EXCEPT ![p] = v] BY <1>8 DEF Eat
    <2> HIDE DEF v
    <2>3. Store(t)' - Store(t) = -One("fruit", t) BY <2>1, <2>2, StoreMoves
    <2>4. spent'[t] - spent[t] = One("fruit", t) BY <1>1, <1>2, <1>8 DEF Eat, One, Goods
    <2>5. UNCHANGED <<ground, bag, todo, given, alive, kills>>
      BY <1>8 DEF Eat, res, herd, ticks
    <2>6. QED BY <1>2, <1>3, <2>3, <2>4, <2>5, Still, BalanceMoves, NumberAssumption DEF Left
  <1>9. ASSUME NEW g \in Ids, Pickup(p, g) PROVE Balance(t)' = Balance(t)
    <2>1. ground[g] \in Types BY <1>9 DEF Pickup, MobsInv, Parts, GroundOK
    <2>2. Lying(t)' - Lying(t) = -One(ground[g], t) BY <1>9, LyingTakes DEF Pickup
    <2>3. todo' = [todo EXCEPT ![p] = [op |-> "add", arg |-> ground[g]]] /\ todo[p] = Idle
      BY <1>9 DEF Pickup, CanAct
    <2>4. Hands(t)' - Hands(t) = Note([op |-> "add", arg |-> ground[g]], t) - Note(Idle, t)
      BY <2>3, HandsMove
    <2>5. Note([op |-> "add", arg |-> ground[g]], t) = One(ground[g], t) /\ Note(Idle, t) = 0
      BY DEF Note, One, Idle
    <2>6. Robbed' = Robbed
      <3>1. \A m \in Mobs : todo'[p] # [op |-> "drop", arg |-> m] /\ todo[p] # [op |-> "drop", arg |-> m]
        BY <1>4, <2>3 DEF Idle
      <3>2. \A q \in Players \ {p} : todo'[q] = todo[q] BY <1>4, <2>3
      <3>3. alive' = alive /\ kills' = kills BY <1>9 DEF Pickup, herd, ticks
      <3>4. QED BY <3>1, <3>2, <3>3 DEF Robbed
    <2>7. UNCHANGED <<inv, bag, spent, given>> BY <1>9 DEF Pickup, herd
    <2>8. QED BY <1>3, <2>1, <2>2, <2>4, <2>5, <2>6, <2>7, Still, BalanceMoves, NumberAssumption
         DEF Left
  <1>10. ASSUME AddItem(p) PROVE Balance(t)' = Balance(t)
    <2>1. todo[p].arg \in Types /\ todo[p] = [op |-> "add", arg |-> todo[p].arg]
      BY <1>4, <1>10 DEF AddItem, Todo, Idle
    <2> DEFINE k == todo[p].arg
               v == [inv[p] EXCEPT ![k] = @ + 1]
    <2>2. v \in Goods /\ v[t] - inv[p][t] = One(k, t) BY <1>1, <2>1, GoodsTyped DEF Goods, One
    <2>3. inv' = [inv EXCEPT ![p] = v] BY <1>10 DEF AddItem
    <2>4. todo' = [todo EXCEPT ![p] = Idle] BY <1>10 DEF AddItem
    <2> HIDE DEF v
    <2>5. Store(t)' - Store(t) = One(k, t) BY <2>2, <2>3, StoreMoves
    <2>6. Hands(t)' - Hands(t) = Note(Idle, t) - Note(todo[p], t) BY <2>4, HandsMove
    <2>7. Note(Idle, t) = 0 /\ Note(todo[p], t) = One(k, t) BY <2>1 DEF Note, One, Idle
    <2>8. Robbed' = Robbed
      <3>1. \A m \in Mobs : todo'[p] # [op |-> "drop", arg |-> m] /\ todo[p] # [op |-> "drop", arg |-> m]
        BY <1>4, <2>1, <2>4 DEF Idle
      <3>2. \A q \in Players \ {p} : todo'[q] = todo[q] BY <1>4, <2>4
      <3>3. alive' = alive /\ kills' = kills BY <1>10 DEF AddItem, herd, ticks
      <3>4. QED BY <3>1, <3>2, <3>3 DEF Robbed
    <2>9. UNCHANGED <<ground, bag, spent, given>> BY <1>10 DEF AddItem, res, herd
    <2>10. k \in Types BY <2>1
    <2> HIDE DEF k
    <2>11. QED BY <1>3, <2>5, <2>6, <2>7, <2>8, <2>9, <2>10, Still, BalanceMoves, NumberAssumption
         DEF Left
  <1>11. ASSUME NEW m \in Mobs, HitMob(p, m) PROVE Balance(t)' = Balance(t)
    <2> DEFINE v == [inv[p] EXCEPT !["spear"] = @ - 1]
               n == IF hp[m] - 1 <= 0 THEN [op |-> "drop", arg |-> m] ELSE Idle
    <2>1. v \in Goods /\ v[t] - inv[p][t] = -One("spear", t)
      BY <1>1, <1>2, <1>11, GoodsTyped DEF Goods, One, HitMob
    <2>2. inv' = [inv EXCEPT ![p] = v] /\ todo' = [todo EXCEPT ![p] = n] /\ todo[p] = Idle
      BY <1>11 DEF HitMob, CanAct
    <2>3. Note(n, t) = 0 /\ Note(Idle, t) = 0 BY DEF Note, Idle
    <2>4. \A k \in Mobs : todo[p] # [op |-> "drop", arg |-> k] BY <2>2 DEF Idle
    <2>5. /\ alive' = IF hp[m] - 1 <= 0 THEN alive \ {m} ELSE alive
          /\ kills' = kills /\ m \in alive
      BY <1>11 DEF HitMob, ticks
    <2>6. \A q \in Players \ {p} : todo'[q] = todo[q] BY <1>4, <2>2
    <2>7. todo'[p] = n BY <1>4, <2>2
    <2>8. Robbed' = Robbed
      <3>1. CASE hp[m] - 1 <= 0
        <4>1. todo'[p] = [op |-> "drop", arg |-> m] /\ alive' = alive \ {m} BY <2>5, <2>7, <3>1
        <4>2. \A k \in Mobs : [op |-> "drop", arg |-> m] = [op |-> "drop", arg |-> k] <=> k = m
          OBVIOUS
        <4>3. QED BY <2>4, <2>5, <2>6, <4>1, <4>2 DEF Robbed
      <3>2. CASE ~(hp[m] - 1 <= 0)
        <4>1. todo'[p] = Idle /\ alive' = alive BY <2>5, <2>7, <3>2
        <4>2. \A k \in Mobs : todo'[p] # [op |-> "drop", arg |-> k] BY <4>1 DEF Idle
        <4>3. QED BY <2>4, <2>5, <2>6, <4>1, <4>2 DEF Robbed
      <3>3. QED BY <3>1, <3>2
    <2> HIDE DEF v, n
    <2>9. Store(t)' - Store(t) = -One("spear", t) BY <2>1, <2>2, StoreMoves
    <2>10. Hands(t)' - Hands(t) = 0
      <3>1. Hands(t)' - Hands(t) = Note(n, t) - Note(todo[p], t) BY <2>2, HandsMove
      <3>2. QED BY <2>2, <2>3, <3>1
    <2>11. spent'[t] - spent[t] = One("spear", t) BY <1>1, <1>2, <1>11 DEF HitMob, One, Goods
    <2>12. UNCHANGED <<ground, bag, given>> BY <1>11 DEF HitMob, res
    <2>13. QED BY <1>2, <1>3, <2>8, <2>9, <2>10, <2>11, <2>12, Still, BalanceMoves, NumberAssumption
         DEF Left
  <1>12. ASSUME HitDrop(p) PROVE Balance(t)' = Balance(t)
    <2> DEFINE m == todo[p].arg
    <2>1. /\ m \in Mobs /\ m \notin alive \cup kills
          /\ \A q \in Players : todo[q] = [op |-> "drop", arg |-> m] <=> q = p
      BY <1>4, <1>12 DEF HitDrop, Todo, Idle, MobsInv, KillsOK
    <2>2. todo' = [todo EXCEPT ![p] = Idle] /\ SpawnDrops({m}) BY <1>12 DEF HitDrop
    <2>3. todo[p] = [op |-> "drop", arg |-> m] BY <2>1
    <2>4. UNCHANGED <<alive, kills, inv, spent, given>> BY <1>12 DEF HitDrop, ticks
    <2> HIDE DEF m
    <2>5. Hands(t)' - Hands(t) = 0
      <3>1. Note(Idle, t) = 0 /\ Note(todo[p], t) = 0 BY <2>3 DEF Note, Idle
      <3>2. Hands(t)' - Hands(t) = Note(Idle, t) - Note(todo[p], t) BY <2>2, HandsMove
      <3>3. QED BY <3>1, <3>2
    <2>6. Robbed' = Robbed \cup ({m} \cap Hostile) /\ Robbed \cap {m} = {}
      <3>1. \A k \in Mobs : todo'[p] # [op |-> "drop", arg |-> k] BY <1>4, <2>2 DEF Idle
      <3>2. \A k \in Mobs : todo[p] = [op |-> "drop", arg |-> k] <=> k = m BY <2>3
      <3>3. \A q \in Players \ {p} : todo'[q] = todo[q] BY <1>4, <2>2
      <3>4. \A q \in Players \ {p} : todo'[q] # [op |-> "drop", arg |-> m] BY <2>1, <3>3
      <3>5. QED BY <2>1, <2>4, <3>1, <3>2, <3>3, <3>4 DEF Robbed, Hostile
    <2>7. {m} \in SUBSET Mobs BY <2>1
    <2>8. PICK r \in Int : /\ r = Cardinality({m} \cap Hostile)
                           /\ Cardinality(Robbed)' - Cardinality(Robbed) = r
      BY <2>6, <2>7, RobbedGrows
    <2>9. (Lying(t)' - Lying(t)) + (Bags(t)' - Bags(t)) = Left(t) * r
      BY <2>2, <2>7, <2>8, DropsMove
    <2>10. QED BY <2>4, <2>5, <2>8, <2>9, Still, DropsSettle
  <1>13. ASSUME NEW m \in Mobs, NEW c \in {"gather4", "guard"}, AcceptContract(p, m, c)
         PROVE  Balance(t)' = Balance(t)
    <2> DEFINE v == [k \in Types |-> inv[p][k] - Price(c)[k]]
    <2>1. Price(c) \in Goods /\ Price(c)[t] \in Int BY GoodsTyped DEF Goods
    <2>2. v \in Goods /\ v[t] - inv[p][t] = -Price(c)[t]
      BY <1>1, <1>13, <2>1 DEF AcceptContract, Goods
    <2>3. inv' = [inv EXCEPT ![p] = v] BY <1>13 DEF AcceptContract
    <2> HIDE DEF v
    <2>4. Store(t)' - Store(t) = -Price(c)[t] BY <2>2, <2>3, StoreMoves
    <2>5. spent'[t] - spent[t] = Price(c)[t] BY <1>1, <1>13, <2>1 DEF AcceptContract
    <2>6. bag' = bag
      <3>1. m \in alive /\ Kind[m] = "pink" /\ contract[m] # "gather4" BY <1>13 DEF AcceptContract
      <3>2. bag[m] = Zero BY <3>1 DEF MobsInv, PinkOK
      <3>3. QED BY <1>13, <3>2 DEF AcceptContract, MobsInv, Parts, HerdOK
    <2>7. UNCHANGED <<ground, todo, given, alive, kills>> BY <1>13 DEF AcceptContract, res, ticks
    <2>8. QED BY <2>1, <2>4, <2>5, <2>6, <2>7, Still, BalanceMoves, NumberAssumption DEF Left
  <1>14. QED BY <1>5, <1>7, <1>8, <1>9, <1>10, <1>11, <1>12, <1>13 DEF Handler

\* The steps of the tick loop keep every balance.
LEMMA TickBalance ==
    ASSUME MobsInv, MobsInv', NEW t \in Types, TickLoop
    PROVE  Balance(t)' = Balance(t)
  <1>1. t \in {"spear", "fruit"} BY DEF Types
  <1>2. ASSUME UNCHANGED <<ground, inv, bag, todo, spent, given, alive, kills>>
        PROVE  Balance(t)' = Balance(t)
    BY <1>2, Still, BalanceMoves, NumberAssumption DEF Left
  <1>3. ASSUME TickMobs \/ TickMobsEnd \/ SnapshotMobPositions \/ AdvanceProjectiles
        PROVE  Balance(t)' = Balance(t)
    BY <1>2, <1>3 DEF TickMobs, TickMobsEnd, SnapshotMobPositions, AdvanceProjectiles,
                      players, res, herd
  <1>4. ASSUME NEW m \in Mobs,
               \/ VisitFlee(m) \/ VisitMove(m) \/ VisitRelease(m)
               \/ \E p \in Players : VisitThrow(m, p)
               \/ \E g \in Ids : VisitAim(m, g)
        PROVE  Balance(t)' = Balance(t)
    <2>1. UNCHANGED <<ground, inv, bag, todo, spent, given, alive, kills>>
      BY <1>4 DEF VisitFlee, VisitMove, VisitRelease, VisitThrow, VisitAim, players, res, herd
    <2>2. QED BY <1>2, <2>1
  <1>5. ASSUME NEW m \in Mobs, VisitPick(m) PROVE Balance(t)' = Balance(t)
    <2>1. aim \in Ids BY <1>5, FreshAssumption DEF VisitPick, MobsInv, VisitOK
    <2>2. UNCHANGED <<inv, todo, spent, given, alive, kills>> BY <1>5 DEF VisitPick, players
    <2>3. CASE ground[aim] = None
      BY <1>2, <1>5, <2>2, <2>3 DEF VisitPick
    <2>4. CASE ground[aim] # None
      <3> DEFINE k == ground[aim]
                 v == [bag[m] EXCEPT ![k] = @ + 1]
      <3>1. k \in Types BY <2>1, <2>4 DEF MobsInv, Parts, GroundOK
      <3>2. bag[m] \in Goods BY DEF MobsInv, Parts, HerdOK
      <3>3. v \in Goods /\ v[t] - bag[m][t] = One(k, t) BY <3>1, <3>2, GoodsTyped DEF Goods, One
      <3>4. bag' = [bag EXCEPT ![m] = v] /\ ground' = [ground EXCEPT ![aim] = None]
        BY <1>5, <2>4 DEF VisitPick
      <3> HIDE DEF v
      <3>5. Bags(t)' - Bags(t) = One(k, t) BY <3>3, <3>4, BagsMove
      <3>6. Lying(t)' - Lying(t) = -One(k, t) BY <2>1, <3>4, LyingTakes
      <3>7. One(k, t) \in Int BY DEF One
      <3> HIDE DEF k
      <3>8. QED BY <2>2, <3>5, <3>6, <3>7, Still, BalanceMoves, NumberAssumption DEF Left
    <2>5. QED BY <2>3, <2>4
  <1>6. ASSUME NEW m \in Mobs, VisitDeliver(m) PROVE Balance(t)' = Balance(t)
    <2> DEFINE p == owner[m]
               v == [k \in Types |-> inv[p][k] + bag[m][k]]
    <2>1. p \in Players BY <1>6 DEF VisitDeliver, MobsInv, Parts, PlayersOK
    <2>2. bag[m] \in Goods /\ inv[p] \in Goods /\ bag[m][t] \in Int
      BY <2>1 DEF MobsInv, Parts, PlayersOK, HerdOK, Goods
    <2>3. v \in Goods /\ v[t] - inv[p][t] = bag[m][t] BY <2>2 DEF Goods
    <2>4. inv' = [inv EXCEPT ![p] = v] /\ bag' = [bag EXCEPT ![m] = Zero]
      BY <1>6, <2>1 DEF VisitDeliver, MobsInv, Parts, PlayersOK
    <2> HIDE DEF v, p
    <2>5. Store(t)' - Store(t) = bag[m][t] BY <2>1, <2>3, <2>4, StoreMoves
    <2>6. Bags(t)' - Bags(t) = -bag[m][t]
      <3>1. Zero \in Goods /\ Zero[t] = 0 BY GoodsTyped DEF Zero
      <3>2. Bags(t)' - Bags(t) = Zero[t] - bag[m][t] BY <2>4, <3>1, BagsMove
      <3>3. QED BY <2>2, <3>1, <3>2
    <2>7. UNCHANGED <<ground, todo, spent, given, alive, kills>> BY <1>6 DEF VisitDeliver, res
    <2>8. QED BY <2>2, <2>5, <2>6, <2>7, Still, BalanceMoves, NumberAssumption DEF Left
  <1>7. ASSUME ApplyMobHits PROVE Balance(t)' = Balance(t)
    <2>1. /\ UNCHANGED <<ground, inv, bag, todo, spent, given>>
          /\ kills' \subseteq alive /\ alive' = alive \ kills'
      BY <1>7 DEF ApplyMobHits, Victims, players, res
    <2>2. kills = {} BY <1>7 DEF ApplyMobHits, MobsInv, KillsOK
    <2>3. Robbed' = Robbed BY <2>1, <2>2 DEF Robbed
    <2>4. QED BY <2>1, <2>3, Still, BalanceMoves, NumberAssumption DEF Left
  <1>8. ASSUME TickDrops PROVE Balance(t)' = Balance(t)
    <2>1. /\ UNCHANGED <<inv, todo, spent, given, alive>> /\ kills' = {} /\ SpawnDrops(kills)
      BY <1>8 DEF TickDrops, players
    <2>2. kills \in SUBSET Mobs /\ kills \cap alive = {} BY DEF MobsInv, Parts, TickOK, KillsOK
    <2>3. \A k \in kills, q \in Players : todo[q] # [op |-> "drop", arg |-> k]
      <3> SUFFICES ASSUME NEW k \in kills, NEW q \in Players, todo[q] = [op |-> "drop", arg |-> k]
                   PROVE  FALSE
        OBVIOUS
      <3>1. todo[q].op = "drop" /\ todo[q].arg = k OBVIOUS
      <3>2. QED BY <3>1 DEF MobsInv, KillsOK
    <2>4. Robbed' = Robbed \cup (kills \cap Hostile) /\ Robbed \cap kills = {}
      BY <2>1, <2>2, <2>3 DEF Robbed, Hostile
    <2>5. PICK r \in Int : /\ r = Cardinality(kills \cap Hostile)
                           /\ Cardinality(Robbed)' - Cardinality(Robbed) = r
      BY <2>2, <2>4, RobbedGrows
    <2>6. (Lying(t)' - Lying(t)) + (Bags(t)' - Bags(t)) = Left(t) * r
      BY <2>1, <2>2, <2>5, DropsMove
    <2>7. /\ Store(t)' - Store(t) = 0 /\ Hands(t)' - Hands(t) = 0 /\ spent'[t] - spent[t] = 0
          /\ Got(given', t) - Got(given, t) = 0
      BY <2>1, Still
    <2>8. QED BY <2>5, <2>6, <2>7, DropsSettle
  <1>9. QED BY <1>3, <1>4, <1>5, <1>6, <1>7, <1>8 DEF TickLoop, TickMob

\* Both balances are what was there at the start.
Balanced == Balance("fruit") = Cardinality(StartFruit) /\ Balance("spear") = 0

\* Goods are neither duplicated nor lost, for any numbers of players and mobs:
\* handlePickup, tickCollector and pinkPickUpResource take a resource once,
\* applyHitMob and applyMobHits kill a mob once, and spawnDrops leaves what a
\* collector had and what a hostile mob leaves, no more and no less.
THEOREM GoodsAccounted == Spec => []GoodsConserved
  <1>1. Init /\ MobsInv => Balanced
    <2> SUFFICES ASSUME Init, MobsInv PROVE Balanced OBVIOUS
    <2>1. ASSUME NEW t \in Types PROVE Balance(t) = Lying(t)
      <3>1. /\ [p \in Players |-> inv[p][t]] \in [Players -> Int]
            /\ \A y \in Players : [p \in Players |-> inv[p][t]][y] = 0
        BY DEF Init, Zero
      <3>2. Store(t) = 0 BY <3>1, FiniteAssumption, SumZero DEF Store
      <3>3. /\ [m \in Mobs |-> bag[m][t]] \in [Mobs -> Int]
            /\ \A y \in Mobs : [m \in Mobs |-> bag[m][t]][y] = 0
        BY DEF Init, Zero
      <3>4. Bags(t) = 0 BY <3>3, FiniteAssumption, SumZero DEF Bags
      <3>5. Carriers(t) = {} BY DEF Carriers, Init, Idle
      <3>6. Hands(t) = 0 BY <3>5, FS_EmptySet DEF Hands
      <3>7. Robbed = {} BY DEF Init, Robbed
      <3>8. Cardinality(Robbed) = 0 BY <3>7, FS_EmptySet
      <3>9. spent[t] = 0 /\ Got(given, t) = 0 BY DEF Init, Zero, Got
      <3>10. Total(t) = Lying(t) + Store(t) + Bags(t) + Hands(t) /\ Lying(t) \in Int
        BY AlwaysCounted DEF Counted
      <3>11. Left(t) \in Int BY NumberAssumption DEF Left
      <3>12. QED BY <3>2, <3>4, <3>6, <3>8, <3>9, <3>10, <3>11 DEF Balance
    <2>2. Spots("fruit") = StartFruit /\ Spots("spear") = {}
      BY NumberAssumption, FreshAssumption DEF Init, Spots, Types
    <2>3. Lying("fruit") = Cardinality(StartFruit) /\ Lying("spear") = 0
      BY <2>2, FS_EmptySet DEF Lying
    <2>4. QED BY <2>1, <2>3 DEF Balanced, Types
  <1>2. MobsInv /\ MobsInv' /\ Balanced /\ [Next]_vars => Balanced'
    <2> SUFFICES ASSUME MobsInv, MobsInv', Balanced, [Next]_vars PROVE Balanced' OBVIOUS
    <2>1. \A t \in Types : Balance(t)' = Balance(t)
      <3>1. CASE Next BY <3>1, HandlerBalance, TickBalance DEF Next
      <3>2. CASE UNCHANGED vars
        BY <3>2 DEF vars, Balance, Total, Got, Left, Robbed
      <3>3. QED BY <3>1, <3>2
    <2>2. QED BY <2>1 DEF Balanced, Types
  <1>3. MobsInv /\ Balanced => GoodsConserved
    <2> SUFFICES ASSUME MobsInv, Balanced PROVE GoodsConserved OBVIOUS
    <2>1. "fruit" \in Types /\ "spear" \in Types BY DEF Types
    <2>2. ASSUME NEW t \in Types PROVE Total(t) \in Int /\ spent[t] \in Int
      BY AlwaysCounted DEF Counted
    <2>3. Cardinality(Robbed) \in Int BY <2>1, AlwaysCounted DEF Counted
    <2>4. HostileDrop \in Int /\ given \in Int
      BY NumberAssumption DEF MobsInv, Parts, HistoryOK
    <2>5. Balance("fruit") = Total("fruit") + spent["fruit"]
      BY <2>1, <2>2, <2>3 DEF Balance, Got, Left
    <2>6. Balance("spear") = Total("spear") + spent["spear"] - given
                               - HostileDrop * Cardinality(Robbed)
      BY DEF Balance, Got, Left
    <2>7. Total("fruit") + spent["fruit"] = Cardinality(StartFruit) BY <2>5 DEF Balanced
    <2>8. PICK a \in Int, b \in Int, n \in Int :
            /\ a = Total("spear") /\ b = spent["spear"] /\ n = HostileDrop * Cardinality(Robbed)
      BY <2>1, <2>2, <2>3, <2>4
    <2>9. Total("spear") + spent["spear"] = given + HostileDrop * Cardinality(Robbed)
      BY <2>4, <2>6, <2>8 DEF Balanced
    <2>10. QED BY <2>7, <2>9 DEF GoodsConserved, Robbed
  <1>4. QED BY <1>1, <1>2, <1>3, MobsInvariant, PTL DEF Spec

-----------------------------------------------------------------------------
(* Flights and guards *)

\* A projectile in flight keeps its target and grows older with every
\* advanceProjectiles it outlasts, of which its TTL allows so many.
FlightRunsOut ==
    [][\A x \in Projs : target[x] # None /\ target'[x] # None =>
          /\ target'[x] = target[x]
          /\ IF tick = "advance" /\ tick' = "apply"
               THEN age[x] <= TTL /\ age'[x] = age[x] + 1
               ELSE age'[x] = age[x]]_vars

\* The visit of a guard whose owner has left ends its contract.
GuardLetGo ==
    [][\A m \in Mobs :
          tick = "visit" /\ m \in left /\ m \notin left' /\ contract[m] = "guard" /\ owner[m] \in gone
             => contract'[m] = "none" /\ owner'[m] = Nobody]_vars

\* What a step does to the projectiles in flight, unless it advances them.
LaunchedOnly ==
    \A x \in Projs : target[x] # None => target'[x] = target[x] /\ age'[x] = age[x]

\* A launch takes a place that is free.
LEMMA LaunchKeeps ==
    ASSUME FlightOK, NEW v, Launch(v)
    PROVE  LaunchedOnly
  <1>1. PICK x \in Projs : /\ target[x] = None /\ target' = [target EXCEPT ![x] = v]
                           /\ age' = [age EXCEPT ![x] = 0]
    BY DEF Launch
  <1>2. QED BY <1>1 DEF FlightOK, LaunchedOnly

\* No step but AdvanceProjectiles touches a projectile in flight.
LEMMA FlightKept ==
    ASSUME MobsInv, [Next]_vars
    PROVE  LaunchedOnly \/ AdvanceProjectiles
  <1>1. FlightOK BY DEF MobsInv, Parts
  <1>2. UNCHANGED projectiles => LaunchedOnly BY DEF projectiles, LaunchedOnly
  <1>3. ASSUME NEW m \in Mobs, AutoShoot(m) PROVE LaunchedOnly
    <2>1. CASE UNCHANGED projectiles BY <1>2, <2>1
    <2>2. CASE \E v \in {n \in alive : Threat(n)} : Launch(v) BY <1>1, <2>2, LaunchKeeps
    <2>3. QED BY <1>3, <2>1, <2>2 DEF AutoShoot
  <1>4. ASSUME NEW m \in Mobs, TickMob(m) PROVE LaunchedOnly
    <2>1. CASE VisitFlee(m) \/ VisitMove(m) \/ VisitDeliver(m) \/ VisitRelease(m)
      BY <1>3, <2>1 DEF VisitFlee, VisitMove, VisitDeliver, VisitRelease
    <2>2. CASE VisitPick(m) BY <1>2, <2>2 DEF VisitPick
    <2>3. CASE \E p \in Players : VisitThrow(m, p) BY <1>1, <2>3, LaunchKeeps DEF VisitThrow
    <2>4. CASE \E g \in Ids : VisitAim(m, g) BY <1>3, <2>4 DEF VisitAim
    <2>5. QED BY <1>4, <2>1, <2>2, <2>3, <2>4 DEF TickMob
  <1>5. ASSUME NEW p \in Players, Handler(p) PROVE UNCHANGED projectiles
    BY <1>5 DEF Handler, Join, Leave, CheatGet, AddItem, Eat, HitDrop, Pickup, HitMob,
                AcceptContract
  <1>6. ASSUME TickMobs \/ TickMobsEnd \/ SnapshotMobPositions \/ ApplyMobHits \/ TickDrops
        PROVE  UNCHANGED projectiles
    BY <1>6 DEF TickMobs, TickMobsEnd, SnapshotMobPositions, ApplyMobHits, TickDrops
  <1>7. CASE UNCHANGED vars BY <1>2, <1>7 DEF vars, projectiles
  <1>8. QED BY <1>2, <1>4, <1>5, <1>6, <1>7 DEF Next, TickLoop

\* A step that is not AdvanceProjectiles does not leave "advance" for "apply".
LEMMA AdvancesOnly ==
    ASSUME [Next]_vars, tick = "advance", tick' = "apply"
    PROVE  AdvanceProjectiles
  <1>1. ASSUME NEW p \in Players, Handler(p) PROVE FALSE
    BY <1>1 DEF Handler, Join, Leave, CheatGet, AddItem, Eat, HitDrop, Pickup, HitMob,
                AcceptContract, ticks
  <1>2. ASSUME NEW m \in Mobs, TickMob(m) PROVE FALSE
    BY <1>2 DEF TickMob, VisitFlee, VisitMove, VisitPick, VisitDeliver, VisitRelease,
                VisitThrow, VisitAim
  <1>3. ASSUME TickMobs \/ TickMobsEnd \/ SnapshotMobPositions \/ ApplyMobHits \/ TickDrops
        PROVE  FALSE
    BY <1>3 DEF TickMobs, TickMobsEnd, SnapshotMobPositions, ApplyMobHits, TickDrops
  <1>4. ~UNCHANGED vars BY DEF vars
  <1>5. QED BY <1>1, <1>2, <1>3, <1>4 DEF Next, TickLoop

\* No projectile outlives its TTL by more than a tick, whatever becomes of its
\* target and of the places in s.projectiles (advanceProjectiles): the safety
\* half of ProjectilesEnd.
THEOREM FlightsRunOut == Spec => FlightRunsOut
  <1> DEFINE Flight ==
        \A x \in Projs : target[x] # None /\ target'[x] # None =>
            /\ target'[x] = target[x]
            /\ IF tick = "advance" /\ tick' = "apply"
                 THEN age[x] <= TTL /\ age'[x] = age[x] + 1
                 ELSE age'[x] = age[x]
  <1>1. ASSUME MobsInv, [Next]_vars PROVE Flight
    <2>1. CASE AdvanceProjectiles
      <3>1. PICK striking \in SUBSET {x \in Flying \ Expired : target[x] \in online \cup seen} :
              /\ target' = [x \in Projs |-> IF x \in striking \cup Expired THEN None ELSE target[x]]
              /\ age' = [x \in Projs |-> IF x \in striking \cup Expired \/ target[x] = None
                                           THEN 0 ELSE Older(age[x])]
        BY <2>1 DEF AdvanceProjectiles
      <3>2. tick = "advance" /\ tick' = "apply" BY <2>1 DEF AdvanceProjectiles
      <3>3. ASSUME NEW x \in Projs, target[x] # None, target'[x] # None
            PROVE  target'[x] = target[x] /\ age[x] <= TTL /\ age'[x] = age[x] + 1
        <4>1. x \notin striking \cup Expired BY <3>1, <3>3
        <4>2. target'[x] = target[x] /\ age'[x] = Older(age[x]) BY <3>1, <3>3, <4>1
        <4>3. age[x] \in 0..TTL + 1 /\ ~(age[x] > TTL)
          BY <1>1, <3>3, <4>1 DEF MobsInv, Parts, FlightOK, Expired, Flying
        <4>4. QED BY <4>2, <4>3, NumberAssumption DEF Older
      <3>4. QED BY <3>2, <3>3
    <2>2. CASE LaunchedOnly /\ ~AdvanceProjectiles
      BY <1>1, <2>2, AdvancesOnly DEF LaunchedOnly
    <2>3. QED BY <1>1, <2>1, <2>2, FlightKept
  <1>2. MobsInv /\ [Next]_vars => [Flight]_vars BY <1>1
  <1>3. QED BY <1>2, MobsInvariant, PTL DEF Spec, FlightRunsOut

\* Only pinks are guards and only collectors are angered, and nobody is at once
\* online and gone.
GuardInv ==
    /\ \A m \in Mobs : contract[m] = "guard" => Kind[m] = "pink"
    /\ \A m \in angered : Kind[m] = "collector"
    /\ online \cap gone = {}

\* Every step keeps GuardInv.
LEMMA GuardStep ==
    ASSUME MobsInv, GuardInv, [Next]_vars
    PROVE  GuardInv'
  <1> USE DEF GuardInv
  <1>0. contract \in [Mobs -> {"none", "gather4", "guard"}] BY DEF MobsInv, Parts, HerdOK
  <1>1. ASSUME UNCHANGED <<contract, angered, online, gone>> PROVE GuardInv' BY <1>1
  <1>2. ASSUME NEW p \in Players,
               Join(p) \/ Leave(p)
        PROVE  GuardInv'
    BY <1>2 DEF Join, Leave, herd
  <1>3. ASSUME NEW p \in Players,
               \/ CheatGet(p) \/ AddItem(p) \/ Eat(p) \/ HitDrop(p)
               \/ \E g \in Ids : Pickup(p, g)
        PROVE  UNCHANGED <<contract, angered, online, gone>>
    BY <1>3 DEF CheatGet, AddItem, Eat, HitDrop, Pickup, herd
  <1>4. ASSUME NEW p \in Players, NEW m \in Mobs, HitMob(p, m) PROVE GuardInv'
    BY <1>4 DEF HitMob
  <1>5. ASSUME NEW p \in Players, NEW m \in Mobs, NEW c \in {"gather4", "guard"},
               AcceptContract(p, m, c)
        PROVE  GuardInv'
    BY <1>0, <1>5 DEF AcceptContract
  <1>6. ASSUME NEW m \in Mobs,
               \/ VisitFlee(m) \/ VisitMove(m) \/ VisitPick(m)
               \/ \E p \in Players : VisitThrow(m, p)
               \/ \E g \in Ids : VisitAim(m, g)
        PROVE  UNCHANGED <<contract, angered, online, gone>>
    BY <1>6 DEF VisitFlee, VisitMove, VisitPick, VisitThrow, VisitAim, herd, players
  <1>7. ASSUME NEW m \in Mobs, VisitDeliver(m) \/ VisitRelease(m) PROVE GuardInv'
    BY <1>0, <1>7 DEF VisitDeliver, VisitRelease, players
  <1>8. ASSUME TickMobs \/ TickMobsEnd \/ SnapshotMobPositions \/ AdvanceProjectiles
                 \/ ApplyMobHits \/ TickDrops
        PROVE  UNCHANGED <<contract, angered, online, gone>>
    BY <1>8 DEF TickMobs, TickMobsEnd, SnapshotMobPositions, AdvanceProjectiles, ApplyMobHits,
                TickDrops, herd, players
  <1>9. CASE UNCHANGED vars BY <1>1, <1>9 DEF vars
  <1>10. CASE Next
    BY <1>1, <1>2, <1>3, <1>4, <1>5, <1>6, <1>7, <1>8, <1>10 DEF Next, TickLoop, TickMob, Handler
  <1>11. QED BY <1>9, <1>10

\* A guard whose owner has left is free after its next visit by tickMobs
\* (tickPinkGuard): the safety half of GuardReleased.
THEOREM GuardsLetGo == Spec => GuardLetGo
  <1> DEFINE LetGo(m) ==
        tick = "visit" /\ m \in left /\ m \notin left' /\ contract[m] = "guard" /\ owner[m] \in gone
           => contract'[m] = "none" /\ owner'[m] = Nobody
  <1>1. Init => GuardInv BY DEF Init, GuardInv
  <1>2. ASSUME MobsInv, GuardInv, [Next]_vars, NEW m \in Mobs PROVE LetGo(m)
    <2> SUFFICES ASSUME tick = "visit", m \in left, m \notin left', contract[m] = "guard",
                        owner[m] \in gone
                 PROVE  contract'[m] = "none" /\ owner'[m] = Nobody
      OBVIOUS
    <2>1. Kind[m] = "pink" /\ m \notin angered /\ owner[m] \notin online BY <1>2 DEF GuardInv
    <2>2. ASSUME NEW n \in Mobs, TickMob(n) PROVE n = m
      BY <2>2 DEF TickMob, VisitFlee, VisitMove, VisitPick, VisitDeliver, VisitRelease,
                  VisitThrow, VisitAim, Visit
    <2>3. ASSUME NEW p \in Players, Handler(p) PROVE FALSE
      BY <2>3 DEF Handler, Join, Leave, CheatGet, AddItem, Eat, HitDrop, Pickup, HitMob,
                  AcceptContract, ticks
    <2>4. ASSUME TickMobs \/ TickMobsEnd \/ SnapshotMobPositions \/ AdvanceProjectiles
                   \/ ApplyMobHits \/ TickDrops
          PROVE  FALSE
      BY <2>4 DEF TickMobs, TickMobsEnd, SnapshotMobPositions, AdvanceProjectiles, ApplyMobHits,
                  TickDrops
    <2>5. ~UNCHANGED vars BY DEF vars
    <2>6. TickMob(m) BY <1>2, <2>2, <2>3, <2>4, <2>5 DEF Next, TickLoop
    <2>7. VisitRelease(m)
      <3>1. ~VisitFlee(m) /\ ~VisitMove(m) /\ ~VisitPick(m) /\ ~VisitDeliver(m)
        BY <2>1 DEF VisitFlee, VisitMove, VisitPick, VisitDeliver, Gathers
      <3>2. ASSUME NEW p \in Players, VisitThrow(m, p) PROVE FALSE
        BY <2>1, <3>2 DEF VisitThrow, Threat
      <3>3. ASSUME NEW g \in Ids, VisitAim(m, g) PROVE FALSE
        BY <2>1, <3>3 DEF VisitAim, Gathers
      <3>4. QED BY <2>6, <3>1, <3>2, <3>3 DEF TickMob
    <2>8. QED BY <1>2, <2>7 DEF VisitRelease, MobsInv, Parts, HerdOK
  <1>3. MobsInv /\ GuardInv /\ [Next]_vars => [\A m \in Mobs : LetGo(m)]_vars BY <1>2
  <1>4. MobsInv /\ GuardInv /\ [Next]_vars => GuardInv' BY GuardStep
  <1>5. QED BY <1>1, <1>3, <1>4, MobsInvariant, PTL DEF Spec, GuardLetGo

=============================================================================
