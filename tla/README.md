# LODEEN: TLA+ specifications

LODEEN is a multiplayer world game written in Go: an authoritative TCP server
with a tick loop, and a client with a raylib interface. This directory holds
TLA+ modules that model the parts of it that run concurrently or hand state over
from one frame to the next, TLC models that check them on small instances, and
TLAPS proofs of every safety property that the passing runs check.

    tlc -workers 2 -config MCSessions.cfg MCSessions     # one run
    tlapm SessionsProofs.tla                             # one set of proofs

`PROJECT.json` lists the components, the runs, the source lines of every
definition (`map`), a mutant for every checked property, the findings, the
hazards and the theorems. Names are those of the Go code wherever TLA+ allows it.
Paths below are relative to `src/internal`.

## 1. The system

### Processes and shared state

| process | code | what it shares |
|---|---|---|
| accept loop | `server/net/server.go` | listener, `Server.done`, `Server.wg` |
| `handleConn`, one per connection: handshake, register, `readLoop`, unregister | `server/net/server_conn.go` | `Server.clients`, the stores, its own `Client` |
| `writeLoop`, one per connection | `server/net/server_conn.go` | the bounded queue `Client.send`, `Client.done` |
| tick loop | `server/net/server_tick.go` | everything: it runs hunger, mammoths, boats, mobs, projectiles, breeding, resources, energy, world, rockets and the broadcast, in this order |
| `Stop` | `server/net/server.go` | `Server.done`, the listener, every registered socket |
| client interface (one goroutine) | `client/app` | `Client.status`, `conn`, `done`, `ownHP`, `teleportCh` |
| client `readLoop`, `pingLoop`, state loop, one of each per session | `client/net/client.go` | the same, `conn` and `done` without the mutex |
| proxy handler and its relay, one pair per browser | `server/ws/proxy.go` | the two sockets and a channel `done` with room for one value |

Every message of a client is handled by its own `readLoop`, so the handlers of
one player are sequential and those of different players are concurrent with
each other and with the tick loop. Each kind of object lives in a store, a map
behind its own RWMutex; inventory, HP and hunger of a player are behind `c.mu`.
A handler usually takes one lock, releases it and takes the next: **each
critical section is one atomic step of a module**, and what a handler still has
to do after it is kept in a variable (`todo`, `task`, `at`).

### Inventory

| component | state | operations | what is hard | what makes it correct | module |
|---|---|---|---|---|---|
| server lifecycle, sessions | registry, gauge, queues, sockets, `done` channels | accept, hello, welcome, register, read, write, broadcast, unregister, Stop | five kinds of goroutine, failure at every stage, full queues | nothing is left of a dead connection; the greeting comes first; the tick never waits; Stop is clean | `Sessions` |
| mammoths, boats | herd, riders, leashes, saddles, fed counters | tame, feed, leash, saddle, ride, kill, breed, enter, exit | several locks per handler, riders who vanish | one mount per rider, saddles and births accounted for, departed players forgotten | `Mounts` |
| energy | batteries, panels, factories | place, craft, charge | check and payment in different critical sections; rounding | energy and materials are paid once, batteries fill | `Energy` |
| mobs, contracts, projectiles | mobs, bags, contracts, projectiles | visits, contracts, throws, hits, drops | the tick and players reach for the same goods and kill the same mob | goods conserved, contracts kept or ended, projectiles end | `Mobs` |
| farming, wells, crafting, hunting, houses | resources on the ground, inventories | plant, water, grow, draw, craft, throw, hit, pick up, eat, place, toggle | a resource is copied, looked at, paid for and written back in three sections | fruit, water and spears accounted for; watered seeds grow | `Harvest` |
| rockets | owner, thrust, tank, zone, orbit flag | place, board, exit, input, tick | fixed-point fuel through refills, cheats and changes of pilot | the fuel account closes; a rocket without a pilot rests | `Rockets` |
| client connection, screens | status, conn, done, loops, own HP, screen | Connect, Disconnect, Close, read, ping, teleport, death, respawn, pause | unsynchronised `conn` and `done`, sessions that overlap | Disconnect returns, no stale snapshot, a loss is noticed | `ClientConn` |
| snapshot collection | none | copy the stores for the broadcast | the copies are of different moments | each object is in one of its states | only its broadcast, in `Sessions` |
| client screens, windows, seats | mode, open windows, cursor, `ridingID`, `boatID`, `rocketID` | the helpers of `updatePlaying` in their order, menus, death, respawn; ride, enter, board, exit | every order of keys in and between frames; a cursor flag that most windows go past; seats taken before the server agrees | a frame of flight has a locked cursor and no window; the server holds no seat the client does not know | `PlayScreen` |
| client body and flight | `Pos`, `RelPos`, `RelInit`, `HelioInit`, locks and freezes | fly, walk, fall, lock, freeze, switch, teleport, board | two frames of reference, and Earth moves in every frame | a player on foot stays where he was on Earth, and a flyer under an open window | `Body` |
| client slots and hand | `invSlots`, `selectedSlot`, `lastSentHeld`, the server's `heldItem` | sync, wheel, drag, select | the stock is replaced by another goroutine at any time | no item twice, the slots show the stock, both sides agree on the hand | `Hotbar` |
| protocol, stores, world, configuration, metrics | data types, maps, two orbits | encode, lock, integrate | - | - | not modelled (section 7) |
| web socket proxy | handler, relay, two sockets, `done` | upgrade, dial, carry both ways, tell, close | each goroutine sees only the loss it runs into | the request unwinds whichever end is lost | `WsProxy` |
| client view of Earth | snapshot buffer, render clock | read, push, advance, interpolate | lost snapshots, torn reads, tick numbers that go backwards | Earth never goes back and is drawn where it was | `EarthView` |
| client interpolation of players | states with arrival times | interpolate | - | - | not modelled |
| client rendering, orbit map, navigation ball, text of menus and windows | - | - | - | - | not modelled |

## 2. The modules

| module | model | proofs | composes / abstracts |
|---|---|---|---|
| `Sessions` | `MCSessions` | `SessionsProofs` | a frame is `welcome`, `inventory` or `news`, which stands for snapshots and all replies; the world is a set of rockets with owners |
| `Mounts` | `MCMounts`, `MCWorks` | `MountsProofs` | distances are a free choice: a handler may always find its target too far |
| `Energy` | `MCEnergy`, `MCWorks` | `EnergyProofs` | positions are a distance table; hunger may eat at any tick |
| `Mobs` | `MCMobs` | `MobsProofs` | movement, cooldowns and distances are free choices |
| `Harvest` | `MCFields` | `HarvestProofs` | mobs are an environment that takes and drops goods (`MobTakes`, `MobDrops`); time matters for throws and hits only |
| `Rockets` | `MCFields` | `RocketsProofs` | the flight is a walk between zones (ground, air, high orbit, deep space, the Sun's surface) |
| `EarthView` | `MCClient` | `ClientProofs` | the orbit is a number of steps; the server is a source of ticks that may start again |
| `Lobby` | | `SessionsProofs` | the promise of `Sessions` to a player; implemented by it through `Service` |
| `WsProxy` | `MCClient` | `ClientProofs` | a message is sent or not; browser and game server may go at any time |
| `PlayScreen` | `MCClient` | `ClientProofs` | what is near or in sight is a free choice; the server's side of a seat is its answer |
| `Body` | `MCClient` | `ClientProofs` | space is a line, arithmetic is exact, a step of the player is a place |
| `Hotbar` | `MCClient` | `ClientProofs` | an item is there or not; Go's map order is any order |
| `ClientConn` | `MCClientConn`, `MCClient` | `ClientProofs` | the server is `PeerCloses` and what the reader may receive; HP is none or some |

The modules of the server share the tick loop and the inventories only. Where
the tick does something to state that a module owns, that phase is an action of
the module, in the order of the loop; a phase of another component that touches
the state is an environment action (eating in `Energy`, mobs in `Harvest`).

Each module starts with its constants and named assumptions, its variables with
the Go field each stands for, then the actions in the order of the code, `Next`,
`Spec`, `FairSpec`, and the properties. A definition whose comment begins with
"Mutant:" is not part of the specification: it is a broken variant of the
definition below it, and `PROJECT.json` names the property that refutes it.

### Sessions

`conn[c]` is where the goroutine of a connection is, from `handshake` through
`register`, `adding`, `counting` and `reading`, then the stages of the clean-up
(`closing`, `deleting`, `uncounting`, `releasing`), to `hangup`, `joining`, `gone`. The registry
update and the gauge update are separate steps, as in the code. `queue` is
`Client.send`: `sendEnvelope` drops when it is full and the broadcast does too
(`TickBroadcast`), while `writeLoop` may take a frame, fail, or see a closed
`done`. `sock = "broken"` is a peer that has gone; a peer that merely does not
read is a writer that takes no step. `Stop` closes `done`, the listener and the
sockets of the registry in three steps, then waits for the wait group
(`Working`) or its timeout. `sent` is a history of the first `Kept` frames.

### Mounts

A handler that releases `s.mammoths` and goes on is two steps joined by `task`:
taming (mark, then pay, roll back if unpaid) and unsaddling (take off, then
add). The tick takes the list of players first (`TickCollect`, `seen`) and
uses it under the lock later (`TickMammoths`), so a player may come or go in
between. `fedTotal` and `births` are histories.

### Energy

`tryCraftFactory` keeps `c.mu` (`locked`) from its check to its payment, and takes
`s.batteries` in between; the tick eats under the same lock, `addItem` delivers.
`EnergyPerPanel` is the integer arithmetic of `tickEnergy`. The histories
`charged`, `crafted` and `supply` feed the two ledgers.

### Mobs

`tickMobs` holds `s.mobs` for its whole pass (`TickMobs`, one `TickMob` step per
mob, `TickMobsEnd`) and takes the other locks inside it; a mob that looks for a
resource under RLock and picks it up under Lock does so in two steps (`cur`,
`aim`), between which a player may have taken it. `tickProjectiles` is four
critical sections: positions of the mobs, the advance (which defers the hits on
mobs), the application of the hits, the drops. A kill and its drop are separate
steps of a player's handler too. A dead collector leaves its bag and a hostile
mob its spears; what a pink has gathered stays in the bag of the dead mob, where
nobody reaches it.

### Harvest

`handleWaterPlant` looks at the seed, pays the water and writes the seed back in
three steps; `handleThrowSpear` takes the spear, then looks at the cooldown and
gives it back. Ages of the last throw and the last hit are counted up to the
first value from which nothing changes (`Old`). Houses, wells, base recipes,
pickup, `/get`, `/allinv` and `/clearinv` are single steps or two steps, as the locks say.

### Rockets

`Thrust` is what it burns in a tick, in fractions of a fuel unit (`Unit` of them
make one); `fuelAccum` is `accum`. `handleRocketInput` writes the thrust, refills
and switches infinite fuel as the code does. `TickRockets` is the whole pass: it
holds `s.rockets` throughout. A handler that looks for "the rocket of this
player" takes any of his rockets, because Go's map order is not defined.

### ClientConn

Sessions are numbered by the dial; `conn` and `done` hold such a number or 0 for
nil. The loops of a session read `conn` and `done` each time anew, as the code
does: a step of a late loop may see those of the next session. A read of a nil
connection, a second close of a channel and a teleport without a flight
controller set `panic`, after which nothing happens; TLC reaches all three.

### EarthView

A frame reads position and tick of the latest snapshot under two locks
(`ReadEarth`, `DrawEarth`), so a snapshot may come in between; the rest of
`updateEarthHistory` is local to the interface goroutine and one step: push,
initialise and advance `renderTick`, find the two entries, interpolate. Positions
are numbers of steps on the orbit (the server integrates with a fixed step and
begins at the same place), the drawn one an exact fraction. The zero vector of a
client without a snapshot is a place of its own (`Origin`). A negative span
of ticks wraps around in the code and makes the fraction vanish.

### Lobby, and how Sessions implements it

`Lobby` says what a player gets, without goroutines or queues: he knocks, is
served or refused, leaves and is gone, once and in this order; hears `welcome`,
then his inventory, then news, and nothing before he is served or after he is gone;
pilots rockets only while he is served and has given them all back when he is
gone; and the server closes (`over`) only when nobody is inside. In `Sessions`,
`Service` maps the stage of a goroutine to a phase (served as long as the client is in
the registry), `owner` to `pilot`, `sent` to `heard` and a clean Stop to `over`.
`ServesPlayers` is `Service!Spec`, safety only: that a dead connection does get to
the end is `DeadConnForgotten`. `GoneIsGone` and `WelcomeFirst`, which the proofs use,
state two of its consequences at the level of sockets and queues.

### WsProxy

The handler looks for a signal of the relay, reads from the browser and writes to
the game server; the relay does the reverse and puts a value into `done` when it
ends. `HandlerReturn` is the pair of deferred closes. A handler that waits in
`ReadMessage` does not see `done`: it returns only because the page sends a ping
every second and because a write to a socket whose peer is gone fails in the end.

### PlayScreen

One frame of the game is the helpers of `updatePlaying` in their order, a step
each (`step`), with the set of keys that went down in the frame; a helper that
consumes the frame goes on to `draw`, where buttons take clicks. Menu, pause and death
screen are one step per frame. `captured` is the flag of `setCursorCaptured` and
`cursor` what raylib was told last: chat, pause and flight use the flag, the other
windows go past it. A frame of a pilot ends in `updateRocketMode`, before any helper
that reads the key of a window: he boards with none open, and M, which the hints of the
cockpit offer, is read by nobody. `MouseLook` leaves the map out in the cockpit, and
`CockpitMap`, what the hints say, is a finding. Seat messages travel on `wire` and the
server answers each by giving the seat or not (`ServeRide`, `ServeBoat`, `ServeBoard`, `ServeExit` with the
code's order of getting off and on). No key goes down in a window without focus.

### Body

`body` is the part of the flight controller that says where the player is: `pos`
in the frame of the Sun, `rel` in that of Earth, which of them counts, and whether
the body has been brought to the frame of the Sun (`helio`). A frame is one step:
Earth moves, a teleport may be taken from the queue, a rocket, a window or the body's own
mode moves it, and the frame ends in flight, in a window, without focus, at a
rocket or in the pause menu. On foot `syncFlightBodies` computes `pos` anew from
`rel`; in flight it adds `EarthVel*dt` to it, which is not how far the drawn Earth has
moved when that stalls at the end of its buffer or jumps. `Carries` leaves the sum
open, so a flyer drifts in the model as in the code.

`place` is a history: where on Earth the player ought to be. On foot it changes
with a step, a fall or a teleport only. Nothing in the code holds a flyer to a place,
so each frame takes his as it finds it, unless something has promised it: a
window (`flightLockedRelPos`), a lost focus (`unfocusRelPos`), F1, and the comment on
`updatePausePhysics`, which says that the pause ties the player to Earth. The first three
keep it (`PlaceKept`, which for a flyer looks at the frame of flight that closes a
window); the pause does not, because `TickPhysicsOnly` returns at once in creative
mode (`PauseTies`, a finding). In a pause a flyer's `place` stays what it was.

A body just put down by `New` or `handleTeleport` has Earth coordinates in `pos`
until its first frame of flight; a window, F1, a rocket or the drift of a flyer
before that displaces it. `spoilt` records it, and `PlaceKept` is about the other
behaviours.

### Hotbar

A frame repairs the slots against the stock (`SyncInvSlots`), turns the wheel and sends
`SelectItem` if the hand has changed, or ends with a drop in the open inventory. The
stock is replaced by the reader between any two of these. `told` is a history:
`lastSentHeld` outlives a session, so a new one may send nothing.

### MCClient

The six parts of the client run share no variable: a step of one is a stutter of
the others. `Only` lets one part move while the others are where they began, so the
run is the union of six state spaces instead of their product, and beyond `Scene` (section 3) nothing that any
part can do is lost.

### MCWorks, MCFields

`MCWorks` runs `Energy` and `Mounts`, `MCFields` runs `Harvest` and `Rockets`, in the
same way: the two share no variable, `part` says which of them a behaviour follows, and the
other stays where it begins. The fairness of each is that of its own specification, for its
part.

## 3. The runs

States and times are those of two workers.

| run | instance | states | what it shows |
|---|---|---|---|
| `sessions` | two connections, one rocket, queues of two | 384 000, 190 s | three invariants, that the lobby is implemented, that a dead connection is cleaned up to the end, and that the tick loop goes on |
| `sessions_stop` | the same | *violation* | a connection in its handshake when `Stop` makes its pass stays open |
| `works` | two players, a panel, two batteries, a factory, 5 ticks/s; or two players, a pair of mammoths, one unborn, a boat | 276 000, 130 s | the two ledgers, covered crafts, batteries fill; one mount, and that one saddled; saddles, births, departed players |
| `mounts_tame` | two players, two mammoths | *violation* | a taming that is rolled back leaves a wild mammoth leashed, saddled or ridden |
| `energy_rate` | the same at the default 20 ticks/s | *violation* | no battery is ever charged |
| `mobs_contract` | two players, a collector, a pink, three fruits | 298 000, 66 s | goods, contracts |
| `mobs_combat` | a player, a hostile mob, a pink, two projectiles | 115 000, 37 s | goods through kills from two goroutines; guards are released; projectiles end |
| `fields` | two players, six places on the ground, one mammoth; or two players, two rockets, tanks of two units | 115 000, 90 s | fruit, water and spear ledgers, hits per throw, watered seeds grow; the fuel account, debts included; rockets without a pilot rest |
| `client` | two sessions, one sending loop each; a buffer of three, four ticks, two servers; one browser; a mammoth, a boat, two rockets, two keys a frame; three places of Earth; two items, three slots | 183 000, 120 s | Disconnect returns and leaves nothing running, no stale snapshot or HP, a loss is noticed; Earth goes forward, is drawn in place, and recovers from a restart; the proxy unwinds; cursor, windows and seats; the body keeps its place; slots and hand |
| `client_retry` | one session | *violation* | a failed handshake leaves the client in `connecting` for ever |
| `client_cockpit` | the screens and seats of `client` | *violation* | M does nothing in the cockpit |
| `client_pause` | the body of `client` | *violation* | a flyer is left behind in the pause |

### Bounds, and why they are enough

* Every hazard needs two actors on one object (two connections, two players over
  one mammoth, seed, battery or rocket; a player and the tick loop; one session
  and the next). The instances have exactly those, and every limit is reached:
  queues overflow, batteries and tanks are full and empty, identities of
  resources and projectiles run out.
* Some instances are cut by a `CONSTRAINT`, each a union of scenes that
  matter: in `MCSessions` nothing reaches the second peer, and with two peers
  `Stop` comes before anything has reached the first, while one connection alone
  takes every turn (the safety properties are proved without the scene); in
  `MCWorks` either one player breeds a herd or uses the boat, or two, of whom one joins
  first and alone has the saddle, meet over one tamed mammoth and the boat; in `MCFields`
  two players farm one fruit, or one hunts and builds, or uses up two things of
  `/allinv`, and two rockets stay near the ground, or one flies anywhere, and one
  player alone cheats; in `MCClient`
  seats change while no window is open or windows while nobody sits on an animal or
  in a boat, teleports are queued in the first session only (nothing but
  `HandleTeleport` reads the queue), and a spoilt body is not followed. Liveness is checked for the
  behaviours that stay within the scene.
* `MaxGiven`, `MaxFed`, `MaxFruit`, `MaxDrawn`, `MaxRefills`, `MaxSessions`, `MaxTick`,
  `MaxRuns`, `MaxGap`, `WireCap`, `SelectCap`, `LastEarth`, `LastPlace` and `Kept`
  bound what the program leaves unbounded: they count what comes into the game,
  and limit only how often the same step repeats.
* `MaxKeys` is two: every interplay of keys in `updatePlaying` is between one that
  opens or closes and one that is read later. Two items and three slots, two of
  them on the wheel, let an item leave the wheel and one more come. `FirstEarth` is
  far from every place, so that adding or missing it once shows. `Carries` is nothing or
  one step of Earth, as often as the flyer likes, so a drift of any length below
  `LastPlace` is reached.
* Symmetry is used in `mobs_contract` and `mounts_tame` only, which check no
  liveness.
* Deadlock is not checked in `sessions` (the server stops), `fields` (the
  bounds end the day) and `client` (the program quits or panics). In the other
  passing runs it is: the tick loop never stops there.

### Fairness, and why the code justifies it

Goroutines that can run are scheduled, so steps that wait for nothing, or for a
mutex that is held briefly, are weakly fair.

* `Sessions`: the steps of `handleConn` that do not wait for the peer, the hello
  (it has a deadline), a read on a dead socket; a writer that sees its closed
  `done`; the tick loop; the accept loop's exit; the steps of `Stop`. **Nothing
  is assumed of a writer whose peer does not read**, nor of clients.
* `Mounts`, `Mobs`, `Rockets`: only the tick loop. `Harvest`: the tick of the
  resources, and that time passes. `Energy`: the tick, and that a handler that has
  begun runs to its end, because the tick waits for `c.mu`.
* `ClientConn`: the steps of the goroutines, of Connect after the handshake and of
  Disconnect. The end of a sending loop is strongly fair: its `select` chooses at
  random between a ticker and the closed `done`, and so takes `done` in the end.
  Nothing is assumed of the server or of the user.
* `WsProxy`: both goroutines run; a read returns as long as the peer is there,
  because the page pings once a second (`server/web/static/client.js`) and the
  server broadcasts at every tick; a write to a lost browser fails in the end (strong
  fairness of `WriteToBrowserFail`, since single writes may still be buffered).
  Nothing is assumed of the peers leaving.
* `EarthView`, `PlayScreen`, `Body` and `Hotbar` have safety properties only.

### Mutants

Every property of a passing run has a mutant: a dropped guard, lock or reset
(`CraftCheckUnlocked`, `WaterSetStale`, `ReleaseRocketsNot`), a blocking send
(`TickBroadcastBlocking`), a full queue that drops the oldest message (`PushNewest`), a
window that leaves the body to itself (`UILockedNot`), a channel without a buffer
(`RoomForSignalNot`), a roll-back or release that is missing (`VisitReleaseNot`), under
which TLC finds the property violated.

## 4. Findings

Each is a run that TLC refutes, against a line of the repository.

* **Stop leaves a late connection open** (`sessions_stop`, `StopClosesAllConns`).
  `server/net/server.go:126` says that Stop closes all client connections. It closes
  those in the registry; a connection still in `performHelloHandshake` registers
  after the pass, and its `readLoop` does not look at `s.done`. Stop then
  returns with its timeout. When Stop returns nil, on the other hand, everything
  is at rest (`CleanStop`, proved).
* **A rolled-back taming leaks** (`mounts_tame`, `WildIsFree`).
  `handleTameMammoth` marks the mammoth before it takes the fruit; what others do
  in between (leash, saddle, ride) survives the roll-back of line 34.
* **Panels never charge at the default tick rate** (`energy_rate`, `PanelsCharge`).
  `int(5*dt*100)/100` is 0 above five ticks per second, although the comment of
  `energy.go:235` wants fractions to add up. At five ticks per second the same
  property holds (`works`).
* **A failed handshake ends reconnecting** (`client_retry`, `CanReconnect`). Only a
  failed dial resets the status; after any later error `Connect` answers
  "already connected" until the program restarts.
* **The cockpit has no map** (`client_cockpit`, `CockpitMap`). `navball.go:340` shows the
  pilot "M map", and `rocket.go:171` tells the mouse of an open map from that of a closed
  one. But `updatePlaying` returns at line 16 for a pilot, before
  `updateOrbitMapOverlay` (line 33), the only reader of M.
* **The pause leaves a flyer behind** (`client_pause`, `PauseTies`). `update.go:214`
  says that the pause ties the player rigidly to Earth. On foot it does (`PlaceKept`,
  proved); `TickPhysicsOnly` returns at once in creative mode, and Earth leaves without him.

The hazards of `PROJECT.json` without a property name further behaviour that the
models show and that no text of the repository settles: `Disconnect` and
`readLoop` may close the same channel twice, or `readLoop` may read from a nil
connection; a queued teleport reaches a nil flight controller; a writer that
failed leaves its client registered; a first snapshot between the two reads of a
frame draws Earth at the origin for a moment; a gather contract of a departed owner
never ends; `InOrbit` stays set on a landed rocket; the item in the hand and a
mount that the client believes in outlive the session; a window, F1 or a rocket
that meets a body before its first frame of flight displaces it by Earth's
distance; `respawn` hides the cursor even when it could not connect. Smaller
ones are only modelled: a player can board a second rocket, or mount a mammoth from a boat;
`tickMammoths` may put off a rider who joined after the list of players was taken.

## 5. Proofs

Every safety property of a passing run is a theorem of the module's `Spec`, for every
value of the constants that the module's assumptions allow, and without the scenes and
most of the bounds of section 3 (a bound that is a guard of the model stays, as a
parameter). The assumptions say that finite things are finite, that a marker such as
`Nobody` or `None` is none of the things it marks, and what range a number of the code
has; TLC evaluates them in the runs.

Of a liveness property the prover cannot see fairness. What it can see is the safety half:
that the state in which somebody waits is one in which the awaited step is possible or has
happened, or that each step of the fair action makes the progress and no other step undoes
it. Those halves are theorems too, for every instance, where there is something to say
(second table).

| module | theorem | property |
|---|---|---|
| `SessionsProofs` | `GaugeCorrect` | `GaugeTracksRegistry`: the gauge equals the registry outside the two update windows |
| | `GreetingFirst` | `WelcomeFirst`: Welcome and the inventory are the first two frames on a socket |
| | `RocketsReleased` | `NoOrphanRocket` |
| | `ConnsCleaned` | `GoneIsGone`: a finished `handleConn` leaves no socket, writer or registry entry |
| | `StopIsClean` | `CleanStop` |
| | `SessionsServePlayers` | `ServesPlayers`: `Sessions` implements `Lobby` |
| `EnergyProofs` | `EnergyTyped`, `CraftsCovered` | `TypeOK`, `CraftCovered` |
| | `EnergyAccounted`, `MaterialsAccounted` | `EnergyLedger`, `MaterialsLedger` |
| `MountsProofs` | `MountsOneEach` | `OneMount` |
| | `SaddlesAccounted`, `BirthsAccounted` | `SaddlesConserved`, `BirthsPaid` |
| `RocketsProofs` | `RocketsTyped`, `FuelAccounted` | `RocketsTypeOK`, `FuelLedger` |
| `HarvestProofs` | `HarvestTyped`, `HitsBounded` | types, `HitsPerThrow` |
| | `FruitAccounted`, `SpearsAccounted`, `WaterAccounted` | `FruitLedger`, `SpearLedger`, `WaterLedger` |
| `MobsProofs` | `MobsInvariant` | types, and what half-done visits and kills owe |
| | `GoodsAccounted`, `ContractsKept` | `GoodsConserved`, `ContractKept` |
| `ClientProofs` | `ConnectionInvariant`, `ClientQuiet` | types, `QuietAfterDisconnect` |
| | `SnapshotsForward`, `RespawnsFresh` | `NoStaleSnapshot`, `RespawnIsFresh` |
| | `MouseLooks`, `SeatsAgree` | `MouseLook`, `SeatAgrees` |
| | `BodyStaysPlaced` | `PlaceKept` |
| | `SlotsShown` | `SlotsMatch` |
| | `EarthNeverBack`, `EarthPlaced`, `RestartsRecovered` | `EarthForward`, `EarthInPlace`, `RestartRecovers` |

Theorems that say more than the property of a run:

| module | theorem | what it says |
|---|---|---|
| `SessionsProofs` | `WaitsEnd` | for `DeadConnForgotten`: `handleConn` joins only a writer that has ended or finds `done` and the socket closed; `Stop` waits only after its `done` and the listener are closed |
| `MountsProofs` | `DepartedLose` | for `DepartedForgotten`: who has left gets nothing back, and each phase of a tick that did not see him takes him off |
| `MobsProofs` | `FlightsRunOut` | for `ProjectilesEnd`: a flight keeps its target and grows older with every advance, up to its TTL |
| | `GuardsLetGo` | for `GuardReleased`: the next visit frees a guard whose owner has left |
| `HarvestProofs` | `SeedsNotForgotten` | for `WateredGrows`: a wet seed stays wet and a ripe one ripe until it grows or is carried off, and one tick takes all the ripe ones |
| `RocketsProofs` | `FreeRestAtOnce` | for `FreeRests`: one tick brings a rocket without a pilot to rest, and only a new pilot moves it |
| `ClientProofs` | `WaitsReleased` | for `DisconnectReturns`: when Disconnect waits, readers read closed sockets and sending loops find `done` closed |
| | `LossesHeard` | for `LossNoticed`: while connected, the session's own `readLoop` reads the session's own socket |
| | `ProxyCanUnwind` | for `ProxyUnwinds`: the relay's farewell finds room, and neither goroutine waits for the other in vain |
| `EnergyProofs` | `NothingCharges` | the finding of `energy_rate` for every layout: above 5 ticks a second, and the default is 20, no battery is ever charged and no recipe that costs energy is ever crafted |

Almost none of the properties is inductive. What each proof adds, and why:

### Sessions

Assumptions: `ConnsFinite`, `NoOwnerFresh`, `SendBufAssumption` (registration queues two
messages before the writer runs; the code's buffer is far larger) and
`KeptAssumption` for the history. `IndInv` is the conjunction of `TypeOK`,
`NoOrphanRocket`, `WelcomeFirst` and four strengthenings:

* `StageInv` ties registry, socket and writer to the stage of the goroutine:
  without it a step of `unregisterClient` could find an entry that is not there;
* `GaugeInv` counts the connections in the *counted* stages, so that the gauge is
  exact in the windows as well, and never negative;
* `GreetInv` says that until the greeting is on the wire it is at the head of the
  queue, because a broadcast only appends and drops only the new frame;
* `StopInv` says that after a clean Stop no goroutine is left to start another.

Each part has its lemma, one case per action. `SessionsServePlayers` goes through the
actions once more: each is a step of `Lobby` (knock, serve, refuse, speak, board, leave,
close) or leaves phase, pilots and what was heard alone (`Unseen`); the invariant gives
the guards of the lobby's steps. `WaitsEnd` adds `ToldInv`: which stages of `handleConn`
and of `Stop` come after the signal that they wait for.

### Sums (`SumTheorems`)

The ledgers are sums over finite sets (`SumFunctionOnSet`). `SumTheorems` proves what
they need, once: a sum over a set is the element taken out plus the rest (`SumAdd`,
whichever element that is), and how a sum follows a change of the function at one
point or by a constant (`SumUpdate`, `SumShift`, `SumPart`, `SumConstant`). The induction
schemes of the library take an operator as a parameter; these proofs use `WFMin`
instead, which says that a non-empty set of counterexamples has a minimal element, for
the sizes of sets and for their subsets.

### Energy, Mounts, Rockets, Harvest, Mobs

* `Energy`: `LockHeld`: `c.mu` is held exactly while a craft is between its check and its
  end, so the tick, which needs the lock to eat, cannot take what was checked. With
  that the payment takes exactly what it should, which the ledgers need: an inventory
  that stops at zero would hide a shortage.
* `Mounts`: `GrownSaddled`, because `handleRideMammoth` asks for the saddle only.
  `SaddleCounts` joins inventories, mammoths and hands; a step moves one saddle.
* `Rockets`: the ledger is inductive with the types. What needs care is `Consume`: no
  unit or one is taken, never one that the tank does not have.
* `Harvest`: `TodoOK` (what a half-done handler holds fits what it will do), `HitInv`
  (between two hits at least `Debounce` has passed) and `WaterInv`, which counts the
  handlers that have paid and not yet written the seed back: this is the window in
  which a second player may come. The ledgers are balances of which each action moves
  two parts by the same amount (`GoodsBalance`, `FieldBalance`, `TickBalance`,
  `HuntBalance`).
* `Mobs`: `VisitOK` (the mob that reaches for a resource is alive and gathers), `KillsOK`
  (a mob is killed by one handler or by the tick, and whoever killed it owes the drop
  alone), `PinkOK` (a free pink has nothing, so a new contract destroys nothing),
  `OwnerOK` and `UsedOK`. `GoodsConserved` then is a balance as in `Harvest`.

Two attempts at proofs failed for good reasons and corrected the models. In `Harvest`
the two drops of a mammoth could be given one identity in some instances. In `Mobs`
the goods of a killed pink were lost from the count: `spawnDrops` drops nothing for
pinks, and now they stay in the bag of the dead mob, and the run kills a pink that
carries something.

### The client

* `ClientConn`: `ReaderInv` (at most one reader may still read, that of the last session
  dialled, and it reads that session's socket), `StageInv` and `ModeInv` (what each stage
  of Connect and Disconnect and each screen know of status, `conn` and `done`) and
  `LifeInv` (in a life after a death, an HP of the session before is not zero). All are
  claims as long as nothing has panicked.
* `PlayScreen`: `StepInv` says what each helper of `updatePlaying` knows because the ones
  before it let the frame go on; `CursorInv` that a cursor that is free while the flag
  says captured is the work of a window that is still open; `CockpitInv` what can be open
  over a pilot. The seats need the
  messages on the wire: the last one about mammoths or boats decides what is given in the
  end, and between two boardings there is an exit.
* `Body`: `PlaceInv`: on foot `RelPos` is the place, or `Pos` as long as the body is in
  the frame of Earth; what an open window has locked is the place. In flight nothing says
  where the place is: `Pos` drifts from it by any amount (`SyncPlaces`, which holds on foot
  only), so what a flyer gets back when a window closes is the lock, not the
  sum of the frames in between.
* `Hotbar`: the slots are distinct, and `lastSentHeld` is the last message on its way or,
  when there is none, what the server has.
* The end of a session: `EndInv`, on top of the invariant of the connection. While the
  status is connected the last `readLoop` reads (`HeardInv`); once `conn` is taken away the
  socket under a reader is closed (`ShutInv`); Disconnect has taken the `done` that the
  loops look at, and has closed it by the time it waits (`TornInv`).
* `WsProxy`: `ProxyStages` says that only the relay's own farewell is ever in `done`, which is
  why its room for one value is enough, and that the sockets are open while the handler
  needs them and closed when it has returned.
* `EarthView`: `ViewInv` says that the buffer is in the order of servers and, within one,
  of ticks (`InOrder`); that positions and ticks alternate, because a position that was
  read before its tick is at least as new as the entry before it (`InPlace`, `ReadInv`);
  that the clock is where `advanceRenderTick` leaves it (`ClockInv`); and that Earth is
  drawn from the buffer and, on the first server, not beyond what was received
  (`DrawnInv`). Since the clock does not go back and positions grow, two frames are
  either on one segment or have an entry between them (`ForwardStep`); that Earth is in
  place is the convexity of a mean (`SegmentForm`, `SegmentBounds`). After a restart the
  newest two entries are enough for the clock to find a segment in the right order
  (`ClockSegment`).

### What is only model-checked

* Liveness, because fairness and ENABLED are outside the prover: `DeadConnForgotten`,
  `TickGoesOn`, `DepartedForgotten`, `PanelsCharge`, `GuardReleased`, `ProjectilesEnd`,
  `WateredGrows`, `FreeRests`, `DisconnectReturns`, `LossNoticed`, `ProxyUnwinds`. The
  safety half of each is a theorem (above), except for `TickGoesOn` and `PanelsCharge`:
  in these the step that makes the progress is itself the property, or rests on the
  sum of what a tick charges being positive, which is a matter of the rate.
* The six violations, which are behaviours.

## 6. Plan

The safety properties are proved, and the safety half of most liveness properties. What would say more about the system:

1. In `Sessions`, that the sockets, writers and wait group of a stopped server are what
   `StopClosesAllConns` would need: a theorem that says exactly which connections survive.
2. `Lobby` for several servers in a row, so that `EarthView`'s restarts and `ClientConn`'s
   sessions meet it.

Models that could still be added: the interpolation of players
(`InterpolatedSnapshot`), whose states carry arrival times; the order of inventory
updates that are taken under `c.mu` and queued after it; snapshot collection as a
cut that is not atomic.

## 7. Not modelled

* Floating point: orbits, flight, drag, collisions, hunger. Modules leave their
  outcome open (distances, zones, whether somebody eats).
* Encoding: JSON envelopes and length-prefixed frames. A failed read or write is
  an action; the size limit of a frame is not modelled.
* The stores and locks as objects: a critical section is a step. The order in
  which nested locks are taken is not checked.
* Rendering, fonts, the text and layout of menus and windows, chat text, orbit map,
  navigation ball, configuration, metrics other than the gauge, logging,
  deployment, the load test: output, or values of one goroutine that nothing else
  depends on.
* Directions and the terrain under the body, and velocities, of which the one of Earth is left
  open (`Carries`); the interpolation of other
  players.
* Teleports on the server and positions of players there.
