-------------------------------- MODULE Body --------------------------------
(***************************************************************************)
(* Where the client puts the player's body while Earth moves under it.     *)
(* The body has two coordinates: Pos, in the frame of the Sun, and RelPos, *)
(* in the frame of Earth.  On foot (survival) RelPos counts and Pos        *)
(* follows; in flight (creative) Pos counts, and Earth's velocity carries  *)
(* it along, which need not be how far the drawn Earth has moved.          *)
(* Windows, pauses, a lost focus, teleports, rockets and the F1 key hand   *)
(* over from one to the other.  Space is a line, arithmetic is exact.      *)
(***************************************************************************)
EXTENDS Integers

CONSTANTS
    Spawn, Landing, Pad,   \* places on Earth: SpawnFromID, a teleport's, a rocket's
    Loose,                 \* no place: of a flag that is not set
    FirstEarth,            \* where Earth is in the first snapshot; 0: not known yet
    LastEarth, LastPlace   \* bounds: how far Earth and a player on it come

ASSUME BodyAssumption ==
    /\ {Spawn, Landing, Pad, FirstEarth, LastEarth, LastPlace} \subseteq Nat
    /\ FirstEarth > 0 /\ Loose \notin Int

VARIABLES
    body,      \* FlightController: [pos, rel, relInit, helio, creative, attached]
    earth,     \* world.earthPos
    window,    \* what is open: "none", "dialog" (or the chat), "bag" (inventory or
               \* crafting), "map", "mapbag" (the map over a bag)
    lock,      \* flightLockedRelPos; Loose: not flightLocked
    freeze,    \* unfocusRelPos; Loose: not unfocusFreeze
    activity,  \* "playing", "paused", "piloting"
    place,     \* history: where on Earth the player ought to be; nobody promises it
               \* to a flyer until a window, a pause or F1 takes his place
    flown,     \* the last frame ended in updateFlightPhysics
    spoilt     \* history: a switch of frames met a body between two frames

bodyVars == <<body, earth, window, lock, freeze, activity, place, flown, spoilt>>

\* input.New.
NewBody ==
    [pos |-> Spawn, rel |-> 0, relInit |-> FALSE, helio |-> FALSE,
     creative |-> FALSE, attached |-> "none"]

BodyInit ==
    /\ body = NewBody /\ earth = 0 /\ window = "none" /\ lock = Loose /\ freeze = Loose
    /\ activity = "playing" /\ place = Spawn /\ flown = FALSE /\ spoilt = FALSE

-----------------------------------------------------------------------------
(* The helpers of a frame; e is where Earth is in this frame *)

\* anyUI of applyUILock: the map alone is not one.
AnyUI == window \in {"dialog", "bag", "mapbag"}

\* The Earth of the next frame: the first snapshot, or a step of its orbit.
EarthMoves ==
    IF earth = 0 THEN {0, FirstEarth} ELSE {earth, earth + 1} \cap (0..LastEarth)

\* handleTeleport.
Teleported(b, tp) ==
    IF tp THEN [b EXCEPT !.pos = Landing, !.relInit = FALSE, !.helio = FALSE] ELSE b

\* EarthVel * dt.  The drawn Earth stands still at the end of the buffer and jumps
\* with it, and position and velocity are two reads: v is left open.
Carries == 0..1

\* syncFlightBodies, SyncToEarthFrame: on foot Pos is computed anew, in flight it
\* is added up.
Synced(b, e, v) ==
    IF ~b.creative
      THEN IF b.relInit THEN [b EXCEPT !.pos = e + b.rel] ELSE b
      ELSE IF b.attached = "earth" THEN [b EXCEPT !.pos = @ + v] ELSE b

\* applyUILock: the place is taken once, and kept as long as a window is open.
LockedAt(b, e) == IF lock = Loose THEN b.pos - e ELSE lock

\* Mutant: an open window leaves the body to itself.
UILockedNot(b, e) == b

UILocked(b, e) ==
    [b EXCEPT !.pos = e + LockedAt(b, e), !.rel = LockedAt(b, e),
              !.relInit = @ \/ lock = Loose]

\* SwitchMode: from the frame of the Sun to that of Earth, or back.
Switched(b, e) ==
    IF b.creative
      THEN [b EXCEPT !.rel = b.pos - e, !.relInit = TRUE, !.creative = FALSE]
      ELSE [b EXCEPT !.pos = IF b.relInit THEN e + b.rel ELSE @, !.creative = TRUE,
                     !.attached = IF @ = "none" THEN "earth" ELSE @]

\* updateFlightPhysics: the body is brought to the frame of the Sun as soon as
\* Earth is known.
HelioInit(b, e) ==
    IF ~b.helio /\ e # 0 THEN [b EXCEPT !.pos = @ + e, !.helio = TRUE] ELSE b

\* updateCreative: w is how far one goes.
Flies(b, w) == [b EXCEPT !.pos = @ + w]

\* updateSurvival with initRelIfNeeded.
Walks(b, e, w) ==
    LET r == w + IF b.relInit THEN b.rel ELSE b.pos - e
    IN  [b EXCEPT !.rel = r, !.relInit = TRUE, !.pos = e + r]

\* TickPhysicsOnly: w is how far one falls.
Falls(b, e, w) == [b EXCEPT !.rel = @ + w, !.pos = e + b.rel + w]

\* FlightController.Update: R goes through the bodies to be attached to.
Attach(b) ==
    [b EXCEPT !.attached = CASE b.attached = "none" -> "earth"
                             [] b.attached = "earth" -> "sun"
                             [] b.attached = "sun" -> "none"]

\* syncPlayerToRocket.
AtRocket(b, e) == [b EXCEPT !.pos = e + Pad, !.helio = TRUE]

-----------------------------------------------------------------------------
(* Frames *)

\* On foot the place stays; a flyer's is where this frame has carried him.
PlaceOf(b, e, p) == IF b.creative THEN b.pos - e ELSE p

\* The part of a playing frame that comes before the windows: b is the body as
\* syncFlightBodies leaves it.
Begun(b, e) == IF AnyUI THEN UILocked(b, e) ELSE b
LockAfter(b, e) == IF AnyUI THEN LockedAt(b, e) ELSE Loose

\* How a playing frame can end, for the body b and its place p.
EndFlying(b, e, p) ==
    \E w \in 0..1, r \in BOOLEAN :
       /\ p + w <= LastPlace
       /\ LET h == HelioInit(b, e)
              c == IF h.creative THEN Flies(h, w) ELSE Walks(h, e, w)
          IN  /\ body' = IF r /\ c.creative THEN Attach(c) ELSE c
              /\ place' = p + w
       /\ freeze' = Loose /\ window' = "none" /\ activity' = "playing" /\ flown' = TRUE

\* What can be open at the end of a frame that a window has consumed.
Windows ==
    CASE window = "none"   -> {"map", "bag", "dialog"}
      [] window = "map"    -> {"map", "bag", "dialog"}
      [] window = "bag"    -> {"bag", "none", "mapbag", "dialog"}
      [] window = "mapbag" -> {"mapbag", "bag", "none", "dialog"}
      [] window = "dialog" -> {"dialog", "none"}

EndInWindow(b, p) ==
    /\ window' \in Windows
    /\ body' = b /\ place' = p /\ UNCHANGED freeze
    /\ activity' = "playing" /\ flown' = FALSE

\* updateUnfocusFreeze.  The freeze is lifted by a frame of flight only; a flyer
\* is put back where it began.
EndUnfocused(b, e, p) ==
    /\ window = "none"
    /\ IF b.helio
         THEN /\ freeze' = IF freeze = Loose THEN b.pos - e ELSE freeze
              /\ body' = [b EXCEPT !.pos = e + freeze']
              /\ place' = IF b.creative THEN freeze' ELSE p
         ELSE body' = b /\ place' = p /\ UNCHANGED freeze
    /\ window' = "none" /\ activity' = "playing" /\ flown' = FALSE

\* A click on a rocket, which is in the snapshots as Earth is, or Esc.
EndAway(b, e, p) ==
    /\ activity' \in {"paused"} \cup IF e # 0 THEN {"piloting"} ELSE {}
    /\ body' = b /\ place' = p /\ window' = "none"
    /\ UNCHANGED freeze /\ flown' = FALSE

\* A frame of the game for the body b, which has been synced: f1 is the key, which
\* neither a dialog nor the map lets through; keys is FALSE if no key is down.  A
\* window keeps the frame from the flight unless its own key has just closed it.
GameFrame(b, e, p, f1, keys) ==
    LET c == Begun(b, e)
        d == IF f1 THEN Switched(c, e) ELSE c
        q == IF AnyUI /\ lock # Loose THEN p ELSE PlaceOf(c, e, p)
    IN  /\ q <= LastPlace /\ lock' = LockAfter(b, e)
        /\ \/ window # "dialog" /\ EndFlying(d, e, q)
           \/ EndInWindow(d, q) /\ (f1 => window # "dialog" /\ window' \notin {"map", "mapbag"})
           \/ ~keys /\ EndUnfocused(d, e, q)
           \/ window # "dialog" /\ EndAway(d, e, q)

\* A body that New or handleTeleport has just put down is in the frame of Earth
\* until a frame of flight: a lock, a switch, a rocket or the drift of an
\* attached flyer takes it for one in the frame of the Sun.
Spoils(b, f1) == ~b.helio /\ (AnyUI \/ f1 \/ b.creative \/ activity = "piloting")

BodyPlaying ==
    /\ activity = "playing"
    /\ \E e \in EarthMoves, v \in Carries, tp, f1 \in BOOLEAN :
         LET b == Teleported(body, tp)
         IN  /\ earth' = e
             /\ GameFrame(Synced(b, e, v), e, IF tp THEN Landing ELSE place, f1, f1)
             /\ spoilt' = (spoilt \/ Spoils(b, f1))

\* updateRocketMode: the frame that leaves the rocket goes on.  On foot a pilot
\* who gets out is back where he boarded, in flight where the rocket is.
BodyPiloting ==
    /\ activity = "piloting"
    /\ \E e \in EarthMoves, v \in Carries, tp \in BOOLEAN :
         LET b == Teleported(body, tp)
             c == AtRocket(b, e)
         IN  /\ earth' = e /\ spoilt' = (spoilt \/ Spoils(b, FALSE))
             /\ \/ /\ body' = c /\ flown' = FALSE
                   /\ UNCHANGED <<window, lock, freeze, activity, place>>
                \/ GameFrame(Synced(c, e, v), e, place, FALSE, TRUE)

\* updatePausePhysics and TickPhysicsOnly: on foot the body falls and goes with
\* Earth, in flight nothing moves it.  exitPause changes velocities only.
BodyPaused ==
    /\ activity = "paused"
    /\ \E e \in EarthMoves, tp \in BOOLEAN, w \in 0..1 :
         LET b == Teleported(body, tp)
             p == IF tp THEN Landing ELSE place
             falls == b.helio /\ ~b.creative /\ b.relInit
         IN  /\ earth' = e /\ p + w <= LastPlace
             /\ IF falls THEN body' = Falls(b, e, w) /\ place' = p + w
                ELSE body' = b /\ place' = p
    /\ activity' \in {"paused", "playing"} /\ flown' = FALSE
    /\ UNCHANGED <<window, lock, freeze, spoilt>>

\* disconnect from the pause screen, and startConnect.
BodyRejoins ==
    /\ activity = "paused" /\ activity' = "playing"
    /\ body' = NewBody /\ place' = Spawn /\ flown' = FALSE /\ spoilt' = FALSE
    /\ UNCHANGED <<earth, window, lock, freeze>>

BodyNext == BodyPlaying \/ BodyPiloting \/ BodyPaused \/ BodyRejoins

BodySpec == BodyInit /\ [][BodyNext]_bodyVars

-----------------------------------------------------------------------------
(* Properties *)

\* Earth leaves nobody behind who is on foot: after a frame of flight, and in the
\* pause, the body is where the player ought to be, Earth's motion since added
\* exactly once, whatever windows, losses of focus, flights, rockets and teleports
\* came between.  A flyer has that for as long as a window is open: he is where
\* it took his place, up to the frame that closes it (applyUILock).
PlaceKept ==
    ~spoilt =>
        /\ flown /\ (body.creative => lock # Loose) => body.pos = earth + place
        /\ activity = "paused" /\ body.helio /\ ~body.creative => body.pos = earth + place

\* The comment on updatePausePhysics: the pause ties the player to Earth rigidly,
\* by his coordinates relative to it.
PauseTies == activity = "paused" /\ body.helio /\ ~spoilt => body.pos = earth + place

=============================================================================
