----------------------------- MODULE PlayScreen -----------------------------
(***************************************************************************)
(* The frames of the application: the four screens, the windows that open  *)
(* over the game, the mouse cursor they share, and the seats (mammoth,     *)
(* boat, rocket) that the client takes before the server has agreed.       *)
(* A frame of the game runs the helpers of updatePlaying in order; a       *)
(* helper that consumes the frame keeps the later ones from running.  The  *)
(* server handles the seat messages of the wire between any two helpers.   *)
(***************************************************************************)
EXTENDS Sequences, FiniteSets, Naturals

CONSTANTS
    Mammoths, Boats, Rockets,   \* what the player finds near
    None,                       \* the empty id
    MaxKeys,                    \* bound: keys pressed in one frame
    WireCap                     \* bound: seat messages on their way

ASSUME ScreenAssumption ==
    None \notin Mammoths \cup Boats \cup Rockets /\ MaxKeys \in Nat /\ WireCap \in Nat

PlayKeys == {"esc", "E", "M", "I", "C", "T", "enter", "click"}
Dialogs == {"contract", "factory"}
Bags == {"inventory", "craft"}

VARIABLES
    screen,              \* App.mode
    step,                \* the helper of this frame that runs next; "frame": none
    pressed,             \* the keys that went down in this frame
    open,                \* the windows that are open, chat and orbit map among them
    fresh,               \* the dialog was opened less than 250 ms ago
    captured, cursor,    \* ui.cursorCaptured, and what raylib was told last
    focused,             \* the window has the focus
    health,              \* player.hp; "unknown": not hpReceived
    seat,                \* player.ridingID, boatID, rocketID
    online, wire,        \* the connection, and the seat messages on it
    given                \* the seats the server has given this player

world == <<health, seat, online, wire, given>>
desk == <<screen, open, fresh, captured, cursor>>
screenVars == <<screen, step, pressed, open, fresh, captured, cursor, focused,
                health, seat, online, wire, given>>

Standing == [mammoth |-> None, boat |-> None, rockets |-> {}]

ScreenInit ==
    /\ screen = "menu" /\ step = "frame" /\ pressed = {}
    /\ open = {} /\ fresh = FALSE
    /\ captured = FALSE /\ cursor = "free" /\ focused = TRUE
    /\ health = "unknown"
    /\ seat = [mammoth |-> None, boat |-> None, rocket |-> None]
    /\ online = FALSE /\ wire = <<>> /\ given = Standing

-----------------------------------------------------------------------------
(* What the helpers share *)

\* setCursorCaptured: nothing happens when the flag says so already.
SetCursorCaptured(c) ==
    IF captured = c
      THEN UNCHANGED <<captured, cursor>>
      ELSE captured' = c /\ cursor' = IF c THEN "locked" ELSE "free"

\* A send to a closed connection fails, and the caller only logs it.
Send(m) ==
    IF online
      THEN Len(wire) < WireCap /\ wire' = Append(wire, m)
      ELSE UNCHANGED wire

\* The socket is closed; the server lets go of the player's seats.
Cut == online' = FALSE /\ wire' = <<>> /\ given' = Standing

\* startConnect: the flight controller and the player id are new, and so are
\* the seats at the server; those the client believes in stay.
Joined == ~online /\ online' = TRUE /\ wire' = <<>> /\ given' = Standing

Connected == Joined /\ screen' = "playing"

-----------------------------------------------------------------------------
(* The menu, the pause screen and the death screen: a frame each *)

MenuFrame ==
    /\ step = "frame" /\ screen = "menu"
    /\ SetCursorCaptured(FALSE)
    /\ \/ UNCHANGED <<screen, health, online, wire, given>>
       \/ Connected /\ health' = IF health = "unknown" THEN "unknown" ELSE "alive"
    /\ UNCHANGED <<step, pressed, open, fresh, focused, seat>>

\* Esc or Resume goes back to the game, Disconnect to the menu.
PausedFrame ==
    /\ step = "frame" /\ screen = "paused"
    /\ SetCursorCaptured(FALSE)
    /\ \/ UNCHANGED <<screen, online, wire, given>>
       \/ screen' = "playing" /\ UNCHANGED <<online, wire, given>>
       \/ screen' = "menu" /\ Cut
    /\ UNCHANGED <<step, pressed, open, fresh, focused, health, seat>>

\* respawn: whether startConnect connects or not, the cursor is disabled.
DeadRespawn ==
    /\ step = "frame" /\ screen = "dead"
    /\ \/ Connected /\ health' = "unknown"
       \/ health' = "unknown" /\ UNCHANGED <<screen, online, wire, given>>
    /\ cursor' = "locked"
    /\ UNCHANGED <<step, pressed, open, fresh, captured, focused, seat>>

\* returnToMenu; R in the same frame has connected before that.
DeadToMenu ==
    /\ step = "frame" /\ screen = "dead"
    /\ screen' = "menu" /\ health' = "unknown" /\ cursor' = "free"
    /\ Joined \/ UNCHANGED <<online, wire, given>>
    /\ UNCHANGED <<step, pressed, open, fresh, captured, focused, seat>>

-----------------------------------------------------------------------------
(* updatePlaying, helper by helper *)

\* A frame of the game begins: the keys that went down since the last one.
PlayingFrame ==
    /\ step = "frame" /\ screen = "playing" /\ step' = "rocket"
    /\ pressed' \in {k \in SUBSET PlayKeys : Cardinality(k) <= MaxKeys}
    /\ focused' \in BOOLEAN /\ (~focused' => pressed' = {})
    /\ fresh' \in {fresh, FALSE}
    /\ UNCHANGED <<screen, open, captured, cursor, world>>

\* The frame goes on with the helper h; FrameEnds: it is consumed, and drawn.
GoOn(h) == step' = h /\ UNCHANGED <<screen, pressed, focused>>
FrameEnds == step' = "draw" /\ UNCHANGED <<pressed, focused>>

\* Mutant: E leaves the rocket without a word to the server.
LeaveRocketSilently == UNCHANGED wire

\* handleRocketExitKey: ExitRocket is sent.
LeaveRocket == Send(<<"exit", None>>)

\* updateRocketMode: while the player pilots, only E is heard.  Leaving does
\* not consume the frame.  A rocket is never deleted by the server, so the one
\* the player boarded is in every snapshot.
RocketMode ==
    /\ step = "rocket"
    /\ \/ /\ seat.rocket = None
          /\ GoOn("dialogs") /\ UNCHANGED <<open, seat, wire>>
       \/ /\ seat.rocket # None /\ "E" \notin pressed
          /\ FrameEnds /\ UNCHANGED <<screen, open, seat, wire>>
       \/ /\ seat.rocket # None /\ "E" \in pressed
          /\ LeaveRocket /\ seat' = [seat EXCEPT !.rocket = None]
          /\ open' = open \ {"map"} /\ GoOn("dialogs")
    /\ UNCHANGED <<fresh, captured, cursor, health, online, given>>

\* updateDialogOverlays: Esc closes the dialog, once it is no longer fresh.
DialogOverlays ==
    /\ step = "dialogs" /\ open \cap Dialogs # {}
    /\ IF "esc" \in pressed /\ ~fresh
         THEN open' = open \ Dialogs /\ cursor' = "locked"
         ELSE UNCHANGED <<open, cursor>>
    /\ FrameEnds /\ UNCHANGED <<screen, fresh, captured, world>>

\* syncHPFromNetwork: a zero counts only after a first positive reading.
SyncHP ==
    /\ step = "dialogs" /\ open \cap Dialogs = {}
    /\ \/ health' = "alive"
       \/ health' = IF health = "unknown" THEN "unknown" ELSE "dead"
    /\ GoOn("chat")
    /\ UNCHANGED <<open, fresh, captured, cursor, seat, online, wire, given>>

\* updateChatOverlay: Enter sends the line and closes the chat, Esc closes it.
ChatOverlay ==
    /\ step = "chat" /\ "chat" \in open
    /\ SetCursorCaptured(FALSE)
    /\ open' = IF {"enter", "esc"} \cap pressed # {} THEN open \ {"chat"} ELSE open
    /\ FrameEnds /\ UNCHANGED <<screen, fresh, world>>

\* updateOrbitMapOverlay: the frame that closes the map goes on.
MapOverlay ==
    /\ step = "chat" /\ "chat" \notin open
    /\ LET shows == IF "M" \in pressed THEN "map" \notin open ELSE "map" \in open
       IN  /\ open' = IF shows THEN open \cup {"map"} ELSE open \ {"map"}
           /\ cursor' = IF "M" \notin pressed THEN cursor
                        ELSE IF shows THEN "free" ELSE "locked"
           /\ IF shows THEN FrameEnds /\ UNCHANGED screen ELSE GoOn("bags")
    /\ UNCHANGED <<fresh, captured, world>>

\* C shows the crafting window, I shows or hides the inventory, Esc closes
\* both; each on what the one before it has left.
CraftKey(w) ==
    IF "C" \in pressed THEN (w \cup {"craft"}) \ {"inventory"} ELSE w

InventoryKey(w) ==
    IF "I" \notin pressed THEN w
    ELSE IF "inventory" \in w THEN w \ {"inventory"} ELSE (w \cup {"inventory"}) \ {"craft"}

\* Mutant: Esc closes the windows and leaves the cursor as it is.
BagCursorKeeps(c, i) == IF "C" \in pressed THEN "free" ELSE cursor

\* The cursor after C, I and Esc: c is the window set after C, i after I.
BagCursor(c, i) ==
    IF "esc" \in pressed /\ i \cap Bags # {} THEN "locked"
    ELSE IF "I" \in pressed THEN (IF "inventory" \in c THEN "locked" ELSE "free")
    ELSE IF "C" \in pressed THEN "free" ELSE cursor

\* updateInventoryOverlay: the frame is consumed if a window was still open
\* when Esc was looked at.
InventoryOverlay ==
    /\ step = "bags"
    /\ LET c == CraftKey(open)
           w == InventoryKey(c)
       IN  /\ cursor' = BagCursor(c, w)
           /\ open' = IF "esc" \in pressed THEN w \ Bags ELSE w
           /\ IF w \cap Bags # {} THEN FrameEnds /\ UNCHANGED screen ELSE GoOn("keys")
    /\ UNCHANGED <<fresh, captured, world>>

\* handleChatKeys.
ChatKeys ==
    /\ step = "keys" /\ "T" \in pressed
    /\ open' = open \cup {"chat"}
    /\ FrameEnds /\ UNCHANGED <<screen, fresh, captured, cursor, world>>

\* handleMountKey, first case: the player rides.
Dismounts == seat.mammoth # None

\* saddledMammothNearby, boatNearby: what is in reach is left open.
NearMount == {<<"ride", m>> : m \in Mammoths} \cup {<<"boat", b>> : b \in Boats}

\* handleMountKey: E leaves the mammoth or the boat, or takes one that is near.
MountKey ==
    /\ step = "keys" /\ "T" \notin pressed
    /\ \/ /\ "E" \notin pressed /\ UNCHANGED <<seat, wire>>
       \/ /\ "E" \in pressed /\ Dismounts
          /\ Send(<<"ride", None>>) /\ seat' = [seat EXCEPT !.mammoth = None]
       \/ /\ "E" \in pressed /\ ~Dismounts /\ seat.boat # None
          /\ Send(<<"boat", None>>) /\ seat' = [seat EXCEPT !.boat = None]
       \/ /\ "E" \in pressed /\ ~Dismounts /\ seat.boat = None
          /\ \/ \E near \in NearMount :
                   /\ Send(near)
                   /\ seat' = IF near[1] = "ride" THEN [seat EXCEPT !.mammoth = near[2]]
                                                 ELSE [seat EXCEPT !.boat = near[2]]
             \/ UNCHANGED <<seat, wire>>
    /\ GoOn("click")
    /\ UNCHANGED <<open, fresh, captured, cursor, health, online, given>>

\* rocketInSight, factoryInSight, pinkMobInSight: any of them, or none, is in sight.
RocketInSight == Rockets
DialogInSight == Dialogs

\* handleMouseClick, handleEmptyHandClick: an empty hand boards a rocket or
\* opens a dialog, which consumes the frame.
ClickRocket ==
    /\ step = "click" /\ "click" \in pressed
    /\ \E r \in RocketInSight : Send(<<"board", r>>) /\ seat' = [seat EXCEPT !.rocket = r]
    /\ FrameEnds /\ UNCHANGED <<desk, health, online, given>>

ClickDialog ==
    /\ step = "click" /\ "click" \in pressed
    /\ \E d \in DialogInSight : open' = open \cup {d}
    /\ fresh' = TRUE /\ cursor' = "free"
    /\ FrameEnds /\ UNCHANGED <<screen, captured, world>>

\* A well, a door, a saddle or an item in the hand take the click, or nothing
\* does: no window and no seat changes.
ClickOther ==
    /\ step = "click" /\ GoOn("mode")
    /\ UNCHANGED <<open, fresh, captured, cursor, world>>

\* checkDeath: the death screen, and the connection is closed.
DeathShown ==
    /\ step = "mode" /\ health = "dead"
    /\ screen' = "dead" /\ cursor' = "free" /\ Cut
    /\ FrameEnds /\ UNCHANGED <<open, fresh, captured, health, seat>>

PauseShown ==
    /\ step = "mode" /\ health # "dead" /\ "esc" \in pressed
    /\ screen' = "paused"
    /\ FrameEnds /\ UNCHANGED <<open, fresh, captured, cursor, world>>

UnfocusFreeze ==
    /\ step = "mode" /\ health # "dead" /\ "esc" \notin pressed /\ ~focused
    /\ SetCursorCaptured(FALSE)
    /\ FrameEnds /\ UNCHANGED <<screen, open, fresh, world>>

\* updateFlightPhysics: the mouse turns the view.
Fly ==
    /\ step = "mode" /\ health # "dead" /\ "esc" \notin pressed /\ focused
    /\ SetCursorCaptured(TRUE)
    /\ step' = "flown" /\ UNCHANGED <<screen, pressed, focused, open, fresh, world>>

\* draw: a button of the contract takes the click.
DrawContract ==
    /\ step = "draw" /\ "contract" \in open /\ "click" \in pressed /\ ~fresh
    /\ open' = open \ {"contract"} /\ cursor' = "locked"
    /\ step' = "frame" /\ pressed' = {}
    /\ UNCHANGED <<screen, fresh, captured, focused, world>>

DrawRest ==
    /\ step \in {"draw", "flown"} /\ step' = "frame" /\ pressed' = {}
    /\ UNCHANGED <<focused, desk, world>>

-----------------------------------------------------------------------------
(* The server's side of the seats *)

\* handleRideMammoth: whoever rides gets off, whatever he asked for.
ServeRide(m) ==
    IF given.mammoth # None \/ m = None
      THEN given' = [given EXCEPT !.mammoth = None]
      ELSE given' \in {given, [given EXCEPT !.mammoth = m]}

\* handleEnterBoat: off everything first, then into the boat if it can be had.
ServeBoat(b) ==
    LET off == [given EXCEPT !.mammoth = None, !.boat = None]
    IN  given' \in {off, [off EXCEPT !.boat = b]}

\* handleBoardRocket: refused when too far, or when another one pilots it.
ServeBoard(r) == given' \in {given, [given EXCEPT !.rockets = @ \cup {r}]}

\* handleExitRocket: one of the player's rockets.
ServeExit ==
    IF given.rockets = {} THEN UNCHANGED given
    ELSE \E r \in given.rockets : given' = [given EXCEPT !.rockets = @ \ {r}]

ServeSeat ==
    /\ wire # <<>> /\ wire' = Tail(wire)
    /\ LET kind == Head(wire)[1]
           id == Head(wire)[2]
       IN  \/ kind = "ride" /\ ServeRide(id)
           \/ kind = "boat" /\ ServeBoat(id)
           \/ kind = "board" /\ ServeBoard(id)
           \/ kind = "exit" /\ ServeExit
    /\ UNCHANGED <<desk, step, pressed, focused, health, seat, online>>

\* Another player kills the mammoth.
SeatDies ==
    /\ given.mammoth # None /\ given' = [given EXCEPT !.mammoth = None]
    /\ UNCHANGED <<desk, step, pressed, focused, health, seat, online, wire>>

\* The server or the network ends the session (external).
LineDrops ==
    /\ online /\ Cut
    /\ UNCHANGED <<desk, step, pressed, focused, health, seat>>

PlayingStep ==
    \/ PlayingFrame \/ RocketMode \/ DialogOverlays \/ SyncHP \/ ChatOverlay \/ MapOverlay
    \/ InventoryOverlay \/ ChatKeys \/ MountKey \/ ClickRocket \/ ClickDialog \/ ClickOther
    \/ DeathShown \/ PauseShown \/ UnfocusFreeze \/ Fly \/ DrawContract \/ DrawRest

ScreenNext ==
    \/ MenuFrame \/ PausedFrame \/ DeadRespawn \/ DeadToMenu \/ PlayingStep
    \/ ServeSeat \/ SeatDies \/ LineDrops

ScreenSpec == ScreenInit /\ [][ScreenNext]_screenVars

-----------------------------------------------------------------------------
(* Properties *)

\* Whatever windows, deaths, pauses and losses of focus came before, a frame
\* that lets the mouse turn the view has the cursor locked: the flag
\* cursorCaptured, which most windows go past, never hides a free cursor.  And
\* no window is open under a frame of flight or under another screen, and none
\* but the map in the cockpit, where the keys that close the others do nothing.
MouseLook ==
    /\ step = "flown" => captured /\ cursor = "locked"
    /\ step = "flown" \/ screen # "playing" => open = {}
    /\ seat.rocket # None => open \subseteq {"map"}

\* The hint of drawRocketHUDHints, "M map": M shows or hides the map in a frame
\* that the player spends in the cockpit (updateRocketMode, applyLookOrMap).
CockpitMap ==
    [][step = "rocket" /\ seat.rocket # None /\ seat'.rocket # None /\ "M" \in pressed =>
          ("map" \in open' <=> "map" \notin open)]_screenVars

\* When all that the client has sent is handled, the server holds no seat for
\* the player that the client does not know of: he can always get off.
SeatAgrees ==
    online /\ wire = <<>> =>
        /\ given.mammoth \in {None, seat.mammoth}
        /\ given.boat \in {None, seat.boat}
        /\ given.rockets \subseteq {seat.rocket}

=============================================================================
