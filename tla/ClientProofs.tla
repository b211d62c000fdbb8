---------------------------- MODULE ClientProofs ----------------------------
(***************************************************************************)
(* Proofs about the client: the screens and the seats (PlayScreen), the    *)
(* place of the body (Body), the connection (ClientConn), the slots        *)
(* (Hotbar), the view of Earth (EarthView) and the proxy (WsProxy).        *)
(***************************************************************************)
EXTENDS ClientConn, PlayScreen, Body, Hotbar, EarthView, WsProxy, FiniteSetTheorems, TLAPS

-----------------------------------------------------------------------------
(* PlayScreen: the mouse and the windows *)

\* The helpers of updatePlaying that run once no rocket is piloted, once no
\* dialog is open, once the map and the chat are not, and once nothing is.
Walking == {"dialogs", "chat", "bags", "keys", "click", "mode", "flown"}
PastDialogs == Walking \ {"dialogs"}
PastMap == PastDialogs \ {"chat"}
PastBags == PastMap \ {"bags"}

\* The windows that free the cursor without telling setCursorCaptured.
Freeing == Dialogs \cup Bags \cup {"map"}

\* player.ridingID, boatID and rocketID.
SeatType ==
    seat \in [mammoth : Mammoths \cup {None}, boat : Boats \cup {None}, rocket : Rockets \cup {None}]

\* What each helper knows of the windows when it runs: the ones before it let
\* the frame go on.
StepInv ==
    /\ step \in {"frame", "rocket", "draw"} \cup Walking
    /\ step \notin {"frame", "draw"} => screen = "playing"
    /\ step \in Walking => seat.rocket = None
    /\ step \in PastDialogs => open \cap Dialogs = {}
    /\ step \in PastMap => open \subseteq Bags
    /\ step \in PastBags => open = {}

\* A dialog and the chat are open alone; and a cursor that is free although the
\* flag says captured is the work of a window that is still open, or of a
\* screen whose next frame corrects it.
CursorInv ==
    /\ open \subseteq Freeing \cup {"chat"}
    /\ \A w \in open : w \in Dialogs \cup {"chat"} => open = {w}
    /\ captured \in BOOLEAN /\ cursor \in {"free", "locked"}
    /\ captured /\ cursor = "free" => screen \in {"menu", "dead"} \/ open \cap Freeing # {}

\* updatePlaying ends in the cockpit before it comes to a window, so nothing is
\* open there: stronger than what MouseLook says, and what keeps it.
CockpitInv == seat.rocket # None => open = {}

LookInv == SeatType /\ StepInv /\ CursorInv /\ CockpitInv /\ MouseLook

\* Every frame and every helper of it keeps LookInv.
LEMMA LookStep ==
    ASSUME LookInv, ScreenNext
    PROVE  LookInv'
  <1> USE DEF SeatType, StepInv, CursorInv, CockpitInv, MouseLook, Walking, PastDialogs,
              PastMap, PastBags, Freeing, Dialogs, Bags
  <1>1. CASE MenuFrame BY <1>1 DEF LookInv, MenuFrame, SetCursorCaptured, Connected, Joined
  <1>2. CASE PausedFrame BY <1>2 DEF LookInv, PausedFrame, SetCursorCaptured, Cut
  <1>3. CASE DeadRespawn BY <1>3 DEF LookInv, DeadRespawn, Connected, Joined
  <1>4. CASE DeadToMenu BY <1>4 DEF LookInv, DeadToMenu, Joined
  <1>5. CASE PlayingFrame BY <1>5 DEF LookInv, PlayingFrame, world
  <1>6. CASE RocketMode BY <1>6 DEF LookInv, RocketMode, GoOn, FrameEnds
  <1>7. CASE DialogOverlays BY <1>7 DEF LookInv, DialogOverlays, FrameEnds, world
  <1>8. CASE SyncHP BY <1>8 DEF LookInv, SyncHP, GoOn
  <1>9. CASE ChatOverlay BY <1>9 DEF LookInv, ChatOverlay, SetCursorCaptured, FrameEnds, world
  <1>10. CASE MapOverlay BY <1>10 DEF LookInv, MapOverlay, FrameEnds, GoOn, world
  <1>11. CASE InventoryOverlay
    BY <1>11 DEF LookInv, InventoryOverlay, CraftKey, InventoryKey, BagCursor, FrameEnds,
                 GoOn, world
  <1>12. CASE ChatKeys BY <1>12 DEF LookInv, ChatKeys, FrameEnds, world
  <1>13. CASE MountKey BY <1>13 DEF LookInv, MountKey, GoOn, NearMount
  <1>14. CASE ClickRocket BY <1>14 DEF LookInv, ClickRocket, RocketInSight, FrameEnds, desk
  <1>15. CASE ClickDialog BY <1>15 DEF LookInv, ClickDialog, DialogInSight, FrameEnds, world
  <1>16. CASE ClickOther BY <1>16 DEF LookInv, ClickOther, GoOn, world
  <1>17. CASE DeathShown BY <1>17 DEF LookInv, DeathShown, FrameEnds
  <1>18. CASE PauseShown BY <1>18 DEF LookInv, PauseShown, FrameEnds, world
  <1>19. CASE UnfocusFreeze
    BY <1>19 DEF LookInv, UnfocusFreeze, SetCursorCaptured, FrameEnds, world
  <1>20. CASE Fly BY <1>20 DEF LookInv, Fly, SetCursorCaptured, world
  <1>21. CASE DrawContract BY <1>21 DEF LookInv, DrawContract, world
  <1>22. CASE DrawRest BY <1>22 DEF LookInv, DrawRest, desk, world
  <1>23. CASE ServeSeat \/ SeatDies \/ LineDrops
    BY <1>23 DEF LookInv, ServeSeat, SeatDies, LineDrops, desk
  <1>24. QED
    BY <1>1, <1>2, <1>3, <1>4, <1>5, <1>6, <1>7, <1>8, <1>9, <1>10, <1>11, <1>12, <1>13,
       <1>14, <1>15, <1>16, <1>17, <1>18, <1>19, <1>20, <1>21, <1>22, <1>23
    DEF ScreenNext, PlayingStep

\* LookInv holds in every reachable state of the screens.
THEOREM ScreensInvariant == ScreenSpec => []LookInv
  <1>1. ScreenInit => LookInv
    <2> SUFFICES ASSUME ScreenInit PROVE LookInv OBVIOUS
    <2>1. SeatType BY DEF ScreenInit, SeatType
    <2>2. StepInv /\ CursorInv
      BY DEF ScreenInit, StepInv, CursorInv, Walking, PastDialogs, PastMap, PastBags
    <2>3. seat.rocket = None BY DEF ScreenInit
    <2>4. CockpitInv /\ MouseLook BY <2>3 DEF ScreenInit, CockpitInv, MouseLook
    <2>5. QED BY <2>1, <2>2, <2>4 DEF LookInv
  <1>2. LookInv /\ [ScreenNext]_screenVars => LookInv'
    <2> SUFFICES ASSUME LookInv, [ScreenNext]_screenVars PROVE LookInv' OBVIOUS
    <2>1. CASE UNCHANGED screenVars
      BY <2>1 DEF screenVars, LookInv, SeatType, StepInv, CursorInv, CockpitInv, MouseLook
    <2>2. QED BY <2>1, LookStep
  <1>3. QED BY <1>1, <1>2, PTL DEF ScreenSpec

\* A frame that lets the mouse turn the view has the cursor locked, and nothing
\* is open under it; no window but the map is open in the cockpit
\* (updateFlightPhysics, setCursorCaptured, updatePlaying).
THEOREM MouseLooks == ScreenSpec => []MouseLook
  <1>1. LookInv => MouseLook BY DEF LookInv
  <1>2. QED BY <1>1, ScreensInvariant, PTL

-----------------------------------------------------------------------------
(* PlayScreen: the seats *)

\* What goes over the wire.
SeatMessages ==
    ({"ride"} \X (Mammoths \cup {None})) \cup ({"boat"} \X (Boats \cup {None}))
      \cup ({"board"} \X Rockets) \cup {<<"exit", None>>}

SeatsTyped ==
    /\ wire \in Seq(SeatMessages) /\ online \in BOOLEAN
    /\ given \in [mammoth : Mammoths \cup {None}, boat : Boats \cup {None},
                  rockets : SUBSET Rockets]
    /\ ~online => wire = <<>> /\ given = Standing

\* The message i of the wire is the last one of these kinds.
LastOf(kinds, i) ==
    /\ i \in 1..Len(wire) /\ wire[i][1] \in kinds
    /\ \A j \in i + 1 .. Len(wire) : wire[j][1] \notin kinds
Silent(kinds) == \A j \in 1..Len(wire) : wire[j][1] \notin kinds

\* The last message about mammoths decides whether one is given in the end; a
\* boat that is entered takes the player off his mammoth.
MammothInv ==
    online =>
        /\ Silent({"ride", "boat"}) => given.mammoth \in {None, seat.mammoth}
        /\ \A i \in 1..Len(wire) : LastOf({"ride", "boat"}, i) /\ wire[i][1] = "ride"
                => wire[i][2] \in {None, seat.mammoth}

BoatInv ==
    online =>
        /\ Silent({"boat"}) => given.boat \in {None, seat.boat}
        /\ \A i \in 1..Len(wire) : LastOf({"boat"}, i) => wire[i][2] \in {None, seat.boat}

\* Between two boardings there is an exit, so that the server gives one rocket
\* at a time; a rocket that is not left again is the one the client is in.
Exits(i, j) == \E k \in i..j : wire[k][1] = "exit"

RocketInv ==
    online =>
        /\ \A r, q \in given.rockets : r = q
        /\ ~Exits(1, Len(wire)) => given.rockets \subseteq {seat.rocket}
        /\ \A j \in 1..Len(wire) : wire[j][1] = "board" =>
              /\ given.rockets # {} => Exits(1, j - 1)
              /\ \A i \in 1..j - 1 : wire[i][1] = "board" => Exits(i + 1, j - 1)
              /\ ~Exits(j + 1, Len(wire)) => wire[j][2] = seat.rocket

SeatInv == SeatsTyped /\ MammothInv /\ BoatInv /\ RocketInv

\* A step that leaves the wire, the seats and what is given alone, or cuts the
\* connection, keeps SeatInv.
LEMMA SeatsUntouched ==
    ASSUME SeatInv, UNCHANGED <<wire, given, seat, online>>
    PROVE  SeatInv'
  BY DEF SeatInv, SeatsTyped, MammothInv, BoatInv, RocketInv, LastOf, Silent, Exits

\* Nothing is given on a new or closed connection.
LEMMA SeatsAnew ==
    ASSUME wire' = <<>>, given' = Standing, online' \in BOOLEAN
    PROVE  SeatInv'
  <1>1. Len(wire') = 0 OBVIOUS
  <1>2. SeatsTyped' BY DEF SeatsTyped, Standing
  <1>3. MammothInv' /\ BoatInv' BY <1>1 DEF MammothInv, BoatInv, Standing
  <1>4. RocketInv' BY <1>1 DEF RocketInv, Standing
  <1>5. QED BY <1>2, <1>3, <1>4 DEF SeatInv

\* A message is sent: the wire is one longer.
LEMMA WireGrows ==
    ASSUME SeatsTyped, NEW m \in SeatMessages, wire' = Append(wire, m)
    PROVE  /\ Len(wire) \in Nat /\ Len(wire') = Len(wire) + 1 /\ wire' \in Seq(SeatMessages)
           /\ \A i \in 1..Len(wire) : wire'[i] = wire[i]
           /\ wire'[Len(wire) + 1] = m
  BY DEF SeatsTyped

\* A message about mammoths or boats names the mammoth the client believes in,
\* or none; any other leaves that mammoth alone.
LEMMA MammothSent ==
    ASSUME SeatsTyped, MammothInv, online, UNCHANGED <<given, online>>,
           NEW m \in SeatMessages, wire' = Append(wire, m),
           \/ m[1] \notin {"ride", "boat"} /\ seat'.mammoth = seat.mammoth
           \/ m[1] = "ride" /\ m[2] \in {None, seat'.mammoth}
           \/ m[1] = "boat"
    PROVE  MammothInv'
  <1>1. /\ Len(wire) \in Nat /\ Len(wire') = Len(wire) + 1
        /\ \A i \in 1..Len(wire) : wire'[i] = wire[i]
        /\ wire'[Len(wire) + 1] = m
    BY WireGrows
  <1>2. CASE m[1] \in {"ride", "boat"}
    <2>1. ~Silent({"ride", "boat"})' BY <1>1, <1>2 DEF Silent
    <2>2. ASSUME NEW i \in 1..Len(wire'), LastOf({"ride", "boat"}, i)'
          PROVE  i = Len(wire) + 1
      BY <1>1, <1>2, <2>2 DEF LastOf
    <2>3. QED BY <1>1, <1>2, <2>1, <2>2 DEF MammothInv
  <1>3. CASE m[1] \notin {"ride", "boat"}
    <2>1. Silent({"ride", "boat"})' => Silent({"ride", "boat"}) BY <1>1 DEF Silent
    <2>2. ASSUME NEW i \in 1..Len(wire'), LastOf({"ride", "boat"}, i)'
          PROVE  i \in 1..Len(wire) /\ LastOf({"ride", "boat"}, i) /\ wire'[i] = wire[i]
      BY <1>1, <1>3, <2>2 DEF LastOf
    <2>3. QED BY <1>3, <2>1, <2>2 DEF MammothInv
  <1>4. QED BY <1>2, <1>3

\* The same for boats.
LEMMA BoatSent ==
    ASSUME SeatsTyped, BoatInv, online, UNCHANGED <<given, online>>,
           NEW m \in SeatMessages, wire' = Append(wire, m),
           \/ m[1] # "boat" /\ seat'.boat = seat.boat
           \/ m[1] = "boat" /\ m[2] \in {None, seat'.boat}
    PROVE  BoatInv'
  <1>1. /\ Len(wire) \in Nat /\ Len(wire') = Len(wire) + 1
        /\ \A i \in 1..Len(wire) : wire'[i] = wire[i]
        /\ wire'[Len(wire) + 1] = m
    BY WireGrows
  <1>2. CASE m[1] = "boat"
    <2>1. ~Silent({"boat"})' BY <1>1, <1>2 DEF Silent
    <2>2. ASSUME NEW i \in 1..Len(wire'), LastOf({"boat"}, i)'
          PROVE  i = Len(wire) + 1
      BY <1>1, <1>2, <2>2 DEF LastOf
    <2>3. QED BY <1>1, <1>2, <2>1, <2>2 DEF BoatInv
  <1>3. CASE m[1] # "boat"
    <2>1. Silent({"boat"})' => Silent({"boat"}) BY <1>1 DEF Silent
    <2>2. ASSUME NEW i \in 1..Len(wire'), LastOf({"boat"}, i)'
          PROVE  i \in 1..Len(wire) /\ LastOf({"boat"}, i) /\ wire'[i] = wire[i]
      BY <1>1, <1>3, <2>2 DEF LastOf
    <2>3. QED BY <1>3, <2>1, <2>2 DEF BoatInv
  <1>4. QED BY <1>2, <1>3

\* A rocket is boarded by a client that is in none, and left by one in it.
LEMMA RocketSent ==
    ASSUME SeatsTyped, SeatType, RocketInv, online, UNCHANGED <<given, online>>,
           NEW m \in SeatMessages, wire' = Append(wire, m),
           \/ m[1] \notin {"board", "exit"} /\ seat'.rocket = seat.rocket
           \/ m[1] = "board" /\ seat.rocket = None /\ seat'.rocket = m[2]
           \/ m[1] = "exit" /\ seat'.rocket = None
    PROVE  RocketInv'
  <1>1. /\ Len(wire) \in Nat /\ Len(wire') = Len(wire) + 1
        /\ \A i \in 1..Len(wire) : wire'[i] = wire[i]
        /\ wire'[Len(wire) + 1] = m
    BY WireGrows
  <1>0. PICK N \in Nat : N = Len(wire) BY <1>1
  <1>2. \A i \in 1..N + 2, j \in 0..N : Exits(i, j)' <=> Exits(i, j)
    BY <1>0, <1>1 DEF Exits
  <1>3. \A i \in 1..N + 1 : Exits(i, N + 1)' <=> Exits(i, N) \/ m[1] = "exit"
    BY <1>0, <1>1 DEF Exits
  <1>4. \A i \in 1..N : wire[i][1] = "board" => wire[i][2] # None
    BY <1>0, ScreenAssumption DEF SeatsTyped, SeatMessages
  <1>5. N \in Nat /\ Len(wire') = N + 1 BY <1>0, <1>1
  <1>6. /\ \A i \in 1..N : wire'[i] = wire[i]
        /\ wire'[N + 1] = m
    BY <1>0, <1>1
  <1>7. /\ ~Exits(1, N) => given.rockets \subseteq {seat.rocket}
        /\ \A j \in 1..N : wire[j][1] = "board" =>
              /\ given.rockets # {} => Exits(1, j - 1)
              /\ \A i \in 1..j - 1 : wire[i][1] = "board" => Exits(i + 1, j - 1)
              /\ ~Exits(j + 1, N) => wire[j][2] = seat.rocket
    BY <1>0 DEF RocketInv
  <1>8. m[1] = "board" => given.rockets \subseteq {} \/ Exits(1, N)
    BY <1>7, ScreenAssumption DEF SeatsTyped
  <1>9. ~Exits(1, N + 1)' => given'.rockets \subseteq {seat'.rocket}
    BY <1>3, <1>5, <1>7, <1>8
  <1>10. ASSUME NEW j \in 1..N + 1, wire'[j][1] = "board"
         PROVE  /\ given'.rockets # {} => Exits(1, j - 1)'
                /\ \A i \in 1..j - 1 : wire'[i][1] = "board" => Exits(i + 1, j - 1)'
                /\ ~Exits(j + 1, N + 1)' => wire'[j][2] = seat'.rocket
    <2>1. CASE j \in 1..N
      <3>1. given'.rockets # {} => Exits(1, j - 1)' BY <1>2, <1>5, <1>6, <1>7, <1>10, <2>1
      <3>2. \A i \in 1..j - 1 : wire'[i][1] = "board" => Exits(i + 1, j - 1)'
        BY <1>2, <1>5, <1>6, <1>7, <1>10, <2>1
      <3>3. ~Exits(j + 1, N + 1)' => wire'[j][2] = seat'.rocket
        BY <1>3, <1>4, <1>5, <1>6, <1>7, <1>10, <2>1
      <3>4. QED BY <3>1, <3>2, <3>3
    <2>2. CASE j = N + 1
      <3>1. m[1] = "board" BY <1>6, <1>10, <2>2
      <3>2. Exits(1, N)' <=> Exits(1, N) BY <1>2, <1>5
      <3>3. given'.rockets # {} => Exits(1, N)' BY <1>8, <3>1, <3>2
      <3>4. \A i \in 1..N : wire'[i][1] = "board" => Exits(i + 1, N)'
        BY <1>2, <1>4, <1>5, <1>6, <1>7, <3>1
      <3>5. wire'[j][2] = seat'.rocket BY <1>6, <2>2, <3>1
      <3>6. j - 1 = N BY <1>5, <2>2
      <3>7. QED BY <3>3, <3>4, <3>5, <3>6
    <2>3. QED BY <1>5, <2>1, <2>2
  <1>11. \A r, q \in given'.rockets : r = q BY DEF RocketInv
  <1>12. QED BY <1>5, <1>9, <1>10, <1>11 DEF RocketInv

\* The server takes the first message off the wire.
LEMMA WireShrinks ==
    ASSUME SeatsTyped, wire # <<>>, wire' = Tail(wire)
    PROVE  /\ Len(wire) \in Nat \ {0} /\ Len(wire') = Len(wire) - 1
           /\ wire' \in Seq(SeatMessages) /\ wire[1] = Head(wire) /\ wire[1] \in SeatMessages
           /\ \A i \in 1..Len(wire) - 1 : wire'[i] = wire[i + 1]
           /\ \A i \in 2..Len(wire) : wire[i] = wire'[i - 1] /\ i - 1 \in 1..Len(wire')
  BY DEF SeatsTyped

\* What the last message of a kind says is still on the wire, or has just been
\* handled and no other is left.
LEMMA LastShifts ==
    ASSUME SeatsTyped, wire # <<>>, wire' = Tail(wire), NEW kinds
    PROVE  /\ \A i \in 1..Len(wire') : LastOf(kinds, i)' => LastOf(kinds, i + 1)
           /\ Silent(kinds)' => Silent(kinds) \/ LastOf(kinds, 1)
  <1>1. /\ Len(wire) \in Nat \ {0} /\ Len(wire') = Len(wire) - 1
        /\ \A i \in 1..Len(wire) - 1 : wire'[i] = wire[i + 1]
        /\ \A i \in 2..Len(wire) : wire[i] = wire'[i - 1] /\ i - 1 \in 1..Len(wire')
    BY WireShrinks
  <1>2. ASSUME NEW i \in 1..Len(wire'), LastOf(kinds, i)'
        PROVE  LastOf(kinds, i + 1)
    <2>1. i + 1 \in 1..Len(wire) /\ wire[i + 1][1] \in kinds BY <1>1, <1>2 DEF LastOf
    <2>2. \A j \in i + 2 .. Len(wire) : j - 1 \in i + 1 .. Len(wire') /\ wire[j] = wire'[j - 1]
      BY <1>1
    <2>3. \A j \in i + 2 .. Len(wire) : wire[j][1] \notin kinds BY <1>2, <2>2 DEF LastOf
    <2>4. QED BY <1>1, <2>1, <2>3 DEF LastOf
  <1>3. ASSUME Silent(kinds)'
        PROVE  Silent(kinds) \/ LastOf(kinds, 1)
    <2>1. \A j \in 2..Len(wire) : wire[j][1] \notin kinds BY <1>1, <1>3 DEF Silent
    <2>2. QED BY <1>1, <2>1 DEF Silent, LastOf
  <1>4. QED BY <1>2, <1>3

\* handleRideMammoth and handleEnterBoat of the server keep MammothInv and
\* BoatInv: only the last message of a kind decides.
LEMMA MountsServed ==
    ASSUME SeatsTyped, MammothInv, BoatInv, online, ServeSeat
    PROVE  MammothInv' /\ BoatInv' /\ SeatsTyped'
  <1>1. /\ wire # <<>> /\ wire' = Tail(wire) /\ UNCHANGED <<seat, online>>
        /\ \/ Head(wire)[1] = "ride" /\ ServeRide(Head(wire)[2])
           \/ Head(wire)[1] = "boat" /\ ServeBoat(Head(wire)[2])
           \/ Head(wire)[1] = "board" /\ ServeBoard(Head(wire)[2])
           \/ Head(wire)[1] = "exit" /\ ServeExit
    BY DEF ServeSeat
  <1>2. /\ Len(wire) \in Nat \ {0} /\ Len(wire') = Len(wire) - 1
        /\ wire' \in Seq(SeatMessages) /\ wire[1] = Head(wire) /\ wire[1] \in SeatMessages
        /\ \A i \in 1..Len(wire) - 1 : wire'[i] = wire[i + 1]
    BY <1>1, WireShrinks
  <1>3. SeatsTyped'
    <2>1. CASE Head(wire)[1] = "ride"
      <3>1. Head(wire)[2] \in Mammoths \cup {None} BY <1>2, <2>1 DEF SeatMessages
      <3>2. QED BY <1>1, <1>2, <2>1, <3>1 DEF SeatsTyped, ServeRide
    <2>2. CASE Head(wire)[1] = "boat"
      <3>1. Head(wire)[2] \in Boats \cup {None} BY <1>2, <2>2 DEF SeatMessages
      <3>2. QED BY <1>1, <1>2, <2>2, <3>1 DEF SeatsTyped, ServeBoat
    <2>3. CASE Head(wire)[1] = "board"
      <3>1. Head(wire)[2] \in Rockets BY <1>2, <2>3 DEF SeatMessages
      <3>2. QED BY <1>1, <1>2, <2>3, <3>1 DEF SeatsTyped, ServeBoard
    <2>4. CASE Head(wire)[1] = "exit"
      BY <1>1, <1>2, <2>4 DEF SeatsTyped, ServeExit
    <2>5. QED BY <1>1, <2>1, <2>2, <2>3, <2>4
  <1>4. MammothInv'
    <2>1. /\ \A i \in 1..Len(wire') :
               LastOf({"ride", "boat"}, i)' => LastOf({"ride", "boat"}, i + 1)
          /\ Silent({"ride", "boat"})'
               => Silent({"ride", "boat"}) \/ LastOf({"ride", "boat"}, 1)
      BY <1>1, LastShifts
    <2>2. \A i \in 1..Len(wire') : i + 1 \in 1..Len(wire) /\ wire'[i] = wire[i + 1]
      BY <1>2
    <2>3. CASE Head(wire)[1] \notin {"ride", "boat"}
      <3>1. given'.mammoth = given.mammoth
        BY <1>1, <2>3 DEF ServeBoard, ServeExit, SeatsTyped
      <3>2. ~LastOf({"ride", "boat"}, 1) BY <1>2, <2>3 DEF LastOf
      <3>3. QED BY <1>1, <2>1, <2>2, <3>1, <3>2 DEF MammothInv
    <2>4. CASE Head(wire)[1] \in {"ride", "boat"}
      <3>1. given'.mammoth \in {None} \cup (IF Head(wire)[1] = "ride" THEN {Head(wire)[2]} ELSE {})
        <4>1. CASE Head(wire)[1] = "ride" BY <1>1, <4>1 DEF ServeRide, SeatsTyped
        <4>2. CASE Head(wire)[1] = "boat" BY <1>1, <4>2 DEF ServeBoat, SeatsTyped
        <4>3. QED BY <2>4, <4>1, <4>2
      <3>2. ~Silent({"ride", "boat"}) BY <1>2, <2>4 DEF Silent
      <3>3. Silent({"ride", "boat"})' => given'.mammoth \in {None, seat'.mammoth}
        BY <1>1, <1>2, <2>1, <3>1, <3>2 DEF MammothInv
      <3>4. QED BY <1>1, <2>1, <2>2, <3>3 DEF MammothInv
    <2>5. QED BY <2>3, <2>4
  <1>5. BoatInv'
    <2>1. /\ \A i \in 1..Len(wire') : LastOf({"boat"}, i)' => LastOf({"boat"}, i + 1)
          /\ Silent({"boat"})' => Silent({"boat"}) \/ LastOf({"boat"}, 1)
      BY <1>1, LastShifts
    <2>2. \A i \in 1..Len(wire') : i + 1 \in 1..Len(wire) /\ wire'[i] = wire[i + 1]
      BY <1>2
    <2>3. CASE Head(wire)[1] # "boat"
      <3>1. given'.boat = given.boat
        BY <1>1, <2>3 DEF ServeRide, ServeBoard, ServeExit, SeatsTyped
      <3>2. ~LastOf({"boat"}, 1) BY <1>2, <2>3 DEF LastOf
      <3>3. QED BY <1>1, <2>1, <2>2, <3>1, <3>2 DEF BoatInv
    <2>4. CASE Head(wire)[1] = "boat"
      <3>1. given'.boat \in {None, Head(wire)[2]}
        BY <1>1, <2>4 DEF ServeBoat, SeatsTyped
      <3>2. ~Silent({"boat"}) BY <1>2, <2>4 DEF Silent
      <3>3. Silent({"boat"})' => given'.boat \in {None, seat'.boat}
        BY <1>1, <1>2, <2>1, <3>1, <3>2 DEF BoatInv
      <3>4. QED BY <1>1, <2>1, <2>2, <3>3 DEF BoatInv
    <2>5. QED BY <2>3, <2>4
  <1>6. QED BY <1>3, <1>4, <1>5

\* handleBoardRocket and handleExitRocket keep RocketInv: an exit leaves the one
\* rocket that there is, and a boarding finds none.
LEMMA RocketsServed ==
    ASSUME SeatsTyped, RocketInv, online, ServeSeat
    PROVE  RocketInv'
  <1>1. /\ wire # <<>> /\ wire' = Tail(wire) /\ UNCHANGED <<seat, online>>
        /\ \/ Head(wire)[1] = "ride" /\ ServeRide(Head(wire)[2])
           \/ Head(wire)[1] = "boat" /\ ServeBoat(Head(wire)[2])
           \/ Head(wire)[1] = "board" /\ ServeBoard(Head(wire)[2])
           \/ Head(wire)[1] = "exit" /\ ServeExit
    BY DEF ServeSeat
  <1>2. /\ Len(wire) \in Nat \ {0} /\ Len(wire') = Len(wire) - 1
        /\ wire[1] = Head(wire) /\ wire[1] \in SeatMessages
        /\ \A i \in 1..Len(wire) - 1 : wire'[i] = wire[i + 1]
        /\ \A i \in 2..Len(wire) : wire[i] = wire'[i - 1]
    BY <1>1, WireShrinks
  <1>3. PICK N \in Nat : Len(wire) = N + 1 /\ Len(wire') = N BY <1>2
  <1>4. \A i \in 1..N : wire'[i] = wire[i + 1] BY <1>2, <1>3
  <1>5. \A i \in 1..N + 1, j \in 0..N : Exits(i, j)' <=> Exits(i + 1, j + 1)
    <2> SUFFICES ASSUME NEW i \in 1..N + 1, NEW j \in 0..N
                 PROVE  Exits(i, j)' <=> Exits(i + 1, j + 1)
      OBVIOUS
    <2>1. \A k \in i..j : k + 1 \in i + 1 .. j + 1 /\ wire'[k] = wire[k + 1] BY <1>3, <1>4
    <2>2. \A k \in i + 1 .. j + 1 : k - 1 \in i..j /\ wire'[k - 1] = wire[k]
      BY <1>2, <1>3
    <2>3. QED BY <2>1, <2>2 DEF Exits
  <1>6. \A j \in 1..N + 1 : Exits(1, j) <=> Exits(2, j) \/ wire[1][1] = "exit"
    BY <1>3 DEF Exits
  <1>7. /\ \A r, q \in given.rockets : r = q
        /\ ~Exits(1, N + 1) => given.rockets \subseteq {seat.rocket}
        /\ \A j \in 1..N + 1 : wire[j][1] = "board" =>
              /\ given.rockets # {} => Exits(1, j - 1)
              /\ \A i \in 1..j - 1 : wire[i][1] = "board" => Exits(i + 1, j - 1)
              /\ ~Exits(j + 1, N + 1) => wire[j][2] = seat.rocket
    BY <1>3 DEF RocketInv
  <1>8. ~Exits(1, 0) BY DEF Exits
  <1>9. ASSUME NEW j \in 1..N, wire'[j][1] = "board"
        PROVE  /\ \A i \in 1..j - 1 : wire'[i][1] = "board" => Exits(i + 1, j - 1)'
               /\ ~Exits(j + 1, N)' => wire'[j][2] = seat'.rocket
    <2>1. j + 1 \in 1..N + 1 /\ wire'[j] = wire[j + 1] /\ wire[j + 1][1] = "board"
      BY <1>4, <1>9
    <2>2. ASSUME NEW i \in 1..j - 1, wire'[i][1] = "board"
          PROVE  Exits(i + 1, j - 1)'
      <3>1. i + 1 \in 1..j /\ wire[i + 1][1] = "board" BY <1>4, <2>2
      <3>2. Exits((i + 1) + 1, (j + 1) - 1) BY <1>7, <2>1, <3>1
      <3>3. i + 1 \in 1..N + 1 /\ j - 1 \in 0..N /\ (j + 1) - 1 = (j - 1) + 1 OBVIOUS
      <3>4. QED BY <1>5, <3>2, <3>3
    <2>3. Exits(j + 1, N)' <=> Exits((j + 1) + 1, N + 1) BY <1>5
    <2>4. ~Exits((j + 1) + 1, N + 1) => wire[j + 1][2] = seat.rocket BY <1>7, <2>1
    <2>5. QED BY <1>1, <2>1, <2>2, <2>3, <2>4
  <1>10. /\ \A r, q \in given'.rockets : r = q
         /\ ~Exits(1, N)' => given'.rockets \subseteq {seat'.rocket}
         /\ \A j \in 1..N : wire'[j][1] = "board" /\ given'.rockets # {} => Exits(1, j - 1)'
    <2>1. Exits(1, N)' <=> Exits(2, N + 1) BY <1>5
    <2>2. \A j \in 1..N : /\ Exits(1, j - 1)' <=> Exits(2, j)
                          /\ wire'[j] = wire[j + 1] /\ j + 1 \in 1..N + 1
      BY <1>4, <1>5
    <2>3. CASE wire[1][1] = "exit"
      <3>1. given'.rockets = {}
        BY <1>1, <1>2, <1>7, <2>3 DEF ServeExit, SeatsTyped
      <3>2. QED BY <3>1
    <2>4. CASE wire[1][1] = "board"
      <3>1. given'.rockets \subseteq {wire[1][2]}
        BY <1>1, <1>2, <1>3, <1>7, <1>8, <2>4 DEF ServeBoard, SeatsTyped
      <3>2. ~Exits(2, N + 1) => wire[1][2] = seat.rocket BY <1>7, <2>4
      <3>3. \A j \in 1..N : wire[j + 1][1] = "board" => Exits(2, j)
        <4> SUFFICES ASSUME NEW j \in 1..N, wire[j + 1][1] = "board" PROVE Exits(2, j) OBVIOUS
        <4>1. j + 1 \in 1..N + 1 /\ 1 \in 1..(j + 1) - 1 /\ (j + 1) - 1 = j OBVIOUS
        <4>2. Exits(1 + 1, (j + 1) - 1) BY <1>7, <2>4, <4>1
        <4>3. QED BY <4>1, <4>2
      <3>4. QED BY <1>1, <2>1, <2>2, <3>1, <3>2, <3>3
    <2>5. CASE wire[1][1] \notin {"board", "exit"}
      <3>1. given'.rockets = given.rockets
        BY <1>1, <1>2, <2>5 DEF ServeRide, ServeBoat, SeatsTyped
      <3>2. Exits(1, N + 1) <=> Exits(2, N + 1) BY <1>6, <2>5
      <3>3. \A j \in 1..N : wire[j + 1][1] = "board" /\ given.rockets # {} => Exits(2, j)
        <4> SUFFICES ASSUME NEW j \in 1..N, wire[j + 1][1] = "board", given.rockets # {}
                     PROVE  Exits(2, j)
          OBVIOUS
        <4>1. j + 1 \in 1..N + 1 /\ j \in 1..N + 1 /\ (j + 1) - 1 = j OBVIOUS
        <4>2. Exits(1, (j + 1) - 1) BY <1>7, <4>1
        <4>3. QED BY <1>6, <2>5, <4>1, <4>2
      <3>4. QED BY <1>1, <1>7, <2>1, <2>2, <3>1, <3>2, <3>3
    <2>6. QED BY <2>3, <2>4, <2>5
  <1>11. QED BY <1>3, <1>9, <1>10 DEF RocketInv

\* Every step keeps SeatInv; where a helper sends, LookInv says what the client
\* is not in.
LEMMA SeatStep ==
    ASSUME LookInv, SeatInv, ScreenNext
    PROVE  SeatInv'
  <1>1. ASSUME UNCHANGED <<wire, given, seat, online>> PROVE SeatInv'
    BY <1>1, SeatsUntouched
  <1>2. ASSUME UNCHANGED <<wire, given, online>>, ~online PROVE SeatInv'
    BY <1>2, SeatsAnew DEF SeatInv, SeatsTyped
  <1>3. ASSUME NEW m \in SeatMessages, online, UNCHANGED <<given, online>>,
               wire' = Append(wire, m),
               \/ m[1] \notin {"ride", "boat"} /\ seat'.mammoth = seat.mammoth
               \/ m[1] = "ride" /\ m[2] \in {None, seat'.mammoth}
               \/ m[1] = "boat",
               \/ m[1] # "boat" /\ seat'.boat = seat.boat
               \/ m[1] = "boat" /\ m[2] \in {None, seat'.boat},
               \/ m[1] \notin {"board", "exit"} /\ seat'.rocket = seat.rocket
               \/ m[1] = "board" /\ seat.rocket = None /\ seat'.rocket = m[2]
               \/ m[1] = "exit" /\ seat'.rocket = None
        PROVE  SeatInv'
    <2>1. MammothInv' BY <1>3, MammothSent DEF SeatInv
    <2>2. BoatInv' BY <1>3, BoatSent DEF SeatInv
    <2>3. RocketInv' BY <1>3, RocketSent DEF SeatInv, LookInv
    <2>4. SeatsTyped'
      <3>1. wire' \in Seq(SeatMessages) BY <1>3, WireGrows DEF SeatInv
      <3>2. QED BY <1>3, <3>1 DEF SeatInv, SeatsTyped
    <2>5. QED BY <2>1, <2>2, <2>3, <2>4 DEF SeatInv
  <1>4. online \in BOOLEAN BY DEF SeatInv, SeatsTyped
  <1>5. CASE MenuFrame \/ PausedFrame \/ DeadRespawn \/ DeadToMenu
    BY <1>1, <1>5, SeatsAnew
    DEF MenuFrame, PausedFrame, DeadRespawn, DeadToMenu, Connected, Joined, Cut
  <1>6. CASE RocketMode
    <2>1. CASE UNCHANGED <<seat, wire>> BY <1>1, <1>6, <2>1 DEF RocketMode
    <2>2. CASE ~UNCHANGED <<seat, wire>>
      <3>1. /\ seat' = [seat EXCEPT !.rocket = None] /\ UNCHANGED <<given, online>>
            /\ IF online THEN wire' = Append(wire, <<"exit", None>>) ELSE wire' = wire
        BY <1>6, <2>2 DEF RocketMode, LeaveRocket, Send
      <3>2. <<"exit", None>> \in SeatMessages BY DEF SeatMessages
      <3>3. QED BY <1>2, <1>3, <3>1, <3>2 DEF LookInv, SeatType
    <2>3. QED BY <2>1, <2>2
  <1>7. CASE MountKey
    <2>1. CASE UNCHANGED <<seat, wire>> BY <1>1, <1>7, <2>1 DEF MountKey
    <2>2. CASE ~UNCHANGED <<seat, wire>>
      <3>1. PICK m \in SeatMessages :
              /\ UNCHANGED <<given, online>>
              /\ IF online THEN wire' = Append(wire, m) ELSE wire' = wire
              /\ \/ m[1] = "ride" /\ seat' = [seat EXCEPT !.mammoth = m[2]]
                 \/ m[1] = "boat" /\ seat' = [seat EXCEPT !.boat = m[2]]
        <4>1. UNCHANGED <<given, online>> BY <1>7 DEF MountKey
        <4>2. CASE Send(<<"ride", None>>) /\ seat' = [seat EXCEPT !.mammoth = None]
          <5>1. <<"ride", None>> \in SeatMessages BY DEF SeatMessages
          <5> WITNESS <<"ride", None>> \in SeatMessages
          <5>2. QED BY <4>1, <4>2 DEF Send
        <4>3. CASE Send(<<"boat", None>>) /\ seat' = [seat EXCEPT !.boat = None]
          <5>1. <<"boat", None>> \in SeatMessages BY DEF SeatMessages
          <5> WITNESS <<"boat", None>> \in SeatMessages
          <5>2. QED BY <4>1, <4>3 DEF Send
        <4>4. ASSUME NEW near \in NearMount, Send(near),
                     seat' = IF near[1] = "ride" THEN [seat EXCEPT !.mammoth = near[2]]
                                                 ELSE [seat EXCEPT !.boat = near[2]]
              PROVE  \E m \in SeatMessages :
                        /\ UNCHANGED <<given, online>>
                        /\ IF online THEN wire' = Append(wire, m) ELSE wire' = wire
                        /\ \/ m[1] = "ride" /\ seat' = [seat EXCEPT !.mammoth = m[2]]
                           \/ m[1] = "boat" /\ seat' = [seat EXCEPT !.boat = m[2]]
          <5>1. near \in SeatMessages /\ near[1] \in {"ride", "boat"}
            BY DEF NearMount, SeatMessages
          <5>2. QED BY <4>1, <4>4, <5>1 DEF Send
        <4>5. QED BY <1>7, <2>2, <4>2, <4>3, <4>4 DEF MountKey
      <3>2. QED BY <1>2, <1>3, <1>4, <3>1 DEF LookInv, SeatType
    <2>3. QED BY <2>1, <2>2
  <1>8. CASE ClickRocket
    <2>1. PICK r \in Rockets : Send(<<"board", r>>) /\ seat' = [seat EXCEPT !.rocket = r]
      BY <1>8 DEF ClickRocket, RocketInSight
    <2>2. <<"board", r>> \in SeatMessages BY DEF SeatMessages
    <2>3. seat.rocket = None BY <1>8 DEF ClickRocket, LookInv, StepInv, Walking
    <2>4. UNCHANGED <<given, online>> BY <1>8 DEF ClickRocket
    <2>5. QED BY <1>2, <1>3, <1>4, <2>1, <2>2, <2>3, <2>4 DEF LookInv, SeatType, Send
  <1>9. CASE DeathShown \/ LineDrops
    BY <1>9, SeatsAnew DEF DeathShown, LineDrops, Cut
  <1>10. CASE PlayingFrame \/ DialogOverlays \/ SyncHP \/ ChatOverlay \/ MapOverlay
              \/ InventoryOverlay \/ ChatKeys
    BY <1>1, <1>10 DEF PlayingFrame, DialogOverlays, SyncHP, ChatOverlay, MapOverlay,
                       InventoryOverlay, ChatKeys, world
  <1>11. CASE ClickDialog \/ ClickOther \/ PauseShown \/ UnfocusFreeze \/ Fly
              \/ DrawContract \/ DrawRest
    BY <1>1, <1>11 DEF ClickDialog, ClickOther, PauseShown, UnfocusFreeze, Fly,
                       DrawContract, DrawRest, world
  <1>12. CASE ServeSeat
    <2>1. online BY <1>12 DEF ServeSeat, SeatInv, SeatsTyped
    <2>2. QED BY <1>12, <2>1, MountsServed, RocketsServed DEF SeatInv
  <1>13. CASE SeatDies
    <2>1. UNCHANGED <<wire, seat, online>> /\ given' = [given EXCEPT !.mammoth = None]
      BY <1>13 DEF SeatDies
    <2>2. online BY <1>13 DEF SeatDies, SeatInv, SeatsTyped, Standing
    <2>3. SeatsTyped' BY <2>1, <2>2 DEF SeatInv, SeatsTyped
    <2>4. MammothInv' BY <2>1, <2>2 DEF SeatInv, SeatsTyped, MammothInv, Silent, LastOf
    <2>5. BoatInv' BY <2>1, <2>2 DEF SeatInv, SeatsTyped, BoatInv, Silent, LastOf
    <2>6. RocketInv' BY SMTT(30), <2>1, <2>2 DEF SeatInv, SeatsTyped, RocketInv, Exits
    <2>7. QED BY <2>3, <2>4, <2>5, <2>6 DEF SeatInv
  <1>14. QED
    BY <1>5, <1>6, <1>7, <1>8, <1>9, <1>10, <1>11, <1>12, <1>13 DEF ScreenNext, PlayingStep

\* Once all seat messages are handled, the server holds no seat for the player
\* that the client does not know of (handleMountKey, handleEmptyHandClick,
\* handleRocketExitKey), for wires of any length.
THEOREM SeatsAgree == ScreenSpec => []SeatAgrees
  <1>1. ScreenInit => SeatInv
    <2> SUFFICES ASSUME ScreenInit PROVE SeatInv OBVIOUS
    <2>1. online \in BOOLEAN /\ ~online BY DEF ScreenInit
    <2>2. wire = <<>> /\ given = Standing BY DEF ScreenInit
    <2>3. SeatsTyped BY <2>1, <2>2 DEF SeatsTyped, Standing
    <2>4. QED BY <2>1, <2>3 DEF SeatInv, MammothInv, BoatInv, RocketInv
  <1>2. ASSUME LookInv, SeatInv, [ScreenNext]_screenVars
        PROVE  SeatInv'
    <2>1. CASE UNCHANGED screenVars BY <1>2, <2>1, SeatsUntouched DEF screenVars
    <2>2. QED BY <1>2, <2>1, SeatStep
  <1>3. SeatInv => SeatAgrees
    <2> SUFFICES ASSUME SeatInv, online, wire = <<>>
                 PROVE  /\ given.mammoth \in {None, seat.mammoth}
                        /\ given.boat \in {None, seat.boat}
                        /\ given.rockets \subseteq {seat.rocket}
      BY DEF SeatAgrees
    <2>1. Len(wire) = 0 OBVIOUS
    <2>2. Silent({"ride", "boat"}) /\ Silent({"boat"}) /\ ~Exits(1, Len(wire))
      BY <2>1 DEF Silent, Exits
    <2>3. QED BY <2>2 DEF SeatInv, MammothInv, BoatInv, RocketInv
  <1>4. QED BY <1>1, <1>2, <1>3, ScreensInvariant, PTL DEF ScreenSpec

-----------------------------------------------------------------------------
(* Body *)

BodyRecords ==
    [pos : Int, rel : Int, relInit : BOOLEAN, helio : BOOLEAN, creative : BOOLEAN,
     attached : {"none", "earth", "sun"}]

\* The domains of the variables; a pause and a rocket close every window, and a
\* rocket is boarded when Earth is known.
BodyTyped ==
    /\ body \in BodyRecords /\ earth \in Nat /\ place \in Int
    /\ window \in {"none", "dialog", "bag", "map", "mapbag"}
    /\ lock \in Int \cup {Loose} /\ freeze \in Int \cup {Loose}
    /\ activity \in {"playing", "paused", "piloting"}
    /\ flown \in BOOLEAN /\ spoilt \in BOOLEAN
    /\ activity # "playing" => window = "none"
    /\ activity = "piloting" => earth # 0

\* The body b is at the place p of an Earth that is at e, on foot: RelPos says so,
\* or Pos as long as it is in the frame of Earth.  In flight nothing does.
Placed(b, e, p) ==
    /\ b.helio => e # 0 /\ b.relInit
    /\ ~b.creative => IF b.relInit THEN b.rel = p ELSE b.pos = p

\* What a window has locked is the place.  Pos is not part of it: between two
\* frames on foot it may be behind, and a flyer drifts or is left behind.
PlaceInv ==
    /\ BodyTyped
    /\ ~spoilt => /\ AnyUI /\ lock # Loose => lock = place
                  /\ Placed(body, earth, place)
    /\ PlaceKept

\* What the helpers write into a body.
LEMMA BodyEdits ==
    ASSUME NEW b \in BodyRecords, NEW x \in Int, NEW y \in Int,
           NEW t \in BOOLEAN, NEW u \in BOOLEAN, NEW a \in {"none", "earth", "sun"}
    PROVE  /\ [b EXCEPT !.pos = x] \in BodyRecords
           /\ [b EXCEPT !.rel = x, !.pos = y] \in BodyRecords
           /\ [b EXCEPT !.pos = x, !.helio = t] \in BodyRecords
           /\ [b EXCEPT !.pos = x, !.relInit = t, !.helio = u] \in BodyRecords
           /\ [b EXCEPT !.pos = x, !.rel = y, !.relInit = t] \in BodyRecords
           /\ [b EXCEPT !.rel = x, !.relInit = t, !.creative = u] \in BodyRecords
           /\ [b EXCEPT !.pos = x, !.creative = t, !.attached = a] \in BodyRecords
           /\ [b EXCEPT !.rel = x, !.relInit = t, !.pos = y] \in BodyRecords
           /\ [b EXCEPT !.attached = a] \in BodyRecords
  BY DEF BodyRecords

\* The helpers of a frame return bodies.
LEMMA HelperTypes ==
    ASSUME BodyTyped, NEW b \in BodyRecords, NEW e \in Nat, NEW w \in Int
    PROVE  /\ \A v \in Carries : Synced(b, e, v) \in BodyRecords
           /\ LockedAt(b, e) \in Int /\ UILocked(b, e) \in BodyRecords
           /\ Switched(b, e) \in BodyRecords /\ HelioInit(b, e) \in BodyRecords
           /\ Flies(b, w) \in BodyRecords /\ Walks(b, e, w) \in BodyRecords
           /\ Falls(b, e, w) \in BodyRecords /\ Attach(b) \in BodyRecords
           /\ \A tp \in BOOLEAN : Teleported(b, tp) \in BodyRecords
           /\ AtRocket(b, e) \in BodyRecords
  <1>0. b.pos \in Int /\ b.rel \in Int /\ b.pos - e \in Int /\ b.pos + e \in Int
        /\ e + b.rel \in Int /\ b.rel + w \in Int /\ e + b.rel + w \in Int
    BY DEF BodyRecords
  <1>a. b.attached \in {"none", "earth", "sun"} BY DEF BodyRecords
  <1>b. TRUE \in BOOLEAN /\ FALSE \in BOOLEAN OBVIOUS
  <1>1. \A v \in Carries : Synced(b, e, v) \in BodyRecords
    <2> TAKE v \in Carries
    <2>1. b.pos + v \in Int BY <1>0 DEF Carries
    <2>2. [b EXCEPT !.pos = e + b.rel] \in BodyRecords BY <1>0, BodyEdits, Zenon
    <2>3. [b EXCEPT !.pos = b.pos + v] \in BodyRecords BY <2>1, BodyEdits, Zenon
    <2>4. QED BY <2>2, <2>3 DEF Synced
  <1>2. LockedAt(b, e) \in Int
    <2>1. lock \in Int \cup {Loose} BY DEF BodyTyped
    <2>2. QED BY <1>0, <2>1 DEF LockedAt
  <1>3. UILocked(b, e) \in BodyRecords
    <2> DEFINE t == b.relInit \/ lock = Loose
               x == LockedAt(b, e)
               y == e + LockedAt(b, e)
    <2>1. t \in BOOLEAN OBVIOUS
    <2>2. x \in Int /\ y \in Int BY <1>2
    <2>3. UILocked(b, e) = [b EXCEPT !.pos = y, !.rel = x, !.relInit = t]
      BY DEF UILocked
    <2> HIDE DEF t, x, y
    <2>4. [b EXCEPT !.pos = y, !.rel = x, !.relInit = t] \in BodyRecords
      BY <2>1, <2>2 DEF BodyRecords
    <2>5. QED BY <2>3, <2>4
  <1>4. Switched(b, e) \in BodyRecords
    <2>1. CASE b.creative
      <3> DEFINE x == b.pos - e
      <3>1. x \in Int BY <1>0
      <3>2. Switched(b, e) = [b EXCEPT !.rel = x, !.relInit = TRUE, !.creative = FALSE]
        BY <2>1 DEF Switched
      <3> HIDE DEF x
      <3>3. [b EXCEPT !.rel = x, !.relInit = TRUE, !.creative = FALSE] \in BodyRecords
        BY <1>b, <3>1, BodyEdits, Zenon
      <3>4. QED BY <3>2, <3>3
    <2>2. CASE ~b.creative
      <3> DEFINE x == IF b.relInit THEN e + b.rel ELSE b.pos
                 a == IF b.attached = "none" THEN "earth" ELSE b.attached
      <3>1. x \in Int
        <4>1. CASE b.relInit BY <1>0, <4>1
        <4>2. CASE ~b.relInit BY <1>0, <4>2
        <4> QED BY <4>1, <4>2
      <3>2. a \in {"none", "earth", "sun"} BY <1>a
      <3>3. Switched(b, e) = [b EXCEPT !.pos = x, !.creative = TRUE, !.attached = a]
        BY <2>2 DEF Switched
      <3> HIDE DEF x, a
      <3>4. [b EXCEPT !.pos = x, !.creative = TRUE, !.attached = a] \in BodyRecords
        BY <1>b, <3>1, <3>2, BodyEdits, Zenon
      <3>5. QED BY <3>3, <3>4
    <2>3. QED BY <2>1, <2>2
  <1>5. HelioInit(b, e) \in BodyRecords
    <2>2. [b EXCEPT !.pos = b.pos + e, !.helio = TRUE] \in BodyRecords
      BY <1>0, <1>b, BodyEdits, Zenon
    <2>3. QED BY <2>2 DEF HelioInit
  <1>6. Flies(b, w) \in BodyRecords BY DEF Flies, BodyRecords
  <1>7. Walks(b, e, w) \in BodyRecords
    <2> DEFINE r == w + IF b.relInit THEN b.rel ELSE b.pos - e
    <2>0. r \in Int
      <3>1. CASE b.relInit BY <1>0, <3>1
      <3>2. CASE ~b.relInit BY <1>0, <3>2
      <3> QED BY <3>1, <3>2
    <2> HIDE DEF r
    <2>1. e + r \in Int BY <2>0
    <2>2. [b EXCEPT !.rel = r, !.relInit = TRUE, !.pos = e + r] \in BodyRecords
      BY Zenon, <2>0, <2>1 DEF BodyRecords
    <2>3. QED BY <2>2 DEF Walks, r
  <1>8. Falls(b, e, w) \in BodyRecords
    <2>1. QED BY Zenon, <1>0, BodyEdits DEF Falls
  <1>9. Attach(b) \in BodyRecords
    <2> DEFINE a == CASE b.attached = "none" -> "earth"
                      [] b.attached = "earth" -> "sun"
                      [] b.attached = "sun" -> "none"
    <2>1. a \in {"none", "earth", "sun"} BY <1>a
    <2>2. Attach(b) = [b EXCEPT !.attached = a] BY DEF Attach
    <2> HIDE DEF a
    <2>3. [b EXCEPT !.attached = a] \in BodyRecords BY <2>1 DEF BodyRecords
    <2>4. QED BY <2>2, <2>3
  <1>10. \A tp \in BOOLEAN : Teleported(b, tp) \in BodyRecords
    <2>1. Landing \in Int BY BodyAssumption
    <2>2. [b EXCEPT !.pos = Landing, !.relInit = FALSE, !.helio = FALSE] \in BodyRecords
      BY <1>b, <2>1, BodyEdits, Zenon
    <2>3. QED BY <2>2 DEF Teleported
  <1>12. AtRocket(b, e) \in BodyRecords
    <2>1. e + Pad \in Int BY BodyAssumption
    <2>2. [b EXCEPT !.pos = e + Pad, !.helio = TRUE] \in BodyRecords
      BY <1>b, <2>1, BodyEdits, Zenon
    <2>3. QED BY <2>2 DEF AtRocket
  <1>11. QED
    BY <1>1, <1>2, <1>3, <1>4, <1>5, <1>6, <1>7, <1>8, <1>9, <1>10, <1>12

\* The place as a frame finds it, once what was locked is kept.
PlaceNow(b, e, p) ==
    IF AnyUI /\ lock # Loose THEN p ELSE PlaceOf(Begun(b, e), e, p)

\* A frame of the game leaves the variables in their domains.
LEMMA FrameTyped ==
    ASSUME BodyTyped, NEW b \in BodyRecords, NEW e \in Nat, NEW p \in Int,
           NEW f1 \in BOOLEAN, NEW keys \in BOOLEAN,
           GameFrame(b, e, p, f1, keys), earth' = e, spoilt' \in BOOLEAN
    PROVE  BodyTyped'
  <1> DEFINE c == Begun(b, e)
             d == IF f1 THEN Switched(c, e) ELSE c
             q == PlaceNow(b, e, p)
  <1>1. c \in BodyRecords /\ LockAfter(b, e) \in Int \cup {Loose}
    <2>1. UILocked(b, e) \in BodyRecords /\ LockedAt(b, e) \in Int BY HelperTypes
    <2>2. QED BY <2>1 DEF Begun, LockAfter
  <1>2. d \in BodyRecords BY <1>1, HelperTypes
  <1>3. q \in Int
    <2>1. c.pos \in Int BY <1>1 DEF BodyRecords
    <2>2. QED BY <2>1 DEF PlaceNow, PlaceOf
  <1>4. /\ lock' = LockAfter(b, e)
        /\ \/ EndFlying(d, e, q) \/ EndInWindow(d, q) \/ EndUnfocused(d, e, q) \/ EndAway(d, e, q)
    BY DEF GameFrame, PlaceNow
  <1> HIDE DEF c, d, q
  <1>5. /\ body' \in BodyRecords /\ place' \in Int /\ freeze' \in Int \cup {Loose}
        /\ window' \in {"none", "dialog", "bag", "map", "mapbag"} /\ flown' \in BOOLEAN
        /\ activity' \in {"playing", "paused", "piloting"}
        /\ activity' # "playing" => window' = "none"
        /\ activity' = "piloting" => e # 0
    <2>1. CASE EndFlying(d, e, q)
      <3>1. PICK w \in 0..1, r \in BOOLEAN :
              LET h == HelioInit(d, e)
                  g == IF h.creative THEN Flies(h, w) ELSE Walks(h, e, w)
              IN  body' = (IF r /\ g.creative THEN Attach(g) ELSE g) /\ place' = q + w
        BY <2>1 DEF EndFlying
      <3>2. w \in Int OBVIOUS
      <3>3. HelioInit(d, e) \in BodyRecords BY <1>2, <3>2, HelperTypes
      <3>4. /\ Flies(HelioInit(d, e), w) \in BodyRecords
            /\ Walks(HelioInit(d, e), e, w) \in BodyRecords
        BY <3>2, <3>3, HelperTypes
      <3>5. /\ Attach(Flies(HelioInit(d, e), w)) \in BodyRecords
            /\ Attach(Walks(HelioInit(d, e), e, w)) \in BodyRecords
        BY <3>2, <3>4, HelperTypes
      <3>6. body' \in BodyRecords BY <3>1, <3>4, <3>5
      <3>7. place' \in Int BY <1>3, <3>1
      <3>8. QED BY <2>1, <3>6, <3>7 DEF EndFlying
    <2>2. CASE EndInWindow(d, q) BY <1>2, <1>3, <2>2 DEF EndInWindow, Windows, BodyTyped
    <2>3. CASE EndUnfocused(d, e, q)
      <3>1. d.pos - e \in Int BY <1>2 DEF BodyRecords
      <3>2. freeze' \in Int \cup {Loose} BY <2>3, <3>1 DEF EndUnfocused, BodyTyped
      <3>3. d.helio => freeze' \in Int BY <2>3, <3>1 DEF EndUnfocused, BodyTyped
      <3>4. \A x \in Int : e + x \in Int /\ [d EXCEPT !.pos = e + x] \in BodyRecords
        BY <1>2 DEF BodyRecords
      <3>5. body' \in BodyRecords BY <1>2, <2>3, <3>3, <3>4 DEF EndUnfocused
      <3>6. place' \in Int BY <1>3, <2>3, <3>3 DEF EndUnfocused
      <3>7. QED BY <2>3, <3>2, <3>5, <3>6 DEF EndUnfocused
    <2>4. CASE EndAway(d, e, q) BY <1>2, <1>3, <2>4 DEF EndAway, BodyTyped
    <2>5. QED BY <1>4, <2>1, <2>2, <2>3, <2>4
  <1>6. QED BY <1>1, <1>4, <1>5 DEF BodyTyped

\* syncFlightBodies moves Pos only, and on foot it puts it where RelPos says.
LEMMA SyncPlaces ==
    ASSUME BodyTyped, NEW b \in BodyRecords, NEW e \in Nat, NEW v \in Carries
    PROVE  /\ Synced(b, e, v) \in BodyRecords
           /\ Synced(b, e, v).helio = b.helio /\ Synced(b, e, v).creative = b.creative
           /\ \A p \in Int : Placed(b, e, p) => Placed(Synced(b, e, v), e, p)
           /\ ~b.creative /\ b.relInit => Synced(b, e, v).pos = e + Synced(b, e, v).rel
  <1>1. Synced(b, e, v) \in BodyRecords
    <2>1. 0 \in Int OBVIOUS
    <2>2. QED BY <2>1, HelperTypes
  <1>2. /\ Synced(b, e, v).helio = b.helio /\ Synced(b, e, v).creative = b.creative
        /\ Synced(b, e, v).rel = b.rel /\ Synced(b, e, v).relInit = b.relInit
        /\ ~b.creative => Synced(b, e, v).pos = IF b.relInit THEN e + b.rel ELSE b.pos
    BY DEF Synced, BodyRecords
  <1>3. QED BY <1>1, <1>2 DEF Placed

\* The beginning of a frame: on foot the body has gone with Earth to e, and an
\* open window keeps the place it has locked, a flyer's too.
LEMMA FrameBegins ==
    ASSUME BodyTyped, NEW b \in BodyRecords, NEW e \in Nat, NEW p \in Int,
           Placed(b, e, p), b.helio \/ ~AnyUI, b.helio \/ ~b.creative,
           ~b.creative /\ b.relInit => b.pos = e + b.rel,
           AnyUI /\ lock # Loose => lock = p
    PROVE  /\ Placed(Begun(b, e), e, PlaceNow(b, e, p))
           /\ b.helio => Begun(b, e).pos = e + PlaceNow(b, e, p)
           /\ AnyUI => LockAfter(b, e) = PlaceNow(b, e, p)
           /\ Begun(b, e).helio = b.helio /\ Begun(b, e).creative = b.creative
           /\ Begun(b, e) \in BodyRecords /\ PlaceNow(b, e, p) \in Int
  <1>1. b.pos \in Int /\ b.rel \in Int BY DEF BodyRecords
  <1>2. CASE ~AnyUI BY <1>1, <1>2 DEF Begun, PlaceNow, PlaceOf, Placed
  <1>3. CASE AnyUI
    <2>1. Begun(b, e) = UILocked(b, e) /\ LockAfter(b, e) = LockedAt(b, e)
      BY <1>3 DEF Begun, LockAfter
    <2>2. UILocked(b, e) \in BodyRecords /\ LockedAt(b, e) \in Int
      BY <1>1, HelperTypes
    <2>3. /\ UILocked(b, e).pos = e + LockedAt(b, e) /\ UILocked(b, e).rel = LockedAt(b, e)
          /\ UILocked(b, e).helio = b.helio /\ UILocked(b, e).creative = b.creative
          /\ UILocked(b, e).relInit = (b.relInit \/ lock = Loose)
      BY <2>2 DEF UILocked, BodyRecords
    <2>4. LockedAt(b, e) = PlaceNow(b, e, p)
      <3>1. CASE lock # Loose BY <1>3, <3>1 DEF LockedAt, PlaceNow
      <3>2. CASE lock = Loose
        <4>1. LockedAt(b, e) = b.pos - e BY <3>2 DEF LockedAt
        <4>2. PlaceNow(b, e, p) = PlaceOf(UILocked(b, e), e, p) BY <2>1, <3>2 DEF PlaceNow
        <4>3. CASE b.creative BY <1>1, <2>3, <4>1, <4>2, <4>3 DEF PlaceOf
        <4>4. CASE ~b.creative BY <1>1, <1>3, <2>3, <4>1, <4>2, <4>4 DEF PlaceOf, Placed
        <4>5. QED BY <4>3, <4>4
      <3>3. QED BY <3>1, <3>2
    <2>5. QED BY <1>3, <2>1, <2>2, <2>3, <2>4 DEF Placed
  <1>4. QED BY <1>2, <1>3

\* F1 hands the body over from the one frame to the other.
LEMMA FrameSwitches ==
    ASSUME NEW c \in BodyRecords, NEW e \in Nat, NEW q \in Int,
           Placed(c, e, q), c.helio, c.pos = e + q
    PROVE  /\ Placed(Switched(c, e), e, q)
           /\ Switched(c, e).helio /\ Switched(c, e).pos = e + q
  BY DEF Placed, Switched, BodyRecords

\* A frame of flight ends where the player ought to be.
LEMMA FlightEnds ==
    ASSUME BodyTyped, NEW d \in BodyRecords, NEW e \in Nat, NEW q \in Int,
           Placed(d, e, q), d.helio \/ ~d.creative, d.helio => d.pos = e + q,
           EndFlying(d, e, q)
    PROVE  /\ body'.pos = e + place' /\ Placed(body', e, place')
           /\ window' = "none" /\ activity' = "playing"
  <1>1. PICK w \in 0..1, r \in BOOLEAN :
          LET h == HelioInit(d, e)
              g == IF h.creative THEN Flies(h, w) ELSE Walks(h, e, w)
          IN  body' = (IF r /\ g.creative THEN Attach(g) ELSE g) /\ place' = q + w
    BY DEF EndFlying
  <1> DEFINE h == HelioInit(d, e)
             g == IF h.creative THEN Flies(h, w) ELSE Walks(h, e, w)
  <1>2. h \in BodyRecords
    <2>1. w \in Int OBVIOUS
    <2>2. QED BY <2>1, HelperTypes
  <1>3. /\ h.creative = d.creative /\ h.rel = d.rel /\ h.relInit = d.relInit
        /\ d.creative => h.pos = e + q /\ h.helio
        /\ h.helio => e # 0
        /\ ~d.creative /\ ~d.relInit => h.pos = e + q
    BY DEF HelioInit, Placed, BodyRecords
  <1>4. g \in BodyRecords /\ g.pos = e + (q + w) /\ Placed(g, e, q + w)
    <2> HIDE DEF h
    <2>1. w \in Int OBVIOUS
    <2>2. g \in BodyRecords BY <1>2, <2>1, HelperTypes
    <2>3. CASE d.creative
      <3>1. g.pos = h.pos + w /\ g.creative = h.creative /\ g.helio = h.helio /\ g.relInit = h.relInit
        BY <1>2, <1>3, <2>3 DEF Flies, BodyRecords
      <3>2. d.relInit BY <2>3 DEF Placed
      <3>3. g.relInit /\ g.creative /\ e # 0 BY <1>3, <2>3, <3>1, <3>2
      <3>4. g.pos = e + (q + w) BY <1>3, <2>1, <2>3, <3>1
      <3>5. QED BY <2>2, <3>3, <3>4 DEF Placed
    <2>4. CASE ~d.creative
      <3> DEFINE x == w + IF h.relInit THEN h.rel ELSE h.pos - e
      <3>1. x = q + w BY SMTT(30), <1>2, <1>3, <2>1, <2>4 DEF Placed, BodyRecords
      <3>2. x \in Int BY <2>1, <3>1
      <3>3. g = [h EXCEPT !.rel = x, !.relInit = TRUE, !.pos = e + x]
        BY <1>3, <2>4 DEF Walks
      <3> HIDE DEF x
      <3>4. /\ g.pos = e + x /\ g.rel = x /\ g.relInit = TRUE /\ g.helio = h.helio
            /\ g.creative = h.creative
        BY <1>2, <3>2, <3>3 DEF BodyRecords
      <3>5. QED BY <1>3, <2>2, <2>4, <3>1, <3>4 DEF Placed
    <2>5. QED BY <1>3, <2>3, <2>4
  <1>5. body' = (IF r /\ g.creative THEN Attach(g) ELSE g) /\ place' = q + w BY <1>1
  <1> HIDE DEF g
  <1>6. /\ Attach(g).pos = g.pos /\ Attach(g).rel = g.rel /\ Attach(g).relInit = g.relInit
        /\ Attach(g).helio = g.helio /\ Attach(g).creative = g.creative
    BY <1>4 DEF Attach, BodyRecords
  <1>7. body'.pos = e + place' /\ Placed(body', e, place') BY <1>4, <1>5, <1>6 DEF Placed
  <1>8. QED BY <1>7 DEF EndFlying

\* A whole frame of the game that no switch of frames spoils keeps the place.
LEMMA FramePlaces ==
    ASSUME BodyTyped, NEW b \in BodyRecords, NEW e \in Nat, NEW p \in Int,
           NEW f1 \in BOOLEAN, NEW keys \in BOOLEAN,
           GameFrame(b, e, p, f1, keys), earth' = e,
           Placed(b, e, p), b.helio \/ ~(AnyUI \/ f1 \/ b.creative),
           ~b.creative /\ b.relInit => b.pos = e + b.rel,
           AnyUI /\ lock # Loose => lock = p
    PROVE  /\ AnyUI' /\ lock' # Loose => lock' = place'
           /\ Placed(body', earth', place') /\ PlaceKept'
  <1> DEFINE c == Begun(b, e)
             d == IF f1 THEN Switched(c, e) ELSE c
             q == PlaceNow(b, e, p)
  <1>1. /\ Placed(c, e, q) /\ (b.helio => c.pos = e + q) /\ (AnyUI => LockAfter(b, e) = q)
        /\ c.helio = b.helio /\ c.creative = b.creative /\ c \in BodyRecords /\ q \in Int
    BY FrameBegins
  <1>2. d \in BodyRecords BY <1>1, HelperTypes
  <1>3. Placed(d, e, q) /\ (d.helio \/ ~d.creative) /\ (d.helio => d.pos = e + q)
    BY <1>1, FrameSwitches
  <1>4. /\ lock' = LockAfter(b, e)
        /\ \/ EndFlying(d, e, q) \/ EndInWindow(d, q) \/ EndUnfocused(d, e, q) \/ EndAway(d, e, q)
    BY DEF GameFrame, PlaceNow
  <1> HIDE DEF c, d, q
  <1>5. lock' # Loose => lock' = q BY <1>1, <1>4 DEF LockAfter
  <1>6. CASE EndFlying(d, e, q)
    BY <1>2, <1>1, <1>3, <1>6, FlightEnds DEF AnyUI, PlaceKept
  <1>7. CASE EndInWindow(d, q)
    BY <1>3, <1>5, <1>7 DEF EndInWindow, PlaceKept
  <1>8. CASE EndUnfocused(d, e, q)
    <2>1. window' = "none" /\ activity' = "playing" /\ flown' = FALSE BY <1>8 DEF EndUnfocused
    <2>a. AnyUI' = FALSE /\ PlaceKept' BY <2>1 DEF AnyUI, PlaceKept
    <2>2. CASE ~d.helio BY <1>3, <1>8, <2>2, <2>a DEF EndUnfocused
    <2>3. CASE d.helio
      <3>1. /\ body' = [d EXCEPT !.pos = e + freeze']
            /\ place' = IF d.creative THEN freeze' ELSE q
        BY <1>8, <2>3 DEF EndUnfocused
      <3>2. /\ body'.pos = e + freeze' /\ body'.rel = d.rel /\ body'.relInit = d.relInit
            /\ body'.helio = d.helio /\ body'.creative = d.creative
        BY <1>2, <3>1 DEF BodyRecords
      <3>3. QED BY <1>3, <2>3, <2>a, <3>1, <3>2 DEF Placed
    <2>4. QED BY <2>2, <2>3
  <1>9. CASE EndAway(d, e, q)
    BY <1>3, <1>9 DEF EndAway, AnyUI, PlaceKept
  <1>10. QED BY <1>4, <1>6, <1>7, <1>8, <1>9

\* Earth stays in its domain, and once known it stays known.
LEMMA EarthKnown ==
    ASSUME BodyTyped, NEW e \in EarthMoves
    PROVE  e \in Nat /\ (earth # 0 => e # 0)
  BY BodyAssumption DEF EarthMoves, BodyTyped

\* A teleport puts the body down in the frame of Earth.
LEMMA TeleportPlaces ==
    ASSUME BodyTyped, ~spoilt => Placed(body, earth, place), NEW e \in EarthMoves, NEW tp \in BOOLEAN
    PROVE  /\ ~spoilt => Placed(Teleported(body, tp), e, IF tp THEN Landing ELSE place)
           /\ Teleported(body, tp) \in BodyRecords
           /\ (IF tp THEN Landing ELSE place) \in Int
           /\ Teleported(body, tp).helio => ~tp
           /\ Teleported(body, tp).creative = body.creative
  <1>1. Teleported(body, tp) \in BodyRecords BY HelperTypes, EarthKnown, BodyAssumption DEF BodyTyped
  <1>2. (IF tp THEN Landing ELSE place) \in Int BY BodyAssumption DEF BodyTyped
  <1>3. CASE tp
    <2>1. /\ Teleported(body, tp).helio = FALSE /\ Teleported(body, tp).relInit = FALSE
          /\ Teleported(body, tp).pos = Landing
          /\ Teleported(body, tp).creative = body.creative
      BY <1>3 DEF Teleported, BodyTyped, BodyRecords
    <2>2. QED BY <1>1, <1>2, <1>3, <2>1 DEF Placed
  <1>4. CASE ~tp
    <2>1. Teleported(body, tp) = body BY <1>4 DEF Teleported
    <2>2. ~spoilt => Placed(body, e, place) BY EarthKnown DEF Placed
    <2>3. QED BY <1>1, <1>2, <1>4, <2>1, <2>2
  <1>5. QED BY <1>3, <1>4

\* The body of a new flight controller is at SpawnFromID, in the frame of Earth.
LEMMA NewBodyPlaced ==
    /\ NewBody \in BodyRecords /\ Spawn \in Int
    /\ \A e \in Nat : Placed(NewBody, e, Spawn)
  <1>1. Spawn \in Int BY BodyAssumption
  <1>2. NewBody \in BodyRecords BY <1>1 DEF NewBody, BodyRecords
  <1>3. \A e \in Nat : Placed(NewBody, e, Spawn)
    BY DEF NewBody, Placed
  <1>4. QED BY <1>1, <1>2, <1>3

\* Every step keeps PlaceInv.
LEMMA PlaceStep ==
    ASSUME PlaceInv, BodyNext
    PROVE  PlaceInv'
  <1>1. BodyTyped /\ spoilt \in BOOLEAN /\ body \in BodyRecords BY DEF PlaceInv, BodyTyped
  <1>2. CASE BodyPlaying
    <2>1. PICK e \in EarthMoves, v \in Carries, tp \in BOOLEAN, f1 \in BOOLEAN :
            /\ earth' = e
            /\ GameFrame(Synced(Teleported(body, tp), e, v), e, IF tp THEN Landing ELSE place, f1, f1)
            /\ spoilt' = (spoilt \/ Spoils(Teleported(body, tp), f1))
      BY <1>2 DEF BodyPlaying
    <2> DEFINE b == Teleported(body, tp)
               p == IF tp THEN Landing ELSE place
               c == Synced(b, e, v)
    <2>2. /\ ~spoilt => Placed(b, e, p)
          /\ b \in BodyRecords /\ p \in Int /\ (b.helio => ~tp)
      BY <1>1, TeleportPlaces DEF PlaceInv
    <2>3. e \in Nat BY <1>1, EarthKnown
    <2>4. /\ c \in BodyRecords /\ c.helio = b.helio /\ c.creative = b.creative
          /\ ~spoilt => Placed(c, e, p)
          /\ ~b.creative /\ b.relInit => c.pos = e + c.rel
      BY <1>1, <2>2, <2>3, SyncPlaces
    <2>5. BodyTyped'
      <3>1. spoilt' \in BOOLEAN BY <2>1
      <3>2. QED BY <1>1, <2>1, <2>2, <2>3, <2>4, <3>1, FrameTyped
    <2>6. CASE spoilt' BY <2>5, <2>6 DEF PlaceInv, PlaceKept
    <2>7. CASE ~spoilt'
      <3>1. ~spoilt /\ (b.helio \/ ~(AnyUI \/ f1 \/ b.creative)) BY <1>1, <2>1, <2>7 DEF Spoils
      <3>2. AnyUI /\ lock # Loose => lock = p BY <2>2, <3>1 DEF PlaceInv
      <3>3. Placed(c, e, p) BY <2>4, <3>1
      <3>4. ~c.creative /\ c.relInit => c.pos = e + c.rel BY <2>2, <2>4 DEF Synced, BodyRecords
      <3>5. QED BY <1>1, <2>1, <2>2, <2>3, <2>4, <2>5, <3>1, <3>2, <3>3, <3>4, FramePlaces DEF PlaceInv
    <2>8. QED BY <2>6, <2>7
  <1>3. CASE BodyPiloting
    <2>1. PICK e \in EarthMoves, v \in Carries, tp \in BOOLEAN :
            /\ earth' = e /\ spoilt' = (spoilt \/ Spoils(Teleported(body, tp), FALSE))
            /\ \/ /\ body' = AtRocket(Teleported(body, tp), e) /\ flown' = FALSE
                  /\ UNCHANGED <<window, lock, freeze, activity, place>>
               \/ GameFrame(Synced(AtRocket(Teleported(body, tp), e), e, v), e, place, FALSE, TRUE)
      BY <1>3 DEF BodyPiloting
    <2> DEFINE b == Teleported(body, tp)
               c == AtRocket(b, e)
               g == Synced(c, e, v)
    <2>2. b \in BodyRecords /\ (b.helio => ~tp)
      BY <1>1, TeleportPlaces DEF PlaceInv
    <2>3. e \in Nat /\ e # 0 /\ activity = "piloting" /\ window = "none"
      BY <1>1, <1>3, EarthKnown DEF BodyTyped, BodyPiloting
    <2>4. c \in BodyRecords
      <3>1. 0 \in Int OBVIOUS
      <3>2. QED BY <1>1, <2>2, <2>3, <3>1, HelperTypes
    <2>5. place \in Int /\ spoilt' \in BOOLEAN BY <1>1, <2>1 DEF BodyTyped
    <2>6. ~spoilt' => ~spoilt /\ b.helio /\ b = body
      <3>1. b.helio => b = body BY <2>2 DEF Teleported
      <3>2. QED BY <1>1, <2>1, <2>3, <3>1 DEF Spoils
    <2>7. /\ c.helio = TRUE /\ c.creative = b.creative /\ c.rel = b.rel
          /\ c.relInit = b.relInit
      BY <2>2, <2>3, BodyAssumption DEF AtRocket, BodyRecords
    <2>8. ~spoilt' => c.relInit /\ Placed(c, e, place)
      BY <2>3, <2>6, <2>7 DEF PlaceInv, Placed
    <2>9. CASE /\ body' = c /\ flown' = FALSE
               /\ UNCHANGED <<window, lock, freeze, activity, place>>
      <3>1. BodyTyped' BY <1>1, <2>1, <2>3, <2>4, <2>5, <2>9 DEF BodyTyped
      <3>2. QED BY <2>1, <2>3, <2>8, <2>9, <3>1 DEF PlaceInv, PlaceKept, AnyUI
    <2>10. CASE GameFrame(g, e, place, FALSE, TRUE)
      <3>1. /\ g \in BodyRecords /\ g.helio = TRUE
            /\ ~spoilt' => Placed(g, e, place)
            /\ ~spoilt' /\ ~g.creative => g.pos = e + g.rel
        BY <1>1, <2>3, <2>4, <2>5, <2>7, <2>8, SyncPlaces
      <3>2. BodyTyped' BY <1>1, <2>1, <2>3, <2>5, <2>10, <3>1, FrameTyped
      <3>3. CASE spoilt' BY <3>2, <3>3 DEF PlaceInv, PlaceKept
      <3>4. CASE ~spoilt'
        <4>1. ~AnyUI BY <2>3 DEF AnyUI
        <4>2. QED BY <1>1, <2>1, <2>3, <2>5, <2>10, <3>1, <3>2, <3>4, <4>1, FramePlaces DEF PlaceInv
      <3>5. QED BY <3>3, <3>4
    <2>11. QED BY <2>1, <2>9, <2>10
  <1>4. CASE BodyPaused
    <2>1. PICK e \in EarthMoves, tp \in BOOLEAN, w \in 0..1 :
            LET b == Teleported(body, tp)
                p == IF tp THEN Landing ELSE place
            IN  /\ earth' = e
                /\ IF b.helio /\ ~b.creative /\ b.relInit
                     THEN body' = Falls(b, e, w) /\ place' = p + w
                     ELSE body' = b /\ place' = p
      BY <1>4 DEF BodyPaused
    <2> DEFINE b == Teleported(body, tp)
               p == IF tp THEN Landing ELSE place
    <2>2. /\ ~spoilt => Placed(b, e, p)
          /\ b \in BodyRecords /\ p \in Int /\ (b.helio => ~tp) /\ b.creative = body.creative
      BY <1>1, TeleportPlaces DEF PlaceInv
    <2>3. e \in Nat /\ w \in Int BY <1>1, EarthKnown
    <2>4. /\ window = "none" /\ flown' = FALSE /\ UNCHANGED <<window, lock, freeze, spoilt>>
          /\ activity' \in {"paused", "playing"}
      BY <1>1, <1>4 DEF BodyPaused, BodyTyped
    <2>5. earth' = e BY <2>1
    <2>6. CASE b.helio /\ ~b.creative /\ b.relInit
      <3>1. body' = Falls(b, e, w) /\ place' = p + w BY <2>1, <2>6
      <3>2. Falls(b, e, w) \in BodyRecords BY <1>1, <2>2, <2>3, HelperTypes
      <3>3. /\ Falls(b, e, w).rel = b.rel + w /\ Falls(b, e, w).pos = e + b.rel + w
            /\ Falls(b, e, w).relInit = b.relInit /\ Falls(b, e, w).helio = b.helio
            /\ Falls(b, e, w).creative = b.creative
        BY <2>2, <2>3 DEF Falls, BodyRecords
      <3>4. ~spoilt => Placed(body', e, place') /\ body'.pos = e + place'
        BY <2>2, <2>3, <2>6, <3>1, <3>3 DEF Placed, BodyRecords
      <3>5. place' \in Int /\ body' \in BodyRecords BY <2>2, <2>3, <3>1, <3>2
      <3>6. BodyTyped' BY <1>1, <2>3, <2>4, <2>5, <3>5 DEF BodyTyped
      <3>7. QED BY <2>4, <2>5, <3>4, <3>6 DEF PlaceInv, PlaceKept, AnyUI
    <2>7. CASE ~(b.helio /\ ~b.creative /\ b.relInit)
      <3>1. body' = b /\ place' = p BY <2>1, <2>7
      <3>2. ~spoilt => Placed(body', e, place') /\ (body'.helio => body'.creative)
        BY <2>2, <2>7, <3>1 DEF Placed
      <3>3. BodyTyped' BY <1>1, <2>2, <2>3, <2>4, <2>5, <3>1 DEF BodyTyped
      <3>4. QED BY <2>4, <2>5, <3>2, <3>3 DEF PlaceInv, PlaceKept, AnyUI
    <2>8. QED BY <2>6, <2>7
  <1>5. CASE BodyRejoins
    <2>1. BodyTyped' /\ ~spoilt' /\ ~AnyUI'
      BY <1>1, <1>5, NewBodyPlaced DEF BodyRejoins, BodyTyped, AnyUI
    <2>2. Placed(body', earth', place')
      BY <1>1, <1>5, NewBodyPlaced DEF BodyRejoins, BodyTyped
    <2>3. QED BY <1>5, <2>1, <2>2 DEF BodyRejoins, PlaceInv, PlaceKept
  <1>6. QED BY <1>2, <1>3, <1>4, <1>5 DEF BodyNext

\* Earth leaves nobody behind who is on foot, neither in flight frames nor in the
\* pause, wherever it goes and whatever windows, pauses, losses of focus, switches
\* of mode, rockets and teleports come between; and a flyer, who may drift, stays
\* where a window has taken his place until it is closed (SyncToEarthFrame,
\* applyUILock, updateUnfocusFreeze, SwitchMode, TickPhysicsOnly).
THEOREM BodyStaysPlaced == BodySpec => []PlaceKept
  <1>1. BodyInit => PlaceInv
    <2> SUFFICES ASSUME BodyInit PROVE PlaceInv OBVIOUS
    <2>1. BodyTyped BY NewBodyPlaced DEF BodyInit, BodyTyped
    <2>2. Placed(body, earth, place) BY NewBodyPlaced DEF BodyInit
    <2>3. QED BY <2>1, <2>2 DEF BodyInit, PlaceInv, AnyUI, PlaceKept
  <1>2. PlaceInv /\ [BodyNext]_bodyVars => PlaceInv'
    <2> SUFFICES ASSUME PlaceInv, [BodyNext]_bodyVars PROVE PlaceInv' OBVIOUS
    <2>1. CASE UNCHANGED bodyVars
      BY <2>1 DEF bodyVars, PlaceInv, BodyTyped, AnyUI, Placed, PlaceKept
    <2>2. QED BY <2>1, PlaceStep
  <1>3. PlaceInv => PlaceKept BY DEF PlaceInv
  <1>4. QED BY <1>1, <1>2, <1>3, PTL DEF BodySpec

-----------------------------------------------------------------------------
(* ClientConn *)

\* The readLoop of s may still read: there is one such, of the last session
\* dialled, and it reads the socket of that session.
Reading(s) == reader[s].pc \in {"top", "read", "handle"}

ReaderInv ==
    \A s \in Sessions : Reading(s) =>
        /\ s = dialled /\ conn \in {0, dialled} /\ ui # "start"
        /\ status = "connected" \/ (status = "disconnected" /\ ui \in {"look", "shut", "wait"})
        /\ reader[s].pc \in {"read", "handle"} => reader[s].on = dialled

\* Connect and Disconnect, step by step.
StageInv ==
    /\ conn <= dialled /\ shown <= dialled
    /\ ui \in {"hello", "start"} => dialled # 0
    /\ ui \in {"dial", "hello"} => status = "connecting"
    /\ ui = "start" => conn = dialled /\ done # 0 /\ status = "connected"
    /\ ui = "shut" => torn # 0
    /\ \A s \in Sessions : reader[s].pc # "off" => done # 0

\* In the game the connection is that of the last session; the game is left by
\* way of Disconnect, and entered from the menu or from the death screen.
ModeInv ==
    /\ ui \in {"dial", "hello", "start"} => mode \in {"menu", "dead"}
    /\ ui = "idle" /\ mode \in {"playing", "paused"} => conn = dialled
    /\ ui \in {"dial", "hello", "start"} /\ mode = "dead" => ~hpReceived

\* In a life after a death, HP of the session before may be read as long as
\* they are not zero.
LifeInv ==
    via = "dead" /\ ui = "idle" /\ mode \in {"playing", "paused"} =>
        /\ hpReceived => ownOf = conn \/ ownHP = 1
        /\ hp = 0 => ownOf = conn

ConnInv ==
    /\ TypeOK
    /\ Alive => ReaderInv /\ StageInv /\ ModeInv /\ LifeInv
    /\ QuietAfterDisconnect

\* Connect, Disconnect and the frame loop.
Interface ==
    \/ StartConnect \/ Respawn \/ DialFail \/ DialOk \/ HelloFail \/ Adopt \/ StartLoops
    \/ (\E to \in {"menu", "quit"} : Disconnect(to))
    \/ DisconnectLook \/ DisconnectShut \/ DisconnectReturn
    \/ HandleTeleport \/ SyncHPFromNetwork \/ CheckDeath \/ ReturnToMenu \/ Pause \/ ExitPause

Goroutine(s) ==
    \/ ReadLoop(s) \/ PeerCloses(s)
    \/ \E l \in Loops : LoopSelect(s, l) \/ LoopSend(s, l) \/ LoopEnd(s, l)

\* TypeOK in six parts.
ReaderRecords == [pc : {"off", "top", "read", "handle", "look", "shut"}, on : 0..MaxSessions]

AppTyped ==
    /\ mode \in Screens /\ flight \in BOOLEAN /\ hp \in {0, 1} /\ hpReceived \in BOOLEAN
    /\ via \in Screens
StageTyped ==
    /\ leaving \in {"menu", "quit"} /\ torn \in 0..MaxSessions
    /\ ui \in {"idle", "dial", "hello", "start", "look", "shut", "wait"}
    /\ panic \in {"no", "doubleClose", "nilConn", "nilFlight"}
LinkTyped ==
    /\ dialled \in 0..MaxSessions /\ sock \in [Sessions -> {"none", "open", "closed"}]
    /\ status \in {"disconnected", "connecting", "connected"}
    /\ conn \in 0..MaxSessions /\ done \in 0..MaxSessions /\ closed \subseteq Sessions
ReaderTyped == reader \in [Sessions -> ReaderRecords]
LoopTyped ==
    loop \in [Sessions -> [Loops -> [pc : {"off", "top", "wait"}, ch : 0..MaxSessions]]]
InboxTyped ==
    /\ ownHP \in {0, 1} /\ ownOf \in 0..MaxSessions /\ shown \in 0..MaxSessions
    /\ teleports \in 0..TeleportCap

LEMMA TypeParts ==
    TypeOK <=> AppTyped /\ StageTyped /\ LinkTyped /\ ReaderTyped /\ LoopTyped /\ InboxTyped
  BY DEF TypeOK, AppTyped, StageTyped, LinkTyped, ReaderTyped, ReaderRecords, LoopTyped, InboxTyped

LEMMA TypePartsNext ==
    AppTyped' /\ StageTyped' /\ LinkTyped' /\ ReaderTyped' /\ LoopTyped' /\ InboxTyped' => TypeOK'
  BY DEF TypeOK, AppTyped, StageTyped, LinkTyped, ReaderTyped, ReaderRecords, LoopTyped, InboxTyped

\* A part that no variable of changes stays typed.
LEMMA PartsStay ==
    ASSUME TypeOK
    PROVE  /\ UNCHANGED app => AppTyped'
           /\ UNCHANGED <<ui, leaving, torn, panic>> => StageTyped'
           /\ UNCHANGED link => LinkTyped'
           /\ UNCHANGED reader => ReaderTyped'
           /\ UNCHANGED loop => LoopTyped'
           /\ UNCHANGED inbox => InboxTyped'
  <1>1. UNCHANGED app => AppTyped' BY TypeParts DEF AppTyped, app
  <1>2. UNCHANGED <<ui, leaving, torn, panic>> => StageTyped' BY TypeParts DEF StageTyped
  <1>3. UNCHANGED link => LinkTyped' BY TypeParts DEF LinkTyped, link
  <1>4. UNCHANGED reader => ReaderTyped' BY TypeParts DEF ReaderTyped
  <1>5. UNCHANGED loop => LoopTyped' BY TypeParts DEF LoopTyped
  <1>6. UNCHANGED inbox => InboxTyped' BY TypeParts DEF InboxTyped, inbox
  <1>7. QED BY <1>1, <1>2, <1>3, <1>4, <1>5, <1>6

\* The steps of the interface keep the domains.
LEMMA InterfaceTyped ==
    ASSUME ConnInv, Interface
    PROVE  TypeOK'
  <1> USE BoundAssumption DEF TypeOK, Screens, Sessions, app, link, inbox
  <1>1. TypeOK /\ (Alive => StageInv) BY DEF ConnInv
  <1>2. CASE StartConnect BY <1>1, <1>2 DEF StartConnect, Begin
  <1>3. CASE Respawn
    <2>1. hpReceived' \in BOOLEAN BY <1>3 DEF Respawn
    <2>2. hp' \in {0, 1} /\ status' \in {status, "connecting"} /\ ui' \in {ui, "dial"}
      BY <1>3 DEF Respawn, Begin
    <2>3. UNCHANGED <<mode, flight, via, leaving, torn, dialled, sock, conn, done, closed,
                      reader, loop, ownHP, ownOf, shown, teleports, panic>>
      BY <1>3 DEF Respawn
    <2>4. QED BY <1>1, <2>1, <2>2, <2>3
  <1>4. CASE DialFail BY <1>1, <1>4 DEF DialFail
  <1>5. CASE DialOk
    <2>1. UNCHANGED <<app, reader, loop, inbox>> BY <1>5 DEF DialOk
    <2>2. StageTyped' BY <1>1, <1>5, TypeParts DEF DialOk, StageTyped
    <2>3. LinkTyped' BY <1>1, <1>5, TypeParts DEF DialOk, LinkTyped
    <2>4. QED BY <1>1, <2>1, <2>2, <2>3, PartsStay, TypePartsNext
  <1>6. CASE HelloFail BY <1>1, <1>6 DEF HelloFail, StageInv
  <1>7. CASE Adopt BY <1>1, <1>7 DEF Adopt
  <1>8. CASE StartLoops BY <1>1, <1>8 DEF StartLoops, StageInv
  <1>9. CASE \E to \in {"menu", "quit"} : Disconnect(to)
    BY <1>1, <1>9 DEF Disconnect, HangUp, Idle
  <1>10. CASE DisconnectLook BY <1>1, <1>10 DEF DisconnectLook
  <1>11. CASE DisconnectShut BY <1>1, <1>11 DEF DisconnectShut, StageInv
  <1>12. CASE DisconnectReturn
    <2>1. UNCHANGED <<link, reader, loop, inbox>> BY <1>12 DEF DisconnectReturn
    <2>2. mode' = leaving /\ flight' = FALSE /\ UNCHANGED <<hp, hpReceived, via>>
      BY <1>12 DEF DisconnectReturn
    <2>3. AppTyped' BY <1>1, <2>2, TypeParts DEF AppTyped, StageTyped
    <2>4. StageTyped' BY <1>1, <1>12, TypeParts DEF DisconnectReturn, StageTyped
    <2>5. QED BY <1>1, <2>1, <2>3, <2>4, PartsStay, TypePartsNext
  <1>13. CASE HandleTeleport BY <1>1, <1>13 DEF HandleTeleport
  <1>14. CASE SyncHPFromNetwork BY <1>1, <1>14 DEF SyncHPFromNetwork
  <1>15. CASE CheckDeath
    <2>1. UNCHANGED <<ui, leaving, torn, panic, reader, loop, inbox>> BY <1>15 DEF CheckDeath
    <2>2. mode' = "dead" /\ UNCHANGED <<flight, hp, hpReceived, via>> BY <1>15 DEF CheckDeath
    <2>3. AppTyped' BY <1>1, <2>2, TypeParts DEF AppTyped
    <2>4. LinkTyped' BY <1>1, <1>15, TypeParts DEF CheckDeath, HangUp, LinkTyped
    <2>5. QED BY <1>1, <2>1, <2>3, <2>4, PartsStay, TypePartsNext
  <1>16. CASE ReturnToMenu
    <2>1. hpReceived' \in BOOLEAN BY <1>16 DEF ReturnToMenu
    <2>2. hp' \in {0, 1} /\ mode' = "menu" BY <1>16 DEF ReturnToMenu
    <2>3. UNCHANGED <<flight, via, ui, leaving, torn, dialled, sock, status, conn, done, closed,
                      reader, loop, ownHP, ownOf, shown, teleports, panic>>
      BY <1>16 DEF ReturnToMenu
    <2>4. QED BY <1>1, <2>1, <2>2, <2>3
  <1>17. CASE Pause BY <1>1, <1>17 DEF Pause
  <1>18. CASE ExitPause BY <1>1, <1>18 DEF ExitPause
  <1>19. QED
    BY <1>2, <1>3, <1>4, <1>5, <1>6, <1>7, <1>8, <1>9, <1>10, <1>11, <1>12, <1>13, <1>14,
       <1>15, <1>16, <1>17, <1>18
    DEF Interface

\* So do those of the goroutines.
LEMMA GoroutineTyped ==
    ASSUME ConnInv, NEW s \in Sessions, Goroutine(s)
    PROVE  TypeOK'
  <1> USE BoundAssumption DEF TypeOK, app, link, inbox
  <1>1. TypeOK /\ (Alive => StageInv) BY DEF ConnInv
  <1>0. reader[s] \in ReaderRecords /\ ReaderTyped BY <1>1, TypeParts DEF ReaderTyped
  <1>2. CASE ReadFrame(s) BY <1>1, <1>2 DEF ReadFrame
  <1>3. CASE Frame(s)
    <2>1. UNCHANGED <<app, ui, leaving, torn, panic, link, loop, inbox>> BY <1>3 DEF Frame
    <2>2. [reader[s] EXCEPT !.pc = "handle"] \in ReaderRecords BY <1>0 DEF ReaderRecords
    <2>3. reader' = [reader EXCEPT ![s] = [reader[s] EXCEPT !.pc = "handle"]] BY <1>3 DEF Frame
    <2>4. ReaderTyped' BY <1>0, <2>2, <2>3 DEF ReaderTyped
    <2>5. QED BY <1>1, <2>1, <2>4, PartsStay, TypePartsNext
  <1>4. CASE HandleOther(s) BY <1>1, <1>4 DEF HandleOther
  <1>5. CASE \E h \in {0, 1} : HandleSnapshot(s, h)
    <2>1. PICK h \in {0, 1} : HandleSnapshot(s, h) BY <1>5
    <2>2. UNCHANGED <<app, ui, leaving, torn, panic, link, loop>> BY <2>1 DEF HandleSnapshot
    <2>3. ReaderTyped'
      <3>1. [pc |-> "top", on |-> 0] \in ReaderRecords BY DEF ReaderRecords
      <3>2. QED BY <1>0, <2>1, <3>1 DEF HandleSnapshot, ReaderTyped
    <2>4. InboxTyped'
      <3>1. shown' = reader[s].on /\ ownHP' = h /\ ownOf' = reader[s].on /\ UNCHANGED teleports
        BY <2>1 DEF HandleSnapshot
      <3>2. reader[s].on \in 0..MaxSessions BY <1>0 DEF ReaderRecords
      <3>3. QED BY <1>1, <3>1, <3>2, TypeParts DEF InboxTyped
    <2>5. QED BY <1>1, <2>2, <2>3, <2>4, PartsStay, TypePartsNext
  <1>6. CASE ReadError(s)
    <2>1. UNCHANGED <<app, ui, leaving, torn, panic, loop, inbox>> BY <1>6 DEF ReadError
    <2>2. LinkTyped' BY <1>1, <1>6, TypeParts DEF ReadError, LinkTyped
    <2>3. [reader[s] EXCEPT !.pc = "look"] \in ReaderRecords BY <1>0 DEF ReaderRecords
    <2>4. reader' = [reader EXCEPT ![s] = [reader[s] EXCEPT !.pc = "look"]] BY <1>6 DEF ReadError
    <2>5. ReaderTyped' BY <1>0, <2>3, <2>4 DEF ReaderTyped
    <2>6. QED BY <1>1, <2>1, <2>2, <2>5, PartsStay, TypePartsNext
  <1>7. CASE LookDone(s)
    <2>1. UNCHANGED <<app, ui, leaving, torn, link, loop, inbox, panic>> BY <1>7 DEF LookDone
    <2>2. [reader[s] EXCEPT !.pc = "shut"] \in ReaderRecords BY <1>0 DEF ReaderRecords
    <2>3. Off \in ReaderRecords BY DEF Off, ReaderRecords
    <2>4. PICK next \in ReaderRecords : reader' = [reader EXCEPT ![s] = next]
      BY <1>7, <2>2, <2>3 DEF LookDone
    <2>5. ReaderTyped' BY <1>0, <2>4 DEF ReaderTyped
    <2>6. QED BY <1>1, <2>1, <2>5, PartsStay, TypePartsNext
  <1>8. CASE ShutDone(s) BY <1>1, <1>8 DEF ShutDone, Off, StageInv, Sessions
  <1>9. CASE PeerCloses(s) BY <1>1, <1>9 DEF PeerCloses
  <1>10. ASSUME NEW l \in Loops, LoopSelect(s, l) \/ LoopSend(s, l) \/ LoopEnd(s, l)
         PROVE  TypeOK'
    <2>1. CASE LoopSelect(s, l) BY <1>1, <2>1 DEF LoopSelect
    <2>2. CASE LoopSend(s, l) BY <1>1, <2>2 DEF LoopSend
    <2>3. CASE LoopEnd(s, l) BY <1>1, <2>3 DEF LoopEnd, Out
    <2>4. QED BY <1>10, <2>1, <2>2, <2>3
  <1>11. QED
    BY <1>2, <1>3, <1>4, <1>5, <1>6, <1>7, <1>8, <1>9, <1>10 DEF Goroutine, ReadLoop

\* The interface keeps ReaderInv, StageInv, ModeInv and LifeInv.
LEMMA InterfaceStep ==
    ASSUME ConnInv, Interface, Alive'
    PROVE  ReaderInv' /\ StageInv' /\ ModeInv' /\ LifeInv'
  <1> USE BoundAssumption DEF Reading, Sessions, app, link, inbox
  <1>1. TypeOK /\ Alive /\ ReaderInv /\ StageInv /\ ModeInv /\ LifeInv
    <2>1. Alive
      BY DEF Interface, StartConnect, Respawn, DialFail, DialOk, HelloFail, Adopt, StartLoops,
             Disconnect, DisconnectLook, DisconnectShut, DisconnectReturn, HandleTeleport,
             SyncHPFromNetwork, CheckDeath, ReturnToMenu, Pause, ExitPause, Idle
    <2>2. QED BY <2>1 DEF ConnInv
  <1>2. CASE StartConnect \/ Respawn
    <2>1. /\ Idle /\ UNCHANGED <<mode, flight, via, leaving, torn, dialled, sock, conn, done,
                                 closed, reader, loop, inbox, panic>>
          /\ mode \in {"menu", "dead"} /\ (mode = "dead" => ~hpReceived')
      BY <1>2 DEF StartConnect, Respawn
    <2>2. UNCHANGED <<status, ui>>
            \/ (status = "disconnected" /\ status' = "connecting" /\ ui' = "dial")
      BY <1>2 DEF StartConnect, Respawn, Begin
    <2>3. ReaderInv' BY <1>1, <2>1, <2>2 DEF ReaderInv, Idle
    <2>4. StageInv' BY <1>1, <2>1, <2>2 DEF StageInv, Idle
    <2>5. ModeInv' BY <1>1, <2>1, <2>2 DEF ModeInv, Idle
    <2>6. LifeInv' BY <1>1, <2>1, <2>2 DEF LifeInv
    <2>7. QED BY <2>3, <2>4, <2>5, <2>6
  <1>3. CASE DialFail
    <2>1. ReaderInv' BY <1>1, <1>3 DEF DialFail, ReaderInv, StageInv
    <2>2. StageInv' BY <1>1, <1>3 DEF DialFail, StageInv
    <2>3. ModeInv' /\ LifeInv' BY <1>1, <1>3 DEF DialFail, ModeInv, LifeInv
    <2>4. QED BY <2>1, <2>2, <2>3
  <1>4. CASE DialOk
    <2>1. ReaderInv' BY <1>1, <1>4 DEF DialOk, ReaderInv, StageInv
    <2>2. StageInv' BY <1>1, <1>4 DEF DialOk, StageInv, TypeOK
    <2>3. ModeInv' /\ LifeInv' BY <1>1, <1>4 DEF DialOk, ModeInv, LifeInv
    <2>4. QED BY <2>1, <2>2, <2>3
  <1>5. CASE HelloFail
    <2>1. ReaderInv' BY <1>1, <1>5 DEF HelloFail, ReaderInv, StageInv
    <2>2. StageInv' BY <1>1, <1>5 DEF HelloFail, StageInv
    <2>3. ModeInv' /\ LifeInv' BY <1>1, <1>5 DEF HelloFail, ModeInv, LifeInv
    <2>4. QED BY <2>1, <2>2, <2>3
  <1>6. CASE Adopt
    <2>1. ReaderInv' BY <1>1, <1>6 DEF Adopt, ReaderInv, StageInv
    <2>2. StageInv' BY <1>1, <1>6 DEF Adopt, StageInv, TypeOK
    <2>3. ModeInv' /\ LifeInv' BY <1>1, <1>6 DEF Adopt, ModeInv, LifeInv
    <2>4. QED BY <2>1, <2>2, <2>3
  <1>7. CASE StartLoops
    <2>1. /\ reader' = [reader EXCEPT ![dialled] = [pc |-> "top", on |-> 0]]
          /\ ui = "start" /\ ui' = "idle" /\ via' = mode /\ mode' = "playing" /\ hp' = 1
          /\ UNCHANGED <<hpReceived, leaving, torn, dialled, sock, status, conn, done, closed, inbox>>
      BY <1>7 DEF StartLoops
    <2>2. StageInv' BY <1>1, <2>1 DEF StageInv, TypeOK
    <2>3. ReaderInv'
      <3>1. ASSUME NEW s \in Sessions, Reading(s)' PROVE s = dialled
        BY <1>1, <2>1, <3>1 DEF ReaderInv, TypeOK
      <3>2. dialled \in Sessions => reader'[dialled].pc = "top" BY <1>1, <2>1 DEF TypeOK
      <3>3. QED BY <1>1, <2>1, <3>1, <3>2 DEF ReaderInv, StageInv
    <2>4. ModeInv' BY <1>1, <2>1 DEF ModeInv, StageInv
    <2>5. LifeInv' BY <1>1, <2>1 DEF LifeInv, ModeInv
    <2>6. QED BY <2>2, <2>3, <2>4, <2>5
  <1>8. CASE \E to \in {"menu", "quit"} : Disconnect(to)
    <2>1. ReaderInv' BY <1>1, <1>8 DEF Disconnect, ReaderInv
    <2>2. StageInv' BY <1>1, <1>8 DEF Disconnect, StageInv, TypeOK
    <2>3. ModeInv' /\ LifeInv' BY <1>1, <1>8 DEF Disconnect, ModeInv, LifeInv
    <2>4. QED BY <2>1, <2>2, <2>3
  <1>9. CASE DisconnectLook
    <2>1. ReaderInv' BY <1>1, <1>9 DEF DisconnectLook, ReaderInv
    <2>2. StageInv' BY <1>1, <1>9 DEF DisconnectLook, StageInv
    <2>3. ModeInv' /\ LifeInv' BY <1>1, <1>9 DEF DisconnectLook, ModeInv, LifeInv
    <2>4. QED BY <2>1, <2>2, <2>3
  <1>10. CASE DisconnectShut
    <2>1. ReaderInv' BY <1>1, <1>10 DEF DisconnectShut, ReaderInv
    <2>2. StageInv' BY <1>1, <1>10 DEF DisconnectShut, StageInv
    <2>3. ModeInv' /\ LifeInv' BY <1>1, <1>10 DEF DisconnectShut, ModeInv, LifeInv
    <2>4. QED BY <2>1, <2>2, <2>3
  <1>11. CASE DisconnectReturn
    <2>1. \A s \in Sessions : ~Reading(s)
      BY <1>1, <1>11 DEF DisconnectReturn, Waited, Running, Off
    <2>2. ReaderInv' BY <1>11, <2>1 DEF DisconnectReturn, ReaderInv
    <2>3. StageInv' BY <1>1, <1>11 DEF DisconnectReturn, StageInv
    <2>4. ModeInv' /\ LifeInv'
      BY <1>1, <1>11 DEF DisconnectReturn, ModeInv, LifeInv, TypeOK
    <2>5. QED BY <2>2, <2>3, <2>4
  <1>12. CASE HandleTeleport \/ CheckDeath \/ Pause \/ ExitPause
    <2>1. UNCHANGED <<ui, torn, dialled, status, conn, done, reader, ownHP, ownOf, shown, via,
                      hp, hpReceived>>
      BY <1>12 DEF HandleTeleport, CheckDeath, Pause, ExitPause
    <2>2. ReaderInv' /\ StageInv' BY <1>1, <2>1 DEF ReaderInv, StageInv
    <2>3. ModeInv' /\ LifeInv'
      BY <1>1, <1>12, <2>1 DEF HandleTeleport, CheckDeath, Pause, ExitPause, Idle, ModeInv, LifeInv
    <2>4. QED BY <2>2, <2>3
  <1>13. CASE SyncHPFromNetwork
    <2>1. ReaderInv' /\ StageInv' BY <1>1, <1>13 DEF SyncHPFromNetwork, ReaderInv, StageInv
    <2>2. ModeInv' BY <1>1, <1>13 DEF SyncHPFromNetwork, Idle, ModeInv
    <2>3. LifeInv' BY <1>1, <1>13 DEF SyncHPFromNetwork, Idle, LifeInv, TypeOK
    <2>4. QED BY <2>1, <2>2, <2>3
  <1>14. CASE ReturnToMenu
    <2>1. ReaderInv' /\ StageInv' BY <1>1, <1>14 DEF ReturnToMenu, ReaderInv, StageInv
    <2>2. ModeInv' /\ LifeInv' BY <1>1, <1>14 DEF ReturnToMenu, Idle, ModeInv, LifeInv
    <2>3. QED BY <2>1, <2>2
  <1>15. QED
    BY <1>2, <1>3, <1>4, <1>5, <1>6, <1>7, <1>8, <1>9, <1>10, <1>11, <1>12, <1>13, <1>14
    DEF Interface

\* So do the goroutines.
LEMMA GoroutineStep ==
    ASSUME ConnInv, NEW s \in Sessions, Goroutine(s), Alive'
    PROVE  ReaderInv' /\ StageInv' /\ ModeInv' /\ LifeInv'
  <1> USE BoundAssumption DEF Reading, app, link, inbox
  <1>1. TypeOK /\ Alive /\ ReaderInv /\ StageInv /\ ModeInv /\ LifeInv
    <2>1. Alive
      BY DEF Goroutine, ReadLoop, ReadFrame, Frame, HandleOther, HandleSnapshot, ReadError,
             LookDone, ShutDone, PeerCloses, LoopSelect, LoopSend, LoopEnd
    <2>2. QED BY <2>1 DEF ConnInv
  <1>2. CASE ReadFrame(s)
    <2>1. /\ reader[s].pc = "top" /\ reader' = [reader EXCEPT ![s] = [pc |-> "read", on |-> conn]]
          /\ conn # 0 /\ UNCHANGED <<app, ui, leaving, torn, link, loop, inbox>>
      BY <1>2 DEF ReadFrame, Alive
    <2>2. ReaderInv' BY <1>1, <2>1 DEF ReaderInv, TypeOK
    <2>3. StageInv' BY <1>1, <2>1 DEF StageInv, TypeOK
    <2>4. QED BY <1>1, <2>1, <2>2, <2>3 DEF ModeInv, LifeInv
  <1>3. CASE Frame(s)
    <2>1. ReaderInv' BY <1>1, <1>3 DEF Frame, ReaderInv, TypeOK
    <2>2. StageInv' BY <1>1, <1>3 DEF Frame, StageInv, TypeOK
    <2>3. QED BY <1>1, <1>3, <2>1, <2>2 DEF Frame, ModeInv, LifeInv
  <1>4. CASE HandleOther(s)
    <2>1. ReaderInv' BY <1>1, <1>4 DEF HandleOther, ReaderInv, TypeOK
    <2>2. StageInv' BY <1>1, <1>4 DEF HandleOther, StageInv, TypeOK
    <2>3. QED BY <1>1, <1>4, <2>1, <2>2 DEF HandleOther, ModeInv, LifeInv
  <1>5. ASSUME NEW h \in {0, 1}, HandleSnapshot(s, h)
        PROVE  ReaderInv' /\ StageInv' /\ ModeInv' /\ LifeInv'
    <2>1. reader[s].on = dialled /\ reader[s].pc = "handle" /\ conn \in {0, dialled}
      BY <1>1, <1>5 DEF HandleSnapshot, ReaderInv
    <2>2. ReaderInv' BY <1>1, <1>5 DEF HandleSnapshot, ReaderInv, TypeOK
    <2>3. StageInv' BY <1>1, <1>5, <2>1 DEF HandleSnapshot, StageInv, TypeOK
    <2>4. ModeInv' BY <1>1, <1>5 DEF HandleSnapshot, ModeInv
    <2>5. LifeInv' BY <1>1, <1>5, <2>1 DEF HandleSnapshot, LifeInv, ModeInv
    <2>6. QED BY <2>2, <2>3, <2>4, <2>5
  <1>6. CASE ReadError(s)
    <2>1. s = dialled /\ ui # "start" /\ ui \notin {"dial", "hello"}
      BY <1>1, <1>6 DEF ReadError, ReaderInv, StageInv
    <2>2. \A t \in Sessions : ~Reading(t)'
      BY <1>1, <1>6, <2>1 DEF ReadError, ReaderInv, TypeOK
    <2>3. ReaderInv' BY <2>2 DEF ReaderInv
    <2>4. StageInv' BY <1>1, <1>6, <2>1 DEF ReadError, StageInv, TypeOK
    <2>5. QED BY <1>1, <1>6, <2>3, <2>4 DEF ReadError, ModeInv, LifeInv
  <1>7. CASE LookDone(s) \/ ShutDone(s)
    <2>1. /\ reader[s].pc \in {"look", "shut"} /\ reader'[s].pc \in {"off", "shut"}
          /\ \A t \in Sessions : t # s => reader'[t] = reader[t]
      BY <1>1, <1>7 DEF LookDone, ShutDone, Off, TypeOK
    <2>2. UNCHANGED <<app, ui, leaving, torn, dialled, sock, status, conn, done, loop, inbox>>
      BY <1>7 DEF LookDone, ShutDone
    <2>3. ReaderInv' BY <1>1, <2>1, <2>2 DEF ReaderInv
    <2>4. StageInv' BY <1>1, <2>1, <2>2 DEF StageInv
    <2>5. QED BY <1>1, <2>2, <2>3, <2>4 DEF ModeInv, LifeInv
  <1>8. CASE PeerCloses(s) \/ \E l \in Loops : LoopSelect(s, l) \/ LoopSend(s, l) \/ LoopEnd(s, l)
    <2>1. UNCHANGED <<app, ui, leaving, torn, dialled, status, conn, done, closed, reader, inbox>>
      BY <1>8 DEF PeerCloses, LoopSelect, LoopSend, LoopEnd
    <2>2. QED BY <1>1, <2>1 DEF ReaderInv, StageInv, ModeInv, LifeInv
  <1>9. QED BY <1>2, <1>3, <1>4, <1>5, <1>6, <1>7, <1>8 DEF Goroutine, ReadLoop

\* No step wakes a client that is quiet, or leaves one that is not.
LEMMA QuietStep ==
    ASSUME ConnInv, Next
    PROVE  QuietAfterDisconnect'
  <1> USE DEF app, link, inbox
  <1> SUFFICES ASSUME Alive', conn' = 0, ui' \in {"idle", "dial", "hello"}
               PROVE  Running' = {}
    BY DEF QuietAfterDisconnect
  <1>1. CASE StartLoops BY <1>1 DEF StartLoops, ConnInv, StageInv, TypeOK
  <1>2. CASE DisconnectReturn BY <1>2 DEF DisconnectReturn, Waited, Running
  <1>3. CASE Interface /\ ~StartLoops /\ ~DisconnectReturn
    <2>1. UNCHANGED <<reader, loop>> /\ Alive
      BY <1>3 DEF Interface, StartConnect, Respawn, DialFail, DialOk, HelloFail, Adopt,
             Disconnect, DisconnectLook, DisconnectShut, HandleTeleport,
             SyncHPFromNetwork, CheckDeath, ReturnToMenu, Pause, ExitPause, Idle
    <2>2. conn = 0 /\ ui \in {"idle", "dial", "hello"}
      BY <1>3 DEF Interface, StartConnect, Respawn, Begin, DialFail, DialOk, HelloFail, Adopt,
             Disconnect, DisconnectLook, DisconnectShut, HandleTeleport,
             SyncHPFromNetwork, CheckDeath, ReturnToMenu, Pause, ExitPause, Idle
    <2>3. QED BY <2>1, <2>2 DEF ConnInv, QuietAfterDisconnect, Running
  <1>4. ASSUME NEW s \in Sessions, Goroutine(s)
        PROVE  Running' = {}
    <2>1. UNCHANGED <<ui, conn>> /\ Alive
      BY <1>4 DEF Goroutine, ReadLoop, ReadFrame, Frame, HandleOther, HandleSnapshot, ReadError,
             LookDone, ShutDone, PeerCloses, LoopSelect, LoopSend, LoopEnd
    <2>2. Running = {} BY <2>1 DEF ConnInv, QuietAfterDisconnect
    <2>3. reader[s] = Off /\ \A l \in Loops : loop[s][l] = Out BY <2>2 DEF Running
    <2>4. UNCHANGED <<reader, loop>>
      BY <1>4, <2>3 DEF Goroutine, ReadLoop, ReadFrame, Frame, HandleOther, HandleSnapshot,
             ReadError, LookDone, ShutDone, PeerCloses, LoopSelect, LoopSend, LoopEnd, Off, Out
    <2>5. QED BY <2>2, <2>4 DEF Running
  <1>5. QED BY <1>1, <1>2, <1>3, <1>4 DEF Next, Interface, Goroutine

\* ConnInv holds in every reachable state of the connection.
THEOREM ConnectionInvariant == Spec => []ConnInv
  <1>1. Init => ConnInv
    <2> SUFFICES ASSUME Init PROVE ConnInv OBVIOUS
    <2>1. TypeOK
      <3>1. flight \in BOOLEAN /\ hpReceived \in BOOLEAN BY DEF Init
      <3>2. /\ mode \in Screens /\ leaving \in {"menu", "quit"} /\ via \in Screens /\ hp \in {0, 1}
            /\ ui = "idle" /\ status = "disconnected" /\ panic = "no" /\ closed = {}
            /\ torn = 0 /\ dialled = 0 /\ conn = 0 /\ done = 0
            /\ ownHP = 0 /\ ownOf = 0 /\ shown = 0 /\ teleports = 0
        BY DEF Init, Screens
      <3>3. sock \in [Sessions -> {"none", "open", "closed"}] BY DEF Init
      <3>4. 0 \in 0..MaxSessions /\ 0 \in 0..TeleportCap BY BoundAssumption
      <3>5. reader \in [Sessions -> [pc : {"off", "top", "read", "handle", "look", "shut"},
                                     on : 0..MaxSessions]]
        BY <3>4 DEF Init, Off
      <3>6. loop \in [Sessions -> [Loops -> [pc : {"off", "top", "wait"}, ch : 0..MaxSessions]]]
        BY <3>4 DEF Init, Out
      <3>7. QED BY <3>1, <3>2, <3>3, <3>4, <3>5, <3>6 DEF TypeOK
    <2>2. ReaderInv /\ StageInv BY DEF Init, ReaderInv, Reading, StageInv, Off
    <2>3. ModeInv /\ LifeInv BY DEF Init, ModeInv, LifeInv
    <2>4. QuietAfterDisconnect BY DEF Init, QuietAfterDisconnect, Running
    <2>5. QED BY <2>1, <2>2, <2>3, <2>4 DEF ConnInv
  <1>2. ConnInv /\ [Next]_vars => ConnInv'
    <2> SUFFICES ASSUME ConnInv, [Next]_vars PROVE ConnInv' OBVIOUS
    <2>1. CASE UNCHANGED vars
      BY <2>1 DEF vars, ConnInv, TypeOK, Alive, ReaderInv, Reading, StageInv, ModeInv, LifeInv,
                  QuietAfterDisconnect, Running
    <2>2. CASE Next
      <3>1. Interface \/ \E s \in Sessions : Goroutine(s)
        BY <2>2 DEF Next, Interface, Goroutine
      <3>2. TypeOK' BY <3>1, InterfaceTyped, GoroutineTyped
      <3>3. Alive' => ReaderInv' /\ StageInv' /\ ModeInv' /\ LifeInv'
        BY <3>1, InterfaceStep, GoroutineStep
      <3>4. QuietAfterDisconnect' BY <2>2, QuietStep
      <3>5. QED BY <3>2, <3>3, <3>4 DEF ConnInv
    <2>3. QED BY <2>1, <2>2
  <1>3. QED BY <1>1, <1>2, PTL DEF Spec

\* After Disconnect and until the next session no goroutine of the client runs,
\* however many sessions there were (Disconnect, wg.Wait).
THEOREM ClientQuiet == Spec => []QuietAfterDisconnect
  <1>1. ConnInv => QuietAfterDisconnect BY DEF ConnInv
  <1>2. QED BY <1>1, ConnectionInvariant, PTL

\* The readLoop of an earlier session never replaces the world of a later one
\* (readLoop, handleSnapshot).
THEOREM SnapshotsForward == Spec => NoStaleSnapshot
  <1>1. ASSUME ConnInv, [Next]_vars PROVE [shown' >= shown]_vars
    <2>1. shown \in Nat BY <1>1 DEF ConnInv, TypeOK
    <2>2. CASE UNCHANGED shown BY <2>1, <2>2
    <2>3. CASE \E s \in Sessions, h \in {0, 1} : HandleSnapshot(s, h)
      <3>1. PICK s \in Sessions : Alive /\ reader[s].pc = "handle" /\ shown' = reader[s].on
        BY <2>3 DEF HandleSnapshot
      <3>2. shown' = dialled /\ shown <= dialled
        BY <1>1, <3>1 DEF ConnInv, ReaderInv, Reading, StageInv
      <3>3. QED BY <1>1, <2>1, <3>2 DEF ConnInv, TypeOK
    <2>4. UNCHANGED shown \/ \E s \in Sessions, h \in {0, 1} : HandleSnapshot(s, h)
      <3>1. CASE UNCHANGED vars BY <3>1 DEF vars
      <3>2. CASE Interface
        BY <3>2 DEF Interface, StartConnect, Respawn, DialFail, DialOk, HelloFail, Adopt,
             StartLoops, Disconnect, DisconnectLook, DisconnectShut, DisconnectReturn,
             HandleTeleport, SyncHPFromNetwork, CheckDeath, ReturnToMenu, Pause, ExitPause, inbox
      <3>3. ASSUME NEW s \in Sessions, Goroutine(s)
            PROVE  UNCHANGED shown \/ \E h \in {0, 1} : HandleSnapshot(s, h)
        BY <3>3 DEF Goroutine, ReadLoop, ReadFrame, Frame, HandleOther, ReadError,
             LookDone, ShutDone, PeerCloses, LoopSelect, LoopSend, LoopEnd, inbox
      <3>4. QED BY <1>1, <3>1, <3>2, <3>3 DEF Next, Interface, Goroutine
    <2>5. QED BY <2>2, <2>3, <2>4
  <1>2. QED BY <1>1, ConnectionInvariant, PTL DEF Spec, NoStaleSnapshot

\* A player who respawns does not die of the HP of the life before
\* (syncHPFromNetwork, checkDeath).
THEOREM RespawnsFresh == Spec => RespawnIsFresh
  <1>1. ASSUME ConnInv, [Next]_vars
        PROVE  [mode = "playing" /\ mode' = "dead" /\ via = "dead" => ownOf = conn]_vars
    <2> SUFFICES ASSUME Next, mode = "playing", mode' = "dead", via = "dead"
                 PROVE  ownOf = conn
      BY <1>1
    <2>1. CheckDeath
      <3>1. ~\E s \in Sessions : Goroutine(s)
        BY DEF Goroutine, ReadLoop, ReadFrame, Frame, HandleOther, HandleSnapshot, ReadError,
               LookDone, ShutDone, PeerCloses, LoopSelect, LoopSend, LoopEnd, app
      <3>2. Interface BY <3>1 DEF Next, Interface, Goroutine
      <3>3. ~DisconnectReturn BY <1>1 DEF DisconnectReturn, ConnInv, TypeOK
      <3>4. QED
        BY <3>2, <3>3 DEF Interface, StartConnect, Respawn, DialFail, DialOk, HelloFail, Adopt,
               StartLoops, Disconnect, DisconnectLook, DisconnectShut, HandleTeleport,
               SyncHPFromNetwork, ReturnToMenu, Pause, ExitPause, app
    <2>2. QED BY <1>1, <2>1 DEF CheckDeath, Idle, ConnInv, LifeInv
  <1>2. QED BY <1>1, ConnectionInvariant, PTL DEF Spec, RespawnIsFresh

\* How a session ends.  As long as the client counts as connected, the readLoop
\* of the last session has not stopped reading.
HeardInv ==
    status = "connected" => dialled # 0 /\ (ui = "start" \/ Reading(dialled))

\* Once c.conn is taken away, the socket is closed under a readLoop that reads.
ShutInv ==
    conn = 0 => status # "connected" /\ \A s \in Sessions : Reading(s) => sock[s] = "closed"

\* Disconnect has captured the c.done that the loops look at, and this c.done
\* is closed by the time it waits.
TornInv ==
    /\ \A s \in Sessions, l \in Loops : loop[s][l] # Out => done # 0
    /\ ui \in {"look", "shut", "wait"} => conn = 0 /\ torn = done
    /\ ui = "wait" => done \in closed \cup {0}

EndInv == Alive => HeardInv /\ ShutInv /\ TornInv

\* A connection that counts as connected is listened to: its own readLoop is
\* there, on its own socket, so that the loss of that socket is run into.
LossHeard ==
    Alive /\ status = "connected" /\ ui # "start" =>
        /\ conn = dialled /\ Reading(conn)
        /\ reader[conn].pc # "top" => reader[conn].on = conn

\* When Disconnect waits, whatever still runs can end: a readLoop in ReadFrame
\* reads a closed socket, and a sending loop finds c.done closed when it comes
\* back to its select.
WaitReleased ==
    Alive /\ ui = "wait" =>
        \A s \in Sessions :
            /\ reader[s].pc = "read" => sock[reader[s].on] = "closed"
            /\ \A l \in Loops : loop[s][l] # Out => done \in closed

\* The interface keeps HeardInv, ShutInv and TornInv.
LEMMA InterfaceEnds ==
    ASSUME ConnInv, EndInv, Interface, Alive'
    PROVE  HeardInv' /\ ShutInv' /\ TornInv'
  <1> USE BoundAssumption DEF Reading, Sessions, app, link, inbox
  <1>1. TypeOK /\ Alive /\ ReaderInv /\ StageInv /\ HeardInv /\ ShutInv /\ TornInv
    <2>1. Alive
      BY DEF Interface, StartConnect, Respawn, DialFail, DialOk, HelloFail, Adopt, StartLoops,
             Disconnect, DisconnectLook, DisconnectShut, DisconnectReturn, HandleTeleport,
             SyncHPFromNetwork, CheckDeath, ReturnToMenu, Pause, ExitPause, Idle
    <2>2. QED BY <2>1 DEF ConnInv, EndInv
  <1>2. CASE StartConnect \/ Respawn
    <2>1. /\ ui = "idle" /\ UNCHANGED <<torn, dialled, sock, conn, done, closed, reader, loop>>
          /\ UNCHANGED <<status, ui>> \/ (status' = "connecting" /\ ui' = "dial")
      BY <1>2 DEF StartConnect, Respawn, Begin, Idle
    <2>2. QED BY <1>1, <2>1 DEF HeardInv, ShutInv, TornInv
  <1>3. CASE DialFail \/ HelloFail
    <2>1. /\ ui \in {"dial", "hello"} /\ ui' = "idle" /\ status' # "connected"
          /\ UNCHANGED <<torn, dialled, conn, done, closed, reader, loop>>
      BY <1>1, <1>3 DEF DialFail, HelloFail, StageInv
    <2>2. \A s \in Sessions : ~Reading(s) BY <1>1, <2>1 DEF ReaderInv, StageInv
    <2>3. QED BY <1>1, <2>1, <2>2 DEF HeardInv, ShutInv, TornInv
  <1>4. CASE DialOk
    <2>1. /\ ui = "dial" /\ ui' = "hello" /\ UNCHANGED <<torn, status, conn, done, closed, reader, loop>>
      BY <1>4 DEF DialOk
    <2>2. status = "connecting" /\ \A s \in Sessions : ~Reading(s)
      BY <1>1, <2>1 DEF ReaderInv, StageInv
    <2>3. QED BY <1>1, <2>1, <2>2 DEF HeardInv, ShutInv, TornInv
  <1>5. CASE Adopt
    <2>1. dialled # 0 /\ ui' = "start" /\ conn' # 0 /\ done' # 0 /\ UNCHANGED <<dialled, loop>>
      BY <1>1, <1>5 DEF Adopt, StageInv
    <2>2. QED BY <1>1, <2>1 DEF HeardInv, ShutInv, TornInv
  <1>6. CASE StartLoops
    <2>1. /\ reader' = [reader EXCEPT ![dialled] = [pc |-> "top", on |-> 0]]
          /\ ui' = "idle" /\ UNCHANGED <<torn, dialled, sock, status, conn, done, closed>>
      BY <1>6 DEF StartLoops
    <2>2. dialled # 0 /\ done # 0 /\ conn # 0 BY <1>1, <1>6 DEF StartLoops, StageInv
    <2>3. Reading(dialled)' BY <1>1, <2>1, <2>2 DEF TypeOK
    <2>4. QED BY <2>1, <2>2, <2>3 DEF HeardInv, ShutInv, TornInv
  <1>7. CASE \E to \in {"menu", "quit"} : Disconnect(to)
    <2>1. /\ ui = "idle" /\ ui' = "look" /\ torn' = done /\ HangUp
          /\ status' = "disconnected" /\ conn' = 0
          /\ UNCHANGED <<dialled, done, closed, reader, loop>>
      BY <1>7 DEF Disconnect, Idle
    <2>2. ASSUME NEW s \in Sessions, Reading(s) PROVE sock'[s] = "closed"
      <3>1. s = dialled /\ conn \in {0, dialled} BY <1>1, <2>2 DEF ReaderInv
      <3>2. CASE conn = 0 BY <1>1, <2>1, <2>2, <3>2 DEF HangUp, ShutInv
      <3>3. CASE conn = s BY <1>1, <2>1, <3>3 DEF HangUp, TypeOK
      <3>4. QED BY <3>1, <3>2, <3>3
    <2>3. HeardInv' /\ ShutInv' BY <2>1, <2>2 DEF HeardInv, ShutInv
    <2>4. TornInv' BY <1>1, <2>1 DEF TornInv
    <2>5. QED BY <2>3, <2>4
  <1>8. CASE DisconnectLook
    <2>1. UNCHANGED <<torn, dialled, sock, status, conn, done, closed, reader, loop>>
            /\ ui = "look" /\ ui' \in {"wait", "shut"}
            /\ (ui' = "wait" => torn \in closed \cup {0})
      BY <1>8 DEF DisconnectLook
    <2>2. QED BY <1>1, <2>1 DEF HeardInv, ShutInv, TornInv
  <1>9. CASE DisconnectShut
    <2>1. UNCHANGED <<torn, dialled, sock, status, conn, done, reader, loop>>
            /\ ui = "shut" /\ ui' = "wait" /\ closed' = closed \cup {torn}
      BY <1>9 DEF DisconnectShut
    <2>2. QED BY <1>1, <2>1 DEF HeardInv, ShutInv, TornInv
  <1>10. CASE DisconnectReturn
    <2>1. UNCHANGED <<torn, dialled, sock, status, conn, done, closed, reader, loop>>
            /\ ui = "wait" /\ ui' = "idle"
      BY <1>10 DEF DisconnectReturn
    <2>2. QED BY <1>1, <2>1 DEF HeardInv, ShutInv, TornInv
  <1>11. CASE CheckDeath
    <2>1. UNCHANGED <<ui, torn, dialled, status, conn, done, closed, reader, loop>> /\ HangUp
      BY <1>11 DEF CheckDeath
    <2>2. conn = 0 => UNCHANGED sock BY <2>1 DEF HangUp
    <2>3. QED BY <1>1, <2>1, <2>2 DEF HeardInv, ShutInv, TornInv
  <1>12. CASE HandleTeleport \/ SyncHPFromNetwork \/ ReturnToMenu \/ Pause \/ ExitPause
    <2>1. UNCHANGED <<ui, torn, dialled, sock, status, conn, done, closed, reader, loop>>
      BY <1>12 DEF HandleTeleport, SyncHPFromNetwork, ReturnToMenu, Pause, ExitPause
    <2>2. QED BY <1>1, <2>1 DEF HeardInv, ShutInv, TornInv
  <1>13. QED
    BY <1>2, <1>3, <1>4, <1>5, <1>6, <1>7, <1>8, <1>9, <1>10, <1>11, <1>12 DEF Interface

\* So do the goroutines.
LEMMA GoroutineEnds ==
    ASSUME ConnInv, EndInv, NEW s \in Sessions, Goroutine(s), Alive'
    PROVE  HeardInv' /\ ShutInv' /\ TornInv'
  <1> USE BoundAssumption DEF Reading, Sessions, app, link, inbox
  <1>1. TypeOK /\ Alive /\ ReaderInv /\ StageInv /\ HeardInv /\ ShutInv /\ TornInv
    <2>1. Alive
      BY DEF Goroutine, ReadLoop, ReadFrame, Frame, HandleOther, HandleSnapshot, ReadError,
             LookDone, ShutDone, PeerCloses, LoopSelect, LoopSend, LoopEnd
    <2>2. QED BY <2>1 DEF ConnInv, EndInv
  <1>2. CASE ReadFrame(s) \/ Frame(s) \/ HandleOther(s) \/ \E h \in {0, 1} : HandleSnapshot(s, h)
    <2>1. /\ Reading(s) /\ UNCHANGED <<ui, torn, link, loop>>
          /\ \A t \in Sessions : t # s => reader'[t] = reader[t]
      BY <1>1, <1>2 DEF ReadFrame, Frame, HandleOther, HandleSnapshot, TypeOK
    <2>2. reader'[s].pc \in {"top", "read", "handle"}
      BY <1>1, <1>2 DEF ReadFrame, Frame, HandleOther, HandleSnapshot, TypeOK
    <2>3. \A t \in Sessions : Reading(t)' <=> Reading(t) BY <2>1, <2>2
    <2>4. dialled \in Sessions \/ dialled = 0 BY <1>1 DEF TypeOK
    <2>5. QED BY <1>1, <2>1, <2>3, <2>4 DEF HeardInv, ShutInv, TornInv
  <1>3. CASE ReadError(s)
    <2>1. /\ status' = "disconnected" /\ UNCHANGED <<ui, torn, dialled, sock, conn, done, closed, loop>>
          /\ \A t \in Sessions : Reading(t)' => Reading(t)
      BY <1>1, <1>3 DEF ReadError, TypeOK
    <2>2. QED BY <1>1, <2>1 DEF HeardInv, ShutInv, TornInv
  <1>4. CASE LookDone(s) \/ ShutDone(s)
    <2>1. /\ ~Reading(s) /\ UNCHANGED <<ui, torn, dialled, sock, status, conn, done, loop>>
          /\ closed \subseteq closed'
      BY <1>4 DEF LookDone, ShutDone
    <2>2. \A t \in Sessions : Reading(t)' <=> Reading(t)
      <3>1. /\ reader[s].pc \in {"look", "shut"} /\ reader'[s].pc \in {"off", "shut"}
            /\ \A t \in Sessions : t # s => reader'[t] = reader[t]
        BY SMTT(30), <1>1, <1>4 DEF LookDone, ShutDone, Off, TypeOK
      <3>2. QED BY <3>1
    <2>3. dialled \in Sessions \/ dialled = 0 BY <1>1 DEF TypeOK
    <2>4. QED BY <1>1, <2>1, <2>2, <2>3 DEF HeardInv, ShutInv, TornInv
  <1>5. CASE PeerCloses(s)
    <2>1. UNCHANGED <<ui, torn, dialled, status, conn, done, closed, reader, loop>> /\ s = conn
      BY <1>5 DEF PeerCloses
    <2>2. QED BY <1>1, <2>1 DEF HeardInv, ShutInv, TornInv
  <1>6. ASSUME NEW l \in Loops, LoopSelect(s, l) \/ LoopSend(s, l) \/ LoopEnd(s, l)
        PROVE  HeardInv' /\ ShutInv' /\ TornInv'
    <2>1. UNCHANGED <<ui, torn, dialled, sock, status, conn, done, closed, reader>>
      BY <1>6 DEF LoopSelect, LoopSend, LoopEnd
    <2>2. loop[s][l] # Out BY <1>6 DEF LoopSelect, LoopSend, LoopEnd, Out
    <2>3. \A t \in Sessions, k \in Loops : t # s \/ k # l => loop'[t][k] = loop[t][k]
      <3>1. PICK v : loop' = [loop EXCEPT ![s][l] = v]
        BY <1>6, Zenon DEF LoopSelect, LoopSend, LoopEnd
      <3>2. loop \in [Sessions -> [Loops -> [pc : {"off", "top", "wait"}, ch : 0..MaxSessions]]]
        BY <1>1 DEF TypeOK
      <3>3. QED BY <3>1, <3>2
    <2>4. QED BY <1>1, <2>1, <2>2, <2>3 DEF HeardInv, ShutInv, TornInv
  <1>7. QED BY <1>2, <1>3, <1>4, <1>5, <1>6 DEF Goroutine, ReadLoop

\* EndInv holds in every reachable state of the connection.
THEOREM SessionsEnd == Spec => []EndInv
  <1>1. Init => EndInv
    BY DEF Init, EndInv, HeardInv, ShutInv, TornInv, Reading, Off, Out
  <1>2. ConnInv /\ EndInv /\ [Next]_vars => EndInv'
    <2> SUFFICES ASSUME ConnInv, EndInv, [Next]_vars PROVE EndInv' OBVIOUS
    <2>1. CASE UNCHANGED vars
      BY <2>1 DEF vars, EndInv, Alive, HeardInv, ShutInv, TornInv, Reading
    <2>2. CASE Next
      <3>1. Interface \/ \E s \in Sessions : Goroutine(s)
        BY <2>2 DEF Next, Interface, Goroutine
      <3>2. Alive' => HeardInv' /\ ShutInv' /\ TornInv'
        BY <3>1, InterfaceEnds, GoroutineEnds
      <3>3. QED BY <3>2 DEF EndInv
    <2>3. QED BY <2>1, <2>2
  <1>3. QED BY <1>1, <1>2, ConnectionInvariant, PTL DEF Spec

\* The loss of the connection has somebody who notices it, in every session and
\* at every step of Connect and Disconnect (readLoop): the safety half of
\* LossNoticed.
THEOREM LossesHeard == Spec => []LossHeard
  <1>1. ConnInv /\ EndInv => LossHeard
    <2> SUFFICES ASSUME ConnInv, EndInv, Alive, status = "connected", ui # "start"
                 PROVE  /\ conn = dialled /\ Reading(conn)
                        /\ reader[conn].pc # "top" => reader[conn].on = conn
      BY DEF LossHeard
    <2>1. dialled # 0 /\ Reading(dialled) /\ conn # 0
      BY DEF EndInv, HeardInv, ShutInv
    <2>2. dialled \in Sessions BY <2>1, BoundAssumption DEF ConnInv, TypeOK, Sessions
    <2>3. QED BY <2>1, <2>2 DEF ConnInv, ReaderInv, Reading
  <1>2. QED BY <1>1, ConnectionInvariant, SessionsEnd, PTL

\* wg.Wait of Disconnect waits for nothing that cannot end, whatever sessions
\* came before and whichever of them still have goroutines: the safety half of
\* DisconnectReturns.
THEOREM WaitsReleased == Spec => []WaitReleased
  <1>1. ConnInv /\ EndInv => WaitReleased
    <2> SUFFICES ASSUME ConnInv, EndInv, Alive, ui = "wait", NEW s \in Sessions
                 PROVE  /\ reader[s].pc = "read" => sock[reader[s].on] = "closed"
                        /\ \A l \in Loops : loop[s][l] # Out => done \in closed
      BY DEF WaitReleased
    <2>1. conn = 0 /\ done \in closed \cup {0} BY DEF EndInv, TornInv
    <2>2. \A l \in Loops : loop[s][l] # Out => done \in closed BY <2>1 DEF EndInv, TornInv
    <2>3. reader[s].pc = "read" => reader[s].on = s
      BY DEF ConnInv, ReaderInv, Reading
    <2>4. reader[s].pc = "read" => sock[s] = "closed"
      BY <2>1 DEF EndInv, ShutInv, Reading
    <2>5. QED BY <2>2, <2>3, <2>4
  <1>2. QED BY <1>1, ConnectionInvariant, SessionsEnd, PTL

-----------------------------------------------------------------------------
(* Hotbar: the slots and the hand *)

HotbarType ==
    /\ invSlots \in [SlotIds -> Items \cup {Empty}] /\ selectedSlot \in 0 .. Hot - 1
    /\ lastSentHeld \in Items \cup {Empty} /\ heldItem \in Items \cup {Empty}
    /\ stock \subseteq Items /\ seen \subseteq Items
    /\ at \in {"drawn", "synced", "turned", "held"}
    /\ selects \in Seq(Items \cup {Empty}) /\ told \in BOOLEAN

\* No item is in two slots.
SlotsDistinct ==
    \A i, j \in SlotIds : i # j /\ invSlots[i] # Empty => invSlots[i] # invSlots[j]

\* From syncInvSlots to the end of the frame the slots show what it has read.
SlotsFresh == at # "drawn" => Present = seen

\* lastSentHeld is the last message on its way or, when none is, what the server
\* has; after syncHeldItem it is what the hand holds.
HandTold ==
    /\ told => IF selects = <<>> THEN heldItem = lastSentHeld
               ELSE selects[Len(selects)] = lastSentHeld
    /\ at = "held" => lastSentHeld = Held

HotbarInv == HotbarType /\ SlotsDistinct /\ SlotsFresh /\ HandTold

\* syncInvSlots: every new item goes to an empty slot of its own, and of the
\* others those stay that are in stock.
LEMMA SyncKeepsSlots ==
    ASSUME HotbarInv, SyncInvSlots
    PROVE  /\ invSlots' \in [SlotIds -> Items \cup {Empty}]
           /\ SlotsDistinct' /\ Present' = stock
  <1> USE HotbarAssumption DEF HotbarInv, HotbarType
  <1>1. PICK put \in Placings :
            invSlots' =
              LET filled == [i \in SlotIds |->
                                IF \E item \in NewItems : put[item] = i
                                  THEN CHOOSE item \in NewItems : put[item] = i
                                  ELSE invSlots[i]]
              IN  [i \in SlotIds |-> IF filled[i] \in stock THEN filled[i] ELSE Empty]
    BY DEF SyncInvSlots
  <1>2. /\ put \in [NewItems -> EmptySlots]
        /\ \A a, b \in NewItems : put[a] = put[b] => a = b
    BY DEF Placings, Injection, IsInjective
  <1>3. NewItems \subseteq stock /\ EmptySlots \subseteq SlotIds
    BY DEF NewItems, EmptySlots
  <1>4. \A item \in NewItems : put[item] \in SlotIds /\ invSlots[put[item]] = Empty
    BY <1>2, <1>3 DEF EmptySlots
  <1> DEFINE filled == [i \in SlotIds |->
                          IF \E item \in NewItems : put[item] = i
                            THEN CHOOSE item \in NewItems : put[item] = i
                            ELSE invSlots[i]]
  <1>5. \A item \in NewItems : filled[put[item]] = item
    <2> SUFFICES ASSUME NEW item \in NewItems PROVE filled[put[item]] = item
      OBVIOUS
    <2>1. filled[put[item]] = CHOOSE one \in NewItems : put[one] = put[item]
      BY <1>4
    <2>2. (CHOOSE one \in NewItems : put[one] = put[item]) \in NewItems
          /\ put[CHOOSE one \in NewItems : put[one] = put[item]] = put[item]
      OBVIOUS
    <2> HIDE DEF filled
    <2> QED BY <2>1, <2>2, <1>2
  <1>6. \A i \in SlotIds : \/ \E item \in NewItems : put[item] = i /\ filled[i] = item
                           \/ /\ \A item \in NewItems : put[item] # i
                              /\ filled[i] = invSlots[i]
    <2> SUFFICES ASSUME NEW i \in SlotIds, \E item \in NewItems : put[item] = i
                 PROVE  \E item \in NewItems : put[item] = i /\ filled[i] = item
      OBVIOUS
    <2>1. PICK item \in NewItems : put[item] = i OBVIOUS
    <2> HIDE DEF filled
    <2> QED BY <2>1, <1>5
  <1>7. invSlots' = [i \in SlotIds |-> IF filled[i] \in stock THEN filled[i] ELSE Empty]
    BY <1>1
  <1> HIDE DEF filled
  <1>8. \A i \in SlotIds : invSlots'[i] = IF filled[i] \in stock THEN filled[i] ELSE Empty
    BY <1>7
  <1>9. invSlots' \in [SlotIds -> Items \cup {Empty}]
    BY <1>7
  <1>10. SlotsDistinct'
    <2> SUFFICES ASSUME NEW i \in SlotIds, NEW j \in SlotIds, i # j,
                        invSlots'[i] # Empty, invSlots'[i] = invSlots'[j]
                 PROVE  FALSE
      BY DEF SlotsDistinct, SlotIds
    <2>1. filled[i] = filled[j] /\ filled[i] \in stock /\ filled[i] # Empty
      BY <1>8
    <2>2. CASE \E item \in NewItems : put[item] = i /\ filled[i] = item
      <3>1. PICK item \in NewItems : put[item] = i /\ filled[i] = item BY <2>2
      <3>2. item \notin Present BY DEF NewItems
      <3>3. invSlots[j] # item BY <3>2, <2>1, <3>1 DEF Present
      <3>4. PICK other \in NewItems : put[other] = j /\ filled[j] = other
        BY <3>3, <3>1, <2>1, <1>6
      <3> QED BY <3>1, <3>4, <2>1
    <2>3. CASE \E item \in NewItems : put[item] = j /\ filled[j] = item
      <3>1. PICK item \in NewItems : put[item] = j /\ filled[j] = item BY <2>3
      <3>2. item \notin Present BY DEF NewItems
      <3>3. invSlots[i] # item BY <3>2, <2>1, <3>1 DEF Present
      <3>4. PICK other \in NewItems : put[other] = i /\ filled[i] = other
        BY <3>3, <3>1, <2>1, <1>6
      <3> QED BY <3>1, <3>4, <2>1
    <2>4. CASE filled[i] = invSlots[i] /\ filled[j] = invSlots[j]
      BY <2>4, <2>1 DEF SlotsDistinct
    <2> QED BY <2>2, <2>3, <2>4, <1>6
  <1>11. Present' = {invSlots'[i] : i \in SlotIds} \ {Empty}
    BY DEF Present, SlotIds
  <1>12. Present' \subseteq stock
    BY <1>11, <1>8
  <1>13. ASSUME NEW item \in stock PROVE item \in Present'
    <2>1. item # Empty OBVIOUS
    <2>2. CASE item \in Present
      <3>1. PICK i \in SlotIds : invSlots[i] = item BY <2>2 DEF Present
      <3>2. filled[i] = item BY <3>1, <2>1, <1>4, <1>6
      <3> QED BY <3>2, <2>1, <1>8, <1>11
    <2>3. CASE item \in NewItems
      BY <2>3, <2>1, <1>4, <1>5, <1>8, <1>11
    <2> QED BY <2>2, <2>3 DEF NewItems
  <1> QED BY <1>9, <1>10, <1>12, <1>13

\* Dragging an item to another slot leaves the same items, each once.
LEMMA DropKeepsSlots ==
    ASSUME HotbarInv, DropItem
    PROVE  /\ invSlots' \in [SlotIds -> Items \cup {Empty}]
           /\ SlotsDistinct'
  <1>1. PICK i \in SlotIds, j \in SlotIds :
            i # j /\ invSlots' = [invSlots EXCEPT ![i] = invSlots[j], ![j] = invSlots[i]]
    BY DEF DropItem
  <1>2. invSlots' \in [SlotIds -> Items \cup {Empty}]
    BY <1>1 DEF HotbarInv, HotbarType
  <1>3. \A k \in SlotIds : invSlots'[k] = IF k = j THEN invSlots[i]
                                          ELSE IF k = i THEN invSlots[j] ELSE invSlots[k]
    BY <1>1 DEF HotbarInv, HotbarType
  <1>4. SlotsDistinct'
    <2> SUFFICES ASSUME NEW k \in SlotIds, NEW l \in SlotIds, k # l, invSlots'[k] # Empty
                 PROVE  invSlots'[k] # invSlots'[l]
      BY DEF SlotsDistinct, SlotIds
    <2>1. i # j BY <1>1
    <2>2. \A p, q \in SlotIds : p # q /\ invSlots[p] # Empty => invSlots[p] # invSlots[q]
      BY DEF HotbarInv, SlotsDistinct
    <2> QED BY <2>1, <2>2, <1>3
  <1> QED BY <1>2, <1>4

\* The last message of a queue is the one that is taken last.
LEMMA LastTaken ==
    ASSUME NEW S, NEW q \in Seq(S), q # <<>>
    PROVE  IF Tail(q) = <<>> THEN Head(q) = q[Len(q)]
           ELSE Tail(q)[Len(Tail(q))] = q[Len(q)]
  <1>1. Len(q) \in Nat \ {0} /\ Head(q) = q[1] OBVIOUS
  <1>2. Tail(q) \in Seq(S) /\ Len(Tail(q)) = Len(q) - 1 OBVIOUS
  <1>3. \A i \in 1 .. Len(q) - 1 : Tail(q)[i] = q[i + 1] OBVIOUS
  <1>4. CASE Tail(q) = <<>>
    <2>0. Len(<<>>) = 0 OBVIOUS
    <2>1. Len(Tail(q)) = 0 BY <1>4, <2>0, Zenon
    <2>2. \A n \in Nat : 0 = n - 1 => n = 1 OBVIOUS
    <2>3. Len(q) = 1 BY <1>1, <1>2, <2>1, <2>2
    <2>4. QED BY <1>1, <1>4, <2>3
  <1>5. CASE Tail(q) # <<>>
    <2>1. Len(Tail(q)) # 0 BY <1>2, <1>5
    <2>2. Len(q) - 1 \in 1 .. Len(q) - 1 /\ (Len(q) - 1) + 1 = Len(q) BY <1>1, <1>2, <2>1
    <2>3. QED BY <1>2, <1>3, <1>5, <2>2
  <1>6. QED BY <1>4, <1>5

\* Every action of the inventory and of the hand keeps HotbarInv.
LEMMA HotbarStep ==
    ASSUME HotbarInv, HotbarNext
    PROVE  HotbarInv'
  <1> USE HotbarAssumption DEF HotbarInv, HotbarType
  <1>1. CASE InventoryUpdate
    BY <1>1 DEF InventoryUpdate, SlotsDistinct, SlotsFresh, HandTold, Present, Held, SlotIds
  <1>2. CASE SyncInvSlots
    <2>1. /\ invSlots' \in [SlotIds -> Items \cup {Empty}]
          /\ SlotsDistinct' /\ Present' = stock
      BY <1>2, SyncKeepsSlots
    <2> QED BY <1>2, <2>1 DEF SyncInvSlots, SlotsFresh, HandTold, SlotIds
  <1>3. CASE SlotWheel
    <2>1. selectedSlot' \in 0 .. Hot - 1
      BY <1>3 DEF SlotWheel
    <2> QED BY <1>3, <2>1 DEF SlotWheel, SlotsDistinct, SlotsFresh, HandTold, Present, SlotIds
  <1>4. CASE SyncHeldItem
    <2>1. Held \in Items \cup {Empty} /\ Held' = Held
      BY <1>4 DEF SyncHeldItem, Held, SlotIds
    <2>2. HotbarType' /\ HandTold'
      <3>1. CASE Held = lastSentHeld
        BY <1>4, <2>1, <3>1 DEF SyncHeldItem, HandTold, SlotIds
      <3>2. CASE Held # lastSentHeld
        <4>1. /\ lastSentHeld' = Held /\ selects' = Append(selects, Held) /\ told' = TRUE
              /\ at' = "held" /\ UNCHANGED <<invSlots, selectedSlot, stock, seen, heldItem>>
          BY <1>4, <3>2 DEF SyncHeldItem
        <4>2. HotbarType' BY <2>1, <4>1 DEF SlotIds
        <4>3. selects' # <<>> /\ selects'[Len(selects')] = Held BY <2>1, <4>1
        <4> QED BY <2>1, <4>1, <4>2, <4>3 DEF HandTold
      <3> QED BY <3>1, <3>2
    <2> QED BY <1>4, <2>2 DEF SyncHeldItem, SlotsDistinct, SlotsFresh, Present, SlotIds
  <1>5. CASE DropItem
    <2>1. invSlots' \in [SlotIds -> Items \cup {Empty}] /\ SlotsDistinct'
      BY <1>5, DropKeepsSlots
    <2> QED BY <1>5, <2>1 DEF DropItem, SlotsFresh, HandTold, SlotIds
  <1>6. CASE DrawHotbar
    BY <1>6 DEF DrawHotbar, SlotsDistinct, SlotsFresh, HandTold, Present, Held, SlotIds
  <1>7. CASE SelectItem
    <2>1. /\ selects # <<>> /\ heldItem' = Head(selects) /\ selects' = Tail(selects)
          /\ UNCHANGED <<invSlots, selectedSlot, lastSentHeld, stock, seen, at, told>>
      BY <1>7 DEF SelectItem
    <2>2. HotbarType' BY <2>1
    <2>3. HandTold'
      <3>1. IF Tail(selects) = <<>> THEN Head(selects) = selects[Len(selects)]
            ELSE Tail(selects)[Len(Tail(selects))] = selects[Len(selects)]
        BY <2>1, LastTaken
      <3>2. Held' = Held BY <2>1 DEF Held
      <3>3. told => selects[Len(selects)] = lastSentHeld BY <2>1 DEF HandTold
      <3>4. at = "held" => lastSentHeld = Held BY DEF HandTold
      <3> HIDE DEF HotbarInv, HotbarType
      <3> QED BY <2>1, <3>1, <3>2, <3>3, <3>4 DEF HandTold
    <2>4. SlotsDistinct' /\ SlotsFresh' BY <2>1 DEF SlotsDistinct, SlotsFresh, Present
    <2> QED BY <2>2, <2>3, <2>4
  <1>8. CASE HotbarRejoins
    <2>1. /\ at = "drawn" /\ selects' = <<>> /\ heldItem' = Empty /\ told' = FALSE
          /\ UNCHANGED <<invSlots, selectedSlot, lastSentHeld, stock, seen, at>>
      BY <1>8 DEF HotbarRejoins
    <2>0. FALSE \in BOOLEAN OBVIOUS
    <2>2. HotbarType'
      <3>1. <<>> \in Seq(Items \cup {Empty}) OBVIOUS
      <3> QED BY <2>0, <2>1, <3>1, Zenon
    <2>3. HandTold' BY <2>1 DEF HandTold
    <2>4. SlotsDistinct' /\ SlotsFresh' BY <2>1 DEF SlotsDistinct, SlotsFresh
    <2> QED BY <2>2, <2>3, <2>4
  <1> QED
    BY <1>1, <1>2, <1>3, <1>4, <1>5, <1>6, <1>7, <1>8 DEF HotbarNext

\* The inductive invariant of the slots and the hand.
THEOREM HotbarInvariant == HotbarSpec => []HotbarInv
  <1>1. HotbarInit => HotbarInv
    BY HotbarAssumption
    DEF HotbarInit, HotbarInv, HotbarType, SlotsDistinct, SlotsFresh, HandTold, SlotIds
  <1>2. HotbarInv /\ UNCHANGED hotbarVars => HotbarInv'
    BY DEF hotbarVars, HotbarInv, HotbarType, SlotsDistinct, SlotsFresh, HandTold, Present, Held, SlotIds
  <1>3. HotbarInv /\ [HotbarNext]_hotbarVars => HotbarInv'
    BY <1>2, HotbarStep
  <1> QED BY <1>1, <1>3, PTL DEF HotbarSpec

\* SlotsMatch: however the player drags and the stock changes, no item is shown
\* twice, a frame shows exactly the stock it has read, and the hand that the
\* server knows is the one that a click uses.
THEOREM SlotsShown == HotbarSpec => []SlotsMatch
  <1>1. HotbarInv => SlotsMatch
    BY DEF HotbarInv, HotbarType, SlotsDistinct, SlotsFresh, HandTold, SlotsMatch
  <1> QED BY <1>1, HotbarInvariant, PTL

-----------------------------------------------------------------------------
(* EarthView: the buffer of snapshots and the clock *)

Entries == [tick : Nat \ {0}, run : Nat \ {0}, pos : Int, posRun : Nat \ {0}]

ViewType ==
    /\ run \in Nat \ {0} /\ latest \in [tick : Nat, run : Nat \ {0}] /\ latest.run <= run
    /\ frame \in {"begin", "pos"} /\ ep \in [pos : Int, run : Nat \ {0}] /\ ep.run <= run
    /\ history \in Seq(Entries) /\ renderTick \in Int /\ started \in BOOLEAN
    /\ drawn \in [num : Int, den : Nat \ {0}]

\* The buffer is in the order in which the snapshots came: the ticks of one
\* server grow.
InOrder(h) ==
    \A i, j \in 1..Len(h) : i < j =>
        /\ h[i].run <= h[j].run
        /\ h[i].run = h[j].run => h[i].tick < h[j].tick

\* A position is not after its tick and, when the entry before it is from the
\* same server, not before the tick of that; only the first entry may have the
\* position of a client that has received nothing.
InPlace(h) ==
    \A i \in 1..Len(h) :
        /\ h[i].posRun = h[i].run => h[i].pos <= h[i].tick
        /\ i > 1 => h[i].pos # Origin
        /\ i > 1 /\ h[i].posRun = h[i].run /\ h[i - 1].run = h[i].run
               => h[i - 1].tick <= h[i].pos

\* Nothing in the buffer is newer than the latest snapshot.
NotAhead ==
    /\ history # <<>> => latest.tick > 0
    /\ \A i \in 1..Len(history) :
          /\ history[i].run <= latest.run /\ history[i].posRun <= run
          /\ history[i].run = latest.run => history[i].tick <= latest.tick

\* The position that a frame has read, while it has not read the tick.
ReadInv ==
    frame = "pos" =>
        /\ ep.run <= latest.run
        /\ ep.run = latest.run => ep.pos <= EarthAt(latest.tick)
        /\ history # <<>> => ep.pos # Origin
        /\ history # <<>> /\ history[Len(history)].run = ep.run
               => history[Len(history)].tick <= ep.pos

\* advanceRenderTick has put the clock between the oldest entry and a tick
\* before the newest, or there if the newest is older.
ClockInv ==
    /\ history # <<>> => started
    /\ Len(history) >= 2 =>
          /\ renderTick <= Sub * (history[Len(history)].tick - 1)
          /\ \/ Sub * history[1].tick <= renderTick
             \/ renderTick = Sub * (history[Len(history)].tick - 1)

\* What Interpolate draws from a buffer that is not empty.
Between(h, clock) ==
    LET i == FirstOf(h, clock)
        j == SecondOf(h, i)
        span == h[j].tick - h[i].tick
        off == AtMost(AtLeast(clock - Sub * h[i].tick, 0), Sub * span)
    IN  IF j = 0 \/ span <= 0 THEN [num |-> Sub * h[i].pos, den |-> 1]
        ELSE [num |-> Sub * h[i].pos * span + (h[j].pos - h[i].pos) * off, den |-> span]

\* Earth is drawn from the buffer and, on the first server, not beyond what the
\* client has received and the frame has read.
DrawnInv ==
    /\ history # <<>> => drawn = Between(history, renderTick)
    /\ run = 1 => drawn.num <= Sub * EarthAt(latest.tick) * drawn.den
    /\ run = 1 /\ frame = "pos" => drawn.num <= Sub * ep.pos * drawn.den

ViewInv ==
    /\ ViewType /\ InOrder(history) /\ InPlace(history)
    /\ NotAhead /\ ReadInv /\ ClockInv /\ DrawnInv

\* Arithmetic that the provers need spelled out.
LEMMA TimesMonotone ==
    ASSUME NEW a \in Int, NEW b \in Int, NEW c \in Int, a <= b, c >= 0
    PROVE  a * c <= b * c
  <1>1. PICK d \in Nat : b = a + d
    <2>1. b - a \in Nat /\ b = a + (b - a) OBVIOUS
    <2> QED BY <2>1
  <1>2. c \in Nat OBVIOUS
  <1>3. d * c \in Nat BY <1>1, <1>2
  <1>4. b * c = a * c + d * c BY <1>1
  <1> QED BY <1>3, <1>4

\* What lies between two positions is a mean of the two.
LEMMA SegmentForm ==
    ASSUME NEW s \in Int, NEW p \in Int, NEW q \in Int, NEW n \in Int, NEW o \in Int
    PROVE  s * p * n + (q - p) * o = p * (s * n - o) + q * o
  OBVIOUS

\* n / d <= x <= y <= m / e.
LEMMA CrossMultiply ==
    ASSUME NEW n \in Int, NEW m \in Int, NEW d \in Nat \ {0}, NEW e \in Nat \ {0},
           NEW x \in Int, NEW y \in Int, n <= x * d, x <= y, y * e <= m
    PROVE  n * e <= m * d
  <1>1. x * d \in Int /\ y * e \in Int /\ x * e \in Int OBVIOUS
  <1>2. n * e <= (x * d) * e BY <1>1, TimesMonotone
  <1>3. x * e <= y * e BY TimesMonotone
  <1>4. x * e <= m BY <1>3, <1>1
  <1>5. (x * e) * d <= m * d BY <1>1, <1>4, TimesMonotone
  <1>6. (x * d) * e = (x * e) * d OBVIOUS
  <1>7. n * e \in Int /\ m * d \in Int /\ (x * d) * e \in Int BY <1>1
  <1> QED BY <1>2, <1>5, <1>6, <1>7

\* The entries up to a clock have a last one.
LEMMA GreatestOf ==
    ASSUME NEW n \in Nat, NEW S, S \subseteq 1..n, S # {}
    PROVE  \E i \in S : \A j \in S : j <= i
  <1> DEFINE T == {m \in Nat : n - m \in S}
             R == OpToRel(<, Nat)
  <1>1. T \subseteq Nat OBVIOUS
  <1>2. T # {}
    <2>1. PICK i \in S : TRUE OBVIOUS
    <2>2. n - i \in Nat /\ n - (n - i) = i BY <2>1
    <2>3. n - i \in T BY <2>1, <2>2
    <2> QED BY <2>3
  <1>3. IsWellFoundedOn(R, Nat) BY NatLessThanWellFounded
  <1> HIDE DEF T, R
  <1>4. PICK m \in T : \A k \in T : ~(<<k, m>> \in R) BY <1>1, <1>2, <1>3, WFMin
  <1>5. m \in Nat /\ n - m \in S BY <1>4 DEF T
  <1>6. ASSUME NEW j \in S PROVE j <= n - m
    <2>1. n - j \in Nat /\ n - (n - j) = j OBVIOUS
    <2>2. n - j \in T BY <2>1 DEF T
    <2>3. ~(n - j < m) BY <2>1, <2>2, <1>4, <1>5 DEF R, OpToRel
    <2> QED BY <2>3, <2>1, <1>5
  <1> QED BY <1>5, <1>6

\* The numbers of an entry.
LEMMA EntryIs ==
    ASSUME NEW h \in Seq(Entries), NEW k \in 1..Len(h)
    PROVE  /\ h[k] \in Entries /\ h[k].tick \in Nat \ {0} /\ h[k].pos \in Int
           /\ h[k].run \in Nat \ {0} /\ h[k].posRun \in Nat \ {0}
  <1>1. h[k] \in Entries OBVIOUS
  <1> QED BY <1>1 DEF Entries

\* FirstOf is the last entry that is not after the clock.
LEMMA FirstIs ==
    ASSUME NEW h \in Seq(Entries), NEW clock \in Int,
           NEW k \in 1..Len(h), Sub * h[k].tick <= clock
    PROVE  /\ FirstOf(h, clock) \in 1..Len(h)
           /\ Sub * h[FirstOf(h, clock)].tick <= clock
           /\ \A j \in 1..Len(h) : Sub * h[j].tick <= clock => j <= FirstOf(h, clock)
  <1> DEFINE past == {i \in 1..Len(h) : Sub * h[i].tick <= clock}
             first == CHOOSE i \in past : \A j \in past : j <= i
  <1>1. past # {} /\ past \subseteq 1..Len(h) /\ Len(h) \in Nat OBVIOUS
  <1>2. FirstOf(h, clock) = first BY <1>1 DEF FirstOf
  <1> HIDE DEF past
  <1>3. \E i \in past : \A j \in past : j <= i BY <1>1, GreatestOf
  <1>4. first \in past /\ \A j \in past : j <= first BY <1>3
  <1> HIDE DEF first
  <1> QED BY <1>2, <1>4 DEF past

\* It is an entry.
LEMMA FirstType ==
    ASSUME NEW h \in Seq(Entries), h # <<>>, NEW clock \in Int
    PROVE  FirstOf(h, clock) \in 1..Len(h)
  <1>1. Len(h) \in Nat \ {0} OBVIOUS
  <1>2. CASE {i \in 1..Len(h) : Sub * h[i].tick <= clock} = {} BY <1>1, <1>2 DEF FirstOf
  <1>3. CASE {i \in 1..Len(h) : Sub * h[i].tick <= clock} # {}
    <2>1. PICK k \in 1..Len(h) : Sub * h[k].tick <= clock BY <1>3
    <2> QED BY <2>1, FirstIs
  <1> QED BY <1>2, <1>3

\* The clock is where advanceRenderTick leaves it.
Clamped(h, clock) ==
    /\ clock <= Sub * (h[Len(h)].tick - 1)
    /\ Sub * h[1].tick <= clock \/ clock = Sub * (h[Len(h)].tick - 1)

\* When the newest two entries are from one server, the clock is between two
\* entries that follow each other, and in the right order.
LEMMA ClockSegment ==
    ASSUME NEW h \in Seq(Entries), NEW clock \in Int, InOrder(h), Len(h) >= 2,
           h[Len(h) - 1].run = h[Len(h)].run, Clamped(h, clock)
    PROVE  LET i == FirstOf(h, clock)
           IN  /\ i \in 1..(Len(h) - 1)
               /\ Sub * h[i].tick <= clock /\ clock < Sub * h[i + 1].tick
               /\ h[i].tick < h[i + 1].tick
  <1> USE ViewAssumption
  <1> DEFINE n == Len(h)
             i == FirstOf(h, clock)
  <1>1. n \in Nat /\ n >= 2 /\ n - 1 \in 1..n /\ n \in 1..n /\ 1 \in 1..n OBVIOUS
  <1>2. \A k \in 1..n : h[k] \in Entries BY <1>1
  <1>3. \A k \in 1..n : h[k].tick \in Nat \ {0} BY <1>2 DEF Entries
  <1>4. h[n - 1].tick <= h[n].tick - 1
    BY SMTT(30), <1>1, <1>3 DEF InOrder
  <1>5. Sub * h[n - 1].tick <= Sub * (h[n].tick - 1)
    <2>1. PICK a \in Int : a = h[n - 1].tick BY SMTT(30), <1>1, <1>3
    <2>2. PICK b \in Int : b = h[n].tick - 1 BY SMTT(30), <1>1, <1>3
    <2>3. a <= b BY <2>1, <2>2, <1>4
    <2>4. a * Sub <= b * Sub BY <2>3, TimesMonotone
    <2>5. Sub * a <= Sub * b BY <2>4
    <2> QED BY <2>1, <2>2, <2>5
  <1>6. Sub * (h[n].tick - 1) < Sub * h[n].tick
    <2>1. PICK b \in Int : b = h[n].tick BY SMTT(30), <1>1, <1>3
    <2>2. Sub * (b - 1) = Sub * b - Sub BY <2>1
    <2> QED BY SMTT(30), <2>1, <2>2
  <1>7. Sub * h[1].tick <= clock \/ Sub * h[n - 1].tick <= clock
    BY <1>5 DEF Clamped
  <1>8. /\ i \in 1..n /\ Sub * h[i].tick <= clock
        /\ \A j \in 1..n : Sub * h[j].tick <= clock => j <= i
    <2>1. CASE Sub * h[1].tick <= clock BY <2>1, <1>1, FirstIs
    <2>2. CASE Sub * h[n - 1].tick <= clock BY <2>2, <1>1, FirstIs
    <2> QED BY <2>1, <2>2, <1>7
  <1>9. clock < Sub * h[n].tick
    <2>1. PICK b \in Int : b = h[n].tick BY <1>1, <1>3
    <2>2. PICK c \in Int, d \in Int : c = Sub * (b - 1) /\ d = Sub * b BY SMTT(30), <2>1
    <2>3. clock <= c BY <2>1, <2>2 DEF Clamped
    <2>4. c < d BY <1>6, <2>1, <2>2
    <2>5. clock < d BY <2>2, <2>3, <2>4
    <2> QED BY <2>1, <2>2, <2>5
  <1> HIDE DEF i
  <1>10. i # n
    <2>1. PICK b \in Int : b = h[n].tick BY <1>1, <1>3
    <2>2. PICK c \in Int : c = Sub * b BY <2>1
    <2> QED BY SMTT(30), <1>8, <1>9, <2>1, <2>2
  <1>11. i \in 1..(n - 1) /\ i + 1 \in 1..n BY <1>8, <1>10, <1>1
  <1>12. clock < Sub * h[i + 1].tick
    <2>1. ~(Sub * h[i + 1].tick <= clock) BY SMTT(30), <1>8, <1>11
    <2>2. PICK b \in Int : b = Sub * h[i + 1].tick BY SMTT(30), <1>11, <1>3
    <2> QED BY SMTT(30), <2>1, <2>2
  <1>13. h[i].tick < h[i + 1].tick
    <2>1. PICK a \in Int : a = h[i].tick BY SMTT(30), <1>8, <1>3
    <2>2. PICK b \in Int : b = h[i + 1].tick BY SMTT(30), <1>11, <1>3
    <2>3. Sub * a <= clock /\ clock < Sub * b BY <1>8, <1>12, <2>1, <2>2
    <2>4. SUFFICES ASSUME b <= a PROVE FALSE BY SMTT(30), <2>1, <2>2
    <2>5. b * Sub <= a * Sub BY <2>4, TimesMonotone
    <2> QED BY <2>3, <2>5
  <1> QED BY <1>8, <1>11, <1>12, <1>13 DEF i

\* A mean of two positions is between them.
LEMMA SegmentBounds ==
    ASSUME NEW s \in Nat, NEW p \in Int, NEW q \in Int, NEW n \in Nat \ {0}, NEW o \in Int,
           p <= q, 0 <= o, o <= s * n
    PROVE  /\ s * p * n <= s * p * n + (q - p) * o
           /\ s * p * n + (q - p) * o <= s * q * n
  <1>1. q - p \in Nat /\ o \in Nat /\ s * n \in Nat OBVIOUS
  <1>2. (q - p) * o \in Nat /\ s * p * n \in Int /\ s * q * n \in Int BY <1>1
  <1>3. o * (q - p) <= (s * n) * (q - p) BY <1>1, TimesMonotone
  <1>4. (s * n) * (q - p) = s * q * n - s * p * n
    <2>1. PICK w \in Int : w = s * n OBVIOUS
    <2>2. w * (q - p) = w * q - w * p BY <2>1
    <2>3. w * q = s * q * n /\ w * p = s * p * n BY <2>1
    <2> QED BY <2>1, <2>2, <2>3
  <1>5. (q - p) * o = o * (q - p) BY <1>1
  <1> QED BY <1>2, <1>3, <1>4, <1>5

\* What is drawn is a fraction.
LEMMA BetweenType ==
    ASSUME NEW h \in Seq(Entries), h # <<>>, NEW clock \in Int
    PROVE  Between(h, clock) \in [num : Int, den : Nat \ {0}]
  <1> USE ViewAssumption
  <1> DEFINE i == FirstOf(h, clock)
             j == SecondOf(h, i)
             span == h[j].tick - h[i].tick
             off == AtMost(AtLeast(clock - Sub * h[i].tick, 0), Sub * span)
  <1>1. i \in 1..Len(h) BY FirstType
  <1>2. \A k \in 1..Len(h) : h[k].tick \in Nat /\ h[k].pos \in Int BY EntryIs
  <1>3. h[i].tick \in Nat /\ h[i].pos \in Int BY <1>1, <1>2
  <1>4. CASE j = 0 \/ span <= 0
    <2>1. Between(h, clock) = [num |-> Sub * h[i].pos, den |-> 1] BY <1>4 DEF Between
    <2>2. Sub * h[i].pos \in Int BY <1>3
    <2> HIDE DEF i
    <2> QED BY <2>1, <2>2
  <1>5. CASE ~(j = 0 \/ span <= 0)
    <2>1. Between(h, clock)
            = [num |-> Sub * h[i].pos * span + (h[j].pos - h[i].pos) * off, den |-> span]
      BY <1>5 DEF Between
    <2>2. j \in 1..Len(h) BY <1>1, <1>5 DEF SecondOf
    <2>3. h[j].tick \in Nat /\ h[j].pos \in Int BY <2>2, <1>2
    <2>4. span \in Nat \ {0}
      <3>1. PICK x \in Nat, y \in Nat : x = h[j].tick /\ y = h[i].tick BY <2>3, <1>3
      <3>2. span = x - y BY <3>1
      <3>3. ~(x - y <= 0) BY <1>5, <3>2
      <3>4. \A u, v \in Nat : ~(u - v <= 0) => u - v \in Nat \ {0} OBVIOUS
      <3>5. x - y \in Nat \ {0} BY <3>1, <3>3, <3>4, Zenon
      <3> QED BY <3>2, <3>5, Zenon
    <2>5. off \in Int
      <3>1. PICK x \in Int : x = clock - Sub * h[i].tick BY SMTT(30), <1>3
      <3>2. PICK y \in Int : y = Sub * span BY <2>4
      <3>3. off = AtMost(AtLeast(x, 0), y) BY <3>1, <3>2
      <3> QED BY <3>3, <3>1, <3>2 DEF AtMost, AtLeast
    <2> HIDE DEF i, j, span, off
    <2>6. Sub * h[i].pos * span + (h[j].pos - h[i].pos) * off \in Int
      <3>1. PICK p \in Int, q \in Int : p = h[i].pos /\ q = h[j].pos BY <1>3, <2>3
      <3>2. Sub * p * span \in Int /\ (q - p) * off \in Int BY <2>4, <2>5
      <3>3. Sub * p * span + (q - p) * off \in Int BY <3>2
      <3> QED BY <3>1, <3>3
    <2> QED BY <2>1, <2>4, <2>6
  <1> QED BY <1>4, <1>5

\* All of the buffer is from one server.
OneServer(h) ==
    \A i, j \in 1..Len(h) : h[i].run = h[j].run /\ h[i].posRun = h[i].run

\* Then positions and ticks alternate.
LEMMA PositionsGrow ==
    ASSUME NEW h \in Seq(Entries), InOrder(h), InPlace(h), OneServer(h),
           NEW i \in 1..Len(h), NEW j \in 1..Len(h), i < j
    PROVE  /\ h[i].pos <= h[i].tick /\ h[i].tick <= h[j - 1].tick
           /\ h[j - 1].tick <= h[j].pos /\ h[i].pos <= h[j].pos
  <1>1. \A k \in 1..Len(h) : h[k].tick \in Nat /\ h[k].pos \in Int BY EntryIs
  <1>2. j - 1 \in 1..Len(h) /\ j > 1 /\ i <= j - 1 OBVIOUS
  <1>3. h[i].pos <= h[i].tick BY DEF InPlace, OneServer
  <1>4. h[j - 1].tick <= h[j].pos BY <1>2 DEF InPlace, OneServer
  <1>5. h[i].tick <= h[j - 1].tick
    <2>1. CASE i = j - 1 BY <2>1, <1>1
    <2>2. CASE i < j - 1 BY <2>2, <1>1, <1>2 DEF InOrder, OneServer
    <2> QED BY <2>1, <2>2, <1>2
  <1>6. /\ h[i].pos \in Int /\ h[i].tick \in Int /\ h[j - 1].tick \in Int /\ h[j].pos \in Int
    BY <1>1, <1>2
  <1>7. h[i].pos <= h[j].pos BY <1>3, <1>4, <1>5, <1>6
  <1> QED BY <1>3, <1>4, <1>5, <1>7

\* Two entries or more: Earth is on the segment that the clock is in.
LEMMA BetweenSegment ==
    ASSUME NEW h \in Seq(Entries), NEW clock \in Int, InOrder(h), InPlace(h), OneServer(h),
           Len(h) >= 2, Clamped(h, clock)
    PROVE  LET i == FirstOf(h, clock)
               span == h[i + 1].tick - h[i].tick
           IN  /\ i \in 1..(Len(h) - 1) /\ span \in Nat \ {0}
               /\ Sub * h[i].tick <= clock /\ clock < Sub * h[i + 1].tick
               /\ 0 <= clock - Sub * h[i].tick /\ clock - Sub * h[i].tick <= Sub * span
               /\ Between(h, clock) =
                    [num |-> Sub * h[i].pos * span
                               + (h[i + 1].pos - h[i].pos) * (clock - Sub * h[i].tick),
                     den |-> span]
  <1> USE ViewAssumption
  <1> DEFINE i == FirstOf(h, clock)
             span == h[i + 1].tick - h[i].tick
             off == clock - Sub * h[i].tick
  <1>1. Len(h) - 1 \in 1..Len(h) /\ Len(h) \in 1..Len(h) OBVIOUS
  <1>2. h[Len(h) - 1].run = h[Len(h)].run BY <1>1 DEF OneServer
  <1>3. /\ i \in 1..(Len(h) - 1) /\ h[i].tick < h[i + 1].tick
        /\ Sub * h[i].tick <= clock /\ clock < Sub * h[i + 1].tick
    BY <1>2, ClockSegment
  <1>4. i \in 1..Len(h) /\ i + 1 \in 1..Len(h) BY SMTT(30), <1>3
  <1>5. h[i].tick \in Nat /\ h[i + 1].tick \in Nat BY <1>4, EntryIs
  <1>6. PICK a \in Nat, b \in Nat : a = h[i].tick /\ b = h[i + 1].tick BY <1>5
  <1>7. span = b - a /\ off = clock - Sub * a BY <1>6
  <1>8. span \in Nat \ {0}
    <2>1. a < b BY <1>3, <1>6
    <2> QED BY SMTT(30), <2>1, <1>7
  <1>9. 0 <= off /\ off <= Sub * span /\ off \in Int /\ Sub * span \in Int
    <2>1. Sub * a <= clock /\ clock < Sub * b BY <1>3, <1>6
    <2> HIDE DEF i
    <2>2. Sub * (b - a) = Sub * b - Sub * a OBVIOUS
    <2>3. PICK x \in Int, y \in Int : x = Sub * a /\ y = Sub * b OBVIOUS
    <2> QED BY SMTT(30), <2>1, <2>2, <2>3, <1>7
  <1>10. AtMost(AtLeast(off, 0), Sub * span) = off
    <2>1. PICK x \in Int, y \in Int : x = off /\ y = Sub * span BY <1>9
    <2>2. 0 <= x /\ x <= y BY <1>9, <2>1
    <2>3. AtMost(AtLeast(x, 0), y) = x BY SMTT(30), <2>1, <2>2 DEF AtMost, AtLeast
    <2> HIDE DEF off, span
    <2> QED BY <2>1, <2>3
  <1>11. SecondOf(h, i) = i + 1 /\ i + 1 # 0 BY SMTT(30), <1>3 DEF SecondOf
  <1>12. ~(span <= 0) BY <1>8
  <1>13. Between(h, clock) =
            [num |-> Sub * h[i].pos * span + (h[i + 1].pos - h[i].pos) * off, den |-> span]
    BY <1>10, <1>11, <1>12 DEF Between
  <1> QED BY <1>3, <1>8, <1>9, <1>13

\* One entry: Earth is there.
LEMMA BetweenOne ==
    ASSUME NEW h \in Seq(Entries), NEW clock \in Int, Len(h) = 1
    PROVE  /\ FirstOf(h, clock) = 1
           /\ Between(h, clock) = [num |-> Sub * h[1].pos, den |-> 1]
  <1>1. h # <<>>
    <2>1. Len(<<>>) = 0 OBVIOUS
    <2>2. SUFFICES ASSUME h = <<>> PROVE FALSE OBVIOUS
    <2>3. Len(h) = 0 BY <2>1, <2>2, Zenon
    <2> QED BY <2>3
  <1>2. FirstOf(h, clock) \in 1..Len(h) BY <1>1, FirstType
  <1>3. FirstOf(h, clock) = 1 BY <1>2
  <1> QED BY <1>3 DEF Between, SecondOf

\* Earth is drawn between the entry before the clock and the one after it, if
\* there is one.
LEMMA BetweenBounds ==
    ASSUME NEW h \in Seq(Entries), h # <<>>, NEW clock \in Int,
           InOrder(h), InPlace(h), OneServer(h), Len(h) >= 2 => Clamped(h, clock)
    PROVE  LET i == FirstOf(h, clock)
               d == Between(h, clock)
           IN  /\ Sub * h[i].pos * d.den <= d.num
               /\ \E j \in i..Len(h) : j <= i + 1 /\ d.num <= Sub * h[j].pos * d.den
  <1> USE ViewAssumption
  <1> DEFINE i == FirstOf(h, clock)
             d == Between(h, clock)
  <1>1. \A k \in 1..Len(h) : h[k].tick \in Nat /\ h[k].pos \in Int BY EntryIs
  <1>2. CASE Len(h) = 1
    <2>1. i = 1 /\ d = [num |-> Sub * h[1].pos, den |-> 1] BY <1>2, BetweenOne
    <2>2. PICK p \in Int : p = h[1].pos BY <1>1, <1>2
    <2>3. d.num = Sub * p /\ d.den = 1 BY <2>1, <2>2
    <2>4. Sub * p * 1 = Sub * p /\ Sub * p \in Int BY <2>2
    <2>5. 1 \in i..Len(h) /\ 1 <= i + 1 BY <2>1, <1>2
    <2> HIDE DEF i, d
    <2>6. Sub * h[i].pos * d.den <= d.num BY <2>1, <2>2, <2>3, <2>4
    <2>7. d.num <= Sub * h[1].pos * d.den BY <2>2, <2>3, <2>4
    <2> QED BY <2>5, <2>6, <2>7 DEF i, d
  <1>3. CASE Len(h) >= 2
    <2> DEFINE span == h[i + 1].tick - h[i].tick
               off == clock - Sub * h[i].tick
    <2>1. /\ i \in 1..(Len(h) - 1) /\ span \in Nat \ {0}
          /\ 0 <= off /\ off <= Sub * span
          /\ d = [num |-> Sub * h[i].pos * span + (h[i + 1].pos - h[i].pos) * off, den |-> span]
      BY <1>3, BetweenSegment
    <2>2. i \in 1..Len(h) /\ i + 1 \in 1..Len(h) /\ i < i + 1 BY SMTT(30), <2>1
    <2>3. h[i].pos <= h[i + 1].pos BY <2>2, PositionsGrow
    <2>4. PICK p \in Int, q \in Int : p = h[i].pos /\ q = h[i + 1].pos BY <2>2, <1>1
    <2>5. off \in Int
      <3>1. h[i].tick \in Int BY <1>1, <2>2
      <3> QED BY SMTT(30), <3>1
    <2> HIDE DEF i, d, span, off
    <2>6. p <= q BY <2>3, <2>4
    <2>7. d.num = Sub * p * span + (q - p) * off /\ d.den = span BY <2>1, <2>4
    <2>8. /\ Sub * p * span <= Sub * p * span + (q - p) * off
          /\ Sub * p * span + (q - p) * off <= Sub * q * span
      BY <2>1, <2>4, <2>5, <2>6, SegmentBounds
    <2>9. Sub * h[i].pos * d.den <= d.num BY <2>7, <2>8, <2>4
    <2>10. d.num <= Sub * h[i + 1].pos * d.den BY <2>7, <2>8, <2>4
    <2>11. i + 1 \in i..Len(h) /\ i + 1 <= i + 1 BY <2>2
    <2> QED BY <2>9, <2>10, <2>11 DEF i, d
  <1>4. PICK n \in Nat \ {0} : n = Len(h) OBVIOUS
  <1>5. Len(h) = 1 \/ Len(h) >= 2
    <2>1. n = 1 \/ n >= 2 OBVIOUS
    <2> QED BY <2>1, <1>4
  <1> QED BY <1>2, <1>3, <1>5, Zenon

\* What pushEarthSnapshot appends.
Newest == [tick |-> latest.tick, run |-> latest.run, pos |-> ep.pos, posRun |-> ep.run]

\* h is the buffer with that appended and d of the oldest entries gone.
Pushed(h, d) ==
    /\ h \in Seq(Entries) /\ d \in 0..Len(history)
    /\ Len(h) = Len(history) + 1 - d /\ (d > 0 => Len(h) >= 2)
    /\ \A k \in 1..Len(h) : h[k] = IF k + d <= Len(history) THEN history[k + d] ELSE Newest

\* pushEarthSnapshot leaves the buffer, or appends to it.
LEMMA PushIs ==
    ASSUME ViewType
    PROVE  \/ /\ PushEarth = history
              /\ latest.tick = 0 \/ (history # <<>> /\ history[Len(history)].tick = latest.tick)
           \/ /\ latest.tick # 0
              /\ history # <<>> => history[Len(history)].tick # latest.tick
              /\ \E d : Pushed(PushEarth, d)
  <1> HistMax \in Nat /\ HistMax >= 2 BY ViewAssumption
  <1>1. CASE latest.tick = 0 \/ (history # <<>> /\ history[Len(history)].tick = latest.tick)
    BY <1>1 DEF PushEarth
  <1>2. CASE ~(latest.tick = 0 \/ (history # <<>> /\ history[Len(history)].tick = latest.tick))
    <2> DEFINE n == Len(history)
               longer == Append(history, Newest)
    <2>0. latest.tick # 0 /\ (history # <<>> => history[Len(history)].tick # latest.tick)
      BY <1>2, Zenon
    <2>1. history \in Seq(Entries) /\ n \in Nat BY DEF ViewType
    <2>2. Newest \in Entries
      <3>1. /\ latest.tick \in Nat \ {0} /\ latest.run \in Nat \ {0}
            /\ ep.pos \in Int /\ ep.run \in Nat \ {0}
        BY <2>0 DEF ViewType
      <3> QED BY <3>1 DEF Newest, Entries
    <2>3. /\ longer \in Seq(Entries) /\ Len(longer) = n + 1
          /\ \A k \in 1..Len(longer) : longer[k] = IF k <= n THEN history[k] ELSE Newest
      BY <2>1, <2>2
    <2>4. PushEarth = IF n + 1 > HistMax THEN SubSeq(longer, n + 2 - HistMax, n + 1) ELSE longer
      <3>1. PushEarth = IF Len(longer) > HistMax
                        THEN SubSeq(longer, Len(longer) - HistMax + 1, Len(longer)) ELSE longer
        BY <1>2 DEF PushEarth, Newest
      <3>2. (n + 1) - HistMax + 1 = n + 2 - HistMax BY <2>1
      <3> HIDE DEF longer
      <3> QED BY <3>1, <3>2, <2>3
    <2> HIDE DEF longer
    <2>5. ASSUME n + 1 <= HistMax PROVE \E d : Pushed(PushEarth, d)
      <3>1. PushEarth = longer BY <2>5, <2>4, <2>1
      <3>2. Pushed(longer, 0) BY <2>1, <2>3 DEF Pushed
      <3> QED BY <3>1, <3>2
    <2>6. ASSUME n + 1 > HistMax PROVE \E d : Pushed(PushEarth, d)
      <3> DEFINE d == n + 1 - HistMax
                 h == SubSeq(longer, d + 1, n + 1)
      <3>1. d \in 1..n /\ n + 2 - HistMax = d + 1 BY <2>6, <2>1
      <3>2. PushEarth = h BY <3>1, <2>6, <2>4
      <3>3. /\ h \in Seq(Entries) /\ Len(h) = n + 1 - d
            /\ \A k \in 1..Len(h) : h[k] = longer[k + d]
        BY <3>1, <2>1, <2>3
      <3>4. n + 1 - d = HistMax BY <2>1
      <3> HIDE DEF h, d
      <3>5. Pushed(h, d)
        <4>1. \A k \in 1..Len(h) : k + d \in 1..Len(longer) BY SMTT(30), <3>1, <3>3, <2>1, <2>3
        <4>2. \A k \in 1..Len(h) : h[k] = IF k + d <= n THEN history[k + d] ELSE Newest
          BY <4>1, <3>3, <2>3
        <4> QED BY <4>2, <3>1, <3>3, <3>4, <2>1 DEF Pushed
      <3> QED BY <3>2, <3>5
    <2>7. \E d : Pushed(PushEarth, d) BY <2>5, <2>6, <2>1
    <2> QED BY <2>7, <2>0, Zenon
  <1> QED BY <1>1, <1>2

\* A pushed buffer is in order and in place, and nothing in it is newer than
\* the latest snapshot.
LEMMA PushKeeps ==
    ASSUME ViewInv, frame = "pos", latest.tick # 0,
           history # <<>> => history[Len(history)].tick # latest.tick,
           NEW h, NEW d, Pushed(h, d)
    PROVE  /\ InOrder(h) /\ InPlace(h)
           /\ \A i \in 1..Len(h) : /\ h[i].run <= latest.run /\ h[i].posRun <= run
                                   /\ h[i].run = latest.run => h[i].tick <= latest.tick
  <1> DEFINE n == Len(history)
  <1>1. history \in Seq(Entries) /\ n \in Nat /\ h \in Seq(Entries) /\ d \in 0..n
    BY DEF ViewInv, ViewType, Pushed
  <1>2. /\ Len(h) = n + 1 - d
        /\ \A k \in 1..Len(h) : \/ k + d \in 1..n /\ h[k] = history[k + d]
                                \/ k + d = n + 1 /\ k = Len(h) /\ h[k] = Newest
    BY <1>1 DEF Pushed
  <1>3. /\ Newest.tick = latest.tick /\ Newest.run = latest.run
        /\ Newest.pos = ep.pos /\ Newest.posRun = ep.run
    BY DEF Newest
  <1>4. latest.tick \in Nat /\ latest.run \in Nat /\ ep.pos \in Int /\ ep.run \in Nat /\ run \in Nat
        /\ ep.run <= run
    BY DEF ViewInv, ViewType
  <1>5. \A k \in 1..n : /\ history[k].tick \in Nat /\ history[k].run \in Nat
                        /\ history[k].pos \in Int /\ history[k].posRun \in Nat
    BY <1>1, EntryIs
  <1>6. \A k \in 1..n : /\ history[k].run <= latest.run /\ history[k].posRun <= run
                        /\ history[k].run = latest.run => history[k].tick <= latest.tick
    BY DEF ViewInv, NotAhead
  <1>7. \A k \in 1..n : n \in 1..n /\ history # <<>>
    BY <1>1
  <1>8. \A k \in 1..n : history[k].run = latest.run => history[k].tick < latest.tick
    <2> SUFFICES ASSUME NEW k \in 1..n, history[k].run = latest.run
                 PROVE  history[k].tick < latest.tick
      OBVIOUS
    <2>1. history[n].tick # latest.tick /\ n \in 1..n BY <1>7
    <2>2. CASE k = n BY <2>1, <2>2, <1>4, <1>5, <1>6
    <2>3. CASE k < n
      <3>1. history[k].run <= history[n].run /\ history[n].run <= latest.run
        BY <2>1, <2>3, <1>6 DEF ViewInv, InOrder
      <3>2. history[n].run = latest.run BY <3>1, <2>1, <1>4, <1>5
      <3>3. history[k].tick < history[n].tick BY <3>2, <2>1, <2>3 DEF ViewInv, InOrder
      <3>4. history[n].tick <= latest.tick BY <3>2, <2>1, <1>6
      <3> QED BY <3>3, <3>4, <2>1, <1>4, <1>5
    <2> QED BY <2>2, <2>3, <1>1
  <1>9. InOrder(h)
    <2> SUFFICES ASSUME NEW i \in 1..Len(h), NEW j \in 1..Len(h), i < j
                 PROVE  /\ h[i].run <= h[j].run
                        /\ h[i].run = h[j].run => h[i].tick < h[j].tick
      BY DEF InOrder
    <2>1. i + d \in 1..n /\ h[i] = history[i + d] BY <1>1, <1>2
    <2>2. CASE j + d \in 1..n /\ h[j] = history[j + d]
      BY <2>1, <2>2, <1>1 DEF ViewInv, InOrder
    <2>3. CASE h[j] = Newest
      BY <2>1, <2>3, <1>3, <1>6, <1>8
    <2> QED BY <2>2, <2>3, <1>2
  <1>10. InPlace(h)
    <2> SUFFICES ASSUME NEW i \in 1..Len(h)
                 PROVE  /\ h[i].posRun = h[i].run => h[i].pos <= h[i].tick
                        /\ i > 1 => h[i].pos # Origin
                        /\ i > 1 /\ h[i].posRun = h[i].run /\ h[i - 1].run = h[i].run
                               => h[i - 1].tick <= h[i].pos
      BY DEF InPlace
    <2>1. CASE i + d \in 1..n /\ h[i] = history[i + d]
      <3>1. CASE i > 1
        <4>1. i - 1 \in 1..Len(h) /\ (i - 1) + d \in 1..n /\ (i - 1) + d = (i + d) - 1
              /\ i + d > 1
          BY <3>1, <2>1, <1>1
        <4>2. h[i - 1] = history[(i + d) - 1] BY <4>1, <1>1, <1>2
        <4> QED BY <4>1, <4>2, <2>1 DEF ViewInv, InPlace
      <3>2. CASE ~(i > 1) BY <3>2, <2>1 DEF ViewInv, InPlace
      <3> QED BY <3>1, <3>2
    <2>2. CASE i + d = n + 1 /\ i = Len(h) /\ h[i] = Newest
      <3>1. EarthAt(latest.tick) = latest.tick BY DEF EarthAt
      <3>2. h[i].posRun = h[i].run => h[i].pos <= h[i].tick
        BY <2>2, <3>1, <1>3 DEF ViewInv, ReadInv
      <3>3. CASE i > 1
        <4>1. i - 1 \in 1..Len(h) /\ (i - 1) + d = n /\ n \in 1..n BY <3>3, <2>2, <1>1
        <4>2. h[i - 1] = history[n] /\ history # <<>> BY SMTT(30), <4>1, <1>1, <1>2, <1>7
        <4> QED BY <4>2, <3>2, <2>2, <1>3 DEF ViewInv, ReadInv
      <3> QED BY <3>2, <3>3
    <2> QED BY <2>1, <2>2, <1>2
  <1>11. \A i \in 1..Len(h) : /\ h[i].run <= latest.run /\ h[i].posRun <= run
                              /\ h[i].run = latest.run => h[i].tick <= latest.tick
    <2> SUFFICES ASSUME NEW i \in 1..Len(h)
                 PROVE  /\ h[i].run <= latest.run /\ h[i].posRun <= run
                        /\ h[i].run = latest.run => h[i].tick <= latest.tick
      OBVIOUS
    <2>1. CASE i + d \in 1..n /\ h[i] = history[i + d] BY <2>1, <1>6
    <2>2. CASE h[i] = Newest
      <3>1. h[i].run = latest.run /\ h[i].tick = latest.tick /\ h[i].posRun = ep.run
        BY <2>2, <1>3
      <3> QED BY <3>1, <1>4
    <2> QED BY <2>1, <2>2, <1>2
  <1> QED BY <1>9, <1>10, <1>11

\* interpolateEarth with a buffer that is not empty.
LEMMA InterpolateIs ==
    ASSUME NEW h \in Seq(Entries), h # <<>>, NEW clock \in Int
    PROVE  Interpolate(h, clock) = Between(h, clock)
  <1>1. FirstOf(h, clock) \in 1..Len(h) BY FirstType
  <1>2. Len(h) = 1 => SecondOf(h, FirstOf(h, clock)) = 0
    <2> SUFFICES ASSUME Len(h) = 1 PROVE SecondOf(h, FirstOf(h, clock)) = 0 OBVIOUS
    <2>1. FirstOf(h, clock) = 1 BY BetweenOne
    <2> QED BY <2>1 DEF SecondOf
  <1> QED BY <1>2 DEF Interpolate, Between

\* advanceRenderTick leaves the clock between its bounds and, when they allow
\* it, not before where it was.
LEMMA ClampIs ==
    ASSUME NEW h \in Seq(Entries), NEW n \in Int
    PROVE  /\ ClampRender(h, n) \in Int
           /\ Len(h) >= 2 => /\ Clamped(h, ClampRender(h, n))
                             /\ \A x \in Int : x <= n /\ x <= Sub * (h[Len(h)].tick - 1)
                                                  => x <= ClampRender(h, n)
  <1>1. Sub \in Int /\ MaxTick \in Int /\ Len(h) \in Nat BY ViewAssumption
  <1>2. CASE Len(h) < 2
    <2>1. PICK y \in Int : y = Sub * MaxTick BY <1>1
    <2>2. ClampRender(h, n) = AtMost(n, y) BY <2>1, <1>2 DEF ClampRender
    <2>3. ClampRender(h, n) \in Int BY <2>2, <2>1 DEF AtMost
    <2> QED BY <2>3, <1>2, <1>1
  <1>3. CASE Len(h) >= 2
    <2>1. 1 \in 1..Len(h) /\ Len(h) \in 1..Len(h) BY <1>3, <1>1
    <2>2. h[1].tick \in Nat /\ h[Len(h)].tick \in Nat BY <2>1, EntryIs
    <2>3. PICK lo \in Int : lo = Sub * h[1].tick BY <2>2, <1>1
    <2>4. PICK hi \in Int : hi = Sub * (h[Len(h)].tick - 1) BY <2>2, <1>1
    <2>5. ClampRender(h, n) = AtMost(AtLeast(n, lo), hi)
      BY <2>3, <2>4, <1>3, <1>1 DEF ClampRender
    <2>6. PICK c : c = ClampRender(h, n) OBVIOUS
    <2>7. /\ c \in Int /\ c <= hi /\ (lo <= c \/ c = hi)
          /\ \A x \in Int : x <= n /\ x <= hi => x <= c
      BY <2>5, <2>6 DEF AtMost, AtLeast
    <2>8. Clamped(h, c) BY <2>3, <2>4, <2>7 DEF Clamped
    <2> QED BY <2>4, <2>6, <2>7, <2>8
  <1> QED BY <1>1, <1>2, <1>3

\* What a frame draws from.
LEMMA DrawFacts ==
    ASSUME ViewInv, DrawEarth
    PROVE  /\ history' \in Seq(Entries) /\ InOrder(history') /\ InPlace(history')
           /\ \A i \in 1..Len(history') :
                 /\ history'[i].run <= latest.run /\ history'[i].posRun <= run
                 /\ history'[i].run = latest.run => history'[i].tick <= latest.tick
           /\ history' # <<>> => latest.tick > 0
           /\ history' = history \/ (latest.tick # 0 /\ \E d : Pushed(history', d))
           /\ renderTick' \in Int /\ (Len(history') >= 2 => Clamped(history', renderTick'))
           /\ history # <<>> => \E adv \in Nat : renderTick' = ClampRender(history', renderTick + adv)
           /\ history' # <<>> => started' /\ drawn' = Between(history', renderTick')
           /\ history' = <<>> => history = <<>> /\ drawn' = [num |-> Sub * ep.pos, den |-> 1]
  <1> HistMax \in Nat /\ HistMax >= 2 BY ViewAssumption
  <1>1. /\ ViewType /\ history \in Seq(Entries) /\ frame = "pos" /\ history' = PushEarth
        /\ started' = (started \/ history' # <<>>) /\ drawn' = Interpolate(history', renderTick')
    BY DEF ViewInv, ViewType, DrawEarth
  <1> DEFINE Fine(h) ==
            /\ h \in Seq(Entries) /\ InOrder(h) /\ InPlace(h)
            /\ \A i \in 1..Len(h) : /\ h[i].run <= latest.run /\ h[i].posRun <= run
                                    /\ h[i].run = latest.run => h[i].tick <= latest.tick
            /\ h # <<>> => latest.tick > 0
            /\ h = history \/ (latest.tick # 0 /\ \E d : Pushed(h, d))
            /\ h = <<>> => history = <<>>
  <1>2. ASSUME history' = history PROVE Fine(history)
    <2>1. history # <<>> => latest.tick > 0 BY DEF ViewInv, NotAhead
    <2>2. \A i \in 1..Len(history) :
                 /\ history[i].run <= latest.run /\ history[i].posRun <= run
                 /\ history[i].run = latest.run => history[i].tick <= latest.tick
      BY DEF ViewInv, NotAhead
    <2>3. InOrder(history) /\ InPlace(history) BY DEF ViewInv
    <2> QED BY <1>1, <1>2, <2>1, <2>2, <2>3
  <1>3. ASSUME NEW h, h = history', h # history PROVE Fine(h)
    <2>1. /\ latest.tick # 0 /\ \E d : Pushed(h, d)
          /\ history # <<>> => history[Len(history)].tick # latest.tick
      BY <1>1, <1>3, PushIs
    <2>2. PICK d : Pushed(h, d) BY <2>1
    <2>3. /\ InOrder(h) /\ InPlace(h)
          /\ \A i \in 1..Len(h) : /\ h[i].run <= latest.run /\ h[i].posRun <= run
                                  /\ h[i].run = latest.run => h[i].tick <= latest.tick
      BY <1>1, <2>1, <2>2, PushKeeps
    <2>4. h \in Seq(Entries) /\ Len(h) \in Nat /\ Len(h) # 0
      BY <1>1, <2>2 DEF Pushed
    <2>5. h # <<>> BY <2>4
    <2>6. latest.tick > 0 BY <1>1, <2>1 DEF ViewType
    <2> QED BY <2>1, <2>3, <2>4, <2>5, <2>6
  <1>4. PICK h : h = history' OBVIOUS
  <1>5. Fine(h) BY <1>2, <1>3, <1>4
  <1>6. h # <<>> => started' BY <1>1, <1>4
  <1>7. history # <<>> => started BY DEF ViewInv, ClockInv
  <1>8. PICK adv \in Steps : renderTick' = IF started' THEN ClampRender(h, InitialTick(h) + adv)
                                            ELSE renderTick
    BY <1>4 DEF DrawEarth
  <1>9. adv \in Nat BY ViewAssumption
  <1>10. InitialTick(h) \in Int
    <2>1. CASE started \/ h = <<>> BY <2>1, <1>1 DEF InitialTick, ViewType
    <2>2. CASE ~(started \/ h = <<>>)
      <3>1. Len(h) \in 1..Len(h) BY <1>5, <2>2
      <3>2. h[Len(h)].tick \in Nat BY <1>5, <3>1, EntryIs
      <3>3. PICK x \in Int : x = h[Len(h)].tick - Back BY <3>2, ViewAssumption
      <3>4. Sub * x \in Int BY ViewAssumption
      <3> QED BY <2>2, <3>3, <3>4 DEF InitialTick
    <2> QED BY <2>1, <2>2
  <1>11. PICK n \in Int : n = InitialTick(h) + adv BY <1>9, <1>10
  <1>12. /\ ClampRender(h, n) \in Int
         /\ Len(h) >= 2 => Clamped(h, ClampRender(h, n))
    BY <1>5, ClampIs
  <1>13. renderTick' \in Int BY <1>1, <1>8, <1>11, <1>12 DEF ViewType
  <1>14. Len(h) >= 2 => Clamped(h, renderTick')
    <2> SUFFICES ASSUME Len(h) >= 2 PROVE Clamped(h, renderTick') OBVIOUS
    <2>1. Len(<<>>) = 0 OBVIOUS
    <2>2. h # <<>> BY <2>1
    <2> QED BY <2>2, <1>6, <1>8, <1>11, <1>12
  <1>15. history # <<>> => \E more \in Nat : renderTick' = ClampRender(h, renderTick + more)
    <2> SUFFICES ASSUME history # <<>>
                 PROVE  renderTick' = ClampRender(h, renderTick + adv)
      BY <1>9
    <2>1. h # <<>> /\ started /\ started' BY <1>5, <1>6, <1>7
    <2>2. InitialTick(h) = renderTick BY <2>1 DEF InitialTick
    <2> QED BY <2>1, <2>2, <1>8
  <1>16. h # <<>> => drawn' = Between(h, renderTick')
    BY <1>1, <1>4, <1>5, <1>13, InterpolateIs
  <1>17. h = <<>> => drawn' = [num |-> Sub * ep.pos, den |-> 1]
    BY <1>1, <1>4 DEF Interpolate
  <1> QED BY <1>4, <1>5, <1>6, <1>13, <1>14, <1>15, <1>16, <1>17

\* A frame of the first server has read a position that is not before any in
\* the buffer.
LEMMA ReadAhead ==
    ASSUME ViewInv, frame = "pos", run = 1
    PROVE  /\ OneServer(history) /\ ep.run = 1 /\ latest.run = 1
           /\ \A k \in 1..Len(history) : history[k].pos <= ep.pos
  <1>1. history \in Seq(Entries) /\ ep.run = 1 /\ latest.run = 1 /\ ep.pos \in Int
    BY DEF ViewInv, ViewType
  <1>2. \A k \in 1..Len(history) : history[k].run = 1 /\ history[k].posRun = 1
    <2> SUFFICES ASSUME NEW k \in 1..Len(history)
                 PROVE  history[k].run = 1 /\ history[k].posRun = 1
      OBVIOUS
    <2>1. history[k].run \in Nat \ {0} /\ history[k].posRun \in Nat \ {0} BY <1>1, EntryIs
    <2>2. history[k].run <= latest.run /\ history[k].posRun <= run BY DEF ViewInv, NotAhead
    <2> QED BY <2>1, <2>2, <1>1
  <1>3. OneServer(history) BY <1>2 DEF OneServer
  <1>4. ASSUME NEW k \in 1..Len(history) PROVE history[k].pos <= ep.pos
    <2> DEFINE n == Len(history)
    <2>1. n \in 1..n /\ history # <<>> BY <1>1
    <2>2. history[k].pos <= history[k].tick BY <1>2 DEF ViewInv, InPlace
    <2>3. history[n].tick <= ep.pos BY <2>1, <1>1, <1>2 DEF ViewInv, ReadInv
    <2>4. /\ history[k].pos \in Int /\ history[k].tick \in Int /\ history[n].tick \in Int
      BY <1>1, <2>1, EntryIs
    <2>5. history[k].tick <= history[n].tick
      <3>1. CASE k = n BY <3>1, <2>4
      <3>2. CASE k < n BY <3>2, <2>1, <2>4, <1>2 DEF ViewInv, InOrder
      <3> QED BY <3>1, <3>2, <2>1
    <2> QED BY <2>2, <2>3, <2>4, <2>5, <1>1
  <1> QED BY <1>1, <1>3, <1>4

\* Then all of the next buffer is of the first server too, and not beyond it.
LEMMA DrawAhead ==
    ASSUME ViewInv, DrawEarth, run = 1
    PROVE  /\ OneServer(history')
           /\ \A k \in 1..Len(history') : history'[k].pos <= ep.pos
  <1>1. frame = "pos" BY DEF DrawEarth
  <1>2. /\ OneServer(history) /\ ep.run = 1 /\ latest.run = 1
        /\ \A k \in 1..Len(history) : history[k].pos <= ep.pos
    BY <1>1, ReadAhead
  <1>3. history' = history \/ \E d : Pushed(history', d) BY DrawFacts
  <1>4. CASE history' = history BY <1>2, <1>4
  <1>5. ASSUME NEW d, Pushed(history', d)
        PROVE  /\ OneServer(history')
               /\ \A k \in 1..Len(history') : history'[k].pos <= ep.pos
    <2>1. history' \in Seq(Entries) /\ ep.pos \in Int /\ latest.run = 1 /\ history \in Seq(Entries)
      BY <1>2, <1>5 DEF Pushed, ViewInv, ViewType
    <2>2. \A k \in 1..Len(history') : \/ k + d \in 1..Len(history) /\ history'[k] = history[k + d]
                                      \/ history'[k] = Newest
      BY <1>5, <2>1 DEF Pushed
    <2>3. Newest.run = 1 /\ Newest.posRun = 1 /\ Newest.pos = ep.pos BY <1>2 DEF Newest
    <2>4. \A k \in 1..Len(history) : history[k].run = 1 /\ history[k].posRun = 1
      <3> SUFFICES ASSUME NEW k \in 1..Len(history)
                   PROVE  history[k].run = 1 /\ history[k].posRun = 1
        OBVIOUS
      <3>1. history[k].run \in Nat \ {0} BY <2>1, EntryIs
      <3>2. history[k].run <= latest.run BY DEF ViewInv, NotAhead
      <3>3. history[k].run = 1 BY <3>1, <3>2, <2>1
      <3> QED BY <3>3, <1>2 DEF OneServer
    <2>5. \A k \in 1..Len(history') : history'[k].run = 1 /\ history'[k].posRun = 1
      BY <2>2, <2>3, <2>4
    <2>6. \A k \in 1..Len(history') : history'[k].pos <= ep.pos
      BY <2>1, <2>2, <2>3, <1>2
    <2> QED BY <2>5, <2>6 DEF OneServer
  <1> QED BY <1>3, <1>4, <1>5

\* On the first server Earth is not drawn beyond the position that was read.
LEMMA DrawNotBeyond ==
    ASSUME ViewInv, DrawEarth, run = 1
    PROVE  drawn'.num <= Sub * ep.pos * drawn'.den
  <1>1. Sub \in Nat /\ ep.pos \in Int BY ViewAssumption DEF ViewInv, ViewType
  <1>2. CASE history' = <<>>
    <2>1. drawn' = [num |-> Sub * ep.pos, den |-> 1] BY <1>2, DrawFacts
    <2>2. Sub * ep.pos * 1 = Sub * ep.pos /\ Sub * ep.pos \in Int BY <1>1
    <2> QED BY <2>1, <2>2
  <1>3. CASE history' # <<>>
    <2>1. PICK h, clock : h = history' /\ clock = renderTick' OBVIOUS
    <2>2. /\ h \in Seq(Entries) /\ InOrder(h) /\ InPlace(h) /\ clock \in Int
          /\ Len(h) >= 2 => Clamped(h, clock)
          /\ drawn' = Between(h, clock)
      BY <1>3, <2>1, DrawFacts
    <2>3. OneServer(h) /\ \A k \in 1..Len(h) : h[k].pos <= ep.pos BY <2>1, DrawAhead
    <2>4. PICK d : d = Between(h, clock) OBVIOUS
    <2>5. d \in [num : Int, den : Nat \ {0}] BY <2>1, <2>2, <2>4, <1>3, BetweenType
    <2>6. FirstOf(h, clock) \in 1..Len(h) BY <2>1, <2>2, <1>3, FirstType
    <2>7. \E j \in FirstOf(h, clock)..Len(h) : d.num <= Sub * h[j].pos * d.den
      BY <2>1, <2>2, <2>3, <2>4, <1>3, BetweenBounds
    <2>8. PICK j \in 1..Len(h) : d.num <= Sub * h[j].pos * d.den BY <2>6, <2>7
    <2>9. h[j].pos \in Int BY <2>2, EntryIs
    <2>10. PICK p \in Int, e \in Nat \ {0}, m \in Int : p = h[j].pos /\ e = d.den /\ m = d.num
      BY <2>5, <2>9
    <2>11. p <= ep.pos /\ m <= Sub * p * e BY <2>3, <2>8, <2>10
    <2>12. p * (Sub * e) <= ep.pos * (Sub * e)
      <3>1. Sub * e \in Int /\ Sub * e >= 0 BY <1>1
      <3> QED BY <2>11, <3>1, <1>1, TimesMonotone
    <2>13. p * (Sub * e) = Sub * p * e /\ ep.pos * (Sub * e) = Sub * ep.pos * e
      <3>1. PICK q \in Int : q = ep.pos BY <1>1
      <3>2. p * (Sub * e) = Sub * p * e /\ q * (Sub * e) = Sub * q * e BY <1>1
      <3> QED BY <3>1, <3>2
    <2>14. m <= Sub * ep.pos * e
      <3>1. Sub * p * e \in Int /\ Sub * ep.pos * e \in Int BY <1>1
      <3> QED BY <3>1, <2>11, <2>12, <2>13
    <2> QED BY <2>14, <2>10, <2>4, <2>2
  <1> QED BY <1>2, <1>3

\* A frame of the first server with a buffer of two entries or more does not
\* move the clock back.
LEMMA ClockForward ==
    ASSUME ViewInv, DrawEarth, run = 1, Len(history) >= 2
    PROVE  renderTick <= renderTick' /\ Len(history') >= 2
  <1> DEFINE n == Len(history)
  <1>1. history \in Seq(Entries) /\ n \in Nat /\ n \in 1..n /\ renderTick \in Int
    BY DEF ViewInv, ViewType
  <1>2. history # <<>> BY <1>1
  <1>3. PICK h, clock : h = history' /\ clock = renderTick' OBVIOUS
  <1>4. /\ h \in Seq(Entries) /\ \E adv \in Nat : clock = ClampRender(h, renderTick + adv)
        /\ h = history \/ \E d : Pushed(h, d)
    BY <1>2, <1>3, DrawFacts
  <1>5. PICK adv \in Nat : clock = ClampRender(h, renderTick + adv) BY <1>4
  <1>6. latest.run = 1 /\ history[n].run = 1 /\ latest.tick \in Nat
    <2>1. frame = "pos" BY DEF DrawEarth
    <2>2. latest.run = 1 BY <2>1, ReadAhead
    <2>3. history[n].run \in Nat \ {0} BY <1>1, EntryIs
    <2>4. history[n].run <= latest.run BY <1>1 DEF ViewInv, NotAhead
    <2> QED BY SMTT(30), <2>2, <2>3, <2>4 DEF ViewInv, ViewType
  <1>7. Len(h) >= 2 /\ history[n].tick <= h[Len(h)].tick
    <2>1. history[n].tick \in Nat BY <1>1, EntryIs
    <2>2. CASE h = history BY <2>1, <2>2
    <2>3. ASSUME NEW d, Pushed(h, d) PROVE Len(h) >= 2 /\ history[n].tick <= h[Len(h)].tick
      <3>1. d \in 0..n /\ Len(h) = n + 1 - d /\ (d > 0 => Len(h) >= 2) /\ Len(h) \in 1..Len(h)
        BY <2>3, <1>1 DEF Pushed
      <3>2. Len(h) >= 2 BY <3>1, <1>1
      <3>3. ~(Len(h) + d <= n) BY <3>1, <1>1
      <3>4. h[Len(h)] = Newest BY <2>3, <3>1, <3>3 DEF Pushed
      <3>5. h[Len(h)].tick = latest.tick BY <3>4 DEF Newest
      <3>6. history[n].tick <= latest.tick BY <1>1, <1>6 DEF ViewInv, NotAhead
      <3> QED BY <3>2, <3>5, <3>6
    <2> QED BY <2>2, <2>3, <1>4
  <1>8. renderTick <= Sub * (h[Len(h)].tick - 1)
    <2>1. Len(h) \in 1..Len(h) BY <1>4, <1>7
    <2>2. PICK a \in Int, b \in Int : a = history[n].tick - 1 /\ b = h[Len(h)].tick - 1
      <3>1. history[n].tick \in Nat /\ h[Len(h)].tick \in Nat BY <1>1, <1>4, <2>1, EntryIs
      <3> QED BY <3>1
    <2>3. a <= b
      <3>1. history[n].tick \in Nat /\ h[Len(h)].tick \in Nat BY <1>1, <1>4, <2>1, EntryIs
      <3> QED BY <3>1, <2>2, <1>7
    <2>4. Sub \in Int /\ Sub >= 0 BY ViewAssumption
    <2>5. a * Sub <= b * Sub BY <2>3, <2>4, TimesMonotone
    <2>6. Sub * a <= Sub * b /\ Sub * a \in Int /\ Sub * b \in Int BY <2>4, <2>5
    <2>7. renderTick <= Sub * a BY <2>2 DEF ViewInv, ClockInv
    <2>8. renderTick <= Sub * b BY <2>6, <2>7, <1>1
    <2> QED BY <2>2, <2>8
  <1>9. renderTick <= renderTick + adv /\ renderTick + adv \in Int BY <1>1
  <1>10. renderTick <= clock BY <1>1, <1>4, <1>5, <1>7, <1>8, <1>9, ClampIs
  <1> QED BY <1>3, <1>7, <1>10

\* On the first server no frame draws Earth behind where the last one drew it.
LEMMA ForwardStep ==
    ASSUME ViewInv, DrawEarth, run = 1
    PROVE  drawn.num * drawn'.den <= drawn'.num * drawn.den
  <1>1. /\ history \in Seq(Entries) /\ renderTick \in Int /\ drawn \in [num : Int, den : Nat \ {0}]
        /\ ep.pos \in Int /\ frame = "pos" /\ Sub \in Nat
    BY ViewAssumption DEF ViewInv, ViewType, DrawEarth
  <1>2. PICK n \in Int, e \in Nat \ {0} : n = drawn.num /\ e = drawn.den BY <1>1
  <1>3. PICK h, clock : h = history' /\ clock = renderTick' OBVIOUS
  <1>4. /\ h \in Seq(Entries) /\ InOrder(h) /\ InPlace(h) /\ clock \in Int
        /\ Len(h) >= 2 => Clamped(h, clock)
        /\ h # <<>> => drawn' = Between(h, clock)
        /\ h = <<>> => history = <<>> /\ drawn' = [num |-> Sub * ep.pos, den |-> 1]
        /\ h = history \/ \E d : Pushed(h, d)
    BY <1>3, DrawFacts
  <1>5. OneServer(h) BY <1>3, DrawAhead
  <1>6. PICK d \in Nat : /\ Len(h) + d \in {Len(history), Len(history) + 1}
                         /\ \A k \in 1..Len(h) :
                               \/ k + d \in 1..Len(history) /\ h[k] = history[k + d]
                               \/ k + d = Len(history) + 1 /\ h[k] = Newest
    <2>1. CASE h = history BY SMTT(30), <2>1, <1>1
    <2>2. ASSUME NEW d, Pushed(h, d)
          PROVE  /\ d \in Nat /\ Len(h) + d \in {Len(history), Len(history) + 1}
                 /\ \A k \in 1..Len(h) :
                       \/ k + d \in 1..Len(history) /\ h[k] = history[k + d]
                       \/ k + d = Len(history) + 1 /\ h[k] = Newest
      BY <2>2, <1>1 DEF Pushed
    <2> QED BY <2>1, <2>2, <1>4
  <1>7. CASE history = <<>>
    <2>1. drawn' = [num |-> Sub * ep.pos, den |-> 1]
      <3>1. CASE h = <<>> BY <3>1, <1>4
      <3>2. CASE h # <<>>
        <4>1. Len(history) = 0 BY <1>7
        <4>2. Len(h) \in Nat \ {0} BY <3>2, <1>4
        <4>3. Len(h) = 1 /\ d = 0
          <5>1. Len(h) + d = 0 \/ Len(h) + d = 1 BY <4>1, <1>6
          <5>2. PICK x \in Nat \ {0} : x = Len(h) BY <4>2
          <5>3. x + d = 0 \/ x + d = 1 BY <5>1, <5>2
          <5>4. x = 1 /\ d = 0 BY <5>3
          <5> QED BY <5>2, <5>4
        <4>4. h[1] = Newest BY <4>1, <4>3, <1>6
        <4>5. Between(h, clock) = [num |-> Sub * h[1].pos, den |-> 1] BY <4>3, <1>4, BetweenOne
        <4> QED BY <3>2, <4>4, <4>5, <1>4 DEF Newest
      <3> QED BY <3>1, <3>2
    <2>2. n <= Sub * ep.pos * e BY <1>1, <1>2 DEF ViewInv, DrawnInv
    <2>3. n * 1 = n OBVIOUS
    <2>4. drawn'.num = Sub * ep.pos /\ drawn'.den = 1 BY <2>1
    <2> QED BY <2>2, <2>3, <2>4, <1>2
  <1>8. CASE history # <<>>
    <2> DEFINE i == FirstOf(history, renderTick)
               k == FirstOf(h, clock)
    <2>1. h # <<>> BY <1>4, <1>8
    <2>2. OneServer(history) /\ \A x \in 1..Len(history) : history[x].pos <= ep.pos
      BY <1>1, ReadAhead
    <2>3. /\ InOrder(history) /\ InPlace(history) /\ drawn = Between(history, renderTick)
          /\ Len(history) >= 2 => Clamped(history, renderTick)
      BY <1>8 DEF ViewInv, DrawnInv, ClockInv, Clamped
    <2>4. i \in 1..Len(history) /\ k \in 1..Len(h) BY <1>1, <1>4, <1>8, <2>1, FirstType
    <2>5. PICK d2 : d2 = Between(h, clock) OBVIOUS
    <2>6. d2 \in [num : Int, den : Nat \ {0}] BY <1>4, <2>1, <2>5, BetweenType
    <2>7. PICK m \in Int, f \in Nat \ {0} : m = d2.num /\ f = d2.den BY <2>6
    <2>8. drawn'.num = m /\ drawn'.den = f BY <2>1, <2>5, <2>7, <1>4
    <2>9. PICK j \in i..Len(history) : j <= i + 1 /\ drawn.num <= Sub * history[j].pos * drawn.den
      BY <1>1, <1>8, <2>2, <2>3, BetweenBounds
    <2>10. Sub * h[k].pos * f <= m
      BY <1>4, <1>5, <2>1, <2>5, <2>7, BetweenBounds
    <2>11. j \in 1..Len(history) BY <2>4
    <2>12. PICK p \in Int, q \in Int : p = history[j].pos /\ q = h[k].pos
      BY <1>1, <1>4, <2>4, <2>11, EntryIs
    <2> HIDE DEF i, k
    <2>13. CASE j <= k + d
      <3>1. p <= q
        <4>1. CASE k + d \in 1..Len(history) /\ h[k] = history[k + d]
          <5>1. CASE j = k + d BY <4>1, <5>1, <2>12
          <5>2. CASE j < k + d
            <6>1. history[j].pos <= history[k + d].pos
              BY <4>1, <5>2, <2>2, <2>3, <2>11, <1>1, PositionsGrow
            <6> QED BY <6>1, <4>1, <2>12
          <5> QED BY <5>1, <5>2, <2>13, <2>4, <2>11
        <4>2. CASE h[k] = Newest
          <5>1. h[k].pos = ep.pos BY <4>2 DEF Newest
          <5> QED BY <5>1, <2>2, <2>11, <2>12
        <4> QED BY <4>1, <4>2, <2>4, <1>6
      <3>2. PICK x \in Int, y \in Int : x = Sub * p /\ y = Sub * q BY <1>1
      <3>3. x <= y
        <4>1. p * Sub <= q * Sub BY <3>1, <1>1, TimesMonotone
        <4> QED BY <4>1, <3>2, <1>1
      <3>4. n <= x * e /\ y * f <= m BY <3>2, <2>9, <2>10, <2>12, <1>2
      <3>5. n * f <= m * e BY <3>3, <3>4, CrossMultiply
      <3> QED BY <3>5, <2>8, <1>2
    <2>14. CASE ~(j <= k + d)
      <3>1. k + d <= i /\ j <= i + 1 /\ k >= 1 BY <2>14, <2>4, <2>9, <2>11
      <3>2. Len(history) >= 2
        <4>1. j >= 2 /\ j <= Len(history) BY <2>14, <2>4, <2>11, <3>1
        <4> QED BY <4>1, <2>4, <1>1
      <3>3. renderTick <= clock /\ Len(h) >= 2 BY <3>2, <1>3, ClockForward
      <3> DEFINE span == history[i + 1].tick - history[i].tick
      <3>4. /\ i \in 1..(Len(history) - 1) /\ span \in Nat \ {0}
            /\ Sub * history[i].tick <= renderTick
            /\ drawn = [num |-> Sub * history[i].pos * span
                                  + (history[i + 1].pos - history[i].pos)
                                      * (renderTick - Sub * history[i].tick),
                        den |-> span]
        BY <3>2, <2>2, <2>3, <1>1, BetweenSegment DEF i
      <3>5. i + 1 \in 1..Len(history) /\ i < i + 1 BY <3>4
      <3>6. k + d = i
        <4>1. SUFFICES ASSUME k + d < i PROVE FALSE BY <3>1, <2>4
        <4>2. PICK z \in 1..Len(h) : z + d = i
          <5>1. i - d \in 1..Len(h) /\ (i - d) + d = i BY <4>1, <2>4, <1>6, <1>4, <3>4
          <5> QED BY <5>1
        <4>3. h[z] = history[i] BY SMTT(30), <4>2, <1>6, <2>4
        <4>4. Sub * h[z].tick <= clock
          <5>1. history[i].tick \in Nat BY <1>1, <2>4, EntryIs
          <5>2. PICK a \in Int : a = Sub * history[i].tick BY <5>1, <1>1
          <5>3. a <= clock BY SMTT(30), <5>2, <3>3, <3>4, <1>1, <1>4
          <5> QED BY <5>2, <5>3, <4>3
        <4>5. z <= k BY <4>4, <1>4, FirstIs DEF k
        <4> QED BY <4>1, <4>2, <4>5, <2>4
      <3>7. /\ k \in 1..(Len(h) - 1)
            /\ Between(h, clock) =
                 [num |-> Sub * h[k].pos * (h[k + 1].tick - h[k].tick)
                            + (h[k + 1].pos - h[k].pos) * (clock - Sub * h[k].tick),
                  den |-> h[k + 1].tick - h[k].tick]
        BY <3>3, <1>4, <1>5, BetweenSegment DEF k
      <3>8. h[k] = history[i] /\ h[k + 1] = history[i + 1]
        <4>1. k \in 1..(Len(h) - 1) BY <3>7
        <4>2. k + 1 \in 1..Len(h) /\ (k + 1) + d = i + 1 BY <4>1, <3>6, <2>4, <1>4
        <4>3. i # Len(history) + 1 /\ i + 1 # Len(history) + 1 BY <3>5, <2>4, <1>1
        <4>4. h[k] = history[k + d] BY <4>3, <3>6, <2>4, <1>6
        <4>5. h[k + 1] = history[(k + 1) + d] BY <4>2, <4>3, <1>6
        <4> QED BY <4>2, <4>4, <4>5, <3>6
      <3>9. PICK s \in Int, a \in Int, b \in Int, t \in Int :
                s = span /\ a = history[i].pos /\ b = history[i + 1].pos /\ t = history[i].tick
        <4>1. history[i].pos \in Int /\ history[i + 1].pos \in Int /\ history[i].tick \in Int
          BY SMTT(30), <1>1, <2>4, <3>5, EntryIs
        <4> QED BY <4>1, <3>4
      <3>10. a <= b BY <3>5, <3>9, <2>2, <2>3, <2>4, <1>1, PositionsGrow
      <3>11. n = Sub * a * s + (b - a) * (renderTick - Sub * t) /\ e = s
        BY <3>4, <3>9, <1>2
      <3>12. m = Sub * a * s + (b - a) * (clock - Sub * t) /\ f = s
        <4>1. h[k + 1].tick - h[k].tick = s /\ h[k].pos = a /\ h[k + 1].pos = b /\ h[k].tick = t
          BY <3>8, <3>9
        <4>2. d2 = [num |-> Sub * a * s + (b - a) * (clock - Sub * t), den |-> s]
          BY <4>1, <3>7, <2>5
        <4> QED BY <4>2, <2>7
      <3>13. n <= m
        <4>0. Sub * t \in Int /\ Sub * a * s \in Int BY <1>1
        <4>1. PICK u \in Int, v \in Int, w \in Int, r \in Int :
                  u = Sub * a * s /\ v = renderTick - Sub * t /\ w = clock - Sub * t /\ r = b - a
          <5>1. renderTick - Sub * t \in Int /\ clock - Sub * t \in Int /\ b - a \in Int
            BY <4>0, <1>1, <1>4
          <5> QED BY <4>0, <5>1
        <4>2. v <= w
          <5>1. Sub * t \in Int BY <1>1
          <5> QED BY <5>1, <4>1, <3>3, <1>1, <1>4
        <4>3. v * r <= w * r
          <5>1. r >= 0 BY <3>10, <4>1
          <5> QED BY <4>1, <4>2, <5>1, TimesMonotone, Zenon
        <4>4. n = u + r * v /\ m = u + r * w BY <4>1, <3>11, <3>12
        <4> QED BY <4>3, <4>4
      <3>14. n * s <= m * s BY <3>13, <3>11, TimesMonotone
      <3> QED BY <3>11, <3>12, <3>14, <2>8, <1>2
    <2> QED BY <2>13, <2>14
  <1> QED BY <1>7, <1>8

\* A frame that draws keeps ViewInv.
LEMMA DrawStep ==
    ASSUME ViewInv, DrawEarth
    PROVE  ViewInv'
  <1>1. /\ UNCHANGED <<run, latest, ep>> /\ frame = "pos" /\ frame' = "begin"
        /\ started' = (started \/ history' # <<>>)
    BY DEF DrawEarth
  <1>2. /\ history' \in Seq(Entries) /\ InOrder(history') /\ InPlace(history')
        /\ \A i \in 1..Len(history') :
              /\ history'[i].run <= latest.run /\ history'[i].posRun <= run
              /\ history'[i].run = latest.run => history'[i].tick <= latest.tick
        /\ history' # <<>> => latest.tick > 0
        /\ renderTick' \in Int /\ (Len(history') >= 2 => Clamped(history', renderTick'))
        /\ history' # <<>> => started' /\ drawn' = Between(history', renderTick')
        /\ history' = <<>> => drawn' = [num |-> Sub * ep.pos, den |-> 1]
    BY DrawFacts
  <1>3. InOrder(history)' /\ InPlace(history)' BY <1>2 DEF InOrder, InPlace
  <1>4. NotAhead' BY <1>1, <1>2 DEF NotAhead
  <1>5. ReadInv' BY <1>1 DEF ReadInv
  <1>6. ClockInv' BY <1>2 DEF ClockInv, Clamped
  <1>7. drawn' \in [num : Int, den : Nat \ {0}]
    <2>1. CASE history' = <<>>
      <3>1. Sub \in Int /\ ep.pos \in Int BY ViewAssumption DEF ViewInv, ViewType
      <3>2. Sub * ep.pos \in Int BY <3>1
      <3> QED BY <2>1, <3>2, <1>2
    <2>2. CASE history' # <<>>
      <3>1. PICK h, clock : h = history' /\ clock = renderTick' OBVIOUS
      <3>2. Between(h, clock) \in [num : Int, den : Nat \ {0}] BY <2>2, <3>1, <1>2, BetweenType
      <3> QED BY <2>2, <3>1, <3>2, <1>2
    <2> QED BY <2>1, <2>2
  <1>8. started' \in BOOLEAN BY <1>1
  <1>9. ViewType' BY <1>1, <1>2, <1>7, <1>8 DEF ViewInv, ViewType
  <1>10. DrawnInv'
    <2>1. history' # <<>> => drawn' = Between(history, renderTick)'
      BY <1>2, Zenon DEF Between, FirstOf, SecondOf, AtMost, AtLeast
    <2>2. run' = 1 => drawn'.num <= Sub * EarthAt(latest'.tick) * drawn'.den
      <3> SUFFICES ASSUME run = 1 PROVE drawn'.num <= Sub * EarthAt(latest.tick) * drawn'.den
        BY <1>1 DEF EarthAt
      <3>1. drawn'.num <= Sub * ep.pos * drawn'.den BY DrawNotBeyond
      <3>2. ep.run = 1 /\ latest.run = 1 BY <1>1, ReadAhead
      <3>3. ep.pos <= EarthAt(latest.tick) BY <1>1, <3>2 DEF ViewInv, ReadInv
      <3>4. PICK p \in Int, q \in Int : p = ep.pos /\ q = EarthAt(latest.tick)
        BY DEF ViewInv, ViewType, EarthAt, Origin
      <3>5. PICK m \in Int, e \in Nat \ {0} : m = drawn'.num /\ e = drawn'.den BY <1>7
      <3>6. Sub \in Nat BY ViewAssumption
      <3>7. p * (Sub * e) <= q * (Sub * e)
        <4>1. Sub * e \in Int /\ Sub * e >= 0 BY <3>5, <3>6
        <4>2. p <= q BY <3>3, <3>4
        <4> QED BY <4>1, <4>2, TimesMonotone
      <3>8. /\ p * (Sub * e) = Sub * p * e /\ q * (Sub * e) = Sub * q * e
            /\ Sub * p * e \in Int /\ Sub * q * e \in Int
        BY <3>6
      <3>9. m <= Sub * p * e BY <3>1, <3>4, <3>5
      <3>10. m <= Sub * q * e BY <3>7, <3>8, <3>9
      <3> QED BY <3>10, <3>4, <3>5
    <2>3. frame' # "pos" BY <1>1
    <2> QED BY <2>1, <2>2, <2>3, Zenon DEF DrawnInv
  <1> QED BY <1>3, <1>4, <1>5, <1>6, <1>9, <1>10 DEF ViewInv

\* Every action of the view keeps ViewInv.
LEMMA ViewStep ==
    ASSUME ViewInv, EarthNext
    PROVE  ViewInv'
  <1>1. CASE ReceiveEarth
    <2>1. PICK gap \in 1..MaxGap :
              latest' = [tick |-> (IF latest.run = run THEN latest.tick ELSE 0) + gap, run |-> run]
      BY <1>1 DEF ReceiveEarth
    <2>2. UNCHANGED <<run, frame, ep, history, renderTick, started, drawn>>
      BY <1>1 DEF ReceiveEarth
    <2>3. /\ latest.tick \in Nat /\ latest.run \in Nat \ {0} /\ run \in Nat \ {0}
          /\ latest.run <= run /\ gap \in Nat \ {0}
      BY ViewAssumption DEF ViewInv, ViewType
    <2>4. /\ latest'.run = run /\ latest'.tick \in Nat \ {0} /\ latest' \in [tick : Nat, run : Nat \ {0}]
          /\ latest.run = run => latest.tick < latest'.tick
      BY <2>1, <2>3
    <2>5. ViewType' BY <2>2, <2>3, <2>4 DEF ViewInv, ViewType
    <2>6. InOrder(history)' /\ InPlace(history)' BY <2>2 DEF ViewInv, InOrder, InPlace
    <2>7. NotAhead'
      <3>1. ASSUME NEW i \in 1..Len(history)
            PROVE  /\ history[i].run <= run /\ history[i].posRun <= run
                   /\ history[i].run = run => history[i].tick <= latest'.tick
        <4>1. /\ history[i].run \in Nat /\ history[i].tick \in Nat
          BY EntryIs DEF ViewInv, ViewType
        <4>2. /\ history[i].run <= latest.run /\ history[i].posRun <= run
              /\ history[i].run = latest.run => history[i].tick <= latest.tick
          BY DEF ViewInv, NotAhead
        <4> QED BY <4>1, <4>2, <2>3, <2>4
      <3> QED BY <3>1, <2>2, <2>4 DEF NotAhead
    <2>8. /\ EarthAt(latest.tick) \in Int /\ EarthAt(latest'.tick) = latest'.tick
          /\ latest.run = run => EarthAt(latest.tick) <= EarthAt(latest'.tick)
      BY <2>3, <2>4 DEF EarthAt, Origin
    <2>9. ReadInv'
      <3> SUFFICES ASSUME frame = "pos"
                   PROVE  /\ ep.run <= run /\ (ep.run = run => ep.pos <= latest'.tick)
                          /\ history # <<>> => ep.pos # Origin
                          /\ history # <<>> /\ history[Len(history)].run = ep.run
                                => history[Len(history)].tick <= ep.pos
        BY <2>2, <2>4, <2>8 DEF ReadInv, EarthAt
      <3>1. ep.run <= latest.run /\ (ep.run = latest.run => ep.pos <= EarthAt(latest.tick))
        BY DEF ViewInv, ReadInv
      <3>2. ep.pos \in Int /\ ep.run \in Nat BY DEF ViewInv, ViewType
      <3>3. ep.run <= run /\ (ep.run = run => ep.pos <= latest'.tick)
        BY <3>1, <3>2, <2>3, <2>4, <2>8
      <3> QED BY <3>3 DEF ViewInv, ReadInv
    <2>10. ClockInv' BY <2>2 DEF ViewInv, ClockInv
    <2>11. run = 1 => drawn.num <= Sub * EarthAt(latest'.tick) * drawn.den
      <3> SUFFICES ASSUME run = 1 PROVE drawn.num <= Sub * EarthAt(latest'.tick) * drawn.den
        OBVIOUS
      <3>1. latest.run = run BY <2>3
      <3>2. PICK p \in Int, q \in Int : p = EarthAt(latest.tick) /\ q = EarthAt(latest'.tick)
        BY <2>8, <2>4
      <3>3. PICK m \in Int, e \in Nat \ {0} : m = drawn.num /\ e = drawn.den
        BY DEF ViewInv, ViewType
      <3>4. Sub \in Nat BY ViewAssumption
      <3>5. p * (Sub * e) <= q * (Sub * e)
        <4>1. Sub * e \in Int /\ Sub * e >= 0 BY <3>3, <3>4
        <4>2. p <= q BY <3>1, <3>2, <2>8
        <4> QED BY <4>1, <4>2, TimesMonotone
      <3>6. /\ p * (Sub * e) = Sub * p * e /\ q * (Sub * e) = Sub * q * e
            /\ Sub * p * e \in Int /\ Sub * q * e \in Int
        BY <3>4
      <3>7. m <= Sub * p * e BY <3>2, <3>3 DEF ViewInv, DrawnInv
      <3>8. m <= Sub * q * e BY <3>5, <3>6, <3>7
      <3> QED BY <3>8, <3>2, <3>3
    <2>12. DrawnInv'
      <3>1. history # <<>> => drawn = Between(history, renderTick) BY Zenon DEF ViewInv, DrawnInv
      <3>2. run = 1 /\ frame = "pos" => drawn.num <= Sub * ep.pos * drawn.den
        BY Zenon DEF ViewInv, DrawnInv
      <3>3. history' # <<>> => drawn' = Between(history, renderTick)'
        <4>1. history' # <<>> => drawn' = Between(history', renderTick') BY <3>1, <2>2
        <4> QED BY <4>1, Zenon DEF Between, FirstOf, SecondOf, AtMost, AtLeast
      <3> QED BY <3>2, <3>3, <2>2, <2>11 DEF DrawnInv, EarthAt, Origin
    <2> QED BY <2>5, <2>6, <2>7, <2>9, <2>10, <2>12 DEF ViewInv
  <1>2. CASE RestartServer
    <2>1. /\ run' = run + 1 /\ frame = "begin"
          /\ UNCHANGED <<latest, frame, ep, history, renderTick, started, drawn>>
      BY <1>2 DEF RestartServer
    <2>2. run \in Nat \ {0} /\ run' # 1 /\ run <= run' /\ run' \in Nat \ {0} BY <2>1 DEF ViewInv, ViewType
    <2>3. ViewType' BY <2>1, <2>2 DEF ViewInv, ViewType
    <2>4. InOrder(history)' /\ InPlace(history)' BY <2>1 DEF ViewInv, InOrder, InPlace
    <2>5. NotAhead'
      <3>1. ASSUME NEW i \in 1..Len(history) PROVE history[i].posRun <= run'
        <4>1. history[i].posRun \in Nat BY EntryIs DEF ViewInv, ViewType
        <4>2. history[i].posRun <= run BY DEF ViewInv, NotAhead
        <4> QED BY <4>1, <4>2, <2>2
      <3> QED BY <3>1, <2>1 DEF ViewInv, NotAhead
    <2>6. ReadInv' /\ ClockInv' BY <2>1 DEF ViewInv, ReadInv, ClockInv
    <2>7. DrawnInv'
      <3>1. history # <<>> => drawn = Between(history, renderTick) BY Zenon DEF ViewInv, DrawnInv
      <3>2. history' # <<>> => drawn' = Between(history, renderTick)'
        <4>1. history' # <<>> => drawn' = Between(history', renderTick') BY <3>1, <2>1
        <4> QED BY <4>1, Zenon DEF Between, FirstOf, SecondOf, AtMost, AtLeast
      <3> QED BY <3>2, <2>1, <2>2 DEF DrawnInv
    <2> QED BY <2>3, <2>4, <2>5, <2>6, <2>7 DEF ViewInv
  <1>3. CASE TeleportView
    <2>1. history' = <<>> /\ frame = "begin"
          /\ UNCHANGED <<run, latest, frame, ep, renderTick, started, drawn>>
      BY <1>3 DEF TeleportView
    <2>2. Len(<<>>) = 0 /\ <<>> \in Seq(Entries) OBVIOUS
    <2>3. Len(history') = 0 BY <2>1, <2>2, Zenon
    <2>4. ViewType' BY <2>1, <2>2 DEF ViewInv, ViewType
    <2>5. InOrder(history)' /\ InPlace(history)' /\ NotAhead' BY <2>1, <2>3 DEF InOrder, InPlace, NotAhead
    <2>6. ReadInv' /\ ClockInv' BY <2>1, <2>3 DEF ReadInv, ClockInv
    <2>7. DrawnInv' BY <2>1 DEF ViewInv, DrawnInv, EarthAt
    <2> QED BY <2>4, <2>5, <2>6, <2>7 DEF ViewInv
  <1>4. CASE ReadEarth
    <2>1. /\ frame' = "pos" /\ ep' = [pos |-> EarthAt(latest.tick), run |-> latest.run]
          /\ UNCHANGED <<run, latest, history, renderTick, started, drawn>>
      BY <1>4 DEF ReadEarth
    <2>2. /\ latest.tick \in Nat /\ latest.run \in Nat \ {0} /\ latest.run <= run
          /\ history \in Seq(Entries)
      BY DEF ViewInv, ViewType
    <2>3. EarthAt(latest.tick) \in Int /\ ep'.pos = EarthAt(latest.tick) /\ ep'.run = latest.run
      BY <2>1, <2>2 DEF EarthAt, Origin
    <2>4. ViewType' BY <2>1, <2>2, <2>3 DEF ViewInv, ViewType
    <2>5. InOrder(history)' /\ InPlace(history)' /\ NotAhead'
      BY <2>1 DEF ViewInv, InOrder, InPlace, NotAhead
    <2>6. ClockInv' BY <2>1 DEF ViewInv, ClockInv
    <2>7. ReadInv'
      <3>1. history # <<>> => latest.tick > 0 BY DEF ViewInv, NotAhead
      <3>2. history # <<>> => EarthAt(latest.tick) = latest.tick /\ EarthAt(latest.tick) # Origin
        BY <3>1, <2>2 DEF EarthAt, Origin
      <3>3. history # <<>> /\ history[Len(history)].run = latest.run
               => history[Len(history)].tick <= latest.tick
        <4>1. history # <<>> => Len(history) \in 1..Len(history) BY <2>2
        <4> QED BY <4>1 DEF ViewInv, NotAhead
      <3>4. EarthAt(latest'.tick) = EarthAt(latest.tick) BY <2>1
      <3> QED BY <2>1, <2>2, <2>3, <3>2, <3>3, <3>4 DEF ReadInv, EarthAt
    <2>8. DrawnInv'
      <3>1. history # <<>> => drawn = Between(history, renderTick) BY Zenon DEF ViewInv, DrawnInv
      <3>2. history' # <<>> => drawn' = Between(history, renderTick)'
        <4>1. history' # <<>> => drawn' = Between(history', renderTick') BY <3>1, <2>1
        <4> QED BY <4>1 DEF Between, FirstOf, SecondOf, AtMost, AtLeast
      <3>3. run = 1 => drawn.num <= Sub * EarthAt(latest.tick) * drawn.den
        BY Zenon DEF ViewInv, DrawnInv
      <3> QED BY <3>2, <3>3, <2>1, <2>3 DEF DrawnInv, EarthAt
    <2> QED BY <2>4, <2>5, <2>6, <2>7, <2>8 DEF ViewInv
  <1>5. CASE DrawEarth BY <1>5, DrawStep
  <1> QED BY <1>1, <1>2, <1>3, <1>4, <1>5 DEF EarthNext

\* The inductive invariant of the view.
THEOREM ViewInvariant == EarthSpec => []ViewInv
  <1>1. EarthInit => ViewInv
    <2> SUFFICES ASSUME EarthInit PROVE ViewInv OBVIOUS
    <2> USE DEF EarthInit
    <2>1. Len(<<>>) = 0 /\ <<>> \in Seq(Entries) OBVIOUS
    <2>2. Len(history) = 0 BY <2>1
    <2>3. Sub \in Nat BY ViewAssumption
    <2>4. Origin \in Int /\ Sub * Origin \in Int BY <2>3 DEF Origin
    <2>5. ViewType
      <3>1. /\ run \in Nat \ {0} /\ latest \in [tick : Nat, run : Nat \ {0}] /\ latest.run <= run
        OBVIOUS
      <3>2. ep \in [pos : Int, run : Nat \ {0}] /\ ep.run <= run BY <2>4
      <3>3. drawn \in [num : Int, den : Nat \ {0}] BY <2>4
      <3>4. history \in Seq(Entries) BY <2>1
      <3>5. frame \in {"begin", "pos"} /\ renderTick \in Int OBVIOUS
      <3>6. started \in BOOLEAN BY Zenon
      <3> QED BY <3>1, <3>2, <3>3, <3>4, <3>5, <3>6, Zenon DEF ViewType
    <2>6. InOrder(history) /\ InPlace(history) /\ NotAhead /\ ReadInv /\ ClockInv
      BY <2>2 DEF InOrder, InPlace, NotAhead, ReadInv, ClockInv
    <2>7. DrawnInv
      <3>1. EarthAt(0) = Origin BY DEF EarthAt
      <3>2. Sub * Origin * 1 = Sub * Origin /\ Sub * Origin <= Sub * Origin BY <2>4, <2>3
      <3> QED BY <3>1, <3>2 DEF DrawnInv
    <2> QED BY <2>5, <2>6, <2>7 DEF ViewInv
  <1>2. ViewInv /\ UNCHANGED earthVars => ViewInv'
    <2> SUFFICES ASSUME ViewInv, UNCHANGED earthVars PROVE ViewInv' OBVIOUS
    <2> USE DEF earthVars, ViewInv
    <2>1. ViewType' /\ InOrder(history)' /\ InPlace(history)' /\ NotAhead' /\ ClockInv'
      BY DEF ViewType, InOrder, InPlace, NotAhead, ClockInv
    <2>2. ReadInv' BY DEF ReadInv, EarthAt
    <2>3. history' # <<>> => drawn' = Between(history', renderTick')
      <3>1. history # <<>> => drawn = Between(history, renderTick) BY Zenon DEF DrawnInv
      <3> QED BY <3>1, Zenon
    <2>4. history' # <<>> => drawn' = Between(history, renderTick)'
      BY <2>3, Zenon DEF Between, FirstOf, SecondOf, AtMost, AtLeast
    <2>5. DrawnInv' BY <2>4 DEF DrawnInv, EarthAt
    <2> QED BY <2>1, <2>2, <2>5
  <1>3. ViewInv /\ [EarthNext]_earthVars => ViewInv' BY <1>2, ViewStep
  <1> QED BY <1>1, <1>3, PTL DEF EarthSpec

\* EarthForward: on one server the Earth that is drawn never goes back, whatever
\* snapshots are lost and however frames and teleports fall.
THEOREM EarthNeverBack == EarthSpec => EarthForward
  <1>1. ASSUME ViewInv, [EarthNext]_earthVars, run' = 1
        PROVE  drawn.num * drawn'.den <= drawn'.num * drawn.den
    <2>1. PICK m \in Int, e \in Nat \ {0} : m = drawn.num /\ e = drawn.den
      BY <1>1 DEF ViewInv, ViewType
    <2>2. m * e <= m * e BY <2>1
    <2>3. CASE drawn' = drawn BY <2>1, <2>2, <2>3
    <2>4. CASE DrawEarth
      <3>1. run = 1 BY <1>1, <2>4 DEF DrawEarth
      <3> QED BY <1>1, <2>4, <3>1, ForwardStep
    <2>5. DrawEarth \/ drawn' = drawn
      BY <1>1 DEF EarthNext, ReceiveEarth, RestartServer, TeleportView, ReadEarth, earthVars
    <2> QED BY <2>3, <2>4, <2>5
  <1>2. ViewInv /\ [EarthNext]_earthVars
            => [run' = 1 => drawn.num * drawn'.den <= drawn'.num * drawn.den]_earthVars
    BY <1>1
  <1> QED BY <1>2, ViewInvariant, PTL DEF EarthSpec, EarthForward

\* RestartRecovers: once two snapshots of a restarted server are in the buffer,
\* Earth is drawn between two entries in the right order, around the clock.
THEOREM RestartsRecovered == EarthSpec => []RestartRecovers
  <1>1. ASSUME ViewInv PROVE RestartRecovers
    <2> DEFINE n == Len(history)
               new == {i \in 1..n : history[i].run = history[n].run}
               i == FirstOf(history, renderTick)
    <2> SUFFICES ASSUME Cardinality(new) >= 2
                 PROVE  /\ i < n
                        /\ Sub * history[i].tick <= renderTick
                        /\ renderTick < Sub * history[i + 1].tick
      BY DEF RestartRecovers
    <2>1. history \in Seq(Entries) /\ n \in Nat /\ renderTick \in Int
      BY <1>1 DEF ViewInv, ViewType
    <2>2. PICK k \in 1..n : k # n /\ history[k].run = history[n].run
      <3>1. SUFFICES ASSUME \A k \in 1..n : history[k].run = history[n].run => k = n PROVE FALSE
        OBVIOUS
      <3>2. new \subseteq {n} BY <3>1
      <3>3. Cardinality({n}) = 1 /\ IsFiniteSet({n}) BY FS_Singleton
      <3>4. Cardinality(new) <= 1 /\ Cardinality(new) \in Nat
        BY <3>2, <3>3, FS_Subset, FS_CardinalityType
      <3> QED BY <3>4
    <2>3. k < n /\ n >= 2 /\ n - 1 \in 1..n /\ n \in 1..n BY <2>1, <2>2
    <2>4. history[n - 1].run = history[n].run
      <3>1. CASE k = n - 1 BY <3>1, <2>2
      <3>2. CASE k < n - 1
        <4>1. history[k].run <= history[n - 1].run /\ history[n - 1].run <= history[n].run
          BY <1>1, <3>2, <2>3, <2>1 DEF ViewInv, InOrder
        <4>2. /\ history[k].run \in Nat /\ history[n - 1].run \in Nat /\ history[n].run \in Nat
          BY <2>1, <2>3, EntryIs
        <4> QED BY <4>1, <4>2, <2>2
      <3> QED BY <3>1, <3>2, <2>3, <2>1
    <2>5. Clamped(history, renderTick) BY <1>1, <2>3 DEF ViewInv, ClockInv, Clamped
    <2>6. InOrder(history) BY <1>1 DEF ViewInv
    <2>7. /\ i \in 1..(n - 1)
          /\ Sub * history[i].tick <= renderTick /\ renderTick < Sub * history[i + 1].tick
      BY <2>1, <2>3, <2>4, <2>5, <2>6, ClockSegment
    <2>8. i < n BY <2>1, <2>7
    <2> QED BY <2>7, <2>8
  <1> QED BY <1>1, ViewInvariant, PTL

\* EarthInPlace: while the buffer is of one server, Earth is drawn where it was
\* at the clock, or behind by no more than the snapshot that a frame missed.
THEOREM EarthPlaced == EarthSpec => []EarthInPlace
  <1>1. ASSUME ViewInv PROVE EarthInPlace
    <2> SUFFICES ASSUME Len(history) >= 2, Whole(history)
                 PROVE  /\ drawn.num <= renderTick * drawn.den
                        /\ \A k \in 2..Len(history) : Sub * history[k].tick <= renderTick
                              => drawn.num >= Sub * history[k - 1].tick * drawn.den
      BY DEF EarthInPlace
    <2> DEFINE n == Len(history)
               i == FirstOf(history, renderTick)
               span == history[i + 1].tick - history[i].tick
    <2>1. /\ history \in Seq(Entries) /\ n \in Nat /\ renderTick \in Int /\ history # <<>>
          /\ InOrder(history) /\ InPlace(history) /\ n \in 1..n
      BY <1>1 DEF ViewInv, ViewType
    <2>2. OneServer(history) BY <2>1 DEF Whole, OneServer
    <2>3. Clamped(history, renderTick) BY <1>1 DEF ViewInv, ClockInv, Clamped
    <2>4. drawn = Between(history, renderTick) BY <1>1, <2>1 DEF ViewInv, DrawnInv
    <2>5. /\ i \in 1..(n - 1) /\ span \in Nat \ {0}
          /\ Sub * history[i].tick <= renderTick
          /\ 0 <= renderTick - Sub * history[i].tick
          /\ renderTick - Sub * history[i].tick <= Sub * span
          /\ Between(history, renderTick) =
               [num |-> Sub * history[i].pos * span
                          + (history[i + 1].pos - history[i].pos)
                              * (renderTick - Sub * history[i].tick),
                den |-> span]
      BY <2>1, <2>2, <2>3, BetweenSegment
    <2> HIDE DEF i
    <2>6. i \in 1..n /\ i + 1 \in 1..n /\ i < i + 1 /\ (i + 1) - 1 = i
      <3>1. i \in 1..(n - 1) BY <2>5
      <3> QED BY <3>1, <2>1
    <2>7. /\ history[i].pos \in Int /\ history[i + 1].pos \in Int
          /\ history[i].tick \in Int /\ history[i + 1].tick \in Int
      BY <2>1, <2>6, EntryIs
    <2>8. PICK p \in Int, q \in Int, t \in Int, u \in Int :
              /\ p = history[i].pos /\ q = history[i + 1].pos
              /\ t = history[i].tick /\ u = history[i + 1].tick
      BY <2>7
    <2>9. PICK s \in Nat \ {0} : s = span BY <2>5
    <2>10. Sub \in Nat BY ViewAssumption
    <2>11. Sub * t \in Int BY <2>10
    <2>12. PICK o \in Int : o = renderTick - Sub * t BY <2>1, <2>11
    <2>13. drawn.num = Sub * p * s + (q - p) * o /\ drawn.den = s
      BY <2>4, <2>5, <2>8, <2>9, <2>12
    <2>14. PICK r \in Int : r = Sub * s - o BY <2>9, <2>10
    <2>15. drawn.num = p * r + q * o
      <3>1. Sub * p * s + (q - p) * o = p * (Sub * s - o) + q * o BY SMTT(30), <2>9, <2>10, SegmentForm
      <3> QED BY <3>1, <2>13, <2>14
    <2>16. o >= 0 /\ r >= 0 /\ u = t + s
      <3>1. 0 <= o BY <2>5, <2>8, <2>12
      <3>2. o <= Sub * s BY <2>5, <2>8, <2>9, <2>12
      <3>3. Sub * s \in Int BY <2>9, <2>10
      <3>4. u - t = s BY <2>8, <2>9
      <3> QED BY <3>1, <3>2, <3>3, <3>4, <2>14
    <2>17. p <= t /\ t <= q /\ q <= u
      <3>1. history[i].pos <= history[i].tick /\ history[i].tick <= history[i + 1].pos
        BY <2>1, <2>2, <2>6, PositionsGrow
      <3>2. history[i + 1].pos <= history[i + 1].tick BY <2>1, <2>2, <2>6 DEF InPlace, OneServer
      <3> QED BY <3>1, <3>2, <2>8
    <2>18. p * r \in Int /\ q * o \in Int /\ t * r \in Int /\ u * o \in Int OBVIOUS
    <2>19. drawn.num <= renderTick * drawn.den
      <3>1. p * r <= t * r /\ q * o <= u * o BY <2>16, <2>17, TimesMonotone
      <3>2. t * r + u * o = renderTick * s
        <4>1. u * o = t * o + s * o BY <2>16
        <4>2. t * r = t * (Sub * s) - t * o BY SMTT(30), <2>14, <2>9, <2>10
        <4>3. t * (Sub * s) + s * o = (Sub * t + o) * s BY <2>9, <2>10
        <4>4. renderTick = Sub * t + o BY <2>11, <2>12, <2>1
        <4>5. PICK v \in Int, w \in Int, x \in Int : v = t * o /\ w = s * o /\ x = t * (Sub * s)
          BY <2>9, <2>10
        <4>6. t * r + u * o = x + w
          <5>1. t * r = x - v /\ u * o = v + w BY <4>1, <4>2, <4>5
          <5>2. (x - v) + (v + w) = x + w BY <4>5
          <5> QED BY <5>1, <5>2
        <4>7. x + w = renderTick * s BY <4>3, <4>4, <4>5
        <4> QED BY <4>6, <4>7
      <3>3. p * r + q * o <= renderTick * s BY <3>1, <3>2, <2>18
      <3> QED BY <3>3, <2>13, <2>15
    <2>20. ASSUME NEW k \in 2..n, Sub * history[k].tick <= renderTick
           PROVE  drawn.num >= Sub * history[k - 1].tick * drawn.den
      <3>1. k \in 1..n /\ k - 1 \in 1..n /\ k - 1 < k BY <2>1
      <3>2. k <= i BY <2>1, <2>20, <3>1, FirstIs DEF i
      <3>3. history[k - 1].tick \in Int BY <2>1, <3>1, EntryIs
      <3>4. PICK a \in Int : a = history[k - 1].tick BY <3>3
      <3>5. a <= p
        <4>1. k - 1 < i BY <3>1, <3>2, <2>6, <2>1
        <4>2. /\ history[k - 1].tick <= history[i - 1].tick /\ history[i - 1].tick <= history[i].pos
          BY <4>1, <3>1, <2>1, <2>2, <2>6, PositionsGrow
        <4>3. history[i - 1].tick \in Int
          <5>1. i - 1 \in 1..n BY <4>1, <3>1, <2>6, <2>1
          <5> QED BY <5>1, <2>1, EntryIs
        <4> QED BY SMTT(30), <4>2, <4>3, <3>3, <3>4, <2>7, <2>8
      <3>6. a <= q BY <3>5, <2>17
      <3>7. a * r <= p * r /\ a * o <= q * o BY <3>5, <3>6, <2>16, TimesMonotone
      <3>8. a * r + a * o = Sub * a * s
        <4>1. a * r = a * (Sub * s) - a * o BY SMTT(30), <2>14, <2>9, <2>10
        <4>2. a * (Sub * s) = Sub * a * s BY <2>9, <2>10
        <4>3. PICK v \in Int, w \in Int : v = a * o /\ w = a * (Sub * s) BY <2>9, <2>10
        <4> QED BY <4>1, <4>2, <4>3
      <3>9. a * r \in Int /\ a * o \in Int OBVIOUS
      <3>10. Sub * a * s <= p * r + q * o BY <3>7, <3>8, <3>9, <2>18
      <3>11. Sub * history[k - 1].tick * drawn.den = Sub * a * s BY <3>4, <2>13
      <3>12. PICK x \in Int : x = Sub * a * s
        <4>1. Sub * a * s \in Int BY <2>9, <2>10
        <4> QED BY <4>1
      <3>13. PICK y \in Int : y = p * r + q * o BY <2>18
      <3>14. x <= y BY <3>10, <3>12, <3>13
      <3>15. y >= x BY <3>14
      <3> QED BY <3>11, <3>12, <3>13, <3>15, <2>15
    <2> QED BY <2>19, <2>20
  <1> QED BY <1>1, ViewInvariant, PTL

-----------------------------------------------------------------------------
(* WsProxy *)

\* The stages of the two goroutines and of the sockets between them.
ProxyTyped ==
    /\ handler \in {"waiting", "dialling", "looking", "reading", "writing", "returned"}
    /\ relay \in {"off", "reading", "writing", "telling", "ended"}
    /\ ws \in {"none", "open", "lost", "closed"} /\ tcp \in {"none", "open", "lost", "closed"}
    /\ signals \in {0, 1}

\* The relay is started with the connection to the game server, and only its
\* own farewell is ever in done; the sockets are open while the handler needs
\* them and closed when it has returned.
ProxyStages ==
    /\ relay # "ended" => signals = 0
    /\ relay = "ended" /\ handler # "returned" => signals = 1
    /\ relay = "off" <=> tcp = "none"
    /\ handler = "waiting" => ws = "none" /\ tcp = "none"
    /\ handler = "dialling" => ws \in {"open", "lost"} /\ tcp = "none"
    /\ handler \in {"looking", "reading", "writing"} =>
            ws \in {"open", "lost"} /\ tcp \in {"open", "lost"}
    /\ handler = "returned" => ws = "closed" /\ tcp \in {"none", "closed"}

ProxyInv == ProxyTyped /\ ProxyStages

\* A request can always unwind.  The relay's farewell finds room in done, so the
\* relay is never left behind; when the handler has returned both sockets are
\* closed, so that a relay in ReadFrame or WriteMessage runs into an error; and
\* when the relay has ended under a handler, its farewell is waiting there.
ProxyLetsGo ==
    /\ relay = "telling" => RoomForSignal
    /\ handler = "returned" => ws = "closed" /\ tcp \in {"none", "closed"}
    /\ relay = "ended" /\ handler # "returned" => signals = 1

\* Every step of the handler, of the relay and of the peers keeps ProxyInv.
LEMMA ProxyStep ==
    ASSUME ProxyInv, ProxyNext
    PROVE  ProxyInv'
  <1> USE DEF ProxyInv, ProxyTyped, ProxyStages
  <1>1. CASE Upgrade BY <1>1 DEF Upgrade
  <1>2. CASE ProxyDialFail \/ ProxyDialOk BY <1>2 DEF ProxyDialFail, ProxyDialOk
  <1>3. CASE LookForRelay BY <1>3 DEF LookForRelay, HandlerReturn
  <1>4. CASE ReadMessage \/ ReadMessageFail BY <1>4 DEF ReadMessage, ReadMessageFail, HandlerReturn
  <1>5. CASE WriteToServer \/ WriteToServerFail
    BY <1>5 DEF WriteToServer, WriteToServerFail, HandlerReturn
  <1>6. CASE ReadFromServer \/ ReadFromServerFail BY <1>6 DEF ReadFromServer, ReadFromServerFail
  <1>7. CASE WriteToBrowser \/ WriteToBrowserFail BY <1>7 DEF WriteToBrowser, WriteToBrowserFail
  <1>8. CASE TellHandler BY <1>8 DEF TellHandler, RoomForSignal
  <1>9. CASE BrowserLeaves \/ GameServerCloses BY <1>9 DEF BrowserLeaves, GameServerCloses
  <1>10. QED
    BY <1>1, <1>2, <1>3, <1>4, <1>5, <1>6, <1>7, <1>8, <1>9 DEF ProxyNext, HandlerStep, RelayStep

\* A request of the proxy (Handler of proxy.go) never reaches a state in which one of its
\* goroutines waits for the other in vain: the safety half of ProxyUnwinds.
THEOREM ProxyCanUnwind == ProxySpec => []ProxyLetsGo
  <1>1. ProxyInit => ProxyInv BY DEF ProxyInit, ProxyInv, ProxyTyped, ProxyStages
  <1>2. ProxyInv /\ [ProxyNext]_proxyVars => ProxyInv'
    <2> SUFFICES ASSUME ProxyInv, [ProxyNext]_proxyVars PROVE ProxyInv' OBVIOUS
    <2>1. CASE UNCHANGED proxyVars
      BY <2>1 DEF proxyVars, ProxyInv, ProxyTyped, ProxyStages
    <2>2. QED BY <2>1, ProxyStep
  <1>3. ProxyInv => ProxyLetsGo
    BY DEF ProxyInv, ProxyTyped, ProxyStages, ProxyLetsGo, RoomForSignal
  <1>4. QED BY <1>1, <1>2, <1>3, PTL DEF ProxySpec

=============================================================================
