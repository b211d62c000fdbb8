------------------------------ MODULE MCClient ------------------------------
(* The client and the proxy it may come through: the connection            *)
(* (ClientConn), the view of Earth (EarthView), the proxy (WsProxy), the    *)
(* screens and seats (PlayScreen), the body (Body) and the slots (Hotbar).  *)
(* They share no variable, so a step of one is a step of nothing else, and  *)
(* it is enough to let each of them move while the others have not begun.   *)
EXTENDS MCClientConn, EarthView, WsProxy, PlayScreen, Body, Hotbar

ClientInit ==
    /\ Init /\ EarthInit /\ ProxyInit /\ ScreenInit /\ BodyInit /\ HotbarInit

\* Only the part of this number may have left its initial state.
Only(part) ==
    /\ part = 1 \/ Init
    /\ part = 2 \/ EarthInit
    /\ part = 3 \/ ProxyInit
    /\ part = 4 \/ ScreenInit
    /\ part = 5 \/ BodyInit
    /\ part = 6 \/ HotbarInit

ClientNext ==
    \/ Only(1) /\ Next /\ UNCHANGED <<earthVars, proxyVars, screenVars, bodyVars, hotbarVars>>
    \/ Only(2) /\ EarthNext /\ UNCHANGED <<vars, proxyVars, screenVars, bodyVars, hotbarVars>>
    \/ Only(3) /\ ProxyNext /\ UNCHANGED <<vars, earthVars, screenVars, bodyVars, hotbarVars>>
    \/ Only(4) /\ ScreenNext /\ UNCHANGED <<vars, earthVars, proxyVars, bodyVars, hotbarVars>>
    \/ Only(5) /\ BodyNext /\ UNCHANGED <<vars, earthVars, proxyVars, screenVars, hotbarVars>>
    \/ Only(6) /\ HotbarNext /\ UNCHANGED <<vars, earthVars, proxyVars, screenVars, bodyVars>>

ClientSpec ==
    /\ ClientInit
    /\ [][ClientNext]_<<vars, earthVars, proxyVars, screenVars, bodyVars, hotbarVars>>
    /\ Fairness /\ ProxyFairness

-----------------------------------------------------------------------------
(* Bounds *)

\* Seats change while no window is open, or windows while nobody sits.
QuietScreen ==
    \/ wire = <<>> /\ given = Standing /\ seat.mammoth = None /\ seat.boat = None
    \/ /\ open = {}
       /\ (given = Standing /\ wire = <<>>) \/ (captured /\ health = "alive" /\ focused)

\* Teleports are queued in the first session only: nothing but HandleTeleport
\* reads the queue, and it looks at no session.
EarlyTeleports == teleports > 0 => dialled < MaxSessions

\* A body that is between two frames is not followed.
Scene == QuietScreen /\ EarlyTeleports /\ ~spoilt

=============================================================================
