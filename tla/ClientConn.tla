----------------------------- MODULE ClientConn -----------------------------
(***************************************************************************)
(* The connection of the game client: Connect, Disconnect and Close, the   *)
(* readLoop, pingLoop and state loop goroutines of each session, and the   *)
(* screens of the application that start and end sessions.  The interface  *)
(* is one goroutine; c.conn and c.done are read by the loops without the   *)
(* mutex, each time anew.  Sessions are numbered; 0 stands for nil.        *)
(***************************************************************************)
EXTENDS Integers, FiniteSets

CONSTANTS
    MaxSessions,  \* bound: connections that are ever dialled
    Loops,        \* the loops that send: pingLoop and the state loop
    TeleportCap   \* capacity of teleportCh

ASSUME BoundAssumption == MaxSessions \in Nat \ {0} /\ TeleportCap \in Nat \ {0}

Sessions == 1..MaxSessions
Screens == {"menu", "playing", "paused", "dead", "quit"}

VARIABLES
    mode,              \* App.mode; "quit": the frame loop has ended
    ui,                \* where the interface goroutine is
    leaving, torn,     \* Disconnect: the screen it leads to, the done it captured
    flight,            \* App.flight is not nil
    hp, hpReceived,    \* App.player: 0 for no HP left, 1 for some
    dialled,           \* sessions dialled so far
    sock,              \* the client's end of each socket
    status, conn,      \* Client.status, Client.conn
    done, closed,      \* Client.done; the done channels that are closed
    reader,            \* where each readLoop is: [pc, on], on the socket it reads
    loop,              \* where each sending loop is: [pc, ch], ch the done it waits on
    ownHP, ownOf,      \* Client.ownHP and, history, the session it came from
    shown,             \* history: the session of the newest snapshot
    teleports,         \* length of teleportCh
    via,               \* history: the screen the session was started from
    panic              \* what killed the process, if anything

app == <<mode, flight, hp, hpReceived, via>>
link == <<dialled, sock, status, conn, done, closed>>
inbox == <<ownHP, ownOf, shown, teleports>>
vars == <<mode, ui, leaving, torn, flight, hp, hpReceived, dialled, sock, status, conn,
          done, closed, reader, loop, ownHP, ownOf, shown, teleports, via, panic>>

Off == [pc |-> "off", on |-> 0]
Out == [pc |-> "off", ch |-> 0]

Init ==
    /\ mode = "menu" /\ ui = "idle" /\ leaving = "menu" /\ torn = 0
    /\ flight = FALSE /\ hp = 1 /\ hpReceived = FALSE /\ via = "menu"
    /\ dialled = 0 /\ sock = [s \in Sessions |-> "none"]
    /\ status = "disconnected" /\ conn = 0 /\ done = 0 /\ closed = {}
    /\ reader = [s \in Sessions |-> Off]
    /\ loop = [s \in Sessions |-> [l \in Loops |-> Out]]
    /\ ownHP = 0 /\ ownOf = 0 /\ shown = 0 /\ teleports = 0 /\ panic = "no"

Alive == panic = "no"
Idle == Alive /\ ui = "idle" /\ mode # "quit"

-----------------------------------------------------------------------------
(* Connect *)

\* Mutant: only a Connect under way keeps another from beginning.
BeginConnected ==
    IF status # "connecting"
      THEN status' = "connecting" /\ ui' = "dial"
      ELSE UNCHANGED <<status, ui>>

\* Connect begins, unless the client is connected or connecting.
Begin ==
    IF status = "disconnected"
      THEN status' = "connecting" /\ ui' = "dial"
      ELSE UNCHANGED <<status, ui>>

StartConnect ==
    /\ Idle /\ mode = "menu" /\ Begin
    /\ UNCHANGED <<app, leaving, torn, dialled, sock, conn, done, closed, reader, loop,
                   inbox, panic>>

\* Mutant: the flag that HP were received survives.
RespawnKeeps ==
    /\ Idle /\ mode = "dead" /\ hp' = 1 /\ Begin
    /\ UNCHANGED <<mode, hpReceived, flight, via, leaving, torn, dialled, sock, conn, done,
                   closed, reader, loop, inbox, panic>>

Respawn ==
    /\ Idle /\ mode = "dead" /\ hp' = 1 /\ hpReceived' = FALSE /\ Begin
    /\ UNCHANGED <<mode, flight, via, leaving, torn, dialled, sock, conn, done, closed,
                   reader, loop, inbox, panic>>

DialFail ==
    /\ Alive /\ ui = "dial" /\ ui' = "idle" /\ status' = "disconnected"
    /\ UNCHANGED <<app, leaving, torn, dialled, sock, conn, done, closed, reader, loop,
                   inbox, panic>>

DialOk ==
    /\ Alive /\ ui = "dial" /\ dialled < MaxSessions
    /\ ui' = "hello" /\ dialled' = dialled + 1
    /\ sock' = [sock EXCEPT ![dialled + 1] = "open"]
    /\ UNCHANGED <<app, leaving, torn, status, conn, done, closed, reader, loop, inbox, panic>>

\* The Hello is not written, no frame comes within 5 s, or it is no Welcome:
\* the socket is closed, and the status stays what it is.
HelloFail ==
    /\ Alive /\ ui = "hello" /\ ui' = "idle"
    /\ sock' = [sock EXCEPT ![dialled] = "closed"]
    /\ UNCHANGED <<app, leaving, torn, dialled, status, conn, done, closed, reader, loop,
                   inbox, panic>>

Adopt ==
    /\ Alive /\ ui = "hello" /\ ui' = "start"
    /\ conn' = dialled /\ done' = dialled /\ status' = "connected"
    /\ UNCHANGED <<app, leaving, torn, dialled, sock, closed, reader, loop, inbox, panic>>

\* The goroutines start, StartStateLoop's included, and the game is shown.
StartLoops ==
    /\ Alive /\ ui = "start" /\ ui' = "idle"
    /\ reader' = [reader EXCEPT ![dialled] = [pc |-> "top", on |-> 0]]
    /\ loop' = [loop EXCEPT ![dialled] = [l \in Loops |-> [pc |-> "top", ch |-> 0]]]
    /\ via' = mode /\ mode' = "playing" /\ flight' = TRUE /\ hp' = 1
    /\ UNCHANGED <<hpReceived, leaving, torn, link, inbox, panic>>

-----------------------------------------------------------------------------
(* Disconnect and Close *)

\* Mutant: the socket is left to the garbage collector.
HangUpNot == UNCHANGED sock

HangUp == sock' = IF conn = 0 THEN sock ELSE [sock EXCEPT ![conn] = "closed"]

\* From the pause menu, or at the end of the frame loop: what Disconnect does
\* under c.mu.
Disconnect(to) ==
    /\ Idle /\ (to = "quit" \/ mode = "paused")
    /\ leaving' = to /\ torn' = done /\ ui' = "look"
    /\ HangUp /\ status' = "disconnected" /\ conn' = 0
    /\ UNCHANGED <<app, dialled, done, closed, reader, loop, inbox, panic>>

\* select on the captured done: is it closed already?
DisconnectLook ==
    /\ Alive /\ ui = "look"
    /\ ui' = IF torn \in closed \cup {0} THEN "wait" ELSE "shut"
    /\ UNCHANGED <<app, leaving, torn, link, reader, loop, inbox, panic>>

\* close(done) panics when readLoop has closed it since.
DisconnectShut ==
    /\ Alive /\ ui = "shut" /\ ui' = "wait"
    /\ panic' = IF torn \in closed THEN "doubleClose" ELSE panic
    /\ closed' = closed \cup {torn}
    /\ UNCHANGED <<app, leaving, torn, dialled, sock, status, conn, done, reader, loop, inbox>>

Running == {s \in Sessions : reader[s] # Off \/ \E l \in Loops : loop[s][l] # Out}

\* Mutant: Disconnect waits for the sending loops only.
WaitedForLoops == \A s \in Sessions, l \in Loops : loop[s][l] = Out

\* wg.Wait
Waited == Running = {}

DisconnectReturn ==
    /\ Alive /\ ui = "wait" /\ Waited
    /\ ui' = "idle" /\ mode' = leaving /\ flight' = FALSE
    /\ UNCHANGED <<hp, hpReceived, via, leaving, torn, link, reader, loop, inbox, panic>>

-----------------------------------------------------------------------------
(* The frame loop *)

\* handleTeleport uses the flight controller without looking whether there is one.
HandleTeleport ==
    /\ Idle /\ teleports > 0 /\ teleports' = teleports - 1
    /\ panic' = IF flight THEN panic ELSE "nilFlight"
    /\ UNCHANGED <<app, ui, leaving, torn, link, reader, loop, ownHP, ownOf, shown>>

SyncHPFromNetwork ==
    /\ Idle /\ mode = "playing" /\ (ownHP > 0 \/ hpReceived)
    /\ hp' = ownHP /\ hpReceived' = TRUE
    /\ UNCHANGED <<mode, flight, via, ui, leaving, torn, link, reader, loop, inbox, panic>>

\* Close only closes the socket; readLoop finds out.
CheckDeath ==
    /\ Idle /\ mode = "playing" /\ hpReceived /\ hp = 0
    /\ mode' = "dead" /\ HangUp
    /\ UNCHANGED <<flight, hp, hpReceived, via, ui, leaving, torn, dialled, status, conn,
                   done, closed, reader, loop, inbox, panic>>

ReturnToMenu ==
    /\ Idle /\ mode = "dead" /\ mode' = "menu" /\ hp' = 1 /\ hpReceived' = FALSE
    /\ UNCHANGED <<flight, via, ui, leaving, torn, link, reader, loop, inbox, panic>>

Pause ==
    /\ Idle /\ mode = "playing" /\ mode' = "paused"
    /\ UNCHANGED <<flight, hp, hpReceived, via, ui, leaving, torn, link, reader, loop, inbox,
                   panic>>

ExitPause ==
    /\ Idle /\ mode = "paused" /\ mode' = "playing"
    /\ UNCHANGED <<flight, hp, hpReceived, via, ui, leaving, torn, link, reader, loop, inbox,
                   panic>>

-----------------------------------------------------------------------------
(* readLoop of session s *)

\* ReadFrame(c.conn) with the conn of this moment.
ReadFrame(s) ==
    /\ Alive /\ reader[s].pc = "top"
    /\ panic' = IF conn = 0 THEN "nilConn" ELSE panic
    /\ reader' = [reader EXCEPT ![s] = [pc |-> "read", on |-> conn]]
    /\ UNCHANGED <<app, ui, leaving, torn, link, loop, inbox>>

Frame(s) ==
    /\ Alive /\ reader[s].pc = "read" /\ sock[reader[s].on] = "open"
    /\ reader' = [reader EXCEPT ![s].pc = "handle"]
    /\ UNCHANGED <<app, ui, leaving, torn, link, loop, inbox, panic>>

\* handleSnapshot replaces the world; own HP come with the own player.
HandleSnapshot(s, h) ==
    /\ Alive /\ reader[s].pc = "handle"
    /\ reader' = [reader EXCEPT ![s] = [pc |-> "top", on |-> 0]]
    /\ shown' = reader[s].on /\ ownHP' = h /\ ownOf' = reader[s].on
    /\ UNCHANGED <<app, ui, leaving, torn, link, loop, teleports, panic>>

\* handleTeleport of the network side, and messages that matter to no property.
HandleOther(s) ==
    /\ Alive /\ reader[s].pc = "handle"
    /\ reader' = [reader EXCEPT ![s] = [pc |-> "top", on |-> 0]]
    /\ teleports' \in {teleports} \cup ({teleports + 1} \cap 0..TeleportCap)
    /\ UNCHANGED <<app, ui, leaving, torn, link, loop, ownHP, ownOf, shown, panic>>

\* Mutant: the loop ends without a word.
ReadErrorSilent(s) ==
    /\ Alive /\ reader[s].pc = "read" /\ sock[reader[s].on] = "closed"
    /\ reader' = [reader EXCEPT ![s].pc = "look"]
    /\ UNCHANGED <<app, ui, leaving, torn, link, loop, inbox, panic>>

ReadError(s) ==
    /\ Alive /\ reader[s].pc = "read" /\ sock[reader[s].on] = "closed"
    /\ status' = "disconnected"
    /\ reader' = [reader EXCEPT ![s].pc = "look"]
    /\ UNCHANGED <<app, ui, leaving, torn, dialled, sock, conn, done, closed, loop, inbox, panic>>

\* select and close each read c.done anew.
LookDone(s) ==
    /\ Alive /\ reader[s].pc = "look"
    /\ reader' = [reader EXCEPT ![s] = IF done \in closed THEN Off ELSE [@ EXCEPT !.pc = "shut"]]
    /\ UNCHANGED <<app, ui, leaving, torn, link, loop, inbox, panic>>

ShutDone(s) ==
    /\ Alive /\ reader[s].pc = "shut"
    /\ reader' = [reader EXCEPT ![s] = Off]
    /\ panic' = IF done \in closed THEN "doubleClose" ELSE panic
    /\ closed' = closed \cup {done}
    /\ UNCHANGED <<app, ui, leaving, torn, dialled, sock, status, conn, done, loop, inbox>>

ReadLoop(s) ==
    \/ ReadFrame(s) \/ Frame(s) \/ HandleOther(s) \/ \E h \in {0, 1} : HandleSnapshot(s, h)
    \/ ReadError(s) \/ LookDone(s) \/ ShutDone(s)

-----------------------------------------------------------------------------
(* pingLoop and the state loop of session s *)

LoopSelect(s, l) ==
    /\ Alive /\ loop[s][l].pc = "top"
    /\ loop' = [loop EXCEPT ![s][l] = [pc |-> "wait", ch |-> done]]
    /\ UNCHANGED <<app, ui, leaving, torn, link, reader, inbox, panic>>

\* The ticker fires; send goes to the conn of the moment, or fails.  A closed
\* done does not keep select from choosing the ticker.
LoopSend(s, l) ==
    /\ Alive /\ loop[s][l].pc = "wait"
    /\ loop' = [loop EXCEPT ![s][l] = [pc |-> "top", ch |-> 0]]
    /\ UNCHANGED <<app, ui, leaving, torn, link, reader, inbox, panic>>

LoopEnd(s, l) ==
    /\ Alive /\ loop[s][l].pc = "wait" /\ loop[s][l].ch \in closed
    /\ loop' = [loop EXCEPT ![s][l] = Out]
    /\ UNCHANGED <<app, ui, leaving, torn, link, reader, inbox, panic>>

\* The server or the network ends the session (external).
PeerCloses(s) ==
    /\ Alive /\ s = conn /\ sock[s] = "open"
    /\ sock' = [sock EXCEPT ![s] = "closed"]
    /\ UNCHANGED <<app, ui, leaving, torn, dialled, status, conn, done, closed, reader, loop,
                   inbox, panic>>

-----------------------------------------------------------------------------
Next ==
    \/ StartConnect \/ Respawn \/ DialFail \/ DialOk \/ HelloFail \/ Adopt \/ StartLoops
    \/ (\E to \in {"menu", "quit"} : Disconnect(to))
    \/ DisconnectLook \/ DisconnectShut \/ DisconnectReturn
    \/ HandleTeleport \/ SyncHPFromNetwork \/ CheckDeath \/ ReturnToMenu \/ Pause \/ ExitPause
    \/ \E s \in Sessions :
        \/ ReadLoop(s) \/ PeerCloses(s)
        \/ \E l \in Loops : LoopSelect(s, l) \/ LoopSend(s, l) \/ LoopEnd(s, l)

Spec == Init /\ [][Next]_vars

\* Goroutines are scheduled; Connect and Disconnect go on.  A select with a
\* closed done and a ticker that fires chooses at random, so done is chosen in
\* the end.
Fairness ==
    /\ WF_vars(StartLoops) /\ WF_vars(DisconnectLook) /\ WF_vars(DisconnectShut)
    /\ WF_vars(DisconnectReturn)
    /\ \A s \in Sessions :
        /\ WF_vars(ReadFrame(s)) /\ WF_vars(HandleOther(s) \/ \E h \in {0, 1} : HandleSnapshot(s, h))
        /\ WF_vars(ReadError(s)) /\ WF_vars(LookDone(s)) /\ WF_vars(ShutDone(s))
        /\ \A l \in Loops :
            WF_vars(LoopSelect(s, l)) /\ WF_vars(LoopSend(s, l)) /\ SF_vars(LoopEnd(s, l))

FairSpec == Spec /\ Fairness

-----------------------------------------------------------------------------
(* Properties *)

\* The domains of the variables (Client, App and the goroutines of a session).
TypeOK ==
    /\ mode \in Screens /\ leaving \in {"menu", "quit"} /\ torn \in 0..MaxSessions
    /\ ui \in {"idle", "dial", "hello", "start", "look", "shut", "wait"}
    /\ flight \in BOOLEAN /\ hp \in {0, 1} /\ hpReceived \in BOOLEAN /\ via \in Screens
    /\ dialled \in 0..MaxSessions /\ sock \in [Sessions -> {"none", "open", "closed"}]
    /\ status \in {"disconnected", "connecting", "connected"}
    /\ conn \in 0..MaxSessions /\ done \in 0..MaxSessions /\ closed \subseteq Sessions
    /\ reader \in [Sessions -> [pc : {"off", "top", "read", "handle", "look", "shut"},
                                on : 0..MaxSessions]]
    /\ loop \in [Sessions -> [Loops -> [pc : {"off", "top", "wait"}, ch : 0..MaxSessions]]]
    /\ ownHP \in {0, 1} /\ ownOf \in 0..MaxSessions /\ shown \in 0..MaxSessions
    /\ teleports \in 0..TeleportCap
    /\ panic \in {"no", "doubleClose", "nilConn", "nilFlight"}

\* A snapshot of an earlier session never replaces the world of a later one: by
\* the time a session is adopted the readers of all others handle nothing more.
NoStaleSnapshot == [][shown' >= shown]_vars

\* After Disconnect and until the next session nothing of the client runs.
QuietAfterDisconnect ==
    Alive /\ conn = 0 /\ ui \in {"idle", "dial", "hello"} => Running = {}

\* A player who respawns does not die of the HP of the life before.
RespawnIsFresh ==
    [][mode = "playing" /\ mode' = "dead" /\ via = "dead" => ownOf = conn]_vars

\* Disconnect returns: no loop of any session keeps it waiting for ever.
DisconnectReturns == (ui \in {"look", "shut", "wait"}) ~> (ui = "idle" \/ ~Alive)

\* A lost connection is noticed, so that Connect is possible again.
LossNoticed ==
    (status = "connected" /\ conn # 0 /\ sock[conn] = "closed") ~> (status # "connected" \/ ~Alive)

\* A client that is not in Connect can be connected: it is never left in
\* "connecting".
CanReconnect == ui = "idle" => status # "connecting"

=============================================================================
