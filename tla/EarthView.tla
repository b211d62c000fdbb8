------------------------------ MODULE EarthView ------------------------------
(***************************************************************************)
(* Where the client draws Earth (update.go).  Every frame reads position   *)
(* and tick of the latest snapshot under two locks, keeps a buffer of them *)
(* and draws Earth between two entries, at a clock of its own, renderTick. *)
(* Snapshots come in order, some are lost; after a restart of the server   *)
(* and a reconnect their ticks begin anew, while the buffer stays.         *)
(***************************************************************************)
EXTENDS Integers, Sequences, FiniteSets

CONSTANTS
    HistMax,    \* entries of earthHistory (30 in the code)
    Sub,        \* renderTick counts in parts of a tick, Sub of them
    Steps,      \* what a frame adds to renderTick; the largest: a frame spike
    Back,       \* how far initRenderTick goes back, in ticks
    MaxGap,     \* bound: a snapshot is at most so many ticks after the last one
    MaxTick,    \* bound: ticks of a server
    MaxRuns     \* bound: starts of the server

ASSUME ViewAssumption ==
    /\ HistMax \in Nat \ {0, 1} /\ Sub \in Nat \ {0} /\ Steps \subseteq Nat
    /\ {Back, MaxGap, MaxTick, MaxRuns} \subseteq Nat

VARIABLES
    run,         \* history: the start of the server the client plays on
    latest,      \* Client.lastTick and, history, the start of the server it is from
    frame,       \* "begin", or "pos": EarthPos is read, LastSnapshotTick is not
    ep,          \* the position the frame has read, with its start of the server
    history,     \* App.world.earthHistory
    renderTick,  \* App.camera.renderTick, in parts of a tick
    started,     \* App.camera.renderTickInit
    drawn        \* App.world.earthPos, a fraction, in parts of a tick

earthVars == <<run, latest, frame, ep, history, renderTick, started, drawn>>

\* The zero vector of a client that has received nothing: not on the orbit.
Origin == 0 - 1

\* NewWorldState and Tick: the orbit begins at the same place after every
\* start and takes equal steps, so that a place on it is a number of steps.
EarthAt(tick) == IF tick = 0 THEN Origin ELSE tick

EarthInit ==
    /\ run = 1 /\ latest = [tick |-> 0, run |-> 1]
    /\ frame = "begin" /\ ep = [pos |-> Origin, run |-> 1]
    /\ history = <<>> /\ renderTick = 0 /\ started = FALSE
    /\ drawn = [num |-> Sub * Origin, den |-> 1]

-----------------------------------------------------------------------------
(* What comes from the server *)

\* updateEarthAndPlanets for the next snapshot that gets through.
ReceiveEarth ==
    \E gap \in 1..MaxGap :
        LET before == IF latest.run = run THEN latest.tick ELSE 0
        IN  /\ before + gap <= MaxTick
            /\ latest' = [tick |-> before + gap, run |-> run]
    /\ UNCHANGED <<run, frame, ep, history, renderTick, started, drawn>>

\* The server starts again and the client connects to it between two frames;
\* neither Disconnect nor Connect looks at Earth.
RestartServer ==
    /\ frame = "begin" /\ run < MaxRuns /\ latest.run = run
    /\ run' = run + 1
    /\ UNCHANGED <<latest, frame, ep, history, renderTick, started, drawn>>

\* cheatTeleport and handleTeleport: the buffer goes, renderTick stays.
TeleportView ==
    /\ frame = "begin" /\ history # <<>>
    /\ history' = <<>>
    /\ UNCHANGED <<run, latest, frame, ep, renderTick, started, drawn>>

-----------------------------------------------------------------------------
(* updateEarthHistory *)

\* EarthPos and EarthVel; the tick is read later.
ReadEarth ==
    /\ frame = "begin" /\ frame' = "pos"
    /\ ep' = [pos |-> EarthAt(latest.tick), run |-> latest.run]
    /\ UNCHANGED <<run, latest, history, renderTick, started, drawn>>

\* Mutant: every frame pushes what is there.
PushEarthAgain ==
    IF latest.tick = 0 THEN history
    ELSE LET longer == Append(history, [tick |-> latest.tick, run |-> latest.run,
                                        pos |-> ep.pos, posRun |-> ep.run])
         IN  IF Len(longer) > HistMax
             THEN SubSeq(longer, Len(longer) - HistMax + 1, Len(longer)) ELSE longer

\* pushEarthSnapshot: nothing without a snapshot or for the tick it has last.
PushEarth ==
    IF \/ latest.tick = 0
       \/ history # <<>> /\ history[Len(history)].tick = latest.tick
    THEN history
    ELSE LET longer == Append(history, [tick |-> latest.tick, run |-> latest.run,
                                        pos |-> ep.pos, posRun |-> ep.run])
         IN  IF Len(longer) > HistMax
             THEN SubSeq(longer, Len(longer) - HistMax + 1, Len(longer)) ELSE longer

\* initRenderTick
InitialTick(h) ==
    IF started \/ h = <<>> THEN renderTick ELSE Sub * (h[Len(h)].tick - Back)

AtLeast(n, low) == IF n < low THEN low ELSE n
AtMost(n, high) == IF n > high THEN high ELSE n

\* Mutant: first not beyond the newest entry, then not before the oldest.
ClampSwapped(h, n) ==
    IF Len(h) < 2 THEN AtMost(n, Sub * MaxTick)
    ELSE AtLeast(AtMost(n, Sub * (h[Len(h)].tick - 1)), Sub * h[1].tick)

\* The bounds of advanceRenderTick.  Without two entries there are none; beyond
\* MaxTick all values are the same, since the next clamp cuts them.
ClampRender(h, n) ==
    IF Len(h) < 2 THEN AtMost(n, Sub * MaxTick)
    ELSE AtMost(AtLeast(n, Sub * h[1].tick), Sub * (h[Len(h)].tick - 1))

\* The last entry that is not after renderTick, or the first one.
FirstOf(h, at) ==
    LET past == {i \in 1..Len(h) : Sub * h[i].tick <= at}
    IN  IF past = {} THEN 1 ELSE CHOOSE i \in past : \A j \in past : j <= i

\* Mutant: Earth moves towards the newest entry.
SecondNewest(h, i) == Len(h)

\* The entry after it, 0 for none.
SecondOf(h, i) == IF i < Len(h) THEN i + 1 ELSE 0

\* interpolateEarth.  A span that is negative wraps around to nearly 2^64, and
\* what is divided by it is nothing.
Interpolate(h, at) ==
    LET i == FirstOf(h, at)
        j == SecondOf(h, i)
        span == h[j].tick - h[i].tick
        off == AtMost(AtLeast(at - Sub * h[i].tick, 0), Sub * span)
    IN  IF h = <<>> THEN [num |-> Sub * ep.pos, den |-> 1]
        ELSE IF Len(h) = 1 \/ j = 0 THEN [num |-> Sub * h[i].pos, den |-> 1]
        ELSE IF span <= 0 THEN [num |-> Sub * h[i].pos, den |-> 1]
        ELSE [num |-> Sub * h[i].pos * span + (h[j].pos - h[i].pos) * off, den |-> span]

DrawEarth ==
    /\ frame = "pos" /\ frame' = "begin"
    /\ history' = PushEarth
    /\ started' = (started \/ history' # <<>>)
    /\ \E step \in Steps :
          renderTick' = IF started' THEN ClampRender(history', InitialTick(history') + step)
                        ELSE renderTick
    /\ drawn' = Interpolate(history', renderTick')
    /\ UNCHANGED <<run, latest, ep>>

EarthNext == ReceiveEarth \/ RestartServer \/ TeleportView \/ ReadEarth \/ DrawEarth

EarthSpec == EarthInit /\ [][EarthNext]_earthVars

-----------------------------------------------------------------------------
(* Properties *)

\* On one server the Earth that is drawn never goes back, although snapshots
\* are lost, a snapshot may come between the two reads of a frame, frames are
\* late and teleports empty the buffer.
EarthForward ==
    [][run' = 1 => drawn.num * drawn'.den <= drawn'.num * drawn.den]_earthVars

\* Both entries have tick and position from the same server, and a position.
Whole(h) ==
    \A i \in 1..Len(h) : h[i].pos # Origin /\ h[i].run = h[Len(h)].run /\ h[i].posRun = h[i].run

\* Earth is drawn where it was at renderTick, or behind by no more than the
\* snapshot a frame missed between its two reads: at the earliest where the
\* snapshot before the two entries has it.
EarthInPlace ==
    Len(history) >= 2 /\ Whole(history) =>
        /\ drawn.num <= renderTick * drawn.den
        /\ \A i \in 2..Len(history) : Sub * history[i].tick <= renderTick
              => drawn.num >= Sub * history[i - 1].tick * drawn.den

\* Once two snapshots of a restarted server are in the buffer, Earth is drawn
\* between two entries in the right order, around renderTick, although entries
\* with higher ticks are still in the buffer: the span does not wrap.
RestartRecovers ==
    LET new == {i \in 1..Len(history) : history[i].run = history[Len(history)].run}
        i == FirstOf(history, renderTick)
    IN  Cardinality(new) >= 2 =>
            /\ i < Len(history)
            /\ Sub * history[i].tick <= renderTick /\ renderTick < Sub * history[i + 1].tick

=============================================================================
