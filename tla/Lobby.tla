------------------------------- MODULE Lobby -------------------------------
(***************************************************************************)
(* What the game server promises its players, without sockets, queues,     *)
(* goroutines or registries: a player comes, is served and leaves once;    *)
(* hears the greeting before anything else and nothing before he is served *)
(* or after he is gone; pilots rockets only while he is served, and leaves *)
(* none behind; and the server closes on nobody.                           *)
(***************************************************************************)
EXTENDS Naturals, Sequences

CONSTANTS
    Players, Rockets,
    NoPilot,
    Kept          \* how much of what a player hears is remembered

VARIABLES
    phase,        \* "away", "knocking", "served", "leaving", "gone"
    pilot,        \* the player in each rocket, or NoPilot
    heard,        \* the first Kept messages that reached each player
    over          \* the server has closed

lobbyVars == <<phase, pilot, heard, over>>

Init ==
    /\ phase = [p \in Players |-> "away"]
    /\ pilot = [r \in Rockets |-> NoPilot]
    /\ heard = [p \in Players |-> <<>>]
    /\ over = FALSE

\* A player goes from one phase to another.
Goes(p, from, to) ==
    /\ phase[p] = from /\ phase' = [phase EXCEPT ![p] = to]
    /\ UNCHANGED <<heard, over>>

Knock(p) == Goes(p, "away", "knocking") /\ UNCHANGED pilot

Refuse(p) == Goes(p, "knocking", "gone") /\ UNCHANGED pilot

Join(p) == Goes(p, "knocking", "served") /\ UNCHANGED pilot

Leave(p) == Goes(p, "served", "leaving") /\ UNCHANGED pilot

\* Whoever has left a rocket taken is not gone yet.
Depart(p) ==
    /\ \A r \in Rockets : pilot[r] # p
    /\ Goes(p, "leaving", "gone") /\ UNCHANGED pilot

Board(p, r) ==
    /\ phase[p] = "served" /\ pilot[r] = NoPilot
    /\ pilot' = [pilot EXCEPT ![r] = p]
    /\ UNCHANGED <<phase, heard, over>>

Alight(p, r) ==
    /\ phase[p] = "served" /\ pilot[r] = p
    /\ pilot' = [pilot EXCEPT ![r] = NoPilot]
    /\ UNCHANGED <<phase, heard, over>>

\* All the rockets of a player who leaves become free at once.
Release(p) ==
    /\ phase[p] = "leaving"
    /\ pilot' = [r \in Rockets |-> IF pilot[r] = p THEN NoPilot ELSE pilot[r]]
    /\ UNCHANGED <<phase, heard, over>>

\* What comes after n messages.
Message(n) == IF n = 0 THEN "welcome" ELSE IF n = 1 THEN "inventory" ELSE "news"

Hear(p) ==
    /\ phase[p] \in {"served", "leaving"} /\ Len(heard[p]) < Kept
    /\ heard' = [heard EXCEPT ![p] = Append(@, Message(Len(@)))]
    /\ UNCHANGED <<phase, pilot, over>>

\* The last one out.
Close ==
    /\ \A p \in Players : phase[p] \in {"away", "gone"}
    /\ over' = TRUE
    /\ UNCHANGED <<phase, pilot, heard>>

Next ==
    /\ ~over
    /\ \/ \E p \in Players : Knock(p) \/ Refuse(p) \/ Join(p) \/ Leave(p) \/ Depart(p)
       \/ \E p \in Players, r \in Rockets : Board(p, r) \/ Alight(p, r)
       \/ \E p \in Players : Release(p) \/ Hear(p)
       \/ Close

Spec == Init /\ [][Next]_lobbyVars

=============================================================================
