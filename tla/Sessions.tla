------------------------------ MODULE Sessions ------------------------------
(***************************************************************************)
(* The life of client connections on the game server: the accept loop, one *)
(* handleConn goroutine and one writeLoop goroutine per connection, the    *)
(* tick loop that broadcasts snapshots, and Stop.  Every step below is a   *)
(* stretch of Go code that other goroutines cannot cut: it touches only    *)
(* data of its own, or it holds the mutex of what it touches.              *)
(***************************************************************************)
EXTENDS Integers, Sequences, FiniteSets

CONSTANTS
    Conns,      \* the connections that peers ever open (each is used once)
    Rockets,    \* the rockets standing in the world
    NoOwner,    \* the empty OwnerID of a rocket
    SendBuf,    \* sendBufSize, the capacity of Client.send
    Kept        \* how many frames of each connection the history keeps

ASSUME ConnsFinite == IsFiniteSet(Conns)
ASSUME NoOwnerFresh == NoOwner \notin Conns
\* registerClient puts two messages in the queue before the writer runs.
ASSUME SendBufAssumption == SendBuf \in Nat /\ SendBuf >= 2
ASSUME KeptAssumption == Kept \in Nat /\ Kept >= 2

VARIABLES
    conn,       \* where the handleConn goroutine of a connection is
    sock,       \* the server's end of the socket; "broken": the peer left
    writer,     \* where the writeLoop goroutine is
    queue,      \* Client.send
    cdone,      \* the connections whose Client.done is closed
    sent,       \* history: the first Kept frames written to the socket
    clients,    \* Server.clients
    gauge,      \* Metrics.PlayersConnected
    owner,      \* Rocket.OwnerID, NoOwner when the rocket is not piloted
    sdone,      \* Server.done is closed
    listening,  \* the listener is open
    acceptor,   \* the accept loop
    ticker,     \* the tick loop
    stop        \* where Stop is

connVars == <<conn, sock, writer, queue, cdone, sent>>
serverVars == <<clients, gauge, owner, sdone, listening, acceptor, ticker, stop>>
vars == <<conn, sock, writer, queue, cdone, sent,
          clients, gauge, owner, sdone, listening, acceptor, ticker, stop>>

\* The stages of handleConn, in the order the goroutine passes them.
Stages == {"none", "handshake", "register", "adding", "counting", "reading",
           "closing", "deleting", "uncounting", "releasing", "hangup", "joining",
           "gone"}

\* The stages in which the connection is in Server.clients.
Listed == {"counting", "reading", "closing", "deleting"}

\* The stages in which PlayersConnected counts the connection.
Counted == {"reading", "closing", "deleting", "uncounting"}

\* The stages in which the connection may pilot a rocket.
Piloting == {"reading", "closing", "deleting", "uncounting", "releasing"}

\* Snapshots, chat and replies are all news: only the greeting is told apart.
Kinds == {"welcome", "inventory", "news"}

Init ==
    /\ conn = [c \in Conns |-> "none"]
    /\ sock = [c \in Conns |-> "none"]
    /\ writer = [c \in Conns |-> "off"]
    /\ queue = [c \in Conns |-> <<>>]
    /\ cdone = {}
    /\ sent = [c \in Conns |-> <<>>]
    /\ clients = {}
    /\ gauge = 0
    /\ owner = [r \in Rockets |-> NoOwner]
    /\ sdone = FALSE
    /\ listening = TRUE
    /\ acceptor = "accepting"
    /\ ticker = "idle"
    /\ stop = "no"

-----------------------------------------------------------------------------
(* Client.enqueue: never blocks; a full queue drops the message. *)

\* Mutant: a full queue drops the oldest message instead.
PushNewest(q, m) == Append(IF Len(q) < SendBuf THEN q ELSE Tail(q), m)

Push(q, m) == IF Len(q) < SendBuf THEN Append(q, m) ELSE q

\* One message to one client.  When Client.done is closed, select may take
\* that branch although there is room.
Enqueue(c, m) ==
    \E skip \in SUBSET ({c} \cap cdone) :
        queue' = IF c \in skip THEN queue ELSE [queue EXCEPT ![c] = Push(@, m)]

\* One message to everybody in the registry, under s.mu.RLock.
Broadcast(m) ==
    \E skip \in SUBSET (clients \cap cdone) :
        queue' = [c \in Conns |->
                    IF c \in clients \ skip THEN Push(queue[c], m) ELSE queue[c]]

-----------------------------------------------------------------------------
(* acceptLoop *)

Accept(c) ==
    /\ acceptor = "accepting" /\ listening
    /\ conn[c] = "none"
    /\ conn' = [conn EXCEPT ![c] = "handshake"]
    /\ sock' = [sock EXCEPT ![c] = "open"]
    /\ UNCHANGED <<writer, queue, cdone, sent, serverVars>>

\* Accept fails on the closed listener and the loop finds s.done closed.
AcceptorExit ==
    /\ acceptor = "accepting" /\ ~listening /\ sdone
    /\ acceptor' = "exited"
    /\ UNCHANGED <<connVars, clients, gauge, owner, sdone, listening, ticker, stop>>

-----------------------------------------------------------------------------
(* handleConn *)

HelloOk(c) ==
    /\ conn[c] = "handshake"
    /\ conn' = [conn EXCEPT ![c] = "register"]
    /\ UNCHANGED <<sock, writer, queue, cdone, sent, serverVars>>

\* No frame within 10 s, a broken frame, not a Hello, or a peer that left.
HelloFail(c) ==
    /\ conn[c] = "handshake"
    /\ conn' = [conn EXCEPT ![c] = "gone"]
    /\ sock' = [sock EXCEPT ![c] = "closed"]
    /\ UNCHANGED <<writer, queue, cdone, sent, serverVars>>

\* registerClient queues Welcome and InventoryUpdate first ...
SendWelcome(c) ==
    /\ conn[c] = "register"
    /\ conn' = [conn EXCEPT ![c] = "adding"]
    /\ queue' = [queue EXCEPT ![c] = Push(Push(@, "welcome"), "inventory")]
    /\ UNCHANGED <<sock, writer, cdone, sent, serverVars>>

\* ... enters the client in the registry under s.mu ...
AddClient(c) ==
    /\ conn[c] = "adding"
    /\ conn' = [conn EXCEPT ![c] = "counting"]
    /\ clients' = clients \cup {c}
    /\ UNCHANGED <<sock, writer, queue, cdone, sent,
                   gauge, owner, sdone, listening, acceptor, ticker, stop>>

\* ... counts it, and handleConn starts the writer.
CountClient(c) ==
    /\ conn[c] = "counting"
    /\ conn' = [conn EXCEPT ![c] = "reading"]
    /\ gauge' = gauge + 1
    /\ writer' = [writer EXCEPT ![c] = "running"]
    /\ UNCHANGED <<sock, queue, cdone, sent,
                   clients, owner, sdone, listening, acceptor, ticker, stop>>

\* readLoop gets a message; handleMessage runs its handler to the end before
\* the next read.  The handlers matter here for what they put in queues and
\* for the rockets they take; the other modules model the rest of them.
CanRead(c) == conn[c] = "reading" /\ sock[c] # "closed"

ReadReply(c) ==
    /\ CanRead(c)
    /\ Enqueue(c, "news")
    /\ UNCHANGED <<conn, sock, writer, cdone, sent, serverVars>>

ReadChat(c) ==
    /\ CanRead(c)
    /\ Broadcast("news")
    /\ UNCHANGED <<conn, sock, writer, cdone, sent, serverVars>>

ReadBoard(c, r) ==
    /\ CanRead(c)
    /\ owner[r] = NoOwner
    /\ owner' = [owner EXCEPT ![r] = c]
    /\ UNCHANGED <<connVars, clients, gauge, sdone, listening, acceptor, ticker, stop>>

ReadExit(c, r) ==
    /\ CanRead(c)
    /\ owner[r] = c
    /\ owner' = [owner EXCEPT ![r] = NoOwner]
    /\ UNCHANGED <<connVars, clients, gauge, sdone, listening, acceptor, ticker, stop>>

\* The read fails: closed socket, peer gone, 60 s of silence or a bad frame.
ReadEnd(c) ==
    /\ conn[c] = "reading"
    /\ conn' = [conn EXCEPT ![c] = "closing"]
    /\ UNCHANGED <<sock, writer, queue, cdone, sent, serverVars>>

\* Mutant: Client.done stays open.
CloseDoneNot(c) ==
    /\ conn[c] = "closing"
    /\ conn' = [conn EXCEPT ![c] = "deleting"]
    /\ UNCHANGED <<sock, writer, queue, cdone, sent, serverVars>>

\* unregisterClient, step by step.
CloseDone(c) ==
    /\ conn[c] = "closing"
    /\ conn' = [conn EXCEPT ![c] = "deleting"]
    /\ cdone' = cdone \cup {c}
    /\ UNCHANGED <<sock, writer, queue, sent, serverVars>>

DeleteClient(c) ==
    /\ conn[c] = "deleting"
    /\ conn' = [conn EXCEPT ![c] = "uncounting"]
    /\ clients' = clients \ {c}
    /\ UNCHANGED <<sock, writer, queue, cdone, sent,
                   gauge, owner, sdone, listening, acceptor, ticker, stop>>

\* Mutant: the gauge is not decremented.
UncountClientNot(c) ==
    /\ conn[c] = "uncounting"
    /\ conn' = [conn EXCEPT ![c] = "releasing"]
    /\ UNCHANGED <<sock, writer, queue, cdone, sent, serverVars>>

UncountClient(c) ==
    /\ conn[c] = "uncounting"
    /\ conn' = [conn EXCEPT ![c] = "releasing"]
    /\ gauge' = gauge - 1
    /\ UNCHANGED <<sock, writer, queue, cdone, sent,
                   clients, owner, sdone, listening, acceptor, ticker, stop>>

\* Mutant: the rockets of the leaving player stay his.
ReleaseRocketsNot(c) ==
    /\ conn[c] = "releasing"
    /\ conn' = [conn EXCEPT ![c] = "hangup"]
    /\ UNCHANGED <<sock, writer, queue, cdone, sent, serverVars>>

ReleaseRockets(c) ==
    /\ conn[c] = "releasing"
    /\ conn' = [conn EXCEPT ![c] = "hangup"]
    /\ owner' = [r \in Rockets |-> IF owner[r] = c THEN NoOwner ELSE owner[r]]
    /\ UNCHANGED <<sock, writer, queue, cdone, sent,
                   clients, gauge, sdone, listening, acceptor, ticker, stop>>

Hangup(c) ==
    /\ conn[c] = "hangup"
    /\ conn' = [conn EXCEPT ![c] = "joining"]
    /\ sock' = [sock EXCEPT ![c] = "closed"]
    /\ UNCHANGED <<writer, queue, cdone, sent, serverVars>>

\* <-writerDone, then the deferred wg.Done.
JoinWriter(c) ==
    /\ conn[c] = "joining" /\ writer[c] = "exited"
    /\ conn' = [conn EXCEPT ![c] = "gone"]
    /\ UNCHANGED <<sock, writer, queue, cdone, sent, serverVars>>

-----------------------------------------------------------------------------
(* writeLoop *)

\* A frame leaves the queue and is written within the write deadline.
WriteOk(c) ==
    /\ writer[c] = "running" /\ queue[c] # <<>> /\ sock[c] # "closed"
    /\ queue' = [queue EXCEPT ![c] = Tail(@)]
    /\ sent' = [sent EXCEPT ![c] = IF Len(@) < Kept THEN Append(@, Head(queue[c])) ELSE @]
    /\ UNCHANGED <<conn, sock, writer, cdone, serverVars>>

\* The write fails (5 s deadline, closed socket, frame over the limit): the
\* loop returns and leaves the socket as it is.
WriteFail(c) ==
    /\ writer[c] = "running" /\ queue[c] # <<>>
    /\ queue' = [queue EXCEPT ![c] = Tail(@)]
    /\ writer' = [writer EXCEPT ![c] = "exited"]
    /\ UNCHANGED <<conn, sock, cdone, sent, serverVars>>

WriterStop(c) ==
    /\ writer[c] = "running" /\ (c \in cdone \/ sdone)
    /\ writer' = [writer EXCEPT ![c] = "exited"]
    /\ UNCHANGED <<conn, sock, queue, cdone, sent, serverVars>>

-----------------------------------------------------------------------------
(* tickLoop *)

TickStart ==
    /\ ticker = "idle" /\ ~sdone
    /\ ticker' = "ticking"
    /\ UNCHANGED <<connVars, clients, gauge, owner, sdone, listening, acceptor, stop>>

\* Mutant: enqueue blocks on a full queue instead of dropping the message.
TickBroadcastBlocking ==
    /\ ticker = "ticking"
    /\ \A c \in clients : Len(queue[c]) < SendBuf \/ c \in cdone
    /\ ticker' = "idle"
    /\ Broadcast("news")
    /\ UNCHANGED <<conn, sock, writer, cdone, sent,
                   clients, gauge, owner, sdone, listening, acceptor, stop>>

TickBroadcast ==
    /\ ticker = "ticking"
    /\ ticker' = "idle"
    /\ Broadcast("news")
    /\ UNCHANGED <<conn, sock, writer, cdone, sent,
                   clients, gauge, owner, sdone, listening, acceptor, stop>>

TickExit ==
    /\ ticker = "idle" /\ sdone
    /\ ticker' = "exited"
    /\ UNCHANGED <<connVars, clients, gauge, owner, sdone, listening, acceptor, stop>>

-----------------------------------------------------------------------------
(* Stop *)

StopSignal ==
    /\ stop = "no"
    /\ stop' = "signalled"
    /\ sdone' = TRUE
    /\ UNCHANGED <<connVars, clients, gauge, owner, listening, acceptor, ticker>>

StopListener ==
    /\ stop = "signalled"
    /\ stop' = "unlistened"
    /\ listening' = FALSE
    /\ UNCHANGED <<connVars, clients, gauge, owner, sdone, acceptor, ticker>>

\* Under s.mu: the connection of every registered client is closed.
StopConns ==
    /\ stop = "unlistened"
    /\ stop' = "waiting"
    /\ sock' = [c \in Conns |-> IF c \in clients THEN "closed" ELSE sock[c]]
    /\ UNCHANGED <<conn, writer, queue, cdone, sent,
                   clients, gauge, owner, sdone, listening, acceptor, ticker>>

\* Mutant: acceptLoop forgets wg.Add for the connection it accepted.
WorkingLoops == acceptor # "exited" \/ ticker # "exited"

\* The goroutines s.wg counts.
Working ==
    \/ acceptor # "exited"
    \/ ticker # "exited"
    \/ \E c \in Conns : conn[c] \notin {"none", "gone"}

StopReturn ==
    /\ stop = "waiting" /\ ~Working
    /\ stop' = "clean"
    /\ UNCHANGED <<connVars, clients, gauge, owner, sdone, listening, acceptor, ticker>>

\* ctx.Done() wins the select.
StopTimeout ==
    /\ stop = "waiting"
    /\ stop' = "timedout"
    /\ UNCHANGED <<connVars, clients, gauge, owner, sdone, listening, acceptor, ticker>>

-----------------------------------------------------------------------------
\* The peer closes its end or its network dies.
PeerLeaves(c) ==
    /\ sock[c] = "open"
    /\ sock' = [sock EXCEPT ![c] = "broken"]
    /\ UNCHANGED <<conn, writer, queue, cdone, sent, serverVars>>

HandleConn(c) ==
    \/ HelloOk(c) \/ HelloFail(c)
    \/ SendWelcome(c) \/ AddClient(c) \/ CountClient(c)
    \/ ReadReply(c) \/ ReadChat(c) \/ ReadEnd(c)
    \/ \E r \in Rockets : ReadBoard(c, r) \/ ReadExit(c, r)
    \/ CloseDone(c) \/ DeleteClient(c) \/ UncountClient(c)
    \/ ReleaseRockets(c) \/ Hangup(c) \/ JoinWriter(c)

WriteLoop(c) == WriteOk(c) \/ WriteFail(c) \/ WriterStop(c)

TickLoop == TickStart \/ TickBroadcast \/ TickExit

Stop == StopSignal \/ StopListener \/ StopConns \/ StopReturn \/ StopTimeout

Next ==
    \/ \E c \in Conns : Accept(c) \/ HandleConn(c) \/ WriteLoop(c) \/ PeerLeaves(c)
    \/ AcceptorExit
    \/ TickLoop
    \/ Stop

Spec == Init /\ [][Next]_vars

\* The steps of handleConn that never wait, and the waits that end by
\* themselves: a hello by its deadline, a read on a dead connection.
Progress(c) ==
    \/ HelloOk(c) \/ HelloFail(c)
    \/ SendWelcome(c) \/ AddClient(c) \/ CountClient(c)
    \/ (sock[c] # "open" /\ ReadEnd(c))
    \/ CloseDone(c) \/ DeleteClient(c) \/ UncountClient(c)
    \/ ReleaseRockets(c) \/ Hangup(c) \/ JoinWriter(c)

\* Goroutines are scheduled.  Nothing is assumed of a writer whose peer does
\* not read, except that it sees its done channels.
Fairness ==
    /\ \A c \in Conns : WF_vars(Progress(c)) /\ WF_vars(WriterStop(c))
    /\ WF_vars(TickLoop)
    /\ WF_vars(AcceptorExit)
    /\ WF_vars(StopListener) /\ WF_vars(StopConns)

FairSpec == Spec /\ Fairness

-----------------------------------------------------------------------------
(* Properties *)

\* The state is well formed; the players gauge never drops below zero
\* (registerClient, unregisterClient).
TypeOK ==
    /\ conn \in [Conns -> Stages]
    /\ sock \in [Conns -> {"none", "open", "broken", "closed"}]
    /\ writer \in [Conns -> {"off", "running", "exited"}]
    /\ queue \in [Conns -> Seq(Kinds)]
    /\ cdone \subseteq Conns
    /\ sent \in [Conns -> Seq(Kinds)]
    /\ clients \subseteq Conns
    /\ gauge \in Nat
    /\ owner \in [Rockets -> Conns \cup {NoOwner}]
    /\ sdone \in BOOLEAN
    /\ listening \in BOOLEAN
    /\ acceptor \in {"accepting", "exited"}
    /\ ticker \in {"idle", "ticking", "exited"}
    /\ stop \in {"no", "signalled", "unlistened", "waiting", "clean", "timedout"}

\* PlayersConnected equals the number of registered clients whenever no
\* connection is between the registry update and the gauge update.
GaugeTracksRegistry ==
    (\A c \in Conns : conn[c] \notin {"counting", "uncounting"})
        => gauge = Cardinality(clients)

\* A rocket with an OwnerID belongs to a connection whose goroutine has still
\* to run the release loop of unregisterClient: no rocket stays taken by a
\* player who left.
NoOrphanRocket ==
    \A r \in Rockets : owner[r] # NoOwner => conn[owner[r]] \in Piloting

\* Whatever is broadcast while a client registers, the first frame on its
\* socket is Welcome and the second its inventory.
WelcomeFirst ==
    \A c \in Conns :
        /\ Len(sent[c]) >= 1 => sent[c][1] = "welcome"
        /\ Len(sent[c]) >= 2 => sent[c][2] = "inventory"

\* When handleConn has returned nothing is left of the connection: the socket
\* is closed, the writer is not running, the registry has no entry.
GoneIsGone ==
    \A c \in Conns : conn[c] = "gone" =>
        /\ sock[c] = "closed"
        /\ writer[c] # "running"
        /\ c \notin clients

\* Stop returns nil only when the server is at rest: no loop, no writer, no
\* open socket, an empty registry, a gauge of zero and no piloted rocket.
CleanStop ==
    stop = "clean" =>
        /\ acceptor = "exited" /\ ticker = "exited"
        /\ \A c \in Conns : writer[c] # "running" /\ sock[c] \in {"none", "closed"}
        /\ clients = {} /\ gauge = 0
        /\ \A r \in Rockets : owner[r] = NoOwner

\* "Stop closes the listener and all client connections": once Stop has made
\* its pass, no registered client has an open socket.
StopClosesAllConns ==
    stop \in {"waiting", "clean", "timedout"} =>
        /\ ~listening
        /\ \A c \in clients : sock[c] # "open"

\* A connection whose peer left, or whose socket Stop closed, is forgotten:
\* unregistered, released and its writer joined, however full its queue is.
DeadConnForgotten ==
    \A c \in Conns : (sock[c] \in {"broken", "closed"}) ~> (conn[c] = "gone")

\* The tick loop never waits for a client: it ticks for ever or until Stop.
TickGoesOn ==
    \/ []<>(ticker = "ticking") /\ []<>(ticker = "idle")
    \/ <>[](ticker = "exited")

-----------------------------------------------------------------------------
(* What the players see of all this *)

\* A client is served as long as it is in the registry.
Phase ==
    [c \in Conns |->
        CASE conn[c] = "none" -> "away"
          [] conn[c] \in {"handshake", "register", "adding"} -> "knocking"
          [] conn[c] \in Listed -> "served"
          [] conn[c] \in {"uncounting", "releasing", "hangup", "joining"} -> "leaving"
          [] conn[c] = "gone" -> "gone"]

Service ==
    INSTANCE Lobby WITH
        Players <- Conns, NoPilot <- NoOwner,
        phase <- Phase, pilot <- owner, heard <- sent, over <- (stop = "clean")

\* The goroutines, queues and registries of the server implement the lobby:
\* every step of handleConn, writeLoop, tickLoop and Stop is one step of it or
\* none that a player could see.
ServesPlayers == Service!Spec

-----------------------------------------------------------------------------
(* The inductive invariant behind the safety properties. *)

\* What the stage of a connection says about its registry entry, its socket
\* and its writer.
StageInv ==
    \A c \in Conns :
        /\ c \in clients <=> conn[c] \in Listed
        /\ conn[c] = "none" <=> sock[c] = "none"
        /\ conn[c] \in {"joining", "gone"} => sock[c] = "closed"
        /\ conn[c] \in {"none", "handshake", "register", "adding", "counting"}
              => writer[c] = "off"
        /\ conn[c] = "gone" => writer[c] # "running"

CountedConns == {c \in Conns : conn[c] \in Counted}

\* The gauge is exact in every state, the windows in which it differs from
\* the registry included.
GaugeInv == gauge = Cardinality(CountedConns)

\* Until the greeting is on the wire it is at the head of the queue.
GreetInv ==
    \A c \in Conns :
        /\ conn[c] \in {"none", "handshake", "register"} => queue[c] = <<>> /\ sent[c] = <<>>
        /\ conn[c] \in (Listed \cup Piloting \cup {"adding", "hangup", "joining"})
           /\ writer[c] # "exited" =>
              /\ sent[c] = <<>> => Len(queue[c]) >= 2 /\ queue[c][1] = "welcome"
                                                     /\ queue[c][2] = "inventory"
              /\ Len(sent[c]) = 1 => Len(queue[c]) >= 1 /\ queue[c][1] = "inventory"

\* After a clean Stop there is no goroutine left that could start another.
StopInv == stop = "clean" => ~Working

IndInv ==
    /\ TypeOK /\ StageInv /\ GaugeInv /\ NoOrphanRocket
    /\ WelcomeFirst /\ GreetInv /\ StopInv

=============================================================================
