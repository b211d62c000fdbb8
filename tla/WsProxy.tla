------------------------------ MODULE WsProxy ------------------------------
(***************************************************************************)
(* The web socket proxy: one request of a browser.  The handler goroutine  *)
(* carries messages from the browser to the game server; a second one, the *)
(* relay, carries frames back.  Each of them notices only the loss it runs *)
(* into; the channel done is all they tell each other.                     *)
(***************************************************************************)
EXTENDS Naturals

VARIABLES
    handler,   \* where the handler goroutine is
    relay,     \* where the relay goroutine is
    ws, tcp,   \* the proxy's ends of the two sockets; "lost": the peer is gone
    signals    \* length of the channel done

proxyVars == <<handler, relay, ws, tcp, signals>>

ProxyInit ==
    /\ handler = "waiting" /\ relay = "off"
    /\ ws = "none" /\ tcp = "none" /\ signals = 0

-----------------------------------------------------------------------------
(* The handler *)

Upgrade ==
    /\ handler = "waiting" /\ handler' = "dialling" /\ ws' = "open"
    /\ UNCHANGED <<relay, tcp, signals>>

\* The browser gets a close frame, and the deferred Close ends the web socket.
ProxyDialFail ==
    /\ handler = "dialling" /\ handler' = "returned" /\ ws' = "closed"
    /\ UNCHANGED <<relay, tcp, signals>>

ProxyDialOk ==
    /\ handler = "dialling" /\ handler' = "looking" /\ tcp' = "open" /\ relay' = "reading"
    /\ UNCHANGED <<ws, signals>>

\* The handler returns, and the deferred calls close both sockets.
HandlerReturn == handler' = "returned" /\ ws' = "closed" /\ tcp' = "closed"

\* select on done with a default.
LookForRelay ==
    /\ handler = "looking" /\ UNCHANGED relay
    /\ \/ signals > 0 /\ signals' = signals - 1 /\ HandlerReturn
       \/ signals = 0 /\ handler' = "reading" /\ UNCHANGED <<ws, tcp, signals>>

ReadMessage ==
    /\ handler = "reading" /\ ws = "open" /\ handler' = "writing"
    /\ UNCHANGED <<relay, ws, tcp, signals>>

ReadMessageFail ==
    /\ handler = "reading" /\ ws = "lost" /\ HandlerReturn
    /\ UNCHANGED <<relay, signals>>

\* A write to a peer that is gone may still succeed.
WriteToServer ==
    /\ handler = "writing" /\ handler' = "looking"
    /\ UNCHANGED <<relay, ws, tcp, signals>>

\* WriteFrame fails on a lost socket, and on a message over the limit.
WriteToServerFail ==
    /\ handler = "writing" /\ HandlerReturn
    /\ UNCHANGED <<relay, signals>>

-----------------------------------------------------------------------------
(* The relay *)

ReadFromServer ==
    /\ relay = "reading" /\ tcp = "open" /\ relay' = "writing"
    /\ UNCHANGED <<handler, ws, tcp, signals>>

ReadFromServerFail ==
    /\ relay = "reading" /\ tcp \in {"lost", "closed"} /\ relay' = "telling"
    /\ UNCHANGED <<handler, ws, tcp, signals>>

WriteToBrowser ==
    /\ relay = "writing" /\ ws # "closed" /\ relay' = "reading"
    /\ UNCHANGED <<handler, ws, tcp, signals>>

WriteToBrowserFail ==
    /\ relay = "writing" /\ ws # "open" /\ relay' = "telling"
    /\ UNCHANGED <<handler, ws, tcp, signals>>

\* Mutant: a channel without a buffer takes a value only from a sender whose
\* receiver is there.
RoomForSignalNot == handler = "looking"

\* done has room for one value.
RoomForSignal == signals < 1

\* The deferred send on done.
TellHandler ==
    /\ relay = "telling" /\ RoomForSignal
    /\ relay' = "ended" /\ signals' = signals + 1
    /\ UNCHANGED <<handler, ws, tcp>>

-----------------------------------------------------------------------------
\* The page is closed, or the network between breaks (external).
BrowserLeaves ==
    /\ ws = "open" /\ ws' = "lost"
    /\ UNCHANGED <<handler, relay, tcp, signals>>

\* The game server ends the session (external).
GameServerCloses ==
    /\ tcp = "open" /\ tcp' = "lost"
    /\ UNCHANGED <<handler, relay, ws, signals>>

HandlerStep ==
    \/ ProxyDialFail \/ ProxyDialOk \/ LookForRelay \/ ReadMessage \/ ReadMessageFail
    \/ WriteToServer \/ WriteToServerFail

RelayStep ==
    \/ ReadFromServer \/ ReadFromServerFail \/ WriteToBrowser \/ WriteToBrowserFail
    \/ TellHandler

ProxyNext == Upgrade \/ HandlerStep \/ RelayStep \/ BrowserLeaves \/ GameServerCloses

ProxySpec == ProxyInit /\ [][ProxyNext]_proxyVars

\* Goroutines are scheduled, the page pings once a second as long as it is open
\* (server/web/static/client.js), and the game server sends snapshots for ever.
\* Writes to a lost peer fail in the end.
ProxyFairness ==
    /\ WF_proxyVars(HandlerStep) /\ WF_proxyVars(RelayStep)
    /\ SF_proxyVars(WriteToBrowserFail)

-----------------------------------------------------------------------------
(* Properties *)

\* Whichever of the two peers is lost first, and whatever the two goroutines
\* are doing at that moment, the request unwinds: both sockets are closed, the
\* handler has returned, and the relay is not left behind waiting on done.
ProxyUnwinds ==
    (ws = "lost" \/ tcp = "lost" \/ handler = "returned")
        ~> (handler = "returned" /\ relay \in {"off", "ended"}
              /\ ws = "closed" /\ tcp \in {"none", "closed"})

=============================================================================
