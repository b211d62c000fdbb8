--------------------------- MODULE SessionsProofs ---------------------------
(* Proofs about Sessions, for any set of connections and rockets, any queue *)
(* capacity that holds the greeting, and any history bound.                 *)
EXTENDS Sessions, TLAPS, FiniteSetTheorems, SequenceTheorems

\* Appending to a queue that may be full keeps what is already in it.
LEMMA PushFacts ==
    ASSUME NEW q \in Seq(Kinds), NEW m \in Kinds
    PROVE  /\ Push(q, m) \in Seq(Kinds)
           /\ Len(Push(q, m)) >= Len(q)
           /\ \A i \in 1..Len(q) : Push(q, m)[i] = q[i]
  BY SendBufAssumption DEF Push

\* A broadcast appends to some queues and leaves the others alone.
LEMMA BroadcastFacts ==
    ASSUME TypeOK, NEW m \in Kinds, Broadcast(m)
    PROVE  /\ queue' \in [Conns -> Seq(Kinds)]
           /\ \A c \in Conns : /\ c \notin clients => queue'[c] = queue[c]
                               /\ Len(queue'[c]) >= Len(queue[c])
                               /\ \A i \in 1..Len(queue[c]) : queue'[c][i] = queue[c][i]
  <1>1. PICK skip \in SUBSET (clients \cap cdone) :
            queue' = [c \in Conns |->
                        IF c \in clients \ skip THEN Push(queue[c], m) ELSE queue[c]]
    BY DEF Broadcast
  <1>2. ASSUME NEW c \in Conns
        PROVE  /\ queue'[c] \in Seq(Kinds)
               /\ c \notin clients => queue'[c] = queue[c]
               /\ Len(queue'[c]) >= Len(queue[c])
               /\ \A i \in 1..Len(queue[c]) : queue'[c][i] = queue[c][i]
    <2>1. queue[c] \in Seq(Kinds) BY DEF TypeOK
    <2>2. CASE queue'[c] = queue[c] BY <2>1, <2>2
    <2>3. CASE queue'[c] = Push(queue[c], m) /\ c \in clients
      BY ZenonT(40), <2>1, <2>3, PushFacts
    <2>4. QED BY <1>1, <2>2, <2>3
  <1>3. QED BY <1>1, <1>2

\* Likewise for a message to one client.
LEMMA EnqueueFacts ==
    ASSUME TypeOK, NEW d \in Conns, NEW m \in Kinds, Enqueue(d, m)
    PROVE  /\ queue' \in [Conns -> Seq(Kinds)]
           /\ \A c \in Conns : /\ c # d => queue'[c] = queue[c]
                               /\ Len(queue'[c]) >= Len(queue[c])
                               /\ \A i \in 1..Len(queue[c]) : queue'[c][i] = queue[c][i]
  <1>1. \/ queue' = queue
        \/ queue' = [queue EXCEPT ![d] = Push(queue[d], m)]
    BY DEF Enqueue
  <1>2. queue \in [Conns -> Seq(Kinds)] BY DEF TypeOK
  <1>3. CASE queue' = queue BY <1>2, <1>3
  <1>4. CASE queue' = [queue EXCEPT ![d] = Push(queue[d], m)]
    <2>1. queue[d] \in Seq(Kinds) BY <1>2
    <2>2. /\ Push(queue[d], m) \in Seq(Kinds)
          /\ Len(Push(queue[d], m)) >= Len(queue[d])
          /\ \A i \in 1..Len(queue[d]) : Push(queue[d], m)[i] = queue[d][i]
      BY <2>1, PushFacts
    <2>3. queue' \in [Conns -> Seq(Kinds)] BY <1>2, <1>4, <2>2
    <2>4. ASSUME NEW c \in Conns
          PROVE  /\ c # d => queue'[c] = queue[c]
                 /\ Len(queue'[c]) >= Len(queue[c])
                 /\ \A i \in 1..Len(queue[c]) : queue'[c][i] = queue[c][i]
      <3>1. CASE c = d BY <1>2, <1>4, <2>2, <3>1
      <3>2. CASE c # d
        <4>1. queue'[c] = queue[c] BY <1>2, <1>4, <3>2
        <4>2. queue[c] \in Seq(Kinds) BY <1>2
        <4>3. QED BY <3>2, <4>1, <4>2
      <3>3. QED BY <3>1, <3>2
    <2>5. QED BY <2>3, <2>4
  <1>5. QED BY <1>1, <1>3, <1>4

\* The connections that are counted can be counted.
LEMMA CountedFinite == IsFiniteSet(CountedConns) /\ Cardinality(CountedConns) \in Nat
  <1>1. CountedConns \in SUBSET Conns BY DEF CountedConns
  <1>2. QED BY <1>1, ConnsFinite, FS_Subset, FS_CardinalityType

\* TypeOK without the sign of the gauge, which takes GaugeInv to show.
TypeInt ==
    /\ conn \in [Conns -> Stages]
    /\ sock \in [Conns -> {"none", "open", "broken", "closed"}]
    /\ writer \in [Conns -> {"off", "running", "exited"}]
    /\ cdone \subseteq Conns
    /\ clients \subseteq Conns
    /\ gauge \in Int
    /\ owner \in [Rockets -> Conns \cup {NoOwner}]
    /\ sdone \in BOOLEAN
    /\ listening \in BOOLEAN
    /\ acceptor \in {"accepting", "exited"}
    /\ ticker \in {"idle", "ticking", "exited"}
    /\ stop \in {"no", "signalled", "unlistened", "waiting", "clean", "timedout"}

\* Every step keeps the variables other than the queues in their types.
LEMMA TypeStep ==
    ASSUME TypeOK, Next
    PROVE  TypeInt'
  <1>1. ASSUME NEW c \in Conns,
            Accept(c)
        PROVE  TypeInt'
    BY <1>1
    DEF Accept, TypeOK, TypeInt, connVars, serverVars, Stages
  <1>2. ASSUME NEW c \in Conns,
            HelloOk(c)
        PROVE  TypeInt'
    BY <1>2
    DEF HelloOk, TypeOK, TypeInt, connVars, serverVars, Stages
  <1>3. ASSUME NEW c \in Conns,
            HelloFail(c)
        PROVE  TypeInt'
    BY <1>3
    DEF HelloFail, TypeOK, TypeInt, connVars, serverVars, Stages
  <1>4. ASSUME NEW c \in Conns,
            SendWelcome(c)
        PROVE  TypeInt'
    BY <1>4
    DEF SendWelcome, TypeOK, TypeInt, connVars, serverVars, Stages
  <1>5. ASSUME NEW c \in Conns,
            AddClient(c)
        PROVE  TypeInt'
    BY <1>5
    DEF AddClient, TypeOK, TypeInt, connVars, serverVars, Stages
  <1>6. ASSUME NEW c \in Conns,
            CountClient(c)
        PROVE  TypeInt'
    BY <1>6
    DEF CountClient, TypeOK, TypeInt, connVars, serverVars, Stages
  <1>7. ASSUME NEW c \in Conns,
            ReadReply(c)
        PROVE  TypeInt'
    BY <1>7
    DEF ReadReply, CanRead, TypeOK, TypeInt, connVars, serverVars, Stages
  <1>8. ASSUME NEW c \in Conns,
            ReadChat(c)
        PROVE  TypeInt'
    BY <1>8
    DEF ReadChat, CanRead, TypeOK, TypeInt, connVars, serverVars, Stages
  <1>9. ASSUME NEW c \in Conns,
            ReadEnd(c)
        PROVE  TypeInt'
    BY <1>9
    DEF ReadEnd, TypeOK, TypeInt, connVars, serverVars, Stages
  <1>10. ASSUME NEW c \in Conns,
            CloseDone(c)
        PROVE  TypeInt'
    BY <1>10
    DEF CloseDone, TypeOK, TypeInt, connVars, serverVars, Stages
  <1>11. ASSUME NEW c \in Conns,
            DeleteClient(c)
        PROVE  TypeInt'
    BY <1>11
    DEF DeleteClient, TypeOK, TypeInt, connVars, serverVars, Stages
  <1>12. ASSUME NEW c \in Conns,
            UncountClient(c)
        PROVE  TypeInt'
    BY <1>12
    DEF UncountClient, TypeOK, TypeInt, connVars, serverVars, Stages
  <1>13. ASSUME NEW c \in Conns,
            ReleaseRockets(c)
        PROVE  TypeInt'
    BY <1>13
    DEF ReleaseRockets, TypeOK, TypeInt, connVars, serverVars, Stages
  <1>14. ASSUME NEW c \in Conns,
            Hangup(c)
        PROVE  TypeInt'
    BY <1>14
    DEF Hangup, TypeOK, TypeInt, connVars, serverVars, Stages
  <1>15. ASSUME NEW c \in Conns,
            JoinWriter(c)
        PROVE  TypeInt'
    BY <1>15
    DEF JoinWriter, TypeOK, TypeInt, connVars, serverVars, Stages
  <1>16. ASSUME NEW c \in Conns,
            WriteOk(c)
        PROVE  TypeInt'
    BY <1>16
    DEF WriteOk, TypeOK, TypeInt, connVars, serverVars, Stages
  <1>17. ASSUME NEW c \in Conns,
            WriteFail(c)
        PROVE  TypeInt'
    BY <1>17
    DEF WriteFail, TypeOK, TypeInt, connVars, serverVars, Stages
  <1>18. ASSUME NEW c \in Conns,
            WriterStop(c)
        PROVE  TypeInt'
    BY <1>18
    DEF WriterStop, TypeOK, TypeInt, connVars, serverVars, Stages
  <1>19. ASSUME NEW c \in Conns,
            PeerLeaves(c)
        PROVE  TypeInt'
    BY <1>19
    DEF PeerLeaves, TypeOK, TypeInt, connVars, serverVars, Stages
  <1>20. ASSUME NEW c \in Conns, NEW r \in Rockets,
            ReadBoard(c, r)
        PROVE  TypeInt'
    BY <1>20
    DEF ReadBoard, CanRead, TypeOK, TypeInt, connVars, serverVars, Stages
  <1>21. ASSUME NEW c \in Conns, NEW r \in Rockets,
            ReadExit(c, r)
        PROVE  TypeInt'
    BY <1>21
    DEF ReadExit, TypeOK, TypeInt, connVars, serverVars, Stages
  <1>22. CASE AcceptorExit
    BY <1>22
    DEF AcceptorExit, TypeOK, TypeInt, connVars, serverVars, Stages
  <1>23. CASE TickStart
    BY <1>23
    DEF TickStart, TypeOK, TypeInt, connVars, serverVars, Stages
  <1>24. CASE TickBroadcast
    BY <1>24
    DEF TickBroadcast, TypeOK, TypeInt, connVars, serverVars, Stages
  <1>25. CASE TickExit
    BY <1>25
    DEF TickExit, TypeOK, TypeInt, connVars, serverVars, Stages
  <1>26. CASE StopSignal
    BY <1>26
    DEF StopSignal, TypeOK, TypeInt, connVars, serverVars, Stages
  <1>27. CASE StopListener
    <2>1. listening' \in BOOLEAN BY <1>27 DEF StopListener
    <2>2. QED BY <1>27, <2>1 DEF StopListener, TypeOK, TypeInt, connVars, Stages
  <1>28. CASE StopConns
    BY <1>28
    DEF StopConns, TypeOK, TypeInt, connVars, serverVars, Stages
  <1>29. CASE StopReturn
    BY <1>29
    DEF StopReturn, TypeOK, TypeInt, connVars, serverVars, Stages
  <1>30. CASE StopTimeout
    BY <1>30
    DEF StopTimeout, TypeOK, TypeInt, connVars, serverVars, Stages
  <1>31. QED
    BY <1>1, <1>2, <1>3, <1>4, <1>5, <1>6, <1>7, <1>8, <1>9, <1>10, <1>11,
       <1>12, <1>13, <1>14, <1>15, <1>16, <1>17, <1>18, <1>19, <1>20, <1>21,
       <1>22, <1>23, <1>24, <1>25, <1>26, <1>27, <1>28, <1>29, <1>30
    DEF Next, HandleConn, WriteLoop, TickLoop, Stop

\* Every step keeps registry, socket and writer in line with the stage.
LEMMA StageStep ==
    ASSUME TypeOK, StageInv, Next
    PROVE  StageInv'
  <1>1. ASSUME NEW c \in Conns,
            Accept(c) \/ HelloOk(c) \/ HelloFail(c)
        PROVE  StageInv'
    BY <1>1
    DEF Accept, HelloOk, HelloFail, TypeOK, StageInv, Listed, Stages,
        connVars, serverVars
  <1>2. ASSUME NEW c \in Conns,
            SendWelcome(c) \/ AddClient(c) \/ CountClient(c)
        PROVE  StageInv'
    BY <1>2
    DEF SendWelcome, AddClient, CountClient, TypeOK, StageInv, Listed,
        Stages, connVars, serverVars
  <1>3. ASSUME NEW c \in Conns,
            ReadReply(c) \/ ReadChat(c) \/ ReadEnd(c)
        PROVE  StageInv'
    BY <1>3
    DEF ReadReply, ReadChat, ReadEnd, CanRead, TypeOK, StageInv, Listed,
        Stages, connVars, serverVars
  <1>4. ASSUME NEW c \in Conns,
            CloseDone(c) \/ DeleteClient(c) \/ UncountClient(c)
        PROVE  StageInv'
    BY <1>4
    DEF CloseDone, DeleteClient, UncountClient, TypeOK, StageInv, Listed,
        Stages, connVars, serverVars
  <1>5. ASSUME NEW c \in Conns,
            ReleaseRockets(c) \/ Hangup(c) \/ JoinWriter(c)
        PROVE  StageInv'
    BY <1>5
    DEF ReleaseRockets, Hangup, JoinWriter, TypeOK, StageInv, Listed, Stages,
        connVars, serverVars
  <1>6. ASSUME NEW c \in Conns,
            WriteOk(c) \/ WriteFail(c) \/ WriterStop(c)
        PROVE  StageInv'
    BY <1>6
    DEF WriteOk, WriteFail, WriterStop, TypeOK, StageInv, Listed, Stages,
        connVars, serverVars
  <1>7. ASSUME NEW c \in Conns,
            PeerLeaves(c)
        PROVE  StageInv'
    BY <1>7
    DEF PeerLeaves, TypeOK, StageInv, Listed, Stages, connVars, serverVars
  <1>8. ASSUME NEW c \in Conns, NEW r \in Rockets,
            ReadBoard(c, r)
        PROVE  StageInv'
    BY <1>8
    DEF ReadBoard, CanRead, TypeOK, StageInv, Listed, Stages, connVars,
        serverVars
  <1>9. ASSUME NEW c \in Conns, NEW r \in Rockets,
            ReadExit(c, r)
        PROVE  StageInv'
    BY <1>9
    DEF ReadExit, TypeOK, StageInv, Listed, Stages, connVars, serverVars
  <1>10. CASE AcceptorExit \/ TickStart \/ TickBroadcast \/ TickExit
    BY <1>10
    DEF AcceptorExit, TickStart, TickBroadcast, TickExit, TypeOK, StageInv,
        Listed, Stages, connVars, serverVars
  <1>11. CASE StopSignal \/ StopListener
    BY <1>11
    DEF StopSignal, StopListener, TypeOK, StageInv, Listed, Stages, connVars,
        serverVars
  <1>12. CASE StopConns
    BY <1>12
    DEF StopConns, TypeOK, StageInv, Listed, Stages, connVars, serverVars
  <1>13. CASE StopReturn \/ StopTimeout
    BY <1>13
    DEF StopReturn, StopTimeout, TypeOK, StageInv, Listed, Stages, connVars,
        serverVars
  <1>14. QED
    BY <1>1, <1>2, <1>3, <1>4, <1>5, <1>6, <1>7, <1>8, <1>9, <1>10, <1>11,
       <1>12, <1>13
    DEF Next, HandleConn, WriteLoop, TickLoop, Stop

\* Every step keeps the owners of rockets among the connections that will release them.
LEMMA RocketStep ==
    ASSUME TypeOK, NoOrphanRocket, Next
    PROVE  NoOrphanRocket'
  <1>1. ASSUME NEW c \in Conns,
            Accept(c)
        PROVE  NoOrphanRocket'
    BY <1>1, NoOwnerFresh
    DEF Accept, TypeOK, NoOrphanRocket, Piloting, Stages, connVars, serverVars
  <1>2. ASSUME NEW c \in Conns,
            HelloOk(c)
        PROVE  NoOrphanRocket'
    BY <1>2, NoOwnerFresh
    DEF HelloOk, TypeOK, NoOrphanRocket, Piloting, Stages, connVars,
        serverVars
  <1>3. ASSUME NEW c \in Conns,
            HelloFail(c)
        PROVE  NoOrphanRocket'
    BY <1>3, NoOwnerFresh
    DEF HelloFail, TypeOK, NoOrphanRocket, Piloting, Stages, connVars,
        serverVars
  <1>4. ASSUME NEW c \in Conns,
            SendWelcome(c)
        PROVE  NoOrphanRocket'
    BY <1>4, NoOwnerFresh
    DEF SendWelcome, TypeOK, NoOrphanRocket, Piloting, Stages, connVars,
        serverVars
  <1>5. ASSUME NEW c \in Conns,
            AddClient(c)
        PROVE  NoOrphanRocket'
    BY <1>5, NoOwnerFresh
    DEF AddClient, TypeOK, NoOrphanRocket, Piloting, Stages, connVars,
        serverVars
  <1>6. ASSUME NEW c \in Conns,
            CountClient(c)
        PROVE  NoOrphanRocket'
    BY <1>6, NoOwnerFresh
    DEF CountClient, TypeOK, NoOrphanRocket, Piloting, Stages, connVars,
        serverVars
  <1>7. ASSUME NEW c \in Conns,
            ReadReply(c)
        PROVE  NoOrphanRocket'
    BY <1>7, NoOwnerFresh
    DEF ReadReply, CanRead, TypeOK, NoOrphanRocket, Piloting, Stages,
        connVars, serverVars
  <1>8. ASSUME NEW c \in Conns,
            ReadChat(c)
        PROVE  NoOrphanRocket'
    BY <1>8, NoOwnerFresh
    DEF ReadChat, CanRead, TypeOK, NoOrphanRocket, Piloting, Stages,
        connVars, serverVars
  <1>9. ASSUME NEW c \in Conns,
            ReadEnd(c)
        PROVE  NoOrphanRocket'
    BY <1>9, NoOwnerFresh
    DEF ReadEnd, TypeOK, NoOrphanRocket, Piloting, Stages, connVars,
        serverVars
  <1>10. ASSUME NEW c \in Conns,
            CloseDone(c)
        PROVE  NoOrphanRocket'
    BY <1>10, NoOwnerFresh
    DEF CloseDone, TypeOK, NoOrphanRocket, Piloting, Stages, connVars,
        serverVars
  <1>11. ASSUME NEW c \in Conns,
            DeleteClient(c)
        PROVE  NoOrphanRocket'
    BY <1>11, NoOwnerFresh
    DEF DeleteClient, TypeOK, NoOrphanRocket, Piloting, Stages, connVars,
        serverVars
  <1>12. ASSUME NEW c \in Conns,
            UncountClient(c)
        PROVE  NoOrphanRocket'
    BY <1>12, NoOwnerFresh
    DEF UncountClient, TypeOK, NoOrphanRocket, Piloting, Stages, connVars,
        serverVars
  <1>13. ASSUME NEW c \in Conns,
            ReleaseRockets(c)
        PROVE  NoOrphanRocket'
    BY <1>13, NoOwnerFresh
    DEF ReleaseRockets, TypeOK, NoOrphanRocket, Piloting, Stages, connVars,
        serverVars
  <1>14. ASSUME NEW c \in Conns,
            Hangup(c)
        PROVE  NoOrphanRocket'
    BY <1>14, NoOwnerFresh
    DEF Hangup, TypeOK, NoOrphanRocket, Piloting, Stages, connVars, serverVars
  <1>15. ASSUME NEW c \in Conns,
            JoinWriter(c)
        PROVE  NoOrphanRocket'
    BY <1>15, NoOwnerFresh
    DEF JoinWriter, TypeOK, NoOrphanRocket, Piloting, Stages, connVars,
        serverVars
  <1>16. ASSUME NEW c \in Conns,
            WriteOk(c)
        PROVE  NoOrphanRocket'
    BY <1>16, NoOwnerFresh
    DEF WriteOk, TypeOK, NoOrphanRocket, Piloting, Stages, connVars,
        serverVars
  <1>17. ASSUME NEW c \in Conns,
            WriteFail(c)
        PROVE  NoOrphanRocket'
    BY <1>17, NoOwnerFresh
    DEF WriteFail, TypeOK, NoOrphanRocket, Piloting, Stages, connVars,
        serverVars
  <1>18. ASSUME NEW c \in Conns,
            WriterStop(c)
        PROVE  NoOrphanRocket'
    BY <1>18, NoOwnerFresh
    DEF WriterStop, TypeOK, NoOrphanRocket, Piloting, Stages, connVars,
        serverVars
  <1>19. ASSUME NEW c \in Conns,
            PeerLeaves(c)
        PROVE  NoOrphanRocket'
    BY <1>19, NoOwnerFresh
    DEF PeerLeaves, TypeOK, NoOrphanRocket, Piloting, Stages, connVars,
        serverVars
  <1>20. ASSUME NEW c \in Conns, NEW r \in Rockets,
            ReadBoard(c, r)
        PROVE  NoOrphanRocket'
    BY <1>20, NoOwnerFresh
    DEF ReadBoard, CanRead, TypeOK, NoOrphanRocket, Piloting, Stages,
        connVars, serverVars
  <1>21. ASSUME NEW c \in Conns, NEW r \in Rockets,
            ReadExit(c, r)
        PROVE  NoOrphanRocket'
    BY <1>21, NoOwnerFresh
    DEF ReadExit, TypeOK, NoOrphanRocket, Piloting, Stages, connVars,
        serverVars
  <1>22. CASE AcceptorExit \/ TickStart \/ TickBroadcast \/ TickExit
    BY <1>22, NoOwnerFresh
    DEF AcceptorExit, TickStart, TickBroadcast, TickExit, TypeOK,
        NoOrphanRocket, Piloting, Stages, connVars, serverVars
  <1>23. CASE StopSignal \/ StopListener \/ StopConns \/ StopReturn \/
            StopTimeout
    BY <1>23, NoOwnerFresh
    DEF StopSignal, StopListener, StopConns, StopReturn, StopTimeout, TypeOK,
        NoOrphanRocket, Piloting, Stages, connVars, serverVars
  <1>24. QED
    BY <1>1, <1>2, <1>3, <1>4, <1>5, <1>6, <1>7, <1>8, <1>9, <1>10, <1>11,
       <1>12, <1>13, <1>14, <1>15, <1>16, <1>17, <1>18, <1>19, <1>20, <1>21,
       <1>22, <1>23
    DEF Next, HandleConn, WriteLoop, TickLoop, Stop

\* Every step keeps the gauge equal to the number of counted connections.
LEMMA GaugeStep ==
    ASSUME TypeOK, GaugeInv, Next
    PROVE  GaugeInv'
  <1>1. ASSUME NEW c \in Conns,
            Accept(c) \/ HelloOk(c) \/ HelloFail(c)
        PROVE  GaugeInv'
    <2>1. CountedConns' = CountedConns
      BY <1>1
      DEF Accept, HelloOk, HelloFail, TypeOK, CountedConns, Counted,
          connVars, serverVars
    <2>2. gauge' = gauge
      BY <1>1
      DEF Accept, HelloOk, HelloFail, connVars, serverVars
    <2>3. QED BY <2>1, <2>2 DEF GaugeInv
  <1>2. ASSUME NEW c \in Conns,
            SendWelcome(c) \/ AddClient(c)
        PROVE  GaugeInv'
    <2>1. CountedConns' = CountedConns
      BY <1>2
      DEF SendWelcome, AddClient, TypeOK, CountedConns, Counted, connVars,
          serverVars
    <2>2. gauge' = gauge
      BY <1>2
      DEF SendWelcome, AddClient, connVars, serverVars
    <2>3. QED BY <2>1, <2>2 DEF GaugeInv
  <1>3. ASSUME NEW c \in Conns,
            CountClient(c)
        PROVE  GaugeInv'
    <2>1. CountedConns' = CountedConns \cup {c} /\ c \notin CountedConns
      BY <1>3 DEF CountClient, TypeOK, CountedConns, Counted
    <2>2. gauge' = gauge + 1 BY <1>3 DEF CountClient
    <2>3. QED BY <2>1, <2>2, CountedFinite, FS_AddElement DEF GaugeInv
  <1>4. ASSUME NEW c \in Conns,
            ReadReply(c) \/ ReadChat(c) \/ ReadEnd(c)
        PROVE  GaugeInv'
    <2>1. CountedConns' = CountedConns
      BY <1>4
      DEF ReadReply, ReadChat, ReadEnd, CanRead, TypeOK, CountedConns,
          Counted, connVars, serverVars
    <2>2. gauge' = gauge
      BY <1>4
      DEF ReadReply, ReadChat, ReadEnd, CanRead, connVars, serverVars
    <2>3. QED BY <2>1, <2>2 DEF GaugeInv
  <1>5. ASSUME NEW c \in Conns,
            CloseDone(c) \/ DeleteClient(c)
        PROVE  GaugeInv'
    <2>1. CountedConns' = CountedConns
      BY <1>5
      DEF CloseDone, DeleteClient, TypeOK, CountedConns, Counted, connVars,
          serverVars
    <2>2. gauge' = gauge
      BY <1>5
      DEF CloseDone, DeleteClient, connVars, serverVars
    <2>3. QED BY <2>1, <2>2 DEF GaugeInv
  <1>6. ASSUME NEW c \in Conns,
            UncountClient(c)
        PROVE  GaugeInv'
    <2>1. CountedConns' = CountedConns \ {c} /\ c \in CountedConns
      BY <1>6 DEF UncountClient, TypeOK, CountedConns, Counted
    <2>2. gauge' = gauge - 1 BY <1>6 DEF UncountClient
    <2>3. QED BY <2>1, <2>2, CountedFinite, FS_RemoveElement DEF GaugeInv
  <1>7. ASSUME NEW c \in Conns,
            ReleaseRockets(c) \/ Hangup(c) \/ JoinWriter(c)
        PROVE  GaugeInv'
    <2>1. CountedConns' = CountedConns
      BY <1>7
      DEF ReleaseRockets, Hangup, JoinWriter, TypeOK, CountedConns, Counted,
          connVars, serverVars
    <2>2. gauge' = gauge
      BY <1>7
      DEF ReleaseRockets, Hangup, JoinWriter, connVars, serverVars
    <2>3. QED BY <2>1, <2>2 DEF GaugeInv
  <1>8. ASSUME NEW c \in Conns,
            WriteOk(c) \/ WriteFail(c) \/ WriterStop(c)
        PROVE  GaugeInv'
    <2>1. CountedConns' = CountedConns
      BY <1>8
      DEF WriteOk, WriteFail, WriterStop, TypeOK, CountedConns, Counted,
          connVars, serverVars
    <2>2. gauge' = gauge
      BY <1>8
      DEF WriteOk, WriteFail, WriterStop, connVars, serverVars
    <2>3. QED BY <2>1, <2>2 DEF GaugeInv
  <1>9. ASSUME NEW c \in Conns,
            PeerLeaves(c)
        PROVE  GaugeInv'
    <2>1. CountedConns' = CountedConns
      BY <1>9
      DEF PeerLeaves, TypeOK, CountedConns, Counted, connVars, serverVars
    <2>2. gauge' = gauge
      BY <1>9
      DEF PeerLeaves, connVars, serverVars
    <2>3. QED BY <2>1, <2>2 DEF GaugeInv
  <1>10. ASSUME NEW c \in Conns, NEW r \in Rockets,
            ReadBoard(c, r)
        PROVE  GaugeInv'
    <2>1. CountedConns' = CountedConns
      BY <1>10
      DEF ReadBoard, CanRead, TypeOK, CountedConns, Counted, connVars,
          serverVars
    <2>2. gauge' = gauge
      BY <1>10
      DEF ReadBoard, CanRead, connVars, serverVars
    <2>3. QED BY <2>1, <2>2 DEF GaugeInv
  <1>11. ASSUME NEW c \in Conns, NEW r \in Rockets,
            ReadExit(c, r)
        PROVE  GaugeInv'
    <2>1. CountedConns' = CountedConns
      BY <1>11
      DEF ReadExit, TypeOK, CountedConns, Counted, connVars, serverVars
    <2>2. gauge' = gauge
      BY <1>11
      DEF ReadExit, connVars, serverVars
    <2>3. QED BY <2>1, <2>2 DEF GaugeInv
  <1>12. CASE AcceptorExit \/ TickStart \/ TickBroadcast \/ TickExit
    <2>1. CountedConns' = CountedConns
      BY <1>12
      DEF AcceptorExit, TickStart, TickBroadcast, TickExit, TypeOK,
          CountedConns, Counted, connVars, serverVars
    <2>2. gauge' = gauge
      BY <1>12
      DEF AcceptorExit, TickStart, TickBroadcast, TickExit, connVars,
          serverVars
    <2>3. QED BY <2>1, <2>2 DEF GaugeInv
  <1>13. CASE StopSignal \/ StopListener \/ StopConns \/ StopReturn \/
            StopTimeout
    <2>1. CountedConns' = CountedConns
      BY <1>13
      DEF StopSignal, StopListener, StopConns, StopReturn, StopTimeout,
          TypeOK, CountedConns, Counted, connVars, serverVars
    <2>2. gauge' = gauge
      BY <1>13
      DEF StopSignal, StopListener, StopConns, StopReturn, StopTimeout,
          connVars, serverVars
    <2>3. QED BY <2>1, <2>2 DEF GaugeInv
  <1>14. QED
    BY <1>1, <1>2, <1>3, <1>4, <1>5, <1>6, <1>7, <1>8, <1>9, <1>10, <1>11,
       <1>12, <1>13
    DEF Next, HandleConn, WriteLoop, TickLoop, Stop

\* After a clean Stop no step puts a goroutine back to work.
LEMMA StopStep ==
    ASSUME TypeOK, StageInv, StopInv, Next
    PROVE  StopInv'
  <1>1. ASSUME NEW c \in Conns,
            Accept(c) \/ HelloOk(c) \/ HelloFail(c)
        PROVE  StopInv'
    BY <1>1
    DEF Accept, HelloOk, HelloFail, TypeOK, StopInv, Working, Stages,
        connVars, serverVars
  <1>2. ASSUME NEW c \in Conns,
            SendWelcome(c) \/ AddClient(c) \/ CountClient(c)
        PROVE  StopInv'
    BY <1>2
    DEF SendWelcome, AddClient, CountClient, TypeOK, StopInv, Working,
        Stages, connVars, serverVars
  <1>3. ASSUME NEW c \in Conns,
            ReadReply(c) \/ ReadChat(c) \/ ReadEnd(c)
        PROVE  StopInv'
    BY <1>3
    DEF ReadReply, ReadChat, ReadEnd, CanRead, TypeOK, StopInv, Working,
        Stages, connVars, serverVars
  <1>4. ASSUME NEW c \in Conns,
            CloseDone(c) \/ DeleteClient(c) \/ UncountClient(c)
        PROVE  StopInv'
    BY <1>4
    DEF CloseDone, DeleteClient, UncountClient, TypeOK, StopInv, Working,
        Stages, connVars, serverVars
  <1>5. ASSUME NEW c \in Conns,
            ReleaseRockets(c) \/ Hangup(c) \/ JoinWriter(c)
        PROVE  StopInv'
    BY <1>5
    DEF ReleaseRockets, Hangup, JoinWriter, TypeOK, StopInv, Working, Stages,
        connVars, serverVars
  <1>6. ASSUME NEW c \in Conns,
            WriteOk(c) \/ WriteFail(c) \/ WriterStop(c)
        PROVE  StopInv'
    BY <1>6
    DEF WriteOk, WriteFail, WriterStop, TypeOK, StopInv, Working, Stages,
        connVars, serverVars
  <1>7. ASSUME NEW c \in Conns,
            PeerLeaves(c)
        PROVE  StopInv'
    BY <1>7
    DEF PeerLeaves, TypeOK, StopInv, Working, Stages, connVars, serverVars
  <1>8. ASSUME NEW c \in Conns, NEW r \in Rockets,
            ReadBoard(c, r)
        PROVE  StopInv'
    BY <1>8
    DEF ReadBoard, CanRead, TypeOK, StopInv, Working, Stages, connVars,
        serverVars
  <1>9. ASSUME NEW c \in Conns, NEW r \in Rockets,
            ReadExit(c, r)
        PROVE  StopInv'
    BY <1>9
    DEF ReadExit, TypeOK, StopInv, Working, Stages, connVars, serverVars
  <1>10. CASE AcceptorExit \/ TickStart \/ TickBroadcast \/ TickExit
    BY <1>10
    DEF AcceptorExit, TickStart, TickBroadcast, TickExit, TypeOK, StopInv,
        Working, Stages, connVars, serverVars
  <1>11. CASE StopSignal \/ StopListener \/ StopConns
    BY <1>11
    DEF StopSignal, StopListener, StopConns, TypeOK, StopInv, Working,
        Stages, connVars, serverVars
  <1>12. CASE StopReturn \/ StopTimeout
    BY <1>12
    DEF StopReturn, StopTimeout, TypeOK, StopInv, Working, Stages, connVars,
        serverVars
  <1>13. QED
    BY <1>1, <1>2, <1>3, <1>4, <1>5, <1>6, <1>7, <1>8, <1>9, <1>10, <1>11,
       <1>12
    DEF Next, HandleConn, WriteLoop, TickLoop, Stop

\* Appending to a sequence of length one.
LEMMA SecondOfTwo ==
    ASSUME NEW S, NEW w \in Seq(S), Len(w) = 1, NEW x \in S
    PROVE  /\ Append(w, x) \in Seq(S) /\ Len(Append(w, x)) = 2
           /\ Append(w, x)[1] = w[1] /\ Append(w, x)[2] = x
  <1>1. Append(w, x) \in Seq(S) /\ Len(Append(w, x)) = 2 BY SMTT(30)
  <1>2. Append(w, x)[1] = w[1] BY SMTT(30)
  <1>3. Append(w, x)[Len(w) + 1] = x BY AppendProperties
  <1>4. Len(w) + 1 = 2 OBVIOUS
  <1>5. Append(w, x)[2] = x BY <1>3, <1>4, Zenon
  <1>6. QED BY <1>1, <1>2, <1>5

\* registerClient's two messages fit in an empty queue, in their order.
LEMMA GreetingPushed ==
    ASSUME NEW e \in Seq(Kinds), Len(e) = 0
    PROVE  LET q == Push(Push(e, "welcome"), "inventory")
           IN  q \in Seq(Kinds) /\ Len(q) = 2 /\ q[1] = "welcome" /\ q[2] = "inventory"
  <1> DEFINE w == Push(e, "welcome")
  <1>1. w \in Seq(Kinds) /\ Len(w) = 1 /\ w[1] = "welcome"
    <2>1. "welcome" \in Kinds BY DEF Kinds
    <2>2. QED BY <2>1, SendBufAssumption DEF Push
  <1> HIDE DEF w
  <1>2. Push(w, "inventory") = Append(w, "inventory")
    BY <1>1, SendBufAssumption DEF Push
  <1>3. "inventory" \in Kinds BY DEF Kinds
  <1>4. /\ Append(w, "inventory") \in Seq(Kinds)
        /\ Len(Append(w, "inventory")) = 2
        /\ Append(w, "inventory")[1] = w[1]
        /\ Append(w, "inventory")[2] = "inventory"
    BY <1>1, <1>3, SecondOfTwo
  <1>5. QED BY <1>1, <1>2, <1>4 DEF w

\* The cases of a length: nothing sent, one frame sent, the greeting sent.
LEMMA SmallNat == \A n \in Nat : n = 0 \/ n = 1 \/ n >= 2
  OBVIOUS

\* The greeting part of the invariant, with the types of the two sequences.
Greeting ==
    /\ queue \in [Conns -> Seq(Kinds)]
    /\ sent \in [Conns -> Seq(Kinds)]
    /\ GreetInv
    /\ WelcomeFirst

\* A step that only appends to the queues of registered clients keeps the
\* greeting at the head of the queues.
LEMMA GreetKept ==
    ASSUME TypeOK, StageInv, Greeting,
           queue' \in [Conns -> Seq(Kinds)],
           \A d \in Conns : /\ d \notin clients => queue'[d] = queue[d]
                            /\ Len(queue'[d]) >= Len(queue[d])
                            /\ \A i \in 1..Len(queue[d]) : queue'[d][i] = queue[d][i],
           conn' = conn, writer' = writer, sent' = sent
    PROVE  Greeting'
  <1>1. WelcomeFirst' /\ sent' \in [Conns -> Seq(Kinds)] BY DEF Greeting, WelcomeFirst
  <1> SUFFICES ASSUME NEW d \in Conns
                 PROVE  /\ conn[d] \in {"none", "handshake", "register"}
                              => queue'[d] = <<>> /\ sent[d] = <<>>
                        /\ conn[d] \in (Listed \cup Piloting \cup {"adding", "hangup", "joining"})
                           /\ writer[d] # "exited" =>
                              /\ sent[d] = <<>> => Len(queue'[d]) >= 2 /\ queue'[d][1] = "welcome"
                                                                      /\ queue'[d][2] = "inventory"
                              /\ Len(sent[d]) = 1 => Len(queue'[d]) >= 1 /\ queue'[d][1] = "inventory"
    BY <1>1 DEF Greeting, GreetInv
  <1>3. conn[d] \in {"none", "handshake", "register"} => d \notin clients
    BY DEF StageInv, Listed
  <1>4. queue[d] \in Seq(Kinds) /\ queue'[d] \in Seq(Kinds) BY DEF TypeOK
  <1>5. CASE conn[d] \in {"none", "handshake", "register"}
    BY <1>3, <1>5 DEF Greeting, GreetInv, Listed, Piloting
  <1>6. CASE conn[d] \notin {"none", "handshake", "register"}
    <2>1. /\ Len(queue'[d]) >= Len(queue[d])
          /\ \A i \in 1..Len(queue[d]) : queue'[d][i] = queue[d][i]
      OBVIOUS
    <2>2. QED BY <1>4, <1>6, <2>1 DEF Greeting, GreetInv
  <1>7. QED BY <1>5, <1>6

\* Every step keeps Welcome and the inventory the first two frames.
LEMMA GreetStep ==
    ASSUME TypeOK, StageInv, Greeting, Next
    PROVE  Greeting'
  <1>1. ASSUME NEW c \in Conns,
            Accept(c) \/ HelloOk(c) \/ HelloFail(c)
        PROVE  Greeting'
    BY <1>1
    DEF Accept, HelloOk, HelloFail, TypeOK, StageInv, Greeting, GreetInv,
        WelcomeFirst, Listed, Piloting, Stages, connVars, serverVars
  <1>2. ASSUME NEW c \in Conns,
            SendWelcome(c)
        PROVE  Greeting'
    <2> DEFINE q == Push(Push(queue[c], "welcome"), "inventory")
    <2>1. queue[c] = <<>> /\ sent[c] = <<>> BY <1>2 DEF SendWelcome, Greeting, GreetInv
    <2>2. q \in Seq(Kinds) /\ Len(q) = 2 /\ q[1] = "welcome" /\ q[2] = "inventory"
      <3>1. queue[c] \in Seq(Kinds) /\ Len(queue[c]) = 0 BY <2>1, EmptySeq DEF TypeOK
      <3>2. QED BY <3>1, GreetingPushed
    <2>3. /\ queue' = [queue EXCEPT ![c] = q]
          /\ conn' = [conn EXCEPT ![c] = "adding"]
          /\ writer' = writer /\ sent' = sent
      BY <1>2 DEF SendWelcome
    <2> HIDE DEF q
    <2>4. /\ queue'[c] = q /\ conn'[c] = "adding"
          /\ queue' \in [Conns -> Seq(Kinds)]
          /\ \A d \in Conns : d # c => queue'[d] = queue[d] /\ conn'[d] = conn[d]
      BY <2>2, <2>3 DEF TypeOK
    <2>5. WelcomeFirst' /\ sent' \in [Conns -> Seq(Kinds)]
      BY <2>3 DEF Greeting, WelcomeFirst
    <2>6. GreetInv'
      <3> SUFFICES ASSUME NEW d \in Conns
                   PROVE  /\ conn'[d] \in {"none", "handshake", "register"}
                                => queue'[d] = <<>> /\ sent[d] = <<>>
                          /\ conn'[d] \in (Listed \cup Piloting \cup {"adding", "hangup", "joining"})
                             /\ writer[d] # "exited" =>
                                /\ sent[d] = <<>> => Len(queue'[d]) >= 2 /\ queue'[d][1] = "welcome"
                                                                        /\ queue'[d][2] = "inventory"
                                /\ Len(sent[d]) = 1 => Len(queue'[d]) >= 1 /\ queue'[d][1] = "inventory"
        BY <2>3 DEF GreetInv
      <3>1. CASE d = c
        <4>1. /\ conn'[d] = "adding" /\ sent[d] = <<>>
              /\ Len(queue'[d]) = 2 /\ queue'[d][1] = "welcome" /\ queue'[d][2] = "inventory"
          BY <2>1, <2>2, <2>4, <3>1
        <4>2. QED BY <4>1, EmptySeq
      <3>2. CASE d # c BY <2>4, <3>2 DEF Greeting, GreetInv
      <3>3. QED BY <3>1, <3>2
    <2>7. QED BY <2>4, <2>5, <2>6 DEF Greeting
  <1>3. ASSUME NEW c \in Conns,
            AddClient(c) \/ CountClient(c)
        PROVE  Greeting'
    BY <1>3
    DEF AddClient, CountClient, TypeOK, StageInv, Greeting, GreetInv,
        WelcomeFirst, Listed, Piloting, Stages, connVars, serverVars
  <1>4. ASSUME NEW c \in Conns,
            ReadReply(c)
        PROVE  Greeting'
    <2>1. /\ queue' \in [Conns -> Seq(Kinds)]
          /\ \A d \in Conns : /\ d # c => queue'[d] = queue[d]
                              /\ Len(queue'[d]) >= Len(queue[d])
                              /\ \A i \in 1..Len(queue[d]) : queue'[d][i] = queue[d][i]
      BY <1>4, EnqueueFacts DEF ReadReply, Kinds
    <2>2. conn' = conn /\ writer' = writer /\ sent' = sent
      BY <1>4 DEF ReadReply
    <2>3. c \in clients BY <1>4 DEF ReadReply, CanRead, StageInv, Listed
    <2>4. QED BY <2>1, <2>2, <2>3, GreetKept
  <1>5. ASSUME NEW c \in Conns,
            ReadChat(c)
        PROVE  Greeting'
    <2>1. /\ queue' \in [Conns -> Seq(Kinds)]
          /\ \A d \in Conns : /\ d \notin clients => queue'[d] = queue[d]
                              /\ Len(queue'[d]) >= Len(queue[d])
                              /\ \A i \in 1..Len(queue[d]) : queue'[d][i] = queue[d][i]
      BY <1>5, BroadcastFacts DEF ReadChat, Kinds
    <2>2. conn' = conn /\ writer' = writer /\ sent' = sent
      BY <1>5 DEF ReadChat
    <2>3. QED BY <2>1, <2>2, GreetKept
  <1>6. ASSUME NEW c \in Conns,
            ReadEnd(c)
        PROVE  Greeting'
    BY <1>6
    DEF ReadEnd, TypeOK, StageInv, Greeting, GreetInv, WelcomeFirst, Listed,
        Piloting, Stages, connVars, serverVars
  <1>7. ASSUME NEW c \in Conns,
            CloseDone(c) \/ DeleteClient(c) \/ UncountClient(c)
        PROVE  Greeting'
    BY <1>7
    DEF CloseDone, DeleteClient, UncountClient, TypeOK, StageInv, Greeting,
        GreetInv, WelcomeFirst, Listed, Piloting, Stages, connVars, serverVars
  <1>8. ASSUME NEW c \in Conns,
            ReleaseRockets(c) \/ Hangup(c) \/ JoinWriter(c)
        PROVE  Greeting'
    BY <1>8
    DEF ReleaseRockets, Hangup, JoinWriter, TypeOK, StageInv, Greeting,
        GreetInv, WelcomeFirst, Listed, Piloting, Stages, connVars, serverVars
  <1>9. ASSUME NEW c \in Conns,
            WriteOk(c)
        PROVE  Greeting'
    <2>1. /\ queue[c] \in Seq(Kinds) /\ queue[c] # <<>> /\ sent[c] \in Seq(Kinds)
          /\ writer[c] = "running"
      BY <1>9 DEF WriteOk, TypeOK
    <2>2. /\ queue' = [queue EXCEPT ![c] = Tail(queue[c])]
          /\ sent' = [sent EXCEPT ![c] =
                        IF Len(sent[c]) < Kept THEN Append(sent[c], queue[c][1]) ELSE sent[c]]
          /\ conn' = conn /\ writer' = writer
      BY <1>9, <2>1 DEF WriteOk
    <2>3. conn[c] \in (Listed \cup Piloting \cup {"adding", "hangup", "joining"})
      BY <2>1 DEF TypeOK, StageInv, Stages, Listed, Piloting
    <2>4. /\ sent[c] = <<>> => Len(queue[c]) >= 2 /\ queue[c][1] = "welcome"
                                              /\ queue[c][2] = "inventory"
          /\ Len(sent[c]) = 1 => Len(queue[c]) >= 1 /\ queue[c][1] = "inventory"
      BY <2>1, <2>3 DEF Greeting, GreetInv
    <2>5. /\ queue'[c] \in Seq(Kinds) /\ sent'[c] \in Seq(Kinds)
          /\ sent'[c] # <<>>
          /\ Len(sent'[c]) = 1 => Len(queue'[c]) >= 1 /\ queue'[c][1] = "inventory"
          /\ Len(sent'[c]) >= 1 => sent'[c][1] = "welcome"
          /\ Len(sent'[c]) >= 2 => sent'[c][2] = "inventory"
      <3>1. /\ Len(sent[c]) >= 1 => sent[c][1] = "welcome"
            /\ Len(sent[c]) >= 2 => sent[c][2] = "inventory"
        BY DEF Greeting, WelcomeFirst
      <3>2. queue'[c] = Tail(queue[c]) /\ queue'[c] \in Seq(Kinds)
        BY <2>1, <2>2 DEF TypeOK
      <3>3. CASE Len(sent[c]) < Kept
        <4>1. sent'[c] = Append(sent[c], queue[c][1]) BY <2>2, <3>3 DEF TypeOK
        <4>2. queue[c][1] \in Kinds BY <2>1
        <4>3. CASE sent[c] = <<>> BY <2>1, <2>4, <3>2, <4>1, <4>2, <4>3
        <4>4. CASE Len(sent[c]) = 1 BY <2>1, <2>4, <3>1, <3>2, <4>1, <4>2, <4>4
        <4>5. CASE Len(sent[c]) >= 2 BY <2>1, <3>1, <3>2, <4>1, <4>2, <4>5
        <4>6. Len(sent[c]) \in Nat BY <2>1, LenProperties
        <4>7. Len(sent[c]) = 0 \/ Len(sent[c]) = 1 \/ Len(sent[c]) >= 2
          BY <4>6, SmallNat
        <4>8. Len(sent[c]) = 0 => sent[c] = <<>> BY <2>1, EmptySeq
        <4>9. QED BY <4>3, <4>4, <4>5, <4>7, <4>8, Zenon
      <3>4. CASE ~(Len(sent[c]) < Kept)
        <4>1. sent'[c] = sent[c] BY <2>2, <3>4 DEF TypeOK
        <4>2. Len(sent[c]) >= 2 BY <2>1, <3>4, KeptAssumption
        <4>3. QED BY <2>1, <3>1, <3>2, <4>1, <4>2
      <3>5. QED BY <3>3, <3>4
    <2>6. \A d \in Conns : d # c => queue'[d] = queue[d] /\ sent'[d] = sent[d]
      BY <2>2 DEF TypeOK
    <2>7. queue' \in [Conns -> Seq(Kinds)] /\ sent' \in [Conns -> Seq(Kinds)]
      <3>1. /\ Tail(queue[c]) \in Seq(Kinds) BY <2>1
      <3>2. queue[c][1] \in Kinds BY <2>1
      <3>3. Append(sent[c], queue[c][1]) \in Seq(Kinds) BY <2>1, <3>2
      <3>4. QED BY <2>1, <2>2, <3>1, <3>3 DEF TypeOK
    <2>8. GreetInv'
      <3> SUFFICES ASSUME NEW d \in Conns
                     PROVE  /\ conn[d] \in {"none", "handshake", "register"}
                                  => queue'[d] = <<>> /\ sent'[d] = <<>>
                            /\ conn[d] \in (Listed \cup Piloting \cup {"adding", "hangup", "joining"})
                               /\ writer[d] # "exited" =>
                                  /\ sent'[d] = <<>> => Len(queue'[d]) >= 2 /\ queue'[d][1] = "welcome"
                                                                           /\ queue'[d][2] = "inventory"
                                  /\ Len(sent'[d]) = 1 => Len(queue'[d]) >= 1 /\ queue'[d][1] = "inventory"
        BY <2>2 DEF GreetInv
      <3>2. CASE d = c BY <2>3, <2>5, <3>2 DEF Listed, Piloting
      <3>3. CASE d # c BY <2>6, <3>3 DEF Greeting, GreetInv
      <3>4. QED BY <3>2, <3>3
    <2>9. WelcomeFirst'
      BY <2>5, <2>6 DEF Greeting, WelcomeFirst
    <2>10. QED BY <2>7, <2>8, <2>9 DEF Greeting
  <1>10. ASSUME NEW c \in Conns,
            WriteFail(c)
        PROVE  Greeting'
    <2>1. /\ queue[c] \in Seq(Kinds) /\ queue[c] # <<>>
          /\ writer[c] = "running"
      BY <1>10 DEF WriteFail, TypeOK
    <2>2. /\ queue' = [queue EXCEPT ![c] = Tail(queue[c])]
          /\ writer' = [writer EXCEPT ![c] = "exited"]
          /\ conn' = conn /\ sent' = sent
      BY <1>10 DEF WriteFail
    <2>3. conn[c] \notin {"none", "handshake", "register"} /\ writer'[c] = "exited"
      BY <2>1, <2>2 DEF TypeOK, StageInv
    <2>4. queue' \in [Conns -> Seq(Kinds)] BY <2>1, <2>2 DEF TypeOK
    <2>5. \A d \in Conns : d # c => queue'[d] = queue[d] /\ writer'[d] = writer[d]
      BY <2>2 DEF TypeOK
    <2>6. QED BY <2>2, <2>3, <2>4, <2>5 DEF TypeOK, Greeting, GreetInv, WelcomeFirst
  <1>11. ASSUME NEW c \in Conns,
            WriterStop(c)
        PROVE  Greeting'
    BY <1>11
    DEF WriterStop, TypeOK, StageInv, Greeting, GreetInv, WelcomeFirst,
        Listed, Piloting, Stages, connVars, serverVars
  <1>12. ASSUME NEW c \in Conns,
            PeerLeaves(c)
        PROVE  Greeting'
    BY <1>12
    DEF PeerLeaves, TypeOK, StageInv, Greeting, GreetInv, WelcomeFirst,
        Listed, Piloting, Stages, connVars, serverVars
  <1>13. ASSUME NEW c \in Conns, NEW r \in Rockets,
            ReadBoard(c, r)
        PROVE  Greeting'
    BY <1>13
    DEF ReadBoard, CanRead, TypeOK, StageInv, Greeting, GreetInv,
        WelcomeFirst, Listed, Piloting, Stages, connVars, serverVars
  <1>14. ASSUME NEW c \in Conns, NEW r \in Rockets,
            ReadExit(c, r)
        PROVE  Greeting'
    BY <1>14
    DEF ReadExit, TypeOK, StageInv, Greeting, GreetInv, WelcomeFirst, Listed,
        Piloting, Stages, connVars, serverVars
  <1>15. CASE AcceptorExit \/ TickStart
    BY <1>15
    DEF AcceptorExit, TickStart, TypeOK, StageInv, Greeting, GreetInv,
        WelcomeFirst, Listed, Piloting, Stages, connVars, serverVars
  <1>16. CASE TickBroadcast
    <2>1. /\ queue' \in [Conns -> Seq(Kinds)]
          /\ \A d \in Conns : /\ d \notin clients => queue'[d] = queue[d]
                              /\ Len(queue'[d]) >= Len(queue[d])
                              /\ \A i \in 1..Len(queue[d]) : queue'[d][i] = queue[d][i]
      BY <1>16, BroadcastFacts DEF TickBroadcast, Kinds
    <2>2. conn' = conn /\ writer' = writer /\ sent' = sent
      BY <1>16 DEF TickBroadcast
    <2>3. QED BY <2>1, <2>2, GreetKept
  <1>17. CASE TickExit
    BY <1>17
    DEF TickExit, TypeOK, StageInv, Greeting, GreetInv, WelcomeFirst, Listed,
        Piloting, Stages, connVars, serverVars
  <1>18. CASE StopSignal \/ StopListener \/ StopConns
    BY <1>18
    DEF StopSignal, StopListener, StopConns, TypeOK, StageInv, Greeting,
        GreetInv, WelcomeFirst, Listed, Piloting, Stages, connVars, serverVars
  <1>19. CASE StopReturn \/ StopTimeout
    BY <1>19
    DEF StopReturn, StopTimeout, TypeOK, StageInv, Greeting, GreetInv,
        WelcomeFirst, Listed, Piloting, Stages, connVars, serverVars
  <1>20. QED
    BY <1>1, <1>2, <1>3, <1>4, <1>5, <1>6, <1>7, <1>8, <1>9, <1>10, <1>11,
       <1>12, <1>13, <1>14, <1>15, <1>16, <1>17, <1>18, <1>19
    DEF Next, HandleConn, WriteLoop, TickLoop, Stop

\* The initial state satisfies the inductive invariant.
LEMMA InitInv == Init => IndInv
  <1> SUFFICES ASSUME Init PROVE IndInv OBVIOUS
  <1>1. sdone \in BOOLEAN /\ listening \in BOOLEAN BY DEF Init
  <1>2. TypeOK BY <1>1 DEF Init, TypeOK, Stages
  <1>3. StageInv BY DEF Init, StageInv, Listed
  <1>4. GaugeInv
    <2>1. CountedConns = {} BY DEF Init, CountedConns, Counted
    <2>2. QED BY <2>1, FS_EmptySet DEF Init, GaugeInv
  <1>5. NoOrphanRocket BY DEF Init, NoOrphanRocket
  <1>6. WelcomeFirst /\ GreetInv BY DEF Init, WelcomeFirst, GreetInv, Listed, Piloting
  <1>7. StopInv BY DEF Init, StopInv
  <1>8. QED BY <1>2, <1>3, <1>4, <1>5, <1>6, <1>7 DEF IndInv

\* Every step, stuttering included, preserves it.
LEMMA NextInv == IndInv /\ [Next]_vars => IndInv'
  <1> SUFFICES ASSUME IndInv, [Next]_vars PROVE IndInv' OBVIOUS
  <1>2. CASE UNCHANGED vars
    BY <1>2 DEF IndInv, vars, TypeOK, StageInv, GaugeInv, CountedConns, NoOrphanRocket,
                WelcomeFirst, GreetInv, StopInv, Working
  <1>3. CASE Next
    <2>1. TypeOK /\ StageInv /\ GaugeInv /\ NoOrphanRocket /\ StopInv BY DEF IndInv
    <2>2. Greeting BY DEF IndInv, Greeting, TypeOK
    <2>3. TypeInt' BY <1>3, <2>1, TypeStep
    <2>4. StageInv' BY <1>3, <2>1, StageStep
    <2>5. GaugeInv' BY <1>3, <2>1, GaugeStep
    <2>6. NoOrphanRocket' BY <1>3, <2>1, RocketStep
    <2>7. Greeting' BY <1>3, <2>1, <2>2, GreetStep
    <2>8. StopInv' BY <1>3, <2>1, StopStep
    <2>9. gauge' \in Nat
      <3>1. CountedConns' \in SUBSET Conns BY DEF CountedConns
      <3>2. Cardinality(CountedConns') \in Nat
        BY <3>1, ConnsFinite, FS_Subset, FS_CardinalityType
      <3>3. QED BY <2>5, <3>2 DEF GaugeInv
    <2>10. TypeOK' BY <2>3, <2>7, <2>9 DEF TypeOK, TypeInt, Greeting
    <2>11. QED BY <2>4, <2>5, <2>6, <2>7, <2>8, <2>10 DEF IndInv, Greeting
  <1>4. QED BY <1>2, <1>3

\* IndInv holds in every reachable state of the session layer.
THEOREM Invariance == Spec => []IndInv
  BY InitInv, NextInv, PTL DEF Spec

\* PlayersConnected (registerClient, unregisterClient) agrees with the registry
\* whenever no connection is between its two updates.
THEOREM GaugeCorrect == Spec => []GaugeTracksRegistry
  <1>1. IndInv => GaugeTracksRegistry
    <2> SUFFICES ASSUME IndInv, \A c \in Conns : conn[c] \notin {"counting", "uncounting"}
                 PROVE  gauge = Cardinality(clients)
      BY DEF GaugeTracksRegistry
    <2>1. clients = CountedConns
      BY DEF IndInv, TypeOK, StageInv, CountedConns, Listed, Counted
    <2>2. QED BY <2>1 DEF IndInv, GaugeInv
  <1>2. QED BY <1>1, Invariance, PTL

\* The first frames writeLoop puts on a socket are Welcome and the inventory.
THEOREM GreetingFirst == Spec => []WelcomeFirst
  <1>1. IndInv => WelcomeFirst BY DEF IndInv
  <1>2. QED BY <1>1, Invariance, PTL

\* No rocket stays piloted by a player whose handleConn has released it.
THEOREM RocketsReleased == Spec => []NoOrphanRocket
  <1>1. IndInv => NoOrphanRocket BY DEF IndInv
  <1>2. QED BY <1>1, Invariance, PTL

\* When handleConn has returned the socket is closed, the writer has ended and
\* the registry entry is deleted.
THEOREM ConnsCleaned == Spec => []GoneIsGone
  <1>1. IndInv => GoneIsGone BY DEF IndInv, StageInv, GoneIsGone, Listed
  <1>2. QED BY <1>1, Invariance, PTL

\* A Stop that returns nil leaves the server at rest.
THEOREM StopIsClean == Spec => []CleanStop
  <1>1. IndInv => CleanStop
    <2> SUFFICES ASSUME IndInv, stop = "clean" PROVE CleanStop
      BY DEF CleanStop
    <2>1. /\ acceptor = "exited" /\ ticker = "exited"
          /\ \A c \in Conns : conn[c] \in {"none", "gone"}
      BY DEF IndInv, StopInv, Working
    <2>2. \A c \in Conns : writer[c] # "running" /\ sock[c] \in {"none", "closed"}
      BY <2>1 DEF IndInv, StageInv
    <2>3. clients = {} BY <2>1 DEF IndInv, TypeOK, StageInv, Listed
    <2>4. gauge = 0
      <3>1. CountedConns = {} BY <2>1 DEF CountedConns, Counted
      <3>2. QED BY <3>1, FS_EmptySet DEF IndInv, GaugeInv
    <2>5. \A r \in Rockets : owner[r] = NoOwner
      BY <2>1 DEF IndInv, TypeOK, NoOrphanRocket, Piloting
    <2>6. QED BY <2>1, <2>2, <2>3, <2>4, <2>5 DEF CleanStop
  <1>2. QED BY <1>1, Invariance, PTL

-----------------------------------------------------------------------------
(* The refinement of Lobby *)

\* Beyond the greeting everything that is queued is news.  (An exited writer
\* sends nothing any more, whatever is left in its queue.)
NewsInv ==
    \A c \in Conns : writer[c] # "exited" =>
        \A i \in 1..Len(queue[c]) : i + Len(sent[c]) > 2 => queue[c][i] = "news"

\* A push of news leaves every other entry where it was.
LEMMA PushNews ==
    ASSUME NEW q \in Seq(Kinds), NEW i \in 1..Len(Push(q, "news"))
    PROVE  \/ i \in 1..Len(q) /\ Push(q, "news")[i] = q[i]
           \/ Push(q, "news")[i] = "news"
  BY SendBufAssumption DEF Push, Kinds

\* A handler's reply and a broadcast put nothing but news into queues.
LEMMA NewsQueued ==
    ASSUME TypeOK, NewsInv, UNCHANGED <<writer, sent>>,
           (\E d \in Conns : Enqueue(d, "news")) \/ Broadcast("news")
    PROVE  NewsInv'
  <1>1. ASSUME NEW c \in Conns
        PROVE  queue'[c] = queue[c] \/ queue'[c] = Push(queue[c], "news")
    BY DEF Enqueue, Broadcast, TypeOK
  <1> SUFFICES ASSUME NEW c \in Conns, writer[c] # "exited",
                      NEW i \in 1..Len(queue'[c]), i + Len(sent[c]) > 2
               PROVE  queue'[c][i] = "news"
    BY DEF NewsInv
  <1>2. queue[c] \in Seq(Kinds) BY DEF TypeOK
  <1>3. i \in 1..Len(queue[c]) => queue[c][i] = "news" BY DEF NewsInv
  <1>4. QED BY <1>1, <1>2, <1>3, PushNews

\* Every step leaves only news behind the greeting.
LEMMA NewsStep ==
    ASSUME TypeOK, StageInv, GreetInv, NewsInv, Next
    PROVE  NewsInv'
  <1>1. ASSUME NEW c \in Conns, SendWelcome(c)
        PROVE  NewsInv'
    <2>1. queue[c] = <<>> /\ sent[c] = <<>>
      BY <1>1 DEF SendWelcome, GreetInv
    <2> DEFINE q == Push(Push(queue[c], "welcome"), "inventory")
    <2>2. Len(q) = 2 /\ Len(sent[c]) = 0
      <3>1. queue[c] \in Seq(Kinds) /\ Len(queue[c]) = 0 /\ Len(sent[c]) = 0
        BY <2>1, EmptySeq DEF TypeOK
      <3>2. QED BY <3>1, GreetingPushed
    <2>3. queue' = [queue EXCEPT ![c] = q] /\ UNCHANGED <<writer, sent>>
      BY <1>1 DEF SendWelcome
    <2> HIDE DEF q
    <2>4. queue'[c] = q /\ \A d \in Conns : d # c => queue'[d] = queue[d]
      BY <2>3 DEF TypeOK
    <2>5. \A i \in 1..Len(queue'[c]) : ~(i + Len(sent[c]) > 2)
      <3>1. \A i \in 1..2 : ~(i + 0 > 2) OBVIOUS
      <3>2. QED BY <2>2, <2>4, <3>1, Zenon
    <2>6. QED BY <2>3, <2>4, <2>5 DEF NewsInv
  <1>2. ASSUME NEW c \in Conns, WriteOk(c)
        PROVE  NewsInv'
    <2>1. /\ queue[c] \in Seq(Kinds) /\ queue[c] # <<>> /\ sent[c] \in Seq(Kinds)
          /\ queue' = [queue EXCEPT ![c] = Tail(queue[c])]
          /\ sent' = [sent EXCEPT ![c] =
                        IF Len(sent[c]) < Kept THEN Append(sent[c], Head(queue[c])) ELSE sent[c]]
          /\ writer' = writer
      BY <1>2 DEF WriteOk, TypeOK
    <2> SUFFICES ASSUME NEW d \in Conns, writer[d] # "exited",
                        NEW i \in 1..Len(queue'[d]), i + Len(sent'[d]) > 2
                 PROVE  queue'[d][i] = "news"
      BY <2>1 DEF NewsInv
    <2>2. CASE d # c BY <2>1, <2>2 DEF NewsInv, TypeOK
    <2>3. CASE d = c
      <3>1. /\ Len(queue'[d]) = Len(queue[c]) - 1
            /\ queue'[d][i] = queue[c][i + 1]
            /\ i + 1 \in 1..Len(queue[c])
        BY <2>1, <2>3 DEF TypeOK
      <3>2. Len(sent'[d]) = Len(sent[c]) + 1 \/ (Len(sent[c]) >= Kept /\ sent'[d] = sent[c])
        <4>1. sent'[d] = IF Len(sent[c]) < Kept THEN Append(sent[c], Head(queue[c])) ELSE sent[c]
          BY <2>1, <2>3 DEF TypeOK
        <4>2. Head(queue[c]) \in Kinds BY <2>1
        <4>3. Len(sent[c]) \in Nat BY <2>1
        <4>4. CASE Len(sent[c]) < Kept BY <2>1, <4>1, <4>2, <4>4
        <4>5. CASE ~(Len(sent[c]) < Kept) BY <4>1, <4>3, <4>5, KeptAssumption
        <4>6. QED BY <4>4, <4>5
      <3>3. i + 1 + Len(sent[c]) > 2
        <4>1. i + 1 \in Nat /\ i \in Int /\ i + 1 > 1 /\ Len(sent[c]) \in Nat
          BY <2>1, <3>1
        <4>2. \A m, n \in Nat : n = m + 1 /\ i + n > 2 => i + 1 + m > 2 BY <4>1
        <4>3. \A m \in Nat : m >= Kept => i + 1 + m > 2 BY <4>1, KeptAssumption
        <4>4. Len(sent[c]) + 1 \in Nat BY <4>1
        <4>5. QED BY <3>2, <4>1, <4>2, <4>3, <4>4, Zenon
      <3>4. QED BY <2>3, <3>1, <3>3 DEF NewsInv
    <2>4. QED BY <2>2, <2>3
  <1>3. ASSUME NEW c \in Conns, WriteFail(c)
        PROVE  NewsInv'
    BY <1>3 DEF WriteFail, NewsInv, TypeOK
  <1>4. ASSUME NEW c \in Conns, ReadReply(c) \/ ReadChat(c)
        PROVE  NewsInv'
    BY <1>4, NewsQueued DEF ReadReply, ReadChat
  <1>5. CASE TickBroadcast
    BY <1>5, NewsQueued DEF TickBroadcast
  <1>6. CASE /\ UNCHANGED <<queue, sent>>
             /\ \A c \in Conns : writer[c] = "exited" => writer'[c] = "exited"
    BY <1>6 DEF NewsInv
  <1>7. ASSUME NEW c \in Conns, CountClient(c) \/ WriterStop(c)
        PROVE  NewsInv'
    <2>1. UNCHANGED <<queue, sent>> BY <1>7 DEF CountClient, WriterStop
    <2>2. \A d \in Conns : writer[d] = "exited" => writer'[d] = "exited"
      BY <1>7 DEF CountClient, WriterStop, TypeOK, StageInv
    <2>3. QED BY <1>6, <2>1, <2>2
  <1>8. ASSUME NEW c \in Conns,
               \/ Accept(c) \/ HelloOk(c) \/ HelloFail(c) \/ AddClient(c) \/ ReadEnd(c)
               \/ (\E r \in Rockets : ReadBoard(c, r) \/ ReadExit(c, r))
               \/ CloseDone(c) \/ DeleteClient(c) \/ UncountClient(c)
               \/ ReleaseRockets(c) \/ Hangup(c) \/ JoinWriter(c) \/ PeerLeaves(c)
        PROVE  NewsInv'
    <2>1. UNCHANGED <<queue, sent, writer>>
      BY <1>8 DEF Accept, HelloOk, HelloFail, AddClient, ReadEnd, ReadBoard, ReadExit,
                  CloseDone, DeleteClient, UncountClient, ReleaseRockets, Hangup,
                  JoinWriter, PeerLeaves, connVars
    <2>2. QED BY <1>6, <2>1
  <1>9. CASE AcceptorExit \/ TickStart \/ TickExit \/ Stop
    <2>1. UNCHANGED <<queue, sent, writer>>
      BY <1>9 DEF AcceptorExit, TickStart, TickExit, Stop, StopSignal, StopListener,
                  StopConns, StopReturn, StopTimeout, connVars
    <2>2. QED BY <1>6, <2>1
  <1>10. QED
    BY <1>1, <1>2, <1>3, <1>4, <1>5, <1>7, <1>8, <1>9
    DEF Next, HandleConn, WriteLoop, TickLoop

\* In every reachable state the queues hold the rest of the greeting, then news.
LEMMA NewsBehindGreeting == Spec => []NewsInv
  <1>1. Init => NewsInv BY DEF Init, NewsInv
  <1>2. IndInv /\ NewsInv /\ [Next]_vars => NewsInv'
    <2> SUFFICES ASSUME IndInv, NewsInv, [Next]_vars PROVE NewsInv' OBVIOUS
    <2>1. CASE Next BY <2>1, NewsStep DEF IndInv
    <2>2. CASE UNCHANGED vars BY <2>2 DEF vars, NewsInv
    <2>3. QED BY <2>1, <2>2
  <1>3. QED BY <1>1, <1>2, Invariance, PTL DEF Spec

\* The phase of the lobby that a stage of handleConn belongs to.
PhaseName(s) ==
    CASE s = "none" -> "away"
      [] s \in {"handshake", "register", "adding"} -> "knocking"
      [] s \in Listed -> "served"
      [] s \in {"uncounting", "releasing", "hangup", "joining"} -> "leaving"
      [] s = "gone" -> "gone"

\* The stages in the order of handleConn, with what a player sees of them.
LEMMA PhaseNames ==
    /\ PhaseName("none") = "away"
    /\ PhaseName("handshake") = "knocking" /\ PhaseName("register") = "knocking"
    /\ PhaseName("adding") = "knocking"
    /\ PhaseName("counting") = "served" /\ PhaseName("reading") = "served"
    /\ PhaseName("closing") = "served" /\ PhaseName("deleting") = "served"
    /\ PhaseName("uncounting") = "leaving" /\ PhaseName("releasing") = "leaving"
    /\ PhaseName("hangup") = "leaving" /\ PhaseName("joining") = "leaving"
    /\ PhaseName("gone") = "gone"
  BY DEF PhaseName, Listed

\* The refinement mapping of Sessions is PhaseName, connection by connection.
LEMMA PhaseIs == Phase = [c \in Conns |-> PhaseName(conn[c])]
  BY DEF Phase, PhaseName

\* A connection that goes to another stage goes to the phase of that stage.
LEMMA PhaseMoves ==
    ASSUME TypeOK, NEW c \in Conns, NEW t \in Stages, conn' = [conn EXCEPT ![c] = t]
    PROVE  /\ Phase[c] = PhaseName(conn[c])
           /\ Phase' = [Phase EXCEPT ![c] = PhaseName(t)]
  <1>1. Phase' = [d \in Conns |-> PhaseName(conn'[d])] BY DEF Phase, PhaseName
  <1>2. QED BY <1>1, PhaseIs DEF TypeOK

\* The server has not stopped cleanly when a step of a live connection or of
\* the accept loop is possible.
LEMMA NotOver ==
    ASSUME StageInv, StopInv,
           \/ acceptor = "accepting"
           \/ \E c \in Conns : conn[c] \notin {"none", "gone"} \/ writer[c] = "running"
    PROVE  stop # "clean"
  BY DEF StageInv, StopInv, Working

\* A step that a player cannot see.
Unseen == UNCHANGED <<Phase, owner, sent, (stop = "clean")>>

\* Steps of handleConn and of the accept loop that take one connection to
\* another stage and change nothing else a player sees.
LEMMA StageRefines ==
    ASSUME TypeOK, StageInv, StopInv, NoOrphanRocket, NEW c \in Conns,
           UNCHANGED <<sent, stop, owner>>,
           Accept(c) \/ HelloOk(c) \/ HelloFail(c) \/ SendWelcome(c) \/ AddClient(c)
           \/ CountClient(c) \/ ReadEnd(c) \/ CloseDone(c) \/ DeleteClient(c)
           \/ UncountClient(c) \/ Hangup(c) \/ JoinWriter(c)
    PROVE  Service!Next \/ Unseen
  <1> USE DEF Stages
  <1>1. stop # "clean"
    BY NotOver DEF Accept, HelloOk, HelloFail, SendWelcome, AddClient, CountClient, ReadEnd,
         CloseDone, DeleteClient, UncountClient, Hangup, JoinWriter
  <1>2. ASSUME NEW t \in Stages, conn' = [conn EXCEPT ![c] = t],
               PhaseName(t) = PhaseName(conn[c])
        PROVE  Unseen
    <2>0. Phase[c] = PhaseName(conn[c]) /\ Phase' = [Phase EXCEPT ![c] = PhaseName(t)]
      BY <1>2, PhaseMoves
    <2>1. Phase' = [Phase EXCEPT ![c] = Phase[c]] BY <1>2, <2>0
    <2>2. Phase' = Phase BY <2>1 DEF Phase
    <2>3. QED BY <2>2 DEF Unseen
  <1>3. ASSUME NEW t \in Stages, conn' = [conn EXCEPT ![c] = t]
        PROVE  /\ Service!Goes(c, PhaseName(conn[c]), PhaseName(t))
               /\ UNCHANGED owner
    BY ZenonT(40), <1>3, PhaseMoves DEF Service!Goes
  <1>4. CASE HelloOk(c) \/ SendWelcome(c) \/ CountClient(c) \/ ReadEnd(c) \/ CloseDone(c)
             \/ UncountClient(c) \/ Hangup(c)
    BY <1>2, <1>4, PhaseNames
    DEF HelloOk, SendWelcome, CountClient, ReadEnd, CloseDone, UncountClient, Hangup
  <1>5. CASE Accept(c)
    <2>1. Service!Knock(c) BY <1>3, <1>5, PhaseNames DEF Accept, Service!Knock
    <2>2. QED BY <1>1, <2>1 DEF Service!Next
  <1>6. CASE HelloFail(c)
    <2>1. Service!Refuse(c) BY <1>3, <1>6, PhaseNames DEF HelloFail, Service!Refuse
    <2>2. QED BY <1>1, <2>1 DEF Service!Next
  <1>7. CASE AddClient(c)
    <2>1. Service!Join(c) BY <1>3, <1>7, PhaseNames DEF AddClient, Service!Join
    <2>2. QED BY <1>1, <2>1 DEF Service!Next
  <1>8. CASE DeleteClient(c)
    <2>1. Service!Leave(c) BY <1>3, <1>8, PhaseNames DEF DeleteClient, Service!Leave
    <2>2. QED BY <1>1, <2>1 DEF Service!Next
  <1>9. CASE JoinWriter(c)
    <2>1. \A r \in Rockets : owner[r] # c
      BY <1>9, NoOwnerFresh DEF JoinWriter, NoOrphanRocket, Piloting
    <2>2. Service!Depart(c) BY <1>3, <1>9, <2>1, PhaseNames DEF JoinWriter, Service!Depart
    <2>3. QED BY <1>1, <2>2 DEF Service!Next
  <1>10. QED BY <1>4, <1>5, <1>6, <1>7, <1>8, <1>9

\* Steps that take or free rockets.
LEMMA RocketRefines ==
    ASSUME TypeOK, StageInv, StopInv, NEW c \in Conns,
           ReleaseRockets(c) \/ \E r \in Rockets : ReadBoard(c, r) \/ ReadExit(c, r)
    PROVE  Service!Next
  <1>1. stop # "clean"
    BY NotOver DEF ReleaseRockets, ReadBoard, ReadExit, CanRead
  <1>2. ASSUME NEW r \in Rockets, ReadBoard(c, r)
        PROVE  Service!Next
    <2>1. UNCHANGED <<Phase, sent, stop>> BY <1>2 DEF ReadBoard, Phase, connVars
    <2>2. Phase[c] = "served" BY <1>2, PhaseIs, PhaseNames DEF ReadBoard, CanRead
    <2>3. Service!Board(c, r) BY <1>2, <2>1, <2>2 DEF ReadBoard, Service!Board
    <2>4. QED BY <1>1, <2>3 DEF Service!Next
  <1>3. ASSUME NEW r \in Rockets, ReadExit(c, r)
        PROVE  Service!Next
    <2>1. UNCHANGED <<Phase, sent, stop>> BY <1>3 DEF ReadExit, Phase, connVars
    <2>2. Phase[c] = "served" BY <1>3, PhaseIs, PhaseNames DEF ReadExit, CanRead
    <2>3. Service!Alight(c, r) BY <1>3, <2>1, <2>2 DEF ReadExit, Service!Alight
    <2>4. QED BY <1>1, <2>3 DEF Service!Next
  <1>4. CASE ReleaseRockets(c)
    <2>1. conn' = [conn EXCEPT ![c] = "hangup"] /\ conn[c] = "releasing"
      BY <1>4 DEF ReleaseRockets
    <2>2. Phase[c] = "leaving" /\ Phase' = [Phase EXCEPT ![c] = "leaving"]
      <3>1. "hangup" \in Stages BY DEF Stages
      <3>2. /\ Phase[c] = PhaseName(conn[c])
            /\ Phase' = [Phase EXCEPT ![c] = PhaseName("hangup")]
        BY <2>1, <3>1, PhaseMoves
      <3>3. QED BY <2>1, <3>2, PhaseNames, Zenon
    <2>3. Phase' = Phase BY <2>2 DEF Phase
    <2>4. Service!Release(c) BY <1>4, <2>2, <2>3 DEF ReleaseRockets, Service!Release
    <2>5. QED BY <1>1, <2>4 DEF Service!Next
  <1>5. QED BY <1>2, <1>3, <1>4

\* A frame that is written is the one the lobby has next, or one beyond the
\* history.
LEMMA WriteRefines ==
    ASSUME TypeOK, StageInv, StopInv, GreetInv, NewsInv, NEW c \in Conns, WriteOk(c)
    PROVE  Service!Next \/ Unseen
  <1>1. /\ queue[c] \in Seq(Kinds) /\ queue[c] # <<>> /\ sent[c] \in Seq(Kinds)
        /\ writer[c] = "running"
        /\ UNCHANGED <<Phase, owner, stop>>
    BY DEF WriteOk, TypeOK, Phase, serverVars
  <1>2. stop # "clean" BY <1>1, NotOver
  <1>3. CASE ~(Len(sent[c]) < Kept)
    <2>1. sent' = sent BY <1>3 DEF WriteOk, TypeOK
    <2>2. QED BY <1>1, <2>1 DEF Unseen
  <1>4. CASE Len(sent[c]) < Kept
    <2>1. conn[c] \in (Listed \cup Piloting \cup {"hangup", "joining"})
      BY <1>1 DEF TypeOK, StageInv, Stages, Listed, Piloting
    <2>2. Phase[c] \in {"served", "leaving"}
      BY <2>1, PhaseIs, PhaseNames DEF Listed, Piloting
    <2>3. Head(queue[c]) = Service!Message(Len(sent[c]))
      <3>1. Len(sent[c]) \in Nat /\ 1 \in 1..Len(queue[c]) /\ Head(queue[c]) = queue[c][1]
        BY <1>1
      <3>2. CASE Len(sent[c]) = 0
        <4>1. sent[c] = <<>> BY <1>1, <3>2, EmptySeq
        <4>2. QED BY <1>1, <2>1, <3>1, <3>2, <4>1 DEF GreetInv, Service!Message
      <3>3. CASE Len(sent[c]) = 1
        BY <1>1, <2>1, <3>1, <3>3 DEF GreetInv, Service!Message
      <3>4. CASE Len(sent[c]) >= 2
        <4>1. 1 + Len(sent[c]) > 2 BY <3>1, <3>4
        <4>2. queue[c][1] = "news"
          <5>1. \A i \in 1..Len(queue[c]) : i + Len(sent[c]) > 2 => queue[c][i] = "news"
            BY <1>1 DEF NewsInv
          <5>2. QED BY <3>1, <4>1, <5>1
        <4>3. Len(sent[c]) # 0 /\ Len(sent[c]) # 1
          <5>1. \A n \in Nat : n >= 2 => n # 0 /\ n # 1 OBVIOUS
          <5>2. QED BY <3>1, <3>4, <5>1, Zenon
        <4>4. QED BY <3>1, <4>2, <4>3 DEF Service!Message
      <3>5. QED BY <3>1, <3>2, <3>3, <3>4, SmallNat
    <2>4. sent' = [sent EXCEPT ![c] = Append(sent[c], Service!Message(Len(sent[c])))]
      BY <1>4, <2>3 DEF WriteOk
    <2>5. Service!Hear(c) BY <1>1, <1>4, <2>2, <2>4 DEF Service!Hear
    <2>6. QED BY <1>2, <2>5 DEF Service!Next
  <1>5. QED BY <1>3, <1>4

\* Every step of the server is a step of the lobby or unseen by the players.
LEMMA StepRefines ==
    ASSUME IndInv, NewsInv, Next
    PROVE  Service!Next \/ Unseen
  <1> USE DEF IndInv
  <1>1. ASSUME NEW c \in Conns,
               Accept(c) \/ HelloOk(c) \/ HelloFail(c) \/ SendWelcome(c) \/ AddClient(c)
               \/ CountClient(c) \/ ReadEnd(c) \/ CloseDone(c) \/ DeleteClient(c)
               \/ UncountClient(c) \/ Hangup(c) \/ JoinWriter(c)
        PROVE  Service!Next \/ Unseen
    <2>1. UNCHANGED <<sent, stop, owner>>
      BY <1>1 DEF Accept, HelloOk, HelloFail, SendWelcome, AddClient, CountClient, ReadEnd,
           CloseDone, DeleteClient, UncountClient, Hangup, JoinWriter, serverVars
    <2>2. QED BY <1>1, <2>1, StageRefines
  <1>2. ASSUME NEW c \in Conns,
               ReleaseRockets(c) \/ \E r \in Rockets : ReadBoard(c, r) \/ ReadExit(c, r)
        PROVE  Service!Next \/ Unseen
    BY <1>2, RocketRefines
  <1>3. ASSUME NEW c \in Conns, WriteOk(c)
        PROVE  Service!Next \/ Unseen
    BY <1>3, WriteRefines
  <1>4. ASSUME NEW c \in Conns,
               ReadReply(c) \/ ReadChat(c) \/ WriteFail(c) \/ WriterStop(c) \/ PeerLeaves(c)
        PROVE  Service!Next \/ Unseen
    <2>1. UNCHANGED <<conn, owner, sent, stop>>
      BY <1>4 DEF ReadReply, ReadChat, WriteFail, WriterStop, PeerLeaves, serverVars
    <2>2. QED BY <2>1 DEF Unseen, Phase
  <1>5. CASE AcceptorExit \/ TickLoop
    <2>1. UNCHANGED <<conn, owner, sent, stop>>
      BY <1>5 DEF AcceptorExit, TickLoop, TickStart, TickBroadcast, TickExit, connVars
    <2>2. QED BY <2>1 DEF Unseen, Phase
  <1>6. CASE StopReturn
    <2>1. \A c \in Conns : conn[c] \in {"none", "gone"} BY <1>6 DEF StopReturn, Working
    <2>2. \A c \in Conns : Phase[c] \in {"away", "gone"}
      BY <2>1, PhaseIs, PhaseNames
    <2>3. /\ stop # "clean" /\ stop' = "clean"
          /\ UNCHANGED <<Phase, owner, sent>>
      BY <1>6 DEF StopReturn, connVars, Phase
    <2>4. Service!Close BY <2>2, <2>3 DEF Service!Close
    <2>5. QED BY <2>3, <2>4 DEF Service!Next
  <1>7. CASE StopSignal \/ StopListener \/ StopConns \/ StopTimeout
    <2>1. /\ UNCHANGED <<conn, owner, sent>>
          /\ stop # "clean" /\ stop' # "clean"
      BY <1>7 DEF StopSignal, StopListener, StopConns, StopTimeout, connVars
    <2>2. Phase' = Phase BY <2>1 DEF Phase
    <2>3. QED BY <2>1, <2>2 DEF Unseen
  <1>8. QED
    BY <1>1, <1>2, <1>3, <1>4, <1>5, <1>6, <1>7
    DEF Next, HandleConn, WriteLoop, Stop

\* The session layer implements the lobby: whatever the interleaving of
\* handleConn, writeLoop, tickLoop and Stop, players are served as Lobby says.
THEOREM SessionsServePlayers == Spec => ServesPlayers
  <1>1. Init => Service!Init
    <2> SUFFICES ASSUME Init PROVE Service!Init OBVIOUS
    <2>1. Phase = [c \in Conns |-> "away"] BY PhaseIs, PhaseNames DEF Init
    <2>2. QED BY <2>1 DEF Init, Service!Init
  <1>2. IndInv /\ NewsInv /\ [Next]_vars => [Service!Next]_(Service!lobbyVars)
    <2> SUFFICES ASSUME IndInv, NewsInv, [Next]_vars
                 PROVE  [Service!Next]_(Service!lobbyVars)
      OBVIOUS
    <2>1. Unseen => UNCHANGED Service!lobbyVars BY DEF Unseen, Service!lobbyVars
    <2>2. CASE Next BY <2>1, <2>2, StepRefines
    <2>3. CASE UNCHANGED vars BY <2>1, <2>3 DEF vars, Unseen, Phase
    <2>4. QED BY <2>2, <2>3
  <1>3. QED BY <1>1, <1>2, Invariance, NewsBehindGreeting, PTL
        DEF Spec, ServesPlayers, Service!Spec

-----------------------------------------------------------------------------
(* Nobody waits in vain *)

\* The stages of handleConn after unregisterClient has closed Client.done, and
\* those in which the writer was started.
Told == {"deleting", "uncounting", "releasing", "hangup", "joining"}
Started == Told \cup {"reading", "closing"}

\* Who is waited for has been told to end.
ToldInv ==
    /\ \A c \in Conns : /\ conn[c] \in Told => c \in cdone
                        /\ conn[c] \in Started => writer[c] # "off"
    /\ stop # "no" => sdone
    /\ stop \notin {"no", "signalled"} => ~listening

\* When handleConn waits for its writer, the writer has ended or finds its
\* Client.done closed and its socket closed; when Stop waits, the accept loop,
\* the tick loop and the writers have been told, and no connection comes any
\* more.
WaitsForTold ==
    /\ \A c \in Conns : conn[c] = "joining" =>
            writer[c] = "exited" \/ (writer[c] = "running" /\ c \in cdone /\ sock[c] = "closed")
    /\ stop = "waiting" => sdone /\ ~listening

\* Every step keeps ToldInv.
LEMMA ToldStep ==
    ASSUME TypeOK, ToldInv, [Next]_vars
    PROVE  ToldInv'
  <1> USE DEF TypeOK, ToldInv, Told, Started, connVars, serverVars
  <1>1. ASSUME UNCHANGED <<conn, writer, cdone, stop, sdone, listening>> PROVE ToldInv'
    BY <1>1
  <1>2. ASSUME NEW c \in Conns, Accept(c) \/ HelloOk(c) \/ HelloFail(c) \/ SendWelcome(c)
                                  \/ AddClient(c)
        PROVE  ToldInv'
    BY <1>2 DEF Accept, HelloOk, HelloFail, SendWelcome, AddClient
  <1>3. ASSUME NEW c \in Conns, CountClient(c) PROVE ToldInv' BY <1>3 DEF CountClient
  <1>4. ASSUME NEW c \in Conns, ReadReply(c) \/ ReadChat(c)
                                  \/ (\E r \in Rockets : ReadBoard(c, r) \/ ReadExit(c, r))
                                  \/ WriteOk(c) \/ PeerLeaves(c)
        PROVE  UNCHANGED <<conn, writer, cdone, stop, sdone, listening>>
    BY <1>4 DEF ReadReply, ReadChat, ReadBoard, ReadExit, WriteOk, PeerLeaves
  <1>5. ASSUME NEW c \in Conns, ReadEnd(c) \/ DeleteClient(c) \/ UncountClient(c)
        PROVE  ToldInv'
    BY <1>5 DEF ReadEnd, DeleteClient, UncountClient
  <1>6. ASSUME NEW c \in Conns, CloseDone(c) PROVE ToldInv' BY <1>6 DEF CloseDone
  <1>7. ASSUME NEW c \in Conns, ReleaseRockets(c) \/ Hangup(c) \/ JoinWriter(c)
        PROVE  ToldInv'
    BY <1>7 DEF ReleaseRockets, Hangup, JoinWriter
  <1>8. ASSUME NEW c \in Conns, WriteFail(c) \/ WriterStop(c) PROVE ToldInv'
    BY <1>8 DEF WriteFail, WriterStop
  <1>9. ASSUME AcceptorExit \/ TickLoop
        PROVE  UNCHANGED <<conn, writer, cdone, stop, sdone, listening>>
    BY <1>9 DEF AcceptorExit, TickLoop, TickStart, TickBroadcast, TickExit
  <1>10. ASSUME Stop PROVE ToldInv'
    <2>1. UNCHANGED <<conn, writer, cdone>>
      BY <1>10 DEF Stop, StopSignal, StopListener, StopConns, StopReturn, StopTimeout
    <2>2. /\ stop' # "no" => sdone'
          /\ stop' \notin {"no", "signalled"} => ~listening'
      BY <1>10 DEF Stop, StopSignal, StopListener, StopConns, StopReturn, StopTimeout
    <2>3. QED BY <2>1, <2>2
  <1>11. CASE UNCHANGED vars BY <1>1, <1>11 DEF vars
  <1>12. CASE Next
    BY <1>1, <1>2, <1>3, <1>4, <1>5, <1>6, <1>7, <1>8, <1>9, <1>10, <1>12
    DEF Next, HandleConn, WriteLoop
  <1>13. QED BY <1>11, <1>12

\* handleConn joins its writer and Stop its goroutines without waiting for one
\* that nobody told to end, however full its queue and whatever its peer does
\* (unregisterClient, <-writerDone, wg.Wait): the safety half of
\* DeadConnForgotten.
THEOREM WaitsEnd == Spec => []WaitsForTold
  <1>1. Init => ToldInv BY DEF Init, ToldInv, Told, Started
  <1>2. IndInv /\ ToldInv /\ [Next]_vars => ToldInv' BY ToldStep DEF IndInv
  <1>3. IndInv /\ ToldInv => WaitsForTold
    <2> SUFFICES ASSUME IndInv, ToldInv PROVE WaitsForTold OBVIOUS
    <2>1. ASSUME NEW c \in Conns, conn[c] = "joining"
          PROVE  writer[c] = "exited"
                   \/ (writer[c] = "running" /\ c \in cdone /\ sock[c] = "closed")
      <3>1. c \in cdone /\ writer[c] # "off" BY <2>1 DEF ToldInv, Told, Started
      <3>2. sock[c] = "closed" BY <2>1 DEF IndInv, StageInv
      <3>3. writer[c] \in {"off", "running", "exited"} BY DEF IndInv, TypeOK
      <3>4. QED BY <3>1, <3>2, <3>3
    <2>2. stop = "waiting" => sdone /\ ~listening BY DEF ToldInv
    <2>3. QED BY <2>1, <2>2 DEF WaitsForTold
  <1>4. QED BY <1>1, <1>2, <1>3, Invariance, PTL DEF Spec

=============================================================================
