SPECIFICATION FairSpec
CONSTANTS
    c1 = c1
    c2 = c2
    Conns = {c1, c2}
    Rockets = {r1}
    NoOwner = NoOwner
    SendBuf = 2
    Kept = 2
CONSTRAINT Scene
CHECK_DEADLOCK FALSE
INVARIANTS GaugeTracksRegistry NoOrphanRocket CleanStop
PROPERTIES ServesPlayers DeadConnForgotten TickGoesOn
