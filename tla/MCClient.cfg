SPECIFICATION ClientSpec
CONSTANTS
    ping = ping
    MaxSessions = 2
    Loops = {ping}
    TeleportCap = 1
    HistMax = 3
    Sub = 2
    Steps = {1, 3}
    Back = 3
    MaxGap = 2
    MaxTick = 4
    MaxRuns = 2
    Mammoths = {m1}
    Boats = {b1}
    Rockets = {r1, r2}
    None = None
    MaxKeys = 2
    WireCap = 2
    Loose = Loose
    Spawn = 1
    Landing = 2
    Pad = 3
    FirstEarth = 10
    LastEarth = 12
    LastPlace = 3
    Items = {i1, i2}
    Empty = Empty
    Slots = 3
    Hot = 2
    SelectCap = 1
CONSTRAINT Scene
CHECK_DEADLOCK FALSE
INVARIANTS
    QuietAfterDisconnect
    EarthInPlace
    RestartRecovers
    MouseLook
    SeatAgrees
    PlaceKept
    SlotsMatch
PROPERTIES
    NoStaleSnapshot
    RespawnIsFresh
    DisconnectReturns
    LossNoticed
    EarthForward
    ProxyUnwinds
