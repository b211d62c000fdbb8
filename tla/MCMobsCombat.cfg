SPECIFICATION FairSpec
CONSTANTS
    hostile = hostile  collector = collector  pink = pink
    g1 = g1  g2 = g2  g3 = g3  g4 = g4  g5 = g5  g6 = g6  p1 = p1  p2 = p2  x1 = x1  x2 = x2
    Players = {p1}
    Mobs = {hostile, pink}
    Kind <- MCKind
    StartHP <- MCStartHP
    Ids = {g1, g2}
    StartFruit = {}
    Projs = {x1,x2}
    Nobody = Nobody
    None = None
    GatherTarget = 1
    GuardPrice = 1
    HostileDrop = 1
    Damage = 2
    PlayerHP = 3
    TTL = 1
    MaxGiven = 2
PROPERTIES
    GuardReleased
    ProjectilesEnd
INVARIANTS
    GoodsConserved
