SPECIFICATION Spec
CONSTANTS
    hostile = hostile  collector = collector  pink = pink
    g1 = g1  g2 = g2  g3 = g3  g4 = g4  g5 = g5  g6 = g6  p1 = p1  p2 = p2  x1 = x1  x2 = x2
    Players = {p1, p2}
    Mobs = {collector, pink}
    Kind <- MCKind
    StartHP <- MCStartHP
    Ids = {g1, g2, g3, g4, g5, g6}
    StartFruit = {g1, g2, g3}
    Projs = {x1}
    Nobody = Nobody
    None = None
    GatherTarget = 2
    GuardPrice = 1
    HostileDrop = 1
    Damage = 2
    PlayerHP = 3
    TTL = 0
    MaxGiven = 1
INVARIANTS
    GoodsConserved
PROPERTIES
    ContractKept
SYMMETRY Symmetry
