SPECIFICATION FieldsSpec
CONSTANTS
    p1 = p1  p2 = p2  r1 = r1  r2 = r2
    g1 = g1  g2 = g2  g3 = g3  g4 = g4  g5 = g5  g6 = g6
    Players = {p1, p2}
    Ids = {g1, g2, g3, g4, g5, g6}
    Items <- MCItems
    Start <- MCStart
    Houses = {h1}
    Herd = 1
    Recipes = {"spear", "house"}
    Need <- MCNeed
    Cooldown = 1
    Window = 2
    Debounce = 1
    Gifts = {"wood", "spear"}
    MaxGiven = 2
    MaxDrawn = 2
    Plenty = 1
    None = None
    Pilots = {p1, p2}
    Rockets = {r1, r2}
    Nobody = Nobody
    MaxFuel = 2
    Unit = 4
    Burns = {0, 3}
    MaxRefills = 2
CONSTRAINT Scene
CHECK_DEADLOCK FALSE
INVARIANTS
    FruitLedger
    WaterLedger
    SpearLedger
    HitsPerThrow
    FuelLedger
PROPERTIES
    WateredGrows
    FreeRests
