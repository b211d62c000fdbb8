SPECIFICATION WorksSpec
CONSTANTS
    s1 = s1  b1 = b1  b2 = b2  f1 = f1
    Players = {1, 2}
    Items = {"kit", "ore", "fruit", "steel"}
    Panels = {s1}
    Batteries = {b1, b2}
    Factories = {f1}
    Kind <- MCKind
    Food = {"fruit"}
    Recipes = {"steel", "stew"}
    Need <- MCNeed
    Out <- MCOut
    EnergyOf <- MCEnergyOf
    Dist <- MCDist
    LinkRadius = 5
    BatteryMax = 3
    None = None
    TickRate = 5
    Amounts = {2}
    MaxGiven = 5
    p1 = p1  p2 = p2  m1 = m1  m2 = m2  m3 = m3
    Riders = {p1, p2}
    Mammoths = {m1, m2, m3}
    Males = {m1}
    Wild = {m1, m2}
    Boats = {b1}
    Nobody = Nobody
    MinFed = 1
    MaxFruit = 1
    MaxFed = 2
    Saddles = 2
CONSTRAINT HerdScene
INVARIANTS
    OneMount
    SaddlesConserved
    BirthsPaid
    TypeOK
    CraftCovered
    EnergyLedger
    MaterialsLedger
PROPERTIES
    PanelsCharge
    DepartedForgotten
