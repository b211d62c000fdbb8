SPECIFICATION FairSpec
CONSTANTS
    s1 = s1  b1 = b1  b2 = b2  f1 = f1
    Players = {1}
    Items = {"kit", "ore", "fruit", "steel"}
    Panels = {s1}
    Batteries = {b1, b2}
    Factories = {f1}
    Kind <- MCKind
    Food = {"fruit"}
    Recipes = {"steel", "stew"}
    Need <- MCNeed
    Out <- MCOut
    EnergyOf <- MCEnergyOf
    Dist <- MCDist
    LinkRadius = 5
    BatteryMax = 2
    None = None
    TickRate = 20
    Amounts = {2}
    MaxGiven = 4
PROPERTIES
    PanelsCharge
