SPECIFICATION MountsSpec
CONSTANTS
    p1 = p1
    p2 = p2
    m1 = m1
    m2 = m2
    m3 = m3
    Riders = {p1, p2}
    Mammoths = {m1, m2}
    Males = {m1, m2}
    Wild = {m1, m2}
    Boats = {b1}
    Nobody = Nobody
    MinFed = 1
    MaxFruit = 1
    MaxFed = 0
    Saddles = 1
SYMMETRY PlayerSymmetry
INVARIANT WildIsFree
