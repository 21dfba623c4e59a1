SPECIFICATION OrderlySpec
CONSTANTS
    Items = {near, far}
    NoItem = NoItem
    Parts = {1, 2}
    Away = {far}
    Movers = {m1, m2}
    Cap = 0
    MaxPuts = 2
    MaxEvents = 2
CHECK_DEADLOCK FALSE
INVARIANTS NothingVanishes
PROPERTIES TrashEmpties
