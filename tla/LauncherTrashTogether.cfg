SPECIFICATION Spec
CONSTANTS
    Items = {one, other}
    NoItem = NoItem
    Parts = {1, 2}
    Away = {one, other}
    Movers = {m1, m2}
    Cap = 0
    MaxPuts = 2
    MaxEvents = 0
CHECK_DEADLOCK FALSE
INVARIANTS NothingVanishes
