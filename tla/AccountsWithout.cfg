SPECIFICATION Spec
CONSTANTS
    Ids = {i1, i2}
    NoId = NoId
    Refreshers = {r1}
    Limit <- ListRefuses
INVARIANTS NeverWithout
CHECK_DEADLOCK FALSE
