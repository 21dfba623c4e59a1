SPECIFICATION Spec
CONSTANTS
    Ids = {i1}
    NoId = NoId
    Refreshers = {r1, r2}
    Limit <- NothingFails
INVARIANTS OneRefreshEach
CHECK_DEADLOCK FALSE
