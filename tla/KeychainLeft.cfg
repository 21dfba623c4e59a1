SPECIFICATION KeySpec
CONSTANTS
    long1 = long1
    long2 = long2
    short = short
    Nothing = Nothing
    Damaged = Damaged
    Sessions <- ThreeSessions
    Parts <- MixedParts
    MaxParts = 3
    Attempts = 3
    Failing = {"remove"}
    MaxCalls = 3
    MaxStops = 0
PROPERTIES LeftoversGo
CHECK_DEADLOCK FALSE
