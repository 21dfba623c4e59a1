SPECIFICATION Spec
CONSTANTS
    Retries = 1
    RepeatedKicks = 2
    MaxCalls = 2
    MaxSends = 0
    MaxSaves = 0
    MaxLong = 0
PROPERTIES LastCallStops
CHECK_DEADLOCK FALSE
