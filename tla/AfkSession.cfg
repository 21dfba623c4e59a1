SPECIFICATION OrderlySpec
CONSTANTS
    Retries = 1
    RepeatedKicks = 2
    MaxCalls = 2
    MaxSends = 1
    MaxSaves = 1
    MaxLong = 1
INVARIANTS PasswordFileGoes ShownTruly LimitsHold
PROPERTIES OneClient LastCallStops GoesOn
CHECK_DEADLOCK FALSE
