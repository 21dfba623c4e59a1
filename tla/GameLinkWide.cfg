SPECIFICATION Spec
CONSTANTS
    MaxRead <- FromHost
    MaxData = 2
    MaxUnacked = 2
    AckEvery = 2
    Queue = 1
    MaxStreams = 3
    Faulty = {}
INVARIANTS NothingLost NoFalseAlarm
PROPERTIES IsStream
CHECK_DEADLOCK FALSE
