SPECIFICATION FairSpec
CONSTANTS
    MaxRead <- OneEach
    MaxData = 1
    MaxUnacked = 1
    AckEvery = 2
    Queue = 1
    MaxStreams = 2
    Faulty = {"guest"}
INVARIANTS NothingLost NoFalseAlarm
PROPERTIES IsStream BytesArrive GameEnds AcknowledgedUnmoved
CHECK_DEADLOCK FALSE
