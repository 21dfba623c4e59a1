SPECIFICATION AnySpec
CONSTANTS
    Versions = {a, b}
    NoFolder = NoFolder
    NoState = NoState
    NoVersion = NoVersion
    NoJournal = NoJournal
    MaxMade = 2
    MaxInterrupts = 2
    MaxSwitches = 2
SYMMETRY Symmetry
INVARIANTS NothingLost
PROPERTIES SetComesBackWhole
