SPECIFICATION Spec
CONSTANTS
    Versions = {a, b}
    NoFolder = NoFolder
    NoState = NoState
    NoVersion = NoVersion
    NoJournal = NoJournal
    MaxMade = 2
    MaxInterrupts = 1
    MaxSwitches = 3
SYMMETRY Symmetry
INVARIANTS EachToItsOwn
