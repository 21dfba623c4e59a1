SPECIFICATION FairSpec
CONSTANTS
    Versions = {a, b}
    NoFolder = NoFolder
    NoState = NoState
    NoVersion = NoVersion
    NoJournal = NoJournal
    MaxMade = 2
    MaxInterrupts = 1
    MaxSwitches = 3
INVARIANTS EachToItsOwn SwitchComplete RecordsMatchSets
PROPERTIES KeepsPromise SharedRecordsKept SwitchFinishes
