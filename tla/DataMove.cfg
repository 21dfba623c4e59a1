SPECIFICATION Spec
CONSTANTS
    d = d
    t = t
    u = u
    Places = {d, t, u}
    Default = d
    NoPlace = NoPlace
    NoFolder = NoFolder
    NoPointer = NoPointer
    MaxWrites = 3
    MaxMoves = 3
    MaxCrashes = 1
    MaxFailures = 1
    MaxMissing = 1
SYMMETRY Symmetry
INVARIANTS WritesKept StartsWithEverything
PROPERTIES OldFoldersRemembered
