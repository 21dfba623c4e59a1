SPECIFICATION Spec
CONSTANTS
    d = d
    t = t
    u = u
    Places = {d, t, u}
    Default = d
    NoPlace = NoPlace
    NoFolder = NoFolder
    NoPointer = NoPointer
    MaxWrites = 2
    MaxMoves = 2
    MaxCrashes = 0
    MaxFailures = 1
    MaxMissing = 0
SYMMETRY Symmetry
PROPERTIES KeptUntilDeleted
