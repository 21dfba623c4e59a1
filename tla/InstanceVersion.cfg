SPECIFICATION FairSpec
CONSTANTS
    a = a
    b = b
    Versions = {a, b}
    Between = Between
    Launchers = {l1, l2}
    Switchers = {s1}
    Pages = {p1}
    Savers = {p1}
    Startup = Startup
    NoJournal = NoJournal
    MaxSwitches = 1
    MaxSaves = 1
    MaxInterrupts = 2
INVARIANTS WholeFolders
PROPERTIES FoldersStill SwitchEndsAtTarget NobodyWaitsForever
