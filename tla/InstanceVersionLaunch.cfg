SPECIFICATION Spec
CONSTANTS
    a = a
    b = b
    Versions = {a, b}
    Between = Between
    Launchers = {l1}
    Switchers = {s1}
    Pages = {}
    Savers = {}
    Startup = Startup
    NoJournal = NoJournal
    MaxSwitches = 1
    MaxSaves = 0
    MaxInterrupts = 0
INVARIANTS GamesMatchFolders
