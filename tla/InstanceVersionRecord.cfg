SPECIFICATION Spec
CONSTANTS
    a = a
    b = b
    Versions = {a, b}
    Between = Between
    Launchers = {}
    Switchers = {s1}
    Pages = {p1}
    Savers = {u1}
    Startup = Startup
    NoJournal = NoJournal
    MaxSwitches = 1
    MaxSaves = 1
    MaxInterrupts = 0
INVARIANTS RecordMatchesFolders
