SPECIFICATION FairSpec
CONSTANTS
    Missing = Missing
    Fetchers = {"launch", "background"}
    Keepers = {"background"}
    Together = FALSE
    Size = 3
    Urls = 2
    Retries = 1
    Trusted = "Full"
    MaxFaults = 4
    MaxCalls = 4
INVARIANTS EveryMirrorTried
PROPERTIES PutsRight FetchEnds
CHECK_DEADLOCK FALSE
