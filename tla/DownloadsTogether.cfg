SPECIFICATION Spec
CONSTANTS
    Missing = Missing
    Fetchers = {"launch", "background"}
    Keepers = {"background"}
    Together = TRUE
    Size = 3
    Urls = 2
    Retries = 1
    Trusted = "Full"
    MaxFaults = 0
    MaxCalls = 2
PROPERTIES PutsRight
CHECK_DEADLOCK FALSE
