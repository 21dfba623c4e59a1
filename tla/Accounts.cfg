SPECIFICATION FairSpec
CONSTANTS
    Ids = {i1, i2}
    NoId = NoId
    Refreshers = {r1, r2}
    Limit <- FewCalls
INVARIANTS ListedOnce NoSessionLeft SessionStays OneRefresh
PROPERTIES CallsEnd
CHECK_DEADLOCK FALSE
