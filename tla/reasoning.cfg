SPECIFICATION FairSpec
CONSTANTS
    Budget = 4
    LayerSelections <- BothSelections
    Misses = 2
    TopLevel = 2
    Tasks = {t1, t2}
    TestInterval = 2
    MaxFaults = 1
INVARIANTS
    SearchIsExact
    RecordsFollowRound
    SealedOnce
PROPERTIES
    ImplementsDriver
    ReachesEnd
CHECK_DEADLOCK FALSE
