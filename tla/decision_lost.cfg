SPECIFICATION FairSpec
CONSTANTS
    Budget = 1
    LayerSelections <- BothSelections
    Misses = 2
    TopLevel = 2
    Tasks = {t1, t2}
    TestInterval = 2
    MaxFaults = 1
PROPERTIES
    DecisionsAreCommitted
CHECK_DEADLOCK FALSE
