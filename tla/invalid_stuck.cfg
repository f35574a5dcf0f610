SPECIFICATION FairSpec
CONSTANTS
    Budget = 1
    MaximumRetries = 1
    Misses = 2
    TopLevel = 1
    PreserveTrials = TRUE
    MaxFaults = 1
PROPERTIES
    InvalidBecomesGeneration
CHECK_DEADLOCK FALSE
