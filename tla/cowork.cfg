SPECIFICATION FairSpec
CONSTANTS
    Budget = 4
    MaximumRetries = 1
    Misses = 1
    TopLevel = 2
    PreserveTrials = FALSE
    MaxFaults = 3
INVARIANTS
    HistoryIsKept
    CandidatesKept
    AttemptsBounded
PROPERTIES
    ImplementsDriver
    StepsDelivered
CHECK_DEADLOCK FALSE
