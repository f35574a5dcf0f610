SPECIFICATION FairSpec
CONSTANTS
    Mode = "independent"
    N = 2
    TotalBudget = 2
    BetaNum = 1
    BetaDen = 1
    GrantUnit = 1
    Scores <- MCScores
    NoScore <- MCNoScore
    Driver = "reasoning"
    SoftLayers = TRUE
    Milestones <- MCNone
    GenMilestones <- MCNone
    RoundLimits <- MCNoLimit
    MaxFaults = 1
PROPERTIES
    ClosesWhenAllStopped
CHECK_DEADLOCK FALSE
