SPECIFICATION FairSpec
CONSTANTS
    Mode = "competition"
    N = 2
    TotalBudget = 2
    BetaNum = 1
    BetaDen = 2
    GrantUnit = 1
    Scores <- MCScores
    NoScore <- MCNoScore
    Driver = "cowork"
    SoftLayers = FALSE
    Milestones <- MCNone
    GenMilestones <- MCNone
    RoundLimits <- MCNoLimit
    MaxFaults = 1
PROPERTIES
    ClosedIsReported
CHECK_DEADLOCK FALSE
