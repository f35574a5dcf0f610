SPECIFICATION FairSpec
CONSTANTS
    Mode = "independent"
    N = 2
    TotalBudget = 2
    BetaNum = 1
    BetaDen = 1
    GrantUnit = 1
    Scores <- MCScores
    NoScore <- MCNoScore
    Driver = "reasoning"
    SoftLayers = FALSE
    Milestones <- MCNone
    GenMilestones <- MCNone
    RoundLimits <- MCNoLimit
    MaxFaults = 1
PROPERTIES
    BaselinePauseResumes
CHECK_DEADLOCK FALSE
