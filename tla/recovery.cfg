SPECIFICATION FairSpec
CONSTANTS
    Mode = "combined"
    N = 3
    TotalBudget = 3
    BetaNum = 0
    BetaDen = 1
    GrantUnit = 2
    Scores <- MCScores
    NoScore <- MCNoScore
    Driver = "cowork"
    SoftLayers = FALSE
    Milestones <- MCNone
    GenMilestones <- MCNone
    RoundLimits <- MCNoLimit
    MaxFaults = 2
INVARIANTS
    TypeOK
PROPERTIES
    BaselinePauseResumes
CHECK_DEADLOCK FALSE
