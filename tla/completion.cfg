SPECIFICATION FairSpec
CONSTANTS
    Mode = "competition"
    N = 2
    TotalBudget = 3
    BetaNum = 2
    BetaDen = 3
    GrantUnit = 1
    Scores <- MCScores
    NoScore <- MCNoScore
    Driver = "reasoning"
    SoftLayers = FALSE
    Milestones <- MCBudgetMilestones
    GenMilestones <- MCGenerationMilestones
    RoundLimits <- MCLimits
    MaxFaults = 2
INVARIANTS
    CheckpointsAreSound
PROPERTIES
    Durable
    CampaignsEnd
CHECK_DEADLOCK FALSE
