SPECIFICATION Spec
CONSTANTS
    Mode = "competition"
    N = 3
    TotalBudget = 6
    BetaNum = 1
    BetaDen = 2
    GrantUnit = 1
    Scores <- MCScores
    NoScore <- MCNoScore
    Driver = "reasoning"
    SoftLayers = TRUE
    Milestones <- MCNone
    GenMilestones <- MCNone
    RoundLimits <- MCNoLimit
    MaxFaults = 2
INVARIANTS
    BudgetConserved
    LedgerMatchesWork
    RecoveryIsExact
    NoBudgetStranded
PROPERTIES
    ImplementsLedger
CHECK_DEADLOCK FALSE
