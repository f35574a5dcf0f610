SPECIFICATION Spec
CONSTANTS
    Generations = 3
    Seeded = {"b1", "b2"}
    Promotions = 2
    Resumes = 1
    Branches = {"b1"}
    Measures = {"x", "y"}
    Rounds = 2
    Exports = 2
    Kills = 2
    Regions = {"r1", "r2", "r3"}
    LevelPaths <- TwoLevels
    Misses = 2
    Proposals = 4
    Catalog <- ThreeRegions
    Calls = {"r1", "r2", "r3"}
    Concurrency = 2
    CallBudget = 2
    Runs = 2
    Requests = {"r1", "r2"}
    Trials = {"t1", "t2"}
    Budget = 2
    Concurrent = 1
    Retries = 1
    Attempts = 2
    Batches = 2
    Sessions = {"s1", "s2", "s3"}
    Starts = 2
    Rotations = 3
    Tasks = {"t1", "t2"}
    Sides = {"proposal"}
    Observed = 2
    Tokens = 2
    Restarts = 1
    Kept = 1
    Getters = {"g1", "g2"}
    CoreMax = 3
    OwnMax = 2
    Campaigns <- TwoCampaigns
    Workers = {"w1", "w2"}
    Pauses = 1
    Launches = 2
    MaxResumes = 1
INVARIANTS
    RunsAreWhole
    CommonBaseline
    SearchIsSound
    GatewaysAccount
    AccessIsGood
    ReportsAgree
    SuiteInCharge
CHECK_DEADLOCK FALSE
