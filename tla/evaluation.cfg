SPECIFICATION Spec
CONSTANTS
    Preparers = {"p1", "p2", "p3"}
    Nobody = "nobody"
    Campaigns = {"a", "b"}
    Programs = {"baseline", "c1", "c2"}
    Baseline = "baseline"
    DigestOf <- TwoAlike
    SlimOf = {"c1"}
    Tasks = {"t1", "t2"}
    Concurrency = 2
    Retries = 1
    PausePolicy = FALSE
    Identities = {"i1", "i2"}
    MaxTrialStarts = 3
    Requests = 2
    MaxTaskStarts = 2
    MaxSessions = 2
    Instances = {"i1", "i2"}
    Sealed = "s1"
    Records <- SomeRecords
    Policies <- SomePolicies
    Rounds = 1
    Jobs = {"j1", "j2"}
    Candidates = {"c1", "c2"}
    Trained = {"c1"}
    Launches = 3
    Edits = 2
    Pops = {"p"}
    Finalizers = {"f1", "f2"}
    MaxLaunches = 3
    MaxStep = 4
    MaxSteps = 2
    MaxRuns = 4
INVARIANTS
    PreparedIsWhole
    SamplesBounded
    SummaryIsComplete
    VerdictsAreEarned
    CompleteIsMeasured
    FinalIsSound
PROPERTIES
    CommittedStays
CHECK_DEADLOCK FALSE
