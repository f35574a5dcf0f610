SPECIFICATION FairSpec
CONSTANTS
    Procs = {"p1", "p2"}
    Nobody = "nobody"
    Workers = {"w1", "w2", "w3", "w4"}
    Processes = {"a", "b"}
    ProcessOf <- OneApart
    Mortal = {"b"}
    Limit = 2
    NoOwner = "nobody"
    Kids = {"k1", "k2"}
    Readers = {"r1", "r2"}
    NoKid = "nokid"
    MaxDowns = 2
    SampleLimit = 3
INVARIANTS
    HoldersApart
    PermitsBounded
    CompletedIsTrue
PROPERTIES
    ClaimsAreServed
    ProcessesComeToRest
CHECK_DEADLOCK FALSE
