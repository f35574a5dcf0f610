SPECIFICATION Spec
CONSTANTS
    Branches = {b1, b2}
    Generations = 1
    Resumes = 1
INVARIANTS
    ForkStartsFromSeed
CHECK_DEADLOCK FALSE
