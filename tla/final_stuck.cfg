SPECIFICATION Spec
CONSTANTS
    Pops = {p}
    Finalizers = {f1, f2}
    MaxLaunches = 3
INVARIANTS
    NeverStranded
CHECK_DEADLOCK FALSE
