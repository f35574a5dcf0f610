SPECIFICATION Spec
CONSTANTS
    Procs = {p1, p2, p3}
    Nobody = Nobody
INVARIANTS
    AtMostOneHolder
CHECK_DEADLOCK FALSE
