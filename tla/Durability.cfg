SPECIFICATION Spec
CONSTANTS
    Calls = {c1, c2}
    Generations = {g1, g2}
    MaxConcurrency = 1
INVARIANTS
    ClaimCoversWork
    CallsHonest
PROPERTIES
    EveryCallEnds
CHECK_DEADLOCK FALSE
