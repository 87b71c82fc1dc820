SPECIFICATION Spec
CONSTANTS
    v0 = v0
    v1 = v1
    v2 = v2
    Versions = {v0, v1, v2}
    Parents <- MCParents
    MaxDepth = 2
    Calls = {p, q}
    Initial = v0
    Selected = {v1, v2}
    Observations = {o1, o2}
    Minimum <- MCMinimum
    Seen = {"good", "risk"}
    MaxInterrupts = 1
    MaxOperator = 1
SYMMETRY Symmetry
CHECK_DEADLOCK FALSE
INVARIANTS PromotionIsSound
PROPERTIES ImplementsVersionLife
