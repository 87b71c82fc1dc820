CONSTANTS
    p = p
    x = x
    y = y
    q = q
    u = u
    Main = Main
    Order <- TheOrder
    Deps <- TheDeps
    Kind <- TheKind
    Branches <- TheBranches
    Selects <- TheSelects
    Policies = {"collect_all"}
    MinSuccess <- OneBranch
    MaxAttempts <- TwoForX
    NodeLimited = {}
    MaxParallelism = 1
SPECIFICATION Spec
PROPERTIES NoStartAfterEnd
CHECK_DEADLOCK FALSE
