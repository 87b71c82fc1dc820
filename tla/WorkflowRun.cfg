CONSTANTS
    p = p
    x = x
    y = y
    q = q
    u = u
    Main = Main
    Order <- TheOrder
    Deps <- TheDeps
    Kind <- TheKind
    Branches <- TheBranches
    Selects <- TheSelects
    Policies = {"fail_fast", "collect_all", "min_success"}
    MinSuccess <- OneBranch
    MaxAttempts <- TwoForX
    NodeLimited = {p, y, q}
    MaxParallelism = 1
SPECIFICATION Spec
INVARIANTS RunIsHonest
PROPERTIES ExecuteReturns
CHECK_DEADLOCK FALSE
