SPECIFICATION Spec
CONSTANTS
    Tasks = {t1}
    AllowedCapabilities = {"read", "notify"}
    SafeCapabilities = {"read"}
    PlanBudget = 1
    DailyRemaining = 1
    MaxNodeDuration = 1
    Effects = {"IDEMPOTENT", "QUERYABLE", "NON_REPLAYABLE"}
    Plans <- MCPlans
    Identities <- MCIdentities
    MaxAttempts = 2
    MaxInterrupts = 2
    MaxRequests = 2
    Evaluators = {e1}
    Evidence = {x1}
    MaxOutcomes = 2
INVARIANTS
    OutcomesAreSound
    

    
CHECK_DEADLOCK FALSE
