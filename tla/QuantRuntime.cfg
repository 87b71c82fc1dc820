CONSTANTS
    s1 = s1
    s2 = s2
    retry = retry
    cancel = cancel
    trigger = trigger
    bogus = bogus
    d1 = d1
    d2 = d2
    k1 = k1
    k2 = k2
    Commands = {s1, s2, retry, trigger}
    Kind <- Kinds
    Key <- Keys
    Target <- Targets
    DayOf <- FirstDay
    Calendar <- OneDay
    TradingDays = {d1}
    FireMissed = TRUE
    MaxReviews = 2
    MaxFaults = 1
    None = None
SPECIFICATION Spec
INVARIANTS  KeyRunsOnce NotifyBudget
PROPERTIES OccurrenceIsDecidedOnce EverythingEnds
