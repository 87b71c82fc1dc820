SPECIFICATION Spec
CONSTANTS
    Parts = {"path", "sole", "concurrent", "supervisor"}
    e1 = e1
    e2 = e2
    e3 = e3
    k1 = k1
    m1 = m1
    m2 = m2
    m3 = m3
    p1 = p1
    p2 = p2
    s1 = s1
    s2 = s2
    src1 = src1
    src2 = src2
    kA = kA
    a = a
    b = b
    c = c
    Workers = {"serve"}
    Messages = {e1, e2}
    NoMessage = NoMessage
    Key <- OneKey
    NoKey = NoKey
    Exhausted = {}
    MaxAttempts = 2
    MaxInterrupts = 2
    Source <- OneSource
    BatchSize = 2
    Publishers = {p1, p2}
    Outgoing <- TwoFeeds
    Subs = {s1, s2}
    BusMessages = {m1, m2, m3}
    SourceOf <- Feed
    Priority <- Urgency
    Wants <- MostOfIt
    Capacity <- TwoAndOne
    Policy <- WaitThenCoalesce
    Coalesce <- ByInstrument
    NoCoalesceKey = NoCoalesceKey
    NoBusMessage = NoBusMessage
    Services = {a, b, c}
    Order <- Registered
    Critical = {a}
    CrashLimit = 2
    MaxCrashes = 4
CHECK_DEADLOCK FALSE
INVARIANTS ConsumptionIsSound  SupervisionIsSound
PROPERTIES SettledIsFinal  ShutdownEnds
