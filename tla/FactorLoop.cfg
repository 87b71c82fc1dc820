SPECIFICATION Spec
CONSTANTS
    Universe <- MCUniverse
    Idempotent = {"rank"}
    MaxDepth = 3
    MaxLookback = 20
    MaxBacktests = 1
    PoolCapacity = 1
    WindowRounds = 2
    ShareThreshold = 50
    MinAcceptRate = 50
    MaxVariants = 2
    MinObservations = 2
    ReleaseShare = 5
    ReleaseRounds = 1
    Stagnation = 2
    MaxStep = 3
    Batches <- MCBatches
    MaxIterations = 2
    MaxFailures = 2
    MaxRounds = 2
    MaxCount = 2
    MaxFaults = 1
CHECK_DEADLOCK FALSE
 
PROPERTIES TestedOnce ImplementsLog
