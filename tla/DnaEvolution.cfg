SPECIFICATION EvolutionSpec
CONSTANTS
    e1 = e1
    e2 = e2
    e3 = e3
    Evaluations = {e1, e2, e3}
    Facts <- MCFacts
    Dnas = {"base", "donor"}
    Datasets = {"x1"}
    Keys <- MCKeys
    Threshold <- MCThreshold
    MinimumSamples = 1
    PerDna = 1
    MaxRevision = 2
    MutablePaths <- MCMutablePaths
    AllowedBindings = {"read@1"}
    MaxEffect = "PURE"
    MaxOperations = 1
    MaxNodes = 2
    Dimensions <- MCDimensions
    Slack <- MCSlack
    MaximumSurvivors = 1
    MinimumNovelty = 0
    Calls = {c1, c2}
    Proposals = {"p1", "p2"}
    Replays = {"r1", "r2"}
    Selections = {"s1"}
    Requests <- MCRequests
    Workflows <- MCWorkflows
    Active = "base"
    AutoValue <- MCAutoValue
    Measures <- MCMeasures
    Parent <- MCParent
SYMMETRY Symmetry
CHECK_DEADLOCK FALSE
 
PROPERTIES ImplementsWriteOnce
