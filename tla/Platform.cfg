SPECIFICATION Spec
CONSTANTS
    Blobs = {b1}
    ArtifactClients = {c1, c2}
    Grace = 2
    ArtifactHorizon = 3
    Memories = {m1, m2, m3}
    Subjects = {s1, s2}
    Claims = {up, down}
    DataVersions = {v1, v2}
    Episodes = {e1}
    MemoryHorizon = 2
    Insights = {i1, i2}
    Deliverers = {d1, d2}
    Channels = {local, mail}
    HourlyLimit = 1
    Hour = 1
    QuietTicks = {1}
    DeliveryHorizon = 2
    Turns = {t1, t2}
    MaxRetries = 1
    CallBudget = 2
    MaxPieces = 2
    MaxClears = 1
    FieldNames = {x, y}
    FieldTypes = {"number", "text"}
    FieldValues <- MCFieldValues
    Packages <- MCPackages
    CapabilitySet <- MCContracts
    Requirements <- MCRequirements
    MaxRestarts = 1
    Definitions <- MCDefinitions
    WorkflowTrees <- MCWorkflowTrees
    RootWorkflow = "root"
    MaxDepth = 3
    BaseDna <- MCBaseDna
    LimitSets <- MCLimitSets
    ComposedNames = {"p", "q"}
    Lines <- MCLines
    Freshness = 1
    Tolerance = 0
    Threshold = 1
    Cooldown = 2
    PerceptionHorizon = 3
    MaxPublished = 3
    Goals <- MCGoals
    Contexts <- MCContexts
    Stimuli <- MCStimuli
    Injected <- MCInjected
    AllowedCommands <- MCAllowedCommands
    PlanRules <- MCPlanRules
    MergeWindow = 1
    MaxPending = 2
    MaxBatch = 1
    MaxActive = 2
    CoordinationHorizon = 2
    EntryIds = {1, 2, 3}
    Importances = {1, 2}
    Lifetimes = {1, 3}
    EntryCapacity = 2
    EntryHorizon = 3
    PhaseOf <- MCPhaseOf
    ControllerHorizon = 2
    MaxChanges = 3
    Competitors <- MCCompetitors
    Budgets <- MCBudgets
    AdmissionThreshold = 3
    DeadlineBonus = 2
    DeadlineHorizon = 2
    RecoveryBonus = 3
    RealtimeBonus = 1
    ReviewBonus = 2
    AgingInterval = 1
    AgingStep = 1
    AgingLimit = 2
    PolicyHorizon = 3
    SandboxPlans <- MCPlans
    SandboxFaults = {"NONE", "SKILL_FAILURE", "TIMEOUT"}
    SandboxDeadline = 4
    VirtualWindow = 5
    Deployments <- MCDeployments
    Migrations <- MCMigrations
    KnownMigrations <- MCKnown
    Statements <- MCStatements
    MaxInterruptions = 2
    MaxKills = 1
CHECK_DEADLOCK FALSE
INVARIANTS DatabaseIsAtomic RegisteredIsPresent KnowledgeIsConsistent RateIsKept ChatIsGoverned SkillsKeepContracts DefinitionsAreSound TreeIsHonest CognitionIsSound  QuotaIsKept
PROPERTIES BestKept
