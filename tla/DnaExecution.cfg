SPECIFICATION Spec
CONSTANTS
    Versions = {"w1"}
    Parents <- MCParents
    MaxDepth = 2
    Agents = {"a1"}
    Organizations = {"o1", "o2"}
    Uses <- MCUses
    Members <- MCMembers
    Fallback <- MCFallback
    First <- MCFirst
    Starters = {"s1", "s2"}
    MaxCrashes = 1
    MaxGoverned = 3
    Calls = {"c1"}
    Responsibilities = {"research", "other"}
    WorkflowRoles = {"market"}
    Lead = "lead"
    RoleRank <- MCRoleRank
    Budget <- MCBudget
    Asked = {1, 2}
INVARIANTS ExecutionIsSound
PROPERTIES ImplementVersionLife EventuallyReady
CHECK_DEADLOCK FALSE
