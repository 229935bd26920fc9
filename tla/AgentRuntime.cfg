SPECIFICATION Spec
CONSTANTS
    Agents = {"a1", "a2"}
    Kimi = {"a1"}
    Tools = {m1}
    Requires <- RequiresAll
    Retained = {"a2"}
    LongRunning = {"a2"}
    Cleaners = {q1}
    CleanerKinds = {"cleanup", "expired", "reconcile", "inactive"}
    MaxFaults = 1
    None = None
CHECK_DEADLOCK FALSE
INVARIANTS TypeOK UndisturbedAgentHasServers
PROPERTIES QuietCleanupIsComplete InactiveCleanupSparesAgents
