SPECIFICATION Spec
CONSTANTS
    Runs = {1}
    Workers = {w1}
    Gateways = {g1}
    Calls = {c1, c2}
    Requests = {"create", "run"}
    Overlapping = FALSE
    Stages <- ReportOnly
    FatalStages = {}
    Retained = {}
    Mortal = {w1}
    FaultyDatabase = TRUE
    RecoverOnStartup = TRUE
    None = None
CHECK_DEADLOCK FALSE
INVARIANTS TypeOK RunningHasExecutor
PROPERTY QueueKeepsLedger
SYMMETRY MortalsInterchange
