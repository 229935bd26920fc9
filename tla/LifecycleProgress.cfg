SPECIFICATION FairSpec
CONSTANTS
    Runs = {1}
    Workers = {w1}
    Gateways = {}
    Calls = {c1, c2, c3}
    Requests = {"run", "cancel", "validate"}
    Overlapping = FALSE
    Stages <- ReportOnly
    FatalStages = {}
    Retained = {}
    Mortal = {}
    FaultyDatabase = FALSE
    RecoverOnStartup = TRUE
    None = None
CHECK_DEADLOCK FALSE
PROPERTY QueuedRunEnds
