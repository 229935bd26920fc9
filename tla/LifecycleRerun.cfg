SPECIFICATION FairSpec
CONSTANTS
    Runs = {1}
    Workers = {w1}
    Gateways = {}
    Calls = {c1}
    Requests = {"run"}
    Overlapping = FALSE
    Stages <- ReportOnly
    FatalStages = {}
    Retained = {}
    Mortal = {}
    FaultyDatabase = FALSE
    RecoverOnStartup = FALSE
    None = None
CHECK_DEADLOCK FALSE
PROPERTY EndedRunCanBeRerun
