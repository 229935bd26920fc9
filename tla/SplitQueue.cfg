SPECIFICATION FairSpec
CONSTANTS
    Runs = {r1, r2}
    Workers = {w1}
    Calls = {c1, c2, c3}
    Requests = {"start", "cancel"}
    Stages <- TwoStages
    FailFast = {"snapshot-ready"}
    AlwaysRun = {"runtime-cleanup"}
    Raising = {"snapshot-ready"}
    Cleanup = "runtime-cleanup"
    DisabledChoices <- NoneDisabled
    Mortal = {}
    None = None
CHECK_DEADLOCK FALSE
PROPERTIES QueueKeepsLedger QueuedRunEnds
