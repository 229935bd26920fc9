SPECIFICATION Spec
CONSTANTS
    Runs = {r1}
    Workers = {w1}
    Calls = {c1}
    Requests = {"start"}
    Stages <- TwoStages
    FailFast = {"snapshot-ready"}
    AlwaysRun = {"runtime-cleanup"}
    Raising = {"snapshot-ready"}
    Cleanup = "runtime-cleanup"
    DisabledChoices <- NoneDisabled
    Mortal = {}
    None = None
CHECK_DEADLOCK FALSE
INVARIANT RetainedFailureKeepsRuntime
