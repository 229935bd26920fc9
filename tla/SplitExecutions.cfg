SPECIFICATION Spec
CONSTANTS
    Runs = {r1}
    Workers = {w1, w2}
    Calls = {c1, c2, c3}
    Requests = {"start", "cancel"}
    Stages <- FourStages
    FailFast = {"snapshot-ready", "report"}
    AlwaysRun = {"runtime-cleanup"}
    Raising = {"snapshot-ready", "whiteboard-swarm", "runtime-cleanup"}
    Cleanup = "runtime-cleanup"
    DisabledChoices <- SomeDisabled
    Mortal = {w1, w2}
    None = None
CHECK_DEADLOCK FALSE
INVARIANTS TypeOK StagesSerialized StatusesAgree StoppedRunsOnlyAlwaysRun AlwaysRunIsRun
SYMMETRY Interchangeable
