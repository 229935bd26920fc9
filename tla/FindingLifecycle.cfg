SPECIFICATION FairSpec
CONSTANTS
    CardIdentity <- OneCard
    Value <- DeepDive
    Outputs = {"o1", "b1", "b2"}
    Reported = {"candidate", "confirmed"}
    ReportedKinds = {"poc-plan"}
    BatchOutputs = {"b1", "b2"}
    Items <- ItemsOfOutputs
    Posted = {"x"}
    Listers = {"l1"}
    Rounds = 1
    MaxParallel = 1
    FeedbackRounds = 0
    MaxVerdicts = 1
    Configs <- Pipelines
    None = "none"
CHECK_DEADLOCK FALSE
INVARIANTS TypeOK DuplicatesOverlap LateAgentsBounded PocChain FeedbackPays
PROPERTIES RunEnds
