SPECIFICATION Spec
CONSTANTS
    Runs = {1, 2}
    Workers = {w1, w2}
    Gateways = {}
    Calls = {c1, c2}
    Requests = {"run", "cancel"}
    Overlapping = TRUE
    Stages <- OneStage
    FatalStages = {"validation-judgement"}
    Retained = {1, 2}
    Mortal = {}
    FaultyDatabase = FALSE
    RecoverOnStartup = FALSE
    None = None
CHECK_DEADLOCK FALSE
INVARIANTS ClaimsMatchQueuings ExecutorsMatchIntrusions
SYMMETRY Interchangeable
VIEW WithoutTraces
