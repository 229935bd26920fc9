SPECIFICATION Spec
CONSTANTS
    Services = {"knowledge", "reports", "imports", "sessions", "analysis", "whiteboard", "sandboxes"}
    None = None
    Documents <- MCDocuments
    Uploaded = {"long"}
    Tokens <- MCTokens
    Scope <- MCScope
    CHUNK_TOKENS = 3
    CHUNK_OVERLAP = 1
    SearchLimit = 2
    KnowledgeCalls <- MCKnowledgeCalls
    KnowledgeFaults = 3
    Findings = {"f1", "f2"}
    NoFinding = "none"
    ReportCalls <- MCReportCalls
    ReportFaults = 1
    Projects = {"a", "b"}
    Kept = {"a"}
    AllowedSchemes = {"https", "ssh"}
    AllowedHosts = {"10.0.0.2"}
    MaxFiles = 3
    ImportCalls <- MCImportCalls
    ImportFaults = 2
    AgentRuns = {1, 2}
    MaxEvents = 2
    SessionFaults = 2
    Lower <- MCLower
    Stripped <- MCStripped
    WithoutV <- MCWithoutV
    Known <- MCKnown
    MaxPackages = 3
    AnalysisScenarios <- MCAnalysisScenarios
    AnalysisFaults = 2
    Cards = {"k1", "k2"}
    OnBoard = {"k1"}
    CardWords = {None, "open", "submitted", "stuck", "deep_dive", "evidence_only"}
    BoardCalls <- MCBoardCalls
    EventLimit = 2
    BoardFailures = 1
    SandboxScenarios <- MCSandboxScenarios
    SandboxFaults = 2
CHECK_DEADLOCK FALSE
INVARIANTS
    TypeOK StoresAgree ArtifactsAreWhole ReferencedFilesAreKept ImportsEnd
    TranscriptIsComplete UpdatesStayInTheirRun VulnerabilitiesAreDeclared ResultsAreOwn
    SnapshotLagsOverlaps ReadersMissOnlyOpenCalls NotificationsConsistent HelpIsWorthwhile SandboxesAsPromised
