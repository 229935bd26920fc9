------------------------------ MODULE Services ------------------------------
(***************************************************************************)
(* Seven services that keep state of their own and share none: the         *)
(* knowledge base, the report files, the import of projects, the sessions  *)
(* of an agent, the static analysis, the whiteboard and the sandboxes.  As *)
(* none can see a step of another, every behaviour here is one of one of   *)
(* them; the others do not begin.                                          *)
(***************************************************************************)
EXTENDS Naturals, Sequences, FiniteSets

CONSTANTS
    Services,     \* the services that may be at hand
    None,

    \* of the knowledge base, the report files, the imports, the sessions, the static
    \* analysis, the whiteboard and the sandboxes; each is explained in its module
    Documents, Uploaded, Tokens, Scope, CHUNK_TOKENS, CHUNK_OVERLAP, SearchLimit,
    KnowledgeCalls, KnowledgeFaults,
    Findings, NoFinding, ReportCalls, ReportFaults,
    Projects, Kept, AllowedSchemes, AllowedHosts, MaxFiles, ImportCalls, ImportFaults,
    AgentRuns, MaxEvents, SessionFaults,
    Lower, Stripped, WithoutV, Known, MaxPackages, AnalysisScenarios, AnalysisFaults,
    Cards, OnBoard, CardWords, EventLimit, BoardCalls, BoardFailures,
    SandboxScenarios, SandboxFaults

\* Windows have words.  Calls of the knowledge base have numbers from 1, and every upload makes
\* a document of its own.
ASSUME KnowledgeAssumption ==
    /\ Uploaded \subseteq Documents /\ Tokens \in [Documents -> Nat]
    /\ CHUNK_TOKENS \in Nat \ {0} /\ CHUNK_OVERLAP \in Nat
    /\ \A s \in KnowledgeCalls :
         /\ 0 \notin DOMAIN s
         /\ \A c \in DOMAIN s :
              /\ s[c].kind \in {"upload", "reindex", "delete", "search"}
              /\ s[c].kind # "search" => s[c].document \in Documents
              /\ s[c].kind = "upload" =>
                   /\ s[c].document \notin Uploaded
                   /\ \A d \in DOMAIN s \ {c} : s[d].kind = "upload" => s[d].document # s[c].document

\* An import names its project.
ASSUME ImportAssumption ==
    \A s \in ImportCalls : \A c \in DOMAIN s :
        s[c].kind \in {"git", "zip", "manual"} => s[c].project \in Projects

\* CardWords are what the status and the triage of a card may be.  The id of a card that is
\* created is new, and a request names cards of the board.
ASSUME BoardAssumption ==
    /\ {None, "open", "submitted", "deep_dive"} \subseteq CardWords
    /\ None \notin [status : CardWords, triage : CardWords]
    /\ \A s \in BoardCalls : \A c \in DOMAIN s :
         /\ s[c].kind = "card" =>
              /\ s[c].triage \in CardWords /\ s[c].card \notin OnBoard
              /\ \A d \in DOMAIN s \ {c} : s[d].kind = "card" => s[d].card # s[c].card
         /\ s[c].kind = "update" => s[c].status \in CardWords /\ s[c].triage \in CardWords \cup {"keep"}
         /\ s[c].kind = "triage" => s[c].value \in CardWords
         /\ s[c].kind = "request" => s[c].cards \subseteq Cards

\* Calls of the sandboxes have numbers from 1, and services share one network.
ASSUME SandboxAssumption ==
    \A s \in SandboxScenarios :
        /\ 0 \notin DOMAIN s.calls
        /\ \A c \in DOMAIN s.calls :
             /\ s.calls[c].kind \in {"poc", "finding", "service", "compose", "cleanup"}
             /\ s.calls[c].kind \in {"service", "compose"} => ~s.calls[c].own

\* Agent runs are numbers from 1; 0 is the body of a client that no session has begun.
ASSUME AgentRunAssumption == 0 \notin AgentRuns

VARIABLES
    service,      \* the one at hand
    kDo, kCall, collection, points, chunks, status, kFiles, kHistory,
    rDo, rCall, rFindings, evidence, file, reports, artifacts, rRecords, rHistory,
    iDo, iCall, project, snapshots, disk, old, iHistory,
    caller, at, queue, agent, client, updates, posts, overlap, transcript, sHistory,
    scenario, scan, aRecords, aFindings, output, report, aHistory,
    wDo, wCall, clock, log, cards, decision, events, notifications, requests, tasks, wFiles,
    snapshot, agents, reader, wHistory,
    host, bDo, bCall, containers, network, bRows, networkRows, attempts, bEvidence, finding, faults

knowledgeVars == <<kDo, kCall, collection, points, chunks, status, kFiles, kHistory>>
reportVars == <<rDo, rCall, rFindings, evidence, file, reports, artifacts, rRecords, rHistory>>
importVars == <<iDo, iCall, project, snapshots, disk, old, iHistory>>
sessionVars == <<caller, at, queue, agent, client, updates, posts, overlap, transcript, sHistory>>
analysisVars == <<scenario, scan, aRecords, aFindings, output, report, aHistory>>
boardVars == <<wDo, wCall, clock, log, cards, decision, events, notifications, requests, tasks, wFiles,
               snapshot, agents, reader, wHistory>>
sandboxVars == <<host, bDo, bCall, containers, network, bRows, networkRows, attempts, bEvidence, finding, faults>>

Knowledge == INSTANCE KnowledgeBase WITH
    Scenarios <- KnowledgeCalls, Limit <- SearchLimit, MaxFaults <- KnowledgeFaults,
    do <- kDo, call <- kCall, files <- kFiles, history <- kHistory

Reports == INSTANCE ReportFiles WITH
    Scenarios <- ReportCalls, MaxFaults <- ReportFaults, None <- NoFinding,
    do <- rDo, call <- rCall, findings <- rFindings, rows <- artifacts, records <- rRecords,
    history <- rHistory

Imports == INSTANCE ProjectImport WITH
    Scenarios <- ImportCalls, MaxFaults <- ImportFaults,
    do <- iDo, call <- iCall, rows <- snapshots, history <- iHistory

Transcripts == INSTANCE AgentSessions WITH
    Sessions <- AgentRuns, MaxFaults <- SessionFaults,
    events <- updates, rows <- transcript, history <- sHistory

Analysis == INSTANCE StaticAnalysis WITH
    Scenarios <- AnalysisScenarios, MaxFaults <- AnalysisFaults,
    records <- aRecords, findings <- aFindings, history <- aHistory

Board == INSTANCE Whiteboard WITH
    Scenarios <- BoardCalls, Limit <- EventLimit, MaxFailures <- BoardFailures,
    do <- wDo, call <- wCall, files <- wFiles, history <- wHistory

Boxes == INSTANCE Sandboxes WITH
    Scenarios <- SandboxScenarios, MaxFaults <- SandboxFaults,
    do <- bDo, call <- bCall, rows <- bRows, evidence <- bEvidence

-----------------------------------------------------------------------------
Absent(v) == v = None

Init ==
    /\ service \in Services
    /\ IF service = "knowledge" THEN Knowledge!Init
       ELSE /\ Absent(kDo) /\ Absent(kCall) /\ Absent(collection) /\ Absent(points) /\ Absent(chunks)
            /\ Absent(status) /\ Absent(kFiles) /\ Absent(kHistory)
    /\ IF service = "reports" THEN Reports!Init
       ELSE /\ Absent(rDo) /\ Absent(rCall) /\ Absent(rFindings) /\ Absent(evidence) /\ Absent(file)
            /\ Absent(reports) /\ Absent(artifacts) /\ Absent(rRecords) /\ Absent(rHistory)
    /\ IF service = "imports" THEN Imports!Init
       ELSE /\ Absent(iDo) /\ Absent(iCall) /\ Absent(project) /\ Absent(snapshots) /\ Absent(disk)
            /\ Absent(old) /\ Absent(iHistory)
    /\ IF service = "sessions" THEN Transcripts!Init
       ELSE /\ Absent(caller) /\ Absent(at) /\ Absent(queue) /\ Absent(agent) /\ Absent(client)
            /\ Absent(updates) /\ Absent(posts) /\ Absent(overlap) /\ Absent(transcript) /\ Absent(sHistory)
    /\ IF service = "analysis" THEN Analysis!Init
       ELSE /\ Absent(scenario) /\ Absent(scan) /\ Absent(aRecords) /\ Absent(aFindings)
            /\ Absent(output) /\ Absent(report) /\ Absent(aHistory)
    /\ IF service = "whiteboard" THEN Board!Init
       ELSE /\ Absent(wDo) /\ Absent(wCall) /\ Absent(clock) /\ Absent(log) /\ Absent(cards)
            /\ Absent(decision) /\ Absent(events) /\ Absent(notifications) /\ Absent(requests)
            /\ Absent(tasks) /\ Absent(wFiles) /\ Absent(snapshot) /\ Absent(agents) /\ Absent(reader)
            /\ Absent(wHistory)
    /\ IF service = "sandboxes" THEN Boxes!Init
       ELSE /\ Absent(host) /\ Absent(bDo) /\ Absent(bCall) /\ Absent(containers) /\ Absent(network)
            /\ Absent(bRows) /\ Absent(networkRows) /\ Absent(attempts) /\ Absent(bEvidence)
            /\ Absent(finding) /\ Absent(faults)

Next ==
    \/ /\ service = "knowledge" /\ Knowledge!Next
       /\ UNCHANGED <<service, reportVars, importVars, sessionVars, analysisVars, boardVars, sandboxVars>>
    \/ /\ service = "reports" /\ Reports!Next
       /\ UNCHANGED <<service, knowledgeVars, importVars, sessionVars, analysisVars, boardVars, sandboxVars>>
    \/ /\ service = "imports" /\ Imports!Next
       /\ UNCHANGED <<service, knowledgeVars, reportVars, sessionVars, analysisVars, boardVars, sandboxVars>>
    \/ /\ service = "sessions" /\ Transcripts!Next
       /\ UNCHANGED <<service, knowledgeVars, reportVars, importVars, analysisVars, boardVars, sandboxVars>>
    \/ /\ service = "analysis" /\ Analysis!Next
       /\ UNCHANGED <<service, knowledgeVars, reportVars, importVars, sessionVars, boardVars, sandboxVars>>
    \/ /\ service = "whiteboard" /\ Board!Next
       /\ UNCHANGED <<service, knowledgeVars, reportVars, importVars, sessionVars, analysisVars, sandboxVars>>
    \/ /\ service = "sandboxes" /\ Boxes!Next
       /\ UNCHANGED <<service, knowledgeVars, reportVars, importVars, sessionVars, analysisVars, boardVars>>

vars == <<service, knowledgeVars, reportVars, importVars, sessionVars, analysisVars, boardVars, sandboxVars>>

Spec == Init /\ [][Next]_vars

-----------------------------------------------------------------------------
(* The properties of the services, each stated and explained in its module. *)

\* Every variable of every service has its type.
TypeOK ==
    /\ service = "knowledge" => Knowledge!TypeOK
    /\ service = "reports" => Reports!TypeOK
    /\ service = "imports" => Imports!TypeOK
    /\ service = "sessions" => Transcripts!TypeOK
    /\ service = "analysis" => Analysis!TypeOK
    /\ service = "whiteboard" => Board!TypeOK
    /\ service = "sandboxes" => Boxes!TypeOK

\* The stores of the knowledge base agree: what is indexed can be found by every word, what is
\* deleted is gone, and what failed had a cause (reindex_knowledge_document,
\* delete_knowledge_document).
StoresAgree == service = "knowledge" => Knowledge!StoresAgree

\* Files, rows and records of reports and packages tell the same (ReportService,
\* generate_audit_deliverables, _upsert_artifact_record).
ArtifactsAreWhole == service = "reports" => Reports!ArtifactsAreWhole

\* A cleanup keeps the files that a snapshot's row names (RuntimeStorageCleanup.cleanup).
ReferencedFilesAreKept == service = "imports" => Imports!ReferencedFilesAreKept

\* A project is "importing" only while a call imports it (upload_zip_project).
ImportsEnd == service = "imports" => Imports!ImportsEnd

\* Every update of an agent arrives in the transcript, in order (RuntimeRecordingClient.flush).
TranscriptIsComplete == service = "sessions" => Transcripts!TranscriptIsComplete

\* An update is in the transcript of its own run (begin_session).
UpdatesStayInTheirRun == service = "sessions" => Transcripts!UpdatesStayInTheirRun

\* A vulnerability is laid to a declared package that has it, unless a version was stripped
\* away; then to an earlier one (query_osv, _package).
VulnerabilitiesAreDeclared == service = "analysis" => Analysis!VulnerabilitiesAreDeclared

\* Rows are of one scan, and a tool that succeeds reports its own file
\* (_replace_dependency_records, semgrep_scan).
ResultsAreOwn == service = "analysis" => Analysis!ResultsAreOwn

\* The snapshot of the graph lags only behind overlapping calls (_submit_snapshot).
SnapshotLagsOverlaps == service = "whiteboard" => Board!SnapshotLagsOverlaps

\* Readers of events miss only those of open calls (list_events, _fanout_event).
ReadersMissOnlyOpenCalls == service = "whiteboard" => Board!ReadersMissOnlyOpenCalls

\* Status, holder, lease and count of a notification agree (mark_notification).
NotificationsConsistent == service = "whiteboard" => Board!NotificationsConsistent

\* Agents are launched for cards that are worth it (decide_agent_schedule_request).
HelpIsWorthwhile == service = "whiteboard" => Board!HelpIsWorthwhile

\* Sandboxes are left, recorded, isolated and judged as their calls promise
\* (run_poc_container, start_sandbox_service, run_finding_poc).
SandboxesAsPromised == service = "sandboxes" => Boxes!SandboxesAsPromised
=============================================================================
