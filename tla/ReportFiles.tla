---------------------------- MODULE ReportFiles ----------------------------
(***************************************************************************)
(* The reports and the deliverable package of one audit run: the handlers  *)
(* of services/platform/app/api/routes.py that write them, the artifact    *)
(* store (services/artifacts.py) and the access to artifacts.              *)
(*                                                                         *)
(* generate_report writes a report of each finding and one of the run, and *)
(* then the package; the package is also written by the first request for  *)
(* it.  Reports have names of their own, the files of the package have     *)
(* fixed names.  A call works through a list of jobs, each a change of a   *)
(* file or a transaction.                                                  *)
(*                                                                         *)
(* The two files of a report are one path here, and so are the three files *)
(* of a finding in the package.                                            *)
(***************************************************************************)
EXTENDS Naturals, Sequences, FiniteSets
LOCAL INSTANCE SequencesExt

CONSTANTS
    Findings,
    Scenarios,   \* sequences of calls: who makes it, its kind and its finding or its path
    MaxFaults,   \* bound: calls that are cut off
    None

Calls == UNION {DOMAIN s : s \in Scenarios}

VARIABLES
    do,        \* do[c]: who makes call c, its kind and its argument
    call,      \* call[c]: control point and locals
    findings,  \* rows of Finding
    evidence,  \* findings that have rows of Evidence
    file,      \* file[p]: what was known when the file at path p was written
    reports,   \* paths that have a row of ReportArtifact
    rows,      \* rows of DeliverableArtifact: path, call and content
    records,   \* records[p]: content of the file as its row of ArtifactRecord knows it
    history    \* history variables

vars == <<do, call, findings, evidence, file, reports, rows, records, history>>

Live == DOMAIN do
Ended(c) == call[c].pc \in {"answered", "failed"}
Building(c) == call[c].part = "package" /\ ~Ended(c)

ReportOf(c, f) == <<"report", c, f>>
PackageFile(name) == <<"package", name>>
Torn == [findings |-> {None}, evidence |-> {}]
Contents == [findings : SUBSET Findings, evidence : SUBSET Findings] \cup {Torn}

TypeOK ==
    /\ \A c \in Calls : call[c].pc \in {"absent", "idle", "findings", "evidence", "job", "record",
                                        "answered", "failed"}
    /\ evidence \subseteq findings /\ findings \subseteq Findings
    /\ \A p \in DOMAIN file : file[p] \in Contents
    /\ DOMAIN records \subseteq DOMAIN file
    /\ \A r \in rows : r.path \in DOMAIN file /\ r.content \in Contents /\ r.path[1] = "package"

-----------------------------------------------------------------------------
Idle == [pc |-> "idle", part |-> "report", read |-> [findings |-> {}, evidence |-> {}], todo |-> <<>>,
         seen |-> {}, present |-> FALSE, alone |-> TRUE, before |-> {}]

Init ==
    /\ do \in Scenarios
    /\ call = [c \in Calls |-> IF c \in Live THEN Idle ELSE [Idle EXCEPT !.pc = "absent"]]
    /\ findings = {} /\ evidence = {}
    /\ file = <<>> /\ reports = {} /\ rows = {} /\ records = <<>>
    /\ history = [faults |-> 0, raced |-> FALSE, whole |-> FALSE]

MayCall(c) == call[c].pc = "idle" /\ \A d \in 1..(c - 1) : do[d].by = do[c].by => Ended(d)

\* What agents add to the audit run.
AddFinding(c) ==
    /\ MayCall(c) /\ do[c].kind = "finding"
    /\ findings' = findings \cup {do[c].finding}
    /\ call' = [call EXCEPT ![c].pc = "answered"]
    /\ UNCHANGED <<do, evidence, file, reports, rows, records, history>>

AddEvidence(c) ==
    /\ MayCall(c) /\ do[c].kind = "evidence" /\ do[c].finding \in findings
    /\ evidence' = evidence \cup {do[c].finding}
    /\ call' = [call EXCEPT ![c].pc = "answered"]
    /\ UNCHANGED <<do, findings, file, reports, rows, records, history>>

\* A build of the package that meets another one is not alone.
StartPackage(c) ==
    LET rivals == {d \in Live \ {c} : Building(d)}
    IN call' = [d \in Calls |->
          IF d = c THEN [Idle EXCEPT !.pc = "findings", !.part = "package", !.alone = rivals = {}, !.before = findings]
          ELSE IF d \in rivals THEN [call[d] EXCEPT !.alone = FALSE]
          ELSE call[d]]

GenerateReport(c) ==
    /\ MayCall(c) /\ do[c].kind = "report"
    /\ call' = [call EXCEPT ![c].pc = "findings"]
    /\ UNCHANGED <<do, findings, evidence, file, reports, rows, records, history>>

\* audit_run_deliverables builds the package only if there are no rows.
Deliverables(c) ==
    /\ MayCall(c) /\ do[c].kind = "deliverables"
    /\ IF rows = {} THEN StartPackage(c) ELSE call' = [call EXCEPT ![c].pc = "answered"]
    /\ UNCHANGED <<do, findings, evidence, file, reports, rows, records, history>>

-----------------------------------------------------------------------------
(* Access to artifacts *)

\* _artifact_references: the rows that name the path.  DeliverableArtifact is not
\* among the tables it looks at.
References(p) == {r \in reports : r = p}

\* _artifact_metadata_response and _artifact_download_response: an artifact without a
\* reference is refused, a file that is missing is an error, and the record of the
\* artifact is brought up to date with the file.
GetArtifact(c) ==
    /\ MayCall(c) /\ do[c].kind = "artifact"
    /\ LET p == do[c].path
       IN call' = [call EXCEPT ![c] =
             IF References(p) = {} \/ p \notin DOMAIN file THEN [@ EXCEPT !.pc = "answered"]
             ELSE [@ EXCEPT !.pc = "job", !.todo = <<<<"record", p>>>>, !.read = file[p]]]
    /\ UNCHANGED <<do, findings, evidence, file, reports, rows, records, history>>

-----------------------------------------------------------------------------
(* Reading *)

\* The rows are read in a session each: what is reported may mix two states.
ReadFindings(c) ==
    /\ call[c].pc = "findings"
    /\ call' = [call EXCEPT ![c] = [@ EXCEPT !.pc = "evidence", !.read.findings = findings]]
    /\ UNCHANGED <<do, findings, evidence, file, reports, rows, records, history>>

\* _generate_finding_reports and _generate_report_internal
ReportJobs(c, fs) ==
    FlattenSeq([i \in 1..(Len(fs) + 1) |->
        LET p == ReportOf(c, IF i <= Len(fs) THEN fs[i] ELSE None)
        IN <<<<"put", p>>, <<"row", p>>, <<"record", p>>>>])

PackagePaths(fs) == <<PackageFile("main")>> \o [i \in DOMAIN fs |-> PackageFile(fs[i])] \o <<PackageFile("index")>>

\* _build_deliverable_package and _upsert_deliverable_artifacts
\* Mutant: the rows of the package before are not deleted.
PackageJobsKeepingRows(fs) ==
    LET paths == PackagePaths(fs)
    IN [i \in DOMAIN paths |-> <<"put", paths[i]>>] \o <<<<"insert", paths>>>>
       \o [i \in DOMAIN paths |-> <<"record", paths[i]>>]

PackageJobs(fs) ==
    LET paths == PackagePaths(fs)
    IN [i \in DOMAIN paths |-> <<"put", paths[i]>>] \o <<<<"delete", None>>, <<"insert", paths>>>>
       \o [i \in DOMAIN paths |-> <<"record", paths[i]>>]

\* Evidence of a finding that was not read yet is left out.
ReadEvidence(c) ==
    /\ call[c].pc = "evidence"
    /\ LET read == [call[c].read EXCEPT !.evidence = evidence \cap call[c].read.findings]
           fs == SetToSeq(read.findings)
       IN call' = [call EXCEPT ![c] = [@ EXCEPT !.pc = "job", !.read = read,
             !.todo = IF call[c].part = "package" THEN PackageJobs(fs) ELSE ReportJobs(c, fs)]]
    /\ UNCHANGED <<do, findings, evidence, file, reports, rows, records, history>>

-----------------------------------------------------------------------------
(* Jobs *)

Job(c) == Head(call[c].todo)
Does(c, op) == call[c].pc = "job" /\ Job(c)[1] = op

NextJob(c) == call' = [call EXCEPT ![c] = [@ EXCEPT !.pc = "job", !.todo = Tail(@)]]

\* The last job is the one of a record.  After it a report goes on with the package; a build ends.
Finished(c) ==
    IF Len(call[c].todo) > 1 THEN NextJob(c)
    ELSE IF do[c].kind = "report" /\ call[c].part = "report" THEN StartPackage(c)
    ELSE call' = [call EXCEPT ![c] = [Idle EXCEPT !.pc = "answered"]]

\* put_bytes replaces the file and takes its metadata.
Put(c) ==
    /\ Does(c, "put")
    /\ LET p == Job(c)[2]
       IN /\ file' = [q \in DOMAIN file \cup {p} |-> IF q = p THEN call[c].read ELSE file[q]]
          /\ history' = [history EXCEPT !.whole = @ /\ p[1] # "package"]
    /\ NextJob(c)
    /\ UNCHANGED <<do, findings, evidence, reports, rows, records>>

AddReportRow(c) ==
    /\ Does(c, "row")
    /\ reports' = reports \cup {Job(c)[2]}
    /\ NextJob(c)
    /\ UNCHANGED <<do, findings, evidence, file, rows, records, history>>

\* DELETE of the rows that are committed when it is executed.
DeleteRows(c) ==
    /\ Does(c, "delete")
    /\ call' = [call EXCEPT ![c] = [@ EXCEPT !.todo = Tail(@), !.seen = rows]]
    /\ UNCHANGED <<do, findings, evidence, file, reports, rows, records, history>>

InsertRows(c) ==
    /\ Does(c, "insert")
    /\ rows' = (rows \ call[c].seen) \cup
               {[path |-> p, call |-> c, content |-> call[c].read] : p \in ToSet(Job(c)[2])}
    /\ NextJob(c)
    /\ UNCHANGED <<do, findings, evidence, file, reports, records, history>>

\* _upsert_artifact_record looks for the record and then updates or inserts it.
LookForRecord(c) ==
    /\ Does(c, "record")
    /\ call' = [call EXCEPT ![c] = [@ EXCEPT !.pc = "record", !.present = Job(c)[2] \in DOMAIN records]]
    /\ UNCHANGED <<do, findings, evidence, file, reports, rows, records, history>>

Recorded(c) == [p \in DOMAIN records \cup {Job(c)[2]} |-> IF p = Job(c)[2] THEN call[c].read ELSE records[p]]

\* A build that was alone and ends leaves a whole package.
Whole(c) == IF Building(c) /\ Len(call[c].todo) = 1 THEN call[c].alone ELSE history.whole

MayWrite(c) == call[c].present \/ Job(c)[2] \notin DOMAIN records

WriteRecord(c) ==
    /\ call[c].pc = "record" /\ MayWrite(c)
    /\ records' = Recorded(c)
    /\ history' = [history EXCEPT !.whole = Whole(c)]
    /\ Finished(c)
    /\ UNCHANGED <<do, findings, evidence, file, reports, rows>>

\* generate_report suppresses every exception of the package.
Raised(c) ==
    [Idle EXCEPT !.pc = IF do[c].kind = "report" /\ call[c].part = "package" THEN "answered" ELSE "failed"]

\* Another call has inserted the record meanwhile: the key is taken.
RecordIsTaken(c) ==
    /\ call[c].pc = "record" /\ ~MayWrite(c)
    /\ call' = [call EXCEPT ![c] = Raised(c)]
    /\ history' = [history EXCEPT !.raced = @ \/ ~call[c].present]
    /\ UNCHANGED <<do, findings, evidence, file, reports, rows, records>>

\* The process dies, or the database or the file system fails; a file may be cut off.
Cut(c) ==
    /\ call[c].pc \in {"findings", "evidence", "job", "record"} /\ history.faults < MaxFaults
    /\ call' = [call EXCEPT ![c] = [Idle EXCEPT !.pc = "failed"]]
    /\ \/ file' = file /\ history' = [history EXCEPT !.faults = @ + 1]
       \/ /\ Does(c, "put")
          /\ file' = [p \in DOMAIN file \cup {Job(c)[2]} |-> IF p = Job(c)[2] THEN Torn ELSE file[p]]
          /\ history' = [history EXCEPT !.faults = @ + 1, !.whole = @ /\ Job(c)[2][1] # "package"]
    /\ UNCHANGED <<do, findings, evidence, reports, rows, records>>

-----------------------------------------------------------------------------
Step(c) ==
    \/ AddFinding(c) \/ AddEvidence(c) \/ GenerateReport(c) \/ Deliverables(c) \/ GetArtifact(c)
    \/ ReadFindings(c) \/ ReadEvidence(c) \/ Put(c) \/ AddReportRow(c) \/ DeleteRows(c) \/ InsertRows(c)
    \/ LookForRecord(c) \/ WriteRecord(c) \/ RecordIsTaken(c) \/ Cut(c)

Next == \E c \in Calls : Step(c)

Spec == Init /\ [][Next]_vars

-----------------------------------------------------------------------------
(* Properties *)

\* A build of the package that met no other leaves a whole package until the next one
\* begins to write: one row for each file, and the file and its record have the content
\* that the row tells of.
PackageIsWhole ==
    history.whole =>
        /\ \A r, s \in rows : r.path = s.path => r = s
        /\ \A r \in rows : file[r.path] = r.content /\ records[r.path] = r.content
        /\ \E fs \in SUBSET Findings : /\ {r.path : r \in rows} = ToSet(PackagePaths(SetToSeq(fs)))
                                       /\ \A r \in rows : r.content.findings = fs

\* What has a row of ReportArtifact was written in full, and its record never tells of
\* another content than that of the file, whoever reads the report while it is written.
ReportsAreIntact ==
    \A p \in reports : p \in DOMAIN file /\ file[p] # Torn /\ (p \in DOMAIN records => records[p] = file[p])

\* A call fails only if it is cut off, or if another call took the record of the
\* artifact between its look and its insert.
FailsForCause ==
    \A c \in Calls : call[c].pc = "failed" => history.faults > 0 \/ history.raced

\* Files, rows and records tell the same, and calls do not fail otherwise.
ArtifactsAreWhole == PackageIsWhole /\ ReportsAreIntact /\ FailsForCause
=============================================================================
