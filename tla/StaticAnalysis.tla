--------------------------- MODULE StaticAnalysis ---------------------------
(***************************************************************************)
(* The analysis tools of an audit run: the dependencies that are read from *)
(* the manifests of the workspace and looked up in OSV, the rows and       *)
(* findings made of them (services/mcp-tools/tool_mcp.py, its twin         *)
(* dependency_scanner.py, and the handlers of api/routes.py), and the      *)
(* command line tools that report through a file.                          *)
(*                                                                         *)
(* A run may be scanned by its pipeline and by callers of the API at once. *)
(***************************************************************************)
EXTENDS Naturals, Sequences, FiniteSets
LOCAL INSTANCE SequencesExt

CONSTANTS
    Scenarios,      \* workspace: a sequence of files with their lines; scans: who scans it,
                    \* "pipeline" or "api"; tools: "semgrep", "syft" or "codeql", as called
    Lower,          \* Lower[n]: name n in lower case
    Stripped,       \* Stripped[v]: version v without the blanks around it
    WithoutV,       \* WithoutV[v]: version v without the v at its beginning
    Known,          \* Known[n]: the versions of name n for which OSV knows vulnerabilities
    MaxPackages,    \* max_packages
    MaxFaults       \* bound: queries and tools that fail

VARIABLES
    scenario,     \* the member of Scenarios at hand
    scan,         \* scan[s]: control point, packages and vulnerabilities of scan s
    records,      \* rows of DependencyRecord: scan, package and number of vulnerabilities
    findings,     \* rows of Finding, with their scan and a number
    output,       \* output[k]: the call that wrote the file of tool k, 0 when there is none
    report,       \* report[t]: the answer of tool call t
    history       \* history variables

vars == <<scenario, scan, records, findings, output, report, history>>

-----------------------------------------------------------------------------
(* Manifests.  A line without a version has version "".                     *)

\* _package: a version of blanks becomes none, after the reader has seen that there is one.
Package(file, line) ==
    [ecosystem |-> file.format, name |-> line.name, version |-> Stripped[line.version],
     manifest |-> file.manifest]

Packages(file, lines) == [i \in DOMAIN lines |-> Package(file, lines[i])]

Versioned(line) == line.name # "" /\ line.version # ""

\* Mutant: every requirement counts, pinned or not.
PythonRequirementsUnpinned(file) ==
    Packages(file, SelectSeq(file.lines, LAMBDA line : line.kind \in {"==", ">="}))

\* _python_requirements: only what is pinned.
PythonRequirements(file) ==
    Packages(file, SelectSeq(file.lines, LAMBDA line : line.kind = "=="))

\* _python_pyproject: exact requirements, and those of poetry but python.
PythonPyproject(file) ==
    Packages(file, SelectSeq(file.lines,
        LAMBDA line : line.kind = "==" \/ (line.kind = "poetry" /\ Lower[line.name] # "python" /\ Versioned(line))))

\* _npm_package_lock: node_modules entries and the nested dependencies of the older format.
NpmPackageLock(file) ==
    Packages(file, SelectSeq(file.lines, LAMBDA line : line.kind \in {"node_modules", "nested"} /\ Versioned(line)))

\* _pnpm_lock: name@version.
PnpmLock(file) ==
    Packages(file, SelectSeq(file.lines, LAMBDA line : line.kind = "entry" /\ Versioned(line)))

\* _go_mod: require, and what stands in a block, also in one of exclude or replace.
GoMod(file) ==
    Packages(file, SelectSeq(file.lines, LAMBDA line : line.kind \in {"require", "in block"} /\ Versioned(line)))

\* _composer_lock: without a v before the version, of which nothing may be left.
ComposerLock(file) ==
    LET lines == SelectSeq(file.lines, LAMBDA line : line.kind \in {"packages", "packages-dev"} /\ Versioned(line))
    IN Packages(file, [i \in DOMAIN lines |-> [lines[i] EXCEPT !.version = WithoutV[@]]])

\* _maven_pom: a version may be the name of a property.
MavenProperties(file) == {line \in ToSet(file.lines) : line.kind = "property"}

Resolved(file, line) ==
    IF line.kind # "reference" THEN line
    ELSE IF \E p \in MavenProperties(file) : p.name = line.version
         THEN [line EXCEPT !.version = (CHOOSE p \in MavenProperties(file) : p.name = line.version).version]
         ELSE [line EXCEPT !.version = ""]

MavenPom(file) ==
    LET resolved == [file EXCEPT !.lines = [i \in DOMAIN @ |-> Resolved(file, @[i])]]
    IN Packages(resolved, SelectSeq(resolved.lines,
           LAMBDA line : line.kind \in {"dependency", "reference"} /\ Versioned(line)))

\* A file in blocks is read line by line: what a block says is kept until the next one.
Emit(seen) == IF Versioned(seen.line) THEN Append(seen.found, seen.line) ELSE seen.found

Nothing == [kind |-> "block", name |-> "", version |-> ""]

ReadLine(seen, line) ==
    CASE line.kind = "block" -> [found |-> Emit(seen), line |-> [Nothing EXCEPT !.name = line.name]]
      [] line.kind = "name" -> [seen EXCEPT !.line.name = line.name]
      [] line.kind = "version" -> [seen EXCEPT !.line.version = line.version]
      [] OTHER -> seen

ReadBlocks(file) ==
    Packages(file, Emit(FoldLeft(ReadLine, [found |-> <<>>, line |-> Nothing], file.lines)))

PoetryLock(file) == ReadBlocks(file)
CargoLock(file) == ReadBlocks(file)

\* A block begins with its name, which may be empty, and then its lines do not count.
YarnLock(file) == ReadBlocks(file)

Read(file) ==
    CASE file.reader = "requirements" -> PythonRequirements(file)
      [] file.reader = "pyproject" -> PythonPyproject(file)
      [] file.reader = "npm" -> NpmPackageLock(file)
      [] file.reader = "pnpm" -> PnpmLock(file)
      [] file.reader = "go" -> GoMod(file)
      [] file.reader = "composer" -> ComposerLock(file)
      [] file.reader = "maven" -> MavenPom(file)
      [] file.reader = "poetry" -> PoetryLock(file)
      [] file.reader = "cargo" -> CargoLock(file)
      [] file.reader = "yarn" -> YarnLock(file)

\* _detect_dependencies keeps the first package of an ecosystem, name and version.
SameKey(p, q) == p.ecosystem = q.ecosystem /\ Lower[p.name] = Lower[q.name] /\ p.version = q.version

DetectDependencies ==
    FoldLeft(LAMBDA found, p : IF \E q \in ToSet(found) : SameKey(p, q) THEN found ELSE Append(found, p),
             <<>>, FoldLeft(LAMBDA all, file : all \o Read(file), <<>>, scenario.workspace))

-----------------------------------------------------------------------------
(* query_osv asks for the packages with a version and pairs the answers with all *)

Queried(packages) == SelectSeq(packages, LAMBDA p : p.version # "")

Results(packages) ==
    LET asked == Queried(packages)
    IN [i \in 1..Len(asked) |-> asked[i].version \in Known[asked[i].name]]

Vulnerabilities(packages) ==
    LET results == Results(packages)
    IN {packages[i] : i \in {j \in 1..Len(results) : results[j]}}

Limited(packages, s) ==
    IF scenario.scans[s] = "api" THEN packages
    ELSE SubSeq(packages, 1, IF Len(packages) < MaxPackages THEN Len(packages) ELSE MaxPackages)

-----------------------------------------------------------------------------
Idle == [pc |-> "idle", packages |-> <<>>, vulnerable |-> {}, seen |-> {}]
NoReport == [ok |-> FALSE, path |-> FALSE, content |-> 0]

Init ==
    /\ scenario \in Scenarios
    /\ scan = [s \in DOMAIN scenario.scans |-> Idle]
    /\ records = {}
    /\ findings = {}
    /\ output = [k \in {"semgrep", "syft", "codeql"} |-> 0]
    /\ report = [t \in {} |-> NoReport]
    /\ history = [faults |-> 0, met |-> FALSE]

TypeOK ==
    /\ \A s \in DOMAIN scenario.scans :
         /\ scan[s].pc \in {"idle", "query", "delete", "insert", "ingest", "ended"}
         /\ scan[s].vulnerable \subseteq ToSet(scan[s].packages)
    /\ \A r \in records : r.by \in DOMAIN scenario.scans /\ r.count \in 0..1
    /\ \A f \in findings : f.by \in DOMAIN scenario.scans /\ f.source \in {"sca-mcp", "sca-osv"}
    /\ DOMAIN report \subseteq DOMAIN scenario.tools
    /\ \A k \in DOMAIN output : output[k] \in {0} \cup DOMAIN report

MayFault == history.faults < MaxFaults
Fault == history' = [history EXCEPT !.faults = @ + 1]

\* A run has one pipeline, which scans once at a time.
Detect(s) ==
    /\ scan[s].pc = "idle"
    /\ scenario.scans[s] = "pipeline" =>
         \A t \in DOMAIN scenario.scans \ {s} : scenario.scans[t] = "pipeline" => scan[t].pc \in {"idle", "ended"}
    /\ scan' = [scan EXCEPT ![s].pc = "query", ![s].packages = Limited(DetectDependencies, s)]
    /\ UNCHANGED <<scenario, records, findings, output, report, history>>

QueryOsv(s) ==
    /\ scan[s].pc = "query"
    /\ scan' = [scan EXCEPT ![s].pc = "delete", ![s].vulnerable = Vulnerabilities(scan[s].packages)]
    /\ UNCHANGED <<scenario, records, findings, output, report, history>>

\* Without an answer of OSV the API answers 502, and the pipeline goes on with the packages
\* and no vulnerabilities, or with nothing if the tool's container is what failed.
QueryFails(s) ==
    /\ scan[s].pc = "query" /\ MayFault
    /\ IF scenario.scans[s] = "api" THEN scan' = [scan EXCEPT ![s].pc = "ended"]
       ELSE \E packages \in {scan[s].packages, <<>>} :
              scan' = [scan EXCEPT ![s].pc = "delete", ![s].packages = packages]
    /\ Fault
    /\ UNCHANGED <<scenario, records, findings, output, report>>

\* _replace_dependency_records deletes the rows that are committed, ...
\* Mutant: only the rows of packages that are gone.
DeleteRecordsGone(s) ==
    /\ scan[s].pc = "delete"
    /\ scan' = [scan EXCEPT ![s].pc = "insert", ![s].seen = {r \in records : r.package \notin ToSet(scan[s].packages)}]
    /\ history' = [history EXCEPT !.met = @ \/ \E t \in DOMAIN scenario.scans : scan[t].pc = "insert"]
    /\ UNCHANGED <<scenario, records, findings, output, report>>

DeleteRecords(s) ==
    /\ scan[s].pc = "delete"
    /\ scan' = [scan EXCEPT ![s].pc = "insert", ![s].seen = records]
    /\ history' = [history EXCEPT !.met = @ \/ \E t \in DOMAIN scenario.scans : scan[t].pc = "insert"]
    /\ UNCHANGED <<scenario, records, findings, output, report>>

\* _dependency_vulnerability_map counts by ecosystem, name and version.
VulnerabilityCount(s, p) == Cardinality({v \in scan[s].vulnerable : SameKey(v, p)})

NewRecords(s) ==
    {[by |-> s, package |-> p, count |-> VulnerabilityCount(s, p)] : p \in ToSet(scan[s].packages)}

NewFindings(s, source) == {[by |-> s, package |-> v, source |-> source] : v \in scan[s].vulnerable}

\* ... and inserts the new ones; run_sca adds the findings with them, whatever there is.
CommitRecords(s) ==
    /\ scan[s].pc = "insert"
    /\ records' = (records \ scan[s].seen) \cup NewRecords(s)
    /\ findings' = IF scenario.scans[s] = "api" THEN findings \cup NewFindings(s, "sca-osv") ELSE findings
    /\ scan' = [scan EXCEPT ![s].pc = IF scenario.scans[s] = "api" THEN "ended" ELSE "ingest"]
    /\ UNCHANGED <<scenario, output, report, history>>

\* _ingest_tool_findings adds those that do not exist.
IngestFindings(s) ==
    /\ scan[s].pc = "ingest"
    /\ findings' = findings \cup
         {f \in NewFindings(s, "sca-mcp") :
            ~\E g \in findings : g.source = f.source /\ g.package = f.package}
    /\ scan' = [scan EXCEPT ![s].pc = "ended"]
    /\ UNCHANGED <<scenario, records, output, report, history>>

-----------------------------------------------------------------------------
(* The tools of one sidecar.  A call blocks the sidecar, and each tool has one file. *)

NextCall == Cardinality(DOMAIN report) + 1
MayRun(tool) == NextCall \in DOMAIN scenario.tools /\ scenario.tools[NextCall] = tool

Report(ok, path, tool, written) ==
    /\ output' = [output EXCEPT ![tool] = written]
    /\ report' = [t \in DOMAIN report \cup {NextCall} |->
                    IF t = NextCall THEN [ok |-> ok, path |-> path, content |-> written] ELSE report[t]]

\* semgrep writes its file itself, if it ends with 0 or 1; the answer to a failure names the file that is there.
SemgrepFails == Report(FALSE, output["semgrep"] # 0, "semgrep", output["semgrep"])

SemgrepScan ==
    /\ MayRun("semgrep")
    /\ \/ Report(TRUE, TRUE, "semgrep", NextCall) /\ UNCHANGED history
       \/ MayFault /\ Fault /\ (SemgrepFails \/ Report(FALSE, TRUE, "semgrep", NextCall))
    /\ UNCHANGED <<scenario, scan, records, findings>>

\* generate_sbom writes what syft prints, if it succeeds, and names no file otherwise.
GenerateSbom ==
    /\ MayRun("syft")
    /\ \/ Report(TRUE, TRUE, "syft", NextCall) /\ UNCHANGED history
       \/ MayFault /\ Fault /\ Report(FALSE, FALSE, "syft", output["syft"])
    /\ UNCHANGED <<scenario, scan, records, findings>>

\* codeql_query: a query that fails names the file that is there, unless it timed out; what
\* it printed becomes the file if there is none.
CodeqlQuery ==
    /\ MayRun("codeql")
    /\ \/ Report(TRUE, TRUE, "codeql", NextCall) /\ UNCHANGED history
       \/ MayFault /\ Fault /\ \E path \in {FALSE, output["codeql"] # 0} :
                                 Report(FALSE, path, "codeql", output["codeql"])
       \/ MayFault /\ Fault /\ output["codeql"] = 0 /\ Report(FALSE, TRUE, "codeql", NextCall)
    /\ UNCHANGED <<scenario, scan, records, findings>>

-----------------------------------------------------------------------------
Scanning(s) ==
    \/ Detect(s) \/ QueryOsv(s) \/ QueryFails(s) \/ DeleteRecords(s) \/ CommitRecords(s) \/ IngestFindings(s)

Next == (\E s \in DOMAIN scenario.scans : Scanning(s)) \/ SemgrepScan \/ GenerateSbom \/ CodeqlQuery

Spec == Init /\ [][Next]_vars

-----------------------------------------------------------------------------
(* Properties *)

\* The blocks of a file: from one line of kind "block" to the next.
Blocks(lines) ==
    {b \in (0..Len(lines)) \X (1..(Len(lines) + 1)) :
        /\ b[1] < b[2]
        /\ b[1] = 0 \/ lines[b[1]].kind = "block"
        /\ b[2] = Len(lines) + 1 \/ lines[b[2]].kind = "block"
        /\ \A i \in (b[1] + 1)..(b[2] - 1) : lines[i].kind # "block"}

Says(lines, b, name, version) ==
    /\ \E i \in b[1]..(b[2] - 1) : i > 0 /\ lines[i].kind \in {"block", "name"} /\ lines[i].name = name
    /\ \E i \in b[1]..(b[2] - 1) : i > 0 /\ lines[i].kind = "version" /\ Stripped[lines[i].version] = version

\* Every package read from a file in blocks has its name and its version from one block.
PackagesAreDeclared ==
    \A i \in 1..Len(scenario.workspace) :
        LET file == scenario.workspace[i]
        IN file.reader \in {"poetry", "cargo", "yarn"} => \A p \in ToSet(Read(file)) : \E b \in Blocks(file.lines) :
              Says(file.lines, b, p.name, p.version)

\* The query leaves a package out only because nothing was left of a version its manifest has.
OmittedWereStripped ==
    \A s \in DOMAIN scenario.scans : \A p \in ToSet(scan[s].packages) : p.version = "" =>
        \E file \in ToSet(scenario.workspace) : file.manifest = p.manifest /\ \E line \in ToSet(file.lines) :
            /\ line.name = p.name /\ line.version # ""
            /\ "" \in {Stripped[line.version], Stripped[WithoutV[line.version]]}

\* The answers are paired with the packages by their position: one is laid to a package and
\* version that OSV knows it for, unless the query left out that package or one before it.
\* Then it is laid to a package that comes too early, but none is lost.
VulnerabilitiesFitPackages ==
    \A s \in DOMAIN scenario.scans :
        LET packages == scan[s].packages
            Affected == {i \in DOMAIN packages : packages[i].version \in Known[packages[i].name]}
        IN scan[s].vulnerable # {} =>
             /\ \A i \in DOMAIN packages : packages[i] \in scan[s].vulnerable =>
                   \/ i \in Affected
                   \/ /\ \E j \in 1..i : packages[j].version = ""
                      /\ \E j \in Affected : i < j
             /\ Cardinality(scan[s].vulnerable) = Cardinality(Affected)

\* Unless two scans of the run were between their deletion and their commit at once, the
\* rows are those of one scan, one for each package, and with each of them its count; and
\* the pipeline adds no finding twice.
RecordsAreOfOneScan ==
    ~history.met =>
        /\ \A r, t \in records : r.by = t.by /\ (r # t => ~SameKey(r.package, t.package))
        /\ \A f, g \in findings : f # g /\ f.source = "sca-mcp" /\ g.source = "sca-mcp" =>
              ~SameKey(f.package, g.package)

\* A tool call that reports success has written the file it reports.
SuccessIsOwnOutput ==
    \A t \in DOMAIN report : report[t].ok => report[t].path /\ report[t].content = t

\* What OSV's answers are laid to is declared in a manifest, and has them unless a version was
\* stripped away.
VulnerabilitiesAreDeclared == PackagesAreDeclared /\ OmittedWereStripped /\ VulnerabilitiesFitPackages

\* What a scan or a tool leaves behind is its own.
ResultsAreOwn == RecordsAreOfOneScan /\ SuccessIsOwnOutput
=============================================================================
