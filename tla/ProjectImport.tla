--------------------------- MODULE ProjectImport ---------------------------
(***************************************************************************)
(* Imported projects and the cleanup of the storage they use               *)
(* (services/platform/app/services/workspace.py, storage_cleanup.py and    *)
(* their handlers in api/routes.py).                                       *)
(*                                                                         *)
(* An import is a row that says "importing", files that are written        *)
(* without a pause of the event loop, a row for the snapshot and a row     *)
(* that says "ready"; a cleanup reads which files are referenced and then  *)
(* removes others.  Calls interleave wherever the database is awaited.     *)
(***************************************************************************)
EXTENDS Naturals, FiniteSetsExt, SequencesExt

CONSTANTS
    Projects,           \* the slugs of the project names
    Kept,               \* runtime packages that exist at the start, by the project of their run
    Scenarios,          \* sequences of calls: kind, and project and source, or the cleanup's request
    AllowedSchemes,     \* ALLOWED_GIT_URL_SCHEMES
    AllowedHosts,       \* ALLOWED_GIT_HOSTS
    MaxFiles,           \* MAX_WORKSPACE_FILES, 0 for no limit
    MaxFaults           \* bound: crashes, failing requests to the database, failing deletions

Calls == UNION {DOMAIN s : s \in Scenarios}
Kinds == {"package", "upload", "workspace", "snapshot"}

VARIABLES
    do,           \* do[c]: the call c
    call,         \* call[c]: control point, and what a cleanup knows of the references
    project,      \* project[p]: status of the row of p, "none" when there is none
    rows,         \* the projects that have a row in ProjectSnapshot
    disk,         \* disk[k][p]: "absent", "empty" (only the directory of p), "part" or "whole"
    old,          \* <<k, p>> whose mtime is older than every retention time but 0
    history       \* history variables

vars == <<do, call, project, rows, disk, old, history>>

Live == DOMAIN do
Working(c) == call[c].pc \notin {"absent", "idle", "ended"}
Imports(c) == do[c].kind \in {"git", "zip", "manual"}

TypeOK ==
    /\ \A c \in Live : /\ call[c].pc \in {"idle", "insert", "import", "record", "ready", "failed",
                                          "clean", "ended"}
                       /\ call[c].refs \subseteq Projects
                       /\ call[c].pc \in {"import", "record", "failed"} => project[do[c].project] = "importing"
    /\ \A p \in Projects : project[p] \in {"none", "created", "importing", "failed", "ready"}
    /\ \A p \in rows : project[p] \in {"importing", "ready"}
    /\ \A k \in Kinds, p \in Projects :
         disk[k][p] \in {"absent", "empty", "part", "whole"} /\ (<<k, p>> \in old => disk[k][p] # "absent")

-----------------------------------------------------------------------------
(* What an import may do to the files *)

\* _validate_git_host: h names a host, and whether it is local or a private address.
HostIsValid(h) == h.name # "" /\ (h.name \in AllowedHosts \/ ~h.private)

\* _validate_git_url: url.form is "scp" (user@host:path), "url", or "broken" when urlparse raises.
UrlIsValid(url) ==
    /\ IF url.form = "scp" THEN "ssh" \in AllowedSchemes
       ELSE url.scheme \in AllowedSchemes \ {"", "file"}
    /\ HostIsValid(url.host)

Outcome(pc, upload, workspace, snapshot) ==
    [pc |-> pc, upload |-> upload, workspace |-> workspace, snapshot |-> snapshot]

\* _snapshot_result archives the workspace; an error of the file system is not caught.
Archived(upload) ==
    {Outcome("record", upload, "whole", "whole"), Outcome("ended", upload, "whole", "part")}

\* import_git: git fails or ends well; that it is killed after 300 s, or that it is
\* missing, is not caught, nor is the ValueError of urlparse.
GitOutcomes(url) ==
    IF url.form = "broken" THEN {Outcome("ended", "absent", "absent", "absent")}
    ELSE IF ~UrlIsValid(url) THEN {Outcome("failed", "absent", "absent", "absent")}
    ELSE {Outcome("failed", "absent", "empty", "absent"), Outcome("ended", "absent", "empty", "absent"),
          Outcome("ended", "absent", "part", "absent")}
         \cup Archived("absent")

\* _extract_zip looks at every entry before it writes the first file; it is "oversized"
\* when the files up to it exceed MAX_WORKSPACE_UNCOMPRESSED_BYTES.
EntriesAreValid(archive) ==
    /\ archive.entries \cap {"encrypted", "symlink", "oversized", "escaping"} = {}
    /\ MaxFiles > 0 => archive.files <= MaxFiles

\* import_zip: the staged upload stays, unless it is too large; what was extracted is
\* removed when the archive is damaged, not when the file system fails.
ZipOutcomes(archive) ==
    IF archive.large THEN {Outcome("failed", "empty", "absent", "absent")}
    ELSE IF ~EntriesAreValid(archive) THEN {Outcome("failed", "whole", "empty", "absent")}
    ELSE {Outcome("failed", "whole", "empty", "absent"), Outcome("ended", "whole", "part", "absent")}
         \cup Archived("whole")

Outcomes(c) == IF do[c].kind = "git" THEN GitOutcomes(do[c].url) ELSE ZipOutcomes(do[c].archive)

\* What a process that dies during an import may leave.
Leftovers(c) ==
    {Outcome("ended", u, w, s) :
        u \in IF do[c].kind = "zip" THEN {"part", "whole"} ELSE {"absent"},
        w \in {"absent", "part", "whole"}, s \in {"absent", "part"}}

-----------------------------------------------------------------------------
Idle == [pc |-> "idle", refs |-> {}]

Init ==
    /\ do \in Scenarios
    /\ call = [c \in Calls |-> IF c \in Live THEN Idle ELSE [Idle EXCEPT !.pc = "absent"]]
    /\ project = [p \in Projects |-> "none"]
    /\ rows = {}
    /\ disk = [k \in Kinds |-> [p \in Projects |-> IF k = "package" /\ p \in Kept THEN "whole" ELSE "absent"]]
    /\ old = {}
    /\ history = [faults |-> 0, stuck |-> {}, undercut |-> {}]

Goto(c, pc) == call' = [call EXCEPT ![c].pc = pc]
MayFault == history.faults < MaxFaults

\* create_project, upload_zip_project: 409 for a project that exists.
LookForProject(c) ==
    /\ call[c].pc = "idle" /\ Imports(c)
    /\ Goto(c, IF project[do[c].project] = "none" THEN "insert" ELSE "ended")
    /\ UNCHANGED <<do, project, rows, disk, old, history>>

\* The slug is the primary key: the second of two inserts is an error.
InsertProject(c) ==
    /\ call[c].pc = "insert"
    /\ LET p == do[c].project
           manual == do[c].kind = "manual"
           free == project[p] = "none"
       IN /\ project' = IF free THEN [project EXCEPT ![p] = IF manual THEN "created" ELSE "importing"]
                        ELSE project
          /\ Goto(c, IF manual \/ ~free THEN "ended" ELSE "import")
    /\ UNCHANGED <<do, rows, disk, old, history>>

Written(p, o) ==
    [disk EXCEPT !["upload"][p] = o.upload, !["workspace"][p] = o.workspace, !["snapshot"][p] = o.snapshot]

\* A call that ends with the row at "importing" leaves it there.
Stuck(p, pc) == [history EXCEPT !.stuck = IF pc = "ended" THEN @ \cup {p} ELSE @]

Import(c) ==
    /\ call[c].pc = "import"
    /\ \E o \in Outcomes(c) :
         /\ disk' = Written(do[c].project, o)
         /\ Goto(c, o.pc)
         /\ history' = Stuck(do[c].project, o.pc)
    /\ UNCHANGED <<do, project, rows, old>>

\* _record_snapshot
RecordSnapshot(c) ==
    /\ call[c].pc = "record"
    /\ rows' = rows \cup {do[c].project}
    /\ Goto(c, "ready")
    /\ UNCHANGED <<do, project, disk, old, history>>

\* _mark_project_status
\* Mutant: only a ready project is marked.
MarkProjectReadyOnly(c) ==
    /\ call[c].pc \in {"ready", "failed"}
    /\ project' = IF call[c].pc = "ready" THEN [project EXCEPT ![do[c].project] = "ready"] ELSE project
    /\ Goto(c, "ended")
    /\ UNCHANGED <<do, rows, disk, old, history>>

MarkProject(c) ==
    /\ call[c].pc \in {"ready", "failed"}
    /\ project' = [project EXCEPT ![do[c].project] = call[c].pc]
    /\ Goto(c, "ended")
    /\ UNCHANGED <<do, rows, disk, old, history>>

\* The database fails and the call ends with an error.
DatabaseFails(c) ==
    /\ Working(c) /\ call[c].pc \notin {"import", "clean"} /\ MayFault
    /\ Goto(c, "ended")
    /\ history' = [history EXCEPT !.faults = @ + 1,
                     !.stuck = IF call[c].pc = "insert" THEN @ ELSE @ \cup {do[c].project}]
    /\ UNCHANGED <<do, project, rows, disk, old>>

\* The process dies; at most one import can have been at its files.  (A cleanup that is
\* cut off is one with a smaller max_entries.)
Crash ==
    /\ MayFault
    /\ \E c \in Calls : Working(c)
    /\ \/ UNCHANGED disk
       \/ \E c \in Calls : call[c].pc = "import" /\ \E o \in Leftovers(c) : disk' = Written(do[c].project, o)
    /\ call' = [c \in Calls |-> IF Working(c) THEN [call[c] EXCEPT !.pc = "ended"] ELSE call[c]]
    /\ history' = [history EXCEPT !.faults = @ + 1,
                     !.stuck = @ \cup {p \in Projects : project[p] = "importing"}]
    /\ UNCHANGED <<do, project, rows, old>>

-----------------------------------------------------------------------------
(* The cleanup.  A cleanup knows the paths of the rows it read; a candidate is kept   *)
(* when it is one of them or above one.                                               *)

PathOf(k, p, what) ==
    CASE k = "workspace" -> IF what = "empty" THEN <<k, p>> ELSE <<k, p, "files">>
      [] OTHER -> <<k, p>>

References(refs) == {<<"workspace", p, "files">> : p \in refs} \cup {<<"snapshot", p, "archive">> : p \in refs}

\* Mutant: only the path itself is protected.
ContainsReferenceItself(path, refs) == path \in References(refs)

\* _contains_reference
ContainsReference(path, refs) == \E r \in References(refs) : IsPrefix(path, r)

\* _expired_children and _expired_nested_children: packages and uploads are never
\* referenced; retention 0 takes files of any age.
IsExpired(k, p, request, refs) ==
    /\ disk[k][p] # "absent"
    /\ k \in {"package", "upload"} \/ ~ContainsReference(PathOf(k, p, disk[k][p]), refs)
    /\ k \in request.zero \/ <<k, p>> \in old

Expired(request, refs) == {e \in Kinds \X Projects : IsExpired(e[1], e[2], request, refs)}

\* The oldest max_entries candidates.
Selections(request, refs) ==
    LET expired == Expired(request, refs)
    IN {s \in kSubset(Min({request.max, Cardinality(expired)}), expired) :
          s \subseteq old \/ expired \cap old \subseteq s}

\* _delete_candidate: the directory above a workspace stays.
Deleted(k, p) == IF k = "workspace" /\ disk[k][p] # "empty" THEN "empty" ELSE "absent"

\* Once a cleanup with retention 0 has taken unrecorded files, a row may name what is gone.
DiskWithout(removed, broken) ==
    [k \in Kinds |-> [p \in Projects |->
        IF <<k, p>> \in removed THEN Deleted(k, p)
        ELSE IF <<k, p>> \in broken /\ disk[k][p] # "empty" THEN "part" ELSE disk[k][p]]]

ReadReferences(c) ==
    /\ call[c].pc = "idle" /\ do[c].kind = "cleanup"
    /\ call' = [call EXCEPT ![c] = [pc |-> "clean", refs |-> rows]]
    /\ UNCHANGED <<do, project, rows, disk, old, history>>

\* cleanup: an error of one deletion does not stop the others.
Cleanup(c) ==
    /\ call[c].pc = "clean"
    /\ \E selected \in Selections(do[c], call[c].refs) :
         \E broken \in {{}} \cup IF MayFault THEN {{e} : e \in selected} ELSE {} :
           LET removed == IF do[c].dry_run THEN {} ELSE selected \ broken
               hit == IF do[c].dry_run THEN {} ELSE selected
           IN /\ disk' = DiskWithout(removed, hit \cap broken)
              /\ old' = old \ hit
              /\ history' = [history EXCEPT
                   !.faults = @ + Cardinality(hit \cap broken),
                   !.undercut = @ \cup {e[2] : e \in {x \in hit : /\ x[1] \in do[c].zero \cap {"workspace", "snapshot"}
                                                                /\ x[2] \notin call[c].refs}}]
    /\ Goto(c, "ended")
    /\ UNCHANGED <<do, project, rows>>

\* No request takes as long as a retention time.
TimePasses ==
    /\ \A c \in Calls : ~Working(c)
    /\ old' = {e \in Kinds \X Projects : disk[e[1]][e[2]] # "absent"}
    /\ old' # old
    /\ UNCHANGED <<do, call, project, rows, disk, history>>

-----------------------------------------------------------------------------
Step(c) ==
    \/ LookForProject(c) \/ InsertProject(c) \/ Import(c) \/ RecordSnapshot(c) \/ MarkProject(c)
    \/ DatabaseFails(c) \/ ReadReferences(c) \/ Cleanup(c)

Next == (\E c \in Calls : Step(c)) \/ Crash \/ TimePasses

Spec == Init /\ [][Next]_vars

-----------------------------------------------------------------------------
(* Properties *)

\* The workspace and the archive that a snapshot's row names are whole, whatever the
\* cleanups do; but a cleanup with retention 0 may take the files of an import whose row
\* is not there yet when the references are read.
ReferencedFilesAreKept ==
    \A p \in rows \ history.undercut : disk["workspace"][p] = "whole" /\ disk["snapshot"][p] = "whole"

\* A row says "importing" only while a call imports, unless that call was cut off or
\* ended with an error that is not a WorkspaceImportError; a ready project has a snapshot.
ImportsEnd ==
    \A p \in Projects :
        /\ project[p] = "importing" /\ p \notin history.stuck =>
             \E c \in Live : Working(c) /\ Imports(c) /\ do[c].project = p /\ call[c].pc # "insert"
        /\ project[p] = "ready" => p \in rows
=============================================================================
