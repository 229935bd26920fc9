---------------------------- MODULE ServiceProofs ----------------------------
(***************************************************************************)
(* Proofs about the services of module Services, for every value of the    *)
(* constants.                                                              *)
(*                                                                         *)
(* The import of projects (ProjectImport): an import owns the files of its *)
(* project from the row that says "importing" to the one that says         *)
(* "ready", and no cleanup that began before takes them, but one with      *)
(* retention 0.                                                            *)
(*                                                                         *)
(* The sessions of an agent (AgentSessions): what SessionProofs proves.    *)
(*                                                                         *)
(* The knowledge base (KnowledgeBase): whenever the last call at work on a *)
(* document was alone, both stores hold the windows of its text, or none,  *)
(* although every call writes them in two transactions and may fail        *)
(* between them.                                                           *)
(***************************************************************************)
EXTENDS Services, Integers, Sequences, FiniteSets, FiniteSetTheorems,
        WellFoundedInduction, TLAPS

-----------------------------------------------------------------------------
(* Imports and cleanups *)

ImportPoints == {"absent", "idle", "insert", "import", "record", "ready", "failed", "clean", "ended"}
ImportEntry == [pc : ImportPoints, refs : SUBSET Projects]
FileStates == {"absent", "empty", "part", "whole"}
ProjectStates == {"none", "created", "importing", "failed", "ready"}
ImportHistory == [faults : Nat, stuck : SUBSET Projects, undercut : SUBSET Projects]

ImportTypes ==
    /\ iDo \in ImportCalls
    /\ iCall \in [Imports!Calls -> ImportEntry]
    /\ project \in [Projects -> ProjectStates]
    /\ snapshots \in SUBSET Projects
    /\ disk \in [Imports!Kinds -> [Projects -> FileStates]]
    /\ old \in SUBSET (Imports!Kinds \X Projects)
    /\ iHistory \in ImportHistory

\* The call c has the row of its project at "importing".
Importing(c) == iCall[c].pc \in {"import", "record", "ready", "failed"}
Fresh(p) == \A k \in {"upload", "workspace", "snapshot"} : disk[k][p] = "absent"
Whole(p) == disk["workspace"][p] = "whole" /\ disk["snapshot"][p] = "whole"
Young(p) == <<"workspace", p>> \notin old /\ <<"snapshot", p>> \notin old

\* Where a call may be: what it imports is its own, and what it will record is too young to
\* be taken; a cleanup knows no reference only to what was recorded since, which is young.
AtWork(c) ==
    /\ iCall[c].pc = "absent" <=> c \notin Imports!Live
    /\ iCall[c].pc = "insert" => Imports!Imports(c)
    /\ Importing(c) => Imports!Imports(c) /\ project[iDo[c].project] = "importing"
    /\ iCall[c].pc \in {"import", "record", "failed"} => iDo[c].project \notin snapshots
    /\ iCall[c].pc = "import" => Fresh(iDo[c].project)
    /\ iCall[c].pc = "record" => /\ Young(iDo[c].project)
                                 /\ iDo[c].project \in iHistory.undercut \/ Whole(iDo[c].project)
    /\ iCall[c].pc = "ready" => iDo[c].project \in snapshots
    /\ iCall[c].pc = "clean" => /\ iCall[c].refs \subseteq snapshots
                                /\ \A q \in snapshots \ iCall[c].refs : Young(q)

CallsAtWork == \A c \in Imports!Calls : AtWork(c)

\* No two calls import one project.
OneImportEach ==
    \A c, d \in Imports!Live : Importing(c) /\ Importing(d) /\ iDo[c].project = iDo[d].project => c = d

ProjectRows ==
    \A p \in Projects :
        /\ project[p] = "none" => Fresh(p)
        /\ project[p] = "ready" => p \in snapshots
        /\ p \in snapshots => /\ project[p] \in {"importing", "ready"}
                              /\ p \in iHistory.undercut \/ Whole(p)
        /\ project[p] = "importing" /\ p \notin iHistory.stuck =>
             \E c \in Imports!Live : Importing(c) /\ iDo[c].project = p

\* What is old is there.
OldFiles == \A k \in Imports!Kinds, p \in Projects : <<k, p>> \in old => disk[k][p] # "absent"

ImportInv == ImportTypes /\ CallsAtWork /\ OneImportEach /\ ProjectRows /\ OldFiles

\* The imports count as everyone does.
LEMMA ImportsCount == \A S : Imports!Cardinality(S) = Cardinality(S)
BY DEF Imports!Cardinality, Cardinality

\* The calls at hand are calls.
LEMMA LiveCalls ==
    ASSUME ImportTypes
    PROVE  Imports!Live \subseteq Imports!Calls
BY DEF ImportTypes, Imports!Live, Imports!Calls

\* A call that has begun is at hand, and an import has a project.
LEMMA ImportCall ==
    ASSUME ImportTypes, CallsAtWork, NEW c \in Imports!Calls, iCall[c].pc # "absent"
    PROVE  /\ c \in Imports!Live
           /\ Imports!Imports(c) => iDo[c].project \in Projects
<1>1. c \in Imports!Live
  BY DEF CallsAtWork, AtWork
<1>2. ASSUME Imports!Imports(c) PROVE iDo[c].project \in Projects
  BY <1>1, <1>2, ImportAssumption DEF ImportTypes, Imports!Live, Imports!Imports
<1> QED BY <1>1, <1>2

\* A call that moves leaves the others where they are.
LEMMA ImportMoves ==
    ASSUME iCall \in [Imports!Calls -> ImportEntry], NEW c \in Imports!Calls, NEW pc \in ImportPoints,
           iCall' = [iCall EXCEPT ![c].pc = pc]
    PROVE  /\ iCall' \in [Imports!Calls -> ImportEntry] /\ iCall'[c].pc = pc
           /\ iCall'[c].refs = iCall[c].refs
           /\ \A d \in Imports!Calls \ {c} : iCall'[d] = iCall[d]
<1>1. PICK e \in ImportEntry : e = [iCall[c] EXCEPT !.pc = pc]
  BY DEF ImportEntry
<1>2. e.pc = pc /\ e.refs = iCall[c].refs
  BY <1>1 DEF ImportEntry
<1>3. iCall' = [iCall EXCEPT ![c] = e]
  BY <1>1
<1> QED BY <1>2, <1>3

\* What the history of the imports becomes when projects are stuck ...
LEMMA StuckHistory ==
    ASSUME NEW h \in ImportHistory, NEW n \in Nat, NEW r \in SUBSET Projects
    PROVE  LET new == [h EXCEPT !.faults = n, !.stuck = r]
           IN  new \in ImportHistory /\ new.stuck = r /\ new.undercut = h.undercut
<1>1. PICK m \in ImportHistory : m = [h EXCEPT !.faults = n]
  BY DEF ImportHistory
<1>2. m.undercut = h.undercut
  BY <1>1 DEF ImportHistory
<1>3. PICK new : new = [m EXCEPT !.stuck = r]
  OBVIOUS
<1>4. new \in ImportHistory /\ new.stuck = r /\ new.undercut = h.undercut
  BY <1>2, <1>3 DEF ImportHistory
<1> QED BY <1>1, <1>3, <1>4

\* ... and when a cleanup takes files before their row is there.
LEMMA TakenHistory ==
    ASSUME iHistory \in ImportHistory, NEW n \in Nat, NEW taken \in SUBSET Projects,
           iHistory' = [iHistory EXCEPT !.faults = n, !.undercut = iHistory.undercut \cup taken]
    PROVE  /\ iHistory' \in ImportHistory /\ iHistory'.stuck = iHistory.stuck
           /\ iHistory'.undercut = iHistory.undercut \cup taken
<1>1. PICK h \in ImportHistory : h = iHistory
  OBVIOUS
<1>2. PICK r \in SUBSET Projects : r = iHistory.undercut \cup taken
  BY DEF ImportHistory
<1>3. PICK m \in ImportHistory : m = [h EXCEPT !.faults = n]
  BY DEF ImportHistory
<1>4. m.stuck = h.stuck
  BY <1>3 DEF ImportHistory
<1>5. PICK new : new = [m EXCEPT !.undercut = r]
  OBVIOUS
<1>6. new \in ImportHistory /\ new.undercut = r /\ new.stuck = h.stuck
  BY <1>4, <1>5 DEF ImportHistory
<1>7. iHistory' = new
  BY <1>1, <1>2, <1>3, <1>5
<1> QED BY <1>1, <1>2, <1>6, <1>7

\* Two imports of one project at work are one.
LEMMA OtherImport ==
    ASSUME ImportTypes, CallsAtWork, OneImportEach,
           NEW c \in Imports!Calls, NEW d \in Imports!Calls, c # d, Importing(c), Importing(d)
    PROVE  iDo[c].project # iDo[d].project
BY ImportCall DEF OneImportEach, Importing

\* Looking for a project only moves the call.
LEMMA LookForProjectKeeps ==
    ASSUME ImportInv, NEW c \in Imports!Calls, Imports!LookForProject(c)
    PROVE  ImportInv'
<1> DEFINE pc == IF project[iDo[c].project] = "none" THEN "insert" ELSE "ended"
<1>1. /\ iCall[c].pc = "idle" /\ Imports!Imports(c)
      /\ iCall' = [iCall EXCEPT ![c].pc = pc]
      /\ UNCHANGED <<iDo, project, snapshots, disk, old, iHistory>>
  BY DEF Imports!LookForProject, Imports!Goto
<1>2. pc \in {"insert", "ended"} /\ pc \in ImportPoints
  BY DEF ImportPoints
<1> HIDE DEF pc
<1>3. /\ iCall' \in [Imports!Calls -> ImportEntry] /\ iCall'[c].pc = pc
      /\ \A d \in Imports!Calls \ {c} : iCall'[d] = iCall[d]
  BY <1>1, <1>2, ImportMoves DEF ImportInv, ImportTypes
<1>4. ImportTypes'
  BY <1>1, <1>3 DEF ImportInv, ImportTypes
<1>5. ASSUME NEW d \in Imports!Calls PROVE AtWork(d)'
  BY <1>1, <1>2, <1>3 DEF ImportInv, CallsAtWork, AtWork, Imports!Live, Imports!Imports, Importing, Fresh, Whole, Young
<1>6. \A d \in Imports!Calls : Importing(d)' <=> Importing(d)
  BY <1>1, <1>2, <1>3 DEF Importing
<1>7. OneImportEach'
  BY <1>1, <1>6, LiveCalls DEF ImportInv, OneImportEach, Imports!Live
<1>8. ProjectRows'
  BY <1>1, <1>6, LiveCalls DEF ImportInv, ProjectRows, Imports!Live, Fresh, Whole
<1>9. OldFiles'
  BY <1>1 DEF ImportInv, OldFiles
<1> QED BY <1>4, <1>5, <1>7, <1>8, <1>9 DEF ImportInv, CallsAtWork, Imports!Calls

\* An insert gives the project to the call when nobody had it.
LEMMA InsertProjectKeeps ==
    ASSUME ImportInv, NEW c \in Imports!Calls, Imports!InsertProject(c)
    PROVE  ImportInv'
<1> DEFINE p == iDo[c].project
           mark == IF iDo[c].kind = "manual" THEN "created" ELSE "importing"
           pc == IF iDo[c].kind = "manual" \/ project[p] # "none" THEN "ended" ELSE "import"
<1>1. /\ iCall[c].pc = "insert"
      /\ project' = IF project[p] = "none" THEN [project EXCEPT ![p] = mark] ELSE project
      /\ iCall' = [iCall EXCEPT ![c].pc = pc]
      /\ UNCHANGED <<iDo, snapshots, disk, old, iHistory>>
  BY DEF Imports!InsertProject, Imports!Goto
<1>2. Imports!Imports(c) /\ c \in Imports!Live /\ p \in Projects
  BY <1>1, ImportCall DEF ImportInv, CallsAtWork, AtWork
<1>3. /\ pc \in ImportPoints /\ pc \in {"ended", "import"}
      /\ pc = "import" => project[p] = "none" /\ mark = "importing"
      /\ mark = "importing" /\ project[p] = "none" => pc = "import"
      /\ mark \in {"created", "importing"}
  BY DEF ImportPoints
<1> HIDE DEF pc, mark
<1>4. /\ iCall' \in [Imports!Calls -> ImportEntry] /\ iCall'[c].pc = pc
      /\ \A d \in Imports!Calls \ {c} : iCall'[d] = iCall[d]
  BY <1>1, <1>3, ImportMoves DEF ImportInv, ImportTypes
<1>5. /\ project' \in [Projects -> ProjectStates]
      /\ \A q \in Projects \ {p} : project'[q] = project[q]
      /\ project[p] # "none" => project'[p] = project[p]
      /\ project[p] = "none" => project'[p] = mark
  BY <1>1, <1>2, <1>3 DEF ImportInv, ImportTypes, ProjectStates
<1> HIDE DEF p
<1>6. ImportTypes'
  BY <1>1, <1>4, <1>5 DEF ImportInv, ImportTypes
<1>7. \A q \in Projects : project[q] # "none" => project'[q] = project[q]
  BY <1>5
<1>8. ASSUME NEW d \in Imports!Calls PROVE AtWork(d)'
  <2>1. CASE d = c
    <3>1. pc = "import" => /\ project'[p] = "importing" /\ p \notin snapshots /\ Fresh(p)
      BY <1>2, <1>3, <1>5 DEF ImportInv, ProjectRows
    <3> QED BY <1>1, <1>2, <1>3, <1>4, <2>1, <3>1
            DEF AtWork, Imports!Live, Imports!Imports, Importing, Fresh, p
  <2>2. CASE d # c
    <3>1. iCall'[d] = iCall[d] /\ AtWork(d)
      BY <1>4, <2>2 DEF ImportInv, CallsAtWork
    <3>2. Importing(d) => project'[iDo[d].project] = "importing"
      <4> SUFFICES ASSUME Importing(d) PROVE project'[iDo[d].project] = "importing"
        OBVIOUS
      <4>1. iDo[d].project \in Projects
        BY <3>1, ImportCall DEF ImportInv, AtWork, Importing
      <4> QED BY <3>1, <4>1, <1>7 DEF AtWork
    <3> QED BY <1>1, <3>1, <3>2 DEF AtWork, Imports!Live, Imports!Imports, Importing, Fresh, Whole, Young
  <2> QED BY <2>1, <2>2
<1>9. OneImportEach'
  <2> SUFFICES ASSUME NEW d \in Imports!Live, NEW e \in Imports!Live, Importing(d)', Importing(e)',
                      iDo[d].project = iDo[e].project
               PROVE  d = e
    BY <1>1 DEF OneImportEach, Imports!Live
  <2>1. ASSUME NEW f \in Imports!Live, Importing(f)', f # c
        PROVE  Importing(f) /\ iDo[f].project \in Projects /\ project[iDo[f].project] = "importing"
    BY <1>4, <2>1, LiveCalls, ImportCall DEF ImportInv, CallsAtWork, AtWork, Importing
  <2>2. ASSUME Importing(c)' PROVE project[p] = "none"
    BY <1>3, <1>4, <2>2 DEF Importing
  <2> QED BY <2>1, <2>2 DEF ImportInv, OneImportEach, p
<1>10. ProjectRows'
  <2> SUFFICES ASSUME NEW q \in Projects
               PROVE  /\ project'[q] = "none" => Fresh(q)
                      /\ project'[q] = "ready" => q \in snapshots
                      /\ q \in snapshots => /\ project'[q] \in {"importing", "ready"}
                                            /\ q \in iHistory.undercut \/ Whole(q)
                      /\ project'[q] = "importing" /\ q \notin iHistory.stuck =>
                           \E d \in Imports!Live : Importing(d)' /\ iDo[d].project = q
    BY <1>1 DEF ProjectRows, Imports!Live, Fresh, Whole
  <2>1. CASE project'[q] = project[q]
    <3>1. ASSUME NEW d \in Imports!Live, Importing(d) PROVE Importing(d)'
      BY <1>1, <1>4, <3>1, LiveCalls DEF ImportInv, Importing
    <3> QED BY <2>1, <3>1 DEF ImportInv, ProjectRows
  <2>2. CASE q = p /\ project[p] = "none"
    <3>1. p \notin snapshots
      BY <1>2, <2>2 DEF ImportInv, ProjectRows
    <3>2. mark = "importing" => Importing(c)'
      BY <1>3, <1>4, <2>2 DEF Importing
    <3> QED BY <1>2, <1>3, <1>5, <2>2, <3>1, <3>2 DEF p
  <2> QED BY <1>5, <2>1, <2>2
<1>11. OldFiles'
  BY <1>1 DEF ImportInv, OldFiles
<1> QED BY <1>1, <1>6, <1>8, <1>9, <1>10, <1>11 DEF ImportInv, CallsAtWork, Imports!Calls

\* What an import writes is of its project.
LEMMA WrittenFiles ==
    ASSUME disk \in [Imports!Kinds -> [Projects -> FileStates]], NEW p \in Projects, NEW o,
           o.upload \in FileStates, o.workspace \in FileStates, o.snapshot \in FileStates,
           disk' = Imports!Written(p, o)
    PROVE  /\ disk' \in [Imports!Kinds -> [Projects -> FileStates]]
           /\ disk'["workspace"][p] = o.workspace /\ disk'["snapshot"][p] = o.snapshot
           /\ \A k \in Imports!Kinds, q \in Projects : q # p \/ k = "package" => disk'[k][q] = disk[k][q]
<1>1. {"upload", "workspace", "snapshot"} \subseteq Imports!Kinds
  BY DEF Imports!Kinds
<1>2. PICK d1 \in [Imports!Kinds -> [Projects -> FileStates]] : d1 = [disk EXCEPT !["upload"][p] = o.upload]
  BY <1>1
<1>3. PICK d2 \in [Imports!Kinds -> [Projects -> FileStates]] : d2 = [d1 EXCEPT !["workspace"][p] = o.workspace]
  BY <1>1
<1>4. PICK d3 \in [Imports!Kinds -> [Projects -> FileStates]] : d3 = [d2 EXCEPT !["snapshot"][p] = o.snapshot]
  BY <1>1
<1>5. disk' = d3
  BY <1>2, <1>3, <1>4 DEF Imports!Written
<1>6. /\ d2["workspace"][p] = o.workspace /\ d3["workspace"] = d2["workspace"]
      /\ d3["snapshot"][p] = o.snapshot
  BY <1>1, <1>3, <1>4
<1>7. ASSUME NEW k \in Imports!Kinds, NEW q \in Projects, q # p \/ k = "package"
      PROVE  d3[k][q] = disk[k][q]
  <2>1. d1[k][q] = disk[k][q]
    BY <1>2, <1>7
  <2>2. d2[k][q] = d1[k][q]
    BY <1>3, <1>7
  <2>3. d3[k][q] = d2[k][q]
    BY <1>4, <1>7
  <2> QED BY <2>1, <2>2, <2>3
<1> QED BY <1>5, <1>6, <1>7

\* What may become of an import: only one that is recorded has written everything.
LEMMA OutcomeFacts ==
    ASSUME NEW c, NEW o \in Imports!Outcomes(c)
    PROVE  /\ o.pc \in {"record", "failed", "ended"}
           /\ o.upload \in FileStates /\ o.workspace \in FileStates /\ o.snapshot \in FileStates
           /\ o.pc = "record" => o.workspace = "whole" /\ o.snapshot = "whole"
<1>1. ASSUME o \in Imports!GitOutcomes(iDo[c].url)
      PROVE  \/ o = Imports!Outcome("failed", "absent", "absent", "absent")
             \/ o = Imports!Outcome("ended", "absent", "absent", "absent")
             \/ o = Imports!Outcome("failed", "absent", "empty", "absent")
             \/ o = Imports!Outcome("ended", "absent", "empty", "absent")
             \/ o = Imports!Outcome("ended", "absent", "part", "absent")
             \/ o = Imports!Outcome("record", "absent", "whole", "whole")
             \/ o = Imports!Outcome("ended", "absent", "whole", "part")
  BY <1>1 DEF Imports!GitOutcomes, Imports!Archived
<1>2. ASSUME o \in Imports!ZipOutcomes(iDo[c].archive)
      PROVE  \/ o = Imports!Outcome("failed", "empty", "absent", "absent")
             \/ o = Imports!Outcome("failed", "whole", "empty", "absent")
             \/ o = Imports!Outcome("ended", "whole", "part", "absent")
             \/ o = Imports!Outcome("record", "whole", "whole", "whole")
             \/ o = Imports!Outcome("ended", "whole", "whole", "part")
  BY <1>2 DEF Imports!ZipOutcomes, Imports!Archived
<1> QED BY <1>1, <1>2 DEF Imports!Outcomes, Imports!Outcome, FileStates

\* An import writes its own files, which nobody had.
LEMMA ImportKeeps ==
    ASSUME ImportInv, NEW c \in Imports!Calls, Imports!Import(c)
    PROVE  ImportInv'
<1> DEFINE p == iDo[c].project
<1>1. PICK o \in Imports!Outcomes(c) :
        /\ iCall[c].pc = "import"
        /\ disk' = Imports!Written(p, o)
        /\ iCall' = [iCall EXCEPT ![c].pc = o.pc]
        /\ iHistory' = Imports!Stuck(p, o.pc)
        /\ UNCHANGED <<iDo, project, snapshots, old>>
  BY DEF Imports!Import, Imports!Goto
<1>2. /\ o.pc \in {"record", "failed", "ended"} /\ o.pc \in ImportPoints
      /\ o.upload \in FileStates /\ o.workspace \in FileStates /\ o.snapshot \in FileStates
      /\ o.pc = "record" => o.workspace = "whole" /\ o.snapshot = "whole"
  BY OutcomeFacts DEF ImportPoints
<1>3. Importing(c) /\ Imports!Imports(c) /\ c \in Imports!Live /\ p \in Projects
  BY <1>1, ImportCall DEF ImportInv, CallsAtWork, AtWork, Importing
<1>4. project[p] = "importing" /\ p \notin snapshots /\ Fresh(p)
  BY <1>1, <1>3 DEF ImportInv, CallsAtWork, AtWork, Importing
<1>5. /\ iCall' \in [Imports!Calls -> ImportEntry] /\ iCall'[c].pc = o.pc
      /\ \A d \in Imports!Calls \ {c} : iCall'[d] = iCall[d]
  BY <1>1, <1>2, ImportMoves DEF ImportInv, ImportTypes
<1>6. /\ disk' \in [Imports!Kinds -> [Projects -> FileStates]]
      /\ disk'["workspace"][p] = o.workspace /\ disk'["snapshot"][p] = o.snapshot
      /\ \A k \in Imports!Kinds, q \in Projects : q # p \/ k = "package" => disk'[k][q] = disk[k][q]
  BY <1>1, <1>2, <1>3, WrittenFiles DEF ImportInv, ImportTypes
<1>7. /\ iHistory' \in ImportHistory /\ iHistory'.undercut = iHistory.undercut
      /\ iHistory'.stuck = IF o.pc = "ended" THEN iHistory.stuck \cup {p} ELSE iHistory.stuck
  <2>1. PICK stuck \in SUBSET Projects :
          stuck = IF o.pc = "ended" THEN iHistory.stuck \cup {p} ELSE iHistory.stuck
    BY <1>3 DEF ImportInv, ImportTypes, ImportHistory
  <2>2. iHistory' = [iHistory EXCEPT !.stuck = stuck]
    BY <1>1, <2>1 DEF Imports!Stuck
  <2> QED BY <2>1, <2>2 DEF ImportInv, ImportTypes, ImportHistory
<1> HIDE DEF p
<1>8. ImportTypes'
  BY <1>1, <1>5, <1>6, <1>7 DEF ImportInv, ImportTypes
<1>9. ASSUME NEW q \in Projects, q # p
      PROVE  (Fresh(q)' <=> Fresh(q)) /\ (Whole(q)' <=> Whole(q))
  BY <1>6, <1>9 DEF Fresh, Whole, Imports!Kinds
<1>10. Young(p)
  BY <1>3, <1>4 DEF ImportInv, OldFiles, Young, Fresh, Imports!Kinds
<1>11. ASSUME NEW d \in Imports!Calls PROVE AtWork(d)'
  <2>1. CASE d = c
    <3>1. o.pc = "record" => Whole(p)'
      BY <1>1, <1>2, <1>6 DEF Whole, p
    <3> QED BY <1>1, <1>2, <1>3, <1>4, <1>5, <1>10, <2>1, <3>1
            DEF AtWork, Imports!Live, Imports!Imports, Importing, Young, p
  <2>2. CASE d # c
    <3>1. iCall'[d] = iCall[d] /\ AtWork(d)
      BY <1>5, <2>2 DEF ImportInv, CallsAtWork
    <3>2. ASSUME Importing(d)
          PROVE  /\ Fresh(iDo[d].project)' <=> Fresh(iDo[d].project)
                 /\ Whole(iDo[d].project)' <=> Whole(iDo[d].project)
      <4>1. iDo[d].project \in Projects
        BY <3>1, <3>2, ImportCall DEF ImportInv, AtWork, Importing
      <4>2. iDo[d].project # p
        BY <1>3, <2>2, <3>2, OtherImport DEF ImportInv, p
      <4> QED BY <1>1, <1>9, <4>1, <4>2 DEF Fresh, Whole
    <3> QED BY <1>1, <1>7, <3>1, <3>2 DEF AtWork, Imports!Live, Imports!Imports, Importing, Young
  <2> QED BY <2>1, <2>2
<1>12. \A d \in Imports!Calls : Importing(d)' => Importing(d)
  BY <1>3, <1>5 DEF Importing
<1>13. OneImportEach'
  BY <1>1, <1>12, LiveCalls DEF ImportInv, OneImportEach, Imports!Live
<1>14. ProjectRows'
  <2> SUFFICES ASSUME NEW q \in Projects
               PROVE  /\ project[q] = "none" => Fresh(q)'
                      /\ project[q] = "ready" => q \in snapshots
                      /\ q \in snapshots => /\ project[q] \in {"importing", "ready"}
                                            /\ q \in iHistory.undercut \/ Whole(q)'
                      /\ project[q] = "importing" /\ q \notin iHistory'.stuck =>
                           \E d \in Imports!Live : Importing(d)' /\ iDo[d].project = q
    BY <1>1, <1>7 DEF ProjectRows, Imports!Live, Fresh, Whole
  <2>1. CASE q = p
    <3>1. p \notin iHistory'.stuck => Importing(c)'
      BY <1>2, <1>5, <1>7 DEF Importing
    <3> QED BY <1>3, <1>4, <2>1, <3>1 DEF p
  <2>2. CASE q # p
    <3>1. ASSUME NEW d \in Imports!Live, Importing(d), iDo[d].project = q PROVE Importing(d)'
      BY <1>5, <2>2, <3>1, LiveCalls DEF ImportInv, Importing, p
    <3>2. q \notin iHistory'.stuck => q \notin iHistory.stuck
      BY <1>7
    <3> QED BY <1>9, <2>2, <3>1, <3>2 DEF ImportInv, ProjectRows
  <2> QED BY <2>1, <2>2
<1>15. OldFiles'
  <2> SUFFICES ASSUME NEW k \in Imports!Kinds, NEW q \in Projects, <<k, q>> \in old
               PROVE  disk'[k][q] # "absent"
    BY <1>1 DEF OldFiles
  <2>1. disk[k][q] # "absent"
    BY DEF ImportInv, OldFiles
  <2>2. q # p \/ k = "package"
    BY <1>4, <2>1 DEF Fresh, Imports!Kinds
  <2> QED BY <1>6, <2>1, <2>2
<1> QED BY <1>1, <1>8, <1>11, <1>13, <1>14, <1>15 DEF ImportInv, CallsAtWork, Imports!Calls

\* A snapshot is recorded whole, and is not yet old.
LEMMA RecordSnapshotKeeps ==
    ASSUME ImportInv, NEW c \in Imports!Calls, Imports!RecordSnapshot(c)
    PROVE  ImportInv'
<1> DEFINE p == iDo[c].project
<1>1. /\ iCall[c].pc = "record"
      /\ iCall' = [iCall EXCEPT ![c].pc = "ready"]
      /\ snapshots' = snapshots \cup {p}
      /\ UNCHANGED <<iDo, project, disk, old, iHistory>>
  BY DEF Imports!RecordSnapshot, Imports!Goto
<1>2. Importing(c) /\ Imports!Imports(c) /\ c \in Imports!Live /\ p \in Projects
  BY <1>1, ImportCall DEF ImportInv, CallsAtWork, AtWork, Importing
<1>3. /\ project[p] = "importing" /\ Young(p)
      /\ p \in iHistory.undercut \/ Whole(p)
  BY <1>1, <1>2 DEF ImportInv, CallsAtWork, AtWork, Importing
<1>4. /\ iCall' \in [Imports!Calls -> ImportEntry] /\ iCall'[c].pc = "ready"
      /\ \A d \in Imports!Calls \ {c} : iCall'[d] = iCall[d]
  BY <1>1, ImportMoves DEF ImportInv, ImportTypes, ImportPoints
<1> HIDE DEF p
<1>5. ImportTypes'
  BY <1>1, <1>2, <1>4 DEF ImportInv, ImportTypes
<1>6. ASSUME NEW d \in Imports!Calls PROVE AtWork(d)'
  <2>1. CASE d = c
    BY <1>1, <1>2, <1>3, <1>4, <2>1 DEF AtWork, Imports!Live, Imports!Imports, Importing, p
  <2>2. CASE d # c
    <3>1. iCall'[d] = iCall[d] /\ AtWork(d)
      BY <1>4, <2>2 DEF ImportInv, CallsAtWork
    <3>2. ASSUME iCall[d].pc \in {"import", "record", "failed"} PROVE iDo[d].project \notin snapshots'
      BY <1>1, <1>2, <2>2, <3>1, <3>2, OtherImport DEF ImportInv, AtWork, Importing, p
    <3>3. \A q \in snapshots' \ snapshots : Young(q)
      BY <1>1, <1>3
    <3> QED BY <1>1, <3>1, <3>2, <3>3 DEF AtWork, Imports!Live, Imports!Imports, Importing, Fresh, Whole, Young
  <2> QED BY <2>1, <2>2
<1>7. \A d \in Imports!Calls : Importing(d)' <=> Importing(d)
  BY <1>2, <1>4 DEF Importing
<1>8. OneImportEach'
  BY <1>1, <1>7, LiveCalls DEF ImportInv, OneImportEach, Imports!Live
<1>9. ProjectRows'
  BY <1>1, <1>3, <1>7, LiveCalls DEF ImportInv, ProjectRows, Imports!Live, Fresh, Whole
<1>10. OldFiles'
  BY <1>1 DEF ImportInv, OldFiles
<1> QED BY <1>1, <1>5, <1>6, <1>8, <1>9, <1>10 DEF ImportInv, CallsAtWork, Imports!Calls

\* Only the import at work marks its project.
LEMMA MarkProjectKeeps ==
    ASSUME ImportInv, NEW c \in Imports!Calls, Imports!MarkProject(c)
    PROVE  ImportInv'
<1> DEFINE p == iDo[c].project
           mark == iCall[c].pc
<1>1. /\ mark \in {"ready", "failed"}
      /\ project' = [project EXCEPT ![p] = mark]
      /\ iCall' = [iCall EXCEPT ![c].pc = "ended"]
      /\ UNCHANGED <<iDo, snapshots, disk, old, iHistory>>
  BY DEF Imports!MarkProject, Imports!Goto
<1>2. Importing(c) /\ Imports!Imports(c) /\ c \in Imports!Live /\ p \in Projects
  BY <1>1, ImportCall DEF ImportInv, CallsAtWork, AtWork, Importing
<1>3. /\ project[p] = "importing"
      /\ mark = "ready" => p \in snapshots
      /\ mark = "failed" => p \notin snapshots
  BY <1>1, <1>2 DEF ImportInv, CallsAtWork, AtWork, Importing
<1>4. /\ iCall' \in [Imports!Calls -> ImportEntry] /\ iCall'[c].pc = "ended"
      /\ \A d \in Imports!Calls \ {c} : iCall'[d] = iCall[d]
  BY <1>1, ImportMoves DEF ImportInv, ImportTypes, ImportPoints
<1>5. /\ project' \in [Projects -> ProjectStates] /\ project'[p] = mark
      /\ \A q \in Projects \ {p} : project'[q] = project[q]
  BY <1>1, <1>2 DEF ImportInv, ImportTypes, ProjectStates
<1> HIDE DEF p, mark
<1>6. ImportTypes'
  BY <1>1, <1>4, <1>5 DEF ImportInv, ImportTypes
<1>7. ASSUME NEW d \in Imports!Calls PROVE AtWork(d)'
  <2>1. CASE d = c
    BY <1>1, <1>2, <1>4, <2>1 DEF AtWork, Imports!Live, Importing
  <2>2. CASE d # c
    <3>1. iCall'[d] = iCall[d] /\ AtWork(d)
      BY <1>4, <2>2 DEF ImportInv, CallsAtWork
    <3>2. ASSUME Importing(d) PROVE project'[iDo[d].project] = "importing"
      <4>1. iDo[d].project \in Projects
        BY <3>1, <3>2, ImportCall DEF ImportInv, AtWork, Importing
      <4>2. iDo[d].project # p
        BY <1>2, <2>2, <3>2, OtherImport DEF ImportInv, p
      <4> QED BY <1>5, <3>1, <3>2, <4>1, <4>2 DEF AtWork
    <3> QED BY <1>1, <3>1, <3>2 DEF AtWork, Imports!Live, Imports!Imports, Importing, Fresh, Whole, Young
  <2> QED BY <2>1, <2>2
<1>8. \A d \in Imports!Calls : Importing(d)' <=> Importing(d) /\ d # c
  BY <1>4 DEF Importing
<1>9. OneImportEach'
  BY <1>1, <1>8, LiveCalls DEF ImportInv, OneImportEach, Imports!Live
<1>10. ProjectRows'
  <2> SUFFICES ASSUME NEW q \in Projects
               PROVE  /\ project'[q] = "none" => Fresh(q)
                      /\ project'[q] = "ready" => q \in snapshots
                      /\ q \in snapshots => /\ project'[q] \in {"importing", "ready"}
                                            /\ q \in iHistory.undercut \/ Whole(q)
                      /\ project'[q] = "importing" /\ q \notin iHistory.stuck =>
                           \E d \in Imports!Live : Importing(d)' /\ iDo[d].project = q
    BY <1>1 DEF ProjectRows, Imports!Live, Fresh, Whole
  <2>1. CASE q = p
    BY <1>1, <1>2, <1>3, <1>5, <2>1 DEF ImportInv, ProjectRows
  <2>2. CASE q # p
    <3>1. ASSUME NEW d \in Imports!Live, Importing(d), iDo[d].project = q PROVE Importing(d)'
      BY <1>8, <2>2, <3>1, LiveCalls DEF ImportInv, p
    <3> QED BY <1>5, <2>2, <3>1 DEF ImportInv, ProjectRows
  <2> QED BY <2>1, <2>2
<1>11. OldFiles'
  BY <1>1 DEF ImportInv, OldFiles
<1> QED BY <1>1, <1>6, <1>7, <1>9, <1>10, <1>11 DEF ImportInv, CallsAtWork, Imports!Calls

\* A call that ends with its row at "importing" leaves its project stuck.
LEMMA DatabaseFailsKeeps ==
    ASSUME ImportInv, NEW c \in Imports!Calls, Imports!DatabaseFails(c)
    PROVE  ImportInv'
<1> DEFINE p == iDo[c].project
           stuck == IF iCall[c].pc = "insert" THEN iHistory.stuck ELSE iHistory.stuck \cup {p}
<1>1. /\ iCall[c].pc \in {"insert", "record", "ready", "failed"}
      /\ iCall' = [iCall EXCEPT ![c].pc = "ended"]
      /\ iHistory' = [iHistory EXCEPT !.faults = @ + 1, !.stuck = stuck]
      /\ UNCHANGED <<iDo, project, snapshots, disk, old>>
  BY DEF Imports!DatabaseFails, Imports!Goto, Imports!Working, ImportInv, ImportTypes, ImportEntry, ImportPoints
<1>2. Imports!Imports(c) /\ c \in Imports!Live /\ p \in Projects
  BY <1>1, ImportCall DEF ImportInv, CallsAtWork, AtWork, Importing
<1>3. Importing(c) <=> iCall[c].pc # "insert"
  BY <1>1 DEF Importing
<1>4. /\ iCall' \in [Imports!Calls -> ImportEntry] /\ iCall'[c].pc = "ended"
      /\ \A d \in Imports!Calls \ {c} : iCall'[d] = iCall[d]
  BY <1>1, ImportMoves DEF ImportInv, ImportTypes, ImportPoints
<1>5. /\ iHistory' \in ImportHistory /\ iHistory'.undercut = iHistory.undercut
      /\ iHistory'.stuck = stuck
  <2>1. iHistory \in ImportHistory /\ stuck \in SUBSET Projects
    BY <1>2 DEF ImportInv, ImportTypes, ImportHistory
  <2>2. PICK n \in Nat : n = iHistory.faults + 1
    BY <2>1 DEF ImportHistory
  <2>3. iHistory' = [iHistory EXCEPT !.faults = n, !.stuck = stuck]
    BY <1>1, <2>2
  <2> HIDE DEF stuck
  <2> QED BY <2>1, <2>3, StuckHistory
<1>6. /\ iHistory.stuck \subseteq iHistory'.stuck
      /\ Importing(c) => p \in iHistory'.stuck
  BY <1>3, <1>5
<1> HIDE DEF p, stuck
<1>7. ImportTypes'
  BY <1>1, <1>4, <1>5 DEF ImportInv, ImportTypes
<1>8. ASSUME NEW d \in Imports!Calls PROVE AtWork(d)'
  BY <1>1, <1>2, <1>4, <1>5
     DEF ImportInv, CallsAtWork, AtWork, Imports!Live, Imports!Imports, Importing, Fresh, Whole, Young
<1>9. \A d \in Imports!Calls : Importing(d)' <=> Importing(d) /\ d # c
  BY <1>4 DEF Importing
<1>10. OneImportEach'
  BY <1>1, <1>9, LiveCalls DEF ImportInv, OneImportEach, Imports!Live
<1>11. ProjectRows'
  <2> SUFFICES ASSUME NEW q \in Projects
               PROVE  /\ project[q] = "none" => Fresh(q)
                      /\ project[q] = "ready" => q \in snapshots
                      /\ q \in snapshots => /\ project[q] \in {"importing", "ready"}
                                            /\ q \in iHistory.undercut \/ Whole(q)
                      /\ project[q] = "importing" /\ q \notin iHistory'.stuck =>
                           \E d \in Imports!Live : Importing(d)' /\ iDo[d].project = q
    BY <1>1, <1>5 DEF ProjectRows, Imports!Live, Fresh, Whole
  <2>1. ASSUME NEW d \in Imports!Live, Importing(d), iDo[d].project = q, q \notin iHistory'.stuck
        PROVE  Importing(d)'
    BY <1>6, <1>9, <2>1, LiveCalls DEF ImportInv, p
  <2> QED BY <1>6, <2>1 DEF ImportInv, ProjectRows
<1>12. OldFiles'
  BY <1>1 DEF ImportInv, OldFiles
<1> QED BY <1>1, <1>7, <1>8, <1>10, <1>11, <1>12 DEF ImportInv, CallsAtWork, Imports!Calls

\* What a process that dies leaves of an import is of the project of that import.
LEMMA LeftoverFacts ==
    ASSUME NEW c, NEW o \in Imports!Leftovers(c)
    PROVE  o.upload \in FileStates /\ o.workspace \in FileStates /\ o.snapshot \in FileStates
<1>1. PICK u \in {"absent", "part", "whole"}, w \in {"absent", "part", "whole"}, s \in {"absent", "part"} :
        o = Imports!Outcome("ended", u, w, s)
  BY DEF Imports!Leftovers
<1> QED BY <1>1 DEF Imports!Outcome, FileStates

\* A crash ends every call, and what was importing is stuck.
LEMMA ImportCrashKeeps ==
    ASSUME ImportInv, Imports!Crash
    PROVE  ImportInv'
<1>1. /\ UNCHANGED <<iDo, project, snapshots, old>>
      /\ iCall' = [c \in Imports!Calls |-> IF Imports!Working(c) THEN [iCall[c] EXCEPT !.pc = "ended"] ELSE iCall[c]]
      /\ iHistory' = [iHistory EXCEPT !.faults = @ + 1,
                        !.stuck = @ \cup {p \in Projects : project[p] = "importing"}]
  BY DEF Imports!Crash
<1>2. /\ iCall' \in [Imports!Calls -> ImportEntry]
      /\ \A c \in Imports!Calls : /\ iCall'[c].pc \in {"absent", "idle", "ended"}
                                  /\ iCall'[c].pc = "absent" <=> iCall[c].pc = "absent"
  <2>1. ASSUME NEW c \in Imports!Calls, NEW e, e = [iCall[c] EXCEPT !.pc = "ended"]
        PROVE  e \in ImportEntry /\ e.pc = "ended"
    BY <2>1 DEF ImportInv, ImportTypes, ImportEntry, ImportPoints
  <2>2. ASSUME NEW c \in Imports!Calls
        PROVE  /\ iCall'[c] \in ImportEntry
               /\ iCall'[c].pc \in {"absent", "idle", "ended"}
               /\ iCall'[c].pc = "absent" <=> iCall[c].pc = "absent"
    <3>1. CASE Imports!Working(c)
      <4>1. iCall'[c] = [iCall[c] EXCEPT !.pc = "ended"]
        BY <1>1, <3>1
      <4> QED BY <2>1, <3>1, <4>1 DEF Imports!Working
    <3>2. CASE ~Imports!Working(c)
      <4>1. iCall'[c] = iCall[c] /\ iCall[c] \in ImportEntry
        BY <1>1, <3>2 DEF ImportInv, ImportTypes
      <4> QED BY <3>2, <4>1 DEF Imports!Working
    <3> QED BY <3>1, <3>2
  <2>3. iCall' = [c \in Imports!Calls |-> iCall'[c]]
    BY <1>1
  <2> QED BY <2>2, <2>3
<1>3. /\ iHistory' \in ImportHistory /\ iHistory'.undercut = iHistory.undercut
      /\ \A p \in Projects : project[p] = "importing" => p \in iHistory'.stuck
  <2> DEFINE stuck == iHistory.stuck \cup {p \in Projects : project[p] = "importing"}
  <2>1. iHistory \in ImportHistory /\ stuck \in SUBSET Projects
    BY DEF ImportInv, ImportTypes, ImportHistory
  <2>2. PICK n \in Nat : n = iHistory.faults + 1
    BY <2>1 DEF ImportHistory
  <2>3. iHistory' = [iHistory EXCEPT !.faults = n, !.stuck = stuck]
    BY <1>1, <2>2
  <2>4. \A p \in Projects : project[p] = "importing" => p \in stuck
    OBVIOUS
  <2> HIDE DEF stuck
  <2>5. iHistory' \in ImportHistory /\ iHistory'.stuck = stuck /\ iHistory'.undercut = iHistory.undercut
    BY <2>1, <2>3, StuckHistory
  <2> QED BY <2>4, <2>5
<1>4. /\ disk' \in [Imports!Kinds -> [Projects -> FileStates]]
      /\ \/ disk' = disk
         \/ \E p \in Projects :
              /\ project[p] = "importing" /\ p \notin snapshots /\ Fresh(p)
              /\ \A k \in Imports!Kinds, q \in Projects : q # p \/ k = "package" => disk'[k][q] = disk[k][q]
  <2>1. CASE disk' = disk
    BY <2>1 DEF ImportInv, ImportTypes
  <2>2. CASE \E c \in Imports!Calls : /\ iCall[c].pc = "import"
                                      /\ \E o \in Imports!Leftovers(c) :
                                           disk' = Imports!Written(iDo[c].project, o)
    <3>1. PICK c \in Imports!Calls : /\ iCall[c].pc = "import"
                                     /\ \E o \in Imports!Leftovers(c) :
                                          disk' = Imports!Written(iDo[c].project, o)
      BY <2>2
    <3>2. PICK o \in Imports!Leftovers(c) : disk' = Imports!Written(iDo[c].project, o)
      BY <3>1
    <3>3. /\ iDo[c].project \in Projects /\ project[iDo[c].project] = "importing"
          /\ iDo[c].project \notin snapshots /\ Fresh(iDo[c].project)
      BY <3>1, ImportCall DEF ImportInv, CallsAtWork, AtWork, Importing
    <3>4. o.upload \in FileStates /\ o.workspace \in FileStates /\ o.snapshot \in FileStates
      BY LeftoverFacts
    <3> QED BY <3>2, <3>3, <3>4, WrittenFiles DEF ImportInv, ImportTypes
  <2> QED BY <2>1, <2>2 DEF Imports!Crash
<1>5. ImportTypes'
  BY <1>1, <1>2, <1>3, <1>4 DEF ImportInv, ImportTypes
<1>6. ASSUME NEW d \in Imports!Calls PROVE AtWork(d)'
  BY <1>1, <1>2 DEF ImportInv, CallsAtWork, AtWork, Imports!Live, Importing
<1>7. OneImportEach'
  BY <1>1, <1>2, LiveCalls DEF ImportInv, OneImportEach, Imports!Live, Importing
<1>8. ASSUME NEW q \in Projects
      PROVE  /\ project[q] = "none" /\ Fresh(q) => Fresh(q)'
             /\ q \in snapshots /\ Whole(q) => Whole(q)'
  BY <1>4 DEF Fresh, Whole, Imports!Kinds
<1>9. ProjectRows'
  BY <1>1, <1>3, <1>8 DEF ImportInv, ProjectRows
<1>10. OldFiles'
  <2> SUFFICES ASSUME NEW k \in Imports!Kinds, NEW q \in Projects, <<k, q>> \in old
               PROVE  disk'[k][q] # "absent"
    BY <1>1 DEF OldFiles
  <2>1. disk[k][q] # "absent"
    BY DEF ImportInv, OldFiles
  <2> QED BY <1>4, <2>1 DEF Fresh, Imports!Kinds
<1> QED BY <1>1, <1>5, <1>6, <1>7, <1>9, <1>10 DEF ImportInv, CallsAtWork, Imports!Calls

\* A cleanup knows the references that are recorded when it begins.
LEMMA ReadReferencesKeeps ==
    ASSUME ImportInv, NEW c \in Imports!Calls, Imports!ReadReferences(c)
    PROVE  ImportInv'
<1> DEFINE e == [pc |-> "clean", refs |-> snapshots]
<1>1. /\ iCall[c].pc = "idle"
      /\ iCall' = [iCall EXCEPT ![c] = e]
      /\ UNCHANGED <<iDo, project, snapshots, disk, old, iHistory>>
  BY DEF Imports!ReadReferences
<1>2. e \in ImportEntry /\ e.pc = "clean" /\ e.refs = snapshots
  BY DEF ImportInv, ImportTypes, ImportEntry, ImportPoints
<1> HIDE DEF e
<1>3. /\ iCall' \in [Imports!Calls -> ImportEntry] /\ iCall'[c] = e
      /\ \A d \in Imports!Calls \ {c} : iCall'[d] = iCall[d]
  BY <1>1, <1>2 DEF ImportInv, ImportTypes
<1>4. ImportTypes'
  BY <1>1, <1>3 DEF ImportInv, ImportTypes
<1>5. ASSUME NEW d \in Imports!Calls PROVE AtWork(d)'
  BY <1>1, <1>2, <1>3
     DEF ImportInv, CallsAtWork, AtWork, Imports!Live, Imports!Imports, Importing, Fresh, Whole, Young
<1>6. \A d \in Imports!Calls : Importing(d)' <=> Importing(d)
  BY <1>1, <1>2, <1>3 DEF Importing
<1>7. OneImportEach'
  BY <1>1, <1>6, LiveCalls DEF ImportInv, OneImportEach, Imports!Live
<1>8. ProjectRows'
  BY <1>1, <1>6, LiveCalls DEF ImportInv, ProjectRows, Imports!Live, Fresh, Whole
<1>9. OldFiles'
  BY <1>1 DEF ImportInv, OldFiles
<1> QED BY <1>1, <1>4, <1>5, <1>7, <1>8, <1>9 DEF ImportInv, CallsAtWork, Imports!Calls

\* Files at a path that a reference contains are referenced, whatever is left of them.
LEMMA ReferencedPaths ==
    ASSUME NEW refs, NEW p \in refs, NEW what, NEW k \in {"workspace", "snapshot"}
    PROVE  Imports!ContainsReference(Imports!PathOf(k, p, what), refs)
<1>1. /\ <<"workspace", p, "files">> \in Imports!References(refs)
      /\ <<"snapshot", p, "archive">> \in Imports!References(refs)
  BY DEF Imports!References
<1>2. /\ Imports!IsPrefix(<<"workspace", p, "files">>, <<"workspace", p, "files">>)
      /\ Imports!IsPrefix(<<"workspace", p>>, <<"workspace", p, "files">>)
      /\ Imports!IsPrefix(<<"snapshot", p>>, <<"snapshot", p, "archive">>)
  BY DEF Imports!IsPrefix
<1> QED BY <1>1, <1>2 DEF Imports!ContainsReference, Imports!PathOf

\* A cleanup takes nothing that is recorded, or will be, but with retention 0 and before the
\* row is there.
LEMMA CleanupKeeps ==
    ASSUME ImportInv, NEW c \in Imports!Calls, Imports!Cleanup(c)
    PROVE  ImportInv'
<1> DEFINE refs == iCall[c].refs
<1>1. /\ iCall[c].pc = "clean"
      /\ iCall' = [iCall EXCEPT ![c].pc = "ended"]
      /\ UNCHANGED <<iDo, project, snapshots>>
  BY DEF Imports!Cleanup, Imports!Goto
<1> DEFINE Taken(hit) == {e[2] : e \in {x \in hit : /\ x[1] \in iDo[c].zero \cap {"workspace", "snapshot"}
                                                    /\ x[2] \notin refs}}
<1>2. PICK selected \in Imports!Selections(iDo[c], refs) :
        \E broken \in {{}} \cup IF Imports!MayFault THEN {{e} : e \in selected} ELSE {} :
          LET removed == IF iDo[c].dry_run THEN {} ELSE selected \ broken
              hit == IF iDo[c].dry_run THEN {} ELSE selected
          IN /\ disk' = Imports!DiskWithout(removed, hit \cap broken)
             /\ old' = old \ hit
             /\ iHistory' = [iHistory EXCEPT !.faults = @ + Imports!Cardinality(hit \cap broken),
                                            !.undercut = @ \cup Taken(hit)]
  BY Zenon DEF Imports!Cleanup
<1>3. PICK broken \in {{}} \cup IF Imports!MayFault THEN {{e} : e \in selected} ELSE {} :
        LET removed == IF iDo[c].dry_run THEN {} ELSE selected \ broken
            hit == IF iDo[c].dry_run THEN {} ELSE selected
        IN /\ disk' = Imports!DiskWithout(removed, hit \cap broken)
           /\ old' = old \ hit
           /\ iHistory' = [iHistory EXCEPT !.faults = @ + Imports!Cardinality(hit \cap broken),
                                          !.undercut = @ \cup Taken(hit)]
  BY <1>2
<1>4. PICK hit : hit = IF iDo[c].dry_run THEN {} ELSE selected
  OBVIOUS
<1>5. PICK removed : removed = IF iDo[c].dry_run THEN {} ELSE selected \ broken
  OBVIOUS
<1>6. PICK lost : lost = hit \cap broken
  OBVIOUS
<1>7. PICK n \in Nat : n = iHistory.faults + Imports!Cardinality(lost)
  <2>1. broken = {} \/ \E e \in selected : broken = {e}
    BY <1>3
  <2>2. IsFiniteSet(lost)
    BY <1>6, <2>1, FS_EmptySet, FS_Singleton, FS_Intersection
  <2>3. Imports!Cardinality(lost) \in Nat /\ iHistory.faults \in Nat
    BY <2>2, FS_CardinalityType, ImportsCount DEF ImportInv, ImportTypes, ImportHistory
  <2> QED BY <2>3
<1> HIDE DEF Taken
<1>8. /\ hit \subseteq selected /\ removed \subseteq hit /\ lost \subseteq hit
      /\ disk' = Imports!DiskWithout(removed, lost)
      /\ old' = old \ hit
      /\ iHistory' = [iHistory EXCEPT !.faults = n, !.undercut = iHistory.undercut \cup Taken(hit)]
  <2>1. hit \subseteq selected /\ removed \subseteq hit /\ lost \subseteq hit
    BY <1>4, <1>5, <1>6
  <2> QED BY <1>3, <1>4, <1>5, <1>6, <1>7, <2>1
<1>9. \A e \in selected : e \in Imports!Kinds \X Projects /\ Imports!IsExpired(e[1], e[2], iDo[c], refs)
  BY DEF Imports!Selections, Imports!kSubset, Imports!Expired
<1>10. /\ iHistory' \in ImportHistory /\ iHistory'.stuck = iHistory.stuck
      /\ iHistory.undercut \subseteq iHistory'.undercut
      /\ \A e \in hit : e[1] \in iDo[c].zero \cap {"workspace", "snapshot"} /\ e[2] \notin refs => e[2] \in iHistory'.undercut
  <2>1. Taken(hit) \subseteq Projects
    BY <1>8, <1>9 DEF Taken
  <2>2. PICK taken \in SUBSET Projects : taken = Taken(hit)
    BY <2>1
  <2>3. \A e \in hit : e[1] \in iDo[c].zero \cap {"workspace", "snapshot"} /\ e[2] \notin refs => e[2] \in taken
    BY <2>2 DEF Taken
  <2>4. iHistory' = [iHistory EXCEPT !.faults = n, !.undercut = iHistory.undercut \cup taken]
    BY <1>8, <2>2
  <2>5. /\ iHistory' \in ImportHistory /\ iHistory'.stuck = iHistory.stuck
        /\ iHistory'.undercut = iHistory.undercut \cup taken
    BY <2>4, TakenHistory, Zenon DEF ImportInv, ImportTypes
  <2> QED BY <2>3, <2>5
<1>11. /\ disk' \in [Imports!Kinds -> [Projects -> FileStates]]
      /\ \A k \in Imports!Kinds, p \in Projects : <<k, p>> \notin hit => disk'[k][p] = disk[k][p]
  <2>1. disk \in [Imports!Kinds -> [Projects -> FileStates]]
    BY DEF ImportInv, ImportTypes
  <2>2. \A k \in Imports!Kinds, p \in Projects : Imports!Deleted(k, p) \in FileStates
    BY DEF Imports!Deleted, FileStates
  <2>3. ASSUME NEW k \in Imports!Kinds, NEW p \in Projects
        PROVE  (IF <<k, p>> \in removed THEN Imports!Deleted(k, p)
                ELSE IF <<k, p>> \in lost /\ disk[k][p] # "empty" THEN "part" ELSE disk[k][p]) \in FileStates
    BY <2>1, <2>2 DEF FileStates
  <2> QED BY <1>8, <2>1, <2>3 DEF Imports!DiskWithout
<1>12. /\ iCall' \in [Imports!Calls -> ImportEntry] /\ iCall'[c].pc = "ended"
      /\ \A d \in Imports!Calls \ {c} : iCall'[d] = iCall[d]
  BY <1>1, ImportMoves DEF ImportInv, ImportTypes, ImportPoints
<1>13. /\ c \in Imports!Live /\ refs \subseteq snapshots
      /\ \A q \in snapshots \ refs : Young(q)
  BY <1>1 DEF ImportInv, CallsAtWork, AtWork
<1>14. ASSUME NEW p \in Projects, p \in snapshots \/ Young(p), p \notin iHistory'.undercut
      PROVE  Whole(p) => Whole(p)'
  <2> SUFFICES ASSUME NEW k \in {"workspace", "snapshot"} PROVE <<k, p>> \notin hit
    BY <1>11 DEF Whole, Imports!Kinds
  <2> SUFFICES ASSUME <<k, p>> \in hit PROVE FALSE
    OBVIOUS
  <2>1. Imports!IsExpired(k, p, iDo[c], refs)
    BY <1>8, <1>9
  <2>2. p \notin refs
    <3>1. ~Imports!ContainsReference(Imports!PathOf(k, p, disk[k][p]), refs)
      BY <2>1 DEF Imports!IsExpired
    <3> QED BY <3>1, ReferencedPaths
  <2>3. Young(p)
    BY <1>13, <1>14, <2>2
  <2>4. k \in iDo[c].zero
    BY <2>1, <2>3 DEF Imports!IsExpired, Young
  <2> QED BY <1>10, <1>14, <2>2, <2>4
<1>15. ASSUME NEW p \in Projects PROVE Fresh(p) => Fresh(p)'
  <2> SUFFICES ASSUME NEW k \in Imports!Kinds, disk[k][p] = "absent" PROVE <<k, p>> \notin hit
    BY <1>11 DEF Fresh, Imports!Kinds
  <2> QED BY <1>8, <1>9 DEF Imports!IsExpired
<1>16. ASSUME NEW p PROVE Young(p) => Young(p)'
  BY <1>8 DEF Young
<1> HIDE DEF refs
<1>17. ImportTypes'
  BY <1>1, <1>8, <1>10, <1>11, <1>12 DEF ImportInv, ImportTypes
<1>18. ASSUME NEW d \in Imports!Calls PROVE AtWork(d)'
  <2>1. CASE d = c
    BY <1>1, <1>12, <1>13, <2>1 DEF AtWork, Imports!Live, Importing
  <2>2. CASE d # c
    <3>1. iCall'[d] = iCall[d] /\ AtWork(d)
      BY <1>12, <2>2 DEF ImportInv, CallsAtWork
    <3>2. Importing(d) => iDo[d].project \in Projects
      BY <3>1, ImportCall DEF ImportInv, AtWork, Importing
    <3>3. iCall[d].pc = "import" => Fresh(iDo[d].project)'
      BY <1>1, <1>15, <3>1, <3>2 DEF AtWork, Importing, Fresh
    <3>4. iCall[d].pc = "record" => /\ Young(iDo[d].project)'
                                    /\ iDo[d].project \in iHistory'.undercut \/ Whole(iDo[d].project)'
      <4> SUFFICES ASSUME iCall[d].pc = "record"
                   PROVE  /\ Young(iDo[d].project)'
                          /\ iDo[d].project \in iHistory'.undercut \/ Whole(iDo[d].project)'
        OBVIOUS
      <4>1. PICK p \in Projects : p = iDo[d].project
        BY <3>2 DEF Importing
      <4>2. Young(p) /\ (p \in iHistory.undercut \/ Whole(p))
        BY <3>1, <4>1 DEF AtWork
      <4>3. Young(p)' /\ (p \in iHistory'.undercut \/ Whole(p)')
        BY <1>10, <1>14, <1>16, <4>2
      <4> QED BY <1>1, <4>1, <4>3 DEF Young, Whole
    <3> QED BY <1>1, <1>16, <3>1, <3>3, <3>4 DEF AtWork, Imports!Live, Imports!Imports, Importing
  <2> QED BY <2>1, <2>2
<1>19. \A d \in Imports!Calls : Importing(d)' <=> Importing(d)
  BY <1>1, <1>12 DEF Importing
<1>20. OneImportEach'
  BY <1>1, <1>19, LiveCalls DEF ImportInv, OneImportEach, Imports!Live
<1>21. ProjectRows'
  <2>1. ASSUME NEW q \in Projects
        PROVE  /\ project[q] = "none" => Fresh(q)'
               /\ q \in snapshots => q \in iHistory'.undercut \/ Whole(q)'
    BY <1>10, <1>14, <1>15 DEF ImportInv, ProjectRows
  <2> QED BY <1>1, <1>10, <1>19, <2>1, LiveCalls DEF ImportInv, ProjectRows, Imports!Live
<1>22. OldFiles'
  BY <1>8, <1>11 DEF ImportInv, OldFiles
<1> QED BY <1>1, <1>17, <1>18, <1>20, <1>21, <1>22 DEF ImportInv, CallsAtWork, Imports!Calls

\* Files get old only while nobody works.
LEMMA TimeKeepsImports ==
    ASSUME ImportInv, Imports!TimePasses
    PROVE  ImportInv'
<1>1. /\ \A c \in Imports!Calls : ~Imports!Working(c)
      /\ old' = {e \in Imports!Kinds \X Projects : disk[e[1]][e[2]] # "absent"}
      /\ UNCHANGED <<iDo, iCall, project, snapshots, disk, iHistory>>
  BY DEF Imports!TimePasses
<1>2. ImportTypes'
  BY <1>1 DEF ImportInv, ImportTypes
<1>3. ASSUME NEW d \in Imports!Calls PROVE AtWork(d)'
  BY <1>1 DEF ImportInv, CallsAtWork, AtWork, Imports!Live, Imports!Working, Importing
<1>4. OneImportEach'
  BY <1>1 DEF ImportInv, OneImportEach, Imports!Live, Importing
<1>5. ProjectRows'
  BY <1>1 DEF ImportInv, ProjectRows, Imports!Live, Importing, Fresh, Whole
<1>6. OldFiles'
  BY <1>1 DEF OldFiles
<1> QED BY <1>1, <1>2, <1>3, <1>4, <1>5, <1>6 DEF ImportInv, CallsAtWork, Imports!Calls

\* At the start nothing is imported.
LEMMA ImportsBegin ==
    ASSUME Imports!Init
    PROVE  ImportInv
<1>1. Imports!Idle = [pc |-> "idle", refs |-> {}] /\ Imports!Idle \in ImportEntry
  BY DEF Imports!Idle, ImportEntry, ImportPoints
<1>2. PICK none \in ImportEntry : none = [Imports!Idle EXCEPT !.pc = "absent"] /\ none.pc = "absent"
  <2>1. PICK none : none = [Imports!Idle EXCEPT !.pc = "absent"]
    OBVIOUS
  <2>2. none.pc = "absent" /\ none \in ImportEntry
    BY <1>1, <2>1 DEF ImportEntry, ImportPoints
  <2> QED BY <2>1, <2>2
<1>3. /\ iDo \in ImportCalls
      /\ iCall = [c \in Imports!Calls |-> IF c \in Imports!Live THEN Imports!Idle ELSE none]
      /\ project = [p \in Projects |-> "none"] /\ snapshots = {} /\ old = {}
      /\ disk = [k \in Imports!Kinds |-> [p \in Projects |->
                   IF k = "package" /\ p \in Kept THEN "whole" ELSE "absent"]]
      /\ iHistory = [faults |-> 0, stuck |-> {}, undercut |-> {}]
  BY <1>2 DEF Imports!Init
<1>4. /\ iCall \in [Imports!Calls -> ImportEntry]
      /\ \A c \in Imports!Calls : iCall[c].pc = IF c \in Imports!Live THEN "idle" ELSE "absent"
  BY <1>1, <1>2, <1>3
<1>5. disk \in [Imports!Kinds -> [Projects -> FileStates]] /\ \A p \in Projects : Fresh(p)
  BY <1>3 DEF FileStates, Fresh, Imports!Kinds
<1>6. iHistory \in ImportHistory
  BY <1>3 DEF ImportHistory
<1>7. ImportTypes
  BY <1>3, <1>4, <1>5, <1>6 DEF ImportTypes, ProjectStates
<1>8. CallsAtWork /\ OneImportEach
  BY <1>4, <1>7, LiveCalls DEF CallsAtWork, AtWork, OneImportEach, Importing
<1>9. ProjectRows /\ OldFiles
  BY <1>3, <1>5 DEF ProjectRows, OldFiles
<1> QED BY <1>7, <1>8, <1>9 DEF ImportInv

\* Every step of the imports keeps the invariant.
LEMMA ImportsNext ==
    ASSUME ImportInv, Imports!Next
    PROVE  ImportInv'
<1>1. ASSUME NEW c \in Imports!Calls, Imports!Step(c) PROVE ImportInv'
  BY <1>1, LookForProjectKeeps, InsertProjectKeeps, ImportKeeps, RecordSnapshotKeeps, MarkProjectKeeps,
     DatabaseFailsKeeps, ReadReferencesKeeps, CleanupKeeps DEF Imports!Step
<1> QED BY <1>1, ImportCrashKeeps, TimeKeepsImports DEF Imports!Next

\* While another service is at hand, nothing changes here.
LEMMA ImportsStay ==
    ASSUME ImportInv, UNCHANGED importVars
    PROVE  ImportInv'
<1>1. UNCHANGED <<iDo, iCall, project, snapshots, disk, old, iHistory>>
  BY DEF importVars
<1>2. Imports!Calls' = Imports!Calls /\ Imports!Live' = Imports!Live
  BY <1>1 DEF Imports!Calls, Imports!Live
<1>3. ImportTypes' /\ OldFiles'
  BY <1>1 DEF ImportInv, ImportTypes, OldFiles, Imports!Calls
<1>4. CallsAtWork'
  BY <1>1, <1>2 DEF ImportInv, CallsAtWork, AtWork, Importing, Fresh, Whole, Young, Imports!Imports
<1>5. OneImportEach' /\ ProjectRows'
  BY <1>1, <1>2 DEF ImportInv, OneImportEach, ProjectRows, Importing, Fresh, Whole
<1> QED BY <1>3, <1>4, <1>5 DEF ImportInv

\* The imports are as the invariant says while they are at hand.
LEMMA ImportInvariant == Spec => [](service = "imports" => ImportInv)
<1>1. Init => (service = "imports" => ImportInv)
  BY ImportsBegin DEF Init
<1>2. ASSUME service = "imports" => ImportInv, [Next]_vars
      PROVE  (service = "imports" => ImportInv)'
  <2>1. CASE UNCHANGED vars
    BY <1>2, <2>1, ImportsStay DEF vars
  <2>2. CASE Next
    <3>1. service' = service
      BY <2>2 DEF Next
    <3> SUFFICES ASSUME service = "imports" PROVE ImportInv'
      BY <3>1
    <3>2. Imports!Next
      BY <2>2 DEF Next
    <3> QED BY <1>2, <3>2, ImportsNext
  <2> QED BY <1>2, <2>1, <2>2
<1> QED BY <1>1, <1>2, PTL DEF Spec

\* The workspace and the archive that a snapshot's row names are whole, whatever is imported
\* and cleaned up meanwhile, unless a cleanup with retention 0 took them before their row was
\* there (RuntimeStorageCleanup.cleanup).
THEOREM ReferencesKept == Spec => []ReferencedFilesAreKept
<1>1. (service = "imports" => ImportInv) => ReferencedFilesAreKept
  BY DEF ImportInv, ImportTypes, ProjectRows, Whole, ReferencedFilesAreKept, Imports!ReferencedFilesAreKept
<1> QED BY <1>1, ImportInvariant, PTL

\* A project that says "importing" is being imported, unless its import was cut off or ended
\* with an error that is not caught; a ready project has a snapshot (upload_zip_project).
THEOREM ImportsComeToAnEnd == Spec => []ImportsEnd
<1>1. (service = "imports" => ImportInv) => ImportsEnd
  <2> SUFFICES ASSUME ImportInv PROVE Imports!ImportsEnd
    BY DEF ImportsEnd
  <2>1. ASSUME NEW c \in Imports!Live, Importing(c)
        PROVE  Imports!Working(c) /\ Imports!Imports(c) /\ iCall[c].pc # "insert"
    BY <2>1, LiveCalls DEF ImportInv, CallsAtWork, AtWork, Importing, Imports!Working
  <2> QED BY <2>1 DEF ImportInv, ProjectRows, Imports!ImportsEnd
<1> QED BY <1>1, ImportInvariant, PTL

-----------------------------------------------------------------------------
(* Sessions of an agent: what SessionProofs proves of the server holds beside the other *)
(* services.                                                                            *)

Server == INSTANCE SessionProofs WITH
    Sessions <- AgentRuns, MaxFaults <- SessionFaults,
    events <- updates, rows <- transcript, history <- sHistory

\* A step of the sessions is one of the server that SessionProofs is about.
LEMMA SessionSteps == Transcripts!Next <=> Server!Next
<1>1. \A c \in AgentRuns : Transcripts!Request(c) <=> Server!Request(c)
  BY DEF Transcripts!Request, Server!Request
<1>2. \A c \in AgentRuns : Transcripts!GiveUp(c) <=> Server!GiveUp(c)
  BY DEF Transcripts!GiveUp, Server!GiveUp, Transcripts!Faulted, Server!Faulted, Transcripts!MayFault,
         Server!MayFault
<1>3. \A c \in AgentRuns : Transcripts!EnsureAgent(c) <=> Server!EnsureAgent(c)
  BY DEF Transcripts!EnsureAgent, Server!EnsureAgent, Transcripts!Goto, Server!Goto, Transcripts!Stay,
         Server!Stay, Transcripts!Begun, Server!Begun
<1>4. \A c \in AgentRuns : Transcripts!AgentDoesNotStart(c) <=> Server!AgentDoesNotStart(c)
  BY DEF Transcripts!AgentDoesNotStart, Server!AgentDoesNotStart, Transcripts!MayFault, Server!MayFault,
         Transcripts!Answer, Server!Answer, Transcripts!Faulted, Server!Faulted
<1>5. \A c \in AgentRuns : Transcripts!NewSession(c) <=> Server!NewSession(c)
  BY DEF Transcripts!NewSession, Server!NewSession, Transcripts!FlushAndGo, Server!FlushAndGo,
         Transcripts!Flush, Server!Flush, Transcripts!Pending, Server!Pending, Transcripts!Batch,
         Server!Batch, Transcripts!Posting, Server!Posting, Transcripts!Cardinality, Server!Cardinality,
         Transcripts!Goto, Server!Goto, Transcripts!Stay, Server!Stay, Transcripts!Answer, Server!Answer
<1>6. \A c \in AgentRuns : Transcripts!PromptReturns(c) <=> Server!PromptReturns(c)
  BY DEF Transcripts!PromptReturns, Server!PromptReturns, Transcripts!FlushAndGo, Server!FlushAndGo,
         Transcripts!Flush, Server!Flush, Transcripts!Pending, Server!Pending, Transcripts!Batch,
         Server!Batch, Transcripts!Posting, Server!Posting, Transcripts!Cardinality, Server!Cardinality,
         Transcripts!Goto, Server!Goto, Transcripts!Stay, Server!Stay, Transcripts!Answer, Server!Answer
<1>7. \A c \in AgentRuns : Transcripts!AgentRaises(c) <=> Server!AgentRaises(c)
  BY DEF Transcripts!AgentRaises, Server!AgentRaises, Transcripts!MayFault, Server!MayFault,
         Transcripts!Faulted, Server!Faulted, Transcripts!Except, Server!Except, Transcripts!Stay,
         Server!Stay, Transcripts!Pending, Server!Pending, Transcripts!Batch, Server!Batch,
         Transcripts!ErrorPost, Server!ErrorPost, Transcripts!Posting, Server!Posting,
         Transcripts!Cardinality, Server!Cardinality
<1>8. \A c \in AgentRuns : Transcripts!Update(c) <=> Server!Update(c)
  BY DEF Transcripts!Update, Server!Update, Transcripts!Recorded, Server!Recorded, Transcripts!Flush,
         Server!Flush, Transcripts!Pending, Server!Pending, Transcripts!Batch, Server!Batch,
         Transcripts!Posting, Server!Posting, Transcripts!Cardinality, Server!Cardinality
<1>9. Transcripts!AgentDies <=> Server!AgentDies
  BY DEF Transcripts!AgentDies, Server!AgentDies, Transcripts!MayFault, Server!MayFault, Transcripts!Faulted,
         Server!Faulted
<1>10. \A p \in posts : Transcripts!PostReturns(p) <=> Server!PostReturns(p)
  BY DEF Transcripts!PostReturns, Server!PostReturns, Transcripts!Inserted, Server!Inserted,
         Transcripts!Advanced, Server!Advanced, Transcripts!Resume, Server!Resume, Transcripts!Stay,
         Server!Stay, Transcripts!Posting, Server!Posting, Transcripts!Cardinality, Server!Cardinality,
         Transcripts!Goto, Server!Goto, Transcripts!Answer, Server!Answer, Transcripts!ErrorPost,
         Server!ErrorPost
<1>11. \A p \in posts : Transcripts!PostIsRefused(p) <=> Server!PostIsRefused(p)
  BY DEF Transcripts!PostIsRefused, Server!PostIsRefused, Transcripts!MayFault, Server!MayFault,
         Transcripts!Faulted, Server!Faulted, Transcripts!Advanced, Server!Advanced, Transcripts!Resume,
         Server!Resume, Transcripts!Stay, Server!Stay, Transcripts!Posting, Server!Posting,
         Transcripts!Cardinality, Server!Cardinality, Transcripts!Goto, Server!Goto, Transcripts!Answer,
         Server!Answer, Transcripts!ErrorPost, Server!ErrorPost
<1>12. \A p \in posts : Transcripts!PostBreaks(p) <=> Server!PostBreaks(p)
  BY DEF Transcripts!PostBreaks, Server!PostBreaks, Transcripts!MayFault, Server!MayFault,
         Transcripts!Inserted, Server!Inserted, Transcripts!Stay, Server!Stay, Transcripts!Posting,
         Server!Posting, Transcripts!Except, Server!Except, Transcripts!Answer, Server!Answer,
         Transcripts!Cardinality, Server!Cardinality, Transcripts!Pending, Server!Pending, Transcripts!Batch,
         Server!Batch, Transcripts!ErrorPost, Server!ErrorPost, Transcripts!Faulted, Server!Faulted
<1>13. \A c \in AgentRuns : Transcripts!Step(c) <=> Server!Step(c)
  BY <1>1, <1>2, <1>3, <1>4, <1>5, <1>6, <1>7, <1>8 DEF Transcripts!Step, Server!Step
<1> QED BY <1>9, <1>10, <1>11, <1>12, <1>13 DEF Transcripts!Next, Server!Next

\* Its start and its promises are the same.
LEMMA SessionPromises ==
    /\ Transcripts!Init <=> Server!Init
    /\ Transcripts!TypeOK <=> Server!TypeOK
    /\ Transcripts!TranscriptIsComplete <=> Server!TranscriptIsComplete
    /\ Transcripts!UpdatesStayInTheirRun <=> Server!UpdatesStayInTheirRun
<1>1. Transcripts!Init <=> Server!Init
  BY DEF Transcripts!Init, Server!Init
<1>2. Transcripts!TypeOK <=> Server!TypeOK
  BY DEF Transcripts!TypeOK, Server!TypeOK
<1>3. Transcripts!TranscriptIsComplete <=> Server!TranscriptIsComplete
  BY DEF Transcripts!TranscriptIsComplete, Server!TranscriptIsComplete, Transcripts!EveryUpdateArrives,
         Server!EveryUpdateArrives, Transcripts!OnItsWay, Server!OnItsWay,
         Transcripts!NumbersFollowEvents, Server!NumbersFollowEvents, Transcripts!Before, Server!Before,
         Transcripts!Cardinality, Server!Cardinality
<1>4. Transcripts!UpdatesStayInTheirRun <=> Server!UpdatesStayInTheirRun
  BY DEF Transcripts!UpdatesStayInTheirRun, Server!UpdatesStayInTheirRun
<1> QED BY <1>1, <1>2, <1>3, <1>4

\* The server is as its invariant says while it is at hand.
LEMMA SessionInvariant == Spec => [](service = "sessions" => Server!WholeInv)
<1>1. Init => (service = "sessions" => Server!WholeInv)
  BY SessionPromises, Server!WholeBegins DEF Init
<1>2. ASSUME service = "sessions" => Server!WholeInv, [Next]_vars
      PROVE  (service = "sessions" => Server!WholeInv)'
  <2>1. CASE UNCHANGED vars
    <3>1. service' = service /\ UNCHANGED Server!vars
      BY <2>1 DEF vars, sessionVars, Server!vars
    <3> QED BY <1>2, <3>1, Server!WholeNext, AgentRunAssumption
  <2>2. CASE Next
    <3>1. service' = service
      BY <2>2 DEF Next
    <3> SUFFICES ASSUME service = "sessions" PROVE Server!WholeInv'
      BY <3>1
    <3>2. Transcripts!Next
      BY <2>2 DEF Next
    <3> QED BY <1>2, <3>2, SessionSteps, Server!WholeNext, AgentRunAssumption
  <2> QED BY <1>2, <2>1, <2>2
<1> QED BY <1>1, <1>2, PTL DEF Spec

\* However the posts of a session and of its updates overlap, every update that the agent
\* sends before it answers is in the transcript of its run or on its way there, unless a post
\* failed; if none met another either, the numbers follow the events
\* (RuntimeRecordingClient.flush).
THEOREM TranscriptsAreComplete == Spec => []TranscriptIsComplete
<1>1. (service = "sessions" => Server!WholeInv) => TranscriptIsComplete
  BY Server!WholeShows, SessionPromises DEF TranscriptIsComplete
<1> QED BY <1>1, SessionInvariant, PTL

\* An update stands in the transcript of its own run, unless it came after the prompt of its
\* session had ended (begin_session).
THEOREM UpdatesKeepTheirRun == Spec => []UpdatesStayInTheirRun
<1>1. (service = "sessions" => Server!WholeInv) => UpdatesStayInTheirRun
  BY Server!WholeShows, SessionPromises DEF UpdatesStayInTheirRun
<1> QED BY <1>1, SessionInvariant, PTL

-----------------------------------------------------------------------------
(* The knowledge base *)

KnowPoints == {"absent", "idle", "artifact", "request", "create", "statement", "commit", "unlink",
               "lookup", "ended"}
KnowRows == Documents \X (Knowledge!Calls \cup {0}) \X Nat

\* What is left to do of an indexing, of a removal, of both, and of a search.
IndexingTodo == {<<"ensure", "embed", "upsert">>, <<"embed", "upsert">>, <<"upsert">>}
RemovingTodo == {<<"ensure", "remove">>, <<"remove">>}
RenewingTodo == {<<"ensure", "remove", "ensure", "embed", "upsert">>,
                 <<"remove", "ensure", "embed", "upsert">>}
SearchTodo == {<<"ensure", "embed", "search">>, <<"embed", "search">>, <<"search">>}
Todos == IndexingTodo \cup RemovingTodo \cup RenewingTodo \cup SearchTodo \cup {<<>>}

KnowEntry == [pc : KnowPoints, phase : {"try", "undo", "missing"}, todo : Todos,
              loaded : {"none", "indexed", "failed"}, new : SUBSET KnowRows, seen : SUBSET KnowRows,
              found : SUBSET KnowRows, gone : SUBSET Documents, alone : BOOLEAN]
KnowHistory == [faults : Nat, other : BOOLEAN, raced : BOOLEAN, deleted : SUBSET Documents,
                settled : [Documents -> BOOLEAN]]

KnowTypes ==
    /\ kDo \in KnowledgeCalls
    /\ kCall \in [Knowledge!Calls -> KnowEntry]
    /\ collection \in {"missing", "fits", "other"}
    /\ points \in SUBSET KnowRows /\ chunks \in SUBSET KnowRows
    /\ status \in [Documents -> {"none", "indexed", "failed"}]
    /\ kFiles \in SUBSET Documents
    /\ kHistory \in KnowHistory

RowsOf(d) == Knowledge!Of(chunks, d)
PointsOf(d) == Knowledge!Of(points, d)

\* The calls at work on a document.
Writers(d) == {c \in Knowledge!Live : Knowledge!Writes(c) /\ Knowledge!Working(c) /\ kDo[c].document = d}

\* Why the indexing of a document may fail.
Cause(d) == Tokens[d] = 0 \/ kHistory.faults > 0 \/ kHistory.other \/ kHistory.raced

\* Where a call may be, and with what left to do.
Placed(c) ==
    LET pc == kCall[c].pc  todo == kCall[c].todo  kind == kDo[c].kind
    IN  /\ pc = "absent" <=> c \notin Knowledge!Live
        /\ pc = "create" => Head(todo) = "ensure"
        /\ kind = "search" /\ Knowledge!Working(c) =>
             \/ pc \in {"request", "create"} /\ todo \in SearchTodo
             \/ pc = "lookup"
        /\ kind = "upload" /\ Knowledge!Working(c) =>
             \/ pc \in {"request", "create"} /\ todo \in IndexingTodo
             \/ pc \in {"statement", "commit"}
        /\ kind = "reindex" /\ Knowledge!Working(c) =>
             \/ pc \in {"request", "create"} /\ kCall[c].phase = "try" /\ todo \in RenewingTodo \cup IndexingTodo
             \/ pc \in {"request", "create"} /\ kCall[c].phase # "try" /\ todo \in RemovingTodo
             \/ pc = "artifact" /\ kCall[c].phase = "try"
             \/ pc \in {"statement", "commit"}
        /\ kind = "delete" /\ Knowledge!Working(c) =>
             \/ pc \in {"request", "create"} /\ todo \in RemovingTodo
             \/ pc \in {"statement", "commit", "unlink"}

\* What a call at work on d holds is of d, and what it will insert is all of d or, after an
\* error, nothing.
Holding(c, d) ==
    LET r == kCall[c]
    IN  /\ Knowledge!Of(r.seen, d) = r.seen
        /\ r.new \in {{}, Knowledge!ChunkRows(d, c)}
        /\ kDo[c].kind = "upload" =>
             /\ r.pc \in {"request", "create"} => r.new = Knowledge!ChunkRows(d, c)
             /\ r.new = {} => Cause(d)
        /\ kDo[c].kind = "reindex" =>
             /\ r.phase = "try" /\ r.pc # "artifact" => r.new = Knowledge!ChunkRows(d, c)
             /\ r.phase # "try" \/ r.pc = "artifact" => r.new = {}
        /\ kDo[c].kind = "delete" /\ r.pc = "unlink" => status[d] = "none"

\* What a call that is alone with d has done of its work.
Done(c, d) ==
    LET r == kCall[c]
    IN  /\ r.pc = "commit" /\ kDo[c].kind # "upload" => r.seen = RowsOf(d)
        /\ kDo[c].kind = "reindex" =>
             /\ status[d] # "none" /\ r.loaded = status[d]
             /\ r.phase # "try" => r.phase = "undo" /\ Cause(d)
             /\ r.phase = "try" /\ r.pc \in {"request", "create"} /\ r.todo \in IndexingTodo => PointsOf(d) = {}
             /\ r.phase = "try" /\ r.pc \in {"statement", "commit"} => PointsOf(d) = r.new
        /\ kDo[c].kind = "delete" =>
             /\ r.pc = "unlink" \/ status[d] # "none"
             /\ r.pc \in {"statement", "commit", "unlink"} => PointsOf(d) = {}
             /\ r.pc = "unlink" => RowsOf(d) = {}

Occupied(d) ==
    \A c \in Writers(d) :
        Holding(c, d) /\ (kCall[c].alone => (\A e \in Writers(d) : e = c) /\ Done(c, d))

\* A document does not exist before its upload is over.
Sent(c, d) ==
    LET r == kCall[c]
    IN  /\ r.pc \in {"idle", "request", "create"} => PointsOf(d) = {}
        /\ r.pc # "idle" => d \in kFiles
        /\ r.pc \in {"statement", "commit"} => r.new = {} \/ PointsOf(d) = r.new
Uploading(c, d) ==
    /\ status[d] = "none" /\ RowsOf(d) = {} /\ d \notin kHistory.deleted /\ \A e \in Writers(d) : e = c
    /\ Sent(c, d)
Unborn(d) ==
    \A c \in Knowledge!Live :
        kDo[c].kind = "upload" /\ kDo[c].document = d /\ kCall[c].pc # "ended" => Uploading(c, d)

\* Both stores hold the windows of one indexing.
Good(d) == \E c \in Knowledge!Calls \cup {0} :
    RowsOf(d) = Knowledge!ChunkRows(d, c) /\ PointsOf(d) = Knowledge!ChunkRows(d, c)

\* A deletion that has only begun.
Looking(c) == kDo[c].kind = "delete" /\ kCall[c].todo = <<"ensure", "remove">>

\* What the stores and the history say of d.
Indexed(d) == status[d] = "indexed" /\ kHistory.settled[d] /\ (\A c \in Writers(d) : Looking(c)) => Good(d)
Sound(d) ==
    /\ status[d] # "none" => d \in kFiles
    /\ Indexed(d)
    /\ status[d] = "failed" /\ kHistory.settled[d] => Cause(d)
    /\ d \in kHistory.deleted =>
         status[d] = "none" /\ RowsOf(d) = {} /\ PointsOf(d) = {} /\ d \notin kFiles /\ Writers(d) = {}

Documented(d) == Occupied(d) /\ Unborn(d) /\ Sound(d)

\* A search finds nothing of what was deleted before.
Searching(c) == kCall[c].gone \subseteq kHistory.deleted /\ \A d \in kCall[c].gone : Knowledge!Of(kCall[c].found, d) = {}

KnowInv ==
    /\ KnowTypes /\ (collection = "other" => kHistory.other)
    /\ \A c \in Knowledge!Calls : Placed(c) /\ Searching(c)
    /\ \A d \in Documents : Documented(d)

\* A set of numbers that is not empty has a least element.
LEMMA LeastNumber ==
    ASSUME NEW T \in SUBSET Nat, T # {}
    PROVE  \E n \in T : \A m \in T : n <= m
<1>1. PICK n \in T : \A m \in T : ~ (<<m, n>> \in OpToRel(<, Nat))
  BY NatLessThanWellFounded, WFMin
<1>2. \A m \in T : ~ (m < n)
  BY <1>1 DEF OpToRel
<1> QED BY <1>2

\* The lists of what is left to do, and what follows when the first of it is done.
LEMMA TodoFacts ==
    ASSUME NEW t \in Todos \ {<<>>}
    PROVE  /\ t \in IndexingTodo \/ t \in RemovingTodo \/ t \in RenewingTodo \/ t \in SearchTodo
           /\ Head(t) \in {"ensure", "embed", "upsert", "remove", "search"}
           /\ Len(t) > 1 => Tail(t) \in Todos \ {<<>>}
           /\ t \in IndexingTodo /\ Len(t) > 1 => Head(t) \in {"ensure", "embed"} /\ Tail(t) \in IndexingTodo
           /\ t \in IndexingTodo /\ ~(Len(t) > 1) => Head(t) = "upsert"
           /\ t \in RemovingTodo /\ Len(t) > 1 => Head(t) = "ensure" /\ Tail(t) = <<"remove">>
           /\ t \in RemovingTodo /\ ~(Len(t) > 1) => Head(t) = "remove"
           /\ t \in RenewingTodo => /\ Len(t) > 1
                                    /\ \/ Head(t) = "ensure" /\ Tail(t) \in RenewingTodo
                                       \/ Head(t) = "remove" /\ Tail(t) \in IndexingTodo
           /\ t \in SearchTodo /\ Len(t) > 1 => Head(t) \in {"ensure", "embed"} /\ Tail(t) \in SearchTodo
           /\ t \in SearchTodo /\ ~(Len(t) > 1) => Head(t) = "search"
<1> USE DEF Todos, IndexingTodo, RemovingTodo, RenewingTodo, SearchTodo
<1>1. CASE t = <<"ensure", "embed", "upsert">>
  <2>1. Head(t) = "ensure" /\ Len(t) = 3 /\ Tail(t) = <<"embed", "upsert">>
    BY <1>1
  <2> QED BY <1>1, <2>1
<1>2. CASE t = <<"embed", "upsert">>
  <2>1. Head(t) = "embed" /\ Len(t) = 2 /\ Tail(t) = <<"upsert">>
    BY <1>2
  <2> QED BY <1>2, <2>1
<1>3. CASE t = <<"upsert">>
  <2>1. Head(t) = "upsert" /\ Len(t) = 1
    BY <1>3
  <2> QED BY <1>3, <2>1
<1>4. CASE t = <<"ensure", "remove">>
  <2>1. Head(t) = "ensure" /\ Len(t) = 2 /\ Tail(t) = <<"remove">>
    BY <1>4
  <2> QED BY <1>4, <2>1
<1>5. CASE t = <<"remove">>
  <2>1. Head(t) = "remove" /\ Len(t) = 1
    BY <1>5
  <2> QED BY <1>5, <2>1
<1>6. CASE t = <<"ensure", "remove", "ensure", "embed", "upsert">>
  <2>1. Head(t) = "ensure" /\ Len(t) = 5 /\ Tail(t) = <<"remove", "ensure", "embed", "upsert">>
    BY <1>6
  <2> QED BY <1>6, <2>1
<1>7. CASE t = <<"remove", "ensure", "embed", "upsert">>
  <2>1. Head(t) = "remove" /\ Len(t) = 4 /\ Tail(t) = <<"ensure", "embed", "upsert">>
    BY <1>7
  <2> QED BY <1>7, <2>1
<1>8. CASE t = <<"ensure", "embed", "search">>
  <2>1. Head(t) = "ensure" /\ Len(t) = 3 /\ Tail(t) = <<"embed", "search">>
    BY <1>8
  <2> QED BY <1>8, <2>1
<1>9. CASE t = <<"embed", "search">>
  <2>1. Head(t) = "embed" /\ Len(t) = 2 /\ Tail(t) = <<"search">>
    BY <1>9
  <2> QED BY <1>9, <2>1
<1>10. CASE t = <<"search">>
  <2>1. Head(t) = "search" /\ Len(t) = 1
    BY <1>10
  <2> QED BY <1>10, <2>1
<1> QED BY <1>1, <1>2, <1>3, <1>4, <1>5, <1>6, <1>7, <1>8, <1>9, <1>10

\* The stride of the windows is positive and not longer than a window.
LEMMA StrideFits == Knowledge!Stride \in Nat /\ 0 < Knowledge!Stride /\ Knowledge!Stride <= CHUNK_TOKENS
BY KnowledgeAssumption DEF Knowledge!Stride

\* A multiple of b that is less than b and not negative is 0.
LEMMA SmallMultiple ==
    ASSUME NEW b \in Nat, 0 < b, NEW k \in Int, 0 <= b * k, b * k < b
    PROVE  k = 0
<1>1. k >= 1 => b * k >= b
  OBVIOUS
<1>2. k <= -1 => b * k <= -b
  OBVIOUS
<1> QED BY <1>1, <1>2

\* The remainder is what is less than b.
LEMMA Remainder ==
    ASSUME NEW b \in Nat, 0 < b, NEW q \in Int, NEW s \in Nat, s = b * q
    PROVE  s % b = 0
<1>1. PICK p \in Int, r \in Nat : s = b * p + r /\ r < b /\ r = s % b
  OBVIOUS
<1>2. r = b * (q - p)
  BY <1>1
<1>3. q - p \in Int
  BY <1>1
<1>4. q - p = 0
  BY <1>1, <1>2, <1>3, SmallMultiple
<1> QED BY <1>1, <1>2, <1>4

\* Multiples of a positive number.
LEMMA Multiples ==
    ASSUME NEW b \in Nat, 0 < b
    PROVE  /\ 0 % b = 0
           /\ \A s \in Nat : s % b = 0 => (s + b) % b = 0
           /\ \A s \in Nat : s % b = 0 /\ s > 0 => s >= b /\ (s - b) % b = 0
           /\ \A w \in Nat : w % b \in Nat /\ w % b < b /\ w % b <= w /\ (w - (w % b)) % b = 0
<1>1. 0 % b = 0
  OBVIOUS
<1>2. ASSUME NEW s \in Nat, s % b = 0 PROVE (s + b) % b = 0
  <2>1. PICK q \in Int : s = b * q
    BY <1>2
  <2>2. s + b = b * (q + 1) /\ q + 1 \in Int /\ s + b \in Nat
    BY <2>1
  <2> QED BY <2>2, Remainder
<1>3. ASSUME NEW s \in Nat, s % b = 0, s > 0 PROVE s >= b /\ (s - b) % b = 0
  <2>1. PICK q \in Int : s = b * q
    BY <1>3
  <2>2. s >= b
    BY <1>3, <2>1, SmallMultiple
  <2>3. s - b = b * (q - 1) /\ q - 1 \in Int /\ s - b \in Nat
    BY <2>1, <2>2
  <2> QED BY <2>2, <2>3, Remainder
<1>4. ASSUME NEW w \in Nat PROVE w % b \in Nat /\ w % b < b /\ w % b <= w /\ (w - (w % b)) % b = 0
  <2> DEFINE p == w \div b
             r == w % b
  <2>1. p \in Int /\ r \in Nat /\ w = b * p + r /\ r < b
    OBVIOUS
  <2> HIDE DEF p, r
  <2>2. p >= 0
    <3>1. p <= -1 => b * p <= -b
      BY <2>1
    <3> QED BY <2>1, <3>1
  <2>3. b * p >= 0
    BY <2>1, <2>2
  <2>4. w - r = b * p /\ w - r \in Nat
    BY <2>1, <2>3
  <2>5. (w - r) % b = 0 /\ r <= w
    BY <2>1, <2>4, Remainder
  <2> QED BY <2>1, <2>5 DEF r
<1> QED BY <1>1, <1>2, <1>3, <1>4

\* The smaller of two numbers.
LEMMA SmallerOf ==
    ASSUME NEW m \in Nat, NEW n \in Nat
    PROVE  Knowledge!Min({m, n}) = IF m <= n THEN m ELSE n
<1>1. CASE m <= n
  BY <1>1 DEF Knowledge!Min
<1>2. CASE ~(m <= n)
  BY <1>2 DEF Knowledge!Min
<1> QED BY <1>1, <1>2

\* Every word of a text is in a window, and no window has another.
LEMMA WindowsCover ==
    ASSUME NEW n \in Nat
    PROVE  UNION {Knowledge!Window(n, s) : s \in Knowledge!Starts(n)} = 0..(n - 1)
<1> DEFINE b == Knowledge!Stride
           T == {s \in Nat : s % b = 0 /\ s + CHUNK_TOKENS >= n}
<1>1. b \in Nat /\ 0 < b /\ b <= CHUNK_TOKENS /\ CHUNK_TOKENS \in Nat
  BY StrideFits, KnowledgeAssumption
<1> HIDE DEF b
<1>2. \A s \in Knowledge!Starts(n) : s \in 0..(n - 1)
  BY DEF Knowledge!Starts
<1>3. \A s \in 0..(n - 1) : Knowledge!Window(n, s) = s..((IF s + CHUNK_TOKENS <= n THEN s + CHUNK_TOKENS ELSE n) - 1)
  BY <1>1, SmallerOf DEF Knowledge!Window
<1>4. ASSUME NEW w \in 0..(n - 1)
      PROVE  \E s \in Knowledge!Starts(n) : s <= w /\ w < s + CHUNK_TOKENS
  <2> DEFINE s == w - (w % b)
  <2>1. s \in Nat /\ s <= w /\ s % b = 0 /\ w < s + b
    BY <1>1, Multiples
  <2> HIDE DEF s
  <2>2. CASE s \in Knowledge!Starts(n)
    BY <1>1, <2>1, <2>2
  <2>3. CASE s \notin Knowledge!Starts(n)
    <3>1. s > 0 /\ s - b + CHUNK_TOKENS >= n
      BY <1>1, <2>1, <2>3 DEF Knowledge!Starts, b
    <3>2. s - b \in T
      BY <1>1, <2>1, <3>1, Multiples
    <3>3. PICK t \in T : \A u \in T : t <= u
      <4>1. T \in SUBSET Nat /\ T # {}
        BY <3>2
      <4> HIDE DEF T
      <4> QED BY <4>1, LeastNumber
    <3>4. t \in Nat /\ t % b = 0 /\ t + CHUNK_TOKENS >= n /\ t <= s - b
      BY <3>2, <3>3
    <3>5. t > 0 => t - b \in Nat /\ (t - b) % b = 0 /\ t - b + CHUNK_TOKENS < n
      <4>1. t > 0 => t - b \in Nat /\ (t - b) % b = 0 /\ t - b < t
        BY <1>1, <3>4, Multiples
      <4> QED BY <1>1, <3>3, <3>4, <4>1
    <3>6. t \in Knowledge!Starts(n)
      BY <1>1, <2>1, <3>4, <3>5 DEF Knowledge!Starts, b
    <3> QED BY <1>1, <2>1, <3>4, <3>6
  <2> QED BY <2>2, <2>3
<1>5. ASSUME NEW w \in 0..(n - 1) PROVE \E s \in Knowledge!Starts(n) : w \in Knowledge!Window(n, s)
  <2>1. PICK s \in Knowledge!Starts(n) : s <= w /\ w < s + CHUNK_TOKENS
    BY <1>4
  <2>2. w \in Knowledge!Window(n, s)
    BY <1>1, <1>2, <1>3, <2>1
  <2> QED BY <2>2
<1>6. \A s \in Knowledge!Starts(n) : Knowledge!Window(n, s) \subseteq 0..(n - 1)
  BY <1>1, <1>2, <1>3
<1> QED BY <1>5, <1>6

\* The calls of a behaviour are calls of the kinds that the assumption names.
LEMMA KnowLive ==
    ASSUME KnowTypes
    PROVE  /\ Knowledge!Live \subseteq Knowledge!Calls /\ 0 \notin Knowledge!Live
           /\ \A c \in Knowledge!Live :
                /\ kDo[c].kind \in {"upload", "reindex", "delete", "search"}
                /\ Knowledge!Writes(c) <=> kDo[c].kind # "search"
                /\ Knowledge!Writes(c) => kDo[c].document \in Documents
                /\ kDo[c].kind = "upload" =>
                     /\ kDo[c].document \notin Uploaded
                     /\ \A e \in Knowledge!Live \ {c} :
                          kDo[e].kind = "upload" => kDo[e].document # kDo[c].document
BY KnowledgeAssumption DEF KnowTypes, Knowledge!Live, Knowledge!Calls, Knowledge!Writes

\* The rows and points of a document are of the call's and of no other document.
LEMMA OwnRows ==
    \A d, q, c : Knowledge!Of(Knowledge!ChunkRows(d, c), q) = IF q = d THEN Knowledge!ChunkRows(d, c) ELSE {}
BY DEF Knowledge!Of, Knowledge!ChunkRows

\* What concerns a document stays as it is.
Apart(d) ==
    /\ status'[d] = status[d] /\ RowsOf(d)' = RowsOf(d) /\ PointsOf(d)' = PointsOf(d)
    /\ d \in kFiles' <=> d \in kFiles
    /\ kHistory'.settled[d] = kHistory.settled[d]
    /\ d \in kHistory'.deleted <=> d \in kHistory.deleted
CausesStay == \A d \in Documents : Cause(d) => Cause(d)'

\* A step that leaves a document and the calls that write it alone.
LEMMA OtherDocument ==
    ASSUME KnowInv, NEW d \in Documents, kDo' = kDo, Apart(d), CausesStay,
           \A e \in Knowledge!Live : Knowledge!Writes(e) /\ kDo[e].document = d =>
               kCall'[e] = kCall[e] \/ (kCall[e].pc = "idle" /\ kCall'[e].pc = "ended")
    PROVE  Documented(d)'
<1>1. Knowledge!Live' = Knowledge!Live /\ \A e : Knowledge!Writes(e)' <=> Knowledge!Writes(e)
  BY DEF Knowledge!Live, Knowledge!Writes
<1>2. Writers(d)' = Writers(d) /\ \A e \in Writers(d) : kCall'[e] = kCall[e] /\ e \in Knowledge!Live
  BY <1>1 DEF Writers, Knowledge!Working
<1>3. Cause(d) => Cause(d)'
  BY DEF CausesStay
<1>4. Documented(d)
  BY DEF KnowInv
<1>5. Occupied(d)'
  <2> SUFFICES ASSUME NEW c \in Writers(d)
               PROVE  Holding(c, d)' /\ (kCall'[c].alone => (\A e \in Writers(d) : e = c) /\ Done(c, d)')
    BY <1>2 DEF Occupied
  <2>1. Holding(c, d) /\ (kCall[c].alone => (\A e \in Writers(d) : e = c) /\ Done(c, d))
    BY <1>4 DEF Documented, Occupied
  <2>2. kCall'[c] = kCall[c]
    BY <1>2
  <2>3. Holding(c, d)'
    BY <1>3, <2>1, <2>2 DEF Holding, Apart, Knowledge!Of, Knowledge!ChunkRows
  <2>4. Done(c, d) => Done(c, d)'
    BY <1>3, <2>2 DEF Done, Apart
  <2> QED BY <2>1, <2>2, <2>3, <2>4
<1>6. Unborn(d)'
  <2> SUFFICES ASSUME NEW c \in Knowledge!Live, kDo[c].kind = "upload", kDo[c].document = d, kCall'[c].pc # "ended"
               PROVE  Uploading(c, d)'
    BY <1>1 DEF Unborn
  <2>1. kCall'[c] = kCall[c]
    BY DEF Knowledge!Writes
  <2>2. Uploading(c, d)
    BY <1>4, <2>1 DEF Documented, Unborn
  <2> QED BY <1>2, <2>1, <2>2 DEF Uploading, Sent, Apart
<1>7. Sound(d)'
  <2>1. Good(d)' <=> Good(d)
    BY <1>1 DEF Good, Apart, Knowledge!ChunkRows, Knowledge!Calls
  <2>2. \A e \in Writers(d) : Looking(e)' <=> Looking(e)
    BY <1>2 DEF Looking
  <2> QED BY <1>2, <1>3, <1>4, <2>1, <2>2 DEF Documented, Sound, Indexed, Apart
<1> QED BY <1>5, <1>6, <1>7 DEF Documented

\* What a step of a call that writes d leaves of the other calls and documents.
Turned(c, r) == kDo' = kDo /\ kCall' = [kCall EXCEPT ![c] = r]
Elsewhere(d) == \A q \in Documents \ {d} : Apart(q)

\* A step of a call at work on d.
LEMMA WriterStep ==
    ASSUME KnowInv, NEW d \in Documents, NEW c \in Writers(d), NEW r \in KnowEntry, Turned(c, r),
           KnowTypes', Elsewhere(d), CausesStay, collection' = "other" => kHistory'.other,
           status[d] = "none" => status'[d] = "none" \/ kDo[c].kind = "upload",
           kHistory.deleted \subseteq kHistory'.deleted, r.gone = kCall[c].gone, r.found = kCall[c].found,
           r.pc \notin {"absent", "idle"}, Placed(c)',
           r.pc # "ended" =>
             /\ r.alone = kCall[c].alone /\ Holding(c, d)' /\ (r.alone => Done(c, d)')
             /\ kDo[c].kind = "upload" =>
                  status'[d] = "none" /\ RowsOf(d)' = {} /\ d \notin kHistory'.deleted /\ Sent(c, d)',
           Sound(d)'
    PROVE  KnowInv'
<1>1. Knowledge!Live' = Knowledge!Live /\ Knowledge!Calls' = Knowledge!Calls /\ \A e : Knowledge!Writes(e)' <=> Knowledge!Writes(e)
  BY DEF Knowledge!Live, Knowledge!Writes, Knowledge!Calls, Turned
<1>2. KnowTypes /\ c \in Knowledge!Live /\ c \in Knowledge!Calls /\ kDo[c].document = d /\ Knowledge!Writes(c)
  BY KnowLive DEF KnowInv, Writers
<1>3. kCall'[c] = r /\ \A e \in Knowledge!Calls \ {c} : kCall'[e] = kCall[e]
  BY <1>2 DEF Turned, KnowTypes
<1>4. Documented(d) /\ (Cause(d) => Cause(d)')
  BY DEF KnowInv, CausesStay
<1>5. Writers(d)' = IF r.pc = "ended" THEN Writers(d) \ {c} ELSE Writers(d)
  <2>1. \A e \in Knowledge!Live : e # c => kCall'[e] = kCall[e]
    BY <1>2, <1>3, KnowLive
  <2> QED BY <1>1, <1>2, <1>3, <2>1 DEF Writers, Knowledge!Working, Turned
<1>6. ASSUME NEW e \in Writers(d), e # c PROVE Holding(e, d)' /\ ~kCall'[e].alone
  <2>1. kCall'[e] = kCall[e]
    BY <1>2, <1>3, <1>6, KnowLive DEF Writers
  <2>2. Holding(e, d) /\ ~kCall[e].alone
    BY <1>4, <1>6 DEF Documented, Occupied
  <2>3. kDo[c].kind # "upload"
    <3>1. Uploading(c, d) => e = c
      BY DEF Uploading
    <3>2. kCall[c].pc # "ended"
      BY DEF Writers, Knowledge!Working
    <3> QED BY <1>2, <1>4, <1>6, <3>1, <3>2 DEF Documented, Unborn
  <2> QED BY <1>4, <2>1, <2>2, <2>3 DEF Holding, Turned, Knowledge!Of, Knowledge!ChunkRows
<1>7. Occupied(d)'
  <2> SUFFICES ASSUME NEW e \in Writers(d), e = c => r.pc # "ended"
               PROVE  Holding(e, d)' /\ (kCall'[e].alone => (\A f \in Writers(d)' : f = e) /\ Done(e, d)')
    BY <1>5 DEF Occupied
  <2>1. CASE e # c
    BY <1>6, <2>1
  <2>2. CASE e = c
    <3>1. r.pc # "ended" /\ kCall'[e] = r
      BY <1>3, <2>2
    <3>2. r.alone => \A f \in Writers(d) : f = e
      BY <1>4, <2>2, <3>1 DEF Documented, Occupied
    <3> QED BY <1>5, <2>2, <3>1, <3>2
  <2> QED BY <2>1, <2>2
<1>8. Unborn(d)'
  <2> SUFFICES ASSUME NEW e \in Knowledge!Live, kDo[e].kind = "upload", kDo[e].document = d, kCall'[e].pc # "ended"
               PROVE  Uploading(e, d)'
    BY <1>1 DEF Unborn, Turned
  <2>1. e = c
    <3> SUFFICES ASSUME e # c PROVE FALSE
      OBVIOUS
    <3>1. kCall'[e] = kCall[e]
      BY <1>2, <1>3, KnowLive
    <3> QED BY <1>4, <3>1 DEF Documented, Unborn, Uploading
  <2>2. r.pc # "ended" /\ kDo[c].kind = "upload"
    BY <1>3, <2>1
  <2>3. \A f \in Writers(d)' : f = c
    BY <1>2, <1>4, <1>5, <2>2, KnowLive DEF Documented, Unborn, Uploading, Writers, Knowledge!Working
  <2> QED BY <2>1, <2>2, <2>3 DEF Uploading
<1>9. ASSUME NEW q \in Documents PROVE Documented(q)'
  <2>1. CASE q = d
    BY <1>7, <1>8, <2>1 DEF Documented
  <2>2. CASE q # d
    <3>1. \A e \in Knowledge!Live : Knowledge!Writes(e) /\ kDo[e].document = q => kCall'[e] = kCall[e]
      BY <1>2, <1>3, <2>2, KnowLive
    <3>2. Apart(q) /\ kDo' = kDo
      BY <2>2 DEF Elsewhere, Turned
    <3> QED BY <3>1, <3>2, OtherDocument
  <2> QED BY <2>1, <2>2
<1>10. ASSUME NEW e \in Knowledge!Calls PROVE Placed(e)' /\ Searching(e)'
  <2>1. Searching(e)'
    <3>1. kCall'[e].gone = kCall[e].gone /\ kCall'[e].found = kCall[e].found
      BY <1>3
    <3> QED BY <3>1 DEF KnowInv, Searching, Knowledge!Of
  <2>2. Placed(e)'
    <3>1. CASE e = c
      BY <3>1
    <3>2. CASE e # c
      <4>1. kCall'[e] = kCall[e] /\ Placed(e)
        BY <1>3, <3>2 DEF KnowInv
      <4> QED BY <1>1, <4>1 DEF Placed, Knowledge!Working, Turned
    <3> QED BY <3>1, <3>2
  <2> QED BY <2>1, <2>2
<1> QED BY <1>1, <1>9, <1>10 DEF KnowInv

\* A step after which no more is forgotten, and no more is deleted.
Grows ==
    /\ kHistory' \in KnowHistory /\ kHistory'.deleted = kHistory.deleted /\ kHistory'.other = kHistory.other
    /\ kHistory.faults <= kHistory'.faults /\ (kHistory.raced => kHistory'.raced)

\* What a request of a call that writes d may change.
Requests(c, d) ==
    /\ UNCHANGED <<chunks, status, kFiles>> /\ collection' \in {collection, "fits"} /\ Grows
    /\ points' \in {points, points \ PointsOf(d), points \cup kCall[c].new}
    /\ \A q \in Documents \ {d} : kHistory'.settled[q] = kHistory.settled[q]
    /\ kHistory'.settled[d] => kHistory.settled[d]

\* Causes do not go away.
LEMMA GrowingCauses ==
    ASSUME KnowTypes, Grows
    PROVE  CausesStay
BY DEF Grows, CausesStay, Cause, KnowTypes, KnowHistory

\* What a call at work on a document keeps to.
LEMMA AtDocument ==
    ASSUME KnowInv, NEW d \in Documents, NEW c \in Writers(d)
    PROVE  /\ c \in Knowledge!Live /\ c \in Knowledge!Calls /\ kCall[c] \in KnowEntry /\ kDo[c].document = d
           /\ kDo[c].kind \in {"upload", "reindex", "delete"} /\ Knowledge!Writes(c)
           /\ kCall[c].pc \in KnowPoints \ {"absent", "idle", "ended"}
           /\ Placed(c) /\ Searching(c) /\ Holding(c, d) /\ Sound(d) /\ d \notin kHistory.deleted
           /\ kCall[c].alone => (\A e \in Writers(d) : e = c) /\ Done(c, d)
           /\ kDo[c].kind = "upload" => Uploading(c, d)
<1>1. c \in Knowledge!Live /\ Knowledge!Writes(c) /\ Knowledge!Working(c) /\ kDo[c].document = d
  BY DEF Writers
<1>2. c \in Knowledge!Calls /\ kDo[c].kind \in {"upload", "reindex", "delete"}
  BY <1>1, KnowLive DEF KnowInv
<1>3. Documented(d) /\ Placed(c) /\ Searching(c) /\ kCall[c] \in KnowEntry
  BY <1>2 DEF KnowInv, KnowTypes
<1>4. kCall[c].pc \in KnowPoints \ {"absent", "idle", "ended"}
  BY <1>1, <1>3 DEF Knowledge!Working, KnowEntry
<1>5. d \notin kHistory.deleted
  BY <1>3 DEF Documented, Sound
<1>6. kDo[c].kind = "upload" => Uploading(c, d)
  BY <1>1, <1>3, <1>4 DEF Documented, Unborn
<1>7. Holding(c, d) /\ (kCall[c].alone => (\A e \in Writers(d) : e = c) /\ Done(c, d))
  BY <1>3 DEF Documented, Occupied
<1> QED BY <1>1, <1>2, <1>3, <1>4, <1>5, <1>6, <1>7 DEF Documented

\* A request changes nothing of the other documents.
LEMMA RequestsElsewhere ==
    ASSUME KnowInv, NEW d \in Documents, NEW c \in Writers(d), Requests(c, d)
    PROVE  Elsewhere(d) /\ points' \in SUBSET KnowRows
<1>1. kCall[c].new \in {{}, Knowledge!ChunkRows(d, c)} /\ kCall[c].new \in SUBSET KnowRows
  BY AtDocument DEF Holding, KnowEntry
<1>2. points' \in SUBSET KnowRows
  BY <1>1 DEF Requests, KnowInv, KnowTypes
<1>3. ASSUME NEW q \in Documents \ {d} PROVE Apart(q)
  <2>1. Knowledge!Of(kCall[c].new, q) = {}
    BY <1>1, <1>3, OwnRows DEF Knowledge!Of
  <2>2. PointsOf(q)' = PointsOf(q)
    BY <1>3, <2>1 DEF Requests, PointsOf, Knowledge!Of
  <2>3. RowsOf(q)' = RowsOf(q)
    BY DEF Requests, RowsOf, Knowledge!Of
  <2> QED BY <1>3, <2>2, <2>3 DEF Requests, Grows, Apart
<1> QED BY <1>2, <1>3 DEF Elsewhere

\* A step of a call at work on d that changes no row.
LEMMA RequestStep ==
    ASSUME KnowInv, NEW d \in Documents, NEW c \in Writers(d), NEW r \in KnowEntry, Turned(c, r), Requests(c, d),
           r.gone = kCall[c].gone, r.found = kCall[c].found, r.pc \notin {"absent", "idle"},
           r.pc = "ended" => ~kHistory'.settled[d] \/ (Looking(c) /\ points' = points),
           r.pc # "ended" =>
             /\ r.alone = kCall[c].alone /\ Placed(c)' /\ Holding(c, d)' /\ (r.alone => Done(c, d)')
             /\ kDo[c].kind = "upload" => Sent(c, d)'
             /\ Looking(c)' => Looking(c) /\ points' = points
    PROVE  KnowInv'
<1>1. /\ c \in Knowledge!Live /\ c \in Knowledge!Calls /\ Sound(d) /\ d \notin kHistory.deleted
      /\ kDo[c].kind = "upload" => Uploading(c, d)
  BY AtDocument
<1>2. kCall'[c] = r /\ \A e \in Knowledge!Calls \ {c} : kCall'[e] = kCall[e]
  BY <1>1 DEF Turned, KnowInv, KnowTypes
<1>3. Elsewhere(d) /\ points' \in SUBSET KnowRows
  BY RequestsElsewhere
<1>4. CausesStay
  BY GrowingCauses DEF Requests, KnowInv
<1>5. KnowTypes'
  <2>1. kCall' \in [Knowledge!Calls -> KnowEntry] /\ kDo' = kDo
    BY <1>1 DEF Turned, KnowInv, KnowTypes
  <2>2. Knowledge!Calls' = Knowledge!Calls /\ KnowRows' = KnowRows /\ KnowEntry' = KnowEntry /\ KnowHistory' = KnowHistory
    BY DEF Knowledge!Calls, KnowRows, KnowEntry, KnowHistory
  <2> QED BY <1>3, <2>1, <2>2 DEF Requests, Grows, KnowInv, KnowTypes
<1>6. RowsOf(d)' = RowsOf(d)
  BY DEF Requests, RowsOf, Knowledge!Of
<1>7. Placed(c)'
  <2>1. r.pc = "ended" => Placed(c)'
    BY <1>1, <1>2 DEF Placed, Turned, Knowledge!Live, Knowledge!Working
  <2> QED BY <2>1
<1>8. Sound(d)'
  <2>1. \A e \in Writers(d) : e # c => e \in Writers(d)' /\ (Looking(e)' <=> Looking(e))
    <3>1. \A e \in Writers(d) : e # c => kCall'[e] = kCall[e]
      BY <1>2, AtDocument
    <3> QED BY <3>1 DEF Writers, Looking, Turned, Knowledge!Live, Knowledge!Writes, Knowledge!Working
  <2>2. r.pc # "ended" => c \in Writers(d)'
    BY <1>2 DEF Writers, Turned, Knowledge!Live, Knowledge!Writes, Knowledge!Working
  <2>3. points' = points => PointsOf(d)' = PointsOf(d)
    BY DEF PointsOf, Knowledge!Of
  <2>4. RowsOf(d)' = RowsOf(d) /\ PointsOf(d)' = PointsOf(d) => (Good(d) => Good(d)')
    BY DEF Good, Turned, Knowledge!Calls, Knowledge!ChunkRows
  <2>5. Indexed(d)'
    <3> SUFFICES ASSUME status'[d] = "indexed", kHistory'.settled[d], \A e \in Writers(d)' : Looking(e)'
                 PROVE  Good(d)'
      BY DEF Indexed
    <3>1. Looking(c) /\ points' = points
      BY <2>2
    <3>2. \A e \in Writers(d) : Looking(e)
      BY <2>1, <3>1
    <3>3. Good(d)
      BY <1>1, <3>2 DEF Sound, Indexed, Requests
    <3> QED BY <1>6, <2>3, <2>4, <3>1, <3>3
  <2>6. status'[d] # "none" => d \in kFiles'
    BY <1>1 DEF Sound, Requests
  <2>7. status'[d] = "failed" /\ kHistory'.settled[d] => Cause(d)'
    BY <1>1, <1>4 DEF Sound, Requests, CausesStay
  <2> QED BY <1>1, <2>5, <2>6, <2>7 DEF Sound, Requests, Grows
<1>9. collection' = "other" => kHistory'.other
  BY DEF KnowInv, Requests, Grows
<1>10. status[d] = "none" => status'[d] = "none"
  BY DEF Requests
<1>11. r.pc # "ended" => (kDo[c].kind = "upload" => status'[d] = "none" /\ RowsOf(d)' = {} /\ d \notin kHistory'.deleted)
  BY <1>1, <1>6 DEF Uploading, Requests, Grows
<1>12. kHistory.deleted \subseteq kHistory'.deleted
  BY DEF Requests, Grows
<1> QED BY <1>3, <1>4, <1>5, <1>7, <1>8, <1>9, <1>10, <1>11, <1>12, WriterStep

\* A step of a call that writes no document, or that ends before it begins.
LEMMA AsideStep ==
    ASSUME KnowInv, NEW c \in Knowledge!Live, NEW r \in KnowEntry, Turned(c, r),
           Knowledge!Writes(c) => kCall[c].pc = "idle" /\ r.pc = "ended",
           UNCHANGED <<points, chunks, status, kFiles>>, collection' \in {collection, "fits"}, Grows,
           kHistory'.settled = kHistory.settled, Placed(c)', Searching(c)'
    PROVE  KnowInv'
<1>1. c \in Knowledge!Calls /\ kDo' = kDo
  BY KnowLive DEF KnowInv, Turned
<1>2. kCall'[c] = r /\ \A e \in Knowledge!Calls \ {c} : kCall'[e] = kCall[e]
  BY <1>1 DEF Turned, KnowInv, KnowTypes
<1>3. CausesStay
  BY GrowingCauses DEF KnowInv
<1>4. KnowTypes'
  <2>1. kCall' \in [Knowledge!Calls -> KnowEntry] /\ kDo' = kDo
    BY <1>1 DEF Turned, KnowInv, KnowTypes
  <2>2. Knowledge!Calls' = Knowledge!Calls /\ KnowRows' = KnowRows /\ KnowEntry' = KnowEntry /\ KnowHistory' = KnowHistory
    BY DEF Knowledge!Calls, KnowRows, KnowEntry, KnowHistory
  <2> QED BY <2>1, <2>2 DEF Grows, KnowInv, KnowTypes
<1>5. ASSUME NEW d \in Documents PROVE Documented(d)'
  <2>1. Apart(d)
    BY DEF Apart, Grows, RowsOf, PointsOf, Knowledge!Of
  <2>2. \A e \in Knowledge!Live : Knowledge!Writes(e) /\ kDo[e].document = d =>
          kCall'[e] = kCall[e] \/ (kCall[e].pc = "idle" /\ kCall'[e].pc = "ended")
    BY <1>1, <1>2, KnowLive DEF KnowInv
  <2> QED BY <1>1, <1>3, <2>1, <2>2, OtherDocument
<1>6. ASSUME NEW e \in Knowledge!Calls PROVE Placed(e)' /\ Searching(e)'
  <2>1. CASE e = c
    BY <2>1
  <2>2. CASE e # c
    <3>1. kCall'[e] = kCall[e] /\ Placed(e) /\ Searching(e)
      BY <1>2, <2>2 DEF KnowInv
    <3> QED BY <1>1, <3>1 DEF Placed, Searching, Grows, Knowledge!Working, Knowledge!Live, Knowledge!Of
  <2> QED BY <2>1, <2>2
<1>7. collection' = "other" => kHistory'.other
  BY DEF KnowInv, Grows
<1>8. Knowledge!Calls' = Knowledge!Calls
  BY DEF Knowledge!Calls
<1> QED BY <1>4, <1>5, <1>6, <1>7, <1>8 DEF KnowInv

\* A call that is no longer alone is the same call otherwise.
LEMMA NotAlone ==
    ASSUME NEW x \in KnowEntry, NEW y, y = [x EXCEPT !.alone = FALSE]
    PROVE  /\ y \in KnowEntry /\ ~y.alone /\ y.pc = x.pc /\ y.phase = x.phase /\ y.todo = x.todo
           /\ y.new = x.new /\ y.seen = x.seen /\ y.gone = x.gone /\ y.found = x.found
BY DEF KnowEntry

\* The first step of a call that writes d: the calls that it meets are no longer alone.
LEMMA BeginStep ==
    ASSUME KnowInv, NEW c \in Knowledge!Live, NEW d \in Documents, NEW r \in KnowEntry,
           kCall[c].pc = "idle", Knowledge!Writes(c), kDo[c].document = d, kDo' = kDo,
           r.alone <=> Knowledge!Rivals(c) = {},
           kCall' = [e \in Knowledge!Calls |-> IF e = c THEN r
                                               ELSE IF e \in Knowledge!Rivals(c) THEN [kCall[e] EXCEPT !.alone = FALSE]
                                               ELSE kCall[e]],
           UNCHANGED <<collection, points, chunks, status, kHistory>>,
           kFiles \subseteq kFiles' /\ kFiles' \subseteq kFiles \cup {d}, d \in kFiles' => d \in kFiles \/ kDo[c].kind = "upload",
           r.gone = {}, r.found = {}, r.pc \notin {"absent", "idle", "ended"},
           Placed(c)', Holding(c, d)', r.alone => Done(c, d)', kDo[c].kind = "upload" => Sent(c, d)',
           kDo[c].kind # "upload" => status[d] # "none",
           kDo[c].kind # "delete" \/ Looking(c)'
    PROVE  KnowInv'
<1>1. c \in Knowledge!Calls /\ kDo[c].kind \in {"upload", "reindex", "delete"} /\ KnowTypes
  BY KnowLive DEF KnowInv
<1>2. kCall'[c] = r /\ \A e \in Knowledge!Calls \ {c} : e \notin Knowledge!Rivals(c) => kCall'[e] = kCall[e]
  BY <1>1
<1>3. Writers(d) = Knowledge!Rivals(c) /\ c \notin Writers(d)
  BY DEF Writers, Knowledge!Rivals, Knowledge!Working
<1>4. \A e \in Writers(d) : kCall'[e] = [kCall[e] EXCEPT !.alone = FALSE] /\ kCall[e] \in KnowEntry
  BY <1>1, <1>3, AtDocument
<1>5. \A e \in Writers(d) : /\ ~kCall'[e].alone /\ kCall'[e].pc = kCall[e].pc /\ kCall'[e].phase = kCall[e].phase
                            /\ kCall'[e].todo = kCall[e].todo /\ kCall'[e].new = kCall[e].new
                            /\ kCall'[e].seen = kCall[e].seen /\ kCall'[e].gone = kCall[e].gone
                            /\ kCall'[e].found = kCall[e].found
  <2> SUFFICES ASSUME NEW e \in Writers(d)
               PROVE  /\ ~kCall'[e].alone /\ kCall'[e].pc = kCall[e].pc /\ kCall'[e].phase = kCall[e].phase
                      /\ kCall'[e].todo = kCall[e].todo /\ kCall'[e].new = kCall[e].new
                      /\ kCall'[e].seen = kCall[e].seen /\ kCall'[e].gone = kCall[e].gone
                      /\ kCall'[e].found = kCall[e].found
    OBVIOUS
  <2>1. kCall'[e] = [kCall[e] EXCEPT !.alone = FALSE] /\ kCall[e] \in KnowEntry
    BY <1>4
  <2> QED BY <2>1, NotAlone
<1>6. kCall' \in [Knowledge!Calls -> KnowEntry]
  <2>1. \A e \in Knowledge!Calls : kCall'[e] \in KnowEntry
    <3>1. \A e \in Writers(d) : kCall'[e] \in KnowEntry
      BY <1>4, NotAlone
    <3> QED BY <1>1, <1>2, <1>3, <3>1 DEF KnowTypes
  <2> QED BY <2>1
<1>7. KnowTypes'
  <2>1. Knowledge!Calls' = Knowledge!Calls /\ KnowRows' = KnowRows /\ KnowEntry' = KnowEntry /\ KnowHistory' = KnowHistory
    BY DEF Knowledge!Calls, KnowRows, KnowEntry, KnowHistory
  <2>2. kFiles' \in SUBSET Documents
    BY <1>1 DEF KnowTypes
  <2> QED BY <1>1, <1>6, <2>1, <2>2 DEF KnowTypes
<1>8. Knowledge!Live' = Knowledge!Live /\ \A e : Knowledge!Writes(e)' <=> Knowledge!Writes(e)
  BY DEF Knowledge!Live, Knowledge!Writes
<1>9. Writers(d)' = Writers(d) \cup {c}
  <2>1. \A e \in Knowledge!Live : e # c /\ e \notin Writers(d) => kCall'[e] = kCall[e]
    BY <1>2, <1>3, KnowLive DEF KnowInv
  <2>2. \A e \in Writers(d) : e \in Writers(d)'
    BY <1>5, <1>8 DEF Writers, Knowledge!Working
  <2> QED BY <1>2, <1>8, <2>1, <2>2 DEF Writers, Knowledge!Working
<1>10. Documented(d)
  BY DEF KnowInv
<1>11. RowsOf(d)' = RowsOf(d) /\ PointsOf(d)' = PointsOf(d) /\ (Cause(d)' <=> Cause(d)) /\ (Good(d)' <=> Good(d))
  BY <1>8 DEF RowsOf, PointsOf, Cause, Good, Knowledge!Of, Knowledge!ChunkRows, Knowledge!Calls
<1>12. kDo[c].kind = "upload" => Uploading(c, d)
  BY <1>10 DEF Documented, Unborn
<1>13. Occupied(d)'
  <2> SUFFICES ASSUME NEW e \in Writers(d) \cup {c}
               PROVE  Holding(e, d)' /\ (kCall'[e].alone => (\A f \in Writers(d)' : f = e) /\ Done(e, d)')
    BY <1>9 DEF Occupied
  <2>1. CASE e = c
    BY <1>2, <1>3, <1>9, <2>1
  <2>2. CASE e # c
    <3>1. Holding(e, d) /\ ~kCall'[e].alone
      BY <1>5, <2>2, AtDocument
    <3> QED BY <1>5, <1>11, <2>2, <3>1 DEF Holding, Knowledge!Of, Knowledge!ChunkRows
  <2> QED BY <2>1, <2>2
<1>14. Unborn(d)'
  <2> SUFFICES ASSUME NEW e \in Knowledge!Live, kDo[e].kind = "upload", kDo[e].document = d, kCall'[e].pc # "ended"
               PROVE  Uploading(e, d)'
    BY <1>8 DEF Unborn
  <2>1. CASE e # c
    <3>1. kCall'[e].pc = kCall[e].pc
      <4>1. e \in Knowledge!Calls
        BY KnowLive DEF KnowInv
      <4> QED BY <1>2, <1>3, <1>5, <2>1, <4>1
    <3>2. Uploading(e, d)
      BY <1>10, <3>1 DEF Documented, Unborn
    <3>3. kDo[c].kind = "upload"
      BY <1>1, <3>2 DEF Uploading
    <3> QED BY <1>1, <2>1, <3>3, KnowLive
  <2>2. CASE e = c
    <3>1. \A f \in Writers(d)' : f = c
      BY <1>9, <1>12, <2>2 DEF Uploading
    <3> QED BY <1>11, <1>12, <2>2, <3>1 DEF Uploading
  <2> QED BY <2>1, <2>2
<1>15. Sound(d)'
  <2>1. d \notin kHistory.deleted
    BY <1>10, <1>12 DEF Documented, Sound, Uploading
  <2>2. Indexed(d)'
    <3> SUFFICES ASSUME status[d] = "indexed", kHistory.settled[d], \A e \in Writers(d)' : Looking(e)'
                 PROVE  Good(d)
      BY <1>11 DEF Indexed
    <3>1. \A e \in Writers(d) : Looking(e)
      BY <1>5, <1>9 DEF Looking
    <3> QED BY <1>10, <3>1 DEF Documented, Sound, Indexed
  <2> QED BY <1>10, <1>11, <2>1, <2>2 DEF Documented, Sound
<1>16. ASSUME NEW q \in Documents PROVE Documented(q)'
  <2>1. CASE q = d
    BY <1>13, <1>14, <1>15, <2>1 DEF Documented
  <2>2. CASE q # d
    <3>1. \A e \in Knowledge!Live : Knowledge!Writes(e) /\ kDo[e].document = q =>
            kCall'[e] = kCall[e] \/ (kCall[e].pc = "idle" /\ kCall'[e].pc = "ended")
      BY <1>1, <1>2, <1>3, <2>2, KnowLive DEF Writers
    <3>2. Apart(q)
      BY <2>2 DEF Apart, RowsOf, PointsOf, Knowledge!Of
    <3>3. CausesStay
      BY DEF CausesStay, Cause
    <3> QED BY <3>1, <3>2, <3>3, OtherDocument
  <2> QED BY <2>1, <2>2
<1>17. ASSUME NEW e \in Knowledge!Calls PROVE Placed(e)' /\ Searching(e)'
  <2>1. CASE e = c
    BY <1>2, <2>1 DEF Searching
  <2>2. CASE e # c
    <3>1. Placed(e) /\ Searching(e)
      BY DEF KnowInv
    <3>2. /\ kCall'[e].pc = kCall[e].pc /\ kCall'[e].phase = kCall[e].phase /\ kCall'[e].todo = kCall[e].todo
          /\ kCall'[e].gone = kCall[e].gone /\ kCall'[e].found = kCall[e].found
      BY <1>2, <1>3, <1>5, <2>2
    <3> QED BY <1>8, <3>1, <3>2 DEF Placed, Searching, Knowledge!Working, Knowledge!Of
  <2> QED BY <2>1, <2>2
<1>18. collection' = "other" => kHistory'.other
  BY DEF KnowInv
<1>19. Knowledge!Calls' = Knowledge!Calls
  BY DEF Knowledge!Calls
<1> QED BY <1>7, <1>16, <1>17, <1>18, <1>19 DEF KnowInv

\* A call that has ended keeps what it found.
LEMMA EndedEntry ==
    ASSUME NEW c, kCall[c] \in KnowEntry
    PROVE  /\ Knowledge!EndedCall(c) \in KnowEntry /\ Knowledge!EndedCall(c).pc = "ended"
           /\ Knowledge!EndedCall(c).gone = kCall[c].gone /\ Knowledge!EndedCall(c).found = kCall[c].found
BY DEF Knowledge!EndedCall, Knowledge!Idle, KnowEntry, KnowPoints, Todos

\* A call after a request that succeeded.
LEMMA AdvancedEntry ==
    ASSUME NEW c, kCall[c] \in KnowEntry, kCall[c].todo # <<>>
    PROVE  LET r == Knowledge!Advanced(c)  x == kCall[c]
           IN  /\ r \in KnowEntry /\ r.phase = x.phase /\ r.loaded = x.loaded /\ r.new = x.new /\ r.seen = x.seen
               /\ r.found = x.found /\ r.gone = x.gone /\ r.alone = x.alone
               /\ IF Len(x.todo) > 1 THEN r.pc = "request" /\ r.todo = Tail(x.todo)
                  ELSE /\ r.todo = <<>>
                       /\ r.pc = IF kDo[c].kind = "search" THEN "lookup"
                                 ELSE IF kDo[c].kind = "upload" THEN "commit" ELSE "statement"
<1> DEFINE x == kCall[c]
<1>1. x \in KnowEntry /\ x.todo \in Todos \ {<<>>}
  BY DEF KnowEntry
<1>2. Len(x.todo) > 1 => Tail(x.todo) \in Todos
  BY <1>1, TodoFacts
<1>3. CASE Len(x.todo) > 1
  <2>1. Knowledge!Advanced(c) = [x EXCEPT !.pc = "request", !.todo = Tail(x.todo)]
    BY <1>3 DEF Knowledge!Advanced
  <2> HIDE DEF x
  <2>2. [x EXCEPT !.pc = "request", !.todo = Tail(x.todo)] \in KnowEntry
    BY <1>1, <1>2, <1>3 DEF KnowEntry, KnowPoints
  <2> QED BY <1>1, <1>3, <2>1, <2>2 DEF x, KnowEntry
<1>4. CASE ~(Len(x.todo) > 1)
  <2> DEFINE pc == IF kDo[c].kind = "search" THEN "lookup" ELSE IF kDo[c].kind = "upload" THEN "commit" ELSE "statement"
  <2>1. Knowledge!Advanced(c) = [x EXCEPT !.todo = <<>>, !.pc = pc]
    BY <1>4 DEF Knowledge!Advanced
  <2>2. pc \in KnowPoints /\ <<>> \in Todos
    BY DEF KnowPoints, Todos
  <2> HIDE DEF x, pc
  <2>3. [x EXCEPT !.todo = <<>>, !.pc = pc] \in KnowEntry
    BY <1>1, <2>2 DEF KnowEntry
  <2> QED BY <1>1, <1>4, <2>1, <2>3 DEF x, pc, KnowEntry
<1> QED BY <1>3, <1>4

\* A call after an error that it caught.
LEMMA CaughtEntry ==
    ASSUME NEW c, kCall[c] \in KnowEntry
    PROVE  LET r == Knowledge!Caught(c)  x == kCall[c]
           IN  /\ r \in KnowEntry /\ r.loaded = x.loaded /\ r.seen = x.seen /\ r.found = x.found
               /\ r.gone = x.gone /\ r.alone = x.alone /\ r.new = {}
               /\ IF kDo[c].kind = "upload" THEN r.pc = "commit" /\ r.phase = x.phase /\ r.todo = <<>>
                  ELSE r.pc = "request" /\ r.phase = "undo" /\ r.todo = <<"ensure", "remove">>
BY DEF Knowledge!Caught, Knowledge!Removing, KnowEntry, KnowPoints, Todos, RemovingTodo

\* The lists of what is left to do differ.
LEMMA TodosApart ==
    /\ <<"remove">> # <<"ensure", "remove">> /\ <<>> # <<"ensure", "remove">>
    /\ <<"ensure", "remove">> \notin IndexingTodo \cup RenewingTodo /\ <<"remove">> \notin IndexingTodo
    /\ \A t \in RenewingTodo : t \notin IndexingTodo
    /\ <<>> \notin IndexingTodo \cup RemovingTodo \cup RenewingTodo \cup SearchTodo
<1>1. \A t \in IndexingTodo : Len(t) \in {1, 2, 3} /\ t[Len(t)] = "upsert"
  BY DEF IndexingTodo
<1>2. \A t \in RenewingTodo : Len(t) \in {4, 5}
  BY DEF RenewingTodo
<1>3. \A t \in RemovingTodo \cup SearchTodo : Len(t) # 0
  BY DEF RemovingTodo, SearchTodo
<1>4. Len(<<"remove">>) = 1 /\ Len(<<"ensure", "remove">>) = 2 /\ Len(<<>>) = 0
  OBVIOUS
<1>5. <<"ensure", "remove">>[2] = "remove" /\ <<"remove">>[1] = "remove"
  OBVIOUS
<1>6. <<"ensure", "remove">> \notin IndexingTodo /\ <<"remove">> \notin IndexingTodo
  <2>1. <<"ensure", "remove">>[2] # "upsert" /\ <<"remove">>[1] # "upsert"
    BY <1>5
  <2>2. <<"ensure", "remove">> \notin IndexingTodo
    BY <1>1, <1>4, <2>1
  <2>3. <<"remove">> \notin IndexingTodo
    BY <1>1, <1>4, <2>1
  <2> QED BY <2>2, <2>3
<1>7. <<"ensure", "remove">> \notin RenewingTodo /\ \A t \in RenewingTodo : t \notin IndexingTodo
  <2>1. <<"ensure", "remove">> \notin RenewingTodo
    BY <1>2, <1>4
  <2>2. ASSUME NEW t \in RenewingTodo, t \in IndexingTodo PROVE FALSE
    <3>1. Len(t) \in {4, 5} /\ Len(t) \in {1, 2, 3}
      BY <1>1, <1>2, <2>2
    <3> QED BY <3>1
  <2> QED BY <2>1, <2>2
<1>8. <<>> \notin IndexingTodo \cup RemovingTodo \cup RenewingTodo \cup SearchTodo
  BY <1>1, <1>2, <1>3, <1>4
<1>9. <<"remove">> # <<"ensure", "remove">> /\ <<>> # <<"ensure", "remove">>
  BY <1>4
<1> QED BY <1>6, <1>7, <1>8, <1>9

\* What a request of a call leaves of its document.
LEMMA RequestPoints ==
    ASSUME KnowInv, NEW d \in Documents, NEW c \in Writers(d)
    PROVE  /\ points' = points => PointsOf(d)' = PointsOf(d)
           /\ points' = points \ PointsOf(d) => PointsOf(d)' = {}
           /\ points' = points \cup kCall[c].new => PointsOf(d)' = PointsOf(d) \cup kCall[c].new
<1>1. kCall[c].new \in {{}, Knowledge!ChunkRows(d, c)}
  BY AtDocument DEF Holding
<1>2. Knowledge!Of(kCall[c].new, d) = kCall[c].new
  BY <1>1, OwnRows DEF Knowledge!Of
<1> QED BY <1>2 DEF PointsOf, Knowledge!Of

\* A request of a call that writes d succeeds.
LEMMA AdvanceStep ==
    ASSUME KnowInv, NEW d \in Documents, NEW c \in Writers(d), kCall[c].pc \in {"request", "create"},
           Turned(c, Knowledge!Advanced(c)), Requests(c, d), kHistory'.settled = kHistory.settled,
           Head(kCall[c].todo) = "remove" => points' = points \ PointsOf(d),
           Head(kCall[c].todo) = "upsert" => points' = points \cup kCall[c].new,
           Head(kCall[c].todo) \notin {"remove", "upsert"} => points' = points
    PROVE  KnowInv'
<1> DEFINE x == kCall[c]
           r == Knowledge!Advanced(c)
           t == kCall[c].todo
<1>1. /\ c \in Knowledge!Live /\ c \in Knowledge!Calls /\ x \in KnowEntry /\ kDo[c].document = d
      /\ kDo[c].kind \in {"upload", "reindex", "delete"} /\ Knowledge!Writes(c)
      /\ Placed(c) /\ Holding(c, d)
      /\ x.alone => (\A e \in Writers(d) : e = c) /\ Done(c, d)
      /\ kDo[c].kind = "upload" => Uploading(c, d)
  BY AtDocument
<1>2. /\ kDo[c].kind = "upload" => t \in IndexingTodo
      /\ kDo[c].kind = "reindex" => IF x.phase = "try" THEN t \in RenewingTodo \cup IndexingTodo ELSE t \in RemovingTodo
      /\ kDo[c].kind = "delete" => t \in RemovingTodo
  BY <1>1 DEF Placed, Knowledge!Working
<1>3. t \in Todos \ {<<>>}
  BY <1>1, <1>2, TodosApart DEF KnowEntry
<1>4. /\ r \in KnowEntry /\ r.phase = x.phase /\ r.loaded = x.loaded /\ r.new = x.new /\ r.seen = x.seen
      /\ r.found = x.found /\ r.gone = x.gone /\ r.alone = x.alone
      /\ Len(t) > 1 => r.pc = "request" /\ r.todo = Tail(t)
      /\ ~(Len(t) > 1) => /\ r.todo = <<>>
                          /\ r.pc = IF kDo[c].kind = "upload" THEN "commit" ELSE "statement"
  BY <1>1, <1>3, AdvancedEntry
<1>5. kCall'[c] = r /\ kDo' = kDo
  BY <1>1 DEF Turned, KnowInv, KnowTypes
<1> HIDE DEF r, x, t
<1>6. r.pc \in {"request", "statement", "commit"}
  BY <1>4
<1>7. Placed(c)'
  <2>1. CASE Len(t) > 1
    <3>1. /\ kDo[c].kind = "upload" => Tail(t) \in IndexingTodo
          /\ kDo[c].kind = "reindex" => IF x.phase = "try" THEN Tail(t) \in RenewingTodo \cup IndexingTodo
                                        ELSE Tail(t) \in RemovingTodo
          /\ kDo[c].kind = "delete" => Tail(t) \in RemovingTodo
      BY <1>2, <1>3, <2>1, TodoFacts DEF RemovingTodo
    <3> QED BY <1>1, <1>4, <1>5, <2>1, <3>1 DEF Placed, Knowledge!Live
  <2>2. CASE ~(Len(t) > 1)
    BY <1>1, <1>4, <1>5, <2>2 DEF Placed, Knowledge!Live
  <2> QED BY <2>1, <2>2
<1>8. RowsOf(d)' = RowsOf(d) /\ status' = status /\ kFiles' = kFiles /\ CausesStay
  BY GrowingCauses DEF KnowInv, Requests, RowsOf, Knowledge!Of
<1>9. Cause(d) => Cause(d)'
  BY <1>8 DEF CausesStay
<1>10. Knowledge!ChunkRows(d, c)' = Knowledge!ChunkRows(d, c)
  BY DEF Knowledge!ChunkRows
<1>11. x.pc \in {"request", "create"} /\ x = kCall[c] /\ t = x.todo
  BY DEF x, t
<1>12. Holding(c, d)'
  BY <1>1, <1>4, <1>5, <1>6, <1>9, <1>10, <1>11 DEF Holding, Knowledge!Of
<1>13. /\ Head(t) = "remove" => PointsOf(d)' = {}
       /\ Head(t) = "upsert" => PointsOf(d)' = PointsOf(d) \cup x.new
       /\ Head(t) \notin {"remove", "upsert"} => PointsOf(d)' = PointsOf(d)
  BY RequestPoints DEF x, t
<1>14. ASSUME x.alone PROVE Done(c, d)'
  <2>1. Done(c, d)
    BY <1>1, <1>14 DEF x
  <2>2. kDo[c].kind = "reindex" => /\ status'[d] # "none" /\ r.loaded = status'[d]
                                   /\ (r.phase # "try" => r.phase = "undo" /\ Cause(d)')
    BY <1>4, <1>8, <1>9, <1>11, <2>1 DEF Done
  <2>3. ASSUME kDo[c].kind = "reindex", r.phase = "try", r.pc \in {"request", "create"}, r.todo \in IndexingTodo
        PROVE  PointsOf(d)' = {}
    <3>1. Len(t) > 1 /\ r.todo = Tail(t)
      BY <1>4, <2>3
    <3>2. CASE t \in IndexingTodo
      <4>1. Head(t) \notin {"remove", "upsert"}
        BY <1>3, <3>1, <3>2, TodoFacts
      <4>2. PointsOf(d) = {}
        BY <1>4, <1>11, <2>1, <2>3, <3>2 DEF Done
      <4> QED BY <1>13, <4>1, <4>2
    <3>3. CASE t \in RenewingTodo
      <4>1. Head(t) = "remove"
        BY <1>3, <2>3, <3>1, <3>3, TodoFacts, TodosApart
      <4> QED BY <1>13, <4>1
    <3> QED BY <1>2, <1>4, <2>3, <3>2, <3>3
  <2>4. ASSUME kDo[c].kind = "reindex", r.phase = "try", r.pc \in {"statement", "commit"}
        PROVE  PointsOf(d)' = r.new
    <3>1. ~(Len(t) > 1)
      BY <1>4, <2>4
    <3>2. t \in IndexingTodo
      BY <1>2, <1>3, <1>4, <2>4, <3>1, TodoFacts
    <3>3. Head(t) = "upsert"
      BY <1>3, <3>1, <3>2, TodoFacts
    <3>4. PointsOf(d) = {}
      BY <1>4, <1>11, <2>1, <2>4, <3>2 DEF Done
    <3> QED BY <1>4, <1>13, <3>3, <3>4
  <2>5. ASSUME kDo[c].kind = "delete"
        PROVE  status'[d] # "none" /\ (r.pc \in {"statement", "commit", "unlink"} => PointsOf(d)' = {})
    <3>1. status[d] # "none"
      BY <1>11, <2>1, <2>5 DEF Done
    <3>2. r.pc \in {"statement", "commit", "unlink"} => ~(Len(t) > 1)
      BY <1>4
    <3>3. ~(Len(t) > 1) => Head(t) = "remove"
      BY <1>2, <1>3, <2>5, TodoFacts
    <3> QED BY <1>8, <1>13, <3>1, <3>2, <3>3
  <2>6. r.pc = "commit" => kDo[c].kind = "upload"
    BY <1>4
  <2> QED BY <1>5, <1>6, <2>2, <2>3, <2>4, <2>5, <2>6 DEF Done
<1>15. ASSUME kDo[c].kind = "upload" PROVE Sent(c, d)'
  <2>1. Uploading(c, d) /\ Sent(c, d) /\ t \in IndexingTodo
    BY <1>1, <1>2, <1>15 DEF Uploading
  <2>2. PointsOf(d) = {} /\ d \in kFiles
    BY <1>11, <2>1 DEF Sent
  <2>3. Len(t) > 1 => Head(t) \notin {"remove", "upsert"}
    BY <1>3, <2>1, TodoFacts
  <2>4. ~(Len(t) > 1) => Head(t) = "upsert"
    BY <1>3, <2>1, TodoFacts
  <2> QED BY <1>4, <1>5, <1>8, <1>13, <1>15, <2>2, <2>3, <2>4 DEF Sent
<1>16. ~Looking(c)'
  <2>1. kDo[c].kind = "delete" => r.todo # <<"ensure", "remove">>
    <3>1. kDo[c].kind = "delete" /\ Len(t) > 1 => r.todo = <<"remove">>
      BY <1>2, <1>3, <1>4, TodoFacts
    <3> QED BY <1>4, <3>1, TodosApart
  <2> QED BY <1>5, <2>1 DEF Looking
<1> QED BY <1>4, <1>6, <1>7, <1>12, <1>14, <1>15, <1>16, RequestStep DEF r, x

\* A request of upload or reindex fails inside the try.
LEMMA CatchStep ==
    ASSUME KnowInv, NEW d \in Documents, NEW c \in Writers(d), kCall[c].pc \in {"request", "create"},
           Knowledge!InTry(c), Turned(c, Knowledge!Caught(c)), Requests(c, d), Cause(d)'
    PROVE  KnowInv'
<1> DEFINE x == kCall[c]
           r == Knowledge!Caught(c)
<1>1. /\ c \in Knowledge!Live /\ c \in Knowledge!Calls /\ x \in KnowEntry /\ kDo[c].document = d
      /\ kDo[c].kind \in {"upload", "reindex", "delete"}
      /\ Placed(c) /\ Holding(c, d)
      /\ x.alone => (\A e \in Writers(d) : e = c) /\ Done(c, d)
      /\ kDo[c].kind = "upload" => Uploading(c, d)
  BY AtDocument
<1>2. /\ r \in KnowEntry /\ r.loaded = x.loaded /\ r.seen = x.seen /\ r.found = x.found
      /\ r.gone = x.gone /\ r.alone = x.alone /\ r.new = {}
      /\ kDo[c].kind = "upload" => r.pc = "commit" /\ r.phase = x.phase /\ r.todo = <<>>
      /\ kDo[c].kind # "upload" => r.pc = "request" /\ r.phase = "undo" /\ r.todo = <<"ensure", "remove">>
  BY <1>1, CaughtEntry
<1>3. kCall'[c] = r /\ kDo' = kDo
  BY <1>1 DEF Turned, KnowInv, KnowTypes
<1>4. kDo[c].kind \in {"upload", "reindex"}
  BY DEF Knowledge!InTry
<1>5. x.pc \in {"request", "create"} /\ x = kCall[c]
  OBVIOUS
<1> HIDE DEF r, x
<1>6. Placed(c)'
  BY <1>1, <1>2, <1>3, <1>4 DEF Placed, Knowledge!Live, RemovingTodo
<1>7. RowsOf(d)' = RowsOf(d) /\ status' = status /\ kFiles' = kFiles
  BY DEF Requests, RowsOf, Knowledge!Of
<1>8. Holding(c, d)'
  BY <1>1, <1>2, <1>3, <1>4, <1>5 DEF Holding, Knowledge!Of
<1>9. ASSUME x.alone PROVE Done(c, d)'
  <2>1. Done(c, d)
    BY <1>1, <1>9
  <2> QED BY <1>2, <1>3, <1>4, <1>5, <1>7, <2>1 DEF Done
<1>10. ASSUME kDo[c].kind = "upload" PROVE Sent(c, d)'
  <2>1. d \in kFiles
    BY <1>1, <1>5, <1>10 DEF Uploading, Sent
  <2> QED BY <1>2, <1>3, <1>7, <1>10, <2>1 DEF Sent
<1>11. ~Looking(c)'
  BY <1>3, <1>4 DEF Looking
<1>12. r.pc \in {"request", "commit"}
  BY <1>2, <1>4
<1> QED BY <1>2, <1>6, <1>8, <1>9, <1>10, <1>11, <1>12, RequestStep DEF r, x

\* What a fault leaves in the history.
LEMMA FaultHistory ==
    ASSUME KnowTypes, NEW c \in Knowledge!Live, NEW r, Knowledge!Faulted(c, r)
    PROVE  /\ Grows /\ kHistory'.faults > 0
           /\ IF Knowledge!Writes(c) /\ r.pc = "ended"
              THEN ~kHistory'.settled[kDo[c].document]
                   /\ \A q \in Documents \ {kDo[c].document} : kHistory'.settled[q] = kHistory.settled[q]
              ELSE kHistory'.settled = kHistory.settled
<1> DEFINE s == IF Knowledge!Writes(c) /\ r.pc = "ended"
                THEN [kHistory.settled EXCEPT ![kDo[c].document] = FALSE] ELSE kHistory.settled
<1>1. kHistory \in KnowHistory /\ (Knowledge!Writes(c) => kDo[c].document \in Documents)
  BY KnowLive DEF KnowTypes
<1>2. s \in [Documents -> BOOLEAN]
  BY <1>1 DEF KnowHistory
<1> DEFINE n == kHistory.faults + 1
<1>3. kHistory' = [kHistory EXCEPT !.faults = n, !.settled = s]
  BY DEF Knowledge!Faulted
<1>4. n \in Nat /\ kHistory.faults \in Nat /\ kHistory.faults <= n /\ n > 0
  BY <1>1 DEF KnowHistory
<1>5. /\ Knowledge!Writes(c) /\ r.pc = "ended" =>
           ~s[kDo[c].document] /\ \A q \in Documents \ {kDo[c].document} : s[q] = kHistory.settled[q]
      /\ ~(Knowledge!Writes(c) /\ r.pc = "ended") => s = kHistory.settled
  BY <1>1 DEF KnowHistory
<1> HIDE DEF s, n
<1>6. /\ kHistory' \in KnowHistory /\ kHistory'.faults = n
      /\ kHistory'.settled = s /\ kHistory'.other = kHistory.other /\ kHistory'.raced = kHistory.raced
      /\ kHistory'.deleted = kHistory.deleted
  BY <1>1, <1>2, <1>3, <1>4 DEF KnowHistory
<1> QED BY <1>4, <1>5, <1>6 DEF Grows

\* A call that writes d ends in the middle of its work.
LEMMA EndStep ==
    ASSUME KnowInv, NEW d \in Documents, NEW c \in Writers(d), Turned(c, Knowledge!EndedCall(c)), Requests(c, d),
           ~kHistory'.settled[d] \/ (Looking(c) /\ points' = points)
    PROVE  KnowInv'
<1> DEFINE r == Knowledge!EndedCall(c)
<1>1. kCall[c] \in KnowEntry
  BY AtDocument
<1>2. r \in KnowEntry /\ r.pc = "ended" /\ r.gone = kCall[c].gone /\ r.found = kCall[c].found
  BY <1>1, EndedEntry
<1> HIDE DEF r
<1> QED BY <1>2, RequestStep DEF r

\* reindex goes on after an answer that refuses to remove the points.
LEMMA CleanedUpStep ==
    ASSUME KnowInv, NEW d \in Documents, NEW c \in Writers(d), kCall[c].pc \in {"request", "create"},
           kDo[c].kind = "reindex", kCall[c].phase # "try",
           Turned(c, [kCall[c] EXCEPT !.pc = "statement", !.todo = <<>>]), Requests(c, d)
    PROVE  KnowInv'
<1> DEFINE x == kCall[c]
           r == [kCall[c] EXCEPT !.pc = "statement", !.todo = <<>>]
<1>1. /\ c \in Knowledge!Live /\ c \in Knowledge!Calls /\ x \in KnowEntry /\ kDo[c].document = d
      /\ Placed(c) /\ Holding(c, d)
      /\ x.alone => Done(c, d)
  BY AtDocument
<1>2. /\ r \in KnowEntry /\ r.pc = "statement" /\ r.phase = x.phase /\ r.loaded = x.loaded /\ r.seen = x.seen
      /\ r.new = x.new /\ r.found = x.found /\ r.gone = x.gone /\ r.alone = x.alone
  <2>1. "statement" \in KnowPoints /\ <<>> \in Todos
    BY DEF KnowPoints, Todos
  <2> QED BY <1>1, <2>1 DEF KnowEntry
<1>3. kCall'[c] = r /\ kDo' = kDo
  BY <1>1 DEF Turned, KnowInv, KnowTypes
<1>4. x.pc \in {"request", "create"} /\ x = kCall[c] /\ x.phase # "try"
  OBVIOUS
<1> HIDE DEF r, x
<1>5. Placed(c)'
  BY <1>1, <1>2, <1>3 DEF Placed, Knowledge!Live
<1>6. RowsOf(d)' = RowsOf(d) /\ status' = status /\ CausesStay
  BY GrowingCauses DEF KnowInv, Requests, RowsOf, Knowledge!Of
<1>7. Holding(c, d)'
  BY <1>1, <1>2, <1>3, <1>4 DEF Holding, Knowledge!Of
<1>8. ASSUME x.alone PROVE Done(c, d)'
  <2>1. Done(c, d)
    BY <1>1, <1>8
  <2> QED BY <1>2, <1>3, <1>4, <1>6, <2>1 DEF Done, CausesStay
<1>9. ~Looking(c)'
  BY <1>3 DEF Looking
<1> QED BY <1>2, <1>5, <1>7, <1>8, <1>9, RequestStep DEF r, x

\* A request of a call that writes d fails, by its answer or by the connection.
LEMMA FailStep ==
    ASSUME KnowInv, NEW d \in Documents, NEW c \in Writers(d), kCall[c].pc \in {"request", "create"},
           NEW r \in {Knowledge!Raised(c), Knowledge!Broken(c)}, Turned(c, r), Requests(c, d), Cause(d)',
           r.pc = "ended" => ~kHistory'.settled[d] \/ (Looking(c) /\ points' = points)
    PROVE  KnowInv'
<1>1. CASE Knowledge!InTry(c)
  <2>1. r = Knowledge!Caught(c)
    BY <1>1 DEF Knowledge!Raised, Knowledge!Broken
  <2> QED BY <1>1, <2>1, CatchStep
<1>2. CASE ~Knowledge!InTry(c) /\ r = Knowledge!EndedCall(c)
  <2>1. r.pc = "ended"
    BY <1>2, EndedEntry, AtDocument
  <2> QED BY <1>2, <2>1, EndStep
<1>3. CASE ~Knowledge!InTry(c) /\ r # Knowledge!EndedCall(c)
  <2>1. kDo[c].kind = "reindex" /\ r = [kCall[c] EXCEPT !.pc = "statement", !.todo = <<>>]
    BY <1>3 DEF Knowledge!Raised, Knowledge!Broken
  <2>2. kCall[c].phase # "try"
    BY <1>3, <2>1 DEF Knowledge!InTry
  <2> QED BY <2>1, <2>2, CleanedUpStep
<1> QED BY <1>1, <1>2, <1>3

\* A step of a search that finds nothing new.
LEMMA SearchStep ==
    ASSUME KnowInv, NEW c \in Knowledge!Live, ~Knowledge!Writes(c), Knowledge!Working(c),
           NEW r \in {Knowledge!Advanced(c), Knowledge!EndedCall(c)}, Turned(c, r),
           r # Knowledge!EndedCall(c) => kCall[c].pc \in {"request", "create"},
           UNCHANGED <<points, chunks, status, kFiles>>, collection' \in {collection, "fits"}, Grows,
           kHistory'.settled = kHistory.settled
    PROVE  KnowInv'
<1>1. c \in Knowledge!Calls /\ kDo[c].kind = "search"
  BY KnowLive DEF KnowInv
<1>2. kCall[c] \in KnowEntry /\ Placed(c) /\ Searching(c)
  BY <1>1 DEF KnowInv, KnowTypes
<1>3. kCall'[c] = r /\ kDo' = kDo
  BY <1>1 DEF Turned, KnowInv, KnowTypes
<1>4. CASE r = Knowledge!EndedCall(c)
  <2>1. r \in KnowEntry /\ r.pc = "ended" /\ r.gone = kCall[c].gone /\ r.found = kCall[c].found
    BY <1>2, <1>4, EndedEntry
  <2>2. Placed(c)'
    BY <1>3, <2>1 DEF Placed, Knowledge!Live, Knowledge!Working
  <2>3. Searching(c)'
    BY <1>2, <1>3, <2>1 DEF Searching, Grows, Knowledge!Of
  <2> QED BY <2>1, <2>2, <2>3, AsideStep
<1>5. CASE r # Knowledge!EndedCall(c)
  <2> DEFINE t == kCall[c].todo
  <2>1. t \in SearchTodo /\ t \in Todos \ {<<>>} /\ r = Knowledge!Advanced(c)
    BY <1>1, <1>2, <1>5, TodosApart DEF Placed, KnowEntry
  <2>2. /\ r \in KnowEntry /\ r.found = kCall[c].found /\ r.gone = kCall[c].gone
        /\ Len(t) > 1 => r.pc = "request" /\ r.todo = Tail(t)
        /\ ~(Len(t) > 1) => r.pc = "lookup"
    BY <1>1, <1>2, <2>1, AdvancedEntry
  <2>3. Len(t) > 1 => Tail(t) \in SearchTodo
    BY <2>1, TodoFacts
  <2> HIDE DEF t
  <2>4. Placed(c)'
    BY <1>1, <1>3, <2>2, <2>3 DEF Placed, Knowledge!Live, Knowledge!Working
  <2>5. Searching(c)'
    BY <1>2, <1>3, <2>2 DEF Searching, Grows, Knowledge!Of
  <2> QED BY <2>2, <2>4, <2>5, AsideStep
<1> QED BY <1>4, <1>5

\* A call in progress is a search or is at work on its document.
LEMMA InProgress ==
    ASSUME KnowInv, NEW c \in Knowledge!Calls, Knowledge!Working(c)
    PROVE  /\ c \in Knowledge!Live /\ kCall[c] \in KnowEntry
           /\ Knowledge!Writes(c) => kDo[c].document \in Documents /\ c \in Writers(kDo[c].document)
<1>1. c \in Knowledge!Live /\ kCall[c] \in KnowEntry
  BY DEF KnowInv, Placed, Knowledge!Working, KnowTypes
<1> QED BY <1>1, KnowLive DEF KnowInv, Writers

\* A step that leaves the stores and the history alone.
LEMMA NothingStored ==
    ASSUME KnowInv, NEW d \in Documents, NEW c \in Writers(d),
           UNCHANGED <<collection, points, chunks, status, kFiles, kHistory>>
    PROVE  Requests(c, d)
BY DEF KnowInv, KnowTypes, KnowHistory, Requests, Grows

\* Only a deletion ends with an answer that refuses.
LEMMA OnlyDeletionsEnd ==
    ASSUME KnowInv, NEW d \in Documents, NEW c \in Writers(d), kCall[c].pc \in {"request", "create"},
           Head(kCall[c].todo) = "ensure", Knowledge!Raised(c).pc = "ended"
    PROVE  Looking(c)
<1>1. kCall[c] \in KnowEntry /\ kDo[c].kind \in {"upload", "reindex", "delete"} /\ Placed(c)
  BY AtDocument
<1>2. CASE Knowledge!InTry(c)
  <2>1. Knowledge!Caught(c).pc \in {"request", "commit"}
    BY <1>1, CaughtEntry
  <2> QED BY <1>2, <2>1 DEF Knowledge!Raised
<1>3. CASE ~Knowledge!InTry(c) /\ kDo[c].kind = "reindex"
  <2>1. Knowledge!Raised(c).pc = "statement"
    BY <1>1, <1>3 DEF Knowledge!Raised, KnowEntry
  <2> QED BY <2>1
<1>4. CASE kDo[c].kind = "delete"
  <2>1. kCall[c].todo \in RemovingTodo
    BY <1>1, <1>4 DEF Placed, Knowledge!Working
  <2>2. Head(<<"remove">>) = "remove"
    OBVIOUS
  <2> QED BY <1>4, <2>1, <2>2 DEF Looking, RemovingTodo
<1> QED BY <1>1, <1>2, <1>3, <1>4 DEF Knowledge!InTry

\* A call finds that the collection is missing.
LEMMA MissingStep ==
    ASSUME KnowInv, NEW d \in Documents, NEW c \in Writers(d), kCall[c].pc = "request",
           Head(kCall[c].todo) = "ensure", Turned(c, [kCall[c] EXCEPT !.pc = "create"]), Requests(c, d), points' = points,
           kHistory'.settled = kHistory.settled
    PROVE  KnowInv'
<1> DEFINE x == kCall[c]
           r == [kCall[c] EXCEPT !.pc = "create"]
<1>1. /\ c \in Knowledge!Live /\ c \in Knowledge!Calls /\ x \in KnowEntry /\ kDo[c].document = d
      /\ Placed(c) /\ Holding(c, d)
      /\ x.alone => Done(c, d)
      /\ kDo[c].kind = "upload" => Uploading(c, d)
  BY AtDocument
<1>2. /\ r \in KnowEntry /\ r.pc = "create" /\ r.phase = x.phase /\ r.loaded = x.loaded /\ r.seen = x.seen
      /\ r.new = x.new /\ r.found = x.found /\ r.gone = x.gone /\ r.alone = x.alone /\ r.todo = x.todo
  <2>1. "create" \in KnowPoints
    BY DEF KnowPoints
  <2> QED BY <1>1, <2>1 DEF KnowEntry
<1>3. kCall'[c] = r /\ kDo' = kDo
  BY <1>1 DEF Turned, KnowInv, KnowTypes
<1>4. x.pc = "request" /\ x = kCall[c] /\ Head(x.todo) = "ensure"
  OBVIOUS
<1> HIDE DEF r, x
<1>5. Placed(c)'
  BY <1>1, <1>2, <1>3, <1>4 DEF Placed, Knowledge!Live, Knowledge!Working
<1>6. RowsOf(d)' = RowsOf(d) /\ PointsOf(d)' = PointsOf(d) /\ status' = status /\ kFiles' = kFiles /\ CausesStay
  BY GrowingCauses DEF KnowInv, Requests, RowsOf, PointsOf, Knowledge!Of
<1>7. Holding(c, d)'
  BY <1>1, <1>2, <1>3, <1>4, <1>6 DEF Holding, CausesStay, Knowledge!Of, Knowledge!ChunkRows
<1>8. ASSUME x.alone PROVE Done(c, d)'
  <2>1. Done(c, d)
    BY <1>1, <1>8
  <2> QED BY <1>2, <1>3, <1>4, <1>6, <2>1 DEF Done, CausesStay
<1>9. kDo[c].kind = "upload" => Sent(c, d)'
  BY <1>1, <1>2, <1>3, <1>4, <1>6 DEF Uploading, Sent
<1>10. Looking(c)' => Looking(c)
  BY <1>2, <1>3, <1>4 DEF Looking
<1> QED BY <1>2, <1>5, <1>7, <1>8, <1>9, <1>10, RequestStep DEF r, x

\* ensure_collection looks.
LEMMA KnowEnsures ==
    ASSUME KnowInv, NEW c \in Knowledge!Calls, Knowledge!EnsureCollection(c)
    PROVE  KnowInv'
<1>0. PICK d : d = kDo[c].document
  OBVIOUS
<1>1. kCall[c].pc = "request" /\ Head(kCall[c].todo) = "ensure" /\ Knowledge!Working(c)
  BY DEF Knowledge!EnsureCollection, Knowledge!Requesting, Knowledge!Working
<1>2. c \in Knowledge!Live /\ kCall[c] \in KnowEntry /\ (Knowledge!Writes(c) => d \in Documents /\ c \in Writers(d))
  BY <1>0, <1>1, InProgress
<1>3. UNCHANGED <<kDo, collection, points, chunks, status, kFiles, kHistory>>
  BY DEF Knowledge!EnsureCollection
<1>4. Grows
  BY <1>3 DEF Grows, KnowInv, KnowTypes, KnowHistory
<1>5. collection \in {"missing", "fits", "other"}
  BY DEF KnowInv, KnowTypes
<1>6. /\ collection = "fits" => Turned(c, Knowledge!Advanced(c))
      /\ collection = "other" => Turned(c, Knowledge!Raised(c))
      /\ collection = "missing" => Turned(c, [kCall[c] EXCEPT !.pc = "create"])
  BY <1>3, <1>5 DEF Knowledge!EnsureCollection, Turned
<1>7. CASE Knowledge!Writes(c)
  <2>1. Requests(c, d)
    BY <1>2, <1>3, <1>7, NothingStored
  <2>2. CASE collection = "fits"
    BY <1>1, <1>2, <1>3, <1>6, <1>7, <2>1, <2>2, AdvanceStep
  <2>3. CASE collection = "missing"
    BY <1>1, <1>2, <1>3, <1>6, <1>7, <2>1, <2>3, MissingStep
  <2>4. CASE collection = "other"
    <3>1. Cause(d)'
      BY <1>3, <2>4 DEF KnowInv, Cause
    <3>2. Knowledge!Raised(c).pc = "ended" => Looking(c)
      BY <1>1, <1>2, <1>7, OnlyDeletionsEnd
    <3> DEFINE r == Knowledge!Raised(c)
    <3>3. r \in {Knowledge!Raised(c), Knowledge!Broken(c)} /\ Turned(c, r)
      BY <1>6, <2>4
    <3>4. r.pc = "ended" => ~kHistory'.settled[d] \/ (Looking(c) /\ points' = points)
      BY <1>3, <3>2
    <3>5. d \in Documents /\ c \in Writers(d) /\ kCall[c].pc \in {"request", "create"}
      BY <1>1, <1>2, <1>7
    <3> HIDE DEF r
    <3> QED BY <2>1, <3>1, <3>3, <3>4, <3>5, FailStep
  <2> QED BY <1>5, <2>2, <2>3, <2>4
<1>8. CASE ~Knowledge!Writes(c)
  <2>1. CASE collection = "fits"
    BY <1>1, <1>2, <1>3, <1>4, <1>6, <1>8, <2>1, SearchStep
  <2>2. CASE collection = "other"
    <3>1. kDo[c].kind = "search"
      BY <1>2, <1>8, KnowLive DEF KnowInv
    <3>2. Knowledge!Raised(c) = Knowledge!EndedCall(c)
      BY <3>1 DEF Knowledge!Raised, Knowledge!InTry
    <3> QED BY <1>1, <1>2, <1>3, <1>4, <1>6, <1>8, <2>2, <3>2, SearchStep
  <2>3. CASE collection = "missing"
    <3> DEFINE r == [kCall[c] EXCEPT !.pc = "create"]
    <3>1. "create" \in KnowPoints
      BY DEF KnowPoints
    <3>2. /\ r \in KnowEntry /\ r.pc = "create" /\ r.phase = kCall[c].phase /\ r.found = kCall[c].found
          /\ r.gone = kCall[c].gone /\ r.todo = kCall[c].todo
      BY <1>2, <3>1 DEF KnowEntry
    <3>3. kCall'[c] = r
      BY <1>6, <2>3 DEF Turned, KnowInv, KnowTypes
    <3>4. Turned(c, r) /\ kDo[c].kind = "search" /\ Placed(c) /\ Searching(c)
      BY <1>2, <1>6, <1>8, <2>3, KnowLive DEF KnowInv
    <3> HIDE DEF r
    <3>5. Placed(c)'
      BY <1>1, <1>2, <1>3, <3>2, <3>3, <3>4 DEF Placed, Knowledge!Live, Knowledge!Working
    <3>6. Searching(c)'
      BY <1>3, <3>2, <3>3, <3>4 DEF Searching, Knowledge!Of
    <3> QED BY <1>2, <1>3, <1>4, <1>8, <3>2, <3>4, <3>5, <3>6, AsideStep
  <2> QED BY <1>5, <2>1, <2>2, <2>3
<1> QED BY <1>7, <1>8

\* What a search has left to do neither removes nor inserts points, and no other call searches.
LEMMA OwnTodo ==
    ASSUME KnowInv, NEW c \in Knowledge!Live, kCall[c].pc \in {"request", "create"}
    PROVE  /\ ~Knowledge!Writes(c) => Head(kCall[c].todo) \notin {"remove", "upsert"}
           /\ Knowledge!Writes(c) => Head(kCall[c].todo) # "search"
           /\ kCall[c].pc = "create" => Head(kCall[c].todo) = "ensure"
<1>1. c \in Knowledge!Calls /\ kDo[c].kind \in {"upload", "reindex", "delete", "search"}
      /\ (Knowledge!Writes(c) <=> kDo[c].kind # "search")
  BY KnowLive DEF KnowInv
<1>2. Placed(c)
  BY <1>1 DEF KnowInv
<1>3. kCall[c].todo \in IF kDo[c].kind = "search" THEN SearchTodo ELSE IndexingTodo \cup RemovingTodo \cup RenewingTodo
  BY <1>1, <1>2 DEF Placed, Knowledge!Working
<1>4. \A t \in SearchTodo : Head(t) \in {"ensure", "embed", "search"}
  BY DEF SearchTodo
<1>5. \A t \in IndexingTodo \cup RemovingTodo \cup RenewingTodo : Head(t) \in {"ensure", "embed", "upsert", "remove"}
  BY DEF IndexingTodo, RemovingTodo, RenewingTodo
<1> QED BY <1>1, <1>2, <1>3, <1>4, <1>5 DEF Placed

\* ensure_collection creates the collection.
LEMMA KnowCreates ==
    ASSUME KnowInv, NEW c \in Knowledge!Calls, Knowledge!CreateCollection(c)
    PROVE  KnowInv'
<1>0. PICK d : d = kDo[c].document
  OBVIOUS
<1>1. kCall[c].pc = "create" /\ Knowledge!Working(c)
  BY DEF Knowledge!CreateCollection, Knowledge!Working
<1>2. c \in Knowledge!Live /\ kCall[c] \in KnowEntry /\ (Knowledge!Writes(c) => d \in Documents /\ c \in Writers(d))
  BY <1>0, <1>1, InProgress
<1>3. UNCHANGED <<kDo, points, chunks, status, kFiles>> /\ collection' = "fits"
  BY DEF Knowledge!CreateCollection
<1> DEFINE raced == kHistory.raced \/ collection = "fits"
<1>4. kHistory' = [kHistory EXCEPT !.raced = raced] /\ kHistory \in KnowHistory
  BY DEF Knowledge!CreateCollection, KnowInv, KnowTypes
<1>5. raced \in BOOLEAN
  BY <1>4 DEF KnowHistory
<1> HIDE DEF raced
<1>6. /\ kHistory' \in KnowHistory /\ kHistory'.raced = raced /\ kHistory'.settled = kHistory.settled
      /\ kHistory'.deleted = kHistory.deleted /\ kHistory'.other = kHistory.other
      /\ kHistory'.faults = kHistory.faults /\ kHistory.faults \in Nat
  BY <1>4, <1>5 DEF KnowHistory
<1>7. kHistory.raced \/ collection = "fits" => raced
  BY DEF raced
<1>8. Grows
  BY <1>6, <1>7 DEF Grows
<1>9. collection \in {"missing", "fits", "other"}
  BY DEF KnowInv, KnowTypes
<1>10. /\ collection = "missing" => Turned(c, Knowledge!Advanced(c))
       /\ collection # "missing" => Turned(c, Knowledge!Raised(c))
  BY <1>3 DEF Knowledge!CreateCollection, Turned
<1>11. Head(kCall[c].todo) = "ensure"
  BY <1>1, <1>2, OwnTodo
<1>12. CASE Knowledge!Writes(c)
  <2>1. d \in Documents /\ c \in Writers(d)
    BY <1>2, <1>12
  <2>2. Requests(c, d)
    BY <1>3, <1>6, <1>8 DEF Requests
  <2>3. CASE collection = "missing"
    BY <1>1, <1>3, <1>6, <1>10, <1>11, <2>1, <2>2, <2>3, AdvanceStep
  <2>4. CASE collection # "missing"
    <3> DEFINE r == Knowledge!Raised(c)
    <3>1. Cause(d)'
      BY <1>6, <1>7, <1>9, <2>4 DEF KnowInv, Cause
    <3>2. r \in {Knowledge!Raised(c), Knowledge!Broken(c)} /\ Turned(c, r)
      BY <1>10, <2>4
    <3>3. r.pc = "ended" => ~kHistory'.settled[d] \/ (Looking(c) /\ points' = points)
      BY <1>1, <1>3, <1>11, <2>1, OnlyDeletionsEnd
    <3> HIDE DEF r
    <3> QED BY <1>1, <2>1, <2>2, <3>1, <3>2, <3>3, FailStep
  <2> QED BY <2>3, <2>4
<1>13. CASE ~Knowledge!Writes(c)
  <2>1. CASE collection = "missing"
    BY <1>1, <1>2, <1>3, <1>6, <1>8, <1>10, <1>13, <2>1, SearchStep
  <2>2. CASE collection # "missing"
    <3>1. kDo[c].kind = "search"
      BY <1>2, <1>13, KnowLive DEF KnowInv
    <3>2. Knowledge!Raised(c) = Knowledge!EndedCall(c)
      BY <3>1 DEF Knowledge!Raised, Knowledge!InTry
    <3> QED BY <1>1, <1>2, <1>3, <1>6, <1>8, <1>10, <1>13, <2>2, <3>2, SearchStep
  <2> QED BY <2>1, <2>2
<1> QED BY <1>12, <1>13

\* embed_texts answers.
LEMMA KnowEmbeds ==
    ASSUME KnowInv, NEW c \in Knowledge!Calls, Knowledge!EmbedTexts(c)
    PROVE  KnowInv'
<1>0. PICK d : d = kDo[c].document
  OBVIOUS
<1>1. kCall[c].pc = "request" /\ Head(kCall[c].todo) = "embed" /\ Knowledge!Working(c)
  BY DEF Knowledge!EmbedTexts, Knowledge!Requesting, Knowledge!Working
<1>2. c \in Knowledge!Live /\ kCall[c] \in KnowEntry /\ (Knowledge!Writes(c) => d \in Documents /\ c \in Writers(d))
  BY <1>0, <1>1, InProgress
<1>3. UNCHANGED <<kDo, collection, points, chunks, status, kFiles, kHistory>> /\ Turned(c, Knowledge!Advanced(c))
  BY DEF Knowledge!EmbedTexts, Turned
<1>4. Grows
  BY <1>3 DEF Grows, KnowInv, KnowTypes, KnowHistory
<1>5. CASE Knowledge!Writes(c)
  <2>1. Requests(c, d)
    BY <1>2, <1>3, <1>5, NothingStored
  <2> QED BY <1>1, <1>2, <1>3, <1>5, <2>1, AdvanceStep
<1>6. CASE ~Knowledge!Writes(c)
  BY <1>1, <1>2, <1>3, <1>4, <1>6, SearchStep
<1> QED BY <1>5, <1>6

\* delete_document_vectors and upsert_chunks.
LEMMA KnowChangesPoints ==
    ASSUME KnowInv, NEW c \in Knowledge!Calls,
           Knowledge!DeleteDocumentVectors(c) \/ Knowledge!UpsertChunks(c)
    PROVE  KnowInv'
<1>0. PICK d : d = kDo[c].document
  OBVIOUS
<1>1. kCall[c].pc = "request" /\ Knowledge!Working(c)
  BY DEF Knowledge!DeleteDocumentVectors, Knowledge!UpsertChunks, Knowledge!Requesting, Knowledge!Working
<1>2. c \in Knowledge!Live /\ kCall[c] \in KnowEntry /\ (Knowledge!Writes(c) => d \in Documents /\ c \in Writers(d))
  BY <1>0, <1>1, InProgress
<1>3. UNCHANGED <<kDo, collection, chunks, status, kFiles, kHistory>> /\ Turned(c, Knowledge!Advanced(c))
  BY DEF Knowledge!DeleteDocumentVectors, Knowledge!UpsertChunks, Turned
<1>4. \/ Head(kCall[c].todo) = "remove" /\ points' = points \ PointsOf(d)
      \/ Head(kCall[c].todo) = "upsert" /\ points' = points \cup kCall[c].new
  BY <1>0 DEF Knowledge!DeleteDocumentVectors, Knowledge!UpsertChunks, Knowledge!Requesting, Knowledge!Removed,
              Knowledge!Upserted, PointsOf
<1>5. d \in Documents /\ c \in Writers(d)
  BY <1>1, <1>2, <1>4, OwnTodo
<1>6. Grows
  BY <1>3 DEF Grows, KnowInv, KnowTypes, KnowHistory
<1>7. Requests(c, d)
  BY <1>3, <1>4, <1>6 DEF Requests
<1> QED BY <1>1, <1>3, <1>4, <1>5, <1>7, AdvanceStep

\* A request is refused or breaks.
LEMMA KnowFails ==
    ASSUME KnowInv, NEW c \in Knowledge!Calls, Knowledge!Refuse(c) \/ Knowledge!Break(c)
    PROVE  KnowInv'
<1>0. PICK d : d = kDo[c].document
  OBVIOUS
<1>1. kCall[c].pc \in {"request", "create"} /\ Knowledge!Working(c)
  BY DEF Knowledge!Refuse, Knowledge!Break, Knowledge!Working
<1>2. c \in Knowledge!Live /\ kCall[c] \in KnowEntry /\ (Knowledge!Writes(c) => d \in Documents /\ c \in Writers(d))
  BY <1>0, <1>1, InProgress
<1>3. UNCHANGED <<kDo, chunks, status, kFiles>> /\ collection' \in {collection, "fits"}
  BY DEF Knowledge!Refuse, Knowledge!Break
<1>4. PICK r \in {Knowledge!Raised(c), Knowledge!Broken(c)} : Knowledge!Faulted(c, r)
  BY DEF Knowledge!Refuse, Knowledge!Break
<1>5. Turned(c, r)
  BY <1>3, <1>4 DEF Knowledge!Faulted, Turned
<1>6. KnowTypes
  BY DEF KnowInv
<1>7. /\ Grows /\ kHistory'.faults > 0
      /\ IF Knowledge!Writes(c) /\ r.pc = "ended"
         THEN ~kHistory'.settled[d] /\ \A q \in Documents \ {d} : kHistory'.settled[q] = kHistory.settled[q]
         ELSE kHistory'.settled = kHistory.settled
  BY <1>0, <1>2, <1>4, <1>6, FaultHistory
<1>8. \/ points' = points
      \/ Head(kCall[c].todo) = "remove" /\ points' = points \ PointsOf(d)
      \/ Head(kCall[c].todo) = "upsert" /\ points' = points \cup kCall[c].new
  BY <1>0 DEF Knowledge!Refuse, Knowledge!Break, Knowledge!Effect, Knowledge!NextRequest, Knowledge!Removed,
              Knowledge!Upserted, PointsOf
<1>9. CASE Knowledge!Writes(c)
  <2>1. d \in Documents /\ c \in Writers(d)
    BY <1>2, <1>9
  <2>2. Requests(c, d)
    BY <1>3, <1>7, <1>8 DEF Requests
  <2>3. Cause(d)'
    BY <1>7 DEF Cause
  <2>4. r.pc = "ended" => ~kHistory'.settled[d]
    BY <1>7, <1>9
  <2> QED BY <1>1, <1>5, <2>1, <2>2, <2>3, <2>4, FailStep
<1>10. CASE ~Knowledge!Writes(c)
  <2>1. kDo[c].kind = "search"
    BY <1>2, <1>10, KnowLive, <1>6
  <2>2. r = Knowledge!EndedCall(c)
    BY <2>1 DEF Knowledge!Raised, Knowledge!Broken, Knowledge!InTry
  <2>3. points' = points
    BY <1>1, <1>2, <1>8, <1>10, OwnTodo
  <2>4. kHistory'.settled = kHistory.settled
    BY <1>7, <1>10
  <2> QED BY <1>1, <1>2, <1>3, <1>5, <1>7, <1>10, <2>2, <2>3, <2>4, SearchStep
<1> QED BY <1>9, <1>10

\* A process dies.
LEMMA KnowDies ==
    ASSUME KnowInv, NEW c \in Knowledge!Calls, Knowledge!Die(c)
    PROVE  KnowInv'
<1>0. PICK d, r : d = kDo[c].document /\ r = Knowledge!EndedCall(c)
  OBVIOUS
<1>1. Knowledge!Working(c) /\ Knowledge!Faulted(c, r)
  BY <1>0 DEF Knowledge!Die
<1>2. c \in Knowledge!Live /\ kCall[c] \in KnowEntry /\ (Knowledge!Writes(c) => d \in Documents /\ c \in Writers(d))
  BY <1>0, <1>1, InProgress
<1>3. UNCHANGED <<kDo, collection, points, chunks, status, kFiles>>
  BY DEF Knowledge!Die
<1>4. Turned(c, r)
  BY <1>1, <1>3 DEF Knowledge!Faulted, Turned
<1>5. KnowTypes
  BY DEF KnowInv
<1>6. r.pc = "ended"
  BY <1>0, <1>2, EndedEntry
<1>7. /\ Grows
      /\ IF Knowledge!Writes(c)
         THEN ~kHistory'.settled[d] /\ \A q \in Documents \ {d} : kHistory'.settled[q] = kHistory.settled[q]
         ELSE kHistory'.settled = kHistory.settled
  BY <1>0, <1>1, <1>2, <1>5, <1>6, FaultHistory
<1>8. CASE Knowledge!Writes(c)
  <2>1. Requests(c, d)
    BY <1>3, <1>7, <1>8 DEF Requests
  <2> QED BY <1>0, <1>2, <1>4, <1>7, <1>8, <2>1, EndStep
<1>9. CASE ~Knowledge!Writes(c)
  BY <1>0, <1>1, <1>2, <1>3, <1>4, <1>7, <1>9, SearchStep
<1> QED BY <1>8, <1>9

\* A call that has not begun.
LEMMA NotBegun ==
    ASSUME KnowInv, NEW c \in Knowledge!Calls, kCall[c].pc = "idle"
    PROVE  /\ c \in Knowledge!Live /\ kCall[c] \in KnowEntry /\ ~Knowledge!Working(c)
           /\ Knowledge!Writes(c) => kDo[c].document \in Documents
           /\ kDo[c].kind = "upload" => Uploading(c, kDo[c].document)
<1>1. c \in Knowledge!Live /\ kCall[c] \in KnowEntry /\ ~Knowledge!Working(c)
  BY DEF KnowInv, Placed, Knowledge!Working, KnowTypes
<1>2. Knowledge!Writes(c) => kDo[c].document \in Documents
  BY <1>1, KnowLive DEF KnowInv
<1>3. kDo[c].kind = "upload" => Uploading(c, kDo[c].document)
  BY <1>1, <1>2 DEF KnowInv, Documented, Unborn, Knowledge!Writes
<1> QED BY <1>1, <1>2, <1>3

\* A text without windows has no words.
LEMMA WindowsOfWords ==
    ASSUME NEW d \in Documents, NEW c \in Knowledge!Calls \cup {0}
    PROVE  /\ Knowledge!ChunkRows(d, c) \in SUBSET KnowRows
           /\ Knowledge!ChunkRows(d, c) = {} => Tokens[d] = 0
<1>1. Tokens[d] \in Nat
  BY KnowledgeAssumption
<1>2. Knowledge!Starts(Tokens[d]) \subseteq Nat
  BY <1>1 DEF Knowledge!Starts
<1>3. Knowledge!ChunkRows(d, c) \in SUBSET KnowRows
  BY <1>2 DEF Knowledge!ChunkRows, KnowRows
<1>4. 0 % Knowledge!Stride = 0
  BY StrideFits, Multiples
<1>5. Tokens[d] # 0 => 0 \in Knowledge!Starts(Tokens[d])
  BY <1>1, <1>4 DEF Knowledge!Starts
<1>6. Tokens[d] # 0 => <<d, c, 0>> \in Knowledge!ChunkRows(d, c)
  BY <1>5 DEF Knowledge!ChunkRows
<1> QED BY <1>3, <1>6

\* save_upload refuses a file that is too large.
LEMMA KnowRefusesUpload ==
    ASSUME KnowInv, NEW c \in Knowledge!Calls, Knowledge!UploadTooLarge(c)
    PROVE  KnowInv'
<1>0. PICK r : r = Knowledge!EndedCall(c)
  OBVIOUS
<1>1. kCall[c].pc = "idle"
  BY DEF Knowledge!UploadTooLarge, Knowledge!MayCall
<1>2. c \in Knowledge!Live /\ kCall[c] \in KnowEntry
  BY <1>1, NotBegun
<1>3. UNCHANGED <<kDo, collection, points, chunks, status, kFiles, kHistory>> /\ Turned(c, r)
  BY <1>0 DEF Knowledge!UploadTooLarge, Turned
<1>4. Grows
  BY <1>3 DEF Grows, KnowInv, KnowTypes, KnowHistory
<1>5. r \in KnowEntry /\ r.pc = "ended" /\ r.gone = kCall[c].gone /\ r.found = kCall[c].found
  BY <1>0, <1>2, EndedEntry
<1>6. kCall'[c] = r /\ Placed(c) /\ Searching(c)
  BY <1>3 DEF Turned, KnowInv, KnowTypes
<1>7. Placed(c)'
  BY <1>2, <1>3, <1>5, <1>6 DEF Placed, Knowledge!Live, Knowledge!Working
<1>8. Searching(c)'
  BY <1>3, <1>5, <1>6 DEF Searching, Knowledge!Of
<1> QED BY <1>1, <1>2, <1>3, <1>4, <1>5, <1>7, <1>8, AsideStep

\* A search begins.
LEMMA KnowSearches ==
    ASSUME KnowInv, NEW c \in Knowledge!Calls, Knowledge!Search(c)
    PROVE  KnowInv'
<1> DEFINE t == <<"ensure", "embed", "search">>
<1>0. PICK r : r = [Knowledge!Idle EXCEPT !.pc = "request", !.todo = t, !.gone = kHistory.deleted]
  OBVIOUS
<1>1. kCall[c].pc = "idle" /\ kDo[c].kind = "search"
  BY DEF Knowledge!Search, Knowledge!MayCall
<1>2. c \in Knowledge!Live /\ ~Knowledge!Writes(c)
  BY <1>1, NotBegun DEF Knowledge!Writes
<1>3. UNCHANGED <<kDo, collection, points, chunks, status, kFiles, kHistory>> /\ Turned(c, r)
  BY <1>0 DEF Knowledge!Search, Turned
<1>4. Grows /\ kHistory.deleted \in SUBSET Documents
  BY <1>3 DEF Grows, KnowInv, KnowTypes, KnowHistory
<1>5. t \in SearchTodo /\ t \in Todos
  BY DEF SearchTodo, Todos
<1> HIDE DEF t
<1>6. r \in KnowEntry /\ r.pc = "request" /\ r.todo = t /\ r.gone = kHistory.deleted /\ r.found = {}
  BY <1>0, <1>4, <1>5 DEF KnowEntry, KnowPoints, Knowledge!Idle
<1>7. kCall'[c] = r
  BY <1>3 DEF Turned, KnowInv, KnowTypes
<1>8. Placed(c)'
  BY <1>1, <1>2, <1>3, <1>5, <1>6, <1>7 DEF Placed, Knowledge!Live, Knowledge!Working
<1>9. Searching(c)'
  BY <1>3, <1>6, <1>7 DEF Searching, Knowledge!Of
<1> QED BY <1>2, <1>3, <1>4, <1>6, <1>8, <1>9, AsideStep

\* A search finds points, and nothing of what was deleted before it began.
LEMMA KnowQueries ==
    ASSUME KnowInv, NEW c \in Knowledge!Calls, Knowledge!Query(c)
    PROVE  KnowInv'
<1>1. kCall[c].pc = "request" /\ Head(kCall[c].todo) = "search" /\ Knowledge!Working(c)
  BY DEF Knowledge!Query, Knowledge!Requesting, Knowledge!Working
<1>2. c \in Knowledge!Live /\ kCall[c] \in KnowEntry
  BY <1>1, InProgress
<1>3. ~Knowledge!Writes(c) /\ kDo[c].kind = "search"
  BY <1>1, <1>2, OwnTodo, KnowLive DEF KnowInv
<1>4. PICK matches \in Knowledge!Best(kDo[c].scopes) :
        kCall' = [kCall EXCEPT ![c] = [Knowledge!Advanced(c) EXCEPT !.found = matches]]
  BY DEF Knowledge!Query
<1>5. matches \subseteq points
  BY <1>4 DEF Knowledge!Best, Knowledge!kSubset
<1>6. UNCHANGED <<kDo, collection, points, chunks, status, kFiles, kHistory>>
  BY DEF Knowledge!Query
<1>7. Placed(c) /\ Searching(c) /\ matches \in SUBSET KnowRows
  BY <1>5 DEF KnowInv, KnowTypes
<1>8. kCall[c].todo = <<"search">>
  <2>1. kCall[c].todo \in SearchTodo
    BY <1>1, <1>3, <1>7 DEF Placed, Knowledge!Working
  <2>2. Head(<<"ensure", "embed", "search">>) = "ensure" /\ Head(<<"embed", "search">>) = "embed"
    OBVIOUS
  <2> QED BY <1>1, <2>1, <2>2 DEF SearchTodo
<1>9. PICK x : x = Knowledge!Advanced(c)
  OBVIOUS
<1>10. x \in KnowEntry /\ x.gone = kCall[c].gone /\ x.pc = "lookup"
  <2>1. kCall[c].todo # <<>> /\ ~(Len(kCall[c].todo) > 1)
    BY <1>8
  <2> QED BY <1>2, <1>3, <1>9, <2>1, AdvancedEntry
<1>11. PICK r : r = [x EXCEPT !.found = matches]
  OBVIOUS
<1>12. r \in KnowEntry /\ r.gone = kCall[c].gone /\ r.pc = "lookup" /\ r.found = matches
  BY <1>7, <1>10, <1>11 DEF KnowEntry
<1>13. Turned(c, r) /\ kCall'[c] = r
  BY <1>4, <1>6, <1>9, <1>11 DEF Turned, KnowInv, KnowTypes
<1>14. Grows
  BY <1>6 DEF Grows, KnowInv, KnowTypes, KnowHistory
<1>15. Placed(c)'
  BY <1>2, <1>3, <1>6, <1>12, <1>13 DEF Placed, Knowledge!Live, Knowledge!Working
<1>16. Searching(c)'
  <2>1. ASSUME NEW d \in kCall[c].gone PROVE Knowledge!Of(matches, d) = {}
    <3>1. d \in kHistory.deleted /\ d \in Documents
      BY <1>2, <1>7, <2>1 DEF Searching, KnowEntry
    <3>2. PointsOf(d) = {}
      BY <3>1 DEF KnowInv, Documented, Sound
    <3> QED BY <1>5, <3>2 DEF PointsOf, Knowledge!Of
  <2> QED BY <1>6, <1>7, <1>12, <1>13, <2>1 DEF Searching, Knowledge!Of
<1> QED BY <1>2, <1>3, <1>6, <1>12, <1>13, <1>14, <1>15, <1>16, AsideStep

\* A search leaves out what has no row.
LEMMA KnowLooksUp ==
    ASSUME KnowInv, NEW c \in Knowledge!Calls, Knowledge!Lookup(c)
    PROVE  KnowInv'
<1>1. kCall[c].pc = "lookup" /\ Knowledge!Working(c)
  BY DEF Knowledge!Lookup, Knowledge!Working
<1>2. c \in Knowledge!Live /\ kCall[c] \in KnowEntry /\ Placed(c) /\ Searching(c)
  BY <1>1, InProgress DEF KnowInv
<1>3. ~Knowledge!Writes(c)
  BY <1>1, <1>2, KnowLive DEF KnowInv, Placed, Knowledge!Working
<1>4. UNCHANGED <<kDo, collection, points, chunks, status, kFiles, kHistory>>
  BY DEF Knowledge!Lookup
<1>5. PICK x : x = Knowledge!EndedCall(c)
  OBVIOUS
<1>6. x \in KnowEntry /\ x.pc = "ended" /\ x.gone = kCall[c].gone /\ x.found = kCall[c].found
  BY <1>2, <1>5, EndedEntry
<1>7. PICK r : r = [x EXCEPT !.found = x.found \cap chunks]
  OBVIOUS
<1>8. r \in KnowEntry /\ r.pc = "ended" /\ r.gone = kCall[c].gone /\ r.found = kCall[c].found \cap chunks
  <2>1. x.found \cap chunks \in SUBSET KnowRows
    BY DEF KnowInv, KnowTypes
  <2> QED BY <1>6, <1>7, <2>1 DEF KnowEntry
<1>9. Turned(c, r) /\ kCall'[c] = r
  BY <1>4, <1>5, <1>7 DEF Knowledge!Lookup, Turned, KnowInv, KnowTypes
<1>10. Grows
  BY <1>4 DEF Grows, KnowInv, KnowTypes, KnowHistory
<1>11. Placed(c)'
  BY <1>2, <1>4, <1>8, <1>9 DEF Placed, Knowledge!Live, Knowledge!Working
<1>12. Searching(c)'
  BY <1>2, <1>4, <1>8, <1>9 DEF Searching, Knowledge!Of
<1> QED BY <1>2, <1>3, <1>4, <1>8, <1>9, <1>10, <1>11, <1>12, AsideStep

\* A call that begins knows whether it is alone.
LEMMA AloneEntry ==
    ASSUME NEW x \in KnowEntry, NEW a \in BOOLEAN, NEW y, y = [x EXCEPT !.alone = a]
    PROVE  /\ y \in KnowEntry /\ (y.alone <=> a) /\ y.pc = x.pc /\ y.phase = x.phase /\ y.todo = x.todo
           /\ y.loaded = x.loaded /\ y.new = x.new /\ y.seen = x.seen /\ y.gone = x.gone /\ y.found = x.found
BY DEF KnowEntry

\* upload_knowledge_document begins.
LEMMA KnowUploads ==
    ASSUME KnowInv, NEW c \in Knowledge!Calls, Knowledge!Upload(c)
    PROVE  KnowInv'
<1> DEFINE t == <<"ensure", "embed", "upsert">>
           a == Knowledge!Rivals(c) = {}
<1>0. PICK d, n : d = kDo[c].document /\ n = Knowledge!ChunkRows(d, c)
  OBVIOUS
<1>1. kCall[c].pc = "idle" /\ kDo[c].kind = "upload"
  BY DEF Knowledge!Upload, Knowledge!MayCall
<1>2. c \in Knowledge!Live /\ d \in Documents /\ Knowledge!Writes(c) /\ Uploading(c, d)
  BY <1>0, <1>1, NotBegun DEF Knowledge!Writes
<1>3. n \in SUBSET KnowRows /\ (n = {} => Tokens[d] = 0)
  BY <1>0, <1>2, WindowsOfWords
<1>4. PICK x : x = [Knowledge!Idle EXCEPT !.pc = IF n = {} THEN "statement" ELSE "request", !.new = n, !.todo = t]
  OBVIOUS
<1>5. PICK r : r = [x EXCEPT !.alone = a]
  OBVIOUS
<1>6. UNCHANGED <<kDo, collection, points, chunks, status, kHistory>> /\ kFiles' = kFiles \cup {d}
  BY <1>0 DEF Knowledge!Upload
<1>7. kCall' = [e \in Knowledge!Calls |-> IF e = c THEN r
                                           ELSE IF e \in Knowledge!Rivals(c) THEN [kCall[e] EXCEPT !.alone = FALSE]
                                           ELSE kCall[e]]
  BY <1>0, <1>4, <1>5 DEF Knowledge!Upload, Knowledge!Begin, Knowledge!Indexing
<1>8. t \in IndexingTodo /\ t \in Todos
  BY DEF IndexingTodo, Todos
<1> HIDE DEF t
<1>9. x \in KnowEntry /\ x.pc = (IF n = {} THEN "statement" ELSE "request") /\ x.phase = "try" /\ x.todo = t
      /\ x.new = n /\ x.seen = {} /\ x.found = {} /\ x.gone = {}
  BY <1>3, <1>4, <1>8 DEF KnowEntry, KnowPoints, Knowledge!Idle
<1>10. /\ r \in KnowEntry /\ (r.alone <=> a) /\ r.pc = x.pc /\ r.phase = x.phase /\ r.todo = x.todo
       /\ r.new = x.new /\ r.seen = x.seen /\ r.gone = x.gone /\ r.found = x.found
  <2>1. a \in BOOLEAN
    OBVIOUS
  <2> HIDE DEF a
  <2> QED BY <1>5, <1>9, <2>1, AloneEntry
<1>11. kCall'[c] = r
  BY <1>7
<1>12. Placed(c)'
  BY <1>1, <1>2, <1>6, <1>8, <1>9, <1>10, <1>11 DEF Placed, Knowledge!Live, Knowledge!Working
<1>13. Holding(c, d)'
  <2>1. n = {} => Cause(d)'
    BY <1>3 DEF Cause
  <2> QED BY <1>0, <1>1, <1>6, <1>9, <1>10, <1>11, <2>1 DEF Holding, Knowledge!Of, Knowledge!ChunkRows
<1>14. Done(c, d)'
  BY <1>1, <1>6, <1>9, <1>10, <1>11 DEF Done
<1>15. Sent(c, d)'
  BY <1>1, <1>2, <1>6, <1>9, <1>10, <1>11 DEF Uploading, Sent, PointsOf, Knowledge!Of
<1>16. r.pc \notin {"absent", "idle", "ended"}
  BY <1>9, <1>10
<1>17. kDo[c].document = d /\ kDo[c].kind # "delete" /\ kDo[c].kind = "upload" /\ (r.alone <=> Knowledge!Rivals(c) = {})
       /\ r.gone = {} /\ r.found = {} /\ kFiles \subseteq kFiles' /\ kFiles' \subseteq kFiles \cup {d}
  BY <1>0, <1>1, <1>6, <1>9, <1>10
<1> QED BY <1>1, <1>2, <1>6, <1>7, <1>10, <1>12, <1>13, <1>14, <1>15, <1>16, <1>17, BeginStep

\* reindex_knowledge_document loads the row of its document.
LEMMA KnowLoads ==
    ASSUME KnowInv, NEW c \in Knowledge!Calls, Knowledge!LoadDocument(c)
    PROVE  KnowInv'
<1> DEFINE a == Knowledge!Rivals(c) = {}
<1>0. PICK d, l : d = kDo[c].document /\ l = status[d]
  OBVIOUS
<1>1. kCall[c].pc = "idle" /\ kDo[c].kind = "reindex" /\ l # "none"
  BY <1>0 DEF Knowledge!LoadDocument, Knowledge!MayCall
<1>2. c \in Knowledge!Live /\ d \in Documents /\ Knowledge!Writes(c)
  BY <1>0, <1>1, NotBegun DEF Knowledge!Writes
<1>3. PICK x : x = [Knowledge!Idle EXCEPT !.pc = "artifact", !.loaded = l]
  OBVIOUS
<1>4. PICK r : r = [x EXCEPT !.alone = a]
  OBVIOUS
<1>5. UNCHANGED <<kDo, collection, points, chunks, status, kFiles, kHistory>>
  BY DEF Knowledge!LoadDocument
<1>6. kCall' = [e \in Knowledge!Calls |-> IF e = c THEN r
                                           ELSE IF e \in Knowledge!Rivals(c) THEN [kCall[e] EXCEPT !.alone = FALSE]
                                           ELSE kCall[e]]
  BY <1>0, <1>3, <1>4 DEF Knowledge!LoadDocument, Knowledge!Begin
<1>7. l \in {"none", "indexed", "failed"}
  BY <1>0, <1>2 DEF KnowInv, KnowTypes
<1>8. x \in KnowEntry /\ x.pc = "artifact" /\ x.phase = "try" /\ x.loaded = l
      /\ x.new = {} /\ x.seen = {} /\ x.found = {} /\ x.gone = {}
  BY <1>3, <1>7 DEF KnowEntry, KnowPoints, Todos, Knowledge!Idle
<1>9. /\ r \in KnowEntry /\ (r.alone <=> a) /\ r.pc = x.pc /\ r.phase = x.phase /\ r.loaded = x.loaded
      /\ r.new = x.new /\ r.seen = x.seen /\ r.gone = x.gone /\ r.found = x.found
  <2>1. a \in BOOLEAN
    OBVIOUS
  <2> HIDE DEF a
  <2> QED BY <1>4, <1>8, <2>1, AloneEntry
<1>10. kCall'[c] = r
  BY <1>6
<1>11. Placed(c)'
  BY <1>1, <1>2, <1>5, <1>8, <1>9, <1>10 DEF Placed, Knowledge!Live, Knowledge!Working
<1>12. Holding(c, d)'
  BY <1>1, <1>5, <1>8, <1>9, <1>10 DEF Holding, Knowledge!Of
<1>13. Done(c, d)'
  BY <1>0, <1>1, <1>5, <1>8, <1>9, <1>10 DEF Done
<1>14. kDo[c].document = d /\ kDo[c].kind # "delete" /\ kDo[c].kind # "upload" /\ (r.alone <=> Knowledge!Rivals(c) = {})
       /\ r.gone = {} /\ r.found = {} /\ kFiles \subseteq kFiles' /\ kFiles' \subseteq kFiles \cup {d}
       /\ (d \in kFiles' => d \in kFiles) /\ status[d] # "none"
  BY <1>0, <1>1, <1>5, <1>8, <1>9
<1>15. r.pc \notin {"absent", "idle", "ended"}
  BY <1>8, <1>9
<1> QED BY <1>1, <1>2, <1>5, <1>6, <1>9, <1>11, <1>12, <1>13, <1>14, <1>15, BeginStep

\* delete_knowledge_document begins.
LEMMA KnowDeletes ==
    ASSUME KnowInv, NEW c \in Knowledge!Calls, Knowledge!Delete(c)
    PROVE  KnowInv'
<1> DEFINE t == <<"ensure", "remove">>
           a == Knowledge!Rivals(c) = {}
<1>0. PICK d : d = kDo[c].document
  OBVIOUS
<1>1. kCall[c].pc = "idle" /\ kDo[c].kind = "delete" /\ status[d] # "none"
  BY <1>0 DEF Knowledge!Delete, Knowledge!MayCall
<1>2. c \in Knowledge!Live /\ d \in Documents /\ Knowledge!Writes(c)
  BY <1>0, <1>1, NotBegun DEF Knowledge!Writes
<1>3. PICK x : x = [Knowledge!Idle EXCEPT !.pc = "request", !.todo = t]
  OBVIOUS
<1>4. PICK r : r = [x EXCEPT !.alone = a]
  OBVIOUS
<1>5. UNCHANGED <<kDo, collection, points, chunks, status, kFiles, kHistory>>
  BY DEF Knowledge!Delete
<1>6. kCall' = [e \in Knowledge!Calls |-> IF e = c THEN r
                                           ELSE IF e \in Knowledge!Rivals(c) THEN [kCall[e] EXCEPT !.alone = FALSE]
                                           ELSE kCall[e]]
  BY <1>3, <1>4 DEF Knowledge!Delete, Knowledge!Begin, Knowledge!Removing
<1>7. t \in RemovingTodo /\ t \in Todos
  BY DEF RemovingTodo, Todos
<1> HIDE DEF t
<1>8. x \in KnowEntry /\ x.pc = "request" /\ x.phase = "try" /\ x.todo = t
      /\ x.new = {} /\ x.seen = {} /\ x.found = {} /\ x.gone = {}
  BY <1>3, <1>7 DEF KnowEntry, KnowPoints, Knowledge!Idle
<1>9. /\ r \in KnowEntry /\ (r.alone <=> a) /\ r.pc = x.pc /\ r.phase = x.phase /\ r.todo = x.todo
      /\ r.new = x.new /\ r.seen = x.seen /\ r.gone = x.gone /\ r.found = x.found
  <2>1. a \in BOOLEAN
    OBVIOUS
  <2> HIDE DEF a
  <2> QED BY <1>4, <1>8, <2>1, AloneEntry
<1>10. kCall'[c] = r
  BY <1>6
<1>11. Placed(c)'
  BY <1>1, <1>2, <1>5, <1>7, <1>8, <1>9, <1>10 DEF Placed, Knowledge!Live, Knowledge!Working
<1>12. Holding(c, d)'
  BY <1>1, <1>5, <1>8, <1>9, <1>10 DEF Holding, Knowledge!Of
<1>13. Done(c, d)'
  BY <1>1, <1>5, <1>8, <1>9, <1>10 DEF Done
<1>14. Looking(c)'
  BY <1>1, <1>5, <1>8, <1>9, <1>10 DEF Looking, t
<1>15. kDo[c].document = d /\ kDo[c].kind # "upload" /\ (r.alone <=> Knowledge!Rivals(c) = {})
       /\ r.gone = {} /\ r.found = {} /\ kFiles \subseteq kFiles' /\ kFiles' \subseteq kFiles \cup {d}
       /\ (d \in kFiles' => d \in kFiles) /\ status[d] # "none"
  BY <1>0, <1>1, <1>5, <1>8, <1>9
<1>16. r.pc \notin {"absent", "idle", "ended"}
  BY <1>8, <1>9
<1> QED BY <1>1, <1>2, <1>5, <1>6, <1>9, <1>11, <1>12, <1>13, <1>14, <1>15, <1>16, BeginStep

\* reindex_knowledge_document reads the file of its document.
LEMMA KnowReads ==
    ASSUME KnowInv, NEW c \in Knowledge!Calls, Knowledge!ReadArtifact(c)
    PROVE  KnowInv'
<1>0. PICK d, n, x : d = kDo[c].document /\ n = Knowledge!ChunkRows(d, c) /\ x = kCall[c]
  OBVIOUS
<1>1. x.pc = "artifact" /\ Knowledge!Working(c)
  BY <1>0 DEF Knowledge!ReadArtifact, Knowledge!Working
<1>2. c \in Knowledge!Live /\ x \in KnowEntry /\ Placed(c)
  BY <1>0, <1>1, InProgress DEF KnowInv
<1>3. kDo[c].kind = "reindex" /\ x.phase = "try"
  BY <1>0, <1>1, <1>2, KnowLive DEF KnowInv, Placed, Knowledge!Working
<1>4. d \in Documents /\ c \in Writers(d)
  BY <1>0, <1>1, <1>3, InProgress DEF Knowledge!Writes
<1>5. Holding(c, d) /\ Sound(d) /\ (x.alone => Done(c, d))
  BY <1>0, <1>4, AtDocument
<1>6. n \in SUBSET KnowRows /\ (n = {} => Tokens[d] = 0) /\ x.new = {}
  BY <1>0, <1>1, <1>3, <1>4, <1>5, WindowsOfWords DEF Holding
<1>7. UNCHANGED <<kDo, collection, points, chunks, status, kFiles, kHistory>>
  BY DEF Knowledge!ReadArtifact
<1>8. Requests(c, d)
  BY <1>4, <1>7, NothingStored
<1>9. PICK p, f, m, t : /\ p = "request" /\ f = (IF d \notin kFiles THEN "missing" ELSE IF n = {} THEN "undo" ELSE "try")
                        /\ m = IF d \notin kFiles THEN {} ELSE n
                        /\ t = IF d \notin kFiles \/ n = {} THEN <<"ensure", "remove">>
                               ELSE <<"ensure", "remove", "ensure", "embed", "upsert">>
  OBVIOUS
<1>10. PICK r : r = [x EXCEPT !.pc = p, !.phase = f, !.new = m, !.todo = t]
  OBVIOUS
<1>11. Turned(c, r)
  <2>2. CASE d \notin kFiles
    <3>1. kCall' = [kCall EXCEPT ![c] = [x EXCEPT !.pc = "request", !.phase = "missing", !.todo = <<"ensure", "remove">>]]
      BY <1>0, <2>2 DEF Knowledge!ReadArtifact, Knowledge!Removing
    <3>2. r = [x EXCEPT !.pc = "request", !.phase = "missing", !.todo = <<"ensure", "remove">>]
      BY <1>2, <1>6, <1>9, <1>10, <2>2 DEF KnowEntry
    <3> QED BY <1>7, <3>1, <3>2 DEF Turned
  <2>3. CASE d \in kFiles /\ n = {}
    <3>1. kCall' = [kCall EXCEPT ![c] = [x EXCEPT !.pc = "request", !.phase = "undo", !.todo = <<"ensure", "remove">>]]
      BY <1>0, <2>3 DEF Knowledge!ReadArtifact, Knowledge!Removing
    <3>2. r = [x EXCEPT !.pc = "request", !.phase = "undo", !.todo = <<"ensure", "remove">>]
      BY <1>2, <1>6, <1>9, <1>10, <2>3 DEF KnowEntry
    <3> QED BY <1>7, <3>1, <3>2 DEF Turned
  <2>4. CASE d \in kFiles /\ n # {}
    <3>1. kCall' = [kCall EXCEPT ![c] = [x EXCEPT !.pc = "request", !.new = n, !.todo = t]]
      BY <1>0, <1>9, <2>4 DEF Knowledge!ReadArtifact, Knowledge!Renewing
    <3>2. r = [x EXCEPT !.pc = "request", !.new = n, !.todo = t]
      BY <1>2, <1>3, <1>9, <1>10, <2>4 DEF KnowEntry
    <3> QED BY <1>7, <3>1, <3>2 DEF Turned
  <2> QED BY <2>2, <2>3, <2>4
<1>12. t \in RemovingTodo \cup RenewingTodo /\ t \in Todos
  BY <1>9 DEF RemovingTodo, RenewingTodo, Todos
<1>13. (f # "try" <=> d \notin kFiles \/ n = {}) /\ (f # "try" => t \in RemovingTodo) /\ (f = "try" => t \in RenewingTodo)
  BY <1>9 DEF RemovingTodo, RenewingTodo
<1>14. /\ r \in KnowEntry /\ r.pc = "request" /\ r.phase = f /\ r.new = m /\ r.todo = t /\ r.loaded = x.loaded
       /\ r.seen = x.seen /\ r.gone = x.gone /\ r.found = x.found /\ r.alone = x.alone
  <2>1. p \in KnowPoints /\ f \in {"try", "undo", "missing"} /\ m \in SUBSET KnowRows
    BY <1>6, <1>9 DEF KnowPoints
  <2>2. /\ r \in KnowEntry /\ r.pc = p /\ r.phase = f /\ r.new = m /\ r.todo = t /\ r.loaded = x.loaded
        /\ r.seen = x.seen /\ r.gone = x.gone /\ r.found = x.found /\ r.alone = x.alone
    BY <1>2, <1>10, <1>12, <2>1 DEF KnowEntry
  <2> QED BY <1>9, <2>2
<1>15. kCall'[c] = r
  BY <1>11 DEF Turned, KnowInv, KnowTypes
<1>16. Placed(c)'
  BY <1>2, <1>3, <1>7, <1>13, <1>14, <1>15 DEF Placed, Knowledge!Live, Knowledge!Working
<1>17. Holding(c, d)'
  BY <1>0, <1>3, <1>5, <1>7, <1>9, <1>13, <1>14, <1>15 DEF Holding, Knowledge!Of, Knowledge!ChunkRows
<1>18. ASSUME x.alone PROVE Done(c, d)'
  <2>1. status[d] # "none" /\ x.loaded = status[d] /\ d \in kFiles
    BY <1>0, <1>3, <1>5, <1>18 DEF Done, Sound
  <2>2. f # "try" => f = "undo" /\ Cause(d)'
    BY <1>6, <1>9, <2>1 DEF Cause
  <2>3. f = "try" => t \notin IndexingTodo
    BY <1>13, TodosApart
  <2> QED BY <1>3, <1>7, <1>14, <1>15, <2>1, <2>2, <2>3 DEF Done
<1>19. ~Looking(c)' /\ kDo[c].kind # "upload"
  BY <1>3, <1>7 DEF Looking
<1> QED BY <1>0, <1>4, <1>8, <1>11, <1>14, <1>16, <1>17, <1>18, <1>19, RequestStep

\* The statement that deletes the rows of the document.
LEMMA KnowStates ==
    ASSUME KnowInv, NEW c \in Knowledge!Calls, Knowledge!DeleteChunks(c)
    PROVE  KnowInv'
<1>0. PICK d, x, s : d = kDo[c].document /\ x = kCall[c] /\ s = Knowledge!Of(chunks, d)
  OBVIOUS
<1>1. x.pc = "statement" /\ Knowledge!Working(c)
  BY <1>0 DEF Knowledge!DeleteChunks, Knowledge!Working
<1>2. c \in Knowledge!Live /\ x \in KnowEntry /\ Placed(c)
  BY <1>0, <1>1, InProgress DEF KnowInv
<1>3. kDo[c].kind \in {"upload", "reindex", "delete"} /\ Knowledge!Writes(c)
  BY <1>0, <1>1, <1>2, KnowLive DEF KnowInv, Placed, Knowledge!Working
<1>4. d \in Documents /\ c \in Writers(d)
  BY <1>0, <1>1, <1>3, InProgress
<1>5. Holding(c, d) /\ (x.alone => Done(c, d)) /\ (kDo[c].kind = "upload" => Uploading(c, d))
  BY <1>0, <1>4, AtDocument
<1>6. s \in SUBSET KnowRows /\ Knowledge!Of(s, d) = s /\ s = RowsOf(d)
  BY <1>0 DEF KnowInv, KnowTypes, RowsOf, Knowledge!Of
<1>7. PICK r : r = [x EXCEPT !.pc = "commit", !.seen = s]
  OBVIOUS
<1>8. UNCHANGED <<kDo, collection, points, chunks, status, kFiles, kHistory>> /\ Turned(c, r)
  BY <1>0, <1>7 DEF Knowledge!DeleteChunks, Turned
<1>9. Requests(c, d)
  BY <1>4, <1>8, NothingStored
<1>10. /\ r \in KnowEntry /\ r.pc = "commit" /\ r.phase = x.phase /\ r.new = x.new /\ r.loaded = x.loaded
       /\ r.seen = s /\ r.gone = x.gone /\ r.found = x.found /\ r.alone = x.alone /\ r.todo = x.todo
  BY <1>2, <1>6, <1>7 DEF KnowEntry, KnowPoints
<1>11. kCall'[c] = r
  BY <1>8 DEF Turned, KnowInv, KnowTypes
<1>12. Placed(c)'
  BY <1>2, <1>3, <1>8, <1>10, <1>11 DEF Placed, Knowledge!Live, Knowledge!Working
<1>13. RowsOf(d)' = RowsOf(d) /\ PointsOf(d)' = PointsOf(d) /\ (Cause(d)' <=> Cause(d))
  BY <1>8 DEF RowsOf, PointsOf, Cause, Knowledge!Of
<1>14. Holding(c, d)'
  BY <1>0, <1>1, <1>5, <1>6, <1>10, <1>11, <1>8, <1>13 DEF Holding, Knowledge!Of, Knowledge!ChunkRows
<1>15. ASSUME x.alone PROVE Done(c, d)'
  BY <1>0, <1>1, <1>5, <1>6, <1>8, <1>10, <1>11, <1>13, <1>15 DEF Done
<1>16. kDo[c].kind = "upload" => Sent(c, d)'
  <2> SUFFICES ASSUME kDo[c].kind = "upload" PROVE Sent(c, d)'
    OBVIOUS
  <2>1. d \in kFiles
    BY <1>0, <1>1, <1>5 DEF Uploading, Sent
  <2>2. x.new = {} \/ PointsOf(d) = x.new
    BY <1>0, <1>1, <1>5 DEF Uploading, Sent
  <2> QED BY <1>8, <1>10, <1>11, <1>13, <2>1, <2>2 DEF Sent
<1>17. Looking(c)' => Looking(c)
  BY <1>0, <1>8, <1>10, <1>11 DEF Looking
<1> QED BY <1>0, <1>4, <1>8, <1>9, <1>10, <1>12, <1>14, <1>15, <1>16, <1>17, RequestStep

\* A commit deletes the rows s and inserts the rows n of d, and gives its row the status v.
Commits(c, d, s, n, v) ==
    /\ UNCHANGED <<collection, points, kFiles>>
    /\ s \in SUBSET KnowRows /\ n \in SUBSET KnowRows /\ Knowledge!Of(s, d) = s /\ Knowledge!Of(n, d) = n
    /\ chunks' = (chunks \ s) \cup n
    /\ v \in {"none", "indexed", "failed"} /\ status' = [status EXCEPT ![d] = v]
    /\ kHistory' = [kHistory EXCEPT !.settled = Knowledge!Settle(c)]

\* What a commit of a call at work on d changes: of d, and of no other document.
LEMMA CommitFrame ==
    ASSUME KnowInv, NEW d \in Documents, NEW c \in Writers(d), NEW r \in KnowEntry, Turned(c, r),
           NEW s, NEW n, NEW v, Commits(c, d, s, n, v)
    PROVE  /\ KnowTypes' /\ Elsewhere(d) /\ CausesStay /\ (collection' = "other" => kHistory'.other)
           /\ RowsOf(d)' = (RowsOf(d) \ s) \cup n /\ PointsOf(d)' = PointsOf(d) /\ status'[d] = v
           /\ kHistory'.deleted = kHistory.deleted /\ (kHistory'.settled[d] <=> kCall[c].alone)
           /\ (Cause(d)' <=> Cause(d))
<1>1. c \in Knowledge!Calls /\ kDo[c].document = d /\ kCall[c].alone \in BOOLEAN
  BY AtDocument DEF KnowEntry
<1> USE DEF Commits
<1> DEFINE z == [kHistory.settled EXCEPT ![d] = kCall[c].alone]
<1>2. kHistory' = [kHistory EXCEPT !.settled = z] /\ kHistory \in KnowHistory
  BY <1>1 DEF Knowledge!Settle, KnowInv, KnowTypes
<1>3. z \in [Documents -> BOOLEAN] /\ (z[d] <=> kCall[c].alone)
      /\ \A q \in Documents \ {d} : z[q] = kHistory.settled[q]
  BY <1>1, <1>2 DEF KnowHistory
<1> HIDE DEF z
<1>4. /\ kHistory' \in KnowHistory /\ kHistory'.settled = z /\ kHistory'.other = kHistory.other
      /\ kHistory'.raced = kHistory.raced /\ kHistory'.faults = kHistory.faults
      /\ kHistory'.deleted = kHistory.deleted
  BY <1>2, <1>3 DEF KnowHistory
<1>5. KnowTypes'
  <2>1. kCall' \in [Knowledge!Calls -> KnowEntry] /\ kDo' = kDo
    BY <1>1 DEF Turned, KnowInv, KnowTypes
  <2>2. Knowledge!Calls' = Knowledge!Calls /\ KnowRows' = KnowRows /\ KnowEntry' = KnowEntry /\ KnowHistory' = KnowHistory
    BY DEF Knowledge!Calls, KnowRows, KnowEntry, KnowHistory
  <2>3. status' \in [Documents -> {"none", "indexed", "failed"}] /\ chunks' \in SUBSET KnowRows
    BY DEF KnowInv, KnowTypes
  <2> QED BY <1>4, <2>1, <2>2, <2>3 DEF KnowInv, KnowTypes
<1>6. RowsOf(d)' = (RowsOf(d) \ s) \cup n /\ PointsOf(d)' = PointsOf(d)
  BY DEF RowsOf, PointsOf, Knowledge!Of
<1>7. ASSUME NEW q \in Documents \ {d} PROVE Apart(q)
  <2>1. RowsOf(q)' = RowsOf(q) /\ PointsOf(q)' = PointsOf(q)
    BY <1>7 DEF RowsOf, PointsOf, Knowledge!Of
  <2>2. status'[q] = status[q]
    BY <1>7 DEF KnowInv, KnowTypes
  <2> QED BY <1>3, <1>4, <1>7, <2>1, <2>2 DEF Apart
<1>8. CausesStay /\ (Cause(d)' <=> Cause(d))
  BY <1>4 DEF CausesStay, Cause
<1>9. collection' = "other" => kHistory'.other
  BY <1>4 DEF KnowInv
<1>10. status'[d] = v
  BY DEF KnowInv, KnowTypes
<1> QED BY <1>3, <1>4, <1>5, <1>6, <1>7, <1>8, <1>9, <1>10 DEF Elsewhere

\* The transaction of an upload.
LEMMA KnowCommitsUpload ==
    ASSUME KnowInv, NEW c \in Knowledge!Calls, Knowledge!CommitUpload(c)
    PROVE  KnowInv'
<1>0. PICK d, x, r : d = kDo[c].document /\ x = kCall[c] /\ r = Knowledge!EndedCall(c)
  OBVIOUS
<1>1. x.pc = "commit" /\ kDo[c].kind = "upload" /\ Knowledge!Working(c)
  BY <1>0 DEF Knowledge!CommitUpload, Knowledge!Working
<1>2. c \in Knowledge!Live /\ x \in KnowEntry /\ d \in Documents /\ c \in Writers(d)
  BY <1>0, <1>1, InProgress DEF Knowledge!Writes
<1>3. Holding(c, d) /\ Uploading(c, d) /\ Sound(d)
  BY <1>1, <1>2, AtDocument
<1>4. r \in KnowEntry /\ r.pc = "ended" /\ r.gone = x.gone /\ r.found = x.found
  BY <1>0, <1>2, EndedEntry
<1>5. PICK v \in {"none", "indexed", "failed"} : v = IF x.new = {} THEN "failed" ELSE "indexed"
  OBVIOUS
<1>6. /\ Turned(c, r) /\ UNCHANGED <<kDo, collection, points, kFiles>> /\ chunks' = (chunks \ {}) \cup x.new
      /\ status' = [status EXCEPT ![d] = v] /\ kHistory' = [kHistory EXCEPT !.settled = Knowledge!Settle(c)]
  BY <1>0, <1>5 DEF Knowledge!CommitUpload, Turned
<1>7. x.new \in {{}, Knowledge!ChunkRows(d, c)} /\ (x.new = {} => Cause(d))
  BY <1>0, <1>1, <1>3 DEF Holding
<1>8. x.new \in SUBSET KnowRows /\ {} \in SUBSET KnowRows /\ Knowledge!Of({}, d) = {} /\ Knowledge!Of(x.new, d) = x.new
  BY <1>2, <1>7, OwnRows DEF KnowEntry, Knowledge!Of
<1>9. /\ KnowTypes' /\ Elsewhere(d) /\ CausesStay /\ (collection' = "other" => kHistory'.other)
      /\ RowsOf(d)' = (RowsOf(d) \ {}) \cup x.new /\ PointsOf(d)' = PointsOf(d) /\ status'[d] = v
      /\ kHistory'.deleted = kHistory.deleted
      /\ (Cause(d)' <=> Cause(d))
  <2>1. Commits(c, d, {}, x.new, v)
    BY <1>6, <1>8 DEF Commits
  <2> QED BY <1>2, <1>4, <1>6, <2>1, CommitFrame
<1>10. Placed(c)'
  <2>1. kCall'[c] = r
    BY <1>6 DEF Turned, KnowInv, KnowTypes
  <2> QED BY <1>2, <1>4, <1>6, <2>1 DEF Placed, Knowledge!Live, Knowledge!Working
<1>11. Sound(d)'
  <2>1. RowsOf(d) = {} /\ d \in kFiles /\ d \notin kHistory.deleted /\ (x.new = {} \/ PointsOf(d) = x.new)
    BY <1>0, <1>1, <1>3 DEF Uploading, Sent
  <2>2. Indexed(d)'
    <3> SUFFICES ASSUME v = "indexed" PROVE Good(d)'
      BY <1>9 DEF Indexed
    <3>1. x.new = Knowledge!ChunkRows(d, c) /\ x.new # {}
      BY <1>5, <1>7
    <3>2. RowsOf(d)' = Knowledge!ChunkRows(d, c)' /\ PointsOf(d)' = Knowledge!ChunkRows(d, c)' /\ c \in Knowledge!Calls'
      BY <1>9, <2>1, <3>1 DEF Knowledge!ChunkRows, Knowledge!Calls
    <3> QED BY <3>2 DEF Good
  <2>3. v = "failed" => Cause(d)'
    BY <1>5, <1>7, <1>9
  <2> QED BY <1>6, <1>9, <2>1, <2>2, <2>3 DEF Sound
<1>12. kHistory.deleted \subseteq kHistory'.deleted
  BY <1>9
<1> QED BY <1>0, <1>1, <1>2, <1>4, <1>6, <1>9, <1>10, <1>11, <1>12, WriterStep

\* The transaction of a reindexing.
LEMMA KnowCommitsReindex ==
    ASSUME KnowInv, NEW c \in Knowledge!Calls, Knowledge!CommitReindex(c)
    PROVE  KnowInv'
<1>0. PICK d, x, r : d = kDo[c].document /\ x = kCall[c] /\ r = Knowledge!EndedCall(c)
  OBVIOUS
<1>1. x.pc = "commit" /\ kDo[c].kind = "reindex" /\ Knowledge!Working(c)
  BY <1>0 DEF Knowledge!CommitReindex, Knowledge!Working
<1>2. c \in Knowledge!Live /\ x \in KnowEntry /\ d \in Documents /\ c \in Writers(d)
  BY <1>0, <1>1, InProgress DEF Knowledge!Writes
<1>3. Holding(c, d) /\ Sound(d) /\ d \notin kHistory.deleted /\ (x.alone => Done(c, d))
  BY <1>0, <1>2, AtDocument
<1>4. r \in KnowEntry /\ r.pc = "ended" /\ r.gone = x.gone /\ r.found = x.found
  BY <1>0, <1>2, EndedEntry
<1>5. PICK outcome \in {"indexed", "failed"} : outcome = IF x.phase = "try" THEN "indexed" ELSE "failed"
  OBVIOUS
<1>6. status \in [Documents -> {"none", "indexed", "failed"}] /\ Knowledge!Of({}, d) = {}
  BY DEF KnowInv, KnowTypes, Knowledge!Of
<1>7. PICK s \in SUBSET KnowRows, n \in SUBSET KnowRows, v \in {"none", "indexed", "failed"} :
        /\ chunks' = (chunks \ s) \cup n /\ status' = [status EXCEPT ![d] = v]
        /\ Knowledge!Of(s, d) = s /\ Knowledge!Of(n, d) = n
        /\ \/ status[d] = "none" /\ s = {} /\ n = {} /\ v = "none"
           \/ /\ status[d] = "none" => outcome = x.loaded
              /\ s = x.seen /\ n = x.new /\ v = IF outcome # x.loaded THEN outcome ELSE status[d]
  <2>1. CASE status[d] = "none" /\ UNCHANGED <<chunks, status>>
    <3>1. /\ chunks' = (chunks \ {}) \cup {} /\ status' = [status EXCEPT ![d] = "none"] /\ {} \in SUBSET KnowRows
      BY <1>2, <1>6, <2>1
    <3> QED BY <1>6, <2>1, <3>1
  <2>2. CASE /\ status[d] = "none" => outcome = x.loaded
             /\ chunks' = (chunks \ x.seen) \cup x.new
             /\ status' = IF outcome # x.loaded THEN [status EXCEPT ![d] = outcome] ELSE status
    <3>1. x.seen \in SUBSET KnowRows /\ x.new \in SUBSET KnowRows /\ Knowledge!Of(x.seen, d) = x.seen
      BY <1>0, <1>2, <1>3 DEF KnowEntry, Holding
    <3>2. Knowledge!Of(x.new, d) = x.new
      BY <1>0, <1>3, OwnRows DEF Holding, Knowledge!Of
    <3>3. PICK v \in {"none", "indexed", "failed"} : v = IF outcome # x.loaded THEN outcome ELSE status[d]
      BY <1>2, <1>6
    <3>4. status' = [status EXCEPT ![d] = v]
      BY <1>2, <1>6, <2>2, <3>3
    <3> QED BY <2>2, <3>1, <3>2, <3>3, <3>4
  <2>3. \/ status[d] = "none" /\ UNCHANGED <<chunks, status>>
        \/ /\ status[d] = "none" => outcome = x.loaded
           /\ chunks' = (chunks \ x.seen) \cup x.new
           /\ status' = IF outcome # x.loaded THEN [status EXCEPT ![d] = outcome] ELSE status
    BY <1>0, <1>5 DEF Knowledge!CommitReindex
  <2> QED BY <2>1, <2>2, <2>3
<1>8. /\ Turned(c, r) /\ UNCHANGED <<kDo, collection, points, kFiles>>
      /\ kHistory' = [kHistory EXCEPT !.settled = Knowledge!Settle(c)]
  BY <1>0 DEF Knowledge!CommitReindex, Turned
<1>9. /\ KnowTypes' /\ Elsewhere(d) /\ CausesStay /\ (collection' = "other" => kHistory'.other)
      /\ RowsOf(d)' = (RowsOf(d) \ s) \cup n /\ PointsOf(d)' = PointsOf(d) /\ status'[d] = v
      /\ kHistory'.deleted = kHistory.deleted /\ (kHistory'.settled[d] <=> x.alone)
      /\ (Cause(d)' <=> Cause(d))
  <2>1. Commits(c, d, s, n, v)
    BY <1>7, <1>8 DEF Commits
  <2> QED BY <1>0, <1>2, <1>4, <1>8, <2>1, CommitFrame
<1>10. Placed(c)'
  <2>1. kCall'[c] = r
    BY <1>8 DEF Turned, KnowInv, KnowTypes
  <2> QED BY <1>2, <1>4, <1>8, <2>1 DEF Placed, Knowledge!Live, Knowledge!Working
<1>11. status[d] = "none" => v = "none"
  BY <1>7
<1>12. Sound(d)'
  <2>1. v # "none" => d \in kFiles'
    BY <1>3, <1>8, <1>11 DEF Sound
  <2>2. ASSUME x.alone, v \in {"indexed", "failed"}
        PROVE  (v = "indexed" => Good(d)') /\ (v = "failed" => Cause(d)')
    <3>1. status[d] # "none" /\ x.loaded = status[d] /\ x.seen = RowsOf(d)
          /\ (x.phase # "try" => Cause(d)) /\ (x.phase = "try" => PointsOf(d) = x.new)
      BY <1>0, <1>1, <1>3, <2>2 DEF Done
    <3>2. v = outcome /\ s = x.seen /\ n = x.new
      BY <1>7, <3>1
    <3>3. x.phase = "try" => x.new = Knowledge!ChunkRows(d, c)
      BY <1>0, <1>1, <1>3 DEF Holding
    <3>4. ASSUME x.phase = "try" PROVE Good(d)'
      <4>1. RowsOf(d)' = Knowledge!ChunkRows(d, c)' /\ PointsOf(d)' = Knowledge!ChunkRows(d, c)' /\ c \in Knowledge!Calls'
        BY <1>9, <3>1, <3>2, <3>3, <3>4 DEF Knowledge!ChunkRows, Knowledge!Calls
      <4> QED BY <4>1 DEF Good
    <3> QED BY <1>5, <1>9, <3>1, <3>2, <3>4
  <2>3. Indexed(d)'
    BY <1>9, <2>2 DEF Indexed
  <2> QED BY <1>3, <1>9, <2>1, <2>2, <2>3 DEF Sound
<1>13. kHistory.deleted \subseteq kHistory'.deleted /\ (status[d] = "none" => status'[d] = "none")
  BY <1>9, <1>11
<1> QED BY <1>0, <1>2, <1>4, <1>8, <1>9, <1>10, <1>12, <1>13, WriterStep

\* The transaction of a deletion.
LEMMA KnowCommitsDelete ==
    ASSUME KnowInv, NEW c \in Knowledge!Calls, Knowledge!CommitDelete(c)
    PROVE  KnowInv'
<1>0. PICK d, x : d = kDo[c].document /\ x = kCall[c]
  OBVIOUS
<1>1. x.pc = "commit" /\ kDo[c].kind = "delete" /\ Knowledge!Working(c)
  BY <1>0 DEF Knowledge!CommitDelete, Knowledge!Working
<1>2. c \in Knowledge!Live /\ x \in KnowEntry /\ d \in Documents /\ c \in Writers(d)
  BY <1>0, <1>1, InProgress DEF Knowledge!Writes
<1>3. Holding(c, d) /\ Sound(d) /\ d \notin kHistory.deleted /\ Placed(c) /\ (x.alone => Done(c, d))
  BY <1>0, <1>2, AtDocument
<1>4. PICK r : r = [x EXCEPT !.pc = "unlink"]
  OBVIOUS
<1>5. /\ r \in KnowEntry /\ r.pc = "unlink" /\ r.phase = x.phase /\ r.new = x.new /\ r.loaded = x.loaded
      /\ r.seen = x.seen /\ r.gone = x.gone /\ r.found = x.found /\ r.alone = x.alone /\ r.todo = x.todo
  BY <1>2, <1>4 DEF KnowEntry, KnowPoints
<1>6. Turned(c, r)
  BY <1>0, <1>4 DEF Knowledge!CommitDelete, Turned
<1>7. Commits(c, d, x.seen, {}, "none")
  <2>1. x.seen \in SUBSET KnowRows /\ Knowledge!Of(x.seen, d) = x.seen /\ Knowledge!Of({}, d) = {}
    BY <1>0, <1>2, <1>3 DEF KnowEntry, Holding, Knowledge!Of
  <2> QED BY <1>0, <2>1 DEF Knowledge!CommitDelete, Commits
<1>8. /\ KnowTypes' /\ Elsewhere(d) /\ CausesStay /\ (collection' = "other" => kHistory'.other)
      /\ RowsOf(d)' = (RowsOf(d) \ x.seen) \cup {} /\ PointsOf(d)' = PointsOf(d) /\ status'[d] = "none"
      /\ kHistory'.deleted = kHistory.deleted
  BY <1>2, <1>5, <1>6, <1>7, CommitFrame
<1>9. kCall'[c] = r /\ kDo' = kDo
  BY <1>6 DEF Turned, KnowInv, KnowTypes
<1>10. Placed(c)'
  BY <1>1, <1>2, <1>5, <1>9 DEF Placed, Knowledge!Live, Knowledge!Working
<1>11. Holding(c, d)'
  BY <1>0, <1>1, <1>3, <1>5, <1>8, <1>9 DEF Holding, Knowledge!Of, Knowledge!ChunkRows
<1>12. ASSUME r.alone PROVE Done(c, d)'
  <2>1. x.seen = RowsOf(d) /\ PointsOf(d) = {}
    BY <1>0, <1>1, <1>3, <1>5, <1>12 DEF Done
  <2> QED BY <1>1, <1>5, <1>8, <1>9, <2>1 DEF Done
<1>13. Sound(d)'
  BY <1>3, <1>8 DEF Sound, Indexed
<1>14. kHistory.deleted \subseteq kHistory'.deleted
  BY <1>8
<1> QED BY <1>0, <1>1, <1>2, <1>5, <1>6, <1>8, <1>10, <1>11, <1>12, <1>13, <1>14, WriterStep

\* _delete_knowledge_artifact.
LEMMA KnowUnlinks ==
    ASSUME KnowInv, NEW c \in Knowledge!Calls, Knowledge!Unlink(c)
    PROVE  KnowInv'
<1>0. PICK d, x, r : d = kDo[c].document /\ x = kCall[c] /\ r = Knowledge!EndedCall(c)
  OBVIOUS
<1>1. x.pc = "unlink" /\ Knowledge!Working(c)
  BY <1>0 DEF Knowledge!Unlink, Knowledge!Working
<1>2. c \in Knowledge!Live /\ x \in KnowEntry /\ Placed(c)
  BY <1>0, <1>1, InProgress DEF KnowInv
<1>3. kDo[c].kind = "delete"
  BY <1>0, <1>1, <1>2, KnowLive DEF KnowInv, Placed, Knowledge!Working
<1>4. d \in Documents /\ c \in Writers(d)
  BY <1>0, <1>1, <1>3, InProgress DEF Knowledge!Writes
<1>5. Holding(c, d) /\ d \notin kHistory.deleted /\ (x.alone => (\A e \in Writers(d) : e = c) /\ Done(c, d))
  BY <1>0, <1>4, AtDocument
<1>6. r \in KnowEntry /\ r.pc = "ended" /\ r.gone = x.gone /\ r.found = x.found
  BY <1>0, <1>2, EndedEntry
<1>7. /\ UNCHANGED <<kDo, collection, points, chunks, status>> /\ Turned(c, r) /\ kFiles' = kFiles \ {d}
  BY <1>0 DEF Knowledge!Unlink, Turned
<1> DEFINE z == IF kHistory.settled[d] /\ x.alone THEN kHistory.deleted \cup {d} ELSE kHistory.deleted
<1>8. kHistory' = [kHistory EXCEPT !.deleted = z] /\ kHistory \in KnowHistory
  BY <1>0 DEF Knowledge!Unlink, KnowInv, KnowTypes
<1>9. /\ z \in SUBSET Documents /\ kHistory.deleted \subseteq z /\ z \subseteq kHistory.deleted \cup {d}
      /\ d \in z => x.alone
  BY <1>4, <1>5, <1>8 DEF KnowHistory
<1> HIDE DEF z
<1>10. /\ kHistory' \in KnowHistory /\ kHistory'.settled = kHistory.settled /\ kHistory'.other = kHistory.other
       /\ kHistory'.raced = kHistory.raced /\ kHistory'.faults = kHistory.faults /\ kHistory'.deleted = z
  BY <1>8, <1>9 DEF KnowHistory
<1>11. KnowTypes'
  <2>1. kCall' \in [Knowledge!Calls -> KnowEntry] /\ kDo' = kDo
    BY <1>2, <1>6, <1>7 DEF Turned, KnowInv, KnowTypes
  <2>2. Knowledge!Calls' = Knowledge!Calls /\ KnowRows' = KnowRows /\ KnowEntry' = KnowEntry /\ KnowHistory' = KnowHistory
    BY DEF Knowledge!Calls, KnowRows, KnowEntry, KnowHistory
  <2> QED BY <1>7, <1>10, <2>1, <2>2 DEF KnowInv, KnowTypes
<1>12. Elsewhere(d) /\ CausesStay /\ (collection' = "other" => kHistory'.other)
  BY <1>7, <1>9, <1>10 DEF Elsewhere, Apart, CausesStay, Cause, RowsOf, PointsOf, KnowInv, Knowledge!Of
<1>13. kCall'[c] = r
  BY <1>7 DEF Turned, KnowInv, KnowTypes
<1>14. Placed(c)'
  BY <1>2, <1>6, <1>7, <1>13 DEF Placed, Knowledge!Live, Knowledge!Working
<1>15. status[d] = "none"
  BY <1>0, <1>1, <1>3, <1>5 DEF Holding
<1>16. Sound(d)'
  <2>1. ASSUME d \in z PROVE RowsOf(d)' = {} /\ PointsOf(d)' = {} /\ Writers(d)' = {}
    <3>1. x.alone /\ Done(c, d) /\ \A e \in Writers(d) : e = c
      BY <1>5, <1>9, <2>1
    <3>2. RowsOf(d) = {} /\ PointsOf(d) = {}
      BY <1>0, <1>1, <1>3, <3>1 DEF Done
    <3>3. ASSUME NEW e \in Writers(d)' PROVE FALSE
      <4>1. e \in Knowledge!Live /\ kDo[e].document = d /\ Knowledge!Writes(e) /\ Knowledge!Working(e)'
        BY <1>7 DEF Writers, Knowledge!Live, Knowledge!Writes
      <4>2. e # c
        BY <1>6, <1>13, <4>1 DEF Knowledge!Working
      <4>3. kCall'[e] = kCall[e]
        BY <1>2, <1>7, <4>1, <4>2, KnowLive DEF Turned, KnowInv, KnowTypes
      <4>4. e \in Writers(d)
        BY <4>1, <4>3 DEF Writers, Knowledge!Working
      <4> QED BY <3>1, <4>2, <4>4
    <3> QED BY <1>7, <3>2, <3>3 DEF RowsOf, PointsOf, Knowledge!Of
  <2> QED BY <1>7, <1>10, <1>15, <2>1 DEF Sound, Indexed
<1>17. kHistory.deleted \subseteq kHistory'.deleted /\ (status[d] = "none" => status'[d] = "none")
  BY <1>7, <1>9, <1>10
<1> QED BY <1>0, <1>4, <1>6, <1>7, <1>11, <1>12, <1>14, <1>16, <1>17, WriterStep

\* The invariant holds at the start.
LEMMA KnowInitially == Knowledge!Init => KnowInv
<1> SUFFICES ASSUME Knowledge!Init PROVE KnowInv
  OBVIOUS
<1> DEFINE idle == Knowledge!Idle
<1>1. idle \in KnowEntry /\ [idle EXCEPT !.pc = "absent"] \in KnowEntry
      /\ idle.pc = "idle" /\ idle.gone = {} /\ [idle EXCEPT !.pc = "absent"].pc = "absent"
      /\ [idle EXCEPT !.pc = "absent"].gone = {}
  BY DEF Knowledge!Idle, KnowEntry, KnowPoints, Todos
<1> HIDE DEF idle
<1>2. kCall = [c \in Knowledge!Calls |-> IF c \in Knowledge!Live THEN idle ELSE [idle EXCEPT !.pc = "absent"]]
  BY DEF Knowledge!Init, idle
<1>3. \A c \in Knowledge!Calls : /\ kCall[c] \in KnowEntry /\ kCall[c].gone = {}
                                 /\ kCall[c].pc = IF c \in Knowledge!Live THEN "idle" ELSE "absent"
  BY <1>1, <1>2
<1>4. kDo \in KnowledgeCalls /\ Uploaded \subseteq Documents
  BY KnowledgeAssumption DEF Knowledge!Init
<1>5. chunks \in SUBSET KnowRows
  <2>1. \A d \in Uploaded : Knowledge!ChunkRows(d, 0) \in SUBSET KnowRows
    BY <1>4, WindowsOfWords
  <2> QED BY <2>1 DEF Knowledge!Init
<1>6. ASSUME NEW d \in Documents
      PROVE  RowsOf(d) = (IF d \in Uploaded THEN Knowledge!ChunkRows(d, 0) ELSE {})
             /\ PointsOf(d) = (IF collection = "fits" THEN RowsOf(d) ELSE {})
  <2>1. chunks = UNION {Knowledge!ChunkRows(q, 0) : q \in Uploaded}
    BY DEF Knowledge!Init
  <2>2. \A q : \A p \in Knowledge!ChunkRows(q, 0) : p[1] = q
    BY DEF Knowledge!ChunkRows
  <2>3. RowsOf(d) = IF d \in Uploaded THEN Knowledge!ChunkRows(d, 0) ELSE {}
    BY <2>1, <2>2 DEF RowsOf, Knowledge!Of
  <2>4. PointsOf(d) = IF collection = "fits" THEN RowsOf(d) ELSE {}
    BY DEF Knowledge!Init, RowsOf, PointsOf, Knowledge!Of
  <2> QED BY <2>3, <2>4
<1>7. KnowTypes
  <2>1. kCall \in [Knowledge!Calls -> KnowEntry]
    BY <1>2, <1>3
  <2>2. kHistory \in KnowHistory
    BY DEF Knowledge!Init, KnowHistory
  <2>3. points \in SUBSET KnowRows
    BY <1>5 DEF Knowledge!Init
  <2>4. status \in [Documents -> {"none", "indexed", "failed"}] /\ kFiles \in SUBSET Documents
        /\ collection \in {"missing", "fits", "other"}
    BY <1>4 DEF Knowledge!Init
  <2> QED BY <1>4, <1>5, <2>1, <2>2, <2>3, <2>4 DEF KnowTypes
<1>8. ASSUME NEW c \in Knowledge!Calls PROVE Placed(c) /\ Searching(c)
  BY <1>3 DEF Placed, Searching, Knowledge!Working
<1>9. \A d \in Documents : Writers(d) = {}
  BY <1>3, <1>7, KnowLive DEF Writers, Knowledge!Working
<1>10. kHistory.deleted = {} /\ (collection = "other" => kHistory.other)
       /\ \A d \in Documents : kHistory.settled[d] <=> collection = "fits" \/ d \notin Uploaded
  BY DEF Knowledge!Init
<1>11. kFiles = Uploaded /\ \A d \in Documents : status[d] = IF d \in Uploaded THEN "indexed" ELSE "none"
  BY DEF Knowledge!Init
<1>12. ASSUME NEW d \in Documents PROVE Documented(d)
  <2>1. Occupied(d)
    BY <1>9 DEF Occupied
  <2>2. Unborn(d)
    <3> SUFFICES ASSUME NEW c \in Knowledge!Live, kDo[c].kind = "upload", kDo[c].document = d
                 PROVE  Uploading(c, d)
      BY DEF Unborn
    <3>1. d \notin Uploaded /\ kCall[c].pc = "idle"
      BY <1>3, <1>7, KnowLive
    <3> QED BY <1>6, <1>9, <1>10, <1>11, <3>1 DEF Uploading, Sent
  <2>3. Sound(d)
    <3>1. Indexed(d)
      <4> SUFFICES ASSUME status[d] = "indexed", kHistory.settled[d] PROVE Good(d)
        BY DEF Indexed
      <4>1. d \in Uploaded /\ collection = "fits"
        BY <1>10, <1>11
      <4> QED BY <1>6, <4>1 DEF Good
    <3> QED BY <1>10, <1>11, <3>1 DEF Sound
  <2> QED BY <2>1, <2>2, <2>3 DEF Documented
<1> QED BY <1>7, <1>8, <1>10, <1>12 DEF KnowInv

\* Every step keeps the invariant.
LEMMA KnowNext == KnowInv /\ Knowledge!Next => KnowInv'
<1> SUFFICES ASSUME KnowInv, NEW c \in Knowledge!Calls, Knowledge!Step(c) PROVE KnowInv'
  BY DEF Knowledge!Next
<1>1. CASE \/ Knowledge!Upload(c) \/ Knowledge!UploadTooLarge(c) \/ Knowledge!LoadDocument(c)
           \/ Knowledge!ReadArtifact(c) \/ Knowledge!Delete(c) \/ Knowledge!Search(c)
  BY <1>1, KnowUploads, KnowRefusesUpload, KnowLoads, KnowReads, KnowDeletes, KnowSearches
<1>2. CASE \/ Knowledge!EnsureCollection(c) \/ Knowledge!CreateCollection(c) \/ Knowledge!EmbedTexts(c)
           \/ Knowledge!DeleteDocumentVectors(c) \/ Knowledge!UpsertChunks(c) \/ Knowledge!Query(c)
           \/ Knowledge!Lookup(c)
  BY <1>2, KnowEnsures, KnowCreates, KnowEmbeds, KnowChangesPoints, KnowQueries, KnowLooksUp
<1>3. CASE Knowledge!Refuse(c) \/ Knowledge!Break(c) \/ Knowledge!Die(c)
  BY <1>3, KnowFails, KnowDies
<1>4. CASE \/ Knowledge!DeleteChunks(c) \/ Knowledge!CommitUpload(c) \/ Knowledge!CommitReindex(c)
           \/ Knowledge!CommitDelete(c) \/ Knowledge!Unlink(c)
  BY <1>4, KnowStates, KnowCommitsUpload, KnowCommitsReindex, KnowCommitsDelete, KnowUnlinks
<1> QED BY <1>1, <1>2, <1>3, <1>4 DEF Knowledge!Step

\* A step of another service keeps it too.
LEMMA KnowStays ==
    ASSUME KnowInv, UNCHANGED knowledgeVars
    PROVE  KnowInv'
<1>1. UNCHANGED <<kDo, kCall, collection, points, chunks, status, kFiles, kHistory>>
  BY DEF knowledgeVars
<1>2. /\ Knowledge!Live' = Knowledge!Live /\ Knowledge!Calls' = Knowledge!Calls
      /\ KnowRows' = KnowRows /\ KnowEntry' = KnowEntry /\ KnowHistory' = KnowHistory
  BY <1>1 DEF Knowledge!Live, Knowledge!Calls, KnowRows, KnowEntry, KnowHistory
<1>3. KnowTypes' /\ (collection' = "other" => kHistory'.other)
  BY <1>1, <1>2 DEF KnowInv, KnowTypes
<1>4. ASSUME NEW c \in Knowledge!Calls PROVE Placed(c)' /\ Searching(c)'
  BY <1>1, <1>2 DEF KnowInv, Placed, Searching, Knowledge!Working, Knowledge!Of
<1>5. ASSUME NEW d \in Documents PROVE Documented(d)'
  <2>1. Apart(d) /\ CausesStay
    BY <1>1 DEF Apart, CausesStay, Cause, RowsOf, PointsOf, Knowledge!Of
  <2> QED BY <1>1, <2>1, OtherDocument
<1> QED BY <1>2, <1>3, <1>4, <1>5 DEF KnowInv

\* The stores are as the invariant says while the knowledge base is at hand.
LEMMA KnowInvariant == Spec => [](service = "knowledge" => KnowInv)
<1> DEFINE Inv == service = "knowledge" => KnowInv
<1>1. Init => Inv
  <2>1. Init /\ service = "knowledge" => Knowledge!Init
    BY DEF Init
  <2> QED BY <2>1, KnowInitially
<1>2. Inv /\ [Next]_vars => Inv'
  <2> SUFFICES ASSUME service = "knowledge" => KnowInv, [Next]_vars, service' = "knowledge" PROVE KnowInv'
    OBVIOUS
  <2>1. service = "knowledge" /\ (Knowledge!Next \/ UNCHANGED knowledgeVars)
    BY DEF Next, vars
  <2> QED BY <2>1, KnowNext, KnowStays
<1> QED BY <1>1, <1>2, PTL DEF Spec

\* What the invariant says of the three stores.
LEMMA KnowAgrees == KnowInv => Knowledge!StoresAgree
<1> SUFFICES ASSUME KnowInv PROVE Knowledge!StoresAgree
  OBVIOUS
<1>1. \A d \in Documents : Sound(d) /\ (Knowledge!Quiet(d) => Writers(d) = {})
  BY DEF KnowInv, Documented, Knowledge!Quiet, Writers
<1>2. Knowledge!IndexedIsSearchable
  <2> SUFFICES ASSUME NEW d \in Documents, status[d] = "indexed", kHistory.settled[d], Knowledge!Quiet(d)
               PROVE  /\ RowsOf(d) = PointsOf(d)
                      /\ UNION {Knowledge!Window(Tokens[d], r[3]) : r \in RowsOf(d)} = 0..(Tokens[d] - 1)
    BY DEF Knowledge!IndexedIsSearchable, RowsOf, PointsOf
  <2>1. PICK c \in Knowledge!Calls \cup {0} :
          RowsOf(d) = Knowledge!ChunkRows(d, c) /\ PointsOf(d) = Knowledge!ChunkRows(d, c)
    BY <1>1 DEF Sound, Indexed, Good
  <2>2. {Knowledge!Window(Tokens[d], r[3]) : r \in RowsOf(d)}
          = {Knowledge!Window(Tokens[d], s) : s \in Knowledge!Starts(Tokens[d])}
    <3>1. \A s \in Knowledge!Starts(Tokens[d]) : <<d, c, s>> \in RowsOf(d) /\ <<d, c, s>>[3] = s
      BY <2>1 DEF Knowledge!ChunkRows
    <3>2. \A r \in RowsOf(d) : r[3] \in Knowledge!Starts(Tokens[d])
      BY <2>1 DEF Knowledge!ChunkRows
    <3> QED BY <3>1, <3>2
  <2>3. Tokens[d] \in Nat
    BY KnowledgeAssumption
  <2> QED BY <2>1, <2>2, <2>3, WindowsCover
<1>3. Knowledge!DeletedIsGone
  <2>1. \A d \in kHistory.deleted : RowsOf(d) = {} /\ PointsOf(d) = {} /\ d \notin kFiles
    BY <1>1 DEF KnowInv, KnowTypes, KnowHistory, Sound
  <2>2. \A c \in Knowledge!Live : Searching(c)
    BY KnowLive DEF KnowInv
  <2> QED BY <2>1, <2>2 DEF Knowledge!DeletedIsGone, RowsOf, PointsOf, Searching
<1>4. Knowledge!FailedForCause
  BY <1>1 DEF Knowledge!FailedForCause, Sound, Cause
<1> QED BY <1>2, <1>3, <1>4 DEF Knowledge!StoresAgree

\* Documents, rows and points agree: whatever calls met, failed or died in between, a document
\* whose last writer was alone and finished can be found by every word of it, what was deleted
\* alone is gone from every store, and a document failed only for a cause
\* (upload_knowledge_document, reindex_knowledge_document, delete_knowledge_document, search_knowledge).
THEOREM StoresStayTogether == Spec => []StoresAgree
<1>1. (service = "knowledge" => KnowInv) => StoresAgree
  BY KnowAgrees DEF StoresAgree
<1> QED BY <1>1, KnowInvariant, PTL

=============================================================================
