--------------------------- MODULE SplitPipeline ---------------------------
(***************************************************************************)
(* The life of an audit run in the split services: the web-api handlers    *)
(* that start and cancel it, and the workflow workers that claim it and    *)
(* run its stages.                                                         *)
(*                                                                         *)
(* Unlike the platform service, a process here does its work in the        *)
(* session of one database transaction.  What it wrote is seen by others   *)
(* only when it commits; a column is written only if its value differs     *)
(* from the one loaded; a loaded row is not read again; and the first      *)
(* UPDATE of a row, which the ORM sends before the next query, locks the   *)
(* row until the end of the transaction.  A worker executes all stages of  *)
(* a run in one such transaction.                                          *)
(*                                                                         *)
(* Abstractions.  A handler commits right after its UPDATE, so the two are *)
(* one step.  Any queued run may be the one that was updated first.        *)
(* current_stage is left out: every transaction resets it before it        *)
(* commits.  The sets of runs, workers and calls are the only bounds.      *)
(***************************************************************************)
EXTENDS Naturals, Sequences, FiniteSets

CONSTANTS
    Runs, Workers,
    Calls,           \* HTTP requests
    Requests,        \* the requests clients make
    Stages,          \* stage names in the order of StageRegistry.ordered
    FailFast,        \* stages with FailurePolicy.FAIL_FAST
    AlwaysRun,       \* stages with FailurePolicy.ALWAYS_RUN
    Raising,         \* stages that may raise
    Cleanup,         \* the stage that asks for the removal of the runtime
    DisabledChoices, \* the values of config.disabled_stages in use
    Mortal,          \* workers that may crash
    None

StageSet == {Stages[i] : i \in 1..Len(Stages)}

ASSUME SplitAssumption ==
    /\ Requests \subseteq {"start", "cancel"}
    /\ Stages \in Seq(STRING)
    /\ \A i, j \in 1..Len(Stages) : Stages[i] = Stages[j] => i = j
    /\ FailFast \subseteq StageSet /\ AlwaysRun \subseteq StageSet
    /\ FailFast \cap AlwaysRun = {}
    /\ Raising \subseteq StageSet /\ Cleanup \in AlwaysRun
    /\ DisabledChoices \subseteq SUBSET StageSet
    /\ {} \in DisabledChoices
    /\ Mortal \subseteq Workers
    /\ None \notin Runs \cup Workers

VARIABLES
    row,       \* run |-> its committed row of audit_runs
    lock,      \* run |-> the worker whose transaction has locked the row
    worker,    \* worker |-> the local state of run_worker and execute
    call,      \* request |-> the local state of its handler
    queuings,  \* run |-> how many times it was marked queued (history)
    claims     \* run |-> how many times a worker claimed it (history)

vars == <<row, lock, worker, call, queuings, claims>>

RunStatus == {"created", "queued", "running", "succeeded", "failed"}
PipelineStatus == {"pending", "queued", "running", "succeeded", "failed",
                   "cancelled"}
Row == [status : RunStatus, pipe : PipelineStatus, cancel : BOOLEAN,
        disabled : DisabledChoices, retain : BOOLEAN]
NewRow(disabled, retain) ==
    [status |-> "created", pipe |-> "pending", cancel |-> FALSE,
     disabled |-> disabled, retain |-> retain]
NoRow == NewRow({}, FALSE)

WorkerPc == {"poll", "claim", "load", "next", "body", "rest", "again",
             "crash", "dead"}
Idle == [pc |-> "poll", run |-> None, loaded |-> NoRow, status |-> "created",
         step |-> 1, failed |-> FALSE, cancelled |-> FALSE, completed |-> {},
         attempted |-> {}, asked |-> FALSE]

Init ==
    /\ row \in [Runs -> {NewRow(d, b) : d \in DisabledChoices, b \in BOOLEAN}]
    /\ lock = [r \in Runs |-> None]
    /\ worker = [w \in Workers |-> Idle]
    /\ call = [c \in Calls |-> [pc |-> "idle", kind |-> "start", run |-> None,
                                loaded |-> NoRow]]
    /\ queuings = [r \in Runs |-> 0]
    /\ claims = [r \in Runs |-> 0]

\* An UPDATE writes the columns that were changed since they were loaded.
Update(current, loaded, new) ==
    [current EXCEPT
        !.status = IF new.status # loaded.status THEN new.status ELSE @,
        !.pipe = IF new.pipe # loaded.pipe THEN new.pipe ELSE @,
        !.cancel = IF new.cancel # loaded.cancel THEN new.cancel ELSE @]

Unlocked(r, w) == lock[r] \in {None, w}

----------------------------------------------------------------------------
(* The handlers of the web-api.                                            *)

\* Neither handler looks at the status of the run it is called for.
CallLoad(c, kind, r) ==
    /\ call[c].pc = "idle" /\ kind \in Requests
    /\ call' = [call EXCEPT ![c] = [pc |-> "write", kind |-> kind, run |-> r,
                                    loaded |-> row[r]]]
    /\ UNCHANGED <<row, lock, worker, queuings, claims>>

\* Mutant: a cancel request of the split services changes the status, as the
\* one of the platform service does.
CallEditCancelling(kind, old) ==
    IF kind = "start"
    THEN [old EXCEPT !.status = "queued", !.pipe = "queued", !.cancel = FALSE]
    ELSE [old EXCEPT !.status = "cancelling", !.cancel = TRUE]

CallEdit(kind, old) ==
    IF kind = "start"
    THEN [old EXCEPT !.status = "queued", !.pipe = "queued", !.cancel = FALSE]
    ELSE [old EXCEPT !.cancel = TRUE]

\* Without a changed column there is no UPDATE to wait for.
CallWrite(c) ==
    LET r == call[c].run
        old == call[c].loaded
        new == CallEdit(call[c].kind, old)
        queues == new.status # old.status
    IN  /\ call[c].pc = "write"
        /\ new = old \/ lock[r] = None
        /\ row' = [row EXCEPT ![r] = Update(@, old, new)]
        /\ queuings' = IF queues THEN [queuings EXCEPT ![r] = @ + 1]
                       ELSE queuings
        /\ call' = [call EXCEPT ![c] =
               [@ EXCEPT !.pc = "done", !.loaded = NoRow]]
        /\ UNCHANGED <<lock, worker, claims>>

----------------------------------------------------------------------------
(* The worker: claim_next_queued and its commit, without a row lock.       *)

ClaimRead(w, r) ==
    /\ worker[w].pc = "poll" /\ row[r].status = "queued"
    /\ worker' = [worker EXCEPT ![w] =
               [@ EXCEPT !.pc = "claim", !.run = r, !.loaded = row[r]]]
    /\ UNCHANGED <<row, lock, call, queuings, claims>>

\* Mutant: the claim is recorded in pipeline_status only.
ClaimCommitStillQueued(w) ==
    LET r == worker[w].run
        old == worker[w].loaded
        new == [old EXCEPT !.pipe = "running"]
    IN  /\ worker[w].pc = "claim" /\ lock[r] = None
        /\ row' = [row EXCEPT ![r] = Update(@, old, new)]
        /\ worker' = [worker EXCEPT ![w] = [@ EXCEPT !.pc = "load"]]
        /\ claims' = [claims EXCEPT ![r] = @ + 1]
        /\ UNCHANGED <<lock, call, queuings>>

ClaimCommit(w) ==
    LET r == worker[w].run
        old == worker[w].loaded
        new == [old EXCEPT !.status = "running", !.pipe = "running"]
    IN  /\ worker[w].pc = "claim" /\ lock[r] = None
        /\ row' = [row EXCEPT ![r] = Update(@, old, new)]
        /\ worker' = [worker EXCEPT ![w] = [@ EXCEPT !.pc = "load"]]
        /\ claims' = [claims EXCEPT ![r] = @ + 1]
        /\ UNCHANGED <<lock, call, queuings>>

\* PipelineService.run and the start of execute, in a new session.
LoadRun(w) ==
    LET r == worker[w].run
    IN  /\ worker[w].pc = "load"
        /\ worker' = [worker EXCEPT ![w] =
               [Idle EXCEPT !.pc = "next", !.run = r, !.loaded = row[r],
                            !.status = "running"]]
        /\ UNCHANGED <<row, lock, call, queuings, claims>>

----------------------------------------------------------------------------
(* PipelineExecutor.execute.                                               *)

Current(w) == Stages[worker[w].step]
HasStage(w) == worker[w].step <= Len(Stages)

\* The query of _refresh_cancel flushes a status that differs from the loaded
\* one, but returns the row as it was loaded.
Refreshed(w) ==
    LET r == worker[w].run
    IN  IF worker[w].loaded.status = "running" THEN UNCHANGED lock
        ELSE Unlocked(r, w) /\ lock' = [lock EXCEPT ![r] = w]

Goes(w, pc, step) ==
    worker' = [worker EXCEPT ![w] = [@ EXCEPT !.pc = pc, !.step = step]]

StopForCancel(w) ==
    /\ worker[w].pc = "next" /\ HasStage(w) /\ Refreshed(w)
    /\ worker[w].loaded.cancel /\ Current(w) \notin AlwaysRun
    /\ worker' = [worker EXCEPT ![w] =
               [@ EXCEPT !.pc = "rest", !.step = 1, !.cancelled = TRUE]]
    /\ UNCHANGED <<row, call, queuings, claims>>

MayProceed(w) ==
    /\ worker[w].pc = "next" /\ HasStage(w)
    /\ worker[w].loaded.cancel => Current(w) \in AlwaysRun

SkipDisabled(w) ==
    /\ MayProceed(w) /\ Refreshed(w)
    /\ Current(w) \in worker[w].loaded.disabled
    /\ Goes(w, "next", worker[w].step + 1)
    /\ UNCHANGED <<row, call, queuings, claims>>

\* Mutant: the stage begins before set_pipeline_state has been flushed.
EnterBodyUnflushed(w, pc, i) ==
    /\ worker' = [worker EXCEPT ![w] =
           [@ EXCEPT !.pc = pc, !.step = i, !.status = "running",
                     !.attempted = @ \cup {Stages[i]}]]
    /\ UNCHANGED <<row, lock, call, queuings, claims>>

\* set_pipeline_state changes current_stage, and the query with which every
\* stage adapter begins sends that UPDATE and so takes the lock.
EnterBody(w, pc, i) ==
    LET e == worker[w]
    IN  /\ Unlocked(e.run, w)
        /\ lock' = [lock EXCEPT ![e.run] = w]
        /\ worker' = [worker EXCEPT ![w] =
               [e EXCEPT !.pc = pc, !.step = i, !.status = "running",
                         !.attempted = e.attempted \cup {Stages[i]}]]
        /\ UNCHANGED <<row, call, queuings, claims>>

BeginStage(w) ==
    /\ MayProceed(w) /\ Current(w) \notin worker[w].loaded.disabled
    /\ EnterBody(w, "body", worker[w].step)

\* _runtime_cleanup asks the sandbox runner to remove the runtime, unless the
\* row it sees says that the run failed and its runtime is to be retained.
\* An error of the sandbox runner is only a warning.
AsksCleanup(w) ==
    /\ Current(w) = Cleanup
    /\ ~(worker[w].loaded.retain /\ worker[w].status = "failed")

StageSucceeds(w) ==
    LET e == worker[w]
    IN  /\ e.pc \in {"body", "again"}
        /\ worker' = [worker EXCEPT ![w] =
               [e EXCEPT !.pc = IF e.pc = "body" THEN "next" ELSE "rest",
                         !.step = e.step + 1,
                         !.completed = e.completed \cup {Current(w)},
                         !.asked = e.asked \/ AsksCleanup(w)]]
        /\ UNCHANGED <<row, lock, call, queuings, claims>>

\* Mutant: no break after the exception of a FAIL_FAST stage.
StageRaisesAndGoesOn(w) ==
    LET stage == Current(w)
    IN  /\ worker[w].pc = "body" /\ stage \in Raising
        /\ worker' = [worker EXCEPT ![w] =
               [@ EXCEPT !.pc = "next", !.step = @ + 1,
                         !.failed = @ \/ stage \in FailFast \cup AlwaysRun]]
        /\ UNCHANGED <<row, lock, call, queuings, claims>>

\* A stage that raises and is neither FAIL_FAST nor CONTINUE_WITH_WARNING
\* fails the run, but the stages after it are run.
StageRaises(w) ==
    LET e == worker[w]
        stage == Current(w)
    IN  /\ e.pc = "body" /\ stage \in Raising
        /\ worker' = [worker EXCEPT ![w] =
               IF stage \in FailFast
               THEN [e EXCEPT !.pc = "rest", !.step = 1, !.failed = TRUE]
               ELSE [e EXCEPT !.pc = "next", !.step = e.step + 1,
                              !.failed = e.failed \/ stage \in AlwaysRun]]
        /\ UNCHANGED <<row, lock, call, queuings, claims>>

\* After a failure or a cancellation the ALWAYS_RUN stages that have not
\* completed are run, disabled ones among them.
LeaveFailedStages(w) ==
    /\ worker[w].pc = "next" /\ ~HasStage(w) /\ worker[w].failed
    /\ Goes(w, "rest", 1)
    /\ UNCHANGED <<row, lock, call, queuings, claims>>

\* Mutant: disabled stages are left out here as they are in the first loop.
RemainingEnabled(w) ==
    {i \in worker[w].step..Len(Stages) :
        Stages[i] \in AlwaysRun \
                        (worker[w].completed \cup worker[w].loaded.disabled)}

Remaining(w) ==
    {i \in worker[w].step..Len(Stages) :
        Stages[i] \in AlwaysRun \ worker[w].completed}

BeginAlwaysRun(w) ==
    /\ worker[w].pc = "rest"
    /\ \E i \in Remaining(w) :
          (\A j \in Remaining(w) : i <= j) /\ EnterBody(w, "again", i)

AlwaysRunRaises(w) ==
    /\ worker[w].pc = "again" /\ Current(w) \in Raising
    /\ Goes(w, "rest", worker[w].step + 1)
    /\ UNCHANGED <<row, lock, call, queuings, claims>>

Finished(w) ==
    \/ worker[w].pc = "next" /\ ~HasStage(w) /\ ~worker[w].failed
    \/ worker[w].pc = "rest" /\ Remaining(w) = {}

Result(w) == IF worker[w].cancelled THEN "cancelled"
             ELSE IF worker[w].failed THEN "failed" ELSE "succeeded"

\* finish_run, set_pipeline_state, the assignments of PipelineService.run
\* that overwrite it, and the commit of the whole execution.
CommitRun(w) ==
    LET r == worker[w].run
        result == Result(w)
    IN  /\ Finished(w) /\ Unlocked(r, w)
        /\ row' = [row EXCEPT ![r] =
               [@ EXCEPT !.status = IF result = "failed" THEN "failed"
                                    ELSE "succeeded",
                         !.pipe = result]]
        /\ lock' = [lock EXCEPT ![r] = None]
        /\ worker' = [worker EXCEPT ![w] = Idle]
        /\ UNCHANGED <<call, queuings, claims>>

----------------------------------------------------------------------------
(* Failures of the worker.                                                 *)

Released(w) == lock' = [r \in Runs |-> IF lock[r] = w THEN None ELSE lock[r]]

\* An error outside the stages rolls the execution back, as if it had never
\* run a stage; run_worker then fails the run in a session of its own.
ExecutionRaises(w) ==
    /\ worker[w].pc \in {"load", "next", "body", "rest", "again"}
    /\ Released(w)
    /\ worker' = [worker EXCEPT ![w] =
               [Idle EXCEPT !.pc = "crash", !.run = worker[w].run]]
    /\ UNCHANGED <<row, call, queuings, claims>>

\* Mutant: the failure is recorded in pipeline_status only.
FailRunPipelineOnly(w) ==
    LET r == worker[w].run
    IN  /\ worker[w].pc = "crash" /\ lock[r] = None
        /\ row' = [row EXCEPT ![r].pipe = "failed"]
        /\ worker' = [worker EXCEPT ![w] = Idle]
        /\ UNCHANGED <<lock, call, queuings, claims>>

FailRun(w) ==
    LET r == worker[w].run
        new == [row[r] EXCEPT !.status = "failed", !.pipe = "failed"]
    IN  /\ worker[w].pc = "crash"
        /\ new = row[r] \/ lock[r] = None
        /\ row' = [row EXCEPT ![r] = new]
        /\ worker' = [worker EXCEPT ![w] = Idle]
        /\ UNCHANGED <<lock, call, queuings, claims>>

\* The process dies and the database rolls its transaction back.
Crash(w) ==
    /\ w \in Mortal /\ worker[w].pc # "dead"
    /\ Released(w)
    /\ worker' = [worker EXCEPT ![w] =
               [Idle EXCEPT !.pc = "dead", !.run = worker[w].run]]
    /\ UNCHANGED <<row, call, queuings, claims>>

WorkerProgress(w) ==
    \/ \E r \in Runs : ClaimRead(w, r)
    \/ ClaimCommit(w) \/ LoadRun(w)
    \/ StopForCancel(w) \/ SkipDisabled(w) \/ BeginStage(w)
    \/ StageSucceeds(w) \/ StageRaises(w) \/ LeaveFailedStages(w)
    \/ BeginAlwaysRun(w) \/ AlwaysRunRaises(w)
    \/ CommitRun(w) \/ ExecutionRaises(w) \/ FailRun(w)

Next ==
    \/ \E c \in Calls :
          \/ \E r \in Runs, kind \in Requests : CallLoad(c, kind, r)
          \/ CallWrite(c)
    \/ \E w \in Workers : WorkerProgress(w) \/ Crash(w)

Spec == Init /\ [][Next]_vars

\* A worker that lives is scheduled, the database grants a lock that stays
\* free, and a handler that has begun ends.  Crashes need not happen.
FairSpec ==
    /\ Spec
    /\ \A w \in Workers : WF_vars(WorkerProgress(w))
    /\ \A c \in Calls : WF_vars(CallWrite(c))

----------------------------------------------------------------------------
(* Properties.                                                             *)

\* Every variable keeps its type.
TypeOK ==
    /\ row \in [Runs -> Row]
    /\ lock \in [Runs -> Workers \cup {None}]
    /\ worker \in [Workers ->
          [pc : WorkerPc, run : Runs \cup {None}, loaded : Row,
           status : RunStatus, step : 1..(Len(Stages) + 1), failed : BOOLEAN,
           cancelled : BOOLEAN, completed : SUBSET StageSet,
           attempted : SUBSET StageSet, asked : BOOLEAN]]
    /\ call \in [Calls -> [pc : {"idle", "write", "done"},
                           kind : {"start", "cancel"}, run : Runs \cup {None},
                           loaded : Row]]
    /\ queuings \in [Runs -> Nat] /\ claims \in [Runs -> Nat]

RunsStage(w, r) == worker[w].run = r /\ worker[w].pc \in {"body", "again"}

\* claim_next_queued takes no lock, so two workers can claim one queueing and
\* execute it twice; the row lock that the first UPDATE takes still keeps
\* them from running stages of the run at the same time.
StagesSerialized ==
    \A r \in Runs, v, w \in Workers :
        RunsStage(v, r) /\ RunsStage(w, r) => v = w

\* The three writers of the row, each of which may find it changed since it
\* was loaded, leave status and pipeline_status telling the same story; a
\* cancelled pipeline is the one that PipelineService.run calls succeeded.
StatusesAgree ==
    \A r \in Runs :
        <<row[r].status, row[r].pipe>> \in
            {<<"created", "pending">>, <<"queued", "queued">>,
             <<"running", "running">>, <<"succeeded", "succeeded">>,
             <<"succeeded", "cancelled">>, <<"failed", "failed">>}

\* FAIL_FAST and a cancellation: once a FAIL_FAST stage has raised, or when
\* the run was loaded with a cancel request, execute runs no stage but those
\* that always run.
StoppedRunsOnlyAlwaysRun ==
    \A w \in Workers :
        /\ worker[w].pc \in {"body", "again"}
        /\ \/ worker[w].loaded.cancel
           \/ \E s \in worker[w].attempted \cap FailFast :
                 s \notin worker[w].completed \cup {Current(w)}
        => Current(w) \in AlwaysRun

\* ALWAYS_RUN: an execution that failed or was cancelled has attempted every
\* such stage, and none of them is begun again after it completed.
AlwaysRunIsRun ==
    \A w \in Workers :
        /\ Finished(w) /\ (worker[w].failed \/ worker[w].cancelled) =>
              AlwaysRun \subseteq worker[w].attempted
        /\ worker[w].pc \in {"body", "again"} =>
              Current(w) \notin worker[w].completed

Ledger == INSTANCE RunLedger WITH
              waiting <- {r \in Runs : row[r].status = "queued"},
              issued <- queuings, taken <- claims

\* With a single worker, "the only durable audit queue consumer", every
\* queueing is claimed at most once or withdrawn.
QueueKeepsLedger == Ledger!Spec

\* A queued run is executed to an end, also when its execution raises.
QueuedRunEnds ==
    \A r \in Runs :
        row[r].status = "queued" ~> row[r].status \in {"succeeded", "failed"}

\* retain_runtime_on_failure keeps failed runtime state for debugging: an
\* execution that failed does not ask for its removal.
RetainedFailureKeepsRuntime ==
    \A w \in Workers :
        /\ Finished(w) /\ worker[w].failed /\ worker[w].loaded.retain
        => ~worker[w].asked
=============================================================================
