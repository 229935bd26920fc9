------------------------- MODULE AuditRunLifecycle -------------------------
(***************************************************************************)
(* The life of an audit run in the platform service: the HTTP handlers     *)
(* that queue and cancel it, the workflow workers that claim and execute   *)
(* it, their heartbeats, and the recovery pass that workers and the agent  *)
(* gateway make when they start.                                           *)
(*                                                                         *)
(* All of them meet in one row of audit_runs.  The row has a status column *)
(* and a JSON column, config, that holds pipeline_state (its stage, here), *)
(* runtime_control.cancel_requested and runtime_control.worker_id.  Every  *)
(* helper opens a session of its own.  A status update writes one column   *)
(* and is one step; a config update selects the row, edits a copy and      *)
(* writes the whole column back, so it is two steps, "load" and "store",   *)
(* between which other processes run.                                      *)
(*                                                                         *)
(* Abstractions.  A run is a number, and a smaller number was created      *)
(* earlier.  "created" stands for "starting" too, and "completed" for      *)
(* completed_with_warnings.  pipeline_state.status is a function of the    *)
(* stage, StageStatus.  Every run has a workspace path, as run_pipeline    *)
(* demands, so the early returns of execute are left out.  A worker        *)
(* constant is one incarnation: a restarted container is another worker,   *)
(* because worker_id ends in a fresh uuid.  A call is one HTTP request.    *)
(* The size of these sets is the only bound.                               *)
(***************************************************************************)
EXTENDS Naturals, Sequences, FiniteSets

CONSTANTS
    Runs,             \* audit runs, numbered in the order of created_at
    Workers,          \* incarnations of the workflow worker
    Gateways,         \* incarnations of the agent gateway
    Calls,            \* HTTP requests
    Requests,         \* the requests clients make, a subset of RequestKinds
    Overlapping,      \* whether a request may start before the last one ended
    Stages,           \* the stages before the report, in order
    FatalStages,      \* those whose exceptions the executor does not catch
    Retained,         \* runs with retain_runtime_on_failure
    Mortal,           \* workers that may crash or be told to stop
    FaultyDatabase,   \* whether calls of the database may fail
    RecoverOnStartup, \* settings.pipeline_recovery_on_startup
    None

RequestKinds == {"create", "run", "cancel", "validate"}
StageNames == {Stages[i] : i \in 1..Len(Stages)}
FixedStages == {"none", "queued", "claimed", "report", "completed",
                "cancelling", "cancelled", "failed", "interrupted"}

ASSUME ConstantsAssumption ==
    /\ Runs \subseteq Nat
    /\ Requests \subseteq RequestKinds
    /\ Overlapping \in BOOLEAN
    /\ FaultyDatabase \in BOOLEAN
    /\ RecoverOnStartup \in BOOLEAN
    /\ Stages \in Seq(STRING)
    /\ StageNames \cap FixedStages = {}
    /\ FatalStages \subseteq StageNames
    /\ Retained \subseteq Runs
    /\ Mortal \subseteq Workers
    /\ Workers \cap Gateways = {}
    /\ None \notin Runs \cup Workers

VARIABLES
    status,       \* run |-> audit_runs.status
    config,       \* run |-> the parts of audit_runs.config
    containers,   \* runs with containers on the Docker host
    heartbeat,    \* worker |-> its row of worker_heartbeats
    worker,       \* worker |-> the local state of run_worker and execute
    stopping,     \* workers whose stop_event is set
    recovery,     \* process |-> its recover_interrupted_pipelines
    call,         \* request |-> the local state of its handler
    queuings,     \* run |-> how many times it was marked queued (history)
    claims,       \* run |-> how many times a worker claimed it (history)
    intrusions    \* run |-> how many times it was opened to one more executor
                  \* while it had one (history)

rowVars == <<status, config>>
workerVars == <<worker, stopping, heartbeat>>
historyVars == <<queuings, claims, intrusions>>
vars == <<status, config, containers, heartbeat, worker, stopping, recovery,
          call, queuings, claims, intrusions>>

----------------------------------------------------------------------------
(* The row.                                                                *)

RunStatus == {"created", "agent_completed", "queued", "running", "cancelling",
              "cancelled", "completed", "failed"}
TerminalStatus == {"cancelled", "completed", "failed"}
ActiveStatus == {"queued", "running", "cancelling"}

\* config.pipeline_state.stage, config.runtime_control.cancel_requested and
\* config.runtime_control.worker_id.
Config == [stage : StageNames \cup FixedStages, cancel : BOOLEAN,
           owner : Workers \cup {None}]

\* The status that every writer of pipeline_state pairs with the stage.
StageStatus(stage) ==
    CASE stage \in {"none", "queued", "cancelling", "cancelled", "completed",
                    "failed"} -> stage
      [] stage = "interrupted" -> "failed"
      [] OTHER -> "running"

\* Mutant: a running pipeline is not counted as active.
IsActiveWhileQueued(st, cfg, includeQueued) ==
    LET active == IF includeQueued THEN {"queued", "cancelling"}
                  ELSE {"cancelling"}
    IN  st \in active \/ StageStatus(cfg.stage) \in active

IsActive(st, cfg, includeQueued) ==
    LET active == IF includeQueued THEN ActiveStatus
                  ELSE ActiveStatus \ {"queued"}
    IN  st \in active \/ StageStatus(cfg.stage) \in active

\* Edits that may, or always do, change something in config the model leaves
\* out: a time, an error text, the summary, whether a key is present.
MustRewrite == {"request", "summary"}
MayRewrite == MustRewrite \cup {"clear", "validate", "validators",
                                 "completed", "cancelled", "failed", "crashed"}

\* SQLAlchemy issues no UPDATE for an attribute set to an equal value.
StoreConfig(r, goal, old, new) ==
    \/ /\ new # old \/ goal \in MayRewrite
       /\ config' = [config EXCEPT ![r] = new]
    \/ /\ new = old /\ goal \notin MustRewrite
       /\ UNCHANGED config

MarkStatus(r, st) == status' = [status EXCEPT ![r] = st]

\* start_agent_run: agents leave containers behind, and one that fails takes
\* all containers of its run with it.
RunAgents(r) ==
    containers' \in {containers, containers \cup {r}} \cup
                   (IF r \in Retained THEN {} ELSE {containers \ {r}})

----------------------------------------------------------------------------
(* Process-local state.                                                    *)

WorkerPc == {"off", "poll", "execute", "check", "load", "store", "body",
             "except", "mark", "cleanup", "dead"}
WorkerGoal == {"stage", "validators", "summary", "completed", "cancelled",
               "failed", "crashed"}
WorkerState == [pc : WorkerPc, goal : WorkerGoal, step : 1..(Len(Stages) + 1),
                run : Runs \cup {None}, loaded : Config]

CallPc == {"idle", "agent", "load", "store", "mark", "cleanup", "done"}
CallGoal == {"agent_completed", "validate", "clear", "queued", "request",
             "cancelling", "cancelled"}
CallState == [pc : CallPc, goal : CallGoal, run : Runs \cup {None},
              active : BOOLEAN, loaded : Config]

Recoverers == Workers \cup Gateways
RecoveryPc == {"off", "rows", "commit", "done"}

Heartbeat == [state : {"absent", "active", "stopped"},
              run : Runs \cup {None}, fresh : BOOLEAN]

NoConfig == [stage |-> "none", cancel |-> FALSE, owner |-> None]
Alive(w) == worker[w].pc \notin {"off", "dead"}

StageName(i) == IF i <= Len(Stages) THEN Stages[i] ELSE "report"

Init ==
    /\ status = [r \in Runs |-> "created"]
    /\ config = [r \in Runs |-> NoConfig]
    /\ containers = {}
    /\ heartbeat = [w \in Workers |->
                       [state |-> "absent", run |-> None, fresh |-> FALSE]]
    /\ worker = [w \in Workers |-> [pc |-> "off", goal |-> "stage", step |-> 1,
                                    run |-> None, loaded |-> NoConfig]]
    /\ stopping = {}
    /\ recovery = [p \in Recoverers |->
                      [pc |-> IF RecoverOnStartup THEN "off" ELSE "done",
                       spared |-> {}, victims |-> {}]]
    /\ call = [c \in Calls |-> [pc |-> "idle", goal |-> "clear", run |-> None,
                                active |-> FALSE, loaded |-> NoConfig]]
    /\ queuings = [r \in Runs |-> 0]
    /\ claims = [r \in Runs |-> 0]
    /\ intrusions = [r \in Runs |-> 0]

----------------------------------------------------------------------------
(* Who works on a run, and the events that let in one more.  No action      *)
(* reads them.                                                             *)

\* Whether w has the run r and has not yet written its final status.
Executing(w, r) ==
    /\ worker[w].run = r
    /\ \/ worker[w].pc \in {"execute", "check", "body", "except", "mark"}
       \/ /\ worker[w].pc \in {"load", "store"}
          /\ worker[w].goal \in {"stage", "validators", "summary", "failed"}

Executors(r) == {w \in Workers : Executing(w, r)}

\* The requests to run r that are past the 409 and have not marked it queued.
Admitted(r) ==
    {c \in Calls : /\ call[c].run = r
                   /\ \/ call[c].pc \in {"load", "store"}
                         /\ call[c].goal = "clear"
                      \/ call[c].pc = "mark" /\ call[c].goal = "queued"}

Intrude(hit) ==
    intrusions' = [r \in Runs |-> IF r \in hit THEN intrusions[r] + 1
                                  ELSE intrusions[r]]

\* The runs that would lose an active status while a worker executes them.
TakenAway(hit) ==
    {r \in hit : status[r] \in ActiveStatus /\ Executors(r) # {}}

----------------------------------------------------------------------------
(* The HTTP handlers create_audit_run, scale_validators, run_pipeline and   *)
(* cancel_audit_run.                                                       *)

\* A local copy of config is forgotten once it has been stored.
CallGoes(c, pc, goal) ==
    call' = [call EXCEPT ![c] =
               [@ EXCEPT !.pc = pc, !.goal = goal, !.loaded = NoConfig]]

MayStart(c) ==
    /\ call[c].pc = "idle"
    /\ Overlapping \/ \A d \in Calls : call[d].pc \in {"idle", "done"}

\* create_audit_run with start_agent: the row is committed before the first
\* agent runs, and its status is marked when that agent has ended.
CreateRun(c, r) ==
    /\ MayStart(c) /\ "create" \in Requests
    /\ status[r] = "created"
    /\ \A d \in Calls : call[d].goal = "agent_completed" => call[d].run # r
    /\ call' = [call EXCEPT ![c] =
               [@ EXCEPT !.pc = "agent", !.goal = "agent_completed",
                         !.run = r]]
    /\ UNCHANGED <<rowVars, containers, workerVars, recovery, historyVars>>

\* The agents of the request have ended, or one of them has raised.
EndAgents(c) ==
    /\ call[c].pc = "agent"
    /\ RunAgents(call[c].run)
    /\ \/ call[c].goal = "agent_completed" /\ CallGoes(c, "mark", call[c].goal)
       \/ CallGoes(c, "done", call[c].goal)
    /\ UNCHANGED <<rowVars, workerVars, recovery, historyVars>>

\* scale_validators, which merges its parameters into the config of a run in
\* any status before it starts the agents.
ScaleValidators(c, r) ==
    /\ MayStart(c) /\ "validate" \in Requests
    /\ call' = [call EXCEPT ![c] =
               [@ EXCEPT !.pc = "load", !.goal = "validate", !.run = r]]
    /\ UNCHANGED <<rowVars, containers, workerVars, recovery, historyVars>>

\* run_pipeline: refuse an active run with 409 (a refused request changes
\* nothing and is no step), then clear the cancel request.
RunPipeline(c, r) ==
    /\ MayStart(c) /\ "run" \in Requests
    /\ ~IsActive(status[r], config[r], TRUE)
    /\ call' = [call EXCEPT ![c] =
               [@ EXCEPT !.pc = "load", !.goal = "clear", !.run = r]]
    /\ Intrude({q \in {r} : Admitted(q) # {}})
    /\ UNCHANGED <<rowVars, containers, workerVars, recovery, queuings, claims>>

\* cancel_audit_run: the snapshot read here decides at the end whether to
\* finalize.  Runs in any status are accepted.
CancelRun(c, r) ==
    /\ MayStart(c) /\ "cancel" \in Requests
    /\ call' = [call EXCEPT ![c] =
               [@ EXCEPT !.pc = "load", !.goal = "request", !.run = r,
                         !.active = IsActive(status[r], config[r], TRUE)]]
    /\ UNCHANGED <<rowVars, containers, workerVars, recovery, historyVars>>

CallLoad(c) ==
    /\ call[c].pc = "load"
    /\ call' = [call EXCEPT ![c] =
               [@ EXCEPT !.pc = "store", !.loaded = config[call[c].run]]]
    /\ UNCHANGED <<rowVars, containers, workerVars, recovery, historyVars>>

\* _clear_pipeline_cancel, _request_pipeline_cancel, _set_pipeline_state and
\* _record_audit_run, which leaves the parts modelled here as it loaded them.
CallEdit(goal, cfg) ==
    CASE goal = "clear"    -> [cfg EXCEPT !.cancel = FALSE]
      [] goal = "request"  -> [cfg EXCEPT !.cancel = TRUE]
      [] goal = "validate" -> cfg
      [] OTHER             -> [cfg EXCEPT !.stage = goal]

CallStore(c) ==
    /\ call[c].pc = "store"
    /\ StoreConfig(call[c].run, call[c].goal, call[c].loaded,
                   CallEdit(call[c].goal, call[c].loaded))
    /\ \/ call[c].goal = "clear" /\ CallGoes(c, "mark", "queued")
       \/ call[c].goal = "request" /\ CallGoes(c, "mark", "cancelling")
       \/ call[c].goal = "cancelling" /\ CallGoes(c, "cleanup", "cancelling")
       \/ call[c].goal = "validate" /\ CallGoes(c, "agent", "validate")
       \/ /\ call[c].goal \in {"queued", "cancelled"}
          /\ CallGoes(c, "done", call[c].goal)
    /\ UNCHANGED <<status, containers, workerVars, recovery, historyVars>>

CallMark(c) ==
    LET r == call[c].run
        queues == call[c].goal = "queued"
    IN  /\ call[c].pc = "mark"
        /\ MarkStatus(r, call[c].goal)
        /\ queuings' = IF queues THEN [queuings EXCEPT ![r] = @ + 1]
                       ELSE queuings
        /\ Intrude(IF call[c].goal \in ActiveStatus THEN {} ELSE TakenAway({r}))
        /\ CallGoes(c, IF call[c].goal = "agent_completed" THEN "done"
                       ELSE "load", call[c].goal)
        /\ UNCHANGED <<config, containers, workerVars, recovery, claims>>

\* runtime.cleanup_run, then _should_finalize_cancel.  A cleanup that raises
\* counts as one that removed nothing.
CallCleanup(c) ==
    LET r == call[c].run
        Finalize == CallGoes(c, "mark", "cancelled")
    IN  /\ call[c].pc = "cleanup"
        /\ \/ /\ containers' = containers \ {r}
              /\ IF r \in containers /\ call[c].active
                 THEN CallGoes(c, "done", "cancelling")
                 ELSE Finalize
           \/ containers' \in {containers, containers \ {r}} /\ Finalize
        /\ UNCHANGED <<rowVars, workerVars, recovery, historyVars>>

\* The request fails half-way, or its server process dies.
CallFails(c) ==
    /\ FaultyDatabase /\ call[c].pc \notin {"idle", "done"}
    /\ CallGoes(c, "done", call[c].goal)
    /\ UNCHANGED <<rowVars, containers, workerVars, recovery, historyVars>>

CallNext(c) ==
    \/ \E r \in Runs : \/ CreateRun(c, r) \/ ScaleValidators(c, r)
                      \/ RunPipeline(c, r) \/ CancelRun(c, r)
    \/ EndAgents(c) \/ CallLoad(c) \/ CallStore(c) \/ CallMark(c)
    \/ CallCleanup(c) \/ CallFails(c)

----------------------------------------------------------------------------
(* recover_interrupted_pipelines, in a worker or a gateway that starts.    *)

\* The runs for which a fresh, active heartbeat by the recorded owner, or by
\* anyone when no owner is recorded, was read.
Shields(beats, r, cfg) ==
    \E b \in beats : b.run = r /\ cfg.owner \in {None, b.worker}

RecoverReadWorkers(p) ==
    /\ recovery[p].pc = "off"
    /\ LET fresh == {w \in Workers : heartbeat[w].state = "active"
                                     /\ heartbeat[w].fresh}
       IN  recovery' = [recovery EXCEPT ![p] =
               [@ EXCEPT !.pc = "rows",
                         !.spared = {[worker |-> w, run |-> heartbeat[w].run] :
                                        w \in fresh}]]
    /\ UNCHANGED <<rowVars, containers, workerVars, call, historyVars>>

RecoverReadRuns(p) ==
    /\ recovery[p].pc = "rows"
    /\ LET hit == {r \in Runs :
                     /\ IsActive(status[r], config[r], p \in Gateways)
                     /\ ~Shields(recovery[p].spared, r, config[r])}
           Read(r) == [run |-> r, loaded |-> config[r], status |-> status[r]]
       IN  recovery' = [recovery EXCEPT ![p] =
               [@ EXCEPT !.pc = "commit", !.victims = {Read(r) : r \in hit}]]
    /\ UNCHANGED <<rowVars, containers, workerVars, call, historyVars>>

InterruptedConfig(cfg) ==
    [cfg EXCEPT !.stage = "interrupted", !.cancel = FALSE]

\* The commit writes what was decided on the rows as they were read.
RecoverCommit(p) ==
    LET victims == recovery[p].victims
        Chosen(r) == CHOOSE v \in victims : v.run = r
        hit == {v.run : v \in victims}
        failing == {r \in hit : Chosen(r).status # "failed"}
    IN  /\ recovery[p].pc = "commit"
        /\ status' = [r \in Runs |->
               IF r \in failing THEN "failed" ELSE status[r]]
        /\ Intrude(TakenAway(failing))
        /\ config' = [r \in Runs |->
               IF r \in hit THEN InterruptedConfig(Chosen(r).loaded)
               ELSE config[r]]
        /\ recovery' = [recovery EXCEPT ![p] =
               [@ EXCEPT !.pc = "done", !.spared = {}, !.victims = {}]]
        /\ UNCHANGED <<containers, workerVars, call, queuings, claims>>

RecoverNext(p) ==
    RecoverReadWorkers(p) \/ RecoverReadRuns(p) \/ RecoverCommit(p)

----------------------------------------------------------------------------
(* The worker's loop.                                                      *)

WorkerGoes(w, pc, goal) ==
    worker' = [worker EXCEPT ![w] =
               [@ EXCEPT !.pc = pc, !.goal = goal, !.loaded = NoConfig]]

WorkerRests(w, pc, run) ==
    worker' = [worker EXCEPT ![w] = [pc |-> pc, goal |-> "stage", step |-> 1,
                                     run |-> run, loaded |-> NoConfig]]

StartLoop(w) ==
    /\ worker[w].pc = "off" /\ recovery[w].pc = "done"
    /\ WorkerRests(w, "poll", None)
    /\ UNCHANGED <<rowVars, containers, stopping, heartbeat, recovery, call,
                   historyVars>>

\* A row another transaction is writing may be locked, and is then skipped.
MayBeLocked(r) ==
    \/ \E c \in Calls : call[c].run = r /\ call[c].pc \in {"store", "mark"}
    \/ \E w \in Workers : worker[w].run = r
                          /\ worker[w].pc \in {"execute", "store", "mark"}
    \/ \E p \in Recoverers : \E v \in recovery[p].victims : v.run = r

\* Mutant: the claim records the owner but leaves the run queued until the
\* executor marks it.
ClaimWithoutStatus(w, r) ==
    /\ worker[w].pc = "poll" /\ w \notin stopping
    /\ status[r] = "queued"
    /\ \A q \in Runs : q < r /\ status[q] = "queued" => MayBeLocked(q)
    /\ config' = [config EXCEPT ![r] =
               [@ EXCEPT !.stage = "claimed", !.owner = w]]
    /\ WorkerRests(w, "execute", r)
    /\ claims' = [claims EXCEPT ![r] = @ + 1]
    /\ UNCHANGED <<status, containers, stopping, heartbeat, recovery, call,
                   queuings, intrusions>>

Claim(w, r) ==
    /\ worker[w].pc = "poll" /\ w \notin stopping
    /\ status[r] = "queued"
    /\ \A q \in Runs : q < r /\ status[q] = "queued" => MayBeLocked(q)
    /\ MarkStatus(r, "running")
    /\ config' = [config EXCEPT ![r] =
               [@ EXCEPT !.stage = "claimed", !.owner = w]]
    /\ WorkerRests(w, "execute", r)
    /\ claims' = [claims EXCEPT ![r] = @ + 1]
    /\ UNCHANGED <<containers, stopping, heartbeat, recovery, call, queuings,
                   intrusions>>

BeginExecute(w) ==
    /\ worker[w].pc = "execute"
    /\ MarkStatus(worker[w].run, "running")
    /\ WorkerGoes(w, "check", "stage")
    /\ UNCHANGED <<config, containers, stopping, heartbeat, recovery, call,
                   historyVars>>

\* raise_if_cancelled: at the start and after every stage but the report.
CheckCancel(w) ==
    /\ worker[w].pc = "check"
    /\ IF config[worker[w].run].cancel THEN WorkerGoes(w, "mark", "cancelled")
       ELSE WorkerGoes(w, "load", "stage")
    /\ UNCHANGED <<rowVars, containers, stopping, heartbeat, recovery, call,
                   historyVars>>

WorkerLoad(w) ==
    /\ worker[w].pc = "load"
    /\ worker' = [worker EXCEPT ![w] =
               [@ EXCEPT !.pc = "store", !.loaded = config[worker[w].run]]]
    /\ UNCHANGED <<rowVars, containers, stopping, heartbeat, recovery, call,
                   historyVars>>

\* _set_pipeline_state; _record_pipeline_summary and _record_audit_run leave
\* the parts modelled here as they were loaded, but write them back.
WorkerEdit(goal, step, cfg) ==
    CASE goal = "stage"   -> [cfg EXCEPT !.stage = StageName(step)]
      [] goal \in {"validators", "summary"} -> cfg
      [] goal = "crashed" -> [cfg EXCEPT !.stage = "failed"]
      [] OTHER            -> [cfg EXCEPT !.stage = goal]

AfterWorkerStore(w) ==
    CASE worker[w].goal \in {"stage", "validators"} ->
            WorkerGoes(w, "body", worker[w].goal)
      [] worker[w].goal = "summary" -> WorkerGoes(w, "mark", "completed")
      [] worker[w].goal = "failed"  -> WorkerGoes(w, "mark", "failed")
      [] worker[w].goal = "crashed" ->
            WorkerRests(w, "poll", None)
      [] OTHER -> WorkerGoes(w, "cleanup", worker[w].goal)

WorkerStore(w) ==
    LET goal == worker[w].goal
        old == worker[w].loaded
    IN  /\ worker[w].pc = "store"
        /\ StoreConfig(worker[w].run, goal, old,
                       WorkerEdit(goal, worker[w].step, old))
        /\ AfterWorkerStore(w)
        /\ UNCHANGED <<status, containers, stopping, heartbeat, recovery,
                       call, historyVars>>

\* scale_validators begins with _record_audit_run.
BeginValidators(w) ==
    /\ worker[w].pc = "body" /\ worker[w].goal = "stage"
    /\ StageName(worker[w].step) = "validation-judgement"
    /\ WorkerGoes(w, "load", "validators")
    /\ UNCHANGED <<rowVars, containers, stopping, heartbeat, recovery, call,
                   historyVars>>

StageDone(w) ==
    /\ worker[w].pc = "body"
    /\ StageName(worker[w].step) = "validation-judgement" =>
          worker[w].goal = "validators"

\* Mutant: the end of the stages is not noticed, and one more is begun after
\* the report.
StageSucceedsPastReport(w) ==
    /\ StageDone(w)
    /\ worker' = [worker EXCEPT ![w] =
               [@ EXCEPT !.pc = "check", !.goal = "stage", !.step = @ + 1]]
    /\ RunAgents(worker[w].run)
    /\ UNCHANGED <<rowVars, stopping, heartbeat, recovery, call, historyVars>>

\* A stage, or the report, does its work.
StageSucceeds(w) ==
    LET next == worker[w].step + 1
    IN  /\ StageDone(w)
        /\ IF worker[w].step <= Len(Stages)
           THEN worker' = [worker EXCEPT ![w] =
                   [@ EXCEPT !.pc = "check", !.goal = "stage", !.step = next]]
           ELSE WorkerGoes(w, "load", "summary")
        /\ RunAgents(worker[w].run)
        /\ UNCHANGED <<rowVars, stopping, heartbeat, recovery, call,
                       historyVars>>

\* Other stages catch what they raise, but not an error of the database when
\* an event is recorded.
StageRaises(w) ==
    /\ worker[w].pc = "body"
    /\ \/ StageName(worker[w].step) \in FatalStages \cup {"report"}
       \/ FaultyDatabase
    /\ WorkerGoes(w, "except", "failed")
    /\ RunAgents(worker[w].run)
    /\ UNCHANGED <<rowVars, stopping, heartbeat, recovery, call, historyVars>>

\* An exception after the final status was written begins the handling of a
\* failure anew.
RaisesLate(w) == Intrude({worker[w].run} \ {r \in Runs : Executing(w, r)})

\* An error of the database between the stages, in the try of execute.
DatabaseFails(w) ==
    /\ FaultyDatabase
    /\ \/ worker[w].pc = "check"
       \/ /\ worker[w].pc = "load"
          /\ worker[w].goal \in {"stage", "validators", "summary", "completed"}
       \/ worker[w].pc = "mark" /\ worker[w].goal = "completed"
    /\ WorkerGoes(w, "except", "failed") /\ RaisesLate(w)
    /\ UNCHANGED <<rowVars, containers, stopping, heartbeat, recovery, call,
                   queuings, claims>>

\* Mutant: a failure is cleaned up after but never recorded in the row.
HandleExceptionSilently(w) ==
    /\ worker[w].pc = "except"
    /\ IF config[worker[w].run].cancel THEN WorkerGoes(w, "mark", "cancelled")
       ELSE WorkerGoes(w, "cleanup", "failed")
    /\ UNCHANGED <<rowVars, containers, stopping, heartbeat, recovery, call,
                   historyVars>>

\* The except clauses of execute: a failure of a run whose cancel was
\* requested counts as its cancellation.
HandleException(w) ==
    /\ worker[w].pc = "except"
    /\ IF config[worker[w].run].cancel THEN WorkerGoes(w, "mark", "cancelled")
       ELSE WorkerGoes(w, "load", "failed")
    /\ UNCHANGED <<rowVars, containers, stopping, heartbeat, recovery, call,
                   historyVars>>

\* Mutant: a failed run goes back to the queue instead of being failed.
WorkerMarkRetries(w) ==
    LET goal == worker[w].goal
    IN  /\ worker[w].pc = "mark"
        /\ MarkStatus(worker[w].run, IF goal \in {"crashed", "failed"}
                                     THEN "queued" ELSE goal)
        /\ IF goal = "failed" THEN WorkerGoes(w, "cleanup", goal)
           ELSE WorkerGoes(w, "load", goal)
        /\ UNCHANGED <<config, containers, stopping, heartbeat, recovery, call,
                       historyVars>>

WorkerMark(w) ==
    LET goal == worker[w].goal
    IN  /\ worker[w].pc = "mark"
        /\ MarkStatus(worker[w].run,
                      IF goal = "crashed" THEN "failed" ELSE goal)
        /\ IF goal = "failed" THEN WorkerGoes(w, "cleanup", goal)
           ELSE WorkerGoes(w, "load", goal)
        /\ UNCHANGED <<config, containers, stopping, heartbeat, recovery, call,
                       historyVars>>

\* Outside the try of execute, and inside its handlers, such an error reaches
\* run_worker, which marks the run failed.
ExecuteRaises(w) ==
    /\ FaultyDatabase
    /\ \/ worker[w].pc \in {"execute", "except"}
       \/ /\ worker[w].pc \in {"load", "mark"}
          /\ worker[w].goal \in {"cancelled", "failed"}
    /\ WorkerGoes(w, "mark", "crashed") /\ RaisesLate(w)
    /\ UNCHANGED <<rowVars, containers, stopping, heartbeat, recovery, call,
                   queuings, claims>>

\* _cleanup_terminal_runtime.  An exception of cleanup_run is recorded and
\* ignored; the recording itself may fail.
CleanupRuntime(w) ==
    LET r == worker[w].run
        retained == worker[w].goal = "failed" /\ r \in Retained
    IN  /\ worker[w].pc = "cleanup"
        /\ containers' \in IF retained THEN {containers}
                           ELSE {containers, containers \ {r}}
        /\ \/ WorkerRests(w, "poll", None) /\ UNCHANGED intrusions
           \/ /\ FaultyDatabase /\ RaisesLate(w)
              /\ IF worker[w].goal = "completed"
                 THEN WorkerGoes(w, "except", "failed")
                 ELSE WorkerGoes(w, "mark", "crashed")
        /\ UNCHANGED <<rowVars, stopping, heartbeat, recovery, call,
                       queuings, claims>>

----------------------------------------------------------------------------
(* Heartbeats, orderly stops and crashes.                                  *)

RecordHeartbeat(w) ==
    /\ Alive(w) /\ w \notin stopping
    /\ heartbeat' = [heartbeat EXCEPT
           ![w] = [state |-> "active", run |-> worker[w].run, fresh |-> TRUE]]
    /\ UNCHANGED <<rowVars, containers, worker, stopping, recovery, call,
                   historyVars>>

\* The time to live passes: nothing renews the heartbeat of a worker that is
\* dead or stopping, and a live worker goes on when a renewal fails.
HeartbeatExpires(w) ==
    /\ worker[w].pc = "dead" \/ w \in stopping \/ FaultyDatabase
    /\ heartbeat[w].fresh
    /\ heartbeat' = [heartbeat EXCEPT ![w].fresh = FALSE]
    /\ UNCHANGED <<rowVars, containers, worker, stopping, recovery, call,
                   historyVars>>

RequestStop(w) ==
    /\ w \in Mortal \ stopping /\ Alive(w)
    /\ stopping' = stopping \cup {w}
    /\ UNCHANGED <<rowVars, containers, worker, heartbeat, recovery, call,
                   historyVars>>

\* The loop looks at stop_event only between two runs.
LeaveLoop(w) ==
    /\ worker[w].pc = "poll" /\ w \in stopping
    /\ WorkerRests(w, "dead", None)
    /\ heartbeat' = [heartbeat EXCEPT
           ![w] = [state |-> "stopped", run |-> None, fresh |-> TRUE]]
    /\ UNCHANGED <<rowVars, containers, stopping, recovery, call, historyVars>>

Crash(w) ==
    /\ w \in Mortal /\ Alive(w)
    /\ WorkerRests(w, "dead", worker[w].run)
    /\ UNCHANGED <<rowVars, containers, stopping, heartbeat, recovery, call,
                   historyVars>>

\* An error of the database in the loop, or while run_worker records that an
\* execution crashed, ends the process in good order.
LoopFails(w) ==
    /\ FaultyDatabase
    /\ \/ worker[w].pc = "poll"
       \/ worker[w].pc \in {"load", "mark"} /\ worker[w].goal = "crashed"
    /\ WorkerRests(w, "dead", worker[w].run)
    /\ \/ UNCHANGED heartbeat
       \/ heartbeat' = [heartbeat EXCEPT
              ![w] = [state |-> "stopped", run |-> None, fresh |-> TRUE]]
    /\ UNCHANGED <<rowVars, containers, stopping, recovery, call, historyVars>>

\* What the worker's event loop keeps doing as long as the process lives.
WorkerProgress(w) ==
    \/ StartLoop(w)
    \/ \E r \in Runs : Claim(w, r)
    \/ BeginExecute(w) \/ CheckCancel(w) \/ WorkerLoad(w) \/ WorkerStore(w)
    \/ BeginValidators(w) \/ StageSucceeds(w) \/ StageRaises(w)
    \/ DatabaseFails(w)
    \/ HandleException(w) \/ WorkerMark(w) \/ ExecuteRaises(w)
    \/ CleanupRuntime(w) \/ LeaveLoop(w)

WorkerNext(w) ==
    \/ WorkerProgress(w)
    \/ RecordHeartbeat(w) \/ HeartbeatExpires(w)
    \/ RequestStop(w) \/ Crash(w) \/ LoopFails(w)

Next ==
    \/ \E c \in Calls : CallNext(c)
    \/ \E p \in Recoverers : RecoverNext(p)
    \/ \E w \in Workers : WorkerNext(w)

Spec == Init /\ [][Next]_vars

\* An immortal worker's process is scheduled, and a request that was accepted
\* runs to its end.  Clients, crashes and stops are under no obligation.
FairSpec ==
    /\ Spec
    /\ \A w \in Workers \ Mortal : WF_vars(WorkerProgress(w) \/ RecoverNext(w))
    /\ \A c \in Calls :
          WF_vars(\/ EndAgents(c) \/ CallLoad(c) \/ CallStore(c)
                  \/ CallMark(c) \/ CallCleanup(c))

----------------------------------------------------------------------------
(* Properties.                                                             *)

\* Every variable keeps its type: the row, the heartbeats and the local
\* state of workers, handlers and recovery passes.
TypeOK ==
    /\ status \in [Runs -> RunStatus]
    /\ config \in [Runs -> Config]
    /\ containers \subseteq Runs
    /\ heartbeat \in [Workers -> Heartbeat]
    /\ worker \in [Workers -> WorkerState]
    /\ stopping \subseteq Workers
    /\ recovery \in [Recoverers ->
          [pc : RecoveryPc,
           spared : SUBSET [worker : Workers, run : Runs \cup {None}],
           victims : SUBSET [run : Runs, loaded : Config,
                             status : RunStatus]]]
    /\ call \in [Calls -> CallState]
    /\ queuings \in [Runs -> Nat]
    /\ claims \in [Runs -> Nat]
    /\ intrusions \in [Runs -> Nat]

Waiting(r) == IF status[r] = "queued" THEN 1 ELSE 0

\* claim_next_queued_pipeline: over the whole history of a run, through every
\* interleaving of handlers, stale config writes, recoveries, stops and
\* crashes, the workers have claimed it at most once for each time that
\* run_pipeline queued it.
ClaimsMatchQueuings ==
    \A r \in Runs : claims[r] + Waiting(r) <= queuings[r]

\* A run that is left at "running" has a worker that will still write its
\* final status, or lost its worker to a crash or to an error while the crash
\* of execute was recorded: no other path of execute, of cancel_audit_run or
\* of the recovery pass strands it there.
RunningHasExecutor ==
    \A r \in Runs : status[r] = "running" =>
        \E w \in Workers : \/ Executing(w, r)
                           \/ worker[w].pc = "dead" /\ worker[w].run = r

\* is_active_pipeline in run_pipeline, the claim and the order in which execute
\* writes its final status keep a run to one worker at a time, but for the
\* events that open it to another, and each of those lets in one more at most:
\* a request to run it that overlaps another such request, a cancel request,
\* create_audit_run or a recovery pass that ends it under its worker's hands,
\* and an execution that raises when it has written its final status.
ExecutorsMatchIntrusions ==
    \A r \in Runs : Cardinality(Executors(r)) <= 1 + intrusions[r]

\* The queue of audit_runs keeps what RunLedger promises.
Ledger == INSTANCE RunLedger WITH
              waiting <- {r \in Runs : status[r] = "queued"},
              issued <- queuings, taken <- claims

\* Every queueing of a run is claimed at most once or withdrawn: handlers,
\* workers and recovery passes together implement RunLedger.
QueueKeepsLedger == Ledger!Spec

\* A cancel request has left the run at "cancelling", because it removed
\* containers of a run that was active when the request began, and no worker
\* executes the run.
LeftCancelling(r) ==
    /\ status[r] = "cancelling" /\ Executors(r) = {}
    /\ \E c \in Calls : /\ call[c].run = r /\ call[c].pc = "done"
                        /\ call[c].goal = "cancelling" /\ call[c].active

\* Every active run comes to an end: it is executed, cancelled or recovered.
\* _should_finalize_cancel leaves one exception, a run that was cancelled before
\* its claim while containers of an earlier request were still there: nobody
\* else will write its status, unless a later cancel or recovery pass does.
QueuedRunEnds ==
    \A r \in Runs : status[r] \in ActiveStatus ~>
        (status[r] \in TerminalStatus \/ LeftCancelling(r))

\* The 409 "audit run pipeline is already active" is about a run that is
\* active: a run that ended can be run again, or at least eventually can.
EndedRunCanBeRerun ==
    \A r \in Runs : status[r] \in TerminalStatus ~>
        (status[r] \in TerminalStatus => ~IsActive(status[r], config[r], TRUE))
=============================================================================
