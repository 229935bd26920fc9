# DieAudit: TLA+ specifications

These modules specify DieAudit's control plane and the services around it: how
an audit run is queued, claimed, executed, cancelled, recovered and ended; how
its agents get their containers and lose them; how findings come about and
what the stages of the pipeline do with them; and how the services that keep
state of their own (knowledge base, whiteboard, reports, imports, transcripts,
scans, sandboxes) keep their stores together. TLC checks them on small instances, and
TLAPS proves the safety properties of the queue, of both executors, of the stage
registry, of the agents' runtimes, of the findings and of five of the seven services
for any number of runs, workers, agents, findings and requests. Paths below are
relative to `src/`; `PROJECT.json` gives, for each definition, the lines of code it
stands for.

## 1. The system

DieAudit audits the code of projects with agents in Docker containers. The
repository holds two implementations of its control plane:

- the *platform service* (`services/platform`), one program started in several
  roles (platform API, agent gateway, workflow worker);
- the *split services* (`services/web-api`, `services/workflow-worker`,
  `services/platform-common` and some skeletons), which the compose file
  deploys in its place.

Both keep an audit run as one row of `audit_runs`, through which all processes
communicate. There are no messages between handlers and workers: a request
changes the row, a worker polls for it.

| component | state | operations | interacts through | modelled by |
|---|---|---|---|---|
| Queue and pipeline control of the platform: `api/routes.py`, `services/pipeline_queue.py`, `pipeline_recovery.py`, `worker_heartbeat.py`, `worker.py` | status and config of `audit_runs`; `worker_heartbeats`; the loop's stop event | create, validate, run, cancel; claim; recover; heartbeat; stop | the database; Docker for the cleanup | `AuditRunLifecycle` |
| Pipeline executor of the platform: `services/pipeline_executor.py` | local to an execution; writes the row | cancel checks, stages, feedback rounds, report, final writes, cleanup | the database, the orchestrator | `AuditRunLifecycle` (control), `FindingLifecycle` (what the stages do to findings) |
| Runtime orchestrator: `runtime/orchestrator.py` | agent runs, agent runtimes, containers, network, API keys of servers | start agent, ensure runtime, run session, four cleanups | Docker, the database | `AgentRuntime` |
| Findings: `finding_dedupe.py`, `agent_output.py`, stages in `routes.py`, validators and judgement in `orchestrator.py` | findings, evidence, attempts, triage decisions | ingest, sync of cards, validate, feed back, judge, write and verify PoCs | the database, agents | `FindingLifecycle` |
| Whiteboard: `whiteboard.py` | cards, tasks, notifications with leases, schedule requests, events, snapshot file | create, update, triage, request, decide, notify, poll | the database, an artifact file | `Whiteboard` |
| Knowledge base: `knowledge.py`, `kb-indexer` | rows of documents and chunks, files, points of a vector store | upload, reindex, search, delete | two stores and an embedding provider | `KnowledgeBase` |
| Reports and artifacts: `artifacts.py`, reports in `routes.py` | files, rows of reports and packages, artifact records | generate, package, download | the file system, the database | `ReportFiles` |
| Import and storage cleanup: `workspace.py`, `storage_cleanup.py` | project rows, snapshots, directories with their age | import from git or zip, clean up | the file system, the database | `ProjectImport` |
| Agent sessions: `agents/kimi-code-agent` | a lock, an agent process, recorded updates, posts | run a session, record an update, post | a child process, HTTP to the platform | `AgentSessions` |
| Static analysis: `tool_mcp.py`, `dependency_scanner.py`, `run_sca` in `routes.py` | dependency records, findings, output files of tools | detect, query OSV, replace rows, run semgrep, syft, CodeQL | files, HTTP, the database | `StaticAnalysis` |
| Sandboxes: PoC containers and target services in `orchestrator.py`, their routes and the PoC attempts in `routes.py` | containers, networks, their rows, PoC attempts and verdicts | run a PoC, run one for a finding, start a service or a compose file, clean up | Docker, the database | `Sandboxes` |
| Workers and repository of the split services: `workflow-worker/app`, `platform-common` | row with `status`, `pipeline_status`, `cancel_requested`; a transaction per execution | start, cancel, claim, stages, commit, failure | the database, the sandbox runner | `SplitPipeline` |
| Stage registry: `workflow-worker/app/pipeline/registry.py` | registered stages | `ordered` | called by the executor | `StageOrder` |
| HTTP guards, API keys, other MCP tools, readiness, agent packages, decompiler, code analysis, Web API's other routes, skeletons, Web UI | little or none | see section 6 | | not modelled |

What is hard in this code, and what therefore has to be right:

- **Many writers of one row.** In the platform every helper opens a session of
  its own, reads the `config` JSON, edits a copy and writes the whole column.
  Handlers, executor and recovery interleave between any two of these. A queued
  run must be claimed at most once per queueing, an execution must leave a
  final status, and a run must not be executed by two workers.
- **Check, then act.** `run_pipeline` decides on a status that it changes three
  transactions later; recovery decides on rows and heartbeats that it read
  earlier; agents look for a runtime or for a duplicate and then insert.
- **Crashes and stops.** A worker may die at every step. Recovery has to find
  its runs by a heartbeat that lags behind.
- **Cleanups among agents.** The containers of a run are taken away by failing
  agents, by the end of an execution, by timers and by requests, one container
  after the other, while other agents create theirs.
- **Several stores.** Rows, files, vectors and containers are changed one after
  the other; each change may fail, and a second call may come between.
- **One transaction for a whole execution.** In the split services nothing of
  an execution can be seen before it ends, the row stays locked meanwhile, and
  the session's identity map hides what others write.
- **Failure policies.** `FAIL_FAST`, `CONTINUE_WITH_WARNING` and `ALWAYS_RUN`
  interact with disabled stages, cancellation and the retain flag.

`PROJECT.json` lists each of these hazards at its line, with the properties
that cover it.

## 2. Modules

| module | contents |
|---|---|
| `RunLedger` | abstract specification of the queue: a queueing issues a ticket, a waiting run is taken, which uses the ticket, or withdrawn |
| `AuditRunLifecycle` | queue, worker, recovery and handlers of the platform service; implements `RunLedger` |
| `SplitPipeline` | the split services; implements `RunLedger` when there is one worker |
| `StageOrder` | `StageRegistry.ordered`, loop by loop |
| `AgentRuntime` | `start_agent_run` and the cleanups of one run |
| `FindingLifecycle` | the findings of one run through the pipeline |
| `KnowledgeBase`, `ReportFiles`, `ProjectImport`, `AgentSessions`, `StaticAnalysis`, `Whiteboard`, `Sandboxes` | one service each |
| `MCAuditRun`, `MCSplitPipeline`, `MCAgentRuntime`, `MCFindings` | the instances for TLC |
| `Services` | the seven services side by side, with what the proofs assume of their calls |
| `MCServices` | its instance for TLC, with the calls of `MCKnowledge`, `MCReports`, `MCImport`, `MCAnalysis`, `MCWhiteboard`, `MCSandboxes` |
| `AuditRunProofs`, `SplitProofs`, `StageOrderProofs`, `RuntimeProofs`, `FindingProofs`, `SessionProofs` | the theorems about `AuditRunLifecycle`, `SplitPipeline`, `StageOrder`, `AgentRuntime`, `FindingLifecycle` and `AgentSessions` |
| `ServiceProofs`, `BoardSandboxProofs` | the theorems about `Services`: imports, sessions and knowledge base; whiteboard and sandboxes |

### AuditRunLifecycle

State and code:

- `status[r]` is the column `status`; `config[r]` holds `pipeline_state.stage`,
  `runtime_control.cancel_requested` and `runtime_control.worker_id` of the
  column `config`. Every writer of `pipeline_state` pairs the same status with
  a given stage, so `StageStatus` computes it. `created` also stands for
  `starting`, `completed` for `completed_with_warnings`.
- `worker[w]` is the control point of `run_worker` and
  `PipelineExecutor.execute`. A final write is one of several `goal`s, each of
  which goes through the same steps `load`, `store`, `mark` in the order the
  code has: the summary, the status and the stage for `completed`; the status
  and the stage for `cancelled`; the stage and the status for `failed`.
- `call[c]` is the control point of a handler. A handler decides on the row it
  read at its start (`active`) and then goes through the same steps.
- `recovery[p]` is a pass of `recover_interrupted_pipelines`: it reads the
  heartbeats, reads the rows, decides, and commits.
- `heartbeat[w]` is the worker's row. It names the run that `run_worker` had
  when it was written, hence it lags. `fresh` says that it is within the time
  to live; it ages only if nobody renews it.
- `containers` is the set of runs with containers. Stage bodies and agents add
  to it; cleanups, and agents that fail, remove.
- `queuings`, `claims` and `intrusions` are history variables: nothing reads
  them. `intrusions[r]` counts the events that open the run to one more executor:
  a status written over a worker that has the run (`TakenAway`), a second request
  admitted before the first has queued it (`Admitted`), and an execution that
  raises after its final status (`RaisesLate`).

Granularity: one transaction is one step if it writes only columns it did not
read; a read followed by a write of `config` is two. `claim_next_queued_pipeline`
holds a row lock with `SKIP LOCKED`, so it is one step, and `MayBeLocked` lets
the query skip an older run while another claim holds it. SQLAlchemy issues no
`UPDATE` for an unchanged value; `StoreConfig` keeps that, because such a write
does not undo what others wrote. `FaultyDatabase` lets every call of the
database fail, each with the exception path the code has at that place
(`DatabaseFails`, `ExecuteRaises`, `LoopFails`, `CallFails`).

### SplitPipeline

A transaction is explicit: `worker[w].loaded` is the row in the identity map,
`status` the value the execution set, `lock[r]` the holder of the row lock. An
`UPDATE` writes the columns that differ from the loaded ones (`Update`). A
stage begins with a query, so `EnterBody` flushes `set_pipeline_state` and takes
the lock; `_refresh_cancel` returns the loaded row. The commit at the end writes
what `PipelineService.run` assigns. A handler's `UPDATE` and commit are one
step. The two loops of `PipelineExecutor.execute` are `next`/`body` and
`rest`/`again`. `current_stage` is left out, since every transaction that sets
it clears it before it commits.

### StageOrder

`Init` chooses the dependency graph; a step is the initial count, one turn of
the `while` loop, or the end. Names are numbers that compare as the strings do.

### AgentRuntime

One audit run. `call[a]` is a call of `start_agent_run`: it makes the network,
records the agent run, looks for an active runtime and reuses or makes one
(`ensure_agent_runtime`: row, MCP servers, runner, row again), and then works
in a session of the runtime or in a container of its own with sidecars. There
is a step for each await that changes or reads shared state. `sweep[p]` is a
`cleanup_run`, called by a cleaner or by the exception handler of a call; it
lists, removes container after container, then the network, the keys and the
rows. `cleanup_expired`, `reconcile_run_runtimes` and
`cleanup_inactive_agent_runtime` are the cleaner's kinds. `docker`, `network`,
`keys` and `runtime` are what exists. `disturbed` and `quiet` are history.
Docker may fail `MaxFaults` times for a reason the module does not have, and
always where the network or a container is missing; a failure that is not a
`DockerApiError`, and one of the database, ends a `cleanup_run` at the container
it has come to.

### FindingLifecycle

`findings` is the table, in the order of insertion. `tx[c]` is a call that
looks for duplicates and then commits: an agent's output, a listing (which
imports cards), the pipeline's own listings. The kind of its evidence and the
status of its finding are what the agent says (`Reported`), so that an agent may
attach evidence of a kind that counts as a PoC. `Triage` is the step of the
pipeline, and a `Retriage` is the one that `POST whiteboard/tasks/run` starts at
any time and any number of times, each of them a lookup and a commit that
overwrites earlier decisions. `sent` is history: the findings that some triage
has sent to the deep dive. `run.stage` follows
`PipelineExecutor.execute` from the triage of the swarm's cards to the
verification of PoCs; `attempts` are the tasks of `scale_validators` with their
semaphore, `work` the writers and verifiers, `judge` is `judge_audit_run`, which
a user may call at any time. The other stages of `execute` do not touch
findings. A batch of a feedback round has one task, which ends or raises, and then ends the execution.

### The seven services

They share no variable with one another: each works on tables and files of its
own, and none looks at another's. `Services` puts them side by side, so that one run
checks them and one specification is what the proofs are about: `service`
says which of them this behaviour is about, and the others do not begin. Each
takes its calls from a set `Scenarios`: a scenario is a sequence of calls with
the client that makes each; calls of one client follow one another, those of
different clients interleave at the awaits of the code.

- `KnowledgeBase`: `points` is the Qdrant collection, `chunks` and `status` the
  rows, `files` the artifact store. A call has a list of requests to do; a
  request may be refused (`KnowledgeIndexError`) or break, done or not done (an
  error of httpx, which the handlers do not catch); then the rows change in one
  transaction. `Starts` and `Window` are `chunk_text`.
- `ReportFiles`: a call is a list of jobs, each a change of a file or a
  transaction, after reading the findings and their evidence. `file[p]` is what
  was known when the file was written; `rows`, `reports` and `records` are what
  the database says of it. The two files of a report, and the three of a finding
  in the package, are one path.
- `ProjectImport`: `disk[k][p]` says how much of the upload, workspace,
  snapshot or runtime package of a project is there, `old` what is beyond its
  retention. The files of an import are written without a pause of the event
  loop, and so is the whole work of a cleanup on the disk; both are steps
  between accesses to the database. Every way in which an import may fail leaves
  its part of the files: an archive that is too large when unpacked, an address that
  cannot be parsed and a missing `git` among them.
- `AgentSessions`: `queue` is the lock, `client` the `RuntimeRecordingClient`,
  `posts` the posts in progress, each owned by a session or by the task of an
  update. The ACP library handles each notification in a task of its own.
- `StaticAnalysis`: a manifest is a sequence of lines by kind. Each reader is an
  operator from a file to packages, which strips versions as the code does (`Stripped`,
  `WithoutV`, tables over the versions of the instance); `ReadLine` is the loop of the readers that go
  line by line. Scans of one run interleave at the query and between deletion
  and commit. The tools of a sidecar run one at a time and have one file each.
- `Whiteboard`: a call loads rows in a transaction, records an event and fans it
  out to the subscriptions, commits, and writes the snapshot from the graph as
  its session sees it. `clock` orders the begin of transactions, because
  `created_at` is the time of the transaction. `snapshot` is the set of calls
  that the file shows.
- `Sandboxes`: `host` holds the settings and the runtimes the engine has, which
  decide how a container is isolated. `containers` and `network` are the engine's,
  `rows` and `networkRows` the tables. A call is at one request to the engine or
  one transaction at a time; a failure of it may come before or after the request
  took effect, and sends the call into the `finally` or `except` that encloses
  the place. The engine keeps a network with a running container, and refuses to
  start a container whose network is gone. `saw` is the maker of the network that
  a call found; `hit` and `met` are history: the requests that failed, and
  whether a cleanup began during the call.

## 3. Runs

| run | question | bounds | result |
|---|---|---|---|
| `LifecycleFaults` | do crashes, stops, recovery passes and failures of the database keep the ledger and strand no run? | 1 run, 1 mortal worker, 1 gateway, 2 requests to create or queue, one after the other, a database that fails at any call | no run is stranded but by a crash (`TypeOK`, `RunningHasExecutor`, `QueueKeepsLedger`) |
| `LifecycleOverlaps` | do two workers ever claim a queueing twice, and what makes them execute the same run? | 2 runs, 2 workers, 2 requests to queue or cancel that overlap, a stage that may fail | never twice (`ClaimsMatchQueuings`); only an intrusion, and each lets in one (`ExecutorsMatchIntrusions`) |
| `LifecycleProgress` | does a queued run end? | 1 run, a live worker with recovery, 3 requests to queue, cancel or validate | yes, but for a run that a cancel request leaves at `cancelling` (`QueuedRunEnds`) |
| `LifecycleRerun` | can a run that ended be run again? | 1 run, 1 worker, 1 request | **violated** |
| `SplitExecutions` | do the executor's rules hold under double claims, cancellations and crashes? | 1 run, 2 mortal workers, 3 requests, a stage of each policy, 2 of them may be disabled | yes (five invariants) |
| `SplitQueue` | does the lock-free claim keep the ledger for one worker, and does a queued run end? | 2 runs, 1 live worker, 3 requests | yes (`QueueKeepsLedger`, `QueuedRunEnds`) |
| `SplitRetain` | is the runtime of a failed run kept when asked for? | 1 run, 1 worker, 1 request | **violated** |
| `StageOrder` | is the order topological, and do errors fit the graph? | all graphs on 4 names and an unknown one | yes (`DependenciesFirst`, `OutcomeFits`, `Ends`) |
| `AgentRuntime` | which agents keep their servers, and what do cleanups leave? | 2 agents (a session and a container, one retained and long-running), 1 server, 1 cleaner of any kind, `MaxFaults` 1 | an agent that no cleanup met has its servers; a cleanup that no agent met leaves nothing; the cleanup of inactive containers spares agents |
| `FindingLifecycle` | where do duplicates come from, and do the stages build on what earlier ones established? | 1 card that is worth the deep dive or no longer, an output with a finding twice, with any of 2 statuses and with or without evidence that counts as a PoC, 2 outputs of feedback rounds, 1 post, 1 lister, 1 validator round, `MaxParallel` 1, `FeedbackRounds` 0, `MaxVerdicts` 1, 6 sets of stages and requests | `DuplicatesOverlap`, `LateAgentsBounded`, `PocChain`, `FeedbackPays`, `RunEnds` hold |
| `FindingValidated` | does a completed attempt stand for an agent that completed? | as before | **violated** |
| `Services` | do the stores of the seven services stay together? | see below | the fourteen invariants hold |

**Bounds of `Services`.** `KnowledgeBase`: documents of 4, 1 and no words with
windows of 3 that overlap by 1, `Limit` 2, seven sequences of three or four
calls, `MaxFaults` 3: enough for a refusal in a call, in its undo, and in the
call that repairs it. `ReportFiles`: 2 findings, four sequences, `MaxFaults` 1.
`ProjectImport`: 2 projects, six sequences of two imports and two cleanups,
`MaxFiles` 3, `MaxFaults` 2. `AgentSessions`: 2 sessions, `MaxEvents` 2,
`MaxFaults` 2: two updates make two posts that overlap, and a post that overlaps
the session's own. `StaticAnalysis`: all files in blocks of up to five lines,
three workspaces with every other kind of manifest for three scans, of which two
go on as a pipeline does, three with versions that stripping empties for two,
`MaxPackages` 3, `MaxFaults` 2. `Whiteboard`: 2 cards, eight sequences of up to nine calls, `Limit` 2, `MaxFailures` 1. `Sandboxes`: seven sequences of two or three
calls on one host, and one PoC of a finding, with and without its consent to weak
isolation, on six hosts, `MaxFaults` 2: a failure in a call and one in its undo.

**Why the bounds suffice.** Runs meet only in the claim's choice of the oldest
one and in the set a recovery pass collects, so one run shows all races on a
row, and two runs show the choice. A race of the row needs two processes of a
kind; a run that is queued again while the first execution has not ended needs
two requests; a run left at `cancelling` needs three, one that leaves containers,
one that queues and one that cancels. `Stages` is empty where the
number of stages does not matter (a stage adds another round of the same steps)
and holds the one stage that writes the config from its body where it may. Two
agents show every pair of a maker and a user of a runtime. A duplicate needs two
callers that overlap. The sizes of the sets and the bounds named above
(`MaxFaults`, `MaxFailures`, `MaxEvents`, `MaxVerdicts`) are the only bounds.

**What the properties except.** `ExecutorsMatchIntrusions` excludes nothing: it
bounds the executors of a run by the events that open it to another. TLC checks
those of overlapping requests and cancellations (a cancellation that finds no
container, `routes.py:1150-1158`, lets a run be queued again while a worker
executes it); the theorem covers also recovery passes, which can fail a run that
was just claimed, since no heartbeat names it yet, `create_audit_run`, and an
execution that raises after its final status. `QueuedRunEnds` excepts
`LeftCancelling`: a cancel request that comes before the claim and finds the
containers of an earlier run or validation marks the run `cancelling`,
`_should_finalize_cancel` (`routes.py:3009`) leaves the end to a worker, and no
worker claims a run at `cancelling`; only a later cancellation or recovery ends
it. `tests/test_pipeline_cancel.py:12` has the status as intended, so it is no
finding here. `LifecycleProgress` has no `create` request, since
`create_audit_run` can overwrite `queued` by `agent_completed` when its agent
ends late. In `SplitQueue` a queueing that is overwritten by the final commit of
an older execution counts as ended: the status is final, although nobody has
executed what was asked for. `RunLedger` lets a queueing be withdrawn by anyone,
so the ledger shows that none is used twice, and not that none is lost.
Properties with a history variable in their premise (`disturbed`, `quiet`, `raced`, `unsettled`,
`undercut`, `stuck`, `lost`, `late`, `met`, `hit`) say for which overlaps the code keeps
its promise, and for which it does not. Deadlock checking is off throughout: the
systems come to rest when all requests have been served.

**Fairness.** `FairSpec` of `AuditRunLifecycle` has weak fairness for the event
loop of each immortal worker, recovery pass included, and for the steps of a
handler that has begun: asyncio tasks that are ready are run, and the
database answers. No fairness is assumed of clients, crashes, stops, heartbeats
or gateways. `FairSpec` of `SplitPipeline` has weak fairness for each worker's
progress and for handlers' writes: the database grants a lock that stays free.
`FairSpec` of `FindingLifecycle` has weak fairness for the pipeline's own steps,
for calls that ingest or sync, for the attempts and for the agents of the PoC
stages, since each waits for an agent with a timeout (`_wait_for_acp_agent`, the
timeout of `run_agent_session`); none for users and listings. Weak fairness of
the attempts as a whole is enough, because an attempt that holds the semaphore
always goes on. `StageOrder` is a loop that runs. The other modules have no
liveness properties: their calls end because the lists of steps are finite.

## 4. What the violated runs show

- `LifecycleRerun`: the claim looks at `status`, which `run_pipeline` writes
  before `pipeline_state`. If the worker is faster, the late write leaves
  `queued` in an ended run; `is_active_pipeline` looks at both and refuses the
  run from then on.
- `SplitRetain`: the executor sets `running` before it runs the cleanup stage,
  which looks for `failed`.
- `FindingValidated`: `start_agent_run` returns a result also for a session or a
  container that failed; `run_validator_attempt` takes every return for a
  completed attempt and writes evidence that says so
  (`orchestrator.py:1580-1596`), and the rule of `_apply_judgement` confirms a
  finding with a completed attempt.

What else the models show, which no document contradicts:

- The triage runs before the first listing of findings imports the cards, so its
  decisions name no finding unless a user lists findings meanwhile or starts the
  triage again, and the gate of the PoC stage (`_filter_poc_allowed_findings`) then
  selects nothing.
- The verifiers take the findings with evidence of kind `poc-artifact` or
  `poc-plan`, which an agent that reports a finding may attach itself
  (`agent_output.py:310`), and a triage that is started again overwrites decisions
  on which a PoC rests (`routes.py:4259-4261`).
- A cancellation before the claim that finds containers of an earlier request
  leaves the run at `cancelling`.
- In a scan, a version of blanks, or `v` in a `composer.lock`, is empty once it is
  stripped (`tool_mcp.py:1346, 1370-1376`). Its package is left out of the query
  (`tool_mcp.py:494`) and not out of the list that the answers are paired with
  (`tool_mcp.py:512`), so that later packages get the answers of their neighbours.
- A notification may be claimed again by anyone at any time, and a request for help
  decided again.
- The feedback loop reads counts of the attempts' statuses; only failed attempts
  count as rejections. `scale_validators` sets judged findings back to
  `validating`, and a judgement without a verdict overwrites an earlier one.
- A session in a reused runtime gets those of its required servers that the
  runtime has, and no word about the others (`orchestrator.py:798`).
- A snapshot of the whiteboard may stay behind a change for as long as nobody
  writes again; events are ordered by the begin of their transactions, so a
  reader by cursor can miss those of open calls; approved tasks stay `queued`.
- A search request that breaks is not a `KnowledgeIndexError`, so a cleanup that
  is meant to be suppressed can raise (`routes.py:446`).
- A cleanup with retention 0 can take the files of an import whose row is not
  there yet. A crash, a timeout of git or an error of the disk leaves a project
  at `importing`, and a retry gets 409.
- Posts of updates that overlap duplicate rows and numbers in a transcript, and
  an update that comes after its prompt has ended goes to the next session's run.
- A scan whose tool failed still deletes the records of the earlier one; `/sca`
  adds its findings again at every call; a semgrep or CodeQL call that failed may
  name the file of an earlier one.
- A PoC whose image cannot be pulled, or whose network cannot be recorded, fails
  before the `try` of `run_poc_container` and leaves its network. Two services
  that look for the shared network at once may both use it although they asked
  for different policies. A service that fails marks the row of the shared
  network as cleaned although another one uses it. If the event after a PoC's
  verdict cannot be recorded, the attempt becomes failed while the finding stays
  confirmed.

## 5. Proofs

The theorems are about every value of the constants that the modules' assumptions
allow. TLC evaluates these in the runs; they type the constants, and beyond that say

- `ConstantsAssumption`, `SplitAssumption`: the stages are a finite sequence of
  names other than those `execute` writes itself; in the split services no stage
  is registered twice, and the policies are disjoint. Nothing about the number
  of runs, workers and requests.
- `StageOrderAssumption`: finitely many stages, with names that compare.
- `RuntimeAssumption`: every agent has a set of servers it requires, and `None` is
  neither an agent nor a status. Any number of agents, servers, cleaners and
  failures.
- `FindingAssumption`: the cards and the items of each output are finite
  sequences, the outputs of feedback rounds are outputs, the calls' names are
  distinct, there is a round of validators and a place in the semaphore.
- `AgentSessions` states no assumption; `Complete` has `0 \notin Sessions` as its
  hypothesis, because 0 is the body of a client that no session has begun (`None`
  in the code), and `AgentRunAssumption` of `Services` is the same. Any number of
  sessions, updates and faults.
- `KnowledgeAssumption`: calls are numbered from 1, an upload makes a document that no
  other call has made (its id is a `uuid4`), and windows have words. Documents of any
  length, windows and overlaps of any size, any sequences of calls.
  `ImportAssumption`: an import names a project. `BoardAssumption`: `CardWords` holds
  the words a status or a triage may be, and a row of a card is not `None`; a call
  that creates a card has an id of its own (`uuid4`), and a request names cards. `SandboxAssumption`: calls have numbers from 1, the
  kinds are the five that the module has, and a service has no network of its own
  (`_ensure_managed_run_network`). Any scenarios of any length, any clients, any
  bounds on failures.

`AuditRunProofs`:

- `TypeCorrect`. `TypeOK` is not inductive: a handler's or worker's local
  state must name a run whenever its control point uses one, and a stage's goal
  must fit its control point. `LocalInv` says so, and `TypeInv` is the
  conjunction. One step per action; a lemma per group of local updates.
- `ClaimedOncePerQueueing`. `claims[r] + Waiting(r) <= queuings[r]` is
  inductive given the types: only `CallMark` makes a run wait, and it counts;
  `Claim` moves one from waiting to claimed; a `MarkStatus` by another path
  only lowers the left side, and a recovery pass never writes `queued`.
- `LedgerImplemented`. Initial states map to initial states, and each action to
  `Enqueue`, `Take`, `Withdraw` or a stutter of `RunLedger`.
- `RunningIsExecuted`. `Executing` covers the control points from which the
  final status is still to be written; the proof follows each action that
  leaves them and shows that it wrote a status other than `running`, or that the
  process died there.
- `OneExecutor`, without a hypothesis beyond the module's assumption. A run has one
  place, which is taken by a worker that executes it (`Executors`), by a waiting
  queueing or by a request that has found the run inactive and not yet queued it
  (`Admitted`); `PlacesOf` says that these are together one more than the
  intrusions at most, and that a run which is not active, so that `run_pipeline`
  would admit a request, still has a place to give. Each action is first reduced
  to what it does to these numbers (`HandlerEffect`, `WorkerEffect`). A run into
  which nobody has intruded has one executor at most.

`SplitProofs`:

- `TypeCorrect`, with the invariant that a row's two columns agree, that local
  copies of a row do so as well, and that a worker in a stage holds the row
  lock.
- `OneExecutionAtATime` follows, since the lock has one holder; `ColumnsAgree`
  is part of the invariant. It has to hold for the stale copies too, since
  `Update` mixes columns of the current row and of a copy.
- `StoppedStages` and `CleanupStages`. `PlanInv` is what the loops know of the
  stages behind them: in the first loop no stage ahead is completed and every
  FAIL_FAST stage attempted is completed or the current one; in the second every
  ALWAYS_RUN stage behind has been attempted, and the current one is ALWAYS_RUN.
  It rests on the registry listing no stage twice.
- `SingleConsumerLedger`, for one worker (`\A v, w \in Workers : v = w`). The
  invariant is `ClaimedIsQueued`: between the read and the commit of a claim the
  row stays queued, since handlers only add to the queue. With two workers it
  fails at once, which is why the claim needs the lock that it does not take.

`StageOrderProofs`:

- `Dependencies` and `Outcomes`. The invariant is the one of Kahn's algorithm:
  a counter is the number of dependencies that are not in the order yet, and the
  stages with counter 0 are those in the order or in the queue (`Counts`); no
  stage is in both, or twice in one (`Lists`). When the queue is empty, the
  stages left each have a dependency among them, so they are a set as `Cyclic`
  asks for; conversely in a complete order the first member of such a set would
  have its dependency before it. `Sorted` is a choice of an increasing sequence,
  and `OrderExists` shows that there is one.

`RuntimeProofs`:

- `UndisturbedAgents`. The servers of an agent exist because each list of servers
  on the way to it is right, so the invariant follows the lists: what a call has
  waited for while it builds (`Built`), what the row of an active runtime says
  (`RuntimeInv`), what the caller found in it (`Found`) and what the agent uses
  (`Served`), each under the condition that no `cleanup_run` met the agent or the
  maker of its runtime. A step of a `cleanup_run` disturbs
  every agent at work and every maker of a runtime; only once it has marked the
  rows as cleaned are the makers trusted again. The cleanup of inactive containers
  disturbs nobody, because it takes away only containers with the label of an
  agent that is over, and `Shape` says that a runtime's servers have no such label.
- `SparedAgents`. `InactiveInv` keeps the rows that the cleanup has read true: an
  agent run that ended stays ended, and its call is at its exception handler or
  over (`RunStatus`), so a container that appears after the listing is not on the
  list, and one on the list has no agent.
- `CompleteCleanup`. `QuietInv` says what a quiet `cleanup_run` has done at each
  of its points; any step of an agent's call ends its quiet.
- `Types`.

`FindingProofs`:

- `Duplicates`. `RowsInv` adds what a call in progress knows (`Looked`): its new
  identities are distinct, and a row with one of them was inserted after the call
  looked, and not by the call. `RowSteps` reduces the actions to four: nobody adds
  a row, a call looks, a call commits, a user posts. `NewOfFacts` is what the
  recursive function `NewOf` makes of a payload, by induction on positions.
- `Types`: links, decisions, evidence, attempts and tasks are about findings that
  exist (`ReferencesInv`), because no row is ever deleted.
- `LateAgents`. `LateInv` counts: after the cancellation the agents started so far
  and the attempts that may still start one are together at most `MaxParallel`.
  The latter hold the semaphore and have passed the check before it, and no
  attempt passes that check any more.
- `Pocs`. `PocInv` follows the stages: each list of tasks is selected by the
  condition that the evidence has to meet afterwards, that the finding has been
  sent to the deep dive for the writers, and `HasPoc` for the verifiers, which is
  a PoC of a writer or evidence of such a kind from the agent that reported the
  finding. Both are things that once true stay true, so judgements, posts and
  another triage, which may take the decision back, change neither.
- `FeedbackRoundsPay`. `FeedbackInv` relates the number of rounds to the batches
  whose output has made a finding; during a round the current batch does not
  count, and its task's end is tied to the commit of its output.

`SessionProofs`, about `Spec` of `AgentSessions`:

- `UpdatesStay`. The invariant `Inv` says who has the lock (`Lock`: the first of
  the queue works, and from `begin_session` on the client is its own), whose each
  post is (`Owners`), and that what is recorded and not posted, what each post
  carries and each row are of the right run or late (`Content`). An update that
  is not late comes while its session has the lock, so the shared client posts it
  under the right run; a post keeps its run however late it returns.
- `Complete`. Nothing is lost (`Arrives`) because the flush of an update takes
  everything pending, so that an update is in a post from the moment it is
  recorded; this is inductive given `Inv`. Numbers are in order (`Numbered`) as
  long as posts do not meet: then there is at most one post, and it carries the
  one event that is recorded and not posted, or the error, with the next number;
  the client's number is the number of rows of its session (`SmoothInv`). A
  session that flushes while the last update is on its way would begin a second
  post, so it has nothing to flush (`NoPost`).
- `Types`.
- `WholeBegins`, `WholeNext` and `WholeShows` say the same of the initial states, the
  steps and the properties, for `ServiceProofs` to use.

`ServiceProofs`, about `Spec` of `Services`. Each invariant is stated for the service
at hand; a step of another service changes none of its variables.

- `TranscriptsAreComplete` and `UpdatesKeepTheirRun` carry over what `SessionProofs`
  shows.
- `ReferencesKept` and `ImportsComeToAnEnd`. `ImportInv` says whose the files are: from
  the row that says `importing` to the one that says `ready` a project has one call
  that imports it (`OneImportEach`), and how much of its files is there follows that
  call's point (`AtWork`). A cleanup decides on references that it read earlier; what
  it may then take is old, and old files exist (`OldFiles`), so that an import which
  began after the references were read has none of its files taken, except with
  retention 0.
- `StoresStayTogether`. `KnowInv` follows a document through the calls that write it.
  A call holds rows of its document only (`Holding`), and what it has done of its
  work is what its point says, as long as it is alone (`Done`): a reindexing has
  removed the points before it inserts its own, a deletion has removed them before
  it removes the rows. Until the upload of a document has committed, nobody else
  can name it (`Unborn`). So when the last writer was alone and has finished, both
  stores hold the chunks of one indexing (`Good`), and a status `failed` has a
  `Cause` (`Sound`); a deletion that has done nothing yet disturbs neither
  (`Looking`). A document that was deleted alone stays out of every store, and
  `Searching` carries that to the searches that began later. That the chunks have
  every word is `WindowsCover`: windows that begin a stride apart, a stride being no
  longer than a window, leave out no word of a text of any length.

`BoardSandboxProofs`, about the same:

- `SnapshotsLagOverlaps`. `Shown`: a commit that no writer overlaps is in every graph
  read since, and in no call's rows of before. It needs that what a call holds back is
  only what was committed after it began (`Controlled`), and that who overlaps a commit
  is noted at the commit (`Overlapped`).
- `NotificationsAgree`. `Counted` adds to the property that claims are counted from the
  first one, and for existing notifications only. A claim may name nobody, and then the
  claimant is the subscription's agent, which may be missing too (`Claimant`,
  `whiteboard.py:623`).
- `HelpStaysWorthwhile`. `Approved`: a decision that found its cards worth the work,
  and has not committed, finds them so still, or something took the value away
  meanwhile, which then overlaps it. It needs that cards a call has found stay
  (`Founded`), and that a card which comes into being has one maker (`CardsCreated`).
  `Asked` says the same of the tasks that earlier approvals left.
- `SandboxesKeepPromises`. `BoxInv` follows a call along the way back that its point
  implies. `Tidy`: what is still there of a PoC is what the points to come remove, or a
  step of the way back has failed. `Recorded`: while nothing failed and no cleanup came,
  the row says at each point what the engine has; a cleanup that has removed the
  container and not yet marked the row (`Swept`) is the only exception, and then the
  call is over. `Networks`: a network has the policy of the call that made it and stays
  while a container runs on it; `SawOwn`: a service goes on only with a network of its
  own policy; hence `IsolatedAsAsked`. `JudgedWell`: the attempt is at `running` and has
  no evidence until the verdict's transaction, which writes both. `Undisturbed`: the
  network of a PoC is the one that it made until the container is started.

Checked by TLC only:

- every liveness property (`QueuedRunEnds`, `Ends`, `RunEnds`, and the violated
  `EndedRunCanBeRerun`), because fairness and `ENABLED` are beyond the prover;
- the violated properties, of which TLC's counterexample is all there is to say;
- `TypeOK` of `Services`; the proofs about the services have the types they need among
  their invariants;
- `ArtifactsAreWhole`, `VulnerabilitiesAreDeclared` and `ResultsAreOwn`: they are about
  what a fold makes of a list (`FlattenSeq` of the jobs of a report, `FoldLeft` over
  the lines of a manifest and over packages that may be the same), which needs
  induction over data;
- `ReadersMissOnlyOpenCalls`, which is about sorted sequences of events (`SortSeq`,
  `SelectSeq`), for the same reason.

## 6. Not modelled

- Events, logs, the texts of errors, reasons, reports and prompts; times (a
  heartbeat's or a file's age is one bit); result quality.
- The early returns of `execute` for a run or workspace path that is missing:
  `run_pipeline` demands both. Stages of `execute` that leave findings alone are
  steps that succeed or raise. The source-sink stage is never enabled.
- Read-only handlers, authentication and access checks of the handlers that are
  modelled.
- The heartbeat of the split worker: nothing reads it for a decision.
- `AgentRuntime`: rows of `container_runs`, network policies (the network of a run
  with access outside included), agents that speak no ACP; of the database, only the
  failures that end a cleanup or the start of an agent. The database does not fail in `Whiteboard`
  but at a commit, and not at all in `StaticAnalysis`.
- `Whiteboard`: filters by keyword, topic and capability; `pending_gap_cards`,
  `task_attempt_count` and `create_task_for_gap`, which nothing calls.
- `KnowledgeBase`: listing and health; a request that Qdrant applies after the
  client gave up.
- `ReportFiles`: other artifact kinds, and the addresses of the deliverables,
  which have no entry in `_artifact_references` and answer 403.
- `ProjectImport`: several processes (the image starts one), and a request that
  lasts as long as a retention time.
- `AgentSessions`: the one-shot `acp_runner.main`, and the ACP library.
- `StaticAnalysis`: semgrep is assumed to write its file when it ends with 0 or 1.
- `FindingLifecycle`: the route by which a user runs a PoC of a finding and sets it
  to confirmed is in `Sandboxes`; that a finding was confirmed so plays no part in
  the stages.
- `Sandboxes`: mounts, ports, environments, resource limits and logs of
  containers; the expiry of services, whose cleanup is one of `AgentRuntime`;
  an engine that restarts.
- HTTP guards: a window and a count per key, changed in one synchronous call.
  API keys: one lookup. The other MCP tools: they dispatch to HTTP, read files
  and check commands, without state. Agent packages, readiness, decompiler
  and code analysis: calls of other programs. The Docker client is part of the
  steps of its callers. The Web API's other
  routes: single-row reads and writes. Sandbox runner, agent gateway and
  workspace engine of the split services: skeletons with fixed answers.
- The Web UI: a refresh that is overtaken by a later one is applied last
  (`useDashboardRefresh.ts:44`); React's state has no model here.

## 7. Plan

1. Proofs about the remaining services: `PackageIsWhole` of `ReportFiles` once its
   jobs are given without a fold.
2. Abstract specifications of the services: a transcript as a sequence that
   grows, a document that is searchable or not.
3. The composition of `AgentRuntime` with the executor's terminal cleanup and a
   second execution of the run.
