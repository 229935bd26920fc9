---------------------------- MODULE AgentRuntime ----------------------------
(***************************************************************************)
(* The runtime orchestrator of the platform service: how the agents of one *)
(* audit run get their containers, and how four kinds of cleanup take them *)
(* away (services/platform/app/runtime/orchestrator.py).                   *)
(*                                                                         *)
(* An agent a is one call of start_agent_run; a is also the agent_run_id   *)
(* and, if the call makes a runtime of its own, the runtime_id: both are   *)
(* fresh UUIDs in the code.  A cleaner is one call of a cleanup.  Between  *)
(* two steps of a call there is an await.                                  *)
(***************************************************************************)
EXTENDS Naturals, Sequences, FiniteSets

CONSTANTS
    Agents,         \* calls of start_agent_run
    Kimi,           \* agents of the runtime "kimi"; the others are ACP agents of another name
    Tools,          \* HTTP MCP servers
    Requires,       \* Requires[a] \subseteq Tools: what _agent_required_mcp returns
    Retained,       \* agents started with retain_runtime_on_failure
    LongRunning,    \* agents whose input may ask for a long-running container
    Cleaners,       \* calls of a cleanup
    CleanerKinds,   \* the kinds of cleanup they may be, a subset of Kinds
    MaxFaults,      \* bound: how many calls of Docker, or writes of its marks, may fail
    None

Kinds == {"cleanup", "expired", "reconcile", "inactive"}

ASSUME RuntimeAssumption ==
    /\ Requires \in [Agents -> SUBSET Tools] /\ CleanerKinds \subseteq Kinds
    /\ MaxFaults \in Nat
    /\ None \notin Agents /\ None \notin {"starting", "running", "completed", "failed"}

\* A container by its labels: an MCP server or the runner of a runtime (no label
\* dieaudit.agent_run_id), an MCP sidecar or the container of an agent.
Container == [kind : {"mcp", "sidecar"}, of : Agents, tool : Tools]
               \cup [kind : {"runner", "agent"}, of : Agents, tool : {None}]

Mcp(a, m) == [kind |-> "mcp", of |-> a, tool |-> m]
Sidecar(a, m) == [kind |-> "sidecar", of |-> a, tool |-> m]
Runner(a) == [kind |-> "runner", of |-> a, tool |-> None]
AgentContainer(a) == [kind |-> "agent", of |-> a, tool |-> None]

HasAgentLabel(c) == c.kind \in {"sidecar", "agent"}

VARIABLES
    docker,      \* the containers of the run that Docker has
    network,     \* whether the network of the run exists
    keys,        \* active API keys of MCP servers: the containers they were made for
    rows,        \* rows of agent_runtimes in the order of their creation
    runtime,     \* runtime[a]: the columns of the row a
    agentRun,    \* agentRun[a]: the status of the row of agent_runs
    call,        \* call[a]: control point and locals of start_agent_run
    sweep,       \* sweep[p]: control point and locals of a cleanup by a cleaner or by a
                 \* call of start_agent_run that failed
    faults,      \* the number of them that failed
    disturbed    \* history: agents that a cleanup_run met at work, and makers of the
                 \* runtimes that it has not yet marked as cleaned

vars == <<docker, network, keys, rows, runtime, agentRun, call, sweep, faults, disturbed>>

NoRuntime == [id |-> None, tools |-> {}, endpoint |-> FALSE]

StartPoints == {"record", "lookup", "reuse", "insert", "create", "wait", "createRunner",
                "waitRunner", "finish", "reread", "inSession", "createSidecar", "waitSidecar",
                "startAgent", "listen", "waitAgent", "raise"}
SweepPoints == {"list", "remove", "network", "keys", "rows", "listInactive", "removeInactive"}

TypeOK ==
    /\ docker \subseteq Container /\ keys \subseteq Container
    /\ network \in BOOLEAN
    /\ rows \in Seq(Agents)
    /\ runtime \in [Agents -> [status : {None, "starting", "running", "cleaned"}, cleaned : BOOLEAN,
                               tools : SUBSET Container, endpoint : BOOLEAN]]
    /\ agentRun \in [Agents -> {None, "starting", "running", "completed", "failed"}]
    /\ call \in [Agents -> [pc : StartPoints \cup {"idle", "ended"},
                            runtime : [id : Agents \cup {None}, tools : SUBSET Container,
                                       endpoint : BOOLEAN],
                            todo : SUBSET Tools, tools : SUBSET Container]]
    /\ sweep \in [Agents \cup Cleaners -> [pc : SweepPoints \cup {"idle", "ended"},
                                           left : SUBSET Container, terminal : SUBSET Agents,
                                           again : Nat, quiet : BOOLEAN]]
    /\ faults \in 0..MaxFaults /\ disturbed \subseteq Agents

Init ==
    /\ docker = {} /\ keys = {} /\ rows = <<>> /\ network = FALSE /\ faults = 0 /\ disturbed = {}
    /\ runtime = [a \in Agents |-> [status |-> None, cleaned |-> FALSE, tools |-> {}, endpoint |-> FALSE]]
    /\ agentRun = [a \in Agents |-> None]
    /\ call = [a \in Agents |-> [pc |-> "idle", runtime |-> NoRuntime, todo |-> {}, tools |-> {}]]
    /\ sweep = [p \in Agents \cup Cleaners |->
                  [pc |-> "idle", left |-> {}, terminal |-> {}, again |-> 0, quiet |-> FALSE]]

\* The call has begun, and has neither ended nor come to its own cleanup.
AtWork(a) == call[a].pc \in StartPoints

-----------------------------------------------------------------------------
(* Helpers of start_agent_run *)

At(a, pc) == call[a].pc = pc

\* A step of a call disturbs the quiet of the cleanups that are under way.
Noise == sweep' = [p \in DOMAIN sweep |-> [sweep[p] EXCEPT !.quiet = FALSE]]

Go(a, pc) == call' = [call EXCEPT ![a].pc = pc] /\ Noise

\* A call of Docker fails, for a reason that this module has (the condition) or
\* has not, and the call goes on to the exception handler.
DockerFails(reason) == IF reason THEN UNCHANGED faults ELSE faults < MaxFaults /\ faults' = faults + 1

Raise(a, reason) == DockerFails(reason) /\ Go(a, "raise")

\* _container_payload, create_container and start_container.  Without the
\* network the start fails, and the container that was created stays.
CreateContainer(a, c, next) ==
    \/ /\ network
       /\ docker' = docker \cup {c} /\ Go(a, next)
       /\ UNCHANGED faults
    \/ docker' \in {docker, docker \cup {c}} /\ Raise(a, ~network)

\* The next server that the agent needs, and the point after it.
NextTool(a) == CHOOSE m \in call[a].todo : TRUE
More(a, again, after) == IF call[a].todo \ {NextTool(a)} = {} THEN after ELSE again

\* An MCP server of a runtime or a sidecar: _mcp_env makes its API key, and then
\* the container is made.
CreateServer(a, c, next) ==
    /\ keys' = keys \cup {c}
    /\ CreateContainer(a, c, next)

\* _wait_for_http_endpoint polls a host until its timeout.
WaitForServer(a, c, next) ==
    \/ /\ c \in docker
       /\ call' = [call EXCEPT ![a].pc = next, ![a].todo = @ \ {c.tool}, ![a].tools = @ \cup {c}]
       /\ Noise
       /\ UNCHANGED faults
    \/ Raise(a, c \notin docker)

\* Mutant: a runtime counts as active although a cleanup took it away.
IsRow(a) == runtime[a].status # None

\* _active_agent_runtime: the newest row that is active.
IsActiveRow(a) == runtime[a].status \in {"starting", "running"} /\ ~runtime[a].cleaned

ActiveRuntime ==
    LET active == {i \in DOMAIN rows : IsActiveRow(rows[i])}
    IN  IF active = {} THEN None ELSE rows[CHOOSE i \in active : \A j \in active : j <= i]

\* _agent_runtime_dict: what the caller gets to see of the row.
Snapshot(a) == IF a = None THEN NoRuntime
               ELSE [id |-> a, tools |-> runtime[a].tools, endpoint |-> runtime[a].endpoint]

-----------------------------------------------------------------------------
(* start_agent_run, up to the runtime *)

\* The network of the run is made, if it does not exist, and recorded.  When that
\* fails the call raises: it has no row yet and no exception handler.
Connect(a) ==
    /\ At(a, "idle")
    /\ \/ network' = TRUE /\ Go(a, "record") /\ UNCHANGED faults
       \/ network' \in {network, TRUE} /\ Go(a, "ended") /\ DockerFails(FALSE)
    /\ UNCHANGED <<docker, keys, rows, runtime, agentRun, disturbed>>

\* The row of the agent run; and ensure_agent_runtime makes sure of the network
\* again.
RecordAgentRun(a) ==
    /\ At(a, "record")
    /\ agentRun' = [agentRun EXCEPT ![a] = "starting"]
    /\ \/ network' = TRUE /\ Go(a, "lookup") /\ UNCHANGED faults
       \/ network' \in {network, TRUE} /\ Raise(a, FALSE)
    /\ UNCHANGED <<docker, keys, rows, runtime, disturbed>>

LookUpRuntime(a) ==
    /\ At(a, "lookup")
    /\ call' = [call EXCEPT ![a].pc = IF ActiveRuntime = None THEN "insert" ELSE "reuse",
                            ![a].runtime = Snapshot(ActiveRuntime)]
    /\ Noise
    /\ UNCHANGED <<docker, network, keys, rows, runtime, agentRun, disturbed, faults>>

\* What start_agent_run does with the runtime rt: run_agent_session passes those
\* of the required servers that the runtime has; without a session each of the
\* others gets a sidecar.
Serve(a, rt) ==
    LET found == {c \in rt.tools : c.tool \in Requires[a]}
        missing == Requires[a] \ {c.tool : c \in found}
        inSession == a \in Kimi /\ rt.endpoint
    IN  /\ call' = [call EXCEPT ![a] =
              [runtime |-> rt, tools |-> found, todo |-> IF inSession THEN {} ELSE missing,
               pc |-> IF inSession THEN "inSession" ELSE IF missing = {} THEN "startAgent" ELSE "createSidecar"]]
        /\ Noise

\* The row found is marked as running, although its maker may not be done, and
\* although a cleanup may have come between; the caller gets the row it read.
ReuseRuntime(a) ==
    /\ At(a, "reuse")
    /\ runtime' = [runtime EXCEPT ![call[a].runtime.id].status = "running"]
    /\ Serve(a, call[a].runtime)
    /\ UNCHANGED <<docker, network, keys, rows, agentRun, disturbed, faults>>

\* After the servers: a runner for "kimi", else the runtime is complete.
RunnerPoint(a) == IF a \in Kimi THEN "createRunner" ELSE "finish"

InsertRuntime(a) ==
    /\ At(a, "insert")
    /\ rows' = Append(rows, a)
    /\ runtime' = [runtime EXCEPT ![a].status = "starting"]
    /\ call' = [call EXCEPT ![a].pc = IF Requires[a] = {} THEN RunnerPoint(a) ELSE "create",
                            ![a].todo = Requires[a]]
    /\ Noise
    /\ UNCHANGED <<docker, network, keys, agentRun, disturbed, faults>>

\* _ensure_runtime_mcp, one server after the other.
CreateMcp(a) ==
    /\ At(a, "create")
    /\ CreateServer(a, Mcp(a, NextTool(a)), "wait")
    /\ UNCHANGED <<network, rows, runtime, agentRun, disturbed>>

WaitMcp(a) ==
    /\ At(a, "wait")
    /\ WaitForServer(a, Mcp(a, NextTool(a)), More(a, "create", RunnerPoint(a)))
    /\ UNCHANGED <<docker, network, keys, rows, runtime, agentRun, disturbed>>

\* _start_agent_runtime_runner: a server for sessions.
CreateRunner(a) ==
    /\ At(a, "createRunner")
    /\ CreateContainer(a, Runner(a), "waitRunner")
    /\ UNCHANGED <<network, keys, rows, runtime, agentRun, disturbed>>

WaitRunner(a) ==
    /\ At(a, "waitRunner")
    /\ \/ Runner(a) \in docker /\ Go(a, "finish") /\ UNCHANGED faults
       \/ Raise(a, Runner(a) \notin docker)
    /\ UNCHANGED <<docker, network, keys, rows, runtime, agentRun, disturbed>>

\* The row becomes running and pending, also when a cleanup has marked it as
\* cleaned.
FinishRuntime(a) ==
    /\ At(a, "finish")
    /\ runtime' = [runtime EXCEPT ![a] = [status |-> "running", cleaned |-> FALSE,
                                          tools |-> call[a].tools, endpoint |-> a \in Kimi]]
    /\ Go(a, "reread")
    /\ UNCHANGED <<docker, network, keys, rows, agentRun, disturbed, faults>>

\* The caller gets the newest active row, which may be the row of another.
RereadRuntime(a) ==
    /\ At(a, "reread")
    /\ Serve(a, IF ActiveRuntime = None THEN [id |-> a, tools |-> call[a].tools, endpoint |-> FALSE]
                ELSE Snapshot(ActiveRuntime))
    /\ UNCHANGED <<docker, network, keys, rows, runtime, agentRun, disturbed, faults>>

-----------------------------------------------------------------------------
(* start_agent_run, with the runtime *)

\* run_agent_session posts the session to the runner and records its result.
EndSession(a) ==
    /\ At(a, "inSession")
    /\ \/ /\ Runner(call[a].runtime.id) \in docker
          /\ \E status \in {"completed", "failed"} : agentRun' = [agentRun EXCEPT ![a] = status]
          /\ Go(a, "ended")
          /\ UNCHANGED faults
       \/ /\ agentRun' = [agentRun EXCEPT ![a] = "failed"]
          /\ Raise(a, Runner(call[a].runtime.id) \notin docker)
    /\ UNCHANGED <<docker, network, keys, rows, runtime, disturbed>>

\* _start_mcp, one sidecar after the other.
CreateSidecar(a) ==
    /\ At(a, "createSidecar")
    /\ CreateServer(a, Sidecar(a, NextTool(a)), "waitSidecar")
    /\ UNCHANGED <<network, rows, runtime, agentRun, disturbed>>

WaitSidecar(a) ==
    /\ At(a, "waitSidecar")
    /\ WaitForServer(a, Sidecar(a, NextTool(a)), More(a, "createSidecar", "startAgent"))
    /\ UNCHANGED <<docker, network, keys, rows, runtime, agentRun, disturbed>>

\* _start_agent; a long-running container is not waited for.
StartAgent(a) ==
    /\ At(a, "startAgent")
    /\ \E next \in {"waitAgent"} \cup IF a \in LongRunning THEN {"listen"} ELSE {} :
         CreateContainer(a, AgentContainer(a), next)
    /\ UNCHANGED <<network, keys, rows, runtime, agentRun, disturbed>>

Listen(a) ==
    /\ At(a, "listen")
    /\ agentRun' = [agentRun EXCEPT ![a] = "running"]
    /\ Go(a, "ended")
    /\ UNCHANGED <<docker, network, keys, rows, runtime, disturbed, faults>>

\* _wait_for_acp_agent turns a timeout and a failing Docker into a result, and
\* the result file may say that the agent is done although its container failed.
WaitAgent(a) ==
    /\ At(a, "waitAgent")
    /\ \E status \in {"completed", "failed"} : agentRun' = [agentRun EXCEPT ![a] = status]
    /\ Go(a, "ended")
    /\ UNCHANGED <<docker, network, keys, rows, runtime, disturbed, faults>>

\* The exception handler: the agent run has failed, and unless the caller wants
\* to keep it the whole run is cleaned up, other agents or not.
HandleException(a) ==
    /\ At(a, "raise")
    /\ agentRun' = [agentRun EXCEPT ![a] = "failed"]
    /\ call' = [call EXCEPT ![a].pc = "ended"]
    /\ sweep' = IF a \in Retained THEN sweep ELSE [sweep EXCEPT ![a].pc = "list"]
    /\ UNCHANGED <<docker, network, keys, rows, runtime, disturbed, faults>>

-----------------------------------------------------------------------------
(* cleanup_run and the other cleanups *)

InSweep(p, pc) == sweep[p].pc = pc

\* What a cleanup_run meets at work, or has begun to take away.
Disturb == disturbed' = disturbed \cup {a \in Agents : AtWork(a) \/ \E i \in DOMAIN rows : rows[i] = a}

\* Mutant: whatever is not active when the rows are read.
AgentsNotActive == {a \in Agents : agentRun[a] \notin {"starting", "running"}}

\* The agents that cleanup_inactive_agent_runtime takes to have ended.
TerminalAgents == {a \in Agents : agentRun[a] \in {"completed", "failed"}}

\* Mutant: only the containers that carry the label of an agent.
ContainersOfAgents == {c \in docker : HasAgentLabel(c)}

\* list_containers_by_run: by the label dieaudit.audit_run_id, which all have.
ContainersOfRun == docker

\* Mutant: one call too many for nothing.
AgainUnchecked(due) == Cardinality(due) - 1

\* How many calls of cleanup_run follow the first one for the rows that are due.
Again(due) == IF due = {} THEN 0 ELSE Cardinality(due) - 1

\* cleanup_run is called by a request, by cleanup_expired_runtime, which looks
\* for what Docker has, and by reconcile_run_runtimes, once for every row that is
\* due: expired, or of a run that is gone or over.
BeginCleanup(q) ==
    /\ InSweep(q, "idle")
    /\ \/ /\ \/ "cleanup" \in CleanerKinds
             \/ "expired" \in CleanerKinds /\ (docker # {} \/ network)
          /\ sweep' = [sweep EXCEPT ![q].pc = "list"]
       \/ /\ "reconcile" \in CleanerKinds
          /\ \E due \in SUBSET {i \in DOMAIN rows : ~runtime[rows[i]].cleaned} :
               sweep' = [sweep EXCEPT ![q].pc = IF due = {} THEN "ended" ELSE "list",
                                      ![q].again = Again(due)]
       \/ /\ "inactive" \in CleanerKinds
          /\ sweep' = [sweep EXCEPT ![q].pc = IF TerminalAgents = {} THEN "ended" ELSE "listInactive",
                                    ![q].terminal = TerminalAgents]
    /\ UNCHANGED <<docker, network, keys, rows, runtime, agentRun, call, disturbed, faults>>

ListContainers(p) ==
    /\ InSweep(p, "list")
    /\ \/ /\ sweep' = [sweep EXCEPT ![p] = [@ EXCEPT !.pc = "remove", !.left = ContainersOfRun,
                                             !.quiet = \A a \in Agents : ~AtWork(a)]]
          /\ Disturb
          /\ UNCHANGED faults
       \/ /\ DockerFails(FALSE)
          /\ sweep' = [sweep EXCEPT ![p].pc = "ended"]
          /\ UNCHANGED disturbed
    /\ UNCHANGED <<docker, network, keys, rows, runtime, agentRun, call>>

\* Exit code and log are taken, the container is removed and marked as removed;
\* the client ignores that Docker refuses to remove it.  When Docker does not answer,
\* or the mark fails, the cleanup raises and leaves the rest.
RemoveContainer(p, c) ==
    /\ \/ /\ docker' = docker \ {c}
          /\ sweep' = [sweep EXCEPT ![p].left = @ \ {c}]
          /\ UNCHANGED faults
       \/ /\ DockerFails(FALSE)
          /\ sweep' = [sweep EXCEPT ![p].left = @ \ {c}, ![p].quiet = FALSE]
          /\ UNCHANGED docker
       \/ /\ DockerFails(FALSE)
          /\ sweep' = [sweep EXCEPT ![p].pc = "ended"]
          /\ docker' \in {docker, docker \ {c}}
    /\ UNCHANGED <<network, keys, rows, runtime, agentRun, call>>

Remove(p) ==
    /\ InSweep(p, "remove")
    /\ sweep[p].left # {} /\ RemoveContainer(p, CHOOSE c \in sweep[p].left : TRUE)
    /\ Disturb

\* Docker does not remove a network that a container is attached to; the client
\* ignores that too.
RemoveNetwork(p) ==
    /\ InSweep(p, "remove") /\ sweep[p].left = {}
    /\ \/ /\ network' = (network /\ docker # {})
          /\ sweep' = [sweep EXCEPT ![p].pc = "keys"]
          /\ UNCHANGED faults
       \/ /\ DockerFails(FALSE)
          /\ sweep' = [sweep EXCEPT ![p].pc = "keys", ![p].quiet = FALSE]
          /\ UNCHANGED network
       \/ /\ DockerFails(FALSE)
          /\ sweep' = [sweep EXCEPT ![p].pc = "ended"]
          /\ network' \in {network, network /\ docker # {}}
    /\ Disturb
    /\ UNCHANGED <<docker, keys, rows, runtime, agentRun, call>>

DeactivateKeys(p) ==
    /\ InSweep(p, "keys")
    /\ keys' = {}
    /\ sweep' = [sweep EXCEPT ![p].pc = "rows"]
    /\ Disturb
    /\ UNCHANGED <<docker, network, rows, runtime, agentRun, call, faults>>

\* _mark_agent_runtimes_cleaned; a reconciliation goes on with the next row it
\* had found.
MarkCleaned(p) ==
    /\ InSweep(p, "rows")
    /\ runtime' = [a \in Agents |-> IF \E i \in DOMAIN rows : rows[i] = a
                                    THEN [runtime[a] EXCEPT !.status = "cleaned", !.cleaned = TRUE]
                                    ELSE runtime[a]]
    /\ disturbed' = (disturbed \ {a \in Agents : ~AtWork(a)}) \cup {a \in Agents : AtWork(a)}
    /\ sweep' = [sweep EXCEPT ![p].pc = IF sweep[p].again = 0 THEN "ended" ELSE "list",
                              ![p].again = IF @ = 0 THEN 0 ELSE @ - 1]
    /\ UNCHANGED <<docker, network, keys, rows, agentRun, call, faults>>

\* cleanup_inactive_agent_runtime removes, of the containers that Docker has by
\* now, those with the label of an agent that had ended when it read the rows.
ListInactive(q) ==
    /\ InSweep(q, "listInactive")
    /\ sweep' = [sweep EXCEPT ![q].pc = "removeInactive",
                              ![q].left = {c \in docker : HasAgentLabel(c) /\ c.of \in sweep[q].terminal}]
    /\ UNCHANGED <<docker, network, keys, rows, runtime, agentRun, call, disturbed, faults>>

RemoveInactive(q) ==
    /\ InSweep(q, "removeInactive")
    /\ sweep[q].left # {} /\ RemoveContainer(q, CHOOSE c \in sweep[q].left : TRUE)
    /\ UNCHANGED disturbed

-----------------------------------------------------------------------------
(* Specification *)

Step(a) ==
    \/ Connect(a) \/ RecordAgentRun(a) \/ LookUpRuntime(a) \/ ReuseRuntime(a)
    \/ InsertRuntime(a) \/ CreateMcp(a) \/ WaitMcp(a) \/ CreateRunner(a)
    \/ WaitRunner(a) \/ FinishRuntime(a) \/ RereadRuntime(a) \/ EndSession(a) \/ CreateSidecar(a) \/ WaitSidecar(a) \/ StartAgent(a)
    \/ Listen(a) \/ WaitAgent(a) \/ HandleException(a)

SweepStep(p) ==
    \/ ListContainers(p) \/ Remove(p) \/ RemoveNetwork(p) \/ DeactivateKeys(p) \/ MarkCleaned(p)

Next ==
    \/ \E a \in Agents : Step(a)
    \/ \E p \in Agents \cup Cleaners : SweepStep(p)
    \/ \E q \in Cleaners : BeginCleanup(q) \/ ListInactive(q) \/ RemoveInactive(q)

Spec == Init /\ [][Next]_vars

-----------------------------------------------------------------------------
(* Properties *)

\* A cleanup_run that no call of start_agent_run overlaps, and to which Docker
\* refuses nothing, leaves no container, no network, no active key and no
\* active runtime of the run, whatever failed before it.
QuietCleanupIsComplete ==
    [][\A p \in Agents \cup Cleaners :
         InSweep(p, "rows") /\ sweep[p].quiet /\ MarkCleaned(p)
           => /\ docker' = {} /\ ~network' /\ keys' = {}
              /\ \A i \in DOMAIN rows : runtime'[rows[i]].cleaned]_vars

\* An agent at its task has the servers it was told of, with their API keys,
\* and a session has its runner, unless a cleanup_run came between: after the
\* agent began, while the maker of its runtime was at work, or a cleanup_run
\* that has not marked that runtime as cleaned.  Hence a cleanup that came to its end
\* leaves no runtime that a later agent would take for a live one.
UndisturbedAgentHasServers ==
    \A a \in Agents :
        /\ call[a].pc \in {"inSession", "startAgent", "waitAgent", "listen"}
        /\ {a, call[a].runtime.id} \cap disturbed = {}
        => /\ call[a].tools \subseteq docker \cap keys
           /\ At(a, "inSession") => Runner(call[a].runtime.id) \in docker

\* cleanup_inactive_agent_runtime decides on rows it read before it listed the
\* containers, but it never removes those of an agent at work or of one that
\* goes on running after its call.
InactiveCleanupSparesAgents ==
    [][\A q \in Cleaners : RemoveInactive(q)
         => \A c \in docker \ docker' :
               HasAgentLabel(c) /\ ~AtWork(c.of) /\ agentRun[c.of] # "running"]_vars
=============================================================================
