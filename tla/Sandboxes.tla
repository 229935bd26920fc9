----------------------------- MODULE Sandboxes -----------------------------
(***************************************************************************)
(* The sandboxes of one audit run: run_poc_container,                      *)
(* start_sandbox_service and the cleanup of                                *)
(* services/platform/app/runtime/orchestrator.py, the handlers of          *)
(* api/routes.py that call them, and what they do with the Docker engine   *)
(* and the rows.                                                           *)
(*                                                                         *)
(* A PoC runs in a container on a network of its own, or on one that       *)
(* exists, and ends; a service stays, on a network that all services of    *)
(* the run share.  Call c has container c, and its PoC network is <<c>>. A *)
(* PoC of a finding also records an attempt, evidence and a verdict, for   *)
(* one finding.                                                            *)
(***************************************************************************)
EXTENDS Naturals, Sequences, FiniteSets

CONSTANTS
    Scenarios,   \* host (settings and engine), and a sequence of calls with the client that makes each
    MaxFaults    \* bound: requests to the engine and transactions that fail

CallIds == UNION {DOMAIN s.calls : s \in Scenarios}
Shared == <<0>>   \* the network of the services
NetworkNames == {Shared} \cup {<<c>> : c \in CallIds}

VARIABLES
    host,         \* settings of the platform and runtimes of the engine
    do,           \* do[c]: who makes call c, its kind and its arguments
    call,         \* call[c]: control point and locals
    containers,   \* containers[c]: state of the container of c, and the maker of its network
    network,      \* network[n]: the call that made the network (0: there is none) and its policy
    rows,         \* status of the rows of ContainerRun
    networkRows,  \* status of the rows of RuntimeNetwork
    attempts,     \* status of the rows of ValidationAttempt
    evidence,     \* rows of Evidence
    finding,      \* status of the finding
    faults        \* failures so far

vars == <<host, do, call, containers, network, rows, networkRows, attempts, evidence, finding, faults>>
engine == <<containers, network>>
tables == <<rows, networkRows, attempts, evidence, finding>>

Live == DOMAIN do
Ended(c) == call[c].pc \in {"idle", "answered", "failed"}
IsService(c) == do[c].kind \in {"service", "compose"}
IsPoc(c) == do[c].kind \in {"poc", "finding"}
Sweeping == \E c \in Live : do[c].kind = "cleanup" /\ ~Ended(c)

\* The network a call works on.
NetworkOf(c) == IF do[c].own THEN <<c>> ELSE Shared
Exists(n) == network[n].by # 0

TypeOK ==
    /\ \A c \in Live :
          /\ call[c].raised \in {"no", "failed", "unavailable"}
          /\ containers[c].state \in {"none", "created", "running", "exited"}
          /\ rows[c] \in {"none", "created", "starting", "running", "completed", "failed", "timeout", "removed"}
          /\ attempts[c] \in {"none", "running", "completed", "failed", "unavailable"}
    /\ \A n \in NetworkNames : network[n].by \in {0} \cup Live
    /\ \A n \in NetworkNames : networkRows[n] \in {"none", "created", "reused", "cleaned"}
    /\ \A n \in NetworkNames : networkRows[n] = "reused" => n = Shared
    /\ finding \in {"open", "confirmed"}

-----------------------------------------------------------------------------
(* What the host allows *)

\* sandbox_capabilities
Requested == IF host.gvisor THEN "runsc" ELSE host.configured
RuntimeAvailable == host.up /\ (Requested \in host.runtimes \/ Requested = host.default)
Available == RuntimeAvailable /\ (Requested # "runc" \/ host.allowRunc)

\* _require_sandbox_execution: a call may accept the isolation of runc.
MayExecute(weak) == Available \/ (Requested = "runc" /\ weak /\ RuntimeAvailable)

\* The payload names a runtime only if it is not runc; else the engine takes its default.
Runtime == IF Requested # "runc" THEN Requested ELSE host.default

\* _is_sandbox_unavailable_error: every reason of sandbox_capabilities is one, but not
\* the text of an engine that cannot be reached.
Refusal == IF host.up THEN "unavailable" ELSE "failed"

\* _sandbox_compose_to_service_request takes a stack of one service, without keys and
\* volumes that lead out of the sandbox, with an image, a command and a port.
AcceptsCompose(stack) ==
    /\ stack.services = 1 /\ stack.named \in {"none", "known"}
    /\ stack.safe /\ stack.image /\ stack.command /\ stack.port

-----------------------------------------------------------------------------
NewCall == [pc |-> "idle", made |-> FALSE, ours |-> FALSE, saw |-> 0, raised |-> "no", exit |-> "none",
            hit |-> {}, met |-> FALSE, todo |-> {}]

Init ==
    /\ \E s \in Scenarios : host = s.host /\ do = s.calls
    /\ call = [c \in Live |-> NewCall]
    /\ containers = [c \in Live |-> [state |-> "none", on |-> 0]]
    /\ network = [n \in NetworkNames |-> [by |-> 0, external |-> FALSE]]
    /\ rows = [c \in Live |-> "none"]
    /\ networkRows = [n \in NetworkNames |-> "none"]
    /\ attempts = [c \in Live |-> "none"]
    /\ evidence = {} /\ finding = "open"
    /\ faults = 0

MayCall(c) == call[c].pc = "idle" /\ \A d \in 1..(c - 1) : do[d].by = do[c].by => call[d].pc \in {"answered", "failed"}

At(c, pc) == call[c].pc = pc
GoTo(c, pc) == call' = [call EXCEPT ![c].pc = pc]

\* run_finding_poc commits the attempt before it runs the PoC.
Begin(c) ==
    /\ MayCall(c) /\ do[c].kind # "cleanup"
    /\ call' = [call EXCEPT ![c] = [@ EXCEPT !.met = Sweeping, !.pc =
          IF do[c].kind = "compose" /\ ~AcceptsCompose(do[c].stack) THEN "failed" ELSE "require"]]
    /\ attempts' = [attempts EXCEPT ![c] = IF do[c].kind = "finding" THEN "running" ELSE @]
    /\ UNCHANGED <<host, do, engine, rows, networkRows, evidence, finding, faults>>

-----------------------------------------------------------------------------
(* How the functions end *)

\* Where an answer or an exception of the orchestrator leads in the handler.
Leave(c, raised) ==
    IF do[c].kind = "finding" THEN (IF raised = "no" THEN "verdict" ELSE "except")
    ELSE IF raised = "failed" THEN "failed" ELSE "answered"

AfterContainer(c, raised) ==
    IF call[c].ours /\ ~do[c].retain THEN "removeNetwork" ELSE Leave(c, raised)

\* The finally of run_poc_container, also after success, and the except of
\* start_sandbox_service.
\* Mutant: a PoC that succeeded is not cleaned up.
UndoUnlessDone(c, raised) ==
    IF IsService(c) THEN (IF call[c].made THEN "markFailed" ELSE AfterContainer(c, raised))
    ELSE IF call[c].made /\ ~do[c].retain /\ raised # "no" THEN "remove" ELSE AfterContainer(c, raised)

Undo(c, raised) ==
    IF IsService(c) THEN (IF call[c].made THEN "markFailed" ELSE AfterContainer(c, raised))
    ELSE IF call[c].made /\ ~do[c].retain THEN "remove" ELSE AfterContainer(c, raised)

\* What comes before create_container is outside of the try.
InTry(c) == call[c].pc \in {"create", "record", "start", "mark", "wait", "markEnd", "markRunning"}

Raise(c, raised) ==
    call' = [call EXCEPT ![c] = [@ EXCEPT !.raised = raised,
                !.pc = IF InTry(c) THEN Undo(c, raised) ELSE Leave(c, raised)]]

Require(c) ==
    /\ At(c, "require")
    /\ IF MayExecute(do[c].weak) THEN GoTo(c, "network") ELSE Raise(c, Refusal)
    /\ UNCHANGED <<host, do, engine, tables, faults>>

-----------------------------------------------------------------------------
(* Networks *)

Made(c) == [network EXCEPT ![NetworkOf(c)] = [by |-> c, external |-> do[c].external]]

\* A PoC with a network of its own: the name is new.
CreateNetwork(c) ==
    /\ At(c, "network") /\ do[c].own
    /\ network' = Made(c)
    /\ call' = [call EXCEPT ![c] = [@ EXCEPT !.ours = TRUE, !.pc = "recordNetwork"]]
    /\ UNCHANGED <<host, do, containers, tables, faults>>

\* _require_managed_run_network
RequireNetwork(c) ==
    /\ At(c, "network") /\ IsPoc(c) /\ ~do[c].own
    /\ IF Exists(Shared) THEN GoTo(c, "pull") ELSE Raise(c, "failed")
    /\ UNCHANGED <<host, do, engine, tables, faults>>

\* _ensure_managed_run_network refuses a network with the other policy.
Clashes(c) == Exists(Shared) /\ network[Shared].external # do[c].external

EnsureNetwork(c) ==
    /\ At(c, "network") /\ IsService(c)
    /\ IF Clashes(c) THEN Raise(c, "failed")
       ELSE call' = [call EXCEPT ![c] = [@ EXCEPT !.saw = network[Shared].by,
                        !.pc = IF Exists(Shared) THEN "recordNetwork" ELSE "make"]]
    /\ UNCHANGED <<host, do, engine, tables, faults>>

\* docker.create_network looks again, and takes a network that another call has made
\* meanwhile for its own; or the engine refuses the duplicate.
MakeNetwork(c) ==
    /\ At(c, "make")
    /\ \/ /\ network' = IF Exists(Shared) THEN network ELSE Made(c)
          /\ call' = [call EXCEPT ![c] = [@ EXCEPT !.ours = TRUE, !.pc = "recordNetwork"]]
       \/ Exists(Shared) /\ Raise(c, "failed") /\ UNCHANGED network
    /\ UNCHANGED <<host, do, containers, tables, faults>>

RecordNetwork(c) ==
    /\ At(c, "recordNetwork")
    /\ networkRows' = [networkRows EXCEPT ![NetworkOf(c)] = IF call[c].ours THEN "created" ELSE "reused"]
    /\ GoTo(c, "pull")
    /\ UNCHANGED <<host, do, engine, rows, attempts, evidence, finding, faults>>

-----------------------------------------------------------------------------
(* Containers *)

Pull(c) ==
    /\ At(c, "pull")
    /\ GoTo(c, "create")
    /\ UNCHANGED <<host, do, engine, tables, faults>>

\* The engine may or may not look at the network before the start.
CreateContainer(c) ==
    /\ At(c, "create")
    /\ \/ /\ containers' = [containers EXCEPT ![c] = [state |-> "created", on |-> network[NetworkOf(c)].by]]
          /\ call' = [call EXCEPT ![c] = [@ EXCEPT !.made = TRUE, !.pc = "record"]]
       \/ ~Exists(NetworkOf(c)) /\ Raise(c, "failed") /\ UNCHANGED containers
    /\ UNCHANGED <<host, do, network, tables, faults>>

RecordContainer(c) ==
    /\ At(c, "record")
    /\ rows' = [rows EXCEPT ![c] = "created"]
    /\ GoTo(c, "start")
    /\ UNCHANGED <<host, do, engine, networkRows, attempts, evidence, finding, faults>>

\* A container or a network that is gone is an error, a network that was made again may be one.
Startable(c) == containers[c].state = "created" /\ Exists(NetworkOf(c))
Replaced(c) == network[NetworkOf(c)].by # containers[c].on

StartContainer(c) ==
    /\ At(c, "start")
    /\ \/ /\ Startable(c)
          /\ containers' = [containers EXCEPT ![c].state = "running"]
          /\ GoTo(c, "mark")
       \/ (~Startable(c) \/ Replaced(c)) /\ Raise(c, "failed") /\ UNCHANGED containers
    /\ UNCHANGED <<host, do, network, tables, faults>>

\* _mark_container_state changes a row if there is one.
Marked(c, status) == rows' = [rows EXCEPT ![c] = IF @ = "none" THEN @ ELSE status]

MarkStarted(c) ==
    /\ At(c, "mark")
    /\ Marked(c, IF IsService(c) THEN "starting" ELSE "running")
    /\ GoTo(c, "wait")
    /\ UNCHANGED <<host, do, engine, networkRows, attempts, evidence, finding, faults>>

Gone(c) == containers[c].state = "none"

\* wait_container, with its timeout: the container ends, or is stopped, which the engine may refuse.
\* Then the log is captured: a file that cannot be written is a fault at "markEnd" (at "remove"
\* when the finally captures it), while an engine that does not give the log is caught.
WaitForExit(c) ==
    /\ At(c, "wait") /\ IsPoc(c)
    /\ IF Gone(c) THEN Raise(c, "failed") /\ UNCHANGED containers
       ELSE \E exit \in {"0", "1", "timeout"} :
               /\ call' = [call EXCEPT ![c] = [@ EXCEPT !.exit = exit, !.pc = "markEnd"]]
               /\ \/ containers' = [containers EXCEPT ![c].state = "exited"]
                  \/ exit = "timeout" /\ UNCHANGED containers
    /\ UNCHANGED <<host, do, network, tables, faults>>

PocStatus(exit) == CASE exit = "0" -> "completed" [] exit = "1" -> "failed" [] exit = "timeout" -> "timeout"

MarkEnd(c) ==
    /\ At(c, "markEnd")
    /\ Marked(c, PocStatus(call[c].exit))
    /\ GoTo(c, Undo(c, "no"))
    /\ UNCHANGED <<host, do, engine, networkRows, attempts, evidence, finding, faults>>

\* wait_for_healthy: the service becomes healthy, ends before, or takes too long.
WaitForHealthy(c) ==
    /\ At(c, "wait") /\ IsService(c)
    /\ \/ ~Gone(c) /\ GoTo(c, "markRunning") /\ UNCHANGED containers
       \/ Raise(c, "failed") /\ UNCHANGED containers
       \/ ~Gone(c) /\ Raise(c, "failed") /\ containers' = [containers EXCEPT ![c].state = "exited"]
    /\ UNCHANGED <<host, do, network, tables, faults>>

MarkRunning(c) ==
    /\ At(c, "markRunning")
    /\ Marked(c, "running")
    /\ GoTo(c, "answered")
    /\ UNCHANGED <<host, do, engine, networkRows, attempts, evidence, finding, faults>>

\* The program of a service may end at any time later.
ServiceExits(c) ==
    /\ IsService(c) /\ At(c, "answered") /\ containers[c].state = "running"
    /\ containers' = [containers EXCEPT ![c].state = "exited"]
    /\ UNCHANGED <<host, do, call, network, tables, faults>>

-----------------------------------------------------------------------------
(* The way back *)

MarkFailed(c) ==
    /\ At(c, "markFailed")
    /\ Marked(c, "failed")
    /\ GoTo(c, IF do[c].retain THEN AfterContainer(c, call[c].raised) ELSE "remove")
    /\ UNCHANGED <<host, do, engine, networkRows, attempts, evidence, finding, faults>>

NoContainer == [state |-> "none", on |-> 0]

RemoveContainer(c) ==
    /\ At(c, "remove")
    /\ containers' = [containers EXCEPT ![c] = NoContainer]
    /\ GoTo(c, "markRemoved")
    /\ UNCHANGED <<host, do, network, tables, faults>>

MarkRemoved(c) ==
    /\ At(c, "markRemoved")
    /\ Marked(c, "removed")
    /\ GoTo(c, AfterContainer(c, call[c].raised))
    /\ UNCHANGED <<host, do, engine, networkRows, attempts, evidence, finding, faults>>

\* The engine keeps a network with a running container; remove_network ignores that.
InUse(n) == \E d \in Live : containers[d].state = "running" /\ NetworkOf(d) = n
WithoutNetwork(n) == IF InUse(n) THEN network ELSE [network EXCEPT ![n] = [by |-> 0, external |-> FALSE]]

RemoveNetwork(c) ==
    /\ At(c, "removeNetwork")
    /\ network' = WithoutNetwork(NetworkOf(c))
    /\ GoTo(c, "markCleaned")
    /\ UNCHANGED <<host, do, containers, tables, faults>>

Cleaned(n) == networkRows' = [networkRows EXCEPT ![n] = IF @ = "none" THEN @ ELSE "cleaned"]

MarkCleaned(c) ==
    /\ At(c, "markCleaned")
    /\ Cleaned(NetworkOf(c))
    /\ GoTo(c, Leave(c, call[c].raised))
    /\ UNCHANGED <<host, do, engine, rows, attempts, evidence, finding, faults>>

-----------------------------------------------------------------------------
(* PoCs of a finding *)

Matched(c) == call[c].exit = do[c].expected

Row(c, kind) == [call |-> c, kind |-> kind, matched |-> kind = "poc-run" /\ Matched(c)]

\* One transaction: attempt, finding and evidence.
Verdict(c) ==
    /\ At(c, "verdict")
    /\ attempts' = [attempts EXCEPT ![c] = IF Matched(c) THEN "completed" ELSE "failed"]
    /\ finding' = IF Matched(c) /\ do[c].mark THEN "confirmed" ELSE finding
    /\ evidence' = evidence \cup {Row(c, "poc-run")}
    /\ GoTo(c, "event")
    /\ UNCHANGED <<host, do, engine, rows, networkRows, faults>>

\* The event is recorded within the try, so that its failure is taken for one of the PoC.
RecordEvent(c) ==
    /\ At(c, "event")
    /\ GoTo(c, "answered")
    /\ UNCHANGED <<host, do, engine, tables, faults>>

HandleException(c) ==
    /\ At(c, "except")
    /\ attempts' = [attempts EXCEPT ![c] = call[c].raised]
    /\ evidence' = evidence \cup {Row(c, IF call[c].raised = "failed" THEN "poc-error" ELSE "poc-unavailable")}
    /\ GoTo(c, IF call[c].raised = "failed" THEN "failed" ELSE "answered")
    /\ UNCHANGED <<host, do, engine, rows, networkRows, finding, faults>>

-----------------------------------------------------------------------------
(* cleanup_run *)

BeginCleanup(c) ==
    /\ MayCall(c) /\ do[c].kind = "cleanup"
    /\ call' = [d \in Live |->
          IF d = c THEN [call[c] EXCEPT !.pc = "sweep", !.todo = {e \in Live : ~Gone(e)}]
          ELSE IF Ended(d) THEN call[d] ELSE [call[d] EXCEPT !.met = TRUE]]
    /\ UNCHANGED <<host, do, engine, tables, faults>>

SweepContainer(c) ==
    /\ At(c, "sweep")
    /\ \E d \in call[c].todo :
          /\ containers' = [containers EXCEPT ![d] = NoContainer]
          /\ call' = [call EXCEPT ![c] = [@ EXCEPT !.pc = "sweepMark", !.saw = d, !.todo = call[c].todo \ {d}]]
    /\ UNCHANGED <<host, do, network, tables, faults>>

SweepMark(c) ==
    /\ At(c, "sweepMark")
    /\ Marked(call[c].saw, "removed")
    /\ GoTo(c, "sweep")
    /\ UNCHANGED <<host, do, engine, networkRows, attempts, evidence, finding, faults>>

\* When the containers are done, the networks are listed.
ListNetworks(c) ==
    /\ At(c, "sweep") /\ call[c].todo = {}
    /\ call' = [call EXCEPT ![c] = [@ EXCEPT !.pc = "sweepNetworks", !.todo = {n \in NetworkNames : Exists(n)}]]
    /\ UNCHANGED <<host, do, engine, tables, faults>>

\* The row is marked right after.
SweepNetwork(c) ==
    /\ At(c, "sweepNetworks")
    /\ \E n \in call[c].todo :
          /\ network' = WithoutNetwork(n)
          /\ Cleaned(n)
          /\ call' = [call EXCEPT ![c].todo = @ \ {n}]
    /\ UNCHANGED <<host, do, containers, rows, attempts, evidence, finding, faults>>

EndCleanup(c) ==
    /\ At(c, "sweepNetworks") /\ call[c].todo = {}
    /\ GoTo(c, "answered")
    /\ UNCHANGED <<host, do, engine, tables, faults>>

-----------------------------------------------------------------------------
(* Failures *)

\* The engine or the database fails; what was asked of the engine may be done all the same.
DoneAllTheSame(c) ==
    \/ UNCHANGED engine
    \/ /\ call[c].pc \in {"network", "make"} /\ ~Exists(NetworkOf(c))
       /\ do[c].own \/ At(c, "make")
       /\ network' = Made(c) /\ UNCHANGED containers
    \/ /\ At(c, "create")
       /\ containers' = [containers EXCEPT ![c] = [state |-> "created", on |-> network[NetworkOf(c)].by]]
       /\ UNCHANGED network
    \/ /\ At(c, "start") /\ Startable(c)
       /\ containers' = [containers EXCEPT ![c].state = "running"]
       /\ UNCHANGED network

\* Raised in a suppress, ignored by the client of the engine, or raised to the caller.
\* The engine names the runtime it does not know when it starts a container.
AfterFault(c) ==
    LET was == call[c].raised
        to(pc, raised) ==
            call' = [call EXCEPT ![c] = [@ EXCEPT !.pc = pc, !.raised = raised, !.hit = call[c].hit \cup {call[c].pc}]]
    IN CASE call[c].pc \in {"markFailed", "markRemoved"} -> to(AfterContainer(c, was), was)
         [] At(c, "remove") -> to("markRemoved", was) \/ to(AfterContainer(c, was), was)
         [] At(c, "removeNetwork") -> to("markCleaned", was) \/ to(Leave(c, "failed"), "failed")
         [] At(c, "start") -> \E raised \in {"failed", "unavailable"} : to(Undo(c, raised), raised)
         [] At(c, "except") -> to("failed", "failed")
         [] OTHER -> to(IF InTry(c) THEN Undo(c, "failed") ELSE Leave(c, "failed"), "failed")

Fault(c) ==
    /\ faults < MaxFaults
    /\ ~Ended(c) /\ do[c].kind # "cleanup" /\ call[c].pc # "require"
    /\ AfterFault(c) /\ DoneAllTheSame(c)
    /\ faults' = faults + 1
    /\ UNCHANGED <<host, do, tables>>

-----------------------------------------------------------------------------
Step(c) ==
    \/ Begin(c) \/ Require(c) \/ CreateNetwork(c) \/ RequireNetwork(c) \/ EnsureNetwork(c) \/ MakeNetwork(c)
    \/ RecordNetwork(c) \/ Pull(c) \/ CreateContainer(c) \/ RecordContainer(c) \/ StartContainer(c)
    \/ MarkStarted(c) \/ WaitForExit(c) \/ MarkEnd(c) \/ WaitForHealthy(c) \/ MarkRunning(c) \/ ServiceExits(c)
    \/ MarkFailed(c) \/ RemoveContainer(c) \/ MarkRemoved(c) \/ RemoveNetwork(c) \/ MarkCleaned(c)
    \/ Verdict(c) \/ RecordEvent(c) \/ HandleException(c)
    \/ BeginCleanup(c) \/ SweepContainer(c) \/ SweepMark(c) \/ ListNetworks(c) \/ SweepNetwork(c) \/ EndCleanup(c)
    \/ Fault(c)

Next == \E c \in CallIds \cap Live : Step(c)

Spec == Init /\ [][Next]_vars

-----------------------------------------------------------------------------
(* Properties *)

Over(c) == call[c].pc \in {"answered", "failed"}
Hit(c, points) == call[c].hit \cap points # {}

\* A PoC that is not retained leaves its container only if its creation or removal failed,
\* and its network only if what failed is that, a step of the network itself, or the pull of
\* the image, which run_poc_container does before its try.
PocLeavesNothing ==
    \A c \in Live : IsPoc(c) /\ Over(c) /\ ~do[c].retain =>
        /\ Gone(c) \/ Hit(c, {"create", "remove"})
        /\ ~Exists(<<c>>) \/ Hit(c, {"network", "recordNetwork", "pull", "remove", "removeNetwork"})

\* After a call that no failure and no cleanup met, and after a cleanup, the row of the
\* container is "running" or tells of its end exactly if the container is still there.
RowsFit ==
    \A c \in Live : Over(c) /\ do[c].kind # "cleanup" /\ call[c].hit = {} /\ ~call[c].met /\ ~Sweeping =>
        /\ Gone(c) <=> rows[c] \in {"none", "removed"}
        /\ rows[c] \in {"starting", "running"} => IsService(c) /\ At(c, "answered")

\* A sandbox runs under runc only if the settings or the call allow it, and a service on a
\* network of the other policy only if that network came between its look for one and its start
\* (_ensure_managed_run_network and create_network each look before they make it).
IsolatedAsAsked ==
    \A c \in Live : containers[c].state = "running" =>
        /\ Runtime = "runc" => host.allowRunc \/ do[c].weak
        /\ IsService(c) /\ network[Shared].external # do[c].external => network[Shared].by \notin {c, call[c].saw}

\* What a PoC of a finding leaves (run_finding_poc): a confirmed finding has a run as
\* expected, an attempt that was completed is one, and one that failed is not, unless the event
\* failed that tells of it.  An attempt stays "running" only if its last transaction failed.
VerdictsAgree ==
    /\ finding = "confirmed" => \E e \in evidence : e.matched /\ do[e.call].mark
    /\ \A c \in Live : do[c].kind = "finding" /\ Over(c) =>
          LET own == {e \in evidence : e.call = c}
          IN /\ attempts[c] = "running" => Hit(c, {"except"})
             /\ attempts[c] = "completed" => own = {[call |-> c, kind |-> "poc-run", matched |-> TRUE]}
             /\ attempts[c] = "failed" /\ (\E e \in own : e.matched) => Hit(c, {"event"})
             /\ attempts[c] = "unavailable" => ~MayExecute(do[c].weak) \/ Hit(c, {"start"})

\* A PoC on a network of its own fails only if the engine cannot be reached, something of it
\* fails, or a cleanup takes its container.
PocIsUndisturbed ==
    \A c \in Live : IsPoc(c) /\ do[c].own /\ call[c].raised = "failed" => call[c].hit # {} \/ call[c].met \/ ~host.up

\* Sandboxes are left, recorded, isolated and judged as their calls promise.
SandboxesAsPromised == PocLeavesNothing /\ RowsFit /\ IsolatedAsAsked /\ VerdictsAgree /\ PocIsUndisturbed
=============================================================================
