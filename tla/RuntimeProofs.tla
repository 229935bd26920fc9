--------------------------- MODULE RuntimeProofs ----------------------------
(***************************************************************************)
(* Proofs about the runtimes of the agents and their cleanups, for any     *)
(* number of agents, servers and cleanups, any servers an agent may need   *)
(* and any number of failing calls of Docker.                              *)
(***************************************************************************)
EXTENDS AgentRuntime, Integers, Sequences, FiniteSets,
        FiniteSetTheorems, WellFoundedInduction, TLAPS

-----------------------------------------------------------------------------
(* Facts about numbers *)

\* A set of numbers that is not empty has a least element.
LEMMA LeastNumber ==
    ASSUME NEW T \in SUBSET Nat, T # {}
    PROVE  \E n \in T : \A m \in T : n <= m
<1>1. PICK n \in T : \A m \in T : ~ (<<m, n>> \in OpToRel(<, Nat))
  BY NatLessThanWellFounded, WFMin
<1>2. \A m \in T : ~ (m < n)
  BY <1>1 DEF OpToRel
<1> QED BY <1>2

-----------------------------------------------------------------------------
(* The invariant *)

BuildPoints == {"create", "wait", "createRunner", "waitRunner", "finish", "reread"}
SidecarPoints == {"createSidecar", "waitSidecar", "startAgent", "listen", "waitAgent"}
ServePoints == {"inSession"} \cup SidecarPoints

InRows(a) == \E i \in DOMAIN rows : rows[i] = a

\* No cleanup_run met the agent or the maker of its runtime.
Relies(a) == a \notin disturbed /\ call[a].runtime.id \notin disturbed

\* The loops over the servers run on while there is one left.
Todo(a) == call[a].pc \in {"create", "wait", "createSidecar", "waitSidecar"} => call[a].todo # {}

\* The servers of a runtime are no sidecars, and sidecars serve their own agent.
Shape(a) ==
    /\ \A c \in call[a].runtime.tools : c.kind = "mcp"
    /\ \A c \in call[a].tools : c.kind = "mcp" \/ (c.kind = "sidecar" /\ c.of = a)
    /\ call[a].pc \in BuildPoints => \A c \in call[a].tools : c.kind = "mcp"
    /\ call[a].pc \in {"idle", "record", "lookup", "insert"} => call[a].tools = {}

\* A runtime under construction has the servers it has waited for,
Built(a) ==
    /\ call[a].pc \in BuildPoints => InRows(a)
    /\ call[a].pc \in BuildPoints /\ a \notin disturbed =>
          /\ call[a].tools \subseteq docker \cap keys
          /\ call[a].pc = "wait" => Mcp(a, NextTool(a)) \in keys
          /\ call[a].pc = "finish" /\ a \in Kimi => Runner(a) \in docker

\* so has the runtime that an agent has found,
Found(a) ==
    /\ call[a].pc = "reuse" => call[a].runtime.id \in Agents /\ InRows(call[a].runtime.id)
    /\ call[a].pc = "reuse" /\ Relies(a) =>
          /\ call[a].runtime.tools \subseteq docker \cap keys
          /\ call[a].runtime.endpoint => Runner(call[a].runtime.id) \in docker

\* and the agent itself.
Served(a) ==
    /\ call[a].pc \in ServePoints => call[a].runtime.id \in Agents
    /\ call[a].pc \in ServePoints /\ Relies(a) =>
          /\ call[a].tools \subseteq docker \cap keys
          /\ call[a].pc = "inSession" => Runner(call[a].runtime.id) \in docker
          /\ call[a].pc = "waitSidecar" => Sidecar(a, NextTool(a)) \in keys

\* The row of an agent run follows the call.
RunStatus(a) ==
    /\ call[a].pc \in {"idle", "record"} => agentRun[a] = None
    /\ call[a].pc \in StartPoints \ {"record", "raise"} => agentRun[a] = "starting"
    /\ call[a].pc = "raise" => agentRun[a] \in {"starting", "failed"}

CallInv(a) == Todo(a) /\ Shape(a) /\ Built(a) /\ Found(a) /\ Served(a) /\ RunStatus(a)

\* Only an agent without a session has containers of its own, and while its
\* call is not over its row does not say that it ended.
LabelInv(a) ==
    (\E c \in docker : HasAgentLabel(c) /\ c.of = a) =>
        \/ call[a].pc \in SidecarPoints \cup {"ended"}
        \/ call[a].pc = "raise" /\ agentRun[a] = "starting"

\* An active runtime has a row, its servers and the runner of its endpoint,
\* and what has a row is active or cleaned.
RuntimeInv(a) ==
    /\ ~InRows(a) => runtime[a].tools = {} /\ ~runtime[a].endpoint
    /\ runtime[a].status \in {"starting", "running"} => InRows(a)
    /\ InRows(a) => runtime[a].status \in {"starting", "running"} \/ runtime[a].cleaned
    /\ \A c \in runtime[a].tools : c.kind = "mcp"
    /\ IsActiveRow(a) /\ a \notin disturbed =>
          /\ runtime[a].tools \subseteq docker \cap keys
          /\ runtime[a].endpoint => Runner(a) \in docker

Terminal(a) == agentRun[a] \in {"completed", "failed"}

\* The cleanup of inactive containers works on those of agents that ended.
InactiveInv(q) ==
    /\ sweep[q].pc = "listInactive" =>
          \A a \in sweep[q].terminal : Terminal(a) /\ call[a].pc \in {"raise", "ended"}
    /\ sweep[q].pc = "removeInactive" =>
          \A c \in sweep[q].left : HasAgentLabel(c) /\ Terminal(c.of) /\ call[c.of].pc = "ended"

\* What a cleanup_run that nothing disturbed has done so far.
QuietInv(p) ==
    sweep[p].quiet =>
        /\ sweep[p].pc = "remove" => docker \subseteq sweep[p].left
        /\ sweep[p].pc \in {"keys", "rows"} => docker = {} /\ network = FALSE
        /\ sweep[p].pc = "rows" => keys = {}

Sweepers == Agents \cup Cleaners

Calls == \A a \in Agents : CallInv(a) /\ LabelInv(a)
Runtimes == \A a \in Agents : RuntimeInv(a)
Sweeps == \A p \in Sweepers : InactiveInv(p) /\ QuietInv(p)

Invariant == TypeOK /\ Calls /\ Runtimes /\ Sweeps

-----------------------------------------------------------------------------
(* Types *)

RuntimeType == [status : {None, "starting", "running", "cleaned"}, cleaned : BOOLEAN,
                tools : SUBSET Container, endpoint : BOOLEAN]
FoundType == [id : Agents \cup {None}, tools : SUBSET Container, endpoint : BOOLEAN]
CallType == [pc : StartPoints \cup {"idle", "ended"}, runtime : FoundType,
             todo : SUBSET Tools, tools : SUBSET Container]
SweepType == [pc : SweepPoints \cup {"idle", "ended"}, left : SUBSET Container,
              terminal : SUBSET Agents, again : Nat, quiet : BOOLEAN]
Statuses == {None, "starting", "running", "completed", "failed"}

DockerType == docker \subseteq Container /\ keys \subseteq Container /\ network \in BOOLEAN
RowsType == rows \in Seq(Agents) /\ runtime \in [Agents -> RuntimeType]
CallsType == agentRun \in [Agents -> Statuses] /\ call \in [Agents -> CallType]
SweepsType == sweep \in [Agents \cup Cleaners -> SweepType]
RestType == faults \in 0..MaxFaults /\ disturbed \subseteq Agents

\* The type invariant, one part for each group of variables that a step changes.
LEMMA TypeParts == TypeOK <=> DockerType /\ RowsType /\ CallsType /\ SweepsType /\ RestType
BY DEF TypeOK, DockerType, RowsType, CallsType, SweepsType, RestType, RuntimeType, FoundType,
       CallType, SweepType, Statuses

\* A cleanup that gets a new entry leaves the others alone.
LEMMA SweepPut ==
    ASSUME sweep \in [Sweepers -> SweepType], NEW p \in Sweepers, NEW s \in SweepType,
           sweep' = [sweep EXCEPT ![p] = s]
    PROVE  /\ sweep' \in [Sweepers -> SweepType] /\ sweep'[p] = s
           /\ \A q \in Sweepers \ {p} : sweep'[q] = sweep[q]
OBVIOUS

\* What a sweep that ends, or begins again, becomes.
LEMMA SweepAgain ==
    ASSUME NEW s \in SweepType, NEW pc \in SweepPoints \cup {"idle", "ended"}, NEW again \in Nat
    PROVE  LET new == [s EXCEPT !.pc = pc, !.again = again]
           IN  new \in SweepType /\ new.pc = pc
BY DEF SweepType

\* So does a call.
LEMMA CallPut ==
    ASSUME call \in [Agents -> CallType], NEW a \in Agents, NEW e \in CallType,
           call' = [call EXCEPT ![a] = e]
    PROVE  /\ call' \in [Agents -> CallType] /\ call'[a] = e
           /\ \A b \in Agents \ {a} : call'[b] = call[b]
OBVIOUS

\* The kinds of container are containers.
LEMMA Containers ==
    ASSUME NEW a \in Agents
    PROVE  /\ Runner(a) \in Container /\ AgentContainer(a) \in Container
           /\ \A m \in Tools : Mcp(a, m) \in Container /\ Sidecar(a, m) \in Container
BY DEF Container, Runner, AgentContainer, Mcp, Sidecar

\* A container belongs to an agent.
LEMMA ContainerFields ==
    ASSUME NEW c \in Container
    PROVE  c.of \in Agents /\ c.kind \in {"mcp", "sidecar", "runner", "agent"}
BY DEF Container

\* A set of positions in a list has a last one.
LEMMA GreatestIndex ==
    ASSUME NEW n \in Nat, NEW T \in SUBSET (1..n), T # {}
    PROVE  \E i \in T : \A j \in T : j <= i
<1> DEFINE U == {k \in 0..n : n - k \in T}
<1>1. U \in SUBSET Nat
  OBVIOUS
<1>2. U # {}
  <2>1. PICK i \in T : TRUE
    OBVIOUS
  <2>2. i \in 1..n /\ n - i \in 0..n /\ n - (n - i) = i
    OBVIOUS
  <2>3. n - i \in U
    BY <2>1, <2>2
  <2> QED BY <2>3
<1>3. PICK k \in U : \A l \in U : k <= l
  <2> HIDE DEF U
  <2> QED BY <1>1, <1>2, LeastNumber
<1>4. ASSUME NEW j \in T PROVE j <= n - k
  <2>1. j \in 1..n /\ n - j \in 0..n /\ n - (n - j) = j
    OBVIOUS
  <2>2. n - j \in U
    BY <2>1
  <2>3. k <= n - j /\ k \in Nat
    BY <1>3, <2>2
  <2> QED BY <2>1, <2>3
<1> QED BY <1>3, <1>4

\* _active_agent_runtime finds a row that is active, if it finds one.
LEMMA ActiveFound ==
    ASSUME TypeOK
    PROVE  \/ ActiveRuntime = None
           \/ ActiveRuntime \in Agents /\ IsActiveRow(ActiveRuntime) /\ InRows(ActiveRuntime)
<1> DEFINE active == {i \in DOMAIN rows : IsActiveRow(rows[i])}
<1>1. CASE active = {}
  BY <1>1 DEF ActiveRuntime
<1>2. CASE active # {}
  <2>1. rows \in Seq(Agents) /\ Len(rows) \in Nat /\ active \in SUBSET (1..Len(rows))
    BY DEF TypeOK
  <2>2. \E i \in active : \A j \in active : j <= i
    <3> HIDE DEF active
    <3> QED BY <1>2, <2>1, GreatestIndex
  <2> DEFINE i == CHOOSE i \in active : \A j \in active : j <= i
  <2>3. i \in active
    BY <2>2
  <2>4. ActiveRuntime = rows[i]
    BY <1>2 DEF ActiveRuntime
  <2> HIDE DEF i
  <2>5. i \in DOMAIN rows /\ rows[i] \in Agents /\ IsActiveRow(rows[i])
    BY <2>1, <2>3
  <2> QED BY <2>4, <2>5 DEF InRows
<1> QED BY <1>1, <1>2

\* A step of a call leaves the cleanups where they are.
LEMMA NoiseFacts ==
    ASSUME SweepsType, Noise
    PROVE  /\ SweepsType'
           /\ \A p \in Agents \cup Cleaners :
                 /\ sweep'[p].pc = sweep[p].pc /\ sweep'[p].left = sweep[p].left
                 /\ sweep'[p].terminal = sweep[p].terminal /\ ~sweep'[p].quiet
<1>1. DOMAIN sweep = Agents \cup Cleaners
  BY DEF SweepsType
<1>2. sweep' = [p \in Agents \cup Cleaners |-> [sweep[p] EXCEPT !.quiet = FALSE]]
  BY <1>1 DEF Noise
<1>3. ASSUME NEW p \in Agents \cup Cleaners
      PROVE  /\ sweep'[p] \in SweepType /\ sweep'[p].pc = sweep[p].pc /\ sweep'[p].left = sweep[p].left
             /\ sweep'[p].terminal = sweep[p].terminal /\ ~sweep'[p].quiet
  <2>1. sweep[p] \in SweepType /\ sweep'[p] = [sweep[p] EXCEPT !.quiet = FALSE]
    BY <1>2 DEF SweepsType
  <2> QED BY <2>1 DEF SweepType
<1>4. SweepsType'
  BY <1>2, <1>3 DEF SweepsType
<1> QED BY <1>3, <1>4

\* Moving on, a call keeps its other variables.
LEMMA GoFacts ==
    ASSUME CallsType, SweepsType, NEW a \in Agents, NEW next \in StartPoints \cup {"ended"}, Go(a, next)
    PROVE  /\ call' \in [Agents -> CallType] /\ SweepsType'
           /\ \A b \in Agents : b # a => call'[b] = call[b]
           /\ call'[a].pc = next /\ call'[a].runtime = call[a].runtime
           /\ call'[a].todo = call[a].todo /\ call'[a].tools = call[a].tools
BY NoiseFacts DEF CallsType, CallType, Go

-----------------------------------------------------------------------------
(* A step of a call: what it may do to others *)

\* What a step of the call a that is not its exception handler does.
CallStep(a) ==
    call' \in [Agents -> CallType] /\ (\A b \in Agents \ {a} : call'[b] = call[b]) /\ Noise

DockerStep(a) ==
    /\ docker \subseteq docker' /\ \A c \in docker' : c \in docker \/ (c \in Container /\ c.of = a)
    /\ keys \subseteq keys' /\ keys' \subseteq Container
    /\ network' \in BOOLEAN /\ faults' \in 0..MaxFaults /\ disturbed' = disturbed

RowsStep(a) ==
    /\ agentRun' \in [Agents -> Statuses] /\ \A b \in Agents \ {a} : agentRun'[b] = agentRun[b]
    /\ RowsType' /\ \A b \in Agents : InRows(b) => InRows(b)'

StepOf(a) == CallStep(a) /\ DockerStep(a) /\ RowsStep(a)

\* The other calls are as well served as before.
LEMMA OtherCalls ==
    ASSUME NEW a \in Agents, StepOf(a), NEW b \in Agents \ {a}, CallInv(b), LabelInv(b), TypeOK
    PROVE  CallInv(b)' /\ LabelInv(b)'
<1>1. /\ call'[b] = call[b] /\ agentRun'[b] = agentRun[b] /\ disturbed' = disturbed
      /\ docker \subseteq docker' /\ keys \subseteq keys'
      /\ \A d \in Agents : InRows(d) => InRows(d)'
      /\ \A c \in docker' : c \in docker \/ c.of = a
  BY DEF StepOf, CallStep, DockerStep, RowsStep
<1>2. NextTool(b)' = NextTool(b) /\ (Relies(b)' <=> Relies(b))
  BY <1>1 DEF NextTool, Relies
<1>3. Todo(b)' /\ Shape(b)' /\ RunStatus(b)'
  BY <1>1 DEF CallInv, Todo, Shape, RunStatus
<1>4. Built(b)'
  <2> SUFFICES ASSUME call[b].pc \in BuildPoints
               PROVE  /\ InRows(b)'
                      /\ b \notin disturbed => call[b].tools \subseteq docker' \cap keys'
                      /\ b \notin disturbed /\ call[b].pc = "wait" => Mcp(b, NextTool(b)) \in keys'
                      /\ b \notin disturbed /\ call[b].pc = "finish" /\ b \in Kimi => Runner(b) \in docker'
    BY <1>1, <1>2 DEF Built
  <2> QED BY <1>1 DEF CallInv, Built
<1>5. Found(b)'
  <2> SUFFICES ASSUME call[b].pc = "reuse"
               PROVE  /\ call[b].runtime.id \in Agents /\ InRows(call[b].runtime.id)'
                      /\ Relies(b) =>
                            /\ call[b].runtime.tools \subseteq docker' \cap keys'
                            /\ call[b].runtime.endpoint => Runner(call[b].runtime.id) \in docker'
    BY <1>1, <1>2 DEF Found, InRows
  <2> QED BY <1>1 DEF CallInv, Found
<1>6. Served(b)'
  <2> SUFFICES ASSUME call[b].pc \in ServePoints
               PROVE  /\ call[b].runtime.id \in Agents
                      /\ Relies(b) =>
                            /\ call[b].tools \subseteq docker' \cap keys'
                            /\ call[b].pc = "inSession" => Runner(call[b].runtime.id) \in docker'
                            /\ call[b].pc = "waitSidecar" => Sidecar(b, NextTool(b)) \in keys'
    BY <1>1, <1>2 DEF Served
  <2> QED BY <1>1 DEF CallInv, Served
<1>7. LabelInv(b)'
  BY <1>1 DEF LabelInv
<1> QED BY <1>3, <1>4, <1>5, <1>6, <1>7 DEF CallInv

\* Runtimes that the step does not change are as complete as before.
LEMMA OtherRuntimes ==
    ASSUME NEW a \in Agents, StepOf(a), NEW r \in Agents, RuntimeInv(r),
           runtime'[r] = runtime[r], InRows(r)' => InRows(r)
    PROVE  RuntimeInv(r)'
<1>1. /\ disturbed' = disturbed /\ docker \subseteq docker' /\ keys \subseteq keys'
      /\ InRows(r) => InRows(r)'
  BY DEF StepOf, CallStep, DockerStep, RowsStep
<1>2. IsActiveRow(r)' <=> IsActiveRow(r)
  BY DEF IsActiveRow
<1> QED BY <1>1, <1>2 DEF RuntimeInv

\* A step of a call keeps the invariant if it keeps it for its own agent and
\* for the runtimes.
LEMMA StepInvariant ==
    ASSUME Invariant, NEW a \in Agents, StepOf(a), call[a].pc \notin {"raise", "ended"},
           CallInv(a)', LabelInv(a)', Runtimes'
    PROVE  Invariant'
<1>1. TypeOK'
  <2>1. TypeOK
    BY DEF Invariant
  <2>2. SweepsType'
    BY <2>1, NoiseFacts, TypeParts DEF StepOf, CallStep
  <2>3. DockerType'
    BY <2>1, TypeParts DEF StepOf, DockerStep, DockerType
  <2>4. CallsType' /\ RestType' /\ RowsType'
    BY <2>1, TypeParts DEF StepOf, CallStep, RowsStep, DockerStep, CallsType, RestType
  <2>5. TypeOK' <=> DockerType' /\ RowsType' /\ CallsType' /\ SweepsType' /\ RestType'
    BY DEF TypeOK, DockerType, RowsType, CallsType, SweepsType, RestType, RuntimeType, FoundType,
       CallType, SweepType, Statuses
  <2> QED BY <2>2, <2>3, <2>4, <2>5
<1>2. Calls'
  <2>1. ASSUME NEW b \in Agents \ {a} PROVE CallInv(b)' /\ LabelInv(b)'
    <3>1. CallInv(b) /\ LabelInv(b) /\ TypeOK
      BY DEF Invariant, Calls
    <3> QED BY <3>1, OtherCalls
  <2> QED BY <2>1 DEF Calls
<1>3. \A p \in Agents \cup Cleaners :
          /\ sweep'[p].pc = sweep[p].pc /\ sweep'[p].left = sweep[p].left
          /\ sweep'[p].terminal = sweep[p].terminal /\ ~sweep'[p].quiet
  BY NoiseFacts, TypeParts DEF Invariant, StepOf, CallStep
<1>4. \A p \in Sweepers : QuietInv(p)'
  BY <1>3 DEF QuietInv, Sweepers
<1>5. \A p \in Sweepers : InactiveInv(p)'
  <2>1. \A b \in Agents : call[b].pc \in {"raise", "ended"} => /\ call'[b] = call[b]
                                                               /\ Terminal(b)' <=> Terminal(b)
    BY DEF StepOf, CallStep, RowsStep, Terminal
  <2>2. \A q \in Agents \cup Cleaners : /\ sweep[q].terminal \subseteq Agents
                                        /\ \A c \in sweep[q].left : c.of \in Agents
    BY ContainerFields, TypeParts DEF Invariant, SweepsType, SweepType
  <2> QED BY <1>3, <2>1, <2>2 DEF Invariant, Sweeps, InactiveInv, Sweepers
<1> QED BY <1>1, <1>2, <1>4, <1>5 DEF Invariant, Sweeps

\* The runtimes stay as they are when their rows do.
LEMMA SameRuntimes ==
    ASSUME NEW a \in Agents, StepOf(a), Runtimes, rows' = rows, runtime' = runtime
    PROVE  Runtimes'
<1>1. ASSUME NEW r \in Agents PROVE RuntimeInv(r)'
  <2>1. RuntimeInv(r) /\ runtime'[r] = runtime[r] /\ (InRows(r)' => InRows(r))
    BY DEF Runtimes, InRows
  <2> QED BY <2>1, OtherRuntimes
<1> QED BY <1>1 DEF Runtimes

\* What the rows of Docker and of the database need when they stay the same.
LEMMA SameRows ==
    ASSUME TypeOK, NEW a \in Agents, rows' = rows, runtime' = runtime, agentRun' = agentRun
    PROVE  RowsStep(a)
BY TypeParts DEF RowsStep, RowsType, CallsType, InRows

\* The same when the status of an agent run changes with the step.
LEMMA SameRowsButStatus ==
    ASSUME TypeOK, NEW a \in Agents, rows' = rows, runtime' = runtime, NEW status \in Statuses,
           agentRun' = [agentRun EXCEPT ![a] = status]
    PROVE  RowsStep(a) /\ agentRun'[a] = status
BY TypeParts DEF RowsStep, RowsType, CallsType, InRows

\* What a step that leaves Docker and the keys alone does not disturb there.
LEMMA SameDocker ==
    ASSUME TypeOK, NEW a \in Agents, docker' = docker, keys' = keys, network' \in BOOLEAN,
           faults' \in 0..MaxFaults, disturbed' = disturbed
    PROVE  DockerStep(a)
BY TypeParts DEF DockerStep, DockerType

\* The calls of Docker that fail are counted up to their bound.
LEMMA Faults ==
    ASSUME TypeOK, NEW reason \in BOOLEAN, DockerFails(reason)
    PROVE  faults' \in 0..MaxFaults
BY RuntimeAssumption DEF TypeOK, DockerFails

\* Moving on is a step of the call.
LEMMA GoStep ==
    ASSUME TypeOK, NEW a \in Agents, NEW next \in StartPoints \cup {"ended"}, Go(a, next)
    PROVE  /\ CallStep(a)
           /\ call'[a].pc = next /\ call'[a].runtime = call[a].runtime
           /\ call'[a].todo = call[a].todo /\ call'[a].tools = call[a].tools
BY GoFacts, TypeParts DEF CallStep, Go

\* A call that can only raise or end rests on nothing any more.
LEMMA NothingNeeded ==
    ASSUME NEW a \in Agents, Shape(a), call'[a].pc \in {"raise", "ended"},
           call'[a].runtime = call[a].runtime, call'[a].tools = call[a].tools,
           call'[a].pc = "raise" => agentRun'[a] \in {"starting", "failed"}
    PROVE  CallInv(a)'
BY DEF CallInv, Todo, Shape, Built, Found, Served, RunStatus, BuildPoints, ServePoints, SidecarPoints,
       StartPoints

\* Any call of Docker may fail: the containers and keys made before stay, and
\* the call goes on to its exception handler.
LEMMA RaiseInvariant ==
    ASSUME Invariant, NEW a \in Agents, call[a].pc \in StartPoints \ {"record", "raise"},
           NEW reason \in BOOLEAN, Raise(a, reason), rows' = rows, runtime' = runtime, network' = network,
           docker \subseteq docker', keys \subseteq keys', keys' \subseteq Container, disturbed' = disturbed,
           \A c \in docker' \ docker : /\ c \in Container /\ c.of = a
                                       /\ HasAgentLabel(c) => call[a].pc \in SidecarPoints,
           \/ agentRun' = agentRun
           \/ call[a].pc = "inSession" /\ agentRun' = [agentRun EXCEPT ![a] = "failed"]
    PROVE  Invariant'
<1>1. TypeOK /\ CallInv(a) /\ LabelInv(a) /\ Runtimes
  BY DEF Invariant, Calls
<1>2. /\ CallStep(a) /\ call'[a].pc = "raise" /\ call'[a].runtime = call[a].runtime
      /\ call'[a].tools = call[a].tools
  BY <1>1, GoStep DEF Raise, StartPoints
<1>3. RowsStep(a)
  BY <1>1, SameRows, SameRowsButStatus DEF Statuses
<1>4. DockerStep(a)
  <2>1. faults' \in 0..MaxFaults
    BY <1>1, Faults DEF Raise
  <2>2. network' \in BOOLEAN
    BY <1>1 DEF TypeOK
  <2> QED BY <2>1, <2>2 DEF DockerStep
<1>5. StepOf(a)
  BY <1>2, <1>3, <1>4 DEF StepOf
<1>6. Runtimes'
  BY <1>1, <1>5, SameRuntimes
<1>7. agentRun[a] = "starting"
  BY <1>1 DEF CallInv, RunStatus
<1>8. agentRun'[a] = "starting" \/ (call[a].pc = "inSession" /\ agentRun'[a] = "failed")
  BY <1>1, <1>7 DEF TypeOK
<1>9. CallInv(a)'
  BY <1>1, <1>2, <1>8, NothingNeeded DEF CallInv
<1>10. LabelInv(a)'
  <2> SUFFICES ASSUME NEW c \in docker', HasAgentLabel(c), c.of = a
               PROVE  agentRun'[a] = "starting"
    BY <1>2 DEF LabelInv
  <2>1. call[a].pc \in SidecarPoints
    BY <1>1 DEF LabelInv, StartPoints
  <2> QED BY <1>8, <2>1 DEF SidecarPoints
<1>11. call[a].pc \notin {"raise", "ended"}
  BY DEF StartPoints
<1> QED BY <1>5, <1>6, <1>9, <1>10, <1>11, StepInvariant

\* A step that touches neither Docker nor the runtimes.
LEMMA PlainStep ==
    ASSUME TypeOK, NEW a \in Agents, NEW next \in StartPoints \cup {"ended"}, Go(a, next),
           docker' = docker, keys' = keys, network' \in BOOLEAN, faults' = faults, disturbed' = disturbed,
           rows' = rows, runtime' = runtime,
           agentRun' = agentRun \/ \E status \in Statuses : agentRun' = [agentRun EXCEPT ![a] = status]
    PROVE  /\ StepOf(a)
           /\ call'[a].pc = next /\ call'[a].runtime = call[a].runtime
           /\ call'[a].todo = call[a].todo /\ call'[a].tools = call[a].tools
<1>1. DockerStep(a)
  <2>1. faults' \in 0..MaxFaults
    BY DEF TypeOK
  <2> QED BY <2>1, SameDocker
<1>2. RowsStep(a)
  BY SameRows, SameRowsButStatus
<1> QED BY <1>1, <1>2, GoStep DEF StepOf

\* A step before there is any container that fails.
LEMMA FailedEarly ==
    ASSUME Invariant, NEW a \in Agents, call[a].pc \in {"idle", "record"},
           NEW next \in {"raise", "ended"}, Go(a, next), DockerFails(FALSE), network' \in {network, TRUE},
           UNCHANGED <<docker, keys, rows, runtime, disturbed>>,
           \/ next = "ended" /\ agentRun' = agentRun
           \/ agentRun' = [agentRun EXCEPT ![a] = "starting"]
    PROVE  Invariant'
<1>1. TypeOK /\ Runtimes /\ CallInv(a) /\ LabelInv(a)
  BY DEF Invariant, Calls
<1>2. /\ CallStep(a) /\ call'[a].pc = next /\ call'[a].runtime = call[a].runtime
      /\ call'[a].tools = call[a].tools
  BY <1>1, GoStep DEF StartPoints
<1>3. DockerStep(a)
  <2>1. faults' \in 0..MaxFaults
    BY <1>1, Faults
  <2>2. network' \in BOOLEAN
    BY <1>1 DEF TypeOK
  <2> QED BY <1>1, <2>1, <2>2, SameDocker
<1>4. RowsStep(a)
  BY <1>1, SameRows, SameRowsButStatus DEF Statuses
<1>5. StepOf(a)
  BY <1>2, <1>3, <1>4 DEF StepOf
<1>6. Runtimes'
  BY <1>1, <1>5, SameRuntimes
<1>7. next = "raise" => agentRun'[a] \in {"starting", "failed"}
  BY <1>1 DEF TypeOK
<1>8. CallInv(a)'
  BY <1>1, <1>2, <1>7, NothingNeeded DEF CallInv
<1>9. LabelInv(a)'
  BY <1>1 DEF LabelInv, SidecarPoints
<1> QED BY <1>5, <1>6, <1>8, <1>9, StepInvariant

\* A step that makes a container, and perhaps its key.
LEMMA CreatedStep ==
    ASSUME TypeOK, NEW a \in Agents, NEW next \in StartPoints, Go(a, next), NEW c \in Container, c.of = a,
           docker' = docker \cup {c}, keys' \in {keys, keys \cup {c}}, UNCHANGED <<network, faults, disturbed>>,
           UNCHANGED <<rows, runtime, agentRun>>
    PROVE  /\ StepOf(a)
           /\ call'[a].pc = next /\ call'[a].runtime = call[a].runtime
           /\ call'[a].todo = call[a].todo /\ call'[a].tools = call[a].tools
<1>1. DockerStep(a)
  BY DEF DockerStep, TypeOK
<1>2. RowsStep(a)
  BY SameRows
<1> QED BY <1>1, <1>2, GoStep DEF StepOf

\* An agent that has made no container of its own still has none.
LEMMA NoLabels ==
    ASSUME NEW a \in Agents, LabelInv(a), call[a].pc \notin SidecarPoints \cup {"raise", "ended"},
           \A c \in docker' \ docker : ~HasAgentLabel(c)
    PROVE  LabelInv(a)'
BY DEF LabelInv

\* What the proofs about a step start from.
LEMMA Parts ==
    ASSUME Invariant, NEW a \in Agents
    PROVE  /\ TypeOK /\ Runtimes /\ CallInv(a) /\ LabelInv(a)
           /\ Todo(a) /\ Shape(a) /\ Built(a) /\ Found(a) /\ Served(a) /\ RunStatus(a)
BY DEF Invariant, Calls, CallInv

-----------------------------------------------------------------------------
(* The steps up to the runtime *)

\* Connect.
LEMMA ConnectInvariant == ASSUME Invariant, NEW a \in Agents, Connect(a) PROVE Invariant'
<1> USE DEF StartPoints
<1>1. /\ call[a].pc = "idle" /\ network' \in {network, TRUE}
      /\ UNCHANGED <<docker, keys, rows, runtime, agentRun, disturbed>>
  BY DEF Connect, At
<1>2. CASE Go(a, "record") /\ network' = TRUE /\ UNCHANGED faults
  <2>1. /\ StepOf(a)
        /\ call'[a].pc = "record" /\ call'[a].runtime = call[a].runtime
        /\ call'[a].todo = call[a].todo /\ call'[a].tools = call[a].tools
    BY <1>1, <1>2, Parts, PlainStep
  <2>2. CallInv(a)'
    <3>1. agentRun'[a] = None
      BY <1>1, Parts DEF RunStatus
    <3>2. Shape(a)
      BY Parts
    <3> QED BY <1>1, <2>1, <3>1, <3>2 DEF CallInv, Todo, Shape, Built, Found, Served, RunStatus,
            BuildPoints, ServePoints, SidecarPoints
  <2>3. LabelInv(a)'
    BY <1>1, Parts, NoLabels DEF SidecarPoints
  <2>4. Runtimes'
    BY <1>1, <2>1, Parts, SameRuntimes
  <2> QED BY <1>1, <2>1, <2>2, <2>3, <2>4, StepInvariant
<1>3. CASE Go(a, "ended") /\ DockerFails(FALSE)
  BY <1>1, <1>3, FailedEarly
<1> QED BY <1>2, <1>3 DEF Connect

\* RecordAgentRun.
LEMMA RecordInvariant == ASSUME Invariant, NEW a \in Agents, RecordAgentRun(a) PROVE Invariant'
<1> USE DEF StartPoints
<1>1. /\ call[a].pc = "record" /\ network' \in {network, TRUE}
      /\ agentRun' = [agentRun EXCEPT ![a] = "starting"]
      /\ UNCHANGED <<docker, keys, rows, runtime, disturbed>>
  BY DEF RecordAgentRun, At
<1>2. CASE Go(a, "lookup") /\ network' = TRUE /\ UNCHANGED faults
  <2>1. /\ StepOf(a)
        /\ call'[a].pc = "lookup" /\ call'[a].runtime = call[a].runtime
        /\ call'[a].todo = call[a].todo /\ call'[a].tools = call[a].tools
    BY <1>1, <1>2, Parts, PlainStep DEF Statuses
  <2>2. CallInv(a)'
    <3>1. agentRun'[a] = "starting"
      BY <1>1, Parts DEF TypeOK
    <3>2. Shape(a)
      BY Parts
    <3> QED BY <1>1, <2>1, <3>1, <3>2 DEF CallInv, Todo, Shape, Built, Found, Served, RunStatus,
            BuildPoints, ServePoints, SidecarPoints
  <2>3. LabelInv(a)'
    BY <1>1, Parts, NoLabels DEF SidecarPoints
  <2>4. Runtimes'
    BY <1>1, <2>1, Parts, SameRuntimes
  <2> QED BY <1>1, <2>1, <2>2, <2>3, <2>4, StepInvariant
<1>3. CASE Raise(a, FALSE)
  BY <1>1, <1>3, FailedEarly DEF Raise
<1> QED BY <1>2, <1>3 DEF RecordAgentRun

\* The columns of a row, as the caller gets to see them.
LEMMA SnapshotType == ASSUME TypeOK, NEW r \in Agents \cup {None} PROVE Snapshot(r) \in FoundType
<1>1. CASE r = None
  BY <1>1 DEF Snapshot, NoRuntime, FoundType
<1>2. CASE r # None
  <2>1. runtime[r] \in RuntimeType
    BY <1>2, TypeParts DEF RowsType
  <2> QED BY <1>2, <2>1 DEF Snapshot, FoundType, RuntimeType
<1> QED BY <1>1, <1>2

\* LookUpRuntime.
LEMMA LookUpInvariant == ASSUME Invariant, NEW a \in Agents, LookUpRuntime(a) PROVE Invariant'
<1> DEFINE next == IF ActiveRuntime = None THEN "insert" ELSE "reuse"
<1>1. /\ call[a].pc = "lookup" /\ Noise
      /\ call' = [call EXCEPT ![a].pc = next, ![a].runtime = Snapshot(ActiveRuntime)]
      /\ UNCHANGED <<docker, network, keys, rows, runtime, agentRun, disturbed, faults>>
  BY DEF LookUpRuntime, At
<1>2. TypeOK /\ Runtimes /\ Shape(a) /\ LabelInv(a)
  BY Parts
<1>3. PICK rt \in FoundType : rt = Snapshot(ActiveRuntime)
  <2>1. ActiveRuntime \in Agents \cup {None}
    BY <1>2, ActiveFound
  <2> QED BY <1>2, <2>1, SnapshotType
<1>4. \/ next = "insert" /\ rt = NoRuntime
      \/ /\ next = "reuse" /\ rt.id \in Agents /\ IsActiveRow(rt.id) /\ InRows(rt.id)
         /\ rt.tools = runtime[rt.id].tools /\ rt.endpoint = runtime[rt.id].endpoint
  BY <1>2, <1>3, ActiveFound, RuntimeAssumption DEF Snapshot
<1>5. next \in {"insert", "reuse"}
  OBVIOUS
<1> HIDE DEF next
<1>6. /\ CallStep(a)
      /\ call'[a].pc = next /\ call'[a].runtime = rt /\ call'[a].tools = call[a].tools
  <2>1. call \in [Agents -> CallType]
    BY <1>2, TypeParts DEF CallsType
  <2>2. PICK e \in CallType : e = [call[a] EXCEPT !.pc = next, !.runtime = rt]
    BY <1>3, <1>5, <2>1 DEF CallType, StartPoints
  <2>3. e.pc = next /\ e.runtime = rt /\ e.tools = call[a].tools
    BY <2>1, <2>2 DEF CallType
  <2>4. call' = [call EXCEPT ![a] = e]
    BY <1>1, <1>3, <2>1, <2>2
  <2> QED BY <1>1, <2>1, <2>3, <2>4, CallPut DEF CallStep
<1>7. StepOf(a)
  <2>1. faults' \in 0..MaxFaults /\ network' \in BOOLEAN
    BY <1>1, <1>2 DEF TypeOK
  <2> QED BY <1>1, <1>2, <1>6, <2>1, SameDocker, SameRows DEF StepOf
<1>8. CallInv(a)'
  <2>1. agentRun'[a] = "starting"
    BY <1>1, Parts DEF RunStatus, StartPoints
  <2>2. Todo(a)' /\ Built(a)' /\ Served(a)' /\ RunStatus(a)'
    BY <1>5, <1>6, <2>1 DEF Todo, Built, Served, RunStatus, BuildPoints, ServePoints, SidecarPoints,
       StartPoints
  <2>3. \A c \in rt.tools : c.kind = "mcp"
    BY <1>2, <1>4 DEF NoRuntime, Runtimes, RuntimeInv
  <2>4. Shape(a)'
    BY <1>1, <1>2, <1>5, <1>6, <2>3 DEF Shape, BuildPoints
  <2>5. Found(a)'
    <3> SUFFICES ASSUME next = "reuse"
                 PROVE  /\ rt.id \in Agents /\ InRows(rt.id)
                        /\ rt.id \notin disturbed => /\ rt.tools \subseteq docker \cap keys
                                                     /\ rt.endpoint => Runner(rt.id) \in docker
      BY <1>1, <1>6 DEF Found, Relies, InRows
    <3>1. /\ rt.id \in Agents /\ IsActiveRow(rt.id) /\ InRows(rt.id)
          /\ rt.tools = runtime[rt.id].tools /\ rt.endpoint = runtime[rt.id].endpoint
      BY <1>4
    <3>2. RuntimeInv(rt.id)
      BY <1>2, <3>1 DEF Runtimes
    <3> QED BY <3>1, <3>2 DEF RuntimeInv
  <2> QED BY <2>2, <2>4, <2>5 DEF CallInv
<1>9. LabelInv(a)'
  BY <1>1, <1>2, NoLabels DEF SidecarPoints
<1>10. Runtimes'
  BY <1>1, <1>2, <1>7, SameRuntimes
<1> QED BY <1>1, <1>7, <1>8, <1>9, <1>10, StepInvariant

\* What start_agent_run does with a complete runtime rt: the agent is served by
\* it as long as no cleanup_run meets the agent or the maker of rt.
LEMMA ServeInvariant ==
    ASSUME Invariant, NEW a \in Agents, call[a].pc \in {"reuse", "reread"},
           NEW rt \in FoundType, rt.id \in Agents, Serve(a, rt),
           UNCHANGED <<docker, network, keys, agentRun, disturbed, faults>>,
           RowsStep(a), StepOf(a) => Runtimes', \A c \in rt.tools : c.kind = "mcp",
           a \notin disturbed /\ rt.id \notin disturbed =>
              rt.tools \subseteq docker \cap keys /\ (rt.endpoint => Runner(rt.id) \in docker)
    PROVE  Invariant'
<1> DEFINE found == {c \in rt.tools : c.tool \in Requires[a]}
           missing == Requires[a] \ {c.tool : c \in found}
           inSession == a \in Kimi /\ rt.endpoint
           next == IF inSession THEN "inSession" ELSE IF missing = {} THEN "startAgent" ELSE "createSidecar"
           todo == IF inSession THEN {} ELSE missing
<1>1. /\ call' = [call EXCEPT ![a] = [runtime |-> rt, tools |-> found, todo |-> todo, pc |-> next]] /\ Noise
  BY DEF Serve
<1>2. /\ found \subseteq rt.tools /\ todo \subseteq Tools
      /\ next \in {"inSession", "startAgent", "createSidecar"}
      /\ next = "inSession" => rt.endpoint
      /\ next = "createSidecar" => todo # {}
  BY RuntimeAssumption
<1> HIDE DEF found, missing, inSession, next, todo
<1>3. TypeOK /\ LabelInv(a) /\ RunStatus(a)
  BY Parts
<1>4. /\ CallStep(a)
      /\ call'[a].pc = next /\ call'[a].runtime = rt /\ call'[a].tools = found /\ call'[a].todo = todo
  <2>1. call \in [Agents -> CallType]
    BY <1>3, TypeParts DEF CallsType
  <2>2. rt.tools \subseteq Container
    BY DEF FoundType
  <2>3. [runtime |-> rt, tools |-> found, todo |-> todo, pc |-> next] \in CallType
    BY <1>2, <2>2 DEF CallType, StartPoints
  <2> QED BY <1>1, <2>1, <2>3 DEF CallStep
<1>5. StepOf(a)
  <2>1. faults' \in 0..MaxFaults /\ network' \in BOOLEAN
    BY <1>3 DEF TypeOK
  <2> QED BY <1>3, <1>4, <2>1, SameDocker DEF StepOf
<1>6. CallInv(a)'
  <2>1. agentRun'[a] = "starting"
    BY <1>3 DEF RunStatus, StartPoints
  <2>2. Todo(a)' /\ Shape(a)' /\ Built(a)' /\ Found(a)' /\ RunStatus(a)'
    BY <1>2, <1>4, <2>1 DEF Todo, Shape, Built, Found, RunStatus, BuildPoints, StartPoints
  <2>3. Served(a)'
    <3>1. Relies(a)' <=> a \notin disturbed /\ rt.id \notin disturbed
      BY <1>4 DEF Relies
    <3>2. docker' = docker /\ keys' = keys
      OBVIOUS
    <3> QED BY <1>2, <1>4, <3>1, <3>2 DEF Served
  <2> QED BY <2>2, <2>3 DEF CallInv
<1>7. LabelInv(a)'
  BY <1>3, NoLabels DEF SidecarPoints
<1> QED BY <1>5, <1>6, <1>7, StepInvariant

\* ReuseRuntime.
LEMMA ReuseInvariant == ASSUME Invariant, NEW a \in Agents, ReuseRuntime(a) PROVE Invariant'
<1>1. /\ call[a].pc = "reuse"
      /\ runtime' = [runtime EXCEPT ![call[a].runtime.id].status = "running"]
      /\ Serve(a, call[a].runtime)
      /\ UNCHANGED <<docker, network, keys, rows, agentRun, disturbed, faults>>
  BY DEF ReuseRuntime, At
<1>2. TypeOK /\ Runtimes /\ Shape(a) /\ Found(a)
  BY Parts
<1>3. PICK rt \in FoundType : rt = call[a].runtime
  <2>1. call[a] \in CallType
    BY <1>2, TypeParts DEF CallsType
  <2> QED BY <2>1 DEF CallType
<1>4. /\ rt.id \in Agents /\ InRows(rt.id)
      /\ a \notin disturbed /\ rt.id \notin disturbed =>
            rt.tools \subseteq docker \cap keys /\ (rt.endpoint => Runner(rt.id) \in docker)
  BY <1>1, <1>2, <1>3 DEF Found, Relies
<1>5. \A c \in rt.tools : c.kind = "mcp"
  BY <1>2, <1>3 DEF Shape
<1>6. /\ runtime' \in [Agents -> RuntimeType] /\ \A r \in Agents \ {rt.id} : runtime'[r] = runtime[r]
      /\ runtime'[rt.id].status = "running" /\ runtime'[rt.id].cleaned = runtime[rt.id].cleaned
      /\ runtime'[rt.id].tools = runtime[rt.id].tools /\ runtime'[rt.id].endpoint = runtime[rt.id].endpoint
  <2>1. runtime \in [Agents -> RuntimeType] /\ runtime' = [runtime EXCEPT ![rt.id].status = "running"]
    BY <1>1, <1>2, <1>3, TypeParts DEF RowsType
  <2> QED BY <1>4, <2>1 DEF RuntimeType
<1>7. RowsStep(a)
  BY <1>1, <1>2, <1>6, TypeParts DEF RowsStep, RowsType, CallsType, InRows
<1>8. ASSUME StepOf(a) PROVE Runtimes'
  <2>1. \A r : InRows(r)' <=> InRows(r)
    BY <1>1 DEF InRows
  <2>2. ASSUME NEW r \in Agents \ {rt.id} PROVE RuntimeInv(r)'
    BY <1>2, <1>6, <1>8, <2>1, OtherRuntimes DEF Runtimes
  <2>3. RuntimeInv(rt.id)
    BY <1>2, <1>4 DEF Runtimes
  <2>4. RuntimeInv(rt.id)'
    BY <1>1, <1>4, <1>6, <2>1, <2>3 DEF RuntimeInv, IsActiveRow
  <2> QED BY <2>2, <2>4 DEF Runtimes
<1>9. Serve(a, rt)
  BY <1>1, <1>3
<1> QED BY <1>1, <1>4, <1>5, <1>7, <1>8, <1>9, ServeInvariant

\* RereadRuntime.
LEMMA RereadInvariant == ASSUME Invariant, NEW a \in Agents, RereadRuntime(a) PROVE Invariant'
<1>1. /\ call[a].pc = "reread"
      /\ Serve(a, IF ActiveRuntime = None THEN [id |-> a, tools |-> call[a].tools, endpoint |-> FALSE]
                  ELSE Snapshot(ActiveRuntime))
      /\ UNCHANGED <<docker, network, keys, rows, runtime, agentRun, disturbed, faults>>
  BY DEF RereadRuntime, At
<1>2. TypeOK /\ Runtimes /\ Shape(a) /\ Built(a)
  BY Parts
<1>3. RowsStep(a) /\ (StepOf(a) => Runtimes')
  BY <1>1, <1>2, SameRows, SameRuntimes
<1>4. CASE ActiveRuntime = None
  <2>1. PICK rt \in FoundType : rt = [id |-> a, tools |-> call[a].tools, endpoint |-> FALSE]
    <3>1. call[a] \in CallType
      BY <1>2, TypeParts DEF CallsType
    <3> QED BY <3>1 DEF CallType, FoundType
  <2>2. rt.id = a /\ rt.tools = call[a].tools /\ rt.endpoint = FALSE
    BY <2>1
  <2>3. Serve(a, rt)
    BY <1>1, <1>4, <2>1
  <2>4. \A c \in rt.tools : c.kind = "mcp"
    BY <1>1, <1>2, <2>2 DEF Shape, BuildPoints
  <2>5. a \notin disturbed => rt.tools \subseteq docker \cap keys
    BY <1>1, <1>2, <2>2 DEF Built, BuildPoints
  <2> QED BY <1>1, <1>3, <2>2, <2>3, <2>4, <2>5, ServeInvariant
<1>5. CASE ActiveRuntime # None
  <2>1. ActiveRuntime \in Agents /\ IsActiveRow(ActiveRuntime)
    BY <1>2, <1>5, ActiveFound
  <2>2. PICK rt \in FoundType : rt = Snapshot(ActiveRuntime)
    BY <1>2, <2>1, SnapshotType
  <2>3. /\ rt.id \in Agents /\ IsActiveRow(rt.id)
        /\ rt.tools = runtime[rt.id].tools /\ rt.endpoint = runtime[rt.id].endpoint
    BY <1>5, <2>1, <2>2 DEF Snapshot
  <2>4. Serve(a, rt)
    BY <1>1, <1>5, <2>2
  <2>5. RuntimeInv(rt.id)
    BY <1>2, <2>3 DEF Runtimes
  <2>6. \A c \in rt.tools : c.kind = "mcp"
    BY <2>3, <2>5 DEF RuntimeInv
  <2>7. rt.id \notin disturbed => rt.tools \subseteq docker \cap keys /\ (rt.endpoint => Runner(rt.id) \in docker)
    BY <2>3, <2>5 DEF RuntimeInv
  <2> QED BY <1>1, <1>3, <2>3, <2>4, <2>6, <2>7, ServeInvariant
<1> QED BY <1>4, <1>5

-----------------------------------------------------------------------------
(* The steps that make a runtime *)

\* InsertRuntime.
LEMMA InsertInvariant == ASSUME Invariant, NEW a \in Agents, InsertRuntime(a) PROVE Invariant'
<1> DEFINE next == IF Requires[a] = {} THEN RunnerPoint(a) ELSE "create"
<1>1. /\ call[a].pc = "insert" /\ Noise
      /\ call' = [call EXCEPT ![a].pc = next, ![a].todo = Requires[a]]
      /\ rows' = Append(rows, a) /\ runtime' = [runtime EXCEPT ![a].status = "starting"]
      /\ UNCHANGED <<docker, network, keys, agentRun, disturbed, faults>>
  BY DEF InsertRuntime, At
<1>2. TypeOK /\ Runtimes /\ Shape(a) /\ LabelInv(a) /\ RunStatus(a)
  BY Parts
<1>3. next \in {"create", "createRunner", "finish"} /\ (next = "finish" => a \notin Kimi)
      /\ (next = "create" => Requires[a] # {})
  BY DEF RunnerPoint
<1> HIDE DEF next
<1>4. /\ CallStep(a)
      /\ call'[a].pc = next /\ call'[a].tools = {} /\ call'[a].todo = Requires[a]
      /\ call'[a].runtime = call[a].runtime
  <2>1. call \in [Agents -> CallType] /\ Requires[a] \subseteq Tools
    BY <1>2, TypeParts, RuntimeAssumption DEF CallsType
  <2>2. call[a].tools = {}
    BY <1>1, <1>2 DEF Shape
  <2> QED BY <1>1, <1>3, <2>1, <2>2 DEF CallStep, CallType, StartPoints
<1>5. /\ rows' \in Seq(Agents) /\ \A r \in Agents : InRows(r)' <=> InRows(r) \/ r = a
  <2>1. /\ Len(rows) \in Nat /\ rows' \in Seq(Agents) /\ Len(rows') = Len(rows) + 1
        /\ \A i \in 1..Len(rows) : rows'[i] = rows[i]
        /\ rows'[Len(rows) + 1] = a
        /\ DOMAIN rows = 1..Len(rows) /\ DOMAIN rows' = 1..(Len(rows) + 1)
    BY <1>1, <1>2 DEF TypeOK
  <2>2. 1..(Len(rows) + 1) = 1..Len(rows) \cup {Len(rows) + 1}
    BY <2>1
  <2>3. ASSUME NEW r \in Agents PROVE InRows(r)' <=> InRows(r) \/ r = a
    <3>1. ASSUME NEW i \in 1..Len(rows), rows[i] = r PROVE InRows(r)'
      BY <2>1, <2>2, <3>1 DEF InRows
    <3>2. ASSUME NEW i \in 1..(Len(rows) + 1), rows'[i] = r PROVE InRows(r) \/ r = a
      BY <2>1, <2>2, <3>2 DEF InRows
    <3>3. InRows(a)'
      <4>1. Len(rows) + 1 \in 1..(Len(rows) + 1)
        BY <2>2
      <4> QED BY <2>1, <4>1 DEF InRows
    <3> QED BY <2>1, <3>1, <3>2, <3>3 DEF InRows
  <2> QED BY <2>1, <2>3
<1>6. /\ runtime' \in [Agents -> RuntimeType] /\ \A r \in Agents \ {a} : runtime'[r] = runtime[r]
      /\ runtime'[a].status = "starting" /\ runtime'[a].cleaned = runtime[a].cleaned
      /\ runtime'[a].tools = runtime[a].tools /\ runtime'[a].endpoint = runtime[a].endpoint
  <2>1. runtime \in [Agents -> RuntimeType]
    BY <1>2, TypeParts DEF RowsType
  <2> QED BY <1>1, <2>1 DEF RuntimeType
<1>7. StepOf(a)
  <2>1. faults' \in 0..MaxFaults /\ network' \in BOOLEAN
    BY <1>1, <1>2 DEF TypeOK
  <2>2. DockerStep(a)
    BY <1>1, <1>2, <2>1, SameDocker
  <2>3. RowsStep(a)
    BY <1>1, <1>2, <1>5, <1>6, TypeParts DEF RowsStep, RowsType, CallsType
  <2> QED BY <1>4, <2>2, <2>3 DEF StepOf
<1>8. CallInv(a)'
  <2>1. agentRun'[a] = "starting"
    BY <1>1, <1>2 DEF RunStatus, StartPoints
  <2>2. Todo(a)' /\ Built(a)' /\ Found(a)' /\ Served(a)' /\ RunStatus(a)'
    BY <1>3, <1>4, <1>5, <2>1 DEF Todo, Built, Found, Served, RunStatus, BuildPoints, ServePoints,
       SidecarPoints, StartPoints
  <2>3. Shape(a)'
    BY <1>2, <1>3, <1>4 DEF Shape
  <2> QED BY <2>2, <2>3 DEF CallInv
<1>9. LabelInv(a)'
  BY <1>1, <1>2, NoLabels DEF SidecarPoints
<1>10. Runtimes'
  <2>1. ASSUME NEW r \in Agents \ {a} PROVE RuntimeInv(r)'
    BY <1>2, <1>5, <1>6, <1>7, OtherRuntimes DEF Runtimes
  <2>2. RuntimeInv(a)'
    <3>1. RuntimeInv(a)
      BY <1>2 DEF Runtimes
    <3> QED BY <1>1, <1>5, <1>6, <3>1 DEF RuntimeInv, IsActiveRow
  <2> QED BY <2>1, <2>2 DEF Runtimes
<1> QED BY <1>1, <1>7, <1>8, <1>9, <1>10, StepInvariant

\* The next server to be made is one of those that are left.
LEMMA NextToolType ==
    ASSUME TypeOK, NEW a \in Agents, Todo(a),
           call[a].pc \in {"create", "wait", "createSidecar", "waitSidecar"}
    PROVE  NextTool(a) \in Tools /\ NextTool(a) \in call[a].todo
<1>1. call[a].todo # {} /\ call[a].todo \subseteq Tools
  BY TypeParts DEF Todo, CallsType, CallType
<1> QED BY <1>1 DEF NextTool

\* CreateMcp.
LEMMA CreateMcpInvariant == ASSUME Invariant, NEW a \in Agents, CreateMcp(a) PROVE Invariant'
<1>1. call[a].pc = "create" /\ UNCHANGED <<network, rows, runtime, agentRun, disturbed>>
  BY DEF CreateMcp, At
<1>2. TypeOK /\ Runtimes /\ Todo(a) /\ Shape(a) /\ Built(a) /\ LabelInv(a) /\ RunStatus(a)
  BY Parts
<1>3. PICK c \in Container : c = Mcp(a, NextTool(a))
  BY <1>1, <1>2, NextToolType, Containers
<1>4. c.of = a /\ c.kind = "mcp" /\ ~HasAgentLabel(c)
  BY <1>3 DEF Mcp, HasAgentLabel
<1>5. keys' = keys \cup {c} /\ CreateContainer(a, c, "wait")
  BY <1>3 DEF CreateMcp, CreateServer
<1>6. CASE docker' = docker \cup {c} /\ Go(a, "wait") /\ faults' = faults
  <2>1. /\ StepOf(a)
        /\ call'[a].pc = "wait" /\ call'[a].runtime = call[a].runtime
        /\ call'[a].todo = call[a].todo /\ call'[a].tools = call[a].tools
    BY <1>1, <1>2, <1>4, <1>5, <1>6, CreatedStep DEF StartPoints
  <2>2. CallInv(a)'
    <3>1. agentRun'[a] = "starting"
      BY <1>1, <1>2 DEF RunStatus, StartPoints
    <3>2. Todo(a)' /\ Found(a)' /\ Served(a)' /\ RunStatus(a)' /\ Shape(a)'
      BY <1>1, <1>2, <2>1, <3>1 DEF Todo, Found, Served, RunStatus, Shape, BuildPoints, ServePoints,
         SidecarPoints, StartPoints
    <3>3. NextTool(a)' = NextTool(a) /\ Mcp(a, NextTool(a)) \in keys'
      BY <1>3, <1>5, <2>1 DEF NextTool
    <3>4. InRows(a)'
      BY <1>1, <1>2 DEF Built, BuildPoints, InRows
    <3>5. Built(a)'
      BY <1>1, <1>2, <1>5, <1>6, <2>1, <3>3, <3>4 DEF Built, BuildPoints
    <3> QED BY <3>2, <3>5 DEF CallInv
  <2>3. LabelInv(a)'
    BY <1>1, <1>2, <1>4, <1>6, NoLabels DEF SidecarPoints
  <2>4. Runtimes'
    BY <1>1, <1>2, <2>1, SameRuntimes
  <2> QED BY <1>1, <2>1, <2>2, <2>3, <2>4, StepInvariant
<1>7. CASE docker' \in {docker, docker \cup {c}} /\ Raise(a, ~network)
  <2>1. keys' \subseteq Container
    BY <1>2, <1>5 DEF TypeOK
  <2> QED BY <1>1, <1>4, <1>5, <1>7, <2>1, RaiseInvariant DEF StartPoints
<1> QED BY <1>5, <1>6, <1>7 DEF CreateContainer

\* What a server that answers adds to a call.
LEMMA WaitStep ==
    ASSUME TypeOK, NEW a \in Agents, NEW c \in Container, c.tool \in call[a].todo, NEW next \in StartPoints,
           call' = [call EXCEPT ![a].pc = next, ![a].todo = @ \ {c.tool}, ![a].tools = @ \cup {c}],
           Noise, UNCHANGED <<docker, network, keys, rows, runtime, agentRun, disturbed, faults>>
    PROVE  /\ StepOf(a)
           /\ call'[a].pc = next /\ call'[a].runtime = call[a].runtime
           /\ call'[a].todo = call[a].todo \ {c.tool} /\ call'[a].tools = call[a].tools \cup {c}
<1>1. call \in [Agents -> CallType] /\ faults' \in 0..MaxFaults /\ network' \in BOOLEAN
  BY TypeParts DEF CallsType, TypeOK
<1>2. /\ CallStep(a)
      /\ call'[a].pc = next /\ call'[a].runtime = call[a].runtime
      /\ call'[a].todo = call[a].todo \ {c.tool} /\ call'[a].tools = call[a].tools \cup {c}
  BY <1>1 DEF CallStep, CallType
<1> QED BY <1>1, <1>2, SameDocker, SameRows DEF StepOf

\* After the last server comes the next point, before it the loop.
LEMMA MoreFacts ==
    ASSUME NEW a, NEW again, NEW after
    PROVE  \/ More(a, again, after) = again /\ call[a].todo \ {NextTool(a)} # {}
           \/ More(a, again, after) = after
BY DEF More

\* WaitMcp.
LEMMA WaitMcpInvariant == ASSUME Invariant, NEW a \in Agents, WaitMcp(a) PROVE Invariant'
<1> DEFINE next == More(a, "create", RunnerPoint(a))
<1>1. /\ call[a].pc = "wait" /\ UNCHANGED <<docker, network, keys, rows, runtime, agentRun, disturbed>>
      /\ WaitForServer(a, Mcp(a, NextTool(a)), next)
  BY DEF WaitMcp, At
<1>2. TypeOK /\ Runtimes /\ Todo(a) /\ Shape(a) /\ Built(a) /\ LabelInv(a) /\ RunStatus(a)
  BY Parts
<1>3. PICK c \in Container : c = Mcp(a, NextTool(a))
  BY <1>1, <1>2, NextToolType, Containers
<1>4. c.kind = "mcp" /\ c.tool = NextTool(a) /\ c.tool \in call[a].todo
  BY <1>1, <1>2, <1>3, NextToolType DEF Mcp
<1>5. PICK point \in {"create", "createRunner", "finish"} : point = next
  BY MoreFacts DEF RunnerPoint
<1>6. /\ point = "create" => call[a].todo \ {c.tool} # {}
      /\ point = "finish" => a \notin Kimi
  BY <1>4, <1>5, MoreFacts DEF RunnerPoint
<1> HIDE DEF next
<1>7. CASE /\ c \in docker /\ Noise /\ faults' = faults
           /\ call' = [call EXCEPT ![a].pc = point, ![a].todo = @ \ {c.tool}, ![a].tools = @ \cup {c}]
  <2>1. /\ StepOf(a)
        /\ call'[a].pc = point /\ call'[a].runtime = call[a].runtime
        /\ call'[a].todo = call[a].todo \ {c.tool} /\ call'[a].tools = call[a].tools \cup {c}
    <3>1. point \in StartPoints
      BY DEF StartPoints
    <3> QED BY <1>1, <1>2, <1>4, <1>7, <3>1, WaitStep
  <2>2. CallInv(a)'
    <3>1. agentRun'[a] = "starting"
      BY <1>1, <1>2 DEF RunStatus, StartPoints
    <3>2. Todo(a)' /\ Found(a)' /\ Served(a)' /\ RunStatus(a)'
      BY <1>6, <2>1, <3>1 DEF Todo, Found, Served, RunStatus, ServePoints, SidecarPoints, StartPoints
    <3>3. Shape(a)'
      BY <1>1, <1>2, <1>4, <2>1 DEF Shape, BuildPoints
    <3>4. InRows(a)'
      BY <1>1, <1>2 DEF Built, BuildPoints, InRows
    <3>5. Built(a)'
      <4>1. a \notin disturbed => call[a].tools \subseteq docker \cap keys /\ c \in docker \cap keys
        BY <1>1, <1>2, <1>3, <1>7 DEF Built, BuildPoints
      <4> QED BY <1>1, <1>6, <2>1, <3>4, <4>1 DEF Built
    <3> QED BY <3>2, <3>3, <3>5 DEF CallInv
  <2>3. LabelInv(a)'
    BY <1>1, <1>2, NoLabels DEF SidecarPoints
  <2>4. Runtimes'
    BY <1>1, <1>2, <2>1, SameRuntimes
  <2> QED BY <1>1, <2>1, <2>2, <2>3, <2>4, StepInvariant
<1>8. CASE Raise(a, c \notin docker)
  <2>1. keys' \subseteq Container
    BY <1>1, <1>2 DEF TypeOK
  <2> QED BY <1>1, <1>8, <2>1, RaiseInvariant DEF StartPoints
<1> QED BY <1>1, <1>3, <1>5, <1>7, <1>8 DEF WaitForServer

\* CreateRunner.
LEMMA CreateRunnerInvariant == ASSUME Invariant, NEW a \in Agents, CreateRunner(a) PROVE Invariant'
<1>1. call[a].pc = "createRunner" /\ UNCHANGED <<network, keys, rows, runtime, agentRun, disturbed>>
  BY DEF CreateRunner, At
<1>2. TypeOK /\ Runtimes /\ Shape(a) /\ Built(a) /\ LabelInv(a) /\ RunStatus(a)
  BY Parts
<1>3. PICK c \in Container : c = Runner(a)
  BY Containers
<1>4. c.of = a /\ ~HasAgentLabel(c) /\ CreateContainer(a, c, "waitRunner")
  BY <1>3 DEF Runner, HasAgentLabel, CreateRunner
<1>5. CASE docker' = docker \cup {c} /\ Go(a, "waitRunner") /\ faults' = faults
  <2>1. /\ StepOf(a)
        /\ call'[a].pc = "waitRunner" /\ call'[a].runtime = call[a].runtime
        /\ call'[a].todo = call[a].todo /\ call'[a].tools = call[a].tools
    BY <1>1, <1>2, <1>4, <1>5, CreatedStep DEF StartPoints
  <2>2. CallInv(a)'
    <3>1. agentRun'[a] = "starting"
      BY <1>1, <1>2 DEF RunStatus, StartPoints
    <3>2. Todo(a)' /\ Found(a)' /\ Served(a)' /\ RunStatus(a)' /\ Shape(a)'
      BY <1>1, <1>2, <2>1, <3>1 DEF Todo, Found, Served, RunStatus, Shape, BuildPoints, ServePoints,
         SidecarPoints, StartPoints
    <3>3. InRows(a)'
      BY <1>1, <1>2 DEF Built, BuildPoints, InRows
    <3>4. Built(a)'
      BY <1>1, <1>2, <1>5, <2>1, <3>3 DEF Built, BuildPoints
    <3> QED BY <3>2, <3>4 DEF CallInv
  <2>3. LabelInv(a)'
    BY <1>1, <1>2, <1>4, <1>5, NoLabels DEF SidecarPoints
  <2>4. Runtimes'
    BY <1>1, <1>2, <2>1, SameRuntimes
  <2> QED BY <1>1, <2>1, <2>2, <2>3, <2>4, StepInvariant
<1>6. CASE docker' \in {docker, docker \cup {c}} /\ Raise(a, ~network)
  <2>1. keys' \subseteq Container
    BY <1>1, <1>2 DEF TypeOK
  <2> QED BY <1>1, <1>4, <1>6, <2>1, RaiseInvariant DEF StartPoints
<1> QED BY <1>4, <1>5, <1>6 DEF CreateContainer

\* WaitRunner.
LEMMA WaitRunnerInvariant == ASSUME Invariant, NEW a \in Agents, WaitRunner(a) PROVE Invariant'
<1>1. call[a].pc = "waitRunner" /\ UNCHANGED <<docker, network, keys, rows, runtime, agentRun, disturbed>>
  BY DEF WaitRunner, At
<1>2. TypeOK /\ Runtimes /\ Shape(a) /\ Built(a) /\ LabelInv(a) /\ RunStatus(a)
  BY Parts
<1>3. CASE Runner(a) \in docker /\ Go(a, "finish") /\ faults' = faults
  <2>1. /\ StepOf(a)
        /\ call'[a].pc = "finish" /\ call'[a].runtime = call[a].runtime
        /\ call'[a].todo = call[a].todo /\ call'[a].tools = call[a].tools
    <3>1. network' \in BOOLEAN
      BY <1>1, <1>2 DEF TypeOK
    <3> QED BY <1>1, <1>2, <1>3, <3>1, PlainStep DEF StartPoints
  <2>2. CallInv(a)'
    <3>1. agentRun'[a] = "starting"
      BY <1>1, <1>2 DEF RunStatus, StartPoints
    <3>2. Todo(a)' /\ Found(a)' /\ Served(a)' /\ RunStatus(a)' /\ Shape(a)'
      BY <1>1, <1>2, <2>1, <3>1 DEF Todo, Found, Served, RunStatus, Shape, BuildPoints, ServePoints,
         SidecarPoints, StartPoints
    <3>3. InRows(a)'
      BY <1>1, <1>2 DEF Built, BuildPoints, InRows
    <3>4. Built(a)'
      BY <1>1, <1>2, <1>3, <2>1, <3>3 DEF Built, BuildPoints
    <3> QED BY <3>2, <3>4 DEF CallInv
  <2>3. LabelInv(a)'
    BY <1>1, <1>2, NoLabels DEF SidecarPoints
  <2>4. Runtimes'
    BY <1>1, <1>2, <2>1, SameRuntimes
  <2> QED BY <1>1, <2>1, <2>2, <2>3, <2>4, StepInvariant
<1>4. CASE Raise(a, Runner(a) \notin docker)
  <2>1. keys' \subseteq Container
    BY <1>1, <1>2 DEF TypeOK
  <2> QED BY <1>1, <1>4, <2>1, RaiseInvariant DEF StartPoints
<1> QED BY <1>3, <1>4 DEF WaitRunner

\* FinishRuntime: what was built becomes the active runtime.
LEMMA FinishInvariant == ASSUME Invariant, NEW a \in Agents, FinishRuntime(a) PROVE Invariant'
<1>1. /\ call[a].pc = "finish" /\ Go(a, "reread")
      /\ runtime' = [runtime EXCEPT ![a] = [status |-> "running", cleaned |-> FALSE,
                                            tools |-> call[a].tools, endpoint |-> a \in Kimi]]
      /\ UNCHANGED <<docker, network, keys, rows, agentRun, disturbed, faults>>
  BY DEF FinishRuntime, At
<1>2. TypeOK /\ Runtimes /\ Shape(a) /\ Built(a) /\ LabelInv(a) /\ RunStatus(a)
  BY Parts
<1>3. /\ CallStep(a)
      /\ call'[a].pc = "reread" /\ call'[a].runtime = call[a].runtime
      /\ call'[a].todo = call[a].todo /\ call'[a].tools = call[a].tools
  BY <1>1, <1>2, GoStep DEF StartPoints
<1>4. /\ runtime' \in [Agents -> RuntimeType] /\ \A r \in Agents \ {a} : runtime'[r] = runtime[r]
      /\ runtime'[a].status = "running" /\ ~runtime'[a].cleaned
      /\ runtime'[a].tools = call[a].tools /\ (runtime'[a].endpoint <=> a \in Kimi)
  <2>1. runtime \in [Agents -> RuntimeType] /\ call[a].tools \subseteq Container
    BY <1>2, TypeParts DEF RowsType, CallsType, CallType
  <2>2. PICK kimi \in BOOLEAN : kimi = (a \in Kimi)
    <3>1. (a \in Kimi) = TRUE \/ (a \in Kimi) = FALSE
      OBVIOUS
    <3> QED BY <3>1, Zenon
  <2>3. runtime' = [runtime EXCEPT ![a] = [status |-> "running", cleaned |-> FALSE,
                                           tools |-> call[a].tools, endpoint |-> kimi]]
    BY <1>1, <2>2
  <2>4. /\ runtime' \in [Agents -> RuntimeType] /\ \A r \in Agents \ {a} : runtime'[r] = runtime[r]
        /\ runtime'[a].status = "running" /\ runtime'[a].cleaned = FALSE
        /\ runtime'[a].tools = call[a].tools /\ runtime'[a].endpoint = kimi
    BY <2>1, <2>3 DEF RuntimeType
  <2> QED BY <2>2, <2>4
<1>5. StepOf(a)
  <2>1. faults' \in 0..MaxFaults /\ network' \in BOOLEAN
    BY <1>1, <1>2 DEF TypeOK
  <2>2. DockerStep(a)
    BY <1>1, <1>2, <2>1, SameDocker
  <2>3. RowsStep(a)
    BY <1>1, <1>2, <1>4, TypeParts DEF RowsStep, RowsType, CallsType, InRows
  <2> QED BY <1>3, <2>2, <2>3 DEF StepOf
<1>6. InRows(a) /\ InRows(a)'
  BY <1>1, <1>2 DEF Built, BuildPoints, InRows
<1>7. CallInv(a)'
  <2>1. agentRun'[a] = "starting"
    BY <1>1, <1>2 DEF RunStatus, StartPoints
  <2>2. Todo(a)' /\ Found(a)' /\ Served(a)' /\ RunStatus(a)' /\ Shape(a)'
    BY <1>1, <1>2, <1>3, <2>1 DEF Todo, Found, Served, RunStatus, Shape, BuildPoints, ServePoints,
       SidecarPoints, StartPoints
  <2>3. Built(a)'
    BY <1>1, <1>2, <1>3, <1>6 DEF Built, BuildPoints
  <2> QED BY <2>2, <2>3 DEF CallInv
<1>8. LabelInv(a)'
  BY <1>1, <1>2, NoLabels DEF SidecarPoints
<1>9. Runtimes'
  <2>1. \A r : InRows(r)' <=> InRows(r)
    BY <1>1 DEF InRows
  <2>2. ASSUME NEW r \in Agents \ {a} PROVE RuntimeInv(r)'
    BY <1>2, <1>4, <1>5, <2>1, OtherRuntimes DEF Runtimes
  <2>3. \A c \in call[a].tools : c.kind = "mcp"
    BY <1>1, <1>2 DEF Shape, BuildPoints
  <2>4. a \notin disturbed => call[a].tools \subseteq docker \cap keys /\ (a \in Kimi => Runner(a) \in docker)
    BY <1>1, <1>2 DEF Built, BuildPoints
  <2>5. RuntimeInv(a)'
    BY <1>1, <1>4, <1>6, <2>3, <2>4 DEF RuntimeInv, IsActiveRow
  <2> QED BY <2>2, <2>5 DEF Runtimes
<1> QED BY <1>1, <1>5, <1>7, <1>8, <1>9, StepInvariant

-----------------------------------------------------------------------------
(* The steps with the runtime *)

\* EndSession.
LEMMA EndSessionInvariant == ASSUME Invariant, NEW a \in Agents, EndSession(a) PROVE Invariant'
<1>1. call[a].pc = "inSession" /\ UNCHANGED <<docker, network, keys, rows, runtime, disturbed>>
  BY DEF EndSession, At
<1>2. TypeOK /\ Runtimes /\ Shape(a) /\ LabelInv(a) /\ RunStatus(a)
  BY Parts
<1>3. ASSUME NEW status \in {"completed", "failed"}, agentRun' = [agentRun EXCEPT ![a] = status],
             Go(a, "ended"), faults' = faults
      PROVE  Invariant'
  <2>1. /\ StepOf(a)
        /\ call'[a].pc = "ended" /\ call'[a].runtime = call[a].runtime
        /\ call'[a].todo = call[a].todo /\ call'[a].tools = call[a].tools
    <3>1. network' \in BOOLEAN
      BY <1>1, <1>2 DEF TypeOK
    <3> QED BY <1>1, <1>2, <1>3, <3>1, PlainStep DEF Statuses
  <2>2. CallInv(a)'
    BY <1>2, <2>1, NothingNeeded
  <2>3. LabelInv(a)'
    BY <1>1, <1>2, NoLabels DEF SidecarPoints
  <2>4. Runtimes'
    BY <1>1, <1>2, <2>1, SameRuntimes
  <2> QED BY <1>1, <2>1, <2>2, <2>3, <2>4, StepInvariant
<1>4. ASSUME agentRun' = [agentRun EXCEPT ![a] = "failed"], Raise(a, Runner(call[a].runtime.id) \notin docker)
      PROVE  Invariant'
  <2>1. keys' \subseteq Container
    BY <1>1, <1>2 DEF TypeOK
  <2> QED BY <1>1, <1>4, <2>1, RaiseInvariant DEF StartPoints
<1> QED BY <1>3, <1>4 DEF EndSession

\* CreateSidecar.
LEMMA CreateSidecarInvariant == ASSUME Invariant, NEW a \in Agents, CreateSidecar(a) PROVE Invariant'
<1>1. call[a].pc = "createSidecar" /\ UNCHANGED <<network, rows, runtime, agentRun, disturbed>>
  BY DEF CreateSidecar, At
<1>2. TypeOK /\ Runtimes /\ Todo(a) /\ Shape(a) /\ Served(a) /\ LabelInv(a) /\ RunStatus(a)
  BY Parts
<1>3. PICK c \in Container : c = Sidecar(a, NextTool(a))
  BY <1>1, <1>2, NextToolType, Containers
<1>4. c.of = a
  BY <1>3 DEF Sidecar
<1>5. keys' = keys \cup {c} /\ CreateContainer(a, c, "waitSidecar")
  BY <1>3 DEF CreateSidecar, CreateServer
<1>6. CASE docker' = docker \cup {c} /\ Go(a, "waitSidecar") /\ faults' = faults
  <2>1. /\ StepOf(a)
        /\ call'[a].pc = "waitSidecar" /\ call'[a].runtime = call[a].runtime
        /\ call'[a].todo = call[a].todo /\ call'[a].tools = call[a].tools
    BY <1>1, <1>2, <1>4, <1>5, <1>6, CreatedStep DEF StartPoints
  <2>2. CallInv(a)'
    <3>1. agentRun'[a] = "starting"
      BY <1>1, <1>2 DEF RunStatus, StartPoints
    <3>2. Todo(a)' /\ Found(a)' /\ Built(a)' /\ RunStatus(a)' /\ Shape(a)'
      BY <1>1, <1>2, <2>1, <3>1 DEF Todo, Found, Built, RunStatus, Shape, BuildPoints, StartPoints
    <3>3. NextTool(a)' = NextTool(a) /\ Sidecar(a, NextTool(a)) \in keys' /\ (Relies(a)' <=> Relies(a))
      BY <1>1, <1>3, <1>5, <2>1 DEF NextTool, Relies
    <3>4. Served(a)'
      BY <1>1, <1>2, <1>5, <1>6, <2>1, <3>3 DEF Served, ServePoints, SidecarPoints
    <3> QED BY <3>2, <3>4 DEF CallInv
  <2>3. LabelInv(a)'
    BY <2>1 DEF LabelInv, SidecarPoints
  <2>4. Runtimes'
    BY <1>1, <1>2, <2>1, SameRuntimes
  <2> QED BY <1>1, <2>1, <2>2, <2>3, <2>4, StepInvariant
<1>7. CASE docker' \in {docker, docker \cup {c}} /\ Raise(a, ~network)
  <2>1. keys' \subseteq Container
    BY <1>2, <1>5 DEF TypeOK
  <2> QED BY <1>1, <1>4, <1>5, <1>7, <2>1, RaiseInvariant DEF StartPoints, SidecarPoints
<1> QED BY <1>5, <1>6, <1>7 DEF CreateContainer

\* WaitSidecar.
LEMMA WaitSidecarInvariant == ASSUME Invariant, NEW a \in Agents, WaitSidecar(a) PROVE Invariant'
<1> DEFINE next == More(a, "createSidecar", "startAgent")
<1>1. /\ call[a].pc = "waitSidecar" /\ UNCHANGED <<docker, network, keys, rows, runtime, agentRun, disturbed>>
      /\ WaitForServer(a, Sidecar(a, NextTool(a)), next)
  BY DEF WaitSidecar, At
<1>2. TypeOK /\ Runtimes /\ Todo(a) /\ Shape(a) /\ Served(a) /\ LabelInv(a) /\ RunStatus(a)
  BY Parts
<1>3. PICK c \in Container : c = Sidecar(a, NextTool(a))
  BY <1>1, <1>2, NextToolType, Containers
<1>4. c.kind = "sidecar" /\ c.of = a /\ c.tool = NextTool(a) /\ c.tool \in call[a].todo
  BY <1>1, <1>2, <1>3, NextToolType DEF Sidecar
<1>5. PICK point \in {"createSidecar", "startAgent"} : point = next
  BY MoreFacts
<1>6. point = "createSidecar" => call[a].todo \ {c.tool} # {}
  BY <1>4, <1>5, MoreFacts
<1> HIDE DEF next
<1>7. CASE /\ c \in docker /\ Noise /\ faults' = faults
           /\ call' = [call EXCEPT ![a].pc = point, ![a].todo = @ \ {c.tool}, ![a].tools = @ \cup {c}]
  <2>1. /\ StepOf(a)
        /\ call'[a].pc = point /\ call'[a].runtime = call[a].runtime
        /\ call'[a].todo = call[a].todo \ {c.tool} /\ call'[a].tools = call[a].tools \cup {c}
    <3>1. point \in StartPoints
      BY DEF StartPoints
    <3> QED BY <1>1, <1>2, <1>4, <1>7, <3>1, WaitStep
  <2>2. CallInv(a)'
    <3>1. agentRun'[a] = "starting"
      BY <1>1, <1>2 DEF RunStatus, StartPoints
    <3>2. Todo(a)' /\ Found(a)' /\ Built(a)' /\ RunStatus(a)'
      BY <1>6, <2>1, <3>1 DEF Todo, Found, Built, RunStatus, BuildPoints, StartPoints
    <3>3. Shape(a)'
      BY <1>1, <1>2, <1>4, <2>1 DEF Shape, BuildPoints
    <3>4. Relies(a)' <=> Relies(a)
      BY <1>1, <2>1 DEF Relies
    <3>5. Served(a)'
      <4>1. /\ call[a].runtime.id \in Agents
            /\ Relies(a) => call[a].tools \subseteq docker \cap keys /\ c \in docker \cap keys
        BY <1>1, <1>2, <1>3, <1>7 DEF Served, ServePoints, SidecarPoints
      <4> QED BY <1>1, <2>1, <3>4, <4>1 DEF Served
    <3> QED BY <3>2, <3>3, <3>5 DEF CallInv
  <2>3. LabelInv(a)'
    BY <2>1 DEF LabelInv, SidecarPoints
  <2>4. Runtimes'
    BY <1>1, <1>2, <2>1, SameRuntimes
  <2> QED BY <1>1, <2>1, <2>2, <2>3, <2>4, StepInvariant
<1>8. CASE Raise(a, c \notin docker)
  <2>1. keys' \subseteq Container
    BY <1>1, <1>2 DEF TypeOK
  <2> QED BY <1>1, <1>8, <2>1, RaiseInvariant DEF StartPoints
<1> QED BY <1>1, <1>3, <1>5, <1>7, <1>8 DEF WaitForServer

\* StartAgent.
LEMMA StartAgentInvariant == ASSUME Invariant, NEW a \in Agents, StartAgent(a) PROVE Invariant'
<1>1. call[a].pc = "startAgent" /\ UNCHANGED <<network, keys, rows, runtime, agentRun, disturbed>>
  BY DEF StartAgent, At
<1>2. TypeOK /\ Runtimes /\ Shape(a) /\ Served(a) /\ LabelInv(a) /\ RunStatus(a)
  BY Parts
<1>3. PICK c \in Container : c = AgentContainer(a)
  BY Containers
<1>4. PICK next \in {"waitAgent", "listen"} : CreateContainer(a, c, next)
  BY <1>3 DEF StartAgent
<1>5. c.of = a
  BY <1>3 DEF AgentContainer
<1>6. CASE docker' = docker \cup {c} /\ Go(a, next) /\ faults' = faults
  <2>1. /\ StepOf(a)
        /\ call'[a].pc = next /\ call'[a].runtime = call[a].runtime
        /\ call'[a].todo = call[a].todo /\ call'[a].tools = call[a].tools
    <3>1. next \in StartPoints
      BY DEF StartPoints
    <3> QED BY <1>1, <1>2, <1>5, <1>6, <3>1, CreatedStep
  <2>2. CallInv(a)'
    <3>1. agentRun'[a] = "starting"
      BY <1>1, <1>2 DEF RunStatus, StartPoints
    <3>2. Todo(a)' /\ Found(a)' /\ Built(a)' /\ RunStatus(a)' /\ Shape(a)'
      BY <1>1, <1>2, <2>1, <3>1 DEF Todo, Found, Built, RunStatus, Shape, BuildPoints, StartPoints
    <3>3. Relies(a)' <=> Relies(a)
      BY <1>1, <2>1 DEF Relies
    <3>4. Served(a)'
      BY <1>1, <1>2, <1>6, <2>1, <3>3 DEF Served, ServePoints, SidecarPoints
    <3> QED BY <3>2, <3>4 DEF CallInv
  <2>3. LabelInv(a)'
    BY <2>1 DEF LabelInv, SidecarPoints
  <2>4. Runtimes'
    BY <1>1, <1>2, <2>1, SameRuntimes
  <2> QED BY <1>1, <2>1, <2>2, <2>3, <2>4, StepInvariant
<1>7. CASE docker' \in {docker, docker \cup {c}} /\ Raise(a, ~network)
  <2>1. keys' \subseteq Container
    BY <1>1, <1>2 DEF TypeOK
  <2> QED BY <1>1, <1>5, <1>7, <2>1, RaiseInvariant DEF StartPoints, SidecarPoints
<1> QED BY <1>4, <1>6, <1>7 DEF CreateContainer

\* Listen and WaitAgent: the call ends.
LEMMA EndInvariant == ASSUME Invariant, NEW a \in Agents, Listen(a) \/ WaitAgent(a) PROVE Invariant'
<1>1. /\ call[a].pc \in {"listen", "waitAgent"} /\ Go(a, "ended")
      /\ UNCHANGED <<docker, network, keys, rows, runtime, disturbed, faults>>
  BY DEF Listen, WaitAgent, At
<1>2. PICK status \in Statuses : agentRun' = [agentRun EXCEPT ![a] = status]
  BY DEF Listen, WaitAgent, Statuses
<1>3. TypeOK /\ Runtimes /\ Shape(a)
  BY Parts
<1>4. /\ StepOf(a)
      /\ call'[a].pc = "ended" /\ call'[a].runtime = call[a].runtime
      /\ call'[a].todo = call[a].todo /\ call'[a].tools = call[a].tools
  <2>1. network' \in BOOLEAN
    BY <1>1, <1>3 DEF TypeOK
  <2> QED BY <1>1, <1>2, <1>3, <2>1, PlainStep
<1>5. CallInv(a)'
  BY <1>3, <1>4, NothingNeeded
<1>6. LabelInv(a)'
  BY <1>4 DEF LabelInv
<1>7. Runtimes'
  BY <1>1, <1>3, <1>4, SameRuntimes
<1> QED BY <1>1, <1>4, <1>5, <1>6, <1>7, StepInvariant

\* HandleException: the call ends, and its own cleanup may begin.
LEMMA HandleInvariant == ASSUME Invariant, NEW a \in Agents, HandleException(a) PROVE Invariant'
<1>1. /\ call[a].pc = "raise"
      /\ agentRun' = [agentRun EXCEPT ![a] = "failed"] /\ call' = [call EXCEPT ![a].pc = "ended"]
      /\ sweep' = sweep \/ sweep' = [sweep EXCEPT ![a].pc = "list"]
      /\ UNCHANGED <<docker, network, keys, rows, runtime, disturbed, faults>>
  BY DEF HandleException, At
<1>2. /\ TypeOK /\ Calls /\ Runtimes /\ Sweeps
      /\ DockerType /\ RowsType /\ CallsType /\ SweepsType /\ RestType
  BY TypeParts DEF Invariant
<1>3. /\ call' \in [Agents -> CallType] /\ \A b \in Agents \ {a} : call'[b] = call[b]
      /\ call'[a].pc = "ended" /\ call'[a].runtime = call[a].runtime
      /\ call'[a].todo = call[a].todo /\ call'[a].tools = call[a].tools
  BY <1>1, <1>2 DEF CallsType, CallType
<1>4. /\ agentRun' \in [Agents -> Statuses] /\ \A b \in Agents \ {a} : agentRun'[b] = agentRun[b]
      /\ agentRun'[a] = "failed"
  BY <1>1, <1>2 DEF CallsType, Statuses
<1>5. /\ SweepsType'
      /\ \A q \in Agents \cup Cleaners :
            \/ sweep'[q] = sweep[q]
            \/ sweep'[q].pc = "list"
  BY <1>1, <1>2 DEF SweepsType, SweepType, SweepPoints
<1>6. TypeOK'
  BY <1>1, <1>2, <1>3, <1>4, <1>5 DEF TypeOK, DockerType, RowsType, CallsType, SweepsType, RestType,
     RuntimeType, FoundType, CallType, SweepType, Statuses
<1>7. Runtimes'
  BY <1>1, <1>2 DEF Runtimes, RuntimeInv, IsActiveRow, InRows
<1>8. Calls'
  <2>1. ASSUME NEW b \in Agents \ {a} PROVE CallInv(b)' /\ LabelInv(b)'
    <3>1. CallInv(b) /\ LabelInv(b)
      BY <1>2 DEF Calls
    <3>2. call'[b] = call[b] /\ agentRun'[b] = agentRun[b] /\ NextTool(b)' = NextTool(b)
      BY <1>3, <1>4 DEF NextTool
    <3>3. \A r : InRows(r)' <=> InRows(r)
      BY <1>1 DEF InRows
    <3> QED BY <1>1, <3>1, <3>2, <3>3 DEF CallInv, LabelInv, Todo, Shape, Built, Found, Served, Relies, RunStatus
  <2>2. CallInv(a)'
    BY <1>2, <1>3, NothingNeeded DEF Calls, CallInv
  <2>3. LabelInv(a)'
    BY <1>3 DEF LabelInv
  <2> QED BY <2>1, <2>2, <2>3 DEF Calls
<1>9. \A p \in Sweepers : InactiveInv(p)'
  <2>1. \A b \in Agents : call[b].pc \in {"raise", "ended"} => call'[b].pc \in {"raise", "ended"}
    BY <1>3
  <2>2. \A b \in Agents : call[b].pc = "ended" => call'[b].pc = "ended"
    BY <1>3
  <2>3. \A b \in Agents : Terminal(b) => Terminal(b)'
    BY <1>4 DEF Terminal
  <2>4. \A q \in Agents \cup Cleaners : /\ sweep[q].terminal \subseteq Agents
                                        /\ \A c \in sweep[q].left : c.of \in Agents
    BY <1>2, ContainerFields DEF SweepsType, SweepType
  <2> QED BY <1>2, <1>5, <2>1, <2>2, <2>3, <2>4 DEF Sweeps, InactiveInv, Sweepers
<1>10. \A p \in Sweepers : QuietInv(p)'
  BY <1>1, <1>2, <1>5 DEF Sweeps, QuietInv, Sweepers
<1> QED BY <1>6, <1>7, <1>8, <1>9, <1>10 DEF Invariant, Sweeps

\* A step of a call keeps the invariant.
LEMMA CallStepInvariant == ASSUME Invariant, NEW a \in Agents, Step(a) PROVE Invariant'
BY ConnectInvariant, RecordInvariant, LookUpInvariant, ReuseInvariant, InsertInvariant, CreateMcpInvariant,
   WaitMcpInvariant, CreateRunnerInvariant, WaitRunnerInvariant, FinishInvariant, RereadInvariant,
   EndSessionInvariant, CreateSidecarInvariant, WaitSidecarInvariant, StartAgentInvariant, EndInvariant,
   HandleInvariant DEF Step

-----------------------------------------------------------------------------
(* The cleanups *)

\* What a step of the cleanup p leaves alone, and that it only takes away.
SweepOf(p) ==
    /\ sweep' \in [Sweepers -> SweepType] /\ \A q \in Sweepers \ {p} : sweep'[q] = sweep[q]
    /\ docker' \subseteq docker /\ keys' \subseteq keys /\ network' \in {network, FALSE}
    /\ faults' \in 0..MaxFaults /\ disturbed' \subseteq Agents
    /\ UNCHANGED <<rows, agentRun, call>>
    /\ runtime' \in [Agents -> RuntimeType]

\* A step of a cleanup keeps the invariant if it keeps it for its own entry,
\* for the calls and for the runtimes.
LEMMA SweepInvariant ==
    ASSUME Invariant, NEW p \in Sweepers, SweepOf(p), InactiveInv(p)', QuietInv(p)', Calls', Runtimes'
    PROVE  Invariant'
<1>1. DockerType /\ RowsType /\ CallsType /\ SweepsType /\ RestType /\ Sweeps
  BY TypeParts DEF Invariant
<1>2. TypeOK'
  <2>1. DockerType' /\ RowsType' /\ CallsType' /\ SweepsType' /\ RestType'
    BY <1>1 DEF SweepOf, DockerType, RowsType, CallsType, SweepsType, RestType, Sweepers
  <2> QED BY <2>1 DEF TypeOK, DockerType, RowsType, CallsType, SweepsType, RestType, RuntimeType, FoundType,
          CallType, SweepType, Statuses
<1>3. ASSUME NEW q \in Sweepers \ {p} PROVE InactiveInv(q)' /\ QuietInv(q)'
  <2>1. InactiveInv(q) /\ QuietInv(q) /\ sweep'[q] = sweep[q]
    BY <1>1 DEF Sweeps, SweepOf
  <2>2. InactiveInv(q)'
    BY <2>1 DEF SweepOf, InactiveInv, Terminal
  <2>3. QuietInv(q)'
    BY <2>1 DEF SweepOf, QuietInv
  <2> QED BY <2>2, <2>3
<1> QED BY <1>2, <1>3 DEF Invariant, Sweeps

\* What a step of a cleanup that does not touch Docker leaves as it is.
LEMMA SameCalls ==
    ASSUME Invariant, UNCHANGED <<docker, keys, rows, runtime, agentRun, call, disturbed>>
    PROVE  Calls' /\ Runtimes'
<1>1. \A r : InRows(r)' <=> InRows(r)
  BY DEF InRows
<1>2. ASSUME NEW b \in Agents PROVE CallInv(b)' /\ LabelInv(b)'
  <2>1. CallInv(b) /\ LabelInv(b) /\ NextTool(b)' = NextTool(b)
    BY DEF Invariant, Calls, NextTool
  <2> QED BY <1>1, <2>1 DEF CallInv, LabelInv, Todo, Shape, Built, Found, Served, Relies, RunStatus
<1>3. Runtimes'
  BY DEF Invariant, Runtimes, RuntimeInv, IsActiveRow, InRows
<1> QED BY <1>2, <1>3 DEF Calls

\* After a step of a cleanup_run nobody at work, and no active runtime, is
\* without disturbance.
LEMMA DisturbedCalls ==
    ASSUME Invariant, docker' \subseteq docker, UNCHANGED <<rows, agentRun, call>>,
           \A a \in Agents : AtWork(a) => a \in disturbed',
           \A a \in Agents : RuntimeInv(a)'
    PROVE  Calls' /\ Runtimes'
<1>1. ASSUME NEW b \in Agents PROVE CallInv(b)' /\ LabelInv(b)'
  <2>1. CallInv(b) /\ LabelInv(b)
    BY DEF Invariant, Calls
  <2>2. \A r : InRows(r)' <=> InRows(r)
    BY DEF InRows
  <2>3. Todo(b)' /\ Shape(b)' /\ RunStatus(b)'
    BY <2>1 DEF CallInv, Todo, Shape, RunStatus
  <2>4. call[b].pc \in StartPoints => b \in disturbed'
    BY DEF AtWork
  <2>5. Built(b)' /\ Found(b)' /\ Served(b)'
    BY <2>1, <2>2, <2>4 DEF CallInv, Built, Found, Served, Relies, BuildPoints, ServePoints, SidecarPoints,
       StartPoints
  <2>6. LabelInv(b)'
    BY <2>1 DEF LabelInv
  <2> QED BY <2>3, <2>5, <2>6 DEF CallInv
<1> QED BY <1>1 DEF Calls, Runtimes

\* Disturb: a step that takes away makes note of all it may concern.
LEMMA DisturbFacts ==
    ASSUME Invariant, Disturb, docker' \subseteq docker, UNCHANGED <<rows, runtime, agentRun, call>>
    PROVE  Calls' /\ Runtimes' /\ disturbed' \subseteq Agents
<1>1. /\ disturbed' \subseteq Agents
      /\ \A a \in Agents : AtWork(a) \/ InRows(a) => a \in disturbed'
  BY DEF Disturb, InRows, Invariant, TypeOK
<1>2. ASSUME NEW a \in Agents PROVE RuntimeInv(a)'
  <2>1. RuntimeInv(a) /\ (InRows(a)' <=> InRows(a))
    BY DEF Invariant, Runtimes, InRows
  <2>2. IsActiveRow(a)' => InRows(a)
    BY <2>1 DEF IsActiveRow, RuntimeInv
  <2> QED BY <1>1, <2>1, <2>2 DEF RuntimeInv
<1> QED BY <1>1, <1>2, DisturbedCalls

\* BeginCleanup counts the rows that are due.
LEMMA AgainType ==
    ASSUME TypeOK, NEW due \in SUBSET DOMAIN rows
    PROVE  Again(due) \in Nat
<1>1. DOMAIN rows = 1..Len(rows) /\ Len(rows) \in Nat
  BY DEF TypeOK
<1>2. 1 \in Int /\ Len(rows) \in Int
  BY <1>1
<1>3. IsFiniteSet(DOMAIN rows)
  BY <1>1, <1>2, FS_Interval
<1>4. IsFiniteSet(due)
  BY <1>3, FS_Subset
<1>5. Cardinality(due) \in Nat /\ (Cardinality(due) = 0 <=> due = {})
  BY <1>4, FS_CardinalityType, FS_EmptySet
<1> QED BY <1>5 DEF Again

\* BeginCleanup.
LEMMA BeginInvariant == ASSUME Invariant, NEW q \in Cleaners, BeginCleanup(q) PROVE Invariant'
<1>1. /\ UNCHANGED <<docker, network, keys, rows, runtime, agentRun, call, disturbed, faults>>
      /\ TypeOK /\ sweep \in [Sweepers -> SweepType] /\ q \in Sweepers
  BY TypeParts DEF BeginCleanup, Invariant, SweepsType, Sweepers
<1>2. \/ sweep' = [sweep EXCEPT ![q].pc = "list"]
      \/ \E due \in SUBSET DOMAIN rows, next \in {"list", "ended"} :
            sweep' = [sweep EXCEPT ![q].pc = next, ![q].again = Again(due)]
      \/ \E next \in {"listInactive", "ended"} :
            sweep' = [sweep EXCEPT ![q].pc = next, ![q].terminal = TerminalAgents]
  <2>1. CASE \E due \in SUBSET {i \in DOMAIN rows : ~runtime[rows[i]].cleaned} :
               sweep' = [sweep EXCEPT ![q].pc = IF due = {} THEN "ended" ELSE "list",
                                      ![q].again = Again(due)]
    <3>1. PICK due \in SUBSET {i \in DOMAIN rows : ~runtime[rows[i]].cleaned} :
               sweep' = [sweep EXCEPT ![q].pc = IF due = {} THEN "ended" ELSE "list",
                                      ![q].again = Again(due)]
      BY <2>1
    <3>2. due \in SUBSET DOMAIN rows
      OBVIOUS
    <3>3. PICK next \in {"list", "ended"} : next = IF due = {} THEN "ended" ELSE "list"
      OBVIOUS
    <3>4. sweep' = [sweep EXCEPT ![q].pc = next, ![q].again = Again(due)]
      BY <3>1, <3>3
    <3> QED BY <3>2, <3>4
  <2>2. CASE sweep' = [sweep EXCEPT ![q].pc = IF TerminalAgents = {} THEN "ended" ELSE "listInactive",
                                    ![q].terminal = TerminalAgents]
    <3>1. PICK next \in {"listInactive", "ended"} : next = IF TerminalAgents = {} THEN "ended" ELSE "listInactive"
      OBVIOUS
    <3> QED BY <2>2, <3>1
  <2> QED BY <2>1, <2>2 DEF BeginCleanup
<1>3. /\ sweep' \in [Sweepers -> SweepType] /\ \A p \in Sweepers \ {q} : sweep'[p] = sweep[p]
      /\ \/ sweep'[q].pc \in {"list", "ended"}
         \/ sweep'[q].pc = "listInactive" /\ sweep'[q].terminal = TerminalAgents
  <2>1. CASE sweep' = [sweep EXCEPT ![q].pc = "list"]
    BY <1>1, <2>1 DEF SweepType, SweepPoints
  <2>2. CASE \E due \in SUBSET DOMAIN rows, next \in {"list", "ended"} :
               sweep' = [sweep EXCEPT ![q].pc = next, ![q].again = Again(due)]
    <3>1. PICK due \in SUBSET DOMAIN rows : \E next \in {"list", "ended"} :
               sweep' = [sweep EXCEPT ![q].pc = next, ![q].again = Again(due)]
      BY <2>2
    <3>2. PICK next \in {"list", "ended"} : sweep' = [sweep EXCEPT ![q].pc = next, ![q].again = Again(due)]
      BY <3>1
    <3>3. PICK n \in Nat : n = Again(due)
      BY <1>1, AgainType
    <3>4. PICK s \in SweepType : s = [sweep[q] EXCEPT !.pc = next, !.again = n]
      BY <1>1, <3>2, <3>3 DEF SweepType, SweepPoints
    <3>5. s.pc = next
      BY <1>1, <3>4 DEF SweepType
    <3>6. sweep' = [sweep EXCEPT ![q] = s]
      BY <1>1, <3>2, <3>3, <3>4
    <3> QED BY <1>1, <3>2, <3>5, <3>6, SweepPut
  <2>3. CASE \E next \in {"listInactive", "ended"} :
               sweep' = [sweep EXCEPT ![q].pc = next, ![q].terminal = TerminalAgents]
    <3>1. PICK next \in {"listInactive", "ended"} :
               sweep' = [sweep EXCEPT ![q].pc = next, ![q].terminal = TerminalAgents]
      BY <2>3
    <3>2. TerminalAgents \subseteq Agents
      BY DEF TerminalAgents
    <3>3. PICK s \in SweepType : s = [sweep[q] EXCEPT !.pc = next, !.terminal = TerminalAgents]
      BY <1>1, <3>1, <3>2 DEF SweepType, SweepPoints
    <3>4. s.pc = next /\ s.terminal = TerminalAgents
      BY <1>1, <3>3 DEF SweepType
    <3>5. sweep' = [sweep EXCEPT ![q] = s]
      BY <1>1, <3>1, <3>3
    <3> QED BY <1>1, <3>1, <3>4, <3>5, SweepPut
  <2> QED BY <1>2, <2>1, <2>2, <2>3
<1>4. SweepOf(q)
  BY <1>1, <1>3, TypeParts DEF SweepOf, TypeOK, RowsType
<1>5. QuietInv(q)'
  BY <1>3 DEF QuietInv
<1>6. InactiveInv(q)'
  <2> SUFFICES ASSUME sweep'[q].pc = "listInactive", NEW a \in TerminalAgents
               PROVE  Terminal(a)' /\ call'[a].pc \in {"raise", "ended"}
    BY <1>3 DEF InactiveInv
  <2>1. a \in Agents /\ Terminal(a) /\ Terminal(a)'
    BY <1>1 DEF TerminalAgents, Terminal
  <2>2. RunStatus(a) /\ call[a].pc \in StartPoints \cup {"idle", "ended"}
    BY <1>1, <2>1, Parts, TypeParts DEF CallsType, CallType
  <2>3. call[a].pc \notin {"idle", "record"}
    BY <2>1, <2>2, RuntimeAssumption DEF RunStatus, Terminal
  <2>4. call[a].pc \notin StartPoints \ {"record", "raise"}
    BY <2>1, <2>2 DEF RunStatus, Terminal
  <2>5. call[a].pc \in {"raise", "ended"} /\ call' = call
    BY <1>1, <2>2, <2>3, <2>4
  <2> QED BY <2>1, <2>5
<1> QED BY <1>1, <1>4, <1>5, <1>6, SameCalls, SweepInvariant

\* ListContainers.
LEMMA ListInvariant == ASSUME Invariant, NEW p \in Sweepers, ListContainers(p) PROVE Invariant'
<1>1. /\ sweep[p].pc = "list" /\ UNCHANGED <<docker, network, keys, rows, runtime, agentRun, call>>
      /\ TypeOK /\ sweep \in [Sweepers -> SweepType] /\ runtime \in [Agents -> RuntimeType]
  BY TypeParts DEF ListContainers, InSweep, Invariant, SweepsType, RowsType, Sweepers
<1>2. CASE /\ sweep' = [sweep EXCEPT ![p] = [@ EXCEPT !.pc = "remove", !.left = ContainersOfRun,
                                                    !.quiet = \A a \in Agents : ~AtWork(a)]]
           /\ Disturb /\ faults' = faults
  <2>1. PICK quiet \in BOOLEAN : quiet = \A a \in Agents : ~AtWork(a)
    <3>1. (\A a \in Agents : ~AtWork(a)) = TRUE \/ (\A a \in Agents : ~AtWork(a)) = FALSE
      OBVIOUS
    <3> QED BY <3>1, Zenon
  <2>2. sweep' = [sweep EXCEPT ![p] = [@ EXCEPT !.pc = "remove", !.left = docker, !.quiet = quiet]]
    BY <1>2, <2>1 DEF ContainersOfRun
  <2>3. docker \subseteq Container
    BY <1>1 DEF TypeOK
  <2>4. /\ sweep' \in [Sweepers -> SweepType] /\ \A q \in Sweepers \ {p} : sweep'[q] = sweep[q]
        /\ sweep'[p].pc = "remove" /\ sweep'[p].left = docker
    BY <1>1, <2>2, <2>3 DEF SweepType, SweepPoints
  <2>5. Calls' /\ Runtimes' /\ disturbed' \subseteq Agents
    BY <1>1, <1>2, DisturbFacts
  <2>6. SweepOf(p)
    BY <1>1, <1>2, <2>4, <2>5 DEF SweepOf, TypeOK
  <2>7. QuietInv(p)' /\ InactiveInv(p)'
    BY <1>1, <2>4 DEF QuietInv, InactiveInv
  <2> QED BY <2>5, <2>6, <2>7, SweepInvariant
<1>3. CASE DockerFails(FALSE) /\ sweep' = [sweep EXCEPT ![p].pc = "ended"] /\ disturbed' = disturbed
  <2>1. /\ sweep' \in [Sweepers -> SweepType] /\ \A q \in Sweepers \ {p} : sweep'[q] = sweep[q]
        /\ sweep'[p].pc = "ended"
    BY <1>1, <1>3 DEF SweepType, SweepPoints
  <2>2. faults' \in 0..MaxFaults
    BY <1>1, <1>3, Faults
  <2>3. SweepOf(p)
    BY <1>1, <1>3, <2>1, <2>2 DEF SweepOf, TypeOK
  <2>4. QuietInv(p)' /\ InactiveInv(p)'
    BY <2>1 DEF QuietInv, InactiveInv
  <2> QED BY <1>1, <1>3, <2>3, <2>4, SameCalls, SweepInvariant
<1> QED BY <1>2, <1>3 DEF ListContainers

\* RemoveContainer: Docker removes the container or refuses to, or the cleanup is over.
LEMMA RemoveFacts ==
    ASSUME TypeOK, NEW p \in Sweepers, NEW c \in sweep[p].left, RemoveContainer(p, c)
    PROVE  /\ sweep' \in [Sweepers -> SweepType] /\ \A q \in Sweepers \ {p} : sweep'[q] = sweep[q]
           /\ faults' \in 0..MaxFaults /\ docker' \in {docker, docker \ {c}}
           /\ \/ /\ sweep'[p].pc = sweep[p].pc /\ sweep'[p].left = sweep[p].left \ {c}
                 /\ sweep'[p].quiet => docker' = docker \ {c} /\ sweep[p].quiet
              \/ sweep'[p].pc = "ended"
<1>1. sweep \in [Sweepers -> SweepType] /\ sweep[p] \in SweepType
  BY TypeParts DEF SweepsType, Sweepers
<1>2. CASE docker' = docker \ {c} /\ sweep' = [sweep EXCEPT ![p].left = @ \ {c}] /\ UNCHANGED faults
  <2>1. faults' \in 0..MaxFaults
    BY <1>2 DEF TypeOK
  <2> QED BY <1>1, <1>2, <2>1 DEF SweepType
<1>3. CASE DockerFails(FALSE) /\ sweep' = [sweep EXCEPT ![p].left = @ \ {c}, ![p].quiet = FALSE]
           /\ UNCHANGED docker
  <2>1. faults' \in 0..MaxFaults
    BY <1>3, Faults
  <2>2. PICK s \in SweepType : s = [sweep[p] EXCEPT !.left = @ \ {c}, !.quiet = FALSE]
    BY <1>1 DEF SweepType
  <2>3. s.pc = sweep[p].pc /\ s.left = sweep[p].left \ {c} /\ s.quiet = FALSE
    BY <1>1, <2>2 DEF SweepType
  <2>4. sweep' = [sweep EXCEPT ![p] = s]
    BY <1>1, <1>3, <2>2
  <2> QED BY <1>1, <1>3, <2>1, <2>3, <2>4, SweepPut
<1>4. CASE DockerFails(FALSE) /\ sweep' = [sweep EXCEPT ![p].pc = "ended"] /\ docker' \in {docker, docker \ {c}}
  <2>1. faults' \in 0..MaxFaults
    BY <1>4, Faults
  <2> QED BY <1>1, <1>4, <2>1 DEF SweepType
<1> QED BY <1>2, <1>3, <1>4 DEF RemoveContainer

\* Remove.
LEMMA RemoveInvariant == ASSUME Invariant, NEW p \in Sweepers, Remove(p) PROVE Invariant'
<1>1. /\ sweep[p].pc = "remove" /\ sweep[p].left # {} /\ Disturb
      /\ UNCHANGED <<network, keys, rows, runtime, agentRun, call>>
      /\ TypeOK /\ runtime \in [Agents -> RuntimeType]
  BY TypeParts DEF Remove, RemoveContainer, InSweep, Invariant, RowsType
<1>2. PICK c \in sweep[p].left : RemoveContainer(p, c)
  BY <1>1 DEF Remove
<1>3. /\ sweep' \in [Sweepers -> SweepType] /\ \A q \in Sweepers \ {p} : sweep'[q] = sweep[q]
      /\ faults' \in 0..MaxFaults /\ docker' \in {docker, docker \ {c}}
      /\ \/ /\ sweep'[p].pc = sweep[p].pc /\ sweep'[p].left = sweep[p].left \ {c}
            /\ sweep'[p].quiet => docker' = docker \ {c} /\ sweep[p].quiet
         \/ sweep'[p].pc = "ended"
  BY <1>1, <1>2, RemoveFacts
<1>4. docker' \subseteq docker
  BY <1>3
<1>5. Calls' /\ Runtimes' /\ disturbed' \subseteq Agents
  BY <1>1, <1>4, DisturbFacts
<1>6. SweepOf(p)
  BY <1>1, <1>3, <1>4, <1>5 DEF SweepOf
<1>7. QuietInv(p)' /\ InactiveInv(p)'
  <2>1. QuietInv(p)
    BY DEF Invariant, Sweeps
  <2> QED BY <1>1, <1>3, <2>1 DEF QuietInv, InactiveInv
<1> QED BY <1>5, <1>6, <1>7, SweepInvariant

\* RemoveNetwork.
LEMMA RemoveNetworkInvariant == ASSUME Invariant, NEW p \in Sweepers, RemoveNetwork(p) PROVE Invariant'
<1>1. /\ sweep[p].pc = "remove" /\ sweep[p].left = {} /\ Disturb
      /\ UNCHANGED <<docker, keys, rows, runtime, agentRun, call>>
      /\ TypeOK /\ sweep \in [Sweepers -> SweepType] /\ runtime \in [Agents -> RuntimeType]
  BY TypeParts DEF RemoveNetwork, InSweep, Invariant, SweepsType, RowsType, Sweepers
<1>2. Calls' /\ Runtimes' /\ disturbed' \subseteq Agents
  BY <1>1, DisturbFacts
<1>3. CASE network' = (network /\ docker # {}) /\ sweep' = [sweep EXCEPT ![p].pc = "keys"] /\ faults' = faults
  <2>1. /\ sweep' \in [Sweepers -> SweepType] /\ \A q \in Sweepers \ {p} : sweep'[q] = sweep[q]
        /\ sweep'[p].pc = "keys" /\ sweep'[p].quiet = sweep[p].quiet
    BY <1>1, <1>3 DEF SweepType, SweepPoints
  <2>2. network' \in {network, FALSE} /\ (docker = {} => network' = FALSE)
    BY <1>1, <1>3 DEF TypeOK
  <2>3. SweepOf(p)
    BY <1>1, <1>2, <1>3, <2>1, <2>2 DEF SweepOf, TypeOK
  <2>4. QuietInv(p)' /\ InactiveInv(p)'
    <3>1. QuietInv(p)
      BY DEF Invariant, Sweeps
    <3>2. sweep'[p].quiet => docker = {} /\ docker' = {}
      BY <1>1, <2>1, <3>1 DEF QuietInv
    <3> QED BY <2>1, <2>2, <3>2 DEF QuietInv, InactiveInv
  <2> QED BY <1>2, <2>3, <2>4, SweepInvariant
<1>4. CASE /\ DockerFails(FALSE) /\ network' = network
           /\ sweep' = [sweep EXCEPT ![p].pc = "keys", ![p].quiet = FALSE]
  <2>1. PICK s \in SweepType : s = [sweep[p] EXCEPT !.pc = "keys", !.quiet = FALSE]
    BY <1>1 DEF SweepType, SweepPoints
  <2>2. s.pc = "keys" /\ s.quiet = FALSE
    BY <1>1, <2>1 DEF SweepType
  <2>3. sweep' = [sweep EXCEPT ![p] = s]
    BY <1>1, <1>4, <2>1
  <2>4. /\ sweep' \in [Sweepers -> SweepType] /\ \A q \in Sweepers \ {p} : sweep'[q] = sweep[q]
        /\ sweep'[p].pc = "keys" /\ sweep'[p].quiet = FALSE
    BY <1>1, <2>2, <2>3, SweepPut
  <2>5. faults' \in 0..MaxFaults
    BY <1>1, <1>4, Faults
  <2>6. SweepOf(p)
    BY <1>1, <1>2, <1>4, <2>4, <2>5 DEF SweepOf
  <2>7. QuietInv(p)' /\ InactiveInv(p)'
    BY <2>4 DEF QuietInv, InactiveInv
  <2> QED BY <1>2, <2>6, <2>7, SweepInvariant
<1>5. CASE /\ DockerFails(FALSE) /\ network' \in {network, network /\ docker # {}}
           /\ sweep' = [sweep EXCEPT ![p].pc = "ended"]
  <2>1. /\ sweep' \in [Sweepers -> SweepType] /\ \A q \in Sweepers \ {p} : sweep'[q] = sweep[q]
        /\ sweep'[p].pc = "ended"
    BY <1>1, <1>5 DEF SweepType, SweepPoints
  <2>2. faults' \in 0..MaxFaults
    BY <1>1, <1>5, Faults
  <2>3. network' \in {network, FALSE}
    BY <1>1, <1>5 DEF TypeOK
  <2>4. SweepOf(p)
    BY <1>1, <1>2, <1>5, <2>1, <2>2, <2>3 DEF SweepOf
  <2>5. QuietInv(p)' /\ InactiveInv(p)'
    BY <2>1 DEF QuietInv, InactiveInv
  <2> QED BY <1>2, <2>4, <2>5, SweepInvariant
<1> QED BY <1>3, <1>4, <1>5 DEF RemoveNetwork

\* DeactivateKeys.
LEMMA DeactivateInvariant == ASSUME Invariant, NEW p \in Sweepers, DeactivateKeys(p) PROVE Invariant'
<1>1. /\ sweep[p].pc = "keys" /\ keys' = {} /\ sweep' = [sweep EXCEPT ![p].pc = "rows"] /\ Disturb
      /\ UNCHANGED <<docker, network, rows, runtime, agentRun, call, faults>>
      /\ TypeOK /\ sweep \in [Sweepers -> SweepType] /\ runtime \in [Agents -> RuntimeType]
  BY TypeParts DEF DeactivateKeys, InSweep, Invariant, SweepsType, RowsType, Sweepers
<1>2. Calls' /\ Runtimes' /\ disturbed' \subseteq Agents
  BY <1>1, DisturbFacts
<1>3. /\ sweep' \in [Sweepers -> SweepType] /\ \A q \in Sweepers \ {p} : sweep'[q] = sweep[q]
      /\ sweep'[p].pc = "rows" /\ sweep'[p].quiet = sweep[p].quiet
  BY <1>1 DEF SweepType, SweepPoints
<1>4. SweepOf(p)
  BY <1>1, <1>2, <1>3 DEF SweepOf, TypeOK
<1>5. QuietInv(p)' /\ InactiveInv(p)'
  <2>1. QuietInv(p)
    BY DEF Invariant, Sweeps
  <2> QED BY <1>1, <1>3, <2>1 DEF QuietInv, InactiveInv
<1> QED BY <1>2, <1>4, <1>5, SweepInvariant

\* MarkCleaned: no runtime is active any more.
LEMMA MarkInvariant == ASSUME Invariant, NEW p \in Sweepers, MarkCleaned(p) PROVE Invariant'
<1>1. /\ sweep[p].pc = "rows"
      /\ runtime' = [a \in Agents |-> IF InRows(a)
                                      THEN [runtime[a] EXCEPT !.status = "cleaned", !.cleaned = TRUE]
                                      ELSE runtime[a]]
      /\ disturbed' = (disturbed \ {a \in Agents : ~AtWork(a)}) \cup {a \in Agents : AtWork(a)}
      /\ UNCHANGED <<docker, network, keys, rows, agentRun, call, faults>>
      /\ TypeOK /\ sweep \in [Sweepers -> SweepType] /\ runtime \in [Agents -> RuntimeType] /\ Runtimes
  BY TypeParts DEF MarkCleaned, InSweep, InRows, Invariant, SweepsType, RowsType, Sweepers
<1>2. PICK again \in Nat : \E next \in {"ended", "list"} :
         sweep' = [sweep EXCEPT ![p].pc = next, ![p].again = again]
  <2>1. sweep[p].again \in Nat
    BY <1>1 DEF SweepType
  <2>2. (IF sweep[p].again = 0 THEN 0 ELSE sweep[p].again - 1) \in Nat
    BY <2>1
  <2>3. sweep' = [sweep EXCEPT ![p].pc = IF sweep[p].again = 0 THEN "ended" ELSE "list",
                               ![p].again = IF sweep[p].again = 0 THEN 0 ELSE sweep[p].again - 1]
    BY <1>1 DEF MarkCleaned, SweepType
  <2>4. PICK next \in {"ended", "list"} : next = IF sweep[p].again = 0 THEN "ended" ELSE "list"
    OBVIOUS
  <2> QED BY <2>2, <2>3, <2>4
<1>3. /\ sweep' \in [Sweepers -> SweepType] /\ \A q \in Sweepers \ {p} : sweep'[q] = sweep[q]
      /\ sweep'[p].pc \in {"ended", "list"}
  <2>1. PICK next \in {"ended", "list"} : sweep' = [sweep EXCEPT ![p].pc = next, ![p].again = again]
    BY <1>2
  <2>a. sweep[p] \in SweepType
    BY <1>1
  <2>b. next \in SweepPoints \cup {"idle", "ended"}
    BY DEF SweepPoints
  <2>2. PICK s : s = [sweep[p] EXCEPT !.pc = next, !.again = again]
    OBVIOUS
  <2>c. s \in SweepType /\ s.pc = next
    BY <2>a, <2>b, <2>2, <1>2, SweepAgain
  <2>3. s.pc = next
    BY <2>c
  <2>4. sweep' = [sweep EXCEPT ![p] = s]
    BY <1>1, <2>1, <2>2
  <2> QED BY <1>1, <2>1, <2>c, <2>3, <2>4, SweepPut
<1>4. ASSUME NEW a \in Agents
      PROVE  /\ runtime'[a] \in RuntimeType
             /\ InRows(a) => runtime'[a].cleaned /\ runtime'[a].status = "cleaned"
             /\ ~InRows(a) => runtime'[a] = runtime[a]
             /\ runtime'[a].tools = runtime[a].tools
  <2>1. CASE InRows(a)
    <3>1. runtime'[a] = [runtime[a] EXCEPT !.status = "cleaned", !.cleaned = TRUE]
      BY <1>1, <2>1
    <3> QED BY <1>1, <2>1, <3>1 DEF RuntimeType
  <2>2. CASE ~InRows(a)
    BY <1>1, <2>2
  <2> QED BY <2>1, <2>2
<1>5. runtime' \in [Agents -> RuntimeType]
  BY <1>1, <1>4
<1>6. ASSUME NEW a \in Agents PROVE RuntimeInv(a)'
  <2>1. RuntimeInv(a) /\ (InRows(a)' <=> InRows(a))
    BY <1>1 DEF Runtimes, InRows
  <2>2. ~IsActiveRow(a)'
    <3>1. CASE InRows(a)
      BY <1>4, <3>1 DEF IsActiveRow
    <3>2. CASE ~InRows(a)
      BY <1>4, <2>1, <3>2 DEF IsActiveRow, RuntimeInv
    <3> QED BY <3>1, <3>2
  <2> QED BY <1>4, <2>1, <2>2 DEF RuntimeInv
<1>7. /\ disturbed' \subseteq Agents /\ \A a \in Agents : AtWork(a) => a \in disturbed'
  BY <1>1 DEF TypeOK
<1>8. Calls' /\ Runtimes'
  BY <1>1, <1>6, <1>7, DisturbedCalls
<1>9. SweepOf(p)
  BY <1>1, <1>3, <1>5, <1>7 DEF SweepOf, TypeOK
<1>10. QuietInv(p)' /\ InactiveInv(p)'
  BY <1>3 DEF QuietInv, InactiveInv
<1> QED BY <1>8, <1>9, <1>10, SweepInvariant

\* ListInactive.
LEMMA ListInactiveInvariant == ASSUME Invariant, NEW q \in Cleaners, ListInactive(q) PROVE Invariant'
<1> DEFINE left == {c \in docker : HasAgentLabel(c) /\ c.of \in sweep[q].terminal}
<1>1. /\ sweep[q].pc = "listInactive" /\ q \in Sweepers
      /\ sweep' = [sweep EXCEPT ![q].pc = "removeInactive", ![q].left = left]
      /\ UNCHANGED <<docker, network, keys, rows, runtime, agentRun, call, disturbed, faults>>
      /\ TypeOK /\ sweep \in [Sweepers -> SweepType] /\ runtime \in [Agents -> RuntimeType]
  BY TypeParts DEF ListInactive, InSweep, Invariant, SweepsType, RowsType, Sweepers
<1>2. \A c \in left : c \in docker /\ HasAgentLabel(c) /\ c.of \in sweep[q].terminal
  OBVIOUS
<1>3. left \subseteq Container
  BY <1>1 DEF TypeOK
<1> HIDE DEF left
<1>4. /\ sweep' \in [Sweepers -> SweepType] /\ \A p \in Sweepers \ {q} : sweep'[p] = sweep[p]
      /\ sweep'[q].pc = "removeInactive" /\ sweep'[q].left = left
  BY <1>1, <1>3 DEF SweepType, SweepPoints
<1>5. SweepOf(q)
  BY <1>1, <1>4 DEF SweepOf, TypeOK
<1>6. QuietInv(q)'
  BY <1>4 DEF QuietInv
<1>7. InactiveInv(q)'
  <2> SUFFICES ASSUME NEW c \in left PROVE HasAgentLabel(c) /\ Terminal(c.of)' /\ call'[c.of].pc = "ended"
    BY <1>4 DEF InactiveInv
  <2>1. c.of \in Agents /\ c \in docker /\ HasAgentLabel(c)
    BY <1>2, <1>3, ContainerFields
  <2>2. Terminal(c.of) /\ call[c.of].pc \in {"raise", "ended"}
    BY <1>1, <1>2 DEF Invariant, Sweeps, InactiveInv
  <2>3. LabelInv(c.of)
    BY <2>1, Parts
  <2>4. call[c.of].pc = "ended"
    BY <2>1, <2>2, <2>3 DEF LabelInv, Terminal, SidecarPoints
  <2> QED BY <1>1, <2>1, <2>2, <2>4 DEF Terminal
<1> QED BY <1>1, <1>5, <1>6, <1>7, SameCalls, SweepInvariant

\* RemoveInactive: whom it takes a container from is not at work any more.
LEMMA RemoveInactiveInvariant == ASSUME Invariant, NEW q \in Cleaners, RemoveInactive(q) PROVE Invariant'
<1>1. /\ sweep[q].pc = "removeInactive" /\ sweep[q].left # {} /\ q \in Sweepers
      /\ UNCHANGED <<network, keys, rows, runtime, agentRun, call, disturbed>>
      /\ TypeOK /\ runtime \in [Agents -> RuntimeType]
  BY TypeParts DEF RemoveInactive, RemoveContainer, InSweep, Invariant, RowsType, Sweepers
<1>2. PICK c \in sweep[q].left : RemoveContainer(q, c)
  BY <1>1 DEF RemoveInactive
<1>3. /\ sweep' \in [Sweepers -> SweepType] /\ \A p \in Sweepers \ {q} : sweep'[p] = sweep[p]
      /\ faults' \in 0..MaxFaults /\ docker' \in {docker, docker \ {c}}
  BY <1>1, <1>2, RemoveFacts
<1>4. \/ sweep'[q].pc = "removeInactive" /\ sweep'[q].left = sweep[q].left \ {c}
      \/ sweep'[q].pc = "ended"
  BY <1>1, <1>2, RemoveFacts
<1>5. SweepOf(q)
  BY <1>1, <1>3, <1>4 DEF SweepOf, TypeOK
<1>6. QuietInv(q)'
  BY <1>4 DEF QuietInv
<1>7. InactiveInv(q)
  BY <1>1 DEF Invariant, Sweeps
<1>8. InactiveInv(q)'
  BY <1>1, <1>4, <1>7 DEF InactiveInv, Terminal
<1>9. /\ HasAgentLabel(c) /\ call[c.of].pc = "ended"
      /\ docker' \subseteq docker /\ \A d \in docker : d \in docker' \/ d = c
  BY <1>1, <1>3, <1>7 DEF InactiveInv
<1>10. c.kind \notin {"mcp", "runner"}
  BY <1>9 DEF HasAgentLabel
<1>11. ASSUME NEW a \in Agents PROVE c # Runner(a)
  BY <1>10 DEF Runner
<1>12. ASSUME NEW b \in Agents PROVE CallInv(b)' /\ LabelInv(b)'
  <2>1. CallInv(b) /\ LabelInv(b) /\ NextTool(b)' = NextTool(b)
    BY <1>1 DEF Invariant, Calls, NextTool
  <2>2. \A r : InRows(r)' <=> InRows(r)
    BY <1>1 DEF InRows
  <2>3. Todo(b)' /\ Shape(b)' /\ RunStatus(b)'
    BY <1>1, <2>1 DEF CallInv, Todo, Shape, RunStatus
  <2>4. call[b].pc \in BuildPoints \cup ServePoints => c \notin call[b].tools
    <3>1. \A d \in call[b].tools : d.kind = "mcp" \/ (d.kind = "sidecar" /\ d.of = b)
      BY <2>1 DEF CallInv, Shape
    <3>2. call[b].pc \in BuildPoints \cup ServePoints => c.of # b
      BY <1>9 DEF BuildPoints, ServePoints, SidecarPoints
    <3> QED BY <1>10, <3>1, <3>2
  <2>5. c \notin call[b].runtime.tools
    BY <1>10, <2>1 DEF CallInv, Shape
  <2>6. Built(b)'
    BY <1>1, <1>9, <1>11, <2>1, <2>2, <2>4 DEF CallInv, Built
  <2>7. Found(b)'
    BY <1>1, <1>9, <1>11, <2>1, <2>2, <2>5 DEF CallInv, Found, Relies
  <2>8. Served(b)'
    BY <1>1, <1>9, <1>11, <2>1, <2>4 DEF CallInv, Served, Relies
  <2>9. LabelInv(b)'
    BY <1>1, <1>9, <2>1 DEF LabelInv
  <2> QED BY <2>3, <2>6, <2>7, <2>8, <2>9 DEF CallInv
<1>13. ASSUME NEW a \in Agents PROVE RuntimeInv(a)'
  <2>1. RuntimeInv(a) /\ (InRows(a)' <=> InRows(a)) /\ (IsActiveRow(a)' <=> IsActiveRow(a))
    BY <1>1 DEF Invariant, Runtimes, InRows, IsActiveRow
  <2>2. c \notin runtime[a].tools
    BY <1>10, <2>1 DEF RuntimeInv
  <2> QED BY <1>1, <1>9, <1>11, <2>1, <2>2 DEF RuntimeInv
<1> QED BY <1>1, <1>5, <1>6, <1>8, <1>12, <1>13, SweepInvariant DEF Calls, Runtimes

-----------------------------------------------------------------------------
(* The theorems *)

\* Nothing has begun.
LEMMA InitInvariant == Init => Invariant
<1> SUFFICES ASSUME Init PROVE Invariant
  OBVIOUS
<1>1. TypeOK
  <2>1. DockerType
    BY DEF Init, DockerType
  <2>2. RestType
    <3>1. faults = 0 /\ disturbed = {} /\ MaxFaults \in Nat
      BY RuntimeAssumption DEF Init
    <3> QED BY <3>1 DEF RestType
  <2>3. RowsType
    BY DEF Init, RowsType, RuntimeType
  <2>4. CallsType
    BY DEF Init, CallsType, CallType, FoundType, NoRuntime, Statuses
  <2>5. SweepsType
    BY DEF Init, SweepsType, SweepType
  <2> QED BY <2>1, <2>2, <2>3, <2>4, <2>5, TypeParts
<1>2. \A a \in Agents : ~InRows(a)
  BY DEF Init, InRows
<1>3. ASSUME NEW a \in Agents PROVE CallInv(a) /\ LabelInv(a) /\ RuntimeInv(a)
  <2>1. /\ call[a].pc = "idle" /\ call[a].tools = {} /\ call[a].runtime.tools = {} /\ agentRun[a] = None
        /\ docker = {} /\ runtime[a].status = None /\ runtime[a].tools = {} /\ runtime[a].endpoint = FALSE
    BY DEF Init, NoRuntime
  <2>2. CallInv(a)
    BY <2>1 DEF CallInv, Todo, Shape, Built, Found, Served, RunStatus, BuildPoints, ServePoints, SidecarPoints,
       StartPoints
  <2>3. LabelInv(a)
    BY <2>1 DEF LabelInv
  <2>4. RuntimeInv(a)
    BY <1>2, <2>1, RuntimeAssumption DEF RuntimeInv, IsActiveRow
  <2> QED BY <2>2, <2>3, <2>4
<1>4. ASSUME NEW p \in Sweepers PROVE InactiveInv(p) /\ QuietInv(p)
  BY DEF Init, InactiveInv, QuietInv, Sweepers
<1> QED BY <1>1, <1>3, <1>4 DEF Invariant, Calls, Runtimes, Sweeps

\* Every step keeps the invariant.
LEMMA NextInvariant == Invariant /\ [Next]_vars => Invariant'
<1> SUFFICES ASSUME Invariant, [Next]_vars PROVE Invariant'
  OBVIOUS
<1>1. ASSUME NEW a \in Agents, Step(a) PROVE Invariant'
  BY <1>1, CallStepInvariant
<1>2. ASSUME NEW p \in Agents \cup Cleaners, SweepStep(p) PROVE Invariant'
  <2>1. p \in Sweepers
    BY DEF Sweepers
  <2> QED BY <1>2, <2>1, ListInvariant, RemoveInvariant, RemoveNetworkInvariant, DeactivateInvariant,
          MarkInvariant DEF SweepStep
<1>3. ASSUME NEW q \in Cleaners, BeginCleanup(q) \/ ListInactive(q) \/ RemoveInactive(q) PROVE Invariant'
  BY <1>3, BeginInvariant, ListInactiveInvariant, RemoveInactiveInvariant
<1>4. CASE UNCHANGED vars
  <2>1. /\ UNCHANGED <<docker, keys, rows, runtime, agentRun, call, disturbed>>
        /\ UNCHANGED <<network, sweep, faults>>
    BY <1>4 DEF vars
  <2>2. Calls' /\ Runtimes'
    BY <2>1, SameCalls
  <2>3. TypeOK'
    BY <2>1 DEF Invariant, TypeOK
  <2>4. ASSUME NEW p \in Sweepers PROVE InactiveInv(p)' /\ QuietInv(p)'
    BY <2>1 DEF Invariant, Sweeps, InactiveInv, QuietInv, Terminal
  <2> QED BY <2>2, <2>3, <2>4 DEF Invariant, Sweeps
<1> QED BY <1>1, <1>2, <1>3, <1>4 DEF Next

\* The invariant holds in every behaviour.
LEMMA AlwaysInvariant == Spec => []Invariant
<1>1. Init => Invariant
  BY InitInvariant
<1>2. Invariant /\ [Next]_vars => Invariant'
  BY NextInvariant
<1> QED BY <1>1, <1>2, PTL DEF Spec

\* Every variable has its type.
THEOREM Types == Spec => []TypeOK
<1>1. Invariant => TypeOK
  BY DEF Invariant
<1> QED BY <1>1, AlwaysInvariant, PTL

\* Whatever else the run's agents and cleanups do, an agent at its task that no
\* cleanup_run met has the servers it was told of, with their keys, and its
\* session has the runner (start_agent_run, ensure_agent_runtime, cleanup_run).
THEOREM UndisturbedAgents == Spec => []UndisturbedAgentHasServers
<1>1. ASSUME Invariant PROVE UndisturbedAgentHasServers
  <2> SUFFICES ASSUME NEW a \in Agents, call[a].pc \in {"inSession", "startAgent", "waitAgent", "listen"},
                      {a, call[a].runtime.id} \cap disturbed = {}
               PROVE  /\ call[a].tools \subseteq docker \cap keys
                      /\ At(a, "inSession") => Runner(call[a].runtime.id) \in docker
    BY DEF UndisturbedAgentHasServers
  <2>1. Served(a)
    BY <1>1, Parts
  <2>2. Relies(a)
    BY DEF Relies
  <2> QED BY <2>1, <2>2 DEF Served, ServePoints, SidecarPoints, At
<1> QED BY <1>1, AlwaysInvariant, PTL

\* A cleanup_run that no call of start_agent_run overlaps, and to which Docker
\* refuses nothing, leaves nothing of the run, however many other cleanups run
\* beside it and whatever failed before (cleanup_run).
THEOREM CompleteCleanup == Spec => QuietCleanupIsComplete
<1>1. ASSUME Invariant, NEW p \in Agents \cup Cleaners, InSweep(p, "rows"), sweep[p].quiet, MarkCleaned(p)
      PROVE  /\ docker' = {} /\ ~network' /\ keys' = {}
             /\ \A i \in DOMAIN rows : runtime'[rows[i]].cleaned
  <2>1. QuietInv(p) /\ sweep[p].pc = "rows"
    BY <1>1 DEF Invariant, Sweeps, Sweepers, InSweep
  <2>2. docker = {} /\ network = FALSE /\ keys = {}
    BY <1>1, <2>1 DEF QuietInv
  <2>3. UNCHANGED <<docker, network, keys>>
    BY <1>1 DEF MarkCleaned
  <2>4. ASSUME NEW i \in DOMAIN rows PROVE runtime'[rows[i]].cleaned
    <3>1. rows[i] \in Agents /\ runtime[rows[i]] \in RuntimeType
      BY <1>1, TypeParts DEF Invariant, RowsType
    <3>2. runtime'[rows[i]] = [runtime[rows[i]] EXCEPT !.status = "cleaned", !.cleaned = TRUE]
      BY <1>1, <3>1 DEF MarkCleaned
    <3> QED BY <3>1, <3>2 DEF RuntimeType
  <2> QED BY <2>2, <2>3, <2>4
<1>2. Invariant =>
        [\A p \in Agents \cup Cleaners :
           InSweep(p, "rows") /\ sweep[p].quiet /\ MarkCleaned(p)
             => /\ docker' = {} /\ ~network' /\ keys' = {}
                /\ \A i \in DOMAIN rows : runtime'[rows[i]].cleaned]_vars
  BY <1>1
<1> QED BY <1>2, AlwaysInvariant, PTL DEF QuietCleanupIsComplete

\* The cleanup of inactive containers takes none of an agent that is at work,
\* or runs on, although its decision rests on rows it read before it listed
\* the containers (cleanup_inactive_agent_runtime).
THEOREM SparedAgents == Spec => InactiveCleanupSparesAgents
<1>1. ASSUME Invariant, NEW q \in Cleaners, RemoveInactive(q), NEW c \in docker \ docker'
      PROVE  HasAgentLabel(c) /\ ~AtWork(c.of) /\ agentRun[c.of] # "running"
  <2>1. InactiveInv(q) /\ sweep[q].pc = "removeInactive"
    BY <1>1 DEF Invariant, Sweeps, Sweepers, RemoveInactive, InSweep
  <2>2. PICK d \in sweep[q].left : RemoveContainer(q, d)
    BY <1>1 DEF RemoveInactive
  <2>3. c = d
    BY <1>1, <2>2 DEF RemoveContainer
  <2>4. HasAgentLabel(c) /\ Terminal(c.of) /\ call[c.of].pc = "ended"
    BY <2>1, <2>2, <2>3 DEF InactiveInv
  <2> QED BY <2>4 DEF Terminal, AtWork, StartPoints
<1>2. Invariant =>
        [\A q \in Cleaners : RemoveInactive(q)
           => \A c \in docker \ docker' :
                 HasAgentLabel(c) /\ ~AtWork(c.of) /\ agentRun[c.of] # "running"]_vars
  BY <1>1
<1> QED BY <1>2, AlwaysInvariant, PTL DEF InactiveCleanupSparesAgents
=============================================================================
