--------------------------- MODULE AuditRunProofs ---------------------------
(***************************************************************************)
(* Theorems about AuditRunLifecycle for every set of runs, workers,        *)
(* gateways and calls, every list of stages and every environment.         *)
(***************************************************************************)
EXTENDS AuditRunLifecycle, FiniteSetTheorems, TLAPS

\* What a process that is about to write the row knows: the run it works on
\* and, when it marks a status, which of the statuses it marks.
LocalInv ==
    /\ \A c \in Calls :
          /\ call[c].pc # "idle" => call[c].run \in Runs
          /\ call[c].pc = "mark" =>
                call[c].goal \in {"agent_completed", "queued", "cancelling",
                                 "cancelled"}
          /\ call[c].pc \in {"load", "store"} =>
                call[c].goal # "agent_completed"
    /\ \A w \in Workers :
          /\ worker[w].pc \notin {"off", "poll", "dead"} =>
                worker[w].run \in Runs
          /\ worker[w].pc = "mark" =>
                worker[w].goal \in {"completed", "cancelled", "failed",
                                    "crashed"}

\* TypeOK is not inductive: an unknown run would be loaded, an unknown goal
\* marked as a status.
TypeInv == TypeOK /\ LocalInv

-----------------------------------------------------------------------------
(* Lemmas about the operators.                                             *)

\* Every step number of a worker names a stage or the report.
LEMMA StageNameType ==
    ASSUME NEW i \in 1..(Len(Stages) + 1)
    PROVE  StageName(i) \in StageNames \cup FixedStages
BY ConstantsAssumption DEF StageName, StageNames, FixedStages

\* Every edit a worker makes to a config yields a config.
LEMMA WorkerEditType ==
    ASSUME NEW goal \in WorkerGoal, NEW i \in 1..(Len(Stages) + 1),
           NEW cfg \in Config
    PROVE  WorkerEdit(goal, i, cfg) \in Config
BY StageNameType DEF WorkerEdit, WorkerGoal, Config, FixedStages

\* Every edit a handler makes to a config yields a config.
LEMMA CallEditType ==
    ASSUME NEW goal \in CallGoal \ {"agent_completed"}, NEW cfg \in Config
    PROVE  CallEdit(goal, cfg) \in Config
BY DEF CallEdit, CallGoal, Config, FixedStages

\* Storing a config keeps the type of the column.
LEMMA StoreConfigType ==
    ASSUME config \in [Runs -> Config], NEW r, NEW goal, NEW old,
           NEW new \in Config, StoreConfig(r, goal, old, new)
    PROVE  config' \in [Runs -> Config]
BY DEF StoreConfig

\* What a process holds that has loaded nothing is a config.
LEMMA NoConfigType == NoConfig \in Config
BY DEF NoConfig, Config, FixedStages

-----------------------------------------------------------------------------
(* Type correctness.                                                       *)

\* The counter of intrusions stays a number.
LEMMA IntrudeType ==
    ASSUME intrusions \in [Runs -> Nat], NEW hit, Intrude(hit)
    PROVE  intrusions' \in [Runs -> Nat]
BY DEF Intrude

\* Before anything happened the types are right.
LEMMA InitType == Init => TypeInv
BY ConstantsAssumption, NoConfigType
   DEF Init, TypeInv, TypeOK, LocalInv, RunStatus, Heartbeat, WorkerState,
       WorkerPc, WorkerGoal, CallState, CallPc, CallGoal, RecoveryPc

\* What an entry of call must satisfy on its own.
CallInv(e) ==
    /\ e \in CallState
    /\ e.pc # "idle" => e.run \in Runs
    /\ e.pc = "mark" =>
          e.goal \in {"agent_completed", "queued", "cancelling", "cancelled"}
    /\ e.pc \in {"load", "store"} => e.goal # "agent_completed"

\* A step of one handler keeps the types when the entry it writes has them
\* and so has what it writes to the row.
LEMMA CallStep ==
    ASSUME TypeInv, NEW c \in Calls, NEW new, CallInv(new),
           call' = [call EXCEPT ![c] = new],
           status' \in [Runs -> RunStatus], config' \in [Runs -> Config],
           containers' \subseteq Runs, queuings' \in [Runs -> Nat],
           intrusions' \in [Runs -> Nat],
           UNCHANGED <<workerVars, recovery, claims>>
    PROVE  TypeInv'
BY DEF TypeInv, TypeOK, LocalInv, CallInv, workerVars

\* The handlers keep the types.
LEMMA CallType ==
    ASSUME TypeInv, NEW c \in Calls, CallNext(c)
    PROVE  TypeInv'
<1> USE DEF rowVars, historyVars
<1> DEFINE e == call[c]
<1>0. /\ e \in CallState /\ CallInv(e)
      /\ status \in [Runs -> RunStatus] /\ config \in [Runs -> Config]
      /\ containers \subseteq Runs /\ queuings \in [Runs -> Nat]
      /\ intrusions \in [Runs -> Nat]
  BY DEF TypeInv, TypeOK, LocalInv, CallInv
<1>1. ASSUME NEW r \in Runs, RunPipeline(c, r)
      PROVE  TypeInv'
  <2>1. CallInv([e EXCEPT !.pc = "load", !.goal = "clear", !.run = r])
    BY <1>0 DEF CallInv, CallState, CallPc, CallGoal
  <2>2. intrusions' \in [Runs -> Nat]
    BY <1>0, <1>1, IntrudeType DEF RunPipeline
  <2> QED BY <1>0, <1>1, <2>1, <2>2, CallStep DEF RunPipeline
<1>2. ASSUME NEW r \in Runs, CancelRun(c, r)
      PROVE  TypeInv'
  <2>1. IsActive(status[r], config[r], TRUE) \in BOOLEAN
    BY DEF IsActive
  <2>2. CallInv([e EXCEPT !.pc = "load", !.goal = "request", !.run = r,
                          !.active = IsActive(status[r], config[r], TRUE)])
    BY <1>0, <2>1 DEF CallInv, CallState, CallPc, CallGoal
  <2> QED BY <1>0, <1>2, <2>2, CallStep DEF CancelRun
<1>3. CASE CallLoad(c)
  <2>1. CallInv([e EXCEPT !.pc = "store", !.loaded = config[call[c].run]])
    BY <1>0, <1>3 DEF CallLoad, CallInv, CallState, CallPc
  <2> QED BY <1>0, <1>3, <2>1, CallStep DEF CallLoad
<1>4. ASSUME NEW pc \in CallPc, NEW goal \in CallGoal, CallGoes(c, pc, goal),
             e.pc # "idle",
             pc = "mark" => goal \in {"agent_completed", "queued",
                                      "cancelling", "cancelled"},
             pc \in {"load", "store"} => goal # "agent_completed"
      PROVE  \E new : CallInv(new) /\ call' = [call EXCEPT ![c] = new]
  <2>1. CallInv([e EXCEPT !.pc = pc, !.goal = goal, !.loaded = NoConfig])
    BY <1>0, <1>4, NoConfigType DEF CallInv, CallState
  <2> QED BY <1>4, <2>1 DEF CallGoes
<1>5. CASE CallStore(c)
  <2>1. /\ e.run \in Runs /\ e.goal \in CallGoal \ {"agent_completed"}
        /\ e.loaded \in Config
    BY <1>0, <1>5 DEF CallStore, CallInv, CallState
  <2>2. config' \in [Runs -> Config]
    BY <1>0, <1>5, <2>1, CallEditType, StoreConfigType DEF CallStore
  <2>3. PICK pc \in CallPc, goal \in CallGoal :
           /\ CallGoes(c, pc, goal)
           /\ pc = "mark" => goal \in {"queued", "cancelling"}
           /\ pc \notin {"load", "store"}
    BY <1>5 DEF CallStore, CallGoal, CallPc
  <2>4. \E new : CallInv(new) /\ call' = [call EXCEPT ![c] = new]
    BY <1>4, <1>5, <2>3 DEF CallStore
  <2> QED BY <1>0, <1>5, <2>2, <2>4, CallStep DEF CallStore
<1>6. CASE CallMark(c)
  <2>1. /\ e.goal \in {"agent_completed", "queued", "cancelling", "cancelled"}
        /\ e.run \in Runs
    BY <1>0, <1>6 DEF CallMark, CallInv
  <2>2. status' \in [Runs -> RunStatus]
    BY <1>0, <1>6, <2>1 DEF CallMark, MarkStatus, RunStatus
  <2>3. queuings' \in [Runs -> Nat]
    BY <1>0, <1>6, <2>1 DEF CallMark
  <2>4. \E new : CallInv(new) /\ call' = [call EXCEPT ![c] = new]
    BY <1>4, <1>6, <2>1 DEF CallMark, CallGoal, CallPc
  <2>5. intrusions' \in [Runs -> Nat]
    BY <1>0, <1>6, IntrudeType DEF CallMark
  <2> QED BY <1>0, <1>6, <2>2, <2>3, <2>4, <2>5, CallStep DEF CallMark
<1>7. CASE CallCleanup(c)
  <2>1. containers' \subseteq Runs
    BY <1>0, <1>7 DEF CallCleanup
  <2>2. PICK pc \in {"mark", "done"}, goal \in {"cancelling", "cancelled"} :
           CallGoes(c, pc, goal)
    BY <1>7 DEF CallCleanup
  <2>3. \E new : CallInv(new) /\ call' = [call EXCEPT ![c] = new]
    BY <1>4, <1>7, <2>2 DEF CallCleanup, CallPc, CallGoal
  <2> QED BY <1>0, <1>7, <2>1, <2>3, CallStep DEF CallCleanup
<1>8. ASSUME NEW r \in Runs, CreateRun(c, r)
      PROVE  TypeInv'
  <2>1. CallInv([e EXCEPT !.pc = "agent", !.goal = "agent_completed",
                          !.run = r])
    BY <1>0 DEF CallInv, CallState, CallPc, CallGoal
  <2> QED BY <1>0, <1>8, <2>1, CallStep DEF CreateRun
<1>9. CASE EndAgents(c)
  <2>1. containers' \subseteq Runs
    BY <1>0, <1>9 DEF EndAgents, CallInv, RunAgents
  <2>2. e.goal \in CallGoal
    BY <1>0 DEF CallState
  <2>3. PICK pc \in {"mark", "done"} :
           /\ CallGoes(c, pc, e.goal)
           /\ pc = "mark" => e.goal = "agent_completed"
    BY <1>9 DEF EndAgents
  <2>4. \E new : CallInv(new) /\ call' = [call EXCEPT ![c] = new]
    BY <1>4, <1>9, <2>2, <2>3 DEF EndAgents, CallPc
  <2> QED BY <1>0, <1>9, <2>1, <2>4, CallStep DEF EndAgents
<1>10. CASE CallFails(c)
  <2>1. e.goal \in CallGoal
    BY <1>0 DEF CallState
  <2>2. \E new : CallInv(new) /\ call' = [call EXCEPT ![c] = new]
    BY <1>4, <1>10, <2>1 DEF CallFails, CallPc
  <2> QED BY <1>0, <1>10, <2>2, CallStep DEF CallFails
<1>11. ASSUME NEW r \in Runs, ScaleValidators(c, r)
       PROVE  TypeInv'
  <2>1. CallInv([e EXCEPT !.pc = "load", !.goal = "validate", !.run = r])
    BY <1>0 DEF CallInv, CallState, CallPc, CallGoal
  <2> QED BY <1>0, <1>11, <2>1, CallStep DEF ScaleValidators
<1> QED
  BY <1>1, <1>2, <1>3, <1>5, <1>6, <1>7, <1>8, <1>9, <1>10, <1>11 DEF CallNext

\* What a recovery pass knows.
RecoveryState ==
    [pc : RecoveryPc, spared : SUBSET [worker : Workers, run : Runs \cup {None}],
     victims : SUBSET [run : Runs, loaded : Config, status : RunStatus]]

\* A pass that gets a new entry changes no other type.
LEMMA RecoveryStep ==
    ASSUME TypeInv, NEW p \in Recoverers, NEW new \in RecoveryState, recovery' = [recovery EXCEPT ![p] = new],
           status' \in [Runs -> RunStatus], config' \in [Runs -> Config],
           intrusions' \in [Runs -> Nat],
           UNCHANGED <<containers, workerVars, call, queuings, claims>>
    PROVE  TypeInv'
<1>1. recovery' \in [Recoverers -> RecoveryState]
  BY DEF TypeInv, TypeOK, RecoveryState
<1>2. TypeOK'
  BY <1>1 DEF TypeInv, TypeOK, RecoveryState, workerVars
<1>3. LocalInv'
  BY DEF TypeInv, LocalInv, workerVars
<1> QED BY <1>2, <1>3 DEF TypeInv

\* A pass that reads too little or too much changes no type.
LEMMA RecoverType ==
    ASSUME TypeInv, NEW p \in Recoverers, RecoverNext(p)
    PROVE  TypeInv'
<1> DEFINE victims == recovery[p].victims
<1>0. /\ recovery[p] \in RecoveryState /\ recovery \in [Recoverers -> RecoveryState]
      /\ status \in [Runs -> RunStatus] /\ config \in [Runs -> Config]
      /\ heartbeat \in [Workers -> Heartbeat]
      /\ victims \subseteq [run : Runs, loaded : Config, status : RunStatus]
      /\ intrusions \in [Runs -> Nat]
  BY DEF TypeInv, TypeOK, RecoveryState
<1>1. CASE RecoverReadWorkers(p)
  <2> DEFINE fresh == {w \in Workers : heartbeat[w].state = "active"
                                       /\ heartbeat[w].fresh}
             found == {[worker |-> w, run |-> heartbeat[w].run] : w \in fresh}
  <2>1. \A w \in Workers : heartbeat[w].run \in Runs \cup {None}
    BY <1>0 DEF Heartbeat
  <2>2. found \in SUBSET [worker : Workers, run : Runs \cup {None}]
    BY <2>1
  <2>3. /\ recovery' = [recovery EXCEPT ![p] = [@ EXCEPT !.pc = "rows", !.spared = found]]
        /\ UNCHANGED <<rowVars, containers, workerVars, call, historyVars>>
    BY <1>1 DEF RecoverReadWorkers
  <2> HIDE DEF found
  <2>4. PICK new \in RecoveryState : new = [recovery[p] EXCEPT !.pc = "rows", !.spared = found]
    BY <1>0, <2>2 DEF RecoveryState, RecoveryPc
  <2>5. recovery' = [recovery EXCEPT ![p] = new]
    BY <1>0, <2>3, <2>4
  <2> QED BY <1>0, <2>3, <2>5, RecoveryStep DEF rowVars, historyVars
<1>2. CASE RecoverReadRuns(p)
  <2> DEFINE hit == {r \in Runs : /\ IsActive(status[r], config[r], p \in Gateways)
                                  /\ ~Shields(recovery[p].spared, r, config[r])}
             read == {[run |-> r, loaded |-> config[r], status |-> status[r]] : r \in hit}
  <2>1. read \in SUBSET [run : Runs, loaded : Config, status : RunStatus]
    BY <1>0
  <2>2. /\ recovery' = [recovery EXCEPT ![p] = [@ EXCEPT !.pc = "commit", !.victims = read]]
        /\ UNCHANGED <<rowVars, containers, workerVars, call, historyVars>>
    BY <1>2 DEF RecoverReadRuns
  <2> HIDE DEF read
  <2>3. PICK new \in RecoveryState : new = [recovery[p] EXCEPT !.pc = "commit", !.victims = read]
    BY <1>0, <2>1 DEF RecoveryState, RecoveryPc
  <2>4. recovery' = [recovery EXCEPT ![p] = new]
    BY <1>0, <2>2, <2>3
  <2> QED BY <1>0, <2>2, <2>4, RecoveryStep DEF rowVars, historyVars
<1>3. CASE RecoverCommit(p)
  <2> DEFINE Chosen(r) == CHOOSE v \in victims : v.run = r
             hit == {v.run : v \in victims}
  <2>1. \A r \in hit : Chosen(r) \in victims
    <3>1. TAKE r \in hit
    <3>2. PICK v \in victims : v.run = r
      OBVIOUS
    <3> QED BY <3>2
  <2>2. \A r \in hit : InterruptedConfig(Chosen(r).loaded) \in Config
    <3>1. \A cfg \in Config : InterruptedConfig(cfg) \in Config
      BY DEF InterruptedConfig, Config, FixedStages
    <3>2. \A v \in victims : v.loaded \in Config
      BY <1>0
    <3> QED BY <2>1, <3>1, <3>2
  <2>3. config' = [r \in Runs |-> IF r \in hit
                    THEN InterruptedConfig(Chosen(r).loaded) ELSE config[r]]
    BY <1>3 DEF RecoverCommit
  <2>4. config' \in [Runs -> Config]
    BY <1>0, <2>2, <2>3
  <2>5. status' \in [Runs -> RunStatus]
    BY <1>0, <1>3 DEF RecoverCommit, RunStatus
  <2>6. /\ recovery' = [recovery EXCEPT ![p] = [@ EXCEPT
               !.pc = "done", !.spared = {}, !.victims = {}]]
        /\ UNCHANGED <<containers, workerVars, call, queuings, claims>>
    BY <1>3 DEF RecoverCommit
  <2>7. PICK new \in RecoveryState : new = [recovery[p] EXCEPT !.pc = "done", !.spared = {}, !.victims = {}]
    BY <1>0 DEF RecoveryState, RecoveryPc
  <2>8. recovery' = [recovery EXCEPT ![p] = new]
    BY <1>0, <2>6, <2>7
  <2>9. intrusions' \in [Runs -> Nat]
    BY <1>0, <1>3, IntrudeType DEF RecoverCommit
  <2> QED BY <2>4, <2>5, <2>6, <2>8, <2>9, RecoveryStep
<1> QED BY <1>1, <1>2, <1>3 DEF RecoverNext

\* What an entry of worker must satisfy on its own.
WorkerInv(e) ==
    /\ e \in WorkerState
    /\ e.pc \notin {"off", "poll", "dead"} => e.run \in Runs
    /\ e.pc = "mark" =>
          e.goal \in {"completed", "cancelled", "failed", "crashed"}

\* A step of one worker keeps the types when the entry it writes has them
\* and so has what it writes to the row and to its heartbeat.
LEMMA WorkerStep ==
    ASSUME TypeInv, NEW w \in Workers, NEW new, WorkerInv(new),
           worker' = [worker EXCEPT ![w] = new],
           status' \in [Runs -> RunStatus], config' \in [Runs -> Config],
           containers' \subseteq Runs, claims' \in [Runs -> Nat],
           heartbeat' \in [Workers -> Heartbeat],
           intrusions' \in [Runs -> Nat],
           UNCHANGED <<stopping, recovery, call, queuings>>
    PROVE  TypeInv'
BY DEF TypeInv, TypeOK, LocalInv, WorkerInv

\* The workers keep the types.
LEMMA WorkerType ==
    ASSUME TypeInv, NEW w \in Workers, WorkerNext(w)
    PROVE  TypeInv'
<1> USE DEF rowVars, historyVars
<1> DEFINE e == worker[w]
<1>0. /\ e \in WorkerState /\ WorkerInv(e)
      /\ status \in [Runs -> RunStatus] /\ config \in [Runs -> Config]
      /\ containers \subseteq Runs /\ claims \in [Runs -> Nat]
      /\ heartbeat \in [Workers -> Heartbeat]
      /\ intrusions \in [Runs -> Nat]
  BY DEF TypeInv, TypeOK, LocalInv, WorkerInv
<1>1. ASSUME NEW pc \in WorkerPc, NEW goal \in WorkerGoal,
             WorkerGoes(w, pc, goal), e.run \in Runs,
             pc = "mark" => goal \in {"completed", "cancelled", "failed",
                                      "crashed"}
      PROVE  \E new : WorkerInv(new) /\ worker' = [worker EXCEPT ![w] = new]
  <2>1. WorkerInv([e EXCEPT !.pc = pc, !.goal = goal, !.loaded = NoConfig])
    BY <1>0, <1>1, NoConfigType DEF WorkerInv, WorkerState
  <2> QED BY <1>1, <2>1 DEF WorkerGoes
<1>2. ASSUME NEW pc \in {"poll", "execute", "dead"}, NEW run \in Runs \cup {None},
             WorkerRests(w, pc, run), pc = "execute" => run \in Runs
      PROVE  \E new : WorkerInv(new) /\ worker' = [worker EXCEPT ![w] = new]
  <2>1. WorkerInv([pc |-> pc, goal |-> "stage", step |-> 1, run |-> run,
                   loaded |-> NoConfig])
    BY <1>2, NoConfigType, ConstantsAssumption
       DEF WorkerInv, WorkerState, WorkerPc, WorkerGoal
  <2> QED BY <1>2, <2>1 DEF WorkerRests
<1>3. e.pc \notin {"off", "poll", "dead"} => e.run \in Runs
  BY <1>0 DEF WorkerInv
<1> USE <1>0, <1>1, <1>2, <1>3 DEF WorkerPc, WorkerGoal
<1>4. CASE StartLoop(w)
  BY <1>4, WorkerStep DEF StartLoop
<1>5. ASSUME NEW r \in Runs, Claim(w, r)
      PROVE  TypeInv'
  <2>1. [config[r] EXCEPT !.stage = "claimed", !.owner = w] \in Config
    <3>1. "claimed" \in StageNames \cup FixedStages /\ w \in Workers \cup {None}
      BY DEF FixedStages
    <3>2. config[r] \in Config
      BY <1>0
    <3> QED BY <3>1, <3>2 DEF Config
  <2>2. config' \in [Runs -> Config] /\ status' \in [Runs -> RunStatus]
    BY <1>5, <2>1 DEF Claim, MarkStatus, RunStatus
  <2>3. claims' \in [Runs -> Nat]
    BY <1>5 DEF Claim
  <2> QED BY <1>5, <2>2, <2>3, WorkerStep DEF Claim
<1>6. CASE BeginExecute(w)
  <2>1. status' \in [Runs -> RunStatus]
    BY <1>6 DEF BeginExecute, MarkStatus, RunStatus
  <2> QED BY <1>6, <2>1, WorkerStep DEF BeginExecute
<1>7. CASE CheckCancel(w)
  BY <1>7, WorkerStep DEF CheckCancel
<1>8. CASE WorkerLoad(w)
  <2>1. WorkerInv([e EXCEPT !.pc = "store", !.loaded = config[worker[w].run]])
    BY <1>8 DEF WorkerLoad, WorkerInv, WorkerState
  <2> QED BY <1>8, <2>1, WorkerStep DEF WorkerLoad
<1>9. CASE WorkerStore(w)
  <2>1. /\ e.run \in Runs /\ e.goal \in WorkerGoal /\ e.loaded \in Config
        /\ e.step \in 1..(Len(Stages) + 1)
    BY <1>9 DEF WorkerStore, WorkerState
  <2>2. config' \in [Runs -> Config]
    BY <1>9, <2>1, WorkerEditType, StoreConfigType DEF WorkerStore
  <2>3. AfterWorkerStore(w)
    BY <1>9 DEF WorkerStore
  <2>4. \E new : WorkerInv(new) /\ worker' = [worker EXCEPT ![w] = new]
    BY <2>1, <2>3 DEF AfterWorkerStore
  <2> QED BY <1>9, <2>2, <2>4, WorkerStep DEF WorkerStore
<1>10. CASE StageSucceeds(w)
  <2>1. containers' \subseteq Runs
    BY <1>10 DEF StageSucceeds, StageDone, RunAgents
  <2>2. CASE e.step <= Len(Stages)
    <3>1. Len(Stages) \in Nat
      BY ConstantsAssumption
    <3>2. e.step \in 1..(Len(Stages) + 1) /\ e.run \in Runs
      BY <1>10 DEF StageSucceeds, StageDone, WorkerState
    <3>3. e.step + 1 \in 1..(Len(Stages) + 1)
      BY <2>2, <3>1, <3>2
    <3>4. WorkerInv([e EXCEPT !.pc = "check", !.goal = "stage",
                              !.step = e.step + 1])
      BY <3>2, <3>3 DEF WorkerInv, WorkerState
    <3> QED BY <1>10, <2>1, <2>2, <3>4, WorkerStep DEF StageSucceeds
  <2>3. CASE ~(e.step <= Len(Stages))
    <3>1. WorkerGoes(w, "load", "summary")
      BY <1>10, <2>3 DEF StageSucceeds
    <3> QED BY <1>10, <2>1, <3>1, WorkerStep DEF StageSucceeds, StageDone
  <2> QED BY <2>2, <2>3
<1>11. CASE StageRaises(w)
  <2>1. containers' \subseteq Runs
    BY <1>11 DEF StageRaises, RunAgents
  <2> QED BY <1>11, <2>1, WorkerStep DEF StageRaises
<1>12. CASE HandleException(w)
  BY <1>12, WorkerStep DEF HandleException
<1>23. CASE DatabaseFails(w)
  <2>1. intrusions' \in [Runs -> Nat]
    BY <1>23, IntrudeType DEF DatabaseFails, RaisesLate
  <2> QED BY <1>23, <2>1, WorkerStep DEF DatabaseFails
<1>13. CASE WorkerMark(w)
  <2>1. e.goal \in {"completed", "cancelled", "failed", "crashed"}
    BY <1>13 DEF WorkerMark, WorkerInv
  <2>2. status' \in [Runs -> RunStatus]
    BY <1>13, <2>1 DEF WorkerMark, MarkStatus, RunStatus
  <2>3. \E new : WorkerInv(new) /\ worker' = [worker EXCEPT ![w] = new]
    BY <1>13, <2>1 DEF WorkerMark
  <2> QED BY <1>13, <2>2, <2>3, WorkerStep DEF WorkerMark
<1>14. CASE ExecuteRaises(w)
  <2>1. intrusions' \in [Runs -> Nat]
    BY <1>14, IntrudeType DEF ExecuteRaises, RaisesLate
  <2> QED BY <1>14, <2>1, WorkerStep DEF ExecuteRaises
<1>15. CASE CleanupRuntime(w)
  <2>1. containers' \subseteq Runs
    BY <1>15 DEF CleanupRuntime
  <2>2. \E new : WorkerInv(new) /\ worker' = [worker EXCEPT ![w] = new]
    <3>1. CASE WorkerRests(w, "poll", None)
      BY <3>1
    <3>2. CASE WorkerGoes(w, "except", "failed")
      BY <1>15, <3>2 DEF CleanupRuntime
    <3>3. CASE WorkerGoes(w, "mark", "crashed")
      BY <1>15, <3>3 DEF CleanupRuntime
    <3> QED BY <1>15, <3>1, <3>2, <3>3 DEF CleanupRuntime
  <2>3. intrusions' \in [Runs -> Nat]
    BY <1>15, IntrudeType DEF CleanupRuntime, RaisesLate
  <2> QED BY <1>15, <2>1, <2>2, <2>3, WorkerStep DEF CleanupRuntime
<1>16. CASE LeaveLoop(w)
  <2>1. heartbeat' \in [Workers -> Heartbeat]
    BY <1>16 DEF LeaveLoop, Heartbeat
  <2> QED BY <1>16, <2>1, WorkerStep DEF LeaveLoop
<1>17. CASE Crash(w)
  <2>1. e.run \in Runs \cup {None}
    BY DEF WorkerState
  <2> QED BY <1>17, <2>1, WorkerStep DEF Crash
<1>18. CASE RecordHeartbeat(w)
  <2>1. e.run \in Runs \cup {None}
    BY DEF WorkerState
  <2>2. heartbeat' \in [Workers -> Heartbeat]
    BY <1>18, <2>1 DEF RecordHeartbeat, Heartbeat
  <2> QED BY <1>18, <2>2 DEF RecordHeartbeat, TypeInv, TypeOK, LocalInv
<1>19. CASE HeartbeatExpires(w)
  <2>1. heartbeat' \in [Workers -> Heartbeat]
    BY <1>19 DEF HeartbeatExpires, Heartbeat
  <2> QED BY <1>19, <2>1 DEF HeartbeatExpires, TypeInv, TypeOK, LocalInv
<1>20. CASE RequestStop(w)
  <2>1. stopping' \subseteq Workers
    BY <1>20 DEF RequestStop, TypeInv, TypeOK
  <2> QED BY <1>20, <2>1 DEF RequestStop, TypeInv, TypeOK, LocalInv
<1>21. CASE LoopFails(w)
  <2>1. heartbeat' \in [Workers -> Heartbeat]
    <3>1. [state |-> "stopped", run |-> None, fresh |-> TRUE] \in Heartbeat
      BY DEF Heartbeat
    <3> QED BY <1>21, <3>1 DEF LoopFails
  <2>2. e.run \in Runs \cup {None}
    BY DEF WorkerState
  <2> QED BY <1>21, <2>1, <2>2, WorkerStep DEF LoopFails
<1>22. CASE BeginValidators(w)
  BY <1>22, WorkerStep DEF BeginValidators
<1> QED
  BY <1>4, <1>5, <1>6, <1>7, <1>8, <1>9, <1>10, <1>11, <1>12, <1>13, <1>14,
     <1>15, <1>16, <1>17, <1>18, <1>19, <1>20, <1>21, <1>22, <1>23
     DEF WorkerNext, WorkerProgress

\* TypeInv is inductive.
LEMMA NextType == TypeInv /\ [Next]_vars => TypeInv'
<1> SUFFICES ASSUME TypeInv, [Next]_vars
             PROVE  TypeInv'
  OBVIOUS
<1>1. CASE UNCHANGED vars
  BY <1>1 DEF vars, TypeInv, TypeOK, LocalInv
<1>2. CASE Next
  BY <1>2, CallType, RecoverType, WorkerType DEF Next
<1> QED BY <1>1, <1>2

\* Through every interleaving of handlers, workers, recovery passes and
\* crashes the row and the local state keep their types.  In particular no
\* handler loads an unknown run and none marks something that is no status.
THEOREM TypeCorrect == Spec => []TypeOK
<1>1. TypeInv => TypeOK
  BY DEF TypeInv
<1> QED BY InitType, NextType, <1>1, PTL DEF Spec

-----------------------------------------------------------------------------
(* The queue: the lifecycle implements RunLedger.                          *)

\* The runs that wait: the mapping of the ledger's waiting.
Queued == {r \in Runs : status[r] = "queued"}

\* A handler, a recovery pass or a worker changes the queue only as the
\* ledger allows.
LEMMA CallKeepsLedger ==
    ASSUME TypeInv, NEW c \in Calls, CallNext(c)
    PROVE  Ledger!Next
<1> USE DEF rowVars, historyVars, TypeInv, TypeOK
<1>1. CASE CallMark(c)
  <2>1. PICK r \in Runs : r = call[c].run
    BY <1>1 DEF CallMark, LocalInv
  <2>2. CASE call[c].goal = "queued"
    <3>1. /\ status' = [status EXCEPT ![r] = "queued"]
          /\ queuings' = [queuings EXCEPT ![r] = @ + 1]
          /\ UNCHANGED claims
      BY <1>1, <2>1, <2>2 DEF CallMark, MarkStatus
    <3>2. Ledger!Enqueue(r)
      BY <2>1, <3>1 DEF Ledger!Enqueue
    <3> QED BY <2>1, <3>2 DEF Ledger!Next
  <2>3. CASE call[c].goal # "queued"
    <3>1. /\ status' = [status EXCEPT ![r] = call[c].goal]
          /\ UNCHANGED <<queuings, claims>>
      BY <1>1, <2>1, <2>3 DEF CallMark, MarkStatus
    <3>2. \A q \in Runs : status'[q] = "queued" => status[q] = "queued"
      BY <2>1, <2>3, <3>1
    <3> QED BY <3>1, <3>2 DEF Ledger!Next, Ledger!Withdraw
  <2> QED BY <2>2, <2>3
<1>2. CASE ~CallMark(c)
  <2>1. UNCHANGED <<status, queuings, claims>>
    BY <1>2 DEF CallNext, CreateRun, EndAgents, ScaleValidators, RunPipeline, CancelRun,
                CallLoad, CallStore, CallCleanup, CallFails
  <2> QED BY <2>1 DEF Ledger!Next, Ledger!Withdraw
<1> QED BY <1>1, <1>2

\* A recovery pass only takes runs out of the queue, however stale its reads.
LEMMA RecoverKeepsLedger ==
    ASSUME TypeInv, NEW p \in Recoverers, RecoverNext(p)
    PROVE  Ledger!Next
<1> USE DEF rowVars, historyVars, TypeInv, TypeOK
<1>1. UNCHANGED <<queuings, claims>>
  BY DEF RecoverNext, RecoverReadWorkers, RecoverReadRuns, RecoverCommit
<1>2. \A r \in Runs : status'[r] \in {status[r], "failed"}
  BY DEF RecoverNext, RecoverReadWorkers, RecoverReadRuns, RecoverCommit
<1> QED BY <1>1, <1>2 DEF Ledger!Next, Ledger!Withdraw

\* A worker takes a run from the queue, or withdraws one by the last status
\* of an older execution of it.
LEMMA WorkerKeepsLedger ==
    ASSUME TypeInv, NEW w \in Workers, WorkerNext(w)
    PROVE  Ledger!Next
<1> USE DEF rowVars, historyVars, TypeInv, TypeOK
<1>1. ASSUME NEW r \in Runs, Claim(w, r)
      PROVE  Ledger!Next
  <2>1. Ledger!Take(r)
    BY <1>1 DEF Claim, MarkStatus, Ledger!Take
  <2> QED BY <2>1 DEF Ledger!Next
<1>2. CASE BeginExecute(w)
  BY <1>2 DEF BeginExecute, MarkStatus, Ledger!Next, Ledger!Withdraw
<1>3. CASE WorkerMark(w)
  <2>1. worker[w].goal \in {"completed", "cancelled", "failed", "crashed"}
    BY <1>3 DEF WorkerMark, LocalInv
  <2> QED BY <1>3, <2>1
             DEF WorkerMark, MarkStatus, Ledger!Next, Ledger!Withdraw
<1>4. CASE UNCHANGED <<status, queuings, claims>>
  BY <1>4 DEF Ledger!Next, Ledger!Withdraw
<1>5. \/ \E r \in Runs : Claim(w, r)
      \/ BeginExecute(w) \/ WorkerMark(w)
      \/ UNCHANGED <<status, queuings, claims>>
  BY DEF WorkerNext, WorkerProgress, StartLoop, CheckCancel, WorkerLoad,
         WorkerStore, BeginValidators, StageSucceeds, StageRaises, DatabaseFails,
         HandleException, ExecuteRaises, CleanupRuntime, LeaveLoop,
         RecordHeartbeat, HeartbeatExpires, RequestStop, Crash, LoopFails
<1> QED BY <1>1, <1>2, <1>3, <1>4, <1>5

\* Every step of the lifecycle is a step of the ledger or leaves it alone.
LEMMA NextKeepsLedger ==
    ASSUME TypeInv, [Next]_vars
    PROVE  [Ledger!Next]_<<Queued, queuings, claims>>
<1>1. CASE UNCHANGED vars
  BY <1>1 DEF vars, Queued
<1>2. CASE Next
  BY <1>2, CallKeepsLedger, RecoverKeepsLedger, WorkerKeepsLedger DEF Next
<1> QED BY <1>1, <1>2

\* Whatever the interleaving, a run enters the queue only by being marked
\* queued, each claim takes it out, and anything else only withdraws it.
THEOREM LedgerImplemented == Spec => QueueKeepsLedger
<1>1. Init => Ledger!Init
  BY DEF Init, Ledger!Init
<1>2. TypeInv /\ [Next]_vars => [Ledger!Next]_(Ledger!ledgerVars)
  BY NextKeepsLedger DEF Ledger!ledgerVars, Queued
<1> QED
  BY <1>1, <1>2, InitType, NextType, PTL DEF Spec, QueueKeepsLedger,
     Ledger!Spec

\* Through every interleaving a run is claimed at most once for each time it
\* was queued: no two workers ever own one queueing.
THEOREM ClaimedOncePerQueueing == Spec => []ClaimsMatchQueuings
<1>1. Init => ClaimsMatchQueuings
  BY DEF Init, ClaimsMatchQueuings, Waiting
<1>2. ASSUME TypeInv, TypeInv', ClaimsMatchQueuings, [Next]_vars
      PROVE  ClaimsMatchQueuings'
  <2>1. [Ledger!Next]_<<Queued, queuings, claims>>
    BY <1>2, NextKeepsLedger
  <2>2. \A r \in Runs : r \in Queued <=> status[r] = "queued"
    BY DEF Queued
  <2>3. \A r \in Runs : (r \in Queued)' <=> status'[r] = "queued"
    BY DEF Queued
  <2>4. queuings \in [Runs -> Nat] /\ claims \in [Runs -> Nat]
    BY <1>2 DEF TypeInv, TypeOK
  <2> SUFFICES ASSUME NEW r \in Runs
               PROVE  claims'[r] + Waiting(r)' <= queuings'[r]
    BY DEF ClaimsMatchQueuings
  <2>5. claims[r] + Waiting(r) <= queuings[r]
    BY <1>2 DEF ClaimsMatchQueuings
  <2>6. CASE UNCHANGED <<Queued, queuings, claims>>
    BY <2>2, <2>3, <2>5, <2>6 DEF Waiting
  <2>7. ASSUME NEW q \in Runs, Ledger!Enqueue(q)
        PROVE  claims'[r] + Waiting(r)' <= queuings'[r]
    <3>1. CASE q = r
      BY <2>4, <2>5, <2>7, <3>1 DEF Ledger!Enqueue, Waiting
    <3>2. CASE q # r
      <4>1. status'[r] = "queued" <=> status[r] = "queued"
        BY <2>2, <2>3, <2>7, <3>2 DEF Ledger!Enqueue, Queued
      <4> QED BY <2>4, <2>5, <2>7, <3>2, <4>1 DEF Ledger!Enqueue, Waiting
    <3> QED BY <3>1, <3>2
  <2>8. ASSUME NEW q \in Runs, Ledger!Take(q)
        PROVE  claims'[r] + Waiting(r)' <= queuings'[r]
    <3>1. CASE q = r
      BY <2>4, <2>5, <2>8, <3>1 DEF Ledger!Take, Waiting
    <3>2. CASE q # r
      <4>1. status'[r] = "queued" <=> status[r] = "queued"
        BY <2>2, <2>3, <2>8, <3>2 DEF Ledger!Take, Queued
      <4> QED BY <2>4, <2>5, <2>8, <3>2, <4>1 DEF Ledger!Take, Waiting
    <3> QED BY <3>1, <3>2
  <2>9. CASE Ledger!Withdraw
    <3>1. status'[r] = "queued" => status[r] = "queued"
      BY <2>2, <2>3, <2>9 DEF Ledger!Withdraw, Queued
    <3> QED BY <2>4, <2>5, <2>9, <3>1 DEF Ledger!Withdraw, Waiting
  <2> QED BY <2>1, <2>6, <2>7, <2>8, <2>9 DEF Ledger!Next
<1> QED BY <1>1, <1>2, InitType, NextType, PTL DEF Spec

-----------------------------------------------------------------------------
(* No run is stranded.                                                     *)

\* w will write the final status of r, or died before it could.
Holds(w, r) ==
    \/ Executing(w, r)
    \/ worker[w].pc = "dead" /\ worker[w].run = r

\* A worker lets go of a run only in the step that takes its status away
\* from "running".
LEMMA WorkerKeepsHold ==
    ASSUME TypeInv, NEW w \in Workers, WorkerNext(w), NEW r \in Runs,
           Holds(w, r), status'[r] = "running"
    PROVE  Holds(w, r)'
<1> DEFINE e == worker[w]
<1>0. /\ worker \in [Workers -> WorkerState] /\ e \in WorkerState
      /\ status \in [Runs -> RunStatus]
      /\ e.pc = "mark" =>
            e.goal \in {"completed", "cancelled", "failed", "crashed"}
  BY DEF TypeInv, TypeOK, LocalInv
<1>1. ASSUME NEW pc, NEW goal, WorkerGoes(w, pc, goal)
      PROVE  /\ worker'[w].pc = pc /\ worker'[w].goal = goal
             /\ worker'[w].run = e.run
  BY <1>0, <1>1 DEF WorkerGoes, WorkerState
<1>2. ASSUME NEW pc, NEW run, WorkerRests(w, pc, run)
      PROVE  worker'[w].pc = pc /\ worker'[w].run = run
  BY <1>0, <1>2 DEF WorkerRests
<1>3. e.run = r /\ e.pc \notin {"off", "poll", "cleanup"}
  BY DEF Holds, Executing
<1> USE <1>0, <1>1, <1>2, <1>3 DEF Holds, Executing
<1>4. CASE BeginExecute(w)
  BY <1>4 DEF BeginExecute
<1>5. CASE CheckCancel(w)
  BY <1>5 DEF CheckCancel
<1>6. CASE WorkerLoad(w)
  <2>1. /\ worker'[w].pc = "store" /\ worker'[w].goal = e.goal
        /\ worker'[w].run = e.run
    BY <1>6 DEF WorkerLoad, WorkerState
  <2> QED BY <1>6, <2>1 DEF WorkerLoad
<1>7. CASE WorkerStore(w)
  <2>1. AfterWorkerStore(w) /\ e.pc = "store"
    BY <1>7 DEF WorkerStore
  <2>2. e.goal \in {"stage", "validators", "summary", "failed"}
    BY <2>1
  <2>3. worker'[w].run = r /\ worker'[w].pc \in {"body", "mark"}
    BY <2>1, <2>2 DEF AfterWorkerStore
  <2> QED BY <2>3
<1>8. CASE StageSucceeds(w)
  <2>1. CASE e.step <= Len(Stages)
    <3> DEFINE new == [e EXCEPT !.pc = "check", !.goal = "stage",
                                !.step = e.step + 1]
    <3>1. worker' = [worker EXCEPT ![w] = new]
      BY <1>8, <2>1 DEF StageSucceeds
    <3>2. new.pc = "check" /\ new.run = e.run
      BY DEF WorkerState
    <3>3. worker'[w] = new
      BY <3>1
    <3> QED BY <3>2, <3>3
  <2>2. CASE ~(e.step <= Len(Stages))
    <3>1. WorkerGoes(w, "load", "summary")
      BY <1>8, <2>2 DEF StageSucceeds
    <3> QED BY <3>1
  <2> QED BY <2>1, <2>2
<1>9. CASE StageRaises(w)
  BY <1>9 DEF StageRaises
<1>10. CASE HandleException(w) \/ DatabaseFails(w)
  BY <1>10 DEF HandleException, DatabaseFails
<1>11. CASE WorkerMark(w)
  <2>1. status'[r] \in {"completed", "cancelled", "failed"}
    BY <1>11 DEF WorkerMark, MarkStatus
  <2> QED BY <2>1
<1>12. CASE ExecuteRaises(w)
  BY <1>12 DEF ExecuteRaises
<1>13. CASE Crash(w) \/ LoopFails(w)
  BY <1>13 DEF Crash, LoopFails
<1>14. CASE RecordHeartbeat(w) \/ HeartbeatExpires(w) \/ RequestStop(w)
  BY <1>14 DEF RecordHeartbeat, HeartbeatExpires, RequestStop
<1>15. ~ \/ StartLoop(w) \/ (\E q \in Runs : Claim(w, q))
         \/ CleanupRuntime(w) \/ LeaveLoop(w)
  BY DEF StartLoop, Claim, CleanupRuntime, LeaveLoop
<1>16. CASE BeginValidators(w)
  BY <1>16 DEF BeginValidators
<1> QED
  BY <1>4, <1>5, <1>6, <1>7, <1>8, <1>9, <1>10, <1>11, <1>12, <1>13, <1>14,
     <1>15, <1>16 DEF WorkerNext, WorkerProgress

\* Only a worker that takes hold of a run sets it running.
LEMMA RunningTakesHold ==
    ASSUME TypeInv, NEW w \in Workers, WorkerNext(w), NEW r \in Runs,
           status[r] # "running", status'[r] = "running"
    PROVE  Holds(w, r)'
<1>0. /\ worker \in [Workers -> WorkerState] /\ worker[w] \in WorkerState
      /\ status \in [Runs -> RunStatus]
      /\ worker[w].pc = "mark" =>
            worker[w].goal \in {"completed", "cancelled", "failed", "crashed"}
  BY DEF TypeInv, TypeOK, LocalInv
<1>1. ASSUME NEW q \in Runs, Claim(w, q)
      PROVE  Holds(w, r)'
  <2>1. q = r
    BY <1>0, <1>1 DEF Claim, MarkStatus
  <2>2. worker'[w].pc = "execute" /\ worker'[w].run = q
    BY <1>0, <1>1 DEF Claim, WorkerRests
  <2> QED BY <2>1, <2>2 DEF Holds, Executing
<1>2. CASE BeginExecute(w)
  <2>1. worker[w].run = r
    BY <1>0, <1>2 DEF BeginExecute, MarkStatus
  <2>2. worker'[w].pc = "check" /\ worker'[w].run = worker[w].run
    BY <1>0, <1>2 DEF BeginExecute, WorkerGoes, WorkerState
  <2> QED BY <2>1, <2>2 DEF Holds, Executing
<1>3. ~WorkerMark(w)
  BY <1>0 DEF WorkerMark, MarkStatus
<1>4. (\E q \in Runs : Claim(w, q)) \/ BeginExecute(w)
  BY <1>3 DEF WorkerNext, WorkerProgress, StartLoop, CheckCancel, WorkerLoad,
         WorkerStore, BeginValidators, StageSucceeds, StageRaises, DatabaseFails,
         HandleException, ExecuteRaises, CleanupRuntime, LeaveLoop,
         RecordHeartbeat, HeartbeatExpires, RequestStop, Crash, LoopFails, rowVars
<1> QED BY <1>1, <1>2, <1>4

\* Handlers and recovery passes set no run running.
LEMMA OthersSetNoneRunning ==
    ASSUME TypeInv,
           \/ \E c \in Calls : CallNext(c)
           \/ \E p \in Recoverers : RecoverNext(p)
    PROVE  /\ UNCHANGED worker
           /\ \A r \in Runs : status'[r] = "running" => status[r] = "running"
<1> USE DEF rowVars, workerVars, TypeInv, TypeOK
<1>1. ASSUME NEW c \in Calls, CallNext(c)
      PROVE  /\ UNCHANGED worker
             /\ \A r \in Runs : status'[r] = "running" => status[r] = "running"
  <2>1. CASE CallMark(c)
    <3>1. call[c].goal # "running" /\ call[c].run \in Runs
      BY <2>1 DEF CallMark, LocalInv
    <3> QED BY <2>1, <3>1 DEF CallMark, MarkStatus
  <2>2. CASE ~CallMark(c)
    BY <1>1, <2>2 DEF CallNext, CreateRun, EndAgents, ScaleValidators, RunPipeline,
                      CancelRun, CallLoad, CallStore, CallCleanup, CallFails
  <2> QED BY <2>1, <2>2
<1>2. ASSUME NEW p \in Recoverers, RecoverNext(p)
      PROVE  /\ UNCHANGED worker
             /\ \A r \in Runs : status'[r] = "running" => status[r] = "running"
  BY <1>2 DEF RecoverNext, RecoverReadWorkers, RecoverReadRuns, RecoverCommit
<1> QED BY <1>1, <1>2

\* No path of execute, of a cancellation or of a recovery pass strands a run
\* at "running": only the death of its worker does.
THEOREM RunningIsExecuted == Spec => []RunningHasExecutor
<1> DEFINE Held == \A r \in Runs : status[r] = "running" =>
                      \E w \in Workers : Holds(w, r)
<1>1. Init => Held
  BY DEF Init
<1>2. ASSUME TypeInv, Held, [Next]_vars
      PROVE  Held'
  <2> SUFFICES ASSUME NEW r \in Runs, status'[r] = "running"
               PROVE  \E w \in Workers : Holds(w, r)'
    OBVIOUS
  <2>1. CASE UNCHANGED vars
    BY <1>2, <2>1 DEF vars, Holds, Executing
  <2>2. CASE \/ \E c \in Calls : CallNext(c)
             \/ \E p \in Recoverers : RecoverNext(p)
    BY <1>2, <2>2, OthersSetNoneRunning DEF Holds, Executing
  <2>3. ASSUME NEW w \in Workers, WorkerNext(w)
        PROVE  \E v \in Workers : Holds(v, r)'
    <3>1. CASE status[r] # "running"
      BY <1>2, <2>3, <3>1, RunningTakesHold
    <3>2. ASSUME NEW v \in Workers, v # w, Holds(v, r)
          PROVE  Holds(v, r)'
      <4>1. worker \in [Workers -> WorkerState]
        BY <1>2 DEF TypeInv, TypeOK
      <4>2. worker'[v] = worker[v]
        BY <2>3, <3>2, <4>1
           DEF WorkerNext, WorkerProgress, StartLoop, Claim, BeginExecute,
               CheckCancel, WorkerLoad, WorkerStore, AfterWorkerStore,
               BeginValidators, StageSucceeds, StageRaises, DatabaseFails,
               HandleException, WorkerMark, ExecuteRaises, CleanupRuntime, LeaveLoop,
               RecordHeartbeat, HeartbeatExpires, RequestStop, Crash, LoopFails, WorkerGoes,
               WorkerRests
      <4> QED BY <3>2, <4>2 DEF Holds, Executing
    <3>3. CASE status[r] = "running"
      BY <1>2, <2>3, <3>2, <3>3, WorkerKeepsHold
    <3> QED BY <3>1, <3>3
  <2> QED BY <1>2, <2>1, <2>2, <2>3 DEF Next
<1>3. Held => RunningHasExecutor
  BY DEF Holds, RunningHasExecutor
<1> QED BY <1>1, <1>2, <1>3, InitType, NextType, PTL DEF Spec

-----------------------------------------------------------------------------
(* One executor for a run, and one more for each intrusion.                *)

Holding(r) == Cardinality(Executors(r))
Coming(r) == Cardinality(Admitted(r))

\* A run has one place, which is taken by a worker that executes it, a place
\* in the queue or a request on its way there.  Each intrusion opens another
\* one.  A run that is not active, which is what run_pipeline looks at, still
\* has a place to give.
PlacesOf(r) ==
    /\ IsFiniteSet(Executors(r)) /\ IsFiniteSet(Admitted(r))
    /\ Holding(r) + Coming(r) + Waiting(r) <= 1 + intrusions[r]
    /\ status[r] \notin ActiveStatus => Holding(r) <= intrusions[r]

Places == \A r \in Runs : PlacesOf(r)

\* A set that gains one element at most.
LEMMA Gains ==
    ASSUME NEW S, NEW T, NEW x, IsFiniteSet(S), T \subseteq S \cup {x}
    PROVE  /\ IsFiniteSet(T) /\ Cardinality(T) \in Nat /\ Cardinality(S) \in Nat
           /\ Cardinality(T) <= Cardinality(S) + 1
<1>0. Cardinality(S) \in Nat
  BY FS_CardinalityType
<1>1. /\ IsFiniteSet(S \cup {x})
      /\ Cardinality(S \cup {x}) <= Cardinality(S) + 1
  <2>1. /\ IsFiniteSet(S \cup {x})
        /\ \/ Cardinality(S \cup {x}) = Cardinality(S)
           \/ Cardinality(S \cup {x}) = Cardinality(S) + 1
    BY FS_AddElement, Zenon
  <2> QED BY <1>0, <2>1
<1>2. IsFiniteSet(T) /\ Cardinality(T) <= Cardinality(S \cup {x})
  BY <1>1, FS_Subset
<1>3. Cardinality(T) \in Nat /\ Cardinality(S \cup {x}) \in Nat
  BY <1>1, <1>2, FS_CardinalityType
<1> QED BY <1>0, <1>1, <1>2, <1>3

\* A set that loses one element at least.
LEMMA Loses ==
    ASSUME NEW S, NEW T, NEW x \in S, IsFiniteSet(S), T \subseteq S \ {x}
    PROVE  /\ IsFiniteSet(T) /\ Cardinality(T) \in Nat /\ Cardinality(S) \in Nat
           /\ Cardinality(T) + 1 <= Cardinality(S)
<1>1. /\ IsFiniteSet(S \ {x}) /\ Cardinality(S) \in Nat
      /\ Cardinality(S \ {x}) = Cardinality(S) - 1
  BY FS_RemoveElement, FS_CardinalityType
<1>2. IsFiniteSet(T) /\ Cardinality(T) <= Cardinality(S \ {x})
  BY <1>1, FS_Subset
<1>3. Cardinality(T) \in Nat
  BY <1>2, FS_CardinalityType
<1> QED BY <1>1, <1>2, <1>3

\* What a step that leaves the workers alone does to a run.
HandlerEffect(c, r) ==
    /\ Executors(r)' \subseteq Executors(r)
    /\ \/ /\ Admitted(r)' \subseteq Admitted(r)
          /\ status'[r] = status[r] /\ intrusions'[r] = intrusions[r]
       \/ /\ status[r] \notin ActiveStatus /\ status'[r] = status[r]
          /\ \/ Admitted(r) = {} /\ intrusions'[r] = intrusions[r]
             \/ intrusions'[r] = intrusions[r] + 1
          /\ Admitted(r)' \subseteq Admitted(r) \cup {c}
       \/ /\ c \in Admitted(r) /\ Admitted(r)' \subseteq Admitted(r) \ {c}
          /\ status'[r] = "queued" /\ intrusions'[r] = intrusions[r]
       \/ /\ Admitted(r)' \subseteq Admitted(r) /\ status'[r] # "queued"
          /\ IF status'[r] \notin ActiveStatus /\ status[r] \in ActiveStatus
                /\ Executors(r) # {}
             THEN intrusions'[r] = intrusions[r] + 1
             ELSE intrusions'[r] = intrusions[r]

\* What a step of a worker does to a run.
WorkerEffect(w, r) ==
    /\ Admitted(r)' \subseteq Admitted(r)
    /\ \/ /\ Executors(r)' \subseteq Executors(r)
          /\ status'[r] \in {status[r], "running"}
          /\ intrusions'[r] = intrusions[r]
       \/ /\ status[r] = "queued" /\ status'[r] = "running"
          /\ Executors(r)' \subseteq Executors(r) \cup {w}
          /\ intrusions'[r] = intrusions[r]
       \/ /\ w \in Executors(r) /\ Executors(r)' \subseteq Executors(r) \ {w}
          /\ status'[r] \in TerminalStatus /\ intrusions'[r] = intrusions[r]
       \/ /\ Executors(r)' \subseteq Executors(r) \cup {w}
          /\ status'[r] = status[r] /\ intrusions'[r] = intrusions[r] + 1

\* Neither takes more places than there are.
LEMMA HandlerKeepsPlaces ==
    ASSUME NEW r \in Runs, NEW c, HandlerEffect(c, r), PlacesOf(r), intrusions[r] \in Nat,
           intrusions'[r] \in Nat
    PROVE  PlacesOf(r)'
<1> DEFINE X == Executors(r)  A == Admitted(r)
<1>0. IsFiniteSet(X) /\ IsFiniteSet(A) /\ Holding(r) \in Nat /\ Coming(r) \in Nat
  BY FS_CardinalityType DEF PlacesOf, Holding, Coming
<1>1. IsFiniteSet(X') /\ Holding(r)' <= Holding(r) /\ Holding(r)' \in Nat
  BY <1>0, FS_Subset, FS_CardinalityType DEF HandlerEffect, Holding
<1>2. ASSUME A' \subseteq A
      PROVE  IsFiniteSet(A') /\ Coming(r)' <= Coming(r) /\ Coming(r)' \in Nat
  BY <1>0, <1>2, FS_Subset, FS_CardinalityType DEF Coming
<1>3. ASSUME A' \subseteq A \cup {c}
      PROVE  IsFiniteSet(A') /\ Coming(r)' <= Coming(r) + 1 /\ Coming(r)' \in Nat
  BY <1>0, <1>3, Gains DEF Coming
<1>4. ASSUME c \in A, A' \subseteq A \ {c}
      PROVE  IsFiniteSet(A') /\ Coming(r)' + 1 <= Coming(r) /\ Coming(r)' \in Nat
  BY <1>0, <1>4, Loses DEF Coming
<1>5. /\ Holding(r) + Coming(r) + Waiting(r) <= 1 + intrusions[r]
      /\ status[r] \notin ActiveStatus => Holding(r) <= intrusions[r]
  BY DEF PlacesOf
<1>6. CASE A' \subseteq A /\ status'[r] = status[r] /\ intrusions'[r] = intrusions[r]
  BY <1>0, <1>1, <1>2, <1>5, <1>6 DEF PlacesOf, Waiting
<1>7. CASE /\ status[r] \notin ActiveStatus /\ status'[r] = status[r]
           /\ \/ A = {} /\ intrusions'[r] = intrusions[r]
              \/ intrusions'[r] = intrusions[r] + 1
           /\ A' \subseteq A \cup {c}
  <2>1. A = {} => Coming(r) = 0
    BY FS_EmptySet DEF Coming
  <2>2. Waiting(r) = 0 /\ Waiting(r)' = 0
    BY <1>7 DEF Waiting, ActiveStatus
  <2> QED BY <1>0, <1>1, <1>3, <1>5, <1>7, <2>1, <2>2 DEF PlacesOf
<1>8. CASE /\ c \in A /\ A' \subseteq A \ {c}
           /\ status'[r] = "queued" /\ intrusions'[r] = intrusions[r]
  BY <1>0, <1>1, <1>4, <1>5, <1>8 DEF PlacesOf, Waiting, ActiveStatus
<1>9. CASE /\ A' \subseteq A /\ status'[r] # "queued"
           /\ IF status'[r] \notin ActiveStatus /\ status[r] \in ActiveStatus /\ X # {}
              THEN intrusions'[r] = intrusions[r] + 1
              ELSE intrusions'[r] = intrusions[r]
  <2>1. X = {} => Holding(r) = 0
    BY FS_EmptySet DEF Holding
  <2>2. Waiting(r)' = 0 /\ Waiting(r) \in {0, 1}
    BY <1>9 DEF Waiting
  <2> QED BY <1>0, <1>1, <1>2, <1>5, <1>9, <2>1, <2>2 DEF PlacesOf
<1> QED BY <1>6, <1>7, <1>8, <1>9 DEF HandlerEffect

\* The same for the steps of workers.
LEMMA WorkerKeepsPlaces ==
    ASSUME NEW r \in Runs, NEW w, WorkerEffect(w, r), PlacesOf(r), intrusions[r] \in Nat,
           intrusions'[r] \in Nat
    PROVE  PlacesOf(r)'
<1> DEFINE X == Executors(r)  A == Admitted(r)
<1>0. IsFiniteSet(X) /\ IsFiniteSet(A) /\ Holding(r) \in Nat /\ Coming(r) \in Nat
  BY FS_CardinalityType DEF PlacesOf, Holding, Coming
<1>1. IsFiniteSet(A') /\ Coming(r)' <= Coming(r) /\ Coming(r)' \in Nat
  BY <1>0, FS_Subset, FS_CardinalityType DEF WorkerEffect, Coming
<1>2. ASSUME X' \subseteq X
      PROVE  IsFiniteSet(X') /\ Holding(r)' <= Holding(r) /\ Holding(r)' \in Nat
  BY <1>0, <1>2, FS_Subset, FS_CardinalityType DEF Holding
<1>3. ASSUME X' \subseteq X \cup {w}
      PROVE  IsFiniteSet(X') /\ Holding(r)' <= Holding(r) + 1 /\ Holding(r)' \in Nat
  BY <1>0, <1>3, Gains DEF Holding
<1>4. ASSUME w \in X, X' \subseteq X \ {w}
      PROVE  IsFiniteSet(X') /\ Holding(r)' + 1 <= Holding(r) /\ Holding(r)' \in Nat
  BY <1>0, <1>4, Loses DEF Holding
<1>5. /\ Holding(r) + Coming(r) + Waiting(r) <= 1 + intrusions[r]
      /\ status[r] \notin ActiveStatus => Holding(r) <= intrusions[r]
  BY DEF PlacesOf
<1>6. CASE X' \subseteq X /\ status'[r] \in {status[r], "running"}
           /\ intrusions'[r] = intrusions[r]
  <2>1. Waiting(r)' <= Waiting(r) /\ Waiting(r)' \in {0, 1} /\ Waiting(r) \in {0, 1}
    BY <1>6 DEF Waiting
  <2> QED BY <1>0, <1>1, <1>2, <1>5, <1>6, <2>1 DEF PlacesOf, ActiveStatus
<1>7. CASE /\ status[r] = "queued" /\ status'[r] = "running"
           /\ X' \subseteq X \cup {w} /\ intrusions'[r] = intrusions[r]
  BY <1>0, <1>1, <1>3, <1>5, <1>7 DEF PlacesOf, Waiting, ActiveStatus
<1>8. CASE /\ w \in X /\ X' \subseteq X \ {w}
           /\ status'[r] \in TerminalStatus /\ intrusions'[r] = intrusions[r]
  <2>1. Waiting(r)' = 0 /\ Waiting(r) \in {0, 1}
    BY <1>8 DEF Waiting, TerminalStatus
  <2> QED BY <1>0, <1>1, <1>4, <1>5, <1>8, <2>1 DEF PlacesOf
<1>9. CASE /\ X' \subseteq X \cup {w}
           /\ status'[r] = status[r] /\ intrusions'[r] = intrusions[r] + 1
  BY <1>0, <1>1, <1>3, <1>5, <1>9 DEF PlacesOf, Waiting
<1> QED BY <1>6, <1>7, <1>8, <1>9 DEF WorkerEffect

\* Requests: run_pipeline admits a request when the run is not active, and the
\* admitted request gives its place up when it marks the run queued.
LEMMA RequestEffect ==
    ASSUME TypeInv, NEW c \in Calls, CallNext(c), NEW r \in Runs
    PROVE  HandlerEffect(c, r)
<1> USE DEF rowVars, workerVars, historyVars
<1> DEFINE e == call[c]
           In(x, q) == x.run = q /\ (\/ x.pc \in {"load", "store"} /\ x.goal = "clear"
                                     \/ x.pc = "mark" /\ x.goal = "queued")
<1>0. /\ e \in CallState /\ status \in [Runs -> RunStatus]
      /\ call \in [Calls -> CallState] /\ intrusions \in [Runs -> Nat]
      /\ e.pc # "idle" => e.run \in Runs
      /\ e.pc = "mark" => e.goal \in {"agent_completed", "queued", "cancelling",
                                      "cancelled"}
  BY DEF TypeInv, TypeOK, LocalInv
<1>1. \A d \in Calls, q \in Runs : d \in Admitted(q) <=> In(call[d], q)
  BY DEF Admitted
<1>2. \A d \in Calls, q \in Runs : (d \in Admitted(q))' <=> In(call'[d], q)
  BY DEF Admitted
<1>3. Admitted(r) \subseteq Calls /\ Admitted(r)' \subseteq Calls
  BY DEF Admitted
<1> HIDE DEF In
<1>4. UNCHANGED worker => Executors(r)' = Executors(r)
  BY DEF Executors, Executing
<1>5. ASSUME NEW new, call' = [call EXCEPT ![c] = new], In(new, r) => In(e, r),
             UNCHANGED <<status, worker, intrusions>>
      PROVE  HandlerEffect(c, r)
  BY <1>0, <1>1, <1>2, <1>3, <1>4, <1>5 DEF HandlerEffect
<1>6. ASSUME NEW pc, NEW goal, CallGoes(c, pc, goal),
             In([e EXCEPT !.pc = pc, !.goal = goal, !.loaded = NoConfig], r) => In(e, r),
             UNCHANGED <<status, worker, intrusions>>
      PROVE  HandlerEffect(c, r)
  BY <1>5, <1>6 DEF CallGoes
<1>7. ASSUME NEW q \in Runs, RunPipeline(c, q)
      PROVE  HandlerEffect(c, r)
  <2> DEFINE new == [e EXCEPT !.pc = "load", !.goal = "clear", !.run = q]
  <2>1. call' = [call EXCEPT ![c] = new] /\ UNCHANGED <<status, worker>>
    BY <1>7 DEF RunPipeline
  <2>2. Admitted(r)' \subseteq Admitted(r) \cup {c}
    BY <1>0, <1>1, <1>2, <1>3, <2>1
  <2>3. CASE q = r
    <3>1. status[r] \notin ActiveStatus
      BY <1>7, <2>3 DEF RunPipeline, IsActive
    <3>2. intrusions'[r] = IF Admitted(r) # {} THEN intrusions[r] + 1 ELSE intrusions[r]
      BY <1>0, <1>7, <2>3 DEF RunPipeline, Intrude
    <3> QED BY <1>4, <2>1, <2>2, <3>1, <3>2 DEF HandlerEffect
  <2>4. CASE q # r
    <3>1. intrusions'[r] = intrusions[r]
      BY <1>7, <2>4 DEF RunPipeline, Intrude
    <3>2. new.run = q
      BY <1>0 DEF CallState
    <3>3. ~In(new, r)
      BY <2>4, <3>2 DEF In
    <3>4. Admitted(r)' \subseteq Admitted(r)
      BY <1>0, <1>1, <1>2, <1>3, <2>1, <3>3
    <3> QED BY <1>4, <2>1, <3>1, <3>4 DEF HandlerEffect
  <2> QED BY <2>3, <2>4
<1>8. ASSUME NEW q \in Runs, CreateRun(c, q) \/ ScaleValidators(c, q) \/ CancelRun(c, q)
      PROVE  HandlerEffect(c, r)
  <2>1. ASSUME NEW new, call' = [call EXCEPT ![c] = new], new.pc \in {"agent", "load"},
               new.goal \in {"agent_completed", "validate", "request"}
        PROVE  HandlerEffect(c, r)
    <3>1. ~In(new, r)
      BY <2>1 DEF In
    <3> QED BY <1>5, <1>8, <2>1, <3>1 DEF CreateRun, ScaleValidators, CancelRun
  <2>2. CASE CreateRun(c, q)
    <3> DEFINE new == [e EXCEPT !.pc = "agent", !.goal = "agent_completed", !.run = q]
    <3>1. call' = [call EXCEPT ![c] = new] /\ new.pc = "agent" /\ new.goal = "agent_completed"
      BY <1>0, <2>2 DEF CreateRun, CallState
    <3> HIDE DEF new
    <3> QED BY <2>1, <3>1
  <2>3. CASE ScaleValidators(c, q)
    <3> DEFINE new == [e EXCEPT !.pc = "load", !.goal = "validate", !.run = q]
    <3>1. call' = [call EXCEPT ![c] = new] /\ new.pc = "load" /\ new.goal = "validate"
      BY <1>0, <2>3 DEF ScaleValidators, CallState
    <3> HIDE DEF new
    <3> QED BY <2>1, <3>1
  <2>4. CASE CancelRun(c, q)
    <3> DEFINE new == [e EXCEPT !.pc = "load", !.goal = "request", !.run = q,
                                !.active = IsActive(status[q], config[q], TRUE)]
    <3>1. call' = [call EXCEPT ![c] = new] /\ new.pc = "load" /\ new.goal = "request"
      BY <1>0, <2>4 DEF CancelRun, CallState
    <3> HIDE DEF new
    <3> QED BY <2>1, <3>1
  <2> QED BY <1>8, <2>2, <2>3, <2>4
<1>9. CASE CallLoad(c)
  <2> DEFINE new == [e EXCEPT !.pc = "store", !.loaded = config[call[c].run]]
  <2>1. /\ call' = [call EXCEPT ![c] = new] /\ e.pc = "load"
        /\ new.pc = "store" /\ new.goal = e.goal /\ new.run = e.run
    BY <1>0, <1>9 DEF CallLoad, CallState
  <2>2. In(new, r) => In(e, r)
    BY <2>1 DEF In
  <2> QED BY <1>5, <1>9, <2>1, <2>2 DEF CallLoad
<1>10. ASSUME NEW pc, NEW goal,
              \/ pc \notin {"load", "store", "mark"}
              \/ pc = "mark" /\ (goal = "queued" => e.pc = "store" /\ e.goal = "clear")
              \/ pc = "load" /\ goal # "clear"
       PROVE  In([e EXCEPT !.pc = pc, !.goal = goal, !.loaded = NoConfig], r) => In(e, r)
  <2> DEFINE new == [e EXCEPT !.pc = pc, !.goal = goal, !.loaded = NoConfig]
  <2>1. new.pc = pc /\ new.goal = goal /\ new.run = e.run
    BY <1>0 DEF CallState
  <2> QED BY <1>10, <2>1 DEF In
<1>11. CASE CallStore(c)
  <2>1. \E pc, goal : /\ CallGoes(c, pc, goal)
                      /\ pc \in {"mark", "cleanup", "agent", "done"}
                      /\ pc = "mark" /\ goal = "queued" => e.goal = "clear"
    BY <1>11 DEF CallStore
  <2> QED BY <1>6, <1>10, <1>11, <2>1 DEF CallStore
<1>12. CASE EndAgents(c)
  <2>1. \E pc : /\ CallGoes(c, pc, e.goal) /\ pc \in {"mark", "done"}
                /\ pc = "mark" => e.goal = "agent_completed"
    BY <1>12 DEF EndAgents
  <2> QED BY <1>6, <1>10, <1>12, <2>1 DEF EndAgents
<1>13. CASE CallCleanup(c) \/ CallFails(c)
  <2>1. /\ \E pc, goal : /\ CallGoes(c, pc, goal) /\ pc \in {"mark", "done"}
                         /\ pc = "mark" => goal = "cancelled"
        /\ UNCHANGED <<status, worker, intrusions>>
    BY <1>13 DEF CallCleanup, CallFails
  <2> QED BY <1>6, <1>10, <2>1
<1>14. CASE CallMark(c)
  <2>1. /\ e.pc = "mark" /\ e.run \in Runs /\ UNCHANGED worker
        /\ e.goal \in {"agent_completed", "queued", "cancelling", "cancelled"}
    BY <1>0, <1>14 DEF CallMark
  <2>2. \E pc : CallGoes(c, pc, e.goal) /\ pc \in {"done", "load"}
    BY <1>14 DEF CallMark
  <2>3. Admitted(r)' \subseteq Admitted(r) \ {c}
    <3>1. PICK pc \in {"done", "load"} : CallGoes(c, pc, e.goal)
      BY <2>2
    <3> DEFINE new == [e EXCEPT !.pc = pc, !.goal = e.goal, !.loaded = NoConfig]
    <3>2. new.pc = pc /\ new.goal = e.goal
      BY <1>0 DEF CallState
    <3>3. ~In(new, r)
      BY <2>1, <3>2 DEF In
    <3>4. call' = [call EXCEPT ![c] = new]
      BY <3>1 DEF CallGoes
    <3> HIDE DEF new
    <3> QED BY <1>0, <1>1, <1>2, <1>3, <3>3, <3>4
  <2>4. CASE e.run # r
    <3>1. status'[r] = status[r] /\ intrusions'[r] = intrusions[r]
      BY <1>14, <2>4 DEF CallMark, MarkStatus, Intrude, TakenAway
    <3> QED BY <1>4, <2>1, <2>3, <3>1 DEF HandlerEffect
  <2>5. CASE e.run = r /\ e.goal = "queued"
    <3>1. status'[r] = "queued" /\ intrusions'[r] = intrusions[r]
      BY <1>0, <1>14, <2>5 DEF CallMark, MarkStatus, Intrude, ActiveStatus
    <3>2. c \in Admitted(r)
      BY <1>1, <2>1, <2>5 DEF In
    <3> QED BY <1>4, <2>1, <2>3, <3>1, <3>2 DEF HandlerEffect
  <2>6. CASE e.run = r /\ e.goal # "queued"
    <3>1. status'[r] = e.goal
      BY <1>0, <1>14, <2>6 DEF CallMark, MarkStatus
    <3>2. CASE e.goal \in ActiveStatus
      <4>1. intrusions'[r] = intrusions[r]
        BY <1>14, <3>2 DEF CallMark, Intrude
      <4> QED BY <1>4, <2>1, <2>3, <2>6, <3>1, <3>2, <4>1 DEF HandlerEffect
    <3>3. CASE e.goal \notin ActiveStatus
      <4>1. intrusions'[r] = IF r \in TakenAway({r}) THEN intrusions[r] + 1
                             ELSE intrusions[r]
        BY <1>14, <2>6, <3>3 DEF CallMark, Intrude
      <4> QED BY <1>4, <2>1, <2>3, <2>6, <3>1, <3>3, <4>1 DEF HandlerEffect, TakenAway
    <3> QED BY <3>2, <3>3
  <2> QED BY <2>4, <2>5, <2>6
<1> QED
  BY <1>7, <1>8, <1>9, <1>11, <1>12, <1>13, <1>14 DEF CallNext

\* Recovery passes: one that fails a run under its worker's hands intrudes.
LEMMA RecoveryEffect ==
    ASSUME TypeInv, NEW p \in Recoverers, RecoverNext(p), NEW r \in Runs
    PROVE  HandlerEffect(None, r)
<1>0. UNCHANGED <<worker, call>>
  BY DEF RecoverNext, RecoverReadWorkers, RecoverReadRuns, RecoverCommit, workerVars
<1>1. Executors(r)' = Executors(r) /\ Admitted(r)' = Admitted(r)
  BY <1>0 DEF Executors, Executing, Admitted
<1>2. CASE RecoverCommit(p)
  <2> DEFINE victims == recovery[p].victims
             Chosen(q) == CHOOSE v \in victims : v.run = q
             failing == {q \in {v.run : v \in victims} : Chosen(q).status # "failed"}
  <2>1. /\ status' = [q \in Runs |-> IF q \in failing THEN "failed" ELSE status[q]]
        /\ Intrude(TakenAway(failing))
    BY <1>2 DEF RecoverCommit
  <2> HIDE DEF failing
  <2>2. intrusions'[r] = IF r \in TakenAway(failing) THEN intrusions[r] + 1 ELSE intrusions[r]
    BY <2>1 DEF Intrude
  <2>3. CASE r \in failing
    BY <1>1, <2>1, <2>2, <2>3 DEF HandlerEffect, TakenAway, ActiveStatus
  <2>4. CASE r \notin failing
    BY <1>1, <2>1, <2>2, <2>4 DEF HandlerEffect, TakenAway
  <2> QED BY <2>3, <2>4
<1>3. CASE ~RecoverCommit(p)
  <2>1. UNCHANGED <<status, intrusions>>
    BY <1>3 DEF RecoverNext, RecoverReadWorkers, RecoverReadRuns, rowVars, historyVars
  <2> QED BY <1>1, <2>1 DEF HandlerEffect
<1> QED BY <1>2, <1>3

\* Workers: a claim moves the run from the queue to the worker, and the final
\* status is written in the step by which the worker lets it go.
LEMMA ExecutionEffect ==
    ASSUME TypeInv, NEW w \in Workers, WorkerNext(w), NEW r \in Runs
    PROVE  WorkerEffect(w, r)
<1> USE DEF rowVars, historyVars
<1> DEFINE e == worker[w]
<1>0. /\ worker \in [Workers -> WorkerState] /\ e \in WorkerState
      /\ status \in [Runs -> RunStatus] /\ intrusions \in [Runs -> Nat]
      /\ e.pc = "mark" =>
            e.goal \in {"completed", "cancelled", "failed", "crashed"}
      /\ e.pc \notin {"off", "poll", "dead"} => e.run \in Runs
  BY DEF TypeInv, TypeOK, LocalInv
<1>1. UNCHANGED call /\ \A v \in Workers : v # w => worker'[v] = worker[v]
  BY <1>0
     DEF WorkerNext, WorkerProgress, StartLoop, Claim, BeginExecute,
         CheckCancel, WorkerLoad, WorkerStore, AfterWorkerStore,
         BeginValidators, StageSucceeds, StageRaises, DatabaseFails,
         HandleException, WorkerMark, ExecuteRaises, CleanupRuntime, LeaveLoop,
         RecordHeartbeat, HeartbeatExpires, RequestStop, Crash, LoopFails, WorkerGoes,
         WorkerRests
<1>2. Admitted(r)' \subseteq Admitted(r)
  BY <1>1 DEF Admitted
<1>3. /\ Executors(r)' \subseteq Executors(r) \cup {w}
      /\ (Executing(w, r)' => Executing(w, r)) => Executors(r)' \subseteq Executors(r)
      /\ ~Executing(w, r)' => Executors(r)' \subseteq Executors(r) \ {w}
      /\ w \in Executors(r) <=> Executing(w, r)
  BY <1>1 DEF Executors, Executing
<1>4. ASSUME NEW pc, NEW goal, WorkerGoes(w, pc, goal)
      PROVE  /\ worker'[w].pc = pc /\ worker'[w].goal = goal
             /\ worker'[w].run = e.run
  BY <1>0, <1>4 DEF WorkerGoes, WorkerState
<1>5. ASSUME NEW pc, NEW run, WorkerRests(w, pc, run)
      PROVE  worker'[w].pc = pc /\ worker'[w].run = run
  BY <1>0, <1>5 DEF WorkerRests
<1>6. ASSUME UNCHANGED <<status, intrusions>>, Executing(w, r)' => Executing(w, r)
      PROVE  WorkerEffect(w, r)
  BY <1>2, <1>3, <1>6 DEF WorkerEffect
<1>7. ASSUME UNCHANGED <<status, intrusions>>, NEW pc, NEW goal, WorkerGoes(w, pc, goal),
             Executing(w, e.run)
      PROVE  WorkerEffect(w, r)
  <2>1. Executing(w, r)' => Executing(w, r)
    BY <1>4, <1>7 DEF Executing
  <2> QED BY <1>6, <1>7, <2>1
<1>8. ASSUME UNCHANGED <<status, intrusions>>, NEW pc, NEW run, WorkerRests(w, pc, run),
             pc \in {"poll", "dead"}
      PROVE  WorkerEffect(w, r)
  <2>1. ~Executing(w, r)'
    BY <1>5, <1>8 DEF Executing
  <2> QED BY <1>6, <1>8, <2>1
<1>9. ASSUME UNCHANGED status, NEW pc, NEW goal, WorkerGoes(w, pc, goal), RaisesLate(w),
             e.run \in Runs
      PROVE  WorkerEffect(w, r)
  <2>1. CASE e.run # r
    <3>1. ~Executing(w, r)' /\ intrusions'[r] = intrusions[r]
      BY <1>4, <1>9, <2>1 DEF Executing, RaisesLate, Intrude
    <3> QED BY <1>2, <1>3, <1>9, <3>1 DEF WorkerEffect
  <2>2. CASE e.run = r /\ Executing(w, r)
    <3>1. intrusions'[r] = intrusions[r]
      BY <1>9, <2>2 DEF RaisesLate, Intrude
    <3> QED BY <1>2, <1>3, <1>9, <2>2, <3>1 DEF WorkerEffect
  <2>3. CASE e.run = r /\ ~Executing(w, r)
    <3>1. intrusions'[r] = intrusions[r] + 1
      BY <1>9, <2>3 DEF RaisesLate, Intrude
    <3> QED BY <1>2, <1>3, <1>9, <3>1 DEF WorkerEffect
  <2> QED BY <2>1, <2>2, <2>3
<1>10. ASSUME NEW q \in Runs, Claim(w, q) PROVE WorkerEffect(w, r)
  <2>1. worker'[w].pc = "execute" /\ worker'[w].run = q
    BY <1>5, <1>10 DEF Claim
  <2>2. /\ status' = [status EXCEPT ![q] = "running"] /\ status[q] = "queued"
        /\ UNCHANGED intrusions
    BY <1>10 DEF Claim, MarkStatus
  <2>3. CASE q = r
    BY <1>0, <1>2, <1>3, <2>2, <2>3 DEF WorkerEffect
  <2>4. CASE q # r
    <3>1. ~Executing(w, r)' /\ status'[r] = status[r]
      BY <2>1, <2>2, <2>4 DEF Executing
    <3> QED BY <1>2, <1>3, <2>2, <3>1 DEF WorkerEffect
  <2> QED BY <2>3, <2>4
<1>11. CASE BeginExecute(w)
  <2>1. Executing(w, e.run) /\ status'[r] \in {status[r], "running"} /\ UNCHANGED intrusions
    BY <1>0, <1>11 DEF BeginExecute, MarkStatus, Executing
  <2>2. Executing(w, r)' => Executing(w, r)
    BY <1>4, <1>11, <2>1 DEF BeginExecute, Executing
  <2> QED BY <1>2, <1>3, <2>1, <2>2 DEF WorkerEffect
<1>12. CASE WorkerMark(w)
  <2>1. /\ e.pc = "mark" /\ e.run \in Runs /\ UNCHANGED intrusions
        /\ e.goal \in {"completed", "cancelled", "failed", "crashed"}
    BY <1>0, <1>12 DEF WorkerMark
  <2>2. PICK st \in TerminalStatus : status' = [status EXCEPT ![e.run] = st]
    BY <1>12, <2>1 DEF WorkerMark, MarkStatus, TerminalStatus
  <2>3. ~Executing(w, r)'
    <3>1. PICK pc \in {"cleanup", "load"} :
             WorkerGoes(w, pc, e.goal) /\ (pc = "load" => e.goal # "failed")
      BY <1>12 DEF WorkerMark
    <3> QED BY <1>4, <2>1, <3>1 DEF Executing
  <2>4. CASE e.run = r
    <3>1. Executing(w, r) /\ status'[r] \in TerminalStatus
      BY <1>0, <2>1, <2>2, <2>4 DEF Executing
    <3> QED BY <1>2, <1>3, <2>1, <2>3, <3>1 DEF WorkerEffect
  <2>5. CASE e.run # r
    BY <1>0, <1>2, <1>3, <2>1, <2>2, <2>3, <2>5 DEF WorkerEffect
  <2> QED BY <2>4, <2>5
<1>13. CASE WorkerLoad(w)
  <2>1. worker'[w].pc = "store" /\ worker'[w].goal = e.goal /\ worker'[w].run = e.run
        /\ e.pc = "load"
    BY <1>0, <1>13 DEF WorkerLoad, WorkerState
  <2> QED BY <1>6, <1>13, <2>1 DEF WorkerLoad, Executing
<1>14. CASE WorkerStore(w)
  <2>1. /\ AfterWorkerStore(w) /\ e.pc = "store" /\ UNCHANGED <<status, intrusions>>
        /\ e.goal \in WorkerGoal
    BY <1>0, <1>14 DEF WorkerStore, WorkerState
  <2>2. CASE e.goal \in {"stage", "validators", "summary", "failed"}
    <3>1. Executing(w, e.run)
      BY <2>1, <2>2 DEF Executing
    <3>2. \E pc, goal : WorkerGoes(w, pc, goal)
      BY <2>1, <2>2 DEF AfterWorkerStore
    <3> QED BY <1>7, <2>1, <3>1, <3>2
  <2>3. CASE e.goal = "crashed"
    <3>1. WorkerRests(w, "poll", None)
      BY <2>1, <2>3 DEF AfterWorkerStore
    <3> QED BY <1>8, <2>1, <3>1
  <2>4. CASE e.goal \in {"completed", "cancelled"}
    <3>1. WorkerGoes(w, "cleanup", e.goal)
      BY <2>1, <2>4 DEF AfterWorkerStore
    <3>2. ~Executing(w, r)'
      BY <1>4, <3>1 DEF Executing
    <3> QED BY <1>6, <2>1, <3>2
  <2> QED BY <2>1, <2>2, <2>3, <2>4 DEF WorkerGoal
<1>15. CASE CheckCancel(w) \/ BeginValidators(w) \/ StageRaises(w) \/ HandleException(w)
  <2>1. /\ Executing(w, e.run) /\ UNCHANGED <<status, intrusions>>
        /\ \E pc, goal : WorkerGoes(w, pc, goal)
    BY <1>15 DEF CheckCancel, BeginValidators, StageRaises, HandleException, Executing
  <2> QED BY <1>7, <2>1
<1>16. CASE StageSucceeds(w)
  <2>1. e.pc = "body" /\ UNCHANGED <<status, intrusions>>
    BY <1>16 DEF StageSucceeds, StageDone
  <2>2. worker'[w].run = e.run
    <3>1. CASE e.step <= Len(Stages)
      <4> DEFINE new == [e EXCEPT !.pc = "check", !.goal = "stage", !.step = e.step + 1]
      <4>1. worker' = [worker EXCEPT ![w] = new]
        BY <1>16, <3>1 DEF StageSucceeds
      <4>2. new.run = e.run /\ worker'[w] = new
        BY <1>0, <4>1 DEF WorkerState
      <4> QED BY <4>2
    <3>2. CASE ~(e.step <= Len(Stages))
      BY <1>4, <1>16, <3>2 DEF StageSucceeds
    <3> QED BY <3>1, <3>2
  <2> QED BY <1>6, <2>1, <2>2 DEF Executing
<1>17. CASE CleanupRuntime(w)
  <2>1. e.run \in Runs /\ UNCHANGED status
    BY <1>0, <1>17 DEF CleanupRuntime
  <2>2. CASE WorkerRests(w, "poll", None) /\ UNCHANGED intrusions
    BY <1>8, <2>1, <2>2
  <2>3. CASE RaisesLate(w) /\ \E pc, goal : WorkerGoes(w, pc, goal)
    BY <1>9, <2>1, <2>3
  <2> QED BY <1>17, <2>2, <2>3 DEF CleanupRuntime
<1>18. CASE DatabaseFails(w) \/ ExecuteRaises(w)
  <2>1. /\ e.run \in Runs /\ UNCHANGED status /\ RaisesLate(w)
        /\ \E pc, goal : WorkerGoes(w, pc, goal)
    BY <1>0, <1>18 DEF DatabaseFails, ExecuteRaises
  <2> QED BY <1>9, <2>1
<1>19. CASE StartLoop(w) \/ LeaveLoop(w) \/ Crash(w) \/ LoopFails(w)
  <2>1. /\ UNCHANGED <<status, intrusions>>
        /\ \E pc \in {"poll", "dead"} : \E run : WorkerRests(w, pc, run)
    BY <1>19 DEF StartLoop, LeaveLoop, Crash, LoopFails
  <2> QED BY <1>8, <2>1
<1>20. CASE RecordHeartbeat(w) \/ HeartbeatExpires(w) \/ RequestStop(w)
  <2>1. UNCHANGED <<status, intrusions, worker>>
    BY <1>20 DEF RecordHeartbeat, HeartbeatExpires, RequestStop
  <2> QED BY <1>6, <2>1 DEF Executing
<1> QED
  BY <1>10, <1>11, <1>12, <1>13, <1>14, <1>15, <1>16, <1>17, <1>18, <1>19, <1>20
     DEF WorkerNext, WorkerProgress

\* In every environment, overlapping requests, cancellations, recovery passes,
\* crashes and failures of the database included, the workers that execute a run
\* are at most one more than the intrusions into it.  In particular a run that
\* nobody intruded into never has two.
THEOREM OneExecutor == Spec => []ExecutorsMatchIntrusions
<1>1. Init => Places
  <2> SUFFICES ASSUME Init, NEW r \in Runs
               PROVE  PlacesOf(r)
    BY DEF Places
  <2>1. Executors(r) = {} /\ Admitted(r) = {} /\ Waiting(r) = 0 /\ intrusions[r] = 0
    BY DEF Init, Executors, Executing, Admitted, Waiting
  <2> QED BY <2>1, FS_EmptySet DEF PlacesOf, Holding, Coming
<1>2. TypeInv /\ TypeInv' /\ Places /\ [Next]_vars => Places'
  <2> SUFFICES ASSUME TypeInv, TypeInv', Places, [Next]_vars, NEW r \in Runs
               PROVE  PlacesOf(r)'
    BY DEF Places
  <2>1. PlacesOf(r) /\ intrusions[r] \in Nat /\ intrusions'[r] \in Nat
    BY DEF Places, TypeInv, TypeOK
  <2>2. CASE UNCHANGED vars
    <3>1. /\ Executors(r)' = Executors(r) /\ Admitted(r)' = Admitted(r)
          /\ UNCHANGED <<status, intrusions>>
      BY <2>2 DEF vars, Executors, Executing, Admitted
    <3>2. HandlerEffect(None, r)
      BY <3>1 DEF HandlerEffect
    <3> QED BY <2>1, <3>2, HandlerKeepsPlaces
  <2>3. ASSUME NEW c \in Calls, CallNext(c) PROVE PlacesOf(r)'
    BY <2>1, <2>3, RequestEffect, HandlerKeepsPlaces
  <2>4. ASSUME NEW p \in Recoverers, RecoverNext(p) PROVE PlacesOf(r)'
    BY <2>1, <2>4, RecoveryEffect, HandlerKeepsPlaces
  <2>5. ASSUME NEW w \in Workers, WorkerNext(w) PROVE PlacesOf(r)'
    BY <2>1, <2>5, ExecutionEffect, WorkerKeepsPlaces
  <2> QED BY <2>2, <2>3, <2>4, <2>5 DEF Next
<1>3. TypeInv /\ Places => ExecutorsMatchIntrusions
  <2> SUFFICES ASSUME TypeInv, Places, NEW r \in Runs
               PROVE  Cardinality(Executors(r)) <= 1 + intrusions[r]
    BY DEF ExecutorsMatchIntrusions
  <2>1. PlacesOf(r) /\ intrusions[r] \in Nat
    BY DEF Places, TypeInv, TypeOK
  <2>2. Holding(r) \in Nat /\ Coming(r) \in Nat /\ Waiting(r) \in Nat
    BY <2>1, FS_CardinalityType DEF PlacesOf, Holding, Coming, Waiting
  <2> QED BY <2>1, <2>2 DEF PlacesOf, Holding
<1> QED BY <1>1, <1>2, <1>3, InitType, NextType, PTL DEF Spec
=============================================================================
