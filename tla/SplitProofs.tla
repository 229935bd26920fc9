---------------------------- MODULE SplitProofs ----------------------------
(***************************************************************************)
(* Theorems about SplitPipeline for every set of runs, workers and calls   *)
(* and every list of stages with their policies.                           *)
(***************************************************************************)
EXTENDS SplitPipeline, TLAPS

\* The pairs of status and pipeline_status that the writers mean.
Agrees(data) ==
    <<data.status, data.pipe>> \in
        {<<"created", "pending">>, <<"queued", "queued">>,
         <<"running", "running">>, <<"succeeded", "succeeded">>,
         <<"succeeded", "cancelled">>, <<"failed", "failed">>}

WorkerState ==
    [pc : WorkerPc, run : Runs \cup {None}, loaded : Row,
     status : RunStatus, step : 1..(Len(Stages) + 1), failed : BOOLEAN,
     cancelled : BOOLEAN, completed : SUBSET StageSet,
     attempted : SUBSET StageSet, asked : BOOLEAN]

\* What the entry of a worker satisfies on its own: it works on a run, a
\* stage it runs exists, and the row it claims was queued when it read it.
WorkerInv(e) ==
    /\ e \in WorkerState
    /\ e.pc \notin {"poll", "dead"} => e.run \in Runs
    /\ e.pc \in {"body", "again"} => e.step \in 1..Len(Stages)
    /\ e.pc = "claim" => e.loaded.status = "queued" /\ e.loaded.pipe = "queued"

CallState == [pc : {"idle", "write", "done"}, kind : {"start", "cancel"},
              run : Runs \cup {None}, loaded : Row]

\* What the entry of a call satisfies on its own.
CallInv(e) ==
    /\ e \in CallState
    /\ e.pc = "write" => e.run \in Runs /\ Agrees(e.loaded)

RunsAStage(e, r) == e.run = r /\ e.pc \in {"body", "again"}

\* A worker in a stage holds the lock of its run.  TypeOK, StagesSerialized
\* and StatusesAgree are not inductive without it and without what the
\* processes loaded.
Inv ==
    /\ row \in [Runs -> Row]
    /\ \A r \in Runs : Agrees(row[r])
    /\ lock \in [Runs -> Workers \cup {None}]
    /\ worker \in [Workers -> WorkerState]
    /\ \A w \in Workers : WorkerInv(worker[w])
    /\ call \in [Calls -> CallState]
    /\ \A c \in Calls : CallInv(call[c])
    /\ queuings \in [Runs -> Nat] /\ claims \in [Runs -> Nat]
    /\ \A w \in Workers, r \in Runs : RunsAStage(worker[w], r) => lock[r] = w

-----------------------------------------------------------------------------
(* Lemmas.                                                                 *)

\* The number of stages is a number.
LEMMA LengthType == Len(Stages) \in Nat
BY SplitAssumption

\* A fresh entry is one a worker may have.
LEMMA IdleType == NoRow \in Row /\ WorkerInv(Idle)
BY SplitAssumption, LengthType
   DEF NoRow, NewRow, Row, RunStatus, PipelineStatus, WorkerInv, Idle, WorkerState,
       WorkerPc

\* The initial state satisfies the invariant.
LEMMA InitInv == Init => Inv
<1> SUFFICES ASSUME Init PROVE Inv
  OBVIOUS
<1>1. row \in [Runs -> Row] /\ \A r \in Runs : Agrees(row[r])
  <2>1. \A d \in DisabledChoices, b \in BOOLEAN :
           NewRow(d, b) \in Row /\ Agrees(NewRow(d, b))
    BY DEF NewRow, Row, Agrees, RunStatus, PipelineStatus
  <2> QED BY <2>1 DEF Init
<1>2. /\ worker \in [Workers -> WorkerState]
      /\ \A w \in Workers : WorkerInv(worker[w])
      /\ \A w \in Workers, r \in Runs : ~RunsAStage(worker[w], r)
  BY IdleType DEF Init, WorkerInv, RunsAStage, Idle
<1>3. call \in [Calls -> CallState] /\ \A c \in Calls : CallInv(call[c])
  BY IdleType DEF Init, CallInv, CallState
<1> QED BY <1>1, <1>2, <1>3 DEF Init, Inv

\* Only the differences between two rows that agree are written, and still
\* the two columns change together when the new status is queued or running
\* and the old one is not.
LEMMA UpdateAgrees ==
    ASSUME NEW cur \in Row, NEW old \in Row, NEW new \in Row,
           Agrees(cur), Agrees(old), Agrees(new),
           \/ new.status = old.status /\ new.pipe = old.pipe
           \/ new.status # old.status /\ new.pipe # old.pipe
    PROVE  Update(cur, old, new) \in Row /\ Agrees(Update(cur, old, new))
<1> DEFINE u == Update(cur, old, new)
<1>1. u \in Row
  BY DEF Update, Row
<1>2. CASE new.status = old.status /\ new.pipe = old.pipe
  <2>1. u.status = cur.status /\ u.pipe = cur.pipe
    BY <1>2 DEF Update, Row
  <2> QED BY <1>1, <2>1 DEF Agrees
<1>3. CASE new.status # old.status /\ new.pipe # old.pipe
  <2>1. u.status = new.status /\ u.pipe = new.pipe
    BY <1>3 DEF Update, Row
  <2> QED BY <1>1, <2>1 DEF Agrees
<1> QED BY <1>2, <1>3

-----------------------------------------------------------------------------
(* The handlers.                                                           *)

\* A handler's load and its write keep the invariant.
LEMMA CallKeepsInv ==
    ASSUME Inv, NEW c \in Calls,
           \/ \E r \in Runs, kind \in Requests : CallLoad(c, kind, r)
           \/ CallWrite(c)
    PROVE  Inv'
<1>1. ASSUME NEW r \in Runs, NEW kind \in Requests, CallLoad(c, kind, r)
      PROVE  Inv'
  <2> DEFINE new == [pc |-> "write", kind |-> kind, run |-> r,
                     loaded |-> row[r]]
  <2>1. CallInv(new)
    BY SplitAssumption DEF Inv, CallInv, CallState
  <2>2. /\ call' = [call EXCEPT ![c] = new]
        /\ UNCHANGED <<row, lock, worker, queuings, claims>>
    BY <1>1 DEF CallLoad
  <2>3. call' \in [Calls -> CallState] /\ \A d \in Calls : CallInv(call'[d])
    BY <2>1, <2>2 DEF Inv, CallInv
  <2> QED BY <2>2, <2>3 DEF Inv
<1>2. CASE CallWrite(c)
  <2> DEFINE e == call[c]
             new == CallEdit(e.kind, e.loaded)
             last == [e EXCEPT !.pc = "done", !.loaded = NoRow]
  <2>1. /\ e \in CallState /\ e.run \in Runs /\ Agrees(e.loaded)
        /\ e.loaded \in Row /\ row[e.run] \in Row /\ Agrees(row[e.run])
    BY <1>2 DEF CallWrite, Inv, CallInv, CallState
  <2>2. /\ new \in Row /\ Agrees(new)
        /\ \/ new.status = e.loaded.status /\ new.pipe = e.loaded.pipe
           \/ new.status # e.loaded.status /\ new.pipe # e.loaded.pipe
    <3>1. CASE e.kind = "start"
      <4>1. /\ new.status = "queued" /\ new.pipe = "queued"
            /\ new \in Row
        BY <2>1, <3>1 DEF CallEdit, Row, RunStatus, PipelineStatus
      <4> QED BY <2>1, <4>1 DEF Agrees
    <3>2. CASE e.kind # "start"
      <4>1. /\ new.status = e.loaded.status /\ new.pipe = e.loaded.pipe
            /\ new \in Row
        BY <2>1, <3>2 DEF CallEdit, Row
      <4> QED BY <2>1, <4>1 DEF Agrees
    <3> QED BY <3>1, <3>2
  <2>3. /\ Update(row[e.run], e.loaded, new) \in Row
        /\ Agrees(Update(row[e.run], e.loaded, new))
    BY <2>1, <2>2, UpdateAgrees
  <2>4. row' = [row EXCEPT ![e.run] = Update(row[e.run], e.loaded, new)]
    BY <1>2 DEF CallWrite
  <2>5. row' \in [Runs -> Row] /\ \A r \in Runs : Agrees(row'[r])
    BY <2>1, <2>3, <2>4 DEF Inv
  <2>6. queuings' \in [Runs -> Nat]
    BY <1>2, <2>1 DEF CallWrite, Inv
  <2>7. CallInv(last)
    BY <2>1, IdleType DEF CallInv, CallState
  <2>8. call' = [call EXCEPT ![c] = last] /\ UNCHANGED <<lock, worker, claims>>
    BY <1>2 DEF CallWrite
  <2>9. call' \in [Calls -> CallState] /\ \A d \in Calls : CallInv(call'[d])
    BY <2>7, <2>8 DEF Inv, CallInv
  <2> QED BY <2>5, <2>6, <2>8, <2>9 DEF Inv
<1> QED BY <1>1, <1>2

-----------------------------------------------------------------------------
(* The workers.                                                            *)

\* A step of one worker keeps the invariant when the entry it writes is one a
\* worker may have, the row it writes agrees, it takes no other worker's lock
\* and it holds the lock of the run whose stage it enters.
LEMMA WorkerStep ==
    ASSUME Inv, NEW w \in Workers, NEW new, WorkerInv(new),
           worker' = [worker EXCEPT ![w] = new],
           row' \in [Runs -> Row], \A r \in Runs : Agrees(row'[r]),
           lock' \in [Runs -> Workers \cup {None}],
           \A r \in Runs : lock[r] \notin {None, w} => lock'[r] = lock[r],
           \A r \in Runs : RunsAStage(new, r) => lock'[r] = w,
           claims' \in [Runs -> Nat], UNCHANGED <<call, queuings>>
    PROVE  Inv'
<1>1. worker' \in [Workers -> WorkerState]
  BY DEF Inv, WorkerInv
<1>2. \A v \in Workers : WorkerInv(worker'[v])
  BY DEF Inv
<1>3. \A v \in Workers, r \in Runs : RunsAStage(worker'[v], r) => lock'[r] = v
  <2>1. TAKE v \in Workers, r \in Runs
  <2>2. CASE v = w
    BY <2>2 DEF Inv
  <2>3. CASE v # w
    <3>1. worker'[v] = worker[v] /\ v # None
      BY <2>3, SplitAssumption DEF Inv
    <3> QED BY <2>3, <3>1 DEF Inv
  <2> QED BY <2>2, <2>3
<1> QED BY <1>1, <1>2, <1>3 DEF Inv

\* The claim and the load of the run keep the invariant.
LEMMA ClaimKeepsInv ==
    ASSUME Inv, NEW w \in Workers,
           (\E r \in Runs : ClaimRead(w, r)) \/ ClaimCommit(w) \/ LoadRun(w)
    PROVE  Inv'
<1> DEFINE e == worker[w]
<1>0. /\ e \in WorkerState /\ WorkerInv(e)
      /\ row \in [Runs -> Row] /\ \A r \in Runs : Agrees(row[r])
      /\ lock \in [Runs -> Workers \cup {None}] /\ claims \in [Runs -> Nat]
  BY DEF Inv, WorkerInv
<1>1. ASSUME NEW r \in Runs, ClaimRead(w, r)
      PROVE  Inv'
  <2> DEFINE new == [e EXCEPT !.pc = "claim", !.run = r, !.loaded = row[r]]
  <2>1. row[r].status = "queued" /\ row[r].pipe = "queued"
    BY <1>0, <1>1 DEF ClaimRead, Agrees
  <2>2. WorkerInv(new)
    BY <1>0, <2>1 DEF WorkerInv, WorkerState, WorkerPc
  <2>3. \A q \in Runs : ~RunsAStage(new, q)
    BY <1>0 DEF RunsAStage, WorkerState
  <2>4. worker' = [worker EXCEPT ![w] = new]
    BY <1>1 DEF ClaimRead
  <2> HIDE DEF new
  <2> QED BY <1>0, <1>1, <2>2, <2>3, <2>4, WorkerStep DEF ClaimRead
<1>2. CASE ClaimCommit(w)
  <2> DEFINE r == e.run
             new == [e.loaded EXCEPT !.status = "running", !.pipe = "running"]
             last == [e EXCEPT !.pc = "load"]
  <2>1. /\ r \in Runs /\ e.loaded \in Row
        /\ e.loaded.status = "queued" /\ e.loaded.pipe = "queued"
    BY <1>0, <1>2 DEF ClaimCommit, WorkerInv, WorkerState
  <2>2. /\ new \in Row /\ new.status = "running" /\ new.pipe = "running"
    BY <2>1 DEF Row, RunStatus, PipelineStatus
  <2>3. Agrees(new) /\ Agrees(e.loaded) /\ row[r] \in Row /\ Agrees(row[r])
    BY <1>0, <2>1, <2>2 DEF Agrees
  <2>4. /\ Update(row[r], e.loaded, new) \in Row
        /\ Agrees(Update(row[r], e.loaded, new))
    BY <2>1, <2>2, <2>3, UpdateAgrees
  <2>5. row' = [row EXCEPT ![r] = Update(row[r], e.loaded, new)]
    BY <1>2 DEF ClaimCommit
  <2>6. row' \in [Runs -> Row] /\ \A q \in Runs : Agrees(row'[q])
    BY <1>0, <2>1, <2>4, <2>5
  <2>7. WorkerInv(last)
    BY <1>0, <2>1 DEF WorkerInv, WorkerState, WorkerPc
  <2>8. \A q \in Runs : ~RunsAStage(last, q)
    BY <1>0 DEF RunsAStage, WorkerState
  <2>9. claims' \in [Runs -> Nat]
    <3>1. claims' = [claims EXCEPT ![r] = @ + 1]
      BY <1>2 DEF ClaimCommit
    <3> QED BY <1>0, <2>1, <3>1
  <2>10. worker' = [worker EXCEPT ![w] = last] /\ UNCHANGED <<lock, call, queuings>>
    BY <1>2 DEF ClaimCommit
  <2> HIDE DEF last
  <2> QED BY <1>0, <2>6, <2>7, <2>8, <2>9, <2>10, WorkerStep
<1>3. CASE LoadRun(w)
  <2> DEFINE new == [Idle EXCEPT !.pc = "next", !.run = e.run,
                                 !.loaded = row[e.run], !.status = "running"]
  <2>1. e.run \in Runs
    BY <1>0, <1>3 DEF LoadRun, WorkerInv
  <2>2. WorkerInv(new)
    <3>1. row[e.run] \in Row /\ Idle \in WorkerState
      BY <1>0, <2>1, IdleType DEF WorkerInv
    <3>2. new \in WorkerState
      BY <2>1, <3>1 DEF WorkerState, WorkerPc, RunStatus
    <3> QED BY <2>1, <3>2 DEF WorkerInv, Idle
  <2>3. \A q \in Runs : ~RunsAStage(new, q)
    BY DEF RunsAStage, Idle
  <2>4. worker' = [worker EXCEPT ![w] = new]
    BY <1>3 DEF LoadRun
  <2> HIDE DEF new
  <2> QED BY <1>0, <1>3, <2>2, <2>3, <2>4, WorkerStep DEF LoadRun
<1> QED BY <1>1, <1>2, <1>3

-----------------------------------------------------------------------------
(* The steps of execute.                                                   *)

\* A step of one worker that leaves the row and the history alone, and takes
\* a lock only when it is free or its own.
LEMMA LocalStep ==
    ASSUME Inv, NEW w \in Workers, NEW new, WorkerInv(new),
           worker' = [worker EXCEPT ![w] = new],
           \/ UNCHANGED lock
           \/ \E r \in Runs : Unlocked(r, w) /\ lock' = [lock EXCEPT ![r] = w],
           \A r \in Runs : RunsAStage(new, r) => lock'[r] = w,
           UNCHANGED <<row, call, queuings, claims>>
    PROVE  Inv'
<1>1. lock' \in [Runs -> Workers \cup {None}]
  BY DEF Inv
<1>2. \A r \in Runs : lock[r] \notin {None, w} => lock'[r] = lock[r]
  BY DEF Inv, Unlocked
<1> QED BY <1>1, <1>2, WorkerStep DEF Inv

\* The steps from the load of a run to its commit keep the invariant.
LEMMA ExecuteKeepsInv ==
    ASSUME Inv, NEW w \in Workers,
           \/ StopForCancel(w) \/ SkipDisabled(w) \/ BeginStage(w)
           \/ StageSucceeds(w) \/ StageRaises(w) \/ LeaveFailedStages(w)
           \/ BeginAlwaysRun(w) \/ AlwaysRunRaises(w)
    PROVE  Inv'
<1> DEFINE e == worker[w]
<1>0. e \in WorkerState /\ WorkerInv(e) /\ Len(Stages) \in Nat
      /\ 1 \in 1..(Len(Stages) + 1) /\ lock \in [Runs -> Workers \cup {None}]
  BY LengthType DEF Inv, WorkerInv
<1>1. ASSUME Refreshed(w), e.run \in Runs
      PROVE  \/ UNCHANGED lock
             \/ \E r \in Runs : Unlocked(r, w) /\ lock' = [lock EXCEPT ![r] = w]
  BY <1>1 DEF Refreshed
<1>2. ASSUME NEW pc \in {"next", "rest"}, NEW i \in 1..(Len(Stages) + 1),
             Goes(w, pc, i), e.run \in Runs,
             \/ UNCHANGED lock
             \/ \E r \in Runs : Unlocked(r, w) /\ lock' = [lock EXCEPT ![r] = w],
             UNCHANGED <<row, call, queuings, claims>>
      PROVE  Inv'
  <2> DEFINE new == [e EXCEPT !.pc = pc, !.step = i]
  <2>1. WorkerInv(new) /\ \A r \in Runs : ~RunsAStage(new, r)
    BY <1>0, <1>2 DEF WorkerInv, WorkerState, WorkerPc, RunsAStage
  <2>2. worker' = [worker EXCEPT ![w] = new]
    BY <1>2 DEF Goes
  <2> HIDE DEF new
  <2> QED BY <1>2, <2>1, <2>2, LocalStep
<1>3. ASSUME NEW pc \in {"body", "again"}, NEW i \in 1..Len(Stages),
             EnterBody(w, pc, i), e.run \in Runs
      PROVE  Inv'
  <2> DEFINE new == [e EXCEPT !.pc = pc, !.step = i, !.status = "running",
                              !.attempted = e.attempted \cup {Stages[i]}]
  <2>1. e.attempted \cup {Stages[i]} \in SUBSET StageSet
    BY <1>0 DEF WorkerState, StageSet
  <2>2. new \in WorkerState
    <3>1. i \in 1..(Len(Stages) + 1)
      BY <1>0
    <3> QED BY <1>0, <2>1, <3>1 DEF WorkerState, WorkerPc, RunStatus
  <2>3. new.pc = pc /\ new.step = i /\ new.run = e.run
    BY <1>0 DEF WorkerState
  <2>4. WorkerInv(new)
    BY <1>3, <2>2, <2>3 DEF WorkerInv
  <2>5. /\ worker' = [worker EXCEPT ![w] = new] /\ Unlocked(e.run, w)
        /\ lock' = [lock EXCEPT ![e.run] = w]
        /\ UNCHANGED <<row, call, queuings, claims>>
    BY <1>0, <1>3 DEF EnterBody
  <2>6. \A r \in Runs : RunsAStage(new, r) => lock'[r] = w
    BY <1>0, <1>3, <2>3, <2>5 DEF RunsAStage
  <2> HIDE DEF new
  <2> QED BY <1>3, <2>4, <2>5, <2>6, LocalStep
<1>4. CASE StopForCancel(w)
  <2> DEFINE new == [e EXCEPT !.pc = "rest", !.step = 1, !.cancelled = TRUE]
  <2>1. e.run \in Runs
    BY <1>0, <1>4 DEF StopForCancel, WorkerInv
  <2>2. WorkerInv(new) /\ \A r \in Runs : ~RunsAStage(new, r)
    <3>1. new \in WorkerState /\ new.pc = "rest" /\ new.run = e.run
      BY <1>0 DEF WorkerState, WorkerPc
    <3> QED BY <2>1, <3>1 DEF WorkerInv, RunsAStage
  <2>3. worker' = [worker EXCEPT ![w] = new] /\ Refreshed(w)
        /\ UNCHANGED <<row, call, queuings, claims>>
    BY <1>4 DEF StopForCancel
  <2> HIDE DEF new
  <2> QED BY <1>1, <2>1, <2>2, <2>3, LocalStep
<1>5. CASE SkipDisabled(w)
  <2>1. /\ e.run \in Runs /\ e.step + 1 \in 1..(Len(Stages) + 1)
    BY <1>0, <1>5
       DEF SkipDisabled, MayProceed, HasStage, WorkerInv, WorkerState
  <2> QED BY <1>1, <1>2, <1>5, <2>1 DEF SkipDisabled
<1>6. CASE BeginStage(w)
  <2>1. e.run \in Runs /\ e.step \in 1..Len(Stages)
    BY <1>0, <1>6
       DEF BeginStage, MayProceed, HasStage, WorkerInv, WorkerState
  <2> QED BY <1>3, <1>6, <2>1 DEF BeginStage
<1>7. CASE StageSucceeds(w)
  <2> DEFINE pc == IF e.pc = "body" THEN "next" ELSE "rest"
             asked == e.asked \/ AsksCleanup(w)
             new == [e EXCEPT !.pc = pc, !.step = e.step + 1,
                              !.completed = e.completed \cup {Current(w)},
                              !.asked = asked]
  <2>1. e.run \in Runs /\ e.step \in 1..Len(Stages)
    BY <1>0, <1>7 DEF StageSucceeds, WorkerInv
  <2>2. /\ pc \in {"next", "rest"} /\ e.step + 1 \in 1..(Len(Stages) + 1)
        /\ asked \in BOOLEAN
    BY <1>0, <2>1 DEF WorkerState, AsksCleanup
  <2>3. e.completed \cup {Current(w)} \in SUBSET StageSet
    BY <1>0, <2>1 DEF Current, WorkerState, StageSet
  <2>4. worker' = [worker EXCEPT ![w] = new]
    BY <1>0, <1>7 DEF StageSucceeds
  <2>5. UNCHANGED <<row, lock, call, queuings, claims>>
    BY <1>7 DEF StageSucceeds
  <2> HIDE DEF pc, asked
  <2>6. WorkerInv(new) /\ \A r \in Runs : ~RunsAStage(new, r)
    BY <1>0, <2>1, <2>2, <2>3 DEF WorkerInv, WorkerState, WorkerPc, RunsAStage
  <2> HIDE DEF new
  <2> QED BY <2>4, <2>5, <2>6, LocalStep
<1>8. CASE StageRaises(w)
  <2> DEFINE failed == e.failed \/ Current(w) \in AlwaysRun
             stop == [e EXCEPT !.pc = "rest", !.step = 1, !.failed = TRUE]
             go == [e EXCEPT !.pc = "next", !.step = e.step + 1,
                             !.failed = failed]
  <2>1. /\ e.run \in Runs /\ e.step + 1 \in 1..(Len(Stages) + 1)
        /\ failed \in BOOLEAN
    BY <1>0, <1>8 DEF StageRaises, WorkerInv, WorkerState
  <2>2. WorkerInv(stop) /\ \A r \in Runs : ~RunsAStage(stop, r)
    <3>1. stop \in WorkerState /\ stop.pc = "rest" /\ stop.run = e.run
      BY <1>0 DEF WorkerState, WorkerPc
    <3> QED BY <2>1, <3>1 DEF WorkerInv, RunsAStage
  <2>4. worker' = [worker EXCEPT ![w] = stop] \/ worker' = [worker EXCEPT ![w] = go]
    BY <1>0, <1>8 DEF StageRaises
  <2>5. UNCHANGED <<row, lock, call, queuings, claims>>
    BY <1>8 DEF StageRaises
  <2> HIDE DEF failed
  <2>3. WorkerInv(go) /\ \A r \in Runs : ~RunsAStage(go, r)
    BY <1>0, <2>1 DEF WorkerInv, WorkerState, WorkerPc, RunsAStage
  <2> HIDE DEF stop, go
  <2> QED BY <2>2, <2>3, <2>4, <2>5, LocalStep
<1>9. CASE LeaveFailedStages(w)
  <2>1. e.run \in Runs /\ 1 \in 1..(Len(Stages) + 1)
    BY <1>0, <1>9 DEF LeaveFailedStages, WorkerInv
  <2> QED BY <1>2, <1>9, <2>1 DEF LeaveFailedStages
<1>10. CASE BeginAlwaysRun(w)
  <2>1. PICK i \in Remaining(w) : EnterBody(w, "again", i)
    BY <1>10 DEF BeginAlwaysRun
  <2>2. e.run \in Runs /\ i \in 1..Len(Stages)
    BY <1>0, <1>10
       DEF BeginAlwaysRun, Remaining, WorkerInv, WorkerState
  <2> QED BY <1>3, <2>1, <2>2
<1>11. CASE AlwaysRunRaises(w)
  <2>1. e.run \in Runs /\ e.step + 1 \in 1..(Len(Stages) + 1)
    BY <1>0, <1>11 DEF AlwaysRunRaises, WorkerInv
  <2> QED BY <1>2, <1>11, <2>1 DEF AlwaysRunRaises
<1> QED BY <1>4, <1>5, <1>6, <1>7, <1>8, <1>9, <1>10, <1>11

\* The end of an execution, by its commit, an error or a crash, keeps the
\* invariant: what it writes agrees, and it gives up no lock but its own.
LEMMA EndKeepsInv ==
    ASSUME Inv, NEW w \in Workers,
           CommitRun(w) \/ ExecutionRaises(w) \/ FailRun(w) \/ Crash(w)
    PROVE  Inv'
<1> DEFINE e == worker[w]
<1>0. /\ e \in WorkerState /\ WorkerInv(e)
      /\ row \in [Runs -> Row] /\ \A r \in Runs : Agrees(row[r])
      /\ lock \in [Runs -> Workers \cup {None}] /\ claims \in [Runs -> Nat]
  BY DEF Inv, WorkerInv
<1>1. \A r \in Runs : ~RunsAStage(Idle, r)
  BY DEF RunsAStage, Idle
<1>2. ASSUME NEW r \in Runs, NEW st \in RunStatus, NEW pipe \in PipelineStatus,
             Agrees([status |-> st, pipe |-> pipe]),
             row' = [row EXCEPT ![r] = [row[r] EXCEPT !.status = st,
                                                      !.pipe = pipe]]
      PROVE  row' \in [Runs -> Row] /\ \A q \in Runs : Agrees(row'[q])
  <2> DEFINE new == [row[r] EXCEPT !.status = st, !.pipe = pipe]
  <2>1. new \in Row /\ new.status = st /\ new.pipe = pipe
    BY <1>0, <1>2 DEF Row
  <2>2. Agrees(new)
    BY <1>2, <2>1 DEF Agrees
  <2> HIDE DEF new
  <2> QED BY <1>0, <1>2, <2>1, <2>2 DEF new
<1>3. CASE CommitRun(w)
  <2>1. e.run \in Runs
    BY <1>0, <1>3 DEF CommitRun, Finished, WorkerInv
  <2>2. PICK st \in RunStatus, pipe \in PipelineStatus :
           /\ Agrees([status |-> st, pipe |-> pipe])
           /\ row' = [row EXCEPT ![e.run] = [row[e.run] EXCEPT
                         !.status = st, !.pipe = pipe]]
    <3>1. Result(w) \in {"cancelled", "failed", "succeeded"}
      BY DEF Result
    <3> DEFINE st == IF Result(w) = "failed" THEN "failed" ELSE "succeeded"
    <3>2. row' = [row EXCEPT ![e.run] = [row[e.run] EXCEPT
                     !.status = st, !.pipe = Result(w)]]
      BY <1>3 DEF CommitRun
    <3>3. /\ st \in RunStatus /\ Result(w) \in PipelineStatus
          /\ Agrees([status |-> st, pipe |-> Result(w)])
      BY <3>1 DEF RunStatus, PipelineStatus, Agrees
    <3> QED BY <3>2, <3>3
  <2>3. row' \in [Runs -> Row] /\ \A q \in Runs : Agrees(row'[q])
    BY <1>2, <2>1, <2>2
  <2>4. /\ worker' = [worker EXCEPT ![w] = Idle] /\ Unlocked(e.run, w)
        /\ lock' = [lock EXCEPT ![e.run] = None]
        /\ UNCHANGED <<call, queuings, claims>>
    BY <1>3 DEF CommitRun
  <2>5. lock' \in [Runs -> Workers \cup {None}]
    BY <1>0, <2>4
  <2>6. \A r \in Runs : lock[r] \notin {None, w} => lock'[r] = lock[r]
    BY <1>0, <2>4 DEF Unlocked
  <2> QED BY <1>0, <1>1, <2>3, <2>4, <2>5, <2>6, IdleType, WorkerStep
<1>4. ASSUME NEW pc \in {"crash", "dead"}, Released(w),
             pc = "crash" => e.run \in Runs,
             worker' = [worker EXCEPT ![w] = [Idle EXCEPT !.pc = pc,
                                                          !.run = e.run]],
             UNCHANGED <<row, call, queuings, claims>>
      PROVE  Inv'
  <2> DEFINE new == [Idle EXCEPT !.pc = pc, !.run = e.run]
  <2>1. e.run \in Runs \cup {None} /\ Idle \in WorkerState
    BY <1>0, IdleType DEF WorkerInv, WorkerState
  <2>2. new \in WorkerState /\ new.pc = pc /\ new.run = e.run
    BY <2>1 DEF WorkerState, WorkerPc
  <2>3. WorkerInv(new) /\ \A r \in Runs : ~RunsAStage(new, r)
    BY <1>4, <2>2 DEF WorkerInv, RunsAStage
  <2>4. /\ lock' \in [Runs -> Workers \cup {None}]
        /\ \A r \in Runs : lock[r] \notin {None, w} => lock'[r] = lock[r]
    BY <1>0, <1>4 DEF Released
  <2> HIDE DEF new
  <2>5. worker' = [worker EXCEPT ![w] = new]
    BY <1>4 DEF new
  <2> QED BY <1>0, <1>4, <2>3, <2>4, <2>5, WorkerStep
<1>5. CASE ExecutionRaises(w)
  <2>1. e.run \in Runs
    BY <1>0, <1>5 DEF ExecutionRaises, WorkerInv
  <2> QED BY <1>4, <1>5, <2>1 DEF ExecutionRaises
<1>6. CASE FailRun(w)
  <2>1. e.run \in Runs
    BY <1>0, <1>6 DEF FailRun, WorkerInv
  <2>2. row' = [row EXCEPT ![e.run] = [row[e.run] EXCEPT !.status = "failed",
                                                         !.pipe = "failed"]]
    BY <1>6 DEF FailRun
  <2>3. row' \in [Runs -> Row] /\ \A q \in Runs : Agrees(row'[q])
    BY <1>2, <2>1, <2>2 DEF RunStatus, PipelineStatus, Agrees
  <2> QED BY <1>0, <1>1, <1>6, <2>3, IdleType, WorkerStep DEF FailRun
<1>7. CASE Crash(w)
  BY <1>4, <1>7 DEF Crash
<1> QED BY <1>3, <1>5, <1>6, <1>7

\* Inv is inductive.
LEMMA NextInv == Inv /\ [Next]_vars => Inv'
<1> SUFFICES ASSUME Inv, [Next]_vars
             PROVE  Inv'
  OBVIOUS
<1>1. CASE UNCHANGED vars
  BY <1>1 DEF vars, Inv
<1>2. CASE Next
  BY <1>2, CallKeepsInv, ClaimKeepsInv, ExecuteKeepsInv, EndKeepsInv
     DEF Next, WorkerProgress
<1> QED BY <1>1, <1>2

\* Whatever was stale when it was written, the row keeps its type, and so do
\* the sessions; in particular no stage beyond the last one is looked up.
THEOREM TypeCorrect == Spec => []TypeOK
<1>1. Inv => TypeOK
  BY DEF Inv, TypeOK, WorkerState, CallState
<1> QED BY InitInv, NextInv, <1>1, PTL DEF Spec

\* Although two workers can claim one queueing of a run, they never run
\* stages of it at the same time: the row lock serializes the executions.
THEOREM OneExecutionAtATime == Spec => []StagesSerialized
<1>1. Inv => StagesSerialized
  BY DEF Inv, StagesSerialized, RunsStage, RunsAStage
<1> QED BY InitInv, NextInv, <1>1, PTL DEF Spec

\* Although handlers and workers write only the columns that differ from what
\* they loaded, status and pipeline_status never contradict each other.
THEOREM ColumnsAgree == Spec => []StatusesAgree
<1>1. Inv => StatusesAgree
  BY DEF Inv, StatusesAgree, Agrees
<1> QED BY InitInv, NextInv, <1>1, PTL DEF Spec

-----------------------------------------------------------------------------
(* The stages of an execution.                                             *)

\* What the two loops of execute know of the stages behind them: before a
\* failure only stages that did not fail the run are behind, and afterwards
\* every ALWAYS_RUN stage behind has been attempted.
PlanInv(e) ==
    /\ e.completed \subseteq e.attempted
    /\ e.pc \in {"next", "body"} =>
          /\ ~e.cancelled
          /\ \A i \in e.step..Len(Stages) : Stages[i] \notin e.completed
          /\ e.attempted \cap FailFast \subseteq
                e.completed \cup {s \in StageSet : e.pc = "body" /\ s = Stages[e.step]}
    /\ e.pc \in {"body", "again"} =>
          /\ Stages[e.step] \in e.attempted \ e.completed
          /\ e.pc = "again" \/ e.loaded.cancel => Stages[e.step] \in AlwaysRun
    /\ e.pc \in {"rest", "again"} =>
          \A i \in 1..(e.step - 1) : Stages[i] \in AlwaysRun => Stages[i] \in e.attempted

\* A worker that is not executing has no plan.
LEMMA IdlePlan ==
    ASSUME NEW e \in WorkerState, e.completed = {}, e.attempted = {},
           e.pc \in {"poll", "crash", "dead"}
    PROVE  PlanInv(e)
BY DEF PlanInv

\* A step of execute that begins or ends a stage, or leaves the first loop,
\* keeps the plan of the worker that takes it.
LEMMA ExecuteKeepsPlan ==
    ASSUME Inv, NEW w \in Workers, PlanInv(worker[w]),
           \/ StopForCancel(w) \/ SkipDisabled(w) \/ BeginStage(w)
           \/ StageSucceeds(w) \/ StageRaises(w) \/ LeaveFailedStages(w)
           \/ BeginAlwaysRun(w) \/ AlwaysRunRaises(w)
    PROVE  \E new : worker' = [worker EXCEPT ![w] = new] /\ PlanInv(new)
<1> DEFINE e == worker[w]
<1>0. /\ e \in WorkerState /\ PlanInv(e) /\ Len(Stages) \in Nat
      /\ e.step \in 1..(Len(Stages) + 1)
      /\ e.pc \in {"body", "again"} => e.step \in 1..Len(Stages)
      /\ \A i, j \in 1..Len(Stages) : Stages[i] = Stages[j] => i = j
      /\ \A i \in 1..Len(Stages) : Stages[i] \in StageSet
  BY LengthType, SplitAssumption DEF Inv, WorkerInv, WorkerState, StageSet
<1>1. CASE StopForCancel(w)
  <2> DEFINE new == [e EXCEPT !.pc = "rest", !.step = 1, !.cancelled = TRUE]
  <2>1. worker' = [worker EXCEPT ![w] = new]
    BY <1>1 DEF StopForCancel
  <2>2. PlanInv(new)
    BY <1>0 DEF PlanInv, WorkerState
  <2> QED BY <2>1, <2>2
<1>2. CASE SkipDisabled(w)
  <2> DEFINE new == [e EXCEPT !.pc = "next", !.step = e.step + 1]
  <2>1. worker' = [worker EXCEPT ![w] = new] /\ e.pc = "next"
    BY <1>2 DEF SkipDisabled, MayProceed, Goes
  <2>2. PlanInv(new)
    BY <1>0, <2>1 DEF PlanInv, WorkerState
  <2> QED BY <2>1, <2>2
<1>3. CASE BeginStage(w)
  <2> DEFINE stage == Stages[e.step]
             new == [e EXCEPT !.pc = "body", !.step = e.step, !.status = "running",
                              !.attempted = e.attempted \cup {stage}]
  <2>1. /\ worker' = [worker EXCEPT ![w] = new] /\ e.pc = "next"
        /\ e.step \in 1..Len(Stages) /\ (e.loaded.cancel => stage \in AlwaysRun)
    BY <1>0, <1>3 DEF BeginStage, MayProceed, HasStage, EnterBody, Current
  <2>2. PlanInv(new)
    BY <1>0, <2>1 DEF PlanInv, WorkerState
  <2> QED BY <2>1, <2>2
<1>4. CASE StageSucceeds(w)
  <2> DEFINE stage == Stages[e.step]
             asked == e.asked \/ AsksCleanup(w)
             new == [e EXCEPT !.pc = IF e.pc = "body" THEN "next" ELSE "rest",
                              !.step = e.step + 1,
                              !.completed = e.completed \cup {stage},
                              !.asked = asked]
  <2>1. worker' = [worker EXCEPT ![w] = new] /\ e.pc \in {"body", "again"}
    BY <1>4 DEF StageSucceeds, Current
  <2> HIDE DEF asked
  <2>2. CASE e.pc = "body"
    <3>1. /\ new.pc = "next" /\ new.step = e.step + 1 /\ new.completed = e.completed \cup {stage}
          /\ new.attempted = e.attempted /\ new.cancelled = e.cancelled
      BY <1>0, <2>2 DEF WorkerState
    <3> HIDE DEF new
    <3>2. PlanInv(new)
      BY <1>0, <2>2, <3>1 DEF PlanInv
    <3> QED BY <2>1, <3>2 DEF new
  <2>3. CASE e.pc = "again"
    <3>1. /\ new.pc = "rest" /\ new.step = e.step + 1 /\ new.completed = e.completed \cup {stage}
          /\ new.attempted = e.attempted
      BY <1>0, <2>3 DEF WorkerState
    <3> HIDE DEF new
    <3>2. PlanInv(new)
      BY <1>0, <2>3, <3>1 DEF PlanInv
    <3> QED BY <2>1, <3>2 DEF new
  <2> QED BY <2>1, <2>2, <2>3
<1>5. CASE StageRaises(w)
  <2> DEFINE stage == Stages[e.step]
             failed == e.failed \/ stage \in AlwaysRun
             stop == [e EXCEPT !.pc = "rest", !.step = 1, !.failed = TRUE]
             go == [e EXCEPT !.pc = "next", !.step = e.step + 1, !.failed = failed]
  <2>1. /\ worker' = [worker EXCEPT ![w] = IF stage \in FailFast THEN stop ELSE go]
        /\ e.pc = "body"
    BY <1>5 DEF StageRaises, Current
  <2> HIDE DEF failed
  <2>2. PlanInv(stop)
    BY <1>0 DEF PlanInv, WorkerState
  <2>3. ASSUME stage \notin FailFast PROVE PlanInv(go)
    <3>1. /\ go.pc = "next" /\ go.step = e.step + 1 /\ go.completed = e.completed
          /\ go.attempted = e.attempted /\ go.cancelled = e.cancelled
      BY <1>0 DEF WorkerState
    <3> HIDE DEF go
    <3> QED BY <1>0, <2>1, <2>3, <3>1 DEF PlanInv
  <2> QED BY <2>1, <2>2, <2>3
<1>6. CASE LeaveFailedStages(w)
  <2> DEFINE new == [e EXCEPT !.pc = "rest", !.step = 1]
  <2>1. worker' = [worker EXCEPT ![w] = new]
    BY <1>6 DEF LeaveFailedStages, Goes
  <2>2. PlanInv(new)
    BY <1>0 DEF PlanInv, WorkerState
  <2> QED BY <2>1, <2>2
<1>7. CASE BeginAlwaysRun(w)
  <2>1. PICK i \in Remaining(w) : (\A j \in Remaining(w) : i <= j) /\ EnterBody(w, "again", i)
    BY <1>7 DEF BeginAlwaysRun
  <2> DEFINE new == [e EXCEPT !.pc = "again", !.step = i, !.status = "running",
                              !.attempted = e.attempted \cup {Stages[i]}]
  <2>2. worker' = [worker EXCEPT ![w] = new] /\ e.pc = "rest"
    BY <1>7, <2>1 DEF EnterBody, BeginAlwaysRun
  <2>3. /\ i \in 1..Len(Stages) /\ Stages[i] \in AlwaysRun \ e.completed
        /\ \A j \in e.step..Len(Stages) : j < i /\ Stages[j] \in AlwaysRun => Stages[j] \in e.completed
    BY <1>0, <2>1 DEF Remaining
  <2>4. /\ new.pc = "again" /\ new.step = i /\ new.completed = e.completed
        /\ new.attempted = e.attempted \cup {Stages[i]}
    BY <1>0 DEF WorkerState
  <2> HIDE DEF new
  <2>5. PlanInv(new)
    BY <1>0, <2>2, <2>3, <2>4 DEF PlanInv
  <2> QED BY <2>2, <2>5 DEF new
<1>8. CASE AlwaysRunRaises(w)
  <2> DEFINE new == [e EXCEPT !.pc = "rest", !.step = e.step + 1]
  <2>1. worker' = [worker EXCEPT ![w] = new] /\ e.pc = "again"
    BY <1>8 DEF AlwaysRunRaises, Goes
  <2>2. PlanInv(new)
    BY <1>0, <2>1 DEF PlanInv, WorkerState
  <2> QED BY <2>1, <2>2
<1> QED BY <1>1, <1>2, <1>3, <1>4, <1>5, <1>6, <1>7, <1>8

\* So does every other step of a worker, which begins or ends an execution.
LEMMA WorkerKeepsPlan ==
    ASSUME Inv, NEW w \in Workers, PlanInv(worker[w]), WorkerProgress(w) \/ Crash(w)
    PROVE  \E new : worker' = [worker EXCEPT ![w] = new] /\ PlanInv(new)
<1> DEFINE e == worker[w]
<1>0. e \in WorkerState /\ Idle \in WorkerState /\ PlanInv(e)
  BY IdleType DEF Inv, WorkerInv
<1>1. ASSUME NEW r \in Runs, ClaimRead(w, r)
      PROVE  \E new : worker' = [worker EXCEPT ![w] = new] /\ PlanInv(new)
  <2> DEFINE new == [e EXCEPT !.pc = "claim", !.run = r, !.loaded = row[r]]
  <2>1. worker' = [worker EXCEPT ![w] = new]
    BY <1>1 DEF ClaimRead
  <2>2. PlanInv(new)
    BY <1>0 DEF PlanInv, WorkerState
  <2> QED BY <2>1, <2>2
<1>2. CASE ClaimCommit(w)
  <2>1. worker' = [worker EXCEPT ![w] = [e EXCEPT !.pc = "load"]]
    BY <1>2 DEF ClaimCommit
  <2>2. PlanInv([e EXCEPT !.pc = "load"])
    BY <1>0 DEF PlanInv, WorkerState
  <2> QED BY <2>1, <2>2
<1>3. CASE LoadRun(w)
  <2> DEFINE new == [Idle EXCEPT !.pc = "next", !.run = e.run, !.loaded = row[e.run],
                                 !.status = "running"]
  <2>1. worker' = [worker EXCEPT ![w] = new]
    BY <1>3 DEF LoadRun
  <2>2. PlanInv(new)
    BY DEF PlanInv, Idle
  <2> QED BY <2>1, <2>2
<1>4. CASE CommitRun(w) \/ FailRun(w)
  <2>1. worker' = [worker EXCEPT ![w] = Idle]
    BY <1>4 DEF CommitRun, FailRun
  <2> QED BY <1>0, <2>1, IdlePlan DEF Idle
<1>5. CASE ExecutionRaises(w) \/ Crash(w)
  <2>1. PICK pc \in {"crash", "dead"} :
           worker' = [worker EXCEPT ![w] = [Idle EXCEPT !.pc = pc, !.run = e.run]]
    BY <1>5 DEF ExecutionRaises, Crash
  <2>2. PlanInv([Idle EXCEPT !.pc = pc, !.run = e.run])
    BY DEF PlanInv, Idle
  <2> QED BY <2>1, <2>2
<1> QED BY <1>1, <1>2, <1>3, <1>4, <1>5, ExecuteKeepsPlan DEF WorkerProgress

Plans == \A w \in Workers : PlanInv(worker[w])

\* The plans of all workers hold throughout.
LEMMA PlansHold == Spec => [](Inv /\ Plans)
<1>1. Init => Plans
  BY IdleType, IdlePlan DEF Init, Plans, Idle, WorkerInv
<1>2. ASSUME Inv, Plans, [Next]_vars PROVE Plans'
  <2>1. CASE UNCHANGED worker
    BY <1>2, <2>1 DEF Plans, PlanInv
  <2>2. ASSUME NEW w \in Workers, WorkerProgress(w) \/ Crash(w) PROVE Plans'
    <3>1. PICK new : worker' = [worker EXCEPT ![w] = new] /\ PlanInv(new)
      BY <1>2, <2>2, WorkerKeepsPlan DEF Plans
    <3>2. \A v \in Workers : worker'[v] = IF v = w THEN new ELSE worker[v]
      BY <1>2, <3>1 DEF Inv
    <3> QED BY <1>2, <3>1, <3>2 DEF Plans, PlanInv
  <2>3. CASE \E c \in Calls : CallWrite(c) \/ \E r \in Runs, kind \in Requests : CallLoad(c, kind, r)
    BY <2>1, <2>3 DEF CallWrite, CallLoad
  <2> QED BY <1>2, <2>1, <2>2, <2>3 DEF Next, vars
<1> QED BY <1>1, <1>2, InitInv, NextInv, PTL DEF Spec

\* FAIL_FAST and cancellation for any stages and policies: after either, only
\* stages that always run are run.
THEOREM StoppedStages == Spec => []StoppedRunsOnlyAlwaysRun
<1>1. ASSUME Inv, Plans PROVE StoppedRunsOnlyAlwaysRun
  <2> SUFFICES ASSUME NEW w \in Workers, worker[w].pc \in {"body", "again"},
                      Current(w) \notin AlwaysRun
               PROVE  /\ ~worker[w].loaded.cancel
                      /\ \A s \in worker[w].attempted \cap FailFast :
                            s \in worker[w].completed \cup {Current(w)}
    BY DEF StoppedRunsOnlyAlwaysRun
  <2> QED BY <1>1 DEF Plans, PlanInv, Current
<1> QED BY <1>1, PlansHold, PTL

\* ALWAYS_RUN for any stages and policies: an execution that failed or was
\* cancelled has attempted every such stage, and none begins again after it
\* completed.
THEOREM CleanupStages == Spec => []AlwaysRunIsRun
<1>1. ASSUME Inv, Plans PROVE AlwaysRunIsRun
  <2> SUFFICES ASSUME NEW w \in Workers
               PROVE  /\ Finished(w) /\ (worker[w].failed \/ worker[w].cancelled) =>
                            AlwaysRun \subseteq worker[w].attempted
                      /\ worker[w].pc \in {"body", "again"} =>
                            Current(w) \notin worker[w].completed
    BY DEF AlwaysRunIsRun
  <2> DEFINE e == worker[w]
  <2>0. PlanInv(e) /\ e \in WorkerState /\ Len(Stages) \in Nat
        /\ e.step \in 1..(Len(Stages) + 1)
    BY <1>1, LengthType DEF Plans, Inv, WorkerState
  <2>1. ASSUME Finished(w), e.failed \/ e.cancelled, NEW s \in AlwaysRun
        PROVE  s \in e.attempted
    <3>1. e.pc = "rest" /\ Remaining(w) = {}
      BY <2>0, <2>1 DEF Finished, PlanInv
    <3>2. PICK i \in 1..Len(Stages) : s = Stages[i]
      BY SplitAssumption DEF StageSet
    <3>3. CASE i < e.step
      BY <2>0, <3>1, <3>2, <3>3 DEF PlanInv
    <3>4. CASE i >= e.step
      <4>1. i \in e.step..Len(Stages) /\ i \notin Remaining(w)
        BY <2>0, <3>1, <3>4
      <4>2. s \in e.completed
        BY <3>2, <4>1 DEF Remaining
      <4> QED BY <2>0, <4>2 DEF PlanInv
    <3> QED BY <2>0, <3>3, <3>4
  <2> QED BY <2>0, <2>1 DEF PlanInv, Current
<1> QED BY <1>1, PlansHold, PTL

-----------------------------------------------------------------------------
(* The queue with a single worker.                                         *)

\* A row that the worker is about to claim is still queued: handlers put runs
\* into the queue, and only the worker takes them out.
ClaimedIsQueued ==
    \A w \in Workers : worker[w].pc = "claim" => row[worker[w].run].status = "queued"

Queued == {r \in Runs : row[r].status = "queued"}

\* A handler enqueues a run or leaves the queue alone.
LEMMA CallKeepsLedger ==
    ASSUME Inv, NEW c \in Calls,
           CallWrite(c) \/ \E r \in Runs, kind \in Requests : CallLoad(c, kind, r)
    PROVE  /\ Ledger!Next \/ UNCHANGED <<Queued, queuings, claims>>
           /\ UNCHANGED worker
           /\ \A r \in Runs : row[r].status = "queued" => row'[r].status = "queued"
<1>1. CASE CallWrite(c)
  <2> DEFINE r == call[c].run
             old == call[c].loaded
             new == CallEdit(call[c].kind, old)
  <2>1. /\ r \in Runs /\ old \in Row /\ row \in [Runs -> Row] /\ row[r] \in Row
        /\ row' = [row EXCEPT ![r] = Update(row[r], old, new)]
        /\ queuings' = IF new.status # old.status THEN [queuings EXCEPT ![r] = @ + 1] ELSE queuings
        /\ UNCHANGED <<worker, claims>>
    BY <1>1 DEF CallWrite, Inv, CallInv, CallState
  <2>2. new.status \in {old.status, "queued"}
    BY <2>1 DEF CallEdit, Row
  <2>3. Update(row[r], old, new).status = IF new.status # old.status THEN "queued" ELSE row[r].status
    BY <2>1, <2>2 DEF Update, Row
  <2>4. \A q \in Runs : row'[q].status =
           IF q = r /\ new.status # old.status THEN "queued" ELSE row[q].status
    BY <2>1, <2>3
  <2> HIDE DEF new
  <2>5. CASE new.status # old.status
    <3>1. PICK q \in Runs : q = r
      BY <2>1
    <3>2. Ledger!Enqueue(q)
      BY <2>1, <2>4, <2>5, <3>1 DEF Ledger!Enqueue
    <3> QED BY <2>1, <2>4, <3>2 DEF Ledger!Next
  <2>6. CASE new.status = old.status
    BY <2>1, <2>4, <2>6 DEF Queued
  <2> QED BY <2>1, <2>4, <2>5, <2>6
<1>2. CASE \E r \in Runs, kind \in Requests : CallLoad(c, kind, r)
  BY <1>2 DEF CallLoad, Queued
<1> QED BY <1>1, <1>2

\* A worker takes a run that it is about to claim from the queue, or withdraws
\* one by the end of an execution.
LEMMA WorkerKeepsLedger ==
    ASSUME Inv, ClaimedIsQueued, NEW w \in Workers, WorkerProgress(w) \/ Crash(w)
    PROVE  Ledger!Next
<1> DEFINE e == worker[w]
<1>0. /\ row \in [Runs -> Row] /\ WorkerInv(e) /\ e \in WorkerState
  BY DEF Inv, WorkerInv
<1>1. CASE ClaimCommit(w)
  <2> DEFINE new == [e.loaded EXCEPT !.status = "running", !.pipe = "running"]
  <2>1. /\ e.run \in Runs /\ e.loaded \in Row /\ e.loaded.status = "queued" /\ row[e.run] \in Row
        /\ row[e.run].status = "queued"
    BY <1>0, <1>1 DEF ClaimCommit, ClaimedIsQueued, WorkerInv, WorkerState
  <2>2. Update(row[e.run], e.loaded, new).status = "running"
    BY <2>1 DEF Update, Row
  <2>3. /\ row' = [row EXCEPT ![e.run] = Update(row[e.run], e.loaded, new)]
        /\ claims' = [claims EXCEPT ![e.run] = @ + 1] /\ UNCHANGED queuings
    BY <1>1 DEF ClaimCommit
  <2>4. \A q \in Runs : row'[q].status = IF q = e.run THEN "running" ELSE row[q].status
    BY <1>0, <2>1, <2>2, <2>3
  <2>5. PICK q \in Runs : q = e.run
    BY <2>1
  <2>6. Ledger!Take(q)
    BY <2>1, <2>3, <2>4, <2>5 DEF Ledger!Take
  <2> QED BY <2>6 DEF Ledger!Next
<1>2. CASE CommitRun(w) \/ FailRun(w)
  <2>1. /\ \A q \in Runs : row'[q].status \in {row[q].status, "succeeded", "failed"}
        /\ UNCHANGED <<queuings, claims>>
    <3>1. e.run \in Runs
      BY <1>0, <1>2 DEF WorkerInv, CommitRun, FailRun, Finished
    <3>2. row[e.run] \in Row
      BY <1>0, <3>1
    <3>3. PICK st \in {"succeeded", "failed"} : \E pipe :
            row' = [row EXCEPT ![e.run] = [row[e.run] EXCEPT !.status = st, !.pipe = pipe]]
      BY <1>2 DEF CommitRun, FailRun
    <3>4. PICK pipe : row' = [row EXCEPT ![e.run] = [row[e.run] EXCEPT !.status = st, !.pipe = pipe]]
      BY <3>3
    <3>5. UNCHANGED <<queuings, claims>>
      BY <1>2 DEF CommitRun, FailRun
    <3>6. [row[e.run] EXCEPT !.status = st, !.pipe = pipe].status = st
      BY <3>2 DEF Row
    <3>7. \A q \in Runs : row'[q] = IF q = e.run THEN [row[e.run] EXCEPT !.status = st, !.pipe = pipe] ELSE row[q]
      BY <1>0, <3>4
    <3> QED BY <3>3, <3>5, <3>6, <3>7
  <2> QED BY <2>1 DEF Ledger!Next, Ledger!Withdraw
<1>3. CASE UNCHANGED <<row, queuings, claims>>
  BY <1>3 DEF Ledger!Next, Ledger!Withdraw
<1>4. ClaimCommit(w) \/ CommitRun(w) \/ FailRun(w) \/ UNCHANGED <<row, queuings, claims>>
  BY DEF WorkerProgress, ClaimRead, LoadRun, StopForCancel, SkipDisabled, BeginStage, EnterBody,
         StageSucceeds, StageRaises, LeaveFailedStages, BeginAlwaysRun, AlwaysRunRaises,
         ExecutionRaises, Crash
<1> QED BY <1>1, <1>2, <1>3, <1>4

\* With one worker nobody else changes the row between its query and its claim.
LEMMA QueuedUntilClaimed ==
    ASSUME \A v, w \in Workers : v = w, Inv, ClaimedIsQueued, [Next]_vars
    PROVE  ClaimedIsQueued'
<1>1. CASE UNCHANGED vars
  BY <1>1 DEF vars, ClaimedIsQueued
<1>2. ASSUME NEW c \in Calls,
             CallWrite(c) \/ \E r \in Runs, kind \in Requests : CallLoad(c, kind, r)
      PROVE  ClaimedIsQueued'
  <2>1. \A w \in Workers : worker[w].pc = "claim" => worker[w].run \in Runs
    BY DEF Inv, WorkerInv
  <2> QED BY <1>2, <2>1, CallKeepsLedger DEF ClaimedIsQueued
<1>3. ASSUME NEW w \in Workers, NEW r \in Runs, ClaimRead(w, r)
      PROVE  ClaimedIsQueued'
  <2>1. worker'[w].run = r /\ row'[r].status = "queued"
    BY <1>3 DEF ClaimRead, Inv, WorkerState
  <2> QED BY <2>1 DEF ClaimedIsQueued
<1>4. ASSUME NEW w \in Workers, WorkerProgress(w) \/ Crash(w), \A r \in Runs : ~ClaimRead(w, r)
      PROVE  ClaimedIsQueued'
  <2>1. worker[w] \in WorkerState /\ worker \in [Workers -> WorkerState]
    BY DEF Inv
  <2>2. worker'[w].pc # "claim"
    <3> DEFINE e == worker[w]
    <3>0. ASSUME NEW new, worker' = [worker EXCEPT ![w] = new], new.pc # "claim"
          PROVE  worker'[w].pc # "claim"
      BY <2>1, <3>0
    <3>1. CASE ClaimCommit(w) \/ LoadRun(w)
      <4>1. \/ worker' = [worker EXCEPT ![w] = [e EXCEPT !.pc = "load"]]
            \/ worker' = [worker EXCEPT ![w] = [Idle EXCEPT !.pc = "next", !.run = e.run,
                                                  !.loaded = row[e.run], !.status = "running"]]
        BY <3>1 DEF ClaimCommit, LoadRun
      <4>2. [e EXCEPT !.pc = "load"].pc = "load"
        BY <2>1 DEF WorkerState
      <4>3. [Idle EXCEPT !.pc = "next", !.run = e.run,
                         !.loaded = row[e.run], !.status = "running"].pc = "next"
        BY DEF Idle
      <4> QED BY <3>0, <4>1, <4>2, <4>3
    <3>2. ASSUME NEW pc \in {"next", "rest"}, NEW i, Goes(w, pc, i)
          PROVE  worker'[w].pc # "claim"
      BY <2>1, <3>0, <3>2 DEF Goes, WorkerState
    <3>3. ASSUME NEW pc \in {"body", "again"}, NEW i, EnterBody(w, pc, i)
          PROVE  worker'[w].pc # "claim"
      BY <2>1, <3>0, <3>3 DEF EnterBody, WorkerState
    <3>4. CASE StopForCancel(w)
      <4>1. worker' = [worker EXCEPT ![w] = [e EXCEPT !.pc = "rest", !.step = 1, !.cancelled = TRUE]]
        BY <3>4 DEF StopForCancel
      <4> QED BY <2>1, <3>0, <4>1 DEF WorkerState
    <3>5. CASE StageSucceeds(w)
      <4> DEFINE pc == IF e.pc = "body" THEN "next" ELSE "rest"
                 asked == e.asked \/ AsksCleanup(w)
      <4>1. worker' = [worker EXCEPT ![w] =
               [e EXCEPT !.pc = pc, !.step = e.step + 1,
                         !.completed = e.completed \cup {Current(w)}, !.asked = asked]]
        BY <3>5 DEF StageSucceeds
      <4>2. pc # "claim"
        OBVIOUS
      <4> HIDE DEF pc, asked
      <4> QED BY <2>1, <4>1, <4>2 DEF WorkerState
    <3>9. CASE StageRaises(w)
      <4> DEFINE failed == e.failed \/ Current(w) \in AlwaysRun
      <4>1. \/ worker' = [worker EXCEPT ![w] = [e EXCEPT !.pc = "rest", !.step = 1, !.failed = TRUE]]
            \/ worker' = [worker EXCEPT ![w] =
                  [e EXCEPT !.pc = "next", !.step = e.step + 1, !.failed = failed]]
        BY <3>9 DEF StageRaises
      <4> HIDE DEF failed
      <4>2. [e EXCEPT !.pc = "rest", !.step = 1, !.failed = TRUE].pc # "claim"
        BY <2>1 DEF WorkerState
      <4>3. [e EXCEPT !.pc = "next", !.step = e.step + 1, !.failed = failed].pc # "claim"
        BY <2>1 DEF WorkerState
      <4> QED BY <2>1, <4>1, <4>2, <4>3
    <3>6. CASE CommitRun(w) \/ ExecutionRaises(w) \/ FailRun(w) \/ Crash(w)
      <4>1. \/ worker' = [worker EXCEPT ![w] = Idle]
            \/ \E pc \in {"crash", "dead"} :
                  worker' = [worker EXCEPT ![w] = [Idle EXCEPT !.pc = pc, !.run = e.run]]
        BY <3>6 DEF CommitRun, ExecutionRaises, FailRun, Crash
      <4>2. Idle.pc # "claim" /\ \A pc : [Idle EXCEPT !.pc = pc, !.run = e.run].pc = pc
        BY DEF Idle
      <4> QED BY <3>0, <4>1, <4>2
    <3>7. CASE SkipDisabled(w) \/ LeaveFailedStages(w) \/ AlwaysRunRaises(w)
      BY <3>2, <3>7 DEF SkipDisabled, LeaveFailedStages, AlwaysRunRaises
    <3>8. CASE BeginStage(w) \/ BeginAlwaysRun(w)
      BY <3>3, <3>8 DEF BeginStage, BeginAlwaysRun
    <3> QED BY <1>4, <3>1, <3>4, <3>5, <3>6, <3>7, <3>8, <3>9 DEF WorkerProgress
  <2> QED BY <2>2 DEF ClaimedIsQueued
<1> QED BY <1>1, <1>2, <1>3, <1>4 DEF Next

\* A single worker, for any runs, requests and stages, crashes included: every
\* queueing is claimed at most once or withdrawn, although the claim takes no lock.
THEOREM SingleConsumerLedger ==
    ASSUME \A v, w \in Workers : v = w
    PROVE  Spec => QueueKeepsLedger
<1>1. Init => Ledger!Init /\ ClaimedIsQueued
  BY DEF Init, Ledger!Init, ClaimedIsQueued, Idle, NewRow
<1>2. ASSUME Inv, ClaimedIsQueued, [Next]_vars
      PROVE  [Ledger!Next]_(Ledger!ledgerVars) /\ ClaimedIsQueued'
  <2>1. Ledger!Next \/ UNCHANGED <<Queued, queuings, claims>>
    BY <1>2, CallKeepsLedger, WorkerKeepsLedger DEF Next, vars, Queued
  <2> QED BY <1>2, <2>1, QueuedUntilClaimed DEF Ledger!ledgerVars, Queued
<1> QED BY <1>1, <1>2, InitInv, NextInv, PTL DEF Spec, QueueKeepsLedger, Ledger!Spec
=============================================================================
