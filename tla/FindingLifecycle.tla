-------------------------- MODULE FindingLifecycle --------------------------
(***************************************************************************)
(* The findings of one audit run of the platform service: where they come  *)
(* from (agent output, tools, whiteboard cards, the API), how duplicates   *)
(* are skipped, and what the stages of the pipeline and the judgement do   *)
(* with them: triage, validators, feedback loop, PoC writers and verifiers *)
(* (services/agent_output.py, finding_dedupe.py, pipeline_executor.py,     *)
(* runtime/orchestrator.py, api/routes.py under services/platform/app).    *)
(*                                                                         *)
(* A finding is a row: its position in findings is its id.  A transaction  *)
(* reads in one step and writes in another: what a call has read may be    *)
(* old when it commits.                                                    *)
(***************************************************************************)
EXTENDS Naturals, Sequences, FiniteSets, FiniteSetsExt, Functions

CONSTANTS
    CardIdentity,   \* the cards in the order in which agents post them: the identity (title,
                    \* source, file, line, rule) of each
    Value,          \* Value[k]: the decisions that the score of card k may give, as its text changes
    Outputs,        \* outputs of agents and of tools, ingested once each
    Reported,       \* statuses that outputs give to their findings
    ReportedKinds,  \* kinds of evidence that outputs attach to them
    BatchOutputs,   \* outputs of the code auditors of the feedback rounds
    Items,          \* Items[o]: the identities of the findings in an output, in order
    Posted,         \* identities of findings that a user posts: never deduplicated
    Listers,        \* requests that list findings
    Rounds,         \* validator_rounds
    MaxParallel,    \* max_parallel_validators, and the same bound of PoC agents
    FeedbackRounds, \* max_feedback_rounds
    MaxVerdicts,    \* bound: findings that the judger agents decide on in one judgement
    Configs,        \* sets of enabled stages and of the requests that users may make
    None

Stages == {"swarm", "validation", "feedback", "poc", "verify"}
Requests == {"list", "post", "judge", "cancel", "retriage"}

\* "other": a word of an agent that no stage looks for.
Statuses == {"candidate", "validating", "confirmed", "false_positive", "needs_review", "other"}
Verdicts == {"confirmed", "false_positive", "needs_review"}
AttemptEnds == {"completed", "failed", "cancelled"}

\* Who triages the cards: the pipeline, and the request to run the whiteboard's tasks.
Triagers == {"run", "request"}

Cards == DOMAIN CardIdentity
Decisions == UNION Range(Value)
Identities == Range(CardIdentity) \cup Posted \cup UNION {Range(Items[o]) : o \in Outputs}
Syncers == Listers \cup {"run", "judge"}
Callers == Outputs \cup Syncers

ASSUME FindingAssumption ==
    /\ CardIdentity \in Seq(Range(CardIdentity)) /\ DOMAIN Value = Cards /\ None \notin Decisions
    /\ \A o \in Outputs : Items[o] \in Seq(Range(Items[o]))
    /\ BatchOutputs \subseteq Outputs /\ Reported \subseteq Statuses /\ Outputs \cap Syncers = {}
    /\ Callers \cap {None, "writer", "verifier", "validator"} = {}
    /\ Rounds \in Nat \ {0} /\ MaxParallel \in Nat \ {0} /\ FeedbackRounds \in Nat
    /\ Configs \subseteq SUBSET (Stages \cup Requests)

VARIABLES
    findings,    \* rows of findings: identity, status, by (the caller), seen (the number of
                 \* rows when the caller looked for duplicates)
    posted,      \* the number of cards posted so far
    link,        \* link[k]: finding_id of card k, 0 when it has none
    triage,      \* triage[k][w]: the row that w made in finding_triage_decisions for card k
    plan,        \* plan[w]: control point of a triage and what it is about to write
    sent,        \* history: findings that a triage has sent to a deep dive
    tx,          \* tx[c]: control point and locals of a call that makes findings
    attempts,    \* attempts[<<f, n>>]: the row of validation_attempts and its task
    evidence,    \* <<finding, kind, by>>
    run,         \* the pipeline's stage and locals
    work,        \* work[f]: the agent of a finding in the PoC stages
    judge,       \* control point and locals of judge_audit_run
    cancel,      \* whether the cancellation was requested
    late         \* history: validator agents started after that request

triageVars == <<triage, plan, sent>>
vars == <<findings, posted, link, triageVars, tx, attempts, evidence, run, work, judge, cancel, late>>

Points == {"triage", "triaging", "swarm", "list", "listed", "mark", "validate", "feedback", "round", "batch",
           "pocList", "pocListed", "pocFilter", "poc", "verifyList", "verifySelect", "verify", "end"}
TaskPoints == {"record", "check", "acquire", "recheck", "start", "agent", "dropped", "cancelled",
               "error", "done", "ended"}

TypeOK ==
    /\ \A i \in DOMAIN findings :
         findings[i] \in [identity : Identities, status : Statuses, by : Callers \cup {None}, seen : Nat]
    /\ posted \in 0..Len(CardIdentity) /\ link \in [Cards -> 0..Len(findings)]
    /\ triage \in [Cards -> [Triagers -> [decision : Decisions \cup {None}, finding : 0..Len(findings)]]]
    /\ \A w \in Triagers : plan[w].pc \in {"idle", "commit"} /\ DOMAIN plan[w].rows \subseteq Cards
    /\ sent \subseteq DOMAIN findings
    /\ \A c \in Callers : tx[c].pc \in {"idle", "commit", "done"}
    /\ \A a \in DOMAIN attempts :
         /\ a[1] \in DOMAIN findings /\ a[2] \in 1..Rounds
         /\ attempts[a] \in [status : AttemptEnds \cup {None, "queued", "running"},
                             pc : TaskPoints, agent : {None, "completed", "failed"}]
         /\ attempts[a].pc = "ended" => attempts[a].status \in AttemptEnds
    /\ \A e \in evidence : e[1] \in DOMAIN findings
    /\ run.stage \in Points /\ run.on \in Configs /\ run.rounds \in Nat
    /\ \A f \in DOMAIN work : f \in DOMAIN findings /\ work[f] \in {"wait", "agent", "ended"}
    /\ judge.pc \in {"idle", "list", "agents", "apply", "commit", "done"}
    /\ cancel \in BOOLEAN /\ late \in Nat

Init ==
    /\ findings = <<>> /\ posted = 0 /\ link = [k \in Cards |-> 0]
    /\ triage = [k \in Cards |-> [w \in Triagers |-> [decision |-> None, finding |-> 0]]]
    /\ plan = [w \in Triagers |-> [pc |-> "idle", rows |-> <<>>]] /\ sent = {}
    /\ tx = [c \in Callers |-> [pc |-> "idle", seen |-> 0, new |-> <<>>, cards |-> {}]]
    /\ attempts = <<>> /\ evidence = {} /\ work = <<>>
    /\ \E on \in Configs : run = [stage |-> "triage", on |-> on, listed |-> {}, rounds |-> 0,
                                  batch |-> None, task |-> None]
    /\ judge = [pc |-> "idle", verdict |-> <<>>, update |-> <<>>]
    /\ cancel = FALSE /\ late = 0

-----------------------------------------------------------------------------
(* Findings and their duplicates *)

Enabled(what) == what \in run.on

\* find_existing_finding: the row with this identity that the session sees.
Existing(i) == {f \in DOMAIN findings : findings[f].identity = i}
IsKnown(i) == Existing(i) # {}

\* Mutant: the session does not see what it added itself.
NewOfUnflushed(items, at) ==
    LET new[n \in 0..Len(items)] ==
          IF n = 0 THEN <<>>
          ELSE IF n \notin at \/ IsKnown(items[n]) THEN new[n - 1]
          ELSE Append(new[n - 1], items[n])
    IN new[Len(items)]

\* Of the items at these positions of a payload: the identities that are neither in
\* the database nor, by the autoflush of the session, earlier in the payload itself.
NewOf(items, at) ==
    LET new[n \in 0..Len(items)] ==
          IF n = 0 THEN <<>>
          ELSE IF n \notin at \/ IsKnown(items[n]) \/ items[n] \in Range(new[n - 1]) THEN new[n - 1]
          ELSE Append(new[n - 1], items[n])
    IN new[Len(items)]

Rows(c, new, status, seen) ==
    [n \in DOMAIN new |-> [identity |-> new[n], status |-> status[n], by |-> c, seen |-> seen]]
All(status, new) == [n \in DOMAIN new |-> status]

\* ingest and _ingest_tool_findings look for duplicates; the items that are not
\* well formed are skipped and not among the items here.
IngestLookup(o) ==
    /\ tx[o].pc = "idle" /\ (o \in BatchOutputs => run.batch = o /\ run.task = "running")
    /\ tx' = [tx EXCEPT ![o] = [pc |-> "commit", seen |-> Len(findings), new |-> NewOf(Items[o], DOMAIN Items[o]),
                             cards |-> {}]]
    /\ UNCHANGED <<findings, posted, link, triageVars, attempts, evidence, run, work, judge, cancel, late>>

\* The commit: every finding with its evidence.  The output gives it its status, and an
\* agent's output names the kinds of the evidence too.
IngestCommit(o) ==
    /\ tx[o].pc = "commit"
    /\ \E status \in [DOMAIN tx[o].new -> Reported] :
         findings' = findings \o Rows(o, tx[o].new, status, tx[o].seen)
    /\ \E attached \in SUBSET ((DOMAIN tx[o].new) \X ReportedKinds) :
         evidence' = evidence \cup {<<Len(findings) + a[1], a[2], o>> : a \in attached}
    /\ tx' = [tx EXCEPT ![o].pc = "done"]
    /\ UNCHANGED <<posted, link, triageVars, attempts, run, work, judge, cancel, late>>

\* create_finding, and the findings of run_sca and of Semgrep in the platform:
\* a row without a look at the others.
CreateFinding(i) ==
    /\ Enabled("post") /\ \A f \in Existing(i) : findings[f].by # None
    /\ findings' = findings \o Rows(None, <<i>>, <<"candidate">>, Len(findings))
    /\ UNCHANGED <<posted, link, triageVars, tx, attempts, evidence, run, work, judge, cancel, late>>

PostCard ==
    /\ posted < Len(CardIdentity) /\ posted' = posted + 1
    /\ UNCHANGED <<findings, link, triageVars, tx, attempts, evidence, run, work, judge, cancel, late>>

\* _sync_whiteboard_candidate_findings, which every list of findings begins with:
\* the cards without a finding, and the findings to make for them.
Sync(c) ==
    LET cards == {k \in 1..posted : link[k] = 0}
    IN tx' = [tx EXCEPT ![c] = [pc |-> "commit", seen |-> Len(findings), cards |-> cards,
                                new |-> NewOf(CardIdentity, cards)]]

\* The commit links every card that had no finding to the row that the lookup
\* found or to the one made for it.
SyncCommit(c) ==
    LET t == tx[c]
        all == findings \o Rows(c, t.new, All("candidate", t.new), t.seen)
        Target(k) == CHOOSE f \in DOMAIN all :
                       /\ all[f].identity = CardIdentity[k]
                       /\ IF CardIdentity[k] \in Range(t.new) THEN f > Len(findings)
                          ELSE \A g \in DOMAIN all : all[g].identity = CardIdentity[k] => f <= g
    IN /\ t.pc = "commit"
       /\ findings' = all
       /\ link' = [k \in Cards |-> IF k \in t.cards THEN Target(k) ELSE link[k]]
       /\ evidence' = evidence \cup {<<Len(findings) + n, "whiteboard-card", c>> : n \in DOMAIN t.new}
       /\ tx' = [tx EXCEPT ![c].pc = "done"]
       /\ UNCHANGED <<posted, triageVars, attempts, run, work, judge, cancel, late>>

\* audit_run_pipeline_status, as one request that lists the findings
ListFindings(c) ==
    /\ Enabled("list") /\ tx[c].pc = "idle" /\ Sync(c)
    /\ UNCHANGED <<findings, posted, link, triageVars, attempts, evidence, run, work, judge, cancel, late>>

RequestCancel ==
    /\ Enabled("cancel") /\ ~cancel /\ cancel' = TRUE
    /\ UNCHANGED <<findings, posted, link, triageVars, tx, attempts, evidence, run, work, judge, late>>

-----------------------------------------------------------------------------
(* The pipeline: triage and whiteboard swarm *)

At(stage) == run.stage = stage

\* raise_if_cancelled after a stage, and then the next one that is enabled.
Goto(stage) ==
    LET verify == IF Enabled("verify") THEN "verifyList" ELSE "end"
        poc == IF Enabled("poc") THEN "pocList" ELSE verify
    IN [run EXCEPT !.stage = IF cancel THEN "end"
                             ELSE CASE stage = "poc" -> poc [] stage = "verify" -> verify [] OTHER -> stage]

\* _triage_whiteboard_swarm_candidates: one decision for each card, with the finding that
\* the card has at this moment.  It goes to the row that the card has, to one of them if
\* two triages made one each, or else to a new one.
TriageLookup(w) ==
    LET Made(k) == {v \in Triagers : triage[k][v].decision # None}
    IN \E decision \in [1..posted -> Decisions], at \in [1..posted -> Triagers] :
         /\ \A k \in 1..posted : /\ decision[k] \in Value[k]
                                 /\ at[k] \in IF Made(k) = {} THEN {w} ELSE Made(k)
         /\ plan' = [plan EXCEPT ![w] =
              [pc |-> "commit",
               rows |-> [k \in 1..posted |-> [at |-> at[k], decision |-> decision[k], finding |-> link[k]]]]]
         /\ UNCHANGED <<triage, sent>>

TriageCommit(w) ==
    LET rows == plan[w].rows
    IN /\ triage' = [k \in Cards |->
            IF k \in DOMAIN rows
              THEN [triage[k] EXCEPT ![rows[k].at] = [decision |-> rows[k].decision, finding |-> rows[k].finding]]
              ELSE triage[k]]
       /\ sent' = sent \cup ({rows[k].finding : k \in {l \in DOMAIN rows : rows[l].decision = "deep_dive"}} \ {0})
       /\ plan' = [plan EXCEPT ![w] = [pc |-> "idle", rows |-> <<>>]]

\* The stage triages the cards, makes the task row of the controller and starts it.
Triage ==
    /\ At("triage")
    /\ IF Enabled("swarm")
       THEN TriageLookup("run") /\ run' = [run EXCEPT !.stage = "triaging"]
       ELSE UNCHANGED triageVars /\ run' = Goto("list")
    /\ UNCHANGED <<findings, posted, link, tx, attempts, evidence, work, judge, cancel, late>>

Triaged ==
    /\ At("triaging") /\ TriageCommit("run") /\ run' = [run EXCEPT !.stage = "swarm", !.task = "running"]
    /\ UNCHANGED <<findings, posted, link, tx, attempts, evidence, work, judge, cancel, late>>

\* run_whiteboard_tasks: a request does the same at any time; nothing looks at the task
\* row of its controller.
Retriage ==
    /\ Enabled("retriage") /\ Enabled("swarm")
    /\ IF plan["request"].pc = "idle" THEN TriageLookup("request") ELSE TriageCommit("request")
    /\ UNCHANGED <<findings, posted, link, tx, attempts, evidence, run, work, judge, cancel, late>>

\* The controller agent ends, or its start raises.
SwarmEnds ==
    /\ At("swarm")
    /\ \E status \in {"completed", "failed"} : run' = [Goto("list") EXCEPT !.task = status]
    /\ UNCHANGED <<findings, posted, link, triageVars, tx, attempts, evidence, work, judge, cancel, late>>

\* The list of findings is a sync in one session and a select in another.
RunSync(from, to) ==
    /\ At(from) /\ Sync("run") /\ run' = [run EXCEPT !.stage = to]
    /\ UNCHANGED <<findings, posted, link, triageVars, attempts, evidence, work, judge, cancel, late>>

-----------------------------------------------------------------------------
(* scale_validators and the attempts *)

\* The findings that the select returns; without a validation stage they have no use.
Select ==
    /\ At("listed") /\ tx["run"].pc = "done"
    /\ run' = [run EXCEPT !.listed = DOMAIN findings,
                          !.stage = IF Enabled("validation") THEN "mark" ELSE "feedback"]
    /\ UNCHANGED <<findings, posted, link, triageVars, tx, attempts, evidence, work, judge, cancel, late>>

\* _mark_findings_status, and one task for each finding and round.
Mark ==
    /\ At("mark") /\ run' = [run EXCEPT !.stage = "validate"]
    /\ findings' = [f \in DOMAIN findings |->
                      [findings[f] EXCEPT !.status = IF f \in run.listed THEN "validating" ELSE @]]
    /\ attempts' = [a \in run.listed \X (1..Rounds) |-> [status |-> None, pc |-> "record", agent |-> None]]
    /\ UNCHANGED <<posted, link, triageVars, tx, evidence, work, judge, cancel, late>>

Holding == {a \in DOMAIN attempts :
              attempts[a].pc \in {"recheck", "start", "agent", "cancelled", "error", "done"}}

Task(a, from, status, to) ==
    /\ attempts[a].pc = from
    /\ attempts' = [attempts EXCEPT ![a].status = status, ![a].pc = to]
    /\ UNCHANGED <<findings, posted, link, triageVars, tx, evidence, run, work, judge, cancel>>

Record(a) == Task(a, "record", "queued", "check") /\ UNCHANGED late

\* The cancellation is looked at before the semaphore and, with it, once more.
CheckBefore(a) ==
    /\ IF cancel THEN Task(a, "check", "cancelled", "dropped") ELSE Task(a, "check", "queued", "acquire")
    /\ UNCHANGED late

Acquire(a) ==
    /\ Cardinality(Holding) < MaxParallel
    /\ Task(a, "acquire", "queued", "recheck") /\ UNCHANGED late

\* Mutant: no look at the cancellation with the semaphore.
CheckAfterNever(a) == Task(a, "recheck", "queued", "start") /\ UNCHANGED late

CheckAfter(a) ==
    /\ IF cancel THEN Task(a, "recheck", "cancelled", "cancelled") ELSE Task(a, "recheck", "queued", "start")
    /\ UNCHANGED late

Start(a) == Task(a, "start", "running", "agent") /\ late' = IF cancel THEN late + 1 ELSE late

\* start_agent_run returns, for a completed and for a failed session.
AgentReturns(a) ==
    /\ attempts[a].pc = "agent"
    /\ \E outcome \in {"completed", "failed"} :
         attempts' = [attempts EXCEPT ![a] = [status |-> "completed", pc |-> "done", agent |-> outcome]]
    /\ UNCHANGED <<findings, posted, link, triageVars, tx, evidence, run, work, judge, cancel, late>>

\* Mutant: the attempt is not updated.
AgentRaisesUnrecorded(a) == Task(a, "agent", "running", "error") /\ UNCHANGED late

AgentRaises(a) == Task(a, "agent", "failed", "error") /\ UNCHANGED late

EvidenceOf == [dropped |-> "validator-cancelled", cancelled |-> "validator-cancelled",
               error |-> "validator-error", done |-> "validator-agent-run"]

\* Mutant: a task that is cancelled at its semaphore writes nothing and stays.
EndAttemptUnlessCancelled(a) ==
    /\ attempts[a].pc \in DOMAIN EvidenceOf \ {"cancelled"}
    /\ evidence' = evidence \cup {<<a[1], EvidenceOf[attempts[a].pc], "validator">>}
    /\ attempts' = [attempts EXCEPT ![a].pc = "ended"]
    /\ UNCHANGED <<findings, posted, link, triageVars, tx, run, work, judge, cancel, late>>

\* The evidence, after which the task gives the semaphore back.
EndAttempt(a) ==
    /\ attempts[a].pc \in DOMAIN EvidenceOf
    /\ evidence' = evidence \cup {<<a[1], EvidenceOf[attempts[a].pc], "validator">>}
    /\ attempts' = [attempts EXCEPT ![a].pc = "ended"]
    /\ UNCHANGED <<findings, posted, link, triageVars, tx, run, work, judge, cancel, late>>

Collect ==
    /\ At("validate") /\ \A a \in DOMAIN attempts : attempts[a].pc = "ended"
    /\ run' = Goto("feedback")
    /\ UNCHANGED <<findings, posted, link, triageVars, tx, attempts, evidence, work, judge, cancel, late>>

-----------------------------------------------------------------------------
(* The feedback loop *)

\* max_feedback_rounds or 2
MaxRounds == IF FeedbackRounds = 0 THEN 2 ELSE FeedbackRounds

\* The counts that the loop reads as rejections are those of failed attempts: the
\* counts of scale_validators hold no confirmed and no needs_review.
Feedback ==
    /\ At("feedback")
    /\ run' = IF Enabled("feedback") /\ \E a \in DOMAIN attempts : attempts[a].status = "failed"
              THEN [run EXCEPT !.stage = "round"] ELSE Goto("poc")
    /\ UNCHANGED <<findings, posted, link, triageVars, tx, attempts, evidence, work, judge, cancel, late>>

\* A round of _run_code_batch_analysis with one task: its row is made anew, and its
\* agent writes one output.  The plan is empty, or the batch raises: no more rounds.
Round ==
    /\ At("round")
    /\ \/ \E o \in BatchOutputs :
            /\ tx[o].pc = "idle"
            /\ run' = [run EXCEPT !.stage = "batch", !.rounds = @ + 1, !.batch = o, !.task = "created"]
       \/ run' = [Goto("poc") EXCEPT !.rounds = @ + 1, !.batch = None]
    /\ UNCHANGED <<findings, posted, link, triageVars, tx, attempts, evidence, work, judge, cancel, late>>

BatchTask(from, to) ==
    /\ At("batch") /\ run.task = from /\ run' = [run EXCEPT !.task = to]
    /\ UNCHANGED <<findings, posted, link, triageVars, tx, attempts, evidence, work, judge, cancel, late>>

BatchStarts == BatchTask("created", "running")

\* start_agent_run raises before the agent's output is ingested, or after: the result
\* of the task has no count of findings.
BatchRaises == At("batch") /\ tx[run.batch].pc # "commit" /\ BatchTask("running", "raised")

\* The agent's session ends after its output was ingested.
BatchEnds == At("batch") /\ tx[run.batch].pc = "done" /\ \E status \in {"completed", "failed"} : BatchTask("running", status)

\* Mutant: the loop goes on after a round that found nothing.
RoundEndsOn ==
    /\ At("batch") /\ run.task \in {"completed", "failed", "raised"}
    /\ run' = IF run.rounds < MaxRounds THEN [run EXCEPT !.stage = "round"] ELSE Goto("poc")
    /\ UNCHANGED <<findings, posted, link, triageVars, tx, attempts, evidence, work, judge, cancel, late>>

\* findings_created is what the agent's output added, if its task has a result.
RoundEnds ==
    /\ At("batch") /\ run.task \in {"completed", "failed", "raised"}
    /\ run' = IF run.rounds < MaxRounds /\ run.task # "raised" /\ tx[run.batch].new # <<>>
              THEN [run EXCEPT !.stage = "round"] ELSE Goto("poc")
    /\ UNCHANGED <<findings, posted, link, triageVars, tx, attempts, evidence, work, judge, cancel, late>>

-----------------------------------------------------------------------------
(* PoC writers and verifiers *)

\* _poc_candidate_findings
PocCandidates ==
    LET With(status) == {f \in DOMAIN findings : findings[f].status = status}
    IN IF With("confirmed") # {} THEN With("confirmed") ELSE With("needs_review")

PocSelect ==
    /\ At("pocListed") /\ tx["run"].pc = "done"
    /\ run' = [run EXCEPT !.stage = "pocFilter", !.listed = PocCandidates]
    /\ UNCHANGED <<findings, posted, link, triageVars, tx, attempts, evidence, work, judge, cancel, late>>

\* _filter_poc_allowed_findings, by the finding that a decision row holds.
PocAllowed(f) == \E k \in Cards, w \in Triagers : triage[k][w] = [decision |-> "deep_dive", finding |-> f]

\* Mutant: the triage is not asked.
PocSelectedUntriaged == run.listed

PocSelected == {f \in run.listed : PocAllowed(f)}

PocFilter ==
    /\ At("pocFilter") /\ run' = [run EXCEPT !.stage = "poc"] /\ work' = [f \in PocSelected |-> "wait"]
    /\ UNCHANGED <<findings, posted, link, triageVars, tx, attempts, evidence, judge, cancel, late>>

\* The findings with a poc-artifact or a poc-plan, whoever it is from.
PocKinds == {"poc-artifact", "poc-plan"}
VerifySelected == {f \in DOMAIN findings : \E e \in evidence : e[1] = f /\ e[2] \in PocKinds}

VerifySelect ==
    /\ At("verifySelect") /\ tx["run"].pc = "done"
    /\ run' = [run EXCEPT !.stage = "verify"] /\ work' = [f \in VerifySelected |-> "wait"]
    /\ UNCHANGED <<findings, posted, link, triageVars, tx, attempts, evidence, judge, cancel, late>>

WorkStarts(stage, f) ==
    /\ At(stage) /\ work[f] = "wait" /\ Cardinality({g \in DOMAIN work : work[g] = "agent"}) < MaxParallel
    /\ work' = [work EXCEPT ![f] = "agent"]
    /\ UNCHANGED <<findings, posted, link, triageVars, tx, attempts, evidence, run, judge, cancel, late>>

\* The agent's structured list is kept also when its session failed; without a
\* list the platform registers a placeholder.  Nothing is kept when the start
\* raised or when every item names another finding.
WorkEnds(stage, f, kind, by) ==
    /\ At(stage) /\ work[f] = "agent" /\ work' = [work EXCEPT ![f] = "ended"]
    /\ evidence' \in {evidence, evidence \cup {<<f, kind, by>>}}
    /\ UNCHANGED <<findings, posted, link, triageVars, tx, attempts, run, judge, cancel, late>>

StageEnds(stage, next) ==
    /\ At(stage) /\ \A f \in DOMAIN work : work[f] = "ended"
    /\ run' = Goto(next) /\ work' = <<>>
    /\ UNCHANGED <<findings, posted, link, triageVars, tx, attempts, evidence, judge, cancel, late>>

WriterStarts(f) == WorkStarts("poc", f)
WriterEnds(f) == WorkEnds("poc", f, "poc-artifact", "writer")
PocEnds == StageEnds("poc", "verify")
VerifierStarts(f) == WorkStarts("verify", f)
VerifierEnds(f) == WorkEnds("verify", f, "poc-verification", "verifier")
VerifyEnds == StageEnds("verify", "end")

-----------------------------------------------------------------------------
(* judge_audit_run *)

JudgeSync ==
    /\ Enabled("judge") /\ judge.pc = "idle" /\ judge' = [judge EXCEPT !.pc = "list"] /\ Sync("judge")
    /\ UNCHANGED <<findings, posted, link, triageVars, attempts, evidence, run, work, cancel, late>>

\* _extract_judger_decisions: what an answer with JSON in it can hold.
DecisionSets == UNION {[decided -> Verdicts] : decided \in kSubset(MaxVerdicts, DOMAIN findings) \cup {{}}}

\* The judger agents: each may decide on any finding; a decision with another
\* status is dropped.
JudgeDecide ==
    /\ judge.pc = "list" /\ tx["judge"].pc = "done"
    /\ \E verdict \in DecisionSets :
         judge' = [judge EXCEPT !.pc = "apply", !.verdict = verdict]
    /\ UNCHANGED <<findings, posted, link, triageVars, tx, attempts, evidence, run, work, cancel, late>>

\* The rule for a finding without a verdict.
Fallback(f) ==
    LET statuses == {attempts[a].status : a \in {b \in DOMAIN attempts : b[1] = f}}
    IN IF "completed" \in statuses THEN "confirmed"
       ELSE IF "failed" \in statuses \/ findings[f].status \in {"candidate", "validating"} THEN "needs_review"
       ELSE findings[f].status

\* _apply_judgement reads all findings and their attempts ...
JudgeApply ==
    /\ judge.pc = "apply"
    /\ LET New(f) == IF f \in DOMAIN judge.verdict THEN judge.verdict[f]
                     ELSE Fallback(f)
           changed == {f \in DOMAIN findings : New(f) # findings[f].status}
       IN judge' = [judge EXCEPT !.pc = "commit", !.verdict = <<>>, !.update = [f \in changed |-> New(f)]]
    /\ UNCHANGED <<findings, posted, link, triageVars, tx, attempts, evidence, run, work, cancel, late>>

\* ... and the commit writes the rows whose status it changed.
JudgeCommit ==
    /\ judge.pc = "commit" /\ judge' = [judge EXCEPT !.pc = "done", !.update = <<>>]
    /\ findings' = [f \in DOMAIN findings |->
                      [findings[f] EXCEPT !.status = IF f \in DOMAIN judge.update THEN judge.update[f] ELSE @]]
    /\ UNCHANGED <<posted, link, triageVars, tx, attempts, evidence, run, work, cancel, late>>

-----------------------------------------------------------------------------
Pipeline ==
    \/ Triage \/ Triaged \/ SwarmEnds \/ RunSync("list", "listed") \/ Select \/ Mark \/ Collect
    \/ Feedback \/ Round \/ BatchStarts \/ BatchRaises \/ BatchEnds \/ RoundEnds
    \/ RunSync("pocList", "pocListed") \/ PocSelect \/ PocFilter
    \/ RunSync("verifyList", "verifySelect") \/ VerifySelect \/ PocEnds \/ VerifyEnds

AttemptStep(a) ==
    \/ Record(a) \/ CheckBefore(a) \/ Acquire(a) \/ CheckAfter(a) \/ Start(a)
    \/ AgentReturns(a) \/ AgentRaises(a) \/ EndAttempt(a)

WorkStep(f) == WriterStarts(f) \/ WriterEnds(f) \/ VerifierStarts(f) \/ VerifierEnds(f)

Call(c) ==
    IF c \in Outputs THEN IngestLookup(c) \/ IngestCommit(c)
    ELSE SyncCommit(c) \/ (c \in Listers /\ ListFindings(c))

Judge == JudgeSync \/ JudgeDecide \/ JudgeApply \/ JudgeCommit

Next ==
    \/ Pipeline \/ Judge \/ Retriage \/ PostCard \/ RequestCancel
    \/ \E i \in Posted : CreateFinding(i)
    \/ \E c \in Callers : Call(c)
    \/ \E a \in DOMAIN attempts : AttemptStep(a)
    \/ \E f \in DOMAIN work : WorkStep(f)

\* The tasks of the event loop go on, and agents answer.
Fairness ==
    /\ WF_vars(Pipeline) /\ \A c \in Callers \ Listers : WF_vars(Call(c))
    /\ WF_vars(\E a \in DOMAIN attempts : AttemptStep(a))
    /\ WF_vars(\E f \in DOMAIN work : WorkStep(f))

Spec == Init /\ [][Next]_vars
FairSpec == Spec /\ Fairness

-----------------------------------------------------------------------------
(* Properties *)

\* Two findings with one identity: the later one was made without a look at the
\* others, or by a call whose look came before the commit of the earlier one; one
\* call never makes both (agent_output.py:58, routes.py:3047).
DuplicatesOverlap ==
    \A f, g \in DOMAIN findings :
        f < g /\ findings[f].identity = findings[g].identity /\ findings[g].by # None
          => findings[f].by # findings[g].by /\ findings[g].seen < f

\* After the request to cancel at most the validators that hold the semaphore can
\* still start an agent, however many attempts wait (orchestrator.py:1382).
LateAgentsBounded == late <= MaxParallel

\* A finding has a PoC of the platform's writer only if a triage had sent it to a deep
\* dive, even if a later one took that back; and a verification of the platform's verifier
\* only if it has that PoC, or if the very agent that reported the finding attached
\* evidence of that kind to it (routes.py:4681, 4779, agent_output.py:310).
PocChain ==
    \A e \in evidence :
        /\ e[3] = "writer" => e[1] \in sent
        /\ e[3] = "verifier" =>
             \E d \in evidence : /\ d[1] = e[1] /\ d[2] \in PocKinds
                                /\ d[3] \in {"writer", findings[e[1]].by}

\* The feedback loop has no more rounds than its maximum, where 0 stands for 2, and
\* every round but the last one found something (pipeline_executor.py:449, 493).
FeedbackPays ==
    /\ run.rounds <= MaxRounds
    /\ Cardinality({o \in BatchOutputs : \E f \in DOMAIN findings : findings[f].by = o}) + 1 >= run.rounds

\* The pipeline ends, whatever is cancelled or fails.
RunEnds == <>(run.stage = "end")

\* The evidence "Validator round n completed with AgentRun" (orchestrator.py:1592) is
\* about an agent run that completed.
CompletedAttemptHasAgent ==
    \A a \in DOMAIN attempts : attempts[a].status = "completed" => attempts[a].agent = "completed"
=============================================================================
