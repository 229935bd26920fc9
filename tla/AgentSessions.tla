--------------------------- MODULE AgentSessions ---------------------------
(***************************************************************************)
(* The runtime server of a Kimi agent                                      *)
(* (services/agents/kimi-code-agent/kimi_acp_runtime_server.py with the    *)
(* client of acp_runner.py) and the transcript the platform keeps.         *)
(*                                                                         *)
(* Sessions take turns on a lock and share one agent process and one       *)
(* client.  Each update of the agent is handled by a task of its own,      *)
(* which posts what the client has recorded and not yet posted; the tasks  *)
(* and the session interleave at the post, after which the last one to     *)
(* return moves the client's index and its sequence number.                *)
(***************************************************************************)
EXTENDS Naturals, Sequences, FiniteSets

CONSTANTS
    Sessions,       \* the agent runs, numbers from 1, each with one session
    MaxEvents,      \* bound: updates of the agent
    MaxFaults       \* bound: posts that fail, agents that die, callers that give up

VARIABLES
    caller,       \* caller[c]: run_agent_session of the platform
    at,           \* at[c]: control point of run_session
    queue,        \* the sessions that have the lock or wait for it, first come first
    agent,        \* agent process: "none", "up" or "dead"
    client,       \* body: its session; flushed and seq: what has been posted
    events,       \* what the client recorded: session, and whether its prompt had ended
    posts,        \* posts in progress: owner, run, events with their numbers
    overlap,      \* whether two posts have been in progress at once
    rows,         \* rows of AgentTranscriptEvent: run, number and event (0 for runtime_error)
    history       \* history variables

vars == <<caller, at, queue, agent, client, events, posts, overlap, rows, history>>

TypeOK ==
    /\ \A c \in Sessions :
         /\ caller[c] \in {"idle", "waiting", "completed", "failed", "gave up"}
         /\ at[c] \in {"idle", "lock", "ensure", "session", "opening", "prompt", "closing", "failing",
                       "error", "done"}
         /\ caller[c] \in {"completed", "failed"} => at[c] = "done"
         /\ at[c] \in {"opening", "closing", "failing", "error"} <=> \E p \in posts : p.owner = <<"session", c>>
    /\ \A i \in 2..Len(queue) : at[queue[i]] = "lock"
    /\ agent \in {"none", "up", "dead"}
    /\ client.body \in Sessions \cup {0} /\ client.flushed <= Len(events) /\ client.seq \in Nat
    /\ \A i \in 1..Len(rows) : rows[i].run \in Sessions /\ rows[i].event \in 0..Len(events)

-----------------------------------------------------------------------------
Init ==
    /\ caller = [c \in Sessions |-> "idle"]
    /\ at = [c \in Sessions |-> "idle"]
    /\ queue = <<>>
    /\ agent = "none"
    /\ client = [body |-> 0, flushed |-> 0, seq |-> 0]
    /\ events = <<>>
    /\ posts = {}
    /\ overlap = FALSE
    /\ rows = <<>>
    /\ history = [faults |-> 0, lost |-> FALSE, late |-> FALSE, opened |-> {}]

Posting(inProgress) == posts' = inProgress /\ overlap' = (overlap \/ Cardinality(inProgress) > 1)

MayFault == history.faults < MaxFaults
Faulted(lost) == history' = [history EXCEPT !.faults = @ + 1, !.lost = @ \/ lost]

HasLock(c) == queue # <<>> /\ Head(queue) = c

\* run_agent_session posts to run-session; the handler waits for the lock.
Request(c) ==
    /\ caller[c] = "idle"
    /\ caller' = [caller EXCEPT ![c] = "waiting"]
    /\ at' = [at EXCEPT ![c] = IF queue = <<>> THEN "ensure" ELSE "lock"]
    /\ queue' = Append(queue, c)
    /\ UNCHANGED <<agent, client, events, posts, overlap, rows, history>>

\* The caller's timeout ends its wait and not the session.
GiveUp(c) ==
    /\ caller[c] = "waiting" /\ MayFault
    /\ caller' = [caller EXCEPT ![c] = "gave up"]
    /\ Faulted(FALSE)
    /\ UNCHANGED <<at, queue, agent, client, events, posts, overlap, rows>>

\* Session c answers and releases the lock.
Answer(c, status) ==
    /\ caller' = IF caller[c] = "waiting" THEN [caller EXCEPT ![c] = status] ELSE caller
    /\ queue' = Tail(queue)
    /\ at' = [e \in Sessions |-> IF e = c THEN "done"
                                 ELSE IF Len(queue) > 1 /\ e = queue[2] THEN "ensure" ELSE at[e]]

Stay == UNCHANGED <<caller, queue>>
Goto(c, point) == at' = [at EXCEPT ![c] = point] /\ Stay

-----------------------------------------------------------------------------
(* RuntimeRecordingClient.flush *)

\* Mutant: one flush at a time; what comes meanwhile waits for the next one.
PendingUnlessPosting(recorded) ==
    IF client.body = 0 \/ posts # {} THEN <<>> ELSE SubSeq(recorded, client.flushed + 1, Len(recorded))

\* The events that a flush takes, once `recorded` is what the client has recorded.
Pending(recorded) ==
    IF client.body = 0 THEN <<>> ELSE SubSeq(recorded, client.flushed + 1, Len(recorded))

\* _events_for_platform numbers them.
Batch(pending) ==
    [i \in 1..Len(pending) |-> [run |-> client.body, seq |-> client.seq + i - 1, event |-> client.flushed + i]]

\* _post_events begins, unless there is nothing to post.
Flush(owner, recorded) ==
    LET pending == Pending(recorded)
    IN IF pending = <<>> THEN UNCHANGED <<posts, overlap>>
       ELSE Posting(posts \cup {[owner |-> owner, run |-> client.body, batch |-> Batch(pending)]})

\* Session c flushes and goes to `point` while it posts, or on to `next`.
FlushAndGo(c, point) ==
    /\ Flush(<<"session", c>>, events)
    /\ IF Pending(events) # <<>> THEN Goto(c, point)
       ELSE IF point = "opening" THEN Goto(c, "prompt")
       ELSE Answer(c, "completed")

\* The handler of an exception flushes and then posts a runtime_error.
ErrorPost(c) ==
    [owner |-> <<"session", c>>, run |-> c, batch |-> <<[run |-> c, seq |-> client.seq, event |-> 0]>>]

Except(c, others) ==
    /\ Stay
    /\ LET failing == Pending(events) # <<>>
           post == IF failing THEN [owner |-> <<"session", c>>, run |-> client.body, batch |-> Batch(Pending(events))]
                   ELSE ErrorPost(c)
       IN /\ Posting(others \cup {post})
          /\ at' = [at EXCEPT ![c] = IF failing THEN "failing" ELSE "error"]

-----------------------------------------------------------------------------
(* run_session *)

\* begin_session
\* Mutant: what an earlier session has not posted is left to the next.
BegunKeepingPending(c) == [body |-> c, flushed |-> client.flushed, seq |-> 0]

Begun(c) == [body |-> c, flushed |-> Len(events), seq |-> 0]

\* _ensure_agent keeps the agent process it has, dead or not.
EnsureAgent(c) ==
    /\ at[c] = "ensure"
    /\ agent' = IF agent = "none" THEN "up" ELSE agent
    /\ client' = Begun(c)
    /\ Goto(c, "session")
    /\ UNCHANGED <<events, posts, overlap, rows, history>>

\* A failure to start or to initialize it is outside the try; the next session tries again.
AgentDoesNotStart(c) ==
    /\ at[c] = "ensure" /\ agent = "none" /\ MayFault
    /\ Answer(c, "failed")
    /\ Faulted(FALSE)
    /\ UNCHANGED <<agent, client, events, posts, overlap, rows>>

\* new_session and set_session_model, and a flush.
NewSession(c) ==
    /\ at[c] = "session" /\ agent = "up"
    /\ FlushAndGo(c, "opening")
    /\ history' = [history EXCEPT !.opened = @ \cup {c}]
    /\ UNCHANGED <<agent, client, events, rows>>

\* The agent answers the prompt; a flush follows.
PromptReturns(c) ==
    /\ at[c] = "prompt" /\ agent = "up"
    /\ FlushAndGo(c, "closing")
    /\ UNCHANGED <<agent, client, events, rows, history>>

\* The agent is gone, or answers with an error.
AgentRaises(c) ==
    /\ at[c] \in {"session", "prompt"}
    /\ \/ agent = "dead" /\ UNCHANGED history
       \/ agent = "up" /\ MayFault /\ Faulted(FALSE)
    /\ Except(c, posts)
    /\ UNCHANGED <<agent, client, events, rows>>

AgentDies ==
    /\ agent = "up" /\ MayFault
    /\ agent' = "dead"
    /\ Faulted(FALSE)
    /\ UNCHANGED <<caller, at, queue, client, events, posts, overlap, rows>>

\* Each handler of the recording client appends one event.
Recorded(c, late) == Append(events, [of |-> c, late |-> late])

\* session_update, request_permission, read_text_file, write_text_file, ext_method and
\* ext_notification record what the agent sends for session c, and flush.
Update(c) ==
    /\ agent = "up" /\ c \in history.opened /\ Len(events) < MaxEvents
    /\ LET late == at[c] \notin {"opening", "prompt"}
           recorded == Recorded(c, late)
       IN /\ events' = recorded
          /\ Flush(<<"update", Len(recorded)>>, recorded)
          /\ history' = [history EXCEPT !.late = @ \/ late]
    /\ UNCHANGED <<caller, at, queue, agent, client, rows>>

-----------------------------------------------------------------------------
(* The post returns *)

\* record_agent_transcript_events inserts a row for each event, whatever rows there are.
Inserted(p) == rows \o p.batch

\* Where the owner of post p goes when flush or _post_events returns.
Resume(p) ==
    LET c == p.owner[2]
        others == posts \ {p}
    IN IF p.owner[1] = "update" THEN UNCHANGED at /\ Stay /\ Posting(others)
       ELSE CASE at[c] = "opening" -> Goto(c, "prompt") /\ Posting(others)
              [] at[c] = "closing" -> Answer(c, "completed") /\ Posting(others)
              [] at[c] = "error" -> Answer(c, "failed") /\ Posting(others)
              [] at[c] = "failing" ->
                   /\ Goto(c, "error")
                   /\ Posting(others \cup {[ErrorPost(c) EXCEPT !.batch[1].seq = client.seq + Len(p.batch)]})

\* After its post a flush sets the index and adds to the number; a runtime_error does not.
Advanced(p) ==
    IF p.batch[1].event = 0 THEN client
    ELSE [client EXCEPT !.flushed = Len(events), !.seq = @ + Len(p.batch)]

PostReturns(p) ==
    /\ rows' = Inserted(p)
    /\ client' = Advanced(p)
    /\ Resume(p)
    /\ UNCHANGED <<agent, events, history>>

\* The answer's status is not looked at.
PostIsRefused(p) ==
    /\ MayFault
    /\ client' = Advanced(p)
    /\ Resume(p)
    /\ Faulted(TRUE)
    /\ UNCHANGED <<agent, events, rows>>

\* The connection breaks or times out, with the rows inserted or not: a task ends, a
\* session goes to its handler of exceptions or, from there, to an answer 500.
PostBreaks(p) ==
    /\ MayFault
    /\ rows' \in {rows, Inserted(p)}
    /\ LET c == p.owner[2]
           others == posts \ {p}
       IN IF p.owner[1] = "update" THEN UNCHANGED at /\ Stay /\ Posting(others)
          ELSE IF at[c] \in {"opening", "closing"} THEN Except(c, others)
          ELSE Answer(c, "failed") /\ Posting(others)
    /\ Faulted(TRUE)
    /\ UNCHANGED <<agent, client, events>>

-----------------------------------------------------------------------------
Step(c) ==
    \/ Request(c) \/ GiveUp(c) \/ EnsureAgent(c) \/ AgentDoesNotStart(c) \/ NewSession(c)
    \/ PromptReturns(c) \/ AgentRaises(c) \/ Update(c)

Next ==
    \/ \E c \in Sessions : Step(c)
    \/ AgentDies
    \/ \E p \in posts : PostReturns(p) \/ PostIsRefused(p) \/ PostBreaks(p)

Spec == Init /\ [][Next]_vars

-----------------------------------------------------------------------------
(* Properties *)

OnItsWay(i, c) == \E p \in posts : \E j \in 1..Len(p.batch) : p.batch[j].event = i /\ p.run = c

\* As long as no post fails, every update that the agent sends before it answers the
\* prompt is in the transcript of its run or in a post on its way there, however the
\* posts overlap; so is everything once a session has answered and the posts are done.
EveryUpdateArrives ==
    ~history.lost =>
        \A i \in 1..Len(events) : ~events[i].late =>
            \/ OnItsWay(i, events[i].of)
            \/ \E j \in 1..Len(rows) : rows[j].event = i /\ rows[j].run = events[i].of

\* An update is in the transcript of another run only if the agent sent it after the
\* prompt of its session had ended, whatever posts fail and in whatever order they end.
UpdatesStayInTheirRun ==
    \A j \in 1..Len(rows) :
        LET e == rows[j].event IN e = 0 \/ events[e].of = rows[j].run \/ events[e].late

\* The rows before the j-th that are of the same run.
Before(j) == {i \in 1..(j - 1) : rows[i].run = rows[j].run}

\* A transcript whose posts neither failed nor met one another numbers its events from 0
\* without gap, in the order in which they were recorded.
NumbersFollowEvents ==
    ~(history.lost \/ overlap \/ history.late) =>
        \A j \in 1..Len(rows) :
            /\ rows[j].seq = Cardinality(Before(j))
            /\ rows[j].event > 0 => \A i \in Before(j) : rows[i].event < rows[j].event

\* The transcript of a run is complete and in order.
TranscriptIsComplete == EveryUpdateArrives /\ NumbersFollowEvents
=============================================================================
