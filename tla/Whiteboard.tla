----------------------------- MODULE Whiteboard -----------------------------
(***************************************************************************)
(* The whiteboard of one audit run (services/platform/app/services/        *)
(* whiteboard.py and the handlers of api/routes.py that call it): cards,   *)
(* edges, notes, attachments and evidence, the events that record every    *)
(* change, subscriptions and notifications, requests for more agents, and  *)
(* the snapshot of the board in the artifact store.                        *)
(*                                                                         *)
(* A call runs in a session of its own: it loads rows, records an event    *)
(* and fans it out, commits, and then writes the snapshot from the rows    *)
(* that its session reads.  Only the columns that a session changed are    *)
(* written.  An object that the call still holds keeps the values it was   *)
(* loaded with (expire_on_commit=False).                                   *)
(*                                                                         *)
(* pending_gap_cards, task_attempt_count and create_task_for_gap have no   *)
(* caller and are left out.                                                *)
(***************************************************************************)
EXTENDS Naturals, FiniteSetsExt, SequencesExt

CONSTANTS
    Cards,        \* card ids
    OnBoard,      \* the cards that exist at the start
    Scenarios,    \* sequences of calls: the agent that makes it, its kind and arguments
    Limit,        \* limit of list_events
    MaxFailures,  \* bound: calls that fail
    None

Calls == UNION {DOMAIN s : s \in Scenarios}
NotificationStatuses == {"pending", "claimed", "handled", "ignored"}
RequestStatuses == {"pending", "approved", "rejected", "merged", "scheduled"}
Launching == {"approved", "scheduled"}

VARIABLES
    do,            \* do[c]: the agent, the kind and the arguments of call c
    call,          \* call[c]: control point and locals
    clock,         \* orders the begin of transactions: created_at is the time of the transaction
    log,           \* calls that are committed
    cards,         \* cards[k]: status and swarm_triage of a card, None when it does not exist
    decision,      \* decision[k]: decision_status of the triage decision of the card
    events,        \* committed events
    notifications, \* notifications[<<e, s>>]: row of the notification of event e for subscription s
    requests,      \* requests[c]: row of the schedule request made by call c
    tasks,         \* tasks made for schedule requests: <<request, deciding call>>
    files,         \* evidence artifacts
    snapshot,      \* the calls whose changes the snapshot file shows
    agents,        \* deciding calls for which an agent was started
    reader,        \* the agent that polls list_events: cursor, seen
    history        \* history variables: overlaps, raced rows, claims

vars == <<do, call, clock, log, cards, decision, events, notifications, requests, tasks, files,
          snapshot, agents, reader, history>>

board == <<log, cards, decision, events, notifications, requests, tasks>>

Kind(c) == do[c].kind
Live == DOMAIN do
At(pc) == {c \in Live : call[c].pc = pc}
Open == At("loaded") \cup At("flushed")

\* Calls that end with write_snapshot.
Writers == {"card", "update", "edge", "note", "attachment", "evidence"}

\* Calls that record an event: subscribe and update_notification do not.
Recording == Writers \cup {"request", "decide"}

TypeOK ==
    /\ \A c \in Live : call[c].pc \in {"idle", "loaded", "flushed", "committed", "put", "agent",
                                       "answered", "failed"}
    /\ log \subseteq Live /\ clock \in 0..Cardinality(Live)
    /\ \A k \in Cards : cards[k] = None \/ cards[k].status \in {"open", "submitted", "stuck"}
    /\ \A e \in events : e.call \in log
    /\ \A n \in DOMAIN notifications :
         /\ notifications[n].status \in NotificationStatuses /\ n[1] \in log /\ n[2] \in log
         /\ notifications[n].count \in 0..Cardinality(Live)
    /\ \A r \in DOMAIN requests : requests[r].status \in RequestStatuses /\ r \in log
    /\ snapshot \subseteq log /\ agents \subseteq log
    /\ \A t \in tasks : t[1] \in DOMAIN requests /\ t[2] \in log

\* The function f with the value v at x.
With(f, x, v) == [y \in DOMAIN f \cup {x} |-> IF y = x THEN v ELSE f[y]]

Idle == [pc |-> "idle", at |-> 0, row |-> None, fan |-> {}, stale |-> {}, view |-> {}]

Init ==
    /\ do \in Scenarios
    /\ call = [c \in Calls |-> Idle] /\ clock = 0 /\ log = {}
    /\ cards = [k \in Cards |-> IF k \in OnBoard THEN [status |-> "open", triage |-> "deep_dive"] ELSE None]
    /\ decision = [k \in Cards |-> IF k \in OnBoard THEN "deep_dive" ELSE None]
    /\ events = {} /\ notifications = <<>> /\ requests = <<>> /\ tasks = {} /\ files = {}
    /\ snapshot = {} /\ agents = {} /\ reader = [cursor |-> None, seen |-> {}]
    /\ history = [overlap |-> <<>>, raced |-> {}, claims |-> <<>>, unsettled |-> {}, polled |-> {},
                 before |-> <<>>, failures |-> 0]

-----------------------------------------------------------------------------
(* Events, subscriptions and notifications *)

\* The event that a call records: its entity, the card id in its payload, the
\* cards it relates to, and the status of the card in its payload.
CardEvent(c, type, status) ==
    [call |-> c, at |-> call[c].at, entity |-> "card", type |-> type, card |-> do[c].card,
     related |-> {do[c].card}, status |-> status]
CreatedOn(c, entity) ==
    [call |-> c, at |-> call[c].at, entity |-> entity, type |-> "created", card |-> do[c].card,
     related |-> {do[c].card}, status |-> None]
EdgeEvent(c) ==
    [call |-> c, at |-> call[c].at, entity |-> "edge", type |-> "created", card |-> None,
     related |-> do[c].ends, status |-> None]
OtherEvent(c, entity, type) ==
    [call |-> c, at |-> call[c].at, entity |-> entity, type |-> type, card |-> None,
     related |-> {}, status |-> None]

\* The entries of a filter that are set must hold; card_ids looks at the entity and at
\* the card_id of the payload, dependency_card_ids also at the ends of an edge.  The
\* entries that look for words in texts are left out.
Matches(f, e) ==
    /\ f.cards = {} \/ e.card \in f.cards
    /\ f.entities = {} \/ e.entity \in f.entities
    /\ f.dependencies = {} \/ f.dependencies \cap e.related # {}

\* subscribe: the committed subscriptions are the calls that made them.
Subscriptions == {s \in log : Kind(s) = "subscribe"}

\* _fanout_notifications: the subscriptions that get a notification of the event.
FanOut(e) == {s \in Subscriptions : Matches(do[s].filter, e)}

NewNotification == [status |-> "pending", claimant |-> None, lease |-> FALSE, count |-> 0]
AddNotifications(e, subscriptions) ==
    [n \in DOMAIN notifications \cup ({e.call} \X subscriptions) |->
        IF n \in DOMAIN notifications THEN notifications[n] ELSE NewNotification]

-----------------------------------------------------------------------------
(* Loading: existence checks answer with an error *)

Exists(k) == cards[k] # None

\* What the call must find: cards, the schedule request or the notification.
Found(c) ==
    CASE Kind(c) \in {"update", "note", "attachment", "triage"} -> Exists(do[c].card)
      [] Kind(c) = "edge" -> Cardinality(do[c].ends) = 2 /\ \A k \in do[c].ends : Exists(k)
      [] Kind(c) = "evidence" -> \A k \in do[c].cards : Exists(k)
      [] Kind(c) = "decide" -> do[c].request \in DOMAIN requests
      [] Kind(c) = "mark" -> do[c].notification \in DOMAIN notifications
      [] OTHER -> TRUE

\* The cards whose objects the call holds until it returns.
Held(c) ==
    CASE Kind(c) \in {"card", "update"} -> {do[c].card}
      [] Kind(c) = "evidence" -> do[c].cards
      [] OTHER -> {}

\* The rows that the call may change, as it loads them.
Row(c) ==
    CASE Kind(c) \in {"update", "evidence", "triage"} -> [k \in Cards |-> cards[k]]
      [] Kind(c) = "mark" -> notifications[do[c].notification]
      [] Kind(c) = "decide" -> requests[do[c].request]
      [] OTHER -> None

\* An agent makes one call after the other.
Ended(c) == call[c].pc \in {"answered", "failed"}
MayCall(c) == call[c].pc = "idle" /\ \A d \in 1..(c - 1) : do[d].by = do[c].by => Ended(d)

Load(c) ==
    /\ MayCall(c) /\ Kind(c) # "poll" /\ Found(c)
    /\ clock' = IF Kind(c) \in Recording THEN clock + 1 ELSE clock
    /\ call' = [call EXCEPT ![c] = [@ EXCEPT !.pc = "loaded", !.at = clock', !.row = Row(c)]]
    /\ UNCHANGED <<do, board, files, snapshot, agents, reader, history>>

-----------------------------------------------------------------------------
(* Requests for more agents *)

\* _low_value_only_schedule_reason is None: a card has a deep_dive decision, or
\* its triage calls it a candidate of a chain.
Worthy(related) ==
    \E k \in related :
       /\ Exists(k)
       /\ decision[k] \in {"deep_dive", "chain_candidate"} \/ cards[k].triage \in {"deep_dive", "chain_candidate"}

\* decide_schedule_request: an approval of low value becomes a rejection.
Decided(c, related) ==
    IF do[c].status \in Launching /\ ~Worthy(related) THEN "rejected" ELSE do[c].status

-----------------------------------------------------------------------------
(* record_event: the event and its notifications, not yet committed *)

EventOf(c) ==
    CASE Kind(c) = "card" -> CardEvent(c, "created", "open")
      [] Kind(c) = "update" ->
           CardEvent(c, "updated", IF do[c].status = None THEN call[c].row[do[c].card].status ELSE do[c].status)
      [] Kind(c) = "edge" -> EdgeEvent(c)
      [] Kind(c) \in {"note", "attachment"} -> CreatedOn(c, Kind(c))
      [] Kind(c) = "evidence" -> OtherEvent(c, "evidence", "created")
      [] Kind(c) = "request" -> OtherEvent(c, "schedule-request", IF Worthy(do[c].cards) THEN "created" ELSE "rejected")
      [] Kind(c) = "decide" -> OtherEvent(c, "schedule-request", Decided(c, do[do[c].request].cards))

\* The cards whose rows an open transaction has written: they are locked.  A column
\* that keeps its loaded value is not written.
Changes(c) ==
    CASE Kind(c) = "update" -> {k \in {do[c].card} : \/ do[c].status \notin {None, call[c].row[k].status}
                                                    \/ do[c].triage \notin {"keep", call[c].row[k].triage}}
      [] Kind(c) = "evidence" -> {k \in do[c].cards : call[c].row[k].status # "submitted"}
      [] Kind(c) = "triage" -> {do[c].card}
      [] OTHER -> {}
Locked(c) == \E d \in At("flushed") \ {c} : Changes(d) \cap Changes(c) # {}

\* submit_chain_evidence writes the evidence file before it records the event.
RecordEvent(c) ==
    /\ call[c].pc = "loaded" /\ Kind(c) \in Recording /\ ~Locked(c)
    /\ LET e == EventOf(c)
       IN call' = [call EXCEPT ![c] = [@ EXCEPT !.pc = "flushed", !.fan = [event |-> e, to |-> FanOut(e)]]]
    /\ files' = IF Kind(c) = "evidence" THEN files \cup {c} ELSE files
    /\ UNCHANGED <<do, clock, board, snapshot, agents, reader, history>>

-----------------------------------------------------------------------------
(* Commits *)

\* A card that changed since the call loaded it.
Raced(c) == {k \in Changes(c) : cards[k] # call[c].row[k]}

\* What every commit does: calls in progress that hold a card that c changes keep
\* its old values; the answer follows, or the snapshot, or the start of an agent.
Committed(c, changed) ==
    /\ log' = log \cup {c}
    /\ call' = [d \in Calls |->
          IF d = c
            THEN CASE Kind(c) \in Writers -> [call[c] EXCEPT !.pc = "committed", !.row = None, !.fan = {}]
                   [] Kind(c) = "decide" /\ call[c].fan.event.type \in Launching -> [Idle EXCEPT !.pc = "agent"]
                   [] OTHER -> [Idle EXCEPT !.pc = "answered"]
            ELSE IF d \in Live /\ call[d].pc \in {"loaded", "flushed", "committed"} /\ Held(d) \cap changed # {}
                   THEN [call[d] EXCEPT !.stale = @ \cup {c}]
                   ELSE call[d]]
    /\ UNCHANGED <<do, clock, files, snapshot, agents, reader>>

\* History: the calls in progress when c is committed that a property asks for.
Watched(c) ==
    CASE Kind(c) = "update" -> Writers \cup {"decide"}
      [] Kind(c) \in Writers \ {"update"} -> Writers
      [] Kind(c) = "subscribe" -> Recording
      [] Kind(c) = "triage" -> {"decide"}
      [] OTHER -> {}
Overlaps(c) ==
    IF Watched(c) = {} THEN history.overlap
    ELSE With(history.overlap, c, {d \in Live \ {c} : /\ Kind(d) \in Watched(c)
                                                      /\ call[d].pc \in {"loaded", "flushed", "committed", "put"}})

CommitEvent(c) ==
    /\ call[c].pc = "flushed"
    /\ events' = events \cup {call[c].fan.event}
    /\ notifications' = AddNotifications(call[c].fan.event, call[c].fan.to)

\* create_card and declare_gap, with the attachments of the body
CreateCard(c) ==
    /\ Kind(c) = "card" /\ CommitEvent(c) /\ Committed(c, {})
    /\ cards' = [cards EXCEPT ![do[c].card] = [status |-> "open", triage |-> do[c].triage]]
    /\ history' = [history EXCEPT !.overlap = Overlaps(c)]
    /\ UNCHANGED <<decision, requests, tasks>>

\* update_card: metadata, when given, replaces the whole of it and what triage left there
UpdateCard(c) ==
    /\ Kind(c) = "update" /\ CommitEvent(c) /\ Committed(c, Changes(c))
    /\ LET k == do[c].card  row == call[c].row[k]
       IN cards' = [cards EXCEPT ![k] =
            [status |-> IF do[c].status \in {None, row.status} THEN @.status ELSE do[c].status,
             triage |-> IF do[c].triage \in {"keep", row.triage} THEN @.triage ELSE do[c].triage]]
    /\ history' = [history EXCEPT !.overlap = Overlaps(c), !.raced = @ \cup Raced(c)]
    /\ UNCHANGED <<decision, requests, tasks>>

CreateEdge(c) ==
    /\ Kind(c) = "edge" /\ CommitEvent(c) /\ Committed(c, {})
    /\ history' = [history EXCEPT !.overlap = Overlaps(c)]
    /\ UNCHANGED <<cards, decision, requests, tasks>>

AddNote(c) ==
    /\ Kind(c) = "note" /\ CommitEvent(c) /\ Committed(c, {})
    /\ history' = [history EXCEPT !.overlap = Overlaps(c)]
    /\ UNCHANGED <<cards, decision, requests, tasks>>

AddAttachment(c) ==
    /\ Kind(c) = "attachment" /\ CommitEvent(c) /\ Committed(c, {})
    /\ history' = [history EXCEPT !.overlap = Overlaps(c)]
    /\ UNCHANGED <<cards, decision, requests, tasks>>

\* submit_chain_evidence marks the cards as submitted
SubmitEvidence(c) ==
    /\ Kind(c) = "evidence" /\ CommitEvent(c) /\ Committed(c, Changes(c))
    /\ cards' = [k \in Cards |-> IF k \in Changes(c) THEN [cards[k] EXCEPT !.status = "submitted"] ELSE cards[k]]
    /\ history' = [history EXCEPT !.overlap = Overlaps(c), !.raced = @ \cup Raced(c)]
    /\ UNCHANGED <<decision, requests, tasks>>

CreateScheduleRequest(c) ==
    /\ Kind(c) = "request" /\ CommitEvent(c) /\ Committed(c, {})
    /\ requests' = With(requests, c, [status |-> IF call[c].fan.event.type = "rejected" THEN "rejected" ELSE "pending",
                                    task |-> None])
    /\ history' = [history EXCEPT !.overlap = Overlaps(c)]
    /\ UNCHANGED <<cards, decision, tasks>>

\* The task of a decision without a task_id in its body.
\* Mutant: the task is made before the value of the cards is looked at.
TasksOfAnyApproval(c) ==
    IF do[c].status \in Launching THEN {<<do[c].request, c>>} ELSE {}

TasksOf(c) ==
    IF call[c].fan.event.type \in Launching THEN {<<do[c].request, c>>} ELSE {}

\* decide_schedule_request does not look at the status that the request has.
DecideScheduleRequest(c) ==
    /\ Kind(c) = "decide" /\ CommitEvent(c) /\ Committed(c, {})
    /\ LET status == call[c].fan.event.type  row == call[c].row
       IN requests' = [requests EXCEPT ![do[c].request] =
             [status |-> IF status = row.status THEN @.status ELSE status,
              task |-> IF status \in Launching THEN c ELSE IF row.task = None THEN @.task ELSE None]]
    /\ tasks' = tasks \cup TasksOf(c)
    /\ history' = [history EXCEPT !.overlap = Overlaps(c),
                                  !.unsettled = IF call[c].fan.event.type \in Launching /\ ~Worthy(do[do[c].request].cards)
                                                  THEN @ \cup {c} ELSE @]
    /\ UNCHANGED <<cards, decision>>

Subscribe(c) ==
    /\ Kind(c) = "subscribe" /\ call[c].pc = "loaded" /\ Committed(c, {})
    /\ history' = [history EXCEPT !.overlap = Overlaps(c), !.before = With(@, c, log)]
    /\ UNCHANGED <<cards, decision, events, notifications, requests, tasks>>

\* Who claims a notification: the agent that the body names, or else the one that
\* subscribed; None when the body names none and a task subscribed.
Claimant(c) == IF do[c].agent # None THEN do[c].agent ELSE do[do[c].notification[2]].subscriber

\* update_notification: no look at the status or at the lease; the count is what
\* was loaded plus one, and a column is written only if it differs from what was loaded.
\* Mutant: an ignored notification keeps its lease.
MarkedKeepingLease(c, now) ==
    LET row == call[c].row  status == do[c].status  claimed == status = "claimed"
    IN [status |-> IF status = row.status THEN now.status ELSE status,
        claimant |-> IF claimed /\ Claimant(c) # row.claimant THEN Claimant(c) ELSE now.claimant,
        lease |-> IF claimed THEN TRUE ELSE IF status = "handled" /\ row.lease THEN FALSE ELSE now.lease,
        count |-> IF claimed THEN row.count + 1 ELSE now.count]

Marked(c, now) ==
    LET row == call[c].row  status == do[c].status  claimed == status = "claimed"
    IN [status |-> IF status = row.status THEN now.status ELSE status,
        claimant |-> IF claimed /\ Claimant(c) # row.claimant THEN Claimant(c) ELSE now.claimant,
        lease |-> IF claimed THEN TRUE
                  ELSE IF status \in {"handled", "ignored"} /\ row.lease THEN FALSE ELSE now.lease,
        count |-> IF claimed THEN row.count + 1 ELSE now.count]

\* History: the claims of a notification.
ClaimsOf(n) == IF n \in DOMAIN history.claims THEN history.claims[n].number ELSE 0

UpdateNotification(c) ==
    /\ Kind(c) = "mark" /\ call[c].pc = "loaded" /\ Committed(c, {})
    /\ LET n == do[c].notification
       IN /\ notifications' = [notifications EXCEPT ![n] = Marked(c, @)]
          /\ history' = [history EXCEPT
                !.overlap = Overlaps(c),
                !.raced = IF notifications[n] # call[c].row THEN @ \cup {n} ELSE @,
                !.claims = IF do[c].status = "claimed"
                             THEN With(@, n, [number |-> 1 + ClaimsOf(n), last |-> c]) ELSE @]
    /\ UNCHANGED <<cards, decision, events, requests, tasks>>

\* _triage_whiteboard_swarm_candidates: the decision and the metadata of a card
TriageCard(c) ==
    /\ Kind(c) = "triage" /\ call[c].pc = "loaded" /\ ~Locked(c) /\ Committed(c, {do[c].card})
    /\ decision' = [decision EXCEPT ![do[c].card] = do[c].value]
    /\ cards' = [cards EXCEPT ![do[c].card].triage = do[c].value]
    /\ history' = [history EXCEPT !.overlap = Overlaps(c), !.raced = @ \cup Raced(c)]
    /\ UNCHANGED <<events, notifications, requests, tasks>>

-----------------------------------------------------------------------------
(* After the commit *)

\* graph: the rows that the session reads; what it still holds keeps its old values.
\* Mutant: the graph is the one that the evidence was made from.
GraphBefore(c) == log \ (call[c].stale \cup {c})

\* Mutant: the graph shows what other sessions have not committed.
GraphDirty(c) == (log \cup At("flushed")) \ call[c].stale

Graph(c) == log \ call[c].stale

ReadGraph(c) ==
    /\ call[c].pc = "committed"
    /\ call' = [call EXCEPT ![c] = [@ EXCEPT !.pc = "put", !.stale = {}, !.view = Graph(c)]]
    /\ UNCHANGED <<do, clock, board, files, snapshot, agents, reader, history>>

\* put_json replaces the file.
PutSnapshot(c) ==
    /\ call[c].pc = "put"
    /\ snapshot' = call[c].view
    /\ call' = [call EXCEPT ![c] = [Idle EXCEPT !.pc = "answered"]]
    /\ UNCHANGED <<do, clock, board, files, agents, reader, history>>

\* decide_whiteboard_schedule_request: the agent is started after the commit.  Nothing
\* looks at the task again.
StartAgent(c) ==
    /\ call[c].pc = "agent"
    /\ agents' = agents \cup {c}
    /\ call' = [call EXCEPT ![c].pc = "answered"]
    /\ UNCHANGED <<do, clock, board, files, snapshot, reader, history>>

\* The database, the artifact store or the runtime fails, or the process dies: what
\* is not committed is rolled back, what is committed stays, and the caller gets an error.
Fail(c) ==
    /\ call[c].pc \in {"loaded", "flushed", "committed", "put", "agent"} /\ history.failures < MaxFailures
    /\ call' = [call EXCEPT ![c] = [Idle EXCEPT !.pc = "failed"]]
    /\ history' = [history EXCEPT !.failures = @ + 1]
    /\ UNCHANGED <<do, clock, board, files, snapshot, agents, reader>>

-----------------------------------------------------------------------------
(* Polling *)

Ordered == SetToSortSeq(events, LAMBDA d, e : d.at < e.at)

LastOf(s) == IF Len(s) <= Limit THEN s ELSE SubSeq(s, Len(s) - Limit + 1, Len(s))

\* list_events: what follows the event of the cursor, of that the last ones.
\* Mutant: the slice is one event short.
ListedShort(cursor) ==
    LET new == LastOf(SelectSeq(Ordered, LAMBDA e : cursor = None \/ e.at > cursor.at))
    IN IF Len(new) = Limit THEN Tail(new) ELSE new

Listed(cursor) ==
    LastOf(SelectSeq(Ordered, LAMBDA e : cursor = None \/ e.at > cursor.at))

\* The agent asks for what is new since the last event that it has seen.
Poll(c) ==
    /\ MayCall(c) /\ Kind(c) = "poll"
    /\ call' = [call EXCEPT ![c].pc = "answered"]
    /\ LET new == Listed(reader.cursor)
       IN /\ reader' = [cursor |-> IF new = <<>> THEN reader.cursor ELSE Last(new),
                        seen |-> reader.seen \cup {new[i].call : i \in DOMAIN new}]
          /\ history' = [history EXCEPT !.polled = @ \cup Open \cup
                (IF Len(new) = Limit THEN {e.call : e \in events} ELSE {})]
    /\ UNCHANGED <<do, clock, board, files, snapshot, agents>>

-----------------------------------------------------------------------------
Step(c) ==
    \/ Load(c) \/ Poll(c) \/ RecordEvent(c) \/ Fail(c) \/ ReadGraph(c) \/ PutSnapshot(c) \/ StartAgent(c)
    \/ CreateCard(c) \/ UpdateCard(c) \/ CreateEdge(c) \/ AddNote(c) \/ AddAttachment(c)
    \/ SubmitEvidence(c) \/ CreateScheduleRequest(c) \/ DecideScheduleRequest(c)
    \/ Subscribe(c) \/ UpdateNotification(c) \/ TriageCard(c)

Next == \E c \in Live : Step(c)

Spec == Init /\ [][Next]_vars

-----------------------------------------------------------------------------
(* Properties *)

\* A change whose call has answered is missing in the snapshot only because of a call
\* that was in progress when the change was committed: one that had read the graph
\* before, or that kept the old values of a card.
SnapshotLagsOverlaps ==
    \A c \in log : Kind(c) \in Writers /\ call[c].pc = "answered" /\ c \notin snapshot =>
        \E d \in history.overlap[c] : Kind(d) \in Writers

\* An agent that follows the events by their cursor misses an event only if the call
\* that recorded it was in progress when the agent polled (events are ordered by the
\* begin of the transaction, not by its commit), or if a poll was cut at the limit.
PollsMissOnlyOpenCalls ==
    \A e \in events : reader.cursor # None /\ e.at < reader.cursor.at /\ e.call \notin reader.seen =>
        e.call \in history.polled

\* A subscription to a card is told of every card event, note and attachment of the
\* card that is committed after it, unless the call was in progress when the
\* subscription was committed.
SubscribersMissOnlyOpenCalls ==
    \A s \in Subscriptions, e \in events :
        LET about == Kind(e.call) \in {"card", "update", "note", "attachment"}
                     /\ do[e.call].card \in do[s].filter.cards
        IN about /\ do[s].filter.entities = {} /\ do[s].filter.dependencies = {} =>
             \/ <<e.call, s>> \in DOMAIN notifications
             \/ e.call \in history.overlap[s] \cup history.before[s]

\* Readers of events, by cursor or by subscription, miss only those of open calls.
ReadersMissOnlyOpenCalls == PollsMissOnlyOpenCalls /\ SubscribersMissOnlyOpenCalls

\* While no two updates of a notification overlap, a claimed one has a lease and a
\* handled or ignored one has none, every claim is counted, and the claimant is that of
\* the last claim, whatever happened since: nobody if neither the claim nor the
\* subscription names an agent.
NotificationsConsistent ==
    \A n \in DOMAIN notifications \ history.raced :
        LET row == notifications[n]  claimed == n \in DOMAIN history.claims
        IN /\ row.status = "claimed" => claimed /\ row.lease
           /\ row.status \in {"handled", "ignored"} => ~row.lease
           /\ row.count = ClaimsOf(n)
           /\ row.claimant = IF claimed THEN Claimant(history.claims[n].last) ELSE None

\* An approval that launches an agent for cards that are not worth it when it is
\* committed overlaps the triage or the update that took the value away, and a task
\* that its request does not name is left over from an earlier approval of the request.
HelpIsWorthwhile ==
    /\ \A c \in history.unsettled :
         \E d \in log : Kind(d) \in {"triage", "update"} /\ c \in history.overlap[d]
    /\ \A t \in tasks : requests[t[1]].task # t[2] =>
         \E d \in log \ {t[2]} : Kind(d) = "decide" /\ do[d].request = t[1]
=============================================================================
