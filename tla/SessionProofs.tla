--------------------------- MODULE SessionProofs ----------------------------
(***************************************************************************)
(* Proofs about the sessions of a Kimi agent and their transcripts, for    *)
(* any number of sessions and updates, and of posts, agents and callers    *)
(* that fail.  Sessions are numbers from 1: 0 stands for no session.       *)
(***************************************************************************)
EXTENDS AgentSessions, Integers, Sequences, FiniteSets, FiniteSetTheorems, TLAPS

-----------------------------------------------------------------------------
(* The invariant *)

CallerStates == {"idle", "waiting", "completed", "failed", "gave up"}
WithPost == {"opening", "closing", "failing", "error"}
Working == {"ensure", "session", "prompt"} \cup WithPost
ControlPoints == {"idle", "lock", "done"} \cup Working

Client == [body : Sessions \cup {0}, flushed : Nat, seq : Nat]
Event == [of : Sessions, late : BOOLEAN]
Row == [run : Sessions, seq : Nat, event : Nat]
Owner == ({"session"} \X Sessions) \cup ({"update"} \X Nat)
Post == [owner : Owner, run : Sessions, batch : Seq(Row)]
History == [faults : Nat, lost : BOOLEAN, late : BOOLEAN, opened : SUBSET Sessions]

TurnsType == caller \in [Sessions -> CallerStates] /\ at \in [Sessions -> ControlPoints] /\ queue \in Seq(Sessions)
DataType ==
    /\ agent \in {"none", "up", "dead"} /\ client \in Client /\ events \in Seq(Event)
    /\ posts \subseteq Post /\ overlap \in BOOLEAN /\ rows \in Seq(Row) /\ history \in History

\* The first of the queue has the lock, and the client is its own from begin_session on.
Lock ==
    /\ \A i, j \in DOMAIN queue : queue[i] = queue[j] => i = j
    /\ \A i \in DOMAIN queue : IF i = 1 THEN at[queue[i]] \in Working ELSE at[queue[i]] = "lock"
    /\ \A c \in Sessions :
         /\ at[c] \in Working => queue # <<>> /\ c = queue[1]
         /\ at[c] \in Working \ {"ensure"} => client.body = c
         /\ caller[c] = "idle" => at[c] = "idle"
         /\ caller[c] \in {"completed", "failed"} => at[c] = "done"

\* A session waits for its own post, and an update has one.
Owners ==
    /\ \A p, q \in posts : p.owner = q.owner => p = q
    /\ \A c \in Sessions : at[c] \in WithPost <=> \E p \in posts : p.owner = <<"session", c>>
    /\ \A p \in posts : p.owner[1] = "update" => p.owner[2] <= Len(events)

\* Event e may stand in the transcript of run r.
OfRun(e, r) == e <= Len(events) /\ (e = 0 \/ events[e].of = r \/ events[e].late)

Fits(p) == p.batch # <<>> /\ \A j \in DOMAIN p.batch : p.batch[j].run = p.run /\ OfRun(p.batch[j].event, p.run)

\* What has been recorded and not posted is of the client's session.
Content ==
    /\ client.flushed <= Len(events)
    /\ \A i \in 1..Len(events) : client.flushed < i => OfRun(i, client.body)
    /\ \A p \in posts : Fits(p)
    /\ \A j \in DOMAIN rows : OfRun(rows[j].event, rows[j].run)

Inv == TurnsType /\ DataType /\ Lock /\ Owners /\ Content

-----------------------------------------------------------------------------
(* Turns *)

\* Session c goes on to another point; the others stay, or get the lock.
TurnTo(c, point) ==
    /\ at'[c] = point
    /\ \A d \in Sessions : d # c => at'[d] = at[d] \/ (at[d] = "lock" /\ at'[d] = "ensure")

\* The lock stays where it is while its holder works.
LEMMA MoveTurn ==
    ASSUME TurnsType, Lock, NEW c \in Sessions, at[c] \in Working,
           NEW point \in Working \ {"ensure"}, Goto(c, point),
           \/ client'.body = client.body /\ at[c] # "ensure"
           \/ client'.body = c
    PROVE  TurnsType' /\ Lock' /\ TurnTo(c, point)
<1>1. /\ at' = [at EXCEPT ![c] = point] /\ caller' = caller /\ queue' = queue
      /\ at \in [Sessions -> ControlPoints]
  BY DEF Goto, Stay, TurnsType
<1>2. TurnsType' /\ TurnTo(c, point)
  BY <1>1 DEF TurnsType, TurnTo, ControlPoints, Working, WithPost
<1>3. queue # <<>> /\ c = queue[1] /\ queue \in Seq(Sessions)
  BY DEF Lock, TurnsType
<1>4. client'.body = c
  BY DEF Lock
<1>5. \A d \in Sessions : d # c => at[d] \notin Working
  BY <1>3 DEF Lock
<1>6. caller[c] # "idle" /\ caller[c] \notin {"completed", "failed"}
  BY DEF Lock, Working, WithPost
<1>7. \A i \in DOMAIN queue : i # 1 => queue[i] # c
  BY <1>3 DEF Lock
<1>8. \A i \in DOMAIN queue : queue[i] \in Sessions
  BY <1>3
<1>9. \A i \in DOMAIN queue : IF i = 1 THEN at'[queue[i]] \in Working ELSE at'[queue[i]] = "lock"
  BY <1>1, <1>3, <1>7, <1>8 DEF Lock
<1>10. \A d \in Sessions : at'[d] = IF d = c THEN point ELSE at[d]
  BY <1>1
<1> QED BY <1>1, <1>2, <1>3, <1>4, <1>5, <1>6, <1>9, <1>10 DEF Lock

\* A session that ends hands the lock to the next one.
LEMMA AnswerTurn ==
    ASSUME TurnsType, Lock, NEW c \in Sessions, at[c] \in Working,
           NEW result \in {"completed", "failed"}, Answer(c, result), client'.body = client.body
    PROVE  TurnsType' /\ Lock' /\ TurnTo(c, "done")
<1>1. /\ queue # <<>> /\ c = queue[1] /\ queue \in Seq(Sessions)
      /\ at \in [Sessions -> ControlPoints] /\ caller \in [Sessions -> CallerStates]
  BY DEF Lock, TurnsType
<1>2. /\ queue' \in Seq(Sessions) /\ Len(queue') = Len(queue) - 1 /\ Len(queue) \in Nat \ {0}
      /\ \A i \in DOMAIN queue' : queue'[i] = queue[i + 1] /\ i + 1 \in DOMAIN queue /\ i \in Nat \ {0}
      /\ DOMAIN queue' = 1..(Len(queue) - 1) /\ DOMAIN queue = 1..Len(queue)
  BY <1>1 DEF Answer
<1>3. \A d \in Sessions : at'[d] = IF d = c THEN "done"
                                   ELSE IF Len(queue) > 1 /\ d = queue[2] THEN "ensure" ELSE at[d]
  BY DEF Answer
<1>4. Len(queue) > 1 => queue[2] \in Sessions /\ queue[2] # c /\ at[queue[2]] = "lock"
  BY <1>1, <1>2 DEF Lock
<1>5. at' \in [Sessions -> ControlPoints]
  <2>1. at' = [e \in Sessions |-> IF e = c THEN "done"
                                  ELSE IF Len(queue) > 1 /\ e = queue[2] THEN "ensure" ELSE at[e]]
    BY DEF Answer
  <2> QED BY <1>1, <2>1 DEF ControlPoints, Working
<1>6. /\ caller' \in [Sessions -> CallerStates]
      /\ \A d \in Sessions : caller'[d] = caller[d] \/ (d = c /\ caller'[d] = result)
  BY <1>1 DEF Answer, CallerStates
<1>7. TurnsType' /\ TurnTo(c, "done")
  BY <1>2, <1>3, <1>4, <1>5, <1>6 DEF TurnsType, TurnTo
<1>8. \A i, j \in DOMAIN queue' : queue'[i] = queue'[j] => i = j
  BY <1>2 DEF Lock
<1>9. ASSUME NEW i \in DOMAIN queue'
      PROVE  IF i = 1 THEN at'[queue'[i]] \in Working ELSE at'[queue'[i]] = "lock"
  <2>1. /\ queue'[i] = queue[i + 1] /\ queue[i + 1] \in Sessions /\ i + 1 # 1
        /\ at[queue[i + 1]] = "lock" /\ queue[i + 1] # c
    BY <1>1, <1>2 DEF Lock
  <2>2. i = 1 => Len(queue) > 1
    BY <1>2
  <2>3. i # 1 /\ Len(queue) > 1 => queue[i + 1] # queue[2]
    BY <1>2 DEF Lock
  <2> QED BY <1>3, <2>1, <2>2, <2>3 DEF Working
<1>10. ASSUME NEW d \in Sessions
       PROVE  /\ at'[d] \in Working => queue' # <<>> /\ d = queue'[1]
              /\ at'[d] \notin Working \ {"ensure"}
              /\ caller'[d] = "idle" => at'[d] = "idle"
              /\ caller'[d] \in {"completed", "failed"} => at'[d] = "done"
  <2>1. d # c => at[d] \notin Working
    BY <1>1 DEF Lock
  <2>2. at'[d] \in Working => Len(queue) > 1 /\ d = queue[2] /\ at'[d] = "ensure"
    BY <1>3, <2>1 DEF Working, WithPost
  <2>3. Len(queue) > 1 => queue' # <<>> /\ queue'[1] = queue[2]
    BY <1>2
  <2>4. caller[c] # "idle" /\ caller[c] \notin {"completed", "failed"}
    BY DEF Lock, Working, WithPost
  <2>5. Len(queue) > 1 /\ d = queue[2] => caller[d] # "idle" /\ caller[d] \notin {"completed", "failed"}
    BY <1>4 DEF Lock
  <2>6. /\ caller'[d] = "idle" => at'[d] = "idle"
        /\ caller'[d] \in {"completed", "failed"} => at'[d] = "done"
    BY <1>3, <1>6, <2>4, <2>5 DEF Lock
  <2> QED BY <2>2, <2>3, <2>6
<1> QED BY <1>7, <1>8, <1>9, <1>10 DEF Lock

\* A new session goes to the end of the queue.
LEMMA RequestTurn ==
    ASSUME TurnsType, Lock, NEW c \in Sessions, Request(c)
    PROVE  TurnsType' /\ Lock' /\ at[c] = "idle" /\ TurnTo(c, at'[c]) /\ at'[c] \in {"lock", "ensure"}
<1>1. /\ caller[c] = "idle" /\ at[c] = "idle" /\ client' = client
      /\ caller' = [caller EXCEPT ![c] = "waiting"] /\ queue' = Append(queue, c)
      /\ at' = [at EXCEPT ![c] = IF queue = <<>> THEN "ensure" ELSE "lock"]
      /\ at \in [Sessions -> ControlPoints] /\ caller \in [Sessions -> CallerStates] /\ queue \in Seq(Sessions)
  BY DEF Request, Lock, TurnsType
<1>2. TurnsType' /\ TurnTo(c, at'[c]) /\ at'[c] \in {"lock", "ensure"}
  <2>1. PICK point \in {"lock", "ensure"} : at' = [at EXCEPT ![c] = point]
    BY <1>1
  <2>2. at' \in [Sessions -> ControlPoints] /\ at'[c] = point /\ \A d \in Sessions : d # c => at'[d] = at[d]
    BY <1>1, <2>1 DEF ControlPoints, Working
  <2>3. caller' \in [Sessions -> CallerStates]
    BY <1>1 DEF CallerStates
  <2>4. queue' \in Seq(Sessions)
    BY <1>1
  <2> QED BY <2>2, <2>3, <2>4 DEF TurnsType, TurnTo
<1>3. /\ DOMAIN queue = 1..Len(queue) /\ DOMAIN queue' = 1..(Len(queue) + 1) /\ Len(queue) \in Nat
      /\ \A i \in DOMAIN queue : queue'[i] = queue[i] /\ queue[i] \in Sessions
      /\ queue'[Len(queue) + 1] = c
      /\ queue # <<>> => 1 \in DOMAIN queue
      /\ queue = <<>> => Len(queue) = 0
  BY <1>1
<1>4. \A i \in DOMAIN queue : queue[i] # c
  BY <1>1 DEF Lock, Working, WithPost
<1>5. \A i, j \in DOMAIN queue' : queue'[i] = queue'[j] => i = j
  BY <1>3, <1>4 DEF Lock
<1>6. \A d \in Sessions : at'[d] = IF d = c THEN (IF queue = <<>> THEN "ensure" ELSE "lock") ELSE at[d]
  BY <1>1
<1>7. ASSUME NEW i \in DOMAIN queue'
      PROVE  IF i = 1 THEN at'[queue'[i]] \in Working ELSE at'[queue'[i]] = "lock"
  <2>1. CASE i \in DOMAIN queue
    BY <1>3, <1>4, <1>6, <2>1 DEF Lock
  <2>2. CASE i = Len(queue) + 1
    <3>1. queue = <<>> <=> i = 1
      BY <1>3, <2>2
    <3> QED BY <1>3, <1>6, <2>2, <3>1 DEF Working
  <2> QED BY <1>3, <2>1, <2>2
<1>8. ASSUME NEW d \in Sessions
      PROVE  /\ at'[d] \in Working => queue' # <<>> /\ d = queue'[1]
             /\ at'[d] \in Working \ {"ensure"} => client.body = d
             /\ caller'[d] = "idle" => at'[d] = "idle"
             /\ caller'[d] \in {"completed", "failed"} => at'[d] = "done"
  <2>1. queue' # <<>>
    BY <1>1
  <2>2. CASE d = c
    BY <1>1, <1>3, <1>6, <2>1, <2>2 DEF Working, WithPost
  <2>3. CASE d # c
    BY <1>1, <1>3, <1>6, <2>1, <2>3 DEF Lock
  <2> QED BY <2>2, <2>3
<1> QED BY <1>1, <1>2, <1>5, <1>7, <1>8 DEF Lock

-----------------------------------------------------------------------------
(* Posts *)

\* A flush takes each event it finds pending once, with the next numbers.
LEMMA BatchFacts ==
    ASSUME client \in Client, NEW recorded \in Seq(Event), client.flushed <= Len(recorded),
           Pending(recorded) # <<>>
    PROVE  LET batch == Batch(Pending(recorded))
           IN  /\ client.body \in Sessions
               /\ batch \in Seq(Row) /\ Len(batch) = Len(recorded) - client.flushed
               /\ Len(batch) \in Nat \ {0} /\ batch # <<>>
               /\ \A j \in 1..Len(batch) :
                    batch[j] = [run |-> client.body, seq |-> client.seq + j - 1, event |-> client.flushed + j]
<1> DEFINE pending == Pending(recorded)
           n == Len(recorded) - client.flushed
<1>1. client.body \in Sessions /\ pending = SubSeq(recorded, client.flushed + 1, Len(recorded))
  BY DEF Client, Pending
<1>2. client.flushed \in Nat /\ client.seq \in Nat /\ Len(recorded) \in Nat /\ n \in Nat
  BY DEF Client
<1>3. Len(pending) = n
  BY <1>1, <1>2
<1>4. n # 0
  <2> SUFFICES ASSUME n = 0 PROVE FALSE
    OBVIOUS
  <2>1. SubSeq(recorded, client.flushed + 1, Len(recorded)) = <<>>
    BY <1>2
  <2> QED BY <1>1, <2>1
<1> DEFINE batch == [j \in 1..n |-> [run |-> client.body, seq |-> client.seq + j - 1, event |-> client.flushed + j]]
<1>5. Batch(pending) = batch
  <2> HIDE DEF pending
  <2> QED BY <1>3 DEF Batch
<1>6. ASSUME NEW j \in 1..n
      PROVE  [run |-> client.body, seq |-> client.seq + j - 1, event |-> client.flushed + j] \in Row
  <2>1. client.seq + j - 1 \in Nat /\ client.flushed + j \in Nat
    BY <1>2
  <2> QED BY <1>1, <2>1 DEF Row
<1>7. /\ batch \in Seq(Row) /\ Len(batch) = n
      /\ \A j \in 1..n :
           batch[j] = [run |-> client.body, seq |-> client.seq + j - 1, event |-> client.flushed + j]
  <2> HIDE DEF n
  <2> QED BY <1>2, <1>6
<1> HIDE DEF batch
<1>8. batch # <<>>
  BY <1>2, <1>4, <1>7
<1> HIDE DEF pending
<1> QED BY <1>1, <1>2, <1>4, <1>5, <1>7, <1>8 DEF pending

\* The session's post comes or goes with its control point; those of the others stay.
LEMMA SessionOwners ==
    ASSUME DataType, Owners, NEW c \in Sessions, TurnTo(c, at'[c]), events' = events, NEW fresh,
           \A p \in fresh : p.owner = <<"session", c>>, \A p, q \in fresh : p = q,
           posts' = {p \in posts : p.owner # <<"session", c>>} \cup fresh,
           at'[c] \in WithPost <=> fresh # {}
    PROVE  Owners'
<1>1. \A p, q \in posts' : p.owner = q.owner => p = q
  BY DEF Owners
<1>2. ASSUME NEW d \in Sessions
      PROVE  at'[d] \in WithPost <=> \E p \in posts' : p.owner = <<"session", d>>
  <2>1. CASE d = c
    BY <2>1
  <2>2. CASE d # c
    <3>1. at'[d] \in WithPost <=> at[d] \in WithPost
      BY <2>2 DEF TurnTo, WithPost
    <3>2. <<"session", d>> # <<"session", c>>
      BY <2>2
    <3>3. (\E p \in posts' : p.owner = <<"session", d>>) <=> \E p \in posts : p.owner = <<"session", d>>
      BY <3>2
    <3> QED BY <3>1, <3>3 DEF Owners
  <2> QED BY <2>1, <2>2
<1>3. \A p \in posts' : p.owner[1] = "update" => p.owner[2] <= Len(events')
  BY DEF Owners
<1> QED BY <1>1, <1>2, <1>3 DEF Owners

\* A session that goes on with a post of its own.
LEMMA PostingOwners ==
    ASSUME DataType, Owners, NEW c \in Sessions, TurnTo(c, at'[c]), events' = events, at'[c] \in WithPost,
           NEW q, q.owner = <<"session", c>>, posts' = {p \in posts : p.owner # <<"session", c>>} \cup {q}
    PROVE  Owners'
<1>1. (\A p \in {q} : p.owner = <<"session", c>>) /\ (\A p1, p2 \in {q} : p1 = p2) /\ {q} # {}
  OBVIOUS
<1> QED BY <1>1, SessionOwners

\* A session that goes on without a post.
LEMMA ResumedOwners ==
    ASSUME DataType, Owners, NEW c \in Sessions, TurnTo(c, at'[c]), events' = events, at'[c] \notin WithPost,
           posts' = {p \in posts : p.owner # <<"session", c>>}
    PROVE  Owners'
<1>1. PICK none : none = {}
  OBVIOUS
<1>2. /\ (\A p \in none : p.owner = <<"session", c>>) /\ (\A p, q \in none : p = q)
      /\ posts' = {p \in posts : p.owner # <<"session", c>>} \cup none
      /\ at'[c] \in WithPost <=> none # {}
  BY <1>1
<1> QED BY <1>2, SessionOwners

\* A post that ends is the only one of its session.
LEMMA OtherPosts ==
    ASSUME Owners, NEW p \in posts, NEW c, p.owner = <<"session", c>>
    PROVE  posts \ {p} = {q \in posts : q.owner # <<"session", c>>}
BY DEF Owners

\* A session without a post leaves all posts as they are.
LEMMA AllPosts ==
    ASSUME Owners, NEW c \in Sessions, at[c] \notin WithPost
    PROVE  posts = {q \in posts : q.owner # <<"session", c>>}
BY DEF Owners

\* What fits keeps fitting when events are added.
LEMMA EventsKept ==
    ASSUME events \in Seq(Event), events' = events \/ \E e \in Event : events' = Append(events, e)
    PROVE  /\ Len(events) <= Len(events') /\ \A i \in 1..Len(events) : events'[i] = events[i]
           /\ \A i \in Nat, r \in Sessions \cup {0} : OfRun(i, r) => OfRun(i, r)'
<1>1. Len(events) \in Nat /\ Len(events) <= Len(events') /\ \A i \in 1..Len(events) : events'[i] = events[i]
  OBVIOUS
<1>2. ASSUME NEW i \in Nat, NEW r \in Sessions \cup {0}, OfRun(i, r) PROVE OfRun(i, r)'
  <2>1. Len(events') \in Nat
    OBVIOUS
  <2>2. i <= Len(events) /\ (i = 0 \/ i \in 1..Len(events))
    BY <1>1, <1>2 DEF OfRun
  <2> QED BY <1>1, <1>2, <2>1, <2>2 DEF OfRun
<1> QED BY <1>1, <1>2

\* A step records at most one event, of the client's session or late; a session takes the
\* client over when nothing is pending that a flush of its own would take.
Recording ==
    \/ /\ events' = events
       /\ \/ client'.flushed = Len(events)
          \/ client'.flushed = client.flushed /\ client'.body = client.body
    \/ /\ client' = client
       /\ \E e \in Event : events' = Append(events, e) /\ (e.late \/ e.of = client.body)

\* What is pending stays of the client's session.
LEMMA PendingKept ==
    ASSUME DataType, Content, Recording
    PROVE  /\ client'.flushed <= Len(events')
           /\ \A i \in 1..Len(events') : client'.flushed < i => OfRun(i, client.body)'
           /\ \A i \in Nat, r \in Sessions \cup {0} : OfRun(i, r) => OfRun(i, r)'
<1>1. /\ client \in Client /\ events \in Seq(Event)
      /\ client.body \in Sessions \cup {0} /\ client.flushed \in Nat /\ Len(events) \in Nat
  BY DEF DataType, Client
<1>2. /\ Len(events) <= Len(events') /\ \A i \in 1..Len(events) : events'[i] = events[i]
      /\ \A i \in Nat, r \in Sessions \cup {0} : OfRun(i, r) => OfRun(i, r)'
  BY <1>1, EventsKept DEF Recording
<1>3. /\ client'.flushed <= Len(events')
      /\ \A i \in 1..Len(events') : client'.flushed < i => OfRun(i, client.body)'
  <2>1. CASE /\ events' = events
             /\ \/ client'.flushed = Len(events)
                \/ client'.flushed = client.flushed /\ client'.body = client.body
    <3>1. CASE client'.flushed = Len(events)
      BY <1>1, <2>1, <3>1
    <3>2. CASE client'.flushed = client.flushed /\ client'.body = client.body
      BY <1>1, <1>2, <2>1, <3>2 DEF Content, OfRun
    <3> QED BY <1>1, <2>1, <3>1, <3>2
  <2>2. ASSUME NEW e \in Event, client' = client, events' = Append(events, e), e.late \/ e.of = client.body
        PROVE  /\ client'.flushed <= Len(events')
               /\ \A i \in 1..Len(events') : client'.flushed < i => OfRun(i, client.body)'
    <3>1. Len(events') = Len(events) + 1 /\ events'[Len(events) + 1] = e
      BY <1>1, <2>2
    <3>2. \A i \in 1..Len(events') : i = Len(events) + 1 \/ i \in 1..Len(events)
      BY <1>1, <3>1
    <3>3. \A i \in 1..Len(events') : i = Len(events) + 1 => OfRun(i, client.body)'
      BY <1>1, <2>2, <3>1 DEF OfRun
    <3>4. \A i \in 1..Len(events) : client.flushed < i => OfRun(i, client.body)'
      BY <1>1, <1>2, <2>2 DEF Content, OfRun
    <3> QED BY <1>1, <2>2, <3>1, <3>2, <3>3, <3>4 DEF Content
  <2> QED BY <2>1, <2>2 DEF Recording
<1> QED BY <1>2, <1>3

\* A step keeps the content right when every post or row it adds fits.
LEMMA ContentKept ==
    ASSUME DataType, Content, Recording, \A p \in posts' : p \in posts \/ Fits(p)',
           rows' = rows \/ \E p \in posts : rows' = rows \o p.batch
    PROVE  Content'
<1>1. rows \in Seq(Row) /\ posts \subseteq Post
  BY DEF DataType
<1>2. \A i \in Nat, r \in Sessions \cup {0} : OfRun(i, r) => OfRun(i, r)'
  BY PendingKept
<1>3. /\ client'.flushed <= Len(events')
      /\ \A i \in 1..Len(events') : client'.flushed < i => OfRun(i, client.body)'
  BY PendingKept
<1>4. ASSUME NEW p \in posts PROVE Fits(p)'
  <2>1. p \in Post /\ Fits(p)
    BY <1>1, <1>4 DEF Content
  <2>2. p.run \in Sessions /\ p.batch \in Seq(Row)
    BY <2>1 DEF Post
  <2>3. ASSUME NEW j \in DOMAIN p.batch PROVE p.batch[j].run = p.run /\ OfRun(p.batch[j].event, p.run)'
    <3>1. p.batch[j] \in Row
      BY <2>2
    <3>2. PICK e \in Nat : e = p.batch[j].event
      BY <3>1 DEF Row
    <3>3. OfRun(e, p.run)'
      BY <1>2, <2>1, <2>2, <3>2 DEF Fits
    <3> QED BY <2>1, <3>2, <3>3 DEF Fits
  <2> QED BY <2>1, <2>3 DEF Fits
<1>5. ASSUME NEW j \in DOMAIN rows' PROVE OfRun(rows[j].event, rows[j].run)'
  <2>1. CASE j \in DOMAIN rows /\ rows'[j] = rows[j]
    <3>1. rows[j] \in Row
      BY <1>1, <2>1
    <3>2. PICK e \in Nat : e = rows[j].event
      BY <3>1 DEF Row
    <3>3. PICK r \in Sessions : r = rows[j].run
      BY <3>1 DEF Row
    <3>4. OfRun(e, r)'
      BY <1>2, <2>1, <3>2, <3>3 DEF Content
    <3> QED BY <2>1, <3>2, <3>3, <3>4
  <2>2. ASSUME NEW p \in posts, NEW i \in DOMAIN p.batch, rows'[j] = p.batch[i]
        PROVE  OfRun(rows[j].event, rows[j].run)'
    BY <1>4, <2>2 DEF Fits
  <2>3. CASE rows' = rows
    BY <2>1, <2>3
  <2>4. ASSUME NEW p \in posts, rows' = rows \o p.batch
        PROVE  \/ j \in DOMAIN rows /\ rows'[j] = rows[j]
               \/ \E i \in DOMAIN p.batch : rows'[j] = p.batch[i]
    <3>1. p.batch \in Seq(Row)
      BY <1>1 DEF Post
    <3>2. \/ j \in DOMAIN rows /\ rows'[j] = rows[j]
          \/ j - Len(rows) \in DOMAIN p.batch /\ rows'[j] = p.batch[j - Len(rows)]
      BY <1>1, <2>4, <3>1
    <3> QED BY <3>2
  <2> QED BY <2>1, <2>2, <2>3, <2>4
<1> QED BY <1>3, <1>4, <1>5 DEF Content

\* The post that a flush begins fits.
LEMMA FlushFits ==
    ASSUME DataType, Content, Recording, client' = client, NEW recorded \in Seq(Event), events' = recorded,
           Pending(recorded) # <<>>, NEW owner \in Owner,
           NEW q, q = [owner |-> owner, run |-> client.body, batch |-> Batch(Pending(recorded))]
    PROVE  q \in Post /\ Fits(q)'
<1>1. /\ client.flushed <= Len(recorded) /\ client \in Client /\ client.flushed \in Nat /\ Len(recorded) \in Nat
      /\ \A i \in 1..Len(recorded) : client.flushed < i => OfRun(i, client.body)'
  BY PendingKept DEF DataType, Client
<1>2. PICK batch : batch = Batch(Pending(recorded))
  OBVIOUS
<1>3. /\ client.body \in Sessions
      /\ batch \in Seq(Row) /\ Len(batch) = Len(recorded) - client.flushed
      /\ Len(batch) \in Nat \ {0} /\ batch # <<>>
      /\ \A j \in 1..Len(batch) :
           batch[j] = [run |-> client.body, seq |-> client.seq + j - 1, event |-> client.flushed + j]
  BY <1>1, <1>2, BatchFacts
<1>4. PICK body \in Sessions : body = client.body
  BY <1>3
<1>5. q.owner = owner /\ q.run = body /\ q.batch = batch /\ q \in Post
  BY <1>2, <1>3, <1>4 DEF Post
<1>6. ASSUME NEW j \in DOMAIN batch PROVE batch[j].run = body /\ OfRun(batch[j].event, body)'
  <2>1. j \in 1..Len(batch) /\ client.flushed + j \in 1..Len(recorded) /\ client.flushed < client.flushed + j
    BY <1>1, <1>3
  <2>2. batch[j].run = body /\ batch[j].event = client.flushed + j
    <3>1. batch[j] = [run |-> client.body, seq |-> client.seq + j - 1, event |-> client.flushed + j]
      BY <1>3, <2>1
    <3> QED BY <1>4, <3>1
  <2>3. PICK e \in 1..Len(recorded) : e = client.flushed + j
    BY <2>1
  <2>4. OfRun(e, client.body)'
    BY <1>1, <2>1, <2>3
  <2>5. OfRun(e, body)'
    BY <1>4, <2>4
  <2> QED BY <2>2, <2>3, <2>5
<1> QED BY <1>3, <1>5, <1>6 DEF Fits

\* A runtime_error is of the run of its session.
LEMMA ErrorFits ==
    ASSUME NEW c \in Sessions, NEW n \in Nat, Len(events') \in Nat,
           NEW q, q = [owner |-> <<"session", c>>, run |-> c, batch |-> <<[run |-> c, seq |-> n, event |-> 0]>>]
    PROVE  q \in Post /\ Fits(q)'
<1> DEFINE row == [run |-> c, seq |-> n, event |-> 0]
<1>1. row \in Row /\ <<"session", c>> \in Owner
  BY DEF Row, Owner
<1>2. <<row>> \in Seq(Row) /\ DOMAIN <<row>> = {1} /\ <<row>>[1] = row /\ <<row>> # <<>>
  BY <1>1
<1>3. q.owner = <<"session", c>> /\ q.run = c /\ q.batch = <<row>> /\ row.event = 0 /\ row.run = c
  OBVIOUS
<1>4. q \in Post
  BY <1>1, <1>2, <1>3 DEF Post
<1>5. OfRun(0, c)'
  BY DEF OfRun
<1> HIDE DEF row
<1> QED BY <1>2, <1>3, <1>4, <1>5 DEF Fits

-----------------------------------------------------------------------------
(* Flushes of a session *)

\* What a step of a session keeps, apart from the types of what it only copies.
Kept == TurnsType /\ Lock /\ Owners /\ Content /\ posts \subseteq Post /\ overlap \in BOOLEAN

\* The step leaves the rows or inserts those of a post.
Inserting == rows' = rows \/ \E p \in posts : rows' = rows \o p.batch

\* NewSession and PromptReturns: the session goes on while it posts, or at once.
LEMMA FlushKeeps ==
    ASSUME Inv, NEW c \in Sessions, at[c] \in {"session", "prompt"}, NEW point \in {"opening", "closing"},
           FlushAndGo(c, point), client' = client, events' = events, rows' = rows
    PROVE  Kept'
<1>1. /\ TurnsType /\ DataType /\ Lock /\ Owners /\ Content
      /\ client \in Client /\ events \in Seq(Event) /\ posts \subseteq Post
      /\ at[c] \in Working /\ at[c] # "ensure" /\ at[c] \notin WithPost
      /\ <<"session", c>> \in Owner /\ Recording /\ Inserting
      /\ posts = {q \in posts : q.owner # <<"session", c>>}
  BY AllPosts DEF Inv, DataType, Working, WithPost, Owner, Recording, Inserting
<1>2. CASE Pending(events) # <<>>
  <2>1. PICK q : q = [owner |-> <<"session", c>>, run |-> client.body, batch |-> Batch(Pending(events))]
    OBVIOUS
  <2>2. q \in Post /\ Fits(q)'
    BY <1>1, <1>2, <2>1, FlushFits
  <2>3. Goto(c, point) /\ posts' = posts \cup {q} /\ overlap' \in BOOLEAN
    BY <1>2, <2>1 DEF FlushAndGo, Flush, Posting
  <2>4. TurnsType' /\ Lock' /\ TurnTo(c, point) /\ at'[c] = point
    BY <1>1, <2>3, MoveTurn DEF TurnTo, Working, WithPost
  <2>5. Owners'
    <3>1. /\ q.owner = <<"session", c>> /\ at'[c] \in WithPost /\ TurnTo(c, at'[c])
          /\ posts' = {p \in posts : p.owner # <<"session", c>>} \cup {q}
      BY <1>1, <2>1, <2>3, <2>4 DEF WithPost
    <3> QED BY <1>1, <3>1, PostingOwners
  <2>6. Content'
    BY <1>1, <2>2, <2>3, ContentKept DEF Inserting
  <2> QED BY <1>1, <2>2, <2>3, <2>4, <2>5, <2>6 DEF Kept
<1>3. CASE Pending(events) = <<>>
  <2>1. posts' = posts /\ overlap' = overlap /\ (Goto(c, "prompt") \/ Answer(c, "completed"))
    BY <1>3 DEF FlushAndGo, Flush
  <2>2. TurnsType' /\ Lock' /\ at'[c] \notin WithPost /\ TurnTo(c, at'[c])
    <3>1. CASE Goto(c, "prompt")
      BY <1>1, <3>1, MoveTurn DEF TurnTo, Working, WithPost
    <3>2. CASE Answer(c, "completed")
      BY <1>1, <3>2, AnswerTurn DEF TurnTo, WithPost
    <3> QED BY <2>1, <3>1, <3>2
  <2>3. posts' = {q \in posts : q.owner # <<"session", c>>}
    BY <1>1, <2>1
  <2>4. Owners'
    BY <1>1, <2>2, <2>3, ResumedOwners
  <2>5. Content'
    BY <1>1, <2>1, ContentKept DEF Inserting
  <2> QED BY <1>1, <2>1, <2>2, <2>4, <2>5 DEF Kept, DataType
<1> QED BY <1>2, <1>3

\* The handler of an exception: the session posts what is pending, or the runtime_error.
LEMMA ExceptKeeps ==
    ASSUME Inv, NEW c \in Sessions, at[c] \in {"session", "prompt", "opening", "closing"}, NEW others,
           others = {q \in posts : q.owner # <<"session", c>>}, Except(c, others),
           client' = client, events' = events, Inserting
    PROVE  Kept'
<1>1. /\ TurnsType /\ DataType /\ Lock /\ Owners /\ Content
      /\ client \in Client /\ events \in Seq(Event) /\ posts \subseteq Post
      /\ at[c] \in Working /\ at[c] # "ensure" /\ client.seq \in Nat /\ Len(events') \in Nat
      /\ <<"session", c>> \in Owner /\ Recording
  BY DEF Inv, DataType, Client, Working, WithPost, Owner, Recording
<1>2. PICK point \in {"failing", "error"} : Goto(c, point) /\ (point = "failing" <=> Pending(events) # <<>>)
  BY DEF Except, Goto
<1>3. TurnsType' /\ Lock' /\ TurnTo(c, point) /\ at'[c] \in WithPost /\ TurnTo(c, at'[c])
  <2>1. point \in Working \ {"ensure"}
    BY DEF Working, WithPost
  <2>2. TurnsType' /\ Lock' /\ TurnTo(c, point)
    BY <1>1, <1>2, <2>1, MoveTurn
  <2> QED BY <2>2 DEF TurnTo, WithPost
<1>4. PICK q : q = IF Pending(events) # <<>>
                   THEN [owner |-> <<"session", c>>, run |-> client.body, batch |-> Batch(Pending(events))]
                   ELSE ErrorPost(c)
  OBVIOUS
<1>5. posts' = others \cup {q} /\ overlap' \in BOOLEAN
  BY <1>4 DEF Except, Posting
<1>6. q.owner = <<"session", c>> /\ q \in Post /\ Fits(q)'
  <2>1. CASE Pending(events) # <<>>
    BY <1>1, <1>4, <2>1, FlushFits
  <2>2. CASE Pending(events) = <<>>
    <3>1. PICK n \in Nat : n = client.seq
      BY <1>1
    <3>2. q = [owner |-> <<"session", c>>, run |-> c, batch |-> <<[run |-> c, seq |-> n, event |-> 0]>>]
      BY <1>4, <2>2, <3>1 DEF ErrorPost
    <3> QED BY <1>1, <3>2, ErrorFits
  <2> QED BY <2>1, <2>2
<1>7. Owners'
  BY <1>1, <1>3, <1>5, <1>6, PostingOwners
<1>8. Content'
  BY <1>1, <1>5, <1>6, ContentKept DEF Inserting
<1> QED BY <1>1, <1>3, <1>5, <1>6, <1>7, <1>8 DEF Kept

\* A session whose post is over answers.
LEMMA AnswerKeeps ==
    ASSUME Inv, NEW c \in Sessions, at[c] \in Working, NEW result \in {"completed", "failed"}, Answer(c, result),
           posts' = {q \in posts : q.owner # <<"session", c>>}, overlap' \in BOOLEAN,
           client'.body = client.body, client'.flushed = Len(events) \/ client'.flushed = client.flushed,
           events' = events, Inserting
    PROVE  Kept'
<1>1. /\ TurnsType /\ DataType /\ Lock /\ Owners /\ Content /\ posts \subseteq Post /\ Recording
  BY DEF Inv, DataType, Recording
<1>2. TurnsType' /\ Lock' /\ TurnTo(c, "done")
  BY <1>1, AnswerTurn
<1>3. at'[c] \notin WithPost /\ TurnTo(c, at'[c])
  BY <1>2 DEF TurnTo, WithPost
<1>4. Owners'
  BY <1>1, <1>3, ResumedOwners
<1>5. Content'
  BY <1>1, ContentKept DEF Inserting
<1> QED BY <1>1, <1>2, <1>4, <1>5 DEF Kept

\* The task of an update ends with its post.
LEMMA UpdateEnds ==
    ASSUME Inv, NEW p \in posts, p.owner[1] = "update", posts' = posts \ {p}, overlap' \in BOOLEAN,
           UNCHANGED <<at, caller, queue>>,
           client'.body = client.body, client'.flushed = Len(events) \/ client'.flushed = client.flushed,
           events' = events, Inserting
    PROVE  Kept'
<1>1. /\ TurnsType /\ DataType /\ Lock /\ Owners /\ Content /\ posts \subseteq Post /\ Recording
  BY DEF Inv, DataType, Recording
<1>2. TurnsType' /\ Lock'
  BY <1>1 DEF TurnsType, Lock
<1>3. \A c \in Sessions : p.owner # <<"session", c>>
  OBVIOUS
<1>4. Owners'
  BY <1>1, <1>3 DEF Owners
<1>5. Content'
  BY <1>1, ContentKept DEF Inserting
<1> QED BY <1>1, <1>2, <1>4, <1>5 DEF Kept

\* The index moves to what has been recorded, or stays; the session stays.
LEMMA AdvancedFacts ==
    ASSUME DataType, NEW p \in posts, client' = Advanced(p)
    PROVE  /\ client' \in Client /\ client'.body = client.body
           /\ client'.flushed = Len(events) \/ client'.flushed = client.flushed
<1>1. client \in Client /\ p.batch \in Seq(Row) /\ Len(events) \in Nat
  BY DEF DataType, Post
<1>2. Len(p.batch) \in Nat
  BY <1>1
<1>3. PICK n \in Nat, k \in Nat : n = Len(p.batch) /\ k = Len(events)
  BY <1>1, <1>2
<1>4. client' = client \/ client' = [client EXCEPT !.flushed = k, !.seq = @ + n]
  BY <1>3 DEF Advanced
<1>5. client.body \in Sessions \cup {0} /\ client.seq \in Nat /\ client.seq + n \in Nat
  BY <1>1, <1>3 DEF Client
<1>6. CASE client' = [client EXCEPT !.flushed = k, !.seq = @ + n]
  <2>1. client' = [body |-> client.body, flushed |-> k, seq |-> client.seq + n]
    BY <1>1, <1>6 DEF Client
  <2> QED BY <1>3, <1>5, <2>1 DEF Client
<1> QED BY <1>1, <1>4, <1>6

\* The owner of a post that returns goes on.
LEMMA ResumeKeeps ==
    ASSUME Inv, NEW p \in posts, Resume(p), client' = Advanced(p), events' = events, Inserting
    PROVE  Kept'
<1>1. /\ TurnsType /\ DataType /\ Lock /\ Owners /\ Content /\ posts \subseteq Post
      /\ Len(events') \in Nat /\ client \in Client /\ p \in Post
  BY DEF Inv, DataType
<1>2. /\ client'.body = client.body
      /\ client'.flushed = Len(events) \/ client'.flushed = client.flushed
  BY <1>1, AdvancedFacts
<1>3. CASE p.owner[1] = "update"
  <2>1. posts' = posts \ {p} /\ overlap' \in BOOLEAN /\ UNCHANGED <<at, caller, queue>>
    BY <1>3 DEF Resume, Posting, Stay
  <2> QED BY <1>2, <1>3, <2>1, UpdateEnds
<1>4. CASE p.owner[1] # "update"
  <2>1. PICK c \in Sessions : p.owner = <<"session", c>> /\ p.owner[1] = "session" /\ p.owner[2] = c
    BY <1>1, <1>4 DEF Post, Owner
  <2>2. at[c] \in WithPost /\ posts \ {p} = {q \in posts : q.owner # <<"session", c>>}
    BY <1>1, <2>1, OtherPosts DEF Owners
  <2>3. PICK others : others = posts \ {p}
    OBVIOUS
  <2>4. CASE at[c] \in {"closing", "error"}
    <3>1. (Answer(c, "completed") \/ Answer(c, "failed")) /\ Posting(others)
      BY <1>4, <2>1, <2>3, <2>4 DEF Resume
    <3>2. posts' = {q \in posts : q.owner # <<"session", c>>} /\ overlap' \in BOOLEAN /\ at[c] \in Working
      BY <2>2, <2>3, <3>1 DEF Posting, Working
    <3> QED BY <1>2, <3>1, <3>2, AnswerKeeps
  <2>5. CASE at[c] = "opening"
    <3>1. Goto(c, "prompt") /\ Posting(others)
      BY <1>4, <2>1, <2>3, <2>5 DEF Resume
    <3>2. posts' = {q \in posts : q.owner # <<"session", c>>} /\ overlap' \in BOOLEAN /\ at[c] \in Working
      BY <2>2, <2>3, <3>1 DEF Posting, Working
    <3>3. TurnsType' /\ Lock' /\ TurnTo(c, "prompt")
      BY <1>1, <1>2, <2>5, <3>1, <3>2, MoveTurn DEF Working, WithPost
    <3>4. at'[c] \notin WithPost /\ TurnTo(c, at'[c])
      BY <3>3 DEF TurnTo, WithPost
    <3>5. Owners'
      BY <1>1, <3>2, <3>4, ResumedOwners
    <3>6. Content'
      BY <1>1, <1>2, <3>2, ContentKept DEF Inserting, Recording
    <3> QED BY <1>1, <3>2, <3>3, <3>5, <3>6 DEF Kept
  <2>6. CASE at[c] = "failing"
    <3>1. PICK q : q = [ErrorPost(c) EXCEPT !.batch[1].seq = client.seq + Len(p.batch)]
      OBVIOUS
    <3>2. Goto(c, "error") /\ Posting(others \cup {q})
      BY <1>4, <2>1, <2>3, <2>6, <3>1 DEF Resume
    <3>3. PICK n \in Nat : n = client.seq + Len(p.batch)
      <4>1. client.seq \in Nat /\ p.batch \in Seq(Row)
        BY <1>1 DEF Client, Post
      <4>2. Len(p.batch) \in Nat
        BY <4>1
      <4> QED BY <4>1, <4>2
    <3>4. q = [owner |-> <<"session", c>>, run |-> c, batch |-> <<[run |-> c, seq |-> n, event |-> 0]>>]
      <4> DEFINE row == [run |-> c, seq |-> client.seq, event |-> 0]
      <4>1. [<<row>> EXCEPT ![1].seq = n] = <<[run |-> c, seq |-> n, event |-> 0]>>
        OBVIOUS
      <4> QED BY <3>1, <3>3, <4>1 DEF ErrorPost
    <3>5. q.owner = <<"session", c>> /\ q \in Post /\ Fits(q)'
      BY <1>1, <3>4, ErrorFits
    <3>6. /\ posts' = {r \in posts : r.owner # <<"session", c>>} \cup {q}
          /\ overlap' \in BOOLEAN /\ at[c] \in Working
      BY <2>2, <2>3, <3>2 DEF Posting, Working
    <3>7. TurnsType' /\ Lock' /\ TurnTo(c, "error")
      BY <1>1, <1>2, <2>6, <3>2, <3>6, MoveTurn DEF Working, WithPost
    <3>8. at'[c] \in WithPost /\ TurnTo(c, at'[c])
      BY <3>7 DEF TurnTo, WithPost
    <3>9. Owners'
      BY <1>1, <3>5, <3>6, <3>8, PostingOwners
    <3>10. Content'
      BY <1>1, <1>2, <3>5, <3>6, ContentKept DEF Inserting, Recording
    <3> QED BY <1>1, <3>5, <3>6, <3>7, <3>9, <3>10 DEF Kept
  <2> QED BY <2>2, <2>4, <2>5, <2>6 DEF WithPost
<1> QED BY <1>3, <1>4

-----------------------------------------------------------------------------
(* The steps *)

\* At first the server is idle, with nothing recorded.
LEMMA InitInv == Init => Inv
<1> SUFFICES ASSUME Init PROVE Inv
  OBVIOUS
<1>1. TurnsType
  BY DEF Init, TurnsType, CallerStates, ControlPoints
<1>2. DataType
  <2>1. client \in Client /\ history \in History
    BY DEF Init, Client, History
  <2>2. events \in Seq(Event) /\ rows \in Seq(Row)
    BY DEF Init
  <2>3. agent \in {"none", "up", "dead"} /\ posts \subseteq Post /\ overlap \in BOOLEAN
    BY DEF Init
  <2> QED BY <2>1, <2>2, <2>3 DEF DataType
<1>3. Lock /\ Owners
  BY DEF Init, Lock, Owners, Working, WithPost
<1>4. Content
  BY DEF Init, Content
<1> QED BY <1>1, <1>2, <1>3, <1>4 DEF Inv

\* The history variables keep their types.
LEMMA HistoryType ==
    ASSUME history \in History, NEW flag \in BOOLEAN,
           \/ history' = history
           \/ Faulted(flag)
           \/ history' = [history EXCEPT !.late = @ \/ flag]
           \/ \E c \in Sessions : history' = [history EXCEPT !.opened = @ \cup {c}]
    PROVE  history' \in History
<1>1. /\ history.faults \in Nat /\ history.lost \in BOOLEAN /\ history.late \in BOOLEAN
      /\ history.opened \in SUBSET Sessions
  BY DEF History
<1>2. CASE Faulted(flag)
  <2>1. PICK b \in BOOLEAN : b = (history.lost \/ flag)
    BY <1>1
  <2>2. history' = [history EXCEPT !.faults = @ + 1, !.lost = b]
    BY <1>2, <2>1 DEF Faulted
  <2>3. history.faults + 1 \in Nat
    BY <1>1
  <2>4. history' = [faults |-> history.faults + 1, lost |-> b, late |-> history.late, opened |-> history.opened]
    BY <2>2 DEF History
  <2> QED BY <1>1, <2>3, <2>4 DEF History
<1>3. CASE history' = [history EXCEPT !.late = @ \/ flag]
  <2>1. PICK b \in BOOLEAN : b = (history.late \/ flag)
    BY <1>1
  <2>2. history' = [history EXCEPT !.late = b]
    BY <1>3, <2>1
  <2> QED BY <1>1, <2>2 DEF History
<1>4. ASSUME NEW c \in Sessions, history' = [history EXCEPT !.opened = @ \cup {c}]
      PROVE  history' \in History
  <2>1. history.opened \cup {c} \in SUBSET Sessions
    BY <1>1
  <2> QED BY <1>1, <1>4, <2>1 DEF History
<1> QED BY <1>2, <1>3, <1>4

\* Inserted rows have their types.
LEMMA RowsType ==
    ASSUME DataType, Inserting
    PROVE  rows' \in Seq(Row)
<1>1. rows \in Seq(Row) /\ \A p \in posts : p.batch \in Seq(Row)
  BY DEF DataType, Post
<1>2. ASSUME NEW p \in posts, rows' = rows \o p.batch PROVE rows' \in Seq(Row)
  BY <1>1, <1>2
<1> QED BY <1>1, <1>2 DEF Inserting

\* A session that comes waits at the end of the queue.
LEMMA RequestKeeps == ASSUME Inv, NEW c \in Sessions, Request(c) PROVE Inv'
<1>1. /\ TurnsType /\ DataType /\ Lock /\ Owners /\ Content
      /\ UNCHANGED <<agent, client, events, posts, overlap, rows, history>>
  BY DEF Inv, Request
<1>2. TurnsType' /\ Lock' /\ at[c] = "idle" /\ TurnTo(c, at'[c]) /\ at'[c] \notin WithPost
  BY <1>1, RequestTurn DEF WithPost
<1>3. posts' = {q \in posts : q.owner # <<"session", c>>}
  BY <1>1, <1>2, AllPosts DEF WithPost
<1>4. Owners'
  BY <1>1, <1>2, <1>3, ResumedOwners
<1>5. DataType' /\ Content'
  BY <1>1 DEF DataType, Content, Fits, OfRun
<1> QED BY <1>2, <1>4, <1>5 DEF Inv

\* A caller that gives up leaves its session alone.
LEMMA GiveUpKeeps == ASSUME Inv, NEW c \in Sessions, GiveUp(c) PROVE Inv'
<1>1. /\ TurnsType /\ DataType /\ Lock /\ Owners /\ Content /\ history' \in History
      /\ caller[c] = "waiting" /\ caller' = [caller EXCEPT ![c] = "gave up"]
      /\ UNCHANGED <<at, queue, agent, client, events, posts, overlap, rows>>
  BY HistoryType DEF Inv, GiveUp, DataType
<1>2. TurnsType' /\ Lock'
  <2>1. caller' \in [Sessions -> CallerStates]
    BY <1>1 DEF TurnsType, CallerStates
  <2>2. \A d \in Sessions : caller'[d] = caller[d] \/ caller'[d] = "gave up"
    BY <1>1 DEF TurnsType
  <2>3. TurnsType'
    BY <1>1, <2>1 DEF TurnsType
  <2>4. /\ \A i, j \in DOMAIN queue' : queue'[i] = queue'[j] => i = j
        /\ \A i \in DOMAIN queue' : IF i = 1 THEN at'[queue'[i]] \in Working ELSE at'[queue'[i]] = "lock"
    BY <1>1 DEF Lock
  <2>5. ASSUME NEW d \in Sessions
        PROVE  /\ at'[d] \in Working => queue' # <<>> /\ d = queue'[1]
               /\ at'[d] \in Working \ {"ensure"} => client'.body = d
               /\ caller'[d] = "idle" => at'[d] = "idle"
               /\ caller'[d] \in {"completed", "failed"} => at'[d] = "done"
    <3>1. caller'[d] \in {"idle", "completed", "failed"} => caller'[d] = caller[d]
      BY <2>2
    <3> QED BY <1>1, <3>1 DEF Lock
  <2> QED BY <2>3, <2>4, <2>5 DEF Lock
<1>3. DataType' /\ Content' /\ Owners'
  BY <1>1 DEF DataType, Owners, Content, Fits, OfRun
<1> QED BY <1>2, <1>3 DEF Inv

\* The session that got the lock takes the client over.
LEMMA EnsureAgentKeeps == ASSUME Inv, NEW c \in Sessions, EnsureAgent(c) PROVE Inv'
<1>1. /\ TurnsType /\ DataType /\ Lock /\ Owners /\ Content /\ posts \subseteq Post
      /\ at[c] = "ensure" /\ client' = Begun(c) /\ Goto(c, "session")
      /\ events' = events /\ rows' = rows /\ posts' = posts
  BY DEF Inv, EnsureAgent, DataType
<1>2. Len(events) \in Nat
  BY <1>1 DEF DataType
<1>3. PICK n \in Nat : n = Len(events)
  BY <1>2
<1>4. client' = [body |-> c, flushed |-> n, seq |-> 0]
  BY <1>1, <1>3 DEF Begun
<1>5. client'.body = c /\ client'.flushed = n /\ client' \in Client
  BY <1>4 DEF Client
<1>6. DataType'
  <2>1. agent' \in {"none", "up", "dead"} /\ UNCHANGED <<events, posts, overlap, rows, history>>
    BY <1>1 DEF EnsureAgent, DataType
  <2> QED BY <1>1, <1>5, <2>1 DEF DataType
<1>7. TurnsType' /\ Lock' /\ TurnTo(c, "session")
  BY <1>1, <1>5, MoveTurn DEF Working, WithPost
<1>8. at'[c] \notin WithPost /\ TurnTo(c, at'[c])
  BY <1>7 DEF TurnTo, WithPost
<1>9. Owners'
  <2>1. posts' = {q \in posts : q.owner # <<"session", c>>}
    BY <1>1, AllPosts DEF WithPost
  <2> QED BY <1>1, <1>8, <2>1, ResumedOwners
<1>10. Content'
  BY <1>1, <1>3, <1>5, ContentKept DEF Recording
<1> QED BY <1>6, <1>7, <1>9, <1>10 DEF Inv

\* A session without an agent hands the lock on.
LEMMA AgentDoesNotStartKeeps == ASSUME Inv, NEW c \in Sessions, AgentDoesNotStart(c) PROVE Inv'
<1>1. /\ DataType /\ Owners /\ posts \subseteq Post /\ history' \in History
      /\ at[c] \in Working /\ at[c] \notin WithPost /\ Answer(c, "failed")
      /\ UNCHANGED <<agent, client, events, posts, overlap, rows>>
  BY HistoryType DEF Inv, AgentDoesNotStart, DataType, Working, WithPost
<1>2. posts' = {q \in posts : q.owner # <<"session", c>>} /\ overlap' \in BOOLEAN
  BY <1>1, AllPosts DEF DataType
<1>3. Kept'
  BY <1>1, <1>2, AnswerKeeps DEF Inserting
<1> QED BY <1>1, <1>3 DEF Inv, Kept, DataType

\* A session flushes after it is opened and after its prompt.
LEMMA FlushStepKeeps == ASSUME Inv, NEW c \in Sessions, NewSession(c) \/ PromptReturns(c) PROVE Inv'
<1>1. /\ DataType /\ history' \in History /\ UNCHANGED <<agent, client, events, rows>>
      /\ at[c] \in {"session", "prompt"}
      /\ FlushAndGo(c, "opening") \/ FlushAndGo(c, "closing")
  BY HistoryType DEF Inv, NewSession, PromptReturns, DataType
<1>2. Kept'
  BY <1>1, FlushKeeps
<1> QED BY <1>1, <1>2 DEF Inv, Kept, DataType

\* A session whose agent fails posts what is left.
LEMMA AgentRaisesKeeps == ASSUME Inv, NEW c \in Sessions, AgentRaises(c) PROVE Inv'
<1>1. /\ DataType /\ Owners /\ history' \in History /\ UNCHANGED <<agent, client, events, rows>>
      /\ at[c] \in {"session", "prompt"} /\ Except(c, posts) /\ Inserting
  BY HistoryType DEF Inv, AgentRaises, DataType, Inserting
<1>2. PICK others : others = posts
  OBVIOUS
<1>3. others = {q \in posts : q.owner # <<"session", c>>}
  BY <1>1, <1>2, AllPosts DEF WithPost
<1>4. Kept'
  BY <1>1, <1>2, <1>3, ExceptKeeps
<1> QED BY <1>1, <1>4 DEF Inv, Kept, DataType

\* The agent dies on its own.
LEMMA AgentDiesKeeps == ASSUME Inv, AgentDies PROVE Inv'
<1>1. /\ TurnsType /\ DataType /\ Lock /\ Owners /\ Content /\ agent' = "dead" /\ Faulted(FALSE)
      /\ UNCHANGED <<caller, at, queue, client, events, posts, overlap, rows>>
  BY DEF Inv, AgentDies
<1>2. history' \in History
  BY <1>1, HistoryType DEF DataType
<1>3. TurnsType' /\ Lock' /\ Owners'
  BY <1>1 DEF TurnsType, Lock, Owners
<1>4. DataType' /\ Content'
  BY <1>1, <1>2 DEF DataType, Content, Fits, OfRun
<1> QED BY <1>3, <1>4 DEF Inv

\* An update is recorded for its own session, which is the client's or has had its answer.
LEMMA UpdateKeeps == ASSUME Inv, NEW c \in Sessions, Update(c) PROVE Inv'
<1>1. /\ TurnsType /\ DataType /\ Lock /\ Owners /\ Content /\ posts \subseteq Post /\ events \in Seq(Event)
      /\ Len(events) \in Nat /\ rows' = rows /\ client' = client /\ UNCHANGED <<caller, at, queue, agent>>
  BY DEF Inv, DataType, Update
<1>2. PICK late \in BOOLEAN : late = (at[c] \notin {"opening", "prompt"})
  OBVIOUS
<1>3. PICK recorded : recorded = Recorded(c, late)
  OBVIOUS
<1>4. /\ events' = recorded /\ Flush(<<"update", Len(recorded)>>, recorded)
      /\ history' = [history EXCEPT !.late = @ \/ late]
  BY <1>2, <1>3 DEF Update
<1>5. PICK e \in Event : e = [of |-> c, late |-> late]
  BY DEF Event
<1>6. events' = Append(events, e) /\ recorded \in Seq(Event) /\ Len(recorded) = Len(events) + 1
  BY <1>1, <1>3, <1>4, <1>5 DEF Recorded
<1>7. Recording
  <2>1. ~late => client.body = c
    BY <1>1, <1>2 DEF Lock, Working, WithPost
  <2>2. e.late \/ e.of = client.body
    BY <1>5, <2>1
  <2> QED BY <1>1, <1>6, <2>2 DEF Recording
<1>8. PICK owner \in Owner : owner = <<"update", Len(recorded)>>
  <2>1. Len(recorded) \in Nat
    BY <1>1, <1>6
  <2>2. <<"update", Len(recorded)>> \in Owner
    BY <2>1 DEF Owner
  <2> QED BY <2>2
<1>9. history' \in History
  BY <1>1, <1>4, HistoryType DEF DataType
<1>10. TurnsType' /\ Lock'
  BY <1>1 DEF TurnsType, Lock
<1>11. CASE Pending(recorded) = <<>>
  <2>1. UNCHANGED <<posts, overlap>>
    BY <1>4, <1>11 DEF Flush
  <2>2. DataType'
    BY <1>1, <1>4, <1>6, <1>9, <2>1 DEF DataType
  <2>3. Owners'
    <3>1. \A p \in posts : p.owner[1] = "update" => p.owner[2] \in Nat /\ p.owner[2] <= Len(events)
      BY <1>1 DEF Owners, Post, Owner
    <3>2. \A p \in posts : p.owner[1] = "update" => p.owner[2] <= Len(events')
      BY <1>1, <1>4, <1>6, <3>1
    <3> QED BY <1>1, <2>1, <3>2 DEF Owners
  <2>4. Content'
    BY <1>1, <1>7, <2>1, ContentKept
  <2> QED BY <1>10, <2>2, <2>3, <2>4 DEF Inv
<1>12. CASE Pending(recorded) # <<>>
  <2>1. PICK q : q = [owner |-> owner, run |-> client.body, batch |-> Batch(Pending(recorded))]
    OBVIOUS
  <2>2. posts' = posts \cup {q} /\ overlap' \in BOOLEAN
    BY <1>4, <1>8, <1>12, <2>1 DEF Flush, Posting
  <2>3. q \in Post /\ Fits(q)'
    BY <1>1, <1>4, <1>6, <1>7, <1>12, <2>1, FlushFits
  <2>4. DataType'
    BY <1>1, <1>4, <1>6, <1>9, <2>2, <2>3 DEF DataType
  <2>5. Owners'
    <3>1. q.owner = owner /\ owner[1] = "update" /\ owner[2] = Len(events) + 1
          /\ \A d \in Sessions : owner # <<"session", d>>
      BY <1>6, <1>8, <2>1
    <3>2. \A p \in posts : p.owner[1] = "update" => p.owner[2] \in Nat /\ p.owner[2] <= Len(events)
      BY <1>1 DEF Owners, Post, Owner
    <3>3. \A p \in posts : p.owner # owner
      BY <1>1, <3>1, <3>2
    <3>4. \A p, r \in posts' : p.owner = r.owner => p = r
      BY <1>1, <2>2, <3>1, <3>3 DEF Owners
    <3>5. \A d \in Sessions : at'[d] \in WithPost <=> \E p \in posts' : p.owner = <<"session", d>>
      BY <1>1, <2>2, <3>1 DEF Owners
    <3>6. \A p \in posts' : p.owner[1] = "update" => p.owner[2] <= Len(events')
      BY <1>1, <1>4, <1>6, <2>2, <3>1, <3>2
    <3> QED BY <3>4, <3>5, <3>6 DEF Owners
  <2>6. Content'
    BY <1>1, <1>7, <2>2, <2>3, ContentKept
  <2> QED BY <1>10, <2>4, <2>5, <2>6 DEF Inv
<1> QED BY <1>11, <1>12

\* A post ends: it returns, is refused, or breaks.
LEMMA PostEndKeeps ==
    ASSUME Inv, NEW p \in posts, PostReturns(p) \/ PostIsRefused(p) \/ PostBreaks(p)
    PROVE  Inv'
<1>1. /\ DataType /\ Owners /\ p \in Post /\ agent' = agent /\ events' = events /\ history' \in History
      /\ Inserting
  BY HistoryType DEF Inv, DataType, PostReturns, PostIsRefused, PostBreaks, Inserting, Inserted
<1>2. rows' \in Seq(Row)
  BY <1>1, RowsType
<1>3. CASE PostReturns(p) \/ PostIsRefused(p)
  <2>1. client' = Advanced(p) /\ Resume(p)
    BY <1>3 DEF PostReturns, PostIsRefused
  <2>2. Kept' /\ client' \in Client
    BY <1>1, <2>1, ResumeKeeps, AdvancedFacts
  <2> QED BY <1>1, <1>2, <2>2 DEF Inv, Kept, DataType
<1>4. CASE PostBreaks(p)
  <2>1. client' = client
    BY <1>4 DEF PostBreaks
  <2>2. Kept'
    <3>1. CASE p.owner[1] = "update"
      <4>1. posts' = posts \ {p} /\ overlap' \in BOOLEAN /\ UNCHANGED <<at, caller, queue>>
        BY <1>4, <3>1 DEF PostBreaks, Posting, Stay
      <4> QED BY <1>1, <2>1, <3>1, <4>1, UpdateEnds
    <3>2. CASE p.owner[1] # "update"
      <4>1. PICK c \in Sessions : p.owner = <<"session", c>> /\ p.owner[1] = "session" /\ p.owner[2] = c
        BY <1>1, <3>2 DEF Post, Owner
      <4>2. PICK others : others = posts \ {p}
        OBVIOUS
      <4>3. at[c] \in WithPost /\ at[c] \in Working /\ others = {q \in posts : q.owner # <<"session", c>>}
        BY <1>1, <4>1, <4>2, OtherPosts DEF Owners, Working
      <4>4. CASE at[c] \in {"opening", "closing"}
        <5>1. Except(c, others)
          BY <1>4, <3>2, <4>1, <4>2, <4>4 DEF PostBreaks
        <5> QED BY <1>1, <2>1, <4>3, <4>4, <5>1, ExceptKeeps
      <4>5. CASE at[c] \notin {"opening", "closing"}
        <5>1. Answer(c, "failed") /\ Posting(others)
          BY <1>4, <3>2, <4>1, <4>2, <4>5 DEF PostBreaks
        <5>2. posts' = {q \in posts : q.owner # <<"session", c>>} /\ overlap' \in BOOLEAN
          BY <4>3, <5>1 DEF Posting
        <5> QED BY <1>1, <2>1, <4>3, <5>1, <5>2, AnswerKeeps
      <4> QED BY <4>4, <4>5
    <3> QED BY <3>1, <3>2
  <2> QED BY <1>1, <1>2, <2>1, <2>2 DEF Inv, Kept, DataType
<1> QED BY <1>3, <1>4

\* Every step keeps the invariant.
LEMMA NextInv == ASSUME Inv, [Next]_vars PROVE Inv'
<1>1. ASSUME NEW c \in Sessions, Step(c) PROVE Inv'
  BY <1>1, RequestKeeps, GiveUpKeeps, EnsureAgentKeeps, AgentDoesNotStartKeeps, FlushStepKeeps,
     AgentRaisesKeeps, UpdateKeeps DEF Step
<1>2. CASE UNCHANGED vars
  BY <1>2 DEF vars, Inv, TurnsType, DataType, Lock, Owners, Content, Fits, OfRun
<1> QED BY <1>1, <1>2, AgentDiesKeeps, PostEndKeeps DEF Next

\* The invariant holds of all runs of the server.
LEMMA InvHolds == Spec => []Inv
<1> QED BY InitInv, NextInv, PTL DEF Spec

-----------------------------------------------------------------------------
(* Types and runs *)

\* The invariant holds the types.
LEMMA InvTypes == ASSUME Inv PROVE TypeOK
<1>1. /\ TurnsType /\ DataType /\ Lock /\ Owners /\ Content
  BY DEF Inv
<1>2. \A c \in Sessions : caller[c] \in CallerStates /\ at[c] \in ControlPoints
  BY <1>1 DEF TurnsType
<1>3. \A i \in 2..Len(queue) : at[queue[i]] = "lock"
  <2> SUFFICES ASSUME NEW i \in 2..Len(queue) PROVE at[queue[i]] = "lock"
    OBVIOUS
  <2>1. i \in DOMAIN queue /\ i # 1
    BY <1>1 DEF TurnsType
  <2> QED BY <1>1, <2>1 DEF Lock
<1>4. \A i \in 1..Len(rows) : rows[i].run \in Sessions /\ rows[i].event \in 0..Len(events)
  <2> SUFFICES ASSUME NEW i \in 1..Len(rows)
               PROVE  rows[i].run \in Sessions /\ rows[i].event \in 0..Len(events)
    OBVIOUS
  <2>1. i \in DOMAIN rows /\ rows[i] \in Row /\ Len(events) \in Nat
    BY <1>1 DEF DataType
  <2> QED BY <1>1, <2>1 DEF Content, OfRun, Row
<1>5. client.body \in Sessions \cup {0} /\ client.flushed <= Len(events) /\ client.seq \in Nat
  BY <1>1 DEF DataType, Client, Content
<1>6. \A c \in Sessions : /\ caller[c] \in {"completed", "failed"} => at[c] = "done"
                          /\ at[c] \in WithPost <=> \E p \in posts : p.owner = <<"session", c>>
  BY <1>1 DEF Lock, Owners
<1> QED BY <1>1, <1>2, <1>3, <1>4, <1>5, <1>6
        DEF TypeOK, DataType, CallerStates, ControlPoints, Working, WithPost

\* The queue, the posts and the rows are well formed (TypeOK): who waits for the lock waits,
\* a session posts exactly at the points that wait for a post, and every row of a transcript
\* is of an event that was recorded.
THEOREM Types == Spec => []TypeOK
BY InvTypes, InvHolds, PTL

\* A row whose event is of its run, or late, is in its place.
LEMMA InvStay == ASSUME Inv PROVE UpdatesStayInTheirRun
<1> SUFFICES ASSUME NEW j \in 1..Len(rows)
             PROVE  rows[j].event = 0 \/ events[rows[j].event].of = rows[j].run \/ events[rows[j].event].late
  BY DEF UpdatesStayInTheirRun
<1>1. j \in DOMAIN rows
  BY DEF Inv, DataType
<1> QED BY <1>1 DEF Inv, Content, OfRun

\* Whatever posts fail and in whatever order they end, an update stands in the transcript of
\* its own run, unless the agent sent it after the prompt of its session had ended
\* (UpdatesStayInTheirRun): the sessions share a client, but each flush takes only events of
\* the session that the client is of, and a post keeps its run.
THEOREM UpdatesStay == Spec => []UpdatesStayInTheirRun
BY InvStay, InvHolds, PTL

-----------------------------------------------------------------------------
(* Completeness *)

\* A post that returns takes no other with it.
LEMMA ReturnsPosting ==
    ASSUME Inv, NEW p \in posts, PostReturns(p)
    PROVE  \E inProgress : Posting(inProgress) /\ posts \ {p} \subseteq inProgress
<1>1. PICK others : others = posts \ {p}
  OBVIOUS
<1>2. CASE p.owner[1] = "update"
  BY <1>2 DEF PostReturns, Resume
<1>3. CASE p.owner[1] # "update"
  <2>1. PICK c \in Sessions : p.owner = <<"session", c>> /\ p.owner[1] = "session" /\ p.owner[2] = c
    BY <1>3 DEF Inv, DataType, Post, Owner
  <2>2. at[c] \in WithPost
    BY <2>1 DEF Inv, Owners
  <2>3. PICK q : q = [ErrorPost(c) EXCEPT !.batch[1].seq = client.seq + Len(p.batch)]
    OBVIOUS
  <2>4. Posting(others) \/ Posting(others \cup {q})
    BY <1>1, <1>3, <2>1, <2>2, <2>3 DEF PostReturns, Resume, WithPost
  <2> QED BY <1>1, <2>4
<1> QED BY <1>2, <1>3

\* A step that inserts the post it ends, or ends none, loses no update.
LEMMA NothingLost ==
    ASSUME Inv, EveryUpdateArrives, ~history.lost, events' = events,
           \/ rows' = rows /\ posts \subseteq posts'
           \/ \E p \in posts : rows' = rows \o p.batch /\ posts \ {p} \subseteq posts'
    PROVE  EveryUpdateArrives'
<1>1. rows \in Seq(Row) /\ \A p \in posts : p.batch \in Seq(Row) /\ Fits(p)
  BY DEF Inv, DataType, Post, Content
<1> SUFFICES ASSUME NEW i \in 1..Len(events), ~events[i].late
             PROVE  \/ \E p \in posts' : \E j \in 1..Len(p.batch) : p.batch[j].event = i /\ p.run = events[i].of
                    \/ \E j \in 1..Len(rows') : rows'[j].event = i /\ rows'[j].run = events[i].of
  BY DEF EveryUpdateArrives, OnItsWay
<1>2. \/ \E p \in posts : \E j \in 1..Len(p.batch) : p.batch[j].event = i /\ p.run = events[i].of
      \/ \E j \in 1..Len(rows) : rows[j].event = i /\ rows[j].run = events[i].of
  BY DEF EveryUpdateArrives, OnItsWay
<1>3. CASE rows' = rows /\ posts \subseteq posts'
  BY <1>2, <1>3
<1>4. ASSUME NEW p \in posts, rows' = rows \o p.batch, posts \ {p} \subseteq posts'
      PROVE  \/ \E q \in posts' : \E j \in 1..Len(q.batch) : q.batch[j].event = i /\ q.run = events[i].of
             \/ \E j \in 1..Len(rows') : rows'[j].event = i /\ rows'[j].run = events[i].of
  <2>1. /\ \A j \in 1..Len(rows) : j \in 1..Len(rows') /\ rows'[j] = rows[j]
        /\ \A j \in 1..Len(p.batch) : Len(rows) + j \in 1..Len(rows') /\ rows'[Len(rows) + j] = p.batch[j]
    BY <1>1, <1>4
  <2>2. CASE \E j \in 1..Len(rows) : rows[j].event = i /\ rows[j].run = events[i].of
    BY <2>1, <2>2
  <2>3. ASSUME NEW q \in posts, NEW j \in 1..Len(q.batch), q.batch[j].event = i, q.run = events[i].of
        PROVE  \/ \E r \in posts' : \E k \in 1..Len(r.batch) : r.batch[k].event = i /\ r.run = events[i].of
               \/ \E k \in 1..Len(rows') : rows'[k].event = i /\ rows'[k].run = events[i].of
    <3>1. CASE q # p
      BY <1>4, <2>3, <3>1
    <3>2. CASE q = p
      <4>1. p.batch[j].run = p.run
        BY <1>1, <2>3, <3>2 DEF Fits
      <4> QED BY <2>1, <2>3, <3>2, <4>1
    <3> QED BY <3>1, <3>2
  <2> QED BY <1>2, <2>2, <2>3
<1> QED BY <1>3, <1>4

\* An update that is not late is in the post that its flush begins.
LEMMA UpdateArrives ==
    ASSUME 0 \notin Sessions, Inv, EveryUpdateArrives, ~history.lost, NEW c \in Sessions, Update(c)
    PROVE  EveryUpdateArrives'
<1>1. /\ events \in Seq(Event) /\ Len(events) \in Nat /\ client \in Client /\ rows' = rows
      /\ client.flushed \in Nat /\ client.flushed <= Len(events) /\ client' = client
  BY DEF Inv, DataType, Client, Content, Update
<1>2. PICK late \in BOOLEAN : late = (at[c] \notin {"opening", "prompt"})
  OBVIOUS
<1>3. PICK recorded : recorded = Recorded(c, late)
  OBVIOUS
<1>4. /\ events' = recorded /\ Flush(<<"update", Len(recorded)>>, recorded)
      /\ recorded \in Seq(Event) /\ Len(recorded) = Len(events) + 1
      /\ recorded[Len(events) + 1] = [of |-> c, late |-> late]
      /\ \A i \in 1..Len(events) : recorded[i] = events[i]
  BY <1>1, <1>2, <1>3 DEF Update, Recorded, Event
<1>5. posts \subseteq posts'
  BY <1>4 DEF Flush, Posting
<1>6. ASSUME ~late
      PROVE  \E p \in posts' : \E j \in 1..Len(p.batch) : p.batch[j].event = Len(events) + 1 /\ p.run = c
  <2>1. client.body = c
    BY <1>2, <1>6 DEF Inv, Lock, Working, WithPost
  <2>2. Pending(recorded) # <<>>
    <3>1. Pending(recorded) = SubSeq(recorded, client.flushed + 1, Len(recorded))
      BY <2>1 DEF Pending
    <3>2. Len(SubSeq(recorded, client.flushed + 1, Len(recorded))) = Len(recorded) - client.flushed
      BY <1>1, <1>4
    <3>3. Len(Pending(recorded)) # 0
      BY <1>1, <1>4, <3>1, <3>2
    <3>4. Len(<<>>) = 0
      OBVIOUS
    <3> QED BY <3>3, <3>4
  <2>3. PICK q : q = [owner |-> <<"update", Len(recorded)>>, run |-> client.body, batch |-> Batch(Pending(recorded))]
    OBVIOUS
  <2>4. q \in posts' /\ q.run = c /\ q.batch = Batch(Pending(recorded))
    BY <1>4, <2>1, <2>2, <2>3 DEF Flush, Posting
  <2>5. /\ Len(q.batch) = Len(recorded) - client.flushed
        /\ \A j \in 1..Len(q.batch) :
             q.batch[j] = [run |-> client.body, seq |-> client.seq + j - 1, event |-> client.flushed + j]
    BY <1>1, <1>4, <2>2, <2>4, BatchFacts
  <2>6. PICK j \in 1..Len(q.batch) : j = Len(events) + 1 - client.flushed
    BY <1>1, <1>4, <2>5
  <2>7. q.batch[j].event = Len(events) + 1
    <3>1. q.batch[j] = [run |-> client.body, seq |-> client.seq + j - 1, event |-> client.flushed + j]
      BY <2>5
    <3>2. client.flushed + j = Len(events) + 1
      BY <1>1, <2>6
    <3> QED BY <3>1, <3>2
  <2> QED BY <2>4, <2>7
<1>7. ASSUME NEW i \in 1..Len(recorded), ~recorded[i].late
      PROVE  \/ \E p \in posts' : \E j \in 1..Len(p.batch) : p.batch[j].event = i /\ p.run = recorded[i].of
             \/ \E j \in 1..Len(rows) : rows[j].event = i /\ rows[j].run = recorded[i].of
  <2>1. CASE i = Len(events) + 1
    <3>1. recorded[i].of = c /\ ~late
      BY <1>4, <1>7, <2>1
    <3> QED BY <1>6, <2>1, <3>1
  <2>2. CASE i \in 1..Len(events)
    <3>1. recorded[i] = events[i]
      BY <1>4, <2>2
    <3>2. \/ \E p \in posts : \E j \in 1..Len(p.batch) : p.batch[j].event = i /\ p.run = events[i].of
          \/ \E j \in 1..Len(rows) : rows[j].event = i /\ rows[j].run = events[i].of
      BY <1>7, <2>2, <3>1 DEF EveryUpdateArrives, OnItsWay
    <3> QED BY <1>5, <3>1, <3>2
  <2> QED BY <1>1, <1>4, <2>1, <2>2
<1>8. events' = recorded /\ rows' = rows
  BY <1>1, <1>4
<1> QED BY <1>7, <1>8 DEF EveryUpdateArrives, OnItsWay

\* Every step that loses no post keeps every update on its way or in its transcript.
LEMMA ArrivesNext ==
    ASSUME 0 \notin Sessions, Inv, EveryUpdateArrives, [Next]_vars
    PROVE  EveryUpdateArrives'
<1> SUFFICES ASSUME ~history'.lost PROVE EveryUpdateArrives'
  BY DEF EveryUpdateArrives
<1>0. history \in History /\ history.lost \in BOOLEAN
  BY DEF Inv, DataType, History
<1>1. ASSUME NEW flag \in BOOLEAN, Faulted(flag) PROVE ~flag /\ ~history.lost
  <2>1. PICK b \in BOOLEAN : b = (history.lost \/ flag)
    BY <1>0
  <2>2. history' = [history EXCEPT !.faults = @ + 1, !.lost = b]
    BY <1>1, <2>1 DEF Faulted
  <2>3. history'.lost = b
    BY <1>0, <2>2 DEF History
  <2> QED BY <2>1, <2>3
<1>2. ASSUME NEW c \in Sessions, Step(c) PROVE EveryUpdateArrives'
  <2>1. CASE Update(c)
    <3>1. history'.lost = history.lost
      BY <1>0, <2>1 DEF Update, History
    <3> QED BY <2>1, <3>1, UpdateArrives
  <2>2. CASE Request(c) \/ EnsureAgent(c)
    BY <2>2, NothingLost DEF Request, EnsureAgent
  <2>3. CASE GiveUp(c) \/ AgentDoesNotStart(c)
    BY <1>1, <2>3, NothingLost DEF GiveUp, AgentDoesNotStart
  <2>4. CASE NewSession(c) \/ PromptReturns(c)
    <3>1. history'.lost = history.lost
      BY <1>0, <2>4 DEF NewSession, PromptReturns, History
    <3>2. events' = events /\ rows' = rows /\ posts \subseteq posts'
      BY <2>4 DEF NewSession, PromptReturns, FlushAndGo, Flush, Posting
    <3> QED BY <3>1, <3>2, NothingLost
  <2>5. CASE AgentRaises(c)
    <3>1. ~history.lost
      BY <1>1, <2>5 DEF AgentRaises
    <3>2. events' = events /\ rows' = rows /\ posts \subseteq posts'
      BY <2>5 DEF AgentRaises, Except, Posting
    <3> QED BY <3>1, <3>2, NothingLost
  <2> QED BY <1>2, <2>1, <2>2, <2>3, <2>4, <2>5 DEF Step
<1>3. CASE AgentDies
  BY <1>1, <1>3, NothingLost DEF AgentDies
<1>4. ASSUME NEW p \in posts, PostReturns(p) PROVE EveryUpdateArrives'
  <2>1. posts \ {p} \subseteq posts'
    BY <1>4, ReturnsPosting DEF Posting
  <2>2. ~history.lost /\ events' = events /\ rows' = rows \o p.batch
    BY <1>4 DEF PostReturns, Inserted
  <2> QED BY <2>1, <2>2, NothingLost
<1>5. ASSUME NEW p \in posts, PostIsRefused(p) \/ PostBreaks(p) PROVE FALSE
  BY <1>1, <1>5 DEF PostIsRefused, PostBreaks
<1>6. CASE UNCHANGED vars
  <2>1. UNCHANGED <<events, posts, rows, history>>
    BY <1>6 DEF vars
  <2> QED BY <2>1, NothingLost
<1> QED BY <1>2, <1>3, <1>4, <1>5, <1>6 DEF Next

\* As long as no post fails, the transcript misses nothing that a session sent before its
\* answer (EveryUpdateArrives), however the posts overlap: the flush of an update takes it with
\* whatever else is pending, so that it is in a post from the moment it is recorded.
THEOREM Arrives == 0 \notin Sessions /\ Spec => []EveryUpdateArrives
<1>1. Init => EveryUpdateArrives
  BY DEF Init, EveryUpdateArrives
<1>2. ASSUME 0 \notin Sessions PROVE Spec => []EveryUpdateArrives
  <2>1. Inv /\ EveryUpdateArrives /\ [Next]_vars => EveryUpdateArrives'
    BY <1>2, ArrivesNext
  <2> QED BY <1>1, <2>1, InvHolds, PTL DEF Spec
<1> QED BY <1>2

-----------------------------------------------------------------------------
(* Numbers *)

\* No post has failed, no two have met, and no update came late.
Smooth == ~history.lost /\ ~overlap /\ ~history.late

RowsOf(c) == {i \in 1..Len(rows) : rows[i].run = c}

\* A post carries the next number, and the one event that has not been posted, or the error.
PostNumbers(p) ==
    /\ at[p.run] \in WithPost \cup {"prompt"}
    /\ Len(p.batch) = 1 /\ p.batch[1].seq = client.seq
    /\ IF p.batch[1].event = 0
       THEN at[p.run] = "error" /\ client.flushed = Len(events)
       ELSE p.batch[1].event = client.flushed + 1 /\ Len(events) = client.flushed + 1

ServerNumbers ==
    /\ \A p, q \in posts : p = q
    /\ posts = {} => client.flushed = Len(events)
    /\ \A p \in posts : PostNumbers(p)

\* The client's number counts the rows of its session; a session that waits has none.
RowNumbers ==
    \A c \in Sessions :
        /\ at[c] \in {"idle", "lock", "ensure"} => RowsOf(c) = {}
        /\ at[c] \in Working \ {"ensure"} =>
             client.seq = Cardinality(RowsOf(c)) /\ \A i \in RowsOf(c) : rows[i].event <= client.flushed

\* NumbersFollowEvents, of the rows themselves.
InOrder ==
    \A j \in 1..Len(rows) :
        /\ rows[j].seq = Cardinality(Before(j))
        /\ rows[j].event > 0 => \A i \in Before(j) : rows[i].event < rows[j].event

SmoothInv == ServerNumbers /\ RowNumbers /\ InOrder

\* Two posts that have not met are one.
LEMMA OnePost ==
    ASSUME NEW a, NEW b, NEW inProgress, inProgress = {a, b}, Posting(inProgress), ~overlap'
    PROVE  a = b
<1> SUFFICES ASSUME a # b PROVE FALSE
  OBVIOUS
<1>1. IsFiniteSet({a}) /\ Cardinality({a}) = 1 /\ b \notin {a}
  BY FS_Singleton
<1>2. Cardinality({a} \cup {b}) = 2
  BY <1>1, FS_AddElement
<1>3. inProgress = {a} \cup {b}
  OBVIOUS
<1>4. Cardinality(inProgress) > 1
  BY <1>2, <1>3
<1> QED BY <1>4, Zenon DEF Posting

\* A post that begins and meets none is the only one.
LEMMA OnlyPost ==
    ASSUME NEW others, NEW q, \A p1, p2 \in others : p1 = p2, q \notin others,
           Posting(others \cup {q}), ~overlap'
    PROVE  others = {}
<1> SUFFICES ASSUME NEW p \in others PROVE FALSE
  OBVIOUS
<1>1. PICK inProgress : inProgress = others \cup {q}
  OBVIOUS
<1>2. inProgress = {p, q} /\ Posting(inProgress)
  BY <1>1
<1>3. p = q
  BY <1>2, OnePost
<1> QED BY <1>3

\* A session at work has the lock; so has the run of a post.
LEMMA PostOfHolder ==
    ASSUME Inv, ServerNumbers, NEW c \in Sessions, at[c] \in Working, NEW p \in posts
    PROVE  p.run = c /\ at[c] \in WithPost \cup {"prompt"} /\ client.body = c
<1>1. p.run \in Sessions /\ at[p.run] \in Working \ {"ensure"} /\ at[p.run] \in WithPost \cup {"prompt"}
  BY DEF Inv, DataType, Post, ServerNumbers, PostNumbers, Working, WithPost
<1> QED BY <1>1 DEF Inv, Lock

\* Before its session posts, the agent's last update is still on its way.
LEMMA PendingPost ==
    ASSUME 0 \notin Sessions, Inv, ServerNumbers, NEW c \in Sessions, at[c] \in {"session", "prompt"}
    PROVE  Pending(events) = <<>> <=> posts = {}
<1>1. /\ client.body = c /\ client.flushed \in Nat /\ events \in Seq(Event) /\ Len(events) \in Nat
      /\ at[c] \in Working
  BY DEF Inv, DataType, Client, Lock, Working, WithPost
<1>2. Pending(events) = SubSeq(events, client.flushed + 1, Len(events))
  BY <1>1 DEF Pending
<1>3. CASE posts = {}
  <2>1. client.flushed = Len(events)
    BY <1>3 DEF ServerNumbers
  <2>2. SubSeq(events, client.flushed + 1, Len(events)) = <<>>
    BY <1>1, <2>1
  <2> QED BY <1>2, <1>3, <2>2
<1>4. ASSUME NEW p \in posts PROVE Pending(events) # <<>>
  <2>1. p.run = c
    BY <1>1, PostOfHolder
  <2>2. Len(events) = client.flushed + 1
    BY <2>1 DEF ServerNumbers, PostNumbers
  <2>3. Len(Pending(events)) = 1
    <3>1. Len(SubSeq(events, Len(events), Len(events))) = 1
      BY <1>1, <2>2
    <3> QED BY <1>2, <2>2, <3>1
  <2>4. Len(<<>>) = 0
    OBVIOUS
  <2> QED BY <2>3, <2>4
<1> QED BY <1>3, <1>4

\* Such a session has nothing to flush, or its post meets the update's.
LEMMA NoPost ==
    ASSUME 0 \notin Sessions, Inv, ServerNumbers, NEW c \in Sessions, at[c] \in {"session", "prompt"}, ~overlap',
           FlushAndGo(c, "opening") \/ FlushAndGo(c, "closing") \/ Except(c, posts)
    PROVE  Pending(events) = <<>> /\ posts = {}
<1> SUFFICES ASSUME Pending(events) # <<>> PROVE FALSE
  BY PendingPost
<1>1. PICK q : q = [owner |-> <<"session", c>>, run |-> client.body, batch |-> Batch(Pending(events))]
  OBVIOUS
<1>2. Posting(posts \cup {q})
  BY <1>1 DEF FlushAndGo, Flush, Except
<1>3. q \notin posts
  <2>1. q.owner = <<"session", c>> /\ at[c] \notin WithPost
    BY <1>1 DEF WithPost
  <2> QED BY <2>1 DEF Inv, Owners
<1>4. PICK others : others = posts
  OBVIOUS
<1>5. others = {}
  BY <1>2, <1>3, <1>4, OnlyPost DEF ServerNumbers
<1> QED BY <1>4, <1>5, PendingPost

\* A session waits, works or is done, and does not go back.
PointStep(d) ==
    \/ at'[d] = at[d]
    \/ at[d] \in {"idle", "lock"} /\ at'[d] \in {"lock", "ensure"}
    \/ at[d] \in Working \ {"ensure"} /\ at'[d] \in Working \ {"ensure"}
    \/ at'[d] = "done"

\* While no row is added, the numbers of the rows stay right.
LEMMA SameRows ==
    ASSUME RowNumbers, InOrder, rows' = rows, client' = client, \A d \in Sessions : PointStep(d)
    PROVE  RowNumbers' /\ InOrder'
<1>1. InOrder'
  BY DEF InOrder, Before
<1>2. \A d \in Sessions : RowsOf(d)' = RowsOf(d)
  BY DEF RowsOf
<1>3. ASSUME NEW d \in Sessions
      PROVE  /\ at'[d] \in {"idle", "lock", "ensure"} => at[d] \in {"idle", "lock", "ensure"}
             /\ at'[d] \in Working \ {"ensure"} => at[d] \in Working \ {"ensure"}
  BY DEF PointStep, Working, WithPost
<1> QED BY <1>1, <1>2, <1>3 DEF RowNumbers

\* What is added to a sequence follows what was there.
LEMMA Joined ==
    ASSUME NEW S, NEW q \in Seq(S), NEW b \in Seq(S)
    PROVE  /\ Len(q \o b) = Len(q) + Len(b)
           /\ \A i \in 1..Len(q) : (q \o b)[i] = q[i]
           /\ \A i \in 1..Len(b) : (q \o b)[Len(q) + i] = b[i]
<1>1. Len(q \o b) = Len(q) + Len(b)
  OBVIOUS
<1>2. \A i \in 1..Len(q) : (q \o b)[i] = q[i]
  OBVIOUS
<1>3. \A i \in 1..Len(b) : (q \o b)[Len(q) + i] = b[i]
  OBVIOUS
<1> QED BY <1>1, <1>2, <1>3

\* The row of a post takes the next number of its run and follows its other rows.
LEMMA NextRow ==
    ASSUME Inv, SmoothInv, NEW p \in posts, rows' = rows \o p.batch, client' = Advanced(p),
           \A d \in Sessions : PointStep(d), p.batch[1].event = 0 => at'[p.run] = "done"
    PROVE  RowNumbers' /\ InOrder'
<1>1. rows \in Seq(Row) /\ Len(rows) \in Nat
  BY DEF Inv, DataType
<1>2. PICK n \in Nat : n = Len(rows)
  BY <1>1
<1>3. /\ rows \in Seq(Row) /\ n = Len(rows) /\ client \in Client /\ client.seq \in Nat /\ client.flushed \in Nat
      /\ p.batch \in Seq(Row) /\ p.run \in Sessions /\ Fits(p) /\ PostNumbers(p)
  BY <1>1, <1>2 DEF Inv, DataType, Post, Content, SmoothInv, ServerNumbers, Client
<1>4. PICK r \in Sessions : r = p.run
  BY <1>3
<1>5. PICK row \in Row : row = p.batch[1] /\ row.run = r /\ row.seq = client.seq /\ Len(p.batch) = 1
  BY <1>3, <1>4 DEF PostNumbers, Fits
<1>6. Len(rows') = n + 1 /\ rows'[n + 1] = row /\ \A i \in 1..n : rows'[i] = rows[i]
  <2>1. /\ Len(rows') = n + Len(p.batch)
        /\ \A i \in 1..n : rows'[i] = rows[i]
        /\ \A i \in 1..Len(p.batch) : rows'[n + i] = p.batch[i]
    BY <1>3, Joined
  <2>2. 1 \in 1..Len(p.batch)
    BY <1>5
  <2>3. rows'[n + 1] = p.batch[1]
    BY <2>1, <2>2
  <2> QED BY <1>5, <2>1, <2>3
<1>7. at[r] \in Working \ {"ensure"} /\ \A d \in Sessions : d # r => at[d] \notin Working
  BY <1>3, <1>4 DEF PostNumbers, Inv, Lock, Working, WithPost
<1>8. /\ client.seq = Cardinality(RowsOf(r))
      /\ \A i \in RowsOf(r) : rows[i].event <= client.flushed
  BY <1>7 DEF SmoothInv, RowNumbers
<1>9. IsFiniteSet(RowsOf(r)) /\ n + 1 \notin RowsOf(r)
  <2>1. IsFiniteSet(1..n)
    BY <1>3, FS_Interval
  <2> QED BY <1>3, <2>1, FS_Subset DEF RowsOf
<1>10. RowsOf(r)' = RowsOf(r) \cup {n + 1} /\ \A d \in Sessions : d # r => RowsOf(d)' = RowsOf(d)
  <2>1. \A i : i \in 1..(n + 1) <=> i \in 1..n \/ i = n + 1
    BY <1>3
  <2> QED BY <1>5, <1>6, <2>1 DEF RowsOf
<1>11. Cardinality(RowsOf(r)') = client.seq + 1
  <2>1. Cardinality(RowsOf(r) \cup {n + 1}) = Cardinality(RowsOf(r)) + 1
    BY <1>9, FS_AddElement
  <2> QED BY <1>8, <1>10, <2>1
<1>12. \A d \in Sessions : \A i \in RowsOf(d) : rows'[i] = rows[i] /\ i \in 1..n /\ rows[i].event \in Nat
  <2> SUFFICES ASSUME NEW d \in Sessions, NEW i \in RowsOf(d)
               PROVE  rows'[i] = rows[i] /\ i \in 1..n /\ rows[i].event \in Nat
    OBVIOUS
  <2>1. i \in 1..n
    BY <1>3 DEF RowsOf
  <2>2. rows[i] \in Row
    BY <1>3, <2>1
  <2> QED BY <1>6, <2>1, <2>2 DEF Row
<1>13. ASSUME row.event # 0
       PROVE  /\ row.event = client.flushed + 1
              /\ client'.seq = client.seq + 1 /\ client'.flushed = client.flushed + 1
  <2>1. p.batch[1].event = client.flushed + 1 /\ Len(events) = client.flushed + 1
    BY <1>3, <1>5, <1>13 DEF PostNumbers
  <2>2. client' = [client EXCEPT !.flushed = client.flushed + 1, !.seq = @ + 1]
    BY <1>5, <1>13, <2>1 DEF Advanced
  <2> QED BY <1>3, <1>5, <2>1, <2>2 DEF Client
<1>14. RowNumbers'
  <2>1. ASSUME NEW d \in Sessions, d # r
        PROVE  /\ at'[d] \in {"idle", "lock", "ensure"} => RowsOf(d)' = {}
               /\ at'[d] \notin Working \ {"ensure"}
    <3>1. at[d] \notin Working /\ PointStep(d)
      BY <1>7, <2>1
    <3>2. at'[d] \in {"idle", "lock", "ensure"} => at[d] \in {"idle", "lock", "ensure"}
      BY <3>1 DEF PointStep, Working
    <3> QED BY <1>10, <2>1, <3>1, <3>2 DEF PointStep, Working, WithPost, SmoothInv, RowNumbers
  <2>2. /\ at'[r] \notin {"idle", "lock", "ensure"}
        /\ at'[r] \in Working \ {"ensure"} =>
             client'.seq = Cardinality(RowsOf(r)') /\ \A i \in RowsOf(r)' : rows'[i].event <= client'.flushed
    <3>1. at'[r] \notin {"idle", "lock", "ensure"}
      BY <1>7 DEF PointStep, Working, WithPost
    <3>2. CASE row.event = 0
      BY <1>4, <1>5, <3>1, <3>2 DEF Working, WithPost
    <3>3. CASE row.event # 0
      <4>1. \A i \in RowsOf(r) : rows'[i].event <= client'.flushed
        BY <1>3, <1>8, <1>12, <1>13, <3>3
      <4>2. rows'[n + 1].event <= client'.flushed
        BY <1>3, <1>6, <1>13, <3>3
      <4> QED BY <1>10, <1>11, <1>13, <3>1, <3>3, <4>1, <4>2
    <3> QED BY <3>2, <3>3
  <2> QED BY <2>1, <2>2 DEF RowNumbers
<1>15. InOrder'
  <2>1. ASSUME NEW j \in 1..n
        PROVE  /\ rows'[j].seq = Cardinality(Before(j)')
               /\ rows'[j].event > 0 => \A i \in Before(j)' : rows'[i].event < rows'[j].event
    <3>1. \A i \in 1..(j - 1) : i \in 1..n
      BY <1>3
    <3>2. Before(j)' = Before(j)
      BY <1>6, <3>1 DEF Before
    <3>3. \A i \in Before(j) : rows'[i] = rows[i]
      BY <1>6, <3>1 DEF Before
    <3>4. j \in 1..Len(rows) /\ rows'[j] = rows[j]
      BY <1>3, <1>6
    <3> QED BY <3>2, <3>3, <3>4 DEF SmoothInv, InOrder
  <2>2. /\ rows'[n + 1].seq = Cardinality(Before(n + 1)')
        /\ rows'[n + 1].event > 0 => \A i \in Before(n + 1)' : rows'[i].event < rows'[n + 1].event
    <3>1. Before(n + 1)' = RowsOf(r)
      <4>1. (n + 1) - 1 = n
        BY <1>3
      <4>2. \A i \in 1..n : rows'[i].run = rows[i].run /\ rows'[n + 1].run = r
        BY <1>5, <1>6
      <4> QED BY <1>3, <4>1, <4>2 DEF Before, RowsOf
    <3>2. ASSUME row.event # 0, NEW i \in RowsOf(r) PROVE rows'[i].event < row.event
      BY <1>3, <1>8, <1>12, <1>13, <3>2
    <3>3. row.event \in Nat
      BY DEF Row
    <3>4. rows'[n + 1].seq = Cardinality(Before(n + 1)')
      BY <1>5, <1>6, <1>8, <3>1
    <3>5. ASSUME rows'[n + 1].event > 0, NEW i \in Before(n + 1)' PROVE rows'[i].event < rows'[n + 1].event
      <4>1. rows'[n + 1] = row /\ row.event # 0 /\ i \in RowsOf(r)
        BY <1>6, <3>1, <3>3, <3>5
      <4> QED BY <3>2, <4>1
    <3> QED BY <3>4, <3>5
  <2>3. \A j \in 1..Len(rows') : j \in 1..n \/ j = n + 1
    BY <1>3, <1>6
  <2> QED BY <2>1, <2>2, <2>3 DEF InOrder
<1> QED BY <1>14, <1>15

\* What the server was not, it has not been before.
LEMMA SmoothBefore ==
    ASSUME Inv, [Next]_vars, Smooth'
    PROVE  Smooth
<1>1. history \in History /\ history.lost \in BOOLEAN /\ history.late \in BOOLEAN /\ overlap \in BOOLEAN
  BY DEF Inv, DataType, History
<1>2. ASSUME NEW flag \in BOOLEAN, Faulted(flag) PROVE ~flag /\ ~history.lost /\ ~history.late
  <2>1. PICK b \in BOOLEAN : b = (history.lost \/ flag)
    BY <1>1
  <2>2. history' = [history EXCEPT !.faults = @ + 1, !.lost = b]
    BY <1>2, <2>1 DEF Faulted
  <2>3. history'.lost = b /\ history'.late = history.late
    BY <1>1, <2>2 DEF History
  <2> QED BY <2>1, <2>3 DEF Smooth
<1>3. ASSUME NEW inProgress, Posting(inProgress) PROVE ~overlap
  BY <1>3 DEF Posting, Smooth
<1>4. ASSUME NEW c \in Sessions, Step(c) PROVE Smooth
  <2>1. CASE Update(c)
    <3>1. PICK flag \in BOOLEAN : flag = (at[c] \notin {"opening", "prompt"})
      OBVIOUS
    <3>2. PICK b \in BOOLEAN : b = (history.late \/ flag)
      BY <1>1
    <3>3. history' = [history EXCEPT !.late = b]
      BY <2>1, <3>1, <3>2 DEF Update
    <3>4. ~history.lost /\ ~history.late
      BY <1>1, <3>2, <3>3 DEF History, Smooth
    <3>5. ~overlap
      BY <1>3, <2>1 DEF Update, Flush, Smooth
    <3> QED BY <3>4, <3>5 DEF Smooth
  <2>2. CASE Request(c) \/ EnsureAgent(c)
    BY <2>2 DEF Request, EnsureAgent, Smooth
  <2>3. CASE GiveUp(c) \/ AgentDoesNotStart(c)
    <3>1. Faulted(FALSE) /\ overlap' = overlap
      BY <2>3 DEF GiveUp, AgentDoesNotStart
    <3> QED BY <1>2, <3>1 DEF Smooth
  <2>4. CASE NewSession(c) \/ PromptReturns(c)
    <3>1. history'.lost = history.lost /\ history'.late = history.late
      BY <1>1, <2>4 DEF NewSession, PromptReturns, History
    <3>2. ~overlap
      BY <1>3, <2>4 DEF NewSession, PromptReturns, FlushAndGo, Flush, Smooth
    <3> QED BY <3>1, <3>2 DEF Smooth
  <2>5. CASE AgentRaises(c)
    <3>1. ~history.lost /\ ~history.late
      BY <1>2, <2>5 DEF AgentRaises, Smooth
    <3>2. ~overlap
      BY <1>3, <2>5 DEF AgentRaises, Except
    <3> QED BY <3>1, <3>2 DEF Smooth
  <2> QED BY <1>4, <2>1, <2>2, <2>3, <2>4, <2>5 DEF Step
<1>5. CASE AgentDies
  BY <1>2, <1>5 DEF AgentDies, Smooth
<1>6. ASSUME NEW p \in posts, PostReturns(p) PROVE Smooth
  <2>1. ~overlap
    BY <1>3, <1>6, ReturnsPosting
  <2> QED BY <1>6, <2>1 DEF PostReturns, Smooth
<1>7. ASSUME NEW p \in posts, PostIsRefused(p) \/ PostBreaks(p) PROVE FALSE
  BY <1>2, <1>7 DEF PostIsRefused, PostBreaks
<1>8. CASE UNCHANGED vars
  BY <1>8 DEF vars, Smooth
<1> QED BY <1>4, <1>5, <1>6, <1>7, <1>8 DEF Next

\* While the posts stay, and where their runs are, so do their numbers.
LEMMA SamePosts ==
    ASSUME ServerNumbers, UNCHANGED <<client, events, posts>>, \A p \in posts : at'[p.run] = at[p.run]
    PROVE  ServerNumbers'
<1>1. \A p \in posts : PostNumbers(p)'
  BY DEF ServerNumbers, PostNumbers
<1> QED BY <1>1 DEF ServerNumbers

\* Without a post everything is posted.
LEMMA NoPosts ==
    ASSUME posts' = {}, client'.flushed = Len(events')
    PROVE  ServerNumbers'
BY DEF ServerNumbers

\* With one post it has the numbers of that post.
LEMMA NewPost ==
    ASSUME NEW q, posts' = {q}, PostNumbers(q)'
    PROVE  ServerNumbers'
BY DEF ServerNumbers

\* A turn moves one session and lets at most the next one begin.
LEMMA TurnPoints ==
    ASSUME NEW c \in Sessions, TurnTo(c, at'[c]), PointStep(c)
    PROVE  \A d \in Sessions : PointStep(d)
BY DEF TurnTo, PointStep

\* A new session has neither rows nor posts.
LEMMA RequestSmooth == ASSUME Inv, SmoothInv, NEW c \in Sessions, Request(c) PROVE SmoothInv'
<1>1. /\ TurnsType /\ Lock /\ posts \subseteq Post /\ UNCHANGED <<client, events, posts, rows>>
  BY DEF Inv, DataType, Request
<1>2. at[c] = "idle" /\ TurnTo(c, at'[c]) /\ at'[c] \in {"lock", "ensure"}
  BY <1>1, RequestTurn
<1>3. \A d \in Sessions : PointStep(d)
  BY <1>2, TurnPoints DEF PointStep
<1>4. \A p \in posts : at'[p.run] = at[p.run]
  <2>1. \A p \in posts : p.run \in Sessions /\ at[p.run] \in WithPost \cup {"prompt"}
    BY <1>1 DEF Post, SmoothInv, ServerNumbers, PostNumbers
  <2> QED BY <1>2, <2>1 DEF TurnTo, WithPost
<1> QED BY <1>1, <1>3, <1>4, SamePosts, SameRows DEF SmoothInv

\* A session that ends before it begins leaves no posts.
LEMMA AgentDoesNotStartSmooth == ASSUME Inv, SmoothInv, NEW c \in Sessions, AgentDoesNotStart(c) PROVE SmoothInv'
<1>1. /\ TurnsType /\ Lock /\ at[c] = "ensure" /\ at[c] \in Working /\ Answer(c, "failed")
      /\ UNCHANGED <<client, events, posts, rows>>
  BY DEF Inv, AgentDoesNotStart, Working
<1>2. posts = {}
  BY <1>1, PostOfHolder DEF SmoothInv, WithPost
<1>3. TurnTo(c, "done")
  BY <1>1, AnswerTurn
<1>4. \A d \in Sessions : PointStep(d)
  BY <1>3, TurnPoints DEF PointStep, TurnTo
<1> QED BY <1>1, <1>2, <1>4, SamePosts, SameRows DEF SmoothInv

\* A session begins with number 0, no rows and no posts.
LEMMA EnsureAgentSmooth == ASSUME Inv, SmoothInv, NEW c \in Sessions, EnsureAgent(c) PROVE SmoothInv'
<1>1. /\ TurnsType /\ Lock /\ at[c] = "ensure" /\ at[c] \in Working /\ Goto(c, "session")
      /\ client' = Begun(c) /\ UNCHANGED <<events, posts, rows>>
  BY DEF Inv, EnsureAgent, Working
<1>2. posts = {}
  BY <1>1, PostOfHolder DEF SmoothInv, WithPost
<1>3. client'.flushed = Len(events) /\ client'.seq = 0 /\ client'.body = c
  BY <1>1 DEF Begun
<1>4. ServerNumbers'
  BY <1>1, <1>2, <1>3, NoPosts
<1>5. InOrder'
  BY <1>1 DEF SmoothInv, InOrder, Before
<1>6. RowNumbers'
  <2>1. \A d \in Sessions : RowsOf(d)' = RowsOf(d)
    BY <1>1 DEF RowsOf
  <2>2. RowsOf(c) = {} /\ Cardinality(RowsOf(c)) = 0
    BY <1>1, FS_EmptySet DEF SmoothInv, RowNumbers
  <2>3. TurnTo(c, "session")
    BY <1>1, <1>3, MoveTurn DEF Working
  <2>4. \A d \in Sessions : d # c => at[d] \notin Working
    BY <1>1 DEF Lock
  <2>5. ASSUME NEW d \in Sessions, d # c
        PROVE  /\ at'[d] \in {"idle", "lock", "ensure"} => at[d] \in {"idle", "lock", "ensure"}
               /\ at'[d] \notin Working \ {"ensure"}
    BY <2>3, <2>4, <2>5 DEF TurnTo, Working
  <2>6. at'[c] = "session"
    BY <2>3 DEF TurnTo
  <2>7. ASSUME NEW d \in Sessions, d # c
        PROVE  at'[d] \in {"idle", "lock", "ensure"} => RowsOf(d)' = {}
    BY <2>1, <2>5, <2>7 DEF SmoothInv, RowNumbers
  <2>8. ASSUME NEW d \in Sessions
        PROVE  at'[d] \in {"idle", "lock", "ensure"} => RowsOf(d)' = {}
    <3>1. CASE d = c
      BY <2>6, <3>1
    <3>2. CASE d # c
      BY <2>7, <3>2
    <3> QED BY <3>1, <3>2
  <2>9. ASSUME NEW d \in Sessions, at'[d] \in Working \ {"ensure"}
        PROVE  /\ client'.seq = Cardinality(RowsOf(d)')
               /\ \A i \in RowsOf(d)' : rows'[i].event <= client'.flushed
    <3>1. d = c
      BY <2>5, <2>9
    <3>2. RowsOf(d)' = {} /\ Cardinality(RowsOf(d)') = 0
      BY <2>1, <2>2, <3>1
    <3> QED BY <1>3, <3>2
  <2> QED BY <2>8, <2>9 DEF RowNumbers
<1> QED BY <1>4, <1>5, <1>6 DEF SmoothInv

\* A session that flushes has nothing to post.
LEMMA FlushStepSmooth ==
    ASSUME 0 \notin Sessions, Inv, SmoothInv, ~overlap', NEW c \in Sessions, NewSession(c) \/ PromptReturns(c)
    PROVE  SmoothInv'
<1>1. /\ TurnsType /\ Lock /\ at[c] \in {"session", "prompt"} /\ at[c] \in Working /\ at[c] # "ensure"
      /\ UNCHANGED <<client, events, rows>>
      /\ FlushAndGo(c, "opening") \/ FlushAndGo(c, "closing")
  BY DEF Inv, NewSession, PromptReturns, Working
<1>2. Pending(events) = <<>> /\ posts = {}
  BY <1>1, NoPost DEF SmoothInv
<1>3. posts' = posts /\ (Goto(c, "prompt") \/ Answer(c, "completed"))
  BY <1>1, <1>2 DEF FlushAndGo, Flush
<1>4. TurnTo(c, "prompt") \/ TurnTo(c, "done")
  BY <1>1, <1>3, MoveTurn, AnswerTurn DEF Working
<1>5. \A d \in Sessions : PointStep(d)
  BY <1>1, <1>4, TurnPoints DEF PointStep, TurnTo, Working
<1> QED BY <1>1, <1>2, <1>3, <1>5, SamePosts, SameRows DEF SmoothInv

\* The error of a session has its next number.
LEMMA AgentRaisesSmooth ==
    ASSUME 0 \notin Sessions, Inv, SmoothInv, ~overlap', NEW c \in Sessions, AgentRaises(c)
    PROVE  SmoothInv'
<1>1. /\ TurnsType /\ Lock /\ at[c] \in {"session", "prompt"} /\ at[c] \in Working /\ at[c] # "ensure"
      /\ UNCHANGED <<client, events, rows>> /\ Except(c, posts)
  BY DEF Inv, AgentRaises, Working
<1>2. Pending(events) = <<>> /\ posts = {}
  BY <1>1, NoPost DEF SmoothInv
<1>3. PICK q : q = ErrorPost(c)
  OBVIOUS
<1>4. posts' = {q} /\ Goto(c, "error")
  BY <1>1, <1>2, <1>3 DEF Except, Posting, Goto
<1>5. TurnTo(c, "error")
  BY <1>1, <1>4, MoveTurn DEF Working, WithPost
<1>6. at'[c] = "error" /\ \A d \in Sessions : PointStep(d)
  BY <1>1, <1>5, TurnPoints DEF PointStep, TurnTo, Working, WithPost
<1>7. q.run = c /\ Len(q.batch) = 1 /\ q.batch[1].seq = client.seq /\ q.batch[1].event = 0
  BY <1>3 DEF ErrorPost
<1>8. client'.flushed = Len(events')
  BY <1>1, <1>2 DEF SmoothInv, ServerNumbers
<1>9. PostNumbers(q)'
  BY <1>1, <1>6, <1>7, <1>8 DEF PostNumbers, WithPost
<1> QED BY <1>1, <1>4, <1>6, <1>9, NewPost, SameRows DEF SmoothInv

\* An update in time finds no post in progress and begins its own.
LEMMA UpdateSmooth ==
    ASSUME 0 \notin Sessions, Inv, SmoothInv, Smooth', NEW c \in Sessions, Update(c)
    PROVE  SmoothInv'
<1>1. /\ events \in Seq(Event) /\ Len(events) \in Nat /\ history \in History /\ history.late \in BOOLEAN
      /\ client \in Client /\ client.flushed \in Nat /\ client.seq \in Nat
      /\ UNCHANGED <<at, client, rows>>
  BY DEF Inv, DataType, History, Client, Update
<1>2. at[c] \in {"opening", "prompt"}
  <2>1. PICK b \in BOOLEAN : b = (history.late \/ (at[c] \notin {"opening", "prompt"}))
    BY <1>1
  <2>2. history' = [history EXCEPT !.late = b]
    BY <2>1 DEF Update
  <2>3. ~b
    BY <1>1, <2>2 DEF Smooth, History
  <2> QED BY <2>1, <2>3
<1>3. at[c] \in Working /\ client.body = c
  BY <1>2 DEF Inv, Lock, Working, WithPost
<1>4. PICK late \in BOOLEAN : late = (at[c] \notin {"opening", "prompt"})
  OBVIOUS
<1>5. PICK recorded : recorded = Recorded(c, late)
  OBVIOUS
<1>6. /\ events' = recorded /\ Flush(<<"update", Len(recorded)>>, recorded)
      /\ recorded \in Seq(Event) /\ Len(recorded) = Len(events) + 1
  BY <1>1, <1>4, <1>5 DEF Update, Recorded, Event
<1>7. client.flushed <= Len(events) /\ client.flushed <= Len(recorded)
  BY <1>1, <1>6 DEF Inv, Content
<1>8. Pending(recorded) # <<>>
  <2>1. Pending(recorded) = SubSeq(recorded, client.flushed + 1, Len(recorded))
    BY <1>3 DEF Pending
  <2>2. Len(Pending(recorded)) # 0
    BY <1>1, <1>6, <1>7, <2>1
  <2>3. Len(<<>>) = 0
    OBVIOUS
  <2> QED BY <2>2, <2>3
<1>9. PICK q : q = [owner |-> <<"update", Len(recorded)>>, run |-> client.body, batch |-> Batch(Pending(recorded))]
  OBVIOUS
<1>10. Posting(posts \cup {q})
  BY <1>6, <1>8, <1>9 DEF Flush
<1>11. posts = {}
  <2>1. q \notin posts
    <3>1. q.owner[1] = "update" /\ q.owner[2] = Len(events) + 1
      BY <1>6, <1>9
    <3> QED BY <1>1, <3>1 DEF Inv, Owners
  <2>2. PICK others : others = posts
    OBVIOUS
  <2>3. others = {}
    BY <1>10, <2>1, <2>2, OnlyPost DEF SmoothInv, ServerNumbers, Smooth
  <2> QED BY <2>2, <2>3
<1>12. posts' = {q} /\ client.flushed = Len(events) /\ at[c] = "prompt"
  <2>1. at[c] \notin WithPost
    BY <1>11 DEF Inv, Owners
  <2> QED BY <1>2, <1>10, <1>11, <2>1 DEF Posting, SmoothInv, ServerNumbers, WithPost
<1>13. /\ q.run = c /\ Len(q.batch) = 1
       /\ q.batch[1] = [run |-> client.body, seq |-> client.seq + 1 - 1, event |-> client.flushed + 1]
  <2>1. q.run = c /\ q.batch = Batch(Pending(recorded))
    BY <1>3, <1>9
  <2>2. /\ Len(q.batch) = Len(recorded) - client.flushed
        /\ \A j \in 1..Len(q.batch) :
             q.batch[j] = [run |-> client.body, seq |-> client.seq + j - 1, event |-> client.flushed + j]
    BY <1>1, <1>6, <1>7, <1>8, <2>1, BatchFacts
  <2>3. Len(q.batch) = 1 /\ 1 \in 1..Len(q.batch)
    BY <1>1, <1>6, <1>12, <2>2
  <2>4. q.batch[1] = [run |-> client.body, seq |-> client.seq + 1 - 1, event |-> client.flushed + 1]
    BY <2>2, <2>3
  <2> QED BY <2>1, <2>3, <2>4
<1>14. q.batch[1].seq = client.seq /\ q.batch[1].event = client.flushed + 1 /\ q.batch[1].event # 0
  BY <1>1, <1>13
<1>15. PostNumbers(q)'
  BY <1>1, <1>6, <1>12, <1>13, <1>14 DEF PostNumbers
<1>16. \A d \in Sessions : PointStep(d)
  BY <1>1 DEF PointStep
<1> QED BY <1>1, <1>12, <1>15, <1>16, NewPost, SameRows DEF SmoothInv

\* A session's post returns: the session goes on, and posts the error it has been failing with.
LEMMA ReturnSmooth == ASSUME Inv, SmoothInv, NEW p \in posts, PostReturns(p) PROVE SmoothInv'
<1>1. /\ TurnsType /\ Lock /\ Owners /\ p \in Post /\ p.run \in Sessions /\ PostNumbers(p) /\ posts = {p}
      /\ rows' = rows \o p.batch /\ client' = Advanced(p) /\ events' = events /\ Resume(p)
      /\ client \in Client /\ client.seq \in Nat /\ client.flushed \in Nat /\ Len(events) \in Nat
  BY DEF Inv, DataType, Post, Client, SmoothInv, ServerNumbers, PostReturns, Inserted
<1>2. /\ client'.flushed = Len(events') /\ client'.body = client.body
      /\ p.batch[1].event # 0 => client'.seq = client.seq + 1
  <2>1. CASE p.batch[1].event = 0
    BY <1>1, <2>1 DEF Advanced, PostNumbers
  <2>2. CASE p.batch[1].event # 0
    <3>1. client' = [client EXCEPT !.flushed = Len(events), !.seq = @ + 1]
      BY <1>1, <2>2 DEF Advanced, PostNumbers
    <3> QED BY <1>1, <3>1 DEF Client
  <2> QED BY <2>1, <2>2
<1>3. /\ at[p.run] \in WithPost \cup {"prompt"} /\ at[p.run] \in Working
      /\ p.batch[1].event = 0 => at[p.run] = "error"
  BY <1>1 DEF PostNumbers, Working
<1>4. at[p.run] \in WithPost => p.owner = <<"session", p.run>>
  BY <1>1 DEF Owners
<1>5. CASE p.owner[1] = "update"
  <2>1. posts' = {} /\ at' = at
    BY <1>1, <1>5 DEF Resume, Posting
  <2>2. p.batch[1].event # 0
    BY <1>3, <1>4, <1>5 DEF WithPost
  <2>3. \A d \in Sessions : PointStep(d)
    BY <2>1 DEF PointStep
  <2> QED BY <1>1, <1>2, <2>1, <2>2, <2>3, NoPosts, NextRow DEF SmoothInv
<1>6. CASE p.owner[1] # "update"
  <2>1. PICK c \in Sessions : p.owner = <<"session", c>> /\ p.owner[1] = "session" /\ p.owner[2] = c
    BY <1>1, <1>6 DEF Post, Owner
  <2>2. at[c] \in WithPost /\ at[c] \in Working /\ at[c] # "ensure" /\ p.run = c
    <3>1. at[c] \in WithPost
      BY <1>1, <2>1 DEF Owners
    <3>2. at[c] \in Working /\ at[c] # "ensure"
      BY <3>1 DEF Working, WithPost
    <3> QED BY <3>1, <3>2, PostOfHolder DEF SmoothInv
  <2>3. PICK others : others = posts \ {p}
    OBVIOUS
  <2>4. others = {}
    BY <1>1, <2>3
  <2>5. CASE at[c] \in {"closing", "error"}
    <3>1. (Answer(c, "completed") \/ Answer(c, "failed")) /\ Posting(others)
      BY <1>1, <1>6, <2>1, <2>3, <2>5 DEF Resume
    <3>2. TurnTo(c, "done") /\ posts' = {}
      BY <1>1, <1>2, <2>2, <2>4, <3>1, AnswerTurn DEF Posting
    <3>3. at'[c] = "done" /\ \A d \in Sessions : PointStep(d)
      BY <3>2, TurnPoints DEF TurnTo, PointStep
    <3> QED BY <1>1, <1>2, <2>2, <3>2, <3>3, NoPosts, NextRow DEF SmoothInv
  <2>6. CASE at[c] = "opening"
    <3>1. Goto(c, "prompt") /\ Posting(others)
      BY <1>1, <1>6, <2>1, <2>3, <2>6 DEF Resume
    <3>2. TurnTo(c, "prompt") /\ posts' = {}
      BY <1>1, <1>2, <2>2, <2>4, <3>1, MoveTurn DEF Posting, Working
    <3>3. p.batch[1].event # 0 /\ \A d \in Sessions : PointStep(d)
      BY <1>3, <2>2, <2>6, <3>2, TurnPoints DEF TurnTo, PointStep, Working
    <3> QED BY <1>1, <1>2, <3>2, <3>3, NoPosts, NextRow DEF SmoothInv
  <2>7. CASE at[c] = "failing"
    <3>1. PICK q : q = [ErrorPost(c) EXCEPT !.batch[1].seq = client.seq + Len(p.batch)]
      OBVIOUS
    <3>2. Goto(c, "error") /\ Posting(others \cup {q})
      BY <1>1, <1>6, <2>1, <2>3, <2>7, <3>1 DEF Resume
    <3>3. TurnTo(c, "error") /\ posts' = {q}
      BY <1>1, <1>2, <2>2, <2>4, <3>2, MoveTurn DEF Posting, Working, WithPost
    <3>4. p.batch[1].event # 0 /\ at'[c] = "error" /\ \A d \in Sessions : PointStep(d)
      BY <1>3, <2>2, <2>7, <3>3, TurnPoints DEF TurnTo, PointStep, Working, WithPost
    <3>5. q.run = c /\ Len(q.batch) = 1 /\ q.batch[1].seq = client.seq + 1 /\ q.batch[1].event = 0
      <4>1. PICK n \in Nat : n = client.seq + 1
        BY <1>1
      <4>2. Len(p.batch) = 1
        BY <1>1 DEF PostNumbers
      <4> DEFINE row == [run |-> c, seq |-> client.seq, event |-> 0]
      <4>3. [<<row>> EXCEPT ![1].seq = n] = <<[run |-> c, seq |-> n, event |-> 0]>>
        OBVIOUS
      <4>4. q = [owner |-> <<"session", c>>, run |-> c, batch |-> <<[run |-> c, seq |-> n, event |-> 0]>>]
        BY <3>1, <4>1, <4>2, <4>3 DEF ErrorPost
      <4> QED BY <4>1, <4>4
    <3>6. PostNumbers(q)'
      BY <1>2, <3>4, <3>5 DEF PostNumbers, WithPost
    <3> QED BY <1>1, <3>3, <3>4, <3>6, NewPost, NextRow DEF SmoothInv
  <2> QED BY <2>2, <2>5, <2>6, <2>7 DEF WithPost
<1> QED BY <1>5, <1>6

\* Every step keeps the numbers, as long as all is smooth.
LEMMA SmoothNext ==
    ASSUME 0 \notin Sessions, Inv, Smooth => SmoothInv, [Next]_vars
    PROVE  (Smooth => SmoothInv)'
<1> SUFFICES ASSUME Smooth' PROVE SmoothInv'
  OBVIOUS
<1>1. Smooth /\ SmoothInv
  BY SmoothBefore
<1>2. ~overlap' /\ ~history'.lost
  BY DEF Smooth
<1>3. CASE UNCHANGED <<at, client, events, posts, rows>>
  <2>1. \A d \in Sessions : PointStep(d)
    BY <1>3 DEF PointStep
  <2> QED BY <1>1, <1>3, <2>1, SamePosts, SameRows DEF SmoothInv
<1>4. ASSUME NEW c \in Sessions, Step(c) PROVE SmoothInv'
  <2>1. CASE GiveUp(c)
    BY <1>3, <2>1 DEF GiveUp
  <2> QED BY <1>1, <1>2, <1>4, <2>1, RequestSmooth, EnsureAgentSmooth, AgentDoesNotStartSmooth, FlushStepSmooth,
             AgentRaisesSmooth, UpdateSmooth DEF Step
<1>5. ASSUME NEW p \in posts, PostIsRefused(p) \/ PostBreaks(p) PROVE FALSE
  <2>1. Faulted(TRUE)
    BY <1>5 DEF PostIsRefused, PostBreaks
  <2>2. history' = [history EXCEPT !.faults = @ + 1, !.lost = TRUE]
    BY <2>1 DEF Faulted
  <2> QED BY <1>2, <2>2 DEF Inv, DataType, History
<1>6. CASE AgentDies \/ UNCHANGED vars
  BY <1>3, <1>6 DEF AgentDies, vars
<1> QED BY <1>1, <1>4, <1>5, <1>6, ReturnSmooth DEF Next

\* At the start nothing is posted and nothing is numbered.
LEMMA InitSmooth == ASSUME Init PROVE SmoothInv
<1>1. ServerNumbers /\ InOrder
  BY DEF Init, ServerNumbers, InOrder
<1>2. RowNumbers
  BY DEF Init, RowNumbers, RowsOf, Working, WithPost
<1> QED BY <1>1, <1>2 DEF SmoothInv

\* What the rows of a smooth transcript show.
LEMMA SmoothNumbers == ASSUME Smooth => SmoothInv PROVE NumbersFollowEvents
BY DEF NumbersFollowEvents, Smooth, SmoothInv, InOrder

\* A transcript whose posts neither failed nor met one another, and to which no update came
\* late, numbers its events from 0 without gap and in their order (NumbersFollowEvents).
THEOREM Numbered == 0 \notin Sessions /\ Spec => []NumbersFollowEvents
<1>1. Init => SmoothInv
  BY InitSmooth
<1>2. (Smooth => SmoothInv) => NumbersFollowEvents
  BY SmoothNumbers
<1>3. ASSUME 0 \notin Sessions PROVE Spec => []NumbersFollowEvents
  <2>1. Inv /\ (Smooth => SmoothInv) /\ [Next]_vars => (Smooth => SmoothInv)'
    BY <1>3, SmoothNext
  <2> QED BY <1>1, <1>2, <2>1, InvHolds, PTL DEF Spec
<1> QED BY <1>3

\* The transcript of a run is complete and in order (TranscriptIsComplete), for sessions
\* numbered from 1: 0 is the body of a client that no session has begun.
THEOREM Complete == 0 \notin Sessions /\ Spec => []TranscriptIsComplete
<1>1. EveryUpdateArrives /\ NumbersFollowEvents => TranscriptIsComplete
  BY DEF TranscriptIsComplete
<1> QED BY <1>1, Arrives, Numbered, PTL

\* Everything that the theorems above rest on, for a module that puts this server beside
\* others.
WholeInv == Inv /\ EveryUpdateArrives /\ (Smooth => SmoothInv)

\* It holds at the start.
LEMMA WholeBegins == ASSUME Init PROVE WholeInv
<1>1. EveryUpdateArrives
  BY DEF Init, EveryUpdateArrives
<1> QED BY <1>1, InitInv, InitSmooth DEF WholeInv

\* Every step keeps it.
LEMMA WholeNext == ASSUME 0 \notin Sessions, WholeInv, [Next]_vars PROVE WholeInv'
BY NextInv, ArrivesNext, SmoothNext DEF WholeInv

\* It shows the properties of the server.
LEMMA WholeShows == ASSUME WholeInv PROVE TypeOK /\ TranscriptIsComplete /\ UpdatesStayInTheirRun
BY InvTypes, InvStay, SmoothNumbers DEF WholeInv, TranscriptIsComplete
=============================================================================
