-------------------------- MODULE BoardSandboxProofs --------------------------
(***************************************************************************)
(* Proofs about two services of module Services, for every value of the    *)
(* constants.                                                              *)
(*                                                                         *)
(* The whiteboard (Whiteboard): what a call has found stays, and what a    *)
(* commit changes is noted against the calls that overlap it, so that a    *)
(* snapshot, a notification and an approval go wrong only where calls      *)
(* overlap.                                                                *)
(*                                                                         *)
(* The sandboxes (Sandboxes): the way back of a call undoes what it made,  *)
(* point by point, and a cleanup changes nothing of a call that has not    *)
(* met it but the container and the row of one that is over.               *)
(***************************************************************************)
EXTENDS Services, Integers, Sequences, FiniteSets, FiniteSetTheorems, TLAPS

-----------------------------------------------------------------------------
(* Calls of the whiteboard *)

EntryFields == {"pc", "at", "row", "fan", "stale", "view"}
HistoryFields == {"overlap", "raced", "claims", "unsettled", "polled", "before", "failures"}
CardRow == [status : CardWords, triage : CardWords]

BoardTypes ==
    /\ wDo \in BoardCalls /\ log \subseteq Board!Live
    /\ DOMAIN wCall = Board!Calls /\ \A c \in Board!Calls : DOMAIN wCall[c] = EntryFields
    /\ cards \in [Cards -> CardRow \cup {None}] /\ DOMAIN decision = Cards
    /\ DOMAIN wHistory = HistoryFields

\* Where a call may be.  Until it is committed it is not in the log; what it holds is as old
\* as calls that were committed after it began.
Controlled(c) ==
    /\ wCall[c].pc \in {"idle", "loaded", "flushed"} => c \notin log
    /\ wCall[c].pc = "idle" => wCall[c].stale = {}
    /\ wCall[c].pc = "flushed" => Board!Kind(c) \in Board!Recording
    /\ wCall[c].pc \in {"committed", "put"} => Board!Kind(c) \in Board!Writers
    /\ wCall[c].pc = "agent" => Board!Kind(c) = "decide"
    /\ wCall[c].stale \subseteq log \ {c}

\* What a call has found is there as long as it works with it.
AtHand(c) == wCall[c].pc \in {"loaded", "flushed"}
Founded(c) ==
    /\ AtHand(c) /\ Board!Kind(c) \in {"update", "triage"} /\ wDo[c].card \in Cards => Board!Exists(wDo[c].card)
    /\ AtHand(c) /\ Board!Kind(c) = "evidence" => \A k \in wDo[c].cards \cap Cards : Board!Exists(k)
    /\ AtHand(c) /\ Board!Kind(c) = "mark" => wDo[c].notification \in DOMAIN notifications
    /\ AtHand(c) /\ Board!Kind(c) = "decide" => wDo[c].request \in DOMAIN requests

\* A call that overlaps the commit of c in the sense of its history.
Overlapped == \A c \in log : Board!Watched(c) # {} => c \in DOMAIN wHistory.overlap
Writing == {c \in Board!Live : Board!Kind(c) \in Board!Writers}

\* A commit that no writer overlaps is in every graph that is read, and stays in the snapshot.
Shown ==
    \A c \in log : Board!Kind(c) \in Board!Writers /\ wHistory.overlap[c] \cap Writing = {} =>
        /\ wCall[c].pc = "answered" => c \in snapshot
        /\ \A d \in Board!Live : /\ wCall[d].pc = "put" => c \in wCall[d].view
                                 /\ wCall[d].pc \in {"idle", "loaded", "flushed", "committed"} => c \notin wCall[d].stale

\* A card is there from the start, or as the call made it that is alone to do so.
CardsCreated ==
    \A k \in Cards : Board!Exists(k) => k \in OnBoard \/ \E c \in log : Board!Kind(c) = "card" /\ wDo[c].card = k

\* Something took the value of cards away while the call c decided over them.
TookValue(c) == \E d \in log : Board!Kind(d) \in {"triage", "update"} /\ c \in wHistory.overlap[d]
Approving(c) == wCall[c].pc = "flushed" /\ Board!Kind(c) = "decide" /\ wCall[c].fan.event.type \in Board!Launching
Approved ==
    \A c \in Board!Live : Approving(c) => Board!Worthy(wDo[wDo[c].request].cards) \/ TookValue(c)
Settled == \A c \in wHistory.unsettled : TookValue(c)

Asked ==
    /\ \A r \in DOMAIN requests : r \in log /\ Board!Kind(r) = "request"
    /\ \A t \in tasks : /\ t[1] \in DOMAIN requests /\ t[2] \in log
                        /\ Board!Kind(t[2]) = "decide" /\ wDo[t[2]].request = t[1]
                        /\ requests[t[1]].task # t[2] =>
                             \E d \in log \ {t[2]} : Board!Kind(d) = "decide" /\ wDo[d].request = t[1]

\* Notifications of no race are consistent, and are counted from the first claim.
Counted ==
    /\ DOMAIN wHistory.claims \subseteq DOMAIN notifications
    /\ \A n \in DOMAIN wHistory.claims : wHistory.claims[n].number \in Nat
    /\ \A n \in DOMAIN notifications : notifications[n].lease \in BOOLEAN
    /\ Board!NotificationsConsistent

BoardInv ==
    /\ BoardTypes /\ \A c \in Board!Live : Controlled(c) /\ Founded(c)
    /\ Overlapped /\ Shown /\ CardsCreated /\ Approved /\ Settled /\ Asked /\ Counted

\* The calls of a behaviour are calls.
LEMMA BoardLive ==
    ASSUME BoardTypes
    PROVE  Board!Live \subseteq Board!Calls /\ Board!Live = DOMAIN wDo
BY DEF BoardTypes, Board!Live, Board!Calls

\* What the assumption says of the calls of a behaviour.
LEMMA BoardCall ==
    ASSUME BoardTypes, NEW c \in Board!Live
    PROVE  /\ Board!Kind(c) = "card" =>
                /\ wDo[c].triage \in CardWords /\ wDo[c].card \notin OnBoard
                /\ \A d \in Board!Live \ {c} : Board!Kind(d) = "card" => wDo[d].card # wDo[c].card
           /\ Board!Kind(c) = "update" => wDo[c].status \in CardWords /\ wDo[c].triage \in CardWords \cup {"keep"}
           /\ Board!Kind(c) = "triage" => wDo[c].value \in CardWords
           /\ Board!Kind(c) = "request" => wDo[c].cards \subseteq Cards
BY BoardAssumption DEF BoardTypes, Board!Live, Board!Kind

\* What a step of the call c does to the calls.
Moves(c, entry) ==
    /\ DOMAIN entry = EntryFields
    /\ wCall'[c] = entry
    /\ DOMAIN wCall' = Board!Calls
    /\ \A d \in Board!Calls \ {c} : wCall'[d] = wCall[d]

LEMMA BoardMoves ==
    ASSUME BoardTypes, NEW c \in Board!Calls, NEW entry, DOMAIN entry = EntryFields,
           wCall' = [wCall EXCEPT ![c] = entry]
    PROVE  Moves(c, entry)
BY DEF BoardTypes, Moves

\* What the notifications are counted by stays while the calls and the claims do.
LEMMA ClaimsStay ==
    ASSUME UNCHANGED wDo, wHistory'.claims = wHistory.claims
    PROVE  \A n : /\ Board!ClaimsOf(n)' = Board!ClaimsOf(n)
                  /\ Board!Claimant(n)' = Board!Claimant(n)
BY DEF Board!ClaimsOf, Board!Claimant

\* Notifications that stay are as they were when no claim is made.
LEMMA CountedStays ==
    ASSUME Counted, UNCHANGED <<wDo, notifications>>, wHistory.raced \subseteq wHistory'.raced,
           wHistory'.claims = wHistory.claims
    PROVE  Counted'
<1>1. Board!NotificationsConsistent'
  BY ClaimsStay DEF Counted, Board!NotificationsConsistent
<1> QED BY <1>1 DEF Counted

\* A step that commits nothing keeps the invariant when its own call keeps its part.
LEMMA QuietKeeps ==
    ASSUME BoardInv, NEW c \in Board!Live, NEW entry, Moves(c, entry),
           UNCHANGED <<wDo, log, cards, decision, notifications, requests, tasks>>,
           DOMAIN wHistory' = HistoryFields,
           UNCHANGED <<wHistory.overlap, wHistory.raced, wHistory.claims, wHistory.unsettled>>,
           Controlled(c)', Founded(c)', Shown',
           Approving(c)' => Board!Worthy(wDo[wDo[c].request].cards) \/ TookValue(c)
    PROVE  BoardInv'
<1>1. /\ Board!Live' = Board!Live /\ Board!Calls' = Board!Calls /\ Board!Live \subseteq Board!Calls
      /\ \A d : Board!Kind(d)' = Board!Kind(d)
      /\ \A k : Board!Exists(k)' = Board!Exists(k)
  BY BoardLive DEF BoardInv, Board!Live, Board!Calls, Board!Kind, Board!Exists
<1>2. BoardTypes'
  BY <1>1 DEF BoardInv, BoardTypes, Moves
<1>3. ASSUME NEW d \in Board!Live, d # c PROVE Controlled(d)' /\ Founded(d)' /\ (Approving(d)' <=> Approving(d))
  <2>1. wCall'[d] = wCall[d]
    BY <1>1, <1>3 DEF Moves
  <2> QED BY <1>1, <1>3, <2>1 DEF BoardInv, Controlled, Founded, AtHand, Approving, Board!Writers, Board!Recording
<1>4. \A d : TookValue(d)' = TookValue(d)
  BY <1>1 DEF TookValue
<1>5. \A d : Board!Worthy(wDo[wDo[d].request].cards)' = Board!Worthy(wDo[wDo[d].request].cards)
  BY <1>1 DEF Board!Worthy
<1>6. Approved'
  BY <1>1, <1>3, <1>4, <1>5 DEF BoardInv, Approved
<1>7. Settled'
  BY <1>4 DEF BoardInv, Settled
<1>8. Overlapped' /\ CardsCreated' /\ Asked'
  BY <1>1 DEF BoardInv, Overlapped, CardsCreated, Asked, Board!Watched
<1>9. Counted'
  BY CountedStays DEF BoardInv
<1> QED BY <1>1, <1>2, <1>3, <1>6, <1>7, <1>8, <1>9 DEF BoardInv
\* A step that takes a call on, with what it holds, keeps Shown.
LEMMA ShownStays ==
    ASSUME BoardInv, NEW c \in Board!Live, NEW entry, Moves(c, entry),
           UNCHANGED <<wDo, log, snapshot, wHistory.overlap>>,
           entry.stale \subseteq wCall[c].stale,
           entry.pc \in {"loaded", "flushed", "committed"} => wCall[c].pc \in {"idle", "loaded", "flushed", "committed"},
           entry.pc # "put" /\ entry.pc # "idle",
           entry.pc = "answered" => wCall[c].pc = "answered" \/ Board!Kind(c) \notin Board!Writers
    PROVE  Shown'
<1>1. /\ Board!Live' = Board!Live /\ Board!Live \subseteq Board!Calls /\ \A d : Board!Kind(d)' = Board!Kind(d)
      /\ Writing' = Writing
  BY BoardLive DEF BoardInv, Board!Live, Board!Kind, Writing, Board!Writers
<1> SUFFICES ASSUME NEW x \in log, Board!Kind(x) \in Board!Writers, wHistory.overlap[x] \cap Writing = {}
             PROVE  /\ wCall'[x].pc = "answered" => x \in snapshot
                    /\ \A d \in Board!Live : /\ wCall'[d].pc = "put" => x \in wCall'[d].view
                                             /\ wCall'[d].pc \in {"idle", "loaded", "flushed", "committed"} => x \notin wCall'[d].stale
  BY <1>1 DEF Shown, Board!Writers
<1>2. /\ wCall[x].pc = "answered" => x \in snapshot
      /\ \A d \in Board!Live : /\ wCall[d].pc = "put" => x \in wCall[d].view
                               /\ wCall[d].pc \in {"idle", "loaded", "flushed", "committed"} => x \notin wCall[d].stale
  BY DEF BoardInv, Shown
<1>3. x \in Board!Live
  BY DEF BoardInv, BoardTypes
<1>4. wCall'[x].pc = "answered" => x \in snapshot
  BY <1>1, <1>2, <1>3 DEF Moves
<1>5. ASSUME NEW d \in Board!Live
      PROVE  /\ wCall'[d].pc = "put" => x \in wCall'[d].view
             /\ wCall'[d].pc \in {"idle", "loaded", "flushed", "committed"} => x \notin wCall'[d].stale
  <2>1. CASE d = c
    BY <1>2, <2>1 DEF Moves
  <2>2. CASE d # c
    BY <1>1, <1>2, <2>2 DEF Moves
  <2> QED BY <2>1, <2>2
<1> QED BY <1>4, <1>5

\* Nothing of what a call finds, or of the history but failures and polls, changes.
LEMMA LoadKeeps ==
    ASSUME BoardInv, NEW c \in Board!Live, Board!Load(c)
    PROVE  BoardInv'
<1>1. /\ wCall[c].pc = "idle" /\ Board!Found(c) /\ c \in Board!Calls /\ BoardTypes
      /\ UNCHANGED <<wDo, log, cards, decision, notifications, requests, tasks, snapshot, wHistory>>
  BY BoardLive DEF Board!Load, Board!MayCall, Board!board, BoardInv
<1>2. PICK row, at1, entry : /\ entry = [wCall[c] EXCEPT !.pc = "loaded", !.at = at1, !.row = row]
                             /\ wCall' = [wCall EXCEPT ![c] = entry]
  BY DEF Board!Load
<1>3. /\ DOMAIN entry = EntryFields /\ entry.pc = "loaded" /\ entry.stale = wCall[c].stale
  BY <1>1, <1>2 DEF BoardTypes, EntryFields
<1>4. Moves(c, entry)
  BY <1>1, <1>2, <1>3, BoardMoves
<1>5. /\ Board!Live' = Board!Live /\ \A d : Board!Kind(d)' = Board!Kind(d)
      /\ \A k : Board!Exists(k)' = Board!Exists(k)
  BY <1>1 DEF Board!Live, Board!Kind, Board!Exists
<1>6. Controlled(c)'
  BY <1>1, <1>3, <1>4 DEF BoardInv, Controlled, Moves
<1>7. Founded(c)'
  BY <1>1, <1>4, <1>5 DEF Founded, Board!Found, Moves
<1>8. Shown'
  BY <1>1, <1>3, <1>4, ShownStays
<1>9. ~Approving(c)'
  BY <1>3, <1>4 DEF Approving, Moves
<1> QED BY <1>1, <1>4, <1>6, <1>7, <1>8, <1>9, QuietKeeps DEF BoardTypes

\* An event of an approval is recorded only when its cards are worth it.
LEMMA RecordEventKeeps ==
    ASSUME BoardInv, NEW c \in Board!Live, Board!RecordEvent(c)
    PROVE  BoardInv'
<1>1. /\ wCall[c].pc = "loaded" /\ Board!Kind(c) \in Board!Recording /\ c \in Board!Calls /\ BoardTypes
      /\ UNCHANGED <<wDo, log, cards, decision, notifications, requests, tasks, snapshot, wHistory>>
  BY BoardLive DEF Board!RecordEvent, Board!board, BoardInv
<1>2. PICK to, fan, entry : /\ fan = [event |-> Board!EventOf(c), to |-> to]
                            /\ entry = [wCall[c] EXCEPT !.pc = "flushed", !.fan = fan]
                            /\ wCall' = [wCall EXCEPT ![c] = entry]
  BY DEF Board!RecordEvent
<1>3. /\ DOMAIN entry = EntryFields /\ entry.pc = "flushed" /\ entry.stale = wCall[c].stale /\ entry.fan = fan
      /\ fan.event = Board!EventOf(c)
  BY <1>1, <1>2 DEF BoardTypes, EntryFields
<1>4. Moves(c, entry)
  BY <1>1, <1>2, <1>3, BoardMoves
<1>5. /\ Board!Live' = Board!Live /\ \A d : Board!Kind(d)' = Board!Kind(d)
      /\ \A k : Board!Exists(k)' = Board!Exists(k)
  BY <1>1 DEF Board!Live, Board!Kind, Board!Exists
<1>6. Controlled(c)'
  BY <1>1, <1>3, <1>4, <1>5 DEF BoardInv, Controlled, Moves, Board!Recording, Board!Writers
<1>7. Founded(c)'
  BY <1>1, <1>3, <1>4, <1>5 DEF BoardInv, Founded, AtHand, Moves
<1>8. Shown'
  BY <1>1, <1>3, <1>4, ShownStays
<1>9. Approving(c)' => Board!Worthy(wDo[wDo[c].request].cards)
  <2> SUFFICES ASSUME Board!Kind(c) = "decide", Board!EventOf(c).type \in Board!Launching
               PROVE  Board!Worthy(wDo[wDo[c].request].cards)
    BY <1>3, <1>4, <1>5 DEF Approving, Moves, Board!Launching
  <2>1. Board!EventOf(c).type = Board!Decided(c, wDo[wDo[c].request].cards)
    BY DEF Board!EventOf, Board!OtherEvent
  <2> QED BY <2>1 DEF Board!Decided, Board!Launching
<1> QED BY <1>1, <1>4, <1>6, <1>7, <1>8, <1>9, QuietKeeps DEF BoardTypes

\* The graph is read without what the call holds from before.
LEMMA ReadGraphKeeps ==
    ASSUME BoardInv, NEW c \in Board!Live, Board!ReadGraph(c)
    PROVE  BoardInv'
<1>1. /\ wCall[c].pc = "committed" /\ c \in Board!Calls /\ BoardTypes
      /\ UNCHANGED <<wDo, log, cards, decision, notifications, requests, tasks, snapshot, wHistory>>
  BY BoardLive DEF Board!ReadGraph, Board!board, BoardInv
<1>2. PICK entry : /\ entry = [wCall[c] EXCEPT !.pc = "put", !.stale = {}, !.view = log \ wCall[c].stale]
                   /\ wCall' = [wCall EXCEPT ![c] = entry]
  BY DEF Board!ReadGraph, Board!Graph
<1>3. /\ DOMAIN entry = EntryFields /\ entry.pc = "put" /\ entry.stale = {}
      /\ entry.view = log \ wCall[c].stale
  BY <1>1, <1>2 DEF BoardTypes, EntryFields
<1>4. Moves(c, entry)
  BY <1>1, <1>2, <1>3, BoardMoves
<1>5. /\ Board!Live' = Board!Live /\ \A d : Board!Kind(d)' = Board!Kind(d) /\ Writing' = Writing
  BY <1>1 DEF Board!Live, Board!Kind, Writing, Board!Writers
<1>6. Controlled(c)' /\ Founded(c)'
  BY <1>1, <1>3, <1>4, <1>5 DEF BoardInv, Controlled, Founded, AtHand, Moves, Board!Writers
<1>7. Shown'
  <2> SUFFICES ASSUME NEW x \in log, Board!Kind(x) \in Board!Writers, wHistory.overlap[x] \cap Writing = {}
               PROVE  /\ wCall'[x].pc = "answered" => x \in snapshot
                      /\ \A d \in Board!Live :
                           /\ wCall'[d].pc = "put" => x \in wCall'[d].view
                           /\ wCall'[d].pc \in {"idle", "loaded", "flushed", "committed"} => x \notin wCall'[d].stale
    BY <1>1, <1>5 DEF Shown, Board!Writers
  <2>1. /\ wCall[x].pc = "answered" => x \in snapshot
        /\ \A d \in Board!Live :
             /\ wCall[d].pc = "put" => x \in wCall[d].view
             /\ wCall[d].pc \in {"idle", "loaded", "flushed", "committed"} => x \notin wCall[d].stale
    BY DEF BoardInv, Shown
  <2>2. x \in Board!Live
    BY DEF BoardInv, BoardTypes
  <2>3. \A d \in Board!Live \ {c} : wCall'[d] = wCall[d]
    BY <1>1, <1>4, BoardLive DEF Moves
  <2>4. wCall'[c] = entry
    BY <1>4 DEF Moves
  <2> QED BY <1>1, <1>3, <2>1, <2>2, <2>3, <2>4
<1>8. ~Approving(c)'
  BY <1>3, <1>4 DEF Approving, Moves
<1> QED BY <1>1, <1>4, <1>6, <1>7, <1>8, QuietKeeps DEF BoardTypes

\* The snapshot that is put shows every call that no writer overlaps.
LEMMA PutSnapshotKeeps ==
    ASSUME BoardInv, NEW c \in Board!Live, Board!PutSnapshot(c)
    PROVE  BoardInv'
<1>1. /\ wCall[c].pc = "put" /\ c \in Board!Calls /\ BoardTypes /\ snapshot' = wCall[c].view
      /\ UNCHANGED <<wDo, log, cards, decision, notifications, requests, tasks, wHistory>>
  BY BoardLive DEF Board!PutSnapshot, Board!board, BoardInv
<1>2. PICK entry : entry = [Board!Idle EXCEPT !.pc = "answered"] /\ wCall' = [wCall EXCEPT ![c] = entry]
  BY DEF Board!PutSnapshot
<1>3. DOMAIN entry = EntryFields /\ entry.pc = "answered" /\ entry.stale = {}
  BY <1>2 DEF Board!Idle, EntryFields
<1>4. Moves(c, entry)
  BY <1>1, <1>2, <1>3, BoardMoves
<1>5. /\ Board!Live' = Board!Live /\ \A d : Board!Kind(d)' = Board!Kind(d) /\ Writing' = Writing
  BY <1>1 DEF Board!Live, Board!Kind, Writing, Board!Writers
<1>6. Controlled(c)' /\ Founded(c)'
  BY <1>3, <1>4 DEF Controlled, Founded, AtHand, Moves
<1>7. Shown'
  <2> SUFFICES ASSUME NEW x \in log, Board!Kind(x) \in Board!Writers, wHistory.overlap[x] \cap Writing = {}
               PROVE  /\ x \in wCall[c].view
                      /\ \A d \in Board!Live :
                           /\ wCall'[d].pc = "put" => x \in wCall'[d].view
                           /\ wCall'[d].pc \in {"idle", "loaded", "flushed", "committed"} => x \notin wCall'[d].stale
    BY <1>1, <1>5 DEF Shown, Board!Writers
  <2>1. \A d \in Board!Live :
             /\ wCall[d].pc = "put" => x \in wCall[d].view
             /\ wCall[d].pc \in {"idle", "loaded", "flushed", "committed"} => x \notin wCall[d].stale
    BY DEF BoardInv, Shown
  <2>2. \A d \in Board!Live \ {c} : wCall'[d] = wCall[d]
    BY <1>1, <1>4, BoardLive DEF Moves
  <2>3. wCall'[c] = entry
    BY <1>4 DEF Moves
  <2> QED BY <1>1, <1>3, <2>1, <2>2, <2>3
<1>8. ~Approving(c)'
  BY <1>3, <1>4 DEF Approving, Moves
<1> QED BY <1>1, <1>4, <1>6, <1>7, <1>8, QuietKeeps DEF BoardTypes

\* Agents are started for decisions, which put no snapshot.
LEMMA StartAgentKeeps ==
    ASSUME BoardInv, NEW c \in Board!Live, Board!StartAgent(c)
    PROVE  BoardInv'
<1>1. /\ wCall[c].pc = "agent" /\ c \in Board!Calls /\ BoardTypes
      /\ UNCHANGED <<wDo, log, cards, decision, notifications, requests, tasks, snapshot, wHistory>>
  BY BoardLive DEF Board!StartAgent, Board!board, BoardInv
<1>2. PICK entry : entry = [wCall[c] EXCEPT !.pc = "answered"] /\ wCall' = [wCall EXCEPT ![c] = entry]
  BY DEF Board!StartAgent
<1>3. DOMAIN entry = EntryFields /\ entry.pc = "answered" /\ entry.stale = wCall[c].stale
  BY <1>1, <1>2 DEF BoardTypes, EntryFields
<1>4. Moves(c, entry)
  BY <1>1, <1>2, <1>3, BoardMoves
<1>5. Board!Kind(c) \notin Board!Writers
  BY <1>1 DEF BoardInv, Controlled, Board!Writers
<1>6. Controlled(c)' /\ Founded(c)'
  BY <1>1, <1>3, <1>4 DEF BoardInv, Controlled, Founded, AtHand, Moves
<1>7. Shown'
  BY <1>1, <1>3, <1>4, <1>5, ShownStays
<1>8. ~Approving(c)'
  BY <1>3, <1>4 DEF Approving, Moves
<1> QED BY <1>1, <1>4, <1>6, <1>7, <1>8, QuietKeeps DEF BoardTypes

\* A call that fails is in the log or not, and holds nothing any more.
LEMMA CallFailsKeeps ==
    ASSUME BoardInv, NEW c \in Board!Live, Board!Fail(c)
    PROVE  BoardInv'
<1>1. /\ c \in Board!Calls /\ BoardTypes
      /\ UNCHANGED <<wDo, log, cards, decision, notifications, requests, tasks, snapshot>>
      /\ wHistory' = [wHistory EXCEPT !.failures = @ + 1]
  BY BoardLive DEF Board!Fail, Board!board, BoardInv
<1>2. PICK entry : entry = [Board!Idle EXCEPT !.pc = "failed"] /\ wCall' = [wCall EXCEPT ![c] = entry]
  BY DEF Board!Fail
<1>3. DOMAIN entry = EntryFields /\ entry.pc = "failed" /\ entry.stale = {}
  BY <1>2 DEF Board!Idle, EntryFields
<1>4. Moves(c, entry)
  BY <1>1, <1>2, <1>3, BoardMoves
<1>5. /\ DOMAIN wHistory' = HistoryFields
      /\ UNCHANGED <<wHistory.overlap, wHistory.raced, wHistory.claims, wHistory.unsettled>>
  BY <1>1 DEF BoardTypes, HistoryFields
<1>6. Controlled(c)' /\ Founded(c)'
  BY <1>3, <1>4 DEF Controlled, Founded, AtHand, Moves
<1>7. Shown'
  BY <1>1, <1>3, <1>4, <1>5, ShownStays
<1>8. ~Approving(c)'
  BY <1>3, <1>4 DEF Approving, Moves
<1> QED BY <1>1, <1>4, <1>5, <1>6, <1>7, <1>8, QuietKeeps

\* A poll changes the reader.
LEMMA PollKeeps ==
    ASSUME BoardInv, NEW c \in Board!Live, Board!Poll(c)
    PROVE  BoardInv'
<1>1. /\ wCall[c].pc = "idle" /\ c \in Board!Calls /\ BoardTypes /\ Board!Kind(c) = "poll"
      /\ UNCHANGED <<wDo, log, cards, decision, notifications, requests, tasks, snapshot>>
  BY BoardLive DEF Board!Poll, Board!MayCall, Board!board, BoardInv
<1>2. PICK polled : wHistory' = [wHistory EXCEPT !.polled = polled]
  BY DEF Board!Poll
<1>3. PICK entry : entry = [wCall[c] EXCEPT !.pc = "answered"] /\ wCall' = [wCall EXCEPT ![c] = entry]
  BY DEF Board!Poll
<1>4. DOMAIN entry = EntryFields /\ entry.pc = "answered" /\ entry.stale = wCall[c].stale
  BY <1>1, <1>3 DEF BoardTypes, EntryFields
<1>5. Moves(c, entry)
  BY <1>1, <1>3, <1>4, BoardMoves
<1>6. /\ DOMAIN wHistory' = HistoryFields
      /\ UNCHANGED <<wHistory.overlap, wHistory.raced, wHistory.claims, wHistory.unsettled>>
  BY <1>1, <1>2 DEF BoardTypes, HistoryFields
<1>7. Controlled(c)' /\ Founded(c)'
  BY <1>1, <1>4, <1>5 DEF BoardInv, Controlled, Founded, AtHand, Moves
<1>8. Shown'
  BY <1>1, <1>4, <1>5, <1>6, ShownStays DEF Board!Writers
<1>9. ~Approving(c)'
  BY <1>4, <1>5 DEF Approving, Moves
<1> QED BY <1>1, <1>5, <1>6, <1>7, <1>8, <1>9, QuietKeeps

-----------------------------------------------------------------------------
(* Commits *)

\* What a commit of the call c does to the calls: its own goes on to what follows a commit,
\* and only writers hold what it changed.
LEMMA CommittedCalls ==
    ASSUME BoardInv, NEW c \in Board!Live, AtHand(c), NEW changed, Board!Committed(c, changed)
    PROVE  /\ log' = log \cup {c} /\ c \notin log /\ UNCHANGED <<wDo, snapshot>>
           /\ DOMAIN wCall' = Board!Calls /\ \A d \in Board!Calls : DOMAIN wCall'[d] = EntryFields
           /\ wCall'[c].pc \in {"committed", "agent", "answered"} /\ wCall'[c].stale \subseteq wCall[c].stale
           /\ wCall'[c].pc = "committed" <=> Board!Kind(c) \in Board!Writers
           /\ wCall'[c].pc = "agent" => Board!Kind(c) = "decide"
           /\ \A d \in Board!Calls \ {c} :
                /\ wCall'[d].pc = wCall[d].pc /\ wCall'[d].fan = wCall[d].fan /\ wCall'[d].view = wCall[d].view
                /\ \/ wCall'[d].stale = wCall[d].stale
                   \/ /\ wCall'[d].stale = wCall[d].stale \cup {c}
                      /\ d \in Board!Live /\ Board!Kind(d) \in {"card", "update", "evidence"}
                      /\ wCall[d].pc \in {"loaded", "flushed", "committed"}
<1>1. /\ c \in Board!Calls /\ BoardTypes /\ Controlled(c) /\ DOMAIN wCall[c] = EntryFields
      /\ log' = log \cup {c} /\ UNCHANGED <<wDo, snapshot>>
  BY BoardLive DEF BoardInv, BoardTypes, Board!Committed
<1>2. c \notin log
  BY <1>1 DEF Controlled, AtHand
<1>3. DOMAIN wCall' = Board!Calls
  BY DEF Board!Committed
<1>4. PICK agreed, answered, ended :
        /\ agreed = [wCall[c] EXCEPT !.pc = "committed", !.row = None, !.fan = {}]
        /\ answered = [Board!Idle EXCEPT !.pc = "answered"]
        /\ ended = [Board!Idle EXCEPT !.pc = "agent"]
  OBVIOUS
<1>5. /\ DOMAIN agreed = EntryFields /\ agreed.pc = "committed" /\ agreed.stale = wCall[c].stale
      /\ DOMAIN answered = EntryFields /\ answered.pc = "answered" /\ answered.stale = {}
      /\ DOMAIN ended = EntryFields /\ ended.pc = "agent" /\ ended.stale = {}
  BY <1>1, <1>4 DEF EntryFields, Board!Idle
<1>6. /\ Board!Kind(c) \in Board!Writers => wCall'[c] = agreed
      /\ Board!Kind(c) \notin Board!Writers => wCall'[c] = answered \/ (Board!Kind(c) = "decide" /\ wCall'[c] = ended)
  BY <1>1, <1>4 DEF Board!Committed, Board!Writers
<1>7. ASSUME NEW d \in Board!Calls \ {c}
      PROVE  /\ wCall'[d].pc = wCall[d].pc /\ wCall'[d].fan = wCall[d].fan /\ wCall'[d].view = wCall[d].view
             /\ DOMAIN wCall'[d] = EntryFields
             /\ \/ wCall'[d].stale = wCall[d].stale
                \/ /\ wCall'[d].stale = wCall[d].stale \cup {c}
                   /\ d \in Board!Live /\ Board!Kind(d) \in {"card", "update", "evidence"}
                   /\ wCall[d].pc \in {"loaded", "flushed", "committed"}
  <2>1. DOMAIN wCall[d] = EntryFields
    BY <1>1 DEF BoardTypes
  <2>2. PICK older : older = [wCall[d] EXCEPT !.stale = @ \cup {c}]
    OBVIOUS
  <2>3. /\ DOMAIN older = EntryFields /\ older.pc = wCall[d].pc /\ older.fan = wCall[d].fan
        /\ older.view = wCall[d].view /\ older.stale = wCall[d].stale \cup {c}
    BY <2>1, <2>2 DEF EntryFields
  <2>4. \/ wCall'[d] = wCall[d]
        \/ /\ wCall'[d] = older /\ d \in Board!Live /\ wCall[d].pc \in {"loaded", "flushed", "committed"}
           /\ Board!Held(d) # {}
    BY <2>2 DEF Board!Committed
  <2>5. Board!Held(d) # {} => Board!Kind(d) \in {"card", "update", "evidence"}
    BY DEF Board!Held
  <2> QED BY <2>1, <2>3, <2>4, <2>5
<1> QED BY <1>1, <1>2, <1>3, <1>5, <1>6, <1>7

\* A commit keeps what the invariant says of the calls and their order.
LEMMA CommitOrders ==
    ASSUME BoardInv, NEW c \in Board!Live, AtHand(c), NEW changed, Board!Committed(c, changed),
           wHistory'.overlap = Board!Overlaps(c)
    PROVE  /\ \A d \in Board!Live : Controlled(d)'
           /\ Overlapped' /\ Shown'
           /\ \A d : TookValue(d) => TookValue(d)'
           /\ \A d \in Board!Live \ {c} :
                AtHand(d) /\ Board!Kind(d) = "decide" /\ Board!Kind(c) \in {"update", "triage"} => TookValue(d)'
<1>1. /\ log' = log \cup {c} /\ c \notin log /\ UNCHANGED <<wDo, snapshot>>
      /\ wCall'[c].pc \in {"committed", "agent", "answered"} /\ wCall'[c].stale \subseteq wCall[c].stale
      /\ wCall'[c].pc = "committed" <=> Board!Kind(c) \in Board!Writers
      /\ wCall'[c].pc = "agent" => Board!Kind(c) = "decide"
  BY CommittedCalls
<1>2. \A d \in Board!Calls \ {c} :
        /\ wCall'[d].pc = wCall[d].pc /\ wCall'[d].view = wCall[d].view
        /\ \/ wCall'[d].stale = wCall[d].stale
           \/ /\ wCall'[d].stale = wCall[d].stale \cup {c}
              /\ d \in Board!Live /\ Board!Kind(d) \in {"card", "update", "evidence"}
              /\ wCall[d].pc \in {"loaded", "flushed", "committed"}
  BY CommittedCalls
<1>3. /\ Board!Live' = Board!Live /\ Board!Live \subseteq Board!Calls /\ log \subseteq Board!Live
      /\ \A d : Board!Kind(d)' = Board!Kind(d)
      /\ Writing' = Writing
      /\ \A d : Board!Watched(d)' = Board!Watched(d)
  BY <1>1, BoardLive DEF BoardInv, BoardTypes, Board!Live, Board!Kind, Writing, Board!Writers, Board!Watched, Board!Recording
<1>4. \A d \in Board!Live : Controlled(d)
  BY DEF BoardInv
<1>5. ASSUME NEW d \in Board!Live PROVE Controlled(d)'
  <2>1. CASE d = c
    BY <1>1, <1>3, <1>4, <2>1 DEF Controlled, Board!Writers
  <2>2. CASE d # c
    BY <1>1, <1>2, <1>3, <1>4, <2>2 DEF Controlled, Board!Writers, Board!Recording
  <2> QED BY <2>1, <2>2
<1>6. /\ \A d \in log : Board!Watched(d) # {} => d \in DOMAIN wHistory.overlap
      /\ \A d \in DOMAIN wHistory.overlap \ {c} : /\ d \in DOMAIN wHistory'.overlap
                                                  /\ wHistory'.overlap[d] = wHistory.overlap[d]
      /\ Board!Watched(c) # {} => c \in DOMAIN wHistory'.overlap
  BY DEF BoardInv, Overlapped, Board!Overlaps, Board!With
<1>7. Board!Watched(c) # {} =>
        \A d \in Board!Live \ {c} : Board!Kind(d) \in Board!Watched(c)
          /\ wCall[d].pc \in {"loaded", "flushed", "committed", "put"} => d \in wHistory'.overlap[c]
  BY DEF Board!Overlaps, Board!With
<1>8. Overlapped'
  BY <1>1, <1>3, <1>6 DEF Overlapped
<1>9. ASSUME NEW d, TookValue(d) PROVE TookValue(d)'
  <2>1. PICK e \in log : Board!Kind(e) \in {"triage", "update"} /\ d \in wHistory.overlap[e]
    BY <1>9 DEF TookValue
  <2>2. Board!Watched(e) # {}
    BY <2>1 DEF Board!Watched
  <2>3. wHistory'.overlap[e] = wHistory.overlap[e]
    BY <1>1, <1>6, <2>2
  <2> QED BY <1>1, <1>3, <2>1, <2>3 DEF TookValue
<1>10. ASSUME NEW d \in Board!Live \ {c}, AtHand(d), Board!Kind(d) = "decide", Board!Kind(c) \in {"update", "triage"}
       PROVE  TookValue(d)'
  <2>1. "decide" \in Board!Watched(c)
    BY <1>10 DEF Board!Watched, Board!Writers
  <2>2. d \in wHistory'.overlap[c]
    BY <1>7, <1>10, <2>1 DEF AtHand
  <2> QED BY <1>1, <1>3, <1>10, <2>2 DEF TookValue
<1>11. Shown'
  <2> SUFFICES ASSUME NEW x \in log \cup {c}, Board!Kind(x) \in Board!Writers, wHistory'.overlap[x] \cap Writing = {}
               PROVE  /\ wCall'[x].pc = "answered" => x \in snapshot
                      /\ \A d \in Board!Live :
                           /\ wCall'[d].pc = "put" => x \in wCall'[d].view
                           /\ wCall'[d].pc \in {"idle", "loaded", "flushed", "committed"} => x \notin wCall'[d].stale
    BY <1>1, <1>3 DEF Shown, Board!Writers
  <2>1. Board!Watched(x) # {} /\ Board!Writers \subseteq Board!Watched(x)
    BY DEF Board!Watched, Board!Writers
  <2>2. CASE x = c
    <3>1. wCall'[c].pc = "committed"
      BY <1>1, <2>2
    <3>2. ASSUME NEW d \in Board!Live \ {c}, wCall[d].pc \in {"loaded", "flushed", "committed", "put"}
          PROVE  Board!Kind(d) \notin Board!Writers
      BY <1>7, <2>1, <2>2, <3>2 DEF Writing
    <3>3. ASSUME NEW d \in Board!Live \ {c} PROVE wCall'[d].pc # "put"
      BY <1>2, <1>3, <1>4, <3>2, <3>3 DEF Controlled
    <3>4. ASSUME NEW d \in Board!Live PROVE c \notin wCall[d].stale
      BY <1>1, <1>4 DEF Controlled
    <3>5. ASSUME NEW d \in Board!Live \ {c} PROVE c \notin wCall'[d].stale
      BY <1>2, <1>3, <3>2, <3>4 DEF Board!Writers
    <3> QED BY <1>1, <2>2, <3>1, <3>3, <3>4, <3>5
  <2>3. CASE x # c
    <3>1. x \in log /\ wHistory.overlap[x] \cap Writing = {}
      BY <1>6, <2>1, <2>3
    <3>2. /\ wCall[x].pc = "answered" => x \in snapshot
          /\ \A d \in Board!Live :
               /\ wCall[d].pc = "put" => x \in wCall[d].view
               /\ wCall[d].pc \in {"idle", "loaded", "flushed", "committed"} => x \notin wCall[d].stale
      BY <3>1 DEF BoardInv, Shown
    <3>3. wCall'[x].pc = wCall[x].pc
      BY <1>2, <1>3, <2>3, <3>1
    <3>4. ASSUME NEW d \in Board!Live
          PROVE  /\ wCall'[d].pc = "put" => x \in wCall'[d].view
                 /\ wCall'[d].pc \in {"idle", "loaded", "flushed", "committed"} => x \notin wCall'[d].stale
      <4>1. CASE d = c
        BY <1>1, <3>2, <4>1 DEF AtHand
      <4>2. CASE d # c
        BY <1>2, <1>3, <2>3, <3>2, <4>2
      <4> QED BY <4>1, <4>2
    <3> QED BY <3>2, <3>3, <3>4
  <2> QED BY <2>2, <2>3
<1> QED BY <1>5, <1>8, <1>9, <1>10, <1>11

\* What a commit must do to the rows of the board to keep the invariant: it takes away
\* nothing that a call has found, and no value of cards unless it is an update or a triage.
LEMMA CommitKeeps ==
    ASSUME BoardInv, NEW c \in Board!Live, AtHand(c), NEW changed, Board!Committed(c, changed),
           DOMAIN wHistory' = HistoryFields, wHistory'.overlap = Board!Overlaps(c),
           cards' \in [Cards -> CardRow \cup {None}], DOMAIN decision' = Cards,
           \A k \in Cards : Board!Exists(k) => Board!Exists(k)',
           DOMAIN notifications \subseteq DOMAIN notifications', DOMAIN requests \subseteq DOMAIN requests',
           \/ Board!Kind(c) \in {"update", "triage"}
           \/ \A R \in SUBSET Cards : Board!Worthy(R) => Board!Worthy(R)',
           \A d \in wHistory'.unsettled : d \in wHistory.unsettled \/ TookValue(d),
           CardsCreated', Asked', Counted'
    PROVE  BoardInv'
<1>1. /\ log' = log \cup {c} /\ UNCHANGED wDo /\ BoardTypes
      /\ DOMAIN wCall' = Board!Calls /\ \A d \in Board!Calls : DOMAIN wCall'[d] = EntryFields
      /\ wCall'[c].pc \in {"committed", "agent", "answered"}
      /\ \A d \in Board!Calls \ {c} : wCall'[d].pc = wCall[d].pc /\ wCall'[d].fan = wCall[d].fan
  BY CommittedCalls DEF BoardInv
<1>2. /\ Board!Live' = Board!Live /\ Board!Calls' = Board!Calls /\ Board!Live \subseteq Board!Calls
      /\ \A d : Board!Kind(d)' = Board!Kind(d)
  BY <1>1, BoardLive DEF Board!Live, Board!Calls, Board!Kind
<1>3. BoardTypes'
  BY <1>1, <1>2 DEF BoardTypes
<1>4. /\ \A d \in Board!Live : Controlled(d)'
      /\ Overlapped' /\ Shown' /\ \A d : TookValue(d) => TookValue(d)'
      /\ \A d \in Board!Live \ {c} :
           AtHand(d) /\ Board!Kind(d) = "decide" /\ Board!Kind(c) \in {"update", "triage"} => TookValue(d)'
  BY CommitOrders
<1>5. ASSUME NEW d \in Board!Live PROVE Founded(d)'
  <2>1. CASE d = c
    BY <1>1, <2>1 DEF Founded, AtHand
  <2>2. CASE d # c
    <3>1. Founded(d) /\ (AtHand(d)' <=> AtHand(d))
      BY <1>1, <1>2, <2>2 DEF BoardInv, AtHand
    <3> QED BY <1>1, <1>2, <3>1 DEF Founded
  <2> QED BY <2>1, <2>2
<1>6. Approved'
  <2> SUFFICES ASSUME NEW d \in Board!Live, Approving(d)'
               PROVE  Board!Worthy(wDo[wDo[d].request].cards)' \/ TookValue(d)'
    BY <1>2 DEF Approved
  <2>1. d # c /\ Approving(d) /\ AtHand(d) /\ Board!Kind(d) = "decide"
    BY <1>1, <1>2 DEF Approving, AtHand, Board!Launching
  <2>2. Board!Worthy(wDo[wDo[d].request].cards) \/ TookValue(d)
    BY <2>1 DEF BoardInv, Approved
  <2>3. wDo[wDo[d].request].cards \in SUBSET Cards
    <3>1. PICK r : r = wDo[d].request
      OBVIOUS
    <3>2. r \in DOMAIN requests
      BY <2>1, <3>1 DEF BoardInv, Founded
    <3>3. r \in Board!Live /\ Board!Kind(r) = "request"
      BY <1>1, <3>2 DEF BoardInv, BoardTypes, Asked
    <3> QED BY <1>1, <3>1, <3>3, BoardCall
  <2>4. CASE Board!Kind(c) \in {"update", "triage"}
    BY <1>4, <2>1, <2>4
  <2>5. CASE Board!Kind(c) \notin {"update", "triage"}
    <3>1. \A R \in SUBSET Cards : Board!Worthy(R) => Board!Worthy(R)'
      BY <2>5
    <3>2. PICK R \in SUBSET Cards : R = wDo[wDo[d].request].cards
      BY <2>3
    <3>3. Board!Worthy(R) => Board!Worthy(R)'
      BY <3>1
    <3>4. Board!Worthy(wDo[wDo[d].request].cards)' <=> Board!Worthy(R)'
      BY <1>1, <3>2 DEF Board!Worthy
    <3> QED BY <1>4, <2>2, <3>2, <3>3, <3>4
  <2> QED BY <2>4, <2>5
<1>7. Settled'
  BY <1>4 DEF BoardInv, Settled
<1> QED BY <1>2, <1>3, <1>4, <1>5, <1>6, <1>7 DEF BoardInv
\* Rows of cards are not None.
LEMMA CardsExist ==
    ASSUME BoardTypes
    PROVE  \A k \in Cards : (Board!Exists(k) <=> cards[k] \in CardRow)
BY BoardAssumption DEF BoardTypes, CardRow, Board!Exists

\* New notifications have no claim yet.
LEMMA EventCounted ==
    ASSUME BoardInv, NEW c, NEW changed, Board!Committed(c, changed), Board!CommitEvent(c),
           wHistory.raced \subseteq wHistory'.raced, wHistory'.claims = wHistory.claims
    PROVE  DOMAIN notifications \subseteq DOMAIN notifications' /\ Counted'
<1>1. PICK new : new = DOMAIN notifications \cup ({wCall[c].fan.event.call} \X wCall[c].fan.to)
  OBVIOUS
<1>2. notifications' = [n \in new |-> IF n \in DOMAIN notifications THEN notifications[n] ELSE Board!NewNotification]
  BY <1>1 DEF Board!CommitEvent, Board!AddNotifications
<1>3. /\ DOMAIN notifications \subseteq DOMAIN notifications'
      /\ \A n \in DOMAIN notifications' : notifications'[n] = IF n \in DOMAIN notifications THEN notifications[n]
                                                              ELSE Board!NewNotification
  BY <1>1, <1>2
<1>4. /\ Board!NewNotification.status = "pending" /\ Board!NewNotification.count = 0
      /\ Board!NewNotification.lease = FALSE /\ Board!NewNotification.claimant = None
  BY DEF Board!NewNotification
<1>5. Counted
  BY DEF BoardInv
<1>6. ASSUME NEW n \in DOMAIN notifications'
      PROVE  notifications'[n].lease \in BOOLEAN
  <2>1. CASE n \in DOMAIN notifications
    BY <1>3, <1>5, <2>1 DEF Counted
  <2>2. CASE n \notin DOMAIN notifications
    <3>1. notifications'[n] = Board!NewNotification
      BY <1>3, <2>2
    <3>2. Board!NewNotification.lease \in BOOLEAN
      BY DEF Board!NewNotification
    <3> QED BY <3>1, <3>2
  <2> QED BY <2>1, <2>2
<1>7. \A n : Board!ClaimsOf(n)' = Board!ClaimsOf(n) /\ Board!Claimant(n)' = Board!Claimant(n)
  BY ClaimsStay DEF Board!Committed
<1>8. Board!NotificationsConsistent'
  <2> SUFFICES ASSUME NEW n \in DOMAIN notifications' \ wHistory'.raced
               PROVE  LET row == notifications'[n]  claimed == n \in DOMAIN wHistory.claims
                      IN /\ row.status = "claimed" => claimed /\ row.lease
                         /\ row.status \in {"handled", "ignored"} => ~row.lease
                         /\ row.count = Board!ClaimsOf(n)
                         /\ row.claimant = IF claimed THEN Board!Claimant(wHistory.claims[n].last) ELSE None
    BY <1>7 DEF Board!NotificationsConsistent
  <2>1. CASE n \in DOMAIN notifications
    BY <1>3, <1>5, <2>1 DEF Counted, Board!NotificationsConsistent
  <2>2. CASE n \notin DOMAIN notifications
    <3>1. notifications'[n] = Board!NewNotification /\ n \notin DOMAIN wHistory.claims
      BY <1>3, <1>5, <2>2 DEF Counted
    <3>2. Board!ClaimsOf(n) = 0
      BY <3>1 DEF Board!ClaimsOf
    <3> QED BY <1>4, <3>1, <3>2
  <2> QED BY <2>1, <2>2
<1> QED BY <1>3, <1>5, <1>6, <1>8 DEF Counted

\* Requests and tasks that stay are still as the invariant says when a call is committed.
LEMMA AskedStays ==
    ASSUME BoardInv, UNCHANGED <<wDo, requests, tasks>>, log \subseteq log'
    PROVE  Asked'
<1>1. \A d : Board!Kind(d)' = Board!Kind(d)
  BY DEF Board!Kind
<1> QED BY <1>1 DEF BoardInv, Asked

LEMMA CreatedStays ==
    ASSUME BoardInv, UNCHANGED wDo, log \subseteq log', \A k \in Cards : Board!Exists(k)' => Board!Exists(k)
    PROVE  CardsCreated'
<1>1. \A d : Board!Kind(d)' = Board!Kind(d)
  BY DEF Board!Kind
<1> QED BY <1>1 DEF BoardInv, CardsCreated

\* A commit that leaves the cards, their value and the requests alone.
LEMMA PlainCommit ==
    ASSUME BoardInv, NEW c \in Board!Live, AtHand(c), NEW changed, Board!Committed(c, changed),
           UNCHANGED <<cards, decision, requests, tasks>>,
           DOMAIN wHistory' = HistoryFields, wHistory'.overlap = Board!Overlaps(c),
           wHistory'.unsettled = wHistory.unsettled,
           DOMAIN notifications \subseteq DOMAIN notifications', Counted'
    PROVE  BoardInv'
<1>1. log' = log \cup {c} /\ UNCHANGED wDo
  BY CommittedCalls
<1>2. cards' \in [Cards -> CardRow \cup {None}] /\ DOMAIN decision' = Cards
  BY DEF BoardInv, BoardTypes
<1>3. (\A k : Board!Exists(k)' <=> Board!Exists(k)) /\ \A R : Board!Worthy(R)' <=> Board!Worthy(R)
  BY DEF Board!Exists, Board!Worthy
<1>4. Asked' /\ CardsCreated'
  BY <1>1, <1>3, AskedStays, CreatedStays
<1> QED BY <1>2, <1>3, <1>4, CommitKeeps

\* What a commit that notes only its overlaps leaves of the history.
LEMMA OverlapsNoted ==
    ASSUME BoardTypes, NEW x, wHistory' = [wHistory EXCEPT !.overlap = x]
    PROVE  /\ DOMAIN wHistory' = HistoryFields /\ wHistory'.overlap = x
           /\ wHistory'.unsettled = wHistory.unsettled /\ wHistory'.claims = wHistory.claims
           /\ wHistory'.raced = wHistory.raced
BY DEF BoardTypes, HistoryFields

\* ... and one that notes the rows it raced for, too.
LEMMA RacesNoted ==
    ASSUME BoardTypes, NEW x, NEW y, wHistory' = [wHistory EXCEPT !.overlap = x, !.raced = @ \cup y]
    PROVE  /\ DOMAIN wHistory' = HistoryFields /\ wHistory'.overlap = x
           /\ wHistory'.unsettled = wHistory.unsettled /\ wHistory'.claims = wHistory.claims
           /\ wHistory.raced \subseteq wHistory'.raced
BY DEF BoardTypes, HistoryFields

\* Edges, notes and attachments leave the cards alone.
LEMMA SimpleKeeps ==
    ASSUME BoardInv, NEW c \in Board!Live,
           Board!CreateEdge(c) \/ Board!AddNote(c) \/ Board!AddAttachment(c)
    PROVE  BoardInv'
<1>1. /\ Board!CommitEvent(c) /\ Board!Committed(c, {}) /\ AtHand(c) /\ BoardTypes
      /\ wHistory' = [wHistory EXCEPT !.overlap = Board!Overlaps(c)]
      /\ UNCHANGED <<cards, decision, requests, tasks>>
  BY DEF Board!CreateEdge, Board!AddNote, Board!AddAttachment, Board!CommitEvent, AtHand, BoardInv
<1>2. /\ DOMAIN wHistory' = HistoryFields /\ wHistory'.overlap = Board!Overlaps(c)
      /\ wHistory'.unsettled = wHistory.unsettled /\ wHistory'.claims = wHistory.claims
      /\ wHistory'.raced = wHistory.raced
  BY <1>1, OverlapsNoted
<1>3. DOMAIN notifications \subseteq DOMAIN notifications' /\ Counted'
  BY <1>1, <1>2, EventCounted
<1> QED BY <1>1, <1>2, <1>3, PlainCommit

\* A card that is created was not there.
LEMMA CreateCardKeeps ==
    ASSUME BoardInv, NEW c \in Board!Live, Board!CreateCard(c)
    PROVE  BoardInv'
<1>1. /\ Board!CommitEvent(c) /\ Board!Committed(c, {}) /\ AtHand(c) /\ BoardTypes /\ Board!Kind(c) = "card"
      /\ wHistory' = [wHistory EXCEPT !.overlap = Board!Overlaps(c)]
      /\ UNCHANGED <<decision, requests, tasks>>
  BY DEF Board!CreateCard, Board!CommitEvent, AtHand, BoardInv
<1>2. /\ DOMAIN wHistory' = HistoryFields /\ wHistory'.overlap = Board!Overlaps(c)
      /\ wHistory'.unsettled = wHistory.unsettled /\ wHistory'.claims = wHistory.claims
      /\ wHistory'.raced = wHistory.raced
  BY <1>1, OverlapsNoted
<1>3. DOMAIN notifications \subseteq DOMAIN notifications' /\ Counted'
  BY <1>1, <1>2, EventCounted
<1>4. log' = log \cup {c} /\ c \notin log /\ UNCHANGED wDo
  BY <1>1, CommittedCalls
<1>5. PICK row : row = [status |-> "open", triage |-> wDo[c].triage] /\ row \in CardRow
  <2>1. PICK triage \in CardWords : triage = wDo[c].triage
    BY <1>1, BoardCall
  <2>2. [status |-> "open", triage |-> triage] \in CardRow
    BY BoardAssumption DEF CardRow
  <2> QED BY <2>1, <2>2
<1>6. cards' = [cards EXCEPT ![wDo[c].card] = row]
  BY <1>5 DEF Board!CreateCard
<1>7. /\ cards' \in [Cards -> CardRow \cup {None}]
      /\ \A k \in Cards : k # wDo[c].card => cards'[k] = cards[k]
  BY <1>1, <1>5, <1>6 DEF BoardTypes
<1>8. wDo[c].card \in Cards => ~Board!Exists(wDo[c].card)
  <2> SUFFICES ASSUME wDo[c].card \in Cards, Board!Exists(wDo[c].card) PROVE FALSE
    OBVIOUS
  <2>1. wDo[c].card \notin OnBoard
    BY <1>1, BoardCall
  <2>2. PICK d \in log : Board!Kind(d) = "card" /\ wDo[d].card = wDo[c].card
    BY <2>1 DEF BoardInv, CardsCreated
  <2> QED BY <1>1, <1>4, <2>2, BoardCall DEF BoardTypes
<1>9. \A k \in Cards : Board!Exists(k) => k # wDo[c].card /\ Board!Exists(k)'
  BY <1>7, <1>8 DEF Board!Exists
<1>10. ASSUME NEW R \in SUBSET Cards, Board!Worthy(R) PROVE Board!Worthy(R)'
  BY <1>1, <1>7, <1>9, <1>10 DEF Board!Worthy
<1>11. CardsCreated'
  <2>1. \A d : Board!Kind(d)' = Board!Kind(d)
    BY <1>4 DEF Board!Kind
  <2>2. ASSUME NEW k \in Cards, Board!Exists(k)', k # wDo[c].card
        PROVE  k \in OnBoard \/ \E d \in log : Board!Kind(d) = "card" /\ wDo[d].card = k
    BY <1>7, <2>2 DEF BoardInv, CardsCreated, Board!Exists
  <2> QED BY <1>1, <1>4, <2>1, <2>2 DEF CardsCreated
<1>12. Asked'
  BY <1>1, <1>4, AskedStays
<1>13. DOMAIN decision' = Cards
  BY <1>1 DEF BoardTypes
<1> QED BY <1>1, <1>2, <1>3, <1>7, <1>9, <1>10, <1>11, <1>12, <1>13, CommitKeeps

\* An update changes a card that is there.
LEMMA UpdateCardKeeps ==
    ASSUME BoardInv, NEW c \in Board!Live, Board!UpdateCard(c)
    PROVE  BoardInv'
<1>1. /\ Board!CommitEvent(c) /\ Board!Committed(c, Board!Changes(c)) /\ AtHand(c) /\ BoardTypes
      /\ Board!Kind(c) = "update"
      /\ wHistory' = [wHistory EXCEPT !.overlap = Board!Overlaps(c), !.raced = @ \cup Board!Raced(c)]
      /\ UNCHANGED <<decision, requests, tasks>>
  BY DEF Board!UpdateCard, Board!CommitEvent, AtHand, BoardInv
<1>2. /\ DOMAIN wHistory' = HistoryFields /\ wHistory'.overlap = Board!Overlaps(c)
      /\ wHistory'.unsettled = wHistory.unsettled /\ wHistory'.claims = wHistory.claims
      /\ wHistory.raced \subseteq wHistory'.raced
  BY <1>1, RacesNoted
<1>3. DOMAIN notifications \subseteq DOMAIN notifications' /\ Counted'
  BY <1>1, <1>2, EventCounted
<1>4. log' = log \cup {c} /\ UNCHANGED wDo
  BY <1>1, CommittedCalls
<1>5. PICK k : k = wDo[c].card
  OBVIOUS
<1>6. PICK row : row = [status |-> IF wDo[c].status \in {None, wCall[c].row[k].status} THEN cards[k].status ELSE wDo[c].status,
                        triage |-> IF wDo[c].triage \in {"keep", wCall[c].row[k].triage} THEN cards[k].triage ELSE wDo[c].triage]
  OBVIOUS
<1>7. cards' = [cards EXCEPT ![k] = row]
  BY <1>5, <1>6 DEF Board!UpdateCard
<1>8. ASSUME k \in Cards PROVE row \in CardRow /\ Board!Exists(k)
  <2>1. Board!Exists(k) /\ cards[k] \in CardRow
    BY <1>1, <1>5, <1>8, CardsExist DEF BoardInv, Founded
  <2>2. wDo[c].status \in CardWords /\ wDo[c].triage \in CardWords \cup {"keep"}
    BY <1>1, BoardCall
  <2> QED BY <1>6, <2>1, <2>2 DEF CardRow
<1>9. /\ cards' \in [Cards -> CardRow \cup {None}] /\ \A j \in Cards : j # k => cards'[j] = cards[j]
      /\ k \in Cards => cards'[k] = row
  BY <1>1, <1>7, <1>8 DEF BoardTypes
<1>10. \A j \in Cards : Board!Exists(j) <=> Board!Exists(j)'
  <2>1. k \in Cards => row # None
    BY <1>8, BoardAssumption DEF CardRow
  <2> QED BY <1>8, <1>9, <2>1 DEF Board!Exists
<1>11. Asked' /\ CardsCreated'
  BY <1>1, <1>4, <1>10, AskedStays, CreatedStays
<1>12. DOMAIN decision' = Cards
  BY <1>1 DEF BoardTypes
<1> QED BY <1>1, <1>2, <1>3, <1>9, <1>10, <1>11, <1>12, CommitKeeps

\* Evidence leaves the value of its cards alone.
LEMMA SubmitEvidenceKeeps ==
    ASSUME BoardInv, NEW c \in Board!Live, Board!SubmitEvidence(c)
    PROVE  BoardInv'
<1>1. /\ Board!CommitEvent(c) /\ Board!Committed(c, Board!Changes(c)) /\ AtHand(c) /\ BoardTypes
      /\ Board!Kind(c) = "evidence"
      /\ wHistory' = [wHistory EXCEPT !.overlap = Board!Overlaps(c), !.raced = @ \cup Board!Raced(c)]
      /\ UNCHANGED <<decision, requests, tasks>>
  BY DEF Board!SubmitEvidence, Board!CommitEvent, AtHand, BoardInv
<1>2. /\ DOMAIN wHistory' = HistoryFields /\ wHistory'.overlap = Board!Overlaps(c)
      /\ wHistory'.unsettled = wHistory.unsettled /\ wHistory'.claims = wHistory.claims
      /\ wHistory.raced \subseteq wHistory'.raced
  BY <1>1, RacesNoted
<1>3. DOMAIN notifications \subseteq DOMAIN notifications' /\ Counted'
  BY <1>1, <1>2, EventCounted
<1>4. log' = log \cup {c} /\ UNCHANGED wDo
  BY <1>1, CommittedCalls
<1>5. PICK K : K = Board!Changes(c)
  OBVIOUS
<1>6. cards' = [k \in Cards |-> IF k \in K THEN [cards[k] EXCEPT !.status = "submitted"] ELSE cards[k]]
  BY <1>5 DEF Board!SubmitEvidence
<1>7. ASSUME NEW k \in K \cap Cards
      PROVE  Board!Exists(k) /\ cards'[k] \in CardRow /\ cards'[k].triage = cards[k].triage
  <2>1. k \in wDo[c].cards
    BY <1>1, <1>5 DEF Board!Changes
  <2>2. Board!Exists(k) /\ cards[k] \in CardRow
    BY <1>1, <2>1, CardsExist DEF BoardInv, Founded
  <2>3. PICK row : row = [cards[k] EXCEPT !.status = "submitted"]
    OBVIOUS
  <2>4. row \in CardRow /\ row.triage = cards[k].triage
    BY <2>2, <2>3, BoardAssumption DEF CardRow
  <2>5. cards'[k] = row
    BY <1>6, <2>3
  <2> QED BY <2>2, <2>4, <2>5
<1>8. \A k \in Cards \ K : cards'[k] = cards[k]
  BY <1>6
<1>9. cards' \in [Cards -> CardRow \cup {None}]
  <2>1. \A k \in Cards : cards'[k] \in CardRow \cup {None}
    BY <1>1, <1>7, <1>8 DEF BoardTypes
  <2>2. DOMAIN cards' = Cards /\ cards' = [k \in Cards |-> cards'[k]]
    BY <1>6
  <2> QED BY <2>1, <2>2
<1>10. \A k \in Cards : /\ Board!Exists(k) <=> Board!Exists(k)'
                        /\ Board!Exists(k) => cards'[k].triage = cards[k].triage
  <2>1. ASSUME NEW k \in K \cap Cards PROVE cards'[k] # None
    BY <1>7, BoardAssumption DEF CardRow
  <2> QED BY <1>7, <1>8, <2>1 DEF Board!Exists
<1>11. ASSUME NEW R \in SUBSET Cards, Board!Worthy(R) PROVE Board!Worthy(R)'
  BY <1>1, <1>10, <1>11 DEF Board!Worthy
<1>12. Asked' /\ CardsCreated'
  BY <1>1, <1>4, <1>10, AskedStays, CreatedStays
<1>13. DOMAIN decision' = Cards
  BY <1>1 DEF BoardTypes
<1> QED BY <1>1, <1>2, <1>3, <1>9, <1>10, <1>11, <1>12, <1>13, CommitKeeps
\* A request is new.
LEMMA CreateRequestKeeps ==
    ASSUME BoardInv, NEW c \in Board!Live, Board!CreateScheduleRequest(c)
    PROVE  BoardInv'
<1>1. /\ Board!CommitEvent(c) /\ Board!Committed(c, {}) /\ AtHand(c) /\ BoardTypes /\ Board!Kind(c) = "request"
      /\ wHistory' = [wHistory EXCEPT !.overlap = Board!Overlaps(c)]
      /\ UNCHANGED <<cards, decision, tasks>>
  BY DEF Board!CreateScheduleRequest, Board!CommitEvent, AtHand, BoardInv
<1>2. /\ DOMAIN wHistory' = HistoryFields /\ wHistory'.overlap = Board!Overlaps(c)
      /\ wHistory'.unsettled = wHistory.unsettled /\ wHistory'.claims = wHistory.claims
      /\ wHistory'.raced = wHistory.raced
  BY <1>1, OverlapsNoted
<1>3. DOMAIN notifications \subseteq DOMAIN notifications' /\ Counted'
  BY <1>1, <1>2, EventCounted
<1>4. log' = log \cup {c} /\ c \notin log /\ UNCHANGED wDo
  BY <1>1, CommittedCalls
<1>5. PICK row : requests' = Board!With(requests, c, row)
  BY DEF Board!CreateScheduleRequest
<1>6. /\ DOMAIN requests' = DOMAIN requests \cup {c}
      /\ \A r \in DOMAIN requests \ {c} : requests'[r] = requests[r]
  BY <1>5 DEF Board!With
<1>7. Asked'
  <2>1. Asked /\ \A d : Board!Kind(d)' = Board!Kind(d)
    BY <1>4 DEF BoardInv, Board!Kind
  <2>2. c \notin DOMAIN requests
    BY <1>4, <2>1 DEF Asked
  <2>3. \A t \in tasks : requests'[t[1]] = requests[t[1]]
    BY <1>6, <2>1, <2>2 DEF Asked
  <2> QED BY <1>1, <1>4, <1>6, <2>1, <2>3 DEF Asked
<1>8. /\ \A k : Board!Exists(k)' <=> Board!Exists(k)
      /\ \A R : Board!Worthy(R)' <=> Board!Worthy(R)
      /\ cards' \in [Cards -> CardRow \cup {None}] /\ DOMAIN decision' = Cards
  BY <1>1 DEF Board!Exists, Board!Worthy, BoardTypes
<1>9. CardsCreated'
  BY <1>4, <1>8, CreatedStays
<1> QED BY <1>1, <1>2, <1>3, <1>6, <1>7, <1>8, <1>9, CommitKeeps

\* A decision takes the request from the decision before, whose task it leaves alone.
LEMMA DecideRequestKeeps ==
    ASSUME BoardInv, NEW c \in Board!Live, Board!DecideScheduleRequest(c)
    PROVE  BoardInv'
<1>1. /\ Board!CommitEvent(c) /\ Board!Committed(c, {}) /\ AtHand(c) /\ BoardTypes /\ Board!Kind(c) = "decide"
      /\ wCall[c].pc = "flushed" /\ UNCHANGED <<cards, decision>>
  BY DEF Board!DecideScheduleRequest, Board!CommitEvent, AtHand, BoardInv
<1>2. PICK unsettled : unsettled = IF wCall[c].fan.event.type \in Board!Launching /\ ~Board!Worthy(wDo[wDo[c].request].cards)
                                     THEN wHistory.unsettled \cup {c} ELSE wHistory.unsettled
  OBVIOUS
<1>3. wHistory' = [wHistory EXCEPT !.overlap = Board!Overlaps(c), !.unsettled = unsettled]
  BY <1>2 DEF Board!DecideScheduleRequest
<1>4. /\ DOMAIN wHistory' = HistoryFields /\ wHistory'.overlap = Board!Overlaps(c)
      /\ wHistory'.unsettled = unsettled /\ wHistory'.claims = wHistory.claims /\ wHistory'.raced = wHistory.raced
  BY <1>1, <1>3 DEF BoardTypes, HistoryFields
<1>5. DOMAIN notifications \subseteq DOMAIN notifications' /\ Counted'
  BY <1>1, <1>4, EventCounted
<1>6. log' = log \cup {c} /\ c \notin log /\ UNCHANGED wDo
  BY <1>1, CommittedCalls
<1>7. PICK r : r = wDo[c].request
  OBVIOUS
<1>8. r \in DOMAIN requests
  BY <1>1, <1>7 DEF BoardInv, Founded
<1>9. PICK row : /\ requests' = [requests EXCEPT ![r] = row]
                 /\ wCall[c].fan.event.type \in Board!Launching => row.task = c
  <2>1. PICK row : row = [status |-> IF wCall[c].fan.event.type = wCall[c].row.status THEN requests[r].status
                                     ELSE wCall[c].fan.event.type,
                          task |-> IF wCall[c].fan.event.type \in Board!Launching THEN c
                                   ELSE IF wCall[c].row.task = None THEN requests[r].task ELSE None]
    OBVIOUS
  <2>2. requests' = [requests EXCEPT ![r] = row]
    BY <1>7, <2>1 DEF Board!DecideScheduleRequest
  <2>3. wCall[c].fan.event.type \in Board!Launching => row.task = c
    BY <2>1
  <2> QED BY <2>2, <2>3
<1>10. /\ DOMAIN requests' = DOMAIN requests /\ requests'[r] = row
       /\ \A q \in DOMAIN requests \ {r} : requests'[q] = requests[q]
  BY <1>8, <1>9
<1>11. tasks' = tasks \cup IF wCall[c].fan.event.type \in Board!Launching THEN {<<r, c>>} ELSE {}
  BY <1>7 DEF Board!DecideScheduleRequest, Board!TasksOf
<1>12. Asked'
  <2>1. Asked /\ \A d : Board!Kind(d)' = Board!Kind(d)
    BY <1>6 DEF BoardInv, Board!Kind
  <2>2. ASSUME NEW q \in DOMAIN requests' PROVE q \in log' /\ Board!Kind(q)' = "request"
    BY <1>6, <1>10, <2>1 DEF Asked
  <2>3. ASSUME NEW t \in tasks'
        PROVE  /\ t[1] \in DOMAIN requests' /\ t[2] \in log'
               /\ Board!Kind(t[2])' = "decide" /\ wDo[t[2]].request = t[1]
               /\ requests'[t[1]].task # t[2] =>
                    \E d \in log' \ {t[2]} : Board!Kind(d)' = "decide" /\ wDo[d].request = t[1]
    <3>1. CASE t \in tasks
      <4>1. /\ t[1] \in DOMAIN requests /\ t[2] \in log
            /\ Board!Kind(t[2]) = "decide" /\ wDo[t[2]].request = t[1]
            /\ requests[t[1]].task # t[2] =>
                 \E d \in log \ {t[2]} : Board!Kind(d) = "decide" /\ wDo[d].request = t[1]
        BY <2>1, <3>1 DEF Asked
      <4>2. CASE t[1] = r
        BY <1>1, <1>6, <1>7, <1>10, <2>1, <4>1, <4>2
      <4>3. CASE t[1] # r
        BY <1>6, <1>10, <2>1, <4>1, <4>3
      <4> QED BY <4>2, <4>3
    <3>2. CASE t \notin tasks
      <4>1. t[1] = r /\ t[2] = c /\ wCall[c].fan.event.type \in Board!Launching
        BY <1>11, <3>2
      <4> QED BY <1>1, <1>6, <1>7, <1>8, <1>9, <1>10, <2>1, <4>1
    <3> QED BY <3>1, <3>2
  <2> QED BY <1>6, <2>2, <2>3 DEF Asked
<1>13. /\ \A k : Board!Exists(k)' <=> Board!Exists(k)
       /\ \A R : Board!Worthy(R)' <=> Board!Worthy(R)
       /\ cards' \in [Cards -> CardRow \cup {None}] /\ DOMAIN decision' = Cards
  BY <1>1 DEF Board!Exists, Board!Worthy, BoardTypes
<1>14. CardsCreated'
  BY <1>6, <1>13, CreatedStays
<1>15. \A d \in wHistory'.unsettled : d \in wHistory.unsettled \/ TookValue(d)
  BY <1>1, <1>2, <1>4 DEF BoardInv, Approved, Approving
<1> QED BY <1>1, <1>4, <1>5, <1>10, <1>12, <1>13, <1>14, <1>15, CommitKeeps

\* A subscription tells nothing.
LEMMA SubscribeKeeps ==
    ASSUME BoardInv, NEW c \in Board!Live, Board!Subscribe(c)
    PROVE  BoardInv'
<1>1. /\ Board!Committed(c, {}) /\ AtHand(c) /\ BoardTypes
      /\ UNCHANGED <<cards, decision, notifications, requests, tasks>>
  BY DEF Board!Subscribe, AtHand, BoardInv
<1>2. PICK before : wHistory' = [wHistory EXCEPT !.overlap = Board!Overlaps(c), !.before = before]
  BY DEF Board!Subscribe
<1>3. /\ DOMAIN wHistory' = HistoryFields /\ wHistory'.overlap = Board!Overlaps(c)
      /\ wHistory'.unsettled = wHistory.unsettled /\ wHistory'.claims = wHistory.claims
      /\ wHistory'.raced = wHistory.raced
  BY <1>1, <1>2 DEF BoardTypes, HistoryFields
<1>4. Counted'
  BY <1>1, <1>3, CountedStays DEF BoardInv, Board!Committed
<1> QED BY <1>1, <1>3, <1>4, PlainCommit

\* A notification that was not changed since it was loaded becomes what the call asks for.
LEMMA UpdateNotificationKeeps ==
    ASSUME BoardInv, NEW c \in Board!Live, Board!UpdateNotification(c)
    PROVE  BoardInv'
<1>1. /\ Board!Committed(c, {}) /\ AtHand(c) /\ BoardTypes /\ Board!Kind(c) = "mark" /\ Counted
      /\ UNCHANGED <<cards, decision, requests, tasks>>
  BY DEF Board!UpdateNotification, AtHand, BoardInv
<1>2. PICK n : n = wDo[c].notification
  OBVIOUS
<1>3. n \in DOMAIN notifications
  BY <1>1, <1>2 DEF BoardInv, Founded
<1>4. PICK raced : raced = IF notifications[n] # wCall[c].row THEN wHistory.raced \cup {n} ELSE wHistory.raced
  OBVIOUS
<1>5. PICK claims : claims = IF wDo[c].status = "claimed"
                               THEN Board!With(wHistory.claims, n, [number |-> 1 + Board!ClaimsOf(n), last |-> c])
                               ELSE wHistory.claims
  OBVIOUS
<1>6. wHistory' = [wHistory EXCEPT !.overlap = Board!Overlaps(c), !.raced = raced, !.claims = claims]
  BY <1>2, <1>4, <1>5 DEF Board!UpdateNotification
<1>7. /\ DOMAIN wHistory' = HistoryFields /\ wHistory'.overlap = Board!Overlaps(c)
      /\ wHistory'.unsettled = wHistory.unsettled /\ wHistory'.claims = claims /\ wHistory'.raced = raced
  BY <1>1, <1>6 DEF BoardTypes, HistoryFields
<1>8. PICK row, now : row = wCall[c].row /\ now = notifications[n]
  OBVIOUS
<1>9. PICK new : new = [status |-> IF wDo[c].status = row.status THEN now.status ELSE wDo[c].status,
                        claimant |-> IF wDo[c].status = "claimed" /\ Board!Claimant(c) # row.claimant
                                       THEN Board!Claimant(c) ELSE now.claimant,
                        lease |-> IF wDo[c].status = "claimed" THEN TRUE
                                  ELSE IF wDo[c].status \in {"handled", "ignored"} /\ row.lease THEN FALSE ELSE now.lease,
                        count |-> IF wDo[c].status = "claimed" THEN row.count + 1 ELSE now.count]
  OBVIOUS
<1>10. notifications' = [notifications EXCEPT ![n] = new]
  BY <1>2, <1>8, <1>9 DEF Board!UpdateNotification, Board!Marked
<1>11. /\ DOMAIN notifications' = DOMAIN notifications /\ notifications'[n] = new
       /\ \A m \in DOMAIN notifications \ {n} : notifications'[m] = notifications[m]
  BY <1>3, <1>10
<1>12. /\ DOMAIN claims \subseteq DOMAIN notifications /\ \A m \in DOMAIN claims : claims[m].number \in Nat
       /\ \A m \in DOMAIN notifications \ {n} : /\ m \in DOMAIN claims <=> m \in DOMAIN wHistory.claims
                                                /\ m \in DOMAIN claims => claims[m] = wHistory.claims[m]
       /\ wDo[c].status = "claimed" =>
            n \in DOMAIN claims /\ claims[n].number = 1 + Board!ClaimsOf(n) /\ claims[n].last = c
       /\ wDo[c].status # "claimed" => claims = wHistory.claims
  <2>1. /\ DOMAIN wHistory.claims \subseteq DOMAIN notifications
        /\ \A m \in DOMAIN wHistory.claims : wHistory.claims[m].number \in Nat
    BY <1>1 DEF Counted
  <2>2. PICK k : k = [number |-> 1 + Board!ClaimsOf(n), last |-> c]
    OBVIOUS
  <2>3. k.number = 1 + Board!ClaimsOf(n) /\ k.last = c /\ k.number \in Nat
    BY <2>1, <2>2 DEF Board!ClaimsOf
  <2>4. wDo[c].status = "claimed" => claims = Board!With(wHistory.claims, n, k)
    BY <1>5, <2>2
  <2>5. wDo[c].status = "claimed" => /\ DOMAIN claims = DOMAIN wHistory.claims \cup {n}
                                     /\ \A m \in DOMAIN claims : claims[m] = IF m = n THEN k ELSE wHistory.claims[m]
    BY <2>4 DEF Board!With
  <2> QED BY <1>3, <1>5, <2>1, <2>3, <2>5
<1>13. new.lease \in BOOLEAN
  <2>1. now.lease \in BOOLEAN
    BY <1>1, <1>3, <1>8 DEF Counted
  <2> QED BY <1>9, <2>1
<1>14. \A m : Board!Claimant(m)' = Board!Claimant(m)
  BY <1>1 DEF Board!Committed, Board!Claimant
<1>15. \A m : Board!ClaimsOf(m)' = IF m \in DOMAIN claims THEN claims[m].number ELSE 0
  BY <1>7 DEF Board!ClaimsOf
<1>16. ASSUME NEW m \in DOMAIN notifications', m \notin raced
       PROVE  LET it == notifications'[m]  claimed == m \in DOMAIN claims
              IN /\ it.status = "claimed" => claimed /\ it.lease
                 /\ it.status \in {"handled", "ignored"} => ~it.lease
                 /\ it.count = IF claimed THEN claims[m].number ELSE 0
                 /\ it.claimant = IF claimed THEN Board!Claimant(claims[m].last) ELSE None
  <2>1. m \in DOMAIN notifications \ wHistory.raced
    BY <1>4, <1>11, <1>16
  <2>2. /\ notifications[m].status = "claimed" => m \in DOMAIN wHistory.claims /\ notifications[m].lease
        /\ notifications[m].status \in {"handled", "ignored"} => ~notifications[m].lease
        /\ notifications[m].count = Board!ClaimsOf(m)
        /\ Board!ClaimsOf(m) = IF m \in DOMAIN wHistory.claims THEN wHistory.claims[m].number ELSE 0
        /\ notifications[m].claimant = IF m \in DOMAIN wHistory.claims
                                         THEN Board!Claimant(wHistory.claims[m].last) ELSE None
    BY <1>1, <2>1 DEF Counted, Board!NotificationsConsistent, Board!ClaimsOf
  <2>3. CASE m # n
    BY <1>11, <1>12, <2>1, <2>2, <2>3
  <2>4. CASE m = n
    <3>1. row = now /\ now = notifications[m]
      BY <1>4, <1>8, <1>16, <2>4
    <3>2. new.status = wDo[c].status
      BY <1>9, <3>1
    <3>3. CASE wDo[c].status = "claimed"
      <4>1. new.claimant = Board!Claimant(c) /\ new.lease = TRUE /\ new.count = now.count + 1
        BY <1>9, <3>1, <3>3
      <4>2. now.count \in Nat
        BY <1>1, <2>2, <3>1 DEF Counted
      <4>3. new.count = claims[n].number /\ n \in DOMAIN claims /\ claims[n].last = c
        BY <1>12, <2>2, <2>4, <3>1, <3>3, <4>1, <4>2
      <4>4. notifications'[m] = new
        BY <1>11, <2>4
      <4> QED BY <2>4, <3>2, <3>3, <4>1, <4>3, <4>4
    <3>4. CASE wDo[c].status # "claimed"
      <4>1. new.count = now.count /\ new.claimant = now.claimant /\ claims = wHistory.claims
        BY <1>9, <1>12, <3>4
      <4>2. new.status \in {"handled", "ignored"} => ~new.lease
        <5>1. CASE row.lease
          BY <1>9, <3>2, <3>4, <5>1
        <5>2. CASE ~row.lease
          BY <1>9, <3>1, <3>2, <3>4, <5>2
        <5> QED BY <5>1, <5>2
      <4>3. notifications'[m] = new
        BY <1>11, <2>4
      <4> QED BY <2>2, <2>4, <3>1, <3>2, <3>4, <4>1, <4>2, <4>3
    <3> QED BY <3>3, <3>4
  <2> QED BY <2>3, <2>4
<1>17. Counted'
  <2>1. Board!NotificationsConsistent'
    BY <1>7, <1>14, <1>15, <1>16 DEF Board!NotificationsConsistent
  <2>2. \A m \in DOMAIN notifications' : notifications'[m].lease \in BOOLEAN
    BY <1>1, <1>11, <1>13 DEF Counted
  <2> QED BY <1>7, <1>11, <1>12, <2>1, <2>2 DEF Counted
<1> QED BY <1>1, <1>7, <1>11, <1>17, PlainCommit

\* A triage writes the value of a card that is there.
LEMMA TriageCardKeeps ==
    ASSUME BoardInv, NEW c \in Board!Live, Board!TriageCard(c)
    PROVE  BoardInv'
<1>1. /\ Board!Committed(c, {wDo[c].card}) /\ AtHand(c) /\ BoardTypes /\ Board!Kind(c) = "triage"
      /\ wHistory' = [wHistory EXCEPT !.overlap = Board!Overlaps(c), !.raced = @ \cup Board!Raced(c)]
      /\ UNCHANGED <<notifications, requests, tasks>>
  BY DEF Board!TriageCard, AtHand, BoardInv
<1>2. /\ DOMAIN wHistory' = HistoryFields /\ wHistory'.overlap = Board!Overlaps(c)
      /\ wHistory'.unsettled = wHistory.unsettled /\ wHistory'.claims = wHistory.claims
      /\ wHistory.raced \subseteq wHistory'.raced
  BY <1>1, RacesNoted
<1>3. Counted'
  BY <1>1, <1>2, CountedStays DEF BoardInv, Board!Committed
<1>4. log' = log \cup {c} /\ UNCHANGED wDo
  BY <1>1, CommittedCalls
<1>5. PICK k : k = wDo[c].card
  OBVIOUS
<1>6. PICK row : row = [cards[k] EXCEPT !.triage = wDo[c].value]
  OBVIOUS
<1>7. cards' = [cards EXCEPT ![k] = row] /\ decision' = [decision EXCEPT ![k] = wDo[c].value]
  BY <1>5, <1>6 DEF Board!TriageCard
<1>8. ASSUME k \in Cards PROVE row \in CardRow /\ Board!Exists(k)
  <2>1. Board!Exists(k) /\ cards[k] \in CardRow
    BY <1>1, <1>5, <1>8, CardsExist DEF BoardInv, Founded
  <2>2. wDo[c].value \in CardWords
    BY <1>1, BoardCall
  <2> QED BY <1>6, <2>1, <2>2 DEF CardRow
<1>9. /\ cards' \in [Cards -> CardRow \cup {None}] /\ \A j \in Cards : j # k => cards'[j] = cards[j]
      /\ k \in Cards => cards'[k] = row
      /\ DOMAIN decision' = Cards
  BY <1>1, <1>7, <1>8 DEF BoardTypes
<1>10. \A j \in Cards : Board!Exists(j) <=> Board!Exists(j)'
  <2>1. k \in Cards => row # None
    BY <1>8, BoardAssumption DEF CardRow
  <2> QED BY <1>8, <1>9, <2>1 DEF Board!Exists
<1>11. Asked' /\ CardsCreated'
  BY <1>1, <1>4, <1>10, AskedStays, CreatedStays
<1> QED BY <1>1, <1>2, <1>3, <1>9, <1>10, <1>11, CommitKeeps

\* The board begins as the invariant says.
LEMMA BoardBegins ==
    ASSUME Board!Init
    PROVE  BoardInv
<1>1. /\ wDo \in BoardCalls /\ wCall = [c \in Board!Calls |-> Board!Idle] /\ log = {}
      /\ cards = [k \in Cards |-> IF k \in OnBoard THEN [status |-> "open", triage |-> "deep_dive"] ELSE None]
      /\ DOMAIN decision = Cards /\ notifications = <<>> /\ requests = <<>> /\ tasks = {}
  BY DEF Board!Init
<1>2. wHistory = [overlap |-> <<>>, raced |-> {}, claims |-> <<>>, unsettled |-> {}, polled |-> {},
                  before |-> <<>>, failures |-> 0]
  BY DEF Board!Init
<1>3. DOMAIN wHistory = HistoryFields /\ wHistory.unsettled = {} /\ wHistory.claims = <<>>
  BY <1>2 DEF HistoryFields
<1>4. DOMAIN Board!Idle = EntryFields /\ Board!Idle.pc = "idle" /\ Board!Idle.stale = {}
  BY DEF Board!Idle, EntryFields
<1>5. cards \in [Cards -> CardRow \cup {None}]
  <2>1. [status |-> "open", triage |-> "deep_dive"] \in CardRow
    BY BoardAssumption DEF CardRow
  <2> QED BY <1>1, <2>1
<1>6. BoardTypes
  BY <1>1, <1>3, <1>4, <1>5 DEF BoardTypes
<1>7. ASSUME NEW c \in Board!Live PROVE wCall[c].pc = "idle" /\ wCall[c].stale = {}
  BY <1>1, <1>4, <1>6, BoardLive
<1>8. \A c \in Board!Live : Controlled(c) /\ Founded(c)
  BY <1>1, <1>7 DEF Controlled, Founded, AtHand
<1>9. Approved
  BY <1>7 DEF Approved, Approving
<1>10. Overlapped /\ Shown /\ Settled
  BY <1>1, <1>3 DEF Overlapped, Shown, Settled
<1>11. CardsCreated
  BY <1>1 DEF CardsCreated, Board!Exists
<1>12. DOMAIN notifications = {} /\ DOMAIN requests = {} /\ DOMAIN wHistory.claims = {}
  BY <1>1, <1>3
<1>13. Asked /\ Counted
  BY <1>1, <1>12 DEF Asked, Counted, Board!NotificationsConsistent
<1> QED BY <1>6, <1>8, <1>9, <1>10, <1>11, <1>13 DEF BoardInv

\* Every step of the board keeps the invariant.
LEMMA BoardNext ==
    ASSUME BoardInv, Board!Next
    PROVE  BoardInv'
<1>1. PICK c \in Board!Live : Board!Step(c)
  BY DEF Board!Next
<1> QED BY <1>1, LoadKeeps, PollKeeps, RecordEventKeeps, CallFailsKeeps, ReadGraphKeeps, PutSnapshotKeeps,
           StartAgentKeeps, CreateCardKeeps, UpdateCardKeeps, SimpleKeeps, SubmitEvidenceKeeps,
           CreateRequestKeeps, DecideRequestKeeps, SubscribeKeeps, UpdateNotificationKeeps, TriageCardKeeps
           DEF Board!Step

\* While another service is at hand, nothing changes here.
LEMMA BoardStays ==
    ASSUME BoardInv, UNCHANGED boardVars
    PROVE  BoardInv'
<1>1. UNCHANGED <<wDo, wCall, log, cards, decision, notifications, requests, tasks, snapshot, wHistory>>
  BY DEF boardVars
<1>2. /\ Board!Live' = Board!Live /\ Board!Calls' = Board!Calls /\ \A d : Board!Kind(d)' = Board!Kind(d)
      /\ \A k : Board!Exists(k)' = Board!Exists(k)
      /\ Writing' = Writing /\ \A d : Board!Watched(d)' = Board!Watched(d)
      /\ \A R : Board!Worthy(R)' = Board!Worthy(R)
  BY <1>1 DEF Board!Live, Board!Calls, Board!Kind, Board!Exists, Writing, Board!Writers, Board!Recording,
              Board!Watched, Board!Worthy
<1>3. BoardTypes' /\ CardsCreated' /\ Asked'
  BY <1>1, <1>2 DEF BoardInv, BoardTypes, CardsCreated, Asked
<1>4. \A c \in Board!Live : Controlled(c)' /\ Founded(c)'
  BY <1>1, <1>2 DEF BoardInv, Controlled, Founded, AtHand, Board!Writers, Board!Recording
<1>5. Overlapped' /\ Shown'
  BY <1>1, <1>2 DEF BoardInv, Overlapped, Shown, Board!Writers
<1>6. Approved' /\ Settled'
  BY <1>1, <1>2 DEF BoardInv, Approved, Settled, Approving, TookValue
<1>7. Counted'
  BY <1>1, CountedStays DEF BoardInv
<1> QED BY <1>2, <1>3, <1>4, <1>5, <1>6, <1>7 DEF BoardInv

\* The whiteboard is as the invariant says while it is at hand.
LEMMA BoardInvariant == Spec => [](service = "whiteboard" => BoardInv)
<1>1. Init => (service = "whiteboard" => BoardInv)
  BY BoardBegins DEF Init
<1>2. ASSUME service = "whiteboard" => BoardInv, [Next]_vars
      PROVE  (service = "whiteboard" => BoardInv)'
  <2>1. CASE UNCHANGED vars
    BY <1>2, <2>1, BoardStays DEF vars
  <2>2. CASE Next
    <3>1. service' = service
      BY <2>2 DEF Next
    <3> SUFFICES ASSUME service = "whiteboard" PROVE BoardInv'
      BY <3>1
    <3>2. Board!Next
      BY <2>2 DEF Next
    <3> QED BY <1>2, <3>2, BoardNext
  <2> QED BY <1>2, <2>1, <2>2
<1> QED BY <1>1, <1>2, PTL DEF Spec

\* A change whose call has answered is in the snapshot of the board, unless another call that
\* writes the snapshot was in progress when it was committed (write_snapshot).
THEOREM SnapshotsLagOverlaps == Spec => []SnapshotLagsOverlaps
<1>1. (service = "whiteboard" => BoardInv) => SnapshotLagsOverlaps
  BY DEF BoardInv, BoardTypes, Shown, Writing, SnapshotLagsOverlaps, Board!SnapshotLagsOverlaps
<1> QED BY <1>1, BoardInvariant, PTL

\* While no two updates of a notification overlap, its status, its holder, its lease and its
\* count agree (update_notification).
THEOREM NotificationsAgree == Spec => []NotificationsConsistent
<1>1. (service = "whiteboard" => BoardInv) => NotificationsConsistent
  BY DEF BoardInv, Counted, NotificationsConsistent
<1> QED BY <1>1, BoardInvariant, PTL

\* Only a triage or an update that overlaps an approval takes the value of its cards away, and
\* only a later decision leaves a task that its request does not name (decide_schedule_request).
THEOREM HelpStaysWorthwhile == Spec => []HelpIsWorthwhile
<1>1. (service = "whiteboard" => BoardInv) => HelpIsWorthwhile
  BY DEF BoardInv, Settled, TookValue, Asked, HelpIsWorthwhile, Board!HelpIsWorthwhile
<1> QED BY <1>1, BoardInvariant, PTL

-----------------------------------------------------------------------------
(* Calls of the sandboxes *)

\* The points of a call: nothing is made, the container works, the way back, the answer.
Early == {"idle", "require", "network", "make", "recordNetwork", "pull", "create"}
Working == {"record", "start", "mark", "wait", "markEnd", "markRunning"}
Back == {"markFailed", "remove", "markRemoved", "removeNetwork", "markCleaned"}
Final == {"verdict", "event", "except", "answered", "failed"}
CallFields == {"pc", "made", "ours", "saw", "raised", "exit", "hit", "met", "todo"}

BoxTypes ==
    /\ \E s \in SandboxScenarios : host = s.host /\ bDo = s.calls
    /\ DOMAIN bCall = Boxes!Live /\ \A c \in Boxes!Live : DOMAIN bCall[c] = CallFields
    /\ DOMAIN containers = Boxes!Live /\ \A c \in Boxes!Live : DOMAIN containers[c] = {"state", "on"}
    /\ DOMAIN network = Boxes!NetworkNames
    /\ \A n \in Boxes!NetworkNames : DOMAIN network[n] = {"by", "external"}
    /\ DOMAIN bRows = Boxes!Live /\ DOMAIN attempts = Boxes!Live

IsCleanup(c) == bDo[c].kind = "cleanup"
May(c) == Boxes!MayExecute(bDo[c].weak)

\* Where a call may be, and with what.  It raises "unavailable" only where the host does not
\* allow it, or the engine does not know the runtime.
InOrder(c) ==
    LET pc == bCall[c].pc
    IN  /\ pc \in Early \cup Working \cup Back \cup Final
        /\ pc \in Early => Boxes!Gone(c) /\ ~bCall[c].made /\ bRows[c] = "none" /\ bCall[c].raised = "no"
        /\ pc \in Working => bCall[c].made /\ bCall[c].raised = "no"
        /\ pc \in {"make", "markRunning", "markFailed"} => Boxes!IsService(c)
        /\ pc = "markEnd" => Boxes!IsPoc(c) /\ bCall[c].exit \in {"0", "1", "timeout"}
        /\ pc \in {"verdict", "event", "except"} => bDo[c].kind = "finding"
        /\ pc \in {"verdict", "event"} => bCall[c].raised = "no"
        /\ pc = "except" => bCall[c].raised # "no"
        /\ bCall[c].raised \in {"no", "failed", "unavailable"}
        /\ pc \in (Early \ {"idle", "require"}) \cup Working \/ ~Boxes!Gone(c) => May(c)
        /\ bCall[c].raised = "unavailable" => ~May(c) \/ Boxes!Hit(c, {"start"})

\* A PoC on its way back has removed its container, and then its network, unless a step of
\* the removal failed or the way back began before them.
Tidy(c) == Boxes!IsPoc(c) /\ ~bDo[c].retain =>
    LET pc == bCall[c].pc
    IN  /\ pc \in {"markRemoved", "removeNetwork", "markCleaned"} \cup Final =>
             Boxes!Gone(c) \/ Boxes!Hit(c, {"create", "remove"})
        /\ Boxes!Exists(<<c>>) =>
             \/ Boxes!Hit(c, {"network", "recordNetwork", "pull", "remove", "removeNetwork"})
             \/ /\ bCall[c].ours /\ bDo[c].own
                /\ pc \in {"recordNetwork", "pull", "create", "remove", "markRemoved", "removeNetwork"} \cup Working
        /\ containers[c].state = "running" => pc \in {"mark", "wait", "markEnd", "remove"} \/ Boxes!Hit(c, {"remove"})

\* A cleanup has removed the container of c and is about to mark its row.
Swept(c) == \E d \in Boxes!Live : IsCleanup(d) /\ bCall[d].pc = "sweepMark" /\ bCall[d].saw = c

\* The row of the container follows it while nothing fails and no cleanup comes.
Quiet(c) == bCall[c].hit = {} /\ ~bCall[c].met
Recorded(c) == Quiet(c) =>
    LET pc == bCall[c].pc  row == bRows[c]
    IN  /\ pc = "record" => ~Boxes!Gone(c) /\ row = "none"
        /\ pc \in {"start", "mark"} => ~Boxes!Gone(c) /\ row = "created"
        /\ pc \in {"wait", "markEnd", "markRunning"} =>
             ~Boxes!Gone(c) /\ row = IF Boxes!IsService(c) THEN "starting" ELSE "running"
        /\ pc \in {"markFailed", "remove"} => ~Boxes!Gone(c) /\ row \notin {"none", "removed"}
        /\ pc = "markRemoved" => Boxes!Gone(c) /\ row # "none"
        /\ pc \in {"removeNetwork", "markCleaned"} \cup Final =>
             /\ (Boxes!Gone(c) <=> row \in {"none", "removed"}) \/ (Boxes!Gone(c) /\ Swept(c))
             /\ row \in {"starting", "running"} => Boxes!IsService(c) /\ pc = "answered"
        /\ Boxes!Ended(c) /\ Swept(c) => Boxes!Gone(c)
        /\ ~Boxes!Ended(c) => ~Boxes!Sweeping /\ ~Swept(c)

\* What a PoC of a finding has recorded.
Own(c) == {e \in bEvidence : e.call = c}
Judged(c) ==
    /\ Own(c) = {Boxes!Row(c, "poc-run")}
    /\ attempts[c] = IF Boxes!Matched(c) THEN "completed" ELSE "failed"
JudgedWell(c) == bDo[c].kind = "finding" =>
    LET pc == bCall[c].pc
    IN  /\ pc = "idle" => Own(c) = {}
        /\ pc \notin {"idle", "event", "except", "answered", "failed"} => attempts[c] = "running" /\ Own(c) = {}
        /\ pc = "event" => Judged(c)
        /\ pc = "except" => \/ attempts[c] = "running" /\ Own(c) = {}
                            \/ Boxes!Hit(c, {"event"}) /\ bCall[c].raised = "failed" /\ Judged(c)
        /\ Boxes!Over(c) =>
             /\ attempts[c] = "running" => Boxes!Hit(c, {"except"})
             /\ attempts[c] = "completed" => Own(c) = {[call |-> c, kind |-> "poc-run", matched |-> TRUE]}
             /\ attempts[c] = "failed" /\ (\E e \in Own(c) : e.matched) => Boxes!Hit(c, {"event"})
             /\ attempts[c] = "unavailable" => ~May(c) \/ Boxes!Hit(c, {"start"})

\* The network of a PoC of its own is the one that it made, as long as it works with it.
Undisturbed(c) == Boxes!IsPoc(c) /\ bDo[c].own =>
    /\ bCall[c].raised = "failed" => bCall[c].hit # {} \/ bCall[c].met \/ ~host.up
    /\ Quiet(c) /\ bCall[c].pc \in {"recordNetwork", "pull", "create"} \cup Working => network[<<c>>].by = c
    /\ Quiet(c) /\ bCall[c].pc \in {"record", "start"} => containers[c].state = "created" /\ containers[c].on = c

\* A service goes on only with a network of its own policy.
SawOwn(c) == Boxes!IsService(c) /\ bCall[c].saw # 0 =>
    bCall[c].saw \in Boxes!Live /\ bDo[bCall[c].saw].external = bDo[c].external

BoxCall(c) == InOrder(c) /\ Tidy(c) /\ Recorded(c) /\ JudgedWell(c) /\ Undisturbed(c) /\ SawOwn(c)

\* A cleanup makes no container.
Cleaning(c) ==
    /\ bCall[c].pc \in {"idle", "sweep", "sweepMark", "sweepNetworks", "answered"}
    /\ Boxes!Gone(c)
    /\ bCall[c].pc = "sweep" => bCall[c].todo \subseteq Boxes!Live
    /\ bCall[c].pc = "sweepMark" => bCall[c].saw \in Boxes!Live /\ bCall[c].todo \subseteq Boxes!Live
    /\ bCall[c].pc = "sweepNetworks" => bCall[c].todo \subseteq Boxes!NetworkNames

InvOf(c) == IF IsCleanup(c) THEN Cleaning(c) ELSE BoxCall(c)

\* A network has the policy of the call that made it, and stays while a container runs on it.
Networks ==
    /\ \A n \in Boxes!NetworkNames : Boxes!Exists(n) =>
         network[n].by \in Boxes!Live /\ network[n].external = bDo[network[n].by].external
    /\ \A c \in Boxes!Live : containers[c].state = "running" => Boxes!Exists(Boxes!NetworkOf(c))
Confirmed == finding = "confirmed" => \E e \in bEvidence : e.matched /\ bDo[e.call].mark

BoxInv == BoxTypes /\ Networks /\ Confirmed /\ \A c \in Boxes!Live : InvOf(c)

\* The calls of a behaviour are calls of the kinds that the assumption names.
LEMMA BoxLive ==
    ASSUME BoxTypes
    PROVE  /\ Boxes!Live \subseteq Boxes!CallIds /\ 0 \notin Boxes!Live
           /\ \A c \in Boxes!Live : bDo[c].kind \in {"poc", "finding", "service", "compose", "cleanup"}
           /\ \A c \in Boxes!Live : Boxes!IsService(c) => bDo[c].own = FALSE
<1>1. PICK s \in SandboxScenarios : host = s.host /\ bDo = s.calls
  BY DEF BoxTypes
<1>2. /\ 0 \notin Boxes!Live
      /\ \A c \in Boxes!Live : bDo[c].kind \in {"poc", "finding", "service", "compose", "cleanup"}
      /\ \A c \in Boxes!Live : Boxes!IsService(c) => bDo[c].own = FALSE
  BY <1>1, SandboxAssumption DEF Boxes!Live, Boxes!IsService
<1>3. Boxes!Live \subseteq Boxes!CallIds
  BY <1>1 DEF Boxes!Live, Boxes!CallIds
<1> QED BY <1>2, <1>3

\* A cleanup that is about to mark a row works.
LEMMA SweptSweeps ==
    ASSUME NEW c, Swept(c)
    PROVE  Boxes!Sweeping
BY DEF Swept, Boxes!Sweeping, IsCleanup, Boxes!Ended

\* What a step of the call c leaves alone: all that belongs to other calls.
OnlyCall(c) ==
    /\ UNCHANGED <<host, bDo>>
    /\ \A d \in Boxes!Live \ {c} :
         /\ bCall'[d] = bCall[d] /\ containers'[d] = containers[d] /\ bRows'[d] = bRows[d]
         /\ attempts'[d] = attempts[d] /\ Own(d)' = Own(d) /\ network'[<<d>>] = network[<<d>>]

\* A step of one call leaves the invariant of the others alone.
LEMMA BoxKeeps ==
    ASSUME BoxInv, NEW c \in Boxes!Live, ~IsCleanup(c), OnlyCall(c),
           BoxTypes', Networks', Confirmed', BoxCall(c)'
    PROVE  BoxInv'
<1>1. /\ Boxes!Live' = Boxes!Live /\ Boxes!NetworkNames' = Boxes!NetworkNames
      /\ \A d : /\ IsCleanup(d)' = IsCleanup(d) /\ Boxes!IsService(d)' = Boxes!IsService(d)
               /\ Boxes!IsPoc(d)' = Boxes!IsPoc(d)
               /\ May(d)' = May(d)
  BY DEF OnlyCall, Boxes!Live, Boxes!NetworkNames, IsCleanup, Boxes!IsService, Boxes!IsPoc, May,
         Boxes!MayExecute, Boxes!Available, Boxes!RuntimeAvailable, Boxes!Requested
<1>2. Boxes!Sweeping' = Boxes!Sweeping
  BY <1>1 DEF Boxes!Sweeping, Boxes!Ended, OnlyCall, IsCleanup
<1>3. \A d : Swept(d)' = Swept(d)
  BY <1>1 DEF Swept, OnlyCall
<1>4. ASSUME NEW d \in Boxes!Live, d # c PROVE InvOf(d)'
  <2>1. /\ bCall'[d] = bCall[d] /\ containers'[d] = containers[d] /\ bRows'[d] = bRows[d]
        /\ attempts'[d] = attempts[d] /\ Own(d)' = Own(d) /\ network'[<<d>>] = network[<<d>>]
        /\ bDo' = bDo /\ host' = host
    BY <1>4 DEF OnlyCall
  <2>2. InvOf(d)
    BY DEF BoxInv
  <2>3. CASE IsCleanup(d)
    BY <1>1, <2>1, <2>2, <2>3 DEF InvOf, Cleaning, Boxes!Gone
  <2>4. CASE ~IsCleanup(d)
    <3>1. BoxCall(d)
      BY <2>2, <2>4 DEF InvOf
    <3>2. InOrder(d)'
      BY <1>1, <2>1, <3>1 DEF BoxCall, InOrder, Boxes!Gone, Boxes!Hit
    <3>3. Tidy(d)'
      BY <1>1, <2>1, <3>1 DEF BoxCall, Tidy, Boxes!Gone, Boxes!Hit, Boxes!Exists
    <3>4. Recorded(d)'
      BY <1>1, <1>2, <1>3, <2>1, <3>1 DEF BoxCall, Recorded, Quiet, Boxes!Gone, Boxes!Ended
    <3>5. JudgedWell(d)'
      BY <1>1, <2>1, <3>1 DEF BoxCall, JudgedWell, Judged, Boxes!Hit, Boxes!Over, Boxes!Row, Boxes!Matched
    <3>6. Undisturbed(d)' /\ SawOwn(d)'
      BY <1>1, <2>1, <3>1 DEF BoxCall, Undisturbed, Quiet, SawOwn
    <3> QED BY <1>1, <2>4, <3>2, <3>3, <3>4, <3>5, <3>6 DEF InvOf, BoxCall
  <2> QED BY <2>3, <2>4
<1>5. InvOf(c)'
  BY <1>1 DEF InvOf
<1> QED BY <1>1, <1>4, <1>5 DEF BoxInv
\* No call works on the network of the PoC of another.
LEMMA OwnNetworks ==
    ASSUME BoxTypes, NEW c \in Boxes!Live
    PROVE  \A d \in Boxes!Live \ {c} : <<d>> \in Boxes!NetworkNames /\ <<d>> # Boxes!NetworkOf(c)
<1>1. ASSUME NEW d \in Boxes!Live PROVE <<d>> \in Boxes!NetworkNames /\ <<d>> # Boxes!Shared
  <2>1. d \in Boxes!CallIds /\ d # 0
    BY BoxLive
  <2> QED BY <2>1 DEF Boxes!NetworkNames, Boxes!Shared
<1>2. \A d \in Boxes!Live \ {c} : <<d>> # <<c>>
  OBVIOUS
<1> QED BY <1>1, <1>2 DEF Boxes!NetworkOf

\* A step of the call c changes its record only, and all of it but what Steady names.
Turn(c) == /\ bCall' = bCall \/ bCall' = [bCall EXCEPT ![c] = bCall'[c]]
           /\ DOMAIN bCall'[c] = CallFields
Steady(c) == /\ bCall'[c].made = bCall[c].made /\ bCall'[c].ours = bCall[c].ours /\ bCall'[c].saw = bCall[c].saw
             /\ bCall'[c].exit = bCall[c].exit /\ bCall'[c].hit = bCall[c].hit /\ bCall'[c].met = bCall[c].met

\* What the frame of a step of the call c is: every variable changes at c, or at its network, only.
LEMMA BoxFrame ==
    ASSUME BoxTypes, NEW c \in Boxes!Live, UNCHANGED <<host, bDo>>,
           Turn(c),
           bRows' = bRows \/ \E x : bRows' = [bRows EXCEPT ![c] = x],
           attempts' = attempts \/ \E x : attempts' = [attempts EXCEPT ![c] = x],
           bEvidence' = bEvidence \/ \E k : bEvidence' = bEvidence \cup {Boxes!Row(c, k)},
           containers' = containers
             \/ \E x : DOMAIN x = {"state", "on"} /\ containers' = [containers EXCEPT ![c] = x],
           network' = network
             \/ \E x : DOMAIN x = {"by", "external"} /\ network' = [network EXCEPT ![Boxes!NetworkOf(c)] = x]
    PROVE  BoxTypes' /\ OnlyCall(c)
<1>1. /\ Boxes!Live' = Boxes!Live /\ Boxes!NetworkNames' = Boxes!NetworkNames
      /\ c \in DOMAIN bCall /\ c \in DOMAIN containers
  BY DEF Boxes!Live, Boxes!NetworkNames, BoxTypes
<1>2. /\ DOMAIN bCall' = Boxes!Live /\ \A d \in Boxes!Live : DOMAIN bCall'[d] = CallFields
      /\ \A d \in Boxes!Live \ {c} : bCall'[d] = bCall[d]
  BY <1>1 DEF BoxTypes, Turn
<1>3. /\ DOMAIN bRows' = Boxes!Live /\ DOMAIN attempts' = Boxes!Live
      /\ \A d \in Boxes!Live \ {c} : bRows'[d] = bRows[d] /\ attempts'[d] = attempts[d]
  BY DEF BoxTypes
<1>4. /\ DOMAIN containers' = Boxes!Live /\ \A d \in Boxes!Live : DOMAIN containers'[d] = {"state", "on"}
      /\ \A d \in Boxes!Live \ {c} : containers'[d] = containers[d]
  BY <1>1 DEF BoxTypes
<1>5. \A d \in Boxes!Live \ {c} : <<d>> \in Boxes!NetworkNames /\ <<d>> # Boxes!NetworkOf(c)
  BY OwnNetworks
<1>6. /\ DOMAIN network' = Boxes!NetworkNames /\ \A n \in Boxes!NetworkNames : DOMAIN network'[n] = {"by", "external"}
      /\ \A d \in Boxes!Live \ {c} : network'[<<d>>] = network[<<d>>]
  BY <1>5 DEF BoxTypes
<1>7. \A d \in Boxes!Live \ {c} : Own(d)' = Own(d)
  BY DEF Own, Boxes!Row
<1>8. BoxTypes'
  BY <1>1, <1>2, <1>3, <1>4, <1>6 DEF BoxTypes
<1> QED BY <1>2, <1>3, <1>4, <1>6, <1>7, <1>8 DEF OnlyCall

\* What the settings and the other calls say of the call c does not change with its step.
Alike(c) ==
    /\ host' = host /\ bDo' = bDo /\ Boxes!Live' = Boxes!Live /\ Boxes!NetworkNames' = Boxes!NetworkNames
    /\ Boxes!IsService(c)' = Boxes!IsService(c) /\ Boxes!IsPoc(c)' = Boxes!IsPoc(c) /\ May(c)' = May(c)
    /\ Boxes!NetworkOf(c)' = Boxes!NetworkOf(c)
    /\ Boxes!Sweeping' = Boxes!Sweeping /\ Swept(c)' = Swept(c)

\* A step of one call changes no setting and no cleanup.
LEMMA BoxAlike ==
    ASSUME NEW c \in Boxes!Live, OnlyCall(c), ~IsCleanup(c)
    PROVE  Alike(c)
<1>1. /\ IsCleanup(c)' = IsCleanup(c) /\ Boxes!IsService(c)' = Boxes!IsService(c)
      /\ Boxes!IsPoc(c)' = Boxes!IsPoc(c) /\ May(c)' = May(c)
      /\ Boxes!Live' = Boxes!Live /\ host' = host /\ bDo' = bDo
      /\ Boxes!NetworkOf(c)' = Boxes!NetworkOf(c) /\ Boxes!NetworkNames' = Boxes!NetworkNames
  BY DEF OnlyCall, IsCleanup, Boxes!IsService, Boxes!IsPoc, May, Boxes!MayExecute, Boxes!Available,
         Boxes!RuntimeAvailable, Boxes!Requested, Boxes!Live, Boxes!NetworkOf, Boxes!Shared, Boxes!NetworkNames
<1>2. Boxes!Sweeping' = Boxes!Sweeping
  BY <1>1 DEF Boxes!Sweeping, Boxes!Ended, OnlyCall, IsCleanup
<1>3. Swept(c)' = Swept(c)
  BY <1>1 DEF Swept, IsCleanup, OnlyCall
<1> QED BY <1>1, <1>2, <1>3 DEF Alike

\* A step that leaves the engine, the tables and what the call has met alone.
LEMMA BoxWalk ==
    ASSUME BoxInv, NEW c \in Boxes!Live, ~IsCleanup(c), UNCHANGED <<host, bDo>>,
           Turn(c),
           UNCHANGED <<containers, network, bRows, attempts, bEvidence, finding>>
    PROVE  /\ BoxTypes' /\ OnlyCall(c) /\ Networks' /\ Confirmed' /\ Alike(c)
           /\ Boxes!Gone(c)' = Boxes!Gone(c) /\ Own(c)' = Own(c) /\ \A n : Boxes!Exists(n)' = Boxes!Exists(n)
<1>1. BoxTypes
  BY DEF BoxInv
<1>2. BoxTypes' /\ OnlyCall(c)
  BY <1>1, BoxFrame
<1>3. Networks' /\ Confirmed'
  BY DEF BoxInv, Networks, Confirmed, Boxes!Exists, Boxes!Live, Boxes!NetworkOf, Boxes!NetworkNames,
     Boxes!Shared
<1>4. Alike(c)
  BY <1>2, BoxAlike
<1> QED BY <1>2, <1>3, <1>4 DEF Boxes!Gone, Own, Boxes!Exists
\* What Judged says of the verdict.
LEMMA JudgedLast ==
    ASSUME NEW c, Judged(c)
    PROVE  /\ attempts[c] \in {"completed", "failed"} /\ (attempts[c] = "failed" => \A e \in Own(c) : ~e.matched)
           /\ attempts[c] = "completed" => Own(c) = {[call |-> c, kind |-> "poc-run", matched |-> TRUE]}
<1>1. PICK m \in BOOLEAN : m = Boxes!Matched(c)
  BY DEF Boxes!Matched
<1>2. Boxes!Row(c, "poc-run") = [call |-> c, kind |-> "poc-run", matched |-> m]
  BY <1>1 DEF Boxes!Row, Boxes!Matched
<1>3. Own(c) = {[call |-> c, kind |-> "poc-run", matched |-> m]}
  BY <1>2 DEF Judged
<1>4. attempts[c] = IF m THEN "completed" ELSE "failed"
  BY <1>1 DEF Judged
<1>5. CASE m = TRUE
  BY <1>3, <1>4, <1>5
<1>6. CASE m = FALSE
  BY <1>3, <1>4, <1>6
<1> QED BY <1>5, <1>6

\* What the two ways to go on do to the record of a call.
LEMMA GoFields ==
    ASSUME BoxTypes, NEW c \in Boxes!Live, NEW p, Boxes!GoTo(c, p)
    PROVE  Turn(c) /\ Steady(c) /\ bCall'[c].pc = p /\ bCall'[c].raised = bCall[c].raised
<1>1. c \in DOMAIN bCall /\ DOMAIN bCall[c] = CallFields
  BY DEF BoxTypes
<1>2. bCall' = [bCall EXCEPT ![c] = [bCall[c] EXCEPT !.pc = p]]
  BY DEF Boxes!GoTo
<1>3. bCall'[c] = [bCall[c] EXCEPT !.pc = p]
  BY <1>1, <1>2
<1> QED BY <1>1, <1>2, <1>3 DEF Turn, Steady, CallFields

\* What an exception does to the record of a call.
LEMMA RaiseFields ==
    ASSUME BoxTypes, NEW c \in Boxes!Live, NEW r, Boxes!Raise(c, r)
    PROVE  /\ Turn(c) /\ Steady(c) /\ bCall'[c].raised = r
           /\ bCall'[c].pc = IF Boxes!InTry(c) THEN Boxes!Undo(c, r) ELSE Boxes!Leave(c, r)
<1>1. c \in DOMAIN bCall /\ DOMAIN bCall[c] = CallFields
  BY DEF BoxTypes
<1> DEFINE p == IF Boxes!InTry(c) THEN Boxes!Undo(c, r) ELSE Boxes!Leave(c, r)
<1>2. bCall' = [bCall EXCEPT ![c] = [bCall[c] EXCEPT !.raised = r, !.pc = p]]
  BY DEF Boxes!Raise
<1> HIDE DEF p
<1>3. bCall'[c] = [bCall[c] EXCEPT !.raised = r, !.pc = p]
  BY <1>1, <1>2
<1>4. Turn(c) /\ Steady(c) /\ bCall'[c].raised = r /\ bCall'[c].pc = p
  BY <1>1, <1>2, <1>3 DEF Turn, Steady, CallFields
<1> QED BY <1>4 DEF p
\* _require_sandbox_execution lets a call begin, or refuses it.
LEMMA BoxRequires ==
    ASSUME BoxInv, NEW c \in Boxes!Live, Boxes!Require(c)
    PROVE  BoxInv'
<1>1. bCall[c].pc = "require" /\ BoxTypes
  BY DEF Boxes!Require, Boxes!At, BoxInv
<1>2. ~IsCleanup(c) /\ BoxCall(c)
  BY <1>1 DEF BoxInv, InvOf, Cleaning
<1>3. /\ Turn(c) /\ Steady(c)
      /\ \/ May(c) /\ bCall'[c].pc = "network" /\ bCall'[c].raised = bCall[c].raised
         \/ ~May(c) /\ bCall'[c].pc = Boxes!Leave(c, Boxes!Refusal) /\ bCall'[c].raised = Boxes!Refusal
  <2>1. CASE May(c)
    BY <1>1, <2>1, GoFields DEF Boxes!Require, May
  <2>2. CASE ~May(c)
    <3>1. Boxes!Raise(c, Boxes!Refusal) /\ ~Boxes!InTry(c)
      BY <2>2, <1>1 DEF Boxes!Require, May, Boxes!InTry
    <3>2. PICK r : r = Boxes!Refusal
      OBVIOUS
    <3>3. Turn(c) /\ Steady(c) /\ bCall'[c].raised = r /\ bCall'[c].pc = Boxes!Leave(c, r)
      BY <1>1, <3>1, <3>2, RaiseFields
    <3> QED BY <2>2, <3>2, <3>3
  <2> QED BY <2>1, <2>2
<1>4. UNCHANGED <<host, bDo, containers, network, bRows, attempts, bEvidence, finding>>
  BY DEF Boxes!Require, Boxes!engine, Boxes!tables
<1>5. /\ BoxTypes' /\ OnlyCall(c) /\ Networks' /\ Confirmed' /\ Alike(c)
      /\ Boxes!Gone(c)' = Boxes!Gone(c) /\ Own(c)' = Own(c) /\ \A n : Boxes!Exists(n)' = Boxes!Exists(n)
  BY <1>2, <1>3, <1>4, BoxWalk
<1>6. Boxes!Refusal = IF host.up THEN "unavailable" ELSE "failed"
  BY DEF Boxes!Refusal
<1> HIDE DEF Boxes!Refusal
<1> USE DEF BoxCall, InOrder, Quiet, Steady, Alike, Early, Working, Back, Final, Boxes!Hit, Boxes!Leave
<1>11. InOrder(c)'
  BY <1>1, <1>2, <1>3, <1>4, <1>5, <1>6
<1>12. Tidy(c)'
  BY <1>1, <1>2, <1>3, <1>4, <1>5, <1>6 DEF Tidy
<1>13. Recorded(c)'
  BY <1>1, <1>2, <1>3, <1>4, <1>5, <1>6 DEF Recorded, Boxes!Ended
<1>14. JudgedWell(c)'
  BY <1>1, <1>2, <1>3, <1>4, <1>5, <1>6 DEF JudgedWell, Judged, Boxes!Row, Boxes!Matched, Boxes!Over
<1>15. Undisturbed(c)' /\ SawOwn(c)'
  BY <1>1, <1>2, <1>3, <1>4, <1>5, <1>6 DEF Undisturbed, SawOwn
<1>16. BoxCall(c)'
  BY <1>11, <1>12, <1>13, <1>14, <1>15
<1> QED BY <1>2, <1>5, <1>16, BoxKeeps

\* _require_managed_run_network lets a PoC go on, or fails.
LEMMA BoxRequiresNetwork ==
    ASSUME BoxInv, NEW c \in Boxes!Live, Boxes!RequireNetwork(c)
    PROVE  BoxInv'
<1>1. bCall[c].pc = "network" /\ Boxes!IsPoc(c) /\ ~bDo[c].own /\ BoxTypes
  BY DEF Boxes!RequireNetwork, Boxes!At, BoxInv
<1>2. ~IsCleanup(c) /\ BoxCall(c)
  BY <1>1 DEF BoxInv, InvOf, Cleaning
<1>3. /\ Turn(c) /\ Steady(c)
      /\ \/ bCall'[c].pc = "pull" /\ bCall'[c].raised = bCall[c].raised
         \/ bCall'[c].pc = Boxes!Leave(c, "failed") /\ bCall'[c].raised = "failed"
  <2>1. ~Boxes!InTry(c)
    BY <1>1 DEF Boxes!InTry
  <2> QED BY <1>1, <2>1, GoFields, RaiseFields DEF Boxes!RequireNetwork
<1>4. UNCHANGED <<host, bDo, containers, network, bRows, attempts, bEvidence, finding>>
  BY DEF Boxes!RequireNetwork, Boxes!engine, Boxes!tables
<1>5. /\ BoxTypes' /\ OnlyCall(c) /\ Networks' /\ Confirmed' /\ Alike(c)
      /\ Boxes!Gone(c)' = Boxes!Gone(c) /\ Own(c)' = Own(c) /\ \A n : Boxes!Exists(n)' = Boxes!Exists(n)
  BY <1>2, <1>3, <1>4, BoxWalk
<1> USE DEF BoxCall, InOrder, Quiet, Steady, Alike, Early, Working, Back, Final, Boxes!Hit, Boxes!Leave
<1>11. InOrder(c)'
  BY <1>1, <1>2, <1>3, <1>4, <1>5
<1>12. Tidy(c)'
  BY <1>1, <1>2, <1>3, <1>4, <1>5 DEF Tidy
<1>13. Recorded(c)'
  BY <1>1, <1>2, <1>3, <1>4, <1>5 DEF Recorded, Boxes!Ended
<1>14. JudgedWell(c)'
  BY <1>1, <1>2, <1>3, <1>4, <1>5 DEF JudgedWell, Judged, Boxes!Row, Boxes!Matched, Boxes!Over
<1>15. Undisturbed(c)' /\ SawOwn(c)'
  BY <1>1, <1>2, <1>3, <1>4, <1>5 DEF Undisturbed, SawOwn
<1>16. BoxCall(c)'
  BY <1>11, <1>12, <1>13, <1>14, <1>15
<1> QED BY <1>2, <1>5, <1>16, BoxKeeps

\* _ensure_managed_run_network refuses a network with the other policy.
LEMMA BoxEnsuresNetwork ==
    ASSUME BoxInv, NEW c \in Boxes!Live, Boxes!EnsureNetwork(c)
    PROVE  BoxInv'
<1>1. bCall[c].pc = "network" /\ Boxes!IsService(c) /\ BoxTypes
  BY DEF Boxes!EnsureNetwork, Boxes!At, BoxInv
<1>2. ~IsCleanup(c) /\ BoxCall(c)
  BY <1>1 DEF BoxInv, InvOf, Cleaning
<1>3. Turn(c) /\ \/ /\ Steady(c) /\ bCall'[c].pc = Boxes!Leave(c, "failed") /\ bCall'[c].raised = "failed"
                  \/ /\ bCall'[c].made = bCall[c].made /\ bCall'[c].ours = bCall[c].ours
                     /\ bCall'[c].exit = bCall[c].exit /\ bCall'[c].hit = bCall[c].hit
                     /\ bCall'[c].met = bCall[c].met /\ bCall'[c].raised = bCall[c].raised
                     /\ bCall'[c].saw = network[Boxes!Shared].by /\ ~Boxes!Clashes(c)
                     /\ bCall'[c].pc \in {"recordNetwork", "make"}
  <2>1. ~Boxes!InTry(c)
    BY <1>1 DEF Boxes!InTry
  <2>2. CASE Boxes!Clashes(c)
    BY <1>1, <2>1, <2>2, RaiseFields DEF Boxes!EnsureNetwork
  <2>3. CASE ~Boxes!Clashes(c)
    <3>1. PICK p \in {"recordNetwork", "make"} :
            bCall' = [bCall EXCEPT ![c] = [bCall[c] EXCEPT !.saw = network[Boxes!Shared].by, !.pc = p]]
      BY <2>3 DEF Boxes!EnsureNetwork
    <3>2. c \in DOMAIN bCall /\ DOMAIN bCall[c] = CallFields
      BY <1>1 DEF BoxTypes
    <3>3. bCall'[c] = [bCall[c] EXCEPT !.saw = network[Boxes!Shared].by, !.pc = p]
      BY <3>1, <3>2
    <3> QED BY <2>3, <3>1, <3>2, <3>3 DEF Turn, CallFields
  <2> QED BY <2>2, <2>3
<1>4. UNCHANGED <<host, bDo, containers, network, bRows, attempts, bEvidence, finding>>
  BY DEF Boxes!EnsureNetwork, Boxes!engine, Boxes!tables
<1>5. /\ BoxTypes' /\ OnlyCall(c) /\ Networks' /\ Confirmed' /\ Alike(c)
      /\ Boxes!Gone(c)' = Boxes!Gone(c) /\ Own(c)' = Own(c) /\ \A n : Boxes!Exists(n)' = Boxes!Exists(n)
  BY <1>2, <1>3, <1>4, BoxWalk
<1>6. /\ network[Boxes!Shared].by = 0 \/ network[Boxes!Shared].by \in Boxes!Live
      /\ network[Boxes!Shared].by # 0 =>
           network[Boxes!Shared].external = bDo[network[Boxes!Shared].by].external
  BY DEF BoxInv, Networks, Boxes!NetworkNames, Boxes!Exists
<1> USE DEF BoxCall, InOrder, Quiet, Steady, Alike, Early, Working, Back, Final, Boxes!Hit, Boxes!Leave
<1>11. InOrder(c)'
  BY <1>1, <1>2, <1>3, <1>4, <1>5, <1>6 DEF Boxes!Clashes, Boxes!Exists, Boxes!IsPoc, Boxes!IsService
<1>12. Tidy(c)'
  BY <1>1, <1>2, <1>3, <1>4, <1>5, <1>6 DEF Boxes!Clashes, Boxes!Exists, Boxes!IsPoc, Boxes!IsService, Tidy
<1>13. Recorded(c)'
  BY <1>1, <1>2, <1>3, <1>4, <1>5, <1>6 DEF Boxes!Clashes, Boxes!Exists, Boxes!IsPoc, Boxes!IsService,
     Recorded, Boxes!Ended
<1>14. JudgedWell(c)'
  BY <1>1, <1>2, <1>3, <1>4, <1>5, <1>6 DEF Boxes!Clashes, Boxes!Exists, Boxes!IsPoc, Boxes!IsService,
     JudgedWell, Judged, Boxes!Row, Boxes!Matched, Boxes!Over
<1>15. Undisturbed(c)' /\ SawOwn(c)'
  BY <1>1, <1>2, <1>3, <1>4, <1>5, <1>6 DEF Boxes!Clashes, Boxes!Exists, Boxes!IsPoc, Boxes!IsService,
     Undisturbed, SawOwn
<1>16. BoxCall(c)'
  BY <1>11, <1>12, <1>13, <1>14, <1>15
<1> QED BY <1>2, <1>5, <1>16, BoxKeeps

\* The image is there.
LEMMA BoxPulls ==
    ASSUME BoxInv, NEW c \in Boxes!Live, Boxes!Pull(c)
    PROVE  BoxInv'
<1>1. bCall[c].pc = "pull" /\ BoxTypes
  BY DEF Boxes!Pull, Boxes!At, BoxInv
<1>2. ~IsCleanup(c) /\ BoxCall(c)
  BY <1>1 DEF BoxInv, InvOf, Cleaning
<1>3. Turn(c) /\ Steady(c) /\ bCall'[c].pc = "create" /\ bCall'[c].raised = bCall[c].raised
  BY <1>1, GoFields DEF Boxes!Pull
<1>4. UNCHANGED <<host, bDo, containers, network, bRows, attempts, bEvidence, finding>>
  BY DEF Boxes!Pull, Boxes!engine, Boxes!tables
<1>5. /\ BoxTypes' /\ OnlyCall(c) /\ Networks' /\ Confirmed' /\ Alike(c)
      /\ Boxes!Gone(c)' = Boxes!Gone(c) /\ Own(c)' = Own(c) /\ \A n : Boxes!Exists(n)' = Boxes!Exists(n)
  BY <1>2, <1>3, <1>4, BoxWalk
<1> USE DEF BoxCall, InOrder, Quiet, Steady, Alike, Early, Working, Back, Final, Boxes!Hit, Boxes!Leave
<1>11. InOrder(c)'
  BY <1>1, <1>2, <1>3, <1>4, <1>5
<1>12. Tidy(c)'
  BY <1>1, <1>2, <1>3, <1>4, <1>5 DEF Tidy
<1>13. Recorded(c)'
  BY <1>1, <1>2, <1>3, <1>4, <1>5 DEF Recorded, Boxes!Ended
<1>14. JudgedWell(c)'
  BY <1>1, <1>2, <1>3, <1>4, <1>5 DEF JudgedWell, Judged, Boxes!Row, Boxes!Matched, Boxes!Over
<1>15. Undisturbed(c)' /\ SawOwn(c)'
  BY <1>1, <1>2, <1>3, <1>4, <1>5 DEF Undisturbed, SawOwn
<1>16. BoxCall(c)'
  BY <1>11, <1>12, <1>13, <1>14, <1>15
<1> QED BY <1>2, <1>5, <1>16, BoxKeeps

\* The event of a verdict is recorded.
LEMMA BoxRecordsEvent ==
    ASSUME BoxInv, NEW c \in Boxes!Live, Boxes!RecordEvent(c)
    PROVE  BoxInv'
<1>1. bCall[c].pc = "event" /\ BoxTypes
  BY DEF Boxes!RecordEvent, Boxes!At, BoxInv
<1>2. ~IsCleanup(c) /\ BoxCall(c)
  BY <1>1 DEF BoxInv, InvOf, Cleaning
<1>3. Turn(c) /\ Steady(c) /\ bCall'[c].pc = "answered" /\ bCall'[c].raised = bCall[c].raised
  BY <1>1, GoFields DEF Boxes!RecordEvent
<1>4. UNCHANGED <<host, bDo, containers, network, bRows, attempts, bEvidence, finding>>
  BY DEF Boxes!RecordEvent, Boxes!engine, Boxes!tables
<1>5. /\ BoxTypes' /\ OnlyCall(c) /\ Networks' /\ Confirmed' /\ Alike(c)
      /\ Boxes!Gone(c)' = Boxes!Gone(c) /\ Own(c)' = Own(c) /\ \A n : Boxes!Exists(n)' = Boxes!Exists(n)
  BY <1>2, <1>3, <1>4, BoxWalk
<1>6. bDo[c].kind = "finding" =>
        /\ attempts[c] \in {"completed", "failed"} /\ (attempts[c] = "failed" => \A e \in Own(c) : ~e.matched)
        /\ attempts[c] = "completed" => Own(c) = {[call |-> c, kind |-> "poc-run", matched |-> TRUE]}
  BY <1>1, <1>2, JudgedLast DEF BoxCall, JudgedWell
<1> USE DEF BoxCall, InOrder, Quiet, Steady, Alike, Early, Working, Back, Final, Boxes!Hit, Boxes!Leave
<1>11. InOrder(c)'
  BY <1>1, <1>2, <1>3, <1>4, <1>5, <1>6
<1>12. Tidy(c)'
  BY <1>1, <1>2, <1>3, <1>4, <1>5, <1>6 DEF Tidy
<1>13. Recorded(c)'
  BY <1>1, <1>2, <1>3, <1>4, <1>5, <1>6 DEF Recorded, Boxes!Ended
<1>14. JudgedWell(c)'
  BY <1>1, <1>2, <1>3, <1>4, <1>5, <1>6 DEF JudgedWell, Judged, Boxes!Row, Boxes!Matched, Boxes!Over
<1>15. Undisturbed(c)' /\ SawOwn(c)'
  BY <1>1, <1>2, <1>3, <1>4, <1>5, <1>6 DEF Undisturbed, SawOwn
<1>16. BoxCall(c)'
  BY <1>11, <1>12, <1>13, <1>14, <1>15
<1> QED BY <1>2, <1>5, <1>16, BoxKeeps
\* What happens to the networks of the run when a container of c, or the network of c, changes.
LEMMA NetKept ==
    ASSUME BoxTypes, Networks, NEW c \in Boxes!Live, UNCHANGED <<bDo, network>>,
           \A d \in Boxes!Live \ {c} : containers'[d] = containers[d],
           containers'[c].state = "running" => containers[c].state = "running" \/ Boxes!Exists(Boxes!NetworkOf(c))
    PROVE  Networks'
<1>1. /\ Boxes!Live' = Boxes!Live /\ Boxes!NetworkNames' = Boxes!NetworkNames
      /\ \A d : Boxes!NetworkOf(d)' = Boxes!NetworkOf(d) /\ \A n : Boxes!Exists(n)' = Boxes!Exists(n)
  BY DEF Boxes!Live, Boxes!NetworkNames, Boxes!NetworkOf, Boxes!Shared, Boxes!Exists
<1>2. \A d \in Boxes!Live : containers'[d].state = "running" => Boxes!Exists(Boxes!NetworkOf(d))
  BY DEF Networks
<1> QED BY <1>1, <1>2 DEF Networks

\* A network that is made has the policy of its maker.
LEMMA NetMade ==
    ASSUME BoxTypes, Networks, NEW c \in Boxes!Live, UNCHANGED <<bDo, containers>>, network' = Boxes!Made(c)
    PROVE  /\ Networks' /\ network'[Boxes!NetworkOf(c)].by = c
           /\ network' = [network EXCEPT ![Boxes!NetworkOf(c)] = [by |-> c, external |-> bDo[c].external]]
<1>1. /\ Boxes!Live' = Boxes!Live /\ Boxes!NetworkNames' = Boxes!NetworkNames
      /\ \A d : Boxes!NetworkOf(d)' = Boxes!NetworkOf(d)
  BY DEF Boxes!Live, Boxes!NetworkNames, Boxes!NetworkOf, Boxes!Shared
<1>2. c \in Boxes!CallIds /\ c # 0
  BY BoxLive
<1>3. Boxes!NetworkOf(c) \in Boxes!NetworkNames
  BY <1>2 DEF Boxes!NetworkOf, Boxes!NetworkNames
<1>4. network' = [network EXCEPT ![Boxes!NetworkOf(c)] = [by |-> c, external |-> bDo[c].external]]
  BY DEF Boxes!Made
<1>5. /\ network'[Boxes!NetworkOf(c)].by = c /\ network'[Boxes!NetworkOf(c)].external = bDo[c].external
      /\ \A n \in Boxes!NetworkNames : n # Boxes!NetworkOf(c) => network'[n] = network[n]
  BY <1>3, <1>4 DEF BoxTypes
<1>6. \A n \in Boxes!NetworkNames : network'[n].by # 0 =>
        network'[n].by \in Boxes!Live /\ network'[n].external = bDo[network'[n].by].external
  BY <1>5 DEF Networks, Boxes!Exists
<1>7. ASSUME NEW d \in Boxes!Live, containers[d].state = "running" PROVE network'[Boxes!NetworkOf(d)].by # 0
  <2>1. d \in Boxes!CallIds /\ network[Boxes!NetworkOf(d)].by # 0
    BY <1>7, BoxLive DEF Networks, Boxes!Exists
  <2>2. Boxes!NetworkOf(d) \in Boxes!NetworkNames
    BY <2>1 DEF Boxes!NetworkOf, Boxes!NetworkNames
  <2> QED BY <1>2, <1>5, <2>1, <2>2
<1>8. Networks'
  BY <1>1, <1>6, <1>7 DEF Networks, Boxes!Exists
<1> QED BY <1>4, <1>5, <1>8

\* The engine keeps a network with a running container.
LEMMA NetRemoved ==
    ASSUME BoxTypes, Networks, NEW n \in Boxes!NetworkNames, UNCHANGED <<bDo, containers>>,
           network' = Boxes!WithoutNetwork(n)
    PROVE  /\ Networks' /\ (~Boxes!InUse(n) => network'[n].by = 0)
           /\ \/ network' = network
              \/ network' = [network EXCEPT ![n] = [by |-> 0, external |-> FALSE]]
<1>1. /\ Boxes!Live' = Boxes!Live /\ Boxes!NetworkNames' = Boxes!NetworkNames
      /\ \A d : Boxes!NetworkOf(d)' = Boxes!NetworkOf(d)
  BY DEF Boxes!Live, Boxes!NetworkNames, Boxes!NetworkOf, Boxes!Shared
<1>2. CASE Boxes!InUse(n)
  <2>1. network' = network
    BY <1>2 DEF Boxes!WithoutNetwork
  <2> QED BY <1>1, <1>2, <2>1 DEF Networks, Boxes!Exists
<1>3. CASE ~Boxes!InUse(n)
  <2>1. network' = [network EXCEPT ![n] = [by |-> 0, external |-> FALSE]]
    BY <1>3 DEF Boxes!WithoutNetwork
  <2>2. /\ network'[n].by = 0
        /\ \A m \in Boxes!NetworkNames : m # n => network'[m] = network[m]
    BY <2>1 DEF BoxTypes
  <2>3. \A m \in Boxes!NetworkNames : network'[m].by # 0 =>
          network'[m].by \in Boxes!Live /\ network'[m].external = bDo[network'[m].by].external
    BY <2>2 DEF Networks, Boxes!Exists
  <2>4. ASSUME NEW d \in Boxes!Live, containers[d].state = "running" PROVE network'[Boxes!NetworkOf(d)].by # 0
    <3>1. d \in Boxes!CallIds /\ network[Boxes!NetworkOf(d)].by # 0
      BY <2>4, BoxLive DEF Networks, Boxes!Exists
    <3>2. Boxes!NetworkOf(d) \in Boxes!NetworkNames /\ Boxes!NetworkOf(d) # n
      BY <1>3, <2>4, <3>1 DEF Boxes!NetworkOf, Boxes!NetworkNames, Boxes!InUse
    <3> QED BY <2>2, <3>1, <3>2
  <2>5. Networks'
    BY <1>1, <2>3, <2>4 DEF Networks, Boxes!Exists
  <2> QED BY <2>1, <2>2, <2>5
<1> QED BY <1>2, <1>3

\* No step but a verdict changes the finding, and none takes evidence away.
LEMMA ConfirmedKept ==
    ASSUME Confirmed, UNCHANGED <<bDo, finding>>, bEvidence \subseteq bEvidence'
    PROVE  Confirmed'
BY DEF Confirmed
\* A call begins while no cleanup works, or has met one.
LEMMA BoxBegins ==
    ASSUME BoxInv, NEW c \in Boxes!Live, Boxes!Begin(c)
    PROVE  BoxInv'
<1>1. bCall[c].pc = "idle" /\ bDo[c].kind # "cleanup" /\ BoxTypes
  BY DEF Boxes!Begin, Boxes!MayCall, BoxInv
<1>2. ~IsCleanup(c) /\ BoxCall(c)
  BY <1>1 DEF BoxInv, InvOf, IsCleanup
<1>3. /\ Turn(c) /\ bCall'[c].pc \in {"require", "failed"} /\ bCall'[c].raised = bCall[c].raised
      /\ bCall'[c].pc = "failed" => bDo[c].kind = "compose"
      /\ bCall'[c].made = bCall[c].made /\ bCall'[c].ours = bCall[c].ours /\ bCall'[c].saw = bCall[c].saw
      /\ bCall'[c].hit = bCall[c].hit /\ (Boxes!Sweeping => bCall'[c].met)
  <2>1. PICK p \in {"require", "failed"} :
          /\ bCall' = [bCall EXCEPT ![c] = [bCall[c] EXCEPT !.met = Boxes!Sweeping, !.pc = p]]
          /\ p = "failed" => bDo[c].kind = "compose"
    BY DEF Boxes!Begin
  <2>2. PICK m \in BOOLEAN : m = Boxes!Sweeping
    BY DEF Boxes!Sweeping
  <2>3. c \in DOMAIN bCall /\ DOMAIN bCall[c] = CallFields
    BY <1>1 DEF BoxTypes
  <2>4. bCall' = [bCall EXCEPT ![c] = [bCall[c] EXCEPT !.met = m, !.pc = p]]
    BY <2>1, <2>2
  <2>5. bCall'[c] = [bCall[c] EXCEPT !.met = m, !.pc = p]
    BY <2>3, <2>4
  <2>6. (m => bCall'[c].met) /\ bCall'[c].pc = p
    BY <2>3, <2>5 DEF CallFields
  <2> QED BY <2>1, <2>2, <2>3, <2>4, <2>5, <2>6 DEF Turn, CallFields
<1>4. /\ UNCHANGED <<host, bDo, containers, network, bRows, bEvidence, finding>>
      /\ attempts' = [attempts EXCEPT ![c] = IF bDo[c].kind = "finding" THEN "running" ELSE attempts[c]]
  BY DEF Boxes!Begin, Boxes!engine
<1>5. BoxTypes' /\ OnlyCall(c) /\ Alike(c)
  BY <1>1, <1>2, <1>3, <1>4, BoxFrame, BoxAlike
<1>6. /\ Own(c)' = Own(c) /\ (bDo[c].kind = "finding" => attempts'[c] = "running")
      /\ Swept(c) => Boxes!Sweeping
  BY <1>1, <1>4, SweptSweeps DEF Own, BoxTypes
<1>7. Networks' /\ Confirmed'
  BY <1>1, <1>3, <1>4, <1>5, <1>6, NetKept, ConfirmedKept DEF BoxInv, OnlyCall
<1> USE DEF BoxCall, InOrder, Quiet, Steady, Alike, Early, Working, Back, Final, Boxes!Hit, Boxes!Leave,
      Boxes!Gone
<1>11. InOrder(c)'
  BY <1>1, <1>2, <1>3, <1>4, <1>5, <1>6
<1>12. Tidy(c)'
  BY <1>1, <1>2, <1>3, <1>4, <1>5, <1>6 DEF Tidy, Boxes!Exists
<1>13. Recorded(c)'
  BY <1>1, <1>2, <1>3, <1>4, <1>5, <1>6 DEF Recorded, Boxes!Ended
<1>14. JudgedWell(c)'
  BY <1>1, <1>2, <1>3, <1>4, <1>5, <1>6 DEF JudgedWell, Judged, Boxes!Row, Boxes!Matched, Boxes!Over
<1>15. Undisturbed(c)' /\ SawOwn(c)'
  BY <1>1, <1>2, <1>3, <1>4, <1>5, <1>6 DEF Undisturbed, SawOwn
<1>16. BoxCall(c)'
  BY <1>11, <1>12, <1>13, <1>14, <1>15
<1> QED BY <1>2, <1>5, <1>7, <1>16, BoxKeeps

\* A PoC makes a network of its own.
LEMMA BoxCreatesNetwork ==
    ASSUME BoxInv, NEW c \in Boxes!Live, Boxes!CreateNetwork(c)
    PROVE  BoxInv'
<1>1. bCall[c].pc = "network" /\ bDo[c].own /\ BoxTypes
  BY DEF Boxes!CreateNetwork, Boxes!At, BoxInv
<1>2. ~IsCleanup(c) /\ BoxCall(c)
  BY <1>1 DEF BoxInv, InvOf, Cleaning
<1>3. /\ Turn(c) /\ bCall'[c].pc = "recordNetwork" /\ bCall'[c].raised = bCall[c].raised
      /\ bCall'[c].made = bCall[c].made /\ bCall'[c].ours /\ bCall'[c].saw = bCall[c].saw
      /\ bCall'[c].hit = bCall[c].hit /\ bCall'[c].met = bCall[c].met
  <2>1. bCall' = [bCall EXCEPT ![c] = [bCall[c] EXCEPT !.ours = TRUE, !.pc = "recordNetwork"]]
    BY DEF Boxes!CreateNetwork
  <2>2. c \in DOMAIN bCall /\ DOMAIN bCall[c] = CallFields
    BY <1>1 DEF BoxTypes
  <2>3. bCall'[c] = [bCall[c] EXCEPT !.ours = TRUE, !.pc = "recordNetwork"]
    BY <2>1, <2>2
  <2> QED BY <2>1, <2>2, <2>3 DEF Turn, CallFields
<1>4. /\ UNCHANGED <<host, bDo, containers, bRows, attempts, bEvidence, finding>>
      /\ network' = [network EXCEPT ![Boxes!NetworkOf(c)] = [by |-> c, external |-> bDo[c].external]]
      /\ network' = Boxes!Made(c)
  BY DEF Boxes!CreateNetwork, Boxes!Made, Boxes!tables
<1>5. BoxTypes' /\ OnlyCall(c) /\ Alike(c)
  BY <1>1, <1>2, <1>3, <1>4, BoxFrame, BoxAlike
<1>6. Own(c)' = Own(c) /\ network'[<<c>>].by = c
  BY <1>1, <1>4, NetMade DEF Own, BoxInv, Boxes!NetworkOf
<1>7. Networks' /\ Confirmed'
  BY <1>1, <1>3, <1>4, <1>5, <1>6, NetMade, ConfirmedKept DEF BoxInv, OnlyCall
<1> USE DEF BoxCall, InOrder, Quiet, Steady, Alike, Early, Working, Back, Final, Boxes!Hit, Boxes!Leave,
      Boxes!Gone
<1>11. InOrder(c)'
  BY <1>1, <1>2, <1>3, <1>4, <1>5, <1>6
<1>12. Tidy(c)'
  BY <1>1, <1>2, <1>3, <1>4, <1>5, <1>6 DEF Tidy, Boxes!Exists
<1>13. Recorded(c)'
  BY <1>1, <1>2, <1>3, <1>4, <1>5, <1>6 DEF Recorded, Boxes!Ended
<1>14. JudgedWell(c)'
  BY <1>1, <1>2, <1>3, <1>4, <1>5, <1>6 DEF JudgedWell, Judged, Boxes!Row, Boxes!Matched, Boxes!Over
<1>15. Undisturbed(c)' /\ SawOwn(c)'
  BY <1>1, <1>2, <1>3, <1>4, <1>5, <1>6 DEF Undisturbed, SawOwn
<1>16. BoxCall(c)'
  BY <1>11, <1>12, <1>13, <1>14, <1>15
<1> QED BY <1>2, <1>5, <1>7, <1>16, BoxKeeps

\* create_network looks again, and takes the network of another call or is refused.
LEMMA BoxMakesNetwork ==
    ASSUME BoxInv, NEW c \in Boxes!Live, Boxes!MakeNetwork(c)
    PROVE  BoxInv'
<1>1. bCall[c].pc = "make" /\ BoxTypes
  BY DEF Boxes!MakeNetwork, Boxes!At, BoxInv
<1>2. ~IsCleanup(c) /\ BoxCall(c)
  BY <1>1 DEF BoxInv, InvOf, Cleaning
<1>3. /\ Turn(c) /\ bCall'[c].made = bCall[c].made /\ bCall'[c].saw = bCall[c].saw
      /\ bCall'[c].hit = bCall[c].hit /\ bCall'[c].met = bCall[c].met
      /\ \/ bCall'[c].pc = "recordNetwork" /\ bCall'[c].raised = bCall[c].raised
         \/ bCall'[c].pc = Boxes!Leave(c, "failed") /\ bCall'[c].raised = "failed"
      /\ network' = network \/ network' = Boxes!Made(c)
  <2>1. ~Boxes!InTry(c)
    BY <1>1 DEF Boxes!InTry
  <2>2. c \in DOMAIN bCall /\ DOMAIN bCall[c] = CallFields
    BY <1>1 DEF BoxTypes
  <2>3. CASE bCall' = [bCall EXCEPT ![c] = [bCall[c] EXCEPT !.ours = TRUE, !.pc = "recordNetwork"]]
    <3>1. bCall'[c] = [bCall[c] EXCEPT !.ours = TRUE, !.pc = "recordNetwork"]
      BY <2>2, <2>3
    <3> QED BY <2>2, <2>3, <3>1 DEF Turn, CallFields, Boxes!MakeNetwork
  <2>4. CASE Boxes!Raise(c, "failed")
    BY <1>1, <2>1, <2>4, RaiseFields DEF Steady, Boxes!MakeNetwork
  <2> QED BY <2>3, <2>4 DEF Boxes!MakeNetwork
<1>4. /\ UNCHANGED <<host, bDo, containers, bRows, attempts, bEvidence, finding>>
      /\ \/ network' = network
         \/ network' = [network EXCEPT ![Boxes!NetworkOf(c)] = [by |-> c, external |-> bDo[c].external]]
  BY <1>3 DEF Boxes!MakeNetwork, Boxes!Made, Boxes!tables
<1>5. BoxTypes' /\ OnlyCall(c) /\ Alike(c)
  BY <1>1, <1>2, <1>3, <1>4, BoxFrame, BoxAlike
<1>6. Own(c)' = Own(c)
  BY <1>4 DEF Own
<1>7. Networks' /\ Confirmed'
  BY <1>1, <1>3, <1>4, <1>5, <1>6, NetKept, NetMade, ConfirmedKept DEF BoxInv, OnlyCall
<1> USE DEF BoxCall, InOrder, Quiet, Steady, Alike, Early, Working, Back, Final, Boxes!Hit, Boxes!Leave,
      Boxes!Gone, Boxes!IsService, Boxes!IsPoc
<1>11. InOrder(c)'
  BY <1>1, <1>2, <1>3, <1>4, <1>5, <1>6
<1>12. Tidy(c)'
  BY <1>1, <1>2, <1>3, <1>4, <1>5, <1>6 DEF Tidy, Boxes!Exists
<1>13. Recorded(c)'
  BY <1>1, <1>2, <1>3, <1>4, <1>5, <1>6 DEF Recorded, Boxes!Ended
<1>14. JudgedWell(c)'
  BY <1>1, <1>2, <1>3, <1>4, <1>5, <1>6 DEF JudgedWell, Judged, Boxes!Row, Boxes!Matched, Boxes!Over
<1>15. Undisturbed(c)' /\ SawOwn(c)'
  BY <1>1, <1>2, <1>3, <1>4, <1>5, <1>6 DEF Undisturbed, SawOwn
<1>16. BoxCall(c)'
  BY <1>11, <1>12, <1>13, <1>14, <1>15
<1> QED BY <1>2, <1>5, <1>7, <1>16, BoxKeeps

\* The network gets a row.
LEMMA BoxRecordsNetwork ==
    ASSUME BoxInv, NEW c \in Boxes!Live, Boxes!RecordNetwork(c)
    PROVE  BoxInv'
<1>1. bCall[c].pc = "recordNetwork" /\ BoxTypes
  BY DEF Boxes!RecordNetwork, Boxes!At, BoxInv
<1>2. ~IsCleanup(c) /\ BoxCall(c)
  BY <1>1 DEF BoxInv, InvOf, Cleaning
<1>3. Turn(c) /\ Steady(c) /\ bCall'[c].pc = "pull" /\ bCall'[c].raised = bCall[c].raised
  BY <1>1, GoFields DEF Boxes!RecordNetwork
<1>4. UNCHANGED <<host, bDo, containers, network, bRows, attempts, bEvidence, finding>>
  BY DEF Boxes!RecordNetwork, Boxes!engine, Boxes!tables
<1>5. /\ BoxTypes' /\ OnlyCall(c) /\ Networks' /\ Confirmed' /\ Alike(c)
      /\ Boxes!Gone(c)' = Boxes!Gone(c) /\ Own(c)' = Own(c) /\ \A n : Boxes!Exists(n)' = Boxes!Exists(n)
  BY <1>2, <1>3, <1>4, BoxWalk
<1> USE DEF BoxCall, InOrder, Quiet, Steady, Alike, Early, Working, Back, Final, Boxes!Hit, Boxes!Leave
<1>11. InOrder(c)'
  BY <1>1, <1>2, <1>3, <1>4, <1>5
<1>12. Tidy(c)'
  BY <1>1, <1>2, <1>3, <1>4, <1>5 DEF Tidy
<1>13. Recorded(c)'
  BY <1>1, <1>2, <1>3, <1>4, <1>5 DEF Recorded, Boxes!Ended
<1>14. JudgedWell(c)'
  BY <1>1, <1>2, <1>3, <1>4, <1>5 DEF JudgedWell, Judged, Boxes!Row, Boxes!Matched, Boxes!Over
<1>15. Undisturbed(c)' /\ SawOwn(c)'
  BY <1>1, <1>2, <1>3, <1>4, <1>5 DEF Undisturbed, SawOwn
<1>16. BoxCall(c)'
  BY <1>11, <1>12, <1>13, <1>14, <1>15
<1> QED BY <1>2, <1>5, <1>16, BoxKeeps

\* The engine creates a container, or finds that its network is gone.
LEMMA BoxCreatesContainer ==
    ASSUME BoxInv, NEW c \in Boxes!Live, Boxes!CreateContainer(c)
    PROVE  BoxInv'
<1>1. bCall[c].pc = "create" /\ BoxTypes
  BY DEF Boxes!CreateContainer, Boxes!At, BoxInv
<1>2. ~IsCleanup(c) /\ BoxCall(c)
  BY <1>1 DEF BoxInv, InvOf, Cleaning
<1>3. /\ Turn(c) /\ bCall'[c].ours = bCall[c].ours /\ bCall'[c].saw = bCall[c].saw
      /\ bCall'[c].hit = bCall[c].hit /\ bCall'[c].met = bCall[c].met
      /\ \/ /\ bCall'[c].pc = "record" /\ bCall'[c].raised = bCall[c].raised /\ bCall'[c].made
            /\ containers' = [containers EXCEPT ![c] = [state |-> "created", on |-> network[Boxes!NetworkOf(c)].by]]
         \/ /\ bCall'[c].pc = Boxes!AfterContainer(c, "failed") /\ bCall'[c].raised = "failed" /\ ~bCall'[c].made
            /\ ~Boxes!Exists(Boxes!NetworkOf(c)) /\ containers' = containers
  <2>1. Boxes!InTry(c) /\ ~bCall[c].made
    BY <1>1, <1>2 DEF Boxes!InTry, BoxCall, InOrder, Early
  <2>2. c \in DOMAIN bCall /\ DOMAIN bCall[c] = CallFields
    BY <1>1 DEF BoxTypes
  <2>3. CASE /\ bCall' = [bCall EXCEPT ![c] = [bCall[c] EXCEPT !.made = TRUE, !.pc = "record"]]
             /\ containers' = [containers EXCEPT ![c] = [state |-> "created", on |-> network[Boxes!NetworkOf(c)].by]]
    <3>1. bCall'[c] = [bCall[c] EXCEPT !.made = TRUE, !.pc = "record"]
      BY <2>2, <2>3
    <3> QED BY <2>2, <2>3, <3>1 DEF Turn, CallFields
  <2>4. CASE ~Boxes!Exists(Boxes!NetworkOf(c)) /\ Boxes!Raise(c, "failed") /\ containers' = containers
    BY <1>1, <2>1, <2>4, RaiseFields DEF Steady, Boxes!Undo
  <2> QED BY <2>3, <2>4 DEF Boxes!CreateContainer
<1>4. UNCHANGED <<host, bDo, network, bRows, attempts, bEvidence, finding>>
  BY DEF Boxes!CreateContainer, Boxes!tables
<1>5. BoxTypes' /\ OnlyCall(c) /\ Alike(c)
  BY <1>1, <1>2, <1>3, <1>4, BoxFrame, BoxAlike
<1>6. /\ Own(c)' = Own(c) /\ c # 0
      /\ bCall'[c].pc = "record" \/ containers' # containers =>
           containers'[c].state = "created" /\ containers'[c].on = network[Boxes!NetworkOf(c)].by
  <2>1. c # 0
    BY <1>1, BoxLive
  <2>2. c \in DOMAIN containers
    BY <1>1 DEF BoxTypes
  <2> QED BY <1>3, <1>4, <2>1, <2>2 DEF Own, Boxes!AfterContainer, Boxes!Leave
<1>7. Networks' /\ Confirmed'
  BY <1>1, <1>3, <1>4, <1>5, <1>6, NetKept, ConfirmedKept DEF BoxInv, OnlyCall
<1> USE DEF BoxCall, InOrder, Quiet, Steady, Alike, Early, Working, Back, Final, Boxes!Hit, Boxes!Leave,
      Boxes!Gone, Boxes!IsService, Boxes!IsPoc, Boxes!Undo, Boxes!AfterContainer, Boxes!NetworkOf, Boxes!Exists
<1>11. InOrder(c)'
  BY <1>1, <1>2, <1>3, <1>4, <1>5, <1>6
<1>12. Tidy(c)'
  BY <1>1, <1>2, <1>3, <1>4, <1>5, <1>6 DEF Tidy, Boxes!Exists
<1>13. Recorded(c)'
  BY <1>1, <1>2, <1>3, <1>4, <1>5, <1>6 DEF Recorded, Boxes!Ended
<1>14. JudgedWell(c)'
  BY <1>1, <1>2, <1>3, <1>4, <1>5, <1>6 DEF JudgedWell, Judged, Boxes!Row, Boxes!Matched, Boxes!Over
<1>15. Undisturbed(c)' /\ SawOwn(c)'
  BY <1>1, <1>2, <1>3, <1>4, <1>5, <1>6 DEF Undisturbed, SawOwn
<1>16. BoxCall(c)'
  BY <1>11, <1>12, <1>13, <1>14, <1>15
<1> QED BY <1>2, <1>5, <1>7, <1>16, BoxKeeps

\* The container gets a row.
LEMMA BoxRecordsContainer ==
    ASSUME BoxInv, NEW c \in Boxes!Live, Boxes!RecordContainer(c)
    PROVE  BoxInv'
<1>1. bCall[c].pc = "record" /\ BoxTypes
  BY DEF Boxes!RecordContainer, Boxes!At, BoxInv
<1>2. ~IsCleanup(c) /\ BoxCall(c)
  BY <1>1 DEF BoxInv, InvOf, Cleaning
<1>3. Turn(c) /\ Steady(c) /\ bCall'[c].pc = "start" /\ bCall'[c].raised = bCall[c].raised
  BY <1>1, GoFields DEF Boxes!RecordContainer
<1>4. /\ UNCHANGED <<host, bDo, containers, network, attempts, bEvidence, finding>>
      /\ bRows' = [bRows EXCEPT ![c] = "created"]
  BY DEF Boxes!RecordContainer, Boxes!engine
<1>5. BoxTypes' /\ OnlyCall(c) /\ Alike(c)
  BY <1>1, <1>2, <1>3, <1>4, BoxFrame, BoxAlike
<1>6. Own(c)' = Own(c) /\ bRows'[c] = "created"
  BY <1>1, <1>4 DEF Own, BoxTypes
<1>7. Networks' /\ Confirmed'
  BY <1>1, <1>3, <1>4, <1>5, <1>6, NetKept, ConfirmedKept DEF BoxInv, OnlyCall
<1> USE DEF BoxCall, InOrder, Quiet, Steady, Alike, Early, Working, Back, Final, Boxes!Hit, Boxes!Leave,
      Boxes!Gone
<1>11. InOrder(c)'
  BY <1>1, <1>2, <1>3, <1>4, <1>5, <1>6
<1>12. Tidy(c)'
  BY <1>1, <1>2, <1>3, <1>4, <1>5, <1>6 DEF Tidy, Boxes!Exists
<1>13. Recorded(c)'
  BY <1>1, <1>2, <1>3, <1>4, <1>5, <1>6 DEF Recorded, Boxes!Ended
<1>14. JudgedWell(c)'
  BY <1>1, <1>2, <1>3, <1>4, <1>5, <1>6 DEF JudgedWell, Judged, Boxes!Row, Boxes!Matched, Boxes!Over
<1>15. Undisturbed(c)' /\ SawOwn(c)'
  BY <1>1, <1>2, <1>3, <1>4, <1>5, <1>6 DEF Undisturbed, SawOwn
<1>16. BoxCall(c)'
  BY <1>11, <1>12, <1>13, <1>14, <1>15
<1> QED BY <1>2, <1>5, <1>7, <1>16, BoxKeeps
\* The engine starts a container that is there, on a network that is.
LEMMA BoxStarts ==
    ASSUME BoxInv, NEW c \in Boxes!Live, Boxes!StartContainer(c)
    PROVE  BoxInv'
<1>1. bCall[c].pc = "start" /\ BoxTypes
  BY DEF Boxes!StartContainer, Boxes!At, BoxInv
<1>2. ~IsCleanup(c) /\ BoxCall(c)
  BY <1>1 DEF BoxInv, InvOf, Cleaning
<1>3. /\ Turn(c) /\ Steady(c)
      /\ \/ /\ bCall'[c].pc = "mark" /\ bCall'[c].raised = bCall[c].raised /\ Boxes!Startable(c)
            /\ containers' = [containers EXCEPT ![c] = [containers[c] EXCEPT !.state = "running"]]
         \/ /\ bCall'[c].pc = Boxes!Undo(c, "failed") /\ bCall'[c].raised = "failed"
            /\ ~Boxes!Startable(c) \/ Boxes!Replaced(c)
            /\ containers' = containers
  <2>1. Boxes!InTry(c)
    BY <1>1 DEF Boxes!InTry
  <2>2. CASE /\ Boxes!Startable(c) /\ Boxes!GoTo(c, "mark")
             /\ containers' = [containers EXCEPT ![c].state = "running"]
    BY <1>1, <2>2, GoFields
  <2>3. CASE /\ ~Boxes!Startable(c) \/ Boxes!Replaced(c)
             /\ Boxes!Raise(c, "failed") /\ containers' = containers
    BY <1>1, <2>1, <2>3, RaiseFields
  <2> QED BY <2>2, <2>3 DEF Boxes!StartContainer
<1>4. /\ UNCHANGED <<host, bDo, network, bRows, attempts, bEvidence, finding>>
      /\ \/ containers' = containers
         \/ \E x : DOMAIN x = {"state", "on"} /\ containers' = [containers EXCEPT ![c] = x]
  <2>1. containers' = containers \/ containers' = [containers EXCEPT ![c] = [containers[c] EXCEPT !.state = "running"]]
    BY <1>3
  <2>2. DOMAIN containers[c] = {"state", "on"}
    BY <1>1 DEF BoxTypes
  <2>3. DOMAIN [containers[c] EXCEPT !.state = "running"] = {"state", "on"}
    BY <2>2
  <2> QED BY <2>1, <2>3 DEF Boxes!StartContainer, Boxes!tables
<1>5. BoxTypes' /\ OnlyCall(c) /\ Alike(c)
  BY <1>1, <1>2, <1>3, <1>4, BoxFrame, BoxAlike
<1>6. /\ Own(c)' = Own(c) /\ c # 0
      /\ \/ bCall'[c].pc = "mark" /\ Boxes!Startable(c) /\ containers'[c].state = "running"
         \/ containers' = containers /\ (~Boxes!Startable(c) \/ Boxes!Replaced(c))
  <2>1. c \in DOMAIN containers /\ DOMAIN containers[c] = {"state", "on"}
    BY <1>1 DEF BoxTypes
  <2>2. c # 0
    BY <1>1, BoxLive
  <2> QED BY <1>3, <1>4, <2>1, <2>2 DEF Own
<1>7. Networks' /\ Confirmed'
  BY <1>1, <1>3, <1>4, <1>5, <1>6, NetKept, ConfirmedKept DEF BoxInv, OnlyCall, Boxes!Startable
<1> USE DEF BoxCall, InOrder, Quiet, Steady, Alike, Early, Working, Back, Final, Boxes!Hit, Boxes!Leave,
      Boxes!Gone, Boxes!IsService, Boxes!IsPoc, Boxes!Undo, Boxes!AfterContainer, Boxes!NetworkOf,
      Boxes!Exists, Boxes!Startable, Boxes!Replaced
<1>11. InOrder(c)'
  BY <1>1, <1>2, <1>3, <1>4, <1>5, <1>6
<1>12. Tidy(c)'
  BY <1>1, <1>2, <1>3, <1>4, <1>5, <1>6 DEF Tidy, Boxes!Exists
<1>13. Recorded(c)'
  BY <1>1, <1>2, <1>3, <1>4, <1>5, <1>6 DEF Recorded, Boxes!Ended
<1>14. JudgedWell(c)'
  BY <1>1, <1>2, <1>3, <1>4, <1>5, <1>6 DEF JudgedWell, Judged, Boxes!Row, Boxes!Matched, Boxes!Over
<1>15. Undisturbed(c)' /\ SawOwn(c)'
  BY <1>1, <1>2, <1>3, <1>4, <1>5, <1>6 DEF Undisturbed, SawOwn
<1>16. BoxCall(c)'
  BY <1>11, <1>12, <1>13, <1>14, <1>15
<1> QED BY <1>2, <1>5, <1>7, <1>16, BoxKeeps

\* The row of a container that was started is marked.
LEMMA BoxMarksStarted ==
    ASSUME BoxInv, NEW c \in Boxes!Live, Boxes!MarkStarted(c)
    PROVE  BoxInv'
<1>1. bCall[c].pc = "mark" /\ BoxTypes
  BY DEF Boxes!MarkStarted, Boxes!At, BoxInv
<1>2. ~IsCleanup(c) /\ BoxCall(c)
  BY <1>1 DEF BoxInv, InvOf, Cleaning
<1>3. Turn(c) /\ Steady(c) /\ bCall'[c].pc = "wait" /\ bCall'[c].raised = bCall[c].raised
  BY <1>1, GoFields DEF Boxes!MarkStarted
<1>4. /\ UNCHANGED <<host, bDo, containers, network, attempts, bEvidence, finding>>
      /\ bRows' = [bRows EXCEPT ![c] = IF bRows[c] = "none" THEN "none" ELSE IF Boxes!IsService(c) THEN "starting" ELSE "running"]
  BY DEF Boxes!MarkStarted, Boxes!Marked, Boxes!engine
<1>5. BoxTypes' /\ OnlyCall(c) /\ Alike(c)
  BY <1>1, <1>2, <1>3, <1>4, BoxFrame, BoxAlike
<1>6. Own(c)' = Own(c) /\ bRows'[c] = IF bRows[c] = "none" THEN "none" ELSE IF Boxes!IsService(c) THEN "starting" ELSE "running"
  BY <1>1, <1>4 DEF Own, BoxTypes
<1>7. Networks' /\ Confirmed'
  BY <1>1, <1>3, <1>4, <1>5, <1>6, NetKept, ConfirmedKept DEF BoxInv, OnlyCall
<1> USE DEF BoxCall, InOrder, Quiet, Steady, Alike, Early, Working, Back, Final, Boxes!Hit, Boxes!Leave,
      Boxes!Gone
<1>11. InOrder(c)'
  BY <1>1, <1>2, <1>3, <1>4, <1>5, <1>6
<1>12. Tidy(c)'
  BY <1>1, <1>2, <1>3, <1>4, <1>5, <1>6 DEF Tidy, Boxes!Exists
<1>13. Recorded(c)'
  BY <1>1, <1>2, <1>3, <1>4, <1>5, <1>6 DEF Recorded, Boxes!Ended
<1>14. JudgedWell(c)'
  BY <1>1, <1>2, <1>3, <1>4, <1>5, <1>6 DEF JudgedWell, Judged, Boxes!Row, Boxes!Matched, Boxes!Over
<1>15. Undisturbed(c)' /\ SawOwn(c)'
  BY <1>1, <1>2, <1>3, <1>4, <1>5, <1>6 DEF Undisturbed, SawOwn
<1>16. BoxCall(c)'
  BY <1>11, <1>12, <1>13, <1>14, <1>15
<1> QED BY <1>2, <1>5, <1>7, <1>16, BoxKeeps

\* A PoC ends, is stopped, or its container is gone.
LEMMA BoxWaits ==
    ASSUME BoxInv, NEW c \in Boxes!Live, Boxes!WaitForExit(c)
    PROVE  BoxInv'
<1>1. bCall[c].pc = "wait" /\ Boxes!IsPoc(c) /\ BoxTypes
  BY DEF Boxes!WaitForExit, Boxes!At, BoxInv
<1>2. ~IsCleanup(c) /\ BoxCall(c)
  BY <1>1 DEF BoxInv, InvOf, Cleaning
<1>3. /\ Turn(c) /\ bCall'[c].made = bCall[c].made /\ bCall'[c].ours = bCall[c].ours /\ bCall'[c].saw = bCall[c].saw
      /\ bCall'[c].hit = bCall[c].hit /\ bCall'[c].met = bCall[c].met
      /\ \/ /\ bCall'[c].pc = "markEnd" /\ bCall'[c].raised = bCall[c].raised /\ containers[c].state # "none"
            /\ bCall'[c].exit \in {"0", "1", "timeout"}
            /\ \/ containers' = containers
               \/ containers' = [containers EXCEPT ![c] = [containers[c] EXCEPT !.state = "exited"]]
         \/ /\ bCall'[c].pc = Boxes!Undo(c, "failed") /\ bCall'[c].raised = "failed"
            /\ containers[c].state = "none" /\ containers' = containers
  <2>1. Boxes!InTry(c)
    BY <1>1 DEF Boxes!InTry
  <2>2. c \in DOMAIN bCall /\ DOMAIN bCall[c] = CallFields
    BY <1>1 DEF BoxTypes
  <2>3. CASE Boxes!Gone(c)
    BY <1>1, <2>1, <2>3, RaiseFields DEF Boxes!WaitForExit, Steady, Boxes!Gone
  <2>4. CASE ~Boxes!Gone(c)
    <3>1. PICK exit \in {"0", "1", "timeout"} :
            bCall' = [bCall EXCEPT ![c] = [bCall[c] EXCEPT !.exit = exit, !.pc = "markEnd"]]
      BY <2>4 DEF Boxes!WaitForExit
    <3>2. \/ containers' = containers
          \/ containers' = [containers EXCEPT ![c] = [containers[c] EXCEPT !.state = "exited"]]
      BY <2>4 DEF Boxes!WaitForExit
    <3>3. bCall'[c] = [bCall[c] EXCEPT !.exit = exit, !.pc = "markEnd"]
      BY <2>2, <3>1
    <3> QED BY <2>2, <2>4, <3>1, <3>2, <3>3 DEF Turn, CallFields, Boxes!Gone
  <2> QED BY <2>3, <2>4
<1>4. /\ UNCHANGED <<host, bDo, network, bRows, attempts, bEvidence, finding>>
      /\ \/ containers' = containers
         \/ \E x : DOMAIN x = {"state", "on"} /\ containers' = [containers EXCEPT ![c] = x]
  <2>1. containers' = containers \/ containers' = [containers EXCEPT ![c] = [containers[c] EXCEPT !.state = "exited"]]
    BY <1>3
  <2>2. DOMAIN containers[c] = {"state", "on"}
    BY <1>1 DEF BoxTypes
  <2>3. DOMAIN [containers[c] EXCEPT !.state = "exited"] = {"state", "on"}
    BY <2>2
  <2> QED BY <2>1, <2>3 DEF Boxes!WaitForExit, Boxes!tables
<1>5. BoxTypes' /\ OnlyCall(c) /\ Alike(c)
  BY <1>1, <1>2, <1>3, <1>4, BoxFrame, BoxAlike
<1>6. /\ Own(c)' = Own(c) /\ c # 0
      /\ containers'[c].state = containers[c].state \/ containers'[c].state = "exited"
      /\ bCall'[c].pc = "markEnd" => containers'[c].state # "none"
      /\ bCall'[c].pc # "markEnd" => containers' = containers
  <2>1. c \in DOMAIN containers /\ DOMAIN containers[c] = {"state", "on"}
    BY <1>1 DEF BoxTypes
  <2>2. c # 0
    BY <1>1, BoxLive
  <2> QED BY <1>3, <1>4, <2>1, <2>2 DEF Own, Boxes!Undo, Boxes!AfterContainer, Boxes!Leave
<1>7. Networks' /\ Confirmed'
  BY <1>1, <1>3, <1>4, <1>5, <1>6, NetKept, ConfirmedKept DEF BoxInv, OnlyCall
<1> USE DEF BoxCall, InOrder, Quiet, Steady, Alike, Early, Working, Back, Final, Boxes!Hit, Boxes!Leave,
      Boxes!Gone, Boxes!IsService, Boxes!IsPoc, Boxes!Undo, Boxes!AfterContainer, Boxes!NetworkOf, Boxes!Exists
<1>11. InOrder(c)'
  BY <1>1, <1>2, <1>3, <1>4, <1>5, <1>6
<1>12. Tidy(c)'
  BY <1>1, <1>2, <1>3, <1>4, <1>5, <1>6 DEF Tidy, Boxes!Exists
<1>13. Recorded(c)'
  BY <1>1, <1>2, <1>3, <1>4, <1>5, <1>6 DEF Recorded, Boxes!Ended
<1>14. JudgedWell(c)'
  BY <1>1, <1>2, <1>3, <1>4, <1>5, <1>6 DEF JudgedWell, Judged, Boxes!Row, Boxes!Matched, Boxes!Over
<1>15. Undisturbed(c)' /\ SawOwn(c)'
  BY <1>1, <1>2, <1>3, <1>4, <1>5, <1>6 DEF Undisturbed, SawOwn, Recorded
<1>16. BoxCall(c)'
  BY <1>11, <1>12, <1>13, <1>14, <1>15
<1> QED BY <1>2, <1>5, <1>7, <1>16, BoxKeeps

\* The row of a PoC tells how it ended.
LEMMA BoxMarksEnd ==
    ASSUME BoxInv, NEW c \in Boxes!Live, Boxes!MarkEnd(c)
    PROVE  BoxInv'
<1>1. bCall[c].pc = "markEnd" /\ BoxTypes
  BY DEF Boxes!MarkEnd, Boxes!At, BoxInv
<1>2. ~IsCleanup(c) /\ BoxCall(c)
  BY <1>1 DEF BoxInv, InvOf, Cleaning
<1>3. Turn(c) /\ Steady(c) /\ bCall'[c].pc = Boxes!Undo(c, "no") /\ bCall'[c].raised = bCall[c].raised
  <2>1. PICK p : p = Boxes!Undo(c, "no")
    OBVIOUS
  <2>2. Boxes!GoTo(c, p)
    BY <2>1 DEF Boxes!MarkEnd
  <2> QED BY <1>1, <2>1, <2>2, GoFields
<1>4. /\ UNCHANGED <<host, bDo, containers, network, attempts, bEvidence, finding>>
      /\ \E word \in {"completed", "failed", "timeout"} :
           bRows' = [bRows EXCEPT ![c] = IF bRows[c] = "none" THEN "none" ELSE word]
  <2>1. bCall[c].exit \in {"0", "1", "timeout"}
    BY <1>1, <1>2 DEF BoxCall, InOrder
  <2>2. PICK word \in {"completed", "failed", "timeout"} : word = Boxes!PocStatus(bCall[c].exit)
    BY <2>1 DEF Boxes!PocStatus
  <2> QED BY <2>2 DEF Boxes!MarkEnd, Boxes!Marked, Boxes!engine
<1>5. BoxTypes' /\ OnlyCall(c) /\ Alike(c)
  BY <1>1, <1>2, <1>3, <1>4, BoxFrame, BoxAlike
<1>6. Own(c)' = Own(c) /\ bRows'[c] \in {"completed", "failed", "timeout"} \cup IF bRows[c] = "none" THEN {"none"} ELSE {}
  BY <1>1, <1>4 DEF Own, BoxTypes
<1>7. Networks' /\ Confirmed'
  BY <1>1, <1>3, <1>4, <1>5, <1>6, NetKept, ConfirmedKept DEF BoxInv, OnlyCall
<1> USE DEF BoxCall, InOrder, Quiet, Steady, Alike, Early, Working, Back, Final, Boxes!Hit, Boxes!Leave,
      Boxes!Gone, Boxes!IsService, Boxes!IsPoc, Boxes!Undo, Boxes!AfterContainer, Boxes!NetworkOf, Boxes!Exists
<1>11. InOrder(c)'
  BY <1>1, <1>2, <1>3, <1>4, <1>5, <1>6
<1>12. Tidy(c)'
  BY <1>1, <1>2, <1>3, <1>4, <1>5, <1>6 DEF Tidy, Boxes!Exists
<1>13. Recorded(c)'
  BY <1>1, <1>2, <1>3, <1>4, <1>5, <1>6 DEF Recorded, Boxes!Ended
<1>14. JudgedWell(c)'
  BY <1>1, <1>2, <1>3, <1>4, <1>5, <1>6 DEF JudgedWell, Judged, Boxes!Row, Boxes!Matched, Boxes!Over
<1>15. Undisturbed(c)' /\ SawOwn(c)'
  BY <1>1, <1>2, <1>3, <1>4, <1>5, <1>6 DEF Undisturbed, SawOwn
<1>16. BoxCall(c)'
  BY <1>11, <1>12, <1>13, <1>14, <1>15
<1> QED BY <1>2, <1>5, <1>7, <1>16, BoxKeeps
\* A service becomes healthy, ends before, or takes too long.
LEMMA BoxAwaitsHealth ==
    ASSUME BoxInv, NEW c \in Boxes!Live, Boxes!WaitForHealthy(c)
    PROVE  BoxInv'
<1>1. bCall[c].pc = "wait" /\ Boxes!IsService(c) /\ BoxTypes
  BY DEF Boxes!WaitForHealthy, Boxes!At, BoxInv
<1>2. ~IsCleanup(c) /\ BoxCall(c)
  BY <1>1 DEF BoxInv, InvOf, Cleaning
<1>3. /\ Turn(c) /\ Steady(c)
      /\ \/ /\ bCall'[c].pc = "markRunning" /\ bCall'[c].raised = bCall[c].raised /\ containers' = containers
         \/ /\ bCall'[c].pc = Boxes!Undo(c, "failed") /\ bCall'[c].raised = "failed"
            /\ \/ containers' = containers
               \/ /\ containers[c].state # "none"
                  /\ containers' = [containers EXCEPT ![c] = [containers[c] EXCEPT !.state = "exited"]]
  <2>1. Boxes!InTry(c)
    BY <1>1 DEF Boxes!InTry
  <2>2. CASE Boxes!GoTo(c, "markRunning") /\ containers' = containers
    BY <1>1, <2>2, GoFields
  <2>3. CASE /\ Boxes!Raise(c, "failed")
             /\ \/ containers' = containers
                \/ /\ ~Boxes!Gone(c)
                   /\ containers' = [containers EXCEPT ![c] = [containers[c] EXCEPT !.state = "exited"]]
    BY <1>1, <2>1, <2>3, RaiseFields DEF Boxes!Gone
  <2> QED BY <2>2, <2>3 DEF Boxes!WaitForHealthy
<1>4. /\ UNCHANGED <<host, bDo, network, bRows, attempts, bEvidence, finding>>
      /\ \/ containers' = containers
         \/ \E x : DOMAIN x = {"state", "on"} /\ containers' = [containers EXCEPT ![c] = x]
  <2>1. containers' = containers \/ containers' = [containers EXCEPT ![c] = [containers[c] EXCEPT !.state = "exited"]]
    BY <1>3
  <2>2. DOMAIN containers[c] = {"state", "on"}
    BY <1>1 DEF BoxTypes
  <2>3. DOMAIN [containers[c] EXCEPT !.state = "exited"] = {"state", "on"}
    BY <2>2
  <2> QED BY <2>1, <2>3 DEF Boxes!WaitForHealthy, Boxes!tables
<1>5. BoxTypes' /\ OnlyCall(c) /\ Alike(c)
  BY <1>1, <1>2, <1>3, <1>4, BoxFrame, BoxAlike
<1>6. /\ Own(c)' = Own(c) /\ c # 0
      /\ \/ containers'[c].state = containers[c].state
         \/ containers'[c].state = "exited" /\ containers[c].state # "none"
  <2>1. c \in DOMAIN containers /\ DOMAIN containers[c] = {"state", "on"}
    BY <1>1 DEF BoxTypes
  <2>2. c # 0
    BY <1>1, BoxLive
  <2> QED BY <1>3, <1>4, <2>1, <2>2 DEF Own
<1>7. Networks' /\ Confirmed'
  BY <1>1, <1>3, <1>4, <1>5, <1>6, NetKept, ConfirmedKept DEF BoxInv, OnlyCall
<1> USE DEF BoxCall, InOrder, Quiet, Steady, Alike, Early, Working, Back, Final, Boxes!Hit, Boxes!Leave,
      Boxes!Gone, Boxes!IsService, Boxes!IsPoc, Boxes!Undo, Boxes!AfterContainer, Boxes!NetworkOf, Boxes!Exists
<1>11. InOrder(c)'
  BY <1>1, <1>2, <1>3, <1>4, <1>5, <1>6
<1>12. Tidy(c)'
  BY <1>1, <1>2, <1>3, <1>4, <1>5, <1>6 DEF Tidy, Boxes!Exists
<1>13. Recorded(c)'
  BY <1>1, <1>2, <1>3, <1>4, <1>5, <1>6 DEF Recorded, Boxes!Ended
<1>14. JudgedWell(c)'
  BY <1>1, <1>2, <1>3, <1>4, <1>5, <1>6 DEF JudgedWell, Judged, Boxes!Row, Boxes!Matched, Boxes!Over
<1>15. Undisturbed(c)' /\ SawOwn(c)'
  BY <1>1, <1>2, <1>3, <1>4, <1>5, <1>6 DEF Undisturbed, SawOwn
<1>16. BoxCall(c)'
  BY <1>11, <1>12, <1>13, <1>14, <1>15
<1> QED BY <1>2, <1>5, <1>7, <1>16, BoxKeeps

\* The row of a service that is healthy is marked.
LEMMA BoxMarksRunning ==
    ASSUME BoxInv, NEW c \in Boxes!Live, Boxes!MarkRunning(c)
    PROVE  BoxInv'
<1>1. bCall[c].pc = "markRunning" /\ BoxTypes
  BY DEF Boxes!MarkRunning, Boxes!At, BoxInv
<1>2. ~IsCleanup(c) /\ BoxCall(c)
  BY <1>1 DEF BoxInv, InvOf, Cleaning
<1>3. Turn(c) /\ Steady(c) /\ bCall'[c].pc = "answered" /\ bCall'[c].raised = bCall[c].raised
  BY <1>1, GoFields DEF Boxes!MarkRunning
<1>4. /\ UNCHANGED <<host, bDo, containers, network, attempts, bEvidence, finding>>
      /\ bRows' = [bRows EXCEPT ![c] = IF bRows[c] = "none" THEN "none" ELSE "running"]
  BY DEF Boxes!MarkRunning, Boxes!Marked, Boxes!engine
<1>5. BoxTypes' /\ OnlyCall(c) /\ Alike(c)
  BY <1>1, <1>2, <1>3, <1>4, BoxFrame, BoxAlike
<1>6. Own(c)' = Own(c) /\ bRows'[c] = IF bRows[c] = "none" THEN "none" ELSE "running"
  BY <1>1, <1>4 DEF Own, BoxTypes
<1>7. Networks' /\ Confirmed'
  BY <1>1, <1>3, <1>4, <1>5, <1>6, NetKept, ConfirmedKept DEF BoxInv, OnlyCall
<1> USE DEF BoxCall, InOrder, Quiet, Steady, Alike, Early, Working, Back, Final, Boxes!Hit, Boxes!Leave,
      Boxes!Gone, Boxes!IsService, Boxes!IsPoc
<1>11. InOrder(c)'
  BY <1>1, <1>2, <1>3, <1>4, <1>5, <1>6
<1>12. Tidy(c)'
  BY <1>1, <1>2, <1>3, <1>4, <1>5, <1>6 DEF Tidy, Boxes!Exists
<1>13. Recorded(c)'
  BY <1>1, <1>2, <1>3, <1>4, <1>5, <1>6 DEF Recorded, Boxes!Ended
<1>14. JudgedWell(c)'
  BY <1>1, <1>2, <1>3, <1>4, <1>5, <1>6 DEF JudgedWell, Judged, Boxes!Row, Boxes!Matched, Boxes!Over
<1>15. Undisturbed(c)' /\ SawOwn(c)'
  BY <1>1, <1>2, <1>3, <1>4, <1>5, <1>6 DEF Undisturbed, SawOwn
<1>16. BoxCall(c)'
  BY <1>11, <1>12, <1>13, <1>14, <1>15
<1> QED BY <1>2, <1>5, <1>7, <1>16, BoxKeeps

\* The program of a service ends.
LEMMA BoxServiceExits ==
    ASSUME BoxInv, NEW c \in Boxes!Live, Boxes!ServiceExits(c)
    PROVE  BoxInv'
<1>1. bCall[c].pc = "answered" /\ Boxes!IsService(c) /\ containers[c].state = "running" /\ BoxTypes
  BY DEF Boxes!ServiceExits, Boxes!At, BoxInv
<1>2. ~IsCleanup(c) /\ BoxCall(c)
  BY <1>1 DEF BoxInv, InvOf, IsCleanup, Boxes!IsService
<1>3. Turn(c) /\ Steady(c) /\ bCall' = bCall /\ containers' = [containers EXCEPT ![c] = [containers[c] EXCEPT !.state = "exited"]]
  <2>1. bCall' = bCall
    BY DEF Boxes!ServiceExits
  <2>2. containers' = [containers EXCEPT ![c] = [containers[c] EXCEPT !.state = "exited"]]
    BY DEF Boxes!ServiceExits
  <2>3. DOMAIN bCall[c] = CallFields
    BY <1>1 DEF BoxTypes
  <2> QED BY <2>1, <2>2, <2>3 DEF Turn, Steady
<1>4. /\ UNCHANGED <<host, bDo, network, bRows, attempts, bEvidence, finding>>
      /\ \/ containers' = containers
         \/ \E x : DOMAIN x = {"state", "on"} /\ containers' = [containers EXCEPT ![c] = x]
  <2>1. containers' = containers \/ containers' = [containers EXCEPT ![c] = [containers[c] EXCEPT !.state = "exited"]]
    BY <1>3
  <2>2. DOMAIN containers[c] = {"state", "on"}
    BY <1>1 DEF BoxTypes
  <2>3. DOMAIN [containers[c] EXCEPT !.state = "exited"] = {"state", "on"}
    BY <2>2
  <2> QED BY <2>1, <2>3 DEF Boxes!ServiceExits, Boxes!tables
<1>5. BoxTypes' /\ OnlyCall(c) /\ Alike(c)
  BY <1>1, <1>2, <1>3, <1>4, BoxFrame, BoxAlike
<1>6. /\ Own(c)' = Own(c) /\ c # 0
      /\ containers'[c].state = "exited"
  <2>1. c \in DOMAIN containers /\ DOMAIN containers[c] = {"state", "on"}
    BY <1>1 DEF BoxTypes
  <2>2. c # 0
    BY <1>1, BoxLive
  <2> QED BY <1>3, <1>4, <2>1, <2>2 DEF Own
<1>7. Networks' /\ Confirmed'
  BY <1>1, <1>3, <1>4, <1>5, <1>6, NetKept, ConfirmedKept DEF BoxInv, OnlyCall
<1> USE DEF BoxCall, InOrder, Quiet, Steady, Alike, Early, Working, Back, Final, Boxes!Hit, Boxes!Leave,
      Boxes!Gone, Boxes!IsService, Boxes!IsPoc
<1>11. InOrder(c)'
  BY <1>1, <1>2, <1>3, <1>4, <1>5, <1>6
<1>12. Tidy(c)'
  BY <1>1, <1>2, <1>3, <1>4, <1>5, <1>6 DEF Tidy, Boxes!Exists
<1>13. Recorded(c)'
  BY <1>1, <1>2, <1>3, <1>4, <1>5, <1>6 DEF Recorded, Boxes!Ended
<1>14. JudgedWell(c)'
  BY <1>1, <1>2, <1>3, <1>4, <1>5, <1>6 DEF JudgedWell, Judged, Boxes!Row, Boxes!Matched, Boxes!Over
<1>15. Undisturbed(c)' /\ SawOwn(c)'
  BY <1>1, <1>2, <1>3, <1>4, <1>5, <1>6 DEF Undisturbed, SawOwn
<1>16. BoxCall(c)'
  BY <1>11, <1>12, <1>13, <1>14, <1>15
<1> QED BY <1>2, <1>5, <1>7, <1>16, BoxKeeps

\* The row of a service that failed is marked.
LEMMA BoxMarksFailed ==
    ASSUME BoxInv, NEW c \in Boxes!Live, Boxes!MarkFailed(c)
    PROVE  BoxInv'
<1>1. bCall[c].pc = "markFailed" /\ BoxTypes
  BY DEF Boxes!MarkFailed, Boxes!At, BoxInv
<1>2. ~IsCleanup(c) /\ BoxCall(c)
  BY <1>1 DEF BoxInv, InvOf, Cleaning
<1>3. /\ Turn(c) /\ Steady(c) /\ bCall'[c].raised = bCall[c].raised
      /\ bCall'[c].pc = IF bDo[c].retain THEN Boxes!AfterContainer(c, bCall[c].raised) ELSE "remove"
  <2>1. PICK p : p = IF bDo[c].retain THEN Boxes!AfterContainer(c, bCall[c].raised) ELSE "remove"
    OBVIOUS
  <2>2. Boxes!GoTo(c, p)
    BY <2>1 DEF Boxes!MarkFailed
  <2> QED BY <1>1, <2>1, <2>2, GoFields
<1>4. /\ UNCHANGED <<host, bDo, containers, network, attempts, bEvidence, finding>>
      /\ bRows' = [bRows EXCEPT ![c] = IF bRows[c] = "none" THEN "none" ELSE "failed"]
  BY DEF Boxes!MarkFailed, Boxes!Marked, Boxes!engine
<1>5. BoxTypes' /\ OnlyCall(c) /\ Alike(c)
  BY <1>1, <1>2, <1>3, <1>4, BoxFrame, BoxAlike
<1>6. Own(c)' = Own(c) /\ bRows'[c] = IF bRows[c] = "none" THEN "none" ELSE "failed"
  BY <1>1, <1>4 DEF Own, BoxTypes
<1>7. Networks' /\ Confirmed'
  BY <1>1, <1>3, <1>4, <1>5, <1>6, NetKept, ConfirmedKept DEF BoxInv, OnlyCall
<1> USE DEF BoxCall, InOrder, Quiet, Steady, Alike, Early, Working, Back, Final, Boxes!Hit, Boxes!Leave,
      Boxes!Gone, Boxes!IsService, Boxes!IsPoc, Boxes!AfterContainer
<1>11. InOrder(c)'
  BY <1>1, <1>2, <1>3, <1>4, <1>5, <1>6
<1>12. Tidy(c)'
  BY <1>1, <1>2, <1>3, <1>4, <1>5, <1>6 DEF Tidy, Boxes!Exists
<1>13. Recorded(c)'
  BY <1>1, <1>2, <1>3, <1>4, <1>5, <1>6 DEF Recorded, Boxes!Ended
<1>14. JudgedWell(c)'
  BY <1>1, <1>2, <1>3, <1>4, <1>5, <1>6 DEF JudgedWell, Judged, Boxes!Row, Boxes!Matched, Boxes!Over
<1>15. Undisturbed(c)' /\ SawOwn(c)'
  BY <1>1, <1>2, <1>3, <1>4, <1>5, <1>6 DEF Undisturbed, SawOwn
<1>16. BoxCall(c)'
  BY <1>11, <1>12, <1>13, <1>14, <1>15
<1> QED BY <1>2, <1>5, <1>7, <1>16, BoxKeeps

\* The container is removed.
LEMMA BoxRemoves ==
    ASSUME BoxInv, NEW c \in Boxes!Live, Boxes!RemoveContainer(c)
    PROVE  BoxInv'
<1>1. bCall[c].pc = "remove" /\ BoxTypes
  BY DEF Boxes!RemoveContainer, Boxes!At, BoxInv
<1>2. ~IsCleanup(c) /\ BoxCall(c)
  BY <1>1 DEF BoxInv, InvOf, Cleaning
<1>3. /\ Turn(c) /\ Steady(c) /\ bCall'[c].raised = bCall[c].raised /\ bCall'[c].pc = "markRemoved"
      /\ containers' = [containers EXCEPT ![c] = [state |-> "none", on |-> 0]]
  BY <1>1, GoFields DEF Boxes!RemoveContainer, Boxes!NoContainer
<1>4. /\ UNCHANGED <<host, bDo, network, bRows, attempts, bEvidence, finding>>
      /\ \/ containers' = containers
         \/ \E x : DOMAIN x = {"state", "on"} /\ containers' = [containers EXCEPT ![c] = x]
  <2>1. containers' = containers \/ containers' = [containers EXCEPT ![c] = [state |-> "none", on |-> 0]]
    BY <1>3
  <2>2. DOMAIN containers[c] = {"state", "on"}
    BY <1>1 DEF BoxTypes
  <2>3. DOMAIN [state |-> "none", on |-> 0] = {"state", "on"}
    BY <2>2
  <2> QED BY <2>1, <2>3 DEF Boxes!RemoveContainer, Boxes!tables
<1>5. BoxTypes' /\ OnlyCall(c) /\ Alike(c)
  BY <1>1, <1>2, <1>3, <1>4, BoxFrame, BoxAlike
<1>6. /\ Own(c)' = Own(c) /\ c # 0
      /\ containers'[c].state = "none"
  <2>1. c \in DOMAIN containers /\ DOMAIN containers[c] = {"state", "on"}
    BY <1>1 DEF BoxTypes
  <2>2. c # 0
    BY <1>1, BoxLive
  <2> QED BY <1>3, <1>4, <2>1, <2>2 DEF Own
<1>7. Networks' /\ Confirmed'
  BY <1>1, <1>3, <1>4, <1>5, <1>6, NetKept, ConfirmedKept DEF BoxInv, OnlyCall
<1> USE DEF BoxCall, InOrder, Quiet, Steady, Alike, Early, Working, Back, Final, Boxes!Hit, Boxes!Leave,
      Boxes!Gone, Boxes!IsService, Boxes!IsPoc, Boxes!AfterContainer
<1>11. InOrder(c)'
  BY <1>1, <1>2, <1>3, <1>4, <1>5, <1>6
<1>12. Tidy(c)'
  BY <1>1, <1>2, <1>3, <1>4, <1>5, <1>6 DEF Tidy, Boxes!Exists
<1>13. Recorded(c)'
  BY <1>1, <1>2, <1>3, <1>4, <1>5, <1>6 DEF Recorded, Boxes!Ended
<1>14. JudgedWell(c)'
  BY <1>1, <1>2, <1>3, <1>4, <1>5, <1>6 DEF JudgedWell, Judged, Boxes!Row, Boxes!Matched, Boxes!Over
<1>15. Undisturbed(c)' /\ SawOwn(c)'
  BY <1>1, <1>2, <1>3, <1>4, <1>5, <1>6 DEF Undisturbed, SawOwn
<1>16. BoxCall(c)'
  BY <1>11, <1>12, <1>13, <1>14, <1>15
<1> QED BY <1>2, <1>5, <1>7, <1>16, BoxKeeps

\* The row of a container that was removed is marked.
LEMMA BoxMarksRemoved ==
    ASSUME BoxInv, NEW c \in Boxes!Live, Boxes!MarkRemoved(c)
    PROVE  BoxInv'
<1>1. bCall[c].pc = "markRemoved" /\ BoxTypes
  BY DEF Boxes!MarkRemoved, Boxes!At, BoxInv
<1>2. ~IsCleanup(c) /\ BoxCall(c)
  BY <1>1 DEF BoxInv, InvOf, Cleaning
<1>3. /\ Turn(c) /\ Steady(c) /\ bCall'[c].raised = bCall[c].raised
      /\ bCall'[c].pc = Boxes!AfterContainer(c, bCall[c].raised)
  <2>1. PICK p : p = Boxes!AfterContainer(c, bCall[c].raised)
    OBVIOUS
  <2>2. Boxes!GoTo(c, p)
    BY <2>1 DEF Boxes!MarkRemoved
  <2> QED BY <1>1, <2>1, <2>2, GoFields
<1>4. /\ UNCHANGED <<host, bDo, containers, network, attempts, bEvidence, finding>>
      /\ bRows' = [bRows EXCEPT ![c] = IF bRows[c] = "none" THEN "none" ELSE "removed"]
  BY DEF Boxes!MarkRemoved, Boxes!Marked, Boxes!engine
<1>5. BoxTypes' /\ OnlyCall(c) /\ Alike(c)
  BY <1>1, <1>2, <1>3, <1>4, BoxFrame, BoxAlike
<1>6. Own(c)' = Own(c) /\ bRows'[c] = IF bRows[c] = "none" THEN "none" ELSE "removed"
  BY <1>1, <1>4 DEF Own, BoxTypes
<1>7. Networks' /\ Confirmed'
  BY <1>1, <1>3, <1>4, <1>5, <1>6, NetKept, ConfirmedKept DEF BoxInv, OnlyCall
<1> USE DEF BoxCall, InOrder, Quiet, Steady, Alike, Early, Working, Back, Final, Boxes!Hit, Boxes!Leave,
      Boxes!Gone, Boxes!IsService, Boxes!IsPoc, Boxes!AfterContainer
<1>11. InOrder(c)'
  BY <1>1, <1>2, <1>3, <1>4, <1>5, <1>6
<1>12. Tidy(c)'
  BY <1>1, <1>2, <1>3, <1>4, <1>5, <1>6 DEF Tidy, Boxes!Exists
<1>13. Recorded(c)'
  BY <1>1, <1>2, <1>3, <1>4, <1>5, <1>6 DEF Recorded, Boxes!Ended
<1>14. JudgedWell(c)'
  BY <1>1, <1>2, <1>3, <1>4, <1>5, <1>6 DEF JudgedWell, Judged, Boxes!Row, Boxes!Matched, Boxes!Over
<1>15. Undisturbed(c)' /\ SawOwn(c)'
  BY <1>1, <1>2, <1>3, <1>4, <1>5, <1>6 DEF Undisturbed, SawOwn
<1>16. BoxCall(c)'
  BY <1>11, <1>12, <1>13, <1>14, <1>15
<1> QED BY <1>2, <1>5, <1>7, <1>16, BoxKeeps

\* The network of a call is removed, if nothing runs on it.
LEMMA BoxRemovesNetwork ==
    ASSUME BoxInv, NEW c \in Boxes!Live, Boxes!RemoveNetwork(c)
    PROVE  BoxInv'
<1>1. bCall[c].pc = "removeNetwork" /\ BoxTypes
  BY DEF Boxes!RemoveNetwork, Boxes!At, BoxInv
<1>2. ~IsCleanup(c) /\ BoxCall(c)
  BY <1>1 DEF BoxInv, InvOf, Cleaning
<1>3. Turn(c) /\ Steady(c) /\ bCall'[c].pc = "markCleaned" /\ bCall'[c].raised = bCall[c].raised
  BY <1>1, GoFields DEF Boxes!RemoveNetwork
<1>4. /\ UNCHANGED <<host, bDo, containers, bRows, attempts, bEvidence, finding>>
      /\ Boxes!NetworkOf(c) \in Boxes!NetworkNames
      /\ network' = Boxes!WithoutNetwork(Boxes!NetworkOf(c))
      /\ \/ network' = network
         \/ \E x : DOMAIN x = {"by", "external"} /\ network' = [network EXCEPT ![Boxes!NetworkOf(c)] = x]
  <2>1. /\ UNCHANGED <<host, bDo, containers, bRows, attempts, bEvidence, finding>>
        /\ network' = Boxes!WithoutNetwork(Boxes!NetworkOf(c))
    BY DEF Boxes!RemoveNetwork, Boxes!tables
  <2>2. Boxes!NetworkOf(c) \in Boxes!NetworkNames
    BY <1>1, BoxLive DEF Boxes!NetworkOf, Boxes!NetworkNames
  <2>3. \/ network' = network
        \/ network' = [network EXCEPT ![Boxes!NetworkOf(c)] = [by |-> 0, external |-> FALSE]]
    BY <2>1, <2>2, NetRemoved DEF BoxInv
  <2>4. DOMAIN [by |-> 0, external |-> FALSE] = {"by", "external"}
    OBVIOUS
  <2> QED BY <2>1, <2>2, <2>3, <2>4
<1>5. BoxTypes' /\ OnlyCall(c) /\ Alike(c)
  BY <1>1, <1>2, <1>3, <1>4, BoxFrame, BoxAlike
<1>6. /\ Own(c)' = Own(c)
      /\ Boxes!IsPoc(c) /\ bDo[c].own /\ ~bDo[c].retain => network'[<<c>>].by = 0 \/ Boxes!Hit(c, {"remove"})
      /\ ~bDo[c].own => network'[<<c>>] = network[<<c>>]
  <2>1. Own(c)' = Own(c)
    BY <1>4 DEF Own
  <2>2. ASSUME Boxes!IsPoc(c), bDo[c].own, ~bDo[c].retain, Boxes!InUse(<<c>>) PROVE Boxes!Hit(c, {"remove"})
    <3>1. PICK d \in Boxes!Live : containers[d].state = "running" /\ Boxes!NetworkOf(d) = <<c>>
      BY <2>2 DEF Boxes!InUse
    <3>2. d = c
      BY <1>1, <3>1, OwnNetworks
    <3> QED BY <1>1, <1>2, <2>2, <3>1, <3>2 DEF BoxCall, Tidy
  <2>3. bDo[c].own => Boxes!NetworkOf(c) = <<c>>
    BY DEF Boxes!NetworkOf
  <2>4. ASSUME ~bDo[c].own PROVE network'[<<c>>] = network[<<c>>]
    <3>1. c \in Boxes!CallIds /\ c # 0
      BY <1>1, BoxLive
    <3>2. <<c>> # Boxes!NetworkOf(c)
      BY <2>4, <3>1 DEF Boxes!NetworkOf, Boxes!Shared
    <3>3. <<c>> \in DOMAIN network
      BY <1>1, <3>1 DEF BoxTypes, Boxes!NetworkNames
    <3> QED BY <1>4, <3>2, <3>3
  <2> QED BY <1>4, <2>1, <2>2, <2>3, <2>4, NetRemoved DEF BoxInv
<1>7. Networks' /\ Confirmed'
  BY <1>1, <1>3, <1>4, <1>5, <1>6, NetRemoved, ConfirmedKept DEF BoxInv, OnlyCall
<1> USE DEF BoxCall, InOrder, Quiet, Steady, Alike, Early, Working, Back, Final, Boxes!Hit, Boxes!Leave,
      Boxes!Gone
<1>11. InOrder(c)'
  BY <1>1, <1>2, <1>3, <1>4, <1>5, <1>6
<1>12. Tidy(c)'
  BY <1>1, <1>2, <1>3, <1>4, <1>5, <1>6 DEF Tidy, Boxes!Exists
<1>13. Recorded(c)'
  BY <1>1, <1>2, <1>3, <1>4, <1>5, <1>6 DEF Recorded, Boxes!Ended
<1>14. JudgedWell(c)'
  BY <1>1, <1>2, <1>3, <1>4, <1>5, <1>6 DEF JudgedWell, Judged, Boxes!Row, Boxes!Matched, Boxes!Over
<1>15. Undisturbed(c)' /\ SawOwn(c)'
  BY <1>1, <1>2, <1>3, <1>4, <1>5, <1>6 DEF Undisturbed, SawOwn
<1>16. BoxCall(c)'
  BY <1>11, <1>12, <1>13, <1>14, <1>15
<1> QED BY <1>2, <1>5, <1>7, <1>16, BoxKeeps

\* The row of the network is marked.
LEMMA BoxMarksCleaned ==
    ASSUME BoxInv, NEW c \in Boxes!Live, Boxes!MarkCleaned(c)
    PROVE  BoxInv'
<1>1. bCall[c].pc = "markCleaned" /\ BoxTypes
  BY DEF Boxes!MarkCleaned, Boxes!At, BoxInv
<1>2. ~IsCleanup(c) /\ BoxCall(c)
  BY <1>1 DEF BoxInv, InvOf, Cleaning
<1>3. /\ Turn(c) /\ Steady(c) /\ bCall'[c].raised = bCall[c].raised
      /\ bCall'[c].pc = Boxes!Leave(c, bCall[c].raised)
  <2>1. PICK p : p = Boxes!Leave(c, bCall[c].raised)
    OBVIOUS
  <2>2. Boxes!GoTo(c, p)
    BY <2>1 DEF Boxes!MarkCleaned
  <2> QED BY <1>1, <2>1, <2>2, GoFields
<1>4. UNCHANGED <<host, bDo, containers, network, bRows, attempts, bEvidence, finding>>
  BY DEF Boxes!MarkCleaned, Boxes!engine, Boxes!tables
<1>5. /\ BoxTypes' /\ OnlyCall(c) /\ Networks' /\ Confirmed' /\ Alike(c)
      /\ Boxes!Gone(c)' = Boxes!Gone(c) /\ Own(c)' = Own(c) /\ \A n : Boxes!Exists(n)' = Boxes!Exists(n)
  BY <1>2, <1>3, <1>4, BoxWalk
<1> USE DEF BoxCall, InOrder, Quiet, Steady, Alike, Early, Working, Back, Final, Boxes!Hit, Boxes!Leave
<1>11. InOrder(c)'
  BY <1>1, <1>2, <1>3, <1>4, <1>5
<1>12. Tidy(c)'
  BY <1>1, <1>2, <1>3, <1>4, <1>5 DEF Tidy
<1>13. Recorded(c)'
  BY <1>1, <1>2, <1>3, <1>4, <1>5 DEF Recorded, Boxes!Ended
<1>14. JudgedWell(c)'
  BY <1>1, <1>2, <1>3, <1>4, <1>5 DEF JudgedWell, Judged, Boxes!Row, Boxes!Matched, Boxes!Over
<1>15. Undisturbed(c)' /\ SawOwn(c)'
  BY <1>1, <1>2, <1>3, <1>4, <1>5 DEF Undisturbed, SawOwn
<1>16. BoxCall(c)'
  BY <1>11, <1>12, <1>13, <1>14, <1>15
<1> QED BY <1>2, <1>5, <1>16, BoxKeeps
\* One transaction records the attempt, the finding and the evidence of a PoC.
LEMMA BoxJudges ==
    ASSUME BoxInv, NEW c \in Boxes!Live, Boxes!Verdict(c)
    PROVE  BoxInv'
<1>1. bCall[c].pc = "verdict" /\ BoxTypes
  BY DEF Boxes!Verdict, Boxes!At, BoxInv
<1>2. ~IsCleanup(c) /\ BoxCall(c)
  BY <1>1 DEF BoxInv, InvOf, Cleaning
<1>3. Turn(c) /\ Steady(c) /\ bCall'[c].pc = "event" /\ bCall'[c].raised = bCall[c].raised
  BY <1>1, GoFields DEF Boxes!Verdict
<1>4. /\ UNCHANGED <<host, bDo, containers, network, bRows>>
      /\ attempts' = [attempts EXCEPT ![c] = IF Boxes!Matched(c) THEN "completed" ELSE "failed"]
      /\ bEvidence' = bEvidence \cup {Boxes!Row(c, "poc-run")}
      /\ finding' = IF Boxes!Matched(c) /\ bDo[c].mark THEN "confirmed" ELSE finding
  BY DEF Boxes!Verdict, Boxes!engine
<1>5. BoxTypes' /\ OnlyCall(c) /\ Alike(c)
  BY <1>1, <1>2, <1>3, <1>4, BoxFrame, BoxAlike
<1>6. Judged(c)'
  <2>1. Own(c) = {}
    BY <1>1, <1>2 DEF BoxCall, InOrder, JudgedWell
  <2>2. Boxes!Row(c, "poc-run").call = c
    BY DEF Boxes!Row
  <2>3. Own(c)' = {Boxes!Row(c, "poc-run")}
    BY <1>4, <2>1, <2>2 DEF Own
  <2>4. Boxes!Matched(c)' = Boxes!Matched(c)
    BY <1>3, <1>4 DEF Boxes!Matched, Steady
  <2>5. Boxes!Row(c, "poc-run")' = Boxes!Row(c, "poc-run")
    BY <2>4 DEF Boxes!Row
  <2>6. attempts'[c] = IF Boxes!Matched(c) THEN "completed" ELSE "failed"
    BY <1>1, <1>4 DEF BoxTypes
  <2> QED BY <2>3, <2>4, <2>5, <2>6 DEF Judged
<1>7. Networks' /\ Confirmed'
  <2>1. Networks'
    BY <1>1, <1>4, <1>5, NetKept DEF BoxInv, OnlyCall
  <2>2. CASE Boxes!Matched(c) /\ bDo[c].mark
    <3>1. Boxes!Row(c, "poc-run").matched = TRUE /\ Boxes!Row(c, "poc-run").call = c
      BY <2>2 DEF Boxes!Row
    <3> QED BY <1>4, <2>1, <2>2, <3>1 DEF Confirmed
  <2>3. CASE ~(Boxes!Matched(c) /\ bDo[c].mark)
    BY <1>4, <2>1, <2>3 DEF BoxInv, Confirmed
  <2> QED BY <2>2, <2>3
<1> USE DEF BoxCall, InOrder, Quiet, Steady, Alike, Early, Working, Back, Final, Boxes!Hit, Boxes!Leave,
      Boxes!Gone
<1>11. InOrder(c)'
  BY <1>1, <1>2, <1>3, <1>4, <1>5, <1>6
<1>12. Tidy(c)'
  BY <1>1, <1>2, <1>3, <1>4, <1>5, <1>6 DEF Tidy, Boxes!Exists
<1>13. Recorded(c)'
  BY <1>1, <1>2, <1>3, <1>4, <1>5, <1>6 DEF Recorded, Boxes!Ended
<1>14. JudgedWell(c)'
  BY <1>1, <1>2, <1>3, <1>5, <1>6 DEF JudgedWell, Boxes!Over
<1>15. Undisturbed(c)' /\ SawOwn(c)'
  BY <1>1, <1>2, <1>3, <1>4, <1>5, <1>6 DEF Undisturbed, SawOwn
<1>16. BoxCall(c)'
  BY <1>11, <1>12, <1>13, <1>14, <1>15
<1> QED BY <1>2, <1>5, <1>7, <1>16, BoxKeeps

\* What a PoC of a finding raises is recorded as evidence.
LEMMA BoxHandlesException ==
    ASSUME BoxInv, NEW c \in Boxes!Live, Boxes!HandleException(c)
    PROVE  BoxInv'
<1>1. bCall[c].pc = "except" /\ BoxTypes
  BY DEF Boxes!HandleException, Boxes!At, BoxInv
<1>2. ~IsCleanup(c) /\ BoxCall(c)
  BY <1>1 DEF BoxInv, InvOf, Cleaning
<1>3. /\ Turn(c) /\ Steady(c) /\ bCall'[c].raised = bCall[c].raised
      /\ bCall'[c].pc = IF bCall[c].raised = "failed" THEN "failed" ELSE "answered"
  <2>1. PICK p : p = IF bCall[c].raised = "failed" THEN "failed" ELSE "answered"
    OBVIOUS
  <2>2. Boxes!GoTo(c, p)
    BY <2>1 DEF Boxes!HandleException
  <2> QED BY <1>1, <2>1, <2>2, GoFields
<1>4. /\ UNCHANGED <<host, bDo, containers, network, bRows, finding>>
      /\ attempts' = [attempts EXCEPT ![c] = bCall[c].raised]
      /\ \E k \in {"poc-error", "poc-unavailable"} : bEvidence' = bEvidence \cup {Boxes!Row(c, k)}
  BY DEF Boxes!HandleException, Boxes!engine
<1>5. BoxTypes' /\ OnlyCall(c) /\ Alike(c)
  BY <1>1, <1>2, <1>3, <1>4, BoxFrame, BoxAlike
<1>6. /\ attempts'[c] = bCall[c].raised /\ attempts'[c] \in {"failed", "unavailable"}
      /\ \A e \in Own(c)' : e.matched => Boxes!Hit(c, {"event"})
  <2>1. PICK k \in {"poc-error", "poc-unavailable"} : bEvidence' = bEvidence \cup {Boxes!Row(c, k)}
    BY <1>4
  <2>2. Boxes!Row(c, k).matched = FALSE
    BY <2>1 DEF Boxes!Row
  <2>3. \A e \in Own(c) : e.matched => Boxes!Hit(c, {"event"})
    BY <1>1, <1>2 DEF BoxCall, InOrder, JudgedWell
  <2>4. attempts'[c] = bCall[c].raised /\ bCall[c].raised \in {"failed", "unavailable"}
    BY <1>1, <1>2, <1>4 DEF BoxTypes, BoxCall, InOrder
  <2> QED BY <2>1, <2>2, <2>3, <2>4 DEF Own
<1>7. Networks' /\ Confirmed'
  BY <1>1, <1>3, <1>4, <1>5, <1>6, NetKept, ConfirmedKept DEF BoxInv, OnlyCall
<1> USE DEF BoxCall, InOrder, Quiet, Steady, Alike, Early, Working, Back, Final, Boxes!Hit, Boxes!Leave,
      Boxes!Gone
<1>11. InOrder(c)'
  BY <1>1, <1>2, <1>3, <1>4, <1>5, <1>6
<1>12. Tidy(c)'
  BY <1>1, <1>2, <1>3, <1>4, <1>5, <1>6 DEF Tidy, Boxes!Exists
<1>13. Recorded(c)'
  BY <1>1, <1>2, <1>3, <1>4, <1>5, <1>6 DEF Recorded, Boxes!Ended
<1>14. JudgedWell(c)'
  BY <1>1, <1>2, <1>3, <1>4, <1>5, <1>6 DEF JudgedWell, Boxes!Over
<1>15. Undisturbed(c)' /\ SawOwn(c)'
  BY <1>1, <1>2, <1>3, <1>4, <1>5, <1>6 DEF Undisturbed, SawOwn
<1>16. BoxCall(c)'
  BY <1>11, <1>12, <1>13, <1>14, <1>15
<1> QED BY <1>2, <1>5, <1>7, <1>16, BoxKeeps
\* Where a failure of the engine or the database leads, by the point that it hits.
Fell(c) ==
    LET pc == bCall[c].pc  to == bCall'[c].pc  was == bCall[c].raised  is == bCall'[c].raised
    IN  \/ pc \in {"markFailed", "markRemoved", "remove"} /\ to = Boxes!AfterContainer(c, was) /\ is = was
        \/ pc = "remove" /\ to = "markRemoved" /\ is = was
        \/ pc = "removeNetwork" /\ to = "markCleaned" /\ is = was
        \/ pc = "start" /\ is \in {"failed", "unavailable"} /\ to = Boxes!Undo(c, is)
        \/ pc = "except" /\ to = "failed" /\ is = "failed"
        \/ /\ pc \in {"create", "record", "mark", "wait", "markEnd", "markRunning"}
           /\ to = Boxes!Undo(c, "failed") /\ is = "failed"
        \/ /\ pc \in {"network", "make", "recordNetwork", "pull", "removeNetwork", "markCleaned", "verdict", "event"}
           /\ to = Boxes!Leave(c, "failed") /\ is = "failed"

\* What a failure does to the record of a call.
LEMMA FaultFields ==
    ASSUME BoxInv, NEW c \in Boxes!Live, Boxes!Fault(c)
    PROVE  /\ Turn(c) /\ Fell(c)
           /\ bCall'[c].made = bCall[c].made /\ bCall'[c].ours = bCall[c].ours /\ bCall'[c].saw = bCall[c].saw
           /\ bCall'[c].met = bCall[c].met /\ bCall'[c].exit = bCall[c].exit
           /\ bCall'[c].hit = bCall[c].hit \cup {bCall[c].pc}
<1>1. /\ ~IsCleanup(c) /\ BoxCall(c) /\ BoxTypes
      /\ bCall[c].pc \notin {"idle", "answered", "failed", "require"}
  BY DEF Boxes!Fault, Boxes!Ended, BoxInv, InvOf, IsCleanup
<1>2. bCall[c].pc \in Early \cup Working \cup Back \cup Final
  BY <1>1 DEF BoxCall, InOrder
<1>3. c \in DOMAIN bCall /\ DOMAIN bCall[c] = CallFields
  BY <1>1 DEF BoxTypes
<1> DEFINE To(p, r) == bCall' = [bCall EXCEPT ![c] = [@ EXCEPT !.pc = p, !.raised = r, !.hit = bCall[c].hit \cup {bCall[c].pc}]]
<1>4. ASSUME NEW p, NEW r, To(p, r)
      PROVE  /\ Turn(c) /\ bCall'[c].pc = p /\ bCall'[c].raised = r
             /\ bCall'[c].made = bCall[c].made /\ bCall'[c].ours = bCall[c].ours /\ bCall'[c].saw = bCall[c].saw
             /\ bCall'[c].met = bCall[c].met /\ bCall'[c].exit = bCall[c].exit
             /\ bCall'[c].hit = bCall[c].hit \cup {bCall[c].pc}
  <2>1. bCall'[c] = [bCall[c] EXCEPT !.pc = p, !.raised = r, !.hit = bCall[c].hit \cup {bCall[c].pc}]
    BY <1>3, <1>4
  <2> QED BY <1>3, <1>4, <2>1 DEF Turn, CallFields
<1> DEFINE was == bCall[c].raised  pc == bCall[c].pc
<1>5. Boxes!AfterFault(c)
  BY DEF Boxes!Fault
<1>6. \E p, r : /\ To(p, r)
                /\ \/ pc \in {"markFailed", "markRemoved", "remove"} /\ p = Boxes!AfterContainer(c, was) /\ r = was
                   \/ pc = "remove" /\ p = "markRemoved" /\ r = was
                   \/ pc = "removeNetwork" /\ p = "markCleaned" /\ r = was
                   \/ pc = "start" /\ r \in {"failed", "unavailable"} /\ p = Boxes!Undo(c, r)
                   \/ pc = "except" /\ p = "failed" /\ r = "failed"
                   \/ /\ pc \in {"create", "record", "mark", "wait", "markEnd", "markRunning"}
                      /\ p = Boxes!Undo(c, "failed") /\ r = "failed"
                   \/ /\ pc \in {"network", "make", "recordNetwork", "pull", "removeNetwork", "markCleaned", "verdict", "event"}
                      /\ p = Boxes!Leave(c, "failed") /\ r = "failed"
  <2>1. CASE pc \in {"markFailed", "markRemoved"}
    <3>1. To(Boxes!AfterContainer(c, was), was)
      BY <1>5, <2>1 DEF Boxes!AfterFault, Boxes!At
    <3> HIDE DEF To
    <3> QED BY <2>1, <3>1
  <2>2. CASE pc = "remove"
    <3>1. To("markRemoved", was) \/ To(Boxes!AfterContainer(c, was), was)
      BY <1>5, <2>2 DEF Boxes!AfterFault, Boxes!At
    <3> HIDE DEF To
    <3> QED BY <2>2, <3>1
  <2>3. CASE pc = "removeNetwork"
    <3>1. To("markCleaned", was) \/ To(Boxes!Leave(c, "failed"), "failed")
      BY <1>5, <2>3 DEF Boxes!AfterFault, Boxes!At
    <3> HIDE DEF To
    <3> QED BY <2>3, <3>1
  <2>4. CASE pc = "start"
    <3>1. \E r \in {"failed", "unavailable"} : To(Boxes!Undo(c, r), r)
      BY <1>5, <2>4 DEF Boxes!AfterFault, Boxes!At
    <3> HIDE DEF To
    <3> QED BY <2>4, <3>1
  <2>5. CASE pc = "except"
    <3>1. To("failed", "failed")
      BY <1>5, <2>5 DEF Boxes!AfterFault, Boxes!At
    <3> HIDE DEF To
    <3> QED BY <2>5, <3>1
  <2>6. CASE pc \in {"create", "record", "mark", "wait", "markEnd", "markRunning"}
    <3>1. To(Boxes!Undo(c, "failed"), "failed")
      BY <1>5, <2>6 DEF Boxes!AfterFault, Boxes!At, Boxes!InTry
    <3> HIDE DEF To
    <3> QED BY <2>6, <3>1
  <2>7. CASE pc \in {"network", "make", "recordNetwork", "pull", "markCleaned", "verdict", "event"}
    <3>1. To(Boxes!Leave(c, "failed"), "failed")
      BY <1>5, <2>7 DEF Boxes!AfterFault, Boxes!At, Boxes!InTry
    <3> HIDE DEF To
    <3> QED BY <2>7, <3>1
  <2> QED BY <1>1, <1>2, <2>1, <2>2, <2>3, <2>4, <2>5, <2>6, <2>7 DEF Early, Working, Back, Final
<1> HIDE DEF To
<1> QED BY <1>4, <1>6 DEF Fell
\* The engine or the database fails, and what was asked of the engine may be done all the same.
LEMMA BoxFaults ==
    ASSUME BoxInv, NEW c \in Boxes!Live, Boxes!Fault(c)
    PROVE  BoxInv'
<1>1. bCall[c].pc \notin {"idle", "answered", "failed", "require"} /\ BoxTypes
  BY DEF Boxes!Fault, Boxes!Ended, BoxInv
<1>2. ~IsCleanup(c) /\ BoxCall(c)
  BY DEF Boxes!Fault, BoxInv, InvOf, IsCleanup
<1>3. /\ Turn(c) /\ Fell(c)
      /\ bCall'[c].made = bCall[c].made /\ bCall'[c].ours = bCall[c].ours /\ bCall'[c].saw = bCall[c].saw
      /\ bCall'[c].met = bCall[c].met /\ bCall'[c].exit = bCall[c].exit
      /\ bCall'[c].hit = bCall[c].hit \cup {bCall[c].pc} /\ bCall'[c].hit # {}
  BY FaultFields
<1>4. /\ UNCHANGED <<host, bDo, bRows, attempts, bEvidence, finding>>
      /\ \/ containers' = containers
         \/ \E x : DOMAIN x = {"state", "on"} /\ containers' = [containers EXCEPT ![c] = x]
      /\ \/ network' = network
         \/ \E x : DOMAIN x = {"by", "external"} /\ network' = [network EXCEPT ![Boxes!NetworkOf(c)] = x]
      /\ \/ containers' = containers /\ network' = network
         \/ containers' = containers /\ network' = Boxes!Made(c) /\ bCall[c].pc \in {"network", "make"}
         \/ /\ containers' = [containers EXCEPT ![c] = [state |-> "created", on |-> network[Boxes!NetworkOf(c)].by]]
            /\ bCall[c].pc = "create" /\ network' = network
         \/ /\ containers' = [containers EXCEPT ![c] = [containers[c] EXCEPT !.state = "running"]]
            /\ bCall[c].pc = "start" /\ Boxes!Startable(c) /\ network' = network
  <2>1. UNCHANGED <<host, bDo, bRows, attempts, bEvidence, finding>> /\ Boxes!DoneAllTheSame(c)
    BY DEF Boxes!Fault, Boxes!tables
  <2>2. DOMAIN [containers[c] EXCEPT !.state = "running"] = {"state", "on"}
    BY <1>1 DEF BoxTypes
  <2>3. CASE UNCHANGED <<containers, network>>
    BY <2>1, <2>3
  <2>4. CASE bCall[c].pc \in {"network", "make"} /\ network' = Boxes!Made(c) /\ UNCHANGED containers
    <3>1. network' = [network EXCEPT ![Boxes!NetworkOf(c)] = [by |-> c, external |-> bDo[c].external]]
      BY <2>4 DEF Boxes!Made
    <3>2. DOMAIN [by |-> c, external |-> bDo[c].external] = {"by", "external"}
      OBVIOUS
    <3> QED BY <2>1, <2>4, <3>1, <3>2
  <2>5. CASE /\ bCall[c].pc = "create" /\ UNCHANGED network
             /\ containers' = [containers EXCEPT ![c] = [state |-> "created", on |-> network[Boxes!NetworkOf(c)].by]]
    BY <2>1, <2>5
  <2>6. CASE /\ bCall[c].pc = "start" /\ Boxes!Startable(c) /\ UNCHANGED network
             /\ containers' = [containers EXCEPT ![c].state = "running"]
    BY <2>1, <2>2, <2>6
  <2> QED BY <2>1, <2>3, <2>4, <2>5, <2>6 DEF Boxes!DoneAllTheSame, Boxes!At, Boxes!engine
<1>5. BoxTypes' /\ OnlyCall(c) /\ Alike(c)
  BY <1>1, <1>2, <1>3, <1>4, BoxFrame, BoxAlike
<1>6. /\ Own(c)' = Own(c)
      /\ \/ containers'[c].state = containers[c].state
         \/ containers'[c].state = "created" /\ bCall[c].pc = "create"
         \/ containers'[c].state = "running" /\ bCall[c].pc = "start" /\ containers[c].state = "created"
      /\ network'[<<c>>] = network[<<c>>] \/ bCall[c].pc \in {"network", "make"}
  <2>1. c \in DOMAIN containers /\ DOMAIN containers[c] = {"state", "on"}
    BY <1>1 DEF BoxTypes
  <2> QED BY <1>4, <2>1 DEF Own, Boxes!Startable
<1>7. Networks' /\ Confirmed'
  <2>1. Confirmed'
    BY <1>4, ConfirmedKept DEF BoxInv
  <2>2. CASE network' = Boxes!Made(c) /\ containers' = containers
    BY <1>1, <1>4, <2>1, <2>2, NetMade DEF BoxInv
  <2>3. CASE network' = network
    <3>1. containers'[c].state = "running" =>
            containers[c].state = "running" \/ Boxes!Exists(Boxes!NetworkOf(c))
      BY <1>4, <1>6 DEF Boxes!Startable
    <3> QED BY <1>1, <1>4, <1>5, <2>1, <2>3, <3>1, NetKept DEF BoxInv, OnlyCall
  <2> QED BY <1>4, <2>2, <2>3
<1> USE DEF BoxCall, InOrder, Quiet, Steady, Alike, Early, Working, Back, Final, Boxes!Hit, Boxes!Leave,
      Boxes!Gone, Boxes!IsService, Boxes!IsPoc, Boxes!Undo, Boxes!AfterContainer, Fell
<1>11. InOrder(c)'
  BY <1>1, <1>2, <1>3, <1>4, <1>5, <1>6
<1>12. Tidy(c)'
  BY <1>1, <1>2, <1>3, <1>4, <1>5, <1>6 DEF Tidy, Boxes!Exists
<1>13. Recorded(c)'
  BY <1>1, <1>2, <1>3, <1>4, <1>5, <1>6 DEF Recorded, Boxes!Ended
<1>14. JudgedWell(c)'
  <2>1. bDo[c].kind = "finding" /\ Judged(c) =>
          /\ attempts[c] \in {"completed", "failed"} /\ (attempts[c] = "failed" => \A e \in Own(c) : ~e.matched)
          /\ attempts[c] = "completed" => Own(c) = {[call |-> c, kind |-> "poc-run", matched |-> TRUE]}
    BY JudgedLast
  <2>2. Judged(c) => Judged(c)'
    BY <1>3, <1>4, <1>6 DEF Judged, Boxes!Row, Boxes!Matched
  <2> QED BY <1>1, <1>2, <1>3, <1>4, <1>5, <1>6, <2>1, <2>2 DEF JudgedWell, Boxes!Over
<1>15. Undisturbed(c)' /\ SawOwn(c)'
  BY <1>1, <1>2, <1>3, <1>4, <1>5, <1>6 DEF Undisturbed, SawOwn
<1>16. BoxCall(c)'
  BY <1>11, <1>12, <1>13, <1>14, <1>15
<1> QED BY <1>2, <1>5, <1>7, <1>16, BoxKeeps
\* A step of a cleanup takes the container of a call, or marks its row, or leaves both alone.
LEMMA CleanKeeps ==
    ASSUME BoxInv, NEW c \in Boxes!Live, IsCleanup(c), ~Boxes!Ended(c),
           UNCHANGED <<host, bDo, attempts, bEvidence, finding>>,
           \A d \in Boxes!Live \ {c} : bCall'[d] = bCall[d],
           \A d \in Boxes!Live \ {c} :
             \/ containers'[d] = containers[d] /\ bRows'[d] = bRows[d] /\ (Swept(d)' <=> Swept(d))
             \/ containers'[d].state = "none" /\ bRows'[d] = bRows[d] /\ Swept(d)'
             \/ /\ Swept(d) /\ containers'[d] = containers[d]
                /\ bRows'[d] = IF bRows[d] = "none" THEN "none" ELSE "removed",
           \A d \in Boxes!Live : Boxes!Exists(<<d>>)' => Boxes!Exists(<<d>>),
           BoxTypes', Networks', Cleaning(c)'
    PROVE  BoxInv'
<1>1. /\ Boxes!Live' = Boxes!Live /\ bDo' = bDo /\ host' = host
      /\ \A d : /\ IsCleanup(d)' = IsCleanup(d) /\ Boxes!IsService(d)' = Boxes!IsService(d)
               /\ Boxes!IsPoc(d)' = Boxes!IsPoc(d)
               /\ May(d)' = May(d) /\ Own(d)' = Own(d)
  BY DEF Boxes!Live, IsCleanup, Boxes!IsService, Boxes!IsPoc, May, Own,
         Boxes!MayExecute, Boxes!Available, Boxes!RuntimeAvailable, Boxes!Requested
<1>2. Boxes!Sweeping
  BY DEF Boxes!Sweeping, IsCleanup
<1>3. ASSUME NEW d \in Boxes!Live, d # c PROVE InvOf(d)'
  <2>1. bCall'[d] = bCall[d] /\ attempts' = attempts /\ InvOf(d) /\ (Boxes!Exists(<<d>>)' => Boxes!Exists(<<d>>))
    BY <1>3 DEF BoxInv
  <2>2. \/ containers'[d] = containers[d] /\ bRows'[d] = bRows[d] /\ (Swept(d)' <=> Swept(d))
        \/ containers'[d].state = "none" /\ bRows'[d] = bRows[d] /\ Swept(d)'
        \/ /\ Swept(d) /\ containers'[d] = containers[d]
           /\ bRows'[d] = IF bRows[d] = "none" THEN "none" ELSE "removed"
    BY <1>3
  <2>3. CASE IsCleanup(d)
    BY <1>1, <2>1, <2>2, <2>3 DEF InvOf, Cleaning, Boxes!Gone
  <2>4. CASE ~IsCleanup(d)
    <3>1. BoxCall(d)
      BY <2>1, <2>4 DEF InvOf
    <3>2. Boxes!Gone(d) => Boxes!Gone(d)'
      BY <2>2 DEF Boxes!Gone
    <3>3. InOrder(d)'
      BY <1>1, <2>1, <2>2, <3>1, <3>2 DEF BoxCall, InOrder, Boxes!Hit
    <3>4. Tidy(d)'
      BY <1>1, <2>1, <2>2, <3>1, <3>2 DEF BoxCall, Tidy, Boxes!Hit
    <3>5. Recorded(d)'
      BY <1>1, <1>2, <2>1, <2>2, <3>1, <3>2
      DEF BoxCall, Recorded, Quiet, Boxes!Ended, Boxes!Gone, Final, Back, Working, InOrder, Early
    <3>6. JudgedWell(d)'
      BY <1>1, <2>1, <3>1 DEF BoxCall, JudgedWell, Judged, Boxes!Hit, Boxes!Over, Boxes!Row, Boxes!Matched
    <3>7. Undisturbed(d)'
      BY <1>1, <1>2, <2>1, <3>1 DEF BoxCall, Undisturbed, Recorded, Quiet, Boxes!Ended, Working
    <3>8. SawOwn(d)'
      BY <1>1, <2>1, <3>1 DEF BoxCall, SawOwn
    <3> QED BY <1>1, <2>4, <3>3, <3>4, <3>5, <3>6, <3>7, <3>8 DEF InvOf, BoxCall
  <2> QED BY <2>3, <2>4
<1>4. Confirmed'
  BY ConfirmedKept DEF BoxInv
<1> QED BY <1>1, <1>3, <1>4 DEF BoxInv, InvOf

\* A cleanup lists the containers, and every call at work has met it.
LEMMA BoxBeginsCleanup ==
    ASSUME BoxInv, NEW c \in Boxes!Live, Boxes!BeginCleanup(c)
    PROVE  BoxInv'
<1>1. /\ bCall[c].pc = "idle" /\ IsCleanup(c) /\ BoxTypes /\ Cleaning(c)
      /\ UNCHANGED <<host, bDo, containers, network, bRows, attempts, bEvidence, finding>>
  BY DEF Boxes!BeginCleanup, Boxes!MayCall, IsCleanup, BoxInv, InvOf, Boxes!engine, Boxes!tables
<1>2. /\ DOMAIN bCall' = Boxes!Live
      /\ \A d \in Boxes!Live \ {c} : bCall'[d] = IF Boxes!Ended(d) THEN bCall[d] ELSE [bCall[d] EXCEPT !.met = TRUE]
      /\ bCall'[c] = [bCall[c] EXCEPT !.pc = "sweep", !.todo = {e \in Boxes!Live : ~Boxes!Gone(e)}]
  BY DEF Boxes!BeginCleanup
<1>3. \A d \in Boxes!Live : DOMAIN bCall[d] = CallFields
  BY <1>1 DEF BoxTypes
<1>4. \A d \in Boxes!Live \ {c} :
        /\ bCall'[d].pc = bCall[d].pc /\ bCall'[d].made = bCall[d].made /\ bCall'[d].ours = bCall[d].ours
        /\ bCall'[d].saw = bCall[d].saw /\ bCall'[d].raised = bCall[d].raised /\ bCall'[d].exit = bCall[d].exit
        /\ bCall'[d].hit = bCall[d].hit /\ bCall'[d].todo = bCall[d].todo
        /\ IF Boxes!Ended(d) THEN bCall'[d].met = bCall[d].met ELSE bCall'[d].met
        /\ DOMAIN bCall'[d] = CallFields
  BY <1>2, <1>3 DEF CallFields
<1>5. /\ bCall'[c].pc = "sweep" /\ bCall'[c].todo \subseteq Boxes!Live
      /\ DOMAIN bCall'[c] = CallFields
  BY <1>2, <1>3 DEF CallFields
<1>6. /\ Boxes!Live' = Boxes!Live /\ Boxes!NetworkNames' = Boxes!NetworkNames /\ bDo' = bDo /\ host' = host
      /\ \A d : /\ IsCleanup(d)' = IsCleanup(d) /\ Boxes!IsService(d)' = Boxes!IsService(d)
               /\ Boxes!IsPoc(d)' = Boxes!IsPoc(d) /\ Boxes!Gone(d)' = Boxes!Gone(d)
               /\ May(d)' = May(d) /\ Own(d)' = Own(d)
  BY <1>1 DEF Boxes!Live, Boxes!NetworkNames, IsCleanup, Boxes!IsService, Boxes!IsPoc, May, Own, Boxes!Gone,
         Boxes!MayExecute, Boxes!Available, Boxes!RuntimeAvailable, Boxes!Requested
<1>7. BoxTypes'
  BY <1>1, <1>2, <1>4, <1>5, <1>6 DEF BoxTypes
<1>8. Networks' /\ Confirmed'
  BY <1>1 DEF BoxInv, Networks, Confirmed, Boxes!Exists, Boxes!Live, Boxes!NetworkOf, Boxes!NetworkNames,
     Boxes!Shared
<1>9. ASSUME NEW d \in Boxes!Live, d # c PROVE Swept(d)' <=> Swept(d)
  BY <1>1, <1>4, <1>5, <1>6 DEF Swept
<1>10. ASSUME NEW d \in Boxes!Live, d # c PROVE InvOf(d)'
  <2>1. InvOf(d) /\ (Swept(d)' <=> Swept(d)) /\ bRows' = bRows /\ attempts' = attempts /\ network' = network /\ containers' = containers
    BY <1>1, <1>9, <1>10 DEF BoxInv
  <2>2. CASE IsCleanup(d)
    BY <1>4, <1>6, <1>10, <2>1, <2>2 DEF InvOf, Cleaning
  <2>3. CASE ~IsCleanup(d)
    <3>1. BoxCall(d)
      BY <2>1, <2>3 DEF InvOf
    <3>2. InOrder(d)' /\ Tidy(d)' /\ SawOwn(d)'
      BY <1>4, <1>6, <1>10, <2>1, <3>1 DEF BoxCall, InOrder, Tidy, SawOwn, Boxes!Hit, Boxes!Exists
    <3>3. Recorded(d)'
      BY <1>4, <1>6, <1>10, <2>1, <3>1 DEF BoxCall, Recorded, Quiet, Boxes!Ended, Final, Back, Working,
         InOrder, Early
    <3>4. JudgedWell(d)'
      BY <1>4, <1>6, <1>10, <2>1, <3>1 DEF BoxCall, JudgedWell, Judged, Boxes!Hit, Boxes!Over, Boxes!Row,
         Boxes!Matched
    <3>5. Undisturbed(d)'
      BY <1>4, <1>6, <1>10, <2>1, <3>1 DEF BoxCall, Undisturbed, Quiet, Boxes!Ended, Working
    <3> QED BY <1>6, <2>3, <3>1, <3>2, <3>3, <3>4, <3>5 DEF InvOf, BoxCall
  <2> QED BY <2>2, <2>3
<1>11. InvOf(c)'
  BY <1>1, <1>5, <1>6 DEF InvOf, Cleaning
<1> QED BY <1>6, <1>7, <1>8, <1>10, <1>11 DEF BoxInv
\* A cleanup removes a container, and marks its row right after.
LEMMA BoxSweeps ==
    ASSUME BoxInv, NEW c \in Boxes!Live, IsCleanup(c), Boxes!SweepContainer(c)
    PROVE  BoxInv'
<1>1. /\ bCall[c].pc = "sweep" /\ BoxTypes /\ Cleaning(c) /\ ~Boxes!Ended(c)
      /\ UNCHANGED <<host, bDo, network, bRows, attempts, bEvidence, finding>>
  BY DEF Boxes!SweepContainer, Boxes!At, BoxInv, InvOf, Boxes!Ended, Boxes!tables
<1>2. PICK e \in bCall[c].todo :
        /\ containers' = [containers EXCEPT ![e] = [state |-> "none", on |-> 0]]
        /\ bCall' = [bCall EXCEPT ![c] = [bCall[c] EXCEPT !.pc = "sweepMark", !.saw = e, !.todo = bCall[c].todo \ {e}]]
  BY DEF Boxes!SweepContainer, Boxes!NoContainer
<1>3. e \in Boxes!Live /\ bCall[c].todo \subseteq Boxes!Live
  BY <1>1, <1>2 DEF Cleaning
<1>4. c \in DOMAIN bCall /\ DOMAIN bCall[c] = CallFields
  BY <1>1 DEF BoxTypes
<1>5. bCall'[c] = [bCall[c] EXCEPT !.pc = "sweepMark", !.saw = e, !.todo = bCall[c].todo \ {e}]
  BY <1>2, <1>4
<1>6. /\ DOMAIN bCall'[c] = CallFields /\ bCall'[c].pc = "sweepMark" /\ bCall'[c].saw = e
      /\ bCall'[c].todo \subseteq Boxes!Live
  BY <1>3, <1>4, <1>5 DEF CallFields
<1>7. /\ DOMAIN bCall' = Boxes!Live /\ \A d \in Boxes!Live \ {c} : bCall'[d] = bCall[d]
  BY <1>1, <1>2 DEF BoxTypes
<1>8. /\ containers'[e].state = "none" /\ DOMAIN containers'[e] = {"state", "on"}
      /\ DOMAIN containers' = Boxes!Live /\ \A d \in Boxes!Live \ {e} : containers'[d] = containers[d]
  BY <1>1, <1>2, <1>3 DEF BoxTypes
<1>9. Boxes!Live' = Boxes!Live /\ Boxes!NetworkNames' = Boxes!NetworkNames /\ \A d : IsCleanup(d)' = IsCleanup(d)
  BY <1>1 DEF Boxes!Live, Boxes!NetworkNames, IsCleanup
<1>10. BoxTypes'
  BY <1>1, <1>6, <1>7, <1>8, <1>9 DEF BoxTypes
<1>11. Networks'
  BY <1>1, <1>3, <1>8, NetKept DEF BoxInv
<1>12. Cleaning(c)'
  <2>1. containers'[c].state = "none"
    BY <1>1, <1>8 DEF Cleaning, Boxes!Gone
  <2> QED BY <1>3, <1>6, <1>9, <2>1 DEF Cleaning, Boxes!Gone
<1>13. ASSUME NEW d \in Boxes!Live \ {c}
       PROVE  \/ containers'[d] = containers[d] /\ bRows'[d] = bRows[d] /\ (Swept(d)' <=> Swept(d))
              \/ containers'[d].state = "none" /\ bRows'[d] = bRows[d] /\ Swept(d)'
  <2>1. CASE d = e
    BY <1>1, <1>6, <1>8, <1>9, <2>1 DEF Swept
  <2>2. CASE d # e
    BY <1>1, <1>6, <1>7, <1>8, <1>9, <2>2 DEF Swept
  <2> QED BY <2>1, <2>2
<1> QED BY <1>1, <1>7, <1>10, <1>11, <1>12, <1>13, CleanKeeps DEF Boxes!Exists

\* A cleanup marks the row of the container that it removed.
LEMMA BoxSweepMarks ==
    ASSUME BoxInv, NEW c \in Boxes!Live, IsCleanup(c), Boxes!SweepMark(c)
    PROVE  BoxInv'
<1>1. /\ bCall[c].pc = "sweepMark" /\ BoxTypes /\ Cleaning(c) /\ ~Boxes!Ended(c)
      /\ UNCHANGED <<host, bDo, containers, network, attempts, bEvidence, finding>>
      /\ Boxes!GoTo(c, "sweep")
  BY DEF Boxes!SweepMark, Boxes!At, BoxInv, InvOf, Boxes!Ended, Boxes!engine
<1>2. PICK e \in Boxes!Live : e = bCall[c].saw
  BY <1>1 DEF Cleaning
<1>3. bRows' = [bRows EXCEPT ![e] = IF bRows[e] = "none" THEN "none" ELSE "removed"]
  BY <1>2 DEF Boxes!SweepMark, Boxes!Marked
<1>4. DOMAIN bCall[c] = CallFields /\ bCall' = [bCall EXCEPT ![c] = [bCall[c] EXCEPT !.pc = "sweep"]]
  BY <1>1 DEF BoxTypes, Boxes!GoTo
<1>5. bCall'[c] = [bCall[c] EXCEPT !.pc = "sweep"]
  BY <1>1, <1>4 DEF BoxTypes
<1>6. DOMAIN bCall'[c] = CallFields /\ bCall'[c].pc = "sweep" /\ bCall'[c].todo = bCall[c].todo
  BY <1>4, <1>5 DEF CallFields
<1>7. DOMAIN bCall' = Boxes!Live /\ \A d \in Boxes!Live \ {c} : bCall'[d] = bCall[d]
  BY <1>1, <1>4 DEF BoxTypes
<1>8. /\ DOMAIN bRows' = Boxes!Live /\ \A d \in Boxes!Live \ {e} : bRows'[d] = bRows[d]
      /\ bRows'[e] = IF bRows[e] = "none" THEN "none" ELSE "removed"
  BY <1>1, <1>3 DEF BoxTypes
<1>9. Boxes!Live' = Boxes!Live /\ Boxes!NetworkNames' = Boxes!NetworkNames /\ \A d : IsCleanup(d)' = IsCleanup(d)
  BY <1>1 DEF Boxes!Live, Boxes!NetworkNames, IsCleanup
<1>10. BoxTypes'
  BY <1>1, <1>6, <1>7, <1>8, <1>9 DEF BoxTypes
<1>11. Networks'
  BY <1>1, NetKept DEF BoxInv
<1>12. Cleaning(c)'
  BY <1>1, <1>6, <1>9 DEF Cleaning, Boxes!Gone
<1>13. ASSUME NEW d \in Boxes!Live \ {c}
       PROVE  \/ containers'[d] = containers[d] /\ bRows'[d] = bRows[d] /\ (Swept(d)' <=> Swept(d))
              \/ /\ Swept(d) /\ containers'[d] = containers[d]
                 /\ bRows'[d] = IF bRows[d] = "none" THEN "none" ELSE "removed"
  <2>1. CASE d = e
    BY <1>1, <1>2, <1>8, <2>1 DEF Swept
  <2>2. CASE d # e
    BY <1>1, <1>2, <1>6, <1>7, <1>8, <1>9, <2>2 DEF Swept
  <2> QED BY <2>1, <2>2
<1> QED BY <1>1, <1>7, <1>10, <1>11, <1>12, <1>13, CleanKeeps DEF Boxes!Exists

\* A cleanup lists the networks, removes them, and ends.
LEMMA BoxSweepsNetworks ==
    ASSUME BoxInv, NEW c \in Boxes!Live, IsCleanup(c),
           Boxes!ListNetworks(c) \/ Boxes!SweepNetwork(c) \/ Boxes!EndCleanup(c)
    PROVE  BoxInv'
<1>1. /\ bCall[c].pc \in {"sweep", "sweepNetworks"} /\ BoxTypes /\ Cleaning(c) /\ ~Boxes!Ended(c)
      /\ UNCHANGED <<host, bDo, containers, bRows, attempts, bEvidence, finding>>
  BY DEF Boxes!ListNetworks, Boxes!SweepNetwork, Boxes!EndCleanup, Boxes!At, BoxInv, InvOf, Boxes!Ended,
         Boxes!engine, Boxes!tables
<1>2. c \in DOMAIN bCall /\ DOMAIN bCall[c] = CallFields
  BY <1>1 DEF BoxTypes
<1>3. /\ DOMAIN bCall' = Boxes!Live /\ \A d \in Boxes!Live \ {c} : bCall'[d] = bCall[d]
      /\ DOMAIN bCall'[c] = CallFields /\ bCall'[c].pc \in {"sweepNetworks", "answered"}
      /\ bCall'[c].pc = "sweepNetworks" => bCall'[c].todo \subseteq Boxes!NetworkNames
      /\ network' = network \/ \E n \in Boxes!NetworkNames : network' = Boxes!WithoutNetwork(n)
  <2>1. CASE Boxes!ListNetworks(c)
    <3>1. PICK T \in SUBSET Boxes!NetworkNames :
            bCall' = [bCall EXCEPT ![c] = [bCall[c] EXCEPT !.pc = "sweepNetworks", !.todo = T]]
      BY <2>1 DEF Boxes!ListNetworks
    <3>2. bCall'[c] = [bCall[c] EXCEPT !.pc = "sweepNetworks", !.todo = T]
      BY <1>2, <3>1
    <3>3. DOMAIN bCall'[c] = CallFields /\ bCall'[c].pc = "sweepNetworks" /\ bCall'[c].todo = T
      BY <1>2, <3>2 DEF CallFields
    <3>4. DOMAIN bCall' = Boxes!Live /\ \A d \in Boxes!Live \ {c} : bCall'[d] = bCall[d]
      BY <1>1, <3>1 DEF BoxTypes
    <3> QED BY <2>1, <3>3, <3>4 DEF Boxes!ListNetworks, Boxes!engine
  <2>2. CASE Boxes!SweepNetwork(c)
    <3>1. PICK n \in bCall[c].todo :
            /\ network' = Boxes!WithoutNetwork(n)
            /\ bCall' = [bCall EXCEPT ![c] = [bCall[c] EXCEPT !.todo = bCall[c].todo \ {n}]]
      BY <2>2 DEF Boxes!SweepNetwork
    <3>2. bCall[c].pc = "sweepNetworks" /\ bCall[c].todo \subseteq Boxes!NetworkNames
      BY <1>1, <2>2 DEF Boxes!SweepNetwork, Boxes!At, Cleaning
    <3>3. bCall'[c] = [bCall[c] EXCEPT !.todo = bCall[c].todo \ {n}]
      BY <1>2, <3>1
    <3>4. /\ DOMAIN bCall'[c] = CallFields /\ bCall'[c].pc = "sweepNetworks"
          /\ bCall'[c].todo \subseteq Boxes!NetworkNames
      BY <1>2, <3>2, <3>3 DEF CallFields
    <3>5. DOMAIN bCall' = Boxes!Live /\ \A d \in Boxes!Live \ {c} : bCall'[d] = bCall[d]
      BY <1>1, <3>1 DEF BoxTypes
    <3> QED BY <3>1, <3>2, <3>4, <3>5
  <2>3. CASE Boxes!EndCleanup(c)
    <3>1. bCall' = [bCall EXCEPT ![c] = [bCall[c] EXCEPT !.pc = "answered"]] /\ network' = network
      BY <2>3 DEF Boxes!EndCleanup, Boxes!GoTo, Boxes!engine
    <3>2. bCall'[c] = [bCall[c] EXCEPT !.pc = "answered"]
      BY <1>2, <3>1
    <3>3. DOMAIN bCall'[c] = CallFields /\ bCall'[c].pc = "answered"
      BY <1>2, <3>2 DEF CallFields
    <3>4. DOMAIN bCall' = Boxes!Live /\ \A d \in Boxes!Live \ {c} : bCall'[d] = bCall[d]
      BY <1>1, <3>1 DEF BoxTypes
    <3> QED BY <3>1, <3>3, <3>4
  <2> QED BY <2>1, <2>2, <2>3
<1>4. Boxes!Live' = Boxes!Live /\ Boxes!NetworkNames' = Boxes!NetworkNames /\ \A d : IsCleanup(d)' = IsCleanup(d)
  BY <1>1 DEF Boxes!Live, Boxes!NetworkNames, IsCleanup
<1>5. /\ Networks' /\ DOMAIN network' = Boxes!NetworkNames
      /\ \A n \in Boxes!NetworkNames : DOMAIN network'[n] = {"by", "external"}
      /\ \A n \in Boxes!NetworkNames : network'[n].by # 0 => network[n].by # 0
  <2>1. CASE network' = network
    BY <1>1, <2>1, NetKept DEF BoxInv, BoxTypes
  <2>2. CASE \E n \in Boxes!NetworkNames : network' = Boxes!WithoutNetwork(n)
    <3>1. PICK n \in Boxes!NetworkNames : network' = Boxes!WithoutNetwork(n)
      BY <2>2
    <3>2. /\ Networks'
          /\ \/ network' = network
             \/ network' = [network EXCEPT ![n] = [by |-> 0, external |-> FALSE]]
      BY <1>1, <3>1, NetRemoved DEF BoxInv
    <3>3. DOMAIN [by |-> 0, external |-> FALSE] = {"by", "external"}
      OBVIOUS
    <3> QED BY <1>1, <3>2, <3>3 DEF BoxTypes
  <2> QED BY <1>3, <2>1, <2>2
<1>6. BoxTypes'
  BY <1>1, <1>3, <1>4, <1>5 DEF BoxTypes
<1>7. \A d \in Boxes!Live : Boxes!Exists(<<d>>)' => Boxes!Exists(<<d>>)
  <2>1. \A d \in Boxes!Live : <<d>> \in Boxes!NetworkNames
    BY <1>1, BoxLive DEF Boxes!NetworkNames
  <2> QED BY <1>5, <2>1 DEF Boxes!Exists
<1>8. Cleaning(c)'
  BY <1>1, <1>3, <1>4 DEF Cleaning, Boxes!Gone
<1>9. \A d \in Boxes!Live \ {c} :
        containers'[d] = containers[d] /\ bRows'[d] = bRows[d] /\ (Swept(d)' <=> Swept(d))
  BY <1>1, <1>3, <1>4 DEF Swept
<1> QED BY <1>1, <1>3, <1>5, <1>6, <1>7, <1>8, <1>9, CleanKeeps

\* At the beginning nothing has been made.
LEMMA BoxInitially ==
    ASSUME Boxes!Init
    PROVE  BoxInv
<1>1. PICK s \in SandboxScenarios : host = s.host /\ bDo = s.calls
  BY DEF Boxes!Init
<1>2. /\ \A c \in Boxes!Live : bCall[c] = Boxes!NewCall /\ containers[c] = [state |-> "none", on |-> 0]
      /\ \A c \in Boxes!Live : bRows[c] = "none" /\ attempts[c] = "none"
      /\ \A n \in Boxes!NetworkNames : network[n] = [by |-> 0, external |-> FALSE]
      /\ DOMAIN bCall = Boxes!Live /\ DOMAIN containers = Boxes!Live /\ DOMAIN network = Boxes!NetworkNames
      /\ DOMAIN bRows = Boxes!Live /\ DOMAIN attempts = Boxes!Live
      /\ bEvidence = {} /\ finding = "open"
  BY DEF Boxes!Init
<1>3. /\ \A c \in Boxes!Live : DOMAIN bCall[c] = CallFields /\ DOMAIN containers[c] = {"state", "on"}
      /\ \A n \in Boxes!NetworkNames : DOMAIN network[n] = {"by", "external"}
      /\ \A c \in Boxes!Live : bCall[c].pc = "idle" /\ ~bCall[c].made /\ bCall[c].saw = 0
                               /\ bCall[c].raised = "no" /\ bCall[c].hit = {}
  BY <1>2 DEF Boxes!NewCall, CallFields
<1>4. BoxTypes
  BY <1>1, <1>2, <1>3 DEF BoxTypes
<1>5. \A c \in Boxes!Live : <<c>> \in Boxes!NetworkNames
  BY <1>4, BoxLive DEF Boxes!NetworkNames
<1>6. Networks /\ Confirmed
  BY <1>2 DEF Networks, Confirmed, Boxes!Exists
<1>7. ASSUME NEW c \in Boxes!Live PROVE InvOf(c)
  <2>1. /\ Boxes!Gone(c) /\ ~Boxes!Exists(<<c>>) /\ Own(c) = {}
    BY <1>2, <1>5 DEF Boxes!Gone, Boxes!Exists, Own
  <2>2. ~Swept(c)
    BY <1>3 DEF Swept
  <2> QED BY <1>2, <1>3, <2>1, <2>2 DEF InvOf, Cleaning, BoxCall, InOrder, Tidy, Recorded, JudgedWell,
     Undisturbed, SawOwn,
        Early, Working, Back, Final, Boxes!Hit, Boxes!Over, Boxes!Ended, Boxes!Gone
<1> QED BY <1>4, <1>6, <1>7 DEF BoxInv

\* Every step keeps the invariant of the sandboxes.
LEMMA BoxNext ==
    ASSUME BoxInv, Boxes!Next
    PROVE  BoxInv'
<1>1. PICK c \in Boxes!CallIds \cap Boxes!Live : Boxes!Step(c)
  BY DEF Boxes!Next
<1>2. c \in Boxes!Live /\ InvOf(c)
  BY <1>1 DEF BoxInv
<1>3. CASE \/ Boxes!Begin(c) \/ Boxes!Require(c) \/ Boxes!CreateNetwork(c) \/ Boxes!RequireNetwork(c)
           \/ Boxes!EnsureNetwork(c) \/ Boxes!MakeNetwork(c) \/ Boxes!RecordNetwork(c) \/ Boxes!Pull(c)
           \/ Boxes!CreateContainer(c) \/ Boxes!RecordContainer(c) \/ Boxes!StartContainer(c)
  BY <1>2, <1>3, BoxBegins, BoxRequires, BoxCreatesNetwork, BoxRequiresNetwork, BoxEnsuresNetwork,
     BoxMakesNetwork, BoxRecordsNetwork, BoxPulls, BoxCreatesContainer, BoxRecordsContainer, BoxStarts
<1>4. CASE \/ Boxes!MarkStarted(c) \/ Boxes!WaitForExit(c) \/ Boxes!MarkEnd(c) \/ Boxes!WaitForHealthy(c)
           \/ Boxes!MarkRunning(c) \/ Boxes!ServiceExits(c) \/ Boxes!MarkFailed(c) \/ Boxes!RemoveContainer(c)
           \/ Boxes!MarkRemoved(c) \/ Boxes!RemoveNetwork(c) \/ Boxes!MarkCleaned(c)
  BY <1>2, <1>4, BoxMarksStarted, BoxWaits, BoxMarksEnd, BoxAwaitsHealth, BoxMarksRunning, BoxServiceExits,
     BoxMarksFailed, BoxRemoves, BoxMarksRemoved, BoxRemovesNetwork, BoxMarksCleaned
<1>5. CASE Boxes!Verdict(c) \/ Boxes!RecordEvent(c) \/ Boxes!HandleException(c) \/ Boxes!Fault(c)
  BY <1>2, <1>5, BoxJudges, BoxRecordsEvent, BoxHandlesException, BoxFaults
<1>6. CASE Boxes!BeginCleanup(c)
  BY <1>2, <1>6, BoxBeginsCleanup
<1>7. CASE \/ Boxes!SweepContainer(c) \/ Boxes!SweepMark(c) \/ Boxes!ListNetworks(c) \/ Boxes!SweepNetwork(c)
           \/ Boxes!EndCleanup(c)
  <2>1. bCall[c].pc \in {"sweep", "sweepMark", "sweepNetworks"}
    BY <1>7 DEF Boxes!SweepContainer, Boxes!SweepMark, Boxes!ListNetworks, Boxes!SweepNetwork, Boxes!EndCleanup,
                Boxes!At
  <2>2. IsCleanup(c)
    BY <1>2, <2>1 DEF InvOf, BoxCall, InOrder, Early, Working, Back, Final
  <2> QED BY <1>2, <1>7, <2>2, BoxSweeps, BoxSweepMarks, BoxSweepsNetworks
<1> QED BY <1>1, <1>3, <1>4, <1>5, <1>6, <1>7 DEF Boxes!Step

\* A step of another service keeps it too.
LEMMA BoxStays ==
    ASSUME BoxInv, UNCHANGED sandboxVars
    PROVE  BoxInv'
<1>1. UNCHANGED <<host, bDo, bCall, containers, network, bRows, attempts, bEvidence, finding>>
  BY DEF sandboxVars
<1>2. /\ Boxes!Live' = Boxes!Live /\ Boxes!NetworkNames' = Boxes!NetworkNames
      /\ \A d : /\ IsCleanup(d)' = IsCleanup(d) /\ Boxes!IsService(d)' = Boxes!IsService(d)
               /\ Boxes!IsPoc(d)' = Boxes!IsPoc(d) /\ Boxes!Gone(d)' = Boxes!Gone(d)
               /\ May(d)' = May(d) /\ Own(d)' = Own(d) /\ Swept(d)' = Swept(d) /\ Boxes!Ended(d)' = Boxes!Ended(d)
               /\ Quiet(d)' = Quiet(d)
      /\ Boxes!Sweeping' = Boxes!Sweeping
  BY <1>1 DEF Boxes!Live, Boxes!NetworkNames, IsCleanup, Boxes!IsService, Boxes!IsPoc, May, Own, Boxes!Gone,
         Boxes!MayExecute, Boxes!Available, Boxes!RuntimeAvailable, Boxes!Requested, Swept, Boxes!Sweeping,
         Boxes!Ended, Quiet
<1>3. BoxTypes' /\ Networks' /\ Confirmed'
  BY <1>1 DEF BoxInv, BoxTypes, Networks, Confirmed, Boxes!Exists, Boxes!Live, Boxes!NetworkOf,
     Boxes!NetworkNames,
              Boxes!Shared
<1>4. ASSUME NEW c \in Boxes!Live PROVE InvOf(c)'
  <2>1. InvOf(c)
    BY DEF BoxInv
  <2>2. CASE IsCleanup(c)
    BY <1>1, <1>2, <2>1, <2>2 DEF InvOf, Cleaning
  <2>3. CASE ~IsCleanup(c)
    <3>1. BoxCall(c)
      BY <2>1, <2>3 DEF InvOf
    <3>2. InOrder(c)' /\ Tidy(c)' /\ Recorded(c)'
      BY <1>1, <1>2, <3>1 DEF BoxCall, InOrder, Tidy, Recorded, Boxes!Hit, Boxes!Exists
    <3>3. JudgedWell(c)' /\ Undisturbed(c)' /\ SawOwn(c)'
      BY <1>1, <1>2, <3>1 DEF BoxCall, JudgedWell, Judged, Undisturbed, SawOwn, Boxes!Hit, Boxes!Over,
         Boxes!Row,
                              Boxes!Matched
    <3> QED BY <1>2, <2>3, <3>2, <3>3 DEF InvOf, BoxCall
  <2> QED BY <2>2, <2>3
<1> QED BY <1>2, <1>3, <1>4 DEF BoxInv

\* The sandboxes are as the invariant says while they are at hand.
LEMMA BoxInvariant == Spec => [](service = "sandboxes" => BoxInv)
<1>1. Init => (service = "sandboxes" => BoxInv)
  BY BoxInitially DEF Init
<1>2. ASSUME service = "sandboxes" => BoxInv, [Next]_vars
      PROVE  (service = "sandboxes" => BoxInv)'
  <2>1. CASE UNCHANGED vars
    BY <1>2, <2>1, BoxStays DEF vars
  <2>2. CASE Next
    <3>1. service' = service
      BY <2>2 DEF Next
    <3> SUFFICES ASSUME service = "sandboxes" PROVE BoxInv'
      BY <3>1
    <3>2. Boxes!Next
      BY <2>2 DEF Next
    <3> QED BY <1>2, <3>2, BoxNext
  <2> QED BY <1>2, <2>1, <2>2
<1> QED BY <1>1, <1>2, PTL DEF Spec

\* What the invariant says of the calls that are over is what they promise.
LEMMA BoxPromises ==
    ASSUME BoxInv
    PROVE  Boxes!SandboxesAsPromised
<1>1. \A c \in Boxes!Live : ~IsCleanup(c) => BoxCall(c)
  BY DEF BoxInv, InvOf
<1>2. Boxes!PocLeavesNothing
  <2> SUFFICES ASSUME NEW c \in Boxes!Live, Boxes!IsPoc(c), Boxes!Over(c), ~bDo[c].retain
               PROVE  /\ Boxes!Gone(c) \/ Boxes!Hit(c, {"create", "remove"})
                      /\ ~Boxes!Exists(<<c>>)
                         \/ Boxes!Hit(c, {"network", "recordNetwork", "pull", "remove", "removeNetwork"})
    BY DEF Boxes!PocLeavesNothing
  <2>1. Tidy(c)
    BY <1>1 DEF BoxCall, IsCleanup, Boxes!IsPoc
  <2> QED BY <2>1 DEF Tidy, Final, Working, Boxes!Over
<1>3. Boxes!RowsFit
  <2> SUFFICES ASSUME NEW c \in Boxes!Live, Boxes!Over(c), ~IsCleanup(c), bCall[c].hit = {}, ~bCall[c].met,
                      ~Boxes!Sweeping
               PROVE  /\ Boxes!Gone(c) <=> bRows[c] \in {"none", "removed"}
                      /\ bRows[c] \in {"starting", "running"} => Boxes!IsService(c) /\ bCall[c].pc = "answered"
    BY DEF Boxes!RowsFit, IsCleanup, Boxes!At
  <2>1. ~Swept(c)
    BY SweptSweeps
  <2> QED BY <1>1, <2>1 DEF BoxCall, Recorded, Quiet, Final, Boxes!Over
<1>4. Boxes!IsolatedAsAsked
  <2> SUFFICES ASSUME NEW c \in Boxes!Live, containers[c].state = "running"
               PROVE  /\ Boxes!Runtime = "runc" => host.allowRunc \/ bDo[c].weak
                      /\ Boxes!IsService(c) /\ network[Boxes!Shared].external # bDo[c].external
                         => network[Boxes!Shared].by \notin {c, bCall[c].saw}
    BY DEF Boxes!IsolatedAsAsked
  <2>1. ~IsCleanup(c) /\ ~Boxes!Gone(c)
    BY DEF BoxInv, InvOf, Cleaning, Boxes!Gone
  <2>2. May(c) /\ SawOwn(c)
    BY <1>1, <2>1 DEF BoxCall, InOrder
  <2>3. Boxes!Runtime = "runc" => host.allowRunc \/ bDo[c].weak
    BY <2>2 DEF May, Boxes!Runtime, Boxes!MayExecute, Boxes!Available
  <2>4. Boxes!Exists(Boxes!NetworkOf(c))
    BY DEF BoxInv, Networks
  <2>5. Boxes!IsService(c) => Boxes!NetworkOf(c) = Boxes!Shared
    BY BoxLive DEF BoxInv, Boxes!NetworkOf
  <2>6. Boxes!Exists(Boxes!Shared) => network[Boxes!Shared].external = bDo[network[Boxes!Shared].by].external
    BY DEF BoxInv, Networks, Boxes!NetworkNames
  <2> QED BY <2>2, <2>3, <2>4, <2>5, <2>6 DEF SawOwn, Boxes!Exists
<1>5. Boxes!VerdictsAgree
  <2>1. finding = "confirmed" => \E e \in bEvidence : e.matched /\ bDo[e.call].mark
    BY DEF BoxInv, Confirmed
  <2>2. ASSUME NEW c \in Boxes!Live, bDo[c].kind = "finding", Boxes!Over(c)
        PROVE  /\ attempts[c] = "running" => Boxes!Hit(c, {"except"})
               /\ attempts[c] = "completed" => Own(c) = {[call |-> c, kind |-> "poc-run", matched |-> TRUE]}
               /\ attempts[c] = "failed" /\ (\E e \in Own(c) : e.matched) => Boxes!Hit(c, {"event"})
               /\ attempts[c] = "unavailable" => ~May(c) \/ Boxes!Hit(c, {"start"})
    BY <1>1, <2>2 DEF BoxCall, IsCleanup, JudgedWell
  <2> QED BY <2>1, <2>2 DEF Boxes!VerdictsAgree, Own, May
<1>6. Boxes!PocIsUndisturbed
  BY <1>1 DEF Boxes!PocIsUndisturbed, BoxCall, Undisturbed, IsCleanup, Boxes!IsPoc
<1> QED BY <1>2, <1>3, <1>4, <1>5, <1>6 DEF Boxes!SandboxesAsPromised

\* A PoC leaves no container and no network unless a step of theirs failed, rows tell what became
\* of the containers, nothing runs under an isolation that was not allowed, and evidence, attempts
\* and finding agree (run_poc_container, start_sandbox_service, run_finding_poc, cleanup_run).
THEOREM SandboxesKeepPromises == Spec => []SandboxesAsPromised
<1>1. (service = "sandboxes" => BoxInv) => SandboxesAsPromised
  BY BoxPromises DEF SandboxesAsPromised
<1> QED BY <1>1, BoxInvariant, PTL
=============================================================================
