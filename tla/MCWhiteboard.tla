---------------------------- MODULE MCWhiteboard ----------------------------
(* Calls of the instance of Whiteboard in MCServices. *)
EXTENDS Naturals

CONSTANT None

AnyEvent == [cards |-> {}, entities |-> {}, dependencies |-> {}]
OfCard(k) == [AnyEvent EXCEPT !.cards = {k}]

Card(a, k) == [by |-> a, kind |-> "card", card |-> k, triage |-> None]
Update(a, k, status, triage) == [by |-> a, kind |-> "update", card |-> k, status |-> status, triage |-> triage]
Note(a, k) == [by |-> a, kind |-> "note", card |-> k]
Attachment(a, k) == [by |-> a, kind |-> "attachment", card |-> k]
Edge(a, ends) == [by |-> a, kind |-> "edge", ends |-> ends]
Evidence(a, ks) == [by |-> a, kind |-> "evidence", cards |-> ks]
PollEvents(a) == [by |-> a, kind |-> "poll"]
Sub(a, filter) == [by |-> a, kind |-> "subscribe", filter |-> filter, subscriber |-> a]
SubTask(a, filter) == [Sub(a, filter) EXCEPT !.subscriber = None]
Mark(a, n, status) == [by |-> a, kind |-> "mark", notification |-> n, status |-> status, agent |-> a]
MarkUnnamed(a, n, status) == [Mark(a, n, status) EXCEPT !.agent = None]
Ask(a, ks) == [by |-> a, kind |-> "request", cards |-> ks]
Decide(a, r, status) == [by |-> a, kind |-> "decide", request |-> r, status |-> status]
Triage(a, k, value) == [by |-> a, kind |-> "triage", card |-> k, value |-> value]

\* Agents that change one card and submit it; agents that watch a board on which
\* others write; agents that share a notification; claims that name no agent, of
\* subscriptions by an agent and by a task; requests that are decided twice while the
\* value of their card changes.
Scenes == {
    <<Update("a", "k1", "stuck", "keep"), Evidence("b", {"k1"}), Note("c", "k1"), Update("c", "k1", "open", None)>>,
    <<Sub("a", OfCard("k1")), PollEvents("a"), PollEvents("a"), PollEvents("a"), Note("b", "k1"), Card("c", "k2"),
      Edge("c", {"k1", "k2"})>>,
    <<Sub("a", [AnyEvent EXCEPT !.dependencies = {"k1"}]),
      Sub("a", [OfCard("k2") EXCEPT !.entities = {"card"}]),
      Card("b", "k2"), Edge("b", {"k1", "k2"}), Attachment("b", "k1")>>,
    <<Sub("a", OfCard("k1")), Note("a", "k1"), Mark("a", <<2, 1>>, "claimed"), Mark("a", <<2, 1>>, "handled"),
      Mark("b", <<2, 1>>, "claimed"), Mark("b", <<2, 1>>, "ignored"), Mark("c", <<2, 1>>, "pending")>>,
    <<Sub("a", OfCard("k1")), SubTask("a", OfCard("k1")), Note("a", "k1"),
      MarkUnnamed("b", <<3, 1>>, "claimed"), Mark("c", <<3, 1>>, "claimed"),
      MarkUnnamed("b", <<3, 2>>, "claimed"), Mark("c", <<3, 2>>, "claimed"), Mark("c", <<3, 2>>, "handled"),
      MarkUnnamed("d", <<3, 2>>, "claimed")>>,
    <<Card("a", "k2"), Update("b", "k2", "stuck", "keep"), Note("b", "k2")>>,
    <<Ask("a", {"k1"}), Decide("a", 1, "approved"), Decide("b", 1, "scheduled"),
      Decide("b", 1, "merged"), Triage("c", "k1", "evidence_only"), Update("c", "k1", None, None)>>,
    <<Ask("a", {"k2"}), Decide("a", 1, "approved"), Ask("a", {"k1"}), Decide("b", 3, "rejected"),
      Decide("c", 3, "approved")>>}
=============================================================================
