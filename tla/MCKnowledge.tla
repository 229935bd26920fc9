---------------------------- MODULE MCKnowledge ----------------------------
(* Documents and calls of the instance of KnowledgeBase in MCServices. *)
EXTENDS Naturals

Texts == {"long", "short", "empty"}

Words == [d \in Texts |-> CASE d = "long" -> 4 [] d = "short" -> 1 [] OTHER -> 0]
Scopes == [d \in Texts |-> IF d = "short" THEN "project" ELSE "global"]

Up(a, d) == [by |-> a, kind |-> "upload", document |-> d]
Re(a, d) == [by |-> a, kind |-> "reindex", document |-> d]
Del(a, d) == [by |-> a, kind |-> "delete", document |-> d]
Find(a, scopes) == [by |-> a, kind |-> "search", scopes |-> scopes]

\* Two first uploads; calls on one document that follow one another or meet; a document
\* without words; a search while documents come and go.
Scenes == {
    <<Up("a", "short"), Up("b", "empty"), Re("b", "empty"), Find("a", {"project", "global"})>>,
    <<Re("a", "long"), Re("b", "long"), Find("a", {"global"})>>,
    <<Re("a", "long"), Del("b", "long"), Find("a", {"global"}), Find("b", {"global"})>>,
    <<Del("a", "long"), Del("b", "long"), Up("a", "short"), Find("b", {"project"})>>,
    <<Re("a", "long"), Re("a", "long"), Del("a", "long"), Find("b", {"global"})>>,
    <<Re("a", "long"), Re("b", "long"), Del("c", "long"), Find("c", {"global"})>>,
    <<Up("a", "short"), Re("b", "short"), Re("b", "long"), Del("c", "short"), Find("b", {"project", "global"})>>}
=============================================================================
