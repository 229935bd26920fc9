----------------------------- MODULE MCReports -----------------------------
(* Calls of the instance of ReportFiles in MCServices. *)
EXTENDS Naturals

OfTheRun == "none"

Finding(a, f) == [by |-> a, kind |-> "finding", finding |-> f]
Evidence(a, f) == [by |-> a, kind |-> "evidence", finding |-> f]
Report(a) == [by |-> a, kind |-> "report"]
Package(a) == [by |-> a, kind |-> "deliverables"]
Get(a, p) == [by |-> a, kind |-> "artifact", path |-> p]

Scenes == {
    <<Finding("a", "f1"), Report("a"), Get("b", <<"report", 2, OfTheRun>>), Package("b"), Finding("c", "f2")>>,
    <<Finding("a", "f1"), Evidence("a", "f1"), Package("b"), Package("c")>>,
    <<Finding("a", "f1"), Report("b"), Report("c"), Finding("a", "f2")>>,
    <<Finding("a", "f1"), Report("a"), Finding("a", "f2"), Report("a"), Get("b", <<"report", 2, "f1">>)>>}
=============================================================================
