----------------------------- MODULE MCAuditRun -----------------------------
(* Small instances of AuditRunLifecycle for TLC. *)
EXTENDS AuditRunLifecycle, TLC

Interchangeable == Permutations(Workers) \cup Permutations(Calls)
MortalsInterchange == Permutations(Mortal) \cup Permutations(Calls)
\* Without recovery passes nobody reads the heartbeats, and without
\* create_audit_run nobody reads what a request that is done was about.
WithoutTraces ==
    <<status, config, containers, worker, stopping, queuings, claims, intrusions,
      [c \in Calls |-> IF call[c].pc = "done" THEN <<>> ELSE <<call[c]>>]>>
ReportOnly == << >>
OneStage == <<"validation-judgement">>
=============================================================================
