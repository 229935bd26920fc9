----------------------------- MODULE MCFindings -----------------------------
(* Instances of FindingLifecycle for TLC. *)
EXTENDS FindingLifecycle

\* One card, which is worth a deep dive, and whether it still is when it is triaged again.
OneCard == <<"x">>
DeepDive == <<{"deep_dive", "evidence_only"}>>

\* An agent reports twice what the card is about; the batches of the feedback rounds find z.
ItemsOfOutputs == [o \in Outputs |-> IF o = "o1" THEN <<"x", "x">> ELSE <<"z">>]

\* A pipeline whose findings are listed, one that is cancelled in its feedback
\* rounds, one that is judged while it validates, two that write PoCs.
Pipelines == {{"swarm", "list", "post"}, {"swarm", "validation", "feedback", "cancel"},
              {"validation", "judge"}, {"swarm", "poc", "verify", "judge"},
              {"swarm", "validation", "poc", "verify", "cancel"}, {"swarm", "poc", "verify", "retriage"}}
=============================================================================
