-------------------------- MODULE MCSplitPipeline --------------------------
(* Small instances of SplitPipeline for TLC. *)
EXTENDS SplitPipeline, TLC

\* One stage of each policy, in their order; two of them may be disabled.
FourStages == <<"snapshot-ready", "whiteboard-swarm", "report",
                "runtime-cleanup">>
TwoStages == <<"snapshot-ready", "runtime-cleanup">>
NoneDisabled == {{}}
SomeDisabled == {{}, {"snapshot-ready", "runtime-cleanup"}}
Interchangeable == Permutations(Workers) \cup Permutations(Calls)
=============================================================================
