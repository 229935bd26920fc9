----------------------------- MODULE RunLedger -----------------------------
(***************************************************************************)
(* What the durable queue of audit runs promises, with nothing said of     *)
(* handlers, workers, sessions or crashes: putting a run in the queue      *)
(* issues one ticket, and a waiting run is either taken, which uses its    *)
(* ticket, or withdrawn unexecuted.                                        *)
(***************************************************************************)
EXTENDS Naturals

CONSTANT Runs

VARIABLES
    waiting,  \* the runs that wait for a worker
    issued,   \* run |-> tickets issued
    taken     \* run |-> tickets used by a worker

ledgerVars == <<waiting, issued, taken>>

Init ==
    /\ waiting = {}
    /\ issued = [r \in Runs |-> 0]
    /\ taken = [r \in Runs |-> 0]

Enqueue(r) ==
    /\ waiting' = waiting \cup {r}
    /\ issued' = [issued EXCEPT ![r] = @ + 1]
    /\ UNCHANGED taken

Take(r) ==
    /\ r \in waiting
    /\ waiting' = waiting \ {r}
    /\ taken' = [taken EXCEPT ![r] = @ + 1]
    /\ UNCHANGED issued

\* A cancellation, a recovery pass or the end of another execution of the
\* same run removes it from the queue; a recovery pass removes several.
Withdraw ==
    /\ waiting' \in SUBSET waiting
    /\ UNCHANGED <<issued, taken>>

Next ==
    \/ \E r \in Runs : Enqueue(r) \/ Take(r)
    \/ Withdraw

Spec == Init /\ [][Next]_ledgerVars
=============================================================================
