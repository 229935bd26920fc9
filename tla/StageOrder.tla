----------------------------- MODULE StageOrder -----------------------------
(***************************************************************************)
(* StageRegistry.ordered of the workflow worker: the order in which the    *)
(* stages of a pipeline are run, computed from their dependencies.         *)
(*                                                                         *)
(* A stage name is a number; numbers compare as the names do.  Init takes  *)
(* every dependency graph over Names, with dependencies on the Unknown     *)
(* stage among them, and a step is one pass through a loop of the method.  *)
(***************************************************************************)
EXTENDS Integers, FiniteSets, Sequences

CONSTANTS Names,    \* the names of the registered stages
          Unknown   \* a name no stage has

ASSUME StageOrderAssumption ==
    /\ Names \subseteq Nat /\ IsFiniteSet(Names)
    /\ Unknown \in Nat \ Names

VARIABLES
    dependsOn,  \* stage |-> depends_on
    indegree,   \* stage |-> dependencies not in the order yet
    queue,      \* stages whose dependencies all are
    ordered,    \* the order so far
    outcome     \* "start", "loop", or what the method returned or raised

vars == <<dependsOn, indegree, queue, ordered, outcome>>

\* sorted(...): the sequence of the numbers in S, the smaller ones first.
Sorted(S) == CHOOSE q \in [1..Cardinality(S) -> S] : \A i, j \in DOMAIN q : i < j => q[i] < q[j]

Children(name) == {s \in Names : name \in dependsOn[s]}

Init ==
    /\ dependsOn \in [Names -> SUBSET (Names \cup {Unknown})]
    /\ indegree = [s \in Names |-> 0]
    /\ queue = << >> /\ ordered = << >>
    /\ outcome = "start"

\* The first loop, and the queue of the stages without dependencies.
CountDependencies ==
    /\ outcome = "start"
    /\ IF \E s \in Names : ~(dependsOn[s] \subseteq Names)
       THEN outcome' = "unknown" /\ UNCHANGED <<indegree, queue>>
       ELSE /\ outcome' = "loop"
            /\ indegree' = [s \in Names |-> Cardinality(dependsOn[s])]
            /\ queue' = Sorted({s \in Names : dependsOn[s] = {}})
    /\ UNCHANGED <<dependsOn, ordered>>

\* Mutant: a child is queued with its first dependency, not with its last.
TakeStageEager ==
    LET name == Head(queue)
        ready == {s \in Children(name) :
                     indegree[s] = Cardinality(dependsOn[s])}
    IN  /\ outcome = "loop" /\ queue # << >>
        /\ ordered' = Append(ordered, name)
        /\ indegree' = [s \in Names |->
               IF s \in Children(name) THEN indegree[s] - 1 ELSE indegree[s]]
        /\ queue' = Tail(queue) \o Sorted(ready)
        /\ UNCHANGED <<dependsOn, outcome>>

TakeStage ==
    LET name == Head(queue)
        ready == {s \in Children(name) : indegree[s] = 1}
    IN  /\ outcome = "loop" /\ queue # << >>
        /\ ordered' = Append(ordered, name)
        /\ indegree' = [s \in Names |->
               IF s \in Children(name) THEN indegree[s] - 1 ELSE indegree[s]]
        /\ queue' = Tail(queue) \o Sorted(ready)
        /\ UNCHANGED <<dependsOn, outcome>>

\* Mutant: an incomplete order is returned.
FinishWithoutCheck ==
    /\ outcome = "loop" /\ queue = << >>
    /\ outcome' = "ordered"
    /\ UNCHANGED <<dependsOn, indegree, queue, ordered>>

\* Mutant: the loop goes on until the order is complete, instead of until
\* the queue is empty.
FinishComplete ==
    /\ outcome = "loop" /\ queue = << >>
    /\ Len(ordered) = Cardinality(Names)
    /\ outcome' = "ordered"
    /\ UNCHANGED <<dependsOn, indegree, queue, ordered>>

Finish ==
    /\ outcome = "loop" /\ queue = << >>
    /\ outcome' = IF Len(ordered) = Cardinality(Names) THEN "ordered"
                  ELSE "cycle"
    /\ UNCHANGED <<dependsOn, indegree, queue, ordered>>

Next == CountDependencies \/ TakeStage \/ Finish

Spec == Init /\ [][Next]_vars /\ WF_vars(Next)

----------------------------------------------------------------------------
(* Properties.                                                             *)

\* A stage of S has a dependency in S: no stage of S can ever be first.
Cyclic == \E S \in (SUBSET Names) \ {{}} : \A s \in S : dependsOn[s] \cap S # {}

\* At every moment a stage in the order follows all of its dependencies and
\* appears once: the executor runs no stage before what it depends on.
DependenciesFirst ==
    /\ \A i \in 1..Len(ordered) :
          \A d \in dependsOn[ordered[i]] :
             \E j \in 1..(i - 1) : ordered[j] = d
    /\ \A i, j \in 1..Len(ordered) : ordered[i] = ordered[j] => i = j

\* The method returns an order of all stages exactly if the graph has no
\* cycle and no unknown name; otherwise it raises the error that fits.
OutcomeFits ==
    /\ outcome = "ordered" =>
          /\ \A s \in Names : dependsOn[s] \subseteq Names
          /\ ~Cyclic /\ {ordered[i] : i \in 1..Len(ordered)} = Names
    /\ outcome = "cycle" => Cyclic
    /\ outcome = "unknown" => \E s \in Names : ~(dependsOn[s] \subseteq Names)

\* The method ends for every graph.
Ends == <>(outcome \in {"ordered", "cycle", "unknown"})
=============================================================================
