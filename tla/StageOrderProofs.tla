-------------------------- MODULE StageOrderProofs --------------------------
(***************************************************************************)
(* Proofs about StageRegistry.ordered, for every dependency graph over any *)
(* finite set of stages: the order never puts a stage before one of its    *)
(* dependencies, and what the method returns or raises fits the graph.     *)
(*                                                                         *)
(* The invariant is the one Kahn's algorithm rests on: the counter of a    *)
(* stage is the number of its dependencies that are not in the order yet,  *)
(* and the stages without such a dependency are exactly those in the order *)
(* or in the queue.                                                        *)
(***************************************************************************)
EXTENDS StageOrder, Integers, Sequences, FiniteSets,
        FiniteSetTheorems, WellFoundedInduction, TLAPS

-----------------------------------------------------------------------------
(* Facts about numbers *)

\* A set of numbers that is not empty has a least element.
LEMMA LeastNumber ==
    ASSUME NEW T \in SUBSET Nat, T # {}
    PROVE  \E n \in T : \A m \in T : n <= m
<1>1. PICK n \in T : \A m \in T : ~ (<<m, n>> \in OpToRel(<, Nat))
  BY NatLessThanWellFounded, WFMin
<1>2. \A m \in T : ~ (m < n)
  BY <1>1 DEF OpToRel
<1> QED BY <1>2

\* A set that holds 0 and with every number the next one holds all numbers.
LEMMA SetInduction ==
    ASSUME NEW T, 0 \in T, \A n \in Nat : n \in T => n + 1 \in T
    PROVE  \A n \in Nat : n \in T
<1> SUFFICES ASSUME Nat \ T # {} PROVE FALSE
  OBVIOUS
<1>1. PICK n \in Nat \ T : \A m \in Nat \ T : n <= m
  BY LeastNumber
<1>2. n # 0 /\ n - 1 \in Nat /\ n - 1 \in T
  BY <1>1
<1>3. n - 1 + 1 \in T
  BY <1>2
<1> QED BY <1>1, <1>3

-----------------------------------------------------------------------------
(* Sequences without repetition *)

Increasing(q) == \A i, j \in DOMAIN q : i < j => q[i] < q[j]

\* The numbers of a finite set can be put in order.
LEMMA OrderExists ==
    ASSUME NEW S \in SUBSET Nat, IsFiniteSet(S)
    PROVE  \E q \in [1..Cardinality(S) -> S] : Increasing(q)
<1> DEFINE Ordered(U) == \E q \in [1..Cardinality(U) -> U] : Increasing(q)
           T == {n \in Nat : \A U \in SUBSET Nat : IsFiniteSet(U) /\ Cardinality(U) = n => Ordered(U)}
<1>1. 0 \in T
  <2> SUFFICES ASSUME NEW U \in SUBSET Nat, IsFiniteSet(U), Cardinality(U) = 0 PROVE Ordered(U)
    OBVIOUS
  <2>1. <<>> \in [1..0 -> U] /\ Increasing(<<>>)
    BY DEF Increasing
  <2> QED BY <2>1
<1>2. ASSUME NEW n \in Nat, n \in T PROVE n + 1 \in T
  <2> SUFFICES ASSUME NEW U \in SUBSET Nat, IsFiniteSet(U), Cardinality(U) = n + 1 PROVE Ordered(U)
    OBVIOUS
  <2>1. U # {}
    BY FS_EmptySet
  <2>2. PICK m \in U : \A k \in U : m <= k
    BY <2>1, LeastNumber
  <2> DEFINE V == U \ {m}
  <2>3. IsFiniteSet(V) /\ Cardinality(V) = n /\ V \in SUBSET Nat
    BY <2>2, FS_RemoveElement
  <2>4. PICK p \in [1..n -> V] : Increasing(p)
    <3>1. Ordered(V)
      <4> HIDE DEF V, Ordered
      <4> QED BY <1>2, <2>3
    <3> QED BY <2>3, <3>1
  <2> DEFINE q == [i \in 1..(n + 1) |-> IF i = 1 THEN m ELSE p[i - 1]]
  <2>5. q \in [1..(n + 1) -> U]
    <3>1. \A i \in 1..(n + 1) : i = 1 \/ i - 1 \in 1..n
      OBVIOUS
    <3> QED BY <2>2, <2>4, <3>1
  <2>6. Increasing(q)
    <3> SUFFICES ASSUME NEW i \in 1..(n + 1), NEW j \in 1..(n + 1), i < j PROVE q[i] < q[j]
      BY DEF Increasing
    <3>1. j # 1 /\ j - 1 \in 1..n /\ q[j] = p[j - 1] /\ p[j - 1] \in V
      BY <2>4
    <3>2. CASE i = 1
      <4>1. q[i] = m
        BY <3>2
      <4>2. p[j - 1] \in U /\ p[j - 1] # m /\ m \in Nat /\ p[j - 1] \in Nat
        BY <2>2, <3>1
      <4>3. m <= p[j - 1]
        BY <2>2, <4>2
      <4> HIDE DEF q
      <4> QED BY <3>1, <4>1, <4>2, <4>3
    <3>3. CASE i # 1
      <4>1. i - 1 \in 1..n /\ q[i] = p[i - 1] /\ i - 1 < j - 1
        BY <3>3
      <4>2. p[i - 1] < p[j - 1]
        BY <2>4, <3>1, <4>1 DEF Increasing
      <4> QED BY <3>1, <4>1, <4>2
    <3> QED BY <3>2, <3>3
  <2> HIDE DEF q
  <2> QED BY <2>5, <2>6
<1>3. \A n \in Nat : n \in T
  <2> HIDE DEF T
  <2> QED BY <1>1, <1>2, SetInduction
<1>4. Cardinality(S) \in Nat
  BY FS_CardinalityType
<1> QED BY <1>3, <1>4

\* A sequence without repetition has as many elements as it is long.
LEMMA DistinctElements ==
    ASSUME NEW S, NEW q \in Seq(S), \A i, j \in 1..Len(q) : q[i] = q[j] => i = j
    PROVE  LET E == {q[i] : i \in 1..Len(q)}
           IN  IsFiniteSet(E) /\ Cardinality(E) = Len(q)
<1> DEFINE E == {q[i] : i \in 1..Len(q)}
<1>1. Len(q) \in Nat
  OBVIOUS
<1>2. [i \in 1..Len(q) |-> q[i]] \in Bijection(1..Len(q), E)
  BY DEF Bijection, Injection, Surjection, IsInjective
<1>3. ExistsBijection(1..Len(q), E)
  BY <1>2 DEF ExistsBijection
<1> HIDE DEF E
<1> QED BY <1>1, <1>3, FS_CountingElements, FS_NatBijection DEF E

\* An increasing sequence holds no number twice.
LEMMA IncreasingIsDistinct ==
    ASSUME NEW S \in SUBSET Nat, NEW q \in Seq(S), Increasing(q)
    PROVE  \A i, j \in 1..Len(q) : q[i] = q[j] => i = j
<1> SUFFICES ASSUME NEW i \in 1..Len(q), NEW j \in 1..Len(q), i # j PROVE q[i] # q[j]
  OBVIOUS
<1>1. i \in Nat /\ j \in Nat
  OBVIOUS
<1>2. q[i] \in S /\ q[j] \in S
  OBVIOUS
<1>3. q[i] \in Nat /\ q[j] \in Nat
  BY <1>2
<1>4. i < j \/ j < i
  BY <1>1
<1> QED BY <1>1, <1>3, <1>4 DEF Increasing

\* An increasing sequence of as many numbers as a set has holds all of them, each once.
LEMMA IncreasingFacts ==
    ASSUME NEW S \in SUBSET Nat, IsFiniteSet(S), NEW q \in [1..Cardinality(S) -> S], Increasing(q)
    PROVE  /\ q \in Seq(S) /\ Len(q) = Cardinality(S)
           /\ \A i, j \in 1..Len(q) : q[i] = q[j] => i = j
           /\ {q[i] : i \in 1..Len(q)} = S
<1>1. Cardinality(S) \in Nat
  BY FS_CardinalityType
<1>2. q \in Seq(S) /\ Len(q) = Cardinality(S)
  <2> DEFINE n == Cardinality(S)
  <2>1. n \in Nat /\ q \in [1..n -> S]
    BY <1>1
  <2> HIDE DEF n
  <2>2. q \in Seq(S) /\ Len(q) = n
    BY <2>1
  <2> QED BY <2>2 DEF n
<1>3. \A i, j \in 1..Len(q) : q[i] = q[j] => i = j
  BY <1>2, IncreasingIsDistinct
<1>4. {q[i] : i \in 1..Len(q)} = S
  <2> DEFINE E == {q[i] : i \in 1..Len(q)}
  <2>1. E \in SUBSET S
    BY <1>2
  <2>2. IsFiniteSet(E) /\ Cardinality(E) = Cardinality(S)
    BY <1>2, <1>3, DistinctElements
  <2> HIDE DEF E
  <2>3. E = S
    BY <2>1, <2>2, FS_Subset
  <2> QED BY <2>3 DEF E
<1> QED BY <1>2, <1>3, <1>4

Members(q) == {q[i] : i \in 1..Len(q)}
Distinct(q) == \A i, j \in 1..Len(q) : q[i] = q[j] => i = j

-----------------------------------------------------------------------------
(* Sequences *)

\* sorted(...) of a finite set of names lists each of them once.
LEMMA SortedFacts ==
    ASSUME NEW S \in SUBSET Nat, IsFiniteSet(S)
    PROVE  Sorted(S) \in Seq(S) /\ Distinct(Sorted(S)) /\ Members(Sorted(S)) = S
<1>1. Sorted(S) \in [1..Cardinality(S) -> S] /\ Increasing(Sorted(S))
  BY OrderExists DEF Sorted, Increasing
<1> DEFINE q == Sorted(S)
<1>2. q \in [1..Cardinality(S) -> S] /\ Increasing(q)
  BY <1>1
<1> HIDE DEF q
<1>3. q \in Seq(S) /\ Distinct(q) /\ Members(q) = S
  BY <1>2, IncreasingFacts DEF Distinct, Members
<1> QED BY <1>3 DEF q

\* Appending an element that is not there yet.
LEMMA AppendFacts ==
    ASSUME NEW S, NEW q \in Seq(S), NEW x \in S, x \notin Members(q), Distinct(q)
    PROVE  /\ Append(q, x) \in Seq(S) /\ Distinct(Append(q, x))
           /\ Members(Append(q, x)) = Members(q) \cup {x}
<1> DEFINE n == Len(q)
           p == Append(q, x)
<1>1. n \in Nat /\ p \in Seq(S) /\ Len(p) = n + 1 /\ p[n + 1] = x /\ \A i \in 1..n : p[i] = q[i]
  OBVIOUS
<1> HIDE DEF p, n
<1>2. 1..(n + 1) = 1..n \cup {n + 1}
  BY <1>1
<1>3. \A i \in 1..n : q[i] # x
  BY DEF Members, n
<1>4. Members(p) = Members(q) \cup {x}
  <2>1. ASSUME NEW y \in Members(p) PROVE y \in Members(q) \cup {x}
    BY <1>1, <1>2 DEF Members, n
  <2>2. ASSUME NEW y \in Members(q) PROVE y \in Members(p)
    <3>1. PICK i \in 1..n : y = q[i]
      BY DEF Members, n
    <3> QED BY <1>1, <1>2, <3>1 DEF Members
  <2>3. x \in Members(p)
    BY <1>1, <1>2 DEF Members
  <2> QED BY <2>1, <2>2, <2>3
<1>5. Distinct(p)
  <2> SUFFICES ASSUME NEW i \in 1..(n + 1), NEW j \in 1..(n + 1), p[i] = p[j] PROVE i = j
    BY <1>1 DEF Distinct
  <2>1. CASE i \in 1..n /\ j \in 1..n
    BY <1>1, <2>1 DEF Distinct, n
  <2>2. CASE i = n + 1 \/ j = n + 1
    BY <1>1, <1>2, <1>3, <2>2
  <2> QED BY <1>2, <2>1, <2>2
<1> QED BY <1>1, <1>4, <1>5 DEF p

\* Taking the first element off.
LEMMA TailFacts ==
    ASSUME NEW S, NEW q \in Seq(S), q # << >>, Distinct(q)
    PROVE  /\ Head(q) \in S /\ Head(q) \in Members(q)
           /\ Tail(q) \in Seq(S) /\ Distinct(Tail(q))
           /\ Members(Tail(q)) = Members(q) \ {Head(q)}
<1> DEFINE n == Len(q)
           p == Tail(q)
<1>1. n \in Nat \ {0} /\ p \in Seq(S) /\ Len(p) = n - 1 /\ Head(q) = q[1] /\ q[1] \in S
  OBVIOUS
<1>2. \A i \in 1..(n - 1) : p[i] = q[i + 1] /\ i + 1 \in 1..n /\ i + 1 # 1
  OBVIOUS
<1>3. \A i \in 1..n : i = 1 \/ i - 1 \in 1..(n - 1)
  BY <1>1
<1> HIDE DEF p, n
<1>4. 1 \in 1..n /\ \A i, j \in 1..n : q[i] = q[j] => i = j
  BY <1>1 DEF Distinct, n
<1>5. Members(p) = Members(q) \ {q[1]}
  <2>1. ASSUME NEW y \in Members(p) PROVE y \in Members(q) \ {q[1]}
    <3>1. PICK i \in 1..(n - 1) : y = p[i]
      BY <1>1 DEF Members
    <3>2. y = q[i + 1] /\ i + 1 \in 1..n /\ i + 1 # 1
      BY <1>2, <3>1
    <3> QED BY <1>4, <3>2 DEF Members, n
  <2>2. ASSUME NEW y \in Members(q), y # q[1] PROVE y \in Members(p)
    <3>1. PICK i \in 1..n : y = q[i]
      BY DEF Members, n
    <3>2. i - 1 \in 1..(n - 1) /\ (i - 1) + 1 = i
      BY <1>1, <1>3, <2>2, <3>1
    <3>3. y = p[i - 1]
      BY <1>2, <3>1, <3>2
    <3> QED BY <1>1, <3>2, <3>3 DEF Members
  <2> QED BY <2>1, <2>2
<1>6. Distinct(p)
  <2> SUFFICES ASSUME NEW i \in 1..(n - 1), NEW j \in 1..(n - 1), p[i] = p[j] PROVE i = j
    BY <1>1 DEF Distinct
  <2>1. i + 1 = j + 1
    BY <1>2, <1>4
  <2> QED BY <1>1, <2>1
<1>7. q[1] \in Members(q)
  BY <1>4 DEF Members, n
<1> QED BY <1>1, <1>5, <1>6, <1>7 DEF p

\* Joining two sequences that share no element.
LEMMA ConcatFacts ==
    ASSUME NEW S, NEW q \in Seq(S), NEW r \in Seq(S), Distinct(q), Distinct(r),
           Members(q) \cap Members(r) = {}
    PROVE  /\ q \o r \in Seq(S) /\ Distinct(q \o r)
           /\ Members(q \o r) = Members(q) \cup Members(r)
<1> DEFINE n == Len(q)
           m == Len(r)
           p == q \o r
<1>1. n \in Nat /\ m \in Nat /\ p \in Seq(S) /\ Len(p) = n + m
  OBVIOUS
<1>2. \A i \in 1..n : p[i] = q[i] /\ i \in 1..(n + m)
  OBVIOUS
<1>3. \A i \in 1..m : p[n + i] = r[i] /\ n + i \in 1..(n + m)
  OBVIOUS
<1> HIDE DEF p, n, m
<1>4. \A i \in 1..(n + m) : i \in 1..n \/ (i - n \in 1..m /\ n + (i - n) = i)
  BY <1>1
<1>5. Members(p) = Members(q) \cup Members(r)
  <2>1. ASSUME NEW y \in Members(p) PROVE y \in Members(q) \cup Members(r)
    <3>1. PICK i \in 1..(n + m) : y = p[i]
      BY <1>1 DEF Members
    <3>2. CASE i \in 1..n
      BY <1>2, <3>1, <3>2 DEF Members, n
    <3>3. CASE i - n \in 1..m /\ n + (i - n) = i
      <4>1. y = r[i - n]
        BY <1>3, <3>1, <3>3
      <4> QED BY <3>3, <4>1 DEF Members, m
    <3> QED BY <1>4, <3>2, <3>3
  <2>2. ASSUME NEW y \in Members(q) PROVE y \in Members(p)
    <3>1. PICK i \in 1..n : y = q[i]
      BY DEF Members, n
    <3> QED BY <1>1, <1>2, <3>1 DEF Members
  <2>3. ASSUME NEW y \in Members(r) PROVE y \in Members(p)
    <3>1. PICK i \in 1..m : y = r[i]
      BY DEF Members, m
    <3> QED BY <1>1, <1>3, <3>1 DEF Members
  <2> QED BY <2>1, <2>2, <2>3
<1>6. Distinct(p)
  <2> SUFFICES ASSUME NEW i \in 1..(n + m), NEW j \in 1..(n + m), p[i] = p[j] PROVE i = j
    BY <1>1 DEF Distinct
  <2> DEFINE First(k) == k \in 1..n /\ p[k] = q[k] /\ p[k] \in Members(q)
             Second(k) == k - n \in 1..m /\ n + (k - n) = k /\ p[k] = r[k - n] /\ p[k] \in Members(r)
  <2>1. ASSUME NEW k \in 1..(n + m) PROVE First(k) \/ Second(k)
    <3>1. CASE k \in 1..n
      BY <1>2, <3>1 DEF Members, n
    <3>2. CASE k - n \in 1..m /\ n + (k - n) = k
      <4>1. p[k] = r[k - n]
        BY <1>3, <3>2
      <4> QED BY <3>2, <4>1 DEF Members, m
    <3> QED BY <1>4, <3>1, <3>2
  <2>2. CASE First(i) /\ First(j)
    BY <2>2 DEF Distinct, n
  <2>3. CASE Second(i) /\ Second(j)
    <3>1. i - n = j - n
      BY <2>3 DEF Distinct, m
    <3> QED BY <2>3, <3>1
  <2>4. (First(i) /\ First(j)) \/ (Second(i) /\ Second(j))
    <3>1. ~ (p[i] \in Members(q) /\ p[i] \in Members(r))
      OBVIOUS
    <3> QED BY <2>1, <3>1
  <2> QED BY <2>2, <2>3, <2>4
<1> QED BY <1>1, <1>5, <1>6 DEF p

-----------------------------------------------------------------------------
(* The invariant *)

\* The dependencies of a stage that are not in the order yet.
Left(s) == dependsOn[s] \ Members(ordered)

Graph == dependsOn \in [Names -> SUBSET (Names \cup {Unknown})]

Lists ==
    /\ ordered \in Seq(Names) /\ Distinct(ordered)
    /\ queue \in Seq(Names) /\ Distinct(queue)
    /\ Members(ordered) \cap Members(queue) = {}

\* Once counted, a stage's counter is the number of the dependencies left,
\* and the stages with none left are those in the order or in the queue.
Counts ==
    outcome \in {"loop", "ordered", "cycle"} =>
        \A s \in Names :
            /\ dependsOn[s] \subseteq Names
            /\ indegree[s] = Cardinality(Left(s))
            /\ Left(s) = {} <=> s \in Members(ordered) \cup Members(queue)

\* What stands in the order follows all of its dependencies.
Placed ==
    \A i \in 1..Len(ordered) : \A d \in dependsOn[ordered[i]] : \E j \in 1..(i - 1) : ordered[j] = d

Results ==
    /\ outcome \in {"start", "loop", "ordered", "cycle", "unknown"}
    /\ outcome = "start" => ordered = << >> /\ queue = << >>
    /\ outcome = "unknown" => \E s \in Names : ~ (dependsOn[s] \subseteq Names)
    /\ outcome \in {"ordered", "cycle"} => queue = << >>
    /\ outcome = "ordered" => Len(ordered) = Cardinality(Names)
    /\ outcome = "cycle" => Len(ordered) # Cardinality(Names)

Invariant == Graph /\ Lists /\ Counts /\ Placed /\ Results

\* The sets of stages the method works with are finite.
LEMMA FiniteStages ==
    ASSUME NEW U \in SUBSET Names
    PROVE  U \in SUBSET Nat /\ IsFiniteSet(U)
BY StageOrderAssumption, FS_Subset

\* So are the dependencies that a stage of a well-formed graph has left.
LEMMA FiniteLeft ==
    ASSUME NEW s \in Names, dependsOn[s] \subseteq Names
    PROVE  IsFiniteSet(Left(s)) /\ Cardinality(Left(s)) \in Nat
<1>1. Left(s) \in SUBSET Names
  BY DEF Left
<1> HIDE DEF Left
<1> QED BY <1>1, FiniteStages, FS_CardinalityType

\* The method starts with two empty lists.
LEMMA EmptyLists == ASSUME NEW S
                    PROVE  << >> \in Seq(S) /\ Members(<< >>) = {} /\ Distinct(<< >>)
BY DEF Members, Distinct

\* The invariant holds at the start.
LEMMA InitInvariant == Init => Invariant
<1> SUFFICES ASSUME Init PROVE Invariant
  OBVIOUS
<1> USE DEF Init
<1>1. Lists
  BY EmptyLists DEF Lists
<1>2. Placed
  BY DEF Placed
<1> QED BY <1>1, <1>2 DEF Invariant, Graph, Counts, Results

\* Counting the dependencies queues the stages that have none.
LEMMA CountDependenciesInvariant == Invariant /\ CountDependencies => Invariant'
<1> SUFFICES ASSUME Invariant, CountDependencies PROVE Invariant'
  OBVIOUS
<1>1. ordered = << >> /\ ordered' = << >> /\ queue = << >> /\ dependsOn' = dependsOn
  BY DEF Invariant, Results, CountDependencies
<1>2. Members(ordered') = {} /\ Distinct(ordered') /\ ordered' \in Seq(Names)
  BY <1>1, EmptyLists
<1>3. Placed'
  BY <1>1 DEF Placed
<1>4. Graph'
  BY <1>1 DEF Invariant, Graph
<1>5. CASE \E s \in Names : ~ (dependsOn[s] \subseteq Names)
  <2>1. outcome' = "unknown" /\ queue' = << >>
    BY <1>1, <1>5 DEF CountDependencies
  <2>2. Lists'
    BY <1>2, <2>1, EmptyLists DEF Lists
  <2> QED BY <1>1, <1>3, <1>4, <1>5, <2>1, <2>2 DEF Invariant, Counts, Results
<1>6. CASE \A s \in Names : dependsOn[s] \subseteq Names
  <2> DEFINE ready == {s \in Names : dependsOn[s] = {}}
  <2>1. outcome' = "loop" /\ indegree' = [s \in Names |-> Cardinality(dependsOn[s])] /\ queue' = Sorted(ready)
    BY <1>6 DEF CountDependencies
  <2>2. ready \in SUBSET Nat /\ IsFiniteSet(ready) /\ ready \in SUBSET Names
    BY FiniteStages
  <2>3. \A s \in Names : s \in ready <=> dependsOn[s] = {}
    OBVIOUS
  <2> HIDE DEF ready
  <2>4. queue' \in Seq(Names) /\ Distinct(queue') /\ Members(queue') = ready
    <3>1. queue' \in Seq(ready) /\ Distinct(queue') /\ Members(queue') = ready
      BY <2>1, <2>2, SortedFacts
    <3>2. queue' \in Seq(Names)
      <4>1. ready \in SUBSET Names
        BY <2>2
      <4> QED BY <3>1, <4>1
    <3> QED BY <3>1, <3>2
  <2>5. Lists'
    BY <1>2, <2>4 DEF Lists
  <2>6. \A s \in Names : Left(s)' = dependsOn[s]
    BY <1>1, <1>2 DEF Left
  <2>7. Counts'
    BY <1>1, <1>2, <1>6, <2>1, <2>3, <2>4, <2>6 DEF Counts
  <2>8. Results'
    BY <2>1 DEF Results
  <2> QED BY <1>3, <1>4, <2>5, <2>7, <2>8 DEF Invariant
<1> QED BY <1>5, <1>6

\* Taking a stage from the queue counts it off at the stages that depend on
\* it, and queues those that have nothing left.
LEMMA TakeStageInvariant == Invariant /\ TakeStage => Invariant'
<1> SUFFICES ASSUME Invariant, TakeStage PROVE Invariant'
  OBVIOUS
<1> DEFINE name == Head(queue)
           ready == {s \in Children(name) : indegree[s] = 1}
<1>1. /\ outcome = "loop" /\ outcome' = "loop" /\ dependsOn' = dependsOn /\ queue # << >>
      /\ ordered' = Append(ordered, name) /\ queue' = Tail(queue) \o Sorted(ready)
      /\ \A s \in Names : indegree'[s] = IF s \in Children(name) THEN indegree[s] - 1 ELSE indegree[s]
  BY DEF TakeStage
<1>2. Graph /\ Lists /\ Placed /\ Results
  BY DEF Invariant
<1>3. \A s \in Names : /\ dependsOn[s] \subseteq Names
                       /\ indegree[s] = Cardinality(Left(s))
                       /\ Left(s) = {} <=> s \in Members(ordered) \cup Members(queue)
  BY <1>1 DEF Invariant, Counts
<1>4. /\ name \in Names /\ name \in Members(queue)
      /\ Tail(queue) \in Seq(Names) /\ Distinct(Tail(queue))
      /\ Members(Tail(queue)) = Members(queue) \ {name}
  BY <1>1, <1>2, TailFacts DEF Lists
<1>5. \A s : s \in ready <=> s \in Names /\ name \in dependsOn[s] /\ indegree[s] = 1
  BY DEF Children
<1>6. \A s \in Names : s \in Children(name) <=> name \in dependsOn[s]
  BY DEF Children
<1>7. name \notin Members(ordered) /\ Left(name) = {}
  BY <1>2, <1>3, <1>4 DEF Lists
<1> HIDE DEF name, ready
<1>8. /\ ordered' \in Seq(Names) /\ Distinct(ordered')
      /\ Members(ordered') = Members(ordered) \cup {name}
  BY <1>1, <1>2, <1>4, <1>7, AppendFacts DEF Lists
<1>9. \A s \in Names : Left(s)' = Left(s) \ {name}
  BY <1>1, <1>8 DEF Left
<1>10. ASSUME NEW s \in Names
       PROVE  /\ indegree'[s] = Cardinality(Left(s)')
              /\ Left(s)' = {} <=> Left(s) = {} \/ s \in ready
              /\ s \in ready => Left(s) # {}
  <2>1. IsFiniteSet(Left(s)) /\ Cardinality(Left(s)) \in Nat
    BY <1>3, FiniteLeft
  <2>2. name \in dependsOn[s] <=> name \in Left(s)
    BY <1>7 DEF Left
  <2> DEFINE A == Left(s)
             B == A \ {name}
  <2> HIDE DEF A
  <2>3. Cardinality(B) = IF name \in A THEN Cardinality(A) - 1 ELSE Cardinality(A)
    BY <2>1, FS_RemoveElement DEF A
  <2>4. IsFiniteSet(B)
    BY <2>1, FS_RemoveElement DEF A
  <2>5. name \notin A => B = A
    OBVIOUS
  <2> HIDE DEF B
  <2>6. Left(s)' = B /\ (name \in dependsOn[s] <=> name \in A) /\ indegree[s] = Cardinality(A)
    BY <1>3, <1>9, <2>2 DEF A, B
  <2>7. indegree'[s] = Cardinality(B)
    BY <1>1, <1>6, <2>3, <2>6
  <2>8. B = {} <=> Cardinality(B) = 0
    BY <2>4, FS_EmptySet
  <2>9. CASE name \in A
    <3>1. s \in ready <=> Cardinality(A) = 1
      BY <1>5, <2>6, <2>9
    <3>2. B = {} <=> s \in ready
      BY <2>1, <2>3, <2>8, <2>9, <3>1 DEF A
    <3> QED BY <2>6, <2>7, <2>9, <3>2 DEF A
  <2>10. CASE name \notin A
    <3>1. s \notin ready
      BY <1>5, <2>6, <2>10
    <3> QED BY <2>5, <2>6, <2>7, <2>10, <3>1 DEF A
  <2> QED BY <2>9, <2>10
<1>11. ready \in SUBSET Names
  BY <1>5
<1>12. Sorted(ready) \in Seq(Names) /\ Distinct(Sorted(ready)) /\ Members(Sorted(ready)) = ready
  <2>1. Sorted(ready) \in Seq(ready) /\ Distinct(Sorted(ready)) /\ Members(Sorted(ready)) = ready
    BY <1>11, FiniteStages, SortedFacts
  <2> QED BY <1>11, <2>1
<1>13. ready \cap (Members(ordered) \cup Members(queue)) = {}
  BY <1>3, <1>10, <1>11
<1>14. /\ queue' \in Seq(Names) /\ Distinct(queue')
       /\ Members(queue') = (Members(queue) \ {name}) \cup ready
  <2>1. Members(Tail(queue)) \cap Members(Sorted(ready)) = {}
    BY <1>4, <1>12, <1>13
  <2> DEFINE q == Tail(queue)
             r == Sorted(ready)
  <2> HIDE DEF q, r
  <2>2. q \in Seq(Names) /\ r \in Seq(Names) /\ Distinct(q) /\ Distinct(r) /\ Members(q) \cap Members(r) = {}
    BY <1>4, <1>12, <2>1 DEF q, r
  <2>3. /\ q \o r \in Seq(Names) /\ Distinct(q \o r)
        /\ Members(q \o r) = Members(q) \cup Members(r)
    BY <2>2, ConcatFacts
  <2>4. queue' = q \o r
    BY <1>1 DEF q, r
  <2>5. Members(q) = Members(queue) \ {name} /\ Members(r) = ready
    BY <1>4, <1>12 DEF q, r
  <2> QED BY <2>3, <2>4, <2>5
<1>15. Lists'
  <2>1. Members(ordered) \cap Members(queue) = {}
    BY <1>2 DEF Lists
  <2>2. Members(ordered') \cap Members(queue') = {}
    BY <1>4, <1>8, <1>13, <1>14, <2>1
  <2> QED BY <1>8, <1>14, <2>2 DEF Lists
<1>16. Counts'
  <2> SUFFICES ASSUME NEW s \in Names
               PROVE  /\ dependsOn'[s] \subseteq Names
                      /\ indegree'[s] = Cardinality(Left(s)')
                      /\ Left(s)' = {} <=> s \in Members(ordered') \cup Members(queue')
    BY DEF Counts
  <2>1. s \in Members(ordered') \cup Members(queue') <=> s \in Members(ordered) \cup Members(queue) \/ s \in ready
    BY <1>4, <1>8, <1>14
  <2> QED BY <1>1, <1>3, <1>10, <2>1
<1>17. Placed'
  <2> SUFFICES ASSUME NEW i \in 1..Len(ordered'), NEW d \in dependsOn[ordered'[i]]
               PROVE  \E j \in 1..(i - 1) : ordered'[j] = d
    BY <1>1 DEF Placed
  <2>1. /\ Len(ordered) \in Nat /\ Len(ordered') = Len(ordered) + 1
        /\ ordered'[Len(ordered) + 1] = name
        /\ \A j \in 1..Len(ordered) : ordered'[j] = ordered[j]
    BY <1>1, <1>2, <1>4 DEF Lists
  <2>2. CASE i \in 1..Len(ordered)
    <3>1. PICK j \in 1..(i - 1) : ordered[j] = d
      BY <1>2, <2>1, <2>2 DEF Placed
    <3>2. j \in 1..Len(ordered)
      BY <2>1, <2>2, <3>1
    <3> QED BY <2>1, <3>1, <3>2
  <2>3. CASE i = Len(ordered) + 1
    <3>1. d \in Members(ordered)
      BY <1>7, <2>1, <2>3 DEF Left
    <3>2. PICK j \in 1..Len(ordered) : ordered[j] = d
      BY <3>1 DEF Members
    <3> QED BY <2>1, <2>3, <3>2
  <2> QED BY <2>1, <2>2, <2>3
<1>18. Results' /\ Graph'
  BY <1>1, <1>2 DEF Results, Graph
<1> QED BY <1>15, <1>16, <1>17, <1>18 DEF Invariant

\* At the end every stage is in the order, or the rest form a cycle's set.
LEMMA FinishInvariant == Invariant /\ Finish => Invariant'
<1> SUFFICES ASSUME Invariant, Finish PROVE Invariant'
  OBVIOUS
<1>1. /\ outcome = "loop" /\ queue = << >>
      /\ outcome' = IF Len(ordered) = Cardinality(Names) THEN "ordered" ELSE "cycle"
      /\ dependsOn' = dependsOn /\ indegree' = indegree /\ queue' = queue /\ ordered' = ordered
  BY DEF Finish
<1>2. Graph' /\ Lists' /\ Placed'
  BY <1>1 DEF Invariant, Graph, Lists, Placed
<1>3. \A s \in Names : Left(s)' = Left(s)
  BY <1>1 DEF Left
<1>4. Counts'
  BY <1>1, <1>3 DEF Invariant, Counts
<1>5. Results'
  BY <1>1 DEF Results
<1> QED BY <1>2, <1>4, <1>5 DEF Invariant

\* Every step of the method keeps the invariant.
LEMMA NextInvariant == Invariant /\ [Next]_vars => Invariant'
<1> SUFFICES ASSUME Invariant, [Next]_vars PROVE Invariant'
  OBVIOUS
<1>1. CASE CountDependencies
  BY <1>1, CountDependenciesInvariant
<1>2. CASE TakeStage
  BY <1>2, TakeStageInvariant
<1>3. CASE Finish
  BY <1>3, FinishInvariant
<1>4. CASE UNCHANGED vars
  <2>1. UNCHANGED <<dependsOn, indegree, queue, ordered, outcome>>
    BY <1>4 DEF vars
  <2>2. Graph' /\ Lists' /\ Placed' /\ Results'
    BY <2>1 DEF Invariant, Graph, Lists, Placed, Results
  <2>3. \A s \in Names : Left(s)' = Left(s)
    BY <2>1 DEF Left
  <2>4. Counts'
    BY <2>1, <2>3 DEF Invariant, Counts
  <2> QED BY <2>2, <2>4 DEF Invariant
<1> QED BY <1>1, <1>2, <1>3, <1>4 DEF Next

\* The invariant holds whenever the method runs.
LEMMA AlwaysInvariant == Spec => []Invariant
<1>1. Init => Invariant
  BY InitInvariant
<1>2. Invariant /\ [Next]_vars => Invariant'
  BY NextInvariant
<1> QED BY <1>1, <1>2, PTL DEF Spec

-----------------------------------------------------------------------------
(* The theorems *)

\* The order never holds a stage twice, nor before one of its dependencies:
\* what the executor may start is always ready (StageRegistry.ordered).
THEOREM Dependencies == Spec => []DependenciesFirst
<1>1. Invariant => DependenciesFirst
  BY DEF Invariant, Placed, Lists, Distinct, DependenciesFirst
<1> QED BY <1>1, AlwaysInvariant, PTL

\* An order that is closed under dependencies leaves no cycle among its members.
LEMMA OrderBreaksCycles ==
    ASSUME Lists, Placed, Names \subseteq Members(ordered)
    PROVE  ~Cyclic
<1> SUFFICES ASSUME NEW S \in SUBSET Names, S # {}, \A s \in S : dependsOn[s] \cap S # {}
             PROVE  FALSE
  BY DEF Cyclic
<1> DEFINE T == {i \in 1..Len(ordered) : ordered[i] \in S}
<1>1. T \in SUBSET Nat
  OBVIOUS
<1>2. T # {}
  <2>1. PICK s \in S : s \in Members(ordered)
    OBVIOUS
  <2>2. PICK i \in 1..Len(ordered) : ordered[i] = s
    BY <2>1 DEF Members
  <2> QED BY <2>2
<1>3. PICK i \in T : \A j \in T : i <= j
  <2> HIDE DEF T
  <2> QED BY <1>1, <1>2, LeastNumber
<1>4. PICK d \in dependsOn[ordered[i]] : d \in S
  OBVIOUS
<1>5. PICK j \in 1..(i - 1) : ordered[j] = d
  BY <1>4 DEF Placed
<1>6. Len(ordered) \in Nat
  BY DEF Lists
<1>7. j \in T /\ j < i
  BY <1>4, <1>5, <1>6
<1> QED BY <1>1, <1>3, <1>7

\* The stages the loop leaves behind depend on one another.
LEMMA RestIsCyclic ==
    ASSUME Invariant, outcome = "cycle"
    PROVE  Cyclic
<1> DEFINE S == Names \ Members(ordered)
<1>1. Lists /\ queue = << >> /\ Len(ordered) # Cardinality(Names)
  BY DEF Invariant, Results
<1>2. S # {}
  <2> SUFFICES ASSUME Names \subseteq Members(ordered) PROVE FALSE
    OBVIOUS
  <2>1. Members(ordered) = Names
    BY <1>1 DEF Lists, Members
  <2>2. Cardinality(Members(ordered)) = Len(ordered)
    BY <1>1, DistinctElements DEF Lists, Distinct, Members
  <2> QED BY <1>1, <2>1, <2>2
<1>3. ASSUME NEW s \in S PROVE dependsOn[s] \cap S # {}
  <2>1. dependsOn[s] \subseteq Names /\ (Left(s) = {} <=> s \in Members(ordered) \cup Members(queue))
    BY DEF Invariant, Counts
  <2>2. Members(queue) = {}
    BY <1>1, EmptyLists
  <2>3. Left(s) # {}
    BY <2>1, <2>2
  <2> QED BY <2>1, <2>3 DEF Left
<1> HIDE DEF S
<1>4. S \in SUBSET Names
  BY DEF S
<1> QED BY <1>2, <1>3, <1>4 DEF Cyclic

\* The method returns an order of all stages exactly for the graphs that have
\* one, and otherwise raises the error that fits (StageRegistry.ordered).
THEOREM Outcomes == Spec => []OutcomeFits
<1>1. ASSUME Invariant PROVE OutcomeFits
  <2>1. CASE outcome = "ordered"
    <3>1. Lists /\ Placed /\ Len(ordered) = Cardinality(Names)
      BY <1>1, <2>1 DEF Invariant, Results
    <3>2. Members(ordered) \in SUBSET Names
      BY <3>1 DEF Lists, Members
    <3>3. Cardinality(Members(ordered)) = Cardinality(Names)
      BY <3>1, DistinctElements DEF Lists, Distinct, Members
    <3>4. Members(ordered) = Names
      <4> DEFINE M == Members(ordered)
      <4> HIDE DEF M
      <4>1. M \in SUBSET Names /\ Cardinality(Names) = Cardinality(M)
        BY <3>2, <3>3 DEF M
      <4>2. Names = M
        BY <4>1, StageOrderAssumption, FS_Subset
      <4> QED BY <4>2 DEF M
    <3>5. ~Cyclic
      BY <3>1, <3>4, OrderBreaksCycles
    <3>6. \A s \in Names : dependsOn[s] \subseteq Names
      BY <1>1, <2>1 DEF Invariant, Counts
    <3> QED BY <2>1, <3>4, <3>5, <3>6 DEF OutcomeFits, Members
  <2>2. CASE outcome = "cycle"
    BY <1>1, <2>2, RestIsCyclic DEF OutcomeFits
  <2>3. CASE outcome \notin {"ordered", "cycle"}
    BY <1>1, <2>3 DEF OutcomeFits, Invariant, Results
  <2> QED BY <2>1, <2>2, <2>3
<1> QED BY <1>1, AlwaysInvariant, PTL
=============================================================================
