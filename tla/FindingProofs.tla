---------------------------- MODULE FindingProofs ----------------------------
(***************************************************************************)
(* Theorems about FindingLifecycle for all cards, outputs and requests and *)
(* every configuration of the pipeline.                                    *)
(***************************************************************************)
EXTENDS FindingLifecycle, Integers, Sequences, FiniteSets,
        FiniteSetTheorems, WellFoundedInduction, TLAPS

-----------------------------------------------------------------------------
(* Facts about numbers *)

\* A set of numbers that is not empty has a least element.
LEMMA LeastNumber ==
    ASSUME NEW T \in SUBSET Nat, T # {}
    PROVE  \E n \in T : \A m \in T : n <= m
<1>1. PICK n \in T : \A m \in T : ~ (<<m, n>> \in OpToRel(<, Nat))
  BY NatLessThanWellFounded, WFMin
<1>2. \A m \in T : ~ (m < n)
  BY <1>1 DEF OpToRel
<1> QED BY <1>2

\* A set that holds 0 and with every number the next one holds all numbers.
LEMMA SetInduction ==
    ASSUME NEW T, 0 \in T, \A n \in Nat : n \in T => n + 1 \in T
    PROVE  \A n \in Nat : n \in T
<1> SUFFICES ASSUME Nat \ T # {} PROVE FALSE
  OBVIOUS
<1>1. PICK n \in Nat \ T : \A m \in Nat \ T : n <= m
  BY LeastNumber
<1>2. n # 0 /\ n - 1 \in Nat /\ n - 1 \in T
  BY <1>1
<1>3. n - 1 + 1 \in T
  BY <1>2
<1> QED BY <1>1, <1>3

-----------------------------------------------------------------------------
(* The identities of a payload *)

\* The element that a sequence gets is its last one.
LEMMA AppendFacts ==
    ASSUME NEW S, NEW s \in Seq(S), NEW x \in S
    PROVE  /\ Append(s, x) \in Seq(S) /\ Range(Append(s, x)) = Range(s) \cup {x}
           /\ DOMAIN Append(s, x) = DOMAIN s \cup {Len(s) + 1}
           /\ \A n \in DOMAIN s : Append(s, x)[n] = s[n]
           /\ Append(s, x)[Len(s) + 1] = x /\ Len(s) \in Nat /\ DOMAIN s = 1..Len(s)
BY DEF Range

\* What NewOf makes of a payload: no identity twice, none that the database has, and
\* every item at one of the positions is in the database or among them.
LEMMA NewOfFacts ==
    ASSUME NEW items \in Seq(Identities), NEW at
    PROVE  LET new == NewOf(items, at)
           IN /\ new \in Seq(Identities)
              /\ \A m, n \in DOMAIN new : new[m] = new[n] => m = n
              /\ \A n \in DOMAIN new : ~IsKnown(new[n])
              /\ \A n \in DOMAIN items \cap at : IsKnown(items[n]) \/ items[n] \in Range(new)
<1> DEFINE L == Len(items)
           Step(f, n) == IF n = 0 THEN <<>>
                         ELSE IF n \notin at \/ IsKnown(items[n]) \/ items[n] \in Range(f[n - 1]) THEN f[n - 1]
                         ELSE Append(f[n - 1], items[n])
           Fits(f, m) == f = [n \in 0..m |-> Step(f, n)]
           T == {m \in Nat : \E f : Fits(f, m)}
           g == CHOOSE f : Fits(f, L)
<1>0. L \in Nat /\ DOMAIN items = 1..L /\ \A n \in 1..L : items[n] \in Identities
  OBVIOUS
<1>1. \A m \in Nat : m \in T
  <2>1. 0 \in T
    <3>1. Fits([n \in {0} |-> <<>>], 0)
      OBVIOUS
    <3> QED BY <3>1
  <2>2. ASSUME NEW m \in Nat, m \in T PROVE m + 1 \in T
    <3>1. PICK f : Fits(f, m)
      BY <2>2
    <3> DEFINE h == [n \in 0..(m + 1) |-> IF n <= m THEN f[n] ELSE Step(f, n)]
    <3>2. \A n \in 0..(m + 1) : h[n] = Step(h, n)
      <4>1. ASSUME NEW n \in 0..(m + 1) PROVE Step(h, n) = Step(f, n)
        <5>1. n = 0 \/ (n - 1 \in 0..m /\ h[n - 1] = f[n - 1])
          OBVIOUS
        <5> HIDE DEF h
        <5> QED BY <5>1
      <4>2. \A n \in 0..m : f[n] = Step(f, n)
        BY <3>1
      <4> QED BY <4>1, <4>2
    <3>3. Fits(h, m + 1)
      <4>1. h = [n \in 0..(m + 1) |-> h[n]]
        OBVIOUS
      <4> HIDE DEF h, Step
      <4> QED BY <3>2, <4>1
    <3> HIDE DEF h, Fits
    <3> QED BY <3>3
  <2> HIDE DEF T
  <2> QED BY <2>1, <2>2, SetInduction
<1>2. Fits(g, L)
  <2>1. \E f : Fits(f, L)
    BY <1>0, <1>1
  <2> HIDE DEF Fits
  <2> QED BY <2>1
<1>3. NewOf(items, at) = g[L]
  BY DEF NewOf
<1> HIDE DEF g
<1>4. \A n \in 0..L : g[n] = Step(g, n)
  BY <1>2
<1> HIDE DEF Fits
<1> DEFINE Good(n) ==
             /\ g[n] \in Seq(Identities)
             /\ \A k, l \in DOMAIN g[n] : g[n][k] = g[n][l] => k = l
             /\ \A k \in DOMAIN g[n] : ~IsKnown(g[n][k])
             /\ \A k \in (1..n) \cap at : IsKnown(items[k]) \/ items[k] \in Range(g[n])
           G == {n \in Nat : n <= L => Good(n)}
<1>5. 0 \in G
  <2>1. g[0] = <<>>
    BY <1>4, <1>0
  <2>2. g[0] \in Seq(Identities) /\ DOMAIN g[0] = {} /\ (1..0) \cap at = {}
    BY <2>1
  <2>3. Good(0)
    BY <2>2
  <2> HIDE DEF Good
  <2> QED BY <2>3
<1>6. ASSUME NEW n \in Nat, n \in G PROVE n + 1 \in G
  <2> SUFFICES ASSUME n + 1 <= L PROVE Good(n + 1)
    OBVIOUS
  <2>1. Good(n) /\ n + 1 \in 0..L /\ n + 1 \in 1..L /\ items[n + 1] \in Identities
    BY <1>0, <1>6
  <2>2. g[n + 1] = Step(g, n + 1)
    BY <1>4, <2>1
  <2>3. CASE n + 1 \notin at \/ IsKnown(items[n + 1]) \/ items[n + 1] \in Range(g[n])
    <3>1. g[n + 1] = g[n]
      BY <2>2, <2>3
    <3>2. \A k \in (1..(n + 1)) \cap at : k \in (1..n) \cap at \/ k = n + 1
      OBVIOUS
    <3> QED BY <2>1, <2>3, <3>1, <3>2
  <2>4. CASE ~(n + 1 \notin at \/ IsKnown(items[n + 1]) \/ items[n + 1] \in Range(g[n]))
    <3> DEFINE s == g[n]  x == items[n + 1]
    <3>1. g[n + 1] = Append(s, x)
      BY <2>2, <2>4
    <3>2. /\ Append(s, x) \in Seq(Identities) /\ Range(Append(s, x)) = Range(s) \cup {x}
          /\ DOMAIN Append(s, x) = DOMAIN s \cup {Len(s) + 1}
          /\ \A k \in DOMAIN s : Append(s, x)[k] = s[k]
          /\ Append(s, x)[Len(s) + 1] = x
      BY <2>1, AppendFacts
    <3>3. \A k \in DOMAIN s : s[k] # x
      BY <2>4 DEF Range
    <3>4. \A k \in (1..(n + 1)) \cap at : k \in (1..n) \cap at \/ k = n + 1
      OBVIOUS
    <3>5. \A k \in DOMAIN s : ~IsKnown(s[k])
      BY <2>1
    <3>6. \A k, l \in DOMAIN s : s[k] = s[l] => k = l
      BY <2>1
    <3>7. \A k \in (1..n) \cap at : IsKnown(items[k]) \/ items[k] \in Range(s)
      BY <2>1
    <3>8. ~IsKnown(x)
      BY <2>4
    <3> HIDE DEF s, x
    <3>9. \A k \in (1..(n + 1)) \cap at : IsKnown(items[k]) \/ items[k] \in Range(g[n + 1])
      BY <3>1, <3>2, <3>4, <3>7 DEF x
    <3>10. \A k, l \in DOMAIN g[n + 1] : g[n + 1][k] = g[n + 1][l] => k = l
      BY <3>1, <3>2, <3>3, <3>6
    <3>11. \A k \in DOMAIN g[n + 1] : ~IsKnown(g[n + 1][k])
      BY <3>1, <3>2, <3>5, <3>8
    <3> QED BY <3>1, <3>2, <3>9, <3>10, <3>11
  <2> QED BY <2>3, <2>4
<1>7. Good(L)
  <2> HIDE DEF Good
  <2>1. \A n \in Nat : n \in G
    <3> HIDE DEF G
    <3> QED BY <1>5, <1>6, SetInduction
  <2> QED BY <1>0, <2>1
<1> QED BY <1>0, <1>3, <1>7

-----------------------------------------------------------------------------
(* The invariants *)

FindingRow ==
    [identity : Identities, status : Statuses, by : Callers \cup {None}, seen : Nat]

TxState ==
    [pc : {"idle", "commit", "done"}, seen : Nat, new : Seq(Identities), cards : SUBSET Cards]

\* What a call that is about to commit found out when it looked, and what is still true.
Looked(c) ==
    LET t == tx[c]
    IN /\ t.seen <= Len(findings)
       /\ \A m, n \in DOMAIN t.new : t.new[m] = t.new[n] => m = n
       /\ \A f \in DOMAIN findings, n \in DOMAIN t.new :
            findings[f].identity = t.new[n] => t.seen < f /\ findings[f].by # c
       /\ c \in Syncers =>
            \A k \in t.cards : CardIdentity[k] \in Range(t.new) \/ IsKnown(CardIdentity[k])

\* DuplicatesOverlap is not inductive without what the open calls have looked up.
RowsInv ==
    /\ findings \in Seq(FindingRow) /\ tx \in [Callers -> TxState] /\ posted \in 0..Len(CardIdentity)
    /\ \A c \in Callers : tx[c].pc = "commit" => Looked(c)

RunState ==
    [stage : Points, on : Configs, listed : SUBSET Nat, rounds : Nat, batch : BatchOutputs \cup {None},
     task : {None, "created", "running", "completed", "failed", "raised"}]

PartialMaps(S) == UNION {[D -> S] : D \in SUBSET Nat}

JudgeState ==
    [pc : {"idle", "list", "agents", "apply", "commit", "done"}, verdict : PartialMaps(Verdicts),
     update : PartialMaps(Statuses)]

-----------------------------------------------------------------------------
(* What a step does to the findings and to the calls that make them *)

\* No finding is made: the rows keep their identities and where they come from.
SameRows ==
    /\ findings' \in Seq(FindingRow) /\ Len(findings') = Len(findings) /\ tx' = tx
    /\ \A f \in DOMAIN findings :
         /\ findings'[f].identity = findings[f].identity
         /\ findings'[f].by = findings[f].by /\ findings'[f].seen = findings[f].seen

Looks(c) ==
    /\ findings' = findings
    /\ \E items \in Seq(Identities) : \E at \in SUBSET DOMAIN items :
         /\ c \in Syncers => items = CardIdentity
         /\ tx' = [tx EXCEPT ![c] = [pc |-> "commit", seen |-> Len(findings), new |-> NewOf(items, at),
                                     cards |-> IF c \in Syncers THEN at ELSE {}]]

Commits(c) ==
    /\ tx[c].pc = "commit" /\ tx' = [tx EXCEPT ![c].pc = "done"]
    /\ \E status \in [DOMAIN tx[c].new -> Statuses] :
         findings' = findings \o Rows(c, tx[c].new, status, tx[c].seen)

Creates ==
    /\ tx' = tx
    /\ \E i \in Posted : findings' = findings \o Rows(None, <<i>>, <<"candidate">>, Len(findings))

\* The cards and the payloads are sequences of identities.
LEMMA PayloadTypes ==
    /\ CardIdentity \in Seq(Identities) /\ Cards = 1..Len(CardIdentity) /\ Len(CardIdentity) \in Nat
    /\ \A o \in Outputs : Items[o] \in Seq(Identities)
    /\ Posted \subseteq Identities
<1>0. Posted \subseteq Identities
  BY DEF Identities
<1>1. Range(CardIdentity) \subseteq Identities /\ \A o \in Outputs : Range(Items[o]) \subseteq Identities
  BY DEF Identities
<1>2. ASSUME NEW S, NEW s \in Seq(S), NEW T, S \subseteq T PROVE s \in Seq(T)
  BY <1>2
<1> QED BY <1>0, <1>1, <1>2, FindingAssumption DEF Cards

\* The rows when a call has made its own.
WithRows(c, new, status, seen) == findings \o Rows(c, new, status, seen)

\* These rows are the findings, and after them one for each of the new identities.
RowsAdded(all, c, new, seen) ==
    /\ all \in Seq(FindingRow) /\ Len(all) = Len(findings) + Len(new) /\ Len(new) \in Nat
    /\ \A f \in DOMAIN findings : f \in DOMAIN all /\ all[f] = findings[f]
    /\ \A n \in DOMAIN new :
         /\ Len(findings) + n \in DOMAIN all
         /\ all[Len(findings) + n].identity = new[n]
         /\ all[Len(findings) + n].by = c /\ all[Len(findings) + n].seen = seen
    /\ \A g \in DOMAIN all : g \in DOMAIN findings \/ \E n \in DOMAIN new : g = Len(findings) + n

\* That is what a commit makes of them.
LEMMA NewRows ==
    ASSUME findings \in Seq(FindingRow), NEW c \in Callers \cup {None}, NEW new \in Seq(Identities),
           NEW status \in [DOMAIN new -> Statuses], NEW seen \in Nat
    PROVE  RowsAdded(WithRows(c, new, status, seen), c, new, seen)
<1> DEFINE rows == Rows(c, new, status, seen)
           all == WithRows(c, new, status, seen)
<1>1. /\ DOMAIN new = 1..Len(new) /\ Len(new) \in Nat /\ DOMAIN findings = 1..Len(findings)
      /\ Len(findings) \in Nat
  OBVIOUS
<1>2. /\ rows = [n \in 1..Len(new) |-> [identity |-> new[n], status |-> status[n], by |-> c, seen |-> seen]]
      /\ rows \in Seq(FindingRow)
  <2>1. \A n \in 1..Len(new) :
          [identity |-> new[n], status |-> status[n], by |-> c, seen |-> seen] \in FindingRow
    BY DEF FindingRow
  <2> QED BY <1>1, <2>1 DEF Rows
<1>3. Len(rows) = Len(new)
  BY <1>1, <1>2
<1>0. all = findings \o rows
  BY DEF WithRows
<1> HIDE DEF rows, all
<1>4. all \in Seq(FindingRow) /\ Len(all) = Len(findings) + Len(new)
  BY <1>0, <1>2, <1>3
<1>5. \A f \in DOMAIN findings : f \in DOMAIN all /\ all[f] = findings[f]
  BY <1>0, <1>1, <1>2, <1>3
<1>6. \A n \in DOMAIN new : Len(findings) + n \in DOMAIN all /\ all[Len(findings) + n] = rows[n]
  BY <1>0, <1>1, <1>2, <1>3
<1>7. \A g \in DOMAIN all : g \in DOMAIN findings \/ \E n \in DOMAIN new : g = Len(findings) + n
  <2> SUFFICES ASSUME NEW g \in DOMAIN all, g \notin DOMAIN findings PROVE g - Len(findings) \in DOMAIN new
    BY <1>1, <1>4
  <2> QED BY <1>1, <1>4
<1>8. ASSUME NEW n \in DOMAIN new
      PROVE  rows[n].identity = new[n] /\ rows[n].by = c /\ rows[n].seen = seen
  <2>1. rows[n] = [identity |-> new[n], status |-> status[n], by |-> c, seen |-> seen]
    BY <1>1, <1>2
  <2> QED BY <2>1
<1>9. RowsAdded(all, c, new, seen)
  BY <1>1, <1>4, <1>5, <1>6, <1>7, <1>8 DEF RowsAdded
<1> QED BY <1>9 DEF all

\* A sync looks at the cards that have no finding.
LEMMA SyncLooks ==
    ASSUME posted \in 0..Len(CardIdentity), NEW c \in Syncers, Sync(c), findings' = findings
    PROVE  Looks(c)
<1> DEFINE cards == {k \in 1..posted : link[k] = 0}
<1>1. /\ c \in Syncers => CardIdentity = CardIdentity
      /\ tx' = [tx EXCEPT ![c] = [pc |-> "commit", seen |-> Len(findings), new |-> NewOf(CardIdentity, cards),
                                  cards |-> IF c \in Syncers THEN cards ELSE {}]]
  BY DEF Sync
<1>2. cards \in SUBSET DOMAIN CardIdentity /\ CardIdentity \in Seq(Identities)
  BY PayloadTypes DEF Cards
<1> QED BY <1>1, <1>2 DEF Looks

\* A step that leaves the rows and the calls alone.
LEMMA UnchangedRows ==
    ASSUME findings \in Seq(FindingRow), findings' = findings, tx' = tx
    PROVE  SameRows
BY DEF SameRows

\* Only the status of a row is written.
LEMMA StatusEdit ==
    ASSUME NEW r \in FindingRow, NEW s \in Statuses
    PROVE  LET new == [r EXCEPT !.status = s]
           IN new \in FindingRow /\ new.identity = r.identity /\ new.by = r.by /\ new.seen = r.seen
BY DEF FindingRow

\* The value of a partial map at a number of its domain.
LEMMA PartialValue ==
    ASSUME NEW S, NEW m \in PartialMaps(S), NEW x \in DOMAIN m
    PROVE  m[x] \in S
<1>1. PICK D \in SUBSET Nat : m \in [D -> S]
  BY DEF PartialMaps
<1> QED BY <1>1

\* A finding is a row.
LEMMA RowType ==
    ASSUME findings \in Seq(FindingRow), NEW f \in DOMAIN findings
    PROVE  /\ findings[f] \in FindingRow /\ findings[f].identity \in Identities
           /\ findings[f].status \in Statuses /\ findings[f].by \in Callers \cup {None}
           /\ findings[f].seen \in Nat
<1>1. findings[f] \in FindingRow
  OBVIOUS
<1> QED BY <1>1 DEF FindingRow

\* The commits of the outputs and of the syncs add the rows that the call has worked out.
LEMMA CommitSteps ==
    ASSUME NEW c \in Callers
    PROVE  /\ c \in Outputs /\ IngestCommit(c) => Commits(c)
           /\ SyncCommit(c) => Commits(c)
<1>1. ASSUME c \in Outputs, IngestCommit(c) PROVE Commits(c)
  <2>1. PICK status \in [DOMAIN tx[c].new -> Reported] :
          findings' = findings \o Rows(c, tx[c].new, status, tx[c].seen)
    BY <1>1 DEF IngestCommit
  <2>2. status \in [DOMAIN tx[c].new -> Statuses]
    BY FindingAssumption
  <2> QED BY <1>1, <2>1, <2>2 DEF IngestCommit, Commits
<1>2. ASSUME SyncCommit(c) PROVE Commits(c)
  <2>1. findings' = findings \o Rows(c, tx[c].new, All("candidate", tx[c].new), tx[c].seen)
    BY <1>2 DEF SyncCommit
  <2>2. All("candidate", tx[c].new) \in [DOMAIN tx[c].new -> Statuses]
    BY DEF All, Statuses
  <2> QED BY <1>2, <2>1, <2>2 DEF SyncCommit, Commits
<1> QED BY <1>1, <1>2

\* Every step is one of the four.
LEMMA RowSteps ==
    ASSUME RowsInv, judge \in JudgeState, [Next]_vars
    PROVE  SameRows \/ Creates \/ \E c \in Callers : Looks(c) \/ Commits(c)
<1> SUFFICES ASSUME ~SameRows PROVE Creates \/ \E c \in Callers : Looks(c) \/ Commits(c)
  OBVIOUS
<1>0. findings' # findings \/ tx' # tx
  BY UnchangedRows DEF RowsInv
<1>1. CASE Pipeline
  <2>1. CASE RunSync("list", "listed") \/ RunSync("pocList", "pocListed") \/ RunSync("verifyList", "verifySelect")
    <3>1. Sync("run") /\ findings' = findings /\ "run" \in Syncers
      BY <2>1 DEF RunSync, Syncers
    <3> QED BY <3>1, SyncLooks DEF RowsInv, Callers
  <2>2. CASE Mark
    <3> DEFINE Row(f) == [findings[f] EXCEPT !.status = IF f \in run.listed THEN "validating" ELSE @]
    <3>1. findings' = [f \in DOMAIN findings |-> Row(f)] /\ tx' = tx
      BY <2>2 DEF Mark
    <3>2. \A f \in DOMAIN findings :
            /\ Row(f) \in FindingRow /\ Row(f).identity = findings[f].identity
            /\ Row(f).by = findings[f].by /\ Row(f).seen = findings[f].seen
      <4> SUFFICES ASSUME NEW f \in DOMAIN findings
                   PROVE  /\ Row(f) \in FindingRow /\ Row(f).identity = findings[f].identity
                          /\ Row(f).by = findings[f].by /\ Row(f).seen = findings[f].seen
        OBVIOUS
      <4> DEFINE status == IF f \in run.listed THEN "validating" ELSE findings[f].status
      <4>1. findings[f] \in FindingRow /\ status \in Statuses
        BY RowType DEF RowsInv, Statuses
      <4>2. Row(f) = [findings[f] EXCEPT !.status = status]
        OBVIOUS
      <4> HIDE DEF Row, status
      <4> QED BY <4>1, <4>2, StatusEdit
    <3> HIDE DEF Row
    <3>3. DOMAIN findings = 1..Len(findings) /\ Len(findings) \in Nat
      BY DEF RowsInv
    <3>4. SameRows
      BY <3>1, <3>2, <3>3 DEF SameRows
    <3> QED BY <3>4
  <2>3. CASE ~Mark /\ findings' = findings /\ tx' = tx
    BY <1>0, <2>3
  <2> QED BY <1>1, <2>1, <2>2, <2>3
        DEF Pipeline, Triage, Triaged, SwarmEnds, Select, Collect, Feedback, Round, BatchStarts, BatchRaises, BatchEnds, BatchTask,
            RoundEnds, PocSelect, PocFilter, VerifySelect, PocEnds, VerifyEnds, StageEnds
<1>2. CASE Judge
  <2>1. CASE JudgeSync
    <3>1. Sync("judge") /\ findings' = findings /\ "judge" \in Syncers
      BY <2>1 DEF JudgeSync, Syncers
    <3> QED BY <3>1, SyncLooks DEF RowsInv, Callers
  <2>2. CASE JudgeCommit
    <3> DEFINE Row(f) == [findings[f] EXCEPT !.status = IF f \in DOMAIN judge.update THEN judge.update[f] ELSE @]
    <3>1. findings' = [f \in DOMAIN findings |-> Row(f)] /\ tx' = tx
      BY <2>2 DEF JudgeCommit
    <3>2. \A f \in DOMAIN judge.update : judge.update[f] \in Statuses
      BY PartialValue DEF JudgeState
    <3>3. \A f \in DOMAIN findings :
            /\ Row(f) \in FindingRow /\ Row(f).identity = findings[f].identity
            /\ Row(f).by = findings[f].by /\ Row(f).seen = findings[f].seen
      <4> SUFFICES ASSUME NEW f \in DOMAIN findings
                   PROVE  /\ Row(f) \in FindingRow /\ Row(f).identity = findings[f].identity
                          /\ Row(f).by = findings[f].by /\ Row(f).seen = findings[f].seen
        OBVIOUS
      <4> DEFINE status == IF f \in DOMAIN judge.update THEN judge.update[f] ELSE findings[f].status
      <4>1. findings[f] \in FindingRow /\ status \in Statuses
        BY <3>2, RowType DEF RowsInv
      <4>2. Row(f) = [findings[f] EXCEPT !.status = status]
        OBVIOUS
      <4> HIDE DEF Row, status
      <4> QED BY <4>1, <4>2, StatusEdit
    <3> HIDE DEF Row
    <3>4. DOMAIN findings = 1..Len(findings) /\ Len(findings) \in Nat
      BY DEF RowsInv
    <3>5. SameRows
      BY <3>1, <3>3, <3>4 DEF SameRows
    <3> QED BY <3>5
  <2> QED BY <1>0, <1>2, <2>1, <2>2 DEF Judge, JudgeDecide, JudgeApply
<1>3. ASSUME NEW i \in Posted, CreateFinding(i) PROVE Creates
  BY <1>3 DEF CreateFinding, Creates
<1>4. ASSUME NEW c \in Callers, Call(c) PROVE Looks(c) \/ Commits(c)
  <2>1. CASE c \in Outputs /\ IngestLookup(c)
    <3>1. c \notin Syncers
      BY <2>1, FindingAssumption
    <3>2. Items[c] \in Seq(Identities) /\ DOMAIN Items[c] \in SUBSET DOMAIN Items[c] /\ findings' = findings
      BY <2>1, PayloadTypes DEF IngestLookup
    <3>3. tx' = [tx EXCEPT ![c] = [pc |-> "commit", seen |-> Len(findings), new |-> NewOf(Items[c], DOMAIN Items[c]),
                                   cards |-> IF c \in Syncers THEN DOMAIN Items[c] ELSE {}]]
      BY <2>1, <3>1 DEF IngestLookup
    <3> QED BY <3>1, <3>2, <3>3 DEF Looks
  <2>2. CASE c \in Outputs /\ IngestCommit(c)
    BY <2>2, CommitSteps
  <2>3. CASE SyncCommit(c)
    BY <2>3, CommitSteps
  <2>4. CASE c \in Listers /\ ListFindings(c)
    <3>1. Sync(c) /\ findings' = findings /\ c \in Syncers
      BY <2>4 DEF ListFindings, Syncers
    <3> QED BY <3>1, SyncLooks DEF RowsInv
  <2> QED BY <1>4, <2>1, <2>2, <2>3, <2>4 DEF Call
<1>5. CASE Retriage \/ PostCard \/ RequestCancel
  BY <1>0, <1>5 DEF Retriage, PostCard, RequestCancel
<1>6. ASSUME NEW a, AttemptStep(a) PROVE FALSE
  BY <1>0, <1>6 DEF AttemptStep, Record, CheckBefore, Acquire, CheckAfter, Start, AgentReturns, AgentRaises,
                    EndAttempt, Task
<1>7. ASSUME NEW f, WorkStep(f) PROVE FALSE
  BY <1>0, <1>7 DEF WorkStep, WriterStarts, WriterEnds, VerifierStarts, VerifierEnds, WorkStarts, WorkEnds
<1>8. CASE UNCHANGED vars
  BY <1>0, <1>8 DEF vars
<1> QED BY <1>1, <1>2, <1>3, <1>4, <1>5, <1>6, <1>7, <1>8 DEF Next

\* No more cards are posted than there are.
LEMMA PostedBound ==
    ASSUME posted \in 0..Len(CardIdentity), [Next]_vars
    PROVE  posted' \in 0..Len(CardIdentity)
<1>1. CASE PostCard
  BY <1>1, PayloadTypes DEF PostCard
<1>2. CASE Pipeline
  BY <1>2 DEF Pipeline, Triage, Triaged, SwarmEnds, RunSync, Select, Mark, Collect, Feedback, Round, BatchStarts, BatchRaises, BatchEnds,
              BatchTask, RoundEnds, PocSelect, PocFilter, VerifySelect, PocEnds, VerifyEnds, StageEnds
<1>3. CASE Judge \/ Retriage \/ RequestCancel \/ UNCHANGED vars
  BY <1>3 DEF Judge, JudgeSync, JudgeDecide, JudgeApply, JudgeCommit, Retriage, RequestCancel, vars
<1>4. ASSUME NEW i \in Posted, CreateFinding(i) PROVE posted' = posted
  BY <1>4 DEF CreateFinding
<1>5. ASSUME NEW c \in Callers, Call(c) PROVE posted' = posted
  BY <1>5 DEF Call, IngestLookup, IngestCommit, SyncCommit, ListFindings
<1>6. ASSUME NEW a, AttemptStep(a) PROVE posted' = posted
  BY <1>6 DEF AttemptStep, Record, CheckBefore, Acquire, CheckAfter, Start, AgentReturns, AgentRaises,
              EndAttempt, Task
<1>7. ASSUME NEW f, WorkStep(f) PROVE posted' = posted
  BY <1>7 DEF WorkStep, WriterStarts, WriterEnds, VerifierStarts, VerifierEnds, WorkStarts, WorkEnds
<1> QED BY <1>1, <1>2, <1>3, <1>4, <1>5, <1>6, <1>7 DEF Next

\* The rows that there are keep their identity and where they come from, and those that
\* come are of the call that commits, or of no call.
Grows(by) ==
    /\ findings' \in Seq(FindingRow) /\ Len(findings') \in Nat /\ Len(findings') >= Len(findings)
    /\ DOMAIN findings = 1..Len(findings) /\ DOMAIN findings' = 1..Len(findings') /\ Len(findings) \in Nat
    /\ \A f \in DOMAIN findings :
         /\ findings'[f].identity = findings[f].identity
         /\ findings'[f].by = findings[f].by /\ findings'[f].seen = findings[f].seen
    /\ \A f \in DOMAIN findings' \ DOMAIN findings : findings'[f].by = by

\* Each of the four kinds of a step lets the rows grow.
LEMMA StepsGrow ==
    ASSUME RowsInv
    PROVE  /\ SameRows => Len(findings') = Len(findings) /\ Grows(None)
           /\ Creates => Grows(None)
           /\ \A c \in Callers : (Looks(c) => Grows(c)) /\ (Commits(c) => Grows(c))
<1>0. DOMAIN findings = 1..Len(findings) /\ Len(findings) \in Nat /\ findings \in Seq(FindingRow)
  BY DEF RowsInv
<1>1. ASSUME SameRows PROVE Grows(None)
  <2>1. DOMAIN findings' = 1..Len(findings') /\ Len(findings') \in Nat
    BY <1>1 DEF SameRows
  <2> QED BY <1>0, <1>1, <2>1 DEF SameRows, Grows
<1>2. ASSUME NEW c \in Callers, Looks(c) PROVE Grows(c)
  BY <1>0, <1>2 DEF Looks, Grows
<1>3. ASSUME NEW c \in Callers \cup {None}, NEW new \in Seq(Identities),
             NEW status \in [DOMAIN new -> Statuses], NEW seen \in Nat, findings' = WithRows(c, new, status, seen)
      PROVE  Grows(c)
  <2>1. /\ findings' \in Seq(FindingRow) /\ Len(findings') = Len(findings) + Len(new) /\ Len(new) \in Nat
        /\ \A f \in DOMAIN findings : f \in DOMAIN findings' /\ findings'[f] = findings[f]
        /\ \A n \in DOMAIN new : findings'[Len(findings) + n].by = c
        /\ \A g \in DOMAIN findings' : g \in DOMAIN findings \/ \E n \in DOMAIN new : g = Len(findings) + n
    <3>1. RowsAdded(findings', c, new, seen)
      BY <1>0, <1>3, NewRows
    <3> QED BY <3>1 DEF RowsAdded
  <2>2. DOMAIN findings' = 1..Len(findings') /\ Len(findings') \in Nat /\ Len(findings') >= Len(findings)
    BY <1>0, <2>1
  <2> QED BY <1>0, <2>1, <2>2 DEF Grows
<1>4. ASSUME NEW c \in Callers, Commits(c) PROVE Grows(c)
  <2>1. tx[c].new \in Seq(Identities) /\ tx[c].seen \in Nat
    BY DEF RowsInv, TxState
  <2> QED BY <1>3, <1>4, <2>1 DEF Commits, WithRows
<1>5. ASSUME Creates PROVE Grows(None)
  <2>1. PICK i \in Posted : findings' = WithRows(None, <<i>>, <<"candidate">>, Len(findings))
    BY <1>5 DEF Creates, WithRows
  <2>2. <<i>> \in Seq(Identities)
    <3>1. i \in Identities
      BY PayloadTypes
    <3> QED BY <3>1
  <2>3. <<"candidate">> \in [DOMAIN <<i>> -> Statuses]
    BY DEF Statuses
  <2> QED BY <1>0, <1>3, <2>1, <2>2, <2>3
<1> QED BY <1>1, <1>2, <1>4, <1>5 DEF SameRows

\* What an open call has looked up stays true when others make findings.
LEMMA LookedStays ==
    ASSUME RowsInv, NEW by, Grows(by), NEW c \in Callers, tx[c].pc = "commit", tx'[c] = tx[c], by # c
    PROVE  Looked(c)'
<1> DEFINE t == tx[c]
<1>1. /\ t.seen \in Nat /\ t.seen <= Len(findings)
      /\ \A m, n \in DOMAIN t.new : t.new[m] = t.new[n] => m = n
      /\ \A f \in DOMAIN findings, n \in DOMAIN t.new :
           findings[f].identity = t.new[n] => t.seen < f /\ findings[f].by # c
  BY DEF RowsInv, Looked, TxState
<1>2. c \in Syncers => \A k \in t.cards : CardIdentity[k] \in Range(t.new) \/ IsKnown(CardIdentity[k])
  BY DEF RowsInv, Looked
<1>3. \A i : IsKnown(i) => IsKnown(i)'
  BY DEF IsKnown, Existing, Grows
<1>4. ASSUME NEW f \in DOMAIN findings', NEW n \in DOMAIN t.new, findings'[f].identity = t.new[n]
      PROVE  t.seen < f /\ findings'[f].by # c
  BY <1>1, <1>4 DEF Grows
<1>5. t.seen <= Len(findings')
  BY <1>1 DEF Grows
<1> QED BY <1>1, <1>2, <1>3, <1>4, <1>5 DEF Looked

\* Every step keeps what the open calls have looked up.
LEMMA StepKeepsRows ==
    ASSUME RowsInv, judge \in JudgeState, [Next]_vars
    PROVE  RowsInv'
<1>1. CASE SameRows \/ Creates
  <2>1. tx' = tx /\ Grows(None) /\ findings' \in Seq(FindingRow)
    BY <1>1, StepsGrow DEF SameRows, Creates, Grows
  <2>2. \A c \in Callers : tx'[c].pc = "commit" => Looked(c)'
    BY <2>1, LookedStays, FindingAssumption
  <2> QED BY <2>1, <2>2, PostedBound DEF RowsInv
<1>2. ASSUME NEW c \in Callers, Looks(c) PROVE RowsInv'
  <2>0. PICK items \in Seq(Identities) : \E at \in SUBSET DOMAIN items :
          /\ c \in Syncers => items = CardIdentity
          /\ tx' = [tx EXCEPT ![c] = [pc |-> "commit", seen |-> Len(findings), new |-> NewOf(items, at),
                                      cards |-> IF c \in Syncers THEN at ELSE {}]]
    BY <1>2 DEF Looks
  <2>1. PICK at \in SUBSET DOMAIN items :
          /\ c \in Syncers => items = CardIdentity
          /\ tx' = [tx EXCEPT ![c] = [pc |-> "commit", seen |-> Len(findings), new |-> NewOf(items, at),
                                      cards |-> IF c \in Syncers THEN at ELSE {}]]
    BY <2>0
  <2> DEFINE new == NewOf(items, at)
             t == [pc |-> "commit", seen |-> Len(findings), new |-> new,
                   cards |-> IF c \in Syncers THEN at ELSE {}]
  <2>2. /\ new \in Seq(Identities)
        /\ \A m, n \in DOMAIN new : new[m] = new[n] => m = n
        /\ \A n \in DOMAIN new : ~IsKnown(new[n])
        /\ \A n \in DOMAIN items \cap at : IsKnown(items[n]) \/ items[n] \in Range(new)
    BY NewOfFacts
  <2>3. findings' = findings /\ Grows(c) /\ Len(findings) \in Nat /\ findings \in Seq(FindingRow)
    <3>1. Grows(c)
      BY <1>2, StepsGrow
    <3> QED BY <1>2, <3>1 DEF Looks, RowsInv
  <2>4. t \in TxState
    <3>1. c \in Syncers => at \in SUBSET Cards
      BY <2>1 DEF Cards
    <3> HIDE DEF new
    <3> QED BY <2>2, <2>3, <3>1 DEF TxState
  <2>5. tx' \in [Callers -> TxState] /\ tx'[c] = t /\ \A d \in Callers \ {c} : tx'[d] = tx[d]
    <3> HIDE DEF t
    <3> QED BY <2>1, <2>4 DEF RowsInv, t
  <2>6. Looked(c)'
    <3>1. tx'[c].new = new /\ tx'[c].seen = Len(findings) /\ tx'[c].cards = IF c \in Syncers THEN at ELSE {}
      BY <2>5
    <3>2. \A f \in DOMAIN findings, n \in DOMAIN new : findings[f].identity # new[n]
      BY <2>2 DEF IsKnown, Existing
    <3>3. c \in Syncers => \A k \in at : CardIdentity[k] \in Range(new) \/ IsKnown(CardIdentity[k])
      BY <2>1, <2>2
    <3>4. \A i : IsKnown(i)' <=> IsKnown(i)
      BY <2>3 DEF IsKnown, Existing
    <3> HIDE DEF new
    <3> QED BY <2>2, <2>3, <3>1, <3>2, <3>3, <3>4 DEF Looked
  <2>7. \A d \in Callers : tx'[d].pc = "commit" => Looked(d)'
    <3> SUFFICES ASSUME NEW d \in Callers \ {c}, tx'[d].pc = "commit" PROVE Looked(d)'
      BY <2>6
    <3> QED BY <2>3, <2>5, LookedStays
  <2> QED BY <2>3, <2>5, <2>7, PostedBound DEF RowsInv
<1>3. ASSUME NEW c \in Callers, Commits(c) PROVE RowsInv'
  <2>1. Grows(c) /\ findings' \in Seq(FindingRow)
    BY <1>3, StepsGrow DEF Grows
  <2>2. /\ tx' = [tx EXCEPT ![c] = [tx[c] EXCEPT !.pc = "done"]]
        /\ [tx[c] EXCEPT !.pc = "done"] \in TxState
    BY <1>3 DEF Commits, RowsInv, TxState
  <2>3. tx' \in [Callers -> TxState] /\ tx'[c].pc = "done" /\ \A d \in Callers \ {c} : tx'[d] = tx[d]
    BY <2>2 DEF RowsInv, TxState
  <2>4. ASSUME NEW d \in Callers, tx'[d].pc = "commit" PROVE Looked(d)'
    <3>1. d # c
      BY <2>3, <2>4
    <3> QED BY <2>1, <2>3, <2>4, <3>1, LookedStays
  <2> QED BY <2>1, <2>3, <2>4, PostedBound DEF RowsInv
<1> QED BY <1>1, <1>2, <1>3, RowSteps

\* A commit adds the rows that the call has worked out.
LEMMA CommitAdds ==
    ASSUME RowsInv, NEW c \in Callers, Commits(c)
    PROVE  RowsAdded(findings', c, tx[c].new, tx[c].seen)
<1>1. tx[c].new \in Seq(Identities) /\ tx[c].seen \in Nat /\ findings \in Seq(FindingRow)
  BY DEF RowsInv, TxState
<1>2. PICK status \in [DOMAIN tx[c].new -> Statuses] : findings' = WithRows(c, tx[c].new, status, tx[c].seen)
  BY DEF Commits, WithRows
<1> QED BY <1>1, <1>2, NewRows

\* Two findings with one identity are of calls that overlap, or of a user.
LEMMA StepKeepsDuplicates ==
    ASSUME RowsInv, judge \in JudgeState, DuplicatesOverlap, [Next]_vars
    PROVE  DuplicatesOverlap'
<1>1. ASSUME NEW by, Grows(by), by = None \/ DOMAIN findings' = DOMAIN findings
      PROVE  DuplicatesOverlap'
  <2> SUFFICES ASSUME NEW f \in DOMAIN findings', NEW g \in DOMAIN findings', f < g,
                      findings'[f].identity = findings'[g].identity, findings'[g].by # None
               PROVE  findings'[f].by # findings'[g].by /\ findings'[g].seen < f
    BY DEF DuplicatesOverlap
  <2>1. g \in DOMAIN findings
    BY <1>1 DEF Grows
  <2>2. f \in DOMAIN findings
    <3>1. /\ DOMAIN findings = 1..Len(findings) /\ DOMAIN findings' = 1..Len(findings')
          /\ Len(findings) \in Nat /\ Len(findings') \in Nat
      BY <1>1 DEF Grows
    <3> QED BY <2>1, <3>1
  <2>3. \A h \in DOMAIN findings :
          /\ findings'[h].identity = findings[h].identity
          /\ findings'[h].by = findings[h].by /\ findings'[h].seen = findings[h].seen
    BY <1>1 DEF Grows
  <2> QED BY <2>1, <2>2, <2>3 DEF DuplicatesOverlap
<1>2. CASE SameRows \/ Creates
  BY <1>1, <1>2, StepsGrow
<1>3. ASSUME NEW c \in Callers, Looks(c) PROVE DuplicatesOverlap'
  <2>1. Grows(c) /\ findings' = findings
    <3>1. findings' = findings
      BY <1>3 DEF Looks
    <3> QED BY <1>3, <3>1, StepsGrow
  <2> QED BY <1>1, <2>1
<1>4. ASSUME NEW c \in Callers, Commits(c) PROVE DuplicatesOverlap'
  <2> DEFINE new == tx[c].new  seen == tx[c].seen
  <2>1. RowsAdded(findings', c, new, seen) /\ Grows(c)
    BY <1>4, CommitAdds, StepsGrow
  <2>2. /\ \A m, n \in DOMAIN new : new[m] = new[n] => m = n
        /\ \A f \in DOMAIN findings, n \in DOMAIN new :
             findings[f].identity = new[n] => seen < f /\ findings[f].by # c
    BY <1>4 DEF Commits, RowsInv, Looked
  <2> HIDE DEF new, seen
  <2> SUFFICES ASSUME NEW f \in DOMAIN findings', NEW g \in DOMAIN findings', f < g,
                      findings'[f].identity = findings'[g].identity, findings'[g].by # None
               PROVE  findings'[f].by # findings'[g].by /\ findings'[g].seen < f
    BY DEF DuplicatesOverlap
  <2>3. CASE g \in DOMAIN findings
    <3>1. f \in DOMAIN findings
      BY <2>1, <2>3 DEF Grows
    <3> QED BY <2>1, <2>3, <3>1 DEF Grows, DuplicatesOverlap
  <2>4. ASSUME NEW n \in DOMAIN new, g = Len(findings) + n
        PROVE  findings'[f].by # findings'[g].by /\ findings'[g].seen < f
    <3>1. findings'[g].identity = new[n] /\ findings'[g].by = c /\ findings'[g].seen = seen
      BY <2>1, <2>4 DEF RowsAdded
    <3>2. CASE f \in DOMAIN findings
      <4>1. findings'[f] = findings[f]
        BY <2>1, <3>2 DEF RowsAdded
      <4> QED BY <2>2, <3>1, <3>2, <4>1
    <3>3. ASSUME NEW m \in DOMAIN new, f = Len(findings) + m PROVE FALSE
      <4>1. findings'[f].identity = new[m]
        BY <2>1, <3>3 DEF RowsAdded
      <4>2. m = n
        BY <2>2, <3>1, <3>3, <4>1
      <4>3. f = g /\ f \in Nat
        BY <2>1, <2>4, <3>3, <4>2 DEF Grows
      <4> QED BY <4>3
    <3> QED BY <2>1, <3>2, <3>3 DEF RowsAdded
  <2> QED BY <2>1, <2>3, <2>4 DEF RowsAdded
<1> QED BY <1>2, <1>3, <1>4, RowSteps

-----------------------------------------------------------------------------
(* The stage of the pipeline and the judgement *)

\* The fields that Goto leaves alone, and the stages that it can lead to.
LEMMA GotoFacts ==
    ASSUME run \in RunState, NEW stage \in {"list", "feedback", "poc", "verify", "end"}
    PROVE  /\ Goto(stage) \in RunState
           /\ Goto(stage).rounds = run.rounds /\ Goto(stage).listed = run.listed
           /\ Goto(stage).stage \in {"list", "feedback", "end", "pocList", "verifyList"}
           /\ Goto(stage).stage = "list" => stage = "list"
           /\ Goto(stage).stage = "feedback" => stage = "feedback"
<1> DEFINE to == IF cancel THEN "end"
                 ELSE CASE stage = "poc" -> (IF Enabled("poc") THEN "pocList"
                                             ELSE IF Enabled("verify") THEN "verifyList" ELSE "end")
                        [] stage = "verify" -> (IF Enabled("verify") THEN "verifyList" ELSE "end")
                        [] OTHER -> stage
<1>1. Goto(stage) = [run EXCEPT !.stage = to]
  BY DEF Goto
<1>2. /\ to \in {"list", "feedback", "end", "pocList", "verifyList"}
      /\ to = "list" => stage = "list"
      /\ to = "feedback" => stage = "feedback"
  OBVIOUS
<1> HIDE DEF to
<1>3. to \in Points
  BY <1>2 DEF Points
<1>4. [run EXCEPT !.stage = to] \in RunState
  BY <1>3 DEF RunState
<1>5. /\ [run EXCEPT !.stage = to].stage = to
      /\ [run EXCEPT !.stage = to].rounds = run.rounds /\ [run EXCEPT !.stage = to].listed = run.listed
  BY DEF RunState
<1> QED BY <1>1, <1>2, <1>4, <1>5

\* Only a step of the pipeline changes its stage.
LEMMA OtherSteps ==
    ASSUME [Next]_vars, ~Pipeline
    PROVE  run' = run
<1>1. CASE Judge \/ Retriage \/ PostCard \/ RequestCancel \/ UNCHANGED vars
  BY <1>1 DEF Judge, JudgeSync, JudgeDecide, JudgeApply, JudgeCommit, Retriage, PostCard, RequestCancel, vars
<1>2. ASSUME NEW i \in Posted, CreateFinding(i) PROVE run' = run
  BY <1>2 DEF CreateFinding
<1>3. ASSUME NEW c \in Callers, Call(c) PROVE run' = run
  BY <1>3 DEF Call, IngestLookup, IngestCommit, SyncCommit, ListFindings
<1>4. ASSUME NEW a, AttemptStep(a) PROVE run' = run
  BY <1>4 DEF AttemptStep, Record, CheckBefore, Acquire, CheckAfter, Start, AgentReturns, AgentRaises,
              EndAttempt, Task
<1>5. ASSUME NEW f, WorkStep(f) PROVE run' = run
  BY <1>5 DEF WorkStep, WriterStarts, WriterEnds, VerifierStarts, VerifierEnds, WorkStarts, WorkEnds
<1> QED BY <1>1, <1>2, <1>3, <1>4, <1>5 DEF Next

\* The state of the pipeline keeps its type.
LEMMA StepKeepsRun ==
    ASSUME RowsInv, run \in RunState, [Next]_vars
    PROVE  run' \in RunState
<1>0. \A stage \in {"list", "feedback", "poc", "verify", "end"} : Goto(stage) \in RunState
  BY GotoFacts
<1>1. CASE ~Pipeline
  BY <1>1, OtherSteps
<1>2. CASE Triage
  <2>1. run' = [run EXCEPT !.stage = "triaging"] \/ run' = Goto("list")
    BY <1>2 DEF Triage
  <2>2. [run EXCEPT !.stage = "triaging"] \in RunState
    BY DEF RunState, Points
  <2>3. Goto("list") \in RunState
    BY <1>0
  <2> QED BY <2>1, <2>2, <2>3
<1>3. CASE SwarmEnds
  <2>1. PICK status \in {"completed", "failed"} : run' = [Goto("list") EXCEPT !.task = status]
    BY <1>3 DEF SwarmEnds
  <2> HIDE DEF Goto
  <2> QED BY <1>0, <2>1 DEF RunState
<1>4. CASE RunSync("list", "listed") \/ RunSync("pocList", "pocListed") \/ RunSync("verifyList", "verifySelect")
  BY <1>4 DEF RunSync, RunState, Points
<1>5. CASE Select
  <2>1. DOMAIN findings \in SUBSET Nat
    BY DEF RowsInv
  <2> QED BY <1>5, <2>1 DEF Select, RunState, Points
<1>6. CASE Triaged \/ Mark \/ PocFilter \/ VerifySelect
  BY <1>6 DEF Triaged, Mark, PocFilter, VerifySelect, RunState, Points
<1>12. CASE PocSelect
  <2>1. PocCandidates \in SUBSET Nat
    BY DEF RowsInv, PocCandidates
  <2> QED BY <1>12, <2>1 DEF PocSelect, RunState, Points
<1>7. CASE Collect \/ PocEnds \/ VerifyEnds
  BY <1>0, <1>7 DEF Collect, PocEnds, VerifyEnds, StageEnds
<1>8. CASE Feedback
  BY <1>0, <1>8 DEF Feedback, RunState, Points
<1>9. CASE Round
  <2>1. ASSUME NEW o \in BatchOutputs,
               run' = [run EXCEPT !.stage = "batch", !.rounds = @ + 1, !.batch = o, !.task = "created"]
        PROVE  run' \in RunState
    <3>1. run.rounds + 1 \in Nat /\ "batch" \in Points
      BY DEF RunState, Points
    <3> QED BY <2>1, <3>1 DEF RunState
  <2>2. CASE run' = [Goto("poc") EXCEPT !.rounds = @ + 1, !.batch = None]
    <3> DEFINE g == Goto("poc")
    <3>1. g \in RunState /\ run' = [g EXCEPT !.rounds = g.rounds + 1, !.batch = None]
      BY <1>0, <2>2
    <3> HIDE DEF g
    <3>2. g.rounds + 1 \in Nat
      BY <3>1 DEF RunState
    <3> QED BY <3>1, <3>2 DEF RunState
  <2> QED BY <1>9, <2>1, <2>2 DEF Round
<1>10. CASE BatchStarts \/ BatchRaises \/ BatchEnds
  BY <1>10 DEF BatchStarts, BatchRaises, BatchEnds, BatchTask, RunState
<1>11. CASE RoundEnds
  BY <1>0, <1>11 DEF RoundEnds, RunState, Points
<1> QED BY <1>1, <1>2, <1>3, <1>4, <1>5, <1>6, <1>7, <1>8, <1>9, <1>10, <1>11, <1>12 DEF Pipeline

\* A function from numbers is a partial map.
LEMMA PartialMap ==
    ASSUME NEW S, NEW D \in SUBSET Nat, NEW m \in [D -> S]
    PROVE  m \in PartialMaps(S)
BY DEF PartialMaps

\* The judgement keeps its type: what it writes are statuses.
LEMMA StepKeepsJudge ==
    ASSUME RowsInv, judge \in JudgeState, [Next]_vars
    PROVE  judge' \in JudgeState
<1>0. DOMAIN findings \in SUBSET Nat /\ {} \in SUBSET Nat
  BY DEF RowsInv
<1>1. ASSUME NEW S PROVE <<>> \in PartialMaps(S)
  <2>1. <<>> \in [{} -> S]
    OBVIOUS
  <2> QED BY <1>0, <2>1, PartialMap
<1>2. CASE JudgeSync
  BY <1>2 DEF JudgeSync, JudgeState
<1>3. CASE JudgeDecide
  <2>1. PICK verdict \in DecisionSets : judge' = [judge EXCEPT !.pc = "apply", !.verdict = verdict]
    BY <1>3 DEF JudgeDecide
  <2>2. PICK decided \in SUBSET DOMAIN findings : verdict \in [decided -> Verdicts]
    BY <2>1 DEF DecisionSets, kSubset
  <2>3. verdict \in PartialMaps(Verdicts)
    BY <1>0, <2>2, PartialMap
  <2> QED BY <2>1, <2>3 DEF JudgeState
<1>4. CASE JudgeApply
  <2> DEFINE New(f) == IF f \in DOMAIN judge.verdict THEN judge.verdict[f] ELSE Fallback(f)
             changed == {f \in DOMAIN findings : New(f) # findings[f].status}
             update == [f \in changed |-> New(f)]
  <2>1. judge' = [judge EXCEPT !.pc = "commit", !.verdict = <<>>, !.update = update]
    BY <1>4 DEF JudgeApply
  <2>2. ASSUME NEW f \in DOMAIN findings PROVE New(f) \in Statuses
    <3>1. f \in DOMAIN judge.verdict => judge.verdict[f] \in Statuses
      BY PartialValue DEF JudgeState, Verdicts, Statuses
    <3>2. Fallback(f) \in Statuses
      BY RowType DEF RowsInv, Fallback, Statuses
    <3> QED BY <3>1, <3>2
  <2>3. update \in [changed -> Statuses] /\ changed \in SUBSET Nat
    <3> HIDE DEF New
    <3> QED BY <1>0, <2>2
  <2>4. update \in PartialMaps(Statuses)
    <3> HIDE DEF update, changed
    <3> QED BY <2>3, PartialMap
  <2> HIDE DEF update
  <2> QED BY <1>1, <2>1, <2>4 DEF JudgeState
<1>5. CASE JudgeCommit
  BY <1>1, <1>5 DEF JudgeCommit, JudgeState
<1>6. CASE Pipeline
  BY <1>6 DEF Pipeline, Triage, Triaged, SwarmEnds, RunSync, Select, Mark, Collect, Feedback, Round, BatchStarts, BatchRaises, BatchEnds,
              BatchTask, RoundEnds, PocSelect, PocFilter, VerifySelect, PocEnds, VerifyEnds, StageEnds
<1>7. CASE Retriage \/ PostCard \/ RequestCancel \/ UNCHANGED vars
  BY <1>7 DEF Retriage, PostCard, RequestCancel, vars
<1>8. ASSUME NEW i \in Posted, CreateFinding(i) PROVE judge' = judge
  BY <1>8 DEF CreateFinding
<1>9. ASSUME NEW c \in Callers, Call(c) PROVE judge' = judge
  BY <1>9 DEF Call, IngestLookup, IngestCommit, SyncCommit, ListFindings
<1>10. ASSUME NEW a, AttemptStep(a) PROVE judge' = judge
  BY <1>10 DEF AttemptStep, Record, CheckBefore, Acquire, CheckAfter, Start, AgentReturns, AgentRaises,
               EndAttempt, Task
<1>11. ASSUME NEW f, WorkStep(f) PROVE judge' = judge
  BY <1>11 DEF WorkStep, WriterStarts, WriterEnds, VerifierStarts, VerifierEnds, WorkStarts, WorkEnds
<1> QED BY <1>2, <1>3, <1>4, <1>5, <1>6, <1>7, <1>8, <1>9, <1>10, <1>11 DEF Next, Judge

-----------------------------------------------------------------------------
(* What refers to findings *)

TriageRow == [decision : Decisions \cup {None}, finding : 0..Len(findings)]
PlanRow == [at : Triagers, decision : Decisions, finding : 0..Len(findings)]

\* The rows of the decisions, those that a triage is about to write, and what was sent to a
\* deep dive.
TriageInv ==
    /\ triage \in [Cards -> [Triagers -> TriageRow]] /\ DOMAIN plan = Triagers
    /\ \A w \in Triagers :
         /\ plan[w].pc \in {"idle", "commit"} /\ DOMAIN plan[w].rows \subseteq Cards
         /\ \A k \in DOMAIN plan[w].rows : plan[w].rows[k] \in PlanRow
    /\ sent \subseteq DOMAIN findings
    /\ \A k \in Cards, w \in Triagers :
         triage[k][w].decision = "deep_dive" => triage[k][w].finding \in sent \cup {0}

AttemptState ==
    [status : AttemptEnds \cup {None, "queued", "running"}, pc : TaskPoints, agent : {None, "completed", "failed"}]

\* An attempt that is about to write its evidence, or has, has its final status.
AttemptInv(e) ==
    e \in AttemptState /\ (e.pc \in {"dropped", "cancelled", "error", "done", "ended"} => e.status \in AttemptEnds)

\* Links, decisions, evidence and work are about findings that exist.
ReferencesInv ==
    /\ link \in [Cards -> 0..Len(findings)] /\ TriageInv
    /\ run.listed \subseteq DOMAIN findings /\ \A e \in evidence : e[1] \in DOMAIN findings
    /\ \A f \in DOMAIN work : f \in DOMAIN findings /\ work[f] \in {"wait", "agent", "ended"}
    /\ \A a \in DOMAIN attempts : a[1] \in DOMAIN findings /\ a[2] \in 1..Rounds /\ AttemptInv(attempts[a])

\* No finding goes.
LEMMA RowsStay ==
    ASSUME RowsInv, judge \in JudgeState, [Next]_vars
    PROVE  /\ DOMAIN findings \subseteq DOMAIN findings' /\ 0..Len(findings) \subseteq 0..Len(findings')
           /\ DOMAIN findings' = 1..Len(findings')
           /\ \A f \in DOMAIN findings : findings'[f].by = findings[f].by
<1>1. ASSUME NEW by, Grows(by)
      PROVE  /\ DOMAIN findings \subseteq DOMAIN findings' /\ 0..Len(findings) \subseteq 0..Len(findings')
             /\ DOMAIN findings' = 1..Len(findings')
             /\ \A f \in DOMAIN findings : findings'[f].by = findings[f].by
  <2>1. /\ DOMAIN findings = 1..Len(findings) /\ DOMAIN findings' = 1..Len(findings')
        /\ Len(findings) \in Nat /\ Len(findings') \in Nat /\ Len(findings') >= Len(findings)
    BY <1>1 DEF Grows
  <2>2. \A f \in DOMAIN findings : findings'[f].by = findings[f].by
    BY <1>1 DEF Grows
  <2> QED BY <2>1, <2>2
<1> QED BY <1>1, RowSteps, StepsGrow

\* A card that a sync links gets a finding that exists.
LEMMA TargetExists ==
    ASSUME RowsInv, NEW c \in Syncers, SyncCommit(c), NEW k \in tx[c].cards
    PROVE  \E f \in DOMAIN findings' :
             /\ findings'[f].identity = CardIdentity[k]
             /\ IF CardIdentity[k] \in Range(tx[c].new) THEN f > Len(findings)
                ELSE \A g \in DOMAIN findings' : findings'[g].identity = CardIdentity[k] => f <= g
<1>1. c \in Callers /\ Commits(c)
  BY CommitSteps DEF Callers
<1>2. RowsAdded(findings', c, tx[c].new, tx[c].seen) /\ Grows(c) /\ findings \in Seq(FindingRow)
  BY <1>1, CommitAdds, StepsGrow DEF RowsInv
<1>3. tx[c].new \in Seq(Identities) /\ Len(findings) \in Nat
  BY <1>1, <1>2 DEF RowsInv, TxState
<1>4. CASE CardIdentity[k] \in Range(tx[c].new)
  <2>1. PICK n \in DOMAIN tx[c].new : tx[c].new[n] = CardIdentity[k]
    BY <1>4 DEF Range
  <2>2. /\ Len(findings) + n \in DOMAIN findings'
        /\ findings'[Len(findings) + n].identity = CardIdentity[k] /\ Len(findings) + n > Len(findings)
    BY <1>2, <1>3, <2>1 DEF RowsAdded
  <2> QED BY <1>4, <2>2
<1>5. CASE CardIdentity[k] \notin Range(tx[c].new)
  <2> DEFINE S == {g \in DOMAIN findings' : findings'[g].identity = CardIdentity[k]}
  <2>1. IsKnown(CardIdentity[k])
    BY <1>1, <1>5 DEF RowsInv, Looked, Commits
  <2>2. PICK g \in DOMAIN findings : findings[g].identity = CardIdentity[k]
    BY <2>1 DEF IsKnown, Existing
  <2>3. g \in S
    BY <1>2, <2>2 DEF RowsAdded
  <2>4. S \in SUBSET Nat
    BY <1>2 DEF Grows
  <2>5. PICK f \in S : \A h \in S : f <= h
    <3> HIDE DEF S
    <3> QED BY <2>3, <2>4, LeastNumber
  <2> QED BY <1>5, <2>5
<1> QED BY <1>4, <1>5

\* The links stay links to findings.
LEMMA StepKeepsLinks ==
    ASSUME RowsInv, judge \in JudgeState, link \in [Cards -> 0..Len(findings)], [Next]_vars
    PROVE  link' \in [Cards -> 0..Len(findings')]
<1>0. 0..Len(findings) \subseteq 0..Len(findings') /\ DOMAIN findings' = 1..Len(findings')
  BY RowsStay
<1>1. CASE link' = link
  BY <1>0, <1>1
<1>2. ASSUME NEW c \in Syncers, SyncCommit(c) PROVE link' \in [Cards -> 0..Len(findings')]
  <2> DEFINE Fits(f, k) ==
               /\ findings'[f].identity = CardIdentity[k]
               /\ IF CardIdentity[k] \in Range(tx[c].new) THEN f > Len(findings)
                  ELSE \A g \in DOMAIN findings' : findings'[g].identity = CardIdentity[k] => f <= g
             Target(k) == CHOOSE f \in DOMAIN findings' : Fits(f, k)
  <2>1. link' = [k \in Cards |-> IF k \in tx[c].cards THEN Target(k) ELSE link[k]]
    <3>1. findings' = findings \o Rows(c, tx[c].new, All("candidate", tx[c].new), tx[c].seen)
      BY <1>2 DEF SyncCommit
    <3> QED BY <1>2, <3>1 DEF SyncCommit
  <2>2. \A k \in tx[c].cards : \E f \in DOMAIN findings' : Fits(f, k)
    BY <1>2, TargetExists
  <2>3. \A k \in tx[c].cards : Target(k) \in 0..Len(findings')
    <3> HIDE DEF Fits
    <3>1. \A k \in tx[c].cards : Target(k) \in DOMAIN findings'
      BY <2>2
    <3>2. DOMAIN findings' \subseteq 0..Len(findings')
      BY <1>0
    <3> HIDE DEF Target
    <3> QED BY <3>1, <3>2
  <2> HIDE DEF Target
  <2> QED BY <1>0, <2>1, <2>3
<1>3. CASE Pipeline
  BY <1>1, <1>3
     DEF Pipeline, Triage, Triaged, SwarmEnds, RunSync, Select, Mark, Collect, Feedback, Round, BatchStarts, BatchRaises, BatchEnds,
         BatchTask, RoundEnds, PocSelect, PocFilter, VerifySelect, PocEnds, VerifyEnds, StageEnds
<1>4. CASE Judge \/ Retriage \/ PostCard \/ RequestCancel \/ UNCHANGED vars
  BY <1>1, <1>4 DEF Judge, JudgeSync, JudgeDecide, JudgeApply, JudgeCommit, Retriage, PostCard, RequestCancel, vars
<1>5. ASSUME NEW i \in Posted, CreateFinding(i) PROVE link' = link
  BY <1>5 DEF CreateFinding
<1>6. ASSUME NEW c \in Callers, Call(c) PROVE link' = link \/ (c \in Syncers /\ SyncCommit(c))
  BY <1>6 DEF Call, Callers, IngestLookup, IngestCommit, ListFindings
<1>7. ASSUME NEW a, AttemptStep(a) PROVE link' = link
  BY <1>7 DEF AttemptStep, Record, CheckBefore, Acquire, CheckAfter, Start, AgentReturns, AgentRaises,
              EndAttempt, Task
<1>8. ASSUME NEW f, WorkStep(f) PROVE link' = link
  BY <1>8 DEF WorkStep, WriterStarts, WriterEnds, VerifierStarts, VerifierEnds, WorkStarts, WorkEnds
<1> QED BY <1>1, <1>2, <1>3, <1>4, <1>5, <1>6, <1>7, <1>8 DEF Next

\* Only the two transactions of a triage change what was decided.
LEMMA TriageSteps ==
    ASSUME [Next]_vars
    PROVE  \/ triage' = triage /\ plan' = plan /\ sent' = sent
           \/ findings' = findings /\ \E w \in Triagers : TriageLookup(w) \/ TriageCommit(w)
<1> DEFINE Same == triage' = triage /\ plan' = plan /\ sent' = sent
<1>1. CASE Triage \/ Triaged
  BY <1>1 DEF Triage, Triaged, Triagers, triageVars
<1>2. CASE Retriage
  BY <1>2 DEF Retriage, Triagers
<1>3. CASE Pipeline /\ ~(Triage \/ Triaged)
  BY <1>3
     DEF Pipeline, SwarmEnds, RunSync, Select, Mark, Collect, Feedback, Round, BatchStarts, BatchRaises, BatchEnds,
         BatchTask, RoundEnds, PocSelect, PocFilter, VerifySelect, PocEnds, VerifyEnds, StageEnds, triageVars
<1>4. CASE Judge \/ PostCard \/ RequestCancel \/ UNCHANGED vars
  BY <1>4 DEF Judge, JudgeSync, JudgeDecide, JudgeApply, JudgeCommit, PostCard, RequestCancel, vars, triageVars
<1>5. ASSUME NEW i \in Posted, CreateFinding(i) PROVE Same
  BY <1>5 DEF CreateFinding, triageVars
<1>6. ASSUME NEW c \in Callers, Call(c) PROVE Same
  BY <1>6 DEF Call, IngestLookup, IngestCommit, SyncCommit, ListFindings, triageVars
<1>7. ASSUME NEW a, AttemptStep(a) PROVE Same
  BY <1>7 DEF AttemptStep, Record, CheckBefore, Acquire, CheckAfter, Start, AgentReturns, AgentRaises,
              EndAttempt, Task, triageVars
<1>8. ASSUME NEW f, WorkStep(f) PROVE Same
  BY <1>8 DEF WorkStep, WriterStarts, WriterEnds, VerifierStarts, VerifierEnds, WorkStarts, WorkEnds, triageVars
<1> QED BY <1>1, <1>2, <1>3, <1>4, <1>5, <1>6, <1>7, <1>8 DEF Next

\* The decisions of the triage stay about findings, and no deep dive is forgotten.
LEMMA StepKeepsTriage ==
    ASSUME RowsInv, judge \in JudgeState, ReferencesInv, [Next]_vars
    PROVE  TriageInv' /\ sent \subseteq sent'
<1>0. /\ TriageRow \subseteq TriageRow' /\ PlanRow \subseteq PlanRow' /\ DOMAIN findings \subseteq DOMAIN findings'
      /\ TriageInv
  BY RowsStay DEF TriageRow, PlanRow, ReferencesInv
<1>1. CASE triage' = triage /\ plan' = plan /\ sent' = sent
  <2>1. triage' \in [Cards -> [Triagers -> TriageRow']]
    BY <1>0, <1>1 DEF TriageInv
  <2> QED BY <1>0, <1>1, <2>1 DEF TriageInv
<1>2. ASSUME findings' = findings, NEW w \in Triagers, TriageLookup(w) PROVE TriageInv' /\ sent \subseteq sent'
  <2>1. PICK decision \in [1..posted -> Decisions], at \in [1..posted -> Triagers] :
          plan' = [plan EXCEPT ![w] =
              [pc |-> "commit",
               rows |-> [k \in 1..posted |-> [at |-> at[k], decision |-> decision[k], finding |-> link[k]]]]]
    BY <1>2 DEF TriageLookup
  <2>2. 1..posted \subseteq Cards
    BY PayloadTypes DEF RowsInv
  <2>3. \A k \in 1..posted : [at |-> at[k], decision |-> decision[k], finding |-> link[k]] \in PlanRow
    BY <2>2 DEF ReferencesInv, PlanRow
  <2>4. triage' = triage /\ sent' = sent /\ TriageRow' = TriageRow /\ PlanRow' = PlanRow
    BY <1>2 DEF TriageLookup, TriageRow, PlanRow
  <2>5. /\ DOMAIN plan' = Triagers
        /\ \A v \in Triagers :
             /\ plan'[v].pc \in {"idle", "commit"} /\ DOMAIN plan'[v].rows \subseteq Cards
             /\ \A k \in DOMAIN plan'[v].rows : plan'[v].rows[k] \in PlanRow
    BY <1>0, <2>1, <2>2, <2>3 DEF TriageInv
  <2> QED BY <1>0, <1>2, <2>4, <2>5 DEF TriageInv
<1>3. ASSUME findings' = findings, NEW w \in Triagers, TriageCommit(w) PROVE TriageInv' /\ sent \subseteq sent'
  <2> DEFINE rows == plan[w].rows
             New(k) == [decision |-> rows[k].decision, finding |-> rows[k].finding]
  <2>1. /\ triage' = [k \in Cards |-> IF k \in DOMAIN rows THEN [triage[k] EXCEPT ![rows[k].at] = New(k)] ELSE triage[k]]
        /\ sent' = sent \cup ({rows[k].finding : k \in {l \in DOMAIN rows : rows[l].decision = "deep_dive"}} \ {0})
        /\ plan' = [plan EXCEPT ![w] = [pc |-> "idle", rows |-> <<>>]]
    BY <1>3 DEF TriageCommit
  <2>2. /\ DOMAIN rows \subseteq Cards
        /\ \A k \in DOMAIN rows : rows[k].at \in Triagers /\ rows[k].finding \in 0..Len(findings) /\ New(k) \in TriageRow
    BY <1>0 DEF TriageInv, PlanRow, TriageRow
  <2>3. /\ DOMAIN plan' = Triagers
        /\ \A v \in Triagers :
             /\ plan'[v].pc \in {"idle", "commit"} /\ DOMAIN plan'[v].rows \subseteq Cards
             /\ \A k \in DOMAIN plan'[v].rows : plan'[v].rows[k] \in PlanRow
    BY <1>0, <2>1 DEF TriageInv
  <2>4. sent' \subseteq DOMAIN findings /\ sent \subseteq sent'
    <3>1. DOMAIN findings = 1..Len(findings) /\ Len(findings) \in Nat
      BY DEF RowsInv
    <3>2. 0..Len(findings) \ {0} \subseteq DOMAIN findings
      BY <3>1
    <3>3. {rows[k].finding : k \in {l \in DOMAIN rows : rows[l].decision = "deep_dive"}} \subseteq 0..Len(findings)
      BY <2>2
    <3>4. sent \subseteq DOMAIN findings
      BY <1>0 DEF TriageInv
    <3> QED BY <2>1, <3>2, <3>3, <3>4
  <2>5. ASSUME NEW k \in Cards
        PROVE  /\ triage'[k] \in [Triagers -> TriageRow]
               /\ \A v \in Triagers : triage'[k][v].decision = "deep_dive" => triage'[k][v].finding \in sent' \cup {0}
    <3>1. triage[k] \in [Triagers -> TriageRow]
      BY <1>0 DEF TriageInv
    <3>2. \A v \in Triagers : triage[k][v].decision = "deep_dive" => triage[k][v].finding \in sent' \cup {0}
      BY <1>0, <2>4 DEF TriageInv
    <3>3. CASE k \notin DOMAIN rows
      BY <2>1, <3>1, <3>2, <3>3
    <3>4. CASE k \in DOMAIN rows
      <4>1. triage'[k] = [triage[k] EXCEPT ![rows[k].at] = New(k)] /\ New(k) \in TriageRow
        BY <2>1, <2>2, <3>4
      <4>2. New(k).decision = "deep_dive" => New(k).finding \in sent' \cup {0}
        BY <2>1, <3>4
      <4> HIDE DEF New
      <4> QED BY <3>1, <3>2, <4>1, <4>2
    <3> QED BY <3>3, <3>4
  <2>6. triage' = [k \in Cards |-> triage'[k]]
    BY <2>1
  <2>7. triage' \in [Cards -> [Triagers -> TriageRow]]
    BY <2>5, <2>6
  <2>8. TriageRow' = TriageRow /\ PlanRow' = PlanRow
    BY <1>3 DEF TriageRow, PlanRow
  <2> QED BY <1>3, <2>3, <2>4, <2>5, <2>7, <2>8 DEF TriageInv
<1> QED BY <1>1, <1>2, <1>3, TriageSteps

\* The findings that the pipeline has listed stay.
LEMMA StepKeepsListed ==
    ASSUME RowsInv, judge \in JudgeState, run \in RunState, ReferencesInv, [Next]_vars
    PROVE  run'.listed \subseteq DOMAIN findings'
<1>0. DOMAIN findings \subseteq DOMAIN findings'
  BY RowsStay
<1>1. CASE run'.listed = run.listed
  BY <1>0, <1>1 DEF ReferencesInv
<1>2. CASE Select
  <2>1. run'.listed = DOMAIN findings
    BY <1>2 DEF Select, RunState
  <2> QED BY <1>0, <2>1
<1>4. CASE PocSelect
  <2>1. run'.listed = PocCandidates
    BY <1>4 DEF PocSelect, RunState
  <2>2. PocCandidates \subseteq DOMAIN findings
    BY DEF PocCandidates
  <2> QED BY <1>0, <2>1, <2>2
<1>3. CASE Pipeline /\ ~Select /\ ~PocSelect
  <2> SUFFICES run'.listed = run.listed
    BY <1>1
  <2>1. \A stage \in {"list", "feedback", "poc", "verify", "end"} :
          Goto(stage) \in RunState /\ Goto(stage).listed = run.listed
    BY GotoFacts
  <2>2. CASE Triage
    BY <2>1, <2>2 DEF Triage, RunState
  <2>3. CASE SwarmEnds
    <3>1. PICK status \in {"completed", "failed"} : run' = [Goto("list") EXCEPT !.task = status]
      BY <2>3 DEF SwarmEnds
    <3> HIDE DEF Goto
    <3> QED BY <2>1, <3>1 DEF RunState
  <2>4. CASE RunSync("list", "listed") \/ RunSync("pocList", "pocListed") \/ RunSync("verifyList", "verifySelect")
    BY <2>4 DEF RunSync, RunState
  <2>5. CASE Triaged \/ Mark \/ PocFilter \/ VerifySelect
    BY <2>5 DEF Triaged, Mark, PocFilter, VerifySelect, RunState
  <2>6. CASE Collect \/ PocEnds \/ VerifyEnds
    BY <2>1, <2>6 DEF Collect, PocEnds, VerifyEnds, StageEnds
  <2>7. CASE Feedback
    BY <2>1, <2>7 DEF Feedback, RunState
  <2>8. CASE Round
    <3>1. ASSUME NEW o \in BatchOutputs,
                 run' = [run EXCEPT !.stage = "batch", !.rounds = @ + 1, !.batch = o, !.task = "created"]
          PROVE  run'.listed = run.listed
      BY <3>1 DEF RunState
    <3>2. CASE run' = [Goto("poc") EXCEPT !.rounds = @ + 1, !.batch = None]
      <4> DEFINE g == Goto("poc")
      <4>1. g \in RunState /\ g.listed = run.listed /\ run' = [g EXCEPT !.rounds = g.rounds + 1, !.batch = None]
        BY <2>1, <3>2
      <4> HIDE DEF g
      <4> QED BY <4>1 DEF RunState
    <3> QED BY <2>8, <3>1, <3>2 DEF Round
  <2>9. CASE BatchStarts \/ BatchRaises \/ BatchEnds
    BY <2>9 DEF BatchStarts, BatchRaises, BatchEnds, BatchTask, RunState
  <2>10. CASE RoundEnds
    BY <2>1, <2>10 DEF RoundEnds, RunState
  <2> QED BY <1>3, <2>2, <2>3, <2>4, <2>5, <2>6, <2>7, <2>8, <2>9, <2>10 DEF Pipeline
<1> QED BY <1>1, <1>2, <1>3, <1>4, OtherSteps

\* An attempt's step is one of its own row.
LEMMA AttemptMoves ==
    ASSUME NEW a \in DOMAIN attempts, AttemptInv(attempts[a]), AttemptStep(a)
    PROVE  /\ DOMAIN attempts' = DOMAIN attempts /\ \A b \in DOMAIN attempts : b # a => attempts'[b] = attempts[b]
           /\ AttemptInv(attempts'[a])
           /\ \A e \in evidence' \ evidence : e[1] = a[1] /\ e[2] \notin PocKinds /\ e[3] = "validator"
           /\ evidence \subseteq evidence'
<1> DEFINE e == attempts[a]
<1>0. e \in AttemptState
  BY DEF AttemptInv
<1>1. ASSUME NEW from \in TaskPoints, NEW status \in AttemptEnds \cup {None, "queued", "running"}, NEW to \in TaskPoints,
             Task(a, from, status, to),
             to \in {"dropped", "cancelled", "error", "done", "ended"} => status \in AttemptEnds
      PROVE  /\ DOMAIN attempts' = DOMAIN attempts /\ \A b \in DOMAIN attempts : b # a => attempts'[b] = attempts[b]
             /\ AttemptInv(attempts'[a]) /\ evidence' = evidence
  <2>1. attempts' = [attempts EXCEPT ![a] = [e EXCEPT !.status = status, !.pc = to]]
    BY <1>1 DEF Task
  <2>2. AttemptInv([e EXCEPT !.status = status, !.pc = to])
    BY <1>0, <1>1 DEF AttemptInv, AttemptState
  <2> QED BY <1>1, <2>1, <2>2 DEF Task
<1>2. CASE Record(a)
  BY <1>1, <1>2 DEF Record, TaskPoints
<1>3. CASE CheckBefore(a)
  BY <1>1, <1>3 DEF CheckBefore, TaskPoints, AttemptEnds
<1>4. CASE Acquire(a)
  BY <1>1, <1>4 DEF Acquire, TaskPoints
<1>5. CASE CheckAfter(a)
  BY <1>1, <1>5 DEF CheckAfter, TaskPoints, AttemptEnds
<1>6. CASE Start(a)
  BY <1>1, <1>6 DEF Start, TaskPoints
<1>7. CASE AgentRaises(a)
  BY <1>1, <1>7 DEF AgentRaises, TaskPoints, AttemptEnds
<1>8. CASE AgentReturns(a)
  <2>1. PICK outcome \in {"completed", "failed"} :
          attempts' = [attempts EXCEPT ![a] = [status |-> "completed", pc |-> "done", agent |-> outcome]]
    BY <1>8 DEF AgentReturns
  <2>2. AttemptInv([status |-> "completed", pc |-> "done", agent |-> outcome])
    BY <2>1 DEF AttemptInv, AttemptState, TaskPoints, AttemptEnds
  <2> QED BY <1>8, <2>1, <2>2 DEF AgentReturns
<1>9. CASE EndAttempt(a)
  <2>1. e.pc \in {"dropped", "cancelled", "error", "done"} /\ attempts' = [attempts EXCEPT ![a] = [e EXCEPT !.pc = "ended"]]
        /\ evidence' = evidence \cup {<<a[1], EvidenceOf[e.pc], "validator">>}
    BY <1>9 DEF EndAttempt, EvidenceOf
  <2>2. EvidenceOf[e.pc] \notin PocKinds
    BY <2>1 DEF EvidenceOf, PocKinds
  <2>3. AttemptInv([e EXCEPT !.pc = "ended"])
    BY <1>0, <2>1 DEF AttemptInv, AttemptState, TaskPoints
  <2> QED BY <2>1, <2>2, <2>3
<1> QED BY <1>2, <1>3, <1>4, <1>5, <1>6, <1>7, <1>8, <1>9 DEF AttemptStep

\* The stages that the pipeline's steps lead to.
LEMMA PipelineStages ==
    ASSUME run \in RunState, Pipeline
    PROVE  /\ run'.stage # "triage"
           /\ run'.stage = "poc" => PocFilter
           /\ run'.stage = "verify" => VerifySelect
<1>0. \A stage \in {"list", "feedback", "poc", "verify", "end"} :
        Goto(stage) \in RunState /\ Goto(stage).stage \in {"list", "feedback", "end", "pocList", "verifyList"}
  BY GotoFacts
<1> SUFFICES ASSUME ~PocFilter, ~VerifySelect PROVE run'.stage \notin {"triage", "poc", "verify"}
  BY DEF PocFilter, VerifySelect, RunState
<1>1. CASE Triage
  BY <1>0, <1>1 DEF Triage, RunState
<1>2. CASE SwarmEnds
  <2>1. PICK status \in {"completed", "failed"} : run' = [Goto("list") EXCEPT !.task = status]
    BY <1>2 DEF SwarmEnds
  <2> HIDE DEF Goto
  <2> QED BY <1>0, <2>1 DEF RunState
<1>3. CASE RunSync("list", "listed") \/ RunSync("pocList", "pocListed") \/ RunSync("verifyList", "verifySelect")
  BY <1>3 DEF RunSync, RunState
<1>4. CASE Triaged \/ Select \/ Mark \/ PocSelect
  BY <1>4 DEF Triaged, Select, Mark, PocSelect, RunState
<1>5. CASE Collect \/ PocEnds \/ VerifyEnds
  BY <1>0, <1>5 DEF Collect, PocEnds, VerifyEnds, StageEnds
<1>6. CASE Feedback
  BY <1>0, <1>6 DEF Feedback, RunState
<1>7. CASE Round
  <2>1. ASSUME NEW o \in BatchOutputs,
               run' = [run EXCEPT !.stage = "batch", !.rounds = @ + 1, !.batch = o, !.task = "created"]
        PROVE  run'.stage \notin {"triage", "poc", "verify"}
    BY <2>1 DEF RunState
  <2>2. CASE run' = [Goto("poc") EXCEPT !.rounds = @ + 1, !.batch = None]
    <3> DEFINE g == Goto("poc")
    <3>1. /\ g \in RunState /\ g.stage \in {"list", "feedback", "end", "pocList", "verifyList"}
          /\ run' = [g EXCEPT !.rounds = g.rounds + 1, !.batch = None]
      BY <1>0, <2>2
    <3> HIDE DEF g
    <3> QED BY <3>1 DEF RunState
  <2> QED BY <1>7, <2>1, <2>2 DEF Round
<1>8. CASE BatchStarts \/ BatchRaises \/ BatchEnds
  BY <1>8 DEF BatchStarts, BatchRaises, BatchEnds, BatchTask, At, RunState
<1>9. CASE RoundEnds
  BY <1>0, <1>9 DEF RoundEnds, RunState
<1> QED BY <1>1, <1>2, <1>3, <1>4, <1>5, <1>6, <1>7, <1>8, <1>9 DEF Pipeline

\* What the steps write as evidence: that which makes the verifiers look at a finding is from
\* the writer, or from the call that made the finding.
LEMMA EvidenceSteps ==
    ASSUME RowsInv, judge \in JudgeState, ReferencesInv, [Next]_vars
    PROVE  /\ evidence \subseteq evidence'
           /\ \A e \in evidence' \ evidence :
                /\ e[1] \in DOMAIN findings'
                /\ e[2] \in PocKinds => e[3] \in {"writer", findings'[e[1]].by}
                /\ e[3] = "writer" => run.stage = "poc" /\ e[1] \in DOMAIN work
                /\ e[3] = "verifier" => run.stage = "verify" /\ e[1] \in DOMAIN work
<1> DEFINE Fits(e) == /\ e[1] \in DOMAIN findings'
                      /\ e[2] \in PocKinds => e[3] \in {"writer", findings'[e[1]].by}
                      /\ e[3] = "writer" => run.stage = "poc" /\ e[1] \in DOMAIN work
                      /\ e[3] = "verifier" => run.stage = "verify" /\ e[1] \in DOMAIN work
<1>0. DOMAIN findings \subseteq DOMAIN findings'
  BY RowsStay
<1>1. evidence' = evidence => evidence \subseteq evidence' /\ \A e \in evidence' \ evidence : Fits(e)
  OBVIOUS
<1>2. ASSUME NEW c \in Callers, Commits(c), evidence \subseteq evidence',
             \A e \in evidence' \ evidence : e[3] = c /\ \E n \in DOMAIN tx[c].new : e[1] = Len(findings) + n
      PROVE  \A e \in evidence' \ evidence : Fits(e)
  <2>1. \A n \in DOMAIN tx[c].new :
          Len(findings) + n \in DOMAIN findings' /\ findings'[Len(findings) + n].by = c
    BY <1>2, CommitAdds DEF RowsAdded
  <2>2. c # "writer" /\ c # "verifier"
    BY FindingAssumption
  <2> QED BY <1>2, <2>1, <2>2
<1>3. ASSUME NEW c \in Callers, Call(c)
      PROVE  \/ evidence' = evidence
             \/ /\ Commits(c) /\ evidence \subseteq evidence'
                /\ \A e \in evidence' \ evidence :
                     e[3] = c /\ \E n \in DOMAIN tx[c].new : e[1] = Len(findings) + n
  <2>1. CASE c \in Outputs /\ IngestCommit(c)
    <3>1. PICK attached \in SUBSET ((DOMAIN tx[c].new) \X ReportedKinds) :
            evidence' = evidence \cup {<<Len(findings) + a[1], a[2], c>> : a \in attached}
      BY <2>1 DEF IngestCommit
    <3> QED BY <2>1, <3>1, CommitSteps
  <2>2. CASE SyncCommit(c)
    <3>1. evidence' = evidence \cup {<<Len(findings) + n, "whiteboard-card", c>> : n \in DOMAIN tx[c].new}
      BY <2>2 DEF SyncCommit
    <3> QED BY <2>2, <3>1, CommitSteps
  <2> QED BY <1>3, <2>1, <2>2 DEF Call, IngestLookup, ListFindings
<1>4. ASSUME NEW a \in DOMAIN attempts, AttemptStep(a)
      PROVE  /\ evidence \subseteq evidence'
             /\ \A e \in evidence' \ evidence : Fits(e)
  BY <1>0, <1>4, AttemptMoves DEF ReferencesInv
<1>5. ASSUME NEW f \in DOMAIN work, WorkStep(f)
      PROVE  /\ evidence \subseteq evidence'
             /\ \A e \in evidence' \ evidence :
                  \/ e = <<f, "poc-artifact", "writer">> /\ run.stage = "poc"
                  \/ e = <<f, "poc-verification", "verifier">> /\ run.stage = "verify"
  BY <1>5 DEF WorkStep, WriterStarts, WriterEnds, VerifierStarts, VerifierEnds, WorkStarts, WorkEnds, At
<1>6. ASSUME NEW f \in DOMAIN work, WorkStep(f)
      PROVE  /\ evidence \subseteq evidence'
             /\ \A e \in evidence' \ evidence : Fits(e)
  <2>1. f \in DOMAIN findings'
    BY <1>0, <1>6 DEF ReferencesInv
  <2> QED BY <1>5, <1>6, <2>1 DEF PocKinds
<1>7. ASSUME Pipeline PROVE evidence' = evidence
  BY <1>7
     DEF Pipeline, Triage, Triaged, SwarmEnds, RunSync, Select, Mark, Collect, Feedback, Round, BatchStarts, BatchRaises,
         BatchEnds, BatchTask, RoundEnds, PocSelect, PocFilter, VerifySelect, PocEnds, VerifyEnds, StageEnds
<1>8. ASSUME Judge \/ Retriage \/ PostCard \/ RequestCancel \/ UNCHANGED vars PROVE evidence' = evidence
  BY <1>8 DEF Judge, JudgeSync, JudgeDecide, JudgeApply, JudgeCommit, Retriage, PostCard, RequestCancel, vars
<1>9. ASSUME NEW i \in Posted, CreateFinding(i) PROVE evidence' = evidence
  BY <1>9 DEF CreateFinding
<1>10. ASSUME NEW c \in Callers, Call(c)
       PROVE  evidence \subseteq evidence' /\ \A e \in evidence' \ evidence : Fits(e)
  BY <1>2, <1>3, <1>10
<1> HIDE DEF Fits
<1>11. evidence \subseteq evidence' /\ \A e \in evidence' \ evidence : Fits(e)
  BY <1>1, <1>4, <1>6, <1>7, <1>8, <1>9, <1>10 DEF Next
<1> QED BY <1>11 DEF Fits

\* The agents of the PoC stages work on findings that were selected when the stage began.
LEMMA WorkSteps ==
    ASSUME RowsInv, judge \in JudgeState, ReferencesInv, [Next]_vars
    PROVE  /\ \A f \in DOMAIN work' : f \in DOMAIN findings' /\ work'[f] \in {"wait", "agent", "ended"}
           /\ Pipeline \/ DOMAIN work' = DOMAIN work
<1>0. DOMAIN findings \subseteq DOMAIN findings'
  BY RowsStay
<1>1. ASSUME work' = work
      PROVE \A f \in DOMAIN work' : f \in DOMAIN findings' /\ work'[f] \in {"wait", "agent", "ended"}
  BY <1>0, <1>1 DEF ReferencesInv
<1>2. CASE PocFilter
  <2>1. PocSelected \subseteq DOMAIN findings
    BY DEF PocSelected, ReferencesInv
  <2> QED BY <1>0, <1>2, <2>1 DEF PocFilter, Pipeline
<1>3. CASE VerifySelect
  <2>1. VerifySelected \subseteq DOMAIN findings
    BY DEF VerifySelected
  <2> QED BY <1>0, <1>3, <2>1 DEF VerifySelect, Pipeline
<1>4. CASE PocEnds \/ VerifyEnds
  <2>1. work' = <<>> /\ Pipeline
    BY <1>4 DEF PocEnds, VerifyEnds, StageEnds, Pipeline
  <2> QED BY <2>1
<1>5. CASE Pipeline /\ ~(PocFilter \/ VerifySelect \/ PocEnds \/ VerifyEnds)
  BY <1>1, <1>5
     DEF Pipeline, Triage, Triaged, SwarmEnds, RunSync, Select, Mark, Collect, Feedback, Round, BatchStarts, BatchRaises,
         BatchEnds, BatchTask, RoundEnds, PocSelect
<1>6. CASE Judge \/ Retriage \/ PostCard \/ RequestCancel \/ UNCHANGED vars
  BY <1>1, <1>6 DEF Judge, JudgeSync, JudgeDecide, JudgeApply, JudgeCommit, Retriage, PostCard, RequestCancel, vars
<1>7. ASSUME NEW i \in Posted, CreateFinding(i) PROVE work' = work
  BY <1>7 DEF CreateFinding
<1>8. ASSUME NEW c \in Callers, Call(c) PROVE work' = work
  BY <1>8 DEF Call, IngestLookup, IngestCommit, SyncCommit, ListFindings
<1>9. ASSUME NEW a, AttemptStep(a) PROVE work' = work
  BY <1>9 DEF AttemptStep, Record, CheckBefore, Acquire, CheckAfter, Start, AgentReturns, AgentRaises,
              EndAttempt, Task
<1>10. ASSUME NEW f \in DOMAIN work, WorkStep(f)
       PROVE  /\ DOMAIN work' = DOMAIN work
              /\ \A g \in DOMAIN work' : g \in DOMAIN findings' /\ work'[g] \in {"wait", "agent", "ended"}
  <2>1. work' = [work EXCEPT ![f] = "agent"] \/ work' = [work EXCEPT ![f] = "ended"]
    BY <1>10 DEF WorkStep, WriterStarts, WriterEnds, VerifierStarts, VerifierEnds, WorkStarts, WorkEnds
  <2> QED BY <1>0, <2>1 DEF ReferencesInv
<1> QED BY <1>1, <1>2, <1>3, <1>4, <1>5, <1>6, <1>7, <1>8, <1>9, <1>10 DEF Next

\* Only the mark of the findings, an attempt's own step and the request to cancel
\* change what the validators see.
LEMMA AttemptFrame ==
    ASSUME [Next]_vars
    PROVE  \/ attempts' = attempts /\ late' = late /\ (cancel' = cancel \/ RequestCancel)
           \/ Mark \/ \E a \in DOMAIN attempts : AttemptStep(a)
<1>1. CASE Pipeline
  BY <1>1 DEF Pipeline, Triage, Triaged, SwarmEnds, RunSync, Select, Collect, Feedback, Round, BatchStarts, BatchRaises, BatchEnds,
              BatchTask, RoundEnds, PocSelect, PocFilter, VerifySelect, PocEnds, VerifyEnds, StageEnds
<1>2. CASE Judge \/ Retriage \/ PostCard \/ UNCHANGED vars
  BY <1>2 DEF Judge, JudgeSync, JudgeDecide, JudgeApply, JudgeCommit, Retriage, PostCard, vars
<1>3. CASE RequestCancel
  BY <1>3 DEF RequestCancel
<1>4. ASSUME NEW i \in Posted, CreateFinding(i) PROVE attempts' = attempts /\ late' = late /\ cancel' = cancel
  BY <1>4 DEF CreateFinding
<1>5. ASSUME NEW c \in Callers, Call(c) PROVE attempts' = attempts /\ late' = late /\ cancel' = cancel
  BY <1>5 DEF Call, IngestLookup, IngestCommit, SyncCommit, ListFindings
<1>6. ASSUME NEW f, WorkStep(f) PROVE attempts' = attempts /\ late' = late /\ cancel' = cancel
  BY <1>6 DEF WorkStep, WriterStarts, WriterEnds, VerifierStarts, VerifierEnds, WorkStarts, WorkEnds
<1> QED BY <1>1, <1>2, <1>3, <1>4, <1>5, <1>6 DEF Next

\* The attempts stay attempts to validate findings.
LEMMA StepKeepsAttempts ==
    ASSUME RowsInv, judge \in JudgeState, ReferencesInv, [Next]_vars
    PROVE  \A a \in DOMAIN attempts' :
             a[1] \in DOMAIN findings' /\ a[2] \in 1..Rounds /\ AttemptInv(attempts'[a])
<1>0. DOMAIN findings \subseteq DOMAIN findings'
  BY RowsStay
<1>1. CASE attempts' = attempts
  BY <1>0, <1>1 DEF ReferencesInv
<1>2. CASE Mark
  <2>1. attempts' = [a \in run.listed \X (1..Rounds) |-> [status |-> None, pc |-> "record", agent |-> None]]
    BY <1>2 DEF Mark
  <2>2. AttemptInv([status |-> None, pc |-> "record", agent |-> None])
    BY DEF AttemptInv, AttemptState, TaskPoints
  <2>3. run.listed \subseteq DOMAIN findings'
    BY <1>0 DEF ReferencesInv
  <2> QED BY <2>1, <2>2, <2>3
<1>3. ASSUME NEW a \in DOMAIN attempts, AttemptStep(a)
      PROVE  \A b \in DOMAIN attempts' :
               b[1] \in DOMAIN findings' /\ b[2] \in 1..Rounds /\ AttemptInv(attempts'[b])
  <2>1. AttemptInv(attempts[a])
    BY DEF ReferencesInv
  <2>2. /\ DOMAIN attempts' = DOMAIN attempts /\ AttemptInv(attempts'[a])
        /\ \A b \in DOMAIN attempts : b # a => attempts'[b] = attempts[b]
    BY <1>3, <2>1, AttemptMoves
  <2> QED BY <1>0, <2>2 DEF ReferencesInv
<1> QED BY <1>1, <1>2, <1>3, AttemptFrame

\* What refers to findings goes on to do so.
LEMMA StepKeepsReferences ==
    ASSUME RowsInv, judge \in JudgeState, run \in RunState, ReferencesInv, [Next]_vars
    PROVE  ReferencesInv'
<1>1. link' \in [Cards -> 0..Len(findings')] /\ TriageInv'
  BY StepKeepsLinks, StepKeepsTriage DEF ReferencesInv
<1>2. run'.listed \subseteq DOMAIN findings'
  BY StepKeepsListed
<1>3. \A e \in evidence' : e[1] \in DOMAIN findings'
  <2>1. DOMAIN findings \subseteq DOMAIN findings' /\ \A e \in evidence : e[1] \in DOMAIN findings
    BY RowsStay DEF ReferencesInv
  <2>2. \A e \in evidence' \ evidence : e[1] \in DOMAIN findings'
    BY EvidenceSteps
  <2> QED BY <2>1, <2>2
<1>4. \A f \in DOMAIN work' : f \in DOMAIN findings' /\ work'[f] \in {"wait", "agent", "ended"}
  BY WorkSteps
<1>5. \A a \in DOMAIN attempts' :
        a[1] \in DOMAIN findings' /\ a[2] \in 1..Rounds /\ AttemptInv(attempts'[a])
  BY StepKeepsAttempts
<1> QED BY <1>1, <1>2, <1>3, <1>4, <1>5 DEF ReferencesInv

-----------------------------------------------------------------------------
(* The chain of the PoC stages *)

\* Evidence for which the verifiers look at a finding.
HasPoc(f) == \E e \in evidence : e[1] = f /\ e[2] \in PocKinds /\ e[3] \in {"writer", findings[f].by}

\* PocChain is not inductive without the reason for which an agent has its finding, the
\* writers a decision of a triage, the verifiers a PoC, and who can store a PoC.
PocInv ==
    /\ run.stage = "poc" => DOMAIN work \subseteq sent
    /\ run.stage = "verify" => \A f \in DOMAIN work : HasPoc(f)
    /\ \A e \in evidence :
         /\ e[2] \in PocKinds => e[3] \in {"writer", findings[e[1]].by}
         /\ e[3] = "writer" => e[1] \in sent
         /\ e[3] = "verifier" => HasPoc(e[1])

\* The finding that a decision allows was sent to a deep dive.
LEMMA AllowedWereSent ==
    ASSUME RowsInv, ReferencesInv
    PROVE  PocSelected \subseteq sent
<1> SUFFICES ASSUME NEW f \in run.listed, PocAllowed(f) PROVE f \in sent
  BY DEF PocSelected
<1>1. f # 0
  BY DEF RowsInv, ReferencesInv
<1>2. PICK k \in Cards, w \in Triagers : triage[k][w] = [decision |-> "deep_dive", finding |-> f]
  BY DEF PocAllowed
<1>3. triage[k][w].decision = "deep_dive" /\ triage[k][w].finding = f
  BY <1>2
<1> QED BY <1>1, <1>3 DEF ReferencesInv, TriageInv

\* What was sent to a deep dive stays so, and evidence stays.
LEMMA StepKeepsPocs ==
    ASSUME RowsInv, judge \in JudgeState, run \in RunState, ReferencesInv, PocInv, [Next]_vars
    PROVE  PocInv'
<1>1. /\ evidence \subseteq evidence'
      /\ \A e \in evidence' \ evidence :
           /\ e[2] \in PocKinds => e[3] \in {"writer", findings'[e[1]].by}
           /\ e[3] = "writer" => run.stage = "poc" /\ e[1] \in DOMAIN work
           /\ e[3] = "verifier" => run.stage = "verify" /\ e[1] \in DOMAIN work
  BY EvidenceSteps
<1>2. sent \subseteq sent'
  BY StepKeepsTriage
<1>3. \A f \in DOMAIN findings : findings'[f].by = findings[f].by
  BY RowsStay
<1>4. \A e \in evidence : e[1] \in DOMAIN findings
  BY DEF ReferencesInv
<1>5. \A f \in DOMAIN findings : HasPoc(f) => HasPoc(f)'
  BY <1>1, <1>3 DEF HasPoc
<1>6. DOMAIN work \subseteq DOMAIN findings
  BY DEF ReferencesInv
<1>7. \A e \in evidence' : /\ e[2] \in PocKinds => e[3] \in {"writer", findings'[e[1]].by}
                           /\ e[3] = "writer" => e[1] \in sent'
                           /\ e[3] = "verifier" => HasPoc(e[1])'
  <2> TAKE e \in evidence'
  <2>1. CASE e \in evidence
    BY <1>2, <1>3, <1>4, <1>5, <2>1 DEF PocInv
  <2>2. CASE e \notin evidence
    BY <1>1, <1>2, <1>5, <1>6, <2>2 DEF PocInv
  <2> QED BY <2>1, <2>2
<1>8. CASE ~Pipeline
  <2>1. run' = run /\ DOMAIN work' = DOMAIN work
    BY <1>8, OtherSteps, WorkSteps
  <2>2. run.stage = "poc" => DOMAIN work \subseteq sent'
    BY <1>2 DEF PocInv
  <2>3. run.stage = "verify" => \A f \in DOMAIN work : HasPoc(f)'
    BY <1>5, <1>6 DEF PocInv
  <2> QED BY <1>7, <2>1, <2>2, <2>3 DEF PocInv
<1>9. CASE Pipeline
  <2>1. run'.stage = "poc" => PocFilter
    BY <1>9, PipelineStages
  <2>2. run'.stage = "verify" => VerifySelect
    BY <1>9, PipelineStages
  <2>3. PocFilter => DOMAIN work' \subseteq sent'
    BY <1>2, AllowedWereSent DEF PocFilter
  <2>4. ASSUME VerifySelect, NEW f \in DOMAIN work' PROVE HasPoc(f)'
    <3>1. f \in DOMAIN findings /\ \E e \in evidence : e[1] = f /\ e[2] \in PocKinds
      BY <2>4 DEF VerifySelect, VerifySelected
    <3>2. HasPoc(f)
      BY <3>1 DEF PocInv, HasPoc
    <3> QED BY <1>5, <3>1, <3>2
  <2> QED BY <1>7, <2>1, <2>2, <2>3, <2>4 DEF PocInv
<1> QED BY <1>8, <1>9

-----------------------------------------------------------------------------
(* The validators that start late *)

Starting == {a \in DOMAIN attempts : attempts[a].pc = "start"}

\* LateAgentsBounded is not inductive without the agents that may still start: they hold
\* the semaphore, and after the request to cancel no attempt joins them.
LateInv ==
    /\ IsFiniteSet(DOMAIN attempts) /\ Cardinality(Holding) <= MaxParallel
    /\ cancel \in BOOLEAN /\ late \in Nat
    /\ IF cancel THEN late + Cardinality(Starting) <= MaxParallel ELSE late = 0

\* The sets that LateInv counts.
LEMMA FiniteAttempts ==
    ASSUME IsFiniteSet(DOMAIN attempts)
    PROVE  /\ IsFiniteSet(Holding) /\ IsFiniteSet(Starting)
           /\ Cardinality(Holding) \in Nat /\ Cardinality(Starting) \in Nat
           /\ Cardinality(Starting) <= Cardinality(Holding)
<1>1. Holding \in SUBSET DOMAIN attempts /\ Starting \in SUBSET Holding
  BY DEF Holding, Starting
<1>2. IsFiniteSet(Holding)
  BY <1>1, FS_Subset
<1>3. IsFiniteSet(Starting) /\ Cardinality(Starting) <= Cardinality(Holding)
  BY <1>1, <1>2, FS_Subset
<1> QED BY <1>2, <1>3, FS_CardinalityType

\* How an attempt's step changes the holders of the semaphore and those about to start.
LEMMA AttemptCounts ==
    ASSUME NEW a \in DOMAIN attempts, AttemptInv(attempts[a]), AttemptStep(a), cancel \in BOOLEAN
    PROVE  /\ DOMAIN attempts' = DOMAIN attempts /\ cancel' = cancel
           /\ \/ Holding' \in {Holding, Holding \ {a}}
              \/ Holding' = Holding \cup {a} /\ Cardinality(Holding) < MaxParallel
           /\ \/ Starting' = Starting /\ late' = late
              \/ Starting' = Starting \cup {a} /\ ~cancel /\ late' = late
              \/ Starting' = Starting \ {a} /\ a \in Starting /\ late' = IF cancel THEN late + 1 ELSE late
<1> DEFINE e == attempts[a]
           Holds == {"recheck", "start", "agent", "cancelled", "error", "done"}
<1>0. e \in AttemptState
  BY DEF AttemptInv
<1>1. ASSUME NEW pc, attempts'[a].pc = pc, \A b \in DOMAIN attempts : b # a => attempts'[b] = attempts[b],
             DOMAIN attempts' = DOMAIN attempts
      PROVE  /\ pc \in Holds /\ e.pc \in Holds => Holding' = Holding
             /\ pc \notin Holds => Holding' = Holding \ {a}
             /\ pc \in Holds => Holding' = Holding \cup {a}
             /\ pc = "start" => Starting' = Starting \cup {a}
             /\ pc # "start" => Starting' = Starting \ {a}
  BY <1>1 DEF Holding, Starting
<1>2. e.pc # "start" => Starting \ {a} = Starting
  BY DEF Starting
<1>3. e.pc \notin Holds => Holding \ {a} = Holding
  BY DEF Holding
<1>4. ASSUME NEW from, NEW status, NEW to, Task(a, from, status, to)
      PROVE  /\ e.pc = from /\ attempts'[a].pc = to /\ cancel' = cancel
             /\ DOMAIN attempts' = DOMAIN attempts
             /\ \A b \in DOMAIN attempts : b # a => attempts'[b] = attempts[b]
  BY <1>0, <1>4 DEF Task, AttemptState
<1>5. CASE Record(a)
  BY <1>1, <1>2, <1>3, <1>4, <1>5 DEF Record
<1>6. CASE CheckBefore(a)
  BY <1>1, <1>2, <1>3, <1>4, <1>6 DEF CheckBefore
<1>7. CASE Acquire(a)
  BY <1>1, <1>2, <1>3, <1>4, <1>7 DEF Acquire
<1>8. CASE CheckAfter(a)
  BY <1>1, <1>2, <1>3, <1>4, <1>8 DEF CheckAfter
<1>9. CASE Start(a)
  <2>1. Task(a, "start", "running", "agent") /\ late' = IF cancel THEN late + 1 ELSE late
    BY <1>9 DEF Start
  <2>2. a \in Starting
    BY <1>4, <2>1 DEF Starting
  <2> QED BY <1>1, <1>2, <1>3, <1>4, <2>1, <2>2
<1>10. CASE AgentRaises(a)
  BY <1>1, <1>2, <1>3, <1>4, <1>10 DEF AgentRaises
<1>11. CASE AgentReturns(a)
  <2>1. /\ e.pc = "agent" /\ attempts'[a].pc = "done" /\ cancel' = cancel /\ late' = late
        /\ DOMAIN attempts' = DOMAIN attempts
        /\ \A b \in DOMAIN attempts : b # a => attempts'[b] = attempts[b]
    BY <1>11 DEF AgentReturns
  <2> QED BY <1>1, <1>2, <1>3, <2>1
<1>12. CASE EndAttempt(a)
  <2>1. /\ e.pc # "start" /\ attempts'[a].pc = "ended" /\ cancel' = cancel /\ late' = late
        /\ DOMAIN attempts' = DOMAIN attempts
        /\ \A b \in DOMAIN attempts : b # a => attempts'[b] = attempts[b]
    BY <1>0, <1>12 DEF EndAttempt, EvidenceOf, AttemptState
  <2> QED BY <1>1, <1>2, <1>3, <2>1
<1> QED BY <1>5, <1>6, <1>7, <1>8, <1>9, <1>10, <1>11, <1>12 DEF AttemptStep

\* No more than MaxParallel agents start late.
LEMMA StepKeepsLate ==
    ASSUME RowsInv, ReferencesInv, LateInv, [Next]_vars
    PROVE  LateInv'
<1>0. /\ Cardinality(Holding) \in Nat /\ Cardinality(Starting) \in Nat
      /\ IsFiniteSet(Holding) /\ IsFiniteSet(Starting)
      /\ Cardinality(Starting) <= Cardinality(Holding) /\ MaxParallel \in Nat
  BY FiniteAttempts, FindingAssumption DEF LateInv
<1>1. CASE attempts' = attempts /\ late' = late /\ (cancel' = cancel \/ RequestCancel)
  <2>1. Holding' = Holding /\ Starting' = Starting
    BY <1>1 DEF Holding, Starting
  <2>2. CASE cancel' = cancel
    BY <1>1, <2>1, <2>2 DEF LateInv
  <2>3. CASE RequestCancel
    <3>1. cancel' = TRUE /\ late = 0
      BY <2>3 DEF RequestCancel, LateInv
    <3> QED BY <1>0, <1>1, <2>1, <3>1 DEF LateInv
  <2> QED BY <1>1, <2>2, <2>3
<1>2. CASE Mark
  <2>1. attempts' = [a \in run.listed \X (1..Rounds) |-> [status |-> None, pc |-> "record", agent |-> None]]
        /\ cancel' = cancel /\ late' = late
    BY <1>2 DEF Mark
  <2>2. IsFiniteSet(run.listed)
    <3>1. run.listed \in SUBSET (1..Len(findings)) /\ Len(findings) \in Nat
      BY DEF RowsInv, ReferencesInv
    <3>2. IsFiniteSet(1..Len(findings))
      BY <3>1, FS_Interval
    <3> QED BY <3>1, <3>2, FS_Subset
  <2>3. IsFiniteSet(DOMAIN attempts')
    <3>1. IsFiniteSet(1..Rounds)
      BY FindingAssumption, FS_Interval
    <3>2. IsFiniteSet(run.listed \X (1..Rounds))
      BY <2>2, <3>1, FS_Product
    <3> QED BY <2>1, <3>2
  <2>4. Holding' = {} /\ Starting' = {}
    BY <2>1 DEF Holding, Starting
  <2>5. Cardinality(Holding') = 0 /\ Cardinality(Starting') = 0
    BY <2>4, FS_EmptySet
  <2> QED BY <1>0, <2>1, <2>3, <2>5 DEF LateInv
<1>3. ASSUME NEW a \in DOMAIN attempts, AttemptStep(a) PROVE LateInv'
  <2>1. /\ DOMAIN attempts' = DOMAIN attempts /\ cancel' = cancel
        /\ \/ Holding' \in {Holding, Holding \ {a}}
           \/ Holding' = Holding \cup {a} /\ Cardinality(Holding) < MaxParallel
        /\ \/ Starting' = Starting /\ late' = late
           \/ Starting' = Starting \cup {a} /\ ~cancel /\ late' = late
           \/ Starting' = Starting \ {a} /\ a \in Starting /\ late' = IF cancel THEN late + 1 ELSE late
    BY <1>3, AttemptCounts DEF LateInv, ReferencesInv
  <2>2. Cardinality(Holding') <= MaxParallel
    <3>1. CASE Holding' \in {Holding, Holding \ {a}}
      <4>1. Cardinality(Holding \ {a}) = IF a \in Holding THEN Cardinality(Holding) - 1 ELSE Cardinality(Holding)
        BY <1>0, FS_RemoveElement
      <4> QED BY <1>0, <3>1, <4>1 DEF LateInv
    <3>2. CASE Holding' = Holding \cup {a} /\ Cardinality(Holding) < MaxParallel
      <4>1. Cardinality(Holding \cup {a}) = IF a \in Holding THEN Cardinality(Holding) ELSE Cardinality(Holding) + 1
        BY <1>0, FS_AddElement
      <4> QED BY <1>0, <3>2, <4>1
    <3> QED BY <2>1, <3>1, <3>2
  <2>3. Cardinality(Starting \ {a}) = IF a \in Starting THEN Cardinality(Starting) - 1 ELSE Cardinality(Starting)
    BY <1>0, FS_RemoveElement
  <2>4. late' \in Nat /\ IF cancel THEN late' + Cardinality(Starting') <= MaxParallel ELSE late' = 0
    BY <1>0, <2>1, <2>3 DEF LateInv
  <2> QED BY <2>1, <2>2, <2>4 DEF LateInv
<1> QED BY <1>1, <1>2, <1>3, AttemptFrame

-----------------------------------------------------------------------------
(* The feedback rounds *)

\* The outputs of feedback rounds that found something.
Found == {o \in BatchOutputs : \E f \in DOMAIN findings : findings[f].by = o}

BeforeLoop == {"triage", "triaging", "swarm", "list", "listed", "mark", "validate", "feedback"}

\* FeedbackPays is not inductive without what the loop knows at each of its points: a round
\* begins only when all the rounds before it have found something.
FeedbackInv ==
    /\ IsFiniteSet(Found) /\ run.rounds \in 0..MaxRounds
    /\ Cardinality(Found) + 1 >= run.rounds
    /\ run.stage \in BeforeLoop => run.rounds = 0
    /\ run.stage = "round" => run.rounds < MaxRounds /\ Cardinality(Found) >= run.rounds
    /\ run.stage = "batch" => /\ run.batch \in BatchOutputs
                              /\ Cardinality(Found \ {run.batch}) + 1 >= run.rounds
                              /\ run.task \in {"completed", "failed"} => tx[run.batch].pc = "done"
    /\ \A o \in BatchOutputs :
         /\ tx[o].pc # "done" => o \notin Found
         /\ tx[o].pc = "done" /\ tx[o].new # <<>> => o \in Found

\* The number of rounds is bounded.
LEMMA MaxRoundsType == MaxRounds \in Nat /\ MaxRounds >= 1
BY FindingAssumption DEF MaxRounds

\* The steps that make findings add at most the output that commits.
LEMMA FoundGrows ==
    ASSUME RowsInv, judge \in JudgeState, [Next]_vars
    PROVE  \/ Found' = Found /\ tx' = tx
           \/ \E c \in Callers : Looks(c) /\ Found' = Found
           \/ \E c \in Callers :
                /\ Commits(c)
                /\ Found' = IF c \in BatchOutputs /\ tx[c].new # <<>> THEN Found \cup {c} ELSE Found
<1>1. ASSUME NEW by, Grows(by) PROVE Found \subseteq Found' /\ Found' \subseteq Found \cup {by}
  <2>1. \A f \in DOMAIN findings : f \in DOMAIN findings' /\ findings'[f].by = findings[f].by
    <3>1. /\ DOMAIN findings = 1..Len(findings) /\ DOMAIN findings' = 1..Len(findings')
          /\ Len(findings) \in Nat /\ Len(findings') \in Nat /\ Len(findings') >= Len(findings)
      BY <1>1 DEF Grows
    <3>2. DOMAIN findings \subseteq DOMAIN findings'
      BY <3>1
    <3> QED BY <1>1, <3>2 DEF Grows
  <2>2. \A f \in DOMAIN findings' \ DOMAIN findings : findings'[f].by = by
    BY <1>1 DEF Grows
  <2> QED BY <2>1, <2>2 DEF Found
<1>2. CASE SameRows \/ Creates
  <2>1. None \notin BatchOutputs
    BY FindingAssumption DEF Callers
  <2>2. Found \subseteq Found' /\ Found' \subseteq Found \cup {None} /\ Found' \subseteq BatchOutputs
    BY <1>1, <1>2, StepsGrow DEF Found
  <2>3. tx' = tx
    BY <1>2 DEF SameRows, Creates
  <2> QED BY <2>1, <2>2, <2>3
<1>3. ASSUME NEW c \in Callers, Looks(c) PROVE Found' = Found
  <2>1. findings' = findings
    BY <1>3 DEF Looks
  <2> QED BY <2>1 DEF Found
<1>4. ASSUME NEW c \in Callers, Commits(c)
      PROVE  Found' = IF c \in BatchOutputs /\ tx[c].new # <<>> THEN Found \cup {c} ELSE Found
  <2>1. Found \subseteq Found' /\ Found' \subseteq Found \cup {c} /\ Found' \subseteq BatchOutputs
    BY <1>1, <1>4, StepsGrow DEF Found
  <2>2. RowsAdded(findings', c, tx[c].new, tx[c].seen) /\ tx[c].new \in Seq(Identities)
    BY <1>4, CommitAdds DEF RowsInv, TxState
  <2>3. CASE c \in BatchOutputs /\ tx[c].new # <<>>
    <3>1. 1 \in DOMAIN tx[c].new
      BY <2>2, <2>3
    <3>2. c \in Found'
      BY <2>2, <2>3, <3>1 DEF RowsAdded, Found
    <3> QED BY <2>1, <2>3, <3>2
  <2>4. CASE tx[c].new = <<>>
    <3>1. \A g \in DOMAIN findings' : g \in DOMAIN findings /\ findings'[g] = findings[g]
      BY <2>2, <2>4 DEF RowsAdded
    <3>2. Found' \subseteq Found
      BY <3>1 DEF Found
    <3> QED BY <2>1, <2>4, <3>2
  <2>5. CASE c \notin BatchOutputs
    BY <2>1, <2>5
  <2> QED BY <2>3, <2>4, <2>5
<1> QED BY <1>2, <1>3, <1>4, RowSteps

\* An output is looked up once and committed once.
LEMMA OutputSteps ==
    ASSUME RowsInv, [Next]_vars, NEW o \in Outputs
    PROVE  \/ tx'[o] = tx[o]
           \/ tx[o].pc = "idle" /\ tx'[o].pc = "commit"
           \/ tx[o].pc = "commit" /\ tx'[o].pc = "done"
<1>0. o \in Callers /\ o \notin Syncers /\ tx \in [Callers -> TxState]
  BY FindingAssumption DEF Callers, RowsInv
<1>1. ASSUME NEW c \in Syncers, Sync(c) PROVE tx'[o] = tx[o]
  BY <1>0, <1>1 DEF Sync
<1>2. CASE tx' = tx
  BY <1>2
<1>3. CASE Pipeline
  <2>1. Sync("run") \/ tx' = tx
    BY <1>3 DEF Pipeline, Triage, Triaged, SwarmEnds, RunSync, Select, Mark, Collect, Feedback, Round, BatchStarts, BatchRaises, BatchEnds,
                BatchTask, RoundEnds, PocSelect, PocFilter, VerifySelect, PocEnds, VerifyEnds, StageEnds
  <2> QED BY <1>1, <1>2, <2>1 DEF Syncers
<1>4. CASE Judge
  <2>1. Sync("judge") \/ tx' = tx
    BY <1>4 DEF Judge, JudgeSync, JudgeDecide, JudgeApply, JudgeCommit
  <2> QED BY <1>1, <1>2, <2>1 DEF Syncers
<1>5. CASE Retriage \/ PostCard \/ RequestCancel \/ UNCHANGED vars
  BY <1>2, <1>5 DEF Retriage, PostCard, RequestCancel, vars
<1>6. ASSUME NEW i \in Posted, CreateFinding(i) PROVE tx' = tx
  BY <1>6 DEF CreateFinding
<1>7. ASSUME NEW c \in Callers, Call(c)
      PROVE  \/ tx'[o] = tx[o]
             \/ tx[o].pc = "idle" /\ tx'[o].pc = "commit"
             \/ tx[o].pc = "commit" /\ tx'[o].pc = "done"
  <2>1. CASE c \in Outputs /\ IngestLookup(c)
    BY <1>0, <2>1 DEF IngestLookup
  <2>2. CASE c \in Outputs /\ IngestCommit(c)
    BY <1>0, <2>2 DEF IngestCommit, TxState
  <2>3. CASE c \notin Outputs /\ SyncCommit(c)
    BY <1>0, <2>3 DEF SyncCommit
  <2>4. CASE c \in Listers /\ ListFindings(c)
    BY <1>1, <2>4 DEF ListFindings, Syncers
  <2> QED BY <1>7, <2>1, <2>2, <2>3, <2>4 DEF Call
<1>8. ASSUME NEW a, AttemptStep(a) PROVE tx' = tx
  BY <1>8 DEF AttemptStep, Record, CheckBefore, Acquire, CheckAfter, Start, AgentReturns, AgentRaises,
              EndAttempt, Task
<1>9. ASSUME NEW f, WorkStep(f) PROVE tx' = tx
  BY <1>9 DEF WorkStep, WriterStarts, WriterEnds, VerifierStarts, VerifierEnds, WorkStarts, WorkEnds
<1> QED BY <1>2, <1>3, <1>4, <1>5, <1>6, <1>7, <1>8, <1>9 DEF Next

\* What the outputs have found is what they committed.
LEMMA StepKeepsFound ==
    ASSUME RowsInv, judge \in JudgeState, FeedbackInv, [Next]_vars
    PROVE  /\ IsFiniteSet(Found') /\ Found \subseteq Found'
           /\ \A o \in BatchOutputs :
                /\ tx'[o].pc # "done" => o \notin Found'
                /\ tx'[o].pc = "done" /\ tx'[o].new # <<>> => o \in Found'
                /\ tx[o].pc = "done" => tx'[o].pc = "done"
<1>0. /\ IsFiniteSet(Found)
      /\ \A o \in BatchOutputs :
           /\ tx[o].pc # "done" => o \notin Found
           /\ tx[o].pc = "done" /\ tx[o].new # <<>> => o \in Found
  BY DEF FeedbackInv
<1>1. \A o \in BatchOutputs :
        \/ tx'[o] = tx[o]
        \/ tx[o].pc = "idle" /\ tx'[o].pc = "commit"
        \/ tx[o].pc = "commit" /\ tx'[o].pc = "done"
  BY OutputSteps, FindingAssumption
<1>2. CASE Found' = Found /\ tx' = tx
  BY <1>0, <1>2
<1>3. ASSUME NEW c \in Callers, Looks(c), Found' = Found
      PROVE  \A o \in BatchOutputs :
               /\ tx'[o].pc # "done" => o \notin Found'
               /\ tx'[o].pc = "done" /\ tx'[o].new # <<>> => o \in Found'
  <2> TAKE o \in BatchOutputs
  <2>1. CASE o = c
    <3>1. tx'[c].pc = "commit"
      BY <1>3 DEF Looks, RowsInv
    <3> QED BY <1>0, <1>1, <1>3, <2>1, <3>1
  <2>2. CASE o # c
    <3>1. tx'[o] = tx[o]
      BY <1>3, <2>2 DEF Looks
    <3> QED BY <1>0, <1>3, <3>1
  <2> QED BY <2>1, <2>2
<1>4. ASSUME NEW c \in Callers, Commits(c),
             Found' = IF c \in BatchOutputs /\ tx[c].new # <<>> THEN Found \cup {c} ELSE Found
      PROVE  \A o \in BatchOutputs :
               /\ tx'[o].pc # "done" => o \notin Found'
               /\ tx'[o].pc = "done" /\ tx'[o].new # <<>> => o \in Found'
  <2> TAKE o \in BatchOutputs
  <2>1. CASE o = c
    <3>1. tx'[c].pc = "done" /\ tx'[c].new = tx[c].new
      BY <1>4 DEF Commits, RowsInv, TxState
    <3> QED BY <1>4, <2>1, <3>1
  <2>2. CASE o # c
    <3>1. tx'[o] = tx[o]
      BY <1>4, <2>2 DEF Commits, RowsInv
    <3> QED BY <1>0, <1>4, <2>2, <3>1
  <2> QED BY <2>1, <2>2
<1>5. Found \subseteq Found' /\ IsFiniteSet(Found')
  <2>1. Found' = Found \/ \E c : Found' = Found \cup {c}
    BY FoundGrows
  <2>2. \A c : IsFiniteSet(Found \cup {c})
    BY <1>0, FS_AddElement
  <2> QED BY <1>0, <2>1, <2>2
<1>6. \A o \in BatchOutputs :
        /\ tx'[o].pc # "done" => o \notin Found'
        /\ tx'[o].pc = "done" /\ tx'[o].new # <<>> => o \in Found'
  BY <1>2, <1>3, <1>4, FoundGrows
<1>7. \A o \in BatchOutputs : tx[o].pc = "done" => tx'[o].pc = "done"
  BY <1>1
<1> QED BY <1>5, <1>6, <1>7

\* A step of the pipeline itself finds nothing, and leaves the outputs of the rounds alone.
LEMMA PipelineFindsNothing ==
    ASSUME RowsInv, Pipeline
    PROVE  Found' = Found /\ \A o \in BatchOutputs : tx'[o] = tx[o]
<1>1. Found' = Found
  <2>1. CASE Mark
    <3>1. DOMAIN findings' = DOMAIN findings
      BY <2>1 DEF Mark
    <3>2. \A f \in DOMAIN findings : findings'[f].by = findings[f].by
      <4> TAKE f \in DOMAIN findings
      <4>1. findings'[f] = [findings[f] EXCEPT !.status = IF f \in run.listed THEN "validating" ELSE findings[f].status]
        BY <2>1 DEF Mark
      <4>2. findings[f] \in FindingRow
        BY RowType DEF RowsInv
      <4> QED BY <4>1, <4>2 DEF FindingRow
    <3> QED BY <3>1, <3>2 DEF Found
  <2>2. CASE ~Mark
    <3>1. findings' = findings
      BY <2>2 DEF Pipeline, Triage, Triaged, SwarmEnds, RunSync, Select, Collect, Feedback, Round, BatchStarts, BatchRaises, BatchEnds,
                  BatchTask, RoundEnds, PocSelect, PocFilter, VerifySelect, PocEnds, VerifyEnds, StageEnds
    <3> QED BY <3>1 DEF Found
  <2> QED BY <2>1, <2>2
<1>2. ASSUME NEW o \in BatchOutputs PROVE tx'[o] = tx[o]
  <2>1. o # "run"
    BY FindingAssumption DEF Syncers
  <2>2. Sync("run") \/ tx' = tx
    BY DEF Pipeline, Triage, Triaged, SwarmEnds, RunSync, Select, Mark, Collect, Feedback, Round, BatchStarts, BatchRaises, BatchEnds,
           BatchTask, RoundEnds, PocSelect, PocFilter, VerifySelect, PocEnds, VerifyEnds, StageEnds
  <2>3. o \in Callers /\ tx \in [Callers -> TxState]
    BY FindingAssumption DEF Callers, RowsInv
  <2> QED BY <2>1, <2>2, <2>3 DEF Sync
<1> QED BY <1>1, <1>2

\* The number of rounds stays covered by what the rounds found.
LEMMA StepKeepsFeedback ==
    ASSUME RowsInv, judge \in JudgeState, run \in RunState, FeedbackInv, [Next]_vars
    PROVE  FeedbackInv'
<1> DEFINE n == Cardinality(Found)  r == run.rounds
<1>0. /\ IsFiniteSet(Found) /\ n \in Nat /\ r \in Nat /\ r <= MaxRounds /\ n + 1 >= r
      /\ MaxRounds \in Nat /\ MaxRounds >= 1
  BY FS_CardinalityType, MaxRoundsType DEF FeedbackInv
<1>1. /\ IsFiniteSet(Found') /\ Found \subseteq Found'
      /\ \A o \in BatchOutputs :
           /\ tx'[o].pc # "done" => o \notin Found'
           /\ tx'[o].pc = "done" /\ tx'[o].new # <<>> => o \in Found'
           /\ tx[o].pc = "done" => tx'[o].pc = "done"
  BY StepKeepsFound
<1>2. CASE ~Pipeline
  <2>1. run' = run
    BY <1>2, OtherSteps
  <2>2. Cardinality(Found') \in Nat /\ Cardinality(Found') >= n
    <3>1. Cardinality(Found) <= Cardinality(Found')
      BY <1>1, FS_Subset
    <3>2. Cardinality(Found') \in Nat
      BY <1>1, FS_CardinalityType
    <3> QED BY <1>0, <3>1, <3>2
  <2>3. ASSUME NEW o \in BatchOutputs, Cardinality(Found \ {o}) + 1 >= r
        PROVE  Cardinality(Found' \ {o}) + 1 >= r
    <3>1. IsFiniteSet(Found \ {o}) /\ IsFiniteSet(Found' \ {o})
      BY <1>0, <1>1, FS_RemoveElement
    <3>2. Found \ {o} \in SUBSET (Found' \ {o})
      BY <1>1
    <3>3. Cardinality(Found \ {o}) <= Cardinality(Found' \ {o})
      BY <3>1, <3>2, FS_Subset
    <3>4. Cardinality(Found \ {o}) \in Nat /\ Cardinality(Found' \ {o}) \in Nat
      BY <3>1, FS_CardinalityType
    <3> QED BY <1>0, <2>3, <3>3, <3>4
  <2>4. Cardinality(Found') + 1 >= r
    BY <1>0, <2>2
  <2>5. run.stage = "round" => run.rounds < MaxRounds /\ Cardinality(Found') >= run.rounds
    BY <1>0, <2>2 DEF FeedbackInv
  <2>6. run.stage = "batch" => /\ run.batch \in BatchOutputs
                               /\ Cardinality(Found' \ {run.batch}) + 1 >= run.rounds
                               /\ run.task \in {"completed", "failed"} => tx'[run.batch].pc = "done"
    BY <1>1, <2>3 DEF FeedbackInv
  <2> QED BY <1>1, <2>1, <2>4, <2>5, <2>6 DEF FeedbackInv, MaxRounds
<1>3. CASE Pipeline
  <2>1. Found' = Found /\ \A o \in BatchOutputs : tx'[o] = tx[o]
    BY <1>3, PipelineFindsNothing
  <2> DEFINE Loop == /\ run'.rounds \in 0..MaxRounds /\ n + 1 >= run'.rounds
                     /\ run'.stage \in BeforeLoop => run'.rounds = 0
                     /\ run'.stage = "round" => run'.rounds < MaxRounds /\ n >= run'.rounds
                     /\ run'.stage = "batch" =>
                          /\ run'.batch \in BatchOutputs
                          /\ Cardinality(Found \ {run'.batch}) + 1 >= run'.rounds
                          /\ run'.task \in {"completed", "failed"} => tx[run'.batch].pc = "done"
  <2> SUFFICES Loop
    BY <1>1, <2>1 DEF FeedbackInv, MaxRounds
  <2>2. ASSUME run'.rounds = r, run'.stage \notin {"round", "batch"},
               run'.stage \in BeforeLoop => run.stage \in BeforeLoop
        PROVE  Loop
    BY <1>0, <2>2 DEF FeedbackInv
  <2>3. \A stage \in {"list", "feedback", "poc", "verify", "end"} :
          /\ Goto(stage) \in RunState /\ Goto(stage).rounds = r
          /\ Goto(stage).stage \in {"list", "feedback", "end", "pocList", "verifyList"}
          /\ Goto(stage).stage \in BeforeLoop => stage \in {"list", "feedback"}
    BY GotoFacts DEF BeforeLoop
  <2>4. CASE Triage
    <3>1. CASE run' = [run EXCEPT !.stage = "triaging"]
      BY <2>2, <2>4, <3>1 DEF Triage, At, RunState, BeforeLoop
    <3>2. CASE run' = Goto("list")
      BY <2>2, <2>3, <2>4, <3>2 DEF Triage, At, BeforeLoop
    <3> QED BY <2>4, <3>1, <3>2 DEF Triage
  <2>5. CASE SwarmEnds
    <3>1. PICK status \in {"completed", "failed"} : run' = [Goto("list") EXCEPT !.task = status]
      BY <2>5 DEF SwarmEnds
    <3>2. run'.rounds = r /\ run'.stage = Goto("list").stage
      <4> HIDE DEF Goto
      <4> QED BY <2>3, <3>1 DEF RunState
    <3> QED BY <2>2, <2>3, <2>5, <3>2 DEF SwarmEnds, At, BeforeLoop
  <2>6. CASE RunSync("list", "listed") \/ RunSync("pocList", "pocListed") \/ RunSync("verifyList", "verifySelect")
    BY <2>2, <2>6 DEF RunSync, At, RunState, BeforeLoop
  <2>7. CASE Triaged \/ Select \/ Mark
    BY <2>2, <2>7 DEF Triaged, Select, Mark, At, RunState, BeforeLoop
  <2>8. CASE PocSelect \/ PocFilter \/ VerifySelect
    BY <2>2, <2>8 DEF PocSelect, PocFilter, VerifySelect, RunState, BeforeLoop
  <2>9. CASE Collect
    BY <2>2, <2>3, <2>9 DEF Collect, At, BeforeLoop
  <2>10. CASE PocEnds \/ VerifyEnds
    BY <2>2, <2>3, <2>10 DEF PocEnds, VerifyEnds, StageEnds
  <2>11. CASE Feedback
    <3>1. CASE run' = [run EXCEPT !.stage = "round"]
      <4>1. r = 0
        BY <2>11 DEF Feedback, At, FeedbackInv, BeforeLoop
      <4>2. run'.stage = "round" /\ run'.rounds = 0
        BY <3>1, <4>1 DEF RunState
      <4> QED BY <1>0, <4>2 DEF BeforeLoop
    <3>2. CASE run' = Goto("poc")
      BY <2>2, <2>3, <3>2
    <3> QED BY <2>11, <3>1, <3>2 DEF Feedback
  <2>12. CASE Round
    <3>0. r < MaxRounds /\ n >= r
      BY <2>12 DEF Round, At, FeedbackInv
    <3>1. ASSUME NEW o \in BatchOutputs, tx[o].pc = "idle",
                 run' = [run EXCEPT !.stage = "batch", !.rounds = @ + 1, !.batch = o, !.task = "created"]
          PROVE  Loop
      <4>1. run'.stage = "batch" /\ run'.rounds = r + 1 /\ run'.batch = o /\ run'.task = "created"
        BY <3>1 DEF RunState
      <4>2. Found \ {o} = Found
        BY <3>1 DEF FeedbackInv
      <4> QED BY <1>0, <3>0, <4>1, <4>2 DEF BeforeLoop
    <3>2. CASE run' = [Goto("poc") EXCEPT !.rounds = @ + 1, !.batch = None]
      <4> DEFINE g == Goto("poc")
      <4>1. g \in RunState /\ g.rounds = r /\ g.stage \notin BeforeLoop \cup {"round", "batch"}
        BY <2>3 DEF BeforeLoop
      <4>2. run' = [g EXCEPT !.rounds = g.rounds + 1, !.batch = None]
        BY <3>2
      <4> HIDE DEF g
      <4>3. run'.rounds = r + 1 /\ run'.stage \notin BeforeLoop \cup {"round", "batch"}
        BY <4>1, <4>2 DEF RunState
      <4> QED BY <1>0, <3>0, <4>3
    <3> QED BY <2>12, <3>1, <3>2 DEF Round
  <2>13. ASSUME NEW to \in {"running", "raised", "completed", "failed"}, run.stage = "batch",
                run' = [run EXCEPT !.task = to], to \notin {"running", "raised"} => tx[run.batch].pc = "done"
         PROVE  Loop
    <3>1. run'.stage = "batch" /\ run'.rounds = r /\ run'.batch = run.batch /\ run'.task = to
      BY <2>13 DEF RunState
    <3> QED BY <1>0, <2>13, <3>1 DEF FeedbackInv, BeforeLoop
  <2>14. CASE BatchStarts
    BY <2>13, <2>14 DEF BatchStarts, BatchTask, At
  <2>15. CASE BatchEnds
    BY <2>13, <2>15 DEF BatchEnds, BatchTask, At
  <2>17. CASE BatchRaises
    BY <2>13, <2>17 DEF BatchRaises, BatchTask, At
  <2>16. CASE RoundEnds
    <3>1. CASE /\ run.rounds < MaxRounds /\ run.task # "raised" /\ tx[run.batch].new # <<>>
               /\ run' = [run EXCEPT !.stage = "round"]
      <4>1. run'.stage = "round" /\ run'.rounds = r
        BY <3>1 DEF RunState
      <4>2. run.batch \in Found /\ Cardinality(Found \ {run.batch}) + 1 >= r
        BY <2>16, <3>1 DEF RoundEnds, At, FeedbackInv
      <4>3. Cardinality(Found \ {run.batch}) = n - 1
        BY <1>0, <4>2, FS_RemoveElement
      <4> QED BY <1>0, <3>1, <4>1, <4>2, <4>3 DEF BeforeLoop
    <3>2. CASE run' = Goto("poc")
      BY <2>2, <2>3, <3>2
    <3> QED BY <2>16, <3>1, <3>2 DEF RoundEnds
  <2> QED BY <1>3, <2>4, <2>5, <2>6, <2>7, <2>8, <2>9, <2>10, <2>11, <2>12, <2>14, <2>15, <2>16, <2>17 DEF Pipeline
<1> QED BY <1>2, <1>3

-----------------------------------------------------------------------------
(* The theorems *)

Inv ==
    RowsInv /\ run \in RunState /\ judge \in JudgeState /\ ReferencesInv /\ PocInv /\ LateInv /\ FeedbackInv

\* The first state satisfies the invariant, and no finding is there to be a duplicate.
LEMMA InitInv == Init => Inv /\ DuplicatesOverlap
<1> SUFFICES ASSUME Init PROVE Inv /\ DuplicatesOverlap
  OBVIOUS
<1>1. RowsInv /\ DuplicatesOverlap /\ DOMAIN findings = {} /\ Len(findings) = 0
  <2>1. [pc |-> "idle", seen |-> 0, new |-> <<>>, cards |-> {}] \in TxState
    BY DEF TxState
  <2>2. findings = <<>> /\ findings \in Seq(FindingRow) /\ posted = 0 /\ DOMAIN findings = {} /\ Len(findings) = 0
    BY DEF Init
  <2>3. tx = [c \in Callers |-> [pc |-> "idle", seen |-> 0, new |-> <<>>, cards |-> {}]]
    BY DEF Init
  <2>4. \A c \in Callers : tx[c].pc # "commit"
    BY <2>3
  <2> QED BY <2>1, <2>2, <2>3, <2>4, PayloadTypes DEF RowsInv, DuplicatesOverlap
<1>2. PICK on \in Configs : run = [stage |-> "triage", on |-> on, listed |-> {}, rounds |-> 0, batch |-> None,
                                   task |-> None]
  BY DEF Init
<1>3. run \in RunState
  BY <1>2 DEF RunState, Points
<1>4. judge \in JudgeState
  <2>1. ASSUME NEW S PROVE <<>> \in PartialMaps(S)
    <3>1. <<>> \in [{} -> S] /\ {} \in SUBSET Nat
      OBVIOUS
    <3> QED BY <3>1, PartialMap
  <2>2. judge = [pc |-> "idle", verdict |-> <<>>, update |-> <<>>]
    BY DEF Init
  <2> QED BY <2>1, <2>2 DEF JudgeState
<1>5. ReferencesInv
  <2>1. [decision |-> None, finding |-> 0] \in TriageRow
    BY <1>1 DEF TriageRow
  <2>2. /\ link = [k \in Cards |-> 0] /\ sent = {}
        /\ triage = [k \in Cards |-> [w \in Triagers |-> [decision |-> None, finding |-> 0]]]
        /\ plan = [w \in Triagers |-> [pc |-> "idle", rows |-> <<>>]]
    BY DEF Init
  <2>5. TriageInv
    <3>1. triage \in [Cards -> [Triagers -> TriageRow]]
      BY <2>1, <2>2
    <3>2. \A k \in Cards, w \in Triagers : triage[k][w].finding = 0
      BY <2>2
    <3>3. DOMAIN plan = Triagers /\ \A w \in Triagers : plan[w].pc = "idle" /\ DOMAIN plan[w].rows = {}
      BY <2>2
    <3> QED BY <2>2, <3>1, <3>2, <3>3 DEF TriageInv
  <2>3. link \in [Cards -> 0..Len(findings)] /\ TriageInv
    BY <1>1, <2>2, <2>5
  <2>4. DOMAIN work = {} /\ DOMAIN attempts = {} /\ evidence = {} /\ run.listed = {}
    BY <1>2 DEF Init
  <2> QED BY <2>3, <2>4 DEF ReferencesInv
<1>6. PocInv
  BY <1>2 DEF Init, PocInv
<1>7. LateInv
  <2>1. DOMAIN attempts = {} /\ Holding = {}
    BY DEF Init, Holding
  <2>2. IsFiniteSet(DOMAIN attempts) /\ Cardinality(Holding) = 0
    BY <2>1, FS_EmptySet
  <2>3. cancel = FALSE /\ late = 0
    BY DEF Init
  <2>4. Cardinality(Holding) <= MaxParallel /\ late \in Nat
    BY <2>2, <2>3, FindingAssumption
  <2>5. cancel \in BOOLEAN /\ ~cancel
    BY <2>3
  <2> QED BY <2>2, <2>3, <2>4, <2>5 DEF LateInv
<1>8. FeedbackInv
  <2>1. Found = {} /\ IsFiniteSet(Found) /\ Cardinality(Found) = 0
    <3>1. Found = {}
      BY <1>1 DEF Found
    <3> QED BY <3>1, FS_EmptySet
  <2>2. \A o \in BatchOutputs : tx[o].pc = "idle"
    BY FindingAssumption DEF Init, Callers
  <2>3. run.stage = "triage" /\ run.rounds = 0
    BY <1>2
  <2> QED BY <2>1, <2>2, <2>3, MaxRoundsType DEF FeedbackInv
<1> QED BY <1>1, <1>3, <1>4, <1>5, <1>6, <1>7, <1>8 DEF Inv

\* The invariant is inductive.
LEMMA StepKeepsInv == Inv /\ [Next]_vars => Inv'
BY StepKeepsRows, StepKeepsRun, StepKeepsJudge, StepKeepsReferences, StepKeepsPocs, StepKeepsLate,
   StepKeepsFeedback DEF Inv

\* The invariant holds in every reachable state.
LEMMA InvHolds == Spec => []Inv
<1>1. Init => Inv
  BY InitInv
<1> QED BY <1>1, StepKeepsInv, PTL DEF Spec

\* Every variable has its type: in particular every link, decision, piece of evidence,
\* attempt and task of a PoC stage is about a finding that exists.
THEOREM Types == Spec => []TypeOK
<1>1. Inv => TypeOK
  <2> SUFFICES ASSUME Inv PROVE TypeOK
    OBVIOUS
  <2>1. \A i \in DOMAIN findings :
          findings[i] \in [identity : Identities, status : Statuses, by : Callers \cup {None}, seen : Nat]
    BY RowType DEF Inv, RowsInv, FindingRow
  <2>2. posted \in 0..Len(CardIdentity) /\ \A c \in Callers : tx[c].pc \in {"idle", "commit", "done"}
    BY DEF Inv, RowsInv, TxState
  <2>3. run.stage \in Points /\ run.on \in Configs /\ run.rounds \in Nat
    BY DEF Inv, RunState
  <2>4. judge.pc \in {"idle", "list", "agents", "apply", "commit", "done"}
    BY DEF Inv, JudgeState
  <2>5. /\ link \in [Cards -> 0..Len(findings)]
        /\ triage \in [Cards -> [Triagers -> [decision : Decisions \cup {None}, finding : 0..Len(findings)]]]
        /\ \A w \in Triagers : plan[w].pc \in {"idle", "commit"} /\ DOMAIN plan[w].rows \subseteq Cards
        /\ sent \subseteq DOMAIN findings
        /\ \A e \in evidence : e[1] \in DOMAIN findings
        /\ \A f \in DOMAIN work : f \in DOMAIN findings /\ work[f] \in {"wait", "agent", "ended"}
    BY DEF Inv, ReferencesInv, TriageInv, TriageRow
  <2>6. \A a \in DOMAIN attempts :
          /\ a[1] \in DOMAIN findings /\ a[2] \in 1..Rounds
          /\ attempts[a] \in [status : AttemptEnds \cup {None, "queued", "running"},
                              pc : TaskPoints, agent : {None, "completed", "failed"}]
          /\ attempts[a].pc = "ended" => attempts[a].status \in AttemptEnds
    BY DEF Inv, ReferencesInv, AttemptInv, AttemptState
  <2>7. cancel \in BOOLEAN /\ late \in Nat
    BY DEF Inv, LateInv
  <2> QED BY <2>1, <2>2, <2>3, <2>4, <2>5, <2>6, <2>7 DEF TypeOK
<1> QED BY <1>1, InvHolds, PTL

\* Of two findings with one identity the later was made without a look at the others, or
\* by a call that looked before the earlier one was there; no call makes both.
THEOREM Duplicates == Spec => []DuplicatesOverlap
<1>1. Init => DuplicatesOverlap
  BY InitInv
<1>2. Inv /\ DuplicatesOverlap /\ [Next]_vars => DuplicatesOverlap'
  BY StepKeepsDuplicates DEF Inv
<1> QED BY <1>1, <1>2, InvHolds, PTL DEF Spec

\* However many attempts wait, after the request to cancel no more validators start than
\* the semaphore has places.
THEOREM LateAgents == Spec => []LateAgentsBounded
<1>1. Inv => LateAgentsBounded
  <2> SUFFICES ASSUME Inv PROVE LateAgentsBounded
    OBVIOUS
  <2>1. Cardinality(Starting) \in Nat /\ late \in Nat /\ MaxParallel \in Nat
    BY FiniteAttempts, FindingAssumption DEF Inv, LateInv
  <2> QED BY <2>1 DEF Inv, LateInv, LateAgentsBounded
<1> QED BY <1>1, InvHolds, PTL

\* Whatever agents report as evidence and whenever the cards are triaged again: the platform's
\* writers only work on findings that a triage had sent to a deep dive, and its verifiers only
\* on findings with the writer's PoC or with one from the call that made the finding.
THEOREM Pocs == Spec => []PocChain
<1>1. Inv => PocChain
  BY DEF Inv, PocInv, HasPoc, PocChain
<1> QED BY <1>1, InvHolds, PTL

\* The feedback loop is bounded and goes on only while its rounds find something.
THEOREM FeedbackRoundsPay == Spec => []FeedbackPays
<1>1. Inv => FeedbackPays
  BY MaxRoundsType DEF Inv, FeedbackInv, FeedbackPays, Found
<1> QED BY <1>1, InvHolds, PTL
=============================================================================
