-------------------------- MODULE CommandFlows_proofs --------------------------
(***************************************************************************)
(* Proofs about CommandFlows, for every number of flows, lines, runs and   *)
(* edits.                                                                  *)
(*                                                                         *)
(* The registry is the key: a flow's entry in commandRuns is its one live  *)
(* run, so that whoever asks isCommandFlowRunning before a start, and only *)
(* then starts, cannot make a second one.                                  *)
(***************************************************************************)
EXTENDS CommandFlows, ListLemmas

\* The lists: no flow is in them twice.
ListsKept ==
  /\ main \in Seq(Flows) /\ members \in Seq(Flows)
  /\ IsInjective(main) /\ IsInjective(members) /\ ToSet(main) \cap ToSet(members) = {}

\* The flows: few lines, and one that is shown as running is being run.
LinesKept ==
  /\ lines \in [Flows -> Seq(Line)]
  /\ \A f \in Flows : Len(lines[f]) <= MaxLines
Running == RunningLineIsBeingRun

\* The runs: what is registered is alive and of that flow; a run that is alive has had
\* no line that failed, unless it is lost.
RunOf(r) ==
  /\ r > used => runs[r] = NotRun
  /\ \A f \in Flows : registered[f] = r <=> Live(r) /\ runs[r].flow = f
  /\ Live(r) => runs[r].result = "running" /\ (runs[r].stage # "lost" => ~runs[r].failed)
  /\ ~Live(r) => runs[r].line = 0
  /\ runs[r].result = "success" => ~runs[r].failed
  /\ runs[r].batch <= used
RunsKept ==
  /\ runs \in [Runs -> Run] /\ registered \in [Flows -> Runs \cup {NoRun}] /\ used \in 0..MaxRuns
  /\ \A r \in Runs : RunOf(r)

\* The sequences: a batch is of one of them, and while it goes on well, all of its
\* runs but the one it awaits were a success.
Sequence == [on : BOOLEAN, at : Nat, awaits : SUBSET Runs, ok : BOOLEAN, parallel : BOOLEAN,
             batch : Runs \cup {NoRun}, list : Seq(Flows)]
Batched(w) == seqs[w].on /\ ~seqs[w].parallel
BatchOf(w) ==
  Batched(w) =>
    /\ seqs[w].batch \in 1..used + 1
    /\ seqs[w].awaits # {} => seqs[w].batch <= used
    /\ seqs[w].ok => \A r \in Runs \ seqs[w].awaits :
                       runs[r].batch = seqs[w].batch => runs[r].result = "success"
    /\ \A v \in Lists : v # w /\ Batched(v) => seqs[v].batch # seqs[w].batch
SeqsKept == seqs \in [Lists -> Sequence] /\ \A w \in Lists : BatchOf(w)

Kept == ListsKept /\ LinesKept /\ RunsKept /\ Running /\ SeqsKept /\ BatchStopsAtFailure

\* What the bounds are: numbers.
LEMMA Bounds ==
  /\ MaxRuns \in Nat /\ MaxEdits \in Nat
  /\ MaxFlows \in Nat /\ MaxFlows > 2 /\ MaxLines \in Nat /\ MaxLines > 1
<1>1. {MaxRuns, MaxEdits} \subseteq Nat
  BY BoundsAssumption
<1>2. QED
  BY <1>1, BoundsAssumption

(***************************************************************************)
(* The lists of flows.                                                     *)
(***************************************************************************)
\* A list of flows in which none is twice.
FlowList(q) == q \in Seq(Flows) /\ IsInjective(q)

\* What a filter leaves of such a list is such a list, of the flows that stay.
LEMMA PickedFlows ==
  ASSUME NEW q, FlowList(q), NEW kept \in SUBSET (DOMAIN q)
  PROVE  /\ FlowList(Picked(q, kept))
         /\ ToSet(Picked(q, kept)) = {q[i] : i \in kept}
<1>1. q \in Seq(Flows) /\ DOMAIN q = 1..Len(q) /\ Len(q) \in Nat
  BY DEF FlowList
<1>2. kept \in SUBSET (1..Len(q))
  BY <1>1
<1>3. Picked(q, kept) \in Seq(Flows)
  BY <1>1, <1>2, PickedElements
<1>4. PICK m \in 0..Len(q) : \E nth \in [1..m -> kept] : PickedAt(q, kept, nth, m)
  BY <1>1, <1>2, PickedElements
<1>5. PICK nth \in [1..m -> kept] : PickedAt(q, kept, nth, m)
  BY <1>4
<1> DEFINE p == Picked(q, kept)
<1>6. /\ Len(p) = m /\ DOMAIN p = 1..m
      /\ \A j \in 1..m : p[j] = q[nth[j]] /\ nth[j] \in kept
      /\ \A i, j \in 1..m : i < j => nth[i] < nth[j]
      /\ \A i \in kept : \E j \in 1..m : nth[j] = i
  <2>1. Len(p) = m
    BY <1>5 DEF PickedAt
  <2>2. DOMAIN p = 1..m
    BY <1>3, <2>1
  <2>3. QED
    BY <1>5, <2>1, <2>2 DEF PickedAt
<1>7. p \in Seq(Flows)
  BY <1>3
<1> HIDE DEF p
<1>8. ASSUME NEW i \in 1..m, NEW j \in 1..m, p[i] = p[j] PROVE i = j
  <2>1. nth[i] \in DOMAIN q /\ nth[j] \in DOMAIN q /\ q[nth[i]] = q[nth[j]]
    BY <1>6, <1>8
  <2>2. nth[i] = nth[j]
    BY <2>1 DEF FlowList, IsInjective
  <2>3. nth[i] \in Nat
    BY <1>1, <2>1
  <2>4. ~ (i < j) /\ ~ (j < i)
    BY <1>6, <2>2, <2>3
  <2>5. i \in Nat /\ j \in Nat
    OBVIOUS
  <2>6. QED
    BY <2>4, <2>5
<1>9. ToSet(p) = {q[i] : i \in kept}
  <2>1. ASSUME NEW x \in ToSet(p) PROVE x \in {q[i] : i \in kept}
    <3>1. PICK j \in 1..m : x = p[j]
      BY <1>6 DEF ToSet
    <3>2. QED
      BY <1>6, <3>1
  <2>2. ASSUME NEW x \in {q[i] : i \in kept} PROVE x \in ToSet(p)
    <3>1. PICK i \in kept : x = q[i]
      OBVIOUS
    <3>2. PICK j \in 1..m : nth[j] = i
      BY <1>6
    <3>3. p[j] = x
      BY <1>6, <3>1, <3>2
    <3>4. QED
      BY <1>6, <3>3 DEF ToSet
  <2>3. QED
    BY <2>1, <2>2
<1>10. QED
  BY <1>6, <1>7, <1>8, <1>9 DEF FlowList, IsInjective, p

\* A flow that is not in the list yet can be put at any place.
LEMMA InsertedFlow ==
  ASSUME NEW q, FlowList(q), NEW m \in 0..Len(q), NEW f \in Flows, f \notin ToSet(q)
  PROVE  /\ FlowList(InsertAt(q, m + 1, f))
         /\ ToSet(InsertAt(q, m + 1, f)) \subseteq ToSet(q) \cup {f}
<1> DEFINE p == InsertAt(q, m + 1, f)
<1>1. q \in Seq(Flows) /\ DOMAIN q = 1..Len(q) /\ Len(q) \in Nat
  BY DEF FlowList
<1>2. /\ p \in Seq(Flows) /\ Len(p) = Len(q) + 1
      /\ \A i \in 1..(Len(q) + 1) : p[i] = IF i <= m THEN q[i] ELSE IF i = m + 1 THEN f ELSE q[i - 1]
  <2>1. q \in Seq(Flows)
    BY <1>1
  <2>2. QED
    BY <2>1, InsertedElements
<1> HIDE DEF p
<1>3. \A i \in 1..Len(q) : q[i] # f
  BY <1>1 DEF ToSet
<1> DEFINE n == Len(q)
<1>4. n \in Nat /\ m \in 0..n /\ DOMAIN p = 1..(n + 1)
  BY <1>1, <1>2
<1>5. \A i \in 1..(n + 1) : \/ i <= m /\ i \in 1..n /\ p[i] = q[i]
                            \/ i = m + 1 /\ p[i] = f
                            \/ i > m + 1 /\ i - 1 \in 1..n /\ p[i] = q[i - 1]
  BY <1>2, <1>4
<1>6. \A i, j \in 1..n : q[i] = q[j] => i = j
  BY <1>1 DEF FlowList, IsInjective
<1> HIDE DEF n
<1>66. \A i \in 1..n : q[i] # f
  BY <1>3 DEF n
<1>7. ASSUME NEW i \in 1..(n + 1), NEW j \in 1..(n + 1), p[i] = p[j] PROVE i = j
  <2>1. CASE i <= m /\ i \in 1..n /\ p[i] = q[i]
    <3>1. CASE j <= m /\ j \in 1..n /\ p[j] = q[j]
      BY <1>6, <1>7, <2>1, <3>1
    <3>2. CASE j = m + 1 /\ p[j] = f
      BY <1>66, <1>7, <2>1, <3>2
    <3>3. CASE j > m + 1 /\ j - 1 \in 1..n /\ p[j] = q[j - 1]
      <4>1. i = j - 1
        BY <1>6, <1>7, <2>1, <3>3
      <4>2. QED
        BY <1>4, <2>1, <3>3, <4>1
    <3>4. QED
      BY <1>5, <3>1, <3>2, <3>3
  <2>2. CASE i = m + 1 /\ p[i] = f
    <3>1. CASE j <= m /\ j \in 1..n /\ p[j] = q[j]
      BY <1>66, <1>7, <2>2, <3>1
    <3>2. CASE j = m + 1 /\ p[j] = f
      BY <2>2, <3>2
    <3>3. CASE j > m + 1 /\ j - 1 \in 1..n /\ p[j] = q[j - 1]
      BY <1>66, <1>7, <2>2, <3>3
    <3>4. QED
      BY <1>5, <3>1, <3>2, <3>3
  <2>3. CASE i > m + 1 /\ i - 1 \in 1..n /\ p[i] = q[i - 1]
    <3>1. CASE j <= m /\ j \in 1..n /\ p[j] = q[j]
      <4>1. i - 1 = j
        BY <1>6, <1>7, <2>3, <3>1
      <4>2. QED
        BY <1>4, <2>3, <3>1, <4>1
    <3>2. CASE j = m + 1 /\ p[j] = f
      BY <1>66, <1>7, <2>3, <3>2
    <3>3. CASE j > m + 1 /\ j - 1 \in 1..n /\ p[j] = q[j - 1]
      <4>1. i - 1 = j - 1
        BY <1>6, <1>7, <2>3, <3>3
      <4>2. QED
        BY <1>4, <2>3, <3>3, <4>1
    <3>4. QED
      BY <1>5, <3>1, <3>2, <3>3
  <2>4. QED
    BY <1>5, <2>1, <2>2, <2>3
<1>8. ASSUME NEW i \in 1..(n + 1) PROVE p[i] \in ToSet(q) \cup {f}
  BY <1>1, <1>5 DEF ToSet, n
<1>9. QED
  BY <1>2, <1>4, <1>7, <1>8 DEF FlowList, IsInjective, ToSet, p

\* Two flows of the list change places.
LEMMA SwappedFlows ==
  ASSUME NEW q, FlowList(q), NEW i, i \in DOMAIN q, i + 1 \in DOMAIN q
  PROVE  LET p == [q EXCEPT ![i] = q[i + 1], ![i + 1] = q[i]]
         IN  FlowList(p) /\ ToSet(p) = ToSet(q)
<1> DEFINE p == [q EXCEPT ![i] = q[i + 1], ![i + 1] = q[i]]
           n == Len(q)
<1>1. q \in Seq(Flows) /\ n \in Nat /\ DOMAIN q = 1..n /\ \A j \in 1..n : q[j] \in Flows
  BY DEF FlowList
<1>2. i \in 1..n /\ i + 1 \in 1..n /\ i # i + 1
  BY <1>1
<1>3. DOMAIN p = 1..n /\ \A j \in 1..n : p[j] = IF j = i + 1 THEN q[i] ELSE IF j = i THEN q[i + 1] ELSE q[j]
  BY <1>1
<1>4. p = [j \in 1..n |-> p[j]]
  BY <1>1
<1>5. \A j, k \in 1..n : q[j] = q[k] => j = k
  BY <1>1 DEF FlowList, IsInjective
<1> HIDE DEF p, n
<1>6. \A j \in 1..n : p[j] \in Flows
  BY <1>1, <1>2, <1>3
<1>7. p \in Seq(Flows)
  BY <1>1, <1>4, <1>6
<1>8. \A j, k \in 1..n : p[j] = p[k] => j = k
  BY <1>2, <1>3, <1>5
<1>9. \A j \in 1..n : \E k \in 1..n : p[j] = q[k]
  BY <1>2, <1>3
<1>10. \A j \in 1..n : \E k \in 1..n : q[j] = p[k]
  <2> TAKE j \in 1..n
  <2>1. CASE j = i
    BY <1>2, <1>3, <2>1
  <2>2. CASE j = i + 1
    BY <1>2, <1>3, <2>2
  <2>3. CASE j # i /\ j # i + 1
    BY <1>2, <1>3, <2>3
  <2>4. QED
    BY <2>1, <2>2, <2>3
<1>11. ToSet(p) = ToSet(q)
  <2>1. ToSet(p) = {p[j] : j \in 1..n} /\ ToSet(q) = {q[j] : j \in 1..n}
    BY <1>1, <1>3 DEF ToSet
  <2>2. ToSet(p) \subseteq ToSet(q)
    BY <1>9, <2>1
  <2>3. ToSet(q) \subseteq ToSet(p)
    BY <1>10, <2>1
  <2>4. QED
    BY <2>2, <2>3
<1>12. FlowList(p)
  BY <1>3, <1>7, <1>8 DEF FlowList, IsInjective
<1>13. QED
  BY <1>11, <1>12 DEF p

(***************************************************************************)
(* The lines of a flow.                                                    *)
(***************************************************************************)
\* A flow sends the line of one run at most: that of the run it has registered.
LEMMA OneLineSent ==
  ASSUME RunsKept, NEW f \in Flows
  PROVE  \E x \in LineIds \cup {0} : \A r \in Runs : runs[r].flow = f => runs[r].line \in {0, x}
<1>1. registered[f] \in Runs \cup {NoRun} /\ runs \in [Runs -> Run]
  BY DEF RunsKept
<1>2. \A r \in Runs : runs[r].line \in LineIds \cup {0}
  BY <1>1 DEF Run
<1>3. \A r \in Runs : RunOf(r)
  BY DEF RunsKept
<1>4. \A r \in Runs : runs[r].flow = f => runs[r].line = 0 \/ registered[f] = r
  BY <1>3 DEF RunOf
<1>5. CASE registered[f] \in Runs
  <2>1. runs[registered[f]].line \in LineIds \cup {0}
    BY <1>2, <1>5
  <2>2. QED
    BY <1>4, <2>1
<1>6. CASE registered[f] \notin Runs
  BY <1>4, <1>6
<1>7. QED
  BY <1>5, <1>6

\* There is an identity that is new in the flow: its lines and the one that is sent
\* are fewer than the identities.
LEMMA NewLine ==
  ASSUME LinesKept, RunsKept, NEW f \in Flows, NEW kind \in Kinds
  PROVE  New(f, kind) \in Line /\ New(f, kind).status = "idle"
<1> DEFINE A == {l.id : l \in ToSet(lines[f])}
           B == {runs[r].line : r \in {n \in Runs : runs[n].flow = f}}
           left == LineIds \ (A \cup B)
           n == Len(lines[f])
           ids == [i \in 1..n |-> lines[f][i].id]
<1>1. n \in Nat /\ n <= MaxLines /\ DOMAIN lines[f] = 1..n
  BY DEF LinesKept
<1>2. A = {ids[i] : i \in 1..n}
  BY <1>1 DEF ToSet
<1>3. PICK x \in LineIds \cup {0} : \A r \in Runs : runs[r].flow = f => runs[r].line \in {0, x}
  BY OneLineSent
<1>4. B \subseteq {0, x}
  BY <1>3
<1>5. left # {}
  <2> SUFFICES ASSUME left = {} PROVE FALSE
    OBVIOUS
  <2> HIDE DEF A, B, n, ids
  <2>1. \A id \in LineIds : id \in A \/ id = x
    <3> TAKE id \in LineIds
    <3>1. id \in A \/ id \in B
      OBVIOUS
    <3>2. id # 0
      BY Bounds DEF LineIds
    <3>3. QED
      BY <1>4, <3>1, <3>2
  <2> DEFINE has(id) == \E i \in 1..n : ids[i] = id
             place == [id \in LineIds |-> IF has(id) THEN CHOOSE i \in 1..n : ids[i] = id ELSE n + 1]
  <2>2. \A id \in LineIds : IF has(id) THEN place[id] \in 1..n /\ ids[place[id]] = id
                                       ELSE place[id] = n + 1 /\ id = x
    <3> TAKE id \in LineIds
    <3>1. CASE has(id)
      BY <3>1
    <3>2. CASE ~has(id)
      <4>1. id \notin A
        BY <1>2, <3>2
      <4>2. QED
        BY <2>1, <3>2, <4>1
    <3>3. QED
      BY <3>1, <3>2
  <2>3. place \in [LineIds -> 1..(n + 1)]
    BY <1>1, <2>2
  <2> HIDE DEF place
  <2>4. \A id, other \in LineIds : place[id] = place[other] => id = other
    <3> SUFFICES ASSUME NEW id \in LineIds, NEW other \in LineIds, place[id] = place[other]
                 PROVE  id = other
      OBVIOUS
    <3>1. n + 1 \notin 1..n
      BY <1>1
    <3>2. QED
      BY <2>2, <3>1
  <2>5. IsFiniteSet(LineIds) /\ Cardinality(LineIds) = MaxLines + 2
    <3>1. MaxLines + 2 \in Int /\ MaxLines + 2 - 1 + 1 = MaxLines + 2 /\ ~ (1 > MaxLines + 2)
      BY Bounds
    <3>2. QED
      BY <3>1, FS_Interval DEF LineIds
  <2>6. IsFiniteSet(1..(n + 1)) /\ Cardinality(1..(n + 1)) = n + 1
    <3>1. n + 1 \in Int /\ n + 1 - 1 + 1 = n + 1 /\ ~ (1 > n + 1)
      BY <1>1
    <3>2. QED
      BY <3>1, FS_Interval
  <2>7. n + 1 < MaxLines + 2
    BY <1>1, Bounds
  <2>8. Cardinality(1..(n + 1)) < Cardinality(LineIds)
    BY <2>5, <2>6, <2>7
  <2>9. QED
    <3>1. PICK places : places = 1..(n + 1)
      OBVIOUS
    <3>2. IsFiniteSet(LineIds) /\ IsFiniteSet(places) /\ Cardinality(places) < Cardinality(LineIds)
      BY <2>5, <2>6, <2>8, <3>1
    <3>3. place \in [LineIds -> places]
      BY <2>3, <3>1
    <3>4. \E id, other \in LineIds : id # other /\ place[id] = place[other]
      BY <3>2, <3>3, FS_PigeonHole
    <3>5. QED
      BY <2>4, <3>4
<1>6. New(f, kind) = [id |-> Min(left), kind |-> kind, status |-> "idle"]
  BY DEF New
<1> HIDE DEF A, B, left
<1>7. left \subseteq LineIds /\ LineIds \subseteq Nat
  BY Bounds DEF left, LineIds
<1>8. Min(left) \in left
  BY <1>5, <1>7, MinIsLeast
<1>9. Min(left) \in LineIds
  BY <1>7, <1>8
<1>10. QED
  BY <1>6, <1>9 DEF Line, Statuses

(***************************************************************************)
(* What a change of the lines alone leaves.                                *)
(***************************************************************************)
\* A line that is shown as running after an edit was so before, under its identity.
NoneStarted(to, from) ==
  \A i \in DOMAIN to : to[i].status = "running" =>
    \E j \in DOMAIN from : from[j].status = "running" /\ from[j].id = to[i].id

\* What a run is sending.
Sending(r, f, id) ==
  runs[r].flow = f /\ runs[r].line = id /\ runs[r].stage \in Executing \cup {"aborted"}

\* Lines that start none keep the lines, and what is shown as running.
LEMMA LinesAltered ==
  ASSUME LinesKept, Running, runs' = runs,
         lines' \in [Flows -> Seq(Line)],
         \A f \in Flows : Len(lines'[f]) <= MaxLines /\ NoneStarted(lines'[f], lines[f])
  PROVE  LinesKept' /\ Running'
<1>1. LinesKept'
  BY DEF LinesKept
<1>2. ASSUME NEW f \in Flows, NEW i \in DOMAIN lines'[f], lines'[f][i].status = "running"
      PROVE  \E r \in Runs : Sending(r, f, lines'[f][i].id)
  <2>1. PICK j \in DOMAIN lines[f] : lines[f][j].status = "running" /\ lines[f][j].id = lines'[f][i].id
    BY <1>2 DEF NoneStarted
  <2>2. QED
    BY <2>1 DEF Running, RunningLineIsBeingRun, Sending
<1>3. Running'
  BY <1>2 DEF Running, RunningLineIsBeingRun, Sending
<1>4. QED
  BY <1>1, <1>3

\* Most edits are of one flow.
LEMMA FlowAltered ==
  ASSUME LinesKept, Running, runs' = runs, NEW f \in Flows, NEW to \in Seq(Line),
         lines' = [lines EXCEPT ![f] = to], Len(to) <= MaxLines, NoneStarted(to, lines[f])
  PROVE  LinesKept' /\ Running'
<1>1. lines \in [Flows -> Seq(Line)] /\ \A g \in Flows : Len(lines[g]) <= MaxLines
  BY DEF LinesKept
<1>2. \A g \in Flows : lines'[g] = IF g = f THEN to ELSE lines[g]
  BY <1>1
<1>3. lines' \in [Flows -> Seq(Line)]
  BY <1>1
<1>4. \A g \in Flows : NoneStarted(lines[g], lines[g])
  BY DEF NoneStarted
<1>5. \A g \in Flows : Len(lines'[g]) <= MaxLines /\ NoneStarted(lines'[g], lines[g])
  BY <1>1, <1>2, <1>4
<1>6. QED
  BY <1>3, <1>5, LinesAltered

\* Lines none of which is running.
LEMMA IdleLines ==
  ASSUME NEW ls \in Seq(Line)
  PROVE  /\ Idle(ls) \in Seq(Line) /\ Len(Idle(ls)) = Len(ls)
         /\ \A from : NoneStarted(Idle(ls), from)
<1>1. /\ DOMAIN ls = 1..Len(ls) /\ Len(ls) \in Nat
      /\ \A i \in 1..Len(ls) : ls[i] \in Line
  OBVIOUS
<1>2. \A i \in 1..Len(ls) : [ls[i] EXCEPT !.status = "idle"] \in Line
                            /\ [ls[i] EXCEPT !.status = "idle"].status = "idle"
  BY <1>1 DEF Line, Statuses
<1>3. Idle(ls) = [i \in 1..Len(ls) |-> [ls[i] EXCEPT !.status = "idle"]]
  BY <1>1 DEF Idle
<1>4. Idle(ls) \in Seq(Line) /\ Len(Idle(ls)) = Len(ls) /\ DOMAIN Idle(ls) = 1..Len(ls)
  BY <1>1, <1>2, <1>3
<1>5. \A i \in DOMAIN Idle(ls) : Idle(ls)[i].status # "running"
  BY <1>2, <1>3, <1>4
<1>6. QED
  BY <1>4, <1>5 DEF NoneStarted

\* A flow of one line.
LEMMA OneLine ==
  ASSUME NEW line \in Line, line.status = "idle"
  PROVE  <<line>> \in Seq(Line) /\ Len(<<line>>) <= MaxLines /\ \A from : NoneStarted(<<line>>, from)
  BY Bounds DEF NoneStarted

\* A flow that is written anew has one line, idle.
LEMMA WrittenLine ==
  ASSUME NEW kind \in Kinds
  PROVE  /\ Written(<<kind>>) \in Seq(Line) /\ Len(Written(<<kind>>)) <= MaxLines
         /\ \A from : NoneStarted(Written(<<kind>>), from)
<1> DEFINE line == [id |-> 1, kind |-> kind, status |-> "idle"]
<1>1. line \in Line
  BY Bounds DEF Line, LineIds, Statuses
<1>2. Written(<<kind>>) = <<line>>
  BY DEF Written
<1> HIDE DEF line
<1>3. line.status = "idle"
  BY DEF line
<1>4. QED
  BY <1>1, <1>2, <1>3, OneLine

(***************************************************************************)
(* What a start leaves.                                                    *)
(***************************************************************************)
\* The first and the other runs that a start has made.
LEMMA Started ==
  ASSUME RunsKept, NEW flows \in Seq(Flows), IsInjective(flows), flows # <<>>,
         \A i \in DOMAIN flows : ~IsRunning(flows[i]),
         NEW begin \in [1..Len(flows) -> Nat], NEW batch \in Runs \cup {NoRun}, batch <= used + 1,
         StartAt(flows, begin, batch)
  PROVE  /\ RunsKept'
         /\ used' = used + Len(flows) /\ used' > used
         /\ \A r \in Runs : r \notin used + 1..used' => runs'[r] = runs[r]
         /\ \A r \in used + 1..used' : /\ r \in Runs /\ runs[r] = NotRun
                                       /\ runs'[r].batch = batch /\ runs'[r].result = "running"
<1> DEFINE n == Len(flows)
           new(r) == [NotRun EXCEPT !.flow = flows[r - used], !.at = begin[r - used], !.batch = batch,
                                    !.stage = "next", !.result = "running"]
<1>1. /\ runs \in [Runs -> Run] /\ registered \in [Flows -> Runs \cup {NoRun}] /\ used \in 0..MaxRuns
      /\ \A r \in Runs : RunOf(r)
  BY DEF RunsKept
<1>2. n \in Nat /\ n > 0 /\ DOMAIN flows = 1..n /\ \A i \in 1..n : flows[i] \in Flows
  OBVIOUS
<1>3. used' = used + n /\ used' \in Runs
  BY DEF StartAt
<1>4. used \in Nat /\ used + 1..used' \subseteq Runs /\ \A r \in used + 1..used' : r - used \in 1..n
  BY <1>1, <1>2, <1>3, Bounds DEF Runs
<1>5. runs' = [r \in Runs |-> IF r \in used + 1..used' THEN new(r) ELSE runs[r]]
  BY DEF StartAt
<1>6. \A r \in used + 1..used' :
        /\ new(r).flow = flows[r - used] /\ new(r).batch = batch /\ new(r).stage = "next"
        /\ new(r).result = "running" /\ new(r).failed = FALSE /\ new(r) \in Run
  <2> TAKE r \in used + 1..used'
  <2>1. flows[r - used] \in Flows /\ begin[r - used] \in Nat
    BY <1>2, <1>4
  <2> DEFINE a == [NotRun EXCEPT !.flow = flows[r - used]]
             b == [a EXCEPT !.at = begin[r - used]]
             c == [b EXCEPT !.batch = batch]
             d == [c EXCEPT !.stage = "next"]
  <2>2. NotRun \in Run
    BY Bounds DEF NotRun, Run, Flows
  <2>3. a \in Run /\ a.flow = flows[r - used] /\ a.failed = FALSE
    BY <2>1, <2>2 DEF Run, NotRun
  <2> HIDE DEF a
  <2>4. b \in Run /\ b.flow = flows[r - used] /\ b.failed = FALSE
    BY <2>1, <2>3 DEF Run
  <2> HIDE DEF b
  <2>5. c \in Run /\ c.flow = flows[r - used] /\ c.failed = FALSE /\ c.batch = batch
    BY <2>4 DEF Run
  <2> HIDE DEF c
  <2>6. /\ d \in Run /\ d.flow = flows[r - used] /\ d.failed = FALSE /\ d.batch = batch
        /\ d.stage = "next"
    BY <2>5 DEF Run
  <2>7. new(r) = [d EXCEPT !.result = "running"]
    BY DEF d, c, b, a
  <2> HIDE DEF d, new
  <2>8. QED
    BY <2>6, <2>7 DEF Run
<1> HIDE DEF new, n
<1>7. runs' \in [Runs -> Run]
  BY <1>1, <1>5, <1>6
<1> DEFINE place(f) == CHOOSE i \in DOMAIN flows : flows[i] = f
<1>8. \A f \in Flows : registered'[f] = IF f \in ToSet(flows) THEN used + place(f) ELSE registered[f]
  BY DEF StartAt
<1>9. \A f \in ToSet(flows) : place(f) \in 1..n /\ flows[place(f)] = f
  BY <1>2 DEF ToSet
<1>10. \A i \in 1..n : place(flows[i]) = i
  <2> TAKE i \in 1..n
  <2>1. flows[i] \in ToSet(flows)
    BY <1>2 DEF ToSet
  <2>2. place(flows[i]) \in 1..n /\ flows[place(flows[i])] = flows[i]
    BY <1>9, <2>1
  <2>3. QED
    BY <1>2, <2>2 DEF IsInjective
<1> HIDE DEF place
<1>11. registered' \in [Flows -> Runs \cup {NoRun}]
  <2>1. \A f \in ToSet(flows) : used + place(f) \in Runs
    <3>1. \A f \in ToSet(flows) : used + place(f) \in used + 1..used'
      BY <1>2, <1>3, <1>4, <1>9
    <3>2. QED
      BY <1>4, <3>1
  <2>2. registered' = [f \in Flows |-> IF f \in ToSet(flows) THEN used + place(f) ELSE registered[f]]
    BY DEF StartAt, place
  <2>3. QED
    BY <1>1, <2>1, <2>2
<1>12. \A f \in ToSet(flows) : f \in Flows /\ registered[f] = NoRun
  BY <1>2 DEF ToSet, IsRunning
<1>13. ASSUME NEW r \in used + 1..used' PROVE RunOf(r)' /\ runs[r] = NotRun
  <2>1. r \in Runs /\ runs'[r] = new(r) /\ r > used /\ r <= used' /\ r - used \in 1..n
        /\ r = used + (r - used)
    BY <1>3, <1>4, <1>5
  <2>2. runs[r] = NotRun
    BY <1>1, <2>1 DEF RunOf
  <2>3. Live(r)' /\ runs'[r].result = "running" /\ runs'[r].failed = FALSE /\ runs'[r].batch = batch
        /\ runs'[r].flow = flows[r - used]
    BY <1>6, <2>1 DEF Live
  <2>4. ASSUME NEW f \in Flows PROVE registered'[f] = r <=> runs'[r].flow = f
    <3>1. CASE f \in ToSet(flows)
      <4>1. registered'[f] = used + place(f) /\ place(f) \in 1..n /\ flows[place(f)] = f
        BY <1>8, <1>9, <3>1
      <4>2. used + place(f) = r <=> place(f) = r - used
        BY <1>4, <2>1, <4>1
      <4>3. place(f) = r - used <=> flows[r - used] = f
        BY <1>10, <2>1, <4>1
      <4>4. QED
        BY <2>3, <4>1, <4>2, <4>3
    <3>2. CASE f \notin ToSet(flows)
      <4>1. flows[r - used] # f
        BY <1>2, <2>1, <3>2 DEF ToSet
      <4>2. registered[f] # r
        BY <1>1, <2>1, <2>2 DEF RunOf, Live, NotRun
      <4>3. QED
        BY <1>8, <2>3, <3>2, <4>1, <4>2
    <3>3. QED
      BY <3>1, <3>2
  <2>5. batch <= used'
    BY <1>3, <1>4, <1>2, <2>1, Bounds DEF Runs, NoRun
  <2>6. ~ (r > used')
    BY <1>3, <2>1 DEF Runs
  <2>7. QED
    BY <2>2, <2>3, <2>4, <2>5, <2>6 DEF RunOf
<1>14. ASSUME NEW r \in Runs, r \notin used + 1..used' PROVE RunOf(r)' /\ runs'[r] = runs[r]
  <2>1. runs'[r] = runs[r] /\ RunOf(r)
    BY <1>1, <1>5, <1>14
  <2>2. Live(r)' <=> Live(r)
    BY <2>1 DEF Live
  <2>3. r > used' => r > used
    BY <1>2, <1>3, <1>4 DEF Runs
  <2>4. ASSUME NEW f \in Flows PROVE registered'[f] = r <=> Live(r) /\ runs[r].flow = f
    <3>1. registered[f] = r <=> Live(r) /\ runs[r].flow = f
      BY <2>1 DEF RunOf
    <3>2. CASE f \in ToSet(flows)
      <4>1. registered'[f] = used + place(f) /\ place(f) \in 1..n
        BY <1>8, <1>9, <3>2
      <4>2. used + place(f) \in used + 1..used'
        BY <1>2, <1>3, <1>4, <4>1
      <4>3. r # NoRun
        BY DEF Runs, NoRun
      <4>4. QED
        BY <1>12, <1>14, <3>1, <3>2, <4>1, <4>2, <4>3
    <3>3. CASE f \notin ToSet(flows)
      BY <1>8, <3>1, <3>3
    <3>4. QED
      BY <3>2, <3>3
  <2>5. runs[r].batch <= used'
    <3>1. runs[r].batch <= used /\ runs[r].batch \in Runs \cup {NoRun}
      BY <1>1, <2>1 DEF RunOf, Run
    <3>2. runs[r].batch \in Nat
      BY <3>1 DEF Runs, NoRun
    <3>3. QED
      BY <1>2, <1>3, <1>4, <3>1, <3>2
  <2>6. QED
    BY <2>1, <2>2, <2>3, <2>4, <2>5 DEF RunOf
<1>15. used' \in 0..MaxRuns
  BY <1>3 DEF Runs
<1>16. RunsKept'
  BY <1>7, <1>11, <1>13, <1>14, <1>15 DEF RunsKept
<1>17. used' > used
  BY <1>2, <1>3, <1>4
<1>18. \A r \in used + 1..used' : r \in Runs /\ runs'[r].batch = batch /\ runs'[r].result = "running"
  BY <1>4, <1>5, <1>6
<1>19. QED
  BY <1>3, <1>13, <1>14, <1>16, <1>17, <1>18 DEF n

(***************************************************************************)
(* What the step of a run leaves.                                          *)
(***************************************************************************)
\* A step that leaves the runs alone keeps them.
LEMMA RunsSame ==
  ASSUME RunsKept, runs' = runs, registered' = registered, used' = used
  PROVE  RunsKept'
<1>1. \A r \in Runs : RunOf(r)'
  BY DEF RunsKept, RunOf, Live
<1>2. QED
  BY <1>1 DEF RunsKept

\* What the logs say of the runs so far.
LogsSame ==
  \A r \in Runs : runs'[r].batch = runs[r].batch /\ runs'[r].result = runs[r].result

\* A step that leaves the sequences and the logs alone keeps both.
LEMMA SeqsSame ==
  ASSUME SeqsKept, BatchStopsAtFailure, seqs' = seqs, used' = used, LogsSame
  PROVE  SeqsKept' /\ BatchStopsAtFailure'
<1>1. ASSUME NEW w \in Lists PROVE BatchOf(w)'
  <2>1. BatchOf(w)
    BY DEF SeqsKept
  <2>2. QED
    BY <2>1 DEF BatchOf, Batched, LogsSame
<1>2. BatchStopsAtFailure'
  BY DEF BatchStopsAtFailure, LogsSame
<1>3. QED
  BY <1>1, <1>2 DEF SeqsKept

\* The run of r goes on, with another record.
LEMMA RunGoesOn ==
  ASSUME RunsKept, NEW r \in Runs, Live(r), NEW to \in Run,
         to.flow = runs[r].flow, to.batch = runs[r].batch, to.result = "running",
         to.stage \notin {"none", "over"}, to.stage # "lost" => ~to.failed,
         runs' = [runs EXCEPT ![r] = to], registered' = registered, used' = used
  PROVE  RunsKept' /\ LogsSame
<1>1. /\ runs \in [Runs -> Run] /\ registered \in [Flows -> Runs \cup {NoRun}] /\ used \in 0..MaxRuns
      /\ \A s \in Runs : RunOf(s)
  BY DEF RunsKept
<1>2. runs'[r] = to /\ \A s \in Runs : s # r => runs'[s] = runs[s]
  BY <1>1
<1>3. runs' \in [Runs -> Run]
  BY <1>1
<1>4. ASSUME NEW s \in Runs, s # r PROVE RunOf(s)'
  <2>1. RunOf(s)
    BY <1>1
  <2>2. runs'[s] = runs[s]
    BY <1>2, <1>4
  <2>3. QED
    BY <2>1, <2>2 DEF RunOf, Live
<1>5. RunOf(r)'
  <2>1. RunOf(r)
    BY <1>1
  <2>2. ~ (r > used) /\ ~ (r > used')
    BY <2>1 DEF RunOf, Live, NotRun
  <2>3. Live(r)'
    BY <1>2 DEF Live
  <2>4. runs[r].batch <= used' /\ (\A f \in Flows : registered'[f] = r <=> runs[r].flow = f)
    BY <2>1 DEF RunOf
  <2>5. QED
    BY <1>2, <2>2, <2>3, <2>4 DEF RunOf
<1>6. LogsSame
  <2>1. runs[r].result = "running"
    BY <1>1 DEF RunOf
  <2>2. QED
    BY <1>2, <2>1 DEF LogsSame
<1>7. QED
  BY <1>1, <1>3, <1>4, <1>5, <1>6 DEF RunsKept

\* The run of r is over: the registry and whoever awaits it hear of its result.
LEMMA Finished ==
  ASSUME RunsKept, SeqsKept, BatchStopsAtFailure, NEW r \in Runs, Live(r),
         NEW record \in Run, record.batch = runs[r].batch,
         NEW result \in {"success", "error", "paused"}, result = "success" => ~record.failed,
         Finishes(r, record, result), used' = used
  PROVE  RunsKept' /\ SeqsKept' /\ BatchStopsAtFailure'
<1> DEFINE to == Logged(record, result)
<1>1. /\ runs \in [Runs -> Run] /\ registered \in [Flows -> Runs \cup {NoRun}] /\ used \in 0..MaxRuns
      /\ \A s \in Runs : RunOf(s)
  BY DEF RunsKept
<1>2. /\ to \in Run /\ to.stage = "over" /\ to.line = 0 /\ to.batch = runs[r].batch
      /\ to.failed = record.failed /\ to.result = result
  <2>1. record.batch \in Runs \cup {NoRun} /\ record.failed \in BOOLEAN
    BY DEF Run
  <2> DEFINE a == [NotRun EXCEPT !.batch = record.batch]
             b == [a EXCEPT !.failed = record.failed]
             c == [b EXCEPT !.stage = "over"]
  <2>2. NotRun \in Run /\ NotRun.line = 0
    BY Bounds DEF NotRun, Run, Flows
  <2>3. a \in Run /\ a.line = 0 /\ a.batch = record.batch
    BY <2>1, <2>2 DEF Run
  <2> HIDE DEF a
  <2>4. b \in Run /\ b.line = 0 /\ b.batch = record.batch /\ b.failed = record.failed
    BY <2>1, <2>3 DEF Run
  <2> HIDE DEF b
  <2>5. c \in Run /\ c.line = 0 /\ c.batch = record.batch /\ c.failed = record.failed /\ c.stage = "over"
    BY <2>4 DEF Run
  <2>6. to = [c EXCEPT !.result = result]
    BY DEF to, c, b, a, Logged
  <2> HIDE DEF c, to
  <2>7. QED
    BY <2>5, <2>6 DEF Run
<1>3. /\ runs' = [runs EXCEPT ![r] = to]
      /\ registered' = [registered EXCEPT ![runs[r].flow] = NoRun]
  BY DEF Finishes
<1> HIDE DEF to
<1>4. runs'[r] = to /\ runs' \in [Runs -> Run] /\ \A s \in Runs : s # r => runs'[s] = runs[s]
  BY <1>1, <1>2, <1>3
<1>5. runs[r].flow \in Flows /\ registered[runs[r].flow] = r /\ ~ (r > used) /\ runs[r].result = "running"
      /\ runs[r].batch <= used /\ runs[r].batch \in Runs \cup {NoRun}
  <2>1. runs[r].flow \in Flows /\ runs[r].batch \in Runs \cup {NoRun}
    BY <1>1 DEF Run
  <2>2. RunOf(r)
    BY <1>1
  <2>3. QED
    BY <2>1, <2>2 DEF RunOf, Live, NotRun
<1>6. /\ registered' \in [Flows -> Runs \cup {NoRun}]
      /\ \A f \in Flows : registered'[f] = IF f = runs[r].flow THEN NoRun ELSE registered[f]
  BY <1>1, <1>3, <1>5
<1>7. ASSUME NEW s \in Runs, s # r PROVE RunOf(s)'
  <2>1. RunOf(s) /\ runs'[s] = runs[s]
    BY <1>1, <1>4, <1>7
  <2>2. registered[runs[r].flow] # s /\ NoRun # s
    BY <1>5, <1>7 DEF Runs, NoRun
  <2>3. \A f \in Flows : registered'[f] = s <=> registered[f] = s
    BY <1>6, <2>2
  <2>4. Live(s)' <=> Live(s)
    BY <2>1 DEF Live
  <2>5. QED
    BY <2>1, <2>3, <2>4 DEF RunOf
<1>8. RunOf(r)'
  <2>1. RunOf(r)
    BY <1>1
  <2>2. r # NoRun
    BY DEF Runs, NoRun
  <2>3. \A f \in Flows : registered'[f] # r
    BY <1>6, <2>1, <2>2 DEF RunOf
  <2>4. ~ Live(r)'
    BY <1>2, <1>4 DEF Live
  <2>5. QED
    BY <1>2, <1>4, <1>5, <2>3, <2>4 DEF RunOf
<1>9. RunsKept'
  BY <1>1, <1>4, <1>6, <1>7, <1>8 DEF RunsKept
<1>10. /\ \A s \in Runs : runs'[s].batch = runs[s].batch
       /\ \A s \in Runs : s # r => runs'[s].result = runs[s].result
       /\ runs'[r].result = result
  BY <1>2, <1>4
<1>11. BatchStopsAtFailure'
  BY <1>5, <1>10 DEF BatchStopsAtFailure
<1>12. seqs \in [Lists -> Sequence] /\ \A w \in Lists : BatchOf(w)
  BY DEF SeqsKept
<1>13. \A w \in Lists : /\ seqs'[w] = [seqs[w] EXCEPT !.awaits = seqs[w].awaits \ {r},
                                       !.ok = seqs[w].ok /\ (r \in seqs[w].awaits => result = "success")]
  BY DEF Finishes
<1>14. ASSUME NEW w \in Lists
       PROVE  /\ seqs'[w] \in Sequence
              /\ seqs'[w].on = seqs[w].on /\ seqs'[w].parallel = seqs[w].parallel
              /\ seqs'[w].batch = seqs[w].batch
              /\ seqs'[w].awaits = seqs[w].awaits \ {r}
              /\ seqs'[w].ok <=> seqs[w].ok /\ (r \in seqs[w].awaits => result = "success")
  <2>1. seqs[w] \in Sequence
    BY <1>12
  <2> DEFINE ok == seqs[w].ok /\ (r \in seqs[w].awaits => result = "success")
             a == [seqs[w] EXCEPT !.awaits = seqs[w].awaits \ {r}]
  <2>2. ok \in BOOLEAN
    BY <2>1 DEF Sequence
  <2>3. seqs'[w] = [a EXCEPT !.ok = ok]
    BY <1>13
  <2>4. /\ a \in Sequence /\ a.on = seqs[w].on /\ a.parallel = seqs[w].parallel /\ a.batch = seqs[w].batch
        /\ a.awaits = seqs[w].awaits \ {r}
    BY <2>1 DEF Sequence
  <2>5. PICK k : k = ok
    OBVIOUS
  <2> HIDE DEF a, ok
  <2>6. /\ seqs'[w] \in Sequence
        /\ seqs'[w].on = seqs[w].on /\ seqs'[w].parallel = seqs[w].parallel
        /\ seqs'[w].batch = seqs[w].batch
        /\ seqs'[w].awaits = seqs[w].awaits \ {r}
        /\ seqs'[w].ok = k
    BY <2>2, <2>3, <2>4, <2>5 DEF Sequence
  <2>7. QED
    BY <2>5, <2>6 DEF ok
<1>15. seqs' \in [Lists -> Sequence]
  <2>1. seqs' = [w \in Lists |-> seqs'[w]]
    BY DEF Finishes
  <2>2. QED
    BY <1>14, <2>1
<1>16. ASSUME NEW w \in Lists PROVE BatchOf(w)'
  <2>1. BatchOf(w)
    BY <1>12
  <2>2. Batched(w)' <=> Batched(w)
    BY <1>14 DEF Batched
  <2>3. ASSUME Batched(w), seqs'[w].ok, NEW s \in Runs \ seqs'[w].awaits, runs'[s].batch = seqs'[w].batch
        PROVE  runs'[s].result = "success"
    <3>1. seqs[w].ok /\ (r \in seqs[w].awaits => result = "success") /\ runs[s].batch = seqs[w].batch
      BY <1>10, <1>14, <2>3
    <3>2. s \notin seqs[w].awaits => runs[s].result = "success"
      BY <2>1, <2>3, <3>1 DEF BatchOf
    <3>3. CASE s = r
      BY <1>5, <1>10, <3>1, <3>2, <3>3
    <3>4. CASE s # r
      BY <1>10, <1>14, <2>3, <3>2, <3>4
    <3>5. QED
      BY <3>3, <3>4
  <2>4. \A v \in Lists : Batched(v)' <=> Batched(v)
    BY <1>14 DEF Batched
  <2>5. ASSUME Batched(w)
        PROVE  /\ seqs'[w].batch \in 1..used + 1
               /\ seqs'[w].awaits # {} => seqs'[w].batch <= used
               /\ \A v \in Lists : v # w /\ Batched(v) => seqs'[v].batch # seqs'[w].batch
    BY <1>14, <2>1, <2>5 DEF BatchOf
  <2>6. QED
    BY <2>2, <2>3, <2>4, <2>5 DEF BatchOf
<1>17. QED
  BY <1>9, <1>11, <1>15, <1>16 DEF SeqsKept

\* Of the flow of a run that goes on, only the line that the run sends is shown as
\* running.
LEMMA OnlyItsLine ==
  ASSUME RunsKept, Running, NEW r \in Runs, Live(r),
         NEW i \in DOMAIN lines[runs[r].flow], lines[runs[r].flow][i].status = "running"
  PROVE  lines[runs[r].flow][i].id = runs[r].line /\ runs[r].stage \in Executing \cup {"aborted"}
<1> DEFINE f == runs[r].flow
<1>1. /\ runs \in [Runs -> Run] /\ \A s \in Runs : RunOf(s)
  BY DEF RunsKept
<1>2. f \in Flows
  BY <1>1 DEF Run
<1>3. PICK s \in Runs : Sending(s, f, lines[f][i].id)
  BY <1>2 DEF Running, RunningLineIsBeingRun, Sending
<1>4. Live(s)
  BY <1>3 DEF Sending, Live, Executing
<1>5. registered[f] = s /\ registered[f] = r
  BY <1>1, <1>2, <1>3, <1>4 DEF RunOf, Sending
<1>6. QED
  BY <1>3, <1>5 DEF Sending

\* When none of the lines of its flow is shown as running, a run may change at will.
LEMMA FlowIsQuiet ==
  ASSUME Running, NEW r \in Runs, \A s \in Runs : s # r => runs'[s] = runs[s],
         \A f \in Flows : f # runs[r].flow => lines'[f] = lines[f],
         \A i \in DOMAIN lines'[runs[r].flow] : lines'[runs[r].flow][i].status # "running"
  PROVE  Running'
<1>1. ASSUME NEW f \in Flows, NEW i \in DOMAIN lines'[f], lines'[f][i].status = "running",
             NEW id, id = lines'[f][i].id
      PROVE  \E s \in Runs : /\ runs'[s].flow = f /\ runs'[s].line = id
                             /\ runs'[s].stage \in Executing \cup {"aborted"}
  <2>1. f # runs[r].flow
    BY <1>1
  <2>2. lines'[f] = lines[f]
    BY <2>1
  <2>3. PICK s \in Runs : Sending(s, f, lines[f][i].id)
    BY <1>1, <2>2 DEF Running, RunningLineIsBeingRun, Sending
  <2>4. runs'[s] = runs[s]
    BY <2>1, <2>3 DEF Sending
  <2>5. id = lines[f][i].id
    BY <1>1, <2>2
  <2>6. QED
    BY <2>3, <2>4, <2>5 DEF Sending
<1>2. QED
  BY <1>1 DEF Running, RunningLineIsBeingRun

\* The status of a line is written wherever the line is by now.
LEMMA MarkedLines ==
  ASSUME LinesKept, RunsKept, Running, NEW r \in Runs, Live(r),
         NEW status \in {"idle", "success", "error"}, lines' = Marked(r, status)
  PROVE  /\ LinesKept'
         /\ \A f \in Flows : f # runs[r].flow => lines'[f] = lines[f]
         /\ \A i \in DOMAIN lines'[runs[r].flow] : lines'[runs[r].flow][i].status # "running"
<1> DEFINE f == runs[r].flow
           n == Len(lines[f])
           marked(i) == IF lines[f][i].id = runs[r].line THEN [lines[f][i] EXCEPT !.status = status] ELSE lines[f][i]
           to == [i \in DOMAIN lines[f] |-> marked(i)]
<1>1. f \in Flows
  BY DEF RunsKept, Run
<1>2. lines \in [Flows -> Seq(Line)] /\ \A g \in Flows : Len(lines[g]) <= MaxLines
  BY DEF LinesKept
<1>3. n \in Nat /\ DOMAIN lines[f] = 1..n /\ (\A i \in 1..n : lines[f][i] \in Line) /\ n <= MaxLines
  BY <1>1, <1>2
<1>4. lines' = [lines EXCEPT ![f] = to]
  BY <1>1, <1>2 DEF Marked
<1>5. \A i \in 1..n : marked(i) \in Line /\ marked(i).status # "running"
  <2> TAKE i \in 1..n
  <2>1. lines[f][i] \in Line
    BY <1>3
  <2>2. CASE lines[f][i].id = runs[r].line
    <3>1. marked(i) = [lines[f][i] EXCEPT !.status = status]
      BY <2>2
    <3>2. [lines[f][i] EXCEPT !.status = status] \in Line /\ [lines[f][i] EXCEPT !.status = status].status = status
      BY <2>1 DEF Line, Statuses
    <3>3. QED
      BY <3>1, <3>2
  <2>3. CASE lines[f][i].id # runs[r].line
    <3>1. marked(i) = lines[f][i]
      BY <2>3
    <3>2. lines[f][i].status # "running"
      BY <1>3, <2>3, OnlyItsLine
    <3>3. QED
      BY <2>1, <3>1, <3>2
  <2>4. QED
    BY <2>2, <2>3
<1> HIDE DEF marked
<1>6. DOMAIN to = 1..n /\ to \in Seq(Line) /\ Len(to) = n /\ \A i \in 1..n : to[i].status # "running"
  BY <1>3, <1>5
<1> HIDE DEF to
<1>7. lines'[f] = to /\ \A g \in Flows : g # f => lines'[g] = lines[g]
  BY <1>1, <1>2, <1>4
<1>8. lines' \in [Flows -> Seq(Line)]
  BY <1>2, <1>4, <1>6
<1>9. \A g \in Flows : Len(lines'[g]) <= MaxLines
  BY <1>2, <1>3, <1>6, <1>7
<1>10. QED
  BY <1>6, <1>7, <1>8, <1>9 DEF LinesKept

\* A step that leaves the lists alone keeps them.
LEMMA ListsSame ==
  ASSUME ListsKept, main' = main, members' = members
  PROVE  ListsKept'
  BY DEF ListsKept

\* What follows the result of a line keeps everything: its run goes on or ends.
LEMMA LineEndsKept ==
  ASSUME Kept, NEW r \in Runs, runs[r].stage \in Executing \cup {"aborted"},
         NEW outcome \in {"success", "error", "paused"}, LineEnds(r, outcome), UNCHANGED runRest
  PROVE  Kept'
<1> DEFINE record == [runs[r] EXCEPT !.failed = @ \/ outcome # "success"]
           status == IF outcome = "paused" THEN "idle" ELSE outcome
           now == lines'[runs[r].flow]
<1>1. ListsKept /\ LinesKept /\ RunsKept /\ Running /\ SeqsKept /\ BatchStopsAtFailure
  BY DEF Kept
<1>2. main' = main /\ members' = members /\ used' = used
  BY DEF runRest
<1>3. Live(r) /\ runs \in [Runs -> Run] /\ runs[r] \in Run /\ RunOf(r)
  BY <1>1 DEF Live, Executing, RunsKept
<1>4. lines' = Marked(r, status)
  BY DEF LineEnds
<1>5. status \in {"idle", "success", "error"}
  OBVIOUS
<1> HIDE DEF status
<1>6. /\ LinesKept'
      /\ \A f \in Flows : f # runs[r].flow => lines'[f] = lines[f]
      /\ \A i \in DOMAIN now : now[i].status # "running"
  BY <1>1, <1>3, <1>4, <1>5, MarkedLines
<1>7. /\ record \in Run /\ record.flow = runs[r].flow /\ record.batch = runs[r].batch
      /\ record.result = "running" /\ record.at = runs[r].at
      /\ record.failed <=> runs[r].failed \/ outcome # "success"
  <2>1. PICK failed \in BOOLEAN : failed <=> runs[r].failed \/ outcome # "success"
    OBVIOUS
  <2>2. record = [runs[r] EXCEPT !.failed = failed]
    <3>1. runs[r].failed \in BOOLEAN
      BY <1>3 DEF Run
    <3>2. failed = (runs[r].failed \/ outcome # "success")
      BY <2>1, <3>1, Zenon
    <3>3. QED
      BY <3>2
  <2>3. runs[r].result = "running"
    BY <1>3 DEF RunOf
  <2> HIDE DEF record
  <2>4. /\ record \in Run /\ record.flow = runs[r].flow /\ record.batch = runs[r].batch
        /\ record.result = "running" /\ record.at = runs[r].at /\ record.failed = failed
    BY <1>3, <2>2, <2>3 DEF Run
  <2>5. QED
    BY <2>1, <2>4
<1>8. \/ /\ outcome = "success"
         /\ runs' = [runs EXCEPT ![r] = [record EXCEPT !.stage = "next", !.at = @ + 1]]
         /\ UNCHANGED <<registered, seqs>>
      \/ /\ outcome # "success"
         /\ runs' = [runs EXCEPT ![r] = [record EXCEPT !.stage = "lost"]]
         /\ UNCHANGED <<registered, seqs>>
      \/ /\ outcome # "success"
         /\ \E result \in {"error", "paused"} : Finishes(r, record, result)
  <2>1. Marked(r, status) = lines'
    BY <1>4
  <2>2. CASE outcome = "success"
    BY <2>2 DEF LineEnds
  <2>3. CASE outcome # "success" /\ runs[r].at \notin DOMAIN now
    BY <2>1, <2>3 DEF LineEnds, status
  <2>4. CASE outcome # "success" /\ runs[r].at \in DOMAIN now
    <3>1. Finishes(r, record, IF now[runs[r].at].status = "error" THEN "error" ELSE "paused")
      BY <2>1, <2>4 DEF LineEnds, status
    <3>2. QED
      BY <2>4, <3>1
  <2>5. QED
    BY <2>2, <2>3, <2>4
<1> HIDE DEF record
<1>9. /\ RunsKept' /\ SeqsKept' /\ BatchStopsAtFailure'
      /\ \A s \in Runs : s # r => runs'[s] = runs[s]
  <2>1. CASE /\ outcome = "success"
             /\ runs' = [runs EXCEPT ![r] = [record EXCEPT !.stage = "next", !.at = @ + 1]]
             /\ UNCHANGED <<registered, seqs>>
    <3> DEFINE a == [record EXCEPT !.stage = "next"]
               to == [a EXCEPT !.at = @ + 1]
    <3>1. ~ record.failed
      BY <1>3, <1>7, <2>1 DEF RunOf, Executing
    <3>2. /\ a \in Run /\ a.flow = runs[r].flow /\ a.batch = runs[r].batch /\ a.result = "running"
          /\ a.stage = "next" /\ ~ a.failed
      BY <1>7, <3>1 DEF Run
    <3>3. runs' = [runs EXCEPT ![r] = to]
      BY <2>1
    <3> HIDE DEF a
    <3>4. /\ to \in Run /\ to.flow = runs[r].flow /\ to.batch = runs[r].batch /\ to.result = "running"
          /\ to.stage = "next" /\ ~ to.failed
      BY <3>2 DEF Run
    <3> HIDE DEF to
    <3>5. RunsKept' /\ LogsSame
      BY <1>1, <1>2, <1>3, <2>1, <3>3, <3>4, RunGoesOn
    <3>6. QED
      BY <1>1, <1>2, <1>3, <2>1, <3>3, <3>5, SeqsSame
  <2>2. CASE /\ outcome # "success"
             /\ runs' = [runs EXCEPT ![r] = [record EXCEPT !.stage = "lost"]]
             /\ UNCHANGED <<registered, seqs>>
    <3> DEFINE to == [record EXCEPT !.stage = "lost"]
    <3>1. /\ to \in Run /\ to.flow = runs[r].flow /\ to.batch = runs[r].batch /\ to.result = "running"
          /\ to.stage = "lost"
      BY <1>7 DEF Run
    <3>2. runs' = [runs EXCEPT ![r] = to]
      BY <2>2
    <3> HIDE DEF to
    <3>3. RunsKept' /\ LogsSame
      BY <1>1, <1>2, <1>3, <2>2, <3>1, <3>2, RunGoesOn
    <3>4. QED
      BY <1>1, <1>2, <1>3, <2>2, <3>2, <3>3, SeqsSame
  <2>3. CASE outcome # "success" /\ \E result \in {"error", "paused"} : Finishes(r, record, result)
    <3>1. PICK result \in {"error", "paused"} : Finishes(r, record, result)
      BY <2>3
    <3>2. result \in {"success", "error", "paused"} /\ result # "success"
      OBVIOUS
    <3>3. RunsKept' /\ SeqsKept' /\ BatchStopsAtFailure'
      BY <1>1, <1>2, <1>3, <1>7, <3>1, <3>2, Finished
    <3>4. \A s \in Runs : s # r => runs'[s] = runs[s]
      BY <1>3, <3>1 DEF Finishes
    <3>5. QED
      BY <3>3, <3>4
  <2>4. QED
    BY <1>8, <2>1, <2>2, <2>3
<1>10. Running'
  BY <1>1, <1>6, <1>9, FlowIsQuiet
<1>11. ListsKept'
  BY <1>1, <1>2, ListsSame
<1>12. QED
  BY <1>6, <1>9, <1>10, <1>11 DEF Kept

\* Nothing changes but how far the runs are that send lines: they go on sending them.
LEMMA SendersSame ==
  ASSUME Running, lines' = lines,
         \A s \in Runs : runs[s].stage \in Executing \cup {"aborted"} =>
           /\ runs'[s].flow = runs[s].flow /\ runs'[s].line = runs[s].line
           /\ runs'[s].stage \in Executing \cup {"aborted"}
  PROVE  Running'
<1>1. ASSUME NEW f \in Flows, NEW i \in DOMAIN lines[f], lines[f][i].status = "running"
      PROVE  \E s \in Runs : /\ runs'[s].flow = f /\ runs'[s].line = lines[f][i].id
                             /\ runs'[s].stage \in Executing \cup {"aborted"}
  <2>1. PICK s \in Runs : Sending(s, f, lines[f][i].id)
    BY <1>1 DEF Running, RunningLineIsBeingRun, Sending
  <2>2. QED
    BY <2>1 DEF Sending
<1>2. QED
  BY <1>1 DEF Running, RunningLineIsBeingRun

\* A step that leaves the lines alone keeps them.
LEMMA LinesSame ==
  ASSUME LinesKept, lines' = lines
  PROVE  LinesKept'
  BY DEF LinesKept

\* A line that is being executed is taken further.
LEMMA StageMoves ==
  ASSUME Kept, NEW r \in Runs, NEW stage \in Executing, runs[r].stage \in Executing,
         runs' = [runs EXCEPT ![r].stage = stage], UNCHANGED <<lines, registered, seqs>>,
         UNCHANGED runRest
  PROVE  Kept'
<1> DEFINE to == [runs[r] EXCEPT !.stage = stage]
<1>1. ListsKept /\ LinesKept /\ RunsKept /\ Running /\ SeqsKept /\ BatchStopsAtFailure
  BY DEF Kept
<1>2. main' = main /\ members' = members /\ used' = used
  BY DEF runRest
<1>3. Live(r) /\ runs \in [Runs -> Run] /\ runs[r] \in Run /\ RunOf(r)
  BY <1>1 DEF Live, Executing, RunsKept
<1>4. runs' = [runs EXCEPT ![r] = to]
  OBVIOUS
<1>5. /\ to \in Run /\ to.flow = runs[r].flow /\ to.batch = runs[r].batch /\ to.line = runs[r].line
      /\ to.result = "running" /\ to.stage = stage /\ ~ to.failed
  BY <1>3 DEF Run, RunOf, Executing
<1> HIDE DEF to
<1>6. to.stage \notin {"none", "over"}
  BY <1>5 DEF Executing
<1>7. RunsKept' /\ LogsSame
  BY <1>1, <1>2, <1>3, <1>4, <1>5, <1>6, RunGoesOn
<1>8. SeqsKept' /\ BatchStopsAtFailure'
  BY <1>1, <1>2, <1>7, SeqsSame
<1>9. runs'[r] = to /\ \A s \in Runs : s # r => runs'[s] = runs[s]
  BY <1>3, <1>4
<1>10. Running'
  <2>1. ASSUME NEW s \in Runs, runs[s].stage \in Executing \cup {"aborted"}
        PROVE  /\ runs'[s].flow = runs[s].flow /\ runs'[s].line = runs[s].line
               /\ runs'[s].stage \in Executing \cup {"aborted"}
    BY <1>5, <1>9, <2>1
  <2>2. QED
    BY <1>1, <2>1, SendersSame
<1>11. QED
  BY <1>1, <1>2, <1>7, <1>8, <1>10, ListsSame, LinesSame DEF Kept

\* A line that is sent is the one shown as running.
LEMMA SendLineKept ==
  ASSUME Kept, NEW r \in Runs, SendLine(r)
  PROVE  Kept'
<1>1. runs[r].stage = "delay" /\ UNCHANGED runRest /\ runs[r].stage \in Executing
  BY DEF SendLine, Executing
<1>2. CASE LineEnds(r, "error")
  BY <1>1, <1>2, LineEndsKept
<1>3. CASE ~ LineEnds(r, "error")
  <2>1. PICK stage \in {"upload", "command"} :
          runs' = [runs EXCEPT ![r].stage = stage] /\ UNCHANGED <<lines, registered, seqs>>
    BY <1>3 DEF SendLine
  <2>2. stage \in Executing
    BY DEF Executing
  <2>3. QED
    BY <1>1, <2>1, <2>2, StageMoves
<1>4. QED
  BY <1>2, <1>3

\* The answer of an upload starts its command or ends its line.
LEMMA UploadAnswersKept ==
  ASSUME Kept, NEW r \in Runs, UploadAnswers(r)
  PROVE  Kept'
<1>1. runs[r].stage = "upload" /\ UNCHANGED runRest /\ runs[r].stage \in Executing
  BY DEF UploadAnswers, Executing
<1>2. CASE LineEnds(r, "error")
  BY <1>1, <1>2, LineEndsKept
<1>3. CASE LineEnds(r, "success")
  BY <1>1, <1>3, LineEndsKept
<1>4. CASE runs' = [runs EXCEPT ![r].stage = "command"] /\ UNCHANGED <<lines, registered, seqs>>
  <2>1. "command" \in Executing
    BY DEF Executing
  <2>2. QED
    BY <1>1, <1>4, <2>1, StageMoves
<1>5. QED
  BY <1>2, <1>3, <1>4 DEF UploadAnswers

\* The answer of a command ends its line.
LEMMA CommandAnswersKept ==
  ASSUME Kept, NEW r \in Runs, CommandAnswers(r)
  PROVE  Kept'
<1>1. runs[r].stage \in Executing /\ UNCHANGED runRest
  BY DEF CommandAnswers, Executing
<1>2. PICK outcome \in {"success", "error"} : LineEnds(r, outcome)
  BY DEF CommandAnswers
<1>3. QED
  BY <1>1, <1>2, LineEndsKept

\* An upload that a pause has aborted ends its line.
LEMMA UploadAbortedKept ==
  ASSUME Kept, NEW r \in Runs, UploadAborted(r)
  PROVE  Kept'
<1>1. runs[r].stage \in Executing \cup {"aborted"} /\ UNCHANGED runRest /\ LineEnds(r, "paused")
  BY DEF UploadAborted
<1>2. QED
  BY <1>1, LineEndsKept

\* The head of the loop of a run: the end, a pause, or the next line.
LEMMA ContinueKept ==
  ASSUME Kept, NEW r \in Runs, Continue(r)
  PROVE  Kept'
<1> DEFINE f == runs[r].flow
           ls == lines[f]
           todo == {i \in DOMAIN ls : i >= runs[r].at /\ ls[i].kind # "blank"}
           next == Min(todo)
<1>1. ListsKept /\ LinesKept /\ RunsKept /\ Running /\ SeqsKept /\ BatchStopsAtFailure
  BY DEF Kept
<1>2. main' = main /\ members' = members /\ used' = used /\ runs[r].stage = "next"
  BY DEF Continue
<1>3. Live(r) /\ runs \in [Runs -> Run] /\ runs[r] \in Run /\ RunOf(r) /\ f \in Flows
  BY <1>1, <1>2 DEF Live, RunsKept, Run
<1>4. /\ lines \in [Flows -> Seq(Line)] /\ \A g \in Flows : Len(lines[g]) <= MaxLines
  BY <1>1 DEF LinesKept
<1>5. ls \in Seq(Line) /\ DOMAIN ls = 1..Len(ls) /\ Len(ls) \in Nat /\ \A i \in 1..Len(ls) : ls[i] \in Line
  BY <1>3, <1>4
<1>6. \A i \in DOMAIN ls : ls[i].status # "running"
  BY <1>1, <1>2, <1>3, OnlyItsLine DEF Executing
<1>7. CASE todo = {} \/ runs[r].paused
  <2>1. PICK result \in {"success", "paused"} : Finishes(r, runs[r], result) /\ lines' = lines
    BY <1>7 DEF Continue
  <2>2. runs[r].batch = runs[r].batch /\ (result = "success" => ~ runs[r].failed)
    BY <1>2, <1>3 DEF RunOf
  <2>3. result \in {"success", "error", "paused"}
    OBVIOUS
  <2>4. RunsKept' /\ SeqsKept' /\ BatchStopsAtFailure'
    BY <1>1, <1>2, <1>3, <2>1, <2>2, <2>3, Finished
  <2>5. \A s \in Runs : s # r => runs'[s] = runs[s]
    BY <1>3, <2>1 DEF Finishes
  <2>6. Running'
    BY <1>1, <1>6, <2>1, <2>5, FlowIsQuiet
  <2>7. QED
    BY <1>1, <1>2, <2>1, <2>4, <2>6, ListsSame, LinesSame DEF Kept
<1>8. CASE ~ (todo = {} \/ runs[r].paused)
  <2> DEFINE line == [ls[next] EXCEPT !.status = "running"]
             a == [runs[r] EXCEPT !.stage = "delay"]
             b == [a EXCEPT !.at = next]
             to == [b EXCEPT !.line = ls[next].id]
             new == [ls EXCEPT ![next] = line]
  <2>1. /\ runs' = [runs EXCEPT ![r].stage = "delay", ![r].at = next, ![r].line = ls[next].id]
        /\ lines' = [lines EXCEPT ![f][next].status = "running"]
        /\ UNCHANGED <<registered, seqs>>
    BY <1>8 DEF Continue
  <2>2. todo \subseteq Nat /\ todo # {}
    BY <1>5, <1>8
  <2>3. next \in todo
    BY <2>2, MinIsLeast
  <2> HIDE DEF next
  <2>4. next \in 1..Len(ls) /\ next \in Nat /\ ls[next] \in Line
    BY <1>5, <2>3
  <2> HIDE DEF todo
  <2>5. ls[next].id \in LineIds /\ line \in Line /\ line.id = ls[next].id
    BY <2>4 DEF Line, Statuses
  <2>6. /\ a \in Run /\ a.flow = f /\ a.batch = runs[r].batch /\ a.result = "running" /\ a.stage = "delay"
        /\ ~ a.failed
    BY <1>2, <1>3 DEF Run, RunOf, Executing
  <2>7. runs' = [runs EXCEPT ![r] = to]
    BY <1>3, <2>1
  <2> HIDE DEF a
  <2>8. /\ b \in Run /\ b.flow = f /\ b.batch = runs[r].batch /\ b.result = "running" /\ b.stage = "delay"
        /\ ~ b.failed
    BY <2>4, <2>6 DEF Run
  <2> HIDE DEF b
  <2>9. /\ to \in Run /\ to.flow = f /\ to.batch = runs[r].batch /\ to.result = "running"
        /\ to.stage = "delay" /\ ~ to.failed /\ to.line = ls[next].id
    BY <2>5, <2>8 DEF Run
  <2> HIDE DEF to
  <2>10. RunsKept' /\ LogsSame
    BY <1>1, <1>2, <1>3, <2>1, <2>7, <2>9, RunGoesOn
  <2>11. SeqsKept' /\ BatchStopsAtFailure'
    BY <1>1, <1>2, <2>1, <2>10, SeqsSame
  <2>12. lines' = [lines EXCEPT ![f] = new]
    BY <1>3, <1>4, <2>1
  <2>13. new \in Seq(Line) /\ Len(new) = Len(ls) /\ DOMAIN new = 1..Len(ls)
         /\ \A i \in 1..Len(ls) : new[i] = IF i = next THEN line ELSE ls[i]
    <3> HIDE DEF line
    <3>1. QED
      BY <1>5, <2>4, <2>5
  <2> HIDE DEF new
  <2>14. lines' \in [Flows -> Seq(Line)] /\ lines'[f] = new /\ \A g \in Flows : g # f => lines'[g] = lines[g]
    BY <1>3, <1>4, <2>12, <2>13
  <2>15. LinesKept'
    BY <1>3, <1>4, <2>13, <2>14 DEF LinesKept
  <2>16. runs'[r] = to /\ \A s \in Runs : s # r => runs'[s] = runs[s]
    BY <1>3, <2>7
  <2>17. ASSUME NEW g \in Flows, NEW i \in DOMAIN lines'[g], lines'[g][i].status = "running",
                NEW id, id = lines'[g][i].id
         PROVE  \E s \in Runs : /\ runs'[s].flow = g /\ runs'[s].line = id
                                /\ runs'[s].stage \in Executing \cup {"aborted"}
    <3>1. CASE g = f
      <4>1. i = next
        BY <1>5, <1>6, <2>13, <2>14, <2>17, <3>1
      <4>2. id = ls[next].id
        BY <2>4, <2>5, <2>13, <2>14, <2>17, <3>1, <4>1
      <4>3. QED
        BY <2>9, <2>16, <3>1, <4>2 DEF Executing
    <3>2. CASE g # f
      <4>1. lines'[g] = lines[g]
        BY <2>14, <3>2
      <4>2. PICK s \in Runs : Sending(s, g, lines[g][i].id)
        BY <1>1, <2>17, <4>1 DEF Running, RunningLineIsBeingRun, Sending
      <4>3. s # r
        BY <3>2, <4>2 DEF Sending
      <4>4. runs'[s] = runs[s] /\ id = lines[g][i].id
        BY <2>16, <2>17, <4>1, <4>3
      <4>5. QED
        BY <4>2, <4>4 DEF Sending
    <3>3. QED
      BY <3>1, <3>2
  <2>18. Running'
    BY <2>17 DEF Running, RunningLineIsBeingRun
  <2>19. QED
    BY <1>1, <1>2, <2>10, <2>11, <2>15, <2>18, ListsSame DEF Kept
<1>9. QED
  BY <1>7, <1>8

\* requestCommandPause
LEMMA PauseKept ==
  ASSUME Kept, Pause
  PROVE  Kept'
<1> DEFINE heard == {r \in Runs : runs[r].stage # "over" /\ registered[runs[r].flow] = r /\ ~runs[r].paused}
           stage(r) == IF runs[r].stage = "upload" THEN "aborted" ELSE runs[r].stage
<1>1. ListsKept /\ LinesKept /\ RunsKept /\ Running /\ SeqsKept /\ BatchStopsAtFailure
  BY DEF Kept
<1>2. /\ lines' = lines /\ main' = main /\ members' = members /\ registered' = registered
      /\ seqs' = seqs /\ used' = used
      /\ runs' = [r \in Runs |-> IF r \notin heard THEN runs[r]
                    ELSE [runs[r] EXCEPT !.paused = TRUE, !.stage = stage(r)]]
  BY DEF Pause
<1>3. runs \in [Runs -> Run] /\ (\A r \in Runs : RunOf(r) /\ runs[r].flow \in Flows)
  BY <1>1 DEF RunsKept, Run
<1>4. \A r \in heard : r \in Runs /\ Live(r)
  BY <1>3 DEF RunOf
<1>5. ASSUME NEW r \in Runs
      PROVE  /\ runs'[r] \in Run /\ runs'[r].stage = IF r \in heard THEN stage(r) ELSE runs[r].stage
             /\ runs'[r].flow = runs[r].flow /\ runs'[r].line = runs[r].line
             /\ runs'[r].batch = runs[r].batch /\ runs'[r].result = runs[r].result
             /\ runs'[r].failed = runs[r].failed
             /\ r \notin heard => runs'[r] = runs[r]
  <2>1. CASE r \notin heard
    <3>1. runs'[r] = runs[r] /\ runs[r] \in Run
      BY <1>2, <1>3, <2>1
    <3>2. QED
      BY <2>1, <3>1
  <2>2. CASE r \in heard
    <3> DEFINE a == [runs[r] EXCEPT !.paused = TRUE]
    <3>1. runs'[r] = [a EXCEPT !.stage = stage(r)]
      BY <1>2, <2>2
    <3>2. /\ a \in Run /\ a.flow = runs[r].flow /\ a.line = runs[r].line /\ a.batch = runs[r].batch
          /\ a.result = runs[r].result /\ a.failed = runs[r].failed
      BY <1>3 DEF Run
    <3>3. PICK to : to = stage(r)
      OBVIOUS
    <3>4. to \in Executing \cup {"none", "aborted", "next", "lost", "over"}
      BY <1>3, <3>3 DEF Run
    <3> HIDE DEF a, stage, heard
    <3>5. /\ runs'[r] \in Run /\ runs'[r].stage = to
          /\ runs'[r].flow = a.flow /\ runs'[r].line = a.line
          /\ runs'[r].batch = a.batch /\ runs'[r].result = a.result
          /\ runs'[r].failed = a.failed
      BY <3>1, <3>2, <3>3, <3>4 DEF Run
    <3>6. QED
      BY <2>2, <3>2, <3>3, <3>5
  <2>3. QED
    BY <2>1, <2>2
<1> HIDE DEF heard
<1>6. runs' \in [Runs -> Run]
  <2>1. runs' = [r \in Runs |-> runs'[r]]
    BY <1>2
  <2>2. QED
    BY <1>5, <2>1
<1>7. \A r \in Runs : /\ Live(r)' <=> Live(r)
                      /\ runs'[r].stage # "lost" => runs[r].stage # "lost"
                      /\ runs[r].stage \in Executing \cup {"aborted"} => runs'[r].stage \in Executing \cup {"aborted"}
  BY <1>4, <1>5 DEF Live, Executing
<1>8. ASSUME NEW r \in Runs PROVE RunOf(r)'
  <2>1. RunOf(r)
    BY <1>3
  <2>2. r > used => runs'[r] = NotRun
    <3>1. r > used => runs[r] = NotRun
      BY <2>1 DEF RunOf
    <3>2. r > used => r \notin heard
      BY <1>4, <3>1 DEF Live, NotRun
    <3>3. QED
      BY <1>5, <3>1, <3>2
  <2>3. \A f \in Flows : registered'[f] = r <=> Live(r)' /\ runs'[r].flow = f
    <3>1. \A f \in Flows : registered[f] = r <=> Live(r) /\ runs[r].flow = f
      BY <2>1 DEF RunOf
    <3>2. registered' = registered /\ (Live(r)' <=> Live(r)) /\ runs'[r].flow = runs[r].flow
      BY <1>2, <1>5, <1>7
    <3>3. QED
      BY <3>1, <3>2
  <2>4. Live(r)' => runs'[r].result = "running" /\ (runs'[r].stage # "lost" => ~runs'[r].failed)
    BY <1>5, <1>7, <2>1 DEF RunOf
  <2>5. ~Live(r)' => runs'[r].line = 0
    BY <1>5, <1>7, <2>1 DEF RunOf
  <2>6. (runs'[r].result = "success" => ~runs'[r].failed) /\ runs'[r].batch <= used'
    BY <1>2, <1>5, <2>1 DEF RunOf
  <2>7. r > used' => runs'[r] = NotRun
    BY <1>2, <2>2
  <2>8. QED
    BY <2>3, <2>4, <2>5, <2>6, <2>7 DEF RunOf
<1>9. RunsKept'
  BY <1>1, <1>2, <1>6, <1>8 DEF RunsKept
<1>10. LogsSame
  BY <1>5 DEF LogsSame
<1>11. Running'
  BY <1>1, <1>2, <1>5, <1>7, SendersSame
<1>12. QED
  BY <1>1, <1>2, <1>9, <1>10, <1>11, ListsSame, LinesSame, SeqsSame DEF Kept

(***************************************************************************)
(* Starts.                                                                 *)
(***************************************************************************)
\* A start leaves what is shown as running to the runs that send it.
LEMMA StartedRunning ==
  ASSUME RunsKept, Running, lines' = lines, \A r \in Runs : r \notin used + 1..used' => runs'[r] = runs[r],
         \A r \in used + 1..used' : runs[r] = NotRun
  PROVE  Running'
<1>1. ASSUME NEW s \in Runs, runs[s].stage \in Executing \cup {"aborted"}
      PROVE  /\ runs'[s].flow = runs[s].flow /\ runs'[s].line = runs[s].line
             /\ runs'[s].stage \in Executing \cup {"aborted"}
  <2>1. s \notin used + 1..used'
    BY <1>1 DEF NotRun, Executing
  <2>2. QED
    BY <1>1, <2>1
<1>2. QED
  BY <1>1, SendersSame

\* Runs that belong to no batch are of no concern to the sequences that have one.
LEMMA StartedAlone ==
  ASSUME SeqsKept, BatchStopsAtFailure, used \in Nat, used' \in Nat, used' >= used,
         \A r \in Runs : r \notin used + 1..used' => runs'[r] = runs[r],
         \A r \in used + 1..used' : runs'[r].batch = NoRun
  PROVE  /\ BatchStopsAtFailure'
         /\ \A w \in Lists : seqs'[w] = seqs[w] /\ (\A v \in Lists : Batched(v)' => Batched(v) /\ seqs'[v] = seqs[v])
              => BatchOf(w)'
<1>1. BatchStopsAtFailure'
  <2> SUFFICES ASSUME NEW r \in Runs, NEW s \in Runs, r < s, runs'[r].batch # NoRun,
                      runs'[s].batch = runs'[r].batch
               PROVE  runs'[r].result = "success"
    BY DEF BatchStopsAtFailure
  <2>1. runs'[r] = runs[r] /\ runs'[s] = runs[s]
    OBVIOUS
  <2>2. QED
    BY <2>1 DEF BatchStopsAtFailure
<1>2. ASSUME NEW w \in Lists, seqs'[w] = seqs[w], \A v \in Lists : Batched(v)' => Batched(v) /\ seqs'[v] = seqs[v],
             Batched(w)'
      PROVE  /\ seqs'[w].batch \in 1..used' + 1
             /\ seqs'[w].awaits # {} => seqs'[w].batch <= used'
             /\ seqs'[w].ok => \A r \in Runs \ seqs'[w].awaits :
                                 runs'[r].batch = seqs'[w].batch => runs'[r].result = "success"
             /\ \A v \in Lists : v # w /\ Batched(v)' => seqs'[v].batch # seqs'[w].batch
  <2>1. BatchOf(w) /\ Batched(w)
    BY <1>2 DEF SeqsKept
  <2>2. seqs[w].batch \in 1..used + 1 /\ (seqs[w].awaits # {} => seqs[w].batch <= used)
    BY <2>1 DEF BatchOf
  <2>3. seqs[w].batch \in 1..used' + 1 /\ (seqs[w].awaits # {} => seqs[w].batch <= used')
    BY <2>2
  <2>4. ASSUME seqs[w].ok, NEW r \in Runs \ seqs[w].awaits, runs'[r].batch = seqs[w].batch
        PROVE  runs'[r].result = "success"
    <3>1. seqs[w].batch # NoRun
      BY <2>2 DEF NoRun
    <3>2. runs'[r] = runs[r]
      BY <2>4, <3>1
    <3>3. QED
      BY <2>1, <2>4, <3>2 DEF BatchOf
  <2>5. ASSUME NEW v \in Lists, v # w, Batched(v)' PROVE seqs'[v].batch # seqs'[w].batch
    <3>1. Batched(v) /\ seqs'[v] = seqs[v]
      BY <1>2, <2>5
    <3>2. seqs[v].batch # seqs[w].batch
      BY <2>1, <2>5, <3>1 DEF BatchOf
    <3>3. QED
      BY <1>2, <3>1, <3>2
  <2>6. QED
    BY <1>2, <2>3, <2>4, <2>5
<1>3. QED
  BY <1>1, <1>2 DEF BatchOf

\* Flows start at their first error or their first pending line.
LEMMA BeginsAtLine ==
  ASSUME LinesKept, NEW f \in Flows
  PROVE  Begin(lines[f]) \in Nat
<1>1. lines[f] \in Seq(Line)
  BY DEF LinesKept
<1>2. ASSUME NEW statuses PROVE FirstOf(lines[f], statuses) \in Nat
  <2> DEFINE found == {i \in DOMAIN lines[f] : lines[f][i].status \in statuses}
  <2>1. found \subseteq Nat
    BY <1>1
  <2>2. FirstOf(lines[f], statuses) = IF found = {} THEN 0 ELSE Min(found)
    BY DEF FirstOf
  <2> HIDE DEF found
  <2>3. CASE found = {}
    BY <2>2, <2>3
  <2>4. CASE found # {}
    <3>1. Min(found) \in found
      BY <2>1, <2>4, MinIsLeast
    <3>2. QED
      BY <2>1, <2>2, <2>4, <3>1
  <2>5. QED
    BY <2>3, <2>4
<1>3. QED
  BY <1>2 DEF Begin

\* The button of a line, and that of a flow.
LEMMA RunFromLineKept ==
  ASSUME Kept, NEW f \in Flows, NEW i, RunFromLine(f, i)
  PROVE  Kept'
<1>1. ListsKept /\ LinesKept /\ RunsKept /\ Running /\ SeqsKept /\ BatchStopsAtFailure
  BY DEF Kept
<1>2. /\ ~IsRunning(f) /\ i \in DOMAIN lines[f] /\ StartAt(<<f>>, <<i>>, NoRun)
      /\ lines' = lines /\ main' = main /\ members' = members /\ seqs' = seqs
  BY DEF RunFromLine
<1>3. i \in Nat
  <2>1. lines[f] \in Seq(Line)
    BY <1>1 DEF LinesKept
  <2>2. QED
    BY <1>2, <2>1
<1>4. /\ <<f>> \in Seq(Flows) /\ IsInjective(<<f>>) /\ <<f>> # <<>> /\ Len(<<f>>) = 1
      /\ \A j \in DOMAIN <<f>> : ~IsRunning(<<f>>[j])
  BY <1>2 DEF IsInjective
<1>5. <<i>> \in [1..Len(<<f>>) -> Nat]
  BY <1>3
<1>6. used \in 0..MaxRuns /\ used \in Nat /\ NoRun \in Runs \cup {NoRun} /\ NoRun <= used + 1
  BY <1>1 DEF RunsKept, NoRun
<1>7. /\ RunsKept' /\ used' = used + 1 /\ used' > used
      /\ \A r \in Runs : r \notin used + 1..used' => runs'[r] = runs[r]
      /\ \A r \in used + 1..used' : /\ r \in Runs /\ runs[r] = NotRun
                                    /\ runs'[r].batch = NoRun /\ runs'[r].result = "running"
  BY <1>1, <1>2, <1>4, <1>5, <1>6, Started
<1>8. Running'
  BY <1>1, <1>2, <1>7, StartedRunning
<1>9. /\ BatchStopsAtFailure'
      /\ \A w \in Lists : BatchOf(w)'
  <2>1. used' \in Nat /\ used' >= used
    BY <1>6, <1>7
  <2>2. \A v \in Lists : Batched(v)' => Batched(v) /\ seqs'[v] = seqs[v]
    BY <1>2 DEF Batched
  <2>3. QED
    BY <1>1, <1>2, <1>6, <1>7, <2>1, <2>2, StartedAlone
<1>10. SeqsKept'
  BY <1>1, <1>2, <1>9 DEF SeqsKept
<1>11. QED
  BY <1>1, <1>2, <1>7, <1>8, <1>9, <1>10, ListsSame, LinesSame DEF Kept

\* A continuation is due before any other event: whoever goes on awaits a flow.
LEMMA NothingDue ==
  ASSUME SeqsKept, ~Due, NEW w \in Lists, Batched(w)
  PROVE  seqs[w].awaits # {} /\ seqs[w].batch <= used
<1>1. seqs[w].awaits # {}
  BY DEF Due, Batched
<1>2. BatchOf(w)
  BY DEF SeqsKept
<1>3. QED
  BY <1>1, <1>2 DEF BatchOf

\* The flows of a list that are not running start together.
LEMMA IdleFlows ==
  ASSUME LinesKept, NEW list, FlowList(list)
  PROVE  LET idle == Picked(list, {i \in DOMAIN list : ~IsRunning(list[i])})
         IN  /\ idle \in Seq(Flows) /\ IsInjective(idle)
             /\ \A i \in DOMAIN idle : ~IsRunning(idle[i])
             /\ [i \in DOMAIN idle |-> Begin(lines[idle[i]])] \in [1..Len(idle) -> Nat]
<1> DEFINE kept == {i \in DOMAIN list : ~IsRunning(list[i])}
           idle == Picked(list, kept)
<1>1. kept \in SUBSET (DOMAIN list)
  OBVIOUS
<1>2. \A i \in kept : ~IsRunning(list[i])
  OBVIOUS
<1> HIDE DEF kept
<1>3. FlowList(idle) /\ ToSet(idle) = {list[i] : i \in kept}
  BY <1>1, PickedFlows
<1> HIDE DEF idle
<1>4. idle \in Seq(Flows) /\ IsInjective(idle)
  BY <1>3 DEF FlowList
<1>5. \A i \in DOMAIN idle : ~IsRunning(idle[i])
  <2> TAKE i \in DOMAIN idle
  <2>1. idle[i] \in ToSet(idle)
    BY DEF ToSet
  <2>2. PICK j \in kept : idle[i] = list[j]
    BY <1>3, <2>1
  <2>3. QED
    BY <1>2, <2>2
<1>6. DOMAIN idle = 1..Len(idle) /\ \A i \in 1..Len(idle) : idle[i] \in Flows
  BY <1>4
<1>7. \A i \in 1..Len(idle) : Begin(lines[idle[i]]) \in Nat
  BY <1>6, BeginsAtLine
<1>8. QED
  BY <1>4, <1>5, <1>6, <1>7 DEF idle, kept

\* What a sequence is when it starts.
LEMMA NewSequence ==
  ASSUME NEW batch \in Runs
  PROVE  LET seq == [NoSeq EXCEPT !.on = TRUE, !.batch = batch]
         IN  /\ seq \in Sequence /\ seq.batch = batch /\ seq.awaits = {} /\ ~seq.parallel
<1> DEFINE a == [NoSeq EXCEPT !.on = TRUE]
<1>1. NoSeq \in Sequence /\ NoSeq.awaits = {} /\ ~NoSeq.parallel
  BY DEF NoSeq, Sequence, NoRun
<1>2. a \in Sequence /\ a.awaits = {} /\ ~a.parallel
  BY <1>1 DEF Sequence
<1>3. [NoSeq EXCEPT !.on = TRUE, !.batch = batch] = [a EXCEPT !.batch = batch]
  BY DEF a
<1> HIDE DEF a
<1>4. QED
  BY <1>2, <1>3 DEF Sequence

\* A sequence in parallel awaits the runs it has just started.
LEMMA NewParallel ==
  ASSUME NEW awaits \in SUBSET Runs
  PROVE  LET seq == [NoSeq EXCEPT !.on = TRUE, !.parallel = TRUE, !.awaits = awaits]
         IN  seq \in Sequence /\ seq.parallel
<1> DEFINE a == [NoSeq EXCEPT !.on = TRUE]
           b == [a EXCEPT !.parallel = TRUE]
<1>1. NoSeq \in Sequence
  BY DEF NoSeq, Sequence, NoRun
<1>2. a \in Sequence
  BY <1>1 DEF Sequence
<1> HIDE DEF a
<1>3. b \in Sequence /\ b.parallel
  BY <1>2 DEF Sequence
<1>4. [NoSeq EXCEPT !.on = TRUE, !.parallel = TRUE, !.awaits = awaits] = [b EXCEPT !.awaits = awaits]
  BY DEF a, b
<1> HIDE DEF b
<1>5. QED
  BY <1>3, <1>4 DEF Sequence

\* Running a list, in order or in parallel, keeps everything.
LEMMA RunListKept ==
  ASSUME Kept, ~Due, NEW w \in Lists, NEW parallel \in BOOLEAN, RunList(w, parallel)
  PROVE  Kept'
<1> DEFINE list == IF w = "main" THEN main ELSE members
           idle == Picked(list, {i \in DOMAIN list : ~IsRunning(list[i])})
<1>1. ListsKept /\ LinesKept /\ RunsKept /\ Running /\ SeqsKept /\ BatchStopsAtFailure
  BY DEF Kept
<1>2. lines' = lines /\ main' = main /\ members' = members /\ ~seqs[w].on
  BY DEF RunList
<1>3. used \in 0..MaxRuns /\ used \in Nat /\ NoRun \in Runs \cup {NoRun} /\ NoRun <= used + 1
  BY <1>1 DEF RunsKept, NoRun
<1>4. seqs \in [Lists -> Sequence] /\ \A v \in Lists : BatchOf(v)
  BY <1>1 DEF SeqsKept
<1>5. CASE parallel
  <2>1. /\ idle # <<>> /\ StartAt(idle, [i \in DOMAIN idle |-> Begin(lines[idle[i]])], NoRun)
        /\ seqs' = IF w = "main" THEN seqs
                   ELSE [seqs EXCEPT ![w] = [NoSeq EXCEPT !.on = TRUE, !.parallel = TRUE,
                                                          !.awaits = used + 1..used']]
    BY <1>5 DEF RunList, Starts
  <2>2. FlowList(list)
    BY <1>1 DEF ListsKept, FlowList
  <2> HIDE DEF list
  <2> DEFINE begin == [i \in DOMAIN idle |-> Begin(lines[idle[i]])]
  <2>3. /\ idle \in Seq(Flows) /\ IsInjective(idle)
        /\ \A i \in DOMAIN idle : ~IsRunning(idle[i])
        /\ begin \in [1..Len(idle) -> Nat]
    BY <1>1, <2>2, IdleFlows
  <2>4. StartAt(idle, begin, NoRun) /\ idle # <<>>
    BY <2>1
  <2> HIDE DEF idle, begin
  <2>5. /\ RunsKept' /\ used' = used + Len(idle) /\ used' > used
        /\ \A r \in Runs : r \notin used + 1..used' => runs'[r] = runs[r]
        /\ \A r \in used + 1..used' : /\ r \in Runs /\ runs[r] = NotRun
                                      /\ runs'[r].batch = NoRun /\ runs'[r].result = "running"
    BY <1>1, <1>3, <2>3, <2>4, Started
  <2>6. Running'
    BY <1>1, <1>2, <2>5, StartedRunning
  <2>7. used' \in Nat /\ used' >= used /\ used + 1..used' \in SUBSET Runs
    <3>1. Len(idle) \in Nat
      BY <2>3
    <3>2. used' \in Nat /\ used' >= used
      BY <1>3, <2>5, <3>1
    <3>3. QED
      BY <2>5, <3>2
  <2> DEFINE seq == [NoSeq EXCEPT !.on = TRUE, !.parallel = TRUE, !.awaits = used + 1..used']
  <2>8. seq \in Sequence /\ seq.parallel
    BY <2>7, NewParallel
  <2>9. seqs' = IF w = "main" THEN seqs ELSE [seqs EXCEPT ![w] = seq]
    BY <2>1
  <2> HIDE DEF seq
  <2>10. seqs' \in [Lists -> Sequence] /\ \A v \in Lists : seqs'[v] \in {seqs[v], seq}
    <3>1. CASE w = "main"
      BY <1>4, <2>9, <3>1
    <3>2. CASE w # "main"
      <4>1. seqs' = [seqs EXCEPT ![w] = seq]
        BY <2>9, <3>2
      <4>2. QED
        BY <1>4, <2>8, <4>1
    <3>3. QED
      BY <3>1, <3>2
  <2>11. \A v \in Lists : Batched(v)' => Batched(v) /\ seqs'[v] = seqs[v]
    BY <2>8, <2>10 DEF Batched
  <2>12. \A v \in Lists : seqs'[v] = seqs[v] => BatchOf(v)'
    BY <1>1, <1>3, <2>5, <2>7, <2>11, StartedAlone
  <2>13. \A v \in Lists : BatchOf(v)'
    <3> TAKE v \in Lists
    <3>1. CASE seqs'[v] = seqs[v]
      BY <2>12, <3>1
    <3>2. CASE seqs'[v] = seq
      BY <2>8, <3>2 DEF BatchOf, Batched
    <3>3. QED
      BY <2>10, <3>1, <3>2
  <2>14. BatchStopsAtFailure'
    BY <1>1, <1>3, <2>5, <2>7, StartedAlone
  <2>15. QED
    BY <1>1, <1>2, <2>5, <2>6, <2>10, <2>13, <2>14, ListsSame, LinesSame DEF Kept, SeqsKept
<1>6. CASE ~parallel
  <2> DEFINE seq == [NoSeq EXCEPT !.on = TRUE, !.batch = used + 1]
  <2>1. /\ used < MaxRuns /\ seqs' = [seqs EXCEPT ![w] = seq]
        /\ UNCHANGED <<runs, registered, used>>
    BY <1>6 DEF RunList
  <2>2. used + 1 \in Runs
    BY <1>3, <2>1, Bounds DEF Runs
  <2>3. seq \in Sequence /\ seq.batch = used + 1 /\ seq.awaits = {} /\ ~seq.parallel
    BY <2>2, NewSequence
  <2> HIDE DEF seq
  <2>4. seqs' \in [Lists -> Sequence] /\ seqs'[w] = seq /\ \A v \in Lists : v # w => seqs'[v] = seqs[v]
    BY <1>4, <2>1, <2>3
  <2>5. LogsSame
    BY <2>1 DEF LogsSame
  <2>6. RunsKept'
    BY <1>1, <2>1, RunsSame
  <2>7. Running'
    BY <1>1, <1>2, <2>1, SendersSame
  <2>8. BatchStopsAtFailure'
    BY <1>1, <2>5 DEF BatchStopsAtFailure, LogsSame
  <2>9. ASSUME NEW v \in Lists, v # w, Batched(v)
        PROVE  seqs[v].batch <= used /\ seqs[v].batch # used + 1
    <3>1. seqs[v].batch <= used
      BY <1>1, <2>9, NothingDue
    <3>2. seqs[v].batch \in 1..used + 1
      BY <1>4, <2>9 DEF BatchOf
    <3>3. QED
      BY <1>3, <3>1, <3>2
  <2>10. ASSUME NEW v \in Lists PROVE BatchOf(v)'
    <3>1. CASE v = w
      <4>1. \A r \in Runs : runs'[r].batch # used + 1
        <5> TAKE r \in Runs
        <5>1. runs[r].batch <= used /\ runs[r].batch \in Runs \cup {NoRun}
          BY <1>1 DEF RunsKept, RunOf, Run
        <5>2. runs[r].batch \in Nat
          BY <5>1 DEF Runs, NoRun
        <5>3. QED
          BY <1>3, <2>1, <5>1, <5>2
      <4>2. used + 1 \in 1..used' + 1
        BY <1>3, <2>1
      <4>3. \A u \in Lists : u # v /\ Batched(u)' => seqs'[u].batch # used + 1
        BY <2>4, <2>9, <3>1 DEF Batched
      <4>4. QED
        BY <2>3, <2>4, <3>1, <4>1, <4>2, <4>3 DEF BatchOf
    <3>2. CASE v # w
      <4>1. BatchOf(v) /\ seqs'[v] = seqs[v]
        BY <1>4, <2>4, <3>2
      <4>2. Batched(v)' => Batched(v)
        BY <4>1 DEF Batched
      <4>3. ASSUME Batched(v), NEW u \in Lists, u # v, Batched(u)' PROVE seqs'[u].batch # seqs'[v].batch
        <5>1. CASE u = w
          BY <2>3, <2>4, <2>9, <3>2, <4>1, <4>3, <5>1
        <5>2. CASE u # w
          BY <2>4, <4>1, <4>3, <5>2 DEF BatchOf, Batched
        <5>3. QED
          BY <5>1, <5>2
      <4>4. ASSUME Batched(v)
            PROVE  /\ seqs'[v].batch \in 1..used' + 1
                   /\ seqs'[v].awaits # {} => seqs'[v].batch <= used'
                   /\ seqs'[v].ok => \A r \in Runs \ seqs'[v].awaits :
                                       runs'[r].batch = seqs'[v].batch => runs'[r].result = "success"
        BY <2>1, <4>1, <4>4 DEF BatchOf
      <4>5. QED
        BY <4>2, <4>3, <4>4 DEF BatchOf
    <3>3. QED
      BY <3>1, <3>2
  <2>11. QED
    BY <1>1, <1>2, <2>4, <2>6, <2>7, <2>8, <2>10, ListsSame, LinesSame DEF Kept, SeqsKept
<1>7. QED
  BY <1>5, <1>6

\* A sequence goes on with its next flow, or is over.
LEMMA SeqNextKept ==
  ASSUME Kept, NEW w \in Lists, SeqNext(w)
  PROVE  Kept'
<1> DEFINE at == seqs[w].at + 1
           flow == ListOf(w)[at]
           stops == \/ ~seqs[w].ok \/ seqs[w].parallel \/ at > Len(ListOf(w)) \/ IsRunning(ListOf(w)[at])
                    \/ used = MaxRuns
<1>1. ListsKept /\ LinesKept /\ RunsKept /\ Running /\ SeqsKept /\ BatchStopsAtFailure
  BY DEF Kept
<1>2. lines' = lines /\ main' = main /\ members' = members /\ seqs[w].on /\ seqs[w].awaits = {}
  BY DEF SeqNext
<1>3. used \in 0..MaxRuns /\ used \in Nat /\ \A r \in Runs : runs[r].batch \in Nat /\ runs[r].batch <= used
  <2>1. used \in 0..MaxRuns /\ \A r \in Runs : runs[r].batch <= used /\ runs[r].batch \in Runs \cup {NoRun}
    BY <1>1 DEF RunsKept, RunOf, Run
  <2>2. QED
    BY <2>1 DEF Runs, NoRun
<1>4. seqs \in [Lists -> Sequence] /\ \A v \in Lists : BatchOf(v)
  BY <1>1 DEF SeqsKept
<1>5. CASE stops
  <2>1. seqs' = [seqs EXCEPT ![w] = NoSeq] /\ UNCHANGED <<runs, registered, used>>
    BY <1>5 DEF SeqNext
  <2>2. NoSeq \in Sequence /\ ~NoSeq.on
    BY DEF NoSeq, Sequence, NoRun
  <2>3. seqs' \in [Lists -> Sequence] /\ seqs'[w] = NoSeq /\ \A v \in Lists : v # w => seqs'[v] = seqs[v]
    BY <1>4, <2>1, <2>2
  <2>4. RunsKept'
    BY <1>1, <2>1, RunsSame
  <2>5. Running'
    BY <1>1, <1>2, <2>1, SendersSame
  <2>6. BatchStopsAtFailure'
    BY <1>1, <2>1 DEF BatchStopsAtFailure
  <2>7. ASSUME NEW v \in Lists PROVE BatchOf(v)'
    <3>1. CASE v = w
      BY <2>2, <2>3, <3>1 DEF BatchOf, Batched
    <3>2. CASE v # w
      <4>1. BatchOf(v) /\ seqs'[v] = seqs[v]
        BY <1>4, <2>3, <3>2
      <4>2. \A u \in Lists : Batched(u)' => Batched(u) /\ seqs'[u] = seqs[u]
        BY <2>2, <2>3 DEF Batched
      <4>3. QED
        BY <2>1, <4>1, <4>2, <3>2 DEF BatchOf
    <3>3. QED
      BY <3>1, <3>2
  <2>8. QED
    BY <1>1, <1>2, <2>3, <2>4, <2>5, <2>6, <2>7, ListsSame, LinesSame DEF Kept, SeqsKept
<1>6. CASE ~stops
  <2> DEFINE batch == seqs[w].batch
             flows == <<flow>>
             begin == [i \in DOMAIN flows |-> Begin(lines[flows[i]])]
  <2>1. /\ StartAt(flows, begin, batch)
        /\ seqs' = [seqs EXCEPT ![w].at = at, ![w].awaits = {used'}]
    BY <1>6 DEF SeqNext, Starts
  <2>2. seqs[w].ok /\ ~seqs[w].parallel /\ at \in Nat /\ at >= 1 /\ at <= Len(ListOf(w)) /\ ~IsRunning(flow)
    <3>1. seqs[w].at \in Nat
      BY <1>4 DEF Sequence
    <3>2. ListOf(w) \in Seq(Flows)
      BY <1>1, <1>4 DEF ListOf, Sequence, ListsKept
    <3>3. QED
      BY <1>6, <3>1, <3>2
  <2>3. flow \in Flows
    <3>1. ListOf(w) \in Seq(Flows)
      BY <1>1, <1>4 DEF ListOf, Sequence, ListsKept
    <3>2. QED
      BY <2>2, <3>1
  <2>4. Batched(w) /\ BatchOf(w)
    BY <1>2, <1>4, <2>2 DEF Batched
  <2>5. /\ batch \in 1..used + 1 /\ batch \in Runs \cup {NoRun} /\ batch <= used + 1 /\ batch # NoRun
        /\ \A r \in Runs : runs[r].batch = batch => runs[r].result = "success"
        /\ \A v \in Lists : v # w /\ Batched(v) => seqs[v].batch # batch
    <3>1. batch \in Runs \cup {NoRun}
      BY <1>4 DEF Sequence
    <3>2. batch \in 1..used + 1
      BY <2>4 DEF BatchOf
    <3>3. \A r \in Runs : runs[r].batch = batch => runs[r].result = "success"
      BY <1>2, <2>2, <2>4 DEF BatchOf
    <3>4. \A v \in Lists : v # w /\ Batched(v) => seqs[v].batch # batch
      BY <2>4 DEF BatchOf
    <3>5. batch <= used + 1 /\ batch # NoRun
      BY <1>3, <3>2 DEF NoRun
    <3>6. QED
      BY <3>1, <3>2, <3>3, <3>4, <3>5
  <2> HIDE DEF at, flow, batch
  <2>6. /\ flows \in Seq(Flows) /\ IsInjective(flows) /\ flows # <<>> /\ Len(flows) = 1
        /\ \A i \in DOMAIN flows : ~IsRunning(flows[i])
        /\ DOMAIN flows = 1..1 /\ flows[1] = flow
    BY <2>2, <2>3 DEF IsInjective
  <2> HIDE DEF flows
  <2>7. begin \in [1..Len(flows) -> Nat]
    <3>1. Begin(lines[flow]) \in Nat
      BY <1>1, <2>3, BeginsAtLine
    <3>2. QED
      BY <2>6, <3>1
  <2> HIDE DEF begin
  <2>8. /\ RunsKept' /\ used' = used + 1 /\ used' > used
        /\ \A r \in Runs : r \notin used + 1..used' => runs'[r] = runs[r]
        /\ \A r \in used + 1..used' : /\ r \in Runs /\ runs[r] = NotRun
                                      /\ runs'[r].batch = batch /\ runs'[r].result = "running"
    BY <1>1, <1>3, <2>1, <2>5, <2>6, <2>7, Started
  <2>9. Running'
    BY <1>1, <1>2, <2>8, StartedRunning
  <2> DEFINE new == used + 1
  <2>10. /\ new \in Runs /\ used' = new /\ runs[new] = NotRun
         /\ runs'[new].batch = batch /\ runs'[new].result = "running"
         /\ \A r \in Runs : r # new => runs'[r] = runs[r]
    <3>1. \A r : r \in used + 1..used' <=> r = new
      BY <1>3, <2>8
    <3>2. QED
      BY <2>8, <3>1
  <2>11. new \in Nat /\ new = used + 1 /\ new > used
    BY <1>3
  <2> HIDE DEF new
  <2>12. BatchStopsAtFailure'
    <3> SUFFICES ASSUME NEW r \in Runs, NEW s \in Runs, r < s, runs'[r].batch # NoRun,
                        runs'[s].batch = runs'[r].batch
                 PROVE  runs'[r].result = "success"
      BY DEF BatchStopsAtFailure
    <3>1. r # new
      <4> SUFFICES ASSUME r = new PROVE FALSE
        OBVIOUS
      <4>1. s # new /\ s > used
        BY <1>3, <2>11, Bounds DEF Runs
      <4>2. runs'[s] = runs[s] /\ runs[s] = NotRun
        <5>1. RunOf(s)
          BY <1>1 DEF RunsKept
        <5>2. QED
          BY <2>10, <4>1, <5>1 DEF RunOf
      <4>3. runs'[s].batch = NoRun
        BY <4>2 DEF NotRun
      <4>4. QED
        BY <4>3
    <3>2. runs'[r] = runs[r]
      BY <2>10, <3>1
    <3>3. CASE s = new
      BY <2>5, <2>10, <3>2, <3>3
    <3>4. CASE s # new
      <4>1. runs'[s] = runs[s]
        BY <2>10, <3>4
      <4>2. QED
        BY <1>1, <3>2, <4>1 DEF BatchStopsAtFailure
    <3>5. QED
      BY <3>3, <3>4
  <2> DEFINE seq == [[seqs[w] EXCEPT !.at = at] EXCEPT !.awaits = {new}]
  <2>13. /\ seq \in Sequence /\ seq.batch = batch /\ seq.awaits = {new} /\ ~seq.parallel
         /\ seq.ok = seqs[w].ok /\ seq.on
    <3> DEFINE a == [seqs[w] EXCEPT !.at = at]
    <3>1. a \in Sequence /\ a.batch = batch /\ ~a.parallel /\ a.ok = seqs[w].ok /\ a.on
      <4>1. seqs[w] \in Sequence /\ seqs[w].on
        BY <1>2, <1>4
      <4>2. QED
        BY <2>2, <4>1 DEF Sequence, batch
    <3>2. seq = [a EXCEPT !.awaits = {new}]
      OBVIOUS
    <3> HIDE DEF a, seq
    <3>3. QED
      BY <2>10, <3>1, <3>2 DEF Sequence
  <2>14. seqs' = [seqs EXCEPT ![w] = seq]
    BY <1>4, <2>1, <2>10
  <2> HIDE DEF seq
  <2>15. seqs' \in [Lists -> Sequence] /\ seqs'[w] = seq /\ \A v \in Lists : v # w => seqs'[v] = seqs[v]
    BY <1>4, <2>13, <2>14
  <2>16. \A v \in Lists : Batched(v)' <=> Batched(v)
    BY <2>4, <2>13, <2>15 DEF Batched
  <2>17. \A v \in Lists : seqs'[v].batch = seqs[v].batch
    BY <2>13, <2>15 DEF batch
  <2>18. ASSUME NEW v \in Lists PROVE BatchOf(v)'
    <3>1. BatchOf(v)
      BY <1>4
    <3>2. ASSUME Batched(v)
          PROVE  /\ seqs'[v].batch \in 1..used' + 1
                 /\ \A u \in Lists : u # v /\ Batched(u) => seqs'[u].batch # seqs'[v].batch
      <4>1. seqs[v].batch \in 1..used + 1
        BY <3>1, <3>2 DEF BatchOf
      <4>2. seqs'[v].batch \in 1..used' + 1
        BY <1>3, <2>10, <2>11, <2>17, <4>1
      <4>3. QED
        BY <2>17, <3>1, <3>2, <4>2 DEF BatchOf
    <3>3. CASE v = w
      <4>1. batch <= used'
        BY <2>5, <2>10, <2>11
      <4>2. \A r \in Runs \ {new} : runs'[r].batch = batch => runs'[r].result = "success"
        BY <2>5, <2>10
      <4>3. seqs'[v].batch = batch /\ seqs'[v].awaits = {new}
        BY <2>13, <2>15, <3>3
      <4>4. QED
        BY <2>16, <3>2, <4>1, <4>2, <4>3 DEF BatchOf
    <3>4. CASE v # w
      <4>1. seqs'[v] = seqs[v]
        BY <2>15, <3>4
      <4>2. ASSUME Batched(v), seqs[v].awaits # {} PROVE seqs[v].batch <= used'
        <5>1. seqs[v].batch <= used /\ seqs[v].batch \in 1..used + 1
          BY <3>1, <4>2 DEF BatchOf
        <5>2. QED
          BY <1>3, <2>10, <2>11, <5>1
      <4>3. ASSUME Batched(v), seqs[v].ok, NEW r \in Runs \ seqs[v].awaits, runs'[r].batch = seqs[v].batch
            PROVE  runs'[r].result = "success"
        <5>1. r # new
          BY <2>5, <2>10, <3>4, <4>3
        <5>2. runs'[r] = runs[r]
          BY <2>10, <5>1
        <5>3. QED
          BY <3>1, <4>3, <5>2 DEF BatchOf
      <4>4. QED
        BY <2>16, <3>2, <4>1, <4>2, <4>3 DEF BatchOf
    <3>5. QED
      BY <3>3, <3>4
  <2>19. QED
    BY <1>1, <1>2, <2>8, <2>9, <2>12, <2>15, <2>18, ListsSame, LinesSame DEF Kept, SeqsKept
<1>7. QED
  BY <1>5, <1>6

(***************************************************************************)
(* The editor.                                                             *)
(***************************************************************************)
\* An edit leaves the runs and the sequences to themselves.
LEMMA EditKept ==
  ASSUME Kept, UNCHANGED <<runs, registered, seqs, used>>, ListsKept', LinesKept', Running'
  PROVE  Kept'
<1>1. RunsKept /\ SeqsKept /\ BatchStopsAtFailure
  BY DEF Kept
<1>2. LogsSame
  BY DEF LogsSame
<1>3. RunsKept'
  BY <1>1, RunsSame
<1>4. SeqsKept' /\ BatchStopsAtFailure'
  BY <1>1, <1>2, SeqsSame
<1>5. QED
  BY <1>3, <1>4 DEF Kept

\* An edit of the lines of one flow.
LEMMA AltersKept ==
  ASSUME Kept, NEW f \in Flows, NEW to \in Seq(Line), Alters(f, to), Len(to) <= MaxLines,
         NoneStarted(to, lines[f])
  PROVE  Kept'
<1>1. ListsKept /\ LinesKept /\ Running
  BY DEF Kept
<1>2. /\ lines' = [lines EXCEPT ![f] = to] /\ main' = main /\ members' = members
      /\ UNCHANGED <<runs, registered, seqs, used>>
  BY DEF Alters, Edits
<1>3. LinesKept' /\ Running'
  BY <1>1, <1>2, FlowAltered
<1>4. ListsKept'
  BY <1>1, <1>2, ListsSame
<1>5. QED
  BY <1>2, <1>3, <1>4, EditKept

\* What the lines of a flow are.
LEMMA LinesOf ==
  ASSUME Kept, NEW f \in Flows
  PROVE  /\ lines[f] \in Seq(Line) /\ Len(lines[f]) <= MaxLines /\ Len(lines[f]) \in Nat
         /\ DOMAIN lines[f] = 1..Len(lines[f]) /\ \A i \in 1..Len(lines[f]) : lines[f][i] \in Line
<1>1. lines[f] \in Seq(Line) /\ Len(lines[f]) <= MaxLines
  BY DEF Kept, LinesKept
<1>2. QED
  BY <1>1

\* A line that is edited is idle again.
LEMMA EditLineKept ==
  ASSUME Kept, NEW f \in Flows, NEW i, NEW kind \in Kinds, EditLine(f, i, kind)
  PROVE  Kept'
<1> DEFINE ls == lines[f]
           line == [[ls[i] EXCEPT !.kind = kind] EXCEPT !.status = "idle"]
           to == [ls EXCEPT ![i] = line]
<1>1. /\ ls \in Seq(Line) /\ Len(ls) <= MaxLines /\ Len(ls) \in Nat
      /\ DOMAIN ls = 1..Len(ls) /\ \A j \in 1..Len(ls) : ls[j] \in Line
  BY LinesOf
<1>2. i \in 1..Len(ls)
  BY <1>1 DEF EditLine
<1>3. line \in Line /\ line.status = "idle"
  <2> DEFINE a == [ls[i] EXCEPT !.kind = kind]
  <2>1. a \in Line
    BY <1>1, <1>2 DEF Line
  <2>2. line = [a EXCEPT !.status = "idle"]
    OBVIOUS
  <2> HIDE DEF a, line
  <2>3. QED
    BY <2>1, <2>2 DEF Line, Statuses
<1>4. Alters(f, to)
  <2>1. [ls EXCEPT ![i].kind = kind, ![i].status = "idle"] = to
    BY <1>1, <1>2
  <2> HIDE DEF to
  <2>2. QED
    BY <2>1 DEF EditLine
<1> HIDE DEF line, ls
<1>5. to \in Seq(Line) /\ Len(to) = Len(ls) /\ DOMAIN to = 1..Len(ls)
      /\ \A j \in 1..Len(ls) : to[j] = IF j = i THEN line ELSE ls[j]
  BY <1>1, <1>2, <1>3
<1> HIDE DEF to
<1>6. NoneStarted(to, ls)
  BY <1>1, <1>3, <1>5 DEF NoneStarted
<1>7. QED
  BY <1>1, <1>4, <1>5, <1>6, AltersKept DEF ls

\* A line that is removed takes nothing with it.
LEMMA RemoveLineKept ==
  ASSUME Kept, NEW f \in Flows, NEW i, RemoveLine(f, i)
  PROVE  Kept'
<1> DEFINE ls == lines[f]
           rest == RemoveAt(ls, i)
<1>1. /\ ls \in Seq(Line) /\ Len(ls) <= MaxLines /\ Len(ls) \in Nat
      /\ DOMAIN ls = 1..Len(ls) /\ \A j \in 1..Len(ls) : ls[j] \in Line
  BY LinesOf
<1>2. i \in DOMAIN ls /\ Alters(f, IF rest = <<>> THEN <<New(f, "blank")>> ELSE rest)
  BY DEF RemoveLine
<1>3. CASE rest = <<>>
  <2>1. New(f, "blank") \in Line /\ New(f, "blank").status = "idle"
    BY NewLine DEF Kept, Kinds
  <2>2. /\ <<New(f, "blank")>> \in Seq(Line) /\ Len(<<New(f, "blank")>>) <= MaxLines
        /\ NoneStarted(<<New(f, "blank")>>, ls)
    BY <2>1, OneLine
  <2>3. Alters(f, <<New(f, "blank")>>)
    BY <1>2, <1>3
  <2>4. QED
    BY <2>2, <2>3, AltersKept
<1>4. CASE rest # <<>>
  <2>1. /\ rest \in Seq(Line) /\ Len(rest) = Len(ls) - 1
        /\ \A j \in DOMAIN rest : \E k \in DOMAIN ls : rest[j] = ls[k]
    BY <1>1, <1>2, RemovedElement
  <2>2. Alters(f, rest)
    BY <1>2, <1>4
  <2> HIDE DEF rest, ls
  <2>3. Len(rest) <= MaxLines
    BY <1>1, <2>1, Bounds
  <2>4. NoneStarted(rest, ls)
    BY <2>1, Zenon DEF NoneStarted
  <2>5. QED
    BY <2>1, <2>2, <2>3, <2>4, AltersKept DEF ls
<1>5. QED
  BY <1>3, <1>4

\* A line that is moved keeps its identity.
LEMMA MoveLineKept ==
  ASSUME Kept, NEW f \in Flows, NEW i \in Nat \ {0}, MoveLine(f, i)
  PROVE  Kept'
<1> DEFINE ls == lines[f]
           to == [ls EXCEPT ![i] = ls[i + 1], ![i + 1] = ls[i]]
           n == Len(ls)
<1>1. /\ ls \in Seq(Line) /\ n <= MaxLines /\ n \in Nat
      /\ DOMAIN ls = 1..n /\ \A j \in 1..n : ls[j] \in Line
  BY LinesOf
<1>2. i + 1 \in DOMAIN ls /\ Alters(f, to)
  BY DEF MoveLine
<1>3. i + 1 \in 1..n /\ i \in 1..n
  BY <1>1, <1>2
<1> HIDE DEF ls, n
<1>4. DOMAIN to = 1..n /\ \A j \in 1..n : to[j] = IF j = i + 1 THEN ls[i] ELSE IF j = i THEN ls[i + 1] ELSE ls[j]
  BY <1>1, <1>3
<1>5. to = [j \in 1..n |-> to[j]]
  BY <1>1
<1> HIDE DEF to
<1>6. \A j \in 1..n : to[j] \in Line /\ \E k \in 1..n : to[j] = ls[k]
  BY <1>1, <1>3, <1>4
<1>7. to \in Seq(Line) /\ Len(to) = n
  BY <1>1, <1>5, <1>6
<1>8. NoneStarted(to, ls)
  BY <1>1, <1>4, <1>6, ZenonT(60) DEF NoneStarted
<1>9. QED
  BY <1>1, <1>2, <1>7, <1>8, AltersKept DEF ls

\* A line that is added is new.
LEMMA AddLineKept ==
  ASSUME Kept, NEW f \in Flows, AddLine(f)
  PROVE  Kept'
<1> DEFINE ls == lines[f]
           n == Len(ls)
           line == New(f, "blank")
           to == Append(ls, line)
<1>1. /\ ls \in Seq(Line) /\ n <= MaxLines /\ n \in Nat
      /\ DOMAIN ls = 1..n /\ \A j \in 1..n : ls[j] \in Line
  BY LinesOf
<1>2. n < MaxLines /\ Alters(f, to)
  BY DEF AddLine
<1>3. line \in Line /\ line.status = "idle"
  BY NewLine DEF Kept, Kinds
<1> HIDE DEF line, ls
<1>4. /\ to \in Seq(Line) /\ Len(to) = n + 1 /\ DOMAIN to = 1..(n + 1)
      /\ (\A j \in 1..n : to[j] = ls[j]) /\ to[n + 1] = line
  BY <1>1, <1>3
<1> HIDE DEF to, n
<1>5. \A j \in 1..(n + 1) : j \in 1..n \/ j = n + 1
  BY <1>1
<1>6. NoneStarted(to, ls)
  BY <1>1, <1>3, <1>4, <1>5 DEF NoneStarted
<1>7. n + 1 <= MaxLines
  BY <1>1, <1>2, Bounds
<1>8. QED
  BY <1>2, <1>4, <1>6, <1>7, AltersKept DEF ls

\* Lines that are imported are idle.
LEMMA ImportLinesKept ==
  ASSUME Kept, NEW f \in Flows, ImportLines(f)
  PROVE  Kept'
<1>1. New(f, "command") \in Line /\ New(f, "command").status = "idle"
  BY NewLine DEF Kept, Kinds
<1>2. /\ <<New(f, "command")>> \in Seq(Line) /\ Len(<<New(f, "command")>>) <= MaxLines
      /\ NoneStarted(<<New(f, "command")>>, lines[f])
  BY <1>1, OneLine
<1>3. QED
  BY <1>2, AltersKept DEF ImportLines

\* A server that is bound makes the lines idle.
LEMMA BindServerKept ==
  ASSUME Kept, NEW f \in Flows, BindServer(f)
  PROVE  Kept'
<1>1. lines[f] \in Seq(Line) /\ Len(lines[f]) <= MaxLines
  BY LinesOf
<1>2. Idle(lines[f]) \in Seq(Line) /\ Len(Idle(lines[f])) <= MaxLines /\ NoneStarted(Idle(lines[f]), lines[f])
  BY <1>1, IdleLines
<1>3. QED
  BY <1>2, AltersKept DEF BindServer

\* A file that is replaced in a group makes the uploads of it idle.
LEMMA ReplaceGroupFileKept ==
  ASSUME Kept, ReplaceGroupFile
  PROVE  Kept'
<1>1. ListsKept /\ LinesKept /\ Running
  BY DEF Kept
<1>2. /\ main' = main /\ members' = members /\ UNCHANGED <<runs, registered, seqs, used>>
      /\ lines' = [f \in Flows |-> IF f \notin ToSet(members) THEN lines[f]
                     ELSE [i \in DOMAIN lines[f] |->
                            IF lines[f][i].kind = "upload" THEN [lines[f][i] EXCEPT !.status = "idle"] ELSE lines[f][i]]]
  BY DEF ReplaceGroupFile, Edits
<1>3. ASSUME NEW f \in Flows
      PROVE  lines'[f] \in Seq(Line) /\ Len(lines'[f]) <= MaxLines /\ NoneStarted(lines'[f], lines[f])
  <2> DEFINE ls == lines[f]
             line(i) == IF ls[i].kind = "upload" THEN [ls[i] EXCEPT !.status = "idle"] ELSE ls[i]
             to == [i \in DOMAIN ls |-> line(i)]
  <2>1. /\ ls \in Seq(Line) /\ Len(ls) <= MaxLines /\ Len(ls) \in Nat
        /\ DOMAIN ls = 1..Len(ls) /\ \A j \in 1..Len(ls) : ls[j] \in Line
    BY LinesOf
  <2>2. lines'[f] = ls \/ lines'[f] = to
    BY <1>2
  <2> HIDE DEF ls
  <2>3. \A i \in 1..Len(ls) : line(i) \in Line /\ (line(i).status = "running" => line(i) = ls[i])
    <3> TAKE i \in 1..Len(ls)
    <3>1. [ls[i] EXCEPT !.status = "idle"] \in Line /\ [ls[i] EXCEPT !.status = "idle"].status = "idle"
      BY <2>1 DEF Line, Statuses
    <3>2. CASE ls[i].kind = "upload"
      BY <3>1, <3>2
    <3>3. CASE ls[i].kind # "upload"
      BY <2>1, <3>3
    <3>4. QED
      BY <3>2, <3>3
  <2> HIDE DEF line
  <2>4. /\ to \in Seq(Line) /\ Len(to) = Len(ls) /\ DOMAIN to = 1..Len(ls)
        /\ \A i \in 1..Len(ls) : to[i] = line(i)
    BY <2>1, <2>3
  <2> HIDE DEF to
  <2>5. NoneStarted(to, ls)
    BY <2>1, <2>3, <2>4 DEF NoneStarted
  <2>6. NoneStarted(ls, ls)
    BY DEF NoneStarted
  <2>7. CASE lines'[f] = ls
    BY <2>1, <2>6, <2>7 DEF ls
  <2>8. CASE lines'[f] = to
    <3>1. Len(to) <= MaxLines
      BY <2>1, <2>4
    <3>2. QED
      BY <2>4, <2>5, <2>8, <3>1 DEF ls
  <2>9. QED
    BY <2>2, <2>7, <2>8
<1>4. lines' \in [Flows -> Seq(Line)]
  <2>1. lines' = [f \in Flows |-> lines'[f]]
    BY <1>2
  <2>2. QED
    BY <1>3, <2>1
<1>5. LinesKept' /\ Running'
  BY <1>1, <1>2, <1>3, <1>4, LinesAltered
<1>6. ListsKept'
  BY <1>1, <1>2, ListsSame
<1>7. QED
  BY <1>2, <1>5, <1>6, EditKept

\* A flow that is unused is in neither list.
LEMMA UnusedFlow ==
  ASSUME Unused # {}
  PROVE  /\ Min(Unused) \in Flows
         /\ Min(Unused) \notin ToSet(main) /\ Min(Unused) \notin ToSet(members)
<1>1. Unused \subseteq Flows /\ Unused \cap ToSet(main) = {} /\ Unused \cap ToSet(members) = {}
  BY DEF Unused, InLists
<1>2. Unused \subseteq Nat
  BY <1>1, Bounds DEF Flows
<1>3. Min(Unused) \in Unused
  BY <1>2, MinIsLeast
<1>4. QED
  BY <1>1, <1>3

\* A flow can be put after another, or at the end.
LEMMA FlowAfter ==
  ASSUME NEW list, FlowList(list), NEW f, NEW new \in Flows, new \notin ToSet(list)
  PROVE  FlowList(After(list, f, new)) /\ ToSet(After(list, f, new)) \subseteq ToSet(list) \cup {new}
<1> DEFINE places == {i + 1 : i \in {n \in DOMAIN list : list[n] = f}} \cup {Len(list) + 1}
           place == Min(places)
<1>1. Len(list) \in Nat /\ DOMAIN list = 1..Len(list)
  BY DEF FlowList
<1>2. \A i \in places : i \in 1..(Len(list) + 1)
  BY <1>1
<1>3. places # {} /\ places \subseteq Nat
  BY <1>2
<1> HIDE DEF places
<1>4. place \in places
  BY <1>3, MinIsLeast
<1>5. After(list, f, new) = InsertAt(list, place, new)
  BY DEF After, places
<1> HIDE DEF place
<1>6. place - 1 \in 0..Len(list) /\ place - 1 + 1 = place
  BY <1>1, <1>2, <1>4
<1>7. PICK m \in 0..Len(list) : m + 1 = place
  BY <1>6
<1>8. FlowList(InsertAt(list, m + 1, new)) /\ ToSet(InsertAt(list, m + 1, new)) \subseteq ToSet(list) \cup {new}
  BY InsertedFlow
<1>9. QED
  BY <1>5, <1>7, <1>8

\* What the lists are.
LEMMA ListsAre ==
  ListsKept <=> FlowList(main) /\ FlowList(members) /\ ToSet(main) \cap ToSet(members) = {}
  BY DEF ListsKept, FlowList

\* A flow whose lines are new, and none of them running.
LEMMA FlowWritten ==
  ASSUME Kept, UNCHANGED <<runs, registered, seqs, used>>, ListsKept',
         NEW f \in Flows, NEW to \in Seq(Line), Len(to) <= MaxLines, \A from : NoneStarted(to, from),
         lines' = [lines EXCEPT ![f] = to]
  PROVE  Kept'
<1>1. ListsKept /\ LinesKept /\ Running
  BY DEF Kept
<1>2. LinesKept' /\ Running'
  BY <1>1, FlowAltered
<1>3. QED
  BY <1>2, EditKept

\* A copy of a flow is a new flow, with idle lines.
LEMMA CopyFlowKept ==
  ASSUME Kept, NEW f \in Flows, NEW w \in Lists, CopyFlow(f, w)
  PROVE  Kept'
<1> DEFINE copy == Min(Unused)
           to == Cloned(f)
<1>1. /\ Unused # {} /\ lines' = [lines EXCEPT ![copy] = to]
      /\ main' = IF w = "main" THEN After(main, f, copy) ELSE main
      /\ members' = IF w = "group" THEN After(members, f, copy) ELSE members
      /\ UNCHANGED <<runs, registered, seqs, used>>
  BY DEF CopyFlow, Edits
<1>2. copy \in Flows /\ copy \notin ToSet(main) /\ copy \notin ToSet(members)
  BY <1>1, UnusedFlow
<1>3. to \in Seq(Line) /\ Len(to) <= MaxLines /\ \A from : NoneStarted(to, from)
  <2>1. lines[f] \in Seq(Line) /\ Len(lines[f]) <= MaxLines
    BY LinesOf
  <2>2. QED
    BY <2>1, IdleLines DEF Cloned
<1> HIDE DEF copy, to
<1>4. FlowList(main) /\ FlowList(members) /\ ToSet(main) \cap ToSet(members) = {}
  BY ListsAre DEF Kept
<1>5. ListsKept'
  <2>1. CASE w = "main"
    <3>1. FlowList(main') /\ ToSet(main') \subseteq ToSet(main) \cup {copy} /\ members' = members
      BY <1>1, <1>2, <1>4, <2>1, FlowAfter
    <3>2. ToSet(main') \cap ToSet(members') = {}
      BY <1>2, <1>4, <3>1
    <3>3. QED
      BY <1>4, <3>1, <3>2 DEF ListsKept, FlowList
  <2>2. CASE w = "group"
    <3>1. FlowList(members') /\ ToSet(members') \subseteq ToSet(members) \cup {copy} /\ main' = main
      BY <1>1, <1>2, <1>4, <2>2, FlowAfter
    <3>2. ToSet(main') \cap ToSet(members') = {}
      BY <1>2, <1>4, <3>1
    <3>3. QED
      BY <1>4, <3>1, <3>2 DEF ListsKept, FlowList
  <2>3. QED
    BY <2>1, <2>2 DEF Lists
<1>6. QED
  BY <1>1, <1>2, <1>3, <1>5, FlowWritten

\* A flow that is added is new.
LEMMA AddFlowKept ==
  ASSUME Kept, AddFlow
  PROVE  Kept'
<1> DEFINE new == Min(Unused)
           to == Written(<<"blank">>)
<1>1. /\ Unused # {} /\ lines' = [lines EXCEPT ![new] = to]
      /\ main' = Append(main, new) /\ members' = members
      /\ UNCHANGED <<runs, registered, seqs, used>>
  BY DEF AddFlow, Edits
<1>2. new \in Flows /\ new \notin ToSet(main) /\ new \notin ToSet(members)
  BY <1>1, UnusedFlow
<1>3. to \in Seq(Line) /\ Len(to) <= MaxLines /\ \A from : NoneStarted(to, from)
  BY WrittenLine DEF Kinds
<1> HIDE DEF new, to
<1>4. FlowList(main) /\ FlowList(members) /\ ToSet(main) \cap ToSet(members) = {}
  BY ListsAre DEF Kept
<1>5. FlowList(main') /\ ToSet(main') \subseteq ToSet(main) \cup {new}
  <2> DEFINE n == Len(main)
  <2>1. main \in Seq(Flows) /\ n \in Nat /\ DOMAIN main = 1..n
    BY <1>4 DEF FlowList
  <2> HIDE DEF n
  <2>2. /\ main' \in Seq(Flows) /\ DOMAIN main' = 1..(n + 1)
        /\ (\A i \in 1..n : main'[i] = main[i]) /\ main'[n + 1] = new
    BY <1>1, <1>2, <2>1 DEF n
  <2>3. \A i \in 1..(n + 1) : i \in 1..n \/ i = n + 1
    BY <2>1
  <2>4. \A i \in 1..n : main[i] \in ToSet(main) /\ main[i] # new
    BY <1>2, <2>1 DEF ToSet
  <2>5. ToSet(main') \subseteq ToSet(main) \cup {new}
    BY <2>2, <2>3, <2>4 DEF ToSet
  <2>6. \A i, j \in 1..n : main[i] = main[j] => i = j
    BY <1>4, <2>1 DEF FlowList, IsInjective
  <2>7. \A i, j \in 1..(n + 1) : main'[i] = main'[j] => i = j
    BY <2>2, <2>3, <2>4, <2>6
  <2>8. QED
    BY <2>2, <2>5, <2>7 DEF FlowList, IsInjective
<1>6. ListsKept'
  <2>1. ToSet(main') \cap ToSet(members') = {}
    BY <1>1, <1>2, <1>4, <1>5
  <2>2. QED
    BY <1>1, <1>4, <1>5, <2>1 DEF ListsKept, FlowList
<1>7. QED
  BY <1>1, <1>2, <1>3, <1>6, FlowWritten

\* A list without some flows names the others once.
LEMMA WithoutFlows ==
  ASSUME NEW list, FlowList(list), NEW gone
  PROVE  FlowList(Without(list, gone)) /\ ToSet(Without(list, gone)) \subseteq ToSet(list)
<1> DEFINE kept == {i \in DOMAIN list : list[i] \notin gone}
<1>1. kept \in SUBSET (DOMAIN list)
  OBVIOUS
<1>2. Without(list, gone) = Picked(list, kept)
  BY DEF Without
<1> HIDE DEF kept
<1>3. FlowList(Picked(list, kept)) /\ ToSet(Picked(list, kept)) = {list[i] : i \in kept}
  BY <1>1, PickedFlows
<1>4. {list[i] : i \in kept} \subseteq ToSet(list)
  BY <1>1 DEF ToSet
<1>5. QED
  BY <1>2, <1>3, <1>4

\* An edit of the lists alone.
LEMMA ListsEdited ==
  ASSUME Kept, UNCHANGED <<lines, runs, registered, seqs, used>>,
         FlowList(main'), FlowList(members'),
         ToSet(main') \subseteq ToSet(main), ToSet(members') \subseteq ToSet(members)
  PROVE  Kept'
<1>1. LinesKept /\ Running /\ ToSet(main) \cap ToSet(members) = {}
  BY DEF Kept, ListsKept
<1>2. ListsKept'
  <2>1. ToSet(main') \cap ToSet(members') = {}
    BY <1>1
  <2>2. QED
    BY <2>1 DEF ListsKept, FlowList
<1>3. LinesKept'
  BY <1>1, LinesSame
<1>4. Running'
  BY <1>1, SendersSame
<1>5. QED
  BY <1>2, <1>3, <1>4, EditKept

\* Deleting a flow takes it from the list that has it.
LEMMA DeleteFlowKept ==
  ASSUME Kept, NEW f \in Flows, DeleteFlow(f)
  PROVE  Kept'
<1>1. /\ main' = Without(main, {f}) /\ members' = Without(members, {f})
      /\ UNCHANGED <<lines, runs, registered, seqs, used>>
  BY DEF DeleteFlow, Edits
<1>2. FlowList(main) /\ FlowList(members)
  BY ListsAre DEF Kept
<1>3. QED
  BY <1>1, <1>2, WithoutFlows, ListsEdited

\* Removing members leaves the others.
LEMMA RemoveMembersKept ==
  ASSUME Kept, NEW gone, RemoveMembers(gone)
  PROVE  Kept'
<1>1. /\ main' = main /\ members' = Without(members, gone)
      /\ UNCHANGED <<lines, runs, registered, seqs, used>>
  BY DEF RemoveMembers, Edits
<1>2. FlowList(main) /\ FlowList(members)
  BY ListsAre DEF Kept
<1>3. FlowList(main') /\ ToSet(main') \subseteq ToSet(main)
  BY <1>1, <1>2
<1>4. QED
  BY <1>1, <1>2, <1>3, WithoutFlows, ListsEdited

\* Members that change places stay the same.
LEMMA ReorderMembersKept ==
  ASSUME Kept, NEW i \in Nat \ {0}, ReorderMembers(i)
  PROVE  Kept'
<1>1. /\ main' = main /\ members' = [members EXCEPT ![i] = members[i + 1], ![i + 1] = members[i]]
      /\ i + 1 \in DOMAIN members
      /\ UNCHANGED <<lines, runs, registered, seqs, used>>
  BY DEF ReorderMembers, Edits
<1>2. FlowList(main) /\ FlowList(members)
  BY ListsAre DEF Kept
<1>3. i \in DOMAIN members
  BY <1>1, <1>2 DEF FlowList
<1>4. FlowList(members') /\ ToSet(members') = ToSet(members)
  BY <1>1, <1>2, <1>3, SwappedFlows
<1>5. FlowList(main') /\ ToSet(main') \subseteq ToSet(main)
  BY <1>1, <1>2
<1>6. QED
  BY <1>1, <1>4, <1>5, ListsEdited

\* restoreCommandFavorite
LEMMA RestoreFavoriteKept ==
  ASSUME Kept, NEW kind \in Kinds, RestoreFavorite(<<kind>>)
  PROVE  Kept'
<1> DEFINE new == Min(Unused \ ToSet(main))
           to == Written(<<kind>>)
           held == IF seqs["main"].on /\ seqs["main"].list = <<>> /\ ~seqs["main"].parallel
                   THEN main ELSE seqs["main"].list
           seq == [seqs["main"] EXCEPT !.list = held]
<1>1. /\ Unused # {} /\ main' = <<new>> /\ lines' = [lines EXCEPT ![new] = to]
      /\ members' = members /\ runs' = runs /\ registered' = registered /\ used' = used
      /\ seqs' = [seqs EXCEPT !["main"].list =
            IF seqs["main"].on /\ @ = <<>> /\ ~seqs["main"].parallel THEN main ELSE @]
  BY DEF RestoreFavorite
<1>2. ListsKept /\ LinesKept /\ RunsKept /\ Running /\ SeqsKept /\ BatchStopsAtFailure
  BY DEF Kept
<1>3. new \in Flows /\ new \notin ToSet(members)
  <2>1. Unused \ ToSet(main) = Unused
    BY DEF Unused, InLists
  <2>2. QED
    BY <1>1, <2>1, UnusedFlow
<1>4. to \in Seq(Line) /\ Len(to) <= MaxLines /\ \A from : NoneStarted(to, from)
  BY WrittenLine
<1> HIDE DEF new, to
<1>5. ListsKept'
  <2>1. FlowList(<<new>>) /\ ToSet(<<new>>) = {new}
    BY <1>3 DEF FlowList, IsInjective, ToSet
  <2>2. FlowList(members)
    BY <1>2, ListsAre
  <2>3. QED
    BY <1>1, <1>3, <2>1, <2>2 DEF ListsKept, FlowList
<1>6. LinesKept' /\ Running'
  BY <1>1, <1>2, <1>3, <1>4, FlowAltered
<1>7. RunsKept' /\ BatchStopsAtFailure'
  BY <1>1, <1>2, RunsSame DEF BatchStopsAtFailure
<1>8. seqs \in [Lists -> Sequence] /\ "main" \in Lists /\ \A w \in Lists : BatchOf(w)
  BY <1>2 DEF SeqsKept, Lists
<1>9. held \in Seq(Flows)
  BY <1>2, <1>8 DEF ListsKept, Sequence
<1>10. seqs' = [seqs EXCEPT !["main"] = seq]
  BY <1>1, <1>8
<1> HIDE DEF held
<1>11. /\ seq \in Sequence /\ seq.on = seqs["main"].on /\ seq.parallel = seqs["main"].parallel
       /\ seq.batch = seqs["main"].batch /\ seq.awaits = seqs["main"].awaits /\ seq.ok = seqs["main"].ok
  BY <1>8, <1>9 DEF Sequence
<1> HIDE DEF seq
<1>12. /\ seqs' \in [Lists -> Sequence]
       /\ \A w \in Lists : /\ seqs'[w].on = seqs[w].on /\ seqs'[w].parallel = seqs[w].parallel
                           /\ seqs'[w].batch = seqs[w].batch /\ seqs'[w].awaits = seqs[w].awaits
                           /\ seqs'[w].ok = seqs[w].ok
  BY <1>8, <1>10, <1>11
<1>13. ASSUME NEW w \in Lists PROVE BatchOf(w)'
  <2>1. BatchOf(w)
    BY <1>8
  <2>2. \A v \in Lists : Batched(v)' <=> Batched(v)
    BY <1>12 DEF Batched
  <2>3. QED
    BY <1>1, <1>12, <2>1, <2>2 DEF BatchOf
<1>14. QED
  BY <1>5, <1>6, <1>7, <1>12, <1>13 DEF Kept, SeqsKept

(***************************************************************************)
(* The page, from its start.                                               *)
(***************************************************************************)
\* A reload ends the runs as paused and makes the lines idle.
LEMMA ReloadKept ==
  ASSUME Kept, Reload
  PROVE  Kept'
<1>1. ListsKept /\ LinesKept /\ RunsKept /\ Running /\ SeqsKept /\ BatchStopsAtFailure
  BY DEF Kept
<1>2. /\ runs' = [r \in Runs |-> IF Live(r) THEN Logged(runs[r], "paused") ELSE runs[r]]
      /\ registered' = [f \in Flows |-> NoRun] /\ seqs' = [w \in Lists |-> NoSeq]
      /\ lines' = [f \in Flows |-> Idle(lines[f])]
      /\ main' = main /\ members' = members /\ used' = used
  BY DEF Reload
<1>3. ListsKept'
  BY <1>1, <1>2, ListsSame
<1>4. \A f \in Flows : /\ lines'[f] \in Seq(Line) /\ Len(lines'[f]) <= MaxLines
                       /\ \A i \in DOMAIN lines'[f] : lines'[f][i].status # "running"
  <2> TAKE f \in Flows
  <2>1. lines[f] \in Seq(Line) /\ Len(lines[f]) <= MaxLines
    BY LinesOf
  <2>2. /\ Idle(lines[f]) \in Seq(Line) /\ Len(Idle(lines[f])) = Len(lines[f])
        /\ NoneStarted(Idle(lines[f]), <<>>)
    BY <2>1, IdleLines
  <2>3. lines'[f] = Idle(lines[f])
    BY <1>2
  <2>4. \A i \in DOMAIN lines'[f] : lines'[f][i].status # "running"
    BY <2>2, <2>3 DEF NoneStarted
  <2>5. QED
    BY <2>1, <2>2, <2>3, <2>4
<1>5. lines' \in [Flows -> Seq(Line)]
  <2>1. lines' = [f \in Flows |-> lines'[f]]
    BY <1>2
  <2>2. QED
    BY <1>4, <2>1
<1>6. LinesKept' /\ Running'
  BY <1>4, <1>5 DEF LinesKept, Running, RunningLineIsBeingRun
<1>7. runs \in [Runs -> Run] /\ used \in 0..MaxRuns /\ \A r \in Runs : RunOf(r)
  BY <1>1 DEF RunsKept
<1>8. ASSUME NEW r \in Runs
      PROVE  /\ runs'[r] \in Run /\ runs'[r].batch = runs[r].batch
             /\ ~ Live(r)'
             /\ ~ Live(r) => runs'[r] = runs[r]
             /\ Live(r) => runs'[r].result = "paused" /\ runs'[r].line = 0
  <2>1. CASE ~ Live(r)
    <3>1. runs'[r] = runs[r]
      BY <1>2, <2>1
    <3>2. QED
      BY <1>7, <2>1, <3>1 DEF Live
  <2>2. CASE Live(r)
    <3>1. runs'[r] = Logged(runs[r], "paused")
      BY <1>2, <2>2
    <3> DEFINE a == [NotRun EXCEPT !.batch = runs[r].batch]
               b == [a EXCEPT !.failed = runs[r].failed]
               c == [b EXCEPT !.stage = "over"]
    <3>2. NotRun \in Run /\ NotRun.line = 0
      BY Bounds DEF NotRun, Run, Flows
    <3>3. runs[r].batch \in Runs \cup {NoRun} /\ runs[r].failed \in BOOLEAN
      BY <1>7 DEF Run
    <3>4. a \in Run /\ a.line = 0 /\ a.batch = runs[r].batch
      BY <3>2, <3>3 DEF Run
    <3> HIDE DEF a
    <3>5. b \in Run /\ b.line = 0 /\ b.batch = runs[r].batch
      BY <3>3, <3>4 DEF Run
    <3> HIDE DEF b
    <3>6. c \in Run /\ c.line = 0 /\ c.batch = runs[r].batch /\ c.stage = "over"
      BY <3>5 DEF Run
    <3>7. runs'[r] = [c EXCEPT !.result = "paused"]
      BY <3>1 DEF Logged, a, b, c
    <3> HIDE DEF c
    <3>8. /\ runs'[r] \in Run /\ runs'[r].line = 0 /\ runs'[r].batch = runs[r].batch
          /\ runs'[r].stage = "over" /\ runs'[r].result = "paused"
      BY <3>6, <3>7 DEF Run
    <3>9. QED
      BY <2>2, <3>8 DEF Live
  <2>3. QED
    BY <2>1, <2>2
<1>9. ASSUME NEW r \in Runs PROVE RunOf(r)'
  <2>1. RunOf(r)
    BY <1>7
  <2>2. r > used => runs'[r] = NotRun
    BY <1>8, <2>1 DEF RunOf, Live, NotRun
  <2>3. runs'[r].line = 0 /\ (runs'[r].result = "success" => ~runs'[r].failed) /\ runs'[r].batch <= used
    BY <1>8, <2>1 DEF RunOf
  <2>4. \A f \in Flows : registered'[f] # r
    BY <1>2 DEF Runs, NoRun
  <2>5. QED
    BY <1>2, <1>8, <2>2, <2>3, <2>4 DEF RunOf
<1>10. RunsKept'
  <2>1. registered' \in [Flows -> Runs \cup {NoRun}]
    BY <1>2
  <2>2. runs' \in [Runs -> Run]
    <3>1. runs' = [r \in Runs |-> runs'[r]]
      BY <1>2
    <3>2. QED
      BY <1>8, <3>1
  <2>3. QED
    BY <1>2, <1>7, <1>9, <2>1, <2>2 DEF RunsKept
<1>11. BatchStopsAtFailure'
  <2> SUFFICES ASSUME NEW r \in Runs, NEW s \in Runs, r < s, runs'[r].batch # NoRun,
                      runs'[s].batch = runs'[r].batch
               PROVE  runs'[r].result = "success"
    BY DEF BatchStopsAtFailure
  <2>1. runs[r].result = "success"
    BY <1>1, <1>8 DEF BatchStopsAtFailure
  <2>2. RunOf(r)
    BY <1>7
  <2>3. ~ Live(r)
    BY <2>1, <2>2 DEF RunOf
  <2>4. QED
    BY <1>8, <2>1, <2>3
<1>12. SeqsKept'
  <2>1. NoSeq \in Sequence /\ ~NoSeq.on
    BY DEF NoSeq, Sequence, NoRun
  <2>2. QED
    BY <1>2, <2>1 DEF SeqsKept, BatchOf, Batched
<1>13. QED
  BY <1>3, <1>6, <1>10, <1>11, <1>12 DEF Kept

\* The page starts with three flows and no run.
LEMMA KeptInit == Init => Kept
<1> SUFFICES ASSUME Init PROVE Kept
  OBVIOUS
<1>1. /\ main = <<1>> /\ members = <<2, 3>>
      /\ runs = [r \in Runs |-> NotRun] /\ registered = [f \in Flows |-> NoRun]
      /\ seqs = [w \in Lists |-> NoSeq] /\ used = 0
  BY DEF Init
<1>2. ListsKept
  <2>1. 1 \in Flows /\ 2 \in Flows /\ 3 \in Flows
    BY Bounds DEF Flows
  <2>2. main \in Seq(Flows) /\ DOMAIN main = {1} /\ main[1] = 1
    BY <1>1, <2>1
  <2>3. members \in Seq(Flows) /\ DOMAIN members = {1, 2} /\ members[1] = 2 /\ members[2] = 3
    BY <1>1, <2>1
  <2>4. ToSet(main) = {1} /\ IsInjective(main)
    BY <2>2 DEF ToSet, IsInjective
  <2>5. ToSet(members) = {2, 3} /\ IsInjective(members)
    BY <2>3 DEF ToSet, IsInjective
  <2>6. QED
    BY <2>2, <2>3, <2>4, <2>5 DEF ListsKept
<1>3. ASSUME NEW f \in Flows
      PROVE  /\ lines[f] \in Seq(Line) /\ Len(lines[f]) <= MaxLines
             /\ \A i \in DOMAIN lines[f] : lines[f][i].status # "running"
  <2>1. \/ lines[f] = Written(<<"command", "upload">>)
        \/ \E kind \in Kinds : lines[f] = Written(<<kind>>)
    BY DEF Init, Kinds
  <2>2. CASE lines[f] = Written(<<"command", "upload">>)
    <3> DEFINE a == [id |-> 1, kind |-> "command", status |-> "idle"]
               b == [id |-> 2, kind |-> "upload", status |-> "idle"]
    <3>1. a \in Line /\ b \in Line /\ a.status = "idle" /\ b.status = "idle"
      BY Bounds DEF Line, LineIds, Kinds, Statuses
    <3>2. lines[f] = <<a, b>>
      BY <2>2 DEF Written
    <3> HIDE DEF a, b
    <3>3. QED
      BY <3>1, <3>2, Bounds
  <2>3. CASE \E kind \in Kinds : lines[f] = Written(<<kind>>)
    <3>1. PICK kind \in Kinds : lines[f] = Written(<<kind>>)
      BY <2>3
    <3>2. /\ lines[f] \in Seq(Line) /\ Len(lines[f]) <= MaxLines
          /\ NoneStarted(lines[f], <<>>)
      BY <3>1, WrittenLine
    <3>3. QED
      BY <3>2 DEF NoneStarted
  <2>4. QED
    BY <2>1, <2>2, <2>3
<1>4. LinesKept /\ Running
  <2>1. lines = [f \in Flows |-> lines[f]]
    BY DEF Init
  <2>2. lines \in [Flows -> Seq(Line)]
    BY <1>3, <2>1
  <2>3. QED
    BY <1>3, <2>2 DEF LinesKept, Running, RunningLineIsBeingRun
<1>5. RunsKept /\ BatchStopsAtFailure
  <2>1. NotRun \in Run /\ NotRun.line = 0 /\ NotRun.batch = NoRun /\ NotRun.result = "none" /\ NotRun.stage = "none"
    BY Bounds DEF NotRun, Run, Flows
  <2>2. runs \in [Runs -> Run] /\ \A r \in Runs : runs[r] = NotRun
    BY <1>1, <2>1
  <2>3. registered \in [Flows -> Runs \cup {NoRun}] /\ \A f \in Flows : registered[f] = NoRun
    BY <1>1
  <2>4. used \in 0..MaxRuns
    BY <1>1, Bounds
  <2>5. ASSUME NEW r \in Runs PROVE RunOf(r)
    <3>1. ~ Live(r) /\ r # NoRun
      BY <2>1, <2>2 DEF Live, Runs, NoRun
    <3>2. NoRun <= used
      BY <1>1 DEF NoRun
    <3>3. QED
      BY <2>1, <2>2, <2>3, <3>1, <3>2 DEF RunOf
  <2>6. BatchStopsAtFailure
    BY <2>1, <2>2 DEF BatchStopsAtFailure
  <2>7. QED
    BY <2>2, <2>3, <2>4, <2>5, <2>6 DEF RunsKept
<1>6. SeqsKept
  <2>1. NoSeq \in Sequence /\ ~NoSeq.on
    BY DEF NoSeq, Sequence, NoRun
  <2>2. QED
    BY <1>1, <2>1 DEF SeqsKept, BatchOf, Batched
<1>7. QED
  BY <1>2, <1>4, <1>5, <1>6 DEF Kept

\* Every click keeps everything.
LEMMA ClicksKept ==
  ASSUME Kept, ~Due, Clicks
  PROVE  Kept'
<1>1. ASSUME NEW f \in Flows, RunHere(f) PROVE Kept'
  <2>1. \E i : RunFromLine(f, i)
    BY <1>1 DEF RunHere
  <2>2. QED
    BY <2>1, RunFromLineKept
<1>2. ASSUME NEW f \in Flows, NEW i \in 1..2, RunFromLine(f, i) PROVE Kept'
  BY <1>2, RunFromLineKept
<1>3. ASSUME NEW w \in Lists, NEW parallel \in BOOLEAN, RunList(w, parallel) PROVE Kept'
  BY <1>3, RunListKept
<1>4. ASSUME NEW f \in Flows, NEW i \in 1..2, NEW kind \in Kinds, EditLine(f, i, kind) PROVE Kept'
  BY <1>4, EditLineKept
<1>5. ASSUME NEW f \in Flows, NEW i \in 1..2, RemoveLine(f, i) PROVE Kept'
  BY <1>5, RemoveLineKept
<1>6. ASSUME NEW f \in Flows, MoveLine(f, 1) \/ AddLine(f) \/ ImportLines(f) \/ BindServer(f) PROVE Kept'
  <2>1. 1 \in Nat \ {0}
    OBVIOUS
  <2>2. QED
    BY <1>6, <2>1, MoveLineKept, AddLineKept, ImportLinesKept, BindServerKept
<1>7. ASSUME NEW f \in Flows, NEW w \in Lists, CopyFlow(f, w) PROVE Kept'
  BY <1>7, CopyFlowKept
<1>8. ASSUME NEW f \in Flows, DeleteFlow(f) \/ RemoveMembers({f}) PROVE Kept'
  BY <1>8, DeleteFlowKept, RemoveMembersKept
<1>9. ASSUME ReorderMembers(1) PROVE Kept'
  <2>1. 1 \in Nat \ {0}
    OBVIOUS
  <2>2. QED
    BY <1>9, <2>1, ReorderMembersKept
<1>10. ASSUME RestoreFavorite(<<"command">>) PROVE Kept'
  <2>1. "command" \in Kinds
    BY DEF Kinds
  <2>2. QED
    BY <1>10, <2>1, RestoreFavoriteKept
<1>11. CASE Pause
  BY <1>11, PauseKept
<1>12. CASE ReplaceGroupFile
  BY <1>12, ReplaceGroupFileKept
<1>13. CASE RemoveMembers(ToSet(members))
  BY <1>13, RemoveMembersKept
<1>14. CASE AddFlow
  BY <1>14, AddFlowKept
<1>15. CASE Reload
  BY <1>15, ReloadKept
<1>16. QED
  BY <1>1, <1>2, <1>3, <1>4, <1>5, <1>6, <1>7, <1>8, <1>9, <1>10, <1>11, <1>12, <1>13, <1>14, <1>15
     DEF Clicks

\* Every step keeps everything.
LEMMA KeptStep == Kept /\ [Next]_vars => Kept'
<1>1. ASSUME Kept, GoOn PROVE Kept'
  BY <1>1, ContinueKept, UploadAbortedKept, SeqNextKept DEF GoOn
<1>2. ASSUME Kept, NEW r \in Runs, Answer(r) PROVE Kept'
  BY <1>2, SendLineKept, UploadAnswersKept, CommandAnswersKept DEF Answer
<1>3. ASSUME Kept, UNCHANGED vars PROVE Kept'
  <2>1. ListsKept /\ LinesKept /\ Running
    BY <1>3 DEF Kept
  <2>2. /\ UNCHANGED <<runs, registered, seqs, used>>
        /\ lines' = lines /\ main' = main /\ members' = members
    BY <1>3 DEF vars
  <2>3. ListsKept' /\ LinesKept' /\ Running'
    BY <2>1, <2>2, ListsSame, LinesSame, SendersSame
  <2>4. QED
    BY <1>3, <2>2, <2>3, EditKept
<1>4. QED
  BY <1>1, <1>2, <1>3, ClicksKept DEF Next

-----------------------------------------------------------------------------
\* The registry names the one live run of each flow, a sequence that goes on well has
\* nothing but successes behind it, and what is shown as running is being run
\* (runCommandFlow, runAllCommandFlows, runCommandGroup, and the editor under them).
THEOREM KeptAlways == Spec => []Kept
  BY KeptInit, KeptStep, PTL DEF Spec

\* However a flow is started, it never has two runs that could both send its lines, and
\* a line that is shown as running is what a live run of its flow has sent.
THEOREM RunsAlwaysExclusive == Spec => []RunsAreExclusive
<1>1. Kept => RunsAreExclusive
  <2> SUFFICES ASSUME Kept PROVE RunsAreExclusive
    OBVIOUS
  <2>1. ListsKept /\ LinesKept /\ RunsKept /\ Running
    BY DEF Kept
  <2>2. OneRunPerFlow
    <3> SUFFICES ASSUME NEW r \in Runs, NEW s \in Runs, Live(r), Live(s), runs[r].flow = runs[s].flow
                 PROVE  r = s
      BY DEF OneRunPerFlow
    <3>1. runs[r].flow \in Flows
      BY <2>1 DEF RunsKept, Run
    <3>2. RunOf(r) /\ RunOf(s)
      BY <2>1 DEF RunsKept
    <3>3. registered[runs[r].flow] = r /\ registered[runs[r].flow] = s
      BY <3>1, <3>2 DEF RunOf
    <3>4. QED
      BY <3>3
  <2>3. IsInjective(main \o members)
    <3> DEFINE m == Len(main)
               n == Len(members)
               all == main \o members
    <3>1. /\ main \in Seq(Flows) /\ members \in Seq(Flows) /\ m \in Nat /\ n \in Nat
          /\ DOMAIN main = 1..m /\ DOMAIN members = 1..n
      BY <2>1 DEF ListsKept
    <3> HIDE DEF m, n
    <3>2. /\ DOMAIN all = 1..(m + n)
          /\ \A i \in 1..(m + n) : all[i] = IF i <= m THEN main[i] ELSE members[i - m]
      BY <3>1 DEF m, n
    <3> HIDE DEF all
    <3>3. \A i \in 1..(m + n) : \/ i \in 1..m /\ all[i] = main[i]
                                \/ i > m /\ i - m \in 1..n /\ all[i] = members[i - m]
      BY <3>1, <3>2
    <3>4. /\ \A i, j \in 1..m : main[i] = main[j] => i = j
          /\ \A i, j \in 1..n : members[i] = members[j] => i = j
          /\ \A i \in 1..m, j \in 1..n : main[i] # members[j]
      BY <2>1, <3>1 DEF ListsKept, IsInjective, ToSet
    <3>5. ASSUME NEW i \in 1..(m + n), NEW j \in 1..(m + n), all[i] = all[j] PROVE i = j
      <4>1. CASE i \in 1..m /\ all[i] = main[i]
        <5>1. CASE j \in 1..m /\ all[j] = main[j]
          BY <3>4, <3>5, <4>1, <5>1
        <5>2. CASE j - m \in 1..n /\ all[j] = members[j - m]
          BY <3>4, <3>5, <4>1, <5>2
        <5>3. QED
          BY <3>3, <5>1, <5>2
      <4>2. CASE i > m /\ i - m \in 1..n /\ all[i] = members[i - m]
        <5>1. j > m /\ j - m \in 1..n /\ all[j] = members[j - m]
          <6>1. ~(j \in 1..m /\ all[j] = main[j])
            BY <3>4, <3>5, <4>2
          <6>2. QED
            BY <3>3, <6>1
        <5>2. i - m = j - m
          BY <3>4, <3>5, <4>2, <5>1
        <5>3. QED
          BY <3>1, <5>2
      <4>3. QED
        BY <3>3, <4>1, <4>2
    <3>6. QED
      BY <3>2, <3>5 DEF IsInjective, all
  <2>4. TypeOK
    BY <2>1, <2>3 DEF TypeOK, ListsKept, LinesKept, RunsKept
  <2>5. QED
    BY <2>1, <2>2, <2>4 DEF RunsAreExclusive, Running
<1>2. QED
  BY <1>1, KeptAlways, PTL

\* A run whose log says success has had no line that failed or was cut off.
THEOREM SuccessAlwaysWhole == Spec => []SuccessIsWhole
<1>1. Kept => SuccessIsWhole
  BY DEF Kept, RunsKept, RunOf, SuccessIsWhole
<1>2. QED
  BY <1>1, KeptAlways, PTL

\* In order, the first failure or pause stops the rest.
THEOREM BatchAlwaysStopsAtFailure == Spec => []BatchStopsAtFailure
<1>1. Kept => BatchStopsAtFailure
  BY DEF Kept
<1>2. QED
  BY <1>1, KeptAlways, PTL
=============================================================================
