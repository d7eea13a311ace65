------------------------- MODULE RunnerCycleProofs --------------------------
(***************************************************************************)
(* The hits of a day: what main counts agrees with what the workers wrote, *)
(* and both stay within the cap of the runner.  The failures: what main    *)
(* counts, and what a restart reads from the logs, is never more than the  *)
(* misses since the last success, so that every quarantine is earned.      *)
(* For every number of phones, products, keywords, midnights and restarts. *)
(***************************************************************************)
EXTENDS RunnerCycle, SumTheorems, SequenceTheorems

\* Hits of every keyword of every product.
IsTable(f) == /\ f = [m \in Product |-> f[m]]
              /\ \A m \in Product : f[m] \in [Text(m) -> Nat]

\* A product is given to one phone only.
Distinct(ts) == \A d, e \in Phone : ts[d] # NoTask /\ ts[d].mid = ts[e].mid => d = e

Shape ==
    /\ pc \in {"off", "between", "run"}
    /\ stale \in BOOLEAN
    /\ kills \in Nat /\ lost \in [Product -> Nat]
    /\ IsTable(kwHits) /\ IsTable(file)
    /\ task \in [Phone -> Task]
    /\ orphan \in [1 .. MaxKills -> [Phone -> Task]]
    /\ pc # "run" => \A d \in Phone : task[d] = NoTask
    /\ pc = "off" => ~ stale
    /\ Distinct(task)
    /\ \A n \in 1 .. MaxKills : Distinct(orphan[n])
    /\ \A n \in 1 .. MaxKills : n > kills => \A d \in Phone : orphan[n][d] = NoTask

\* Mains whose worker for m goes on, and the one main waits for.
Pending(m) == {n \in 1 .. MaxKills : \E d \in Phone : orphan[n][d].mid = m}
Has(m, end) == \E d \in Phone : task[d].mid = m /\ task[d].end = end
One(b) == IF b THEN 1 ELSE 0

\* A hit that main does not count, or a worker it does not wait for, is of a main
\* that was stopped, one of each, or its result was lost; what is counted and
\* under way is within the cap.
OfProduct(m) ==
    /\ Hits(file, m) + Cardinality(Pending(m)) + One(Has(m, "run")) <= HitCap + kills + lost[m]
    /\ pc # "off" /\ ~ stale =>
          /\ Hits(file, m) + Cardinality(Pending(m)) <=
                Hits(kwHits, m) + One(Has(m, "SUCCESS")) + kills + lost[m]
          /\ Hits(kwHits, m) + One(Has(m, "SUCCESS")) <= Hits(file, m)

CycleInv == Shape /\ \A m \in Product : OfProduct(m)

-----------------------------------------------------------------------------

LEMMA KeywordsAre ==
  \A m \in Product : IsFiniteSet(Keyword(m)) /\ Keyword(m) \subseteq Nat /\ 0 \notin Keyword(m) /\ 1 \in Keyword(m)
<1> SUFFICES ASSUME NEW m \in Product
             PROVE  IsFiniteSet(Keyword(m)) /\ Keyword(m) \subseteq Nat /\ 0 \notin Keyword(m) /\ 1 \in Keyword(m)
  OBVIOUS
<1>1. Keywords[m] \in Nat \ {0}
  BY CycleAssumption
<1>2. IsFiniteSet(1 .. Keywords[m])
  BY <1>1, FS_Interval
<1>3. QED
  BY <1>1, <1>2 DEF Keyword

LEMMA TextsAre ==
  \A m \in Product : IsFiniteSet(Text(m)) /\ Text(m) \subseteq Nat /\ Keyword(m) \subseteq Text(m)
<1> SUFFICES ASSUME NEW m \in Product
             PROVE  IsFiniteSet(Text(m)) /\ Text(m) \subseteq Nat /\ Keyword(m) \subseteq Text(m)
  OBVIOUS
<1>1. Keywords[m] \in Nat \ {0}
  BY CycleAssumption
<1>2. IsFiniteSet(0 .. Keywords[m])
  BY <1>1, FS_Interval
<1>3. QED
  BY <1>1, <1>2 DEF Keyword, Text

LEMMA TaskFields ==
  ASSUME NEW t \in Task
  PROVE  /\ t = [mid |-> t.mid, kw |-> t.kw, end |-> t.end]
         /\ \/ t = NoTask
            \/ /\ t.mid \in Product /\ t.kw \in Keyword(t.mid)
               /\ t.end \in Outcome \cup {"run"}
BY DEF Task, NoTask

LEMMA NoTaskIs == NoTask.mid = 0 /\ NoTask.end = "none" /\ 0 \notin Product
BY DEF NoTask, Product

LEMMA HitsType ==
  ASSUME NEW f, IsTable(f), NEW m \in Product
  PROVE  Hits(f, m) \in Nat
<1>1. f[m] \in [Text(m) -> Nat]
  BY DEF IsTable
<1>2. SumFunctionOnSet(f[m], Text(m)) \in Nat
  BY <1>1, TextsAre, SumType
<1>3. QED
  BY <1>1, <1>2 DEF Hits, SumFunction

LEMMA NoHitsAre == IsTable(NoHits) /\ \A m \in Product : Hits(NoHits, m) = 0
<1>1. IsTable(NoHits)
  BY DEF IsTable, NoHits
<1>2. ASSUME NEW m \in Product PROVE Hits(NoHits, m) = 0
  <2>1. NoHits[m] = [k \in Text(m) |-> 0]
    BY DEF NoHits
  <2>2. SumFunctionOnSet(NoHits[m], Text(m)) = Cardinality(Text(m)) * 0
    BY <2>1, TextsAre, SumOfEqual
  <2>3. Cardinality(Text(m)) \in Nat
    BY TextsAre, FS_CardinalityType
  <2>4. QED
    BY <2>1, <2>2, <2>3 DEF Hits, SumFunction
<1>3. QED
  BY <1>1, <1>2

\* What grows by one at one keyword grows by one in all.
LEMMA HitsGrow ==
  ASSUME NEW f, NEW g, IsTable(f), NEW m \in Product, NEW k \in Text(m),
         g[m] \in [Text(m) -> Nat],
         \A j \in Text(m) : g[m][j] = IF j = k THEN f[m][j] + 1 ELSE f[m][j]
  PROVE  Hits(g, m) = Hits(f, m) + 1
<1>1. f[m] \in [Text(m) -> Nat]
  BY DEF IsTable
<1>2. \A j \in Text(m) : f[m][j] \in Int
  BY <1>1
<1>3. SumFunctionOnSet(g[m], Text(m)) = SumFunctionOnSet(f[m], Text(m)) + 1
  <2> DEFINE F == f[m]
             G == g[m]
             S == Text(m)
  <2>1. /\ IsFiniteSet(S) /\ k \in S /\ 1 \in Int /\ \A s \in S : F[s] \in Int
        /\ \A s \in S : G[s] = IF s = k THEN F[s] + 1 ELSE F[s]
    BY <1>2, TextsAre
  <2> HIDE DEF F, G, S
  <2>2. SumFunctionOnSet(G, S) = SumFunctionOnSet(F, S) + (IF k \in S THEN 1 ELSE 0)
    BY <2>1, SumOfOneMore
  <2>3. QED
    BY <2>1, <2>2 DEF F, G, S
<1>4. QED
  BY <1>1, <1>3 DEF Hits, SumFunction

LEMMA PendingIs ==
  ASSUME Shape, NEW m \in Product
  PROVE  /\ IsFiniteSet(Pending(m)) /\ Cardinality(Pending(m)) \in Nat
         /\ Cardinality(Pending(m)) <= kills
         /\ \A n \in Pending(m) : n <= kills
<1> kills \in Nat /\ MaxKills \in Nat
  BY CycleAssumption DEF Shape
<1>1. \A n \in Pending(m) : n \in 1 .. MaxKills /\ n <= kills
  BY NoTaskIs DEF Pending, Shape
<1>2. Pending(m) \subseteq 1 .. kills
  BY <1>1 DEF Shape
<1>3. IsFiniteSet(1 .. kills) /\ Cardinality(1 .. kills) = kills
  BY FS_Interval DEF Shape
<1>4. QED
  BY <1>1, <1>2, <1>3, FS_Subset, FS_CardinalityType

-----------------------------------------------------------------------------

\* The least number of a set.
LEMMA LeastIs ==
  ASSUME NEW S \in SUBSET Nat, S # {}
  PROVE  Min(S) \in S
<1>1. \E x \in S : \A y \in S : x <= y
  BY LeastNumber
<1>2. QED
  BY <1>1 DEF Min

\* A worker searches for texts the counts are kept under.
LEMMA SearchedIs ==
  ASSUME NEW t, t.mid \in Product, t.kw \in Keyword(t.mid)
  PROVE  Searched(t) \subseteq Text(t.mid)
<1> DEFINE other == Keyword(t.mid) \ {First(t)}
<1>1. First(t) \in Text(t.mid)
  BY CycleAssumption DEF First
<1>2. other \in SUBSET Nat /\ other \subseteq Text(t.mid)
  BY KeywordsAre, TextsAre
<1>3. Searched(t) = {First(t)} \cup (IF other = {} THEN {} ELSE {Min(other)})
  BY DEF Searched
<1> HIDE DEF other
<1>4. other # {} => Min(other) \in other
  BY <1>2, LeastIs
<1>5. QED
  BY <1>1, <1>2, <1>3, <1>4

\* What the end of a worker adds to the history.
LEMMA EndsAdds ==
  ASSUME IsTable(file), NEW t \in Task, NEW out \in Outcome, Ends(t, out), NEW m \in Product
  PROVE  /\ t.mid \in Product /\ t.end = "run"
         /\ IsTable(file')
         /\ Hits(file', m) = Hits(file, m) + One(out = "SUCCESS" /\ t.mid = m)
<1>1. t.end = "run" /\ t.mid \in Product /\ t.kw \in Keyword(t.mid)
  BY TaskFields, NoTaskIs DEF Ends
<1>2. CASE out # "SUCCESS"
  BY <1>1, <1>2, HitsType DEF Ends, One
<1>3. CASE out = "SUCCESS"
  <2>1. PICK k \in Searched(t) : file' = [file EXCEPT ![t.mid][k] = @ + 1]
    BY <1>3 DEF Ends
  <2>2. k \in Text(t.mid)
    BY <1>1, SearchedIs
  <2>3. \A p \in Product : file[p] \in [Text(p) -> Nat]
    BY DEF IsTable
  <2>4. \A p \in Product : file'[p] = IF p = t.mid THEN [file[p] EXCEPT ![k] = @ + 1] ELSE file[p]
    BY <1>1, <2>1 DEF IsTable
  <2>5. file' = [p \in Product |-> file'[p]]
    BY <1>1, <2>1 DEF IsTable
  <2>6. \A p \in Product : file'[p] \in [Text(p) -> Nat]
    <3>1. SUFFICES ASSUME NEW p \in Product PROVE file'[p] \in [Text(p) -> Nat]
      OBVIOUS
    <3> DEFINE F == file[p]
    <3>2. F \in [Text(p) -> Nat] /\ (p = t.mid => k \in Text(p))
      BY <2>2, <2>3
    <3>3. file'[p] = IF p = t.mid THEN [F EXCEPT ![k] = @ + 1] ELSE F
      BY <2>4
    <3> HIDE DEF F
    <3>4. QED
      BY <3>2, <3>3
  <2>7. IsTable(file')
    BY <2>5, <2>6 DEF IsTable
  <2>8. CASE m = t.mid
    <3>1. \A j \in Text(m) : file'[m][j] = IF j = k THEN file[m][j] + 1 ELSE file[m][j]
      BY <2>2, <2>3, <2>4, <2>8
    <3>2. k \in Text(m) /\ file'[m] \in [Text(m) -> Nat]
      BY <2>2, <2>6, <2>8
    <3>3. Hits(file', m) = Hits(file, m) + 1
      BY <3>1, <3>2, HitsGrow
    <3>4. QED
      BY <1>1, <1>3, <2>7, <2>8, <3>3 DEF One
  <2>9. CASE m # t.mid
    <3>1. Hits(file', m) = Hits(file, m)
      BY <2>4, <2>9 DEF Hits
    <3>2. QED
      BY <1>1, <1>3, <2>7, <2>9, <3>1, HitsType DEF One
  <2>10. QED
    BY <2>8, <2>9
<1>4. QED
  BY <1>2, <1>3

LEMMA WorkerEndsKeeps ==
  ASSUME CycleInv, NEW d \in Phone, WorkerEnds(d)
  PROVE  CycleInv'
<1>1. PICK out \in Outcome : Ends(task[d], out) /\ task' = [task EXCEPT ![d].end = out]
  BY DEF WorkerEnds
<1>2. UNCHANGED <<pc, kwHits, orphan, stale, lost, kills>>
  BY DEF WorkerEnds, memVars
<1>3. task \in [Phone -> Task] /\ IsTable(file) /\ Distinct(task) /\ Shape
  BY DEF CycleInv, Shape
<1>4. /\ task[d].end = "run" /\ task[d].mid \in Product /\ task[d].kw \in Keyword(task[d].mid)
      /\ task[d] = [mid |-> task[d].mid, kw |-> task[d].kw, end |-> "run"]
  BY <1>1, <1>3, TaskFields, NoTaskIs DEF Ends
<1>5. task'[d] = [mid |-> task[d].mid, kw |-> task[d].kw, end |-> out]
  BY <1>1, <1>3, <1>4
<1>6. \A e \in Phone : e # d => task'[e] = task[e]
  BY <1>1, <1>3
<1>7. task'[d] \in Task /\ task'[d] # NoTask /\ task[d] # NoTask
  BY <1>4, <1>5, NoTaskIs DEF Task
<1>8. task' \in [Phone -> Task]
  BY <1>1, <1>3, <1>6, <1>7
<1>9. Distinct(task')
  BY <1>3, <1>5, <1>6, <1>7 DEF Distinct
<1>10. pc = "run"
  BY <1>3, <1>7 DEF Shape
<1>11. IsTable(file')
  BY <1>1, <1>3, <1>4, EndsAdds
<1>12. Shape'
  BY <1>2, <1>3, <1>8, <1>9, <1>10, <1>11 DEF Shape
<1>13. ASSUME NEW m \in Product PROVE OfProduct(m)'
  <2>1. OfProduct(m) /\ Pending(m)' = Pending(m)
    BY <1>2 DEF CycleInv, Pending
  <2>2. Hits(file', m) = Hits(file, m) + One(out = "SUCCESS" /\ task[d].mid = m)
    BY <1>1, <1>3, EndsAdds
  <2>3. /\ Hits(file, m) \in Nat /\ Hits(kwHits, m) \in Nat
        /\ Cardinality(Pending(m)) \in Nat /\ kills \in Nat /\ lost[m] \in Nat /\ HitCap \in Nat
    BY <1>3, HitsType, PendingIs, CycleAssumption DEF Shape
  <2>4. CASE task[d].mid = m
    <3>1. Has(m, "run") /\ ~ Has(m, "SUCCESS")
      BY <1>3, <1>4, <1>7, <2>4 DEF Has, Distinct
    <3>2. ~ Has(m, "run")' /\ (Has(m, "SUCCESS")' <=> out = "SUCCESS")
      BY <1>5, <1>6, <1>7, <1>9, <2>4 DEF Has, Distinct, Outcome
    <3>3. QED
      BY <1>2, <2>1, <2>2, <2>3, <2>4, <3>1, <3>2 DEF OfProduct, One, Hits
  <2>5. CASE task[d].mid # m
    <3>1. (Has(m, "run")' <=> Has(m, "run")) /\ (Has(m, "SUCCESS")' <=> Has(m, "SUCCESS"))
      BY <1>5, <1>6, <2>5 DEF Has
    <3>2. QED
      BY <1>2, <2>1, <2>2, <2>3, <2>5, <3>1 DEF OfProduct, One, Hits
  <2>6. QED
    BY <2>4, <2>5
<1>14. QED
  BY <1>12, <1>13 DEF CycleInv

\* A result that is lost takes its hit out of what main waits for.
LEMMA WorkerBreaksKeeps ==
  ASSUME CycleInv, NEW d \in Phone, WorkerBreaks(d)
  PROVE  CycleInv'
<1>1. /\ Ends(task[d], "SUCCESS") /\ task' = [task EXCEPT ![d].end = "OTHER"]
      /\ lost' = [lost EXCEPT ![task[d].mid] = @ + 1]
      /\ UNCHANGED <<pc, kwHits, orphan, stale, kills>>
  BY DEF WorkerBreaks, memVars
<1>2. "SUCCESS" \in Outcome /\ "OTHER" \in Outcome
  BY DEF Outcome
<1>3. task \in [Phone -> Task] /\ IsTable(file) /\ Distinct(task) /\ Shape
  BY DEF CycleInv, Shape
<1>4. /\ task[d].end = "run" /\ task[d].mid \in Product /\ task[d].kw \in Keyword(task[d].mid)
      /\ task[d] = [mid |-> task[d].mid, kw |-> task[d].kw, end |-> "run"]
  BY <1>1, <1>3, TaskFields, NoTaskIs DEF Ends
<1>5. task'[d] = [mid |-> task[d].mid, kw |-> task[d].kw, end |-> "OTHER"]
  BY <1>1, <1>3, <1>4
<1>6. \A e \in Phone : e # d => task'[e] = task[e]
  BY <1>1, <1>3
<1>7. task'[d] \in Task /\ task'[d] # NoTask /\ task[d] # NoTask
  BY <1>2, <1>4, <1>5, NoTaskIs DEF Task
<1>8. task' \in [Phone -> Task]
  BY <1>1, <1>3, <1>6, <1>7
<1>9. Distinct(task')
  BY <1>3, <1>5, <1>6, <1>7 DEF Distinct
<1>10. pc = "run"
  BY <1>3, <1>7 DEF Shape
<1>11. IsTable(file')
  BY <1>1, <1>2, <1>3, <1>4, EndsAdds
<1>12. /\ lost' \in [Product -> Nat]
       /\ \A m \in Product : lost'[m] = lost[m] + One(task[d].mid = m)
       /\ \A m \in Product : lost[m] \in Nat
  BY <1>1, <1>3, <1>4 DEF Shape, One
<1>13. Shape'
  BY <1>1, <1>3, <1>8, <1>9, <1>10, <1>11, <1>12 DEF Shape
<1>14. ASSUME NEW m \in Product PROVE OfProduct(m)'
  <2>1. OfProduct(m) /\ Pending(m)' = Pending(m)
    BY <1>1 DEF CycleInv, Pending
  <2>2. Hits(file', m) = Hits(file, m) + One(task[d].mid = m)
    BY <1>1, <1>2, <1>3, EndsAdds
  <2>3. /\ Hits(file, m) \in Nat /\ Hits(kwHits, m) \in Nat
        /\ Cardinality(Pending(m)) \in Nat /\ kills \in Nat /\ HitCap \in Nat
    BY <1>3, HitsType, PendingIs, CycleAssumption DEF Shape
  <2>4. Has(m, "SUCCESS")' <=> Has(m, "SUCCESS")
    BY <1>4, <1>5, <1>6 DEF Has
  <2>5. Has(m, "run")' => Has(m, "run")
    BY <1>5, <1>6 DEF Has
  <2>6. task[d].mid = m => Has(m, "run")
    BY <1>4 DEF Has
  <2>7. QED
    BY <1>1, <1>12, <2>1, <2>2, <2>3, <2>4, <2>5, <2>6 DEF OfProduct, One, Hits
<1>15. QED
  BY <1>13, <1>14 DEF CycleInv

LEMMA OrphanEndsKeeps ==
  ASSUME CycleInv, NEW d \in Phone, NEW n \in 1 .. MaxKills, OrphanEnds(n, d)
  PROVE  CycleInv'
<1>1. PICK out \in Outcome : Ends(orphan[n][d], out)
  BY DEF OrphanEnds
<1>2. UNCHANGED <<pc, kwHits, task, stale, lost, kills>> /\ orphan' = [orphan EXCEPT ![n][d] = NoTask]
  BY DEF OrphanEnds, memVars
<1>3. orphan \in [1 .. MaxKills -> [Phone -> Task]] /\ IsTable(file) /\ Shape
  BY DEF CycleInv, Shape
<1>4. orphan[n] \in [Phone -> Task] /\ orphan[n][d] \in Task /\ Distinct(orphan[n])
  BY <1>3 DEF Shape
<1>5. orphan[n][d].mid \in Product /\ IsTable(file') /\ orphan[n][d] # NoTask
  <2>1. orphan[n][d] # NoTask
    BY <1>1, NoTaskIs DEF Ends
  <2>2. orphan[n][d].mid \in Product
    BY <1>4, <2>1, TaskFields
  <2>3. QED
    BY <1>1, <1>3, <1>4, <2>1, <2>2, EndsAdds
<1>6. /\ \A i \in 1 .. MaxKills : i # n => orphan'[i] = orphan[i]
      /\ orphan'[n] = [orphan[n] EXCEPT ![d] = NoTask]
      /\ \A e \in Phone : orphan'[n][e] = IF e = d THEN NoTask ELSE orphan[n][e]
  BY <1>2, <1>3, <1>4
<1>7. NoTask \in Task
  BY DEF Task
<1>8. orphan' \in [1 .. MaxKills -> [Phone -> Task]]
  <2>1. orphan'[n] \in [Phone -> Task]
    BY <1>4, <1>6, <1>7
  <2>2. \A i \in 1 .. MaxKills : orphan'[i] \in [Phone -> Task]
    BY <1>3, <1>6, <2>1
  <2>3. orphan' = [i \in 1 .. MaxKills |-> orphan'[i]]
    BY <1>2, <1>3
  <2>4. QED
    BY <2>2, <2>3
<1>9. \A i \in 1 .. MaxKills : Distinct(orphan'[i])
  <2>1. Distinct(orphan'[n])
    <3>1. \A e \in Phone : orphan[n][e] # NoTask => orphan[n][e].mid # NoTask.mid
      BY <1>4, TaskFields, NoTaskIs
    <3>2. QED
      BY <1>4, <1>6, <3>1 DEF Distinct
  <2>2. \A i \in 1 .. MaxKills : Distinct(orphan[i])
    BY <1>3 DEF Shape
  <2>3. QED
    BY <1>6, <2>1, <2>2
<1>10. \A i \in 1 .. MaxKills : i > kills => \A e \in Phone : orphan'[i][e] = NoTask
  BY <1>3, <1>6 DEF Shape
<1>11. Shape'
  BY <1>2, <1>3, <1>5, <1>8, <1>9, <1>10 DEF Shape
<1>12. ASSUME NEW m \in Product PROVE OfProduct(m)'
  <2>1. OfProduct(m) /\ Has(m, "run")' = Has(m, "run") /\ Has(m, "SUCCESS")' = Has(m, "SUCCESS")
    BY <1>2 DEF CycleInv, Has
  <2>2. Hits(file', m) = Hits(file, m) + One(out = "SUCCESS" /\ orphan[n][d].mid = m)
    BY <1>1, <1>3, <1>4, EndsAdds
  <2>3. /\ Hits(file, m) \in Nat /\ Hits(kwHits, m) \in Nat /\ IsFiniteSet(Pending(m))
        /\ Cardinality(Pending(m)) \in Nat /\ kills \in Nat /\ lost[m] \in Nat /\ HitCap \in Nat
    BY <1>3, HitsType, PendingIs, CycleAssumption DEF Shape
  <2>4. CASE orphan[n][d].mid = m
    <3>1. n \in Pending(m)
      BY <2>4 DEF Pending
    <3>2. n \notin Pending(m)'
      BY <1>4, <1>5, <1>6, <2>4, NoTaskIs DEF Pending, Distinct
    <3>3. Pending(m)' = Pending(m) \ {n}
      BY <1>6, <3>2 DEF Pending
    <3>4. Cardinality(Pending(m)') = Cardinality(Pending(m)) - 1
      BY <2>3, <3>1, <3>3, FS_RemoveElement
    <3>5. QED
      BY <1>2, <2>1, <2>2, <2>3, <2>4, <3>4 DEF OfProduct, One, Hits
  <2>5. CASE orphan[n][d].mid # m
    <3>1. Pending(m)' = Pending(m)
      <4>1. \A i \in 1 .. MaxKills, e \in Phone :
               orphan'[i][e].mid = m <=> orphan[i][e].mid = m
        BY <1>6, <2>5, NoTaskIs
      <4>2. QED
        BY <4>1 DEF Pending
    <3>2. QED
      BY <1>2, <2>1, <2>2, <2>3, <2>5, <3>1 DEF OfProduct, One, Hits
  <2>6. QED
    BY <2>4, <2>5
<1>13. QED
  BY <1>11, <1>12 DEF CycleInv

-----------------------------------------------------------------------------

LEMMA ReloadedTable ==
  ASSUME Shape
  PROVE  IsTable(Reloaded)
BY DEF Shape, Reloaded

\* Between two cycles main counts what is in the history, but for the hits of
\* workers that outlived a main; a day that begins makes it read all of them.
LEMMA ReloadedIs ==
  ASSUME CycleInv, pc = "between", NEW m \in Product
  PROVE  /\ Hits(Reloaded, m) \in Nat
         /\ Hits(file, m) + Cardinality(Pending(m)) <= Hits(Reloaded, m) + kills + lost[m]
         /\ Hits(Reloaded, m) <= Hits(file, m)
<1>1. Shape /\ OfProduct(m)
  BY DEF CycleInv
<1>2. /\ Hits(file, m) \in Nat /\ Hits(kwHits, m) \in Nat
      /\ Cardinality(Pending(m)) \in Nat /\ Cardinality(Pending(m)) <= kills /\ kills \in Nat /\ lost[m] \in Nat
  BY <1>1, HitsType, PendingIs DEF Shape
<1>3. ~ Has(m, "SUCCESS")
  BY <1>1, NoTaskIs DEF Shape, Has
<1>4. CASE stale
  BY <1>2, <1>4 DEF Reloaded
<1>5. CASE ~ stale
  BY <1>1, <1>2, <1>3, <1>5 DEF Reloaded, OfProduct, One
<1>6. QED
  BY <1>1, <1>4, <1>5 DEF Shape

LEMMA CycleSkippedKeeps ==
  ASSUME CycleInv, CycleSkipped
  PROVE  CycleInv'
<1>1. /\ pc = "between" /\ kwHits' = Reloaded /\ ~ stale'
      /\ UNCHANGED <<pc, task, orphan, file, lost, kills>> /\ stale' \in BOOLEAN
  BY DEF CycleSkipped, diskVars
<1>2. Shape
  BY DEF CycleInv
<1>3. Shape'
  BY <1>1, <1>2, ReloadedTable DEF Shape
<1>4. ASSUME NEW m \in Product PROVE OfProduct(m)'
  <2>1. OfProduct(m) /\ Pending(m)' = Pending(m) /\ Hits(file, m)' = Hits(file, m)
        /\ Hits(kwHits, m)' = Hits(Reloaded, m)
    BY <1>1 DEF CycleInv, Pending, Hits
  <2>2. ~ Has(m, "SUCCESS")' /\ Has(m, "run")' = Has(m, "run")
    BY <1>1, <1>2, NoTaskIs DEF Shape, Has
  <2>3. /\ Hits(file, m) \in Nat /\ Cardinality(Pending(m)) \in Nat /\ kills \in Nat /\ lost[m] \in Nat
    BY <1>2, HitsType, PendingIs DEF Shape
  <2>4. QED
    BY <1>1, <2>1, <2>2, <2>3, ReloadedIs DEF OfProduct, One
<1>5. QED
  BY <1>3, <1>4 DEF CycleInv

\* The keyword of a task is one of the product's.
LEMMA RolledIs ==
  ASSUME NEW counts, NEW m \in Product, NEW k \in Keyword(m)
  PROVE  Rolled(counts, m, k) \in Keyword(m) \cup {0}
<1> DEFINE left == {c \in Keyword(m) : counts[m][c] < KwCap}
<1>1. CASE k \in left
  BY <1>1 DEF Rolled
<1>2. CASE k \notin left /\ left = {}
  BY <1>2 DEF Rolled
<1>3. CASE k \notin left /\ left # {}
  <2>1. left \subseteq Nat
    BY KeywordsAre
  <2>2. Min(left) \in left
    <3> HIDE DEF left
    <3>1. QED
      BY <1>3, <2>1, LeastIs
  <2>3. QED
    BY <1>3, <2>2 DEF Rolled
<1>4. QED
  BY <1>1, <1>2, <1>3

\* A cycle begins with running tasks of different products below their cap.
LEMMA TasksOfCycle ==
  ASSUME CycleInv, CycleBegins
  PROVE  /\ task' \in [Phone -> Task]
         /\ Distinct(task')
         /\ \A d \in Phone : task'[d] # NoTask =>
               /\ task'[d].end = "run"
               /\ Hits(Reloaded, task'[d].mid) < HitCap
<1>1. PICK out \in Exclusions(Released, Reloaded) :
      \E given \in [Phone -> {t \in Task : t.mid \notin out /\ t.end \in {"none", "run"}}] :
         /\ \A d, e \in Phone : d # e /\ given[d] # NoTask => given[d].mid # given[e].mid
         /\ LET todo(t) == IF t = NoTask THEN NoTask
                           ELSE LET k == Rolled(Reloaded, t.mid, t.kw)
                                IN IF k = 0 THEN NoTask ELSE [t EXCEPT !.kw = k]
            IN task' = [d \in Phone |-> todo(given[d])]
  BY DEF CycleBegins
<1>2. PICK given \in [Phone -> {t \in Task : t.mid \notin out /\ t.end \in {"none", "run"}}] :
         /\ \A d, e \in Phone : d # e /\ given[d] # NoTask => given[d].mid # given[e].mid
         /\ LET todo(t) == IF t = NoTask THEN NoTask
                           ELSE LET k == Rolled(Reloaded, t.mid, t.kw)
                                IN IF k = 0 THEN NoTask ELSE [t EXCEPT !.kw = k]
            IN task' = [d \in Phone |-> todo(given[d])]
  BY <1>1
<1>3. Capped(Reloaded) \subseteq out
  BY DEF Exclusions
<1> DEFINE todo(t) == IF t = NoTask THEN NoTask
                      ELSE LET k == Rolled(Reloaded, t.mid, t.kw)
                           IN IF k = 0 THEN NoTask ELSE [t EXCEPT !.kw = k]
<1>4. \A d \in Phone : task'[d] = todo(given[d])
  BY <1>2
<1>5. task' = [d \in Phone |-> task'[d]]
  BY <1>2
<1> HIDE DEF todo
<1>6. ASSUME NEW t \in Task, t.end \in {"none", "run"}
      PROVE  /\ todo(t) \in Task
             /\ todo(t) # NoTask =>
                   /\ t # NoTask /\ todo(t).mid = t.mid /\ todo(t).end = "run"
                   /\ t.mid \in Product
  <2>1. CASE t = NoTask
    BY <2>1 DEF todo, Task
  <2>2. CASE t # NoTask
    <3>1. /\ t.mid \in Product /\ t.kw \in Keyword(t.mid) /\ t.end \in Outcome \cup {"run"}
          /\ t = [mid |-> t.mid, kw |-> t.kw, end |-> t.end]
      BY <2>2, TaskFields
    <3>2. t.end = "run"
      BY <1>6, <3>1 DEF Outcome
    <3> DEFINE k == Rolled(Reloaded, t.mid, t.kw)
    <3>3. k \in Keyword(t.mid) \cup {0}
      BY <3>1, RolledIs
    <3>4. todo(t) = IF k = 0 THEN NoTask ELSE [t EXCEPT !.kw = k]
      BY <2>2 DEF todo
    <3> HIDE DEF k
    <3>5. CASE k = 0
      BY <3>4, <3>5 DEF Task
    <3>6. CASE k # 0
      <4>1. todo(t) = [mid |-> t.mid, kw |-> k, end |-> "run"]
        BY <3>1, <3>2, <3>4, <3>6
      <4>2. k \in Keyword(t.mid)
        BY <3>3, <3>6
      <4>3. todo(t) \in Task
        BY <3>1, <4>1, <4>2 DEF Task
      <4>4. QED
        BY <2>2, <3>1, <4>1, <4>3
    <3>7. QED
      BY <3>5, <3>6
  <2>3. QED
    BY <2>1, <2>2
<1>7. \A d \in Phone : /\ given[d] \in Task /\ given[d].end \in {"none", "run"}
                       /\ given[d].mid \notin out
  BY <1>2
<1>8. \A d \in Phone : task'[d] \in Task
  BY <1>4, <1>6, <1>7
<1>9. \A d \in Phone : task'[d] # NoTask =>
         /\ given[d] # NoTask /\ task'[d].mid = given[d].mid /\ task'[d].end = "run"
         /\ given[d].mid \in Product
  BY <1>4, <1>6, <1>7
<1>10. ASSUME NEW d \in Phone, NEW e \in Phone, task'[d] # NoTask, task'[d].mid = task'[e].mid
       PROVE  d = e
  <2>1. task'[e] # NoTask
    BY <1>9, <1>10, NoTaskIs
  <2>2. QED
    BY <1>2, <1>9, <1>10, <2>1
<1>11. ASSUME NEW d \in Phone, task'[d] # NoTask
       PROVE  Hits(Reloaded, task'[d].mid) < HitCap
  <2>1. task'[d].mid \in Product /\ task'[d].mid \notin Capped(Reloaded)
    BY <1>3, <1>7, <1>9, <1>11
  <2>2. Hits(Reloaded, task'[d].mid) \in Nat /\ HitCap \in Nat
    BY <2>1, ReloadedTable, HitsType, CycleAssumption DEF CycleInv
  <2>3. QED
    BY <2>1, <2>2 DEF Capped
<1>12. QED
  BY <1>5, <1>8, <1>9, <1>10, <1>11 DEF Distinct

LEMMA CycleBeginsKeeps ==
  ASSUME CycleInv, CycleBegins
  PROVE  CycleInv'
<1>1. /\ pc = "between" /\ pc' = "run" /\ kwHits' = Reloaded /\ stale' = FALSE
      /\ UNCHANGED <<orphan, file, lost, kills>>
  BY DEF CycleBegins, diskVars
<1>2. Shape
  BY DEF CycleInv
<1>3. task' \in [Phone -> Task] /\ Distinct(task')
  BY TasksOfCycle
<1>4. Shape'
  BY <1>1, <1>2, <1>3, ReloadedTable DEF Shape
<1>5. ASSUME NEW m \in Product PROVE OfProduct(m)'
  <2>1. OfProduct(m) /\ Pending(m)' = Pending(m) /\ Hits(file, m)' = Hits(file, m)
        /\ Hits(kwHits, m)' = Hits(Reloaded, m)
    BY <1>1 DEF CycleInv, Pending, Hits
  <2>2. ~ Has(m, "SUCCESS")'
    BY TasksOfCycle, NoTaskIs DEF Has
  <2>3. /\ Hits(file, m) \in Nat /\ Cardinality(Pending(m)) \in Nat /\ kills \in Nat /\ lost[m] \in Nat
        /\ HitCap \in Nat
    BY <1>2, HitsType, PendingIs, CycleAssumption DEF Shape
  <2>4. /\ Hits(Reloaded, m) \in Nat
        /\ Hits(file, m) + Cardinality(Pending(m)) <= Hits(Reloaded, m) + kills + lost[m]
        /\ Hits(Reloaded, m) <= Hits(file, m)
    BY <1>1, ReloadedIs
  <2>5. Has(m, "run")' => Hits(Reloaded, m) < HitCap
    BY TasksOfCycle, NoTaskIs DEF Has
  <2>6. ~ Has(m, "run")
    BY <1>1, <1>2, NoTaskIs DEF Shape, Has
  <2>7. Hits(file, m) + Cardinality(Pending(m)) + One(Has(m, "run")') <= HitCap + kills + lost[m]
    BY <2>1, <2>3, <2>4, <2>5, <2>6 DEF OfProduct, One
  <2>8. QED
    BY <1>1, <2>1, <2>2, <2>3, <2>4, <2>7 DEF OfProduct, One
<1>6. QED
  BY <1>4, <1>5 DEF CycleInv

\* What the evaluation of a cycle adds to the counts.
LEMMA Evaluated ==
  ASSUME Shape, CycleEnds, NEW m \in Product
  PROVE  /\ kwHits'[m] \in [Text(m) -> Nat]
         /\ Hits(kwHits', m) = Hits(kwHits, m) + One(Has(m, "SUCCESS"))
<1> DEFINE With(k) == {d \in Phone : task[d] = [mid |-> m, kw |-> k, end |-> "SUCCESS"]}
<1>1. kwHits'[m] = [k \in Text(m) |-> kwHits[m][k] + Cardinality(With(k))]
  BY DEF CycleEnds
<1>2. kwHits[m] \in [Text(m) -> Nat] /\ task \in [Phone -> Task] /\ Distinct(task)
  BY DEF Shape, IsTable
<1>3. CASE ~ Has(m, "SUCCESS")
  <2>1. \A k \in Text(m) : With(k) = {}
    BY <1>3 DEF Has
  <2>2. \A k \in Text(m) : Cardinality(With(k)) = 0
    BY <2>1, FS_EmptySet
  <2>3. kwHits'[m] = kwHits[m]
    <3> HIDE DEF With
    <3>1. \A k \in Text(m) : kwHits[m][k] \in Nat
      BY <1>2
    <3>2. kwHits'[m] = [k \in Text(m) |-> kwHits[m][k]]
      BY <1>1, <2>2, <3>1
    <3>3. QED
      BY <1>2, <3>2
  <2>4. Hits(kwHits', m) = Hits(kwHits, m) /\ Hits(kwHits, m) \in Nat
    BY <2>3, HitsType DEF Hits, Shape
  <2>5. QED
    BY <1>2, <1>3, <2>3, <2>4 DEF One
<1>4. CASE Has(m, "SUCCESS")
  <2>1. PICK d \in Phone : task[d].mid = m /\ task[d].end = "SUCCESS"
    BY <1>4 DEF Has
  <2> DEFINE kw == task[d].kw
  <2>2. /\ kw \in Text(m) /\ task[d] # NoTask
        /\ task[d] = [mid |-> m, kw |-> kw, end |-> "SUCCESS"]
    BY <1>2, <2>1, TaskFields, TextsAre, NoTaskIs
  <2>3. \A e \in Phone : task[e].mid = m => e = d
    BY <1>2, <2>1, <2>2 DEF Distinct
  <2>4. \A k \in Text(m) : With(k) = IF k = kw THEN {d} ELSE {}
    <3>1. SUFFICES ASSUME NEW k \in Text(m), NEW e \in Phone
                   PROVE  task[e] = [mid |-> m, kw |-> k, end |-> "SUCCESS"] <=> e = d /\ k = kw
      OBVIOUS
    <3>2. QED
      BY <2>2, <2>3
  <2>5. \A k \in Text(m) : Cardinality(With(k)) = IF k = kw THEN 1 ELSE 0
    BY <2>4, FS_EmptySet, FS_Singleton
  <2> HIDE DEF With, kw
  <2>6. \A k \in Text(m) : kwHits[m][k] \in Nat
    BY <1>2
  <2>7. \A k \in Text(m) : kwHits'[m][k] = IF k = kw THEN kwHits[m][k] + 1 ELSE kwHits[m][k]
    BY <1>1, <2>5, <2>6
  <2>8. kwHits'[m] \in [Text(m) -> Nat]
    BY <1>1, <2>5, <2>6
  <2>9. Hits(kwHits', m) = Hits(kwHits, m) + 1
    BY <2>2, <2>7, <2>8, HitsGrow DEF Shape
  <2>10. QED
    BY <1>4, <2>8, <2>9 DEF One
<1>5. QED
  BY <1>3, <1>4

LEMMA CycleEndsKeeps ==
  ASSUME CycleInv, CycleEnds
  PROVE  CycleInv'
<1>1. /\ pc = "run" /\ pc' = "between" /\ task' = [d \in Phone |-> NoTask]
      /\ \A d \in Phone : task[d].end # "run"
      /\ UNCHANGED <<orphan, file, stale, lost, kills>>
  BY DEF CycleEnds
<1>2. Shape
  BY DEF CycleInv
<1>3. IsTable(kwHits')
  <2>1. kwHits' = [m \in Product |-> kwHits'[m]]
    BY DEF CycleEnds
  <2>2. QED
    BY <1>2, <2>1, Evaluated DEF IsTable
<1>4. \A d \in Phone : task'[d] = NoTask
  BY <1>1
<1>5. task' \in [Phone -> Task] /\ Distinct(task')
  BY <1>1, <1>4 DEF Task, Distinct
<1>6. Shape'
  BY <1>1, <1>2, <1>3, <1>4, <1>5 DEF Shape
<1>7. ASSUME NEW m \in Product PROVE OfProduct(m)'
  <2>1. OfProduct(m) /\ Pending(m)' = Pending(m) /\ Hits(file, m)' = Hits(file, m)
    BY <1>1 DEF CycleInv, Pending, Hits
  <2>2. Hits(kwHits, m)' = Hits(kwHits, m) + One(Has(m, "SUCCESS"))
    BY <1>2, Evaluated DEF Hits
  <2>3. ~ Has(m, "SUCCESS")' /\ ~ Has(m, "run")' /\ ~ Has(m, "run")
    BY <1>1, <1>4, NoTaskIs DEF Has
  <2>4. /\ Hits(file, m) \in Nat /\ Hits(kwHits, m) \in Nat
        /\ Cardinality(Pending(m)) \in Nat /\ kills \in Nat /\ lost[m] \in Nat
    BY <1>2, HitsType, PendingIs DEF Shape
  <2>5. QED
    BY <1>1, <2>1, <2>2, <2>3, <2>4 DEF OfProduct, One
<1>8. QED
  BY <1>6, <1>7 DEF CycleInv

LEMMA MidnightKeeps ==
  ASSUME CycleInv, Midnight
  PROVE  CycleInv'
<1>1. /\ stale' = (pc # "off") /\ file' = NoHits /\ lost' = [m \in Product |-> 0]
      /\ UNCHANGED <<pc, kwHits, task, orphan, kills>>
  BY DEF Midnight, memVars
<1>2. Shape
  BY DEF CycleInv
<1>3. Shape'
  BY <1>1, <1>2, NoHitsAre DEF Shape
<1>4. ASSUME NEW m \in Product PROVE OfProduct(m)'
  <2>1. Pending(m)' = Pending(m) /\ Has(m, "run")' = Has(m, "run") /\ Hits(file, m)' = 0 /\ lost'[m] = 0
    BY <1>1, NoHitsAre DEF Pending, Has, Hits
  <2>2. Cardinality(Pending(m)) \in Nat /\ Cardinality(Pending(m)) <= kills /\ kills \in Nat /\ lost[m] \in Nat
    BY <1>2, PendingIs DEF Shape
  <2>3. HitCap \in Nat /\ HitCap >= 1
    BY CycleAssumption
  <2>4. CASE pc = "off"
    <3>1. ~ Has(m, "run")
      BY <1>2, <2>4, NoTaskIs DEF Shape, Has
    <3>2. stale' = FALSE
      BY <1>1, <2>4
    <3>3. QED
      BY <1>1, <2>1, <2>2, <2>3, <2>4, <3>1, <3>2 DEF OfProduct, One
  <2>5. CASE pc # "off"
    <3>1. stale'
      BY <1>1, <2>5
    <3>2. One(Has(m, "run")) \in 0 .. 1 /\ One(Has(m, "run"))' = One(Has(m, "run"))
      BY <2>1 DEF One
    <3>3. QED
      BY <1>1, <2>1, <2>2, <2>3, <2>5, <3>1, <3>2 DEF OfProduct
  <2>6. QED
    BY <2>4, <2>5
<1>5. QED
  BY <1>3, <1>4 DEF CycleInv

\* The workers that main leaves behind are of different products.
LEMMA MainStopsKeeps ==
  ASSUME CycleInv, MainStops
  PROVE  CycleInv'
<1> DEFINE left == [d \in Phone |-> IF task[d].end = "run" THEN task[d] ELSE NoTask]
           last == kills + 1
<1>1. /\ kills < MaxKills /\ kills' = last /\ pc' = "off" /\ ~ stale' /\ stale' \in BOOLEAN
      /\ orphan' = [orphan EXCEPT ![last] = left]
      /\ task' = [d \in Phone |-> NoTask] /\ kwHits' = NoHits /\ file' = file /\ lost' = lost
  BY DEF MainStops, diskVars
<1>2. Shape /\ MaxKills \in Nat
  BY CycleAssumption DEF CycleInv
<1>3. last \in 1 .. MaxKills /\ last \in Nat
  BY <1>1, <1>2 DEF Shape
<1>4. left \in [Phone -> Task]
  BY <1>2 DEF Shape, Task
<1>5. Distinct(left)
  <2>1. \A d \in Phone : task[d] # NoTask => task[d].mid # NoTask.mid
    BY <1>2, TaskFields, NoTaskIs DEF Shape
  <2>2. QED
    BY <1>2, <2>1 DEF Shape, Distinct
<1> HIDE DEF left
<1>6. /\ orphan'[last] = left
      /\ \A n \in 1 .. MaxKills : n # last => orphan'[n] = orphan[n]
  BY <1>1, <1>2, <1>3 DEF Shape
<1>7. orphan' \in [1 .. MaxKills -> [Phone -> Task]]
  BY <1>1, <1>2, <1>4 DEF Shape
<1>8. \A n \in 1 .. MaxKills : Distinct(orphan'[n])
  BY <1>2, <1>5, <1>6 DEF Shape
<1>9. \A n \in 1 .. MaxKills : n > last => \A d \in Phone : orphan'[n][d] = NoTask
  BY <1>2, <1>6 DEF Shape
<1>10. task' \in [Phone -> Task] /\ Distinct(task') /\ \A d \in Phone : task'[d] = NoTask
  BY <1>1 DEF Task, Distinct
<1>11. Shape'
  BY <1>1, <1>2, <1>3, <1>7, <1>8, <1>9, <1>10, NoHitsAre DEF Shape
<1>12. ASSUME NEW m \in Product PROVE OfProduct(m)'
  <2>1. OfProduct(m) /\ Hits(file, m)' = Hits(file, m) /\ ~ Has(m, "run")' /\ lost'[m] = lost[m]
    BY <1>1, <1>10, NoTaskIs DEF CycleInv, Hits, Has
  <2>2. /\ Hits(file, m) \in Nat /\ IsFiniteSet(Pending(m)) /\ HitCap \in Nat
        /\ Cardinality(Pending(m)) \in Nat /\ kills \in Nat /\ lost[m] \in Nat
    BY <1>2, HitsType, PendingIs, CycleAssumption DEF Shape
  <2>3. last \notin Pending(m)
    BY <1>2, PendingIs DEF Shape
  <2>4. (\E d \in Phone : left[d].mid = m) <=> Has(m, "run")
    BY NoTaskIs DEF left, Has
  <2>5. Pending(m)' = IF Has(m, "run") THEN Pending(m) \cup {last} ELSE Pending(m)
    <3>1. \A n \in 1 .. MaxKills : n \in Pending(m)' <=>
             IF n = last THEN Has(m, "run") ELSE n \in Pending(m)
      BY <1>6, <2>4 DEF Pending
    <3>2. QED
      BY <1>3, <2>3, <3>1 DEF Pending
  <2>6. Cardinality(Pending(m)') = Cardinality(Pending(m)) + One(Has(m, "run"))
    <3>1. Cardinality(Pending(m) \cup {last}) = Cardinality(Pending(m)) + 1
      BY <2>2, <2>3, FS_AddElement
    <3>2. CASE Has(m, "run")
      <4>1. Pending(m)' = Pending(m) \cup {last}
        BY <2>5, <3>2
      <4>2. QED
        BY <3>1, <3>2, <4>1 DEF One
    <3>3. CASE ~ Has(m, "run")
      <4>1. Pending(m)' = Pending(m)
        BY <2>5, <3>3
      <4>2. QED
        BY <2>2, <3>3, <4>1 DEF One
    <3>4. QED
      BY <3>2, <3>3
  <2>7. QED
    BY <1>1, <2>1, <2>2, <2>6 DEF OfProduct, One
<1>13. QED
  BY <1>11, <1>12 DEF CycleInv

LEMMA MainStartsKeeps ==
  ASSUME CycleInv, MainStarts
  PROVE  CycleInv'
<1>1. /\ pc = "off" /\ pc' = "between" /\ kwHits' = file
      /\ UNCHANGED <<task, orphan, file, stale, lost, kills>>
  BY DEF MainStarts, diskVars
<1>2. Shape
  BY DEF CycleInv
<1>3. Shape'
  BY <1>1, <1>2 DEF Shape
<1>4. ASSUME NEW m \in Product PROVE OfProduct(m)'
  <2>1. /\ OfProduct(m) /\ Pending(m)' = Pending(m) /\ Hits(file, m)' = Hits(file, m)
        /\ Hits(kwHits, m)' = Hits(file, m) /\ Has(m, "run")' = Has(m, "run")
    BY <1>1 DEF CycleInv, Pending, Hits, Has
  <2>2. ~ Has(m, "SUCCESS")'
    BY <1>1, <1>2, NoTaskIs DEF Shape, Has
  <2>3. /\ Hits(file, m) \in Nat /\ Cardinality(Pending(m)) \in Nat
        /\ Cardinality(Pending(m)) <= kills /\ kills \in Nat /\ lost[m] \in Nat
    BY <1>2, HitsType, PendingIs DEF Shape
  <2>4. QED
    BY <1>1, <2>1, <2>2, <2>3 DEF OfProduct, One
<1>5. QED
  BY <1>3, <1>4 DEF CycleInv

LEMMA OthersKeep ==
  ASSUME CycleInv, UNCHANGED <<pc, kwHits, task, orphan, file, stale, lost, kills>>
  PROVE  CycleInv'
BY DEF CycleInv, Shape, OfProduct, Pending, Has, Hits

-----------------------------------------------------------------------------

LEMMA CycleInit == Init => CycleInv
<1> SUFFICES ASSUME Init PROVE CycleInv
  OBVIOUS
<1>1. /\ pc = "off" /\ kwHits = NoHits /\ file = NoHits /\ stale = FALSE /\ kills = 0
      /\ lost = [m \in Product |-> 0]
      /\ task = [d \in Phone |-> NoTask] /\ orphan = [n \in 1 .. MaxKills |-> task]
  BY DEF Init
<1>2. task \in [Phone -> Task] /\ Distinct(task) /\ \A d \in Phone : task[d] = NoTask
  BY <1>1 DEF Task, Distinct
<1>3. orphan \in [1 .. MaxKills -> [Phone -> Task]] /\ \A n \in 1 .. MaxKills : orphan[n] = task
  BY <1>1, <1>2
<1>4. Shape
  BY <1>1, <1>2, <1>3, NoHitsAre DEF Shape
<1>5. ASSUME NEW m \in Product PROVE OfProduct(m)
  <2>1. Pending(m) = {} /\ ~ Has(m, "run")
    BY <1>2, <1>3, NoTaskIs DEF Pending, Has
  <2>2. QED
    BY <1>1, <2>1, NoHitsAre, FS_EmptySet, CycleAssumption DEF OfProduct, One
<1>6. QED
  BY <1>4, <1>5 DEF CycleInv

LEMMA CycleStep ==
  ASSUME CycleInv, [Next]_vars
  PROVE  CycleInv'
<1>1. CASE UNCHANGED vars
  BY <1>1, OthersKeep DEF vars, memVars, diskVars
<1>2. CASE Tick
  BY <1>2, OthersKeep DEF Tick
<1>3. ASSUME NEW d \in Phone,
             WorkerEnds(d) \/ WorkerBreaks(d) \/ \E n \in 1 .. MaxKills : OrphanEnds(n, d)
      PROVE  CycleInv'
  BY <1>3, WorkerEndsKeeps, WorkerBreaksKeeps, OrphanEndsKeeps
<1>4. QED
  BY <1>1, <1>2, <1>3, CycleSkippedKeeps, CycleBeginsKeeps, CycleEndsKeeps, MidnightKeeps,
     MainStopsKeeps, MainStartsKeeps DEF Next

\* The inductive invariant of the hits of a day.
THEOREM CycleInvariant == Spec => []CycleInv
<1>1. Init => CycleInv
  BY CycleInit
<1>2. CycleInv /\ [Next]_vars => CycleInv'
  BY CycleStep
<1>3. QED
  BY <1>1, <1>2, PTL DEF Spec

\* What main counts (daily_success_counts, kw_success_counts) is what the workers
\* wrote today, but for cycles not evaluated, workers that outlived a main, and
\* results that were lost on their way to main.
THEOREM CycleCountsAgree == Spec => []CountsAgreeWithFile
<1>1. CycleInv => CountsAgreeWithFile
  <2>1. SUFFICES ASSUME CycleInv, pc # "off", ~ stale, NEW m \in Product
                 PROVE  LET fresh == Cardinality({d \in Phone : task[d].mid = m /\ task[d].end = "SUCCESS"})
                        IN /\ Hits(kwHits, m) + fresh <= Hits(file, m)
                           /\ kills = 0 => Hits(kwHits, m) + fresh + lost[m] >= Hits(file, m)
    BY DEF CountsAgreeWithFile
  <2> DEFINE ended == {d \in Phone : task[d].mid = m /\ task[d].end = "SUCCESS"}
  <2>2. Shape /\ OfProduct(m)
    BY <2>1 DEF CycleInv
  <2>3. Cardinality(ended) = One(Has(m, "SUCCESS"))
    <3>1. CASE Has(m, "SUCCESS")
      <4>1. PICK d \in Phone : task[d].mid = m /\ task[d].end = "SUCCESS"
        BY <3>1 DEF Has
      <4>2. ended = {d}
        BY <2>2, <4>1, NoTaskIs DEF Shape, Distinct
      <4>3. QED
        BY <3>1, <4>2, FS_Singleton DEF One
    <3>2. CASE ~ Has(m, "SUCCESS")
      <4>1. ended = {}
        BY <3>2 DEF Has
      <4>2. QED
        BY <3>2, <4>1, FS_EmptySet DEF One
    <3>3. QED
      BY <3>1, <3>2
  <2> HIDE DEF ended
  <2>4. /\ Hits(file, m) \in Nat /\ Hits(kwHits, m) \in Nat
        /\ Cardinality(Pending(m)) \in Nat /\ One(Has(m, "SUCCESS")) \in Nat /\ lost[m] \in Nat
    BY <2>2, HitsType, PendingIs DEF Shape, One
  <2>5. QED
    BY <2>1, <2>2, <2>3, <2>4 DEF OfProduct, ended
<1>2. QED
  BY <1>1, CycleInvariant, PTL

\* The successes of a product on a day stay within max_hits_per_item, but for one
\* of each main that was stopped while a worker of it went on, and those whose
\* result was lost.
THEOREM CycleCapHolds == Spec => []DailyCapHolds
<1>1. CycleInv => DailyCapHolds
  <2>1. SUFFICES ASSUME CycleInv, NEW m \in Product PROVE Hits(file, m) <= HitCap + kills + lost[m]
    BY DEF DailyCapHolds
  <2>2. Shape /\ OfProduct(m)
    BY <2>1 DEF CycleInv
  <2>3. /\ Hits(file, m) \in Nat /\ Cardinality(Pending(m)) \in Nat
        /\ kills \in Nat /\ lost[m] \in Nat /\ HitCap \in Nat
    BY <2>2, HitsType, PendingIs, CycleAssumption DEF Shape
  <2>4. QED
    BY <2>2, <2>3 DEF OfProduct, One
<1>2. QED
  BY <1>1, CycleInvariant, PTL

-----------------------------------------------------------------------------

\* How a cycle ended for a product, and a log of it.
Ended == {"SUCCESS", "NOT_FOUND", "none"}
Log   == [age : 0 .. LogAge - 1, res : [Product -> Ended]]

\* The misses of m among the first n logs of s, since its last success in them.
Missed(s, m, n) == {i \in 1 .. n : /\ s[i].res[m] = "NOT_FOUND"
                                   /\ \A j \in i .. n : s[j].res[m] # "SUCCESS"}

\* Main has not seen more misses than there were, nor do the logs tell of more.
Remembered ==
    /\ fails \in [Product -> 0 .. FailLimit]
    /\ misses \in [Product -> 0 .. FailLimit]
    /\ quar \in [Product -> {Free} \cup 0 .. MaxAge]
    /\ logs \in Seq(Log) /\ Len(logs) <= Lookback
    /\ stale => logs = <<>>
    /\ \A m \in Product : fails[m] <= misses[m]
    /\ \A m \in Product : \/ misses[m] = FailLimit
                          \/ Cardinality(Missed(logs, m, Len(logs))) <= misses[m]
    /\ QuarantineIsEarned

MemoryInv == CycleInv /\ Remembered

LEMMA LimitsAre ==
  /\ FailLimit \in Nat /\ FailLimit >= 1 /\ Lookback \in Nat /\ Lookback >= 1
  /\ LogAge \in Nat /\ LogAge >= 1 /\ MaxAge \in Nat /\ LogAge <= MaxAge
BY CycleAssumption

\* The least of two numbers is the least of the set of both.
LEMMA LeastOfTwo ==
  ASSUME NEW a \in Nat, NEW b \in Nat
  PROVE  Min({a, b}) = IF a <= b THEN a ELSE b
BY DEF Min

LEMMA MissedType ==
  ASSUME NEW s, NEW m, NEW n \in Nat
  PROVE  IsFiniteSet(Missed(s, m, n)) /\ Cardinality(Missed(s, m, n)) \in Nat
<1>1. Missed(s, m, n) \subseteq 1 .. n /\ IsFiniteSet(1 .. n)
  BY FS_Interval DEF Missed
<1>2. QED
  BY <1>1, FS_Subset, FS_CardinalityType

\* What one more log adds to the misses.
LEMMA MissedWithOneMore ==
  ASSUME NEW s \in Seq(Log), NEW m \in Product, NEW n \in 1 .. Len(s)
  PROVE  LET res == s[n].res[m]
             old == Missed(s, m, n - 1)
         IN /\ res \in Ended
            /\ res = "SUCCESS" => Missed(s, m, n) = {}
            /\ res = "NOT_FOUND" => /\ Missed(s, m, n) = old \cup {n}
                                    /\ Cardinality(Missed(s, m, n)) = Cardinality(old) + 1
            /\ res = "none" => Missed(s, m, n) = old
<1> DEFINE res == s[n].res[m]
           old == Missed(s, m, n - 1)
<1>1. n \in Nat /\ n >= 1 /\ n - 1 \in Nat /\ s[n] \in Log
  OBVIOUS
<1>2. res \in Ended
  BY <1>1 DEF Log
<1>3. \A i \in 1 .. n : i .. n = (i .. n - 1) \cup {n}
  BY <1>1
<1>4. ASSUME res # "SUCCESS"
      PROVE  Missed(s, m, n) = old \cup (IF res = "NOT_FOUND" THEN {n} ELSE {})
  <2>1. ASSUME NEW i \in 1 .. n
        PROVE  i \in Missed(s, m, n) <=> (i \in old \/ (i = n /\ res = "NOT_FOUND"))
    <3>1. CASE i = n
      <4>1. i \notin old
        BY <1>1, <3>1 DEF Missed
      <4>2. i .. n = {n}
        BY <1>1, <3>1
      <4>3. QED
        BY <1>4, <3>1, <4>1, <4>2 DEF Missed
    <3>2. CASE i # n
      <4>1. i \in 1 .. n - 1
        BY <1>1, <3>2
      <4>2. (\A j \in i .. n : s[j].res[m] # "SUCCESS") <=>
            (\A j \in i .. n - 1 : s[j].res[m] # "SUCCESS")
        BY <1>3, <1>4
      <4>3. i \in Missed(s, m, n) <=> i \in old
        BY <4>1, <4>2 DEF Missed
      <4>4. QED
        BY <3>2, <4>3
    <3>3. QED
      BY <3>1, <3>2
  <2>2. Missed(s, m, n) \subseteq 1 .. n /\ old \subseteq 1 .. n - 1 /\ 1 .. n - 1 \subseteq 1 .. n
    BY <1>1 DEF Missed
  <2>3. n \in 1 .. n
    BY <1>1
  <2> HIDE DEF res, old
  <2>4. CASE res = "NOT_FOUND"
    BY <2>1, <2>2, <2>3, <2>4
  <2>5. CASE res # "NOT_FOUND"
    BY <2>1, <2>2, <2>5
  <2>6. QED
    BY <2>4, <2>5
<1>5. res = "SUCCESS" => Missed(s, m, n) = {}
  BY <1>1, <1>3 DEF Missed
<1>6. res = "NOT_FOUND" => Cardinality(old \cup {n}) = Cardinality(old) + 1
  <2>1. n \notin old
    BY <1>1 DEF Missed
  <2>2. IsFiniteSet(old)
    BY <1>1, MissedType
  <2>3. QED
    BY <2>1, <2>2, FS_AddElement
<1>7. QED
  BY <1>2, <1>4, <1>5, <1>6

\* Logs that are dropped from the front add no misses.
LEMMA MissedOfLater ==
  ASSUME NEW s \in Seq(Log), NEW t \in Seq(Log), NEW m \in Product, NEW k \in Nat,
         Len(s) = Len(t) + k,
         \A i \in 1 .. Len(t) : t[i].res = s[i + k].res
  PROVE  Cardinality(Missed(t, m, Len(t))) <= Cardinality(Missed(s, m, Len(s)))
<1> DEFINE S == Missed(s, m, Len(s))
           T == Missed(t, m, Len(t))
           f == [i \in T |-> i + k]
<1>1. Len(s) \in Nat /\ Len(t) \in Nat
  OBVIOUS
<1>2. T \subseteq 1 .. Len(t)
  BY DEF Missed
<1>3. ASSUME NEW i \in T PROVE i + k \in S
  <2>1. i \in 1 .. Len(t) /\ i + k \in 1 .. Len(s)
    BY <1>1, <1>2
  <2>2. s[i + k].res[m] = "NOT_FOUND"
    BY <2>1 DEF Missed
  <2>3. ASSUME NEW j \in i + k .. Len(s) PROVE s[j].res[m] # "SUCCESS"
    <3>1. j - k \in i .. Len(t) /\ j - k \in 1 .. Len(t) /\ (j - k) + k = j
      BY <1>1, <2>1
    <3>2. t[j - k].res[m] # "SUCCESS"
      BY <3>1 DEF Missed
    <3>3. QED
      BY <3>1, <3>2
  <2>4. QED
    BY <2>1, <2>2, <2>3 DEF Missed
<1>4. f \in Injection(T, S)
  <2>1. f \in [T -> S]
    BY <1>3
  <2>2. \A i, j \in T : f[i] = f[j] => i = j
    BY <1>1, <1>2
  <2> HIDE DEF S, T, f
  <2>3. QED
    BY <2>1, <2>2 DEF Injection, IsInjective
<1>5. IsFiniteSet(S)
  BY <1>1, MissedType
<1>6. QED
  BY <1>4, <1>5, FS_Injection

-----------------------------------------------------------------------------

\* What the recovery knows before it reads a log, and what a log changes of it.
NothingKnown == [n |-> [m \in Product |-> 0], q |-> [m \in Product |-> Free]]
Recalled(k, log) ==
    [n |-> [m \in Product |-> Failures(m, k.n[m], log.res[m])],
     q |-> [m \in Product |-> Aside(k.q[m], m, k.n[m], log.res[m], log.age)]]

\* g is a value of the recursion of FromLogs on the first n logs.
RecallOn(g, n) ==
    g = [i \in 0 .. n |-> IF i = 0 THEN NothingKnown ELSE Recalled(g[i - 1], logs[i])]

\* What is recalled of m after n logs is no more than they tell of.
RecallIs(k, m, n) ==
    LET told == Cardinality(Missed(logs, m, n))
    IN /\ k.n[m] \in 0 .. FailLimit /\ k.n[m] <= told
       /\ k.q[m] \in {Free} \cup 0 .. MaxAge
       /\ k.q[m] # Free => told >= (IF m \in Catalogue THEN 1 ELSE FailLimit)

LEMMA FromLogsIs == FromLogs = (CHOOSE g : RecallOn(g, Len(logs)))[Len(logs)]
BY Zenon DEF FromLogs, RecallOn, NothingKnown, Recalled

LEMMA RecallAt ==
  ASSUME NEW n \in Nat, NEW g, RecallOn(g, n), NEW i \in 0 .. n
  PROVE  g[i] = IF i = 0 THEN NothingKnown ELSE Recalled(g[i - 1], logs[i])
BY DEF RecallOn

\* The recursion has a value.
LEMMA RecallExists ==
  ASSUME NEW n \in Nat
  PROVE  \E g : RecallOn(g, n)
<1> DEFINE Bad == {k \in Nat : ~ \E g : RecallOn(g, k)}
<1> SUFFICES ASSUME Bad # {} PROVE FALSE
  OBVIOUS
<1>1. PICK k \in Bad : \A j \in Bad : k <= j
  <2>1. Bad \subseteq Nat
    OBVIOUS
  <2> HIDE DEF Bad
  <2>2. QED
    BY <2>1, LeastNumber
<1>2. CASE k = 0
  <2>1. RecallOn([i \in 0 .. 0 |-> NothingKnown], 0)
    BY DEF RecallOn
  <2>2. QED
    BY <1>2, <2>1
<1>3. CASE k # 0
  <2>1. k - 1 \in Nat /\ k - 1 \notin Bad /\ k \in Nat
    BY <1>1, <1>3
  <2>2. PICK h : RecallOn(h, k - 1)
    BY <2>1
  <2> DEFINE g == [i \in 0 .. k |-> IF i = k THEN Recalled(h[k - 1], logs[k]) ELSE h[i]]
  <2>3. \A i \in 0 .. k - 1 : i \in 0 .. k /\ g[i] = h[i]
    BY <2>1
  <2>4. g[k] = Recalled(h[k - 1], logs[k]) /\ g[k - 1] = h[k - 1]
    BY <1>3, <2>1
  <2>5. ASSUME NEW i \in 0 .. k
        PROVE  g[i] = IF i = 0 THEN NothingKnown ELSE Recalled(g[i - 1], logs[i])
    <3>1. CASE i = k
      BY <1>3, <2>4, <3>1
    <3>2. CASE i # k
      <4>1. i \in 0 .. k - 1 /\ (i # 0 => i - 1 \in 0 .. k - 1)
        BY <2>1, <3>2
      <4>2. h[i] = IF i = 0 THEN NothingKnown ELSE Recalled(h[i - 1], logs[i])
        BY <2>1, <2>2, <4>1, RecallAt
      <4> HIDE DEF g
      <4>3. QED
        BY <2>3, <4>1, <4>2
    <3>3. QED
      BY <3>1, <3>2
  <2>6. g = [i \in 0 .. k |-> g[i]]
    OBVIOUS
  <2>7. RecallOn(g, k)
    <3> HIDE DEF g
    <3>1. QED
      BY <2>5, <2>6 DEF RecallOn
  <2>8. QED
    BY <2>7
<1>4. QED
  BY <1>2, <1>3

\* One log more.
LEMMA RecallStep ==
  ASSUME logs \in Seq(Log), NEW m \in Product, NEW n \in 1 .. Len(logs), NEW k,
         RecallIs(k, m, n - 1)
  PROVE  RecallIs(Recalled(k, logs[n]), m, n)
<1> DEFINE res == logs[n].res[m]
           age == logs[n].age
           old == Cardinality(Missed(logs, m, n - 1))
           new == Cardinality(Missed(logs, m, n))
           c   == k.n[m]
           q   == k.q[m]
           c1  == Failures(m, c, res)
           q1  == Aside(q, m, c, res, age)
           r   == Recalled(k, logs[n])
<1>1. n - 1 \in Nat /\ n \in Nat /\ logs[n] \in Log
  OBVIOUS
<1>2. age \in 0 .. MaxAge
  BY <1>1, LimitsAre DEF Log
<1>3. old \in Nat /\ new \in Nat
  BY <1>1, MissedType
<1>4. /\ res \in Ended
      /\ res = "SUCCESS" => new = 0
      /\ res = "NOT_FOUND" => new = old + 1
      /\ res = "none" => new = old
  BY MissedWithOneMore, FS_EmptySet
<1>5. /\ c \in 0 .. FailLimit /\ c <= old /\ q \in {Free} \cup 0 .. MaxAge
      /\ q # Free => old >= (IF m \in Catalogue THEN 1 ELSE FailLimit)
  BY DEF RecallIs
<1>6. r.n[m] = c1 /\ r.q[m] = q1
  BY DEF Recalled
<1> HIDE DEF res, age, old, new, c, q, r
<1>7. FailLimit \in Nat /\ FailLimit >= 1 /\ c + 1 \in Nat
  BY <1>5, LimitsAre
<1>8. Min({c + 1, FailLimit}) = IF c + 1 <= FailLimit THEN c + 1 ELSE FailLimit
  BY <1>7, LeastOfTwo
<1>9. c1 \in 0 .. FailLimit /\ c1 <= new
  BY <1>3, <1>4, <1>5, <1>7, <1>8 DEF Failures, Ended
<1>10. q1 \in {Free} \cup 0 .. MaxAge
  BY <1>2, <1>5 DEF Aside
<1>11. ASSUME q1 # Free PROVE new >= (IF m \in Catalogue THEN 1 ELSE FailLimit)
  <2>1. res # "SUCCESS"
    BY <1>11 DEF Aside
  <2>2. CASE SetsAside(m, c, res)
    BY <1>3, <1>4, <1>7, <1>9, <2>2 DEF SetsAside
  <2>3. CASE ~ SetsAside(m, c, res)
    <3>1. q # Free
      BY <1>11, <2>1, <2>3 DEF Aside
    <3>2. new >= old
      BY <1>3, <1>4, <2>1 DEF Ended
    <3>3. QED
      BY <1>3, <1>5, <1>7, <3>1, <3>2
  <2>4. QED
    BY <2>2, <2>3
<1> HIDE DEF c1, q1
<1>12. QED
  BY <1>6, <1>9, <1>10, <1>11 DEF RecallIs, new, r

\* What load_recent_failure_history returns.
LEMMA RecallOfLogs ==
  ASSUME logs \in Seq(Log)
  PROVE  /\ FromLogs.n = [m \in Product |-> FromLogs.n[m]]
         /\ FromLogs.q = [m \in Product |-> FromLogs.q[m]]
         /\ \A m \in Product : RecallIs(FromLogs, m, Len(logs))
<1> DEFINE N == Len(logs)
<1>1. N \in Nat
  OBVIOUS
<1>2. PICK g : RecallOn(g, N) /\ FromLogs = g[N]
  BY <1>1, RecallExists, FromLogsIs
<1>3. \A i \in 0 .. N : g[i] = IF i = 0 THEN NothingKnown ELSE Recalled(g[i - 1], logs[i])
  BY <1>1, <1>2, RecallAt
<1>4. /\ g[N].n = [m \in Product |-> g[N].n[m]]
      /\ g[N].q = [m \in Product |-> g[N].q[m]]
  <2>1. g[N] = NothingKnown \/ g[N] = Recalled(g[N - 1], logs[N])
    BY <1>1, <1>3
  <2>2. QED
    BY <2>1 DEF NothingKnown, Recalled
<1>5. ASSUME NEW m \in Product PROVE RecallIs(g[N], m, N)
  <2> DEFINE Bad == {i \in 0 .. N : ~ RecallIs(g[i], m, i)}
  <2> SUFFICES ASSUME Bad # {} PROVE FALSE
    BY <1>1
  <2>1. PICK i \in Bad : \A j \in Bad : i <= j
    <3>1. Bad \subseteq Nat
      BY <1>1
    <3> HIDE DEF Bad
    <3>2. QED
      BY <3>1, LeastNumber
  <2>2. CASE i = 0
    <3>1. g[0] = NothingKnown
      BY <1>1, <1>3
    <3>2. Cardinality(Missed(logs, m, 0)) \in Nat
      BY MissedType
    <3>3. RecallIs(NothingKnown, m, 0)
      BY <3>2, LimitsAre DEF RecallIs, NothingKnown, Free
    <3>4. QED
      BY <2>2, <3>1, <3>3
  <2>3. CASE i # 0
    <3>1. i - 1 \in 0 .. N /\ i - 1 \notin Bad /\ i \in 1 .. N
      BY <1>1, <2>1, <2>3
    <3>2. RecallIs(g[i - 1], m, i - 1)
      BY <3>1
    <3>3. g[i] = Recalled(g[i - 1], logs[i])
      BY <1>3, <2>3
    <3>4. RecallIs(g[i], m, i)
      BY <3>1, <3>2, <3>3, RecallStep
    <3>5. QED
      BY <3>4
  <2>4. QED
    BY <2>2, <2>3
<1>6. QED
  BY <1>2, <1>4, <1>5

-----------------------------------------------------------------------------

LEMMA RememberInit == Init => Remembered
<1> SUFFICES ASSUME Init PROVE Remembered
  OBVIOUS
<1>1. /\ fails = [m \in Product |-> 0] /\ misses = fails /\ quar = [m \in Product |-> Free]
      /\ logs = <<>> /\ stale = FALSE
  BY DEF Init
<1>2. \A m \in Product : Cardinality(Missed(logs, m, Len(logs))) = 0
  <2>1. SUFFICES ASSUME NEW m \in Product PROVE Missed(logs, m, Len(logs)) = {}
    BY FS_EmptySet
  <2>2. QED
    BY <1>1 DEF Missed
<1>3. QED
  BY <1>1, <1>2, LimitsAre DEF Remembered, QuarantineIsEarned

\* Quarantines may end, the rest of the memory is kept.
LEMMA ReleaseKeeps ==
  ASSUME Remembered, quar' = Released, UNCHANGED <<fails, logs, misses>>, stale' = FALSE
  PROVE  Remembered'
<1>1. \A m \in Product : quar'[m] \in {Free, quar[m]}
  BY DEF Released
<1>2. quar' \in [Product -> {Free} \cup 0 .. MaxAge]
  <2>1. quar' = [m \in Product |-> quar'[m]]
    BY DEF Released
  <2>2. \A m \in Product : quar[m] \in {Free} \cup 0 .. MaxAge
    BY DEF Remembered
  <2>3. QED
    BY <1>1, <2>1, <2>2
<1>3. QuarantineIsEarned'
  BY <1>1 DEF Remembered, QuarantineIsEarned
<1>4. QED
  BY <1>2, <1>3 DEF Remembered

LEMMA OthersRemember ==
  ASSUME Remembered, UNCHANGED <<fails, quar, logs, misses, stale>>
  PROVE  Remembered'
BY DEF Remembered, QuarantineIsEarned

LEMMA MidnightRemembers ==
  ASSUME Remembered, Midnight
  PROVE  Remembered'
<1>1. logs' = <<>> /\ UNCHANGED <<fails, quar, misses>>
  BY DEF Midnight, memVars
<1>2. \A m \in Product : Cardinality(Missed(logs', m, Len(logs'))) = 0
  <2>1. SUFFICES ASSUME NEW m \in Product PROVE Missed(logs', m, Len(logs')) = {}
    BY FS_EmptySet
  <2>2. QED
    BY <1>1 DEF Missed
<1>3. \A m \in Product : misses[m] >= 0
  BY LimitsAre DEF Remembered
<1>4. QED
  BY <1>1, <1>2, <1>3, LimitsAre DEF Remembered, QuarantineIsEarned

LEMMA MainStopsRemembers ==
  ASSUME Remembered, MainStops
  PROVE  Remembered'
<1>1. /\ fails' = [m \in Product |-> 0] /\ quar' = [m \in Product |-> Free]
      /\ stale' = FALSE /\ UNCHANGED <<logs, misses>>
  BY DEF MainStops, diskVars
<1>2. fails' \in [Product -> 0 .. FailLimit] /\ quar' \in [Product -> {Free} \cup 0 .. MaxAge]
  BY <1>1, LimitsAre
<1>3. \A m \in Product : fails'[m] <= misses[m]
  BY <1>1, LimitsAre DEF Remembered
<1>4. QuarantineIsEarned'
  BY <1>1 DEF QuarantineIsEarned
<1>5. QED
  BY <1>1, <1>2, <1>3, <1>4 DEF Remembered

LEMMA MainStartsRemembers ==
  ASSUME Remembered, MainStarts
  PROVE  Remembered'
<1>1. fails' = FromLogs.n /\ quar' = FromLogs.q /\ UNCHANGED <<logs, misses, stale>>
  BY DEF MainStarts, diskVars
<1>2. logs \in Seq(Log) /\ Len(logs) \in Nat
  BY DEF Remembered
<1>3. /\ fails' = [m \in Product |-> fails'[m]] /\ quar' = [m \in Product |-> quar'[m]]
      /\ \A m \in Product : RecallIs(FromLogs, m, Len(logs))
  BY <1>1, <1>2, RecallOfLogs
<1>4. ASSUME NEW m \in Product
      PROVE  /\ fails'[m] \in 0 .. FailLimit /\ quar'[m] \in {Free} \cup 0 .. MaxAge
             /\ fails'[m] <= misses[m]
             /\ quar'[m] # Free => misses[m] >= (IF m \in Catalogue THEN 1 ELSE FailLimit)
  <2> DEFINE told == Cardinality(Missed(logs, m, Len(logs)))
  <2>1. /\ fails'[m] \in 0 .. FailLimit /\ fails'[m] <= told
        /\ quar'[m] \in {Free} \cup 0 .. MaxAge
        /\ quar'[m] # Free => told >= (IF m \in Catalogue THEN 1 ELSE FailLimit)
    BY <1>1, <1>3 DEF RecallIs
  <2>2. told \in Nat
    BY <1>2, MissedType
  <2>3. misses[m] \in 0 .. FailLimit /\ (misses[m] = FailLimit \/ told <= misses[m])
    BY DEF Remembered
  <2> HIDE DEF told
  <2>4. QED
    BY <2>1, <2>2, <2>3, LimitsAre
<1>5. fails' \in [Product -> 0 .. FailLimit] /\ quar' \in [Product -> {Free} \cup 0 .. MaxAge]
  BY <1>3, <1>4
<1>6. QuarantineIsEarned'
  BY <1>1, <1>4 DEF QuarantineIsEarned
<1>7. QED
  BY <1>1, <1>4, <1>5, <1>6 DEF Remembered

\* The largest of some numbers and 0.
LEMMA LargestOrZero ==
  ASSUME NEW n \in Nat, NEW S, S \subseteq 1 .. n
  PROVE  /\ Max({0} \cup S) \in 0 .. n
         /\ \A i \in S : i <= Max({0} \cup S)
<1> DEFINE T == {0} \cup S
           C == {n - i : i \in T}
<1>1. C \subseteq Nat /\ C # {}
  OBVIOUS
<1>2. PICK c \in C : \A y \in C : c <= y
  <2> HIDE DEF C
  <2>1. QED
    BY <1>1, LeastNumber
<1>3. PICK x \in T : c = n - x
  OBVIOUS
<1>4. \A y \in T : x >= y
  <2>1. SUFFICES ASSUME NEW y \in T PROVE x >= y
    OBVIOUS
  <2>2. n - y \in C /\ c <= n - y
    BY <1>2
  <2>3. x \in Int /\ y \in Int
    OBVIOUS
  <2>4. QED
    BY <1>3, <2>2, <2>3
<1>5. Max(T) \in T /\ \A y \in T : Max(T) >= y
  <2> HIDE DEF T
  <2>1. QED
    BY <1>3, <1>4 DEF Max
<1>6. Max(T) \in 0 .. n
  <2>1. T \subseteq 0 .. n
    OBVIOUS
  <2> HIDE DEF T
  <2>2. QED
    BY <1>5, <2>1
<1>7. \A i \in S : i \in Nat /\ i <= Max(T)
  <2>1. \A i \in S : i \in T
    OBVIOUS
  <2>2. \A y \in T : y \in Int
    OBVIOUS
  <2> HIDE DEF T
  <2>3. QED
    BY <1>5, <1>6, <2>1, <2>2
<1>8. QED
  BY <1>6, <1>7

\* The logs of four hours ago are dropped; a quarantine gets older.
LEMMA TickRemembers ==
  ASSUME Remembered, Tick
  PROVE  Remembered'
<1> DEFINE aged == [i \in DOMAIN logs |-> [logs[i] EXCEPT !.age = @ + 1]]
           past == {i \in DOMAIN logs : ~ Recent(aged[i])}
           k == Max({0} \cup past)
           N == Len(logs)
<1>1. /\ quar' = [m \in Product |-> Older(quar[m])]
      /\ logs' = SubSeq(aged, k + 1, N)
      /\ UNCHANGED <<fails, misses, stale>>
  BY DEF Tick
<1>2. logs \in Seq(Log) /\ N \in Nat /\ DOMAIN logs = 1 .. N /\ N <= Lookback
  BY DEF Remembered
<1>3. k \in 0 .. N /\ \A i \in past : i <= k
  <2>1. past \subseteq 1 .. N
    BY <1>2
  <2> HIDE DEF past
  <2>2. QED
    BY <1>2, <2>1, LargestOrZero
<1>4. ASSUME NEW j \in k + 1 .. N
      PROVE  aged[j] \in Log /\ aged[j].res = logs[j].res
  <2>1. j \in 1 .. N /\ j > k
    BY <1>2, <1>3
  <2>2. logs[j] \in Log /\ aged[j] = [logs[j] EXCEPT !.age = @ + 1]
    BY <1>2, <2>1
  <2>3. Recent(aged[j])
    <3>1. j \notin past
      <4> HIDE DEF past, k
      <4>1. k \in Int /\ (j \in past => j <= k)
        BY <1>2, <1>3
      <4>2. QED
        BY <2>1, <4>1
    <3>2. j \in DOMAIN logs
      BY <1>2, <2>1
    <3> HIDE DEF aged, k
    <3>3. QED
      BY <3>1, <3>2
  <2> DEFINE l == logs[j]
             x == aged[j]
  <2>4. l \in Log /\ x = [l EXCEPT !.age = @ + 1] /\ Recent(x)
    BY <2>2, <2>3
  <2> HIDE DEF l, x
  <2>5. /\ x = [age |-> l.age + 1, res |-> l.res]
        /\ l.age \in Nat /\ l.res \in [Product -> Ended]
    BY <2>4, LimitsAre DEF Log
  <2>6. x \in Log /\ x.res = l.res
    BY <2>4, <2>5, LimitsAre DEF Log, Recent
  <2>7. QED
    BY <2>6 DEF l, x
<1>5. /\ SubSeq(aged, k + 1, N) \in Seq(Log)
      /\ Len(SubSeq(aged, k + 1, N)) = IF k + 1 <= N THEN N - (k + 1) + 1 ELSE 0
      /\ \A i \in 1 .. N - (k + 1) + 1 : SubSeq(aged, k + 1, N)[i] = aged[(k + 1) + i - 1]
  <2> HIDE DEF aged, k
  <2>1. k + 1 \in Int /\ N \in Int
    BY <1>2, <1>3
  <2>2. QED
    BY <1>4, <2>1, SubSeqProperties
<1>6. /\ logs' \in Seq(Log) /\ Len(logs') = N - k
      /\ \A i \in 1 .. Len(logs') : logs'[i].res = logs[i + k].res
  <2> HIDE DEF aged, k
  <2>1. logs' \in Seq(Log) /\ Len(logs') = N - k
    <3>1. k \in Int /\ k <= N /\ N \in Int
      BY <1>2, <1>3
    <3> DEFINE later == SubSeq(aged, k + 1, N)
    <3>2. later \in Seq(Log) /\ Len(later) = IF k + 1 <= N THEN N - (k + 1) + 1 ELSE 0
      BY <1>5
    <3>3. logs' = later
      BY <1>1
    <3> HIDE DEF later, N
    <3>4. QED
      BY <3>1, <3>2, <3>3
  <2>2. ASSUME NEW i \in 1 .. N - k PROVE logs'[i].res = logs[i + k].res
    <3>1. i \in 1 .. N - (k + 1) + 1 /\ (k + 1) + i - 1 = i + k /\ i + k \in k + 1 .. N
      BY <1>2, <1>3
    <3>2. logs'[i] = aged[i + k]
      BY <1>1, <1>5, <3>1
    <3>3. QED
      BY <1>4, <3>1, <3>2
  <2>3. QED
    BY <2>1, <2>2
<1>7. ASSUME NEW m \in Product
      PROVE  misses[m] = FailLimit \/ Cardinality(Missed(logs', m, Len(logs'))) <= misses[m]
  <2>1. Cardinality(Missed(logs', m, Len(logs'))) <= Cardinality(Missed(logs, m, N))
    <3> HIDE DEF k
    <3>1. k \in Nat /\ N = Len(logs') + k
      BY <1>2, <1>3, <1>6
    <3>2. QED
      BY <1>2, <1>6, <3>1, MissedOfLater
  <2>2. Cardinality(Missed(logs', m, Len(logs'))) \in Nat /\ Cardinality(Missed(logs, m, N)) \in Nat
    BY <1>2, <1>6, MissedType
  <2>3. misses[m] \in Nat /\ (misses[m] = FailLimit \/ Cardinality(Missed(logs, m, N)) <= misses[m])
    BY LimitsAre DEF Remembered
  <2>4. QED
    BY <2>1, <2>2, <2>3
<1>8. quar' \in [Product -> {Free} \cup 0 .. MaxAge]
  <2>1. ASSUME NEW m \in Product PROVE Older(quar[m]) \in {Free} \cup 0 .. MaxAge
    <3>1. quar[m] \in {Free} \cup 0 .. MaxAge
      BY DEF Remembered
    <3>2. QED
      BY <3>1, LimitsAre DEF Older
  <2>2. QED
    BY <1>1, <2>1
<1>9. QuarantineIsEarned'
  <2>1. \A m \in Product : quar'[m] # Free => quar[m] # Free
    BY <1>1 DEF Older
  <2>2. QED
    BY <1>1, <2>1 DEF Remembered, QuarantineIsEarned
<1>10. Len(logs') <= Lookback
  BY <1>2, <1>3, <1>6, LimitsAre
<1>11. stale' => logs' = <<>>
  <2>1. SUFFICES ASSUME stale PROVE logs' = <<>>
    BY <1>1
  <2>2. N = 0
    BY <2>1 DEF Remembered
  <2>3. Len(logs') = 0
    BY <1>2, <1>3, <1>6, <2>2
  <2>4. QED
    BY <1>6, <2>3
<1>12. QED
  BY <1>1, <1>6, <1>7, <1>8, <1>9, <1>10, <1>11 DEF Remembered

\* How a cycle ended for a product is one of three ends, once no worker runs.
LEMMA ResultIs ==
  ASSUME Shape, \A d \in Phone : task[d].end # "run", NEW m \in Product
  PROVE  Result(m) \in Ended
<1> DEFINE of == {d \in Phone : task[d].mid = m /\ task[d].end # "OTHER"}
<1>1. CASE of = {}
  BY <1>1 DEF Result, Ended
<1>2. CASE of # {}
  <2> DEFINE d == CHOOSE x \in of : TRUE
  <2>1. d \in of
    BY <1>2
  <2>2. Result(m) = task[d].end
    BY <1>2 DEF Result
  <2> HIDE DEF d
  <2>3. d \in Phone /\ task[d].mid = m /\ task[d].end # "OTHER" /\ task[d].end # "run"
    BY <2>1
  <2>4. task[d] \in Task /\ task[d] # NoTask
    BY <2>3, NoTaskIs DEF Shape
  <2>5. QED
    BY <2>2, <2>3, <2>4, TaskFields DEF Outcome, Ended
<1>3. QED
  BY <1>1, <1>2

\* The greatest of two numbers is the greatest of the set of both.
LEMMA GreatestOfTwo ==
  ASSUME NEW a \in Int, NEW b \in Int
  PROVE  Max({a, b}) = IF a <= b THEN b ELSE a
BY DEF Max

\* The files the recovery reads are the last Lookback ones.
LEMMA LatestIs ==
  ASSUME NEW s \in Seq(Log)
  PROVE  /\ Latest(s) \in Seq(Log) /\ Len(Latest(s)) <= Lookback
         /\ \A m \in Product :
               Cardinality(Missed(Latest(s), m, Len(Latest(s)))) <=
                  Cardinality(Missed(s, m, Len(s)))
<1> DEFINE N == Len(s)
           f == Max({1, N - Lookback + 1})
           t == SubSeq(s, f, N)
<1>1. N \in Nat /\ Lookback \in Nat /\ Lookback >= 1
  BY LimitsAre
<1>2. f = IF N - Lookback + 1 >= 1 THEN N - Lookback + 1 ELSE 1
  <2> HIDE DEF N
  <2>1. 1 \in Int /\ N - Lookback + 1 \in Int
    BY <1>1
  <2>2. f = IF 1 <= N - Lookback + 1 THEN N - Lookback + 1 ELSE 1
    BY <2>1, GreatestOfTwo
  <2>3. QED
    BY <1>1, <2>2
<1>3. Latest(s) = t
  BY DEF Latest
<1>4. f \in Nat /\ f >= 1 /\ f <= N + 1 /\ N - (f - 1) <= Lookback
  <2> HIDE DEF N, f
  <2>1. QED
    BY <1>1, <1>2
<1>5. \A i \in f .. N : s[i] \in Log
  <2> HIDE DEF f
  <2>1. QED
    BY <1>1, <1>4
<1>6. /\ t \in Seq(Log)
      /\ Len(t) = IF f <= N THEN N - f + 1 ELSE 0
      /\ \A i \in 1 .. N - f + 1 : t[i] = s[f + i - 1]
  <2> HIDE DEF N, f
  <2>1. f \in Int /\ N \in Int
    BY <1>1, <1>4
  <2>2. QED
    BY <1>5, <2>1, SubSeqProperties
<1> HIDE DEF t, f
<1>7. Len(t) = N - (f - 1) /\ Len(t) \in Nat /\ f - 1 \in Nat /\ N = Len(t) + (f - 1)
  BY <1>1, <1>4, <1>6
<1>8. \A i \in 1 .. Len(t) : t[i].res = s[i + (f - 1)].res
  <2>1. SUFFICES ASSUME NEW i \in 1 .. Len(t) PROVE t[i] = s[i + (f - 1)]
    OBVIOUS
  <2>2. i \in 1 .. N - f + 1 /\ f + i - 1 = i + (f - 1)
    BY <1>1, <1>4, <1>7
  <2>3. QED
    BY <1>6, <2>2
<1>9. \A m \in Product :
         Cardinality(Missed(t, m, Len(t))) <= Cardinality(Missed(s, m, Len(s)))
  BY <1>6, <1>7, <1>8, MissedOfLater
<1>10. QED
  BY <1>3, <1>4, <1>6, <1>7, <1>9

\* A log with one cycle more tells of one miss more at most.
LEMMA LoggedMisses ==
  ASSUME NEW s \in Seq(Log), NEW log \in Log, NEW m \in Product
  PROVE  LET all == Append(s, log)
             told == Cardinality(Missed(s, m, Len(s)))
             new == Cardinality(Missed(all, m, Len(all)))
         IN /\ all \in Seq(Log)
            /\ told \in Nat /\ new \in Nat
            /\ new = CASE log.res[m] = "SUCCESS" -> 0
                       [] log.res[m] = "NOT_FOUND" -> told + 1
                       [] OTHER -> told
<1> DEFINE N == Len(s)
           all == Append(s, log)
           old == Missed(all, m, N)
<1>1. N \in Nat
  OBVIOUS
<1>2. /\ all \in Seq(Log) /\ Len(all) = N + 1 /\ all[N + 1] = log
      /\ \A i \in 1 .. N : all[i] = s[i]
  BY AppendProperties
<1>3. old = Missed(s, m, N)
  <2>1. \A i \in 1 .. N : i .. N \subseteq 1 .. N
    BY <1>1
  <2> HIDE DEF all, N
  <2>2. QED
    BY <1>2, <2>1 DEF Missed
<1>4. N + 1 \in 1 .. Len(all) /\ (N + 1) - 1 = N
  BY <1>1, <1>2
<1>5. /\ log.res[m] \in Ended
      /\ log.res[m] = "SUCCESS" => Missed(all, m, N + 1) = {}
      /\ log.res[m] = "NOT_FOUND" => Cardinality(Missed(all, m, N + 1)) = Cardinality(old) + 1
      /\ log.res[m] = "none" => Missed(all, m, N + 1) = old
  <2> HIDE DEF all, N
  <2>1. QED
    BY <1>2, <1>4, MissedWithOneMore
<1>6. Cardinality(old) \in Nat /\ Cardinality(Missed(all, m, Len(all))) \in Nat
  BY <1>1, <1>2, MissedType
<1>7. QED
  BY <1>2, <1>3, <1>5, <1>6, FS_EmptySet DEF Ended

\* What main evaluates, and what the log tells of, is no more than the misses.
LEMMA CycleEndsRemembers ==
  ASSUME Shape, Remembered, CycleEnds
  PROVE  Remembered'
<1> DEFINE log == [age |-> 0, res |-> [m \in Product |-> Result(m)]]
           all == Append(logs, log)
<1>1. /\ fails' = [m \in Product |-> Failures(m, fails[m], Result(m))]
      /\ quar' = [m \in Product |->
                     IF quar[m] # Free /\ Result(m) # "SUCCESS" THEN quar[m]
                     ELSE Aside(quar[m], m, fails[m], Result(m), 0)]
      /\ logs' = IF stale THEN logs ELSE Latest(all)
      /\ misses' = [m \in Product |-> CASE Result(m) = "SUCCESS"   -> 0
                                        [] Result(m) = "NOT_FOUND" -> Min({misses[m] + 1, FailLimit})
                                        [] OTHER                   -> misses[m]]
      /\ stale' = stale
  BY DEF CycleEnds
<1>2. \A m \in Product : Result(m) \in Ended
  BY ResultIs DEF CycleEnds
<1>3. log \in Log
  BY <1>2, LimitsAre DEF Log
<1>4. logs \in Seq(Log) /\ Len(logs) <= Lookback /\ stale \in BOOLEAN
  BY DEF Remembered, Shape
<1>5. all \in Seq(Log)
  BY <1>3, <1>4, AppendProperties
<1>6. /\ logs' \in Seq(Log) /\ Len(logs') <= Lookback
      /\ stale' => logs' = <<>>
  <2> HIDE DEF all, log
  <2>1. QED
    BY <1>1, <1>4, <1>5, LatestIs DEF Remembered
<1>7. ASSUME NEW m \in Product
      PROVE  LET told == Cardinality(Missed(logs, m, Len(logs)))
                 new == Cardinality(Missed(logs', m, Len(logs')))
             IN /\ told \in Nat /\ new \in Nat
                /\ new <= CASE Result(m) = "SUCCESS" -> 0
                            [] Result(m) = "NOT_FOUND" -> told + 1
                            [] OTHER -> told
  <2> DEFINE told == Cardinality(Missed(logs, m, Len(logs)))
             new == Cardinality(Missed(logs', m, Len(logs')))
             most == Cardinality(Missed(all, m, Len(all)))
  <2>1. log.res[m] = Result(m)
    OBVIOUS
  <2>2. /\ told \in Nat /\ most \in Nat
        /\ most = CASE Result(m) = "SUCCESS" -> 0
                    [] Result(m) = "NOT_FOUND" -> told + 1
                    [] OTHER -> told
    <3> HIDE DEF log
    <3>1. QED
      BY <1>3, <1>4, <2>1, LoggedMisses
  <2>3. new \in Nat
    BY <1>6, MissedType
  <2>4. CASE stale
    <3>1. logs' = <<>>
      BY <1>1, <1>6, <2>4
    <3>2. Missed(logs', m, Len(logs')) = {}
      BY <3>1 DEF Missed
    <3>3. new = 0
      BY <3>2, FS_EmptySet
    <3> HIDE DEF told, new, most
    <3>4. QED
      BY <2>2, <2>3, <3>3 DEF told, new
  <2>5. CASE ~ stale
    <3>1. logs' = Latest(all)
      BY <1>1, <2>5
    <3> HIDE DEF all
    <3>2. new <= most
      BY <1>5, <3>1, LatestIs
    <3> HIDE DEF told, new, most
    <3>3. QED
      BY <2>2, <2>3, <3>2 DEF told, new
  <2>6. QED
    BY <1>4, <2>4, <2>5
<1>8. ASSUME NEW m \in Product
      PROVE  /\ fails'[m] \in 0 .. FailLimit /\ misses'[m] \in 0 .. FailLimit
             /\ fails'[m] <= misses'[m]
             /\ misses'[m] = FailLimit \/ Cardinality(Missed(logs', m, Len(logs'))) <= misses'[m]
             /\ quar'[m] \in {Free} \cup 0 .. MaxAge
             /\ quar'[m] # Free => misses'[m] >= (IF m \in Catalogue THEN 1 ELSE FailLimit)
  <2> DEFINE res == Result(m)
             told == Cardinality(Missed(logs, m, Len(logs)))
             new == Cardinality(Missed(logs', m, Len(logs')))
             c  == fails[m]
             h  == misses[m]
             q  == quar[m]
             c1 == fails'[m]
             h1 == misses'[m]
             q1 == quar'[m]
  <2>1. /\ c1 = Failures(m, c, res)
        /\ h1 = CASE res = "SUCCESS" -> 0
                  [] res = "NOT_FOUND" -> Min({h + 1, FailLimit})
                  [] OTHER -> h
        /\ q1 = IF q # Free /\ res # "SUCCESS" THEN q ELSE Aside(q, m, c, res, 0)
    BY <1>1
  <2>2. /\ c \in 0 .. FailLimit /\ h \in 0 .. FailLimit /\ c <= h
        /\ q \in {Free} \cup 0 .. MaxAge
        /\ h = FailLimit \/ told <= h
        /\ q # Free => h >= (IF m \in Catalogue THEN 1 ELSE FailLimit)
    BY DEF Remembered, QuarantineIsEarned
  <2>3. /\ told \in Nat /\ new \in Nat
        /\ new <= CASE res = "SUCCESS" -> 0
                    [] res = "NOT_FOUND" -> told + 1
                    [] OTHER -> told
    BY <1>7
  <2>4. res \in Ended
    BY <1>2
  <2> HIDE DEF res, told, new, c, h, q, c1, h1, q1
  <2>5. FailLimit \in Nat /\ FailLimit >= 1 /\ c + 1 \in Nat /\ h + 1 \in Nat /\ MaxAge \in Nat
    BY <2>2, LimitsAre
  <2>6. /\ Min({c + 1, FailLimit}) = IF c + 1 <= FailLimit THEN c + 1 ELSE FailLimit
        /\ Min({h + 1, FailLimit}) = IF h + 1 <= FailLimit THEN h + 1 ELSE FailLimit
    BY <2>5, LeastOfTwo
  <2>7. /\ c1 \in 0 .. FailLimit /\ h1 \in 0 .. FailLimit /\ c1 <= h1
    BY <2>1, <2>2, <2>4, <2>5, <2>6 DEF Failures, Ended
  <2>8. h1 = FailLimit \/ new <= h1
    BY <2>1, <2>2, <2>3, <2>4, <2>5, <2>6 DEF Ended
  <2>9. q1 \in {Free} \cup 0 .. MaxAge
    BY <2>1, <2>2, <2>5 DEF Aside
  <2>10. ASSUME q1 # Free PROVE h1 >= (IF m \in Catalogue THEN 1 ELSE FailLimit)
    <3>1. res # "SUCCESS"
      BY <2>1, <2>10 DEF Aside
    <3>2. CASE q # Free
      BY <2>1, <2>2, <2>4, <2>5, <2>6, <3>1, <3>2 DEF Ended
    <3>3. CASE q = Free
      <4>1. SetsAside(m, c, res)
        BY <2>1, <2>10, <3>1, <3>3 DEF Aside
      <4>2. CASE m \in Catalogue
        BY <2>1, <2>2, <2>5, <2>6, <4>1, <4>2 DEF SetsAside
      <4>3. CASE m \notin Catalogue
        BY <2>1, <2>5, <2>7, <4>1, <4>3 DEF SetsAside
      <4>4. QED
        BY <4>2, <4>3
    <3>4. QED
      BY <3>2, <3>3
  <2>11. QED
    BY <2>7, <2>8, <2>9, <2>10 DEF new, c1, h1, q1
<1>9. /\ fails' \in [Product -> 0 .. FailLimit]
      /\ misses' \in [Product -> 0 .. FailLimit]
      /\ quar' \in [Product -> {Free} \cup 0 .. MaxAge]
  <2>1. /\ fails' = [m \in Product |-> fails'[m]] /\ misses' = [m \in Product |-> misses'[m]]
        /\ quar' = [m \in Product |-> quar'[m]]
    BY <1>1
  <2>2. QED
    BY <1>8, <2>1
<1>10. QuarantineIsEarned'
  BY <1>8 DEF QuarantineIsEarned
<1>11. QED
  BY <1>6, <1>8, <1>9, <1>10 DEF Remembered

-----------------------------------------------------------------------------

LEMMA MemoryStep ==
  ASSUME MemoryInv, [Next]_vars
  PROVE  Remembered'
<1>1. Shape /\ Remembered
  BY DEF MemoryInv, CycleInv
<1>2. CASE UNCHANGED vars
  BY <1>1, <1>2, OthersRemember DEF vars, memVars, diskVars
<1>3. CASE CycleSkipped \/ CycleBegins
  BY <1>1, <1>3, ReleaseKeeps DEF CycleSkipped, CycleBegins, diskVars
<1>4. ASSUME NEW d \in Phone,
             WorkerEnds(d) \/ WorkerBreaks(d) \/ \E n \in 1 .. MaxKills : OrphanEnds(n, d)
      PROVE  Remembered'
  BY <1>1, <1>4, OthersRemember DEF WorkerEnds, WorkerBreaks, OrphanEnds, memVars
<1>5. QED
  BY <1>1, <1>2, <1>3, <1>4, CycleEndsRemembers, TickRemembers, MidnightRemembers,
     MainStopsRemembers, MainStartsRemembers DEF Next

\* The inductive invariant of what main remembers of failures: neither its own
\* counts nor the logs a restart reads tell of more misses than there were.
THEOREM CycleMemoryInvariant == Spec => []MemoryInv
<1>1. Init => MemoryInv
  BY CycleInit, RememberInit DEF MemoryInv
<1>2. MemoryInv /\ [Next]_vars => MemoryInv'
  BY CycleStep, MemoryStep DEF MemoryInv
<1>3. QED
  BY <1>1, <1>2, PTL DEF Spec

\* main's memory, the tasks and the files have their types; the recovery reads
\* no more than the last Lookback logs, and none of four hours ago.
THEOREM CycleTypeOK == Spec => []TypeOK
<1>1. MemoryInv => TypeOK
  <2>1. SUFFICES ASSUME MemoryInv PROVE TypeOK
    OBVIOUS
  <2>2. Shape /\ Remembered
    BY <2>1 DEF MemoryInv, CycleInv
  <2>3. ASSUME NEW i \in DOMAIN logs
        PROVE  Recent(logs[i]) /\ logs[i].res \in [Product -> Ended]
    <3>1. logs[i] \in Log
      BY <2>2 DEF Remembered
    <3>2. QED
      BY <3>1, LimitsAre DEF Log, Recent
  <2>4. QED
    BY <2>2, <2>3 DEF TypeOK, Shape, IsTable, Remembered, Ended
<1>2. QED
  BY <1>1, CycleMemoryInvariant, PTL

\* A product is set aside only for misses it had since its last success, as many
\* as its kind takes, also when a restart read the quarantine in the logs.
THEOREM CycleQuarantineIsEarned == Spec => []QuarantineIsEarned
<1>1. MemoryInv => QuarantineIsEarned
  BY DEF MemoryInv, Remembered
<1>2. QED
  BY <1>1, CycleMemoryInvariant, PTL

=============================================================================
