-------------------------- MODULE TaskRunnerProofs --------------------------
(***************************************************************************)
(* Proofs about the task API and its clients, for any catalogue, fleet,    *)
(* pool and number of sendings.                                            *)
(*                                                                         *)
(* First part, TaskServer: types, the lease of a task, the accounting of   *)
(* tokens.  Every allocation either only sweeps the tasks table or inserts *)
(* rows for a list of products and tokens (lemma AllocateCases).  What the *)
(* two do to each conjunct of the inductive invariant is proved once, in   *)
(* the lemmas SweepKeeps and InsertKeeps.                                  *)
(*                                                                         *)
(* Second part, TaskServerBoth: what the two generations of the task API   *)
(* write to the same tables keeps ids apart and tokens counted.            *)
(*                                                                         *)
(* Third part, TaskRunner: what a handler of the server does to the rows   *)
(* of tasks is stated once for each of them (BatchRows, ReportRows,        *)
(* CompleteRows); the rest is about what the runners know of these rows.   *)
(***************************************************************************)
EXTENDS TaskRunner, TaskServerBoth, SumTheorems, FiniteSetTheorems, TLAPS

USE BoundsAssumption, WindowAssumption, CatalogueAssumption, ServiceAssumption

\* The rows of the batch an allocation may insert.
Batch(k, mids, kws, devs, toks) ==
    /\ k \in Nat
    /\ mids \in [1 .. k -> Mid]
    /\ kws \in [1 .. k -> Keyword \cup {Title}]
    /\ \A n \in 1 .. k : devs[n] \in Device
    /\ toks \in TokenPicks(k)
    /\ nextId + k - 1 <= MaxTaskId

LEMMA AgesAreNat == Age \subseteq Nat /\ \A a \in Age : Older(a) \in Age
BY DEF Age, Older

\* What the handlers do to one row leaves it a row.
LEMMA RowsStayRows ==
  ASSUME NEW t \in Task
  PROVE  /\ Swept(t) \in Task
         /\ [t EXCEPT !.age = Older(@), !.done = Older(@)] \in Task
         /\ \A st \in TaskStatus : [t EXCEPT !.status = st, !.done = 0] \in Task
<1>1. 0 \in Age /\ "TIMEOUT" \in TaskStatus
  BY DEF Age, TaskStatus
<1>2. Swept(t) \in Task
  BY <1>1 DEF Swept, Task
<1>3. [t EXCEPT !.age = Older(@), !.done = Older(@)] \in Task
  <2>1. t.age \in Age /\ t.done \in Age
    BY DEF Task
  <2>2. Older(t.age) \in Age /\ Older(t.done) \in Age
    BY <2>1, AgesAreNat
  <2>3. QED
    BY <2>2 DEF Task
<1>4. ASSUME NEW st \in TaskStatus PROVE [t EXCEPT !.status = st, !.done = 0] \in Task
  BY <1>1 DEF Task
<1>5. QED
  BY <1>2, <1>3, <1>4

LEMMA HitIsQuota == \A q \in Quota : Hit(q) \in Quota
<1> SUFFICES ASSUME NEW q \in Quota PROVE Hit(q) \in Quota
  OBVIOUS
<1>1. q.hits + 1 \in Nat /\ "COMPLETED" \in QuotaStatus /\ "IN_PROGRESS" \in QuotaStatus
  BY DEF Quota, QuotaStatus
<1>2. QED
  BY <1>1 DEF Hit, Quota

LEMMA MinOfNat == \A a, b \in Nat : MinOf(a, b) \in Nat /\ MinOf(a, b) <= a /\ MinOf(a, b) <= b
BY DEF MinOf

\* The tokens picked are mature rows of nnbs, all different.
LEMMA PicksAreDistinct ==
  ASSUME TypeOK, NEW k \in Nat, NEW toks \in TokenPicks(k)
  PROVE  /\ toks \in [1 .. k -> Mature]
         /\ Mature \subseteq 1 .. harvested
         /\ Mature \subseteq Token
         /\ \A i, j \in 1 .. k : toks[i] = toks[j] => i = j
<1>1. toks \in [1 .. k -> Mature] /\ \A i, j \in 1 .. k : i < j => Before(toks[i], toks[j])
  BY DEF TokenPicks
<1>2. Mature \subseteq 1 .. harvested /\ Mature \subseteq Token
  BY DEF Mature, TypeOK, Token
<1>3. \A t \in Token : ~Before(t, t)
  BY DEF Before, TypeOK, Nnb, Token
<1>4. ASSUME NEW i \in 1 .. k, NEW j \in 1 .. k, toks[i] = toks[j] PROVE i = j
  <2>1. ~(i < j) /\ ~(j < i)
    BY <1>1, <1>2, <1>3, <1>4
  <2>2. QED
    BY <2>1
<1>5. QED
  BY <1>1, <1>2, <1>4

\* A product leaves the pool with the phone that takes it.
LEMMA ProductsAreDistinct ==
  ASSUME NEW devs, NEW k \in Nat, NEW pool, NEW mids \in ProductPicks(devs, k, pool)
  PROVE  \A i, j \in 1 .. k : mids[i] = mids[j] => i = j
<1>1. \A d, left : Preferred(d, left) \subseteq left
  BY DEF Preferred
<1>2. ASSUME NEW i \in 1 .. k, NEW j \in 1 .. k, i < j PROVE mids[i] # mids[j]
  <2>1. mids[j] \in pool \ {mids[n] : n \in 1 .. (j - 1)}
    BY <1>1 DEF ProductPicks
  <2>2. i \in 1 .. (j - 1)
    BY <1>2
  <2>3. QED
    BY <2>1, <2>2
<1>3. ASSUME NEW i \in 1 .. k, NEW j \in 1 .. k, mids[i] = mids[j] PROVE i = j
  <2>1. ~(i < j) /\ ~(j < i)
    BY <1>2, <1>3
  <2>2. QED
    BY <2>1
<1>4. QED
  BY <1>3

\* A phone that gets a product of no site of its group left none in the pool: those
\* of its sites went to the phones before it.
OwnSitesFirst(k, pool, mids, devs) ==
    \A n \in 1 .. k, m \in pool :
        SitesOf[mids[n]] \cap GroupSites[devs[n]] = {} =>
           \/ SitesOf[m] \cap GroupSites[devs[n]] = {}
           \/ \E j \in 1 .. (n - 1) : mids[j] = m

LEMMA OwnSitesAreFirst ==
  ASSUME NEW devs, NEW k \in Nat, NEW pool, NEW mids \in ProductPicks(devs, k, pool)
  PROVE  OwnSitesFirst(k, pool, mids, devs)
<1> SUFFICES ASSUME NEW n \in 1 .. k, SitesOf[mids[n]] \cap GroupSites[devs[n]] = {},
                    NEW m \in pool, SitesOf[m] \cap GroupSites[devs[n]] # {}
             PROVE  \E j \in 1 .. (n - 1) : mids[j] = m
  BY DEF OwnSitesFirst
<1> DEFINE Rest == pool \ {mids[j] : j \in 1 .. (n - 1)}
<1>1. mids[n] \in Preferred(devs[n], Rest)
  BY DEF ProductPicks
<1>2. m \notin Rest
  <2> HIDE DEF Rest
  <2>1. QED
    BY <1>1 DEF Preferred
<1>3. QED
  BY <1>2

\* An allocation sweeps, or sweeps and inserts one batch of different phones
\* and products, all of them candidates.
LEMMA AllocateCases ==
  ASSUME TypeOK, NEW devs \in Batches, NEW excluded \in SUBSET Mid, Allocate(devs, excluded)
  PROVE  /\ devices' \in [Device -> DeviceStatus]
         /\ \/ SweepOnly
            \/ \E k \in Nat : \E mids, kws, toks :
                  /\ Batch(k, mids, kws, devs, toks) /\ Insert(k, mids, kws, devs, toks)
                  /\ \A i, j \in 1 .. k : mids[i] = mids[j] => i = j
                  /\ \A i, j \in 1 .. k : devs[i] = devs[j] => i = j
                  /\ \A i \in 1 .. k : mids[i] \in Candidates /\ i \in DOMAIN devs
<1>1. PICK n \in 1 .. Cardinality(Device) :
           /\ devs \in [1 .. n -> Device]
           /\ \A i, j \in 1 .. n : devs[i] = devs[j] => i = j
  BY DEF Batches
<1>2. n \in Nat /\ Cardinality(DOMAIN devs) = n
  BY <1>1, FS_Interval, FS_CardinalityType
<1>3. CASE Mature = {} /\ SweepOnly /\ UNCHANGED devices
  BY <1>3 DEF TypeOK
<1>4. CASE Mature # {} /\ MarkWorking(devs) /\ ~(Mature = {} /\ SweepOnly /\ UNCHANGED devices)
  <2> DEFINE wanted == MinOf(Cardinality(Mature), Cardinality(DOMAIN devs))
             pool   == Eligible(wanted, excluded)
             k      == MinOf(wanted, Cardinality(pool))
  <2>1. devices' \in [Device -> DeviceStatus]
    BY <1>4 DEF MarkWorking, TypeOK, DeviceStatus
  <2>2. \/ SweepOnly
        \/ /\ nextId + k - 1 <= MaxTaskId
           /\ \E mids \in ProductPicks(devs, k, pool), toks \in TokenPicks(k) :
                \E kws \in [1 .. k -> Keyword \cup {Title}] : Insert(k, mids, kws, devs, toks)
    BY <1>4 DEF Allocate
  <2>3. Mature \subseteq 1 .. harvested /\ harvested \in Nat
    BY DEF Mature, TypeOK
  <2>4. Cardinality(Mature) \in Nat
    <3>1. IsFiniteSet(1 .. harvested)
      BY <2>3, FS_Interval
    <3>2. IsFiniteSet(Mature)
      BY <2>3, <3>1, FS_Subset
    <3>3. QED
      BY <3>2, FS_CardinalityType
  <2>5. pool \subseteq Candidates /\ pool \subseteq Mid
    BY DEF Eligible, Candidates, Open
  <2>6. Cardinality(pool) \in Nat
    BY <2>5, FS_Subset, FS_CardinalityType
  <2>7. wanted \in Nat /\ wanted <= n
    BY <1>2, <2>4, MinOfNat
  <2>8. k \in Nat /\ k <= n
    BY <2>6, <2>7, MinOfNat
  <2>9. /\ \A i \in 1 .. k : devs[i] \in Device /\ i \in DOMAIN devs
        /\ \A i, j \in 1 .. k : devs[i] = devs[j] => i = j
    BY <1>1, <1>2, <2>8
  <2>10. \A p \in ProductPicks(devs, k, pool) :
            p \in [1 .. k -> Mid] /\ \A i \in 1 .. k : p[i] \in Candidates
    BY <2>5 DEF ProductPicks
  <2> HIDE DEF wanted, pool, k
  <2>11. \A p \in ProductPicks(devs, k, pool) : \A i, j \in 1 .. k : p[i] = p[j] => i = j
    BY <2>8, ProductsAreDistinct
  <2>12. QED
    BY <2>1, <2>2, <2>8, <2>9, <2>10, <2>11 DEF Batch
<1>5. QED
  BY <1>3, <1>4 DEF Allocate

-----------------------------------------------------------------------------

\* An inserted batch leaves the tables well typed.
LEMMA InsertTypes ==
  ASSUME TypeOK, devices' \in [Device -> DeviceStatus],
         NEW k \in Nat, NEW mids, NEW kws, NEW devs, NEW toks,
         Batch(k, mids, kws, devs, toks), Insert(k, mids, kws, devs, toks)
  PROVE  TypeOK'
<1>1. ASSUME NEW i \in TaskId PROVE tasks'[i] \in Task
  <2>1. CASE i \in NewIds(k)
    <3> DEFINE n == i - nextId + 1
    <3>1. n \in 1 .. k
      BY <2>1 DEF NewIds, TypeOK, TaskId
    <3>2. toks[n] \in Token
      BY <3>1, PicksAreDistinct DEF Batch
    <3>3. tasks'[i] = [status |-> "ASSIGNED", mid |-> mids[n], kw |-> kws[n],
                       store |-> StoreOf[mids[n]], token |-> toks[n],
                       device |-> devs[n], age |-> 0, done |-> MaxAge]
      BY <2>1 DEF Insert
    <3>4. mids[n] \in Mid /\ kws[n] \in Keyword \cup {Title} /\ devs[n] \in Device
      BY <3>1 DEF Batch
    <3>5. /\ "ASSIGNED" \in TaskStatus /\ 0 \in Age /\ MaxAge \in Age
          /\ StoreOf[mids[n]] \in Store \cup {None}
      BY <3>4 DEF TaskStatus, Age
    <3> HIDE DEF n
    <3>6. QED
      BY <3>2, <3>3, <3>4, <3>5 DEF Task
  <2>2. CASE i \notin NewIds(k)
    BY <2>2, RowsStayRows DEF Insert, TypeOK
  <2>3. QED
    BY <2>1, <2>2
<1>2. tasks' \in [TaskId -> Task]
  BY <1>1 DEF Insert
<1>3. nnbs' \in [Token -> Nnb]
  BY DEF Insert, UseCounted, TypeOK, Nnb
<1>4. nextId' \in Nat \ {0} /\ UNCHANGED <<harvested, quotas, exposed>>
  BY DEF Insert, TypeOK
<1>5. QED
  BY <1>2, <1>3, <1>4 DEF TypeOK

\* Type correctness: the tables hold what their columns are declared for.
LEMMA TypeStep == TypeOK /\ [Next]_vars => TypeOK'
<1> SUFFICES ASSUME TypeOK, [Next]_vars PROVE TypeOK'
  OBVIOUS
<1>1. ASSUME SweepOnly PROVE /\ tasks' \in [TaskId -> Task]
                             /\ UNCHANGED <<nextId, nnbs, harvested, quotas, exposed>>
  BY <1>1, RowsStayRows DEF SweepOnly, TypeOK
<1>2. CASE Tick
  <2>1. tasks' \in [TaskId -> Task]
    BY <1>2, RowsStayRows DEF Tick, TypeOK
  <2>2. nnbs' \in [Token -> Nnb]
    BY <1>2, AgesAreNat DEF Tick, TypeOK, Nnb
  <2>3. QED
    BY <1>2, <2>1, <2>2 DEF Tick, TypeOK
<1>3. CASE HarvestToken
  BY <1>3 DEF HarvestToken, TypeOK, Nnb, Age, Token
<1>4. ASSUME NEW devs \in Batches, NEW excluded \in SUBSET Mid, Allocate(devs, excluded)
      PROVE  TypeOK'
  <2>1. devices' \in [Device -> DeviceStatus]
    BY <1>4, AllocateCases
  <2>2. CASE SweepOnly
    BY <1>1, <2>1, <2>2 DEF TypeOK
  <2>3. ASSUME NEW k \in Nat, NEW mids, NEW kws, NEW toks,
               Batch(k, mids, kws, devs, toks), Insert(k, mids, kws, devs, toks)
        PROVE  TypeOK'
    BY <2>1, <2>3, InsertTypes
  <2>4. QED
    BY <1>4, <2>2, <2>3, AllocateCases
<1>5. ASSUME NEW i \in TaskId, NEW outcome \in Outcome, NEW d \in Device, Report(i, outcome, d)
      PROVE  TypeOK'
  <2>1. tasks' \in [TaskId -> Task]
    <3>1. PICK done \in TaskStatus :
            tasks' = IF tasks[i].status # "NONE"
                       THEN [tasks EXCEPT ![i] = [tasks[i] EXCEPT !.status = done, !.done = 0]]
                       ELSE tasks
      BY <1>5 DEF Report, TaskStatus
    <3>2. QED
      BY <3>1, RowsStayRows DEF TypeOK
  <2>2. devices' \in [Device -> DeviceStatus]
    BY <1>5 DEF Report, TypeOK, DeviceStatus
  <2>3. quotas' \in [Mid -> Quota]
    BY <1>5, HitIsQuota DEF Report, TypeOK
  <2>4. exposed' \in [Mid -> SUBSET Keyword]
    BY <1>5 DEF Report, TypeOK
  <2>5. QED
    BY <1>5, <2>1, <2>2, <2>3, <2>4 DEF Report, TypeOK
<1>6. CASE Midnight
  <2>1. NoQuota \in Quota
    BY DEF NoQuota, Quota, QuotaStatus
  <2>2. QED
    BY <1>6, <2>1 DEF Midnight, TypeOK
<1>7. CASE UNCHANGED vars
  BY <1>7 DEF vars, TypeOK
<1>8. QED
  BY <1>2, <1>3, <1>4, <1>5, <1>6, <1>7 DEF Next, AnyAllocate, AnyReport

LEMMA TypeInit == Init => TypeOK
<1> SUFFICES ASSUME Init PROVE TypeOK
  OBVIOUS
<1>1. tasks \in [TaskId -> Task]
  BY DEF Init, Task, NoTask, TaskStatus, Age
<1>2. nnbs \in [Token -> Nnb]
  BY DEF Init, Nnb, Age
<1>3. devices \in [Device -> DeviceStatus]
  BY DEF Init, DeviceStatus
<1>4. quotas \in [Mid -> Quota]
  BY DEF Init, Quota, NoQuota, QuotaStatus
<1>5. QED
  BY <1>1, <1>2, <1>3, <1>4 DEF Init, TypeOK

\* The tables always hold what their columns are declared for.
THEOREM ServerTypeOK == Spec => []TypeOK
BY TypeInit, TypeStep, PTL DEF Spec

-----------------------------------------------------------------------------

\* The fields of a row that exists.
LEMMA RowFields ==
  ASSUME TypeOK
  PROVE  /\ Known \subseteq TaskId /\ TaskId \subseteq Nat
         /\ \A i \in TaskId : tasks[i].age \in 0 .. MaxAge
         /\ \A t \in Token : nnbs[t].age \in 0 .. MaxAge /\ nnbs[t].uses \in Nat
<1>1. \A i \in TaskId : tasks[i].age \in 0 .. MaxAge
  BY DEF TypeOK, Task, Age
<1>2. \A t \in Token : nnbs[t].age \in 0 .. MaxAge /\ nnbs[t].uses \in Nat
  BY DEF TypeOK, Nnb, Age
<1>3. QED
  BY <1>1, <1>2 DEF Known, TaskId

\* A step that adds no row, moves no token and reopens no task keeps the
\* invariant: the sweep, a report and midnight are such steps.
LEMMA RowsKept ==
  ASSUME IInv, TypeOK', UNCHANGED <<nextId, nnbs, harvested>>,
         \A i \in TaskId :
            /\ tasks'[i].status = "NONE" <=> tasks[i].status = "NONE"
            /\ tasks'[i].status = "ASSIGNED" => tasks[i].status = "ASSIGNED"
            /\ tasks'[i].token = tasks[i].token
            /\ tasks'[i].age = tasks[i].age
  PROVE  IInv'
<1>1. Known' = Known
  BY DEF Known
<1>2. IdsAreContiguous'
  BY DEF IInv, IdsAreContiguous
<1>3. TokensAreRows'
  BY <1>1 DEF IInv, TokensAreRows, Known
<1>4. NoOverdueBesideFresh'
  BY <1>1 DEF IInv, NoOverdueBesideFresh, Known
<1>5. MatureWhenUsed'
  BY <1>1 DEF IInv, MatureWhenUsed, Known
<1>6. TokenUseMatchesTasks'
  <2>1. ASSUME NEW t \in Token
        PROVE  {i \in Known' : tasks'[i].token = t} = {i \in Known : tasks[i].token = t}
    BY <1>1 DEF Known
  <2>2. QED
    BY <2>1 DEF IInv, TokenUseMatchesTasks
<1>7. QED
  BY <1>2, <1>3, <1>4, <1>5, <1>6 DEF IInv

\* Time passes for a task and for its token together, and ages that stopped
\* growing stay within the lease of each other.
LEMMA TickKeeps == ASSUME IInv, TypeOK', Tick PROVE IInv'
<1> USE DEF IInv
<1>1. \A i \in TaskId :
        /\ tasks'[i].status = tasks[i].status
        /\ tasks'[i].token = tasks[i].token
        /\ i \in Known => tasks'[i].age = Older(tasks[i].age)
  <2> SUFFICES ASSUME NEW i \in TaskId
               PROVE  /\ tasks'[i].status = tasks[i].status
                      /\ tasks'[i].token = tasks[i].token
                      /\ i \in Known => tasks'[i].age = Older(tasks[i].age)
    OBVIOUS
  <2>1. tasks[i] \in Task
    BY DEF TypeOK
  <2>2. CASE tasks[i].status = "NONE"
    BY <2>2 DEF Tick, Known
  <2>3. CASE tasks[i].status # "NONE"
    <3>1. tasks'[i] = [tasks[i] EXCEPT !.age = Older(@), !.done = Older(@)]
      BY <2>3 DEF Tick
    <3>2. QED
      BY <2>1, <3>1 DEF Task
  <2>4. QED
    BY <2>2, <2>3
<1>2. \A t \in Token :
        /\ nnbs'[t].uses = nnbs[t].uses
        /\ t <= harvested => nnbs'[t].age = Older(nnbs[t].age)
  BY DEF Tick, TypeOK, Nnb
<1>3. Known' = Known /\ UNCHANGED <<nextId, harvested>>
  BY <1>1 DEF Known, Tick
<1>4. IdsAreContiguous'
  BY <1>1, <1>3 DEF IdsAreContiguous
<1>5. TokensAreRows'
  BY <1>1, <1>3 DEF TokensAreRows, Known
<1>6. NoOverdueBesideFresh'
  <2> SUFFICES ASSUME NEW i \in Known, NEW j \in Known, tasks[i].status = "ASSIGNED"
               PROVE  tasks'[i].age <= tasks'[j].age + TaskTimeout
    BY <1>1, <1>3 DEF NoOverdueBesideFresh, Known
  <2>1. tasks[i].age <= tasks[j].age + TaskTimeout
    BY DEF NoOverdueBesideFresh
  <2>2. tasks'[i].age = Older(tasks[i].age) /\ tasks'[j].age = Older(tasks[j].age)
    BY <1>1 DEF Known
  <2>3. QED
    BY <2>1, <2>2, RowFields DEF Older
<1>7. MatureWhenUsed'
  <2> SUFFICES ASSUME NEW i \in Known
               PROVE  nnbs'[tasks[i].token].age >= MinOf(MaxAge, tasks'[i].age + MinAge)
    BY <1>1, <1>3 DEF MatureWhenUsed, Known
  <2> DEFINE t == tasks[i].token
  <2>1. t \in Token /\ t <= harvested
    BY DEF TokensAreRows, TypeOK, Token
  <2>2. tasks'[i].age = Older(tasks[i].age) /\ nnbs'[t].age = Older(nnbs[t].age)
    BY <1>1, <1>2, <2>1 DEF Known
  <2>3. nnbs[t].age >= MinOf(MaxAge, tasks[i].age + MinAge)
    BY DEF MatureWhenUsed
  <2>4. tasks[i].age \in 0 .. MaxAge /\ nnbs[t].age \in 0 .. MaxAge
    BY <2>1, RowFields
  <2> HIDE DEF t
  <2>5. QED
    BY <2>2, <2>3, <2>4 DEF Older, MinOf, t
<1>8. TokenUseMatchesTasks'
  <2>1. ASSUME NEW t \in Token
        PROVE  {i \in Known' : tasks'[i].token = t} = {i \in Known : tasks[i].token = t}
    BY <1>1, <1>3 DEF Known
  <2>2. QED
    BY <1>2, <2>1 DEF TokenUseMatchesTasks
<1>9. QED
  BY <1>4, <1>5, <1>6, <1>7, <1>8

\* The new token was not a row before, so no task has it.
LEMMA HarvestKeeps == ASSUME IInv, TypeOK', HarvestToken PROVE IInv'
<1> USE DEF IInv
<1>1. Known' = Known /\ tasks' = tasks /\ nextId' = nextId /\ harvested' = harvested + 1
  BY DEF HarvestToken, Known
<1>2. harvested \in 0 .. MaxToken /\ harvested + 1 \in Token
  BY DEF HarvestToken, TypeOK, Token
<1>3. /\ \A t \in Token \ {harvested + 1} : nnbs'[t] = nnbs[t]
      /\ nnbs'[harvested + 1].uses = 0
  BY <1>2 DEF HarvestToken, TypeOK
<1>4. \A i \in Known : tasks[i].token \in Token \ {harvested + 1}
  BY <1>2 DEF TokensAreRows, Token
<1>5. IdsAreContiguous'
  BY <1>1 DEF IdsAreContiguous
<1>6. TokensAreRows'
  BY <1>1, <1>2 DEF TokensAreRows
<1>7. NoOverdueBesideFresh'
  BY <1>1 DEF NoOverdueBesideFresh
<1>8. MatureWhenUsed'
  BY <1>1, <1>3, <1>4 DEF MatureWhenUsed
<1>9. TokenUseMatchesTasks'
  <2> SUFFICES ASSUME NEW t \in Token
               PROVE  nnbs'[t].uses = Cardinality({i \in Known : tasks[i].token = t})
    BY <1>1 DEF TokenUseMatchesTasks
  <2>1. CASE t = harvested + 1
    <3>1. {i \in Known : tasks[i].token = t} = {}
      BY <1>4, <2>1
    <3>2. QED
      BY <1>3, <2>1, <3>1, FS_EmptySet
  <2>2. CASE t # harvested + 1
    BY <1>3, <2>2 DEF TokenUseMatchesTasks
  <2>3. QED
    BY <2>1, <2>2
<1>10. QED
  BY <1>5, <1>6, <1>7, <1>8, <1>9

\* What the sweep leaves of a row.
LEMMA SweptFields ==
  ASSUME NEW t \in Task
  PROVE  /\ Swept(t).token = t.token
         /\ Swept(t).age = t.age
         /\ Swept(t).status = "NONE" <=> t.status = "NONE"
         /\ Swept(t).status = "ASSIGNED" => t.status = "ASSIGNED" /\ ~(t.age > TaskTimeout)
<1>1. CASE Overdue(t)
  BY <1>1 DEF Swept, Overdue, Task
<1>2. CASE ~Overdue(t)
  BY <1>2 DEF Swept, Overdue
<1>3. QED
  BY <1>1, <1>2

\* What a batch makes of the tasks table.
LEMMA InsertedRows ==
  ASSUME TypeOK, RowsEndAtNextId, NEW k, NEW mids, NEW kws, NEW devs, NEW toks,
         Batch(k, mids, kws, devs, toks), Insert(k, mids, kws, devs, toks)
  PROVE  /\ \A i \in NewIds(k) :
              /\ i \in TaskId /\ i \notin Known /\ i - nextId + 1 \in 1 .. k
              /\ tasks'[i].status = "ASSIGNED"
              /\ tasks'[i].token = toks[i - nextId + 1]
              /\ tasks'[i].age = 0
         /\ \A i \in TaskId \ NewIds(k) : tasks'[i] = Swept(tasks[i])
         /\ Known' = Known \cup NewIds(k)
<1>1. k \in Nat /\ nextId \in Nat \ {0} /\ nextId + k - 1 <= MaxTaskId
  BY DEF Batch, TypeOK
<1>2. ASSUME NEW i \in NewIds(k)
      PROVE  /\ i \in TaskId /\ i \notin Known /\ i - nextId + 1 \in 1 .. k
             /\ tasks'[i].status = "ASSIGNED"
             /\ tasks'[i].token = toks[i - nextId + 1]
             /\ tasks'[i].age = 0
  <2>1. i \in TaskId /\ ~(i < nextId) /\ i - nextId + 1 \in 1 .. k
    BY <1>1 DEF NewIds, TaskId
  <2>2. i \notin Known
    BY <2>1 DEF RowsEndAtNextId
  <2>3. QED
    BY <2>1, <2>2 DEF Insert
<1>3. \A i \in TaskId \ NewIds(k) : tasks'[i] = Swept(tasks[i])
  BY DEF Insert
<1>4. \A i \in TaskId \ NewIds(k) : i \in Known' <=> i \in Known
  <2>1. \A i \in TaskId : tasks[i] \in Task
    BY DEF TypeOK
  <2>2. QED
    BY <1>3, <2>1, SweptFields DEF Known
<1>5. Known' = Known \cup NewIds(k)
  BY <1>2, <1>4 DEF Known
<1>6. QED
  BY <1>2, <1>3, <1>5

LEMMA InvRows == IInv => TypeOK /\ RowsEndAtNextId
BY DEF IInv, RowsEndAtNextId, IdsAreContiguous, Known

\* The rows that were there are swept and keep their token and age.
LEMMA InsertKeepsRows ==
  ASSUME TypeOK, RowsEndAtNextId, NEW k, NEW mids, NEW kws, NEW devs, NEW toks,
         Batch(k, mids, kws, devs, toks), Insert(k, mids, kws, devs, toks), NEW i \in Known
  PROVE  /\ i \in TaskId /\ i \notin NewIds(k)
         /\ tasks'[i].token = tasks[i].token
         /\ tasks'[i].age = tasks[i].age
         /\ tasks'[i].status = "ASSIGNED" =>
               tasks[i].status = "ASSIGNED" /\ ~(tasks[i].age > TaskTimeout)
<1>1. i \in TaskId /\ i \notin NewIds(k) /\ tasks[i] \in Task
  BY InsertedRows DEF Known, TypeOK
<1>2. tasks'[i] = Swept(tasks[i])
  BY <1>1, InsertedRows
<1>3. QED
  BY <1>1, <1>2, SweptFields

\* Each token of a batch is picked once, and its tasks grow by one as its
\* counter does.
LEMMA InsertCounts ==
  ASSUME TypeOK, RowsEndAtNextId, TokenUseMatchesTasks,
         NEW k, NEW mids, NEW kws, NEW devs, NEW toks,
         Batch(k, mids, kws, devs, toks), Insert(k, mids, kws, devs, toks)
  PROVE  TokenUseMatchesTasks'
<1>1. k \in Nat /\ nextId \in Nat \ {0}
  BY DEF Batch, TypeOK
<1>2. \A i \in NewIds(k) :
        /\ i \in TaskId /\ i \notin Known /\ i - nextId + 1 \in 1 .. k
        /\ tasks'[i].token = toks[i - nextId + 1]
  BY InsertedRows
<1>3. Known' = Known \cup NewIds(k)
  BY InsertedRows
<1>4. /\ toks \in [1 .. k -> Mature]
      /\ \A i, j \in 1 .. k : toks[i] = toks[j] => i = j
  BY <1>1, PicksAreDistinct DEF Batch
<1>5. /\ \A t \in Token : (\E n \in 1 .. k : toks[n] = t) => nnbs'[t].uses = nnbs[t].uses + 1
      /\ \A t \in Token : ~(\E n \in 1 .. k : toks[n] = t) => nnbs'[t].uses = nnbs[t].uses
  BY DEF Insert, UseCounted, TypeOK, Nnb
<1> SUFFICES ASSUME NEW t \in Token
             PROVE  nnbs'[t].uses = Cardinality({i \in Known' : tasks'[i].token = t})
  BY DEF TokenUseMatchesTasks
<1> DEFINE Old == {i \in Known : tasks[i].token = t}
<1>6. nnbs[t].uses = Cardinality(Old)
  BY DEF TokenUseMatchesTasks
<1>7. IsFiniteSet(Old)
  <2>1. IsFiniteSet(TaskId)
    BY FS_Interval DEF TaskId
  <2>2. QED
    BY <2>1, FS_Subset DEF Known
<1>8. CASE \E n \in 1 .. k : toks[n] = t
  <2>1. PICK n \in 1 .. k : toks[n] = t
    BY <1>8
  <2> DEFINE x == nextId + n - 1
  <2>2. x \in NewIds(k) /\ x - nextId + 1 = n
    BY <1>1 DEF NewIds
  <2>3. \A i \in NewIds(k) : tasks'[i].token = t <=> i = x
    <3> TAKE i \in NewIds(k)
    <3>1. i \in Nat /\ i - nextId + 1 \in 1 .. k /\ tasks'[i].token = toks[i - nextId + 1]
      BY <1>1, <1>2 DEF NewIds
    <3>2. tasks'[i].token = t <=> i - nextId + 1 = n
      BY <1>4, <2>1, <3>1
    <3>3. QED
      BY <1>1, <3>1, <3>2
  <2>4. x \notin Old
    BY <1>2, <2>2
  <2> HIDE DEF x
  <2>5. {i \in Known' : tasks'[i].token = t} = Old \cup {x}
    BY <1>3, InsertKeepsRows, <2>2, <2>3
  <2> HIDE DEF Old
  <2>6. Cardinality(Old \cup {x}) = Cardinality(Old) + 1
    BY <1>7, <2>4, FS_AddElement
  <2>7. QED
    BY <1>5, <1>6, <1>8, <2>5, <2>6
<1>9. CASE ~(\E n \in 1 .. k : toks[n] = t)
  <2>1. {i \in Known' : tasks'[i].token = t} = Old
    BY <1>2, <1>3, InsertKeepsRows, <1>9
  <2>2. QED
    BY <1>5, <1>6, <1>9, <2>1
<1>10. QED
  BY <1>8, <1>9

\* A batch keeps the invariant: its rows are numbered on, they are the
\* youngest and the sweep left nothing overdue beside them; its tokens are
\* mature rows, all different, each counted once.
LEMMA InsertKeeps ==
  ASSUME IInv, TypeOK', NEW k, NEW mids, NEW kws, NEW devs, NEW toks,
         Batch(k, mids, kws, devs, toks), Insert(k, mids, kws, devs, toks)
  PROVE  IInv'
<1> USE DEF IInv
<1>1. k \in Nat /\ nextId \in Nat \ {0} /\ nextId' = nextId + k /\ harvested' = harvested
  BY DEF Batch, TypeOK, Insert
<1>2. \A i \in NewIds(k) :
        /\ i \in TaskId /\ i \notin Known /\ i - nextId + 1 \in 1 .. k
        /\ tasks'[i].status = "ASSIGNED"
        /\ tasks'[i].token = toks[i - nextId + 1]
        /\ tasks'[i].age = 0
  BY InvRows, InsertedRows
<1>3. Known' = Known \cup NewIds(k)
  BY InvRows, InsertedRows
<1>4. \A i \in Known :
        /\ tasks'[i].token = tasks[i].token
        /\ tasks'[i].age = tasks[i].age
        /\ tasks'[i].status = "ASSIGNED" => ~(tasks[i].age > TaskTimeout)
  BY InvRows, InsertKeepsRows
<1>5. /\ toks \in [1 .. k -> Mature]
      /\ Mature \subseteq 1 .. harvested /\ Mature \subseteq Token
      /\ \A i, j \in 1 .. k : toks[i] = toks[j] => i = j
  BY <1>1, PicksAreDistinct DEF Batch
<1>6. \A t \in Token : nnbs'[t].age = nnbs[t].age
  BY DEF Insert, UseCounted, TypeOK, Nnb
<1>7. IdsAreContiguous'
  <2> SUFFICES ASSUME NEW i \in TaskId PROVE i \in Known' <=> i < nextId'
    BY DEF IdsAreContiguous, Known
  <2>1. i \in Known <=> i < nextId
    BY DEF IdsAreContiguous, Known
  <2>2. i \in NewIds(k) <=> nextId <= i /\ i < nextId + k
    BY <1>1 DEF NewIds, TaskId
  <2>3. QED
    BY <1>1, <1>3, <2>1, <2>2 DEF TaskId
<1>8. TokensAreRows'
  BY <1>1, <1>2, <1>3, <1>4, <1>5 DEF TokensAreRows
<1>9. NoOverdueBesideFresh'
  <2> SUFFICES ASSUME NEW i \in Known', NEW j \in Known', tasks'[i].status = "ASSIGNED"
               PROVE  tasks'[i].age <= tasks'[j].age + TaskTimeout
    BY DEF NoOverdueBesideFresh
  <2>1. tasks'[j].age \in Nat /\ tasks'[i].age \in Nat
    BY DEF TypeOK, Task, Age, Known
  <2>2. tasks'[i].age <= TaskTimeout
    BY <1>2, <1>3, <1>4, <2>1
  <2>3. QED
    BY <2>1, <2>2
<1>10. MatureWhenUsed'
  <2> SUFFICES ASSUME NEW i \in Known'
               PROVE  nnbs'[tasks'[i].token].age >= MinOf(MaxAge, tasks'[i].age + MinAge)
    BY DEF MatureWhenUsed
  <2>1. CASE i \in Known
    <3>1. tasks[i].token \in Token
      BY <2>1 DEF TokensAreRows, TypeOK, Token
    <3>2. QED
      BY <1>4, <1>6, <2>1, <3>1 DEF MatureWhenUsed
  <2>2. CASE i \in NewIds(k)
    <3>1. tasks'[i].token \in Mature /\ tasks'[i].age = 0
      BY <1>2, <1>5, <2>2
    <3>2. nnbs'[tasks'[i].token].age >= MinAge
      BY <1>5, <1>6, <3>1 DEF Mature
    <3>3. QED
      BY <3>1, <3>2 DEF MinOf
  <2>3. QED
    BY <1>3, <2>1, <2>2
<1>11. TokenUseMatchesTasks'
  BY InvRows, InsertCounts
<1>12. QED
  BY <1>7, <1>8, <1>9, <1>10, <1>11

-----------------------------------------------------------------------------

\* The sweep keeps the invariant.
LEMMA SweepKeeps == ASSUME IInv, TypeOK', SweepOnly PROVE IInv'
<1>1. ASSUME NEW i \in TaskId
      PROVE  /\ tasks'[i].status = "NONE" <=> tasks[i].status = "NONE"
             /\ tasks'[i].status = "ASSIGNED" => tasks[i].status = "ASSIGNED"
             /\ tasks'[i].token = tasks[i].token
             /\ tasks'[i].age = tasks[i].age
  <2>1. tasks[i] \in Task /\ tasks'[i] = Swept(tasks[i])
    BY DEF IInv, TypeOK, SweepOnly
  <2>2. QED
    BY <2>1, SweptFields
<1>2. UNCHANGED <<nextId, nnbs, harvested>>
  BY DEF SweepOnly
<1>3. QED
  BY <1>1, <1>2, RowsKept

\* What a report does to the rows of tasks.
LEMMA ReportedRows ==
  ASSUME TypeOK, NEW i \in TaskId, NEW outcome, NEW d, Report(i, outcome, d), NEW j \in TaskId
  PROVE  /\ tasks'[j].status = "NONE" <=> tasks[j].status = "NONE"
         /\ tasks'[j] = tasks[j] \/ tasks'[j].status \in {"SUCCESS", "FAILED"}
         /\ tasks'[j].token = tasks[j].token
         /\ tasks'[j].age = tasks[j].age
<1>1. CASE tasks[i].status = "NONE"
  BY <1>1 DEF Report
<1>2. CASE tasks[i].status # "NONE"
  <2>1. PICK done \in {"SUCCESS", "FAILED"} :
          tasks' = [tasks EXCEPT ![i] = [tasks[i] EXCEPT !.status = done, !.done = 0]]
    BY <1>2 DEF Report
  <2>2. CASE j = i
    <3>1. tasks'[j] = [tasks[j] EXCEPT !.status = done, !.done = 0] /\ tasks[j] \in Task
      BY <2>1, <2>2 DEF TypeOK
    <3>2. QED
      BY <1>2, <2>2, <3>1 DEF Task
  <2>3. CASE j # i
    BY <2>1, <2>3 DEF TypeOK
  <2>4. QED
    BY <2>2, <2>3
<1>3. QED
  BY <1>1, <1>2

LEMMA InvInit == Init => IInv
<1> SUFFICES ASSUME Init PROVE IInv
  OBVIOUS
<1>1. TypeOK
  BY TypeInit
<1>2. \A i \in TaskId : tasks[i].status = "NONE"
  BY DEF Init, NoTask
<1>3. Known = {} /\ nextId = 1
  BY <1>2 DEF Known, Init
<1>4. IdsAreContiguous
  BY <1>2, <1>3 DEF IdsAreContiguous, TaskId
<1>5. TokenUseMatchesTasks
  <2>1. ASSUME NEW t \in Token PROVE nnbs[t].uses = 0
    BY DEF Init
  <2>2. QED
    BY <1>3, <2>1, FS_EmptySet DEF TokenUseMatchesTasks
<1>6. QED
  BY <1>1, <1>3, <1>4, <1>5 DEF IInv, TokensAreRows, NoOverdueBesideFresh, MatureWhenUsed

LEMMA InvStep == IInv /\ [Next]_vars => IInv'
<1> SUFFICES ASSUME IInv, [Next]_vars PROVE IInv'
  OBVIOUS
<1>1. TypeOK /\ TypeOK'
  BY TypeStep DEF IInv
<1>2. CASE Tick
  BY <1>1, <1>2, TickKeeps
<1>3. CASE HarvestToken
  BY <1>1, <1>3, HarvestKeeps
<1>4. ASSUME NEW devs \in Batches, NEW excluded \in SUBSET Mid, Allocate(devs, excluded)
      PROVE  IInv'
  <2>1. CASE SweepOnly
    BY <1>1, <2>1, SweepKeeps
  <2>2. ASSUME NEW k \in Nat, NEW mids, NEW kws, NEW toks,
               Batch(k, mids, kws, devs, toks), Insert(k, mids, kws, devs, toks)
        PROVE  IInv'
    BY <1>1, <2>2, InsertKeeps
  <2>3. QED
    BY <1>1, <1>4, <2>1, <2>2, AllocateCases
<1>5. ASSUME NEW i \in TaskId, NEW outcome \in Outcome, NEW d \in Device, Report(i, outcome, d)
      PROVE  IInv'
  <2>1. UNCHANGED <<nextId, nnbs, harvested>>
    BY <1>5 DEF Report
  <2>2. ASSUME NEW j \in TaskId
        PROVE  /\ tasks'[j].status = "NONE" <=> tasks[j].status = "NONE"
               /\ tasks'[j].status = "ASSIGNED" => tasks[j].status = "ASSIGNED"
               /\ tasks'[j].token = tasks[j].token
               /\ tasks'[j].age = tasks[j].age
    BY <1>1, <1>5, ReportedRows
  <2>3. QED
    BY <1>1, <2>1, <2>2, RowsKept
<1>6. CASE Midnight
  BY <1>1, <1>6, RowsKept DEF Midnight
<1>7. CASE UNCHANGED vars
  BY <1>1, <1>7, RowsKept DEF vars
<1>8. QED
  BY <1>2, <1>3, <1>4, <1>5, <1>6, <1>7 DEF Next, AnyAllocate, AnyReport

\* The inductive invariant holds.
THEOREM ServerInvariant == Spec => []IInv
BY InvInit, InvStep, PTL DEF Spec

\* The lease of a task holds, whatever the clients do: nothing overdue is
\* still ASSIGNED beside a task handed out later.
THEOREM ServerLease == Spec => []NoOverdueBesideFresh
<1>1. IInv => NoOverdueBesideFresh
  BY DEF IInv
<1>2. QED
  BY <1>1, ServerInvariant, PTL

\* The use counters of the tokens and the tasks table always agree.
THEOREM ServerTokenAccounts == Spec => []TokenUseMatchesTasks
<1>1. IInv => TokenUseMatchesTasks
  BY DEF IInv
<1>2. QED
  BY <1>1, ServerInvariant, PTL

\* No task is ever handed out with a token younger than MinAge.
THEOREM ServerMaturity == Spec => []MatureWhenUsed
<1>1. IInv => MatureWhenUsed
  BY DEF IInv
<1>2. QED
  BY <1>1, ServerInvariant, PTL

\* A settled task is never ASSIGNED again, and a reported one stays reported:
\* that rows are numbered without gaps is what keeps an insertion off them.
THEOREM ServerSettled == Spec => SettledIsNotReopened
<1> DEFINE Kept(i) == /\ tasks[i].status \in {"SUCCESS", "FAILED"} =>
                            tasks'[i].status \in {"SUCCESS", "FAILED"}
                      /\ tasks[i].status = "TIMEOUT" => tasks'[i].status # "ASSIGNED"
<1>1. ASSUME IInv, [Next]_vars, NEW i \in TaskId PROVE Kept(i)
  <2>1. TypeOK /\ tasks[i] \in Task
    BY <1>1 DEF IInv, TypeOK
  <2>2. ASSUME tasks'[i] = Swept(tasks[i]) PROVE Kept(i)
    <3>1. CASE Overdue(tasks[i])
      BY <3>1 DEF Overdue
    <3>2. CASE ~Overdue(tasks[i])
      BY <2>2, <3>2 DEF Swept
    <3>3. QED
      BY <3>1, <3>2
  <2>3. CASE Tick
    <3>1. tasks'[i].status = tasks[i].status
      BY <2>1, <2>3 DEF Tick, Task
    <3>2. QED
      BY <3>1
  <2>4. CASE HarvestToken \/ Midnight \/ UNCHANGED vars
    BY <2>4 DEF HarvestToken, Midnight, vars
  <2>5. ASSUME NEW devs \in Batches, NEW excluded \in SUBSET Mid, Allocate(devs, excluded)
        PROVE  Kept(i)
    <3>1. CASE SweepOnly
      BY <2>2, <3>1 DEF SweepOnly
    <3>2. ASSUME NEW k \in Nat, NEW mids, NEW kws, NEW toks,
                 Batch(k, mids, kws, devs, toks), Insert(k, mids, kws, devs, toks)
          PROVE  Kept(i)
      <4>1. CASE i \in NewIds(k)
        <5>1. tasks[i].status = "NONE"
          BY <1>1, <3>2, <4>1, InvRows, InsertedRows DEF Known
        <5>2. QED
          BY <5>1
      <4>2. CASE i \notin NewIds(k)
        BY <1>1, <2>2, <3>2, <4>2, InvRows, InsertedRows
      <4>3. QED
        BY <4>1, <4>2
    <3>3. QED
      BY <2>1, <2>5, <3>1, <3>2, AllocateCases
  <2>6. ASSUME NEW j \in TaskId, NEW outcome \in Outcome, NEW d \in Device, Report(j, outcome, d)
        PROVE  Kept(i)
    <3>1. tasks'[i] = tasks[i] \/ tasks'[i].status \in {"SUCCESS", "FAILED"}
      BY <2>1, <2>6, ReportedRows
    <3>2. QED
      BY <3>1
  <2>7. QED
    BY <1>1, <2>3, <2>4, <2>5, <2>6 DEF Next, AnyAllocate, AnyReport
<1>2. IInv /\ [Next]_vars => [\A i \in TaskId : Kept(i)]_vars
  BY <1>1
<1> HIDE DEF Kept
<1>3. Spec => [][\A i \in TaskId : Kept(i)]_vars
  BY <1>2, ServerInvariant, PTL DEF Spec
<1>4. QED
  BY <1>3 DEF SettledIsNotReopened, Kept

-----------------------------------------------------------------------------

\* However shops cool down and products are quarantined, a batch is as large as
\* phones, mature tokens and candidates allow: each relaxation of Eligible is taken
\* only when the step before it leaves too few products, and the last one gives
\* up both.
LEMMA AllocateServes ==
  ASSUME TypeOK, NEW devs \in Batches, NEW excluded \in SUBSET Mid, Allocate(devs, excluded)
  PROVE  nextId' - nextId >= MinOf(Wanted(devs), Cardinality(Candidates \ excluded))
<1> DEFINE lenient == Candidates \ excluded
           healthy == lenient \ Quarantined
           strict  == {m \in healthy : StoreOf[m] \notin Cooling}
           wanted  == Wanted(devs)
           pool    == Eligible(wanted, excluded)
<1>1. Cardinality(DOMAIN devs) \in Nat
  <2>1. PICK n \in 1 .. Cardinality(Device) : devs \in [1 .. n -> Device]
    BY DEF Batches
  <2>2. n \in Nat /\ DOMAIN devs = 1 .. n
    BY <2>1, FS_CardinalityType
  <2>3. QED
    BY <2>2, FS_Interval
<1>2. Cardinality(Mature) \in Nat /\ (Mature = {} => Cardinality(Mature) = 0)
  <2>1. Mature \subseteq 1 .. harvested /\ harvested \in Nat
    BY DEF Mature, TypeOK
  <2>2. IsFiniteSet(1 .. harvested)
    BY <2>1, FS_Interval
  <2>3. IsFiniteSet(Mature)
    BY <2>1, <2>2, FS_Subset
  <2>4. QED
    BY <2>3, FS_CardinalityType, FS_EmptySet
<1>3. wanted \in Nat /\ (Mature = {} => wanted = 0)
  BY <1>1, <1>2 DEF MinOf, Wanted
<1>4. \A S \in SUBSET Mid : Cardinality(S) \in Nat /\ (S = {} => Cardinality(S) = 0)
  BY FS_Subset, FS_CardinalityType, FS_EmptySet
<1>5. lenient \in SUBSET Mid /\ healthy \in SUBSET Mid /\ strict \in SUBSET Mid
  BY DEF Candidates, Open
<1>6. pool = IF Cardinality(strict) >= wanted THEN strict
             ELSE IF Cardinality(healthy) >= wanted THEN healthy ELSE lenient
  BY DEF Eligible
<1>7. nextId \in Nat
  BY DEF TypeOK
<1>8. \/ Mature = {} /\ nextId' = nextId
      \/ pool = {} /\ nextId' = nextId
      \/ nextId' = nextId + MinOf(wanted, Cardinality(pool))
  BY DEF Allocate, Insert, SweepOnly, Wanted
<1> HIDE DEF lenient, healthy, strict, wanted, pool
<1>9. Cardinality(pool) \in Nat /\ (pool = {} => Cardinality(pool) = 0)
  BY <1>4, <1>5, <1>6
<1>10. MinOf(wanted, Cardinality(pool)) >= MinOf(wanted, Cardinality(lenient))
  BY <1>3, <1>4, <1>5, <1>6 DEF MinOf
<1>11. nextId' - nextId >= MinOf(wanted, Cardinality(lenient))
  <2>1. CASE Mature = {} /\ nextId' = nextId
    BY <1>3, <1>4, <1>5, <1>7, <2>1 DEF MinOf
  <2>2. CASE pool = {} /\ nextId' = nextId
    BY <1>3, <1>7, <1>9, <1>10, <2>2 DEF MinOf
  <2>3. CASE nextId' = nextId + MinOf(wanted, Cardinality(pool))
    BY <1>3, <1>4, <1>5, <1>7, <1>9, <1>10, <2>3 DEF MinOf
  <2>4. QED
    BY <1>8, <2>1, <2>2, <2>3
<1>12. QED
  BY <1>11 DEF lenient, wanted

THEOREM ServerNeverStarves == Spec => NeverStarved
<1> DEFINE Handed == \A devs \in Batches, excluded \in SUBSET Mid :
                        Allocate(devs, excluded) =>
                          nextId' - nextId >= MinOf(Wanted(devs), Cardinality(Candidates \ excluded))
<1>1. TypeOK => Handed
  BY AllocateServes
<1> HIDE DEF Handed
<1>2. TypeOK => [Handed]_vars
  BY <1>1
<1>3. Spec => [][Handed]_vars
  BY <1>2, ServerTypeOK, PTL
<1>4. QED
  BY <1>3 DEF NeverStarved, Handed

-----------------------------------------------------------------------------

\* Phones of one batch share no product, token or phone: lists of phones and of
\* tokens have no repetitions, a product leaves the pool with its phone.
THEOREM ServerBatchOneToOne == Spec => BatchIsOneToOne
<1> DEFINE New(i)      == tasks[i].status = "NONE" /\ tasks'[i].status = "ASSIGNED"
           Apart(i, j) == /\ tasks'[i].mid # tasks'[j].mid
                          /\ tasks'[i].token # tasks'[j].token
                          /\ tasks'[i].device # tasks'[j].device
<1>1. ASSUME IInv, [Next]_vars, NEW i \in TaskId, NEW j \in TaskId, i # j, New(i), New(j)
      PROVE  Apart(i, j)
  <2>1. TypeOK /\ tasks[i] \in Task /\ tasks[j] \in Task
    BY <1>1 DEF IInv, TypeOK
  <2>2. CASE Tick
    BY <1>1, <2>2 DEF Tick
  <2>3. CASE HarvestToken \/ Midnight \/ UNCHANGED vars
    BY <1>1, <2>3 DEF HarvestToken, Midnight, vars
  <2>4. ASSUME NEW devs \in Batches, NEW excluded \in SUBSET Mid, Allocate(devs, excluded)
        PROVE  Apart(i, j)
    <3>1. CASE SweepOnly
      BY <1>1, <2>1, <3>1, SweptFields DEF SweepOnly
    <3>2. ASSUME NEW k \in Nat, NEW mids, NEW kws, NEW toks,
                 Batch(k, mids, kws, devs, toks), Insert(k, mids, kws, devs, toks),
                 \A a, b \in 1 .. k : mids[a] = mids[b] => a = b,
                 \A a, b \in 1 .. k : devs[a] = devs[b] => a = b
          PROVE  Apart(i, j)
      <4> DEFINE At(x) == x - nextId + 1
      <4>1. i \in NewIds(k) /\ j \in NewIds(k)
        BY <1>1, <2>1, <3>2, InvRows, InsertedRows, SweptFields
      <4>2. At(i) \in 1 .. k /\ At(j) \in 1 .. k
        BY <1>1, <3>2, <4>1, InvRows, InsertedRows
      <4>3. At(i) # At(j)
        BY <1>1, <2>1 DEF TypeOK, TaskId
      <4>4. \A a, b \in 1 .. k : toks[a] = toks[b] => a = b
        BY <2>1, <3>2, PicksAreDistinct DEF Batch
      <4>5. \A x \in NewIds(k) \cap TaskId :
              tasks'[x].mid = mids[At(x)] /\ tasks'[x].token = toks[At(x)]
                /\ tasks'[x].device = devs[At(x)]
        BY <3>2 DEF Insert
      <4> HIDE DEF At
      <4>6. QED
        BY <3>2, <4>1, <4>2, <4>3, <4>4, <4>5
    <3>3. QED
      BY <2>1, <2>4, <3>1, <3>2, AllocateCases
  <2>5. ASSUME NEW x \in TaskId, NEW outcome \in Outcome, NEW d \in Device, Report(x, outcome, d)
        PROVE  Apart(i, j)
    <3>1. tasks'[i] = tasks[i] \/ tasks'[i].status \in {"SUCCESS", "FAILED"}
      BY <2>1, <2>5, ReportedRows
    <3>2. QED
      BY <1>1, <3>1
  <2>6. QED
    BY <1>1, <2>2, <2>3, <2>4, <2>5 DEF Next, AnyAllocate, AnyReport
<1> DEFINE OneToOne == \A i, j \in TaskId : i # j /\ New(i) /\ New(j) => Apart(i, j)
<1>2. IInv /\ [Next]_vars => [OneToOne]_vars
  BY <1>1
<1> HIDE DEF OneToOne
<1>3. Spec => [][OneToOne]_vars
  BY <1>2, ServerInvariant, PTL DEF Spec
<1>4. OneToOne <=> \A i, j \in TaskId :
          /\ i # j
          /\ tasks[i].status = "NONE" /\ tasks'[i].status = "ASSIGNED"
          /\ tasks[j].status = "NONE" /\ tasks'[j].status = "ASSIGNED"
          => /\ tasks'[i].mid # tasks'[j].mid
             /\ tasks'[i].token # tasks'[j].token
             /\ tasks'[i].device # tasks'[j].device
  BY DEF OneToOne
<1>5. QED
  BY <1>3, <1>4, PTL DEF BatchIsOneToOne

\* A phone whose group is bound to sites never gets a foreign product while an
\* eligible one of its sites is left, for every catalogue, fleet and grouping.
LEMMA ForeignIsLast ==
  ASSUME TypeOK, NEW devs \in Batches, NEW excluded \in SUBSET Mid,
         nextId' > nextId, Allocate(devs, excluded),
         NEW i \in nextId .. (nextId' - 1), ForeignFor(i, tasks'[i].mid),
         NEW m \in Eligible(Wanted(devs), excluded), ~ForeignFor(i, m)
  PROVE  \E j \in nextId .. (i - 1) : tasks'[j].mid = m
<1> DEFINE pool  == Eligible(Wanted(devs), excluded)
           k     == MinOf(Wanted(devs), Cardinality(pool))
           At(x) == x - nextId + 1
<1>1. nextId \in Nat \ {0}
  BY DEF TypeOK
<1>2. nextId' # nextId
  BY <1>1
<1>3. PICK mids \in ProductPicks(devs, k, pool), toks \in TokenPicks(k),
           kws \in [1 .. k -> Keyword \cup {Title}] :
         nextId + k - 1 <= MaxTaskId /\ Insert(k, mids, kws, devs, toks)
  BY <1>2 DEF Allocate, SweepOnly, Wanted
<1>4. k \in Nat
  <2>1. Cardinality(DOMAIN devs) \in Nat
    <3>1. PICK n \in 1 .. Cardinality(Device) : devs \in [1 .. n -> Device]
      BY DEF Batches
    <3>2. n \in Nat /\ DOMAIN devs = 1 .. n
      BY <3>1, FS_CardinalityType
    <3>3. QED
      BY <3>2, FS_Interval
  <2>2. Cardinality(Mature) \in Nat
    <3>1. Mature \subseteq 1 .. harvested /\ harvested \in Nat
      BY DEF Mature, TypeOK
    <3>2. IsFiniteSet(1 .. harvested)
      BY <3>1, FS_Interval
    <3>3. IsFiniteSet(Mature)
      BY <3>1, <3>2, FS_Subset
    <3>4. QED
      BY <3>3, FS_CardinalityType
  <2>3. Cardinality(pool) \in Nat
    <3>1. pool \subseteq Mid
      BY DEF Eligible, Candidates, Open
    <3>2. QED
      BY <3>1, FS_Subset, FS_CardinalityType
  <2> HIDE DEF pool
  <2>4. Wanted(devs) \in Nat
    BY <2>1, <2>2 DEF Wanted, MinOf
  <2>5. QED
    BY <2>3, <2>4, MinOfNat
<1>5. nextId' = nextId + k
  BY <1>3 DEF Insert
<1>6. \A x \in nextId .. (nextId' - 1) :
         /\ At(x) \in 1 .. k
         /\ tasks'[x].mid = mids[At(x)] /\ tasks'[x].device = devs[At(x)]
  <2>1. ASSUME NEW x \in nextId .. (nextId' - 1)
        PROVE  x \in TaskId /\ x \in NewIds(k) /\ At(x) \in 1 .. k
    <3> HIDE DEF k
    <3>1. QED
      BY <1>1, <1>3, <1>4, <1>5, <2>1, BoundsAssumption DEF TaskId, NewIds
  <2>2. \A x \in TaskId : x \in NewIds(k) =>
          tasks'[x].mid = mids[At(x)] /\ tasks'[x].device = devs[At(x)]
    <3> HIDE DEF k
    <3>1. QED
      BY <1>3 DEF Insert
  <2>3. QED
    BY <2>1, <2>2
<1> HIDE DEF pool, k
<1>7. PICK j \in 1 .. (At(i) - 1) : mids[j] = m
  <2>1. At(i) \in 1 .. k /\ SitesOf[mids[At(i)]] \cap GroupSites[devs[At(i)]] = {}
        /\ m \in pool /\ SitesOf[m] \cap GroupSites[devs[At(i)]] # {}
    BY <1>6 DEF ForeignFor, pool
  <2> HIDE DEF At
  <2>2. OwnSitesFirst(k, pool, mids, devs)
    BY <1>3, <1>4, OwnSitesAreFirst
  <2>3. \E y \in 1 .. (At(i) - 1) : mids[y] = m
    BY <2>1, <2>2 DEF OwnSitesFirst
  <2>4. QED
    BY <2>3
<1>8. nextId + j - 1 \in nextId .. (i - 1) /\ At(nextId + j - 1) = j /\ i - 1 \in Int
  BY <1>1, <1>5, <1>4
<1>9. tasks'[nextId + j - 1].mid = m
  <2>1. nextId + j - 1 \in nextId .. (nextId' - 1)
    BY <1>1, <1>4, <1>5, <1>8
  <2>2. QED
    BY <1>6, <1>7, <1>8, <2>1
<1>10. QED
  BY <1>8, <1>9

THEOREM ServerGroupFirst == Spec => GroupIsServedFirst
<1> DEFINE OwnFirst ==
        \A devs \in Batches, excluded \in SUBSET Mid :
          nextId' > nextId /\ Allocate(devs, excluded) =>
            \A i \in nextId .. (nextId' - 1) : ForeignFor(i, tasks'[i].mid) =>
              \A m \in Eligible(Wanted(devs), excluded) :
                 ForeignFor(i, m) \/ \E j \in nextId .. (i - 1) : tasks'[j].mid = m
<1>1. TypeOK => OwnFirst
  BY ForeignIsLast
<1> HIDE DEF OwnFirst
<1>2. TypeOK => [OwnFirst]_vars
  BY <1>1
<1>3. Spec => [][OwnFirst]_vars
  BY <1>2, ServerTypeOK, PTL
<1>4. QED
  BY <1>3 DEF GroupIsServedFirst, OwnFirst

-----------------------------------------------------------------------------

\* Both generations of the API.

USE ListAssumption

\* A v1 allocation, too, sweeps, or sweeps and inserts one batch; here phones
\* may share a product.
LEMMA AssignCases ==
  ASSUME TypeOK, NEW devs \in Batches, NEW wanted \in Mid \cup {None}, AssignTasks(devs, wanted)
  PROVE  /\ devices' \in [Device -> DeviceStatus]
         /\ \/ SweepOnly
            \/ \E k \in Nat : \E mids, kws, toks :
                  Batch(k, mids, kws, devs, toks) /\ Insert(k, mids, kws, devs, toks)
<1>1. PICK asked \in 1 .. Cardinality(Device) : devs \in [1 .. asked -> Device]
  BY DEF Batches
<1>2. asked \in Nat /\ Cardinality(DOMAIN devs) = asked
  BY <1>1, FS_Interval, FS_CardinalityType
<1>3. devices' \in [Device -> DeviceStatus]
  BY DEF AssignTasks, TypeOK
<1> DEFINE n == IF Cardinality(Mature) < asked THEN Cardinality(Mature) ELSE asked
<1>4. n \in Nat /\ n <= asked
  <2>1. Mature \subseteq 1 .. harvested /\ harvested \in Nat
    BY DEF Mature, TypeOK
  <2>2. IsFiniteSet(1 .. harvested)
    BY <2>1, FS_Interval
  <2>3. IsFiniteSet(Mature)
    BY <2>1, <2>2, FS_Subset
  <2>4. Cardinality(Mature) \in Nat
    BY <2>3, FS_CardinalityType
  <2>5. QED
    BY <1>2, <2>4
<1>5. \/ SweepOnly
      \/ \E mids \in RandomRows(n) \cup UNION {NamedRows(m, n) : m \in Mid} :
           LET k == Cardinality(DOMAIN mids) IN
           \/ SweepOnly
           \/ /\ nextId + k - 1 <= MaxTaskId
              /\ \E toks \in TokenPicks(k) :
                   Insert(k, mids, [i \in 1 .. k |-> Title], devs, toks)
  BY <1>2 DEF AssignTasks
<1> HIDE DEF n
<1>6. ASSUME NEW mids \in RandomRows(n) \cup UNION {NamedRows(m, n) : m \in Mid}
      PROVE  \E k \in 0 .. n : /\ k = Cardinality(DOMAIN mids)
                               /\ mids \in [1 .. k -> Mid]
  <2>1. \A k \in Nat : Cardinality(1 .. k) = k
    BY FS_Interval
  <2>2. CASE mids \in RandomRows(n)
    <3> DEFINE from == IF Cardinality(ListedActive) >= n THEN ListedActive ELSE Listed
               k    == IF Cardinality(from) < n THEN Cardinality(from) ELSE n
    <3>1. from \subseteq Mid
      OBVIOUS
    <3>2. IsFiniteSet(from)
      BY <3>1, FS_Subset
    <3>3. Cardinality(from) \in Nat
      BY <3>2, FS_CardinalityType
    <3>4. mids \in [1 .. k -> from]
      BY <2>2 DEF RandomRows
    <3> HIDE DEF from
    <3>5. k \in 0 .. n
      BY <1>4, <3>3
    <3> HIDE DEF k
    <3>6. k = Cardinality(DOMAIN mids)
      BY <2>1, <3>4, <3>5
    <3>7. QED
      BY <3>1, <3>4, <3>5, <3>6
  <2>3. ASSUME NEW m \in Mid, mids \in NamedRows(m, n)
        PROVE  \E k \in 0 .. n : k = Cardinality(DOMAIN mids) /\ mids \in [1 .. k -> Mid]
    <3>1. mids = [i \in 1 .. n |-> m] \/ mids = <<>>
      BY <2>3 DEF NamedRows
    <3>2. CASE mids = [i \in 1 .. n |-> m]
      <4>1. DOMAIN mids = 1 .. n /\ mids \in [1 .. n -> Mid]
        BY <3>2
      <4>2. QED
        BY <1>4, <2>1, <4>1
    <3>3. CASE mids = <<>>
      <4>1. DOMAIN mids = 1 .. 0 /\ mids \in [1 .. 0 -> Mid]
        BY <3>3
      <4>2. QED
        BY <1>4, <2>1, <4>1
    <3>4. QED
      BY <3>1, <3>2, <3>3
  <2>4. QED
    BY <2>2, <2>3
<1>7. ASSUME NEW k \in 0 .. n, NEW mids \in [1 .. k -> Mid], NEW toks \in TokenPicks(k),
             nextId + k - 1 <= MaxTaskId
      PROVE  Batch(k, mids, [i \in 1 .. k |-> Title], devs, toks)
  <2>1. k \in Nat /\ k <= asked
    BY <1>2, <1>4
  <2>2. \A i \in 1 .. k : devs[i] \in Device
    BY <1>1, <1>2, <2>1
  <2>3. QED
    BY <1>7, <2>1, <2>2 DEF Batch
<1>8. QED
  <2>1. CASE SweepOnly
    BY <1>3, <2>1
  <2>2. CASE ~SweepOnly
    <3>1. PICK mids \in RandomRows(n) \cup UNION {NamedRows(m, n) : m \in Mid} :
            LET c == Cardinality(DOMAIN mids) IN
              /\ nextId + c - 1 <= MaxTaskId
              /\ \E toks \in TokenPicks(c) :
                   Insert(c, mids, [i \in 1 .. c |-> Title], devs, toks)
      BY <1>5, <2>2
    <3>2. PICK k \in 0 .. n : k = Cardinality(DOMAIN mids) /\ mids \in [1 .. k -> Mid]
      BY <1>6
    <3>3. k \in Nat
      BY <1>4
    <3>4. QED
      BY <1>3, <1>7, <3>1, <3>2, <3>3
  <2>3. QED
    BY <2>1, <2>2

-----------------------------------------------------------------------------

LEMMA SweepTypes ==
  ASSUME TypeOK, SweepOnly, devices' \in [Device -> DeviceStatus] PROVE TypeOK'
<1>1. tasks' \in [TaskId -> Task]
  BY RowsStayRows DEF SweepOnly, TypeOK
<1>2. QED
  BY <1>1 DEF SweepOnly, TypeOK

\* A v1 report of an id that is known changes no token and no age; one of an
\* unknown id becomes a row with token 0.
LEMMA CompletedRows ==
  ASSUME TypeOK, RowsEndAtNextId,
         NEW i \in TaskId, NEW raw \in RawStatus, NEW d \in Device \cup {None},
         NEW shop \in Store \cup {None}, CompleteTask(i, raw, d, shop)
  PROVE  /\ TypeOK'
         /\ Known' = Known \cup {i}
         /\ \A j \in Known : tasks'[j].token = tasks[j].token
         /\ i \notin Known => tasks'[i].token = 0
         /\ i < nextId' /\ nextId <= nextId'
<1> DEFINE row == IF tasks[i].status # "NONE"
                    THEN [tasks[i] EXCEPT !.status = StatusVal(raw), !.done = 0,
                                          !.device = IF d = None THEN tasks[i].device ELSE d,
                                          !.store = IF shop = None THEN tasks[i].store ELSE shop]
                    ELSE [NoTask EXCEPT !.status = StatusVal(raw), !.done = 0,
                                        !.device = d, !.store = shop]
<1>1. tasks[i] \in Task /\ NoTask \in Task /\ 0 \in Age
  BY DEF TypeOK, Task, NoTask, TaskStatus, Age
<1>2. StatusVal(raw) \in TaskStatus \ {"NONE"}
  BY DEF StatusVal, RawStatus, TaskStatus
<1>3. /\ row \in Task /\ row.status # "NONE"
      /\ tasks[i].status # "NONE" => row.token = tasks[i].token
      /\ tasks[i].status = "NONE" => row.token = 0
  <2>1. CASE tasks[i].status # "NONE"
    BY <1>1, <1>2, <2>1 DEF Task
  <2>2. CASE tasks[i].status = "NONE"
    <3>1. row = [NoTask EXCEPT !.status = StatusVal(raw), !.done = 0, !.device = d, !.store = shop]
      BY <2>2
    <3>2. NoTask.token = 0
      BY DEF NoTask
    <3> HIDE DEF row
    <3>3. QED
      BY <1>1, <1>2, <2>2, <3>1, <3>2 DEF Task
  <2>3. QED
    BY <2>1, <2>2
<1>4. tasks' = [tasks EXCEPT ![i] = row]
  BY Zenon DEF CompleteTask
<1> HIDE DEF row
<1>5. i \in Nat /\ nextId \in Nat \ {0}
  BY DEF TypeOK, TaskId
<1>6. nextId' = IF tasks[i].status = "NONE" /\ i >= nextId THEN i + 1 ELSE nextId
  BY DEF CompleteTask, AfterId
<1>7. tasks' \in [TaskId -> Task] /\ nextId' \in Nat \ {0}
  BY <1>3, <1>4, <1>5, <1>6 DEF TypeOK
<1>8. TypeOK'
  BY <1>7 DEF CompleteTask, TypeOK
<1>9. /\ Known' = Known \cup {i}
      /\ \A j \in Known : tasks'[j].token = tasks[j].token
      /\ i \notin Known => tasks'[i].token = 0
  BY <1>3, <1>4 DEF Known, TypeOK
<1>10. i < nextId' /\ nextId <= nextId'
  BY <1>5, <1>6 DEF RowsEndAtNextId, Known
<1>11. QED
  BY <1>8, <1>9, <1>10

-----------------------------------------------------------------------------

\* The token counts of two states agree when the tokens of the rows do, and
\* the rows that were added have none.
LEMMA CountsKept ==
  ASSUME TokenUseMatchesTasks, UNCHANGED nnbs, Known \subseteq Known',
         \A i \in Known : tasks'[i].token = tasks[i].token,
         \A i \in Known' \ Known : tasks'[i].token \notin Token
  PROVE  TokenUseMatchesTasks'
<1>1. ASSUME NEW t \in Token
      PROVE  {i \in Known' : tasks'[i].token = t} = {i \in Known : tasks[i].token = t}
  OBVIOUS
<1>2. QED
  BY <1>1 DEF TokenUseMatchesTasks

\* A step that adds no row and moves no token keeps the invariant: the sweep,
\* a look-up, a v2 report and midnight are such steps.
LEMMA BothKept ==
  ASSUME BothInv, TypeOK', UNCHANGED <<nextId, nnbs, harvested>>,
         \A i \in TaskId : /\ tasks'[i].status = "NONE" <=> tasks[i].status = "NONE"
                           /\ tasks'[i].token = tasks[i].token
  PROVE  BothInv'
<1>1. Known' = Known
  BY DEF Known
<1>2. RowsEndAtNextId' /\ TokensAreListed'
  BY <1>1 DEF BothInv, RowsEndAtNextId, TokensAreListed, Known
<1>3. TokenUseMatchesTasks'
  BY <1>1, CountsKept DEF BothInv, Known
<1>4. QED
  BY <1>2, <1>3 DEF BothInv

LEMMA BothSweeps == ASSUME BothInv, TypeOK', SweepOnly PROVE BothInv'
<1>1. \A i \in TaskId : tasks[i] \in Task /\ tasks'[i] = Swept(tasks[i])
  BY DEF BothInv, TypeOK, SweepOnly
<1>2. UNCHANGED <<nextId, nnbs, harvested>>
  BY DEF SweepOnly
<1>3. QED
  BY <1>1, <1>2, SweptFields, BothKept

\* Time passes for rows and tokens, whatever their gaps.
LEMMA BothTicks == ASSUME BothInv, TypeOK', Tick PROVE BothInv'
<1>1. ASSUME NEW i \in TaskId
      PROVE  tasks'[i].status = tasks[i].status /\ tasks'[i].token = tasks[i].token
  <2>1. tasks[i] \in Task
    BY DEF BothInv, TypeOK
  <2>2. CASE tasks[i].status = "NONE"
    BY <2>2 DEF Tick
  <2>3. CASE tasks[i].status # "NONE"
    <3>1. tasks'[i] = [tasks[i] EXCEPT !.age = Older(@), !.done = Older(@)]
      BY <2>3 DEF Tick
    <3>2. QED
      BY <2>1, <3>1 DEF Task
  <2>4. QED
    BY <2>2, <2>3
<1>2. \A t \in Token : nnbs'[t].uses = nnbs[t].uses
  BY DEF Tick, BothInv, TypeOK, Nnb
<1>3. Known' = Known /\ UNCHANGED <<nextId, harvested>>
  BY <1>1 DEF Known, Tick
<1>4. RowsEndAtNextId' /\ TokensAreListed'
  BY <1>1, <1>3 DEF BothInv, RowsEndAtNextId, TokensAreListed, Known
<1>5. ASSUME NEW t \in Token
      PROVE  {i \in Known' : tasks'[i].token = t} = {i \in Known : tasks[i].token = t}
  BY <1>1, <1>3 DEF Known
<1>6. TokenUseMatchesTasks'
  BY <1>2, <1>5 DEF BothInv, TokenUseMatchesTasks
<1>7. QED
  BY <1>4, <1>6 DEF BothInv

\* The new token was not a row before, so no task has it.
LEMMA BothHarvests == ASSUME BothInv, TypeOK', HarvestToken PROVE BothInv'
<1> USE DEF BothInv
<1>1. Known' = Known /\ tasks' = tasks /\ nextId' = nextId /\ harvested' = harvested + 1
  BY DEF HarvestToken, Known
<1>2. harvested \in 0 .. MaxToken /\ harvested + 1 \in Token
  BY DEF HarvestToken, TypeOK, Token
<1>3. /\ \A t \in Token \ {harvested + 1} : nnbs'[t] = nnbs[t]
      /\ nnbs'[harvested + 1].uses = 0
  BY <1>2 DEF HarvestToken, TypeOK
<1>4. \A i \in Known : tasks[i].token # harvested + 1
  BY <1>2 DEF TokensAreListed
<1>5. RowsEndAtNextId' /\ TokensAreListed'
  BY <1>1, <1>2 DEF RowsEndAtNextId, TokensAreListed
<1>6. TokenUseMatchesTasks'
  <2> SUFFICES ASSUME NEW t \in Token
               PROVE  nnbs'[t].uses = Cardinality({i \in Known : tasks[i].token = t})
    BY <1>1 DEF TokenUseMatchesTasks
  <2>1. CASE t = harvested + 1
    <3>1. {i \in Known : tasks[i].token = t} = {}
      BY <1>4, <2>1
    <3>2. QED
      BY <1>3, <2>1, <3>1, FS_EmptySet
  <2>2. CASE t # harvested + 1
    BY <1>3, <2>2 DEF TokenUseMatchesTasks
  <2>3. QED
    BY <2>1, <2>2
<1>7. QED
  BY <1>5, <1>6

\* A batch of either generation goes beyond every row there is.
LEMMA BothInserts ==
  ASSUME BothInv, TypeOK', NEW k, NEW mids, NEW kws, NEW devs, NEW toks,
         Batch(k, mids, kws, devs, toks), Insert(k, mids, kws, devs, toks)
  PROVE  BothInv'
<1>1. TypeOK /\ RowsEndAtNextId /\ TokensAreListed /\ TokenUseMatchesTasks
  BY DEF BothInv
<1>2. k \in Nat /\ nextId \in Nat \ {0} /\ nextId' = nextId + k /\ harvested' = harvested
  BY <1>1 DEF Batch, Insert, TypeOK
<1>3. /\ \A i \in NewIds(k) : i - nextId + 1 \in 1 .. k
      /\ \A i \in NewIds(k) : tasks'[i].token = toks[i - nextId + 1]
      /\ Known' = Known \cup NewIds(k)
  BY <1>1, InsertedRows
<1>4. \A i \in Known : tasks'[i].token = tasks[i].token
  BY <1>1, InsertKeepsRows
<1>5. toks \in [1 .. k -> Mature] /\ Mature \subseteq 1 .. harvested
  BY <1>1, PicksAreDistinct DEF Batch
<1>6. RowsEndAtNextId'
  <2>1. \A i \in Known : i \in Nat /\ i < nextId
    BY <1>1 DEF RowsEndAtNextId, Known, TaskId
  <2>2. \A i \in NewIds(k) : i < nextId + k
    BY <1>2 DEF NewIds
  <2>3. QED
    BY <1>2, <1>3, <2>1, <2>2 DEF RowsEndAtNextId
<1>7. TokensAreListed'
  <2>1. harvested \in Nat
    BY <1>1 DEF TypeOK
  <2>2. \A i \in NewIds(k) : tasks'[i].token \in 1 .. harvested
    BY <1>3, <1>5
  <2>3. \A i \in Known : tasks'[i].token \in 0 .. harvested
    BY <1>1, <1>4 DEF TokensAreListed
  <2>4. QED
    BY <1>2, <1>3, <2>1, <2>2, <2>3 DEF TokensAreListed
<1>8. TokenUseMatchesTasks'
  BY <1>1, InsertCounts
<1>9. QED
  BY <1>6, <1>7, <1>8 DEF BothInv

\* A v1 report adds at most a row without a token.
LEMMA BothCompletes ==
  ASSUME BothInv, NEW i \in TaskId, NEW raw \in RawStatus, NEW d \in Device \cup {None},
         NEW shop \in Store \cup {None}, CompleteTask(i, raw, d, shop)
  PROVE  BothInv'
<1>1. TypeOK /\ RowsEndAtNextId /\ TokensAreListed /\ TokenUseMatchesTasks
  BY DEF BothInv
<1>2. /\ TypeOK'
      /\ Known' = Known \cup {i}
      /\ \A j \in Known : tasks'[j].token = tasks[j].token
      /\ i \notin Known => tasks'[i].token = 0
      /\ i < nextId' /\ nextId <= nextId'
  BY <1>1, CompletedRows
<1>3. UNCHANGED <<nnbs, harvested>> /\ harvested \in Nat
  BY <1>1 DEF CompleteTask, TypeOK
<1>4. RowsEndAtNextId'
  <2>1. \A j \in Known : j \in Nat /\ j < nextId
    BY <1>1 DEF RowsEndAtNextId, Known, TaskId
  <2>2. nextId \in Nat /\ nextId' \in Nat
    BY <1>1, <1>2 DEF TypeOK
  <2>3. QED
    BY <1>2, <2>1, <2>2 DEF RowsEndAtNextId
<1>5. TokensAreListed'
  BY <1>1, <1>2, <1>3 DEF TokensAreListed
<1>6. TokenUseMatchesTasks'
  <2>1. 0 \notin Token
    BY DEF Token
  <2>2. QED
    BY <1>1, <1>2, <1>3, <2>1, CountsKept
<1>7. QED
  BY <1>2, <1>4, <1>5, <1>6 DEF BothInv

-----------------------------------------------------------------------------

LEMMA BothInit == Init => BothInv
<1> SUFFICES ASSUME Init PROVE BothInv
  OBVIOUS
<1>1. IInv
  BY InvInit
<1>2. Known = {}
  BY DEF Known, Init, NoTask
<1>3. QED
  BY <1>1, <1>2, InvRows DEF IInv, BothInv, TokensAreListed

LEMMA BothStep == BothInv /\ [BothNext]_vars => BothInv'
<1> SUFFICES ASSUME BothInv, [BothNext]_vars PROVE BothInv'
  OBVIOUS
<1>1. TypeOK
  BY DEF BothInv
<1>2. CASE Next \/ UNCHANGED vars
  <2>1. TypeOK'
    BY <1>1, <1>2, TypeStep
  <2>2. CASE Tick
    BY <2>1, <2>2, BothTicks
  <2>3. CASE HarvestToken
    BY <2>1, <2>3, BothHarvests
  <2>4. ASSUME NEW devs \in Batches, NEW excluded \in SUBSET Mid, Allocate(devs, excluded)
        PROVE  BothInv'
    BY <1>1, <2>1, <2>4, AllocateCases, BothSweeps, BothInserts
  <2>5. ASSUME NEW i \in TaskId, NEW outcome \in Outcome, NEW d \in Device, Report(i, outcome, d)
        PROVE  BothInv'
    <3>1. UNCHANGED <<nextId, nnbs, harvested>>
      BY <2>5 DEF Report
    <3>2. QED
      BY <1>1, <2>1, <2>5, <3>1, ReportedRows, BothKept
  <2>6. CASE Midnight
    BY <2>1, <2>6, BothKept DEF Midnight
  <2>7. CASE UNCHANGED vars
    BY <2>1, <2>7, BothKept DEF vars
  <2>8. QED
    BY <1>2, <2>2, <2>3, <2>4, <2>5, <2>6, <2>7 DEF Next, AnyAllocate, AnyReport
<1>3. ASSUME NEW devs \in Batches, NEW wanted \in Mid \cup {None}, AssignTasks(devs, wanted)
      PROVE  BothInv'
  <2>1. devices' \in [Device -> DeviceStatus]
    BY <1>1, <1>3, AssignCases
  <2>2. CASE SweepOnly
    BY <1>1, <2>1, <2>2, SweepTypes, BothSweeps
  <2>3. ASSUME NEW k \in Nat, NEW mids, NEW kws, NEW toks,
               Batch(k, mids, kws, devs, toks), Insert(k, mids, kws, devs, toks)
        PROVE  BothInv'
    BY <1>1, <2>1, <2>3, InsertTypes, BothInserts
  <2>4. QED
    BY <1>1, <1>3, <2>2, <2>3, AssignCases
<1>4. CASE LookUpTask
  <2>1. SweepOnly /\ devices' \in [Device -> DeviceStatus]
    BY <1>1, <1>4 DEF LookUpTask, TypeOK
  <2>2. QED
    BY <1>1, <2>1, SweepTypes, BothSweeps
<1>5. ASSUME NEW i \in TaskId, NEW raw \in RawStatus, NEW d \in Device \cup {None},
             NEW shop \in Store \cup {None}, CompleteTask(i, raw, d, shop)
      PROVE  BothInv'
  BY <1>5, BothCompletes
<1>6. QED
  BY <1>2, <1>3, <1>4, <1>5 DEF BothNext, AnyAssign, AnyComplete

\* The invariant of the two generations together.
THEOREM BothInvariant == BothSpec => []BothInv
BY BothInit, BothStep, PTL DEF BothSpec

\* Whichever of the two generations numbers a row, a later insert is beyond it.
THEOREM BothRowsEnd == BothSpec => []RowsEndAtNextId
<1>1. BothInv => RowsEndAtNextId
  BY DEF BothInv
<1>2. QED
  BY <1>1, BothInvariant, PTL

\* The use counters of the tokens count the tasks of both generations.
THEOREM BothTokenAccounts == BothSpec => []TokenUseMatchesTasks
<1>1. BothInv => TokenUseMatchesTasks
  BY DEF BothInv
<1>2. QED
  BY <1>1, BothInvariant, PTL

-----------------------------------------------------------------------------

\* What the runners know of the tables.

HIDE ListAssumption
HIDE ServiceAssumption
HIDE CatalogueAssumption
HIDE WindowAssumption
HIDE BoundsAssumption
USE RunnerAssumption, PhonesAssumption

\* The phones a runner names are a batch of TaskServer.
LEMMA PhonesAreBatches == \A n \in Node : PhonesOf[n] \in Batches
BY DEF Batches

\* A row keeps its product and its phone.
SameRow(i) == tasks'[i].mid = tasks[i].mid /\ tasks'[i].device = tasks[i].device

\* Rows a batch adds.
Added == {i \in TaskId : nextId <= i /\ i < nextId'}

LEMMA SweptRow ==
  ASSUME NEW t \in Task
  PROVE  /\ Swept(t) \in Task /\ Swept(t).mid = t.mid /\ Swept(t).device = t.device
         /\ Swept(t).status = "NONE" <=> t.status = "NONE"
         /\ t.status # "ASSIGNED" => Swept(t).status = t.status
<1>1. CASE Overdue(t)
  BY <1>1, RowsStayRows DEF Swept, Overdue, Task
<1>2. CASE ~Overdue(t)
  BY <1>2 DEF Swept, Overdue
<1>3. QED
  BY <1>1, <1>2

\* An allocation adds rows of different candidates and phones of the list,
\* which are WORKING then, and sweeps the others.
LEMMA BatchRows ==
  ASSUME TypeOK, RowsEndAtNextId, NEW devs \in Batches, NEW excluded \in SUBSET Mid,
         Allocate(devs, excluded)
  PROVE  /\ TypeOK' /\ RowsEndAtNextId' /\ quotas' = quotas
         /\ Known' = Known \cup Added /\ Known \cap Added = {}
         /\ \A i \in Known : SameRow(i) /\ (tasks[i].status # "ASSIGNED" => tasks'[i].status = tasks[i].status)
         /\ \A i \in Added : /\ tasks'[i].mid \in Candidates
                             /\ \E n \in DOMAIN devs : devs[n] = tasks'[i].device
                             /\ devices'[tasks'[i].device] = "WORKING"
         /\ \A i, j \in Added : i # j => /\ tasks'[i].mid # tasks'[j].mid
                                         /\ tasks'[i].device # tasks'[j].device
         /\ \A d \in Device : devices[d] = "WORKING" => devices'[d] = "WORKING"
<1>1. devices' \in [Device -> DeviceStatus]
  BY AllocateCases
<1>2. \A d \in Device : devices[d] = "WORKING" => devices'[d] = "WORKING"
  BY DEF Allocate, MarkWorking
<1>3. \A i \in TaskId : tasks[i] \in Task
  BY DEF TypeOK
<1>4. CASE SweepOnly
  <2>1. \A i \in TaskId : tasks'[i] = Swept(tasks[i])
    BY <1>4 DEF SweepOnly
  <2>2. Added = {} /\ UNCHANGED <<nextId, nnbs, harvested, quotas, exposed>>
    BY <1>4 DEF SweepOnly, Added, TypeOK, TaskId
  <2>3. tasks' \in [TaskId -> Task]
    BY <1>3, <1>4, SweptRow DEF SweepOnly
  <2>4. Known' = Known
    BY <1>3, <2>1, SweptRow DEF Known
  <2>5. \A i \in Known : SameRow(i) /\ (tasks[i].status # "ASSIGNED" => tasks'[i].status = tasks[i].status)
    BY <1>3, <2>1, SweptRow DEF Known, SameRow
  <2>6. TypeOK' /\ RowsEndAtNextId'
    BY <1>1, <2>2, <2>3, <2>4 DEF TypeOK, RowsEndAtNextId
  <2>7. QED
    BY <1>2, <2>2, <2>4, <2>5, <2>6
<1>5. ASSUME NEW k \in Nat, NEW mids, NEW kws, NEW toks, ~ SweepOnly,
             Batch(k, mids, kws, devs, toks), Insert(k, mids, kws, devs, toks),
             \A i, j \in 1 .. k : mids[i] = mids[j] => i = j,
             \A i, j \in 1 .. k : devs[i] = devs[j] => i = j,
             \A i \in 1 .. k : mids[i] \in Candidates /\ i \in DOMAIN devs
      PROVE  /\ TypeOK' /\ RowsEndAtNextId' /\ quotas' = quotas
             /\ Known' = Known \cup Added /\ Known \cap Added = {}
             /\ \A i \in Known : SameRow(i) /\ (tasks[i].status # "ASSIGNED" => tasks'[i].status = tasks[i].status)
             /\ \A i \in Added : /\ tasks'[i].mid \in Candidates
                                 /\ \E n \in DOMAIN devs : devs[n] = tasks'[i].device
                                 /\ devices'[tasks'[i].device] = "WORKING"
             /\ \A i, j \in Added : i # j => /\ tasks'[i].mid # tasks'[j].mid
                                             /\ tasks'[i].device # tasks'[j].device
  <2>1. TypeOK' /\ quotas' = quotas /\ nextId' = nextId + k /\ nextId \in Nat
    BY <1>1, <1>5, InsertTypes DEF Insert, TypeOK
  <2>2. /\ \A i \in NewIds(k) : i \in TaskId /\ i \notin Known /\ i - nextId + 1 \in 1 .. k
        /\ \A i \in TaskId \ NewIds(k) : tasks'[i] = Swept(tasks[i])
        /\ Known' = Known \cup NewIds(k)
    BY <1>5, InsertedRows
  <2>3. Added = NewIds(k)
    BY <2>1, <2>2 DEF Added, NewIds, TaskId
  <2>4. \A i \in Known : SameRow(i) /\ (tasks[i].status # "ASSIGNED" => tasks'[i].status = tasks[i].status)
    BY <1>3, <2>2, SweptRow DEF Known, SameRow
  <2>5. \A i \in Added : /\ tasks'[i].mid = mids[i - nextId + 1]
                         /\ tasks'[i].device = devs[i - nextId + 1]
    BY <1>5, <2>2, <2>3 DEF Insert
  <2>6. \A i \in 1 .. k : devs[i] \in Device /\ devices'[devs[i]] = "WORKING"
    BY <1>5 DEF Allocate, MarkWorking, Batch
  <2>7. RowsEndAtNextId'
    BY <2>1, <2>2 DEF RowsEndAtNextId, NewIds, Known, TaskId
  <2>8. \A i, j \in Added : i # j => i - nextId + 1 # j - nextId + 1
    BY <2>1 DEF Added, TaskId
  <2>9. QED
    BY <1>5, <2>1, <2>2, <2>3, <2>4, <2>5, <2>6, <2>7, <2>8
<1>6. QED
  BY <1>2, <1>4, <1>5, AllocateCases

\* A report overwrites the status of its row, and counts a success once.
LEMMA ReportRows ==
  ASSUME TypeOK, RowsEndAtNextId, NEW i \in Known, NEW outcome, Report(i, outcome, tasks[i].device)
  PROVE  /\ TypeOK' /\ RowsEndAtNextId' /\ Known' = Known
         /\ \A j \in TaskId : SameRow(j)
         /\ \A j \in TaskId \ {i} : tasks'[j].status = tasks[j].status
         /\ tasks'[i].status = IF outcome = "SUCCESS" THEN "SUCCESS" ELSE "FAILED"
         /\ \A m \in Mid : quotas'[m] =
              IF m = tasks[i].mid /\ outcome = "SUCCESS" THEN Hit(quotas[m]) ELSE quotas[m]
         /\ \A x \in Device : x # tasks[i].device => devices'[x] = devices[x]
<1> DEFINE done == IF outcome = "SUCCESS" THEN "SUCCESS" ELSE "FAILED"
<1>1. i \in TaskId /\ tasks[i] \in Task /\ tasks[i].status # "NONE"
  BY DEF Known, TypeOK
<1>2. /\ tasks' = [tasks EXCEPT ![i] = [tasks[i] EXCEPT !.status = done, !.done = 0]]
      /\ quotas' = [m \in Mid |-> IF m = tasks[i].mid /\ outcome = "SUCCESS" THEN Hit(quotas[m])
                                                                            ELSE quotas[m]]
      /\ UNCHANGED <<nextId, nnbs, harvested>>
  BY <1>1 DEF Report
<1>3. done \in TaskStatus /\ done # "NONE"
  BY DEF TaskStatus
<1> HIDE DEF done
<1>4. [tasks[i] EXCEPT !.status = done, !.done = 0] \in Task
  BY <1>1, <1>3, RowsStayRows
<1>5. /\ tasks' \in [TaskId -> Task]
      /\ \A j \in TaskId \ {i} : tasks'[j] = tasks[j]
      /\ tasks'[i].status = done /\ SameRow(i)
  BY <1>1, <1>2, <1>4 DEF TypeOK, Task, SameRow
<1>6. Known' = Known
  BY <1>1, <1>3, <1>5 DEF Known
<1>7. devices' \in [Device -> DeviceStatus]
  BY DEF Report, TypeOK, DeviceStatus
<1>8. \A x \in Device : x # tasks[i].device => devices'[x] = devices[x]
  BY DEF Report
<1>9. quotas' \in [Mid -> Quota] /\ exposed' \in [Mid -> SUBSET Keyword]
  BY <1>2, HitIsQuota DEF Report, TypeOK
<1>10. TypeOK' /\ RowsEndAtNextId'
  BY <1>2, <1>5, <1>6, <1>7, <1>9 DEF TypeOK, RowsEndAtNextId
<1>11. QED
  BY <1>2, <1>5, <1>6, <1>8, <1>10 DEF SameRow, done

\* A report by the path of v1 does the same to a row, and nothing else.
LEMMA CompleteRows ==
  ASSUME TypeOK, RowsEndAtNextId, NEW i \in Known, Complete(i)
  PROVE  /\ TypeOK' /\ RowsEndAtNextId' /\ Known' = Known
         /\ \A j \in TaskId : SameRow(j)
         /\ \A j \in TaskId \ {i} : tasks'[j].status = tasks[j].status
         /\ tasks'[i].status = IF job[i].outcome = "SUCCESS" THEN "SUCCESS" ELSE "FAILED"
         /\ quotas' = quotas /\ devices' = devices
<1> DEFINE done == IF job[i].outcome = "SUCCESS" THEN "SUCCESS" ELSE "FAILED"
           new  == [tasks[i] EXCEPT !.status = done, !.done = 0, !.device = tasks[i].device,
                                    !.store = tasks[i].store]
<1>1. i \in TaskId /\ tasks[i] \in Task /\ tasks[i].status # "NONE"
  BY DEF Known, TypeOK
<1>2. done \in TaskStatus /\ done # "NONE" /\ StatusVal(done) = done
  BY DEF TaskStatus, StatusVal
<1>3. /\ tasks' = [tasks EXCEPT ![i] = new]
      /\ UNCHANGED <<nextId, nnbs, harvested, devices, quotas, exposed>>
  <2>1. CompleteTask(i, done, tasks[i].device, tasks[i].store)
    BY DEF Complete
  <2> HIDE DEF done
  <2>2. QED
    BY <1>1, <1>2, <2>1 DEF CompleteTask, AfterId
<1> HIDE DEF done
<1>4. new \in Task /\ new.status = done /\ new.mid = tasks[i].mid /\ new.device = tasks[i].device
  <2>1. new = [tasks[i] EXCEPT !.status = done, !.done = 0]
    BY <1>1 DEF Task
  <2>2. [tasks[i] EXCEPT !.status = done, !.done = 0] \in Task
    BY <1>1, <1>2, RowsStayRows
  <2>3. /\ [tasks[i] EXCEPT !.status = done, !.done = 0].status = done
        /\ [tasks[i] EXCEPT !.status = done, !.done = 0].mid = tasks[i].mid
        /\ [tasks[i] EXCEPT !.status = done, !.done = 0].device = tasks[i].device
    BY <1>1 DEF Task
  <2>4. QED
    BY <2>1, <2>2, <2>3
<1> HIDE DEF new
<1>5. /\ tasks' \in [TaskId -> Task]
      /\ \A j \in TaskId \ {i} : tasks'[j] = tasks[j]
      /\ tasks'[i].status = done /\ SameRow(i)
  BY <1>1, <1>3, <1>4 DEF TypeOK, SameRow
<1>6. Known' = Known
  BY <1>1, <1>2, <1>5 DEF Known
<1>7. TypeOK' /\ RowsEndAtNextId'
  BY <1>3, <1>5, <1>6 DEF TypeOK, RowsEndAtNextId
<1>8. QED
  BY <1>3, <1>5, <1>6, <1>7 DEF SameRow, done

\* Time changes ages only.
LEMMA TickRows ==
  ASSUME TypeOK, RowsEndAtNextId, Tick
  PROVE  /\ TypeOK' /\ RowsEndAtNextId' /\ Known' = Known
         /\ \A j \in TaskId : SameRow(j) /\ tasks'[j].status = tasks[j].status
         /\ quotas' = quotas /\ devices' = devices
<1>1. TypeOK'
  <2>1. [Next]_vars
    BY DEF Next
  <2>2. QED
    BY <2>1, TypeStep
<1>2. ASSUME NEW j \in TaskId PROVE SameRow(j) /\ tasks'[j].status = tasks[j].status
  <2>1. tasks[j] \in Task
    BY DEF TypeOK
  <2>2. tasks'[j] = tasks[j] \/ tasks'[j] = [tasks[j] EXCEPT !.age = Older(@), !.done = Older(@)]
    BY DEF Tick
  <2>3. QED
    BY <2>1, <2>2 DEF Task, SameRow
<1>3. Known' = Known
  BY <1>2 DEF Known
<1>4. QED
  BY <1>1, <1>2, <1>3 DEF Tick, RowsEndAtNextId

-----------------------------------------------------------------------------

\* What the server knows of a task that a runner has or had.
JobsHaveRows == \A i \in TaskId : job[i].st # "none" => i \in Known /\ tasks[i].device \in Device

\* A report that may still arrive is of a worker whose work has ended.
LateIsOver ==
    \A i \in TaskId : <<"report", i>> \in late \/ <<"fallback", i>> \in late
                         => job[i].st \notin {"none", "running"}

\* A worker belongs to a main of its node, which waits for it if it runs, and to one
\* of the node's phones.
JobsAreOfACycle ==
    \A i \in TaskId : job[i].st \in Active =>
        /\ job[i].node \in Node /\ job[i].life \in 1 .. MaxMains
        /\ Own(i) => pc[job[i].node] = "working"
        /\ \E k \in DOMAIN PhonesOf[job[i].node] : PhonesOf[job[i].node][k] = tasks[i].device

\* Workers of one main have different products and phones.
JobsAreApart ==
    \A i, j \in TaskId :
        i # j /\ job[i].st \in Active /\ job[j].st \in Active /\ Main(i) = Main(j)
            => tasks[i].mid # tasks[j].mid /\ tasks[i].device # tasks[j].device

RunnerInv ==
    /\ TypeOK /\ RowsEndAtNextId /\ RunnerTypeOK
    /\ JobsHaveRows /\ LateIsOver /\ JobsAreOfACycle /\ JobsAreApart
    /\ AckedIsRecorded

Job == [st : JobState, node : Node \cup {None}, life : 0 .. MaxMains,
        outcome : Outcome \cup {None}, req : Request]

LEMMA RequestTypes ==
  /\ Fresh \in Request
  /\ \A r \in Request : /\ Served(r) \in Request
                        /\ Left(r) => Again(r) \in Request
                        /\ r.try \in 1 .. Attempts /\ r.open \in BOOLEAN
<1>1. Fresh \in Request
  BY DEF Fresh, Request
<1>2. ASSUME NEW r \in Request
      PROVE  /\ Served(r) \in Request /\ (Left(r) => Again(r) \in Request)
             /\ r.try \in 1 .. Attempts /\ r.open \in BOOLEAN
  <2>1. r.try \in 1 .. Attempts /\ r.open \in BOOLEAN
    BY DEF Request
  <2>2. Served(r) \in Request
    BY DEF Served, Request
  <2>3. Left(r) => Again(r) \in Request
    BY <2>1 DEF Left, Again, Request
  <2>4. QED
    BY <2>1, <2>2, <2>3
<1>3. QED
  BY <1>1, <1>2

LEMMA JobTypes ==
  ASSUME NEW j \in Job
  PROVE  /\ \A st \in JobState : /\ Gone(j, st) \in Job /\ Gone(j, st).st = st
                                 /\ Gone(j, st).node = j.node /\ Gone(j, st).outcome = j.outcome
                                 /\ Gone(j, st).req = Fresh
         /\ \A st \in JobState, r \in Request :
              [j EXCEPT !.st = st, !.req = r] \in Job
<1>1. Fresh \in Request /\ 0 \in 0 .. MaxMains
  BY RequestTypes
<1>2. ASSUME NEW st \in JobState
      PROVE  /\ Gone(j, st) \in Job /\ Gone(j, st).st = st
             /\ Gone(j, st).node = j.node /\ Gone(j, st).outcome = j.outcome
             /\ Gone(j, st).req = Fresh
  BY <1>1 DEF Gone, Job
<1>3. ASSUME NEW st \in JobState, NEW r \in Request
      PROVE  [j EXCEPT !.st = st, !.req = r] \in Job
  BY DEF Job
<1>4. QED
  BY <1>2, <1>3

\* A request that changes leaves the others and what they exclude.
LEMMA AskTypes ==
  ASSUME RunnerInv, NEW n \in Node, NEW r \in Request
  PROVE  [ask EXCEPT ![n].req = r] \in [Node -> [req : Request, excluded : SUBSET Mid]]
<1>1. ask \in [Node -> [req : Request, excluded : SUBSET Mid]]
  BY DEF RunnerInv, RunnerTypeOK
<1>2. [ask[n] EXCEPT !.req = r] \in [req : Request, excluded : SUBSET Mid]
  BY <1>1
<1>3. [ask EXCEPT ![n].req = r] = [ask EXCEPT ![n] = [ask[n] EXCEPT !.req = r]]
  BY <1>1
<1>4. QED
  BY <1>1, <1>2, <1>3

\* A step of one worker, or its end, keeps the invariant.
LEMMA WorkerKeeps ==
  ASSUME RunnerInv, NEW i \in TaskId, NEW j \in Job,
         job' = [job EXCEPT ![i] = j], UNCHANGED <<pc, ask, life>>,
         job[i].st \in Active, j.node = job[i].node,
         j.st \in {"reporting", "fallback"} => j.life = job[i].life,
         j.st \in {"reporting", "fallback", "acked", "lost"},
         late' \subseteq late \cup {<<"report", i>>, <<"fallback", i>>}, stray' \subseteq Device,
         TypeOK', RowsEndAtNextId', Known' = Known,
         \A q \in TaskId : SameRow(q),
         \A q \in TaskId \ {i} : tasks'[q].status = tasks[q].status,
         j.st = "acked" => tasks'[i].status = IF j.outcome = "SUCCESS" THEN "SUCCESS" ELSE "FAILED"
  PROVE  RunnerInv'
<1>1. job' \in [TaskId -> Job] /\ job'[i] = j /\ \A q \in TaskId \ {i} : job'[q] = job[q]
  BY DEF RunnerInv, RunnerTypeOK, Job
<1>2. RunnerTypeOK'
  BY <1>1 DEF RunnerInv, RunnerTypeOK, Job
<1>3. JobsHaveRows'
  <2>1. job[i].st # "none"
    BY DEF Active
  <2>2. QED
    BY <1>1, <2>1 DEF RunnerInv, JobsHaveRows, SameRow
<1>4. LateIsOver'
  <2> SUFFICES ASSUME NEW q \in TaskId, <<"report", q>> \in late' \/ <<"fallback", q>> \in late'
               PROVE  job'[q].st \notin {"none", "running"}
    BY DEF LateIsOver
  <2>1. CASE q = i
    BY <1>1, <2>1
  <2>2. CASE q # i
    BY <1>1, <2>2 DEF RunnerInv, LateIsOver
  <2>3. QED
    BY <2>1, <2>2
<1>5. \A q \in TaskId : job'[q].st \in Active =>
        job[q].st \in Active /\ job'[q].node = job[q].node /\ job'[q].life = job[q].life
  BY <1>1 DEF Active
<1>6. JobsAreOfACycle'
  BY <1>5 DEF RunnerInv, JobsAreOfACycle, SameRow, Own
<1>7. JobsAreApart'
  BY <1>5 DEF RunnerInv, JobsAreApart, SameRow, Main
<1>8. AckedIsRecorded'
  BY <1>1 DEF RunnerInv, AckedIsRecorded
<1>9. QED
  BY <1>2, <1>3, <1>4, <1>6, <1>7, <1>8 DEF RunnerInv

\* So does a step that changes rows of the server but no job.
LEMMA ServerKeeps ==
  ASSUME RunnerInv, RunnerTypeOK', UNCHANGED job, late' \subseteq late \/ LateIsOver',
         \A q \in TaskId : job[q].st \in Active /\ Own(q)' => pc'[job[q].node] = "working",
         TypeOK', RowsEndAtNextId', Known \subseteq Known',
         \A q \in Known : SameRow(q),
         \A q \in Known : job[q].st = "acked" => tasks'[q].status = tasks[q].status
  PROVE  RunnerInv'
<1>1. JobsHaveRows'
  BY DEF RunnerInv, JobsHaveRows, SameRow
<1>2. LateIsOver'
  BY DEF RunnerInv, LateIsOver
<1>3. \A q \in TaskId : job[q].st \in Active \cup {"acked"} => q \in Known
  BY DEF RunnerInv, JobsHaveRows, Active
<1>4. JobsAreOfACycle'
  BY <1>3 DEF RunnerInv, JobsAreOfACycle, SameRow
<1>5. JobsAreApart'
  BY <1>3 DEF RunnerInv, JobsAreApart, SameRow, Main
<1>6. AckedIsRecorded'
  BY <1>3 DEF RunnerInv, AckedIsRecorded
<1>7. QED
  BY <1>1, <1>2, <1>4, <1>5, <1>6 DEF RunnerInv

\* A main that waits goes on waiting, unless none of its workers is left.
LEMMA MainsWait ==
  ASSUME RunnerInv, UNCHANGED <<job, life>>,
         \A n \in Node : pc[n] = "working" => pc'[n] = "working" \/ JobsOf(n) = {}
  PROVE  \A q \in TaskId : job[q].st \in Active /\ Own(q)' => pc'[job[q].node] = "working"
<1> SUFFICES ASSUME NEW q \in TaskId, job[q].st \in Active, Own(q)'
             PROVE  pc'[job[q].node] = "working"
  OBVIOUS
<1>1. Own(q) /\ job[q].node \in Node /\ pc[job[q].node] = "working"
  BY DEF RunnerInv, JobsAreOfACycle, Own
<1>2. q \in JobsOf(job[q].node)
  BY <1>1 DEF Own, JobsOf
<1>3. QED
  BY <1>1, <1>2

-----------------------------------------------------------------------------

LEMMA AskKeeps == ASSUME RunnerInv, NEW n \in Node, Ask(n) PROVE RunnerInv'
<1>1. PICK ex \in Exclusions : ask' = [ask EXCEPT ![n] = [req |-> Fresh, excluded |-> ex]]
  BY DEF Ask
<1>2. /\ pc' = [pc EXCEPT ![n] = "asking"] /\ pc[n] = "idle"
      /\ UNCHANGED <<vars, life, job, late, stray>>
  BY DEF Ask
<1>3. RunnerTypeOK'
  BY <1>1, <1>2, RequestTypes DEF RunnerInv, RunnerTypeOK
<1>4. TypeOK' /\ RowsEndAtNextId' /\ Known' = Known /\ tasks' = tasks
  BY <1>2 DEF RunnerInv, TypeOK, RowsEndAtNextId, Known, vars
<1>5. \A q \in TaskId : job[q].st \in Active /\ Own(q)' => pc'[job[q].node] = "working"
  <2>1. \A o \in Node : pc[o] = "working" => pc'[o] = "working"
    BY <1>2 DEF RunnerInv, RunnerTypeOK
  <2>2. QED
    BY <1>2, <2>1, MainsWait
<1>6. QED
  BY <1>2, <1>3, <1>4, <1>5, ServerKeeps DEF SameRow

\* The workers of a batch begin while their main has none.
LEMMA AskAnsweredKeeps == ASSUME RunnerInv, NEW n \in Node, AskAnswered(n) PROVE RunnerInv'
<1> DEFINE new == [NoJob EXCEPT !.st = "running", !.node = n, !.life = life[n]]
<1>1. /\ pc[n] = "asking" /\ Allocate(PhonesOf[n], ask[n].excluded)
      /\ pc' = [pc EXCEPT ![n] = IF Added = {} THEN "idle" ELSE "working"]
      /\ job' = [i \in TaskId |-> IF i \in Added THEN new ELSE job[i]]
      /\ ask' = [ask EXCEPT ![n].req = Fresh] /\ stray' \subseteq stray
      /\ UNCHANGED <<life, late>>
  BY DEF AskAnswered, Added, Asked, Busy
<1>2. TypeOK /\ RowsEndAtNextId /\ PhonesOf[n] \in Batches /\ ask[n].excluded \in SUBSET Mid
  BY PhonesAreBatches DEF RunnerInv, RunnerTypeOK
<1>3. /\ TypeOK' /\ RowsEndAtNextId'
      /\ Known' = Known \cup Added /\ Known \cap Added = {}
      /\ \A i \in Known : SameRow(i) /\ (tasks[i].status # "ASSIGNED" => tasks'[i].status = tasks[i].status)
      /\ \A i \in Added : \E m \in DOMAIN PhonesOf[n] : PhonesOf[n][m] = tasks'[i].device
      /\ \A i, j \in Added : i # j => tasks'[i].mid # tasks'[j].mid /\ tasks'[i].device # tasks'[j].device
  BY <1>1, <1>2, BatchRows
<1>4. /\ new \in Job /\ new.st = "running" /\ new.node = n /\ new.life = life[n]
      /\ life[n] \in 1 .. MaxMains
  <2>1. life[n] \in 1 .. MaxMains /\ life[n] \in 0 .. MaxMains
    BY DEF RunnerInv, RunnerTypeOK
  <2>2. QED
    BY <2>1, RequestTypes DEF Job, NoJob, JobState
<1> HIDE DEF new
<1>5. \A i \in TaskId : job[i].st # "none" => i \in Known /\ i \notin Added
  BY <1>3 DEF RunnerInv, JobsHaveRows
<1>6. \A i \in TaskId : job[i].st \in Active => Main(i) # <<n, life[n]>>
  BY <1>1 DEF RunnerInv, JobsAreOfACycle, Own, Main
<1>7. \A i \in TaskId : job'[i].st \in Active =>
        \/ i \in Added /\ job'[i].node = n /\ job'[i].life = life[n]
        \/ i \in Known /\ job'[i] = job[i] /\ job[i].st \in Active
  BY <1>1, <1>4, <1>5 DEF Active
<1>8. RunnerTypeOK'
  <2>1. ask' \in [Node -> [req : Request, excluded : SUBSET Mid]]
    BY <1>1, RequestTypes, AskTypes
  <2>2. QED
    BY <1>1, <1>4, <2>1 DEF RunnerInv, RunnerTypeOK, Job
<1>9. JobsHaveRows'
  <2> SUFFICES ASSUME NEW i \in TaskId, job'[i].st # "none"
               PROVE  i \in Known' /\ tasks'[i].device \in Device
    BY DEF JobsHaveRows
  <2>1. CASE i \in Added
    <3>1. \A m \in DOMAIN PhonesOf[n] : PhonesOf[n][m] \in Device
      BY <1>2 DEF Batches
    <3>2. QED
      BY <1>3, <2>1, <3>1
  <2>2. CASE i \notin Added
    BY <1>1, <1>3, <2>2 DEF RunnerInv, JobsHaveRows, SameRow
  <2>3. QED
    BY <2>1, <2>2
<1>10. LateIsOver'
  <2> SUFFICES ASSUME NEW q \in TaskId, <<"report", q>> \in late \/ <<"fallback", q>> \in late
               PROVE  job'[q].st \notin {"none", "running"}
    BY <1>1 DEF LateIsOver
  <2>1. job[q].st \notin {"none", "running"}
    BY DEF RunnerInv, LateIsOver
  <2>2. QED
    BY <1>1, <1>5, <2>1
<1>11. JobsAreOfACycle'
  <2> SUFFICES ASSUME NEW i \in TaskId, job'[i].st \in Active
               PROVE  /\ job'[i].node \in Node /\ job'[i].life \in 1 .. MaxMains
                      /\ Own(i)' => pc'[job'[i].node] = "working"
                      /\ \E k \in DOMAIN PhonesOf[job'[i].node] :
                            PhonesOf[job'[i].node][k] = tasks'[i].device
    BY DEF JobsAreOfACycle
  <2>1. CASE i \in Added /\ job'[i].node = n /\ job'[i].life = life[n]
    <3>1. pc'[n] = "working"
      BY <1>1, <2>1 DEF RunnerInv, RunnerTypeOK
    <3>2. QED
      BY <1>3, <1>4, <2>1, <3>1
  <2>2. CASE i \in Known /\ job'[i] = job[i] /\ job[i].st \in Active
    <3>1. /\ job[i].node \in Node /\ job[i].life \in 1 .. MaxMains
          /\ Own(i) => pc[job[i].node] = "working"
          /\ \E k \in DOMAIN PhonesOf[job[i].node] : PhonesOf[job[i].node][k] = tasks[i].device
      BY <2>2 DEF RunnerInv, JobsAreOfACycle
    <3>2. Own(i)' => Own(i) /\ job[i].node # n
      BY <1>1, <1>6, <2>2 DEF Own, Main
    <3>3. Own(i)' => pc'[job[i].node] = "working"
      BY <1>1, <3>1, <3>2 DEF RunnerInv, RunnerTypeOK
    <3>4. tasks'[i].device = tasks[i].device
      BY <1>3, <2>2 DEF SameRow
    <3>5. QED
      BY <2>2, <3>1, <3>3, <3>4
  <2>3. QED
    BY <1>7, <2>1, <2>2
<1>12. JobsAreApart'
  <2> SUFFICES ASSUME NEW i \in TaskId, NEW j \in TaskId, i # j,
                      job'[i].st \in Active, job'[j].st \in Active,
                      job'[i].node = job'[j].node, job'[i].life = job'[j].life
               PROVE  tasks'[i].mid # tasks'[j].mid /\ tasks'[i].device # tasks'[j].device
    BY DEF JobsAreApart, Main
  <2>1. CASE i \in Added /\ j \in Added
    BY <1>3, <2>1
  <2>2. CASE i \in Known /\ j \in Known
    <3>1. /\ job'[i] = job[i] /\ job'[j] = job[j]
          /\ job[i].st \in Active /\ job[j].st \in Active /\ Main(i) = Main(j)
      BY <1>3, <1>7, <2>2 DEF Main
    <3>2. QED
      BY <1>3, <2>2, <3>1 DEF RunnerInv, JobsAreApart, SameRow
  <2>3. ~ (i \in Added /\ j \in Known) /\ ~ (j \in Added /\ i \in Known)
    BY <1>3, <1>6, <1>7 DEF Main
  <2>4. QED
    BY <1>7, <2>1, <2>2, <2>3
<1>13. AckedIsRecorded'
  <2> SUFFICES ASSUME NEW i \in TaskId, job'[i].st = "acked"
               PROVE  tasks'[i].status = IF job'[i].outcome = "SUCCESS" THEN "SUCCESS" ELSE "FAILED"
    BY DEF AckedIsRecorded
  <2>1. job'[i] = job[i]
    BY <1>1, <1>4
  <2>2. i \in Known /\ tasks[i].status = IF job[i].outcome = "SUCCESS" THEN "SUCCESS" ELSE "FAILED"
    BY <1>5, <2>1 DEF RunnerInv, AckedIsRecorded
  <2>3. QED
    BY <1>3, <2>1, <2>2
<1>14. QED
  BY <1>3, <1>8, <1>9, <1>10, <1>11, <1>12, <1>13 DEF RunnerInv

\* A batch whose answer is lost, or that is handed out late, is nobody's.
LEMMA BatchKeeps ==
  ASSUME RunnerInv, NEW n \in Node, Allocate(PhonesOf[n], ask[n].excluded),
         RunnerTypeOK', UNCHANGED <<pc, life, job>>, late' \subseteq late
  PROVE  RunnerInv'
<1>1. TypeOK /\ RowsEndAtNextId /\ PhonesOf[n] \in Batches /\ ask[n].excluded \in SUBSET Mid
  BY PhonesAreBatches DEF RunnerInv, RunnerTypeOK
<1>2. /\ TypeOK' /\ RowsEndAtNextId' /\ Known' = Known \cup Added
      /\ \A i \in Known : SameRow(i) /\ (tasks[i].status # "ASSIGNED" => tasks'[i].status = tasks[i].status)
  BY <1>1, BatchRows
<1>3. \A q \in Known : job[q].st = "acked" => tasks'[q].status = tasks[q].status
  <2>1. \A q \in Known : q \in TaskId
    BY DEF Known
  <2>2. QED
    BY <1>2, <2>1 DEF RunnerInv, AckedIsRecorded
<1>4. \A q \in TaskId : job[q].st \in Active /\ Own(q)' => pc'[job[q].node] = "working"
  BY MainsWait
<1>5. QED
  BY <1>2, <1>3, <1>4, ServerKeeps

LEMMA AskAnswerLostKeeps == ASSUME RunnerInv, NEW n \in Node, AskAnswerLost(n) PROVE RunnerInv'
<1>1. /\ Allocate(PhonesOf[n], ask[n].excluded) /\ stray' \subseteq stray
      /\ ask' = [ask EXCEPT ![n].req = Served(@)] /\ UNCHANGED <<pc, life, job, late>>
  BY DEF AskAnswerLost, Busy
<1>2. RunnerTypeOK'
  BY <1>1, RequestTypes DEF RunnerInv, RunnerTypeOK
<1>3. QED
  BY <1>1, <1>2, BatchKeeps

LEMMA AskTimesOutKeeps == ASSUME RunnerInv, NEW n \in Node, AskTimesOut(n) PROVE RunnerInv'
<1>1. /\ pc[n] = "asking" /\ UNCHANGED <<vars, life, job, stray>>
      /\ late' = late \/ late' = late \cup {<<"ask", n>>}
      /\ \/ Left(ask[n].req) /\ ask' = [ask EXCEPT ![n].req = Again(@)] /\ pc' = pc
         \/ pc' = [pc EXCEPT ![n] = "idle"] /\ ask' = [ask EXCEPT ![n].req = Fresh]
  BY DEF AskTimesOut, Abandon, Asked
<1>2. RunnerTypeOK'
  <2>1. late' \subseteq ({"report", "fallback"} \X TaskId) \cup ({"ask"} \X Node)
    BY <1>1 DEF RunnerInv, RunnerTypeOK
  <2>2. ask' \in [Node -> [req : Request, excluded : SUBSET Mid]]
    <3>1. /\ Fresh \in Request /\ ask[n].req \in Request
          /\ Left(ask[n].req) => Again(ask[n].req) \in Request
      BY RequestTypes DEF RunnerInv, RunnerTypeOK
    <3>2. \/ Left(ask[n].req) /\ ask' = [ask EXCEPT ![n].req = Again(ask[n].req)]
          \/ ask' = [ask EXCEPT ![n].req = Fresh]
      BY <1>1, Zenon
    <3>3. [ask EXCEPT ![n].req = Fresh] \in [Node -> [req : Request, excluded : SUBSET Mid]]
      BY <3>1, AskTypes
    <3>4. Left(ask[n].req) => [ask EXCEPT ![n].req = Again(ask[n].req)]
                                \in [Node -> [req : Request, excluded : SUBSET Mid]]
      <4>1. ASSUME NEW r \in Request
            PROVE  [ask EXCEPT ![n].req = r] \in [Node -> [req : Request, excluded : SUBSET Mid]]
        BY AskTypes
      <4>2. QED
        BY <3>1, <4>1, Zenon
    <3>5. QED
      BY <3>2, <3>3, <3>4, Zenon
  <2>3. QED
    BY <1>1, <2>1, <2>2 DEF RunnerInv, RunnerTypeOK
<1>3. TypeOK' /\ RowsEndAtNextId' /\ Known' = Known /\ tasks' = tasks
  BY <1>1 DEF RunnerInv, TypeOK, RowsEndAtNextId, Known, vars
<1>4. \A q \in TaskId : job[q].st \in Active /\ Own(q)' => pc'[job[q].node] = "working"
  <2>1. \A o \in Node : pc[o] = "working" => pc'[o] = "working"
    BY <1>1 DEF RunnerInv, RunnerTypeOK
  <2>2. QED
    BY <1>1, <2>1, MainsWait
<1>5. LateIsOver'
  <2>1. \A q : <<"report", q>> \in late' => <<"report", q>> \in late
    BY <1>1
  <2>2. \A q : <<"fallback", q>> \in late' => <<"fallback", q>> \in late
    BY <1>1
  <2>3. QED
    BY <1>1, <2>1, <2>2 DEF RunnerInv, LateIsOver
<1>6. QED
  BY <1>1, <1>2, <1>3, <1>4, <1>5, ServerKeeps DEF SameRow

LEMMA CycleEndsKeeps == ASSUME RunnerInv, NEW n \in Node, CycleEnds(n) PROVE RunnerInv'
<1>1. /\ pc' = [pc EXCEPT ![n] = "idle"] /\ JobsOf(n) = {}
      /\ UNCHANGED <<vars, ask, life, job, late, stray>>
  BY DEF CycleEnds
<1>2. RunnerTypeOK'
  BY <1>1 DEF RunnerInv, RunnerTypeOK
<1>3. TypeOK' /\ RowsEndAtNextId' /\ Known' = Known /\ tasks' = tasks
  BY <1>1 DEF RunnerInv, TypeOK, RowsEndAtNextId, Known, vars
<1>4. \A q \in TaskId : job[q].st \in Active /\ Own(q)' => pc'[job[q].node] = "working"
  <2>1. \A o \in Node : pc[o] = "working" => pc'[o] = "working" \/ JobsOf(o) = {}
    BY <1>1 DEF RunnerInv, RunnerTypeOK
  <2>2. QED
    BY <1>1, <2>1, MainsWait
<1>5. QED
  BY <1>1, <1>2, <1>3, <1>4, ServerKeeps DEF SameRow

\* A step of a worker that does not reach the server.
LEMMA AwayKeeps ==
  ASSUME RunnerInv, NEW i \in TaskId, NEW j \in Job,
         job' = [job EXCEPT ![i] = j], UNCHANGED <<vars, pc, ask, life, stray>>,
         job[i].st \in Active, j.node = job[i].node, j.st \in {"reporting", "fallback", "lost"},
         j.st \in {"reporting", "fallback"} => j.life = job[i].life,
         late' \subseteq late \cup {<<"report", i>>, <<"fallback", i>>}
  PROVE  RunnerInv'
<1>1. /\ TypeOK' /\ RowsEndAtNextId' /\ Known' = Known /\ tasks' = tasks
      /\ stray' \subseteq Device
  BY DEF RunnerInv, RunnerTypeOK, TypeOK, RowsEndAtNextId, Known, vars
<1>2. QED
  BY <1>1, WorkerKeeps DEF SameRow

LEMMA JobIs ==
  ASSUME RunnerInv, NEW i \in TaskId
  PROVE  job \in [TaskId -> Job] /\ job[i] \in Job /\ job[i].req \in Request /\ job[i].st \in JobState
BY DEF RunnerInv, RunnerTypeOK, Job

LEMMA SkipTaskKeeps == ASSUME RunnerInv, NEW i \in TaskId, SkipTask(i) PROVE RunnerInv'
<1> DEFINE j == Gone(job[i], "lost")
<1>1. /\ job[i].st = "running" /\ job' = [job EXCEPT ![i] = j]
      /\ UNCHANGED <<vars, pc, ask, life, late, stray>>
  BY DEF SkipTask
<1>2. j \in Job /\ j.node = job[i].node /\ j.st = "lost"
  BY JobIs, JobTypes DEF JobState
<1> HIDE DEF j
<1>3. QED
  BY <1>1, <1>2, AwayKeeps DEF Active

\* What the end of the work makes of a job.
LEMMA WorkEnded ==
  ASSUME RunnerInv, NEW i \in TaskId, WorkEnds(i)
  PROVE  \E j \in Job : /\ job' = [job EXCEPT ![i] = j]
                        /\ j.node = job[i].node /\ j.life = job[i].life
                        /\ j.req = Fresh /\ j.st \in {"lost", "reporting"}
<1>1. PICK outcome \in Endings, cut \in BOOLEAN :
        job' = [job EXCEPT ![i].outcome = outcome,
                           ![i].st = IF i >= SkipFrom /\ ~cut THEN "lost" ELSE "reporting",
                           ![i].req = Fresh]
  BY DEF WorkEnds
<1> DEFINE st == IF i >= SkipFrom /\ ~cut THEN "lost" ELSE "reporting"
           j == [job[i] EXCEPT !.outcome = outcome, !.st = st, !.req = Fresh]
<1>2. st \in {"lost", "reporting"} /\ st \in JobState
  BY DEF JobState
<1>3. job' = [job EXCEPT ![i] = j]
  BY <1>1, JobIs
<1> HIDE DEF st
<1>4. j \in Job /\ j.node = job[i].node /\ j.life = job[i].life /\ j.req = Fresh /\ j.st = st
  BY <1>2, JobIs, RequestTypes DEF Job
<1>5. QED
  BY <1>2, <1>3, <1>4

LEMMA WorkEndsKeeps == ASSUME RunnerInv, NEW i \in TaskId, WorkEnds(i) PROVE RunnerInv'
<1>1. job[i].st = "running" /\ UNCHANGED <<vars, pc, ask, life, late, stray>>
  BY DEF WorkEnds
<1>2. PICK j \in Job : /\ job' = [job EXCEPT ![i] = j]
                       /\ j.node = job[i].node /\ j.life = job[i].life
                       /\ j.st \in {"lost", "reporting"}
  BY WorkEnded
<1>3. QED
  BY <1>1, <1>2, AwayKeeps DEF Active

\* What an answered, or lost, report makes of a job.
LEMMA Answered ==
  ASSUME RunnerInv, NEW i \in TaskId, job[i].st \in {"reporting", "fallback"},
         \/ job' = [job EXCEPT ![i] = Gone(@, "acked")]
         \/ job' = [job EXCEPT ![i].req = Served(@)]
  PROVE  \E j \in Job :
           /\ job' = [job EXCEPT ![i] = j]
           /\ j.node = job[i].node /\ j.outcome = job[i].outcome
           /\ \/ j.st = "acked"
              \/ j.st = job[i].st /\ j.life = job[i].life /\ j.req = Served(job[i].req)
<1>1. CASE job' = [job EXCEPT ![i] = Gone(@, "acked")]
  <2>1. /\ Gone(job[i], "acked") \in Job /\ Gone(job[i], "acked").st = "acked"
        /\ Gone(job[i], "acked").node = job[i].node /\ Gone(job[i], "acked").outcome = job[i].outcome
    BY JobIs, JobTypes DEF JobState
  <2>2. job' = [job EXCEPT ![i] = Gone(job[i], "acked")]
    BY <1>1, JobIs
  <2>3. QED
    BY <2>1, <2>2
<1>2. CASE job' = [job EXCEPT ![i].req = Served(@)]
  <2> DEFINE j == [job[i] EXCEPT !.req = Served(job[i].req)]
  <2>1. job' = [job EXCEPT ![i] = j]
    BY <1>2, JobIs
  <2>2. Served(job[i].req) \in Request
    BY JobIs, RequestTypes
  <2>3. /\ j \in Job /\ j.st = job[i].st /\ j.node = job[i].node /\ j.life = job[i].life
        /\ j.outcome = job[i].outcome /\ j.req = Served(job[i].req)
    BY <2>2, JobIs DEF Job
  <2>4. QED
    BY <2>1, <2>3
<1>3. QED
  BY <1>1, <1>2

\* What giving up a sending makes of a job.
LEMMA GivenUp ==
  ASSUME RunnerInv, NEW i \in TaskId, NEW next \in {"fallback", "lost"},
         job[i].st \in {"reporting", "fallback"},
         job' = [job EXCEPT ![i].st = IF Left(job[i].req) THEN job[i].st ELSE next,
                            ![i].req = IF Left(job[i].req) THEN Again(@) ELSE Fresh]
  PROVE  \E j \in Job :
           /\ job' = [job EXCEPT ![i] = j]
           /\ j.node = job[i].node /\ j.life = job[i].life /\ j.outcome = job[i].outcome
           /\ \/ Left(job[i].req) /\ j.st = job[i].st /\ j.req = Again(job[i].req)
              \/ j.st = next
<1> DEFINE st == IF Left(job[i].req) THEN job[i].st ELSE next
           r == IF Left(job[i].req) THEN Again(job[i].req) ELSE Fresh
           j == [job[i] EXCEPT !.st = st, !.req = r]
<1>1. job' = [job EXCEPT ![i] = j]
  BY JobIs
<1>2. st \in JobState /\ r \in Request
  BY JobIs, RequestTypes DEF JobState
<1>3. \/ Left(job[i].req) /\ st = job[i].st /\ r = Again(job[i].req)
      \/ st = next
  OBVIOUS
<1> HIDE DEF st, r
<1>4. /\ j \in Job /\ j.st = st /\ j.req = r
      /\ j.node = job[i].node /\ j.life = job[i].life /\ j.outcome = job[i].outcome
  BY <1>2, JobIs DEF Job
<1>5. QED
  BY <1>1, <1>3, <1>4

LEMMA ReportServedKeeps == ASSUME RunnerInv, NEW i \in TaskId, ReportServed(i) PROVE RunnerInv'
<1>1. /\ job[i].st = "reporting" /\ Report(i, job[i].outcome, tasks[i].device)
      /\ UNCHANGED <<pc, ask, life, late>> /\ stray' \subseteq stray \cup {tasks[i].device}
      /\ \/ job' = [job EXCEPT ![i] = Gone(@, "acked")]
         \/ job' = [job EXCEPT ![i].req = Served(@)]
  BY DEF ReportServed, Freed
<1>2. PICK j \in Job : /\ job' = [job EXCEPT ![i] = j]
                       /\ j.node = job[i].node /\ j.outcome = job[i].outcome
                       /\ \/ j.st = "acked"
                          \/ j.st = "reporting" /\ j.life = job[i].life
  BY <1>1, Answered
<1>3. /\ TypeOK /\ RowsEndAtNextId /\ i \in Known /\ job[i].st \in Active
      /\ stray' \subseteq Device
  BY <1>1 DEF RunnerInv, JobsHaveRows, Active, RunnerTypeOK
<1>4. /\ TypeOK' /\ RowsEndAtNextId' /\ Known' = Known
      /\ \A q \in TaskId : SameRow(q)
      /\ \A q \in TaskId \ {i} : tasks'[q].status = tasks[q].status
      /\ tasks'[i].status = IF j.outcome = "SUCCESS" THEN "SUCCESS" ELSE "FAILED"
  BY <1>1, <1>2, <1>3, ReportRows
<1>5. QED
  BY <1>1, <1>2, <1>3, <1>4, WorkerKeeps

LEMMA FallbackServedKeeps == ASSUME RunnerInv, NEW i \in TaskId, FallbackServed(i) PROVE RunnerInv'
<1>1. /\ job[i].st = "fallback" /\ Complete(i) /\ UNCHANGED <<pc, ask, life, late>>
      /\ stray' \subseteq stray \cup {tasks[i].device}
      /\ \/ job' = [job EXCEPT ![i] = Gone(@, "acked")]
         \/ job' = [job EXCEPT ![i].req = Served(@)]
  BY DEF FallbackServed, Freed
<1>2. PICK j \in Job : /\ job' = [job EXCEPT ![i] = j]
                       /\ j.node = job[i].node /\ j.outcome = job[i].outcome
                       /\ \/ j.st = "acked"
                          \/ j.st = "fallback" /\ j.life = job[i].life
  BY <1>1, Answered
<1>3. /\ TypeOK /\ RowsEndAtNextId /\ i \in Known /\ job[i].st \in Active
      /\ stray' \subseteq Device
  BY <1>1 DEF RunnerInv, JobsHaveRows, Active, RunnerTypeOK
<1>4. /\ TypeOK' /\ RowsEndAtNextId' /\ Known' = Known
      /\ \A q \in TaskId : SameRow(q)
      /\ \A q \in TaskId \ {i} : tasks'[q].status = tasks[q].status
      /\ tasks'[i].status = IF j.outcome = "SUCCESS" THEN "SUCCESS" ELSE "FAILED"
  BY <1>1, <1>2, <1>3, CompleteRows
<1>5. QED
  BY <1>1, <1>2, <1>3, <1>4, WorkerKeeps

LEMMA ReportTimesOutKeeps == ASSUME RunnerInv, NEW i \in TaskId, ReportTimesOut(i) PROVE RunnerInv'
<1>1. /\ job[i].st = "reporting" /\ UNCHANGED <<vars, pc, ask, life, stray>>
      /\ late' \subseteq late \cup {<<"report", i>>, <<"fallback", i>>}
  BY DEF ReportTimesOut, Abandon
<1>2. job' = [job EXCEPT ![i].st = IF Left(job[i].req) THEN job[i].st ELSE "fallback",
                         ![i].req = IF Left(job[i].req) THEN Again(@) ELSE Fresh]
  BY <1>1 DEF ReportTimesOut
<1>3. \E j \in Job :
        /\ job' = [job EXCEPT ![i] = j]
        /\ j.node = job[i].node /\ j.life = job[i].life /\ j.outcome = job[i].outcome
        /\ \/ Left(job[i].req) /\ j.st = job[i].st /\ j.req = Again(job[i].req)
           \/ j.st = "fallback"
  <2>1. job[i].st \in {"reporting", "fallback"} /\ "fallback" \in {"fallback", "lost"}
    BY <1>1
  <2>2. QED
    BY <1>2, <2>1, GivenUp, Zenon
<1>4. PICK j \in Job : /\ job' = [job EXCEPT ![i] = j]
                       /\ j.node = job[i].node /\ j.life = job[i].life
                       /\ j.st \in {"reporting", "fallback"}
  BY <1>1, <1>3
<1>5. QED
  BY <1>1, <1>4, AwayKeeps DEF Active

LEMMA FallbackTimesOutKeeps == ASSUME RunnerInv, NEW i \in TaskId, FallbackTimesOut(i) PROVE RunnerInv'
<1>1. /\ job[i].st = "fallback" /\ UNCHANGED <<vars, pc, ask, life, stray>>
      /\ late' \subseteq late \cup {<<"report", i>>, <<"fallback", i>>}
  BY DEF FallbackTimesOut, Abandon
<1>2. job' = [job EXCEPT ![i].st = IF Left(job[i].req) THEN job[i].st ELSE "lost",
                         ![i].req = IF Left(job[i].req) THEN Again(@) ELSE Fresh]
  BY <1>1 DEF FallbackTimesOut
<1>3. \E j \in Job :
        /\ job' = [job EXCEPT ![i] = j]
        /\ j.node = job[i].node /\ j.life = job[i].life /\ j.outcome = job[i].outcome
        /\ \/ Left(job[i].req) /\ j.st = job[i].st /\ j.req = Again(job[i].req)
           \/ j.st = "lost"
  <2>1. job[i].st \in {"reporting", "fallback"} /\ "lost" \in {"fallback", "lost"}
    BY <1>1
  <2>2. QED
    BY <1>2, <2>1, GivenUp, Zenon
<1>4. PICK j \in Job : /\ job' = [job EXCEPT ![i] = j]
                       /\ j.node = job[i].node /\ j.life = job[i].life
                       /\ j.st \in {"fallback", "lost"}
  BY <1>1, <1>3
<1>5. QED
  BY <1>1, <1>4, AwayKeeps DEF Active

LEMMA WorkerDiesKeeps == ASSUME RunnerInv, NEW i \in TaskId, WorkerDies(i) PROVE RunnerInv'
<1> DEFINE j == Gone(job[i], "lost")
<1>1. /\ job[i].st \in Active /\ job' = [job EXCEPT ![i] = j]
      /\ UNCHANGED <<vars, pc, ask, life, stray>>
  BY DEF WorkerDies
<1>2. late' \subseteq late \cup {<<"report", i>>, <<"fallback", i>>}
  BY DEF WorkerDies, UnderWay
<1>3. j \in Job /\ j.node = job[i].node /\ j.st = "lost"
  BY JobIs, JobTypes DEF JobState
<1> HIDE DEF j
<1>4. QED
  BY <1>1, <1>2, <1>3, AwayKeeps

\* A report that arrives late says what its worker said before.
LEMMA LateArrivesKeeps == ASSUME RunnerInv, NEW msg \in late, LateArrives(msg) PROVE RunnerInv'
<1>1. late' = late \ {msg} /\ UNCHANGED <<pc, ask, life, job>>
  BY DEF LateArrives
<1>2. msg \in ({"report", "fallback"} \X TaskId) \cup ({"ask"} \X Node)
  BY DEF RunnerInv, RunnerTypeOK
<1>3. late' \subseteq late /\ (stray' \subseteq Device => RunnerTypeOK')
  BY <1>1 DEF RunnerInv, RunnerTypeOK
<1>4. ASSUME NEW n \in Node, msg = <<"ask", n>> PROVE RunnerInv'
  <2>1. Allocate(PhonesOf[n], ask[n].excluded) /\ stray' \subseteq stray
    BY <1>4 DEF LateArrives, Busy
  <2>2. RunnerTypeOK'
    BY <1>3, <2>1 DEF RunnerInv, RunnerTypeOK
  <2>3. QED
    BY <1>1, <1>3, <2>1, <2>2, BatchKeeps
<1>5. ASSUME NEW i \in TaskId, msg = <<"report", i>> \/ msg = <<"fallback", i>> PROVE RunnerInv'
  <2>1. Report(i, job[i].outcome, tasks[i].device) \/ Complete(i)
    <3>1. CASE msg = <<"report", i>>
      BY <3>1 DEF LateArrives
    <3>2. CASE msg = <<"fallback", i>>
      BY <3>2 DEF LateArrives
    <3>3. QED
      BY <1>5, <3>1, <3>2
  <2>2. TypeOK /\ RowsEndAtNextId /\ i \in Known
    BY <1>5 DEF RunnerInv, JobsHaveRows, LateIsOver
  <2>3. /\ TypeOK' /\ RowsEndAtNextId' /\ Known' = Known
        /\ \A q \in TaskId : SameRow(q)
        /\ \A q \in TaskId \ {i} : tasks'[q].status = tasks[q].status
        /\ tasks'[i].status = IF job[i].outcome = "SUCCESS" THEN "SUCCESS" ELSE "FAILED"
    BY <2>1, <2>2, ReportRows, CompleteRows
  <2>4. \A q \in Known : q \in TaskId /\ (job[q].st = "acked" => tasks'[q].status = tasks[q].status)
    BY <2>3 DEF Known, RunnerInv, AckedIsRecorded
  <2>5. RunnerTypeOK'
    <3>1. stray' \subseteq stray \cup {tasks[i].device}
      BY <1>5 DEF LateArrives
    <3>2. tasks[i].device \in Device
      BY <1>5 DEF RunnerInv, JobsHaveRows, LateIsOver
    <3>3. QED
      BY <1>3, <3>1, <3>2 DEF RunnerInv, RunnerTypeOK
  <2>6. \A q \in TaskId : job[q].st \in Active /\ Own(q)' => pc'[job[q].node] = "working"
    BY <1>1, MainsWait
  <2>7. QED
    BY <1>1, <1>3, <2>3, <2>4, <2>5, <2>6, ServerKeeps
<1>6. QED
  BY <1>2, <1>4, <1>5

\* What the end of a main leaves on its way.
LEMMA LeftOnTheWay ==
  ASSUME RunnerInv, NEW n \in Node, NEW S \in SUBSET TaskId, Abandoned(n, S)
  PROVE  /\ late' \subseteq ({"report", "fallback"} \X TaskId) \cup ({"ask"} \X Node)
         /\ \A q \in TaskId :
              /\ <<"report", q>> \in late' => \/ <<"report", q>> \in late
                                              \/ q \in S /\ job[q].st = "reporting" /\ job[q].req.open
              /\ <<"fallback", q>> \in late' => <<"fallback", q>> \in late \/ q \in S
         /\ ~ Delays => late' = late
<1>1. \A m \in late' : m \in late \/ m \in UnderWay(S) \/ m = <<"ask", n>>
  BY DEF Abandoned
<1>2. ASSUME NEW m \in UnderWay(S)
      PROVE  \E q \in S : \/ m = <<"report", q>> /\ job[q].st = "reporting" /\ job[q].req.open
                          \/ m = <<"fallback", q>>
  BY DEF UnderWay
<1>3. late' \subseteq ({"report", "fallback"} \X TaskId) \cup ({"ask"} \X Node)
  BY <1>1, <1>2 DEF RunnerInv, RunnerTypeOK
<1>4. ASSUME NEW q \in TaskId
      PROVE  /\ <<"report", q>> \in late' => \/ <<"report", q>> \in late
                                             \/ q \in S /\ job[q].st = "reporting" /\ job[q].req.open
             /\ <<"fallback", q>> \in late' => <<"fallback", q>> \in late \/ q \in S
  BY <1>1, <1>2
<1>5. ~ Delays => late' = late
  BY DEF Abandoned
<1>6. QED
  BY <1>3, <1>4, <1>5

LEMMA RunnerStopsKeeps == ASSUME RunnerInv, NEW n \in Node, RunnerStops(n) PROVE RunnerInv'
<1>1. /\ pc' = [pc EXCEPT ![n] = "idle"]
      /\ job' = [i \in TaskId |-> IF i \in JobsOf(n) THEN Gone(job[i], "lost") ELSE job[i]]
      /\ ask' = [ask EXCEPT ![n].req = Fresh] /\ Abandoned(n, JobsOf(n))
      /\ UNCHANGED <<vars, life, stray>>
  BY DEF RunnerStops, Asked
<1>2. \A i \in TaskId : /\ Gone(job[i], "lost") \in Job /\ Gone(job[i], "lost").st = "lost"
                        /\ job[i] \in Job
  BY JobIs, JobTypes DEF JobState
<1>3. RunnerTypeOK'
  <2>1. ask' \in [Node -> [req : Request, excluded : SUBSET Mid]]
    BY <1>1, RequestTypes, AskTypes
  <2>2. late' \subseteq ({"report", "fallback"} \X TaskId) \cup ({"ask"} \X Node)
    BY <1>1, LeftOnTheWay DEF JobsOf
  <2>3. QED
    BY <1>1, <1>2, <2>1, <2>2 DEF RunnerInv, RunnerTypeOK, Job
<1>4. TypeOK' /\ RowsEndAtNextId' /\ Known' = Known /\ tasks' = tasks
  BY <1>1 DEF RunnerInv, TypeOK, RowsEndAtNextId, Known, vars
<1>5. \A i \in TaskId :
        \/ i \notin JobsOf(n) /\ job'[i] = job[i]
        \/ i \in JobsOf(n) /\ job'[i].st = "lost"
  BY <1>1, <1>2
<1>6. JobsHaveRows' /\ LateIsOver' /\ AckedIsRecorded'
  <2>1. \A i \in JobsOf(n) : job[i].st # "none"
    BY DEF JobsOf, Active
  <2>2. JobsHaveRows'
    BY <1>4, <1>5, <2>1 DEF RunnerInv, JobsHaveRows
  <2>3. LateIsOver'
    <3> SUFFICES ASSUME NEW q \in TaskId, <<"report", q>> \in late' \/ <<"fallback", q>> \in late'
                 PROVE  job'[q].st \notin {"none", "running"}
      BY DEF LateIsOver
    <3>1. <<"report", q>> \in late \/ <<"fallback", q>> \in late \/ q \in JobsOf(n)
      BY <1>1, LeftOnTheWay DEF JobsOf
    <3>2. QED
      BY <1>5, <3>1 DEF RunnerInv, LateIsOver
  <2>4. AckedIsRecorded'
    BY <1>4, <1>5 DEF RunnerInv, AckedIsRecorded
  <2>5. QED
    BY <2>2, <2>3, <2>4
<1>7. \A i \in TaskId : job'[i].st \in Active =>
        job'[i] = job[i] /\ job[i].st \in Active /\ ~ (job[i].node = n /\ Own(i))
  <2> SUFFICES ASSUME NEW i \in TaskId, job'[i].st \in Active
               PROVE  job'[i] = job[i] /\ job[i].st \in Active /\ ~ (job[i].node = n /\ Own(i))
    OBVIOUS
  <2>1. job'[i].st # "lost"
    BY DEF Active
  <2>2. i \notin JobsOf(n) /\ job'[i] = job[i]
    BY <1>5, <2>1
  <2>3. QED
    BY <2>2 DEF JobsOf, Own
<1>8. JobsAreOfACycle'
  <2> SUFFICES ASSUME NEW i \in TaskId, job'[i].st \in Active
               PROVE  /\ job'[i].node \in Node /\ job'[i].life \in 1 .. MaxMains
                      /\ Own(i)' => pc'[job'[i].node] = "working"
                      /\ \E k \in DOMAIN PhonesOf[job'[i].node] :
                            PhonesOf[job'[i].node][k] = tasks'[i].device
    BY DEF JobsAreOfACycle
  <2>1. /\ job'[i] = job[i] /\ job[i].node \in Node /\ job[i].life \in 1 .. MaxMains
        /\ Own(i) => job[i].node # n /\ pc[job[i].node] = "working"
        /\ \E k \in DOMAIN PhonesOf[job[i].node] : PhonesOf[job[i].node][k] = tasks[i].device
    BY <1>7 DEF RunnerInv, JobsAreOfACycle
  <2>2. Own(i)' => Own(i)
    BY <1>1, <2>1 DEF Own
  <2>3. QED
    BY <1>1, <1>4, <2>1, <2>2 DEF RunnerInv, RunnerTypeOK
<1>9. JobsAreApart'
  BY <1>4, <1>7 DEF RunnerInv, JobsAreApart, Main
<1>10. QED
  BY <1>3, <1>4, <1>6, <1>8, <1>9 DEF RunnerInv

\* The next main of a node whose main is killed has no workers.
LEMMA KillOrphans ==
  ASSUME RunnerInv, NEW n \in Node, KillFleetRunner(n)
  PROVE  \A q \in TaskId : job[q].st \in Active /\ Own(q)' => Own(q) /\ job[q].node # n
<1> SUFFICES ASSUME NEW q \in TaskId, job[q].st \in Active, Own(q)'
             PROVE  Own(q) /\ job[q].node # n
  OBVIOUS
<1>1. PICK k \in Free(n) : life' = [life EXCEPT ![n] = k]
  BY DEF KillFleetRunner
<1>2. job[q].node = n => job[q].life # k
  BY <1>1 DEF Free
<1>3. job' = job
  BY DEF KillFleetRunner
<1>4. job[q].node \in Node /\ job[q].life = life'[job[q].node]
  BY <1>3 DEF Own
<1>5. job[q].node # n
  BY <1>1, <1>2, <1>4 DEF RunnerInv, RunnerTypeOK
<1>6. QED
  BY <1>1, <1>4, <1>5 DEF Own, RunnerInv, RunnerTypeOK

\* The orphans are what they were.
LEMMA KillKeeps == ASSUME RunnerInv, NEW n \in Node, KillFleetRunner(n) PROVE RunnerInv'
<1>1. PICK k \in Free(n) : life' = [life EXCEPT ![n] = k]
  BY DEF KillFleetRunner
<1>2. /\ pc' = [pc EXCEPT ![n] = "idle"] /\ ask' = [ask EXCEPT ![n].req = Fresh]
      /\ Abandoned(n, {}) /\ UNCHANGED <<vars, job, stray>>
  BY DEF KillFleetRunner, Asked
<1>3. k \in 1 .. MaxMains
  BY <1>1 DEF Free
<1>4. /\ late' \subseteq ({"report", "fallback"} \X TaskId) \cup ({"ask"} \X Node)
      /\ \A q \in TaskId : /\ <<"report", q>> \in late' => <<"report", q>> \in late
                           /\ <<"fallback", q>> \in late' => <<"fallback", q>> \in late
  <2>1. {} \in SUBSET TaskId
    OBVIOUS
  <2>2. QED
    BY <1>2, <2>1, LeftOnTheWay
<1>5. RunnerTypeOK'
  <2>1. ask' \in [Node -> [req : Request, excluded : SUBSET Mid]]
    BY <1>2, RequestTypes, AskTypes
  <2>2. QED
    BY <1>1, <1>2, <1>3, <1>4, <2>1 DEF RunnerInv, RunnerTypeOK
<1>6. LateIsOver'
  BY <1>2, <1>4 DEF RunnerInv, LateIsOver
<1>7. TypeOK' /\ RowsEndAtNextId' /\ Known' = Known /\ tasks' = tasks
  BY <1>2 DEF RunnerInv, TypeOK, RowsEndAtNextId, Known, vars
<1>8. ASSUME NEW q \in TaskId, job[q].st \in Active, Own(q)'
      PROVE  pc'[job[q].node] = "working"
  <2>1. Own(q) /\ job[q].node # n
    BY <1>8, KillOrphans
  <2>2. job[q].node \in Node /\ pc[job[q].node] = "working"
    BY <1>8, <2>1 DEF RunnerInv, JobsAreOfACycle
  <2>3. QED
    BY <1>2, <2>1, <2>2 DEF RunnerInv, RunnerTypeOK
<1>9. QED
  BY <1>2, <1>5, <1>6, <1>7, <1>8, ServerKeeps DEF SameRow

LEMMA RunnerTickKeeps == ASSUME RunnerInv, Tick, UNCHANGED runnerVars PROVE RunnerInv'
<1>1. TypeOK /\ RowsEndAtNextId
  BY DEF RunnerInv
<1>2. /\ TypeOK' /\ RowsEndAtNextId' /\ Known' = Known
      /\ \A q \in TaskId : SameRow(q) /\ tasks'[q].status = tasks[q].status
  BY <1>1, TickRows
<1>3. \A q \in Known : q \in TaskId
  BY DEF Known
<1>4. RunnerTypeOK' /\ UNCHANGED <<pc, ask, life, job, late>>
  BY DEF RunnerInv, RunnerTypeOK, runnerVars
<1>5. \A q \in TaskId : job[q].st \in Active /\ Own(q)' => pc'[job[q].node] = "working"
  BY <1>4, MainsWait
<1>6. QED
  BY <1>2, <1>3, <1>4, <1>5, ServerKeeps

LEMMA RunnerInvInit == RunnerInit => RunnerInv
<1> SUFFICES ASSUME RunnerInit PROVE RunnerInv
  OBVIOUS
<1>1. /\ Init /\ job = [i \in TaskId |-> NoJob] /\ late = {} /\ stray = {}
      /\ life = [n \in Node |-> 1]
      /\ pc = [n \in Node |-> "idle"] /\ ask = [n \in Node |-> [req |-> Fresh, excluded |-> {}]]
  BY DEF RunnerInit
<1>2. TypeOK
  BY <1>1, TypeInit
<1>3. Known = {}
  BY <1>1 DEF Init, Known, NoTask
<1>4. NoJob \in Job /\ NoJob.st = "none"
  BY RequestTypes DEF NoJob, Job, JobState
<1>5. RunnerTypeOK
  BY <1>1, <1>4, RequestTypes DEF RunnerTypeOK, Job
<1>6. \A i \in TaskId : job[i].st = "none"
  BY <1>1, <1>4
<1>7. QED
  BY <1>1, <1>2, <1>3, <1>5, <1>6
     DEF RunnerInv, RowsEndAtNextId, JobsHaveRows, LateIsOver, JobsAreOfACycle, JobsAreApart,
         AckedIsRecorded, Active

LEMMA RunnerInvStep == RunnerInv /\ [RunnerNext]_allVars => RunnerInv'
<1> SUFFICES ASSUME RunnerInv, [RunnerNext]_allVars PROVE RunnerInv'
  OBVIOUS
<1>1. CASE UNCHANGED allVars
  <2>1. UNCHANGED <<tasks, nextId, nnbs, harvested, devices, quotas, exposed,
                    pc, ask, life, job, late, stray>>
    BY <1>1 DEF allVars, vars, runnerVars
  <2>2. TypeOK' /\ RowsEndAtNextId' /\ RunnerTypeOK' /\ Known' = Known
    BY <2>1 DEF RunnerInv, TypeOK, RowsEndAtNextId, RunnerTypeOK, Known
  <2>3. \A q \in TaskId : job[q].st \in Active /\ Own(q)' => pc'[job[q].node] = "working"
    BY <2>1, MainsWait
  <2>4. QED
    BY <2>1, <2>2, <2>3, ServerKeeps DEF SameRow
<1>2. ASSUME NEW n \in Node, RunnerStep(n) \/ RunnerStops(n) \/ KillFleetRunner(n) PROVE RunnerInv'
  BY <1>2, AskKeeps, AskAnsweredKeeps, AskAnswerLostKeeps, AskTimesOutKeeps, CycleEndsKeeps,
     RunnerStopsKeeps, KillKeeps DEF RunnerStep
<1>3. ASSUME NEW i \in TaskId, WorkerStep(i) \/ WorkerDies(i) PROVE RunnerInv'
  BY <1>3, SkipTaskKeeps, WorkEndsKeeps, ReportServedKeeps, ReportTimesOutKeeps,
     FallbackServedKeeps, FallbackTimesOutKeeps, WorkerDiesKeeps DEF WorkerStep
<1>4. ASSUME NEW msg \in late, LateArrives(msg) PROVE RunnerInv'
  BY <1>4, LateArrivesKeeps
<1>5. QED
  BY <1>1, <1>2, <1>3, <1>4, RunnerTickKeeps DEF RunnerNext, Faults

\* The inductive invariant of runners and server.
THEOREM RunnerInvariant == RunnerSpec => []RunnerInv
<1>1. RunnerInit => RunnerInv
  BY RunnerInvInit
<1>2. RunnerInv /\ [RunnerNext]_allVars => RunnerInv'
  BY RunnerInvStep
<1>3. QED
  BY <1>1, <1>2, PTL DEF RunnerSpec

\* Requests, jobs and late messages are what the client keeps of them.
THEOREM RunnerTypes == RunnerSpec => []RunnerTypeOK
<1>1. RunnerInv => RunnerTypeOK
  BY DEF RunnerInv
<1>2. QED
  BY <1>1, RunnerInvariant, PTL

\* What a report was answered stays true in the table, for every number of
\* sendings, with late requests and restarts.
THEOREM RunnerAcked == RunnerSpec => []AckedIsRecorded
<1>1. RunnerInv => AckedIsRecorded
  BY DEF RunnerInv
<1>2. QED
  BY <1>1, RunnerInvariant, PTL

-----------------------------------------------------------------------------

\* The kinds of steps, by what they do to jobs and to hits: a batch for a runner;
\* a batch for nobody; a report, in time or late; anything else.
GrantStep(n) ==
    /\ pc[n] = "asking" /\ Allocate(PhonesOf[n], ask[n].excluded)
    /\ Busy /\ UNCHANGED <<life, late>>
    /\ job' = [i \in TaskId |->
         IF i \in Added THEN [NoJob EXCEPT !.st = "running", !.node = n, !.life = life[n]]
         ELSE job[i]]

LoseStep(n) ==
    /\ Allocate(PhonesOf[n], ask[n].excluded)
    /\ Busy /\ UNCHANGED <<life, job>> /\ late' \subseteq late

CountStep(i) ==
    /\ job[i].st = "reporting" /\ job[i].req.open /\ Report(i, job[i].outcome, tasks[i].device)
    /\ Freed(i) /\ UNCHANGED <<life, late>>
    /\ \E j \in Job : /\ job' = [job EXCEPT ![i] = j]
                      /\ j.node = job[i].node /\ j.outcome = job[i].outcome
                      /\ \/ j.st = "acked"
                         \/ /\ j.st = "reporting" /\ j.req = Served(job[i].req)
                            /\ j.life = job[i].life

LateCountStep(i) ==
    /\ <<"report", i>> \in late /\ late' = late \ {<<"report", i>>}
    /\ Report(i, job[i].outcome, tasks[i].device)
    /\ stray' = stray \cup {tasks[i].device} /\ UNCHANGED <<life, job>>

\* A worker's work ends.
EndStep(i) ==
    /\ job[i].st = "running" /\ UNCHANGED <<vars, life, late, stray>>
    /\ \E j \in Job : /\ job' = [job EXCEPT ![i] = j]
                      /\ j.node = job[i].node
                      /\ \/ j.st = "lost"
                         \/ j.st = "reporting" /\ j.req = Fresh /\ j.life = job[i].life

\* A sending of the report is given up and repeated or not.
RepeatStep(i) ==
    /\ job[i].st = "reporting" /\ UNCHANGED <<vars, life, stray>>
    /\ Abandon(job[i].req, <<"report", i>>)
    /\ \E j \in Job : /\ job' = [job EXCEPT ![i] = j]
                      /\ j.node = job[i].node /\ j.outcome = job[i].outcome
                      /\ \/ /\ Left(job[i].req) /\ j.st = "reporting" /\ j.req = Again(job[i].req)
                            /\ j.life = job[i].life
                         \/ j.st \in {"fallback", "lost"}

\* Nothing is counted, nobody's chances to count grow, and nobody becomes a worker
\* of a live main.
IdleStep ==
    /\ TypeOK' /\ Known' = Known /\ quotas' = quotas /\ devices' = devices
    /\ stray \subseteq stray'
    /\ \A q \in TaskId :
         /\ SameRow(q)
         /\ <<"report", q>> \in late' =>
              \/ <<"report", q>> \in late
              \/ Delays /\ job[q].st = "reporting" /\ job[q].req.open /\ job'[q].st = "lost"
         /\ job'[q] = job[q] /\ job[q].st \in Active /\ Own(q)' => Own(q)
         /\ \/ job'[q] = job[q]
            \/ /\ job[q].st \in Active /\ job'[q].st \in {"fallback", "acked", "lost"}
               /\ job'[q].outcome = job[q].outcome

LEMMA AwayIsIdle ==
  ASSUME RunnerInv, UNCHANGED <<vars, job, life, stray>>,
         \A q \in TaskId : <<"report", q>> \in late' <=> <<"report", q>> \in late
  PROVE  IdleStep
BY DEF RunnerInv, TypeOK, Known, vars, IdleStep, SameRow, Own

\* What happens to the job of one worker that says nothing to the server.
LEMMA OneIsIdle ==
  ASSUME RunnerInv, NEW i \in TaskId, NEW j \in Job, job' = [job EXCEPT ![i] = j],
         TypeOK', Known' = Known, quotas' = quotas, devices' = devices,
         life' = life, stray \subseteq stray',
         \A q \in TaskId : SameRow(q),
         \A q \in TaskId : <<"report", q>> \in late' <=> <<"report", q>> \in late,
         job[i].st \in Active, j.outcome = job[i].outcome, j.st \in {"fallback", "acked", "lost"}
  PROVE  IdleStep
<1>1. \A q \in TaskId : job'[q] = IF q = i THEN j ELSE job[q]
  BY JobIs
<1>2. QED
  BY <1>1 DEF IdleStep, Own

LEMMA StepKinds ==
  ASSUME RunnerInv, [RunnerNext]_allVars
  PROVE  \/ \E n \in Node : GrantStep(n) \/ LoseStep(n)
         \/ \E i \in TaskId : CountStep(i) \/ LateCountStep(i) \/ EndStep(i) \/ RepeatStep(i)
         \/ IdleStep
<1>1. CASE UNCHANGED allVars
  BY <1>1, AwayIsIdle DEF allVars, runnerVars
<1>2. CASE Tick /\ UNCHANGED runnerVars
  <2>1. /\ TypeOK' /\ Known' = Known
        /\ \A j \in TaskId : SameRow(j)
        /\ quotas' = quotas /\ devices' = devices
    BY <1>2, TickRows DEF RunnerInv
  <2>2. UNCHANGED <<life, job, late, stray>>
    BY <1>2 DEF runnerVars
  <2>3. QED
    BY <2>1, <2>2 DEF IdleStep, Own
<1>3. ASSUME NEW n \in Node, RunnerStep(n) \/ RunnerStops(n) \/ KillFleetRunner(n)
      PROVE  (\E o \in Node : GrantStep(o) \/ LoseStep(o)) \/ IdleStep
  <2>1. CASE Ask(n) \/ CycleEnds(n)
    BY <2>1, AwayIsIdle DEF Ask, CycleEnds
  <2>2. CASE AskAnswered(n)
    BY <2>2 DEF AskAnswered, GrantStep, Added
  <2>3. CASE AskAnswerLost(n)
    BY <2>3 DEF AskAnswerLost, LoseStep
  <2>4. CASE AskTimesOut(n)
    <3>1. UNCHANGED <<vars, job, life, stray>> /\ (late' = late \/ late' = late \cup {<<"ask", n>>})
      BY <2>4 DEF AskTimesOut, Abandon
    <3>2. \A q \in TaskId : <<"report", q>> # <<"ask", n>>
      OBVIOUS
    <3>3. QED
      BY <3>1, <3>2, AwayIsIdle
  <2>5. CASE RunnerStops(n)
    <3>1. \A q \in TaskId : /\ Gone(job[q], "lost").st = "lost"
                            /\ Gone(job[q], "lost").outcome = job[q].outcome
      BY JobIs, JobTypes DEF JobState
    <3>2. TypeOK' /\ Known' = Known /\ UNCHANGED <<tasks, quotas, devices, life, stray>>
      BY <2>5 DEF RunnerStops, RunnerInv, TypeOK, Known, vars
    <3>3. \A q \in TaskId :
            \/ q \notin JobsOf(n) /\ job'[q] = job[q]
            \/ /\ q \in JobsOf(n) /\ job[q].st \in Active /\ job'[q].st = "lost"
               /\ job'[q].outcome = job[q].outcome
      BY <2>5, <3>1 DEF RunnerStops, JobsOf
    <3>4. ASSUME NEW q \in TaskId, <<"report", q>> \in late'
          PROVE  \/ <<"report", q>> \in late
                 \/ Delays /\ job[q].st = "reporting" /\ job[q].req.open /\ job'[q].st = "lost"
      <4>1. Abandoned(n, JobsOf(n)) /\ JobsOf(n) \in SUBSET TaskId
        BY <2>5 DEF RunnerStops, JobsOf
      <4>2. \/ <<"report", q>> \in late
            \/ q \in JobsOf(n) /\ job[q].st = "reporting" /\ job[q].req.open
        BY <3>4, <4>1, LeftOnTheWay
      <4>3. ~ Delays => late' = late
        BY <4>1, LeftOnTheWay
      <4>4. QED
        BY <3>3, <3>4, <4>2, <4>3
    <3>5. QED
      BY <3>2, <3>3, <3>4 DEF IdleStep, SameRow, Own
  <2>6. CASE KillFleetRunner(n)
    <3>1. /\ TypeOK' /\ Known' = Known /\ UNCHANGED <<tasks, quotas, devices, job, stray>>
          /\ Abandoned(n, {})
      BY <2>6 DEF KillFleetRunner, RunnerInv, TypeOK, Known, vars
    <3>2. \A q \in TaskId : <<"report", q>> \in late' => <<"report", q>> \in late
      <4>1. {} \in SUBSET TaskId
        OBVIOUS
      <4>2. QED
        BY <3>1, <4>1, LeftOnTheWay
    <3>3. \A q \in TaskId : job[q].st \in Active /\ Own(q)' => Own(q)
      BY <2>6, KillOrphans
    <3>4. QED
      BY <3>1, <3>2, <3>3 DEF IdleStep, SameRow
  <2>7. QED
    BY <1>3, <2>1, <2>2, <2>3, <2>4, <2>5, <2>6 DEF RunnerStep
<1>4. ASSUME NEW i \in TaskId, WorkerStep(i) \/ WorkerDies(i)
      PROVE  \/ CountStep(i) \/ EndStep(i) \/ RepeatStep(i)
             \/ IdleStep
  <2> DEFINE lost == Gone(job[i], "lost")
  <2>1. lost \in Job /\ lost.node = job[i].node /\ lost.st = "lost" /\ lost.outcome = job[i].outcome
    BY JobIs, JobTypes DEF JobState
  <2>2. CASE SkipTask(i)
    <3>1. /\ job[i].st = "running" /\ job' = [job EXCEPT ![i] = lost]
          /\ UNCHANGED <<vars, life, late, stray>>
      BY <2>2 DEF SkipTask
    <3> HIDE DEF lost
    <3>2. QED
      BY <2>1, <3>1 DEF EndStep
  <2>3. CASE WorkEnds(i)
    <3>1. job[i].st = "running" /\ UNCHANGED <<vars, life, late, stray>>
      BY <2>3 DEF WorkEnds
    <3>2. QED
      BY <2>3, <3>1, WorkEnded DEF EndStep
  <2>4. CASE ReportServed(i)
    <3>1. /\ job[i].st = "reporting" /\ job[i].req.open
          /\ Report(i, job[i].outcome, tasks[i].device)
          /\ Freed(i) /\ UNCHANGED <<life, late>>
          /\ \/ job' = [job EXCEPT ![i] = Gone(@, "acked")]
             \/ job' = [job EXCEPT ![i].req = Served(@)]
      BY <2>4 DEF ReportServed
    <3>2. \E j \in Job : /\ job' = [job EXCEPT ![i] = j]
                         /\ j.node = job[i].node /\ j.outcome = job[i].outcome
                         /\ \/ j.st = "acked"
                            \/ j.st = job[i].st /\ j.life = job[i].life /\ j.req = Served(job[i].req)
      BY <3>1, Answered
    <3>3. QED
      BY <3>1, <3>2 DEF CountStep
  <2>5. CASE ReportTimesOut(i)
    <3>1. /\ job[i].st = "reporting" /\ UNCHANGED <<vars, life, stray>>
          /\ Abandon(job[i].req, <<"report", i>>)
          /\ job' = [job EXCEPT ![i].st = IF Left(job[i].req) THEN job[i].st ELSE "fallback",
                                ![i].req = IF Left(job[i].req) THEN Again(@) ELSE Fresh]
      BY <2>5 DEF ReportTimesOut
    <3>2. \E j \in Job :
            /\ job' = [job EXCEPT ![i] = j]
            /\ j.node = job[i].node /\ j.life = job[i].life /\ j.outcome = job[i].outcome
            /\ \/ Left(job[i].req) /\ j.st = job[i].st /\ j.req = Again(job[i].req)
               \/ j.st = "fallback"
      <4>1. job[i].st \in {"reporting", "fallback"} /\ "fallback" \in {"fallback", "lost"}
        BY <3>1
      <4>2. QED
        BY <3>1, <4>1, GivenUp, Zenon
    <3>3. \E j \in Job : /\ job' = [job EXCEPT ![i] = j]
                         /\ j.node = job[i].node /\ j.outcome = job[i].outcome
                         /\ \/ /\ Left(job[i].req) /\ j.st = "reporting" /\ j.req = Again(job[i].req)
                               /\ j.life = job[i].life
                            \/ j.st \in {"fallback", "lost"}
      BY <3>1, <3>2
    <3>4. QED
      BY <3>1, <3>3, Zenon DEF RepeatStep
  <2>6. CASE FallbackServed(i)
    <3>1. /\ job[i].st = "fallback" /\ Complete(i) /\ late' = late /\ life' = life
          /\ stray \subseteq stray'
          /\ \/ job' = [job EXCEPT ![i] = Gone(@, "acked")]
             \/ job' = [job EXCEPT ![i].req = Served(@)]
      BY <2>6 DEF FallbackServed, Freed
    <3>2. PICK j \in Job : /\ job' = [job EXCEPT ![i] = j] /\ j.outcome = job[i].outcome
                           /\ j.st \in {"acked", "fallback"}
      BY <3>1, Answered
    <3>3. TypeOK /\ RowsEndAtNextId /\ i \in Known /\ job[i].st \in Active
      BY <3>1 DEF RunnerInv, JobsHaveRows, Active
    <3>4. /\ TypeOK' /\ Known' = Known /\ quotas' = quotas /\ devices' = devices
          /\ \A q \in TaskId : SameRow(q)
      BY <3>1, <3>3, CompleteRows
    <3>5. QED
      BY <3>1, <3>2, <3>3, <3>4, OneIsIdle
  <2>7. CASE FallbackTimesOut(i)
    <3>1. /\ job[i].st = "fallback" /\ UNCHANGED <<vars, life, stray>>
          /\ late' = late \/ late' = late \cup {<<"fallback", i>>}
          /\ job' = [job EXCEPT ![i].st = IF Left(job[i].req) THEN job[i].st ELSE "lost",
                                ![i].req = IF Left(job[i].req) THEN Again(@) ELSE Fresh]
      BY <2>7 DEF FallbackTimesOut, Abandon
    <3>2. \E j \in Job :
            /\ job' = [job EXCEPT ![i] = j]
            /\ j.node = job[i].node /\ j.life = job[i].life /\ j.outcome = job[i].outcome
            /\ \/ Left(job[i].req) /\ j.st = job[i].st /\ j.req = Again(job[i].req)
               \/ j.st = "lost"
      <4>1. job[i].st \in {"reporting", "fallback"} /\ "lost" \in {"fallback", "lost"}
        BY <3>1
      <4>2. QED
        BY <3>1, <4>1, GivenUp, Zenon
    <3>3. PICK j \in Job : /\ job' = [job EXCEPT ![i] = j] /\ j.outcome = job[i].outcome
                           /\ j.st \in {"fallback", "lost"}
      BY <3>1, <3>2
    <3>4. /\ TypeOK' /\ Known' = Known /\ quotas' = quotas /\ devices' = devices
          /\ \A q \in TaskId : SameRow(q)
      BY <3>1 DEF RunnerInv, TypeOK, Known, vars, SameRow
    <3>5. \A q \in TaskId : <<"report", q>> # <<"fallback", i>>
      OBVIOUS
    <3>6. QED
      BY <3>1, <3>3, <3>4, <3>5, OneIsIdle DEF Active
  <2>8. CASE WorkerDies(i)
    <3>1. /\ job[i].st \in Active /\ job' = [job EXCEPT ![i] = lost]
          /\ UNCHANGED <<vars, life, stray>>
      BY <2>8 DEF WorkerDies
    <3> HIDE DEF lost
    <3>2. CASE job[i].st = "running"
      <4>1. UnderWay({i}) = {}
        BY <3>2 DEF UnderWay
      <4>2. late' = late
        BY <2>8, <4>1 DEF WorkerDies
      <4>3. QED
        BY <2>1, <3>1, <3>2, <4>2 DEF EndStep
    <3>3. CASE job[i].st = "reporting"
      <4>1. Abandon(job[i].req, <<"report", i>>)
        <5>1. UnderWay({i}) = IF job[i].req.open THEN {<<"report", i>>} ELSE {}
          BY <3>3 DEF UnderWay
        <5>2. QED
          BY <2>8, <5>1 DEF WorkerDies, Abandon
      <4>2. \E j \in Job : /\ job' = [job EXCEPT ![i] = j]
                           /\ j.node = job[i].node /\ j.outcome = job[i].outcome
                           /\ \/ /\ Left(job[i].req) /\ j.st = "reporting" /\ j.req = Again(job[i].req)
                                 /\ j.life = job[i].life
                              \/ j.st \in {"fallback", "lost"}
        BY <2>1, <3>1
      <4>3. QED
        BY <3>1, <3>3, <4>1, <4>2, Zenon DEF RepeatStep
    <3>4. CASE job[i].st = "fallback"
      <4>1. late' = late \/ late' = late \cup {<<"fallback", i>>}
        <5>1. UnderWay({i}) = {} \/ UnderWay({i}) = {<<"fallback", i>>}
          BY <3>4 DEF UnderWay
        <5>2. QED
          BY <2>8, <5>1 DEF WorkerDies
      <4>2. /\ TypeOK' /\ Known' = Known /\ quotas' = quotas /\ devices' = devices
            /\ \A q \in TaskId : SameRow(q)
        BY <3>1 DEF RunnerInv, TypeOK, Known, vars, SameRow
      <4>3. \A q \in TaskId : <<"report", q>> # <<"fallback", i>>
        OBVIOUS
      <4>4. QED
        BY <2>1, <3>1, <4>1, <4>2, <4>3, OneIsIdle
    <3>5. QED
      BY <3>1, <3>2, <3>3, <3>4 DEF Active
  <2>9. QED
    BY <1>4, <2>2, <2>3, <2>4, <2>5, <2>6, <2>7, <2>8 DEF WorkerStep
<1>5. ASSUME NEW msg \in late, LateArrives(msg)
      PROVE  \/ \E n \in Node : LoseStep(n)
             \/ \E i \in TaskId : LateCountStep(i)
             \/ IdleStep
  <2>1. late' = late \ {msg} /\ UNCHANGED <<pc, ask, life, job>>
    BY <1>5 DEF LateArrives
  <2>2. msg \in ({"report", "fallback"} \X TaskId) \cup ({"ask"} \X Node)
    BY DEF RunnerInv, RunnerTypeOK
  <2>3. ASSUME NEW n \in Node, msg = <<"ask", n>> PROVE LoseStep(n)
    BY <1>5, <2>1, <2>3 DEF LateArrives, LoseStep
  <2>4. ASSUME NEW i \in TaskId, msg = <<"report", i>> PROVE LateCountStep(i)
    BY <1>5, <2>1, <2>4 DEF LateArrives, LateCountStep
  <2>5. ASSUME NEW i \in TaskId, msg = <<"fallback", i>> PROVE IdleStep
    <3>1. Complete(i)
      BY <1>5, <2>5 DEF LateArrives
    <3>2. TypeOK /\ RowsEndAtNextId /\ i \in Known
      BY <2>5 DEF RunnerInv, JobsHaveRows, LateIsOver
    <3>3. /\ TypeOK' /\ Known' = Known /\ quotas' = quotas /\ devices' = devices
          /\ \A q \in TaskId : SameRow(q)
      BY <3>1, <3>2, CompleteRows
    <3>4. \A q \in TaskId : <<"report", q>> # <<"fallback", i>>
      OBVIOUS
    <3>5. stray \subseteq stray'
      BY <1>5, <2>5 DEF LateArrives
    <3>6. QED
      BY <2>1, <2>5, <3>3, <3>4, <3>5 DEF IdleStep, Own
  <2>6. QED
    BY <2>2, <2>3, <2>4, <2>5
<1>6. QED
  BY <1>1, <1>2, <1>3, <1>4, <1>5 DEF RunnerNext, Faults

-----------------------------------------------------------------------------

LEMMA PhonesAreApart == RunnerInv => OneJobPerPhone
<1> SUFFICES ASSUME RunnerInv, NEW i \in TaskId, NEW j \in TaskId,
                    job[i].st \in Active, job[j].st \in Active, i # j
             PROVE  tasks[i].device = tasks[j].device =>
                      job[i].node = job[j].node /\ job[i].life # job[j].life
  BY DEF OneJobPerPhone
<1>1. CASE job[i].node = job[j].node
  BY <1>1 DEF RunnerInv, JobsAreApart, Main
<1>2. CASE job[i].node # job[j].node
  <2>1. /\ job[i].node \in Node /\ job[j].node \in Node
        /\ \E k \in DOMAIN PhonesOf[job[i].node] : PhonesOf[job[i].node][k] = tasks[i].device
        /\ \E k \in DOMAIN PhonesOf[job[j].node] : PhonesOf[job[j].node][k] = tasks[j].device
    BY DEF RunnerInv, JobsAreOfACycle
  <2>2. QED
    BY <1>2, <2>1
<1>3. QED
  BY <1>1, <1>2

\* No phone has two workers of one main, or of two nodes: only where the watchdog
\* killed a main do its orphans and the workers of a later main share phones.
THEOREM RunnerOneJob == RunnerSpec => []OneJobPerPhone
BY PhonesAreApart, RunnerInvariant, PTL

\* Without delays no report arrives late.
NoLateReport == \A i \in TaskId : <<"report", i>> \notin late

LEMMA OnTimeStep ==
  ASSUME ~ Delays, RunnerInv, NoLateReport, [RunnerNext]_allVars
  PROVE  NoLateReport'
<1>1. \A i \in TaskId : ~ LateCountStep(i)
  BY DEF LateCountStep, NoLateReport
<1>2. late' \subseteq late \/ IdleStep
  BY <1>1, StepKinds DEF GrantStep, LoseStep, CountStep, EndStep, RepeatStep, Abandon
<1>3. QED
  BY <1>2 DEF NoLateReport, IdleStep

LEMMA WorkingStep ==
  ASSUME RunnerInv, RunningIsWorking, [RunnerNext]_allVars
  PROVE  RunningIsWorking'
<1> SUFFICES ASSUME NEW q \in TaskId, job'[q].st = "running", Own(q)'
             PROVE  devices'[tasks'[q].device] = "WORKING" \/ tasks'[q].device \in stray'
  BY DEF RunningIsWorking
<1>1. job[q].st = "running" /\ Own(q) =>
        /\ q \in Known /\ tasks[q].device \in Device
        /\ devices[tasks[q].device] = "WORKING" \/ tasks[q].device \in stray
  BY DEF RunnerInv, JobsHaveRows, RunningIsWorking
<1>2. ASSUME NEW n \in Node, GrantStep(n) \/ LoseStep(n)
      PROVE  devices'[tasks'[q].device] = "WORKING" \/ tasks'[q].device \in stray'
  <2>1. /\ \A i \in Known : SameRow(i)
        /\ \A i \in Added : devices'[tasks'[i].device] = "WORKING"
        /\ \A d \in Device : devices[d] = "WORKING" => devices'[d] = "WORKING"
    <3>1. /\ TypeOK /\ RowsEndAtNextId /\ PhonesOf[n] \in Batches
          /\ ask[n].excluded \in SUBSET Mid /\ Allocate(PhonesOf[n], ask[n].excluded)
      BY <1>2, PhonesAreBatches DEF RunnerInv, RunnerTypeOK, GrantStep, LoseStep
    <3>2. QED
      BY <3>1, BatchRows
  <2>2. q \in Added \/ (job'[q] = job[q] /\ Own(q))
    BY <1>2 DEF GrantStep, LoseStep, Own
  <2>3. \A d \in stray : d \in stray' \/ devices'[d] = "WORKING"
    BY <1>2 DEF GrantStep, LoseStep, Busy
  <2>4. CASE q \in Added
    BY <2>1, <2>4
  <2>5. CASE job'[q] = job[q] /\ Own(q)
    <3>1. /\ q \in Known /\ tasks[q].device \in Device
          /\ devices[tasks[q].device] = "WORKING" \/ tasks[q].device \in stray
      BY <1>1, <2>5
    <3>2. tasks'[q].device = tasks[q].device
      BY <2>1, <3>1 DEF SameRow
    <3>3. QED
      BY <2>1, <2>3, <3>1, <3>2
  <2>6. QED
    BY <2>2, <2>4, <2>5
<1>3. ASSUME NEW i \in TaskId, CountStep(i)
      PROVE  devices'[tasks'[q].device] = "WORKING" \/ tasks'[q].device \in stray'
  <2>1. PICK j \in Job : job' = [job EXCEPT ![i] = j] /\ j.st \in {"acked", "reporting"}
    BY <1>3 DEF CountStep
  <2>2. q # i /\ job[q].st = "running" /\ Own(q)
    <3>1. q # i /\ job'[q] = job[q]
      BY <2>1, JobIs
    <3>2. life' = life
      BY <1>3 DEF CountStep
    <3>3. QED
      BY <3>1, <3>2 DEF Own
  <2>3. job[i].st = "reporting" /\ TypeOK /\ RowsEndAtNextId /\ i \in Known
        /\ Report(i, job[i].outcome, tasks[i].device)
    BY <1>3 DEF RunnerInv, JobsHaveRows, CountStep
  <2>4. /\ SameRow(q) /\ \A x \in Device : x # tasks[i].device => devices'[x] = devices[x]
    BY <2>3, ReportRows
  <2>5. Freed(i)
    BY <1>3 DEF CountStep
  <2>6. CASE tasks[q].device # tasks[i].device
    BY <1>1, <2>2, <2>4, <2>5, <2>6 DEF SameRow, Freed
  <2>7. CASE tasks[q].device = tasks[i].device
    <3>1. job[q].node = job[i].node /\ job[q].life # job[i].life
      BY <2>2, <2>3, <2>7, PhonesAreApart DEF OneJobPerPhone, Active
    <3>2. ~ Own(i)
      BY <2>2, <3>1 DEF Own
    <3>3. QED
      BY <2>4, <2>5, <2>7, <3>2 DEF SameRow, Freed
  <2>8. QED
    BY <2>6, <2>7
<1>4. ASSUME NEW i \in TaskId, LateCountStep(i)
      PROVE  devices'[tasks'[q].device] = "WORKING" \/ tasks'[q].device \in stray'
  <2>1. /\ job' = job /\ life' = life /\ stray' = stray \cup {tasks[i].device}
    BY <1>4 DEF LateCountStep
  <2>2. /\ TypeOK /\ RowsEndAtNextId /\ i \in Known
        /\ Report(i, job[i].outcome, tasks[i].device)
    BY <1>4 DEF RunnerInv, JobsHaveRows, LateIsOver, LateCountStep
  <2>3. /\ SameRow(q) /\ \A x \in Device : x # tasks[i].device => devices'[x] = devices[x]
    BY <2>2, ReportRows
  <2>4. Own(q)
    BY <2>1 DEF Own
  <2>5. QED
    BY <1>1, <2>1, <2>3, <2>4 DEF SameRow
<1>5. ASSUME NEW i \in TaskId, EndStep(i) \/ RepeatStep(i)
      PROVE  devices'[tasks'[q].device] = "WORKING" \/ tasks'[q].device \in stray'
  <2>1. PICK j \in Job : job' = [job EXCEPT ![i] = j] /\ j.st # "running"
    BY <1>5 DEF EndStep, RepeatStep
  <2>2. job'[q] = job[q]
    BY <2>1, JobIs
  <2>3. UNCHANGED <<vars, life, stray>>
    BY <1>5 DEF EndStep, RepeatStep
  <2>4. Own(q)
    BY <2>2, <2>3 DEF Own
  <2>5. QED
    BY <1>1, <2>2, <2>3, <2>4 DEF vars
<1>6. CASE IdleStep
  <2>1. job'[q] = job[q]
    BY <1>6 DEF IdleStep
  <2>2. Own(q)
    BY <1>6, <2>1 DEF IdleStep, Active
  <2>3. QED
    BY <1>1, <1>6, <2>1, <2>2 DEF IdleStep, SameRow
<1>7. QED
  BY <1>2, <1>3, <1>4, <1>5, <1>6, StepKinds

\* A phone whose task a live main waits for is shown as WORKING, unless a late
\* request or an orphan reported it free meanwhile.
THEOREM RunnerWorking == RunnerSpec => []RunningIsWorking
<1>1. RunnerInit => RunningIsWorking
  BY DEF RunnerInit, RunningIsWorking, NoJob
<1>2. RunnerInv /\ RunningIsWorking /\ [RunnerNext]_allVars => RunningIsWorking'
  BY WorkingStep
<1>3. QED
  BY <1>1, <1>2, RunnerInvariant, PTL DEF RunnerSpec

-----------------------------------------------------------------------------

\* Sendings of a success that may yet reach the server: those its worker has
\* left, and the one that may arrive late.
Sent(i)        == <<"report", i>> \in late
Chances(j, on) == (IF j.st = "reporting" THEN Attempts - j.req.try + (IF j.req.open THEN 1 ELSE 0)
                                         ELSE 0)
                  + (IF on THEN 1 ELSE 0)

\* The other ones of each task of m.
SpentOn(j, on) == IF j.outcome = "SUCCESS" /\ j.st \notin {"none", "running"}
                  THEN Attempts - Chances(j, on) ELSE 0
Spent(m) == [i \in TaskId |-> IF tasks[i].mid = m THEN SpentOn(job[i], Sent(i)) ELSE 0]

\* Every hit of a product is one of the sendings that are spent.
HitsAreSpent == \A m \in Product : quotas[m].hits <= SumFunctionOnSet(Spent(m), TaskId)

LEMMA SpentIsInt ==
  ASSUME NEW j \in Job, NEW on \in BOOLEAN
  PROVE  SpentOn(j, on) \in Int /\ SpentOn(j, on) <= Attempts
         /\ (j.outcome # "SUCCESS" => SpentOn(j, on) = 0)
<1>1. j.req.try \in 1 .. Attempts /\ j.req.open \in BOOLEAN
  BY RequestTypes DEF Job
<1>2. Chances(j, on) \in Nat
  BY <1>1 DEF Chances
<1>3. QED
  BY <1>2 DEF SpentOn

LEMMA SpentType ==
  ASSUME RunnerInv, NEW m
  PROVE  /\ IsFiniteSet(TaskId) /\ Spent(m) = [i \in TaskId |-> Spent(m)[i]]
         /\ \A i \in TaskId : /\ Spent(m)[i] \in Int /\ Spent(m)[i] <= Attempts
                              /\ tasks[i].mid # m \/ job[i].outcome # "SUCCESS" => Spent(m)[i] = 0
<1>1. IsFiniteSet(TaskId)
  <2>1. 1 \in Int /\ MaxTaskId \in Int
    BY BoundsAssumption
  <2>2. IsFiniteSet(1 .. MaxTaskId)
    BY <2>1, FS_Interval
  <2>3. QED
    BY <2>2 DEF TaskId
<1>2. \A i \in TaskId : Sent(i) \in BOOLEAN /\ job[i] \in Job
  BY JobIs DEF Sent
<1>3. \A i \in TaskId : /\ SpentOn(job[i], Sent(i)) \in Int /\ SpentOn(job[i], Sent(i)) <= Attempts
                        /\ job[i].outcome # "SUCCESS" => SpentOn(job[i], Sent(i)) = 0
  BY <1>2, SpentIsInt
<1>4. \A i \in TaskId : Spent(m)[i] = IF tasks[i].mid = m THEN SpentOn(job[i], Sent(i)) ELSE 0
  BY DEF Spent
<1>5. Spent(m) = [i \in TaskId |-> Spent(m)[i]]
  BY DEF Spent
<1>6. QED
  BY <1>1, <1>3, <1>4, <1>5

\* What can happen to a job, and what this does to its chances.
Loses(j, k, on, onn) ==
    \/ k = j /\ (onn => on)
    \/ j.st = "none" /\ k.st \in {"none", "running"}
    \/ /\ j.st = "running" /\ ~ onn
       /\ \/ k.st \in {"fallback", "acked", "lost"}
          \/ k.st = "reporting" /\ k.req = Fresh
    \/ /\ j.st \in {"reporting", "fallback"} /\ k.outcome = j.outcome /\ (onn => on)
       /\ k.st \in {"fallback", "acked", "lost"}
    \/ /\ j.st = "reporting" /\ k.outcome = j.outcome
       /\ onn => on \/ j.req.open
       /\ \/ k.st = "reporting" /\ k.req = Again(j.req)
          \/ k.st \in {"fallback", "lost"}

Counts(j, k, on, onn) ==
    \/ /\ j.st = "reporting" /\ j.req.open /\ k.outcome = j.outcome /\ onn = on
       /\ \/ k.st = "acked"
          \/ k.st = "reporting" /\ k.req = Served(j.req)
    \/ k = j /\ on /\ ~ onn /\ j.st \notin {"none", "running"}

LEMMA Requests ==
  ASSUME NEW j \in Job
  PROVE  /\ j.req.try \in 1 .. Attempts /\ j.req.open \in BOOLEAN
         /\ Fresh.try = 1 /\ Fresh.open = TRUE
         /\ Again(j.req).try = j.req.try + 1 /\ Again(j.req).open = TRUE
         /\ Served(j.req).try = j.req.try /\ Served(j.req).open = FALSE
<1>1. j.req \in Request
  BY DEF Job
<1>2. QED
  BY <1>1 DEF Fresh, Again, Served, Request

LEMMA SpentGrows ==
  ASSUME NEW j \in Job, NEW k \in Job, NEW on \in BOOLEAN, NEW onn \in BOOLEAN,
         Loses(j, k, on, onn)
  PROVE  SpentOn(j, on) <= SpentOn(k, onn)
<1>1. /\ j.req.try \in 1 .. Attempts /\ j.req.open \in BOOLEAN
      /\ k.req.try \in 1 .. Attempts /\ k.req.open \in BOOLEAN
  BY Requests
<1>2. CASE k = j /\ (onn => on)
  BY <1>1, <1>2 DEF SpentOn, Chances
<1>3. CASE j.st = "none" /\ k.st \in {"none", "running"}
  BY <1>3 DEF SpentOn
<1>4. CASE j.st = "running" /\ ~ onn /\ k.st \in {"fallback", "acked", "lost"}
  BY <1>1, <1>4 DEF SpentOn, Chances
<1>5. CASE j.st = "running" /\ ~ onn /\ k.st = "reporting" /\ k.req = Fresh
  <2>1. k.req.try = 1 /\ k.req.open = TRUE
    BY <1>5, Requests
  <2>2. QED
    BY <1>5, <2>1 DEF SpentOn, Chances
<1>6. CASE /\ j.st \in {"reporting", "fallback"} /\ k.outcome = j.outcome /\ (onn => on)
           /\ k.st \in {"fallback", "acked", "lost"}
  BY <1>1, <1>6 DEF SpentOn, Chances
<1>7. CASE /\ j.st = "reporting" /\ k.outcome = j.outcome /\ (onn => on \/ j.req.open)
           /\ k.st = "reporting" /\ k.req = Again(j.req)
  <2>1. k.req.try = j.req.try + 1 /\ k.req.open = TRUE
    BY <1>7, Requests
  <2>2. QED
    BY <1>1, <1>7, <2>1 DEF SpentOn, Chances
<1>8. CASE /\ j.st = "reporting" /\ k.outcome = j.outcome /\ (onn => on \/ j.req.open)
           /\ k.st \in {"fallback", "lost"}
  BY <1>1, <1>8 DEF SpentOn, Chances
<1>9. QED
  BY <1>2, <1>3, <1>4, <1>5, <1>6, <1>7, <1>8 DEF Loses

LEMMA SpentCounts ==
  ASSUME NEW j \in Job, NEW k \in Job, NEW on \in BOOLEAN, NEW onn \in BOOLEAN,
         Counts(j, k, on, onn), j.outcome = "SUCCESS"
  PROVE  SpentOn(j, on) + 1 <= SpentOn(k, onn)
<1>1. j.req.try \in 1 .. Attempts /\ j.req.open \in BOOLEAN
  BY Requests
<1>2. CASE /\ j.st = "reporting" /\ j.req.open /\ k.outcome = j.outcome /\ onn = on
           /\ k.st = "acked"
  BY <1>1, <1>2 DEF SpentOn, Chances
<1>3. CASE /\ j.st = "reporting" /\ j.req.open /\ k.outcome = j.outcome /\ onn = on
           /\ k.st = "reporting" /\ k.req = Served(j.req)
  <2>1. k.req.try = j.req.try /\ k.req.open = FALSE
    BY <1>3, Requests
  <2>2. QED
    BY <1>1, <1>3, <2>1 DEF SpentOn, Chances
<1>4. CASE k = j /\ on /\ ~ onn /\ j.st \notin {"none", "running"}
  BY <1>1, <1>4 DEF SpentOn, Chances
<1>5. QED
  BY <1>2, <1>3, <1>4 DEF Counts

LEMMA SpentTypeNext ==
  ASSUME RunnerInv', NEW m
  PROVE  \A q \in TaskId : Spent(m)'[q] \in Int
<1>1. \A j \in Job' : \A on \in BOOLEAN : SpentOn(j, on)' \in Int
  <2>1. Job' = Job /\ \A j \in Job, on \in BOOLEAN : SpentOn(j, on) \in Int
    BY SpentIsInt DEF Job
  <2>2. QED
    BY <2>1 DEF SpentOn, Chances
<1>2. \A q \in TaskId : job'[q] \in Job /\ Sent(q)' \in BOOLEAN
  BY DEF RunnerInv, RunnerTypeOK, Job, Sent
<1>3. QED
  BY <1>1, <1>2 DEF Spent

\* The hits of m and its spent sendings grow together.
LEMMA SpentTogether ==
  ASSUME RunnerInv, RunnerInv', NEW m, NEW n \in Nat, NEW i \in TaskId,
         \A q \in TaskId : Spent(m)[q] + (IF q = i THEN n ELSE 0) <= Spent(m)'[q]
  PROVE  SumFunctionOnSet(Spent(m), TaskId) + n <= SumFunctionOnSet(Spent(m)', TaskId)
<1> DEFINE more == [q \in TaskId |-> IF q = i THEN Spent(m)[q] + n ELSE Spent(m)[q]]
<1>1. IsFiniteSet(TaskId) /\ \A q \in TaskId : Spent(m)[q] \in Int
  BY SpentType
<1>2. \A q \in TaskId : Spent(m)'[q] \in Int
  BY SpentTypeNext
<1>3. \A q \in TaskId : more[q] = IF q = i THEN Spent(m)[q] + n ELSE Spent(m)[q]
  OBVIOUS
<1> HIDE DEF more
<1>4. SumFunctionOnSet(more, TaskId) = SumFunctionOnSet(Spent(m), TaskId) + n
  <2> DEFINE F == Spent(m)
             S == TaskId
  <2>1. /\ IsFiniteSet(S) /\ i \in S /\ n \in Int /\ \A s \in S : F[s] \in Int
        /\ \A s \in S : more[s] = IF s = i THEN F[s] + n ELSE F[s]
    BY <1>1, <1>3
  <2> HIDE DEF F, S
  <2>2. SumFunctionOnSet(more, S) = SumFunctionOnSet(F, S) + (IF i \in S THEN n ELSE 0)
    BY <2>1, SumOfOneMore
  <2>3. QED
    BY <2>1, <2>2 DEF F, S
<1>5. \A q \in TaskId : more[q] \in Int /\ more[q] <= Spent(m)'[q]
  BY <1>1, <1>3
<1>6. SumFunctionOnSet(more, TaskId) <= SumFunctionOnSet(Spent(m)', TaskId)
  BY <1>1, <1>2, <1>5, SumOfSmaller
<1>7. QED
  BY <1>4, <1>6

\* What every step does to the job and the late report of one task.
LEMMA JobStep ==
  ASSUME RunnerInv, [RunnerNext]_allVars, NEW q \in TaskId
  PROVE  \/ Loses(job[q], job'[q], Sent(q), Sent(q)')
         \/ (CountStep(q) \/ LateCountStep(q)) /\ Counts(job[q], job'[q], Sent(q), Sent(q)')
<1>1. job[q].st = "none" => q \in TaskId \ Known \/ ~ Sent(q)
  BY DEF RunnerInv, LateIsOver, Sent
<1>2. job[q].st \in {"none", "running"} => ~ Sent(q)
  BY DEF RunnerInv, LateIsOver, Sent
<1>3. ASSUME NEW n \in Node, GrantStep(n)
      PROVE  Loses(job[q], job'[q], Sent(q), Sent(q)')
  <2>1. q \in Added => job[q].st = "none" /\ job'[q].st = "running"
    <3>1. /\ TypeOK /\ RowsEndAtNextId /\ PhonesOf[n] \in Batches
          /\ ask[n].excluded \in SUBSET Mid /\ Allocate(PhonesOf[n], ask[n].excluded)
      BY <1>3, PhonesAreBatches DEF RunnerInv, RunnerTypeOK, GrantStep
    <3>2. Known \cap Added = {}
      BY <3>1, BatchRows
    <3>3. q \in Added => job[q].st = "none"
      BY <3>2 DEF RunnerInv, JobsHaveRows
    <3>4. q \in Added => job'[q].st = "running"
      BY <1>3 DEF GrantStep, NoJob
    <3>5. QED
      BY <3>3, <3>4
  <2>2. q \notin Added => job'[q] = job[q]
    BY <1>3 DEF GrantStep
  <2>3. Sent(q)' = Sent(q)
    BY <1>3 DEF GrantStep, Sent, Busy
  <2>4. QED
    BY <2>1, <2>2, <2>3 DEF Loses
<1>4. ASSUME NEW n \in Node, LoseStep(n)
      PROVE  Loses(job[q], job'[q], Sent(q), Sent(q)')
  BY <1>4 DEF LoseStep, Loses, Sent
<1>5. ASSUME NEW i \in TaskId, CountStep(i)
      PROVE  \/ Loses(job[q], job'[q], Sent(q), Sent(q)')
             \/ CountStep(q) /\ Counts(job[q], job'[q], Sent(q), Sent(q)')
  <2>1. PICK j \in Job : /\ job' = [job EXCEPT ![i] = j] /\ j.outcome = job[i].outcome
                         /\ \/ j.st = "acked"
                            \/ j.st = "reporting" /\ j.req = Served(job[i].req)
    BY <1>5 DEF CountStep
  <2>2. /\ Sent(q)' = Sent(q) /\ job[i].st = "reporting" /\ job[i].req.open
    BY <1>5 DEF CountStep, Sent
  <2>3. CASE q = i
    <3>1. job'[q] = j
      BY <2>1, <2>3, JobIs
    <3>2. QED
      BY <1>5, <2>1, <2>2, <2>3, <3>1 DEF Counts
  <2>4. CASE q # i
    <3>1. job'[q] = job[q]
      BY <2>1, <2>4, JobIs
    <3>2. QED
      BY <2>2, <3>1 DEF Loses
  <2>5. QED
    BY <2>3, <2>4
<1>6. ASSUME NEW i \in TaskId, LateCountStep(i)
      PROVE  \/ Loses(job[q], job'[q], Sent(q), Sent(q)')
             \/ LateCountStep(q) /\ Counts(job[q], job'[q], Sent(q), Sent(q)')
  <2>1. job' = job /\ late' = late \ {<<"report", i>>} /\ <<"report", i>> \in late
    BY <1>6 DEF LateCountStep
  <2>2. CASE q = i
    <3>1. Sent(q) /\ ~ Sent(q)'
      BY <2>1, <2>2 DEF Sent
    <3>2. QED
      BY <1>2, <1>6, <2>1, <2>2, <3>1 DEF Counts
  <2>3. CASE q # i
    <3>1. Sent(q)' => Sent(q)
      BY <2>1 DEF Sent
    <3>2. QED
      BY <2>1, <3>1 DEF Loses
  <2>4. QED
    BY <2>2, <2>3
<1>7. ASSUME NEW i \in TaskId, EndStep(i)
      PROVE  Loses(job[q], job'[q], Sent(q), Sent(q)')
  <2>1. PICK j \in Job : /\ job' = [job EXCEPT ![i] = j]
                         /\ \/ j.st = "lost"
                            \/ j.st = "reporting" /\ j.req = Fresh
    BY <1>7 DEF EndStep
  <2>2. Sent(q)' = Sent(q) /\ job[i].st = "running"
    BY <1>7 DEF EndStep, Sent
  <2>3. job'[q] = IF q = i THEN j ELSE job[q]
    BY <2>1, JobIs
  <2>4. QED
    BY <1>2, <2>1, <2>2, <2>3 DEF Loses
<1>8. ASSUME NEW i \in TaskId, RepeatStep(i)
      PROVE  Loses(job[q], job'[q], Sent(q), Sent(q)')
  <2>1. PICK j \in Job : /\ job' = [job EXCEPT ![i] = j] /\ j.outcome = job[i].outcome
                         /\ \/ j.st = "reporting" /\ j.req = Again(job[i].req)
                            \/ j.st \in {"fallback", "lost"}
    BY <1>8 DEF RepeatStep
  <2>2. job[i].st = "reporting" /\ Abandon(job[i].req, <<"report", i>>)
    BY <1>8 DEF RepeatStep
  <2>3. CASE q = i
    <3>1. job'[q] = j
      BY <2>1, <2>3, JobIs
    <3>2. Sent(q)' => Sent(q) \/ job[q].req.open
      BY <2>2, <2>3 DEF Abandon, Sent
    <3>3. QED
      BY <2>1, <2>2, <2>3, <3>1, <3>2 DEF Loses
  <2>4. CASE q # i
    <3>1. job'[q] = job[q]
      BY <2>1, <2>4, JobIs
    <3>2. <<"report", q>> # <<"report", i>>
      BY <2>4
    <3>3. Sent(q)' => Sent(q)
      BY <2>2, <3>2 DEF Abandon, Sent
    <3>4. QED
      BY <3>1, <3>3 DEF Loses
  <2>5. QED
    BY <2>3, <2>4
<1>9. ASSUME IdleStep PROVE Loses(job[q], job'[q], Sent(q), Sent(q)')
  <2>1. Sent(q)' => \/ Sent(q)
                    \/ job[q].st = "reporting" /\ job[q].req.open /\ job'[q].st = "lost"
    BY <1>9 DEF IdleStep, Sent
  <2>2. \/ job'[q] = job[q]
        \/ /\ job[q].st \in Active /\ job'[q].st \in {"fallback", "acked", "lost"}
           /\ job'[q].outcome = job[q].outcome
    BY <1>9 DEF IdleStep
  <2>3. QED
    BY <1>2, <2>1, <2>2 DEF Loses, Active
<1>10. QED
  BY <1>3, <1>4, <1>5, <1>6, <1>7, <1>8, <1>9, StepKinds

\* A report that is served, in time or late, takes a chance of its own task.
LEMMA CountedJob ==
  ASSUME RunnerInv, NEW i \in TaskId, CountStep(i) \/ LateCountStep(i)
  PROVE  Counts(job[i], job'[i], Sent(i), Sent(i)')
<1>1. CASE CountStep(i)
  <2>1. PICK j \in Job : /\ job' = [job EXCEPT ![i] = j] /\ j.outcome = job[i].outcome
                         /\ \/ j.st = "acked"
                            \/ j.st = "reporting" /\ j.req = Served(job[i].req)
    BY <1>1 DEF CountStep
  <2>2. Sent(i)' = Sent(i) /\ job[i].st = "reporting" /\ job[i].req.open
    BY <1>1 DEF CountStep, Sent
  <2>3. job'[i] = j
    BY <2>1, JobIs
  <2>4. QED
    BY <2>1, <2>2, <2>3 DEF Counts
<1>2. CASE LateCountStep(i)
  <2>1. job' = job /\ Sent(i) /\ ~ Sent(i)'
    BY <1>2 DEF LateCountStep, Sent
  <2>2. job[i].st \notin {"none", "running"}
    BY <2>1 DEF RunnerInv, LateIsOver, Sent
  <2>3. QED
    BY <2>1, <2>2 DEF Counts
<1>3. QED
  BY <1>1, <1>2

\* The task of a report that is served has a row.
LEMMA CountedRow ==
  ASSUME RunnerInv, NEW i \in TaskId, CountStep(i) \/ LateCountStep(i)
  PROVE  /\ TypeOK /\ RowsEndAtNextId /\ i \in Known
         /\ Report(i, job[i].outcome, tasks[i].device)
BY DEF RunnerInv, JobsHaveRows, LateIsOver, CountStep, LateCountStep

\* No step changes the product of a row, and only a served report changes the
\* quotas.
LEMMA RowsAreKept ==
  ASSUME RunnerInv, [RunnerNext]_allVars
  PROVE  /\ \A q \in Known : SameRow(q)
         /\ quotas' = quotas \/ \E i \in TaskId : CountStep(i) \/ LateCountStep(i)
<1>1. ASSUME NEW n \in Node, GrantStep(n) \/ LoseStep(n)
      PROVE  (\A q \in Known : SameRow(q)) /\ quotas' = quotas
  <2>1. /\ TypeOK /\ RowsEndAtNextId /\ PhonesOf[n] \in Batches
        /\ ask[n].excluded \in SUBSET Mid /\ Allocate(PhonesOf[n], ask[n].excluded)
    BY <1>1, PhonesAreBatches DEF RunnerInv, RunnerTypeOK, GrantStep, LoseStep
  <2>2. QED
    BY <2>1, BatchRows
<1>2. ASSUME NEW i \in TaskId, CountStep(i) \/ LateCountStep(i)
      PROVE  \A q \in Known : SameRow(q)
  <2>1. /\ TypeOK /\ RowsEndAtNextId /\ i \in Known
        /\ Report(i, job[i].outcome, tasks[i].device)
    BY <1>2, CountedRow
  <2>2. \A q \in TaskId : SameRow(q)
    BY <2>1, ReportRows
  <2>3. QED
    BY <2>2 DEF Known
<1>3. ASSUME NEW i \in TaskId, EndStep(i) \/ RepeatStep(i)
      PROVE  (\A q \in Known : SameRow(q)) /\ quotas' = quotas
  BY <1>3 DEF EndStep, RepeatStep, vars, SameRow
<1>4. CASE IdleStep
  BY <1>4 DEF IdleStep, Known
<1>5. QED
  BY <1>1, <1>2, <1>3, <1>4, StepKinds

\* What is spent stays spent, and a success that is counted spends one more.
LEMMA SpentStep ==
  ASSUME RunnerInv, [RunnerNext]_allVars, NEW m, NEW q \in TaskId
  PROVE  /\ Spent(m)[q] <= Spent(m)'[q]
         /\ (CountStep(q) \/ LateCountStep(q)) /\ tasks[q].mid = m /\ job[q].outcome = "SUCCESS"
               => Spent(m)[q] + 1 <= Spent(m)'[q]
<1> DEFINE j == job[q]
           k == job'[q]
           on == Sent(q)
           onn == Sent(q)'
<1>1. j \in Job /\ k \in Job /\ on \in BOOLEAN /\ onn \in BOOLEAN
  <2>1. RunnerTypeOK'
    BY RunnerInvStep DEF RunnerInv
  <2>2. QED
    BY <2>1 DEF RunnerInv, RunnerTypeOK, Job, Sent
<1>2. /\ Spent(m)[q] = IF tasks[q].mid = m THEN SpentOn(j, on) ELSE 0
      /\ Spent(m)'[q] = IF tasks'[q].mid = m THEN SpentOn(k, onn) ELSE 0
  BY DEF Spent, SpentOn, Chances
<1>3. Loses(j, k, on, onn) \/ Counts(j, k, on, onn)
  BY JobStep
<1>4. CountStep(q) \/ LateCountStep(q) => Counts(j, k, on, onn)
  BY CountedJob
<1>5. CASE q \notin Known
  <2>1. j.st = "none"
    BY <1>5 DEF RunnerInv, JobsHaveRows
  <2>2. k.st \in {"none", "running"} /\ ~ Counts(j, k, on, onn)
    BY <1>3, <2>1 DEF Loses, Counts
  <2>3. SpentOn(j, on) = 0 /\ SpentOn(k, onn) = 0
    BY <2>1, <2>2 DEF SpentOn
  <2>4. QED
    BY <1>2, <1>4, <2>2, <2>3
<1>6. CASE q \in Known
  <2>1. tasks'[q].mid = tasks[q].mid
    BY <1>6, RowsAreKept DEF SameRow
  <2>2. Counts(j, k, on, onn) /\ j.outcome = "SUCCESS" => SpentOn(j, on) + 1 <= SpentOn(k, onn)
    <3> HIDE DEF j, k, on, onn
    <3>1. QED
      BY <1>1, SpentCounts
  <2>3. Loses(j, k, on, onn) => SpentOn(j, on) <= SpentOn(k, onn)
    <3> HIDE DEF j, k, on, onn
    <3>1. QED
      BY <1>1, SpentGrows
  <2>4. Counts(j, k, on, onn) /\ j.outcome # "SUCCESS" => SpentOn(j, on) <= SpentOn(k, onn)
    <3>1. Counts(j, k, on, onn) => k.outcome = j.outcome
      BY DEF Counts
    <3>2. QED
      BY <3>1 DEF SpentOn
  <2>5. SpentOn(j, on) \in Int /\ SpentOn(k, onn) \in Int
    <3> HIDE DEF j, k, on, onn
    <3>1. QED
      BY <1>1, SpentIsInt
  <2> HIDE DEF j, k, on, onn
  <2>6. SpentOn(j, on) <= SpentOn(k, onn)
    BY <1>3, <2>2, <2>3, <2>4, <2>5
  <2>7. CountStep(q) \/ LateCountStep(q) => (j.outcome = "SUCCESS" => SpentOn(j, on) + 1 <= SpentOn(k, onn))
    BY <1>4, <2>2
  <2>8. QED
    BY <1>2, <2>1, <2>5, <2>6, <2>7 DEF j
<1>7. QED
  BY <1>5, <1>6

\* What is spent on a product does not become less.
LEMMA SpentStays ==
  ASSUME RunnerInv, [RunnerNext]_allVars, NEW m
  PROVE  SumFunctionOnSet(Spent(m), TaskId) <= SumFunctionOnSet(Spent(m)', TaskId)
<1>1. RunnerInv'
  BY RunnerInvStep
<1>2. CASE TaskId = {}
  <2>1. SumFunctionOnSet(Spent(m), {}) = 0 /\ SumFunctionOnSet(Spent(m)', {}) = 0
    BY SumOfNone
  <2>2. QED
    BY <1>2, <2>1
<1>3. ASSUME NEW i \in TaskId
      PROVE  SumFunctionOnSet(Spent(m), TaskId) <= SumFunctionOnSet(Spent(m)', TaskId)
  <2>1. \A q \in TaskId : Spent(m)[q] + (IF q = i THEN 0 ELSE 0) <= Spent(m)'[q]
    BY SpentStep, SpentType
  <2>2. SumFunctionOnSet(Spent(m), TaskId) + 0 <= SumFunctionOnSet(Spent(m)', TaskId)
    BY <1>1, <2>1, SpentTogether
  <2>3. SumFunctionOnSet(Spent(m), TaskId) \in Int
    BY SpentType, SumType
  <2>4. QED
    BY <2>2, <2>3
<1>4. QED
  BY <1>2, <1>3

LEMMA HitsStep ==
  ASSUME RunnerInv, HitsAreSpent, [RunnerNext]_allVars
  PROVE  HitsAreSpent'
<1> SUFFICES ASSUME NEW m \in Product
             PROVE  quotas'[m].hits <= SumFunctionOnSet(Spent(m)', TaskId)
  BY DEF HitsAreSpent
<1> DEFINE sum == SumFunctionOnSet(Spent(m), TaskId)
           sumn == SumFunctionOnSet(Spent(m)', TaskId)
<1>1. RunnerInv'
  BY RunnerInvStep
<1>2. m \in Mid /\ quotas[m] \in Quota /\ quotas'[m] \in Quota /\ quotas[m].hits <= sum
  BY <1>1, CatalogueAssumption DEF RunnerInv, TypeOK, HitsAreSpent
<1>3. sum \in Int /\ sumn \in Int
  <2>1. sum \in Int
    BY SpentType, SumType
  <2>2. IsFiniteSet(TaskId) /\ \A q \in TaskId : Spent(m)'[q] \in Int
    BY <1>1, SpentType, SpentTypeNext
  <2>3. QED
    BY <2>1, <2>2, SumType
<1>4. sum <= sumn
  BY SpentStays
<1>5. ASSUME quotas'[m].hits = quotas[m].hits
      PROVE  quotas'[m].hits <= sumn
  <2> HIDE DEF sum, sumn
  <2>1. QED
    BY <1>2, <1>3, <1>4, <1>5 DEF Quota
<1>6. ASSUME NEW i \in TaskId, CountStep(i) \/ LateCountStep(i),
             tasks[i].mid = m, job[i].outcome = "SUCCESS"
      PROVE  quotas'[m].hits <= sumn
  <2>1. \A q \in TaskId : Spent(m)[q] + (IF q = i THEN 1 ELSE 0) <= Spent(m)'[q]
    BY <1>6, SpentStep, SpentType
  <2>2. sum + 1 <= sumn
    BY <1>1, <2>1, SpentTogether
  <2>3. /\ TypeOK /\ RowsEndAtNextId /\ i \in Known
        /\ Report(i, job[i].outcome, tasks[i].device)
    BY <1>6, CountedRow
  <2>4. quotas'[m] = Hit(quotas[m])
    BY <1>2, <1>6, <2>3, ReportRows
  <2>5. quotas'[m].hits <= quotas[m].hits + 1
    BY <1>2, <2>4 DEF Hit, Quota
  <2> HIDE DEF sum, sumn
  <2>6. QED
    BY <1>2, <1>3, <2>2, <2>5 DEF Quota
<1>7. ASSUME NEW i \in TaskId, CountStep(i) \/ LateCountStep(i),
             ~ (tasks[i].mid = m /\ job[i].outcome = "SUCCESS")
      PROVE  quotas'[m].hits = quotas[m].hits
  <2>1. /\ TypeOK /\ RowsEndAtNextId /\ i \in Known
        /\ Report(i, job[i].outcome, tasks[i].device)
    BY <1>7, CountedRow
  <2>2. quotas'[m] = quotas[m]
    BY <1>2, <1>7, <2>1, ReportRows
  <2>3. QED
    BY <2>2
<1>8. QED
  BY <1>5, <1>6, <1>7, RowsAreKept

\* Hits are earned, for every number of sendings, with late requests, restarts
\* and the fall back to the older path.
THEOREM RunnerHitsEarned == RunnerSpec => []HitsAreEarned
<1>1. RunnerInit => HitsAreSpent
  <2> SUFFICES ASSUME RunnerInit, NEW m \in Product
               PROVE  quotas[m].hits <= SumFunctionOnSet(Spent(m), TaskId)
    BY DEF HitsAreSpent
  <2>1. RunnerInv
    BY RunnerInvInit
  <2>2. \A i \in TaskId : job[i].st = "none"
    BY DEF RunnerInit, NoJob
  <2>3. \A i \in TaskId : Spent(m)[i] = 0
    BY <2>2 DEF Spent, SpentOn
  <2>4. SumFunctionOnSet(Spent(m), TaskId) = 0
    <3>1. SumFunctionOnSet(Spent(m), TaskId) = Cardinality(TaskId) * 0 /\ Cardinality(TaskId) \in Nat
      BY <2>1, <2>3, SpentType, SumOfEqual, FS_CardinalityType
    <3>2. QED
      BY <3>1
  <2>5. quotas[m].hits = 0
    BY CatalogueAssumption DEF RunnerInit, Init
  <2>6. QED
    BY <2>4, <2>5
<1>2. RunnerInv /\ HitsAreSpent /\ [RunnerNext]_allVars => HitsAreSpent'
  BY HitsStep
<1>3. RunnerInv /\ HitsAreSpent => HitsAreEarned
  <2> SUFFICES ASSUME RunnerInv, HitsAreSpent, NEW m \in Product
               PROVE  quotas[m].hits <= Attempts *
                 Cardinality({i \in TaskId : tasks[i].mid = m /\ job[i].outcome = "SUCCESS"})
    BY DEF HitsAreEarned
  <2> DEFINE R == {i \in TaskId : tasks[i].mid = m /\ job[i].outcome = "SUCCESS"}
             F == Spent(m)
  <2>1. IsFiniteSet(TaskId) /\ Attempts \in Nat
        /\ \A i \in TaskId : F[i] \in Int /\ F[i] <= IF i \in R THEN Attempts ELSE 0
    <3>1. \A i \in TaskId : /\ F[i] \in Int /\ F[i] <= Attempts
                            /\ i \notin R => F[i] = 0
      BY SpentType
    <3> HIDE DEF F, R
    <3>2. QED
      BY <3>1, SpentType
  <2>2. TaskId \cap R = R
    OBVIOUS
  <2>3. quotas[m].hits <= SumFunctionOnSet(F, TaskId) /\ quotas[m].hits \in Nat
    BY CatalogueAssumption DEF HitsAreSpent, RunnerInv, TypeOK, Quota
  <2>4. IsFiniteSet(R)
    BY <2>1, FS_Subset
  <2> DEFINE most == Attempts * Cardinality(R)
  <2> HIDE DEF F, R
  <2>5. SumFunctionOnSet(F, TaskId) <= Attempts * Cardinality(TaskId \cap R)
    BY <2>1, SumWithin
  <2>6. SumFunctionOnSet(F, TaskId) \in Int
    BY <2>1, SumType
  <2>7. Cardinality(R) \in Nat
    BY <2>4, FS_CardinalityType
  <2>8. most \in Int /\ SumFunctionOnSet(F, TaskId) <= most
    <3>1. Attempts \in Int
      BY <2>1
    <3>2. Attempts * Cardinality(R) \in Int
      BY <2>7, <3>1
    <3>3. SumFunctionOnSet(F, TaskId) <= Attempts * Cardinality(R)
      BY <2>2, <2>5, Zenon
    <3>4. QED
      BY <3>2, <3>3
  <2> HIDE DEF most
  <2>9. quotas[m].hits <= most
    BY <2>3, <2>6, <2>8
  <2>10. QED
    BY <2>9 DEF R, most
<1>4. QED
  BY <1>1, <1>2, <1>3, RunnerInvariant, PTL DEF RunnerSpec

-----------------------------------------------------------------------------

\* The sendings that one worker may yet be counted for, as QuotaLease has them.
SendingsOf(j) ==
    CASE j.st = "running" -> 1 .. Attempts
      [] j.st = "reporting" /\ j.outcome = "SUCCESS" ->
           (IF j.req.open THEN j.req.try ELSE j.req.try + 1) .. Attempts
      [] OTHER -> {}
Pairs(j) == {<<j.node, j.life>>} \X SendingsOf(j)

\* The mains there may be, which are the runners of QuotaLease.
Mains == Node \X (1 .. MaxMains)

\* All products have their row of the day.
QuotasOfTheDay ==
    \A m \in Product : quotas[m].status # "NONE" /\ quotas[m].target = Target[m]

LEMMA PairsAre ==
  ASSUME NEW j \in Job, NEW c \in Pairs(j)
  PROVE  /\ j.st \in Active /\ c \in {<<j.node, j.life>>} \X (1 .. Attempts)
         /\ c[1] = <<j.node, j.life>>
<1>1. j.st \in {"running", "reporting"} /\ SendingsOf(j) \subseteq 1 .. Attempts
  <2>1. CASE j.st = "running"
    BY <2>1 DEF SendingsOf
  <2>2. CASE j.st = "reporting" /\ j.outcome = "SUCCESS"
    <3>1. j.req.try \in 1 .. Attempts /\ j.req.open \in BOOLEAN
      BY Requests
    <3>2. SendingsOf(j) = (IF j.req.open THEN j.req.try ELSE j.req.try + 1) .. Attempts
      BY <2>2 DEF SendingsOf
    <3>3. QED
      BY <2>2, <3>1, <3>2
  <2>3. CASE j.st # "running" /\ ~ (j.st = "reporting" /\ j.outcome = "SUCCESS")
    BY <2>3 DEF SendingsOf, Pairs
  <2>4. QED
    BY <2>1, <2>2, <2>3
<1>2. QED
  BY <1>1 DEF Pairs, Active

LEMMA OwedIs ==
  ASSUME NEW m, NEW c
  PROVE  /\ c \in Owed(m) <=> \E i \in TaskId : tasks[i].mid = m /\ c \in Pairs(job[i])
         /\ c \in Owed(m)' <=> \E i \in TaskId : tasks'[i].mid = m /\ c \in Pairs(job'[i])
<1>1. ASSUME NEW i \in TaskId
      PROVE  /\ Sendings(i) = SendingsOf(job[i]) /\ Sendings(i)' = SendingsOf(job'[i])
             /\ job[i].st \notin Active => Pairs(job[i]) = {}
             /\ job'[i].st \notin Active => Pairs(job'[i]) = {}
  <2>1. Sendings(i) = SendingsOf(job[i]) /\ Sendings(i)' = SendingsOf(job'[i])
    BY DEF Sendings, SendingsOf
  <2>2. ASSUME NEW j, j.st \notin Active PROVE Pairs(j) = {}
    <3>1. SendingsOf(j) = {}
      BY <2>2 DEF SendingsOf, Active
    <3>2. QED
      BY <3>1 DEF Pairs
  <2>3. QED
    BY <2>1, <2>2
<1>2. /\ c \in Owed(m) <=> \E i \in TaskId : /\ tasks[i].mid = m /\ job[i].st \in Active
                                              /\ c \in {Main(i)} \X Sendings(i)
      /\ c \in Owed(m)' <=> \E i \in TaskId : /\ tasks'[i].mid = m /\ job'[i].st \in Active
                                               /\ c \in {Main(i)'} \X Sendings(i)'
  BY DEF Owed
<1>3. QED
  BY <1>1, <1>2 DEF Pairs, Main

\* What is owed are counts of QuotaLease.
LEMMA OwedType ==
  ASSUME RunnerInv, NEW m
  PROVE  Owed(m) \subseteq Mains \X (1 .. Attempts)
<1> SUFFICES ASSUME NEW c \in Owed(m) PROVE c \in Mains \X (1 .. Attempts)
  OBVIOUS
<1>1. PICK i \in TaskId : c \in Pairs(job[i])
  BY OwedIs
<1>2. job[i].st \in Active /\ c \in {<<job[i].node, job[i].life>>} \X (1 .. Attempts)
  BY <1>1, JobIs, PairsAre
<1>3. <<job[i].node, job[i].life>> \in Mains
  BY <1>2 DEF RunnerInv, JobsAreOfACycle, Mains
<1>4. QED
  BY <1>2, <1>3

\* The sendings left to a worker become fewer with what happens to it.
LEMMA PairsShrink ==
  ASSUME NEW j \in Job, NEW k \in Job,
         \/ k = j \/ k.st \in {"fallback", "acked", "lost"}
         \/ /\ k.st = "reporting" /\ k.node = j.node /\ k.life = j.life
            /\ \/ j.st = "running" /\ k.req = Fresh
               \/ /\ j.st = "reporting" /\ k.outcome = j.outcome
                  /\ k.req = Served(j.req) \/ k.req = Again(j.req)
  PROVE  Pairs(k) \subseteq Pairs(j)
<1>1. j.req.try \in 1 .. Attempts /\ j.req.open \in BOOLEAN
  BY Requests
<1>2. CASE k = j
  BY <1>2
<1>3. CASE k.st \in {"fallback", "acked", "lost"}
  BY <1>3 DEF Pairs, SendingsOf
<1>4. CASE k.st = "reporting" /\ k.node = j.node /\ k.life = j.life /\ j.st = "running"
  <2>1. SendingsOf(j) = 1 .. Attempts
    BY <1>4 DEF SendingsOf
  <2>2. \A c \in Pairs(k) : c \in {<<k.node, k.life>>} \X (1 .. Attempts)
    BY PairsAre
  <2>3. QED
    BY <1>4, <2>1, <2>2 DEF Pairs
<1>5. CASE /\ k.st = "reporting" /\ k.node = j.node /\ k.life = j.life
           /\ j.st = "reporting" /\ k.outcome = j.outcome
           /\ k.req = Served(j.req) \/ k.req = Again(j.req)
  <2>1. k.req.try = (IF k.req.open THEN j.req.try + 1 ELSE j.req.try) /\ k.req.open \in BOOLEAN
    BY <1>5, Requests
  <2>2. CASE k.outcome # "SUCCESS"
    BY <1>5, <2>2 DEF Pairs, SendingsOf
  <2>3. CASE k.outcome = "SUCCESS"
    <3>1. /\ SendingsOf(k) = (IF k.req.open THEN k.req.try ELSE k.req.try + 1) .. Attempts
          /\ SendingsOf(j) = (IF j.req.open THEN j.req.try ELSE j.req.try + 1) .. Attempts
      BY <1>5, <2>3 DEF SendingsOf
    <3>2. SendingsOf(k) = (j.req.try + 1) .. Attempts
      BY <1>1, <2>1, <3>1
    <3>3. SendingsOf(k) \subseteq SendingsOf(j)
      <4>1. CASE j.req.open
        <5>1. SendingsOf(j) = j.req.try .. Attempts
          BY <3>1, <4>1
        <5>2. (j.req.try + 1) .. Attempts \subseteq j.req.try .. Attempts
          <6>1. j.req.try \in Nat
            BY <1>1
          <6> QED
            BY <6>1
        <5>3. QED
          BY <3>2, <5>1, <5>2
      <4>2. CASE ~ j.req.open
        BY <3>1, <3>2, <4>2
      <4>3. QED
        BY <4>1, <4>2
    <3>4. QED
      BY <1>5, <3>3 DEF Pairs
  <2>4. QED
    BY <2>2, <2>3
<1>6. QED
  BY <1>2, <1>3, <1>4, <1>5

\* A step that counts nothing and leaves nobody more sendings is a step of Forgo.
LEMMA ForgoStep ==
  ASSUME RunnerInv, RunnerInv', \A q \in Known : SameRow(q),
         \A m \in Product : quotas'[m].hits = quotas[m].hits,
         \A q \in TaskId : Pairs(job'[q]) \subseteq Pairs(job[q])
  PROVE  Lease!Forgo
<1>1. ASSUME NEW m \in Product PROVE Owed(m)' \subseteq Owed(m)
  <2> SUFFICES ASSUME NEW c \in Owed(m)' PROVE c \in Owed(m)
    OBVIOUS
  <2>1. PICK q \in TaskId : tasks'[q].mid = m /\ c \in Pairs(job'[q])
    BY OwedIs
  <2>2. c \in Pairs(job[q])
    BY <2>1
  <2>3. q \in Known
    BY <2>2, JobIs, PairsAre DEF RunnerInv, JobsHaveRows, Active
  <2>4. tasks[q].mid = m
    BY <2>1, <2>3 DEF SameRow
  <2>5. QED
    BY <2>2, <2>4, OwedIs
<1>2. \A m \in Product : Owed(m)' \subseteq Mains \X (1 .. Attempts)
  BY <1>1, OwedType
<1> DEFINE S == [m \in Product |-> Owed(m)']
<1>3. /\ S \in [Product -> SUBSET (Mains \X (1 .. Attempts))]
      /\ \A m \in Product : S[m] \subseteq [x \in Product |-> Owed(x)][m]
      /\ [x \in Product |-> Owed(x)]' = S
  BY <1>1, <1>2
<1>4. [x \in Product |-> quotas[x].hits]' = [x \in Product |-> quotas[x].hits]
  OBVIOUS
<1> HIDE DEF S
<1>5. QED
  BY <1>3, <1>4 DEF Lease!Forgo, Lease!Count, Mains

\* A step of one worker to k.
LEMMA OneShrinks ==
  ASSUME RunnerInv, NEW i \in TaskId, NEW k \in Job, job' = [job EXCEPT ![i] = k],
         Pairs(k) \subseteq Pairs(job[i])
  PROVE  \A q \in TaskId : Pairs(job'[q]) \subseteq Pairs(job[q])
<1>1. \A q \in TaskId : job'[q] = IF q = i THEN k ELSE job[q]
  BY JobIs
<1>2. QED
  BY <1>1

\* The answer that starts the workers of a batch grants their products.
LEMMA GrantLease ==
  ASSUME RunnerInv, RunnerInv', QuotasOfTheDay, Legacy \cap Product = {},
         NEW n \in Node, GrantStep(n)
  PROVE  Lease!Next
<1> DEFINE X == {m \in Product : \E i \in Added : tasks'[i].mid = m}
           main == <<n, life[n]>>
<1>1. /\ quotas' = quotas /\ Known' = Known \cup Added /\ Known \cap Added = {}
      /\ \A i \in Known : SameRow(i)
      /\ \A i \in Added : tasks'[i].mid \in Candidates
  <2>1. /\ TypeOK /\ RowsEndAtNextId /\ PhonesOf[n] \in Batches
        /\ ask[n].excluded \in SUBSET Mid /\ Allocate(PhonesOf[n], ask[n].excluded)
    BY PhonesAreBatches DEF RunnerInv, RunnerTypeOK, GrantStep
  <2>2. QED
    BY <2>1, BatchRows
<1>2. ASSUME NEW x \in X PROVE quotas[x].hits < Target[x]
  <2>1. x \in Product /\ x \in Candidates
    BY <1>1
  <2>2. x \in Open
    BY <2>1 DEF Candidates
  <2>3. QED
    BY <2>1, <2>2 DEF Open, QuotasOfTheDay
<1>3. ASSUME NEW m, NEW a PROVE <<main, a>> \notin Owed(m)
  <2> SUFFICES ASSUME <<main, a>> \in Owed(m) PROVE FALSE
    OBVIOUS
  <2>1. PICK i \in TaskId : <<main, a>> \in Pairs(job[i])
    BY OwedIs
  <2>2. job[i].st \in Active /\ <<job[i].node, job[i].life>> = main
    BY <2>1, JobIs, PairsAre
  <2>3. Own(i) /\ job[i].node = n
    BY <2>2 DEF Own
  <2>4. QED
    BY <2>2, <2>3 DEF RunnerInv, JobsAreOfACycle, GrantStep
<1>4. ASSUME NEW i \in TaskId
      PROVE  /\ i \in Added => Pairs(job[i]) = {} /\ Pairs(job'[i]) = {main} \X (1 .. Attempts)
             /\ i \notin Added => job'[i] = job[i]
             /\ i \notin Known => Pairs(job[i]) = {}
  <2>1. i \notin Known => Pairs(job[i]) = {}
    BY DEF RunnerInv, JobsHaveRows, Pairs, SendingsOf
  <2>2. ASSUME i \in Added PROVE job'[i].st = "running" /\ <<job'[i].node, job'[i].life>> = main
    BY <2>2 DEF GrantStep, NoJob
  <2>3. ASSUME i \in Added PROVE Pairs(job'[i]) = {main} \X (1 .. Attempts)
    BY <2>2, <2>3 DEF Pairs, SendingsOf
  <2>4. i \notin Added => job'[i] = job[i]
    BY DEF GrantStep
  <2>5. QED
    BY <1>1, <2>1, <2>3, <2>4
<1>5. ASSUME NEW m \in Product
      PROVE  Owed(m)' = IF m \in X THEN Owed(m) \cup ({main} \X (1 .. Attempts)) ELSE Owed(m)
  <2>1. ASSUME NEW c \in Owed(m)'
        PROVE  c \in Owed(m) \/ (m \in X /\ c \in {main} \X (1 .. Attempts))
    <3>1. PICK q \in TaskId : tasks'[q].mid = m /\ c \in Pairs(job'[q])
      BY <2>1, OwedIs
    <3>2. CASE q \in Added
      BY <1>4, <3>1, <3>2
    <3>3. CASE q \notin Added
      <4>1. c \in Pairs(job[q]) /\ q \in Known
        BY <1>4, <3>1, <3>3
      <4>2. tasks[q].mid = m
        BY <1>1, <3>1, <4>1 DEF SameRow
      <4>3. QED
        BY <4>1, <4>2, OwedIs
    <3>4. QED
      BY <3>2, <3>3
  <2>2. ASSUME NEW c \in Owed(m) PROVE c \in Owed(m)'
    <3>1. PICK q \in TaskId : tasks[q].mid = m /\ c \in Pairs(job[q])
      BY <2>2, OwedIs
    <3>2. q \in Known /\ q \notin Added
      BY <1>4, <3>1
    <3>3. tasks'[q].mid = m /\ c \in Pairs(job'[q])
      BY <1>1, <1>4, <3>1, <3>2 DEF SameRow
    <3>4. QED
      BY <3>3, OwedIs
  <2>3. ASSUME m \in X, NEW c \in {main} \X (1 .. Attempts) PROVE c \in Owed(m)'
    <3>1. PICK q \in Added : tasks'[q].mid = m
      BY <2>3
    <3>2. q \in TaskId /\ c \in Pairs(job'[q])
      BY <1>4, <2>3 DEF Added
    <3>3. QED
      BY <3>1, <3>2, OwedIs
  <2>4. QED
    BY <2>1, <2>2, <2>3
<1>6. X \in SUBSET Product
  OBVIOUS
<1>7. main \in Mains
  BY DEF RunnerInv, RunnerTypeOK, Mains
<1> HIDE DEF X, main
<1>8. Lease!Grant(main, X)
  <2>1. \A x \in X : /\ [m \in Product |-> quotas[m].hits][x] < [m \in Product |-> Target[m]][x]
                     /\ \A a \in 1 .. Attempts : <<main, a>> \notin [m \in Product |-> Owed(m)][x]
    BY <1>2, <1>3, <1>6
  <2>2. [m \in Product |-> Owed(m)]' =
           [x \in Product |-> IF x \in X THEN [m \in Product |-> Owed(m)][x] \cup ({main} \X (1 .. Attempts))
                                         ELSE [m \in Product |-> Owed(m)][x]]
    BY <1>5
  <2>3. [m \in Product |-> quotas[m].hits]' = [m \in Product |-> quotas[m].hits]
    BY <1>1
  <2>4. QED
    BY <2>1, <2>2, <2>3 DEF Lease!Grant
<1>9. QED
  BY <1>6, <1>7, <1>8 DEF Lease!Next, Mains

\* A report in time is a hit of QuotaLease, or forgoes the sending.
LEMMA CountLease ==
  ASSUME RunnerInv, RunnerInv', QuotasOfTheDay, NEW i \in TaskId, CountStep(i)
  PROVE  Lease!Next
<1>1. /\ \A q \in TaskId : SameRow(q)
      /\ \A x \in Mid : quotas'[x] = IF x = tasks[i].mid /\ job[i].outcome = "SUCCESS"
                                   THEN Hit(quotas[x]) ELSE quotas[x]
  <2>1. /\ TypeOK /\ RowsEndAtNextId /\ i \in Known
        /\ Report(i, job[i].outcome, tasks[i].device)
    BY CountedRow
  <2>2. QED
    BY <2>1, ReportRows
<1>2. PICK k \in Job : /\ job' = [job EXCEPT ![i] = k]
                       /\ k.node = job[i].node /\ k.outcome = job[i].outcome
                       /\ \/ k.st = "acked"
                          \/ /\ k.st = "reporting" /\ k.req = Served(job[i].req)
                             /\ k.life = job[i].life
  BY DEF CountStep
<1>3. job[i] \in Job /\ job[i].st = "reporting" /\ job[i].req.open
  BY JobIs DEF CountStep
<1>4. Pairs(k) \subseteq Pairs(job[i])
  BY <1>2, <1>3, PairsShrink
<1>5. \A q \in TaskId : Pairs(job'[q]) \subseteq Pairs(job[q])
  BY <1>2, <1>4, OneShrinks
<1>6. CASE ~ (job[i].outcome = "SUCCESS" /\ tasks[i].mid \in Product)
  <2>1. \A x \in Product : quotas'[x].hits = quotas[x].hits
    BY <1>1, <1>6, CatalogueAssumption
  <2>2. \A q \in Known : SameRow(q)
    BY <1>1 DEF Known
  <2>3. Lease!Forgo
    BY <1>5, <2>1, <2>2, ForgoStep
  <2>4. QED
    BY <2>3 DEF Lease!Next
<1>7. ASSUME NEW m \in Product, m = tasks[i].mid, job[i].outcome = "SUCCESS",
             NEW c, c = <<Main(i), job[i].req.try>>
      PROVE  Lease!Next
  <2>1. job[i].req.try \in 1 .. Attempts
    BY <1>3, Requests
  <2>2. c \in Pairs(job[i])
    <3>1. SendingsOf(job[i]) = job[i].req.try .. Attempts
      BY <1>3, <1>7 DEF SendingsOf
    <3>2. job[i].req.try \in job[i].req.try .. Attempts
      BY <2>1
    <3>3. QED
      BY <1>7, <3>1, <3>2 DEF Pairs, Main
  <2>3. c \notin Pairs(k)
    <3>1. CASE k.st = "acked"
      BY <3>1 DEF Pairs, SendingsOf
    <3>2. CASE k.st = "reporting" /\ k.req = Served(job[i].req)
      <4>1. k.req.try = job[i].req.try /\ k.req.open = FALSE
        BY <1>3, <3>2, Requests
      <4>2. SendingsOf(k) = (job[i].req.try + 1) .. Attempts
        BY <1>2, <1>7, <3>2, <4>1 DEF SendingsOf
      <4>3. job[i].req.try \notin (job[i].req.try + 1) .. Attempts
        BY <2>1
      <4>4. QED
        BY <1>7, <4>2, <4>3 DEF Pairs
    <3>3. QED
      BY <1>2, <3>1, <3>2
  <2>4. \A q \in TaskId : job'[q] = IF q = i THEN k ELSE job[q]
    BY <1>2, JobIs
  <2>5. c \in Owed(m)
    BY <1>7, <2>2, OwedIs
  <2>6. c \notin Owed(m)'
    <3> SUFFICES ASSUME c \in Owed(m)' PROVE FALSE
      OBVIOUS
    <3>1. PICK q \in TaskId : tasks'[q].mid = m /\ c \in Pairs(job'[q])
      BY OwedIs
    <3>2. q # i /\ c \in Pairs(job[q])
      BY <2>3, <2>4, <3>1
    <3>3. job[q].st \in Active /\ Main(q) = Main(i)
      BY <1>7, <3>2, JobIs, PairsAre DEF Main
    <3>4. tasks[q].mid # tasks[i].mid
      BY <1>3, <3>2, <3>3 DEF RunnerInv, JobsAreApart, Active
    <3>5. QED
      BY <1>1, <1>7, <3>1, <3>4 DEF SameRow
  <2>7. Owed(m)' \subseteq Owed(m)
    <3> SUFFICES ASSUME NEW d \in Owed(m)' PROVE d \in Owed(m)
      OBVIOUS
    <3>1. PICK q \in TaskId : tasks'[q].mid = m /\ d \in Pairs(job'[q])
      BY OwedIs
    <3>2. QED
      BY <1>1, <1>5, <3>1, OwedIs DEF SameRow
  <2>8. ASSUME NEW x \in Product, x # m PROVE Owed(x)' = Owed(x)
    <3>1. ASSUME NEW d PROVE d \in Owed(x)' <=> d \in Owed(x)
      <4>1. ASSUME NEW q \in TaskId
            PROVE  (tasks'[q].mid = x /\ d \in Pairs(job'[q]))
                      <=> (tasks[q].mid = x /\ d \in Pairs(job[q]))
        <5>1. tasks'[q].mid = tasks[q].mid
          BY <1>1 DEF SameRow
        <5>2. CASE q = i
          BY <1>7, <2>8, <5>1, <5>2
        <5>3. CASE q # i
          <6>1. job'[q] = job[q]
            BY <2>4, <5>3
          <6>2. QED
            BY <5>1, <6>1
        <5>4. QED
          BY <5>2, <5>3
      <4>2. QED
        BY <4>1, OwedIs
    <3>2. QED
      BY <3>1
  <2>9. ASSUME NEW x \in Product
        PROVE  quotas'[x].hits = IF x = m THEN quotas[x].hits + 1 ELSE quotas[x].hits
    <3>1. x \in Mid /\ quotas[x] \in Quota /\ quotas[x].status # "NONE"
      BY CatalogueAssumption DEF RunnerInv, TypeOK, QuotasOfTheDay
    <3>2. Hit(quotas[x]).hits = quotas[x].hits + 1
      BY <3>1 DEF Hit, Quota
    <3>3. QED
      BY <1>1, <1>7, <3>1, <3>2
  <2>10. Lease!Hit(m)
    <3> DEFINE owed == [x \in Product |-> Owed(x)]
               S == Owed(m)'
    <3>1. c \in owed[m] /\ S \in SUBSET owed[m] /\ c \notin S
      BY <1>7, <2>5, <2>6, <2>7
    <3>2. owed' = [owed EXCEPT ![m] = S]
      BY <1>7, <2>8
    <3>3. [x \in Product |-> quotas[x].hits]' = [[x \in Product |-> quotas[x].hits] EXCEPT ![m] = @ + 1]
      BY <1>7, <2>9
    <3> HIDE DEF S
    <3>4. QED
      BY <3>1, <3>2, <3>3 DEF Lease!Hit
  <2>11. QED
    BY <1>7, <2>10 DEF Lease!Next
<1>8. QED
  BY <1>6, <1>7

\* Rows of the day are there all day, with their target.
LEMMA DayStep ==
  ASSUME RunnerInv, QuotasOfTheDay, [RunnerNext]_allVars
  PROVE  QuotasOfTheDay'
<1> SUFFICES ASSUME NEW m \in Product
             PROVE  quotas'[m].status # "NONE" /\ quotas'[m].target = Target[m]
  BY DEF QuotasOfTheDay
<1>1. m \in Mid /\ quotas[m] \in Quota /\ quotas[m].status # "NONE" /\ quotas[m].target = Target[m]
  BY CatalogueAssumption DEF RunnerInv, TypeOK, QuotasOfTheDay
<1>2. Hit(quotas[m]).status # "NONE" /\ Hit(quotas[m]).target = Target[m]
  BY <1>1 DEF Hit, Quota
<1>3. ASSUME NEW i \in TaskId, CountStep(i) \/ LateCountStep(i)
      PROVE  quotas'[m] = quotas[m] \/ quotas'[m] = Hit(quotas[m])
  <2>1. /\ TypeOK /\ RowsEndAtNextId /\ i \in Known
        /\ Report(i, job[i].outcome, tasks[i].device)
    BY <1>3, CountedRow
  <2>2. QED
    BY <1>1, <2>1, ReportRows
<1>4. QED
  BY <1>1, <1>2, <1>3, RowsAreKept

\* Every step of runners and server is one of QuotaLease, or none.
LEMMA LeaseStep ==
  ASSUME RunnerInv, NoLateReport, QuotasOfTheDay, Legacy \cap Product = {}, [RunnerNext]_allVars
  PROVE  Lease!Next
<1>1. RunnerInv' /\ \A q \in Known : SameRow(q)
  BY RunnerInvStep, RowsAreKept
<1>2. ASSUME NEW n \in Node, GrantStep(n) PROVE Lease!Next
  BY <1>1, <1>2, GrantLease
<1>3. ASSUME NEW i \in TaskId, CountStep(i) PROVE Lease!Next
  BY <1>1, <1>3, CountLease
<1>4. ASSUME quotas' = quotas, \A q \in TaskId : Pairs(job'[q]) \subseteq Pairs(job[q])
      PROVE  Lease!Next
  BY <1>1, <1>4, ForgoStep DEF Lease!Next
<1>5. ASSUME NEW n \in Node, LoseStep(n) PROVE Lease!Next
  <2>1. /\ TypeOK /\ RowsEndAtNextId /\ PhonesOf[n] \in Batches
        /\ ask[n].excluded \in SUBSET Mid /\ Allocate(PhonesOf[n], ask[n].excluded)
    BY <1>5, PhonesAreBatches DEF RunnerInv, RunnerTypeOK, LoseStep
  <2>2. quotas' = quotas
    BY <2>1, BatchRows
  <2>3. QED
    BY <1>4, <1>5, <2>2 DEF LoseStep
<1>6. ASSUME NEW i \in TaskId, EndStep(i) \/ RepeatStep(i) PROVE Lease!Next
  <2>1. quotas' = quotas /\ job[i] \in Job
    BY <1>6, JobIs DEF EndStep, RepeatStep, vars
  <2>2. PICK k \in Job :
          /\ job' = [job EXCEPT ![i] = k]
          /\ \/ k.st \in {"fallback", "lost"}
             \/ /\ k.st = "reporting" /\ k.node = job[i].node /\ k.life = job[i].life
                /\ job[i].st = "running" /\ k.req = Fresh
             \/ /\ k.st = "reporting" /\ k.node = job[i].node /\ k.life = job[i].life
                /\ job[i].st = "reporting"
                /\ k.outcome = job[i].outcome /\ k.req = Again(job[i].req)
    BY <1>6 DEF EndStep, RepeatStep
  <2>3. Pairs(k) \subseteq Pairs(job[i])
    BY <2>1, <2>2, PairsShrink
  <2>4. QED
    BY <1>4, <2>1, <2>2, <2>3, OneShrinks
<1>7. CASE IdleStep
  <2>1. RunnerTypeOK'
    BY <1>1 DEF RunnerInv
  <2>2. ASSUME NEW q \in TaskId PROVE Pairs(job'[q]) \subseteq Pairs(job[q])
    <3>1. job[q] \in Job /\ job'[q] \in Job
      BY <2>1, JobIs DEF RunnerTypeOK, Job
    <3>2. job'[q] = job[q] \/ job'[q].st \in {"fallback", "acked", "lost"}
      BY <1>7 DEF IdleStep
    <3>3. QED
      BY <3>1, <3>2, PairsShrink
  <2>3. QED
    BY <1>4, <1>7, <2>2 DEF IdleStep
<1>8. \A i \in TaskId : ~ LateCountStep(i)
  BY DEF LateCountStep, NoLateReport
<1>9. QED
  BY <1>2, <1>3, <1>5, <1>6, <1>7, <1>8, StepKinds

\* Runners and server keep the day's quota the way QuotaLease says, when no
\* report arrives after its worker gave it up and the older catalogue has
\* products of its own.
THEOREM RunnerImplements ==
  ASSUME ~ Delays, Legacy \cap Product = {}
  PROVE  RunnerSpec => ImplementsLease
<1>1. RunnerInit => NoLateReport /\ QuotasOfTheDay /\ Lease!Init
  <2> SUFFICES ASSUME RunnerInit PROVE NoLateReport /\ QuotasOfTheDay /\ Lease!Init
    OBVIOUS
  <2>1. NoLateReport
    BY DEF RunnerInit, NoLateReport
  <2>2. \A m \in Product :
           quotas[m].hits = 0 /\ quotas[m].target = Target[m] /\ quotas[m].status = "IN_PROGRESS"
    BY CatalogueAssumption DEF RunnerInit, Init
  <2>3. QuotasOfTheDay
    BY <2>2 DEF QuotasOfTheDay
  <2>4. \A m \in Product : Owed(m) = {}
    <3>1. \A i \in TaskId : job[i].st \notin Active
      BY DEF RunnerInit, NoJob, Active
    <3>2. QED
      BY <3>1 DEF Owed
  <2>5. Lease!Init
    BY <2>2, <2>4 DEF Lease!Init
  <2>6. QED
    BY <2>1, <2>3, <2>5
<1>2. RunnerInv /\ NoLateReport /\ QuotasOfTheDay /\ [RunnerNext]_allVars
         => NoLateReport' /\ QuotasOfTheDay' /\ Lease!Next
  BY OnTimeStep, DayStep, LeaseStep
<1>3. QED
  BY <1>1, <1>2, RunnerInvariant, PTL DEF RunnerSpec, ImplementsLease, Lease!Spec

\* What QuotaLease proves of the promise, for the promise that is kept here.
Promise == INSTANCE QuotaLeaseProofs
    WITH Runner <- Node \X (1 .. MaxMains), Item <- Product, Goal <- [m \in Product |-> Target[m]],
         hits <- [m \in Product |-> quotas[m].hits],
         owed <- [m \in Product |-> Owed(m)]

\* The day's hits of a product exceed its target by less than the sendings that
\* all mains together, the killed ones with workers included, can have under way.
THEOREM RunnerOvershoot ==
  ASSUME ~ Delays, Legacy \cap Product = {}
  PROVE  RunnerSpec => [](\A m \in Product :
           quotas[m].hits <= Target[m] - 1 + Cardinality(Node) * MaxMains * Attempts)
<1>0. IsFiniteSet(Mains) /\ Cardinality(Mains) = Cardinality(Node) * MaxMains
  <2>1. 1 \in Int /\ MaxMains \in Int /\ MaxMains \in Nat /\ IsFiniteSet(Node)
    OBVIOUS
  <2>2. IsFiniteSet(1 .. MaxMains) /\ Cardinality(1 .. MaxMains) = MaxMains
    BY <2>1, FS_Interval
  <2>3. QED
    BY <2>1, <2>2, FS_Product DEF Mains
<1>1. Promise!LeaseAssumption
  <2>1. Promise!IsFiniteSet(Node \X (1 .. MaxMains))
    <3>1. IsFiniteSet(Node \X (1 .. MaxMains))
      BY <1>0 DEF Mains
    <3>2. QED
      BY <3>1 DEF IsFiniteSet, Promise!IsFiniteSet
  <2>2. [m \in Product |-> Target[m]] \in [Product -> Nat]
    BY CatalogueAssumption
  <2>3. Node \X (1 .. MaxMains) # {}
    <3>1. PICK n \in Node : TRUE
      OBVIOUS
    <3>2. <<n, 1>> \in Node \X (1 .. MaxMains)
      OBVIOUS
    <3>3. QED
      BY <3>2
  <2>4. QED
    BY <2>1, <2>2, <2>3 DEF Promise!LeaseAssumption
<1>2. Promise!Spec => []Promise!OvershootIsBounded
  BY <1>1, Promise!LeaseOvershoot
<1>3. Lease!Init => Promise!Init
  BY DEF Lease!Init, Promise!Init
<1>4. Lease!Next => Promise!Next
  BY DEF Lease!Next, Promise!Next, Lease!Grant, Promise!Grant, Lease!Hit, Promise!Hit,
     Lease!Forgo, Promise!Forgo, Lease!Count, Promise!Count
<1>5. UNCHANGED Lease!leaseVars => UNCHANGED Promise!leaseVars
  BY DEF Lease!leaseVars, Promise!leaseVars
<1>6. Promise!OvershootIsBounded => \A m \in Product :
           quotas[m].hits <= Target[m] - 1 + Cardinality(Node) * MaxMains * Attempts
  <2>1. Promise!Cardinality(Node \X (1 .. MaxMains)) = Cardinality(Node \X (1 .. MaxMains))
    BY Zenon DEF Cardinality, Promise!Cardinality
  <2>2. Cardinality(Node \X (1 .. MaxMains)) = Cardinality(Node) * MaxMains
    BY <1>0 DEF Mains
  <2>3. QED
    BY <2>1, <2>2 DEF Promise!OvershootIsBounded
<1>7. QED
  BY <1>2, <1>3, <1>4, <1>5, <1>6, RunnerImplements, PTL
     DEF ImplementsLease, Lease!Spec, Promise!Spec

=============================================================================
