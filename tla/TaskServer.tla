----------------------------- MODULE TaskServer -----------------------------
(***************************************************************************)
(* The task server alone: the v2 handlers called by clients that may do    *)
(* anything the API accepts.  A batch may be requested at any time, any    *)
(* task may be reported at any time, several times and with any outcome,   *)
(* as happens when requests are retried, delayed or sent by hand.          *)
(***************************************************************************)
EXTENDS TaskServiceV2

CONSTANTS
    MaxHits           \* bound: hits counted for one product

\* The lists of phones a request may name: connected phones, in any order.
Batches ==
    UNION {{s \in [1 .. n -> Device] : \A i, j \in 1 .. n : s[i] = s[j] => i = j} :
              n \in 1 .. Cardinality(Device)}

AnyAllocate == \E devs \in Batches, excluded \in SUBSET Mid : Allocate(devs, excluded)

AnyReport ==
    \E i \in TaskId, outcome \in Outcome, d \in Device :
        /\ \A m \in Mid : quotas[m].hits < MaxHits    \* bound
        /\ Report(i, outcome, d)

Next == Tick \/ HarvestToken \/ AnyAllocate \/ AnyReport \/ Midnight

Spec == Init /\ [][Next]_vars

\* Time passes, and the runners keep asking: their main loop requests a batch
\* in every cycle whatever happened in the one before.
Fairness == WF_vars(Tick) /\ WF_vars(AnyAllocate)

FairSpec == Spec /\ Fairness

-----------------------------------------------------------------------------

\* The lease holds: while a task is still ASSIGNED, no other task was handed
\* out later than TaskTimeout after it, because every allocation sweeps first.
NoOverdueBesideFresh ==
    \A i, j \in Known : tasks[i].status = "ASSIGNED" =>
        tasks[i].age <= tasks[j].age + TaskTimeout

\* The use counter of a token is the number of tasks it was handed out with:
\* the two tables are changed by different statements of one transaction.
TokenUseMatchesTasks ==
    \A t \in Token : nnbs[t].uses = Cardinality({i \in Known : tasks[i].token = t})

\* A token was at least MinAge old when each of its tasks was handed out.
MatureWhenUsed ==
    \A i \in Known : nnbs[tasks[i].token].age >= MinOf(MaxAge, tasks[i].age + MinAge)

\* No insert ever meets a row that is there.  With both generations of the API
\* rows have gaps: a v1 report of an id nobody handed out becomes a row with that
\* id, and the ids of later tasks must start after it.
RowsEndAtNextId == \A i \in Known : i < nextId

\* The inductive invariant behind the first three: moreover rows are numbered
\* without gaps from 1 on, so new rows replace none, and the token of every task
\* is a row of nnbs, so it ages with the task.
IdsAreContiguous == \A i \in TaskId : tasks[i].status # "NONE" <=> i < nextId
TokensAreRows    == \A i \in Known : tasks[i].token \in 1 .. harvested

IInv ==
    /\ TypeOK
    /\ IdsAreContiguous
    /\ TokensAreRows
    /\ NoOverdueBesideFresh
    /\ MatureWhenUsed
    /\ TokenUseMatchesTasks

\* Phones of one batch never share a product or a token: a product leaves the
\* pool with the phone that takes it, a token is listed once.
BatchIsOneToOne ==
    [][\A i, j \in TaskId :
          /\ i # j
          /\ tasks[i].status = "NONE" /\ tasks'[i].status = "ASSIGNED"
          /\ tasks[j].status = "NONE" /\ tasks'[j].status = "ASSIGNED"
          => /\ tasks'[i].mid # tasks'[j].mid
             /\ tasks'[i].token # tasks'[j].token
             /\ tasks'[i].device # tasks'[j].device]_vars

\* What a client reported is never undone by the sweep, and no task is ever
\* ASSIGNED again once it was settled.
SettledIsNotReopened ==
    [][\A i \in TaskId :
          /\ tasks[i].status \in {"SUCCESS", "FAILED"} =>
                tasks'[i].status \in {"SUCCESS", "FAILED"}
          /\ tasks[i].status = "TIMEOUT" => tasks'[i].status # "ASSIGNED"]_vars

\* The tasks a request of devs can get: one per phone and mature token.
Wanted(devs) == MinOf(Cardinality(Mature), Cardinality(DOMAIN devs))

\* m is of no site the group of the phone of task i is bound to.
ForeignFor(i, m) == SitesOf[m] \cap GroupSites[tasks'[i].device] = {}

\* A phone whose group is bound to sites gets a foreign product only when none of
\* its sites' products was left: every one that was eligible for this batch went
\* to a phone served before it.  A batch of one phone is no exception.
GroupIsServedFirst ==
    [][\A devs \in Batches, excluded \in SUBSET Mid :
          nextId' > nextId /\ Allocate(devs, excluded) =>
            \A i \in nextId .. (nextId' - 1) : ForeignFor(i, tasks'[i].mid) =>
              \A m \in Eligible(Wanted(devs), excluded) :
                 ForeignFor(i, m) \/ \E j \in nextId .. (i - 1) : tasks'[j].mid = m]_vars

\* Cooldown and quarantine never starve the phones ("시스템 고갈 원천 차단"): a batch has
\* a task for every phone, as far as mature tokens and candidates the caller did
\* not exclude go; a product that cools down or is quarantined is used before a
\* phone stays without one.
NeverStarved ==
    [][\A devs \in Batches, excluded \in SUBSET Mid :
          Allocate(devs, excluded) =>
            nextId' - nextId >= MinOf(Wanted(devs), Cardinality(Candidates \ excluded))]_vars

\* Every task that is handed out is settled: reported, or expired by the sweep
\* of a later request.
EveryTaskSettles ==
    \A i \in TaskId : tasks[i].status = "ASSIGNED" ~> tasks[i].status # "ASSIGNED"

-----------------------------------------------------------------------------

\* "목표치 도달 시 COMPLETED 자동 마감": a row is closed when it reached its target.
CompletedMeansReached ==
    \A m \in Mid : quotas[m].status = "COMPLETED" => quotas[m].hits >= quotas[m].target

=============================================================================
