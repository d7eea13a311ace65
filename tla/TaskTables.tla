----------------------------- MODULE TaskTables -----------------------------
(***************************************************************************)
(* The tables of the central task server that the two generations of its   *)
(* task API share, the passing of time, and the two database steps both    *)
(* generations start with: the sweep of overdue tasks and the choice of    *)
(* the identity tokens ("nnb" rows) a batch runs with.                     *)
(*                                                                         *)
(* Every handler of the API is one database transaction, so the modules    *)
(* that extend this one have one action per handler.                       *)
(*                                                                         *)
(* Times are kept as ages that stop growing at MaxAge.  The code only      *)
(* compares ages with fixed windows, all of them shorter than MaxAge, so   *)
(* an age of MaxAge stands for every longer one; it also stands for the    *)
(* NULL of a completed_at that was never set, which no window contains.    *)
(***************************************************************************)
EXTENDS Naturals, FiniteSets

CONSTANTS
    Mid,               \* product ids (nv_mid)
    Product,           \* active rows of target_products
    Store,             \* shop names
    StoreOf,           \* the shop of each product, None if it has no name
    Device,            \* phones
    MaxTaskId,         \* bound: ids the tasks table can hold
    MaxToken,          \* bound: ids the nnbs table can hold
    Keyword,           \* keywords of the pool
    None,              \* no value: a NULL or an absent column
    MaxAge,            \* ages saturate here
    TaskTimeout,       \* 30 minutes: age after which ASSIGNED is overdue
    MinAge,            \* 20 minutes: age a token must have to be used
    Target             \* target_hits of each product's row of the day

ASSUME BoundsAssumption ==
    /\ MaxTaskId \in Nat /\ MaxToken \in Nat
    /\ IsFiniteSet(Mid) /\ IsFiniteSet(Device)
ASSUME WindowAssumption ==
    /\ MaxAge \in Nat
    /\ TaskTimeout \in Nat /\ TaskTimeout < MaxAge
    /\ MinAge \in Nat /\ MinAge <= MaxAge
ASSUME CatalogueAssumption ==
    /\ Product \subseteq Mid
    /\ StoreOf \in [Mid -> Store \cup {None}]
    /\ Target \in [Mid -> Nat]

VARIABLES
    tasks,      \* tasks table: a row for every possible id, status NONE if absent
    nextId,     \* AUTO_INCREMENT of tasks
    nnbs,       \* nnbs table: use_count and age of every possible row
    harvested,  \* number of rows in nnbs
    devices,    \* devices.status, NONE if there is no row
    quotas,     \* today's row of daily_slot_quotas of each product
    exposed     \* product_keyword_pool: keywords with is_exposed = 1

vars == <<tasks, nextId, nnbs, harvested, devices, quotas, exposed>>

TaskId == 1 .. MaxTaskId
Token  == 1 .. MaxToken
Age    == 0 .. MaxAge

\* The product's name, searched for when its pool has no exposed keyword.
Title == "product_name"

TaskStatus   == {"NONE", "ASSIGNED", "SUCCESS", "FAILED", "TIMEOUT", "CANCELLED"}
DeviceStatus == {"NONE", "IDLE", "WORKING"}
QuotaStatus  == {"NONE", "IN_PROGRESS", "COMPLETED"}

Task  == [status : TaskStatus, mid : Mid \cup {None}, kw : Keyword \cup {Title, None},
          store : Store \cup {None}, token : Token \cup {0},
          device : Device \cup {None}, age : Age, done : Age]
Nnb   == [uses : Nat, age : Age]
Quota == [hits : Nat, target : Nat, status : QuotaStatus]

NoTask  == [status |-> "NONE", mid |-> None, kw |-> None, store |-> None,
            token |-> 0, device |-> None, age |-> 0, done |-> MaxAge]
NoQuota == [hits |-> 0, target |-> 0, status |-> "NONE"]

TypeOK ==
    /\ tasks \in [TaskId -> Task]
    /\ nextId \in Nat \ {0}
    /\ nnbs \in [Token -> Nnb]
    /\ harvested \in 0 .. MaxToken
    /\ devices \in [Device -> DeviceStatus]
    /\ quotas \in [Mid -> Quota]
    /\ exposed \in [Mid -> SUBSET Keyword]

-----------------------------------------------------------------------------

\* Ids of the rows that exist.
Known == {i \in TaskId : tasks[i].status # "NONE"}

Older(a) == IF a < MaxAge THEN a + 1 ELSE a

\* Time passes for every row.
Tick ==
    /\ tasks' = [i \in TaskId |->
         IF tasks[i].status = "NONE" THEN tasks[i]
         ELSE [tasks[i] EXCEPT !.age = Older(@), !.done = Older(@)]]
    /\ nnbs' = [t \in Token |->
         IF t <= harvested THEN [nnbs[t] EXCEPT !.age = Older(@)] ELSE nnbs[t]]
    /\ UNCHANGED <<nextId, harvested, devices, quotas, exposed>>

\* The pool daemon inserts a fresh token: use_count 0, created_at now.
HarvestToken ==
    /\ harvested < MaxToken
    /\ harvested' = harvested + 1
    /\ nnbs' = [nnbs EXCEPT ![harvested + 1] = [uses |-> 0, age |-> 0]]
    /\ UNCHANGED <<tasks, nextId, devices, quotas, exposed>>

\* Both allocate and assign first expire what is overdue.
OverdueInAnyState(t) == t.age > TaskTimeout     \* wrong: the status is not asked
Overdue(t) == t.status = "ASSIGNED" /\ t.age > TaskTimeout

SweptNever(t) == t                              \* wrong: nothing expires
SweptUnlisted(t) ==                             \* wrong: a status outside the ENUM
    IF Overdue(t) THEN [t EXCEPT !.status = "EXPIRED", !.done = 0] ELSE t
Swept(t) == IF Overdue(t) THEN [t EXCEPT !.status = "TIMEOUT", !.done = 0] ELSE t

SweepOnly ==
    /\ tasks' = [i \in TaskId |-> Swept(tasks[i])]
    /\ UNCHANGED <<nextId, nnbs, harvested, quotas, exposed>>

-----------------------------------------------------------------------------

\* Tokens old enough to be handed out.  A token's created_at grows with its
\* id, so ORDER BY use_count, created_at, id is the order by use_count and id.
MatureAtOnce == 1 .. harvested                  \* wrong: no age is asked
Mature == {t \in 1 .. harvested : nnbs[t].age >= MinAge}

Before(t, u) == \/ nnbs[t].uses < nnbs[u].uses
                \/ nnbs[t].uses = nnbs[u].uses /\ t < u

\* The first k mature tokens, in that order.
TokenPicks(k) ==
    {p \in [1 .. k -> Mature] :
        /\ \A i, j \in 1 .. k : i < j => Before(p[i], p[j])
        /\ \A t \in Mature : (\A i \in 1 .. k : p[i] # t)
                                => \A i \in 1 .. k : Before(p[i], t)}

\* The k tasks created together take the ids from nextId on.
NewIds(k) == nextId .. (nextId + k - 1)

\* The row of token t when the batch has taken toks[1..k].
UseForgotten(k, toks, t) ==                     \* wrong: set, not incremented
    IF \E n \in 1 .. k : toks[n] = t THEN [nnbs[t] EXCEPT !.uses = 1] ELSE nnbs[t]
UseCounted(k, toks, t) ==
    IF \E n \in 1 .. k : toks[n] = t THEN [nnbs[t] EXCEPT !.uses = @ + 1] ELSE nnbs[t]

\* Rows are inserted for mids[1..k] with devs and toks; every token used is
\* counted once.  Rows that are already there are swept.
Insert(k, mids, kws, devs, toks) ==
    /\ tasks' = [i \in TaskId |->
         IF i \in NewIds(k)
           THEN LET n == i - nextId + 1 IN
                [status |-> "ASSIGNED", mid |-> mids[n], kw |-> kws[n],
                 store |-> StoreOf[mids[n]], token |-> toks[n], device |-> devs[n],
                 age |-> 0, done |-> MaxAge]
           ELSE Swept(tasks[i])]
    /\ nextId' = nextId + k
    /\ nnbs' = [t \in Token |-> UseCounted(k, toks, t)]
    /\ UNCHANGED <<harvested, quotas, exposed>>

-----------------------------------------------------------------------------

\* The start of a day in operation: every active product has its row of the
\* day, the pool holds tokens from the days before, no task was handed out.
Init ==
    /\ tasks = [i \in TaskId |-> NoTask]
    /\ nextId = 1
    /\ harvested \in 0 .. MaxToken
    /\ nnbs = [t \in Token |->
         [uses |-> 0, age |-> IF t <= harvested THEN MaxAge ELSE 0]]
    /\ devices = [d \in Device |-> "NONE"]
    /\ quotas = [m \in Mid |->
         IF m \in Product
           THEN [hits |-> 0, target |-> Target[m], status |-> "IN_PROGRESS"]
           ELSE NoQuota]
    /\ exposed = [m \in Mid |-> Keyword]

=============================================================================
