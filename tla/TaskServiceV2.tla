--------------------------- MODULE TaskServiceV2 ---------------------------
(***************************************************************************)
(* The second generation of the task API, api/services/task_service_v2.py: *)
(* POST allocate gives a batch of phones one product and one token each,   *)
(* POST report records how a task ended and counts the day's hits.         *)
(***************************************************************************)
EXTENDS TaskTables

CONSTANTS
    Legacy,            \* active rows of nshop_list, the older catalogue
    Dedicated,         \* products whose target_group is not ALL
    Site,              \* partner sites
    SitesOf,           \* sites with an active slot for each product
    GroupSites,        \* sites a phone's group is bound to, {} if to all
    StoreCooldown,     \* 80 minutes
    QuarantineWindow,  \* 60 minutes
    QuarantineFails    \* 5 failures

ASSUME ServiceAssumption ==
    /\ Legacy \subseteq Mid
    /\ Dedicated \subseteq Product
    /\ SitesOf \in [Mid -> SUBSET Site]
    /\ GroupSites \in [Device -> SUBSET Site]
    /\ StoreCooldown \in Nat /\ StoreCooldown < MaxAge
    /\ QuarantineWindow \in Nat /\ QuarantineWindow < MaxAge
    /\ QuarantineFails \in Nat \ {0}

-----------------------------------------------------------------------------

\* Products whose day is not over: no row of the day, or hits left in it.
OpenAtTarget == {m \in Product : \/ quotas[m].status = "NONE"     \* wrong: <=
                                 \/ quotas[m].hits <= quotas[m].target}
Open == {m \in Product : \/ quotas[m].status = "NONE"
                         \/ quotas[m].hits < quotas[m].target}

\* With no open product the older catalogue is used instead.
Candidates == IF Open # {} THEN Open ELSE Legacy

\* Shops with a success in the cooldown window.
Cooling == {tasks[i].store : i \in {j \in Known : /\ tasks[j].status = "SUCCESS"
                                                  /\ tasks[j].done <= StoreCooldown}} \ {None}

\* Tasks of m that ended with this status within the window.
Ended(m, st, window) ==
    {i \in Known : /\ tasks[i].mid = m
                   /\ tasks[i].status = st
                   /\ tasks[i].done <= window}

\* Products that only failed, and often, within the quarantine window.
Quarantined == {m \in Mid : /\ Ended(m, "SUCCESS", QuarantineWindow) = {}
                            /\ Cardinality(Ended(m, "FAILED", QuarantineWindow)) >= QuarantineFails}

\* The candidates a batch of n may use: the shop cooldown, then the server's
\* quarantine, is given up when too few products are left without it.  The
\* products the caller excludes are never used.
EligibleHealthy(n, excluded) == (Candidates \ excluded) \ Quarantined     \* wrong: no relaxation
Eligible(n, excluded) ==
    LET lenient == Candidates \ excluded
        healthy == lenient \ Quarantined
        strict  == {m \in healthy : StoreOf[m] \notin Cooling}
    IN IF Cardinality(strict) >= n THEN strict
       ELSE IF Cardinality(healthy) >= n THEN healthy
       ELSE lenient

\* Among the products left, phone d takes one of its group's sites, else one
\* open to all groups, else any.
PreferredByNone(d, left) == left                \* wrong: groups are not asked
Preferred(d, left) ==
    LET own    == {m \in left : SitesOf[m] \cap GroupSites[d] # {}}
        common == IF Open = {} THEN left ELSE left \ Dedicated
    IN IF own # {} THEN own ELSE IF common # {} THEN common ELSE left

\* The outcomes of shuffling pool and serving devs[1..k] in turn, each product
\* leaving the pool with the phone that takes it.
ProductPicksShared(devs, k, pool) ==            \* wrong: products stay in the pool
    {p \in [1 .. k -> pool] : \A n \in 1 .. k : p[n] \in Preferred(devs[n], pool)}
ProductPicks(devs, k, pool) ==
    {p \in [1 .. k -> pool] : \A n \in 1 .. k :
        p[n] \in Preferred(devs[n], pool \ {p[j] : j \in 1 .. (n - 1)})}

KeywordsFor(m) == IF exposed[m] = {} THEN {Title} ELSE exposed[m]

MinOf(a, b) == IF a <= b THEN a ELSE b

\* The requesting phones are registered as busy, whether or not they get a task.
MarkKnown(devs) ==                              \* wrong: only rows that are there
    devices' = [d \in Device |->
        IF devices[d] # "NONE" /\ \E n \in DOMAIN devs : devs[n] = d THEN "WORKING" ELSE devices[d]]
MarkWorking(devs) ==
    devices' = [d \in Device |->
        IF \E n \in DOMAIN devs : devs[n] = d THEN "WORKING" ELSE devices[d]]

\* allocate: devs is the list of phones of the request, excluded its
\* local_quarantine_mids.
Allocate(devs, excluded) ==
    \/ /\ Mature = {}
       /\ SweepOnly
       /\ UNCHANGED devices
    \/ /\ Mature # {}
       /\ MarkWorking(devs)
       /\ LET wanted == MinOf(Cardinality(Mature), Cardinality(DOMAIN devs))
              pool   == Eligible(wanted, excluded)
              k      == MinOf(wanted, Cardinality(pool))
          IN \/ pool = {} /\ SweepOnly
             \/ /\ pool # {}
                /\ nextId + k - 1 <= MaxTaskId     \* bound
                /\ \E mids \in ProductPicks(devs, k, pool), toks \in TokenPicks(k) :
                     \E kws \in [1 .. k -> Keyword \cup {Title}] :
                        /\ \A n \in 1 .. k : kws[n] \in KeywordsFor(mids[n])
                        /\ Insert(k, mids, kws, devs, toks)

-----------------------------------------------------------------------------

\* One hit is counted.  MariaDB evaluates the SET list from left to right, so
\* the CASE reads current_hits after it was incremented and adds one again.
HitTwice(q) ==                                  \* wrong: counted by two statements
    IF q.status = "NONE" THEN q ELSE [q EXCEPT !.hits = @ + 2]
Hit(q) ==
    IF q.status = "NONE" THEN q
    ELSE [q EXCEPT !.hits = @ + 1,
                   !.status = IF q.hits + 2 >= q.target THEN "COMPLETED" ELSE "IN_PROGRESS"]

\* DROPPED is a failure whose error_code is NOT_IN_PAGE1_DATA.
Outcome == {"SUCCESS", "FAILED", "DROPPED"}

\* report of task i by phone d.  The row is overwritten whatever its status;
\* the quota, the keyword and the phone are those of the row.  An unknown id
\* only changes the phone the report names.
Report(i, outcome, d) ==
    LET t    == tasks[i]
        row  == t.status # "NONE"
        dev  == IF row /\ t.device # None THEN t.device ELSE d
        done == IF outcome = "SUCCESS" THEN "SUCCESS" ELSE "FAILED"
    IN /\ tasks' = IF row THEN [tasks EXCEPT ![i] = [t EXCEPT !.status = done, !.done = 0]]
                   ELSE tasks
       /\ devices' = [x \in Device |->
            IF x = dev /\ devices[x] # "NONE" THEN "IDLE" ELSE devices[x]]
       /\ quotas' = [m \in Mid |->
            IF row /\ m = t.mid /\ outcome = "SUCCESS" THEN Hit(quotas[m]) ELSE quotas[m]]
       /\ exposed' = [m \in Mid |->
            IF row /\ m = t.mid /\ outcome = "DROPPED" THEN exposed[m] \ {t.kw} ELSE exposed[m]]
       /\ UNCHANGED <<nextId, nnbs, harvested>>

\* Midnight: the new date has no rows in daily_slot_quotas yet.
Midnight ==
    /\ quotas' = [m \in Mid |-> NoQuota]
    /\ UNCHANGED <<tasks, nextId, nnbs, harvested, devices, exposed>>

=============================================================================
