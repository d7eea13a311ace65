---------------------------- MODULE PartnerSync ----------------------------
(***************************************************************************)
(* Where the day's targets come from: partner sites send their slots every *)
(* few minutes, and the server adds up the active slots of each product    *)
(* they name, up to a cap; administrators rebuild the tables.              *)
(*                                                                         *)
(* A synchronisation is one transaction.  It adds up what it wrote and     *)
(* what was committed when it read, and overwrites the totals when it      *)
(* commits.  Rows it holds make the others wait, which only orders the     *)
(* commits; one that is chosen to break a deadlock is rolled back.         *)
(***************************************************************************)
EXTENDS Integers, FiniteSets, Functions

CONSTANTS
    Site,         \* partner sites
    Mids,         \* number of products, in the order of the older catalogue
    Ids,          \* slot ids of the partners
    SlotHits,     \* hits_per_slot a partner may ask for
    Unit,         \* 20 hits, those of a slot an administrator makes
    Cap,          \* 100 hits
    MaxSlots,     \* slots a migration makes for a product at most
    MaxHits,      \* bound: hits of a product on a day
    MaxSyncs,     \* bound: synchronisations
    MaxNights,    \* bound: midnights
    MaxAdmin      \* bound: calls by administrators

ASSUME SyncAssumption ==
    /\ {Mids, Unit, Cap, MaxHits, MaxSyncs, MaxNights, MaxAdmin} \subseteq Nat
    /\ SlotHits \subseteq Nat
    /\ IsFiniteSet(Site) /\ IsFiniteSet(Ids)
    /\ MaxSlots \in 1 .. Cardinality(Site)

Mid    == 1 .. Mids
Absent == -1
None   == [m \in Mid |-> Absent]
NoHits == [m \in Mid |-> 0]
Day    == {"today", "tomorrow"}     \* days whose rows matter
Shift(d) == IF d = "tomorrow" THEN "today" ELSE "before"

\* Identities of slots: a partner's, SLOT-<mid> of a reset, SLOT-<n> of a migration.
Serials == 1 .. (Mids * MaxSlots)
Slot == Site \X ({"id"} \X Ids \cup {"mid"} \X Mid \cup {"n"} \X Serials)

VARIABLES
    slots,     \* external_slots: functions on a subset of Slot
    target,    \* daily_target_hits of target_products, or Absent
    quota,     \* target_hits of daily_slot_quotas on each day, or Absent
    hits,      \* current_hits of daily_slot_quotas on each day
    tx,        \* the open synchronisation of each site, or Idle
    doubt,     \* history: products whose total may not be that of their slots
    setFor,    \* history: the day with whose row each total was last set
    syncs, nights, admin

vars == <<slots, target, quota, hits, tx, doubt, setFor, syncs, nights, admin>>

Row  == [mid : Mid, hits : SlotHits \cup {Unit}, active : BOOLEAN]
Idle == [rows |-> <<>>, sum |-> <<>>, day |-> "today", dirty |-> {}]

\* rows, where those of `more' are inserted or replace the old ones.
Upsert(rows, more) == [k \in DOMAIN rows \cup DOMAIN more |->
                          IF k \in DOMAIN more THEN more[k] ELSE rows[k]]

Named(rows) == {rows[k].mid : k \in DOMAIN rows}

Active(rows, m) == {k \in DOMAIN rows : rows[k].mid = m /\ rows[k].active}

\* The sum of the active slots of m.
Total(rows, m) == SumFunction([k \in Active(rows, m) |-> rows[k].hits])

CappedNot(n) == n                 \* wrong: no cap
Capped(n) == IF n < Cap THEN n ELSE Cap

\* What a site adds up for m, having written its rows.
SummedBefore(rows, m) == Total(slots, m)             \* wrong: before it wrote them
Summed(rows, m) == Total(Upsert(slots, rows), m)

\* Products whose slots a change of rows touches.
Touched(more) == Named(more) \cup {slots[k].mid : k \in DOMAIN more \cap DOMAIN slots}

-----------------------------------------------------------------------------

\* sync_external_products: a site sends some of its slots for a day.
SyncReads(s) ==
    /\ tx[s] = Idle
    /\ syncs < MaxSyncs                             \* bound
    /\ syncs' = syncs + 1
    /\ \E ids \in SUBSET Ids \ {{}}, day \in Day :
       \E rows \in [{s} \X ({"id"} \X ids) -> {r \in Row : r.hits \in SlotHits}] :
          tx' = [tx EXCEPT ![s] =
                    [rows  |-> rows,
                     sum   |-> [m \in Named(rows) |-> Summed(rows, m)],
                     day   |-> day,
                     dirty |-> {}]]
    /\ UNCHANGED <<slots, target, quota, hits, doubt, setFor, nights, admin>>

\* A request without slots is refused.
SyncRefused(s) == tx[s] = Idle /\ UNCHANGED vars

\* Its rows and totals become visible; hits are counted on.  Only products it
\* named are added up again: one that lost a slot to another keeps its total.
SyncCommitsAnew(s) ==             \* wrong: the hits start again
    /\ tx[s] # Idle
    /\ LET t        == tx[s]
           mids     == DOMAIN t.sum
           total(m) == Capped(t.sum[m])
       IN /\ slots' = Upsert(slots, t.rows)
          /\ target' = [m \in Mid |-> IF m \in mids THEN total(m) ELSE target[m]]
          /\ quota' = [d \in Day |-> [m \in Mid |->
                          IF d = t.day /\ m \in mids THEN total(m) ELSE quota[d][m]]]
          /\ setFor' = [m \in Mid |-> IF m \in mids THEN t.day ELSE setFor[m]]
          /\ doubt' = (doubt \ mids) \cup (t.dirty \cap mids) \cup (Touched(t.rows) \ mids)
          /\ tx' = [x \in Site |-> IF x = s \/ tx[x] = Idle THEN Idle
                                   ELSE [tx[x] EXCEPT !.dirty = @ \cup Touched(t.rows)]]
          /\ hits' = [d \in Day |-> [m \in Mid |->
                         IF d = t.day /\ m \in mids THEN 0 ELSE hits[d][m]]]
    /\ UNCHANGED <<syncs, nights, admin>>
SyncCommitsElsewhere(s) ==        \* wrong: always today's row
    /\ tx[s] # Idle
    /\ LET t        == tx[s]
           mids     == DOMAIN t.sum
           total(m) == Capped(t.sum[m])
       IN /\ slots' = Upsert(slots, t.rows)
          /\ target' = [m \in Mid |-> IF m \in mids THEN total(m) ELSE target[m]]
          /\ quota' = [d \in Day |-> [m \in Mid |->
                          IF d = "today" /\ m \in mids THEN total(m) ELSE quota[d][m]]]
          /\ setFor' = [m \in Mid |-> IF m \in mids THEN t.day ELSE setFor[m]]
          /\ doubt' = (doubt \ mids) \cup (t.dirty \cap mids) \cup (Touched(t.rows) \ mids)
          /\ tx' = [x \in Site |-> IF x = s \/ tx[x] = Idle THEN Idle
                                   ELSE [tx[x] EXCEPT !.dirty = @ \cup Touched(t.rows)]]
    /\ UNCHANGED <<hits, syncs, nights, admin>>
SyncCommits(s) ==
    /\ tx[s] # Idle
    /\ LET t        == tx[s]
           mids     == DOMAIN t.sum
           total(m) == Capped(t.sum[m])
       IN /\ slots' = Upsert(slots, t.rows)
          /\ target' = [m \in Mid |-> IF m \in mids THEN total(m) ELSE target[m]]
          /\ quota' = [d \in Day |-> [m \in Mid |->
                          IF d = t.day /\ m \in mids THEN total(m) ELSE quota[d][m]]]
          /\ setFor' = [m \in Mid |-> IF m \in mids THEN t.day ELSE setFor[m]]
          /\ doubt' = (doubt \ mids) \cup (t.dirty \cap mids) \cup (Touched(t.rows) \ mids)
          /\ tx' = [x \in Site |-> IF x = s \/ tx[x] = Idle THEN Idle
                                   ELSE [tx[x] EXCEPT !.dirty = @ \cup Touched(t.rows)]]
    /\ UNCHANGED <<hits, syncs, nights, admin>>

\* Bad data, a lost connection, a deadlock: nothing happened.
SyncFails(s) ==
    /\ tx[s] # Idle
    /\ tx' = [tx EXCEPT ![s] = Idle]
    /\ UNCHANGED <<slots, target, quota, hits, doubt, setFor, syncs, nights, admin>>

\* report: a success is counted in the row of its day, if there is one.  Runners
\* name no day, which is today; a simulation reports for the day it simulates.
Hit(d, m) ==
    /\ quota[d][m] # Absent
    /\ hits[d][m] < MaxHits                         \* bound
    /\ hits' = [hits EXCEPT ![d][m] = @ + 1]
    /\ UNCHANGED <<slots, target, quota, tx, doubt, setFor, syncs, nights, admin>>

\* The first rows of a day are those made for it before.
Midnight ==
    /\ nights < MaxNights                           \* bound
    /\ nights' = nights + 1
    /\ quota' = [d \in Day |-> IF d = "today" THEN quota["tomorrow"] ELSE None]
    /\ hits' = [d \in Day |-> IF d = "today" THEN hits["tomorrow"] ELSE NoHits]
    /\ setFor' = [m \in Mid |-> Shift(setFor[m])]
    /\ tx' = [s \in Site |-> IF tx[s] = Idle THEN Idle
                             ELSE [tx[s] EXCEPT !.day = Shift(@)]]
    /\ UNCHANGED <<slots, target, doubt, syncs, admin>>

-----------------------------------------------------------------------------

\* Calls of administrators.  One that deletes the slots waits for the rows that
\* open synchronisations wrote.
Call  == admin < MaxAdmin /\ admin' = admin + 1     \* bound
Alone == \A s \in Site : tx[s] = Idle

\* simulate_day: a row of the day for every active product.  Its cycles then call
\* allocate and report, so what it simulates are hits of that row.
SimulateDay ==
    /\ Call
    /\ \E day \in Day :
          /\ quota' = [quota EXCEPT ![day] =
                          [m \in Mid |-> IF target[m] # Absent THEN target[m] ELSE @[m]]]
          /\ setFor' = [m \in Mid |-> IF target[m] # Absent /\ day = "today" THEN day
                                                                        ELSE setFor[m]]
    /\ UNCHANGED <<slots, target, hits, tx, doubt, syncs, nights>>

\* reset_and_replace_targets: one slot for each product of a new list.
ResetAndReplace ==
    /\ Call /\ Alone
    /\ \E list \in SUBSET Mid : \E at \in [list -> Site] :
          /\ slots' = [k \in {<<at[m], <<"mid", m>>>> : m \in list} |->
                          [mid |-> k[2][2], hits |-> Unit, active |-> TRUE]]
          /\ target' = [m \in Mid |-> IF m \in list THEN Capped(Unit) ELSE Absent]
          /\ quota' = [d \in Day |-> [m \in Mid |-> IF d = "today" THEN target'[m] ELSE Absent]]
    /\ hits' = [d \in Day |-> NoHits]
    /\ doubt' = {}
    /\ setFor' = [m \in Mid |-> "today"]
    /\ UNCHANGED <<tx, syncs, nights>>

\* The slots a migration makes, num[m] for product m (none: not in its catalogue):
\* numbered one after the other in the order of the catalogue, each of a product
\* at another site; a slot that exists keeps its product.
OneAfterTheOther(num) ==
    /\ UNION {num[m] : m \in Mid} = 1 .. Cardinality(UNION {num[m] : m \in Mid})
    /\ \A a, b \in Mid : a < b => \A i \in num[a], j \in num[b] : i < j

Made(old, num, at) ==
    LET keys(m)  == {<<at[i], <<"n", i>>>> : i \in num[m]}
        owner(k) == CHOOSE m \in Mid : k \in keys(m)
    IN [k \in UNION {keys(m) : m \in Mid} |->
           [mid    |-> IF k \in DOMAIN old THEN old[k].mid ELSE owner(k),
            hits   |-> Unit,
            active |-> TRUE]]

\* What both migrations write over old slots, totals and rows of the day.
MigrateOnto(old, totals, rows) ==
    \E num \in [Mid -> {S \in SUBSET Serials : Cardinality(S) <= MaxSlots}], at \in [Serials -> Site] :
       /\ OneAfterTheOther(num)
       /\ \A m \in Mid : \A i, j \in num[m] : at[i] = at[j] => i = j
       /\ LET made    == Made(old, num, at)
              onto(f) == [m \in Mid |-> IF num[m] = {} THEN f[m]
                                        ELSE Capped(Cardinality(num[m]) * Unit)]
              kept    == IF DOMAIN old \cap DOMAIN made = {} THEN {} ELSE Mid
          IN /\ slots' = Upsert(old, made)
             /\ target' = onto(totals)
             /\ quota' = [quota EXCEPT !["today"] = onto(rows)]
             /\ doubt' = kept \cup {m \in Mid : IF num[m] = {} THEN m \in doubt
                                                              ELSE m \in Named(old)}
       /\ setFor' = [m \in Mid |-> IF num[m] = {} THEN setFor[m] ELSE "today"]

\* migrate_from_nshop_list adds to the tables as they are;
\* enrich_from_underscore_nshop_list clears them, but for other days' rows.
Migrate ==
    /\ Call
    /\ \/ /\ MigrateOnto(slots, target, quota["today"])
          /\ tx' = [s \in Site |-> IF tx[s] = Idle THEN Idle ELSE [tx[s] EXCEPT !.dirty = Mid]]
          /\ UNCHANGED hits
       \/ /\ Alone /\ MigrateOnto(<<>>, None, None)
          /\ hits' = [hits EXCEPT !["today"] = NoHits]
          /\ UNCHANGED tx
    /\ UNCHANGED <<syncs, nights>>

-----------------------------------------------------------------------------

Init ==
    /\ slots = <<>>
    /\ target = None
    /\ quota = [d \in Day |-> None]
    /\ hits = [d \in Day |-> NoHits]
    /\ tx = [s \in Site |-> Idle]
    /\ doubt = {}
    /\ setFor = [m \in Mid |-> "before"]
    /\ syncs = 0 /\ nights = 0 /\ admin = 0

Next ==
    \/ \E s \in Site : SyncReads(s) \/ SyncRefused(s) \/ SyncCommits(s) \/ SyncFails(s)
    \/ \E d \in Day, m \in Mid : Hit(d, m)
    \/ Midnight \/ SimulateDay \/ ResetAndReplace \/ Migrate

Spec == Init /\ [][Next]_vars

-----------------------------------------------------------------------------

\* Types of the tables and of the open transactions.
TypeOK ==
    /\ DOMAIN slots \subseteq Slot /\ \A k \in DOMAIN slots : slots[k] \in Row
    /\ target \in [Mid -> {Absent} \cup 0 .. Cap]
    /\ quota \in [Day -> [Mid -> {Absent} \cup 0 .. Cap]]
    /\ hits \in [Day -> [Mid -> 0 .. MaxHits]]
    /\ \A s \in Site : /\ DOMAIN tx[s].rows \subseteq Slot
                       /\ DOMAIN tx[s].sum = Named(tx[s].rows)
    /\ doubt \subseteq Mid
    /\ setFor \in [Mid -> Day \cup {"before"}]

\* A product's target is what its active slots add up to, up to the cap, once a
\* synchronisation that names it has run with no other on its slots meanwhile,
\* and until a slot of it goes to another product.
TargetsMatchSlots ==
    \A m \in Mid \ doubt : target[m] # Absent => target[m] = Capped(Total(slots, m))

\* A product whose total was last set for today is open for just that total: the
\* day's row has it, also when partners send days in advance or over midnight.
TodayFollowsTarget ==
    \A m \in Mid : setFor[m] = "today" /\ target[m] # Absent =>
        quota["today"][m] = target[m]

\* Whatever partners send, and however their transactions overlap, no hit of a
\* day is lost; only a reset of the tables or midnight takes hits away.
HitsStay ==
    [][nights' = nights /\ admin' = admin =>
          \A d \in Day, m \in Mid : hits'[d][m] >= hits[d][m]]_vars

=============================================================================
