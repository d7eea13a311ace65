------------------------- MODULE PartnerSyncProofs -------------------------
(***************************************************************************)
(* Proofs about PartnerSync, for any sites, products and bounds: targets   *)
(* are what the active slots add up to, the day's rows follow them, and    *)
(* synchronisations lose no hit.                                           *)
(*                                                                         *)
(* The targets need an invariant of the open transactions: what a site has *)
(* added up is what will be right when it commits, but for products whose  *)
(* slots another commit has touched since (SumsAreFresh).  The day's rows  *)
(* need the rows made in advance (TomorrowFollowsTarget).                  *)
(***************************************************************************)
EXTENDS PartnerSync, SumTheorems

USE SyncAssumption

\* Shape of a transaction, and of all of them.
IsTx(t) ==
    /\ t = [rows |-> t.rows, sum |-> t.sum, day |-> t.day, dirty |-> t.dirty]
    /\ DOMAIN t.rows \subseteq Slot /\ \A k \in DOMAIN t.rows : t.rows[k] \in Row
    /\ DOMAIN t.sum = Named(t.rows) /\ \A m \in DOMAIN t.sum : t.sum[m] \in Nat
    /\ t.day \in Day \cup {"before"} /\ t.dirty \subseteq Mid

TxOK == DOMAIN tx = Site /\ \A s \in Site : IsTx(tx[s])

SumsAreFresh ==
    \A s \in Site : \A m \in DOMAIN tx[s].sum \ tx[s].dirty :
        tx[s].sum[m] = Total(Upsert(slots, tx[s].rows), m)

TomorrowFollowsTarget ==
    \A m \in Mid : setFor[m] = "tomorrow" /\ target[m] # Absent =>
        quota["tomorrow"][m] = target[m]

-----------------------------------------------------------------------------

LEMMA SerialsAreFinite == IsFiniteSet(Serials) /\ \A S \in SUBSET Serials : IsFiniteSet(S)
<1>1. Mids * MaxSlots \in Nat
  <2>1. MaxSlots \in Nat
    BY FS_CardinalityType
  <2>2. Mids \in Nat
    OBVIOUS
  <2>3. QED
    BY <2>1, <2>2
<1>2. IsFiniteSet(Serials)
  BY <1>1, FS_Interval DEF Serials
<1>3. QED
  BY <1>2, FS_Subset

LEMMA SlotsAreFinite == IsFiniteSet(Slot) /\ \A S \in SUBSET Slot : IsFiniteSet(S)
<1>1. IsFiniteSet({"id"} \X Ids) /\ IsFiniteSet({"mid"} \X Mid) /\ IsFiniteSet({"n"} \X Serials)
  <2>1. IsFiniteSet(Mid)
    BY FS_Interval DEF Mid
  <2>2. QED
    BY <2>1, SerialsAreFinite, FS_Singleton, FS_Product
<1>2. IsFiniteSet({"id"} \X Ids \cup {"mid"} \X Mid \cup {"n"} \X Serials)
  BY <1>1, FS_Union
<1>3. IsFiniteSet(Slot)
  BY <1>2, FS_Product DEF Slot, Serials
<1>4. QED
  BY <1>3, FS_Subset

LEMMA UpsertIs ==
  ASSUME NEW rows, NEW more
  PROVE  /\ DOMAIN Upsert(rows, more) = DOMAIN rows \cup DOMAIN more
         /\ \A k \in DOMAIN more : Upsert(rows, more)[k] = more[k]
         /\ \A k \in DOMAIN rows \ DOMAIN more : Upsert(rows, more)[k] = rows[k]
BY DEF Upsert

\* The total of a product depends on its active rows only.
LEMMA SameTotal ==
  ASSUME NEW a, NEW b, NEW m, Active(a, m) = Active(b, m),
         \A k \in Active(a, m) : a[k].hits = b[k].hits
  PROVE  Total(a, m) = Total(b, m)
BY DEF Total

\* Rows of other products do not change it.
LEMMA TotalOfOthers ==
  ASSUME NEW old, NEW more, NEW m, m \notin Named(more),
         \A k \in DOMAIN more \cap DOMAIN old : old[k].mid # m
  PROVE  Total(Upsert(old, more), m) = Total(old, m)
<1>1. \A k \in DOMAIN more : more[k].mid # m
  BY DEF Named
<1> DEFINE new == Upsert(old, more)
<1>2. Active(new, m) = Active(old, m)
  <2>1. /\ DOMAIN new = DOMAIN old \cup DOMAIN more
        /\ \A k \in DOMAIN more : new[k] = more[k]
        /\ \A k \in DOMAIN old \ DOMAIN more : new[k] = old[k]
    BY UpsertIs
  <2> HIDE DEF new
  <2>2. ASSUME NEW k, k \in Active(new, m) PROVE k \in Active(old, m)
    BY <1>1, <2>1, <2>2 DEF Active
  <2>3. ASSUME NEW k, k \in Active(old, m) PROVE k \in Active(new, m)
    BY <1>1, <2>1, <2>3 DEF Active
  <2>4. QED
    BY <2>2, <2>3
<1>3. \A k \in Active(old, m) : k \in DOMAIN old \ DOMAIN more
  BY <1>1 DEF Active
<1>4. \A k \in Active(old, m) : Upsert(old, more)[k] = old[k]
  BY <1>3, UpsertIs
<1>5. QED
  BY <1>2, <1>4, SameTotal

\* Nor do they change what a transaction makes of it.
LEMMA TotalBesideOthers ==
  ASSUME NEW old, NEW more, NEW rows, NEW m, m \notin Named(more),
         \A k \in DOMAIN more \cap DOMAIN old : old[k].mid # m
  PROVE  Total(Upsert(Upsert(old, more), rows), m) = Total(Upsert(old, rows), m)
<1> DEFINE a == Upsert(Upsert(old, more), rows)
           b == Upsert(old, rows)
<1>1. \A k \in DOMAIN more : more[k].mid # m
  BY DEF Named
<1>2. DOMAIN a = DOMAIN old \cup DOMAIN more \cup DOMAIN rows /\ DOMAIN b = DOMAIN old \cup DOMAIN rows
  BY DEF Upsert
<1>3. /\ \A k \in DOMAIN rows : a[k] = b[k]
      /\ \A k \in DOMAIN old \ (DOMAIN rows \cup DOMAIN more) : a[k] = b[k]
      /\ \A k \in DOMAIN more \ DOMAIN rows : a[k] = more[k]
      /\ \A k \in DOMAIN old \ DOMAIN rows : b[k] = old[k]
  BY DEF Upsert
<1> HIDE DEF a, b
<1>4. ASSUME NEW k, k \in Active(a, m) PROVE k \in Active(b, m) /\ a[k] = b[k]
  BY <1>1, <1>2, <1>3, <1>4 DEF Active
<1>5. ASSUME NEW k, k \in Active(b, m) PROVE k \in Active(a, m)
  BY <1>1, <1>2, <1>3, <1>5 DEF Active
<1>6. Active(a, m) = Active(b, m) /\ \A k \in Active(a, m) : a[k].hits = b[k].hits
  BY <1>4, <1>5
<1>7. Total(a, m) = Total(b, m)
  BY <1>6, SameTotal
<1>8. QED
  BY <1>7 DEF a, b

\* Totals are natural numbers, and equal hits multiply.
LEMMA TotalIsNat ==
  ASSUME NEW rows, DOMAIN rows \subseteq Slot, \A k \in DOMAIN rows : rows[k] \in Row, NEW m
  PROVE  Total(rows, m) \in Nat
<1> DEFINE f == [k \in Active(rows, m) |-> rows[k].hits]
<1>1. Active(rows, m) \subseteq DOMAIN rows
  BY DEF Active
<1>2. IsFiniteSet(Active(rows, m))
  BY <1>1, SlotsAreFinite
<1>3. \A k \in Active(rows, m) : f[k] \in Nat
  <2>1. \A r \in Row : r.hits \in Nat
    BY DEF Row
  <2>2. QED
    BY <1>1, <2>1
<1>4. SumFunctionOnSet(f, Active(rows, m)) \in Nat
  <2> HIDE DEF f
  <2>1. QED
    BY <1>2, <1>3, SumType
<1>5. QED
  BY <1>4 DEF Total, SumFunction

LEMMA TotalOfEqual ==
  ASSUME NEW rows, DOMAIN rows \subseteq Slot, NEW m, \A k \in Active(rows, m) : rows[k].hits = Unit
  PROVE  Total(rows, m) = Cardinality(Active(rows, m)) * Unit
<1> DEFINE f == [k \in Active(rows, m) |-> rows[k].hits]
<1>1. IsFiniteSet(Active(rows, m))
  BY SlotsAreFinite DEF Active
<1>2. \A k \in Active(rows, m) : f[k] = Unit
  OBVIOUS
<1>3. SumFunctionOnSet(f, Active(rows, m)) = Cardinality(Active(rows, m)) * Unit
  <2>1. Unit \in Nat
    OBVIOUS
  <2> HIDE DEF f
  <2>2. QED
    BY <1>1, <1>2, <2>1, SumOfEqual
<1>4. QED
  BY <1>3 DEF Total, SumFunction

LEMMA CappedIsBounded == Cap \in Nat /\ \A n \in Nat : Capped(n) \in 0 .. Cap
BY DEF Capped

Rows(rows) == DOMAIN rows \subseteq Slot /\ \A k \in DOMAIN rows : rows[k] \in Row

LEMMA UpsertTyped ==
  ASSUME NEW rows, NEW more, Rows(rows), Rows(more)
  PROVE  Rows(Upsert(rows, more))
BY UpsertIs DEF Rows, Upsert

LEMMA IdleIsTx == IsTx(Idle) /\ DOMAIN Idle.sum = {}
<1>1. Idle.rows = <<>> /\ Idle.sum = <<>> /\ Idle.day = "today" /\ Idle.dirty = {}
  BY DEF Idle
<1>2. DOMAIN <<>> = {}
  OBVIOUS
<1>3. Named(<<>>) = {}
  BY <1>2 DEF Named
<1>4. Idle = [rows |-> Idle.rows, sum |-> Idle.sum, day |-> Idle.day, dirty |-> Idle.dirty]
  BY DEF Idle
<1>5. QED
  BY <1>1, <1>2, <1>3, <1>4 DEF IsTx, Day

-----------------------------------------------------------------------------

\* Types.
Types == TypeOK /\ TxOK

LEMMA SyncReadsTypes ==
  ASSUME Types, NEW s \in Site, SyncReads(s)
  PROVE  Types'
<1> USE DEF Types
<1> DEFINE t(rows, day) == [rows  |-> rows, sum |-> [m \in Named(rows) |-> Summed(rows, m)],
                            day   |-> day, dirty |-> {}]
<1>1. PICK ids \in SUBSET Ids \ {{}}, day \in Day :
         \E rows \in [{s} \X ({"id"} \X ids) -> {r \in Row : r.hits \in SlotHits}] :
            tx' = [tx EXCEPT ![s] = t(rows, day)]
  BY DEF SyncReads
<1>0. PICK rows \in [{s} \X ({"id"} \X ids) -> {r \in Row : r.hits \in SlotHits}] :
         tx' = [tx EXCEPT ![s] = t(rows, day)]
  BY <1>1
<1>2. Rows(rows)
  <2>1. {s} \X ({"id"} \X ids) \subseteq Slot
    BY DEF Slot
  <2>2. QED
    BY <2>1 DEF Rows
<1>3. Rows(slots)
  BY DEF TypeOK, Rows
<1>4. \A m : Summed(rows, m) \in Nat
  BY <1>2, <1>3, UpsertTyped, TotalIsNat DEF Rows, Summed
<1>5. IsTx(t(rows, day))
  BY <1>2, <1>4 DEF IsTx, Rows
<1>6. TxOK'
  <2> HIDE DEF t
  <2>1. QED
    BY <1>0, <1>5 DEF TxOK
<1>7. TypeOK'
  <2>1. \A x \in Site : DOMAIN tx'[x].rows \subseteq Slot /\ DOMAIN tx'[x].sum = Named(tx'[x].rows)
    BY <1>6 DEF TxOK, IsTx
  <2>2. QED
    BY <2>1 DEF TypeOK, SyncReads
<1>8. QED
  BY <1>6, <1>7

\* Other transactions stay transactions when a commit makes products dirty.
LEMMA DirtyIsTx ==
  ASSUME NEW t, IsTx(t), NEW D, D \subseteq Mid
  PROVE  LET u == [t EXCEPT !.dirty = @ \cup D]
         IN IsTx(u) /\ u.rows = t.rows /\ u.sum = t.sum /\ u.day = t.day /\ u.dirty = t.dirty \cup D
<1> DEFINE u == [t EXCEPT !.dirty = @ \cup D]
<1>1. t = [rows |-> t.rows, sum |-> t.sum, day |-> t.day, dirty |-> t.dirty]
  BY DEF IsTx
<1>2. u = [rows |-> t.rows, sum |-> t.sum, day |-> t.day, dirty |-> t.dirty \cup D]
  BY <1>1
<1> HIDE DEF u
<1>3. u.rows = t.rows /\ u.sum = t.sum /\ u.day = t.day /\ u.dirty = t.dirty \cup D
  BY <1>2
<1>4. IsTx(u)
  BY <1>2, <1>3 DEF IsTx
<1>5. QED
  BY <1>3, <1>4 DEF u

LEMMA TouchedAreMids == ASSUME Types, NEW more, Rows(more) PROVE Touched(more) \subseteq Mid
BY DEF Types, TypeOK, Rows, Touched, Named, Row

LEMMA SyncCommitsTypes ==
  ASSUME Types, NEW s \in Site, SyncCommits(s)
  PROVE  Types'
<1> USE DEF Types
<1> DEFINE t == tx[s]
           total(m) == Capped(t.sum[m])
           mids == DOMAIN t.sum
<1>1. IsTx(t) /\ Rows(t.rows) /\ Touched(t.rows) \subseteq Mid
  BY TouchedAreMids DEF TxOK, IsTx, Rows
<1>2. mids \subseteq Mid /\ \A m \in mids : total(m) \in 0 .. Cap
  <2>1. mids \subseteq Mid
    BY <1>1 DEF IsTx, Named, Row
  <2>2. QED
    BY <1>1, <2>1, CappedIsBounded DEF IsTx
<1>3. TxOK'
  <2>1. \A x \in Site : IsTx(tx[x]) => IsTx([tx[x] EXCEPT !.dirty = @ \cup Touched(t.rows)])
    BY <1>1, DirtyIsTx
  <2>2. tx' = [x \in Site |-> IF x = s \/ tx[x] = Idle THEN Idle
                              ELSE [tx[x] EXCEPT !.dirty = @ \cup Touched(t.rows)]]
    BY DEF SyncCommits
  <2>3. QED
    BY <2>1, <2>2, IdleIsTx DEF TxOK
<1>4. Rows(slots')
  <2>1. slots' = Upsert(slots, t.rows)
    BY DEF SyncCommits
  <2>2. QED
    BY <1>1, <2>1, UpsertTyped DEF TypeOK, Rows
<1>5. target' \in [Mid -> {Absent} \cup 0 .. Cap]
  <2>1. target' = [m \in Mid |-> IF m \in mids THEN total(m) ELSE target[m]]
    BY DEF SyncCommits
  <2> HIDE DEF total, mids
  <2>2. QED
    BY <1>2, <2>1 DEF TypeOK
<1>6. quota' \in [Day -> [Mid -> {Absent} \cup 0 .. Cap]]
  <2>1. quota' = [d \in Day |-> [m \in Mid |->
                          IF d = t.day /\ m \in mids THEN total(m) ELSE quota[d][m]]]
    BY DEF SyncCommits
  <2> HIDE DEF total, mids
  <2>2. QED
    BY <1>2, <2>1 DEF TypeOK
<1>7. doubt' \subseteq Mid
  <2>1. doubt' = (doubt \ mids) \cup (t.dirty \cap mids) \cup (Touched(t.rows) \ mids)
    BY DEF SyncCommits
  <2>2. QED
    BY <1>1, <2>1 DEF TypeOK, IsTx
<1>8. setFor' \in [Mid -> Day \cup {"before"}]
  BY <1>1 DEF SyncCommits, TypeOK, IsTx
<1>9. \A x \in Site : DOMAIN tx'[x].rows \subseteq Slot /\ DOMAIN tx'[x].sum = Named(tx'[x].rows)
  BY <1>3 DEF TxOK, IsTx
<1>10. hits' = hits
  BY DEF SyncCommits
<1>11. QED
  BY <1>3, <1>4, <1>5, <1>6, <1>7, <1>8, <1>9, <1>10 DEF TypeOK, Rows

LEMMA NoHitsType == NoHits \in [Mid -> 0 .. MaxHits]
BY SyncAssumption DEF NoHits

LEMMA MidnightTypes ==
  ASSUME Types, Midnight
  PROVE  Types'
<1> USE DEF Types
<1>1. \A d : Shift(d) \in Day \cup {"before"}
  BY DEF Shift, Day
<1>2. ASSUME NEW t, IsTx(t) PROVE IsTx([t EXCEPT !.day = Shift(@)])
  <2> DEFINE u == [t EXCEPT !.day = Shift(@)]
  <2>1. u = [rows |-> t.rows, sum |-> t.sum, day |-> Shift(t.day), dirty |-> t.dirty]
    BY <1>2 DEF IsTx
  <2> HIDE DEF u
  <2>2. u.rows = t.rows /\ u.sum = t.sum /\ u.day = Shift(t.day) /\ u.dirty = t.dirty
    BY <2>1
  <2>3. IsTx(u)
    BY <1>1, <1>2, <2>1, <2>2 DEF IsTx
  <2>4. QED
    BY <2>3 DEF u
<1>3. TxOK'
  BY <1>2, IdleIsTx DEF Midnight, TxOK
<1>4. quota' \in [Day -> [Mid -> {Absent} \cup 0 .. Cap]]
  BY DEF Midnight, TypeOK, None, Day
<1>5. setFor' \in [Mid -> Day \cup {"before"}]
  BY <1>1 DEF Midnight, TypeOK
<1>6. hits' \in [Day -> [Mid -> 0 .. MaxHits]]
  BY NoHitsType DEF Midnight, TypeOK, Day
<1>7. \A x \in Site : DOMAIN tx'[x].rows \subseteq Slot /\ DOMAIN tx'[x].sum = Named(tx'[x].rows)
  BY <1>3 DEF TxOK, IsTx
<1>8. QED
  BY <1>3, <1>4, <1>5, <1>6, <1>7 DEF Midnight, TypeOK

LEMMA ResetTypes ==
  ASSUME Types, ResetAndReplace
  PROVE  Types'
<1> USE DEF Types
<1>1. PICK list \in SUBSET Mid : \E at \in [list -> Site] :
          /\ slots' = [k \in {<<at[m], <<"mid", m>>>> : m \in list} |->
                          [mid |-> k[2][2], hits |-> Unit, active |-> TRUE]]
          /\ target' = [m \in Mid |-> IF m \in list THEN Capped(Unit) ELSE Absent]
          /\ quota' = [d \in Day |-> [m \in Mid |-> IF d = "today" THEN target'[m] ELSE Absent]]
  BY DEF ResetAndReplace
<1>2. PICK at \in [list -> Site] :
          slots' = [k \in {<<at[m], <<"mid", m>>>> : m \in list} |->
                          [mid |-> k[2][2], hits |-> Unit, active |-> TRUE]]
  BY <1>1
<1>3. Rows(slots')
  <2>1. \A m \in list : <<at[m], <<"mid", m>>>> \in Slot
    BY DEF Slot
  <2>2. \A m \in list : [mid |-> m, hits |-> Unit, active |-> TRUE] \in Row
    BY DEF Row
  <2>3. QED
    BY <1>2, <2>1, <2>2 DEF Rows
<1>4. Capped(Unit) \in 0 .. Cap
  BY CappedIsBounded
<1>5. target' \in [Mid -> {Absent} \cup 0 .. Cap]
  BY <1>1, <1>4
<1>6. quota' \in [Day -> [Mid -> {Absent} \cup 0 .. Cap]]
  BY <1>1, <1>5
<1>7. hits' \in [Day -> [Mid -> 0 .. MaxHits]] /\ doubt' \subseteq Mid /\ setFor' \in [Mid -> Day \cup {"before"}]
  BY NoHitsType DEF ResetAndReplace, Day
<1>8. tx' = tx
  BY DEF ResetAndReplace
<1>9. QED
  BY <1>3, <1>5, <1>6, <1>7, <1>8 DEF TypeOK, TxOK, Rows

\* A migration's choice of slots, and what it makes of them.
Choice(num, at) ==
    /\ num \in [Mid -> {S \in SUBSET Serials : Cardinality(S) <= MaxSlots}]
    /\ at \in [Serials -> Site]
    /\ OneAfterTheOther(num)
    /\ \A m \in Mid : \A i, j \in num[m] : at[i] = at[j] => i = j

Onto(num, f) == [m \in Mid |-> IF num[m] = {} THEN f[m] ELSE Capped(Cardinality(num[m]) * Unit)]

Migration(old, totals, rows, num, at) ==
    /\ Choice(num, at)
    /\ slots' = Upsert(old, Made(old, num, at))
    /\ target' = Onto(num, totals)
    /\ quota' = [quota EXCEPT !["today"] = Onto(num, rows)]
    /\ doubt' = (IF DOMAIN old \cap DOMAIN Made(old, num, at) = {} THEN {} ELSE Mid)
                         \cup {m \in Mid : IF num[m] = {} THEN m \in doubt ELSE m \in Named(old)}
    /\ setFor' = [m \in Mid |-> IF num[m] = {} THEN setFor[m] ELSE "today"]

LEMMA MigrationIs ==
  ASSUME NEW old, NEW totals, NEW rows, MigrateOnto(old, totals, rows)
  PROVE  \E num, at : Migration(old, totals, rows, num, at)
<1>1. PICK num \in [Mid -> {S \in SUBSET Serials : Cardinality(S) <= MaxSlots}], at \in [Serials -> Site] :
       /\ OneAfterTheOther(num)
       /\ \A m \in Mid : \A i, j \in num[m] : at[i] = at[j] => i = j
       /\ slots' = Upsert(old, Made(old, num, at))
       /\ target' = Onto(num, totals)
       /\ quota' = [quota EXCEPT !["today"] = Onto(num, rows)]
       /\ doubt' = (IF DOMAIN old \cap DOMAIN Made(old, num, at) = {} THEN {} ELSE Mid)
                         \cup {m \in Mid : IF num[m] = {} THEN m \in doubt ELSE m \in Named(old)}
       /\ setFor' = [m \in Mid |-> IF num[m] = {} THEN setFor[m] ELSE "today"]
  BY Zenon DEF MigrateOnto, Onto
<1>2. Choice(num, at)
  BY Zenon, <1>1 DEF Choice
<1>3. Migration(old, totals, rows, num, at)
  BY Zenon, <1>1, <1>2 DEF Migration
<1>4. QED
  BY <1>3

LEMMA MadeRows ==
  ASSUME NEW old, Rows(old), NEW num, NEW at, Choice(num, at)
  PROVE  Rows(Made(old, num, at))
<1> DEFINE keys(m) == {<<at[i], <<"n", i>>>> : i \in num[m]}
           owner(k) == CHOOSE m \in Mid : k \in keys(m)
<1>1. \A m \in Mid : num[m] \subseteq Serials
  BY DEF Choice
<1>2. ASSUME NEW k, k \in UNION {keys(m) : m \in Mid}
      PROVE  k \in Slot /\ owner(k) \in Mid
  <2>1. PICK m \in Mid : k \in keys(m)
    BY <1>2
  <2>2. owner(k) \in Mid
    <3> HIDE DEF keys
    <3>1. QED
      BY <2>1
  <2>3. PICK i \in num[m] : k = <<at[i], <<"n", i>>>>
    BY <2>1
  <2>4. i \in Serials /\ at[i] \in Site
    BY <1>1 DEF Choice
  <2>5. k \in Slot
    BY <2>3, <2>4 DEF Slot
  <2>6. QED
    BY <2>2, <2>5
<1> HIDE DEF keys, owner
<1> DEFINE made == [k \in UNION {keys(m) : m \in Mid} |->
           [mid    |-> IF k \in DOMAIN old THEN old[k].mid ELSE owner(k),
            hits   |-> Unit,
            active |-> TRUE]]
<1>3. Made(old, num, at) = made
  BY DEF Made, made, keys, owner
<1>4. ASSUME NEW k \in DOMAIN made PROVE k \in Slot /\ made[k] \in Row
  <2>1. k \in UNION {keys(m) : m \in Mid}
    OBVIOUS
  <2>2. (IF k \in DOMAIN old THEN old[k].mid ELSE owner(k)) \in Mid
    BY <1>2, <2>1 DEF Rows, Row
  <2>3. QED
    BY <1>2, <2>1, <2>2 DEF Row
<1> HIDE DEF made
<1>5. QED
  BY <1>3, <1>4 DEF Rows

LEMMA OntoTyped ==
  ASSUME NEW num, NEW at, Choice(num, at), NEW f \in [Mid -> {Absent} \cup 0 .. Cap]
  PROVE  Onto(num, f) \in [Mid -> {Absent} \cup 0 .. Cap]
<1>1. ASSUME NEW m \in Mid PROVE Capped(Cardinality(num[m]) * Unit) \in 0 .. Cap
  <2>1. Cardinality(num[m]) \in Nat
    BY SerialsAreFinite, FS_CardinalityType DEF Choice
  <2>2. Unit \in Nat
    OBVIOUS
  <2>3. Cardinality(num[m]) * Unit \in Nat
    BY <2>1, <2>2
  <2>4. QED
    BY <2>3, CappedIsBounded
<1>2. QED
  BY <1>1 DEF Onto

LEMMA MigrateOntoTypes ==
  ASSUME Types, NEW old, Rows(old), NEW totals \in [Mid -> {Absent} \cup 0 .. Cap],
         NEW rows \in [Mid -> {Absent} \cup 0 .. Cap], MigrateOnto(old, totals, rows)
  PROVE  /\ Rows(slots')
         /\ target' \in [Mid -> {Absent} \cup 0 .. Cap]
         /\ quota' \in [Day -> [Mid -> {Absent} \cup 0 .. Cap]]
         /\ doubt' \subseteq Mid
         /\ setFor' \in [Mid -> Day \cup {"before"}]
<1>1. PICK num, at : Migration(old, totals, rows, num, at)
  BY MigrationIs
<1>0. Choice(num, at)
  BY <1>1 DEF Migration
<1>2. Rows(slots')
  BY <1>0, <1>1, MadeRows, UpsertTyped DEF Migration
<1>3. Onto(num, totals) \in [Mid -> {Absent} \cup 0 .. Cap] /\ Onto(num, rows) \in [Mid -> {Absent} \cup 0 .. Cap]
  BY <1>0, OntoTyped
<1>4. quota' \in [Day -> [Mid -> {Absent} \cup 0 .. Cap]]
  BY <1>1, <1>3 DEF Migration, Types, TypeOK, Day
<1>5. doubt' \subseteq Mid
  <2> DEFINE kept == IF DOMAIN old \cap DOMAIN Made(old, num, at) = {} THEN {} ELSE Mid
  <2>1. kept \subseteq Mid
    OBVIOUS
  <2> HIDE DEF kept
  <2>2. doubt' = kept \cup {m \in Mid : IF num[m] = {} THEN m \in doubt ELSE m \in Named(old)}
    BY <1>1 DEF Migration, kept
  <2>3. QED
    BY <2>1, <2>2
<1>6. setFor' \in [Mid -> Day \cup {"before"}]
  BY <1>1 DEF Migration, Types, TypeOK, Day
<1>7. QED
  BY <1>1, <1>2, <1>3, <1>4, <1>5, <1>6 DEF Migration

LEMMA MigrateTypes ==
  ASSUME Types, Migrate
  PROVE  Types'
<1> USE DEF Types
<1>1. Rows(slots) /\ quota["today"] \in [Mid -> {Absent} \cup 0 .. Cap]
  BY DEF TypeOK, Rows, Day
<1>2. Rows(<<>>) /\ None \in [Mid -> {Absent} \cup 0 .. Cap]
  BY DEF Rows, None
<1>3. /\ Rows(slots')
      /\ target' \in [Mid -> {Absent} \cup 0 .. Cap]
      /\ quota' \in [Day -> [Mid -> {Absent} \cup 0 .. Cap]]
      /\ doubt' \subseteq Mid
      /\ setFor' \in [Mid -> Day \cup {"before"}]
  <2>1. target \in [Mid -> {Absent} \cup 0 .. Cap]
    BY DEF TypeOK
  <2>2. CASE MigrateOnto(slots, target, quota["today"])
    BY <1>1, <2>1, <2>2, MigrateOntoTypes
  <2>3. CASE MigrateOnto(<<>>, None, None)
    BY <1>2, <2>3, MigrateOntoTypes
  <2>4. QED
    BY <2>2, <2>3 DEF Migrate
<1>4. hits' \in [Day -> [Mid -> 0 .. MaxHits]]
  BY NoHitsType DEF Migrate, TypeOK, Day
<1>5. TxOK'
  <2>1. CASE tx' = [s \in Site |-> IF tx[s] = Idle THEN Idle ELSE [tx[s] EXCEPT !.dirty = Mid]]
    <3>1. ASSUME NEW t, IsTx(t) PROVE IsTx([t EXCEPT !.dirty = Mid])
      <4>1. [t EXCEPT !.dirty = Mid] = [rows |-> t.rows, sum |-> t.sum, day |-> t.day, dirty |-> Mid]
        BY <3>1 DEF IsTx
      <4> DEFINE u == [t EXCEPT !.dirty = Mid]
      <4> HIDE DEF u
      <4>2. u = [rows |-> t.rows, sum |-> t.sum, day |-> t.day, dirty |-> Mid]
        BY <4>1 DEF u
      <4>3. u.rows = t.rows /\ u.sum = t.sum /\ u.day = t.day /\ u.dirty = Mid
        BY <4>2
      <4>4. IsTx(u)
        BY <3>1, <4>2, <4>3 DEF IsTx
      <4>5. QED
        BY <4>4 DEF u
    <3>2. QED
      BY <2>1, <3>1, IdleIsTx DEF TxOK
  <2>2. CASE tx' = tx
    BY <2>2 DEF TxOK
  <2>3. QED
    BY <2>1, <2>2 DEF Migrate
<1>6. \A x \in Site : DOMAIN tx'[x].rows \subseteq Slot /\ DOMAIN tx'[x].sum = Named(tx'[x].rows)
  BY <1>5 DEF TxOK, IsTx
<1>7. QED
  BY <1>3, <1>4, <1>5, <1>6 DEF TypeOK, Rows

LEMMA TypesStep ==
  ASSUME Types, [Next]_vars
  PROVE  Types'
<1> USE DEF Types
<1>1. CASE UNCHANGED vars
  BY <1>1 DEF vars, TypeOK, TxOK
<1>2. ASSUME NEW s \in Site, SyncReads(s) PROVE Types'
  BY <1>2, SyncReadsTypes
<1>3. ASSUME NEW s \in Site, SyncRefused(s) PROVE Types'
  BY <1>3 DEF SyncRefused, vars, TypeOK, TxOK
<1>4. ASSUME NEW s \in Site, SyncCommits(s) PROVE Types'
  BY <1>4, SyncCommitsTypes
<1>5. ASSUME NEW s \in Site, SyncFails(s) PROVE Types'
  <2>1. TxOK'
    BY <1>5, IdleIsTx DEF SyncFails, TxOK
  <2>2. \A x \in Site : DOMAIN tx'[x].rows \subseteq Slot /\ DOMAIN tx'[x].sum = Named(tx'[x].rows)
    BY <2>1 DEF TxOK, IsTx
  <2>3. QED
    BY <1>5, <2>1, <2>2 DEF SyncFails, TypeOK
<1>6. ASSUME NEW d \in Day, NEW m \in Mid, Hit(d, m) PROVE Types'
  <2>1. hits' \in [Day -> [Mid -> 0 .. MaxHits]]
    BY <1>6 DEF Hit, TypeOK
  <2>2. QED
    BY <1>6, <2>1 DEF Hit, TypeOK, TxOK
<1>7. CASE Midnight
  BY <1>7, MidnightTypes
<1>8. CASE SimulateDay
  <2>1. PICK day \in Day :
          /\ quota' = [quota EXCEPT ![day] =
                          [m \in Mid |-> IF target[m] # Absent THEN target[m] ELSE @[m]]]
          /\ setFor' = [m \in Mid |-> IF target[m] # Absent /\ day = "today" THEN day
                                                                        ELSE setFor[m]]
    BY <1>8 DEF SimulateDay
  <2>2. quota' \in [Day -> [Mid -> {Absent} \cup 0 .. Cap]]
    BY <2>1 DEF TypeOK
  <2>3. setFor' \in [Mid -> Day \cup {"before"}]
    BY <2>1 DEF TypeOK
  <2>4. QED
    BY <1>8, <2>2, <2>3 DEF SimulateDay, TypeOK, TxOK
<1>9. CASE ResetAndReplace
  BY <1>9, ResetTypes
<1>10. CASE Migrate
  BY <1>10, MigrateTypes
<1>11. QED
  BY <1>1, <1>2, <1>3, <1>4, <1>5, <1>6, <1>7, <1>8, <1>9, <1>10 DEF Next

LEMMA TypesInit == Init => Types
<1> SUFFICES ASSUME Init PROVE Types
  OBVIOUS
<1>1. TxOK
  BY IdleIsTx DEF Init, TxOK
<1>2. DOMAIN slots = {}
  BY DEF Init
<1>3. \A x \in Site : DOMAIN tx[x].rows \subseteq Slot /\ DOMAIN tx[x].sum = Named(tx[x].rows)
  BY <1>1 DEF TxOK, IsTx
<1>4. QED
  BY <1>1, <1>2, <1>3, NoHitsType DEF Init, Types, TypeOK, None, Day

\* The tables and transactions always hold what they are declared for: no total
\* and no row of a day exceeds the cap.
THEOREM SyncTypeOK == Spec => []TypeOK
<1>1. Init => Types
  BY TypesInit
<1>2. Types /\ [Next]_vars => Types'
  BY TypesStep
<1>3. QED
  BY <1>1, <1>2, PTL DEF Spec, Types

-----------------------------------------------------------------------------

\* Totals.
Totals == TargetsMatchSlots /\ SumsAreFresh

LEMMA IdleHasNoSum ==
  ASSUME NEW s \in Site, tx[s] = Idle
  PROVE  DOMAIN tx[s].sum = {}
BY IdleIsTx

LEMMA SyncReadsTotals ==
  ASSUME Types, Totals, NEW s \in Site, SyncReads(s)
  PROVE  Totals'
<1> DEFINE t(rows, day) == [rows  |-> rows, sum |-> [m \in Named(rows) |-> Summed(rows, m)],
                            day   |-> day, dirty |-> {}]
<1>1. \E rows, day : tx' = [tx EXCEPT ![s] = t(rows, day)]
  BY DEF SyncReads
<1>2. PICK rows, day : tx' = [tx EXCEPT ![s] = t(rows, day)]
  BY <1>1
<1>3. tx'[s].rows = rows /\ tx'[s].sum = [m \in Named(rows) |-> Summed(rows, m)]
  BY <1>2 DEF Types, TxOK
<1>4. \A x \in Site : x # s => tx'[x] = tx[x]
  BY <1>2 DEF Types, TxOK
<1>5. slots' = slots /\ target' = target /\ doubt' = doubt
  BY DEF SyncReads
<1>6. \A m \in DOMAIN tx'[s].sum : tx'[s].sum[m] = Total(Upsert(slots', tx'[s].rows), m)
  BY <1>3, <1>5 DEF Summed
<1>7. SumsAreFresh'
  BY <1>4, <1>5, <1>6 DEF Totals, SumsAreFresh
<1>8. QED
  BY <1>5, <1>7 DEF Totals, TargetsMatchSlots

\* A product none of whose slots a commit touches.
LEMMA Untouched ==
  ASSUME NEW more, NEW m, m \notin Touched(more)
  PROVE  m \notin Named(more) /\ \A k \in DOMAIN more \cap DOMAIN slots : slots[k].mid # m
BY DEF Touched

LEMMA SyncCommitsTotals ==
  ASSUME Types, Totals, NEW s \in Site, SyncCommits(s)
  PROVE  Totals'
<1> DEFINE t == tx[s]
           mids == DOMAIN t.sum
<1>1. /\ slots' = Upsert(slots, t.rows)
      /\ doubt' = (doubt \ mids) \cup (t.dirty \cap mids) \cup (Touched(t.rows) \ mids)
      /\ target' = [m \in Mid |-> IF m \in mids THEN Capped(t.sum[m]) ELSE target[m]]
      /\ tx' = [x \in Site |-> IF x = s \/ tx[x] = Idle THEN Idle
                               ELSE [tx[x] EXCEPT !.dirty = @ \cup Touched(t.rows)]]
  BY DEF SyncCommits
<1>2. TargetsMatchSlots'
  <2> SUFFICES ASSUME NEW m \in Mid, m \notin doubt', target'[m] # Absent
               PROVE  target'[m] = Capped(Total(slots', m))
    BY DEF TargetsMatchSlots
  <2>1. CASE m \in mids
    <3>1. t.sum[m] = Total(Upsert(slots, t.rows), m)
      BY <1>1, <2>1 DEF Totals, SumsAreFresh
    <3>2. QED
      BY <1>1, <2>1, <3>1
  <2>2. CASE m \notin mids
    <3>1. m \notin doubt /\ m \notin Touched(t.rows) /\ target'[m] = target[m]
      BY <1>1, <2>2
    <3>2. target[m] = Capped(Total(slots, m))
      BY <3>1 DEF Totals, TargetsMatchSlots
    <3>3. Total(Upsert(slots, t.rows), m) = Total(slots, m)
      BY <3>1, Untouched, TotalOfOthers
    <3>4. QED
      BY <1>1, <3>1, <3>2, <3>3
  <2>3. QED
    BY <2>1, <2>2
<1>3. SumsAreFresh'
  <2> SUFFICES ASSUME NEW x \in Site, NEW m \in DOMAIN tx'[x].sum, m \notin tx'[x].dirty
               PROVE  tx'[x].sum[m] = Total(Upsert(slots', tx'[x].rows), m)
    BY DEF SumsAreFresh
  <2>1. x # s /\ tx[x] # Idle
    BY <1>1, IdleIsTx
  <2>2. IsTx(t) /\ IsTx(tx[x]) /\ Touched(t.rows) \subseteq Mid
    BY TouchedAreMids DEF Types, TxOK, IsTx, Rows
  <2> DEFINE D == Touched(t.rows)
             u == [tx[x] EXCEPT !.dirty = @ \cup D]
  <2>3. u.rows = tx[x].rows /\ u.sum = tx[x].sum /\ u.dirty = tx[x].dirty \cup D
    BY <2>2, DirtyIsTx
  <2>4. tx'[x] = u
    BY <1>1, <2>1
  <2> HIDE DEF u
  <2>5. m \in DOMAIN tx[x].sum \ tx[x].dirty /\ m \notin Touched(t.rows)
    BY <2>3, <2>4
  <2>6. tx[x].sum[m] = Total(Upsert(slots, tx[x].rows), m)
    BY <2>5 DEF Totals, SumsAreFresh
  <2>7. Total(Upsert(Upsert(slots, t.rows), tx[x].rows), m) = Total(Upsert(slots, tx[x].rows), m)
    BY <2>5, Untouched, TotalBesideOthers
  <2>8. QED
    BY <1>1, <2>3, <2>4, <2>6, <2>7
<1>4. QED
  BY <1>2, <1>3 DEF Totals

LEMMA MidnightTotals ==
  ASSUME Types, Totals, Midnight
  PROVE  Totals'
<1>1. ASSUME NEW x \in Site
      PROVE  tx'[x].rows = tx[x].rows /\ tx'[x].sum = tx[x].sum /\ tx'[x].dirty = tx[x].dirty
  <2>1. CASE tx[x] = Idle
    BY <2>1 DEF Midnight
  <2>2. CASE tx[x] # Idle
    <3>1. tx'[x] = [tx[x] EXCEPT !.day = Shift(@)]
      BY <2>2 DEF Midnight
    <3>2. tx[x] = [rows |-> tx[x].rows, sum |-> tx[x].sum, day |-> tx[x].day, dirty |-> tx[x].dirty]
      BY DEF Types, TxOK, IsTx
    <3>3. tx'[x] = [rows |-> tx[x].rows, sum |-> tx[x].sum, day |-> Shift(tx[x].day), dirty |-> tx[x].dirty]
      BY <3>1, <3>2
    <3>4. QED
      BY <3>3
  <2>3. QED
    BY <2>1, <2>2
<1>2. slots' = slots /\ target' = target /\ doubt' = doubt
  BY DEF Midnight
<1>3. SumsAreFresh'
  BY <1>1, <1>2 DEF Totals, SumsAreFresh
<1>4. QED
  BY <1>2, <1>3 DEF Totals, TargetsMatchSlots

LEMMA ResetTotals ==
  ASSUME Types, Types', Totals, ResetAndReplace
  PROVE  Totals'
<1>1. PICK list \in SUBSET Mid : \E at \in [list -> Site] :
          /\ slots' = [k \in {<<at[m], <<"mid", m>>>> : m \in list} |->
                          [mid |-> k[2][2], hits |-> Unit, active |-> TRUE]]
          /\ target' = [m \in Mid |-> IF m \in list THEN Capped(Unit) ELSE Absent]
  BY DEF ResetAndReplace
<1>2. PICK at \in [list -> Site] :
          slots' = [k \in {<<at[m], <<"mid", m>>>> : m \in list} |->
                          [mid |-> k[2][2], hits |-> Unit, active |-> TRUE]]
  BY <1>1
<1>3. ASSUME NEW m \in list PROVE Total(slots', m) = Unit
  <2> DEFINE key == <<at[m], <<"mid", m>>>>
  <2>1. Active(slots', m) = {key}
    BY <1>2, <1>3 DEF Active
  <2>2. slots'[key].hits = Unit
    BY <1>2
  <2>3. DOMAIN slots' \subseteq Slot
    BY DEF Types, TypeOK
  <2>4. Total(slots', m) = Cardinality({key}) * Unit
    <3> HIDE DEF key
    <3>1. \A k \in Active(slots', m) : slots'[k].hits = Unit
      BY <2>1, <2>2
    <3>2. Total(slots', m) = Cardinality(Active(slots', m)) * Unit
      BY <2>3, <3>1, TotalOfEqual
    <3>3. QED
      BY <2>1, <3>2
  <2>5. Cardinality({key}) = 1 /\ Unit \in Nat
    BY FS_Singleton
  <2>6. QED
    BY <2>4, <2>5
<1>4. TargetsMatchSlots'
  BY <1>1, <1>3 DEF TargetsMatchSlots
<1>5. SumsAreFresh'
  <2>1. \A s \in Site : tx'[s] = tx[s] /\ tx[s] = Idle
    BY DEF ResetAndReplace, Alone
  <2>2. QED
    BY <2>1, IdleIsTx DEF SumsAreFresh
<1>6. QED
  BY <1>4, <1>5 DEF Totals

\* The keys a migration makes for a product.
KeysOf(num, at, m) == {<<at[i], <<"n", i>>>> : i \in num[m]}

\* No key is made for two products, and none twice.
LEMMA KeysOfOne ==
  ASSUME NEW num, NEW at, Choice(num, at), NEW m \in Mid
  PROVE  /\ \A n \in Mid : n # m => KeysOf(num, at, m) \cap KeysOf(num, at, n) = {}
         /\ IsFiniteSet(KeysOf(num, at, m))
         /\ Cardinality(KeysOf(num, at, m)) = Cardinality(num[m])
<1>1. \A n \in Mid : num[n] \subseteq Serials
  BY DEF Choice
<1>2. ASSUME NEW n \in Mid, n # m, NEW i \in num[m], NEW j \in num[n], i = j PROVE FALSE
  <2>1. m < n \/ n < m
    BY <1>2 DEF Mid
  <2>2. i < j \/ j < i
    BY <2>1 DEF Choice, OneAfterTheOther
  <2>3. i \in Int /\ j \in Int
    BY <1>1 DEF Serials
  <2>4. QED
    BY <1>2, <2>2, <2>3
<1>3. \A n \in Mid : n # m => KeysOf(num, at, m) \cap KeysOf(num, at, n) = {}
  BY <1>2 DEF KeysOf
<1> DEFINE f == [i \in num[m] |-> <<at[i], <<"n", i>>>>]
<1>4. f \in Bijection(num[m], KeysOf(num, at, m))
  <2>1. f \in [num[m] -> KeysOf(num, at, m)]
    BY DEF KeysOf
  <2>2. \A i, j \in num[m] : f[i] = f[j] => i = j
    OBVIOUS
  <2>3. \A k \in KeysOf(num, at, m) : \E i \in num[m] : f[i] = k
    BY DEF KeysOf
  <2> HIDE DEF f
  <2>4. QED
    BY <2>1, <2>2, <2>3 DEF Bijection, Injection, Surjection, IsInjective
<1>5. ExistsBijection(num[m], KeysOf(num, at, m))
  BY <1>4 DEF ExistsBijection
<1>6. IsFiniteSet(num[m])
  BY <1>1, SerialsAreFinite
<1>7. QED
  BY <1>3, <1>5, <1>6, FS_Bijection

LEMMA MadeIs ==
  ASSUME NEW old, NEW num, NEW at, Choice(num, at), DOMAIN old \cap DOMAIN Made(old, num, at) = {}
  PROVE  /\ \A k : k \in DOMAIN Made(old, num, at) <=> \E m \in Mid : k \in KeysOf(num, at, m)
         /\ \A m \in Mid : \A k \in KeysOf(num, at, m) :
               Made(old, num, at)[k] = [mid |-> m, hits |-> Unit, active |-> TRUE]
<1> DEFINE owner(k) == CHOOSE m \in Mid : k \in KeysOf(num, at, m)
           made == [k \in UNION {KeysOf(num, at, m) : m \in Mid} |->
              [mid    |-> IF k \in DOMAIN old THEN old[k].mid ELSE owner(k),
               hits   |-> Unit,
               active |-> TRUE]]
<1>1. Made(old, num, at) = made
  BY DEF Made, KeysOf
<1>2. \A k : k \in DOMAIN made <=> \E m \in Mid : k \in KeysOf(num, at, m)
  OBVIOUS
<1>3. ASSUME NEW m \in Mid, NEW k \in KeysOf(num, at, m) PROVE owner(k) = m
  <2>1. owner(k) \in Mid /\ k \in KeysOf(num, at, owner(k))
    OBVIOUS
  <2>2. QED
    BY <2>1, KeysOfOne
<1>4. ASSUME NEW m \in Mid, NEW k \in KeysOf(num, at, m)
      PROVE  made[k] = [mid |-> m, hits |-> Unit, active |-> TRUE]
  <2>1. k \in DOMAIN made /\ k \notin DOMAIN old
    BY <1>1, <1>2
  <2>2. owner(k) = m
    BY <1>3
  <2> HIDE DEF owner
  <2>3. QED
    BY <2>1, <2>2
<1>5. QED
  BY <1>1, <1>2, <1>4

LEMMA MigrateOntoTotals ==
  ASSUME Types', NEW old, Rows(old), NEW totals \in [Mid -> {Absent} \cup 0 .. Cap], NEW rows,
         \A m \in Mid \ doubt : totals[m] # Absent => totals[m] = Capped(Total(old, m)),
         MigrateOnto(old, totals, rows)
  PROVE  TargetsMatchSlots'
<1>1. PICK num, at : Migration(old, totals, rows, num, at)
  BY MigrationIs
<1> DEFINE made == Made(old, num, at)
<1>2. Choice(num, at) /\ slots' = Upsert(old, made) /\ target' = Onto(num, totals)
  BY <1>1 DEF Migration
<1> SUFFICES ASSUME NEW m \in Mid, m \notin doubt', target'[m] # Absent
             PROVE  target'[m] = Capped(Total(slots', m))
  BY DEF TargetsMatchSlots
<1>3. DOMAIN old \cap DOMAIN made = {}
  BY <1>1 DEF Migration
<1>4. IF num[m] = {} THEN m \notin doubt ELSE m \notin Named(old)
  BY <1>1 DEF Migration
<1>5. /\ \A k : k \in DOMAIN made <=> \E n \in Mid : k \in KeysOf(num, at, n)
      /\ \A n \in Mid : \A k \in KeysOf(num, at, n) :
            made[k] = [mid |-> n, hits |-> Unit, active |-> TRUE]
  BY Zenon, <1>2, <1>3, MadeIs
<1>6. \A k \in DOMAIN made : \E n \in Mid : k \in KeysOf(num, at, n) /\ made[k].mid = n /\ made[k].hits = Unit
                                            /\ made[k].active
  <2> HIDE DEF made
  <2> SUFFICES ASSUME NEW k \in DOMAIN made
               PROVE  \E n \in Mid : k \in KeysOf(num, at, n) /\ made[k].mid = n /\ made[k].hits = Unit
                                     /\ made[k].active
    OBVIOUS
  <2>1. PICK n \in Mid : k \in KeysOf(num, at, n)
    BY <1>5
  <2> DEFINE r == [mid |-> n, hits |-> Unit, active |-> TRUE]
  <2>2. made[k] = r
    BY <1>5, <2>1
  <2>3. r.mid = n /\ r.hits = Unit /\ r.active
    OBVIOUS
  <2> HIDE DEF r
  <2>4. QED
    BY Zenon, <2>1, <2>2, <2>3
<1> HIDE DEF made
<1>7. CASE num[m] = {}
  <2>1. KeysOf(num, at, m) = {}
    BY <1>7 DEF KeysOf
  <2>2. m \notin Named(made)
    BY <1>6, <2>1 DEF Named
  <2>3. Total(slots', m) = Total(old, m)
    BY <1>2, <1>3, <2>2, TotalOfOthers
  <2>4. target'[m] = totals[m]
    BY <1>2, <1>7 DEF Onto
  <2>5. QED
    BY <1>4, <1>7, <2>3, <2>4
<1>8. CASE num[m] # {}
  <2>1. \A k \in DOMAIN old : old[k].mid # m
    BY <1>4, <1>8 DEF Named
  <2>2. /\ DOMAIN slots' = DOMAIN old \cup DOMAIN made
        /\ \A k \in DOMAIN made : slots'[k] = made[k]
        /\ \A k \in DOMAIN old \ DOMAIN made : slots'[k] = old[k]
    <3> DEFINE new == Upsert(old, made)
    <3>1. /\ DOMAIN new = DOMAIN old \cup DOMAIN made
          /\ \A k \in DOMAIN made : new[k] = made[k]
          /\ \A k \in DOMAIN old \ DOMAIN made : new[k] = old[k]
      BY UpsertIs
    <3>2. slots' = new
      BY <1>2
    <3> HIDE DEF new
    <3>3. QED
      BY <3>1, <3>2
  <2>3. Active(slots', m) = KeysOf(num, at, m)
    <3>1. ASSUME NEW k, k \in Active(slots', m) PROVE k \in KeysOf(num, at, m)
      BY <1>6, <2>1, <2>2, <3>1 DEF Active
    <3>2. ASSUME NEW k, k \in KeysOf(num, at, m) PROVE k \in Active(slots', m)
      <4>1. k \in DOMAIN made
        BY <1>5, <3>2
      <4>2. made[k].mid = m /\ made[k].active
        <5>1. PICK n \in Mid : k \in KeysOf(num, at, n) /\ made[k].mid = n /\ made[k].active
          BY <1>6, <4>1
        <5>2. n = m
          BY <1>2, <3>2, <5>1, KeysOfOne
        <5>3. QED
          BY <5>1, <5>2
      <4>3. QED
        BY <2>2, <4>1, <4>2 DEF Active
    <3>3. QED
      BY <3>1, <3>2
  <2>4. \A k \in Active(slots', m) : slots'[k].hits = Unit
    BY <1>5, <1>6, <2>2, <2>3
  <2>5. DOMAIN slots' \subseteq Slot
    BY DEF Types, TypeOK
  <2>6. Total(slots', m) = Cardinality(KeysOf(num, at, m)) * Unit
    BY <2>3, <2>4, <2>5, TotalOfEqual
  <2>7. Cardinality(KeysOf(num, at, m)) = Cardinality(num[m])
    BY <1>2, KeysOfOne
  <2>8. target'[m] = Capped(Cardinality(num[m]) * Unit)
    BY <1>2, <1>8 DEF Onto
  <2>9. QED
    BY <2>6, <2>7, <2>8
<1>9. QED
  BY <1>7, <1>8

LEMMA MigrateTotals ==
  ASSUME Types, Types', Totals, Migrate
  PROVE  Totals'
<1>1. Rows(slots) /\ Rows(<<>>) /\ target \in [Mid -> {Absent} \cup 0 .. Cap]
  BY DEF Types, TypeOK, Rows
<1>2. None \in [Mid -> {Absent} \cup 0 .. Cap] /\ \A m \in Mid : None[m] = Absent
  BY DEF None
<1>3. \A m \in Mid \ doubt : target[m] # Absent => target[m] = Capped(Total(slots, m))
  BY DEF Totals, TargetsMatchSlots
<1>4. TargetsMatchSlots'
  <2>1. CASE MigrateOnto(slots, target, quota["today"])
    BY <1>1, <1>3, <2>1, MigrateOntoTotals
  <2>2. CASE MigrateOnto(<<>>, None, None)
    BY <1>1, <1>2, <2>2, MigrateOntoTotals
  <2>3. QED
    BY <2>1, <2>2 DEF Migrate
<1>5. SumsAreFresh'
  <2> SUFFICES ASSUME NEW s \in Site PROVE DOMAIN tx'[s].sum \subseteq tx'[s].dirty
    BY DEF SumsAreFresh
  <2>1. IsTx(tx'[s])
    BY DEF Types, TxOK
  <2>2. DOMAIN tx'[s].sum \subseteq Mid
    BY <2>1 DEF IsTx, Named, Row
  <2>3. tx'[s] = Idle \/ tx'[s] = [tx[s] EXCEPT !.dirty = Mid]
    BY DEF Migrate, Alone
  <2>4. CASE tx'[s] = [tx[s] EXCEPT !.dirty = Mid]
    <3>1. tx[s] = [rows |-> tx[s].rows, sum |-> tx[s].sum, day |-> tx[s].day, dirty |-> tx[s].dirty]
      BY DEF Types, TxOK, IsTx
    <3>2. tx'[s].dirty = Mid
      BY <2>4, <3>1
    <3>3. QED
      BY <2>2, <3>2
  <2>5. QED
    BY <2>3, <2>4, IdleIsTx
<1>6. QED
  BY <1>4, <1>5 DEF Totals

LEMMA TotalsStep ==
  ASSUME Types, Totals, [Next]_vars
  PROVE  Totals'
<1>1. Types'
  BY TypesStep
<1>2. CASE UNCHANGED <<slots, target, doubt, tx>>
  BY <1>2 DEF Totals, TargetsMatchSlots, SumsAreFresh
<1>3. ASSUME NEW s \in Site, SyncReads(s) PROVE Totals'
  BY <1>3, SyncReadsTotals
<1>4. ASSUME NEW s \in Site, SyncCommits(s) PROVE Totals'
  BY <1>4, SyncCommitsTotals
<1>5. ASSUME NEW s \in Site, SyncFails(s) PROVE Totals'
  <2>1. \A x \in Site : tx'[x] = tx[x] \/ tx'[x] = Idle
    BY <1>5 DEF SyncFails, Types, TxOK
  <2>2. slots' = slots /\ target' = target /\ doubt' = doubt
    BY <1>5 DEF SyncFails
  <2>3. QED
    BY <2>1, <2>2, IdleIsTx DEF Totals, TargetsMatchSlots, SumsAreFresh
<1>6. CASE Midnight
  BY <1>6, MidnightTotals
<1>7. CASE ResetAndReplace
  BY <1>1, <1>7, ResetTotals
<1>8. CASE Migrate
  BY <1>1, <1>8, MigrateTotals
<1>9. CASE SimulateDay
  BY <1>2, <1>9 DEF SimulateDay
<1>10. ASSUME NEW d \in Day, NEW m \in Mid, Hit(d, m) PROVE Totals'
  BY <1>2, <1>10 DEF Hit
<1>11. ASSUME NEW s \in Site, SyncRefused(s) PROVE Totals'
  BY <1>2, <1>11 DEF SyncRefused, vars
<1>12. CASE UNCHANGED vars
  BY <1>2, <1>12 DEF vars
<1>13. QED
  BY <1>3, <1>4, <1>5, <1>6, <1>7, <1>8, <1>9, <1>10, <1>11, <1>12 DEF Next

\* For any number of sites whose transactions overlap in any way, a product's
\* target is what its active slots add up to, up to the cap, but for the products
\* in doubt.
THEOREM SyncTargetsMatch == Spec => []TargetsMatchSlots
<1>1. Init => Types /\ Totals
  <2>1. Init => \A m \in Mid : target[m] = Absent
    BY DEF Init, None
  <2>2. Init => \A s \in Site : tx[s] = Idle
    BY DEF Init
  <2>3. QED
    BY <2>1, <2>2, TypesInit, IdleIsTx DEF Totals, TargetsMatchSlots, SumsAreFresh
<1>2. Types /\ Totals /\ [Next]_vars => Types' /\ Totals'
  BY TypesStep, TotalsStep
<1>3. QED
  BY <1>1, <1>2, PTL DEF Spec, Totals

-----------------------------------------------------------------------------

\* Days.
Days == TodayFollowsTarget /\ TomorrowFollowsTarget

LEMMA DaysStep ==
  ASSUME Types, Days, [Next]_vars
  PROVE  Days'
<1> USE DEF Days, TodayFollowsTarget, TomorrowFollowsTarget
<1>1. CASE UNCHANGED <<target, quota, setFor>>
  BY <1>1
<1>2. ASSUME NEW s \in Site, SyncCommits(s) PROVE Days'
  <2> DEFINE t == tx[s]
             mids == DOMAIN t.sum
  <2>1. /\ target' = [m \in Mid |-> IF m \in mids THEN Capped(t.sum[m]) ELSE target[m]]
        /\ quota' = [d \in Day |-> [m \in Mid |->
                       IF d = t.day /\ m \in mids THEN Capped(t.sum[m]) ELSE quota[d][m]]]
        /\ setFor' = [m \in Mid |-> IF m \in mids THEN t.day ELSE setFor[m]]
    BY <1>2 DEF SyncCommits
  <2>2. {"today", "tomorrow"} \subseteq Day
    BY DEF Day
  <2> HIDE DEF mids, t
  <2>3. QED
    BY <2>1, <2>2
<1>3. CASE Midnight
  <2>1. \A m \in Mid : quota'["today"][m] = quota["tomorrow"][m]
    BY <1>3 DEF Midnight, Day
  <2>2. \A m \in Mid : /\ setFor'[m] # "tomorrow"
                       /\ setFor'[m] = "today" => setFor[m] = "tomorrow"
    BY <1>3 DEF Midnight, Shift
  <2>3. target' = target
    BY <1>3 DEF Midnight
  <2>4. QED
    BY <2>1, <2>2, <2>3
<1>4. CASE SimulateDay
  <2>1. PICK day \in Day :
          /\ quota' = [quota EXCEPT ![day] =
                          [m \in Mid |-> IF target[m] # Absent THEN target[m] ELSE @[m]]]
          /\ setFor' = [m \in Mid |-> IF target[m] # Absent /\ day = "today" THEN day
                                                                        ELSE setFor[m]]
    BY <1>4 DEF SimulateDay
  <2>2. target' = target
    BY <1>4 DEF SimulateDay
  <2>3. \A m \in Mid : target[m] # Absent => quota'[day][m] = target[m]
    BY <2>1 DEF Types, TypeOK
  <2>4. \A d \in Day : d # day => quota'[d] = quota[d]
    BY <2>1 DEF Types, TypeOK
  <2>5. \A m \in Mid : target[m] # Absent =>
           IF day = "today" THEN setFor'[m] = "today" ELSE setFor'[m] = setFor[m]
    BY <2>1
  <2>6. {"today", "tomorrow"} \subseteq Day
    BY DEF Day
  <2>7. QED
    BY <2>2, <2>3, <2>4, <2>5, <2>6
<1>5. CASE ResetAndReplace
  <2>1. \A m \in Mid : quota'["today"][m] = target'[m] /\ setFor'[m] = "today"
    BY <1>5 DEF ResetAndReplace, Day
  <2>2. QED
    BY <2>1
<1>6. CASE Migrate
  <2>1. \E old : MigrateOnto(old, target, quota["today"]) \/ MigrateOnto(old, None, None)
    BY <1>6 DEF Migrate
  <2>2. PICK old : MigrateOnto(old, target, quota["today"]) \/ MigrateOnto(old, None, None)
    BY <2>1
  <2>3. \E totals, rows, num, at :
           /\ Migration(old, totals, rows, num, at)
           /\ \/ totals = target /\ rows = quota["today"]
              \/ totals = None /\ rows = None
    BY <2>2, MigrationIs
  <2>4. PICK totals, rows, num, at :
           /\ Migration(old, totals, rows, num, at)
           /\ \/ totals = target /\ rows = quota["today"]
              \/ totals = None /\ rows = None
    BY <2>3
  <2>5. \A m \in Mid : target'[m] = IF num[m] = {} THEN totals[m] ELSE Capped(Cardinality(num[m]) * Unit)
    BY <2>4 DEF Migration, Onto
  <2>6. \A m \in Mid : quota'["today"][m] = IF num[m] = {} THEN rows[m]
                                            ELSE Capped(Cardinality(num[m]) * Unit)
    <3>1. quota' = [quota EXCEPT !["today"] = Onto(num, rows)]
      BY <2>4 DEF Migration
    <3>2. quota'["today"] = Onto(num, rows)
      BY <3>1 DEF Types, TypeOK, Day
    <3>3. QED
      BY <3>2 DEF Onto
  <2>7. quota'["tomorrow"] = quota["tomorrow"]
    BY <2>4 DEF Migration, Types, TypeOK
  <2>8. \A m \in Mid : setFor'[m] = IF num[m] = {} THEN setFor[m] ELSE "today"
    BY <2>4 DEF Migration
  <2>9. \A m \in Mid : None[m] = Absent
    BY DEF None
  <2>10. QED
    BY <2>4, <2>5, <2>6, <2>7, <2>8, <2>9
<1>7. ASSUME NEW s \in Site, SyncReads(s) PROVE Days'
  BY <1>1, <1>7 DEF SyncReads
<1>8. ASSUME NEW s \in Site, SyncRefused(s) \/ SyncFails(s) PROVE Days'
  BY <1>1, <1>8 DEF SyncRefused, SyncFails, vars
<1>9. ASSUME NEW d \in Day, NEW m \in Mid, Hit(d, m) PROVE Days'
  BY <1>1, <1>9 DEF Hit
<1>10. CASE UNCHANGED vars
  BY <1>1, <1>10 DEF vars
<1>11. QED
  BY <1>2, <1>3, <1>4, <1>5, <1>6, <1>7, <1>8, <1>9, <1>10 DEF Next

\* The row of the day has the product's target whenever that was last set for
\* the day, also when it was set before midnight.
THEOREM SyncTodayFollows == Spec => []TodayFollowsTarget
<1>1. Init => Types /\ Days
  <2>1. Init => Days
    BY DEF Init, Days, TodayFollowsTarget, TomorrowFollowsTarget
  <2>2. QED
    BY <2>1, TypesInit
<1>2. Types /\ Days /\ [Next]_vars => Types' /\ Days'
  BY TypesStep, DaysStep
<1>3. QED
  BY <1>1, <1>2, PTL DEF Spec, Days

\* Nights and calls are counted, so a step that changes neither count is neither.
Counts == nights \in Nat /\ admin \in Nat

LEMMA CountsStep == Counts /\ [Next]_vars => Counts'
BY DEF Counts, Next, vars, SyncReads, SyncRefused, SyncCommits, SyncFails, Hit, Midnight, SimulateDay,
       ResetAndReplace, Migrate, Call

\* No step but midnight and an administrator's takes a hit of a day away.
THEOREM SyncHitsStay == Spec => HitsStay
<1>1. ASSUME Types, Counts, [Next]_vars
      PROVE  [nights' = nights /\ admin' = admin =>
                 \A d \in Day, m \in Mid : hits'[d][m] >= hits[d][m]]_vars
  <2> SUFFICES ASSUME nights' = nights, admin' = admin, NEW d \in Day, NEW m \in Mid
               PROVE  hits'[d][m] >= hits[d][m]
    OBVIOUS
  <2>1. hits \in [Day -> [Mid -> 0 .. MaxHits]] /\ hits[d][m] \in Int
    BY <1>1 DEF Types, TypeOK
  <2>2. ~Midnight /\ ~Call
    BY <1>1 DEF Counts, Midnight, Call
  <2>3. CASE hits' = hits
    BY <2>1, <2>3
  <2>4. ASSUME NEW e \in Day, NEW n \in Mid, Hit(e, n) PROVE hits'[d][m] >= hits[d][m]
    BY <2>1, <2>4 DEF Hit
  <2>5. QED
    BY <1>1, <2>2, <2>3, <2>4 DEF Next, vars, SyncReads, SyncRefused, SyncCommits, SyncFails,
       SimulateDay, ResetAndReplace, Migrate
<1>2. Init => Types /\ Counts
  BY TypesInit DEF Init, Counts
<1>3. Types /\ Counts /\ [Next]_vars => Types' /\ Counts'
  BY TypesStep, CountsStep
<1>4. QED
  BY <1>1, <1>2, <1>3, PTL DEF Spec, HitsStay
=============================================================================
