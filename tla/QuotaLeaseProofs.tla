-------------------------- MODULE QuotaLeaseProofs --------------------------
(***************************************************************************)
(* Proofs about QuotaLease: however many runners, products and attempts    *)
(* there are, the hits of a day exceed their goal by less than the counts  *)
(* that all runners together can have under way.                           *)
(***************************************************************************)
EXTENDS QuotaLease, FiniteSetTheorems, TLAPS

\* The bound: all counts that can be under way at one time.
Ceiling == Cardinality(Runner) * Attempts

\* Count is finite and as large as Ceiling, and so bounds every set of counts.
LEMMA CountIsFinite ==
    /\ IsFiniteSet(Count)
    /\ Ceiling \in Nat \ {0}
    /\ \A S \in SUBSET Count : /\ IsFiniteSet(S)
                               /\ Cardinality(S) \in Nat
                               /\ Cardinality(S) <= Ceiling
<1>1. IsFiniteSet(1 .. Attempts) /\ Cardinality(1 .. Attempts) = Attempts
  BY FS_Interval, LeaseAssumption
<1>2. IsFiniteSet(Count) /\ Cardinality(Count) = Ceiling
  BY <1>1, FS_Product, LeaseAssumption DEF Count, Ceiling
<1>3. Cardinality(Runner) \in Nat \ {0}
  BY FS_CardinalityType, FS_EmptySet, LeaseAssumption
<1>4. Ceiling \in Nat \ {0}
  BY <1>3, LeaseAssumption DEF Ceiling
<1>5. ASSUME NEW S \in SUBSET Count
      PROVE  IsFiniteSet(S) /\ Cardinality(S) \in Nat /\ Cardinality(S) <= Ceiling
  BY <1>2, <1>5, FS_Subset, FS_CardinalityType
<1>6. QED
  BY <1>2, <1>4, <1>5

\* Fewer counts are possible after some were removed.
LEMMA FewerCounts ==
  ASSUME NEW S \in SUBSET Count, NEW T \in SUBSET S
  PROVE  Cardinality(T) <= Cardinality(S)
BY CountIsFinite, FS_Subset

\* Every variable keeps its type: hits are natural numbers, owed holds counts.
THEOREM LeaseTypeOK == Spec => []TypeOK
<1>1. Init => TypeOK
  BY DEF Init, TypeOK
<1>2. TypeOK /\ [Next]_leaseVars => TypeOK'
  <2> SUFFICES ASSUME TypeOK, [Next]_leaseVars PROVE TypeOK'
    OBVIOUS
  <2>1. ASSUME NEW r \in Runner, NEW X \in SUBSET Item, Grant(r, X)
        PROVE  TypeOK'
    BY <2>1 DEF Grant, TypeOK, Count
  <2>2. ASSUME NEW x \in Item, Hit(x)
        PROVE  TypeOK'
    BY <2>2 DEF Hit, TypeOK
  <2>3. CASE Forgo
    BY <2>3 DEF Forgo, TypeOK
  <2>4. CASE UNCHANGED leaseVars
    BY <2>4 DEF leaseVars, TypeOK
  <2>5. QED
    BY <2>1, <2>2, <2>3, <2>4 DEF Next
<1>3. QED
  BY <1>1, <1>2, PTL DEF Spec

\* Counted and possible hits together stay within the goal and the ceiling:
\* a grant happens below the goal, a hit moves one count from possible to
\* counted.
THEOREM LeaseWithin == Spec => []WithinLease
<1>1. Init => WithinLease
  <2> SUFFICES ASSUME Init, NEW x \in Item
               PROVE  hits[x] + Cardinality(owed[x]) <= Goal[x] - 1 + Ceiling
    BY DEF WithinLease, Ceiling
  <2>1. hits[x] = 0 /\ owed[x] = {} /\ Goal[x] \in Nat
    BY LeaseAssumption DEF Init
  <2>2. QED
    BY <2>1, FS_EmptySet, CountIsFinite
<1>2. TypeOK /\ WithinLease /\ [Next]_leaseVars => WithinLease'
  <2> SUFFICES ASSUME TypeOK, WithinLease, [Next]_leaseVars, NEW x \in Item
               PROVE  hits'[x] + Cardinality(owed'[x]) <= Goal[x] - 1 + Ceiling
    BY DEF WithinLease, Ceiling
  <2>0. /\ hits[x] \in Nat /\ owed[x] \in SUBSET Count /\ Goal[x] \in Nat
        /\ Cardinality(owed[x]) \in Nat
        /\ hits[x] + Cardinality(owed[x]) <= Goal[x] - 1 + Ceiling
    BY CountIsFinite, LeaseAssumption DEF TypeOK, WithinLease, Ceiling
  <2>1. ASSUME NEW r \in Runner, NEW X \in SUBSET Item, Grant(r, X)
        PROVE  hits'[x] + Cardinality(owed'[x]) <= Goal[x] - 1 + Ceiling
    <3>1. CASE x \in X
      <4>1. hits'[x] = hits[x] /\ hits[x] < Goal[x]
        BY <2>1, <3>1 DEF Grant
      <4>2. owed'[x] \in SUBSET Count
        BY <2>1, <3>1, <2>0 DEF Grant, Count
      <4>3. QED
        BY <4>1, <4>2, <2>0, CountIsFinite
    <3>2. CASE x \notin X
      BY <2>1, <3>2, <2>0 DEF Grant
    <3>3. QED
      BY <3>1, <3>2
  <2>2. ASSUME NEW y \in Item, Hit(y)
        PROVE  hits'[x] + Cardinality(owed'[x]) <= Goal[x] - 1 + Ceiling
    <3>1. CASE x = y
      <4>1. PICK c \in owed[x], S \in SUBSET owed[x] :
              c \notin S /\ owed' = [owed EXCEPT ![x] = S]
        BY <2>2, <3>1 DEF Hit
      <4>2. hits'[x] = hits[x] + 1 /\ owed'[x] = S
        BY <2>2, <3>1, <4>1 DEF Hit, TypeOK
      <4>3. S \in SUBSET (owed[x] \ {c})
        BY <4>1
      <4>4. /\ IsFiniteSet(owed[x] \ {c})
            /\ Cardinality(owed[x] \ {c}) = Cardinality(owed[x]) - 1
        BY <2>0, CountIsFinite, FS_RemoveElement
      <4>5. Cardinality(S) <= Cardinality(owed[x]) - 1 /\ Cardinality(S) \in Nat
        BY <4>3, <4>4, FS_Subset, FS_CardinalityType
      <4>6. QED
        BY <4>2, <4>5, <2>0, CountIsFinite
    <3>2. CASE x # y
      BY <2>2, <3>2, <2>0 DEF Hit, TypeOK
    <3>3. QED
      BY <3>1, <3>2
  <2>3. CASE Forgo
    <3>1. hits'[x] = hits[x] /\ owed'[x] \in SUBSET owed[x]
      BY <2>3 DEF Forgo
    <3>2. Cardinality(owed'[x]) \in Nat /\ Cardinality(owed'[x]) <= Cardinality(owed[x])
      BY <3>1, <2>0, CountIsFinite, FewerCounts
    <3>3. QED
      BY <3>1, <3>2, <2>0, CountIsFinite
  <2>4. CASE UNCHANGED leaseVars
    BY <2>4, <2>0 DEF leaseVars
  <2>5. QED
    BY <2>1, <2>2, <2>3, <2>4 DEF Next
<1>3. QED
  BY <1>1, <1>2, LeaseTypeOK, PTL DEF Spec

\* The day's hits never exceed the goal by as much as the ceiling; with one
\* runner and one attempt they never exceed it.
THEOREM LeaseOvershoot == Spec => []OvershootIsBounded
<1>1. TypeOK /\ WithinLease => OvershootIsBounded
  <2> SUFFICES ASSUME TypeOK, WithinLease, NEW x \in Item
               PROVE  hits[x] <= Goal[x] - 1 + Ceiling
    BY DEF OvershootIsBounded, Ceiling
  <2>1. /\ hits[x] \in Nat /\ Goal[x] \in Nat /\ Cardinality(owed[x]) \in Nat
        /\ hits[x] + Cardinality(owed[x]) <= Goal[x] - 1 + Ceiling
    BY CountIsFinite, LeaseAssumption DEF TypeOK, WithinLease, Ceiling
  <2>2. QED
    BY <2>1, CountIsFinite
<1>2. QED
  BY <1>1, LeaseTypeOK, LeaseWithin, PTL

=============================================================================
