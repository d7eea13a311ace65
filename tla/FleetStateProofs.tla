-------------------------- MODULE FleetStateProofs ---------------------------
(***************************************************************************)
(* The live state file: with one writer after the other it is exact, and   *)
(* the fleet's own entry never goes back, for every number of phones and   *)
(* updates and every size of the buffer.                                   *)
(***************************************************************************)
EXTENDS FleetState, SumTheorems, SequenceTheorems

\* What a file consists of, and the data of a text.
Part == Entry \cup {End, Hole}
IsDoc(d) == /\ DOMAIN d \subseteq Proc /\ Main \in DOMAIN d
            /\ \A k \in DOMAIN d : d[k] \in 0 .. Limit(k)

LEMMA BoundsAre ==
  /\ Phones \in Nat /\ Buffer \in Nat /\ Buffer >= 1
  /\ \A p \in Proc : Limit(p) \in Nat
  /\ Proc \subseteq Nat /\ Proc = 0 .. Phones /\ IsFiniteSet(Proc) /\ Main \in Proc /\ Main = 0
  /\ Phone \subseteq Proc /\ Main \notin Phone /\ \A p \in Proc : p # Main => p \in Phone
<1>1. /\ Phones \in Nat /\ Buffer \in Nat /\ Buffer >= 1 /\ MainUpdates \in Nat /\ WorkUpdates \in Nat
  BY FleetAssumption
<1>2. Proc = 0 .. Phones
  BY <1>1 DEF Proc, Main, Phone
<1>3. IsFiniteSet(0 .. Phones)
  BY <1>1, FS_Interval
<1>4. QED
  BY <1>1, <1>2, <1>3 DEF Main, Phone, Limit

LEMMA EntryIs ==
  /\ \A p \in Proc : \A v : v \in 0 .. Limit(p) => <<p, v>> \in Entry
  /\ \A e \in Entry : e[1] \in Proc /\ e[2] \in 0 .. Limit(e[1])
  /\ End \notin Entry /\ Hole \notin Entry /\ End[1] # Main /\ Hole[1] # Main
  /\ \A e \in Part : e[1] = Main => e \in Entry
<1>1. ASSUME NEW p \in Proc, NEW v \in 0 .. Limit(p) PROVE <<p, v>> \in Entry
  BY DEF Entry
<1>2. ASSUME NEW e \in Entry PROVE e[1] \in Proc /\ e[2] \in 0 .. Limit(e[1])
  <2>1. PICK p \in Proc : e \in {p} \X (0 .. Limit(p))
    BY DEF Entry
  <2>2. QED
    BY <2>1
<1>3. End[1] = Phones + 1 /\ Hole[1] = Phones + 2
  BY DEF End, Hole
<1>4. End[1] \notin Proc /\ Hole[1] \notin Proc
  BY <1>3, BoundsAre
<1>5. QED
  BY <1>1, <1>2, <1>4, BoundsAre DEF Part

\* A finite set of numbers has a largest one.
LEMMA LargestIs ==
  ASSUME NEW n \in Nat, NEW S, S \subseteq 0 .. n, S # {}
  PROVE  Max(S) \in S /\ \A i \in S : i <= Max(S)
<1> DEFINE C == {n - i : i \in S}
<1>0. S \subseteq Int
  OBVIOUS
<1>1. C \subseteq Nat /\ C # {}
  OBVIOUS
<1>2. PICK c \in C : \A y \in C : c <= y
  <2> HIDE DEF C
  <2>1. QED
    BY <1>1, LeastNumber
<1>3. PICK x \in S : c = n - x
  OBVIOUS
<1>4. ASSUME NEW y \in S PROVE x >= y
  <2>1. n - y \in C /\ c <= n - y
    BY <1>2
  <2>2. x \in Int /\ y \in Int
    BY <1>0
  <2>3. QED
    BY <1>3, <2>1, <2>2
<1>5. Max(S) \in S /\ \A y \in S : Max(S) >= y
  BY <1>3, <1>4 DEF Max
<1>6. \A y \in S : y \in Int
  OBVIOUS
<1>7. QED
  BY <1>5, <1>6

-----------------------------------------------------------------------------

\* Every position of a text but the last has its key, and every key a position.
Upto(S, p) == {q \in S : q <= p}

LEMMA RankIs ==
  ASSUME NEW S, S \subseteq Proc
  PROVE  /\ IsFiniteSet(S) /\ Cardinality(S) \in Nat
         /\ \A p \in S : Cardinality(Upto(S, p)) \in 1 .. Cardinality(S)
         /\ \A p, q \in S : Cardinality(Upto(S, p)) = Cardinality(Upto(S, q)) => p = q
         /\ \A k \in 1 .. Cardinality(S) : \E p \in S : Cardinality(Upto(S, p)) = k
<1> DEFINE n == Cardinality(S)
           r == [p \in S |-> Cardinality(Upto(S, p))]
<1>1. IsFiniteSet(S) /\ n \in Nat /\ S \subseteq Nat
  BY BoundsAre, FS_Subset, FS_CardinalityType
<1>2. ASSUME NEW T \in SUBSET S
      PROVE  /\ IsFiniteSet(T) /\ Cardinality(T) \in Nat /\ Cardinality(T) <= n
             /\ T # {} => Cardinality(T) >= 1
  <2>1. IsFiniteSet(T) /\ Cardinality(T) \in Nat /\ Cardinality(T) <= n
    BY <1>1, FS_Subset, FS_CardinalityType
  <2>2. T # {} => Cardinality(T) # 0
    BY <2>1, FS_EmptySet
  <2>3. QED
    BY <2>1, <2>2
<1>3. ASSUME NEW p \in S PROVE r[p] \in 1 .. n
  <2>1. Upto(S, p) \in SUBSET S /\ p \in Upto(S, p)
    BY <1>1 DEF Upto
  <2>2. QED
    BY <1>1, <1>2, <2>1
<1>4. ASSUME NEW p \in S, NEW q \in S, p < q PROVE r[p] # r[q]
  <2>1. Upto(S, p) \in SUBSET Upto(S, q) /\ q \in Upto(S, q) /\ q \notin Upto(S, p)
    <3>1. \A x \in S : x \in Nat
      BY <1>1
    <3>2. \A x \in S : x <= p => x <= q
      BY <1>4, <3>1
    <3>3. q <= q /\ ~ (q <= p)
      BY <1>4, <3>1
    <3>4. QED
      BY <3>2, <3>3 DEF Upto
  <2>2. IsFiniteSet(Upto(S, q))
    BY <1>2 DEF Upto
  <2>3. QED
    BY <2>1, <2>2, FS_Subset
<1>5. ASSUME NEW p \in S, NEW q \in S, r[p] = r[q] PROVE p = q
  <2>1. p \in Nat /\ q \in Nat
    BY <1>1
  <2>2. ~ (p < q) /\ ~ (q < p)
    BY <1>4, <1>5
  <2>3. QED
    BY <2>1, <2>2
<1>6. r \in Injection(S, 1 .. n)
  <2>1. r \in [S -> 1 .. n]
    BY <1>3
  <2> HIDE DEF r, n
  <2>2. QED
    BY <1>5, <2>1 DEF Injection, IsInjective
<1>7. IsFiniteSet(1 .. n) /\ Cardinality(1 .. n) = n
  BY <1>1, FS_Interval
<1>8. r \in Surjection(S, 1 .. n)
  <2> HIDE DEF r
  <2>1. QED
    BY <1>6, <1>7, FS_Injection
<1>9. \A k \in 1 .. n : \E p \in S : r[p] = k
  BY <1>8 DEF Surjection
<1>10. QED
  BY <1>1, <1>3, <1>5, <1>9

\* t is a text of d: main's entry, those of the phones in d, and the end.
IsText(t, d) ==
    /\ t \in Seq(Part) /\ Len(t) \in Nat /\ Len(t) > 1
    /\ t[Len(t)] = End
    /\ \A i \in 1 .. Len(t) - 1 :
          /\ t[i] \in Entry /\ t[i][1] \in DOMAIN d /\ t[i][2] = d[t[i][1]]
    /\ \A k \in DOMAIN d : \E i \in 1 .. Len(t) - 1 : t[i][1] = k
    /\ \A i \in 1 .. Len(t) : t[i][1] = Main <=> i = 1

LEMMA TextIs ==
  ASSUME NEW d, IsDoc(d)
  PROVE  IsText(Text(d), d)
<1> DEFINE S == DOMAIN d
           n == Cardinality(S)
           t == Text(d)
           rank(p) == Cardinality(Upto(S, p))
<1>1. /\ S \subseteq Proc /\ Main \in S /\ \A k \in S : d[k] \in 0 .. Limit(k)
  BY DEF IsDoc
<1>2. /\ IsFiniteSet(S) /\ n \in Nat
      /\ \A p \in S : rank(p) \in 1 .. n
      /\ \A p, q \in S : rank(p) = rank(q) => p = q
      /\ \A k \in 1 .. n : \E p \in S : rank(p) = k
  BY <1>1, RankIs
<1>3. \A k \in 1 .. n : Key(d, k) \in S /\ rank(Key(d, k)) = k
  BY <1>2 DEF Key, Upto
<1>4. rank(Main) = 1
  <2>1. Upto(S, Main) = {Main}
    BY <1>1, BoundsAre DEF Upto
  <2>2. QED
    BY <2>1, FS_Singleton
<1>5. t = [i \in 1 .. n + 1 |-> IF i <= n THEN <<Key(d, i), d[Key(d, i)]>> ELSE End]
  BY DEF Text
<1> HIDE DEF rank, t, n, S
<1>6. n >= 1
  BY <1>1, <1>2, <1>4
<1>7. \A i \in 1 .. n : t[i] = <<Key(d, i), d[Key(d, i)]>>
  BY <1>2, <1>5
<1>8. t[n + 1] = End
  BY <1>2, <1>5
<1>9. \A i \in 1 .. n : /\ t[i] \in Entry /\ t[i][1] = Key(d, i) /\ t[i][2] = d[Key(d, i)]
  <2>1. SUFFICES ASSUME NEW i \in 1 .. n
                 PROVE  /\ t[i] \in Entry /\ t[i][1] = Key(d, i) /\ t[i][2] = d[Key(d, i)]
    OBVIOUS
  <2>2. Key(d, i) \in Proc /\ d[Key(d, i)] \in 0 .. Limit(Key(d, i))
    BY <1>1, <1>3
  <2>3. t[i] = <<Key(d, i), d[Key(d, i)]>>
    BY <1>7
  <2>4. QED
    BY <2>2, <2>3, EntryIs
<1>10. \A i \in 1 .. n + 1 : t[i] \in Part
  <2>1. \A i \in 1 .. n + 1 : i \in 1 .. n \/ i = n + 1
    BY <1>2
  <2>2. QED
    BY <1>8, <1>9, <2>1 DEF Part
<1>11. t \in Seq(Part) /\ Len(t) = n + 1
  <2>1. t \in [1 .. n + 1 -> Part]
    BY <1>5, <1>10
  <2>2. n + 1 \in Nat
    BY <1>2
  <2>3. QED
    BY <2>1, <2>2
<1>12. ASSUME NEW k \in S PROVE \E i \in 1 .. n : t[i][1] = k
  <2>1. rank(k) \in 1 .. n
    BY <1>2
  <2>2. Key(d, rank(k)) = k
    BY <1>2, <1>3, <2>1
  <2>3. QED
    BY <1>9, <2>1, <2>2
<1>13. ASSUME NEW i \in 1 .. n + 1 PROVE t[i][1] = Main <=> i = 1
  <2>1. CASE i = n + 1
    BY <1>2, <1>6, <1>8, <2>1, EntryIs
  <2>2. CASE i # n + 1
    <3>1. i \in 1 .. n /\ 1 \in 1 .. n
      BY <1>2, <1>6, <2>2
    <3>2. t[i][1] = Key(d, i) /\ Key(d, i) \in S /\ rank(Key(d, i)) = i
      BY <1>3, <1>9, <3>1
    <3>3. QED
      BY <1>1, <1>2, <1>4, <3>2
  <2>3. QED
    BY <2>1, <2>2
<1>14. Len(t) - 1 = n
  BY <1>2, <1>11
<1>15. \A i \in 1 .. n : t[i][1] \in S /\ t[i][2] = d[t[i][1]]
  BY <1>3, <1>9
<1>16. Len(t) \in Nat /\ Len(t) > 1
  BY <1>2, <1>6, <1>11
<1>17. IsText(t, d)
  BY <1>8, <1>9, <1>11, <1>12, <1>13, <1>14, <1>15, <1>16 DEF IsText, S
<1>18. QED
  BY <1>17 DEF t

-----------------------------------------------------------------------------

\* What a file that parses is read as.
LEMMA DataIs ==
  ASSUME NEW c \in Seq(Part), Parses(c)
  PROVE  /\ IsDoc(Data(c))
         /\ \A i \in 1 .. Len(c) - 1 : c[i][1] \in DOMAIN Data(c)
         /\ \A k \in DOMAIN Data(c) :
               \E i \in 1 .. Len(c) - 1 : c[i][1] = k /\ Data(c)[k] = c[i][2]
<1> DEFINE n == Len(c) - 1
           keys == {c[i][1] : i \in 1 .. n}
           at(k) == {i \in 1 .. n : c[i][1] = k}
           data == Data(c)
<1>1. /\ n \in Nat /\ n >= 1
      /\ \A i \in 1 .. n : c[i] \in Entry
      /\ c[1][1] = Main
  BY DEF Parses
<1>2. data = [k \in keys |-> c[Max(at(k))][2]]
  BY DEF Data
<1>3. ASSUME NEW k \in keys
      PROVE  \E i \in 1 .. n : c[i][1] = k /\ Max(at(k)) = i
  <2>1. at(k) \subseteq 0 .. n /\ at(k) # {}
    OBVIOUS
  <2>2. Max(at(k)) \in at(k)
    <3> HIDE DEF at, n
    <3>1. QED
      BY <1>1, <2>1, LargestIs
  <2>3. QED
    BY <2>2
<1>4. \A i \in 1 .. n : c[i][1] \in keys
  OBVIOUS
<1> HIDE DEF data, n, at
<1>5. DOMAIN data = keys
  BY <1>2
<1>6. ASSUME NEW k \in keys
      PROVE  \E i \in 1 .. n : c[i][1] = k /\ data[k] = c[i][2]
  BY <1>2, <1>3
<1>7. ASSUME NEW k \in keys PROVE k \in Proc /\ data[k] \in 0 .. Limit(k)
  <2>1. PICK i \in 1 .. n : c[i][1] = k /\ data[k] = c[i][2]
    BY <1>6
  <2>2. c[i] \in Entry
    BY <1>1
  <2>3. QED
    BY <2>1, <2>2, EntryIs
<1>8. Main \in keys
  <2>1. 1 \in 1 .. n
    BY <1>1
  <2>2. QED
    BY <1>1, <1>4, <2>1
<1>9. IsDoc(data)
  BY <1>5, <1>7, <1>8 DEF IsDoc
<1>10. QED
  BY <1>4, <1>5, <1>6, <1>9 DEF data, n

\* A whole text is read as what was written.
LEMMA TextIsRead ==
  ASSUME NEW d, NEW t, IsText(t, d)
  PROVE  /\ Parses(t)
         /\ \A k \in DOMAIN d : k \in DOMAIN Data(t) /\ Data(t)[k] = d[k]
<1>1. /\ t \in Seq(Part) /\ Len(t) \in Nat /\ Len(t) > 1
      /\ t[Len(t)] = End
      /\ \A i \in 1 .. Len(t) - 1 :
            /\ t[i] \in Entry /\ t[i][1] \in DOMAIN d /\ t[i][2] = d[t[i][1]]
  BY DEF IsText
<1>2. 1 \in 1 .. Len(t) - 1 /\ 1 \in 1 .. Len(t)
  BY <1>1
<1>3. t[1] \in Entry /\ t[1][1] = Main
  BY <1>1, <1>2 DEF IsText
<1>4. Parses(t)
  BY <1>1, <1>3 DEF Parses
<1>5. ASSUME NEW k \in DOMAIN d PROVE k \in DOMAIN Data(t) /\ Data(t)[k] = d[k]
  <2>1. PICK i \in 1 .. Len(t) - 1 : t[i][1] = k
    BY DEF IsText
  <2>2. k \in DOMAIN Data(t)
    BY <1>1, <1>4, <2>1, DataIs
  <2>3. PICK j \in 1 .. Len(t) - 1 : t[j][1] = k /\ Data(t)[k] = t[j][2]
    BY <1>1, <1>4, <2>2, DataIs
  <2>4. QED
    BY <1>1, <2>2, <2>3
<1>6. QED
  BY <1>4, <1>5

\* Main's entry comes first in c, if at all, and is 0 or v.
OfMain(c, v) == \A i \in 1 .. Len(c) : c[i][1] = Main => (i = 1 /\ c[i][2] \in {0, v})

LEMMA MainIsRead ==
  ASSUME NEW c \in Seq(Part), Parses(c), NEW v, OfMain(c, v)
  PROVE  Data(c)[Main] \in {0, v}
<1>1. Main \in DOMAIN Data(c)
  BY DataIs DEF IsDoc
<1>2. PICK i \in 1 .. Len(c) - 1 : c[i][1] = Main /\ Data(c)[Main] = c[i][2]
  BY <1>1, DataIs
<1>3. i \in 1 .. Len(c)
  OBVIOUS
<1>4. QED
  BY <1>2, <1>3 DEF OfMain

LEMMA NoneOfMain == \A v : OfMain(<<>>, v)
BY DEF OfMain

LEMMA TextOfMain ==
  ASSUME NEW d, IsDoc(d), NEW v, d[Main] \in {0, v}
  PROVE  OfMain(Text(d), v)
<1> DEFINE t == Text(d)
<1>1. IsText(t, d)
  BY TextIs
<1> HIDE DEF t
<1>2. /\ 1 \in 1 .. Len(t) - 1
      /\ \A i \in 1 .. Len(t) : t[i][1] = Main <=> i = 1
  BY <1>1 DEF IsText
<1>3. t[1][1] = Main
  <2>1. 1 \in 1 .. Len(t)
    BY <1>1 DEF IsText
  <2>2. QED
    BY <1>2, <2>1
<1>4. t[1][2] = d[Main]
  BY <1>1, <1>2, <1>3 DEF IsText
<1>5. OfMain(t, v)
  BY <1>2, <1>4 DEF OfMain
<1>6. QED
  BY <1>5 DEF t

-----------------------------------------------------------------------------

\* The greatest of two numbers is the greatest of the set of both.
LEMMA GreatestOfTwo ==
  ASSUME NEW a \in Nat, NEW b \in Nat
  PROVE  Max({a, b}) = IF a <= b THEN b ELSE a
BY DEF Max

LEMMA LeastOfTwo ==
  ASSUME NEW a \in Int, NEW b \in Int
  PROVE  Min({a, b}) = IF a <= b THEN a ELSE b
BY DEF Min

\* A file after more parts of a text.
LEMMA PutIs ==
  ASSUME NEW c \in Seq(Part), NEW t \in Seq(Part), NEW p \in Nat, NEW n \in Nat,
         p + n <= Len(t)
  PROVE  LET x == Put(c, t, p, n)
         IN /\ x \in Seq(Part)
            /\ Len(x) = IF Len(c) <= p + n THEN p + n ELSE Len(c)
            /\ \A i \in 1 .. Len(x) :
                  x[i] = IF i \in (p + 1) .. (p + n) THEN t[i]
                         ELSE IF i <= Len(c) THEN c[i] ELSE Hole
<1> DEFINE x == Put(c, t, p, n)
           m == Max({Len(c), p + n})
           e(i) == IF i \in (p + 1) .. (p + n) THEN t[i]
                   ELSE IF i <= Len(c) THEN c[i] ELSE Hole
<1>1. Len(c) \in Nat /\ p + n \in Nat
  OBVIOUS
<1>2. m = IF Len(c) <= p + n THEN p + n ELSE Len(c)
  BY <1>1, GreatestOfTwo
<1>3. m \in Nat
  BY <1>1, <1>2
<1>4. x = [i \in 1 .. m |-> e(i)]
  BY DEF Put
<1>5. \A i \in 1 .. m : e(i) \in Part
  <2>1. SUFFICES ASSUME NEW i \in 1 .. m PROVE e(i) \in Part
    OBVIOUS
  <2>2. i \in Nat /\ i >= 1
    BY <1>3
  <2>3. i \in (p + 1) .. (p + n) => t[i] \in Part
    OBVIOUS
  <2>4. i <= Len(c) => c[i] \in Part
    BY <2>2
  <2>5. QED
    BY <2>3, <2>4 DEF Part
<1> HIDE DEF m, e, x
<1>6. x \in [1 .. m -> Part]
  BY <1>4, <1>5
<1>7. x \in Seq(Part) /\ Len(x) = m
  BY <1>3, <1>6
<1>8. \A i \in 1 .. Len(x) : x[i] = e(i)
  BY <1>4, <1>7
<1>9. QED
  BY <1>2, <1>7, <1>8 DEF x, e

\* A writer that is alone continues its own text.
LEMMA PutContinues ==
  ASSUME NEW t \in Seq(Part), NEW p \in Nat, NEW n \in Nat, p + n <= Len(t)
  PROVE  Put(SubSeq(t, 1, p), t, p, n) = SubSeq(t, 1, p + n)
<1> DEFINE c == SubSeq(t, 1, p)
           x == Put(c, t, p, n)
           y == SubSeq(t, 1, p + n)
<1>1. Len(t) \in Nat /\ p <= Len(t)
  OBVIOUS
<1>2. /\ \A i \in 1 .. p : t[i] \in Part
      /\ \A i \in 1 .. p + n : t[i] \in Part
  BY <1>1
<1>3. c \in Seq(Part) /\ Len(c) = p /\ \A i \in 1 .. p : c[i] = t[i]
  <2>1. /\ c \in Seq(Part) /\ Len(c) = IF 1 <= p THEN p - 1 + 1 ELSE 0
        /\ \A i \in 1 .. p - 1 + 1 : c[i] = t[1 + i - 1]
    BY <1>2, SubSeqProperties
  <2>2. p - 1 + 1 = p /\ \A i \in 1 .. p : 1 + i - 1 = i
    OBVIOUS
  <2> HIDE DEF c
  <2>3. QED
    BY <2>1, <2>2
<1>4. y \in Seq(Part) /\ Len(y) = p + n /\ \A i \in 1 .. p + n : y[i] = t[i]
  <2>1. p + n \in Nat
    OBVIOUS
  <2>2. /\ y \in Seq(Part) /\ Len(y) = IF 1 <= p + n THEN p + n - 1 + 1 ELSE 0
        /\ \A i \in 1 .. p + n - 1 + 1 : y[i] = t[1 + i - 1]
    BY <1>2, <2>1, SubSeqProperties
  <2>3. p + n - 1 + 1 = p + n /\ \A i \in 1 .. p + n : 1 + i - 1 = i
    OBVIOUS
  <2> HIDE DEF y
  <2>4. QED
    BY <2>1, <2>2, <2>3
<1> HIDE DEF c
<1>5. /\ x \in Seq(Part) /\ Len(x) = IF Len(c) <= p + n THEN p + n ELSE Len(c)
      /\ \A i \in 1 .. Len(x) : x[i] = IF i \in (p + 1) .. (p + n) THEN t[i]
                                       ELSE IF i <= Len(c) THEN c[i] ELSE Hole
  BY <1>3, PutIs
<1> HIDE DEF x, y
<1>6. Len(x) = p + n
  BY <1>3, <1>5
<1>7. \A i \in 1 .. Len(x) : x[i] = y[i]
  BY <1>3, <1>4, <1>5, <1>6
<1>8. x = y
  BY <1>4, <1>5, <1>6, <1>7, SeqEqual
<1>9. QED
  BY <1>8 DEF x, y, c

LEMMA PutOfMain ==
  ASSUME NEW c \in Seq(Part), NEW t \in Seq(Part), NEW p \in Nat, NEW n \in Nat,
         p + n <= Len(t), NEW v, OfMain(c, v), OfMain(t, v)
  PROVE  OfMain(Put(c, t, p, n), v)
<1> DEFINE x == Put(c, t, p, n)
<1>1. /\ x \in Seq(Part)
      /\ \A i \in 1 .. Len(x) : x[i] = IF i \in (p + 1) .. (p + n) THEN t[i]
                                       ELSE IF i <= Len(c) THEN c[i] ELSE Hole
  BY PutIs
<1> HIDE DEF x
<1>2. ASSUME NEW i \in 1 .. Len(x), x[i][1] = Main
      PROVE  i = 1 /\ x[i][2] \in {0, v}
  <2>1. i \in Nat /\ i >= 1 /\ Len(c) \in Nat /\ Len(t) \in Nat
    BY <1>1
  <2>2. CASE i \in (p + 1) .. (p + n)
    <3>1. x[i] = t[i] /\ i \in 1 .. Len(t)
      BY <1>1, <2>1, <2>2
    <3>2. QED
      BY <1>2, <3>1 DEF OfMain
  <2>3. CASE i \notin (p + 1) .. (p + n) /\ i <= Len(c)
    <3>1. x[i] = c[i] /\ i \in 1 .. Len(c)
      BY <1>1, <2>1, <2>3
    <3>2. QED
      BY <1>2, <3>1 DEF OfMain
  <2>4. CASE i \notin (p + 1) .. (p + n) /\ ~ (i <= Len(c))
    <3>1. x[i] = Hole
      BY <1>1, <2>4
    <3>2. QED
      BY <1>2, <3>1, EntryIs
  <2>5. QED
    BY <2>2, <2>3, <2>4
<1>3. QED
  BY <1>2 DEF x, OfMain

-----------------------------------------------------------------------------

Active(p) == pc[p] \in {"changed", "writing"}

Typed ==
    /\ disk \in [{"state", "tmp"} -> Seq(Part)]
    /\ there \subseteq {"state", "tmp"}
    /\ pc \in [Proc -> {"off", "idle", "told", "changed", "writing"}]
    /\ doc = [p \in Proc |-> doc[p]] /\ \A p \in Proc : IsDoc(doc[p])
    /\ fd \in [Proc -> {"state", "tmp", "gone"}]
    /\ pos \in [Proc -> Nat]
    /\ done \in [Proc -> Nat]
    /\ orphans \subseteq Busy /\ crew \subseteq Proc /\ solo \in BOOLEAN

\* Who writes is in its text, with an update to go.
Places ==
    \A p \in Proc : /\ pc[p] # "writing" => (fd[p] = "gone" /\ pos[p] = 0)
                    /\ pos[p] <= Len(Text(doc[p]))
                    /\ done[p] <= Limit(p)
                    /\ Active(p) => done[p] < Limit(p)

Files ==
    /\ there = {} => \A p \in Proc : pc[p] # "writing"
    /\ "state" \notin there => \A p \in Proc : done[p] = 0

\* Who updates is in the crew, unless main wrote beside orphans; otherwise main
\* updates only while no worker runs.
Turns ==
    /\ \A p \in Phone : Active(p) => (p \in crew \/ Main \in crew)
    /\ \A p \in Busy : p \in crew \/ Main \in crew \/ done[p] = 0
    /\ (Active(Main) /\ Main \notin crew) => solo
    /\ (Active(Main) /\ solo) => Busy = {}
    /\ Main \in crew => crew = {Main}

\* One worker at most wrote since main's last update.
Alone == Main \notin crew /\ \A p, q \in crew : p = q

\* The writer that the next state file is from, whatever came before it.
Sole(p) == Active(p) /\ ((p = Main /\ solo) \/ (Alone /\ p \in crew))

\* It is the only one that writes, into the temporary file, with what main wrote.
SoleWriter ==
    \A p \in Proc : Sole(p) =>
        /\ \A q \in Proc : q # p => ~ Active(q)
        /\ p \in DOMAIN doc[p] /\ doc[p][p] = done[p] + 1
        /\ pc[p] = "writing" => /\ fd[p] = "tmp" /\ "tmp" \in there
                                /\ disk["tmp"] = SubSeq(Text(doc[p]), 1, pos[p])
        /\ (p # Main /\ done[Main] > 0) => doc[p][Main] = done[Main]

Shows(c, p) == p \in DOMAIN Data(c) /\ Data(c)[p] = done[p]

Exact ==
    Alone /\ "state" \in there =>
        /\ Parses(disk["state"])
        /\ \A p \in crew \cup {Main} : done[p] > 0 => Shows(disk["state"], p)

\* Until main writes beside orphans, its entry is the latest one or 0 in all that
\* can become the state file.
GlobalKept ==
    Main \notin crew =>
        /\ OfMain(disk["state"], done[Main])
        /\ (Busy # {} \/ pc[Main] = "told") => OfMain(disk["tmp"], done[Main])
        /\ \A p \in Phone : Active(p) => doc[p][Main] \in {0, done[Main]}

IInv == Typed /\ Places /\ Files /\ Turns /\ SoleWriter /\ Exact /\ GlobalKept

\* With one writer after the other, who updates is that writer.
LEMMA AloneIsSole ==
  ASSUME Typed, Turns, Alone, NEW p \in Proc, Active(p)
  PROVE  Sole(p)
BY BoundsAre DEF Turns, Alone, Sole

LEMMA RawIs ==
  ASSUME Typed
  PROVE  /\ IsDoc(ReadRaw)
         /\ \A v : OfMain(disk["state"], v) => ReadRaw[Main] \in {0, v}
<1>1. disk["state"] \in Seq(Part)
  BY DEF Typed
<1>2. CASE "state" \in there /\ Parses(disk["state"])
  <2>1. ReadRaw = Data(disk["state"])
    BY <1>2 DEF ReadRaw
  <2>2. QED
    BY <1>1, <1>2, <2>1, DataIs, MainIsRead
<1>3. CASE ~ ("state" \in there /\ Parses(disk["state"]))
  <2>1. ReadRaw = Default
    BY <1>3 DEF ReadRaw
  <2>2. DOMAIN Default = {Main} /\ Default[Main] = 0
    BY DEF Default
  <2>3. IsDoc(Default)
    BY <2>2, BoundsAre DEF IsDoc
  <2>4. QED
    BY <2>1, <2>2, <2>3
<1>4. QED
  BY <1>2, <1>3

LEMMA DefaultIsDoc == IsDoc(Default) /\ Len(Text(Default)) \in Nat
<1>1. DOMAIN Default = {Main} /\ Default[Main] = 0
  BY DEF Default
<1>2. IsDoc(Default)
  BY <1>1, BoundsAre DEF IsDoc
<1>3. QED
  BY <1>2, TextIs DEF IsText

-----------------------------------------------------------------------------

LEMMA FleetInit == Init => IInv
<1> SUFFICES ASSUME Init PROVE IInv
  OBVIOUS
<1>1. /\ disk = [f \in {"state", "tmp"} |-> <<>>] /\ there = {}
      /\ pc = [p \in Proc |-> "off"] /\ doc = [p \in Proc |-> Default]
      /\ fd = [p \in Proc |-> "gone"] /\ pos = [p \in Proc |-> 0]
      /\ orphans = {} /\ done = [p \in Proc |-> 0] /\ solo = FALSE /\ crew = {}
  BY DEF Init
<1>2. Busy = {} /\ \A p \in Proc : ~ Active(p)
  BY <1>1, BoundsAre DEF Busy, Active
<1>3. disk["state"] = <<>> /\ disk["tmp"] = <<>> /\ <<>> \in Seq(Part)
  BY <1>1
<1>4. Typed
  BY <1>1, <1>2, <1>3, DefaultIsDoc DEF Typed
<1>5. Places
  BY <1>1, <1>2, BoundsAre, DefaultIsDoc DEF Places
<1>6. Files /\ Turns
  BY <1>1, <1>2, BoundsAre DEF Files, Turns
<1>7. SoleWriter /\ Exact
  BY <1>1, <1>2 DEF SoleWriter, Sole, Exact
<1>8. GlobalKept
  BY <1>2, <1>3, BoundsAre, NoneOfMain DEF GlobalKept
<1>9. QED
  BY <1>4, <1>5, <1>6, <1>7, <1>8 DEF IInv

\* An update reads the state file and is the next one its process writes.
LEMMA UpdateKeeps ==
  ASSUME IInv, NEW p \in Proc, Update(p)
  PROVE  IInv'
<1> DEFINE raw == ReadRaw
           new == [k \in DOMAIN raw \cup {p} |-> IF k = p THEN done[p] + 1 ELSE raw[k]]
<1>1. /\ pc[p] \in {"idle", "told"} /\ done[p] < Limit(p)
      /\ p = Main => Busy \subseteq orphans
      /\ doc' = [doc EXCEPT ![p] = new]
      /\ pc' = [pc EXCEPT ![p] = "changed"]
      /\ solo' = IF p = Main THEN orphans = {} ELSE solo
      /\ crew' = Wrote(p)
      /\ UNCHANGED <<disk, there, fd, pos, orphans, done>>
  BY DEF Update, fileVars
<1>2. Typed /\ Places /\ Files /\ Turns /\ SoleWriter /\ Exact /\ GlobalKept
  BY DEF IInv
<1>3. IsDoc(raw) /\ \A v : OfMain(disk["state"], v) => raw[Main] \in {0, v}
  BY <1>2, RawIs
<1>4. /\ done[p] \in Nat /\ Limit(p) \in Nat
      /\ \A q \in Proc : done[q] \in Nat
  BY <1>2, BoundsAre DEF Typed
<1>5. /\ DOMAIN new = DOMAIN raw \cup {p} /\ new[p] = done[p] + 1
      /\ \A k \in DOMAIN raw : k # p => new[k] = raw[k]
  OBVIOUS
<1> HIDE DEF raw, new
<1>6. IsDoc(new)
  <2>1. \A k \in DOMAIN new : new[k] \in 0 .. Limit(k)
    BY <1>1, <1>3, <1>4, <1>5 DEF IsDoc
  <2>2. QED
    BY <1>3, <1>5, <2>1 DEF IsDoc
<1>7. /\ doc'[p] = new /\ \A q \in Proc : q # p => doc'[q] = doc[q]
      /\ pc'[p] = "changed" /\ \A q \in Proc : q # p => pc'[q] = pc[q]
      /\ pc' \in [Proc -> {"off", "idle", "told", "changed", "writing"}]
      /\ doc' = [q \in Proc |-> doc'[q]]
  BY <1>1, <1>2 DEF Typed
<1>8. Busy' = Busy
  BY <1>1, <1>7, BoundsAre DEF Busy
<1>9. /\ \A q \in Proc : q # p => (Active(q)' <=> Active(q))
      /\ Active(p)' /\ ~ Active(p)
  BY <1>1, <1>7 DEF Active
<1>10. crew' \subseteq Proc
  BY <1>1, <1>2, BoundsAre DEF Wrote, Typed
<1>11. Typed'
  BY <1>1, <1>2, <1>6, <1>7, <1>8, <1>10 DEF Typed
<1>12. Places'
  <2>1. ASSUME NEW q \in Proc
        PROVE  /\ pc'[q] # "writing" => (fd'[q] = "gone" /\ pos'[q] = 0)
               /\ pos'[q] <= Len(Text(doc'[q]))
               /\ done'[q] <= Limit(q)
               /\ Active(q)' => done'[q] < Limit(q)
    <3>1. CASE q = p
      <4>1. fd'[p] = "gone" /\ pos'[p] = 0
        BY <1>1, <1>2 DEF Places
      <4>2. Len(Text(new)) \in Nat
        BY <1>6, TextIs DEF IsText
      <4>3. QED
        BY <1>1, <1>2, <1>7, <3>1, <4>1, <4>2 DEF Places
    <3>2. CASE q # p
      BY <1>1, <1>2, <1>7, <1>9, <3>2 DEF Places
    <3>3. QED
      BY <3>1, <3>2
  <2>2. QED
    BY <2>1 DEF Places
<1>13. Files'
  BY <1>1, <1>2, <1>7 DEF Files
<1>14. ASSUME p = Main
       PROVE  /\ solo' = (Busy = {}) /\ solo' \in BOOLEAN
              /\ crew' = IF Busy = {} THEN crew ELSE {Main}
  <2>1. orphans = Busy
    BY <1>1, <1>2, <1>14 DEF Typed
  <2>2. QED
    BY <1>1, <1>14, <2>1 DEF Wrote
<1>15. ASSUME p # Main
       PROVE  /\ p \in Busy /\ p \in Phone /\ solo' = solo
              /\ crew' = IF Main \in crew THEN {Main} ELSE crew \cup {p}
  BY <1>1, <1>15, BoundsAre DEF Wrote, Busy
<1>16. Turns'
  <2>1. CASE p = Main
    BY <1>1, <1>2, <1>8, <1>9, <1>14, <2>1, BoundsAre DEF Turns
  <2>2. CASE p # Main
    BY <1>1, <1>2, <1>8, <1>9, <1>15, <2>2, BoundsAre DEF Turns
  <2>3. QED
    BY <2>1, <2>2
\* Who is alone now was it before, and only p can be the sole writer.
<1>17. Alone' => Alone /\ (p # Main => \A q \in crew : q = p)
  <2>1. CASE p = Main
    BY <1>2, <1>14, <2>1 DEF Alone, Turns
  <2>2. CASE p # Main
    BY <1>15, <2>2, BoundsAre DEF Alone
  <2>3. QED
    BY <2>1, <2>2
<1>18. ASSUME NEW q \in Proc, Sole(q)'
       PROVE  q = p /\ \A r \in Proc : r # p => ~ Active(r)'
  <2>1. CASE p = Main
    <3>1. Busy = {}
      <4>1. CASE solo'
        BY <1>14, <2>1, <4>1
      <4>2. CASE ~ solo'
        <5>1. Alone'
          BY <1>18, <4>2 DEF Sole
        <5>2. QED
          BY <1>14, <2>1, <5>1 DEF Alone
      <4>3. QED
        BY <4>1, <4>2
    <3>2. \A r \in Proc : r # p => ~ Active(r)'
      BY <1>9, <2>1, <3>1, BoundsAre DEF Busy, Active
    <3>3. QED
      BY <1>18, <3>2 DEF Sole
  <2>2. CASE p # Main
    <3>1. ~ (Active(Main) /\ solo)
      BY <1>2, <1>15, <2>2 DEF Turns
    <3>2. Alone'
      BY <1>9, <1>15, <1>18, <2>2, <3>1, BoundsAre DEF Sole
    <3>3. q = p
      BY <1>9, <1>15, <1>17, <1>18, <2>2, <3>1, <3>2, BoundsAre DEF Sole
    <3>4. \A r \in Proc : r # p => ~ Active(r)
      BY <1>2, <1>17, <2>2, <3>1, <3>2, BoundsAre DEF Turns, Alone
    <3>5. QED
      BY <1>9, <3>3, <3>4
  <2>3. QED
    BY <2>1, <2>2
<1>19. ASSUME Alone, done[Main] > 0
       PROVE  raw[Main] = done[Main]
  <2>1. "state" \in there
    BY <1>2, <1>19, BoundsAre DEF Files
  <2>2. Parses(disk["state"]) /\ Shows(disk["state"], Main)
    BY <1>2, <1>19, <2>1 DEF Exact
  <2>3. QED
    BY <2>1, <2>2 DEF raw, ReadRaw, Shows
<1>20. SoleWriter'
  <2>1. ASSUME Sole(p)'
        PROVE  /\ \A r \in Proc : r # p => ~ Active(r)'
               /\ p \in DOMAIN doc'[p] /\ doc'[p][p] = done'[p] + 1
               /\ pc'[p] # "writing"
               /\ (p # Main /\ done'[Main] > 0) => doc'[p][Main] = done'[Main]
    <3>1. (p # Main /\ done[Main] > 0) => new[Main] = done[Main]
      <4>1. SUFFICES ASSUME p # Main, done[Main] > 0 PROVE new[Main] = done[Main]
        OBVIOUS
      <4>2. Alone'
        <5>1. ~ (p = Main /\ solo')
          BY <4>1
        <5>2. QED
          BY <2>1, <5>1 DEF Sole
      <4>3. raw[Main] = done[Main] /\ Main \in DOMAIN raw
        BY <1>3, <1>17, <1>19, <4>1, <4>2 DEF IsDoc
      <4>4. QED
        BY <1>5, <4>1, <4>3
    <3>2. QED
      BY <1>1, <1>5, <1>7, <1>18, <2>1, <3>1
  <2>2. QED
    BY <1>18, <2>1 DEF SoleWriter
<1>21. Exact'
  <2>1. SUFFICES ASSUME Alone', "state" \in there
                 PROVE  /\ Parses(disk["state"])
                        /\ \A q \in crew' \cup {Main} : done[q] > 0 => Shows(disk["state"], q)
    BY <1>1 DEF Exact, Shows
  <2>2. /\ Parses(disk["state"])
        /\ \A q \in crew \cup {Main} : done[q] > 0 => Shows(disk["state"], q)
    BY <1>2, <1>17, <2>1 DEF Exact
  <2>3. ASSUME NEW q \in crew', q \notin crew PROVE done[q] = 0
    <3>1. p # Main
      BY <1>14, <2>1, <2>3 DEF Alone
    <3>2. q = p
      BY <1>15, <2>1, <2>3, <3>1 DEF Alone
    <3>3. Main \notin crew
      BY <1>17, <2>1 DEF Alone
    <3>4. QED
      BY <1>2, <1>15, <2>3, <3>1, <3>2, <3>3 DEF Turns
  <2>4. QED
    BY <2>2, <2>3
<1>22. GlobalKept'
  <2>1. SUFFICES ASSUME Main \notin crew' PROVE GlobalKept'
    BY DEF GlobalKept
  <2>2. Main \notin crew
    <3>1. CASE p = Main
      BY <1>14, <2>1, <3>1
    <3>2. CASE p # Main
      BY <1>15, <2>1, <3>2
    <3>3. QED
      BY <3>1, <3>2
  <2>3. pc'[Main] # "told" \/ pc[Main] = "told"
    BY <1>7, BoundsAre
  <2>4. ASSUME NEW q \in Phone, Active(q)' PROVE doc'[q][Main] \in {0, done[Main]}
    <3>1. CASE q # p
      BY <1>2, <1>7, <1>9, <2>2, <2>4, <3>1, BoundsAre DEF GlobalKept
    <3>2. CASE q = p
      <4>1. p # Main /\ raw[Main] \in {0, done[Main]} /\ Main \in DOMAIN raw
        BY <1>2, <1>3, <2>2, <3>2, BoundsAre DEF GlobalKept, IsDoc
      <4>2. QED
        BY <1>5, <1>7, <3>2, <4>1
    <3>3. QED
      BY <3>1, <3>2
  <2>5. QED
    BY <1>1, <1>2, <1>8, <2>2, <2>3, <2>4 DEF GlobalKept
<1>23. QED
  BY <1>11, <1>12, <1>13, <1>16, <1>20, <1>21, <1>22 DEF IInv

\* Who opens the temporary file empties it, also under another one's hands.
LEMMA OpenKeeps ==
  ASSUME IInv, NEW p \in Proc, Open(p)
  PROVE  IInv'
<1>1. /\ pc[p] = "changed"
      /\ there' = there \cup {"tmp"} /\ disk' = [disk EXCEPT !["tmp"] = <<>>]
      /\ fd' = [fd EXCEPT ![p] = "tmp"] /\ pc' = [pc EXCEPT ![p] = "writing"]
      /\ UNCHANGED <<doc, pos, orphans, done, solo, crew>>
  BY DEF Open
<1>2. Typed /\ Places /\ Files /\ Turns /\ SoleWriter /\ Exact /\ GlobalKept
  BY DEF IInv
<1>3. /\ disk'["tmp"] = <<>> /\ disk'["state"] = disk["state"]
      /\ disk' \in [{"state", "tmp"} -> Seq(Part)]
  <2>1. <<>> \in Seq(Part)
    OBVIOUS
  <2>2. QED
    BY <1>1, <1>2, <2>1 DEF Typed
<1>4. /\ pc'[p] = "writing" /\ \A q \in Proc : q # p => pc'[q] = pc[q]
      /\ fd'[p] = "tmp" /\ \A q \in Proc : q # p => fd'[q] = fd[q]
      /\ pc' \in [Proc -> {"off", "idle", "told", "changed", "writing"}]
      /\ fd' \in [Proc -> {"state", "tmp", "gone"}]
  BY <1>1, <1>2 DEF Typed
<1>5. Busy' = Busy
  BY <1>1, <1>4, BoundsAre DEF Busy
<1>6. \A q \in Proc : Active(q)' <=> Active(q)
  BY <1>1, <1>4 DEF Active
<1>7. Typed'
  BY <1>1, <1>2, <1>3, <1>4, <1>5 DEF Typed
<1>8. Places'
  BY <1>1, <1>2, <1>4, <1>6 DEF Places
<1>9. Files'
  BY <1>1, <1>2 DEF Files
<1>10. Turns'
  BY <1>1, <1>2, <1>5, <1>6, BoundsAre DEF Turns
<1>11. \A q \in Proc : Sole(q)' <=> Sole(q)
  BY <1>1, <1>6 DEF Sole, Alone
<1>12. SoleWriter'
  <2>1. ASSUME NEW q \in Proc, Sole(q) PROVE q = p
    BY <1>1, <1>2, <2>1 DEF SoleWriter, Active
  <2>2. Sole(p) => SubSeq(Text(doc[p]), 1, pos[p]) = <<>>
    <3>1. pos[p] = 0
      BY <1>1, <1>2 DEF Places
    <3>2. QED
      BY <3>1, SubSeqEmpty
  <2>3. ASSUME Sole(p)
        PROVE  /\ \A q \in Proc : q # p => ~ Active(q)'
               /\ p \in DOMAIN doc'[p] /\ doc'[p][p] = done'[p] + 1
               /\ fd'[p] = "tmp" /\ "tmp" \in there'
               /\ disk'["tmp"] = SubSeq(Text(doc'[p]), 1, pos'[p])
               /\ (p # Main /\ done'[Main] > 0) => doc'[p][Main] = done'[Main]
    BY <1>1, <1>2, <1>3, <1>4, <1>6, <2>2, <2>3 DEF SoleWriter
  <2>4. QED
    BY <1>11, <2>1, <2>3 DEF SoleWriter
<1>13. Exact'
  BY <1>1, <1>2, <1>3 DEF Exact, Alone, Shows
<1>14. GlobalKept'
  <2>1. pc'[Main] = "told" => pc[Main] = "told"
    BY <1>4, BoundsAre
  <2>2. QED
    BY <1>1, <1>2, <1>3, <1>5, <1>6, <2>1, BoundsAre, NoneOfMain DEF GlobalKept
<1>15. QED
  BY <1>7, <1>8, <1>9, <1>10, <1>12, <1>13, <1>14 DEF IInv

\* Parts of the text reach whatever file the process has open.
LEMMA WriteKeeps ==
  ASSUME IInv, NEW p \in Proc, Write(p)
  PROVE  IInv'
<1> DEFINE t == Text(doc[p])
           n == Min({Buffer, Len(t) - pos[p]})
           f == fd[p]
<1>1. /\ pc[p] = "writing" /\ n > 0
      /\ disk' = IF f = "gone" THEN disk ELSE [disk EXCEPT ![f] = Put(@, t, pos[p], n)]
      /\ pos' = [pos EXCEPT ![p] = @ + n]
      /\ UNCHANGED <<there, pc, doc, fd, orphans, done, solo, crew>>
  BY DEF Write
<1>2. Typed /\ Places /\ Files /\ Turns /\ SoleWriter /\ Exact /\ GlobalKept
  BY DEF IInv
<1>3. IsDoc(doc[p]) /\ f \in {"state", "tmp", "gone"} /\ pos[p] \in Nat /\ pos[p] <= Len(t)
  BY <1>2 DEF Typed, Places
<1>4. t \in Seq(Part) /\ Len(t) \in Nat
  BY <1>3, TextIs DEF IsText
<1> HIDE DEF t, f
<1>5. n \in Nat /\ pos[p] + n <= Len(t)
  <2>1. n = IF Buffer <= Len(t) - pos[p] THEN Buffer ELSE Len(t) - pos[p]
    BY <1>3, <1>4, BoundsAre, LeastOfTwo
  <2> HIDE DEF n
  <2>2. QED
    BY <1>1, <1>3, <1>4, <2>1, BoundsAre
<1> HIDE DEF n
<1>6. /\ pos'[p] = pos[p] + n /\ \A q \in Proc : q # p => pos'[q] = pos[q]
      /\ pos' \in [Proc -> Nat]
  BY <1>1, <1>2, <1>5 DEF Typed
<1>7. ASSUME f # "gone"
      PROVE  /\ f \in {"state", "tmp"} /\ disk[f] \in Seq(Part)
             /\ disk'[f] = Put(disk[f], t, pos[p], n)
             /\ \A g \in {"state", "tmp"} : g # f => disk'[g] = disk[g]
             /\ disk' = [g \in {"state", "tmp"} |-> disk'[g]]
  BY <1>1, <1>2, <1>3, <1>7 DEF Typed
<1>8. disk' \in [{"state", "tmp"} -> Seq(Part)]
  <2>1. CASE f = "gone"
    BY <1>1, <1>2, <2>1 DEF Typed
  <2>2. CASE f # "gone"
    <3>1. Put(disk[f], t, pos[p], n) \in Seq(Part)
      BY <1>3, <1>4, <1>5, <1>7, <2>2, PutIs
    <3>2. \A g \in {"state", "tmp"} : disk'[g] \in Seq(Part)
      BY <1>2, <1>7, <2>2, <3>1 DEF Typed
    <3>3. QED
      BY <1>7, <2>2, <3>2
  <2>3. QED
    BY <2>1, <2>2
<1>9. /\ Busy' = Busy
      /\ \A q \in Proc : (Active(q)' <=> Active(q)) /\ (Sole(q)' <=> Sole(q))
      /\ Active(p) /\ (Alone' <=> Alone)
  BY <1>1 DEF Busy, Active, Sole, Alone
<1>10. Typed'
  BY <1>1, <1>2, <1>6, <1>8, <1>9 DEF Typed
<1>11. Places'
  <2>1. Len(Text(doc'[p])) = Len(t) /\ pos'[p] <= Len(t)
    BY <1>1, <1>5, <1>6 DEF t
  <2>2. QED
    BY <1>1, <1>2, <1>6, <1>9, <2>1 DEF Places
<1>12. Files' /\ Turns'
  BY <1>1, <1>2, <1>9, BoundsAre DEF Files, Turns
\* The sole writer has the temporary file to itself.
<1>13. ASSUME Sole(p)
       PROVE  /\ f = "tmp" /\ disk'["state"] = disk["state"]
              /\ disk'["tmp"] = SubSeq(Text(doc'[p]), 1, pos'[p])
  <2>1. f = "tmp" /\ disk["tmp"] = SubSeq(t, 1, pos[p])
    BY <1>1, <1>2, <1>13 DEF SoleWriter, t, f
  <2>2. disk'["tmp"] = Put(SubSeq(t, 1, pos[p]), t, pos[p], n) /\ disk'["state"] = disk["state"]
    BY <1>7, <2>1
  <2>3. Put(SubSeq(t, 1, pos[p]), t, pos[p], n) = SubSeq(t, 1, pos[p] + n)
    BY <1>3, <1>4, <1>5, PutContinues
  <2>4. Text(doc'[p]) = t
    BY <1>1 DEF t
  <2>5. QED
    BY <1>6, <2>1, <2>2, <2>3, <2>4
<1>14. SoleWriter'
  <2>1. ASSUME NEW q \in Proc, Sole(q) PROVE q = p
    BY <1>2, <1>9, <2>1 DEF SoleWriter
  <2>2. QED
    BY <1>1, <1>2, <1>9, <1>13, <2>1 DEF SoleWriter
<1>15. Exact'
  <2>1. Alone => disk'["state"] = disk["state"]
    BY <1>2, <1>9, <1>13, AloneIsSole
  <2>2. QED
    BY <1>1, <1>2, <1>9, <2>1 DEF Exact, Shows
<1>16. GlobalKept'
  <2>1. SUFFICES ASSUME Main \notin crew PROVE GlobalKept'
    BY <1>1 DEF GlobalKept
  <2>2. CASE p = Main
    <3>1. solo /\ Busy = {} /\ pc[Main] # "told"
      BY <1>1, <1>2, <1>9, <2>1, <2>2 DEF Turns
    <3>2. disk'["state"] = disk["state"]
      BY <1>9, <1>13, <2>2, <3>1 DEF Sole
    <3>3. QED
      BY <1>1, <1>2, <1>9, <2>1, <3>1, <3>2, BoundsAre DEF GlobalKept
  <2>3. CASE p # Main
    <3>1. p \in Phone /\ p \in Busy
      BY <1>1, <2>3, BoundsAre DEF Busy
    <3>2. /\ OfMain(disk["state"], done[Main]) /\ OfMain(disk["tmp"], done[Main])
          /\ doc[p][Main] \in {0, done[Main]}
      BY <1>2, <1>9, <2>1, <3>1 DEF GlobalKept
    <3>3. OfMain(t, done[Main])
      BY <1>3, <3>2, TextOfMain DEF t
    <3>4. f # "gone" => OfMain(Put(disk[f], t, pos[p], n), done[Main])
      BY <1>3, <1>4, <1>5, <1>7, <3>2, <3>3, PutOfMain
    <3>5. OfMain(disk'["state"], done[Main]) /\ OfMain(disk'["tmp"], done[Main])
      BY <1>1, <1>7, <3>2, <3>4
    <3>6. QED
      BY <1>1, <1>2, <1>9, <2>1, <3>5, BoundsAre DEF GlobalKept
  <2>4. QED
    BY <2>2, <2>3
<1>17. QED
  BY <1>10, <1>11, <1>12, <1>14, <1>15, <1>16 DEF IInv

\* A whole text, or what several processes wrote over one another, becomes the
\* state file; if it has become it already, nothing happens.
LEMMA ReplaceKeeps ==
  ASSUME IInv, NEW p \in Proc, Replace(p)
  PROVE  IInv'
<1> DEFINE t == Text(doc[p])
<1>1. /\ pc[p] = "writing" /\ pos[p] = Len(t)
      /\ IF "tmp" \in there
         THEN /\ disk' = [f \in {"state", "tmp"} |-> IF f = "state" THEN disk["tmp"] ELSE <<>>]
              /\ there' = {"state"}
              /\ fd' = [q \in Proc |-> IF q = p THEN "gone" ELSE Renamed(fd[q])]
         ELSE /\ fd' = [fd EXCEPT ![p] = "gone"]
              /\ disk' = disk /\ there' = there
      /\ pc' = [pc EXCEPT ![p] = IF p = Main THEN "told" ELSE "idle"]
      /\ doc' = [doc EXCEPT ![p] = Default]
      /\ pos' = [pos EXCEPT ![p] = 0]
      /\ done' = [done EXCEPT ![p] = @ + 1]
      /\ crew' = IF p = Main /\ solo THEN {} ELSE crew
      /\ solo' = IF p = Main THEN FALSE ELSE solo
      /\ orphans' = orphans
  BY DEF Replace, fileVars
<1>2. Typed /\ Places /\ Files /\ Turns /\ SoleWriter /\ Exact /\ GlobalKept
  BY DEF IInv
<1>3. IsText(t, doc[p]) /\ IsDoc(doc[p])
  BY <1>2, TextIs DEF Typed
<1> HIDE DEF t
<1>4. /\ pc'[p] \in {"idle", "told"} /\ \A q \in Proc : q # p => pc'[q] = pc[q]
      /\ pc'[p] = "told" => p = Main
      /\ pc' \in [Proc -> {"off", "idle", "told", "changed", "writing"}]
  BY <1>1, <1>2 DEF Typed
<1>5. /\ doc'[p] = Default /\ \A q \in Proc : q # p => doc'[q] = doc[q]
      /\ doc' = [q \in Proc |-> doc'[q]]
      /\ \A q \in Proc : IsDoc(doc'[q])
  BY <1>1, <1>2, DefaultIsDoc DEF Typed
<1>6. /\ pos'[p] = 0 /\ \A q \in Proc : q # p => pos'[q] = pos[q]
      /\ pos' \in [Proc -> Nat]
  BY <1>1, <1>2 DEF Typed
<1>7. /\ done'[p] = done[p] + 1 /\ done[p] \in Nat
      /\ \A q \in Proc : q # p => done'[q] = done[q]
      /\ done' \in [Proc -> Nat]
  BY <1>1, <1>2 DEF Typed
<1>8. /\ fd'[p] = "gone" /\ \A q \in Proc : fd[q] = "gone" => fd'[q] = "gone"
      /\ fd' \in [Proc -> {"state", "tmp", "gone"}]
  BY <1>1, <1>2 DEF Typed, Renamed
<1>9. /\ disk' \in [{"state", "tmp"} -> Seq(Part)]
      /\ "tmp" \in there => (disk'["state"] = disk["tmp"] /\ disk'["tmp"] = <<>>)
  <2>1. <<>> \in Seq(Part) /\ disk["tmp"] \in Seq(Part)
    BY <1>2 DEF Typed
  <2>2. QED
    BY <1>1, <1>2, <2>1 DEF Typed
<1>10. "state" \in there' /\ there' \subseteq {"state", "tmp"}
  BY <1>1, <1>2 DEF Files, Typed
<1>11. Busy' = Busy
  BY <1>1, <1>4, BoundsAre DEF Busy
<1>12. /\ Active(p) /\ ~ Active(p)'
       /\ \A q \in Proc : q # p => (Active(q)' <=> Active(q))
       /\ p \in Phone => p \in Busy
  BY <1>1, <1>4 DEF Active, Busy
<1>13. Typed'
  <2>1. crew' \subseteq Proc /\ solo' \in BOOLEAN
    BY <1>1, <1>2 DEF Typed
  <2>2. QED
    BY <1>1, <1>2, <1>4, <1>5, <1>6, <1>7, <1>8, <1>9, <1>10, <1>11, <2>1 DEF Typed
<1>14. Places'
  <2>1. done'[p] <= Limit(p) /\ pos'[p] <= Len(Text(doc'[p]))
    BY <1>2, <1>5, <1>6, <1>7, <1>12, BoundsAre, DefaultIsDoc DEF Places
  <2>2. QED
    BY <1>2, <1>4, <1>5, <1>6, <1>7, <1>8, <1>12, <2>1 DEF Places
<1>15. Files'
  BY <1>10 DEF Files
<1>16. (p = Main /\ solo) => Busy = {}
  BY <1>2, <1>12 DEF Turns
<1>17. p # Main => (p \in Phone /\ (p \in crew \/ Main \in crew))
  BY <1>2, <1>12, BoundsAre DEF Turns
<1>18. Turns'
  <2>1. ASSUME NEW q \in Phone, Active(q)' PROVE q \in crew' \/ Main \in crew'
    <3>1. q # p /\ Active(q) /\ q \in Busy
      BY <1>12, <2>1, BoundsAre DEF Active, Busy
    <3>2. QED
      BY <1>1, <1>2, <1>16, <3>1 DEF Turns
  <2>2. ASSUME NEW q \in Busy PROVE q \in crew' \/ Main \in crew' \/ done'[q] = 0
    <3>1. q \in Proc /\ crew' = crew
      BY <1>1, <1>16, <2>2, BoundsAre DEF Busy
    <3>2. CASE q = p
      BY <1>17, <2>2, <3>1, <3>2, BoundsAre DEF Busy
    <3>3. CASE q # p
      BY <1>2, <1>7, <2>2, <3>1, <3>3 DEF Turns
    <3>4. QED
      BY <3>2, <3>3
  <2>3. Active(Main)' => (p # Main /\ Active(Main))
    BY <1>12, BoundsAre
  <2>4. QED
    BY <1>1, <1>2, <1>11, <2>1, <2>2, <2>3 DEF Turns
<1>19. ASSUME NEW q \in Proc, Sole(q)' PROVE FALSE
  <2>1. q # p /\ Active(q)
    BY <1>12, <1>19 DEF Sole
  <2>2. Sole(q)
    BY <1>1, <1>19, <2>1 DEF Sole, Alone
  <2>3. QED
    BY <1>2, <1>12, <2>1, <2>2 DEF SoleWriter
<1>20. SoleWriter'
  BY <1>19 DEF SoleWriter
\* The sole writer's text is the state file now.
<1>21. ASSUME Sole(p)
       PROVE  disk'["state"] = t /\ disk'["tmp"] = <<>>
  <2>1. "tmp" \in there /\ disk["tmp"] = SubSeq(t, 1, pos[p])
    BY <1>1, <1>2, <1>21 DEF SoleWriter, t
  <2>2. SubSeq(t, 1, Len(t)) = t
    <3>1. t \in Seq(Part)
      BY <1>3 DEF IsText
    <3>2. QED
      BY <3>1, SubSeqFull
  <2>3. QED
    BY <1>1, <1>9, <2>1, <2>2
<1>22. Exact'
  <2>1. SUFFICES ASSUME Alone'
                 PROVE  /\ Parses(disk'["state"])
                        /\ \A q \in crew' \cup {Main} : done'[q] > 0 => Shows(disk["state"], q)'
    BY DEF Exact
  <2>2. Sole(p)
    BY <1>1, <1>2, <1>12, <2>1, AloneIsSole DEF Sole, Alone
  <2>3. disk'["state"] = t /\ Parses(t)
    BY <1>3, <1>21, <2>2, TextIsRead
  <2>4. \A k \in DOMAIN doc[p] : k \in DOMAIN Data(t) /\ Data(t)[k] = doc[p][k]
    BY <1>3, TextIsRead
  <2>5. ASSUME NEW q \in crew' \cup {Main}, done'[q] > 0
        PROVE  q \in DOMAIN doc[p] /\ doc[p][q] = done'[q]
    <3>1. CASE q = p
      BY <1>2, <1>7, <2>2, <3>1 DEF SoleWriter
    <3>2. CASE q # p
      <4>1. p # Main
        BY <1>1, <1>2, <1>12, <2>1, <2>5, <3>2 DEF Turns, Alone
      <4>2. q = Main
        BY <1>1, <1>17, <2>1, <2>5, <3>2, <4>1 DEF Alone
      <4>3. done'[Main] = done[Main]
        BY <1>7, <4>1, BoundsAre
      <4>4. QED
        BY <1>2, <1>3, <2>2, <2>5, <4>1, <4>2, <4>3 DEF SoleWriter, IsDoc
    <3>3. QED
      BY <3>1, <3>2
  <2>6. QED
    BY <2>3, <2>4, <2>5 DEF Shows
<1>23. GlobalKept'
  <2>1. SUFFICES ASSUME Main \notin crew' PROVE GlobalKept'
    BY DEF GlobalKept
  <2>2. CASE p = Main
    <3>1. solo /\ Sole(p) /\ Busy = {}
      BY <1>1, <1>2, <1>12, <1>16, <2>1, <2>2 DEF Turns, Sole
    <3>2. disk'["state"] = t /\ disk'["tmp"] = <<>>
      BY <1>21, <3>1
    <3>3. doc[Main][Main] = done'[Main]
      BY <1>2, <1>7, <2>2, <3>1 DEF SoleWriter
    <3>4. OfMain(t, done'[Main])
      BY <1>3, <2>2, <3>3, TextOfMain DEF t
    <3>5. \A q \in Phone : ~ Active(q)'
      BY <1>11, <3>1, BoundsAre DEF Busy, Active
    <3>6. QED
      BY <3>2, <3>4, <3>5, NoneOfMain DEF GlobalKept
  <2>3. CASE p # Main
    <3>1. Main \notin crew /\ p \in Busy /\ done'[Main] = done[Main]
      BY <1>1, <1>7, <1>12, <1>17, <2>1, <2>3, BoundsAre
    <3>2. OfMain(disk["state"], done[Main]) /\ OfMain(disk["tmp"], done[Main])
      BY <1>2, <3>1 DEF GlobalKept
    <3>3. OfMain(disk'["state"], done[Main]) /\ OfMain(disk'["tmp"], done[Main])
      BY <1>1, <1>9, <3>2, NoneOfMain
    <3>4. ASSUME NEW q \in Phone, Active(q)' PROVE doc'[q][Main] \in {0, done[Main]}
      <4>1. q # p /\ Active(q)
        BY <1>12, <3>4, BoundsAre
      <4>2. QED
        BY <1>2, <1>5, <3>1, <4>1, BoundsAre DEF GlobalKept
    <3>5. QED
      BY <3>1, <3>3, <3>4 DEF GlobalKept
  <2>4. QED
    BY <2>2, <2>3
<1>24. QED
  BY <1>13, <1>14, <1>15, <1>18, <1>20, <1>22, <1>23 DEF IInv

-----------------------------------------------------------------------------

\* The workers of a cycle have not updated anything yet.
LEMMA StartWorkersKeeps ==
  ASSUME IInv, StartWorkers
  PROVE  IInv'
<1>1. PICK team \in SUBSET (Phone \ Busy) :
         /\ team # {}
         /\ pc' = [p \in Proc |-> IF p \in team \cup {Main} THEN "idle" ELSE pc[p]]
         /\ done' = [p \in Proc |-> IF p \in team THEN 0 ELSE done[p]]
  BY DEF StartWorkers
<1>2. /\ pc[Main] = "told" /\ UNCHANGED <<disk, there, doc, fd, pos, orphans, solo, crew>>
  BY DEF StartWorkers, fileVars
<1>3. Typed /\ Places /\ Files /\ Turns /\ SoleWriter /\ Exact /\ GlobalKept
  BY DEF IInv
<1>4. ASSUME NEW p \in Proc
      PROVE  /\ p \in team \cup {Main} => (~ Active(p) /\ ~ Active(p)' /\ pc'[p] = "idle" /\ pc[p] # "writing")
             /\ p \notin team \cup {Main} => (pc'[p] = pc[p] /\ (Active(p)' <=> Active(p)))
             /\ p \in team => (done'[p] = 0 /\ p \in Phone)
             /\ p \notin team => done'[p] = done[p]
  <2>1. p \in team => pc[p] = "off"
    BY <1>1 DEF Busy
  <2>2. QED
    BY <1>1, <1>2, <2>1 DEF Active
<1>5. Busy' = Busy \cup team /\ team \subseteq Phone /\ Main \notin team
  <2>1. team \subseteq Phone /\ Main \notin team
    BY <1>1, BoundsAre
  <2>2. \A p \in Phone : pc'[p] # "off" <=> (p \in team \/ pc[p] # "off")
    BY <1>1, <2>1, BoundsAre
  <2>3. QED
    BY <2>1, <2>2 DEF Busy
<1>6. Typed'
  <2>1. pc' \in [Proc -> {"off", "idle", "told", "changed", "writing"}] /\ done' \in [Proc -> Nat]
    BY <1>1, <1>3 DEF Typed
  <2>2. orphans' \subseteq Busy'
    BY <1>2, <1>3, <1>5 DEF Typed
  <2>3. QED
    BY <1>2, <1>3, <2>1, <2>2 DEF Typed
<1>7. Places'
  <2>1. ASSUME NEW p \in Proc
        PROVE  /\ pc'[p] # "writing" => pc[p] # "writing"
               /\ Active(p)' => (Active(p) /\ done'[p] = done[p])
               /\ done'[p] <= Limit(p)
    <3>1. done[p] <= Limit(p) /\ 0 <= Limit(p)
      BY <1>3, BoundsAre DEF Places
    <3>2. QED
      BY <1>4, <3>1
  <2>2. QED
    BY <1>2, <1>3, <2>1 DEF Places
<1>8. Files'
  <2>1. \A p \in Proc : (pc'[p] = "writing" => pc[p] = "writing") /\ (done[p] = 0 => done'[p] = 0)
    BY <1>4
  <2>2. QED
    BY <1>2, <1>3, <2>1 DEF Files
<1>9. ~ Active(Main)' /\ done'[Main] = done[Main] /\ \A p \in Proc : Active(p)' => (Active(p) /\ p \notin team)
  BY <1>4, <1>5, BoundsAre
<1>10. Turns'
  <2>1. \A p \in Busy' : p \in crew \/ Main \in crew \/ done'[p] = 0
    <3>1. SUFFICES ASSUME NEW p \in Busy' PROVE p \in crew \/ Main \in crew \/ done'[p] = 0
      OBVIOUS
    <3>2. p \in Proc
      BY <1>5, BoundsAre DEF Busy
    <3>3. CASE p \in team
      BY <1>4, <3>2, <3>3
    <3>4. CASE p \notin team
      BY <1>3, <1>4, <1>5, <3>2, <3>4 DEF Turns
    <3>5. QED
      BY <3>3, <3>4
  <2>2. QED
    BY <1>2, <1>3, <1>9, <2>1, BoundsAre DEF Turns
<1>11. SoleWriter'
  <2>1. ASSUME NEW p \in Proc, Sole(p)'
        PROVE  /\ Sole(p) /\ done'[p] = done[p]
               /\ \A q \in Proc : Active(q)' => Active(q)
               /\ pc'[p] = "writing" => pc[p] = "writing"
    BY <1>2, <1>4, <1>9, <2>1 DEF Sole, Alone
  <2>2. QED
    BY <1>2, <1>3, <1>9, <2>1 DEF SoleWriter
<1>12. Exact'
  <2>1. ASSUME NEW p \in crew \cup {Main}, done'[p] > 0
        PROVE  done[p] > 0 /\ done'[p] = done[p]
    <3>1. p \in Proc
      BY <1>3, BoundsAre DEF Typed
    <3>2. p \notin team
      BY <1>4, <2>1, <3>1
    <3>3. QED
      BY <1>4, <2>1, <3>1, <3>2
  <2>2. QED
    BY <1>2, <1>3, <2>1 DEF Exact, Alone, Shows
<1>13. GlobalKept'
  <2>1. \A p \in Phone : Active(p)' => Active(p)
    BY <1>9, BoundsAre
  <2>2. QED
    BY <1>2, <1>3, <1>9, <2>1 DEF GlobalKept
<1>14. QED
  BY <1>6, <1>7, <1>8, <1>10, <1>11, <1>12, <1>13 DEF IInv

\* A process that ends, or is killed wherever it is, leaves the files as they are.
LEMMA GoneKeeps ==
  ASSUME IInv, NEW p \in Proc, Gone(p), orphans' \subseteq Busy \ {p},
         UNCHANGED <<disk, there, done, solo, crew>>
  PROVE  IInv'
<1>1. /\ pc' = [pc EXCEPT ![p] = "off"] /\ doc' = [doc EXCEPT ![p] = Default]
      /\ fd' = [fd EXCEPT ![p] = "gone"] /\ pos' = [pos EXCEPT ![p] = 0]
  BY DEF Gone
<1>2. Typed /\ Places /\ Files /\ Turns /\ SoleWriter /\ Exact /\ GlobalKept
  BY DEF IInv
<1>3. /\ pc'[p] = "off" /\ \A q \in Proc : q # p => pc'[q] = pc[q]
      /\ doc'[p] = Default /\ \A q \in Proc : q # p => doc'[q] = doc[q]
      /\ fd'[p] = "gone" /\ \A q \in Proc : q # p => fd'[q] = fd[q]
      /\ pos'[p] = 0 /\ \A q \in Proc : q # p => pos'[q] = pos[q]
  BY <1>1, <1>2 DEF Typed
<1>4. /\ ~ Active(p)' /\ \A q \in Proc : Active(q)' => (q # p /\ Active(q))
      /\ \A q \in Proc : pc'[q] = "writing" => (q # p /\ pc[q] = "writing")
  BY <1>3 DEF Active
<1>5. Busy' = Busy \ {p}
  BY <1>3, BoundsAre DEF Busy
<1>6. Typed'
  <2>1. /\ pc' \in [Proc -> {"off", "idle", "told", "changed", "writing"}]
        /\ fd' \in [Proc -> {"state", "tmp", "gone"}] /\ pos' \in [Proc -> Nat]
        /\ doc' = [q \in Proc |-> doc'[q]]
    BY <1>1, <1>2 DEF Typed
  <2>2. \A q \in Proc : IsDoc(doc'[q])
    BY <1>2, <1>3, DefaultIsDoc DEF Typed
  <2>3. QED
    BY <1>2, <1>5, <2>1, <2>2 DEF Typed
<1>7. Places'
  <2>1. pos'[p] <= Len(Text(doc'[p]))
    BY <1>3, DefaultIsDoc
  <2>2. QED
    BY <1>2, <1>3, <1>4, <2>1 DEF Places
<1>8. Files'
  BY <1>2, <1>4 DEF Files
<1>9. Turns'
  BY <1>2, <1>4, <1>5, BoundsAre DEF Turns
<1>10. SoleWriter'
  <2>1. ASSUME NEW q \in Proc, Sole(q)' PROVE Sole(q) /\ q # p
    BY <1>4, <2>1 DEF Sole, Alone
  <2>2. QED
    BY <1>2, <1>3, <1>4, <2>1 DEF SoleWriter
<1>11. Exact'
  BY <1>2 DEF Exact, Alone, Shows
<1>12. GlobalKept'
  <2>1. pc'[Main] = "told" => pc[Main] = "told"
    BY <1>3, BoundsAre
  <2>2. \A q \in Phone : Active(q)' => (Active(q) /\ doc'[q] = doc[q])
    BY <1>3, <1>4, BoundsAre
  <2>3. Busy' # {} => Busy # {}
    BY <1>5
  <2>4. QED
    BY <1>2, <2>1, <2>2, <2>3 DEF GlobalKept
<1>13. QED
  BY <1>6, <1>7, <1>8, <1>9, <1>10, <1>11, <1>12 DEF IInv

LEMMA MainStartsKeeps ==
  ASSUME IInv, MainStarts
  PROVE  IInv'
<1>1. /\ pc[Main] = "off" /\ pc' = [pc EXCEPT ![Main] = "idle"]
      /\ UNCHANGED <<disk, there, doc, fd, pos, orphans, done, solo, crew>>
  BY DEF MainStarts, fileVars
<1>2. Typed /\ Places /\ Files /\ Turns /\ SoleWriter /\ Exact /\ GlobalKept
  BY DEF IInv
<1>3. pc'[Main] = "idle" /\ \A q \in Proc : q # Main => pc'[q] = pc[q]
  BY <1>1, <1>2, BoundsAre DEF Typed
<1>4. /\ \A q \in Proc : (Active(q)' <=> Active(q)) /\ (pc'[q] = "writing" <=> pc[q] = "writing")
      /\ Busy' = Busy
  BY <1>1, <1>3, BoundsAre DEF Active, Busy
<1>5. Typed'
  <2>1. pc' \in [Proc -> {"off", "idle", "told", "changed", "writing"}]
    BY <1>1, <1>2 DEF Typed
  <2>2. QED
    BY <1>1, <1>2, <1>4, <2>1 DEF Typed
<1>6. Places'
  BY <1>1, <1>2, <1>4 DEF Places
<1>7. Files' /\ Turns'
  BY <1>1, <1>2, <1>4, BoundsAre DEF Files, Turns
<1>8. SoleWriter'
  BY <1>1, <1>2, <1>4 DEF SoleWriter, Sole, Alone
<1>9. Exact'
  BY <1>1, <1>2 DEF Exact, Alone, Shows
<1>10. GlobalKept'
  BY <1>1, <1>2, <1>3, <1>4, BoundsAre DEF GlobalKept
<1>11. QED
  BY <1>5, <1>6, <1>7, <1>8, <1>9, <1>10 DEF IInv

LEMMA FleetStep ==
  ASSUME IInv, [Next]_vars
  PROVE  IInv'
<1>1. CASE UNCHANGED vars
  BY <1>1 DEF vars, fileVars, IInv, Typed, Places, Files, Turns, SoleWriter, Sole, Exact,
              Alone, Shows, GlobalKept, Active, Busy
<1>2. ASSUME NEW p \in Phone, WorkerEnds(p) PROVE IInv'
  <2>1. Gone(p) /\ orphans' = orphans \ {p} /\ UNCHANGED <<disk, there, done, solo, crew>>
    BY <1>2 DEF WorkerEnds, fileVars
  <2>2. orphans \subseteq Busy /\ p \in Proc
    BY BoundsAre DEF IInv, Typed
  <2>3. QED
    BY <2>1, <2>2, GoneKeeps
<1>3. CASE KillFleetRunner
  <2>1. Gone(Main) /\ orphans' = Busy /\ UNCHANGED <<disk, there, done, solo, crew>>
    BY <1>3 DEF KillFleetRunner, fileVars
  <2>2. Main \notin Busy /\ Main \in Proc
    BY BoundsAre DEF Busy
  <2>3. QED
    BY <2>1, <2>2, GoneKeeps
<1>4. QED
  BY <1>1, <1>2, <1>3, UpdateKeeps, OpenKeeps, WriteKeeps, ReplaceKeeps, StartWorkersKeeps,
     MainStartsKeeps DEF Next

-----------------------------------------------------------------------------

\* The inductive invariant: who may be writing, into which file, and what of
\* main's entry can become the state file.
THEOREM FleetInvariant == Spec => []IInv
<1>1. Init => IInv
  BY FleetInit
<1>2. IInv /\ [Next]_vars => IInv'
  BY FleetStep
<1>3. QED
  BY <1>1, <1>2, PTL DEF Spec

\* Files, places and texts have their types, and no process updates past its limit.
THEOREM FleetTypeOK == Spec => []TypeOK
<1>1. IInv => TypeOK
  <2>1. SUFFICES ASSUME IInv PROVE TypeOK
    OBVIOUS
  <2>2. Typed /\ Places
    BY <2>1 DEF IInv
  <2>3. \A p \in Proc : done[p] \in 0 .. Limit(p)
    BY <2>2, BoundsAre DEF Typed, Places
  <2>4. /\ DOMAIN disk = {"state", "tmp"}
        /\ \A f \in DOMAIN disk : disk[f] \in Seq(Entry \cup {End, Hole})
    BY <2>2 DEF Typed, Part
  <2>5. \A p \in Proc : DOMAIN doc[p] \subseteq Proc /\ Main \in DOMAIN doc[p]
    BY <2>2 DEF Typed, IsDoc
  <2>6. QED
    BY <2>2, <2>3, <2>4, <2>5 DEF TypeOK, Typed
<1>2. QED
  BY <1>1, FleetInvariant, PTL

\* With one writer after the other the state file parses and shows what was
\* written last, wherever a writer died; a crowd's damage ends with main's next
\* update.
THEOREM FleetOneWriterIsExact == Spec => []OneWriterIsExact
<1>1. IInv => OneWriterIsExact
  <2>1. SUFFICES ASSUME IInv, Cardinality(crew) <= 1, crew \subseteq Phone, "state" \in there
                 PROVE  /\ Parses(disk["state"])
                        /\ \A p \in crew \cup {Main} :
                              done[p] > 0 => (p \in DOMAIN ReadRaw /\ ReadRaw[p] = done[p])
    BY DEF OneWriterIsExact
  <2>2. Typed /\ Exact
    BY <2>1 DEF IInv
  <2>3. ASSUME NEW p \in crew, NEW q \in crew PROVE p = q
    <3>1. IsFiniteSet(crew)
      BY <2>2, BoundsAre, FS_Subset DEF Typed
    <3>2. {p, q} \in SUBSET crew
      OBVIOUS
    <3>3. Cardinality({p, q}) <= Cardinality(crew) /\ Cardinality({p, q}) \in Nat /\ Cardinality(crew) \in Nat
      BY <3>1, <3>2, FS_Subset, FS_CardinalityType
    <3>4. p # q => Cardinality({p, q}) = 2
      <4>1. SUFFICES ASSUME p # q PROVE Cardinality({p} \cup {q}) = 2
        OBVIOUS
      <4>2. IsFiniteSet({p}) /\ Cardinality({p}) = 1 /\ q \notin {p}
        BY <4>1, FS_Singleton
      <4>3. QED
        BY <4>2, FS_AddElement
    <3>5. QED
      BY <2>1, <3>3, <3>4
  <2>4. Alone
    BY <2>1, <2>3, BoundsAre DEF Alone
  <2>5. /\ Parses(disk["state"])
        /\ \A p \in crew \cup {Main} : done[p] > 0 => Shows(disk["state"], p)
    BY <2>1, <2>2, <2>4 DEF Exact
  <2>6. ReadRaw = Data(disk["state"])
    BY <2>1, <2>5 DEF ReadRaw
  <2>7. QED
    BY <2>5, <2>6 DEF Shows
<1>2. QED
  BY <1>1, FleetInvariant, PTL

\* However many workers write over one another, the fleet's own entry is the
\* latest one or was reset.
THEOREM FleetGlobalNeverGoesBack == Spec => []GlobalNeverGoesBack
<1>1. IInv => GlobalNeverGoesBack
  <2>1. SUFFICES ASSUME IInv, crew \subseteq Phone PROVE ReadRaw[Main] \in {0, done[Main]}
    BY DEF GlobalNeverGoesBack
  <2>2. Typed /\ OfMain(disk["state"], done[Main])
    BY <2>1, BoundsAre DEF IInv, GlobalKept
  <2>3. QED
    BY <2>2, RawIs
<1>2. QED
  BY <1>1, FleetInvariant, PTL

=============================================================================
