---------------------------- MODULE SumTheorems -----------------------------
(***************************************************************************)
(* What SumFunction and SumFunctionOnSet add up to on finite sets.  They   *)
(* recurse over the subsets of the set: that the recursion has a value,    *)
(* and just one, is shown by a smallest set for which it had none.         *)
(***************************************************************************)
EXTENDS Integers, FiniteSets, Functions, FiniteSetTheorems, WellFoundedInduction, TLAPS

\* A set of numbers has a least one.
LEMMA LeastNumber ==
  ASSUME NEW T, T \subseteq Nat, T # {}
  PROVE  \E x \in T : \A y \in T : x <= y
<1>1. PICK x \in T : \A y \in T : ~ (<<y, x>> \in OpToRel(<, Nat))
  BY NatLessThanWellFounded, WFMin
<1>2. \A y \in T : ~ (y < x)
  BY <1>1 DEF OpToRel
<1>3. QED
  BY <1>2

\* A set of finite sets has a smallest one.
LEMMA SmallestSet ==
  ASSUME NEW F, F # {}, \A S \in F : IsFiniteSet(S)
  PROVE  \E S \in F : \A T \in F : Cardinality(S) <= Cardinality(T)
<1>1. {Cardinality(S) : S \in F} \subseteq Nat
  BY FS_CardinalityType
<1>2. PICK n \in {Cardinality(S) : S \in F} : \A k \in {Cardinality(S) : S \in F} : n <= k
  BY <1>1, LeastNumber
<1>3. QED
  BY <1>2

\* g is a value of the recursion on the subsets of S.
Pick(s) == CHOOSE x \in s : TRUE
SumsOn(f, S, g) ==
    g = [s \in SUBSET S |-> IF s = {} THEN 0 ELSE f[Pick(s)] + g[s \ {Pick(s)}]]

LEMMA SumIsRecursion ==
  \A f, S : SumFunctionOnSet(f, S) = (CHOOSE g : SumsOn(f, S, g))[S]
BY Zenon DEF SumFunctionOnSet, FoldFunctionOnSet, MapThenFoldSet, SumsOn, Pick

LEMMA Picked == \A s : s # {} => Pick(s) \in s
BY DEF Pick

LEMMA SumsAt ==
  ASSUME NEW f, NEW S, NEW g, SumsOn(f, S, g), NEW s \in SUBSET S
  PROVE  g[s] = IF s = {} THEN 0 ELSE f[Pick(s)] + g[s \ {Pick(s)}]
BY DEF SumsOn

\* Two values of the recursion agree where both are defined.
LEMMA SumsAgree ==
  ASSUME NEW f, NEW S, NEW T, IsFiniteSet(S), NEW g, NEW h,
         SumsOn(f, S, g), SumsOn(f, T, h), NEW R, R \subseteq S, R \subseteq T
  PROVE  g[R] = h[R]
<1> DEFINE Bad == {s \in SUBSET R : g[s] # h[s]}
<1> SUFFICES ASSUME Bad # {} PROVE FALSE
  OBVIOUS
<1>1. \A s \in Bad : IsFiniteSet(s)
  BY FS_Subset
<1>2. PICK s \in Bad : \A t \in Bad : Cardinality(s) <= Cardinality(t)
  <2> HIDE DEF Bad
  <2>1. QED
    BY <1>1, SmallestSet
<1>3. s \in SUBSET S /\ s \in SUBSET T
  OBVIOUS
<1>4. s # {}
  BY <1>3, SumsAt
<1> DEFINE r == s \ {Pick(s)}
<1>5. IsFiniteSet(s) /\ Cardinality(s) \in Nat /\ Cardinality(r) = Cardinality(s) - 1
  BY <1>1, <1>4, Picked, FS_RemoveElement, FS_CardinalityType
<1>6. r \notin Bad
  BY <1>2, <1>5
<1>7. g[r] = h[r]
  BY <1>6
<1>8. g[s] = f[Pick(s)] + g[r] /\ h[s] = f[Pick(s)] + h[r]
  BY <1>3, <1>4, SumsAt
<1>9. QED
  BY <1>7, <1>8

\* The recursion has a value.
LEMMA SumsExist ==
  ASSUME NEW f, NEW S, IsFiniteSet(S)
  PROVE  \E g : SumsOn(f, S, g)
<1> DEFINE Bad == {T \in SUBSET S : ~ \E g : SumsOn(f, T, g)}
<1> SUFFICES ASSUME Bad # {} PROVE FALSE
  OBVIOUS
<1>1. \A T \in Bad : IsFiniteSet(T)
  BY FS_Subset
<1>2. PICK T \in Bad : \A U \in Bad : Cardinality(T) <= Cardinality(U)
  <2> HIDE DEF Bad
  <2>1. QED
    BY <1>1, SmallestSet
<1> DEFINE G(R) == CHOOSE g : SumsOn(f, R, g)
           g == [s \in SUBSET T |-> IF s = {} THEN 0
                                    ELSE f[Pick(s)] + G(s \ {Pick(s)})[s \ {Pick(s)}]]
<1>3. ASSUME NEW R \in SUBSET T, R # T PROVE IsFiniteSet(R) /\ SumsOn(f, R, G(R))
  <2>1. IsFiniteSet(T) /\ IsFiniteSet(R)
    BY <1>1, FS_Subset
  <2>2. Cardinality(R) < Cardinality(T)
    BY <1>3, <2>1, FS_Subset, FS_CardinalityType
  <2>3. Cardinality(R) \in Nat /\ Cardinality(T) \in Nat
    BY <2>1, FS_CardinalityType
  <2>4. R \notin Bad
    BY <1>2, <2>2, <2>3
  <2>5. \E x : SumsOn(f, R, x)
    BY <2>4
  <2>6. QED
    BY <2>1, <2>5
<1>4. ASSUME NEW s \in SUBSET T, s # {} PROVE g[s \ {Pick(s)}] = G(s \ {Pick(s)})[s \ {Pick(s)}]
  <2> DEFINE r == s \ {Pick(s)}
             q == r \ {Pick(r)}
  <2>1. r \in SUBSET T /\ r # T /\ q \in SUBSET T /\ q # T /\ q \subseteq r
    BY <1>4, Picked
  <2>2. SumsOn(f, r, G(r)) /\ SumsOn(f, q, G(q)) /\ IsFiniteSet(r) /\ IsFiniteSet(q)
    BY <1>3, <2>1
  <2>3. G(r)[q] = G(q)[q]
    <3> HIDE DEF G, r, q
    <3>1. QED
      BY <2>1, <2>2, SumsAgree
  <2>4. G(r)[r] = IF r = {} THEN 0 ELSE f[Pick(r)] + G(r)[q]
    <3>1. ASSUME NEW R, NEW h, SumsOn(f, R, h)
          PROVE  h[R] = IF R = {} THEN 0 ELSE f[Pick(R)] + h[R \ {Pick(R)}]
      <4>1. R \in SUBSET R
        OBVIOUS
      <4>2. QED
        BY <3>1, <4>1, SumsAt
    <3> HIDE DEF G, r
    <3>2. G(r)[r] = IF r = {} THEN 0 ELSE f[Pick(r)] + G(r)[r \ {Pick(r)}]
      BY <2>2, <3>1
    <3>3. QED
      BY <3>2
  <2>5. g[r] = IF r = {} THEN 0 ELSE f[Pick(r)] + G(q)[q]
    <3> HIDE DEF G, r
    <3>1. QED
      BY <2>1
  <2>6. QED
    BY <2>3, <2>4, <2>5
<1>5. \A s \in SUBSET T : g[s] = IF s = {} THEN 0 ELSE f[Pick(s)] + g[s \ {Pick(s)}]
  <2> HIDE DEF G
  <2>1. \A s \in SUBSET T : g[s] = IF s = {} THEN 0
                                   ELSE f[Pick(s)] + G(s \ {Pick(s)})[s \ {Pick(s)}]
    OBVIOUS
  <2>2. QED
    BY <1>4, <2>1
<1>6. g = [s \in SUBSET T |-> IF s = {} THEN 0 ELSE f[Pick(s)] + g[s \ {Pick(s)}]]
  <2>1. g = [s \in SUBSET T |-> g[s]]
    OBVIOUS
  <2> HIDE DEF g
  <2>2. QED
    BY <1>5, <2>1
<1>7. SumsOn(f, T, g)
  <2> HIDE DEF g
  <2>1. QED
    BY <1>6 DEF SumsOn
<1>8. QED
  BY <1>7

THEOREM SumOfNone == \A f : SumFunctionOnSet(f, {}) = 0
<1> SUFFICES ASSUME NEW f PROVE SumFunctionOnSet(f, {}) = 0
  OBVIOUS
<1>1. PICK g : SumsOn(f, {}, g)
  BY SumsExist, FS_EmptySet
<1>2. SumsOn(f, {}, CHOOSE h : SumsOn(f, {}, h))
  BY <1>1
<1>3. QED
  BY <1>2, SumsAt, SumIsRecursion

\* The element that the recursion takes first comes off the sum.
LEMMA SumPicked ==
  ASSUME NEW f, NEW S, IsFiniteSet(S), S # {}
  PROVE  SumFunctionOnSet(f, S) = f[Pick(S)] + SumFunctionOnSet(f, S \ {Pick(S)})
<1> DEFINE T == S \ {Pick(S)}
           G(R) == CHOOSE g : SumsOn(f, R, g)
<1>1. IsFiniteSet(T) /\ T \subseteq S
  BY FS_RemoveElement
<1>2. SumsOn(f, S, G(S)) /\ SumsOn(f, T, G(T))
  BY <1>1, SumsExist
<1> HIDE DEF G, T
<1>3. G(S)[T] = G(T)[T]
  <2>1. \A R : R \subseteq S /\ R \subseteq T => G(S)[R] = G(T)[R]
    BY <1>2, SumsAgree
  <2>2. QED
    BY <2>1, <1>1
<1>4. G(S)[S] = f[Pick(S)] + G(S)[T]
  BY <1>2, SumsAt DEF T
<1>5. SumFunctionOnSet(f, S) = G(S)[S] /\ SumFunctionOnSet(f, T) = G(T)[T]
  BY SumIsRecursion DEF G
<1>6. QED
  BY <1>3, <1>4, <1>5 DEF T

\* A sum of numbers is a number, and one of natural numbers a natural number.
THEOREM SumType ==
  ASSUME NEW f, NEW S, IsFiniteSet(S), NEW V \in {Nat, Int}, \A s \in S : f[s] \in V
  PROVE  SumFunctionOnSet(f, S) \in V
<1> DEFINE Bad == {T \in SUBSET S : SumFunctionOnSet(f, T) \notin V}
<1> SUFFICES ASSUME Bad # {} PROVE FALSE
  OBVIOUS
<1>1. \A T \in Bad : IsFiniteSet(T)
  BY FS_Subset
<1>2. PICK T \in Bad : \A U \in Bad : Cardinality(T) <= Cardinality(U)
  <2> HIDE DEF Bad
  <2>1. QED
    BY <1>1, SmallestSet
<1>3. IsFiniteSet(T) /\ T \in SUBSET S /\ SumFunctionOnSet(f, T) \notin V
  BY <1>1
<1>4. T # {}
  BY <1>3, SumOfNone
<1> DEFINE U == T \ {Pick(T)}
<1>5. Pick(T) \in S /\ U \in SUBSET S /\ Cardinality(U) = Cardinality(T) - 1 /\ Cardinality(T) \in Nat
  BY <1>3, <1>4, Picked, FS_RemoveElement, FS_CardinalityType
<1>6. U \notin Bad
  BY <1>2, <1>5
<1>7. SumFunctionOnSet(f, U) \in V /\ f[Pick(T)] \in V
  BY <1>5, <1>6
<1>8. SumFunctionOnSet(f, T) = f[Pick(T)] + SumFunctionOnSet(f, U)
  BY <1>3, <1>4, SumPicked
<1>9. QED
  BY <1>3, <1>7, <1>8

\* What a sum is does not depend on values outside its set.
THEOREM SumOfAgreeing ==
  ASSUME NEW f, NEW g, NEW S, IsFiniteSet(S), \A s \in S : f[s] = g[s]
  PROVE  SumFunctionOnSet(f, S) = SumFunctionOnSet(g, S)
<1> DEFINE Bad == {T \in SUBSET S : SumFunctionOnSet(f, T) # SumFunctionOnSet(g, T)}
<1> SUFFICES ASSUME Bad # {} PROVE FALSE
  OBVIOUS
<1>1. \A T \in Bad : IsFiniteSet(T)
  BY FS_Subset
<1>2. PICK T \in Bad : \A U \in Bad : Cardinality(T) <= Cardinality(U)
  <2> HIDE DEF Bad
  <2>1. QED
    BY <1>1, SmallestSet
<1>3. IsFiniteSet(T) /\ T \in SUBSET S /\ SumFunctionOnSet(f, T) # SumFunctionOnSet(g, T)
  BY <1>1
<1>4. T # {}
  BY <1>3, SumOfNone
<1> DEFINE U == T \ {Pick(T)}
<1>5. Pick(T) \in S /\ U \in SUBSET S /\ Cardinality(U) = Cardinality(T) - 1 /\ Cardinality(T) \in Nat
  BY <1>3, <1>4, Picked, FS_RemoveElement, FS_CardinalityType
<1>6. U \notin Bad
  BY <1>2, <1>5
<1>7. SumFunctionOnSet(f, U) = SumFunctionOnSet(g, U) /\ f[Pick(T)] = g[Pick(T)]
  BY <1>5, <1>6
<1>8. QED
  BY <1>3, <1>4, <1>7, SumPicked

\* A sum of equal numbers.
THEOREM SumOfEqual ==
  ASSUME NEW f, NEW S, IsFiniteSet(S), NEW v \in Nat, \A s \in S : f[s] = v
  PROVE  SumFunctionOnSet(f, S) = Cardinality(S) * v
<1> DEFINE Bad == {T \in SUBSET S : SumFunctionOnSet(f, T) # Cardinality(T) * v}
<1> SUFFICES ASSUME Bad # {} PROVE FALSE
  OBVIOUS
<1>1. \A T \in Bad : IsFiniteSet(T)
  BY FS_Subset
<1>2. PICK T \in Bad : \A U \in Bad : Cardinality(T) <= Cardinality(U)
  <2> HIDE DEF Bad
  <2>1. QED
    BY <1>1, SmallestSet
<1>3. IsFiniteSet(T) /\ T \in SUBSET S /\ SumFunctionOnSet(f, T) # Cardinality(T) * v
  BY <1>1
<1>4. T # {}
  BY <1>3, SumOfNone, FS_EmptySet
<1> DEFINE U == T \ {Pick(T)}
<1>5. Pick(T) \in S /\ U \in SUBSET S /\ Cardinality(U) = Cardinality(T) - 1 /\ Cardinality(T) \in Nat
  BY <1>3, <1>4, Picked, FS_RemoveElement, FS_CardinalityType
<1>6. U \notin Bad
  BY <1>2, <1>5
<1>7. SumFunctionOnSet(f, T) = v + SumFunctionOnSet(f, U)
  BY <1>3, <1>4, <1>5, SumPicked
<1>8. SumFunctionOnSet(f, U) = Cardinality(U) * v
  BY <1>5, <1>6
<1>9. Cardinality(T) * v = v + (Cardinality(T) - 1) * v
  BY <1>5
<1>10. QED
  BY <1>3, <1>5, <1>7, <1>8, <1>9

\* A sum grows by as much as one of its numbers.
THEOREM SumOfOneMore ==
  ASSUME NEW f, NEW g, NEW S, IsFiniteSet(S), NEW k, NEW n \in Int,
         \A s \in S : f[s] \in Int,
         \A s \in S : g[s] = IF s = k THEN f[s] + n ELSE f[s]
  PROVE  SumFunctionOnSet(g, S) = SumFunctionOnSet(f, S) + (IF k \in S THEN n ELSE 0)
<1> DEFINE More(T) == SumFunctionOnSet(f, T) + (IF k \in T THEN n ELSE 0)
           Bad == {T \in SUBSET S : SumFunctionOnSet(g, T) # More(T)}
<1> SUFFICES ASSUME Bad # {} PROVE FALSE
  OBVIOUS
<1>1. \A T \in Bad : IsFiniteSet(T)
  BY FS_Subset
<1>2. PICK T \in Bad : \A U \in Bad : Cardinality(T) <= Cardinality(U)
  <2> HIDE DEF Bad
  <2>1. QED
    BY <1>1, SmallestSet
<1>3. IsFiniteSet(T) /\ T \in SUBSET S /\ SumFunctionOnSet(g, T) # More(T)
  BY <1>1
<1>4. T # {}
  <2>1. More({}) = 0
    BY SumOfNone
  <2>2. QED
    BY <1>3, <2>1, SumOfNone
<1> DEFINE p == Pick(T)
           U == T \ {p}
<1>5. p \in S /\ p \in T /\ U \in SUBSET S
      /\ Cardinality(U) = Cardinality(T) - 1 /\ Cardinality(T) \in Nat
  BY <1>3, <1>4, Picked, FS_RemoveElement, FS_CardinalityType
<1>6. U \notin Bad
  BY <1>2, <1>5
<1>7. SumFunctionOnSet(g, U) = More(U) /\ SumFunctionOnSet(f, U) \in Int
  <2>1. IsFiniteSet(U) /\ \A s \in U : f[s] \in Int
    BY <1>3, FS_Subset
  <2>2. QED
    BY <1>5, <1>6, <2>1, SumType
<1>8. /\ SumFunctionOnSet(g, T) = g[p] + SumFunctionOnSet(g, U)
      /\ SumFunctionOnSet(f, T) = f[p] + SumFunctionOnSet(f, U)
  BY <1>3, <1>4, SumPicked
<1>9. f[p] \in Int /\ g[p] = IF p = k THEN f[p] + n ELSE f[p]
  BY <1>5
<1>10. k \in T <=> (p = k \/ k \in U)
  BY <1>5
<1>11. QED
  BY <1>3, <1>5, <1>7, <1>8, <1>9, <1>10

\* A sum of smaller numbers is smaller.
THEOREM SumOfSmaller ==
  ASSUME NEW f, NEW g, NEW S, IsFiniteSet(S),
         \A s \in S : f[s] \in Int /\ g[s] \in Int /\ f[s] <= g[s]
  PROVE  SumFunctionOnSet(f, S) <= SumFunctionOnSet(g, S)
<1> DEFINE Bad == {T \in SUBSET S : ~ (SumFunctionOnSet(f, T) <= SumFunctionOnSet(g, T))}
<1> SUFFICES ASSUME Bad # {} PROVE FALSE
  OBVIOUS
<1>1. \A T \in Bad : IsFiniteSet(T)
  BY FS_Subset
<1>2. PICK T \in Bad : \A U \in Bad : Cardinality(T) <= Cardinality(U)
  <2> HIDE DEF Bad
  <2>1. QED
    BY <1>1, SmallestSet
<1>3. IsFiniteSet(T) /\ T \in SUBSET S /\ ~ (SumFunctionOnSet(f, T) <= SumFunctionOnSet(g, T))
  BY <1>1
<1>4. T # {}
  BY <1>3, SumOfNone
<1> DEFINE p == Pick(T)
           U == T \ {p}
<1>5. p \in S /\ U \in SUBSET S /\ IsFiniteSet(U)
      /\ Cardinality(U) = Cardinality(T) - 1 /\ Cardinality(T) \in Nat
  BY <1>3, <1>4, Picked, FS_RemoveElement, FS_CardinalityType
<1>6. SumFunctionOnSet(f, U) <= SumFunctionOnSet(g, U)
  BY <1>2, <1>5
<1>7. SumFunctionOnSet(f, U) \in Int /\ SumFunctionOnSet(g, U) \in Int
  <2>1. \A s \in U : f[s] \in Int /\ g[s] \in Int
    BY <1>5
  <2>2. QED
    BY <1>5, <2>1, SumType
<1>8. /\ SumFunctionOnSet(f, T) = f[p] + SumFunctionOnSet(f, U)
      /\ SumFunctionOnSet(g, T) = g[p] + SumFunctionOnSet(g, U)
  BY <1>3, <1>4, SumPicked
<1>9. f[p] \in Int /\ g[p] \in Int /\ f[p] <= g[p]
  BY <1>5
<1>10. QED
  BY <1>3, <1>6, <1>7, <1>8, <1>9

\* A sum of numbers up to v, that are zero outside of T.
THEOREM SumWithin ==
  ASSUME NEW f, NEW S, IsFiniteSet(S), NEW R, NEW v \in Nat,
         \A s \in S : f[s] \in Int /\ f[s] <= IF s \in R THEN v ELSE 0
  PROVE  SumFunctionOnSet(f, S) <= v * Cardinality(S \cap R)
<1> DEFINE Most(T) == v * Cardinality(T \cap R)
           Bad == {T \in SUBSET S : ~ (SumFunctionOnSet(f, T) <= Most(T))}
<1> SUFFICES ASSUME Bad # {} PROVE FALSE
  OBVIOUS
<1>1. \A T \in Bad : IsFiniteSet(T)
  BY FS_Subset
<1>2. PICK T \in Bad : \A U \in Bad : Cardinality(T) <= Cardinality(U)
  <2> HIDE DEF Bad
  <2>1. QED
    BY <1>1, SmallestSet
<1>3. IsFiniteSet(T) /\ T \in SUBSET S /\ ~ (SumFunctionOnSet(f, T) <= Most(T))
  BY <1>1
<1>4. T # {}
  <2>1. Cardinality({} \cap R) = 0
    BY FS_EmptySet
  <2>2. Most({}) = 0
    BY <2>1
  <2>3. QED
    BY <1>3, <2>2, SumOfNone
<1> DEFINE p == Pick(T)
           U == T \ {p}
<1>5. p \in S /\ p \in T /\ U \in SUBSET S /\ IsFiniteSet(U)
      /\ Cardinality(U) = Cardinality(T) - 1 /\ Cardinality(T) \in Nat
  BY <1>3, <1>4, Picked, FS_RemoveElement, FS_CardinalityType
<1>6. SumFunctionOnSet(f, U) <= Most(U)
  BY <1>2, <1>5
<1>7. SumFunctionOnSet(f, U) \in Int
  BY <1>5, SumType
<1>8. SumFunctionOnSet(f, T) = f[p] + SumFunctionOnSet(f, U)
  BY <1>3, <1>4, SumPicked
<1>9. IsFiniteSet(U \cap R) /\ Cardinality(U \cap R) \in Nat
  BY <1>5, FS_Subset, FS_CardinalityType
<1>10. f[p] \in Int /\ f[p] <= IF p \in R THEN v ELSE 0
  BY <1>5
<1>11. CASE p \in R
  <2>1. T \cap R = (U \cap R) \cup {p} /\ p \notin U \cap R
    BY <1>5, <1>11
  <2>2. Cardinality(T \cap R) = Cardinality(U \cap R) + 1
    BY <1>9, <2>1, FS_AddElement
  <2>3. v * (Cardinality(U \cap R) + 1) = v * Cardinality(U \cap R) + v
    BY <1>9
  <2>4. Most(T) = Most(U) + v /\ Most(U) \in Int
    BY <1>9, <2>2, <2>3
  <2> HIDE DEF Most, U, p
  <2>5. QED
    BY <1>3, <1>6, <1>7, <1>8, <1>10, <1>11, <2>4
<1>12. CASE p \notin R
  <2>1. T \cap R = U \cap R
    BY <1>12
  <2>2. Most(T) = Most(U)
    BY <2>1
  <2>3. v * Cardinality(U \cap R) \in Int
    BY <1>9
  <2>4. Most(U) \in Int
    BY <2>3
  <2> HIDE DEF Most, U, p
  <2>5. QED
    BY <1>3, <1>6, <1>7, <1>8, <1>10, <1>12, <2>2, <2>4
<1>13. QED
  BY <1>11, <1>12

\* One element more adds its number.
THEOREM SumOfAdded ==
  ASSUME NEW f, NEW S, IsFiniteSet(S), \A s \in S : f[s] \in Int, NEW x, x \notin S, f[x] \in Int
  PROVE  SumFunctionOnSet(f, S \cup {x}) = SumFunctionOnSet(f, S) + f[x]
<1> DEFINE W == S \cup {x}
           Off(T, y) == SumFunctionOnSet(f, T \cup {y}) # SumFunctionOnSet(f, T) + f[y]
           Bad == {T \in SUBSET W : \E y \in W \ T : Off(T, y)}
<1>1. IsFiniteSet(W) /\ \A s \in W : f[s] \in Int
  BY FS_AddElement
<1> SUFFICES ASSUME Bad # {} PROVE FALSE
  OBVIOUS
<1>2. \A T \in Bad : IsFiniteSet(T)
  BY <1>1, FS_Subset
<1>3. PICK T \in Bad : \A U \in Bad : Cardinality(T) <= Cardinality(U)
  <2> HIDE DEF Bad
  <2>1. QED
    BY <1>2, SmallestSet
<1>4. T \in SUBSET W /\ \E y \in W \ T : Off(T, y)
  OBVIOUS
<1>5. PICK y \in W \ T : Off(T, y)
  BY <1>4
<1> DEFINE V == T \cup {y}
           p == Pick(V)
           U == T \ {p}
<1>6. IsFiniteSet(T) /\ IsFiniteSet(V) /\ p \in V
  <2>1. IsFiniteSet(T)
    BY <1>2
  <2>2. V # {}
    OBVIOUS
  <2> HIDE DEF V
  <2>3. Pick(V) \in V
    BY <2>2, Picked
  <2>4. IsFiniteSet(V)
    BY <2>1, FS_AddElement DEF V
  <2>5. QED
    BY <2>1, <2>3, <2>4
<1>7. SumFunctionOnSet(f, V) = f[p] + SumFunctionOnSet(f, V \ {p})
  BY <1>6, SumPicked
<1>8. f[p] \in Int /\ f[y] \in Int /\ SumFunctionOnSet(f, T) \in Int
  <2>1. \A s \in T : f[s] \in Int
    BY <1>1, <1>4
  <2>2. QED
    BY <1>1, <1>4, <1>6, <2>1, SumType
<1>9. p # y
  <2>1. p = y => V \ {p} = T
    BY <1>5
  <2> HIDE DEF V, p
  <2>2. QED
    BY <1>5, <1>7, <1>8, <2>1 DEF V
<1>10. p \in T /\ p \in W \ U /\ y \in W \ U /\ U \in SUBSET W
       /\ V \ {p} = U \cup {y} /\ T = U \cup {p}
  BY <1>4, <1>6, <1>9
<1>11. Cardinality(U) = Cardinality(T) - 1 /\ Cardinality(T) \in Nat
  BY <1>6, <1>10, FS_RemoveElement, FS_CardinalityType
<1>12. U \notin Bad
  <2> HIDE DEF Bad, U
  <2>1. Cardinality(U) < Cardinality(T)
    BY <1>11
  <2>2. QED
    BY <1>3, <1>11, <2>1
<1>13. ~ Off(U, y) /\ ~ Off(U, p)
  BY <1>10, <1>12
<1>14. SumFunctionOnSet(f, U) \in Int
  <2>1. IsFiniteSet(U) /\ \A s \in U : f[s] \in Int
    BY <1>1, <1>6, <1>10, FS_Subset
  <2>2. QED
    BY <2>1, SumType
<1>15. SumFunctionOnSet(f, V \ {p}) = SumFunctionOnSet(f, U) + f[y]
       /\ SumFunctionOnSet(f, T) = SumFunctionOnSet(f, U) + f[p]
  BY <1>10, <1>13
<1>16. SumFunctionOnSet(f, V) # SumFunctionOnSet(f, T) + f[y]
  BY <1>5
<1> HIDE DEF V, U, p
<1>17. QED
  BY <1>7, <1>8, <1>14, <1>15, <1>16

=============================================================================
