--------------------------- MODULE CampaignProofs ---------------------------
(***************************************************************************)
(* Proofs about Campaign, for any phones, products, keywords and bounds:   *)
(* types, the bound on double counting, and what survives a restart.       *)
(*                                                                         *)
(* A hit is recorded by main and by its worker.  The bound on the count    *)
(* therefore needs one on the entries of main's memory and of the baseline *)
(* together with the lines of today (RecordedAtMostTwice), since a restart *)
(* adds those up.                                                          *)
(***************************************************************************)
EXTENDS Campaign, FiniteSetTheorems, WellFoundedInduction, TLAPS

USE CampaignAssumption

\* Tasks are only there while a cycle runs, and products are saved one by one.
TasksInRun   == pc # "run" => \A d \in Phone : task[d] = NoTask
SavesProduct == pc \in {"save", "write"} => saving \in Used

Types == TypeOK /\ TasksInRun /\ SavesProduct

-----------------------------------------------------------------------------

LEMMA PhonesAreFinite == IsFiniteSet(Phone) /\ \A S \in SUBSET Phone : IsFiniteSet(S) /\ Cardinality(S) \in Nat
<1>1. IsFiniteSet(Phone)
  BY FS_Interval DEF Phone
<1>2. QED
  BY <1>1, FS_Subset, FS_CardinalityType

LEMMA KeysAreFinite == \A S \in SUBSET Key : IsFiniteSet(S) /\ Cardinality(S) \in Nat
<1>1. IsFiniteSet(1 .. Products) /\ IsFiniteSet(1 .. Keywords)
  BY FS_Interval
<1>0. IsFiniteSet(Key)
  BY <1>1, FS_Product DEF Key
<1>2. QED
  BY <1>0, FS_Subset, FS_CardinalityType

LEMMA KeysAre == \A k \in Key : k = <<k[1], k[2]>> /\ k[1] \in 1 .. Products /\ k[2] \in 1 .. Keywords
BY DEF Key

\* A set of numbers has a greatest one, if it is bounded.
LEMMA GreatestKeyword ==
  ASSUME NEW S \in SUBSET Key, S # {}
  PROVE  \E x \in S : \A y \in S : y[2] <= x[2]
<1> DEFINE T == {Keywords - k[2] : k \in S}
<1>1. T \subseteq Nat /\ T # {}
  BY KeysAre
<1>2. \E x \in T : \A y \in T : ~ (<<y, x>> \in OpToRel(<, Nat))
  BY <1>1, NatLessThanWellFounded, WFMin
<1>3. PICK x \in T : \A y \in T : ~ (<<y, x>> \in OpToRel(<, Nat))
  BY <1>2
<1>4. \A y \in T : ~ (y < x)
  BY <1>1, <1>3 DEF OpToRel
<1>5. PICK k \in S : x = Keywords - k[2]
  OBVIOUS
<1>6. ASSUME NEW j \in S PROVE j[2] <= k[2]
  <2>1. Keywords - j[2] \in T
    OBVIOUS
  <2>2. j[2] \in Int /\ k[2] \in Int /\ Keywords \in Int
    BY KeysAre
  <2>3. ~(Keywords - j[2] < Keywords - k[2])
    BY <1>4, <1>5, <2>1
  <2>4. QED
    BY <2>2, <2>3
<1>7. QED
  BY <1>6

\* Among keywords of one product there is one of each rank.
LEMMA RankExists ==
  ASSUME NEW p, NEW S \in SUBSET Of(p), NEW i \in 1 .. Cardinality(S)
  PROVE  \E k \in S : Cardinality({j \in S : j[2] < k[2]}) = i - 1
<1> DEFINE Ranked(T) == \A n \in 1 .. Cardinality(T) :
                            \E k \in T : Cardinality({j \in T : j[2] < k[2]}) = n - 1
           Bad == {T \in SUBSET Of(p) : ~Ranked(T)}
<1>1. Of(p) \subseteq Key
  BY DEF Of
<1> SUFFICES ASSUME Bad # {} PROVE FALSE
  OBVIOUS
<1>2. \E T \in Bad : \A U \in Bad : Cardinality(T) <= Cardinality(U)
  <2> DEFINE N == {Cardinality(T) : T \in Bad}
  <2>1. N \subseteq Nat /\ N # {}
    BY <1>1, KeysAreFinite
  <2>2. \E x \in N : \A y \in N : ~ (<<y, x>> \in OpToRel(<, Nat))
    BY <2>1, NatLessThanWellFounded, WFMin
  <2>3. PICK x \in N : \A y \in N : ~ (<<y, x>> \in OpToRel(<, Nat))
    BY <2>2
  <2>4. \A y \in N : ~ (y < x)
    BY <2>1, <2>3 DEF OpToRel
  <2>5. \A y \in N : x <= y
    <3> HIDE DEF N
    <3>1. QED
      BY <2>1, <2>4
  <2> HIDE DEF Bad
  <2>6. QED
    BY <2>5
<1>3. PICK T \in Bad : \A U \in Bad : Cardinality(T) <= Cardinality(U)
  BY <1>2
<1>4. T \in SUBSET Key /\ IsFiniteSet(T) /\ Cardinality(T) \in Nat
  BY <1>1, KeysAreFinite
<1>5. PICK n \in 1 .. Cardinality(T) : ~ \E k \in T : Cardinality({j \in T : j[2] < k[2]}) = n - 1
  OBVIOUS
<1>6. T # {}
  <2>1. T = {} => Cardinality(T) = 0
    BY FS_EmptySet
  <2>2. Cardinality(T) # 0
    BY <1>4
  <2>3. QED
    BY <2>1, <2>2
<1>7. PICK x \in T : \A y \in T : y[2] <= x[2]
  BY <1>4, <1>6, GreatestKeyword
<1> DEFINE U == T \ {x}
<1>8. IsFiniteSet(U) /\ Cardinality(U) = Cardinality(T) - 1
  BY <1>4, FS_RemoveElement
<1>9. \A y \in T : y # x => y[2] < x[2]
  <2> SUFFICES ASSUME NEW y \in T, y # x PROVE y[2] < x[2]
    OBVIOUS
  <2>1. y[1] = p /\ x[1] = p /\ y \in Key /\ x \in Key
    BY <1>1 DEF Of
  <2>2. y[2] # x[2] /\ y[2] \in Int /\ x[2] \in Int
    BY <2>1, KeysAre
  <2>3. QED
    BY <1>7, <2>2
<1>10. Ranked(U)
  <2>1. U \in SUBSET Of(p) /\ ~ (Cardinality(T) <= Cardinality(U))
    BY <1>4, <1>8
  <2>2. U \notin Bad
    BY <1>3, <2>1
  <2>3. QED
    BY <2>1, <2>2
<1>11. CASE n = Cardinality(T)
  <2>1. {j \in T : j[2] < x[2]} = U
    BY <1>4, <1>9, KeysAre
  <2>2. QED
    BY <1>5, <1>8, <1>11, <2>1
<1>12. CASE n # Cardinality(T)
  <2>1. n \in 1 .. Cardinality(U)
    BY <1>4, <1>8, <1>12
  <2>2. PICK k \in U : Cardinality({j \in U : j[2] < k[2]}) = n - 1
    BY <1>10, <2>1
  <2>3. {j \in T : j[2] < k[2]} = {j \in U : j[2] < k[2]}
    <3>1. k[2] < x[2] /\ k[2] \in Int /\ x[2] \in Int
      BY <1>4, <1>9, KeysAre
    <3>2. QED
      BY <3>1
  <2>4. QED
    BY <1>5, <2>2, <2>3
<1>13. QED
  BY <1>11, <1>12

LEMMA NthIsElement ==
  ASSUME NEW p, NEW S \in SUBSET Of(p), NEW i \in 1 .. Cardinality(S)
  PROVE  Nth(S, i) \in S
BY RankExists DEF Nth

\* Every phone is dealt one of the campaign's keywords.
LEMMA DealtIsKey ==
  ASSUME TypeOK, NEW d \in Phone, mode = "single" => Unfinished(1) # {}
  PROVE  Dealt(d) \in Key
<1> DEFINE p == ((d - 1) % Products) + 1
           open == IF Unfinished(p) = {} THEN Of(p) ELSE Unfinished(p)
<1>1. ASSUME NEW S, NEW q, S \subseteq Of(q), S # {}, NEW n \in Nat
      PROVE  Nth(S, (n % Cardinality(S)) + 1) \in Key
  <2>1. Of(q) \subseteq Key
    BY DEF Of
  <2>2. Cardinality(S) \in Nat \ {0}
    BY <1>1, <2>1, KeysAreFinite, FS_EmptySet
  <2>3. (n % Cardinality(S)) + 1 \in 1 .. Cardinality(S)
    BY <2>2
  <2>4. Nth(S, (n % Cardinality(S)) + 1) \in S
    BY <1>1, <2>3, NthIsElement
  <2>5. QED
    BY <1>1, <2>1, <2>4
<1>2. d - 1 \in Nat /\ cycle \in Nat
  BY DEF Phone, TypeOK
<1>3. CASE mode = "single"
  <2>1. Unfinished(1) \subseteq Of(1) /\ Unfinished(1) # {}
    BY <1>3 DEF Unfinished
  <2>2. Dealt(d) = Nth(Unfinished(1), ((d - 1) % Cardinality(Unfinished(1))) + 1)
    BY <1>3 DEF Dealt
  <2>3. QED
    BY <1>1, <1>2, <2>1, <2>2
<1>4. CASE mode # "single"
  <2>1. p \in 1 .. Products
    <3>1. Products \in Nat \ {0}
      OBVIOUS
    <3>2. QED
      BY <1>2, <3>1
  <2>2. <<p, 1>> \in Of(p)
    BY <2>1 DEF Of, Key
  <2>3. open \subseteq Of(p) /\ open # {}
    BY <2>2 DEF Unfinished
  <2>4. Dealt(d) = Nth(open, (cycle % Cardinality(open)) + 1)
    BY <1>4 DEF Dealt
  <2> HIDE DEF open, p
  <2>5. QED
    BY <1>1, <1>2, <2>3, <2>4
<1>5. QED
  BY <1>3, <1>4

-----------------------------------------------------------------------------

Entries == [Key -> Nat]
Files   == [own : Entries, seen : Entries, known : Entries]
Lines   == [ranked : Nat, plain : Nat, veiled : Nat]

LEMMA EndedIsNat == \A k, outs : Ended(k, outs) \in Nat
BY PhonesAreFinite DEF Ended

\* Nothing has ended where no task is, or where all run.
LEMMA NothingEnded ==
  ASSUME NEW outs, outs \subseteq {"ranked", "plain"},
         \A d \in Phone : task[d].end \in {"run", "none"}, NEW k
  PROVE  Ended(k, outs) = 0
<1>1. {d \in Phone : task[d].key = k /\ task[d].end \in outs} = {}
  OBVIOUS
<1>2. QED
  BY <1>1, FS_EmptySet DEF Ended

\* The task of a phone ends, and no other changes.
EndsAs(d, out) ==
    /\ DOMAIN task' = Phone
    /\ task'[d] = [key |-> task[d].key, end |-> out]
    /\ \A e \in Phone : e # d => task'[e] = task[e]

\* What ends is one more.
LEMMA OneEnds ==
  ASSUME NEW d \in Phone, NEW out, NEW outs, task[d].end \notin outs, EndsAs(d, out), NEW k
  PROVE  /\ task[d].key = k /\ out \in outs => Ended(k, outs)' = Ended(k, outs) + 1
         /\ ~(task[d].key = k /\ out \in outs) => Ended(k, outs)' = Ended(k, outs)
<1> DEFINE A == {e \in Phone : task[e].key = k /\ task[e].end \in outs}
           B == {e \in Phone : task'[e].key = k /\ task'[e].end \in outs}
<1>1. IsFiniteSet(A) /\ Cardinality(A) \in Nat /\ d \notin A
  BY PhonesAreFinite
<1>2. B = IF task[d].key = k /\ out \in outs THEN A \cup {d} ELSE A
  BY DEF EndsAs
<1>3. Cardinality(A \cup {d}) = Cardinality(A) + 1
  <2> HIDE DEF A
  <2>1. QED
    BY <1>1, FS_AddElement
<1>4. Ended(k, outs) = Cardinality(A) /\ Ended(k, outs)' = Cardinality(B)
  BY DEF Ended
<1> HIDE DEF A, B
<1>5. QED
  BY <1>1, <1>2, <1>3, <1>4

LEMMA FewerEnded ==
  ASSUME NEW k, NEW outs, NEW more, outs \subseteq more
  PROVE  Ended(k, outs) <= Ended(k, more)
<1> DEFINE A == {e \in Phone : task[e].key = k /\ task[e].end \in outs}
           B == {e \in Phone : task[e].key = k /\ task[e].end \in more}
<1>1. IsFiniteSet(B) /\ A \in SUBSET B
  BY PhonesAreFinite
<1>2. Cardinality(A) <= Cardinality(B)
  <2> HIDE DEF A, B
  <2>1. QED
    BY <1>1, FS_Subset
<1>3. QED
  BY <1>2 DEF Ended

-----------------------------------------------------------------------------

\* Of files and lines: their fields, and whether they fit one another.
FitsIn(s, n, h) == s <= h.ranked /\ s <= n /\ n <= s + h.veiled

LEMMA FitIs == \A s, n, k : Fit(s, n, k) <=> FitsIn(s[k], n[k], hits[k])
BY DEF Fit, FitsIn


LEMMA ZeroIs == Zero \in Entries /\ \A k \in Key : Zero[k] = 0
BY DEF Zero, Entries

LEMMA NothingIs == Nothing \in Files /\ Nothing = [own |-> Zero, seen |-> Zero, known |-> Zero]
BY ZeroIs DEF Nothing, Files

LEMMA NoLineIs == NoLine \in Lines /\ FitsIn(0, 0, NoLine)
BY DEF NoLine, Lines, FitsIn

\* Entries of which none are known fit every line.
LEMMA NoneFit == \A h \in Lines : FitsIn(0, 0, h)
BY DEF Lines, FitsIn

LEMMA TypesInit == Init => Types
<1> SUFFICES ASSUME Init PROVE Types
  OBVIOUS
<1>1. Zero \in [Key -> Nat] /\ \A k \in Key : Zero[k] = 0
  BY ZeroIs DEF Entries
<1>2. base \in [1 .. Products -> Files]
  BY NothingIs DEF Init
<1>3. hits \in [Key -> Lines] /\ \A k \in Key : hits[k] = NoLine
  BY NoLineIs DEF Init
<1>4. \A k \in Key : base[k[1]] = Nothing
  BY KeysAre DEF Init
<1>5. cycle \in 0 .. (Period - 1) /\ saving \in 1 .. (Products + 1)
  BY DEF Init
<1>6. task \in [Phone -> {NoTask} \cup [key : Key, end : Ends]] /\ orphan \in [1 .. MaxKills -> [Phone -> {NoKey} \cup Key]]
  BY DEF Init
<1>7. ASSUME NEW k \in Key PROVE Fit(seen, known, k) /\ Fit(base[k[1]].seen, base[k[1]].known, k)
  <2>1. seen = Zero /\ known = Zero
    BY DEF Init
  <2>2. base[k[1]].seen = Zero /\ base[k[1]].known = Zero
    BY <1>4, NothingIs
  <2>3. FitsIn(Zero[k], Zero[k], hits[k])
    BY Zenon, <1>1, <1>3, NoLineIs
  <2>4. QED
    BY Zenon, <2>1, <2>2, <2>3, FitIs
<1>8. TypeOK
  BY <1>1, <1>2, <1>3, <1>5, <1>6, <1>7 DEF Init, TypeOK, Files, Lines, Entries
<1>9. QED
  BY <1>8 DEF Init, Types, TasksInRun, SavesProduct

LEMMA UsedProducts == Used \subseteq 1 .. Products /\ 1 \in Used
BY DEF Used

\* What the files and the lines of a keyword hold.
LEMMA FilesAre ==
  ASSUME TypeOK, NEW k \in Key
  PROVE  /\ base[k[1]] \in Files /\ hits[k] \in Lines
         /\ base[k[1]].own[k] \in Nat /\ base[k[1]].seen[k] \in Nat /\ base[k[1]].known[k] \in Nat
         /\ hits[k].ranked \in Nat /\ hits[k].plain \in Nat /\ hits[k].veiled \in Nat
         /\ own[k] \in Nat /\ seen[k] \in Nat /\ known[k] \in Nat
         /\ FitsIn(seen[k], known[k], hits[k])
         /\ FitsIn(base[k[1]].seen[k], base[k[1]].known[k], hits[k])
<1>1. base[k[1]] \in Files /\ hits[k] \in Lines
  BY KeysAre DEF TypeOK, Files, Lines, Entries
<1>2. base[k[1]].own[k] \in Nat /\ base[k[1]].seen[k] \in Nat /\ base[k[1]].known[k] \in Nat
  BY <1>1 DEF Files, Entries
<1>3. hits[k].ranked \in Nat /\ hits[k].plain \in Nat /\ hits[k].veiled \in Nat
  BY <1>1 DEF Lines
<1>4. own[k] \in Nat /\ seen[k] \in Nat /\ known[k] \in Nat
  BY DEF TypeOK
<1>5. Fit(seen, known, k) /\ Fit(base[k[1]].seen, base[k[1]].known, k)
  BY DEF TypeOK
<1>6. QED
  BY <1>1, <1>2, <1>3, <1>4, <1>5, FitIs

\* A restart counts main's own entries in the baseline and today's lines, but for
\* those that share the second of another.
LEMMA RestoredIs ==
  ASSUME TypeOK, NEW k \in Key
  PROVE  /\ Restored(k) \in Nat
         /\ base[k[1]].own[k] + base[k[1]].seen[k] <= Restored(k)
         /\ base[k[1]].own[k] + hits[k].ranked + hits[k].plain <= Restored(k)
         /\ Restored(k) <= base[k[1]].own[k] + hits[k].ranked + hits[k].plain + hits[k].veiled
<1> DEFINE a == base[k[1]].own[k]
           b == base[k[1]].seen[k]
           c == base[k[1]].known[k]
           x == hits[k].ranked
           y == hits[k].plain
           z == hits[k].veiled
<1>1. a \in Nat /\ b \in Nat /\ c \in Nat /\ x \in Nat /\ y \in Nat /\ z \in Nat
  BY FilesAre
<1>2. b <= x /\ b <= c /\ c <= b + z
  BY FilesAre DEF FitsIn
<1>3. Restored(k) = a + b + ((x + y + z) - c)
  BY DEF Restored, Today
<1> HIDE DEF a, b, c, x, y, z
<1>4. /\ Restored(k) \in Nat /\ a + b <= Restored(k)
      /\ a + x + y <= Restored(k) /\ Restored(k) <= a + x + y + z
  BY <1>1, <1>2, <1>3
<1>5. QED
  BY <1>4 DEF a, b, c, x, y, z

LEMMA MainStartsTypes ==
  ASSUME Types, MainStarts
  PROVE  Types'
<1> USE DEF Types
<1>1. UNCHANGED <<mode, saving, base, hits, task, orphan, truth>> /\ cycle' = 0 /\ lost' = 0
      /\ pc \in {"off", "finished"} /\ pc' = "between"
  BY DEF MainStarts
<1>2. ASSUME NEW k \in Key
      PROVE  /\ base[k[1]].own[k] \in Nat /\ Restored(k) \in Nat /\ hits[k].ranked \in Nat
             /\ hits[k].ranked + hits[k].veiled \in Nat
             /\ FitsIn(hits[k].ranked, hits[k].ranked + hits[k].veiled, hits[k])
             /\ FitsIn(0, 0, hits[k])
  BY FilesAre, RestoredIs DEF FitsIn
<1>3. /\ count' \in Entries /\ own' \in Entries /\ seen' \in Entries /\ known' \in Entries
      /\ \A k \in Key : FitsIn(seen'[k], known'[k], hits[k])
  <2>1. CASE StartsAfresh
    BY <1>2, <2>1, ZeroIs DEF StartsAfresh
  <2>2. CASE Restores
    <3>1. \A k \in Key : /\ (IF k[1] \in Used THEN Restored(k) ELSE 0) \in Nat
                         /\ (IF k[1] \in Used THEN base[k[1]].own[k] ELSE 0) \in Nat
                         /\ (IF k[1] \in Used THEN hits[k].ranked ELSE 0) \in Nat
                         /\ (IF k[1] \in Used THEN hits[k].ranked + hits[k].veiled ELSE 0) \in Nat
      BY <1>2
    <3>2. count' \in Entries /\ own' \in Entries /\ seen' \in Entries /\ known' \in Entries
      BY <2>2, <3>1 DEF Restores, Entries
    <3>3. ASSUME NEW k \in Key PROVE FitsIn(seen'[k], known'[k], hits[k])
      <4>1. \/ seen'[k] = hits[k].ranked /\ known'[k] = hits[k].ranked + hits[k].veiled
            \/ seen'[k] = 0 /\ known'[k] = 0
        BY <2>2 DEF Restores
      <4>2. QED
        BY <1>2, <4>1
    <3>4. QED
      BY <3>2, <3>3
  <2>3. QED
    BY <2>1, <2>2 DEF MainStarts
<1>4. ASSUME NEW k \in Key PROVE Fit(seen, known, k)' /\ Fit(base[k[1]].seen, base[k[1]].known, k)'
  <2>1. FitsIn(seen'[k], known'[k], hits'[k])
    BY <1>1, <1>3
  <2>2. Fit(base[k[1]].seen, base[k[1]].known, k)
    BY DEF TypeOK
  <2>3. QED
    BY <1>1, <2>1, <2>2 DEF Fit, FitsIn
<1>5. 0 \in 0 .. (Period - 1)
  BY CampaignAssumption
<1>6. TypeOK'
  BY <1>1, <1>3, <1>4, <1>5 DEF TypeOK, Entries
<1>7. QED
  BY <1>1, <1>6 DEF TasksInRun, SavesProduct

LEMMA CycleTypes ==
  ASSUME Types, CycleBegins \/ CycleSkipped
  PROVE  Types'
<1> USE DEF Types, TypeOK
<1>1. cycle' \in 0 .. (Period - 1)
  <2>1. cycle \in Nat /\ Period \in Nat \ {0}
    OBVIOUS
  <2>2. cycle' = (cycle + 1) % Period
    BY DEF CycleBegins, CycleSkipped
  <2>3. QED
    BY <2>1, <2>2
<1>0. UNCHANGED <<mode, count, own, seen, known, saving, base, hits, orphan, truth, lost>>
  BY DEF CycleBegins, CycleSkipped
<1>01. \A k \in Key : (Fit(seen, known, k) /\ Fit(base[k[1]].seen, base[k[1]].known, k))'
  BY <1>0 DEF Fit
<1>2. CASE CycleSkipped
  BY <1>0, <1>01, <1>1, <1>2 DEF CycleSkipped, TasksInRun, SavesProduct
<1>3. CASE CycleBegins
  <2>1. task' \in [Phone -> {NoTask} \cup [key : Key, end : Ends]]
    <3>1. CASE task' = task
      BY <3>1
    <3>2. CASE mode = "single" => Unfinished(1) # {}
      <4>1. \A d \in Phone : Dealt(d) \in Key
        BY <3>2, DealtIsKey
      <4>2. QED
        BY <1>3, <3>2, <4>1 DEF CycleBegins, Ends
    <3>3. QED
      BY <1>3, <3>1, <3>2 DEF CycleBegins
  <2>2. TasksInRun' /\ SavesProduct'
    BY <1>3 DEF CycleBegins, TasksInRun, SavesProduct
  <2>3. QED
    BY <1>0, <1>01, <1>1, <1>3, <2>1, <2>2 DEF CycleBegins
<1>4. QED
  BY <1>2, <1>3

\* What can still be recorded of the lines: one with a rank is an entry of main,
\* too, and one without is recorded once and has room for one more.
Room(h) == h.ranked + 2 * h.plain + 2 * h.veiled
RoomOf(out) == IF out = "ranked" THEN 1 ELSE IF out = "plain" THEN 2 ELSE 0

\* The lines of a keyword become those with one more that ended like this, or
\* stay if no restore counts it.
Grows(h, g, out) ==
    /\ g \in Lines
    /\ h.ranked <= g.ranked /\ h.veiled <= g.veiled
    /\ g.ranked + g.plain <= h.ranked + h.plain + (IF out = "miss" THEN 0 ELSE 1)
    /\ Room(g) <= Room(h) + RoomOf(out)

LEMMA GrowsNot == \A h \in Lines, out \in {"ranked", "plain", "miss"} : Grows(h, h, out)
BY DEF Grows, Lines, Room, RoomOf

LEMMA GrowsPlain == \A h \in Lines : Grows(h, [h EXCEPT !.plain = @ + 1], "plain")
BY DEF Grows, Lines, Room, RoomOf

LEMMA GrowsRanked ==
  ASSUME NEW h \in Lines, NEW n \in 0 .. h.plain
  PROVE  Grows(h, [ranked |-> h.ranked + 1, plain |-> h.plain - n, veiled |-> h.veiled + n], "ranked")
BY DEF Grows, Lines, Room, RoomOf

\* A line of the history: one hit more of the keyword, and of its kind.
LEMMA LogsIs ==
  ASSUME TypeOK, NEW k \in Key, NEW out \in Ends \ {"run"}, Logs(k, out)
  PROVE  /\ hits' \in [Key -> Lines] /\ truth' \in [Key -> Nat]
         /\ \A j \in Key : /\ truth'[j] = truth[j] + (IF j = k /\ out # "miss" THEN 1 ELSE 0)
                           /\ IF j = k THEN Grows(hits[j], hits'[j], out) ELSE hits'[j] = hits[j]
<1>1. hits \in [Key -> Lines] /\ truth \in [Key -> Nat] /\ hits[k] \in Lines /\ truth[k] \in Nat
  BY DEF TypeOK, Lines
<1>2. out \in {"ranked", "plain", "miss"}
  BY DEF Ends
<1>3. ASSUME hits' = hits \/ \E h : hits' = [hits EXCEPT ![k] = h] /\ Grows(hits[k], h, out)
      PROVE  /\ hits' \in [Key -> Lines]
             /\ \A j \in Key : IF j = k THEN Grows(hits[j], hits'[j], out) ELSE hits'[j] = hits[j]
  <2>1. CASE hits' = hits
    BY <1>1, <1>2, <2>1, GrowsNot
  <2>2. CASE \E h : hits' = [hits EXCEPT ![k] = h] /\ Grows(hits[k], h, out)
    <3>1. PICK h : hits' = [hits EXCEPT ![k] = h] /\ Grows(hits[k], h, out)
      BY <2>2
    <3>2. h \in Lines
      BY <3>1 DEF Grows
    <3>3. QED
      BY <1>1, <3>1, <3>2
  <2>3. QED
    BY <1>3, <2>1, <2>2
<1>4. hits' = hits \/ \E h : hits' = [hits EXCEPT ![k] = h] /\ Grows(hits[k], h, out)
  <2>1. CASE hits' = hits
    BY <2>1
  <2>2. CASE out = "plain" /\ hits' = [hits EXCEPT ![k].plain = @ + 1]
    <3>1. hits' = [hits EXCEPT ![k] = [hits[k] EXCEPT !.plain = @ + 1]]
      BY <2>2
    <3>2. QED
      BY Zenon, <1>1, <2>2, <3>1, GrowsPlain
  <2>3. ASSUME out = "ranked", NEW n \in 0 .. hits[k].plain,
               hits' = [hits EXCEPT ![k] = [ranked |-> @.ranked + 1, plain |-> @.plain - n,
                                            veiled |-> @.veiled + n]]
        PROVE  \E h : hits' = [hits EXCEPT ![k] = h] /\ Grows(hits[k], h, out)
    <3>1. hits' = [hits EXCEPT ![k] = [ranked |-> hits[k].ranked + 1, plain |-> hits[k].plain - n,
                                       veiled |-> hits[k].veiled + n]]
      BY <2>3
    <3>2. QED
      BY Zenon, <1>1, <2>3, <3>1, GrowsRanked
  <2>4. QED
    BY <2>1, <2>2, <2>3 DEF Logs
<1>5. truth' \in [Key -> Nat] /\ \A j \in Key : truth'[j] = truth[j] + (IF j = k /\ out # "miss" THEN 1 ELSE 0)
  <2>1. \A j \in Key : truth[j] \in Nat
    BY <1>1
  <2>2. CASE out = "miss"
    BY <1>1, <2>1, <2>2 DEF Logs
  <2>3. CASE out # "miss"
    <3>1. truth' = [truth EXCEPT ![k] = truth[k] + 1]
      BY <2>3 DEF Logs
    <3>2. QED
      BY <1>1, <2>1, <2>3, <3>1
  <2>4. QED
    BY <2>2, <2>3
<1>6. QED
  BY Zenon, <1>3, <1>4, <1>5

\* A phone's work ends, as main is told or without that it is told.
LEMMA WorkerEndsTask ==
  ASSUME TypeOK, NEW d \in Phone, WorkerEnds(d) \/ WorkerBreaks(d)
  PROVE  /\ task[d].key \in Key /\ task[d].end = "run"
         /\ \E out \in Ends \ {"run"}, told \in Ends \ {"run"} :
              /\ Logs(task[d].key, out) /\ EndsAs(d, told)
              /\ \/ told = out /\ lost' = lost
                 \/ told = "miss" /\ lost' = lost + 1
<1>1. task[d] \in [key : Key, end : Ends] /\ task[d].end = "run"
  BY DEF TypeOK, WorkerEnds, WorkerBreaks, NoTask
<1>2. PICK out \in Ends \ {"run"}, told \in Ends \ {"run"} :
          /\ Logs(task[d].key, out) /\ task' = [task EXCEPT ![d].end = told]
          /\ \/ told = out /\ lost' = lost
             \/ told = "miss" /\ lost' = lost + 1
  <2>1. CASE WorkerEnds(d)
    BY <2>1 DEF WorkerEnds
  <2>2. CASE WorkerBreaks(d)
    <3>1. "miss" \in Ends \ {"run"} /\ \A out \in {"ranked", "plain"} : out \in Ends \ {"run"}
      BY DEF Ends
    <3>2. QED
      BY <2>2, <3>1 DEF WorkerBreaks
  <2>3. QED
    BY <2>1, <2>2
<1>3. task \in [Phone -> {NoTask} \cup [key : Key, end : Ends]]
  BY DEF TypeOK
<1>4. task'[d] = [key |-> task[d].key, end |-> told]
  BY <1>1, <1>2, <1>3
<1>5. DOMAIN task' = Phone /\ \A e \in Phone : e # d => task'[e] = task[e]
  BY <1>2, <1>3
<1>6. EndsAs(d, told)
  BY <1>4, <1>5 DEF EndsAs
<1>7. QED
  BY <1>1, <1>2, <1>6

\* A line more keeps the types of what it changes.
LEMMA LogsTypes ==
  ASSUME TypeOK, NEW k \in Key, NEW out \in Ends \ {"run"}, Logs(k, out), UNCHANGED memVars, base' = base
  PROVE  /\ hits' \in [Key -> Lines] /\ truth' \in [Key -> Nat]
         /\ \A j \in Key : (Fit(seen, known, j) /\ Fit(base[j[1]].seen, base[j[1]].known, j))'
<1>1. hits' \in [Key -> Lines] /\ truth' \in [Key -> Nat]
  BY LogsIs
<1>2. ASSUME NEW j \in Key
      PROVE  Fit(seen, known, j)' /\ Fit(base[j[1]].seen, base[j[1]].known, j)'
  <2>1. hits'[j] \in Lines /\ hits[j].ranked <= hits'[j].ranked /\ hits[j].veiled <= hits'[j].veiled
    <3>1. IF j = k THEN Grows(hits[j], hits'[j], out) ELSE hits'[j] = hits[j]
      BY LogsIs
    <3>2. hits[j] \in Lines
      BY FilesAre
    <3>3. CASE j = k
      BY <3>1, <3>3 DEF Grows
    <3>4. CASE j # k
      BY <3>1, <3>2, <3>4 DEF Lines
    <3>5. QED
      BY <3>3, <3>4
  <2>2. ASSUME NEW s \in Nat, NEW n \in Nat, FitsIn(s, n, hits[j]) PROVE FitsIn(s, n, hits'[j])
    <3>1. hits[j].ranked \in Nat /\ hits[j].veiled \in Nat /\ hits'[j].ranked \in Nat /\ hits'[j].veiled \in Nat
      BY <2>1, FilesAre DEF Lines
    <3>2. QED
      BY <2>1, <2>2, <3>1 DEF FitsIn
  <2>3. FitsIn(seen[j], known[j], hits'[j]) /\ FitsIn(base[j[1]].seen[j], base[j[1]].known[j], hits'[j])
    BY Zenon, <2>2, FilesAre
  <2>4. seen' = seen /\ known' = known /\ base' = base
    BY DEF memVars
  <2>5. QED
    BY <2>3, <2>4 DEF Fit, FitsIn
<1>3. QED
  BY <1>1, <1>2

LEMMA WorkerEndsTypes ==
  ASSUME Types, NEW d \in Phone, WorkerEnds(d) \/ WorkerBreaks(d)
  PROVE  Types'
<1> USE DEF Types
<1>1. task[d].key \in Key /\ task[d].end = "run"
  BY WorkerEndsTask
<1>2. PICK out \in Ends \ {"run"}, told \in Ends \ {"run"} :
          /\ Logs(task[d].key, out) /\ EndsAs(d, told)
          /\ \/ told = out /\ lost' = lost
             \/ told = "miss" /\ lost' = lost + 1
  BY WorkerEndsTask
<1>3. task' \in [Phone -> {NoTask} \cup [key : Key, end : Ends]]
  <2>1. task' = [e \in Phone |-> task'[e]]
    BY DEF WorkerEnds, WorkerBreaks, TypeOK
  <2>2. ASSUME NEW e \in Phone PROVE task'[e] \in {NoTask} \cup [key : Key, end : Ends]
    <3>1. CASE e = d
      <4>1. [key |-> task[d].key, end |-> told] \in [key : Key, end : Ends]
        BY <1>1, <1>2
      <4>2. QED
        BY <1>2, <3>1, <4>1 DEF EndsAs
    <3>2. CASE e # d
      BY <1>2, <3>2 DEF TypeOK, EndsAs
    <3>3. QED
      BY <3>1, <3>2
  <2>3. QED
    BY <2>1, <2>2
<1>4. pc = "run"
  BY <1>1 DEF TasksInRun, NoTask
<1>5. UNCHANGED <<mode, pc, memVars, base, orphan>> /\ lost' \in Nat
  BY <1>2 DEF WorkerEnds, WorkerBreaks, TypeOK
<1>6. /\ hits' \in [Key -> Lines] /\ truth' \in [Key -> Nat]
      /\ \A j \in Key : (Fit(seen, known, j) /\ Fit(base[j[1]].seen, base[j[1]].known, j))'
  BY <1>1, <1>2, <1>5, LogsTypes
<1>7. QED
  BY <1>3, <1>4, <1>5, <1>6 DEF memVars, TypeOK, TasksInRun, SavesProduct, Used, Lines

LEMMA OrphanEndsTypes ==
  ASSUME Types, NEW d \in Phone, NEW n \in 1 .. MaxKills, OrphanEnds(n, d)
  PROVE  Types'
<1> USE DEF Types
<1>1. orphan[n][d] \in Key
  <2>1. orphan[n] \in [Phone -> {NoKey} \cup Key]
    BY DEF TypeOK
  <2>2. QED
    BY <2>1 DEF OrphanEnds
<1>2. PICK out \in Ends \ {"run"} :
         Logs(orphan[n][d], out) /\ lost' = IF out = "miss" THEN lost ELSE lost + 1
  BY DEF OrphanEnds
<1>3. lost' \in Nat
  BY <1>2 DEF TypeOK
<1>4. UNCHANGED memVars /\ base' = base
  BY DEF OrphanEnds
<1>5. /\ hits' \in [Key -> Lines] /\ truth' \in [Key -> Nat]
      /\ \A j \in Key : (Fit(seen, known, j) /\ Fit(base[j[1]].seen, base[j[1]].known, j))'
  BY <1>1, <1>2, <1>4, LogsTypes
<1>6. orphan' \in [1 .. MaxKills -> [Phone -> {NoKey} \cup Key]]
  BY DEF OrphanEnds, TypeOK
<1>7. QED
  BY <1>3, <1>5, <1>6 DEF OrphanEnds, memVars, TypeOK, TasksInRun, SavesProduct, Used, Lines

LEMMA EvaluatesTypes ==
  ASSUME Types, Evaluates
  PROVE  Types'
<1> USE DEF Types
<1>1. \A k \in Key : /\ count[k] + Ended(k, {"ranked", "plain"}) \in Nat
                     /\ own[k] + Ended(k, {"ranked"}) \in Nat
  <2>1. \A k \in Key : count[k] \in Nat /\ own[k] \in Nat
    BY DEF TypeOK
  <2>2. \A a, b \in Nat : a + b \in Nat
    OBVIOUS
  <2>3. QED
    BY Zenon, EndedIsNat, <2>1, <2>2
<1>2. count' \in [Key -> Nat] /\ own' \in [Key -> Nat]
  BY <1>1 DEF Evaluates
<1>3. saving' \in 1 .. (Products + 1) /\ saving' \in Used'
  BY UsedProducts DEF Evaluates, Used
<1>4. task' \in [Phone -> {NoTask} \cup [key : Key, end : Ends]] /\ \A d \in Phone : task'[d] = NoTask
  BY DEF Evaluates
<1>5. \A k \in Key : (Fit(seen, known, k) /\ Fit(base[k[1]].seen, base[k[1]].known, k))'
  BY DEF Evaluates, TypeOK, Fit
<1>6. QED
  BY <1>2, <1>3, <1>4, <1>5 DEF Evaluates, TypeOK, TasksInRun, SavesProduct

\* The file of the product that is saved is cut off, then written; the others stay.
LEMMA SavedIs ==
  ASSUME Types, Opens \/ Writes
  PROVE  /\ base' \in [1 .. Products -> Files]
         /\ \A k \in Key : \/ base'[k[1]] = base[k[1]]
                           \/ base'[k[1]] = Nothing
                           \/ base'[k[1]] = [own |-> own, seen |-> seen, known |-> known]
         /\ \A k \in Key : (Fit(seen, known, k) /\ Fit(base[k[1]].seen, base[k[1]].known, k))'
<1> USE DEF Types
<1> DEFINE r == [own |-> own, seen |-> seen, known |-> known]
<1>1. r \in Files /\ Nothing \in Files
  BY NothingIs DEF TypeOK, Files, Entries
<1>2. base' = [base EXCEPT ![saving] = Nothing] \/ base' = [base EXCEPT ![saving] = r]
  BY DEF Opens, Writes
<1>3. base \in [1 .. Products -> Files]
  BY DEF TypeOK, Files, Entries
<1>4. \A p \in 1 .. Products : base'[p] = base[p] \/ base'[p] = Nothing \/ base'[p] = r
  <2> HIDE DEF r
  <2>1. QED
    BY <1>2, <1>3
<1>5. base' \in [1 .. Products -> Files]
  <2> HIDE DEF r
  <2>1. QED
    BY <1>1, <1>2, <1>3
<1>6. UNCHANGED <<seen, known, hits>>
  BY DEF Opens, Writes, memVars
<1>7. ASSUME NEW k \in Key
      PROVE  (Fit(seen, known, k) /\ Fit(base[k[1]].seen, base[k[1]].known, k))'
  <2>1. Fit(seen, known, k) /\ Fit(base[k[1]].seen, base[k[1]].known, k)
    BY DEF TypeOK
  <2>2. \/ base'[k[1]] = base[k[1]]
        \/ base'[k[1]].seen = Zero /\ base'[k[1]].known = Zero
        \/ base'[k[1]].seen = seen /\ base'[k[1]].known = known
    BY <1>4, KeysAre, NothingIs
  <2>3. FitsIn(Zero[k], Zero[k], hits[k])
    BY Zenon, ZeroIs, NoneFit, FilesAre
  <2>4. QED
    BY <1>6, <2>1, <2>2, <2>3 DEF Fit, FitsIn
<1>8. QED
  BY <1>4, <1>5, <1>7, KeysAre

LEMMA OpensTypes ==
  ASSUME Types, Opens
  PROVE  Types'
<1> USE DEF Types
<1>1. base' \in [1 .. Products -> Files]
      /\ \A k \in Key : (Fit(seen, known, k) /\ Fit(base[k[1]].seen, base[k[1]].known, k))'
  BY SavedIs
<1>2. QED
  BY <1>1 DEF Opens, memVars, TypeOK, TasksInRun, SavesProduct, Used, Files, Entries

LEMMA WritesTypes ==
  ASSUME Types, Writes
  PROVE  Types'
<1> USE DEF Types
<1>1. base' \in [1 .. Products -> Files]
      /\ \A k \in Key : (Fit(seen, known, k) /\ Fit(base[k[1]].seen, base[k[1]].known, k))'
  BY SavedIs
<1>5. saving \in 1 .. Products /\ saving' = saving + 1
  BY UsedProducts DEF Writes, SavesProduct
<1>6. saving' \in 1 .. (Products + 1)
  BY <1>5
<1>7. pc' \in {"save", "finished", "between"} /\ (pc' = "save" => saving' \in Used') /\ pc = "write"
  BY DEF Writes, Used
<1>8. \A d \in Phone : task'[d] = NoTask
  BY <1>7 DEF Writes, TasksInRun
<1>9. QED
  BY <1>1, <1>6, <1>7, <1>8 DEF Writes, TypeOK, TasksInRun, SavesProduct, Files, Entries

LEMMA AgedIs ==
  ASSUME NEW r \in Files
  PROVE  /\ Aged(r) \in Files
         /\ Aged(r).seen = Zero /\ Aged(r).known = Zero
         /\ \A k \in Key : Aged(r).own[k] = r.own[k] + r.seen[k]
<1>1. \A k \in Key : r.own[k] + r.seen[k] \in Nat
  BY DEF Files, Entries
<1>2. QED
  BY <1>1, ZeroIs DEF Aged, Files, Entries

LEMMA MidnightTypes ==
  ASSUME Types, Midnight
  PROVE  Types'
<1> USE DEF Types
<1>1. base \in [1 .. Products -> Files]
  BY DEF TypeOK, Files, Entries
<1>2. base' \in [1 .. Products -> Files] /\ \A p \in 1 .. Products : base'[p] = Aged(base[p])
  BY <1>1, AgedIs DEF Midnight
<1>3. hits' \in [Key -> Lines] /\ \A k \in Key : hits'[k] = NoLine
  BY NoLineIs DEF Midnight
<1>4. own' \in [Key -> Nat] /\ seen' \in [Key -> Nat] /\ known' \in [Key -> Nat]
      /\ seen' = Zero /\ known' = Zero
  <2>1. \A k \in Key : own[k] + seen[k] \in Nat
    BY DEF TypeOK
  <2>2. own' = [k \in Key |-> own[k] + seen[k]] /\ seen' = Zero /\ known' = Zero
    BY DEF Midnight
  <2>3. QED
    BY <2>1, <2>2, ZeroIs DEF Entries
<1>5. ASSUME NEW k \in Key PROVE (Fit(seen, known, k) /\ Fit(base[k[1]].seen, base[k[1]].known, k))'
  <2>1. base'[k[1]].seen = Zero /\ base'[k[1]].known = Zero
    BY <1>1, <1>2, KeysAre, AgedIs
  <2>2. FitsIn(Zero[k], Zero[k], hits'[k])
    BY Zenon, <1>3, ZeroIs, NoLineIs
  <2>3. QED
    BY <1>4, <2>1, <2>2 DEF Fit, FitsIn
<1>6. QED
  BY <1>2, <1>3, <1>4, <1>5 DEF Midnight, TypeOK, TasksInRun, SavesProduct, Used, Files, Entries, Lines

LEMMA MainStopsTypes ==
  ASSUME Types, MainStops
  PROVE  Types'
<1> USE DEF Types
<1>1. task' \in [Phone -> {NoTask} \cup [key : Key, end : Ends]] /\ \A d \in Phone : task'[d] = NoTask
  BY DEF MainStops
<1>2. \A d \in Phone : task[d].end = "run" => task[d].key \in Key
  BY DEF TypeOK, NoTask
<1>3. orphan' \in [1 .. MaxKills -> [Phone -> {NoKey} \cup Key]]
  BY <1>2 DEF MainStops, TypeOK
<1>4. \A k \in Key : (Fit(seen, known, k) /\ Fit(base[k[1]].seen, base[k[1]].known, k))'
  BY DEF MainStops, memVars, TypeOK, Fit
<1>5. QED
  BY <1>1, <1>3, <1>4 DEF MainStops, memVars, TypeOK, TasksInRun, SavesProduct

LEMMA TypesStep ==
  ASSUME Types, [Next]_vars
  PROVE  Types'
<1>1. CASE UNCHANGED vars
  BY <1>1 DEF vars, memVars, Types, TypeOK, TasksInRun, SavesProduct, Used, Fit
<1>2. ASSUME NEW d \in Phone,
             WorkerEnds(d) \/ WorkerBreaks(d) \/ \E n \in 1 .. MaxKills : OrphanEnds(n, d)
      PROVE  Types'
  BY <1>2, WorkerEndsTypes, OrphanEndsTypes
<1>3. QED
  BY <1>1, <1>2, MainStartsTypes, CycleTypes, EvaluatesTypes, OpensTypes, WritesTypes, MidnightTypes,
     MainStopsTypes DEF Next

\* The counts, the files and the tasks always have their types, and every phone
\* is dealt a keyword that the campaign has.
THEOREM CampaignTypeOK == Spec => []TypeOK
<1>1. Init => Types
  BY TypesInit
<1>2. Types /\ [Next]_vars => Types'
  BY TypesStep
<1>3. QED
  BY <1>1, <1>2, PTL DEF Spec, Types

-----------------------------------------------------------------------------

\* What is recorded of a hit, twice if it has a rank: in main's memory with the
\* lines of today, and in the baseline with the lines of today, which are what
\* the next restart adds up.  A line without a rank is recorded once, and has
\* room for one more.
RecordedAtMostTwice ==
    \A k \in Key :
        /\ count[k] + Ended(k, {"ranked", "plain"}) <= 2 * truth[k]
        /\ own[k] + Ended(k, {"ranked"}) + Room(hits[k]) <= 2 * truth[k]
        /\ base[k[1]].own[k] + Room(hits[k]) <= 2 * truth[k]

\* What main is about to save is counted.
EntriesAreCounted ==
    pc # "off" /\ ~fresh =>
        \A k \in Key : k[1] \in Used => own[k] + seen[k] <= count[k]

Counted == RecordedAtMostTwice /\ EntriesAreCounted /\ SavedHitsStay /\ TodayIsCounted

\* The same for one keyword, of which SavedHitsStay and the others are made.
OfKey(k) ==
    /\ count[k] + Ended(k, {"ranked", "plain"}) <= 2 * truth[k]
    /\ own[k] + Ended(k, {"ranked"}) + Room(hits[k]) <= 2 * truth[k]
    /\ base[k[1]].own[k] + Room(hits[k]) <= 2 * truth[k]
    /\ pc # "off" /\ ~fresh /\ k[1] \in Used =>
          /\ own[k] + seen[k] <= count[k]
          /\ base[k[1]].own[k] + base[k[1]].seen[k] <= count[k]
          /\ hits[k].ranked + hits[k].plain <= count[k] + Ended(k, {"ranked", "plain"}) + lost

LEMMA CountedIsOfKeys == Counted <=> \A k \in Key : OfKey(k)
BY DEF Counted, RecordedAtMostTwice, EntriesAreCounted, SavedHitsStay, TodayIsCounted, OfKey

\* All of it is made of natural numbers.
LEMMA OfKeyTypes ==
  ASSUME TypeOK, NEW k \in Key
  PROVE  /\ count[k] \in Nat /\ own[k] \in Nat /\ seen[k] \in Nat /\ truth[k] \in Nat /\ lost \in Nat
         /\ hits[k].ranked \in Nat /\ hits[k].plain \in Nat /\ hits[k].veiled \in Nat
         /\ Room(hits[k]) \in Nat /\ hits[k].ranked + hits[k].plain \in Nat
         /\ hits[k].ranked + hits[k].plain + hits[k].veiled <= Room(hits[k])
         /\ base[k[1]].own[k] \in Nat /\ base[k[1]].seen[k] \in Nat
         /\ seen[k] <= hits[k].ranked /\ base[k[1]].seen[k] <= hits[k].ranked
         /\ seen[k] <= Room(hits[k]) /\ base[k[1]].seen[k] <= Room(hits[k])
         /\ Ended(k, {"ranked"}) \in Nat /\ Ended(k, {"ranked", "plain"}) \in Nat
         /\ Ended(k, {"ranked"}) <= Ended(k, {"ranked", "plain"})
<1>1. count[k] \in Nat /\ own[k] \in Nat /\ seen[k] \in Nat /\ truth[k] \in Nat /\ lost \in Nat
  BY DEF TypeOK
<1>2. /\ hits[k].ranked \in Nat /\ hits[k].plain \in Nat /\ hits[k].veiled \in Nat
      /\ base[k[1]].own[k] \in Nat /\ base[k[1]].seen[k] \in Nat
  BY FilesAre
<1>3. seen[k] <= hits[k].ranked /\ base[k[1]].seen[k] <= hits[k].ranked
  BY FilesAre DEF FitsIn
<1>4. Ended(k, {"ranked"}) \in Nat /\ Ended(k, {"ranked", "plain"}) \in Nat
  BY EndedIsNat
<1>5. Ended(k, {"ranked"}) <= Ended(k, {"ranked", "plain"})
  BY FewerEnded
<1>6. /\ Room(hits[k]) \in Nat /\ hits[k].ranked + hits[k].plain \in Nat
      /\ hits[k].ranked + hits[k].plain + hits[k].veiled <= Room(hits[k])
      /\ seen[k] <= Room(hits[k]) /\ base[k[1]].seen[k] <= Room(hits[k])
  BY <1>1, <1>2, <1>3 DEF Room
<1>7. QED
  BY <1>1, <1>2, <1>3, <1>4, <1>5, <1>6

\* After a step at whose end no task has ended, nothing is left to evaluate.
LEMMA NothingEndedNext ==
  ASSUME NEW outs, outs \subseteq {"ranked", "plain"},
         \A d \in Phone : task'[d].end \in {"run", "none"}, NEW k
  PROVE  Ended(k, outs)' = 0
<1>1. {d \in Phone : task'[d].key = k /\ task'[d].end \in outs} = {}
  OBVIOUS
<1>2. QED
  BY <1>1, FS_EmptySet DEF Ended

\* Outside of a cycle nothing has ended.
LEMMA NothingEndedBetween ==
  ASSUME Types, pc # "run", NEW k
  PROVE  Ended(k, {"ranked"}) = 0 /\ Ended(k, {"ranked", "plain"}) = 0
<1>1. \A d \in Phone : task[d].end \in {"run", "none"}
  BY DEF Types, TasksInRun, NoTask
<1>2. QED
  BY <1>1, NothingEnded

LEMMA CountedInit == Init => Counted
<1> SUFFICES ASSUME Init PROVE \A k \in Key : OfKey(k)
  BY CountedIsOfKeys
<1> TAKE k \in Key
<1>1. Types
  BY TypesInit
<1>2. Ended(k, {"ranked"}) = 0 /\ Ended(k, {"ranked", "plain"}) = 0
  BY <1>1, NothingEndedBetween DEF Init
<1>3. count[k] = 0 /\ own[k] = 0 /\ truth[k] = 0
  BY DEF Init, Zero
<1>4. Room(hits[k]) = 0
  BY DEF Init, NoLine, Room
<1>5. base[k[1]].own[k] = 0
  BY KeysAre DEF Init, Nothing, Zero
<1>6. pc = "off"
  BY DEF Init
<1>7. QED
  BY <1>2, <1>3, <1>4, <1>5, <1>6 DEF OfKey

\* A restart: the baseline's own entries and today's lines, of which those with
\* a rank are entries.
LEMMA MainStartsCounted ==
  ASSUME Types, MainStarts, NEW k \in Key, OfKey(k)
  PROVE  OfKey(k)'
<1>1. TypeOK
  BY DEF Types
<1>2. pc # "run" /\ task' = task /\ base' = base /\ hits' = hits /\ truth' = truth /\ lost' = 0
      /\ Used' = Used
  BY DEF MainStarts, Used
<1>3. Ended(k, {"ranked"})' = 0 /\ Ended(k, {"ranked", "plain"})' = 0
  BY <1>2, NothingEndedBetween DEF Ended
<1>4. CASE StartsAfresh
  <2>1. count'[k] = 0 /\ own'[k] = 0 /\ fresh' = TRUE
    BY <1>4 DEF StartsAfresh, Zero
  <2>2. QED
    BY <1>1, <1>2, <1>3, <2>1, OfKeyTypes DEF OfKey
<1>5. CASE Restores
  <2>1. /\ Restored(k) \in Nat
        /\ base[k[1]].own[k] + base[k[1]].seen[k] <= Restored(k)
        /\ base[k[1]].own[k] + hits[k].ranked + hits[k].plain <= Restored(k)
        /\ Restored(k) <= base[k[1]].own[k] + hits[k].ranked + hits[k].plain + hits[k].veiled
    BY <1>1, RestoredIs
  <2>2. Restored(k) <= base[k[1]].own[k] + Room(hits[k])
    BY <1>1, <2>1, OfKeyTypes
  <2>3. CASE k[1] \in Used
    <3>1. count'[k] = Restored(k) /\ own'[k] = base[k[1]].own[k] /\ seen'[k] = hits[k].ranked
      BY <1>5, <2>3 DEF Restores
    <3>2. own'[k] + seen'[k] <= count'[k]
      BY <1>1, <2>1, <3>1, OfKeyTypes
    <3>3. hits[k].ranked + hits[k].plain <= count'[k] + 0 + 0
      BY <1>1, <2>1, <3>1, OfKeyTypes
    <3>4. count'[k] + 0 <= 2 * truth[k] /\ own'[k] + 0 + Room(hits[k]) <= 2 * truth[k]
      BY <1>1, <2>1, <2>2, <3>1, OfKeyTypes DEF OfKey
    <3>5. QED
      BY <1>2, <1>3, <2>1, <3>1, <3>2, <3>3, <3>4 DEF OfKey
  <2>4. CASE k[1] \notin Used
    <3>1. count'[k] = 0 /\ own'[k] = 0
      BY <1>5, <2>4 DEF Restores
    <3>2. QED
      BY <1>1, <1>2, <1>3, <2>4, <3>1, OfKeyTypes DEF OfKey
  <2>5. QED
    BY <2>3, <2>4
<1>6. QED
  BY <1>4, <1>5 DEF MainStarts

LEMMA CycleCounted ==
  ASSUME Types, CycleBegins \/ CycleSkipped, NEW k \in Key, OfKey(k)
  PROVE  OfKey(k)'
<1>1. pc = "between" /\ UNCHANGED <<mode, count, own, seen, base, hits, truth, lost, fresh>>
  BY DEF CycleBegins, CycleSkipped
<1>2. Ended(k, {"ranked"}) = 0 /\ Ended(k, {"ranked", "plain"}) = 0
  BY <1>1, NothingEndedBetween
<1>3. Ended(k, {"ranked"})' = 0 /\ Ended(k, {"ranked", "plain"})' = 0
  <2>1. \A d \in Phone : task'[d].end \in {"run", "none"}
    BY <1>1 DEF CycleBegins, CycleSkipped, Types, TasksInRun, NoTask
  <2>2. QED
    BY <2>1, NothingEndedNext
<1>4. Used' = Used
  BY <1>1 DEF Used
<1>5. QED
  BY <1>1, <1>2, <1>3, <1>4 DEF OfKey

\* A line of a hit, which main will evaluate, has evaluated in vain, or will not.
LEMMA LogsOfKey ==
  ASSUME TypeOK, NEW q \in Key, NEW out \in Ends \ {"run"}, Logs(q, out), NEW k \in Key
  PROVE  IF q = k /\ out # "miss"
         THEN /\ truth'[k] = truth[k] + 1
              /\ Room(hits'[k]) <= Room(hits[k]) + RoomOf(out) /\ Room(hits'[k]) \in Nat
              /\ hits'[k].ranked + hits'[k].plain <= hits[k].ranked + hits[k].plain + 1
              /\ hits'[k].ranked + hits'[k].plain \in Nat
         ELSE truth'[k] = truth[k] /\ hits'[k] = hits[k]
<1>1. /\ truth'[k] = truth[k] + (IF k = q /\ out # "miss" THEN 1 ELSE 0)
      /\ IF k = q THEN Grows(hits[k], hits'[k], out) ELSE hits'[k] = hits[k]
  BY LogsIs
<1>2. truth[k] \in Nat
  BY OfKeyTypes
<1>3. CASE q = k /\ out # "miss"
  <2>1. Grows(hits[k], hits'[k], out) /\ hits'[k] \in Lines
    BY <1>1, <1>3 DEF Grows
  <2>2. hits'[k].ranked \in Nat /\ hits'[k].plain \in Nat /\ hits'[k].veiled \in Nat
    BY <2>1 DEF Lines
  <2>3. Room(hits'[k]) \in Nat /\ hits'[k].ranked + hits'[k].plain \in Nat
    BY <2>2 DEF Room
  <2>4. Room(hits'[k]) <= Room(hits[k]) + RoomOf(out)
        /\ hits'[k].ranked + hits'[k].plain <= hits[k].ranked + hits[k].plain + 1
    BY <1>3, <2>1 DEF Grows
  <2>5. QED
    BY <1>1, <1>3, <2>3, <2>4
<1>4. CASE q # k
  BY <1>1, <1>2, <1>4
<1>5. CASE out = "miss"
  <2>1. UNCHANGED <<hits, truth>>
    BY <1>5 DEF Logs
  <2>2. QED
    BY <1>5, <2>1
<1>6. QED
  BY <1>3, <1>4, <1>5

LEMMA WorkerEndsCounted ==
  ASSUME Types, NEW d \in Phone, WorkerEnds(d) \/ WorkerBreaks(d), NEW k \in Key, OfKey(k)
  PROVE  OfKey(k)'
<1>1. TypeOK
  BY DEF Types
<1>2. task[d].key \in Key /\ task[d].end = "run"
  BY <1>1, WorkerEndsTask
<1>3. PICK out \in Ends \ {"run"}, told \in Ends \ {"run"} :
          /\ Logs(task[d].key, out) /\ EndsAs(d, told)
          /\ \/ told = out /\ lost' = lost
             \/ told = "miss" /\ lost' = lost + 1
  BY <1>1, WorkerEndsTask
<1>4. UNCHANGED <<mode, pc, count, own, seen, base, fresh>> /\ Used' = Used
  BY DEF WorkerEnds, WorkerBreaks, memVars, Used
<1>5. task[d].end \notin {"ranked"} /\ task[d].end \notin {"ranked", "plain"}
  BY <1>2
<1>6. EndsAs(d, told)
  BY <1>3
<1>7. /\ task[d].key = k /\ told \in {"ranked"} => Ended(k, {"ranked"})' = Ended(k, {"ranked"}) + 1
      /\ ~(task[d].key = k /\ told \in {"ranked"}) => Ended(k, {"ranked"})' = Ended(k, {"ranked"})
  BY <1>5, <1>6, OneEnds
<1>8. /\ task[d].key = k /\ told \in {"ranked", "plain"} =>
             Ended(k, {"ranked", "plain"})' = Ended(k, {"ranked", "plain"}) + 1
      /\ ~(task[d].key = k /\ told \in {"ranked", "plain"}) =>
             Ended(k, {"ranked", "plain"})' = Ended(k, {"ranked", "plain"})
  BY <1>5, <1>6, OneEnds
<1>9. out \in {"ranked", "plain", "miss"} /\ lost \in Nat /\ lost' \in Nat /\ lost <= lost'
      /\ lost' <= lost + 1
  BY <1>1, <1>3, OfKeyTypes DEF Ends
<1>10. IF task[d].key = k /\ out # "miss"
       THEN /\ truth'[k] = truth[k] + 1
            /\ Room(hits'[k]) <= Room(hits[k]) + RoomOf(out) /\ Room(hits'[k]) \in Nat
            /\ hits'[k].ranked + hits'[k].plain <= hits[k].ranked + hits[k].plain + 1
            /\ hits'[k].ranked + hits'[k].plain \in Nat
       ELSE truth'[k] = truth[k] /\ hits'[k] = hits[k]
  BY <1>1, <1>2, <1>3, LogsOfKey
<1>11. CASE task[d].key # k \/ out = "miss"
  <2>1. truth'[k] = truth[k] /\ hits'[k] = hits[k]
    BY <1>10, <1>11
  <2>2. task[d].key = k => told = "miss"
    BY <1>3, <1>11
  <2>3. /\ Ended(k, {"ranked"})' = Ended(k, {"ranked"})
        /\ Ended(k, {"ranked", "plain"})' = Ended(k, {"ranked", "plain"})
    BY <1>7, <1>8, <2>2
  <2>4. QED
    BY <1>1, <1>4, <1>9, <2>1, <2>3, OfKeyTypes DEF OfKey
<1>12. CASE task[d].key = k /\ out # "miss"
  <2>1. /\ truth'[k] = truth[k] + 1
        /\ Room(hits'[k]) <= Room(hits[k]) + RoomOf(out) /\ Room(hits'[k]) \in Nat
        /\ hits'[k].ranked + hits'[k].plain <= hits[k].ranked + hits[k].plain + 1
        /\ hits'[k].ranked + hits'[k].plain \in Nat
    BY <1>10, <1>12
  <2>2. CASE told = out /\ lost' = lost /\ out = "ranked"
    <3>1. /\ Ended(k, {"ranked"})' = Ended(k, {"ranked"}) + 1
          /\ Ended(k, {"ranked", "plain"})' = Ended(k, {"ranked", "plain"}) + 1
      BY <1>7, <1>8, <1>12, <2>2
    <3>2. RoomOf(out) = 1
      BY <2>2 DEF RoomOf
    <3>3. QED
      BY <1>1, <1>4, <2>1, <2>2, <3>1, <3>2, OfKeyTypes DEF OfKey
  <2>3. CASE told = out /\ lost' = lost /\ out = "plain"
    <3>1. /\ Ended(k, {"ranked"})' = Ended(k, {"ranked"})
          /\ Ended(k, {"ranked", "plain"})' = Ended(k, {"ranked", "plain"}) + 1
      BY <1>7, <1>8, <1>12, <2>3
    <3>2. RoomOf(out) = 2
      BY <2>3 DEF RoomOf
    <3>3. QED
      BY <1>1, <1>4, <2>1, <2>3, <3>1, <3>2, OfKeyTypes DEF OfKey
  <2>4. CASE told = "miss" /\ lost' = lost + 1
    <3>1. /\ Ended(k, {"ranked"})' = Ended(k, {"ranked"})
          /\ Ended(k, {"ranked", "plain"})' = Ended(k, {"ranked", "plain"})
      BY <1>7, <1>8, <2>4
    <3>2. RoomOf(out) \in 0 .. 2
      BY DEF RoomOf
    <3>3. QED
      BY <1>1, <1>4, <1>9, <2>1, <2>4, <3>1, <3>2, OfKeyTypes DEF OfKey
  <2>5. QED
    BY <1>3, <1>9, <1>12, <2>2, <2>3, <2>4
<1>13. QED
  BY <1>11, <1>12

LEMMA OrphanEndsCounted ==
  ASSUME Types, NEW d \in Phone, NEW n \in 1 .. MaxKills, OrphanEnds(n, d), NEW k \in Key, OfKey(k)
  PROVE  OfKey(k)'
<1>1. TypeOK
  BY DEF Types
<1>2. orphan[n][d] \in Key
  <2>1. orphan[n] \in [Phone -> {NoKey} \cup Key]
    BY <1>1 DEF TypeOK
  <2>2. QED
    BY <2>1 DEF OrphanEnds
<1>3. PICK out \in Ends \ {"run"} :
         Logs(orphan[n][d], out) /\ lost' = IF out = "miss" THEN lost ELSE lost + 1
  BY DEF OrphanEnds
<1>4. UNCHANGED <<mode, pc, count, own, seen, base, task, fresh>> /\ Used' = Used
  BY DEF OrphanEnds, memVars, Used
<1>5. Ended(k, {"ranked"})' = Ended(k, {"ranked"}) /\ Ended(k, {"ranked", "plain"})' = Ended(k, {"ranked", "plain"})
  BY <1>4 DEF Ended
<1>6. IF orphan[n][d] = k /\ out # "miss"
      THEN /\ truth'[k] = truth[k] + 1
           /\ Room(hits'[k]) <= Room(hits[k]) + RoomOf(out) /\ Room(hits'[k]) \in Nat
           /\ hits'[k].ranked + hits'[k].plain <= hits[k].ranked + hits[k].plain + 1
           /\ hits'[k].ranked + hits'[k].plain \in Nat
      ELSE truth'[k] = truth[k] /\ hits'[k] = hits[k]
  BY <1>1, <1>2, <1>3, LogsOfKey
<1>7. RoomOf(out) \in 0 .. 2 /\ lost \in Nat
  BY <1>1, OfKeyTypes DEF RoomOf
<1>8. CASE orphan[n][d] = k /\ out # "miss"
  <2>1. lost' = lost + 1
    BY <1>3, <1>8
  <2>2. QED
    BY <1>1, <1>4, <1>5, <1>6, <1>7, <1>8, <2>1, OfKeyTypes DEF OfKey
<1>9. CASE ~(orphan[n][d] = k /\ out # "miss")
  <2>1. lost' = lost \/ lost' = lost + 1
    BY <1>3
  <2>2. QED
    BY <1>1, <1>4, <1>5, <1>6, <1>7, <1>9, <2>1, OfKeyTypes DEF OfKey
<1>10. QED
  BY <1>8, <1>9

LEMMA EvaluatesCounted ==
  ASSUME Types, Evaluates, NEW k \in Key, OfKey(k)
  PROVE  OfKey(k)'
<1>1. TypeOK
  BY DEF Types
<1>2. UNCHANGED <<mode, seen, base, hits, truth, lost, fresh>> /\ Used' = Used /\ pc = "run"
  BY DEF Evaluates, Used
<1>3. /\ count'[k] = count[k] + Ended(k, {"ranked", "plain"})
      /\ own'[k] = own[k] + Ended(k, {"ranked"})
  BY DEF Evaluates
<1>4. Ended(k, {"ranked"})' = 0 /\ Ended(k, {"ranked", "plain"})' = 0
  <2>1. \A d \in Phone : task'[d].end \in {"run", "none"}
    BY DEF Evaluates, NoTask
  <2>2. QED
    BY <2>1, NothingEndedNext
<1>5. QED
  BY <1>1, <1>2, <1>3, <1>4, OfKeyTypes DEF OfKey

\* The file that is cut off has fewer entries than it had, the one that is
\* written has those of main.
LEMMA SavesCounted ==
  ASSUME Types, Opens \/ Writes, NEW k \in Key, OfKey(k)
  PROVE  OfKey(k)'
<1>1. TypeOK
  BY DEF Types
<1>2. UNCHANGED <<mode, count, own, seen, hits, truth, lost, fresh, task>> /\ Used' = Used
      /\ pc \notin {"off", "run"}
  BY DEF Opens, Writes, memVars, Used
<1>3. /\ Ended(k, {"ranked"})' = Ended(k, {"ranked"})
      /\ Ended(k, {"ranked", "plain"})' = Ended(k, {"ranked", "plain"})
      /\ Ended(k, {"ranked"}) = 0
  BY <1>2, NothingEndedBetween DEF Ended
<1>4. \/ base'[k[1]] = base[k[1]]
      \/ base'[k[1]] = Nothing
      \/ base'[k[1]] = [own |-> own, seen |-> seen, known |-> known]
  BY SavedIs
<1>5. \/ base'[k[1]].own[k] = base[k[1]].own[k] /\ base'[k[1]].seen[k] = base[k[1]].seen[k]
      \/ base'[k[1]].own[k] = 0 /\ base'[k[1]].seen[k] = 0
      \/ base'[k[1]].own[k] = own[k] /\ base'[k[1]].seen[k] = seen[k]
  BY <1>4, NothingIs, ZeroIs
<1>6. QED
  BY <1>1, <1>2, <1>3, <1>5, OfKeyTypes DEF OfKey

LEMMA MidnightCounted ==
  ASSUME Types, Midnight, NEW k \in Key, OfKey(k)
  PROVE  OfKey(k)'
<1>1. TypeOK
  BY DEF Types
<1>2. UNCHANGED <<mode, pc, count, task, truth, fresh>> /\ Used' = Used /\ lost' = 0
  BY DEF Midnight, Used
<1>3. Ended(k, {"ranked"})' = Ended(k, {"ranked"}) /\ Ended(k, {"ranked", "plain"})' = Ended(k, {"ranked", "plain"})
  BY <1>2 DEF Ended
<1>4. own'[k] = own[k] + seen[k] /\ seen'[k] = 0
  BY ZeroIs DEF Midnight
<1>5. hits'[k].ranked = 0 /\ hits'[k].plain = 0 /\ Room(hits'[k]) = 0
  BY DEF Midnight, NoLine, Room
<1>6. base'[k[1]].own[k] = base[k[1]].own[k] + base[k[1]].seen[k] /\ base'[k[1]].seen[k] = 0
  <2>1. base'[k[1]] = Aged(base[k[1]]) /\ base[k[1]] \in Files
    BY <1>1, KeysAre, FilesAre DEF Midnight
  <2>2. QED
    BY <2>1, AgedIs, ZeroIs
<1>7. own[k] + seen[k] <= 2 * truth[k] /\ base[k[1]].own[k] + base[k[1]].seen[k] <= 2 * truth[k]
      /\ own[k] + seen[k] + Ended(k, {"ranked"}) <= 2 * truth[k]
  BY <1>1, OfKeyTypes DEF OfKey
<1>8. QED
  BY <1>1, <1>2, <1>3, <1>4, <1>5, <1>6, <1>7, OfKeyTypes DEF OfKey

LEMMA MainStopsCounted ==
  ASSUME Types, MainStops, NEW k \in Key, OfKey(k)
  PROVE  OfKey(k)'
<1>1. TypeOK
  BY DEF Types
<1>2. UNCHANGED <<count, own, base, hits, truth>> /\ pc' = "off"
  BY DEF MainStops, memVars
<1>3. Ended(k, {"ranked"})' = 0 /\ Ended(k, {"ranked", "plain"})' = 0
  <2>1. \A d \in Phone : task'[d].end \in {"run", "none"}
    BY DEF MainStops, NoTask
  <2>2. QED
    BY <2>1, NothingEndedNext
<1>4. QED
  BY <1>1, <1>2, <1>3, OfKeyTypes DEF OfKey

LEMMA CountedStep ==
  ASSUME Types, Counted, [Next]_vars
  PROVE  Counted'
<1> SUFFICES ASSUME NEW k \in Key, OfKey(k) PROVE OfKey(k)'
  BY CountedIsOfKeys DEF Counted, RecordedAtMostTwice, EntriesAreCounted, SavedHitsStay, TodayIsCounted,
     OfKey
<1>1. CASE UNCHANGED vars
  BY <1>1 DEF vars, memVars, OfKey, Ended, Used
<1>2. ASSUME NEW d \in Phone,
             WorkerEnds(d) \/ WorkerBreaks(d) \/ \E n \in 1 .. MaxKills : OrphanEnds(n, d)
      PROVE  OfKey(k)'
  BY <1>2, WorkerEndsCounted, OrphanEndsCounted
<1>3. QED
  BY <1>1, <1>2, MainStartsCounted, CycleCounted, EvaluatesCounted, SavesCounted, MidnightCounted,
     MainStopsCounted DEF Next

LEMMA CountedAlways == Spec => [](TypeOK /\ Counted)
<1>1. Init => Types /\ Counted
  BY TypesInit, CountedInit
<1>2. Types /\ Counted /\ [Next]_vars => Types' /\ Counted'
  BY TypesStep, CountedStep
<1>3. Types => TypeOK
  BY DEF Types
<1>4. QED
  BY <1>1, <1>2, <1>3, PTL DEF Spec

\* No hit of a campaign is counted more than twice, however often main is
\* stopped and started again, at any midnight and with any file cut off: what
\* main saved and what the workers logged of one hit is added up only once more.
THEOREM CampaignCountedAtMostTwice == Spec => []CountedAtMostTwice
<1>1. TypeOK /\ Counted => CountedAtMostTwice
  <2> SUFFICES ASSUME TypeOK, Counted, NEW k \in Key PROVE count[k] <= 2 * truth[k]
    BY DEF CountedAtMostTwice
  <2>1. count[k] + Ended(k, {"ranked", "plain"}) <= 2 * truth[k]
    BY DEF Counted, RecordedAtMostTwice
  <2>2. QED
    BY <2>1, OfKeyTypes
<1>2. QED
  BY <1>1, CountedAlways, PTL

\* What the baseline would restore, main has counted.
THEOREM CampaignSavedHitsStay == Spec => []SavedHitsStay
<1>1. Counted => SavedHitsStay
  BY DEF Counted
<1>2. QED
  BY <1>1, CountedAlways, PTL

\* What ended today and the history has under its keyword is counted, whatever
\* became of the files, but for as many hits as main got no result of.
THEOREM CampaignTodayIsCounted == Spec => []TodayIsCounted
<1>1. Counted => TodayIsCounted
  BY DEF Counted
<1>2. QED
  BY <1>1, CountedAlways, PTL
=============================================================================
