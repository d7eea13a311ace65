-------------------------- MODULE LteTrafficProofs --------------------------
(***************************************************************************)
(* Proofs about LteTraffic: the day's sum and the count of its reports, by *)
(* reports and by queries that rebuild them, for every number of reports,  *)
(* sendings, nights and resets.                                            *)
(*                                                                         *)
(* That a sum made from the first and the last counter stays within the    *)
(* traffic needs to know how far the counter can have grown between any    *)
(* two reports, and since each of them (GrownAt); and as a report is in    *)
(* the log before the row counts it, the row and what a query has read     *)
(* must leave room for the last session (RowAt, SessionsAt).                   *)
(***************************************************************************)
EXTENDS LteTraffic, SumTheorems, SequenceTheorems

\* The states in which the next line of the log is read, and in which the modem has
\* connected anew since.
Telling == {"read", "on", "new"}
Online  == {"on", "new", "logged", "again"}

\* Bytes of a direction that no line of the log has.
Ahead(d) == Untold[d]

Row == [first : [Dir -> 0 .. MaxBytes], daily : [Dir -> Nat], count : Nat]

Shape ==
    /\ cur \in [Dir -> 0 .. MaxBytes] /\ total \in [Dir -> 0 .. MaxBytes]
    /\ \A d \in Dir : cur[d] <= total[d]
    /\ step \in {"work"} \cup Telling \cup Online
    /\ out \in Report /\ left \in 0 .. Attempts
    /\ step = "work" => out = Blank /\ since = Zero
    /\ step \in {"new", "logged", "again"} <=> left > 0
    /\ log \in Seq(Report) /\ due \in Seq(Report) /\ query \in Seq(Report)
    /\ row \in Row
    /\ allowed \in [Dir -> Nat] /\ since \in [Dir -> Nat]
    /\ marks \subseteq Marks

\* A query has read what now begins the log.
QueryOfLog == Len(query) <= Len(log) /\ \A i \in 1 .. Len(query) : query[i] = log[i]

\* While no row is changed late, the last report only can be due.
OnTime ==
    "late" \notin marks =>
        /\ due = <<>> \/ (log # <<>> /\ due = <<log[Len(log)]>>)
        /\ (row = NoRow) <=> (row.count = 0)
        /\ row.count + Len(due) <= Len(log) + 1
        /\ marks \cap {"torn", "stale"} = {} => row.count + Len(due) = Len(log)
        /\ "gap" \notin marks /\ row = NoRow => Len(log) = Len(due)

\* The modem since the counters of the report were read.
ReadAt(d) ==
    /\ step # "work" => total[d] - out.total[d] <= since[d]
    /\ step \in Online => cur[d] <= since[d]
    /\ step = "read" => cur[d] <= out.session[d] + since[d]

Reading ==
    "over" \notin marks =>
        /\ step # "work" => out.total["down"] > 0
        /\ \A d \in Dir : ReadAt(d)

ExactlyReadAt(d) ==
    /\ step # "work" => total[d] - out.total[d] = since[d]
    /\ step \in Online => cur[d] = since[d]
    /\ step = "read" => cur[d] = out.session[d] + since[d]

ExactlyRead == marks \cap {"over", "gap"} = {} => \A d \in Dir : ExactlyReadAt(d)

AllSeen ==
    marks \cap {"over", "late"} = {} =>
        /\ \A i \in 1 .. Len(log) : log[i].total["down"] > 0
        /\ row # NoRow => \E j \in 1 .. Len(log) : row.first = log[j].total
        /\ row # NoRow /\ "gap" \notin marks => row.first = log[1].total

\* What the log adds up to, what a query has read of it, and how far the counters
\* can have grown between its reports and since, with what is ahead.
LastSession(d) == log[Len(log)].session[d]

SessionsAt(d) ==
    /\ Sessions(log)[d] + Ahead(d) <= allowed[d]
    /\ Sessions(query)[d] + Ahead(d) <= allowed[d]
    /\ query # <<>> /\ Len(query) < Len(log) =>
          Sessions(query)[d] + LastSession(d) + Ahead(d) <= allowed[d]

GrownAt(d) ==
    \A i \in 1 .. Len(log) :
       /\ total[d] - log[i].total[d] <= allowed[d]
       /\ step \in Telling => out.total[d] - log[i].total[d] + since[d] <= allowed[d]
       /\ \A j \in i .. Len(log) :
            /\ log[j].total[d] - log[i].total[d] + Ahead(d) <= allowed[d]
            /\ j < Len(log) =>
                 log[j].total[d] - log[i].total[d] + LastSession(d) + Ahead(d) <= allowed[d]

\* The row, with the report it has yet to count.
DueSession(d) == IF due = <<>> THEN 0 ELSE due[1].session[d]

RowAt(d) == "torn" \notin marks => row.daily[d] + DueSession(d) + Ahead(d) <= allowed[d]

Within == marks \cap {"over", "late"} = {} => \A d \in Dir : SessionsAt(d) /\ GrownAt(d) /\ RowAt(d)

\* With no bytes left out the counters tell the same as the sessions.
ExactAt(d) ==
    log # <<>> =>
        LET last == log[Len(log)].total[d]
        IN /\ step = "work" => total[d] - last = cur[d]
           /\ step \in Telling => out.total[d] - last = out.session[d]
           /\ step \in {"logged", "again"} => out.total[d] = last
           /\ last - log[1].total[d] = Sessions(log)[d] - log[1].session[d]
           /\ log[1].session[d] <= Sessions(log)[d]

Exact == marks \cap {"over", "gap", "late"} = {} => \A d \in Dir : ExactAt(d)

IInv ==
    /\ Shape
    /\ QueryOfLog
    /\ OnTime
    /\ Reading
    /\ ExactlyRead
    /\ AllSeen
    /\ Within
    /\ Exact
    /\ ShortByFirstSession

-----------------------------------------------------------------------------

\* The sum of sessions is a sum of SumTheorems.

SessionOf(reports, d) == [i \in DOMAIN reports |-> reports[i].session[d]]

SessionsOn(reports, d, S, g) ==
    g = [s \in SUBSET S |-> IF s = {} THEN 0
                            ELSE reports[Pick(s)].session[d] + g[s \ {Pick(s)}]]

LEMMA SessionsIsRecursion ==
  \A reports : \A d \in Dir :
     Sessions(reports)[d] = (CHOOSE g : SessionsOn(reports, d, DOMAIN reports, g))[DOMAIN reports]
BY Zenon DEF Sessions, MapThenSumSet, MapThenFoldSet, SessionsOn, Pick

LEMMA SessionsIsSum ==
  ASSUME NEW reports, IsFiniteSet(DOMAIN reports), NEW d \in Dir
  PROVE  Sessions(reports)[d] = SumFunctionOnSet(SessionOf(reports, d), DOMAIN reports)
<1> DEFINE S == DOMAIN reports
           f == SessionOf(reports, d)
           G == CHOOSE g : SumsOn(f, S, g)
           H == CHOOSE g : SessionsOn(reports, d, S, g)
<1>1. \A s \in SUBSET S : s # {} => f[Pick(s)] = reports[Pick(s)].session[d]
  BY Picked DEF SessionOf
<1>2. ASSUME NEW g PROVE SumsOn(f, S, g) <=> SessionsOn(reports, d, S, g)
  <2> HIDE DEF f
  <2>1. [s \in SUBSET S |-> IF s = {} THEN 0 ELSE f[Pick(s)] + g[s \ {Pick(s)}]]
        = [s \in SUBSET S |-> IF s = {} THEN 0
                              ELSE reports[Pick(s)].session[d] + g[s \ {Pick(s)}]]
    BY <1>1
  <2>2. QED
    BY <2>1 DEF SumsOn, SessionsOn
<1>3. SumsOn(f, S, G) /\ \E g : SumsOn(f, S, g)
  BY SumsExist
<1>4. SessionsOn(reports, d, S, H)
  BY <1>2, <1>3
<1>5. SumsOn(f, S, H)
  BY <1>2, <1>4
<1> HIDE DEF G, H, f
<1>6. G[S] = H[S]
  BY <1>3, <1>5, SumsAgree
<1>7. QED
  BY <1>6, SessionsIsRecursion, SumIsRecursion DEF G, H, f

LEMMA SessionsType ==
  ASSUME NEW reports \in Seq(Report)
  PROVE  Sessions(reports) \in [Dir -> Nat]
<1>1. IsFiniteSet(DOMAIN reports) /\ DOMAIN reports = 1 .. Len(reports) /\ Len(reports) \in Nat
  BY FS_Interval
<1>2. ASSUME NEW d \in Dir PROVE Sessions(reports)[d] \in Nat
  <2>1. \A i \in DOMAIN reports : reports[i] \in Report
    OBVIOUS
  <2>2. \A i \in DOMAIN reports : SessionOf(reports, d)[i] \in Nat
    BY <2>1, LteAssumption DEF SessionOf, Report
  <2>3. QED
    BY <1>1, <2>2, SessionsIsSum, SumType
<1>3. QED
  BY <1>2 DEF Sessions

LEMMA SessionsOfNone == \A d \in Dir : Sessions(<<>>)[d] = 0
<1>1. DOMAIN <<>> = {}
  OBVIOUS
<1>2. QED
  BY <1>1, SessionsIsSum, SumOfNone, FS_EmptySet

LEMMA SessionsOfMore ==
  ASSUME NEW reports \in Seq(Report), NEW r \in Report, NEW d \in Dir
  PROVE  Sessions(Append(reports, r))[d] = Sessions(reports)[d] + r.session[d]
<1> DEFINE n    == Len(reports)
           more == Append(reports, r)
           f    == SessionOf(more, d)
<1>1. n \in Nat /\ DOMAIN reports = 1 .. n /\ DOMAIN more = (1 .. n) \cup {n + 1}
      /\ n + 1 \notin 1 .. n /\ IsFiniteSet(1 .. n) /\ IsFiniteSet(DOMAIN more)
  <2>1. n \in Nat /\ DOMAIN reports = 1 .. n /\ more \in Seq(Report) /\ Len(more) = n + 1
    OBVIOUS
  <2>2. DOMAIN more = 1 .. (n + 1) /\ 1 .. (n + 1) = (1 .. n) \cup {n + 1}
    BY <2>1
  <2>3. IsFiniteSet(1 .. n) /\ IsFiniteSet(1 .. (n + 1))
    BY <2>1, FS_Interval
  <2>4. QED
    BY <2>1, <2>2, <2>3
<1>2. \A i \in 1 .. n : f[i] = SessionOf(reports, d)[i] /\ f[i] \in Int
  <2>1. \A i \in 1 .. n : more[i] = reports[i] /\ reports[i] \in Report
    OBVIOUS
  <2> HIDE DEF more
  <2>2. QED
    BY <1>1, <2>1 DEF SessionOf, Report
<1>3. f[n + 1] = r.session[d] /\ f[n + 1] \in Int
  <2>1. more[n + 1] = r
    OBVIOUS
  <2> HIDE DEF more
  <2>2. QED
    BY <1>1, <2>1 DEF SessionOf, Report
<1> HIDE DEF n, more, f
<1>4. SumFunctionOnSet(f, (1 .. n) \cup {n + 1}) = SumFunctionOnSet(f, 1 .. n) + f[n + 1]
  <2> DEFINE S == 1 .. n
             x == n + 1
  <2>1. IsFiniteSet(S) /\ (\A s \in S : f[s] \in Int) /\ x \notin S /\ f[x] \in Int
    BY <1>1, <1>2, <1>3
  <2> HIDE DEF S, x
  <2>2. SumFunctionOnSet(f, S \cup {x}) = SumFunctionOnSet(f, S) + f[x]
    BY <2>1, SumOfAdded
  <2>3. QED
    BY <2>2 DEF S, x
<1>5. SumFunctionOnSet(f, 1 .. n) = SumFunctionOnSet(SessionOf(reports, d), 1 .. n)
  BY <1>1, <1>2, SumOfAgreeing
<1>6. Sessions(more)[d] = SumFunctionOnSet(f, DOMAIN more)
  BY <1>1, SessionsIsSum DEF f
<1>7. Sessions(reports)[d] = SumFunctionOnSet(SessionOf(reports, d), 1 .. n)
  BY <1>1, SessionsIsSum
<1>8. QED
  BY <1>1, <1>3, <1>4, <1>5, <1>6, <1>7 DEF more

\* The reports that have the counters.
LEMMA SeenRange ==
  ASSUME NEW reports \in Seq(Report), Seen(reports) # {}
  PROVE  /\ FirstSeen(reports) \in Report /\ LastSeen(reports) \in Report
         /\ Len(reports) \in Nat \ {0}
         /\ (\A i \in 1 .. Len(reports) : reports[i].total["down"] > 0) =>
               FirstSeen(reports) = reports[1] /\ LastSeen(reports) = reports[Len(reports)]
<1> DEFINE S == Seen(reports)
           n == Len(reports)
<1>1. n \in Nat /\ DOMAIN reports = 1 .. n /\ S \subseteq 1 .. n
  BY DEF Seen
<1>2. IsFiniteSet(S) /\ n # 0
  <2>1. IsFiniteSet(1 .. n)
    BY <1>1, FS_Interval
  <2>2. n # 0
    BY <1>1
  <2>3. QED
    BY <1>1, <2>1, <2>2, FS_Subset
<1>3. \E x \in S : \A y \in S : x <= y
  BY <1>1, LeastNumber
<1>4. Min(S) \in S /\ \A y \in S : Min(S) <= y
  BY <1>3 DEF Min
<1>5. \E x \in S : \A y \in S : x >= y
  <2> DEFINE T == {n - y : y \in S}
  <2>1. T \subseteq Nat /\ T # {}
    BY <1>1
  <2>2. PICK z \in T : \A y \in T : z <= y
    <3> HIDE DEF T
    <3>1. QED
      BY <2>1, LeastNumber
  <2>3. PICK x \in S : z = n - x
    BY <2>2
  <2>4. \A y \in S : n - x <= n - y
    BY <2>2, <2>3
  <2>5. QED
    BY <1>1, <2>3, <2>4
<1>6. Max(S) \in S /\ \A y \in S : Max(S) >= y
  BY <1>5 DEF Max
<1>7. FirstSeen(reports) \in Report /\ LastSeen(reports) \in Report
  BY <1>1, <1>4, <1>6 DEF FirstSeen, LastSeen
<1>8. ASSUME \A i \in 1 .. n : reports[i].total["down"] > 0
      PROVE  FirstSeen(reports) = reports[1] /\ LastSeen(reports) = reports[n]
  <2>1. 1 \in S /\ n \in S
    BY <1>1, <1>2, <1>8 DEF Seen
  <2>2. Min(S) = 1 /\ Max(S) = n
    BY <1>1, <1>4, <1>6, <2>1
  <2>3. QED
    BY <2>2 DEF FirstSeen, LastSeen
<1>9. QED
  BY <1>1, <1>2, <1>7, <1>8

-----------------------------------------------------------------------------

\* What is ahead, by the state of the runner.
LEMMA AheadIs ==
  Shape => \A d \in Dir :
     Ahead(d) = IF step = "work" THEN cur[d]
                ELSE IF step \in Telling THEN out.session[d] + since[d] ELSE since[d]
BY DEF Shape, Ahead, Untold, Plus, Telling, Online

LEMMA AheadIsNext ==
  (Shape => \A d \in Dir :
     Ahead(d) = IF step = "work" THEN cur[d]
                ELSE IF step \in Telling THEN out.session[d] + since[d] ELSE since[d])'
BY AheadIs, PTL

\* The numbers a step adds and compares, for one direction.
Numbers(d) ==
    /\ cur[d] \in Nat /\ total[d] \in Nat /\ cur[d] <= total[d]
    /\ out.session[d] \in Nat /\ out.total[d] \in Nat
    /\ since[d] \in Nat /\ allowed[d] \in Nat /\ row.daily[d] \in Nat
    /\ Ahead(d) \in Nat /\ DueSession(d) \in Nat

LogNumbers(d) ==
    /\ Sessions(log)[d] \in Nat /\ Sessions(query)[d] \in Nat
    /\ Len(log) \in Nat /\ Len(query) \in Nat
    /\ \A i \in 1 .. Len(log) : log[i].total[d] \in Nat /\ log[i].session[d] \in Nat
    /\ Len(log) # 0 => LastSession(d) \in Nat

LEMMA ReportNumbers ==
  \A r \in Report : \A d \in Dir : r.session[d] \in Nat /\ r.total[d] \in Nat
BY LteAssumption DEF Report

LEMMA ShapeNumbers == Shape => \A d \in Dir : Numbers(d) /\ LogNumbers(d)
<1> SUFFICES ASSUME Shape, NEW d \in Dir PROVE Numbers(d) /\ LogNumbers(d)
  OBVIOUS
<1>1. Sessions(log)[d] \in Nat /\ Sessions(query)[d] \in Nat
  BY SessionsType DEF Shape
<1>2. \A i \in 1 .. Len(log) : log[i] \in Report
  BY DEF Shape
<1>3. Len(log) \in Nat /\ Len(query) \in Nat
  BY DEF Shape
<1>4. LogNumbers(d)
  <2>1. Len(log) # 0 => Len(log) \in 1 .. Len(log)
    BY <1>3
  <2>2. QED
    BY <1>1, <1>2, <1>3, <2>1, ReportNumbers DEF LogNumbers, LastSession
<1>5. /\ cur[d] \in Nat /\ total[d] \in Nat /\ cur[d] <= total[d]
      /\ out.session[d] \in Nat /\ out.total[d] \in Nat
      /\ since[d] \in Nat /\ allowed[d] \in Nat /\ row.daily[d] \in Nat
  BY LteAssumption, ReportNumbers DEF Shape, Row
<1>6. Ahead(d) \in Nat
  BY <1>5, AheadIs
<1>7. DueSession(d) \in Nat
  <2>1. due # <<>> => due[1] \in Report
    BY DEF Shape
  <2>2. QED
    BY <2>1, ReportNumbers DEF DueSession
<1>8. QED
  BY <1>4, <1>5, <1>6, <1>7 DEF Numbers

LEMMA ShapeNumbersNext == (Shape => \A d \in Dir : Numbers(d) /\ LogNumbers(d))'
BY ShapeNumbers, PTL

\* Steps that leave the log and the query alone: n bytes more may be counted, and
\* no counter has gone further than they allow.
Moves(d, n) ==
    /\ allowed'[d] = allowed[d] + n
    /\ Ahead(d)' <= Ahead(d) + n
    /\ total'[d] <= total[d] + n
    /\ step' \in Telling =>
          \/ step \in Telling /\ out'.total[d] + since'[d] <= out.total[d] + since[d] + n
          \/ out'.total[d] + since'[d] <= total[d] + n

LEMMA SumsKept ==
  ASSUME Shape, Shape', NEW d \in Dir, NEW n \in Nat, Moves(d, n), SessionsAt(d),
         log' = log, query' = query
  PROVE  SessionsAt(d)'
<1>1. Numbers(d) /\ LogNumbers(d) /\ Numbers(d)'
  BY ShapeNumbers, ShapeNumbersNext
<1>2. LastSession(d)' = LastSession(d)
  BY DEF LastSession
<1>3. \A x \in Nat : x + Ahead(d) <= allowed[d] => x + Ahead(d)' <= allowed'[d]
  <2>1. /\ Ahead(d) \in Nat /\ Ahead(d)' \in Nat /\ allowed[d] \in Nat
        /\ allowed'[d] = allowed[d] + n /\ Ahead(d)' <= Ahead(d) + n
    BY <1>1 DEF Moves, Numbers
  <2>2. QED
    BY <2>1
<1>4. Len(query) < Len(log) => Sessions(query)[d] + LastSession(d) \in Nat
  BY <1>1 DEF LogNumbers
<1>5. Sessions(log)[d] \in Nat /\ Sessions(query)[d] \in Nat
  BY <1>1 DEF LogNumbers
<1>6. QED
  BY <1>2, <1>3, <1>4, <1>5 DEF SessionsAt

LEMMA GrownKept ==
  ASSUME Shape, Shape', NEW d \in Dir, NEW n \in Nat, Moves(d, n), GrownAt(d), log' = log
  PROVE  GrownAt(d)'
<1>1. Numbers(d) /\ LogNumbers(d)
  BY ShapeNumbers
<1>2. Numbers(d)'
  BY ShapeNumbersNext
<1>3. LastSession(d)' = LastSession(d)
  BY DEF LastSession
<1>4. \A x \in Int : x + Ahead(d) <= allowed[d] => x + Ahead(d)' <= allowed'[d]
  <2>1. /\ Ahead(d) \in Nat /\ Ahead(d)' \in Nat /\ allowed[d] \in Nat
        /\ allowed'[d] = allowed[d] + n /\ Ahead(d)' <= Ahead(d) + n
    BY <1>1, <1>2 DEF Moves, Numbers
  <2>2. QED
    BY <2>1
<1>5. ASSUME NEW i \in 1 .. Len(log)
      PROVE  /\ total'[d] - log[i].total[d] <= allowed'[d]
             /\ step' \in Telling => out'.total[d] - log[i].total[d] + since'[d] <= allowed'[d]
  <2> DEFINE e == log[i].total[d]
             w == allowed[d]
             a == total[d]
             aa == total'[d]
             b == out'.total[d]
             c == since'[d]
             p == out.total[d]
             q == since[d]
  <2>1. e \in Nat /\ w \in Nat /\ a \in Nat /\ aa \in Nat
    BY <1>1, <1>2 DEF Numbers, LogNumbers
  <2>2. b \in Nat /\ c \in Nat /\ p \in Nat /\ q \in Nat
    BY <1>1, <1>2 DEF Numbers
  <2>3. a - e <= w /\ (step \in Telling => p - e + q <= w)
    BY DEF GrownAt
  <2>4. allowed'[d] = w + n /\ aa <= a + n
        /\ (step' \in Telling => \/ step \in Telling /\ b + c <= p + q + n
                                 \/ b + c <= a + n)
    BY DEF Moves
  <2> HIDE DEF e, w, a, aa, b, c, p, q
  <2>5. aa - e <= w + n
    BY <2>1, <2>3, <2>4
  <2>6. step' \in Telling => b - e + c <= w + n
    BY <2>1, <2>2, <2>3, <2>4
  <2>7. QED
    BY <2>4, <2>5, <2>6 DEF e, w, aa, b, c
<1>6. ASSUME NEW i \in 1 .. Len(log), NEW j \in i .. Len(log)
      PROVE  /\ log[j].total[d] - log[i].total[d] + Ahead(d)' <= allowed'[d]
             /\ j < Len(log) =>
                  log[j].total[d] - log[i].total[d] + LastSession(d) + Ahead(d)' <= allowed'[d]
  <2>1. j \in 1 .. Len(log) /\ Len(log) # 0
    BY <1>1 DEF LogNumbers
  <2>2. log[i].total[d] \in Nat /\ log[j].total[d] \in Nat /\ LastSession(d) \in Nat
    BY <1>1, <2>1 DEF LogNumbers
  <2>3. /\ log[j].total[d] - log[i].total[d] + Ahead(d) <= allowed[d]
        /\ j < Len(log) =>
             log[j].total[d] - log[i].total[d] + LastSession(d) + Ahead(d) <= allowed[d]
    BY DEF GrownAt
  <2>4. /\ log[j].total[d] - log[i].total[d] \in Int
        /\ log[j].total[d] - log[i].total[d] + LastSession(d) \in Int
    BY <2>2
  <2>5. QED
    BY <1>4, <2>3, <2>4
<1>7. QED
  BY <1>3, <1>5, <1>6 DEF GrownAt

LEMMA RowKept ==
  ASSUME Shape, Shape', NEW d \in Dir, NEW n \in Nat, Moves(d, n), RowAt(d),
         row' = row, due' = due, "torn" \notin marks' => "torn" \notin marks
  PROVE  RowAt(d)'
<1>1. Numbers(d) /\ Numbers(d)' /\ DueSession(d)' = DueSession(d)
  BY ShapeNumbers, ShapeNumbersNext DEF DueSession
<1>2. /\ Ahead(d) \in Nat /\ Ahead(d)' \in Nat /\ allowed[d] \in Nat
      /\ row.daily[d] \in Nat /\ DueSession(d) \in Nat
      /\ allowed'[d] = allowed[d] + n /\ Ahead(d)' <= Ahead(d) + n
  BY <1>1 DEF Moves, Numbers
<1>3. row.daily[d] + DueSession(d) + Ahead(d) <= allowed[d] =>
         row.daily[d] + DueSession(d) + Ahead(d)' <= allowed'[d]
  BY <1>2
<1>4. QED
  BY <1>1, <1>3 DEF RowAt

\* Steps of the modem and the runner leave the tables alone.
LEMMA ServerKept ==
  ASSUME IInv, Shape', UNCHANGED <<log, due, row, query>>,
         marks \subseteq marks', marks' \subseteq marks \cup {"over", "gap"},
         Reading', ExactlyRead',
         "over" \notin marks' => \A d \in Dir : \E n \in Nat : Moves(d, n),
         marks' \cap {"over", "gap"} = {} => \A d \in Dir : ExactAt(d) => ExactAt(d)'
  PROVE  IInv'
<1>0. Shape /\ QueryOfLog /\ OnTime /\ AllSeen /\ Within /\ Exact /\ ShortByFirstSession
  BY DEF IInv
<1>1. QueryOfLog' /\ ShortByFirstSession'
  BY <1>0 DEF QueryOfLog, ShortByFirstSession
<1>2. OnTime'
  BY <1>0 DEF OnTime
<1>3. AllSeen'
  <2>1. marks' \cap {"over", "late"} = {} => marks \cap {"over", "late"} = {}
    OBVIOUS
  <2>2. "gap" \notin marks' => "gap" \notin marks
    OBVIOUS
  <2>3. QED
    BY <1>0, <2>1, <2>2 DEF AllSeen
<1>4. Within'
  <2> SUFFICES ASSUME marks' \cap {"over", "late"} = {}, NEW d \in Dir
               PROVE  (SessionsAt(d) /\ GrownAt(d) /\ RowAt(d))'
    BY DEF Within
  <2>1. SessionsAt(d) /\ GrownAt(d) /\ RowAt(d)
    BY <1>0 DEF Within
  <2>2. PICK n \in Nat : Moves(d, n)
    OBVIOUS
  <2>3. "torn" \notin marks' => "torn" \notin marks
    OBVIOUS
  <2>4. log' = log /\ query' = query /\ row' = row /\ due' = due
    OBVIOUS
  <2>5. SessionsAt(d)'
    BY <1>0, <2>1, <2>2, <2>4, SumsKept
  <2>6. GrownAt(d)'
    BY <1>0, <2>1, <2>2, <2>4, GrownKept
  <2>7. RowAt(d)'
    BY <1>0, <2>1, <2>2, <2>3, <2>4, RowKept
  <2>8. QED
    BY <2>5, <2>6, <2>7
<1>5. Exact'
  <2>1. marks' \cap {"over", "gap", "late"} = {} => marks \cap {"over", "gap", "late"} = {}
    OBVIOUS
  <2>2. QED
    BY <1>0, <2>1 DEF Exact
<1>6. QED
  BY <1>1, <1>2, <1>3, <1>4, <1>5 DEF IInv

-----------------------------------------------------------------------------

LEMMA Zeros ==
  /\ Zero \in [Dir -> 0 .. MaxBytes] /\ Blank \in Report
  /\ Zero \in [Dir -> Nat] /\ \A d \in Dir : Zero[d] = 0
<1>1. 0 \in 0 .. MaxBytes
  BY LteAssumption
<1>2. QED
  BY <1>1 DEF Zero, Blank, Report

LEMMA InitInv == Init => IInv
<1> SUFFICES ASSUME Init PROVE IInv
  OBVIOUS
<1>1. /\ log = <<>> /\ query = <<>> /\ due = <<>>
      /\ Len(log) = 0 /\ Len(query) = 0 /\ Len(due) = 0
  BY DEF Init
<1>2. row \in Row /\ row = NoRow
  BY Zeros DEF Init, NoRow, Row
<1>3. Shape
  <2>1. total \in [Dir -> 0 .. MaxBytes] /\ \A d \in Dir : cur[d] <= total[d]
    BY LteAssumption DEF Init, Zero, Dir
  <2>2. log \in Seq(Report) /\ due \in Seq(Report) /\ query \in Seq(Report)
    BY <1>1
  <2>3. QED
    BY <1>2, <2>1, <2>2, Zeros, LteAssumption DEF Init, Shape, Marks, Telling, Online
<1>4. QueryOfLog /\ OnTime /\ AllSeen /\ ShortByFirstSession /\ Exact
  BY <1>1, <1>2
     DEF Init, QueryOfLog, OnTime, AllSeen, ShortByFirstSession, NoRow, Exact, ExactAt
<1>5. Reading /\ ExactlyRead
  BY DEF Init, Reading, ReadAt, ExactlyRead, ExactlyReadAt, Online
<1>6. Within
  <2> SUFFICES ASSUME NEW d \in Dir PROVE SessionsAt(d) /\ GrownAt(d) /\ RowAt(d)
    BY DEF Within
  <2>1. Ahead(d) = 0 /\ allowed[d] = 0 /\ row.daily[d] = 0 /\ DueSession(d) = 0
    BY <1>1, <1>2, <1>3, AheadIs, Zeros DEF Init, NoRow, DueSession
  <2>2. Sessions(log)[d] = 0 /\ Sessions(query)[d] = 0
    BY <1>1, SessionsOfNone
  <2>3. QED
    BY <1>1, <2>1, <2>2 DEF SessionsAt, GrownAt, RowAt
<1>7. QED
  BY <1>3, <1>4, <1>5, <1>6 DEF IInv

LEMMA TrafficInv ==
  ASSUME IInv, NEW e \in Dir, Traffic(e)
  PROVE  IInv'
<1>0. Shape /\ Reading /\ ExactlyRead
  BY DEF IInv
<1>1. \A d \in Dir : Numbers(d)
  BY <1>0, ShapeNumbers
<1>2. /\ cur' = [cur EXCEPT ![e] = cur[e] + 1]
      /\ total' = [total EXCEPT ![e] = total[e] + 1]
      /\ allowed' = [allowed EXCEPT ![e] = allowed[e] + 1]
      /\ since' = IF step = "work" THEN since ELSE [since EXCEPT ![e] = since[e] + 1]
      /\ UNCHANGED <<step, out, left, log, due, row, query, marks>>
  BY DEF Traffic
<1> DEFINE n(d) == IF d = e THEN 1 ELSE 0
<1>3. ASSUME NEW d \in Dir
      PROVE  /\ n(d) \in Nat /\ total'[d] = total[d] + n(d) /\ cur'[d] = cur[d] + n(d)
             /\ allowed'[d] = allowed[d] + n(d)
             /\ since'[d] = IF step = "work" THEN since[d] ELSE since[d] + n(d)
  <2>1. /\ total'[d] = IF d = e THEN total[d] + 1 ELSE total[d]
        /\ cur'[d] = IF d = e THEN cur[d] + 1 ELSE cur[d]
        /\ allowed'[d] = IF d = e THEN allowed[d] + 1 ELSE allowed[d]
        /\ since'[d] = IF d = e /\ step # "work" THEN since[d] + 1 ELSE since[d]
    BY <1>0, <1>2 DEF Shape
  <2>2. Numbers(d)
    BY <1>1
  <2>3. QED
    BY <2>1, <2>2 DEF Numbers
<1>4. Shape'
  <2>1. total[e] + 1 <= MaxBytes /\ cur[e] + 1 <= MaxBytes
    <3>1. Numbers("up") /\ Numbers("down") /\ (e = "up" \/ e = "down")
      BY <1>1 DEF Dir
    <3>2. total["up"] + total["down"] < MaxBytes /\ MaxBytes \in Nat
      BY LteAssumption DEF Traffic
    <3>3. QED
      BY <3>1, <3>2 DEF Numbers
  <2>2. ASSUME NEW d \in Dir
        PROVE  cur'[d] \in 0 .. MaxBytes /\ total'[d] \in 0 .. MaxBytes /\ cur'[d] <= total'[d]
    <3>1. cur[d] \in 0 .. MaxBytes /\ total[d] \in 0 .. MaxBytes /\ cur[d] <= total[d]
          /\ MaxBytes \in Nat
      BY <1>0, LteAssumption DEF Shape
    <3>2. CASE d = e
      BY <1>3, <2>1, <3>1, <3>2
    <3>3. CASE d # e
      BY <1>3, <3>1, <3>3
    <3>4. QED
      BY <3>2, <3>3
  <2>3. cur' \in [Dir -> 0 .. MaxBytes] /\ total' \in [Dir -> 0 .. MaxBytes]
    BY <1>0, <1>2, <2>2 DEF Shape
  <2>4. allowed' \in [Dir -> Nat] /\ since' \in [Dir -> Nat]
    BY <1>0, <1>2 DEF Shape
  <2>5. step = "work" => since' = Zero
    BY <1>0, <1>2 DEF Shape
  <2>6. QED
    BY <1>0, <1>2, <2>2, <2>3, <2>4, <2>5 DEF Shape
<1> HIDE DEF n
<1>5. ASSUME NEW d \in Dir
      PROVE  /\ Moves(d, n(d))
             /\ ReadAt(d) => ReadAt(d)'
             /\ ExactlyReadAt(d) => ExactlyReadAt(d)'
             /\ step = "work" => \A x \in Nat : total[d] - x = cur[d] => total'[d] - x = cur'[d]
  <2> DEFINE c == cur[d]
             t == total[d]
             s == since[d]
             o == out.session[d]
             p == out.total[d]
             k == n(d)
  <2>1. c \in Nat /\ t \in Nat /\ s \in Nat /\ o \in Nat /\ p \in Nat /\ k \in Nat
    BY <1>1, <1>3 DEF Numbers
  <2>2. /\ cur'[d] = c + k /\ total'[d] = t + k /\ out' = out /\ step' = step
        /\ since'[d] = (IF step = "work" THEN s ELSE s + k)
        /\ allowed'[d] = allowed[d] + k
    BY <1>2, <1>3
  <2>3. Ahead(d) = (IF step = "work" THEN c ELSE IF step \in Telling THEN o + s ELSE s)
    BY <1>0, AheadIs
  <2>4. Ahead(d)' = (IF step = "work" THEN c + k
                     ELSE IF step \in Telling THEN o + (s + k) ELSE s + k)
    BY <1>4, <2>2, AheadIsNext DEF Telling
  <2>5. Ahead(d)' <= Ahead(d) + k
    <3> HIDE DEF c, s, o, k
    <3>1. QED
      BY <2>1, <2>3, <2>4
  <2>6. p + since'[d] <= p + s + k
    <3> HIDE DEF s, p, k
    <3>1. QED
      BY <2>1, <2>2
  <2>7. t + k <= t + k
    BY <2>1
  <2>8. Moves(d, k)
    BY <2>2, <2>5, <2>6, <2>7 DEF Moves
  <2>9. ReadAt(d) => ReadAt(d)'
    <3> SUFFICES ASSUME ReadAt(d) PROVE ReadAt(d)'
      OBVIOUS
    <3>1. /\ step # "work" => t - p <= s
          /\ step \in Online => c <= s
          /\ step = "read" => c <= o + s
      BY DEF ReadAt
    <3>2. step \in Online => step # "work"
      BY DEF Online
    <3>3. /\ step # "work" => (t + k) - p <= since'[d]
          /\ step \in Online => c + k <= since'[d]
          /\ step = "read" => c + k <= o + since'[d]
      <4> HIDE DEF c, t, s, o, p, k
      <4>1. QED
        BY <2>1, <2>2, <3>1, <3>2
    <3>4. QED
      BY <2>2, <3>3 DEF ReadAt
  <2>10. ExactlyReadAt(d) => ExactlyReadAt(d)'
    <3> SUFFICES ASSUME ExactlyReadAt(d) PROVE ExactlyReadAt(d)'
      OBVIOUS
    <3>1. /\ step # "work" => t - p = s
          /\ step \in Online => c = s
          /\ step = "read" => c = o + s
      BY DEF ExactlyReadAt
    <3>2. step \in Online => step # "work"
      BY DEF Online
    <3>3. /\ step # "work" => (t + k) - p = since'[d]
          /\ step \in Online => c + k = since'[d]
          /\ step = "read" => c + k = o + since'[d]
      <4> HIDE DEF c, t, s, o, p, k
      <4>1. QED
        BY <2>1, <2>2, <3>1, <3>2
    <3>4. QED
      BY <2>2, <3>3 DEF ExactlyReadAt
  <2>11. \A x \in Nat : t - x = c => (t + k) - x = c + k
    <3> HIDE DEF c, t, k
    <3>1. QED
      BY <2>1
  <2>12. QED
    BY <2>2, <2>8, <2>9, <2>10, <2>11
<1>6. Reading' /\ ExactlyRead'
  BY <1>0, <1>2, <1>5 DEF Reading, ExactlyRead
<1>7. ASSUME NEW d \in Dir, ExactAt(d) PROVE ExactAt(d)'
  <2>1. log # <<>> => log[Len(log)].total[d] \in Nat
    <3>1. log # <<>> => log[Len(log)] \in Report
      BY <1>0 DEF Shape
    <3>2. QED
      BY <3>1, ReportNumbers
  <2>2. log' = log /\ step' = step /\ out' = out
    BY <1>2
  <2>3. QED
    BY <1>5, <1>7, <2>1, <2>2 DEF ExactAt
<1>8. \A d \in Dir : \E k \in Nat : Moves(d, k)
  BY <1>3, <1>5
<1>9. marks \subseteq marks' /\ marks' \subseteq marks \cup {"over", "gap"}
      /\ UNCHANGED <<log, due, row, query>>
  BY <1>2
<1>10. QED
  BY <1>4, <1>6, <1>7, <1>8, <1>9, ServerKept

LEMMA ToggleIpInv == ASSUME IInv, ToggleIp PROVE IInv'
<1>0. Shape /\ Reading /\ ExactlyRead
  BY DEF IInv
<1>1. \A d \in Dir : Numbers(d)
  BY <1>0, ShapeNumbers
<1>2. /\ step = "work" /\ since = Zero /\ left = 0
      /\ UNCHANGED <<cur, total, log, due, row, query, allowed, since>>
      /\ marks \subseteq marks' /\ marks' \subseteq marks \cup {"over"}
  <2>1. step = "work" => since = Zero /\ ~ (left > 0)
    BY <1>0 DEF Shape
  <2>2. ~ (left > 0) => left = 0
    BY <1>0, LteAssumption DEF Shape
  <2>3. QED
    BY <2>1, <2>2 DEF ToggleIp
<1>3. \/ out' = [session |-> cur, total |-> total] /\ step' = "read" /\ left' = 0
      \/ out' = Blank /\ step' = "new" /\ left' = Attempts
  BY <1>2 DEF ToggleIp, Sends
<1>4. Shape'
  <2>1. out' \in Report
    BY <1>0, <1>3, Zeros DEF Shape, Report
  <2>2. Attempts > 0 /\ Attempts \in 0 .. Attempts /\ 0 \in 0 .. Attempts
    BY LteAssumption
  <2>3. step' # "work" /\ step' \in {"work"} \cup Telling \cup Online /\ left' \in 0 .. Attempts
        /\ (step' \in {"new", "logged", "again"} <=> left' > 0)
    BY <1>3, <2>2 DEF Telling, Online
  <2>4. marks' \subseteq Marks
    BY <1>0, <1>2 DEF Shape, Marks
  <2>5. QED
    BY <1>0, <1>2, <2>1, <2>3, <2>4 DEF Shape
<1>5. ASSUME "over" \notin marks'
      PROVE  /\ out' = [session |-> cur, total |-> total] /\ step' = "read"
             /\ marks' = marks /\ total["down"] # 0
  BY <1>2, <1>5 DEF ToggleIp
<1>6. ASSUME NEW d \in Dir, "over" \notin marks'
      PROVE  /\ since'[d] = 0 /\ out'.session[d] = cur[d] /\ out'.total[d] = total[d]
             /\ Ahead(d)' = cur[d] /\ Ahead(d) = cur[d]
             /\ total[d] \in Nat /\ cur[d] \in Nat /\ allowed[d] \in Nat
  <2>1. Numbers(d)
    BY <1>1
  <2>2. since'[d] = 0 /\ out'.session[d] = cur[d] /\ out'.total[d] = total[d]
    BY <1>2, <1>5, <1>6, Zeros
  <2>3. Ahead(d) = cur[d]
    BY <1>0, <1>2, AheadIs
  <2>4. Ahead(d)' = out'.session[d] + since'[d]
    BY <1>4, <1>5, <1>6, AheadIsNext DEF Telling
  <2>5. QED
    BY <2>1, <2>2, <2>3, <2>4 DEF Numbers
<1>7. Reading' /\ ExactlyRead'
  <2>1. ASSUME NEW d \in Dir, "over" \notin marks' PROVE ReadAt(d)' /\ ExactlyReadAt(d)'
    BY <1>2, <1>5, <1>6, <2>1 DEF ReadAt, ExactlyReadAt, Online
  <2>2. "over" \notin marks' => out'.total["down"] > 0
    <3>1. "down" \in Dir
      BY DEF Dir
    <3>2. total["down"] \in Nat
      BY <1>1, <3>1 DEF Numbers
    <3>3. QED
      BY <1>5, <3>2
  <2>3. QED
    BY <2>1, <2>2 DEF Reading, ExactlyRead
<1>8. ASSUME NEW d \in Dir, "over" \notin marks' PROVE Moves(d, 0)
  BY <1>2, <1>6, <1>8 DEF Moves
<1>9. ASSUME NEW d \in Dir, ExactAt(d), "over" \notin marks' PROVE ExactAt(d)'
  BY <1>2, <1>5, <1>6, <1>9 DEF ExactAt, Telling
<1>10. "over" \notin marks' => \A d \in Dir : \E k \in Nat : Moves(d, k)
  BY <1>8
<1>11. marks' \cap {"over", "gap"} = {} => \A d \in Dir : ExactAt(d) => ExactAt(d)'
  BY <1>9
<1>12. QED
  BY <1>2, <1>4, <1>7, <1>10, <1>11, ServerKept

LEMMA ReconnectsInv == ASSUME IInv, Reconnects PROVE IInv'
<1>0. Shape /\ Reading /\ ExactlyRead
  BY DEF IInv
<1>1. \A d \in Dir : Numbers(d)
  BY <1>0, ShapeNumbers
<1>2. /\ step = "read" /\ step' = "on" /\ cur' = Zero
      /\ UNCHANGED <<total, out, left, log, due, row, query, allowed, since>>
      /\ marks' = IF since = Zero THEN marks ELSE marks \cup {"gap"}
  BY DEF Reconnects
<1>3. Shape'
  <2>1. \A d \in Dir : cur'[d] <= total'[d]
    BY <1>1, <1>2, Zeros DEF Numbers
  <2>2. marks' \subseteq Marks
    BY <1>0, <1>2 DEF Shape, Marks
  <2>3. step' # "work" /\ step' \in {"work"} \cup Telling \cup Online
        /\ (step' \in {"new", "logged", "again"} <=> left' > 0)
    BY <1>0, <1>2 DEF Shape, Telling, Online
  <2>4. QED
    BY <1>0, <1>2, <2>1, <2>2, <2>3, Zeros DEF Shape
<1>4. ASSUME NEW d \in Dir
      PROVE  cur'[d] = 0 /\ Ahead(d)' = Ahead(d) /\ Numbers(d)
  BY <1>0, <1>1, <1>2, <1>3, AheadIs, AheadIsNext, Zeros DEF Telling
<1>5. Reading'
  <2>1. ASSUME NEW d \in Dir, ReadAt(d) PROVE ReadAt(d)'
    BY <1>2, <1>4, <2>1 DEF ReadAt, Numbers
  <2>2. QED
    BY <1>0, <1>2, <2>1 DEF Reading
<1>6. ExactlyRead'
  <2>1. ASSUME NEW d \in Dir, ExactlyReadAt(d), since = Zero PROVE ExactlyReadAt(d)'
    BY <1>2, <1>4, <2>1, Zeros DEF ExactlyReadAt
  <2>2. QED
    BY <1>0, <1>2, <2>1 DEF ExactlyRead
<1>7. ASSUME NEW d \in Dir PROVE Moves(d, 0)
  <2>1. /\ allowed[d] \in Nat /\ Ahead(d) \in Nat /\ total[d] \in Nat
        /\ out.total[d] \in Nat /\ since[d] \in Nat
    BY <1>4 DEF Numbers
  <2>2. QED
    BY <1>2, <1>4, <2>1 DEF Moves, Telling
<1>8. ASSUME NEW d \in Dir, ExactAt(d) PROVE ExactAt(d)'
  BY <1>2, <1>8 DEF ExactAt, Telling
<1>9. \A d \in Dir : \E k \in Nat : Moves(d, k)
  BY <1>7
<1>10. marks \subseteq marks' /\ marks' \subseteq marks \cup {"over", "gap"}
  BY <1>2
<1>11. QED
  BY <1>2, <1>3, <1>5, <1>6, <1>8, <1>9, <1>10, ServerKept

LEMMA ToggleFailsInv == ASSUME IInv, ToggleFails PROVE IInv'
<1>0. Shape
  BY DEF IInv
<1>1. /\ step' = "new" /\ left' = Attempts /\ marks' = marks \cup {"over"}
      /\ UNCHANGED <<cur, total, out, log, due, row, query, allowed, since>>
  BY DEF ToggleFails, Sends
<1>2. Shape'
  <2>1. Attempts > 0 /\ Attempts \in 0 .. Attempts
    BY LteAssumption
  <2>2. marks' \subseteq Marks
    BY <1>0, <1>1 DEF Shape, Marks
  <2>3. QED
    BY <1>0, <1>1, <2>1, <2>2 DEF Shape, Telling
<1>3. Reading' /\ ExactlyRead'
  BY <1>1 DEF Reading, ExactlyRead
<1>4. QED
  BY <1>1, <1>2, <1>3, ServerKept

LEMMA ToggleEndsInv == ASSUME IInv, ToggleEnds PROVE IInv'
<1>0. Shape /\ Reading /\ ExactlyRead
  BY DEF IInv
<1>1. \A d \in Dir : Numbers(d)
  BY <1>0, ShapeNumbers
<1>2. /\ step = "on" /\ step' = "new" /\ left' = Attempts
      /\ UNCHANGED <<total, out, log, due, row, query, allowed, since>>
      /\ \/ cur' = cur /\ marks' = marks
         \/ cur' = Zero /\ marks' = IF cur = Zero THEN marks ELSE marks \cup {"gap"}
  BY DEF ToggleEnds, Sends
<1>3. /\ \A d \in Dir : cur'[d] <= cur[d]
      /\ "gap" \notin marks' => cur' = cur
      /\ marks \subseteq marks' /\ marks' \subseteq marks \cup {"over", "gap"}
      /\ cur' \in [Dir -> 0 .. MaxBytes]
  <2>1. \A d \in Dir : cur[d] <= cur[d] /\ Zero[d] <= cur[d]
    BY <1>1, Zeros DEF Numbers
  <2>2. QED
    BY <1>0, <1>2, <2>1, Zeros DEF Shape
<1>4. Shape'
  <2>1. \A d \in Dir : cur'[d] <= total'[d]
    <3>1. \A d \in Dir : cur'[d] \in Nat
      BY <1>3, LteAssumption
    <3>2. QED
      BY <1>1, <1>2, <1>3, <3>1 DEF Numbers
  <2>2. marks' \subseteq Marks
    BY <1>0, <1>3 DEF Shape, Marks
  <2>3. Attempts > 0 /\ Attempts \in 0 .. Attempts
    BY LteAssumption
  <2>4. QED
    BY <1>0, <1>2, <1>3, <2>1, <2>2, <2>3 DEF Shape, Telling
<1>5. ASSUME NEW d \in Dir PROVE Ahead(d)' = Ahead(d)
  BY <1>0, <1>2, <1>4, AheadIs, AheadIsNext DEF Telling
<1>6. Reading'
  <2>1. ASSUME NEW d \in Dir, ReadAt(d) PROVE ReadAt(d)'
    <3>1. cur[d] <= since[d]
      BY <1>2, <2>1 DEF ReadAt, Online
    <3>2. cur'[d] <= since[d]
      <4>1. cur'[d] \in Nat /\ cur[d] \in Nat /\ since[d] \in Nat
        BY <1>1, <1>3, LteAssumption DEF Numbers
      <4>2. QED
        BY <1>3, <3>1, <4>1
    <3>3. QED
      BY <1>2, <2>1, <3>2 DEF ReadAt
  <2>2. QED
    BY <1>0, <1>2, <1>3, <2>1 DEF Reading
<1>7. ExactlyRead'
  <2>1. ASSUME NEW d \in Dir, ExactlyReadAt(d), cur' = cur PROVE ExactlyReadAt(d)'
    BY <1>2, <2>1 DEF ExactlyReadAt, Online
  <2>2. QED
    BY <1>0, <1>3, <2>1 DEF ExactlyRead
<1>8. ASSUME NEW d \in Dir PROVE Moves(d, 0)
  <2>1. /\ allowed[d] \in Nat /\ Ahead(d) \in Nat /\ total[d] \in Nat
        /\ out.total[d] \in Nat /\ since[d] \in Nat
    BY <1>1 DEF Numbers
  <2>2. QED
    BY <1>2, <1>5, <2>1 DEF Moves, Telling
<1>9. ASSUME NEW d \in Dir, ExactAt(d) PROVE ExactAt(d)'
  BY <1>2, <1>9 DEF ExactAt, Telling
<1>10. \A d \in Dir : \E k \in Nat : Moves(d, k)
  BY <1>8
<1>11. QED
  BY <1>2, <1>3, <1>4, <1>6, <1>7, <1>9, <1>10, ServerKept

\* The runner goes on to the next cycle.
LEMMA DoneShape ==
  ASSUME Shape, Done PROVE
    /\ step' = "work" /\ out' \in Report /\ out' = Blank /\ since' = Zero
    /\ left' \in 0 .. Attempts /\ ~ (left' > 0) /\ since' \in [Dir -> Nat]
<1>1. 0 \in 0 .. Attempts
  BY LteAssumption
<1>2. QED
  BY <1>1, Zeros DEF Done

\* Once the report is given up or answered, the bytes ahead are those of the session.
LEMMA DoneMoves ==
  ASSUME Shape, Shape', Reading, "over" \notin marks, step \in Online, Done,
         UNCHANGED <<cur, total, allowed>>, NEW d \in Dir
  PROVE  Moves(d, 0)
<1>1. Numbers(d) /\ step # "work"
  BY ShapeNumbers DEF Online
<1>2. /\ allowed[d] \in Nat /\ Ahead(d) \in Nat /\ total[d] \in Nat
      /\ since[d] \in Nat /\ cur[d] \in Nat /\ out.session[d] \in Nat
  BY <1>1 DEF Numbers
<1>3. cur[d] <= since[d]
  BY DEF Reading, ReadAt
<1>4. Ahead(d) = IF step \in Telling THEN out.session[d] + since[d] ELSE since[d]
  BY <1>1, AheadIs
<1>5. Ahead(d)' = cur[d] /\ step' \notin Telling
  BY DoneShape, AheadIsNext DEF Telling
<1>6. QED
  BY <1>2, <1>3, <1>4, <1>5 DEF Moves

LEMMA DoneExact ==
  ASSUME Shape, step \in {"logged", "again"}, Done, UNCHANGED <<cur, total, log>>,
         NEW d \in Dir, ExactlyReadAt(d), ExactAt(d)
  PROVE  ExactAt(d)'
<1>1. step' = "work"
  BY DoneShape
<1>2. total[d] - out.total[d] = since[d] /\ since[d] = cur[d]
  BY DEF ExactlyReadAt, Online
<1>3. QED
  BY <1>1, <1>2 DEF ExactAt, Telling

LEMMA NotAnsweredInv == ASSUME IInv, NotAnswered PROVE IInv'
<1>0. Shape /\ Reading /\ ExactlyRead
  BY DEF IInv
<1>1. \A d \in Dir : Numbers(d)
  BY <1>0, ShapeNumbers
<1>2. /\ left > 0 /\ step \in {"new", "logged", "again"}
      /\ UNCHANGED <<cur, total, log, due, row, query, allowed>>
      /\ marks \subseteq marks' /\ marks' \subseteq marks \cup {"gap"}
  BY <1>0 DEF NotAnswered, Shape
<1>3. \/ /\ left > 1 /\ left' = left - 1 /\ out' = out /\ since' = since
         /\ step' = IF step = "new" THEN "new" ELSE "again"
      \/ Done /\ (step = "new" => "gap" \in marks')
  BY DEF NotAnswered
<1>4. Shape'
  <2>1. marks' \subseteq Marks
    BY <1>0, <1>2 DEF Shape, Marks
  <2>2. CASE Done
    BY <1>0, <1>2, <2>1, <2>2, DoneShape DEF Shape, Telling, Online
  <2>3. CASE left > 1 /\ left' = left - 1 /\ out' = out /\ since' = since
             /\ step' = IF step = "new" THEN "new" ELSE "again"
    <3>1. left' \in 0 .. Attempts /\ left' > 0
      BY <1>0, <2>3, LteAssumption DEF Shape
    <3>2. QED
      BY <1>0, <1>2, <2>1, <2>3, <3>1 DEF Shape, Telling, Online
  <2>4. QED
    BY <1>3, <2>2, <2>3
<1>5. step \in Online
  BY <1>2 DEF Online
<1>6. Reading'
  <2>1. ASSUME NEW d \in Dir, ReadAt(d) PROVE ReadAt(d)'
    BY <1>2, <1>3, <1>5, <2>1, DoneShape, <1>0 DEF ReadAt, Online
  <2>2. step' # "work" => out' = out /\ step # "work"
    BY <1>0, <1>2, <1>3, DoneShape
  <2>3. QED
    BY <1>0, <1>2, <2>1, <2>2 DEF Reading
<1>7. ExactlyRead'
  <2>1. ASSUME NEW d \in Dir, ExactlyReadAt(d) PROVE ExactlyReadAt(d)'
    BY <1>2, <1>3, <1>5, <2>1, DoneShape, <1>0 DEF ExactlyReadAt, Online
  <2>2. QED
    BY <1>0, <1>2, <2>1 DEF ExactlyRead
<1>8. ASSUME NEW d \in Dir, "over" \notin marks' PROVE Moves(d, 0)
  <2>1. /\ allowed[d] \in Nat /\ Ahead(d) \in Nat /\ total[d] \in Nat
        /\ out.total[d] \in Nat /\ since[d] \in Nat /\ cur[d] \in Nat /\ out.session[d] \in Nat
    BY <1>1 DEF Numbers
  <2>2. "over" \notin marks
    BY <1>2, <1>8
  <2>3. Ahead(d) = IF step = "new" THEN out.session[d] + since[d] ELSE since[d]
    BY <1>0, <1>2, AheadIs DEF Telling
  <2>4. CASE Done
    BY <1>0, <1>2, <1>4, <1>5, <2>2, <2>4, DoneMoves
  <2>5. CASE left > 1 /\ left' = left - 1 /\ out' = out /\ since' = since
             /\ step' = IF step = "new" THEN "new" ELSE "again"
    <3>1. Ahead(d)' = Ahead(d)
      BY <1>2, <1>4, <2>3, <2>5, AheadIsNext DEF Telling
    <3>2. step' \in Telling => step \in Telling
      BY <1>2, <2>5 DEF Telling
    <3>3. QED
      BY <1>2, <2>1, <2>5, <3>1, <3>2 DEF Moves
  <2>6. QED
    BY <1>3, <2>4, <2>5
<1>9. ASSUME NEW d \in Dir, ExactAt(d), marks' \cap {"over", "gap"} = {} PROVE ExactAt(d)'
  <2>1. ExactlyReadAt(d)
    BY <1>0, <1>2, <1>9 DEF ExactlyRead
  <2>3. log' = log /\ total' = total /\ cur' = cur
    BY <1>2
  <2>4. CASE Done
    <3>1. step \in {"logged", "again"}
      BY <1>0, <1>2, <1>3, <1>9, <2>4, DoneShape
    <3>2. QED
      BY <1>0, <1>2, <1>9, <2>1, <2>4, <3>1, DoneExact
  <2>5. CASE left > 1 /\ left' = left - 1 /\ out' = out /\ since' = since
             /\ step' = IF step = "new" THEN "new" ELSE "again"
    BY <1>2, <1>9, <2>3, <2>5 DEF ExactAt, Telling
  <2>6. QED
    BY <1>3, <2>4, <2>5
<1>10. "over" \notin marks' => \A d \in Dir : \E k \in Nat : Moves(d, k)
  BY <1>8
<1>11. marks' \cap {"over", "gap"} = {} => \A d \in Dir : ExactAt(d) => ExactAt(d)'
  BY <1>9
<1>12. QED
  BY <1>2, <1>4, <1>6, <1>7, <1>10, <1>11, ServerKept

LEMMA ResetModemInv == ASSUME IInv, ResetModem PROVE IInv'
<1>0. Shape /\ Reading
  BY DEF IInv
<1>1. \A d \in Dir : Numbers(d)
  BY <1>0, ShapeNumbers
<1>2. /\ cur' = Zero /\ total' = Zero /\ marks' = marks \cup {"gap"}
      /\ UNCHANGED <<step, out, left, log, due, row, query, allowed, since>>
  BY DEF ResetModem
<1>3. Shape'
  <2>1. \A d \in Dir : cur'[d] <= total'[d]
    BY <1>2, Zeros
  <2>2. marks' \subseteq Marks
    BY <1>0, <1>2 DEF Shape, Marks
  <2>3. QED
    BY <1>0, <1>2, <2>1, <2>2, Zeros DEF Shape
<1>4. Reading' /\ ExactlyRead'
  <2>1. ASSUME NEW d \in Dir PROVE ReadAt(d)'
    <3>1. cur'[d] = 0 /\ total'[d] = 0 /\ out' = out /\ since' = since
      BY <1>2, Zeros
    <3>2. out.total[d] \in Nat /\ since[d] \in Nat /\ out.session[d] \in Nat
      BY <1>1 DEF Numbers
    <3>3. 0 - out.total[d] <= since[d] /\ 0 <= since[d] /\ 0 <= out.session[d] + since[d]
      BY <3>2
    <3>4. QED
      BY <3>1, <3>3 DEF ReadAt
  <2>2. QED
    BY <1>0, <1>2, <2>1 DEF Reading, ExactlyRead
<1>5. ASSUME NEW d \in Dir PROVE Moves(d, 0)
  <2>1. /\ allowed[d] \in Nat /\ Ahead(d) \in Nat /\ total[d] \in Nat
        /\ out.total[d] \in Nat /\ since[d] \in Nat /\ cur[d] \in Nat /\ out.session[d] \in Nat
    BY <1>1 DEF Numbers
  <2>2. cur'[d] = 0 /\ total'[d] = 0
    BY <1>2, Zeros
  <2>3. Ahead(d)' = IF step = "work" THEN 0
                    ELSE IF step \in Telling THEN out.session[d] + since[d] ELSE since[d]
    BY <1>2, <1>3, <2>2, AheadIsNext
  <2>4. Ahead(d) = IF step = "work" THEN cur[d]
                   ELSE IF step \in Telling THEN out.session[d] + since[d] ELSE since[d]
    BY <1>0, AheadIs
  <2>5. Ahead(d)' <= Ahead(d) + 0
    BY <2>1, <2>3, <2>4
  <2>6. QED
    BY <1>2, <2>1, <2>2, <2>5 DEF Moves
<1>6. \A d \in Dir : \E k \in Nat : Moves(d, k)
  BY <1>5
<1>7. marks \subseteq marks' /\ marks' \subseteq marks \cup {"over", "gap"} /\ "gap" \in marks'
  BY <1>2
<1>8. QED
  BY <1>2, <1>3, <1>4, <1>6, <1>7, ServerKept

-----------------------------------------------------------------------------

\* The report that was due.
LEMMA Removed ==
  ASSUME NEW s \in Seq(Report), NEW i \in DOMAIN s
  PROVE  RemoveAt(s, i) \in Seq(Report) /\ (Len(s) = 1 => RemoveAt(s, i) = <<>>)
<1>1. Len(s) \in Nat /\ i \in 1 .. Len(s) /\ i \in Int
  OBVIOUS
<1> DEFINE a == SubSeq(s, 1, i - 1)
           b == SubSeq(s, i + 1, Len(s))
<1>2. a \in Seq(Report) /\ Len(a) = IF 1 <= i - 1 THEN i - 1 - 1 + 1 ELSE 0
  <2>1. \A k \in 1 .. (i - 1) : s[k] \in Report
    BY <1>1
  <2>2. i - 1 \in Int /\ 1 \in Int
    BY <1>1
  <2>3. QED
    BY <2>1, <2>2, SubSeqProperties
<1>3. b \in Seq(Report) /\ Len(b) = IF i + 1 <= Len(s) THEN Len(s) - (i + 1) + 1 ELSE 0
  <2>1. \A k \in (i + 1) .. Len(s) : s[k] \in Report
    BY <1>1
  <2>2. i + 1 \in Int /\ Len(s) \in Int
    BY <1>1
  <2>3. QED
    BY <2>1, <2>2, SubSeqProperties
<1> HIDE DEF a, b
<1>4. a \o b \in Seq(Report) /\ Len(a \o b) = Len(a) + Len(b)
  BY <1>2, <1>3, ConcatProperties
<1>5. Len(s) = 1 => Len(a \o b) = 0
  BY <1>1, <1>2, <1>3, <1>4
<1>6. Len(a \o b) = 0 => a \o b = <<>>
  BY <1>4
<1>7. QED
  BY <1>4, <1>5, <1>6 DEF RemoveAt, a, b

LEMMA OnlyDue ==
  ASSUME Shape, OnTime, "late" \notin marks, NEW i \in DOMAIN due
  PROVE  /\ Len(log) \in Nat \ {0} /\ Len(due) = 1 /\ RemoveAt(due, i) = <<>>
         /\ due # <<>> /\ due[1] = log[Len(log)] /\ due[i] = log[Len(log)]
<1>1. due \in Seq(Report) /\ log \in Seq(Report)
  BY DEF Shape
<1>2. due # <<>>
  BY <1>1
<1>3. log # <<>> /\ due = <<log[Len(log)]>>
  BY <1>2 DEF OnTime
<1>4. Len(due) = 1 /\ due[1] = log[Len(log)] /\ i = 1
  BY <1>1, <1>3
<1>5. RemoveAt(due, i) = <<>>
  BY <1>1, <1>4, Removed
<1>6. QED
  BY <1>1, <1>2, <1>3, <1>4, <1>5

LEMMA FailsInv == ASSUME IInv, NEW i \in DOMAIN due, Fails(i) PROVE IInv'
<1>0. Shape /\ QueryOfLog /\ OnTime /\ Reading /\ ExactlyRead /\ AllSeen /\ Within /\ Exact
  BY DEF IInv
<1>1. /\ due' = RemoveAt(due, i)
      /\ marks' = marks \cup {"stale"} \cup (IF row = NoRow THEN {"gap"} ELSE {})
      /\ UNCHANGED <<cur, total, step, out, left, log, row, query, allowed, since>>
  BY DEF Fails
<1>2. /\ marks \subseteq marks' /\ marks' \subseteq marks \cup {"stale", "gap"}
      /\ "stale" \in marks' /\ ("gap" \notin marks' => row # NoRow)
  BY <1>1
<1>3. Shape'
  <2>1. due' \in Seq(Report)
    BY <1>0, <1>1, Removed DEF Shape
  <2>2. marks' \subseteq Marks
    BY <1>0, <1>2 DEF Shape, Marks
  <2>3. QED
    BY <1>0, <1>1, <2>1, <2>2 DEF Shape
<1>4. QueryOfLog' /\ ShortByFirstSession'
  BY <1>0, <1>1, <1>2 DEF QueryOfLog, ShortByFirstSession
<1>5. OnTime'
  <2> SUFFICES ASSUME "late" \notin marks' PROVE OnTime'
    BY DEF OnTime
  <2>1. "late" \notin marks
    BY <1>2
  <2>2. due' = <<>> /\ Len(due) = 1 /\ Len(due') = 0
    BY <1>0, <1>1, <2>1, OnlyDue
  <2>3. row.count \in Nat /\ row.count + Len(due) <= Len(log) + 1 /\ Len(log) \in Nat
    BY <1>0, <2>1 DEF OnTime, Shape, Row
  <2>4. row.count + 0 <= Len(log) + 1
    BY <2>2, <2>3
  <2>5. (row = NoRow) <=> (row.count = 0)
    BY <1>0, <2>1 DEF OnTime
  <2>6. QED
    BY <1>1, <1>2, <2>2, <2>4, <2>5 DEF OnTime
<1>6. Reading' /\ ExactlyRead'
  <2>1. \A d \in Dir : (ReadAt(d) => ReadAt(d)') /\ (ExactlyReadAt(d) => ExactlyReadAt(d)')
    BY <1>1 DEF ReadAt, ExactlyReadAt
  <2>2. QED
    BY <1>0, <1>1, <1>2, <2>1 DEF Reading, ExactlyRead
<1>7. AllSeen'
  BY <1>0, <1>1, <1>2 DEF AllSeen
<1>8. Within'
  <2> SUFFICES ASSUME marks' \cap {"over", "late"} = {}, NEW d \in Dir
               PROVE  (SessionsAt(d) /\ GrownAt(d) /\ RowAt(d))'
    BY DEF Within
  <2>1. SessionsAt(d) /\ GrownAt(d) /\ RowAt(d) /\ "late" \notin marks
    BY <1>0, <1>2 DEF Within
  <2>2. Ahead(d)' = Ahead(d) /\ LastSession(d)' = LastSession(d)
    BY <1>1 DEF Ahead, Untold, LastSession
  <2>3. SessionsAt(d)' /\ GrownAt(d)'
    BY <1>1, <2>1, <2>2 DEF SessionsAt, GrownAt
  <2>4. RowAt(d)'
    <3>1. due' = <<>>
      BY <1>0, <1>1, <2>1, OnlyDue
    <3>2. DueSession(d)' = 0
      BY <3>1 DEF DueSession
    <3>3. /\ row.daily[d] \in Nat /\ DueSession(d) \in Nat /\ Ahead(d) \in Nat
          /\ allowed[d] \in Nat
      BY <1>0, ShapeNumbers DEF Numbers
    <3>4. row.daily[d] + DueSession(d) + Ahead(d) <= allowed[d] =>
             row.daily[d] + 0 + Ahead(d) <= allowed[d]
      BY <3>3
    <3>5. "torn" \notin marks' => "torn" \notin marks
      BY <1>2
    <3>6. QED
      BY <1>1, <2>1, <2>2, <3>2, <3>4, <3>5 DEF RowAt
  <2>5. QED
    BY <2>3, <2>4
<1>9. Exact'
  <2>1. \A d \in Dir : ExactAt(d) => ExactAt(d)'
    BY <1>1 DEF ExactAt
  <2>2. marks' \cap {"over", "gap", "late"} = {} => marks \cap {"over", "gap", "late"} = {}
    BY <1>2
  <2>3. QED
    BY <1>0, <2>1, <2>2 DEF Exact
<1>10. QED
  BY <1>3, <1>4, <1>5, <1>6, <1>7, <1>8, <1>9 DEF IInv

LEMMA QueryReadsInv == ASSUME IInv, QueryReads PROVE IInv'
<1>0. Shape /\ QueryOfLog /\ OnTime /\ Reading /\ ExactlyRead /\ AllSeen /\ Within /\ Exact
      /\ ShortByFirstSession
  BY DEF IInv
<1>1. query' = log
      /\ UNCHANGED <<cur, total, step, out, left, log, due, row, allowed, since, marks>>
  BY DEF QueryReads
<1>2. Shape' /\ QueryOfLog' /\ OnTime' /\ AllSeen' /\ ShortByFirstSession'
  BY <1>0, <1>1 DEF Shape, QueryOfLog, OnTime, AllSeen, ShortByFirstSession
<1>3. Reading' /\ ExactlyRead'
  <2>1. \A d \in Dir : (ReadAt(d) => ReadAt(d)') /\ (ExactlyReadAt(d) => ExactlyReadAt(d)')
    BY <1>1 DEF ReadAt, ExactlyReadAt
  <2>2. QED
    BY <1>0, <1>1, <2>1 DEF Reading, ExactlyRead
<1>4. Within'
  <2> SUFFICES ASSUME marks' \cap {"over", "late"} = {}, NEW d \in Dir
               PROVE  (SessionsAt(d) /\ GrownAt(d) /\ RowAt(d))'
    BY DEF Within
  <2>1. SessionsAt(d) /\ GrownAt(d) /\ RowAt(d)
    BY <1>0, <1>1 DEF Within
  <2>2. /\ Ahead(d)' = Ahead(d) /\ LastSession(d)' = LastSession(d)
        /\ DueSession(d)' = DueSession(d)
    BY <1>1 DEF Ahead, Untold, LastSession, DueSession
  <2>3. ~ (Len(query') < Len(log'))
    BY <1>0, <1>1 DEF Shape
  <2>4. SessionsAt(d)'
    BY <1>1, <2>1, <2>2, <2>3 DEF SessionsAt
  <2>5. GrownAt(d)' /\ RowAt(d)'
    BY <1>1, <2>1, <2>2 DEF GrownAt, RowAt
  <2>6. QED
    BY <2>4, <2>5
<1>5. Exact'
  <2>1. \A d \in Dir : ExactAt(d) => ExactAt(d)'
    BY <1>1 DEF ExactAt
  <2>2. QED
    BY <1>0, <1>1, <2>1 DEF Exact
<1>6. QED
  BY <1>2, <1>3, <1>4, <1>5 DEF IInv

LEMMA MidnightInv == ASSUME IInv, Midnight PROVE IInv'
<1>0. Shape /\ Reading /\ ExactlyRead
  BY DEF IInv
<1>1. \A d \in Dir : Numbers(d)
  BY <1>0, ShapeNumbers
<1>2. /\ log' = <<>> /\ row' = NoRow /\ query' = <<>> /\ allowed' = Untold
      /\ UNCHANGED <<cur, total, step, out, left, due, since>>
      /\ marks' = (IF step = "work" THEN {} ELSE marks \cap {"over", "gap"})
                  \cup (IF due = <<>> THEN {} ELSE {"late"})
      /\ Len(log') = 0 /\ Len(query') = 0
  BY DEF Midnight
<1>3. /\ "late" \notin marks' => due = <<>>
      /\ "over" \notin marks' => step = "work" \/ "over" \notin marks
      /\ marks' \cap {"over", "gap"} = {} => step = "work" \/ marks \cap {"over", "gap"} = {}
  BY <1>2
<1>4. Shape'
  <2>1. Untold \in [Dir -> Nat]
    <3>1. \A d \in Dir : /\ cur[d] \in Nat /\ since[d] \in Nat
                         /\ out.session[d] + since[d] \in Nat
      BY <1>1 DEF Numbers
    <3>2. cur \in [Dir -> Nat] /\ since \in [Dir -> Nat]
      BY <1>0, <3>1 DEF Shape
    <3>3. Plus(out.session, since) \in [Dir -> Nat]
      BY <3>1 DEF Plus
    <3>4. CASE step = "work"
      BY <3>2, <3>4 DEF Untold
    <3>5. CASE step \in {"read", "on", "new"}
      BY <3>3, <3>5 DEF Untold
    <3>6. CASE step \in {"logged", "again"}
      <4>1. Untold = since
        BY <3>6 DEF Untold
      <4>2. QED
        BY <3>2, <4>1
    <3>7. step \in {"work"} \cup {"read", "on", "new"} \cup {"logged", "again"}
      BY <1>0 DEF Shape, Telling, Online
    <3>8. QED
      BY <3>4, <3>5, <3>6, <3>7
  <2>2. row' \in Row
    BY <1>2, Zeros DEF NoRow, Row
  <2>3. log' \in Seq(Report) /\ query' \in Seq(Report)
    BY <1>2
  <2>4. marks' \subseteq Marks
    BY <1>2 DEF Marks
  <2>5. QED
    BY <1>0, <1>2, <2>1, <2>2, <2>3, <2>4 DEF Shape
<1>5. QueryOfLog' /\ ShortByFirstSession' /\ AllSeen' /\ Exact'
  BY <1>2 DEF QueryOfLog, ShortByFirstSession, AllSeen, Exact, ExactAt
<1>6. OnTime'
  <2> SUFFICES ASSUME "late" \notin marks' PROVE OnTime'
    BY DEF OnTime
  <2>1. due' = <<>> /\ Len(due') = 0
    BY <1>2, <1>3
  <2>2. QED
    BY <1>2, <2>1 DEF OnTime, NoRow
<1>7. Reading' /\ ExactlyRead'
  <2>1. \A d \in Dir : (ReadAt(d) => ReadAt(d)') /\ (ExactlyReadAt(d) => ExactlyReadAt(d)')
    BY <1>2 DEF ReadAt, ExactlyReadAt
  <2>2. step = "work" => \A d \in Dir : ReadAt(d)' /\ ExactlyReadAt(d)'
    BY <1>2 DEF ReadAt, ExactlyReadAt, Online
  <2>3. QED
    BY <1>0, <1>2, <1>3, <2>1, <2>2 DEF Reading, ExactlyRead
<1>8. Within'
  <2> SUFFICES ASSUME marks' \cap {"over", "late"} = {}, NEW d \in Dir
               PROVE  (SessionsAt(d) /\ GrownAt(d) /\ RowAt(d))'
    BY DEF Within
  <2>1. Ahead(d)' = allowed'[d] /\ Ahead(d)' \in Nat
    <3>1. Ahead(d)' = Ahead(d)
      BY <1>2 DEF Ahead, Untold
    <3>2. QED
      BY <1>1, <1>2, <3>1 DEF Ahead, Numbers
  <2>2. Sessions(log')[d] = 0 /\ Sessions(query')[d] = 0
    BY <1>2, SessionsOfNone
  <2>3. row'.daily[d] = 0 /\ DueSession(d)' = 0
    BY <1>2, <1>3, Zeros DEF NoRow, DueSession
  <2>4. 0 + Ahead(d)' <= allowed'[d] /\ 0 + 0 + Ahead(d)' <= allowed'[d]
    BY <2>1
  <2>5. SessionsAt(d)' /\ GrownAt(d)' /\ RowAt(d)'
    BY <1>2, <2>2, <2>3, <2>4 DEF SessionsAt, GrownAt, RowAt
  <2>6. QED
    BY <2>5
<1>9. QED
  BY <1>4, <1>5, <1>6, <1>7, <1>8 DEF IInv

LEMMA LogsInv == ASSUME IInv, Logs PROVE IInv'
<1>0. Shape /\ QueryOfLog /\ OnTime /\ Reading /\ ExactlyRead /\ AllSeen /\ Within /\ Exact
  BY DEF IInv
<1>1. \A d \in Dir : Numbers(d) /\ LogNumbers(d)
  BY <1>0, ShapeNumbers
<1> DEFINE n == Len(log)
<1>2. /\ step \in {"new", "again"} /\ step' = "logged" /\ left > 0
      /\ log' = Append(log, out) /\ due' = Append(due, out)
      /\ UNCHANGED <<cur, total, out, left, row, query, allowed, since>>
      /\ marks \subseteq marks' /\ marks' \subseteq marks \cup {"over", "late"}
  BY <1>0 DEF Logs, Shape
<1>3. /\ "late" \notin marks' => due = <<>> /\ "late" \notin marks
      /\ "over" \notin marks' => step = "new" /\ "over" \notin marks
  BY DEF Logs
<1>4. /\ log \in Seq(Report) /\ out \in Report /\ n \in Nat
      /\ log' \in Seq(Report) /\ Len(log') = n + 1 /\ log'[n + 1] = out
      /\ \A i \in 1 .. n : log'[i] = log[i]
      /\ log' # <<>>
      /\ (log = <<>>) <=> (n = 0)
  <2>1. log \in Seq(Report) /\ out \in Report /\ log' = Append(log, out)
    BY <1>0, <1>2 DEF Shape
  <2>2. n \in Nat /\ ((log = <<>>) <=> (n = 0))
    BY <2>1
  <2>3. log' \in Seq(Report) /\ Len(log') = n + 1 /\ log'[n + 1] = out
        /\ \A i \in 1 .. n : log'[i] = log[i]
    BY <2>1, AppendProperties
  <2>4. log' # <<>>
    BY <2>2, <2>3
  <2>5. QED
    BY <2>1, <2>2, <2>3, <2>4
<1>5. Shape'
  <2>1. due' \in Seq(Report)
    BY <1>0, <1>2, AppendProperties DEF Shape
  <2>2. marks' \subseteq Marks
    BY <1>0, <1>2 DEF Shape, Marks
  <2>3. step' \in {"work"} \cup Telling \cup Online /\ step' # "work"
        /\ (step' \in {"new", "logged", "again"} <=> left' > 0)
    BY <1>2 DEF Telling, Online
  <2>4. QED
    BY <1>0, <1>2, <1>4, <2>1, <2>2, <2>3 DEF Shape
<1>6. QueryOfLog'
  <2>1. Len(query) \in Nat /\ Len(query) <= n /\ \A i \in 1 .. Len(query) : query[i] = log[i]
    BY <1>0 DEF QueryOfLog, Shape
  <2>2. \A i \in 1 .. Len(query) : i \in 1 .. n
    BY <1>4, <2>1
  <2>3. Len(query) <= n + 1
    BY <1>4, <2>1
  <2> HIDE DEF n
  <2>4. QED
    BY <1>2, <1>4, <2>1, <2>2, <2>3 DEF QueryOfLog
<1>7. "late" \notin marks' => due' = <<out>> /\ Len(due') = 1 /\ due'[1] = out
  <2>1. due = <<>> => due' = <<out>>
    BY <1>2
  <2>2. Len(<<out>>) = 1 /\ <<out>>[1] = out
    OBVIOUS
  <2>3. QED
    BY <1>3, <2>1, <2>2
<1>8. OnTime'
  <2> SUFFICES ASSUME "late" \notin marks' PROVE OnTime'
    BY DEF OnTime
  <2>1. due = <<>> /\ "late" \notin marks /\ Len(due) = 0
    BY <1>3
  <2>2. row.count \in Nat /\ row.count + 0 <= n + 1
        /\ (marks \cap {"torn", "stale"} = {} => row.count + 0 = n)
        /\ ("gap" \notin marks /\ row = NoRow => n = 0)
        /\ ((row = NoRow) <=> (row.count = 0))
    BY <1>0, <2>1 DEF OnTime, Shape, Row
  <2>3. row.count + 1 <= (n + 1) + 1 /\ (row.count + 0 = n => row.count + 1 = n + 1)
    BY <1>4, <2>2
  <2>4. (marks' \cap {"torn", "stale"} = {} => marks \cap {"torn", "stale"} = {})
        /\ ("gap" \notin marks' => "gap" \notin marks)
    BY <1>2
  <2>5. due' = <<log'[Len(log')]>> /\ Len(due') = 1
    BY <1>4, <1>7
  <2>6. n = 0 => Len(log') = 1
    BY <1>4
  <2> HIDE DEF n
  <2>7. QED
    BY <1>2, <1>4, <2>2, <2>3, <2>4, <2>5, <2>6 DEF OnTime
<1>9. Reading' /\ ExactlyRead'
  <2>1. \A d \in Dir : (ReadAt(d) => ReadAt(d)') /\ (ExactlyReadAt(d) => ExactlyReadAt(d)')
    BY <1>2 DEF ReadAt, ExactlyReadAt, Online
  <2>2. marks' \cap {"over", "gap"} = {} => marks \cap {"over", "gap"} = {}
    BY <1>2
  <2>3. QED
    BY <1>0, <1>2, <1>3, <2>1, <2>2 DEF Reading, ExactlyRead
<1>10. AllSeen'
  <2> SUFFICES ASSUME marks' \cap {"over", "late"} = {} PROVE AllSeen'
    BY DEF AllSeen
  <2>1. marks \cap {"over", "late"} = {} /\ step # "work"
    BY <1>2
  <2>2. ASSUME NEW i \in 1 .. (n + 1) PROVE log'[i].total["down"] > 0
    <3>1. CASE i = n + 1
      BY <1>0, <1>4, <2>1, <3>1 DEF Reading
    <3>2. CASE i # n + 1
      <4>1. i \in 1 .. n
        BY <1>4, <3>2
      <4>2. QED
        BY <1>0, <1>4, <2>1, <4>1 DEF AllSeen
    <3>3. QED
      BY <3>1, <3>2
  <2>3. ASSUME row # NoRow PROVE \E j \in 1 .. (n + 1) : row.first = log'[j].total
    <3>1. PICK j \in 1 .. n : row.first = log[j].total
      BY <1>0, <2>1, <2>3 DEF AllSeen
    <3>2. j \in 1 .. (n + 1)
      BY <1>4
    <3>3. QED
      BY <1>4, <3>1, <3>2
  <2>4. ASSUME row # NoRow, "gap" \notin marks' PROVE row.first = log'[1].total
    <3>1. \E j \in 1 .. n : TRUE
      BY <1>0, <2>1, <2>4 DEF AllSeen
    <3>2. 1 \in 1 .. n
      BY <1>4, <3>1
    <3>3. "gap" \notin marks
      BY <1>2, <2>4
    <3>4. QED
      BY <1>0, <1>4, <2>1, <2>4, <3>2, <3>3 DEF AllSeen
  <2> HIDE DEF n
  <2>5. QED
    BY <1>2, <1>4, <2>2, <2>3, <2>4 DEF AllSeen
<1>11. ASSUME NEW d \in Dir, "over" \notin marks'
       PROVE  /\ Sessions(log')[d] = Sessions(log)[d] + out.session[d]
              /\ Ahead(d) = out.session[d] + since[d] /\ Ahead(d)' = since[d]
              /\ LastSession(d)' = out.session[d]
  <2>1. Sessions(log')[d] = Sessions(log)[d] + out.session[d]
    BY <1>2, <1>4, SessionsOfMore
  <2>2. Ahead(d) = out.session[d] + since[d]
    BY <1>0, <1>3, <1>11, AheadIs DEF Telling
  <2>3. Ahead(d)' = since[d]
    BY <1>2, <1>5, AheadIsNext DEF Telling
  <2>4. QED
    BY <1>4, <2>1, <2>2, <2>3 DEF LastSession
<1>12. ASSUME NEW d \in Dir, SessionsAt(d), GrownAt(d), RowAt(d), ReadAt(d),
              marks' \cap {"over", "late"} = {}
       PROVE  SessionsAt(d)' /\ GrownAt(d)' /\ RowAt(d)'
  <2> DEFINE S == Sessions(log)[d]
             Q == Sessions(query)[d]
             o == out.session[d]
             t == out.total[d]
             c == since[d]
             w == allowed[d]
             a == total[d]
             r == row.daily[d]
  <2>1. S \in Nat /\ Q \in Nat /\ o \in Nat /\ t \in Nat /\ c \in Nat /\ w \in Nat
        /\ a \in Nat /\ r \in Nat
    BY <1>1 DEF Numbers, LogNumbers
  <2>2. step = "new" /\ step \in Telling /\ step # "work" /\ step' \notin Telling
        /\ due = <<>> /\ "over" \notin marks'
    BY <1>2, <1>3, <1>12 DEF Telling
  <2>3. Ahead(d) = o + c /\ Ahead(d)' = c /\ Sessions(log')[d] = S + o /\ LastSession(d)' = o
    BY <1>11, <2>2
  <2>4. S + (o + c) <= w /\ Q + (o + c) <= w /\ a - t <= c
    BY <1>12, <2>2, <2>3 DEF SessionsAt, ReadAt
  <2>5. ASSUME NEW i \in 1 .. n
        PROVE  /\ log[i].total[d] \in Nat
               /\ a - log[i].total[d] <= w
               /\ t - log[i].total[d] + c <= w
               /\ \A j \in i .. n : log[j].total[d] - log[i].total[d] + (o + c) <= w
    BY <1>1, <1>12, <2>2, <2>3 DEF GrownAt, LogNumbers
  <2>6. total'[d] = a /\ allowed'[d] = w /\ query' = query /\ row' = row
    BY <1>2
  <2>7. "torn" \notin marks => r + 0 + (o + c) <= w
    BY <1>12, <2>2, <2>3 DEF RowAt, DueSession
  <2>8. DueSession(d)' = o
    <3>1. due' # <<>> /\ due'[1] = out
      BY <1>7, <1>12
    <3>2. QED
      BY <3>1 DEF DueSession
  <2> HIDE DEF S, Q, o, t, c, w, a, r
  <2>9. S + o + c <= w /\ Q + c <= w /\ Q + o + c <= w /\ c <= w /\ a - t <= w
        /\ t - t + c <= w /\ ("torn" \notin marks => r + o + c <= w)
    BY <2>1, <2>4, <2>7
  <2>10. SessionsAt(d)'
    <3> HIDE DEF n
    <3>1. QED
      BY <2>3, <2>6, <2>9 DEF SessionsAt, Q
  <2>11. RowAt(d)'
    <3>1. "torn" \notin marks' => "torn" \notin marks
      BY <1>2
    <3>2. QED
      BY <2>3, <2>6, <2>8, <2>9, <3>1 DEF RowAt, r
  <2>12. ASSUME NEW i \in 1 .. (n + 1) PROVE a - log'[i].total[d] <= w
    <3>1. CASE i = n + 1
      BY <1>4, <2>9, <3>1 DEF t
    <3>2. CASE i # n + 1
      <4>1. i \in 1 .. n
        BY <1>4, <3>2
      <4>2. QED
        BY <1>4, <2>5, <4>1
    <3>3. QED
      BY <3>1, <3>2
  <2>13. ASSUME NEW i \in 1 .. (n + 1), NEW j \in i .. (n + 1)
         PROVE  /\ log'[j].total[d] - log'[i].total[d] + c <= w
                /\ j < n + 1 => log'[j].total[d] - log'[i].total[d] + o + c <= w
    <3>1. CASE i = n + 1
      <4>1. j = n + 1 /\ ~ (j < n + 1)
        BY <1>4, <3>1
      <4>2. QED
        BY <1>4, <2>9, <3>1, <4>1 DEF t
    <3>2. CASE i # n + 1
      <4>1. i \in 1 .. n
        BY <1>4, <3>2
      <4>2. CASE j = n + 1
        <5>1. t - log[i].total[d] + c <= w
          BY <2>5, <4>1
        <5>2. log'[j].total[d] = t /\ log'[i].total[d] = log[i].total[d] /\ ~ (j < n + 1)
          BY <1>4, <4>1, <4>2 DEF t
        <5>3. QED
          BY <5>1, <5>2
      <4>3. CASE j # n + 1
        <5>1. j \in 1 .. n /\ j \in i .. n
          BY <1>4, <4>1, <4>3
        <5>2. log[j].total[d] \in Nat /\ log[i].total[d] \in Nat
          BY <2>5, <4>1, <5>1
        <5>3. log[j].total[d] - log[i].total[d] + (o + c) <= w
          BY <2>5, <4>1, <5>1
        <5>4. /\ log[j].total[d] - log[i].total[d] + c <= w
              /\ log[j].total[d] - log[i].total[d] + o + c <= w
          BY <2>1, <5>2, <5>3
        <5>5. QED
          BY <1>4, <4>1, <5>1, <5>4
      <4>4. QED
        BY <4>2, <4>3
    <3>3. QED
      BY <3>1, <3>2
  <2>14. Len(log') = n + 1
    BY <1>4
  <2> HIDE DEF n
  <2>15. GrownAt(d)'
    BY <2>2, <2>3, <2>6, <2>12, <2>13, <2>14 DEF GrownAt
  <2>16. QED
    BY <2>10, <2>11, <2>15
<1>13. Within'
  BY <1>0, <1>2, <1>12 DEF Within, Reading
<1>14. ASSUME NEW d \in Dir, ExactAt(d), "over" \notin marks' PROVE ExactAt(d)'
  <2> DEFINE S == Sessions(log)[d]
             o == out.session[d]
             t == out.total[d]
             k == log[n].total[d]
             f == log[1].total[d]
             g == log[1].session[d]
  <2>1. S \in Nat /\ o \in Nat /\ t \in Nat /\ step \in Telling /\ step' \notin Telling
    BY <1>1, <1>2, <1>3, <1>14 DEF Numbers, LogNumbers, Telling
  <2>2. Sessions(log')[d] = S + o
    BY <1>11, <1>14
  <2>3. out' = out /\ step' = "logged" /\ Len(log') = n + 1 /\ log'[n + 1] = out
    BY <1>2, <1>4
  <2>4. CASE n = 0
    <3>1. log' = Append(<<>>, out) /\ S = 0 /\ log'[1] = out
      BY <1>2, <1>4, <2>4, SessionsOfNone
    <3>2. t - t = (S + o) - o /\ o <= S + o
      BY <2>1, <3>1
    <3>3. Len(log') = 1
      BY <1>4, <2>4
    <3>4. QED
      BY <2>1, <2>2, <2>3, <3>1, <3>2, <3>3 DEF ExactAt
  <2>5. CASE n # 0
    <3>1. n \in 1 .. n /\ 1 \in 1 .. n /\ log # <<>>
      BY <1>4, <2>5
    <3>2. k \in Nat /\ f \in Nat /\ g \in Nat
      BY <1>1, <3>1 DEF LogNumbers
    <3>3. t - k = o /\ k - f = S - g /\ g <= S
      BY <1>14, <2>1, <3>1 DEF ExactAt
    <3>4. log'[1] = log[1]
      BY <1>4, <3>1
    <3>5. t - f = (S + o) - g /\ g <= S + o
      <4> HIDE DEF S, o, t, k, f, g
      <4>1. QED
        BY <2>1, <3>2, <3>3
    <3>6. log'[Len(log')].total[d] = t /\ log'[1].total[d] = f /\ log'[1].session[d] = g
          /\ out'.total[d] = t
      BY <2>3, <3>4
    <3> HIDE DEF S, o, t, k, f, g
    <3>7. QED
      BY <2>1, <2>2, <2>3, <3>5, <3>6 DEF ExactAt
  <2>6. QED
    BY <2>4, <2>5
<1>15. Exact'
  <2>1. marks' \cap {"over", "gap", "late"} = {} => marks \cap {"over", "gap", "late"} = {}
    BY <1>2
  <2>2. QED
    BY <1>0, <1>14, <2>1 DEF Exact
<1>16. ShortByFirstSession'
  <2>1. due' # <<>>
    <3>1. due \in Seq(Report) /\ Append(due, out) \in Seq(Report)
      BY <1>0, <1>4, AppendProperties DEF Shape
    <3>2. Len(due') = Len(due) + 1 /\ Len(due) \in Nat
      BY <1>2, <1>4, <3>1, AppendProperties
    <3>3. QED
      BY <3>2
  <2>2. QED
    BY <2>1 DEF ShortByFirstSession
<1>17. QED
  BY <1>5, <1>6, <1>8, <1>9, <1>10, <1>13, <1>15, <1>16 DEF IInv

LEMMA RecordedType ==
  ASSUME Shape, NEW r \in Report
  PROVE  Recorded(r) \in Row /\ Recorded(r).count = row.count + 1 /\ Recorded(r) # NoRow
<1>1. row.first \in [Dir -> 0 .. MaxBytes] /\ row.count \in Nat /\ MaxBytes \in Nat
  BY LteAssumption DEF Shape, Row
<1>2. First(r) \in [Dir -> 0 .. MaxBytes]
  BY <1>1 DEF First, Report
<1>3. ASSUME NEW d \in Dir PROVE Grown(r, d) \in Nat
  <2>1. r.total[d] \in Nat /\ row.first[d] \in Nat /\ row.daily[d] \in Nat /\ r.session[d] \in Nat
    BY <1>1, ReportNumbers, ShapeNumbers DEF Numbers
  <2>2. QED
    BY <2>1 DEF Grown
<1>4. r.session \in [Dir -> Nat]
  <2>1. r.session \in [Dir -> 0 .. MaxBytes]
    BY DEF Report
  <2>2. QED
    BY <1>1, <2>1
<1>5. (IF row = NoRow THEN r.session ELSE [d \in Dir |-> Grown(r, d)]) \in [Dir -> Nat]
  BY <1>3, <1>4
<1>6. Recorded(r) \in Row /\ Recorded(r).count = row.count + 1
  BY <1>1, <1>2, <1>5 DEF Recorded, Row
<1>7. row.count + 1 # 0
  BY <1>1
<1>8. QED
  BY <1>6, <1>7 DEF NoRow

LEMMA UpdatesInv == ASSUME IInv, NEW i \in DOMAIN due, Updates(i) PROVE IInv'
<1>0. Shape /\ QueryOfLog /\ OnTime /\ Reading /\ ExactlyRead /\ AllSeen /\ Within /\ Exact
  BY DEF IInv
<1>1. \A d \in Dir : Numbers(d) /\ LogNumbers(d)
  BY <1>0, ShapeNumbers
<1> DEFINE n == Len(log)
           r == due[i]
<1>2. /\ row' = Recorded(r) /\ due' = RemoveAt(due, i) /\ r \in Report
      /\ UNCHANGED <<cur, total, log, query, allowed, marks>>
      /\ \/ step = "logged" /\ Done
         \/ UNCHANGED <<step, out, left, since>>
  BY <1>0 DEF Updates, Shape
<1>3. row' \in Row /\ row'.count = row.count + 1 /\ row' # NoRow
  BY <1>0, <1>2, RecordedType
<1>4. Shape'
  <2>1. due' \in Seq(Report)
    BY <1>0, <1>2, Removed DEF Shape
  <2>2. CASE step = "logged" /\ Done
    BY <1>0, <1>2, <1>3, <2>1, <2>2, DoneShape DEF Shape, Telling, Online
  <2>3. CASE UNCHANGED <<step, out, left, since>>
    BY <1>0, <1>2, <1>3, <2>1, <2>3 DEF Shape
  <2>4. QED
    BY <1>2, <2>2, <2>3
<1>5. QueryOfLog'
  BY <1>0, <1>2 DEF QueryOfLog
<1>6. Reading' /\ ExactlyRead'
  <2>1. CASE step = "logged" /\ Done
    <3>1. step' = "work"
      BY <1>0, <2>1, DoneShape
    <3>2. QED
      BY <3>1 DEF Reading, ExactlyRead, ReadAt, ExactlyReadAt, Online
  <2>2. CASE UNCHANGED <<step, out, left, since>>
    <3>1. \A d \in Dir : (ReadAt(d) => ReadAt(d)') /\ (ExactlyReadAt(d) => ExactlyReadAt(d)')
      BY <1>2, <2>2 DEF ReadAt, ExactlyReadAt
    <3>2. QED
      BY <1>0, <1>2, <2>2, <3>1 DEF Reading, ExactlyRead
  <2>3. QED
    BY <1>2, <2>1, <2>2
<1>7. ASSUME "late" \notin marks
      PROVE  /\ n \in Nat \ {0} /\ Len(due) = 1 /\ due' = <<>> /\ Len(due') = 0
             /\ due # <<>> /\ due[1] = r /\ r = log[n]
  BY <1>0, <1>2, <1>7, OnlyDue
<1>8. OnTime'
  <2> SUFFICES ASSUME "late" \notin marks PROVE OnTime'
    BY <1>2 DEF OnTime
  <2>1. row.count \in Nat /\ row.count + 1 <= n + 1
        /\ (marks \cap {"torn", "stale"} = {} => row.count + 1 = n)
    BY <1>0, <1>7 DEF OnTime, Shape, Row
  <2>2. row'.count + 0 <= n + 1 /\ row'.count # 0
        /\ (marks \cap {"torn", "stale"} = {} => row'.count + 0 = n)
    BY <1>3, <2>1
  <2> HIDE DEF n
  <2>3. due' = <<>> /\ Len(due') = 0 /\ Len(log') = n /\ marks' = marks
    BY <1>2, <1>7 DEF n
  <2>4. QED
    BY <1>3, <2>2, <2>3 DEF OnTime
<1>9. row'.first = (IF row = NoRow THEN r.total ELSE row.first)
  BY <1>2 DEF Recorded, First
<1>10. ASSUME "late" \notin marks, "gap" \notin marks, row = NoRow PROVE r = log[1]
  BY <1>0, <1>7, <1>10 DEF OnTime
<1>11. AllSeen'
  <2> SUFFICES ASSUME marks \cap {"over", "late"} = {} PROVE AllSeen'
    BY <1>2 DEF AllSeen
  <2>1. r = log[n] /\ n \in 1 .. n
    BY <1>7
  <2>2. \E j \in 1 .. n : row'.first = log[j].total
    <3>1. row = NoRow => row'.first = log[n].total
      BY <1>9, <2>1
    <3>2. row # NoRow => \E j \in 1 .. n : row.first = log[j].total
      BY <1>0 DEF AllSeen
    <3>3. QED
      BY <1>9, <2>1, <3>1, <3>2
  <2>3. "gap" \notin marks => row'.first = log[1].total
    <3>1. row # NoRow /\ "gap" \notin marks => row.first = log[1].total
      BY <1>0 DEF AllSeen
    <3>2. QED
      BY <1>9, <1>10, <3>1
  <2>4. \A j \in 1 .. n : log[j].total["down"] > 0
    BY <1>0 DEF AllSeen
  <2>5. QED
    BY <1>2, <2>2, <2>3, <2>4 DEF AllSeen
<1>12. ASSUME NEW d \in Dir, "over" \notin marks PROVE Moves(d, 0)
  <2>1. CASE step = "logged" /\ Done
    <3>1. step \in Online
      BY <2>1 DEF Online
    <3>2. QED
      BY <1>0, <1>2, <1>4, <1>12, <2>1, <3>1, DoneMoves
  <2>2. CASE UNCHANGED <<step, out, left, since>>
    <3>1. Ahead(d)' = Ahead(d)
      BY <1>2, <2>2 DEF Ahead, Untold
    <3>2. /\ allowed[d] \in Nat /\ Ahead(d) \in Nat /\ total[d] \in Nat
          /\ out.total[d] \in Nat /\ since[d] \in Nat
      BY <1>1 DEF Numbers
    <3>3. QED
      BY <1>2, <2>2, <3>1, <3>2 DEF Moves
  <2>3. QED
    BY <1>2, <2>1, <2>2
<1>13. ASSUME NEW d \in Dir
       PROVE  /\ row = NoRow => row'.daily[d] = r.session[d]
              /\ row # NoRow => row'.daily[d] = Grown(r, d)
  BY <1>2 DEF Recorded
<1>14. ASSUME NEW d \in Dir, marks \cap {"over", "late"} = {}, GrownAt(d), RowAt(d)
       PROVE  RowAt(d)'
  <2> SUFFICES ASSUME "torn" \notin marks
               PROVE  row'.daily[d] + DueSession(d)' + Ahead(d)' <= allowed'[d]
    BY <1>2 DEF RowAt
  <2> DEFINE o == r.session[d]
             t == r.total[d]
             c == Ahead(d)
             e == Ahead(d)'
             w == allowed[d]
             q == row.daily[d]
  <2>1. r = log[n] /\ n \in 1 .. n /\ due # <<>> /\ due[1] = r /\ DueSession(d)' = 0
    BY <1>7, <1>14 DEF DueSession
  <2>2. q \in Nat /\ o \in Nat /\ t \in Nat /\ c \in Nat /\ e \in Nat /\ w \in Nat
    <3>1. Numbers(d) /\ Numbers(d)'
      BY <1>1, <1>4, ShapeNumbersNext
    <3>2. QED
      BY <1>2, <3>1, ReportNumbers DEF Numbers
  <2>3. e <= c /\ allowed'[d] = w
    <3>1. Moves(d, 0) /\ allowed'[d] = w
      BY <1>2, <1>12, <1>14
    <3>2. e <= c + 0
      BY <3>1 DEF Moves
    <3>3. QED
      BY <2>2, <3>1, <3>2
  <2>4. q + o + c <= w
    BY <1>14, <2>1 DEF RowAt, DueSession
  <2>5. row'.daily[d] \in Nat /\ row'.daily[d] + c <= w
    <3>1. CASE row = NoRow
      <4>1. row'.daily[d] = o
        BY <1>13, <3>1
      <4> HIDE DEF o, c, w, q
      <4>2. QED
        BY <2>2, <2>4, <4>1
    <3>2. CASE row # NoRow
      <4>1. PICK j \in 1 .. n : row.first = log[j].total
        BY <1>0, <1>14, <3>2 DEF AllSeen
      <4> DEFINE f == log[j].total[d]
      <4>2. f \in Nat /\ row.first[d] = f
        BY <1>1, <4>1 DEF LogNumbers
      <4>3. t - f + c <= w
        <5>1. n \in j .. n
          BY <2>1
        <5>2. QED
          BY <1>14, <2>1, <4>1, <5>1 DEF GrownAt
      <4>4. row'.daily[d] = IF t >= f THEN t - f ELSE q + o
        BY <1>13, <3>2, <4>2 DEF Grown
      <4> HIDE DEF o, t, c, w, q, f
      <4>5. QED
        BY <2>2, <2>4, <4>2, <4>3, <4>4
    <3>3. QED
      BY <3>1, <3>2
  <2>6. row'.daily[d] + 0 + e <= w
    <3> HIDE DEF c, e, w
    <3>1. QED
      BY <2>2, <2>3, <2>5
  <2>7. QED
    BY <2>1, <2>3, <2>6
<1>15. Within'
  <2> SUFFICES ASSUME marks \cap {"over", "late"} = {}, NEW d \in Dir
               PROVE  (SessionsAt(d) /\ GrownAt(d) /\ RowAt(d))'
    BY <1>2 DEF Within
  <2>1. SessionsAt(d) /\ GrownAt(d) /\ RowAt(d)
    BY <1>0 DEF Within
  <2>2. Moves(d, 0) /\ 0 \in Nat /\ log' = log /\ query' = query
    BY <1>2, <1>12
  <2>3. SessionsAt(d)'
    BY <1>0, <1>4, <2>1, <2>2, SumsKept
  <2>4. GrownAt(d)'
    BY <1>0, <1>4, <2>1, <2>2, GrownKept
  <2>5. QED
    BY <1>14, <2>1, <2>3, <2>4
<1>16. Exact'
  <2> SUFFICES ASSUME marks \cap {"over", "gap", "late"} = {}, NEW d \in Dir PROVE ExactAt(d)'
    BY <1>2 DEF Exact
  <2>1. ExactAt(d) /\ ExactlyReadAt(d)
    BY <1>0 DEF Exact, ExactlyRead
  <2>2. CASE step = "logged" /\ Done
    <3>1. step \in {"logged", "again"}
      BY <2>2
    <3>2. QED
      BY <1>0, <1>2, <2>1, <2>2, <3>1, DoneExact
  <2>3. CASE UNCHANGED <<step, out, left, since>>
    BY <1>2, <2>1, <2>3 DEF ExactAt
  <2>4. QED
    BY <1>2, <2>2, <2>3
<1>17. ShortByFirstSession'
  <2> SUFFICES ASSUME marks = {}, n >= 2
               PROVE  row'.daily = Minus(Sessions(log), log[1].session)
    BY <1>2 DEF ShortByFirstSession
  <2>1. r = log[n] /\ n \in 1 .. n /\ 1 \in 1 .. n /\ log # <<>>
    <3>1. n \in Nat /\ r = log[n]
      BY <1>7
    <3>2. n # 0
      BY <3>1
    <3>3. QED
      BY <1>0, <3>1, <3>2 DEF Shape
  <2>2. row # NoRow
    <3>1. row = NoRow => n = 1
      BY <1>0, <1>7 DEF OnTime
    <3>2. QED
      BY <3>1
  <2>3. row.first = log[1].total
    BY <1>0, <2>2 DEF AllSeen
  <2>4. ASSUME NEW d \in Dir PROVE Grown(r, d) = Minus(Sessions(log), log[1].session)[d]
    <3> DEFINE S == Sessions(log)[d]
               t == log[n].total[d]
               f == log[1].total[d]
               g == log[1].session[d]
    <3>1. t - f = S - g /\ g <= S
      BY <1>0, <2>1 DEF Exact, ExactAt
    <3>2. t \in Nat /\ f \in Nat /\ S \in Nat /\ g \in Nat
      BY <1>1, <2>1 DEF LogNumbers
    <3>3. t >= f
      <4> HIDE DEF S, t, f, g
      <4>1. QED
        BY <3>1, <3>2
    <3>4. Grown(r, d) = t - f
      BY <2>1, <2>3, <3>3 DEF Grown
    <3>5. Minus(Sessions(log), log[1].session)[d] = S - g
      BY DEF Minus
    <3>6. QED
      BY <3>1, <3>4, <3>5
  <2>5. row'.daily = [d \in Dir |-> Grown(r, d)]
    BY <1>2, <2>2 DEF Recorded
  <2>6. QED
    BY <2>4, <2>5 DEF Minus
<1>18. QED
  BY <1>4, <1>5, <1>6, <1>8, <1>11, <1>15, <1>16, <1>17 DEF IInv

LEMMA QueryWritesInv == ASSUME IInv, QueryWrites PROVE IInv'
<1>0. Shape /\ QueryOfLog /\ OnTime /\ Reading /\ ExactlyRead /\ AllSeen /\ Within /\ Exact
      /\ ShortByFirstSession
  BY DEF IInv
<1>1. \A d \in Dir : Numbers(d) /\ LogNumbers(d)
  BY <1>0, ShapeNumbers
<1> DEFINE n == Len(query)
           m == Len(log)
           k == Len(due)
<1>2. /\ query # <<>> /\ row' = Rebuilt(query) /\ query' = <<>>
      /\ UNCHANGED <<cur, total, step, out, left, log, due, allowed, since>>
  BY DEF QueryWrites
<1>3. marks' = IF Seen(query) = {} THEN marks
               ELSE (marks \ {"torn", "stale"})
                    \cup (IF n + k > m THEN {"torn"} ELSE {})
                    \cup (IF n + k < m THEN {"stale"} ELSE {})
  BY DEF QueryWrites
<1>4. /\ marks' \cap {"over", "late"} = marks \cap {"over", "late"}
      /\ "over" \in marks' <=> "over" \in marks
      /\ "late" \in marks' <=> "late" \in marks
      /\ "gap" \in marks' <=> "gap" \in marks
      /\ marks' \subseteq marks \cup {"torn", "stale"}
  BY <1>3
<1>5. /\ query \in Seq(Report) /\ log \in Seq(Report) /\ n \in Nat /\ m \in Nat /\ k \in Nat
      /\ n # 0 /\ n <= m /\ 1 \in 1 .. n /\ n \in 1 .. n /\ log # <<>>
      /\ \A i \in 1 .. n : query[i] = log[i] /\ i \in 1 .. m
  <2>1. query \in Seq(Report) /\ log \in Seq(Report) /\ due \in Seq(Report)
    BY <1>0 DEF Shape
  <2>2. n \in Nat /\ m \in Nat /\ n # 0 /\ k \in Nat
    BY <1>2, <2>1
  <2>3. n <= m /\ \A i \in 1 .. n : query[i] = log[i]
    BY <1>0 DEF QueryOfLog
  <2>4. m # 0
    BY <2>2, <2>3
  <2>5. QED
    BY <2>1, <2>2, <2>3, <2>4
<1>6. Seen(query) = {} => row' = row
  BY <1>2 DEF Rebuilt
<1>7. ASSUME Seen(query) # {}
      PROVE  /\ row'.first = (IF row = NoRow THEN FirstSeen(query).total ELSE row.first)
             /\ row'.daily = Summed(query) /\ row'.count = n
  BY <1>2, <1>7 DEF Rebuilt, First, Toggles
<1>8. Summed(query) =
        LET grown == IF \A d \in Dir : LastSeen(query).total[d] >= FirstSeen(query).total[d]
                     THEN Minus(LastSeen(query).total, FirstSeen(query).total) ELSE Zero
        IN IF grown = Zero THEN Sessions(query) ELSE grown
  BY DEF Summed
<1>9. Shape'
  <2>1. query' \in Seq(Report) /\ marks' \subseteq Marks
    BY <1>0, <1>2, <1>4 DEF Shape, Marks
  <2>2. CASE Seen(query) = {}
    BY <1>0, <1>2, <1>6, <2>1, <2>2 DEF Shape
  <2>3. CASE Seen(query) # {}
    <3> DEFINE f == FirstSeen(query).total
               l == LastSeen(query).total
    <3>1. FirstSeen(query) \in Report /\ LastSeen(query) \in Report
      BY <1>5, <2>3, SeenRange
    <3>2. \A d \in Dir : f[d] \in Nat /\ l[d] \in Nat
      BY <3>1, ReportNumbers
    <3>3. Sessions(query) \in [Dir -> Nat]
      BY <1>5, SessionsType
    <3>4. (IF row = NoRow THEN f ELSE row.first) \in [Dir -> 0 .. MaxBytes]
      BY <1>0, <3>1 DEF Shape, Row, Report
    <3> HIDE DEF f, l
    <3>5. (\A d \in Dir : l[d] >= f[d]) => Minus(l, f) \in [Dir -> Nat]
      BY <3>2 DEF Minus
    <3>6. Summed(query) \in [Dir -> Nat]
      BY <1>8, <3>3, <3>5 DEF f, l
    <3>7. row' = [first |-> IF row = NoRow THEN f ELSE row.first,
                  daily |-> Summed(query), count |-> n]
      BY <1>2, <2>3 DEF Rebuilt, First, Toggles, f
    <3>8. row' \in Row
      BY <1>5, <3>4, <3>6, <3>7 DEF Row
    <3>9. QED
      BY <1>0, <1>2, <2>1, <3>8 DEF Shape
  <2>4. QED
    BY <2>2, <2>3
<1>10. QueryOfLog'
  <2>1. Len(query') = 0
    BY <1>2
  <2>2. QED
    BY <1>2, <1>5, <2>1 DEF QueryOfLog
<1>11. "late" \notin marks => k <= 1
  <2>1. ASSUME "late" \notin marks, due = <<log[Len(log)]>> PROVE k = 1
    BY <2>1
  <2>2. QED
    BY <1>0, <2>1 DEF OnTime
<1>12. OnTime'
  <2>1. CASE Seen(query) = {}
    <3>1. marks' = marks /\ row' = row
      BY <1>3, <1>6, <2>1
    <3>2. QED
      BY <1>0, <1>2, <3>1 DEF OnTime
  <2>2. CASE Seen(query) # {}
    <3> SUFFICES ASSUME "late" \notin marks PROVE OnTime'
      BY <1>4 DEF OnTime
    <3>1. row'.count = n /\ row'.count # 0 /\ row' # NoRow
      BY <1>5, <1>7, <2>2 DEF NoRow
    <3>2. n + k <= m + 1
      BY <1>5, <1>11
    <3>3. marks' \cap {"torn", "stale"} = {} => n + k = m
      <4>1. marks' \cap {"torn", "stale"} = {} => ~ (n + k > m) /\ ~ (n + k < m)
        BY <1>3, <2>2
      <4>2. QED
        BY <1>5, <4>1
    <3>4. due = <<>> \/ (log # <<>> /\ due = <<log[Len(log)]>>)
      BY <1>0 DEF OnTime
    <3>5. QED
      BY <1>2, <3>1, <3>2, <3>3, <3>4 DEF OnTime
  <2>3. QED
    BY <2>1, <2>2
<1>13. Reading' /\ ExactlyRead'
  <2>1. \A d \in Dir : (ReadAt(d) => ReadAt(d)') /\ (ExactlyReadAt(d) => ExactlyReadAt(d)')
    BY <1>2 DEF ReadAt, ExactlyReadAt
  <2>2. QED
    BY <1>0, <1>2, <1>4, <2>1 DEF Reading, ExactlyRead
<1>14. ASSUME marks \cap {"over", "late"} = {}
       PROVE  /\ Seen(query) # {}
              /\ FirstSeen(query) = log[1] /\ LastSeen(query) = log[n]
  <2>1. \A i \in 1 .. n : query[i].total["down"] > 0
    BY <1>0, <1>5, <1>14 DEF AllSeen
  <2>2. 1 \in DOMAIN query
    BY <1>5
  <2>3. Seen(query) # {}
    BY <1>5, <2>1, <2>2 DEF Seen
  <2>4. FirstSeen(query) = query[1] /\ LastSeen(query) = query[n]
    BY <1>5, <2>1, <2>3, SeenRange
  <2>5. QED
    BY <1>5, <2>3, <2>4
<1>15. AllSeen'
  <2> SUFFICES ASSUME marks \cap {"over", "late"} = {} PROVE AllSeen'
    BY <1>4 DEF AllSeen
  <2>1. row'.first = (IF row = NoRow THEN log[1].total ELSE row.first)
    BY <1>7, <1>14
  <2>2. 1 \in 1 .. m
    BY <1>5
  <2>3. QED
    BY <1>0, <1>2, <1>4, <2>1, <2>2 DEF AllSeen
<1>16. ASSUME NEW d \in Dir, marks \cap {"over", "late"} = {},
              SessionsAt(d), GrownAt(d), RowAt(d)
       PROVE  SessionsAt(d)' /\ GrownAt(d)' /\ RowAt(d)'
  <2> DEFINE a == Ahead(d)
             w == allowed[d]
             o == LastSession(d)
  <2>1. /\ Ahead(d)' = a /\ LastSession(d)' = o /\ DueSession(d)' = DueSession(d)
        /\ allowed'[d] = w
    BY <1>2 DEF Ahead, Untold, LastSession, DueSession
  <2>2. a \in Nat /\ w \in Nat /\ o \in Nat
    BY <1>1, <1>5 DEF Numbers, LogNumbers
  <2>3. SessionsAt(d)'
    <3>1. Sessions(query')[d] = 0
      BY <1>2, SessionsOfNone
    <3>2. Sessions(log)[d] + a <= w /\ Sessions(log)[d] \in Nat
      BY <1>1, <1>16 DEF SessionsAt, LogNumbers
    <3> HIDE DEF a, w
    <3>3. 0 + a <= w
      BY <2>2, <3>2
    <3>4. QED
      BY <1>2, <2>1, <3>1, <3>2, <3>3 DEF SessionsAt
  <2>4. GrownAt(d)'
    BY <1>2, <1>16, <2>1 DEF GrownAt
  <2>5. RowAt(d)'
    <3> DEFINE Q == Sessions(query)[d]
               g == log[n].total[d] - log[1].total[d]
               D == DueSession(d)
    <3> SUFFICES ASSUME "torn" \notin marks' PROVE row'.daily[d] + D + a <= w
      BY <2>1 DEF RowAt
    <3>1. row'.daily[d] = Q \/ row'.daily[d] = g
      BY <1>7, <1>8, <1>14, <1>16 DEF Minus
    <3>2. 1 \in 1 .. m /\ n \in 1 .. m /\ n \in 1 .. m
      BY <1>5
    <3>3. Q \in Nat /\ g \in Int
      BY <1>1, <3>2 DEF LogNumbers
    <3>4. Q + a <= w /\ g + a <= w
      BY <1>5, <1>16, <3>2 DEF SessionsAt, GrownAt
    <3>5. n < m => Q + o + a <= w /\ g + o + a <= w
      BY <1>2, <1>5, <1>16, <3>2 DEF SessionsAt, GrownAt
    <3>6. CASE due = <<>>
      <4>1. D = 0
        BY <3>6 DEF DueSession
      <4> HIDE DEF Q, g, D, a, w
      <4>2. QED
        BY <2>2, <3>1, <3>3, <3>4, <4>1
    <3>7. CASE due # <<>>
      <4>1. due = <<log[Len(log)]>>
        BY <1>0, <1>16, <3>7 DEF OnTime
      <4>2. k = 1 /\ D = o
        BY <4>1 DEF DueSession, LastSession
      <4>3. ~ (n + k > m)
        BY <1>3, <1>14, <1>16
      <4>4. n < m
        BY <1>5, <4>2, <4>3
      <4> HIDE DEF Q, g, D, a, w, o
      <4>5. QED
        BY <2>2, <3>1, <3>3, <3>5, <4>2, <4>4
    <3>8. QED
      BY <3>6, <3>7
  <2>6. QED
    BY <2>3, <2>4, <2>5
<1>17. Within'
  BY <1>0, <1>4, <1>16 DEF Within
<1>18. Exact'
  <2>1. \A d \in Dir : ExactAt(d) => ExactAt(d)'
    BY <1>2 DEF ExactAt
  <2>2. marks' \cap {"over", "gap", "late"} = {} => marks \cap {"over", "gap", "late"} = {}
    BY <1>4
  <2>3. QED
    BY <1>0, <2>1, <2>2 DEF Exact
<1>19. ShortByFirstSession'
  <2> SUFFICES ASSUME marks' = {}, due = <<>>
               PROVE  row'.daily \in {Minus(Sessions(log), log[1].session), Sessions(log)}
    BY <1>2 DEF ShortByFirstSession
  <2>1. marks \cap {"over", "late"} = {} /\ marks \cap {"over", "gap", "late"} = {}
    BY <1>4
  <2>2. Seen(query) # {} /\ FirstSeen(query) = log[1] /\ LastSeen(query) = log[n]
    BY <1>14, <2>1
  <2>3. n = m /\ query = log
    <3>1. k = 0 /\ ~ (n + k > m) /\ ~ (n + k < m)
      BY <1>3, <2>2
    <3>2. n = m
      BY <1>5, <3>1
    <3>3. QED
      BY <1>5, <3>2
  <2>4. row'.daily = Summed(log) /\ FirstSeen(log) = log[1] /\ LastSeen(log) = log[m]
    BY <1>7, <2>2, <2>3
  <2>5. ASSUME NEW d \in Dir
        PROVE  /\ log[m].total[d] >= log[1].total[d]
               /\ log[m].total[d] - log[1].total[d] = Sessions(log)[d] - log[1].session[d]
    <3>1. ExactAt(d)
      BY <1>0, <2>1 DEF Exact
    <3>2. /\ log[m].total[d] - log[1].total[d] = Sessions(log)[d] - log[1].session[d]
          /\ log[1].session[d] <= Sessions(log)[d]
      BY <1>5, <3>1 DEF ExactAt
    <3>3. /\ log[m].total[d] \in Nat /\ log[1].total[d] \in Nat
          /\ log[1].session[d] \in Nat /\ Sessions(log)[d] \in Nat
      BY <1>1, <1>5 DEF LogNumbers
    <3>4. QED
      BY <3>2, <3>3
  <2>6. Minus(log[m].total, log[1].total) = Minus(Sessions(log), log[1].session)
    BY <2>5 DEF Minus
  <2>7. QED
    BY <1>8, <2>3, <2>4, <2>5, <2>6
<1>20. QED
  BY <1>9, <1>10, <1>12, <1>13, <1>15, <1>17, <1>18, <1>19 DEF IInv

-----------------------------------------------------------------------------

LEMMA StutterInv == ASSUME IInv, UNCHANGED vars PROVE IInv'
<1>1. UNCHANGED <<cur, total, step, out, left, log, due, row, query, allowed, since, marks>>
  BY DEF vars
<1>2. Shape' /\ QueryOfLog' /\ OnTime' /\ AllSeen' /\ ShortByFirstSession'
  BY <1>1 DEF IInv, Shape, QueryOfLog, OnTime, AllSeen, ShortByFirstSession
<1>3. ASSUME NEW d \in Dir
      PROVE  /\ ReadAt(d) => ReadAt(d)'
             /\ ExactlyReadAt(d) => ExactlyReadAt(d)'
             /\ ExactAt(d) => ExactAt(d)'
  BY <1>1 DEF ReadAt, ExactlyReadAt, ExactAt
<1>4. ASSUME NEW d \in Dir
      PROVE  SessionsAt(d) /\ GrownAt(d) /\ RowAt(d) => (SessionsAt(d) /\ GrownAt(d) /\ RowAt(d))'
  <2>1. /\ Ahead(d)' = Ahead(d) /\ LastSession(d)' = LastSession(d)
        /\ DueSession(d)' = DueSession(d)
    BY <1>1 DEF Ahead, Untold, LastSession, DueSession
  <2>2. QED
    BY <1>1, <2>1 DEF SessionsAt, GrownAt, RowAt
<1>5. Reading' /\ ExactlyRead' /\ Within' /\ Exact'
  BY <1>1, <1>3, <1>4 DEF IInv, Reading, ExactlyRead, Within, Exact
<1>6. QED
  BY <1>2, <1>5 DEF IInv

\* The inductive invariant: how far the counters can have grown between any two
\* reports of the day, in the modem, in the log, in what a query has read and in
\* the report that is due.
THEOREM LteInvariant == Spec => []IInv
<1>1. IInv /\ [Next]_vars => IInv'
  <2> SUFFICES ASSUME IInv, [Next]_vars PROVE IInv'
    OBVIOUS
  <2>1. CASE UNCHANGED vars
    BY <2>1, StutterInv
  <2>2. CASE \E d \in Dir : Traffic(d)
    BY <2>2, TrafficInv
  <2>3. CASE ToggleIp \/ Reconnects \/ ToggleFails \/ ToggleEnds \/ NotAnswered \/ ResetModem
    BY <2>3, ToggleIpInv, ReconnectsInv, ToggleFailsInv, ToggleEndsInv, NotAnsweredInv,
       ResetModemInv
  <2>4. CASE \E i \in DOMAIN due : Updates(i) \/ Fails(i)
    BY <2>4, UpdatesInv, FailsInv
  <2>5. CASE Logs \/ QueryReads \/ QueryWrites \/ Midnight
    BY <2>5, LogsInv, QueryReadsInv, QueryWritesInv, MidnightInv
  <2>6. QED
    BY <2>1, <2>2, <2>3, <2>4, <2>5 DEF Next
<1>2. QED
  BY <1>1, InitInv, PTL DEF Spec

LEMMA InvImplies ==
  IInv => TypeOK /\ NeverMoreThanUsed /\ ShortByFirstSession /\ CountMatchesLog
<1> SUFFICES ASSUME IInv PROVE TypeOK /\ NeverMoreThanUsed /\ CountMatchesLog
  BY DEF IInv
<1>1. Shape /\ QueryOfLog /\ OnTime /\ Within
  BY DEF IInv
<1>2. TypeOK
  <2>1. \A i \in DOMAIN log : log[i] \in Report
    BY <1>1 DEF Shape
  <2>2. \A i \in DOMAIN due : due[i] \in Report
    BY <1>1 DEF Shape
  <2>3. QED
    BY <1>1, <2>1, <2>2 DEF TypeOK, Shape, Row, QueryOfLog, Telling, Online
<1>3. NeverMoreThanUsed
  <2> SUFFICES ASSUME marks \cap {"over", "late", "torn"} = {}, NEW d \in Dir
               PROVE  row.daily[d] <= allowed[d]
    BY DEF NeverMoreThanUsed
  <2>1. row.daily[d] + DueSession(d) + Ahead(d) <= allowed[d]
    BY <1>1 DEF Within, RowAt
  <2>2. QED
    BY <1>1, <2>1, ShapeNumbers DEF Numbers
<1>4. CountMatchesLog
  BY <1>1 DEF CountMatchesLog, OnTime
<1>5. QED
  BY <1>2, <1>3, <1>4

\* The counters, the report under way and the tables always have their types.
THEOREM LteTypeOK == Spec => []TypeOK
BY LteInvariant, InvImplies, PTL

\* Whichever way a day's sum was made, by reports or by a query, and whatever came
\* between the two transactions of a report, it does not exceed what the modem
\* carried, unless one of the three marks says why.
THEOREM LteNeverMoreThanUsed == Spec => []NeverMoreThanUsed
BY LteInvariant, InvImplies, PTL

\* With every session in one report and every report counted in turn, both ways
\* agree: the sum lacks the session of the first report, or is that of all.
THEOREM LteShortByFirstSession == Spec => []ShortByFirstSession
BY LteInvariant, InvImplies, PTL

\* The toggles counted and due are the reports of the day, or one more at most
\* after a query that came between a report's two transactions.
THEOREM LteCountMatchesLog == Spec => []CountMatchesLog
BY LteInvariant, InvImplies, PTL

=============================================================================
