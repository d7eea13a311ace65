----------------------------- MODULE RunnerCycle -----------------------------
(***************************************************************************)
(* What main of run.py remembers from cycle to cycle when the task server  *)
(* chooses the work: failures and quarantine of products, hits of the day  *)
(* by product and keyword, and how a restart rebuilds both from the logs.  *)
(*                                                                         *)
(* The server may answer with any products that are not excluded, each for *)
(* one phone only (TaskServiceV2).  A cycle log holds the results main     *)
(* evaluated; the history of the day is appended by the workers, each at   *)
(* the end of its work and under the text it searched for, which need not  *)
(* be a keyword main knows.  A worker that breaks down after its line of   *)
(* history, or whose pool does, leaves main a result without a product.    *)
(***************************************************************************)
EXTENDS Integers, Sequences, FiniteSets, FiniteSetsExt, Functions

CONSTANTS
    Phone,         \* phones of the runner
    Products,      \* number of products
    Keywords,      \* number of candidate keywords of each product, in order
    Short,         \* what shorten_keyword makes of each: a candidate, or 0
    Catalogue,     \* products whose tasks carry a compare_id
    FailLimit,     \* 3 misses
    HitCap,        \* max_hits_per_item, 100
    KwCap,         \* 10 hits of one keyword
    ReleaseAge,    \* 2 hours
    LogAge,        \* 4 hours
    Lookback,      \* 30 cycles
    ExcludeCap,    \* 10 products
    Permanent,     \* graduated_mids.json and --exclude-mids
    TopExcluded,   \* SERP_TOP_EXCLUDED_MIDS
    MaxAge,        \* bound: ages stop here
    MaxLosses,     \* bound: results lost in a day
    MaxNights,     \* bound: midnights
    MaxKills       \* bound: times main stops

Product == 1 .. Products
Keyword(m) == 1 .. Keywords[m]
Text(m)    == 0 .. Keywords[m]      \* 0: any text that is not a candidate
Free    == -1                       \* no time of quarantine

ASSUME CycleAssumption ==
    /\ Keywords \in [Product -> Nat \ {0}]
    /\ \A m \in Product : Short[m] \in [Keyword(m) -> Text(m)]
    /\ {Products, LogAge, MaxAge, MaxLosses, MaxNights, MaxKills, ExcludeCap} \subseteq Nat
    /\ {FailLimit, HitCap, KwCap, ReleaseAge, Lookback} \subseteq Nat \ {0}
    /\ ReleaseAge <= LogAge /\ LogAge <= MaxAge
    /\ Catalogue \cup Permanent \cup TopExcluded \subseteq Product

VARIABLES
    pc,        \* main: "off", "between" or "run"
    fails,     \* failure_counts, up to FailLimit
    quar,      \* quarantined_mids: age of each quarantine, or Free
    kwHits,    \* kw_success_counts; daily_success_counts are their sums
    task,      \* the task of each phone in this cycle and how it ended
    orphan,    \* the same, for workers that outlived a main, by its number
    file,      \* execution_history of today: successes by product, text
    logs,      \* cycle logs of today, the last Lookback ones
    stale,     \* last_cycle_ymd is not today
    misses,    \* history: misses evaluated since the last success, as fails
    lost,      \* history: successes of today whose result main never got
    nights, kills

memVars  == <<fails, quar, kwHits>>
diskVars == <<file, logs>>
vars == <<pc, memVars, task, orphan, diskVars, stale, misses, lost, nights, kills>>

NoTask  == [mid |-> 0, kw |-> 0, end |-> "none"]
Outcome == {"SUCCESS", "NOT_FOUND", "OTHER"}
Task    == {NoTask} \cup UNION {[mid : {m}, kw : Keyword(m), end : Outcome \cup {"run"}] : m \in Product}

NoHits == [m \in Product |-> [k \in Text(m) |-> 0]]
Hits(counts, m) == SumFunction(counts[m])

-----------------------------------------------------------------------------

\* What one result does to the failure count of m: only a product that was not
\* to be found counts, a success starts again, a catalogue is not counted.
FailsKept(m, n, out) ==           \* wrong: a success does not start again
    IF out = "NOT_FOUND" /\ m \notin Catalogue THEN Min({n + 1, FailLimit}) ELSE n
Failures(m, n, out) ==
    CASE out = "SUCCESS" -> 0
      [] out = "NOT_FOUND" /\ m \notin Catalogue -> Min({n + 1, FailLimit})
      [] OTHER -> n

\* A catalogue is set aside at once, another product at its third miss.
SetsAside(m, n, out) ==
    out = "NOT_FOUND" /\ (m \in Catalogue \/ Failures(m, n, out) >= FailLimit)

\* The time of quarantine after a result evaluated `age' ago.
Aside(q, m, n, out, age) ==
    IF out = "SUCCESS" THEN Free ELSE IF SetsAside(m, n, out) THEN age ELSE q

\* load_recent_failure_history: the logs of today.
FromLogs ==
    LET recall(k, log) ==
            [n |-> [m \in Product |-> Failures(m, k.n[m], log.res[m])],
             q |-> [m \in Product |-> Aside(k.q[m], m, k.n[m], log.res[m], log.age)]]
        known[i \in 0 .. Len(logs)] ==
            IF i = 0 THEN [n |-> [m \in Product |-> 0], q |-> [m \in Product |-> Free]]
            ELSE recall(known[i - 1], logs[i])
    IN known[Len(logs)]

\* The files it reads.
LatestAndMore(all) ==             \* wrong: one more
    SubSeq(all, Max({1, Len(all) - Lookback}), Len(all))
Latest(all) == SubSeq(all, Max({1, Len(all) - Lookback + 1}), Len(all))

\* How the cycle ended for product m, if its end counts.
Result(m) == LET of == {d \in Phone : task[d].mid = m /\ task[d].end # "OTHER"}
             IN IF of = {} THEN "none" ELSE task[CHOOSE d \in of : TRUE].end

\* The products a quarantine, or a list, keeps out; of more than ExcludeCap the
\* latest quarantines, for which the lists have no time at all.
Since(q, m) == IF q[m] = Free THEN MaxAge + 1 ELSE q[m]
Kept(S, q) ==
    IF Cardinality(S) <= ExcludeCap THEN {S}
    ELSE {T \in kSubset(ExcludeCap, S) : \A x \in T, y \in S \ T : Since(q, x) <= Since(q, y)}

\* Products that had their hits of the day are kept out in any case.
CappedAbove(counts) == {m \in Product : Hits(counts, m) > HitCap}      \* wrong: >
Capped(counts)      == {m \in Product : Hits(counts, m) >= HitCap}

Exclusions(q, counts) ==
    {T \cup Capped(counts) \cup TopExcluded :
        T \in Kept({m \in Product : q[m] # Free /\ q[m] < LogAge} \cup Permanent, q)}

\* build_cycle_tasks: the keyword the server chose, or the first candidate that
\* has hits left, or none.  The server gives a product to one phone only, so no
\* other task of the cycle counts.
Rolled(counts, m, k) ==
    LET left == {c \in Keyword(m) : counts[m][c] < KwCap}
    IN IF k \in left THEN k ELSE IF left = {} THEN 0 ELSE Min(left)

\* The texts a worker searches for: the keyword, shortened, and, when there is
\* one, the first candidate that is another text, as it is.
First(t)    == Short[t.mid][t.kw]
Searched(t) == LET other == Keyword(t.mid) \ {First(t)}
               IN {First(t)} \cup (IF other = {} THEN {} ELSE {Min(other)})

-----------------------------------------------------------------------------

\* The start of a cycle: a new day, the release of quarantines, the network
\* gate, and the request for tasks.
ReloadedNever == kwHits           \* wrong: yesterday's hits are kept
Reloaded == IF stale THEN file ELSE kwHits
Released == [m \in Product |-> IF stale \/ quar[m] >= ReleaseAge THEN Free ELSE quar[m]]

\* The gate has failed three times, or there is nothing to do: another try later.
CycleSkippedBefore ==             \* wrong: the gate comes before the release
    /\ pc = "between"
    /\ kwHits' = Reloaded
    /\ stale' = FALSE
    /\ quar' = IF stale THEN Released ELSE quar
    /\ UNCHANGED <<pc, fails, task, orphan, diskVars, misses, lost, nights, kills>>
CycleSkipped ==
    /\ pc = "between"
    /\ kwHits' = Reloaded
    /\ quar' = Released
    /\ stale' = FALSE
    /\ UNCHANGED <<pc, fails, task, orphan, diskVars, misses, lost, nights, kills>>

CycleBegins ==
    /\ pc = "between"
    /\ kwHits' = Reloaded
    /\ quar' = Released
    /\ stale' = FALSE
    /\ \E out \in Exclusions(Released, Reloaded) :
       \E given \in [Phone -> {t \in Task : t.mid \notin out /\ t.end \in {"none", "run"}}] :
          /\ \A d, e \in Phone : d # e /\ given[d] # NoTask => given[d].mid # given[e].mid
          /\ LET todo(t) == IF t = NoTask THEN NoTask
                            ELSE LET k == Rolled(Reloaded, t.mid, t.kw)
                                 IN IF k = 0 THEN NoTask ELSE [t EXCEPT !.kw = k]
             IN task' = [d \in Phone |-> todo(given[d])]
    /\ \E d \in Phone : task'[d] # NoTask
    /\ pc' = "run"
    /\ UNCHANGED <<fails, orphan, diskVars, misses, lost, nights, kills>>

\* A worker's work ends; a success is in the history before main knows of it,
\* with the text that was searched for last.
Ends(t, out) ==
    /\ t.end = "run"
    /\ IF out = "SUCCESS"
       THEN \E k \in Searched(t) : file' = [file EXCEPT ![t.mid][k] = @ + 1]
       ELSE UNCHANGED file

WorkerEnds(d) ==
    /\ \E out \in Outcome :
          /\ Ends(task[d], out)
          /\ task' = [task EXCEPT ![d].end = out]
    /\ UNCHANGED <<pc, memVars, orphan, logs, stale, misses, lost, nights, kills>>

\* A worker dies or raises after its line of history, or another one breaks the
\* pool: main's result names no product.  (Before the line it is an "OTHER".)
WorkerBreaks(d) ==
    /\ Ends(task[d], "SUCCESS")
    /\ SumFunction(lost) < MaxLosses                 \* bound
    /\ lost' = [lost EXCEPT ![task[d].mid] = @ + 1]
    /\ task' = [task EXCEPT ![d].end = "OTHER"]
    /\ UNCHANGED <<pc, memVars, orphan, logs, stale, misses, nights, kills>>

OrphanEnds(n, d) ==
    /\ \E out \in Outcome : Ends(orphan[n][d], out)
    /\ orphan' = [orphan EXCEPT ![n][d] = NoTask]
    /\ UNCHANGED <<pc, memVars, task, logs, stale, misses, lost, nights, kills>>

\* All workers ended: main evaluates the results and writes the cycle log, into
\* the directory of the day on which the cycle began.
CycleEnds ==
    /\ pc = "run"
    /\ \A d \in Phone : task[d].end # "run"
    /\ fails' = [m \in Product |-> Failures(m, fails[m], Result(m))]
    /\ quar' = [m \in Product |->
                   IF quar[m] # Free /\ Result(m) # "SUCCESS" THEN quar[m]
                   ELSE Aside(quar[m], m, fails[m], Result(m), 0)]
    /\ kwHits' = [m \in Product |-> [k \in Text(m) |-> kwHits[m][k] +
                     Cardinality({d \in Phone : task[d] = [mid |-> m, kw |-> k, end |-> "SUCCESS"]})]]
    /\ logs' = IF stale THEN logs
               ELSE Latest(Append(logs, [age |-> 0, res |-> [m \in Product |-> Result(m)]]))
    /\ misses' = [m \in Product |-> CASE Result(m) = "SUCCESS"   -> 0
                                      [] Result(m) = "NOT_FOUND" -> Min({misses[m] + 1, FailLimit})
                                      [] OTHER                   -> misses[m]]
    /\ task' = [d \in Phone |-> NoTask]
    /\ pc' = "between"
    /\ UNCHANGED <<orphan, file, stale, lost, nights, kills>>

-----------------------------------------------------------------------------

Older(q) == IF q = Free \/ q = MaxAge THEN q ELSE q + 1

\* Logs of four hours ago, the first ones, are not read any more.
Recent(log) == log.age < LogAge

\* Two hours pass.
Tick ==
    /\ quar' = [m \in Product |-> Older(quar[m])]
    /\ LET aged == [i \in DOMAIN logs |-> [logs[i] EXCEPT !.age = @ + 1]]
           past == {i \in DOMAIN logs : ~ Recent(aged[i])}
       IN logs' = SubSeq(aged, Max({0} \cup past) + 1, Len(logs))
    /\ UNCHANGED <<pc, fails, kwHits, task, orphan, file, stale, misses, lost, nights, kills>>

\* A new date: new log files.
Midnight ==
    /\ nights < MaxNights                           \* bound
    /\ nights' = nights + 1
    /\ stale' = (pc # "off")
    /\ file' = NoHits
    /\ lost' = [m \in Product |-> 0]
    /\ logs' = <<>>
    /\ UNCHANGED <<pc, memVars, task, orphan, misses, kills>>

\* main is stopped or killed; its workers finish.
MainStops ==
    /\ pc # "off"
    /\ kills < MaxKills                             \* bound
    /\ kills' = kills + 1
    /\ pc' = "off"
    /\ orphan' = [orphan EXCEPT ![kills + 1] =
                     [d \in Phone |-> IF task[d].end = "run" THEN task[d] ELSE NoTask]]
    /\ task' = [d \in Phone |-> NoTask]
    /\ fails' = [m \in Product |-> 0]
    /\ quar' = [m \in Product |-> Free]
    /\ kwHits' = NoHits
    /\ stale' = FALSE
    /\ UNCHANGED <<diskVars, misses, lost, nights>>

MainStarts ==
    /\ pc = "off"
    /\ pc' = "between"
    /\ fails' = FromLogs.n
    /\ quar' = FromLogs.q
    /\ kwHits' = file
    /\ UNCHANGED <<task, orphan, diskVars, stale, misses, lost, nights, kills>>

Init ==
    /\ pc = "off"
    /\ fails = [m \in Product |-> 0] /\ misses = fails /\ lost = fails
    /\ quar = [m \in Product |-> Free]
    /\ kwHits = NoHits /\ file = NoHits
    /\ task = [d \in Phone |-> NoTask]
    /\ orphan = [n \in 1 .. MaxKills |-> task]
    /\ logs = <<>>
    /\ stale = FALSE
    /\ nights = 0 /\ kills = 0

Next ==
    \/ MainStarts \/ CycleSkipped \/ CycleBegins \/ CycleEnds
    \/ \E d \in Phone : \/ WorkerEnds(d) \/ WorkerBreaks(d)
                        \/ \E n \in 1 .. MaxKills : OrphanEnds(n, d)
    \/ Tick \/ Midnight \/ MainStops

Spec == Init /\ [][Next]_vars

\* main's loop goes on while it runs, at least by cycles that are skipped, and so do
\* its workers and the clock.
Fairness == /\ WF_vars(Tick)
            /\ WF_vars(CycleSkipped)
            /\ WF_vars(CycleEnds)
            /\ \A d \in Phone : WF_vars(WorkerEnds(d))

FairSpec == Spec /\ Fairness

-----------------------------------------------------------------------------

\* Types of main's memory, of the tasks and of the files.
TypeOK ==
    /\ pc \in {"off", "between", "run"}
    /\ fails \in [Product -> 0 .. FailLimit]
    /\ quar \in [Product -> {Free} \cup 0 .. MaxAge]
    /\ \A m \in Product : kwHits[m] \in [Text(m) -> Nat]
    /\ \A m \in Product : file[m] \in [Text(m) -> Nat]
    /\ lost \in [Product -> Nat]
    /\ task \in [Phone -> Task] /\ orphan \in [1 .. MaxKills -> [Phone -> Task]]
    /\ stale \in BOOLEAN
    /\ Len(logs) <= Lookback
    /\ \A i \in DOMAIN logs : /\ Recent(logs[i])
                              /\ logs[i].res \in [Product -> {"SUCCESS", "NOT_FOUND", "none"}]

\* A product is set aside only for what it did: it missed FailLimit times, a
\* catalogue once, since its last success, counted over cycles, midnights and
\* restarts, whether main saw the misses itself or read them in the logs.
QuarantineIsEarned ==
    \A m \in Product : quar[m] # Free => misses[m] >= (IF m \in Catalogue THEN 1 ELSE FailLimit)

\* The hits main counts are the successes the workers wrote today, but for those
\* whose cycle is not evaluated, also after midnight and after a restart, and
\* whatever texts they are written under.  What may be missing are hits of
\* workers that outlived their main, and hits of which main got no result.
CountsAgreeWithFile ==
    pc # "off" /\ ~stale =>
        \A m \in Product :
           LET fresh == Cardinality({d \in Phone : task[d].mid = m /\ task[d].end = "SUCCESS"})
           IN /\ Hits(kwHits, m) + fresh <= Hits(file, m)
              /\ kills = 0 => Hits(kwHits, m) + fresh + lost[m] >= Hits(file, m)

\* The successes of a day stay within the cap of the runner, but for those of
\* workers that outlived their main, and those of which main got no result.
DailyCapHolds ==
    \A m \in Product : Hits(file, m) <= HitCap + kills + lost[m]

\* No quarantine is for ever, whatever the network gate does: time and again each
\* product has none.
QuarantineEnds == \A m \in Product : []<>(quar[m] = Free)

=============================================================================
