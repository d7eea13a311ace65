------------------------------ MODULE Campaign ------------------------------
(***************************************************************************)
(* A campaign of run.py: main chooses the products and keywords itself,    *)
(* counts the hits of each keyword over cycles and days until all have     *)
(* their goal, and after a restart adds up the newest baseline file and    *)
(* today's history, which the workers append.                              *)
(*                                                                         *)
(* A hit with a rank is recorded twice, by main under the time of its      *)
(* evaluation and by the worker under the second its work began; what the  *)
(* restore knows again are the lines of the seconds of entries it loaded   *)
(* before.  Phones start half a second apart, so that lines of a keyword   *)
(* may share a second: once one with a rank is an entry, the others of its *)
(* second look known.  A worker that breaks down after its line, or whose  *)
(* pool does, leaves main a result without a keyword; and a line under a   *)
(* text that shorten_keyword made is not one of the campaign's keywords.   *)
(***************************************************************************)
EXTENDS Integers, FiniteSets

CONSTANTS
    Phones,      \* number of phones, in order
    Products,    \* number of products of a fleet campaign
    Keywords,    \* number of keywords of each product, in order
    Cut,         \* keywords that shorten_keyword changes, into no other one
    Goal,        \* hits_per_kw
    Period,      \* cycle numbers matter up to this modulus
    MaxHits,     \* bound: hits of a keyword
    MaxNights,   \* bound: midnights
    MaxKills     \* bound: times main stops

ASSUME CampaignAssumption ==
    /\ {Phones, Products, Keywords, Goal, Period} \subseteq Nat \ {0}
    /\ {MaxHits, MaxNights, MaxKills} \subseteq Nat
    /\ Cut \subseteq 1 .. Keywords
    /\ \A n \in 1 .. Keywords : Period % n = 0

Phone   == 1 .. Phones
Key     == (1 .. Products) \X (1 .. Keywords)

VARIABLES
    mode,      \* "single" or "fleet": the shape of the campaign file
    pc,        \* main: "off", "between", "run", "save", "write" or "finished"
    cycle,     \* number of the cycle, modulo Period
    count,     \* campaign_kw_counts
    own,       \* campaign_rank_history: entries with main's time, or of another day
    seen,      \* campaign_rank_history: entries with the time of a line of today
    known,     \* lines of today that have the time of such an entry
    saving,    \* the product whose baseline is next
    base,      \* what the newest baseline file of each product is read as
    hits,      \* execution_history of today: hits with a rank, hits without, and
               \* those of these whose second a later hit with a rank has, too
    task,      \* keyword of each phone in this cycle and how it ended
    orphan,    \* keys of workers that outlived a main, by its number
    truth,     \* history: hits of each keyword
    lost,      \* history: hits since main started, and today, without a result
    fresh,     \* history: main was started with --fresh-campaign
    nights, kills

memVars   == <<cycle, count, own, seen, known, saving>>
boundVars == <<nights, kills>>
vars == <<mode, pc, memVars, base, hits, task, orphan, truth, lost, fresh, boundVars>>

Zero    == [k \in Key |-> 0]
Nothing == [own |-> Zero, seen |-> Zero, known |-> Zero]    \* no file, or cut off
NoLine  == [ranked |-> 0, plain |-> 0, veiled |-> 0]
NoKey   == <<0, 0>>
NoTask  == [key |-> NoKey, end |-> "none"]
Ends    == {"run", "ranked", "plain", "miss"}

Used == IF mode = "single" THEN {1} ELSE 1 .. Products
Of(p) == {k \in Key : k[1] = p}

-----------------------------------------------------------------------------

\* load_today_campaign_progress: the baseline's entries, then the lines of today
\* it does not contain, of which those with a rank become entries.
Today(k) == hits[k].ranked + hits[k].plain + hits[k].veiled

RestoredTwice(k) ==               \* wrong: lines of the baseline are counted again
    LET f == base[k[1]] IN f.own[k] + f.seen[k] + Today(k)
RestoredToday(k) == Today(k)      \* wrong: the baseline is not added
Restored(k) == LET f == base[k[1]] IN f.own[k] + f.seen[k] + (Today(k) - f.known[k])

StartsAfresh ==
    /\ count' = Zero /\ own' = Zero /\ seen' = Zero /\ known' = Zero
    /\ fresh' = TRUE

Restores ==
    /\ count' = [k \in Key |-> IF k[1] \in Used THEN Restored(k) ELSE 0]
    /\ own'   = [k \in Key |-> IF k[1] \in Used THEN base[k[1]].own[k] ELSE 0]
    /\ seen'  = [k \in Key |-> IF k[1] \in Used THEN hits[k].ranked ELSE 0]
    /\ known' = [k \in Key |-> IF k[1] \in Used THEN hits[k].ranked + hits[k].veiled ELSE 0]
    /\ fresh' = FALSE

MainStarts ==
    /\ pc \in {"off", "finished"}
    /\ pc' = "between"
    /\ cycle' = 0
    /\ lost' = 0
    /\ StartsAfresh \/ Restores
    /\ UNCHANGED <<mode, saving, base, hits, task, orphan, truth, boundVars>>

-----------------------------------------------------------------------------

Unfinished(p) == {k \in Of(p) : count[k] < Goal}

\* The i-th of a set of keywords in the campaign's order.
Nth(S, i) == CHOOSE k \in S : Cardinality({j \in S : j[2] < k[2]}) = i - 1

\* build_cycle_tasks.  A single product's open keywords are dealt to the phones;
\* in a fleet each phone has a product, whose open keywords take turns.
DealtFirst(d) ==                  \* wrong: always the first open keyword
    IF mode = "single" THEN Nth(Unfinished(1), ((d - 1) % Cardinality(Unfinished(1))) + 1)
    ELSE LET p    == ((d - 1) % Products) + 1
             open == IF Unfinished(p) = {} THEN Of(p) ELSE Unfinished(p)
         IN Nth(open, 1)
Dealt(d) ==
    IF mode = "single" THEN Nth(Unfinished(1), ((d - 1) % Cardinality(Unfinished(1))) + 1)
    ELSE LET p    == ((d - 1) % Products) + 1
             open == IF Unfinished(p) = {} THEN Of(p) ELSE Unfinished(p)
         IN Nth(open, (cycle % Cardinality(open)) + 1)

\* The gate fails; the cycle has had its number.
CycleSkipped ==
    /\ pc = "between"
    /\ cycle' = (cycle + 1) % Period
    /\ UNCHANGED <<mode, pc, count, own, seen, known, saving, base, hits, task, orphan, truth,
                   lost, fresh, boundVars>>

CycleBegins ==
    /\ pc = "between"
    /\ IF mode = "single" /\ Unfinished(1) = {}
       THEN /\ pc' = "finished"
            /\ UNCHANGED task
       ELSE /\ pc' = "run"
            /\ task' = [d \in Phone |-> [key |-> Dealt(d), end |-> "run"]]
    /\ cycle' = (cycle + 1) % Period
    /\ UNCHANGED <<mode, count, own, seen, known, saving, base, hits, orphan, truth, lost,
                   fresh, boundVars>>

\* A worker's work ends; save_task_history adds a line for a hit.  No restore
\* counts it under another text than the keyword, or when a hit with a rank of
\* the same second is there already.  It may itself veil such hits without one.
Logs(k, out) ==
    IF out = "miss" THEN UNCHANGED <<hits, truth>>
    ELSE /\ truth[k] < MaxHits                      \* bound
         /\ truth' = [truth EXCEPT ![k] = @ + 1]
         /\ \/ /\ k[2] \in Cut \/ hits[k].ranked > 0
               /\ UNCHANGED hits
            \/ /\ k[2] \notin Cut /\ out = "plain"
               /\ hits' = [hits EXCEPT ![k].plain = @ + 1]
            \/ /\ k[2] \notin Cut /\ out = "ranked"
               /\ \E n \in 0 .. hits[k].plain :
                     hits' = [hits EXCEPT ![k] = [ranked |-> @.ranked + 1, plain |-> @.plain - n,
                                                  veiled |-> @.veiled + n]]

WorkerEnds(d) ==
    /\ task[d].end = "run"
    /\ \E out \in Ends \ {"run"} :
          /\ Logs(task[d].key, out)
          /\ task' = [task EXCEPT ![d].end = out]
    /\ UNCHANGED <<mode, pc, memVars, base, orphan, lost, fresh, boundVars>>

\* A worker dies or raises after its line of history, or another one breaks the
\* pool: to main it is a miss.
WorkerBreaks(d) ==
    /\ task[d].end = "run"
    /\ \E out \in {"ranked", "plain"} : Logs(task[d].key, out)
    /\ task' = [task EXCEPT ![d].end = "miss"]
    /\ lost' = lost + 1
    /\ UNCHANGED <<mode, pc, memVars, base, orphan, fresh, boundVars>>

OrphanEnds(n, d) ==
    /\ orphan[n][d] # NoKey
    /\ \E out \in Ends \ {"run"} :
          /\ Logs(orphan[n][d], out)
          /\ lost' = IF out = "miss" THEN lost ELSE lost + 1
    /\ orphan' = [orphan EXCEPT ![n][d] = NoKey]
    /\ UNCHANGED <<mode, pc, memVars, base, task, fresh, boundVars>>

\* The evaluation: every hit counts, one with a rank becomes an entry.
Ended(k, outs) == Cardinality({d \in Phone : task[d].key = k /\ task[d].end \in outs})

EvaluatesRanked ==                \* wrong: a hit without a rank does not count
    /\ pc = "run"
    /\ \A d \in Phone : task[d].end # "run"
    /\ count' = [k \in Key |-> count[k] + Ended(k, {"ranked"})]
    /\ own' = [k \in Key |-> own[k] + Ended(k, {"ranked"})]
    /\ task' = [d \in Phone |-> NoTask]
    /\ saving' = 1
    /\ pc' = "save"
    /\ UNCHANGED <<mode, cycle, seen, known, base, hits, orphan, truth, lost, fresh, boundVars>>
Evaluates ==
    /\ pc = "run"
    /\ \A d \in Phone : task[d].end # "run"
    /\ count' = [k \in Key |-> count[k] + Ended(k, {"ranked", "plain"})]
    /\ own' = [k \in Key |-> own[k] + Ended(k, {"ranked"})]
    /\ task' = [d \in Phone |-> NoTask]
    /\ saving' = 1
    /\ pc' = "save"
    /\ UNCHANGED <<mode, cycle, seen, known, base, hits, orphan, truth, lost, fresh, boundVars>>

\* save_campaign_baseline: open(fpath, "w") empties the file.  The file has the
\* date on which the cycle began, so the newest file is always the last written.
Opens ==
    /\ pc = "save"
    /\ base' = [base EXCEPT ![saving] = Nothing]
    /\ pc' = "write"
    /\ UNCHANGED <<mode, memVars, hits, task, orphan, truth, lost, fresh, boundVars>>

Writes ==
    /\ pc = "write"
    /\ base' = [base EXCEPT ![saving] = [own |-> own, seen |-> seen, known |-> known]]
    /\ saving' = saving + 1
    /\ pc' = IF saving + 1 \in Used THEN "save"
             ELSE IF \A p \in Used : Unfinished(p) = {} THEN "finished" ELSE "between"
    /\ UNCHANGED <<mode, cycle, count, own, seen, known, hits, task, orphan, truth, lost, fresh,
                   boundVars>>

-----------------------------------------------------------------------------

\* A new day has a new history; its lines have other times than the old ones'.
AgedNot(r) == r                   \* wrong: they may have the same time
Aged(r) == [own |-> [k \in Key |-> r.own[k] + r.seen[k]], seen |-> Zero, known |-> Zero]

Midnight ==
    /\ nights < MaxNights                           \* bound
    /\ nights' = nights + 1
    /\ own' = [k \in Key |-> own[k] + seen[k]]
    /\ seen' = Zero /\ known' = Zero
    /\ lost' = 0
    /\ base' = [p \in 1 .. Products |-> Aged(base[p])]
    /\ hits' = [k \in Key |-> NoLine]
    /\ UNCHANGED <<mode, pc, cycle, count, saving, task, orphan, truth, fresh, kills>>

\* main is stopped or killed; its workers finish.
MainStops ==
    /\ pc \notin {"off", "finished"}
    /\ kills < MaxKills                             \* bound
    /\ kills' = kills + 1
    /\ pc' = "off"
    /\ orphan' = [orphan EXCEPT ![kills + 1] =
                     [d \in Phone |-> IF task[d].end = "run" THEN task[d].key ELSE NoKey]]
    /\ task' = [d \in Phone |-> NoTask]
    /\ UNCHANGED <<mode, memVars, base, hits, truth, lost, fresh, nights>>

Init ==
    /\ mode \in {"single", "fleet"}
    /\ pc = "off"
    /\ cycle = 0
    /\ count = Zero /\ own = Zero /\ seen = Zero /\ known = Zero
    /\ saving = 1
    /\ base = [p \in 1 .. Products |-> Nothing]
    /\ hits = [k \in Key |-> NoLine]
    /\ task = [d \in Phone |-> NoTask]
    /\ orphan = [n \in 1 .. MaxKills |-> [d \in Phone |-> NoKey]]
    /\ truth = Zero
    /\ lost = 0
    /\ fresh = FALSE
    /\ nights = 0 /\ kills = 0

Next ==
    \/ MainStarts \/ CycleSkipped \/ CycleBegins \/ Evaluates \/ Opens \/ Writes
    \/ \E d \in Phone : \/ WorkerEnds(d) \/ WorkerBreaks(d)
                        \/ \E n \in 1 .. MaxKills : OrphanEnds(n, d)
    \/ Midnight \/ MainStops

Spec == Init /\ [][Next]_vars

\* main's loop goes on while it runs, and so do its workers.
Fairness == /\ WF_vars(CycleBegins)
            /\ WF_vars(Evaluates \/ Opens \/ Writes)
            /\ \A d \in Phone : WF_vars(WorkerEnds(d))

FairSpec == Spec /\ Fairness

-----------------------------------------------------------------------------

\* Types of the counts, the entries, the files and the tasks; entries with the
\* time of a line of today belong to lines with a rank, and what else is known
\* by their times are lines whose second they share.
Fit(s, n, k) == s[k] <= hits[k].ranked /\ s[k] <= n[k] /\ n[k] <= s[k] + hits[k].veiled

TypeOK ==
    /\ mode \in {"single", "fleet"}
    /\ pc \in {"off", "between", "run", "save", "write", "finished"}
    /\ cycle \in 0 .. (Period - 1)
    /\ count \in [Key -> Nat] /\ own \in [Key -> Nat] /\ seen \in [Key -> Nat] /\ known \in [Key -> Nat]
    /\ saving \in 1 .. (Products + 1)
    /\ base \in [1 .. Products -> [own : [Key -> Nat], seen : [Key -> Nat], known : [Key -> Nat]]]
    /\ hits \in [Key -> [ranked : Nat, plain : Nat, veiled : Nat]]
    /\ \A k \in Key : Fit(seen, known, k) /\ Fit(base[k[1]].seen, base[k[1]].known, k)
    /\ truth \in [Key -> Nat] /\ lost \in Nat
    /\ task \in [Phone -> {NoTask} \cup [key : Key, end : Ends]]
    /\ orphan \in [1 .. MaxKills -> [Phone -> {NoKey} \cup Key]]

\* A hit is counted twice at most, over any number of restarts and days, though
\* every restart adds up what main and the workers recorded of the same hit: a
\* campaign that is finished has at least half of what it was to do.
CountedAtMostTwice == \A k \in Key : count[k] <= 2 * truth[k]

\* What ended today and was evaluated is counted, also after a restart and with a
\* broken baseline, when it is in the history under its keyword and its second
\* has no line with a rank but itself.  What may be missing are hits of workers
\* that outlived their main, and hits of which main got no result.
TodayIsCounted ==
    pc # "off" /\ ~fresh =>
        \A k \in Key : k[1] \in Used =>
            hits[k].ranked + hits[k].plain <= count[k] + Ended(k, {"ranked", "plain"}) + lost

\* What a restart would restore from the baseline is counted already: saved hits
\* stay over midnights, restarts and files that are cut off.
SavedHitsStay ==
    pc # "off" /\ ~fresh =>
        \A k \in Key : k[1] \in Used => base[k[1]].own[k] + base[k[1]].seen[k] <= count[k]

\* "매 회차마다 10개 키워드를 골고루 순환": in a fleet that has a phone for each
\* product, no open keyword waits for ever for its turn, though the number of
\* open keywords changes; unless the gate fails again and again, which uses up
\* cycle numbers and may always skip the same keyword's.
KeywordsTakeTurns ==
    mode = "fleet" /\ Products <= Phones =>
        \/ []<><<CycleSkipped>>_vars
        \/ \A k \in Key : []<>(\/ pc \in {"off", "finished"} \/ count[k] >= Goal
                               \/ \E d \in Phone : task[d].key = k)

=============================================================================
