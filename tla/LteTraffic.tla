----------------------------- MODULE LteTraffic -----------------------------
(***************************************************************************)
(* What the LTE dongle carried on a day.  The runner reads the modem's     *)
(* counters before each change of the address and sends them to the server *)
(* afterwards; the server keeps every report and a sum of the day, which a *)
(* report brings up to date and a query rebuilds from the reports.         *)
(*                                                                         *)
(* A report is two transactions, since CREATE TABLE commits what was done  *)
(* before: its line of the log is there when the row of the day is locked. *)
(* A query reads the reports without a lock and writes what it found later.*)
(***************************************************************************)
EXTENDS Integers, Sequences, FiniteSets, FiniteSetsExt, SequencesExt

CONSTANTS
    Attempts,     \* sendings of a report
    MaxBytes,     \* bound: the modem's counters of its life, together
    MaxLog,       \* bound: reports of a day
    MaxNights,    \* bound: midnights
    MaxResets     \* bound: resets of the modem's counters

ASSUME LteAssumption ==
    /\ {Attempts, MaxBytes} \subseteq Nat \ {0}
    /\ {MaxLog, MaxNights, MaxResets} \subseteq Nat

Dir  == {"up", "down"}
Zero == [d \in Dir |-> 0]
Plus(a, b)  == [d \in Dir |-> a[d] + b[d]]
Minus(a, b) == [d \in Dir |-> a[d] - b[d]]

VARIABLES
    cur, total,   \* the modem's counters: since it connected, of its life
    step,         \* runner: "work", "read" (the counters), "on" (connected anew), or
                  \* sends a report: "new", "logged" or "again" (logged once, resent)
    out, left,    \* the report under way, and its sendings left
    log,          \* lte_modem_logs of today
    due,          \* reports of the log that the row of the day is to count
    row,          \* today's row of lte_daily_traffic, or NoRow
    query,        \* what an open query has read, or <<>>
    allowed,      \* history: bytes since midnight, and those no report had told then
    since,        \* history: bytes since the counters of out were read
    marks,        \* history: what happened today that the sums cannot know
    nights, resets

vars == <<cur, total, step, out, left, log, due, row, query, allowed, since, marks,
          nights, resets>>

\* "over": a session was reported twice, or a report had zeros; "gap": bytes no
\* report has, or no first row; "late": a row was to be changed while another
\* report came, or a day began; "torn": a query wrote a report that is due; "stale":
\* a report is not counted, since a query had not read it, or by an error.
Marks == {"over", "gap", "late", "torn", "stale"}

Report == [session : [Dir -> 0 .. MaxBytes], total : [Dir -> 0 .. MaxBytes]]
Blank  == [session |-> Zero, total |-> Zero]
NoRow  == [first |-> Zero, daily |-> Zero, count |-> 0]

\* The sum of the sessions of some reports.
Sessions(reports) ==
    [d \in Dir |-> MapThenSumSet(LAMBDA i : reports[i].session[d], DOMAIN reports)]

-----------------------------------------------------------------------------

\* Phones use the network.
Traffic(d) ==
    /\ total["up"] + total["down"] < MaxBytes                    \* bound
    /\ cur' = [cur EXCEPT ![d] = @ + 1]
    /\ total' = [total EXCEPT ![d] = @ + 1]
    /\ allowed' = [allowed EXCEPT ![d] = @ + 1]
    /\ since' = IF step = "work" THEN since ELSE [since EXCEPT ![d] = @ + 1]
    /\ UNCHANGED <<step, out, left, log, due, row, query, marks, nights, resets>>

\* fast_toggle_ip, after the workers are done: the counters are read, or if the
\* modem does not answer, the report has zeros.
Sends == step' = "new" /\ left' = Attempts

ToggleIp ==
    /\ step = "work"
    /\ Len(log) < MaxLog                                         \* bound
    /\ \/ /\ out' = [session |-> cur, total |-> total]
          /\ marks' = IF total["down"] = 0 THEN marks \cup {"over"} ELSE marks
          /\ step' = "read" /\ UNCHANGED left
       \/ /\ out' = Blank
          /\ marks' = marks \cup {"over"}
          /\ Sends
    /\ UNCHANGED <<cur, total, log, due, row, query, allowed, since, nights, resets>>

\* The modem connects anew: the session ends, with what came after the reading.
Reconnects ==
    /\ step = "read"
    /\ step' = "on"
    /\ cur' = Zero
    /\ marks' = IF since = Zero THEN marks ELSE marks \cup {"gap"}
    /\ UNCHANGED <<total, out, left, log, due, row, query, allowed, since, nights, resets>>

\* The toggle fails before, and the session that is reported goes on.
ToggleFails ==
    /\ step = "read"
    /\ marks' = marks \cup {"over"}
    /\ Sends
    /\ UNCHANGED <<cur, total, out, log, due, row, query, allowed, since, nights, resets>>

\* The address is another one, or the rest fails; or the address is the same, and
\* the modem connects once more, which ends a session that no report has.
ToggleEnds ==
    /\ step = "on"
    /\ \/ UNCHANGED <<cur, marks>>
       \/ cur' = Zero /\ marks' = IF cur = Zero THEN marks ELSE marks \cup {"gap"}
    /\ Sends
    /\ UNCHANGED <<total, out, log, due, row, query, allowed, since, nights, resets>>

\* _update_daily_traffic_record: the first report of the day counts its session,
\* later ones what the modem's counter has grown since the first, or their session
\* if it went back.
GrownBelow(r, d) == r.total[d] - row.first[d]        \* wrong: it is not seen to go back
Grown(r, d) == IF r.total[d] >= row.first[d] THEN r.total[d] - row.first[d]
                                             ELSE row.daily[d] + r.session[d]
FirstAnew(r) == r.total                              \* wrong: replaced by each report
First(r) == IF row = NoRow THEN r.total ELSE row.first

Recorded(r) == [first |-> First(r),
                daily |-> IF row = NoRow THEN r.session ELSE [d \in Dir |-> Grown(r, d)],
                count |-> row.count + 1]

\* record_lte_log: the line of the log is committed by the CREATE TABLE after it.
Logs ==
    /\ step \in {"new", "again"}
    /\ Len(log) < MaxLog                                         \* bound
    /\ log' = Append(log, out)
    /\ due' = Append(due, out)
    /\ step' = "logged"
    /\ marks' = marks \cup (IF step = "again" THEN {"over"} ELSE {})
                      \cup (IF due = <<>> THEN {} ELSE {"late"})
    /\ UNCHANGED <<cur, total, out, left, row, query, allowed, since, nights, resets>>

Done == step' = "work" /\ out' = Blank /\ left' = 0 /\ since' = Zero

\* The row of the day is locked, changed and committed; the client is answered, if
\* it still waits and the answer is not lost.
Updates(i) ==
    /\ row' = Recorded(due[i])
    /\ due' = RemoveAt(due, i)
    /\ \/ step = "logged" /\ due[i] = out /\ Done
       \/ UNCHANGED <<step, out, left, since>>
    /\ UNCHANGED <<cur, total, log, query, allowed, marks, nights, resets>>

\* An error there leaves the log as it is, and the row.
Fails(i) ==
    /\ due' = RemoveAt(due, i)
    /\ marks' = marks \cup {"stale"} \cup (IF row = NoRow THEN {"gap"} ELSE {})
    /\ UNCHANGED <<cur, total, step, out, left, log, row, query, allowed, since, nights, resets>>

\* The sending was lost, or an error or no answer came; the client sends again as
\* often as it may.
NotAnswered ==
    /\ left > 0
    /\ IF left > 1
       THEN /\ left' = left - 1
            /\ step' = IF step = "new" THEN "new" ELSE "again"
            /\ UNCHANGED <<out, since, marks>>
       ELSE /\ Done
            /\ marks' = IF step = "new" THEN marks \cup {"gap"} ELSE marks
    /\ UNCHANGED <<cur, total, log, due, row, query, allowed, nights, resets>>

-----------------------------------------------------------------------------

\* _sync_all_daily_from_logs on the reports a query has read.  The sum is what the
\* counters have grown from the first to the last report that has them, or that of
\* the sessions if a counter went back or both stood still.
Seen(reports) == {i \in DOMAIN reports : reports[i].total["down"] > 0}
FirstSeen(reports) == reports[Min(Seen(reports))]
LastSeen(reports)  == reports[Max(Seen(reports))]

SummedAll(reports) == Plus(Sessions(reports), reports[1].session)    \* wrong: the first counts twice
Summed(reports) ==
    LET f     == FirstSeen(reports).total
        l     == LastSeen(reports).total
        grown == IF \A d \in Dir : l[d] >= f[d] THEN Minus(l, f) ELSE Zero
    IN IF grown = Zero THEN Sessions(reports) ELSE grown

TogglesSeen(reports) == Cardinality(Seen(reports))   \* wrong: without reports of zeros
Toggles(reports) == Len(reports)

Rebuilt(reports) ==
    IF Seen(reports) = {} THEN row
    ELSE [first |-> First(FirstSeen(reports)),
          daily |-> Summed(reports),
          count |-> Toggles(reports)]

QueryReads ==
    /\ query = <<>>
    /\ query' = log
    /\ UNCHANGED <<cur, total, step, out, left, log, due, row, allowed, since, marks,
                   nights, resets>>

\* The marks say if what it has read are the reports counted, those that are due
\* left out.
QueryWrites ==
    /\ query # <<>>
    /\ row' = Rebuilt(query)
    /\ query' = <<>>
    /\ LET n == Len(query) + Len(due)
       IN marks' = IF Seen(query) = {} THEN marks
                   ELSE (marks \ {"torn", "stale"})
                        \cup (IF n > Len(log) THEN {"torn"} ELSE {})
                        \cup (IF n < Len(log) THEN {"stale"} ELSE {})
    /\ UNCHANGED <<cur, total, step, out, left, log, due, allowed, since, nights, resets>>

\* The modem's counters start at zero.
ResetModem ==
    /\ resets < MaxResets                                        \* bound
    /\ resets' = resets + 1
    /\ cur' = Zero /\ total' = Zero
    /\ marks' = marks \cup {"gap"}
    /\ UNCHANGED <<step, out, left, log, due, row, query, allowed, since, nights>>

\* Bytes that no line of the log has, and that the next ones may have.
Untold == CASE step = "work"                  -> cur
            [] step \in {"read", "on", "new"} -> Plus(out.session, since)
            [] OTHER                          -> since

\* A report under way will be one of the new day, and so will a change of the row.
Midnight ==
    /\ nights < MaxNights                                        \* bound
    /\ nights' = nights + 1
    /\ log' = <<>> /\ row' = NoRow /\ query' = <<>>
    /\ allowed' = Untold
    /\ marks' = (IF step = "work" THEN {} ELSE marks \cap {"over", "gap"})
                \cup (IF due = <<>> THEN {} ELSE {"late"})
    /\ UNCHANGED <<cur, total, step, out, left, due, since, resets>>

Init ==
    /\ cur = Zero /\ total = [Zero EXCEPT !["down"] = 1]
    /\ step = "work" /\ out = Blank /\ left = 0
    /\ log = <<>> /\ due = <<>> /\ row = NoRow /\ query = <<>>
    /\ allowed = Zero /\ since = Zero /\ marks = {}
    /\ nights = 0 /\ resets = 0

Next ==
    \/ \E d \in Dir : Traffic(d)
    \/ ToggleIp \/ Reconnects \/ ToggleFails \/ ToggleEnds
    \/ Logs \/ NotAnswered
    \/ \E i \in DOMAIN due : Updates(i) \/ Fails(i)
    \/ QueryReads \/ QueryWrites
    \/ ResetModem \/ Midnight

Spec == Init /\ [][Next]_vars

-----------------------------------------------------------------------------

\* Types of the modem's counters, the runner's report and the server's tables.
TypeOK ==
    /\ cur \in [Dir -> 0 .. MaxBytes] /\ total \in [Dir -> 0 .. MaxBytes]
    /\ step \in {"work", "read", "on", "new", "logged", "again"}
    /\ out \in Report /\ left \in 0 .. Attempts
    /\ \A i \in DOMAIN log : log[i] \in Report
    /\ \A i \in DOMAIN due : due[i] \in Report
    /\ Len(query) <= Len(log)
    /\ row.first \in [Dir -> 0 .. MaxBytes] /\ row.daily \in [Dir -> Nat] /\ row.count \in Nat
    /\ marks \subseteq Marks

\* The day's sum is never more than the day's traffic and what no report had told
\* at midnight, also after resets of the counters, with reports lost, with errors
\* between the log and the row, and whichever of the two ways it was made; unless
\* a report had zeros or told a session twice, a row was changed late, or a query
\* wrote a report whose own change of the row came after it.
NeverMoreThanUsed ==
    marks \cap {"over", "late", "torn"} = {} =>
        \A d \in Dir : row.daily[d] <= allowed[d]

\* On a day without any of the marks, when no report is due, the sum is that of the
\* sessions without the first, by reports and by rebuilding alike; only while the
\* counters stand still, rebuilding gives all of them.
ShortByFirstSession ==
    marks = {} /\ due = <<>> /\ Len(log) >= 2 =>
        row.daily \in {Minus(Sessions(log), log[1].session), Sessions(log)}

\* The toggles counted, with the report that is due, are the reports of the day,
\* retries and zeros included, unless a query wrote other reports than those that
\* are counted, or an error left one out; and however queries and reports come in
\* between, no more than one is counted twice at a time.
CountMatchesLog ==
    "late" \notin marks =>
        /\ row.count + Len(due) <= Len(log) + 1
        /\ marks \cap {"torn", "stale"} = {} => row.count + Len(due) = Len(log)

=============================================================================
