----------------------------- MODULE TaskRunner -----------------------------
(***************************************************************************)
(* The runners (run.py) and the task server, with the HTTP client between  *)
(* them (src/core/api_client.py).                                          *)
(*                                                                         *)
(* A runner asks for a batch, lets one worker process per task work and    *)
(* report, and asks again when all of them have returned.  Every request   *)
(* is sent up to Attempts times.  A request may be lost, and so may its    *)
(* answer: the server has then done its part and the client sends the      *)
(* same request again.  With Delays a request that the client gave up may  *)
(* still reach the server later, at any time.                              *)
(*                                                                         *)
(* A runner is stopped by Ctrl+C, which takes its workers with it, or its  *)
(* main is killed by the watchdog, whose pattern does not match the        *)
(* command line of spawned workers: these go on and report while the next  *)
(* main of the node already hands out tasks for the same phones.           *)
(*                                                                         *)
(* The server's actions are those of TaskServiceV2 and, for the report     *)
(* that falls back to the older path, TaskServiceV1.                       *)
(***************************************************************************)
EXTENDS TaskServiceV2, TaskServiceV1

CONSTANTS
    Node,          \* runners
    Lte,           \* runners in LTE mode, the only ones the watchdog's pattern matches
    PhonesOf,      \* the phones of each runner, as the list it sends
    Attempts,      \* max_retries of the HTTP client
    Exclusions,    \* what a runner may exclude: its local quarantines
    Delays,        \* may an abandoned request still arrive?
    MaxMains,      \* bound: mains of a node, one alive, that have workers at one time
    Endings,       \* the ways a worker's work may end
    SkipFrom       \* 990000: results of task ids from here on are not reported

ASSUME RunnerAssumption ==
    /\ IsFiniteSet(Node) /\ Node # {} /\ Lte \subseteq Node
    /\ Attempts \in Nat \ {0}
    /\ Exclusions \subseteq SUBSET Mid
    /\ Delays \in BOOLEAN
    /\ MaxMains \in Nat \ {0}
    /\ Endings \subseteq Outcome
    /\ SkipFrom \in Nat

\* The phones of a request are all different, and attached to one runner only.
ASSUME PhonesAssumption ==
    /\ \A n \in Node : \E k \in 1 .. Cardinality(Device) :
          /\ PhonesOf[n] \in [1 .. k -> Device]
          /\ \A i, j \in 1 .. k : PhonesOf[n][i] = PhonesOf[n][j] => i = j
    /\ \A n, o \in Node : n # o =>
          \A i \in DOMAIN PhonesOf[n], j \in DOMAIN PhonesOf[o] : PhonesOf[n][i] # PhonesOf[o][j]

VARIABLES
    pc,       \* what each runner does: idle, asking, working
    ask,      \* the request of an asking runner
    life,     \* the number of each node's present main
    job,      \* what the runners know of each task
    late,     \* abandoned requests that may still arrive
    stray     \* history: phones last reported free by a late request or an orphan

runnerVars == <<pc, ask, life, job, late, stray>>
allVars == <<vars, runnerVars>>

\* try counts the sendings, open says that the last one has not been served.
Request == [try : 1 .. Attempts, open : BOOLEAN]
Fresh   == [try |-> 1, open |-> TRUE]
AgainUncounted(r) == [try |-> r.try, open |-> TRUE]     \* wrong: try is not counted
Again(r) == [try |-> r.try + 1, open |-> TRUE]
Served(r) == [r EXCEPT !.open = FALSE]

\* Sendings are left.
LeftInclusive(r) == r.try <= Attempts                   \* wrong: one too many
Left(r) == r.try < Attempts

\* acked: the server's answer to the report arrived.  lost: it never will.
JobState == {"none", "running", "reporting", "fallback", "acked", "lost"}
Active   == {"running", "reporting", "fallback"}
NoJob    == [st |-> "none", node |-> None, life |-> 0, outcome |-> None, req |-> Fresh]

RunnerTypeOK ==
    /\ pc \in [Node -> {"idle", "asking", "working"}]
    \* excluded is that of the last request, of a late one too
    /\ ask \in [Node -> [req : Request, excluded : SUBSET Mid]]
    /\ life \in [Node -> 1 .. MaxMains]
    /\ job \in [TaskId -> [st : JobState, node : Node \cup {None}, life : 0 .. MaxMains,
                           outcome : Outcome \cup {None}, req : Request]]
    /\ late \subseteq ({"report", "fallback"} \X TaskId) \cup ({"ask"} \X Node)
    /\ stray \subseteq Device

\* The worker of a task is gone, its report acknowledged or not.
Gone(j, st) == [j EXCEPT !.st = st, !.life = 0, !.req = Fresh]

\* The worker of task i was started by the main that runs now; if not, and it is
\* active, it is an orphan.
Own(i) == job[i].node \in Node /\ job[i].life = life[job[i].node]

\* The workers that the present main of n waits for.
JobsOf(n) == {i \in TaskId : job[i].node = n /\ job[i].life = life[n] /\ job[i].st \in Active}

\* Giving up request r adds it to the late ones if it may still arrive.
Abandon(r, msg) == late' = IF Delays /\ r.open THEN late \cup {msg} ELSE late

\* Numbers that no living worker of n belongs to.
Free(n) == {k \in 1 .. MaxMains :
              \A i \in TaskId : job[i].node = n /\ job[i].st \in Active => job[i].life # k}

\* The requests under way of the workers of set S.
UnderWay(S) == {<<IF job[i].st = "reporting" THEN "report" ELSE "fallback", i>> :
                  i \in {j \in S : job[j].st \in {"reporting", "fallback"} /\ job[j].req.open}}

\* allocate by n was served: its phones are busy, whoever freed them before.
Busy == stray' = {d \in stray : devices'[d] # "WORKING"}
\* A report of task i was served: a live main's worker, or not.
Freed(i) == stray' = IF Own(i) THEN stray ELSE stray \cup {tasks[i].device}

-----------------------------------------------------------------------------

\* The request of n is over, whatever became of it.
Asked(n) == ask' = [ask EXCEPT ![n].req = Fresh]

\* A new cycle: the runner asks for a batch for all its phones.
Ask(n) ==
    /\ pc[n] = "idle"
    /\ pc' = [pc EXCEPT ![n] = "asking"]
    /\ \E ex \in Exclusions : ask' = [ask EXCEPT ![n] = [req |-> Fresh, excluded |-> ex]]
    /\ UNCHANGED <<vars, life, job, late, stray>>

\* The batch is handed out and its answer arrives: one worker per task starts;
\* with no task the cycle is over.
AskAnswered(n) ==
    /\ pc[n] = "asking" /\ ask[n].req.open
    /\ Allocate(PhonesOf[n], ask[n].excluded)
    /\ LET granted == {i \in TaskId : nextId <= i /\ i < nextId'} IN
         /\ pc' = [pc EXCEPT ![n] = IF granted = {} THEN "idle" ELSE "working"]
         /\ job' = [i \in TaskId |->
              IF i \in granted THEN [NoJob EXCEPT !.st = "running", !.node = n, !.life = life[n]]
              ELSE job[i]]
    /\ Asked(n)
    /\ Busy
    /\ UNCHANGED <<life, late>>

\* The batch is handed out, the answer is lost.
AskAnswerLost(n) ==
    /\ pc[n] = "asking" /\ ask[n].req.open
    /\ Allocate(PhonesOf[n], ask[n].excluded)
    /\ ask' = [ask EXCEPT ![n].req = Served(@)]
    /\ Busy
    /\ UNCHANGED <<pc, life, job, late>>

\* No answer in time: the request is sent again, or the cycle has no tasks.
AskTimesOut(n) ==
    /\ pc[n] = "asking"
    /\ Abandon(ask[n].req, <<"ask", n>>)
    /\ \/ /\ Left(ask[n].req)
          /\ ask' = [ask EXCEPT ![n].req = Again(@)]
          /\ UNCHANGED pc
       \/ /\ ~Left(ask[n].req)
          /\ pc' = [pc EXCEPT ![n] = "idle"]
          /\ Asked(n)
    /\ UNCHANGED <<vars, life, job, stray>>

\* All keywords of the product had their ten hits: the task is left out of the
\* cycle without a word to the server.
SkipTask(i) ==
    /\ job[i].st = "running" /\ Own(i)
    /\ job' = [job EXCEPT ![i] = Gone(@, "lost")]
    /\ UNCHANGED <<vars, pc, ask, life, late, stray>>

\* The worker comes to an end.  Ids from SkipFrom on are taken for harvest tasks,
\* whose results are not reported; the hard timeout and an exception are
\* reported as failures whatever the id.
WorkEnds(i) ==
    /\ job[i].st = "running"
    /\ \E outcome \in Endings, cut \in BOOLEAN :
         /\ cut => outcome = "FAILED"
         /\ job' = [job EXCEPT ![i].outcome = outcome,
                               ![i].st = IF i >= SkipFrom /\ ~cut THEN "lost" ELSE "reporting",
                               ![i].req = Fresh]
    /\ UNCHANGED <<vars, pc, ask, life, late, stray>>

\* The v2 report reaches the server; its answer arrives or not.
ReportServed(i) ==
    /\ job[i].st = "reporting" /\ job[i].req.open
    /\ Report(i, job[i].outcome, tasks[i].device)
    /\ \/ job' = [job EXCEPT ![i] = Gone(@, "acked")]
       \/ job' = [job EXCEPT ![i].req = Served(@)]
    /\ Freed(i)
    /\ UNCHANGED <<pc, ask, life, late>>

\* No answer in time: again, then by the v1 path.
ReportTimesOut(i) ==
    /\ job[i].st = "reporting"
    /\ Abandon(job[i].req, <<"report", i>>)
    /\ job' = [job EXCEPT
         ![i].st = IF Left(job[i].req) THEN "reporting" ELSE "fallback",
         ![i].req = IF Left(job[i].req) THEN Again(@) ELSE Fresh]
    /\ UNCHANGED <<vars, pc, ask, life, stray>>

\* The report of the v1 path says SUCCESS or FAILED and names phone and shop.
Complete(i) ==
    CompleteTask(i, IF job[i].outcome = "SUCCESS" THEN "SUCCESS" ELSE "FAILED",
                 tasks[i].device, tasks[i].store)

FallbackServed(i) ==
    /\ job[i].st = "fallback" /\ job[i].req.open
    /\ Complete(i)
    /\ \/ job' = [job EXCEPT ![i] = Gone(@, "acked")]
       \/ job' = [job EXCEPT ![i].req = Served(@)]
    /\ Freed(i)
    /\ UNCHANGED <<pc, ask, life, late>>

\* After the last attempt the worker returns with api_reported = False.
FallbackTimesOut(i) ==
    /\ job[i].st = "fallback"
    /\ Abandon(job[i].req, <<"fallback", i>>)
    /\ job' = [job EXCEPT
         ![i].st = IF Left(job[i].req) THEN "fallback" ELSE "lost",
         ![i].req = IF Left(job[i].req) THEN Again(@) ELSE Fresh]
    /\ UNCHANGED <<vars, pc, ask, life, stray>>

\* A request that was given up arrives after all.
LateArrives(msg) ==
    /\ msg \in late
    /\ late' = late \ {msg}
    /\ CASE msg[1] = "ask"      -> Allocate(PhonesOf[msg[2]], ask[msg[2]].excluded)
         [] msg[1] = "report"   -> Report(msg[2], job[msg[2]].outcome, tasks[msg[2]].device)
         [] msg[1] = "fallback" -> Complete(msg[2])
    /\ IF msg[1] = "ask" THEN Busy ELSE stray' = stray \cup {tasks[msg[2]].device}
    /\ UNCHANGED <<pc, ask, life, job>>

\* A worker process dies, in the middle of its work or of its report.
WorkerDies(i) ==
    /\ job[i].st \in Active
    /\ job' = [job EXCEPT ![i] = Gone(@, "lost")]
    /\ late' = IF Delays THEN late \cup UnderWay({i}) ELSE late
    /\ UNCHANGED <<vars, pc, ask, life, stray>>

\* All workers of this main have returned.
CycleEndsEarly(n) ==                                    \* wrong: workers are not awaited
    /\ pc[n] = "working"
    /\ pc' = [pc EXCEPT ![n] = "idle"]
    /\ UNCHANGED <<vars, ask, life, job, late, stray>>
CycleEnds(n) ==
    /\ pc[n] = "working"
    /\ JobsOf(n) = {}
    /\ pc' = [pc EXCEPT ![n] = "idle"]
    /\ UNCHANGED <<vars, ask, life, job, late, stray>>

\* The requests that are under way when n comes to an end may still arrive.
Abandoned(n, S) ==
    late' = IF ~Delays THEN late
            ELSE late \cup UnderWay(S)
                      \cup {m \in {<<"ask", n>>} : pc[n] = "asking" /\ ask[n].req.open}

\* Ctrl+C reaches main and all its workers; the runner is started again.
RunnerStops(n) ==
    /\ pc[n] # "idle"
    /\ pc' = [pc EXCEPT ![n] = "idle"]
    /\ job' = [i \in TaskId |->
         IF i \in JobsOf(n) THEN Gone(job[i], "lost") ELSE job[i]]
    /\ Asked(n)
    /\ Abandoned(n, JobsOf(n))
    /\ UNCHANGED <<vars, life, stray>>

\* The watchdog kills main alone; its workers are orphans from now on, and the
\* next main of the node starts under a number no worker has.
KillFleetRunner(n) ==
    /\ n \in Lte
    /\ pc[n] # "idle"
    /\ \E k \in Free(n) :                   \* bound
         /\ \A l \in Free(n) : k <= l
         /\ life' = [life EXCEPT ![n] = k]
    /\ pc' = [pc EXCEPT ![n] = "idle"]
    /\ Asked(n)
    /\ Abandoned(n, {})
    /\ UNCHANGED <<vars, job, stray>>

-----------------------------------------------------------------------------

RunnerInit ==
    /\ Init
    /\ pc = [n \in Node |-> "idle"]
    /\ ask = [n \in Node |-> [req |-> Fresh, excluded |-> {}]]
    /\ life = [n \in Node |-> 1]
    /\ job = [i \in TaskId |-> NoJob]
    /\ late = {}
    /\ stray = {}

RunnerStep(n) == Ask(n) \/ AskAnswered(n) \/ AskAnswerLost(n) \/ AskTimesOut(n) \/ CycleEnds(n)

WorkerStep(i) ==
    \/ SkipTask(i) \/ WorkEnds(i)
    \/ ReportServed(i) \/ ReportTimesOut(i)
    \/ FallbackServed(i) \/ FallbackTimesOut(i)

Faults ==
    \/ \E msg \in late : LateArrives(msg)
    \/ \E i \in TaskId : WorkerDies(i)
    \/ \E n \in Node : RunnerStops(n)
    \/ \E n \in Node : KillFleetRunner(n)

RunnerNext ==
    \/ \E n \in Node : RunnerStep(n)
    \/ \E i \in TaskId : WorkerStep(i)
    \/ Faults
    \/ Tick /\ UNCHANGED runnerVars

RunnerSpec == RunnerInit /\ [][RunnerNext]_allVars

\* A worker's work ends by itself or by the hard timeout, and requests are
\* answered or time out; nothing is assumed of faults.
RunnerFairSpec ==
    /\ RunnerSpec
    /\ \A n \in Node : WF_allVars(RunnerStep(n))
    /\ \A i \in TaskId : WF_allVars(WorkerStep(i))

-----------------------------------------------------------------------------

\* What the server answered a report with stays true: the row of an
\* acknowledged task shows the outcome its worker reported, whatever sweeps,
\* retries and late requests follow.
AckedIsRecorded ==
    \A i \in TaskId : job[i].st = "acked" =>
        tasks[i].status = IF job[i].outcome = "SUCCESS" THEN "SUCCESS" ELSE "FAILED"

\* Hits are earned: there are never more of them than sendings of reports of
\* tasks that succeeded.
HitsAreEarned ==
    \A m \in Product : quotas[m].hits <=
        Attempts * Cardinality({i \in TaskId : tasks[i].mid = m /\ job[i].outcome = "SUCCESS"})

\* The phone of a task that a live main waits for is shown as WORKING, unless a
\* late request or a worker that outlived its main reported the phone's earlier
\* task after the phone was handed out again: nothing else frees it.
RunningIsWorking ==
    \A i \in TaskId : job[i].st = "running" /\ Own(i) =>
        devices[tasks[i].device] = "WORKING" \/ tasks[i].device \in stray

\* Two workers have the same phone only when a main of the node was killed between
\* their starts: one of them, or both, are orphans.  No two workers of the mains that
\* run now share a phone, and none of two nodes ever do.
OneJobPerPhone ==
    \A i, j \in TaskId :
        /\ job[i].st \in Active /\ job[j].st \in Active /\ i # j
        /\ tasks[i].device = tasks[j].device
        => job[i].node = job[j].node /\ job[i].life # job[j].life

\* A cycle always comes to its end: time and again each runner is idle.
CycleReturns == \A n \in Node : []<>(pc[n] = "idle")

\* The counts still possible for product m: one per sending that may yet be
\* served, for each task of m whose worker may yet report success, be its main
\* alive or not.
Sendings(i) ==
    CASE job[i].st = "running" -> 1 .. Attempts
      [] job[i].st = "reporting" /\ job[i].outcome = "SUCCESS" ->
           (IF job[i].req.open THEN job[i].req.try ELSE job[i].req.try + 1) .. Attempts
      [] OTHER -> {}

Main(i) == <<job[i].node, job[i].life>>

Owed(m) ==
    UNION {{Main(i)} \X Sendings(i) : i \in {j \in TaskId : tasks[j].mid = m /\ job[j].st \in Active}}

\* Every main with workers is a runner of its own to QuotaLease: an orphan holds the
\* lease of its dead main beside what the next one is granted.
Lease == INSTANCE QuotaLease
    WITH Runner <- Node \X (1 .. MaxMains), Item <- Product, Goal <- [m \in Product |-> Target[m]],
         hits <- [m \in Product |-> quotas[m].hits],
         owed <- [m \in Product |-> Owed(m)]

\* Mains, orphans and server keep the day's quota the way QuotaLease says; so what
\* they count beyond a target is bounded as OvershootIsBounded says there.
ImplementsLease == Lease!Spec

=============================================================================
