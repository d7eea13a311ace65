--------------------------- MODULE TaskServiceV1 ---------------------------
(***************************************************************************)
(* The first generation of the task API, api/services/task_service.py, on  *)
(* the same tasks and nnbs tables: GET assign hands out products of the    *)
(* older catalogue, POST report (or complete) records how a task ended.    *)
(* It neither reads nor writes the quotas, the keyword pool and the phones.*)
(***************************************************************************)
EXTENDS TaskTables

CONSTANTS
    Listed,         \* all rows of nshop_list with a name
    ListedActive    \* those with is_active = 1

ASSUME ListAssumption == Listed \subseteq Mid /\ ListedActive \subseteq Listed

\* What a report may say: the ENUM's own values, a text that contains one of
\* the words taken for a failure, any other text.
RawStatus == {"ASSIGNED", "SUCCESS", "FAILED", "TIMEOUT", "CANCELLED", "FAILURE_WORD", "OTHER"}

StatusVal(raw) ==
    IF raw \in TaskStatus THEN raw
    ELSE IF raw = "FAILURE_WORD" THEN "FAILED" ELSE "SUCCESS"

\* ORDER BY RAND() LIMIT n: any n different rows, from the active ones if they
\* are enough, else from all.
RandomRows(n) ==
    LET from == IF Cardinality(ListedActive) >= n THEN ListedActive ELSE Listed
        k    == IF Cardinality(from) < n THEN Cardinality(from) ELSE n
    IN {p \in [1 .. k -> from] : \A i, j \in 1 .. k : p[i] = p[j] => i = j}

\* The product of the request, once per phone, if the list has it.
NamedRows(m, n) == IF m \in Listed THEN {[i \in 1 .. n |-> m]} ELSE {<<>>}

\* assign_tasks for devs; wanted is the product asked for, or None.
AssignTasks(devs, wanted) ==
    /\ UNCHANGED devices
    /\ LET asked == Cardinality(DOMAIN devs)
           n     == IF Cardinality(Mature) < asked THEN Cardinality(Mature) ELSE asked
       IN \/ n = 0 /\ SweepOnly
          \/ /\ n > 0
             /\ \E mids \in (IF wanted = None THEN RandomRows(n) ELSE NamedRows(wanted, n)) :
                  LET k == Cardinality(DOMAIN mids) IN
                  \/ k = 0 /\ SweepOnly
                  \/ /\ k > 0
                     /\ nextId + k - 1 <= MaxTaskId     \* bound
                     /\ \E toks \in TokenPicks(k) :
                          Insert(k, mids, [i \in 1 .. k |-> Title], devs, toks)

\* assign_tasks with a task_id only looks the row up, after the sweep.
LookUpTask == SweepOnly /\ UNCHANGED devices

\* AUTO_INCREMENT after a row with id i was inserted or updated.
AfterIdKept(i) == nextId                        \* wrong: it does not move
AfterId(i) == IF tasks[i].status = "NONE" /\ i >= nextId THEN i + 1 ELSE nextId

\* complete_task of id i: the row is overwritten, the phone and the shop only
\* if the report names them; a report of an unknown id becomes a row of its
\* own, and AUTO_INCREMENT moves past that id.
CompleteTask(i, raw, d, shop) ==
    /\ i \in TaskId                                     \* bound
    /\ tasks' = [tasks EXCEPT ![i] =
         IF tasks[i].status # "NONE"
           THEN [tasks[i] EXCEPT !.status = StatusVal(raw), !.done = 0,
                                 !.device = IF d = None THEN tasks[i].device ELSE d,
                                 !.store = IF shop = None THEN tasks[i].store ELSE shop]
           ELSE [NoTask EXCEPT !.status = StatusVal(raw), !.done = 0,
                               !.device = d, !.store = shop]]
    /\ nextId' = AfterId(i)
    /\ UNCHANGED <<nnbs, harvested, devices, quotas, exposed>>

=============================================================================
