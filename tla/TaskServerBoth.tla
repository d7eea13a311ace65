--------------------------- MODULE TaskServerBoth ---------------------------
(***************************************************************************)
(* The task server with both generations of its API in use at once, as     *)
(* while runners started with --api-v1 share it with the others.  The two  *)
(* write the same tasks and nnbs tables and know nothing of each other.    *)
(***************************************************************************)
EXTENDS TaskServer, TaskServiceV1

AnyAssign == \E devs \in Batches, wanted \in Mid \cup {None} : AssignTasks(devs, wanted)

AnyComplete ==
    \E i \in TaskId, raw \in RawStatus, d \in Device \cup {None}, shop \in Store \cup {None} :
        CompleteTask(i, raw, d, shop)

BothNext == Next \/ AnyAssign \/ LookUpTask \/ AnyComplete

BothSpec == Init /\ [][BothNext]_vars

-----------------------------------------------------------------------------

\* Inductive for both generations: what IInv says of rows that may have gaps.
\* The token of a row is a row of nnbs, or 0 for a report of an unknown id.
TokensAreListed == \A i \in Known : tasks[i].token \in 0 .. harvested

BothInv ==
    /\ TypeOK
    /\ RowsEndAtNextId
    /\ TokensAreListed
    /\ TokenUseMatchesTasks

=============================================================================
