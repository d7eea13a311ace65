----------------------------- MODULE QuotaLease -----------------------------
(***************************************************************************)
(* What the day's quota promises, without tables, requests or phones.      *)
(*                                                                         *)
(* A runner that is granted a product may count a hit for it as many times *)
(* as one report is sent, and is granted the product again only when it    *)
(* can no longer count.  A product is granted only while hits are left, so *)
(* what is counted too much is what was already under way at that moment.  *)
(***************************************************************************)
EXTENDS Naturals, FiniteSets

CONSTANTS
    Runner,      \* runners of the fleet
    Item,        \* products
    Attempts,    \* times one report may reach the server
    Goal         \* hits each product should get on this day

ASSUME LeaseAssumption ==
    /\ IsFiniteSet(Runner) /\ Runner # {}
    /\ Attempts \in Nat \ {0}
    /\ Goal \in [Item -> Nat]

VARIABLES
    hits,        \* hits counted today
    owed         \* owed[x]: the counts still possible, as pairs <<runner, attempt>>

leaseVars == <<hits, owed>>

Count == Runner \X (1 .. Attempts)

TypeOK ==
    /\ hits \in [Item -> Nat]
    /\ owed \in [Item -> SUBSET Count]

Init ==
    /\ hits = [x \in Item |-> 0]
    /\ owed = [x \in Item |-> {}]

\* One answer grants the products of X to runner r.
GrantPastGoal(r, X) ==                          \* wrong: the goal is not asked
    /\ \A x \in X, a \in 1 .. Attempts : <<r, a>> \notin owed[x]
    /\ owed' = [x \in Item |-> IF x \in X THEN owed[x] \cup ({r} \X (1 .. Attempts)) ELSE owed[x]]
    /\ UNCHANGED hits
GrantFromZero(r, X) ==                          \* wrong: one attempt too many
    /\ \A x \in X : /\ hits[x] < Goal[x]
                    /\ \A a \in 0 .. Attempts : <<r, a>> \notin owed[x]
    /\ owed' = [x \in Item |-> IF x \in X THEN owed[x] \cup ({r} \X (0 .. Attempts)) ELSE owed[x]]
    /\ UNCHANGED hits
Grant(r, X) ==
    /\ \A x \in X : /\ hits[x] < Goal[x]
                    /\ \A a \in 1 .. Attempts : <<r, a>> \notin owed[x]
    /\ owed' = [x \in Item |-> IF x \in X THEN owed[x] \cup ({r} \X (1 .. Attempts)) ELSE owed[x]]
    /\ UNCHANGED hits

\* A report reaches the server and is counted.
Hit(x) ==
    /\ \E c \in owed[x], S \in SUBSET owed[x] :
         /\ c \notin S
         /\ owed' = [owed EXCEPT ![x] = S]
    /\ hits' = [hits EXCEPT ![x] = @ + 1]

\* Counts become impossible: the task failed, was dropped, was acknowledged, a
\* request was lost, its runner stopped.
Forgo ==
    /\ \E S \in [Item -> SUBSET Count] :
         /\ \A x \in Item : S[x] \subseteq owed[x]
         /\ owed' = S
    /\ UNCHANGED hits

Next ==
    \/ \E r \in Runner, X \in SUBSET Item : Grant(r, X)
    \/ \E x \in Item : Hit(x)
    \/ Forgo

Spec == Init /\ [][Next]_leaseVars

\* Inductive: counted and possible hits together stay within the goal and the
\* counts that all runners can have under way at one time.
WithinLease ==
    \A x \in Item : hits[x] + Cardinality(owed[x]) <= Goal[x] - 1 + Cardinality(Runner) * Attempts

\* The day's hits exceed the goal by less than what can be under way at once:
\* a single runner whose reports are delivered once never exceeds it.
OvershootIsBounded ==
    \A x \in Item : hits[x] <= Goal[x] - 1 + Cardinality(Runner) * Attempts

=============================================================================
