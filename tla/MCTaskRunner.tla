---------------------------- MODULE MCTaskRunner ----------------------------
(***************************************************************************)
(* Instances of TaskRunner for TLC.                                        *)
(***************************************************************************)
EXTENDS TaskRunner, TLC

CONSTANTS m1, m2, d1, d2, n1, n2

NoShop    == [m \in Mid |-> None]
NoSites   == [m \in Mid |-> {}]
AllGroups == [d \in Device |-> {}]
OneHit    == [m \in Mid |-> 1]
TwoHits   == [m \in Mid |-> 2]
OneEach   == [n \in Node |-> IF n = n1 THEN <<d1>> ELSE <<d2>>]
OnlyD1    == [n \in Node |-> <<d1>>]

=============================================================================
