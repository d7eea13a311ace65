---------------------------- MODULE MCTaskServer ----------------------------
(***************************************************************************)
(* Instances of TaskServer for TLC.                                        *)
(***************************************************************************)
EXTENDS TaskServer, TLC

CONSTANTS m1, m2, d1, d2, k1, s1, a1

OneShop     == [m \in Mid |-> s1]
NoShop      == [m \in Mid |-> None]
TwoHits     == [m \in Mid |-> 2]
ThreeHits   == [m \in Mid |-> 3]
OneHit      == [m \in Mid |-> 1]
NoSites     == [m \in Mid |-> {}]
SiteOfM2    == [m \in Mid |-> IF m = m2 THEN {a1} ELSE {}]
AllGroups   == [d \in Device |-> {}]
GroupOfD1   == [d \in Device |-> IF d = d1 THEN {a1} ELSE {}]

=============================================================================
