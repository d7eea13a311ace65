---------------------------- MODULE MCRunnerCycle ----------------------------
(***************************************************************************)
(* One phone and two products with two keywords and one; of the two the    *)
(* first is shortened to no keyword and the second to the first.           *)
(***************************************************************************)
EXTENDS RunnerCycle

CONSTANT d1
MCPhone == {d1}
TwoAndOne == [m \in Product |-> IF m = 1 THEN 2 ELSE 1]
Shortened == [m \in Product |-> IF m = 1 THEN <<0, 1>> ELSE <<1>>]
None_ == {}
Second_ == {2}
=============================================================================
