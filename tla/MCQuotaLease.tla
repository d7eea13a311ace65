---------------------------- MODULE MCQuotaLease ----------------------------
(***************************************************************************)
(* An instance of QuotaLease for TLC.                                      *)
(***************************************************************************)
EXTENDS QuotaLease, TLC

TwoHits == [x \in Item |-> 2]

Symmetric == Permutations(Runner)

=============================================================================
