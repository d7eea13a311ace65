--------------------------- MODULE MCPartnerSync ---------------------------
(***************************************************************************)
(* Two partner sites for TLC; nothing tells them apart.                    *)
(***************************************************************************)
EXTENDS PartnerSync, TLC

Symmetric == Permutations(Site)

=============================================================================
