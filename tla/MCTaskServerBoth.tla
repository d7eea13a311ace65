-------------------------- MODULE MCTaskServerBoth --------------------------
(***************************************************************************)
(* Instances of TaskServerBoth for TLC; the catalogues are MCTaskServer's. *)
(***************************************************************************)
EXTENDS TaskServerBoth, MCTaskServer

=============================================================================
