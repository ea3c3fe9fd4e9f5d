------------------------------ MODULE MCChannel -------------------------------
(***************************************************************************)
(* Channel with few transfers, in both modes.  Transfers of a pool are     *)
(* told apart by nothing but their identity.                               *)
(***************************************************************************)
EXTENDS Channel, TLC

Symmetry == Permutations(InTransfers) \union Permutations(OutTransfers)
=============================================================================
