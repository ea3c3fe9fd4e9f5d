---------------------------- MODULE MCTransferPool ----------------------------
(* TransferPool on small sets of slots and Nodes.                          *)
EXTENDS TransferPool, TLC

\* Slots and Nodes are told apart by nothing but their identity.
Symmetry == Permutations(Slots) \union Permutations(Nodes)
=============================================================================
