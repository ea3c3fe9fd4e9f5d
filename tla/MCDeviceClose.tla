---------------------------- MODULE MCDeviceClose -----------------------------
(* DeviceClose on small sets of Nodes and keys.                            *)
EXTENDS DeviceClose, TLC

\* Nodes differ only in identity; so do keys.
Symmetry == Permutations(Nodes) \union Permutations(Keys)
=============================================================================
