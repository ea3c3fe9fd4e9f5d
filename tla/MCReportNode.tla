----------------------------- MODULE MCReportNode -----------------------------
(* ReportNode on small sets of Nodes and keys.                             *)
EXTENDS ReportNode, TLC

\* Keys, like Nodes, differ only in identity.
Symmetry == Permutations(Keys) \union Permutations(Nodes)
=============================================================================
