--------------------------- MODULE MCClusterReload ---------------------------
(* ClusterReload for TLC.                                                  *)
EXTENDS ClusterRollout, TLC

Symmetry == Permutations(Pods) \cup Permutations(Configs)
=============================================================================
