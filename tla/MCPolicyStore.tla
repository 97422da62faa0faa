--------------------------- MODULE MCPolicyStore ----------------------------
(* PolicyStore for TLC. *)
EXTENDS PolicyStore, TLC

Symmetry == Permutations(Uploads) \cup Permutations(Docs)
=============================================================================
