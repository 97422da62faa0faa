--------------------------- MODULE MCRegistryLRU ----------------------------
(* RegistryLRU for TLC. *)
EXTENDS RegistryLRU, TLC

Symmetry == Permutations(Tenants) \cup Permutations(Requests)
=============================================================================
