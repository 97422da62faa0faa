------------------------- MODULE MCRegistryService --------------------------
(* RegistryService for TLC: the sets whose members may be exchanged. *)
EXTENDS RegistryService, TLC

Symmetry == Permutations(Tenants) \cup Permutations(Requests) \cup Permutations(Workers)
=============================================================================
