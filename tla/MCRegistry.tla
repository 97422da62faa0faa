----------------------------- MODULE MCRegistry -----------------------------
(* Registry for TLC: the sets whose members may be exchanged. *)
EXTENDS Registry, TLC

Symmetry == Permutations(Tenants) \cup Permutations(Requests)
=============================================================================
