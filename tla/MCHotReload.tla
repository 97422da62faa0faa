---------------------------- MODULE MCHotReload -----------------------------
(* HotReload for TLC. *)
EXTENDS HotReload, TLC

Symmetry == Permutations(Reloads)
=============================================================================
