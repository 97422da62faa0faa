------------------------------ MODULE MCProxy -------------------------------
(* Proxy for TLC. *)
EXTENDS Proxy, TLC

Symmetry == Permutations(Hosts)
=============================================================================
