--------------------------- MODULE MCRevocation ----------------------------
(* Revocation for TLC. *)
EXTENDS Revocation
=============================================================================
