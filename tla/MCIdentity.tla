---------------------------- MODULE MCIdentity -----------------------------
(* Identity for TLC. *)
EXTENDS Identity
=============================================================================
