----------------------------- MODULE MCGuardian -----------------------------
(* Small instances of Guardian for TLC. *)
EXTENDS Guardian
=============================================================================
