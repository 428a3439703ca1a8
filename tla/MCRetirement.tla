---------------------------- MODULE MCRetirement ----------------------------
(* Instance of Retirement for TLC.                                         *)
EXTENDS Retirement
=============================================================================
