--------------------------- MODULE MCGuestRunner ----------------------------
(* Instances of GuestRunner for TLC.                                       *)
EXTENDS GuestRunner
=============================================================================
