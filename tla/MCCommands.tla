----------------------------- MODULE MCCommands -----------------------------
(* Instances of Commands for TLC.                                          *)
EXTENDS Commands, TLC

Symmetric == Permutations(Controllers) \union Permutations(Commands)
=============================================================================
