----------------------------- MODULE MCOutputs ------------------------------
(* Instances of Outputs for TLC.                                           *)
EXTENDS Outputs, TLC

(* Host workers and digests are interchangeable. *)
Symmetry == Permutations(Workers) \union Permutations(Digests)
=============================================================================
