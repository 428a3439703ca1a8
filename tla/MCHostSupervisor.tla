-------------------------- MODULE MCHostSupervisor --------------------------
(* Small instances of HostSupervisor for TLC. *)
EXTENDS HostSupervisor, TLC

(* Worker threads and allocations are interchangeable. *)
Symmetry == Permutations(Threads) \union Permutations(Allocs)
=============================================================================
