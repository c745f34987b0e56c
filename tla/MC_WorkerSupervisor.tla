------------------------- MODULE MC_WorkerSupervisor -------------------------
(* One key, and requests that differ in nothing but their names.            *)
EXTENDS WorkerSupervisor, TLC

Symmetry == Permutations(Requests)
=============================================================================
