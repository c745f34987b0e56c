---------------------------- MODULE MC_EngineHost ----------------------------
(* EngineHost on two projects and two workflows.  Each configuration says which projects are net48, *)
(* how many processes each may spawn and what the budget is.                                       *)
EXTENDS EngineHost, TLC

CONSTANTS first, second, p1, p2, q1

MCKeyOf == [p \in Procs |-> IF p = q1 THEN second ELSE first]
SymmetryOfAll == Permutations(Requests) \cup Permutations({p1, p2})
==============================================================================
