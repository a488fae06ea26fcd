-------------------------- MODULE MCMcpOperations --------------------------
(* TLC instances of McpOperations. *)
EXTENDS McpOperations, TLC

CONSTANTS c1, c2, o1, o2, r1, r2, i1, i2
Symmetry == Permutations(Calls) \cup Permutations(Requests) \cup Permutations(Ops)
====
