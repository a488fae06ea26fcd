----------------------------- MODULE MCUpdater -----------------------------
(* Small instances of Updater for TLC. *)
EXTENDS UpdaterRefinement, TLC

CONSTANTS p1, p2

MCSchemaOf == [v \in Versions |-> IF v <= 2 THEN 1 ELSE 2]

Symmetry == Permutations(Procs)
====
