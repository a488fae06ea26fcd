---------------------------- MODULE MCStackWrite ----------------------------
(* Small instances of StackWrite for TLC. *)
EXTENDS StackWrite, TLC

CONSTANTS s1, s2

Symmetry == Permutations(Savers)
====
