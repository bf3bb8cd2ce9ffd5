----------------------------- MODULE MCRegistry -----------------------------
(* Instances of Registry for TLC: see the table of runs in README.md.      *)
EXTENDS Registry, TLC

CONSTANTS p1, p2, p3, u1

Symmetry == Permutations(Procs)
=============================================================================
