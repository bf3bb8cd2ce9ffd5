------------------------------ MODULE MCRekey ------------------------------
(* Instances of Rekey for TLC: the system database and one or two others.  *)
EXTENDS Rekey, TLC

CONSTANTS sys, f1, f2

Symmetry == Permutations({f1, f2})
=============================================================================
