------------------------------ MODULE MCWriter ------------------------------
(* Instances of Writer for TLC: see the table of runs in README.md.        *)
EXTENDS Writer, TLC

CONSTANTS k1, k2, v1, v2, c1, n1

MCKeys == {k1, k2}
MCCollOf == [k \in MCKeys |-> c1]

Symmetry == Permutations(MCKeys) \cup Permutations(Vals)
=============================================================================
