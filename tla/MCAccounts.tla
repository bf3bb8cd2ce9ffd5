----------------------------- MODULE MCAccounts -----------------------------
(* An instance of Accounts for TLC: see the table of runs in README.md.    *)
EXTENDS Accounts, TLC

CONSTANTS p1, p2, n1

Symmetry == Permutations(Procs)
=============================================================================
