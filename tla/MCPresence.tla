----------------------------- MODULE MCPresence -----------------------------
(* An instance of Presence for TLC: a client with two connections and one  *)
(* with one, as in the table of runs in README.md.                         *)
EXTENDS Presence, TLC

CONSTANTS k1, k2, k3, c1, c2

MCClientOf == (k1 :> c1) @@ (k2 :> c1) @@ (k3 :> c2)

Symmetry == Permutations({k1, k2})
=============================================================================
