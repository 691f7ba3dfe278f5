---------------------------- MODULE MCUserAccess -----------------------------
(* An instance of UserAccess for TLC: two requests at once, two sessions, two codes a set. *)
EXTENDS UserAccess, TLC

CONSTANTS x1, x2, s1, s2, c1, c2

Symmetry == Permutations({x1, x2}) \cup Permutations({s1, s2}) \cup Permutations({c1, c2})
=============================================================================
