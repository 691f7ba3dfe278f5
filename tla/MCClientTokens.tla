--------------------------- MODULE MCClientTokens ----------------------------
(* An instance of ClientTokens for TLC: an agent, two MCP clients with two keys. *)
EXTENDS ClientTokens, TLC

CONSTANTS a, m1, m2, f1, f2, h1, s1, s2

Symmetry == Permutations({m1, m2}) \cup Permutations({f1, f2}) \cup Permutations({s1, s2})
=============================================================================
