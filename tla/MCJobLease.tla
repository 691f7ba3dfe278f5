----------------------------- MODULE MCJobLease -----------------------------
(* An instance of JobLease for TLC. *)
EXTENDS JobLease, TLC

CONSTANTS a1, a2, j1, j2, x1, x2

OneAsset == [j \in Job |-> x1]
OwnAsset == (j1 :> x1) @@ (j2 :> x2)

Symmetry == Permutations(Agent) \cup Permutations(Job)
=============================================================================
