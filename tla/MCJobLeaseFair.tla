--------------------------- MODULE MCJobLeaseFair ---------------------------
(* An instance of JobLeaseFair for TLC. *)
EXTENDS JobLeaseFair, TLC

CONSTANTS a1, a2, j1, j2, x1, x2

OwnAsset == (j1 :> x1) @@ (j2 :> x2)
OneAsset == [j \in Job |-> x1]
=============================================================================
