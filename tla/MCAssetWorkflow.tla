-------------------------- MODULE MCAssetWorkflow --------------------------
(* An instance of AssetWorkflow for TLC. *)
EXTENDS AssetWorkflow, TLC

CONSTANTS x1, r1, r2

\* Requests are alike; not used where a liveness property is checked.
Symmetry == Permutations(Request)
=============================================================================
