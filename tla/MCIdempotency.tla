---------------------------- MODULE MCIdempotency ----------------------------
(* An instance of Idempotency for TLC: requests with two keys for a job or an asset. *)
EXTENDS Idempotency, TLC

CONSTANTS k1, k2, t

MCTargetOf == [k \in Key |-> t]
=============================================================================
