------------------------------- MODULE MCOutbox -------------------------------
(* An instance of Outbox for TLC: files of one name. *)
EXTENDS Outbox, TLC

CONSTANTS a1, a2, f

MCBaseOf == [a \in Asset |-> f]

\* a2 is the older one.
MCRank == [a \in Asset |-> IF a = a1 THEN 0 ELSE 1]
=============================================================================
