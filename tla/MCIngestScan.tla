---------------------------- MODULE MCIngestScan -----------------------------
(* An instance of IngestScan for TLC: an original with a sidecar and a proxy. *)
EXTENDS IngestScan, TLC

CONSTANTS a1

MCFile == {<<a1, "original">>, <<a1, "sidecar">>, <<a1, "proxy">>}

\* C.LRF, C.MOV, C.SRT
MCRank == (<<a1, "proxy">> :> 0) @@ (<<a1, "original">> :> 1) @@ (<<a1, "sidecar">> :> 2)
\* A proxy that is written while the tick looks.
MCLastStamp == [f \in File |-> IF f[2] = "proxy" THEN 1 ELSE 0]
=============================================================================
