---------------------------- MODULE MCDeviceFlow -----------------------------
(* An instance of DeviceFlow for TLC: two requests at once, two clients. *)
EXTENDS DeviceFlow, TLC

CONSTANTS s1, s2, c1, c2
=============================================================================
