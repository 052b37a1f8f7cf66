---------------------------- MODULE MCTransport ----------------------------
(* Model-checking instances of Transport. *)
EXTENDS Transport

CONSTANTS r1, r2, ep0, gpio
=============================================================================
