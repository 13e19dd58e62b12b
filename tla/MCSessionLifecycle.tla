------------------------- MODULE MCSessionLifecycle -------------------------
(***************************************************************************)
(* Constants for the model checking of SessionLifecycle: two starts of one *)
(* id, cleanupActiveSessionsLoop and the cleanup endpoint.                 *)
(***************************************************************************)
EXTENDS SessionLifecycle, TLC

CONSTANTS r1, r2, loop, endpoint
=============================================================================
