-------------------------- MODULE MCSocks5Server --------------------------
(***************************************************************************)
(* Constants for the model checking of Socks5Server.                       *)
(***************************************************************************)
EXTENDS Socks5Server, TLC

CONSTANTS r1, r2, r3, r4

RequestSymmetry == Permutations(Requests)
=============================================================================
