-------------------------- MODULE MCSocks5Request -------------------------
(***************************************************************************)
(* Constants for the model checking of Socks5Request.                      *)
(***************************************************************************)
EXTENDS Socks5Request

CONSTANTS p1, p2
=============================================================================
