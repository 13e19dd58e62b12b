---------------------------- MODULE MCDownloads ----------------------------
(***************************************************************************)
(* Constants for the model checking of Downloads.                          *)
(***************************************************************************)
EXTENDS Downloads, TLC

CONSTANTS f1, f2, f3

FileSymmetry == Permutations(Files)
=============================================================================
