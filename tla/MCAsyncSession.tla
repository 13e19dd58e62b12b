--------------------------- MODULE MCAsyncSession ---------------------------
(***************************************************************************)
(* Constants for the model checking of AsyncSession: a message and a stop, *)
(* with request ids of their own, or sharing one as when a client retries  *)
(* a call that timed out and sends the id it sent before.                  *)
(***************************************************************************)
EXTENDS AsyncSession, TLC

CONSTANTS m1, s1, w1, w2

OwnIds == [c \in Calls |-> c]
SharedId == [c \in Calls |-> m1]

WorkerSymmetry == Permutations({w1, w2})
=============================================================================
