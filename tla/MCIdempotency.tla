---------------------------- MODULE MCIdempotency ----------------------------
(* Finite instance of Idempotency for TLC. *)
EXTENDS Idempotency, TLC

\* Calls differ only in the requests they draw, over which all are symmetric.
RequestSymmetry == Permutations(Request)
=============================================================================
