---------------------------- MODULE MCIdempotency ----------------------------
(* TLC instances of Idempotency: the requests are interchangeable. *)
EXTENDS Idempotency, TLC

RequestSymmetry == Permutations(Requests)
=============================================================================
