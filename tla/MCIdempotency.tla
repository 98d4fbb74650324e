--------------------------- MODULE MCIdempotency ---------------------------
(* Small instances of IdempotencyKeys for TLC. *)
EXTENDS IdempotencyRefinement, TLC

RequestSymmetry == Permutations(Request)
=============================================================================
