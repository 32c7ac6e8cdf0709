------------------------- MODULE MCIdempotentCreate -------------------------
(***************************************************************************)
(* IdempotentCreate for TLC.                                               *)
(***************************************************************************)
EXTENDS IdempotentCreate, TLC

Symmetry == Permutations(Handlers) \cup Permutations(Keys) \cup Permutations(Valid)
=============================================================================
