--------------------------- MODULE MCTokenService ---------------------------
(***************************************************************************)
(* TokenService for TLC.  Keys are named apart, as a rotation wants them.  *)
(***************************************************************************)
EXTENDS TokenService, TLC

CONSTANT Secrets

MCKeys == {[kid |-> secret, secret |-> secret] : secret \in Secrets}

Symmetry == Permutations(Tokens) \cup Permutations(Handlers) \cup Permutations(Secrets)
=============================================================================
