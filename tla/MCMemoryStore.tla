--------------------------- MODULE MCMemoryStore ---------------------------
(***************************************************************************)
(* MemoryStore for TLC.  An If-Match may name any u64, so the versions     *)
(* named include zero, which no profile has.                               *)
(***************************************************************************)
EXTENDS MemoryStore, TLC

MCNamed == 0..LastVersion

Symmetry == Permutations(Users) \cup Permutations(Inputs) \cup Permutations(Callers)
=============================================================================
