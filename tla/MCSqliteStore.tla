--------------------------- MODULE MCSqliteStore ---------------------------
(***************************************************************************)
(* SqliteStore for TLC.  The versions named reach beyond LastVersion, as a *)
(* u64 reaches beyond an i64.                                              *)
(***************************************************************************)
EXTENDS SqliteStore, TLC

MCNamed == 0..(LastVersion + 1)

Symmetry == Permutations(Users) \cup Permutations(Inputs) \cup Permutations(Callers)
=============================================================================
