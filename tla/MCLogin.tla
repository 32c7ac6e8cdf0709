------------------------------- MODULE MCLogin -------------------------------
(***************************************************************************)
(* Login for TLC: two requests, one permit, an account that exists and a   *)
(* name that does not.                                                     *)
(***************************************************************************)
EXTENDS Login
=============================================================================
