---------------------------- MODULE MCJsonlHandle ----------------------------
(***************************************************************************)
(* JsonlHandle for TLC.  No flushing caller is told from another, so a     *)
(* run of safety properties needs one state of each orbit.                 *)
(***************************************************************************)
EXTENDS JsonlHandle, TLC

Interchangeable == Permutations(Callers)
=============================================================================
