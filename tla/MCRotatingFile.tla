----------------------------- MODULE MCRotatingFile -----------------------------
(***************************************************************************)
(* RotatingFile for TLC.                                                   *)
(***************************************************************************)
EXTENDS RotatingFile

=============================================================================
