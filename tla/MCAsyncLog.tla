------------------------------- MODULE MCAsyncLog -------------------------------
(***************************************************************************)
(* AsyncLog for TLC: the clients of the configurations are interchangeable. *)
(***************************************************************************)
EXTENDS AsyncLog, TLC

Symmetry == Permutations(Clients)

=============================================================================
