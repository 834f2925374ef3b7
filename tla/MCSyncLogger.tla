------------------------------ MODULE MCSyncLogger ------------------------------
(***************************************************************************)
(* SyncLogger for TLC: two loggers over the same two sinks, in opposite    *)
(* orders.                                                                 *)
(***************************************************************************)
EXTENDS SyncLogger, TLC

CONSTANTS t1, t2, g1, g2, s1, s2

MCSinksOf == (g1 :> <<s1, s2>>) @@ (g2 :> <<s2, s1>>)

\* One statement by each thread, in every style.
MCMaxCalls == (t1 :> 1) @@ (t2 :> 1)

=============================================================================
