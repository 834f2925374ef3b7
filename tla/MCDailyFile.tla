------------------------------- MODULE MCDailyFile -------------------------------
(***************************************************************************)
(* DailyFile for TLC: days of four hours.                                  *)
(***************************************************************************)
EXTENDS DailyFile

\* No summer time; summer time that begins and ends again.
NoSummer == {}
OneSummer == 10..17

=============================================================================
