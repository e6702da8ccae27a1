--------------------------- MODULE MCJobScheduler ---------------------------
(***************************************************************************)
(* The scheduler for TLC.                                                  *)
(***************************************************************************)
EXTENDS JobScheduler, TLC

CONSTANTS s1, s2
=============================================================================
