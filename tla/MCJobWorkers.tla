---------------------------- MODULE MCJobWorkers ----------------------------
(***************************************************************************)
(* The workers for TLC: two workers contend for one job.                   *)
(***************************************************************************)
EXTENDS JobWorkers, TLC

CONSTANTS j1, w1, w2

MCBudget == (j1 :> 1)
MCWorkers == Permutations(Workers)
=============================================================================
