----------------------------- MODULE MCJobStore -----------------------------
(***************************************************************************)
(* The job store for TLC: one job with a retry budget and one without.     *)
(***************************************************************************)
EXTENDS JobStore, TLC

CONSTANTS j1, j2, w1, w2

MCBudget == (j1 :> 1) @@ (j2 :> 0)
MCWorkers == Permutations(Workers)
=============================================================================
