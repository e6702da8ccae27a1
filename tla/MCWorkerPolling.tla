-------------------------- MODULE MCWorkerPolling --------------------------
(***************************************************************************)
(* The poll loop for TLC: two workers, two jobs.                           *)
(***************************************************************************)
EXTENDS WorkerPolling, TLC

CONSTANTS j1, j2, w1, w2
=============================================================================
