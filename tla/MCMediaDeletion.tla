--------------------------- MODULE MCMediaDeletion ---------------------------
(***************************************************************************)
(* The deletion of one asset for TLC.                                      *)
(***************************************************************************)
EXTENDS MediaDeletion

CONSTANTS w1, w2
=============================================================================
