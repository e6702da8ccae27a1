--------------------------- MODULE MCChannelMonitor ---------------------------
(***************************************************************************)
(* The channel monitor for TLC.                                            *)
(***************************************************************************)
EXTENDS ChannelMonitor, TLC

CONSTANTS s1, s2, v1, v2

\* Servers and videos are interchangeable; for runs without liveness.
MCSymmetry == Permutations(Servers) \cup Permutations(Videos)
=============================================================================
