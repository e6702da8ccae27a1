------------------------------ MODULE MCOutbox ------------------------------
(***************************************************************************)
(* The outbox for TLC: an urgent and an ordinary event of one aggregate.   *)
(***************************************************************************)
EXTENDS Outbox, TLC

CONSTANTS urgent, ordinary, w1, w2

MCGroups   == {{urgent, ordinary}}
MCPriority == (urgent :> 10) @@ (ordinary :> 5)
=============================================================================
