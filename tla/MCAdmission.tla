----------------------------- MODULE MCAdmission -----------------------------
(***************************************************************************)
(* Admission for TLC: requests that carry at least one of one active key,  *)
(* one correlation id and one client key.                                  *)
(***************************************************************************)
EXTENDS Admission

MCAsks == [active : {NoKey, "a"}, correlation : {NoKey, "k"}, client : {NoKey, "c"}]
            \ {[active |-> NoKey, correlation |-> NoKey, client |-> NoKey]}
=============================================================================
