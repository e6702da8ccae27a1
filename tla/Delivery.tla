------------------------------ MODULE Delivery ------------------------------
(***************************************************************************)
(* What a transactional outbox promises its producers: an event that was   *)
(* published is owed until it reaches one fate, every fate is one that a   *)
(* run of its handler reported, and a fate is never changed.  Handlers may *)
(* run any number of times, and may report after the fate is sealed: the   *)
(* promise is at least once.                                               *)
(*                                                                         *)
(* This module stands for no lines of the code.  Outbox implements it.     *)
(***************************************************************************)
CONSTANT Events

VARIABLES
  fate,      \* what became of each event
  reported   \* outcomes that runs of its handler reported

vars == <<fate, reported>>

Outcomes == {"ok", "deferred", "superseded", "terminal", "retry"}
Sealed   == {"delivered", "obsolete", "refused"}
Fates    == {"unpublished", "owed"} \cup Sealed

\* The outcomes that can seal a fate.
Grounds(f) == CASE f = "delivered" -> {"ok"}
                [] f = "obsolete"  -> {"superseded"}
                [] f = "refused"   -> {"terminal", "retry"}

Init ==
  /\ fate = [e \in Events |-> "unpublished"]
  /\ reported = [e \in Events |-> {}]

Publish(e) ==
  /\ fate[e] = "unpublished"
  /\ fate' = [fate EXCEPT ![e] = "owed"]
  /\ UNCHANGED reported

Report(e, outcome) ==
  /\ fate[e] # "unpublished"
  /\ reported' = [reported EXCEPT ![e] = @ \cup {outcome}]
  /\ UNCHANGED fate

Seal(e, f) ==
  /\ fate[e] = "owed"
  /\ reported[e] \cap Grounds(f) # {}
  /\ fate' = [fate EXCEPT ![e] = f]
  /\ UNCHANGED reported

Next == \E e \in Events :
  \/ Publish(e)
  \/ \E outcome \in Outcomes : Report(e, outcome)
  \/ \E f \in Sealed : Seal(e, f)

Spec == Init /\ [][Next]_vars

EveryDebtIsPaid == \A e \in Events : fate[e] = "owed" ~> fate[e] \in Sealed
=============================================================================
