------------------------------ MODULE Fencing -------------------------------
(***************************************************************************)
(* What a lease on a job promises, apart from every column it is kept in:  *)
(* a job has at most one holder at a time, each lease is granted once, and *)
(* only the holder makes something of the job, which ends its lease.  A    *)
(* lease may also be taken away, or be superseded by the next one; it never *)
(* comes back.                                                             *)
(***************************************************************************)
EXTENDS Integers

CONSTANTS
  Jobs,       \* job identifiers
  MaxLeases   \* bound: number of leases granted

VARIABLES
  holder,     \* the lease a job is held under; 0 for none
  granted,    \* the last lease granted
  outcome     \* what the holder of each lease made of its job

fenceVars == <<holder, granted, outcome>>

Outcomes == {"SUCCEEDED", "FAILED", "RETRY_WAIT"}

Grant(j) ==
  /\ granted < MaxLeases
  /\ granted' = granted + 1
  /\ holder' = [holder EXCEPT ![j] = granted + 1]
  /\ UNCHANGED outcome

Settle(j) ==
  /\ holder[j] # 0 /\ outcome[holder[j]] = "open"
  /\ \E o \in Outcomes : outcome' = [outcome EXCEPT ![holder[j]] = o]
  /\ holder' = [holder EXCEPT ![j] = 0]
  /\ UNCHANGED granted

Revoke(j) ==
  /\ holder[j] # 0
  /\ holder' = [holder EXCEPT ![j] = 0]
  /\ UNCHANGED <<granted, outcome>>

Init ==
  /\ holder = [j \in Jobs |-> 0]
  /\ granted = 0
  /\ outcome = [l \in 1 .. MaxLeases |-> "open"]

Next == \E j \in Jobs : Grant(j) \/ Settle(j) \/ Revoke(j)

Spec == Init /\ [][Next]_fenceVars
=============================================================================
