------------------------------- MODULE Outbox -------------------------------
(***************************************************************************)
(* The transactional outbox: the table outbox_events, the statements of    *)
(* Repository that change it (src/internal/platform/sqlite/outboxevents)   *)
(* and the Pool of workers that drains it.                                 *)
(*                                                                         *)
(* Every statement is one action.  A worker claims a row under a fresh     *)
(* lease, runs the handler outside any transaction and then makes one      *)
(* call that names the lease.  MarkFailed reads the attempt count first    *)
(* and updates later, so it is two actions.  The lease lives exactly as    *)
(* long as the handler's deadline and nobody renews it: a handler that     *)
(* returns at its deadline may find the row requeued, or claimed by        *)
(* another worker.  A statement of a worker may fail and a process may die *)
(* at any point (Abandon); both leave the row to the reclaim loop.         *)
(*                                                                         *)
(* Only a table's own columns and the outcome class of a handler matter;   *)
(* payloads, error texts and metrics are left out.  RenewLease has no      *)
(* caller in the pool and is left out too.                                 *)
(***************************************************************************)
EXTENDS Integers, FiniteSets

CONSTANTS
  Events,        \* event keys
  Workers,       \* worker goroutines of the pools that share the table
  Groups,        \* the sets of events with one event_type and aggregate_id
  Priority,      \* the priority column
  MaxAttempts,   \* the max_attempts column
  MaxFaults,     \* bound: lost workers, failed statements and overrun handlers
  MaxDeferrals   \* bound: how often handlers find their precondition unmet

NoLease == 0     \* lease_id = ''

ASSUME OutboxAssumption ==
  /\ Groups \subseteq SUBSET Events
  /\ Priority \in [Events -> Nat]
  /\ MaxAttempts \in Nat \ {0}
  /\ MaxFaults \in Nat
  /\ MaxDeferrals \in Nat

VARIABLES
  row,        \* outbox_events
  worker,     \* what each worker holds
  reports,    \* history: what each run of a handler returned
  tally,      \* history: what became of the claims of each event
  faults      \* bound counter

vars == <<row, worker, reports, tally, faults>>

(***************************************************************************)
(* State                                                                   *)
(***************************************************************************)
Outcomes == {"ok", "deferred", "superseded", "terminal", "retry"}
Settled  == {"completed", "superseded", "dead_letter"}
Statuses == {"absent", "pending", "processing"} \cup Settled

\* due abstracts next_attempt_at against the clock, expiry lease_expiry.
Row == [status : Statuses, attempts : Nat, due : BOOLEAN, lease : Nat,
        expiry : {"null", "live", "past"}]

\* A worker runs a handler, then has its outcome, then (MarkFailed) has read
\* whether the attempts are spent.
Phases == {"idle", "handling", "returned", "counted"}
Holding == [phase : Phases \ {"idle"}, event : Events, lease : Nat, outcome : Outcomes, spent : BOOLEAN]
Idle == [phase |-> "idle"]

Report == [event : Events, lease : Nat, outcome : Outcomes]
Tally  == [claims : Nat, deferred : Nat, failed : Nat, lapsed : Nat]

NoRow   == [status |-> "absent", attempts |-> 0, due |-> TRUE, lease |-> NoLease, expiry |-> "null"]
NoTally == [claims |-> 0, deferred |-> 0, failed |-> 0, lapsed |-> 0]

Busy(w) == worker[w].phase # "idle"
Holds(w, e) == Busy(w) /\ worker[w].event = e /\ worker[w].lease = row[e].lease

\* Mutant: a row in process is claimed too.
ClaimableTwice == {e \in Events : row[e].status \in {"pending", "processing"} /\ row[e].due}

\* The rows ClaimNext may pick, and those it prefers.  The order among equal
\* priorities (next_attempt_at, then id) is left open.
Claimable == {e \in Events : row[e].status = "pending" /\ row[e].due}
Foremost  == {e \in Claimable : \A f \in Claimable : Priority[f] <= Priority[e]}

\* Mutant: the status is the fence.
OwnsByStatus(w) == row[worker[w].event].status = "processing"

\* status = 'processing' AND lease_id = ?, the fence of every Mark statement.
Owns(w) == /\ row[worker[w].event].status = "processing"
           /\ row[worker[w].event].lease = worker[w].lease

\* Mutant: the lease survives.
ReleasedLeased(r, status) == [r EXCEPT !.status = status]

\* Back to pending, or retired with the lease columns cleared.
Released(r, status) == [r EXCEPT !.status = status, !.lease = NoLease, !.expiry = "null"]

\* The calling worker ends its call; the row changes if the fence holds.
Finish(w, r, t) ==
  LET e == worker[w].event IN
  /\ worker' = [worker EXCEPT ![w] = Idle]
  /\ IF Owns(w) THEN row' = [row EXCEPT ![e] = r] /\ tally' = [tally EXCEPT ![e] = t]
                ELSE UNCHANGED <<row, tally>>
  /\ UNCHANGED <<reports, faults>>

Returned(w, outcome) == worker[w].phase = "returned" /\ worker[w].outcome = outcome

(***************************************************************************)
(* Producers                                                               *)
(***************************************************************************)
\* A second Enqueue of the key changes nothing, whatever became of the row.
Enqueue(e) ==
  /\ row[e].status = "absent"
  /\ row' = [row EXCEPT ![e].status = "pending"]
  /\ UNCHANGED <<worker, reports, tally, faults>>

WakeDeferred(g) ==
  /\ \E e \in g : row[e].status = "pending" /\ ~row[e].due
  /\ row' = [e \in Events |-> IF e \in g /\ row[e].status = "pending"
                              THEN [row[e] EXCEPT !.due = TRUE] ELSE row[e]]
  /\ UNCHANGED <<worker, reports, tally, faults>>

(***************************************************************************)
(* Claim                                                                   *)
(***************************************************************************)
\* A lease is a fresh UUID, here the number of the claim of its row: the
\* statements that name a lease also name the row.
FreshLease(e) == tally[e].claims + 1

Take(w, e) ==
  /\ ~Busy(w)
  /\ e \in Foremost
  /\ row' = [row EXCEPT ![e].status = "processing", ![e].attempts = @ + 1,
                        ![e].lease = FreshLease(e), ![e].expiry = "live"]
  /\ tally' = [tally EXCEPT ![e].claims = @ + 1]
  /\ UNCHANGED reports

ClaimNext(w, e) ==
  /\ Take(w, e)
  /\ worker' = [worker EXCEPT ![w] = [phase |-> "handling", event |-> e, lease |-> FreshLease(e),
                                      outcome |-> "ok", spent |-> FALSE]]
  /\ UNCHANGED faults

\* The claim commits and the refetch fails: nobody knows the lease.
ClaimLost(w, e) ==
  /\ faults < MaxFaults
  /\ Take(w, e)
  /\ faults' = faults + 1
  /\ UNCHANGED worker

(***************************************************************************)
(* Handler and routing of its outcome                                      *)
(***************************************************************************)
\* A panic and a missing handler are terminal errors.
Handle(w, outcome) ==
  /\ worker[w].phase = "handling"
  /\ outcome = "deferred" => tally[worker[w].event].deferred < MaxDeferrals
  /\ worker' = [worker EXCEPT ![w] = [@ EXCEPT !.phase = "returned", !.outcome = outcome]]
  /\ reports' = reports \cup
       {[event |-> worker[w].event, lease |-> worker[w].lease, outcome |-> outcome]}
  /\ UNCHANGED <<row, tally, faults>>

\* completed keeps its lease columns.
MarkCompleted(w) ==
  /\ Returned(w, "ok")
  /\ Finish(w, [row[worker[w].event] EXCEPT !.status = "completed"], tally[worker[w].event])

MarkSuperseded(w) ==
  /\ Returned(w, "superseded")
  /\ Finish(w, Released(row[worker[w].event], "superseded"), tally[worker[w].event])

MarkDeadLetter(w) ==
  /\ Returned(w, "terminal")
  /\ Finish(w, Released(row[worker[w].event], "dead_letter"), tally[worker[w].event])

Refunded(r) == IF r.attempts > 0 THEN r.attempts - 1 ELSE 0

MarkDeferred(w) ==
  LET e == worker[w].event IN
  /\ Returned(w, "deferred")
  /\ Finish(w, [Released(row[e], "pending") EXCEPT !.due = FALSE, !.attempts = Refunded(row[e])],
               [tally[e] EXCEPT !.deferred = @ + 1])

\* Mutant: one attempt too many.
ExhaustedLate(r) == r.attempts > MaxAttempts
Exhausted(r) == r.attempts >= MaxAttempts

MarkFailedRead(w) ==
  /\ Returned(w, "retry")
  /\ worker' = [worker EXCEPT ![w] =
                  [@ EXCEPT !.phase = "counted", !.spent = Exhausted(row[worker[w].event])]]
  /\ UNCHANGED <<row, reports, tally, faults>>

MarkFailedWrite(w) ==
  LET e == worker[w].event IN
  /\ worker[w].phase = "counted"
  /\ Finish(w, IF worker[w].spent THEN Released(row[e], "dead_letter")
               ELSE [Released(row[e], "pending") EXCEPT !.due = FALSE],
               [tally[e] EXCEPT !.failed = @ + 1])

\* The process dies, the pool is stopped or the worker's statement fails.
Abandon(w) ==
  /\ Busy(w)
  /\ faults < MaxFaults
  /\ faults' = faults + 1
  /\ worker' = [worker EXCEPT ![w] = Idle]
  /\ UNCHANGED <<row, reports, tally>>

(***************************************************************************)
(* Time and the reclaim loop                                               *)
(***************************************************************************)
FallsDue(e) ==
  /\ row[e].status = "pending" /\ ~row[e].due
  /\ row' = [row EXCEPT ![e].due = TRUE]
  /\ UNCHANGED <<worker, reports, tally, faults>>

\* A lease nobody holds any more lapses in time; one whose holder is at work
\* lapses when the handler overruns its deadline, and that is a fault.
LeaseLapses(e) ==
  /\ row[e].status = "processing" /\ row[e].expiry = "live"
  /\ IF \E w \in Workers : Holds(w, e)
       THEN faults < MaxFaults /\ faults' = faults + 1
       ELSE UNCHANGED faults
  /\ row' = [row EXCEPT ![e].expiry = "past"]
  /\ UNCHANGED <<worker, reports, tally>>

\* Mutants: the status is not asked for; spent rows are not requeued.
LapsedAnyStatus == {e \in Events : row[e].expiry = "past"}
LapsedUnspent == {e \in Events : row[e].status = "processing" /\ row[e].expiry = "past"
                                 /\ row[e].attempts < MaxAttempts}
Lapsed == {e \in Events : row[e].status = "processing" /\ row[e].expiry = "past"}

\* One statement for every lapsed row; the attempts stay and are not compared
\* with max_attempts.
RequeueExpiredLeases ==
  /\ Lapsed # {}
  /\ row' = [e \in Events |-> IF e \in Lapsed THEN Released(row[e], "pending") ELSE row[e]]
  /\ tally' = [e \in Events |-> IF e \in Lapsed THEN [tally[e] EXCEPT !.lapsed = @ + 1]
                                ELSE tally[e]]
  /\ UNCHANGED <<worker, reports, faults>>

Init ==
  /\ row = [e \in Events |-> NoRow]
  /\ worker = [w \in Workers |-> Idle]
  /\ reports = {}
  /\ tally = [e \in Events |-> NoTally]
  /\ faults = 0

WorkerNext(w) ==
  \/ \E e \in Events : ClaimNext(w, e)
  \/ \E outcome \in Outcomes : Handle(w, outcome)
  \/ MarkCompleted(w) \/ MarkSuperseded(w) \/ MarkDeadLetter(w)
  \/ MarkDeferred(w) \/ MarkFailedRead(w) \/ MarkFailedWrite(w)

Next ==
  \/ \E w \in Workers : WorkerNext(w) \/ Abandon(w)
  \/ \E w \in Workers, e \in Events : ClaimLost(w, e)
  \/ \E e \in Events : Enqueue(e) \/ FallsDue(e) \/ LeaseLapses(e)
  \/ \E g \in Groups : WakeDeferred(g)
  \/ RequeueExpiredLeases

\* The poll ticker brings every worker back and handlers run under a deadline;
\* the reclaim ticker never stops; time passes.
Fairness ==
  /\ \A w \in Workers : WF_vars(WorkerNext(w))
  /\ \A e \in Events : WF_vars(FallsDue(e)) /\ WF_vars(LeaseLapses(e))
  /\ WF_vars(RequeueExpiredLeases)

Spec == Init /\ [][Next]_vars
FairSpec == Spec /\ Fairness

(***************************************************************************)
(* Properties                                                              *)
(***************************************************************************)
\* Types, and the lease columns: a pending row has no lease, one in process
\* has the newest that was handed out for it.
TypeOK ==
  /\ row \in [Events -> Row]
  /\ worker \in [Workers -> {Idle} \cup Holding]
  /\ reports \subseteq Report
  /\ tally \in [Events -> Tally]
  /\ faults \in 0 .. MaxFaults
  /\ \A e \in Events :
       /\ row[e].status = "pending" => row[e].lease = NoLease /\ row[e].expiry = "null"
       /\ row[e].status = "processing" => row[e].lease = tally[e].claims /\ row[e].lease # NoLease

\* What the outbox promises (Delivery): a fate is sealed only on an outcome
\* some run reported and never changes afterwards, whoever reports late.
Fate(e) == CASE row[e].status = "absent"      -> "unpublished"
             [] row[e].status = "completed"   -> "delivered"
             [] row[e].status = "superseded"  -> "obsolete"
             [] row[e].status = "dead_letter" -> "refused"
             [] OTHER                         -> "owed"

ReportedOutcomes(e) == {r.outcome : r \in {q \in reports : q.event = e}}

Promise == INSTANCE Delivery WITH fate     <- [e \in Events |-> Fate(e)],
                                  reported <- [e \in Events |-> ReportedOutcomes(e)]

AtLeastOnce == Promise!Spec

\* Every published event reaches a fate, however often its workers die, fail
\* or overrun, as long as they do so finitely often and handlers stop
\* deferring it.
DebtsArePaid == Promise!EveryDebtIsPaid

\* The status of a settled row is the outcome of the newest claim of it: a
\* worker whose row was requeued and claimed again settles nothing, even when
\* it comes back while the other one is at work.
VerdictIsTheLastRuns ==
  \A e \in Events : row[e].status \in Settled =>
    \E r \in reports : /\ r.event = e
                       /\ r.lease = tally[e].claims
                       /\ r.outcome \in Promise!Grounds(Fate(e))

\* attempt_count is what failures and lapsed leases spent, deferrals having
\* been refunded, and a row that waits for another attempt has not failed
\* MaxAttempts times.  Lapses may take the count beyond MaxAttempts.
FailuresWithinBudget ==
  \A e \in Events : row[e].status = "pending" =>
    /\ row[e].attempts = tally[e].failed + tally[e].lapsed
    /\ tally[e].failed < MaxAttempts

\* A handler's success is repeated only after a lease of the row lapsed: with
\* no lapse, delivery is exactly once.
Successes(e) == {r \in reports : r.event = e /\ r.outcome = "ok"}
RepeatsNeedLapses ==
  \A e \in Events : Cardinality(Successes(e)) <= tally[e].lapsed + 1
=============================================================================
