------------------------------ MODULE JobStore ------------------------------
(***************************************************************************)
(* The durable job store of PipelineGen: the `jobs' table of the SQLite    *)
(* jobs plane and the transactions of SQLiteStore that change it           *)
(* (src/internal/platform/sqlite/jobs).                                    *)
(*                                                                         *)
(* Every action is one committed transaction.  Where the code reads a row  *)
(* outside the transaction that later changes it (ClaimNext, Retry, the    *)
(* lease reaper) the read and the commit are two actions and the value     *)
(* read waits in `reads', so anything may happen in between.  A read may   *)
(* also be dropped: that is the commit that lost its compare-and-swap, or  *)
(* the process that died.                                                  *)
(*                                                                         *)
(* Callers are not modelled here.  `issued' holds every claim ever handed  *)
(* to a worker, and any claim may be used at any later time: a delayed, a  *)
(* duplicated and a superseded call are all behaviours of this module.     *)
(* JobWorkers says which calls the workers really make.                    *)
(*                                                                         *)
(* The statuses LEASED and FINALIZING appear in the WHERE clauses of the   *)
(* store, yet no statement ever writes them; they are left out.            *)
(***************************************************************************)
EXTENDS Integers, FiniteSets

CONSTANTS
  Jobs,         \* job identifiers
  Workers,      \* worker identifiers
  NoWorker,     \* worker_id = ''
  Budget,       \* max_retries of each job
  MaxLeases,    \* bound: number of claims handed out
  MaxRevision,  \* bound: no retry of an ended row at this revision or beyond
  MaxReads      \* bound: reads waiting for their commit

NoLease == 0    \* lease_id = ''

ASSUME ConstantsAssumption ==
  /\ NoWorker \notin Workers
  /\ Budget \in [Jobs -> Nat]
  /\ MaxLeases \in Nat
  /\ MaxRevision \in Nat
  /\ MaxReads \in Nat

VARIABLES
  row,        \* the jobs table
  issued,     \* claims ever returned by ClaimNext
  lastLease,  \* leases are fresh: time plus random suffix, here a counter
  reads,      \* rows read outside a transaction, not yet committed or dropped
  settled,    \* history: what the holder of each lease made of its job
  dlq,        \* dead_letter_jobs
  announced   \* jobs with a job.completed:<id> key in outbox_events

vars == <<row, issued, lastLease, reads, settled, dlq, announced>>

(***************************************************************************)
(* State                                                                   *)
(***************************************************************************)
Leases   == 1 .. MaxLeases
Terminal == {"SUCCEEDED", "FAILED", "CANCELLED"}
Statuses == {"ABSENT", "SCHEDULED", "QUEUED", "RUNNING", "RETRY_WAIT"} \cup Terminal
RetryableAll == {"RETRY_WAIT"} \cup Terminal    \* mutant: success is retryable too
Retryable == {"RETRY_WAIT", "FAILED", "CANCELLED"}

\* expiry abstracts lease_expiry against the clock: NULL, ahead or behind it.
Row == [status : Statuses, worker : Workers \cup {NoWorker}, lease : Leases \cup {NoLease},
        expiry : {"null", "live", "past"}, retry : Nat, rev : Nat,
        cancelled : BOOLEAN, deferred : BOOLEAN]

Ticket == [job : Jobs, worker : Workers, lease : Leases]
Read   == [op : {"claim", "retry", "reap"}, job : Jobs, status : Statuses, retry : Nat, rev : Nat]
\* A letter of DeadLetter names the claim whose holder wrote it, one of
\* ExhaustRetry has no claim and the revision that its own update produced.
Letter == [job : Jobs, lease : Leases \cup {NoLease}, rev : Nat]

EmptyRow == [status |-> "ABSENT", worker |-> NoWorker, lease |-> NoLease, expiry |-> "null",
             retry |-> 0, rev |-> 0, cancelled |-> FALSE, deferred |-> FALSE]

\* Mutants of Released: worker_id is left behind; the revision stays.
ReleasedKeepingWorker(r, status) ==
  [r EXCEPT !.status = status, !.lease = NoLease, !.expiry = "null", !.rev = @ + 1]
ReleasedInPlace(r, status) ==
  [r EXCEPT !.status = status, !.worker = NoWorker, !.lease = NoLease, !.expiry = "null"]

\* Every transition out of a lease writes worker_id = '', lease_id = '',
\* lease_expiry = NULL and revision + 1 together with the new status.
Released(r, status) ==
  [r EXCEPT !.status = status, !.worker = NoWorker, !.lease = NoLease,
            !.expiry = "null", !.rev = @ + 1]

\* Mutant: the claim leaves the row LEASED.
ClaimedAsLeased(r, w, l) ==
  [r EXCEPT !.status = "LEASED", !.worker = w, !.lease = l, !.expiry = "live", !.rev = @ + 1]

\* A claim writes the same columns the other way.
Claimed(r, w, l) ==
  [r EXCEPT !.status = "RUNNING", !.worker = w, !.lease = l, !.expiry = "live", !.rev = @ + 1]

FreshLease == lastLease + 1

\* Mutant: off by one.
RetryAllowedOnce(j, retry) == retry <= Budget[j]
RetryAllowed(j, retry) == retry < Budget[j]

\* One attempt of the budget spent.
Spent(r) == [Released(r, "RETRY_WAIT") EXCEPT !.retry = r.retry + 1]

\* Mutant: the status is the fence.
OwnsByStatus(t) == row[t.job].status = "RUNNING"

\* A row with the status, worker and lease a fenced UPDATE asks for.  The
\* revision adds nothing to it: a RUNNING row keeps its revision for as long
\* as it keeps its lease, and a caller that lost one has lost the other.
Owns(t) == /\ row[t.job].status = "RUNNING"
           /\ row[t.job].worker = t.worker
           /\ row[t.job].lease = t.lease

\* The CAS of a commit against the row it was decided on.
Fresh(s) == row[s.job].rev = s.rev

Snapshot(op, j) ==
  [op |-> op, job |-> j, status |-> row[j].status, retry |-> row[j].retry, rev |-> row[j].rev]

TakeRead(op, j) ==
  /\ Cardinality(reads) < MaxReads
  /\ reads' = reads \cup {Snapshot(op, j)}
  /\ UNCHANGED <<row, issued, lastLease, settled, dlq, announced>>

\* A read may be used by one process while another holds the same.
Used(s) == reads' \in {reads, reads \ {s}}

(***************************************************************************)
(* Admission                                                               *)
(***************************************************************************)
\* Create inserts a QUEUED row, CreateScheduled a SCHEDULED one.
Create(j, status) ==
  /\ row[j].status = "ABSENT"
  /\ row' = [row EXCEPT ![j] = [@ EXCEPT !.status = status, !.rev = 1]]
  /\ UNCHANGED <<issued, lastLease, reads, settled, dlq, announced>>

PromoteScheduled(j) ==
  /\ row[j].status = "SCHEDULED"
  /\ row' = [row EXCEPT ![j] = Released(@, "QUEUED")]
  /\ UNCHANGED <<issued, lastLease, reads, settled, dlq, announced>>

(***************************************************************************)
(* Claim, renewal and expiry                                               *)
(***************************************************************************)
\* ClaimNext selects a QUEUED row; the order among the candidates is left open.
SelectCandidate(j) ==
  /\ row[j].status = "QUEUED"
  /\ TakeRead("claim", j)

\* The claim itself: a CAS on the status and on the revision selected.
Start(s, w) ==
  /\ s \in reads /\ s.op = "claim"
  /\ row[s.job].status = "QUEUED" /\ Fresh(s)
  /\ lastLease < MaxLeases
  /\ lastLease' = lastLease + 1
  /\ row' = [row EXCEPT ![s.job] = Claimed(@, w, FreshLease)]
  /\ issued' = issued \cup {[job |-> s.job, worker |-> w, lease |-> FreshLease]}
  /\ Used(s)
  /\ UNCHANGED <<settled, dlq, announced>>

\* Mutant: no worker in the WHERE clause.
RenewableByAnyone(t) == row[t.job].status = "RUNNING"

\* The heartbeat is fenced by the worker alone: no lease_id, no revision, and
\* an expired lease that nobody reaped yet is renewed as well.
Renewable(t) == row[t.job].status = "RUNNING" /\ row[t.job].worker = t.worker

RenewLease(t) ==
  /\ Renewable(t)
  /\ row' = [row EXCEPT ![t.job] = [@ EXCEPT !.expiry = "live"]]
  /\ UNCHANGED <<issued, lastLease, reads, settled, dlq, announced>>

LeaseExpires(j) ==
  /\ row[j].expiry = "live"
  /\ row' = [row EXCEPT ![j] = [@ EXCEPT !.expiry = "past"]]
  /\ UNCHANGED <<issued, lastLease, reads, settled, dlq, announced>>

(***************************************************************************)
(* The lease reaper                                                        *)
(***************************************************************************)
\* RequeueExpiredLeases buffers the expired rows ...
ScanExpired(j) ==
  /\ row[j].status = "RUNNING" /\ row[j].expiry = "past"
  /\ TakeRead("reap", j)

\* ... and requeueSingle takes them one transaction each.  The budget test
\* uses the retry_count buffered by the scan and spends none of it.
ReapableOnRead(s) == Fresh(s)    \* mutant: the scan has looked at the expiry
Reapable(s) == row[s.job].expiry = "past" /\ Fresh(s)

RequeueSingle(s) ==
  /\ s \in reads /\ s.op = "reap"
  /\ Reapable(s)
  /\ row' = [row EXCEPT ![s.job] =
               Released(@, IF RetryAllowed(s.job, s.retry) THEN "RETRY_WAIT" ELSE "FAILED")]
  /\ Used(s)
  /\ UNCHANGED <<issued, lastLease, settled, dlq, announced>>

\* The zombie sweep of the admin command buffers the same rows and fails them
\* whatever their budget; what a scan read may be its read as well.
MarkFailed(s) ==
  /\ s \in reads /\ s.op = "reap"
  /\ Reapable(s)
  /\ row' = [row EXCEPT ![s.job] = Released(@, "FAILED")]
  /\ Used(s)
  /\ UNCHANGED <<issued, lastLease, settled, dlq, announced>>

(***************************************************************************)
(* Settlement by the holder of a claim                                     *)
(***************************************************************************)
\* settled never changes for a lease that made nothing of its job.
Settle(t, outcome) == settled' = [settled EXCEPT ![t.lease] = outcome]

AnnounceNothing(j) == UNCHANGED announced    \* mutant: the event is forgotten

\* The outbox insert is ON CONFLICT(event_key) DO NOTHING on a key that names
\* the job only, so a second terminal state announces nothing.
AnnounceCompleted(j) == announced' = announced \cup {j}

Complete(t) ==
  /\ Owns(t)
  /\ row' = [row EXCEPT ![t.job] = Released(@, "SUCCEEDED")]
  /\ AnnounceCompleted(t.job)
  /\ Settle(t, "SUCCEEDED")
  /\ UNCHANGED <<issued, lastLease, reads, dlq>>

Fail(t) ==
  /\ Owns(t)
  /\ row' = [row EXCEPT ![t.job] = Released(@, "FAILED")]
  /\ AnnounceCompleted(t.job)
  /\ Settle(t, "FAILED")
  /\ UNCHANGED <<issued, lastLease, reads, dlq>>

\* ScheduleRetry with budget left; without any it is Fail.
SpendRetry(t) ==
  /\ Owns(t)
  /\ RetryAllowed(t.job, row[t.job].retry)
  /\ row' = [row EXCEPT ![t.job] = Spent(@)]
  /\ Settle(t, "RETRY_WAIT")
  /\ UNCHANGED <<issued, lastLease, reads, dlq, announced>>

ScheduleRetry(t) ==
  \/ SpendRetry(t)
  \/ ~RetryAllowed(t.job, row[t.job].retry) /\ Fail(t)

\* FinalizeAttempt with OutcomeDeferred, the one outcome the workers send.
\* Its UPDATE admits a RETRY_WAIT row too, should one carry a lease.
Defer(t) ==
  /\ row[t.job].status \in {"RUNNING", "RETRY_WAIT"}
  /\ row[t.job].worker = t.worker /\ row[t.job].lease = t.lease
  /\ row' = [row EXCEPT ![t.job] = [Released(@, "RETRY_WAIT") EXCEPT !.deferred = TRUE]]
  /\ Settle(t, "RETRY_WAIT")
  /\ UNCHANGED <<issued, lastLease, reads, dlq, announced>>

(***************************************************************************)
(* Operator and sweep                                                      *)
(***************************************************************************)
Cancel(j) ==
  /\ row[j].status \notin Terminal \cup {"ABSENT"}
  /\ row' = [row EXCEPT ![j] = [Released(@, "CANCELLED") EXCEPT !.cancelled = TRUE]]
  /\ UNCHANGED <<issued, lastLease, reads, settled, dlq, announced>>

\* Retry reads the row first and refuses any other status.
ReadForRetry(j) ==
  /\ row[j].status \in Retryable
  /\ TakeRead("retry", j)

\* cancelled_at and completed_at keep their values, retry_count too.
RetryCommit(s) ==
  /\ s \in reads /\ s.op = "retry"
  /\ RetryAllowed(s.job, s.retry)
  /\ row[s.job].status \in Retryable /\ Fresh(s)
  /\ row[s.job].status \in Terminal => row[s.job].rev < MaxRevision
  /\ row' = [row EXCEPT ![s.job] = [Released(@, "QUEUED") EXCEPT !.deferred = FALSE]]
  /\ Used(s)
  /\ UNCHANGED <<issued, lastLease, settled, dlq, announced>>

\* A RETRY_WAIT row without budget ends here, with its dead letter and
\* without the outbox event of Fail.
ExhaustibleOnRead(s) == row[s.job].status # "RUNNING"    \* mutant: what was read still counts
Exhaustible(s) == row[s.job].status = "RETRY_WAIT" /\ Fresh(s)

ExhaustRetryLogged(s) == FALSE    \* mutant: the exhausted row is only logged
ExhaustRetry(s) ==
  /\ s \in reads /\ s.op = "retry"
  /\ ~RetryAllowed(s.job, s.retry) /\ s.status = "RETRY_WAIT"
  /\ Exhaustible(s)
  /\ row' = [row EXCEPT ![s.job] = Released(@, "FAILED")]
  /\ dlq' = dlq \cup {[job |-> s.job, lease |-> NoLease, rev |-> row[s.job].rev + 1]}
  /\ Used(s)
  /\ UNCHANGED <<issued, lastLease, settled, announced>>

\* DeadLetter is a plain INSERT: no fence, no status.
DeadLetter(t) ==
  /\ dlq' = dlq \cup {[job |-> t.job, lease |-> t.lease, rev |-> 0]}
  /\ UNCHANGED <<row, issued, lastLease, reads, settled, announced>>

DropRead(s) ==
  /\ s \in reads
  /\ reads' = reads \ {s}
  /\ UNCHANGED <<row, issued, lastLease, settled, dlq, announced>>

(***************************************************************************)
(* Specification                                                           *)
(***************************************************************************)
Init ==
  /\ row = [j \in Jobs |-> EmptyRow]
  /\ issued = {}
  /\ lastLease = 0
  /\ reads = {}
  /\ settled = [l \in Leases |-> "open"]
  /\ dlq = {}
  /\ announced = {}

JobStep(j) ==
  \/ \E status \in {"QUEUED", "SCHEDULED"} : Create(j, status)
  \/ PromoteScheduled(j)
  \/ SelectCandidate(j)
  \/ LeaseExpires(j)
  \/ ScanExpired(j)
  \/ Cancel(j)
  \/ ReadForRetry(j)

ReadStep(s) ==
  \/ \E w \in Workers : Start(s, w)
  \/ RequeueSingle(s)
  \/ MarkFailed(s)
  \/ RetryCommit(s)
  \/ ExhaustRetry(s)
  \/ DropRead(s)

HolderStep(t) ==
  \/ RenewLease(t)
  \/ Complete(t)
  \/ Fail(t)
  \/ ScheduleRetry(t)
  \/ Defer(t)
  \/ DeadLetter(t)

Next == \/ \E j \in Jobs : JobStep(j)
        \/ \E s \in reads : ReadStep(s)
        \/ \E t \in issued : HolderStep(t)

Spec == Init /\ [][Next]_vars

(***************************************************************************)
(* Properties                                                              *)
(***************************************************************************)
\* Every variable keeps its type.
TypeOK ==
  /\ row \in [Jobs -> Row]
  /\ issued \subseteq Ticket
  /\ lastLease \in 0 .. MaxLeases
  /\ reads \subseteq Read
  /\ settled \in [Leases -> {"open", "SUCCEEDED", "FAILED", "RETRY_WAIT"}]
  /\ dlq \subseteq Letter
  /\ announced \subseteq Jobs

\* The bookkeeping of leases: exactly the RUNNING rows carry one, it was issued
\* to the worker the row names, it is no other row's lease, and its holder has
\* settled nothing yet.  (The lock released and retaken by UPDATE statements
\* that are spread over five files.)
LeaseConsistent ==
  \A j \in Jobs :
    /\ (row[j].status = "RUNNING") <=> (row[j].lease # NoLease)
    /\ (row[j].lease = NoLease) <=> (row[j].worker = NoWorker)
    /\ (row[j].lease = NoLease) <=> (row[j].expiry = "null")
    /\ row[j].lease # NoLease =>
         /\ [job |-> j, worker |-> row[j].worker, lease |-> row[j].lease] \in issued
         /\ settled[row[j].lease] = "open"

\* No two claims ever share a lease.
IssuedUnique ==
  /\ \A t \in issued : t.lease <= lastLease
  /\ \A t, u \in issued : t.lease = u.lease => t = u

\* A claim settles its job at most once, and only while it is the claim the
\* row carries: no delayed, duplicated or superseded Complete, Fail,
\* ScheduleRetry or deferral gets through.
SettleOnce ==
  [][\A t \in issued : settled'[t.lease] # settled[t.lease] =>
       settled[t.lease] = "open" /\ row[t.job].lease = t.lease]_vars

\* The reaper takes nothing from a worker that renewed in time: a row whose
\* lease is ahead of the clock leaves RUNNING by its holder or by Cancel,
\* whatever the reaper read before the renewal.
LiveLeaseKept ==
  [][\A j \in Jobs :
       row[j].expiry = "live" /\ row'[j].status # "RUNNING" =>
         \/ row'[j].status = "CANCELLED"
         \/ settled'[row[j].lease] # "open"]_vars

\* Success is the one terminal state nothing leads out of.
SucceededIsFinal ==
  [][\A j \in Jobs : row[j].status = "SUCCEEDED" => row'[j] = row[j]]_vars

\* retry_count never exceeds max_retries, and a row that may run has budget
\* left: a job runs max_retries times when its attempts fail, once when
\* max_retries is 0.
BudgetHeadroom ==
  \A j \in Jobs :
    /\ row[j].retry <= Budget[j]
    /\ row[j].status \in {"QUEUED", "RUNNING"} => row[j].retry < Budget[j] \/ Budget[j] = 0

\* A revision names one version of the row: a commit that passes its CAS finds
\* the status and the retry count it was decided on.
ReadsAreVersions ==
  \A s \in reads :
    /\ s.rev <= row[s.job].rev
    /\ Fresh(s) => s.status = row[s.job].status /\ s.retry = row[s.job].retry

\* An outbox event exists exactly for the jobs some holder completed or failed.
AnnouncedExactly ==
  announced = {t.job : t \in {u \in issued : settled[u.lease] \in {"SUCCEEDED", "FAILED"}}}

\* An exhausted job is archived by one sweep only, however many saw it, and
\* stays FAILED from then on.
ExhaustedOnce ==
  /\ \A d, e \in dlq : d.lease = NoLease /\ e.lease = NoLease /\ d.job = e.job => d = e
  /\ \A d \in dlq : d.lease = NoLease => row[d.job].status = "FAILED"

\* What retry.go:72-76 says of a row in RETRY_WAIT: up to and including
\* retry_count = max_retries it "must still be re-enqueued once".
FinalRetryRuns ==
  [][\A j \in Jobs :
       row[j].status = "RETRY_WAIT" /\ row[j].retry <= Budget[j] =>
         row'[j].status # "FAILED"]_vars

\* What the heartbeat takes cancelled_at for: a worker that renews the lease of
\* a RUNNING row is asked to stop only if somebody cancelled that execution,
\* and Cancel leaves no row RUNNING.
RunningNotCancelled ==
  \A j \in Jobs : row[j].status = "RUNNING" => ~row[j].cancelled
=============================================================================
