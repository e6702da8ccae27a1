# The job plane of PipelineGen, and what feeds and follows it, in TLA+

PipelineGen is a Go backend that turns media into jobs: clips are extracted,
voices generated, scripts assembled and videos rendered by handlers that run
for minutes or hours.  What all of them share, and what decides whether a job
runs, runs twice, or is forgotten, is the *job plane*: a SQLite table of jobs,
the workers that claim its rows, the lease that protects a running row, the
sweeps that bring rows back, and the scheduler that admits postponed ones.
This project specifies that plane, and the three subsystems around it in which
processes compete for rows in the same way: the transactional outbox, the saga
that deletes media assets, and the YouTube channel monitor.  TLC checks the
modules on small instances; TLAPS proves every safety property that TLC checks
for every instance, among them two refinements: the outbox implements an
abstract specification of delivery, and the workers, with the ledger that
writes over their rows, implement an abstract lease.

Paths below are relative to `src/internal/` unless they begin with `src/`.

## 1. Inventory

### Job store (`platform/sqlite/jobs`)

*State.*  One row per job: status, `worker_id`, `lease_id`, `lease_expiry`,
`retry_count` against `max_retries`, `revision`, `cancelled_at`,
`deferred_until`; beside it `dead_letter_jobs`, `outbox_events` (a key
`job.completed:<id>`) and `job_schedules`.

*Operations.*  `Create`, `CreateInTx`, `CreateScheduled`, `PromoteScheduled`,
`ClaimNext`, `RenewLease`, `Complete`, `Fail`, `ScheduleRetry`,
`FinalizeAttempt` (deferrals), `Cancel`, `Retry`/`exhaustRetry`,
`RequeueExpiredLeases`/`requeueSingle`, `MarkRunningJobsOlderThanFailed`,
`DeadLetter`, `FinalizeAggregateParent`, and unfenced progress writes.

*Hard behaviour.*  Several operations read a row in one statement and commit
their decision in a later transaction (`ClaimNext`, `Retry`, the reaper); what
stands between them is an optimistic fence on `revision` or on the triple
(status, worker, lease).  Lease release is repeated in five files.

*Correct when* exactly the running rows carry a lease, each lease belongs to
one claim, a claim settles its job at most once and only while it owns it, the
reaper takes nothing from a worker that renewed in time, and the budget, the
dead letters and the outbox agree with what the holders did.

### Job execution (`capabilities/jobs`: `worker_execution*.go`, `worker_finalize_paths.go`)

*State.*  Per worker goroutine: the claim it holds, the handler's outcome, the
state of the heartbeat goroutine; per process the lease reaper (`scanner.go`)
and the retry sweep.

*Operations.*  claim, ledger start, handler, heartbeat, job timeout, refresh,
settlement (`Complete`, `ScheduleRetry`, `Fail`, deferral), dead letter,
read-back, ledger finish.

*Hard behaviour.*  The heartbeat that loses its lease leaves the handler
running beside the next holder; finalization runs without a heartbeat;
settlement errors are only logged; a process may die anywhere.

*Correct when* a job has one holder at a time and only the holder settles it, a
heartbeat prolongs its own lease only, no lease is left behind unless something
failed, and every lease and every waiting retry ends.

### Job Registry ledger (`platform/sqlite/jobregistry`, `worker_metrics.go`)

Statistics and provenance of runs.  It is not a table of its own: `UpdateJob`
writes `status` and `worker_id` of the canonical `jobs` row, without a fence, at
the start of a run, at its end and when the worker panics.  Production always
wires it (`module_jobs.go:59-77`, `lifecycle_job_runner.go:331-333`).

### Worker polling (`capabilities/jobs/worker.go`, `worker_polling.go`, `scheduling/polling.go`, `queue_notifier.go`)

A loop of sweep, claim, run, sleep.  Sleepers wait for a closed channel
(broadcast after a commit) or a timer with backoff.  *Correct when* no wake-up
is lost except the one the timer is there for, each running row has one
worker, and every job ends.

### Deferred-job scheduler (`capabilities/jobs/scheduling/scheduler.go`, `admission.go`, `job_scheduling_store.go`)

Promotes due `SCHEDULED` rows within a daily quota and a concurrency ceiling;
each step of a tick is a transaction, and several processes may tick at once.
The ceiling counts every running job of the plane, scheduled or not.
*Correct when* no day sells more than its quota, nothing scheduled is stranded
and what is due is promoted in the end, if the rest of the traffic lets it.

### Queue admission (`capabilities/jobs/queue/service.go`)

`Enqueue` names a job by up to three keys: an active key, a correlation id
(within a job type) and a client key (client id and idempotency key).  It looks
each of them up, inserts, and looks again when the insert hits a unique index.

*Hard behaviour.*  Every lookup is a statement of its own; the lookups of
correlation id and client key time out into "not found"; the index keeps an
active key for good, while its lookup sees jobs in active states only; no
index guards the correlation id.

*Correct when* one key gives one job, duplicates arise only from requests that
overlap or meet a failure, and a refusal has a cause.

### Transactional outbox (`platform/sqlite/outboxevents`)

*State.*  `outbox_events`: status, attempts, next attempt, worker, lease and its
expiry; a pool of workers, a reclaim loop.

*Operations.*  `Enqueue`, `WakeDeferred`, `ClaimNext`, `MarkCompleted`,
`MarkSuperseded`, `MarkDeadLetter`, `MarkDeferred`, `MarkFailed`,
`RequeueExpiredLeases`.

*Hard behaviour.*  The handler runs outside every transaction, with a deadline
as long as the lease, which nobody renews; a claim that was committed may not
be read back; verdicts may fail to be written; deferrals refund their attempt.

*Correct when* an event is owed until a run of its handler seals its fate, the
verdict is that of the run that holds it, failures stay within the budget, and
every event is settled in the end.

### Media deletion saga (`platform/postgres/media`, `capabilities/jobs/drive_delete*.go`, `index_delete.go`)

*State.*  The asset's lifecycle state, its index state, its tombstone, its
vector and its Drive file; five events of `outbox_events` in PostgreSQL.

*Operations.*  The deletion request; the Drive handler (read, stamp, call Drive,
advance and emit); the index-delete handler (read, stamp, delete points, retire
the row, three more stamps); the index handler (embed, fenced publication);
recommits and reindex requests; batch claims, reclaim and verdicts.

*Hard behaviour.*  Only three of a deletion's writes compare anything; events
are handled late, twice and by different workers; a commit or a delivery may
give the row another Drive file at any time; a lease of five minutes covers a
batch of 32.

*Correct when* no vector outlives its asset, the file goes before the vectors,
no row is left without an event to move it, and a deletion ends.

### YouTube channel monitor (`capabilities/assets/monitor`, `platform/sqlite/assets/youtubediscoveries`, `.../channels`)

*State.*  The channel's row with its claim and its cursor, the discovery ledger,
the monitor's own outbox, a budget counter per check.

*Operations.*  Claim, listing, analysis, budget, reservation, the enqueue
transaction, rejection, watermark, cursor, report; the drainer's claim, hand-over
and marks.

*Hard behaviour.*  A goroutine per video; leases on channels, reservations and
entries that may lapse while their holder works; marks that compare the state
and not the lease; a retry count that is read and written in two statements.

*Correct when* a video has one extraction job and the tables agree on it,
attempts are charged for failures, and every entry is settled.

### Other parts, not modelled

| part | what it does | why not |
| --- | --- | --- |
| Parent aggregation (`lifecycle_finalize.go`) | parents wait for children | unreachable: no statement writes `parent_state_typed = 'waiting_children'` and the jobs plane has no `result_json`, so `ListAwaitingAggregation` returns nothing and `FinalizeAggregateParent` always loses its comparison |
| Finalize spine (`capabilities/jobs/finalize`, `finalization`) | publishes artifacts, then completes | next in the plan, `FinalizeSpine` |
| Remote workers (`platform/jobs/local`, `capabilities/remote`) | the store's operations over HTTP | the store is checked for callers that are late, duplicated or superseded |
| Execution steps, checkpoints | resumable steps of a job | candidate |
| Speculative preparation | best-effort resource pools | a wrong guess costs work and no state |
| Operations, workflow | views of jobs for the API | no concurrency beyond a lock within one process |
| Handlers, external adapters, HTTP, CLI, wiring, observability, generators | computation and I/O | their results are data these parts do not look at; here a handler is an arbitrary outcome and an external call may fail |

### How the parts interact

```
 ChannelMonitor --(its own outbox)--> Admission (Enqueue)
                                          |  insert
                                          v
                                      JobStore <---- JobScheduler (PromoteScheduled)
                                        ^  |
                           ClaimNext,   |  | broadcast after commit; job.completed
                           settlements  |  v                          |
                                    JobWorkers <-- WorkerPolling      v
                                        |                          Outbox
                                        +--> ledger --> unfenced writes to JobStore's rows

 deletion request, commits --> MediaDeletion (its events live in an outbox of their own)
```

Everything meets in rows of tables.  Calls are direct; the only signal from the
job store to its clients is the broadcast, which carries no data.

## 2. Modules

| module | models | checked by |
| --- | --- | --- |
| `JobStore` | the table and its transactions, for arbitrary callers | `MCJobStore` |
| `JobStoreProofs` | theorems of `JobStore` | TLAPS |
| `JobWorkers` | the real callers and their ledger, EXTENDS `JobStore` | `MCJobWorkers` |
| `Fencing` | what a lease promises; abstract | implemented by `JobWorkers` |
| `JobWorkersProofs` | theorems of `JobWorkers`, refinement included, EXTENDS `JobStoreProofs` | TLAPS |
| `JobScheduler` | scheduler and admission | `MCJobScheduler` |
| `JobSchedulerProofs` | theorems of `JobScheduler` | TLAPS |
| `WorkerPolling` | poll loop and notifier | `MCWorkerPolling` |
| `WorkerPollingProofs` | theorems of `WorkerPolling` | TLAPS |
| `Admission` | `Enqueue` by key | `MCAdmission` |
| `AdmissionProofs` | theorems of `Admission` | TLAPS |
| `Delivery` | what an outbox promises; abstract | implemented by `Outbox` |
| `Outbox` | `outbox_events` and its pool | `MCOutbox` |
| `OutboxProofs` | theorems of `Outbox`, refinement included | TLAPS |
| `MediaDeletion` | one asset, its events and their workers | `MCMediaDeletion` |
| `MediaDeletionProofs` | theorems of `MediaDeletion` | TLAPS |
| `ChannelMonitor` | one channel, its videos, the servers that check it | `MCChannelMonitor` |
| `ChannelMonitorProofs` | theorems of `ChannelMonitor` | TLAPS |

**JobStore.**  One action per committed transaction.  Reads that precede their
commit wait in `reads`: `SelectCandidate`/`Start` (`ClaimNext`),
`ScanExpired`/`RequeueSingle` or `MarkFailed` (reaper, zombie sweep),
`ReadForRetry`/`RetryCommit` or `ExhaustRetry` (`Retry`).  Several processes may
hold the same read, so a commit leaves it or takes it away (`Used`); `DropRead` is the
commit that lost its fence, or the process that died.  `issued` keeps every
claim ever handed out and any of them may call at any time, so delayed,
duplicated and superseded calls need no extra machinery.  Lease identifiers
(time and a random suffix) are a counter; `lease_expiry` is NULL, ahead of the
clock or behind it; `settled` is a history variable.  `Retry`, `exhaustRetry`
and `DeadLetter` keep their differences: `DeadLetter` has no fence,
`exhaustRetry` writes no outbox event, `requeueSingle` neither event nor letter.

The fenced updates of the holder also ask for the revision the caller read.
`Owns` leaves it out: a RUNNING row keeps its revision as long as it keeps its
lease, so the triple decides alone.

**JobWorkers.**  `exec[w]` is the program counter of `runJob` with the claim,
the planned settlement and the heartbeat's mode; every action conjoins the
`JobStore` action it calls.  `UpdateJob` is the ledger's write; `StartRun`, `Report`
and `Panic` make it, and `StartUnrecorded` is a start whose write failed.
`overwritten` is history: the rows whose status or worker the ledger changed since
the last transaction, which always writes both together with the lease.
`Crash` loses everything but what was committed; `SettleFaults` is a database
error that the code logs.

**Fencing.**  The lease apart from the columns it is kept in: a holder per job,
leases granted in order, and what the holder of each made of its job.  It is what
the unfenced writes leave of `JobStore`: with the ledger a step of the workers may
put a row into a status and under a name that no transaction would, so the workers
do not implement `JobStore`; the lease they still keep.

**JobScheduler.**  `tick[p]` is the position of a `Tick` between list, count,
read counter, reserve and promote; everything else may happen in between.
Days are counted back from the present one, so the model keeps two.  `others`
counts the running jobs that no schedule named, which come and go as they like;
a scheduled job that runs again after a retry is one of them.

**WorkerPolling.**  The loop of `Start`, the two notifier operations and the
rows reduced to a status.  `owed` holds commits whose broadcast is still to
come; `streak` and `missed` are history.

**Admission.**  `at[r]` is the statement a call of `Enqueue` is about to make;
requests are numbered in the order of their creation stamps, which is how the
lookups break ties.  A request creates one job at most, so the job bears its
request's name.  `Park` and `ComeBack` are all the rest of the job plane.

**Delivery and Outbox.**  `Delivery` has two variables: the fate of an event and
what runs of its handler reported.  `Outbox` models every statement as one
action (`MarkFailed` as two) and keeps the reports as a history; its instance
`Promise` maps status to fate.  `Abandon` is a process that dies or a statement
that fails, `ClaimLost` a claim whose refetch fails.

**MediaDeletion.**  `run[w]` is the next statement of the handler that worker `w`
is in, or the verdict it is about to write; `batch[w]` is what it claimed.  What
`CallFails`, `SettleFails`, `Crash`, `Recommit`, `UpdateDriveDelivery`, a second
request and `ReclaimOvertaken` have in common is a bound (`Room`).  `file` is the
file that the row names now.  A commit or a delivery may put another in its place
(`GivesFile`), or none; a worker that read the row before goes on with the file it
has read (`outdated`), and a file given to a row whose deletion has read its file
already, or is past it, is one that the deletion does not know (`escaped`).

**ChannelMonitor.**  `check[s]` and `work[s]` are a server's check and the
goroutines in it, `drain[s]` the batch its drainer works through.  Days are the
unit of the listing's date filter, so the clock counts days and passes unseen
until somebody asks.  `Enqueue` is one step here: `Admission` shows what it does
with nothing but an active key.

Not in any module: the statuses `LEASED` and `FINALIZING`, which WHERE clauses
mention and no statement writes; `WAITING_CHILDREN` and `PARTIALLY_SUCCEEDED`;
progress, payload and timeline columns; completion of artifact jobs through the
`CompletionPort`; the fallback of the poll loop for a missing notifier, which is
`WorkerPolling` without `WakesUp`; shutdown.  Of the media plane: restoring an
asset (no production caller), bulk edits by operators, the sweepers that call
`SoftDeleteAsset` directly, the CLI backfill of visual embeddings, which stores
vectors without the fence of the index handler (`visual_embedding.go:300`; a row
that is retired while it runs may get a vector back), the SQLite saga that precedes this one, and the
reconciler, which scans SQLite only.  Of the monitor: filters, transcripts and
scoring (videos that they drop leave no trace) and the manual endpoints.

## 3. Runs

| run | cfg | question | distinct states |
| --- | --- | --- | --- |
| `job_store` | `JobStore.cfg` | do the transactions keep leases, budgets, letters and events in order, whoever calls? | 1.9 million |
| `job_workers` | `JobWorkers.cfg` | does the lease hold between two contending workers, with crashes, failed calls and the ledger's writes? | 2.3 million |
| `job_workers_live` | `JobWorkersLive.cfg` | does every lease and every waiting retry end? | 503 548 |
| `job_scheduler` | `JobScheduler.cfg` | do two schedulers keep the daily quota across cancellations, errors and midnight, and promote what is due beside other traffic? | 525 206 |
| `worker_polling` | `WorkerPolling.cfg` | which wake-ups are lost, and do the timers make up for them? | 393 000 |
| `admission` | `Admission.cfg` | which requests get one job, and why are others duplicated or refused? | 3.9 million |
| `outbox` | `Outbox.cfg` | does the outbox deliver at least once, with the verdict of the run that holds the event? | 224 833 |
| `media_deletion` | `MediaDeletion.cfg` | do file, vectors and row go in order, and does the deletion end, whatever file the row is given? | 147 083 |
| `channel_monitor` | `ChannelMonitor.cfg` | does a video get one job, and every entry its end? | 181 130 |
| `final_retry`, `chain_reset`, `cancel_stands` | `V*.cfg` | three statements of the repository that the code does not keep (section 6) | a counterexample each |

What the properties say:

- `LeaseConsistent`, `SettleOnce` (and `IssuedUnique`, which is proved): the lease as a lock.  A row
  is RUNNING exactly when it carries a lease, which was issued to the worker it
  names and whose holder settled nothing yet; leases are never shared; a
  settlement gets through once, and only from the claim the row carries.
- `LiveLeaseKept`: a row with a live lease leaves RUNNING by its holder or by
  `Cancel`, although the reaper commits on a row it scanned earlier.
- `ReadsAreVersions`: `revision` names one version of status and retry count;
  this is why the optimistic commits may trust what they read.
- `BudgetHeadroom`, `ExhaustedOnce`, `AnnouncedExactly`, `SucceededIsFinal`:
  the retry budget at its boundary, one archive per exhausted job however many
  sweeps saw it, one outbox event for the jobs some holder completed or failed
  (and none for those the reaper or the sweep ended), and no way out of success.
- `WorkersAreFenced`: the refinement of `Fencing`.  Whatever the ledger makes of
  status and worker, a job has one holder at a time, only the holder settles, and
  an execution that was superseded, reaped or cancelled settles nothing.
- `BeatRenewsOwnLease`: `RenewLease` is fenced by the worker id alone, and that is
  enough only because a worker joins its heartbeat before it claims again, and
  only where the row names the worker its lease was issued to.  A superseded
  worker whose `StartRun` or `Report` comes late puts its own name on the new
  holder's row, and the heartbeat of a superseded execution may then renew a
  lease that is not its own; the property exempts exactly those rows.
- `NoLeakedLease`: without a fault every RUNNING row has its execution, unless the
  ledger has written over the row since its last transaction.
- `LeaseEnds`, `RetryWaitEnds`: the liveness of leases and of retries, with the
  ledger writing whatever it writes.  `LeaseEnds` speaks of the RUNNING rows whose
  `lease_expiry` is not NULL.  Of the others, which only the ledger produces, no
  liveness holds: `cancel_stands` (section 6) shows how such a row arises, and no
  reaper selects it.
- `PromotionsArePaidFor`, `DueIsPromoted`: the scheduler.  The second one assumes
  that some scheduler finds room below the ceiling again and again
  (`CountsFindRoom`).  Nothing in the code ensures it: `CountActiveJobs` counts
  every running job of the plane, and traffic that fills the ceiling at each count
  starves the due jobs for good; without the assumption TLC shows that.
- `NoOtherLostWakeup`, `EveryJobEnds`: polling.  The first one
  says precisely which order of events loses a wake-up: a broadcast between an
  empty claim and the `Subscribe` that follows it.

- `OneKeyOneJob`, `DuplicatesOverlap`, `RefusalsAreExplained`: admission.  The
  last two say exactly how far the promise reaches that a replay returns the
  same job (section 6).
- `AtLeastOnce`, `DebtsArePaid`: `Delivery`, its safety and its liveness.
  `VerdictIsTheLastRuns` fences late verdicts, `FailuresWithinBudget` keeps the
  accounts of attempts exact across refunds and lapses, `RepeatsNeedLapses` says
  what a handler need not be idempotent against.
- `RetiredHasNoVector`, `FileFirst`: what the asset's columns may never say of the
  index and of Drive, however index and deletion events interleave and whatever
  file the row is given meanwhile.  `FileFirst` exempts the files that escaped
  (section 6) and no others.
  `NoStuckRow`, `DeletionEnds`: every row of the chain has an event that moves
  it, and the chain ends; both exempt what the saga does not survive
  (`Disturbed`), and section 6 lists it.
- `OneExtraction`: at most one job per video, and ledger, outbox and jobs agree
  on it.  `ChargedForFailures`: an entry is charged for calls that failed, as
  long as its job is active.  `EntrySettles`: every entry ends.

### Bounds, and why they are enough

- `JobStore`: two jobs with budgets 1 and 0 (a boundary each; with `RetryAllowed`
  off by one they differ), two workers, `MaxLeases = 2` (a claim and the one
  that supersedes it), `MaxReads = 2` (two sweeps, or sweep and reaper, on one
  row), `MaxRevision = 7`: no retry of a row beyond that revision, which leaves room for
  a full life, a cancellation or failure, a retry and a second execution.
- `JobWorkers`: one job, for which two workers contend, two claims,
  `MaxFaults = 1` crash, panic or failed call, one read at a time (`MaxReads = 1`:
  a claim, a sweep or a reaper between read and commit, which renewals, settlements,
  cancellations and the ledger race with), and no operator retry of an ended row
  from revision 4 on (`MaxRevision`).  The handler may return anything (`Results`).
  `Quiet` would allow one reaper read and one retry read of a job at a time;
  `JobStore` checks what two reads do to each other.  The operator's zombie
  sweep is left to `JobStore`.  The liveness run has transient errors only, which
  lead to retries and, without budget, to failures, one read at a time, and no
  operator retry of an ended row: what ends a lease is the same for every result.
- `JobScheduler`: two jobs, one more at a time that no schedule names, quota of
  two, ceiling of one and one fault (failed call or operator retry): that one job
  fills the ceiling, the ceiling holds a job back on every day, the quota
  holds one back as soon as a promotion was wasted.  `Days` holds two days: a
  tick lasts at most until the end of the day after it began.
- `WorkerPolling`: two workers, two jobs with two attempts, one failed call;
  `Base = 1`, `MaxBackoff = 4`, `Threshold = 1` let the interval double twice
  where it is counted.

- `Admission`: three requests (a job, its rival and the one that comes after
  both), each with any of the seven combinations of one active key, one
  correlation id and one client key; one of them may meet failures, as many as
  it likes.
- `Outbox`: an urgent and an ordinary event, two workers, two attempts, one
  deferral, one crash or failed statement.  Leases lapse freely.
- `MediaDeletion`: two workers, two attempts, one trouble.  With two troubles the
  safety properties held on 3.4 million states.
- `ChannelMonitor`: two servers, one video, two checks (one that is overtaken by
  the other), two attempts per entry, one crash or failed call.  The budget
  matters with two videos only: two servers and two videos, `LastDay = 1`,
  `MCSymmetry`, safety with `BudgetHolds`: 4.9 million states without an error in
  three and a quarter minutes.

Symmetry is used in safety runs only.  `CHECK_DEADLOCK FALSE` stands where the
behaviour really ends: once the claims, requests or checks are used up and every
event is settled.

### Fairness

- `JobWorkers`: goroutines that may go on do (`Proceeds`); the job timeout
  fires (`context.WithTimeout` in `runJob`); a handler whose context is
  cancelled returns; a lease that nobody renews expires (the clock); the reaper
  and the sweep run on tickers.  Strong fairness is assumed of the two commits
  `ReaperTakes` and `SweepCommits` only: a lost fence disables them until the
  next tick reads the row again, and the ticker does so without end.  Nothing
  is assumed of heartbeats, of crashed workers, or of what a handler returns.
- `JobScheduler`: `Run` always sets its timer again, workers claim and finish,
  other jobs end, time passes and so do days.  That a count finds room is no
  fairness of the code and stands as a premise in `DueIsPromoted`.
- `WorkerPolling`: goroutines run, timers fire, broadcasts follow their commit,
  handlers return within the job timeout, due times come.

- `Outbox`: the poll and reclaim tickers never stop, handlers run under a
  deadline, time passes.  Nothing is assumed of producers or of what handlers
  return; deferrals and faults are finite.
- `MediaDeletion`: the worker's loop goes on after every error
  (`outbox_worker.go:472-544`), and it reclaims lapsed leases.
- `ChannelMonitor`: a drainer runs every five seconds
  (`outbox_drainer.go:43-59`) and the entries' timers pass.  Nothing is assumed
  of checks.

## 4. Proofs

All theorems hold for every value of the constants, from the named assumption
of their module alone (`ConstantsAssumption`, `OutboxAssumption`,
`AdmissionAssumption`, `MonitorAssumption`, ...), which the runs evaluate.  The
assumptions say that bounds and budgets are numbers and that there is a worker;
`SchedulerAssumption` also says that finitely many schedulers run, because the
books of a day count them.

| module | theorem | statement |
| --- | --- | --- |
| `JobStoreProofs` | `Typing` | `Spec => []TypeOK` |
| | `LeasesAreConsistent` | `Spec => []LeaseConsistent` |
| | `ClaimsAreUnique` | `Spec => []IssuedUnique` |
| | `EveryClaimSettlesOnce` | `Spec => SettleOnce` |
| | `CommitsSeeTheirRow` | `Spec => []ReadsAreVersions` |
| | `BudgetIsNeverOverrun` | `Spec => []BudgetHeadroom` |
| | `SuccessIsFinal` | `Spec => SucceededIsFinal` |
| | `RenewalsBeatTheReaper` | `Spec => LiveLeaseKept` |
| | `AnnouncementsAreExact` | `Spec => []AnnouncedExactly` |
| | `ExhaustionIsArchivedOnce` | `Spec => []ExhaustedOnce` |
| `JobWorkersProofs` | `WorkersTyping` | `WorkersSafety => []WorkersTypeOK` |
| | `WorkersImplementFencing` | `WorkersSafety => WorkersAreFenced`, the refinement of `Fencing` |
| | `WorkersSettleOnce` | `WorkersSafety => SettleOnce` |
| | `HeartbeatsRenewTheirOwn` | `WorkersSafety => []BeatRenewsOwnLease` |
| | `NothingIsLeaked` | `WorkersSafety => []NoLeakedLease` |
| `JobSchedulerProofs` | `SchedulerTyping` | `Spec => []TypeOK` |
| | `QuotaIsKept` | `Spec => []PromotionsArePaidFor` |
| `WorkerPollingProofs` | `PollingTyping` | `Spec => []TypeOK` |
| | `TheOnlyLostWakeup` | `Spec => []NoOtherLostWakeup` |
| `OutboxProofs` | `OutboxTyping` | `Spec => []TypeOK` |
| | `VerdictsAreFenced` | `Spec => []VerdictIsTheLastRuns` |
| | `FailuresAreBounded` | `Spec => []FailuresWithinBudget` |
| | `OutboxKeepsItsPromise` | `Spec => AtLeastOnce`, the refinement of `Delivery` |
| | `RepeatsAreLapses` | `Spec => []RepeatsNeedLapses` |
| `MediaDeletionProofs` | `DeletionTyping` | `Spec => []TypeOK` |
| | `NoGhosts` | `Spec => []RetiredHasNoVector` |
| | `FilesGoFirst` | `Spec => []FileFirst` |
| | `NothingGetsStuck` | `Spec => []NoStuckRow` |
| `AdmissionProofs` | `AdmissionTyping` | `Spec => []TypeOK` |
| | `OneJobPerKey` | `Spec => []OneKeyOneJob` |
| | `DuplicatesAreConcurrent` | `Spec => []DuplicatesOverlap` |
| | `RefusalsExplained` | `Spec => []RefusalsAreExplained` |
| `ChannelMonitorProofs` | `MonitorTyping` | `Spec => []TypeOK` |
| | `OneExtractionPerVideo` | `Spec => []OneExtraction` |
| | `AttemptsAreFailures` | `Spec => []ChargedForFailures` |
| | `BudgetIsKept` | `Spec => []BudgetHolds` |

**JobStore: leases.**  `LeaseConsistent` is not inductive: a fresh claim must find
its lease unsettled, and a settlement must not touch the lease of another row.
The inductive invariant is `LeaseInv == LeaseConsistent /\ IssuedUnique /\
FreshOpen`, where `FreshOpen` says that a lease not handed out yet is open.
`HeldAlone` draws from it that the row a settlement passes the fence of is the
only one with that lease; `ReleaseKeepsLeaseInv` covers every action that takes
a row out of RUNNING, so the proof has one short step per action
(`LeaseInvariance`).  `SettleOnce` then follows for each action that writes
`settled`.  Typing rests on four lemmas about `Released`, `Claimed` and
single-column updates of a record.

**JobStore: rows.**  `EveryRowSteps` says all that may happen to a row in a step:
it is kept, created, moved along an edge of the status graph, charged for an
attempt, or retried from a read that is still fresh.  The proofs about versions
and budgets look at these five cases instead of twenty actions.  Each but the
first raises `revision`, so a read with the row's revision is true of the row
(`VersionInv`, which adds that a row that was not inserted has revision 0); and a
retry was decided on the `retry_count` the row still has (`BudgetInv`, which adds
that a row that never ran has spent nothing).  `RenewalsBeatTheReaper` names the
ways out of RUNNING; `ExhaustInv` adds that an archived row has no budget left,
which is what keeps every later retry of it from being committed.

**JobWorkers.**  `CallsInv` says which claim a worker holds at each place of its
program: one that the store issued to it, between claim and report, and none
elsewhere.  With it every step of a worker is a transaction of `JobStore` or a
write of the ledger (`EveryStep`), and the invariants of `JobStore` do not carry
over, as the second kind breaks them.  What carries over is the lease, which the
ledger never writes: `FenceInv` says that the leases on rows were issued for them
and are unsettled, and `EveryLeaseMove` that a step takes a lease, settles it, drops
it or keeps it, which are `Grant`, `Settle`, `Revoke` and a stutter of `Fencing`.
`WorkersSettleOnce` is `SettleOnce` of `JobStore` from the same facts.

A heartbeat names no lease; that it renews its own rests on the order in which
leases are handed out: a row carries the newest lease issued for it and a worker
holds the newest issued to it (`OwnInv`), so a row that names the worker its lease
was issued to carries the lease that this worker holds.  `LeakInv` follows a claim
from its commit to the end of its run: a RUNNING row that the ledger has not
touched is executed by the worker it names, and a worker past its settlement has
let go of its row or has written over it.  `overwritten` is what makes it
inductive: a transaction writes status, worker and lease together and so takes a
row out of it, unless it keeps the row RUNNING under the name it has (`RunsKept`).

**JobScheduler.**  The books of a day: what has been promoted on it, together
with the ticks that have reserved and not yet promoted, is at most the counter,
and the counter at most the quota.  A reservation raises both sides, a promotion
moves a tick's share to a job, a failure gives it up, and midnight opens a new
page.  `TickInv` supplies what a tick knows at each place (it has a day; it has
a slot where it is about to promote), for it may have been overtaken by any
number of others since it counted.

**WorkerPolling.**  `PollInv` adds to the types that a job that may be claimed has
an attempt left, whence the bound on its claims.  `TellInv` generalises
`NoOtherLostWakeup` to workers that have found the queue empty and have yet to
subscribe: of every job announced since, they have been told, or it is on record
as missed.

**Outbox.**  The invariant has a part for each event (its columns, its accounts,
and, once it is settled, the report that settled it) and a part for each busy
worker (its lease was handed out for its event, its report is on record, and the
count it read is still the row's for as long as it owns the row).  The
refinement needs it: a step that seals a fate must find its grounds among the
reports.  Each action of `Outbox` then maps to `Publish`, `Report`, `Seal` or a
stutter.  `RepeatsAreLapses` is a count: the reports of an event bear different
leases (`ReportsInv`), a deferral or a failure uses up one report that is no
success, and the claims are at most the deferrals, the failures, the lapses and
the one in hand (`Balanced`); what is left for successes is the lapses and one.

**MediaDeletion.**  No lock protects the asset between two steps of a handler.
What a handler has established stays true because it only ever moves one way: a
retired index state is never left, and a file that was handled stays so.  The one
thing that undoes the second fact is a commit or a delivery that gives the row
another file (`ProducerKeeps`); if any handler may still count on the fact then,
the new file has escaped, and `Handled` says no more.  Workers that act on an
outdated file exist only after that (`outdated # {} => escaped`).  The invariant
says for each place in a handler which of these facts hold there.  `NoStuckRow` is a
different matter, as lifecycle states do come back.  While nothing is disturbed
(`Calm`), an event in a batch is leased to the worker whose batch it is, so that
no two workers share one; every attempt of an event is paid for by a failure, but
for the one under way, so that a retry always has attempts left; and whoever is
about to close an event has seen the row move on.  The hand-over in
`AdvanceAndEmit` is sound because only one of the two Drive events exists, and its
worker is alone with it.

**Admission.**  `IInv` adds to the types that the indexes kept the keys apart,
that every answer shares a key with its request, what the histories say, and
what the place of a call that met no failure says of its keys (each lookup that
found nothing excludes a rival that had returned before the call began).

**ChannelMonitor.**  The counter of a check is the cardinality of the set of its
videos that hold a slot (`Budget`); the tables agree (`Agreement`); and a refusal
that is about to be charged is a fault that nobody was charged for yet: the
number of drainers that will still charge an entry and what it was charged
already add up to at most the faults so far (`Charges`).  `ChargedForFailures` is
not inductive without that sum, because the count is read and written apart.

Checked by TLC only: liveness (`LeaseEnds`, `RetryWaitEnds`, `DueIsPromoted`,
`EveryJobEnds`, `DebtsArePaid`, `DeletionEnds`, `EntrySettles`), which TLAPS cannot
prove (nor anything with ENABLED, nor by induction over data, nor in a module
that declares a RECURSIVE operator; no module here does).  Every safety property
of a passing run is proved.

## 5. Plan

Done: the job plane (`JobStore`, `JobWorkers`, `JobScheduler`, `WorkerPolling`,
`Admission`), `Delivery` and `Outbox`, `MediaDeletion`, `ChannelMonitor`, and the
proofs of section 4.  To come:

1. `FinalizeSpine`: publication, staging and the one completion transaction of
   artifact jobs, composed with the claims of `JobStore`.
2. `JobLifecycle`: the states a job shows to its clients, as an abstract
   specification that `JobStore` implements.
3. With `JobLifecycle`, the proof that `JobStore` implements it, from
   `EveryRowSteps`; and with `FinalizeSpine`, that an artifact is completed by the
   claim that published it.

## 6. Where code and documentation disagree

1. **The last retry never runs** (`final_retry`).  `ScheduleRetry` spends the
   attempt when it moves a job to RETRY_WAIT, and `RetryDue` says such a row
   "must still be re-enqueued once" (`scheduling/retry.go:72-76`); `Retry`
   finds `retry_count >= max_retries` and dead-letters it
   (`lifecycle_aggregation.go:202`).  The same test ends a deferral of a job
   that has no budget.
2. **A second deletion request resets the chain** (`chain_reset`).  The
   conditional stamp spares the states of the chain except `DRIVE_DELETED` and
   `INDEX_DELETED` (`delete_saga.go:232-235`); the event keys of the first request
   exist already, so nothing drives the chain again, and the row stays in
   `DELETE_REQUESTED`.  `lifecycle_state.go:44-46` says a re-enqueue does not reset
   the chain.
3. **A cancelled job runs again** (`cancel_stands`).  The ledger's start of a run
   writes the status the row had when it was claimed, without a fence
   (`worker_metrics.go:97`, `jobregistry/registry.go:58`).  A job that is cancelled
   in between is RUNNING again, with no lease and `lease_expiry` NULL: no heartbeat,
   settlement or reaper will ever touch it.  `worker_execution_lease.go:107-113`
   calls Cancel a terminal transition after which the handler is stopped, and
   `worker_metrics.go:173` calls the ledger telemetry.

Five more statements are refuted by properties that stand in their modules and
in no run; adding one to its module's configuration reproduces the trace.

- `RunningNotCancelled` (`JobStore`): `Retry` keeps `cancelled_at`, and the first
  heartbeat of the retried execution takes it for a new cancellation
  (`lifecycle_aggregation.go:222`, `repository_claims.go:301`).
- `LaneCap` (`JobScheduler`): the ceiling does not count the jobs that were
  promoted and are still QUEUED, so two ticks can exceed it
  (`job_scheduling_store.go:295`).
- `BackoffGrows` (`WorkerPolling`): `polling, escalated :=` shadows the state it
  should update; the interval never grows (`worker.go:496`).
- `ReplayReturnsSameJob` (`Admission`): a request with an active key whose job has
  ended, or waits for a retry, is refused as a duplicate, although
  `src/docs/operations/job-debug-runbook.md:340-342` says that replaying a key
  returns the same job.
- `DeletedHasTombstone` (`MediaDeletion`): the stamps of INDEX_DELETED and DELETED
  that follow `SoftDeleteAsset` empty `deleted_at` again
  (`delete_saga.go:148-153`).

What the deletion saga does not survive, besides a second request
(`Disturbed`): a commit of the asset by its producer in the middle (the row is
ACTIVE again and its Drive event is dead-lettered), a lease that lapses under a
worker (the second handler's unconditional stamp throws `DRIVE_DELETED` back), and
as many failures as attempts.  A crash after the stamp of `INDEX_DELETED` leaves
that state for good, one after `SoftDeleteAsset` leaves `index_state` at
`DELETE_PENDING`; neither leaves a vector.

Nor does it survive that the row is given another file.  The upsert of a commit
replaces `drive_file_id` (`committer.go:219-231`), a delivery sets it
(`mutations.go:362-395`), and `performDriveDelete` deletes the file that the
preflight read.  A worker passes the preflight, the asset is committed with a new
file, the worker's unconditional stamp throws the row back to
`DRIVE_DELETE_PENDING`, the old file goes to the trash, and the chain runs to its
end: a retired asset whose current file is live.  TLC gives this trace for
`FileFirst` with `Handled` reduced to `file # "live"`.  The same comes of a file
that is delivered to a row in `DRIVE_DELETED` or to a retired one.

A permanent deletion after a finished trashing is completed without deleting
anything.

Smaller remarks, without a run: the comment at `worker.go:433` lists
`RequeueExpiredLeases` among the operations that broadcast, and it does not;
`repository_claims.go:269` reads as if an expired lease could not be renewed,
and it can until the reaper takes it; `lease_state.go` asks the caller to abort
the job after a lost lease, and the heartbeat leaves the handler running
(`worker_execution_heartbeat.go:148-157`); a job that failed, was retried and
then succeeded announces its completion once, for the failure, because the
outbox key names the job only (`lifecycle_complete.go:198-202`).
The comments at `repository_jobs_crud.go:466-469` name an index on (type,
correlation_id) that no migration of the jobs plane creates, and the operations
table of the jobs plane (`002_operations_plane.sql`) lacks the unique index that
`146_operations_active_unique.sql` calls the sole constraint.  A channel entry goes
`dead` after three refusals although its job exists, when that job waits for a
retry or has ended (`monitor_outbox.go:408-425`).

The cursor of the channel monitor is the day of the newest settled discovery
(`youtube_discoveries_repository.go:304-310`), and the next listing begins there.
A video uploaded after a listing and before its cycle takes the day
(`cycleNow`) falls behind the cursor without ever having been listed, and so does
an older one that the budget of its cycle left out while a newer one was settled.
No comment promises that they stay listed: the one at lines 288-291 only says why
rows in progress are left out of the watermark.  `discovery.go:152` and `:233` call
the cursor monotonic; `UpdateCursor` compares nothing, so that of two overlapping
checks the one that read its watermark first may write it last and move the
cursor back.
