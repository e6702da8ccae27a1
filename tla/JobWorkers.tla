----------------------------- MODULE JobWorkers -----------------------------
(***************************************************************************)
(* The in-process workers of PipelineGen as clients of the job store       *)
(* (src/internal/capabilities/jobs): the life of one execution from the    *)
(* claim to the final ledger entry, its heartbeat goroutine, the job       *)
(* timeout, the retry sweep, the lease reaper and the operator.            *)
(*                                                                         *)
(* JobStore says what the transactions do; this module says who calls them *)
(* and when.  Each action conjoins the store action it calls, so that what *)
(* JobStore promises for arbitrary callers holds here as well -- with one  *)
(* exception.  The Job Registry ledger, which the comments of the code     *)
(* call telemetry, writes status and worker_id of the same jobs row        *)
(* without any fence.  Production always wires it (module_jobs.go,         *)
(* lifecycle_job_runner.go), and so does this module: every property below *)
(* is one of workers that report to it.                                    *)
(*                                                                         *)
(* Jobs whose type produces artifacts complete through the CompletionPort  *)
(* instead of Complete; that path is not part of this module.              *)
(***************************************************************************)
EXTENDS JobStore

CONSTANTS
  Results,    \* bound: what the handlers considered may return
  MaxFaults   \* bound: crashes of a worker and failed database calls

ASSUME WorkersAssumption ==
  /\ Results \subseteq {"complete", "defer", "fail", "transient"}
  /\ MaxFaults \in Nat

VARIABLES
  exec,         \* what each worker goroutine is doing
  overwritten,  \* history: jobs whose row the ledger changed since a transaction wrote it
  faults        \* faults so far

workerVars == <<row, issued, lastLease, reads, settled, dlq, announced, exec, overwritten, faults>>

(***************************************************************************)
(* State                                                                   *)
(***************************************************************************)
\* runJob from the claim on: `claimed' until the ledger has the start,
\* `running' while the handler runs, then the steps of finalizeJob.
Phases == {"idle", "claiming", "claimed", "running", "refresh", "settle", "archive", "readback",
           "report"}
Executing == {"running", "refresh", "settle", "archive", "readback", "report"}

\* The heartbeat goroutine: beating; it lost the lease and has not looked why;
\* it left the handler running without a lease; or jobCtx is cancelled.
Modes == {"beating", "lost", "orphaned", "told"}
Plans == {"none", "complete", "retry", "fail", "defer"}

NoRead  == [op |-> "none"]
NoClaim == [lease |-> NoLease]

Idle == [phase |-> "idle", read |-> NoRead, claim |-> NoClaim, mode |-> "told",
         plan |-> "none", seen |-> "ABSENT"]

Exec == [phase : Phases, read : Read \cup {NoRead}, claim : Ticket \cup {NoClaim},
         mode : Modes, plan : Plans, seen : Statuses]

At(w, phase) == exec[w].phase = phase
Claim(w) == exec[w].claim
Quit(w) == exec' = [exec EXCEPT ![w] = Idle]

\* A transaction that gives the row a new revision writes its status, worker
\* and lease together, whatever the ledger had put there.
Transacted == overwritten' = {j \in overwritten : row'[j].rev = row[j].rev}

Fails == faults < MaxFaults /\ faults' = faults + 1
Fault == Fails /\ Transacted
NoFault == UNCHANGED faults /\ Transacted

(***************************************************************************)
(* Claiming                                                                *)
(***************************************************************************)
Holds(w, s) == At(w, "claiming") /\ exec[w].read = s

Select(w, j) ==
  /\ At(w, "idle")
  /\ SelectCandidate(j)
  /\ exec' = [exec EXCEPT ![w] = [Idle EXCEPT !.phase = "claiming", !.read = Snapshot("claim", j)]]
  /\ NoFault

ClaimWins(w) ==
  /\ At(w, "claiming")
  /\ Start(exec[w].read, w)
  /\ reads' = IF \E v \in Workers \ {w} : Holds(v, exec[w].read) THEN reads
              ELSE reads \ {exec[w].read}
  /\ exec' = [exec EXCEPT ![w].phase = "claimed", ![w].claim =
                [job |-> exec[w].read.job, worker |-> w, lease |-> lastLease']]
  /\ NoFault

\* ErrTransitionConflict (another revision, or a status that the ledger has put
\* there), or the bound on claims; the poll counts as empty.
ClaimLoses(w) ==
  /\ At(w, "claiming")
  /\ LET s == exec[w].read
     IN  /\ \/ s \notin reads \/ ~Fresh(s) \/ row[s.job].status # "QUEUED"
            \/ lastLease = MaxLeases
         /\ \/ DropRead(s)
            \/ s \notin reads /\ UNCHANGED vars
  /\ Quit(w)
  /\ NoFault

(***************************************************************************)
(* The ledger                                                              *)
(***************************************************************************)
\* UpdateJob: UPDATE jobs SET status = ?, worker_id = ?, ... WHERE id = ?
\* Neither the lease nor the revision is among the columns.
UpdateJob(j, status, w) ==
  /\ row' = [row EXCEPT ![j] = [@ EXCEPT !.status = status, !.worker = w]]
  /\ overwritten' = IF row' = row THEN overwritten ELSE overwritten \cup {j}
  /\ UNCHANGED <<issued, lastLease, reads, settled, dlq, announced>>

RunBegins(w) ==
  /\ At(w, "claimed")
  /\ exec' = [exec EXCEPT ![w].phase = "running", ![w].mode = "beating"]

\* ledger.Start records the job as ClaimNext returned it: RUNNING.  An error of
\* the ledger is logged and the run begins all the same.
StartRun(w) == RunBegins(w) /\ UpdateJob(Claim(w).job, "RUNNING", w) /\ UNCHANGED faults
StartUnrecorded(w) == RunBegins(w) /\ UNCHANGED vars /\ Fault

(***************************************************************************)
(* Heartbeat and timeout                                                   *)
(***************************************************************************)
\* A renewal that finds cancelled_at set cancels jobCtx.
Beat(w) ==
  /\ exec[w].phase \in Executing /\ exec[w].mode = "beating"
  /\ RenewLease(Claim(w))
  /\ exec' = [exec EXCEPT ![w].mode = IF row[Claim(w).job].cancelled THEN "told" ELSE "beating"]
  /\ NoFault

\* A heartbeat that has lost the lease matters as long as the handler runs;
\* during finalization it just ends.
BeatLoses(w) ==
  /\ exec[w].phase \in Executing /\ exec[w].mode = "beating"
  /\ ~Renewable(Claim(w))
  /\ exec' = [exec EXCEPT ![w].mode = IF At(w, "running") THEN "lost" ELSE "told"]
  /\ UNCHANGED vars /\ NoFault

\* A second read tells a cancellation from a lost lease.  In the latter case
\* the loop ends and the handler goes on.
BeatLooks(w) ==
  /\ At(w, "running") /\ exec[w].mode = "lost"
  /\ exec' = [exec EXCEPT ![w].mode =
                IF row[Claim(w).job].status = "CANCELLED" THEN "told" ELSE "orphaned"]
  /\ UNCHANGED vars /\ NoFault

TimeOutNever(w) == FALSE    \* mutant: jobCtx has no deadline

\* jobCtx ends by its timeout; the heartbeat ends with it.
TimeOut(w) ==
  /\ exec[w].phase \in Executing /\ exec[w].mode # "told"
  /\ exec' = [exec EXCEPT ![w].mode = "told"]
  /\ UNCHANGED vars /\ NoFault

(***************************************************************************)
(* Handler and finalization                                                *)
(***************************************************************************)
\* The handler returns a result, a deferral, or an error; a transient error is
\* a retry as long as the row as it was claimed has budget, and a failure after.
Plan(w, result) ==
  IF result # "transient" THEN result
  ELSE IF RetryAllowed(Claim(w).job, exec[w].read.retry) THEN "retry" ELSE "fail"

Return(w) ==
  /\ At(w, "running")
  /\ \E result \in Results :
       exec' = [exec EXCEPT ![w].phase = "refresh", ![w].plan = Plan(w, result), ![w].read = NoRead,
                            ![w].mode = IF @ = "beating" THEN "beating" ELSE "told"]
  /\ UNCHANGED vars /\ NoFault

\* finalizeJob reads the row again and has nothing to do if it SUCCEEDED.
Refresh(w) ==
  /\ At(w, "refresh")
  /\ exec' = [exec EXCEPT ![w] = IF row[Claim(w).job].status = "SUCCEEDED"
                                  THEN [@ EXCEPT !.phase = "readback", !.plan = "none"]
                                  ELSE [@ EXCEPT !.phase = "settle"]]
  /\ UNCHANGED vars /\ NoFault

AfterSettle(w) ==
  exec' = [exec EXCEPT ![w].phase = IF exec[w].plan = "fail" THEN "archive" ELSE "readback",
                       ![w].plan = "none"]

SettleWins(w) ==
  /\ At(w, "settle")
  /\ LET t == Claim(w)
     IN  \/ exec[w].plan = "complete" /\ Complete(t)
         \/ exec[w].plan = "retry"    /\ ScheduleRetry(t)
         \/ exec[w].plan = "fail"     /\ Fail(t)
         \/ exec[w].plan = "defer"    /\ Defer(t)
  /\ AfterSettle(w)
  /\ NoFault

\* Mutant: the settlement is given up without a reason.
SettleSkipped(w) ==
  /\ At(w, "settle")
  /\ AfterSettle(w)
  /\ UNCHANGED vars /\ NoFault

\* ErrLeaseLost is logged, whatever the call was.
SettleLoses(w) ==
  /\ At(w, "settle")
  /\ ~Owns(Claim(w))
  /\ AfterSettle(w)
  /\ UNCHANGED vars /\ NoFault

\* So is any other error: the row keeps its lease until the reaper takes it.
SettleFaults(w) ==
  /\ At(w, "settle")
  /\ AfterSettle(w)
  /\ UNCHANGED vars /\ Fault

\* After Fail, whether it won or not.
Archive(w) ==
  /\ At(w, "archive")
  /\ DeadLetter(Claim(w))
  /\ exec' = [exec EXCEPT ![w].phase = "readback"]
  /\ NoFault

\* The final status is read outside any transaction
ReadBack(w) ==
  /\ At(w, "readback")
  /\ exec' = [exec EXCEPT ![w] =
                [@ EXCEPT !.phase = "report", !.seen = row[Claim(w).job].status]]
  /\ UNCHANGED vars /\ NoFault

\* (a read that fails counts as FAILED) ...
ReadBackFaults(w) ==
  /\ At(w, "readback")
  /\ exec' = [exec EXCEPT ![w].phase = "report", ![w].seen = "FAILED"]
  /\ UNCHANGED vars /\ Fault

\* ... and ledger.Finish writes it back with this worker's id.
Report(w) ==
  /\ At(w, "report")
  /\ UpdateJob(Claim(w).job, exec[w].seen, w)
  /\ Quit(w) /\ UNCHANGED faults

\* The worker's own code panics, which ends the process; its last act is to
\* report FAILED.  A panic of a handler is an error that the dispatcher returns.
Panic(w) ==
  /\ exec[w].phase \in Executing
  /\ UpdateJob(Claim(w).job, "FAILED", w)
  /\ Quit(w) /\ Fails

\* The process dies; what it knew is gone, what it committed stays.  A report
\* that fails comes to the same.
Crash(w) ==
  /\ ~At(w, "idle") /\ ~At(w, "claiming")
  /\ Quit(w)
  /\ UNCHANGED vars /\ Fault

(***************************************************************************)
(* Sweep, reaper and operator                                              *)
(***************************************************************************)
\* One sweep or operator retry of a job at a time, and one reaper: named bounds
\* of this module, JobStore lets them race.
Quiet(op, j) == ~\E s \in reads : s.op = op /\ s.job = j

OnlyOne(s) == reads' = reads \ {s}

Unchanged == UNCHANGED exec /\ NoFault

SweepReads(j)   == Quiet("retry", j) /\ ReadForRetry(j) /\ Unchanged
SweepCommits(j) ==
  \E s \in reads : s.job = j /\ (RetryCommit(s) \/ ExhaustRetry(s)) /\ OnlyOne(s) /\ Unchanged
ReaperScans(j)  == Quiet("reap", j) /\ ScanExpired(j) /\ Unchanged
ReaperTakes(j)  == \E s \in reads : s.job = j /\ RequeueSingle(s) /\ OnlyOne(s) /\ Unchanged
ReadIsLost(j)   == \E s \in reads : s.job = j /\ s.op # "claim" /\ DropRead(s) /\ Unchanged

Expires(j)  == LeaseExpires(j) /\ Unchanged
Enqueue(j)  == Create(j, "QUEUED") /\ Unchanged
Cancels(j)  == Cancel(j) /\ Unchanged

(***************************************************************************)
(* Specification                                                           *)
(***************************************************************************)
WorkersInit == Init /\ exec = [w \in Workers |-> Idle] /\ overwritten = {} /\ faults = 0

\* The steps a running process takes without waiting for anybody.
Proceeds(w) ==
  \/ ClaimWins(w) \/ ClaimLoses(w) \/ StartRun(w) \/ Refresh(w)
  \/ SettleWins(w) \/ SettleLoses(w) \/ Archive(w) \/ ReadBack(w) \/ Report(w)

WorkerStep(w) ==
  \/ \E j \in Jobs : Select(w, j)
  \/ Proceeds(w)
  \/ Beat(w) \/ BeatLoses(w) \/ BeatLooks(w) \/ TimeOut(w)
  \/ Return(w)
  \/ StartUnrecorded(w) \/ SettleFaults(w) \/ ReadBackFaults(w) \/ Panic(w) \/ Crash(w)

StoreStep(j) ==
  \/ Enqueue(j) \/ Cancels(j) \/ Expires(j)
  \/ SweepReads(j) \/ SweepCommits(j) \/ ReaperScans(j) \/ ReaperTakes(j) \/ ReadIsLost(j)

WorkersNext == (\E w \in Workers : WorkerStep(w)) \/ (\E j \in Jobs : StoreStep(j))

Beating(j) == \E w \in Workers : exec[w].phase \in Executing /\ exec[w].mode = "beating"
                                  /\ Claim(w).job = j

\* The processes run, timers fire, handlers obey a cancelled context, leases
\* run out once nobody renews them, and a transaction that the reaper or the
\* sweep tries again and again gets through.
Fairness ==
  /\ \A w \in Workers : /\ WF_workerVars(Proceeds(w))
                        /\ WF_workerVars(TimeOut(w))
                        /\ WF_workerVars(exec[w].mode = "told" /\ Return(w))
  /\ \A j \in Jobs : /\ WF_workerVars(~Beating(j) /\ Expires(j))
                     /\ WF_workerVars(ReaperScans(j))
                     /\ SF_workerVars(ReaperTakes(j))
                     /\ WF_workerVars(row[j].status = "RETRY_WAIT" /\ SweepReads(j))
                     /\ SF_workerVars(SweepCommits(j))
                     /\ WF_workerVars(ReadIsLost(j))

WorkersSafety == WorkersInit /\ [][WorkersNext]_workerVars
WorkersSpec == WorkersSafety /\ Fairness

(***************************************************************************)
(* Properties                                                              *)
(***************************************************************************)
\* The store keeps its types and so do the workers.
WorkersTypeOK ==
  /\ TypeOK
  /\ exec \in [Workers -> Exec]
  /\ overwritten \subseteq Jobs
  /\ faults \in 0 .. MaxFaults

\* Whatever the ledger makes of status and worker, the lease is the fence: at
\* most one execution of a job may settle it, the one granted last, once, and
\* none that was superseded, reaped or cancelled.
Fence == INSTANCE Fencing WITH
           holder <- [j \in Jobs |-> row[j].lease], granted <- lastLease, outcome <- settled
WorkersAreFenced == Fence!Spec

\* RenewLease carries no lease_id.  A heartbeat prolongs the lease of another
\* execution only where the ledger has put its worker's name over the name of
\* the worker the lease was issued to; anywhere else it is its own, because a
\* worker runs one claim at a time and joins the heartbeat before it claims
\* again.
NamesHolder(j) == [job |-> j, worker |-> row[j].worker, lease |-> row[j].lease] \in issued

BeatRenewsOwnLease ==
  \A w \in Workers :
    /\ exec[w].phase \in Executing /\ exec[w].mode = "beating"
    /\ Renewable(Claim(w)) /\ NamesHolder(Claim(w).job)
    => row[Claim(w).job].lease = Claim(w).lease

\* Without a fault nothing but the ledger leaves a RUNNING row behind: the
\* worker that the row names is executing that very claim, unless the ledger
\* has written over the row since.
NoLeakedLease ==
  faults = 0 =>
    \A j \in Jobs \ overwritten : row[j].status = "RUNNING" =>
      Claim(row[j].worker) = [job |-> j, worker |-> row[j].worker, lease |-> row[j].lease]

\* Every lease on a RUNNING row ends: its worker settles it, somebody cancels
\* it, or the reaper takes it, without help from the worker and whatever the
\* ledger writes.  (A RUNNING row whose lease_expiry is NULL is beyond the
\* reaper: CancelStands shows how one arises.)
Leased(j) == row[j].status = "RUNNING" /\ row[j].expiry # "null"
LeaseEnds == \A j \in Jobs : Leased(j) ~> ~Leased(j)

\* A row in RETRY_WAIT is queued again, exhausted or cancelled, also one that
\* the ledger has put there.
RetryWaitEnds ==
  \A j \in Jobs : row[j].status = "RETRY_WAIT" ~> row[j].status # "RETRY_WAIT"

=============================================================================
