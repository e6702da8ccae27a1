-------------------------- MODULE JobWorkersProofs --------------------------
(***************************************************************************)
(* Theorems of JobWorkers, for every set of jobs and workers, any results  *)
(* of the handlers and any number of faults, with the ledger writing over  *)
(* the rows whenever a worker starts or reports.                           *)
(***************************************************************************)
EXTENDS JobWorkers, JobStoreProofs

(***************************************************************************)
(* Calls.  Between its claim and the end of its run a worker holds one     *)
(* claim, one the store issued to it; it holds none while it is idle or    *)
(* claiming.                                                               *)
(***************************************************************************)
Unclaiming == {"idle", "claiming"}

CallsInv ==
  \A w \in Workers :
    /\ exec[w].phase \in Unclaiming => exec[w].claim = NoClaim
    /\ exec[w].phase \notin Unclaiming => exec[w].claim \in issued /\ exec[w].claim.worker = w

\* What a worker may become without a new claim: it waits for one, or it goes
\* on with the claim it has.
Waits(w) ==
  \E e \in Exec : /\ exec' = [exec EXCEPT ![w] = e]
                  /\ e.phase \in Unclaiming /\ e.claim = NoClaim
GoesOn(w) ==
  /\ exec[w].phase \notin Unclaiming
  /\ \E e \in Exec :
       /\ exec' = [exec EXCEPT ![w] = e]
       /\ e.phase \notin Unclaiming /\ e.claim = exec[w].claim

\* The ledger's write, the one write of a worker that is no transaction of the
\* store.
LedgerWrites(w) ==
  /\ exec[w].phase \notin Unclaiming
  /\ \E st \in Statuses : UpdateJob(Claim(w).job, st, w)

\* What the steps of a worker do to the store.
Calls(w) == ((Next \/ UNCHANGED vars) /\ Transacted) \/ LedgerWrites(w)

\* An idle worker is an execution with nothing in it.
LEMMA ExecOfIdle == Idle \in Exec
BY DEF Idle, Exec, Phases, Modes, Plans, Statuses

\* The steps of a worker that leave it with its claim.
StepOfRun(w) ==
  \/ StartRun(w) \/ StartUnrecorded(w) \/ Beat(w) \/ BeatLoses(w) \/ BeatLooks(w) \/ TimeOut(w) \/ Return(w)
  \/ Refresh(w) \/ SettleWins(w) \/ SettleLoses(w) \/ SettleFaults(w) \/ Archive(w)
  \/ ReadBack(w) \/ ReadBackFaults(w)

\* They keep the claim.
LEMMA GoingOn ==
  ASSUME WorkersTypeOK, CallsInv, NEW w \in Workers,
         StepOfRun(w)
  PROVE  GoesOn(w)
<1>1. exec[w] \in Exec /\ exec \in [Workers -> Exec]
  BY DEF WorkersTypeOK
<1> USE DEF Unclaiming, Executing, At
<1>w. ASSUME NEW e \in Exec, exec' = [exec EXCEPT ![w] = e],
             exec[w].phase \notin Unclaiming, e.phase \notin Unclaiming, e.claim = exec[w].claim
      PROVE  GoesOn(w)
  BY <1>w DEF GoesOn
<1>2. CASE StartRun(w) \/ StartUnrecorded(w)
  <2> DEFINE e == [exec[w] EXCEPT !.phase = "running", !.mode = "beating"]
  <2>1. e \in Exec
    BY <1>1 DEF Exec, Phases, Modes
  <2>2. exec' = [exec EXCEPT ![w] = e] /\ e.phase = "running" /\ e.claim = exec[w].claim
    BY <1>1, <1>2 DEF StartRun, StartUnrecorded, RunBegins, Exec
  <2> HIDE DEF e
  <2> QED BY <1>2, <1>w, <2>1, <2>2 DEF StartRun, StartUnrecorded, RunBegins
<1>3. CASE Beat(w) \/ BeatLoses(w) \/ BeatLooks(w) \/ TimeOut(w)
  <2>1. PICK m \in Modes : exec' = [exec EXCEPT ![w].mode = m]
    BY <1>3 DEF Beat, BeatLoses, BeatLooks, TimeOut, Modes
  <2> DEFINE e == [exec[w] EXCEPT !.mode = m]
  <2>2. e \in Exec
    BY <1>1 DEF Exec
  <2>3. exec' = [exec EXCEPT ![w] = e] /\ e.phase = exec[w].phase /\ e.claim = exec[w].claim
    BY <1>1, <2>1 DEF Exec
  <2>4. exec[w].phase \notin Unclaiming
    BY <1>3 DEF Beat, BeatLoses, BeatLooks, TimeOut
  <2> HIDE DEF e
  <2> QED BY <1>w, <2>2, <2>3, <2>4 DEF CallsInv
<1>4. CASE Return(w)
  <2>1. PICK plan \in Plans, mode \in Modes :
          exec' = [exec EXCEPT ![w].phase = "refresh", ![w].plan = plan, ![w].read = NoRead,
                               ![w].mode = mode]
    <3>1. PICK result \in Results :
            exec' = [exec EXCEPT ![w].phase = "refresh", ![w].plan = Plan(w, result), ![w].read = NoRead,
                                 ![w].mode = IF @ = "beating" THEN "beating" ELSE "told"]
      BY <1>4 DEF Return
    <3>2. Plan(w, result) \in Plans
      BY WorkersAssumption DEF Plan, Plans
    <3>3. exec' = [exec EXCEPT ![w].phase = "refresh", ![w].plan = Plan(w, result), ![w].read = NoRead,
                               ![w].mode = IF exec[w].mode = "beating" THEN "beating" ELSE "told"]
      BY <1>1, <3>1 DEF Exec
    <3> QED BY <3>2, <3>3 DEF Modes
  <2> DEFINE e == [exec[w] EXCEPT !.phase = "refresh", !.plan = plan, !.read = NoRead, !.mode = mode]
  <2>2. e \in Exec
    BY <1>1 DEF Exec, Phases
  <2>3. exec' = [exec EXCEPT ![w] = e] /\ e.phase = "refresh" /\ e.claim = exec[w].claim
    BY <1>1, <2>1 DEF Exec
  <2> HIDE DEF e
  <2> QED BY <1>4, <1>w, <2>2, <2>3 DEF Return
<1>5. CASE Refresh(w)
  <2>1. PICK plan \in Plans, phase \in {"readback", "settle"} :
          exec' = [exec EXCEPT ![w] = [exec[w] EXCEPT !.phase = phase, !.plan = plan]]
    <3>1. CASE row[Claim(w).job].status = "SUCCEEDED"
      BY <1>5, <3>1 DEF Refresh, Plans
    <3>2. CASE row[Claim(w).job].status # "SUCCEEDED"
      BY <1>1, <1>5, <3>2 DEF Refresh, Exec
    <3> QED BY <3>1, <3>2
  <2> DEFINE e == [exec[w] EXCEPT !.phase = phase, !.plan = plan]
  <2>2. e \in Exec
    BY <1>1 DEF Exec, Phases
  <2>3. e.phase = phase /\ e.claim = exec[w].claim
    BY <1>1 DEF Exec
  <2>4. exec' = [exec EXCEPT ![w] = e]
    BY <2>1
  <2> HIDE DEF e
  <2> QED BY <1>5, <1>w, <2>2, <2>3, <2>4 DEF Refresh
<1>6. CASE SettleWins(w) \/ SettleLoses(w) \/ SettleFaults(w)
  <2>1. PICK phase \in {"archive", "readback"} :
          exec' = [exec EXCEPT ![w].phase = phase, ![w].plan = "none"]
    BY <1>6 DEF SettleWins, SettleLoses, SettleFaults, AfterSettle
  <2> DEFINE e == [exec[w] EXCEPT !.phase = phase, !.plan = "none"]
  <2>2. e \in Exec
    BY <1>1 DEF Exec, Phases, Plans
  <2>3. exec' = [exec EXCEPT ![w] = e] /\ e.phase = phase /\ e.claim = exec[w].claim
    BY <1>1, <2>1 DEF Exec
  <2>4. exec[w].phase \notin Unclaiming
    BY <1>6 DEF SettleWins, SettleLoses, SettleFaults
  <2> HIDE DEF e
  <2> QED BY <1>w, <2>2, <2>3, <2>4
<1>7. CASE Archive(w)
  <2> DEFINE e == [exec[w] EXCEPT !.phase = "readback"]
  <2>1. e \in Exec
    BY <1>1 DEF Exec, Phases
  <2>2. exec' = [exec EXCEPT ![w] = e] /\ e.phase = "readback" /\ e.claim = exec[w].claim
    BY <1>1, <1>7 DEF Archive, Exec
  <2> HIDE DEF e
  <2> QED BY <1>7, <1>w, <2>1, <2>2 DEF Archive
<1>8. CASE ReadBackFaults(w) \/ ReadBack(w)
  <2>1. PICK st \in Statuses : exec' = [exec EXCEPT ![w] = [exec[w] EXCEPT !.phase = "report", !.seen = st]]
    <3>1. CASE ReadBackFaults(w)
      BY <1>1, <3>1 DEF ReadBackFaults, Statuses, Terminal, Exec
    <3>2. CASE ReadBack(w)
      <4>1. Claim(w).job \in Jobs /\ row[Claim(w).job].status \in Statuses
        BY <3>2 DEF ReadBack, CallsInv, Claim, WorkersTypeOK, TypeOK, Ticket, Row
      <4> QED BY <3>2, <4>1 DEF ReadBack
    <3> QED BY <1>8, <3>1, <3>2
  <2> DEFINE e == [exec[w] EXCEPT !.phase = "report", !.seen = st]
  <2>2. e \in Exec
    BY <1>1 DEF Exec, Phases
  <2>3. exec' = [exec EXCEPT ![w] = e] /\ e.phase = "report" /\ e.claim = exec[w].claim
    BY <1>1, <2>1 DEF Exec
  <2>4. exec[w].phase \notin Unclaiming
    BY <1>8 DEF ReadBack, ReadBackFaults
  <2> HIDE DEF e
  <2> QED BY <1>w, <2>2, <2>3, <2>4
<1> QED
  BY <1>2, <1>3, <1>4, <1>5, <1>6, <1>7, <1>8 DEF StepOfRun

\* The steps of a worker that leave it without one.
StepOfRest(w) ==
  \/ \E j \in Jobs : Select(w, j)
  \/ ClaimLoses(w) \/ Report(w) \/ Panic(w) \/ Crash(w)

\* They end without one.
LEMMA Waiting ==
  ASSUME WorkersTypeOK, NEW w \in Workers, StepOfRest(w)
  PROVE  Waits(w)
<1>1. exec \in [Workers -> Exec] /\ Idle.phase = "idle" /\ Idle.claim = NoClaim
  BY DEF WorkersTypeOK, Idle
<1>2. ASSUME NEW j \in Jobs, Select(w, j) PROVE Waits(w)
  <2> DEFINE e == [Idle EXCEPT !.phase = "claiming", !.read = Snapshot("claim", j)]
  <2>1. Snapshot("claim", j) \in Read
    BY SnapshotType DEF WorkersTypeOK
  <2>2. e \in Exec
    BY <2>1, ExecOfIdle DEF Exec, Phases
  <2>3. e.phase = "claiming" /\ e.claim = NoClaim /\ exec' = [exec EXCEPT ![w] = e]
    BY <1>2 DEF Select, Idle
  <2> HIDE DEF e
  <2> QED BY <1>2, <2>2, <2>3 DEF Waits, Unclaiming, Select
<1>3. ASSUME exec' = [exec EXCEPT ![w] = Idle] PROVE Waits(w)
  BY <1>1, <1>3, ExecOfIdle DEF Waits, Unclaiming
<1>4. CASE ClaimLoses(w) \/ Report(w) \/ Panic(w) \/ Crash(w)
  BY <1>1, <1>3, <1>4 DEF ClaimLoses, Report, Panic, Crash, Quit, WorkersTypeOK
<1> QED
  BY <1>2, <1>4 DEF StepOfRest

\* A worker calls the store with its own claim or the read it took, so that its
\* step is one of the store's; or it writes to the ledger.
LEMMA WorkersCall ==
  ASSUME WorkersTypeOK, CallsInv, NEW w \in Workers, WorkerStep(w)
  PROVE  Calls(w)
<1>1. ASSUME NEW j \in Jobs, Select(w, j) PROVE Next /\ Transacted
  BY <1>1 DEF Select, Next, JobStep, NoFault
<1>2. ASSUME ClaimWins(w) PROVE Next /\ Transacted
  <2>1. exec[w].read \in reads
    BY <1>2 DEF ClaimWins, Start
  <2> QED BY <1>2, <2>1 DEF ClaimWins, Next, ReadStep, NoFault
<1>3. ASSUME ClaimLoses(w) PROVE (Next \/ UNCHANGED vars) /\ Transacted
  <2>1. DropRead(exec[w].read) => exec[w].read \in reads
    BY DEF DropRead
  <2> QED BY <1>3, <2>1 DEF ClaimLoses, Next, ReadStep, NoFault
<1>4. ASSUME StartRun(w) PROVE LedgerWrites(w)
  BY <1>4 DEF StartRun, RunBegins, LedgerWrites, At, Unclaiming, Statuses
<1>5. exec[w].phase \notin Unclaiming => Claim(w) \in issued
  BY DEF CallsInv, Claim
<1>6. ASSUME Beat(w) PROVE Next /\ Transacted
  BY <1>5, <1>6 DEF Beat, Executing, Unclaiming, Next, HolderStep, NoFault
<1>7. ASSUME SettleWins(w) PROVE Next /\ Transacted
  BY <1>5, <1>7 DEF SettleWins, At, Unclaiming, Next, HolderStep, NoFault
<1>8. ASSUME Archive(w) PROVE Next /\ Transacted
  BY <1>5, <1>8 DEF Archive, At, Unclaiming, Next, HolderStep, NoFault
<1>9. ASSUME Report(w) PROVE LedgerWrites(w)
  <2>1. exec[w].seen \in Statuses
    BY <1>9 DEF WorkersTypeOK, Exec
  <2>2. exec[w].phase = "report" /\ UpdateJob(Claim(w).job, exec[w].seen, w)
    BY <1>9 DEF Report, At
  <2> QED BY <2>1, <2>2 DEF LedgerWrites, Unclaiming
<1>10. ASSUME \/ BeatLoses(w) \/ BeatLooks(w) \/ TimeOut(w) \/ Return(w) \/ Refresh(w)
              \/ SettleLoses(w) \/ ReadBack(w)
       PROVE  UNCHANGED vars /\ Transacted
  BY <1>10 DEF BeatLoses, BeatLooks, TimeOut, Return, Refresh, SettleLoses, ReadBack, NoFault
<1>11. ASSUME StartUnrecorded(w) \/ SettleFaults(w) \/ ReadBackFaults(w) \/ Crash(w)
       PROVE  UNCHANGED vars /\ Transacted
  BY <1>11 DEF StartUnrecorded, SettleFaults, ReadBackFaults, Crash, Fault
<1>12. ASSUME Panic(w) PROVE LedgerWrites(w)
  <2>1. exec[w].phase \notin Unclaiming
    BY <1>12 DEF Panic, Executing, Unclaiming
  <2>2. "FAILED" \in Statuses
    BY DEF Statuses, Terminal
  <2>3. UpdateJob(Claim(w).job, "FAILED", w)
    BY <1>12 DEF Panic
  <2> QED BY <2>1, <2>2, <2>3 DEF LedgerWrites
<1> QED
  BY <1>1, <1>2, <1>3, <1>4, <1>6, <1>7, <1>8, <1>9, <1>10, <1>11, <1>12 DEF WorkerStep, Proceeds, Calls

\* So do the sweep, the reaper and the operator, and they leave the workers alone.
LEMMA OthersCall ==
  ASSUME NEW j \in Jobs, StoreStep(j)
  PROVE  Next /\ Transacted /\ UNCHANGED <<exec, faults>>
<1>1. ASSUME SweepReads(j) \/ ReaperScans(j) \/ Expires(j) \/ Enqueue(j) \/ Cancels(j)
      PROVE  Next /\ Transacted /\ UNCHANGED <<exec, faults>>
  BY <1>1 DEF SweepReads, ReaperScans, Expires, Enqueue, Cancels, Unchanged, NoFault, Next, JobStep
<1>2. ASSUME SweepCommits(j) \/ ReaperTakes(j) \/ ReadIsLost(j)
      PROVE  Next /\ Transacted /\ UNCHANGED <<exec, faults>>
  BY <1>2 DEF SweepCommits, ReaperTakes, ReadIsLost, Unchanged, NoFault, Next, ReadStep
<1> QED
  BY <1>1, <1>2 DEF StoreStep

\* One step of the system: a worker that waits, goes on, or has won a claim,
\* or somebody else.
LEMMA EveryStep ==
  ASSUME WorkersTypeOK, CallsInv, WorkersNext
  PROVE  \/ \E w \in Workers : /\ Calls(w)
                               /\ \/ StepOfRest(w) /\ Waits(w)
                                  \/ StepOfRun(w) /\ GoesOn(w)
                                  \/ ClaimWins(w)
         \/ Next /\ Transacted /\ UNCHANGED <<exec, faults>>
<1>1. ASSUME NEW w \in Workers, WorkerStep(w)
      PROVE  /\ Calls(w)
             /\ (StepOfRest(w) /\ Waits(w)) \/ (StepOfRun(w) /\ GoesOn(w)) \/ ClaimWins(w)
  <2>1. Calls(w)
    BY <1>1, WorkersCall
  <2>2. ClaimWins(w) \/ StepOfRest(w) \/ StepOfRun(w)
    BY <1>1 DEF WorkerStep, Proceeds, StepOfRun, StepOfRest
  <2> QED BY <2>1, <2>2, Waiting, GoingOn
<1> QED
  BY <1>1, OthersCall DEF WorkersNext

\* The ledger writes a row of the right type, and nothing else.
LEMMA LedgerTyping ==
  ASSUME TypeOK, CallsInv, NEW w \in Workers, LedgerWrites(w)
  PROVE  TypeOK'
<1>1. PICK st \in Statuses : UpdateJob(Claim(w).job, st, w)
  BY DEF LedgerWrites
<1>2. Claim(w).job \in Jobs
  BY DEF LedgerWrites, CallsInv, Claim, TypeOK, Ticket
<1>3. [row[Claim(w).job] EXCEPT !.status = st, !.worker = w] \in Row
  <2>1. [row[Claim(w).job] EXCEPT !.status = st] \in Row
    BY <1>2, ColumnTyping DEF TypeOK
  <2>2. [[row[Claim(w).job] EXCEPT !.status = st] EXCEPT !.worker = w] \in Row
    BY <2>1, ColumnTyping
  <2> QED BY <2>2
<1> QED
  BY <1>1, <1>2, <1>3, TableUpdate DEF UpdateJob, TypeOK

\* Claims once issued stay issued.
LEMMA IssuedStays ==
  ASSUME [Next]_vars \/ \E w \in Workers : LedgerWrites(w)
  PROVE  issued \subseteq issued'
<1>1. ASSUME NEW j \in Jobs, JobStep(j) PROVE issued' = issued
  BY <1>1 DEF JobStep, Create, PromoteScheduled, LeaseExpires, Cancel,
              SelectCandidate, ScanExpired, ReadForRetry, TakeRead
<1>2. ASSUME NEW s \in reads, ReadStep(s) PROVE issued \subseteq issued'
  BY <1>2 DEF ReadStep, Start, RequeueSingle, MarkFailed, RetryCommit, ExhaustRetry, DropRead
<1>3. ASSUME NEW t \in issued, HolderStep(t) PROVE issued' = issued
  BY <1>3 DEF HolderStep, ScheduleRetry, RenewLease, Complete, Fail, SpendRetry, Defer, DeadLetter
<1>4. CASE \E w \in Workers : LedgerWrites(w)
  BY <1>4 DEF LedgerWrites, UpdateJob
<1>5. CASE UNCHANGED vars
  BY <1>5 DEF vars
<1>6. CASE Next
  BY <1>1, <1>2, <1>3, <1>6 DEF Next
<1> QED
  BY <1>4, <1>5, <1>6

\* A worker that wins a claim holds what the store has just issued to it.
LEMMA Winning ==
  ASSUME WorkersTypeOK, NEW w \in Workers, ClaimWins(w)
  PROVE  \E t \in Ticket : /\ t \in issued' /\ t.worker = w /\ t.lease = lastLease + 1
                           /\ exec' = [exec EXCEPT ![w].phase = "claimed", ![w].claim = t]
                           /\ [exec[w] EXCEPT !.phase = "claimed", !.claim = t] \in Exec
                           /\ issued' = issued \cup {t} /\ lastLease' = lastLease + 1
<1> DEFINE t == [job |-> exec[w].read.job, worker |-> w, lease |-> lastLease + 1]
<1>1. exec[w].read \in reads /\ exec[w].read.job \in Jobs
  BY DEF ClaimWins, Start, WorkersTypeOK, TypeOK, Read
<1>2. lastLease + 1 \in Leases
  BY ConstantsAssumption DEF ClaimWins, Start, WorkersTypeOK, TypeOK, Leases
<1>3. t \in Ticket /\ t.worker = w /\ t.lease = lastLease + 1
  BY <1>1, <1>2 DEF Ticket
<1>4. /\ exec' = [exec EXCEPT ![w].phase = "claimed", ![w].claim = t]
      /\ issued' = issued \cup {t} /\ lastLease' = lastLease + 1
  BY DEF ClaimWins, Start, FreshLease
<1>5. [exec[w] EXCEPT !.phase = "claimed", !.claim = t] \in Exec
  <2> HIDE DEF t
  <2> QED BY <1>3 DEF WorkersTypeOK, Exec, Phases
<1> HIDE DEF t
<1> QED
  BY <1>3, <1>4, <1>5

\* Faults are counted.
LEMMA FaultsCount ==
  ASSUME [WorkersNext]_workerVars
  PROVE  faults' = faults \/ Fails
<1>1. CASE UNCHANGED workerVars
  BY <1>1 DEF workerVars
<1>2. CASE WorkersNext
  BY <1>2, OthersCall
  DEF WorkersNext, WorkerStep, Proceeds, Select, ClaimWins, ClaimLoses, StartRun, StartUnrecorded,
      UpdateJob, Beat, BeatLoses, BeatLooks, TimeOut, Return, Refresh, SettleWins, SettleLoses,
      SettleFaults, Archive, ReadBack, ReadBackFaults, Report, Panic, Crash, NoFault, Fault
<1> QED
  BY <1>1, <1>2

\* What is known of a row's last writer is kept or put right.
LEMMA Overwriting ==
  ASSUME WorkersTypeOK, CallsInv, [WorkersNext]_workerVars
  PROVE  \/ [Next]_vars /\ Transacted
         \/ \E w \in Workers : LedgerWrites(w)
<1>1. CASE UNCHANGED workerVars
  BY <1>1 DEF workerVars, vars, Transacted
<1>2. CASE WorkersNext
  BY <1>2, EveryStep DEF Calls
<1> QED
  BY <1>1, <1>2

\* Types and calls are kept by every step.
LEMMA CallsStep ==
  ASSUME WorkersTypeOK, CallsInv, [WorkersNext]_workerVars
  PROVE  WorkersTypeOK' /\ CallsInv'
<1>1. CASE UNCHANGED workerVars
  BY <1>1 DEF workerVars, WorkersTypeOK, TypeOK, CallsInv
<1>2. CASE WorkersNext
  <2>1. exec \in [Workers -> Exec] /\ overwritten' \subseteq Jobs
    <3>1. exec \in [Workers -> Exec] /\ overwritten \subseteq Jobs
      BY DEF WorkersTypeOK
    <3>2. CASE Transacted
      BY <3>1, <3>2 DEF Transacted
    <3>3. ASSUME NEW w \in Workers, LedgerWrites(w) PROVE overwritten' \subseteq Jobs
      <4>1. Claim(w).job \in Jobs
        BY <3>3 DEF LedgerWrites, CallsInv, Claim, WorkersTypeOK, TypeOK, Ticket
      <4> QED BY <3>1, <3>3, <4>1 DEF LedgerWrites, UpdateJob
    <3> QED BY <3>1, <3>2, <3>3, Overwriting
  <2>2. TypeOK' /\ issued \subseteq issued'
    <3>1. [Next]_vars \/ \E w \in Workers : LedgerWrites(w)
      BY <1>2, EveryStep DEF Calls
    <3> QED BY <3>1, TypingStep, LedgerTyping, IssuedStays DEF WorkersTypeOK
  <2>3. faults' \in 0 .. MaxFaults
    BY FaultsCount, WorkersAssumption DEF Fails, WorkersTypeOK
  <2>4. \A w \in Workers : /\ exec[w].phase \in Unclaiming => exec[w].claim = NoClaim
                           /\ exec[w].phase \notin Unclaiming =>
                                exec[w].claim \in issued' /\ exec[w].claim.worker = w
    BY <2>1, <2>2 DEF CallsInv
  <2>5. CASE UNCHANGED exec
    BY <2>1, <2>2, <2>3, <2>4, <2>5 DEF WorkersTypeOK, CallsInv
  <2>6. ASSUME NEW w \in Workers, Waits(w) PROVE WorkersTypeOK' /\ CallsInv'
    BY <2>1, <2>2, <2>3, <2>4, <2>6 DEF Waits, WorkersTypeOK, CallsInv, Unclaiming
  <2>7. ASSUME NEW w \in Workers, GoesOn(w) PROVE WorkersTypeOK' /\ CallsInv'
    BY <2>1, <2>2, <2>3, <2>4, <2>7 DEF GoesOn, WorkersTypeOK, CallsInv
  <2>8. ASSUME NEW w \in Workers, ClaimWins(w) PROVE WorkersTypeOK' /\ CallsInv'
    <3>1. PICK t \in Ticket :
            /\ t \in issued' /\ t.worker = w
            /\ exec' = [exec EXCEPT ![w].phase = "claimed", ![w].claim = t]
            /\ [exec[w] EXCEPT !.phase = "claimed", !.claim = t] \in Exec
      BY <2>8, Winning
    <3>2. exec' = [exec EXCEPT ![w] = [exec[w] EXCEPT !.phase = "claimed", !.claim = t]]
      BY <2>1, <3>1
    <3>3. [exec[w] EXCEPT !.phase = "claimed", !.claim = t].phase = "claimed"
          /\ [exec[w] EXCEPT !.phase = "claimed", !.claim = t].claim = t
      BY <2>1 DEF Exec
    <3> QED BY <2>1, <2>2, <2>3, <2>4, <3>1, <3>2, <3>3 DEF WorkersTypeOK, CallsInv, Unclaiming
  <2> QED BY <1>2, <2>5, <2>6, <2>7, <2>8, EveryStep
<1> QED
  BY <1>1, <1>2

\* Nobody holds a claim when the processes start.
LEMMA WorkersBegin == WorkersInit => WorkersTypeOK /\ CallsInv
<1>1. Init => TypeOK
  BY ConstantsAssumption DEF Init, TypeOK, EmptyRow, Row, Statuses, Terminal, Leases, NoLease
<1>2. Idle.phase = "idle" /\ Idle.claim = NoClaim
  BY DEF Idle
<1> QED
  BY <1>1, <1>2, ExecOfIdle, WorkersAssumption
  DEF WorkersInit, WorkersTypeOK, CallsInv, Unclaiming

\* Workers and store keep their types, also when the ledger writes over the row.
THEOREM WorkersTyping == WorkersSafety => []WorkersTypeOK
BY WorkersBegin, CallsStep, PTL DEF WorkersSafety

\* Between its claim and the end of its run a worker holds a claim of its own.
THEOREM CallsInvariance == WorkersSafety => []CallsInv
BY WorkersBegin, CallsStep, PTL DEF WorkersSafety

(***************************************************************************)
(* Fencing.  The ledger writes status and worker, never the lease.  What a *)
(* transaction does to the lease of its row is all that the abstract lease *)
(* needs, so the status and the worker stay out of the argument.           *)
(***************************************************************************)
\* Every lease on a row was issued for that job and its holder settled nothing
\* yet, whatever the ledger has made of the row's status and worker.
Held ==
  \A j \in Jobs : row[j].lease # NoLease =>
    /\ \E t \in issued : t.job = j /\ t.lease = row[j].lease
    /\ settled[row[j].lease] = "open"

FenceInv == Held /\ IssuedUnique /\ FreshOpen

\* What can happen to the lease columns.
Taken == \E s \in reads, w \in Workers : Start(s, w)
SettledBy(t) ==
  /\ row[t.job].lease = t.lease
  /\ \E q : q.lease = NoLease /\ q.status # "RUNNING" /\ row' = [row EXCEPT ![t.job] = q]
  /\ \E o \in Fence!Outcomes : settled' = [settled EXCEPT ![t.lease] = o]
  /\ UNCHANGED <<issued, lastLease>>
Dropped(j) ==
  /\ \E q : q.lease = NoLease /\ q.status # "RUNNING" /\ row' = [row EXCEPT ![j] = q]
  /\ UNCHANGED <<issued, lastLease, settled>>
LeaseKept ==
  /\ \A j \in Jobs : row'[j].lease = row[j].lease
  /\ UNCHANGED <<issued, lastLease, settled>>
\* A transaction that keeps a lease begins no execution either.
ExecutionKept ==
  \A j \in Jobs : \/ row'[j].status # "RUNNING"
                  \/ /\ row'[j].status = row[j].status /\ row'[j].worker = row[j].worker
                     /\ row'[j].rev = row[j].rev

\* Every transaction of the store does one of them.
LEMMA LeasesMove ==
  ASSUME TypeOK, [Next]_vars
  PROVE  \/ Taken
         \/ \E t \in issued : SettledBy(t)
         \/ \E j \in Jobs : Dropped(j)
         \/ LeaseKept /\ ExecutionKept
<1> DEFINE Moved == \/ Taken
                    \/ \E t \in issued : SettledBy(t)
                    \/ \E j \in Jobs : Dropped(j)
                    \/ LeaseKept /\ ExecutionKept
<1>q. ASSUME NEW j \in Jobs, NEW q, Unleased(q), row' = [row EXCEPT ![j] = q],
             UNCHANGED <<issued, lastLease, settled>>
      PROVE  Moved
  BY <1>q DEF Unleased, Dropped
<1>r. ASSUME NEW j \in Jobs, NEW q, q.lease = row[j].lease,
             \/ q.status # "RUNNING"
             \/ q.status = row[j].status /\ q.worker = row[j].worker /\ q.rev = row[j].rev,
             row' = [row EXCEPT ![j] = q], UNCHANGED <<issued, lastLease, settled>>
      PROVE  Moved
  BY <1>r DEF TypeOK, LeaseKept, ExecutionKept
<1>0. ASSUME row' = row, UNCHANGED <<issued, lastLease, settled>> PROVE Moved
  BY <1>0 DEF LeaseKept, ExecutionKept
<1>t. ASSUME NEW t \in issued, SettledBy(t) PROVE Moved
  BY <1>t
<1>s. ASSUME Taken PROVE Moved
  BY <1>s
<1> HIDE DEF Moved
<1>1. ASSUME NEW j \in Jobs, JobStep(j) PROVE Moved
  <2>1. CASE PromoteScheduled(j) \/ Cancel(j)
    BY <2>1, <1>q, StoreWrites
  <2>2. ASSUME NEW st \in {"QUEUED", "SCHEDULED"}, Create(j, st) PROVE Moved
    <3>1. LET q == [row[j] EXCEPT !.status = st, !.rev = 1]
          IN  q.lease = row[j].lease /\ q.status # "RUNNING"
      BY DEF TypeOK, Row
    <3> QED BY <2>2, <3>1, <1>r DEF Create
  <2>3. CASE LeaseExpires(j)
    <3>1. LET q == [row[j] EXCEPT !.expiry = "past"]
          IN  /\ q.lease = row[j].lease /\ q.status = row[j].status
              /\ q.worker = row[j].worker /\ q.rev = row[j].rev
      BY DEF TypeOK, Row
    <3> QED BY <2>3, <3>1, <1>r DEF LeaseExpires
  <2>4. CASE SelectCandidate(j) \/ ScanExpired(j) \/ ReadForRetry(j)
    BY <2>4, <1>0 DEF SelectCandidate, ScanExpired, ReadForRetry, TakeRead
  <2> QED BY <1>1, <2>1, <2>2, <2>3, <2>4 DEF JobStep
<1>2. ASSUME NEW s \in reads, ReadStep(s) PROVE Moved
  <2>1. s.job \in Jobs
    BY DEF TypeOK, Read
  <2>2. CASE RequeueSingle(s) \/ MarkFailed(s) \/ RetryCommit(s) \/ ExhaustRetry(s)
    BY <2>1, <2>2, <1>q, StoreWrites
  <2>3. CASE DropRead(s)
    BY <2>3, <1>0 DEF DropRead
  <2>4. CASE \E w \in Workers : Start(s, w)
    BY <2>4, <1>s DEF Taken
  <2> QED BY <1>2, <2>2, <2>3, <2>4 DEF ReadStep
<1>3. ASSUME NEW t \in issued, HolderStep(t) PROVE Moved
  <2>1. t.job \in Jobs
    BY DEF TypeOK, Ticket
  <2>2. CASE Complete(t) \/ Fail(t) \/ SpendRetry(t) \/ Defer(t)
    <3>1. SettledBy(t)
      BY <2>2, HolderReleases DEF SettledBy, Unleased, Fence!Outcomes
    <3> QED BY <3>1, <1>t
  <2>3. CASE RenewLease(t)
    <3>1. LET q == [row[t.job] EXCEPT !.expiry = "live"]
          IN  /\ q.lease = row[t.job].lease /\ q.status = row[t.job].status
              /\ q.worker = row[t.job].worker /\ q.rev = row[t.job].rev
      BY <2>1 DEF TypeOK, Row
    <3> QED BY <2>1, <2>3, <3>1, <1>r DEF RenewLease
  <2>4. CASE DeadLetter(t)
    BY <2>4, <1>0 DEF DeadLetter
  <2> QED BY <1>3, <2>2, <2>3, <2>4 DEF HolderStep, ScheduleRetry
<1>4. Moved
  <2>1. CASE UNCHANGED vars
    BY <2>1, <1>0 DEF vars
  <2>2. CASE Next
    BY <2>2, <1>1, <1>2, <1>3 DEF Next
  <2> QED BY <2>1, <2>2
<1> QED
  BY <1>4 DEF Moved

\* The row that a claim leaves.
LEMMA Leasing ==
  ASSUME TypeOK, NEW s \in reads, NEW w \in Workers, Start(s, w)
  PROVE  /\ s.job \in Jobs
         /\ row'[s.job].lease = lastLease + 1 /\ row'[s.job].worker = w
         /\ \A k \in Jobs \ {s.job} : row'[k] = row[k]
         /\ issued' = issued \cup {[job |-> s.job, worker |-> w, lease |-> lastLease + 1]}
         /\ lastLease' = lastLease + 1 /\ settled' = settled
<1>1. s.job \in Jobs /\ lastLease + 1 \in Leases
  BY ConstantsAssumption DEF TypeOK, Read, Start, Leases
<1>2. row' = [row EXCEPT ![s.job] = Claimed(row[s.job], w, lastLease + 1)]
  BY DEF Start, FreshLease
<1>3. LET q == Claimed(row[s.job], w, lastLease + 1)
      IN  q.lease = lastLease + 1 /\ q.worker = w
  BY <1>1, ClaimedRow DEF TypeOK
<1> QED
  BY <1>1, <1>2, <1>3 DEF TypeOK, Start, FreshLease

\* The ledger keeps every lease.
LEMMA LedgerKeepsLeases ==
  ASSUME TypeOK, CallsInv, NEW w \in Workers, LedgerWrites(w)
  PROVE  LeaseKept
<1>1. PICK st \in Statuses : UpdateJob(Claim(w).job, st, w)
  BY DEF LedgerWrites
<1>2. Claim(w).job \in Jobs
  BY DEF LedgerWrites, CallsInv, Claim, TypeOK, Ticket
<1>3. LET q == [row[Claim(w).job] EXCEPT !.status = st, !.worker = w]
      IN  q.lease = row[Claim(w).job].lease
  BY <1>2 DEF TypeOK, Row
<1> QED
  BY <1>1, <1>2, <1>3 DEF UpdateJob, LeaseKept, TypeOK

\* Every step of the system takes, settles, drops or keeps leases.
LEMMA EveryLeaseMove ==
  ASSUME WorkersTypeOK, CallsInv, [WorkersNext]_workerVars
  PROVE  \/ Taken
         \/ \E t \in issued : SettledBy(t)
         \/ \E j \in Jobs : Dropped(j)
         \/ LeaseKept
BY Overwriting, LeasesMove, LedgerKeepsLeases DEF WorkersTypeOK

\* Every step keeps the leases on rows issued, unsettled and unique.
LEMMA FenceStep ==
  ASSUME WorkersTypeOK, CallsInv, FenceInv, [WorkersNext]_workerVars
  PROVE  FenceInv'
<1>1. /\ row \in [Jobs -> Row] /\ lastLease \in Int /\ settled \in [Leases -> Fence!Outcomes \cup {"open"}]
      /\ \A t \in issued : t.job \in Jobs /\ t.lease \in Leases /\ t.lease # NoLease /\ t.lease <= lastLease
  BY DEF WorkersTypeOK, TypeOK, Ticket, Leases, NoLease, FenceInv, IssuedUnique, Fence!Outcomes
<1>2. CASE Taken
  <2>1. PICK s \in reads, w \in Workers : Start(s, w)
    BY <1>2 DEF Taken
  <2> DEFINE n == [job |-> s.job, worker |-> w, lease |-> lastLease + 1]
  <2>2. /\ s.job \in Jobs /\ row'[s.job].lease = lastLease + 1
        /\ \A k \in Jobs \ {s.job} : row'[k] = row[k]
        /\ issued' = issued \cup {n} /\ lastLease' = lastLease + 1 /\ settled' = settled
    BY <2>1, Leasing DEF WorkersTypeOK
  <2>3. n.job = s.job /\ n.lease = lastLease + 1
    OBVIOUS
  <2> HIDE DEF n
  <2>4. settled[lastLease + 1] = "open"
    <3>1. lastLease + 1 \in Leases
      BY <1>1, <2>1, ConstantsAssumption DEF Start, Leases, WorkersTypeOK, TypeOK
    <3> QED BY <1>1, <3>1 DEF FenceInv, FreshOpen
  <2>5. Held'
    BY <2>2, <2>3, <2>4 DEF FenceInv, Held
  <2>6. IssuedUnique'
    <3>1. \A t \in issued : t.lease <= lastLease' /\ t.lease # n.lease
      BY <1>1, <2>2, <2>3 DEF Leases
    <3>2. n.lease <= lastLease'
      BY <1>1, <2>2, <2>3
    <3> QED BY <2>2, <3>1, <3>2 DEF FenceInv, IssuedUnique
  <2>7. FreshOpen'
    BY <1>1, <2>2 DEF FenceInv, FreshOpen, Leases
  <2> QED BY <2>5, <2>6, <2>7 DEF FenceInv
<1>3. ASSUME NEW t \in issued, SettledBy(t) PROVE FenceInv'
  <2>1. /\ row[t.job].lease = t.lease /\ row'[t.job].lease = NoLease
        /\ \A k \in Jobs \ {t.job} : row'[k] = row[k]
        /\ \A l \in Leases \ {t.lease} : settled'[l] = settled[l]
        /\ issued' = issued /\ lastLease' = lastLease
    BY <1>1, <1>3 DEF SettledBy
  <2>2. ASSUME NEW k \in Jobs \ {t.job}, row[k].lease # NoLease
        PROVE  row[k].lease \in Leases \ {t.lease}
    <3>1. PICK u \in issued : u.job = k /\ u.lease = row[k].lease
      BY <2>2 DEF FenceInv, Held
    <3> QED BY <1>1, <2>2, <3>1 DEF FenceInv, IssuedUnique
  <2>3. Held'
    BY <2>1, <2>2 DEF FenceInv, Held
  <2>4. IssuedUnique'
    BY <2>1 DEF FenceInv, IssuedUnique
  <2>5. FreshOpen'
    BY <1>1, <2>1 DEF FenceInv, FreshOpen, Leases
  <2> QED BY <2>3, <2>4, <2>5 DEF FenceInv
<1>4. ASSUME \A j \in Jobs : row'[j].lease \in {NoLease, row[j].lease},
             UNCHANGED <<issued, lastLease, settled>>
      PROVE  FenceInv'
  <2>1. Held'
    BY <1>4 DEF FenceInv, Held
  <2> QED BY <1>4, <2>1 DEF FenceInv, IssuedUnique, FreshOpen
<1>5. ASSUME NEW j \in Jobs, Dropped(j) PROVE FenceInv'
  BY <1>1, <1>4, <1>5 DEF Dropped
<1>6. CASE LeaseKept
  BY <1>4, <1>6 DEF LeaseKept
<1> QED
  BY <1>2, <1>3, <1>5, <1>6, EveryLeaseMove

\* With crashes, lost heartbeats, retries, cancellations and a ledger that
\* writes over the row, every lease on a row is issued, unsettled and unique.
THEOREM FenceInvariance == WorkersSafety => []FenceInv
<1>1. WorkersInit => FenceInv
  BY ConstantsAssumption
  DEF WorkersInit, Init, FenceInv, Held, IssuedUnique, FreshOpen, EmptyRow, NoLease
<1> QED
  BY <1>1, FenceStep, WorkersTyping, CallsInvariance, PTL DEF WorkersSafety

\* Every step of the workers is a step of the abstract lease, or leaves it be.
LEMMA FencedStep ==
  ASSUME WorkersTypeOK, CallsInv, FenceInv, [WorkersNext]_workerVars
  PROVE  [Fence!Next]_Fence!fenceVars
<1> DEFINE holder  == [j \in Jobs |-> row[j].lease]
           holder1 == [j \in Jobs |-> row'[j].lease]
<1>1. /\ row \in [Jobs -> Row]
      /\ \A t \in issued : t.job \in Jobs /\ t.lease \in Leases /\ t.lease # 0
  BY DEF WorkersTypeOK, TypeOK, Ticket, Leases
<1>2. CASE Taken
  <2>1. PICK s \in reads, w \in Workers : Start(s, w)
    BY <1>2 DEF Taken
  <2>2. /\ s.job \in Jobs /\ row'[s.job].lease = lastLease + 1
        /\ \A k \in Jobs \ {s.job} : row'[k] = row[k]
        /\ lastLease' = lastLease + 1 /\ settled' = settled /\ lastLease < MaxLeases
    BY <2>1, Leasing DEF WorkersTypeOK, Start
  <2>3. holder1 = [holder EXCEPT ![s.job] = lastLease + 1]
    BY <2>2
  <2>4. Fence!Grant(s.job)
    BY <2>2, <2>3 DEF Fence!Grant
  <2> QED BY <2>2, <2>4 DEF Fence!Next
<1>3. ASSUME NEW t \in issued, SettledBy(t) PROVE [Fence!Next]_Fence!fenceVars
  <2>1. /\ row[t.job].lease = t.lease /\ row'[t.job].lease = NoLease /\ t.job \in Jobs
        /\ \A k \in Jobs \ {t.job} : row'[k] = row[k] /\ lastLease' = lastLease
    BY <1>1, <1>3 DEF SettledBy
  <2>2. holder1 = [holder EXCEPT ![t.job] = 0]
    BY <2>1 DEF NoLease
  <2>3. holder[t.job] = t.lease /\ settled[t.lease] = "open"
    BY <1>1, <2>1 DEF FenceInv, Held, NoLease
  <2>4. \E o \in Fence!Outcomes : settled' = [settled EXCEPT ![holder[t.job]] = o]
    BY <1>3, <2>3 DEF SettledBy
  <2>5. Fence!Settle(t.job)
    BY <1>1, <1>3, <2>2, <2>3, <2>4 DEF SettledBy, Fence!Settle
  <2> QED BY <2>1, <2>5 DEF Fence!Next
<1>4. ASSUME NEW j \in Jobs, Dropped(j) PROVE [Fence!Next]_Fence!fenceVars
  <2>1. /\ row'[j].lease = NoLease /\ \A k \in Jobs \ {j} : row'[k] = row[k]
        /\ lastLease' = lastLease /\ settled' = settled
    BY <1>1, <1>4 DEF Dropped
  <2>2. holder1 = [holder EXCEPT ![j] = 0]
    BY <2>1 DEF NoLease
  <2>3. CASE holder[j] = 0
    <3>1. holder1 = holder
      BY <2>2, <2>3
    <3> QED BY <2>1, <3>1 DEF Fence!fenceVars
  <2>4. CASE holder[j] # 0
    <3>1. Fence!Revoke(j)
      BY <2>1, <2>2, <2>4 DEF Fence!Revoke
    <3> QED BY <3>1 DEF Fence!Next
  <2> QED BY <2>3, <2>4
<1>5. CASE LeaseKept
  <2>1. holder1 = holder
    BY <1>5 DEF LeaseKept
  <2> QED BY <1>5, <2>1 DEF LeaseKept, Fence!fenceVars
<1> QED
  BY <1>2, <1>3, <1>4, <1>5, EveryLeaseMove

\* The workers, their heartbeats, sweeps, timeouts and crashes, together with
\* the ledger's unfenced writes, implement the abstract lease: at most one
\* holder per job, only the holder settles, and a lease never comes back.
THEOREM WorkersImplementFencing == WorkersSafety => WorkersAreFenced
<1>1. WorkersInit => Fence!Init
  BY DEF WorkersInit, Init, EmptyRow, NoLease, Leases, Fence!Init
<1> QED
  BY <1>1, FencedStep, WorkersTyping, CallsInvariance, FenceInvariance, PTL
  DEF WorkersSafety, WorkersAreFenced, Fence!Spec

\* SettleOnce, which JobStore promises to callers that use nothing else, holds
\* of workers whose ledger writes over the row as well.
THEOREM WorkersSettleOnce == WorkersSafety => SettleOnce
<1>1. WorkersTypeOK /\ CallsInv /\ FenceInv /\ [WorkersNext]_workerVars =>
        [\A t \in issued : settled'[t.lease] # settled[t.lease] =>
           settled[t.lease] = "open" /\ row[t.job].lease = t.lease]_vars
  <2> SUFFICES ASSUME WorkersTypeOK, CallsInv, FenceInv, [WorkersNext]_workerVars,
                      NEW t \in issued, settled'[t.lease] # settled[t.lease]
               PROVE  settled[t.lease] = "open" /\ row[t.job].lease = t.lease
    OBVIOUS
  <2>1. PICK u \in issued : SettledBy(u)
    <3>1. settled' # settled
      OBVIOUS
    <3>2. Taken => settled' = settled
      BY DEF Taken, Start
    <3> QED BY <3>1, <3>2, EveryLeaseMove DEF Dropped, LeaseKept
  <2>2. t.lease \in Leases /\ u.lease \in Leases /\ t.lease # NoLease /\ u.job \in Jobs
    BY DEF WorkersTypeOK, TypeOK, Ticket, Leases, NoLease
  <2>3. t.lease = u.lease
    BY <2>1, <2>2 DEF SettledBy, WorkersTypeOK, TypeOK
  <2>4. t = u
    BY <2>3 DEF FenceInv, IssuedUnique
  <2> QED BY <2>1, <2>2, <2>4 DEF SettledBy, FenceInv, Held
<1> QED
  BY <1>1, WorkersTyping, CallsInvariance, FenceInvariance, PTL DEF WorkersSafety, SettleOnce

(***************************************************************************)
(* Ownership.  A heartbeat names its worker and no lease.  That it renews  *)
(* its own, unless the ledger has put the wrong name on the row, rests on  *)
(* the order in which leases are handed out: a row carries the newest      *)
(* lease issued for it, and a worker holds the newest lease issued to it.  *)
(***************************************************************************)
NewestOfRow == \A t \in issued : row[t.job].lease # NoLease => t.lease <= row[t.job].lease
NewestOfWorker ==
  \A w \in Workers : exec[w].phase \notin Unclaiming =>
    \A t \in issued : t.worker = w => t.lease <= exec[w].claim.lease

OwnInv == NewestOfRow /\ NewestOfWorker

\* Only a worker that wins a claim takes a lease.
LEMMA LeasesAreClaimed ==
  ASSUME WorkersTypeOK, CallsInv, [WorkersNext]_workerVars
  PROVE  \/ lastLease' = lastLease
         \/ \E w \in Workers : ClaimWins(w)
<1>1. ASSUME NEW w \in Workers, WorkerStep(w), ~ClaimWins(w) PROVE lastLease' = lastLease
  <2>1. CASE \E j \in Jobs : Select(w, j)
    BY <2>1 DEF Select, SelectCandidate, TakeRead
  <2>2. CASE ClaimLoses(w)
    BY <2>2 DEF ClaimLoses, DropRead, vars
  <2>3. CASE Beat(w) \/ SettleWins(w) \/ Archive(w)
    BY <2>3 DEF Beat, RenewLease, SettleWins, Complete, ScheduleRetry, SpendRetry, Fail, Defer,
                Archive, DeadLetter
  <2>4. CASE StartRun(w) \/ Report(w) \/ Panic(w)
    BY <2>4 DEF StartRun, Report, Panic, UpdateJob
  <2>5. CASE \/ BeatLoses(w) \/ BeatLooks(w) \/ TimeOut(w) \/ Return(w) \/ Refresh(w)
             \/ SettleLoses(w) \/ SettleFaults(w) \/ ReadBack(w) \/ ReadBackFaults(w) \/ Crash(w)
             \/ StartUnrecorded(w)
    BY <2>5 DEF StartUnrecorded, BeatLoses, BeatLooks, TimeOut, Return, Refresh, SettleLoses, SettleFaults, ReadBack,
                ReadBackFaults, Crash, vars
  <2> QED BY <1>1, <2>1, <2>2, <2>3, <2>4, <2>5 DEF WorkerStep, Proceeds
<1>2. ASSUME NEW j \in Jobs, StoreStep(j) PROVE lastLease' = lastLease
  <2>1. CASE SweepReads(j) \/ ReaperScans(j) \/ Expires(j) \/ Enqueue(j) \/ Cancels(j)
    BY <2>1 DEF SweepReads, ReadForRetry, ReaperScans, ScanExpired, TakeRead, Expires, LeaseExpires,
                Enqueue, Create, Cancels, Cancel
  <2>2. CASE SweepCommits(j) \/ ReaperTakes(j) \/ ReadIsLost(j)
    BY <2>2 DEF SweepCommits, RetryCommit, ExhaustRetry, ReaperTakes, RequeueSingle, ReadIsLost, DropRead
  <2> QED BY <1>2, <2>1, <2>2 DEF StoreStep
<1>3. CASE UNCHANGED workerVars
  BY <1>3 DEF workerVars
<1> QED
  BY <1>1, <1>2, <1>3 DEF WorkersNext

\* Ownership is kept by every step.
LEMMA OwnStep ==
  ASSUME WorkersTypeOK, CallsInv, [WorkersNext]_workerVars, FenceInv, OwnInv
  PROVE  OwnInv'
<1>1. /\ row \in [Jobs -> Row] /\ lastLease \in Int
      /\ \A t \in issued : /\ t.job \in Jobs /\ t.lease \in Int /\ t.lease # NoLease
                           /\ t.lease <= lastLease
  BY DEF WorkersTypeOK, TypeOK, Ticket, Leases, NoLease, FenceInv, IssuedUnique
<1>2. NewestOfRow'
  <2>1. ASSUME \A j \in Jobs : row'[j].lease \in {NoLease, row[j].lease}, issued' = issued
        PROVE  NewestOfRow'
    BY <1>1, <2>1 DEF OwnInv, NewestOfRow
  <2>2. ASSUME NEW s \in reads, NEW w \in Workers, Start(s, w) PROVE NewestOfRow'
    <3> DEFINE n == [job |-> s.job, worker |-> w, lease |-> lastLease + 1]
    <3>1. /\ s.job \in Jobs /\ row'[s.job].lease = lastLease + 1
          /\ \A k \in Jobs \ {s.job} : row'[k] = row[k]
          /\ issued' = issued \cup {n}
      BY <2>2, Leasing DEF WorkersTypeOK
    <3>2. n.job = s.job /\ n.lease = lastLease + 1
      OBVIOUS
    <3> HIDE DEF n
    <3>3. ASSUME NEW t \in issued, row'[t.job].lease # NoLease PROVE t.lease <= row'[t.job].lease
      BY <1>1, <3>1, <3>2, <3>3 DEF OwnInv, NewestOfRow
    <3>4. n.lease <= row'[n.job].lease
      BY <1>1, <3>1, <3>2
    <3> QED BY <3>1, <3>3, <3>4 DEF NewestOfRow
  <2>3. ASSUME NEW t \in issued, SettledBy(t) PROVE NewestOfRow'
    <3>1. \A j \in Jobs : row'[j].lease \in {NoLease, row[j].lease}
      BY <1>1, <2>3 DEF SettledBy
    <3> QED BY <2>1, <2>3, <3>1 DEF SettledBy
  <2>4. ASSUME NEW j \in Jobs, Dropped(j) PROVE NewestOfRow'
    <3>1. \A k \in Jobs : row'[k].lease \in {NoLease, row[k].lease}
      BY <1>1, <2>4 DEF Dropped
    <3> QED BY <2>1, <2>4, <3>1 DEF Dropped
  <2>5. CASE LeaseKept
    BY <2>1, <2>5 DEF LeaseKept
  <2> QED BY <2>2, <2>3, <2>4, <2>5, EveryLeaseMove DEF Taken
<1>3. NewestOfWorker'
  <2>1. ASSUME NEW w \in Workers, ClaimWins(w) PROVE NewestOfWorker'
    <3>1. PICK t \in Ticket :
            /\ t.worker = w /\ t.lease = lastLease + 1
            /\ exec' = [exec EXCEPT ![w].phase = "claimed", ![w].claim = t]
            /\ issued' = issued \cup {t}
      BY <2>1, Winning
    <3>2. exec'[w].claim = t /\ \A v \in Workers \ {w} : exec'[v] = exec[v]
      BY <3>1 DEF WorkersTypeOK, Exec
    <3>3. \A u \in issued' : u.lease <= t.lease
      BY <1>1, <3>1 DEF Ticket, Leases
    <3>4. ASSUME NEW v \in Workers \ {w}, exec'[v].phase \notin Unclaiming,
                 NEW u \in issued', u.worker = v
          PROVE  u.lease <= exec'[v].claim.lease
      BY <3>1, <3>2, <3>4 DEF OwnInv, NewestOfWorker
    <3> QED BY <3>2, <3>3, <3>4 DEF NewestOfWorker
  <2>2. CASE \A w \in Workers : ~ClaimWins(w)
    <3>1. issued' = issued
      <4>1. lastLease' = lastLease
        BY <2>2, LeasesAreClaimed
      <4>2. ~Taken
        BY <1>1, <4>1 DEF Taken, Start
      <4> QED BY <4>2, EveryLeaseMove DEF SettledBy, Dropped, LeaseKept
    <3>2. \A w \in Workers : exec'[w].phase \notin Unclaiming =>
            exec[w].phase \notin Unclaiming /\ exec'[w].claim = exec[w].claim
      <4>1. CASE UNCHANGED exec
        BY <4>1
      <4>2. ASSUME NEW w \in Workers, Waits(w) \/ GoesOn(w)
            PROVE  \A v \in Workers : exec'[v].phase \notin Unclaiming =>
                     exec[v].phase \notin Unclaiming /\ exec'[v].claim = exec[v].claim
        BY <4>2 DEF Waits, GoesOn, WorkersTypeOK
      <4> QED BY <2>2, <4>1, <4>2, EveryStep DEF workerVars
    <3> QED BY <3>1, <3>2 DEF OwnInv, NewestOfWorker
  <2> QED BY <2>1, <2>2
<1> QED
  BY <1>2, <1>3 DEF OwnInv

\* The leases of rows and workers are the newest ones.
THEOREM OwnInvariance == WorkersSafety => []OwnInv
<1>1. WorkersInit => OwnInv
  BY DEF WorkersInit, Init, OwnInv, NewestOfRow, NewestOfWorker
<1> QED
  BY <1>1, OwnStep, WorkersTyping, CallsInvariance, FenceInvariance, PTL DEF WorkersSafety

\* A heartbeat renews the lease of its own execution and no other, although its
\* UPDATE is fenced by the worker alone, as long as the row names the worker
\* its lease was issued to.
THEOREM HeartbeatsRenewTheirOwn == WorkersSafety => []BeatRenewsOwnLease
<1>1. WorkersTypeOK /\ CallsInv /\ OwnInv => BeatRenewsOwnLease
  <2> SUFFICES ASSUME WorkersTypeOK, CallsInv, OwnInv, NEW w \in Workers,
                      exec[w].phase \in Executing, Renewable(Claim(w)), NamesHolder(Claim(w).job)
               PROVE  row[Claim(w).job].lease = Claim(w).lease
    BY DEF BeatRenewsOwnLease
  <2> DEFINE j == Claim(w).job
  <2>1. exec[w].phase \notin Unclaiming
    BY DEF Executing, Unclaiming
  <2>2. Claim(w) \in issued /\ Claim(w).worker = w /\ j \in Jobs
    BY <2>1 DEF CallsInv, Claim, WorkersTypeOK, TypeOK, Ticket
  <2>3. PICK t \in issued : t.worker = w /\ t.lease = row[j].lease
    BY <2>2 DEF Renewable, NamesHolder
  <2>4. /\ Claim(w).lease \in Int /\ row[j].lease \in Int /\ row[j].lease # NoLease
    BY <2>2, <2>3 DEF WorkersTypeOK, TypeOK, Ticket, Leases, NoLease
  <2>5. Claim(w).lease <= row[j].lease
    BY <2>2, <2>4 DEF OwnInv, NewestOfRow
  <2>6. row[j].lease <= Claim(w).lease
    BY <2>1, <2>3 DEF OwnInv, NewestOfWorker, Claim
  <2> QED BY <2>4, <2>5, <2>6
<1> QED
  BY <1>1, WorkersTyping, CallsInvariance, OwnInvariance, PTL

(***************************************************************************)
(* No leak.  A RUNNING row that the ledger has not touched is being        *)
(* executed by the worker it names; so a worker that has passed its        *)
(* settlement must have left no such row behind.                           *)
(***************************************************************************)
Settling == {"archive", "readback", "report"}

Executed ==
  \A j \in Jobs \ overwritten : row[j].status = "RUNNING" =>
    /\ row[j].worker \in Workers /\ exec[row[j].worker].phase \notin Unclaiming
    /\ exec[row[j].worker].claim = [job |-> j, worker |-> row[j].worker, lease |-> row[j].lease]
LetGo ==
  \A w \in Workers : exec[w].phase \in Settling =>
    exec[w].claim.job \in overwritten \/ ~Owns(exec[w].claim)

LeakInv == faults = 0 => Executed /\ LetGo

\* A RUNNING row known to be clean was clean and RUNNING for the same execution.
RunsKept ==
  \A j \in Jobs \ overwritten' : row'[j].status = "RUNNING" =>
    /\ j \notin overwritten /\ row[j].status = "RUNNING"
    /\ row[j].worker = row'[j].worker /\ row[j].lease = row'[j].lease

\* Only a claim begins an execution.
LEMMA RunsMove ==
  ASSUME WorkersTypeOK, CallsInv, [WorkersNext]_workerVars, \A w \in Workers : ~ClaimWins(w)
  PROVE  RunsKept
<1>1. row \in [Jobs -> Row] /\ lastLease \in Int /\ \A t \in issued : t.job \in Jobs
  BY DEF WorkersTypeOK, TypeOK, Ticket
<1>2. ASSUME NEW w \in Workers, LedgerWrites(w) PROVE RunsKept
  BY <1>1, <1>2 DEF LedgerWrites, UpdateJob, RunsKept
<1>3. ASSUME [Next]_vars, Transacted PROVE RunsKept
  <2>1. ~Taken
    <3>1. lastLease' = lastLease
      BY LeasesAreClaimed
    <3> QED BY <1>1, <3>1 DEF Taken, Start
  <2>2. ASSUME NEW j \in Jobs, NEW q, q.status # "RUNNING", row' = [row EXCEPT ![j] = q]
        PROVE  RunsKept
    <3>1. row'[j].status # "RUNNING" /\ \A k \in Jobs \ {j} : row'[k] = row[k]
      BY <1>1, <2>2
    <3> QED BY <1>3, <3>1 DEF RunsKept, Transacted
  <2>3. CASE LeaseKept /\ ExecutionKept
    BY <1>3, <2>3 DEF LeaseKept, ExecutionKept, RunsKept, Transacted
  <2>4. ASSUME NEW t \in issued, SettledBy(t) PROVE RunsKept
    BY <1>1, <2>2, <2>4 DEF SettledBy
  <2>5. ASSUME NEW j \in Jobs, Dropped(j) PROVE RunsKept
    BY <2>2, <2>5 DEF Dropped
  <2> QED BY <1>3, <2>1, <2>3, <2>4, <2>5, LeasesMove DEF WorkersTypeOK
<1> QED
  BY <1>2, <1>3, Overwriting

\* A worker that rests without a fault held no claim or has let it go.
LEMMA RestsEmpty ==
  ASSUME NEW w \in Workers, StepOfRest(w), faults = 0, faults' = 0
  PROVE  exec[w].phase \in Unclaiming \cup Settling
<1>1. ~Crash(w) /\ ~Panic(w)
  BY DEF Crash, Panic, Fault, Fails
<1> QED
  BY <1>1 DEF StepOfRest, Select, ClaimLoses, Report, At, Unclaiming, Settling

\* A worker that goes on past its settlement owns its row no more, or has owned
\* it no more before.
LEMMA GoesOnEmpty ==
  ASSUME NEW w \in Workers, StepOfRun(w), faults = 0, faults' = 0,
         WorkersTypeOK, CallsInv, GoesOn(w), exec'[w].phase \in Settling
  PROVE  \/ row'[exec[w].claim.job].status # "RUNNING"
         \/ row' = row /\ ~Owns(exec[w].claim)
         \/ exec[w].phase \in Settling
<1> DEFINE t == Claim(w)
           Gone == \/ row'[t.job].status # "RUNNING"
                   \/ row' = row /\ ~Owns(t)
                   \/ exec[w].phase \in Settling
<1> SUFFICES Gone
  BY DEF Claim
<1>1. t \in issued /\ t.job \in Jobs
  BY DEF GoesOn, CallsInv, Claim, WorkersTypeOK, TypeOK, Ticket
<1>2. exec[w] \in Exec /\ exec \in [Workers -> Exec] /\ row \in [Jobs -> Row]
  BY DEF WorkersTypeOK, TypeOK
<1> HIDE DEF t
<1>3. CASE SettleWins(w)
  <2>1. Complete(t) \/ Fail(t) \/ SpendRetry(t) \/ Defer(t)
    BY <1>3 DEF SettleWins, ScheduleRetry, t
  <2>2. \E q : Unleased(q) /\ row' = [row EXCEPT ![t.job] = q]
    BY <1>1, <2>1, HolderReleases DEF WorkersTypeOK
  <2> QED BY <1>1, <1>2, <2>2 DEF Unleased
<1>4. CASE SettleLoses(w)
  BY <1>4 DEF SettleLoses, vars, t
<1>5. CASE Refresh(w)
  <2>1. row' = row /\ exec'[w].phase # "settle"
    BY <1>5 DEF Refresh, vars, Settling
  <2>2. row[t.job].status = "SUCCEEDED"
    BY <1>2, <1>5, <2>1 DEF Refresh, Exec, t
  <2> QED BY <2>1, <2>2
<1>6. CASE Archive(w) \/ ReadBack(w) \/ ReadBackFaults(w)
  BY <1>6 DEF Archive, ReadBack, ReadBackFaults, At, Settling
<1>7. CASE SettleFaults(w) \/ StartUnrecorded(w)
  BY <1>7 DEF SettleFaults, StartUnrecorded, Fault, Fails
<1>8. CASE StartRun(w) \/ Return(w)
  <2>1. exec'[w].phase \in {"running", "refresh"}
    <3>1. CASE StartRun(w)
      BY <1>2, <3>1 DEF StartRun, RunBegins, Exec
    <3>2. ASSUME NEW p, NEW m,
                 exec' = [exec EXCEPT ![w].phase = "refresh", ![w].plan = p, ![w].read = NoRead,
                                      ![w].mode = m]
          PROVE  exec'[w].phase = "refresh"
      BY <1>2, <3>2 DEF Exec
    <3>3. CASE Return(w)
      <4>1. PICK result \in Results :
              exec' = [exec EXCEPT ![w].phase = "refresh", ![w].plan = Plan(w, result),
                                   ![w].read = NoRead,
                                   ![w].mode = IF exec[w].mode = "beating" THEN "beating" ELSE "told"]
        BY <3>3 DEF Return
      <4> QED BY <3>2, <4>1
    <3> QED BY <1>8, <3>1, <3>3
  <2> QED BY <2>1 DEF Settling
<1>9. CASE BeatLoses(w) \/ BeatLooks(w) \/ TimeOut(w) \/ Beat(w)
  <2>1. exec'[w].phase = exec[w].phase
    BY <1>2, <1>9 DEF BeatLoses, BeatLooks, TimeOut, Beat, Exec
  <2> QED BY <2>1
<1> QED
  BY <1>3, <1>4, <1>5, <1>6, <1>7, <1>8, <1>9 DEF StepOfRun

\* Every step keeps Executed and LetGo.
LEMMA LeakStep ==
  ASSUME WorkersTypeOK, CallsInv, [WorkersNext]_workerVars, FenceInv, LeakInv
  PROVE  LeakInv'
<1> SUFFICES ASSUME faults' = 0 PROVE Executed' /\ LetGo'
  BY DEF LeakInv
<1>1. faults = 0
  BY FaultsCount DEF Fails, WorkersTypeOK
<1>2. Executed /\ LetGo
  BY <1>1 DEF LeakInv
<1>3. /\ \A w \in Workers : exec[w].phase \notin Unclaiming =>
            /\ exec[w].claim.job \in Jobs
            /\ exec[w].claim.lease \in Int /\ exec[w].claim.lease <= lastLease
      /\ exec \in [Workers -> Exec] /\ lastLease \in Int
  <2>1. ASSUME NEW w \in Workers, exec[w].phase \notin Unclaiming
        PROVE  /\ exec[w].claim.job \in Jobs
               /\ exec[w].claim.lease \in Int /\ exec[w].claim.lease <= lastLease
    <3>1. exec[w].claim \in issued
      BY <2>1 DEF CallsInv
    <3> QED BY <3>1 DEF WorkersTypeOK, TypeOK, Ticket, Leases, FenceInv, IssuedUnique
  <2> QED BY <2>1 DEF WorkersTypeOK, TypeOK
<1>4. ASSUME NEW w \in Workers, ClaimWins(w) PROVE Executed' /\ LetGo'
  <2>1. exec[w].read \in reads /\ Start(exec[w].read, w) /\ exec[w].phase = "claiming" /\ Transacted
    BY <1>4 DEF ClaimWins, Start, At, NoFault
  <2> DEFINE i == exec[w].read.job
             t == [job |-> i, worker |-> w, lease |-> lastLease + 1]
  <2>2. /\ i \in Jobs /\ row'[i].lease = lastLease + 1 /\ row'[i].worker = w
        /\ \A k \in Jobs \ {i} : row'[k] = row[k]
    BY <2>1, Leasing DEF WorkersTypeOK
  <2>3. exec'[w].phase = "claimed" /\ exec'[w].claim = t
    BY <1>3, <1>4 DEF ClaimWins, Start, Exec
  <2>4. \A v \in Workers \ {w} : exec'[v] = exec[v]
    BY <1>4 DEF ClaimWins, WorkersTypeOK
  <2>5. \A k \in Jobs \ {i} : k \in overwritten' <=> k \in overwritten
    BY <2>1, <2>2 DEF Transacted
  <2>6. Executed'
    <3>1. /\ row'[i].worker \in Workers /\ exec'[row'[i].worker].phase \notin Unclaiming
          /\ exec'[row'[i].worker].claim = [job |-> i, worker |-> row'[i].worker, lease |-> row'[i].lease]
      BY <2>2, <2>3 DEF Unclaiming
    <3>2. ASSUME NEW j \in Jobs \ {i}, j \notin overwritten', row'[j].status = "RUNNING"
          PROVE  /\ row'[j].worker \in Workers /\ exec'[row'[j].worker].phase \notin Unclaiming
                 /\ exec'[row'[j].worker].claim =
                      [job |-> j, worker |-> row'[j].worker, lease |-> row'[j].lease]
      <4>1. /\ row[j].worker \in Workers /\ exec[row[j].worker].phase \notin Unclaiming
            /\ exec[row[j].worker].claim = [job |-> j, worker |-> row[j].worker, lease |-> row[j].lease]
        BY <1>2, <2>2, <2>5, <3>2 DEF Executed
      <4>2. row[j].worker # w
        BY <2>1, <4>1 DEF Unclaiming
      <4> QED BY <2>2, <2>4, <4>1, <4>2
    <3> QED BY <3>1, <3>2 DEF Executed
  <2>7. LetGo'
    <3>1. ASSUME NEW v \in Workers, exec'[v].phase \in Settling
          PROVE  exec'[v].claim.job \in overwritten' \/ ~Owns(exec[v].claim)'
      <4>1. v # w /\ exec'[v] = exec[v] /\ exec[v].phase \in Settling
        BY <2>3, <2>4, <3>1 DEF Settling
      <4>2. /\ exec[v].claim.job \in Jobs /\ exec[v].claim.lease # lastLease + 1
            /\ exec[v].claim.job \in overwritten \/ ~Owns(exec[v].claim)
        BY <1>2, <1>3, <4>1 DEF LetGo, Settling, Unclaiming
      <4>3. CASE exec[v].claim.job = i
        BY <2>2, <4>1, <4>2, <4>3 DEF Owns
      <4>4. CASE exec[v].claim.job # i
        BY <2>2, <2>5, <4>1, <4>2, <4>4 DEF Owns
      <4> QED BY <4>3, <4>4
    <3> QED BY <3>1 DEF LetGo
  <2> QED BY <2>6, <2>7
<1>5. CASE \A w \in Workers : ~ClaimWins(w)
  <2>1. RunsKept
    BY <1>5, RunsMove
  <2>2. ASSUME NEW v \in Workers, exec'[v].claim = exec[v].claim, exec[v].phase \in Settling,
               exec'[v].phase \in Settling
        PROVE  exec'[v].claim.job \in overwritten' \/ ~Owns(exec[v].claim)'
    <3>1. /\ exec[v].claim.job \in Jobs
          /\ exec[v].claim.job \in overwritten \/ ~Owns(exec[v].claim)
      BY <1>2, <1>3, <2>2 DEF LetGo, Settling, Unclaiming
    <3> QED BY <2>1, <2>2, <3>1 DEF RunsKept, Owns
  <2>3. ASSUME \A v \in Workers : \/ /\ exec'[v].claim = exec[v].claim
                                     /\ exec[v].phase \notin Unclaiming => exec'[v].phase \notin Unclaiming
                                  \/ \A j \in Jobs \ overwritten' :
                                       row'[j].status = "RUNNING" => row'[j].worker # v
        PROVE  Executed'
    BY <1>2, <2>1, <2>3 DEF Executed, RunsKept
  <2>4. CASE UNCHANGED exec
    BY <2>2, <2>3, <2>4 DEF LetGo
  <2>5. ASSUME NEW w \in Workers, GoesOn(w), StepOfRun(w) PROVE Executed' /\ LetGo'
    <3>1. /\ exec[w].phase \notin Unclaiming /\ exec'[w].phase \notin Unclaiming
          /\ exec'[w].claim = exec[w].claim /\ \A v \in Workers \ {w} : exec'[v] = exec[v]
      BY <2>5 DEF GoesOn, WorkersTypeOK
    <3>2. Executed'
      BY <2>3, <3>1
    <3>3. ASSUME exec'[w].phase \in Settling
          PROVE  exec'[w].claim.job \in overwritten' \/ ~Owns(exec[w].claim)'
      <4>1. CASE exec[w].phase \in Settling
        BY <2>2, <3>1, <3>3, <4>1
      <4>2. CASE exec[w].phase \notin Settling
        <5>1. \/ row'[exec[w].claim.job].status # "RUNNING"
              \/ row' = row /\ ~Owns(exec[w].claim)
          BY <1>1, <2>5, <3>3, <4>2, GoesOnEmpty
        <5> QED BY <3>1, <5>1 DEF Owns
      <4> QED BY <4>1, <4>2
    <3>4. \A v \in Workers \ {w} : exec'[v].phase \in Settling =>
            exec'[v].claim.job \in overwritten' \/ ~Owns(exec[v].claim)'
      BY <2>2, <3>1
    <3> QED BY <3>1, <3>2, <3>3, <3>4 DEF LetGo
  <2>6. ASSUME NEW w \in Workers, Waits(w), StepOfRest(w) PROVE Executed' /\ LetGo'
    <3>1. exec'[w].phase \in Unclaiming /\ \A v \in Workers \ {w} : exec'[v] = exec[v]
      BY <2>6 DEF Waits, WorkersTypeOK
    <3>2. exec[w].phase \in Unclaiming \cup Settling
      BY <1>1, <2>6, RestsEmpty
    <3>3. ASSUME NEW j \in Jobs \ overwritten', row'[j].status = "RUNNING" PROVE row'[j].worker # w
      <4>1. /\ j \notin overwritten /\ row[j].status = "RUNNING"
            /\ row[j].worker = row'[j].worker /\ row[j].lease = row'[j].lease
        BY <2>1, <3>3 DEF RunsKept
      <4>2. CASE row[j].worker = w
        <5>1. /\ exec[w].phase \notin Unclaiming
              /\ exec[w].claim = [job |-> j, worker |-> w, lease |-> row[j].lease]
          BY <1>2, <4>1, <4>2 DEF Executed
        <5>2. exec[w].phase \in Settling /\ exec[w].claim.job = j /\ Owns(exec[w].claim)
          BY <3>2, <4>1, <4>2, <5>1 DEF Owns
        <5> QED BY <1>2, <4>1, <5>2 DEF LetGo
      <4>3. CASE row[j].worker # w
        BY <4>1, <4>3
      <4> QED BY <4>2, <4>3
    <3>4. Executed'
      BY <2>3, <3>1, <3>3
    <3>5. LetGo'
      BY <2>2, <3>1 DEF LetGo, Settling, Unclaiming
    <3> QED BY <3>4, <3>5
  <2> QED BY <1>5, <2>4, <2>5, <2>6, EveryStep DEF workerVars
<1> QED
  BY <1>4, <1>5

\* Without a fault no worker leaves a RUNNING row to the reaper, except one
\* that the ledger has written over.
THEOREM NothingIsLeaked == WorkersSafety => []NoLeakedLease
<1>1. WorkersInit => LeakInv
  BY DEF WorkersInit, Init, EmptyRow, LeakInv, Executed, LetGo, Idle, Settling
<1>2. LeakInv => NoLeakedLease
  BY DEF LeakInv, Executed, NoLeakedLease, Claim
<1> QED
  BY <1>1, <1>2, LeakStep, WorkersTyping, CallsInvariance, FenceInvariance, PTL DEF WorkersSafety
=============================================================================
