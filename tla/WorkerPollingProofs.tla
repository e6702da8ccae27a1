------------------------- MODULE WorkerPollingProofs -------------------------
(***************************************************************************)
(* Theorems of WorkerPolling, for any jobs and workers, every budget, every *)
(* backoff and every bound.                                                *)
(*                                                                         *)
(* Two arguments.  A job that may still be claimed has an attempt left,    *)
(* which bounds the claims.  And a worker that found the queue empty is    *)
(* told of every job that is announced later, until it polls again: by its *)
(* channel if it sleeps, into missed if it has yet to subscribe.           *)
(***************************************************************************)
EXTENDS WorkerPolling, TLAPS

\* What the budget leaves a job, by its status.
Affordable(j) ==
  /\ status[j] = "ABSENT" => attempts[j] = 0
  /\ status[j] \in {"QUEUED", "RETRY_WAIT", "DUE"} => attempts[j] < Budget

\* A worker that is about some job has one.
Busy(w) == worker[w].at \in {"announce", "start", "working"} => worker[w].job \in Jobs

PollInv == /\ TypeOK
           /\ \A j \in Jobs : Affordable(j)
           /\ \A w \in Workers : Busy(w)

\* The queue was empty when the worker looked, and nothing has reached it since.
Untold(w) == /\ worker[w].empty
             /\ At(w, "subscribe") \/ (At(w, "asleep") /\ worker[w].channel = "open")

\* A queued job nobody is going to announce any more.
Announced(j) == status[j] = "QUEUED" /\ j \notin silent /\ \A t \in owed : t.job # j

TellInv == \A w \in Workers, j \in Jobs : Untold(w) /\ Announced(j) => j \in missed[w]

-----------------------------------------------------------------------------
\* RecordEmpty keeps a state of the backoff; its interval stays positive.
LEMMA BackoffTypes ==
  ASSUME NEW s \in PollingState
  PROVE  RecordEmpty(s) \in PollingState
<1> DEFINE counted == [s EXCEPT !.empties = @ + 1]
           next == Capped(2 * s.backoff)
<1>1. s.backoff \in Nat \ {0} /\ s.empties \in Nat
  BY DEF PollingState
<1>2. counted \in PollingState
  BY <1>1 DEF PollingState
<1>3. next \in Nat \ {0}
  BY <1>1, PollingAssumption DEF Capped
<1> HIDE DEF counted, next
<1>4. [counted EXCEPT !.backoff = next] \in PollingState
  BY <1>2, <1>3 DEF PollingState
<1>5. RecordEmpty(s) \in {counted, [counted EXCEPT !.backoff = next]}
  BY DEF RecordEmpty, counted, next
<1> QED
  BY <1>2, <1>4, <1>5

\* The loops start before any job is created.
LEMMA InitPollInv == Init => PollInv
<1> SUFFICES ASSUME Init PROVE PollInv
  OBVIOUS
<1>1. [at |-> "subscribe", list |-> {}, job |-> NoJob, channel |-> "none", empty |-> FALSE,
       sleep |-> Base] \in Worker
  BY PollingAssumption DEF Worker, Places
<1>2. NewPollingState \in PollingState
  BY PollingAssumption DEF NewPollingState, PollingState
<1>3. TypeOK
  BY <1>1, <1>2, PollingAssumption DEF Init, TypeOK, Statuses
<1>4. ASSUME NEW j \in Jobs PROVE Affordable(j)
  BY <1>4 DEF Init, Affordable
<1>5. ASSUME NEW w \in Workers PROVE Busy(w)
  BY <1>5 DEF Init, Busy
<1> QED
  BY <1>3, <1>4, <1>5 DEF PollInv

\* A step that moves one worker and no job.
LEMMA OneWorkerMoves ==
  ASSUME PollInv, NEW w \in Workers, NEW r \in Worker,
         worker' = [worker EXCEPT ![w] = r],
         r.at \in {"announce", "start", "working"} => r.job \in Jobs,
         UNCHANGED <<status, attempts, owed, silent>>,
         polling' \in [Workers -> PollingState], streak' \in [Workers -> 0 .. Threshold + 1],
         missed' \in [Workers -> SUBSET Jobs], faults' \in 0 .. MaxFaults
  PROVE  PollInv'
<1>1. TypeOK'
  BY DEF PollInv, TypeOK
<1>2. \A j \in Jobs : Affordable(j)'
  BY DEF PollInv, Affordable
<1>3. ASSUME NEW v \in Workers PROVE Busy(v)'
  BY DEF PollInv, TypeOK, Busy
<1> QED
  BY <1>1, <1>2, <1>3 DEF PollInv

\* The counters as the steps leave them.
LEMMA CounterTypes ==
  ASSUME PollInv, NEW w \in Workers
  PROVE  /\ [streak EXCEPT ![w] = 0] \in [Workers -> 0 .. Threshold + 1]
         /\ [streak EXCEPT ![w] = IF @ > Threshold THEN @ ELSE @ + 1] \in [Workers -> 0 .. Threshold + 1]
         /\ [polling EXCEPT ![w] = NewPollingState] \in [Workers -> PollingState]
         /\ [missed EXCEPT ![w] = {}] \in [Workers -> SUBSET Jobs]
         /\ faults < MaxFaults => faults + 1 \in 0 .. MaxFaults
<1>1. NewPollingState \in PollingState
  BY PollingAssumption DEF NewPollingState, PollingState
<1> QED
  BY <1>1, PollingAssumption DEF PollInv, TypeOK

-----------------------------------------------------------------------------
\* The steps of a worker that change no row.
LEMMA LoopKeeps ==
  ASSUME PollInv, NEW w \in Workers,
         \/ ListDue(w) \/ ListFails(w) \/ (\E j \in Jobs : Select(w, j))
         \/ ClaimEmpty(w) \/ ClaimConflicts(w) \/ ClaimFails(w)
         \/ Subscribe(w) \/ WakesUp(w) \/ TimerFires(w)
  PROVE  PollInv'
<1> DEFINE Rest == /\ polling' \in [Workers -> PollingState] /\ streak' \in [Workers -> 0 .. Threshold + 1]
                   /\ missed' \in [Workers -> SUBSET Jobs] /\ faults' \in 0 .. MaxFaults
                   /\ UNCHANGED <<status, attempts, owed, silent>>
<1>1. worker \in [Workers -> Worker] /\ worker[w] \in Worker
  BY DEF PollInv, TypeOK
<1>2. Rest
  <2>1. polling \in [Workers -> PollingState] /\ streak \in [Workers -> 0 .. Threshold + 1]
        /\ missed \in [Workers -> SUBSET Jobs] /\ faults \in 0 .. MaxFaults
    BY DEF PollInv, TypeOK
  <2>2. /\ polling' = polling
        /\ streak' = streak \/ streak' = [streak EXCEPT ![w] = 0]
             \/ streak' = [streak EXCEPT ![w] = IF @ > Threshold THEN @ ELSE @ + 1]
        /\ missed' = missed \/ missed' = [missed EXCEPT ![w] = {}]
        /\ faults' = faults \/ (faults < MaxFaults /\ faults' = faults + 1)
        /\ UNCHANGED <<status, attempts, owed, silent>>
    BY DEF ListDue, ListFails, Select, ClaimEmpty, ClaimConflicts, ClaimFails,
       Subscribe, WakesUp, TimerFires, Rises
  <2> QED
    BY <2>1, <2>2, CounterTypes
<1>3. ASSUME NEW r \in Worker, worker' = [worker EXCEPT ![w] = r],
             r.at \in {"announce", "start", "working"} => r.job \in Jobs
      PROVE  PollInv'
  BY <1>2, <1>3, OneWorkerMoves
<1>4. CASE ListDue(w)
  <2>1. PICK due \in SUBSET Jobs : worker' = [worker EXCEPT ![w].at = Sweeping(due), ![w].list = due]
    BY <1>4 DEF ListDue
  <2> DEFINE r == [worker[w] EXCEPT !.at = Sweeping(due), !.list = due]
  <2>2. Sweeping(due) \in Places /\ Sweeping(due) \in {"claim", "sweep"}
    BY DEF Sweeping, Places
  <2>3. r \in Worker /\ r.at = Sweeping(due)
    BY <1>1, <2>2 DEF Worker
  <2>4. worker' = [worker EXCEPT ![w] = r]
    BY <2>1
  <2> QED
    BY <1>3, <2>2, <2>3, <2>4
<1>5. CASE ListFails(w)
  <2> DEFINE r == [worker[w] EXCEPT !.at = "claim"]
  <2>1. r \in Worker /\ r.at = "claim"
    BY <1>1 DEF Worker, Places
  <2> QED
    BY <1>3, <1>5, <2>1 DEF ListFails
<1>6. ASSUME NEW j \in Jobs, Select(w, j) PROVE PollInv'
  <2> DEFINE r == [worker[w] EXCEPT !.at = "start", !.job = j]
  <2>1. r \in Worker /\ r.job \in Jobs
    BY <1>1 DEF Worker, Places
  <2>2. worker' = [worker EXCEPT ![w] = r]
    BY <1>6 DEF Select
  <2> QED
    BY <1>3, <2>1, <2>2
<1>7. CASE ClaimEmpty(w) \/ ClaimConflicts(w) \/ ClaimFails(w)
  <2>1. RecordEmpty(polling[w]).backoff \in Nat \ {0} /\ Base \in Nat \ {0}
    BY BackoffTypes, PollingAssumption DEF PollInv, TypeOK, PollingState
  <2>2. PICK n \in Nat \ {0}, b \in BOOLEAN : Sleep(w, b, n)
    BY <1>7, <2>1 DEF ClaimEmpty, ClaimConflicts, ClaimFails
  <2> DEFINE r == [worker[w] EXCEPT !.at = "subscribe", !.job = NoJob, !.empty = b, !.sleep = n]
  <2>3. r \in Worker /\ r.at = "subscribe"
    BY <1>1 DEF Worker, Places
  <2>4. worker' = [worker EXCEPT ![w] = r]
    BY <2>2 DEF Sleep
  <2> QED
    BY <1>3, <2>3, <2>4
<1>8. CASE Subscribe(w)
  <2> DEFINE r == [worker[w] EXCEPT !.at = "asleep", !.channel = "open"]
  <2>1. r \in Worker /\ r.at = "asleep"
    BY <1>1 DEF Worker, Places
  <2>2. worker' = [worker EXCEPT ![w] = r]
    BY <1>8 DEF Subscribe
  <2> QED
    BY <1>3, <2>1, <2>2
<1>9. CASE WakesUp(w) \/ TimerFires(w)
  <2> DEFINE r == [worker[w] EXCEPT !.at = "poll", !.channel = "none", !.empty = FALSE]
  <2>1. r \in Worker /\ r.at = "poll"
    BY <1>1 DEF Worker, Places
  <2>2. worker' = [worker EXCEPT ![w] = r]
    BY <1>9 DEF WakesUp, TimerFires, Rises
  <2> QED
    BY <1>3, <2>1, <2>2
<1> QED
  BY <1>4, <1>5, <1>6, <1>7, <1>8, <1>9

\* A broadcast wakes the sleepers and lets the announcing worker go on.
LEMMA BroadcastKeeps ==
  ASSUME PollInv, NEW t \in owed, Broadcast(t)
  PROVE  PollInv'
<1>1. t.job \in Jobs /\ owed' \subseteq Transition
  BY DEF PollInv, TypeOK, Transition, Broadcast
<1>2. ASSUME NEW w \in Workers
      PROVE  /\ worker'[w] \in Worker
             /\ worker'[w].at \in {"announce", "start", "working"} =>
                  worker'[w].at = worker[w].at /\ worker'[w].job = worker[w].job
  <2>1. worker[w] \in Worker
    BY DEF PollInv, TypeOK
  <2>2. Sweeping(worker[w].list) \in Places /\ Sweeping(worker[w].list) \in {"claim", "sweep"}
    BY DEF Sweeping, Places
  <2> DEFINE r == [worker[w] EXCEPT !.at = Sweeping(worker[w].list), !.job = NoJob]
             q == [worker[w] EXCEPT !.channel = "closed"]
  <2>3. r \in Worker /\ r.at \in {"claim", "sweep"}
    BY <2>1, <2>2 DEF Worker
  <2>4. q \in Worker /\ q.at = worker[w].at /\ q.job = worker[w].job
    BY <2>1 DEF Worker
  <2>5. worker'[w] \in {r, q, worker[w]}
    BY DEF Broadcast, Woken
  <2> HIDE DEF r, q
  <2> QED
    BY <2>1, <2>3, <2>4, <2>5
<1>3. worker' \in [Workers -> Worker]
  BY <1>2 DEF Broadcast
<1>4. missed' \in [Workers -> SUBSET Jobs]
  <2>1. \A w \in Workers : missed[w] \in SUBSET Jobs
    BY DEF PollInv, TypeOK
  <2> QED
    BY <1>1, <2>1 DEF Broadcast
<1>5. UNCHANGED <<status, attempts, silent, polling, streak, faults>>
  BY DEF Broadcast
<1>6. TypeOK'
  BY <1>1, <1>3, <1>4, <1>5 DEF PollInv, TypeOK
<1>7. \A j \in Jobs : Affordable(j)'
  BY <1>5 DEF PollInv, Affordable
<1>8. \A w \in Workers : Busy(w)'
  BY <1>2 DEF PollInv, Busy
<1> QED
  BY <1>6, <1>7, <1>8 DEF PollInv

\* The steps that move a job: its new status must be one its attempts afford.
LEMMA RowKeeps ==
  ASSUME PollInv,
         \/ \E j \in Jobs : RetryComesDue(j) \/ \E quiet \in BOOLEAN : Create(j, quiet)
         \/ \E w \in Workers : \E j \in Jobs : RetryListed(w, j)
         \/ \E w \in Workers : ClaimWins(w)
         \/ \E w \in Workers : \E outcome \in {"ENDED", "RETRY_WAIT"} : WorkEnds(w, outcome)
  PROVE  PollInv'
<1>0. /\ status \in [Jobs -> Statuses] /\ attempts \in [Jobs -> 0 .. Budget]
      /\ worker \in [Workers -> Worker] /\ owed \subseteq Transition /\ silent \subseteq Jobs
      /\ missed \in [Workers -> SUBSET Jobs] /\ Budget \in Nat
      /\ \A j \in Jobs : Affordable(j)
      /\ \A w \in Workers : Busy(w)
  BY PollingAssumption DEF PollInv, TypeOK
\* The rows after the step, and the workers after it.
<1> DEFINE Rows == /\ status' \in [Jobs -> Statuses] /\ attempts' \in [Jobs -> 0 .. Budget]
                   /\ \A j \in Jobs : Affordable(j)'
           Others == /\ owed' \subseteq Transition /\ silent' \subseteq Jobs
                     /\ polling' \in [Workers -> PollingState]
                     /\ streak' \in [Workers -> 0 .. Threshold + 1]
                     /\ missed' \in [Workers -> SUBSET Jobs] /\ faults' = faults
<1>1. ASSUME Rows, Others, worker' = worker PROVE PollInv'
  BY <1>1 DEF PollInv, TypeOK, Busy
<1>2. ASSUME Rows, Others, NEW w \in Workers, NEW r \in Worker, worker' = [worker EXCEPT ![w] = r],
             r.at \in {"announce", "start", "working"} => r.job \in Jobs
      PROVE  PollInv'
  <2>1. TypeOK'
    BY <1>2 DEF PollInv, TypeOK
  <2>2. ASSUME NEW v \in Workers PROVE Busy(v)'
    BY <1>0, <1>2 DEF Busy
  <2> QED
    BY <1>2, <2>1, <2>2 DEF PollInv
<1>3. \A j \in Jobs : [job |-> j, attempt |-> attempts[j]] \in Transition
  BY <1>0 DEF Transition
<1>4. Statuses = {"ABSENT", "QUEUED", "RUNNING", "RETRY_WAIT", "DUE", "ENDED"}
  BY DEF Statuses
<1>5. ASSUME NEW j \in Jobs, RetryComesDue(j) PROVE PollInv'
  <2>1. Rows
    BY <1>0, <1>4, <1>5 DEF RetryComesDue, Affordable
  <2>2. Others /\ worker' = worker
    BY <1>5 DEF RetryComesDue, PollInv, TypeOK
  <2> QED
    BY <1>1, <2>1, <2>2
<1>6. ASSUME NEW j \in Jobs, NEW quiet \in BOOLEAN, Create(j, quiet) PROVE PollInv'
  <2>1. 0 < Budget
    BY PollingAssumption
  <2>2. Rows
    BY <1>0, <1>4, <1>6, <2>1 DEF Create, Affordable
  <2>3. owed' \subseteq Transition /\ silent' \subseteq Jobs
    BY <1>0, <1>3, <1>6 DEF Create
  <2>4. Others /\ worker' = worker
    BY <1>6, <2>3 DEF Create, PollInv, TypeOK
  <2> QED
    BY <1>1, <2>2, <2>4
<1>7. ASSUME NEW w \in Workers, NEW j \in Jobs, RetryListed(w, j) PROVE PollInv'
  <2>1. Rows
    BY <1>0, <1>4, <1>7 DEF RetryListed, Affordable
  <2>2. owed' \subseteq Transition
    <3>1. owed' \in {owed, owed \cup {[job |-> j, attempt |-> attempts[j]]}}
      BY <1>7 DEF RetryListed
    <3> QED
      BY <1>0, <1>3, <3>1
  <2>3. Others
    BY <1>7, <2>2 DEF RetryListed, PollInv, TypeOK
  <2>4. worker[w] \in Worker /\ worker[w].list \ {j} \in SUBSET Jobs
    BY <1>0 DEF Worker
  <2>5. "announce" \in Places /\ Sweeping(worker[w].list \ {j}) \in Places
        /\ Sweeping(worker[w].list \ {j}) \in {"claim", "sweep"}
    BY DEF Places, Sweeping
  <2> DEFINE r == [worker[w] EXCEPT !.list = @ \ {j}, !.at = "announce", !.job = j]
             q == [worker[w] EXCEPT !.list = @ \ {j}, !.at = Sweeping(worker[w].list \ {j})]
  <2>6. r \in Worker /\ r.job = j
    BY <2>4, <2>5 DEF Worker
  <2>7. q \in Worker /\ q.at \in {"claim", "sweep"}
    BY <2>4, <2>5 DEF Worker
  <2>8. worker' = [worker EXCEPT ![w] = r] \/ worker' = [worker EXCEPT ![w] = q]
    BY <1>7 DEF RetryListed
  <2> HIDE DEF r, q
  <2> QED
    BY <1>2, <2>1, <2>3, <2>6, <2>7, <2>8
<1>8. ASSUME NEW w \in Workers, ClaimWins(w) PROVE PollInv'
  <2>1. PICK j \in Jobs : j = worker[w].job /\ status[j] = "QUEUED"
    BY <1>0, <1>8 DEF ClaimWins, At, Busy, Unclaimed
  <2>2. attempts[j] \in 0 .. Budget /\ attempts[j] < Budget
    BY <1>0, <2>1 DEF Affordable
  <2>3. /\ status' = [status EXCEPT ![j] = "RUNNING"]
        /\ attempts' = [attempts EXCEPT ![j] = @ + 1]
        /\ silent' = silent \ {j}
        /\ missed' = [v \in Workers |-> missed[v] \ {j}]
        /\ polling' = [polling EXCEPT ![w] = NewPollingState]
        /\ streak' = [streak EXCEPT ![w] = 0]
        /\ UNCHANGED <<owed, faults>>
    BY <1>8, <2>1 DEF ClaimWins
  <2>4. Rows
    BY <1>0, <1>4, <2>2, <2>3 DEF Affordable
  <2>5. missed' \in [Workers -> SUBSET Jobs]
    BY <1>0, <2>3
  <2>6. Others
    BY <1>0, <2>3, <2>5, CounterTypes
  <2> DEFINE r == [worker[w] EXCEPT !.at = "working"]
  <2>7. worker[w] \in Worker /\ "working" \in Places
    BY <1>0 DEF Places
  <2>8. r \in Worker /\ r.job = j
    BY <2>1, <2>7 DEF Worker
  <2>9. worker' = [worker EXCEPT ![w] = r]
    BY <1>8 DEF ClaimWins
  <2> QED
    BY <1>2, <2>4, <2>6, <2>8, <2>9
<1>9. ASSUME NEW w \in Workers, NEW outcome \in {"ENDED", "RETRY_WAIT"}, WorkEnds(w, outcome)
      PROVE  PollInv'
  <2>1. PICK j \in Jobs : j = worker[w].job
    BY <1>0, <1>9 DEF WorkEnds, At, Busy
  <2>2. /\ status' = [status EXCEPT ![j] = outcome] /\ attempts' = attempts
        /\ outcome = "RETRY_WAIT" => attempts[j] < Budget
    BY <1>9, <2>1 DEF WorkEnds, MayRetry
  <2>3. Rows
    BY <1>0, <1>4, <2>2 DEF Affordable
  <2>4. Others
    BY <1>9 DEF WorkEnds, PollInv, TypeOK
  <2> DEFINE r == [worker[w] EXCEPT !.at = "poll", !.job = NoJob]
  <2>5. worker[w] \in Worker /\ "poll" \in Places
    BY <1>0 DEF Places
  <2>6. r \in Worker /\ r.at = "poll"
    BY <2>5 DEF Worker
  <2>7. worker' = [worker EXCEPT ![w] = r]
    BY <1>9 DEF WorkEnds
  <2> QED
    BY <1>2, <2>3, <2>4, <2>6, <2>7
<1> QED
  BY <1>5, <1>6, <1>7, <1>8, <1>9

\* Every step keeps types, budgets and the job a worker is about.
LEMMA NextPollInv == PollInv /\ [Next]_vars => PollInv'
<1> SUFFICES ASSUME PollInv, [Next]_vars PROVE PollInv'
  OBVIOUS
<1>1. CASE UNCHANGED vars
  BY <1>1 DEF vars, PollInv, TypeOK, Affordable, Busy
<1>2. ASSUME NEW w \in Workers, WorkerStep(w) PROVE PollInv'
  BY <1>2, LoopKeeps, RowKeeps DEF WorkerStep, Proceeds
<1>3. ASSUME NEW t \in owed, Broadcast(t) PROVE PollInv'
  BY <1>3, BroadcastKeeps
<1>4. CASE \E j \in Jobs : RetryComesDue(j) \/ \E quiet \in BOOLEAN : Create(j, quiet)
  BY <1>4, RowKeeps
<1> QED
  BY <1>1, <1>2, <1>3, <1>4 DEF Next

\* Types of the poll loop, and what they say of the budget: however many
\* workers sweep, retry and claim at once, no job is claimed more often than
\* its attempts allow.
THEOREM PollingTyping == Spec => []TypeOK
<1>1. PollInv => TypeOK
  BY DEF PollInv
<1> QED
  BY <1>1, InitPollInv, NextPollInv, PTL DEF Spec

-----------------------------------------------------------------------------
(***************************************************************************)
(* The wake-ups.                                                           *)
(***************************************************************************)
\* What may happen to a job that no step announces: it is announced after the
\* step only if it was before, and whoever was told of it stays told.
LEMMA StillTold ==
  ASSUME TellInv, TypeOK, NEW w \in Workers, NEW j \in Jobs, Untold(w), Announced(j)',
         status'[j] = "QUEUED" => status[j] = "QUEUED" /\ (j \notin silent' => j \notin silent),
         \A t \in owed : t.job = j => t \in owed',
         j \in missed[w] => j \in missed'[w]
  PROVE  j \in missed'[w]
BY DEF TellInv, Announced

\* Nobody has polled when the loops start.
LEMMA InitTellInv == Init => TellInv
BY DEF Init, TellInv, Untold

\* Writers: a new QUEUED row is silent or owed a broadcast.
LEMMA WritersTell ==
  ASSUME TellInv, TypeOK,
         NEW j \in Jobs, RetryComesDue(j) \/ \E quiet \in BOOLEAN : Create(j, quiet)
  PROVE  TellInv'
<1> SUFFICES ASSUME NEW w \in Workers, NEW k \in Jobs, Untold(w)', Announced(k)'
             PROVE  k \in missed'[w]
  BY DEF TellInv
<1>1. worker' = worker /\ missed' = missed /\ attempts' = attempts
  BY DEF RetryComesDue, Create
<1>2. Untold(w)
  BY <1>1 DEF Untold, At
<1>3. CASE k = j
  <2>1. CASE RetryComesDue(j)
    BY <1>3, <2>1 DEF RetryComesDue, TypeOK, Announced
  <2>2. ASSUME NEW quiet \in BOOLEAN, Create(j, quiet) PROVE FALSE
    <3>1. CASE quiet
      BY <1>3, <2>2, <3>1 DEF Create, Announced
    <3>2. CASE ~quiet
      <4>1. [job |-> j, attempt |-> attempts[j]] \in owed'
        BY <2>2, <3>2 DEF Create
      <4> QED
        BY <1>3, <4>1 DEF Announced
    <3> QED
      BY <3>1, <3>2
  <2> QED
    BY <2>1, <2>2
<1>4. CASE k # j
  <2>1. status'[k] = status[k] /\ owed \subseteq owed' /\ (k \notin silent' => k \notin silent)
    BY <1>4 DEF RetryComesDue, Create, TypeOK
  <2> QED
    BY <1>1, <1>2, <2>1, StillTold
<1> QED
  BY <1>3, <1>4

\* The broadcast: who sleeps is woken, who has yet to subscribe has missed it.
LEMMA BroadcastTells ==
  ASSUME TellInv, TypeOK, NEW t \in owed, Broadcast(t)
  PROVE  TellInv'
<1> SUFFICES ASSUME NEW w \in Workers, NEW k \in Jobs, Untold(w)', Announced(k)'
             PROVE  k \in missed'[w]
  BY DEF TellInv
<1>1. /\ status' = status /\ silent' = silent /\ owed' = owed \ {t}
      /\ missed'[w] = IF At(w, "subscribe") /\ worker[w].empty
                         THEN missed[w] \cup {t.job} ELSE missed[w]
      /\ worker'[w] = IF At(w, "announce") /\ worker[w].job = t.job
                         THEN [worker[w] EXCEPT !.at = Sweeping(worker[w].list), !.job = NoJob]
                         ELSE Woken(w)
  BY DEF Broadcast
<1>2. worker[w] \in Worker
  BY DEF TypeOK
<1>3. At(w, "subscribe") /\ worker[w].empty
  <2>1. Sweeping(worker[w].list) \in {"claim", "sweep"}
    BY DEF Sweeping
  <2>2. ~(At(w, "announce") /\ worker[w].job = t.job)
    BY <1>1, <1>2, <2>1 DEF Worker, Untold, At
  <2>3. ~At(w, "asleep")
    BY <1>1, <1>2, <2>2 DEF Worker, Untold, At, Woken
  <2> QED
    BY <1>1, <2>2, <2>3 DEF Woken, Untold, At
<1>4. CASE k = t.job
  BY <1>1, <1>3, <1>4
<1>5. CASE k # t.job
  <2>1. Untold(w)
    BY <1>3 DEF Untold
  <2> QED
    BY <1>1, <1>5, <2>1, StillTold
<1> QED
  BY <1>4, <1>5

\* The steps of a worker.  It is untold after its step only if it has just
\* found the queue empty, or has subscribed.
LEMMA WorkersTell ==
  ASSUME TellInv, TypeOK, \A v \in Workers : Busy(v), NEW w \in Workers, WorkerStep(w)
  PROVE  TellInv'
<1> SUFFICES ASSUME NEW u \in Workers, NEW k \in Jobs, Untold(u)', Announced(k)'
             PROVE  k \in missed'[u]
  BY DEF TellInv
<1>0. worker[u] \in Worker /\ worker[w] \in Worker /\ worker \in [Workers -> Worker]
  BY DEF TypeOK
<1>1. CASE ClaimEmpty(w)
  <2>1. status'[k] # "QUEUED"
    BY <1>1 DEF ClaimEmpty
  <2> QED
    BY <2>1 DEF Announced
<1>2. CASE ClaimWins(w)
  <2>1. PICK j \in Jobs : j = worker[w].job
    BY <1>2 DEF ClaimWins, At, Busy
  <2>2. /\ status' = [status EXCEPT ![j] = "RUNNING"] /\ silent' = silent \ {j} /\ owed' = owed
        /\ missed' = [v \in Workers |-> missed[v] \ {j}]
        /\ worker' = [worker EXCEPT ![w].at = "working"]
    BY <1>2, <2>1 DEF ClaimWins
  <2>3. k # j
    BY <2>2 DEF Announced, TypeOK
  <2>4. Untold(u)
    <3>1. u # w
      BY <1>0, <2>2 DEF Untold, At, Worker
    <3> QED
      BY <1>0, <2>2, <3>1 DEF Untold, At
  <2> QED
    BY <2>2, <2>3, <2>4, StillTold DEF TypeOK
<1>3. ASSUME NEW j \in Jobs, RetryListed(w, j) PROVE k \in missed'[u]
  <2>1. /\ silent' = silent /\ missed' = missed /\ owed \subseteq owed'
        /\ \/ status' = status
           \/ /\ status' = [status EXCEPT ![j] = "QUEUED"]
              /\ [job |-> j, attempt |-> attempts[j]] \in owed'
    BY <1>3 DEF RetryListed
  <2>2. status'[k] = "QUEUED" => status[k] = "QUEUED"
    BY <2>1 DEF Announced, TypeOK
  <2>3. Untold(u)
    <3>1. /\ worker'[w].at \in {"announce", "claim", "sweep"}
          /\ \A v \in Workers : v # w => worker'[v] = worker[v]
      <4>1. Sweeping(worker[w].list \ {j}) \in {"claim", "sweep"}
        BY DEF Sweeping
      <4> QED
        BY <1>0, <1>3, <4>1 DEF RetryListed, Worker
    <3>2. u # w
      BY <3>1 DEF Untold, At
    <3> QED
      BY <3>1, <3>2 DEF Untold, At
  <2> QED
    BY <2>1, <2>2, <2>3, StillTold
<1>4. ASSUME NEW outcome \in {"ENDED", "RETRY_WAIT"}, WorkEnds(w, outcome) PROVE k \in missed'[u]
  <2>1. /\ silent' = silent /\ missed' = missed /\ owed' = owed
        /\ status' = [status EXCEPT ![worker[w].job] = outcome]
        /\ worker' = [worker EXCEPT ![w].at = "poll", ![w].job = NoJob]
    BY <1>4 DEF WorkEnds
  <2>2. status'[k] = "QUEUED" => status[k] = "QUEUED"
    BY <2>1 DEF TypeOK
  <2>3. Untold(u)
    <3>1. u # w
      BY <1>0, <2>1 DEF Untold, At, Worker
    <3> QED
      BY <1>0, <2>1, <3>1 DEF Untold, At
  <2> QED
    BY <2>1, <2>2, <2>3, StillTold
<1>5. CASE Subscribe(w)
  <2>1. /\ silent' = silent /\ missed' = missed /\ owed' = owed /\ status' = status
        /\ worker' = [worker EXCEPT ![w].at = "asleep", ![w].channel = "open"]
        /\ At(w, "subscribe")
    BY <1>5 DEF Subscribe
  <2>2. Untold(u)
    BY <1>0, <2>1 DEF Untold, At, Worker
  <2> QED
    BY <2>1, <2>2, StillTold
<1>6. CASE ListDue(w) \/ ListFails(w) \/ (\E j \in Jobs : Select(w, j))
             \/ ClaimConflicts(w) \/ ClaimFails(w) \/ WakesUp(w) \/ TimerFires(w)
  <2>1. /\ silent' = silent /\ owed' = owed /\ status' = status
        /\ \A v \in Workers : v # w => worker'[v] = worker[v] /\ missed'[v] = missed[v]
    <3>1. silent' = silent /\ owed' = owed /\ status' = status
      BY <1>6 DEF ListDue, ListFails, Select, ClaimConflicts, ClaimFails, Sleep, WakesUp, TimerFires,
         Rises
    <3>2. \A v \in Workers : v # w => worker'[v] = worker[v]
      BY <1>0, <1>6 DEF ListDue, ListFails, Select, ClaimConflicts, ClaimFails, Sleep, WakesUp,
         TimerFires, Rises
    <3>3. \A v \in Workers : v # w => missed'[v] = missed[v]
      BY <1>6 DEF ListDue, ListFails, Select, ClaimConflicts, ClaimFails, Sleep, WakesUp, TimerFires,
         Rises, TypeOK
    <3> QED
      BY <3>1, <3>2, <3>3
  <2>2. ~Untold(w)'
    <3>1. CASE ListDue(w)
      <4>1. \A l \in SUBSET Jobs : Sweeping(l) \in {"claim", "sweep"}
        BY DEF Sweeping
      <4> QED
        BY <1>0, <3>1, <4>1 DEF ListDue, Worker, Untold, At
    <3>2. CASE ListFails(w) \/ (\E j \in Jobs : Select(w, j))
      BY <1>0, <3>2 DEF ListFails, Select, Worker, Untold, At
    <3>3. CASE ClaimConflicts(w) \/ ClaimFails(w)
      BY <1>0, <3>3 DEF ClaimConflicts, ClaimFails, Sleep, Worker, Untold, At
    <3>4. CASE WakesUp(w) \/ TimerFires(w)
      BY <1>0, <3>4 DEF WakesUp, TimerFires, Rises, Worker, Untold, At
    <3> QED
      BY <1>6, <3>1, <3>2, <3>3, <3>4
  <2>3. u # w /\ Untold(u)
    BY <2>1, <2>2 DEF Untold, At
  <2> QED
    BY <2>1, <2>3, StillTold
<1> QED
  BY <1>1, <1>2, <1>3, <1>4, <1>5, <1>6 DEF WorkerStep, Proceeds

\* Every step keeps workers told.
LEMMA NextTellInv == PollInv /\ TellInv /\ [Next]_vars => TellInv'
<1> SUFFICES ASSUME PollInv, TellInv, [Next]_vars PROVE TellInv'
  OBVIOUS
<1>1. CASE UNCHANGED vars
  BY <1>1 DEF vars, TellInv, Untold, Announced, At
<1>2. ASSUME NEW w \in Workers, WorkerStep(w) PROVE TellInv'
  BY <1>2, WorkersTell DEF PollInv
<1>3. ASSUME NEW t \in owed, Broadcast(t) PROVE TellInv'
  BY <1>3, BroadcastTells DEF PollInv
<1>4. CASE \E j \in Jobs : RetryComesDue(j) \/ \E quiet \in BOOLEAN : Create(j, quiet)
  BY <1>4, WritersTell DEF PollInv
<1> QED
  BY <1>1, <1>2, <1>3, <1>4 DEF Next

\* The gap between the empty claim and the Subscribe is the only one: with any
\* number of workers and jobs, whoever sleeps beside an announced job after an
\* empty claim had it announced before it subscribed.
THEOREM TheOnlyLostWakeup == Spec => []NoOtherLostWakeup
<1>1. TellInv => NoOtherLostWakeup
  BY DEF TellInv, Untold, Announced, NoOtherLostWakeup
<1> QED
  BY <1>1, InitPollInv, NextPollInv, InitTellInv, NextTellInv, PTL DEF Spec
=============================================================================
