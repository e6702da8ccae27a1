--------------------------- MODULE WorkerPolling ---------------------------
(***************************************************************************)
(* The poll loop of the workers and its wake-up channel                    *)
(* (src/internal/capabilities/jobs/worker.go and worker_polling.go, with   *)
(* the notifier of src/internal/platform/sqlite/jobs).                     *)
(*                                                                         *)
(* A worker sweeps the due retries, claims, and sleeps when there was      *)
(* nothing to claim.  Writers wake the sleepers after their commit.  The   *)
(* worker subscribes after the claim that came back empty, so a wake-up    *)
(* in between reaches nobody and the timer has to make up for it.          *)
(*                                                                         *)
(* JobStore has the transactions; here the rows have a status only, and    *)
(* the claim is a compare-and-swap on it.                                  *)
(***************************************************************************)
EXTENDS Integers

CONSTANTS
  Jobs, Workers,
  NoJob,
  Budget,       \* attempts of a job
  Base,         \* pollEvery
  MaxBackoff,   \* BackoffConfig, in the unit of Base; 0 is no cap
  Threshold,    \* BackoffConfig.ConsecutiveEmptyThreshold
  MaxFaults     \* bound: failed database calls

ASSUME PollingAssumption ==
  /\ NoJob \notin Jobs
  /\ Budget \in Nat \ {0} /\ Base \in Nat \ {0}
  /\ MaxBackoff \in Nat /\ Threshold \in Nat /\ MaxFaults \in Nat

VARIABLES
  status,    \* status of each job
  attempts,  \* claims of each job so far
  owed,      \* transitions to QUEUED that are committed and not broadcast yet
  silent,    \* QUEUED jobs of CreateInTx, which leaves the broadcast to its caller
  worker,    \* what each worker is doing
  polling,   \* PollingState of each worker, as Start keeps it
  streak,    \* history: empty claims in a row
  missed,    \* history: broadcasts between an empty claim and the Subscribe
  faults

vars == <<status, attempts, owed, silent, worker, polling, streak, missed, faults>>

(***************************************************************************)
(* State                                                                   *)
(***************************************************************************)
\* DUE is a RETRY_WAIT row for which RetryDue holds.
Statuses == {"ABSENT", "QUEUED", "RUNNING", "RETRY_WAIT", "DUE", "ENDED"}
Places == {"poll", "sweep", "announce", "claim", "start", "subscribe", "asleep", "working"}

Worker == [at : Places, list : SUBSET Jobs, job : Jobs \cup {NoJob},
           channel : {"none", "open", "closed"}, empty : BOOLEAN, sleep : Nat \ {0}]
PollingState == [backoff : Nat \ {0}, empties : Nat]
Transition == [job : Jobs, attempt : 0 .. Budget]

At(w, place) == worker[w].at = place
NewPollingState == [backoff |-> Base, empties |-> 0]

Capped(d) == IF MaxBackoff > 0 /\ d > MaxBackoff THEN MaxBackoff ELSE d
RecordEmpty(s) ==
  LET counted == [s EXCEPT !.empties = @ + 1]
      next    == Capped(2 * s.backoff)
  IN  IF Threshold = 0 \/ counted.empties <= Threshold \/ next <= s.backoff
      THEN counted
      ELSE [counted EXCEPT !.backoff = next]

\* The sweep ends with its list, and the claim follows.
Sweeping(list) == IF list = {} THEN "claim" ELSE "sweep"

\* Every sleep begins with a Subscribe.
Sleep(w, empty, sleep) ==
  worker' = [worker EXCEPT ![w].at = "subscribe", ![w].job = NoJob,
                           ![w].empty = empty, ![w].sleep = sleep]

(***************************************************************************)
(* Writers and the notifier                                                *)
(***************************************************************************)
\* Create, and PromoteScheduled.  CreateInTx is the silent one.
Create(j, quiet) ==
  /\ status[j] = "ABSENT"
  /\ status' = [status EXCEPT ![j] = "QUEUED"]
  /\ silent' = IF quiet THEN silent \cup {j} ELSE silent
  /\ owed' = IF quiet THEN owed ELSE owed \cup {[job |-> j, attempt |-> attempts[j]]}
  /\ UNCHANGED <<attempts, worker, polling, streak, missed, faults>>

\* Mutant: a send on the channel instead of its close; it reaches one sleeper.
WokenAlone(w) == IF w = CHOOSE v \in Workers : At(v, "asleep") \/ \A u \in Workers : ~At(u, "asleep")
                 THEN [worker[w] EXCEPT !.channel = IF At(w, "asleep") THEN "closed" ELSE @]
                 ELSE worker[w]

\* queueChanged: the channel everybody sleeps on is closed and replaced.
Woken(w) == IF At(w, "asleep") THEN [worker[w] EXCEPT !.channel = "closed"] ELSE worker[w]

Broadcast(t) ==
  /\ t \in owed
  /\ owed' = owed \ {t}
  /\ worker' = [w \in Workers |->
                  IF At(w, "announce") /\ worker[w].job = t.job
                  THEN [worker[w] EXCEPT !.at = Sweeping(worker[w].list), !.job = NoJob]
                  ELSE Woken(w)]
  /\ missed' = [w \in Workers |->
                  IF At(w, "subscribe") /\ worker[w].empty THEN missed[w] \cup {t.job} ELSE missed[w]]
  /\ UNCHANGED <<status, attempts, silent, polling, streak, faults>>

RetryComesDue(j) ==
  /\ status[j] = "RETRY_WAIT"
  /\ status' = [status EXCEPT ![j] = "DUE"]
  /\ UNCHANGED <<attempts, owed, silent, worker, polling, streak, missed, faults>>

(***************************************************************************)
(* The loop                                                                *)
(***************************************************************************)
\* requeueDueRetries lists the due rows ...
ListDue(w) ==
  /\ At(w, "poll")
  /\ LET due == {j \in Jobs : status[j] = "DUE"}
     IN  worker' = [worker EXCEPT ![w].at = Sweeping(due), ![w].list = due]
  /\ UNCHANGED <<status, attempts, owed, silent, polling, streak, missed, faults>>

ListFails(w) ==
  /\ At(w, "poll") /\ faults < MaxFaults
  /\ worker' = [worker EXCEPT ![w].at = "claim"]
  /\ faults' = faults + 1
  /\ UNCHANGED <<status, attempts, owed, silent, polling, streak, missed>>

\* ... and retries them one by one; another worker may have been faster.
RetryListed(w, j) ==
  /\ At(w, "sweep") /\ j \in worker[w].list
  /\ IF status[j] = "DUE"
     THEN /\ status' = [status EXCEPT ![j] = "QUEUED"]
          /\ owed' = owed \cup {[job |-> j, attempt |-> attempts[j]]}
          /\ worker' = [worker EXCEPT ![w].list = @ \ {j}, ![w].at = "announce", ![w].job = j]
     ELSE /\ worker' = [worker EXCEPT ![w].list = @ \ {j},
                                      ![w].at = Sweeping(worker[w].list \ {j})]
          /\ UNCHANGED <<status, owed>>
  /\ UNCHANGED <<attempts, silent, polling, streak, missed, faults>>

Select(w, j) ==
  /\ At(w, "claim") /\ status[j] = "QUEUED"
  /\ worker' = [worker EXCEPT ![w].at = "start", ![w].job = j]
  /\ UNCHANGED <<status, attempts, owed, silent, polling, streak, missed, faults>>

\* Start declares `polling, escalated :=' in the block of the empty claim: the
\* counted state serves this sleep and is gone at the next poll.
ClaimEmpty(w) ==
  /\ At(w, "claim") /\ \A j \in Jobs : status[j] # "QUEUED"
  /\ Sleep(w, TRUE, RecordEmpty(polling[w]).backoff)
  /\ streak' = [streak EXCEPT ![w] = IF @ > Threshold THEN @ ELSE @ + 1]
  /\ UNCHANGED <<status, attempts, owed, silent, polling, missed, faults>>

Unclaimed(j) == status[j] = "QUEUED"

\* The row was claimed meanwhile; base interval.
ClaimConflicts(w) ==
  /\ At(w, "start") /\ ~Unclaimed(worker[w].job)
  /\ Sleep(w, FALSE, Base)
  /\ streak' = [streak EXCEPT ![w] = 0]
  /\ UNCHANGED <<status, attempts, owed, silent, polling, missed, faults>>

ClaimFails(w) ==
  /\ At(w, "claim") \/ At(w, "start")
  /\ faults < MaxFaults
  /\ Sleep(w, FALSE, Base)
  /\ streak' = [streak EXCEPT ![w] = 0]
  /\ faults' = faults + 1
  /\ UNCHANGED <<status, attempts, owed, silent, polling, missed>>

ClaimWins(w) ==
  /\ At(w, "start")
  /\ LET j == worker[w].job
     IN  /\ Unclaimed(j)
         /\ status' = [status EXCEPT ![j] = "RUNNING"]
         /\ attempts' = [attempts EXCEPT ![j] = @ + 1]
         /\ silent' = silent \ {j}
         /\ missed' = [v \in Workers |-> missed[v] \ {j}]
  /\ worker' = [worker EXCEPT ![w].at = "working"]
  /\ polling' = [polling EXCEPT ![w] = NewPollingState]
  /\ streak' = [streak EXCEPT ![w] = 0]
  /\ UNCHANGED <<owed, faults>>

MayRetryAlways(j) == TRUE    \* mutant: no budget
MayRetry(j) == attempts[j] < Budget

\* runJob returns; the loop does not sleep after a job.
WorkEnds(w, outcome) ==
  /\ At(w, "working")
  /\ outcome = "RETRY_WAIT" => MayRetry(worker[w].job)
  /\ status' = [status EXCEPT ![worker[w].job] = outcome]
  /\ worker' = [worker EXCEPT ![w].at = "poll", ![w].job = NoJob]
  /\ UNCHANGED <<attempts, owed, silent, polling, streak, missed, faults>>

Subscribe(w) ==
  /\ At(w, "subscribe")
  /\ worker' = [worker EXCEPT ![w].at = "asleep", ![w].channel = "open"]
  /\ UNCHANGED <<status, attempts, owed, silent, polling, streak, missed, faults>>

Rises(w) ==
  /\ worker' = [worker EXCEPT ![w].at = "poll", ![w].channel = "none", ![w].empty = FALSE]
  /\ missed' = [missed EXCEPT ![w] = {}]
  /\ UNCHANGED <<status, attempts, owed, silent, polling, streak, faults>>

TimerNever(w) == FALSE    \* mutant: only a broadcast ends the sleep

WakesUp(w)    == At(w, "asleep") /\ worker[w].channel = "closed" /\ Rises(w)
TimerFires(w) == At(w, "asleep") /\ Rises(w)

(***************************************************************************)
(* Specification                                                           *)
(***************************************************************************)
\* A worker begins with a sleep.
Init ==
  /\ status = [j \in Jobs |-> "ABSENT"]
  /\ attempts = [j \in Jobs |-> 0]
  /\ owed = {}
  /\ silent = {}
  /\ worker = [w \in Workers |-> [at |-> "subscribe", list |-> {}, job |-> NoJob,
                                  channel |-> "none", empty |-> FALSE, sleep |-> Base]]
  /\ polling = [w \in Workers |-> NewPollingState]
  /\ streak = [w \in Workers |-> 0]
  /\ missed = [w \in Workers |-> {}]
  /\ faults = 0

Proceeds(w) ==
  \/ ListDue(w) \/ ClaimEmpty(w) \/ ClaimConflicts(w) \/ ClaimWins(w)
  \/ \E j \in Jobs : RetryListed(w, j) \/ Select(w, j)
  \/ Subscribe(w) \/ WakesUp(w) \/ TimerFires(w)

WorkerStep(w) ==
  \/ Proceeds(w) \/ ListFails(w) \/ ClaimFails(w)
  \/ \E outcome \in {"ENDED", "RETRY_WAIT"} : WorkEnds(w, outcome)

Next == \/ \E w \in Workers : WorkerStep(w)
        \/ \E j \in Jobs : RetryComesDue(j) \/ \E quiet \in BOOLEAN : Create(j, quiet)
        \/ \E t \in owed : Broadcast(t)

\* Goroutines run, timers fire, handlers return (the job timeout sees to it).
Fairness ==
  /\ \A w \in Workers : WF_vars(Proceeds(w)) /\ WF_vars(WorkEnds(w, "ENDED"))
  /\ \A j \in Jobs : WF_vars(RetryComesDue(j))
  /\ WF_vars(\E t \in owed : Broadcast(t))

Spec == Init /\ [][Next]_vars /\ Fairness

(***************************************************************************)
(* Properties                                                              *)
(***************************************************************************)
\* Every variable keeps its type; in particular no job is claimed more often than
\* its budget.
TypeOK ==
  /\ status \in [Jobs -> Statuses]
  /\ attempts \in [Jobs -> 0 .. Budget]
  /\ owed \subseteq Transition
  /\ silent \subseteq Jobs
  /\ worker \in [Workers -> Worker]
  /\ polling \in [Workers -> PollingState]
  /\ streak \in [Workers -> 0 .. Threshold + 1]
  /\ missed \in [Workers -> SUBSET Jobs]
  /\ faults \in 0 .. MaxFaults

\* A worker whose claim came back empty sleeps on an open channel beside a
\* queued and announced job in one case only: the announcement fell between
\* its claim and its Subscribe.  No other order of commits, broadcasts,
\* sweeps and sleeps loses a wake-up.
NoOtherLostWakeup ==
  \A w \in Workers, j \in Jobs :
    /\ At(w, "asleep") /\ worker[w].channel = "open" /\ worker[w].empty
    /\ status[j] = "QUEUED" /\ j \notin silent
    /\ \A t \in owed : t.job # j
    => j \in missed[w]

\* Every job that was created ends, announced or not: what no wake-up reaches
\* the timer of some worker finds, retries included.
EveryJobEnds == \A j \in Jobs : status[j] # "ABSENT" ~> status[j] = "ENDED"

\* What worker.go:429-432 says of the backoff: "After N consecutive empty
\* claims (N = backoff.ConsecutiveEmptyThreshold), the polling interval grows".
BackoffGrows ==
  \A w \in Workers :
    At(w, "asleep") /\ worker[w].empty /\ streak[w] > Threshold => worker[w].sleep > Base
=============================================================================
