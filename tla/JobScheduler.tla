---------------------------- MODULE JobScheduler ----------------------------
(***************************************************************************)
(* The deferred-job scheduler of PipelineGen                               *)
(* (src/internal/capabilities/jobs/scheduling, with its store in           *)
(* src/internal/platform/sqlite/jobs/job_scheduling_store.go): due         *)
(* SCHEDULED jobs become QUEUED within a daily quota and a concurrency     *)
(* ceiling.                                                                *)
(*                                                                         *)
(* A tick is a sequence of separate transactions -- list, count, read the  *)
(* counter, then reserve and promote job by job -- and everything else may *)
(* happen between any two of them: cancellations, claims, another          *)
(* scheduler, midnight.  Claims and completions are JobStore's; here only  *)
(* the statuses count.  The ceiling counts every job of the plane, so the  *)
(* jobs that no schedule ever named take part as a number of their own;    *)
(* among them is a scheduled job that runs once more after its first run.  *)
(***************************************************************************)
EXTENDS Integers, FiniteSets

CONSTANTS
  LastJob,        \* jobs are 1 .. LastJob, in the order of their run_at
  Schedulers,     \* one per server process
  MaxConcurrent,  \* AdmissionPolicy; 0 is unbounded
  DailyQuota,     \* AdmissionPolicy; 0 is unbounded
  BatchLimit,     \* schedules one tick looks at
  MaxOthers,      \* bound: jobs without a schedule that run at a time
  MaxFaults       \* bound: database errors, each ends a tick, and operator retries

ASSUME SchedulerAssumption ==
  /\ LastJob \in Nat /\ MaxConcurrent \in Nat /\ DailyQuota \in Nat
  /\ MaxOthers \in Nat /\ MaxFaults \in Nat
  /\ BatchLimit \in Nat \ {0}
  /\ IsFiniteSet(Schedulers)

Jobs == 1 .. LastJob
\* UTC days, counted back from the present one: no tick lasts longer than until
\* the end of the next day.
Days == {0, 1}
NoDay == 2

VARIABLES
  status,     \* status of each job
  schedules,  \* jobs with a row in job_schedules
  clock,      \* the jobs up to here are due
  counter,    \* job_scheduler_counters
  tick,       \* what each scheduler is doing
  promotedOn, \* history: the day whose quota paid for a promotion
  others,     \* jobs RUNNING without ever having been scheduled
  faults

vars == <<status, schedules, clock, counter, tick, promotedOn, others, faults>>

(***************************************************************************)
(* State                                                                   *)
(***************************************************************************)
Statuses == {"ABSENT", "SCHEDULED", "QUEUED", "RUNNING", "DONE", "CANCELLED"}
Steps == {"idle", "count", "counter", "reserve", "promote"}

\* More slots than jobs stand for the largest int.
Unlimited == LastJob + 1

Asleep == [at |-> "idle", due |-> {}, day |-> NoDay, active |-> 0, slots |-> 0]
Tick == [at : Steps, due : SUBSET Jobs, day : Days \cup {NoDay}, active : Nat, slots : Nat]

Unbounded == MaxConcurrent = 0 /\ DailyQuota = 0
Running == {j \in Jobs : status[j] = "RUNNING"}
Active == Cardinality(Running) + others
Due == {j \in schedules : j <= clock}

Least(a, b) == IF a < b THEN a ELSE b
\* Mutant: nothing keeps the difference from going below zero.
RemainingUnclamped(limit, used) == IF limit = 0 THEN Unlimited ELSE limit - used
\* Mutant: the last slot is never given.
RemainingButOne(limit, used) ==
  IF limit = 0 THEN Unlimited ELSE IF used >= limit THEN 0 ELSE limit - used - 1
Remaining(limit, used) == IF limit = 0 THEN Unlimited ELSE IF used > limit THEN 0 ELSE limit - used
Slots(active, promoted) ==
  Least(Remaining(MaxConcurrent, active), Remaining(DailyQuota, promoted))

\* ORDER BY run_at, job_id
First(due) == CHOOSE j \in due : \A k \in due : j <= k
Oldest(due) == {j \in due : Cardinality({k \in due : k < j}) < BatchLimit}

\* The loop leaves a tick when no schedule or no slot is left.
Looping(due, slots) == IF due = {} \/ slots = 0 THEN "idle" ELSE
                       IF DailyQuota > 0 THEN "reserve" ELSE "promote"
Loop(p, due, slots) ==
  tick' = [tick EXCEPT ![p] =
             IF Looping(due, slots) = "idle" THEN Asleep
             ELSE [@ EXCEPT !.at = Looping(due, slots), !.due = due, !.active = 0, !.slots = slots]]

(***************************************************************************)
(* Tick                                                                    *)
(***************************************************************************)
ListDueSchedules(p) ==
  /\ tick[p].at = "idle" /\ Due # {}
  /\ tick' = [tick EXCEPT ![p] =
                [Asleep EXCEPT !.at = IF Unbounded THEN "promote" ELSE "count",
                               !.due = Oldest(Due), !.day = 0,
                               !.slots = IF Unbounded THEN Unlimited ELSE 0]]
  /\ UNCHANGED <<status, schedules, clock, counter, promotedOn, others, faults>>

CountActiveJobs(p) ==
  /\ tick[p].at = "count"
  /\ IF DailyQuota > 0
     THEN tick' = [tick EXCEPT ![p].at = "counter", ![p].active = Active]
     ELSE Loop(p, tick[p].due, Slots(Active, 0))
  /\ UNCHANGED <<status, schedules, clock, counter, promotedOn, others, faults>>

ScheduledPromotions(p) ==
  /\ tick[p].at = "counter"
  /\ Loop(p, tick[p].due, Slots(tick[p].active, counter[tick[p].day]))
  /\ UNCHANGED <<status, schedules, clock, counter, promotedOn, others, faults>>

QuotaLeftOnce(day) == counter[day] <= DailyQuota    \* mutant: off by one
QuotaLeft(day) == counter[day] < DailyQuota

ReserveDailyPromotion(p) ==
  /\ tick[p].at = "reserve"
  /\ IF QuotaLeft(tick[p].day)
     THEN /\ counter' = [counter EXCEPT ![tick[p].day] = @ + 1]
          /\ tick' = [tick EXCEPT ![p].at = "promote"]
     ELSE /\ tick' = [tick EXCEPT ![p] = Asleep]
          /\ UNCHANGED counter
  /\ UNCHANGED <<status, schedules, clock, promotedOn, others, faults>>

\* The compare-and-swap on SCHEDULED; the schedule row goes either way.  A lost
\* one keeps its slot but not its unit of the quota.
PromoteScheduled(p) ==
  /\ tick[p].at = "promote"
  /\ LET j    == First(tick[p].due)
         won  == status[j] = "SCHEDULED"
     IN  /\ status' = IF won THEN [status EXCEPT ![j] = "QUEUED"] ELSE status
         /\ promotedOn' = IF won THEN [promotedOn EXCEPT ![j] = tick[p].day] ELSE promotedOn
         /\ schedules' = schedules \ {j}
         /\ Loop(p, tick[p].due \ {j}, IF won THEN tick[p].slots - 1 ELSE tick[p].slots)
  /\ UNCHANGED <<clock, counter, others, faults>>

\* Any store error ends the tick; the next one begins at the base cadence.
TickFails(p) ==
  /\ tick[p].at # "idle" /\ faults < MaxFaults
  /\ tick' = [tick EXCEPT ![p] = Asleep]
  /\ faults' = faults + 1
  /\ UNCHANGED <<status, schedules, clock, counter, promotedOn, others>>

(***************************************************************************)
(* Everybody else                                                          *)
(***************************************************************************)
CreateScheduled(j) ==
  /\ status[j] = "ABSENT"
  /\ status' = [status EXCEPT ![j] = "SCHEDULED"]
  /\ schedules' = schedules \cup {j}
  /\ UNCHANGED <<clock, counter, tick, promotedOn, others, faults>>

\* Cancel leaves the schedule row to the scheduler.
Cancel(j) ==
  /\ status[j] \in {"SCHEDULED", "QUEUED", "RUNNING"}
  /\ status' = [status EXCEPT ![j] = "CANCELLED"]
  /\ UNCHANGED <<schedules, clock, counter, tick, promotedOn, others, faults>>

\* Retry of a job that was cancelled before it was ever promoted.
Retry(j) ==
  /\ status[j] = "CANCELLED" /\ j \in schedules /\ faults < MaxFaults
  /\ status' = [status EXCEPT ![j] = "QUEUED"]
  /\ faults' = faults + 1
  /\ UNCHANGED <<schedules, clock, counter, tick, promotedOn, others>>

ClaimNext(j) ==
  /\ status[j] = "QUEUED"
  /\ status' = [status EXCEPT ![j] = "RUNNING"]
  /\ UNCHANGED <<schedules, clock, counter, tick, promotedOn, others, faults>>

Finish(j) ==
  /\ status[j] = "RUNNING"
  /\ status' = [status EXCEPT ![j] = "DONE"]
  /\ UNCHANGED <<schedules, clock, counter, tick, promotedOn, others, faults>>

\* The rest of the plane's traffic.
OtherStarts ==
  /\ others < MaxOthers
  /\ others' = others + 1
  /\ UNCHANGED <<status, schedules, clock, counter, tick, promotedOn, faults>>

OtherEnds ==
  /\ others > 0
  /\ others' = others - 1
  /\ UNCHANGED <<status, schedules, clock, counter, tick, promotedOn, faults>>

RunAtPasses ==
  /\ clock < LastJob
  /\ clock' = clock + 1
  /\ UNCHANGED <<status, schedules, counter, tick, promotedOn, others, faults>>

\* A tick goes on past midnight with the day it began on.
DayLater(d) == IF d = 0 THEN 1 ELSE NoDay

Midnight ==
  /\ \A p \in Schedulers : tick[p].day # 1
  /\ tick' = [p \in Schedulers |-> [tick[p] EXCEPT !.day = DayLater(@)]]
  /\ counter' = [d \in Days |-> IF d = 0 THEN 0 ELSE counter[0]]
  /\ promotedOn' = [j \in Jobs |-> DayLater(promotedOn[j])]
  /\ UNCHANGED <<status, schedules, clock, others, faults>>

(***************************************************************************)
(* Specification                                                           *)
(***************************************************************************)
Init ==
  /\ status = [j \in Jobs |-> "ABSENT"]
  /\ schedules = {}
  /\ clock = 0
  /\ counter = [d \in Days |-> 0]
  /\ tick = [p \in Schedulers |-> Asleep]
  /\ promotedOn = [j \in Jobs |-> NoDay]
  /\ others = 0
  /\ faults = 0

TickStep(p) == \/ ListDueSchedules(p) \/ CountActiveJobs(p) \/ ScheduledPromotions(p)
               \/ ReserveDailyPromotion(p) \/ PromoteScheduled(p)

JobStep(j) == CreateScheduled(j) \/ Cancel(j) \/ Retry(j) \/ ClaimNext(j) \/ Finish(j)

Next == \/ \E p \in Schedulers : TickStep(p) \/ TickFails(p)
        \/ \E j \in Jobs : JobStep(j)
        \/ OtherStarts \/ OtherEnds
        \/ RunAtPasses
        \/ Midnight

\* The loop of Run always sets its timer again, workers claim and finish, time
\* passes.
Fairness == /\ \A p \in Schedulers : WF_vars(TickStep(p))
            /\ \A j \in Jobs : WF_vars(ClaimNext(j)) /\ WF_vars(Finish(j))
            /\ WF_vars(OtherEnds)
            /\ WF_vars(RunAtPasses)
            /\ WF_vars(Midnight)

Spec == Init /\ [][Next]_vars /\ Fairness

(***************************************************************************)
(* Properties                                                              *)
(***************************************************************************)
\* Every variable keeps its type, the slots a tick has left included.
TypeOK ==
  /\ status \in [Jobs -> Statuses]
  /\ schedules \subseteq Jobs
  /\ clock \in 0 .. LastJob
  /\ counter \in [Days -> Nat]
  /\ tick \in [Schedulers -> Tick]
  /\ promotedOn \in [Jobs -> Days \cup {NoDay}]
  /\ others \in 0 .. MaxOthers
  /\ faults \in 0 .. MaxFaults

\* Every promotion that counts for a day, and every one under way, was paid for
\* by a reservation of that day, and a day never sells more than its quota --
\* whoever reserves, cancels or fails in between, and across midnight.
PromotionsArePaidFor ==
  DailyQuota > 0 => \A d \in Days :
    /\ Cardinality({j \in Jobs : promotedOn[j] = d})
         + Cardinality({p \in Schedulers : tick[p].at = "promote" /\ tick[p].day = d})
       <= counter[d]
    /\ counter[d] <= DailyQuota

\* A due job is promoted or cancelled in the end, unless from some time on every
\* count finds the ceiling reached: the quota alone holds it back until midnight
\* only, older jobs go first, and one count in time is enough, whatever the
\* other schedulers and the rest of the traffic do.  Nothing in the code keeps
\* that traffic from filling the ceiling at every count.
CountsFindRoom ==
  MaxConcurrent > 0 =>
    \E p \in Schedulers : []<><<CountActiveJobs(p) /\ Active < MaxConcurrent>>_vars

DueIsPromoted ==
  CountsFindRoom =>
    \A j \in Jobs : status[j] = "SCHEDULED" /\ j <= clock ~> status[j] # "SCHEDULED"

\* What admission.go:6-7 and scheduler.go:3-5 say of MaxConcurrent: the one
\* behind the other lane cap on the jobs in flight, never exceeded.
LaneCap == MaxConcurrent > 0 => Active <= MaxConcurrent
=============================================================================
