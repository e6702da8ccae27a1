------------------------- MODULE JobSchedulerProofs -------------------------
(***************************************************************************)
(* Theorems of JobScheduler, for any number of jobs and schedulers, every  *)
(* quota, ceiling and batch.                                               *)
(*                                                                         *)
(* The quota is kept although nobody holds a lock between the reservation  *)
(* and the promotion it pays for: a reservation is one step that compares  *)
(* and adds, and what has been reserved is either spent on a job, on its   *)
(* way to one, or lost.                                                    *)
(***************************************************************************)
EXTENDS JobScheduler, FiniteSetTheorems, TLAPS

\* A tick under way has a day; one that is about to promote has a slot to
\* promote into.
OnItsWay(p) ==
  /\ tick[p].at # "idle" => tick[p].day \in Days
  /\ tick[p].at \in {"reserve", "promote"} => tick[p].slots > 0

TickInv == TypeOK /\ \A p \in Schedulers : OnItsWay(p)

\* The two things a day's reservations are spent on.
Spent(d)    == {j \in Jobs : promotedOn[j] = d}
UnderWay(d) == {p \in Schedulers : tick[p].at = "promote" /\ tick[p].day = d}

-----------------------------------------------------------------------------
\* The sets that are counted are finite.
LEMMA FiniteSets ==
  /\ IsFiniteSet(Jobs) /\ Cardinality(Jobs) = LastJob
  /\ \A S \in SUBSET Jobs : IsFiniteSet(S) /\ Cardinality(S) \in 0 .. LastJob
  /\ \A S \in SUBSET Schedulers : IsFiniteSet(S) /\ Cardinality(S) \in Nat
<1>1. IsFiniteSet(Jobs) /\ Cardinality(Jobs) = LastJob
  BY FS_Interval, SchedulerAssumption DEF Jobs
<1>2. ASSUME NEW S \in SUBSET Jobs PROVE IsFiniteSet(S) /\ Cardinality(S) \in 0 .. LastJob
  <2>1. IsFiniteSet(S) /\ Cardinality(S) <= LastJob
    BY <1>1, FS_Subset
  <2>2. Cardinality(S) \in Nat
    BY <2>1, FS_CardinalityType
  <2> QED
    BY <2>1, <2>2, SchedulerAssumption
<1>3. ASSUME NEW S \in SUBSET Schedulers PROVE IsFiniteSet(S) /\ Cardinality(S) \in Nat
  <2>1. IsFiniteSet(S)
    BY FS_Subset, SchedulerAssumption
  <2> QED
    BY <2>1, FS_CardinalityType
<1> QED
  BY <1>1, <1>2, <1>3

\* A set that gains at most one element gains at most one.
LEMMA OneMore ==
  ASSUME NEW S, NEW T, NEW x, IsFiniteSet(S), T \subseteq S \cup {x}
  PROVE  IsFiniteSet(T) /\ Cardinality(T) <= Cardinality(S) + 1
<1>0. Cardinality(S) \in Nat
  BY FS_CardinalityType
<1>1. IsFiniteSet(S \cup {x}) /\ Cardinality(S \cup {x}) <= Cardinality(S) + 1
  BY <1>0, FS_AddElement
<1>2. IsFiniteSet(T) /\ Cardinality(T) <= Cardinality(S \cup {x})
  BY <1>1, FS_Subset
<1> QED
  BY <1>1, <1>2, FS_CardinalityType

\* The slots of a tick are never negative, whatever has been promoted before.
LEMMA SlotsAreNatural ==
  ASSUME NEW active \in Nat, NEW promoted \in Nat
  PROVE  Slots(active, promoted) \in Nat
<1>1. Unlimited \in Nat
  BY SchedulerAssumption DEF Unlimited
<1>2. \A limit \in Nat : \A used \in Nat : Remaining(limit, used) \in Nat
  BY <1>1 DEF Remaining
<1>3. Remaining(MaxConcurrent, active) \in Nat /\ Remaining(DailyQuota, promoted) \in Nat
  BY <1>2, SchedulerAssumption
<1> QED
  BY <1>3 DEF Slots, Least

\* The schedules a tick takes are schedules of jobs.
LEMMA DueAreJobs == TypeOK => Oldest(Due) \subseteq Jobs
BY DEF TypeOK, Oldest, Due

\* Where the loop of a tick goes next.
LEMMA Looped ==
  ASSUME TypeOK, NEW p \in Schedulers, NEW due \in SUBSET Jobs, NEW slots \in Nat,
         Loop(p, due, slots)
  PROVE  /\ tick' \in [Schedulers -> Tick]
         /\ \A q \in Schedulers : q # p => tick'[q] = tick[q]
         /\ tick'[p].at \in {"idle", "reserve", "promote"}
         /\ tick'[p].at # "idle" => tick'[p].slots > 0 /\ tick'[p].day = tick[p].day
         /\ tick'[p].at = "promote" => DailyQuota = 0
<1>1. tick \in [Schedulers -> Tick] /\ tick[p] \in Tick
  BY DEF TypeOK
<1>2. Asleep \in Tick /\ Asleep.at = "idle"
  BY SchedulerAssumption DEF Asleep, Tick, Steps
<1> DEFINE step == Looping(due, slots)
           r == [tick[p] EXCEPT !.at = step, !.due = due, !.active = 0, !.slots = slots]
<1>3. /\ step \in {"idle", "reserve", "promote"}
      /\ step # "idle" => slots > 0
      /\ step = "promote" => DailyQuota = 0
  BY SchedulerAssumption DEF Looping
<1>4. tick' = [tick EXCEPT ![p] = IF step = "idle" THEN Asleep ELSE r]
  BY DEF Loop
<1> HIDE DEF step
<1>5. r \in Tick /\ r.at = step /\ r.slots = slots /\ r.day = tick[p].day
  <2>1. 0 \in 0 .. LastJob /\ step \in Steps
    BY <1>3, SchedulerAssumption DEF Steps
  <2> QED
    BY <1>1, <2>1 DEF Tick
<1> HIDE DEF r
<1>6. tick'[p] = IF step = "idle" THEN Asleep ELSE r
  BY <1>1, <1>4
<1>7. tick' \in [Schedulers -> Tick]
  BY <1>1, <1>2, <1>4, <1>5
<1>8. \A q \in Schedulers : q # p => tick'[q] = tick[q]
  BY <1>1, <1>4
<1> QED
  BY <1>2, <1>3, <1>5, <1>6, <1>7, <1>8

\* Before the first tick.
LEMMA InitTickInv == Init => TickInv
<1> SUFFICES ASSUME Init PROVE TickInv
  OBVIOUS
<1>1. Asleep \in Tick
  BY SchedulerAssumption DEF Asleep, Tick, Steps
<1>2. TypeOK
  BY <1>1, SchedulerAssumption DEF Init, TypeOK, Statuses, Days
<1>3. ASSUME NEW p \in Schedulers PROVE OnItsWay(p)
  BY <1>3 DEF Init, OnItsWay, Asleep
<1> QED
  BY <1>2, <1>3 DEF TickInv

\* What one step of a tick leaves of the tick: its type, and a slot if it is
\* about to promote.
LEMMA TickMoves ==
  ASSUME TickInv, NEW p \in Schedulers, TickStep(p) \/ TickFails(p)
  PROVE  /\ tick' \in [Schedulers -> Tick]
         /\ \A q \in Schedulers : q # p => tick'[q] = tick[q]
         /\ OnItsWay(p)'
         /\ tick'[p].at = "promote" => DailyQuota = 0 \/ ReserveDailyPromotion(p)
<1>0. TypeOK /\ tick \in [Schedulers -> Tick] /\ tick[p] \in Tick /\ OnItsWay(p)
  BY DEF TickInv, TypeOK
<1>1. Asleep \in Tick /\ Asleep.at = "idle" /\ Unlimited \in Nat /\ Unlimited > 0
  BY SchedulerAssumption DEF Asleep, Tick, Steps, Unlimited
<1>2. tick[p].due \in SUBSET Jobs /\ tick[p].slots \in Nat /\ tick[p].active \in Nat
      /\ Active \in Nat
  <2>1. Running \in SUBSET Jobs /\ others \in Nat /\ 0 .. LastJob \subseteq Nat
    BY <1>0 DEF Running, TypeOK
  <2>2. Cardinality(Running) \in Nat
    BY <2>1, FiniteSets
  <2> QED
    BY <1>0, <2>1, <2>2 DEF Tick, Active
<1>3. ASSUME NEW r \in Tick, tick' = [tick EXCEPT ![p] = r],
             r.at # "idle" => r.day \in Days,
             r.at \in {"reserve", "promote"} => r.slots > 0,
             r.at = "promote" => DailyQuota = 0 \/ ReserveDailyPromotion(p)
      PROVE  /\ tick' \in [Schedulers -> Tick]
             /\ \A q \in Schedulers : q # p => tick'[q] = tick[q]
             /\ OnItsWay(p)'
             /\ tick'[p].at = "promote" => DailyQuota = 0 \/ ReserveDailyPromotion(p)
  BY <1>0, <1>3 DEF OnItsWay
<1>4. CASE ListDueSchedules(p)
  <2> DEFINE r == [Asleep EXCEPT !.at = IF Unbounded THEN "promote" ELSE "count",
                                 !.due = Oldest(Due), !.day = 0,
                                 !.slots = IF Unbounded THEN Unlimited ELSE 0]
  <2>1. Oldest(Due) \in SUBSET Jobs
    BY <1>0, DueAreJobs
  <2>2. r \in Tick
    BY <1>1, <2>1 DEF Tick, Steps, Days
  <2>3. r.at = (IF Unbounded THEN "promote" ELSE "count")
        /\ r.slots = (IF Unbounded THEN Unlimited ELSE 0) /\ r.day \in Days
    BY DEF Asleep, Days
  <2>4. tick' = [tick EXCEPT ![p] = r]
    BY <1>4 DEF ListDueSchedules
  <2> HIDE DEF r
  <2> QED
    BY <1>1, <1>3, <2>2, <2>3, <2>4 DEF Unbounded
<1>5. CASE CountActiveJobs(p)
  <2>1. CASE DailyQuota > 0
    <3> DEFINE r == [tick[p] EXCEPT !.at = "counter", !.active = Active]
    <3>1. r \in Tick /\ r.at = "counter" /\ r.day = tick[p].day
      BY <1>0, <1>2 DEF Tick, Steps
    <3>2. tick' = [tick EXCEPT ![p] = r]
      BY <1>5, <2>1 DEF CountActiveJobs
    <3> HIDE DEF r
    <3> QED
      BY <1>0, <1>3, <1>5, <3>1, <3>2 DEF CountActiveJobs, OnItsWay
  <2>2. CASE ~(DailyQuota > 0)
    <3>1. Slots(Active, 0) \in Nat
      BY <1>2, SlotsAreNatural
    <3>2. Loop(p, tick[p].due, Slots(Active, 0))
      BY <1>5, <2>2 DEF CountActiveJobs
    <3> QED
      BY <1>0, <1>2, <1>5, <3>1, <3>2, Looped DEF CountActiveJobs, OnItsWay
  <2> QED
    BY <2>1, <2>2
<1>6. CASE ScheduledPromotions(p)
  <2>1. tick[p].at # "idle" /\ tick[p].day \in Days /\ counter[tick[p].day] \in Nat
    BY <1>0, <1>6 DEF ScheduledPromotions, OnItsWay, TypeOK
  <2>2. Slots(tick[p].active, counter[tick[p].day]) \in Nat
    BY <1>2, <2>1, SlotsAreNatural
  <2>3. Loop(p, tick[p].due, Slots(tick[p].active, counter[tick[p].day]))
    BY <1>6 DEF ScheduledPromotions
  <2> QED
    BY <1>0, <1>2, <2>1, <2>2, <2>3, Looped DEF OnItsWay
<1>7. CASE ReserveDailyPromotion(p)
  <2> DEFINE r == [tick[p] EXCEPT !.at = "promote"]
  <2>1. tick[p].at = "reserve"
    BY <1>7 DEF ReserveDailyPromotion
  <2>2. r \in Tick /\ r.slots = tick[p].slots /\ r.day = tick[p].day
    BY <1>0 DEF Tick, Steps
  <2>3. tick' = [tick EXCEPT ![p] = r] \/ tick' = [tick EXCEPT ![p] = Asleep]
    BY <1>7 DEF ReserveDailyPromotion
  <2> HIDE DEF r
  <2> QED
    BY <1>0, <1>1, <1>3, <1>7, <2>1, <2>2, <2>3 DEF OnItsWay
<1>8. CASE PromoteScheduled(p)
  <2>1. PICK left \in SUBSET Jobs, slots \in Nat : Loop(p, left, slots)
    <3>1. tick[p].slots > 0
      BY <1>0, <1>8 DEF PromoteScheduled, OnItsWay
    <3>2. tick[p].slots - 1 \in Nat
      BY <1>2, <3>1
    <3> DEFINE j == First(tick[p].due)
    <3>3. tick[p].due \ {j} \in SUBSET Jobs
      BY <1>2
    <3>4. \/ Loop(p, tick[p].due \ {j}, tick[p].slots - 1)
          \/ Loop(p, tick[p].due \ {j}, tick[p].slots)
      BY <1>8 DEF PromoteScheduled
    <3> HIDE DEF j
    <3> QED
      BY <1>2, <3>2, <3>3, <3>4
  <2> QED
    BY <1>0, <1>8, <2>1, Looped DEF PromoteScheduled, OnItsWay
<1>9. CASE TickFails(p)
  BY <1>1, <1>3, <1>9 DEF TickFails
<1> QED
  BY <1>4, <1>5, <1>6, <1>7, <1>8, <1>9 DEF TickStep
\* The other variables keep their types, and so do the ticks at midnight.
LEMMA NextTickInv == TickInv /\ [Next]_vars => TickInv'
<1> SUFFICES ASSUME TickInv, [Next]_vars PROVE TickInv'
  OBVIOUS
<1>0. TypeOK /\ tick \in [Schedulers -> Tick]
  BY DEF TickInv, TypeOK
<1>1. CASE UNCHANGED vars
  BY <1>1 DEF vars, TickInv, TypeOK, OnItsWay
<1>2. ASSUME NEW p \in Schedulers, TickStep(p) \/ TickFails(p) PROVE TickInv'
  <2>1. tick' \in [Schedulers -> Tick] /\ \A q \in Schedulers : OnItsWay(q)'
    BY <1>2, TickMoves DEF TickInv, OnItsWay
  <2>2. clock' = clock
    BY <1>2 DEF TickStep, ListDueSchedules, CountActiveJobs, ScheduledPromotions,
       ReserveDailyPromotion, PromoteScheduled, TickFails
  <2>3. status' \in [Jobs -> Statuses] /\ schedules' \subseteq Jobs
        /\ promotedOn' \in [Jobs -> Days \cup {NoDay}]
    <3>1. CASE PromoteScheduled(p)
      <4>1. tick[p].day \in Days \cup {NoDay}
        BY <1>0 DEF Tick
      <4> QED
        BY <1>0, <3>1, <4>1 DEF PromoteScheduled, TypeOK, Statuses
    <3>2. CASE ~PromoteScheduled(p)
      BY <1>0, <1>2, <3>2 DEF TypeOK, TickStep, ListDueSchedules, CountActiveJobs,
         ScheduledPromotions, ReserveDailyPromotion, TickFails
    <3> QED
      BY <3>1, <3>2
  <2>4. counter' \in [Days -> Nat]
    BY <1>0, <1>2 DEF TypeOK, TickStep, ListDueSchedules, CountActiveJobs, ScheduledPromotions,
       ReserveDailyPromotion, PromoteScheduled, TickFails
  <2>5. faults' \in 0 .. MaxFaults
    BY <1>0, <1>2, SchedulerAssumption DEF TypeOK, TickStep, ListDueSchedules, CountActiveJobs,
       ScheduledPromotions, ReserveDailyPromotion, PromoteScheduled, TickFails
  <2>6. others' = others
    BY <1>2 DEF TickStep, ListDueSchedules, CountActiveJobs, ScheduledPromotions,
       ReserveDailyPromotion, PromoteScheduled, TickFails
  <2> QED
    BY <1>0, <2>1, <2>2, <2>3, <2>4, <2>5, <2>6 DEF TickInv, TypeOK
<1>3. ASSUME NEW j \in Jobs, JobStep(j) PROVE TickInv'
  <2>1. UNCHANGED <<clock, counter, tick, promotedOn, others>>
    BY <1>3 DEF JobStep, CreateScheduled, Cancel, Retry, ClaimNext, Finish
  <2>2. status' \in [Jobs -> Statuses] /\ schedules' \subseteq Jobs
    BY <1>0, <1>3 DEF JobStep, CreateScheduled, Cancel, Retry, ClaimNext, Finish, TypeOK, Statuses
  <2>3. faults' \in 0 .. MaxFaults
    BY <1>0, <1>3, SchedulerAssumption DEF JobStep, CreateScheduled, Cancel, Retry, ClaimNext,
       Finish, TypeOK
  <2> QED
    BY <2>1, <2>2, <2>3 DEF TickInv, TypeOK, OnItsWay
<1>4. CASE RunAtPasses \/ OtherStarts \/ OtherEnds
  BY <1>4, SchedulerAssumption DEF RunAtPasses, OtherStarts, OtherEnds, TickInv, TypeOK, OnItsWay
<1>5. CASE Midnight
  <2>1. ASSUME NEW p \in Schedulers PROVE tick'[p] \in Tick /\ OnItsWay(p)'
    <3>1. tick[p] \in Tick /\ tick'[p] = [tick[p] EXCEPT !.day = DayLater(tick[p].day)]
          /\ tick[p].day # 1
      BY <1>0, <1>5 DEF Midnight
    <3>2. tick'[p] \in Tick /\ tick'[p].at = tick[p].at /\ tick'[p].slots = tick[p].slots
          /\ tick'[p].day = DayLater(tick[p].day)
      BY <3>1 DEF Tick, DayLater, Days
    <3> QED
      BY <3>1, <3>2 DEF TickInv, OnItsWay, DayLater, Days
  <2>2. tick' \in [Schedulers -> Tick]
    BY <1>5, <2>1 DEF Midnight
  <2>3. counter' \in [Days -> Nat] /\ promotedOn' \in [Jobs -> Days \cup {NoDay}]
    BY <1>0, <1>5 DEF Midnight, TypeOK, DayLater, Days
  <2>4. UNCHANGED <<status, schedules, clock, others, faults>>
    BY <1>5 DEF Midnight
  <2> QED
    BY <1>0, <2>1, <2>2, <2>3, <2>4 DEF TickInv, TypeOK
<1> QED
  BY <1>1, <1>2, <1>3, <1>4, <1>5 DEF Next

\* The inductive invariant of a tick: its types, and what each place in it may
\* count on.
THEOREM TickInvariance == Spec => []TickInv
<1> QED
  BY InitTickInv, NextTickInv, PTL DEF Spec

\* Types of the scheduler: the slots a tick has left never fall below zero,
\* whoever else promotes, cancels or counts meanwhile.
THEOREM SchedulerTyping == Spec => []TypeOK
<1>1. TickInv => TypeOK
  BY DEF TickInv
<1> QED
  BY <1>1, TickInvariance, PTL

-----------------------------------------------------------------------------
(***************************************************************************)
(* The daily quota.                                                        *)
(***************************************************************************)
\* PromotionsArePaidFor in the words of this module.
LEMMA Ledger ==
  PromotionsArePaidFor <=>
    (DailyQuota > 0 => \A d \in Days :
       /\ Cardinality(Spent(d)) + Cardinality(UnderWay(d)) <= counter[d]
       /\ counter[d] <= DailyQuota)
BY DEF PromotionsArePaidFor, Spent, UnderWay

\* Both sets can be counted, before and after a step.
LEMMA Countable ==
  \A d \in Days : /\ IsFiniteSet(Spent(d)) /\ Cardinality(Spent(d)) \in Nat
                  /\ IsFiniteSet(UnderWay(d)) /\ Cardinality(UnderWay(d)) \in Nat
                  /\ IsFiniteSet(Spent(d)') /\ Cardinality(Spent(d)') \in Nat
                  /\ IsFiniteSet(UnderWay(d)') /\ Cardinality(UnderWay(d)') \in Nat
<1>1. ASSUME NEW d \in Days
      PROVE  /\ Spent(d) \in SUBSET Jobs /\ Spent(d)' \in SUBSET Jobs
             /\ UnderWay(d) \in SUBSET Schedulers /\ UnderWay(d)' \in SUBSET Schedulers
  BY DEF Spent, UnderWay
<1>2. 0 .. LastJob \subseteq Nat
  OBVIOUS
<1> QED
  BY <1>1, <1>2, FiniteSets

\* A subset is not larger.
LEMMA Fewer ==
  ASSUME NEW S, NEW T, IsFiniteSet(S), T \subseteq S
  PROVE  Cardinality(T) <= Cardinality(S)
BY FS_Subset

\* Nothing is sold before the first tick.
LEMMA InitPaid == Init => PromotionsArePaidFor
<1> SUFFICES ASSUME Init, NEW d \in Days
             PROVE  /\ Cardinality(Spent(d)) + Cardinality(UnderWay(d)) <= counter[d]
                    /\ counter[d] <= DailyQuota
  BY Ledger
<1>1. Spent(d) = {} /\ UnderWay(d) = {} /\ counter[d] = 0
  BY DEF Init, Spent, UnderWay, Asleep, Days, NoDay
<1> QED
  BY <1>1, FS_EmptySet, SchedulerAssumption

\* A step that pays for nothing new keeps the books.
LEMMA NothingBought ==
  ASSUME PromotionsArePaidFor, TypeOK, counter' = counter,
         \A d \in Days : Spent(d)' \subseteq Spent(d) /\ UnderWay(d)' \subseteq UnderWay(d)
  PROVE  PromotionsArePaidFor'
<1> SUFFICES ASSUME DailyQuota > 0, NEW d \in Days
             PROVE  /\ Cardinality(Spent(d)') + Cardinality(UnderWay(d)') <= counter'[d]
                    /\ counter'[d] <= DailyQuota
  BY DEF PromotionsArePaidFor, Spent, UnderWay
<1>1. Cardinality(Spent(d)') <= Cardinality(Spent(d))
      /\ Cardinality(UnderWay(d)') <= Cardinality(UnderWay(d))
  BY Countable, Fewer
<1>2. Cardinality(Spent(d)) + Cardinality(UnderWay(d)) <= counter[d] /\ counter[d] <= DailyQuota
  BY Ledger
<1>3. counter[d] \in Nat
  BY DEF TypeOK
<1> QED
  BY <1>1, <1>2, <1>3, Countable

\* The reservation: one more in the books, at most one more under way.
LEMMA ReservationPays ==
  ASSUME PromotionsArePaidFor, TickInv, NEW p \in Schedulers, ReserveDailyPromotion(p)
  PROVE  PromotionsArePaidFor'
<1> SUFFICES ASSUME DailyQuota > 0, NEW d \in Days
             PROVE  /\ Cardinality(Spent(d)') + Cardinality(UnderWay(d)') <= counter'[d]
                    /\ counter'[d] <= DailyQuota
  BY DEF PromotionsArePaidFor, Spent, UnderWay
<1>0. /\ tick \in [Schedulers -> Tick] /\ tick[p] \in Tick /\ counter \in [Days -> Nat]
      /\ tick[p].at = "reserve" /\ tick[p].day \in Days /\ promotedOn' = promotedOn
  BY DEF TickInv, TypeOK, OnItsWay, ReserveDailyPromotion
<1>1. Cardinality(Spent(d)) + Cardinality(UnderWay(d)) <= counter[d] /\ counter[d] <= DailyQuota
  BY Ledger
<1>2. Spent(d)' = Spent(d)
  BY <1>0 DEF Spent
<1>3. CASE QuotaLeft(tick[p].day)
  <2>1. /\ counter' = [counter EXCEPT ![tick[p].day] = @ + 1]
        /\ tick' = [tick EXCEPT ![p].at = "promote"]
    BY <1>3 DEF ReserveDailyPromotion
  <2>2. tick'[p].day = tick[p].day /\ \A q \in Schedulers : q # p => tick'[q] = tick[q]
    BY <1>0, <2>1 DEF Tick
  <2>3. CASE d = tick[p].day
    <3>1. UnderWay(d)' \subseteq UnderWay(d) \cup {p}
      BY <2>2 DEF UnderWay
    <3>2. Cardinality(UnderWay(d)') <= Cardinality(UnderWay(d)) + 1
      BY <3>1, Countable, OneMore
    <3>3. counter'[d] = counter[d] + 1 /\ counter[d] < DailyQuota /\ counter[d] \in Nat
      BY <1>0, <1>3, <2>1, <2>3 DEF QuotaLeft
    <3> QED
      BY <1>1, <1>2, <3>2, <3>3, Countable, SchedulerAssumption
  <2>4. CASE d # tick[p].day
    <3>1. UnderWay(d)' \subseteq UnderWay(d) /\ counter'[d] = counter[d] /\ counter[d] \in Nat
      BY <1>0, <2>1, <2>2, <2>4 DEF UnderWay
    <3>2. Cardinality(UnderWay(d)') <= Cardinality(UnderWay(d))
      BY <3>1, Countable, Fewer
    <3> QED
      BY <1>1, <1>2, <3>1, <3>2, Countable
  <2> QED
    BY <2>3, <2>4
<1>4. CASE ~QuotaLeft(tick[p].day)
  <2>1. counter' = counter /\ tick' = [tick EXCEPT ![p] = Asleep]
    BY <1>4 DEF ReserveDailyPromotion
  <2>2. UnderWay(d)' \subseteq UnderWay(d)
    BY <1>0, <2>1 DEF UnderWay, Asleep
  <2>3. Cardinality(UnderWay(d)') <= Cardinality(UnderWay(d)) /\ counter[d] \in Nat
    BY <1>0, <2>2, Countable, Fewer
  <2> QED
    BY <1>1, <1>2, <2>1, <2>3, Countable
<1> QED
  BY <1>3, <1>4

\* The promotion: what was under way for the tick's day is spent on that day,
\* or lost; a job promoted again no longer counts for its earlier day.
LEMMA PromotionIsPaid ==
  ASSUME PromotionsArePaidFor, TickInv, NEW p \in Schedulers, PromoteScheduled(p)
  PROVE  PromotionsArePaidFor'
<1> SUFFICES ASSUME DailyQuota > 0, NEW d \in Days
             PROVE  /\ Cardinality(Spent(d)') + Cardinality(UnderWay(d)') <= counter'[d]
                    /\ counter'[d] <= DailyQuota
  BY DEF PromotionsArePaidFor, Spent, UnderWay
<1> DEFINE j == First(tick[p].due)
<1>0. /\ promotedOn \in [Jobs -> Days \cup {NoDay}] /\ counter \in [Days -> Nat]
      /\ tick[p].at = "promote" /\ counter' = counter
      /\ promotedOn' = promotedOn \/ promotedOn' = [promotedOn EXCEPT ![j] = tick[p].day]
  BY DEF TickInv, TypeOK, PromoteScheduled
<1> HIDE DEF j
<1>1. Cardinality(Spent(d)) + Cardinality(UnderWay(d)) <= counter[d] /\ counter[d] <= DailyQuota
  BY Ledger
<1>2. tick'[p].at # "promote" /\ \A q \in Schedulers : q # p => tick'[q] = tick[q]
  <2>1. ~ReserveDailyPromotion(p)
    BY <1>0 DEF ReserveDailyPromotion
  <2> QED
    BY <2>1, TickMoves, SchedulerAssumption DEF TickStep
<1>3. UnderWay(d)' \subseteq UnderWay(d) \ {p}
  BY <1>2 DEF UnderWay
<1>4. CASE d = tick[p].day
  <2>1. p \in UnderWay(d)
    BY <1>0, <1>4 DEF UnderWay
  <2>2. Cardinality(UnderWay(d) \ {p}) = Cardinality(UnderWay(d)) - 1
        /\ IsFiniteSet(UnderWay(d) \ {p})
    BY <2>1, Countable, FS_RemoveElement
  <2>3. Cardinality(UnderWay(d)') <= Cardinality(UnderWay(d)) - 1
    BY <1>3, <2>2, Fewer
  <2>4. Spent(d)' \subseteq Spent(d) \cup {j}
    BY <1>0 DEF Spent
  <2>5. Cardinality(Spent(d)') <= Cardinality(Spent(d)) + 1
    BY <2>4, Countable, OneMore
  <2> QED
    BY <1>0, <1>1, <2>3, <2>5, Countable
<1>5. CASE d # tick[p].day
  <2>1. Spent(d)' \subseteq Spent(d)
    BY <1>0, <1>5 DEF Spent
  <2>2. Cardinality(Spent(d)') <= Cardinality(Spent(d))
        /\ Cardinality(UnderWay(d)') <= Cardinality(UnderWay(d))
    BY <1>3, <2>1, Countable, Fewer
  <2> QED
    BY <1>0, <1>1, <2>2, Countable
<1> QED
  BY <1>4, <1>5

\* Midnight: the books of today become those of yesterday, with everything that
\* is under way, and today begins with nothing.
LEMMA MidnightKeepsTheBooks ==
  ASSUME PromotionsArePaidFor, TickInv, Midnight
  PROVE  PromotionsArePaidFor'
<1> SUFFICES ASSUME DailyQuota > 0, NEW d \in Days
             PROVE  /\ Cardinality(Spent(d)') + Cardinality(UnderWay(d)') <= counter'[d]
                    /\ counter'[d] <= DailyQuota
  BY DEF PromotionsArePaidFor, Spent, UnderWay
<1>0. /\ tick \in [Schedulers -> Tick] /\ promotedOn \in [Jobs -> Days \cup {NoDay}]
      /\ counter' = [e \in Days |-> IF e = 0 THEN 0 ELSE counter[0]]
      /\ promotedOn' = [k \in Jobs |-> DayLater(promotedOn[k])]
      /\ \A p \in Schedulers : /\ tick'[p].at = tick[p].at
                                /\ tick'[p].day = DayLater(tick[p].day)
  BY DEF TickInv, TypeOK, Midnight, Tick
<1>1. CASE d = 0
  <2>1. Spent(d)' = {} /\ UnderWay(d)' = {} /\ counter'[d] = 0
    BY <1>0, <1>1 DEF Spent, UnderWay, DayLater, NoDay
  <2> QED
    BY <2>1, FS_EmptySet, SchedulerAssumption
<1>2. CASE d = 1
  <2>1. Spent(d)' = Spent(0) /\ UnderWay(d)' = UnderWay(0) /\ counter'[d] = counter[0]
    BY <1>0, <1>2 DEF Spent, UnderWay, DayLater, NoDay
  <2>2. Cardinality(Spent(0)) + Cardinality(UnderWay(0)) <= counter[0] /\ counter[0] <= DailyQuota
    BY Ledger DEF Days
  <2> QED
    BY <2>1, <2>2
<1> QED
  BY <1>1, <1>2 DEF Days

\* Every step keeps the books of the days.
LEMMA NextPaid == TickInv /\ PromotionsArePaidFor /\ [Next]_vars => PromotionsArePaidFor'
<1> SUFFICES ASSUME TickInv, PromotionsArePaidFor, [Next]_vars PROVE PromotionsArePaidFor'
  OBVIOUS
<1>0. TypeOK
  BY DEF TickInv
<1>1. CASE UNCHANGED vars
  BY <1>1 DEF vars, PromotionsArePaidFor
<1>2. ASSUME NEW p \in Schedulers, TickStep(p) \/ TickFails(p) PROVE PromotionsArePaidFor'
  <2>1. CASE ~ReserveDailyPromotion(p) /\ ~PromoteScheduled(p)
    <3>1. counter' = counter /\ promotedOn' = promotedOn
      BY <1>2, <2>1 DEF TickStep, ListDueSchedules, CountActiveJobs, ScheduledPromotions, TickFails
    <3>2. CASE DailyQuota > 0
      <4>1. tick'[p].at # "promote" /\ \A q \in Schedulers : q # p => tick'[q] = tick[q]
        BY <1>2, <2>1, <3>2, TickMoves
      <4>2. \A d \in Days : Spent(d)' \subseteq Spent(d) /\ UnderWay(d)' \subseteq UnderWay(d)
        BY <3>1, <4>1 DEF Spent, UnderWay
      <4> QED
        BY <1>0, <3>1, <4>2, NothingBought
    <3>3. CASE ~(DailyQuota > 0)
      BY <3>3 DEF PromotionsArePaidFor
    <3> QED
      BY <3>2, <3>3
  <2> QED
    BY <2>1, ReservationPays, PromotionIsPaid
<1>3. CASE (\E j \in Jobs : JobStep(j)) \/ RunAtPasses \/ OtherStarts \/ OtherEnds
  <2>1. counter' = counter /\ promotedOn' = promotedOn /\ tick' = tick
    BY <1>3 DEF JobStep, CreateScheduled, Cancel, Retry, ClaimNext, Finish, RunAtPasses,
       OtherStarts, OtherEnds
  <2>2. \A d \in Days : Spent(d)' \subseteq Spent(d) /\ UnderWay(d)' \subseteq UnderWay(d)
    BY <2>1 DEF Spent, UnderWay
  <2> QED
    BY <1>0, <2>1, <2>2, NothingBought
<1>4. CASE Midnight
  BY <1>4, MidnightKeepsTheBooks
<1> QED
  BY <1>1, <1>2, <1>3, <1>4 DEF Next

\* No day sells more promotions than its quota, and none is had for nothing:
\* for any number of schedulers that tick at once, across midnight, with
\* cancellations and failures in between.
THEOREM QuotaIsKept == Spec => []PromotionsArePaidFor
<1> QED
  BY InitPaid, NextPaid, TickInvariance, PTL DEF Spec
=============================================================================
