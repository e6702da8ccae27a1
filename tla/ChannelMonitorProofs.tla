------------------------- MODULE ChannelMonitorProofs -------------------------
(***************************************************************************)
(* Theorems of ChannelMonitor, for every set of servers and videos, every  *)
(* budget and every bound.                                                 *)
(*                                                                         *)
(* The invariant says what the budget counter counts (Slots), what the     *)
(* four tables know of each other and of what a drainer holds (Agreement), *)
(* that an entry's attempts stop at the maximum (Tries), and, for each     *)
(* video, who may still charge its entry (Refusals) and what all of them   *)
(* together may charge (Charges).                                          *)
(***************************************************************************)
EXTENDS ChannelMonitor, FiniteSetTheorems, TLAPS

Held == {"chosen", "won", "transient", "permanent", "enqueued"}
Slots(s) == {v \in Videos : work[s][v] \in Held}

Budget ==
  \A s \in Servers :
    /\ check[s].used = Cardinality(Slots(s))
    /\ ~At(s, "videos") => check[s].used = 0
    /\ MaxVideosPerRun > 0 => check[s].used <= MaxVideosPerRun

Agreement ==
  /\ OneExtraction
  /\ \A v \in Videos : job[v].active => job[v].made = 1
  /\ \A v \in Videos : job[v].made > 0 => job[v].active \/ job[v].left
  /\ \A s \in Servers :
       /\ \A v \in drain[s].batch : entry[v].state # "none"
       /\ drain[s].at # "idle" => drain[s].video \in drain[s].batch
       /\ drain[s].at = "told" => job[drain[s].video].made = 1

Tries ==
  /\ \A v \in Videos : entry[v].state # "dead" => entry[v].tries < MaxOutboxRetries
  /\ \A s \in Servers : drain[s].at = "counted" /\ entry[drain[s].video].state # "dead"
       => drain[s].tries < MaxOutboxRetries

Refuses(s, v) == drain[s].at \in {"refused", "counted"} /\ drain[s].video = v
Refusals(v)   == {s \in Servers : Refuses(s, v)}

Charged(v) ==
  /\ Cardinality(Refusals(v)) + entry[v].tries <= faults
  /\ \A s \in Refusals(v) : drain[s].at = "counted" => Cardinality(Refusals(v)) + drain[s].tries <= faults
Charges == \A v \in Videos : job[v].left \/ Charged(v)

IInv == TypeOK /\ Budget /\ Agreement /\ Tries /\ Charges

-----------------------------------------------------------------------------
\* The invariant holds before the first check.
LEMMA InitIInv == Init => IInv
<1> SUFFICES ASSUME Init PROVE IInv
  OBVIOUS
<1>1. TypeOK
  BY MonitorAssumption
  DEF Init, TypeOK, Days, NoDay, Channel, Check, Idle, Untouched, Active, Discovery, Unsettled, Settled,
      Entry, Drain, Resting, Job
<1>2. Budget
  <2> SUFFICES ASSUME NEW s \in Servers
               PROVE  check[s].used = Cardinality(Slots(s)) /\ check[s].used = 0
    BY MonitorAssumption DEF Budget
  <2>1. Slots(s) = {}
    BY DEF Init, Slots, Untouched, Held
  <2> QED
    BY <2>1, FS_EmptySet DEF Init, Idle
<1>3. Agreement /\ Tries
  BY MonitorAssumption DEF Init, Agreement, OneExtraction, Tries, Resting
<1>4. ASSUME NEW v \in Videos PROVE Charged(v)
  <2>1. Refusals(v) = {}
    BY DEF Init, Refusals, Refuses, Resting
  <2> QED
    BY <2>1, FS_EmptySet DEF Init, Charged
<1> QED
  BY <1>1, <1>2, <1>3, <1>4 DEF IInv, Charges

-----------------------------------------------------------------------------
(***************************************************************************)
(* The budget of a check                                                   *)
(***************************************************************************)
LEMMA SlotsFinite ==
  ASSUME NEW s \in Servers
  PROVE  IsFiniteSet(Slots(s)) /\ Cardinality(Slots(s)) \in Nat
BY MonitorAssumption, FS_Subset, FS_CardinalityType DEF Slots

\* A server with a video under way is in its videos, and has counted it.
LEMMA SlotIsCounted ==
  ASSUME TypeOK, Budget, NEW s \in Servers, NEW v \in Videos, work[s][v] \in Held
  PROVE  check[s].used \in Nat /\ check[s].used > 0 /\ At(s, "videos")
<1>1. v \in Slots(s)
  BY DEF Slots
<1>2. Cardinality(Slots(s)) \in Nat /\ Cardinality(Slots(s)) # 0
  BY <1>1, SlotsFinite, FS_EmptySet
<1> QED
  BY <1>2 DEF Budget

\* What a move of one video makes of the slots.
LEMMA SlotsMove ==
  ASSUME TypeOK, NEW s \in Servers, NEW v \in Videos, NEW place, Moves(s, v, place)
  PROVE  /\ \A t \in Servers \ {s} : Slots(t)' = Slots(t)
         /\ Slots(s)' = IF place \in Held THEN Slots(s) \cup {v} ELSE Slots(s) \ {v}
BY DEF TypeOK, Moves, Slots

\* A counter and its slots that stay keep the budget.
LEMMA BudgetKept ==
  ASSUME NEW s \in Servers, Budget,
         \A t \in Servers \ {s} : check'[t] = check[t] /\ Slots(t)' = Slots(t),
         /\ check'[s].used = Cardinality(Slots(s)')
         /\ ~At(s, "videos")' => check'[s].used = 0
         /\ MaxVideosPerRun > 0 => check'[s].used <= MaxVideosPerRun
  PROVE  Budget'
BY DEF Budget, At

\* A goroutine that gives its slot back.
LEMMA BudgetGivesUp ==
  ASSUME TypeOK, Budget, NEW s \in Servers, NEW v \in Videos, work[s][v] \in Held, GivesUp(s, v)
  PROVE  Budget'
<1>1. check' = [check EXCEPT ![s].used = @ - 1]
  BY DEF GivesUp
<1>2. /\ \A t \in Servers \ {s} : Slots(t)' = Slots(t)
      /\ Slots(s)' = Slots(s) \ {v}
  BY SlotsMove DEF GivesUp, Held
<1>3. Cardinality(Slots(s)') = Cardinality(Slots(s)) - 1
  BY <1>2, SlotsFinite, FS_RemoveElement DEF Slots
<1>4. check[s].used \in Nat /\ At(s, "videos")
  BY SlotIsCounted
<1>5. check'[s].used = check[s].used - 1 /\ At(s, "videos")'
  BY <1>1, <1>4 DEF TypeOK, Check, At
<1>6. \A t \in Servers \ {s} : check'[t] = check[t]
  BY <1>1 DEF TypeOK
<1>7. /\ check'[s].used = Cardinality(Slots(s)')
      /\ MaxVideosPerRun > 0 => check'[s].used <= MaxVideosPerRun
  BY <1>3, <1>4, <1>5, MonitorAssumption DEF Budget
<1> QED
  BY <1>2, <1>5, <1>6, <1>7, BudgetKept

\* A video that keeps its slot.
LEMMA BudgetStays ==
  ASSUME TypeOK, Budget, NEW s \in Servers, NEW v \in Videos, work[s][v] \in Held,
         NEW place \in Held, Moves(s, v, place), UNCHANGED check
  PROVE  Budget'
<1>1. Slots(s)' = Slots(s)
  BY SlotsMove DEF Slots
<1> QED
  BY <1>1, SlotsMove, BudgetKept DEF Budget, At

\* A server that begins or ends a check, no slot taken.
LEMMA BudgetFresh ==
  ASSUME TypeOK, Budget, NEW s \in Servers, NEW c, c.used = 0,
         check' = [check EXCEPT ![s] = c],
         \A t \in Servers \ {s} : work'[t] = work[t],
         \A v \in Videos : work'[s][v] \notin Held
  PROVE  Budget'
<1>1. Slots(s)' = {} /\ \A t \in Servers \ {s} : Slots(t)' = Slots(t)
  BY DEF Slots
<1>2. Cardinality(Slots(s)') = 0
  BY <1>1, FS_EmptySet
<1>3. check'[s] = c /\ \A t \in Servers \ {s} : check'[t] = check[t]
  BY DEF TypeOK
<1>4. /\ check'[s].used = Cardinality(Slots(s)')
      /\ check'[s].used = 0
      /\ MaxVideosPerRun > 0 => check'[s].used <= MaxVideosPerRun
  BY <1>2, <1>3, MonitorAssumption
<1> QED
  BY <1>1, <1>3, <1>4, BudgetKept

\* Outside its videos a server holds no slot.
LEMMA NoSlots ==
  ASSUME Budget, NEW s \in Servers, ~At(s, "videos")
  PROVE  \A v \in Videos : work[s][v] \notin Held
<1>1. Slots(s) = {}
  BY SlotsFinite, FS_EmptySet DEF Budget
<1> QED
  BY <1>1 DEF Slots

\* The counter of a check counts the slots after every step, too.
LEMMA BudgetStep == TypeOK /\ Budget /\ [Next]_vars => Budget'
<1> SUFFICES ASSUME TypeOK, Budget, [Next]_vars PROVE Budget'
  OBVIOUS
<1>1. ASSUME UNCHANGED <<check, work>> PROVE Budget'
  BY <1>1 DEF Budget, Slots, At
<1>2. ASSUME NEW s \in Servers, ClaimDue(s) PROVE Budget'
  BY <1>2, NoSlots, BudgetFresh DEF ClaimDue, At, Idle
<1>3. ASSUME NEW s \in Servers, ListVideos(s) PROVE Budget'
  <2>1. CASE work' = work
    BY <1>3, <2>1, NoSlots, BudgetFresh DEF ListVideos, Reports, At, Idle
  <2>2. CASE work' # work
    <3>1. \A v \in Videos : work'[s][v] \notin Held
      BY <1>3, <2>2 DEF ListVideos, TypeOK, Held
    <3>2. /\ check' = [check EXCEPT ![s] = [Idle EXCEPT !.at = "stamp"]]
          /\ \A t \in Servers \ {s} : work'[t] = work[t]
      BY <1>3, <2>2 DEF ListVideos, TypeOK
    <3> QED
      BY <3>1, <3>2, BudgetFresh DEF Idle
  <2> QED
    BY <2>1, <2>2
<1>4. ASSUME NEW s \in Servers, StampCycle(s) PROVE Budget'
  <2>1. /\ check'[s].used = check[s].used /\ ~At(s, "videos") /\ check[s].used = 0
        /\ \A t \in Servers \ {s} : check'[t] = check[t]
        /\ UNCHANGED work
    BY <1>4 DEF StampCycle, At, TypeOK, Check, Budget
  <2> QED
    BY <2>1, BudgetKept DEF Budget, Slots
<1>5. ASSUME NEW s \in Servers, NEW v \in Videos, Analyse(s, v) PROVE Budget'
  <2>1. v \notin Slots(s)
    BY <1>5 DEF Analyse, Slots, Held
  <2>2. CASE Moves(s, v, "over") /\ UNCHANGED check
    <3>1. Slots(s)' = Slots(s) /\ \A t \in Servers \ {s} : Slots(t)' = Slots(t)
      BY <2>1, <2>2, SlotsMove DEF Held
    <3> QED
      BY <2>2, <3>1, BudgetKept DEF Budget, At
  <2>3. CASE BudgetLeft(s) /\ Moves(s, v, "chosen") /\ check' = [check EXCEPT ![s].used = @ + 1]
    <3>1. Slots(s)' = Slots(s) \cup {v} /\ \A t \in Servers \ {s} : Slots(t)' = Slots(t)
      BY <2>3, SlotsMove DEF Held
    <3>2. Cardinality(Slots(s)') = Cardinality(Slots(s)) + 1
      BY <2>1, <3>1, SlotsFinite, FS_AddElement
    <3>3. /\ check'[s].used = check[s].used + 1 /\ At(s, "videos")'
          /\ \A t \in Servers \ {s} : check'[t] = check[t]
      BY <1>5, <2>3 DEF Analyse, At, TypeOK, Check
    <3>4. MaxVideosPerRun > 0 => check'[s].used <= MaxVideosPerRun
      BY <2>3, <3>3, MonitorAssumption DEF BudgetLeft, TypeOK, Check
    <3> QED
      BY <3>1, <3>2, <3>3, <3>4, BudgetKept DEF Budget
  <2> QED
    BY <1>5, <2>2, <2>3 DEF Analyse
<1>6. ASSUME NEW s \in Servers, NEW v \in Videos, TryReserve(s, v) PROVE Budget'
  BY <1>6, BudgetGivesUp, BudgetStays DEF TryReserve, Held
<1>7. ASSUME NEW s \in Servers, NEW v \in Videos, CommitEnqueueOutbox(s, v) PROVE Budget'
  BY <1>7, BudgetStays DEF CommitEnqueueOutbox, Held
<1>8. ASSUME NEW s \in Servers, NEW v \in Videos, MarkRejected(s, v) PROVE Budget'
  BY <1>8, BudgetGivesUp DEF MarkRejected, Held
<1>9. ASSUME NEW s \in Servers, ReadWatermark(s) PROVE Budget'
  <2>1. /\ \A t \in Servers \ {s} : work'[t] = work[t]
        /\ \A v \in Videos : work'[s][v] \notin Held
    BY <1>9 DEF ReadWatermark, Untouched, TypeOK, Held
  <2>2. CASE Reports(s)
    BY <2>2, <2>1, BudgetFresh DEF Reports, Idle
  <2>3. ASSUME NEW d \in SettledDays,
               check' = [check EXCEPT ![s] = [Idle EXCEPT !.at = "cursor", !.now = d]]
        PROVE  Budget'
    BY <2>1, <2>3, BudgetFresh DEF Idle
  <2> QED
    BY <1>9, <2>2, <2>3 DEF ReadWatermark
<1>10. ASSUME NEW s \in Servers, UpdateCursor(s) PROVE Budget'
  BY <1>10, NoSlots, BudgetFresh DEF UpdateCursor, Reports, At, Idle
<1>11. ASSUME NEW s \in Servers, MarkChecked(s) PROVE Budget'
  BY <1>11, NoSlots, BudgetFresh DEF MarkChecked, At, Idle
<1>12. ASSUME NEW s \in Servers, Crash(s) PROVE Budget'
  <2>1. /\ \A t \in Servers \ {s} : work'[t] = work[t]
        /\ \A v \in Videos : work'[s][v] \notin Held
    BY <1>12 DEF Crash, Untouched, TypeOK, Held
  <2> QED
    BY <1>12, <2>1, BudgetFresh DEF Crash, Idle
<1>13. ASSUME NEW s \in Servers, DrainStep(s) PROVE UNCHANGED <<check, work>>
  BY <1>13 DEF DrainStep, DrainOutbox, Dispatch, EnqueueExtract, MarkOutboxDispatched, ReadRetryCount,
               MarkOutboxFailed, Marks, checks
<1>14. ASSUME Outside PROVE UNCHANGED <<check, work>>
  BY <1>14 DEF Outside, ChannelTimer, Upload, LedgerTimer, EntryTimer, JobLeaves, JobComesBack, checks
<1> QED
  BY <1>1, <1>2, <1>3, <1>4, <1>5, <1>6, <1>7, <1>8, <1>9, <1>10, <1>11, <1>12, <1>13, <1>14
  DEF Next, CheckStep, vars

-----------------------------------------------------------------------------
(***************************************************************************)
(* Types and attempts                                                      *)
(***************************************************************************)
\* Every step is free or is one fault more.
LEMMA Accounted == Next => Works \/ Fails
<1> SUFFICES ASSUME Next PROVE Works \/ Fails
  OBVIOUS
<1>1. ASSUME Outside PROVE Works
  BY <1>1 DEF Outside, ChannelTimer, Upload, LedgerTimer, EntryTimer, JobLeaves, JobComesBack
<1>2. ASSUME NEW s \in Servers, ClaimDue(s) \/ ListVideos(s) \/ StampCycle(s) \/ ReadWatermark(s)
               \/ UpdateCursor(s) \/ MarkChecked(s)
      PROVE  Works \/ Fails
  BY <1>2 DEF ClaimDue, ListVideos, StampCycle, ReadWatermark, UpdateCursor, MarkChecked
<1>3. ASSUME NEW s \in Servers, NEW v \in Videos,
             Analyse(s, v) \/ TryReserve(s, v) \/ CommitEnqueueOutbox(s, v) \/ MarkRejected(s, v)
      PROVE  Works \/ Fails
  BY <1>3 DEF Analyse, TryReserve, CommitEnqueueOutbox, MarkRejected
<1>4. ASSUME NEW s \in Servers, DrainStep(s) PROVE Works \/ Fails
  BY <1>4 DEF DrainStep, DrainOutbox, Dispatch, EnqueueExtract, MarkOutboxDispatched, ReadRetryCount,
              MarkOutboxFailed, Marks
<1>5. ASSUME NEW s \in Servers, Crash(s) PROVE Fails
  BY <1>5 DEF Crash
<1> QED
  BY <1>1, <1>2, <1>3, <1>4, <1>5 DEF Next, CheckStep

\* Giving up keeps the types.
LEMMA GivesUpTypes ==
  ASSUME TypeOK, Budget, NEW s \in Servers, NEW v \in Videos, work[s][v] \in Held, GivesUp(s, v)
  PROVE  check' \in [Servers -> Check] /\ work' \in [Servers -> [Videos -> Active \cup {"none", "enqueued", "over"}]]
<1>1. check[s].used - 1 \in Nat
  BY SlotIsCounted
<1>2. check' = [check EXCEPT ![s].used = @ - 1] /\ work' = [work EXCEPT ![s][v] = "over"]
  BY DEF GivesUp, Moves
<1>3. check' \in [Servers -> Check]
  BY <1>1, <1>2 DEF TypeOK, Check
<1> QED
  BY <1>2, <1>3 DEF TypeOK

\* So does moving a goroutine on.
LEMMA MovesTypes ==
  ASSUME TypeOK, NEW s \in Servers, NEW v \in Videos,
         NEW place \in Active \cup {"none", "enqueued", "over"}, Moves(s, v, place)
  PROVE  work' \in [Servers -> [Videos -> Active \cup {"none", "enqueued", "over"}]]
BY DEF TypeOK, Moves

\* Every step keeps the types.
LEMMA TypeStep == TypeOK /\ Budget /\ Agreement /\ Tries /\ [Next]_vars => TypeOK'
<1> SUFFICES ASSUME TypeOK, Budget, Agreement, Tries, Next PROVE TypeOK'
  BY DEF vars, TypeOK
<1>1. faults' \in 0 .. MaxFaults
  <2>1. Works \/ Fails
    BY Accounted
  <2> QED
    BY <2>1, MonitorAssumption DEF Works, Fails, TypeOK
<1>2. ASSUME NEW s \in Servers, ClaimDue(s) PROVE TypeOK'
  <2>1. channel' \in Channel
    BY <1>2 DEF ClaimDue, TypeOK, Channel
  <2>2. [Idle EXCEPT !.at = "list", !.since = channel.cursor] \in Check
    BY DEF TypeOK, Channel, Check, Idle
  <2>3. check' \in [Servers -> Check]
    BY <1>2, <2>2 DEF ClaimDue, TypeOK
  <2>4. claims' \in 0 .. MaxChecks
    BY <1>2, MonitorAssumption DEF ClaimDue, TypeOK
  <2> QED
    BY <1>1, <1>2, <2>1, <2>3, <2>4 DEF ClaimDue, TypeOK, world, draining
<1>3. ASSUME NEW s \in Servers, ListVideos(s) PROVE TypeOK'
  <2>1. [Idle EXCEPT !.at = "stamp"] \in Check /\ [Idle EXCEPT !.at = "report"] \in Check
    BY DEF Check, Idle
  <2>2. check' \in [Servers -> Check]
    BY <1>3, <2>1 DEF ListVideos, Reports, TypeOK
  <2>3. work' \in [Servers -> [Videos -> Active \cup {"none", "enqueued", "over"}]]
    BY <1>3 DEF ListVideos, TypeOK, Active
  <2> QED
    BY <1>1, <1>3, <2>2, <2>3 DEF ListVideos, TypeOK, world, draining
<1>4. ASSUME NEW s \in Servers, StampCycle(s) PROVE TypeOK'
  <2>1. day' \in Days /\ check' = [check EXCEPT ![s].at = "videos", ![s].now = day']
    BY <1>4 DEF StampCycle, LooksAtClock
  <2>2. check' \in [Servers -> Check]
    BY <2>1 DEF TypeOK, Check
  <2> QED
    BY <1>1, <1>4, <2>1, <2>2 DEF StampCycle, TypeOK, draining
<1>5. ASSUME NEW s \in Servers, NEW v \in Videos, Analyse(s, v) PROVE TypeOK'
  <2>1. check' \in [Servers -> Check]
    <3>1. check' = check \/ check' = [check EXCEPT ![s].used = @ + 1]
      BY <1>5 DEF Analyse
    <3>2. check[s] \in Check /\ check[s].used + 1 \in Nat
      BY DEF TypeOK, Check
    <3>3. [check[s] EXCEPT !.used = @ + 1] \in Check
      BY <3>2 DEF Check
    <3> QED
      BY <3>1, <3>3 DEF TypeOK
  <2>2. work' \in [Servers -> [Videos -> Active \cup {"none", "enqueued", "over"}]]
    BY <1>5, MovesTypes DEF Analyse, Active
  <2> QED
    BY <1>1, <1>5, <2>1, <2>2 DEF Analyse, TypeOK, world, draining
<1>6. ASSUME NEW s \in Servers, NEW v \in Videos, TryReserve(s, v) PROVE TypeOK'
  <2>1. CASE Moves(s, v, "won") /\ UNCHANGED check /\ LooksAtClock
             /\ ledger' = [ledger EXCEPT ![v] = [state |-> "pending", passed |-> FALSE,
                   day |-> IF ledger[v].state = "none" THEN check[s].now ELSE day']]
    <3>1. day' \in Days
      BY <2>1 DEF LooksAtClock
    <3>2. [state |-> "pending", passed |-> FALSE,
           day |-> IF ledger[v].state = "none" THEN check[s].now ELSE day'] \in Discovery
      BY <3>1 DEF TypeOK, Check, Discovery, Unsettled
    <3>3. ledger' \in [Videos -> Discovery]
      BY <2>1, <3>2 DEF TypeOK
    <3>4. work' \in [Servers -> [Videos -> Active \cup {"none", "enqueued", "over"}]]
      BY <2>1, MovesTypes DEF Active
    <3> QED
      BY <1>1, <1>6, <2>1, <3>1, <3>3, <3>4 DEF TryReserve, TypeOK, draining
  <2>2. CASE GivesUp(s, v) /\ UNCHANGED <<day, ledger>>
    BY <1>1, <1>6, <2>2, GivesUpTypes DEF TryReserve, TypeOK, draining, Held
  <2> QED
    BY <1>6, <2>1, <2>2 DEF TryReserve
<1>7. ASSUME NEW s \in Servers, NEW v \in Videos, CommitEnqueueOutbox(s, v) PROVE TypeOK'
  <2>1. work' \in [Servers -> [Videos -> Active \cup {"none", "enqueued", "over"}]]
    BY <1>7, MovesTypes DEF CommitEnqueueOutbox, Active
  <2>2. ledger' \in [Videos -> Discovery]
    <3>1. ledger' = ledger \/ ledger' = [ledger EXCEPT ![v].state = "enqueued", ![v].passed = FALSE]
      BY <1>7 DEF CommitEnqueueOutbox
    <3>2. ledger \in [Videos -> Discovery]
      BY DEF TypeOK
    <3> QED
      BY <3>1, <3>2 DEF Discovery, Settled
  <2>3. entry' \in [Videos -> Entry]
    <3>1. NewEntry \in Entry
      BY MonitorAssumption DEF NewEntry, Entry
    <3>2. Emitted(v) \in [Videos -> Entry]
      BY <3>1 DEF Emitted, TypeOK
    <3> QED
      BY <1>7, <3>2 DEF CommitEnqueueOutbox, TypeOK
  <2> QED
    BY <1>1, <1>7, <2>1, <2>2, <2>3 DEF CommitEnqueueOutbox, TypeOK, world, draining
<1>8. ASSUME NEW s \in Servers, NEW v \in Videos, MarkRejected(s, v) PROVE TypeOK'
  <2>1. ledger' \in [Videos -> Discovery]
    <3>1. \A r \in Discovery : /\ [r EXCEPT !.state = "rejected_retryable", !.passed = FALSE] \in Discovery
                              /\ [r EXCEPT !.state = "rejected_terminal", !.passed = FALSE] \in Discovery
      BY DEF Discovery, Settled
    <3>2. \A how \in {"transient", "permanent"} : Rejected(v, how) \in [Videos -> Discovery]
      BY <3>1 DEF Rejected, TypeOK
    <3> QED
      BY <1>8, <3>2 DEF MarkRejected, TypeOK
  <2> QED
    BY <1>1, <1>8, <2>1, GivesUpTypes DEF MarkRejected, TypeOK, world, draining, Held
<1>9. ASSUME NEW s \in Servers, ReadWatermark(s) PROVE TypeOK'
  <2>1. SettledDays \subseteq Days \cup {NoDay}
    BY DEF SettledDays, TypeOK, Discovery
  <2>2. check' \in [Servers -> Check]
    <3>1. [Idle EXCEPT !.at = "report"] \in Check
      BY DEF Check, Idle
    <3>2. \A d \in SettledDays : [Idle EXCEPT !.at = "cursor", !.now = d] \in Check
      BY <2>1 DEF Check, Idle
    <3> QED
      BY <1>9, <3>1, <3>2 DEF ReadWatermark, Reports, TypeOK
  <2>3. work' \in [Servers -> [Videos -> Active \cup {"none", "enqueued", "over"}]]
    BY <1>9 DEF ReadWatermark, Untouched, TypeOK
  <2> QED
    BY <1>1, <1>9, <2>2, <2>3 DEF ReadWatermark, TypeOK, world, draining
<1>10. ASSUME NEW s \in Servers, UpdateCursor(s) PROVE TypeOK'
  <2>1. check' \in [Servers -> Check] /\ channel' \in Channel
    BY <1>10 DEF UpdateCursor, Reports, TypeOK, Check, Channel, Idle
  <2> QED
    BY <1>1, <1>10, <2>1 DEF UpdateCursor, TypeOK, world, draining
<1>11. ASSUME NEW s \in Servers, MarkChecked(s) PROVE TypeOK'
  <2>1. check' \in [Servers -> Check] /\ channel' \in Channel
    BY <1>11 DEF MarkChecked, TypeOK, Check, Channel, Idle
  <2> QED
    BY <1>1, <1>11, <2>1 DEF MarkChecked, TypeOK, world, draining
<1>12. ASSUME NEW s \in Servers, DrainOutbox(s) PROVE TypeOK'
  <2>1. entry' \in [Videos -> Entry]
    BY <1>12 DEF DrainOutbox, TypeOK, Entry
  <2>2. drain' \in [Servers -> Drain]
    BY <1>12 DEF DrainOutbox, TypeOK, Drain, Claimable, Stuck
  <2> QED
    BY <1>1, <1>12, <2>1, <2>2 DEF DrainOutbox, TypeOK, world, checks
<1>13. ASSUME NEW s \in Servers, NEW v \in Videos, EnqueueExtract(s, v) PROVE TypeOK'
  <2>1. job' \in [Videos -> Job]
    <3>1. job' = job \/ Creates(v)
      BY <1>13 DEF EnqueueExtract
    <3>2. job \in [Videos -> Job]
      BY DEF TypeOK
    <3> QED
      BY <3>1, <3>2 DEF Creates, Job
  <2>2. drain' \in [Servers -> Drain]
    <3>1. Told(s, v, "told") \/ Told(s, v, "refused")
      BY <1>13 DEF EnqueueExtract
    <3>2. ASSUME NEW at \in {"told", "refused"}, Told(s, v, at) PROVE drain' \in [Servers -> Drain]
      <4>1. drain' = [drain EXCEPT ![s].at = at, ![s].video = v]
        BY <3>2 DEF Told
      <4>2. drain \in [Servers -> Drain]
        BY DEF TypeOK
      <4> QED
        BY <4>1, <4>2 DEF Drain
    <3> QED
      BY <3>1, <3>2
  <2> QED
    BY <1>1, <1>13, <2>1, <2>2 DEF EnqueueExtract, TypeOK, world, checks
<1>14. ASSUME NEW s \in Servers, Done(s) PROVE drain' \in [Servers -> Drain]
  BY <1>14, MonitorAssumption DEF Done, Resting, TypeOK, Drain
<1>15. ASSUME NEW s \in Servers, NEW v \in Videos, MarkOutboxDispatched(s, v) PROVE TypeOK'
  <2>1. entry' \in [Videos -> Entry]
    <3>1. [entry[v] EXCEPT !.state = "dispatched", !.passed = FALSE] \in Entry
      BY DEF TypeOK, Entry
    <3> QED
      BY <1>15, <3>1 DEF MarkOutboxDispatched, Marks, TypeOK
  <2> QED
    BY <1>1, <1>14, <1>15, <2>1 DEF MarkOutboxDispatched, Marks, TypeOK, world, checks
<1>16. ASSUME NEW s \in Servers, NEW v \in Videos, ReadRetryCount(s, v) PROVE TypeOK'
  <2>1. drain' \in [Servers -> Drain]
    <3>1. entry[v].tries \in 0 .. MaxOutboxRetries
      BY DEF TypeOK, Entry
    <3>2. [drain[s] EXCEPT !.at = "counted", !.tries = entry[v].tries] \in Drain
      BY <3>1 DEF TypeOK, Drain
    <3> QED
      BY <1>16, <3>2 DEF ReadRetryCount, TypeOK
  <2> QED
    BY <1>1, <1>16, <2>1 DEF ReadRetryCount, TypeOK, world, checks
<1>17. ASSUME NEW s \in Servers, NEW v \in Videos, MarkOutboxFailed(s, v) PROVE TypeOK'
  <2> DEFINE tries == drain[s].tries + 1
  <2>1. entry' \in [Videos -> Entry]
    <3>1. CASE entry' = entry
      BY <3>1 DEF TypeOK
    <3>2. CASE entry[v].state = "dispatching"
               /\ entry' = [entry EXCEPT ![v] = [state |-> AfterFailure(tries), tries |-> tries, passed |-> FALSE]]
      <4>1. drain[s].tries \in Nat /\ drain[s].tries < MaxOutboxRetries
        BY <1>17, <3>2 DEF MarkOutboxFailed, Tries, TypeOK, Drain
      <4>2. [state |-> AfterFailure(tries), tries |-> tries, passed |-> FALSE] \in Entry
        BY <4>1, MonitorAssumption DEF Entry, AfterFailure
      <4> QED
        BY <3>2, <4>2 DEF TypeOK
    <3> QED
      BY <1>17, <3>1, <3>2 DEF MarkOutboxFailed, Marks
  <2> QED
    BY <1>1, <1>14, <1>17, <2>1 DEF MarkOutboxFailed, Marks, TypeOK, world, checks
<1>18. ASSUME NEW s \in Servers, Crash(s) PROVE TypeOK'
  <2>1. check' \in [Servers -> Check] /\ work' \in [Servers -> [Videos -> Active \cup {"none", "enqueued", "over"}]]
    BY <1>18 DEF Crash, TypeOK, Check, Idle, Untouched
  <2>2. drain' \in [Servers -> Drain]
    BY <1>18, MonitorAssumption DEF Crash, TypeOK, Drain, Resting
  <2> QED
    BY <1>1, <1>18, <2>1, <2>2 DEF Crash, TypeOK, world
<1>19. ASSUME ChannelTimer PROVE TypeOK'
  <2>1. channel' \in Channel
    BY <1>19 DEF ChannelTimer, TypeOK, Channel
  <2> QED
    BY <1>1, <1>19, <2>1 DEF ChannelTimer, TypeOK, world, draining
<1>20. ASSUME NEW v \in Videos, Upload(v) PROVE TypeOK'
  <2>1. day' \in Days /\ uploaded' = [uploaded EXCEPT ![v] = day']
    BY <1>20 DEF Upload, LooksAtClock
  <2> QED
    BY <1>1, <1>20, <2>1 DEF Upload, TypeOK, checks, draining
<1>21. ASSUME NEW v \in Videos, LedgerTimer(v) \/ EntryTimer(v) PROVE TypeOK'
  <2>1. ledger' \in [Videos -> Discovery] /\ entry' \in [Videos -> Entry]
    <3>1. [ledger[v] EXCEPT !.passed = TRUE] \in Discovery /\ [entry[v] EXCEPT !.passed = TRUE] \in Entry
      BY DEF TypeOK, Discovery, Entry
    <3> QED
      BY <1>21, <3>1 DEF LedgerTimer, EntryTimer, TypeOK, checks
  <2> QED
    BY <1>1, <1>21, <2>1 DEF LedgerTimer, EntryTimer, TypeOK, world, checks, draining
<1>22. ASSUME NEW v \in Videos, JobLeaves(v) \/ JobComesBack(v) PROVE TypeOK'
  <2>1. job' \in [Videos -> Job]
    <3>1. /\ [job[v] EXCEPT !.active = FALSE, !.left = TRUE] \in Job
          /\ [job[v] EXCEPT !.active = TRUE] \in Job
      BY DEF TypeOK, Job
    <3> QED
      BY <1>22, <3>1 DEF JobLeaves, JobComesBack, TypeOK
  <2> QED
    BY <1>1, <1>22, <2>1 DEF JobLeaves, JobComesBack, TypeOK, world, checks
<1> QED
  BY <1>2, <1>3, <1>4, <1>5, <1>6, <1>7, <1>8, <1>9, <1>10, <1>11, <1>12, <1>13, <1>15, <1>16, <1>17, <1>18,
     <1>19, <1>20, <1>21, <1>22
  DEF Next, Outside, CheckStep, DrainStep, Dispatch

-----------------------------------------------------------------------------
(***************************************************************************)
(* The tables and the drainers                                             *)
(***************************************************************************)
\* What the drainers have claimed, and what they are about to write.
LEMMA DrainTypes ==
  ASSUME TypeOK, NEW s \in Servers
  PROVE  /\ drain[s].batch \subseteq Videos
         /\ drain[s].tries \in Nat
         /\ \A v \in Videos : entry[v].tries \in Nat /\ job[v].made \in Nat
         /\ faults \in Nat /\ MaxOutboxRetries \in Nat
BY MonitorAssumption DEF TypeOK, Drain, Entry, Job

\* Steps that leave the entries, the drainers and the jobs alone, and enqueue
\* no discovery.
LEMMA Quiet ==
  ASSUME Agreement, Tries, UNCHANGED <<entry, drain, job>>,
         \A v \in Videos : ledger'[v].state = "enqueued" <=> ledger[v].state = "enqueued"
  PROVE  Agreement' /\ Tries'
<1>1. OneExtraction'
  BY DEF Agreement, OneExtraction
<1> QED
  BY <1>1 DEF Agreement, Tries

\* The steps of a check that touch neither ledger nor outbox nor jobs.
LEMMA CheckIsQuiet ==
  ASSUME TypeOK, NEW s \in Servers,
         \/ ClaimDue(s) \/ ListVideos(s) \/ StampCycle(s)
         \/ \E v \in Videos : Analyse(s, v) \/ TryReserve(s, v) \/ MarkRejected(s, v)
         \/ ReadWatermark(s) \/ UpdateCursor(s) \/ MarkChecked(s)
  PROVE  /\ UNCHANGED <<entry, drain, job>>
         /\ \A v \in Videos : ledger'[v].state = "enqueued" <=> ledger[v].state = "enqueued"
<1>1. UNCHANGED <<entry, drain, job>>
  BY DEF ClaimDue, ListVideos, StampCycle, Analyse, TryReserve, MarkRejected, ReadWatermark, UpdateCursor,
         MarkChecked, draining
<1>2. ASSUME UNCHANGED ledger
      PROVE  \A v \in Videos : ledger'[v].state = "enqueued" <=> ledger[v].state = "enqueued"
  BY <1>2
<1>3. ASSUME NEW v \in Videos, TryReserve(s, v) \/ MarkRejected(s, v)
      PROVE  \A w \in Videos : ledger'[w].state = "enqueued" <=> ledger[w].state = "enqueued"
  <2>1. ledger[v].state # "enqueued" \/ ledger' = ledger
    BY <1>3 DEF TryReserve, Reservable, MarkRejected, Rejected, Unsettled
  <2>2. ledger[v].state # "enqueued" => ledger'[v].state # "enqueued"
    BY <1>3 DEF TryReserve, MarkRejected, Rejected, TypeOK, Discovery
  <2>3. \A w \in Videos \ {v} : ledger'[w] = ledger[w]
    BY <1>3 DEF TryReserve, MarkRejected, Rejected, TypeOK
  <2> QED
    BY <2>1, <2>2, <2>3
<1>4. (\E v \in Videos : TryReserve(s, v) \/ MarkRejected(s, v)) \/ UNCHANGED ledger
  BY DEF ClaimDue, ListVideos, StampCycle, Analyse, ReadWatermark, UpdateCursor, MarkChecked
<1> QED
  BY <1>1, <1>2, <1>3, <1>4

\* The transaction that writes the ledger row and the outbox entry together.
LEMMA CommitAgrees ==
  ASSUME TypeOK, Agreement, Tries, NEW s \in Servers, NEW v \in Videos, CommitEnqueueOutbox(s, v)
  PROVE  Agreement' /\ Tries'
<1>1. drain' = drain /\ job' = job
  BY DEF CommitEnqueueOutbox, draining
<1>2. CASE UNCHANGED <<ledger, entry>>
  BY <1>1, <1>2, Quiet
<1>3. CASE /\ ledger[v].state = "pending" /\ entry' = Emitted(v)
           /\ ledger' = [ledger EXCEPT ![v].state = "enqueued", ![v].passed = FALSE]
  <2>1. entry[v].state = "none" /\ job[v].made # 1 /\ job[v].made \in Nat
    BY <1>3 DEF Agreement, OneExtraction, TypeOK, Job
  <2>2. entry' = [entry EXCEPT ![v] = NewEntry]
    BY <1>3, <2>1 DEF Emitted
  <2>3. entry'[v] = NewEntry /\ \A w \in Videos \ {v} : entry'[w] = entry[w]
    BY <2>2 DEF TypeOK
  <2>4. ledger'[v].state = "enqueued" /\ \A w \in Videos \ {v} : ledger'[w] = ledger[w]
    BY <1>3 DEF TypeOK, Discovery
  <2>5. OneExtraction'
    BY <1>1, <2>1, <2>3, <2>4 DEF Agreement, OneExtraction, NewEntry
  <2>6. \A t \in Servers : \A w \in drain[t].batch : w # v /\ w \in Videos
    BY <2>1, DrainTypes DEF Agreement
  <2>7. Agreement'
    BY <1>1, <2>3, <2>5, <2>6 DEF Agreement
  <2>8. \A t \in Servers : drain[t].at = "counted" => drain[t].video # v /\ drain[t].video \in Videos
    BY <2>6 DEF Agreement
  <2>9. Tries'
    BY <1>1, <2>3, <2>8, MonitorAssumption DEF Tries, NewEntry
  <2> QED
    BY <2>7, <2>9
<1> QED
  BY <1>2, <1>3 DEF CommitEnqueueOutbox

\* Claims and marks of a drainer.
LEMMA DrainAgrees ==
  ASSUME TypeOK, Agreement, Tries, NEW s \in Servers, DrainOutbox(s)
  PROVE  Agreement' /\ Tries'
<1>1. job' = job /\ ledger' = ledger
  BY DEF DrainOutbox, checks
<1>2. /\ drain'[s].batch = Claimable /\ drain'[s].at = "idle"
      /\ \A t \in Servers \ {s} : drain'[t] = drain[t]
  <2>1. drain[s] = Resting /\ drain' = [drain EXCEPT ![s].batch = Claimable]
    BY DEF DrainOutbox
  <2>2. drain \in [Servers -> Drain]
    BY DEF TypeOK
  <2>3. drain[s].at = "idle"
    BY <2>1 DEF Resting
  <2> QED
    BY <2>1, <2>2, <2>3 DEF Drain
<1>3. \A v \in Videos :
        /\ v \in Claimable => entry'[v].state = "dispatching" /\ entry[v].state \in {"pending", "dispatching"}
        /\ v \notin Claimable => entry'[v] = entry[v]
        /\ entry'[v].tries = entry[v].tries
  BY DEF DrainOutbox, TypeOK, Entry, Claimable, Stuck
<1>4. OneExtraction'
  BY <1>1, <1>3 DEF Agreement, OneExtraction
<1>5. ASSUME NEW t \in Servers
      PROVE  /\ \A v \in drain'[t].batch : entry'[v].state # "none"
             /\ drain'[t].at # "idle" => drain'[t].video \in drain'[t].batch
             /\ drain'[t].at = "told" => job'[drain'[t].video].made = 1
  <2>1. CASE t = s
    BY <1>2, <1>3, <2>1 DEF Claimable, Stuck
  <2>2. CASE t # s
    BY <1>1, <1>2, <1>3, <2>2, DrainTypes DEF Agreement
  <2> QED
    BY <2>1, <2>2
<1>6. Agreement'
  BY <1>1, <1>4, <1>5 DEF Agreement
<1>7. \A v \in Videos : entry'[v].state # "dead" => entry'[v].tries < MaxOutboxRetries
  BY <1>3 DEF Tries
<1>8. ASSUME NEW t \in Servers, drain'[t].at = "counted", entry'[drain'[t].video].state # "dead"
      PROVE  drain'[t].tries < MaxOutboxRetries
  <2>1. t # s /\ drain'[t] = drain[t] /\ drain[t].video \in Videos
    BY <1>2, <1>8, DrainTypes DEF Agreement
  <2> QED
    BY <1>3, <1>8, <2>1 DEF Tries
<1> QED
  BY <1>6, <1>7, <1>8 DEF Tries

\* The hand-over of an entry to admission.
LEMMA EnqueueAgrees ==
  ASSUME TypeOK, Agreement, Tries, NEW s \in Servers, NEW v \in Videos, EnqueueExtract(s, v)
  PROVE  Agreement' /\ Tries'
<1>1. entry' = entry /\ ledger' = ledger /\ v \in drain[s].batch /\ drain[s].at = "idle"
  BY DEF EnqueueExtract, checks
<1>2. PICK at \in {"told", "refused"} : Told(s, v, at)
  BY DEF EnqueueExtract
<1>3. /\ drain'[s].batch = drain[s].batch /\ drain'[s].at = at /\ drain'[s].video = v
      /\ \A t \in Servers \ {s} : drain'[t] = drain[t]
  BY <1>2 DEF Told, TypeOK, Drain
<1>4. /\ \A w \in Videos \ {v} : job'[w] = job[w]
      /\ \/ job'[v] = job[v]
         \/ job[v].made = 0 /\ job'[v].made = 1 /\ job'[v].active
  BY DEF EnqueueExtract, Creates, HoldsKey, TypeOK, Job
<1>5. at = "told" => job'[v].made = 1
  <2>1. CASE Collides(v) /\ UNCHANGED job
    BY <2>1 DEF Collides, Agreement
  <2>2. CASE ~HoldsKey(v) /\ Creates(v)
    BY <2>2 DEF HoldsKey, Creates, TypeOK, Job
  <2>3. CASE Told(s, v, "refused")
    BY <1>3, <2>3 DEF Told, TypeOK, Drain
  <2> QED
    BY <2>1, <2>2, <2>3 DEF EnqueueExtract
<1>6. entry[v].state # "none"
  BY <1>1 DEF Agreement
<1>7. OneExtraction'
  BY <1>1, <1>4, <1>6 DEF Agreement, OneExtraction
<1>8. ASSUME NEW t \in Servers
      PROVE  /\ \A w \in drain'[t].batch : entry'[w].state # "none"
             /\ drain'[t].at # "idle" => drain'[t].video \in drain'[t].batch
             /\ drain'[t].at = "told" => job'[drain'[t].video].made = 1
  <2>1. CASE t = s
    BY <1>1, <1>3, <1>5, <2>1 DEF Agreement
  <2>2. CASE t # s
    BY <1>1, <1>3, <1>4, <2>2, DrainTypes DEF Agreement
  <2> QED
    BY <2>1, <2>2
<1>9. /\ \A w \in Videos : job'[w].active => job'[w].made = 1
      /\ \A w \in Videos : job'[w].made > 0 => job'[w].active \/ job'[w].left
  BY <1>4 DEF Agreement
<1>10. ASSUME NEW t \in Servers, drain'[t].at = "counted" PROVE t # s /\ drain'[t] = drain[t]
  BY <1>2, <1>3, <1>10
<1>11. Tries'
  <2>1. \A w \in Videos : entry'[w].state # "dead" => entry'[w].tries < MaxOutboxRetries
    BY <1>1 DEF Tries
  <2>2. \A t \in Servers : drain'[t].at = "counted" /\ entry'[drain'[t].video].state # "dead"
          => drain'[t].tries < MaxOutboxRetries
    BY <1>1, <1>10 DEF Tries
  <2> QED
    BY <2>1, <2>2 DEF Tries
<1>12. Agreement'
  BY <1>7, <1>8, <1>9, Zenon DEF Agreement
<1> QED
  BY <1>11, <1>12

\* The end of a hand-over, whatever it writes.
LEMMA MarksAgree ==
  ASSUME TypeOK, Agreement, Tries, NEW s \in Servers, NEW v \in Videos, NEW row,
         drain[s].at # "idle", drain[s].video = v, Marks(s, v, row),
         row.state # "none", row.state = "dispatched" => job[v].made = 1,
         entry[v].state = "dispatching" /\ row.state # "dead" => row.tries < MaxOutboxRetries
  PROVE  Agreement' /\ Tries'
<1>1. job' = job /\ ledger' = ledger
  BY DEF Marks, checks
<1>2. drain'[s] = [Resting EXCEPT !.batch = drain[s].batch \ {v}] /\ \A t \in Servers \ {s} : drain'[t] = drain[t]
  BY DEF Marks, Done, TypeOK
<1>3. drain'[s].batch \subseteq drain[s].batch /\ drain'[s].at = "idle"
  BY <1>2 DEF Resting
<1>4. /\ \A w \in Videos \ {v} : entry'[w] = entry[w]
      /\ entry'[v] = entry[v] \/ (entry[v].state = "dispatching" /\ entry'[v] = row)
  BY DEF Marks, TypeOK
<1>5. OneExtraction'
  BY <1>1, <1>4 DEF Agreement, OneExtraction
<1>6. \A w \in Videos : entry[w].state # "none" => entry'[w].state # "none"
  BY <1>4
<1>7. ASSUME NEW t \in Servers
      PROVE  /\ \A w \in drain'[t].batch : entry'[w].state # "none"
             /\ drain'[t].at # "idle" => drain'[t].video \in drain'[t].batch
             /\ drain'[t].at = "told" => job'[drain'[t].video].made = 1
  <2>1. CASE t = s
    BY <1>3, <1>6, <2>1, DrainTypes DEF Agreement
  <2>2. CASE t # s
    BY <1>1, <1>2, <1>6, <2>2, DrainTypes DEF Agreement
  <2> QED
    BY <2>1, <2>2
<1>8. /\ \A w \in Videos : job'[w].active => job'[w].made = 1
      /\ \A w \in Videos : job'[w].made > 0 => job'[w].active \/ job'[w].left
  BY <1>1 DEF Agreement
<1>9. Agreement'
  BY <1>5, <1>7, <1>8, Zenon DEF Agreement
<1>10. \A w \in Videos : entry'[w].state # "dead" => entry'[w].tries < MaxOutboxRetries
  BY <1>4 DEF Tries
<1>11. ASSUME NEW t \in Servers, drain'[t].at = "counted", entry'[drain'[t].video].state # "dead"
       PROVE  drain'[t].tries < MaxOutboxRetries
  <2>1. t # s /\ drain'[t] = drain[t] /\ drain[t].video \in Videos
    BY <1>2, <1>3, <1>11, DrainTypes DEF Agreement
  <2>2. entry[drain[t].video].state # "dead"
    BY <1>4, <1>11, <2>1
  <2> QED
    BY <1>11, <2>1, <2>2 DEF Tries
<1> QED
  BY <1>9, <1>10, <1>11 DEF Tries

\* The read of the retry count that a failure is about to write.
LEMMA ReadAgrees ==
  ASSUME TypeOK, Agreement, Tries, NEW s \in Servers, NEW v \in Videos, ReadRetryCount(s, v)
  PROVE  Agreement' /\ Tries'
<1>1. UNCHANGED <<entry, job, ledger>>
  BY DEF ReadRetryCount, checks
<1>2. /\ drain'[s].at = "counted" /\ drain'[s].tries = entry[v].tries
      /\ drain'[s].batch = drain[s].batch /\ drain'[s].video = v /\ drain[s].video = v /\ drain[s].at = "refused"
      /\ \A t \in Servers \ {s} : drain'[t] = drain[t]
  <2>1. drain' = [drain EXCEPT ![s].at = "counted", ![s].tries = entry[v].tries]
    BY DEF ReadRetryCount
  <2>2. drain \in [Servers -> Drain] /\ drain[s].video = v /\ drain[s].at = "refused"
    BY DEF TypeOK, ReadRetryCount
  <2> QED
    BY <2>1, <2>2 DEF Drain
<1>3. OneExtraction'
  BY <1>1 DEF Agreement, OneExtraction
<1>4. ASSUME NEW t \in Servers
      PROVE  /\ \A w \in drain'[t].batch : entry'[w].state # "none"
             /\ drain'[t].at # "idle" => drain'[t].video \in drain'[t].batch
             /\ drain'[t].at = "told" => job'[drain'[t].video].made = 1
  BY <1>1, <1>2 DEF Agreement
<1>5. /\ \A w \in Videos : job'[w].active => job'[w].made = 1
      /\ \A w \in Videos : job'[w].made > 0 => job'[w].active \/ job'[w].left
  BY <1>1 DEF Agreement
<1>6. Agreement'
  BY <1>3, <1>4, <1>5, Zenon DEF Agreement
<1>7. \A t \in Servers : drain'[t].at = "counted" /\ entry'[drain'[t].video].state # "dead"
        => drain'[t].tries < MaxOutboxRetries
  BY <1>1, <1>2 DEF Tries
<1>8. Tries'
  BY <1>1, <1>7 DEF Tries
<1> QED
  BY <1>6, <1>8

\* Every step keeps ledger, outbox and jobs in agreement.
LEMMA AgreeStep == TypeOK /\ Agreement /\ Tries /\ [Next]_vars => Agreement' /\ Tries'
<1> SUFFICES ASSUME TypeOK, Agreement, Tries, [Next]_vars PROVE Agreement' /\ Tries'
  OBVIOUS
<1>1. CASE UNCHANGED vars
  BY <1>1, Quiet DEF vars
<1>2. ASSUME NEW s \in Servers, CheckStep(s) PROVE Agreement' /\ Tries'
  BY <1>2, CheckIsQuiet, Quiet, CommitAgrees DEF CheckStep
<1>3. ASSUME NEW s \in Servers, NEW v \in Videos, MarkOutboxDispatched(s, v) PROVE Agreement' /\ Tries'
  <2> DEFINE row == [entry[v] EXCEPT !.state = "dispatched", !.passed = FALSE]
  <2>1. drain[s].at = "told" /\ drain[s].video = v /\ Marks(s, v, row)
    BY <1>3 DEF MarkOutboxDispatched
  <2>2. row.state = "dispatched" /\ row.tries = entry[v].tries
    BY DEF TypeOK, Entry
  <2>3. job[v].made = 1
    BY <2>1 DEF Agreement
  <2>4. entry[v].state = "dispatching" => row.tries < MaxOutboxRetries
    BY <2>2 DEF Tries
  <2> HIDE DEF row
  <2> QED
    BY <2>1, <2>2, <2>3, <2>4, MarksAgree
<1>4. ASSUME NEW s \in Servers, NEW v \in Videos, MarkOutboxFailed(s, v) PROVE Agreement' /\ Tries'
  <2> DEFINE tries == drain[s].tries + 1
             row   == [state |-> AfterFailure(tries), tries |-> tries, passed |-> FALSE]
  <2>1. drain[s].at = "counted" /\ drain[s].video = v /\ Marks(s, v, row)
    BY <1>4 DEF MarkOutboxFailed
  <2>2. row.state \in {"pending", "dead"} /\ row.tries = tries
    BY DEF AfterFailure
  <2>3. row.state # "dead" => row.tries < MaxOutboxRetries
    BY DrainTypes DEF AfterFailure
  <2> HIDE DEF row
  <2> QED
    BY <2>1, <2>2, <2>3, MarksAgree
<1>5. ASSUME NEW s \in Servers, DrainStep(s) PROVE Agreement' /\ Tries'
  BY <1>3, <1>4, <1>5, DrainAgrees, EnqueueAgrees, ReadAgrees DEF DrainStep, Dispatch
<1>6. ASSUME NEW s \in Servers, Crash(s) PROVE Agreement' /\ Tries'
  <2>1. UNCHANGED <<entry, job, ledger>> /\ drain'[s] = Resting /\ \A t \in Servers \ {s} : drain'[t] = drain[t]
    BY <1>6 DEF Crash, TypeOK
  <2>2. Agreement'
    BY <2>1 DEF Agreement, OneExtraction, Resting
  <2>3. Tries'
    BY <2>1 DEF Tries, Resting
  <2> QED
    BY <2>2, <2>3
<1>7. ASSUME NEW v \in Videos, EntryTimer(v) PROVE Agreement' /\ Tries'
  <2>1. UNCHANGED <<drain, job, ledger>>
    BY <1>7 DEF EntryTimer, checks, draining
  <2>2. \A w \in Videos : entry'[w].state = entry[w].state /\ entry'[w].tries = entry[w].tries
    BY <1>7 DEF EntryTimer, TypeOK, Entry
  <2>3. \A t \in Servers : drain[t].batch \subseteq Videos
    BY DrainTypes
  <2>4. OneExtraction'
    BY <2>1, <2>2 DEF Agreement, OneExtraction
  <2>5. Agreement'
    BY <2>1, <2>2, <2>3, <2>4 DEF Agreement
  <2>6. \A t \in Servers : drain[t].at = "counted" => drain[t].video \in Videos
    BY <2>3 DEF Agreement
  <2>7. Tries'
    BY <2>1, <2>2, <2>6 DEF Tries
  <2> QED
    BY <2>5, <2>7
<1>8. ASSUME NEW v \in Videos, JobLeaves(v) \/ JobComesBack(v) PROVE Agreement' /\ Tries'
  <2>1. UNCHANGED <<drain, entry, ledger>>
    BY <1>8 DEF JobLeaves, JobComesBack, checks
  <2>2. /\ \A w \in Videos : job'[w].made = job[w].made
        /\ \A w \in Videos \ {v} : job'[w] = job[w]
        /\ job'[v].active \/ job'[v].left
        /\ job[v].made = 1
    <3>1. job \in [Videos -> Job] /\ job[v].made \in Nat /\ job[v].made <= 1
      BY DEF TypeOK, Job, Agreement, OneExtraction
    <3>2. CASE JobLeaves(v)
      <4>1. job[v].active /\ job' = [job EXCEPT ![v].active = FALSE, ![v].left = TRUE]
        BY <3>2 DEF JobLeaves
      <4>2. job[v].made = 1
        BY <4>1 DEF Agreement
      <4> QED
        BY <3>1, <4>1, <4>2 DEF Job
    <3>3. CASE JobComesBack(v)
      <4>1. job[v].made > 0 /\ job' = [job EXCEPT ![v].active = TRUE]
        BY <3>3 DEF JobComesBack, HoldsKey
      <4> QED
        BY <3>1, <4>1 DEF Job
    <3> QED
      BY <1>8, <3>2, <3>3
  <2>3. \A t \in Servers : drain[t].at = "told" => drain[t].video \in Videos
    BY DrainTypes DEF Agreement
  <2>4. OneExtraction'
    BY <2>1, <2>2 DEF Agreement, OneExtraction
  <2>5. Agreement'
    BY <2>1, <2>2, <2>3, <2>4 DEF Agreement
  <2>6. Tries'
    BY <2>1 DEF Tries
  <2> QED
    BY <2>5, <2>6
<1>9. ASSUME ChannelTimer \/ \E v \in Videos : Upload(v) \/ LedgerTimer(v) PROVE Agreement' /\ Tries'
  <2>1. UNCHANGED <<entry, drain, job>> /\ \A w \in Videos : ledger'[w].state = ledger[w].state
    BY <1>9 DEF ChannelTimer, Upload, LedgerTimer, checks, draining, TypeOK, Discovery
  <2> QED
    BY <2>1, Quiet
<1> QED
  BY <1>1, <1>2, <1>5, <1>6, <1>7, <1>8, <1>9 DEF Next, Outside

-----------------------------------------------------------------------------
(***************************************************************************)
(* The charges of an entry                                                 *)
(***************************************************************************)
LEMMA RefusalsFinite ==
  ASSUME NEW v \in Videos
  PROVE  IsFiniteSet(Refusals(v)) /\ Cardinality(Refusals(v)) \in Nat
BY MonitorAssumption, FS_Subset, FS_CardinalityType DEF Refusals

\* No new refusal, and an entry that is charged no more than before.
LEMMA ChargedFewer ==
  ASSUME TypeOK, TypeOK', NEW v \in Videos, Charged(v), faults' >= faults,
         Refusals(v)' \subseteq Refusals(v), \A t \in Refusals(v)' : drain'[t] = drain[t],
         entry'[v].tries = entry[v].tries
  PROVE  Charged(v)'
<1>1. /\ Cardinality(Refusals(v)) \in Nat /\ Cardinality(Refusals(v)') \in Nat
      /\ Cardinality(Refusals(v)') <= Cardinality(Refusals(v))
  BY RefusalsFinite, FS_Subset, FS_CardinalityType
<1>2. entry[v].tries \in Nat /\ faults \in Nat /\ faults' \in Nat
  BY DEF TypeOK, Entry
<1>3. Cardinality(Refusals(v)') + entry'[v].tries <= faults'
  BY <1>1, <1>2 DEF Charged
<1>4. ASSUME NEW t \in Refusals(v)', drain'[t].at = "counted"
      PROVE  Cardinality(Refusals(v)') + drain'[t].tries <= faults'
  <2>1. t \in Refusals(v) /\ t \in Servers /\ drain'[t] = drain[t]
    BY <1>4 DEF Refusals
  <2>2. Cardinality(Refusals(v)) + drain[t].tries <= faults /\ drain[t].tries \in Nat
    BY <1>4, <2>1, DrainTypes DEF Charged
  <2> QED
    BY <1>1, <1>2, <2>1, <2>2
<1> QED
  BY <1>3, <1>4 DEF Charged

\* Every drainer stays or is at rest, and every entry keeps its count.
LEMMA ChargesFewer ==
  ASSUME TypeOK, TypeOK', Charges, faults' >= faults,
         \A v \in Videos : job[v].left => job'[v].left,
         \A t \in Servers : drain'[t] = drain[t] \/ drain'[t].at \notin {"refused", "counted"},
         \A v \in Videos : entry'[v].tries = entry[v].tries
  PROVE  Charges'
<1> SUFFICES ASSUME NEW v \in Videos, Charged(v) PROVE Charged(v)'
  BY DEF Charges
<1>1. \A t \in Refusals(v)' : t \in Refusals(v) /\ drain'[t] = drain[t]
  BY DEF Refusals, Refuses
<1> QED
  BY <1>1, ChargedFewer

\* A call that failed charges nobody yet, and is one fault.
LEMMA ChargesRefused ==
  ASSUME TypeOK, TypeOK', Charges, NEW s \in Servers, NEW v \in Videos,
         drain[s].at = "idle", Told(s, v, "refused"), faults' = faults + 1,
         \A w \in Videos : job[w].left => job'[w].left, UNCHANGED entry
  PROVE  Charges'
<1>1. /\ drain'[s].at = "refused" /\ drain'[s].video = v
      /\ \A t \in Servers \ {s} : drain'[t] = drain[t]
  <2>1. drain' = [drain EXCEPT ![s].at = "refused", ![s].video = v]
    BY DEF Told
  <2>2. drain \in [Servers -> Drain]
    BY DEF TypeOK
  <2> QED
    BY <2>1, <2>2 DEF Drain
<1>2. faults \in Nat /\ faults' \in Nat
  BY DEF TypeOK
<1> SUFFICES ASSUME NEW w \in Videos, Charged(w) PROVE Charged(w)'
  BY DEF Charges
<1>3. CASE w # v
  <2>1. Refusals(w)' \subseteq Refusals(w) /\ \A t \in Refusals(w)' : drain'[t] = drain[t]
    BY <1>1, <1>3 DEF Refusals, Refuses
  <2> QED
    BY <1>2, <2>1, ChargedFewer
<1>4. CASE w = v
  <2>1. s \notin Refusals(v) /\ Refusals(v)' = Refusals(v) \cup {s}
    BY <1>1 DEF Refusals, Refuses
  <2>2. Cardinality(Refusals(v)') = Cardinality(Refusals(v)) + 1 /\ Cardinality(Refusals(v)) \in Nat
    BY <2>1, RefusalsFinite, FS_AddElement
  <2>3. Cardinality(Refusals(v)') + entry'[v].tries <= faults'
    BY <1>2, <1>4, <2>2, DrainTypes DEF Charged
  <2>4. ASSUME NEW t \in Refusals(v)', drain'[t].at = "counted"
        PROVE  Cardinality(Refusals(v)') + drain'[t].tries <= faults'
    <3>1. t \in Refusals(v) /\ t \in Servers /\ drain'[t] = drain[t]
      BY <1>1, <2>1, <2>4 DEF Refusals
    <3>2. Cardinality(Refusals(v)) + drain[t].tries <= faults /\ drain[t].tries \in Nat
      BY <1>4, <2>4, <3>1, DrainTypes DEF Charged
    <3> QED
      BY <1>2, <2>2, <3>1, <3>2
  <2> QED
    BY <1>4, <2>3, <2>4 DEF Charged
<1> QED
  BY <1>3, <1>4

\* The read before a charge: the refusal is counted once.
LEMMA ChargesRead ==
  ASSUME TypeOK, TypeOK', Charges, NEW s \in Servers, NEW v \in Videos, ReadRetryCount(s, v)
  PROVE  Charges'
<1>1. UNCHANGED <<entry, job, faults>>
  BY DEF ReadRetryCount, Works
<1>2. /\ drain'[s].at = "counted" /\ drain'[s].tries = entry[v].tries
      /\ drain'[s].video = v /\ drain[s].video = v /\ drain[s].at = "refused"
      /\ \A t \in Servers \ {s} : drain'[t] = drain[t]
  <2>1. drain' = [drain EXCEPT ![s].at = "counted", ![s].tries = entry[v].tries]
    BY DEF ReadRetryCount
  <2>2. drain \in [Servers -> Drain] /\ drain[s].video = v /\ drain[s].at = "refused"
    BY DEF TypeOK, ReadRetryCount
  <2> QED
    BY <2>1, <2>2 DEF Drain
<1> SUFFICES ASSUME NEW w \in Videos, Charged(w) PROVE Charged(w)'
  BY <1>1 DEF Charges
<1>3. Refusals(w)' = Refusals(w)
  BY <1>2 DEF Refusals, Refuses
<1>4. ASSUME NEW t \in Refusals(w), drain'[t].at = "counted"
      PROVE  Cardinality(Refusals(w)) + drain'[t].tries <= faults
  <2>1. CASE t = s
    <3>1. w = v
      BY <1>2, <2>1 DEF Refusals, Refuses
    <3> QED
      BY <1>2, <2>1, <3>1 DEF Charged
  <2>2. CASE t # s
    BY <1>2, <1>4, <2>2 DEF Charged, Refusals
  <2> QED
    BY <2>1, <2>2
<1> QED
  BY <1>1, <1>3, <1>4 DEF Charged

\* The count is written: one drainer less to charge the entry.
LEMMA ChargesWritten ==
  ASSUME TypeOK, TypeOK', Charges, NEW s \in Servers, NEW v \in Videos, MarkOutboxFailed(s, v),
         faults' >= faults
  PROVE  Charges'
<1> DEFINE tries == drain[s].tries + 1
           row   == [state |-> AfterFailure(tries), tries |-> tries, passed |-> FALSE]
<1>1. drain[s].at = "counted" /\ drain[s].video = v /\ Marks(s, v, row) /\ job' = job
  BY DEF MarkOutboxFailed, Marks
<1>2. drain'[s] = [Resting EXCEPT !.batch = drain[s].batch \ {v}] /\ \A t \in Servers \ {s} : drain'[t] = drain[t]
  BY <1>1 DEF Marks, Done, TypeOK
<1>3. drain'[s].at = "idle"
  BY <1>2 DEF Resting
<1>4. row.tries = drain[s].tries + 1
  OBVIOUS
<1> HIDE DEF row
<1>5. /\ \A w \in Videos \ {v} : entry'[w] = entry[w]
      /\ entry'[v] = entry[v] \/ entry'[v] = row
  BY <1>1 DEF Marks, TypeOK
<1>6. faults \in Nat /\ faults' \in Nat
  BY DEF TypeOK
<1> SUFFICES ASSUME NEW w \in Videos, Charged(w) PROVE Charged(w)'
  BY <1>1 DEF Charges
<1>7. CASE w # v
  <2>1. Refusals(w)' \subseteq Refusals(w) /\ \A t \in Refusals(w)' : drain'[t] = drain[t]
    BY <1>2, <1>3 DEF Refusals, Refuses
  <2> QED
    BY <1>5, <1>7, <2>1, ChargedFewer
<1>8. CASE w = v
  <2>1. s \in Refusals(v) /\ Refusals(v)' = Refusals(v) \ {s}
    BY <1>1, <1>2, <1>3 DEF Refusals, Refuses
  <2>2. Cardinality(Refusals(v)') = Cardinality(Refusals(v)) - 1 /\ Cardinality(Refusals(v)) \in Nat
        /\ Cardinality(Refusals(v)') \in Nat
    BY <2>1, RefusalsFinite, FS_RemoveElement, FS_CardinalityType
  <2>3. Cardinality(Refusals(v)) + drain[s].tries <= faults
    BY <1>1, <1>8, <2>1 DEF Charged
  <2>4. Cardinality(Refusals(v)') + entry'[v].tries <= faults'
    BY <1>4, <1>5, <1>6, <1>8, <2>2, <2>3, DrainTypes DEF Charged
  <2>5. ASSUME NEW t \in Refusals(v)', drain'[t].at = "counted"
        PROVE  Cardinality(Refusals(v)') + drain'[t].tries <= faults'
    <3>1. t \in Refusals(v) /\ t \in Servers /\ drain'[t] = drain[t]
      BY <1>2, <2>1 DEF Refusals
    <3>2. Cardinality(Refusals(v)) + drain[t].tries <= faults /\ drain[t].tries \in Nat
      BY <1>8, <2>5, <3>1, DrainTypes DEF Charged
    <3> QED
      BY <1>6, <2>2, <3>1, <3>2
  <2> QED
    BY <1>8, <2>4, <2>5 DEF Charged
<1> QED
  BY <1>7, <1>8

\* Every step keeps the account of charges.
LEMMA ChargesStep == TypeOK /\ TypeOK' /\ Agreement /\ Charges /\ [Next]_vars => Charges'
<1> SUFFICES ASSUME TypeOK, TypeOK', Agreement, Charges, [Next]_vars PROVE Charges'
  OBVIOUS
<1>1. faults \in Nat /\ faults' \in Nat /\ faults' >= faults
  BY Accounted DEF Works, Fails, TypeOK, vars
<1>2. ASSUME UNCHANGED <<entry, drain, job>> PROVE Charges'
  BY <1>1, <1>2, ChargesFewer
<1>3. ASSUME NEW s \in Servers, NEW v \in Videos, CommitEnqueueOutbox(s, v) PROVE Charges'
  <2>1. UNCHANGED <<drain, job>>
    BY <1>3 DEF CommitEnqueueOutbox, draining
  <2>2. CASE entry' = entry
    BY <1>2, <2>1, <2>2
  <2>3. CASE entry' # entry
    <3>1. entry' = [entry EXCEPT ![v] = NewEntry]
      BY <1>3, <2>3 DEF CommitEnqueueOutbox, Emitted
    <3>2. entry'[v].tries = 0 /\ \A w \in Videos \ {v} : entry'[w] = entry[w]
      BY <3>1 DEF NewEntry, TypeOK
    <3> SUFFICES ASSUME NEW w \in Videos, Charged(w) PROVE Charged(w)'
      BY <2>1 DEF Charges
    <3>3. Refusals(w)' = Refusals(w)
      BY <2>1 DEF Refusals, Refuses
    <3>4. Cardinality(Refusals(w)) + entry'[w].tries <= faults'
      BY <1>1, <3>2, RefusalsFinite, DrainTypes DEF Charged
    <3>5. ASSUME NEW t \in Refusals(w), drain[t].at = "counted"
          PROVE  Cardinality(Refusals(w)) + drain[t].tries <= faults'
      <4>1. drain[t].tries \in Nat
        BY DrainTypes DEF Refusals
      <4> QED
        BY <1>1, <3>5, <4>1, RefusalsFinite DEF Charged
    <3> QED
      BY <2>1, <3>3, <3>4, <3>5 DEF Charged
  <2> QED
    BY <2>2, <2>3
<1>4. ASSUME NEW s \in Servers, CheckStep(s) PROVE Charges'
  BY <1>2, <1>3, <1>4, CheckIsQuiet DEF CheckStep
<1>5. ASSUME NEW s \in Servers, DrainOutbox(s) PROVE Charges'
  <2>1. job' = job /\ \A v \in Videos : entry'[v].tries = entry[v].tries
    <3>1. job' = job /\ entry' = [v \in Videos |-> IF v \in Claimable
                 THEN [entry[v] EXCEPT !.state = "dispatching", !.passed = FALSE] ELSE entry[v]]
      BY <1>5 DEF DrainOutbox
    <3>2. entry \in [Videos -> Entry]
      BY DEF TypeOK
    <3> QED
      BY <3>1, <3>2 DEF Entry
  <2>2. drain[s] = Resting /\ drain' = [drain EXCEPT ![s].batch = Claimable]
    BY <1>5 DEF DrainOutbox
  <2>3. drain \in [Servers -> Drain] /\ drain[s].at = "idle"
    BY <2>2 DEF TypeOK, Resting
  <2>4. drain'[s].at = "idle" /\ \A t \in Servers \ {s} : drain'[t] = drain[t]
    BY <2>2, <2>3 DEF Drain
  <2> QED
    BY <1>1, <2>1, <2>4, ChargesFewer
<1>6. ASSUME NEW s \in Servers, NEW v \in Videos, EnqueueExtract(s, v) PROVE Charges'
  <2>1. entry' = entry /\ drain[s].at = "idle"
    BY <1>6 DEF EnqueueExtract
  <2>2. \A w \in Videos : job[w].left => job'[w].left
    BY <1>6 DEF EnqueueExtract, Creates, TypeOK, Job
  <2>3. ASSUME NEW at \in {"told", "refused"}, Told(s, v, at)
        PROVE  /\ drain'[s].at = at /\ drain'[s].video = v
               /\ \A t \in Servers \ {s} : drain'[t] = drain[t]
    BY <2>3 DEF Told, TypeOK, Drain
  <2>4. CASE Told(s, v, "told")
    BY <1>1, <2>1, <2>2, <2>3, <2>4, ChargesFewer
  <2>5. CASE Told(s, v, "refused") /\ Fails
    BY <2>1, <2>2, <2>5, ChargesRefused DEF Fails
  <2>6. CASE ~Collides(v) /\ HoldsKey(v) /\ Told(s, v, "refused") /\ UNCHANGED job
    <3>1. job'[v].left
      BY <2>6 DEF Collides, HoldsKey, Agreement
    <3> SUFFICES ASSUME NEW w \in Videos \ {v}, Charged(w) PROVE Charged(w)'
      BY <2>6, <3>1 DEF Charges
    <3>2. \A t \in Refusals(w)' : t \in Refusals(w) /\ drain'[t] = drain[t]
      BY <2>3, <2>6 DEF Refusals, Refuses
    <3> QED
      BY <1>1, <2>1, <3>2, ChargedFewer
  <2> QED
    BY <1>6, <2>4, <2>5, <2>6 DEF EnqueueExtract
<1>7. ASSUME NEW s \in Servers, NEW v \in Videos, MarkOutboxDispatched(s, v) PROVE Charges'
  <2>1. job' = job /\ Done(s) /\ \A w \in Videos : entry'[w].tries = entry[w].tries
    <3>1. /\ job' = job /\ Done(s)
          /\ entry' = entry \/ entry' = [entry EXCEPT ![v] = [entry[v] EXCEPT !.state = "dispatched", !.passed = FALSE]]
      BY <1>7 DEF MarkOutboxDispatched, Marks
    <3>2. entry \in [Videos -> Entry]
      BY DEF TypeOK
    <3>3. [entry[v] EXCEPT !.state = "dispatched", !.passed = FALSE].tries = entry[v].tries
      BY <3>2 DEF Entry
    <3> QED
      BY <3>1, <3>2, <3>3
  <2>2. drain'[s].at = "idle" /\ \A t \in Servers \ {s} : drain'[t] = drain[t]
    BY <2>1 DEF Done, Resting, TypeOK
  <2> QED
    BY <1>1, <2>1, <2>2, ChargesFewer
<1>8. ASSUME NEW s \in Servers, DrainStep(s) PROVE Charges'
  BY <1>1, <1>5, <1>6, <1>7, <1>8, ChargesRead, ChargesWritten DEF DrainStep, Dispatch
<1>9. ASSUME NEW s \in Servers, Crash(s) PROVE Charges'
  <2>1. UNCHANGED <<entry, job>> /\ drain'[s] = Resting /\ \A t \in Servers \ {s} : drain'[t] = drain[t]
    BY <1>9 DEF Crash, TypeOK
  <2>2. drain'[s].at = "idle"
    BY <2>1 DEF Resting
  <2> QED
    BY <1>1, <2>1, <2>2, ChargesFewer
<1>10. ASSUME Outside PROVE Charges'
  <2>1. UNCHANGED drain
    BY <1>10 DEF Outside, ChannelTimer, Upload, LedgerTimer, EntryTimer, JobLeaves, JobComesBack, checks, draining
  <2>2. \A w \in Videos : entry'[w].tries = entry[w].tries
    <3>1. entry' = entry \/ \E v \in Videos : entry' = [entry EXCEPT ![v].passed = TRUE]
      BY <1>10 DEF Outside, ChannelTimer, Upload, LedgerTimer, EntryTimer, JobLeaves, JobComesBack
    <3>2. entry \in [Videos -> Entry]
      BY DEF TypeOK
    <3> QED
      BY <3>1, <3>2 DEF Entry
  <2>3. \A w \in Videos : job[w].left => job'[w].left
    <3>1. \/ job' = job
          \/ \E v \in Videos : job' = [job EXCEPT ![v].active = FALSE, ![v].left = TRUE]
          \/ \E v \in Videos : job' = [job EXCEPT ![v].active = TRUE]
      BY <1>10 DEF Outside, ChannelTimer, Upload, LedgerTimer, EntryTimer, JobLeaves, JobComesBack, draining
    <3>2. job \in [Videos -> Job]
      BY DEF TypeOK
    <3> QED
      BY <3>1, <3>2 DEF Job
  <2> QED
    BY <1>1, <2>1, <2>2, <2>3, ChargesFewer
<1> QED
  BY <1>2, <1>4, <1>8, <1>9, <1>10 DEF Next, vars

-----------------------------------------------------------------------------
\* The invariant holds of every behaviour of the channel monitor.
THEOREM MonitorInvariance == Spec => []IInv
<1>1. Init => IInv
  BY InitIInv
<1>2. IInv /\ [Next]_vars => IInv'
  BY TypeStep, BudgetStep, AgreeStep, ChargesStep DEF IInv
<1> QED
  BY <1>1, <1>2, PTL DEF Spec

\* Every variable of the channel monitor keeps its type; no entry is tried
\* more than MaxOutboxRetries times and no slot is returned twice.
THEOREM MonitorTyping == Spec => []TypeOK
<1>1. IInv => TypeOK
  BY DEF IInv
<1> QED
  BY <1>1, MonitorInvariance, PTL

\* A video has one extraction at most, and its ledger row, its outbox entry
\* and its job agree, whatever leases lapse and whoever hands it over.
THEOREM OneExtractionPerVideo == Spec => []OneExtraction
<1>1. IInv => OneExtraction
  BY DEF IInv, Agreement
<1> QED
  BY <1>1, MonitorInvariance, PTL

\* While its job has not left the active states an entry is charged for
\* failed calls only.
THEOREM AttemptsAreFailures == Spec => []ChargedForFailures
<1>1. IInv => ChargedForFailures
  <2> SUFFICES ASSUME IInv, NEW v \in Videos, Charged(v) PROVE entry[v].tries <= faults
    BY DEF IInv, Charges, ChargedForFailures
  <2> QED
    <3>1. entry[v].tries \in Nat /\ faults \in Nat
      BY DEF IInv, TypeOK, Entry
    <3> QED
      BY <3>1, RefusalsFinite DEF Charged
<1> QED
  BY <1>1, MonitorInvariance, PTL

\* One check never enqueues more videos than its budget.
THEOREM BudgetIsKept == Spec => []BudgetHolds
<1>1. IInv => BudgetHolds
  <2> SUFFICES ASSUME IInv, NEW s \in Servers, MaxVideosPerRun > 0
               PROVE  Cardinality({v \in Videos : work[s][v] = "enqueued"}) <= MaxVideosPerRun
    BY DEF BudgetHolds
  <2>1. {v \in Videos : work[s][v] = "enqueued"} \in SUBSET Slots(s)
    BY DEF Slots, Held
  <2>2. Cardinality({v \in Videos : work[s][v] = "enqueued"}) <= Cardinality(Slots(s))
    BY <2>1, SlotsFinite, FS_Subset
  <2>3. Cardinality({v \in Videos : work[s][v] = "enqueued"}) \in Nat
    BY <2>1, SlotsFinite, FS_Subset, FS_CardinalityType
  <2>4. Cardinality(Slots(s)) <= MaxVideosPerRun
    BY DEF IInv, Budget
  <2> QED
    BY <2>2, <2>3, <2>4, SlotsFinite, MonitorAssumption
<1> QED
  BY <1>1, MonitorInvariance, PTL
=============================================================================
