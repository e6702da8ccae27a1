---------------------------- MODULE ChannelMonitor ----------------------------
(***************************************************************************)
(* The YouTube channel monitor: one channel from its listing to the jobs   *)
(* that extract clips from its videos.                                     *)
(*                                                                         *)
(* A server that claims the channel lists the videos since the channel's   *)
(* cursor.  A goroutine per video analyses it, takes one of                *)
(* MaxVideosPerRun slots, reserves the video in the discovery ledger and   *)
(* commits, in one transaction, the ledger row as enqueued and an outbox   *)
(* entry.  At the end the cursor moves to the newest settled discovery.    *)
(* A drainer in every server claims entries and hands them to              *)
(* Service.Enqueue with an active key per video.                           *)
(*                                                                         *)
(* Two servers share the tables, under leases that may lapse while their   *)
(* holder still works; a server whose semaphore lets several channels      *)
(* check at once is as two servers here.  The clock counts days, which is  *)
(* all that the listing sees of the cursor.  All videos are ones that the  *)
(* filters and the analyser would take: the others leave no trace.         *)
(* Enqueue is one step: for requests with nothing but an active key,       *)
(* Admission shows that it answers with the key's job, creates it, or      *)
(* refuses because the job has left the active states.                     *)
(***************************************************************************)
EXTENDS Naturals, FiniteSets

CONSTANTS
  Servers,          \* processes with a scheduler and a drainer
  Videos,           \* videos of the channel
  Nobody, NoVideo,
  MaxVideosPerRun,  \* budget of one check; 0 is none
  MaxOutboxRetries, \* attempts to hand over an entry
  LastDay,          \* bound: days the model lasts
  MaxChecks,        \* bound: checks of the channel
  MaxFaults         \* bound: failed calls and crashes

ASSUME MonitorAssumption ==
  /\ IsFiniteSet(Servers) /\ IsFiniteSet(Videos)
  /\ Nobody \notin Servers /\ NoVideo \notin Videos
  /\ MaxVideosPerRun \in Nat /\ MaxOutboxRetries \in Nat \ {0}
  /\ LastDay \in Nat \ {0} /\ MaxChecks \in Nat /\ MaxFaults \in Nat

VARIABLES
  day,        \* today
  uploaded,   \* the day of each video, or NoDay
  channel,    \* row of category_channels
  check,      \* the check a server has under way
  work,       \* where each video is in it
  ledger,     \* rows of youtube_discoveries
  entry,      \* rows of monitor_enqueue_outbox
  drain,      \* the batch a drainer has claimed
  job,        \* the extraction jobs of each video's active key
  claims,     \* checks so far
  faults      \* failed calls and crashes so far

vars == <<day, uploaded, channel, check, work, ledger, entry, drain, job, claims, faults>>
checks == <<channel, check, work, ledger, claims>>
draining == <<drain, job>>
world == <<day, uploaded>>

(***************************************************************************)
(* State                                                                   *)
(***************************************************************************)
NoDay == 0
Days  == 1 .. LastDay

Unsettled == {"pending", "rejected_retryable"}
Settled   == {"enqueued", "rejected_terminal", "rejected_retryable"}
Active    == {"todo", "chosen", "won", "transient", "permanent"}

\* The discovery's day, and whether its lease or its backoff has passed.
Discovery == [state : {"none"} \cup Unsettled \cup Settled, day : Days \cup {NoDay}, passed : BOOLEAN]
Entry     == [state : {"none", "pending", "dispatching", "dispatched", "dead"},
              tries : 0 .. MaxOutboxRetries, passed : BOOLEAN]
Channel   == [due : BOOLEAN, owner : Servers \cup {Nobody}, lapsed : BOOLEAN, cursor : Days \cup {NoDay}]
Check     == [at : {"idle", "list", "stamp", "videos", "cursor", "report"},
              since : Days \cup {NoDay}, now : Days \cup {NoDay}, used : Nat]
Drain     == [batch : SUBSET Videos, at : {"idle", "told", "refused", "counted"},
              video : Videos \cup {NoVideo}, tries : 0 .. MaxOutboxRetries]
Job       == [made : Nat, active : BOOLEAN, left : BOOLEAN]

Idle     == [at |-> "idle", since |-> NoDay, now |-> NoDay, used |-> 0]
Resting  == [batch |-> {}, at |-> "idle", video |-> NoVideo, tries |-> 0]
Untouched == [v \in Videos |-> "none"]

Fails == faults < MaxFaults /\ faults' = faults + 1
Works == UNCHANGED faults

\* Days pass unseen until somebody asks for the time.
LooksAtClock == \E d \in Days : d >= day /\ day' = d

(***************************************************************************)
(* The check of the channel                                                *)
(***************************************************************************)
At(s, place)   == check[s].at = place
Reports(s)     == check' = [check EXCEPT ![s] = [Idle EXCEPT !.at = "report"]]

ClaimDue(s) ==
  /\ At(s, "idle") /\ channel.due /\ (channel.owner = Nobody \/ channel.lapsed)
  /\ channel' = [channel EXCEPT !.owner = s, !.lapsed = FALSE]
  /\ check' = [check EXCEPT ![s] = [Idle EXCEPT !.at = "list", !.since = channel.cursor]]
  /\ claims < MaxChecks /\ claims' = claims + 1
  /\ Works /\ UNCHANGED <<world, work, ledger, entry, draining>>

\* The date filter of the listing is inclusive.
ListVideos(s) ==
  /\ At(s, "list")
  /\ \/ /\ Works /\ check' = [check EXCEPT ![s] = [Idle EXCEPT !.at = "stamp"]]
        /\ work' = [work EXCEPT ![s] = [v \in Videos |->
             IF uploaded[v] # NoDay /\ uploaded[v] >= check[s].since THEN "todo" ELSE "none"]]
     \/ Fails /\ Reports(s) /\ UNCHANGED work
  /\ UNCHANGED <<world, channel, ledger, entry, draining, claims>>

\* cycleNow, the day of this check's discoveries.
StampCycle(s) ==
  /\ At(s, "stamp")
  /\ LooksAtClock
  /\ check' = [check EXCEPT ![s].at = "videos", ![s].now = day']
  /\ Works /\ UNCHANGED <<uploaded, channel, work, ledger, entry, draining, claims>>

Moves(s, v, place) == work' = [work EXCEPT ![s][v] = place]
\* The video ends without a job: its slot is free again.
GivesUp(s, v) ==
  /\ Moves(s, v, "over")
  /\ check' = [check EXCEPT ![s].used = @ - 1]

\* One atomic compare and swap.
BudgetLeft(s) == MaxVideosPerRun = 0 \/ check[s].used < MaxVideosPerRun

\* The analysis, then the budget.
Analyse(s, v) ==
  /\ At(s, "videos") /\ work[s][v] = "todo"
  /\ \/ /\ Works
        /\ IF BudgetLeft(s) THEN Moves(s, v, "chosen") /\ check' = [check EXCEPT ![s].used = @ + 1]
                            ELSE Moves(s, v, "over") /\ UNCHANGED check
     \/ Fails /\ Moves(s, v, "over") /\ UNCHANGED check
  /\ UNCHANGED <<world, channel, ledger, entry, draining, claims>>

\* The row of a new video, or of one whose lease or backoff has passed.
Reservable(v) == ledger[v].state = "none" \/ (ledger[v].state \in Unsettled /\ ledger[v].passed)

\* One insert and two updates, each of which compares and swaps.
TryReserve(s, v) ==
  /\ work[s][v] = "chosen"
  /\ \/ /\ Reservable(v) /\ Works /\ Moves(s, v, "won")
        /\ LooksAtClock
        /\ ledger' = [ledger EXCEPT ![v] = [state |-> "pending", passed |-> FALSE,
             day |-> IF ledger[v].state = "none" THEN check[s].now ELSE day']]
        /\ UNCHANGED check
     \/ ~Reservable(v) /\ Works /\ GivesUp(s, v) /\ UNCHANGED <<day, ledger>>
     \/ Fails /\ GivesUp(s, v) /\ UNCHANGED <<day, ledger>>
  /\ UNCHANGED <<uploaded, channel, entry, draining, claims>>

NewEntry == [state |-> "pending", tries |-> 0, passed |-> TRUE]
Emitted(v) == IF entry[v].state = "none" THEN [entry EXCEPT ![v] = NewEntry] ELSE entry

\* One transaction; a row that is enqueued already is a success.
CommitEnqueueOutbox(s, v) ==
  /\ work[s][v] = "won"
  /\ \/ /\ ledger[v].state = "pending" /\ Works /\ Moves(s, v, "enqueued")
        /\ ledger' = [ledger EXCEPT ![v].state = "enqueued", ![v].passed = FALSE]
        /\ entry' = Emitted(v)
     \/ ledger[v].state = "enqueued" /\ Works /\ Moves(s, v, "enqueued") /\ UNCHANGED <<ledger, entry>>
     \/ ledger[v].state \notin {"pending", "enqueued"} /\ Works /\ Moves(s, v, "permanent")
          /\ UNCHANGED <<ledger, entry>>
     \/ \E how \in {"transient", "permanent"} : Fails /\ Moves(s, v, how) /\ UNCHANGED <<ledger, entry>>
  /\ UNCHANGED <<world, channel, check, draining, claims>>

Rejected(v, how) ==
  CASE how = "transient" /\ ledger[v].state = "pending" ->
         [ledger EXCEPT ![v].state = "rejected_retryable", ![v].passed = FALSE]
    [] how = "permanent" /\ ledger[v].state \in Unsettled ->
         [ledger EXCEPT ![v].state = "rejected_terminal", ![v].passed = FALSE]
    [] OTHER -> ledger

MarkRejected(s, v) ==
  /\ work[s][v] \in {"transient", "permanent"}
  /\ \/ Works /\ ledger' = Rejected(v, work[s][v])
     \/ Fails /\ UNCHANGED ledger
  /\ GivesUp(s, v)
  /\ UNCHANGED <<world, channel, entry, draining, claims>>

SettledDays == {ledger[v].day : v \in {w \in Videos : ledger[w].state \in Settled}}

\* recordCycleEndWatermark: the newest settled discovery is read here, and
\* written to the cursor in a step of its own.
ReadWatermark(s) ==
  /\ At(s, "videos") /\ \A v \in Videos : work[s][v] \notin Active
  /\ \/ /\ Works
        /\ \/ SettledDays = {} /\ Reports(s)
           \/ \E d \in SettledDays :
                /\ \A e \in SettledDays : e <= d
                /\ check' = [check EXCEPT ![s] = [Idle EXCEPT !.at = "cursor", !.now = d]]
     \/ Fails /\ Reports(s)
  /\ work' = [work EXCEPT ![s] = Untouched]
  /\ UNCHANGED <<world, channel, ledger, entry, draining, claims>>

UpdateCursor(s) ==
  /\ At(s, "cursor") /\ Reports(s)
  /\ \/ Works /\ channel' = [channel EXCEPT !.cursor = check[s].now]
     \/ Fails /\ UNCHANGED channel
  /\ UNCHANGED <<world, work, ledger, entry, draining, claims>>

\* Fenced by the lease; it also sets the time of the next check.
MarkChecked(s) ==
  /\ At(s, "report")
  /\ \/ /\ Works
        /\ channel' = IF channel.owner = s THEN [channel EXCEPT !.owner = Nobody, !.lapsed = FALSE, !.due = FALSE] ELSE channel
     \/ Fails /\ UNCHANGED channel
  /\ check' = [check EXCEPT ![s] = Idle]
  /\ UNCHANGED <<world, work, ledger, entry, draining, claims>>

(***************************************************************************)
(* The outbox drainer                                                      *)
(***************************************************************************)
Stuck     == {v \in Videos : entry[v].state = "dispatching" /\ entry[v].passed}
\* Mutant: entries that were left dispatching are not looked for.
ClaimablePending == {v \in Videos : entry[v].state = "pending" /\ entry[v].passed}
Claimable == {v \in Videos : entry[v].state = "pending" /\ entry[v].passed} \cup Stuck

\* drainOutboxOnce: stuck entries go back to pending, then every pending
\* entry that is due is claimed.  Their limits of 5 and 10 are not reached.
DrainOutbox(s) ==
  /\ drain[s] = Resting /\ Claimable # {}
  /\ entry' = [v \in Videos |-> IF v \in Claimable
                 THEN [entry[v] EXCEPT !.state = "dispatching", !.passed = FALSE] ELSE entry[v]]
  /\ drain' = [drain EXCEPT ![s].batch = Claimable]
  /\ Works /\ UNCHANGED <<world, checks, job>>

Told(s, v, at) == drain' = [drain EXCEPT ![s].at = at, ![s].video = v]

\* Mutant: the index forgets the key of a job that has left.
HoldsKeyActive(v) == job[v].active
\* The unique index keeps the active key of every job.
HoldsKey(v)       == job[v].made > 0
Creates(v) == job' = [job EXCEPT ![v].made = @ + 1, ![v].active = TRUE]

\* Mutant: a key that an active job holds is an error.
CollisionIsError(v) == FALSE
Collides(v)         == job[v].active

\* Looks the key up, then enqueues.
EnqueueExtract(s, v) ==
  /\ v \in drain[s].batch /\ drain[s].at = "idle"
  /\ \/ Collides(v) /\ Works /\ Told(s, v, "told") /\ UNCHANGED job
     \/ ~Collides(v) /\ ~HoldsKey(v) /\ Works /\ Creates(v) /\ Told(s, v, "told")
     \/ ~Collides(v) /\ HoldsKey(v) /\ Works /\ Told(s, v, "refused") /\ UNCHANGED job
     \/ Fails /\ Told(s, v, "refused") /\ UNCHANGED job
     \/ ~HoldsKey(v) /\ Fails /\ Creates(v) /\ Told(s, v, "refused")
  /\ UNCHANGED <<world, checks, entry>>

Done(s) == drain' = [drain EXCEPT ![s] = [Resting EXCEPT !.batch = drain[s].batch \ {drain[s].video}]]

\* An update, without effect unless the entry is dispatching, or a failure.
Marks(s, v, row) ==
  /\ \/ Works /\ entry' = IF entry[v].state = "dispatching" THEN [entry EXCEPT ![v] = row] ELSE entry
     \/ Fails /\ UNCHANGED entry
  /\ Done(s)
  /\ UNCHANGED <<world, checks, job>>

MarkOutboxDispatched(s, v) ==
  /\ drain[s].at = "told" /\ drain[s].video = v
  /\ Marks(s, v, [entry[v] EXCEPT !.state = "dispatched", !.passed = FALSE])

\* The count is read in one statement and written in another.
ReadRetryCount(s, v) ==
  /\ drain[s].at = "refused" /\ drain[s].video = v
  /\ drain' = [drain EXCEPT ![s].at = "counted", ![s].tries = entry[v].tries]
  /\ Works /\ UNCHANGED <<world, checks, entry, job>>

\* Mutant: the last failure puts the entry back like the others.
NeverDead(tries) == "pending"
AfterFailure(tries) == IF tries >= MaxOutboxRetries THEN "dead" ELSE "pending"

MarkOutboxFailed(s, v) ==
  LET tries == drain[s].tries + 1
  IN  /\ drain[s].at = "counted" /\ drain[s].video = v
      /\ Marks(s, v, [state |-> AfterFailure(tries), tries |-> tries, passed |-> FALSE])

(***************************************************************************)
(* Crashes, timers, the channel and the extraction jobs                    *)
(***************************************************************************)
Crash(s) ==
  /\ check[s] # Idle \/ drain[s] # Resting
  /\ Fails
  /\ check' = [check EXCEPT ![s] = Idle]
  /\ work' = [work EXCEPT ![s] = Untouched]
  /\ drain' = [drain EXCEPT ![s] = Resting]
  /\ UNCHANGED <<world, channel, ledger, entry, job, claims>>

Upload(v) ==
  /\ uploaded[v] = NoDay
  /\ LooksAtClock
  /\ uploaded' = [uploaded EXCEPT ![v] = day']
  /\ Works /\ UNCHANGED <<checks, entry, draining>>

ChannelTimer ==
  /\ claims < MaxChecks
  /\ \/ ~channel.due /\ channel' = [channel EXCEPT !.due = TRUE]
     \/ channel.owner # Nobody /\ ~channel.lapsed /\ channel' = [channel EXCEPT !.lapsed = TRUE]
  /\ Works /\ UNCHANGED <<world, check, work, ledger, entry, draining, claims>>

LedgerTimer(v) ==
  /\ ledger[v].state \in Unsettled /\ ~ledger[v].passed
  /\ ledger' = [ledger EXCEPT ![v].passed = TRUE]
  /\ Works /\ UNCHANGED <<world, channel, check, work, entry, draining, claims>>

EntryTimer(v) ==
  /\ entry[v].state \in {"pending", "dispatching"} /\ ~entry[v].passed
  /\ entry' = [entry EXCEPT ![v].passed = TRUE]
  /\ Works /\ UNCHANGED <<world, checks, draining>>

\* The job waits for a retry or ends; it may come back by itself or by hand.
JobLeaves(v) ==
  /\ job[v].active /\ job' = [job EXCEPT ![v].active = FALSE, ![v].left = TRUE]
  /\ Works /\ UNCHANGED <<world, checks, entry, drain>>
JobComesBack(v) ==
  /\ HoldsKey(v) /\ ~job[v].active /\ job' = [job EXCEPT ![v].active = TRUE]
  /\ Works /\ UNCHANGED <<world, checks, entry, drain>>

Init ==
  /\ day = 1
  /\ uploaded = [v \in Videos |-> NoDay]
  /\ channel = [due |-> TRUE, owner |-> Nobody, lapsed |-> FALSE, cursor |-> NoDay]
  /\ check = [s \in Servers |-> Idle]
  /\ work = [s \in Servers |-> Untouched]
  /\ ledger = [v \in Videos |-> [state |-> "none", day |-> NoDay, passed |-> FALSE]]
  /\ entry = [v \in Videos |-> [state |-> "none", tries |-> 0, passed |-> FALSE]]
  /\ drain = [s \in Servers |-> Resting]
  /\ job = [v \in Videos |-> [made |-> 0, active |-> FALSE, left |-> FALSE]]
  /\ claims = 0
  /\ faults = 0

CheckStep(s) ==
  \/ ClaimDue(s) \/ ListVideos(s) \/ StampCycle(s)
  \/ \E v \in Videos :
       Analyse(s, v) \/ TryReserve(s, v) \/ CommitEnqueueOutbox(s, v) \/ MarkRejected(s, v)
  \/ ReadWatermark(s) \/ UpdateCursor(s) \/ MarkChecked(s)

Dispatch(s, v) ==
  EnqueueExtract(s, v) \/ MarkOutboxDispatched(s, v) \/ ReadRetryCount(s, v) \/ MarkOutboxFailed(s, v)
DrainStep(s) == DrainOutbox(s) \/ \E v \in Videos : Dispatch(s, v)

Outside ==
  \/ ChannelTimer
  \/ \E v \in Videos : Upload(v) \/ LedgerTimer(v) \/ EntryTimer(v) \/ JobLeaves(v) \/ JobComesBack(v)

Next == Outside \/ \E s \in Servers : CheckStep(s) \/ DrainStep(s) \/ Crash(s)

\* A drainer runs every five seconds; timers pass.
Fairness == \A s \in Servers : WF_vars(DrainStep(s)) /\ \A v \in Videos : WF_vars(EntryTimer(v))

Spec == Init /\ [][Next]_vars
FairSpec == Spec /\ Fairness

(***************************************************************************)
(* Properties                                                              *)
(***************************************************************************)
\* Types.
TypeOK ==
  /\ day \in Days /\ uploaded \in [Videos -> Days \cup {NoDay}]
  /\ channel \in Channel
  /\ check \in [Servers -> Check]
  /\ work \in [Servers -> [Videos -> Active \cup {"none", "enqueued", "over"}]]
  /\ ledger \in [Videos -> Discovery]
  /\ entry \in [Videos -> Entry]
  /\ drain \in [Servers -> Drain]
  /\ job \in [Videos -> Job]
  /\ claims \in 0 .. MaxChecks /\ faults \in 0 .. MaxFaults

\* However its goroutines interleave, one check enqueues at most
\* MaxVideosPerRun videos.
BudgetHolds ==
  \A s \in Servers : MaxVideosPerRun > 0 =>
    Cardinality({v \in Videos : work[s][v] = "enqueued"}) <= MaxVideosPerRun

\* A video has one job at most, whichever server wins the reservation, loses
\* its lease, or hands the entry over again; and what the tables say of it
\* agrees: a job only for an entry, an entry only for an enqueued discovery,
\* and none without one, and no entry dispatched without a job.
OneExtraction ==
  \A v \in Videos :
    /\ job[v].made <= 1
    /\ job[v].made = 1 => entry[v].state # "none"
    /\ entry[v].state # "none" <=> ledger[v].state = "enqueued"
    /\ entry[v].state = "dispatched" => job[v].made = 1

\* While its job has not left the active states, an entry is charged only for
\* calls that really failed: handing it over twice, late or by two drainers
\* costs no attempt and kills no entry.
ChargedForFailures == \A v \in Videos : job[v].left \/ entry[v].tries <= faults

\* An entry is dispatched or dead in the end.
EntrySettles ==
  \A v \in Videos : entry[v].state \in {"pending", "dispatching"} ~> entry[v].state \in {"dispatched", "dead"}
=============================================================================
