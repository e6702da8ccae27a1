---------------------------- MODULE OutboxProofs ----------------------------
(***************************************************************************)
(* Theorems of Outbox, for every set of events and workers, every maximum  *)
(* of attempts and every bound.                                            *)
(*                                                                         *)
(* The invariant has a part for each event (its columns, its accounts and, *)
(* once it is settled, the report that settled it) and a part for each     *)
(* busy worker (its lease was handed out for its event, its report is on   *)
(* record, and the attempt count it read is still the row's for as long as *)
(* it owns the row).                                                       *)
(***************************************************************************)
EXTENDS Outbox, FiniteSetTheorems, TLAPS

\* TypeOK without the lease columns, which EventOK has.
Types ==
  /\ row \in [Events -> Row]
  /\ worker \in [Workers -> {Idle} \cup Holding]
  /\ reports \subseteq Report
  /\ tally \in [Events -> Tally]
  /\ faults \in 0 .. MaxFaults

\* The newest claim of the event reported what the status says.
Justified(e) ==
  \E r \in reports : /\ r.event = e
                     /\ r.lease = tally[e].claims
                     /\ r.outcome \in Promise!Grounds(Fate(e))

EventOK(e) ==
  /\ row[e].status = "absent" =>
       /\ row[e].lease = NoLease /\ row[e].expiry = "null" /\ row[e].attempts = 0
       /\ tally[e].failed = 0 /\ tally[e].lapsed = 0
  /\ row[e].status = "pending" =>
       /\ row[e].lease = NoLease /\ row[e].expiry = "null"
       /\ row[e].attempts = tally[e].failed + tally[e].lapsed
       /\ tally[e].failed < MaxAttempts
  /\ row[e].status = "processing" =>
       /\ row[e].lease = tally[e].claims /\ row[e].lease # NoLease
       /\ row[e].attempts = tally[e].failed + tally[e].lapsed + 1
       /\ tally[e].failed < MaxAttempts
  /\ row[e].status \in Settled => Justified(e)

WorkerOK(w) == Busy(w) =>
  LET e == worker[w].event IN
  /\ worker[w].lease \in 1 .. tally[e].claims
  /\ row[e].status # "absent"
  /\ worker[w].phase \in {"returned", "counted"} =>
       [event |-> e, lease |-> worker[w].lease, outcome |-> worker[w].outcome] \in reports
  /\ worker[w].phase = "counted" =>
       /\ worker[w].outcome = "retry"
       /\ Owns(w) => worker[w].spent = (row[e].attempts >= MaxAttempts)

IInv == /\ Types
        /\ \A e \in Events : EventOK(e)
        /\ \A w \in Workers : WorkerOK(w)

-----------------------------------------------------------------------------
\* The invariant implies the properties the runs check.
LEMMA Implied == IInv => TypeOK /\ VerdictIsTheLastRuns /\ FailuresWithinBudget
<1> SUFFICES ASSUME IInv PROVE TypeOK /\ VerdictIsTheLastRuns /\ FailuresWithinBudget
  OBVIOUS
<1>1. TypeOK
  BY DEF IInv, Types, EventOK, TypeOK
<1>2. VerdictIsTheLastRuns
  BY DEF IInv, EventOK, Justified, VerdictIsTheLastRuns
<1>3. FailuresWithinBudget
  BY DEF IInv, EventOK, FailuresWithinBudget
<1> QED
  BY <1>1, <1>2, <1>3

\* The invariant holds of an outbox without events.
LEMMA InitIInv == Init => IInv
<1> SUFFICES ASSUME Init PROVE IInv
  OBVIOUS
<1>1. Types
  BY OutboxAssumption DEF Init, Types, NoRow, NoTally, NoLease, Row, Tally, Statuses
<1>2. ASSUME NEW e \in Events PROVE EventOK(e)
  BY DEF Init, EventOK, NoRow, NoTally, NoLease, Settled
<1>3. ASSUME NEW w \in Workers PROVE WorkerOK(w)
  BY DEF Init, WorkerOK, Busy, Idle
<1> QED
  BY <1>1, <1>2, <1>3 DEF IInv

-----------------------------------------------------------------------------
\* Frame: an event whose row and tally stay keeps its part of the invariant,
\* reports being only added.
LEMMA EventKept ==
  ASSUME NEW e \in Events, EventOK(e), row'[e] = row[e], tally'[e] = tally[e],
         reports \subseteq reports'
  PROVE  EventOK(e)'
<1>1. Fate(e)' = Fate(e)
  BY DEF Fate
<1>2. Justified(e) => Justified(e)'
  BY <1>1 DEF Justified, Promise!Grounds
<1> QED
  BY <1>2 DEF EventOK

\* Frame: a worker that does not move keeps its part if its event's claims do
\* not shrink, its row does not vanish, and the row's attempts stay for as
\* long as it owns the row.
LEMMA WorkerKept ==
  ASSUME NEW w \in Workers, WorkerOK(w), Types, worker'[w] = worker[w],
         reports \subseteq reports', Types',
         Busy(w) =>
           LET e == worker[w].event IN
           /\ tally'[e].claims >= tally[e].claims
           /\ row[e].status # "absent" => row'[e].status # "absent"
           /\ Owns(w)' => Owns(w) /\ row'[e].attempts = row[e].attempts
  PROVE  WorkerOK(w)'
<1> SUFFICES ASSUME Busy(w) PROVE WorkerOK(w)'
  BY DEF WorkerOK, Busy
<1>1. Busy(w)' /\ worker[w] \in Holding /\ worker[w].event \in Events
  BY DEF Types, Busy, Idle, Holding
<1>2. tally[worker[w].event].claims \in Nat /\ tally'[worker[w].event].claims \in Nat
      /\ worker[w].lease \in Nat
  BY <1>1 DEF Types, Tally, Holding
<1>3. worker'[w].lease \in 1 .. tally'[worker'[w].event].claims
  BY <1>2 DEF WorkerOK
<1> QED
  BY <1>1, <1>3 DEF WorkerOK

\* Frame: a row that stays with its claims leaves every worker's fence as it was.
LEMMA FenceKept ==
  ASSUME NEW w \in Workers, worker'[w] = worker[w],
         row'[worker[w].event] = row[worker[w].event]
  PROVE  Owns(w)' = Owns(w)
BY DEF Owns

\* The end of a call: the caller becomes idle, and if it owned the row the row
\* leaves processing with a part of the invariant that holds.
LEMMA FinishStep ==
  ASSUME IInv, NEW w \in Workers, Busy(w), NEW e \in Events, e = worker[w].event,
         NEW r, NEW t, Finish(w, r, t),
         Owns(w) => /\ r \in Row /\ r.status \notin {"absent", "processing"}
                    /\ t \in Tally /\ t.claims = tally[e].claims
                    /\ EventOK(e)'
  PROVE  IInv'
<1>1. Types
  BY DEF IInv
<1>2. reports' = reports /\ faults' = faults /\ worker' = [worker EXCEPT ![w] = Idle]
  BY DEF Finish
<1>3. \/ row' = [row EXCEPT ![e] = r] /\ tally' = [tally EXCEPT ![e] = t] /\ Owns(w)
      \/ row' = row /\ tally' = tally /\ ~Owns(w)
  BY DEF Finish
<1>4. Types'
  BY <1>1, <1>2, <1>3 DEF Types
<1>5. ASSUME NEW f \in Events PROVE EventOK(f)'
  <2>1. CASE f = e /\ Owns(w)
    BY <2>1
  <2>2. CASE ~(f = e /\ Owns(w))
    <3>1. row'[f] = row[f] /\ tally'[f] = tally[f]
      BY <1>1, <1>3, <2>2 DEF Types
    <3> QED BY <1>2, <3>1, EventKept DEF IInv
  <2> QED BY <2>1, <2>2
<1>6. ASSUME NEW v \in Workers PROVE WorkerOK(v)'
  <2>1. CASE v = w
    BY <1>1, <1>2, <2>1 DEF Types, WorkerOK, Busy, Idle
  <2>2. CASE v # w
    <3>1. worker'[v] = worker[v]
      BY <1>1, <1>2, <2>2 DEF Types
    <3>2. ASSUME Busy(v) PROVE LET f == worker[v].event IN
                        /\ tally'[f].claims >= tally[f].claims
                        /\ row[f].status # "absent" => row'[f].status # "absent"
                        /\ Owns(v)' => Owns(v) /\ row'[f].attempts = row[f].attempts
      <4> DEFINE f == worker[v].event
      <4>1. f \in Events
        BY <1>1, <3>2 DEF Types, Busy, Holding, Idle
      <4>2. tally[f].claims \in Nat /\ tally'[f].claims \in Nat
        BY <1>1, <1>4, <4>1 DEF Types, Tally
      <4>3. CASE f = e /\ Owns(w)
        <5>1. row'[f] = r /\ tally'[f] = t
          BY <1>1, <1>3, <4>3 DEF Types
        <5>2. ~Owns(v)'
          BY <3>1, <4>3, <5>1 DEF Owns
        <5> QED BY <4>2, <4>3, <5>1, <5>2
      <4>4. CASE ~(f = e /\ Owns(w))
        <5>1. row'[f] = row[f] /\ tally'[f] = tally[f]
          BY <1>1, <1>3, <4>1, <4>4 DEF Types
        <5>2. Owns(v)' = Owns(v)
          BY <3>1, <5>1, FenceKept
        <5> QED BY <4>2, <5>1, <5>2
      <4> QED BY <4>3, <4>4
    <3> QED BY <1>1, <1>2, <1>4, <3>1, <3>2, WorkerKept DEF IInv
  <2> QED BY <2>1, <2>2
<1> QED
  BY <1>4, <1>5, <1>6 DEF IInv

\* What Released makes of a row, and the columns written over it.
LEMMA ReleasedRow ==
  ASSUME NEW r \in Row, NEW st \in Statuses
  PROVE  /\ Released(r, st) \in Row
         /\ Released(r, st).status = st /\ Released(r, st).lease = NoLease
         /\ Released(r, st).expiry = "null" /\ Released(r, st).attempts = r.attempts
         /\ [Released(r, st) EXCEPT !.due = FALSE] \in Row
         /\ [r EXCEPT !.status = st] \in Row
BY DEF Released, Row, NoLease

\* What the owner of a row knows of it.
LEMMA OwnerKnows ==
  ASSUME IInv, NEW w \in Workers, Busy(w)
  PROVE  LET e == worker[w].event IN
         /\ e \in Events /\ worker[w] \in Holding
         /\ row[e] \in Row /\ tally[e] \in Tally
         /\ Owns(w) => /\ row[e].status = "processing"
                       /\ worker[w].lease = tally[e].claims
                       /\ row[e].attempts = tally[e].failed + tally[e].lapsed + 1
                       /\ tally[e].failed < MaxAttempts
BY DEF IInv, Types, Busy, Holding, Idle, EventOK, Owns

\* A call that settles the row with the outcome its worker reported.
LEMMA SettleStep ==
  ASSUME IInv, NEW w \in Workers, Busy(w), NEW e \in Events, e = worker[w].event,
         worker[w].phase \in {"returned", "counted"},
         NEW st \in Settled, NEW r \in Row, r.status = st,
         NEW t \in Tally, t.claims = tally[e].claims,
         \/ st = "completed" /\ worker[w].outcome = "ok"
         \/ st = "superseded" /\ worker[w].outcome = "superseded"
         \/ st = "dead_letter" /\ worker[w].outcome \in {"terminal", "retry"},
         Finish(w, r, t)
  PROVE  IInv'
<1>1. ASSUME Owns(w) PROVE EventOK(e)'
  <2>1. row'[e] = r /\ tally'[e] = t /\ reports' = reports
    BY <1>1 DEF Finish, IInv, Types
  <2>2. [event |-> e, lease |-> worker[w].lease, outcome |-> worker[w].outcome] \in reports
    BY DEF IInv, WorkerOK
  <2>3. worker[w].lease = tally[e].claims
    BY <1>1, OwnerKnows
  <2>4. worker[w].outcome \in Promise!Grounds(Fate(e)')
    BY <2>1 DEF Promise!Grounds, Fate
  <2>5. Justified(e)'
    BY <2>1, <2>2, <2>3, <2>4 DEF Justified
  <2> QED BY <2>1, <2>5 DEF EventOK, Settled
<1> QED
  BY <1>1, FinishStep DEF Settled

\* The verdicts, one by one: completed,
LEMMA MarkCompletedStep ==
  ASSUME IInv, NEW w \in Workers, MarkCompleted(w)
  PROVE  IInv'
<1> DEFINE e == worker[w].event
<1>1. Busy(w) /\ worker[w].phase = "returned" /\ worker[w].outcome = "ok"
  BY DEF MarkCompleted, Returned, Busy
<1>2. e \in Events /\ row[e] \in Row /\ tally[e] \in Tally
  BY <1>1, OwnerKnows
<1>3. [row[e] EXCEPT !.status = "completed"] \in Row
      /\ [row[e] EXCEPT !.status = "completed"].status = "completed"
  BY <1>2 DEF Row, Statuses, Settled
<1> QED
  BY <1>1, <1>2, <1>3, SettleStep DEF MarkCompleted, Settled

\* superseded,
LEMMA MarkSupersededStep ==
  ASSUME IInv, NEW w \in Workers, MarkSuperseded(w)
  PROVE  IInv'
<1> DEFINE e == worker[w].event
<1>1. Busy(w) /\ worker[w].phase = "returned" /\ worker[w].outcome = "superseded"
  BY DEF MarkSuperseded, Returned, Busy
<1>2. e \in Events /\ row[e] \in Row /\ tally[e] \in Tally
  BY <1>1, OwnerKnows
<1>3. Released(row[e], "superseded") \in Row /\ Released(row[e], "superseded").status = "superseded"
  BY <1>2, ReleasedRow DEF Statuses, Settled
<1> QED
  BY <1>1, <1>2, <1>3, SettleStep DEF MarkSuperseded, Settled

\* dead-lettered at once,
LEMMA MarkDeadLetterStep ==
  ASSUME IInv, NEW w \in Workers, MarkDeadLetter(w)
  PROVE  IInv'
<1> DEFINE e == worker[w].event
<1>1. Busy(w) /\ worker[w].phase = "returned" /\ worker[w].outcome = "terminal"
  BY DEF MarkDeadLetter, Returned, Busy
<1>2. e \in Events /\ row[e] \in Row /\ tally[e] \in Tally
  BY <1>1, OwnerKnows
<1>3. Released(row[e], "dead_letter") \in Row /\ Released(row[e], "dead_letter").status = "dead_letter"
  BY <1>2, ReleasedRow DEF Statuses, Settled
<1> QED
  BY <1>1, <1>2, <1>3, SettleStep DEF MarkDeadLetter, Settled

\* deferred, with the attempt refunded,
LEMMA MarkDeferredStep ==
  ASSUME IInv, NEW w \in Workers, MarkDeferred(w)
  PROVE  IInv'
<1>1. Busy(w)
  BY DEF MarkDeferred, Returned, Busy
<1>2. PICK e \in Events : e = worker[w].event /\ row[e] \in Row /\ tally[e] \in Tally
  BY <1>1, OwnerKnows
<1> DEFINE q == Released(row[e], "pending")
           r == [q EXCEPT !.due = FALSE, !.attempts = Refunded(row[e])]
           t == [tally[e] EXCEPT !.deferred = @ + 1]
<1>3. Finish(w, r, t)
  BY <1>2 DEF MarkDeferred
<1>4. Refunded(row[e]) \in Nat
  BY <1>2 DEF Refunded, Row
<1>5. q \in Row /\ q.status = "pending" /\ q.lease = NoLease /\ q.expiry = "null"
  BY <1>2, ReleasedRow DEF Statuses
<1>6. /\ r \in Row /\ r.status = "pending" /\ r.lease = NoLease /\ r.expiry = "null"
      /\ r.attempts = Refunded(row[e])
  <2> HIDE DEF q
  <2> QED BY <1>4, <1>5 DEF Row
<1>7. /\ t \in Tally /\ t.claims = tally[e].claims /\ t.failed = tally[e].failed
      /\ t.lapsed = tally[e].lapsed
  BY <1>2 DEF Tally
<1>8. ASSUME Owns(w) PROVE EventOK(e)'
  <2>1. row'[e] = r /\ tally'[e] = t
    BY <1>2, <1>3, <1>8 DEF Finish, IInv, Types
  <2>2. r.attempts = tally[e].failed + tally[e].lapsed /\ tally[e].failed < MaxAttempts
    BY <1>1, <1>2, <1>6, <1>8, OwnerKnows DEF Refunded, Row, Tally
  <2> HIDE DEF r, t
  <2> QED BY <1>6, <1>7, <2>1, <2>2 DEF EventOK, Settled
<1> HIDE DEF r, t
<1> QED
  BY <1>1, <1>2, <1>3, <1>6, <1>7, <1>8, FinishStep

\* failed, which reads the attempts first
LEMMA MarkFailedReadStep ==
  ASSUME IInv, NEW w \in Workers, MarkFailedRead(w)
  PROVE  IInv'
<1>1. /\ Busy(w) /\ worker[w].phase = "returned" /\ worker[w].outcome = "retry"
      /\ UNCHANGED <<row, reports, tally, faults>>
  BY DEF MarkFailedRead, Returned, Busy
<1>2. PICK e \in Events : e = worker[w].event /\ worker[w] \in Holding /\ row[e] \in Row
  BY <1>1, OwnerKnows
<1>a. PICK b \in BOOLEAN : b = Exhausted(row[e])
  <2>1. Exhausted(row[e]) \in BOOLEAN
    BY SMT DEF Exhausted
  <2> QED BY <2>1
<1> DEFINE h == [worker[w] EXCEPT !.phase = "counted", !.spent = b]
<1>3. worker' = [worker EXCEPT ![w] = h]
  BY <1>2, <1>a DEF MarkFailedRead
<1>4. /\ h \in Holding /\ h.phase = "counted" /\ h.event = e /\ h.lease = worker[w].lease
      /\ h.outcome = "retry" /\ h.spent = b
  BY <1>1, <1>2 DEF Holding, Phases
<1> HIDE DEF h
<1>5. Types'
  BY <1>1, <1>3, <1>4 DEF IInv, Types
<1>6. worker'[w] = h
  BY <1>3 DEF IInv, Types
<1>7. WorkerOK(w)'
  BY <1>1, <1>2, <1>a, <1>4, <1>6 DEF IInv, WorkerOK, Busy, Exhausted
<1>8. ASSUME NEW v \in Workers, v # w PROVE WorkerOK(v)'
  <2>1. worker'[v] = worker[v]
    BY <1>3, <1>8 DEF IInv, Types
  <2> QED BY <1>1, <2>1 DEF IInv, WorkerOK, Busy, Owns
<1>9. ASSUME NEW f \in Events PROVE EventOK(f)'
  BY <1>1, EventKept DEF IInv
<1> QED
  BY <1>5, <1>7, <1>8, <1>9 DEF IInv

\* and then decides on what it read.
LEMMA MarkFailedWriteStep ==
  ASSUME IInv, NEW w \in Workers, MarkFailedWrite(w)
  PROVE  IInv'
<1>1. Busy(w) /\ worker[w].phase = "counted" /\ worker[w].outcome = "retry"
  BY DEF MarkFailedWrite, Busy, IInv, WorkerOK
<1>2. PICK e \in Events : e = worker[w].event /\ row[e] \in Row /\ tally[e] \in Tally
  BY <1>1, OwnerKnows
<1> DEFINE d == Released(row[e], "dead_letter")
           q == Released(row[e], "pending")
           r == [q EXCEPT !.due = FALSE]
           t == [tally[e] EXCEPT !.failed = @ + 1]
<1>3. /\ t \in Tally /\ t.claims = tally[e].claims /\ t.failed = tally[e].failed + 1
      /\ t.lapsed = tally[e].lapsed
  BY <1>2 DEF Tally
<1>4. CASE worker[w].spent
  <2>1. Finish(w, d, t)
    BY <1>2, <1>4 DEF MarkFailedWrite
  <2>2. d \in Row /\ d.status = "dead_letter"
    BY <1>2, ReleasedRow DEF Statuses, Settled
  <2> HIDE DEF d, t
  <2> QED BY <1>1, <1>2, <1>3, <2>1, <2>2, SettleStep DEF Settled
<1>5. CASE ~worker[w].spent
  <2>1. Finish(w, r, t)
    BY <1>2, <1>5 DEF MarkFailedWrite
  <2>2. /\ q \in Row /\ q.status = "pending" /\ q.lease = NoLease /\ q.expiry = "null"
        /\ q.attempts = row[e].attempts /\ r \in Row
    BY <1>2, ReleasedRow DEF Statuses
  <2>3. /\ r.status = "pending" /\ r.lease = NoLease /\ r.expiry = "null"
        /\ r.attempts = row[e].attempts
    <3> HIDE DEF q
    <3> QED BY <2>2 DEF Row
  <2>4. ASSUME Owns(w) PROVE EventOK(e)'
    <3>1. row'[e] = r /\ tally'[e] = t
      BY <1>2, <2>1, <2>4 DEF Finish, IInv, Types
    <3>2. row[e].attempts = tally[e].failed + tally[e].lapsed + 1
      BY <1>1, <1>2, <2>4, OwnerKnows
    <3>3. ~(row[e].attempts >= MaxAttempts)
      BY <1>1, <1>2, <1>5, <2>4 DEF IInv, WorkerOK
    <3>4. tally[e].failed + 1 < MaxAttempts
      BY <1>2, <3>2, <3>3, OutboxAssumption DEF Tally
    <3> HIDE DEF r, t
    <3> QED BY <1>2, <1>3, <2>3, <3>1, <3>2, <3>4 DEF EventOK, Settled, Tally
  <2> HIDE DEF r, t
  <2> QED BY <1>1, <1>2, <1>3, <2>1, <2>2, <2>3, <2>4, FinishStep
<1> QED
  BY <1>4, <1>5

\* A step on the rows leaves a worker that does not move as it was: a row it
\* owns afterwards is one it owned before with the same attempts, or one whose
\* lease is newer than any it can hold.
LEMMA RowsStep ==
  ASSUME IInv, Types', reports \subseteq reports', NEW v \in Workers, worker'[v] = worker[v],
         \A e \in Events :
           /\ tally'[e].claims >= tally[e].claims
           /\ row[e].status # "absent" => row'[e].status # "absent"
           /\ row'[e].status = "processing" =>
                \/ /\ row[e].status = "processing" /\ row'[e].lease = row[e].lease
                   /\ row'[e].attempts = row[e].attempts
                \/ row'[e].lease > tally[e].claims
  PROVE  WorkerOK(v)'
<1>1. ASSUME Busy(v) PROVE Owns(v)' => /\ Owns(v)
                                      /\ row'[worker[v].event].attempts = row[worker[v].event].attempts
  <2>1. PICK e \in Events : e = worker[v].event /\ worker[v] \in Holding /\ tally[e] \in Tally
    BY <1>1, OwnerKnows
  <2>2. worker[v].lease \in 1 .. tally[e].claims
    BY <1>1, <2>1 DEF IInv, WorkerOK
  <2>3. worker[v].lease <= tally[e].claims /\ worker[v].lease \in Nat /\ tally[e].claims \in Nat
    BY <2>1, <2>2 DEF Holding, Tally
  <2> QED BY <2>1, <2>3 DEF Owns
<1>2. Busy(v) => worker[v].event \in Events
  BY OwnerKnows
<1> QED
  BY <1>1, <1>2, WorkerKept DEF IInv

\* Producers.
LEMMA EnqueueStep ==
  ASSUME IInv, NEW e \in Events, Enqueue(e)
  PROVE  IInv'
<1>1. /\ row[e].status = "absent" /\ row' = [row EXCEPT ![e].status = "pending"]
      /\ UNCHANGED <<worker, reports, tally, faults>>
  BY DEF Enqueue
<1>2. row[e] \in Row /\ tally[e] \in Tally
  BY DEF IInv, Types
<1> DEFINE r == [row[e] EXCEPT !.status = "pending"]
<1>3. /\ r \in Row /\ r.status = "pending" /\ r.lease = row[e].lease
      /\ r.expiry = row[e].expiry /\ r.attempts = row[e].attempts
  BY <1>2 DEF Row, Statuses
<1>4. row' = [row EXCEPT ![e] = r]
  BY <1>1
<1> HIDE DEF r
<1>5. Types'
  BY <1>1, <1>3, <1>4 DEF IInv, Types
<1>6. ASSUME NEW f \in Events PROVE EventOK(f)'
  <2>1. CASE f = e
    <3>1. row'[e] = r /\ tally'[e] = tally[e]
      BY <1>1, <1>4 DEF IInv, Types
    <3> QED BY <1>1, <1>2, <1>3, <2>1, <3>1, OutboxAssumption DEF IInv, EventOK, Settled
  <2>2. CASE f # e
    BY <1>1, <1>4, <2>2, EventKept DEF IInv, Types
  <2> QED BY <2>1, <2>2
<1>7. ASSUME NEW f \in Events
      PROVE  /\ tally'[f].claims >= tally[f].claims
             /\ row[f].status # "absent" => row'[f].status # "absent"
             /\ row'[f].status = "processing" =>
                  \/ /\ row[f].status = "processing" /\ row'[f].lease = row[f].lease
                     /\ row'[f].attempts = row[f].attempts
                  \/ row'[f].lease > tally[f].claims
  <2>1. tally'[f].claims >= tally[f].claims
    BY <1>1 DEF IInv, Types, Tally
  <2>2. row'[f] = row[f] \/ row'[f].status = "pending"
    BY <1>3, <1>4 DEF IInv, Types
  <2> QED BY <2>1, <2>2
<1>8. ASSUME NEW v \in Workers PROVE WorkerOK(v)'
  <2>1. worker'[v] = worker[v] /\ reports \subseteq reports'
    BY <1>1
  <2> QED BY <1>5, <1>7, <2>1, RowsStep
<1> QED
  BY <1>5, <1>6, <1>8 DEF IInv

\* WakeDeferred, FallsDue and LeaseLapses write due or expiry of some rows.
LEMMA ClockStep ==
  ASSUME IInv, Types', UNCHANGED <<worker, reports, tally>>,
         \A e \in Events :
           /\ row'[e].status = row[e].status /\ row'[e].lease = row[e].lease
           /\ row'[e].attempts = row[e].attempts
           /\ row'[e].expiry = row[e].expiry \/ row[e].status = "processing"
  PROVE  IInv'
<1>1. ASSUME NEW e \in Events PROVE EventOK(e)'
  <2>1. Fate(e)' = Fate(e)
    BY DEF Fate
  <2>2. Justified(e) => Justified(e)'
    BY <2>1 DEF Justified, Promise!Grounds
  <2> QED BY <2>2 DEF IInv, EventOK
<1>2. \A e \in Events : tally'[e].claims >= tally[e].claims
  BY DEF IInv, Types, Tally
<1>3. ASSUME NEW v \in Workers PROVE WorkerOK(v)'
  BY <1>2, RowsStep
<1> QED
  BY <1>1, <1>3 DEF IInv

\* A deferred event that is woken early.
LEMMA WakeDeferredStep ==
  ASSUME IInv, NEW g \in Groups, WakeDeferred(g)
  PROVE  IInv'
<1>1. /\ row' = [e \in Events |-> IF e \in g /\ row[e].status = "pending"
                                  THEN [row[e] EXCEPT !.due = TRUE] ELSE row[e]]
      /\ UNCHANGED <<worker, reports, tally, faults>>
  BY DEF WakeDeferred
<1>2. ASSUME NEW e \in Events
      PROVE  /\ row'[e] \in Row /\ row'[e].status = row[e].status /\ row'[e].lease = row[e].lease
             /\ row'[e].attempts = row[e].attempts /\ row'[e].expiry = row[e].expiry
  <2>1. row[e] \in Row
    BY DEF IInv, Types
  <2>2. row'[e] = IF e \in g /\ row[e].status = "pending"
                  THEN [row[e] EXCEPT !.due = TRUE] ELSE row[e]
    BY <1>1
  <2> QED BY <2>1, <2>2 DEF Row
<1>3. Types'
  BY <1>1, <1>2 DEF IInv, Types
<1> QED
  BY <1>1, <1>2, <1>3, ClockStep

\* The clock reaches the next attempt.
LEMMA FallsDueStep ==
  ASSUME IInv, NEW e \in Events, FallsDue(e)
  PROVE  IInv'
<1>1. row' = [row EXCEPT ![e].due = TRUE] /\ UNCHANGED <<worker, reports, tally, faults>>
  BY DEF FallsDue
<1>2. row[e] \in Row
  BY DEF IInv, Types
<1>3. /\ [row[e] EXCEPT !.due = TRUE] \in Row
      /\ [row[e] EXCEPT !.due = TRUE].status = row[e].status
      /\ [row[e] EXCEPT !.due = TRUE].lease = row[e].lease
      /\ [row[e] EXCEPT !.due = TRUE].attempts = row[e].attempts
      /\ [row[e] EXCEPT !.due = TRUE].expiry = row[e].expiry
  BY <1>2 DEF Row
<1>4. \A f \in Events : row'[f] = IF f = e THEN [row[e] EXCEPT !.due = TRUE] ELSE row[f]
  BY <1>1 DEF IInv, Types
<1>5. Types'
  BY <1>1, <1>3 DEF IInv, Types
<1> QED
  BY <1>1, <1>3, <1>4, <1>5, ClockStep

\* The clock passes a lease that nobody renews.
LEMMA LeaseLapsesStep ==
  ASSUME IInv, NEW e \in Events, LeaseLapses(e)
  PROVE  IInv'
<1>1. /\ row[e].status = "processing" /\ row' = [row EXCEPT ![e].expiry = "past"]
      /\ UNCHANGED <<worker, reports, tally>>
  BY DEF LeaseLapses
<1>2. row[e] \in Row /\ faults' \in 0 .. MaxFaults
  BY OutboxAssumption DEF IInv, Types, LeaseLapses
<1>3. /\ [row[e] EXCEPT !.expiry = "past"] \in Row
      /\ [row[e] EXCEPT !.expiry = "past"].status = row[e].status
      /\ [row[e] EXCEPT !.expiry = "past"].lease = row[e].lease
      /\ [row[e] EXCEPT !.expiry = "past"].attempts = row[e].attempts
  BY <1>2 DEF Row
<1>4. \A f \in Events : row'[f] = IF f = e THEN [row[e] EXCEPT !.expiry = "past"] ELSE row[f]
  BY <1>1 DEF IInv, Types
<1>5. Types'
  BY <1>1, <1>2, <1>3 DEF IInv, Types
<1> QED
  BY <1>1, <1>3, <1>4, <1>5, ClockStep

\* A claim gives the row a lease that no worker holds yet.
LEMMA TakeStep ==
  ASSUME IInv, NEW w \in Workers, NEW e \in Events, Take(w, e), faults' \in 0 .. MaxFaults,
         \/ worker' = worker
         \/ worker' = [worker EXCEPT ![w] =
                          [phase |-> "handling", event |-> e, lease |-> FreshLease(e),
                           outcome |-> "ok", spent |-> FALSE]]
  PROVE  IInv'
<1>1. /\ ~Busy(w) /\ row[e].status = "pending" /\ reports' = reports
      /\ row[e] \in Row /\ tally[e] \in Tally
  BY DEF Take, Foremost, Claimable, IInv, Types
<1>2. PICK l \in Nat : l = FreshLease(e) /\ l = tally[e].claims + 1 /\ tally[e].claims \in Nat
  BY <1>1 DEF FreshLease, Tally
<1>3. PICK n \in Nat : n = row[e].attempts + 1
  BY <1>1 DEF Row
<1> DEFINE r == [row[e] EXCEPT !.status = "processing", !.attempts = n,
                               !.lease = l, !.expiry = "live"]
           t == [tally[e] EXCEPT !.claims = l]
           h == [phase |-> "handling", event |-> e, lease |-> l, outcome |-> "ok", spent |-> FALSE]
<1>r. row' = [row EXCEPT ![e] = r]
  BY <1>2, <1>3 DEF Take
<1>t. tally' = [tally EXCEPT ![e] = t]
  BY <1>2 DEF Take
<1>4. /\ r \in Row /\ r.status = "processing" /\ r.attempts = row[e].attempts + 1
      /\ r.lease = l
  BY <1>1, <1>3 DEF Row, Statuses
<1>5. /\ t \in Tally /\ t.claims = l /\ t.failed = tally[e].failed
      /\ t.lapsed = tally[e].lapsed
  BY <1>1 DEF Tally
<1>6. h \in Holding
  BY DEF Holding, Phases, Outcomes
<1> HIDE DEF r, t
<1>7. row'[e] = r /\ tally'[e] = t
  BY <1>r, <1>t DEF IInv, Types
<1>8. \A f \in Events : f # e => row'[f] = row[f] /\ tally'[f] = tally[f]
  BY <1>r, <1>t DEF IInv, Types
<1>9. Types'
  <2>1. row' \in [Events -> Row] /\ tally' \in [Events -> Tally] /\ reports' \subseteq Report
    BY <1>1, <1>r, <1>t, <1>4, <1>5 DEF IInv, Types
  <2>2. worker' \in [Workers -> {Idle} \cup Holding]
    BY <1>2, <1>6 DEF IInv, Types
  <2> QED BY <2>1, <2>2 DEF Types
<1>10. ASSUME NEW f \in Events PROVE EventOK(f)'
  <2>1. CASE f = e
    BY <1>1, <1>2, <1>3, <1>4, <1>5, <1>7, <2>1 DEF IInv, EventOK, Settled, Row, Tally, NoLease
  <2>2. CASE f # e
    BY <1>1, <1>8, <2>2, EventKept DEF IInv
  <2> QED BY <2>1, <2>2
<1>11. ASSUME NEW f \in Events
       PROVE  /\ tally'[f].claims >= tally[f].claims
              /\ row[f].status # "absent" => row'[f].status # "absent"
              /\ row'[f].status = "processing" =>
                   \/ /\ row[f].status = "processing" /\ row'[f].lease = row[f].lease
                      /\ row'[f].attempts = row[f].attempts
                   \/ row'[f].lease > tally[f].claims
  <2>1. tally[f].claims \in Nat
    BY DEF IInv, Types, Tally
  <2>2. CASE f = e
    BY <1>2, <1>4, <1>5, <1>7, <2>2
  <2>3. CASE f # e
    BY <1>8, <2>1, <2>3
  <2> QED BY <2>2, <2>3
<1>12. ASSUME NEW v \in Workers PROVE WorkerOK(v)'
  <2>1. CASE worker'[v] = worker[v]
    BY <1>1, <1>9, <1>11, <2>1, RowsStep
  <2>2. CASE worker'[v] # worker[v]
    <3>1. v = w /\ worker'[w] = h
      BY <1>2, <2>2 DEF IInv, Types
    <3> QED BY <1>2, <1>4, <1>5, <1>7, <3>1 DEF WorkerOK, Busy
  <2> QED BY <2>1, <2>2
<1> QED
  BY <1>9, <1>10, <1>12 DEF IInv

\* A run of the handler reports.
LEMMA HandleStep ==
  ASSUME IInv, NEW w \in Workers, NEW outcome \in Outcomes, Handle(w, outcome)
  PROVE  IInv'
<1>1. Busy(w) /\ worker[w].phase = "handling" /\ UNCHANGED <<row, tally, faults>>
  BY DEF Handle, Busy
<1>2. PICK e \in Events : e = worker[w].event /\ worker[w] \in Holding
  BY <1>1, OwnerKnows
<1> DEFINE h == [worker[w] EXCEPT !.phase = "returned", !.outcome = outcome]
           q == [event |-> e, lease |-> worker[w].lease, outcome |-> outcome]
<1>3. worker' = [worker EXCEPT ![w] = h] /\ reports' = reports \cup {q}
  BY <1>2 DEF Handle
<1>4. /\ h \in Holding /\ h.phase = "returned" /\ h.event = e /\ h.lease = worker[w].lease
      /\ h.outcome = outcome
  BY <1>2 DEF Holding, Phases
<1>5. q \in Report
  BY <1>2 DEF Holding, Report
<1> HIDE DEF h
<1>6. Types'
  BY <1>1, <1>3, <1>4, <1>5 DEF IInv, Types
<1>7. ASSUME NEW f \in Events PROVE EventOK(f)'
  BY <1>1, <1>3, EventKept DEF IInv
<1>8. ASSUME NEW f \in Events PROVE tally'[f].claims >= tally[f].claims
  BY <1>1 DEF IInv, Types, Tally
<1>9. ASSUME NEW v \in Workers PROVE WorkerOK(v)'
  <2>1. CASE v = w
    <3>1. worker'[w] = h
      BY <1>3 DEF IInv, Types
    <3>2. WorkerOK(w)
      BY DEF IInv
    <3>3. q \in reports'
      BY <1>3
    <3> QED BY <1>1, <1>2, <1>4, <2>1, <3>1, <3>2, <3>3 DEF WorkerOK, Busy
  <2>2. CASE v # w
    <3>1. worker'[v] = worker[v] /\ reports \subseteq reports'
      BY <1>3, <2>2 DEF IInv, Types
    <3> QED BY <1>1, <1>6, <1>8, <3>1, RowsStep
  <2> QED BY <2>1, <2>2
<1> QED
  BY <1>6, <1>7, <1>9 DEF IInv

\* A process dies, or its statement fails.
LEMMA AbandonStep ==
  ASSUME IInv, NEW w \in Workers, Abandon(w)
  PROVE  IInv'
<1>1. /\ worker' = [worker EXCEPT ![w] = Idle] /\ UNCHANGED <<row, reports, tally>>
      /\ faults' \in 0 .. MaxFaults
  BY OutboxAssumption DEF IInv, Types, Abandon
<1>2. Types'
  BY <1>1 DEF IInv, Types
<1>3. ASSUME NEW f \in Events PROVE EventOK(f)'
  BY <1>1, EventKept DEF IInv
<1>4. ASSUME NEW f \in Events PROVE tally'[f].claims >= tally[f].claims
  BY <1>1 DEF IInv, Types, Tally
<1>5. ASSUME NEW v \in Workers PROVE WorkerOK(v)'
  <2>1. CASE v = w
    BY <1>1, <2>1 DEF IInv, Types, WorkerOK, Busy, Idle
  <2>2. CASE v # w
    <3>1. worker'[v] = worker[v] /\ reports \subseteq reports'
      BY <1>1, <2>2 DEF IInv, Types
    <3> QED BY <1>1, <1>2, <1>4, <3>1, RowsStep
  <2> QED BY <2>1, <2>2
<1> QED
  BY <1>2, <1>3, <1>5 DEF IInv

\* The reclaim loop takes a lapsed lease back.
LEMMA RequeueStep ==
  ASSUME IInv, RequeueExpiredLeases
  PROVE  IInv'
<1>1. UNCHANGED <<worker, reports, faults>>
  BY DEF RequeueExpiredLeases
<1>2. ASSUME NEW e \in Events, e \in Lapsed
      PROVE  /\ row'[e] \in Row /\ row'[e].status = "pending" /\ row'[e].lease = NoLease
             /\ row'[e].expiry = "null" /\ row'[e].attempts = row[e].attempts
             /\ tally'[e] \in Tally /\ tally'[e].claims = tally[e].claims
             /\ tally'[e].failed = tally[e].failed /\ tally'[e].lapsed = tally[e].lapsed + 1
  <2>1. row[e] \in Row /\ tally[e] \in Tally
    BY DEF IInv, Types
  <2>2. row'[e] = Released(row[e], "pending") /\ tally'[e] = [tally[e] EXCEPT !.lapsed = @ + 1]
    BY <1>2 DEF RequeueExpiredLeases
  <2>3. /\ [tally[e] EXCEPT !.lapsed = @ + 1] \in Tally
        /\ [tally[e] EXCEPT !.lapsed = @ + 1].claims = tally[e].claims
        /\ [tally[e] EXCEPT !.lapsed = @ + 1].failed = tally[e].failed
        /\ [tally[e] EXCEPT !.lapsed = @ + 1].lapsed = tally[e].lapsed + 1
    BY <2>1 DEF Tally
  <2>4. /\ Released(row[e], "pending") \in Row /\ Released(row[e], "pending").status = "pending"
        /\ Released(row[e], "pending").lease = NoLease
        /\ Released(row[e], "pending").expiry = "null"
        /\ Released(row[e], "pending").attempts = row[e].attempts
    BY <2>1, ReleasedRow DEF Statuses
  <2> QED BY <2>2, <2>3, <2>4
<1>3. ASSUME NEW e \in Events, e \notin Lapsed PROVE row'[e] = row[e] /\ tally'[e] = tally[e]
  BY <1>3 DEF RequeueExpiredLeases
<1>4. Types'
  <2>1. row' \in [Events -> Row]
    BY <1>2, <1>3 DEF RequeueExpiredLeases, IInv, Types
  <2>2. tally' \in [Events -> Tally]
    BY <1>2, <1>3 DEF RequeueExpiredLeases, IInv, Types
  <2> QED BY <1>1, <2>1, <2>2 DEF IInv, Types
<1>5. ASSUME NEW e \in Events PROVE EventOK(e)'
  <2>1. CASE e \in Lapsed
    <3>1. row[e].status = "processing" /\ tally[e] \in Tally
      BY <2>1 DEF Lapsed, IInv, Types
    <3>2. /\ row[e].attempts = tally[e].failed + tally[e].lapsed + 1
          /\ tally[e].failed < MaxAttempts
      BY <3>1 DEF IInv, EventOK
    <3> QED BY <1>2, <2>1, <3>1, <3>2 DEF EventOK, Settled, Tally
  <2>2. CASE e \notin Lapsed
    BY <1>1, <1>3, <2>2, EventKept DEF IInv
  <2> QED BY <2>1, <2>2
<1>6. ASSUME NEW f \in Events
      PROVE  /\ tally'[f].claims >= tally[f].claims
             /\ row[f].status # "absent" => row'[f].status # "absent"
             /\ row'[f].status = "processing" =>
                  \/ /\ row[f].status = "processing" /\ row'[f].lease = row[f].lease
                     /\ row'[f].attempts = row[f].attempts
                  \/ row'[f].lease > tally[f].claims
  <2>1. tally[f].claims \in Nat
    BY DEF IInv, Types, Tally
  <2> QED BY <1>2, <1>3, <2>1
<1>7. ASSUME NEW v \in Workers PROVE WorkerOK(v)'
  <2>1. worker'[v] = worker[v] /\ reports \subseteq reports'
    BY <1>1
  <2> QED BY <1>4, <1>6, <2>1, RowsStep
<1> QED
  BY <1>4, <1>5, <1>7 DEF IInv

\* Every step keeps the invariant.
LEMMA NextIInv == IInv /\ [Next]_vars => IInv'
<1> SUFFICES ASSUME IInv, [Next]_vars PROVE IInv'
  OBVIOUS
<1>1. ASSUME NEW w \in Workers, WorkerNext(w) PROVE IInv'
  <2>1. ASSUME NEW e \in Events, ClaimNext(w, e) PROVE IInv'
    <3>1. faults' \in 0 .. MaxFaults
      BY <2>1 DEF ClaimNext, IInv, Types
    <3> QED BY <2>1, <3>1, TakeStep DEF ClaimNext
  <2>2. ASSUME NEW outcome \in Outcomes, Handle(w, outcome) PROVE IInv'
    BY <2>2, HandleStep
  <2>3. CASE MarkCompleted(w)
    BY <2>3, MarkCompletedStep
  <2>4. CASE MarkSuperseded(w)
    BY <2>4, MarkSupersededStep
  <2>5. CASE MarkDeadLetter(w)
    BY <2>5, MarkDeadLetterStep
  <2>6. CASE MarkDeferred(w)
    BY <2>6, MarkDeferredStep
  <2>7. CASE MarkFailedRead(w)
    BY <2>7, MarkFailedReadStep
  <2>8. CASE MarkFailedWrite(w)
    BY <2>8, MarkFailedWriteStep
  <2> QED
    BY <1>1, <2>1, <2>2, <2>3, <2>4, <2>5, <2>6, <2>7, <2>8 DEF WorkerNext
<1>2. ASSUME NEW w \in Workers, Abandon(w) PROVE IInv'
  BY <1>2, AbandonStep
<1>3. ASSUME NEW w \in Workers, NEW e \in Events, ClaimLost(w, e) PROVE IInv'
  <2>1. faults' \in 0 .. MaxFaults
    BY <1>3, OutboxAssumption DEF ClaimLost, IInv, Types
  <2> QED BY <1>3, <2>1, TakeStep DEF ClaimLost
<1>4. ASSUME NEW e \in Events, Enqueue(e) PROVE IInv'
  BY <1>4, EnqueueStep
<1>5. ASSUME NEW e \in Events, FallsDue(e) PROVE IInv'
  BY <1>5, FallsDueStep
<1>6. ASSUME NEW e \in Events, LeaseLapses(e) PROVE IInv'
  BY <1>6, LeaseLapsesStep
<1>7. ASSUME NEW g \in Groups, WakeDeferred(g) PROVE IInv'
  BY <1>7, WakeDeferredStep
<1>8. CASE RequeueExpiredLeases
  BY <1>8, RequeueStep
<1>9. CASE UNCHANGED vars
  <2>1. UNCHANGED <<row, worker, reports, tally, faults>>
    BY <1>9 DEF vars
  <2>2. ASSUME NEW e \in Events PROVE EventOK(e)'
    BY <2>1, EventKept DEF IInv
  <2>3. ASSUME NEW w \in Workers PROVE WorkerOK(w)'
    BY <2>1 DEF IInv, WorkerOK, Busy, Owns
  <2>4. Types'
    BY <2>1 DEF IInv, Types
  <2> QED BY <2>2, <2>3, <2>4 DEF IInv
<1> QED
  BY <1>1, <1>2, <1>3, <1>4, <1>5, <1>6, <1>7, <1>8, <1>9 DEF Next

\* The inductive invariant of the outbox.
THEOREM OutboxInvariance == Spec => []IInv
<1> QED
  BY InitIInv, NextIInv, PTL DEF Spec

\* Types and lease columns of the outbox table and of its workers.
THEOREM OutboxTyping == Spec => []TypeOK
<1>1. IInv => TypeOK
  BY Implied
<1> QED
  BY <1>1, OutboxInvariance, PTL

\* A worker that lost its row settles nothing: the status of a settled row is
\* what the newest claim of it reported.
THEOREM VerdictsAreFenced == Spec => []VerdictIsTheLastRuns
<1>1. IInv => VerdictIsTheLastRuns
  BY Implied
<1> QED
  BY <1>1, OutboxInvariance, PTL

\* However claims fail, lapse and are deferred, no event fails more often than
\* it may, and its attempt count is the sum of its failures and lapses.
THEOREM FailuresAreBounded == Spec => []FailuresWithinBudget
<1>1. IInv => FailuresWithinBudget
  BY Implied
<1> QED
  BY <1>1, OutboxInvariance, PTL

-----------------------------------------------------------------------------
(***************************************************************************)
(* The outbox implements Delivery.                                         *)
(***************************************************************************)
\* A step that leaves status and reports alone is a stutter of the promise.
LEMMA Stutter ==
  ASSUME IInv, reports' = reports, \A e \in Events : Fate(e)' = Fate(e)
  PROVE  UNCHANGED Promise!vars
BY DEF Promise!vars, ReportedOutcomes

\* Requeues, deferrals, retries and claims move a row between two statuses
\* that are both owed.
LEMMA SameFate ==
  ASSUME NEW e \in Events,
         \/ row'[e].status = row[e].status
         \/ /\ row[e].status \in {"pending", "processing"}
            /\ row'[e].status \in {"pending", "processing"}
  PROVE  Fate(e)' = Fate(e)
BY DEF Fate

\* The end of a call seals the fate of its event on the outcome that its
\* worker reported, or nothing happens.
LEMMA FinishRefines ==
  ASSUME IInv, NEW w \in Workers, Busy(w), NEW e \in Events, e = worker[w].event,
         worker[w].phase \in {"returned", "counted"},
         NEW r, NEW t, Finish(w, r, t),
         \/ r.status = "pending"
         \/ r.status = "completed" /\ worker[w].outcome = "ok"
         \/ r.status = "superseded" /\ worker[w].outcome = "superseded"
         \/ r.status = "dead_letter" /\ worker[w].outcome \in {"terminal", "retry"}
  PROVE  [Promise!Next]_Promise!vars
<1>1. reports' = reports
  BY DEF Finish
<1>2. CASE ~Owns(w) \/ r.status = "pending"
  <2>1. ASSUME NEW f \in Events PROVE Fate(f)' = Fate(f)
    <3>1. \/ row'[f].status = row[f].status
          \/ row[f].status = "processing" /\ row'[f].status = "pending"
      BY <1>2 DEF Finish, Owns, IInv, Types
    <3> QED BY <3>1, SameFate
  <2> QED BY <1>1, <2>1, Stutter
<1>3. CASE Owns(w) /\ r.status # "pending"
  <2> DEFINE F == Fate(e)'
             fates == [f \in Events |-> Fate(f)]
  <2>1. row[e].status = "processing" /\ row' = [row EXCEPT ![e] = r]
    BY <1>3 DEF Finish, Owns
  <2>2. row'[e] = r /\ \A f \in Events : f # e => row'[f] = row[f]
    BY <2>1 DEF IInv, Types
  <2>3. Fate(e) = "owed"
    BY <2>1 DEF Fate
  <2>4. /\ F \in Promise!Sealed
        /\ worker[w].outcome \in Promise!Grounds(F)
    BY <1>3, <2>2 DEF Fate, Promise!Sealed, Promise!Grounds
  <2>5. worker[w].outcome \in ReportedOutcomes(e)
    <3>1. [event |-> e, lease |-> worker[w].lease, outcome |-> worker[w].outcome] \in reports
      BY DEF IInv, WorkerOK
    <3> QED BY <3>1 DEF ReportedOutcomes
  <2>6. \A f \in Events : f # e => Fate(f)' = Fate(f)
    BY <2>2 DEF Fate
  <2>7. PICK g \in Promise!Sealed : g = F
    BY <2>4
  <2>8. [f \in Events |-> Fate(f)]' = [fates EXCEPT ![e] = g]
    BY <2>6, <2>7
  <2>9. [f \in Events |-> ReportedOutcomes(f)]' = [f \in Events |-> ReportedOutcomes(f)]
    BY <1>1 DEF ReportedOutcomes
  <2>10. Promise!Seal(e, g)
    BY <2>3, <2>4, <2>5, <2>7, <2>8, <2>9 DEF Promise!Seal
  <2> QED BY <2>7, <2>10 DEF Promise!Next
<1> QED
  BY <1>2, <1>3

\* Initial states of the outbox are initial states of Delivery.
LEMMA RefinedInit == Init => Promise!Init
<1> SUFFICES ASSUME Init PROVE Promise!Init
  OBVIOUS
<1>1. ASSUME NEW e \in Events PROVE Fate(e) = "unpublished" /\ ReportedOutcomes(e) = {}
  BY DEF Init, NoRow, Fate, ReportedOutcomes
<1> QED
  BY <1>1 DEF Promise!Init

\* An insertion publishes.
LEMMA EnqueueRefines ==
  ASSUME IInv, NEW e \in Events, Enqueue(e)
  PROVE  [Promise!Next]_Promise!vars
<1> DEFINE fates == [f \in Events |-> Fate(f)]
<1>1. /\ row[e].status = "absent" /\ row' = [row EXCEPT ![e].status = "pending"]
      /\ reports' = reports
  BY DEF Enqueue
<1>2. row[e] \in Row /\ row'[e] = [row[e] EXCEPT !.status = "pending"]
      /\ \A f \in Events : f # e => row'[f] = row[f]
  BY <1>1 DEF IInv, Types
<1>3. row'[e].status = "pending"
  BY <1>2 DEF Row
<1>4. Fate(e) = "unpublished" /\ Fate(e)' = "owed"
  BY <1>1, <1>3 DEF Fate
<1>5. \A f \in Events : f # e => Fate(f)' = Fate(f)
  BY <1>2 DEF Fate
<1>6. fates' = [fates EXCEPT ![e] = "owed"]
  BY <1>4, <1>5
<1>7. [f \in Events |-> ReportedOutcomes(f)]' = [f \in Events |-> ReportedOutcomes(f)]
  BY <1>1 DEF ReportedOutcomes
<1>8. Promise!Publish(e)
  BY <1>4, <1>6, <1>7 DEF Promise!Publish
<1> QED
  BY <1>8 DEF Promise!Next

\* The end of a run reports.
LEMMA HandleRefines ==
  ASSUME IInv, NEW w \in Workers, NEW outcome \in Outcomes, Handle(w, outcome)
  PROVE  [Promise!Next]_Promise!vars
<1>1. Busy(w) /\ row' = row
  BY DEF Handle, Busy
<1>2. PICK e \in Events : e = worker[w].event /\ row[e].status # "absent"
  BY <1>1, OwnerKnows DEF IInv, WorkerOK
<1> DEFINE reported == [f \in Events |-> ReportedOutcomes(f)]
<1>3. PICK q : /\ q.event = e /\ q.outcome = outcome /\ reports' = reports \cup {q}
  BY <1>2 DEF Handle
<1>4. ReportedOutcomes(e)' = ReportedOutcomes(e) \cup {outcome}
  BY <1>3 DEF ReportedOutcomes
<1>5. \A f \in Events : f # e => ReportedOutcomes(f)' = ReportedOutcomes(f)
  BY <1>3 DEF ReportedOutcomes
<1>6. reported' = [reported EXCEPT ![e] = @ \cup {outcome}]
  BY <1>4, <1>5
<1>7. [f \in Events |-> Fate(f)]' = [f \in Events |-> Fate(f)]
  BY <1>1 DEF Fate
<1>8. Fate(e) # "unpublished"
  BY <1>2 DEF Fate
<1>9. Promise!Report(e, outcome)
  BY <1>6, <1>7, <1>8 DEF Promise!Report
<1> QED
  BY <1>9 DEF Promise!Next, Promise!Outcomes, Outcomes

\* The status of a row under the updates of its other columns.
LEMMA StatusKept ==
  ASSUME NEW r \in Row
  PROVE  /\ [r EXCEPT !.due = TRUE].status = r.status
         /\ [r EXCEPT !.due = FALSE].status = r.status
         /\ [r EXCEPT !.expiry = "past"].status = r.status
         /\ [r EXCEPT !.status = "completed"].status = "completed"
         /\ \A n : [r EXCEPT !.due = FALSE, !.attempts = n].status = r.status
         /\ \A st \in Statuses : Released(r, st).status = st /\ Released(r, st) \in Row
<1>1. [r EXCEPT !.due = TRUE].status = r.status /\ [r EXCEPT !.due = FALSE].status = r.status
  BY DEF Row
<1>2. [r EXCEPT !.expiry = "past"].status = r.status
  BY DEF Row
<1>3. [r EXCEPT !.status = "completed"].status = "completed"
  BY DEF Row
<1>4. \A n : [r EXCEPT !.due = FALSE, !.attempts = n].status = r.status
  BY DEF Row
<1>5. \A st \in Statuses : Released(r, st).status = st /\ Released(r, st) \in Row
  BY ReleasedRow
<1> QED
  BY <1>1, <1>2, <1>3, <1>4, <1>5

\* The other steps change no fate and no report.
LEMMA QuietSteps ==
  ASSUME IInv,
         \/ \E w \in Workers, e \in Events : Take(w, e)
         \/ \E w \in Workers : MarkFailedRead(w) \/ Abandon(w)
         \/ \E e \in Events : FallsDue(e) \/ LeaseLapses(e)
         \/ \E g \in Groups : WakeDeferred(g)
         \/ RequeueExpiredLeases
         \/ UNCHANGED vars
  PROVE  UNCHANGED Promise!vars
<1>1. reports' = reports
  BY DEF Take, MarkFailedRead, Abandon, FallsDue, LeaseLapses, WakeDeferred,
         RequeueExpiredLeases, vars
<1>2. ASSUME NEW f \in Events PROVE Fate(f)' = Fate(f)
  <2>1. row[f] \in Row /\ row \in [Events -> Row]
    BY DEF IInv, Types
  <2>2. \A r \in Row : /\ [r EXCEPT !.due = TRUE].status = r.status
                      /\ [r EXCEPT !.expiry = "past"].status = r.status
                      /\ Released(r, "pending").status = "pending"
    BY StatusKept DEF Statuses
  <2>3. CASE \E w \in Workers, e \in Events : Take(w, e)
    <3>1. PICK w \in Workers, e \in Events : Take(w, e)
      BY <2>3
    <3>2. row[e].status = "pending" /\ row[e] \in Row
      BY <3>1 DEF Take, Foremost, Claimable, IInv, Types
    <3>3. row'[e].status = "processing" /\ \A g \in Events : g # e => row'[g] = row[g]
      BY <2>1, <3>1, <3>2 DEF Take, Row
    <3> QED BY <3>2, <3>3, SameFate
  <2>4. CASE \E w \in Workers : MarkFailedRead(w) \/ Abandon(w)
    BY <2>4, SameFate DEF MarkFailedRead, Abandon
  <2>5. CASE \E e \in Events : FallsDue(e) \/ LeaseLapses(e)
    <3>1. row'[f].status = row[f].status
      BY <2>1, <2>2, <2>5 DEF FallsDue, LeaseLapses
    <3> QED BY <3>1, SameFate
  <2>6. CASE \E g \in Groups : WakeDeferred(g)
    <3>1. row'[f].status = row[f].status
      BY <2>1, <2>2, <2>6 DEF WakeDeferred
    <3> QED BY <3>1, SameFate
  <2>7. CASE RequeueExpiredLeases
    <3>1. row'[f] = IF f \in Lapsed THEN Released(row[f], "pending") ELSE row[f]
      BY <2>7 DEF RequeueExpiredLeases
    <3>2. f \in Lapsed => row[f].status = "processing"
      BY DEF Lapsed
    <3> QED BY <2>1, <2>2, <3>1, <3>2, SameFate
  <2>8. CASE UNCHANGED vars
    BY <2>8, SameFate DEF vars
  <2> QED BY <2>3, <2>4, <2>5, <2>6, <2>7, <2>8
<1> QED
  BY <1>1, <1>2, Stutter

\* Every step of the outbox is one of Delivery, or none.
LEMMA RefinedStep == IInv /\ [Next]_vars => [Promise!Next]_Promise!vars
<1> SUFFICES ASSUME IInv, [Next]_vars PROVE [Promise!Next]_Promise!vars
  OBVIOUS
<1>1. ASSUME NEW w \in Workers, WorkerNext(w) PROVE [Promise!Next]_Promise!vars
  <2>1. CASE \E e \in Events : ClaimNext(w, e)
    BY <2>1, QuietSteps DEF ClaimNext
  <2>2. ASSUME NEW outcome \in Outcomes, Handle(w, outcome) PROVE [Promise!Next]_Promise!vars
    BY <2>2, HandleRefines
  <2>3. ASSUME Busy(w), NEW r, NEW t, Finish(w, r, t), worker[w].phase \in {"returned", "counted"},
               \/ r.status = "pending"
               \/ r.status = "completed" /\ worker[w].outcome = "ok"
               \/ r.status = "superseded" /\ worker[w].outcome = "superseded"
               \/ r.status = "dead_letter" /\ worker[w].outcome \in {"terminal", "retry"}
        PROVE  [Promise!Next]_Promise!vars
    <3>1. PICK e \in Events : e = worker[w].event
      BY <2>3, OwnerKnows
    <3> QED BY <2>3, <3>1, FinishRefines
  <2>4. Busy(w) => row[worker[w].event] \in Row
    BY OwnerKnows
  <2>5. \A q \in Row : /\ [q EXCEPT !.status = "completed"].status = "completed"
                      /\ \A st \in Statuses : Released(q, st).status = st /\ Released(q, st) \in Row
                      /\ [q EXCEPT !.due = FALSE].status = q.status
                      /\ \A n : [q EXCEPT !.due = FALSE, !.attempts = n].status = q.status
    BY StatusKept DEF Statuses, Settled
  <2>6. CASE MarkCompleted(w)
    BY <2>3, <2>4, <2>5, <2>6 DEF MarkCompleted, Returned, Busy
  <2>7. CASE MarkSuperseded(w)
    BY <2>3, <2>4, <2>5, <2>7 DEF MarkSuperseded, Returned, Busy, Statuses, Settled
  <2>8. CASE MarkDeadLetter(w)
    BY <2>3, <2>4, <2>5, <2>8 DEF MarkDeadLetter, Returned, Busy, Statuses, Settled
  <2>9. CASE MarkDeferred(w)
    <3> DEFINE e == worker[w].event
               r == [Released(row[e], "pending") EXCEPT !.due = FALSE, !.attempts = Refunded(row[e])]
    <3>1. Busy(w) /\ worker[w].phase = "returned"
      BY <2>9 DEF MarkDeferred, Returned, Busy
    <3>2. Finish(w, r, [tally[e] EXCEPT !.deferred = @ + 1])
      BY <2>9 DEF MarkDeferred
    <3>3. r.status = "pending"
      BY <2>4, <2>5, <3>1 DEF Statuses
    <3> HIDE DEF r
    <3> QED BY <2>3, <3>1, <3>2, <3>3
  <2>10. CASE MarkFailedRead(w)
    BY <2>10, QuietSteps
  <2>11. CASE MarkFailedWrite(w)
    <3> DEFINE e == worker[w].event
               r == IF worker[w].spent THEN Released(row[e], "dead_letter")
                    ELSE [Released(row[e], "pending") EXCEPT !.due = FALSE]
    <3>1. Busy(w) /\ worker[w].phase = "counted" /\ worker[w].outcome = "retry"
      BY <2>11 DEF MarkFailedWrite, Busy, IInv, WorkerOK
    <3>2. Finish(w, r, [tally[e] EXCEPT !.failed = @ + 1])
      BY <2>11 DEF MarkFailedWrite
    <3>3. r.status \in {"pending", "dead_letter"}
      BY <2>4, <2>5, <3>1 DEF Statuses, Settled
    <3> HIDE DEF r
    <3> QED BY <2>3, <3>1, <3>2, <3>3
  <2> QED
    BY <1>1, <2>1, <2>2, <2>6, <2>7, <2>8, <2>9, <2>10, <2>11 DEF WorkerNext
<1>2. ASSUME NEW e \in Events, Enqueue(e) PROVE [Promise!Next]_Promise!vars
  BY <1>2, EnqueueRefines
<1>3. CASE \/ \E w \in Workers, e \in Events : ClaimLost(w, e)
           \/ \E w \in Workers : Abandon(w)
           \/ \E e \in Events : FallsDue(e) \/ LeaseLapses(e)
           \/ \E g \in Groups : WakeDeferred(g)
           \/ RequeueExpiredLeases
           \/ UNCHANGED vars
  BY <1>3, QuietSteps DEF ClaimLost
<1> QED
  BY <1>1, <1>2, <1>3 DEF Next

\* The outbox keeps its promise: a fate is sealed once, on an outcome that a
\* run of the handler reported, under every interleaving of claims, overruns,
\* crashes, requeues and wakes.
THEOREM OutboxKeepsItsPromise == Spec => AtLeastOnce
<1> QED
  BY RefinedInit, RefinedStep, OutboxInvariance, PTL DEF Spec, AtLeastOnce, Promise!Spec
-----------------------------------------------------------------------------
(***************************************************************************)
(* Repeated successes.  A lease reports once, so successes are at most the *)
(* claims; the claims that were deferred or failed have reported something *)
(* else, and all but the newest of the others have lapsed.                 *)
(***************************************************************************)
\* A lease that was handed out has one holder and one report at most.
Unreported(w) == worker[w].phase = "handling" =>
  \A r \in reports : ~(r.event = worker[w].event /\ r.lease = worker[w].lease)

Apart(v, w) == Busy(v) /\ Busy(w) /\ v # w =>
  worker[v].event # worker[w].event \/ worker[v].lease # worker[w].lease

ReportsInv ==
  /\ IsFiniteSet(reports)
  /\ \A r \in reports : r.lease \in 1 .. tally[r.event].claims
  /\ \A q, r \in reports : q.event = r.event /\ q.lease = r.lease => q = r
  /\ \A w \in Workers : Unreported(w)
  /\ \A v, w \in Workers : Apart(v, w)

\* The reports of the claims that are over and came to nothing.
Wasted(e) == {r \in reports : /\ r.event = e /\ r.outcome \in {"deferred", "retry"}
                             /\ (row[e].status # "processing" \/ r.lease # tally[e].claims)}

\* The accounts of an event: its claims, and the reports behind its deferrals
\* and failures.
Balanced(e) ==
  /\ tally[e].claims <= tally[e].deferred + tally[e].failed + tally[e].lapsed
                          + (IF row[e].status \in {"absent", "pending"} THEN 0 ELSE 1)
  /\ tally[e].deferred + tally[e].failed <= Cardinality(Wasted(e))

\* What one step may do to the row and the accounts of an event.
Stays(e) == row'[e].status = row[e].status /\ tally'[e] = tally[e]
Claimed(e) ==
  /\ row[e].status = "pending" /\ row'[e].status = "processing"
  /\ tally'[e].claims = tally[e].claims + 1 /\ tally'[e].deferred = tally[e].deferred
  /\ tally'[e].failed = tally[e].failed /\ tally'[e].lapsed = tally[e].lapsed
Closed(e) ==
  /\ row[e].status = "processing" /\ row'[e].status # "processing"
  /\ tally'[e].claims = tally[e].claims
  /\ \/ row'[e].status \in Settled /\ tally'[e] = tally[e]
     \/ /\ row'[e].status = "pending" /\ tally'[e].lapsed = tally[e].lapsed + 1
        /\ tally'[e].deferred = tally[e].deferred /\ tally'[e].failed = tally[e].failed
     \/ /\ tally'[e].deferred + tally'[e].failed = tally[e].deferred + tally[e].failed + 1
        /\ tally'[e].lapsed = tally[e].lapsed
        /\ \E r \in reports : /\ r.event = e /\ r.lease = tally[e].claims
                              /\ r.outcome \in {"deferred", "retry"}
Accounted(e) ==
  \/ Stays(e) \/ Claimed(e) \/ Closed(e)
  \/ row[e].status = "absent" /\ row'[e].status = "pending" /\ tally'[e] = tally[e]

\* The call of a worker that owns its row closes the claim; every other one
\* leaves the accounts alone.
LEMMA FinishAccounts ==
  ASSUME IInv, NEW w \in Workers, Busy(w), NEW r, NEW t, Finish(w, r, t),
         r.status \notin {"processing", "absent"},
         t.claims = tally[worker[w].event].claims,
         \/ r.status \in Settled /\ t = tally[worker[w].event]
         \/ /\ worker[w].phase \in {"returned", "counted"}
            /\ worker[w].outcome \in {"deferred", "retry"}
            /\ t.deferred + t.failed = tally[worker[w].event].deferred
                                         + tally[worker[w].event].failed + 1
            /\ t.lapsed = tally[worker[w].event].lapsed
  PROVE  \A f \in Events : Accounted(f)
<1>1. PICK e \in Events : e = worker[w].event /\ row[e] \in Row
  BY OwnerKnows
<1>2. CASE ~Owns(w)
  BY <1>2 DEF Finish, Accounted, Stays
<1>3. CASE Owns(w)
  <2>1. row' = [row EXCEPT ![e] = r] /\ tally' = [tally EXCEPT ![e] = t]
    BY <1>1, <1>3 DEF Finish
  <2>2. row'[e] = r /\ tally'[e] = t
        /\ \A f \in Events : f # e => row'[f] = row[f] /\ tally'[f] = tally[f]
    BY <2>1 DEF IInv, Types
  <2>3. row[e].status = "processing" /\ worker[w].lease = tally[e].claims
    BY <1>1, <1>3, OwnerKnows
  <2>4. worker[w].phase \in {"returned", "counted"} =>
          \E q \in reports : /\ q.event = e /\ q.lease = tally[e].claims
                            /\ q.outcome = worker[w].outcome
    <3>1. worker[w].phase \in {"returned", "counted"} =>
            [event |-> e, lease |-> worker[w].lease, outcome |-> worker[w].outcome] \in reports
      BY <1>1 DEF IInv, WorkerOK
    <3> QED
      BY <2>3, <3>1
  <2>5. Closed(e)
    BY <1>1, <2>2, <2>3, <2>4 DEF Closed
  <2>6. \A f \in Events : f # e => Stays(f)
    BY <2>2 DEF Stays
  <2> QED
    BY <2>5, <2>6 DEF Accounted
<1> QED
  BY <1>2, <1>3

\* The counters of an event, one of them increased.
LEMMA Increased ==
  ASSUME NEW t \in Tally
  PROVE  /\ LET q == [t EXCEPT !.deferred = @ + 1] IN
              /\ q.claims = t.claims /\ q.lapsed = t.lapsed
              /\ q.deferred + q.failed = t.deferred + t.failed + 1
         /\ LET q == [t EXCEPT !.failed = @ + 1] IN
              /\ q.claims = t.claims /\ q.lapsed = t.lapsed
              /\ q.deferred + q.failed = t.deferred + t.failed + 1
         /\ LET q == [t EXCEPT !.lapsed = @ + 1] IN
              /\ q.claims = t.claims /\ q.lapsed = t.lapsed + 1
              /\ q.deferred = t.deferred /\ q.failed = t.failed
         /\ LET q == [t EXCEPT !.claims = @ + 1] IN
              /\ q.claims = t.claims + 1 /\ q.lapsed = t.lapsed
              /\ q.deferred = t.deferred /\ q.failed = t.failed
<1>1. LET q == [t EXCEPT !.deferred = @ + 1] IN
        /\ q.claims = t.claims /\ q.lapsed = t.lapsed
        /\ q.deferred + q.failed = t.deferred + t.failed + 1
  BY DEF Tally
<1>2. LET q == [t EXCEPT !.failed = @ + 1] IN
        /\ q.claims = t.claims /\ q.lapsed = t.lapsed
        /\ q.deferred + q.failed = t.deferred + t.failed + 1
  BY DEF Tally
<1>3. LET q == [t EXCEPT !.lapsed = @ + 1] IN
        /\ q.claims = t.claims /\ q.lapsed = t.lapsed + 1
        /\ q.deferred = t.deferred /\ q.failed = t.failed
  BY DEF Tally
<1>4. LET q == [t EXCEPT !.claims = @ + 1] IN
        /\ q.claims = t.claims + 1 /\ q.lapsed = t.lapsed
        /\ q.deferred = t.deferred /\ q.failed = t.failed
  BY DEF Tally
<1> QED
  BY <1>1, <1>2, <1>3, <1>4

\* Every call by which a worker gives up its row is accounted for.
LEMMA CallsAccount ==
  ASSUME IInv, NEW w \in Workers,
         \/ MarkCompleted(w) \/ MarkSuperseded(w) \/ MarkDeadLetter(w)
         \/ MarkDeferred(w) \/ MarkFailedWrite(w)
  PROVE  \A f \in Events : Accounted(f)
<1>1. Busy(w)
  BY DEF MarkCompleted, MarkSuperseded, MarkDeadLetter, MarkDeferred, MarkFailedWrite, Returned, Busy
<1>2. PICK e \in Events : e = worker[w].event /\ row[e] \in Row /\ tally[e] \in Tally
  BY <1>1, OwnerKnows
<1>3. /\ [row[e] EXCEPT !.status = "completed"].status = "completed"
      /\ \A st \in Statuses : Released(row[e], st).status = st /\ Released(row[e], st) \in Row
      /\ \A q \in Row : /\ [q EXCEPT !.due = FALSE].status = q.status
                        /\ \A n : [q EXCEPT !.due = FALSE, !.attempts = n].status = q.status
  BY <1>2, StatusKept
<1>4. {"completed", "superseded", "dead_letter", "pending"} \subseteq Statuses
      /\ {"completed", "superseded", "dead_letter"} \subseteq Settled
  BY DEF Statuses, Settled
<1>5. CASE MarkCompleted(w)
  <2> DEFINE r == [row[e] EXCEPT !.status = "completed"]
  <2>1. Finish(w, r, tally[e]) /\ r.status = "completed"
    BY <1>2, <1>3, <1>5 DEF MarkCompleted
  <2> HIDE DEF r
  <2> QED
    BY <1>1, <1>2, <1>4, <2>1, FinishAccounts
<1>6. CASE MarkSuperseded(w)
  BY <1>1, <1>2, <1>3, <1>4, <1>6, FinishAccounts DEF MarkSuperseded
<1>7. CASE MarkDeadLetter(w)
  BY <1>1, <1>2, <1>3, <1>4, <1>7, FinishAccounts DEF MarkDeadLetter
<1>8. CASE MarkDeferred(w)
  <2> DEFINE r == [Released(row[e], "pending") EXCEPT !.due = FALSE, !.attempts = Refunded(row[e])]
             t == [tally[e] EXCEPT !.deferred = @ + 1]
  <2>1. /\ Finish(w, r, t) /\ r.status = "pending"
        /\ worker[w].phase = "returned" /\ worker[w].outcome = "deferred"
    BY <1>2, <1>3, <1>4, <1>8 DEF MarkDeferred, Returned
  <2>2. /\ t.claims = tally[e].claims /\ t.lapsed = tally[e].lapsed
        /\ t.deferred + t.failed = tally[e].deferred + tally[e].failed + 1
    BY <1>2, Increased
  <2> HIDE DEF r, t
  <2> QED
    BY <1>1, <1>2, <2>1, <2>2, FinishAccounts
<1>9. CASE MarkFailedWrite(w)
  <2> DEFINE r == IF worker[w].spent THEN Released(row[e], "dead_letter")
                  ELSE [Released(row[e], "pending") EXCEPT !.due = FALSE]
             t == [tally[e] EXCEPT !.failed = @ + 1]
  <2>1. Finish(w, r, t) /\ r.status \in {"pending", "dead_letter"}
    BY <1>2, <1>3, <1>4, <1>9 DEF MarkFailedWrite
  <2>2. worker[w].phase = "counted" /\ worker[w].outcome = "retry"
    BY <1>1, <1>9 DEF MarkFailedWrite, IInv, WorkerOK
  <2>3. /\ t.claims = tally[e].claims /\ t.lapsed = tally[e].lapsed
        /\ t.deferred + t.failed = tally[e].deferred + tally[e].failed + 1
    BY <1>2, Increased
  <2> HIDE DEF r, t
  <2> QED
    BY <1>1, <1>2, <2>1, <2>2, <2>3, FinishAccounts
<1> QED
  BY <1>5, <1>6, <1>7, <1>8, <1>9

\* The claim opens an account of its event.
LEMMA TakeAccounts ==
  ASSUME IInv, NEW w \in Workers, NEW e \in Events, Take(w, e)
  PROVE  /\ \A f \in Events : Accounted(f)
         /\ tally'[e].claims = tally[e].claims + 1
         /\ \A f \in Events : f # e => tally'[f] = tally[f]
<1>1. /\ row[e].status = "pending" /\ row[e] \in Row /\ tally[e] \in Tally
      /\ row \in [Events -> Row] /\ tally \in [Events -> Tally]
  BY DEF Take, Foremost, Claimable, IInv, Types
<1>2. row'[e].status = "processing" /\ \A f \in Events : f # e => row'[f] = row[f]
  BY <1>1 DEF Take, Row
<1>3. tally'[e] = [tally[e] EXCEPT !.claims = @ + 1] /\ \A f \in Events : f # e => tally'[f] = tally[f]
  BY <1>1 DEF Take
<1>4. Claimed(e)
  BY <1>1, <1>2, <1>3, Increased DEF Claimed
<1>5. \A f \in Events : f # e => Stays(f)
  BY <1>2, <1>3 DEF Stays
<1>6. tally'[e].claims = tally[e].claims + 1
  BY <1>4 DEF Claimed
<1> QED
  BY <1>3, <1>4, <1>5, <1>6 DEF Accounted

\* Every step is accounted for, event by event.
LEMMA EveryStepAccounts == IInv /\ [Next]_vars => \A e \in Events : Accounted(e)
<1> SUFFICES ASSUME IInv, [Next]_vars PROVE \A e \in Events : Accounted(e)
  OBVIOUS
<1>0. row \in [Events -> Row] /\ tally \in [Events -> Tally]
  BY DEF IInv, Types
<1>1. ASSUME NEW w \in Workers, WorkerNext(w) \/ Abandon(w) PROVE \A e \in Events : Accounted(e)
  <2>1. CASE \E e \in Events : ClaimNext(w, e)
    BY <2>1, TakeAccounts DEF ClaimNext
  <2>2. CASE (\E outcome \in Outcomes : Handle(w, outcome)) \/ MarkFailedRead(w) \/ Abandon(w)
    BY <2>2 DEF Handle, MarkFailedRead, Abandon, Accounted, Stays
  <2> QED
    BY <1>1, <2>1, <2>2, CallsAccount DEF WorkerNext
<1>2. CASE \E w \in Workers, e \in Events : ClaimLost(w, e)
  BY <1>2, TakeAccounts DEF ClaimLost
<1>3. ASSUME NEW e \in Events, Enqueue(e) PROVE \A f \in Events : Accounted(f)
  <2>1. /\ row[e].status = "absent" /\ row'[e].status = "pending" /\ tally' = tally
        /\ \A f \in Events : f # e => row'[f] = row[f]
    BY <1>0, <1>3 DEF Enqueue, Row
  <2> QED
    BY <2>1 DEF Accounted, Stays
<1>4. ASSUME NEW e \in Events, FallsDue(e) \/ LeaseLapses(e) PROVE \A f \in Events : Accounted(f)
  <2>1. \A r \in Row : [r EXCEPT !.due = TRUE].status = r.status
                      /\ [r EXCEPT !.expiry = "past"].status = r.status
    BY StatusKept
  <2>2. tally' = tally /\ \A f \in Events : row'[f].status = row[f].status
    BY <1>0, <1>4, <2>1 DEF FallsDue, LeaseLapses
  <2> QED
    BY <2>2 DEF Accounted, Stays
<1>5. ASSUME NEW g \in Groups, WakeDeferred(g) PROVE \A f \in Events : Accounted(f)
  <2>1. \A r \in Row : [r EXCEPT !.due = TRUE].status = r.status
    BY StatusKept
  <2>2. tally' = tally /\ \A f \in Events : row'[f].status = row[f].status
    BY <1>0, <1>5, <2>1 DEF WakeDeferred
  <2> QED
    BY <2>2 DEF Accounted, Stays
<1>6. CASE RequeueExpiredLeases
  <2>1. ASSUME NEW f \in Events PROVE Accounted(f)
    <3>1. row[f] \in Row /\ tally[f] \in Tally
      BY <1>0
    <3>2. CASE f \in Lapsed
      <4>1. row'[f] = Released(row[f], "pending") /\ tally'[f] = [tally[f] EXCEPT !.lapsed = @ + 1]
        BY <1>6, <3>2 DEF RequeueExpiredLeases
      <4>2. row'[f].status = "pending" /\ row[f].status = "processing"
        BY <3>1, <3>2, <4>1, StatusKept DEF Lapsed, Statuses
      <4> QED
        BY <3>1, <4>1, <4>2, Increased DEF Accounted, Closed
    <3>3. CASE f \notin Lapsed
      BY <1>6, <3>3 DEF RequeueExpiredLeases, Accounted, Stays
    <3> QED
      BY <3>2, <3>3
  <2> QED
    BY <2>1
<1>7. CASE UNCHANGED vars
  BY <1>7 DEF vars, Accounted, Stays
<1> QED
  BY <1>1, <1>2, <1>3, <1>4, <1>5, <1>6, <1>7 DEF Next
-----------------------------------------------------------------------------
\* Leases and reports stay apart under every step.
LEMMA InitReportsInv == Init => ReportsInv /\ \A e \in Events : Balanced(e)
<1> SUFFICES ASSUME Init PROVE ReportsInv /\ \A e \in Events : Balanced(e)
  OBVIOUS
<1>1. reports = {} /\ \A w \in Workers : ~Busy(w) /\ worker[w].phase = "idle"
  BY DEF Init, Busy, Idle
<1>2. ReportsInv
  BY <1>1, FS_EmptySet DEF ReportsInv, Unreported, Apart
<1>3. ASSUME NEW e \in Events PROVE Balanced(e)
  <2>1. Wasted(e) = {}
    BY <1>1 DEF Wasted
  <2> QED
    BY <2>1, FS_EmptySet DEF Init, Balanced, NoRow, NoTally
<1> QED
  BY <1>2, <1>3

\* A step without a claim and without a report, in which no worker takes up a
\* handler.
LEMMA NoNews ==
  ASSUME ReportsInv, reports' = reports, IInv,
         \A e \in Events : tally'[e].claims = tally[e].claims,
         \A w \in Workers :
           \/ worker'[w] = worker[w] \/ worker'[w].phase = "idle"
           \/ /\ Busy(w) /\ worker'[w].phase # "handling"
              /\ worker'[w].event = worker[w].event /\ worker'[w].lease = worker[w].lease
  PROVE  ReportsInv'
<1>1. \A w \in Workers : Unreported(w)'
  BY DEF ReportsInv, Unreported
<1>2. \A v, w \in Workers : Apart(v, w)'
  BY DEF ReportsInv, Apart, Busy
<1>3. \A r \in reports : r.event \in Events
  BY DEF IInv, Types, Report
<1> QED
  BY <1>1, <1>2, <1>3 DEF ReportsInv

\* A claim: its lease is newer than any that has a holder or a report.
LEMMA ClaimNews ==
  ASSUME IInv, ReportsInv, NEW w \in Workers, NEW e \in Events, Take(w, e),
         \/ worker' = worker
         \/ worker' = [worker EXCEPT ![w] = [phase |-> "handling", event |-> e, lease |-> FreshLease(e),
                                            outcome |-> "ok", spent |-> FALSE]]
  PROVE  ReportsInv'
<1>1. /\ reports' = reports /\ tally'[e].claims = tally[e].claims + 1 /\ tally[e].claims \in Nat
      /\ \A f \in Events : f # e => tally'[f] = tally[f]
  BY TakeAccounts DEF Take, IInv, Types, Tally
<1>2. \A r \in reports : r.event \in Events /\ tally[r.event].claims \in Nat /\ r.lease \in Nat
  BY DEF IInv, Types, Report, Tally
<1>3. \A r \in reports : r.lease \in 1 .. tally'[r.event].claims
  <2>1. ASSUME NEW r \in reports PROVE r.lease \in 1 .. tally'[r.event].claims
    BY <1>1, <1>2 DEF ReportsInv
  <2> QED
    BY <2>1
<1>4. CASE worker' = worker
  BY <1>1, <1>3, <1>4 DEF ReportsInv, Unreported, Apart, Busy
<1>5. CASE worker' = [worker EXCEPT ![w] = [phase |-> "handling", event |-> e, lease |-> FreshLease(e),
                                            outcome |-> "ok", spent |-> FALSE]]
  <2>1. /\ worker'[w].event = e /\ worker'[w].lease = tally[e].claims + 1
        /\ \A v \in Workers : v # w => worker'[v] = worker[v]
    BY <1>5 DEF IInv, Types, FreshLease
  <2>2. \A r \in reports : r.event = e => r.lease # tally[e].claims + 1
    BY <1>1, <1>2 DEF ReportsInv
  <2>3. ASSUME NEW v \in Workers, Busy(v), worker[v].event = e
        PROVE  worker[v].lease # tally[e].claims + 1
    <3>1. worker[v].lease \in 1 .. tally[e].claims
      BY <2>3 DEF IInv, WorkerOK
    <3> QED
      BY <1>1, <3>1
  <2>4. \A v \in Workers : Unreported(v)'
    BY <1>1, <2>1, <2>2 DEF ReportsInv, Unreported
  <2>5. \A u, v \in Workers : Apart(u, v)'
    BY <2>1, <2>3 DEF ReportsInv, Apart, Busy
  <2> QED
    BY <1>1, <1>3, <2>4, <2>5 DEF ReportsInv
<1> QED
  BY <1>4, <1>5

\* A handler returns: the first report of its lease.
LEMMA HandlerNews ==
  ASSUME IInv, ReportsInv, NEW w \in Workers, NEW outcome \in Outcomes, Handle(w, outcome)
  PROVE  ReportsInv'
<1>1. Busy(w) /\ worker[w].phase = "handling"
  BY DEF Handle, Busy
<1>2. worker[w] \in Holding /\ worker[w].event \in Events
      /\ worker[w].lease \in 1 .. tally[worker[w].event].claims
  BY <1>1, OwnerKnows DEF IInv, WorkerOK
<1> DEFINE q == [event |-> worker[w].event, lease |-> worker[w].lease, outcome |-> outcome]
           h == [worker[w] EXCEPT !.phase = "returned", !.outcome = outcome]
<1>3. /\ reports' = reports \cup {q} /\ tally' = tally
      /\ worker' = [worker EXCEPT ![w] = h]
  BY DEF Handle
<1>4. h.phase = "returned" /\ h.event = worker[w].event /\ h.lease = worker[w].lease
  BY <1>2 DEF Holding
<1>5. q.event = worker[w].event /\ q.lease = worker[w].lease
  OBVIOUS
<1> HIDE DEF q, h
<1>6. worker'[w] = h /\ \A v \in Workers : v # w => worker'[v] = worker[v]
  BY <1>3 DEF IInv, Types
<1>7. IsFiniteSet(reports')
  BY <1>3, FS_AddElement DEF ReportsInv
<1>8. \A r \in reports' : r.lease \in 1 .. tally'[r.event].claims
  BY <1>2, <1>3, <1>5 DEF ReportsInv
<1>9. \A r \in reports : ~(r.event = q.event /\ r.lease = q.lease)
  BY <1>1, <1>5 DEF ReportsInv, Unreported
<1>10. \A p, r \in reports' : p.event = r.event /\ p.lease = r.lease => p = r
  BY <1>3, <1>9 DEF ReportsInv
<1>11. ASSUME NEW v \in Workers PROVE Unreported(v)'
  <2>1. CASE v = w
    BY <1>4, <1>6, <2>1 DEF Unreported
  <2>2. CASE v # w
    <3>1. Unreported(v) /\ Apart(v, w) /\ worker'[v] = worker[v]
      BY <1>6, <2>2 DEF ReportsInv
    <3> QED
      BY <1>1, <1>3, <1>5, <2>2, <3>1 DEF Unreported, Apart, Busy
  <2> QED
    BY <2>1, <2>2
<1>12. \A u, v \in Workers : Apart(u, v)'
  BY <1>1, <1>4, <1>6 DEF ReportsInv, Apart, Busy
<1> QED
  BY <1>7, <1>8, <1>10, <1>11, <1>12 DEF ReportsInv

\* Every step keeps the reports in order.
LEMMA NextReportsInv == IInv /\ ReportsInv /\ [Next]_vars => ReportsInv'
<1> SUFFICES ASSUME IInv, ReportsInv, [Next]_vars PROVE ReportsInv'
  OBVIOUS
<1>0. worker \in [Workers -> {Idle} \cup Holding] /\ Idle.phase = "idle"
  BY DEF IInv, Types, Idle
<1>a. \A e \in Events : ~Claimed(e) => tally'[e].claims = tally[e].claims
  BY EveryStepAccounts DEF Accounted, Stays, Closed
<1>1. ASSUME NEW w \in Workers, WorkerNext(w) \/ Abandon(w) PROVE ReportsInv'
  <2>1. CASE \E e \in Events : ClaimNext(w, e)
    BY <2>1, ClaimNews DEF ClaimNext
  <2>2. CASE \E outcome \in Outcomes : Handle(w, outcome)
    BY <2>2, HandlerNews
  <2>3. CASE MarkFailedRead(w) \/ Abandon(w) \/ MarkCompleted(w) \/ MarkSuperseded(w)
               \/ MarkDeadLetter(w) \/ MarkDeferred(w) \/ MarkFailedWrite(w)
    <3>1. Busy(w) /\ reports' = reports
      BY <2>3 DEF MarkFailedRead, Abandon, MarkCompleted, MarkSuperseded, MarkDeadLetter,
         MarkDeferred, MarkFailedWrite, Finish, Returned, Busy
    <3>2. worker[w] \in Holding
      BY <3>1, OwnerKnows
    <3>3. \A f \in Events : tally'[f].claims = tally[f].claims
      <4>1. CASE MarkFailedRead(w) \/ Abandon(w)
        BY <4>1 DEF MarkFailedRead, Abandon
      <4>2. CASE ~(MarkFailedRead(w) \/ Abandon(w))
        <5>1. ASSUME NEW f \in Events PROVE row[f].status # "pending" \/ row'[f] = row[f]
          BY <2>3, <4>2 DEF MarkCompleted, MarkSuperseded, MarkDeadLetter, MarkDeferred,
             MarkFailedWrite, Finish, Owns, IInv, Types
        <5> QED
          BY <1>a, <5>1 DEF Claimed
      <4> QED
        BY <4>1, <4>2
    <3>4. \A v \in Workers : v # w => worker'[v] = worker[v]
      BY <1>0, <2>3 DEF MarkFailedRead, Abandon, MarkCompleted, MarkSuperseded, MarkDeadLetter,
         MarkDeferred, MarkFailedWrite, Finish
    <3>5. CASE MarkFailedRead(w)
      <4>1. PICK b : worker' = [worker EXCEPT ![w] = [worker[w] EXCEPT !.phase = "counted", !.spent = b]]
        BY <3>5 DEF MarkFailedRead
      <4>2. /\ worker'[w].phase = "counted" /\ worker'[w].event = worker[w].event
            /\ worker'[w].lease = worker[w].lease
        BY <1>0, <3>2, <4>1 DEF Holding
      <4> QED
        BY <3>1, <3>3, <3>4, <4>2, NoNews
    <3>6. CASE ~MarkFailedRead(w)
      <4>1. worker'[w].phase = "idle"
        BY <1>0, <2>3, <3>6 DEF Abandon, MarkCompleted, MarkSuperseded, MarkDeadLetter,
           MarkDeferred, MarkFailedWrite, Finish
      <4> QED
        BY <3>1, <3>3, <3>4, <4>1, NoNews
    <3> QED
      BY <3>5, <3>6
  <2> QED
    BY <1>1, <2>1, <2>2, <2>3 DEF WorkerNext
<1>2. CASE \E w \in Workers, e \in Events : ClaimLost(w, e)
  BY <1>2, ClaimNews DEF ClaimLost
<1>3. CASE \/ \E e \in Events : Enqueue(e) \/ FallsDue(e) \/ LeaseLapses(e)
           \/ \E g \in Groups : WakeDeferred(g)
           \/ RequeueExpiredLeases
           \/ UNCHANGED vars
  <2>1. worker' = worker /\ reports' = reports
    BY <1>3 DEF Enqueue, FallsDue, LeaseLapses, WakeDeferred, RequeueExpiredLeases, vars
  <2>2. \A e \in Events : tally'[e].claims = tally[e].claims
    <3>1. CASE RequeueExpiredLeases
      BY <3>1 DEF RequeueExpiredLeases, IInv, Types, Tally
    <3>2. CASE ~RequeueExpiredLeases
      BY <1>3, <3>2 DEF Enqueue, FallsDue, LeaseLapses, WakeDeferred, vars
    <3> QED
      BY <3>1, <3>2
  <2> QED
    BY <2>1, <2>2, NoNews
<1> QED
  BY <1>1, <1>2, <1>3 DEF Next

-----------------------------------------------------------------------------
\* Reports are only added.
LEMMA ReportsGrow == [Next]_vars => reports \subseteq reports'
BY DEF Next, WorkerNext, ClaimNext, Take, Handle, MarkCompleted, MarkSuperseded, MarkDeadLetter,
   MarkDeferred, MarkFailedRead, MarkFailedWrite, Finish, Abandon, ClaimLost, Enqueue, FallsDue,
   LeaseLapses, WakeDeferred, RequeueExpiredLeases, vars

\* What has come to nothing stays so; a claim that ends in a deferral or a
\* failure adds its report.
LEMMA WasteGrows ==
  ASSUME IInv, ReportsInv, ReportsInv', reports \subseteq reports', NEW e \in Events, Accounted(e)
  PROVE  /\ IsFiniteSet(Wasted(e)) /\ IsFiniteSet(Wasted(e)')
         /\ Wasted(e) \subseteq Wasted(e)'
         /\ \A r \in reports : /\ Closed(e) /\ r.event = e /\ r.lease = tally[e].claims
                               /\ r.outcome \in {"deferred", "retry"}
                               => r \in Wasted(e)' /\ r \notin Wasted(e)
<1>1. Wasted(e) \in SUBSET reports /\ Wasted(e)' \in SUBSET reports'
  BY DEF Wasted
<1>2. IsFiniteSet(Wasted(e)) /\ IsFiniteSet(Wasted(e)')
  BY <1>1, FS_Subset DEF ReportsInv
<1>3. tally[e].claims \in Nat
  BY DEF IInv, Types, Tally
<1>4. ASSUME NEW r \in reports, r.event = e PROVE r.lease # tally[e].claims + 1
  BY <1>3, <1>4 DEF ReportsInv
<1>5. Wasted(e) \subseteq Wasted(e)'
  BY <1>4 DEF Wasted, Accounted, Stays, Claimed, Closed
<1>6. ASSUME NEW r \in reports, Closed(e), r.event = e, r.lease = tally[e].claims,
             r.outcome \in {"deferred", "retry"}
      PROVE  r \in Wasted(e)' /\ r \notin Wasted(e)
  BY <1>6 DEF Wasted, Closed
<1> QED
  BY <1>2, <1>5, <1>6

\* The accounts of one event, after whatever may happen to it.
LEMMA BooksBalance ==
  ASSUME IInv, IInv', ReportsInv, ReportsInv', reports \subseteq reports',
         NEW e \in Events, Accounted(e), Balanced(e)
  PROVE  Balanced(e)'
<1>1. /\ tally[e].claims \in Nat /\ tally[e].deferred \in Nat /\ tally[e].failed \in Nat
      /\ tally[e].lapsed \in Nat
      /\ tally'[e].claims \in Nat /\ tally'[e].deferred \in Nat /\ tally'[e].failed \in Nat
      /\ tally'[e].lapsed \in Nat
  BY DEF IInv, Types, Tally
<1>2. /\ IsFiniteSet(Wasted(e)) /\ IsFiniteSet(Wasted(e)')
      /\ Cardinality(Wasted(e)) \in Nat /\ Cardinality(Wasted(e)') \in Nat
      /\ Cardinality(Wasted(e)) <= Cardinality(Wasted(e)')
  BY WasteGrows, FS_Subset, FS_CardinalityType
<1>3. tally'[e].claims <= tally'[e].deferred + tally'[e].failed + tally'[e].lapsed
                           + (IF row'[e].status \in {"absent", "pending"} THEN 0 ELSE 1)
  <2>1. CASE Stays(e) \/ Claimed(e)
    BY <1>1, <2>1 DEF Balanced, Stays, Claimed
  <2>2. CASE Closed(e)
    BY <1>1, <2>2 DEF Balanced, Closed, Settled
  <2>3. CASE row[e].status = "absent" /\ row'[e].status = "pending" /\ tally'[e] = tally[e]
    BY <1>1, <2>3 DEF Balanced
  <2> QED
    BY <2>1, <2>2, <2>3 DEF Accounted
<1>4. tally'[e].deferred + tally'[e].failed <= Cardinality(Wasted(e)')
  <2>1. CASE tally'[e].deferred + tally'[e].failed = tally[e].deferred + tally[e].failed
    BY <1>1, <1>2, <2>1 DEF Balanced
  <2>2. CASE tally'[e].deferred + tally'[e].failed # tally[e].deferred + tally[e].failed
    <3>1. /\ Closed(e)
          /\ tally'[e].deferred + tally'[e].failed = tally[e].deferred + tally[e].failed + 1
          /\ \E r \in reports : /\ r.event = e /\ r.lease = tally[e].claims
                                /\ r.outcome \in {"deferred", "retry"}
      BY <2>2 DEF Accounted, Stays, Claimed, Closed
    <3>2. PICK r \in Wasted(e)' : r \notin Wasted(e)
      BY <3>1, WasteGrows
    <3>3. Wasted(e) \cup {r} \in SUBSET Wasted(e)'
      BY <3>2, WasteGrows
    <3>4. Cardinality(Wasted(e) \cup {r}) = Cardinality(Wasted(e)) + 1
      BY <1>2, <3>2, FS_AddElement
    <3>5. Cardinality(Wasted(e) \cup {r}) <= Cardinality(Wasted(e)')
      BY <1>2, <3>3, FS_Subset
    <3> QED
      BY <1>1, <1>2, <3>1, <3>4, <3>5 DEF Balanced
  <2> QED
    BY <2>1, <2>2
<1> QED
  BY <1>3, <1>4 DEF Balanced

AccountsInv == ReportsInv /\ \A e \in Events : Balanced(e)

\* The accounts of every event balance.
THEOREM AccountsInvariance == Spec => []AccountsInv
<1>1. Init => AccountsInv
  BY InitReportsInv DEF AccountsInv
<1>2. IInv /\ IInv' /\ AccountsInv /\ [Next]_vars => AccountsInv'
  BY NextReportsInv, EveryStepAccounts, ReportsGrow, BooksBalance DEF AccountsInv
<1> QED
  BY <1>1, <1>2, OutboxInvariance, PTL DEF Spec

\* Successes and wasted claims have leases of their own, so that together they
\* are not more than the claims.
LEMMA SuccessesFit ==
  ASSUME IInv, ReportsInv, NEW e \in Events
  PROVE  /\ Cardinality(Successes(e)) \in Nat /\ Cardinality(Wasted(e)) \in Nat
         /\ Cardinality(Successes(e)) + Cardinality(Wasted(e)) <= tally[e].claims
<1> DEFINE S == Successes(e)
           W == Wasted(e)
           n == tally[e].claims
           f == [r \in S \cup W |-> r.lease]
<1>1. S \in SUBSET reports /\ W \in SUBSET reports /\ S \cap W = {} /\ n \in Nat
      /\ \A r \in S \cup W : r \in reports /\ r.event = e
  BY DEF Successes, Wasted, IInv, Types, Tally
<1>2. IsFiniteSet(S) /\ IsFiniteSet(W)
  BY <1>1, FS_Subset DEF ReportsInv
<1>3. \A r \in S \cup W : r.lease \in 1 .. n
  BY <1>1 DEF ReportsInv
<1>4. \A q, r \in S \cup W : q.lease = r.lease => q = r
  BY <1>1 DEF ReportsInv
<1> HIDE DEF S, W, n
<1>5. f \in Injection(S \cup W, 1 .. n)
  BY <1>3, <1>4 DEF Injection, IsInjective
<1>6. IsFiniteSet(1 .. n) /\ Cardinality(1 .. n) = n
  BY <1>1, FS_Interval
<1>7. Cardinality(S \cup W) <= n
  BY <1>5, <1>6, FS_Injection
<1>8. Cardinality(S \cup W) = Cardinality(S) + Cardinality(W)
  <2>1. Cardinality(S \cap W) = 0
    BY <1>1, FS_EmptySet
  <2>2. Cardinality(S) \in Nat /\ Cardinality(W) \in Nat
    BY <1>2, FS_CardinalityType
  <2>3. Cardinality(S \cup W) = Cardinality(S) + Cardinality(W) - Cardinality(S \cap W)
    BY <1>2, FS_Union
  <2> QED
    BY <2>1, <2>2, <2>3
<1>9. Cardinality(S) \in Nat /\ Cardinality(W) \in Nat
  BY <1>2, FS_CardinalityType
<1> QED
  BY <1>7, <1>8, <1>9 DEF S, W, n

\* At-least-once turns into more than once by lapsed leases alone: with any
\* number of workers, crashes and late returns, a handler succeeds for an
\* event at most once more than leases of the event lapsed.
THEOREM RepeatsAreLapses == Spec => []RepeatsNeedLapses
<1>1. IInv /\ AccountsInv => RepeatsNeedLapses
  <2> SUFFICES ASSUME IInv, AccountsInv, NEW e \in Events
               PROVE  Cardinality(Successes(e)) <= tally[e].lapsed + 1
    BY DEF RepeatsNeedLapses
  <2>1. /\ tally[e].claims \in Nat /\ tally[e].deferred \in Nat /\ tally[e].failed \in Nat
        /\ tally[e].lapsed \in Nat
    BY DEF IInv, Types, Tally
  <2>2. /\ Cardinality(Successes(e)) \in Nat /\ Cardinality(Wasted(e)) \in Nat
        /\ Cardinality(Successes(e)) + Cardinality(Wasted(e)) <= tally[e].claims
    BY SuccessesFit DEF AccountsInv
  <2>3. /\ tally[e].claims <= tally[e].deferred + tally[e].failed + tally[e].lapsed + 1
        /\ tally[e].deferred + tally[e].failed <= Cardinality(Wasted(e))
    <3>1. Balanced(e)
      BY DEF AccountsInv
    <3>2. CASE row[e].status \in {"absent", "pending"}
      BY <2>1, <3>1, <3>2 DEF Balanced
    <3>3. CASE row[e].status \notin {"absent", "pending"}
      BY <2>1, <3>1, <3>3 DEF Balanced
    <3> QED
      BY <3>2, <3>3
  <2> QED
    BY <2>1, <2>2, <2>3
<1> QED
  BY <1>1, OutboxInvariance, AccountsInvariance, PTL
=============================================================================
