--------------------------- MODULE JobStoreProofs ---------------------------
(***************************************************************************)
(* Theorems of JobStore, for every set of jobs and workers, every retry    *)
(* budget and every bound.                                                 *)
(***************************************************************************)
EXTENDS JobStore, TLAPS

\* A row stays a row when one column is written.
LEMMA ColumnTyping ==
  ASSUME NEW r \in Row
  PROVE  /\ \A v \in Statuses : [r EXCEPT !.status = v] \in Row
         /\ \A v \in Workers \cup {NoWorker} : [r EXCEPT !.worker = v] \in Row
         /\ \A v \in Leases \cup {NoLease} : [r EXCEPT !.lease = v] \in Row
         /\ \A v \in {"null", "live", "past"} : [r EXCEPT !.expiry = v] \in Row
         /\ \A v \in Nat : [r EXCEPT !.retry = v] \in Row
         /\ \A v \in Nat : [r EXCEPT !.rev = v] \in Row
         /\ \A v \in BOOLEAN : [r EXCEPT !.cancelled = v] \in Row
         /\ \A v \in BOOLEAN : [r EXCEPT !.deferred = v] \in Row
<1>1. \A v \in Statuses : [r EXCEPT !.status = v] \in Row
  BY DEF Row
<1>2. \A v \in Workers \cup {NoWorker} : [r EXCEPT !.worker = v] \in Row
  BY DEF Row
<1>3. \A v \in Leases \cup {NoLease} : [r EXCEPT !.lease = v] \in Row
  BY DEF Row
<1>4. \A v \in {"null", "live", "past"} : [r EXCEPT !.expiry = v] \in Row
  BY DEF Row
<1>5. \A v \in Nat : [r EXCEPT !.retry = v] \in Row
  BY DEF Row
<1>6. \A v \in Nat : [r EXCEPT !.rev = v] \in Row
  BY DEF Row
<1>7. \A v \in BOOLEAN : [r EXCEPT !.cancelled = v] \in Row
  BY DEF Row
<1>8. \A v \in BOOLEAN : [r EXCEPT !.deferred = v] \in Row
  BY DEF Row
<1> QED
  BY <1>1, <1>2, <1>3, <1>4, <1>5, <1>6, <1>7, <1>8

\* What Released makes of a row.
LEMMA ReleasedRow ==
  ASSUME NEW r \in Row, NEW st \in Statuses
  PROVE  /\ Released(r, st) \in Row
         /\ Released(r, st).status = st
         /\ Released(r, st).worker = NoWorker
         /\ Released(r, st).lease = NoLease
         /\ Released(r, st).expiry = "null"
         /\ Released(r, st).retry = r.retry
         /\ Released(r, st).rev = r.rev + 1
         /\ Released(r, st).cancelled = r.cancelled
         /\ Released(r, st).deferred = r.deferred
<1> DEFINE r1 == [r EXCEPT !.status = st]
           r2 == [r1 EXCEPT !.worker = NoWorker]
           r3 == [r2 EXCEPT !.lease = NoLease]
           r4 == [r3 EXCEPT !.expiry = "null"]
           r5 == [r4 EXCEPT !.rev = r.rev + 1]
<1>1. r1 \in Row
  BY ColumnTyping
<1>2. r2 \in Row
  <2> HIDE DEF r1
  <2> QED BY <1>1, ColumnTyping
<1>3. r3 \in Row
  <2> HIDE DEF r2
  <2> QED BY <1>2, ColumnTyping
<1>4. r4 \in Row
  <2> HIDE DEF r3
  <2> QED BY <1>3, ColumnTyping
<1>5. r5 \in Row
  <2>1. r.rev + 1 \in Nat
    BY DEF Row
  <2> HIDE DEF r4
  <2> QED BY <2>1, <1>4, ColumnTyping
<1>6. Released(r, st) = r5
  BY DEF Released, Row
<1>7. Released(r, st) \in Row
  <2> HIDE DEF r5
  <2> QED BY <1>5, <1>6
<1> QED
  BY <1>7 DEF Released, Row

\* What Claimed makes of a row.
LEMMA ClaimedRow ==
  ASSUME NEW r \in Row, NEW w \in Workers, NEW l \in Leases
  PROVE  /\ Claimed(r, w, l) \in Row
         /\ Claimed(r, w, l).status = "RUNNING"
         /\ Claimed(r, w, l).worker = w
         /\ Claimed(r, w, l).lease = l
         /\ Claimed(r, w, l).expiry = "live"
         /\ Claimed(r, w, l).retry = r.retry
         /\ Claimed(r, w, l).rev = r.rev + 1
         /\ Claimed(r, w, l).cancelled = r.cancelled
         /\ Claimed(r, w, l).deferred = r.deferred
<1> DEFINE r1 == [r EXCEPT !.status = "RUNNING"]
           r2 == [r1 EXCEPT !.worker = w]
           r3 == [r2 EXCEPT !.lease = l]
           r4 == [r3 EXCEPT !.expiry = "live"]
           r5 == [r4 EXCEPT !.rev = r.rev + 1]
<1>1. r1 \in Row
  BY ColumnTyping DEF Statuses
<1>2. r2 \in Row
  <2> HIDE DEF r1
  <2> QED BY <1>1, ColumnTyping
<1>3. r3 \in Row
  <2> HIDE DEF r2
  <2> QED BY <1>2, ColumnTyping
<1>4. r4 \in Row
  <2> HIDE DEF r3
  <2> QED BY <1>3, ColumnTyping
<1>5. r5 \in Row
  <2>1. r.rev + 1 \in Nat
    BY DEF Row
  <2> HIDE DEF r4
  <2> QED BY <2>1, <1>4, ColumnTyping
<1>6. Claimed(r, w, l) = r5
  BY DEF Claimed, Row
<1>7. Claimed(r, w, l) \in Row
  <2> HIDE DEF r5
  <2> QED BY <1>5, <1>6
<1> QED
  BY <1>7 DEF Claimed, Row

\* The rows that the actions write over a released one, and the smaller updates.
LEMMA WrittenRows ==
  ASSUME NEW r \in Row, NEW st \in Statuses
  PROVE  /\ [r EXCEPT !.status = st, !.rev = 1] \in Row
         /\ [r EXCEPT !.expiry = "live"] \in Row
         /\ [r EXCEPT !.expiry = "past"] \in Row
         /\ [Released(r, st) EXCEPT !.cancelled = TRUE] \in Row
         /\ [Released(r, st) EXCEPT !.deferred = FALSE] \in Row
         /\ [Released(r, st) EXCEPT !.deferred = TRUE] \in Row
         /\ Spent(r) \in Row
<1>1. [r EXCEPT !.status = st, !.rev = 1] \in Row
  BY DEF Row
<1>2. PICK q \in Row : q = Released(r, st)
  BY ReleasedRow
<1>3. Spent(r) \in Row
  <2>1. r.retry + 1 \in Nat
    BY DEF Row
  <2>2. PICK p \in Row : p = Released(r, "RETRY_WAIT")
    BY ReleasedRow DEF Statuses
  <2> QED BY <2>1, <2>2, ColumnTyping DEF Spent
<1> QED
  BY <1>1, <1>2, <1>3, ColumnTyping

\* Writing one row keeps the table a table and leaves the other rows alone.
LEMMA TableUpdate ==
  ASSUME row \in [Jobs -> Row], NEW j \in Jobs, NEW r \in Row, row' = [row EXCEPT ![j] = r]
  PROVE  /\ row' \in [Jobs -> Row]
         /\ row'[j] = r
         /\ \A k \in Jobs \ {j} : row'[k] = row[k]
OBVIOUS

\* A row read outside a transaction is a well-typed read.
LEMMA SnapshotType ==
  ASSUME TypeOK, NEW j \in Jobs, NEW op \in {"claim", "retry", "reap"}
  PROVE  Snapshot(op, j) \in Read
BY DEF TypeOK, Snapshot, Read, Row

\* Every step keeps the types.
LEMMA TypingStep ==
  ASSUME TypeOK, [Next]_vars
  PROVE  TypeOK'
<1> USE ConstantsAssumption
<1>0. CASE UNCHANGED vars
  BY <1>0 DEF TypeOK, vars
<1>1. ASSUME NEW j \in Jobs, NEW st \in {"QUEUED", "SCHEDULED"}, Create(j, st) PROVE TypeOK'
  <2>1. [row[j] EXCEPT !.status = st, !.rev = 1] \in Row
    BY WrittenRows DEF TypeOK, Statuses
  <2> QED BY <1>1, <2>1, TableUpdate DEF TypeOK, Create
<1>2. ASSUME NEW j \in Jobs, PromoteScheduled(j) PROVE TypeOK'
  <2>1. Released(row[j], "QUEUED") \in Row
    BY ReleasedRow DEF TypeOK, Statuses
  <2> QED BY <1>2, <2>1, TableUpdate DEF TypeOK, PromoteScheduled
<1>3. ASSUME NEW j \in Jobs, SelectCandidate(j) \/ ScanExpired(j) \/ ReadForRetry(j) PROVE TypeOK'
  <2>1. PICK op \in {"claim", "retry", "reap"} : TakeRead(op, j)
    BY <1>3 DEF SelectCandidate, ScanExpired, ReadForRetry
  <2> QED BY <2>1, SnapshotType DEF TypeOK, TakeRead
<1>4. ASSUME NEW j \in Jobs, LeaseExpires(j) PROVE TypeOK'
  <2>1. [row[j] EXCEPT !.expiry = "past"] \in Row
    BY ColumnTyping DEF TypeOK
  <2> QED BY <1>4, <2>1, TableUpdate DEF TypeOK, LeaseExpires
<1>5. ASSUME NEW j \in Jobs, Cancel(j) PROVE TypeOK'
  <2>1. [Released(row[j], "CANCELLED") EXCEPT !.cancelled = TRUE] \in Row
    BY WrittenRows DEF TypeOK, Statuses, Terminal
  <2> QED BY <1>5, <2>1, TableUpdate DEF TypeOK, Cancel
<1>6. ASSUME NEW s \in reads, NEW w \in Workers, Start(s, w) PROVE TypeOK'
  <2>1. lastLease + 1 \in Leases
    BY <1>6 DEF TypeOK, Start, FreshLease, Leases
  <2>2. s.job \in Jobs
    BY DEF TypeOK, Read
  <2>3. Claimed(row[s.job], w, lastLease + 1) \in Row
    BY <2>1, <2>2, ClaimedRow DEF TypeOK
  <2>4. [job |-> s.job, worker |-> w, lease |-> lastLease + 1] \in Ticket
    BY <2>1, <2>2 DEF Ticket
  <2>5. row' \in [Jobs -> Row]
    BY <1>6, <2>2, <2>3, TableUpdate DEF TypeOK, Start, FreshLease
  <2> QED BY <1>6, <2>1, <2>4, <2>5 DEF TypeOK, Start, FreshLease, Leases, Used
<1>7. ASSUME NEW s \in reads, RequeueSingle(s) PROVE TypeOK'
  <2> DEFINE st == IF RetryAllowed(s.job, s.retry) THEN "RETRY_WAIT" ELSE "FAILED"
  <2>1. s.job \in Jobs
    BY DEF TypeOK, Read
  <2>2. Released(row[s.job], st) \in Row
    <3>1. st \in Statuses
      BY DEF Statuses, Terminal
    <3> QED BY <2>1, <3>1, ReleasedRow DEF TypeOK
  <2> QED BY <1>7, <2>1, <2>2, TableUpdate DEF TypeOK, RequeueSingle, Used
<1>7m. ASSUME NEW s \in reads, MarkFailed(s) PROVE TypeOK'
  <2>1. s.job \in Jobs
    BY DEF TypeOK, Read
  <2>2. Released(row[s.job], "FAILED") \in Row
    BY <2>1, ReleasedRow DEF TypeOK, Statuses, Terminal
  <2> QED BY <1>7m, <2>1, <2>2, TableUpdate DEF TypeOK, MarkFailed, Used
<1>8. ASSUME NEW s \in reads, RetryCommit(s) PROVE TypeOK'
  <2>1. s.job \in Jobs
    BY DEF TypeOK, Read
  <2>2. [Released(row[s.job], "QUEUED") EXCEPT !.deferred = FALSE] \in Row
    BY <2>1, WrittenRows DEF TypeOK, Statuses
  <2> QED BY <1>8, <2>1, <2>2, TableUpdate DEF TypeOK, RetryCommit, Used
<1>9. ASSUME NEW s \in reads, ExhaustRetry(s) PROVE TypeOK'
  <2>1. s.job \in Jobs /\ row[s.job] \in Row
    BY DEF TypeOK, Read
  <2>2. [job |-> s.job, lease |-> NoLease, rev |-> row[s.job].rev + 1] \in Letter
    BY <2>1 DEF Letter, Row
  <2>3. Released(row[s.job], "FAILED") \in Row
    BY <2>1, ReleasedRow DEF Statuses, Terminal
  <2> QED BY <1>9, <2>1, <2>2, <2>3, TableUpdate DEF TypeOK, ExhaustRetry, Used
<1>10. ASSUME NEW s \in reads, DropRead(s) PROVE TypeOK'
  BY <1>10 DEF TypeOK, DropRead
<1>11. ASSUME NEW t \in issued, RenewLease(t) PROVE TypeOK'
  <2>1. t.job \in Jobs
    BY DEF TypeOK, Ticket
  <2>2. [row[t.job] EXCEPT !.expiry = "live"] \in Row
    BY <2>1, ColumnTyping DEF TypeOK
  <2> QED BY <1>11, <2>1, <2>2, TableUpdate DEF TypeOK, RenewLease
<1>12. ASSUME NEW t \in issued, Complete(t) \/ Fail(t) PROVE TypeOK'
  <2>1. t.job \in Jobs /\ t.lease \in Leases
    BY DEF TypeOK, Ticket
  <2>2. PICK st \in {"SUCCEEDED", "FAILED"} :
          /\ row' = [row EXCEPT ![t.job] = Released(@, st)]
          /\ settled' = [settled EXCEPT ![t.lease] = st]
          /\ announced' = announced \cup {t.job}
          /\ UNCHANGED <<issued, lastLease, reads, dlq>>
    BY <1>12 DEF Complete, Fail, AnnounceCompleted, Settle
  <2>3. Released(row[t.job], st) \in Row
    BY <2>1, ReleasedRow DEF TypeOK, Statuses, Terminal
  <2> QED BY <2>1, <2>2, <2>3, TableUpdate DEF TypeOK
<1>13. ASSUME NEW t \in issued, SpendRetry(t) PROVE TypeOK'
  <2>1. t.job \in Jobs /\ t.lease \in Leases
    BY DEF TypeOK, Ticket
  <2>2. Spent(row[t.job]) \in Row
    BY <2>1, WrittenRows DEF TypeOK, Statuses
  <2> QED BY <1>13, <2>1, <2>2, TableUpdate DEF TypeOK, SpendRetry, Settle
<1>14. ASSUME NEW t \in issued, Defer(t) PROVE TypeOK'
  <2>1. t.job \in Jobs /\ t.lease \in Leases
    BY DEF TypeOK, Ticket
  <2>2. [Released(row[t.job], "RETRY_WAIT") EXCEPT !.deferred = TRUE] \in Row
    BY <2>1, WrittenRows DEF TypeOK, Statuses
  <2> QED BY <1>14, <2>1, <2>2, TableUpdate DEF TypeOK, Defer, Settle
<1>15. ASSUME NEW t \in issued, DeadLetter(t) PROVE TypeOK'
  BY <1>15 DEF TypeOK, DeadLetter, Letter, Ticket
<1> QED
  BY <1>0, <1>1, <1>2, <1>3, <1>4, <1>5, <1>6, <1>7, <1>8, <1>9, <1>10, <1>11, <1>12, <1>13,
     <1>7m, <1>14, <1>15
  DEF Next, JobStep, ReadStep, HolderStep, ScheduleRetry

\* Every variable keeps its type.
THEOREM Typing == Spec => []TypeOK
<1>1. Init => TypeOK
  BY ConstantsAssumption DEF Init, TypeOK, EmptyRow, Row, Statuses, Terminal, Leases, NoLease
<1> QED
  BY <1>1, TypingStep, PTL DEF Spec

(***************************************************************************)
(* Leases.  LeaseConsistent and IssuedUnique are inductive together with   *)
(* the fact that no lease yet to be handed out has been settled.           *)
(***************************************************************************)
FreshOpen == \A l \in Leases : l > lastLease => settled[l] = "open"

LeaseInv == LeaseConsistent /\ IssuedUnique /\ FreshOpen

\* A row that no lease protects.
Unleased(q) == q \in Row /\ q.status # "RUNNING" /\ q.worker = NoWorker
                         /\ q.lease = NoLease /\ q.expiry = "null"

\* Every row written over a lease is Unleased, one revision on.
LEMMA UnleasedRows ==
  ASSUME NEW r \in Row, NEW st \in Statuses \ {"RUNNING"},
         NEW q \in {Released(r, st), Spent(r),
                    [Released(r, st) EXCEPT !.cancelled = TRUE],
                    [Released(r, st) EXCEPT !.deferred = TRUE],
                    [Released(r, st) EXCEPT !.deferred = FALSE]}
  PROVE  Unleased(q) /\ q.rev = r.rev + 1
<1>1. Released(r, st) \in Row /\ Released(r, "RETRY_WAIT") \in Row
  BY ReleasedRow DEF Statuses
<1>2. q \in Row
  <2>1. st \in Statuses
    OBVIOUS
  <2>2. /\ Spent(r) \in Row
        /\ [Released(r, st) EXCEPT !.cancelled = TRUE] \in Row
        /\ [Released(r, st) EXCEPT !.deferred = TRUE] \in Row
        /\ [Released(r, st) EXCEPT !.deferred = FALSE] \in Row
    BY <2>1, WrittenRows
  <2> QED BY <1>1, <2>2
<1>3. q.rev = r.rev + 1
  <2>1. CASE q = Released(r, st) BY <2>1, ReleasedRow
  <2>2. CASE q = Spent(r) BY <2>2, <1>1, ReleasedRow DEF Spent, Row, Statuses
  <2>3. CASE q \notin {Released(r, st), Spent(r)} BY <2>3, <1>1, ReleasedRow DEF Row
  <2> QED BY <2>1, <2>2, <2>3
<1>4. q.status # "RUNNING" /\ q.worker = NoWorker /\ q.lease = NoLease /\ q.expiry = "null"
  <2>1. CASE q = Released(r, st) BY <2>1, ReleasedRow
  <2>2. CASE q = Spent(r) BY <2>2, <1>1, ReleasedRow DEF Spent, Row, Statuses
  <2>3. CASE q \notin {Released(r, st), Spent(r)} BY <2>3, <1>1, ReleasedRow DEF Row
  <2> QED BY <2>1, <2>2, <2>3
<1> QED
  BY <1>2, <1>3, <1>4 DEF Unleased

\* The lease of a claim that its row still carries is the lease of no other row.
LEMMA HeldAlone ==
  ASSUME TypeOK, LeaseInv, NEW t \in issued, row[t.job].lease = t.lease
  PROVE  /\ t.job \in Jobs /\ t.lease \in Leases /\ t.lease <= lastLease
         /\ settled[t.lease] = "open"
         /\ row[t.job].status = "RUNNING" /\ row[t.job].worker = t.worker
         /\ \A k \in Jobs \ {t.job} : row[k].lease # t.lease
<1>1. t.job \in Jobs /\ t.lease \in Leases /\ t.lease # NoLease /\ t \in Ticket
  BY DEF TypeOK, Ticket, Leases, NoLease
<1>2. t.lease <= lastLease /\ settled[t.lease] = "open" /\ row[t.job].status = "RUNNING"
  BY <1>1 DEF LeaseInv, LeaseConsistent, IssuedUnique
<1>3. row[t.job].worker = t.worker
  <2>1. [job |-> t.job, worker |-> row[t.job].worker, lease |-> t.lease] \in issued
    BY <1>1 DEF LeaseInv, LeaseConsistent
  <2> QED BY <2>1 DEF LeaseInv, IssuedUnique
<1>4. ASSUME NEW k \in Jobs \ {t.job}, row[k].lease = t.lease PROVE FALSE
  <2>1. [job |-> k, worker |-> row[k].worker, lease |-> t.lease] \in issued
    BY <1>1, <1>4 DEF LeaseInv, LeaseConsistent
  <2> QED BY <2>1 DEF LeaseInv, IssuedUnique
<1> QED
  BY <1>1, <1>2, <1>3, <1>4

\* Taking the lease off one row keeps LeaseInv, whatever is settled for it.
LEMMA ReleaseKeepsLeaseInv ==
  ASSUME TypeOK, LeaseInv, NEW j \in Jobs, NEW q, Unleased(q),
         row' = [row EXCEPT ![j] = q], issued' = issued, lastLease' = lastLease,
         \/ settled' = settled
         \/ /\ row[j].lease # NoLease
            /\ \E outcome : settled' = [settled EXCEPT ![row[j].lease] = outcome]
  PROVE  LeaseInv'
<1>1. row' \in [Jobs -> Row] /\ row'[j] = q /\ \A k \in Jobs \ {j} : row'[k] = row[k]
  BY DEF TypeOK, Unleased
<1>2. ASSUME NEW k \in Jobs \ {j}, row[k].lease # NoLease
      PROVE  settled'[row[k].lease] = "open"
  <2>1. settled[row[k].lease] = "open" /\ row[k].lease \in Leases /\ row[k].lease # NoLease
    BY <1>2 DEF LeaseInv, LeaseConsistent, TypeOK, Row
  <2>2. CASE settled' = settled
    BY <2>1, <2>2
  <2>3. CASE row[j].lease # NoLease
    <3> DEFINE t == [job |-> j, worker |-> row[j].worker, lease |-> row[j].lease]
    <3>1. t \in issued
      BY <2>3 DEF LeaseInv, LeaseConsistent
    <3>2. row[k].lease # row[j].lease
      <4>1. t.job = j /\ t.lease = row[j].lease
        OBVIOUS
      <4> HIDE DEF t
      <4> QED BY <3>1, <4>1, HeldAlone
    <3> QED BY <2>1, <3>2 DEF TypeOK
  <2> QED BY <2>2, <2>3
<1>3. LeaseConsistent'
  BY <1>1, <1>2 DEF LeaseInv, LeaseConsistent, Unleased
<1>4. IssuedUnique'
  BY DEF LeaseInv, IssuedUnique
<1>5. FreshOpen'
  <2>1. ASSUME row[j].lease # NoLease PROVE row[j].lease <= lastLease
    BY <2>1 DEF LeaseInv, LeaseConsistent, IssuedUnique
  <2>2. ASSUME NEW l \in Leases, l > lastLease PROVE settled'[l] = "open"
    <3>1. settled[l] = "open" /\ lastLease \in Int
      BY <2>2 DEF LeaseInv, FreshOpen, TypeOK
    <3>2. row[j].lease # NoLease => row[j].lease # l
      BY <2>1, <2>2, <3>1 DEF Leases
    <3> QED BY <3>1, <3>2 DEF TypeOK
  <2> QED BY <2>2 DEF FreshOpen
<1> QED
  BY <1>3, <1>4, <1>5 DEF LeaseInv

\* A step that writes no column LeaseInv reads keeps it.
LEMMA LeaseInvFrame ==
  ASSUME LeaseInv, issued' = issued, lastLease' = lastLease, settled' = settled,
         \A k \in Jobs : /\ row'[k].status = "RUNNING" <=> row[k].status = "RUNNING"
                         /\ row'[k].worker = row[k].worker /\ row'[k].lease = row[k].lease
                         /\ row'[k].expiry = "null" <=> row[k].expiry = "null"
  PROVE  LeaseInv'
BY DEF LeaseInv, LeaseConsistent, IssuedUnique, FreshOpen

\* The holder's transactions: each finds the lease of its claim and takes it.
LEMMA HolderReleases ==
  ASSUME TypeOK, NEW t \in issued,
         Complete(t) \/ Fail(t) \/ SpendRetry(t) \/ Defer(t)
  PROVE  /\ row[t.job].lease = t.lease /\ row[t.job].lease # NoLease
         /\ \E q : Unleased(q) /\ q.rev = row[t.job].rev + 1 /\ row' = [row EXCEPT ![t.job] = q]
         /\ \E outcome \in {"SUCCEEDED", "FAILED", "RETRY_WAIT"} :
              settled' = [settled EXCEPT ![t.lease] = outcome]
         /\ UNCHANGED <<issued, lastLease, reads, dlq>>
<1>1. t.job \in Jobs /\ t.lease \in Leases /\ t.lease # NoLease /\ row[t.job] \in Row
  BY DEF TypeOK, Ticket, Leases, NoLease
<1>2. row[t.job].lease = t.lease
  BY DEF Complete, Fail, SpendRetry, Defer, Owns
<1>3. PICK q \in {Released(row[t.job], "SUCCEEDED"), Released(row[t.job], "FAILED"), Spent(row[t.job]),
                  [Released(row[t.job], "RETRY_WAIT") EXCEPT !.deferred = TRUE]} :
        row' = [row EXCEPT ![t.job] = q]
  BY DEF Complete, Fail, SpendRetry, Defer
<1>4. Unleased(q) /\ q.rev = row[t.job].rev + 1
  <2>1. {"SUCCEEDED", "FAILED", "RETRY_WAIT"} \subseteq Statuses \ {"RUNNING"}
    BY DEF Statuses, Terminal
  <2>2. PICK st \in Statuses \ {"RUNNING"} :
          q \in {Released(row[t.job], st), Spent(row[t.job]),
                [Released(row[t.job], st) EXCEPT !.cancelled = TRUE],
                [Released(row[t.job], st) EXCEPT !.deferred = TRUE],
                [Released(row[t.job], st) EXCEPT !.deferred = FALSE]}
    BY <1>3, <2>1
  <2> QED BY <1>1, <2>2, UnleasedRows
<1>5. /\ \E outcome \in {"SUCCEEDED", "FAILED", "RETRY_WAIT"} :
           settled' = [settled EXCEPT ![t.lease] = outcome]
      /\ UNCHANGED <<issued, lastLease, reads, dlq>>
  BY DEF Complete, Fail, SpendRetry, Defer, Settle
<1> QED
  BY <1>1, <1>2, <1>4, <1>3, <1>5

\* The same with LeaseInv: they find the row RUNNING.
LEMMA HolderWrites ==
  ASSUME TypeOK, LeaseInv, NEW t \in issued,
         Complete(t) \/ Fail(t) \/ SpendRetry(t) \/ Defer(t)
  PROVE  /\ row[t.job].lease = t.lease /\ row[t.job].lease # NoLease
         /\ row[t.job].status = "RUNNING"
         /\ \E q : Unleased(q) /\ q.rev = row[t.job].rev + 1 /\ row' = [row EXCEPT ![t.job] = q]
         /\ \E outcome \in {"SUCCEEDED", "FAILED", "RETRY_WAIT"} :
              settled' = [settled EXCEPT ![t.lease] = outcome]
         /\ UNCHANGED <<issued, lastLease, reads, dlq>>
BY HolderReleases, HeldAlone

\* The transactions that need no claim, and the row they leave.
LEMMA StoreWrites ==
  ASSUME TypeOK, NEW j \in Jobs,
         \/ PromoteScheduled(j) \/ Cancel(j)
         \/ \E s \in reads : s.job = j /\ (RequeueSingle(s) \/ MarkFailed(s) \/ RetryCommit(s) \/ ExhaustRetry(s))
  PROVE  /\ \E q : Unleased(q) /\ q.rev = row[j].rev + 1 /\ row' = [row EXCEPT ![j] = q]
         /\ UNCHANGED <<issued, lastLease, settled, announced>>
<1>1. row[j] \in Row
  BY DEF TypeOK
<1>2. {"QUEUED", "CANCELLED", "RETRY_WAIT", "FAILED"} \subseteq Statuses \ {"RUNNING"}
  BY DEF Statuses, Terminal
<1>3. PICK st \in {"QUEUED", "CANCELLED", "RETRY_WAIT", "FAILED"} :
       \E q \in {Released(row[j], st),
                 [Released(row[j], st) EXCEPT !.cancelled = TRUE],
                 [Released(row[j], st) EXCEPT !.deferred = FALSE]} :
         row' = [row EXCEPT ![j] = q]
  <2>1. CASE PromoteScheduled(j)
    BY <2>1 DEF PromoteScheduled
  <2>2. CASE Cancel(j)
    BY <2>2 DEF Cancel
  <2>3. ASSUME NEW s \in reads, s.job = j,
               RequeueSingle(s) \/ MarkFailed(s) \/ RetryCommit(s) \/ ExhaustRetry(s)
        PROVE  \E st \in {"QUEUED", "CANCELLED", "RETRY_WAIT", "FAILED"} :
               \E q \in {Released(row[j], st),
                         [Released(row[j], st) EXCEPT !.cancelled = TRUE],
                         [Released(row[j], st) EXCEPT !.deferred = FALSE]} :
                 row' = [row EXCEPT ![j] = q]
    <3>1. CASE RequeueSingle(s)
      BY <2>3, <3>1 DEF RequeueSingle
    <3>2. CASE RetryCommit(s)
      BY <2>3, <3>2 DEF RetryCommit
    <3>3. CASE ExhaustRetry(s)
      BY <2>3, <3>3 DEF ExhaustRetry
    <3>4. CASE MarkFailed(s)
      BY <2>3, <3>4 DEF MarkFailed
    <3> QED BY <2>3, <3>1, <3>2, <3>3, <3>4
  <2> QED BY <2>1, <2>2, <2>3
<1>4. PICK q : /\ row' = [row EXCEPT ![j] = q]
               /\ q \in {Released(row[j], st),
                         [Released(row[j], st) EXCEPT !.cancelled = TRUE],
                         [Released(row[j], st) EXCEPT !.deferred = FALSE]}
  BY <1>3
<1>5. Unleased(q) /\ q.rev = row[j].rev + 1
  <2>1. st \in Statuses \ {"RUNNING"}
    BY <1>2
  <2>2. q \in {Released(row[j], st), Spent(row[j]),
              [Released(row[j], st) EXCEPT !.cancelled = TRUE],
              [Released(row[j], st) EXCEPT !.deferred = TRUE],
              [Released(row[j], st) EXCEPT !.deferred = FALSE]}
    BY <1>4
  <2> QED BY <1>1, <2>1, <2>2, UnleasedRows
<1>6. UNCHANGED <<issued, lastLease, settled, announced>>
  BY DEF PromoteScheduled, Cancel, RequeueSingle, MarkFailed, RetryCommit, ExhaustRetry
<1> QED
  BY <1>4, <1>5, <1>6

\* Every step keeps LeaseInv.
LEMMA LeaseInvStep ==
  ASSUME TypeOK, LeaseInv, [Next]_vars
  PROVE  LeaseInv'
<1> USE ConstantsAssumption
<1>0. CASE UNCHANGED vars
  BY <1>0, LeaseInvFrame DEF vars
<1>1. ASSUME NEW j \in Jobs, NEW st \in {"QUEUED", "SCHEDULED"}, Create(j, st) PROVE LeaseInv'
  <2>1. \A k \in Jobs : /\ row'[k].status = "RUNNING" <=> row[k].status = "RUNNING"
                        /\ row'[k].worker = row[k].worker /\ row'[k].lease = row[k].lease
                        /\ row'[k].expiry = "null" <=> row[k].expiry = "null"
    BY <1>1 DEF Create, TypeOK, Row
  <2> QED BY <1>1, <2>1, LeaseInvFrame DEF Create
<1>2. ASSUME NEW j \in Jobs, PromoteScheduled(j) \/ Cancel(j) PROVE LeaseInv'
  BY <1>2, StoreWrites, ReleaseKeepsLeaseInv
<1>3. ASSUME NEW s \in reads,
             RequeueSingle(s) \/ MarkFailed(s) \/ RetryCommit(s) \/ ExhaustRetry(s)
      PROVE  LeaseInv'
  <2>1. s.job \in Jobs
    BY DEF TypeOK, Read
  <2> QED BY <1>3, <2>1, StoreWrites, ReleaseKeepsLeaseInv
<1>4. ASSUME NEW j \in Jobs, SelectCandidate(j) \/ ScanExpired(j) \/ ReadForRetry(j) PROVE LeaseInv'
  BY <1>4, LeaseInvFrame DEF SelectCandidate, ScanExpired, ReadForRetry, TakeRead
<1>5. ASSUME NEW s \in reads, DropRead(s) PROVE LeaseInv'
  BY <1>5, LeaseInvFrame DEF DropRead
<1>6. ASSUME NEW j \in Jobs, LeaseExpires(j) PROVE LeaseInv'
  <2>1. \A k \in Jobs : /\ row'[k].status = row[k].status
                        /\ row'[k].worker = row[k].worker /\ row'[k].lease = row[k].lease
                        /\ row'[k].expiry = "null" <=> row[k].expiry = "null"
    BY <1>6 DEF LeaseExpires, TypeOK, Row
  <2> QED BY <1>6, <2>1, LeaseInvFrame DEF LeaseExpires
<1>7. ASSUME NEW t \in issued, RenewLease(t) PROVE LeaseInv'
  <2>1. t.job \in Jobs /\ row[t.job].expiry # "null"
    BY <1>7 DEF RenewLease, Renewable, LeaseInv, LeaseConsistent, TypeOK, Ticket
  <2>2. \A k \in Jobs : /\ row'[k].status = row[k].status
                        /\ row'[k].worker = row[k].worker /\ row'[k].lease = row[k].lease
                        /\ row'[k].expiry = "null" <=> row[k].expiry = "null"
    BY <1>7, <2>1 DEF RenewLease, TypeOK, Row
  <2> QED BY <1>7, <2>2, LeaseInvFrame DEF RenewLease
<1>8. ASSUME NEW s \in reads, NEW w \in Workers, Start(s, w) PROVE LeaseInv'
  <2> DEFINE l == lastLease + 1
             t == [job |-> s.job, worker |-> w, lease |-> l]
  <2>1. s.job \in Jobs /\ l \in Leases /\ l # NoLease /\ lastLease \in Nat
    BY <1>8 DEF TypeOK, Read, Start, FreshLease, Leases, NoLease
  <2>2. /\ row'[s.job].status = "RUNNING" /\ row'[s.job].worker = w
        /\ row'[s.job].lease = l /\ row'[s.job].expiry = "live"
        /\ \A k \in Jobs \ {s.job} : row'[k] = row[k]
    <3>1. row' = [row EXCEPT ![s.job] = Claimed(row[s.job], w, l)]
      BY <1>8 DEF Start, FreshLease
    <3>2. row[s.job] \in Row
      BY <2>1 DEF TypeOK
    <3>3. /\ Claimed(row[s.job], w, l) \in Row
          /\ Claimed(row[s.job], w, l).status = "RUNNING" /\ Claimed(row[s.job], w, l).worker = w
          /\ Claimed(row[s.job], w, l).lease = l /\ Claimed(row[s.job], w, l).expiry = "live"
      <4> HIDE DEF l
      <4> QED BY <2>1, <3>2, ClaimedRow
    <3> QED BY <2>1, <3>1, <3>3 DEF TypeOK
  <2>3. issued' = issued \cup {t} /\ settled' = settled /\ lastLease' = l
    BY <1>8 DEF Start, FreshLease
  <2>4. t.job = s.job /\ t.worker = w /\ t.lease = l
    OBVIOUS
  <2>5. \A u \in issued : u.lease <= lastLease /\ u.lease \in Int
    BY DEF LeaseInv, IssuedUnique, TypeOK, Ticket, Leases
  <2>6. settled[l] = "open"
    BY <2>1 DEF LeaseInv, FreshOpen
  <2>7. IssuedUnique'
    <3> HIDE DEF t
    <3> QED BY <2>1, <2>3, <2>4, <2>5 DEF LeaseInv, IssuedUnique
  <2>8. FreshOpen'
    BY <2>1, <2>3 DEF LeaseInv, FreshOpen, Leases
  <2>9. LeaseConsistent'
    BY <2>1, <2>2, <2>3, <2>6 DEF LeaseInv, LeaseConsistent
  <2> QED BY <2>7, <2>8, <2>9 DEF LeaseInv
<1>9. ASSUME NEW t \in issued, Complete(t) \/ Fail(t) \/ SpendRetry(t) \/ Defer(t) PROVE LeaseInv'
  <2>1. t.job \in Jobs
    BY DEF TypeOK, Ticket
  <2> QED BY <1>9, <2>1, HolderWrites, ReleaseKeepsLeaseInv
<1>10. ASSUME NEW t \in issued, DeadLetter(t) PROVE LeaseInv'
  BY <1>10, LeaseInvFrame DEF DeadLetter
<1> QED
  BY <1>0, <1>1, <1>2, <1>3, <1>4, <1>5, <1>6, <1>7, <1>8, <1>9, <1>10
  DEF Next, JobStep, ReadStep, HolderStep, ScheduleRetry

\* LeaseInv holds in every reachable state.
THEOREM LeaseInvariance == Spec => []LeaseInv
<1>1. Init => LeaseInv
  BY ConstantsAssumption
  DEF Init, LeaseInv, LeaseConsistent, IssuedUnique, FreshOpen, EmptyRow, NoLease
<1> QED
  BY <1>1, LeaseInvStep, Typing, PTL DEF Spec

\* The lease bookkeeping of the jobs table: exactly the RUNNING rows carry a
\* lease, and it is the unsettled lease issued to the worker they name.
THEOREM LeasesAreConsistent == Spec => []LeaseConsistent
<1>1. LeaseInv => LeaseConsistent
  BY DEF LeaseInv
<1> QED
  BY <1>1, LeaseInvariance, PTL

\* ClaimNext never hands out a lease twice.
THEOREM ClaimsAreUnique == Spec => []IssuedUnique
<1>1. LeaseInv => IssuedUnique
  BY DEF LeaseInv
<1> QED
  BY <1>1, LeaseInvariance, PTL

\* No delayed, duplicated or superseded call of a worker settles a job: each
\* claim is settled at most once, while it is the claim the row carries.
THEOREM EveryClaimSettlesOnce == Spec => SettleOnce
<1> DEFINE Fenced == \A t \in issued : settled'[t.lease] # settled[t.lease] =>
                       settled[t.lease] = "open" /\ row[t.job].lease = t.lease
<1>1. TypeOK /\ LeaseInv /\ [Next]_vars => [Fenced]_vars
  <2> SUFFICES ASSUME TypeOK, LeaseInv, Next, NEW t \in issued,
                      settled'[t.lease] # settled[t.lease]
               PROVE  settled[t.lease] = "open" /\ row[t.job].lease = t.lease
    OBVIOUS
  <2>1. PICK u \in issued : Complete(u) \/ Fail(u) \/ SpendRetry(u) \/ Defer(u)
    BY DEF Next, JobStep, ReadStep, HolderStep, ScheduleRetry, Create, PromoteScheduled,
           SelectCandidate, LeaseExpires, ScanExpired, Cancel, ReadForRetry, TakeRead, Start, FreshLease,
           RequeueSingle, MarkFailed, RetryCommit, ExhaustRetry, DropRead, RenewLease, DeadLetter
  <2>2. row[u.job].lease = u.lease /\ settled[u.lease] = "open"
    BY <2>1, HolderWrites, HeldAlone
  <2>3. t.lease = u.lease
    BY <2>1, HolderWrites DEF TypeOK, Ticket
  <2>4. t = u
    BY <2>3 DEF LeaseInv, IssuedUnique
  <2> QED BY <2>2, <2>4
<1> QED
  BY <1>1, Typing, LeaseInvariance, PTL DEF Spec, SettleOnce

(***************************************************************************)
(* The life of a row.  What one transaction can make of the columns that   *)
(* decisions are taken on: status, retry_count and revision.               *)
(***************************************************************************)
Edge(from, to) ==
  \/ from = "SCHEDULED"  /\ to = "QUEUED"
  \/ from = "QUEUED"     /\ to = "RUNNING"
  \/ from = "RUNNING"    /\ to \in {"SUCCEEDED", "FAILED", "RETRY_WAIT"}
  \/ from = "RETRY_WAIT" /\ to = "FAILED"
  \/ from \in {"SCHEDULED", "QUEUED", "RUNNING", "RETRY_WAIT"} /\ to = "CANCELLED"

\* Heartbeat and expiry; insertion; a transition without a word on the budget;
\* one that spends; a retry, decided on a read that is still the row's version.
RowKept(j) ==
  row'[j].status = row[j].status /\ row'[j].retry = row[j].retry /\ row'[j].rev = row[j].rev
RowCreated(j) ==
  /\ row[j].status = "ABSENT" /\ row'[j].status \in {"QUEUED", "SCHEDULED"}
  /\ row'[j].retry = row[j].retry /\ row'[j].rev = 1
RowMoved(j) ==
  /\ Edge(row[j].status, row'[j].status)
  /\ row'[j].retry = row[j].retry /\ row'[j].rev = row[j].rev + 1
RowSpent(j) ==
  /\ row[j].status = "RUNNING" /\ row'[j].status = "RETRY_WAIT"
  /\ RetryAllowed(j, row[j].retry)
  /\ row'[j].retry = row[j].retry + 1 /\ row'[j].rev = row[j].rev + 1
RowRetried(j) ==
  /\ row[j].status \in Retryable /\ row'[j].status = "QUEUED"
  /\ \E s \in reads : s.job = j /\ Fresh(s) /\ RetryAllowed(j, s.retry)
  /\ row'[j].retry = row[j].retry /\ row'[j].rev = row[j].rev + 1

RowStep(j) == RowKept(j) \/ RowCreated(j) \/ RowMoved(j) \/ RowSpent(j) \/ RowRetried(j)

\* A Released row that has spent an attempt,
LEMMA SpentRow ==
  ASSUME NEW r \in Row
  PROVE  Spent(r).status = "RETRY_WAIT" /\ Spent(r).retry = r.retry + 1 /\ Spent(r).rev = r.rev + 1
<1>1. Released(r, "RETRY_WAIT") \in Row /\ Released(r, "RETRY_WAIT").status = "RETRY_WAIT"
      /\ Released(r, "RETRY_WAIT").rev = r.rev + 1
  BY ReleasedRow DEF Statuses
<1> QED
  BY <1>1 DEF Spent, Row

\* and one that is marked as cancelled or deferred.
LEMMA MarkedRow ==
  ASSUME NEW r \in Row, NEW st \in Statuses,
         NEW q \in {Released(r, st),
                    [Released(r, st) EXCEPT !.cancelled = TRUE],
                    [Released(r, st) EXCEPT !.deferred = TRUE],
                    [Released(r, st) EXCEPT !.deferred = FALSE]}
  PROVE  q.status = st /\ q.retry = r.retry /\ q.rev = r.rev + 1
<1>1. /\ Released(r, st) \in Row /\ Released(r, st).status = st
      /\ Released(r, st).retry = r.retry /\ Released(r, st).rev = r.rev + 1
  BY ReleasedRow
<1> QED
  BY <1>1 DEF Row

\* An expired lease is the lease of a RUNNING row.
LEMMA ExpiredRuns ==
  ASSUME LeaseInv, NEW j \in Jobs, row[j].expiry # "null"
  PROVE  row[j].status = "RUNNING"
BY DEF LeaseInv, LeaseConsistent

\* Whatever happens, each row takes one of these steps.
LEMMA EveryRowSteps ==
  ASSUME TypeOK, LeaseInv, [Next]_vars
  PROVE  \A j \in Jobs : RowStep(j)
<1> USE ConstantsAssumption
<1>r. \A j \in Jobs : row[j] \in Row
  BY DEF TypeOK
<1>0. ASSUME row' = row PROVE \A j \in Jobs : RowStep(j)
  BY <1>0 DEF RowStep, RowKept
<1>w. ASSUME NEW j \in Jobs, NEW q, row' = [row EXCEPT ![j] = q], row'[j] = q => RowStep(j)
      PROVE  \A k \in Jobs : RowStep(k)
  BY <1>w DEF TypeOK, RowStep, RowKept
<1>1. ASSUME NEW j \in Jobs, NEW st \in {"QUEUED", "SCHEDULED"}, Create(j, st)
      PROVE  \A k \in Jobs : RowStep(k)
  <2>1. LET q == [row[j] EXCEPT !.status = st, !.rev = 1]
        IN  q.status = st /\ q.retry = row[j].retry /\ q.rev = 1
    BY <1>r DEF Row
  <2> QED BY <1>1, <1>w, <2>1 DEF Create, RowStep, RowCreated
<1>2. ASSUME NEW j \in Jobs, PromoteScheduled(j) PROVE \A k \in Jobs : RowStep(k)
  <2>1. LET q == Released(row[j], "QUEUED")
        IN  q.status = "QUEUED" /\ q.retry = row[j].retry /\ q.rev = row[j].rev + 1
    BY <1>r, MarkedRow DEF Statuses
  <2> QED BY <1>2, <1>w, <2>1 DEF PromoteScheduled, RowStep, RowMoved, Edge
<1>3. ASSUME NEW j \in Jobs, SelectCandidate(j) \/ ScanExpired(j) \/ ReadForRetry(j)
      PROVE  \A k \in Jobs : RowStep(k)
  BY <1>0, <1>3 DEF SelectCandidate, ScanExpired, ReadForRetry, TakeRead
<1>4. ASSUME NEW j \in Jobs, LeaseExpires(j) PROVE \A k \in Jobs : RowStep(k)
  <2>1. LET q == [row[j] EXCEPT !.expiry = "past"]
        IN  q.status = row[j].status /\ q.retry = row[j].retry /\ q.rev = row[j].rev
    BY <1>r DEF Row
  <2> QED BY <1>4, <1>w, <2>1 DEF LeaseExpires, RowStep, RowKept
<1>5. ASSUME NEW j \in Jobs, Cancel(j) PROVE \A k \in Jobs : RowStep(k)
  <2>1. row[j].status \in {"SCHEDULED", "QUEUED", "RUNNING", "RETRY_WAIT"}
    BY <1>5, <1>r DEF Cancel, Row, Statuses
  <2>2. row' = [row EXCEPT ![j] = [Released(row[j], "CANCELLED") EXCEPT !.cancelled = TRUE]]
    BY <1>5 DEF Cancel
  <2>3. LET q == [Released(row[j], "CANCELLED") EXCEPT !.cancelled = TRUE]
        IN  q.status = "CANCELLED" /\ q.retry = row[j].retry /\ q.rev = row[j].rev + 1
    BY <1>r, MarkedRow DEF Statuses, Terminal
  <2> QED BY <1>w, <2>1, <2>2, <2>3 DEF RowStep, RowMoved, Edge
<1>6. ASSUME NEW s \in reads, NEW w \in Workers, Start(s, w) PROVE \A k \in Jobs : RowStep(k)
  <2>1. s.job \in Jobs /\ lastLease + 1 \in Leases
    BY <1>6 DEF TypeOK, Read, Start, Leases
  <2>2. LET q == Claimed(row[s.job], w, lastLease + 1)
        IN  q.status = "RUNNING" /\ q.retry = row[s.job].retry /\ q.rev = row[s.job].rev + 1
    BY <1>r, <2>1, ClaimedRow
  <2> QED BY <1>6, <1>w, <2>1, <2>2 DEF Start, FreshLease, RowStep, RowMoved, Edge
<1>7. ASSUME NEW s \in reads, RequeueSingle(s) \/ MarkFailed(s) PROVE \A k \in Jobs : RowStep(k)
  <2>1. s.job \in Jobs /\ row[s.job].status = "RUNNING"
    <3>1. s.job \in Jobs
      BY DEF TypeOK, Read
    <3>2. row[s.job].expiry # "null"
      BY <1>7 DEF RequeueSingle, MarkFailed, Reapable
    <3> QED BY <3>1, <3>2, ExpiredRuns
  <2>2. PICK st \in {"RETRY_WAIT", "FAILED"} : row' = [row EXCEPT ![s.job] = Released(row[s.job], st)]
    BY <1>7 DEF RequeueSingle, MarkFailed
  <2>3. LET q == Released(row[s.job], st)
        IN  q.status = st /\ q.retry = row[s.job].retry /\ q.rev = row[s.job].rev + 1
    BY <1>r, <2>1, MarkedRow DEF Statuses, Terminal
  <2> QED BY <1>w, <2>1, <2>2, <2>3 DEF RowStep, RowMoved, Edge
<1>8. ASSUME NEW s \in reads, RetryCommit(s) PROVE \A k \in Jobs : RowStep(k)
  <2>1. s.job \in Jobs
    BY DEF TypeOK, Read
  <2>2. LET q == [Released(row[s.job], "QUEUED") EXCEPT !.deferred = FALSE]
        IN  q.status = "QUEUED" /\ q.retry = row[s.job].retry /\ q.rev = row[s.job].rev + 1
    BY <1>r, <2>1, MarkedRow DEF Statuses
  <2> QED BY <1>8, <1>w, <2>1, <2>2 DEF RetryCommit, RowStep, RowRetried
<1>9. ASSUME NEW s \in reads, ExhaustRetry(s) PROVE \A k \in Jobs : RowStep(k)
  <2>1. s.job \in Jobs /\ row[s.job].status = "RETRY_WAIT"
    BY <1>9 DEF TypeOK, Read, ExhaustRetry, Exhaustible
  <2>2. LET q == Released(row[s.job], "FAILED")
        IN  q.status = "FAILED" /\ q.retry = row[s.job].retry /\ q.rev = row[s.job].rev + 1
    BY <1>r, <2>1, MarkedRow DEF Statuses, Terminal
  <2> QED BY <1>9, <1>w, <2>1, <2>2 DEF ExhaustRetry, RowStep, RowMoved, Edge
<1>10. ASSUME NEW s \in reads, DropRead(s) PROVE \A k \in Jobs : RowStep(k)
  BY <1>0, <1>10 DEF DropRead
<1>11. ASSUME NEW t \in issued, RenewLease(t) PROVE \A k \in Jobs : RowStep(k)
  <2>1. t.job \in Jobs
    BY DEF TypeOK, Ticket
  <2>2. LET q == [row[t.job] EXCEPT !.expiry = "live"]
        IN  q.status = row[t.job].status /\ q.retry = row[t.job].retry /\ q.rev = row[t.job].rev
    BY <1>r, <2>1 DEF Row
  <2> QED BY <1>11, <1>w, <2>1, <2>2 DEF RenewLease, RowStep, RowKept
<1>12. ASSUME NEW t \in issued, Complete(t) \/ Fail(t) \/ Defer(t) PROVE \A k \in Jobs : RowStep(k)
  <2>1. t.job \in Jobs /\ row[t.job].status = "RUNNING"
    BY <1>12, HolderWrites DEF TypeOK, Ticket
  <2>2. PICK st \in {"SUCCEEDED", "FAILED", "RETRY_WAIT"} :
          \E q \in {Released(row[t.job], st), [Released(row[t.job], st) EXCEPT !.deferred = TRUE]} :
            row' = [row EXCEPT ![t.job] = q]
    BY <1>12 DEF Complete, Fail, Defer
  <2>s. st \in Statuses
    BY DEF Statuses, Terminal
  <2>3. PICK q \in {Released(row[t.job], st), [Released(row[t.job], st) EXCEPT !.deferred = TRUE]} :
          row' = [row EXCEPT ![t.job] = q]
    BY <2>2
  <2>4. q.status = st /\ q.retry = row[t.job].retry /\ q.rev = row[t.job].rev + 1
    <3>1. row[t.job] \in Row
      BY <1>r, <2>1
    <3>2. CASE q = Released(row[t.job], st)
      BY <2>s, <3>1, <3>2, MarkedRow
    <3>3. CASE q = [Released(row[t.job], st) EXCEPT !.deferred = TRUE]
      BY <2>s, <3>1, <3>3, MarkedRow
    <3> QED BY <3>2, <3>3
  <2> QED BY <1>w, <2>1, <2>3, <2>4 DEF RowStep, RowMoved, Edge
<1>13. ASSUME NEW t \in issued, SpendRetry(t) PROVE \A k \in Jobs : RowStep(k)
  <2>1. t.job \in Jobs /\ row[t.job].status = "RUNNING"
    BY <1>13 DEF TypeOK, Ticket, SpendRetry, Owns
  <2>2. LET q == Spent(row[t.job])
        IN  q.status = "RETRY_WAIT" /\ q.retry = row[t.job].retry + 1 /\ q.rev = row[t.job].rev + 1
    BY <1>r, <2>1, SpentRow
  <2> QED BY <1>13, <1>w, <2>1, <2>2 DEF SpendRetry, RowStep, RowSpent
<1>14. ASSUME NEW t \in issued, DeadLetter(t) PROVE \A k \in Jobs : RowStep(k)
  BY <1>0, <1>14 DEF DeadLetter
<1> QED
  BY <1>0, <1>1, <1>2, <1>3, <1>4, <1>5, <1>6, <1>7, <1>8, <1>9, <1>10, <1>11, <1>12, <1>13, <1>14
  DEF vars, Next, JobStep, ReadStep, HolderStep, ScheduleRetry

\* Reads come from rows as they are, and leave the table alone when they come.
LEMMA ReadsCome ==
  ASSUME [Next]_vars
  PROVE  \/ reads' \subseteq reads
         \/ row' = row /\ \E op \in {"claim", "reap", "retry"}, j \in Jobs :
                            reads' = reads \cup {Snapshot(op, j)}
<1>1. ASSUME NEW j \in Jobs, JobStep(j)
      PROVE  \/ reads' = reads
             \/ row' = row /\ \E op \in {"claim", "reap", "retry"} : reads' = reads \cup {Snapshot(op, j)}
  BY <1>1 DEF JobStep, Create, PromoteScheduled, SelectCandidate, LeaseExpires, ScanExpired,
              Cancel, ReadForRetry, TakeRead
<1>2. ASSUME NEW s \in reads, ReadStep(s) PROVE reads' \subseteq reads
  <2>1. reads' = reads \/ reads' = reads \ {s}
    BY <1>2 DEF ReadStep, Start, RequeueSingle, MarkFailed, RetryCommit, ExhaustRetry, DropRead, Used
  <2> QED BY <2>1
<1>3. ASSUME NEW t \in issued, HolderStep(t) PROVE reads' = reads
  BY <1>3 DEF HolderStep, ScheduleRetry, RenewLease, Complete, Fail, SpendRetry, Defer, DeadLetter
<1>4. CASE UNCHANGED vars
  BY <1>4 DEF vars
<1>5. CASE Next
  BY <1>5, <1>1, <1>2, <1>3 DEF Next
<1> QED
  BY <1>4, <1>5

(***************************************************************************)
(* Versions.  A read that is still fresh is still true, because every      *)
(* write of the status or of retry_count moves the revision; the insertion *)
(* writes revision 1, so it counts on the row having had none.             *)
(***************************************************************************)
VersionInv ==
  /\ ReadsAreVersions
  /\ \A j \in Jobs : row[j].status = "ABSENT" => row[j].rev = 0

\* What is needed of new rows along with ReadsAreVersions makes it inductive.
THEOREM VersionInvariance == Spec => []VersionInv
<1>1. Init => VersionInv
  BY DEF Init, VersionInv, ReadsAreVersions, EmptyRow
<1>2. TypeOK /\ TypeOK' /\ LeaseInv /\ VersionInv /\ [Next]_vars => VersionInv'
  <2> SUFFICES ASSUME TypeOK, TypeOK', LeaseInv, VersionInv, [Next]_vars PROVE VersionInv'
    OBVIOUS
  <2>1. \A j \in Jobs : RowStep(j) /\ row[j].rev \in Nat /\ row'[j].rev \in Nat
    BY EveryRowSteps DEF TypeOK, Row
  <2>2. ASSUME NEW j \in Jobs, row'[j].status = "ABSENT" PROVE row'[j].rev = 0
    BY <2>1, <2>2 DEF VersionInv, RowStep, RowKept, RowCreated, RowMoved, RowSpent, RowRetried, Edge
  <2>3. ASSUME NEW j \in Jobs
        PROVE  \/ row'[j].status = row[j].status /\ row'[j].retry = row[j].retry /\ row'[j].rev = row[j].rev
               \/ row'[j].rev > row[j].rev
    BY <2>1 DEF VersionInv, RowStep, RowKept, RowCreated, RowMoved, RowSpent, RowRetried
  <2>4. ASSUME NEW s \in reads'
        PROVE  /\ s.rev <= row'[s.job].rev
               /\ row'[s.job].rev = s.rev => s.status = row'[s.job].status /\ s.retry = row'[s.job].retry
    <3>1. CASE s \in reads
      <4>1. s.job \in Jobs /\ s.rev \in Nat
        BY <3>1 DEF TypeOK, Read
      <4> QED BY <2>1, <2>3, <3>1, <4>1 DEF VersionInv, ReadsAreVersions, Fresh
    <3>2. CASE s \notin reads
      <4>1. PICK op \in {"claim", "reap", "retry"}, j \in Jobs :
              row' = row /\ s = Snapshot(op, j)
        BY <3>2, ReadsCome
      <4>2. s.job = j /\ s.rev = row[j].rev /\ s.status = row[j].status /\ s.retry = row[j].retry
        BY <4>1 DEF Snapshot
      <4> QED BY <2>1, <4>1, <4>2
    <3> QED BY <3>1, <3>2
  <2> QED BY <2>2, <2>4 DEF VersionInv, ReadsAreVersions, Fresh
<1> QED
  BY <1>1, <1>2, Typing, LeaseInvariance, PTL DEF Spec

\* No commit that passes its compare-and-swap was decided on anything but the
\* row it changes.
THEOREM CommitsSeeTheirRow == Spec => []ReadsAreVersions
<1>1. VersionInv => ReadsAreVersions
  BY DEF VersionInv
<1> QED
  BY <1>1, VersionInvariance, PTL

(***************************************************************************)
(* The retry budget.  A row that has never run has spent nothing, and a    *)
(* retry is decided on the retry_count the row still has.                  *)
(***************************************************************************)
BudgetInv ==
  /\ BudgetHeadroom
  /\ \A j \in Jobs : row[j].status \in {"ABSENT", "SCHEDULED"} => row[j].retry = 0

\* BudgetHeadroom is inductive with what it needs of rows that never ran.
THEOREM BudgetInvariance == Spec => []BudgetInv
<1>1. Init => BudgetInv
  BY ConstantsAssumption DEF Init, BudgetInv, BudgetHeadroom, EmptyRow
<1>2. TypeOK /\ TypeOK' /\ LeaseInv /\ VersionInv /\ BudgetInv /\ [Next]_vars => BudgetInv'
  <2> SUFFICES ASSUME TypeOK, TypeOK', LeaseInv, VersionInv, BudgetInv, [Next]_vars, NEW j \in Jobs
               PROVE  /\ row'[j].retry <= Budget[j]
                      /\ row'[j].status \in {"QUEUED", "RUNNING"} =>
                           row'[j].retry < Budget[j] \/ Budget[j] = 0
                      /\ row'[j].status \in {"ABSENT", "SCHEDULED"} => row'[j].retry = 0
    BY DEF BudgetInv, BudgetHeadroom
  <2>1. RowStep(j) /\ row[j].retry \in Nat /\ row'[j].retry \in Nat /\ Budget[j] \in Nat
    BY EveryRowSteps, ConstantsAssumption DEF TypeOK, Row
  <2>2. /\ row[j].retry <= Budget[j]
        /\ row[j].status \in {"QUEUED", "RUNNING"} => row[j].retry < Budget[j] \/ Budget[j] = 0
        /\ row[j].status \in {"ABSENT", "SCHEDULED"} => row[j].retry = 0
    BY DEF BudgetInv, BudgetHeadroom
  <2>3. CASE RowKept(j)
    BY <2>1, <2>2, <2>3 DEF RowKept
  <2>4. CASE RowCreated(j)
    BY <2>1, <2>2, <2>4 DEF RowCreated
  <2>5. CASE RowMoved(j)
    BY <2>1, <2>2, <2>5 DEF RowMoved, Edge
  <2>6. CASE RowSpent(j)
    BY <2>1, <2>2, <2>6 DEF RowSpent, RetryAllowed
  <2>7. CASE RowRetried(j)
    <3>1. row[j].retry < Budget[j]
      BY <2>7 DEF RowRetried, RetryAllowed, VersionInv, ReadsAreVersions
    <3> QED BY <2>1, <2>7, <3>1 DEF RowRetried
  <2> QED BY <2>1, <2>3, <2>4, <2>5, <2>6, <2>7 DEF RowStep
<1> QED
  BY <1>1, <1>2, Typing, LeaseInvariance, VersionInvariance, PTL DEF Spec

\* retry_count never passes max_retries, whatever stale reads the sweep, the
\* reaper and the operator decide on, and no row without budget is queued again.
THEOREM BudgetIsNeverOverrun == Spec => []BudgetHeadroom
<1>1. BudgetInv => BudgetHeadroom
  BY DEF BudgetInv
<1> QED
  BY <1>1, BudgetInvariance, PTL

(***************************************************************************)
(* Ends.  Success is final; a live lease is ended by its holder or by an   *)
(* operator only; an exhausted row is archived once.                       *)
(***************************************************************************)
\* No statement writes a row that SUCCEEDED.
LEMMA WritesSpareSuccess ==
  ASSUME TypeOK, LeaseInv, [Next]_vars
  PROVE  \/ row' = row
         \/ \E j \in Jobs : \E q : row' = [row EXCEPT ![j] = q] /\ row[j].status # "SUCCEEDED"
<1>1. ASSUME NEW j \in Jobs, JobStep(j)
      PROVE  row' = row \/ \E q : row' = [row EXCEPT ![j] = q] /\ row[j].status # "SUCCEEDED"
  <2>1. ASSUME LeaseExpires(j) PROVE row[j].status # "SUCCEEDED"
    BY <2>1, ExpiredRuns DEF LeaseExpires
  <2> QED
    BY <1>1, <2>1 DEF JobStep, Create, PromoteScheduled, LeaseExpires, Cancel, Terminal,
                      SelectCandidate, ScanExpired, ReadForRetry, TakeRead
<1>2. ASSUME NEW s \in reads, ReadStep(s)
      PROVE  row' = row \/ \E q : row' = [row EXCEPT ![s.job] = q] /\ row[s.job].status # "SUCCEEDED"
  <2>1. ASSUME RequeueSingle(s) \/ MarkFailed(s) PROVE row[s.job].status # "SUCCEEDED"
    BY <2>1, ExpiredRuns DEF RequeueSingle, MarkFailed, Reapable, TypeOK, Read
  <2>2. Retryable = {"RETRY_WAIT", "FAILED", "CANCELLED"}
    BY DEF Retryable
  <2> QED
    BY <1>2, <2>1, <2>2 DEF ReadStep, Start, RequeueSingle, MarkFailed, RetryCommit, ExhaustRetry,
                            Exhaustible, DropRead
<1>3. ASSUME NEW t \in issued, HolderStep(t)
      PROVE  row' = row \/ \E q : row' = [row EXCEPT ![t.job] = q] /\ row[t.job].status # "SUCCEEDED"
  BY <1>3 DEF HolderStep, ScheduleRetry, RenewLease, Renewable, Complete, Fail, SpendRetry, Defer,
              Owns, DeadLetter
<1>4. /\ \A s \in reads : s.job \in Jobs
      /\ \A t \in issued : t.job \in Jobs
  BY DEF TypeOK, Read, Ticket
<1>5. CASE UNCHANGED vars
  BY <1>5 DEF vars
<1>6. CASE Next
  BY <1>6, <1>1, <1>2, <1>3, <1>4 DEF Next
<1> QED
  BY <1>5, <1>6

\* Nothing leads out of SUCCEEDED, and nothing touches the row any more.
THEOREM SuccessIsFinal == Spec => SucceededIsFinal
<1>1. TypeOK /\ LeaseInv /\ [Next]_vars =>
        [\A j \in Jobs : row[j].status = "SUCCEEDED" => row'[j] = row[j]]_vars
  BY WritesSpareSuccess DEF TypeOK
<1> QED
  BY <1>1, Typing, LeaseInvariance, PTL DEF Spec, SucceededIsFinal

\* A RUNNING row is ended by its holder, who settles its lease, by Cancel, or
\* by the reaper once its lease has run out.
LEMMA WaysOutOfRunning ==
  ASSUME TypeOK, LeaseInv, [Next]_vars, NEW j \in Jobs,
         row[j].status = "RUNNING", row'[j].status # "RUNNING"
  PROVE  \/ row[j].expiry = "past"
         \/ row'[j].status = "CANCELLED"
         \/ settled'[row[j].lease] # "open"
<1>r. row[j] \in Row /\ row' # row
  BY DEF TypeOK
<1>1. ASSUME NEW k \in Jobs, JobStep(k)
      PROVE  row'[j].status = "CANCELLED"
  <2>1. row'[k].status # row[k].status => k = j
    BY <1>1 DEF JobStep, Create, PromoteScheduled, LeaseExpires, Cancel, TypeOK,
                SelectCandidate, ScanExpired, ReadForRetry, TakeRead
  <2>2. CASE Cancel(k)
    <3>1. [Released(row[k], "CANCELLED") EXCEPT !.cancelled = TRUE].status = "CANCELLED"
      BY MarkedRow DEF TypeOK, Statuses, Terminal
    <3> QED BY <2>2, <3>1 DEF Cancel, TypeOK
  <2>3. CASE LeaseExpires(k)
    BY <2>3, <1>r DEF LeaseExpires, TypeOK, Row
  <2>4. CASE ~Cancel(k) /\ ~LeaseExpires(k)
    BY <1>1, <1>r, <2>4 DEF JobStep, Create, PromoteScheduled, SelectCandidate, ScanExpired,
                             ReadForRetry, TakeRead, TypeOK
  <2> QED BY <2>2, <2>3, <2>4
<1>2. ASSUME NEW s \in reads, ReadStep(s) PROVE row[j].expiry = "past"
  <2>1. s.job \in Jobs
    BY DEF TypeOK, Read
  <2>2. s.job = j
    BY <1>2, <1>r, <2>1 DEF ReadStep, Start, RequeueSingle, MarkFailed, RetryCommit, ExhaustRetry,
                            DropRead, TypeOK
  <2> QED
    BY <1>2, <1>r, <2>2 DEF ReadStep, Start, RequeueSingle, MarkFailed, Reapable, RetryCommit,
                            Retryable, ExhaustRetry, Exhaustible, DropRead
<1>3. ASSUME NEW t \in issued, HolderStep(t) PROVE settled'[row[j].lease] # "open"
  <2>1. t.job \in Jobs /\ t.lease \in Leases
    BY DEF TypeOK, Ticket
  <2>2. ~DeadLetter(t)
    BY <1>r DEF DeadLetter
  <2>3. ~RenewLease(t)
    <3>1. ASSUME RenewLease(t) PROVE row'[j].status = row[j].status
      BY <3>1, <1>r DEF RenewLease, TypeOK, Row
    <3> QED BY <3>1
  <2>4. Complete(t) \/ Fail(t) \/ SpendRetry(t) \/ Defer(t)
    BY <1>3, <2>2, <2>3 DEF HolderStep, ScheduleRetry
  <2>5. /\ row[t.job].lease = t.lease
        /\ \E q : row' = [row EXCEPT ![t.job] = q]
        /\ \E outcome \in {"SUCCEEDED", "FAILED", "RETRY_WAIT"} :
             settled' = [settled EXCEPT ![t.lease] = outcome]
    BY <2>4, HolderWrites
  <2>6. t.job = j
    BY <2>1, <2>5 DEF TypeOK
  <2> QED BY <2>1, <2>5, <2>6 DEF TypeOK
<1>4. CASE UNCHANGED vars
  BY <1>4, <1>r DEF vars
<1>5. CASE Next
  BY <1>5, <1>1, <1>2, <1>3 DEF Next
<1> QED
  BY <1>4, <1>5

\* A renewal in time beats every reaper that read the row before it.
THEOREM RenewalsBeatTheReaper == Spec => LiveLeaseKept
<1> DEFINE Kept == \A j \in Jobs :
                     row[j].expiry = "live" /\ row'[j].status # "RUNNING" =>
                       \/ row'[j].status = "CANCELLED"
                       \/ settled'[row[j].lease] # "open"
<1>1. TypeOK /\ LeaseInv /\ [Next]_vars => [Kept]_vars
  BY ExpiredRuns, WaysOutOfRunning
<1> QED
  BY <1>1, Typing, LeaseInvariance, PTL DEF Spec, LiveLeaseKept

(***************************************************************************)
(* Announcements.                                                          *)
(***************************************************************************)
Flipped == {u \in issued : settled[u.lease] \in {"SUCCEEDED", "FAILED"}}

\* A step that lets the outcomes stand, or adds an unsettled claim, announces
\* nothing and needs to announce nothing.
LEMMA AnnouncementsStand ==
  ASSUME AnnouncedExactly, announced' = announced, settled' = settled,
         issued' = issued \/ \E t : settled[t.lease] = "open" /\ issued' = issued \cup {t}
  PROVE  AnnouncedExactly'
<1>1. Flipped' = Flipped
  BY DEF Flipped
<1>2. announced = {t.job : t \in Flipped}
  BY DEF AnnouncedExactly, Flipped
<1>3. announced' = {t.job : t \in Flipped'}
  BY <1>1, <1>2
<1> QED
  BY <1>3 DEF AnnouncedExactly, Flipped

\* job.completed exists for the jobs some holder completed or failed, and for
\* no other: not for the cancelled, the reaped, or the exhausted.
THEOREM AnnouncementsAreExact == Spec => []AnnouncedExactly
<1>1. Init => AnnouncedExactly
  BY DEF Init, AnnouncedExactly
<1>2. TypeOK /\ LeaseInv /\ AnnouncedExactly /\ [Next]_vars => AnnouncedExactly'
  <2> SUFFICES ASSUME TypeOK, LeaseInv, AnnouncedExactly, [Next]_vars PROVE AnnouncedExactly'
    OBVIOUS
  <2>1. CASE UNCHANGED vars
    BY <2>1, AnnouncementsStand DEF vars
  <2>2. ASSUME NEW j \in Jobs, JobStep(j) PROVE AnnouncedExactly'
    BY <2>2, AnnouncementsStand DEF JobStep, Create, PromoteScheduled, LeaseExpires, Cancel,
                                    SelectCandidate, ScanExpired, ReadForRetry, TakeRead
  <2>3. ASSUME NEW s \in reads, NEW w \in Workers, Start(s, w) PROVE AnnouncedExactly'
    <3> DEFINE t == [job |-> s.job, worker |-> w, lease |-> lastLease + 1]
    <3>1. lastLease + 1 \in Leases /\ lastLease + 1 > lastLease
      BY <2>3, ConstantsAssumption DEF TypeOK, Start, Leases
    <3>2. t.lease = lastLease + 1 /\ settled[lastLease + 1] = "open"
      BY <3>1 DEF LeaseInv, FreshOpen
    <3>3. issued' = issued \cup {t} /\ settled' = settled /\ announced' = announced
      BY <2>3 DEF Start, FreshLease
    <3> HIDE DEF t
    <3> QED BY <3>2, <3>3, AnnouncementsStand
  <2>4. ASSUME NEW s \in reads, ReadStep(s), \A w \in Workers : ~Start(s, w) PROVE AnnouncedExactly'
    BY <2>4, AnnouncementsStand DEF ReadStep, RequeueSingle, MarkFailed, RetryCommit, ExhaustRetry,
                                    DropRead
  <2>5. ASSUME NEW t \in issued, HolderStep(t) PROVE AnnouncedExactly'
    <3>1. CASE RenewLease(t) \/ DeadLetter(t)
      BY <3>1, AnnouncementsStand DEF RenewLease, DeadLetter
    <3>2. CASE Complete(t) \/ Fail(t) \/ SpendRetry(t) \/ Defer(t)
      <4>1. t \in Ticket /\ t.lease \in Leases /\ settled[t.lease] = "open" /\ issued' = issued
        BY <3>2, HolderWrites, HeldAlone DEF TypeOK
      <4>2. ASSUME NEW u \in issued, u # t
            PROVE  settled'[u.lease] = settled[u.lease]
        <5>1. u.lease # t.lease /\ u.lease \in Leases
          BY <4>2 DEF LeaseInv, IssuedUnique, TypeOK, Ticket
        <5> QED BY <3>2, <5>1, HolderWrites DEF TypeOK
      <4>3. announced = {u.job : u \in Flipped}
        BY DEF AnnouncedExactly, Flipped
      <4>4. announced' = {u.job : u \in Flipped'}
        <5>1. CASE Complete(t) \/ Fail(t)
          <6>1. settled'[t.lease] \in {"SUCCEEDED", "FAILED"} /\ announced' = announced \cup {t.job}
            BY <4>1, <5>1 DEF Complete, Fail, Settle, AnnounceCompleted, TypeOK
          <6>2. Flipped' = Flipped \cup {t}
            BY <4>1, <4>2, <6>1 DEF Flipped
          <6> QED BY <4>3, <6>1, <6>2
        <5>2. CASE SpendRetry(t) \/ Defer(t)
          <6>1. settled'[t.lease] = "RETRY_WAIT" /\ announced' = announced
            BY <4>1, <5>2 DEF SpendRetry, Defer, Settle, TypeOK
          <6>2. Flipped' = Flipped
            BY <4>1, <4>2, <6>1 DEF Flipped
          <6> QED BY <4>3, <6>1, <6>2
        <5> QED BY <3>2, <5>1, <5>2
      <4> QED BY <4>4 DEF AnnouncedExactly, Flipped
    <3> QED BY <2>5, <3>1, <3>2 DEF HolderStep, ScheduleRetry
  <2>6. CASE Next
    BY <2>2, <2>3, <2>4, <2>5, <2>6 DEF Next, ReadStep
  <2> QED BY <2>1, <2>6
<1> QED
  BY <1>1, <1>2, Typing, LeaseInvariance, PTL DEF Spec

(***************************************************************************)
(* Exhaustion.  An archived row has no budget left, which is what keeps    *)
(* every later retry of it from being committed.                           *)
(***************************************************************************)
ExhaustInv ==
  /\ ExhaustedOnce
  /\ \A d \in dlq : d.lease = NoLease => row[d.job].retry >= Budget[d.job]

\* What joins dlq: letters of holders, and one letter of an exhausted row.
LEMMA LettersCome ==
  ASSUME TypeOK, [Next]_vars
  PROVE  \/ \A d \in dlq' : d \in dlq \/ d.lease # NoLease
         \/ \E s \in reads : ExhaustRetry(s)
<1>1. ASSUME NEW j \in Jobs, JobStep(j) PROVE dlq' = dlq
  BY <1>1 DEF JobStep, Create, PromoteScheduled, LeaseExpires, Cancel,
              SelectCandidate, ScanExpired, ReadForRetry, TakeRead
<1>2. ASSUME NEW s \in reads, ReadStep(s) PROVE dlq' = dlq \/ ExhaustRetry(s)
  BY <1>2 DEF ReadStep, Start, RequeueSingle, MarkFailed, RetryCommit, DropRead
<1>3. ASSUME NEW t \in issued, HolderStep(t) PROVE \A d \in dlq' : d \in dlq \/ d.lease # NoLease
  <2>1. CASE DeadLetter(t)
    BY <2>1 DEF DeadLetter, TypeOK, Ticket, Leases, NoLease
  <2>2. CASE ~DeadLetter(t)
    BY <1>3, <2>2 DEF HolderStep, ScheduleRetry, RenewLease, Complete, Fail, SpendRetry, Defer
  <2> QED BY <2>1, <2>2
<1>4. CASE UNCHANGED vars
  BY <1>4 DEF vars
<1>5. CASE Next
  BY <1>5, <1>1, <1>2, <1>3 DEF Next
<1> QED
  BY <1>4, <1>5

\* However many sweeps saw a RETRY_WAIT row without budget, one archives it,
\* and it stays FAILED.
THEOREM ExhaustionIsArchivedOnce == Spec => []ExhaustedOnce
<1>1. Init => ExhaustInv
  BY DEF Init, ExhaustInv, ExhaustedOnce
<1>2. TypeOK /\ TypeOK' /\ LeaseInv /\ VersionInv /\ ExhaustInv /\ [Next]_vars => ExhaustInv'
  <2> SUFFICES ASSUME TypeOK, TypeOK', LeaseInv, VersionInv, ExhaustInv, [Next]_vars PROVE ExhaustInv'
    OBVIOUS
  <2>1. \A d \in dlq : d.job \in Jobs
    BY DEF TypeOK, Letter
  <2>2. \A j \in Jobs : /\ RowStep(j) /\ Budget[j] \in Nat
                        /\ row[j].retry \in Nat /\ row'[j].retry \in Nat
    BY EveryRowSteps, ConstantsAssumption DEF TypeOK, Row
  <2>3. ASSUME NEW d \in dlq, d.lease = NoLease
        PROVE  row'[d.job].status = "FAILED" /\ row'[d.job].retry >= Budget[d.job]
    <3>1. /\ d.job \in Jobs /\ RowStep(d.job)
          /\ row[d.job].status = "FAILED" /\ row[d.job].retry >= Budget[d.job]
      BY <2>1, <2>2, <2>3 DEF ExhaustInv, ExhaustedOnce
    <3>2. ~RowRetried(d.job)
      <4>1. \A s \in reads : s.job = d.job /\ Fresh(s) => s.retry = row[d.job].retry
        BY DEF VersionInv, ReadsAreVersions
      <4> QED BY <2>2, <3>1, <4>1 DEF RowRetried, RetryAllowed
    <3> QED BY <3>1, <3>2 DEF RowStep, RowKept, RowCreated, RowMoved, RowSpent, Edge
  <2>4. CASE \A d \in dlq' : d \in dlq \/ d.lease # NoLease
    BY <2>3, <2>4 DEF ExhaustInv, ExhaustedOnce
  <2>5. ASSUME NEW s \in reads, ExhaustRetry(s) PROVE ExhaustInv'
    <3> DEFINE j == s.job
               e == [job |-> j, lease |-> NoLease, rev |-> row[j].rev + 1]
    <3>1. /\ j \in Jobs /\ s.retry \in Nat
          /\ row[j].status = "RETRY_WAIT" /\ Fresh(s) /\ ~RetryAllowed(j, s.retry)
          /\ row' = [row EXCEPT ![j] = Released(row[j], "FAILED")]
          /\ dlq' = dlq \cup {e}
      <4>1. s \in Read
        BY DEF TypeOK
      <4> QED BY <2>5, <4>1 DEF ExhaustRetry, Exhaustible, Read
    <3>2. row'[j].status = "FAILED" /\ row'[j].retry = row[j].retry
      <4>1. row[j] \in Row /\ "FAILED" \in Statuses
        BY <3>1 DEF TypeOK, Statuses, Terminal
      <4>2. Released(row[j], "FAILED").status = "FAILED" /\ Released(row[j], "FAILED").retry = row[j].retry
        BY <4>1, ReleasedRow
      <4> QED BY <3>1, <4>2 DEF TypeOK
    <3>3. row[j].retry >= Budget[j]
      <4>1. s.retry = row[j].retry
        BY <3>1 DEF VersionInv, ReadsAreVersions
      <4> QED BY <2>2, <3>1, <4>1 DEF RetryAllowed
    <3>4. \A d \in dlq : d.lease = NoLease => d.job # j
      BY <3>1 DEF ExhaustInv, ExhaustedOnce
    <3>5. e.job = j /\ e.lease = NoLease
      OBVIOUS
    <3> HIDE DEF j, e
    <3>6. \A d \in dlq' : d.lease = NoLease =>
            row'[d.job].status = "FAILED" /\ row'[d.job].retry >= Budget[d.job]
      BY <2>3, <3>1, <3>2, <3>3, <3>5
    <3>7. \A c, d \in dlq' : c.lease = NoLease /\ d.lease = NoLease /\ c.job = d.job => c = d
      BY <3>1, <3>4, <3>5 DEF ExhaustInv, ExhaustedOnce
    <3> QED BY <3>6, <3>7 DEF ExhaustInv, ExhaustedOnce
  <2> QED BY <2>4, <2>5, LettersCome
<1>3. ExhaustInv => ExhaustedOnce
  BY DEF ExhaustInv
<1> QED
  BY <1>1, <1>2, <1>3, Typing, LeaseInvariance, VersionInvariance, PTL DEF Spec
=============================================================================
