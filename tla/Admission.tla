------------------------------ MODULE Admission ------------------------------
(***************************************************************************)
(* Idempotent admission of jobs: Service.Enqueue of                        *)
(* src/internal/capabilities/jobs/queue/service.go on the jobs table of    *)
(* the jobs plane.                                                         *)
(*                                                                         *)
(* A request names its job by up to three keys: an active key, a           *)
(* correlation id (of its job type) and a client key (client id and        *)
(* idempotency key).  Enqueue looks each of them up, inserts a row if none *)
(* is found, and looks again if the insert hits a unique index.  Every     *)
(* lookup and the insert are statements of their own, so requests that run *)
(* at the same time, and jobs that end meanwhile, come between them.       *)
(*                                                                         *)
(* A request creates at most one job, which is named by the request.  A    *)
(* job is "active" while FindActiveByKey sees it (SCHEDULED, QUEUED,       *)
(* LEASED, RUNNING, FINALIZING), and "parked" in RETRY_WAIT and when it    *)
(* has ended.  Either may come back: RETRY_WAIT when due, a failed or      *)
(* cancelled job by Retry.                                                 *)
(***************************************************************************)
EXTENDS Naturals, FiniteSets

CONSTANTS
  Requests,     \* calls of Enqueue; their order is that of the jobs' creation stamps
  Asks,         \* the combinations of keys that requests carry
  MaxTroubled   \* bound: requests that meet a failed statement or a crash

NoKey == "none"
NoJob == 0

ASSUME AdmissionAssumption ==
  /\ Requests \subseteq Nat \ {NoJob} /\ IsFiniteSet(Requests)
  /\ \A a \in Asks : DOMAIN a = {"active", "correlation", "client"}
  /\ MaxTroubled \in Nat

VARIABLES
  ask,        \* the keys of each request
  at,         \* where each call of Enqueue is
  answer,     \* the job it returned
  job,        \* the job it created
  before,     \* history: the calls that had returned when it began
  left,       \* history: the jobs that have been parked
  troubled    \* history and bound: the calls that met a failure

vars == <<ask, at, answer, job, before, left, troubled>>

(***************************************************************************)
(* State                                                                   *)
(***************************************************************************)
Lookups == {"active", "correlation", "client"}
Rescues == {"rescue correlation", "rescue active", "rescue client"}
Ends    == {"answered", "refused", "failed"}
Phases  == {"idle", "create"} \cup Lookups \cup Rescues \cup Ends

Jobs == {"none", "active", "parked"}

Exists == {r \in Requests : job[r] # "none"}
Same(r, s, key) == ask[r][key] # NoKey /\ ask[r][key] = ask[s][key]

\* Mutant: the lookup sees rows that are not committed yet.
ByActiveUncommitted(r) == {s \in Requests : Same(r, s, "active")}
ByActive(r)      == {s \in Requests : job[s] = "active" /\ Same(r, s, "active")}
\* Mutant: the lookup sees active jobs only.
ByActiveCorrelation(r) == {s \in Requests : job[s] = "active" /\ Same(r, s, "correlation")}
ByCorrelation(r) == {s \in Exists : Same(r, s, "correlation")}
ByClient(r)      == {s \in Exists : Same(r, s, "client")}

\* Mutant: the active key is not indexed.
ConflictsOfClient(r) == ByClient(r)
\* The unique indexes: on active_key in every status, and on the client key.
Conflicts(r) == {s \in Exists : Same(r, s, "active") \/ Same(r, s, "client")}

Newest(s, jobs) == s \in jobs /\ \A t \in jobs : t <= s

Goes(r, phase) == at' = [at EXCEPT ![r] = phase] /\ UNCHANGED <<ask, answer, job, before, left>>

Returns(r, s) ==
  /\ at' = [at EXCEPT ![r] = "answered"]
  /\ answer' = [answer EXCEPT ![r] = s]
  /\ UNCHANGED <<ask, before, left>>

\* One lookup: its newest row is the answer, or the call goes on.
Lookup(r, phase, found, next) ==
  /\ at[r] = phase
  /\ \/ \E s \in Requests : Newest(s, found) /\ Returns(r, s) /\ UNCHANGED job
     \/ found = {} /\ Goes(r, next)
  /\ UNCHANGED troubled

(***************************************************************************)
(* Enqueue                                                                 *)
(***************************************************************************)
Begin(r) ==
  /\ at[r] = "idle"
  /\ at' = [at EXCEPT ![r] = "active"]
  /\ before' = [before EXCEPT ![r] = {s \in Requests : at[s] \in Ends}]
  /\ UNCHANGED <<ask, answer, job, left, troubled>>

FindActiveByKey(r)          == Lookup(r, "active", ByActive(r), "correlation")
FindByTypeAndCorrelation(r) == Lookup(r, "correlation", ByCorrelation(r), "client")
FindByClient(r)             == Lookup(r, "client", ByClient(r), "create")

\* ErrDuplicate leads to the rescue lookups.
Create(r) ==
  /\ at[r] = "create"
  /\ IF Conflicts(r) = {} THEN Returns(r, r) /\ job' = [job EXCEPT ![r] = "active"]
                          ELSE Goes(r, "rescue correlation")
  /\ UNCHANGED troubled

RescueByCorrelation(r) == Lookup(r, "rescue correlation", ByCorrelation(r), "rescue active")
RescueByActive(r)      == Lookup(r, "rescue active", ByActive(r), "rescue client")

\* Mutant: there is no third rescue.
NoRescue(r) == {}
Rescued(r)  == ByClient(r)
RescueByClient(r) == Lookup(r, "rescue client", Rescued(r), "refused")

(***************************************************************************)
(* Failures                                                                *)
(***************************************************************************)
Troubled(r) ==
  /\ Cardinality(troubled \cup {r}) <= MaxTroubled
  /\ troubled' = troubled \cup {r}

\* A lookup of the correlation id or the client key that times out is taken
\* for one that found nothing, and so is every failed lookup of the rescue.
LookupTimesOut(r) ==
  /\ Troubled(r)
  /\ \/ at[r] = "correlation" /\ Goes(r, "client")
     \/ at[r] = "client" /\ Goes(r, "create")
     \/ at[r] = "rescue correlation" /\ Goes(r, "rescue active")
     \/ at[r] = "rescue active" /\ Goes(r, "rescue client")
     \/ at[r] = "rescue client" /\ Goes(r, "refused")

\* A statement fails otherwise, or the process dies.
CallFails(r) ==
  /\ Troubled(r)
  /\ at[r] \in Lookups \cup {"create"} \cup Rescues
  /\ Goes(r, "failed")

\* The row is committed and nobody is told.
ReplyLost(r) ==
  /\ Troubled(r)
  /\ at[r] = "create" /\ Conflicts(r) = {}
  /\ at' = [at EXCEPT ![r] = "failed"]
  /\ job' = [job EXCEPT ![r] = "active"]
  /\ UNCHANGED <<ask, answer, before, left>>

(***************************************************************************)
(* What becomes of the jobs                                                *)
(***************************************************************************)
Park(r) ==
  /\ job[r] = "active"
  /\ job' = [job EXCEPT ![r] = "parked"]
  /\ left' = left \cup {r}
  /\ UNCHANGED <<ask, at, answer, before, troubled>>

ComeBack(r) ==
  /\ job[r] = "parked"
  /\ job' = [job EXCEPT ![r] = "active"]
  /\ UNCHANGED <<ask, at, answer, before, left, troubled>>

Init ==
  /\ ask \in [Requests -> Asks]
  /\ at = [r \in Requests |-> "idle"]
  /\ answer = [r \in Requests |-> NoJob]
  /\ job = [r \in Requests |-> "none"]
  /\ before = [r \in Requests |-> {}]
  /\ left = {}
  /\ troubled = {}

Enqueue(r) ==
  \/ Begin(r)
  \/ FindActiveByKey(r) \/ FindByTypeAndCorrelation(r) \/ FindByClient(r)
  \/ Create(r)
  \/ RescueByCorrelation(r) \/ RescueByActive(r) \/ RescueByClient(r)

Fails(r) == LookupTimesOut(r) \/ CallFails(r) \/ ReplyLost(r)

Next == \E r \in Requests : Enqueue(r) \/ Fails(r) \/ Park(r) \/ ComeBack(r)

Spec == Init /\ [][Next]_vars

(***************************************************************************)
(* Properties                                                              *)
(***************************************************************************)
\* Types; a call that was answered was given a job that exists.
TypeOK ==
  /\ ask \in [Requests -> Asks]
  /\ at \in [Requests -> Phases]
  /\ answer \in [Requests -> Requests \cup {NoJob}]
  /\ job \in [Requests -> Jobs]
  /\ before \in [Requests -> SUBSET Requests]
  /\ left \subseteq Requests
  /\ troubled \subseteq Requests
  /\ \A r \in Requests : at[r] = "answered" => answer[r] \in Exists

Only(r, key) == ask[r][key] # NoKey /\ \A other \in DOMAIN ask[r] \ {key} : ask[r][other] = NoKey

\* All the requests that name their job by one active key, or by one client
\* key, are given one job, whether they race, repeat or follow each other by
\* days, and whatever became of the job.
OneKeyOneJob ==
  \A r, s \in Requests, key \in {"active", "client"} :
    at[r] = "answered" /\ at[s] = "answered" /\ Only(r, key) /\ Only(s, key) /\ Same(r, s, key)
      => answer[r] = answer[s]

\* No index guards the correlation id.  Two jobs share one only if their
\* requests ran at the same time, or the later of them met a failure.
DuplicatesOverlap ==
  \A r, s \in Exists :
    r # s /\ Same(r, s, "correlation") /\ r \in before[s] => s \in troubled

\* A request is refused as a duplicate only because of an active key whose
\* job has been seen to leave the active states (the index never forgets the
\* key, FindActiveByKey does not see the job), or after a failure.
RefusalsAreExplained ==
  \A r \in Requests : at[r] = "refused" =>
    r \in troubled \/ \E s \in left \ {r} : Same(r, s, "active")

(***************************************************************************)
(* A statement of the documentation that the code contradicts              *)
(***************************************************************************)
\* src/docs/operations/job-debug-runbook.md:340-342: "replaying the same
\* active_key, correlation_id, or (client_id, idempotency_key) returns the
\* same job_id".
ReplayReturnsSameJob ==
  \A r, s \in Requests :
    r \in before[s] /\ at[r] = "answered" /\ ask[r] = ask[s] /\ s \notin troubled /\ at[s] \in Ends
      => answer[s] = answer[r]
=============================================================================
