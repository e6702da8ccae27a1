--------------------------- MODULE AdmissionProofs ---------------------------
(***************************************************************************)
(* Theorems about Admission, for every set of requests and of keys.        *)
(*                                                                         *)
(* None of the three properties is inductive.  IInv adds that the indexes  *)
(* kept the keys apart (KeysApart), that every answer shares a key with    *)
(* its request (AnswersFit), what the histories say (Histories), and what  *)
(* the place of a call that met no failure says of its keys (Placed).      *)
(***************************************************************************)
EXTENDS Admission, TLAPS

KeyNames == {"active", "correlation", "client"}

\* Types as TypeOK has them, without its last conjunct.
Types ==
  /\ ask \in [Requests -> Asks]
  /\ at \in [Requests -> Phases]
  /\ answer \in [Requests -> Requests \cup {NoJob}]
  /\ job \in [Requests -> Jobs]
  /\ before \in [Requests -> SUBSET Requests]
  /\ left \subseteq Requests
  /\ troubled \subseteq Requests

KeysApart ==
  \A r, s \in Exists : r # s => ~Same(r, s, "active") /\ ~Same(r, s, "client")

Fits(r, s) == s = r \/ \E key \in KeyNames : Same(r, s, key)
AnswersFit ==
  \A r \in Requests : at[r] = "answered" => answer[r] \in Exists /\ Fits(r, answer[r])

Histories ==
  \A r \in Requests :
    /\ at[r] = "idle" => before[r] = {}
    /\ r \notin before[r]
    /\ \A s \in before[r] : at[s] \in Ends
    /\ job[r] # "none" => at[r] \in {"answered", "failed"}
    /\ job[r] = "parked" => r \in left

\* No job of a call that had returned has the correlation id of r.
Clear(r)  == \A s \in before[r] : job[s] # "none" => ~Same(r, s, "correlation")
Caused(r) == \E s \in left : s # r /\ Same(r, s, "active")

\* What r has established when it is at a phase.
Ready(r, phase) ==
  /\ phase # "failed"
  /\ phase \in {"client", "create", "refused"} \cup Rescues => Clear(r)
  /\ phase \in Rescues => Conflicts(r) # {}
  /\ phase = "rescue client" => Caused(r) \/ ByClient(r) # {}
  /\ phase = "refused" => Caused(r)

Place(r) == Ready(r, at[r]) /\ (job[r] # "none" => Clear(r))

Placed == \A r \in Requests : r \notin troubled => Place(r)

IInv == Types /\ KeysApart /\ AnswersFit /\ Histories /\ Placed

(***************************************************************************)
(* Steps of one call: what they have in common.                            *)
(***************************************************************************)
\* A step of the call r changes nothing of the other calls, and a call that
\* has returned takes no step.
Frame(r) ==
  /\ ask' = ask
  /\ at[r] \notin Ends
  /\ \A s \in Requests : s # r => at'[s] = at[s] /\ answer'[s] = answer[s] /\ job'[s] = job[s]
                                  /\ before'[s] = before[s]
  /\ left' = left
  /\ troubled \subseteq troubled'

\* What the places of the other calls say stays true.
LEMMA OthersStay ==
  ASSUME Histories, Placed, NEW r \in Requests, Frame(r), job[r] = "none",
         NEW s \in Requests, s # r, s \notin troubled', before[s] \subseteq Requests
  PROVE  Place(s)'
<1>1. Place(s)
  BY DEF Placed, Frame
<1>2. \A t \in Requests, key \in KeyNames : Same(s, t, key)' <=> Same(s, t, key)
  BY DEF Frame, Same
<1>3. Clear(s) => Clear(s)'
  <2> SUFFICES ASSUME Clear(s), NEW t \in before'[s], job'[t] # "none"
               PROVE  ~Same(s, t, "correlation")'
    BY DEF Clear
  <2>1. t \in before[s] /\ at[t] \in Ends /\ t \in Requests
    BY DEF Frame, Histories
  <2>2. t # r /\ job[t] # "none"
    BY <2>1 DEF Frame
  <2> QED
    BY <1>2, <2>1, <2>2 DEF Clear, KeyNames
<1>4. \A t \in Requests : job[t] # "none" => job'[t] # "none"
  BY DEF Frame
<1>5. Caused(s) => Caused(s)'
  BY DEF Caused, Frame, Same
<1>6. at'[s] = at[s] /\ job'[s] = job[s]
  BY DEF Frame
<1>7. Conflicts(s) # {} => Conflicts(s)' # {}
  BY <1>2, <1>4 DEF Conflicts, Exists, KeyNames
<1>8. ByClient(s) # {} => ByClient(s)' # {}
  BY <1>2, <1>4 DEF ByClient, Exists, KeyNames
<1> QED
  BY <1>1, <1>3, <1>5, <1>6, <1>7, <1>8 DEF Place, Ready

\* The call goes on to another place, or fails, without an answer.
LEMMA GoesKeeps ==
  ASSUME IInv, NEW r \in Requests, NEW phase \in Phases \ {"idle", "answered"}, Goes(r, phase),
         at[r] \notin Ends, at[r] # "idle", troubled \subseteq troubled', troubled' \subseteq Requests,
         r \notin troubled' => Place(r)'
  PROVE  IInv'
<1> USE DEF IInv
<1>1. Frame(r) /\ at'[r] = phase
  BY DEF Goes, Frame, Types
<1>2. Types'
  BY DEF Types, Goes
<1>3. KeysApart'
  BY DEF KeysApart, Exists, Same, Goes
<1>4. AnswersFit'
  BY <1>1 DEF AnswersFit, Fits, Exists, Same, Goes, Frame, Types
<1>5. Histories'
  BY <1>1 DEF Histories, Goes, Frame, Types, Ends
<1>6. job[r] = "none"
  BY DEF Histories, Types, Ends
<1>7. Placed'
  BY <1>1, <1>6, OthersStay DEF Placed, Types
<1> QED
  BY <1>2, <1>3, <1>4, <1>5, <1>7

\* The call is given the job s.
LEMMA ReturnsKeeps ==
  ASSUME IInv, NEW r \in Requests, NEW s \in Exists, Fits(r, s), Returns(r, s), UNCHANGED <<job, troubled>>,
         at[r] \notin Ends, at[r] # "idle"
  PROVE  IInv'
<1> USE DEF IInv
<1>1. Frame(r) /\ at'[r] = "answered" /\ answer'[r] = s /\ job[r] = "none" /\ job'[r] = "none"
  BY DEF Returns, Frame, Types, Histories, Ends
<1>2. Types'
  BY DEF Types, Returns, Exists, Phases, Ends
<1>3. KeysApart'
  BY DEF KeysApart, Exists, Same, Returns
<1>4. AnswersFit'
  BY <1>1 DEF AnswersFit, Fits, Exists, Same, Returns, Frame
<1>5. Histories'
  BY <1>1 DEF Histories, Returns, Frame, Types, Ends
<1>6. Place(r)'
  BY <1>1 DEF Place, Ready, Rescues
<1>7. Placed'
  BY <1>1, <1>6, OthersStay DEF Placed, Types
<1> QED
  BY <1>2, <1>3, <1>4, <1>5, <1>7

\* The row of the call is inserted, and the caller may be told.
LEMMA InsertKeeps ==
  ASSUME IInv, NEW r \in Requests, at[r] = "create", Conflicts(r) = {},
         ask' = ask, before' = before, left' = left,
         NEW end \in {"answered", "failed"}, at' = [at EXCEPT ![r] = end],
         answer' = IF end = "answered" THEN [answer EXCEPT ![r] = r] ELSE answer,
         job' = [job EXCEPT ![r] = "active"],
         troubled \subseteq troubled', troubled' \subseteq Requests, end = "failed" => r \in troubled'
  PROVE  IInv'
<1> USE DEF IInv
<1>1. Frame(r) /\ at'[r] = end /\ job[r] = "none" /\ job'[r] = "active"
  BY DEF Frame, Types, Histories, Ends
<1>2. Types'
  BY DEF Types, Phases, Ends, Jobs
<1>3. KeysApart'
  <2>1. \A s \in Exists : ~Same(r, s, "active") /\ ~Same(r, s, "client")
    BY DEF Conflicts
  <2>2. Exists' = Exists \cup {r}
    BY <1>1 DEF Exists, Frame, Types
  <2> QED
    BY <2>1, <2>2 DEF KeysApart, Same
<1>4. AnswersFit'
  <2> SUFFICES ASSUME NEW s \in Requests, at'[s] = "answered"
               PROVE  (answer[s] \in Exists /\ Fits(s, answer[s]))'
    BY DEF AnswersFit
  <2>0. r \in Exists' /\ Exists \subseteq Exists'
    BY <1>1 DEF Exists, Frame
  <2>1. CASE s = r
    <3>1. end = "answered" /\ answer'[s] = r
      BY <1>1, <2>1 DEF Types
    <3> QED
      BY <2>0, <2>1, <3>1 DEF Fits
  <2>2. CASE s # r
    <3>1. answer[s] \in Exists /\ Fits(s, answer[s]) /\ answer'[s] = answer[s]
      BY <1>1, <2>2 DEF AnswersFit, Frame
    <3>2. Fits(s, answer[s])'
      BY <3>1 DEF Fits, Same, KeyNames
    <3> QED
      BY <2>0, <3>1, <3>2
  <2> QED
    BY <2>1, <2>2
<1>5. Histories'
  BY <1>1 DEF Histories, Frame, Types, Ends
<1>6. r \notin troubled' => Place(r)'
  <2> SUFFICES ASSUME r \notin troubled' PROVE Place(r)'
    OBVIOUS
  <2>1. Place(r) /\ at'[r] = "answered"
    BY <1>1 DEF Placed
  <2>2. Clear(r)
    BY <2>1 DEF Place, Ready, Rescues
  <2>3. \A t \in before[r] : t # r /\ t \in Requests
    BY DEF Histories, Types
  <2>4. Clear(r)'
    BY <1>1, <2>2, <2>3 DEF Clear, Same, Frame
  <2> QED
    BY <1>1, <2>1, <2>4 DEF Place, Ready, Rescues
<1>7. Placed'
  BY <1>1, <1>6, OthersStay DEF Placed, Types
<1> QED
  BY <1>2, <1>3, <1>4, <1>5, <1>7

(***************************************************************************)
(* The invariant.                                                          *)
(***************************************************************************)
LEMMA BeginKeeps ==
  ASSUME IInv, NEW r \in Requests, Begin(r)
  PROVE  IInv'
<1> USE DEF IInv
<1>1. Frame(r) /\ at'[r] = "active" /\ job[r] = "none" /\ job' = job /\ troubled' = troubled
  BY DEF Begin, Frame, Types, Histories, Ends
<1>2. Types'
  BY DEF Types, Begin, Phases, Lookups
<1>3. KeysApart' /\ AnswersFit'
  BY <1>1 DEF KeysApart, AnswersFit, Fits, Exists, Same, Begin, Frame
<1>4. Histories'
  BY <1>1 DEF Histories, Begin, Frame, Types, Ends
<1>5. Place(r)'
  BY <1>1 DEF Place, Ready, Rescues
<1>6. Placed'
  BY <1>1, <1>5, OthersStay DEF Placed, Types
<1> QED
  BY <1>2, <1>3, <1>4, <1>6

\* A call that goes on keeps what it has established.
LEMMA ReadyHolds ==
  ASSUME IInv, NEW r \in Requests, NEW phase \in Phases, at[r] \notin Ends, Ready(r, phase), Goes(r, phase)
  PROVE  Place(r)'
<1>1. at'[r] = phase /\ ask' = ask /\ job' = job /\ before' = before /\ left' = left
  BY DEF Goes, IInv, Types
<1>2. job[r] = "none"
  BY DEF IInv, Types, Histories, Ends
<1>3. Clear(r)' = Clear(r) /\ Caused(r)' = Caused(r) /\ Conflicts(r)' = Conflicts(r) /\ ByClient(r)' = ByClient(r)
  BY <1>1 DEF Clear, Caused, Conflicts, ByClient, Exists, Same
<1> QED
  BY <1>1, <1>2, <1>3 DEF Place, Ready

\* One lookup, given what its finding nothing establishes.
LEMMA LookupKeeps ==
  ASSUME IInv, NEW r \in Requests, NEW phase \in Lookups \cup Rescues,
         NEW found \in {ByActive(r), ByCorrelation(r), ByClient(r)},
         NEW next \in Phases \ {"idle", "answered"},
         Lookup(r, phase, found, next),
         Ready(r, phase) /\ found = {} => Ready(r, next)
  PROVE  IInv'
<1>1. troubled' = troubled /\ troubled \subseteq Requests /\ at[r] = phase
  BY DEF IInv, Types, Lookup
<1>2. found \subseteq Exists /\ \A s \in found : Fits(r, s)
  BY DEF ByActive, ByCorrelation, ByClient, Exists, Fits, KeyNames, Same
<1>3. at[r] \notin Ends /\ at[r] # "idle"
  BY <1>1 DEF Lookups, Rescues, Ends
<1>4. ASSUME NEW s \in Requests, Newest(s, found), Returns(r, s), UNCHANGED job
      PROVE  IInv'
  BY <1>1, <1>2, <1>3, <1>4, ReturnsKeeps DEF Newest
<1>5. CASE found = {} /\ Goes(r, next)
  <2>1. r \notin troubled' => Ready(r, next)
    BY <1>1, <1>5 DEF IInv, Placed, Place
  <2>2. r \notin troubled' => Place(r)'
    BY <1>3, <1>5, <2>1, ReadyHolds
  <2> QED
    BY <1>1, <1>3, <1>5, <2>2, GoesKeeps
<1> QED
  BY <1>4, <1>5 DEF Lookup

\* The conflicting job that the lookup of active jobs does not see has left them.
LEMMA UnseenIsCaused ==
  ASSUME IInv, NEW r \in Requests, at[r] \notin Ends, Conflicts(r) # {}, ByActive(r) = {}
  PROVE  Caused(r) \/ ByClient(r) # {}
<1>1. PICK s \in Exists : Same(r, s, "active") \/ Same(r, s, "client")
  BY DEF Conflicts
<1>2. CASE Same(r, s, "client")
  BY <1>1, <1>2 DEF ByClient
<1>3. CASE Same(r, s, "active")
  <2>1. s \in Requests /\ job[s] = "parked"
    BY <1>1, <1>3 DEF ByActive, Exists, IInv, Types, Jobs
  <2>2. s \in left /\ s # r
    BY <2>1 DEF IInv, Histories, Ends
  <2> QED
    BY <1>3, <2>2 DEF Caused
<1> QED
  BY <1>1, <1>2, <1>3

\* The lookups by active key, correlation id and client key, each a statement.
LEMMA LookupsKeep ==
  ASSUME IInv, NEW r \in Requests,
         FindActiveByKey(r) \/ FindByTypeAndCorrelation(r) \/ FindByClient(r)
           \/ RescueByCorrelation(r) \/ RescueByActive(r) \/ RescueByClient(r)
  PROVE  IInv'
<1> USE DEF Lookups, Rescues, Phases, Ends
<1>1. CASE FindActiveByKey(r)
  BY <1>1, LookupKeeps DEF FindActiveByKey, Ready
<1>2. CASE FindByTypeAndCorrelation(r)
  <2>1. ByCorrelation(r) = {} => Clear(r)
    BY DEF ByCorrelation, Clear, Exists, IInv, Types
  <2> QED
    BY <1>2, <2>1, LookupKeeps DEF FindByTypeAndCorrelation, Ready
<1>3. CASE FindByClient(r)
  BY <1>3, LookupKeeps DEF FindByClient, Ready
<1>4. CASE RescueByCorrelation(r)
  BY <1>4, LookupKeeps DEF RescueByCorrelation, Ready
<1>5. CASE RescueByActive(r)
  <2>1. at[r] = "rescue active"
    BY <1>5 DEF RescueByActive, Lookup
  <2>2. Ready(r, "rescue active") /\ ByActive(r) = {} => Ready(r, "rescue client")
    BY <2>1, UnseenIsCaused DEF Ready
  <2> QED
    BY <1>5, <2>2, LookupKeeps DEF RescueByActive
<1>6. CASE RescueByClient(r)
  BY <1>6, LookupKeeps DEF RescueByClient, Rescued, Ready
<1> QED
  BY <1>1, <1>2, <1>3, <1>4, <1>5, <1>6

\* The insert, which a unique index may refuse.
LEMMA CreateKeeps ==
  ASSUME IInv, NEW r \in Requests, Create(r)
  PROVE  IInv'
<1>1. at[r] = "create" /\ troubled' = troubled /\ troubled \subseteq Requests
  BY DEF Create, IInv, Types
<1>2. CASE Conflicts(r) = {}
  BY <1>1, <1>2, InsertKeeps DEF Create, Returns
<1>3. CASE Conflicts(r) # {}
  <2>1. Goes(r, "rescue correlation")
    BY <1>3 DEF Create
  <2>2. at[r] \notin Ends /\ at[r] # "idle"
    BY <1>1 DEF Ends
  <2>3. r \notin troubled' => Ready(r, "rescue correlation")
    BY <1>1, <1>3 DEF IInv, Placed, Place, Ready, Rescues
  <2>4. r \notin troubled' => Place(r)'
    BY <2>1, <2>2, <2>3, ReadyHolds DEF Phases, Rescues
  <2> QED
    BY <1>1, <2>1, <2>2, <2>4, GoesKeeps DEF Phases, Rescues
<1> QED
  BY <1>2, <1>3

\* A lookup that times out, a call that fails, a reply that is lost.
LEMMA FailsKeep ==
  ASSUME IInv, NEW r \in Requests, Fails(r)
  PROVE  IInv'
<1>1. r \in troubled' /\ troubled \subseteq troubled' /\ troubled' \subseteq Requests
  BY DEF Fails, LookupTimesOut, CallFails, ReplyLost, Troubled, IInv, Types
<1>2. ASSUME NEW phase \in Phases \ {"idle", "answered"}, Goes(r, phase), at[r] \notin Ends \cup {"idle"}
      PROVE  IInv'
  BY <1>1, <1>2, GoesKeeps
<1>3. CASE LookupTimesOut(r)
  BY <1>2, <1>3 DEF LookupTimesOut, Phases, Lookups, Rescues, Ends
<1>4. CASE CallFails(r)
  BY <1>2, <1>4 DEF CallFails, Phases, Lookups, Rescues, Ends
<1>5. CASE ReplyLost(r)
  BY <1>1, <1>5, InsertKeeps DEF ReplyLost
<1> QED
  BY <1>3, <1>4, <1>5 DEF Fails

\* A job that exists goes from one status to another.
LEMMA JobMoves ==
  ASSUME IInv, NEW r \in Requests, Park(r) \/ ComeBack(r)
  PROVE  IInv'
<1> USE DEF IInv
<1>1. /\ \A s \in Requests : job'[s] = "none" <=> job[s] = "none"
      /\ \A s \in Requests : job'[s] = "parked" => s \in left'
      /\ left \subseteq left' /\ left' \subseteq Requests
      /\ UNCHANGED <<ask, at, answer, before, troubled>>
      /\ job' \in [Requests -> Jobs]
  BY DEF Park, ComeBack, Types, Jobs, Histories
<1>2. Exists' = Exists
  BY <1>1 DEF Exists
<1>3. Types' /\ KeysApart' /\ AnswersFit' /\ Histories'
  BY <1>1, <1>2 DEF Types, KeysApart, AnswersFit, Histories, Same, Fits
<1>4. ASSUME NEW s \in Requests, Place(s)
      PROVE  Place(s)'
  <2>1. Clear(s) => Clear(s)'
    BY <1>1 DEF Clear, Same, Types
  <2>2. Caused(s) => Caused(s)'
    BY <1>1 DEF Caused, Same
  <2>3. Conflicts(s)' = Conflicts(s) /\ ByClient(s)' = ByClient(s)
    BY <1>1, <1>2 DEF Conflicts, ByClient, Same
  <2> QED
    BY <1>1, <1>4, <2>1, <2>2, <2>3 DEF Place, Ready
<1>5. Placed'
  BY <1>1, <1>4 DEF Placed
<1> QED
  BY <1>3, <1>5

\* The invariant holds in every state: Enqueue, its failures and the fates
\* of the jobs keep it.
THEOREM AdmissionInvariance == Spec => []IInv
<1>1. Init => IInv
  BY DEF Init, IInv, Types, KeysApart, AnswersFit, Histories, Placed, Place, Ready, Exists, Phases, Jobs,
         Rescues, NoJob
<1>2. IInv /\ [Next]_vars => IInv'
  <2> SUFFICES ASSUME IInv, [Next]_vars PROVE IInv'
    OBVIOUS
  <2>1. ASSUME NEW r \in Requests, Enqueue(r) PROVE IInv'
    BY <2>1, BeginKeeps, LookupsKeep, CreateKeeps DEF Enqueue
  <2>2. ASSUME NEW r \in Requests, Fails(r) PROVE IInv'
    BY <2>2, FailsKeep
  <2>3. ASSUME NEW r \in Requests, Park(r) \/ ComeBack(r) PROVE IInv'
    BY <2>3, JobMoves
  <2>4. CASE UNCHANGED vars
    <3>1. Types' /\ KeysApart' /\ AnswersFit' /\ Histories'
      BY <2>4 DEF vars, IInv, Types, KeysApart, AnswersFit, Fits, Histories, Exists, Same
    <3>2. \A r \in Requests : Place(r)' <=> Place(r)
      BY <2>4 DEF vars, Place, Ready, Exists, Same, Clear, Caused, Conflicts, ByClient
    <3>3. Placed'
      BY <2>4, <3>2 DEF vars, IInv, Placed
    <3> QED
      BY <3>1, <3>3 DEF IInv
  <2> QED
    BY <2>1, <2>2, <2>3, <2>4 DEF Next
<1> QED
  BY <1>1, <1>2, PTL DEF Spec

\* Every variable keeps its type, and no caller is answered with a job that
\* does not exist.
THEOREM AdmissionTyping == Spec => []TypeOK
<1>1. IInv => TypeOK
  BY DEF IInv, Types, AnswersFit, TypeOK
<1> QED
  BY <1>1, AdmissionInvariance, PTL

\* One active key, or one client key, is one job, for any number of racing,
\* repeated and failing requests.
THEOREM OneJobPerKey == Spec => []OneKeyOneJob
<1>1. ASSUME IInv, NEW r \in Requests, NEW s \in Requests, NEW key \in {"active", "client"},
             at[r] = "answered", at[s] = "answered", Only(r, key), Only(s, key), Same(r, s, key)
      PROVE  answer[r] = answer[s]
  <2> DEFINE j == answer[r]
             k == answer[s]
  <2>1. j \in Exists /\ Fits(r, j) /\ k \in Exists /\ Fits(s, k)
    BY <1>1 DEF IInv, AnswersFit
  <2>2. ASSUME NEW t \in Requests, NEW u \in Requests, t # u, Only(t, key), Fits(t, u)
        PROVE  Same(t, u, key)
    <3>1. DOMAIN ask[t] = KeyNames
      BY AdmissionAssumption, <1>1 DEF IInv, Types, KeyNames
    <3> QED
      BY <2>2, <3>1 DEF Fits, Only, Same
  <2>3. ask[j][key] = ask[r][key] /\ ask[k][key] = ask[r][key] /\ ask[r][key] # NoKey
    BY <1>1, <2>1, <2>2 DEF Same, Exists
  <2>4. Same(j, k, key)
    BY <2>3 DEF Same
  <2> QED
    BY <1>1, <2>1, <2>4 DEF IInv, KeysApart
<1>2. IInv => OneKeyOneJob
  BY <1>1 DEF OneKeyOneJob
<1> QED
  BY <1>2, AdmissionInvariance, PTL

\* Two jobs of one correlation id come from requests that overlapped, or
\* from a later request that met a failure.
THEOREM DuplicatesAreConcurrent == Spec => []DuplicatesOverlap
<1>1. IInv => DuplicatesOverlap
  <2> SUFFICES ASSUME IInv, NEW r \in Exists, NEW s \in Exists, r # s, Same(r, s, "correlation"),
                      r \in before[s], s \notin troubled
               PROVE  FALSE
    BY DEF DuplicatesOverlap
  <2>1. Clear(s)
    BY DEF IInv, Placed, Place, Exists
  <2>2. ~Same(s, r, "correlation")
    BY <2>1 DEF Clear, Exists
  <2> QED
    BY <2>2 DEF Same
<1> QED
  BY <1>1, AdmissionInvariance, PTL

\* A refusal has a cause: a failure, or a job with the same active key that
\* left the active states.
THEOREM RefusalsExplained == Spec => []RefusalsAreExplained
<1>1. IInv => RefusalsAreExplained
  BY DEF IInv, Placed, Place, Ready, Caused, RefusalsAreExplained
<1> QED
  BY <1>1, AdmissionInvariance, PTL
=============================================================================
