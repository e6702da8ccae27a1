------------------------- MODULE MediaDeletionProofs -------------------------
(***************************************************************************)
(* Theorems of MediaDeletion, for every set of workers, every maximum of   *)
(* attempts and any number of requests, commits, deliveries, faults and    *)
(* lapsed leases.                                                          *)
(*                                                                         *)
(* No lock protects the asset between two steps of a handler.  What a      *)
(* handler has established stays true anyway, because it only ever moves   *)
(* one way: a retired index state is never left again, and a file that was *)
(* handled stays so.  The one thing that can undo it is a new file from    *)
(* the producer, after which a deletion acts on an outdated file; that new *)
(* file has escaped.  The invariant says which of these facts each place   *)
(* in a handler may count on.                                              *)
(***************************************************************************)
EXTENDS MediaDeletion, TLAPS

Established(w) ==
  /\ run[w].at \in {"points", "soft", "retired", "confirm", "close"} => index \in Retired
  /\ run[w].at \in {"soft", "retired"} => ~vector
  /\ run[w].at \in {"advance", "retire"} => Handled

IInv == /\ TypeOK
        /\ RetiredHasNoVector
        /\ FileFirst
        /\ lifecycle = "DRIVE_DELETED" => Handled
        /\ outdated # {} => escaped
        /\ \A w \in Workers : Established(w)

-----------------------------------------------------------------------------
\* Where the three ways of moving a worker leave it, and the others.
LEMMA Going ==
  ASSUME TypeOK, NEW w \in Workers, run[w] # Resting, NEW step \in Steps, Goes(w, step)
  PROVE  /\ run' \in [Workers -> Running \cup {Resting}]
         /\ run'[w] # Resting /\ run'[w].at = step /\ run'[w].key = run[w].key
         /\ \A v \in Workers \ {w} : run'[v] = run[v]
<1>1. run \in [Workers -> Running \cup {Resting}] /\ run[w] \in Running
  BY DEF TypeOK
<1>2. run' = [run EXCEPT ![w] = [run[w] EXCEPT !.at = step]]
  BY DEF Goes
<1>3. [run[w] EXCEPT !.at = step] = [at |-> step, key |-> run[w].key]
  BY <1>1 DEF Running
<1>4. step # "rest"
  BY DEF Steps, DriveSteps, DeleteSteps, Verdicts
<1>5. [at |-> step, key |-> run[w].key] \in Running
  BY <1>1 DEF Running
<1> QED
  BY <1>1, <1>2, <1>3, <1>4, <1>5 DEF Resting, Running

\* A worker takes an event up.
LEMMA Starting ==
  ASSUME TypeOK, NEW w \in Workers, NEW k \in Keys, NEW step \in Steps, Starts(w, k, step)
  PROVE  /\ run' \in [Workers -> Running \cup {Resting}]
         /\ run'[w] # Resting /\ run'[w].at = step /\ run'[w].key = k
         /\ \A v \in Workers \ {w} : run'[v] = run[v]
<1>1. run \in [Workers -> Running \cup {Resting}]
  BY DEF TypeOK
<1>2. step # "rest"
  BY DEF Steps, DriveSteps, DeleteSteps, Verdicts
<1>3. [at |-> step, key |-> k] \in Running
  BY DEF Running
<1> QED
  BY <1>1, <1>2, <1>3 DEF Starts, Resting, Running

\* A worker is done with an event.
LEMMA Ending ==
  ASSUME TypeOK, NEW w \in Workers, run' = [run EXCEPT ![w] = Resting]
  PROVE  /\ run' \in [Workers -> Running \cup {Resting}]
         /\ run'[w] = Resting
         /\ \A v \in Workers \ {w} : run'[v] = run[v]
BY DEF TypeOK

\* A worker that is not resting is somewhere in a handler.
LEMMA Somewhere ==
  ASSUME TypeOK, NEW w \in Workers, run[w].at # "rest"
  PROVE  run[w] # Resting /\ run[w] \in Running /\ run[w].key \in Keys /\ run[w].at \in Steps
BY DEF TypeOK, Resting, Running

-----------------------------------------------------------------------------
\* Events and counters keep their types however they change.
LEMMA EventTypes ==
  ASSUME TypeOK
  PROVE  /\ \A k \in Keys : Enqueued(k) \in [Keys -> Event]
         /\ \A keys \in SUBSET Keys : Requeued(keys) \in [Keys -> Event]
<1>1. event \in [Keys -> Event]
  BY DEF TypeOK
<1>2. ASSUME NEW k \in Keys PROVE Enqueued(k) \in [Keys -> Event]
  <2>1. event[k] \in Event
    BY <1>1
  <2>2. [event[k] EXCEPT !.status = "pending"] \in Event
    BY <2>1 DEF Event, Statuses
  <2>3. [event EXCEPT ![k].status = "pending"] \in [Keys -> Event]
    BY <1>1, <2>2
  <2> QED
    BY <1>1, <2>3 DEF Enqueued
<1>3. ASSUME NEW keys \in SUBSET Keys PROVE Requeued(keys) \in [Keys -> Event]
  <2>1. ASSUME NEW k \in Keys
        PROVE  [event[k] EXCEPT !.status = "pending", !.owner = Nobody] \in Event
    <3>1. event[k] \in Event
      BY <1>1
    <3> QED
      BY <3>1 DEF Event, Statuses
  <2> QED
    BY <1>1, <2>1 DEF Requeued
<1> QED
  BY <1>2, <1>3

\* The counters stay numbers.
LEMMA TallyTypes ==
  ASSUME TypeOK, NEW c \in {"requests", "recommits", "faults", "overtakes"}, Tallied(c)
  PROVE  count' \in Count
BY DEF TypeOK, Tallied, Count

-----------------------------------------------------------------------------
\* A committed asset that waits to be indexed satisfies the invariant.
LEMMA InitIInv == Init => IInv
<1> SUFFICES ASSUME Init PROVE IInv
  OBVIOUS
<1>1. event \in [Keys -> Event]
  <2>1. NoEvent \in Event /\ [NoEvent EXCEPT !.status = "pending"] \in Event
    BY DEF NoEvent, Event, Statuses
  <2> QED
    BY <2>1 DEF Init, Keys, DriveKeys, IndexKeys
<1>2. TypeOK
  BY <1>1 DEF Init, TypeOK, Placed, Lifecycles, Indexes, Files, Count
<1>3. \A w \in Workers : Established(w)
  BY DEF Init, Established, Resting
<1> QED
  BY <1>2, <1>3 DEF IInv, Init, RetiredHasNoVector, FileFirst, Handled, Retired

-----------------------------------------------------------------------------
\* A step of at most one worker: the others may go on counting on what they
\* have established.
LEMMA OneMoves ==
  ASSUME IInv, NEW w \in Workers,
         lifecycle' \in Lifecycles, index' \in Indexes, file' \in Files,
         tombstone' \in BOOLEAN, vector' \in BOOLEAN,
         outdated' \in SUBSET Workers, escaped' \in BOOLEAN,
         event' \in [Keys -> Event], count' \in Count, batch' \in [Workers -> SUBSET Keys],
         run' \in [Workers -> Running \cup {Resting}],
         \A v \in Workers \ {w} : run'[v] = run[v] /\ batch'[v] = batch[v],
         Placed(w)', Established(w)',
         index \in Retired => index' \in Retired /\ (vector' => vector),
         Handled => Handled',
         index' = "DELETED" => ~vector',
         index' \in Retired => Handled',
         lifecycle' = "DRIVE_DELETED" => Handled',
         outdated' # {} => escaped'
  PROVE  IInv'
<1>1. ASSUME NEW v \in Workers PROVE Placed(v)'
  <2>1. CASE v = w
    BY <2>1
  <2>2. CASE v # w
    <3>1. Placed(v) /\ run'[v] = run[v] /\ batch'[v] = batch[v]
      BY <2>2 DEF IInv, TypeOK
    <3> QED
      BY <3>1 DEF Placed
  <2> QED
    BY <2>1, <2>2
<1>2. ASSUME NEW v \in Workers PROVE Established(v)'
  <2>1. CASE v = w
    BY <2>1
  <2>2. CASE v # w
    <3>1. Established(v) /\ run'[v] = run[v]
      BY <2>2 DEF IInv
    <3> QED
      BY <3>1 DEF Established
  <2> QED
    BY <2>1, <2>2
<1>3. TypeOK'
  BY <1>1 DEF TypeOK
<1>4. RetiredHasNoVector' /\ FileFirst'
  BY DEF RetiredHasNoVector, FileFirst
<1> QED
  BY <1>2, <1>3, <1>4 DEF IInv

\* Requests, claims and reclaims touch no file, no vector and no index state.
LEMMA QueueKeeps ==
  ASSUME IInv, NEW w \in Workers,
         \/ \E k \in DriveKeys : EnqueueDriveDelete(k)
         \/ RequestReindex
         \/ ClaimBatch(w)
         \/ \E v \in Workers : ReclaimAbandoned(w, v) \/ ReclaimOvertaken(w, v)
  PROVE  IInv'
<1> USE DEF IInv, Handled, files
<1> DEFINE Unmoving == /\ lifecycle' \in Lifecycles /\ index' \in Indexes /\ file' \in Files
                       /\ tombstone' \in BOOLEAN /\ vector' \in BOOLEAN
                       /\ outdated' \in SUBSET Workers /\ escaped' \in BOOLEAN
                       /\ run' \in [Workers -> Running \cup {Resting}]
                       /\ index \in Retired => index' \in Retired /\ (vector' => vector)
                       /\ Handled => Handled'
                       /\ index' = "DELETED" => ~vector'
                       /\ index' \in Retired => Handled'
                       /\ lifecycle' = "DRIVE_DELETED" => Handled'
                       /\ outdated' # {} => escaped'
<1>1. DriveKeys \subseteq Keys /\ "index" \in Keys /\ "reindex" \in Keys
  BY DEF Keys, DriveKeys, IndexKeys
<1>2. /\ index' = index /\ tombstone' = tombstone /\ vector' = vector /\ file' = file
      /\ run' = run
      /\ outdated' = outdated /\ escaped' = escaped
      /\ lifecycle' \in {lifecycle, "DELETE_REQUESTED"}
  BY DEF EnqueueDriveDelete, RequestReindex, ClaimBatch, ReclaimAbandoned,
         ReclaimOvertaken, asset
<1>3. Unmoving
  BY <1>2 DEF TypeOK, Lifecycles, RetiredHasNoVector, FileFirst
<1>4. event' \in [Keys -> Event]
  <2>1. CASE ClaimBatch(w)
    <3>1. PICK due \in SUBSET Keys :
            event' = [k \in Keys |-> IF k \in due
                        THEN [status |-> "processing", attempts |-> event[k].attempts + 1, owner |-> w]
                        ELSE event[k]]
      BY <2>1 DEF ClaimBatch
    <3>2. ASSUME NEW k \in Keys
          PROVE  [status |-> "processing", attempts |-> event[k].attempts + 1, owner |-> w] \in Event
      BY DEF TypeOK, Event, Statuses
    <3> QED
      BY <3>1, <3>2 DEF TypeOK
  <2>2. CASE \E v \in Workers : ReclaimAbandoned(w, v) \/ ReclaimOvertaken(w, v)
    <3>1. \A v \in Workers : Held(v) \in SUBSET Keys /\ Held(v) \ batch[v] \in SUBSET Keys
      BY DEF Held
    <3> QED
      BY <2>2, <3>1, EventTypes DEF ReclaimAbandoned, ReclaimOvertaken
  <2>3. CASE (\E k \in DriveKeys : EnqueueDriveDelete(k)) \/ RequestReindex
    BY <1>1, <2>3, EventTypes DEF EnqueueDriveDelete, RequestReindex
  <2> QED
    BY <2>1, <2>2, <2>3
<1>5. count' \in Count
  BY TallyTypes DEF EnqueueDriveDelete, RequestReindex, ClaimBatch,
     ReclaimAbandoned, ReclaimOvertaken, TypeOK
<1>6. CASE ClaimBatch(w)
  <2>1. batch' \in [Workers -> SUBSET Keys]
    BY <1>6 DEF ClaimBatch, TypeOK
  <2>2. run[w] = Resting
    BY <1>6, Somewhere DEF ClaimBatch, At, TypeOK, Running, Resting, Steps, DriveSteps,
       DeleteSteps, Verdicts
  <2>3. \A v \in Workers \ {w} : batch'[v] = batch[v]
    BY <1>6 DEF ClaimBatch, TypeOK
  <2>4. Placed(w)' /\ Established(w)'
    BY <1>2, <2>2 DEF Placed, Established, Resting
  <2>5. \A v \in Workers \ {w} : run'[v] = run[v] /\ batch'[v] = batch[v]
    BY <1>2, <2>3
  <2> QED
    BY <1>3, <1>4, <1>5, <2>1, <2>4, <2>5, OneMoves
<1>7. CASE ~ClaimBatch(w)
  <2>1. batch' = batch
    BY <1>7 DEF EnqueueDriveDelete, RequestReindex, ReclaimAbandoned, ReclaimOvertaken
  <2>2. \A v \in Workers : run'[v] = run[v] /\ batch'[v] = batch[v]
    BY <1>2, <2>1
  <2>3. Placed(w)' /\ Established(w)'
    BY <1>2, <2>2 DEF TypeOK, Placed, Established
  <2>4. batch' \in [Workers -> SUBSET Keys] /\ run' \in [Workers -> Running \cup {Resting}]
    BY <1>2, <2>1 DEF TypeOK
  <2> QED
    BY <1>3, <1>4, <1>5, <2>2, <2>3, <2>4, OneMoves
<1> QED
  BY <1>6, <1>7

\* The producer gives the row its file behind the workers' backs.  Whoever may
\* count on the old file is past reading it, so the new one escapes.
LEMMA ProducerKeeps ==
  ASSUME IInv, Recommit \/ UpdateDriveDelivery
  PROVE  IInv'
<1> USE DEF IInv, Handled, files
<1>1. /\ index' = index /\ tombstone' = tombstone /\ vector' = vector
      /\ batch' = batch /\ run' = run
      /\ lifecycle' \in {lifecycle, "ACTIVE"}
      /\ count' \in Count
  BY TallyTypes DEF Recommit, UpdateDriveDelivery
<1>2. event' \in [Keys -> Event]
  <2>1. "index" \in Keys
    BY DEF Keys, IndexKeys
  <2> QED
    BY <2>1, EventTypes DEF Recommit, UpdateDriveDelivery, TypeOK
<1>3. \A w \in Workers : Placed(w)'
  BY <1>1 DEF TypeOK, Placed
<1>4. file' \in Files /\ outdated' \in SUBSET Workers /\ escaped' \in BOOLEAN
  BY DEF Recommit, UpdateDriveDelivery, GivesFile, TypeOK, Files
<1>5. TypeOK'
  BY <1>1, <1>2, <1>3, <1>4 DEF TypeOK, Lifecycles
<1>6. RetiredHasNoVector'
  BY <1>1 DEF RetiredHasNoVector
<1>7. CASE file' = file /\ escaped' = escaped /\ outdated' = outdated
  <2>1. ASSUME NEW w \in Workers PROVE Established(w)'
    BY <1>1, <1>7 DEF Established
  <2> QED
    BY <1>1, <1>5, <1>6, <1>7, <2>1 DEF FileFirst
<1>8. CASE GivesFile
  <2>1. ASSUME NEW w \in Workers PROVE Established(w)'
    <3>1. run'[w].at \in {"advance", "retire"} => PastReading'
      BY <1>1 DEF PastReading, DriveSteps
    <3> QED
      BY <1>1, <1>8, <3>1 DEF Established, GivesFile
  <2>2. outdated' # {} => PastReading'
    BY <1>1, <1>8 DEF GivesFile, PastReading
  <2>3. lifecycle' = "DRIVE_DELETED" \/ index' \in Retired => PastReading'
    BY DEF PastReading
  <2> QED
    BY <1>5, <1>6, <1>8, <2>1, <2>2, <2>3 DEF FileFirst, GivesFile
<1> QED
  BY <1>7, <1>8 DEF Recommit, UpdateDriveDelivery

-----------------------------------------------------------------------------
\* The steps of a handler.
LEMMA HandlerKeeps ==
  ASSUME IInv, NEW w \in Workers,
         \/ \E k \in Keys : DrivePreflight(w, k) \/ IndexPreflight(w, k) \/ Embed(w, k)
         \/ StampDrivePending(w) \/ PerformDriveDelete(w) \/ AdvanceAndEmit(w)
         \/ StampRetiring(w) \/ DeletePoints(w) \/ SoftDelete(w) \/ StampRetired(w)
         \/ StampIndexDeleted(w) \/ StampDeleted(w) \/ Publish(w)
  PROVE  IInv'
<1> DEFINE Kept == /\ index \in Retired => index' \in Retired /\ (vector' => vector)
                   /\ Handled => Handled'
                   /\ index' = "DELETED" => ~vector'
                   /\ index' \in Retired => Handled'
                   /\ lifecycle' = "DRIVE_DELETED" => Handled'
                   /\ outdated' # {} => escaped'
           Typed == /\ lifecycle' \in Lifecycles /\ index' \in Indexes /\ file' \in Files
                    /\ tombstone' \in BOOLEAN /\ vector' \in BOOLEAN
                    /\ outdated' \in SUBSET Workers /\ escaped' \in BOOLEAN
                    /\ event' \in [Keys -> Event]
           Moved == /\ run' \in [Workers -> Running \cup {Resting}]
                    /\ \A v \in Workers \ {w} : run'[v] = run[v]
           Still == batch' = batch /\ count' = count
<1>0. ASSUME Kept, Typed, Moved, Still, Placed(w)', Established(w)' PROVE IInv'
  <2>1. count' \in Count /\ batch' \in [Workers -> SUBSET Keys]
    BY <1>0 DEF IInv, TypeOK
  <2>2. \A v \in Workers \ {w} : run'[v] = run[v] /\ batch'[v] = batch[v]
    BY <1>0
  <2> HIDE DEF IInv, Handled
  <2> QED
    BY <1>0, <2>1, <2>2, OneMoves
<1> USE DEF IInv, Handled, files
<1>t. /\ TypeOK
      /\ lifecycle \in Lifecycles /\ index \in Indexes /\ file \in Files
      /\ tombstone \in BOOLEAN /\ vector \in BOOLEAN
      /\ outdated \in SUBSET Workers /\ escaped \in BOOLEAN
      /\ event \in [Keys -> Event]
  BY DEF TypeOK
<1>e. Established(w) /\ Placed(w)
  BY DEF TypeOK
<1>1. ASSUME NEW k \in Keys, DrivePreflight(w, k) PROVE IInv'
  <2>1. PICK step \in {"complete", "stamp", "bury"} : Starts(w, k, step)
    BY <1>1 DEF DrivePreflight
  <2>2. step \in Steps
    BY DEF Steps, DriveSteps, Verdicts
  <2>3. Moved /\ run'[w].at = step /\ run'[w].key = k
    BY <1>t, <2>1, <2>2, Starting
  <2>4. Kept /\ Typed /\ Still
    BY <1>1, <1>t DEF DrivePreflight, asset, RetiredHasNoVector, FileFirst
  <2>5. Placed(w)' /\ Established(w)'
    BY <1>1, <2>3 DEF DrivePreflight, Picks, Placed, Established, DriveSteps, DeleteSteps
  <2> QED
    BY <1>0, <2>3, <2>4, <2>5
<1>2. ASSUME NEW k \in Keys, IndexPreflight(w, k) PROVE IInv'
  <2>1. PICK step \in {"complete", "retire", "bury"} :
          Starts(w, k, step) /\ (step = "retire" => PassesDriveBlock)
    BY <1>2 DEF IndexPreflight
  <2>2. step \in Steps
    BY DEF Steps, DeleteSteps, Verdicts
  <2>3. Moved /\ run'[w].at = step /\ run'[w].key = k
    BY <1>t, <2>1, <2>2, Starting
  <2>4. Kept /\ Typed /\ Still
    BY <1>2, <1>t DEF IndexPreflight, asset, RetiredHasNoVector, FileFirst
  <2>5. Placed(w)'
    BY <1>2, <2>3 DEF IndexPreflight, Picks, Placed, DriveSteps, DeleteSteps
  <2>6. step = "retire" => Handled'
    BY <1>2, <1>t, <2>1 DEF IndexPreflight, asset, PassesDriveBlock, Lifecycles
  <2>7. Established(w)'
    BY <2>3, <2>6 DEF Established
  <2> QED
    BY <1>0, <2>3, <2>4, <2>5, <2>7
<1>3. ASSUME NEW k \in Keys, Embed(w, k) PROVE IInv'
  <2>2. "publish" \in Steps
    BY DEF Steps
  <2>3. Moved /\ run'[w].at = "publish" /\ run'[w].key = k
    BY <1>3, <1>t, <2>2, Starting DEF Embed
  <2>4. Kept /\ Typed /\ Still
    BY <1>3, <1>t DEF Embed, asset, RetiredHasNoVector, FileFirst
  <2>5. Placed(w)' /\ Established(w)'
    BY <1>3, <2>3 DEF Embed, Picks, Placed, Established, DriveSteps, DeleteSteps
  <2> QED
    BY <1>0, <2>3, <2>4, <2>5
<1>4. CASE StampDrivePending(w)
  <2>1. run[w] # Resting /\ "drive" \in Steps
    BY <1>4 DEF StampDrivePending, At, Resting, Steps, DriveSteps, DeleteSteps, Verdicts
  <2>2. Moved /\ run'[w].at = "drive" /\ run'[w].key = run[w].key
    BY <1>4, <1>t, <2>1, Going DEF StampDrivePending
  <2>3. Kept /\ Typed /\ Still
    BY <1>4, <1>t, <1>e DEF StampDrivePending, At, RetiredHasNoVector, FileFirst, Retired, Established,
       Lifecycles, Indexes, Files
  <2>4. Placed(w)' /\ Established(w)'
    BY <1>4, <1>t, <1>e, <2>1, <2>2 DEF StampDrivePending, At, Placed, Established, DriveSteps, DeleteSteps,
       Retired, FileFirst
  <2> QED
    BY <1>0, <2>2, <2>3, <2>4
<1>5. CASE PerformDriveDelete(w)
  <2>1. run[w] # Resting /\ "advance" \in Steps
    BY <1>5 DEF PerformDriveDelete, At, Resting, Steps, DriveSteps, DeleteSteps, Verdicts
  <2>2. Moved /\ run'[w].at = "advance" /\ run'[w].key = run[w].key
    BY <1>5, <1>t, <2>1, Going DEF PerformDriveDelete
  <2>3. Kept /\ Typed /\ Still
    BY <1>5, <1>t, <1>e DEF PerformDriveDelete, At, RetiredHasNoVector, FileFirst, Retired, Established,
       Lifecycles, Indexes, Files
  <2>4. Placed(w)' /\ Established(w)'
    BY <1>5, <1>t, <1>e, <2>1, <2>2 DEF PerformDriveDelete, At, Placed, Established, DriveSteps, DeleteSteps,
       Retired, FileFirst
  <2> QED
    BY <1>0, <2>2, <2>3, <2>4
<1>6. CASE StampRetiring(w)
  <2>1. run[w] # Resting /\ "points" \in Steps
    BY <1>6 DEF StampRetiring, At, Resting, Steps, DriveSteps, DeleteSteps, Verdicts
  <2>2. Moved /\ run'[w].at = "points" /\ run'[w].key = run[w].key
    BY <1>6, <1>t, <2>1, Going DEF StampRetiring
  <2>3. Kept /\ Typed /\ Still
    BY <1>6, <1>t, <1>e DEF StampRetiring, At, RetiredHasNoVector, FileFirst, Retired, Established,
       Lifecycles, Indexes, Files
  <2>4. Placed(w)' /\ Established(w)'
    BY <1>6, <1>t, <1>e, <2>1, <2>2 DEF StampRetiring, At, Placed, Established, DriveSteps, DeleteSteps,
       Retired, FileFirst
  <2> QED
    BY <1>0, <2>2, <2>3, <2>4
<1>7. CASE DeletePoints(w)
  <2>1. run[w] # Resting /\ "soft" \in Steps
    BY <1>7 DEF DeletePoints, At, Resting, Steps, DriveSteps, DeleteSteps, Verdicts
  <2>2. Moved /\ run'[w].at = "soft" /\ run'[w].key = run[w].key
    BY <1>7, <1>t, <2>1, Going DEF DeletePoints
  <2>3. Kept /\ Typed /\ Still
    BY <1>7, <1>t, <1>e DEF DeletePoints, At, RetiredHasNoVector, FileFirst, Retired, Established,
       Lifecycles, Indexes, Files
  <2>4. Placed(w)' /\ Established(w)'
    BY <1>7, <1>t, <1>e, <2>1, <2>2 DEF DeletePoints, At, Placed, Established, DriveSteps, DeleteSteps,
       Retired, FileFirst
  <2> QED
    BY <1>0, <2>2, <2>3, <2>4
<1>8. CASE SoftDelete(w)
  <2>1. run[w] # Resting /\ "retired" \in Steps
    BY <1>8 DEF SoftDelete, At, Resting, Steps, DriveSteps, DeleteSteps, Verdicts
  <2>2. Moved /\ run'[w].at = "retired" /\ run'[w].key = run[w].key
    BY <1>8, <1>t, <2>1, Going DEF SoftDelete
  <2>3. Kept /\ Typed /\ Still
    BY <1>8, <1>t, <1>e DEF SoftDelete, At, RetiredHasNoVector, FileFirst, Retired, Established,
       Lifecycles, Indexes, Files
  <2>4. Placed(w)' /\ Established(w)'
    BY <1>8, <1>t, <1>e, <2>1, <2>2 DEF SoftDelete, At, Placed, Established, DriveSteps, DeleteSteps,
       Retired, FileFirst
  <2> QED
    BY <1>0, <2>2, <2>3, <2>4
<1>9. CASE StampRetired(w)
  <2>1. run[w] # Resting /\ "confirm" \in Steps
    BY <1>9 DEF StampRetired, At, Resting, Steps, DriveSteps, DeleteSteps, Verdicts
  <2>2. Moved /\ run'[w].at = "confirm" /\ run'[w].key = run[w].key
    BY <1>9, <1>t, <2>1, Going DEF StampRetired
  <2>3. Kept /\ Typed /\ Still
    BY <1>9, <1>t, <1>e DEF StampRetired, At, RetiredHasNoVector, FileFirst, Retired, Established,
       Lifecycles, Indexes, Files
  <2>4. Placed(w)' /\ Established(w)'
    BY <1>9, <1>t, <1>e, <2>1, <2>2 DEF StampRetired, At, Placed, Established, DriveSteps, DeleteSteps,
       Retired, FileFirst
  <2> QED
    BY <1>0, <2>2, <2>3, <2>4
<1>10. CASE StampIndexDeleted(w)
  <2>1. run[w] # Resting /\ "close" \in Steps
    BY <1>10 DEF StampIndexDeleted, At, Resting, Steps, DriveSteps, DeleteSteps, Verdicts
  <2>2. Moved /\ run'[w].at = "close" /\ run'[w].key = run[w].key
    BY <1>10, <1>t, <2>1, Going DEF StampIndexDeleted
  <2>3. Kept /\ Typed /\ Still
    BY <1>10, <1>t, <1>e DEF StampIndexDeleted, At, RetiredHasNoVector, FileFirst, Retired, Established,
       Lifecycles, Indexes, Files
  <2>4. Placed(w)' /\ Established(w)'
    BY <1>10, <1>t, <1>e, <2>1, <2>2 DEF StampIndexDeleted, At, Placed, Established, DriveSteps, DeleteSteps,
       Retired, FileFirst
  <2> QED
    BY <1>0, <2>2, <2>3, <2>4
<1>11. CASE StampDeleted(w)
  <2>1. run[w] # Resting /\ "complete" \in Steps
    BY <1>11 DEF StampDeleted, At, Resting, Steps, DriveSteps, DeleteSteps, Verdicts
  <2>2. Moved /\ run'[w].at = "complete" /\ run'[w].key = run[w].key
    BY <1>11, <1>t, <2>1, Going DEF StampDeleted
  <2>3. Kept /\ Typed /\ Still
    BY <1>11, <1>t, <1>e DEF StampDeleted, At, RetiredHasNoVector, FileFirst, Retired, Established,
       Lifecycles, Indexes, Files
  <2>4. Placed(w)' /\ Established(w)'
    BY <1>11, <1>t, <1>e, <2>1, <2>2 DEF StampDeleted, At, Placed, Established, DriveSteps, DeleteSteps,
       Retired, FileFirst
  <2> QED
    BY <1>0, <2>2, <2>3, <2>4
<1>12. CASE AdvanceAndEmit(w)
  <2>1. PICK step \in {"complete", "retry"} : Goes(w, step)
    BY <1>12 DEF AdvanceAndEmit
  <2>2. run[w] # Resting /\ step \in Steps
    BY <1>12 DEF AdvanceAndEmit, At, Resting, Steps, Verdicts
  <2>3. Moved /\ run'[w].at = step /\ run'[w].key = run[w].key
    BY <1>t, <2>1, <2>2, Going
  <2>4. event' \in [Keys -> Event]
    BY <1>12, <1>t, EventTypes DEF AdvanceAndEmit, EnqueuedDelete, Keys
  <2>5. Kept /\ Typed /\ Still
    BY <1>12, <1>t, <1>e, <2>4 DEF AdvanceAndEmit, At, RetiredHasNoVector, FileFirst, Established,
       Lifecycles
  <2>6. Placed(w)' /\ Established(w)'
    BY <1>12, <1>e, <2>2, <2>3 DEF AdvanceAndEmit, Placed, Established, DriveSteps, DeleteSteps
  <2> QED
    BY <1>0, <2>3, <2>5, <2>6
<1>13. CASE Publish(w)
  <2>1. PICK step \in {"complete", "supersede"} : Goes(w, step)
    BY <1>13 DEF Publish
  <2>2. run[w] # Resting /\ step \in Steps
    BY <1>13 DEF Publish, At, Resting, Steps, Verdicts
  <2>3. Moved /\ run'[w].at = step /\ run'[w].key = run[w].key
    BY <1>t, <2>1, <2>2, Going
  <2>4. Kept /\ Typed /\ Still
    BY <1>13, <1>t DEF Publish, Fenced, Retired, RetiredHasNoVector, FileFirst, Indexes
  <2>5. Placed(w)' /\ Established(w)'
    BY <1>13, <1>e, <2>2, <2>3 DEF Publish, Placed, Established, DriveSteps, DeleteSteps
  <2> QED
    BY <1>0, <2>3, <2>4, <2>5
<1> QED
  BY <1>1, <1>2, <1>3, <1>4, <1>5, <1>6, <1>7, <1>8, <1>9, <1>10, <1>11, <1>12, <1>13

-----------------------------------------------------------------------------
\* Verdicts and faults: the asset is left alone and the worker gives up its
\* place or goes on to a verdict, where nothing is counted on.
LEMMA EndingKeeps ==
  ASSUME IInv, NEW w \in Workers, Settle(w) \/ CallFails(w) \/ SettleFails(w) \/ Crash(w)
  PROVE  IInv'
<1> DEFINE Kept == /\ lifecycle' \in Lifecycles /\ index' \in Indexes /\ file' \in Files
                   /\ tombstone' \in BOOLEAN /\ vector' \in BOOLEAN
                   /\ outdated' \in SUBSET Workers /\ escaped' \in BOOLEAN
                   /\ index \in Retired => index' \in Retired /\ (vector' => vector)
                   /\ Handled => Handled'
                   /\ index' = "DELETED" => ~vector'
                   /\ index' \in Retired => Handled'
                   /\ lifecycle' = "DRIVE_DELETED" => Handled'
                   /\ outdated' # {} => escaped'
<1> USE DEF IInv, Handled, files
<1>1. Kept
  BY DEF Settle, CallFails, SettleFails, Crash, asset, TypeOK, RetiredHasNoVector, FileFirst
<1>2. count' \in Count
  BY TallyTypes DEF Settle, CallFails, SettleFails, Crash, Faulty, TypeOK
<1>3. CASE CallFails(w)
  <2>1. run[w] # Resting /\ "retry" \in Steps
    BY <1>3 DEF CallFails, Resting, Steps, DriveSteps, DeleteSteps, Verdicts
  <2>2. /\ run' \in [Workers -> Running \cup {Resting}]
        /\ run'[w].at = "retry" /\ run'[w].key = run[w].key
        /\ \A v \in Workers \ {w} : run'[v] = run[v]
    BY <1>3, <2>1, Going DEF CallFails
  <2>3. event' = event /\ batch' = batch
    BY <1>3 DEF CallFails
  <2>4. Placed(w)' /\ Established(w)'
    BY <2>1, <2>2, <2>3 DEF TypeOK, Placed, Established, DriveSteps, DeleteSteps
  <2>5. event' \in [Keys -> Event] /\ batch' \in [Workers -> SUBSET Keys]
    BY <2>3 DEF TypeOK
  <2> QED
    BY <1>1, <1>2, <2>2, <2>3, <2>4, <2>5, OneMoves
<1>4. CASE Settle(w) \/ SettleFails(w) \/ Crash(w)
  <2>1. run' = [run EXCEPT ![w] = Resting]
    BY <1>4 DEF Settle, SettleFails, Crash
  <2>2. /\ run' \in [Workers -> Running \cup {Resting}]
        /\ run'[w] = Resting
        /\ \A v \in Workers \ {w} : run'[v] = run[v]
    BY <2>1, Ending
  <2>3. \E left \in SUBSET Keys : batch' = [batch EXCEPT ![w] = left]
    <3>1. batch[w] \in SUBSET Keys
      BY DEF TypeOK
    <3> QED
      BY <1>4, <3>1 DEF Settle, SettleFails, Crash
  <2>4. batch' \in [Workers -> SUBSET Keys] /\ \A v \in Workers \ {w} : batch'[v] = batch[v]
    BY <2>3 DEF TypeOK
  <2>5. event' \in [Keys -> Event]
    <3>1. CASE event' = event
      BY <3>1 DEF TypeOK
    <3>2. CASE Settle(w) /\ event' # event
      <4>1. run[w].at # "rest" /\ run[w].at \in Verdicts
        BY <3>2 DEF Settle, Verdicts
      <4>2. run[w].key \in Keys
        BY <4>1, Somewhere
      <4>3. Verdict(w) \in Statuses
        BY <4>1 DEF Verdict, At, Verdicts, Statuses, Final
      <4>4. PICK k \in Keys :
              event' = [event EXCEPT ![k].status = Verdict(w), ![k].owner = Nobody]
        BY <3>2, <4>2 DEF Settle
      <4>5. [event[k] EXCEPT !.status = Verdict(w), !.owner = Nobody] \in Event
        BY <4>3 DEF TypeOK, Event
      <4>6. event' = [event EXCEPT ![k] = [event[k] EXCEPT !.status = Verdict(w), !.owner = Nobody]]
        BY <4>4 DEF TypeOK, Event
      <4> QED
        BY <4>5, <4>6 DEF TypeOK
    <3> QED
      BY <1>4, <3>1, <3>2 DEF SettleFails, Crash
  <2>6. Placed(w)' /\ Established(w)'
    BY <2>2 DEF Placed, Established, Resting
  <2> QED
    BY <1>1, <1>2, <2>2, <2>4, <2>5, <2>6, OneMoves
<1> QED
  BY <1>3, <1>4

-----------------------------------------------------------------------------
\* Every step keeps it.
LEMMA NextIInv == IInv /\ [Next]_vars => IInv'
<1> SUFFICES ASSUME IInv, [Next]_vars PROVE IInv'
  OBVIOUS
<1>1. CASE UNCHANGED vars
  BY <1>1 DEF vars, IInv, TypeOK, Placed, RetiredHasNoVector, FileFirst, Handled, Established
<1>2. ASSUME NEW w \in Workers,
             ClaimBatch(w) \/ Reclaims(w) \/ \E v \in Workers : ReclaimOvertaken(w, v)
      PROVE  IInv'
  BY <1>2, QueueKeeps DEF Reclaims
<1>3. ASSUME NEW w \in Workers, Handling(w) PROVE IInv'
  BY <1>3, HandlerKeeps, EndingKeeps DEF Handling
<1>4. ASSUME NEW w \in Workers, CallFails(w) \/ SettleFails(w) \/ Crash(w) PROVE IInv'
  BY <1>4, EndingKeeps
<1>5. CASE Recommit \/ UpdateDriveDelivery
  BY <1>5, ProducerKeeps
<1>6. CASE (\E k \in DriveKeys : EnqueueDriveDelete(k)) \/ RequestReindex
  <2>1. PICK w : w \in Workers
    BY MediaDeletionAssumption
  <2> QED
    BY <1>6, <2>1, QueueKeeps
<1> QED
  BY <1>1, <1>2, <1>3, <1>4, <1>5, <1>6 DEF Next

\* The inductive invariant.
THEOREM DeletionInvariance == Spec => []IInv
<1> QED
  BY InitIInv, NextIInv, PTL DEF Spec

\* Types, and every worker handles an event of its batch with the handler of
\* the event's type.
THEOREM DeletionTyping == Spec => []TypeOK
<1>1. IInv => TypeOK
  BY DEF IInv
<1> QED
  BY <1>1, DeletionInvariance, PTL

\* No ghost in the search index: delete_saga.go and index_delete.go take the
\* vectors away in a transaction of their own, the fence in
\* outbox_index_fence.go keeps a late index request from putting them back.
THEOREM NoGhosts == Spec => []RetiredHasNoVector
<1>1. IInv => RetiredHasNoVector
  BY DEF IInv
<1> QED
  BY <1>1, DeletionInvariance, PTL

\* The vectors of an asset outlive the Drive file that its row names, unless
\* the producer replaced the file behind the deletion's back: the order of the
\* saga's two halves, kept by the Drive-block guard of index_delete.go.
THEOREM FilesGoFirst == Spec => []FileFirst
<1>1. IInv => FileFirst
  BY DEF IInv
<1> QED
  BY <1>1, DeletionInvariance, PTL
-----------------------------------------------------------------------------
(***************************************************************************)
(* No row is stuck.  As long as nothing disturbs the deletion, no two      *)
(* workers share an event, an event is claimed again only after a failure, *)
(* and whoever closes an event has seen the row move on.                   *)
(***************************************************************************)
Awaiting == {"DELETE_REQUESTED", "DRIVE_DELETE_PENDING"}
Handles(w, k) == run[w] # Resting /\ run[w].key = k

\* An event in a worker's batch is leased to that worker.
Leased(w) == \A k \in batch[w] : event[k].status = "processing" /\ event[k].owner = w

\* The attempts of an event are paid for by failures, but for the claim that
\* is being worked on.
Affords(k) ==
  /\ event[k].status = "absent" => event[k].attempts = 0
  /\ event[k].status = "pending" => event[k].attempts <= count.faults
  /\ event[k].status = "processing" => event[k].attempts <= count.faults + 1
  /\ event[k].status = "processing" /\ (\A w \in Workers : k \notin batch[w]) =>
       event[k].attempts <= count.faults
  /\ \A w \in Workers : Handles(w, k) /\ At(w, "retry") => event[k].attempts <= count.faults

\* The row and the events of the chain.
Chained ==
  /\ count.requests = 0 => lifecycle = "ACTIVE" /\ \A k \in DriveKeys : event[k].status = "absent"
  /\ \A j, k \in DriveKeys : event[j].status # "absent" /\ event[k].status # "absent" => j = k
  /\ lifecycle \in {"ACTIVE"} \cup Awaiting => event["delete"].status = "absent"
  /\ lifecycle \in Awaiting => \E k \in DriveKeys : Owes(k)
  /\ lifecycle = "DRIVE_DELETED" => Owes("delete")

\* What a worker's place says of the row.
Stands(w) ==
  /\ At(w, "stamp") => lifecycle \in Awaiting
  /\ run[w].at \in {"drive", "advance"} => lifecycle = "DRIVE_DELETE_PENDING"
  /\ run[w].at \in {"complete", "bury"} =>
       /\ run[w].key \in DriveKeys => lifecycle \notin Awaiting
       /\ run[w].key = "delete" => lifecycle # "DRIVE_DELETED"
  /\ run[w].at \in {"publish", "supersede"} => run[w].key \in IndexKeys

WorkersCalm == \A w \in Workers : Leased(w) /\ Stands(w)
AttemptsPaid == \A k \in Keys : Affords(k)

Calm == Chained /\ WorkersCalm /\ AttemptsPaid
UnstuckInv == Disturbed \/ Calm

-----------------------------------------------------------------------------
\* A worker at work has its event to itself.
LEMMA OnlyHolder ==
  ASSUME WorkersCalm, NEW v \in Workers, NEW w \in Workers, NEW k \in batch[v], k \in batch[w]
  PROVE  v = w /\ event[k].status = "processing"
BY DEF WorkersCalm, Leased

\* A worker in a handler has the event of its place in its batch, alone, and it
\* is an event of the handler's type.
LEMMA Working ==
  ASSUME TypeOK, WorkersCalm, NEW w \in Workers, run[w] # Resting
  PROVE  /\ run[w].key \in Keys /\ run[w].key \in batch[w]
         /\ event[run[w].key].status = "processing"
         /\ \A v \in Workers : run[w].key \in batch[v] => v = w
         /\ run[w].at \in DriveSteps => run[w].key \in DriveKeys
         /\ run[w].at \in DeleteSteps => run[w].key = "delete"
<1>1. Placed(w) /\ batch[w] \in SUBSET Keys
  BY DEF TypeOK
<1> QED
  BY <1>1, OnlyHolder DEF Placed

\* Nobody is at work on an event that does not exist.
LEMMA Idlers ==
  ASSUME TypeOK, WorkersCalm, NEW k \in Keys, event[k].status \notin {"processing"}
  PROVE  \A w \in Workers : k \notin batch[w] /\ ~Handles(w, k)
BY Working DEF WorkersCalm, Leased, Handles

\* The counters only grow, so that what is calm after a step was calm before.
LEMMA CalmBefore ==
  ASSUME TypeOK, [Next]_vars, ~Disturbed'
  PROVE  ~Disturbed /\ count.faults \in Nat /\ count.requests \in Nat
<1>1. count \in Count
  BY DEF TypeOK
<1>2. \/ count' = count
      \/ \E c \in {"requests", "recommits", "faults", "overtakes"} : Tallied(c)
  BY DEF Next, Reclaims, Handling, EnqueueDriveDelete, Recommit, UpdateDriveDelivery, RequestReindex, ClaimBatch,
     ReclaimAbandoned, ReclaimOvertaken, Settle, DrivePreflight, IndexPreflight, Embed,
     StampDrivePending, PerformDriveDelete, AdvanceAndEmit, StampRetiring, DeletePoints, SoftDelete,
     StampRetired, StampIndexDeleted, StampDeleted, Publish, CallFails, SettleFails, Crash, Faulty,
     vars
<1>3. ASSUME NEW c \in {"requests", "recommits", "faults", "overtakes"}, Tallied(c)
      PROVE  /\ count'.requests >= count.requests /\ count'.recommits >= count.recommits
             /\ count'.faults >= count.faults /\ count'.overtakes >= count.overtakes
  BY <1>1, <1>3 DEF Tallied, Count
<1>4. /\ count'.requests >= count.requests /\ count'.recommits >= count.recommits
      /\ count'.faults >= count.faults /\ count'.overtakes >= count.overtakes
  BY <1>1, <1>2, <1>3 DEF Count
<1>5. count' \in Count
  BY <1>1, <1>2, TallyTypes
<1>6. /\ count.requests \in Nat /\ count.recommits \in Nat
      /\ count.faults \in Nat /\ count.overtakes \in Nat
  BY <1>1 DEF Count
<1>7. /\ count'.requests \in Nat /\ count'.recommits \in Nat
      /\ count'.faults \in Nat /\ count'.overtakes \in Nat
  BY <1>5 DEF Count
<1>8. Disturbed => Disturbed'
  BY <1>4, <1>6, <1>7, MediaDeletionAssumption DEF Disturbed
<1> QED
  BY <1>6, <1>8

\* What a counter leaves of the others.
LEMMA Counted ==
  ASSUME TypeOK
  PROVE  /\ Tallied("requests") => count'.requests = count.requests + 1 /\ count'.faults = count.faults
         /\ Tallied("faults") => count'.faults = count.faults + 1 /\ count'.requests = count.requests
         /\ Tallied("recommits") => count'.recommits = count.recommits + 1
         /\ Tallied("overtakes") => count'.overtakes = count.overtakes + 1
BY DEF TypeOK, Tallied, Count

\* An event that is enqueued starts with no attempts.
LEMMA Enqueuing ==
  ASSUME TypeOK, NEW k \in Keys, event' = Enqueued(k)
  PROVE  /\ \A j \in Keys : j # k => event'[j] = event[j]
         /\ event'[k].attempts = event[k].attempts /\ event'[k].owner = event[k].owner
         /\ event'[k].status = (IF event[k].status = "absent" THEN "pending" ELSE event[k].status)
<1>1. event \in [Keys -> Event] /\ event[k] \in Event
  BY DEF TypeOK
<1>2. CASE event[k].status = "absent"
  BY <1>1, <1>2 DEF Enqueued, Event
<1>3. CASE event[k].status # "absent"
  BY <1>1, <1>3 DEF Enqueued
<1> QED
  BY <1>2, <1>3

-----------------------------------------------------------------------------
\* All is calm before the first request.
LEMMA InitCalm == Init => Calm
<1> SUFFICES ASSUME Init PROVE Calm
  OBVIOUS
<1>1. /\ event["index"].status = "pending" /\ event["index"].attempts = 0
      /\ \A k \in Keys : k # "index" => event[k] = NoEvent
  BY DEF Init, NoEvent, Keys, DriveKeys, IndexKeys
<1>2. \A k \in Keys : event[k].attempts = 0
  BY <1>1 DEF NoEvent
<1>3. Chained
  BY <1>1 DEF Init, Chained, NoEvent, DriveKeys, Keys, Awaiting
<1>4. WorkersCalm
  BY DEF Init, WorkersCalm, Leased, Stands, At, Resting
<1>5. AttemptsPaid
  BY <1>2 DEF Init, AttemptsPaid, Affords, Handles
<1> QED
  BY <1>3, <1>4, <1>5 DEF Calm

\* The only request.
LEMMA RequestIsCalm ==
  ASSUME TypeOK, Calm, ~Disturbed', NEW k \in DriveKeys, EnqueueDriveDelete(k)
  PROVE  Calm'
<1>1. /\ count.requests \in Nat /\ count.faults \in Nat
      /\ count'.requests = count.requests + 1 /\ count'.faults = count.faults
  BY Counted DEF EnqueueDriveDelete, TypeOK, Count
<1>2. count.requests = 0 /\ count'.requests = 1
  BY <1>1 DEF Disturbed
<1>3. lifecycle = "ACTIVE" /\ \A j \in DriveKeys : event[j].status = "absent"
  BY <1>2 DEF Calm, Chained
<1>4. k \in Keys /\ k # "delete" /\ DriveKeys \subseteq Keys /\ "delete" \in Keys
  BY DEF Keys, DriveKeys
<1>5. lifecycle' = "DELETE_REQUESTED" /\ event' = Enqueued(k) /\ batch' = batch /\ run' = run
  BY <1>3 DEF EnqueueDriveDelete, DeletionChain
<1>6. /\ \A j \in Keys : j # k => event'[j] = event[j]
      /\ event'[k].attempts = event[k].attempts /\ event'[k].status = "pending"
  BY <1>3, <1>4, <1>5, Enqueuing
<1>7. \A w \in Workers : k \notin batch[w] /\ ~Handles(w, k)
  BY <1>3, <1>4, Idlers DEF Calm
<1>8. Chained'
  BY <1>2, <1>3, <1>4, <1>5, <1>6 DEF Calm, Chained, Awaiting, Owes
<1>9. ASSUME NEW w \in Workers PROVE Leased(w)'
  BY <1>5, <1>6, <1>7 DEF Calm, WorkersCalm, Leased, TypeOK
<1>10. ASSUME NEW w \in Workers PROVE Stands(w)'
  <2>1. Stands(w)
    BY DEF Calm, WorkersCalm
  <2>2. run[w] # Resting => run[w].key \notin DriveKeys
    BY <1>3, Working DEF Calm
  <2>3. run[w] # Resting => ~(run[w].at \in DriveSteps)
    BY <2>2, Working DEF Calm
  <2>4. ~(run[w].at \in DriveSteps)
    BY <2>3 DEF Resting, DriveSteps
  <2>5. run[w].at \in {"complete", "bury"} => run[w].key \notin DriveKeys
    BY <2>2 DEF Resting
  <2> QED
    BY <1>5, <2>1, <2>4, <2>5 DEF Stands, At, DriveSteps
<1>11. ASSUME NEW j \in Keys PROVE Affords(j)'
  <2>1. Affords(j)
    BY DEF Calm, AttemptsPaid
  <2>2. CASE j = k
    BY <1>1, <1>3, <1>4, <1>5, <1>6, <1>7, <2>1, <2>2 DEF Affords, Handles
  <2>3. CASE j # k
    BY <1>1, <1>5, <1>6, <2>1, <2>3 DEF Affords, Handles, At
  <2> QED
    BY <2>2, <2>3
<1> QED
  BY <1>8, <1>9, <1>10, <1>11 DEF Calm, WorkersCalm, AttemptsPaid

\* A step of the queue: the row and the workers' places stay.
LEMMA QueueIsCalm ==
  ASSUME TypeOK, Calm, lifecycle' = lifecycle, run' = run, count' = count,
         \A k \in DriveKeys \cup {"delete"} :
            /\ event'[k].status = "absent" <=> event[k].status = "absent"
            /\ Owes(k) => event'[k].status \in {"pending", "processing"},
         \A k \in Keys : Affords(k)',
         \A w \in Workers : Leased(w)'
  PROVE  Calm'
<1>1. "delete" \in DriveKeys \cup {"delete"}
  OBVIOUS
<1>2. Chained'
  BY <1>1 DEF Calm, Chained, Owes
<1>3. \A w \in Workers : Stands(w)'
  BY DEF Calm, WorkersCalm, Stands, At
<1> QED
  BY <1>2, <1>3 DEF Calm, WorkersCalm, AttemptsPaid

\* A further index request is not an event of the chain.
LEMMA ReindexIsCalm ==
  ASSUME TypeOK, Calm, RequestReindex
  PROVE  Calm'
<1>1. "reindex" \in Keys /\ DriveKeys \cup {"delete"} \subseteq Keys \ {"reindex"}
  BY DEF Keys, DriveKeys, IndexKeys
<1>2. /\ event["reindex"].status = "absent" /\ event' = Enqueued("reindex")
      /\ lifecycle' = lifecycle /\ batch' = batch /\ run' = run /\ count' = count
  BY DEF RequestReindex, asset
<1>3. /\ \A j \in Keys : j # "reindex" => event'[j] = event[j]
      /\ event'["reindex"].attempts = event["reindex"].attempts
      /\ event'["reindex"].status = "pending"
  BY <1>1, <1>2, Enqueuing
<1>4. \A w \in Workers : "reindex" \notin batch[w] /\ ~Handles(w, "reindex")
  BY <1>1, <1>2, Idlers DEF Calm
<1>5. \A k \in DriveKeys \cup {"delete"} :
         /\ event'[k].status = "absent" <=> event[k].status = "absent"
         /\ Owes(k) => event'[k].status \in {"pending", "processing"}
  BY <1>1, <1>3 DEF Owes
<1>6. ASSUME NEW j \in Keys PROVE Affords(j)'
  <2>1. Affords(j)
    BY DEF Calm, AttemptsPaid
  <2>2. CASE j = "reindex"
    <3>1. event[j].attempts = 0 /\ count.faults \in Nat
      BY <1>2, <2>1, <2>2 DEF Affords, TypeOK, Count
    <3> QED
      BY <1>2, <1>3, <1>4, <2>2, <3>1 DEF Affords, Handles
  <2>3. CASE j # "reindex"
    BY <1>2, <1>3, <2>1, <2>3 DEF Affords, Handles, At
  <2> QED
    BY <2>2, <2>3
<1>7. ASSUME NEW w \in Workers PROVE Leased(w)'
  BY <1>2, <1>3, <1>4 DEF Calm, WorkersCalm, Leased, TypeOK
<1> QED
  BY <1>2, <1>5, <1>6, <1>7, QueueIsCalm

\* A claim is the only step that takes an attempt, and only of events whose
\* attempts are paid for.
LEMMA ClaimIsCalm ==
  ASSUME TypeOK, Calm, NEW w \in Workers, ClaimBatch(w)
  PROVE  Calm'
<1>1. PICK due \in SUBSET {k \in Keys : event[k].status = "pending"} \ {{}} :
         /\ event' = [k \in Keys |-> IF k \in due
                         THEN [status |-> "processing", attempts |-> event[k].attempts + 1, owner |-> w]
                         ELSE event[k]]
         /\ batch' = [batch EXCEPT ![w] = due]
  BY DEF ClaimBatch
<1>2. batch[w] = {} /\ lifecycle' = lifecycle /\ run' = run /\ count' = count
  BY DEF ClaimBatch, asset
<1>3. /\ event \in [Keys -> Event] /\ batch \in [Workers -> SUBSET Keys] /\ count.faults \in Nat
  BY DEF TypeOK, Count
<1>4. batch'[w] = due /\ \A v \in Workers \ {w} : batch'[v] = batch[v]
  BY <1>1, <1>3
<1>5. \A k \in due : /\ k \in Keys /\ event[k].status = "pending"
                     /\ event'[k].status = "processing" /\ event'[k].owner = w
                     /\ event'[k].attempts = event[k].attempts + 1
  BY <1>1
<1>6. \A k \in Keys \ due : event'[k] = event[k]
  BY <1>1
<1>7. \A k \in due, v \in Workers : k \notin batch[v] /\ ~Handles(v, k)
  BY <1>5, Idlers DEF Calm
<1>8. \A k \in DriveKeys \cup {"delete"} :
         /\ event'[k].status = "absent" <=> event[k].status = "absent"
         /\ Owes(k) => event'[k].status \in {"pending", "processing"}
  BY <1>5, <1>6 DEF Owes, Keys
<1>9. ASSUME NEW k \in Keys PROVE Affords(k)'
  <2>1. Affords(k)
    BY DEF Calm, AttemptsPaid
  <2>2. CASE k \in due
    <3>1. event[k].attempts \in Nat /\ event[k].attempts <= count.faults
      BY <1>3, <1>5, <2>1, <2>2 DEF Affords, Event
    <3>2. event'[k].attempts <= count.faults + 1
      BY <1>3, <1>5, <2>2, <3>1
    <3> QED
      BY <1>2, <1>4, <1>5, <1>7, <2>2, <3>2 DEF Affords, Handles
  <2>3. CASE k \notin due
    <3>1. (\A v \in Workers : k \notin batch'[v]) => \A v \in Workers : k \notin batch[v]
      BY <1>2, <1>4
    <3> QED
      BY <1>2, <1>6, <2>1, <2>3, <3>1 DEF Affords, Handles, At
  <2> QED
    BY <2>2, <2>3
<1>10. ASSUME NEW v \in Workers PROVE Leased(v)'
  <2>1. CASE v = w
    BY <1>4, <1>5, <2>1 DEF Leased
  <2>2. CASE v # w
    <3>1. Leased(v) /\ batch[v] \subseteq Keys
      BY <1>3 DEF Calm, WorkersCalm
    <3> QED
      BY <1>4, <1>6, <1>7, <2>2, <3>1 DEF Leased
  <2> QED
    BY <2>1, <2>2
<1> QED
  BY <1>2, <1>8, <1>9, <1>10, QueueIsCalm

\* What is taken back from a worker that crashed is in nobody's batch.
LEMMA ReclaimIsCalm ==
  ASSUME TypeOK, Calm, NEW w \in Workers, NEW v \in Workers, ReclaimAbandoned(w, v)
  PROVE  Calm'
<1> DEFINE lapsed == Held(v) \ batch[v]
<1>1. /\ event' = Requeued(lapsed)
      /\ lifecycle' = lifecycle /\ batch' = batch /\ run' = run /\ count' = count
  BY DEF ReclaimAbandoned, asset
<1>2. event \in [Keys -> Event] /\ batch \in [Workers -> SUBSET Keys]
  BY DEF TypeOK
<1>3. \A k \in lapsed : k \in Keys /\ event[k].status = "processing" /\ event[k].owner = v
                        /\ k \notin batch[v]
  BY DEF Held
<1> HIDE DEF lapsed
<1>4. ASSUME NEW k \in lapsed
      PROVE  event'[k].status = "pending" /\ event'[k].attempts = event[k].attempts
  <2>1. event'[k] = [event[k] EXCEPT !.status = "pending", !.owner = Nobody] /\ event[k] \in Event
    BY <1>1, <1>2, <1>3 DEF Requeued
  <2> QED
    BY <2>1 DEF Event
<1>5. \A k \in Keys \ lapsed : event'[k] = event[k]
  BY <1>1 DEF Requeued
<1>6. \A k \in lapsed, u \in Workers : k \notin batch[u]
  BY <1>3 DEF Calm, WorkersCalm, Leased
<1>7. \A k \in lapsed, u \in Workers : ~Handles(u, k)
  BY <1>6, Working DEF Calm, Handles
<1>8. \A k \in DriveKeys \cup {"delete"} :
         /\ event'[k].status = "absent" <=> event[k].status = "absent"
         /\ Owes(k) => event'[k].status \in {"pending", "processing"}
  BY <1>3, <1>4, <1>5 DEF Owes, Keys
<1>9. ASSUME NEW k \in Keys PROVE Affords(k)'
  <2>1. Affords(k)
    BY DEF Calm, AttemptsPaid
  <2>2. CASE k \in lapsed
    <3>1. event[k].attempts <= count.faults
      BY <1>3, <1>6, <2>1, <2>2 DEF Affords
    <3> QED
      BY <1>1, <1>4, <1>7, <2>2, <3>1 DEF Affords, Handles
  <2>3. CASE k \notin lapsed
    BY <1>1, <1>5, <2>1, <2>3 DEF Affords, Handles, At
  <2> QED
    BY <2>2, <2>3
<1>10. ASSUME NEW u \in Workers PROVE Leased(u)'
  <2>1. Leased(u) /\ batch[u] \subseteq Keys
    BY <1>2 DEF Calm, WorkersCalm
  <2> QED
    BY <1>1, <1>5, <1>6, <2>1 DEF Leased
<1> QED
  BY <1>1, <1>8, <1>9, <1>10, QueueIsCalm

-----------------------------------------------------------------------------
\* The worker's own lease is in force, so that its verdict counts: an event is
\* closed only where the row has moved on, and a retry has attempts left.
LEMMA SettleIsCalm ==
  ASSUME TypeOK, Calm, ~Disturbed, NEW w \in Workers, Settle(w)
  PROVE  Calm'
<1> DEFINE k == run[w].key
<1>1. /\ run[w].at \in Verdicts
      /\ lifecycle' = lifecycle /\ count' = count /\ run' = [run EXCEPT ![w] = Resting]
      /\ batch' = [batch EXCEPT ![w] = @ \ {k}]
  BY DEF Settle, asset
<1>2. run[w] # Resting
  BY <1>1 DEF Resting, Verdicts
<1>3. /\ k \in Keys /\ k \in batch[w] /\ event[k].status = "processing"
      /\ \A v \in Workers : k \in batch[v] => v = w
  BY <1>2, Working DEF Calm
<1>4. /\ event \in [Keys -> Event] /\ batch \in [Workers -> SUBSET Keys]
      /\ count.faults \in Nat /\ event[k] \in Event
  BY <1>3 DEF TypeOK, Count
<1>5. Owns(w)
  BY <1>3 DEF Calm, WorkersCalm, Leased, Owns, Held
<1>6. event' = [event EXCEPT ![k].status = Verdict(w), ![k].owner = Nobody]
  BY <1>1, <1>5 DEF Settle
<1>7. /\ \A j \in Keys \ {k} : event'[j] = event[j]
      /\ event'[k].status = Verdict(w) /\ event'[k].attempts = event[k].attempts
  BY <1>3, <1>4, <1>6 DEF Event
<1>8. /\ \A v \in Workers \ {w} : batch'[v] = batch[v] /\ run'[v] = run[v]
      /\ batch'[w] = batch[w] \ {k} /\ run'[w] = Resting
  BY <1>1, <1>4, Ending
<1>9. Stands(w) /\ Affords(k)
  BY <1>3 DEF Calm, WorkersCalm, AttemptsPaid
<1>10. At(w, "retry") => event[k].attempts <= count.faults /\ Verdict(w) = "pending"
  <2> SUFFICES ASSUME At(w, "retry")
               PROVE  event[k].attempts <= count.faults /\ Verdict(w) = "pending"
    OBVIOUS
  <2>1. event[k].attempts <= count.faults
    BY <1>2, <1>9 DEF Affords, Handles
  <2>2. event[k].attempts \in Nat /\ ~(count.faults >= MaxAttempts)
    BY <1>4 DEF Event, Disturbed
  <2>3. ~(event[k].attempts >= MaxAttempts)
    BY <1>4, <2>1, <2>2, MediaDeletionAssumption
  <2> QED
    BY <2>1, <2>3 DEF Verdict, At
<1>11. Verdict(w) \in Final \cup {"pending"} /\ (Verdict(w) = "pending" => At(w, "retry"))
  BY <1>1, <1>10 DEF Verdict, Verdicts, Final, At
<1>12. /\ k \in DriveKeys /\ lifecycle \in Awaiting => At(w, "retry")
       /\ k = "delete" /\ lifecycle = "DRIVE_DELETED" => At(w, "retry")
  BY <1>1, <1>9 DEF Stands, Verdicts, At, DriveKeys, IndexKeys
<1> HIDE DEF k
<1>13. Chained'
  <2>1. Chained /\ DriveKeys \subseteq Keys /\ "delete" \in Keys
    BY DEF Calm, Keys
  <2>2. ASSUME NEW j \in Keys PROVE event'[j].status = "absent" <=> event[j].status = "absent"
    BY <1>3, <1>7, <1>11 DEF Final
  <2>3. ASSUME NEW j \in Keys, Owes(j), j = k => At(w, "retry")
        PROVE  Owes(j)'
    BY <1>7, <1>10, <2>3 DEF Owes
  <2>4. lifecycle \in Awaiting => \E j \in DriveKeys : Owes(j)'
    BY <1>12, <2>1, <2>3 DEF Chained
  <2>5. lifecycle = "DRIVE_DELETED" => Owes("delete")'
    BY <1>12, <2>1, <2>3 DEF Chained
  <2> QED
    BY <1>1, <2>1, <2>2, <2>4, <2>5 DEF Chained
<1>14. ASSUME NEW v \in Workers PROVE Leased(v)'
  <2>1. Leased(v) /\ batch[v] \subseteq Keys
    BY <1>4 DEF Calm, WorkersCalm
  <2>2. batch'[v] \subseteq batch[v] \ {k}
    BY <1>3, <1>8
  <2> QED
    BY <1>7, <2>1, <2>2 DEF Leased
<1>15. ASSUME NEW v \in Workers PROVE Stands(v)'
  <2>1. CASE v = w
    BY <1>8, <2>1 DEF Stands, At, Resting
  <2>2. CASE v # w
    BY <1>1, <1>8, <2>2 DEF Calm, WorkersCalm, Stands, At
  <2> QED
    BY <2>1, <2>2
<1>16. ASSUME NEW j \in Keys PROVE Affords(j)'
  <2>1. ASSUME NEW v \in Workers, (Handles(v, j) /\ At(v, "retry"))'
        PROVE  Handles(v, j) /\ At(v, "retry")
    BY <1>8, <2>1 DEF Handles, At
  <2>2. CASE j = k
    <3>1. event'[k].status = "pending" => event'[k].attempts <= count.faults
      BY <1>7, <1>10, <1>11
    <3>2. ASSUME NEW v \in Workers, (Handles(v, j) /\ At(v, "retry"))'
          PROVE  event'[j].attempts <= count'.faults
      BY <1>1, <1>7, <1>9, <2>1, <2>2, <3>2 DEF Affords
    <3> QED
      BY <1>1, <1>7, <1>11, <2>2, <3>1, <3>2 DEF Affords, Final
  <2>3. CASE j # k
    <3>1. Affords(j) /\ event'[j] = event[j]
      BY <1>7, <2>3 DEF Calm, AttemptsPaid
    <3>2. (\A v \in Workers : j \notin batch'[v]) => \A v \in Workers : j \notin batch[v]
      BY <1>8, <2>3
    <3> QED
      BY <1>1, <2>1, <3>1, <3>2 DEF Affords
  <2> QED
    BY <2>2, <2>3
<1> QED
  BY <1>13, <1>14, <1>15, <1>16 DEF Calm, WorkersCalm, AttemptsPaid

-----------------------------------------------------------------------------
\* A step of one handler that leaves the events alone.
LEMMA HandlerIsCalm ==
  ASSUME TypeOK, Calm, NEW w \in Workers, event' = event, batch' = batch, count' = count,
         run'[w].at # "retry", \A v \in Workers \ {w} : run'[v] = run[v],
         Chained', \A v \in Workers : Stands(v)'
  PROVE  Calm'
<1>1. \A v \in Workers : Leased(v)'
  BY DEF Calm, WorkersCalm, Leased
<1>2. ASSUME NEW k \in Keys PROVE Affords(k)'
  <2>1. Affords(k)
    BY DEF Calm, AttemptsPaid
  <2>2. ASSUME NEW v \in Workers, (Handles(v, k) /\ At(v, "retry"))'
        PROVE  Handles(v, k) /\ At(v, "retry")
    BY <2>2 DEF Handles, At
  <2> QED
    BY <2>1, <2>2 DEF Affords
<1> QED
  BY <1>1, <1>2 DEF Calm, WorkersCalm, AttemptsPaid

\* One that leaves the row's lifecycle alone too.
LEMMA OneMovesCalmly ==
  ASSUME TypeOK, Calm, NEW w \in Workers, event' = event, batch' = batch, count' = count,
         lifecycle' = lifecycle, run'[w].at # "retry",
         \A v \in Workers \ {w} : run'[v] = run[v], Stands(w)'
  PROVE  Calm'
<1>1. Chained'
  BY DEF Calm, Chained, Owes
<1>2. ASSUME NEW v \in Workers PROVE Stands(v)'
  <2>1. CASE v = w
    BY <2>1
  <2>2. CASE v # w
    BY <2>2 DEF Calm, WorkersCalm, Stands, At
  <2> QED
    BY <2>1, <2>2
<1> QED
  BY <1>1, <1>2, HandlerIsCalm

\* An event that is taken up: what the handler's first read says of the row.
LEMMA PickingIsCalm ==
  ASSUME TypeOK, Calm, NEW w \in Workers, NEW k \in Keys,
         DrivePreflight(w, k) \/ IndexPreflight(w, k) \/ Embed(w, k)
  PROVE  Calm'
<1>1. event' = event /\ batch' = batch /\ count' = count /\ lifecycle' = lifecycle
  BY DEF DrivePreflight, IndexPreflight, Embed, asset
<1>2. CASE DrivePreflight(w, k)
  <2>1. PICK step \in {"complete", "stamp", "bury"} :
           /\ Starts(w, k, step)
           /\ step = "stamp" <=> lifecycle \in Awaiting
    BY <1>2 DEF DrivePreflight, AwaitsDrive, Awaiting
  <2>2. step \in Steps
    BY <2>1 DEF Steps, DriveSteps, Verdicts
  <2>3. /\ run'[w].at = step /\ run'[w].key = k
        /\ \A v \in Workers \ {w} : run'[v] = run[v]
    BY <2>1, <2>2, Starting
  <2>4. k # "delete"
    BY <1>2 DEF DrivePreflight, Picks, DriveKeys
  <2>5. Stands(w)'
    BY <1>1, <2>1, <2>3, <2>4 DEF Stands, At
  <2> QED
    BY <1>1, <2>1, <2>3, <2>5, OneMovesCalmly
<1>3. CASE IndexPreflight(w, k)
  <2>1. PICK step \in {"complete", "retire", "bury"} :
           /\ Starts(w, k, step)
           /\ lifecycle = "DRIVE_DELETED" => step = "retire"
    BY <1>3 DEF IndexPreflight, PassesDriveBlock
  <2>2. step \in Steps
    BY <2>1 DEF Steps, DeleteSteps, Verdicts
  <2>3. /\ run'[w].at = step /\ run'[w].key = k
        /\ \A v \in Workers \ {w} : run'[v] = run[v]
    BY <2>1, <2>2, Starting
  <2>4. k \notin DriveKeys
    BY <1>3 DEF IndexPreflight, Picks, DriveKeys
  <2>5. Stands(w)'
    BY <1>1, <2>1, <2>3, <2>4 DEF Stands, At
  <2> QED
    BY <1>1, <2>1, <2>3, <2>5, OneMovesCalmly
<1>4. CASE Embed(w, k)
  <2>1. Starts(w, k, "publish") /\ k \in IndexKeys /\ "publish" \in Steps
    BY <1>4 DEF Embed, Picks, Steps
  <2>2. /\ run'[w].at = "publish" /\ run'[w].key = k
        /\ \A v \in Workers \ {w} : run'[v] = run[v]
    BY <2>1, Starting
  <2>3. Stands(w)'
    BY <2>1, <2>2 DEF Stands, At
  <2> QED
    BY <1>1, <2>2, <2>3, OneMovesCalmly
<1> QED
  BY <1>2, <1>3, <1>4

\* The statements and calls that leave the lifecycle as it is.
LEMMA CallIsCalm ==
  ASSUME TypeOK, Calm, NEW w \in Workers,
         \/ PerformDriveDelete(w) \/ StampRetiring(w) \/ DeletePoints(w) \/ StampRetired(w)
         \/ Publish(w)
  PROVE  Calm'
<1>1. event' = event /\ batch' = batch /\ count' = count /\ lifecycle' = lifecycle
  BY DEF PerformDriveDelete, StampRetiring, DeletePoints, StampRetired, Publish
<1>2. run[w] # Resting /\ Stands(w)
  BY DEF PerformDriveDelete, StampRetiring, DeletePoints, StampRetired, Publish, At, Resting,
     Calm, WorkersCalm
<1>3. PICK step \in {"advance", "points", "soft", "confirm", "complete", "supersede"} :
         /\ Goes(w, step)
         /\ step = "advance" => At(w, "drive")
         /\ step \in {"complete", "supersede"} => At(w, "publish")
  BY DEF PerformDriveDelete, StampRetiring, DeletePoints, StampRetired, Publish
<1>4. step \in Steps
  BY <1>3 DEF Steps, DriveSteps, DeleteSteps, Verdicts
<1>5. /\ run'[w].at = step /\ run'[w].key = run[w].key
      /\ \A v \in Workers \ {w} : run'[v] = run[v]
  BY <1>2, <1>3, <1>4, Going
<1>6. Stands(w)'
  BY <1>1, <1>2, <1>3, <1>5 DEF Stands, At, DriveKeys, IndexKeys
<1> QED
  BY <1>1, <1>3, <1>5, <1>6, OneMovesCalmly

\* The first stamp of the Drive handler, on a row that awaits it.
LEMMA StampIsCalm ==
  ASSUME TypeOK, Calm, NEW w \in Workers, StampDrivePending(w)
  PROVE  Calm'
<1>1. /\ event' = event /\ batch' = batch /\ count' = count
      /\ lifecycle' = "DRIVE_DELETE_PENDING" /\ Goes(w, "drive") /\ At(w, "stamp")
  BY DEF StampDrivePending
<1>2. lifecycle \in Awaiting /\ run[w] # Resting
  BY <1>1 DEF Calm, WorkersCalm, Stands, At, Resting
<1>3. "drive" \in Steps
  BY DEF Steps, DriveSteps
<1>4. /\ run'[w].at = "drive" /\ run'[w].key = run[w].key
      /\ \A v \in Workers \ {w} : run'[v] = run[v]
  BY <1>1, <1>2, <1>3, Going
<1>5. Chained'
  BY <1>1, <1>2 DEF Calm, Chained, Owes, Awaiting
<1>6. ASSUME NEW v \in Workers PROVE Stands(v)'
  <2>1. CASE v = w
    BY <1>1, <1>4, <2>1 DEF Stands, At
  <2>2. CASE v # w
    BY <1>1, <1>2, <1>4, <2>2 DEF Calm, WorkersCalm, Stands, At, Awaiting
  <2> QED
    BY <2>1, <2>2
<1> QED
  BY <1>1, <1>4, <1>5, <1>6, HandlerIsCalm

\* The row ends only while the delete event is handled, and by then nobody
\* handles a Drive event that the row still waits for.
LEMMA EndOfRowIsCalm ==
  ASSUME TypeOK, Calm, NEW w \in Workers, SoftDelete(w) \/ StampIndexDeleted(w) \/ StampDeleted(w)
  PROVE  Calm'
<1>1. /\ event' = event /\ batch' = batch /\ count' = count
      /\ lifecycle' \in {"DELETED", "INDEX_DELETED"} /\ run[w].at \in {"soft", "confirm", "close"}
  BY DEF SoftDelete, StampIndexDeleted, StampDeleted, At
<1>2. PICK step \in {"retired", "close", "complete"} : Goes(w, step)
  BY DEF SoftDelete, StampIndexDeleted, StampDeleted
<1>3. step \in Steps
  BY <1>2 DEF Steps, DeleteSteps, Verdicts
<1>4. run[w] # Resting /\ run[w].at \in DeleteSteps
  BY <1>1 DEF Resting, DeleteSteps
<1>5. run[w].key = "delete" /\ event["delete"].status = "processing"
  BY <1>4, Working DEF Calm
<1>6. /\ run'[w].at = step /\ run'[w].key = run[w].key
      /\ \A v \in Workers \ {w} : run'[v] = run[v]
  BY <1>2, <1>3, <1>4, Going
<1>7. lifecycle \notin {"ACTIVE"} \cup Awaiting
  BY <1>5 DEF Calm, Chained
<1>8. Chained'
  BY <1>1, <1>7 DEF Calm, Chained, Awaiting
<1>9. ASSUME NEW v \in Workers PROVE Stands(v)'
  <2>1. CASE v = w
    BY <1>1, <1>2, <1>5, <1>6, <2>1 DEF Stands, At, DriveKeys, IndexKeys, Awaiting
  <2>2. CASE v # w
    <3>1. Stands(v) /\ run'[v] = run[v]
      BY <1>6, <2>2 DEF Calm, WorkersCalm
    <3> QED
      BY <1>1, <1>7, <3>1 DEF Stands, At, Awaiting
  <2> QED
    BY <2>1, <2>2
<1> QED
  BY <1>1, <1>2, <1>6, <1>8, <1>9, HandlerIsCalm

\* The one hand-over of the chain: whoever advances the row is alone with the
\* Drive event, and the delete event is new.
LEMMA AdvanceIsCalm ==
  ASSUME TypeOK, Calm, NEW w \in Workers, AdvanceAndEmit(w)
  PROVE  Calm'
<1>1. At(w, "advance") /\ batch' = batch /\ count' = count
  BY DEF AdvanceAndEmit
<1>2. run[w] # Resting /\ run[w].at \in DriveSteps /\ lifecycle = "DRIVE_DELETE_PENDING"
  BY <1>1 DEF Calm, WorkersCalm, Stands, At, Resting, DriveSteps
<1>3. run[w].key \in DriveKeys /\ run[w].key \in batch[w]
      /\ event[run[w].key].status = "processing"
      /\ \A v \in Workers : run[w].key \in batch[v] => v = w
  BY <1>2, Working DEF Calm
<1>4. lifecycle' = "DRIVE_DELETED" /\ event' = Enqueued("delete") /\ Goes(w, "complete")
  BY <1>2 DEF AdvanceAndEmit, EnqueuedDelete
<1>5. "complete" \in Steps /\ "delete" \in Keys \ DriveKeys /\ DriveKeys \subseteq Keys
  BY DEF Steps, Verdicts, Keys, DriveKeys
<1>6. /\ run'[w].at = "complete" /\ run'[w].key = run[w].key
      /\ \A v \in Workers \ {w} : run'[v] = run[v]
  BY <1>2, <1>4, <1>5, Going
<1>7. event["delete"].status = "absent"
  BY <1>2 DEF Calm, Chained, Awaiting
<1>8. /\ \A k \in Keys : k # "delete" => event'[k] = event[k]
      /\ event'["delete"].attempts = event["delete"].attempts
      /\ event'["delete"].status = "pending"
  BY <1>4, <1>5, <1>7, Enqueuing
<1>9. \A v \in Workers : "delete" \notin batch[v] /\ ~Handles(v, "delete")
  BY <1>5, <1>7, Idlers DEF Calm
<1>10. Chained'
  BY <1>1, <1>2, <1>4, <1>5, <1>8 DEF Calm, Chained, Owes, Awaiting
<1>11. ASSUME NEW v \in Workers PROVE Leased(v)'
  BY <1>1, <1>8, <1>9 DEF Calm, WorkersCalm, Leased, TypeOK
<1>12. ASSUME NEW v \in Workers, v # w PROVE ~(run[v].at \in DriveSteps)
  <2> SUFFICES ASSUME run[v].at \in DriveSteps PROVE FALSE
    OBVIOUS
  <2>1. run[v] # Resting
    BY DEF Resting, DriveSteps
  <2>2. run[v].key \in DriveKeys /\ run[v].key \in batch[v]
        /\ event[run[v].key].status = "processing"
    BY <2>1, Working DEF Calm
  <2>3. run[v].key = run[w].key
    BY <1>3, <2>2 DEF Calm, Chained
  <2> QED
    BY <1>3, <1>12, <2>2, <2>3
<1>13. ASSUME NEW v \in Workers PROVE Stands(v)'
  <2>1. CASE v = w
    BY <1>3, <1>4, <1>5, <1>6, <2>1 DEF Stands, At, Awaiting
  <2>2. CASE v # w
    <3>1. Stands(v) /\ run'[v] = run[v]
      BY <1>6, <2>2 DEF Calm, WorkersCalm
    <3>2. run[v].at \in {"complete", "bury"} => run[v].key # "delete"
      BY <1>9 DEF Handles, Resting
    <3> QED
      BY <1>4, <1>12, <2>2, <3>1, <3>2 DEF Stands, At, Awaiting, DriveSteps
  <2> QED
    BY <2>1, <2>2
<1>14. ASSUME NEW k \in Keys PROVE Affords(k)'
  <2>1. Affords(k)
    BY DEF Calm, AttemptsPaid
  <2>2. ASSUME NEW v \in Workers, (Handles(v, k) /\ At(v, "retry"))'
        PROVE  Handles(v, k) /\ At(v, "retry")
    BY <1>6, <2>2 DEF Handles, At
  <2>3. CASE k = "delete"
    <3>1. event[k].attempts = 0 /\ count.faults \in Nat
      BY <1>7, <2>1, <2>3 DEF Affords, TypeOK, Count
    <3> QED
      BY <1>1, <1>8, <1>9, <2>2, <2>3, <3>1 DEF Affords
  <2>4. CASE k # "delete"
    BY <1>1, <1>8, <2>1, <2>2, <2>4 DEF Affords
  <2> QED
    BY <2>3, <2>4
<1> QED
  BY <1>10, <1>11, <1>13, <1>14 DEF Calm, WorkersCalm, AttemptsPaid

-----------------------------------------------------------------------------
\* A failure pays for the attempt that it cuts short.
LEMMA FaultIsCalm ==
  ASSUME TypeOK, Calm, NEW w \in Workers, event' = event, lifecycle' = lifecycle, Tallied("faults"),
         \A v \in Workers \ {w} : run'[v] = run[v],
         \A v \in Workers : batch'[v] \subseteq batch[v],
         run'[w] = Resting \/ (At(w, "retry")' /\ run[w] # Resting /\ run'[w].key = run[w].key)
  PROVE  Calm'
<1>1. /\ count'.faults = count.faults + 1 /\ count'.requests = count.requests
      /\ count.faults \in Nat
  BY Counted DEF TypeOK, Count
<1>2. Chained'
  BY <1>1 DEF Calm, Chained, Owes
<1>3. ASSUME NEW v \in Workers PROVE Leased(v)'
  BY DEF Calm, WorkersCalm, Leased
<1>4. ASSUME NEW v \in Workers PROVE Stands(v)'
  <2>1. CASE v = w
    BY <2>1 DEF Stands, At, Resting
  <2>2. CASE v # w
    BY <2>2 DEF Calm, WorkersCalm, Stands, At
  <2> QED
    BY <2>1, <2>2
<1>5. ASSUME NEW k \in Keys PROVE Affords(k)'
  <2>1. Affords(k) /\ event[k].attempts \in Nat
    BY DEF Calm, AttemptsPaid, TypeOK, Event
  <2>2. event[k].status = "processing" => event'[k].attempts <= count'.faults
    BY <1>1, <2>1 DEF Affords
  <2>3. event[k].status = "pending" => event'[k].attempts <= count'.faults
    BY <1>1, <2>1 DEF Affords
  <2>4. event[k].status = "processing" => event'[k].attempts <= count'.faults + 1
    BY <1>1, <2>1 DEF Affords
  <2>5. ASSUME NEW v \in Workers, (Handles(v, k) /\ At(v, "retry"))'
        PROVE  event'[k].attempts <= count'.faults
    <3>1. Handles(v, k)
      <4>1. CASE v = w
        BY <2>5, <4>1 DEF Handles
      <4>2. CASE v # w
        BY <2>5, <4>2 DEF Handles
      <4> QED
        BY <4>1, <4>2
    <3> QED
      BY <2>2, <3>1, Working DEF Calm, Handles
  <2> QED
    BY <2>1, <2>2, <2>3, <2>4, <2>5 DEF Affords
<1> QED
  BY <1>2, <1>3, <1>4, <1>5 DEF Calm, WorkersCalm, AttemptsPaid

\* Calls and verdicts that fail, and crashes.
LEMMA FaultsAreCalm ==
  ASSUME TypeOK, Calm, NEW w \in Workers, CallFails(w) \/ SettleFails(w) \/ Crash(w)
  PROVE  Calm'
<1>1. event' = event /\ lifecycle' = lifecycle /\ Tallied("faults")
  BY DEF CallFails, SettleFails, Crash, Faulty, asset
<1>2. batch \in [Workers -> SUBSET Keys]
  BY DEF TypeOK
<1>3. CASE CallFails(w)
  <2>1. Goes(w, "retry") /\ batch' = batch /\ run[w] # Resting /\ "retry" \in Steps
    BY <1>3 DEF CallFails, Resting, Steps, DriveSteps, DeleteSteps, Verdicts
  <2>2. /\ run'[w].at = "retry" /\ run'[w].key = run[w].key
        /\ \A v \in Workers \ {w} : run'[v] = run[v]
    BY <2>1, Going
  <2> QED
    BY <1>1, <2>1, <2>2, FaultIsCalm DEF At
<1>4. CASE SettleFails(w) \/ Crash(w)
  <2>1. run' = [run EXCEPT ![w] = Resting] /\ \A v \in Workers : batch'[v] \subseteq batch[v]
    BY <1>2, <1>4 DEF SettleFails, Crash
  <2>2. run'[w] = Resting /\ \A v \in Workers \ {w} : run'[v] = run[v]
    BY <2>1, Ending
  <2> QED
    BY <1>1, <2>1, <2>2, FaultIsCalm
<1> QED
  BY <1>3, <1>4

\* A second request, a commit or delivery by the producer and a lease that
\* lapses under its worker are disturbances; everything else keeps the calm.
LEMMA NextCalm ==
  ASSUME TypeOK, Calm, ~Disturbed, ~Disturbed', [Next]_vars
  PROVE  Calm'
<1>1. /\ count.recommits \in Nat /\ count.overtakes \in Nat
  BY DEF TypeOK, Count
<1>2. CASE UNCHANGED vars
  <2>1. Chained'
    BY <1>2 DEF Calm, Chained, Owes, vars
  <2>2. ASSUME NEW w \in Workers PROVE Leased(w)' /\ Stands(w)'
    BY <1>2 DEF Calm, WorkersCalm, Leased, Stands, At, vars
  <2>3. ASSUME NEW k \in Keys PROVE Affords(k)'
    BY <1>2 DEF Calm, AttemptsPaid, Affords, Handles, At, vars
  <2> QED
    BY <2>1, <2>2, <2>3 DEF Calm, WorkersCalm, AttemptsPaid
<1>3. CASE \E k \in DriveKeys : EnqueueDriveDelete(k)
  BY <1>3, RequestIsCalm
<1>4. CASE Recommit \/ UpdateDriveDelivery
  BY <1>1, <1>4, Counted DEF Recommit, UpdateDriveDelivery, Disturbed
<1>5. CASE RequestReindex
  BY <1>5, ReindexIsCalm
<1>6. ASSUME NEW w \in Workers, ClaimBatch(w) \/ Reclaims(w) PROVE Calm'
  BY <1>6, ClaimIsCalm, ReclaimIsCalm DEF Reclaims
<1>7. ASSUME NEW w \in Workers, Handling(w) PROVE Calm'
  BY <1>7, PickingIsCalm, CallIsCalm, StampIsCalm, EndOfRowIsCalm, AdvanceIsCalm, SettleIsCalm
     DEF Handling
<1>8. ASSUME NEW w \in Workers, NEW v \in Workers, ReclaimOvertaken(w, v) PROVE Calm'
  BY <1>1, <1>8, Counted DEF ReclaimOvertaken, Disturbed
<1>9. ASSUME NEW w \in Workers, CallFails(w) \/ SettleFails(w) \/ Crash(w) PROVE Calm'
  BY <1>9, FaultsAreCalm
<1> QED
  BY <1>2, <1>3, <1>4, <1>5, <1>6, <1>7, <1>8, <1>9 DEF Next

\* UnstuckInv is inductive: a disturbance stays one.
LEMMA NextUnstuckInv == TypeOK /\ UnstuckInv /\ [Next]_vars => UnstuckInv'
<1> SUFFICES ASSUME TypeOK, UnstuckInv, [Next]_vars, ~Disturbed' PROVE Calm'
  BY DEF UnstuckInv
<1>1. ~Disturbed
  BY CalmBefore
<1>2. Calm
  BY <1>1 DEF UnstuckInv
<1> QED
  BY <1>1, <1>2, NextCalm

\* As long as nothing disturbs the deletion, row, events, workers and attempts
\* fit together.
THEOREM UnstuckInvariance == Spec => []UnstuckInv
<1>1. Init => UnstuckInv
  BY InitCalm DEF UnstuckInv
<1> QED
  BY <1>1, NextUnstuckInv, DeletionTyping, PTL DEF Spec

\* A row of the deletion chain has an event that will move it on: the stamp
\* and the event of a request are one transaction, so are the hand-over to the
\* delete event and its stamp, and the lease fence of outbox_lease.go lets only
\* a worker that saw the row move on close the event it moved for.
THEOREM NothingGetsStuck == Spec => []NoStuckRow
<1>1. UnstuckInv => NoStuckRow
  BY DEF UnstuckInv, Calm, NoStuckRow, Chained, Awaiting
<1> QED
  BY <1>1, UnstuckInvariance, PTL
=============================================================================
