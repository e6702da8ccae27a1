---------------------------- MODULE MediaDeletion ----------------------------
(***************************************************************************)
(* Deletion of one media asset on the PostgreSQL media plane: the row of   *)
(* media_assets, its vectors, its Drive file, and the outbox events whose  *)
(* handlers move them (src/internal/platform/postgres/media/delete_saga.go,*)
(* outbox_worker.go, outbox_lease.go, outbox_index_fence.go and            *)
(* src/internal/capabilities/jobs/drive_delete*.go, index_delete.go).      *)
(* Assets do not share state, so one is enough.                            *)
(*                                                                         *)
(* A handler is a sequence of separate statements and calls, and every one *)
(* of them is an action: another request, another worker or a crash may    *)
(* come between any two.  The worker claims all due events under one lease *)
(* and handles them in turn; it requeues lapsed leases between batches.    *)
(* A lease is named by the worker that holds it, because a worker ends one *)
(* batch before it claims the next.                                        *)
(***************************************************************************)
EXTENDS Naturals, FiniteSets

CONSTANTS
  Workers,       \* processes that run the media outbox worker
  MaxAttempts,   \* the max_attempts column
  MaxTroubles    \* bound: everything but one deletion going smoothly, see Room

ASSUME MediaDeletionAssumption ==
  /\ Workers # {}
  /\ MaxAttempts \in Nat \ {0}
  /\ MaxTroubles \in Nat

VARIABLES
  lifecycle,   \* media_assets.lifecycle_state
  index,       \* media_assets.index_state
  tombstone,   \* media_assets.deleted_at is set
  vector,      \* media_embeddings has rows of the asset
  file,        \* the Drive file that the row names
  outdated,    \* workers whose deletion has read a file that the row no longer names
  escaped,     \* history: the row was given a file that a deletion had not read; see GivesFile
  event,       \* outbox_events, by event key
  batch,       \* the events each worker has claimed and not yet settled
  run,         \* where each worker is
  count        \* what has happened that MaxTroubles bounds

files == <<file, outdated, escaped>>
asset == <<lifecycle, index, tombstone, vector, file, outdated, escaped>>
vars  == <<lifecycle, index, tombstone, vector, file, outdated, escaped, event, batch, run, count>>

(***************************************************************************)
(* State                                                                   *)
(***************************************************************************)
\* INDEX_DELETE_PENDING is asked for below but written by nobody.
Lifecycles == {"ACTIVE", "DELETE_REQUESTED", "DRIVE_DELETE_PENDING", "DRIVE_DELETED",
               "INDEX_DELETED", "DELETED"}
Indexes == {"DISCOVERED", "INDEXED", "DELETE_PENDING", "DELETED"}
Files   == {"live", "trashed", "gone"}

\* retiredIndexStates
Retired == {"DELETE_PENDING", "DELETED"}

\* The states the conditional stamp of DELETE_REQUESTED leaves alone.
DeletionChain == {"DELETE_REQUESTED", "DRIVE_DELETE_PENDING", "INDEX_DELETE_PENDING", "DELETED"}

\* Event keys: drive_delete:<id>, drive_delete_perm:<id>, delete:<id>, that of
\* the first index request and that of a forced one.
DriveKeys == {"trash", "purge"}
IndexKeys == {"index", "reindex"}
Keys == DriveKeys \cup IndexKeys \cup {"delete"}

Final    == {"completed", "superseded", "dead_letter"}
Statuses == {"absent", "pending", "processing"} \cup Final
Nobody   == "nobody"
Event    == [status : Statuses, attempts : Nat, owner : Workers \cup {Nobody}]

DriveSteps  == {"stamp", "drive", "advance"}
DeleteSteps == {"retire", "points", "soft", "retired", "confirm", "close"}
Verdicts    == {"complete", "supersede", "bury", "retry"}
Steps       == DriveSteps \cup DeleteSteps \cup {"publish"} \cup Verdicts
Resting     == [at |-> "rest"]
Running     == [at : Steps, key : Keys]

\* Deletion requests, commits and deliveries of the asset by its producer,
\* failed calls and crashes, leases that lapse while their holder is at work.
Count == [requests : Nat, recommits : Nat, faults : Nat, overtakes : Nat]
Tallied(c) == count' = [count EXCEPT ![c] = @ + 1]

\* One request is what the saga is for; everything further is trouble.
Room == count.requests + count.recommits + count.faults + count.overtakes
          < MaxTroubles + IF count.requests = 0 THEN 0 ELSE 1

NoEvent == [status |-> "absent", attempts |-> 0, owner |-> Nobody]

\* ON CONFLICT (event_key) DO NOTHING: whatever became of the first event.
Enqueued(k) == IF event[k].status = "absent" THEN [event EXCEPT ![k].status = "pending"] ELSE event

\* Mutant: the key of the request is used again.
EnqueuedDeleteOnTrash == Enqueued("trash")
EnqueuedDelete == Enqueued("delete")

Owes(k) == event[k].status \in {"pending", "processing"}

At(w, step)   == run[w].at = step
Goes(w, step) == run' = [run EXCEPT ![w].at = step]
Starts(w, k, step) == run' = [run EXCEPT ![w] = [at |-> step, key |-> k]]
\* Mutant: an event goes to a handler of another type.
PicksAny(w, k, keys) == At(w, "rest") /\ k \in batch[w]
Picks(w, k, keys)    == At(w, "rest") /\ k \in batch[w] \cap keys

(***************************************************************************)
(* Requests and producers                                                  *)
(***************************************************************************)
\* One transaction: the conditional stamp and the event, each of which may
\* find nothing to do.
EnqueueDriveDelete(k) ==
  /\ count.requests = 0 \/ Room
  /\ lifecycle' = IF lifecycle \in DeletionChain THEN lifecycle ELSE "DELETE_REQUESTED"
  /\ event' = Enqueued(k)
  /\ Tallied("requests")
  /\ UNCHANGED <<index, tombstone, vector, files, batch, run>>

\* A deletion has read which file the row names, or is past the file.
PastReading ==
  \/ \E w \in Workers : run[w].at \in DriveSteps \cup {"retire"}
  \/ lifecycle = "DRIVE_DELETED"
  \/ index \in Retired

\* The row names another file from now on, or none; a deletion that is under
\* way goes on with the file it has read.
GivesFile ==
  /\ file' \in {"live", "gone"}
  /\ outdated' = {w \in Workers : run[w].at \in DriveSteps}
  /\ escaped' = (escaped \/ PastReading')

\* The producer commits the asset again: the upsert takes its lifecycle state
\* and its Drive file, the same or another, and leaves index_state and
\* deleted_at; the key of the index request exists.
Recommit ==
  /\ Room
  /\ lifecycle' = "ACTIVE"
  /\ event' = Enqueued("index")
  /\ Tallied("recommits")
  /\ UNCHANGED <<index, tombstone, vector, batch, run>>
  /\ GivesFile \/ UNCHANGED files

\* The delivery of an image writes the Drive file of the row, whatever its state.
UpdateDriveDelivery ==
  /\ Room
  /\ Tallied("recommits")
  /\ UNCHANGED <<lifecycle, index, tombstone, vector, event, batch, run>>
  /\ GivesFile

\* A request on top of one that has ended gets a key of its own (here once).
RequestReindex ==
  /\ ~tombstone
  /\ event["index"].status \in Final
  /\ event["reindex"].status = "absent"
  /\ event' = Enqueued("reindex")
  /\ UNCHANGED <<asset, batch, run, count>>

(***************************************************************************)
(* The worker's loop                                                       *)
(***************************************************************************)
\* ClaimBatch takes the pending events whose next attempt is due; which are
\* due is left open, and so is the order within the batch.
ClaimBatch(w) ==
  /\ At(w, "rest") /\ batch[w] = {}
  /\ \E due \in SUBSET {k \in Keys : event[k].status = "pending"} \ {{}} :
       /\ event' = [k \in Keys |-> IF k \in due
                       THEN [status |-> "processing", attempts |-> event[k].attempts + 1, owner |-> w]
                       ELSE event[k]]
       /\ batch' = [batch EXCEPT ![w] = due]
  /\ UNCHANGED <<asset, run, count>>

Requeued(keys) == [k \in Keys |-> IF k \in keys
                     THEN [event[k] EXCEPT !.status = "pending", !.owner = Nobody] ELSE event[k]]

Held(v) == {k \in Keys : event[k].status = "processing" /\ event[k].owner = v}

\* Leases that lapsed because their worker crashed or could not settle.
ReclaimAbandoned(w, v) ==
  /\ At(w, "rest") /\ batch[w] = {}
  /\ Held(v) \ batch[v] # {}
  /\ event' = Requeued(Held(v) \ batch[v])
  /\ UNCHANGED <<asset, batch, run, count>>

\* Leases that lapsed while their worker was busy with the batch.
ReclaimOvertaken(w, v) ==
  /\ At(w, "rest") /\ batch[w] = {}
  /\ Held(v) \cap batch[v] # {}
  /\ Room
  /\ event' = Requeued(Held(v))
  /\ Tallied("overtakes")
  /\ UNCHANGED <<asset, batch, run>>

\* lease_id = ? AND status = 'processing', the fence of every Mark statement.
Owns(w) == run[w].key \in Held(w)

Verdict(w) == CASE At(w, "complete")  -> "completed"
                [] At(w, "supersede") -> "superseded"
                [] At(w, "bury")      -> "dead_letter"
                [] At(w, "retry")     -> IF event[run[w].key].attempts >= MaxAttempts
                                         THEN "dead_letter" ELSE "pending"

\* completed keeps its lease columns; nobody reads them.
Settle(w) ==
  LET k == run[w].key IN
  /\ run[w].at \in Verdicts
  /\ event' = IF Owns(w) THEN [event EXCEPT ![k].status = Verdict(w), ![k].owner = Nobody] ELSE event
  /\ batch' = [batch EXCEPT ![w] = @ \ {k}]
  /\ run' = [run EXCEPT ![w] = Resting]
  /\ UNCHANGED <<asset, count>>

(***************************************************************************)
(* asset.drive.delete_requested                                            *)
(***************************************************************************)
\* Mutant: a delivery that was cut short is not taken up again.
FirstDelivery == lifecycle = "DELETE_REQUESTED"
AwaitsDrive == lifecycle \in {"DELETE_REQUESTED", "DRIVE_DELETE_PENDING"}

DrivePreflight(w, k) ==
  /\ Picks(w, k, DriveKeys)
  /\ Starts(w, k, CASE lifecycle \in {"INDEX_DELETE_PENDING", "DELETED"} -> "complete"
                    [] AwaitsDrive -> "stamp"
                    [] OTHER -> "bury")
  /\ outdated' = outdated \ {w}
  /\ UNCHANGED <<lifecycle, index, tombstone, vector, file, escaped, event, batch, count>>

\* Mutant: the row is advanced before the call to Drive.
StampThenAdvance(w) ==
  /\ At(w, "stamp")
  /\ lifecycle' = "DRIVE_DELETE_PENDING" /\ tombstone' = FALSE
  /\ Goes(w, "advance")
  /\ UNCHANGED <<index, vector, files, event, batch, count>>

\* SetLifecycleState compares nothing and empties deleted_at.
StampDrivePending(w) ==
  /\ At(w, "stamp")
  /\ lifecycle' = "DRIVE_DELETE_PENDING" /\ tombstone' = FALSE
  /\ Goes(w, "drive")
  /\ UNCHANGED <<index, vector, files, event, batch, count>>

\* The file that the preflight read, which need not be the row's any more; one
\* that is not there counts as deleted.
PerformDriveDelete(w) ==
  /\ At(w, "drive")
  /\ file' = IF w \in outdated THEN file
             ELSE IF run[w].key = "purge" \/ file = "gone" THEN "gone" ELSE "trashed"
  /\ Goes(w, "advance")
  /\ UNCHANGED <<lifecycle, index, tombstone, vector, outdated, escaped, event, batch, count>>

\* One transaction; a row in another state is an error that is retried.
AdvanceAndEmit(w) ==
  /\ At(w, "advance")
  /\ IF lifecycle = "DRIVE_DELETE_PENDING"
       THEN /\ lifecycle' = "DRIVE_DELETED"
            /\ event' = EnqueuedDelete
            /\ Goes(w, "complete")
       ELSE Goes(w, "retry") /\ UNCHANGED <<lifecycle, event>>
  /\ UNCHANGED <<index, tombstone, vector, files, batch, count>>

(***************************************************************************)
(* asset.index.delete_requested                                            *)
(***************************************************************************)
PassesDriveBlock == lifecycle \in {"DRIVE_DELETED", "INDEX_DELETE_PENDING"}

IndexPreflight(w, k) ==
  /\ Picks(w, k, {"delete"})
  /\ Starts(w, k, CASE lifecycle \in {"DELETED", "INDEX_DELETED"} -> "complete"
                    [] PassesDriveBlock -> "retire"
                    [] OTHER -> "bury")
  /\ UNCHANGED <<asset, event, batch, count>>

StampRetiring(w) ==
  /\ At(w, "retire")
  /\ index' = "DELETE_PENDING"
  /\ Goes(w, "points")
  /\ UNCHANGED <<lifecycle, tombstone, vector, files, event, batch, count>>

DeletePoints(w) ==
  /\ At(w, "points")
  /\ vector' = FALSE
  /\ Goes(w, "soft")
  /\ UNCHANGED <<lifecycle, index, tombstone, files, event, batch, count>>

SoftDelete(w) ==
  /\ At(w, "soft")
  /\ lifecycle' = "DELETED" /\ tombstone' = TRUE
  /\ Goes(w, "retired")
  /\ UNCHANGED <<index, vector, files, event, batch, count>>

StampRetired(w) ==
  /\ At(w, "retired")
  /\ index' = "DELETED"
  /\ Goes(w, "confirm")
  /\ UNCHANGED <<lifecycle, tombstone, vector, files, event, batch, count>>

StampIndexDeleted(w) ==
  /\ At(w, "confirm")
  /\ lifecycle' = "INDEX_DELETED" /\ tombstone' = FALSE
  /\ Goes(w, "close")
  /\ UNCHANGED <<index, vector, files, event, batch, count>>

StampDeleted(w) ==
  /\ At(w, "close")
  /\ lifecycle' = "DELETED" /\ tombstone' = FALSE
  /\ Goes(w, "complete")
  /\ UNCHANGED <<index, vector, files, event, batch, count>>

(***************************************************************************)
(* asset.index.requested                                                   *)
(***************************************************************************)
\* The embedding is computed before the transaction and reads nothing of the row.
Embed(w, k) ==
  /\ Picks(w, k, IndexKeys)
  /\ Starts(w, k, "publish")
  /\ UNCHANGED <<asset, event, batch, count>>

\* Mutant: only the final state is fenced off.
FencedLate == index # "DELETED"
Fenced == index \notin Retired

\* One transaction: the fenced flip to INDEXED and the upsert of the vector.
Publish(w) ==
  /\ At(w, "publish")
  /\ IF Fenced THEN index' = "INDEXED" /\ vector' = TRUE /\ Goes(w, "complete")
               ELSE Goes(w, "supersede") /\ UNCHANGED <<index, vector>>
  /\ UNCHANGED <<lifecycle, tombstone, files, event, batch, count>>

(***************************************************************************)
(* Faults                                                                  *)
(***************************************************************************)
Faulty == Room /\ Tallied("faults")

\* A read, statement or call of a handler fails and the handler returns.
CallFails(w) ==
  /\ Faulty
  /\ run[w].at \in Steps \ Verdicts
  /\ Goes(w, "retry")
  /\ UNCHANGED <<asset, event, batch>>

\* The Mark statement fails: the event stays in process, the worker goes on.
SettleFails(w) ==
  /\ Faulty
  /\ run[w].at \in Verdicts
  /\ batch' = [batch EXCEPT ![w] = @ \ {run[w].key}]
  /\ run' = [run EXCEPT ![w] = Resting]
  /\ UNCHANGED <<asset, event>>

\* The process dies and is started again.
Crash(w) ==
  /\ Faulty
  /\ batch[w] # {}
  /\ batch' = [batch EXCEPT ![w] = {}]
  /\ run' = [run EXCEPT ![w] = Resting]
  /\ UNCHANGED <<asset, event>>

(***************************************************************************)
(* The asset has just been committed and waits to be indexed.  An asset    *)
(* without a Drive file is one whose file is gone.                         *)
(***************************************************************************)
Init ==
  /\ lifecycle = "ACTIVE" /\ index = "DISCOVERED" /\ tombstone = FALSE /\ vector = FALSE
  /\ file = "live" /\ outdated = {} /\ escaped = FALSE
  /\ event = [[k \in Keys |-> NoEvent] EXCEPT !["index"].status = "pending"]
  /\ batch = [w \in Workers |-> {}]
  /\ run = [w \in Workers |-> Resting]
  /\ count = [requests |-> 0, recommits |-> 0, faults |-> 0, overtakes |-> 0]

Handling(w) ==
  \/ \E k \in Keys : DrivePreflight(w, k) \/ IndexPreflight(w, k) \/ Embed(w, k)
  \/ StampDrivePending(w) \/ PerformDriveDelete(w) \/ AdvanceAndEmit(w)
  \/ StampRetiring(w) \/ DeletePoints(w) \/ SoftDelete(w) \/ StampRetired(w)
  \/ StampIndexDeleted(w) \/ StampDeleted(w)
  \/ Publish(w)
  \/ Settle(w)

Reclaims(w) == \E v \in Workers : ReclaimAbandoned(w, v)

Next ==
  \/ \E k \in DriveKeys : EnqueueDriveDelete(k)
  \/ Recommit \/ UpdateDriveDelivery
  \/ RequestReindex
  \/ \E w \in Workers :
       \/ ClaimBatch(w) \/ Reclaims(w) \/ Handling(w)
       \/ \E v \in Workers : ReclaimOvertaken(w, v)
       \/ CallFails(w) \/ SettleFails(w) \/ Crash(w)

\* The loop claims and reclaims on its tickers and finishes each batch.
Fairness == \A w \in Workers :
  WF_vars(Handling(w)) /\ WF_vars(Reclaims(w)) /\ SF_vars(ClaimBatch(w))

Spec == Init /\ [][Next]_vars
FairSpec == Spec /\ Fairness

(***************************************************************************)
(* Properties                                                              *)
(***************************************************************************)
\* What a worker's place says of the event it handles.
Placed(w) == run[w] # Resting =>
  /\ run[w].key \in batch[w]
  /\ run[w].at \in DriveSteps => run[w].key \in DriveKeys
  /\ run[w].at \in DeleteSteps => run[w].key = "delete"

\* Types, and every worker handles an event of its batch with the handler of
\* the event's type.
TypeOK ==
  /\ lifecycle \in Lifecycles /\ index \in Indexes /\ file \in Files
  /\ tombstone \in BOOLEAN /\ vector \in BOOLEAN
  /\ outdated \subseteq Workers /\ escaped \in BOOLEAN
  /\ event \in [Keys -> Event]
  /\ batch \in [Workers -> SUBSET Keys]
  /\ run \in [Workers -> Running \cup {Resting}]
  /\ count \in Count
  /\ \A w \in Workers : Placed(w)

\* No ghost in the search index: once the index state is DELETED there is no
\* vector, although index requests are handled late, twice and by other
\* workers, and although the points are deleted in a statement of their own.
RetiredHasNoVector == index = "DELETED" => ~vector

\* The vectors of an asset are taken away only after the Drive file that its
\* row names was, whatever else is asked of it in the meantime and whoever
\* handles the events: otherwise nobody would know of the file any more.  Only
\* a file that the row was given behind the back of a deletion escapes it.
Handled == file # "live" \/ escaped
FileFirst == index \in Retired => Handled

\* What the saga does not survive; see the README.
Disturbed == \/ count.requests > 1
             \/ count.recommits > 0
             \/ count.overtakes > 0
             \/ count.faults >= MaxAttempts

\* A row of the deletion chain has an event that will move it on, unless the
\* deletion was asked for twice, the asset was committed again, a lease
\* lapsed under a worker or there were as many failures as attempts.
NoStuckRow ==
  Disturbed \/ /\ lifecycle \in {"DELETE_REQUESTED", "DRIVE_DELETE_PENDING"} =>
                    \E k \in DriveKeys : Owes(k)
               /\ lifecycle = "DRIVE_DELETED" => Owes("delete")

\* A deletion ends with the file and the vectors gone, though calls fail and
\* processes crash between any two steps.  It may end in INDEX_DELETED: a
\* crash after that stamp makes the handler skip the last one.
Deleted == lifecycle \in {"INDEX_DELETED", "DELETED"} /\ ~vector /\ file # "live"
DeletionEnds == lifecycle = "DELETE_REQUESTED" ~> Deleted \/ Disturbed

(***************************************************************************)
(* Statements of the source that the code contradicts                      *)
(***************************************************************************)
\* src/internal/kernel/asset/lifecycle_state.go:44-46: "The DriveDeleteHandler
\* pre-flight accepts {DELETE_REQUESTED, DRIVE_DELETE_PENDING} so a re-enqueue
\* on the same asset doesn't reset the chain."
ChainIsNotReset ==
  [][~(lifecycle \in {"DRIVE_DELETED", "INDEX_DELETED"} /\ lifecycle' = "DELETE_REQUESTED")]_vars

\* src/internal/platform/postgres/media/delete_saga.go:148-153: SoftDeleteAsset
\* "stamps lifecycle_state=DELETED and deleted_at with the same timestamp".
DeletedHasTombstone == lifecycle = "DELETED" => tombstone
=============================================================================
