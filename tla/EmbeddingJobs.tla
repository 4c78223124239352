--------------------------- MODULE EmbeddingJobs ---------------------------
(***************************************************************************)
(* Embedding: the chunks of one project, the points of the vector index    *)
(* (Qdrant, external), the embedding_backfill and qdrant_delete rows of    *)
(* ingestion_job, and the workers that run them.  A Git run of a worker    *)
(* replaces the chunks of one file in a transaction of two statements,     *)
(* which other workers' steps may come between.                            *)
(*                                                                         *)
(* Every SQL statement (or transaction, where its statements see one       *)
(* state) and every call to the index is one action.                       *)
(*                                                                         *)
(* Simplifications: every chunk belongs to an approved or needs_review     *)
(* item, so only its own columns decide whether it is claimed; status      *)
(* "stale", which no code writes after the migration and which is claimed  *)
(* like "failed", is left out; timestamps are reduced to what is compared  *)
(* with the clock (the flags aged, expired and due); the attempts of a     *)
(* job, which only set the length of its backoff, are left out; the calls  *)
(* to the embedding provider and to the index are one step, because no     *)
(* state is read or written between them.                                  *)
(***************************************************************************)
EXTENDS Naturals, FiniteSets

CONSTANTS
    Chunk,          \* chunk identifiers, each used for one row only
    FileChunk,      \* those generated from the Git file that is replaced
    Worker,         \* worker processes
    BatchSize,      \* QUERIA_EMBEDDING_BATCH_SIZE
    MaxAttempts,    \* the limit on embedding_attempts (5 in the code)
    DefaultProfile, \* is the column default of a new chunk the configured
                    \* embedding profile ("current") or another ("old")?
    Paced,          \* is a request interval configured?
    MaxJob,         \* bound: number of ingestion_job rows
    Faults          \* may workers crash, stall or lose a statement?

JobId == 1..MaxJob

ASSUME EmbeddingConstants ==
    /\ FileChunk \subseteq Chunk
    /\ IsFiniteSet(Chunk)
    /\ BatchSize \in Nat \ {0}
    /\ MaxAttempts \in Nat \ {0}
    /\ MaxJob \in Nat
    /\ DefaultProfile \in {"old", "current"}
    /\ Paced \in BOOLEAN
    /\ Faults \in BOOLEAN

VARIABLES
    chunk,      \* chunk[c]: the row of the chunk
    point,      \* point[c]: profile of the point with the chunk's id
    job,        \* job[j]: the j-th row of ingestion_job, in created_at order
    worker      \* worker[w]: where run_one is, and what it holds

vars == <<chunk, point, job, worker>>

Profile == {"old", "current"}
ChunkRow == [status : {"absent", "pending", "processing", "ready", "failed",
                       "deleted"},
             attempts : 0..MaxAttempts,
             profile : Profile,
             recorded : BOOLEAN,    \* qdrant_point_id is not null
             late : BOOLEAN,        \* history: it was recorded between the
                                    \* two statements of a retirement
             aged : BOOLEAN]        \* embedding_updated_at is past the lease

AbsentChunk == [status |-> "absent", attempts |-> 0,
                profile |-> DefaultProfile, recorded |-> FALSE, late |-> FALSE,
                aged |-> FALSE]

\* A chunk embedded before the configured profile was changed.
OldChunk == [AbsentChunk EXCEPT !.status = "ready", !.attempts = 1,
                                !.profile = "old", !.recorded = TRUE]

Active == {"queued", "running"}
Terminal == {"succeeded", "failed", "cancelled"}

Job == [kind : {"none", "backfill", "delete"},
        status : Active \cup Terminal \cup {"none"},
        expired : BOOLEAN,          \* locked_at is past the lease
        cancel : BOOLEAN,           \* cancel_requested_at is not null
        due : BOOLEAN,              \* retry_after_at <= now()
        points : SUBSET Chunk]      \* payload.point_ids

NoJob == [kind |-> "none", status |-> "none", expired |-> FALSE,
          cancel |-> FALSE, due |-> FALSE, points |-> {}]

NewJob(kind, points) ==
    [kind |-> kind, status |-> "queued", expired |-> FALSE,
     cancel |-> FALSE, due |-> TRUE, points |-> points]

\* The await points of run_one, and the Git run's retirement of a file.
Running == {"claimed", "checked", "batch", "upserted", "stored", "drained",
            "payload", "erased", "batchRetryable", "batchFatal",
            "release", "fail"}
WorkerState == [pc : Running \cup {"down", "idle", "retiring"},
                job : JobId \cup {0},
                hold : SUBSET Chunk]

Down == [pc |-> "down", job |-> 0, hold |-> {}]
Idle == [pc |-> "idle", job |-> 0, hold |-> {}]

TypeOK ==
    /\ chunk \in [Chunk -> ChunkRow]
    /\ point \in [Chunk -> Profile \cup {"none"}]
    /\ job \in [JobId -> Job]
    /\ worker \in [Worker -> WorkerState]

Init ==
    /\ chunk \in [Chunk -> {AbsentChunk, OldChunk}]
    /\ point = [c \in Chunk |->
                    IF chunk[c].status = "ready" THEN "old" ELSE "none"]
    /\ job = [j \in JobId |-> NoJob]
    /\ worker = [w \in Worker |-> Down]

Live(c) == chunk[c].status \notin {"absent", "deleted"}

\* Rows added by an indexing transaction.
WithNew(rows, new) ==
    [c \in Chunk |-> IF c \in new
                     THEN [rows[c] EXCEPT !.status = "pending"]
                     ELSE rows[c]]

---------------------------------------------------------------------------
(* The API.                                                                *)

\* The partial unique indexes: one active backfill per project, one active
\* qdrant_delete per source.  A retirement that inserted its row holds the
\* index entry until it commits.
NoActiveJob(kind) ==
    /\ \A j \in JobId : ~ (job[j].kind = kind /\ job[j].status \in Active)
    /\ kind = "delete" =>
        \A w \in Worker : ~ ( /\ worker[w].pc = "retiring"
                              /\ worker[w].job = 0
                              /\ worker[w].hold # {} )

FirstFree(j) ==
    /\ job[j].status = "none"
    /\ \A k \in 1..(j - 1) : job[k].status # "none"

\* The row lock of a retirement that appends to this job's payload.
Locked(j) == \E w \in Worker : worker[w].pc = "retiring" /\ worker[w].job = j

\* index-local or an approved proposal: a chunk that no Git file owns.
AddNote(c) ==
    /\ c \notin FileChunk
    /\ chunk[c].status = "absent"
    /\ chunk' = WithNew(chunk, {c})
    /\ UNCHANGED <<point, job, worker>>

\* With an active backfill the conflict clause returns that row unchanged.
EnqueueBackfill ==
    /\ NoActiveJob("backfill")
    /\ \E j \in JobId :
        /\ FirstFree(j)
        /\ job' = [job EXCEPT ![j] = NewJob("backfill", {})]
    /\ UNCHANGED <<chunk, point, worker>>

\* The new row copies the payload.  With an active row of the kind it inserts
\* nothing (delete) or fails on the index the clause does not name (backfill).
Retry(j) ==
    /\ job[j].status \in {"failed", "cancelled"}
    /\ NoActiveJob(job[j].kind)
    /\ \E k \in JobId :
        /\ FirstFree(k)
        /\ job' = [job EXCEPT ![k] = NewJob(job[j].kind, job[j].points)]
    /\ UNCHANGED <<chunk, point, worker>>

Cancel(j) ==
    /\ job[j].status \in Active
    /\ ~Locked(j)
    /\ job' = [job EXCEPT ![j] =
                [job[j] EXCEPT !.cancel = TRUE,
                    !.status = IF job[j].status = "queued" THEN "cancelled"
                                                         ELSE job[j].status]]
    /\ UNCHANGED <<chunk, point, worker>>

---------------------------------------------------------------------------
(* A Git run in apply_git_manifest: a new file, or the retirement of its   *)
(* old chunks, whose first statement queues the recorded points and whose  *)
(* second deletes the rows.                                                *)

LiveFile == {c \in FileChunk : Live(c)}

AddFile(w, new) ==
    /\ worker[w].pc = "idle"
    /\ LiveFile = {}
    /\ new # {}
    /\ \A c \in new : chunk[c].status = "absent"
    /\ chunk' = WithNew(chunk, new)
    /\ UNCHANGED <<point, job, worker>>

\* Mutant: the points of the chunks that are embedded, not of those that were.
ReadyOfFile == {c \in LiveFile : chunk[c].status = "ready"}

RecordedOfFile == {c \in LiveFile : chunk[c].recorded}

\* QUEUE_QDRANT_DELETE_SQL: the points recorded now; it locks the active
\* delete job of the source, if any, until the transaction commits.
QueueDelete(w) ==
    /\ worker[w].pc = "idle"
    /\ LiveFile # {}
    /\ \A v \in Worker : worker[v].pc # "retiring"
    /\ LET seen == RecordedOfFile IN
        \E j \in JobId \cup {0} :
            /\ IF seen = {} \/ NoActiveJob("delete")
               THEN j = 0
               ELSE /\ j # 0
                    /\ job[j].kind = "delete"
                    /\ job[j].status \in Active
            /\ worker' = [worker EXCEPT ![w] =
                            [pc |-> "retiring", job |-> j, hold |-> seen]]
    /\ UNCHANGED <<chunk, point, job>>

\* Mutant: the delete leaves the rows a worker is processing.
WithoutFileAtRest(rows) ==
    [c \in Chunk |-> IF c \in LiveFile /\ rows[c].status # "processing"
                     THEN [rows[c] EXCEPT !.status = "deleted"] ELSE rows[c]]

\* The rows of the file are deleted, whatever their status.
WithoutFile(rows) ==
    [c \in Chunk |-> IF c \in LiveFile
                     THEN [rows[c] EXCEPT !.status = "deleted"] ELSE rows[c]]

\* The payload of the active delete job grows, or a new job is inserted.
PayloadQueued(w) ==
    LET j == worker[w].job
        seen == worker[w].hold
    IN  IF seen = {} THEN job' = job
        ELSE IF j # 0
        THEN job' = [job EXCEPT ![j] = [job[j] EXCEPT !.points = job[j].points \cup seen]]
        ELSE \E k \in JobId :
                /\ FirstFree(k)
                /\ job' = [job EXCEPT ![k] = NewJob("delete", seen)]

\* The commit; new are the chunks of the file's new content.
RetireFile(w, new) ==
    /\ worker[w].pc = "retiring"
    /\ \A c \in new : chunk[c].status = "absent"
    /\ PayloadQueued(w)
    /\ chunk' = WithNew(WithoutFile(chunk), new)
    /\ worker' = [worker EXCEPT ![w] = Idle]
    /\ UNCHANGED point

---------------------------------------------------------------------------
(* The worker: claim, then run_backfill or run_delete, then settle the job *)
(* row.  With Faults a statement that took effect may still report an      *)
(* error, whose text decides whether the job is released or failed.        *)

Goto(w, pc, hold) ==
    \E next \in {pc} \cup IF Faults THEN {"release", "fail"} ELSE {} :
        worker' = [worker EXCEPT ![w] =
                    [@ EXCEPT !.pc = next,
                              !.hold = IF next = pc THEN hold ELSE {}]]

Claimable(j) == job[j].status = "queued" /\ job[j].due /\ ~Locked(j)

\* claim_next: the oldest due row no one has locked.
Claim(w) ==
    /\ worker[w].pc = "idle"
    /\ \E j \in JobId :
        /\ Claimable(j)
        /\ \A k \in 1..(j - 1) : ~Claimable(k)
        /\ job' = [job EXCEPT ![j] =
                    [@ EXCEPT !.status = "running", !.expired = FALSE]]
        /\ worker' = [worker EXCEPT ![w] =
                        [pc |-> "claimed", job |-> j, hold |-> {}]]
    /\ UNCHANGED <<chunk, point>>

\* A cancellation is a validation error, which is not retryable.
CheckCancel(w) ==
    /\ worker[w].pc = "claimed"
    /\ Goto(w, IF job[worker[w].job].cancel THEN "fail" ELSE "checked", {})
    /\ UNCHANGED <<chunk, point, job>>

\* The where clause of CLAIM_CHUNKS_SQL for the chunk itself.
Unembedded(c) ==
    /\ Live(c)
    /\ chunk[c].status \in {"pending", "failed"} \/ chunk[c].profile # "current"

Candidates == {c \in Chunk : Unembedded(c) /\ chunk[c].attempts < MaxAttempts}

\* Mutant: a claim is not counted as an attempt.
ClaimedUncounted(rows, batch) ==
    [c \in Chunk |-> IF c \in batch
                     THEN [rows[c] EXCEPT !.status = "processing",
                                          !.aged = FALSE]
                     ELSE rows[c]]

Claimed(rows, batch) ==
    [c \in Chunk |-> IF c \in batch
                     THEN [rows[c] EXCEPT !.status = "processing",
                                          !.attempts = @ + 1, !.aged = FALSE]
                     ELSE rows[c]]

\* Any batch of the size asked for (the order by age is left out).
Batches(cands) ==
    {b \in SUBSET cands :
        Cardinality(b) = IF Cardinality(cands) < BatchSize
                         THEN Cardinality(cands) ELSE BatchSize}

\* claim_chunk_batch: no candidate, or a job that is not running, ends the run.
ClaimBatch(w) ==
    /\ worker[w].pc = "checked"
    /\ job[worker[w].job].kind = "backfill"
    /\ \E batch \in Batches(IF job[worker[w].job].status = "running"
                            THEN Candidates ELSE {}) :
        /\ chunk' = Claimed(chunk, batch)
        /\ Goto(w, IF batch = {} THEN "drained" ELSE "batch", batch)
    /\ UNCHANGED <<point, job>>

\* A write to the index of which landed took effect.
Pointed(points, landed) ==
    [c \in Chunk |-> IF c \in landed THEN "current" ELSE points[c]]

\* Mutant: the outcome of the upsert is not looked at.
UpsertUnconfirmed(w) ==
    /\ worker[w].pc = "batch"
    /\ \E landed \in SUBSET worker[w].hold :
        /\ point' = Pointed(point, landed)
        /\ worker' = [worker EXCEPT ![w] = [@ EXCEPT !.pc = "upserted"]]
    /\ UNCHANGED <<chunk, job>>

\* Embed the batch and upsert its points.  A failure of the provider or of
\* the index fails the batch; the index may have applied any part of it.
Upsert(w) ==
    /\ worker[w].pc = "batch"
    /\ \E landed \in SUBSET worker[w].hold,
          next \in {"upserted", "batchRetryable", "batchFatal"} :
        /\ next = "upserted" => landed = worker[w].hold
        /\ point' = Pointed(point, landed)
        /\ worker' = [worker EXCEPT ![w] = [@ EXCEPT !.pc = next]]
    /\ UNCHANGED <<chunk, job>>

\* Mutant: whatever became of the chunks since they were claimed.
FailedAnyStatus(rows, batch, retryable) ==
    [c \in Chunk |-> IF c \in batch /\ rows[c].status # "deleted"
                     THEN [rows[c] EXCEPT !.status = "failed", !.aged = FALSE,
                            !.attempts = IF retryable THEN @ ELSE MaxAttempts]
                     ELSE rows[c]]

\* mark_batch_failed: only chunks still processing; no attempt is left after
\* an error that is not retryable.
Failed(rows, batch, retryable) ==
    [c \in Chunk |-> IF c \in batch /\ rows[c].status = "processing"
                     THEN [rows[c] EXCEPT !.status = "failed", !.aged = FALSE,
                            !.attempts = IF retryable THEN @ ELSE MaxAttempts]
                     ELSE rows[c]]

FailBatch(w) ==
    /\ worker[w].pc \in {"batchRetryable", "batchFatal"}
    /\ LET retryable == worker[w].pc = "batchRetryable" IN
        /\ chunk' = Failed(chunk, worker[w].hold, retryable)
        /\ Goto(w, IF retryable THEN "release" ELSE "fail", {})
    /\ UNCHANGED <<point, job>>

Retiring == \E w \in Worker : worker[w].pc = "retiring"

Ready(rows, batch) ==
    [c \in Chunk |-> IF c \in batch
                     THEN [rows[c] EXCEPT !.status = "ready", !.aged = FALSE,
                            !.profile = "current", !.recorded = TRUE,
                            !.late = @ \/ (Retiring /\ ~rows[c].recorded)]
                     ELSE rows[c]]

\* mark_batch_ready: one chunk that is no longer processing rolls back all;
\* the error names its uuid, so the text test for "429" may go either way.
MarkReady(w) ==
    /\ worker[w].pc = "upserted"
    /\ IF \A c \in worker[w].hold : chunk[c].status = "processing"
       THEN /\ chunk' = Ready(chunk, worker[w].hold)
            /\ Goto(w, IF Paced THEN "stored" ELSE "claimed", {})
       ELSE /\ \E next \in {"release", "fail"} : Goto(w, next, {})
            /\ UNCHANGED chunk
    /\ UNCHANGED <<point, job>>

\* run_delete: the payload of a job that is still running.
ReadPayload(w) ==
    /\ worker[w].pc = "checked"
    /\ job[worker[w].job].kind = "delete"
    /\ IF job[worker[w].job].status = "running"
       THEN Goto(w, "payload", job[worker[w].job].points)
       ELSE Goto(w, "fail", {})
    /\ UNCHANGED <<chunk, point, job>>

Erase(w) ==
    /\ worker[w].pc = "payload"
    /\ \E landed \in SUBSET worker[w].hold,
          next \in {"erased", "release", "fail"} :
        /\ next = "erased" => landed = worker[w].hold
        /\ point' = [c \in Chunk |-> IF c \in landed THEN "none" ELSE point[c]]
        /\ worker' = [worker EXCEPT ![w] =
                        [@ EXCEPT !.pc = next, !.hold = {}]]
    /\ UNCHANGED <<chunk, job>>

---------------------------------------------------------------------------
(* How a worker settles the row of its job.  Every update asks for a       *)
(* running row and its result is ignored; then the worker is idle.         *)

Settle(w, row) ==
    LET j == worker[w].job IN
    /\ ~Locked(j)
    /\ job' = [job EXCEPT ![j] = IF @.status = "running" THEN row ELSE @]
    /\ UNCHANGED <<chunk, point>>

Done(w) == worker' = [worker EXCEPT ![w] = Idle]

\* pause_job_for_request_interval: it does not look at cancel_requested_at.
Pause(w) ==
    /\ worker[w].pc = "stored"
    /\ Settle(w, [job[worker[w].job] EXCEPT !.status = "queued",
                                            !.due = FALSE, !.expired = FALSE])
    /\ \/ Done(w)
       \/ Faults /\ Goto(w, "fail", {})

\* Mutant: complete_job without its condition on cancel_requested_at.
CompletedAnyway(row) == [row EXCEPT !.status = "succeeded", !.expired = FALSE]

Completed(row) ==
    IF row.cancel THEN row
    ELSE [row EXCEPT !.status = "succeeded", !.expired = FALSE]

\* complete_job.
Complete(w) ==
    /\ worker[w].pc \in {"drained", "erased"}
    /\ Settle(w, Completed(job[worker[w].job]))
    /\ \/ Done(w)
       \/ Faults /\ Goto(w, "fail", {})

\* Mutant: release_job_for_retry without its conditions.
ReleaseAnyStatus(w) ==
    LET j == worker[w].job IN
    /\ worker[w].pc = "release"
    /\ ~Locked(j)
    /\ job' = [job EXCEPT ![j] = [@ EXCEPT !.status = "queued", !.due = FALSE,
                                           !.expired = FALSE]]
    /\ Done(w)
    /\ UNCHANGED <<chunk, point>>

\* release_job_for_retry.
Release(w) ==
    /\ worker[w].pc = "release"
    /\ Settle(w, LET row == job[worker[w].job] IN
                 IF row.cancel THEN row
                 ELSE [row EXCEPT !.status = "queued", !.due = FALSE,
                                  !.expired = FALSE])
    /\ Done(w)

\* fail_job.
Fail(w) ==
    /\ worker[w].pc = "fail"
    /\ Settle(w, [job[worker[w].job] EXCEPT
                    !.expired = FALSE,
                    !.status = IF job[worker[w].job].cancel
                               THEN "cancelled" ELSE "failed"])
    /\ Done(w)

\* A statement that had no effect and reports an error: inside a run it is
\* the run's error, while settling it ends the iteration.
StatementError(w) ==
    /\ Faults
    /\ \/ /\ worker[w].pc \in Running \ {"batch", "payload", "release", "fail"}
          /\ \E next \in {"release", "fail"} :
                worker' = [worker EXCEPT ![w] =
                            [@ EXCEPT !.pc = next, !.hold = {}]]
       \/ /\ worker[w].pc \in {"release", "fail", "retiring"}
          /\ Done(w)
    /\ UNCHANGED <<chunk, point, job>>

---------------------------------------------------------------------------
(* Time, crashes and the recovery at startup.                              *)

RetryDue(j) ==
    /\ job[j].status = "queued" /\ ~job[j].due
    /\ job' = [job EXCEPT ![j] = [@ EXCEPT !.due = TRUE]]
    /\ UNCHANGED <<chunk, point, worker>>

LeaseExpires(j) ==
    /\ Faults
    /\ job[j].status = "running" /\ ~job[j].expired
    /\ job' = [job EXCEPT ![j] = [@ EXCEPT !.expired = TRUE]]
    /\ UNCHANGED <<chunk, point, worker>>

ChunkAges(c) ==
    /\ Faults
    /\ chunk[c].status = "processing" /\ ~chunk[c].aged
    /\ chunk' = [chunk EXCEPT ![c] = [@ EXCEPT !.aged = TRUE]]
    /\ UNCHANGED <<point, job, worker>>

Crash(w) ==
    /\ Faults
    /\ worker[w].pc # "down"
    /\ worker' = [worker EXCEPT ![w] = Down]
    /\ UNCHANGED <<chunk, point, job>>

\* RECOVER_CHUNKS_SQL and RECOVER_JOBS_SQL, in one transaction.
Restart(w) ==
    /\ worker[w].pc = "down"
    /\ \A j \in JobId : job[j].expired => ~Locked(j)
    /\ chunk' = [c \in Chunk |->
                    IF chunk[c].status = "processing" /\ chunk[c].aged
                    THEN [chunk[c] EXCEPT !.status = "failed", !.aged = FALSE]
                    ELSE chunk[c]]
    /\ job' = [j \in JobId |->
                IF job[j].status = "running" /\ job[j].expired
                THEN [job[j] EXCEPT !.status = "queued", !.expired = FALSE]
                ELSE job[j]]
    /\ worker' = [worker EXCEPT ![w] = Idle]
    /\ UNCHANGED point

---------------------------------------------------------------------------
WorkerStep(w) ==
    \/ Claim(w) \/ CheckCancel(w) \/ ClaimBatch(w) \/ Upsert(w)
    \/ FailBatch(w) \/ MarkReady(w) \/ ReadPayload(w) \/ Erase(w)
    \/ Pause(w) \/ Complete(w) \/ Release(w) \/ Fail(w)

Next ==
    \/ \E c \in Chunk : AddNote(c) \/ ChunkAges(c)
    \/ EnqueueBackfill
    \/ \E j \in JobId : Retry(j) \/ Cancel(j) \/ RetryDue(j) \/ LeaseExpires(j)
    \/ \E w \in Worker :
        \/ WorkerStep(w) \/ StatementError(w) \/ Crash(w) \/ Restart(w)
        \/ QueueDelete(w)
        \/ \E new \in SUBSET FileChunk : AddFile(w, new) \/ RetireFile(w, new)

Spec == Init /\ [][Next]_vars

\* A running worker takes its next step, a stopped one is started again, and
\* the clock reaches retry_after_at.
FairSpec ==
    /\ Spec
    /\ \A w \in Worker :
        /\ WF_vars(WorkerStep(w))
        /\ WF_vars(\E new \in SUBSET FileChunk : RetireFile(w, new))
        /\ WF_vars(Restart(w))
    /\ \A j \in JobId : WF_vars(RetryDue(j))

---------------------------------------------------------------------------
(* Properties.                                                             *)

\* A chunk that is ready has a point in the index, of the profile its row
\* names: whichever worker marked it, whatever failed, was recovered or was
\* retired in between (embedding_jobs.rs upserts before mark_batch_ready).
ReadyHasPoint ==
    \A c \in Chunk : chunk[c].status = "ready" =>
        /\ point[c] = chunk[c].profile
        /\ chunk[c].recorded

\* Deleting points never takes the vector of a chunk that still exists: the
\* payload of every qdrant_delete row, and what a worker has read of one, are
\* points of deleted chunks (retire_generated_knowledge queues and deletes in
\* one transaction; Retry and a late worker only repeat it).
DeletesOnlyRetired ==
    /\ \A j \in JobId : \A c \in job[j].points : chunk[c].status = "deleted"
    /\ \A w \in Worker : worker[w].pc = "payload" =>
        \A c \in worker[w].hold : chunk[c].status = "deleted"

\* Two backfills of the project, or two qdrant_delete jobs of the source, are
\* never active together, although retry, pause, release and recovery all make
\* rows active again (the partial unique indexes would refuse them).
OneActiveJob ==
    \A j, k \in JobId :
        /\ job[j].status \in Active
        /\ job[k].status \in Active
        /\ job[j].kind = job[k].kind
        => j = k

\* What a worker holds between claiming a batch and marking it: a chunk of the
\* batch that is ready was marked by another worker, for the same profile; and
\* after the upsert each chunk that is not deleted has a current point.
BatchesAreAccountedFor ==
    \A w \in Worker : \A c \in worker[w].hold :
        /\ worker[w].pc = "batch" /\ chunk[c].status = "ready" =>
                chunk[c].profile = "current"
        /\ worker[w].pc = "upserted" /\ chunk[c].status # "deleted" =>
                point[c] = "current"

\* One retirement at a time; its chunks stay there until it commits, and if it
\* is to insert a delete job none becomes active before.
RetirementsHoldRows ==
    \A w \in Worker : worker[w].pc = "retiring" =>
        /\ worker[w].hold \subseteq LiveFile
        /\ \A v \in Worker : worker[v].pc = "retiring" => v = w
        /\ worker[w].job # 0 => job[worker[w].job].status \in Active
        /\ worker[w].job = 0 /\ worker[w].hold # {} =>
            \A j \in JobId : ~ (job[j].kind = "delete" /\ job[j].status \in Active)

WorkersHoldJobs ==
    \A w \in Worker : worker[w].pc \in Running => worker[w].job \in JobId

NamedRows ==
    \A j \in JobId : job[j].kind = "none" => job[j].status = "none"

CancelledRows ==
    \A j \in JobId : job[j].cancel => job[j].status \in Active \cup {"cancelled"}

\* The invariants together are inductive.
Inductive ==
    /\ TypeOK
    /\ WorkersHoldJobs
    /\ NamedRows
    /\ CancelledRows
    /\ OneActiveJob
    /\ RetirementsHoldRows
    /\ DeletesOnlyRetired
    /\ BatchesAreAccountedFor
    /\ ReadyHasPoint

\* A chunk that is ready for the configured profile stays ready, and keeps its
\* point, until its file is retired: no late worker, failed batch, recovery
\* or queued deletion takes it back.
ReadyIsKept ==
    [][\A c \in Chunk :
        chunk[c].status = "ready" /\ chunk[c].profile = "current" =>
            \/ chunk'[c] = chunk[c] /\ point'[c] = point[c]
            \/ chunk'[c].status = "deleted"]_vars

\* A finished row is final, and a cancel request is not lost: the row it is on
\* never ends as succeeded and never as failed, however late a worker reports.
JobsEndOnce ==
    [][\A j \in JobId :
        /\ job[j].status \in Terminal => job'[j] = job[j]
        /\ job[j].cancel => /\ job'[j].cancel
                            /\ job'[j].status \in Active \cup {"cancelled"}]_vars

\* The recorded point of a deleted chunk is in the payload of a qdrant_delete
\* row as long as it exists, unless it was recorded while a retirement was
\* between the statement that queues the recorded points and the one that
\* deletes the chunks (ingestion.rs:719 and :724; mark_batch_ready commits in
\* between): nothing else, crash, retry or later retirement, loses a point.
RecordedPointsAreQueued ==
    \A c \in Chunk :
        chunk[c].status = "deleted" /\ chunk[c].recorded /\ ~chunk[c].late =>
            \E j \in JobId : job[j].kind = "delete" /\ c \in job[j].points

\* Without crashes a queued backfill comes to an end, however often the provider
\* or the index fails, because every release or pause costs some chunk one of
\* its attempts; or its worker dropped it after a cancel request, which
\* complete_job and release_job_for_retry then refuse to answer.
BackfillEnds ==
    \A j \in JobId :
        job[j].kind = "backfill" /\ job[j].status = "queued"
            ~> \/ job[j].status \in Terminal
               \/ job[j].cancel /\ \A w \in Worker : worker[w].job # j

=============================================================================
