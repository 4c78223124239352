-------------------------- MODULE EmbeddingProofs --------------------------
(***************************************************************************)
(* Proofs about EmbeddingJobs, for any number of chunks, jobs and workers. *)
(* One lemma per variable says what a step may do to each of its entries;  *)
(* the inductive invariant and the action properties follow from the       *)
(* lemmas without looking at the actions again.                            *)
(***************************************************************************)
EXTENDS EmbeddingJobs, TLAPS

---------------------------------------------------------------------------
(* What a step may do to a chunk.                                          *)

\* A deleted row stays as it is; a row becomes ready only for the configured
\* profile and over a current point; a ready row of that profile only goes;
\* while a retirement lasts, no live row goes.
ChunkStep ==
    /\ chunk' \in [Chunk -> ChunkRow]
    /\ \/ LiveFile \subseteq LiveFile'
       \/ \A w \in Worker : worker'[w].pc # "retiring"
    /\ \A c \in Chunk :
        /\ chunk[c].status = "deleted" => chunk'[c] = chunk[c]
        /\ chunk'[c].status = "ready" =>
            \/ chunk'[c] = chunk[c]
            \/ /\ chunk'[c].profile = "current"
               /\ chunk'[c].recorded
               /\ point[c] = "current"
        /\ chunk[c].status = "ready" /\ chunk[c].profile = "current" =>
            chunk'[c] = chunk[c] \/ chunk'[c].status = "deleted"

\* WithNew only turns absent rows into pending ones.
LEMMA NewRows ==
    ASSUME NEW rows \in [Chunk -> ChunkRow], NEW new \in SUBSET Chunk
    PROVE  /\ WithNew(rows, new) \in [Chunk -> ChunkRow]
           /\ \A c \in Chunk :
                /\ c \notin new => WithNew(rows, new)[c] = rows[c]
                /\ c \in new => /\ WithNew(rows, new)[c].status = "pending"
                                /\ WithNew(rows, new)[c].profile = rows[c].profile
<1>1. ASSUME NEW c \in Chunk
      PROVE  [rows[c] EXCEPT !.status = "pending"] \in ChunkRow
  BY DEF ChunkRow
<1>. QED
  BY <1>1 DEF WithNew, ChunkRow

\* The retirement of the file deletes live rows and leaves the others.
LEMMA RetiredRows ==
    ASSUME NEW rows \in [Chunk -> ChunkRow]
    PROVE  /\ WithoutFile(rows) \in [Chunk -> ChunkRow]
           /\ \A c \in Chunk :
                /\ c \in LiveFile =>
                    /\ WithoutFile(rows)[c].status = "deleted"
                    /\ WithoutFile(rows)[c].recorded = rows[c].recorded
                    /\ WithoutFile(rows)[c].late = rows[c].late
                /\ c \notin LiveFile => WithoutFile(rows)[c] = rows[c]
<1>1. ASSUME NEW c \in Chunk
      PROVE  /\ [rows[c] EXCEPT !.status = "deleted"] \in ChunkRow
             /\ [rows[c] EXCEPT !.status = "deleted"].recorded = rows[c].recorded
             /\ [rows[c] EXCEPT !.status = "deleted"].late = rows[c].late
  BY DEF ChunkRow
<1>. QED
  BY <1>1 DEF WithoutFile, ChunkRow

\* A claim takes rows that are not ready for the configured profile.
LEMMA ClaimedRows ==
    ASSUME TypeOK, NEW batch \in SUBSET Candidates
    PROVE  /\ Claimed(chunk, batch) \in [Chunk -> ChunkRow]
           /\ \A c \in Chunk :
                /\ c \notin batch => Claimed(chunk, batch)[c] = chunk[c]
                /\ c \in batch => Claimed(chunk, batch)[c].status = "processing"
<1>1. ASSUME NEW c \in batch
      PROVE  /\ [chunk[c] EXCEPT !.status = "processing",
                                 !.attempts = @ + 1, !.aged = FALSE] \in ChunkRow
             /\ c \in Chunk
  <2>1. c \in Chunk /\ chunk[c] \in ChunkRow /\ chunk[c].attempts < MaxAttempts
    BY DEF Candidates, TypeOK
  <2>2. chunk[c].attempts + 1 \in 0..MaxAttempts
    BY <2>1, EmbeddingConstants DEF ChunkRow
  <2>. QED
    BY <2>1, <2>2 DEF ChunkRow
<1>. QED
  BY <1>1 DEF Claimed, TypeOK, Candidates, ChunkRow

\* A failed batch changes rows that are still processing.
LEMMA FailedRows ==
    ASSUME TypeOK, NEW batch \in SUBSET Chunk, NEW retryable \in BOOLEAN
    PROVE  /\ Failed(chunk, batch, retryable) \in [Chunk -> ChunkRow]
           /\ \A c \in Chunk :
                \/ Failed(chunk, batch, retryable)[c] = chunk[c]
                \/ /\ chunk[c].status = "processing"
                   /\ Failed(chunk, batch, retryable)[c].status = "failed"
<1>1. ASSUME NEW c \in Chunk
      PROVE  [chunk[c] EXCEPT !.status = "failed", !.aged = FALSE,
                !.attempts = IF retryable THEN @ ELSE MaxAttempts] \in ChunkRow
  <2>1. MaxAttempts \in 0..MaxAttempts
    BY EmbeddingConstants
  <2>2. chunk[c] \in ChunkRow
    BY DEF TypeOK
  <2>3. (IF retryable THEN chunk[c].attempts ELSE MaxAttempts) \in 0..MaxAttempts
    BY <2>1, <2>2 DEF ChunkRow
  <2>. QED
    BY <2>2, <2>3 DEF ChunkRow
<1>. QED
  BY <1>1 DEF Failed, TypeOK, ChunkRow

\* A marked batch is ready for the configured profile.
LEMMA ReadyRows ==
    ASSUME TypeOK, NEW batch \in SUBSET Chunk
    PROVE  /\ Ready(chunk, batch) \in [Chunk -> ChunkRow]
           /\ \A c \in Chunk :
                /\ c \notin batch => Ready(chunk, batch)[c] = chunk[c]
                /\ c \in batch => /\ Ready(chunk, batch)[c].status = "ready"
                                  /\ Ready(chunk, batch)[c].profile = "current"
                                  /\ Ready(chunk, batch)[c].recorded
<1>1. ASSUME NEW c \in Chunk
      PROVE  [chunk[c] EXCEPT !.status = "ready", !.aged = FALSE,
                !.profile = "current", !.recorded = TRUE] \in ChunkRow
  BY DEF TypeOK, ChunkRow, Profile
<1>. QED
  BY <1>1 DEF Ready, TypeOK, ChunkRow

LEMMA ChunkSteps ==
    ASSUME Inductive, [Next]_vars
    PROVE  ChunkStep
<1>. USE DEF Inductive
<1>1. ASSUME UNCHANGED chunk PROVE ChunkStep
  BY <1>1 DEF ChunkStep, TypeOK, LiveFile, Live
<1>2. ASSUME NEW new \in SUBSET Chunk, chunk' = WithNew(chunk, new),
             \A c \in new : chunk[c].status = "absent"
      PROVE  ChunkStep
  BY <1>2, NewRows, EmbeddingConstants DEF ChunkStep, TypeOK, LiveFile, Live
<1>3. ASSUME NEW w \in Worker, NEW new \in SUBSET FileChunk, RetireFile(w, new)
      PROVE  ChunkStep
  <2>. DEFINE rest == WithoutFile(chunk)
  <2>1. new \in SUBSET Chunk /\ \A c \in new : chunk[c].status = "absent"
    BY <1>3, EmbeddingConstants DEF RetireFile
  <2>2. /\ rest \in [Chunk -> ChunkRow]
        /\ \A c \in Chunk : /\ c \in LiveFile => rest[c].status = "deleted"
                            /\ c \notin LiveFile => rest[c] = chunk[c]
    BY RetiredRows DEF TypeOK
  <2>3. \A c \in LiveFile : chunk[c].status \notin {"absent", "deleted"}
    BY DEF LiveFile, Live
  <2>4. chunk' = WithNew(rest, new)
    BY <1>3 DEF RetireFile
  <2>5. \A v \in Worker : worker'[v].pc # "retiring"
    BY <1>3 DEF RetireFile, RetirementsHoldRows, TypeOK, Idle
  <2>. HIDE DEF rest
  <2>. QED
    BY <2>1, <2>2, <2>3, <2>4, <2>5, NewRows DEF ChunkStep
<1>4. ASSUME NEW w \in Worker, ClaimBatch(w) PROVE ChunkStep
  <2>1. PICK batch \in SUBSET Candidates : chunk' = Claimed(chunk, batch)
    BY <1>4 DEF ClaimBatch, Batches
  <2>2. \A c \in batch : ~ (chunk[c].status = "ready" /\ chunk[c].profile = "current")
    BY DEF Candidates, Unembedded
  <2>3. \A c \in batch : chunk[c].status # "deleted"
    BY DEF Candidates, Unembedded, Live
  <2>. QED
    BY <2>1, <2>2, <2>3, ClaimedRows, EmbeddingConstants DEF ChunkStep, LiveFile, Live
<1>5. ASSUME NEW w \in Worker, FailBatch(w) PROVE ChunkStep
  <2>1. worker[w].hold \in SUBSET Chunk
    BY DEF TypeOK, WorkerState
  <2>. QED
    BY <1>5, <2>1, FailedRows, EmbeddingConstants
    DEF FailBatch, ChunkStep, LiveFile, Live
<1>6. ASSUME NEW w \in Worker, MarkReady(w) PROVE ChunkStep
  <2>1. worker[w].hold \in SUBSET Chunk
    BY DEF TypeOK, WorkerState
  <2>2. CASE \A c \in worker[w].hold : chunk[c].status = "processing"
    <3>1. \A c \in worker[w].hold : point[c] = "current"
      BY <1>6, <2>2 DEF MarkReady, BatchesAreAccountedFor
    <3>2. chunk' = Ready(chunk, worker[w].hold)
      BY <1>6, <2>2 DEF MarkReady
    <3>. QED
      BY <2>1, <2>2, <3>1, <3>2, ReadyRows, EmbeddingConstants DEF ChunkStep, LiveFile, Live
  <2>3. CASE ~ \A c \in worker[w].hold : chunk[c].status = "processing"
    BY <1>1, <1>6, <2>3 DEF MarkReady
  <2>. QED
    BY <2>2, <2>3
<1>7. ASSUME NEW c \in Chunk, ChunkAges(c) PROVE ChunkStep
  <2>. DEFINE row == [chunk[c] EXCEPT !.aged = TRUE]
  <2>1. row \in ChunkRow /\ row.status = "processing"
    BY <1>7 DEF ChunkAges, TypeOK, ChunkRow
  <2>2. chunk' = [chunk EXCEPT ![c] = row] /\ chunk[c].status = "processing"
    BY <1>7 DEF ChunkAges
  <2>. HIDE DEF row
  <2>. QED
    BY <2>1, <2>2, EmbeddingConstants DEF ChunkStep, TypeOK, LiveFile, Live
<1>8. ASSUME NEW w \in Worker, Restart(w) PROVE ChunkStep
  <2>1. ASSUME NEW c \in Chunk
        PROVE  /\ chunk'[c] \in ChunkRow
               /\ \/ chunk'[c] = chunk[c]
                  \/ chunk[c].status = "processing" /\ chunk'[c].status = "failed"
    <3>. DEFINE row == [chunk[c] EXCEPT !.status = "failed", !.aged = FALSE]
    <3>1. chunk[c] \in ChunkRow /\ row \in ChunkRow /\ row.status = "failed"
      BY DEF TypeOK, ChunkRow
    <3>2. chunk'[c] = IF chunk[c].status = "processing" /\ chunk[c].aged
                      THEN row ELSE chunk[c]
      BY <1>8 DEF Restart
    <3>. HIDE DEF row
    <3>. QED
      BY <3>1, <3>2
  <2>2. chunk' \in [Chunk -> ChunkRow]
    BY <1>8, <2>1 DEF Restart
  <2>. QED
    BY <2>1, <2>2, EmbeddingConstants DEF ChunkStep, LiveFile, Live
<1>9. ASSUME NEW c \in Chunk, AddNote(c) PROVE ChunkStep
  BY <1>2, <1>9 DEF AddNote
<1>10. ASSUME NEW w \in Worker, NEW new \in SUBSET FileChunk, AddFile(w, new)
       PROVE  ChunkStep
  BY <1>2, <1>10, EmbeddingConstants DEF AddFile
<1>. QED
  BY <1>1, <1>3, <1>4, <1>5, <1>6, <1>7, <1>8, <1>9, <1>10
  DEF Next, vars, WorkerStep, EnqueueBackfill, Retry, Cancel, RetryDue,
      LeaseExpires, Claim, CheckCancel, Upsert, ReadPayload, Erase, Pause,
      Complete, Release, Fail, Settle, StatementError, Crash, QueueDelete

---------------------------------------------------------------------------
(* What a step may do to a point of the index.                             *)

\* A step writes points or rows of chunks, not both.  It writes a point of the
\* configured profile, never under a ready row of another, or removes the
\* point of a deleted chunk.
PointStep ==
    /\ point' \in [Chunk -> Profile \cup {"none"}]
    /\ point' = point \/ chunk' = chunk
    /\ \A c \in Chunk :
        \/ point'[c] = point[c]
        \/ /\ point'[c] = "current"
           /\ chunk[c].status = "ready" => chunk[c].profile = "current"
        \/ chunk[c].status = "deleted"

LEMMA PointSteps ==
    ASSUME Inductive, [Next]_vars
    PROVE  PointStep
<1>. USE DEF Inductive
<1>1. ASSUME UNCHANGED point PROVE PointStep
  BY <1>1 DEF PointStep, TypeOK
<1>2. ASSUME NEW w \in Worker, Upsert(w) PROVE PointStep
  <2>1. PICK landed \in SUBSET worker[w].hold : point' = Pointed(point, landed)
    BY <1>2 DEF Upsert
  <2>2. worker[w].hold \in SUBSET Chunk
    BY DEF TypeOK, WorkerState
  <2>3. \A c \in landed : chunk[c].status = "ready" => chunk[c].profile = "current"
    BY <1>2, <2>1 DEF Upsert, BatchesAreAccountedFor
  <2>. QED
    BY <1>2, <2>1, <2>2, <2>3 DEF Upsert, Pointed, PointStep, TypeOK, Profile
<1>3. ASSUME NEW w \in Worker, Erase(w) PROVE PointStep
  <2>1. PICK landed \in SUBSET worker[w].hold :
            point' = [c \in Chunk |-> IF c \in landed THEN "none" ELSE point[c]]
    BY <1>3 DEF Erase
  <2>2. \A c \in landed : chunk[c].status = "deleted"
    BY <1>3, <2>1 DEF Erase, DeletesOnlyRetired
  <2>. QED
    BY <1>3, <2>1, <2>2 DEF Erase, PointStep, TypeOK
<1>. QED
  BY <1>1, <1>2, <1>3
  DEF Next, vars, WorkerStep, AddNote, ChunkAges, EnqueueBackfill, Retry,
      Cancel, RetryDue, LeaseExpires, Claim, CheckCancel, ClaimBatch,
      FailBatch, MarkReady, ReadPayload, Pause, Complete, Release, Fail,
      Settle, StatementError, Crash, Restart, QueueDelete, AddFile, RetireFile

---------------------------------------------------------------------------
(* What a step may do to the row of a job.                                 *)

\* An update of one row: a finished row is left alone, no row becomes active
\* again, a cancel request stays and does not end in success or failure.
Update(old, new) ==
    /\ new \in Job
    /\ new.kind = old.kind
    /\ new.points = old.points
    /\ old.status \in Terminal \cup {"none"} => new = old
    /\ new.status = "none" => old.status = "none"
    /\ new.status \in Active => old.status \in Active
    /\ old.cancel => new.cancel
    /\ new.cancel => new.status \in Active \cup {"cancelled"}

\* A new active row is the only one of its kind, and no retirement is about to
\* insert another; a payload grows, and by deleted chunks only.
JobStep ==
    /\ job' \in [JobId -> Job]
    /\ \A j \in JobId :
        /\ job[j].status \in Terminal => job'[j] = job[j]
        /\ job'[j].kind = "none" => job'[j].status = "none"
        /\ job'[j].status = "none" => job'[j] = job[j]
        /\ job[j].status # "none" => /\ job'[j].kind = job[j].kind
                                     /\ job[j].points \subseteq job'[j].points
        /\ job[j].status \in Active /\ Locked(j) => job'[j].status \in Active
        /\ job[j].cancel => job'[j].cancel
        /\ job'[j].cancel => job'[j].status \in Active \cup {"cancelled"}
        /\ job'[j].status \in Active =>
            \/ job[j].status \in Active /\ job'[j].kind = job[j].kind
            \/ /\ \A k \in JobId : k # j =>
                    /\ job'[k] = job[k]
                    /\ ~ (job[k].kind = job'[j].kind /\ job[k].status \in Active)
               /\ job'[j].kind = "delete" =>
                    \A w \in Worker : worker'[w].pc = "retiring" =>
                        worker'[w].job # 0 \/ worker'[w].hold = {}
        /\ \A c \in job'[j].points :
            c \in job[j].points \/ chunk'[c].status = "deleted"

LEMMA OneUpdate ==
    ASSUME TypeOK, CancelledRows, NamedRows,
           NEW j \in JobId, NEW row, Update(job[j], row),
           Locked(j) /\ job[j].status \in Active => row.status \in Active,
           job' = [job EXCEPT ![j] = row]
    PROVE  JobStep
BY DEF TypeOK, CancelledRows, NamedRows, Update, JobStep

LEMMA OneInsert ==
    ASSUME TypeOK, CancelledRows, NamedRows, DeletesOnlyRetired, ChunkStep,
           NEW j \in JobId, NEW kind \in {"backfill", "delete"},
           NEW points \in SUBSET Chunk, FirstFree(j),
           \A k \in JobId : ~ (job[k].kind = kind /\ job[k].status \in Active),
           kind = "delete" =>
                \A w \in Worker : worker'[w].pc = "retiring" =>
                    worker'[w].job # 0 \/ worker'[w].hold = {},
           \A c \in points : chunk'[c].status = "deleted",
           job' = [job EXCEPT ![j] = NewJob(kind, points)]
    PROVE  JobStep
<1>. DEFINE row == NewJob(kind, points)
<1>1. /\ row \in Job /\ row.kind = kind /\ row.status = "queued"
      /\ ~row.cancel /\ row.points = points
  BY DEF NewJob, Job, Active
<1>2. job' = [job EXCEPT ![j] = row]
  OBVIOUS
<1>3. job[j].status = "none" /\ ~job[j].cancel
  BY DEF FirstFree, CancelledRows, Active
<1>. HIDE DEF row
<1>. QED
  BY <1>1, <1>2, <1>3 DEF TypeOK, CancelledRows, NamedRows, JobStep, Terminal, Active
\* Settling a job row is one update, or none.
LEMMA SettleStep ==
    ASSUME TypeOK, CancelledRows, NamedRows, WorkersHoldJobs,
           NEW w \in Worker, worker[w].pc \in Running, NEW row,
           Settle(w, row),
           job[worker[w].job].status = "running" => Update(job[worker[w].job], row)
    PROVE  JobStep
<1>. DEFINE j == worker[w].job
<1>. DEFINE new == IF job[j].status = "running" THEN row ELSE job[j]
<1>1. j \in JobId
  BY DEF WorkersHoldJobs
<1>2. job' = [job EXCEPT ![j] = new]
  BY <1>1 DEF Settle, TypeOK
<1>3. Update(job[j], new)
  BY <1>1 DEF Update, TypeOK, CancelledRows
<1>4. ~Locked(j)
  BY DEF Settle
<1>. HIDE DEF j, new
<1>. QED
  BY <1>1, <1>2, <1>3, <1>4, OneUpdate

LEMMA JobSteps ==
    ASSUME Inductive, [Next]_vars
    PROVE  JobStep
<1>. USE DEF Inductive
<1>. ChunkStep
  BY ChunkSteps
<1>1. ASSUME UNCHANGED job PROVE JobStep
  BY <1>1 DEF JobStep, TypeOK, CancelledRows, NamedRows
<1>2. CASE EnqueueBackfill
  <2>1. PICK j \in JobId : FirstFree(j) /\ job' = [job EXCEPT ![j] = NewJob("backfill", {})]
    BY <1>2 DEF EnqueueBackfill
  <2>2. \A k \in JobId : ~ (job[k].kind = "backfill" /\ job[k].status \in Active)
    BY <1>2 DEF EnqueueBackfill, NoActiveJob
  <2>3. PICK kind, points :
            /\ kind = "backfill" /\ points = {}
            /\ job' = [job EXCEPT ![j] = NewJob(kind, points)]
    BY <2>1
  <2>4. /\ kind \in {"backfill", "delete"} /\ kind # "delete"
        /\ points \in SUBSET Chunk
        /\ \A c \in points : chunk'[c].status = "deleted"
    BY <2>3
  <2>5. \A k \in JobId : ~ (job[k].kind = kind /\ job[k].status \in Active)
    BY <2>2, <2>3
  <2>. QED
    BY <2>1, <2>3, <2>4, <2>5, OneInsert
<1>3. ASSUME NEW j \in JobId, Retry(j) PROVE JobStep
  <2>1. PICK k \in JobId :
            /\ FirstFree(k)
            /\ job' = [job EXCEPT ![k] = NewJob(job[j].kind, job[j].points)]
    BY <1>3 DEF Retry
  <2>2. job[j].points \in SUBSET Chunk /\ job[j].kind \in {"none", "backfill", "delete"}
    BY DEF TypeOK, Job
  <2>3. \A i \in JobId : ~ (job[i].kind = job[j].kind /\ job[i].status \in Active)
    BY <1>3 DEF Retry, NoActiveJob
  <2>4. job[j].kind = "delete" =>
            \A w \in Worker : worker'[w].pc = "retiring" =>
                worker'[w].job # 0 \/ worker'[w].hold = {}
    BY <1>3 DEF Retry, NoActiveJob
  <2>5. \A c \in job[j].points : chunk'[c].status = "deleted"
    BY <1>3 DEF Retry, DeletesOnlyRetired
  <2>6. job[j].kind # "none"
    BY <1>3 DEF Retry, NamedRows
  <2>. QED
    BY <2>1, <2>2, <2>3, <2>4, <2>5, <2>6, OneInsert
<1>4. ASSUME NEW j \in JobId, Cancel(j) PROVE JobStep
  <2>. DEFINE row == [job[j] EXCEPT !.cancel = TRUE,
                        !.status = IF @ = "queued" THEN "cancelled" ELSE @]
  <2>1. job[j] \in Job /\ job[j].status \in Active
    BY <1>4 DEF Cancel, TypeOK
  <2>2. /\ row \in Job /\ row.cancel
        /\ row.status = IF job[j].status = "queued" THEN "cancelled" ELSE job[j].status
        /\ row.kind = job[j].kind /\ row.points = job[j].points
    BY <2>1 DEF Job, Active, Terminal
  <2>3. job' = [job EXCEPT ![j] = row]
    BY <1>4 DEF Cancel
  <2>4. Update(job[j], row)
    <3>. HIDE DEF row
    <3>. QED
      BY <2>1, <2>2 DEF Update, Active, Terminal
  <2>5. ~Locked(j)
    BY <1>4 DEF Cancel
  <2>. HIDE DEF row
  <2>. QED
    BY <2>3, <2>4, <2>5, OneUpdate
<1>5. ASSUME NEW w \in Worker, Claim(w) PROVE JobStep
  <2>1. PICK j \in JobId :
            /\ Claimable(j)
            /\ job' = [job EXCEPT ![j] =
                        [@ EXCEPT !.status = "running", !.expired = FALSE]]
    BY <1>5 DEF Claim
  <2>. DEFINE row == [job[j] EXCEPT !.status = "running", !.expired = FALSE]
  <2>2. job[j] \in Job /\ job[j].status = "queued"
    BY <2>1 DEF Claimable, TypeOK
  <2>3. Update(job[j], row)
    BY <2>2 DEF Update, Job, Active, Terminal
  <2>4. job' = [job EXCEPT ![j] = row] /\ row.status \in Active
    BY <2>1, <2>2 DEF Active, Job
  <2>. HIDE DEF row
  <2>. QED
    BY <2>3, <2>4, OneUpdate
<1>6. ASSUME NEW w \in Worker, Pause(w) PROVE JobStep
  <2>1. PICK row : Settle(w, row)
                   /\ row = [job[worker[w].job] EXCEPT !.status = "queued",
                                !.due = FALSE, !.expired = FALSE]
    BY <1>6 DEF Pause
  <2>2. worker[w].pc \in Running /\ worker[w].job \in JobId
    BY <1>6 DEF Pause, Running, WorkersHoldJobs
  <2>3. job[worker[w].job] \in Job
    BY <2>2 DEF TypeOK
  <2>4. job[worker[w].job].status = "running" => Update(job[worker[w].job], row)
    BY <2>1, <2>3 DEF Update, Job, Active, Terminal
  <2>. QED
    BY <2>1, <2>2, <2>4, SettleStep
<1>7. ASSUME NEW w \in Worker, Complete(w) PROVE JobStep
  <2>1. PICK row : Settle(w, row) /\ row = Completed(job[worker[w].job])
    BY <1>7 DEF Complete
  <2>2. worker[w].pc \in Running /\ worker[w].job \in JobId
    BY <1>7 DEF Complete, Running, WorkersHoldJobs
  <2>3. job[worker[w].job] \in Job
    BY <2>2 DEF TypeOK
  <2>4. job[worker[w].job].status = "running" => Update(job[worker[w].job], row)
    BY <2>1, <2>3 DEF Update, Completed, Job, Active, Terminal
  <2>. QED
    BY <2>1, <2>2, <2>4, SettleStep
<1>8. ASSUME NEW w \in Worker, Release(w) PROVE JobStep
  <2>1. PICK row : /\ Settle(w, row)
                   /\ row = IF job[worker[w].job].cancel THEN job[worker[w].job]
                            ELSE [job[worker[w].job] EXCEPT !.status = "queued",
                                    !.due = FALSE, !.expired = FALSE]
    BY <1>8 DEF Release
  <2>2. worker[w].pc \in Running /\ worker[w].job \in JobId
    BY <1>8 DEF Release, Running, WorkersHoldJobs
  <2>3. job[worker[w].job] \in Job
    BY <2>2 DEF TypeOK
  <2>4. job[worker[w].job].status = "running" => Update(job[worker[w].job], row)
    BY <2>1, <2>3 DEF Update, Job, Active, Terminal
  <2>. QED
    BY <2>1, <2>2, <2>4, SettleStep
<1>9. ASSUME NEW w \in Worker, Fail(w) PROVE JobStep
  <2>1. PICK row : /\ Settle(w, row)
                   /\ row = [job[worker[w].job] EXCEPT !.expired = FALSE,
                                !.status = IF job[worker[w].job].cancel
                                           THEN "cancelled" ELSE "failed"]
    BY <1>9 DEF Fail
  <2>2. worker[w].pc \in Running /\ worker[w].job \in JobId
    BY <1>9 DEF Fail, Running, WorkersHoldJobs
  <2>3. job[worker[w].job] \in Job
    BY <2>2 DEF TypeOK
  <2>4. job[worker[w].job].status = "running" => Update(job[worker[w].job], row)
    BY <2>1, <2>3 DEF Update, Job, Active, Terminal
  <2>. QED
    BY <2>1, <2>2, <2>4, SettleStep
<1>10. ASSUME NEW j \in JobId, RetryDue(j) PROVE JobStep
  <2>. DEFINE row == [job[j] EXCEPT !.due = TRUE]
  <2>1. job[j] \in Job /\ job[j].status = "queued"
    BY <1>10 DEF RetryDue, TypeOK
  <2>2. Update(job[j], row)
    BY <2>1 DEF Update, Job, Active, Terminal, CancelledRows
  <2>3. job' = [job EXCEPT ![j] = row] /\ row.status \in Active
    BY <1>10, <2>1 DEF RetryDue, Active, Job
  <2>. HIDE DEF row
  <2>. QED
    BY <2>2, <2>3, OneUpdate
<1>11. ASSUME NEW j \in JobId, LeaseExpires(j) PROVE JobStep
  <2>. DEFINE row == [job[j] EXCEPT !.expired = TRUE]
  <2>1. job[j] \in Job /\ job[j].status = "running"
    BY <1>11 DEF LeaseExpires, TypeOK
  <2>2. Update(job[j], row)
    BY <2>1 DEF Update, Job, Active, Terminal, CancelledRows
  <2>3. job' = [job EXCEPT ![j] = row] /\ row.status \in Active
    BY <1>11, <2>1 DEF LeaseExpires, Active, Job
  <2>. HIDE DEF row
  <2>. QED
    BY <2>2, <2>3, OneUpdate
<1>12. ASSUME NEW w \in Worker, Restart(w) PROVE JobStep
  <2>1. ASSUME NEW j \in JobId
        PROVE  /\ job'[j] \in Job /\ Update(job[j], job'[j])
               /\ job[j].status \in Active => job'[j].status \in Active
    <3>1. job[j] \in Job
      BY DEF TypeOK
    <3>2. Update(job[j], job[j])
      BY <3>1 DEF Update, CancelledRows
    <3>3. job[j].status = "running" =>
            Update(job[j], [job[j] EXCEPT !.status = "queued", !.expired = FALSE])
      BY <3>1 DEF Update, Job, Active, Terminal
    <3>. QED
      BY <1>12, <3>1, <3>2, <3>3 DEF Restart, Update, Job, Active
  <2>2. job' \in [JobId -> Job]
    BY <1>12, <2>1 DEF Restart
  <2>. QED
    BY <2>1, <2>2 DEF Update, JobStep, NamedRows
<1>13. ASSUME NEW w \in Worker, NEW new \in SUBSET FileChunk, RetireFile(w, new)
       PROVE  JobStep
  <2>. DEFINE seen == worker[w].hold
  <2>1. /\ seen \in SUBSET Chunk /\ seen \subseteq LiveFile
        /\ worker[w].job \in JobId \cup {0}
    BY <1>13 DEF RetireFile, RetirementsHoldRows, TypeOK, WorkerState
  <2>2. \A c \in seen : chunk'[c].status = "deleted"
    <3>1. WithoutFile(chunk) \in [Chunk -> ChunkRow]
          /\ \A c \in LiveFile : c \in Chunk /\ WithoutFile(chunk)[c].status = "deleted"
      BY RetiredRows, EmbeddingConstants DEF TypeOK, LiveFile
    <3>2. \A c \in LiveFile : c \notin new
      BY <1>13 DEF RetireFile, LiveFile, Live
    <3>3. chunk' = WithNew(WithoutFile(chunk), new) /\ new \in SUBSET Chunk
      BY <1>13, EmbeddingConstants DEF RetireFile
    <3>. QED
      BY <2>1, <3>1, <3>2, <3>3, NewRows
  <2>3. CASE seen = {}
    BY <1>1, <1>13, <2>3 DEF RetireFile, PayloadQueued
  <2>4. CASE seen # {} /\ worker[w].job # 0
    <3>. DEFINE j == worker[w].job
                row == [job[j] EXCEPT !.points = job[j].points \cup seen]
    <3>1. j \in JobId /\ job[j] \in Job
      BY <2>1, <2>4 DEF TypeOK
    <3>2. /\ row \in Job /\ row.points = job[j].points \cup seen
          /\ row.kind = job[j].kind /\ row.status = job[j].status
          /\ row.cancel = job[j].cancel
      BY <2>1, <3>1 DEF Job
    <3>3. job' = [job EXCEPT ![j] = row]
      BY <1>13, <2>4 DEF RetireFile, PayloadQueued
    <3>4. job[j].status \in Active
      BY <1>13, <2>4 DEF RetireFile, RetirementsHoldRows
    <3>. HIDE DEF row
    <3>. QED
      BY <2>2, <3>1, <3>2, <3>3, <3>4
      DEF JobStep, TypeOK, CancelledRows, NamedRows, Active, Terminal
  <2>5. CASE seen # {} /\ worker[w].job = 0
    <3>1. PICK k \in JobId : FirstFree(k) /\ job' = [job EXCEPT ![k] = NewJob("delete", seen)]
      BY <1>13, <2>5 DEF RetireFile, PayloadQueued
    <3>2. \A i \in JobId : ~ (job[i].kind = "delete" /\ job[i].status \in Active)
      BY <1>13, <2>5 DEF RetireFile, RetirementsHoldRows
    <3>3. \A v \in Worker : worker'[v].pc # "retiring"
      BY <1>13 DEF RetireFile, RetirementsHoldRows, TypeOK, Idle
    <3>. HIDE DEF seen
    <3>. QED
      BY <2>1, <2>2, <3>1, <3>2, <3>3, OneInsert
  <2>. QED
    BY <2>3, <2>4, <2>5
<1>. QED
  BY <1>1, <1>2, <1>3, <1>4, <1>5, <1>6, <1>7, <1>8, <1>9, <1>10, <1>11,
     <1>12, <1>13
  DEF Next, vars, WorkerStep, AddNote, ChunkAges, CheckCancel, ClaimBatch,
      Upsert, FailBatch, MarkReady, ReadPayload, Erase, StatementError, Crash,
      QueueDelete, AddFile

---------------------------------------------------------------------------
(* What a step may do to a worker.                                         *)

\* A worker that moves to one of the places where it holds chunks does so with
\* chunks in the state that place stands for.
WorkerMove ==
    /\ worker' \in [Worker -> WorkerState]
    /\ \A w \in Worker :
        /\ worker'[w].pc \in Running => worker'[w].job \in JobId
        /\ worker'[w] # worker[w] =>
            /\ worker'[w].pc = "batch" =>
                    \A c \in worker'[w].hold : chunk'[c].status = "processing"
            /\ worker'[w].pc = "upserted" =>
                    \A c \in worker'[w].hold : point'[c] = "current"
            /\ worker'[w].pc = "payload" =>
                    \A c \in worker'[w].hold : chunk[c].status = "deleted"
            /\ worker'[w].pc = "retiring" =>
                    /\ chunk' = chunk /\ job' = job
                    /\ LiveFile # {}
                    /\ worker'[w].hold = RecordedOfFile
                    /\ worker'[w].job # 0 => job[worker'[w].job].kind = "delete"
                    /\ \A v \in Worker : v # w => worker'[v].pc # "retiring"
                    /\ worker'[w].job # 0 => job[worker'[w].job].status \in Active
                    /\ worker'[w].job = 0 /\ worker'[w].hold # {} =>
                        \A j \in JobId : ~ ( /\ job[j].kind = "delete"
                                             /\ job[j].status \in Active )

\* A worker that moves to a place where it holds nothing.
LEMMA PlainMove ==
    ASSUME TypeOK, WorkersHoldJobs, NEW w \in Worker, NEW state \in WorkerState,
           state.pc \notin {"batch", "upserted", "payload", "retiring"},
           state.pc \in Running => state.job \in JobId,
           worker' = [worker EXCEPT ![w] = state]
    PROVE  WorkerMove
BY DEF TypeOK, WorkersHoldJobs, WorkerMove

LEMMA GotoMove ==
    ASSUME TypeOK, WorkersHoldJobs, NEW w \in Worker, worker[w].pc \in Running,
           NEW pc \in Running, NEW hold \in SUBSET Chunk, Goto(w, pc, hold),
           pc = "batch" => \A c \in hold : chunk'[c].status = "processing",
           pc = "payload" => \A c \in hold : chunk[c].status = "deleted",
           pc # "upserted"
    PROVE  WorkerMove
<1>1. PICK next \in {pc, "release", "fail"} :
        worker' = [worker EXCEPT ![w] =
                    [@ EXCEPT !.pc = next,
                              !.hold = IF next = pc THEN hold ELSE {}]]
  BY DEF Goto
<1>. DEFINE state == [worker[w] EXCEPT !.pc = next,
                        !.hold = IF next = pc THEN hold ELSE {}]
<1>2. worker[w] \in WorkerState /\ worker[w].job \in JobId
  BY DEF TypeOK, WorkersHoldJobs
<1>3. next \in Running
  BY <1>1 DEF Running
<1>4. /\ state \in WorkerState /\ state.pc = next /\ state.job \in JobId
      /\ next = pc => state.hold = hold
      /\ next # pc => state.hold = {}
  BY <1>1, <1>2, <1>3 DEF WorkerState
<1>5. worker' = [worker EXCEPT ![w] = state]
  BY <1>1
<1>6. next \notin {"upserted", "retiring"}
  BY <1>1 DEF Running
<1>. HIDE DEF state
<1>. QED
  BY <1>1, <1>3, <1>4, <1>5, <1>6 DEF TypeOK, WorkersHoldJobs, WorkerMove
LEMMA WorkerMoves ==
    ASSUME Inductive, [Next]_vars
    PROVE  WorkerMove
<1>. USE DEF Inductive
<1>1. ASSUME UNCHANGED worker PROVE WorkerMove
  BY <1>1 DEF WorkerMove, TypeOK, WorkersHoldJobs
<1>2. ASSUME NEW w \in Worker, worker' = [worker EXCEPT ![w] = Idle]
      PROVE  WorkerMove
  <2>1. Idle \in WorkerState /\ Idle.pc = "idle" /\ Idle.pc \notin Running
    BY DEF Idle, WorkerState, Running
  <2>. QED
    BY <1>2, <2>1, PlainMove
<1>3. ASSUME NEW w \in Worker, worker' = [worker EXCEPT ![w] = Down]
      PROVE  WorkerMove
  <2>1. Down \in WorkerState /\ Down.pc = "down" /\ Down.pc \notin Running
    BY DEF Down, WorkerState, Running
  <2>. QED
    BY <1>3, <2>1, PlainMove
<1>4. ASSUME NEW w \in Worker, worker[w].pc \in Running,
             NEW pc \in Running \ {"batch", "upserted", "payload"},
             Goto(w, pc, {})
      PROVE  WorkerMove
  BY <1>4, GotoMove
<1>5. ASSUME NEW w \in Worker, QueueDelete(w) PROVE WorkerMove
  <2>. DEFINE seen == RecordedOfFile
  <2>1. PICK j \in JobId \cup {0} :
            /\ IF seen = {} \/ NoActiveJob("delete")
               THEN j = 0
               ELSE /\ j # 0
                    /\ job[j].kind = "delete"
                    /\ job[j].status \in Active
            /\ worker' = [worker EXCEPT ![w] =
                            [pc |-> "retiring", job |-> j, hold |-> seen]]
    BY <1>5 DEF QueueDelete
  <2>. DEFINE state == [pc |-> "retiring", job |-> j, hold |-> seen]
  <2>2. seen \subseteq LiveFile /\ seen \in SUBSET Chunk
    BY EmbeddingConstants DEF LiveFile, RecordedOfFile
  <2>3. state \in WorkerState /\ state.pc = "retiring" /\ state.pc \notin Running
        /\ state.job = j /\ state.hold = seen
    BY <2>2 DEF WorkerState, Running
  <2>4. worker' = [worker EXCEPT ![w] = state]
    BY <2>1
  <2>5. /\ chunk' = chunk /\ job' = job /\ LiveFile # {}
        /\ \A v \in Worker : worker[v].pc # "retiring"
    BY <1>5 DEF QueueDelete
  <2>6. j # 0 => job[j].status \in Active /\ job[j].kind = "delete"
    BY <2>1
  <2>7. j = 0 /\ seen # {} =>
            \A k \in JobId : ~ (job[k].kind = "delete" /\ job[k].status \in Active)
    BY <2>1 DEF NoActiveJob
  <2>8. seen = RecordedOfFile
    OBVIOUS
  <2>9. \A v \in Worker : v # w => worker'[v] = worker[v]
    BY <2>4 DEF TypeOK
  <2>10. worker'[w] = state
    BY <2>4 DEF TypeOK
  <2>11. worker' \in [Worker -> WorkerState]
    BY <2>3, <2>4 DEF TypeOK
  <2>. HIDE DEF state, seen
  <2>. QED
    BY <2>2, <2>3, <2>5, <2>6, <2>7, <2>8, <2>9, <2>10, <2>11
    DEF WorkerMove, TypeOK, WorkersHoldJobs
<1>6. ASSUME NEW w \in Worker, Claim(w) PROVE WorkerMove
  <2>1. PICK j \in JobId : worker' = [worker EXCEPT ![w] =
                                    [pc |-> "claimed", job |-> j, hold |-> {}]]
    BY <1>6 DEF Claim
  <2>. DEFINE state == [pc |-> "claimed", job |-> j, hold |-> {}]
  <2>2. state \in WorkerState /\ state.pc = "claimed" /\ state.job \in JobId
    BY DEF WorkerState, Running
  <2>. HIDE DEF state
  <2>3. worker' = [worker EXCEPT ![w] = state]
    BY <2>1 DEF state
  <2>. QED
    BY <2>2, <2>3, PlainMove
<1>7. ASSUME NEW w \in Worker, CheckCancel(w) PROVE WorkerMove
  <2>1. worker[w].pc \in Running
    BY <1>7 DEF CheckCancel, Running
  <2>2. PICK pc \in {"fail", "checked"} : Goto(w, pc, {})
    BY <1>7 DEF CheckCancel
  <2>. QED
    BY <1>4, <2>1, <2>2 DEF Running
<1>8. ASSUME NEW w \in Worker, ClaimBatch(w) PROVE WorkerMove
  <2>1. worker[w].pc \in Running
    BY <1>8 DEF ClaimBatch, Running
  <2>2. PICK batch \in SUBSET Candidates :
            /\ chunk' = Claimed(chunk, batch)
            /\ Goto(w, IF batch = {} THEN "drained" ELSE "batch", batch)
    BY <1>8 DEF ClaimBatch, Batches
  <2>3. batch \in SUBSET Chunk /\ \A c \in batch : chunk'[c].status = "processing"
    BY <2>2, ClaimedRows DEF Candidates
  <2>4. CASE batch = {}
    BY <1>4, <2>1, <2>2, <2>4 DEF Running
  <2>5. CASE batch # {}
    <3>1. PICK pc \in Running : pc = "batch" /\ Goto(w, pc, batch)
      BY <2>2, <2>5 DEF Running
    <3>. QED
      BY <2>1, <2>3, <3>1, GotoMove
  <2>. QED
    BY <2>4, <2>5
<1>9. ASSUME NEW w \in Worker, Upsert(w) PROVE WorkerMove
  <2>1. PICK landed \in SUBSET worker[w].hold,
             next \in {"upserted", "batchRetryable", "batchFatal"} :
            /\ next = "upserted" => landed = worker[w].hold
            /\ point' = Pointed(point, landed)
            /\ worker' = [worker EXCEPT ![w] = [@ EXCEPT !.pc = next]]
    BY <1>9 DEF Upsert
  <2>. DEFINE state == [worker[w] EXCEPT !.pc = next]
  <2>2. worker[w] \in WorkerState /\ worker[w].job \in JobId
    BY <1>9 DEF Upsert, Running, TypeOK, WorkersHoldJobs
  <2>3. /\ state \in WorkerState /\ state.pc = next
        /\ state.job \in JobId /\ state.hold = worker[w].hold
    BY <2>1, <2>2 DEF WorkerState, Running
  <2>4. worker' = [worker EXCEPT ![w] = state]
    BY <2>1
  <2>5. next = "upserted" => \A c \in worker[w].hold : point'[c] = "current"
    BY <2>1, <2>2 DEF Pointed, WorkerState
  <2>. HIDE DEF state
  <2>. QED
    BY <2>1, <2>3, <2>4, <2>5 DEF WorkerMove, TypeOK, WorkersHoldJobs
<1>10. ASSUME NEW w \in Worker, FailBatch(w) PROVE WorkerMove
  <2>1. worker[w].pc \in Running
    BY <1>10 DEF FailBatch, Running
  <2>2. PICK pc \in {"release", "fail"} : Goto(w, pc, {})
    BY <1>10 DEF FailBatch
  <2>. QED
    BY <1>4, <2>1, <2>2 DEF Running
<1>11. ASSUME NEW w \in Worker, MarkReady(w) PROVE WorkerMove
  <2>1. worker[w].pc \in Running
    BY <1>11 DEF MarkReady, Running
  <2>2. PICK pc \in {"stored", "claimed", "release", "fail"} : Goto(w, pc, {})
    BY <1>11 DEF MarkReady
  <2>. QED
    BY <1>4, <2>1, <2>2 DEF Running
<1>12. ASSUME NEW w \in Worker, ReadPayload(w) PROVE WorkerMove
  <2>. DEFINE j == worker[w].job
  <2>1. worker[w].pc \in Running /\ j \in JobId
    BY <1>12 DEF ReadPayload, Running, WorkersHoldJobs
  <2>2. CASE job[j].status = "running"
    <3>1. PICK points \in SUBSET Chunk, pc \in Running :
            /\ pc = "payload" /\ points = job[j].points
            /\ Goto(w, pc, points)
      BY <1>12, <2>1, <2>2 DEF ReadPayload, Running, TypeOK, Job
    <3>2. points \in SUBSET Chunk /\ \A c \in points : chunk[c].status = "deleted"
      BY <2>1, <3>1 DEF TypeOK, Job, DeletesOnlyRetired
    <3>. QED
      BY <2>1, <3>1, <3>2, GotoMove
  <2>3. CASE job[j].status # "running"
    BY <1>4, <1>12, <2>1, <2>3 DEF ReadPayload, Running
  <2>. QED
    BY <2>2, <2>3
<1>13. ASSUME NEW w \in Worker, worker[w].pc \in Running,
              NEW next \in {"erased", "release", "fail"},
              worker' = [worker EXCEPT ![w] =
                            [@ EXCEPT !.pc = next, !.hold = {}]]
       PROVE  WorkerMove
  <2>. DEFINE state == [worker[w] EXCEPT !.pc = next, !.hold = {}]
  <2>1. worker[w] \in WorkerState /\ worker[w].job \in JobId
    BY <1>13 DEF TypeOK, WorkersHoldJobs
  <2>2. /\ state \in WorkerState /\ state.pc = next /\ state.job \in JobId
    BY <1>13, <2>1 DEF WorkerState, Running
  <2>3. worker' = [worker EXCEPT ![w] = state]
    BY <1>13
  <2>. HIDE DEF state
  <2>. QED
    BY <2>2, <2>3, PlainMove
<1>14. ASSUME NEW w \in Worker, Erase(w) PROVE WorkerMove
  BY <1>13, <1>14 DEF Erase, Running
<1>15. ASSUME NEW w \in Worker, StatementError(w) PROVE WorkerMove
  BY <1>2, <1>13, <1>15 DEF StatementError, Done
<1>16. ASSUME NEW w \in Worker, Pause(w) \/ Complete(w) PROVE WorkerMove
  BY <1>2, <1>4, <1>16 DEF Pause, Complete, Done, Running
<1>17. ASSUME NEW w \in Worker, Release(w) \/ Fail(w) PROVE WorkerMove
  BY <1>2, <1>17 DEF Release, Fail, Done
<1>18. ASSUME NEW w \in Worker, Crash(w) \/ Restart(w) PROVE WorkerMove
  BY <1>2, <1>3, <1>18 DEF Crash, Restart
<1>19. ASSUME NEW w \in Worker, NEW new \in SUBSET FileChunk, RetireFile(w, new)
       PROVE  WorkerMove
  BY <1>2, <1>19 DEF RetireFile
<1>. QED
  BY <1>1, <1>5, <1>6, <1>7, <1>8, <1>9, <1>10, <1>11, <1>12, <1>14, <1>15,
     <1>16, <1>17, <1>18, <1>19
  DEF Next, vars, WorkerStep, AddNote, ChunkAges, EnqueueBackfill, Retry,
      Cancel, RetryDue, LeaseExpires, AddFile

---------------------------------------------------------------------------
(* The invariant.                                                          *)

LEMMA InitInductive == Init => Inductive
<1>. SUFFICES ASSUME Init PROVE Inductive
  OBVIOUS
<1>1. AbsentChunk \in ChunkRow /\ AbsentChunk.status = "absent"
  BY EmbeddingConstants DEF AbsentChunk, ChunkRow, Profile
<1>2. /\ OldChunk \in ChunkRow /\ OldChunk.status = "ready"
      /\ OldChunk.profile = "old" /\ OldChunk.recorded
  <2>1. 1 \in 0..MaxAttempts
    BY EmbeddingConstants
  <2>. QED
    BY <1>1, <2>1 DEF OldChunk, ChunkRow, Profile
<1>3. NoJob \in Job /\ NoJob.status = "none" /\ ~NoJob.cancel /\ NoJob.points = {}
  BY DEF NoJob, Job
<1>4. Down \in WorkerState /\ Down.pc = "down" /\ Down.hold = {}
  BY DEF Down, WorkerState
<1>5. /\ chunk \in [Chunk -> {AbsentChunk, OldChunk}]
      /\ point = [c \in Chunk |->
                    IF chunk[c].status = "ready" THEN "old" ELSE "none"]
      /\ job = [j \in JobId |-> NoJob]
      /\ worker = [w \in Worker |-> Down]
  BY DEF Init
<1>6. TypeOK
  BY <1>1, <1>2, <1>3, <1>4, <1>5 DEF TypeOK, Profile
<1>7. WorkersHoldJobs /\ RetirementsHoldRows /\ BatchesAreAccountedFor
  BY <1>4, <1>5 DEF WorkersHoldJobs, RetirementsHoldRows,
     BatchesAreAccountedFor, Running
<1>8. NamedRows /\ CancelledRows /\ OneActiveJob /\ DeletesOnlyRetired
  BY <1>3, <1>4, <1>5 DEF NamedRows, CancelledRows, OneActiveJob,
     DeletesOnlyRetired, Active
<1>9. ReadyHasPoint
  BY <1>1, <1>2, <1>5 DEF ReadyHasPoint
<1>. QED
  BY <1>6, <1>7, <1>8, <1>9 DEF Inductive

LEMMA StepInductive == Inductive /\ [Next]_vars => Inductive'
<1>. SUFFICES ASSUME Inductive, [Next]_vars PROVE Inductive'
  OBVIOUS
<1>1. ChunkStep /\ PointStep /\ JobStep /\ WorkerMove
  BY ChunkSteps, PointSteps, JobSteps, WorkerMoves
<1>2. TypeOK'
  BY <1>1 DEF TypeOK, ChunkStep, PointStep, JobStep, WorkerMove
<1>3. WorkersHoldJobs' /\ NamedRows' /\ CancelledRows'
  BY <1>1 DEF WorkersHoldJobs, NamedRows, CancelledRows, WorkerMove, JobStep
<1>4. OneActiveJob'
  BY <1>1 DEF Inductive, OneActiveJob, JobStep
<1>5. ReadyHasPoint'
  <2>. SUFFICES ASSUME NEW c \in Chunk, chunk'[c].status = "ready"
                PROVE  point'[c] = chunk'[c].profile /\ chunk'[c].recorded
    BY DEF ReadyHasPoint
  <2>. QED
    BY <1>1 DEF Inductive, ReadyHasPoint, ChunkStep, PointStep
<1>6. DeletesOnlyRetired'
  <2>1. ASSUME NEW j \in JobId, NEW c \in job'[j].points
        PROVE  chunk'[c].status = "deleted"
    <3>1. c \in Chunk
      BY <1>2, <2>1 DEF TypeOK, Job
    <3>. QED
      BY <1>1, <2>1, <3>1 DEF Inductive, DeletesOnlyRetired, ChunkStep, JobStep
  <2>2. ASSUME NEW w \in Worker, worker'[w].pc = "payload", NEW c \in worker'[w].hold
        PROVE  chunk'[c].status = "deleted"
    <3>1. c \in Chunk
      BY <1>2, <2>2 DEF TypeOK, WorkerState
    <3>2. chunk[c].status = "deleted"
      BY <1>1, <2>2 DEF Inductive, DeletesOnlyRetired, WorkerMove
    <3>. QED
      BY <1>1, <3>1, <3>2 DEF ChunkStep
  <2>. QED
    BY <2>1, <2>2 DEF DeletesOnlyRetired
<1>7. BatchesAreAccountedFor'
  <2>. SUFFICES ASSUME NEW w \in Worker, NEW c \in worker'[w].hold
                PROVE  /\ worker'[w].pc = "batch" /\ chunk'[c].status = "ready" =>
                            chunk'[c].profile = "current"
                       /\ worker'[w].pc = "upserted" /\ chunk'[c].status # "deleted" =>
                            point'[c] = "current"
    BY DEF BatchesAreAccountedFor
  <2>1. c \in Chunk
    BY <1>2 DEF TypeOK, WorkerState
  <2>2. CASE worker'[w] = worker[w]
    BY <1>1, <2>1, <2>2 DEF Inductive, BatchesAreAccountedFor, ChunkStep, PointStep
  <2>3. CASE worker'[w] # worker[w]
    BY <1>1, <2>1, <2>3 DEF WorkerMove
  <2>. QED
    BY <2>2, <2>3
<1>8. RetirementsHoldRows'
  <2>. SUFFICES ASSUME NEW w \in Worker, worker'[w].pc = "retiring"
                PROVE  /\ worker'[w].hold \subseteq LiveFile'
                       /\ \A v \in Worker : worker'[v].pc = "retiring" => v = w
                       /\ worker'[w].job # 0 => job'[worker'[w].job].status \in Active
                       /\ worker'[w].job = 0 /\ worker'[w].hold # {} =>
                            \A j \in JobId : ~ ( /\ job'[j].kind = "delete"
                                                 /\ job'[j].status \in Active )
    BY DEF RetirementsHoldRows
  <2>1. worker'[w].job \in JobId \cup {0}
    BY <1>2 DEF TypeOK, WorkerState
  <2>2. CASE worker'[w] # worker[w]
    <3>1. LiveFile' = LiveFile /\ job' = job
      BY <1>1, <2>2 DEF WorkerMove, LiveFile, Live
    <3>2. RecordedOfFile \subseteq LiveFile
      BY DEF RecordedOfFile
    <3>. QED
      BY <1>1, <2>2, <3>1, <3>2 DEF WorkerMove
  <2>3. CASE worker'[w] = worker[w]
    <3>1. worker'[w].hold \subseteq LiveFile'
      BY <1>1, <2>3 DEF Inductive, RetirementsHoldRows, ChunkStep
    <3>2. \A v \in Worker : worker'[v].pc = "retiring" => v = w
      BY <1>1, <2>3 DEF Inductive, RetirementsHoldRows, WorkerMove
    <3>3. worker'[w].job # 0 => job'[worker'[w].job].status \in Active
      BY <1>1, <2>1, <2>3 DEF Inductive, RetirementsHoldRows, JobStep, Locked
    <3>4. worker'[w].job = 0 /\ worker'[w].hold # {} =>
            \A j \in JobId : ~ (job'[j].kind = "delete" /\ job'[j].status \in Active)
      BY <1>1, <2>3 DEF Inductive, RetirementsHoldRows, JobStep
    <3>. QED
      BY <3>1, <3>2, <3>3, <3>4
  <2>. QED
    BY <2>2, <2>3
<1>. QED
  BY <1>2, <1>3, <1>4, <1>5, <1>6, <1>7, <1>8 DEF Inductive

\* Every reachable state satisfies the inductive invariant.
THEOREM EmbeddingInvariance == Spec => []Inductive
<1>1. Inductive /\ [Next]_vars => Inductive'
  BY StepInductive
<1>. QED
  BY InitInductive, <1>1, PTL DEF Spec

\* The variables have their types: in particular no chunk is ever claimed more
\* often than MaxAttempts (CLAIM_CHUNKS_SQL).
THEOREM EmbeddingTyping == Spec => []TypeOK
BY EmbeddingInvariance, PTL DEF Inductive

\* A ready chunk has a point of the profile its row names, for any number of
\* workers, crashes, recoveries, failed calls and retirements.
THEOREM ReadyChunksHavePoints == Spec => []ReadyHasPoint
BY EmbeddingInvariance, PTL DEF Inductive

\* No qdrant_delete job ever holds the point of a chunk that still exists.
THEOREM DeletionIsSafe == Spec => []DeletesOnlyRetired
BY EmbeddingInvariance, PTL DEF Inductive

\* Retry, release, pause and recovery never make two jobs of a kind active.
THEOREM OneActiveEmbeddingJob == Spec => []OneActiveJob
BY EmbeddingInvariance, PTL DEF Inductive

\* A chunk that is ready for the configured profile keeps its row and its point
\* until it is retired.
THEOREM ReadyStays == Spec => ReadyIsKept
<1>1. Inductive /\ [Next]_vars =>
        [\A c \in Chunk :
            chunk[c].status = "ready" /\ chunk[c].profile = "current" =>
                \/ chunk'[c] = chunk[c] /\ point'[c] = point[c]
                \/ chunk'[c].status = "deleted"]_vars
  <2>. SUFFICES ASSUME Inductive, [Next]_vars, NEW c \in Chunk,
                       chunk[c].status = "ready", chunk[c].profile = "current"
                PROVE  \/ chunk'[c] = chunk[c] /\ point'[c] = point[c]
                       \/ chunk'[c].status = "deleted"
    OBVIOUS
  <2>1. ChunkStep /\ PointStep
    BY ChunkSteps, PointSteps
  <2>2. point[c] = "current"
    BY DEF Inductive, ReadyHasPoint
  <2>. QED
    BY <2>1, <2>2 DEF ChunkStep, PointStep
<1>. QED
  BY EmbeddingInvariance, <1>1, PTL DEF Spec, ReadyIsKept

\* A finished job is final, and one that was asked to stop never succeeds and
\* never fails.
THEOREM JobsAreFinal == Spec => JobsEndOnce
<1>1. Inductive /\ [Next]_vars =>
        [\A j \in JobId :
            /\ job[j].status \in Terminal => job'[j] = job[j]
            /\ job[j].cancel => /\ job'[j].cancel
                                /\ job'[j].status \in Active \cup {"cancelled"}]_vars
  BY JobSteps DEF JobStep
<1>. QED
  BY EmbeddingInvariance, <1>1, PTL DEF Spec, JobsEndOnce

---------------------------------------------------------------------------
(* The points of retired chunks.  A batch may be marked ready between the  *)
(* two statements of a retirement, and its points, which the first did not *)
(* see, are queued by nobody: those are the late ones.                     *)

\* The point is recorded, and was before any retirement began.
InTime(row) == row.recorded /\ ~row.late

\* While a retirement lasts, the file has chunks, every point of it recorded in
\* time is one it queues, and the job it has found is a delete job.
SeenIsHeld ==
    \A w \in Worker : worker[w].pc = "retiring" =>
        /\ LiveFile # {}
        /\ \A c \in LiveFile : InTime(chunk[c]) => c \in worker[w].hold
        /\ worker[w].job # 0 => job[worker[w].job].kind = "delete"

DeletesAreRows ==
    \A j \in JobId : job[j].kind = "delete" => job[j].status # "none"

PointsQueued == RecordedPointsAreQueued /\ SeenIsHeld /\ DeletesAreRows

LEMMA InitPointsQueued == Init => PointsQueued
<1>. SUFFICES ASSUME Init PROVE PointsQueued
  OBVIOUS
<1>1. AbsentChunk.status = "absent" /\ OldChunk.status = "ready"
  BY DEF AbsentChunk, OldChunk
<1>2. Down.pc = "down" /\ NoJob.kind = "none"
  BY DEF Down, NoJob
<1>. QED
  BY <1>1, <1>2
  DEF Init, PointsQueued, RecordedPointsAreQueued, SeenIsHeld, DeletesAreRows

\* Only the commit of a retirement deletes rows.
LEMMA OnlyRetirementDeletes ==
    ASSUME Inductive, [Next]_vars,
           \A w \in Worker, new \in SUBSET FileChunk : ~RetireFile(w, new)
    PROVE  \A c \in Chunk : chunk'[c].status = "deleted" => chunk'[c] = chunk[c]
<1>. USE DEF Inductive
<1>. DEFINE Kept == \A c \in Chunk : chunk'[c].status = "deleted" => chunk'[c] = chunk[c]
<1>1. ASSUME UNCHANGED chunk PROVE Kept
  BY <1>1
<1>2. ASSUME NEW new \in SUBSET Chunk, chunk' = WithNew(chunk, new) PROVE Kept
  BY <1>2, NewRows DEF TypeOK
<1>3. ASSUME NEW w \in Worker, ClaimBatch(w) PROVE Kept
  <2>1. PICK batch \in SUBSET Candidates : chunk' = Claimed(chunk, batch)
    BY <1>3 DEF ClaimBatch, Batches
  <2>. QED
    BY <2>1, ClaimedRows
<1>4. ASSUME NEW w \in Worker, FailBatch(w) PROVE Kept
  <2>1. worker[w].hold \in SUBSET Chunk
    BY DEF TypeOK, WorkerState
  <2>. QED
    BY <1>4, <2>1, FailedRows DEF FailBatch
<1>5. ASSUME NEW w \in Worker, MarkReady(w) PROVE Kept
  <2>1. worker[w].hold \in SUBSET Chunk
    BY DEF TypeOK, WorkerState
  <2>. QED
    BY <1>5, <2>1, ReadyRows DEF MarkReady
<1>6. ASSUME NEW d \in Chunk, ChunkAges(d) PROVE Kept
  <2>. DEFINE row == [chunk[d] EXCEPT !.aged = TRUE]
  <2>1. row.status = "processing" /\ chunk' = [chunk EXCEPT ![d] = row]
    BY <1>6 DEF ChunkAges, TypeOK, ChunkRow
  <2>. HIDE DEF row
  <2>. QED
    BY <2>1 DEF TypeOK
<1>7. ASSUME NEW w \in Worker, Restart(w) PROVE Kept
  <2>. SUFFICES ASSUME NEW c \in Chunk, chunk'[c].status = "deleted"
                PROVE  chunk'[c] = chunk[c]
    OBVIOUS
  <2>. DEFINE row == [chunk[c] EXCEPT !.status = "failed", !.aged = FALSE]
  <2>1. row.status = "failed"
    BY DEF TypeOK, ChunkRow
  <2>2. chunk'[c] = IF chunk[c].status = "processing" /\ chunk[c].aged
                    THEN row ELSE chunk[c]
    BY <1>7 DEF Restart
  <2>. HIDE DEF row
  <2>. QED
    BY <2>1, <2>2
<1>8. ASSUME NEW c \in Chunk, AddNote(c) PROVE Kept
  BY <1>2, <1>8 DEF AddNote
<1>9. ASSUME NEW w \in Worker, NEW new \in SUBSET FileChunk, AddFile(w, new)
      PROVE  Kept
  BY <1>2, <1>9, EmbeddingConstants DEF AddFile
<1>. QED
  BY <1>1, <1>3, <1>4, <1>5, <1>6, <1>7, <1>8, <1>9
  DEF Next, vars, WorkerStep, EnqueueBackfill, Retry, Cancel, RetryDue,
      LeaseExpires, Claim, CheckCancel, Upsert, ReadPayload, Erase, Pause,
      Complete, Release, Fail, Settle, StatementError, Crash, QueueDelete

\* The commit of a retirement: what it deletes is in the payload.
LEMMA RetirementQueues ==
    ASSUME Inductive, PointsQueued, ChunkStep, JobStep,
           NEW w \in Worker, NEW new \in SUBSET FileChunk, RetireFile(w, new)
    PROVE  RecordedPointsAreQueued'
<1>. DEFINE seen == worker[w].hold
<1>. DEFINE rest == WithoutFile(chunk)
<1>1. /\ rest \in [Chunk -> ChunkRow]
      /\ \A c \in Chunk :
            /\ c \in LiveFile => /\ rest[c].recorded = chunk[c].recorded
                                 /\ rest[c].late = chunk[c].late
            /\ c \notin LiveFile => rest[c] = chunk[c]
  BY RetiredRows DEF Inductive, TypeOK
<1>2. chunk' = WithNew(rest, new) /\ new \in SUBSET Chunk
  BY EmbeddingConstants DEF RetireFile
<1>3. ASSUME NEW c \in Chunk, chunk'[c].status = "deleted"
      PROVE  chunk'[c] = rest[c]
  <2>. HIDE DEF rest
  <2>. QED
    BY <1>1, <1>2, <1>3, NewRows
<1>4. worker[w].job \in JobId \cup {0}
  BY DEF Inductive, TypeOK, WorkerState
<1>5. ASSUME seen # {}
      PROVE  \E j \in JobId : job'[j].kind = "delete" /\ seen \subseteq job'[j].points
  <2>1. CASE worker[w].job # 0
    <3>. DEFINE j == worker[w].job
    <3>1. j \in JobId /\ job[j].kind = "delete" /\ job[j] \in Job
      BY <1>4, <2>1 DEF RetireFile, PointsQueued, SeenIsHeld, Inductive, TypeOK
    <3>2. job' = [job EXCEPT ![j] = [job[j] EXCEPT !.points = job[j].points \cup seen]]
      BY <1>5, <2>1 DEF RetireFile, PayloadQueued
    <3>3. job'[j].kind = "delete" /\ seen \subseteq job'[j].points
      BY <3>1, <3>2 DEF Inductive, TypeOK, Job
    <3>. QED
      BY <3>1, <3>3
  <2>2. CASE worker[w].job = 0
    <3>1. PICK k \in JobId : job' = [job EXCEPT ![k] = NewJob("delete", seen)]
      BY <1>5, <2>2 DEF RetireFile, PayloadQueued
    <3>2. NewJob("delete", seen).kind = "delete" /\ NewJob("delete", seen).points = seen
      BY DEF NewJob
    <3>. QED
      BY <3>1, <3>2 DEF Inductive, TypeOK
  <2>. QED
    BY <2>1, <2>2
<1>6. ASSUME NEW c \in Chunk, chunk'[c].status = "deleted", InTime(chunk'[c])
      PROVE  \E j \in JobId : job'[j].kind = "delete" /\ c \in job'[j].points
  <2>1. CASE c \in LiveFile
    <3>1. InTime(chunk[c])
      BY <1>1, <1>3, <1>6, <2>1 DEF InTime
    <3>2. c \in seen
      BY <2>1, <3>1 DEF RetireFile, PointsQueued, SeenIsHeld
    <3>. QED
      BY <1>5, <3>2
  <2>2. CASE c \notin LiveFile
    <3>1. chunk'[c] = chunk[c]
      BY <1>1, <1>3, <1>6, <2>2
    <3>2. PICK j \in JobId : job[j].kind = "delete" /\ c \in job[j].points
      BY <1>6, <3>1 DEF PointsQueued, RecordedPointsAreQueued, InTime
    <3>. QED
      BY <3>2 DEF PointsQueued, DeletesAreRows, JobStep
  <2>. QED
    BY <2>1, <2>2
<1>. QED
  BY <1>6 DEF RecordedPointsAreQueued, InTime

\* While a retirement lasts, no chunk of the file appears and none is recorded
\* in time.
NothingInTime ==
    \A c \in LiveFile' : c \in LiveFile /\ (InTime(chunk'[c]) => InTime(chunk[c]))

LEMMA RecordedLater ==
    ASSUME Inductive, [Next]_vars, LiveFile # {},
           NEW w \in Worker, worker[w].pc = "retiring", worker'[w].pc = "retiring"
    PROVE  NothingInTime
<1>. USE DEF Inductive
<1>0. \A c \in LiveFile : c \in Chunk /\ c \in FileChunk
  BY EmbeddingConstants DEF LiveFile
<1>1. ASSUME UNCHANGED chunk PROVE NothingInTime
  BY <1>1 DEF NothingInTime, LiveFile, Live
<1>2. ASSUME \A c \in FileChunk :
                \/ chunk'[c] = chunk[c]
                \/ /\ Live(c)
                   /\ InTime(chunk'[c]) => InTime(chunk[c])
      PROVE  NothingInTime
  BY <1>2 DEF NothingInTime, LiveFile, Live
<1>3. ASSUME NEW c \in Chunk, AddNote(c) PROVE NothingInTime
  <2>1. \A d \in FileChunk : d \in Chunk /\ d \notin {c}
    BY <1>3, EmbeddingConstants DEF AddNote
  <2>. QED
    BY <1>2, <1>3, <2>1, NewRows DEF AddNote, TypeOK
<1>4. ASSUME NEW d \in Chunk, ChunkAges(d) PROVE NothingInTime
  <2>. DEFINE row == [chunk[d] EXCEPT !.aged = TRUE]
  <2>1. /\ row.recorded = chunk[d].recorded /\ row.late = chunk[d].late
        /\ chunk' = [chunk EXCEPT ![d] = row] /\ Live(d)
    BY <1>4 DEF ChunkAges, TypeOK, ChunkRow, Live
  <2>. HIDE DEF row
  <2>. QED
    BY <1>2, <2>1, EmbeddingConstants DEF TypeOK, InTime
<1>5. ASSUME NEW v \in Worker, ClaimBatch(v) PROVE NothingInTime
  <2>1. PICK batch \in SUBSET Candidates : chunk' = Claimed(chunk, batch)
    BY <1>5 DEF ClaimBatch, Batches
  <2>2. \A c \in batch : Live(c)
    BY DEF Candidates, Unembedded
  <2>3. \A c \in Chunk : /\ c \notin batch => chunk'[c] = chunk[c]
                         /\ c \in batch /\ InTime(chunk'[c]) => InTime(chunk[c])
    BY <2>1 DEF Claimed, TypeOK, ChunkRow, InTime
  <2>4. ASSUME NEW c \in FileChunk
        PROVE  chunk'[c] = chunk[c] \/ (Live(c) /\ (InTime(chunk'[c]) => InTime(chunk[c])))
    <3>1. c \in Chunk
      BY EmbeddingConstants
    <3>2. CASE c \in batch
      BY <2>2, <2>3, <3>1, <3>2
    <3>3. CASE c \notin batch
      BY <2>3, <3>1, <3>3
    <3>. QED
      BY <3>2, <3>3
  <2>. QED
    BY <1>2, <2>4
<1>6. ASSUME NEW v \in Worker, FailBatch(v) PROVE NothingInTime
  <2>1. PICK retryable \in BOOLEAN : chunk' = Failed(chunk, worker[v].hold, retryable)
    BY <1>6 DEF FailBatch
  <2>2. \A c \in Chunk : \/ chunk'[c] = chunk[c]
                         \/ /\ Live(c)
                            /\ InTime(chunk'[c]) => InTime(chunk[c])
    BY <2>1 DEF Failed, TypeOK, ChunkRow, InTime, Live
  <2>. QED
    BY <1>2, <2>2, EmbeddingConstants
<1>7. ASSUME NEW v \in Worker, MarkReady(v) PROVE NothingInTime
  <2>1. CASE \A c \in worker[v].hold : chunk[c].status = "processing"
    <3>1. chunk' = Ready(chunk, worker[v].hold) /\ Retiring
      BY <1>7, <2>1 DEF MarkReady, Retiring
    <3>2. ASSUME NEW c \in Chunk, c \in worker[v].hold
          PROVE  Live(c) /\ (InTime(chunk'[c]) => InTime(chunk[c]))
      <4>. DEFINE late == chunk[c].late \/ (Retiring /\ ~chunk[c].recorded)
                  row == [chunk[c] EXCEPT !.status = "ready", !.aged = FALSE,
                            !.profile = "current", !.recorded = TRUE, !.late = late]
      <4>1. row.late = late /\ chunk[c].late \in BOOLEAN /\ chunk[c].recorded \in BOOLEAN
        BY DEF TypeOK, ChunkRow
      <4>2. chunk'[c] = row
        BY <3>1, <3>2 DEF Ready
      <4>. HIDE DEF row
      <4>. QED
        BY <2>1, <3>1, <3>2, <4>1, <4>2 DEF Live, InTime
    <3>3. \A c \in Chunk : c \notin worker[v].hold => chunk'[c] = chunk[c]
      BY <3>1 DEF Ready
    <3>. QED
      BY <1>2, <3>2, <3>3, EmbeddingConstants
  <2>2. CASE ~ \A c \in worker[v].hold : chunk[c].status = "processing"
    BY <1>1, <1>7, <2>2 DEF MarkReady
  <2>. QED
    BY <2>1, <2>2
<1>8. ASSUME NEW v \in Worker, Restart(v) PROVE NothingInTime
  <2>1. \A c \in Chunk : \/ chunk'[c] = chunk[c]
                         \/ Live(c) /\ (InTime(chunk'[c]) => InTime(chunk[c]))
    BY <1>8 DEF Restart, TypeOK, ChunkRow, InTime, Live
  <2>. QED
    BY <1>2, <2>1, EmbeddingConstants
<1>9. ASSUME NEW v \in Worker, NEW new \in SUBSET FileChunk, AddFile(v, new)
      PROVE  FALSE
  BY <1>9 DEF AddFile
<1>10. ASSUME NEW v \in Worker, NEW new \in SUBSET FileChunk, RetireFile(v, new)
       PROVE  FALSE
  <2>1. v = w
    BY <1>10 DEF RetireFile, RetirementsHoldRows
  <2>. QED
    BY <1>10, <2>1 DEF RetireFile, TypeOK, Idle
<1>. QED
  BY <1>1, <1>3, <1>4, <1>5, <1>6, <1>7, <1>8, <1>9, <1>10
  DEF Next, vars, WorkerStep, EnqueueBackfill, Retry, Cancel, RetryDue,
      LeaseExpires, Claim, CheckCancel, Upsert, ReadPayload, Erase, Pause,
      Complete, Release, Fail, Settle, StatementError, Crash, QueueDelete

\* A retirement sees every point recorded in time, when it begins and later.
LEMMA RetirementSeesAll ==
    ASSUME Inductive, PointsQueued, [Next]_vars, ChunkStep, JobStep
    PROVE  SeenIsHeld'
<1>. USE DEF Inductive
<1>. SUFFICES ASSUME NEW w \in Worker, worker'[w].pc = "retiring"
              PROVE  /\ LiveFile' # {}
                     /\ \A c \in LiveFile' : InTime(chunk'[c]) => c \in worker'[w].hold
                     /\ worker'[w].job # 0 => job'[worker'[w].job].kind = "delete"
  BY DEF SeenIsHeld
<1>1. CASE worker'[w] # worker[w]
  <2>1. /\ chunk' = chunk /\ job' = job /\ LiveFile # {}
        /\ worker'[w].hold = RecordedOfFile
        /\ worker'[w].job # 0 => job[worker'[w].job].kind = "delete"
    BY <1>1, WorkerMoves DEF WorkerMove
  <2>2. LiveFile' = LiveFile
    BY <2>1 DEF LiveFile, Live
  <2>. QED
    BY <2>1, <2>2 DEF RecordedOfFile, InTime
<1>2. CASE worker'[w] = worker[w]
  <2>1. /\ LiveFile # {}
        /\ \A c \in LiveFile : InTime(chunk[c]) => c \in worker[w].hold
        /\ worker[w].job # 0 => /\ job[worker[w].job].kind = "delete"
                                /\ job[worker[w].job].status \in Active
    BY <1>2 DEF PointsQueued, SeenIsHeld, RetirementsHoldRows
  <2>2. NothingInTime /\ LiveFile \subseteq LiveFile'
    BY <1>2, <2>1, RecordedLater DEF ChunkStep
  <2>3. worker[w].job \in JobId \cup {0}
    BY DEF TypeOK, WorkerState
  <2>. QED
    BY <1>2, <2>1, <2>2, <2>3 DEF NothingInTime, JobStep, Active
<1>. QED
  BY <1>1, <1>2

LEMMA PointsQueuedSteps ==
    Inductive /\ PointsQueued /\ [Next]_vars => PointsQueued'
<1>. SUFFICES ASSUME Inductive, PointsQueued, [Next]_vars
              PROVE  PointsQueued'
  OBVIOUS
<1>1. ChunkStep /\ JobStep
  BY ChunkSteps, JobSteps
<1>2. SeenIsHeld'
  BY <1>1, RetirementSeesAll
<1>3. DeletesAreRows'
  BY <1>1 DEF PointsQueued, DeletesAreRows, JobStep
<1>4. RecordedPointsAreQueued'
  <2>1. CASE \E w \in Worker, new \in SUBSET FileChunk : RetireFile(w, new)
    BY <1>1, <2>1, RetirementQueues
  <2>2. CASE \A w \in Worker, new \in SUBSET FileChunk : ~RetireFile(w, new)
    <3>1. ASSUME NEW c \in Chunk, chunk'[c].status = "deleted", InTime(chunk'[c])
          PROVE  \E j \in JobId : job'[j].kind = "delete" /\ c \in job'[j].points
      <4>1. chunk'[c] = chunk[c]
        BY <2>2, <3>1, OnlyRetirementDeletes
      <4>2. PICK j \in JobId : job[j].kind = "delete" /\ c \in job[j].points
        BY <3>1, <4>1 DEF PointsQueued, RecordedPointsAreQueued, InTime
      <4>. QED
        BY <1>1, <4>2 DEF PointsQueued, DeletesAreRows, JobStep
    <3>. QED
      BY <3>1 DEF RecordedPointsAreQueued, InTime
  <2>. QED
    BY <2>1, <2>2
<1>. QED
  BY <1>2, <1>3, <1>4 DEF PointsQueued

\* retire_generated_knowledge: the recorded point of every retired chunk is in
\* the payload of a qdrant_delete row, whatever crashes, fails or is retried,
\* unless it was recorded between the two statements of a retirement
\* (ingestion.rs:719 and :724).
THEOREM RetiredPointsQueued == Spec => []RecordedPointsAreQueued
<1>1. PointsQueued => RecordedPointsAreQueued
  BY DEF PointsQueued
<1>. QED
  BY <1>1, InitPointsQueued, PointsQueuedSteps, EmbeddingInvariance, PTL DEF Spec
=============================================================================
