--------------------------- MODULE GitIngestion ---------------------------
(***************************************************************************)
(* Git ingestion: the rows of ingestion_job of type git_ingestion, the     *)
(* workers that run them, and the child source documents, knowledge items, *)
(* approvals and chunks that one successful run replaces.                  *)
(*                                                                         *)
(* Every SQL statement or transaction of the code is one action; between   *)
(* two of them any other actor may step.  A worker is the loop of          *)
(* queria-worker; users are API callers; the repository is external.       *)
(*                                                                         *)
(* apply_git_manifest is a transaction of many statements and one action:  *)
(* it locks the job, the root and the active child documents first, so a   *)
(* cancel, a failure, a recovery or another run of the job waits and then  *)
(* re-checks the status; an approval writes a chunk whose foreign key      *)
(* needs the locked document, so it comes before or after, or one of the   *)
(* two is rolled back; a rejection commutes with it.  What its statements  *)
(* do see in between are the points the embedding worker records, and that *)
(* is in EmbeddingJobs.                                                    *)
(*                                                                         *)
(* Simplifications: one knowledge item and one chunk stand for the         *)
(* sections of a file, and only the last generation of the knowledge of a  *)
(* content is kept; locked_at is reduced to "older than the lease";        *)
(* attempts, results, error texts and audit rows are left out; a git       *)
(* source is never deactivated, because no code does it; a file of the     *)
(* clone is one that git tracks, the policy indexes and the tree holds, so *)
(* a path that is no longer tracked or no longer indexed counts as gone.   *)
(***************************************************************************)
EXTENDS Naturals

CONSTANTS
    Source,     \* root source documents of kind git_repo
    Trusted,    \* those whose metadata says trusted_auto_approve
    Path,       \* file paths of a repository
    Hash,       \* content hashes
    Worker,     \* worker processes (QUERIA_WORKER_IDENTITY)
    MaxJob,     \* bound: number of ingestion_job rows
    MaxRev,     \* bound: number of times the HEAD of a repository moves
    Faults,     \* may workers crash or lose a statement to an error?
    NoFile, NoSource, NoWorker

JobId == 1..MaxJob

ASSUME GitConstants ==
    /\ Trusted \subseteq Source
    /\ MaxJob \in Nat
    /\ MaxRev \in Nat
    /\ Faults \in BOOLEAN
    /\ NoFile \notin Hash
    /\ NoSource \notin Source
    /\ NoWorker \notin Worker

VARIABLES
    job,        \* job[j]: the j-th row of ingestion_job, in created_at order
    repo,       \* repo[s]: the clone the worker reads, as it is now (external)
    seen,       \* history: what repo[s] has shown since its active job was asked
    root,       \* root[s]: commit_sha and content_hash of the root document
    doc,        \* doc[s][p][h]: the child document with uri p and content h,
                \* and the last knowledge generated from it
    worker      \* worker[w]: where run_one is, and what it holds

vars == <<job, repo, seen, root, doc, worker>>

Files == [Path -> Hash \cup {NoFile}]
NoFiles == [p \in Path |-> NoFile]

\* A prepared manifest: the commit rev-parse named, and the files that were read
\* after it.  commit_sha is the first, content_hash a hash of the second.
Manifest == [rev : 0..MaxRev, files : Files]
NoManifest == [rev |-> 0, files |-> NoFiles]

\* HEAD and the files a run may find are two things: a checkout, a pull or an
\* editor changes the files one by one, before, after or without HEAD.
Clone == [rev : 0..MaxRev, files : Files]
EmptyClone == [rev |-> 0, files |-> NoFiles]

\* What the clone r shows of each path: its content, or that it is not there.
Shown(r) == {<<p, r.files[p]>> : p \in Path}

Active == {"queued", "running"}
Terminal == {"succeeded", "failed", "cancelled"}

\* asked is a history field: where HEAD was when the row was created.
Job == [source : Source \cup {NoSource},
        status : Active \cup Terminal \cup {"none"},
        lockedBy : Worker \cup {NoWorker},
        expired : BOOLEAN,
        cancel : BOOLEAN,
        asked : 0..MaxRev]

NoJob == [source |-> NoSource, status |-> "none", lockedBy |-> NoWorker,
          expired |-> FALSE, cancel |-> FALSE, asked |-> 0]

Row == [state : {"absent", "active", "inactive"},
        item : {"none", "proposed", "approved", "rejected", "superseded",
                "deprecated"},
        approval : {"none", "pending", "approved", "rejected"},
        chunk : {"none", "present"}]

AbsentRow == [state |-> "absent", item |-> "none", approval |-> "none",
              chunk |-> "none"]

\* The await points of run_one; those where a manifest is being or has been read.
Manifests == {"headed", "reading", "prepared", "confirmed"}
Busy == {"claimed", "loaded", "checked", "failing"} \cup Manifests

\* todo: the paths whose part of the manifest is still to be read.
WorkerState == [pc : Busy \cup {"down", "idle"},
                job : JobId \cup {0},
                manifest : Manifest,
                todo : SUBSET Path]

Down == [pc |-> "down", job |-> 0, manifest |-> NoManifest, todo |-> {}]
Idle == [pc |-> "idle", job |-> 0, manifest |-> NoManifest, todo |-> {}]

TypeOK ==
    /\ job \in [JobId -> Job]
    /\ repo \in [Source -> Clone]
    /\ seen \in [Source -> SUBSET (Path \X (Hash \cup {NoFile}))]
    /\ root \in [Source -> Manifest]
    /\ doc \in [Source -> [Path -> [Hash -> Row]]]
    /\ worker \in [Worker -> WorkerState]

Init ==
    /\ job = [j \in JobId |-> NoJob]
    /\ repo = [s \in Source |-> EmptyClone]
    /\ seen = [s \in Source |-> {}]
    /\ root = [s \in Source |-> NoManifest]
    /\ doc = [s \in Source |-> [p \in Path |-> [h \in Hash |-> AbsentRow]]]
    /\ worker = [w \in Worker |-> Down]

---------------------------------------------------------------------------
(* The API: trigger, retry and cancel.                                     *)

\* The partial unique index idx_ingestion_job_one_active_per_source.
NoActiveJob(s) ==
    \A j \in JobId : ~ (job[j].source = s /\ job[j].status \in Active)

\* Mutant: the insert without the partial unique index.
InsertJobUnchecked(s) ==
    /\ \E j \in JobId :
        /\ job[j].status = "none"
        /\ \A k \in 1..(j - 1) : job[k].status # "none"
        /\ job' = [job EXCEPT ![j] = [source |-> s, status |-> "queued",
                        lockedBy |-> NoWorker, expired |-> FALSE,
                        cancel |-> FALSE, asked |-> repo[s].rev]]
    /\ seen' = [seen EXCEPT ![s] = Shown(repo[s])]
    /\ UNCHANGED <<repo, root, doc, worker>>

\* The insert both trigger and retry end in.  With an active job the conflict
\* clause of trigger returns that job and the one of retry inserts nothing.
InsertJob(s) ==
    /\ NoActiveJob(s)
    /\ \E j \in JobId :
        /\ job[j].status = "none"
        /\ \A k \in 1..(j - 1) : job[k].status # "none"
        /\ job' = [job EXCEPT ![j] = [source |-> s, status |-> "queued",
                        lockedBy |-> NoWorker, expired |-> FALSE,
                        cancel |-> FALSE, asked |-> repo[s].rev]]
    /\ seen' = [seen EXCEPT ![s] = Shown(repo[s])]
    /\ UNCHANGED <<repo, root, doc, worker>>

Trigger(s) == InsertJob(s)

\* Mutant: retry requeues the same row instead of inserting a new one.
RetryInPlace(j) ==
    /\ job[j].status \in {"failed", "cancelled"}
    /\ NoActiveJob(job[j].source)
    /\ job' = [job EXCEPT ![j] = [@ EXCEPT !.status = "queued", !.cancel = FALSE,
                                           !.asked = repo[job[j].source].rev]]
    /\ seen' = [seen EXCEPT ![job[j].source] = Shown(repo[job[j].source])]
    /\ UNCHANGED <<repo, root, doc, worker>>

Retry(j) ==
    /\ job[j].status \in {"failed", "cancelled"}
    /\ InsertJob(job[j].source)

Cancel(j) ==
    /\ job[j].status \in Active
    /\ job' = [job EXCEPT ![j] = [@ EXCEPT
                   !.status = IF job[j].status = "queued" THEN "cancelled"
                                                          ELSE job[j].status,
                   !.cancel = TRUE]]
    /\ UNCHANGED <<repo, seen, root, doc, worker>>

---------------------------------------------------------------------------
(* The worker: run_one, statement by statement.                            *)

Goto(w, pc) == worker' = [worker EXCEPT ![w] = [@ EXCEPT !.pc = pc]]

\* run_one leaves for mark_failed and drops the manifest.
Fail(w) ==
    worker' = [worker EXCEPT ![w] = [pc |-> "failing", job |-> worker[w].job,
                                     manifest |-> NoManifest, todo |-> {}]]

\* The row of job j, unlocked and in the given status.
Released(j, status) ==
    [job[j] EXCEPT !.status = status, !.lockedBy = NoWorker, !.expired = FALSE]

\* Mutant: recovery requeues cancelled jobs too.
RestartIgnoringCancel(w) ==
    /\ worker[w].pc = "down"
    /\ job' = [j \in JobId |->
                 IF job[j].status = "running" /\ job[j].expired
                 THEN Released(j, "queued") ELSE job[j]]
    /\ worker' = [worker EXCEPT ![w] = Idle]
    /\ UNCHANGED <<repo, seen, root, doc>>

\* Mutant: a worker recovers only the jobs it had locked itself.
RestartOwnJobs(w) ==
    /\ worker[w].pc = "down"
    /\ job' = [j \in JobId |->
                 IF /\ job[j].status = "running" /\ job[j].expired
                    /\ ~ job[j].cancel /\ job[j].lockedBy = w
                 THEN Released(j, "queued") ELSE job[j]]
    /\ worker' = [worker EXCEPT ![w] = Idle]
    /\ UNCHANGED <<repo, seen, root, doc>>

\* Startup of the process: recover_expired_leases, then the loop.
Restart(w) ==
    /\ worker[w].pc = "down"
    /\ job' = [j \in JobId |->
                 IF job[j].status = "running" /\ job[j].expired /\ ~ job[j].cancel
                 THEN Released(j, "queued") ELSE job[j]]
    /\ worker' = [worker EXCEPT ![w] = Idle]
    /\ UNCHANGED <<repo, seen, root, doc>>

\* claim_next takes the oldest queued row; it does not look at the cancel flag.
Claim(w) ==
    /\ worker[w].pc = "idle"
    /\ \E j \in JobId :
        /\ job[j].status = "queued"
        /\ \A k \in 1..(j - 1) : job[k].status # "queued"
        /\ job' = [job EXCEPT ![j] = [@ EXCEPT !.status = "running",
                                          !.lockedBy = w, !.expired = FALSE]]
        /\ worker' = [worker EXCEPT ![w] = [@ EXCEPT !.pc = "claimed", !.job = j]]
    /\ UNCHANGED <<repo, seen, root, doc>>

\* The source is found as long as the job is still running, whoever locks it.
LoadSource(w) ==
    /\ worker[w].pc = "claimed"
    /\ IF job[worker[w].job].status = "running" THEN Goto(w, "loaded") ELSE Fail(w)
    /\ UNCHANGED <<job, repo, seen, root, doc>>

\* cancellation_requested, before and after the manifest is prepared.
CheckCancel(w) ==
    /\ worker[w].pc \in {"loaded", "prepared"}
    /\ IF job[worker[w].job].cancel THEN Fail(w)
       ELSE Goto(w, IF worker[w].pc = "loaded" THEN "checked" ELSE "confirmed")
    /\ UNCHANGED <<job, repo, seen, root, doc>>

\* The steps of the snapshot, with an await between any two: rev-parse, ls-files
\* and one read per file, which need not see the same commit.
ReadHead(w) ==
    /\ worker[w].pc = "checked"
    /\ worker' = [worker EXCEPT ![w] = [@ EXCEPT !.pc = "headed",
                      !.manifest = [rev |-> repo[job[worker[w].job].source].rev,
                                    files |-> NoFiles],
                      !.todo = Path]]
    /\ UNCHANGED <<job, repo, seen, root, doc>>

\* git also lists files that the tree does not hold or the policy does not index.
ListFiles(w) ==
    /\ worker[w].pc = "headed"
    /\ \E listed \in SUBSET Path :
        /\ \A p \in Path \ listed : repo[job[worker[w].job].source].files[p] = NoFile
        /\ worker' = [worker EXCEPT ![w] = [@ EXCEPT
                        !.pc = IF listed = {} THEN "prepared" ELSE "reading",
                        !.todo = listed]]
    /\ UNCHANGED <<job, repo, seen, root, doc>>

\* A listed file that is no longer one to index is skipped; if it cannot be
\* inspected or read, the preparation fails.
ReadFile(w, p) ==
    /\ worker[w].pc = "reading"
    /\ p \in worker[w].todo
    /\ LET r == repo[job[worker[w].job].source]
           rest == worker[w].todo \ {p}
       IN  worker' = [worker EXCEPT ![w] = [@ EXCEPT
                        !.pc = IF rest = {} THEN "prepared" ELSE "reading",
                        !.manifest.files[p] = r.files[p],
                        !.todo = rest]]
    /\ UNCHANGED <<job, repo, seen, root, doc>>

\* Mutant: a failed preparation is tried again instead of failing the job.
PrepareRetried(w) ==
    /\ worker[w].pc \in {"checked", "headed", "reading"}
    /\ worker' = [worker EXCEPT ![w] = [Idle EXCEPT !.pc = "loaded", !.job = worker[w].job]]
    /\ UNCHANGED <<job, repo, seen, root, doc>>

\* The policy, the secret scan, git, a file that is gone or the parser may fail.
PrepareFails(w) ==
    /\ worker[w].pc \in {"checked", "headed", "reading"}
    /\ Fail(w)
    /\ UNCHANGED <<job, repo, seen, root, doc>>

\* Mutant: mark_failed without `status = 'running'`.
MarkFailedAnyStatus(w) ==
    /\ worker[w].pc = "failing"
    /\ LET j == worker[w].job IN
       job' = [job EXCEPT ![j] =
                 Released(j, IF job[j].cancel THEN "cancelled" ELSE "failed")]
    /\ worker' = [worker EXCEPT ![w] = Idle]
    /\ UNCHANGED <<repo, seen, root, doc>>

MarkFailed(w) ==
    /\ worker[w].pc = "failing"
    /\ LET j == worker[w].job IN
       job' = IF job[j].status = "running"
              THEN [job EXCEPT ![j] =
                      Released(j, IF job[j].cancel THEN "cancelled" ELSE "failed")]
              ELSE job
    /\ worker' = [worker EXCEPT ![w] = Idle]
    /\ UNCHANGED <<repo, seen, root, doc>>

---------------------------------------------------------------------------
(* apply_git_manifest: one transaction.                                    *)

\* The content of the active child document of path p, if there is one.
ActiveHash(s, p) ==
    IF \E h \in Hash : doc[s][p][h].state = "active"
    THEN CHOOSE h \in Hash : doc[s][p][h].state = "active"
    ELSE NoFile

\* Mutant: index_file asks for approval whatever the trust of the source.
FreshRowUntrusted(s) ==
    [state |-> "active", item |-> "proposed", approval |-> "pending",
     chunk |-> "none"]

\* index_file: a new generation of knowledge for a new or changed document.
FreshRow(s) ==
    IF s \in Trusted
    THEN [state |-> "active", item |-> "approved", approval |-> "approved",
          chunk |-> "present"]
    ELSE [state |-> "active", item |-> "proposed", approval |-> "pending",
          chunk |-> "none"]

\* Mutant: retirement leaves the pending approvals of the items it ends.
RetiredRowLeavingApproval(r, state, status) ==
    [state |-> state,
     item |-> IF r.item \in {"proposed", "approved"} THEN status ELSE r.item,
     approval |-> r.approval,
     chunk |-> "none"]

\* retire_generated_knowledge: the document ends in `state`, its items in `status`.
RetiredRow(r, state, status) ==
    [state |-> state,
     item |-> IF r.item \in {"proposed", "approved"} THEN status ELSE r.item,
     approval |-> IF r.approval = "pending" THEN "rejected" ELSE r.approval,
     chunk |-> "none"]

\* Mutant: the documents left over after the loop stay active.
AppliedRowKeepingRemoved(s, files, p, h) ==
    LET old == ActiveHash(s, p) IN
    CASE files[p] = h /\ old # h ->
            FreshRow(s)
      [] old = h /\ files[p] \notin {h, NoFile} ->
            RetiredRow(doc[s][p][h], "absent", "superseded")
      [] OTHER ->
            doc[s][p][h]

\* What the loop over the manifest and the one over the left-over documents do
\* to the document (p, h).  The document of a changed file moves to the new hash,
\* so none has the old one any more; that of a removed file is deactivated.
AppliedRow(s, files, p, h) ==
    LET old == ActiveHash(s, p) IN
    CASE files[p] = h /\ old # h ->
            FreshRow(s)
      [] old = h /\ files[p] \notin {h, NoFile} ->
            RetiredRow(doc[s][p][h], "absent", "superseded")
      [] old = h /\ files[p] = NoFile ->
            RetiredRow(doc[s][p][h], "inactive", "deprecated")
      [] OTHER ->
            doc[s][p][h]

\* Mutant: the insert revives the row that owns the key.
HashNeverTaken(s, files) == FALSE

\* unique (organization_id, project_id, uri, content_hash): an inactive document
\* still owns its hash, so inserting or moving a document to it is an error.
HashTaken(s, files) ==
    \E p \in Path : files[p] # NoFile /\ doc[s][p][files[p]].state = "inactive"

\* Mutant: the final update of the transaction without its cancel test.
ApplyDespiteCancel(w) ==
    LET j == worker[w].job IN
    /\ job[j].status = "running"
    /\ ~ HashTaken(job[j].source, worker[w].manifest.files)

\* Mutant: the transaction does not look at the status of the job.
ApplyAnyStatus(w) ==
    LET j == worker[w].job IN
    /\ ~ job[j].cancel
    /\ ~ HashTaken(job[j].source, worker[w].manifest.files)

ApplySucceeds(w) ==
    LET j == worker[w].job IN
    /\ job[j].status = "running"
    /\ ~ job[j].cancel
    /\ ~ HashTaken(job[j].source, worker[w].manifest.files)

\* With faults the commit may succeed and its acknowledgement be lost.
Apply(w) ==
    /\ worker[w].pc = "confirmed"
    /\ ApplySucceeds(w)
    /\ LET j == worker[w].job
           s == job[j].source
           m == worker[w].manifest
       IN  /\ doc' = [doc EXCEPT ![s] =
                        [p \in Path |-> [h \in Hash |-> AppliedRow(s, m.files, p, h)]]]
           /\ root' = [root EXCEPT ![s] = m]
           /\ job' = [job EXCEPT ![j] = Released(j, "succeeded")]
    /\ \/ worker' = [worker EXCEPT ![w] = Idle]
       \/ Faults /\ Fail(w)
    /\ UNCHANGED <<repo, seen>>

\* Any failed statement rolls the transaction back; run_one then marks the job.
ApplyRolledBack(w) ==
    /\ worker[w].pc = "confirmed"
    /\ Faults \/ ~ ApplySucceeds(w)
    /\ Fail(w)
    /\ UNCHANGED <<job, repo, seen, root, doc>>

---------------------------------------------------------------------------
(* Reviewers of proposed items.                                            *)

Approve(s, p, h) ==
    /\ doc[s][p][h].approval = "pending"
    /\ doc[s][p][h].item = "proposed"
    /\ doc' = [doc EXCEPT ![s][p][h] = [@ EXCEPT !.item = "approved",
                                !.approval = "approved", !.chunk = "present"]]
    /\ UNCHANGED <<job, repo, seen, root, worker>>

Reject(s, p, h) ==
    /\ doc[s][p][h].approval = "pending"
    /\ doc[s][p][h].item = "proposed"
    /\ doc' = [doc EXCEPT ![s][p][h] = [@ EXCEPT !.item = "rejected",
                                                 !.approval = "rejected"]]
    /\ UNCHANGED <<job, repo, seen, root, worker>>

---------------------------------------------------------------------------
(* The environment.                                                        *)

\* The history of the clone, kept while a job of s is active.
Remember(s) ==
    seen' = IF NoActiveJob(s) THEN seen
            ELSE [seen EXCEPT ![s] = @ \cup Shown(repo'[s])]

\* HEAD moves: a commit, a pull, a checkout.
Advance(s) ==
    /\ repo[s].rev < MaxRev
    /\ repo' = [repo EXCEPT ![s].rev = @ + 1]
    /\ UNCHANGED <<job, seen, root, doc, worker>>

\* A file appears, changes or goes.
Write(s, p, c) ==
    /\ repo[s].files[p] # c
    /\ repo' = [repo EXCEPT ![s].files[p] = c]
    /\ Remember(s)
    /\ UNCHANGED <<job, root, doc, worker>>

\* locked_at falls behind now() - lease_seconds; nothing renews a lease.
LeaseExpires(j) ==
    /\ job[j].status = "running"
    /\ ~ job[j].expired
    /\ job' = [job EXCEPT ![j] = [@ EXCEPT !.expired = TRUE]]
    /\ UNCHANGED <<repo, seen, root, doc, worker>>

\* A statement of run_one fails: `?` leaves it and the loop goes on to the next
\* poll.  Errors of the preparation and of the transaction fail the job instead.
StatementError(w) ==
    /\ Faults
    /\ worker[w].pc \in {"claimed", "loaded", "prepared", "failing"}
    /\ worker' = [worker EXCEPT ![w] = Idle]
    /\ UNCHANGED <<job, repo, seen, root, doc>>

Crash(w) ==
    /\ Faults
    /\ worker[w].pc # "down"
    /\ worker' = [worker EXCEPT ![w] = Down]
    /\ UNCHANGED <<job, repo, seen, root, doc>>

RunOne(w) ==
    \/ Claim(w)
    \/ LoadSource(w)
    \/ CheckCancel(w)
    \/ ReadHead(w)
    \/ ListFiles(w)
    \/ \E p \in Path : ReadFile(w, p)
    \/ PrepareFails(w)
    \/ Apply(w)
    \/ ApplyRolledBack(w)
    \/ MarkFailed(w)

Next ==
    \/ \E s \in Source : Trigger(s)
    \/ \E j \in JobId : Retry(j)
    \/ \E j \in JobId : Cancel(j)
    \/ \E w \in Worker : Restart(w)
    \/ \E w \in Worker : RunOne(w)
    \/ \E s \in Source, p \in Path, h \in Hash : Approve(s, p, h)
    \/ \E s \in Source, p \in Path, h \in Hash : Reject(s, p, h)
    \/ \E s \in Source : Advance(s)
    \/ \E s \in Source, p \in Path, c \in Hash \cup {NoFile} : Write(s, p, c)
    \/ \E j \in JobId : LeaseExpires(j)
    \/ \E w \in Worker : StatementError(w)
    \/ \E w \in Worker : Crash(w)

Spec == Init /\ [][Next]_vars

\* The supervisor starts every worker and the loop of main never stops; nobody
\* is obliged to edit, trigger, cancel or decide.
Fairness == \A w \in Worker : WF_vars(Restart(w)) /\ WF_vars(RunOne(w))

FairSpec == Spec /\ Fairness
---------------------------------------------------------------------------
(* Safety invariants.                                                      *)

\* Never two queued or running jobs for one source, whatever mix of triggers,
\* retries, lease recoveries and failures happened (migration 0400, line 17).
OneActiveJobPerSource ==
    \A j, k \in JobId :
        (/\ job[j].status \in Active /\ job[k].status \in Active
         /\ job[j].source = job[k].source) => j = k

\* A cancel request is never lost and never invented: only a cancelled or a
\* still running job carries one.  claim_next relies on it, since it takes a
\* queued row without reading cancel_requested_at.
CancelIsAccountedFor ==
    \A j \in JobId :
        /\ job[j].status \in {"queued", "succeeded", "failed"} => ~ job[j].cancel
        /\ job[j].status = "cancelled" => job[j].cancel

\* The active child documents are exactly the manifest whose content_hash the root
\* document records: no half-applied manifest, no document left over.  They need
\* not be the files of the commit_sha beside it.
DocumentsMatchRoot ==
    \A s \in Source, p \in Path, h \in Hash :
        doc[s][p][h].state = "active" <=> root[s].files[p] = h

\* Item, approval and chunk of a document agree across ingestion, reviewers and
\* retirement: a pending approval is for a proposed item of an active document
\* (so approving cannot revive retired knowledge), a chunk belongs to approved
\* knowledge of an active document, a trusted source waits for no reviewer.
KnowledgeAgrees ==
    \A s \in Source, p \in Path, h \in Hash :
        LET r == doc[s][p][h] IN
        /\ r.approval = "pending" <=> r.item = "proposed"
        /\ r.item \in {"proposed", "approved"} => r.state = "active"
        /\ r.chunk # "none" <=> r.item = "approved"
        /\ r.state = "active" /\ s \in Trusted => r.item = "approved"

\* What a worker holds of a manifest for a job that is still active was read after
\* that job was requested, its HEAD and each of its files, and nothing newer has
\* been applied, even when the lease expired and another worker runs the same job.
ManifestIsFresh ==
    \A w \in Worker :
        worker[w].pc \in Manifests =>
            LET j == job[worker[w].job]
                m == worker[w].manifest
            IN  j.status \in Active =>
                    /\ j.asked <= m.rev
                    /\ root[j.source].rev <= m.rev
                    /\ \A p \in Path \ worker[w].todo : <<p, m.files[p]>> \in seen[j.source]

\* The inductive invariant behind these: rows in use name a source, a busy
\* worker holds a row in use, and nothing is known of HEAD or of the files that
\* the clone has not shown.
RowsAreFilled ==
    \A j \in JobId : job[j].status # "none" => job[j].source \in Source

WorkersHoldJobs ==
    \A w \in Worker :
        IF worker[w].pc \in Busy
        THEN worker[w].job \in JobId /\ job[worker[w].job].status # "none"
        ELSE worker[w].job = 0

RevisionsAreKnown ==
    /\ \A s \in Source : root[s].rev <= repo[s].rev
    /\ \A j \in JobId : job[j].status # "none" => job[j].asked <= repo[job[j].source].rev
    /\ \A w \in Worker : worker[w].pc \in Manifests =>
            worker[w].manifest.rev <= repo[job[worker[w].job].source].rev

\* The clone as it is now is part of what it has shown; a manifest has no file
\* before the listing, and nothing left to read once it is complete.
FilesAreKnown ==
    /\ \A j \in JobId : job[j].status \in Active =>
            Shown(repo[job[j].source]) \subseteq seen[job[j].source]
    /\ \A w \in Worker :
        /\ worker[w].pc = "headed" => worker[w].manifest.files = NoFiles
        /\ worker[w].pc \in {"prepared", "confirmed"} => worker[w].todo = {}

\* Everything the proofs of GitIngestionProofs carry from state to state.
Inductive ==
    /\ TypeOK
    /\ RowsAreFilled
    /\ WorkersHoldJobs
    /\ RevisionsAreKnown
    /\ FilesAreKnown
    /\ OneActiveJobPerSource
    /\ CancelIsAccountedFor
    /\ ManifestIsFresh
    /\ DocumentsMatchRoot
    /\ KnowledgeAgrees

(* Action properties.                                                      *)

\* A finished job never changes again: a worker whose lease expired long ago
\* cannot fail or complete a job somebody else finished.
TerminalIsFinal ==
    [][\A j \in JobId : job[j].status \in Terminal => job'[j] = job[j]]_vars

\* Documents and root move only in the step that turns a running job of that
\* source, not asked to cancel, into succeeded: failed and cancelled runs leave
\* no trace, and one success applies one manifest.
AppliedOnlyBySuccess ==
    [][\A s \in Source :
        (root'[s] # root[s] \/ \E p \in Path, h \in Hash :
                                 doc'[s][p][h].state # doc[s][p][h].state) =>
        \E j \in JobId :
            /\ job[j].source = s
            /\ job[j].status = "running" /\ ~ job[j].cancel
            /\ job'[j].status = "succeeded"]_vars

\* What recover_expired_leases leaves behind, although the plan (2026-07-04-git-
\* ingestion-indexing-mvp.md:113) has abandoned jobs recovered: a running job with a cancel
\* request whose worker is gone is never touched again by anyone, and its source
\* cannot be ingested until an operator edits the row.
AbandonedCancelIsStuck ==
    [][\A j \in JobId :
        (/\ job[j].status = "running" /\ job[j].cancel
         /\ \A w \in Worker : worker[w].job # j) =>
            job'[j].status = "running"]_vars

\* What the insert of a child document leaves behind, although the plan (2026-07-
\* 04-git-ingestion-indexing-mvp.md:99) has documents upserted: a file that was
\* removed never comes back with its old content, because its inactive row keeps
\* the unique key, and no run over a commit that contains it succeeds.
RemovedContentStaysOut ==
    [][\A s \in Source, p \in Path, h \in Hash :
        doc[s][p][h].state = "inactive" => doc'[s][p][h].state = "inactive"]_vars

(* Liveness.                                                               *)

\* Once the workers stop crashing, every queued job comes to an end, or is left
\* running by a worker that lost a statement: no error of the preparation is
\* retried for ever.  One worker that stays up is not enough: every restart of
\* another requeues the jobs whose lease has expired, the live worker's too.
QueuedJobEnds ==
    <>[](\A w \in Worker : worker[w].pc # "down") =>
        \A j \in JobId : job[j].status = "queued" ~>
            \/ job[j].status \in Terminal
            \/ job[j].status = "running" /\ \A w \in Worker : worker[w].job # j

\* With faults, a running job whose lease has expired while a worker is down is
\* requeued by that worker's startup, unless it ends or is cancelled before.
ExpiredLeaseIsRecovered ==
    \A j \in JobId :
        (/\ job[j].status = "running" /\ job[j].expired
         /\ \E w \in Worker : worker[w].pc = "down") ~>
        (job[j].status # "running" \/ job[j].cancel)

(* Refinement.                                                             *)

ActiveJobs(s) ==
    {j \in JobId : job[j].source = s /\ job[j].status \in Active}

NoRequest == MaxRev + 1

Content == [s \in Source |-> [p \in Path |-> ActiveHash(s, p)]]

Floor == [s \in Source |-> IF ActiveJobs(s) = {} THEN NoRequest
                           ELSE job[CHOOSE j \in ActiveJobs(s) : TRUE].asked]

Head == [s \in Source |-> repo[s].rev]
Tree == [s \in Source |-> Shown(repo[s])]

Mirror == INSTANCE SourceMirror
            WITH head <- Head, shown <- Tree, mirror <- root, content <- Content,
                 floor <- Floor, since <- seen

\* Jobs, workers, leases, cancellations and crashes implement the mirror: every
\* step moves HEAD or the files, is a request, an atomic publication, a request
\* given up, or invisible.
MirrorsTheRepository == Mirror!MirrorSpec
=============================================================================
