# Queria: TLA+ specifications

Queria is a knowledge backend for coding agents: it ingests Git repositories,
files sent by agents and short memories into PostgreSQL, embeds their chunks
into a Qdrant collection, and answers retrieval requests from both. PostgreSQL
is canonical; the index only proposes candidates. This directory models the
parts of the code under `src/` where several actors read and change the same
rows, objects or points, checks them with TLC on small instances, and proves
every safety property the passing runs check with TLAPS, for every instance.

`PROJECT.json` lists the components, the runs, the mutations each property is
able to detect, the source lines every definition stands for, the disagreements
found between code and documentation, the hazards of the code and the theorems.

## Inventory

| Component | Code | State | Operations | Hard behaviour | Module |
|---|---|---|---|---|---|
| Git ingestion jobs | `queria-db/ingestion.rs`, `queria-worker/jobs.rs`, `queria-api/http/ingestion_jobs.rs`, `sources.rs` | `ingestion_job` rows, root and child `source_document`, items, approvals, chunks | trigger, retry, cancel, claim, check cancel, apply manifest, mark failed, recover leases | several workers, stalls past the lease, cancel races, lost statements, restart | `GitIngestion` |
| Worker process | `queria-worker/main.rs` | loop position | recover at startup, run Git job, run embedding job, backup tick | crash, restart, kinds of work in turn | both job modules, `Backup` |
| Embedding jobs | `queria-db/embedding.rs`, `queria-worker/embedding_jobs.rs`, `queria-api/http/embedding_jobs.rs` | chunk embedding columns, attempts, profile; jobs of two kinds | claim batch, upsert, mark, fail, pause, release, delete points, recover | external index, late answers, retirement under a batch, backoff, attempt limit | `EmbeddingJobs` |
| Vector index, embedding provider | `queria-search/qdrant.rs`, `voyage.rs` | points (external) | upsert, delete, search; embed | calls that fail, that succeed and lose the answer | inside `EmbeddingJobs`, `ScratchMemory`, `Retrieval` |
| Scratch memory | `queria-search/scratch_embed.rs`, `repositories/projects/scratch.rs`, `agent_index.rs` | scratch item and chunk, its point | look up, insert, embed, mark ready, undo | concurrent same content, failure of the undo, client disconnect | `ScratchMemory` |
| index-local files and review | `agent_index.rs`, `needs_review.rs` | items in review per path and content | index file, supersede, promote, reject, in bulk | READ COMMITTED statements, row locks, partial bulks | `NeedsReview` |
| Project resolution, agent tokens | `queria-api/http/agent_index_local.rs`, `agent_index.rs`, `tokens.rs`, `permissions.rs` | projects, their origin, documents, tokens and their slugs | find by origin, by slug, compare, number, create, attach; issue, revoke, authorize | create race of two origins, permissions read before they change | `LocalIndex` |
| Local gates and upload | `queria-ingestion/local_index_gates.rs`, `queria-cli/index_here.rs` | the laptop's plan and batches | discover roots, gate, plan, batch, upload | nested trees, limits of a request, a batch that fails | `LocalFiles`, `LocalIndex` |
| Users, sessions, organizations, invites, setup | `repositories/auth.rs`, `orgs.rs`, `http/auth.rs`, `orgs.rs`, `setup.rs` | accounts, memberships, invites, sessions | first run, log in, create organization, invite, accept | check-then-insert, account created between a read and its lock | `Membership` |
| Retrieval | `queria-search/retrieval.rs`, `rerank.rs`, `compress.rs`, `queria-db/hybrid.rs` | none | lexical and vector search, fuse, hydrate, rerank, compress | stages that read at different times, fallbacks, limits | `Retrieval` |
| Evaluation | `queria-core/evaluation.rs`, `queria-search/evaluation.rs`, `queria-cli/evaluation.rs` | reports | ask the golden questions, retry, judge | fallbacks counted as failures | in `Retrieval`; averages not |
| Backup, restore, retention | `queria-backup`, `queria-worker/backup_jobs.rs`, `queria-cli/restore_drill.rs` | `backup_record`, objects, the drill's targets | hourly tick, dump, snapshot, manifest, retention, drill | several workers, keys made of the clock, partial runs, deletion under a drill | `Backup` |
| Proposals, approvals | `agent_access.rs`, `approvals.rs` | draft items, approvals | propose, approve, reject | decision races | `Approve`, `Reject` in `GitIngestion`; proposals of agents not |
| Parser, secret scanner, Git access | `queria-ingestion` | none | split a file, scan, read HEAD, list and read the files | external processes that fail, a clone that changes while it is read | the reads of a snapshot in `GitIngestion`; texts not |
| API shell, MCP, CLI screens, admin pages, configuration | `queria-api/app.rs`, `queria-mcp`, `queria-cli`, `admin` | none of their own | adapters and views | – | not modelled: they only call the operations above |

Components meet in the database. The API inserts jobs that workers claim; a Git
run retires chunks the embedding jobs are working on and queues `qdrant_delete`
jobs; reviewers approve items whose chunks the backfill then claims; an upload
creates projects, extends tokens and fills the review queue; retrieval reads what
all of them write; the backup reads everything. No process sends another a
message, so an interleaving of statements is an interleaving of the system.

### What makes each part correct

* Git ingestion: one active job per source; the documents of a source are those
  of one manifest, all of it or nothing, read after the request it answers and
  under a HEAD not older than the one before; knowledge, approvals and chunks
  agree with the documents; ended jobs stay ended; requested jobs end.
* Embedding: a ready chunk has its point; a point is deleted only when its chunk
  is gone; a finished embedding is not undone by a late worker; the point of a
  retired chunk is queued for deletion unless it was recorded in the middle of
  the retirement; jobs end.
* Scratch memory: one row per content; what the call that created a row, or a
  hit after it, was told is saved stays searchable (a hit during that call may be
  told too early); only a call that died leaves something behind.
* Review: decisions are final; nothing leaves the queue except for a newer
  version; one version of a path waits.
* Project resolution: a token names projects of its organization; no request
  takes back a grant or a revocation; files of two remotes do not end in one
  project; every file of an upload is stored, skipped for a reason, or reported.
* Membership: nobody has a seat without a first run or an invite; an account has
  one organization; an e-mail has one account.
* Retrieval: an answer shows only what the caller may see, as it was during the
  request; compression drops no trusted version; vectors do not crowd out words.
* Backup: what a succeeded record names is stored for the retention period, and
  the latest backup survives retention, but for the objects the store refused
  with a status nobody reads; a restore does not mix two backups.

## Plan

Done: `SourceMirror`, `GitIngestion`, `EmbeddingJobs`, `ScratchMemory`,
`NeedsReview`, `LocalFiles`, `LocalIndex`, `Membership`, `Retrieval`, `Backup`,
and theorems about the safety properties of all of them (`GitIngestionProofs`,
with the refinement of `SourceMirror`, `EmbeddingProofs`, `ScratchProofs`,
`ReviewProofs`, `LocalIndexProofs`, with the operators of `LocalFiles`,
`MembershipProofs`, `RetrievalProofs`, `BackupProofs`).

Left, in this order:

1. `Proposals`: agents' proposals and their decision by two reviewers, composed
   with the chunks the backfill claims.
2. The composition of `EmbeddingJobs` and `NeedsReview`: the status of an item,
   constant in the first, changes while its chunk is claimed.
3. The sections of the parser (line ranges, oversized sections, overlaps) as
   operators against a reference definition.
4. The enqueue that is answered with a job past its last claim
   (`embedding.rs:180`), as a property of chunks and not of jobs.

## Modules

### SourceMirror
The abstract promise of Git ingestion: a source is a mirror of its clone that
jumps, atomically, to one manifest: a HEAD that is not older than the one it
records and not older than the open request, and for each path something the
working tree has shown since that request. It does not promise that the files
are those of one commit, because the code does not ensure it. It knows nothing of
jobs or workers.

### GitIngestion
`job` are the rows of `ingestion_job` of type `git_ingestion`; `repo` is the clone
(external): its HEAD and the files a reader finds in it, which change
independently, as a checkout, a pull or an editor does; `root` and `doc` are
`source_document` rows, with the knowledge item, approval and chunk generated
from each; `worker` is the position of `run_one` and what it holds across awaits.
Actions: `Trigger`, `Retry`, `Cancel` (API), claim, both cancel checks, the reads
of a snapshot, the manifest transaction (success, refusal, unique violation),
`MarkFailed`, `Approve` and `Reject`, and the environment: HEAD and files that
change, lease expiry, lost statements, crash, restart with recovery.

A snapshot is read as `git.rs:218-282` reads it: `ReadHead` (`rev-parse HEAD`),
`ListFiles` (`ls-files`, which may also name files that the tree lacks or the
policy refuses) and one `ReadFile` per listed file, with an await between any
two; `PrepareFails` may end it anywhere. The manifest may therefore mix commits.
`seen`, a history variable, is what the clone has shown of each path since the
active job was requested.

The manifest transaction is one action. It is many READ COMMITTED statements, but
it locks the job, the root and the active child documents first (`for update`): a
cancel, a failure, a recovery or another run of the job waits for it and then
re-checks the status. An approval inserts a chunk whose foreign key needs the
locked document, so it comes before or after or one of the two is rolled back; a
rejection commutes with the statements. One writer does come between them: the
embedding worker records points in `mark_batch_ready` without any of these
locks. That race is about points only, and it is in `EmbeddingJobs`, where the
retirement of a file is two actions; `GitIngestion` says nothing of points.
Which document rows are retired, revived, inserted or kept is computed per
document (`RetiredRow`, `FreshRow`, `AppliedRow`).

### EmbeddingJobs
`chunk` are chunk rows (status, attempts, profile, recorded point, age);
`point` is the index (external); `job` the `embedding_backfill` and
`qdrant_delete` rows; `worker` the position of the embedding `run_one`, or of a
Git run that is replacing a file. The retirement of a file takes two statements
in one READ COMMITTED transaction and is therefore two actions (`QueueDelete` and
`RetireFile`), between which other workers may commit. `late`, a history field of
a chunk, says that its point was recorded in between. A provider call may fail
retryably or finally, and may lose its answer after the index applied it.

Left out: status `stale`, which is claimed exactly like `failed` and written by
no code after the migration; `ingestion_job.attempts`, which only sets the length of a backoff;
item status, constant while its chunk is claimed (see the plan).

### ScratchMemory
`item` are scratch items with their chunk, `point` the index, `call` the calls of
`index_memory_with_sync_embed` at their await points. The lookup and the insert are separate actions,
the insert fails on the partial unique index. `told`, a history field of a row,
distinguishes the answers about it: `created`, and an idempotent hit after the
call that created it had ended well, are "surely"; a hit while that call is under
way, or after it died, is "early", and may be wrong. `Die` covers a process that ends, a
client that disconnects (the handler's future is dropped at an await) and a
statement that commits and loses its answer.

### NeedsReview
`item` are the rows in insertion order, `call` the indexing transactions between
their statements, `bulk` the bulk decisions with the ids still to decide. The
supersede statement is two actions: it finds rows by what is committed when it
starts, then takes their locks, re-reading each row that changed, as PostgreSQL
does under READ COMMITTED. Promotion and rejection of one item lock its row
(`for update`) and are one action each, refused while a transaction holds the
row. Left out: the upsert of `source_document`, the lane copied to chunk
metadata, audit rows. A deadlock reported by PostgreSQL is `Abort`.

### LocalFiles
The laptop's side of `index-here` as operators: which work trees are discovered,
which tracked files a root plans, how plans are packed into batches (a root that
exceeds a limit is cut into pieces), and the gates, which the server applies
again with its own list of extensions. `Pack` is the loop of `build_batches`,
over files and over pieces: a recursive function along the items, each `Placed`
with the ones before it or on its own.

### LocalIndex
`project`, `doc` and `token` are rows, `client` the uploads of laptops, `request`
what `resolve_or_create_project_slug` and the handler hold between statements:
the origin of the root, the slug they look for, the project they resolved it to,
the copy of the token's slugs. Each statement is an action: find by origin, by
slug, compare with the recorded origin, try the next number, create, attach,
index or skip a file, next root, answer. `CreateForAgent` answers a taken slug
with its project, whoever made it, as the handler does. Users create projects
and tokens, revoke them, and review files meanwhile. Inside, a file waits for
review or does not; how it gets there is `NeedsReview`.

### Membership
`org`, `user`, `seat` (`org_membership`), `invite`, `session` are rows; `call` are
transactions between the read they decide by and their commit. `BeginAccept`
takes the row locks of `accept_invite`, which is why two acceptances of one
invite, or of one account, do not overlap; an account that does not exist yet
cannot be locked. No code changes a role, removes a member, or revokes an invite
or a session. Commit actions carry the unique indexes as guards; where one fails
the call can only roll back.

### Retrieval
One request through its stages: `LexicalSearch`, `VectorSearch` (or the
fallback), `Hydrate`, `RerankAndAnswer`. Between them `Decide` and `Retire`
change items. What a person, an agent (over MCP or the HTTP hook) and the
evaluation may ask for are separate actions. Ranks by text and by vector are
arbitrary orders; the vector index returns any selection of the points that
match its filter, also of retired chunks. Fusion, compression, the application of
reranked hits and the size of the pool are the code's, stated by the place of an
element in an order (`InPlace`, `At`) instead of by a sort. The evaluation asks its
questions in order, asks again when vectors failed and nothing came back, and
stores a report.

### Backup
`dumps`, `snapshots` and `manifests` are the objects, functions of the time in
their key; `record` are the rows of `backup_record`; `worker` is where a backup
is, `drill` where a restore drill is, `target` the databases it restores into.
An upload either stores its object or is refused by the store with a status:
`rust-s3` is built without `fail-on-err`, `put_object` reads no status, and the
backup goes on in both cases (`Refused`; `MaxRefused` bounds how often).
The step from one external call to the next is an action, so that another worker
or the drill may come in between. Retention deletes rows by their age, and of
the objects with a date before the cutoff any selection, as a listing or a
deletion may fail.

### MC modules
`MCGitIngestion`, `MCEmbeddingJobs`, `MCScratchMemory`, `MCNeedsReview`,
`MCMembership` and `MCBackup` add symmetry sets; `MCLocalIndex` also defines
what the laptops may find, and `MCRetrieval` the organizations, chunks and
questions. Symmetry is used for safety runs only.

## Runs

| Run | Instance | Checks |
|---|---|---|
| GitControl | 1 untrusted source, 1 file, 2 contents, 2 workers, 2 jobs, HEAD moves once, faults, reviewers | one active job per source, freshness of the manifest, knowledge agreement; ended jobs are final, documents change by success only, abandoned cancels stay; refinement of `SourceMirror` |
| GitData | 1 untrusted source, 2 files, HEAD moves once, 3 jobs, 1 worker | documents against the recorded manifest when files come, go and come back, also between its reads; a removed content stays out |
| GitLive | 1 trusted source, 1 file, 2 workers, 2 jobs, faults, fair | a queued job ends once crashes stop; a job whose lease expired is queued again by a restart, cancels excepted; trusted knowledge waits for no reviewer |
| EmbedControl | 1 file chunk, 2 workers, 2 jobs, 2 attempts, old default profile, faults | ready has point, deletions name no live chunk, recorded points are queued, inductive invariant; ready stays, jobs end once |
| EmbedLive | 2 chunks, 2 workers, pauses, fair, no faults | backfills end |
| ScratchFaulty | 3 calls, 2 contents, 3 rows, faults | one row per content, told is saved, orphans come only from abandoned calls and stay unsaved |
| ReviewRaces | 2 transactions, 1 bulk, 2 paths, 2 contents, 3 rows, faults | nothing dropped, one version waits unless transactions overlapped, decisions final |
| MembershipRaces | 2 requests at once, 2 organizations, 2 e-mails, 2 accounts, 2 invites | accounts are unique unless requests overlapped, seat and home agree, seats are earned |
| LocalIndexRaces | 2 laptops, 3 uploads, 1 token, 2 remotes of one name, 2 spellings, 3 projects | a token stays in its organization, remotes stay apart unless requests overlapped, every file is accounted for, grants and revocations are kept |
| RetrievalStages | 6 chunks in 3 projects of 2 organizations, limits to 2, pool of 4, 1 change meanwhile | answers are entitled, compression keeps trust, words are not starved |
| BackupRaces | 2 workers, 4 days of 2 instants, 2 records, 2 versions of the data, 2 days kept, 1 object refused | what a succeeded record names is stored or was refused, the latest manifest and what it names survive retention unless a newer manifest was refused, a restore is of one backup |
| BackupRefused | 1 worker, 4 days of 2 instants, 2 records, 2 days kept, 1 object refused | violation: the latest manifest is deleted after a newer one was refused |

All runs but BackupRefused are expected to pass; where the code does something
its documents do not say, the property of a run states what the code does (see
below). BackupRefused checks what a comment says, and TLC finds it violated.

History variables, which no code has and no guard reads, say what a promise is
conditional on or compare with the past: `left` (a field of a scratch row) is
set when a call dies or fails to undo its row; `told`, `late` and `seen` are
described with their modules; `asked` is where HEAD was when a job was inserted;
`overlapped` (`NeedsReview`,
`Membership`, `LocalIndex`) when a call starts while another is under way;
`founders` are the users made by a first run; `held` the statuses an item had
since the request began, and `changes` counts them; `taken` the pairs of dump and
snapshot a manifest was stored for; `refused` the keys of refused objects.

### Bounds
`MaxJob`, `MaxItem` bound rows, `MaxRev` the moves of HEAD, `MaxAttempts` attempts;
files change without bound.
Two jobs are enough for a retry or trigger to meet the job it follows, three for
a file to be indexed, removed and restored. Two workers give every overlap of a
stale holder and a new one, because a job row has one holder and the statements
of a stale worker do not look at who it is; a third stale worker does nothing
the second could not. Two contents are the least that tell a change from a
re-index; one move of HEAD, together with files that change at will, gives every
order of the reads of a snapshot and a change between them. No run has a batch
with siblings: what a partial batch leaves is covered by the theorems of
`EmbeddingProofs`, which hold for any number of chunks and any batch. Attempts are
bounded by 2 where the code has 5: the limit is a constant and only equality
with it is tested.

`MaxUser`, `MaxInvite`, `MaxProject`, `MaxToken`, `MaxRun`, `MaxNumber` bound
rows, uploads and the numbers appended to a slug. Two of everything are enough
for two requests to race for an e-mail, an invite, a slug or a remote; three
uploads let a third meet what two left behind, three projects are the plain slug
and two numbered ones. The limits of a batch (2 files, 2 roots, 2 bytes) are
where every combination of a full and a not yet full batch occurs; the instance
has a root that must be cut. No name is long here (`LongName`), as that only
adds a request that fails.

In RetrievalStages the pool is twice the limit, the least multiplier
`LexicalIsNotStarved` holds for; the configuration allows 1 (`config.rs:416`),
with which hidden vector hits may crowd out words. One change meanwhile is one
stage that disagrees with the next. In BackupRaces a day has two instants and
the backup hour is the last, so that a backup can cross midnight. One refused
object is a dump, a snapshot or a manifest of either worker; the theorems hold for
any number. With fewer
than two days of retention `LatestBackupSurvives` does not hold (see below), nor
with two days when a day is longer than three instants: a backup may then
take a whole day. Three days always suffice (`LongRetention`, below).

The theorems hold for every value of these constants.

### Fairness
Only worker loops are fair: `WF(RunOne)` (or `WorkerStep`) since the loop of
`main.rs` polls for ever, and `WF(Restart)` since the production compose file
says `restart: unless-stopped`. A backoff that ends (`RetryDue`) is the clock.
Users, reviewers, pushes and faults have none. `QueuedJobEnds` assumes that the
workers crash finitely often. One worker that stays up is not enough: each
restart of another requeues every job whose lease has expired, also one a live
worker stalled on, and may do so for ever. `BackfillEnds` is checked without
deletion jobs: one whose index call keeps failing is requeued with a backoff of
at least a second and could only starve the backfill if that elapsed on each
pass of the loop. The other modules promise nothing that must happen: a request
may always be dropped, and a backup that fails waits for its next hour.

## Where code and documents differ

Quoted in `PROJECT.json`; the property of the run states what the code does:

* GitControl, `AbandonedCancelIsStuck`: recovery skips a job with a cancel
  request, so one whose worker died stays running and blocks its source.
* GitData, `RemovedContentStaysOut`: a file that comes back with its old content
  meets its inactive row in a unique index, and every run containing it fails.
* ScratchFaulty, `OrphanStaysUnsaved`: an idempotent answer does not look at the
  readiness of the chunk, so the memory of a call that died is never embedded; and
  one given while the first call is still embedding is lost when that call fails
  and undoes its row (`scratch_embed.rs:77`).
* BackupRaces, `LatestManifestIsPreserved`, and BackupRefused,
  `LatestManifestIsKept`: the comment of `retention.rs:8` promises never to delete the latest successful manifest. No
  code looks for it: that it survives follows from retention running only after
  a backup, from that backup having stored its manifest, and from a retention
  longer than a backup takes. The second fails when the store refuses manifests
  with a status (`object_store.rs:88`): retention runs all the same and in time
  deletes the last stored one, which BackupRefused shows. The third `config.rs:223`
  does not ask for: with one day, a backup that crosses midnight
  deletes what it has just stored: TLC shows it when `RetentionDays` in
  `BackupRaces.cfg` is set to 1.

Other behaviours the models contain, which no property promises away:

* `embedding_jobs.rs:158`: the refusals of `complete_job` and
  `release_job_for_retry` are ignored, so a cancel request that arrives after the
  last check leaves the job running (the second alternative of `BackfillEnds`).
* `ingestion.rs:51`: a second retirement appends its points to the deletion job
  of the document although it may be running and past reading its payload; these
  points are not erased.
* `git.rs:218`: HEAD, the listing and the files are read one after the other, so
  a manifest may mix commits, and the documents of a source need not be the files
  of the `commit_sha` its root records. `DocumentsMatchRoot` speaks of the
  manifest, not of the commit.
* `ingestion.rs:719`: a chunk marked ready between the two statements of a
  retirement is deleted without its point being queued, and the point stays in the
  index; `RecordedPointsAreQueued` excepts these chunks (`late`) and no others.
* `embedding.rs:283`: a chunk retired under a batch rolls the batch back, and its
  siblings stay processing until the next start.
* `embedding.rs:180`: an enqueue is answered with a running job although that job
  may have made its last, empty claim; the chunk waits for the next enqueue.
* `agent_index.rs:179`: the loser of two concurrent first calls gets an error
  and not the existing row.
* `agent_index.rs:457` and `:502`: two overlapping transactions may leave two
  copies, or two versions, of a file in review.
* `main.rs:31`: leases are recovered at startup only.
* `auth.rs:45`, `orgs.rs:348`: two first runs, or two acceptances of one e-mail
  in two organizations, that overlap make two administrators or two accounts.
* `orgs.rs`: a member who accepts a further invite of its organization keeps its
  role, and is answered with the role of the invite.
* `agent_index.rs:385`: the loser of two creations of a slug is given the
  winner's project, also for another remote.
* `agent_index_local.rs`: another spelling of a remote whose project is numbered
  gets one more project, as only the very string is looked up; the plan of
  2026-07-19 (`local-git-index-here.md:47`) says not to invent a second one. A
  file indexed again takes the origin of the last request.
* `agent_index_local.rs:285`: a number appended to a slug of 63 or 64 characters
  is cut off, so the request ends in `project_slug_exhausted`.
* `object_store.rs:88`: a record whose dump, snapshot or manifest the store refused
  with a status says succeeded; a drill of it finds the object missing.
* `backup_jobs.rs:117`: a manifest whose upload is an error, or a row that cannot be
  updated, leaves the row running, and the next tick of the hour starts again.
* `retention.rs:85`: objects go by the midnight before the date of their key, up
  to a day before the row that calls them succeeded; hence the day of grace in
  `SucceededIsStored`.

## Proofs

All are safety theorems of `Spec`, for every value of the constants allowed by
the named assumptions (bounds are naturals, null values are outside the sets
they extend; `EmbeddingJobs` and `Retrieval` also need a finite set of chunks).
Two theorems have a condition on the constants, which the properties need and
the run meets: a retention that is long enough (`LatestSurvives`,
`ManifestIsPreserved`).

* `GitIngestionProofs`: `Inductive` joins ten parts. Freshness needs that rows
  name a source, that a busy worker holds a row in use, that no HEAD is known
  before the clone has it, and that the history of an active job contains what
  the clone shows now (`FilesAreKnown`), so that each read adds something the
  history has; a path not listed was absent when the listing was made. Document
  agreement needs the manifest's own shape only: it holds whatever the reads
  returned, which is why it is not about a commit. Each part is preserved by each
  action; the action properties follow from one step taken in an `Inductive`
  state. `RemovedContentStaysOut` follows because the only action that activates
  a document is refused by the hash of the inactive row.
  The refinement: `Floor` is a `CHOOSE` over the active jobs of a source, well
  defined by `OneActiveJobPerSource`; `Content` is the active content per path,
  unique by `DocumentsMatchRoot`; a publication finds each of its files in the
  history by `ManifestIsFresh`. Each action is a move of HEAD, an edit, a request,
  a publication, a request given up, or a stutter of the mirror.
* `EmbeddingProofs`: `ReadyHasPoint` is not inductive by itself: a worker that
  marks a batch must still have current points (`BatchesAreAccountedFor`), no
  deletion may name them (`DeletesOnlyRetired`), and a retirement that is under
  way must still own its rows (`RetirementsHoldRows`). A chunk whose point was
  recorded before a retirement began is among those it queues, and one recorded
  during it is `late`; hence `RecordedPointsAreQueued`, for any number of workers
  and whatever faults and restarts come in between.
* `ScratchProofs`: a row is owned by the call that inserted it until it is
  marked or undone (`OwnersAreAlone`), so an undo never touches a row some call
  was surely told about (`OwnedIsUntold`). Only an owner marks a row, and a row that was
  left has none, so `OrphanStaysUnsaved`.
* `ReviewProofs`: what a transaction holds at the locks are unreviewed versions
  of its path (`HeldRowsWait`), so superseding them changes no decision, and its
  own row, inserted last, is the newer version (`RowsInOrder`).
* `MembershipProofs`: an acceptance keeps its invite open and to itself until it
  commits (`AcceptancesHoldLocks`), so an invite is spent once; a call that was
  never under way together with another finds everything as it read it
  (`SerialCallsSeeAll`), so accounts are unique.
* `LocalIndexProofs`: projects are only added, under slugs that are new in their
  organization, and tokens only gain slugs of projects a request resolved in the
  token's organization (`ResolvedAtHome`); hence `TokenScope` and
  `GrantsAreKept`, however many requests run. A request that is alone finds the
  documents as it left them (`AloneFindsItsOrigin`): those of its origin are
  where it resolved to, or nowhere; hence `RemotesStayApart`.
  `UploadIsAccounted` rests on the operators: packing loses nothing and keeps
  the order, whatever fits (`Packing`, from `Placed` alone), so the pieces of a
  root and the batches of an upload hold its files once (`PiecesHold`,
  `BatchesHold`). Then `Accounts` is inductive: what was answered, what the
  request still holds and what the laptop still has to send are, in this order,
  the planned files, and of those answered the ones no document has are no more
  than the skipped (`Tally`).
* `RetrievalProofs`: `RequestInv` says what a request holds at each stage: the
  history knows the present statuses, what the words found is entitled or gone
  for good, and every item it shows had its status, while its file was there,
  since the request began; hence `AnswersAreEntitled`, whatever happens between
  its queries. `CompressKeepsTrust` is an invariant of the loop of `Compress`
  over the items it has read (`Kept`): one copy of each body, the most trusted,
  at the place of the best. `LexicalIsNotStarved` is about scores: a share falls
  with its place (`ShareFalls`), so what outranks the n-th lexical hit is among
  the first n hits of one list or the other (`Outranking`), and a pool of twice
  the limit holds enough of the words (`WordsAreNotStarved`), for every limit,
  number of chunks, and ranking by either.
* `BackupProofs`: a worker that goes on after an upload relies on its object being
  stored, or refused, although others run retention in between. Keys are not older than the record
  (`HoldsRow`), and retention spares each key of a day as long as it spares the
  day (`SparedKeys`); hence `SucceededIsStored`. What a drill holds after each
  download is of the manifest it found (`DrillSound`), whatever became of the
  objects; hence `RestoredIsOneBackup`. `LatestBackupSurvives` and
  `LatestManifestIsPreserved` hold under `LongRetention`, three days, or two
  when a day has at most three instants: a worker that comes to its retention has
  a manifest no older than its own start in the store, or refused, and then no
  older manifest is the last (`HasManifest`, `Unlisted`), a manifest
  names artifacts less than a day before it (`ManifestsInTime`), so what the
  latest one names is less than two days old, and retention spares it
  (`SparedLast`).

`NoOrphan`, `OneVersionWaits`, `AccountsAreUnique` and `RemotesStayApart` are
parts of the inductive invariants: the history variables make them true of every
behaviour. `TypeOK` of each module, and the inductive invariants where no run
lists them, are only proved.

Only model-checked: liveness (`QueuedJobEnds`, `ExpiredLeaseIsRecovered`,
`BackfillEnds`), which the prover does not reach. The library's sorts and folds
are out of its reach too, which is why the operators that are proved about are
recursive functions along a sequence or are stated by places, and why their
proofs begin with the existence of such a recursion (`Recursion`) and an
induction on a set of naturals (`UpTo`). Discovery, the gates and the plan of
`LocalFiles` are evaluated by TLC only; the theorems about uploads hold for
whatever they plan.

## Not modelled

The parser and the secret scanner (texts); proposals of agents, beside their
decision in the Git pipeline; the migrator; configuration and contracts; the
routing of the HTTP API and of MCP; screens, installation and doctor of the
command line; the admin pages. These hold no state of the system or only call
the operations above. In the modules: texts, tokens and audit rows; the length
of backoffs; the content of embeddings; the rows of other tables retention
deletes (ended jobs and rejected items, whose points then linger in the index);
averages of the evaluation; SIGTERM, which is a crash here since the worker
drops the job it runs.
