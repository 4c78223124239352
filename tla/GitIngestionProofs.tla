------------------------ MODULE GitIngestionProofs ------------------------
(***************************************************************************)
(* What GitIngestion establishes for every number of sources, files,       *)
(* contents, workers and jobs.  The argument has three layers: the shape   *)
(* of the state (Base), the control of jobs (one active job per source,    *)
(* cancel requests, freshness), and the knowledge that one transaction     *)
(* replaces.  The action properties follow from the invariant, and so does *)
(* the refinement of SourceMirror at the end.                              *)
(***************************************************************************)
EXTENDS GitIngestion, TLAPS

\* Base is the part of Inductive every step needs to stay within the types.
Base == TypeOK /\ RowsAreFilled /\ WorkersHoldJobs

\* The null values are of their types.
LEMMA Nulls ==
    /\ NoManifest \in Manifest
    /\ EmptyClone \in Clone
    /\ NoJob \in Job
    /\ AbsentRow \in Row
    /\ Down \in WorkerState
    /\ Idle \in WorkerState
<1>1. NoManifest \in Manifest /\ EmptyClone \in Clone
  BY GitConstants DEF NoManifest, Manifest, EmptyClone, Clone, NoFiles, Files
<1> QED
  BY <1>1, GitConstants DEF NoJob, Job, AbsentRow, Row, Down, Idle, WorkerState

\* The program starts inside Base.
LEMMA BaseInit == ASSUME Init PROVE Base
<1> USE Nulls DEF Init
<1>1. TypeOK
  BY DEF TypeOK
<1>2. RowsAreFilled
  BY DEF RowsAreFilled, NoJob
<1>3. WorkersHoldJobs
  BY DEF WorkersHoldJobs, Down, Busy, Manifests
<1> QED
  BY <1>1, <1>2, <1>3 DEF Base

\* What the loop of apply_git_manifest makes of a document is a document.
LEMMA AppliedRowType ==
    ASSUME TypeOK, NEW s \in Source, NEW files \in Files,
           NEW p \in Path, NEW h \in Hash
    PROVE  AppliedRow(s, files, p, h) \in Row
<1>1. doc[s][p][h] \in Row
  BY DEF TypeOK
<1>2. FreshRow(s) \in Row
  BY DEF FreshRow, Row
<1>3. /\ RetiredRow(doc[s][p][h], "absent", "superseded") \in Row
      /\ RetiredRow(doc[s][p][h], "inactive", "deprecated") \in Row
  BY <1>1 DEF RetiredRow, Row
<1> QED
  BY <1>1, <1>2, <1>3 DEF AppliedRow

\* The rows in use, their sources and their requests: only InsertJob adds to them.
SameRows ==
    \A k \in JobId : /\ job'[k].source = job[k].source
                     /\ job'[k].asked = job[k].asked
                     /\ job'[k].status = "none" <=> job[k].status = "none"

\* Row j is replaced by r, which is for the same request.
Rewrites(j, r) ==
    /\ r.source = job[j].source
    /\ r.asked = job[j].asked
    /\ job' = [job EXCEPT ![j] = r]

\* A row released in a new status is still a row, for the same request.
LEMMA ReleasedRow ==
    ASSUME TypeOK, NEW j \in JobId, NEW status \in {"queued"} \cup Terminal
    PROVE  /\ Released(j, status) \in Job
           /\ Released(j, status).status = status
           /\ Released(j, status).source = job[j].source
           /\ Released(j, status).asked = job[j].asked
           /\ Released(j, status).cancel = job[j].cancel
<1>1. job[j] \in Job
  BY DEF TypeOK
<1> QED
  BY <1>1 DEF Released, Job, Active, Terminal

\* How each action that writes a row in use rewrites it.
LEMMA CancelJob ==
    ASSUME TypeOK, NEW j \in JobId, Cancel(j)
    PROVE  /\ job[j].status \in Active
           /\ \E r \in Job :
                /\ Rewrites(j, r)
                /\ r.status = IF job[j].status = "queued" THEN "cancelled" ELSE job[j].status
                /\ r.cancel = TRUE
<1> DEFINE status == IF job[j].status = "queued" THEN "cancelled" ELSE job[j].status
           r == [job[j] EXCEPT !.status = status, !.cancel = TRUE]
<1>1. job[j] \in Job
  BY DEF TypeOK
<1>2. r \in Job /\ r.source = job[j].source /\ r.asked = job[j].asked
  BY <1>1 DEF Job, Terminal
<1>3. r.status = status /\ r.cancel = TRUE
  BY <1>1 DEF Job
<1>4. job[j].status \in Active /\ job' = [job EXCEPT ![j] = r]
  BY DEF Cancel
<1> HIDE DEF r
<1> QED
  BY <1>2, <1>3, <1>4 DEF Rewrites

LEMMA ExpireJob ==
    ASSUME TypeOK, NEW j \in JobId, LeaseExpires(j)
    PROVE  /\ job[j].status = "running"
           /\ \E r \in Job : /\ Rewrites(j, r)
                             /\ r.status = job[j].status
                             /\ r.cancel = job[j].cancel
<1> DEFINE r == [job[j] EXCEPT !.expired = TRUE]
<1>1. job[j] \in Job
  BY DEF TypeOK
<1>2. r \in Job /\ r.source = job[j].source /\ r.asked = job[j].asked
  BY <1>1 DEF Job
<1>3. r.status = job[j].status /\ r.cancel = job[j].cancel
  BY <1>1 DEF Job
<1>4. job[j].status = "running" /\ job' = [job EXCEPT ![j] = r]
  BY DEF LeaseExpires
<1> HIDE DEF r
<1> QED
  BY <1>2, <1>3, <1>4 DEF Rewrites

LEMMA ClaimJob ==
    ASSUME TypeOK, NEW w \in Worker, Claim(w)
    PROVE  \E j \in JobId :
             /\ job[j].status = "queued"
             /\ worker' = [worker EXCEPT ![w] = [@ EXCEPT !.pc = "claimed", !.job = j]]
             /\ \E r \in Job : /\ Rewrites(j, r)
                               /\ r.status = "running"
                               /\ r.cancel = job[j].cancel
<1>1. PICK j \in JobId :
        /\ job[j].status = "queued"
        /\ worker' = [worker EXCEPT ![w] = [@ EXCEPT !.pc = "claimed", !.job = j]]
        /\ job' = [job EXCEPT ![j] = [@ EXCEPT !.status = "running",
                                               !.lockedBy = w, !.expired = FALSE]]
  BY DEF Claim
<1> DEFINE r == [job[j] EXCEPT !.status = "running", !.lockedBy = w, !.expired = FALSE]
<1>2. job[j] \in Job
  BY DEF TypeOK
<1>3. r \in Job /\ r.source = job[j].source /\ r.asked = job[j].asked
  BY <1>2 DEF Job, Active
<1>4. r.status = "running" /\ r.cancel = job[j].cancel
  BY <1>2 DEF Job
<1>5. job' = [job EXCEPT ![j] = r]
  BY <1>1
<1> HIDE DEF r
<1> QED
  BY <1>1, <1>3, <1>4, <1>5 DEF Rewrites

LEMMA MarkJob ==
    ASSUME Base, NEW w \in Worker, MarkFailed(w)
    PROVE  /\ worker[w].job \in JobId
           /\ \/ job' = job
              \/ /\ job[worker[w].job].status = "running"
                 /\ \E r \in Job :
                      /\ Rewrites(worker[w].job, r)
                      /\ r.status = IF job[worker[w].job].cancel THEN "cancelled" ELSE "failed"
                      /\ r.cancel = job[worker[w].job].cancel
<1> DEFINE j == worker[w].job
           r == Released(j, IF job[j].cancel THEN "cancelled" ELSE "failed")
<1>1. j \in JobId /\ TypeOK
  BY DEF MarkFailed, Base, WorkersHoldJobs, Busy
<1>2. /\ r \in Job /\ r.source = job[j].source /\ r.asked = job[j].asked
      /\ r.status = IF job[j].cancel THEN "cancelled" ELSE "failed"
      /\ r.cancel = job[j].cancel
  BY <1>1, ReleasedRow DEF Terminal
<1>3. job' = job \/ (job[j].status = "running" /\ job' = [job EXCEPT ![j] = r])
  BY DEF MarkFailed
<1> HIDE DEF r
<1> QED
  BY <1>1, <1>2, <1>3 DEF Rewrites

LEMMA ApplyJob ==
    ASSUME Base, NEW w \in Worker, Apply(w)
    PROVE  /\ worker[w].job \in JobId
           /\ job[worker[w].job].status = "running"
           /\ ~ job[worker[w].job].cancel
           /\ \E r \in Job : /\ Rewrites(worker[w].job, r)
                             /\ r.status = "succeeded"
                             /\ r.cancel = job[worker[w].job].cancel
<1> DEFINE j == worker[w].job
           r == Released(j, "succeeded")
<1>1. j \in JobId /\ TypeOK
  BY DEF Apply, Base, WorkersHoldJobs, Busy, Manifests
<1>2. /\ r \in Job /\ r.source = job[j].source /\ r.asked = job[j].asked
      /\ r.status = "succeeded"
      /\ r.cancel = job[j].cancel
  BY <1>1, ReleasedRow DEF Terminal
<1>3. job[j].status = "running" /\ ~ job[j].cancel /\ job' = [job EXCEPT ![j] = r]
  BY DEF Apply, ApplySucceeds
<1> HIDE DEF r
<1> QED
  BY <1>1, <1>2, <1>3 DEF Rewrites

LEMMA RestartJobs ==
    ASSUME TypeOK, NEW w \in Worker, Restart(w)
    PROVE  /\ job' \in [JobId -> Job]
           /\ \A k \in JobId :
                \/ job'[k] = job[k]
                \/ /\ job[k].status = "running" /\ ~ job[k].cancel
                   /\ job'[k].status = "queued"
                   /\ job'[k].source = job[k].source
                   /\ job'[k].asked = job[k].asked
                   /\ job'[k].cancel = job[k].cancel
<1> DEFINE r(k) == Released(k, "queued")
<1>1. \A k \in JobId :
        /\ r(k) \in Job /\ r(k).source = job[k].source /\ r(k).asked = job[k].asked
        /\ r(k).status = "queued" /\ r(k).cancel = job[k].cancel
  BY ReleasedRow
<1>2. job' = [k \in JobId |->
                IF job[k].status = "running" /\ job[k].expired /\ ~ job[k].cancel
                THEN r(k) ELSE job[k]]
  BY DEF Restart
<1> HIDE DEF r
<1> QED
  BY <1>1, <1>2 DEF TypeOK

\* Writing one row that keeps its request and stays in use.
LEMMA OneRow ==
    ASSUME TypeOK, NEW j \in JobId, NEW r \in Job, Rewrites(j, r),
           job[j].status # "none", r.status # "none"
    PROVE  job' \in [JobId -> Job] /\ SameRows
BY DEF TypeOK, SameRows, Rewrites

\* The steps that write rows in use keep what each row is for.
LEMMA RowsKept ==
    ASSUME Base,
           \/ \E j \in JobId : Cancel(j) \/ LeaseExpires(j)
           \/ \E w \in Worker : Restart(w) \/ Claim(w) \/ MarkFailed(w) \/ Apply(w)
    PROVE  job' \in [JobId -> Job] /\ SameRows
<1>1. TypeOK
  BY DEF Base
<1>2. ASSUME NEW j \in JobId, Cancel(j) PROVE job' \in [JobId -> Job] /\ SameRows
  <2>1. PICK r \in Job : Rewrites(j, r) /\ r.status # "none"
    BY <1>1, <1>2, CancelJob DEF Active
  <2> QED
    BY <1>1, <1>2, <2>1, OneRow DEF Cancel, Active
<1>3. ASSUME NEW j \in JobId, LeaseExpires(j) PROVE job' \in [JobId -> Job] /\ SameRows
  BY <1>1, <1>3, ExpireJob, OneRow
<1>4. ASSUME NEW w \in Worker, Restart(w) PROVE job' \in [JobId -> Job] /\ SameRows
  BY <1>1, <1>4, RestartJobs DEF SameRows
<1>5. ASSUME NEW w \in Worker, Claim(w) PROVE job' \in [JobId -> Job] /\ SameRows
  BY <1>1, <1>5, ClaimJob, OneRow
<1>6. ASSUME NEW w \in Worker, MarkFailed(w) PROVE job' \in [JobId -> Job] /\ SameRows
  <2>1. CASE job' = job
    BY <1>1, <2>1 DEF TypeOK, SameRows
  <2>2. CASE job' # job
    BY <1>1, <1>6, <2>2, MarkJob, OneRow
  <2> QED
    BY <2>1, <2>2
<1>7. ASSUME NEW w \in Worker, Apply(w) PROVE job' \in [JobId -> Job] /\ SameRows
  BY <1>1, <1>7, ApplyJob, OneRow
<1> QED
  BY <1>2, <1>3, <1>4, <1>5, <1>6, <1>7

\* The steps that leave the rows alone, as far as jobs are concerned.
LEMMA RowsUntouched == ASSUME UNCHANGED job PROVE SameRows
BY DEF SameRows

\* The three readings of the snapshot, and the state of the worker after each.
LEMMA HeadRead ==
    ASSUME NEW w \in Worker, worker[w] \in WorkerState, ReadHead(w),
           repo[job[worker[w].job].source] \in Clone
    PROVE  \E r \in WorkerState :
              /\ worker' = [worker EXCEPT ![w] = r]
              /\ r.pc = "headed" /\ r.pc \in Busy /\ r.job = worker[w].job
              /\ r.manifest.rev = repo[job[worker[w].job].source].rev
              /\ r.manifest.files = NoFiles /\ r.todo = Path
<1> DEFINE m == [rev |-> repo[job[worker[w].job].source].rev, files |-> NoFiles]
           r == [worker[w] EXCEPT !.pc = "headed", !.manifest = m, !.todo = Path]
<1>1. m \in Manifest
  BY DEF Manifest, Clone, NoFiles, Files
<1>2. /\ r \in WorkerState /\ r.pc = "headed" /\ r.pc \in Busy
      /\ r.job = worker[w].job /\ r.manifest = m /\ r.todo = Path
  BY <1>1 DEF WorkerState, Busy, Manifests
<1>3. worker' = [worker EXCEPT ![w] = r]
  BY DEF ReadHead
<1>4. m.rev = repo[job[worker[w].job].source].rev /\ m.files = NoFiles
  OBVIOUS
<1> HIDE DEF r, m
<1> QED
  BY <1>2, <1>3, <1>4

LEMMA FilesListed ==
    ASSUME NEW w \in Worker, worker[w] \in WorkerState, ListFiles(w),
           repo[job[worker[w].job].source] \in Clone
    PROVE  \E r \in WorkerState :
              /\ worker' = [worker EXCEPT ![w] = r]
              /\ r.pc \in Busy /\ r.job = worker[w].job
              /\ r.pc \in {"reading", "prepared"}
              /\ r.pc = "prepared" => r.todo = {}
              /\ r.manifest = worker[w].manifest
              /\ r.todo \in SUBSET Path
              /\ \A p \in Path \ r.todo : repo[job[worker[w].job].source].files[p] = NoFile
<1>1. PICK listed \in SUBSET Path :
        /\ \A p \in Path \ listed : repo[job[worker[w].job].source].files[p] = NoFile
        /\ worker' = [worker EXCEPT ![w] = [@ EXCEPT
                        !.pc = IF listed = {} THEN "prepared" ELSE "reading",
                        !.todo = listed]]
  BY DEF ListFiles
<1> DEFINE pc == IF listed = {} THEN "prepared" ELSE "reading"
           r == [worker[w] EXCEPT !.pc = pc, !.todo = listed]
<1>2. worker' = [worker EXCEPT ![w] = r]
  BY <1>1
<1>3. pc \in {"reading", "prepared"} /\ (pc = "prepared" => listed = {})
  OBVIOUS
<1>4. pc \in Busy
  BY <1>3 DEF Busy, Manifests
<1> HIDE DEF pc
<1>5. /\ r \in WorkerState /\ r.pc = pc /\ r.job = worker[w].job
      /\ r.manifest = worker[w].manifest /\ r.todo = listed
  BY <1>1, <1>4 DEF WorkerState
<1> HIDE DEF r
<1> QED
  BY <1>1, <1>2, <1>3, <1>4, <1>5

LEMMA FileRead ==
    ASSUME NEW w \in Worker, worker[w] \in WorkerState, NEW p \in Path, ReadFile(w, p),
           repo[job[worker[w].job].source] \in Clone
    PROVE  \E r \in WorkerState :
              /\ worker' = [worker EXCEPT ![w] = r]
              /\ r.pc \in Busy /\ r.job = worker[w].job
              /\ r.pc \in {"reading", "prepared"}
              /\ r.pc = "prepared" => r.todo = {}
              /\ r.manifest.rev = worker[w].manifest.rev
              /\ r.todo = worker[w].todo \ {p}
              /\ r.manifest.files[p] = repo[job[worker[w].job].source].files[p]
              /\ \A q \in Path \ {p} : r.manifest.files[q] = worker[w].manifest.files[q]
<1> DEFINE m == worker[w].manifest
           h == repo[job[worker[w].job].source].files[p]
           n == [m EXCEPT !.files[p] = h]
           rest == worker[w].todo \ {p}
           pc == IF rest = {} THEN "prepared" ELSE "reading"
           r == [worker[w] EXCEPT !.pc = pc, !.manifest = n, !.todo = rest]
<1>1. m \in Manifest /\ h \in Hash \cup {NoFile} /\ rest \in SUBSET Path
  BY DEF WorkerState, Clone, Files
<1>2. m.files \in [Path -> Hash \cup {NoFile}]
  BY <1>1 DEF Manifest, Files
<1>3. n = [m EXCEPT !.files = [m.files EXCEPT ![p] = h]]
  OBVIOUS
<1>4. /\ n \in Manifest /\ n.rev = m.rev /\ n.files[p] = h
      /\ \A q \in Path \ {p} : n.files[q] = m.files[q]
  <2> DEFINE f == [m.files EXCEPT ![p] = h]
  <2>1. f \in Files /\ f[p] = h /\ \A q \in Path \ {p} : f[q] = m.files[q]
    BY <1>1, <1>2 DEF Files
  <2> HIDE DEF f, h
  <2>2. n = [m EXCEPT !.files = f]
    BY <1>3 DEF f
  <2>3. n \in Manifest /\ n.rev = m.rev /\ n.files = f
    BY <1>1, <2>1, <2>2 DEF Manifest
  <2> QED
    BY <2>1, <2>3
<1>5. worker' = [worker EXCEPT ![w] = r]
  BY DEF ReadFile
<1>6. pc \in {"reading", "prepared"} /\ (pc = "prepared" => rest = {})
  OBVIOUS
<1>7. pc \in Busy
  BY <1>6 DEF Busy, Manifests
<1> HIDE DEF n, rest, pc
<1>8. /\ r \in WorkerState /\ r.pc = pc /\ r.job = worker[w].job
      /\ r.manifest = n /\ r.todo = rest
  BY <1>1, <1>4, <1>7 DEF WorkerState
<1> HIDE DEF r
<1> QED
  BY <1>4, <1>5, <1>6, <1>7, <1>8 DEF rest

\* Every step keeps the state of the workers typed and on rows in use.
LEMMA WorkersKept ==
    ASSUME Base, SameRows,
           \E w \in Worker : Restart(w) \/ RunOne(w) \/ StatementError(w) \/ Crash(w)
    PROVE  worker' \in [Worker -> WorkerState] /\ WorkersHoldJobs'
<1> USE DEF Base, TypeOK
<1>1. PICK w \in Worker : Restart(w) \/ RunOne(w) \/ StatementError(w) \/ Crash(w)
  OBVIOUS
<1>2. worker[w] \in WorkerState
  OBVIOUS
<1>3. PICK r \in WorkerState :
        /\ worker' = [worker EXCEPT ![w] = r]
        /\ IF r.pc \in Busy THEN r.job \in JobId /\ job[r.job].status # "none"
                            ELSE r.job = 0
  <2>1. CASE Restart(w) \/ StatementError(w) \/ Crash(w)
    BY <2>1, Nulls DEF Restart, StatementError, Crash, Idle, Down, Busy, Manifests
  <2>2. CASE Claim(w)
    <3>1. PICK j \in JobId :
            /\ job[j].status = "queued"
            /\ worker' = [worker EXCEPT ![w] = [@ EXCEPT !.pc = "claimed", !.job = j]]
      BY <2>2, ClaimJob
    <3> DEFINE r == [worker[w] EXCEPT !.pc = "claimed", !.job = j]
    <3>2. r \in WorkerState /\ r.pc \in Busy /\ r.job = j
      BY <1>2 DEF WorkerState, Busy
    <3>3. worker' = [worker EXCEPT ![w] = r]
      BY <3>1
    <3> HIDE DEF r
    <3> QED
      BY <3>1, <3>2, <3>3
  <2> DEFINE failed == [pc |-> "failing", job |-> worker[w].job,
                        manifest |-> NoManifest, todo |-> {}]
  <2>3. failed \in WorkerState /\ failed.pc \in Busy /\ failed.job = worker[w].job
    BY <1>2, Nulls DEF WorkerState, Busy
  <2>4. CASE LoadSource(w) \/ CheckCancel(w) \/ ApplyRolledBack(w) \/ PrepareFails(w)
    <3> DEFINE At(pc) == [worker[w] EXCEPT !.pc = pc]
    <3>1. \A pc \in Busy : /\ At(pc) \in WorkerState
                           /\ At(pc).pc \in Busy
                           /\ At(pc).job = worker[w].job
      BY <1>2 DEF WorkerState
    <3>2. worker[w].pc \in Busy
      BY <2>4 DEF LoadSource, CheckCancel, ApplyRolledBack, PrepareFails, Busy, Manifests
    <3>3. \/ \E pc \in Busy : worker' = [worker EXCEPT ![w] = At(pc)]
          \/ worker' = [worker EXCEPT ![w] = failed]
      BY <2>4 DEF LoadSource, CheckCancel, ApplyRolledBack, PrepareFails, Goto, Fail, Busy,
                  Manifests
    <3> HIDE DEF failed, At
    <3> QED
      BY <2>3, <3>1, <3>2, <3>3 DEF WorkersHoldJobs
  <2>5. CASE ReadHead(w) \/ ListFiles(w) \/ \E p \in Path : ReadFile(w, p)
    <3>1. worker[w].pc \in Busy
      BY <2>5 DEF ReadHead, ListFiles, ReadFile, Busy, Manifests
    <3>2. worker[w].job \in JobId /\ repo[job[worker[w].job].source] \in Clone
      BY <3>1 DEF WorkersHoldJobs, RowsAreFilled
    <3>3. \E r \in WorkerState : /\ worker' = [worker EXCEPT ![w] = r]
                                 /\ r.pc \in Busy /\ r.job = worker[w].job
      <4>1. CASE ReadHead(w)
        BY <1>2, <2>3, <3>2, <4>1, HeadRead
      <4>2. CASE ListFiles(w)
        BY <1>2, <3>2, <4>2, FilesListed
      <4>3. ASSUME NEW p \in Path, ReadFile(w, p)
            PROVE  \E r \in WorkerState : /\ worker' = [worker EXCEPT ![w] = r]
                                          /\ r.pc \in Busy /\ r.job = worker[w].job
        BY <1>2, <3>2, <4>3, FileRead
      <4> QED
        BY <2>5, <4>1, <4>2, <4>3
    <3> QED
      BY <3>1, <3>3 DEF WorkersHoldJobs
  <2>7. CASE Apply(w)
    <3>1. Idle \in WorkerState /\ Idle.pc \notin Busy /\ Idle.job = 0
      BY Nulls DEF Idle, Busy, Manifests
    <3>2. worker' = [worker EXCEPT ![w] = Idle] \/ worker' = [worker EXCEPT ![w] = failed]
      BY <2>7 DEF Apply, Fail
    <3>3. worker[w].pc \in Busy
      BY <2>7 DEF Apply, Busy, Manifests
    <3> HIDE DEF failed
    <3> QED
      BY <2>3, <3>1, <3>2, <3>3 DEF WorkersHoldJobs
  <2>6. CASE MarkFailed(w)
    BY <2>6, Nulls DEF MarkFailed, Idle, Busy, Manifests
  <2> QED
    BY <1>1, <2>1, <2>2, <2>4, <2>5, <2>6, <2>7 DEF RunOne
<1> QED
  BY <1>3 DEF WorkersHoldJobs, SameRows

\* Documents stay documents.
LEMMA DocumentsKept ==
    ASSUME Base, [Next]_vars
    PROVE  /\ doc' \in [Source -> [Path -> [Hash -> Row]]]
           /\ root' \in [Source -> Manifest]
<1> USE DEF Base, TypeOK
<1>1. ASSUME NEW s \in Source, NEW p \in Path, NEW h \in Hash,
             Approve(s, p, h) \/ Reject(s, p, h)
      PROVE  doc' \in [Source -> [Path -> [Hash -> Row]]]
  <2> DEFINE a == [doc[s][p][h] EXCEPT !.item = "approved", !.approval = "approved",
                                       !.chunk = "present"]
             b == [doc[s][p][h] EXCEPT !.item = "rejected", !.approval = "rejected"]
  <2>1. doc[s][p][h] \in Row
    OBVIOUS
  <2>2. a \in Row /\ b \in Row
    BY <2>1 DEF Row
  <2>3. \/ doc' = [doc EXCEPT ![s][p][h] = a]
        \/ doc' = [doc EXCEPT ![s][p][h] = b]
    BY <1>1 DEF Approve, Reject
  <2> HIDE DEF a, b
  <2>4. PICK r \in Row : doc' = [doc EXCEPT ![s][p][h] = r]
    BY <2>2, <2>3
  <2>5. doc[s] \in [Path -> [Hash -> Row]] /\ doc[s][p] \in [Hash -> Row]
    OBVIOUS
  <2>6. [doc[s][p] EXCEPT ![h] = r] \in [Hash -> Row]
    BY <2>5
  <2>7. [doc[s] EXCEPT ![p] = [doc[s][p] EXCEPT ![h] = r]] \in [Path -> [Hash -> Row]]
    BY <2>5, <2>6
  <2> QED
    BY <2>4, <2>7
<1>2. ASSUME NEW w \in Worker, Apply(w)
      PROVE  /\ doc' \in [Source -> [Path -> [Hash -> Row]]]
             /\ root' \in [Source -> Manifest]
  <2> DEFINE s == job[worker[w].job].source
             m == worker[w].manifest
  <2>1. s \in Source /\ m \in Manifest /\ m.files \in Files
    BY <1>2, ApplyJob DEF RowsAreFilled, WorkerState, Manifest
  <2>2. doc' \in [Source -> [Path -> [Hash -> Row]]]
    BY <1>2, <2>1, AppliedRowType DEF Apply
  <2> QED
    BY <1>2, <2>1, <2>2 DEF Apply
<1>3. CASE UNCHANGED <<root, doc>>
  BY <1>3
<1>4. \/ UNCHANGED <<root, doc>>
      \/ \E w \in Worker : Apply(w)
      \/ \E s \in Source, p \in Path, h \in Hash :
            /\ Approve(s, p, h) \/ Reject(s, p, h)
            /\ UNCHANGED root
  BY DEF Next, vars, Trigger, Retry, InsertJob, Cancel, Restart, RunOne, Claim,
         LoadSource, CheckCancel, ReadHead, ListFiles, ReadFile, PrepareFails,
         ApplyRolledBack, MarkFailed, Approve, Reject, Advance, Write, LeaseExpires,
         StatementError, Crash
<1> QED
  BY <1>1, <1>2, <1>3, <1>4

\* The steps of the clone, and the only ones that move it or its history.
CloneMoves ==
    \E s \in Source : Advance(s) \/ \E p \in Path, c \in Hash \cup {NoFile} : Write(s, p, c)

\* A clone shows findings.
LEMMA ShownType ==
    ASSUME NEW r \in Clone
    PROVE  Shown(r) \in SUBSET (Path \X (Hash \cup {NoFile}))
BY DEF Shown, Clone, Files

\* What the two steps of the clone of s do to it.
LEMMA CloneAfter ==
    ASSUME TypeOK, NEW s \in Source,
           Advance(s) \/ \E p \in Path, c \in Hash \cup {NoFile} : Write(s, p, c)
    PROVE  \E r \in Clone :
              /\ repo' = [repo EXCEPT ![s] = r]
              /\ \/ r.rev = repo[s].rev + 1 /\ r.files = repo[s].files /\ UNCHANGED seen
                 \/ r.rev = repo[s].rev /\ Remember(s)
<1>1. repo[s] \in Clone
  BY DEF TypeOK
<1>2. CASE Advance(s)
  <2> DEFINE r == [repo[s] EXCEPT !.rev = repo[s].rev + 1]
  <2>1. repo[s].rev \in 0..MaxRev /\ repo[s].rev < MaxRev
    BY <1>1, <1>2 DEF Advance, Clone
  <2>2. r \in Clone /\ r.rev = repo[s].rev + 1 /\ r.files = repo[s].files
    BY <1>1, <2>1, GitConstants DEF Clone
  <2>3. repo' = [repo EXCEPT ![s] = r] /\ UNCHANGED seen
    BY <1>2 DEF Advance
  <2> HIDE DEF r
  <2> QED
    BY <2>2, <2>3
<1>3. ASSUME NEW p \in Path, NEW c \in Hash \cup {NoFile}, Write(s, p, c)
      PROVE  \E r \in Clone : /\ repo' = [repo EXCEPT ![s] = r]
                              /\ r.rev = repo[s].rev /\ Remember(s)
  <2> DEFINE f == [repo[s].files EXCEPT ![p] = c]
             r == [repo[s] EXCEPT !.files = f]
  <2>1. repo[s].files \in [Path -> Hash \cup {NoFile}]
    BY <1>1 DEF Clone, Files
  <2>2. f \in Files
    BY <2>1 DEF Files
  <2>3. repo' = [repo EXCEPT ![s] = r] /\ Remember(s)
    BY <1>3 DEF Write
  <2> HIDE DEF f
  <2>4. r \in Clone /\ r.rev = repo[s].rev
    BY <1>1, <2>2 DEF Clone
  <2> HIDE DEF r
  <2> QED
    BY <2>3, <2>4
<1> QED
  BY <1>2, <1>3

\* The clone and its history move by a step of the clone, or, the history only,
\* when a job is inserted.
LEMMA CloneStep ==
    ASSUME [Next]_vars
    PROVE  \/ UNCHANGED <<repo, seen>>
           \/ CloneMoves /\ UNCHANGED <<job, root, worker>>
           \/ \E s \in Source : Trigger(s)
           \/ \E j \in JobId : Retry(j)
BY DEF Next, vars, Cancel, Restart, RunOne, Claim, LoadSource, CheckCancel, ReadHead,
       ListFiles, ReadFile, PrepareFails, Apply, ApplyRolledBack, MarkFailed, Approve,
       Reject, Advance, Write, LeaseExpires, StatementError, Crash, CloneMoves

\* A trigger or a retry puts a queued row, not to be cancelled, where none was.
LEMMA InsertedRow ==
    ASSUME Base, NEW s \in Source, InsertJob(s)
    PROVE  \E j \in JobId : \E r \in Job :
             /\ job[j].status = "none"
             /\ job' = [job EXCEPT ![j] = r]
             /\ r.source = s /\ r.status = "queued" /\ ~ r.cancel
             /\ r.asked = repo[s].rev
<1>1. PICK j \in JobId :
        /\ job[j].status = "none"
        /\ job' = [job EXCEPT ![j] = [source |-> s, status |-> "queued",
                     lockedBy |-> NoWorker, expired |-> FALSE,
                     cancel |-> FALSE, asked |-> repo[s].rev]]
  BY DEF InsertJob
<1>2. repo[s].rev \in 0..MaxRev
  BY DEF Base, TypeOK, Clone
<1> DEFINE r == [source |-> s, status |-> "queued", lockedBy |-> NoWorker,
                 expired |-> FALSE, cancel |-> FALSE, asked |-> repo[s].rev]
<1>3. r \in Job
  BY <1>2 DEF Job, Active
<1> QED
  BY <1>1, <1>3

\* A retry inserts a row for the source of the job it retries.
LEMMA RetrySource ==
    ASSUME Base, NEW j \in JobId, Retry(j)
    PROVE  job[j].source \in Source /\ InsertJob(job[j].source)
BY DEF Base, RowsAreFilled, Retry

\* The clone and its history stay typed.
LEMMA CloneKept ==
    ASSUME Base, [Next]_vars
    PROVE  /\ repo' \in [Source -> Clone]
           /\ seen' \in [Source -> SUBSET (Path \X (Hash \cup {NoFile}))]
<1> USE DEF Base, TypeOK
<1>1. ASSUME NEW s \in Source, InsertJob(s)
      PROVE  /\ repo' = repo
             /\ seen' \in [Source -> SUBSET (Path \X (Hash \cup {NoFile}))]
  BY <1>1, ShownType DEF InsertJob
<1>2. ASSUME CloneMoves
      PROVE  /\ repo' \in [Source -> Clone]
             /\ seen' \in [Source -> SUBSET (Path \X (Hash \cup {NoFile}))]
  <2>1. PICK s \in Source :
          Advance(s) \/ \E p \in Path, c \in Hash \cup {NoFile} : Write(s, p, c)
    BY <1>2 DEF CloneMoves
  <2>2. PICK r \in Clone : repo' = [repo EXCEPT ![s] = r] /\ (UNCHANGED seen \/ Remember(s))
    BY <2>1, CloneAfter
  <2>3. repo'[s] = r /\ Shown(r) \in SUBSET (Path \X (Hash \cup {NoFile}))
    BY <2>2, ShownType
  <2> QED
    BY <2>2, <2>3 DEF Remember
<1> QED
  BY <1>1, <1>2, CloneStep, RetrySource DEF Trigger

\* Every action keeps Base.
LEMMA BaseNext == ASSUME Base, [Next]_vars PROVE Base'
<1>1. ASSUME NEW s \in Source, InsertJob(s) PROVE Base'
  <2>1. PICK j \in JobId, r \in Job :
          job[j].status = "none" /\ job' = [job EXCEPT ![j] = r] /\ r.source = s
    BY <1>1, InsertedRow
  <2>2. job' \in [JobId -> Job] /\ RowsAreFilled'
    BY <2>1 DEF Base, TypeOK, RowsAreFilled
  <2>3. UNCHANGED worker
    BY <1>1 DEF InsertJob
  <2>4. WorkersHoldJobs'
    BY <2>1, <2>3 DEF Base, TypeOK, WorkersHoldJobs
  <2> QED
    BY <2>2, <2>3, <2>4, CloneKept, DocumentsKept DEF Base, TypeOK
<1>2. ASSUME SameRows, job' \in [JobId -> Job],
             worker' = worker \/ \E w \in Worker : Restart(w) \/ RunOne(w)
                                                    \/ StatementError(w) \/ Crash(w)
      PROVE  Base'
  <2>1. worker' \in [Worker -> WorkerState] /\ WorkersHoldJobs'
    BY <1>2, WorkersKept DEF Base, TypeOK, WorkersHoldJobs, SameRows
  <2>2. RowsAreFilled'
    BY <1>2 DEF Base, RowsAreFilled, SameRows
  <2> QED
    BY <1>2, <2>1, <2>2, CloneKept, DocumentsKept DEF Base, TypeOK
<1>3. \/ \E s \in Source : Trigger(s)
      \/ \E j \in JobId : Retry(j)
      \/ /\ SameRows /\ job' \in [JobId -> Job]
         /\ worker' = worker \/ \E w \in Worker : Restart(w) \/ RunOne(w)
                                                  \/ StatementError(w) \/ Crash(w)
  <2>1. ASSUME NEW j \in JobId, Cancel(j) \/ LeaseExpires(j)
        PROVE  SameRows /\ job' \in [JobId -> Job] /\ UNCHANGED worker
    BY <2>1, RowsKept DEF Cancel, LeaseExpires
  <2>2. ASSUME NEW w \in Worker, Restart(w) \/ Claim(w) \/ MarkFailed(w) \/ Apply(w)
        PROVE  SameRows /\ job' \in [JobId -> Job]
    BY <2>2, RowsKept
  <2>3. ASSUME UNCHANGED job PROVE SameRows /\ job' \in [JobId -> Job]
    BY <2>3, RowsUntouched DEF Base, TypeOK
  <2>4. ASSUME NEW w \in Worker,
               LoadSource(w) \/ CheckCancel(w) \/ ReadHead(w) \/ ListFiles(w)
                 \/ (\E p \in Path : ReadFile(w, p)) \/ PrepareFails(w)
                 \/ ApplyRolledBack(w) \/ StatementError(w) \/ Crash(w)
        PROVE  UNCHANGED job
    BY <2>4 DEF LoadSource, CheckCancel, ReadHead, ListFiles, ReadFile, PrepareFails,
                ApplyRolledBack, StatementError, Crash
  <2>5. ASSUME NEW s \in Source, NEW p \in Path, NEW h \in Hash,
               Approve(s, p, h) \/ Reject(s, p, h)
        PROVE  UNCHANGED <<job, worker>>
    BY <2>5 DEF Approve, Reject
  <2>6. ASSUME CloneMoves PROVE UNCHANGED <<job, worker>>
    BY <2>6 DEF CloneMoves, Advance, Write
  <2>7. ASSUME UNCHANGED vars PROVE UNCHANGED <<job, worker>>
    BY <2>7 DEF vars
  <2> QED
    BY <2>1, <2>2, <2>3, <2>4, <2>5, <2>6, <2>7 DEF Next, RunOne, CloneMoves
<1> QED
  BY <1>1, <1>2, <1>3, RetrySource DEF Trigger

---------------------------------------------------------------------------
(* Control: what any step may do to a job.                                 *)

\* The life cycle of a row in use, as a relation between two states of it.
LifeCycle(k) ==
    /\ job'[k].source = job[k].source
    /\ job'[k].asked = job[k].asked
    /\ \/ job'[k] = job[k]
       \/ /\ job[k].status = "running" /\ job'[k].status = "running"
          /\ job'[k].cancel = job[k].cancel
       \/ /\ job[k].status \in Active /\ job'[k].cancel = TRUE
          /\ job'[k].status = IF job[k].status = "queued" THEN "cancelled" ELSE job[k].status
       \/ /\ job'[k].cancel = job[k].cancel
          /\ <<job[k].status, job'[k].status>> = <<"queued", "running">>
       \/ /\ job'[k].cancel = job[k].cancel /\ ~ job[k].cancel
          /\ <<job[k].status, job'[k].status>> = <<"running", "queued">>
       \/ /\ job'[k].cancel = job[k].cancel
          /\ job[k].status = "running"
          /\ job'[k].status = IF job[k].cancel THEN "cancelled" ELSE "failed"
          /\ \E w \in Worker : worker[w].job = k
       \/ /\ job'[k].cancel = job[k].cancel /\ ~ job[k].cancel
          /\ <<job[k].status, job'[k].status>> = <<"running", "succeeded">>

\* Every step inserts a job or moves each job along its life cycle.
LEMMA JobStep ==
    ASSUME Base, [Next]_vars
    PROVE  (\E s \in Source : InsertJob(s)) \/ (\A k \in JobId : LifeCycle(k))
<1>1. TypeOK
  BY DEF Base
<1>2. ASSUME NEW j \in JobId, Cancel(j) PROVE \A k \in JobId : LifeCycle(k)
  <2>1. PICK r \in Job :
          /\ job[j].status \in Active /\ Rewrites(j, r)
          /\ r.status = IF job[j].status = "queued" THEN "cancelled" ELSE job[j].status
          /\ r.cancel = TRUE
    BY <1>1, <1>2, CancelJob
  <2> QED
    BY <1>1, <2>1 DEF Rewrites, LifeCycle, TypeOK
<1>3. ASSUME NEW j \in JobId, LeaseExpires(j) PROVE \A k \in JobId : LifeCycle(k)
  <2>1. PICK r \in Job :
          /\ job[j].status = "running" /\ Rewrites(j, r)
          /\ r.status = job[j].status /\ r.cancel = job[j].cancel
    BY <1>1, <1>3, ExpireJob
  <2> QED
    BY <1>1, <2>1 DEF Rewrites, LifeCycle, TypeOK
<1>4. ASSUME NEW w \in Worker, Restart(w) PROVE \A k \in JobId : LifeCycle(k)
  BY <1>1, <1>4, RestartJobs DEF LifeCycle
<1>5. ASSUME NEW w \in Worker, Claim(w) PROVE \A k \in JobId : LifeCycle(k)
  <2>1. PICK j \in JobId, r \in Job :
          /\ job[j].status = "queued" /\ Rewrites(j, r)
          /\ r.status = "running" /\ r.cancel = job[j].cancel
    BY <1>1, <1>5, ClaimJob
  <2> QED
    BY <1>1, <2>1 DEF Rewrites, LifeCycle, TypeOK
<1>6. ASSUME NEW w \in Worker, MarkFailed(w) PROVE \A k \in JobId : LifeCycle(k)
  <2>1. CASE job' = job
    BY <2>1 DEF LifeCycle
  <2>2. CASE job' # job
    <3>1. PICK r \in Job :
            /\ worker[w].job \in JobId
            /\ job[worker[w].job].status = "running" /\ Rewrites(worker[w].job, r)
            /\ r.status = IF job[worker[w].job].cancel THEN "cancelled" ELSE "failed"
            /\ r.cancel = job[worker[w].job].cancel
      BY <1>6, <2>2, MarkJob
    <3> QED
      BY <1>1, <3>1 DEF Rewrites, LifeCycle, TypeOK
  <2> QED
    BY <2>1, <2>2
<1>7. ASSUME NEW w \in Worker, Apply(w) PROVE \A k \in JobId : LifeCycle(k)
  <2>1. PICK r \in Job :
          /\ worker[w].job \in JobId
          /\ job[worker[w].job].status = "running" /\ ~ job[worker[w].job].cancel
          /\ Rewrites(worker[w].job, r)
          /\ r.status = "succeeded" /\ r.cancel = job[worker[w].job].cancel
    BY <1>7, ApplyJob
  <2> QED
    BY <1>1, <2>1 DEF Rewrites, LifeCycle, TypeOK
<1>8. ASSUME UNCHANGED job PROVE \A k \in JobId : LifeCycle(k)
  BY <1>8 DEF LifeCycle
<1>9. \/ UNCHANGED job
      \/ \E s \in Source : Trigger(s)
      \/ \E j \in JobId : Retry(j) \/ Cancel(j) \/ LeaseExpires(j)
      \/ \E w \in Worker : Restart(w) \/ Claim(w) \/ MarkFailed(w) \/ Apply(w)
  BY DEF Next, vars, RunOne, LoadSource, CheckCancel, ReadHead, ListFiles, ReadFile,
         PrepareFails, ApplyRolledBack, Approve, Reject, Advance, Write, StatementError,
         Crash
<1> QED
  BY <1>2, <1>3, <1>4, <1>5, <1>6, <1>7, <1>8, <1>9, RetrySource DEF Trigger

LEMMA OneActiveNext ==
    ASSUME Base, OneActiveJobPerSource, [Next]_vars
    PROVE  OneActiveJobPerSource'
<1>1. ASSUME NEW s \in Source, InsertJob(s) PROVE OneActiveJobPerSource'
  <2>1. PICK j \in JobId, r \in Job : job' = [job EXCEPT ![j] = r] /\ r.source = s
    BY <1>1, InsertedRow
  <2>2. \A k \in JobId : k # j => job'[k] = job[k]
    BY <2>1 DEF Base, TypeOK
  <2>3. job'[j].source = s
    BY <2>1 DEF Base, TypeOK
  <2>4. \A k \in JobId : job[k].source = s => job[k].status \notin Active
    BY <1>1 DEF InsertJob, NoActiveJob
  <2> QED
    BY <2>2, <2>3, <2>4 DEF OneActiveJobPerSource
<1>2. ASSUME \A k \in JobId : LifeCycle(k) PROVE OneActiveJobPerSource'
  <2>1. \A k \in JobId : job'[k].source = job[k].source
    BY <1>2 DEF LifeCycle
  <2>2. \A k \in JobId : job'[k].status \in Active => job[k].status \in Active
    BY <1>2 DEF LifeCycle, Active
  <2> QED
    BY <2>1, <2>2 DEF OneActiveJobPerSource
<1> QED
  BY <1>1, <1>2, JobStep

LEMMA CancelNext ==
    ASSUME Base, CancelIsAccountedFor, [Next]_vars
    PROVE  CancelIsAccountedFor'
<1>1. ASSUME NEW s \in Source, InsertJob(s) PROVE CancelIsAccountedFor'
  <2>1. PICK j \in JobId, r \in Job :
          job' = [job EXCEPT ![j] = r] /\ r.status = "queued" /\ ~ r.cancel
    BY <1>1, InsertedRow
  <2> QED
    BY <2>1 DEF CancelIsAccountedFor, Base, TypeOK
<1>2. ASSUME \A k \in JobId : LifeCycle(k) PROVE CancelIsAccountedFor'
  BY <1>2 DEF LifeCycle, CancelIsAccountedFor, Active
<1> QED
  BY <1>1, <1>2, JobStep

Holding(w) == worker[w].pc \in Manifests

\* What a worker holds of a manifest after a step it held before, or it has just
\* found in the clone.
Found(w, r) ==
    /\ worker'[w].manifest.rev \in {worker[w].manifest.rev, r.rev}
    /\ Holding(w) \/ worker'[w].manifest.rev = r.rev
    /\ \A p \in Path \ worker'[w].todo :
        \/ worker'[w].manifest.files[p] = r.files[p]
        \/ /\ Holding(w) /\ p \notin worker[w].todo
           /\ worker'[w].manifest.files[p] = worker[w].manifest.files[p]

LEMMA ManifestStep ==
    ASSUME Base, FilesAreKnown, [Next]_vars, NEW w \in Worker, Holding(w)'
    PROVE  /\ worker[w].job \in JobId /\ job[worker[w].job].status # "none"
           /\ worker'[w].job = worker[w].job
           /\ worker'[w].pc = "headed" => worker'[w].manifest.files = NoFiles
           /\ worker'[w].pc \in {"prepared", "confirmed"} => worker'[w].todo = {}
           /\ \/ /\ Holding(w) /\ worker'[w].manifest = worker[w].manifest
                 /\ worker'[w].todo = worker[w].todo
              \/ /\ Found(w, repo[job[worker[w].job].source])
                 /\ UNCHANGED <<job, repo, seen, root>>
<1> DEFINE R == repo[job[worker[w].job].source]
           Full == /\ worker'[w].pc = "headed" => worker'[w].manifest.files = NoFiles
                   /\ worker'[w].pc \in {"prepared", "confirmed"} => worker'[w].todo = {}
           Kept == /\ worker[w].pc \in Busy
                   /\ worker'[w].job = worker[w].job
                   /\ Full
                   /\ \/ /\ Holding(w) /\ worker'[w].manifest = worker[w].manifest
                         /\ worker'[w].todo = worker[w].todo
                      \/ Found(w, R) /\ UNCHANGED <<job, repo, seen, root>>
<1>1. worker \in [Worker -> WorkerState] /\ worker[w] \in WorkerState
  BY DEF Base, TypeOK
<1>2. ASSUME worker'[w] = worker[w] PROVE Kept
  BY <1>2 DEF Holding, Busy, FilesAreKnown
<1>3. ASSUME NEW v \in Worker,
             Restart(v) \/ StatementError(v) \/ Crash(v) \/ Claim(v) \/ LoadSource(v)
               \/ PrepareFails(v) \/ Apply(v) \/ ApplyRolledBack(v) \/ MarkFailed(v)
      PROVE  v # w
  <2>1. CASE Restart(v) \/ StatementError(v) \/ Crash(v) \/ MarkFailed(v)
    BY <1>1, <2>1
    DEF Restart, StatementError, Crash, MarkFailed, Holding, Idle, Down, Manifests
  <2>2. CASE Claim(v)
    BY <1>1, <2>2 DEF Claim, Holding, WorkerState, Manifests
  <2>3. CASE LoadSource(v)
    BY <1>1, <2>3 DEF LoadSource, Goto, Fail, Holding, WorkerState, Manifests
  <2>4. CASE ApplyRolledBack(v) \/ PrepareFails(v)
    BY <1>1, <2>4 DEF ApplyRolledBack, PrepareFails, Fail, Holding, Manifests
  <2>5. CASE Apply(v)
    BY <1>1, <2>5 DEF Apply, Fail, Holding, Idle, Manifests
  <2> QED
    BY <1>3, <2>1, <2>2, <2>3, <2>4, <2>5
<1>4. ASSUME NEW v \in Worker, v # w, Restart(v) \/ RunOne(v) \/ StatementError(v) \/ Crash(v)
      PROVE  worker'[w] = worker[w]
  BY <1>1, <1>4 DEF Restart, StatementError, Crash, RunOne, Claim, LoadSource, CheckCancel,
                    ReadHead, ListFiles, ReadFile, PrepareFails, Apply, ApplyRolledBack,
                    MarkFailed, Goto, Fail
<1>5. ASSUME CheckCancel(w) PROVE Kept
  <2> DEFINE r == [worker[w] EXCEPT !.pc = "confirmed"]
  <2>1. worker[w].pc = "prepared" /\ worker' = [worker EXCEPT ![w] = r]
    BY <1>1, <1>5 DEF CheckCancel, Goto, Fail, Holding, WorkerState, Manifests
  <2>2. /\ r.pc = "confirmed" /\ r.job = worker[w].job
        /\ r.manifest = worker[w].manifest /\ r.todo = worker[w].todo
    BY <1>1 DEF WorkerState
  <2> HIDE DEF r
  <2> QED
    BY <1>1, <2>1, <2>2 DEF Holding, Busy, Manifests, FilesAreKnown
<1>6. ASSUME ReadHead(w) \/ ListFiles(w) \/ \E p \in Path : ReadFile(w, p)
      PROVE  Kept
  <2>1. worker[w].pc \in Busy /\ UNCHANGED <<job, repo, seen, root>>
    BY <1>6 DEF ReadHead, ListFiles, ReadFile, Busy, Manifests
  <2>2. R \in Clone
    BY <2>1 DEF Base, TypeOK, WorkersHoldJobs, RowsAreFilled
  <2>3. CASE ReadHead(w)
    <3>1. PICK r \in WorkerState :
            /\ worker' = [worker EXCEPT ![w] = r]
            /\ r.pc = "headed" /\ r.job = worker[w].job
            /\ r.manifest.rev = R.rev
            /\ r.manifest.files = NoFiles /\ r.todo = Path
      BY <1>1, <2>2, <2>3, HeadRead
    <3>2. worker'[w] = r
      BY <1>1, <3>1
    <3>3. Found(w, R)
      BY <3>1, <3>2 DEF Found
    <3> QED
      BY <2>1, <3>1, <3>2, <3>3
  <2>4. CASE ListFiles(w)
    <3>1. PICK r \in WorkerState :
            /\ worker' = [worker EXCEPT ![w] = r]
            /\ r.job = worker[w].job
            /\ r.pc \in {"reading", "prepared"}
            /\ r.pc = "prepared" => r.todo = {}
            /\ r.manifest = worker[w].manifest
            /\ r.todo \in SUBSET Path
            /\ \A p \in Path \ r.todo : R.files[p] = NoFile
      BY <1>1, <2>2, <2>4, FilesListed
    <3>2. worker'[w] = r
      BY <1>1, <3>1
    <3>3. worker[w].manifest.files = NoFiles /\ Holding(w)
      BY <2>4 DEF ListFiles, FilesAreKnown, Holding, Manifests
    <3>4. Found(w, R)
      BY <3>1, <3>2, <3>3 DEF Found, NoFiles
    <3> QED
      BY <2>1, <3>1, <3>2, <3>4
  <2>5. ASSUME NEW p \in Path, ReadFile(w, p) PROVE Kept
    <3>1. PICK r \in WorkerState :
            /\ worker' = [worker EXCEPT ![w] = r]
            /\ r.job = worker[w].job
            /\ r.pc \in {"reading", "prepared"}
            /\ r.pc = "prepared" => r.todo = {}
            /\ r.manifest.rev = worker[w].manifest.rev
            /\ r.todo = worker[w].todo \ {p}
            /\ r.manifest.files[p] = R.files[p]
            /\ \A q \in Path \ {p} : r.manifest.files[q] = worker[w].manifest.files[q]
      BY <1>1, <2>2, <2>5, FileRead
    <3>2. worker'[w] = r
      BY <1>1, <3>1
    <3>3. Holding(w)
      BY <2>5 DEF ReadFile, Holding, Manifests
    <3>4. Found(w, R)
      BY <3>1, <3>2, <3>3 DEF Found
    <3> QED
      BY <2>1, <3>1, <3>2, <3>4
  <2> QED
    BY <1>6, <2>3, <2>4, <2>5
<1>7. \/ UNCHANGED worker
      \/ \E v \in Worker : Restart(v) \/ RunOne(v) \/ StatementError(v) \/ Crash(v)
  BY DEF Next, vars, Trigger, Retry, InsertJob, Cancel, Approve, Reject, Advance, Write,
         LeaseExpires
<1>8. Kept
  BY <1>2, <1>3, <1>4, <1>5, <1>6, <1>7 DEF RunOne
<1> QED
  BY <1>8 DEF Base, WorkersHoldJobs

\* Which steps move the clone and the root documents.
LEMMA HeadStep ==
    ASSUME [Next]_vars
    PROVE  \/ UNCHANGED <<repo, root>>
           \/ CloneMoves /\ UNCHANGED root
           \/ \E w \in Worker : Apply(w) /\ UNCHANGED <<repo, seen>>
BY DEF Next, vars, Trigger, Retry, InsertJob, Cancel, Restart, RunOne, Claim, LoadSource,
       CheckCancel, ReadHead, ListFiles, ReadFile, PrepareFails, Apply, ApplyRolledBack,
       MarkFailed, Approve, Reject, LeaseExpires, StatementError, Crash, CloneMoves,
       Advance, Write

\* The heads the rows know are numbered by naturals.
LEMMA Numbers ==
    ASSUME Base
    PROVE  /\ \A s \in Source : repo[s].rev \in Nat /\ root[s].rev \in Nat
           /\ \A j \in JobId : job[j].asked \in Nat
           /\ \A w \in Worker : worker[w].manifest.rev \in Nat
BY GitConstants DEF Base, TypeOK, Manifest, Clone, Job, WorkerState

\* A row in use keeps its source and request, and does not become active again.
LEMMA RowMemory ==
    ASSUME Base, [Next]_vars, NEW k \in JobId, job[k].status # "none"
    PROVE  /\ job'[k].source = job[k].source
           /\ job'[k].asked = job[k].asked
           /\ job'[k].status \in Active => job[k].status \in Active
<1>1. ASSUME NEW s \in Source, InsertJob(s) PROVE job'[k] = job[k]
  <2>1. PICK j \in JobId, r \in Job : job[j].status = "none" /\ job' = [job EXCEPT ![j] = r]
    BY <1>1, InsertedRow
  <2> QED
    BY <2>1 DEF Base, TypeOK
<1>2. ASSUME LifeCycle(k)
      PROVE  /\ job'[k].source = job[k].source
             /\ job'[k].asked = job[k].asked
             /\ job'[k].status \in Active => job[k].status \in Active
  BY <1>2 DEF LifeCycle, Active
<1> QED
  BY <1>1, <1>2, JobStep

\* A row that enters use asks for the head of that moment, and the history of its
\* source begins.
LEMMA NewRequest ==
    ASSUME Base, [Next]_vars, NEW k \in JobId,
           job[k].status = "none", job'[k].status # "none"
    PROVE  /\ job'[k].source \in Source
           /\ job'[k].asked = repo[job'[k].source].rev
           /\ seen'[job'[k].source] = Shown(repo[job'[k].source])
           /\ UNCHANGED <<repo, root>>
<1>1. ~ LifeCycle(k)
  BY DEF LifeCycle, Active
<1>2. PICK s \in Source : InsertJob(s)
  BY <1>1, JobStep
<1>3. PICK j \in JobId, r \in Job :
        /\ job' = [job EXCEPT ![j] = r]
        /\ r.source = s /\ r.asked = repo[s].rev
  BY <1>2, InsertedRow
<1>4. k = j /\ job'[k] = r
  BY <1>3 DEF Base, TypeOK
<1>5. seen'[s] = Shown(repo[s]) /\ UNCHANGED <<repo, root>>
  BY <1>2 DEF InsertJob, Base, TypeOK
<1> QED
  BY <1>2, <1>3, <1>4, <1>5

LEMMA RevisionsNext ==
    ASSUME Base, RevisionsAreKnown, FilesAreKnown, [Next]_vars
    PROVE  RevisionsAreKnown'
<1>1. Base'
  BY BaseNext
<1>2. \A s \in Source : repo[s].rev <= repo'[s].rev
  <2>1. ASSUME CloneMoves PROVE \A t \in Source : repo[t].rev <= repo'[t].rev
    <3>1. PICK s \in Source :
            Advance(s) \/ \E p \in Path, c \in Hash \cup {NoFile} : Write(s, p, c)
      BY <2>1 DEF CloneMoves
    <3>2. PICK r \in Clone :
            repo' = [repo EXCEPT ![s] = r] /\ r.rev \in {repo[s].rev, repo[s].rev + 1}
      BY <3>1, CloneAfter DEF Base
    <3> QED
      BY <3>2, Numbers DEF Base, TypeOK
  <2>2. ASSUME UNCHANGED repo PROVE \A s \in Source : repo[s].rev <= repo'[s].rev
    BY <2>2, Numbers
  <2> QED
    BY <2>1, <2>2, HeadStep
<1>3. \A s \in Source : repo'[s].rev \in Nat
  BY <1>1, GitConstants DEF Base, TypeOK, Clone
<1>4. \A s \in Source : root'[s].rev <= repo'[s].rev
  <2>1. ASSUME UNCHANGED root PROVE \A s \in Source : root'[s].rev <= repo'[s].rev
    BY <1>2, <1>3, <2>1, Numbers DEF RevisionsAreKnown
  <2>2. ASSUME NEW w \in Worker, Apply(w) PROVE \A s \in Source : root'[s].rev <= repo'[s].rev
    BY <2>2 DEF Apply, RevisionsAreKnown, Base, TypeOK, Manifests
  <2> QED
    BY <2>1, <2>2, HeadStep
<1>5. ASSUME NEW k \in JobId, job'[k].status # "none"
      PROVE  job'[k].asked <= repo'[job'[k].source].rev
  <2>1. CASE job[k].status = "none"
    BY <1>3, <1>5, <2>1, NewRequest
  <2>2. CASE job[k].status # "none"
    <3>1. job[k].source \in Source
      BY <2>2 DEF Base, RowsAreFilled
    <3>2. job[k].asked <= repo[job[k].source].rev
      BY <2>2 DEF RevisionsAreKnown
    <3> QED
      BY <1>2, <1>3, <2>2, <3>1, <3>2, RowMemory, Numbers
  <2> QED
    BY <2>1, <2>2
<1>6. ASSUME NEW w \in Worker, Holding(w)'
      PROVE  worker'[w].manifest.rev <= repo'[job'[worker'[w].job].source].rev
  <2>1. /\ worker[w].job \in JobId /\ job[worker[w].job].status # "none"
        /\ worker'[w].job = worker[w].job
        /\ \/ Holding(w) /\ worker'[w].manifest.rev = worker[w].manifest.rev
           \/ worker'[w].manifest.rev = repo[job[worker[w].job].source].rev
    BY <1>6, ManifestStep DEF Found
  <2>2. /\ job[worker[w].job].source \in Source
        /\ job'[worker[w].job].source = job[worker[w].job].source
    BY <2>1, RowMemory DEF Base, RowsAreFilled
  <2>3. worker'[w].manifest.rev <= repo[job[worker[w].job].source].rev
    BY <2>1, <2>2, Numbers DEF RevisionsAreKnown, Holding
  <2>4. worker'[w].manifest.rev \in Nat
    BY <2>1, <2>2, Numbers
  <2> QED
    BY <1>2, <1>3, <2>1, <2>2, <2>3, <2>4, Numbers
<1> QED
  BY <1>4, <1>5, <1>6 DEF RevisionsAreKnown, Holding

\* While a job is active, the history of its source only grows, and what the
\* clone shows after a step is in it.
LEMMA HistoryStep ==
    ASSUME Base, FilesAreKnown, [Next]_vars, NEW k \in JobId, job[k].status \in Active
    PROVE  /\ job[k].source \in Source
           /\ seen[job[k].source] \subseteq seen'[job[k].source]
           /\ Shown(repo'[job[k].source]) \subseteq seen'[job[k].source]
<1> DEFINE s == job[k].source
<1>1. s \in Source
  BY DEF Base, RowsAreFilled, Active
<1>2. Shown(repo[s]) \subseteq seen[s]
  BY DEF FilesAreKnown
<1>3. ASSUME NEW t \in Source, InsertJob(t)
      PROVE  UNCHANGED repo /\ seen'[s] = seen[s]
  <2>1. t # s
    BY <1>3 DEF InsertJob, NoActiveJob
  <2> QED
    BY <1>1, <1>3, <2>1 DEF InsertJob, Base, TypeOK
<1>4. ASSUME CloneMoves
      PROVE  /\ seen[s] \subseteq seen'[s]
             /\ Shown(repo'[s]) \subseteq seen'[s]
  <2>1. PICK t \in Source :
          Advance(t) \/ \E p \in Path, c \in Hash \cup {NoFile} : Write(t, p, c)
    BY <1>4 DEF CloneMoves
  <2>2. PICK r \in Clone :
          /\ repo' = [repo EXCEPT ![t] = r]
          /\ (r.files = repo[t].files /\ UNCHANGED seen) \/ Remember(t)
    BY <2>1, CloneAfter DEF Base
  <2>3. repo'[t] = r /\ (t # s => repo'[s] = repo[s])
    BY <1>1, <2>2 DEF Base, TypeOK
  <2>4. CASE r.files = repo[t].files /\ UNCHANGED seen
    BY <1>2, <2>3, <2>4 DEF Shown
  <2>5. CASE Remember(t)
    <3>1. CASE t = s
      <4>1. ~ NoActiveJob(s)
        BY DEF NoActiveJob
      <4>2. seen'[s] = seen[s] \cup Shown(repo'[s])
        BY <1>1, <2>5, <3>1, <4>1 DEF Remember, Base, TypeOK
      <4> QED
        BY <4>2
    <3>2. CASE t # s
      <4>1. seen'[s] = seen[s]
        BY <1>1, <2>5, <3>2 DEF Remember, Base, TypeOK
      <4> QED
        BY <1>2, <2>3, <3>2, <4>1
    <3> QED
      BY <3>1, <3>2
  <2> QED
    BY <2>2, <2>4, <2>5
<1> QED
  BY <1>1, <1>2, <1>3, <1>4, CloneStep, RetrySource DEF Trigger

LEMMA FilesNext ==
    ASSUME Base, FilesAreKnown, [Next]_vars
    PROVE  FilesAreKnown'
<1>1. ASSUME NEW k \in JobId, job'[k].status \in Active
      PROVE  Shown(repo'[job'[k].source]) \subseteq seen'[job'[k].source]
  <2>1. CASE job[k].status = "none"
    BY <1>1, <2>1, NewRequest DEF Active
  <2>2. CASE job[k].status # "none"
    <3>1. job'[k].source = job[k].source /\ job[k].status \in Active
      BY <1>1, <2>2, RowMemory
    <3> QED
      BY <3>1, HistoryStep
  <2> QED
    BY <2>1, <2>2
<1>2. ASSUME NEW w \in Worker
      PROVE  /\ worker'[w].pc = "headed" => worker'[w].manifest.files = NoFiles
             /\ worker'[w].pc \in {"prepared", "confirmed"} => worker'[w].todo = {}
  <2>1. CASE Holding(w)'
    BY <2>1, ManifestStep
  <2>2. CASE ~ Holding(w)'
    BY <2>2 DEF Holding, Manifests
  <2> QED
    BY <2>1, <2>2
<1> QED
  BY <1>1, <1>2 DEF FilesAreKnown

LEMMA FreshNext ==
    ASSUME Base, OneActiveJobPerSource, RevisionsAreKnown, FilesAreKnown, ManifestIsFresh,
           [Next]_vars
    PROVE  ManifestIsFresh'
<1> SUFFICES ASSUME NEW w \in Worker, Holding(w)',
                    job'[worker'[w].job].status \in Active
             PROVE  /\ job'[worker'[w].job].asked <= worker'[w].manifest.rev
                    /\ root'[job'[worker'[w].job].source].rev <= worker'[w].manifest.rev
                    /\ \A p \in Path \ worker'[w].todo :
                         <<p, worker'[w].manifest.files[p]>>
                             \in seen'[job'[worker'[w].job].source]
  BY DEF ManifestIsFresh, Holding
<1> DEFINE j == worker[w].job
           s == job[j].source
<1>1. /\ j \in JobId /\ job[j].status # "none" /\ worker'[w].job = j
      /\ \/ /\ Holding(w) /\ worker'[w].manifest = worker[w].manifest
            /\ worker'[w].todo = worker[w].todo
         \/ Found(w, repo[s]) /\ UNCHANGED <<job, repo, seen, root>>
  BY ManifestStep
<1>2. /\ job'[j].source = s /\ job'[j].asked = job[j].asked
      /\ job[j].status \in Active
      /\ s \in Source
  BY <1>1, RowMemory DEF Base, RowsAreFilled
<1>3. Holding(w) => /\ job[j].asked <= worker[w].manifest.rev
                    /\ root[s].rev <= worker[w].manifest.rev
                    /\ \A p \in Path \ worker[w].todo :
                         <<p, worker[w].manifest.files[p]>> \in seen[s]
  BY <1>2 DEF ManifestIsFresh, Holding
<1>4. job[j].asked <= repo[s].rev /\ root[s].rev <= repo[s].rev
  BY <1>1, <1>2 DEF RevisionsAreKnown
<1>5. /\ job[j].asked <= worker'[w].manifest.rev
      /\ root[s].rev <= worker'[w].manifest.rev
  BY <1>1, <1>3, <1>4 DEF Found
<1>6. seen[s] \subseteq seen'[s] /\ Shown(repo[s]) \subseteq seen[s]
  BY <1>1, <1>2, HistoryStep DEF FilesAreKnown
<1>7. \A p \in Path \ worker'[w].todo : <<p, worker'[w].manifest.files[p]>> \in seen'[s]
  <2>1. ASSUME NEW p \in Path \ worker'[w].todo
        PROVE  <<p, worker'[w].manifest.files[p]>> \in seen[s]
    <3>1. <<p, repo[s].files[p]>> \in Shown(repo[s])
      BY DEF Shown
    <3> QED
      BY <1>1, <1>3, <1>6, <3>1 DEF Found
  <2> QED
    BY <1>6, <2>1
<1>8. root'[s] = root[s]
  <2>1. ASSUME NEW v \in Worker, Apply(v) PROVE root'[s] = root[s]
    <3> DEFINE i == worker[v].job
    <3>1. i \in JobId /\ job[i].status = "running" /\ job'[i].status = "succeeded"
      BY <2>1, ApplyJob DEF Rewrites, Base, TypeOK
    <3>2. i # j
      BY <1>1, <3>1 DEF Active
    <3>3. job[i].source # s
      BY <1>1, <1>2, <3>1, <3>2 DEF OneActiveJobPerSource, Active
    <3> QED
      BY <2>1, <3>3 DEF Apply, Base, TypeOK
  <2> QED
    BY <2>1, HeadStep
<1> QED
  BY <1>1, <1>2, <1>5, <1>7, <1>8

---------------------------------------------------------------------------
(* Documents and knowledge.                                                *)

\* While documents match the root, the active document of a path is found.
LEMMA ActiveHashIsRoot ==
    ASSUME TypeOK, DocumentsMatchRoot, NEW s \in Source, NEW p \in Path
    PROVE  ActiveHash(s, p) = root[s].files[p]
<1>1. root[s].files[p] \in Hash \cup {NoFile}
  BY DEF TypeOK, Manifest, Files
<1>2. \A h \in Hash : doc[s][p][h].state = "active" <=> root[s].files[p] = h
  BY DEF DocumentsMatchRoot
<1>3. CASE root[s].files[p] = NoFile
  BY <1>2, <1>3, GitConstants DEF ActiveHash
<1>4. CASE root[s].files[p] \in Hash
  BY <1>2, <1>4 DEF ActiveHash
<1> QED
  BY <1>1, <1>3, <1>4

\* The documents after a successful run, one by one.
LEMMA AppliedDocuments ==
    ASSUME Base, NEW w \in Worker, Apply(w)
    PROVE  LET s == job[worker[w].job].source
               m == worker[w].manifest
           IN  /\ s \in Source /\ m \in Manifest /\ m.files \in Files
               /\ root' = [root EXCEPT ![s] = m]
               /\ \A t \in Source : t # s => doc'[t] = doc[t]
               /\ \A p \in Path, h \in Hash : doc'[s][p][h] = AppliedRow(s, m.files, p, h)
<1>1. /\ job[worker[w].job].source \in Source
      /\ worker[w].manifest \in Manifest /\ worker[w].manifest.files \in Files
  BY ApplyJob DEF Base, TypeOK, RowsAreFilled, WorkerState, Manifest
<1> QED
  BY <1>1 DEF Apply, Base, TypeOK

\* The documents after the decision of a reviewer.
LEMMA ReviewedDocument ==
    ASSUME TypeOK, NEW s \in Source, NEW p \in Path, NEW h \in Hash,
           Approve(s, p, h) \/ Reject(s, p, h)
    PROVE  /\ UNCHANGED <<job, root>>
           /\ \A t \in Source, q \in Path, g \in Hash :
                <<t, q, g>> # <<s, p, h>> => doc'[t][q][g] = doc[t][q][g]
           /\ doc'[s][p][h].state = doc[s][p][h].state
           /\ doc[s][p][h].item = "proposed"
           /\ \/ /\ doc'[s][p][h].item = "approved"
                 /\ doc'[s][p][h].approval = "approved"
                 /\ doc'[s][p][h].chunk = "present"
              \/ /\ doc'[s][p][h].item = "rejected"
                 /\ doc'[s][p][h].approval = "rejected"
                 /\ doc'[s][p][h].chunk = doc[s][p][h].chunk
<1> DEFINE a == [doc[s][p][h] EXCEPT !.item = "approved", !.approval = "approved",
                                     !.chunk = "present"]
           b == [doc[s][p][h] EXCEPT !.item = "rejected", !.approval = "rejected"]
<1>1. doc[s][p][h] \in Row
  BY DEF TypeOK
<1>2. /\ a.state = doc[s][p][h].state /\ a.item = "approved"
      /\ a.approval = "approved" /\ a.chunk = "present"
  BY <1>1 DEF Row
<1>3. /\ b.state = doc[s][p][h].state /\ b.item = "rejected"
      /\ b.approval = "rejected" /\ b.chunk = doc[s][p][h].chunk
  BY <1>1 DEF Row
<1>4. /\ UNCHANGED <<job, root>> /\ doc[s][p][h].item = "proposed"
      /\ \/ doc' = [doc EXCEPT ![s][p][h] = a]
         \/ doc' = [doc EXCEPT ![s][p][h] = b]
  BY DEF Approve, Reject
<1> HIDE DEF a, b
<1>5. ASSUME NEW r, doc' = [doc EXCEPT ![s][p][h] = r]
      PROVE  /\ doc'[s][p][h] = r
             /\ \A t \in Source, q \in Path, g \in Hash :
                  <<t, q, g>> # <<s, p, h>> => doc'[t][q][g] = doc[t][q][g]
  BY <1>5 DEF TypeOK
<1>6. CASE doc' = [doc EXCEPT ![s][p][h] = a]
  BY <1>2, <1>4, <1>5, <1>6
<1>7. CASE doc' = [doc EXCEPT ![s][p][h] = b]
  BY <1>3, <1>4, <1>5, <1>7
<1> QED
  BY <1>4, <1>6, <1>7

\* Which steps move documents.
LEMMA DocumentStep ==
    ASSUME [Next]_vars
    PROVE  \/ UNCHANGED <<doc, root>>
           \/ \E w \in Worker : Apply(w)
           \/ \E s \in Source, p \in Path, h \in Hash : Approve(s, p, h) \/ Reject(s, p, h)
BY DEF Next, vars, Trigger, Retry, InsertJob, Cancel, Restart, RunOne, Claim, LoadSource,
       CheckCancel, ReadHead, ListFiles, ReadFile, PrepareFails, ApplyRolledBack, MarkFailed,
       Advance, Write, LeaseExpires, StatementError, Crash

LEMMA DocumentsNext ==
    ASSUME Base, DocumentsMatchRoot, [Next]_vars
    PROVE  DocumentsMatchRoot'
<1>1. ASSUME NEW w \in Worker, Apply(w) PROVE DocumentsMatchRoot'
  <2> DEFINE s == job[worker[w].job].source
             m == worker[w].manifest
  <2>1. /\ s \in Source /\ m \in Manifest /\ m.files \in Files
        /\ root' = [root EXCEPT ![s] = m]
        /\ \A t \in Source : t # s => doc'[t] = doc[t]
        /\ \A p \in Path, h \in Hash : doc'[s][p][h] = AppliedRow(s, m.files, p, h)
    BY <1>1, AppliedDocuments
  <2>2. root'[s] = m /\ \A t \in Source : t # s => root'[t] = root[t]
    BY <2>1 DEF Base, TypeOK
  <2> HIDE DEF s, m
  <2>3. ASSUME NEW p \in Path, NEW h \in Hash
        PROVE  AppliedRow(s, m.files, p, h).state = "active" <=> m.files[p] = h
    <3>1. ActiveHash(s, p) = root[s].files[p] /\ h # NoFile
      BY <2>1, ActiveHashIsRoot, GitConstants DEF Base
    <3>2. doc[s][p][h].state = "active" <=> ActiveHash(s, p) = h
      BY <2>1, <3>1 DEF DocumentsMatchRoot
    <3>3. /\ FreshRow(s).state = "active"
          /\ RetiredRow(doc[s][p][h], "absent", "superseded").state # "active"
          /\ RetiredRow(doc[s][p][h], "inactive", "deprecated").state # "active"
      BY DEF FreshRow, RetiredRow
    <3>4. CASE m.files[p] = h /\ ActiveHash(s, p) # h
      BY <3>3, <3>4 DEF AppliedRow
    <3>5. CASE ActiveHash(s, p) = h /\ m.files[p] # h
      BY <3>3, <3>5 DEF AppliedRow
    <3>6. CASE (m.files[p] = h) <=> (ActiveHash(s, p) = h)
      BY <3>1, <3>2, <3>6 DEF AppliedRow
    <3> QED
      BY <3>4, <3>5, <3>6
  <2> QED
    BY <2>1, <2>2, <2>3 DEF DocumentsMatchRoot
<1>2. ASSUME NEW s \in Source, NEW p \in Path, NEW h \in Hash,
             Approve(s, p, h) \/ Reject(s, p, h)
      PROVE  DocumentsMatchRoot'
  <2>1. /\ UNCHANGED root
        /\ \A t \in Source, q \in Path, g \in Hash :
             <<t, q, g>> # <<s, p, h>> => doc'[t][q][g] = doc[t][q][g]
        /\ doc'[s][p][h].state = doc[s][p][h].state
    BY <1>2, ReviewedDocument DEF Base
  <2> QED
    BY <2>1 DEF DocumentsMatchRoot
<1>3. CASE UNCHANGED <<doc, root>>
  BY <1>3 DEF DocumentsMatchRoot
<1> QED
  BY <1>1, <1>2, <1>3, DocumentStep

\* The agreement of one document with its knowledge, as in KnowledgeAgrees.
Agrees(s, r) ==
    /\ r.approval = "pending" <=> r.item = "proposed"
    /\ r.item \in {"proposed", "approved"} => r.state = "active"
    /\ r.chunk # "none" <=> r.item = "approved"
    /\ r.state = "active" /\ s \in Trusted => r.item = "approved"

LEMMA KnowledgeNext ==
    ASSUME Base, KnowledgeAgrees, [Next]_vars
    PROVE  KnowledgeAgrees'
<1>1. \A s \in Source, p \in Path, h \in Hash : Agrees(s, doc[s][p][h])
  BY DEF KnowledgeAgrees, Agrees
<1>2. ASSUME \A s \in Source, p \in Path, h \in Hash : Agrees(s, doc'[s][p][h])
      PROVE  KnowledgeAgrees'
  BY <1>2 DEF KnowledgeAgrees, Agrees
<1>3. ASSUME NEW w \in Worker, Apply(w) PROVE KnowledgeAgrees'
  <2> DEFINE s == job[worker[w].job].source
             m == worker[w].manifest
  <2>1. /\ s \in Source
        /\ \A t \in Source : t # s => doc'[t] = doc[t]
        /\ \A p \in Path, h \in Hash : doc'[s][p][h] = AppliedRow(s, m.files, p, h)
    BY <1>3, AppliedDocuments
  <2>2. Agrees(s, FreshRow(s))
    BY DEF Agrees, FreshRow
  <2>3. ASSUME NEW r \in Row, Agrees(s, r)
        PROVE  /\ Agrees(s, RetiredRow(r, "absent", "superseded"))
               /\ Agrees(s, RetiredRow(r, "inactive", "deprecated"))
    BY <2>3 DEF Agrees, RetiredRow, Row
  <2>4. \A p \in Path, h \in Hash : doc[s][p][h] \in Row
    BY <2>1 DEF Base, TypeOK
  <2> HIDE DEF s, m
  <2>5. \A p \in Path, h \in Hash : Agrees(s, AppliedRow(s, m.files, p, h))
    BY <1>1, <2>1, <2>2, <2>3, <2>4 DEF AppliedRow
  <2>6. \A t \in Source, p \in Path, h \in Hash : Agrees(t, doc'[t][p][h])
    BY <1>1, <2>1, <2>5
  <2> QED
    BY <1>2, <2>6
<1>4. ASSUME NEW s \in Source, NEW p \in Path, NEW h \in Hash,
             Approve(s, p, h) \/ Reject(s, p, h)
      PROVE  KnowledgeAgrees'
  <2>1. \A t \in Source, q \in Path, g \in Hash :
          <<t, q, g>> # <<s, p, h>> => doc'[t][q][g] = doc[t][q][g]
    BY <1>4, ReviewedDocument DEF Base
  <2>2. Agrees(s, doc'[s][p][h])
    BY <1>1, <1>4, ReviewedDocument DEF Agrees, Base
  <2>3. \A t \in Source, q \in Path, g \in Hash : Agrees(t, doc'[t][q][g])
    BY <1>1, <2>1, <2>2
  <2> QED
    BY <1>2, <2>3
<1>5. CASE UNCHANGED doc
  BY <1>5 DEF KnowledgeAgrees
<1> QED
  BY <1>3, <1>4, <1>5, DocumentStep

---------------------------------------------------------------------------
(* The invariant, and what follows from it.                                *)

\* The program starts inside the invariant.
LEMMA InductiveInit == ASSUME Init PROVE Inductive
<1>1. Base
  BY BaseInit
<1>2. OneActiveJobPerSource /\ CancelIsAccountedFor
  BY DEF Init, NoJob, Active, OneActiveJobPerSource, CancelIsAccountedFor
<1>3. RevisionsAreKnown /\ FilesAreKnown /\ ManifestIsFresh
  BY GitConstants DEF Init, NoJob, Down, NoManifest, EmptyClone, RevisionsAreKnown,
                      FilesAreKnown, ManifestIsFresh, Manifests, Active
<1>4. DocumentsMatchRoot
  BY GitConstants DEF Init, NoManifest, NoFiles, AbsentRow, DocumentsMatchRoot
<1>5. KnowledgeAgrees
  BY DEF Init, AbsentRow, KnowledgeAgrees
<1> QED
  BY <1>1, <1>2, <1>3, <1>4, <1>5 DEF Inductive, Base

\* Every step stays inside the invariant.
LEMMA InductiveNext == ASSUME Inductive, [Next]_vars PROVE Inductive'
<1> USE DEF Inductive
<1>1. Base
  BY DEF Base
<1>2. Base' /\ OneActiveJobPerSource' /\ CancelIsAccountedFor'
  BY <1>1, BaseNext, OneActiveNext, CancelNext
<1>3. RevisionsAreKnown' /\ FilesAreKnown' /\ ManifestIsFresh'
  BY <1>1, RevisionsNext, FilesNext, FreshNext
<1>4. DocumentsMatchRoot' /\ KnowledgeAgrees'
  BY <1>1, DocumentsNext, KnowledgeNext
<1> QED
  BY <1>2, <1>3, <1>4 DEF Base

\* The whole invariant holds of every behaviour: for any number of workers, jobs,
\* sources and files, with or without faults.
THEOREM Invariance == Spec => []Inductive
<1>1. Init => Inductive
  BY InductiveInit
<1>2. Inductive /\ [Next]_vars => Inductive'
  BY InductiveNext
<1> QED
  BY <1>1, <1>2, PTL DEF Spec

\* The state stays typed.
THEOREM Typing == Spec => []TypeOK
BY Invariance, PTL DEF Inductive

\* ingestion.rs: no mix of trigger, retry, recovery and failure ever makes two
\* active jobs for a source.
THEOREM OneActiveJob == Spec => []OneActiveJobPerSource
BY Invariance, PTL DEF Inductive

\* ingestion.rs: cancel requests are carried by running and cancelled jobs only,
\* which is what lets claim_next ignore cancel_requested_at.
THEOREM CancelAccounting == Spec => []CancelIsAccountedFor
BY Invariance, PTL DEF Inductive

\* jobs.rs, git.rs: no worker ever holds, for an active job, a HEAD older than the
\* request or than what is already indexed, or a file the clone has not shown since
\* the request.
THEOREM Freshness == Spec => []ManifestIsFresh
BY Invariance, PTL DEF Inductive

\* apply_git_manifest: the documents of a source are the files of the one manifest
\* whose hash its root records.
THEOREM DocumentsAreOneManifest == Spec => []DocumentsMatchRoot
BY Invariance, PTL DEF Inductive

\* retire_generated_knowledge, index_file, approve, reject: item, approval and
\* chunk of a document agree.
THEOREM KnowledgeAgreement == Spec => []KnowledgeAgrees
BY Invariance, PTL DEF Inductive

\* mark_failed and apply_git_manifest test the status: a finished job stays as it
\* is, whichever worker still believes it holds it.
THEOREM Finality == Spec => TerminalIsFinal
<1>1. ASSUME Inductive, [Next]_vars, NEW j \in JobId, job[j].status \in Terminal
      PROVE  job'[j] = job[j]
  <2>1. Base
    BY <1>1 DEF Inductive, Base
  <2>2. CASE LifeCycle(j)
    BY <1>1, <2>2 DEF LifeCycle, Terminal, Active
  <2>3. ASSUME NEW s \in Source, InsertJob(s) PROVE job'[j] = job[j]
    <3>1. PICK k \in JobId, r \in Job : job[k].status = "none" /\ job' = [job EXCEPT ![k] = r]
      BY <2>1, <2>3, InsertedRow
    <3> QED
      BY <1>1, <3>1 DEF Terminal, Inductive, TypeOK
  <2> QED
    BY <1>1, <2>1, <2>2, <2>3, JobStep
<1>2. Inductive /\ [Next]_vars =>
        [\A j \in JobId : job[j].status \in Terminal => job'[j] = job[j]]_vars
  BY <1>1
<1> QED
  BY <1>2, Invariance, PTL DEF Spec, TerminalIsFinal

\* apply_git_manifest: documents and root move only together with the success of
\* a running job of the source that nobody asked to cancel.
THEOREM OnlySuccessApplies == Spec => AppliedOnlyBySuccess
<1> DEFINE Moved(s) == \/ root'[s] # root[s]
                       \/ \E p \in Path, h \in Hash : doc'[s][p][h].state # doc[s][p][h].state
           Succeeds(s) == \E j \in JobId : /\ job[j].source = s
                                           /\ job[j].status = "running" /\ ~ job[j].cancel
                                           /\ job'[j].status = "succeeded"
<1>1. ASSUME Inductive, [Next]_vars, NEW s \in Source, Moved(s) PROVE Succeeds(s)
  <2>1. Base
    BY <1>1 DEF Inductive, Base
  <2>2. ASSUME NEW w \in Worker, Apply(w) PROVE Succeeds(s)
    <3>1. job[worker[w].job].source = s
      BY <1>1, <2>1, <2>2, AppliedDocuments DEF Base, TypeOK
    <3>2. /\ worker[w].job \in JobId /\ job[worker[w].job].status = "running"
          /\ ~ job[worker[w].job].cancel /\ job'[worker[w].job].status = "succeeded"
      BY <2>1, <2>2, ApplyJob DEF Rewrites, Base, TypeOK
    <3> QED
      BY <3>1, <3>2
  <2>3. ASSUME NEW t \in Source, NEW p \in Path, NEW h \in Hash,
               Approve(t, p, h) \/ Reject(t, p, h)
        PROVE  FALSE
    BY <1>1, <2>1, <2>3, ReviewedDocument DEF Base
  <2> QED
    BY <1>1, <2>1, <2>2, <2>3, DocumentStep
<1>2. Inductive /\ [Next]_vars =>
        [\A s \in Source :
            (root'[s] # root[s] \/ \E p \in Path, h \in Hash :
                                     doc'[s][p][h].state # doc[s][p][h].state) =>
            \E j \in JobId :
                /\ job[j].source = s
                /\ job[j].status = "running" /\ ~ job[j].cancel
                /\ job'[j].status = "succeeded"]_vars
  BY <1>1
<1> QED
  BY <1>2, Invariance, PTL DEF Spec, AppliedOnlyBySuccess

\* recover_expired_leases skips cancelled jobs: one whose worker is gone stays
\* running for ever.
THEOREM AbandonedCancel == Spec => AbandonedCancelIsStuck
<1> DEFINE Abandoned(j) == /\ job[j].status = "running" /\ job[j].cancel
                           /\ \A w \in Worker : worker[w].job # j
<1>1. ASSUME Inductive, [Next]_vars, NEW j \in JobId, Abandoned(j)
      PROVE  job'[j].status = "running"
  <2>1. Base
    BY <1>1 DEF Inductive, Base
  <2>2. CASE LifeCycle(j)
    BY <1>1, <2>2 DEF LifeCycle
  <2>3. ASSUME NEW s \in Source, InsertJob(s) PROVE job'[j] = job[j]
    <3>1. PICK k \in JobId, r \in Job : job[k].status = "none" /\ job' = [job EXCEPT ![k] = r]
      BY <2>1, <2>3, InsertedRow
    <3> QED
      BY <1>1, <3>1 DEF Inductive, TypeOK
  <2> QED
    BY <1>1, <2>1, <2>2, <2>3, JobStep
<1>2. Inductive /\ [Next]_vars =>
        [\A j \in JobId : Abandoned(j) => job'[j].status = "running"]_vars
  BY <1>1
<1> QED
  BY <1>2, Invariance, PTL DEF Spec, AbandonedCancelIsStuck

\* A successful manifest revives no inactive document: HashTaken refuses it.
LEMMA InactiveKept ==
    ASSUME Base, TypeOK, NEW w \in Worker, Apply(w),
           NEW s \in Source, NEW p \in Path, NEW h \in Hash,
           doc[s][p][h].state = "inactive"
    PROVE  doc'[s][p][h].state = "inactive"
<1> DEFINE t == job[worker[w].job].source
           m == worker[w].manifest
<1>1. /\ t \in Source /\ m.files \in Files
      /\ \A u \in Source : u # t => doc'[u] = doc[u]
      /\ \A q \in Path, g \in Hash : doc'[t][q][g] = AppliedRow(t, m.files, q, g)
  BY AppliedDocuments
<1>2. ~ HashTaken(t, m.files)
  BY DEF Apply, ApplySucceeds
<1> HIDE DEF t, m
<1>3. CASE s = t
  <2>1. m.files[p] # h
    BY <1>2, <1>3, GitConstants DEF HashTaken
  <2>2. ActiveHash(s, p) # h
    BY GitConstants DEF ActiveHash
  <2>3. AppliedRow(s, m.files, p, h) = doc[s][p][h]
    BY <2>1, <2>2 DEF AppliedRow
  <2> QED
    BY <1>1, <1>3, <2>3
<1> QED
  BY <1>1, <1>3

\* ingestion.rs: the documents of removed files keep their unique key for ever,
\* whoever triggers, retries, reviews or restarts.
THEOREM RemovedStaysOut == Spec => RemovedContentStaysOut
<1>1. ASSUME Inductive, [Next]_vars, NEW s \in Source, NEW p \in Path, NEW h \in Hash,
             doc[s][p][h].state = "inactive"
      PROVE  doc'[s][p][h].state = "inactive"
  <2>1. Base /\ TypeOK
    BY <1>1 DEF Inductive, Base
  <2>2. ASSUME NEW w \in Worker, Apply(w) PROVE doc'[s][p][h].state = "inactive"
    BY <1>1, <2>1, <2>2, InactiveKept
  <2>3. ASSUME NEW t \in Source, NEW q \in Path, NEW g \in Hash,
               Approve(t, q, g) \/ Reject(t, q, g)
        PROVE  doc'[s][p][h].state = doc[s][p][h].state
    <3>1. /\ \A u \in Source, r \in Path, k \in Hash :
               <<u, r, k>> # <<t, q, g>> => doc'[u][r][k] = doc[u][r][k]
          /\ doc'[t][q][g].state = doc[t][q][g].state
      BY <2>1, <2>3, ReviewedDocument
    <3> QED
      BY <3>1
  <2> QED
    BY <1>1, <2>1, <2>2, <2>3, DocumentStep
<1>2. Inductive /\ [Next]_vars =>
        [\A s \in Source, p \in Path, h \in Hash :
            doc[s][p][h].state = "inactive" => doc'[s][p][h].state = "inactive"]_vars
  BY <1>1
<1> QED
  BY <1>2, Invariance, PTL DEF Spec, RemovedContentStaysOut

---------------------------------------------------------------------------
(* GitIngestion implements SourceMirror, for every value of the constants. *)
(* Under the invariant the content of the documents is a function of the   *)
(* root documents, and the floor of a source is the request of its one     *)
(* active job; each action is then one abstract step.                      *)

\* The content the mapping computes is that of the manifest of the root document.
ContentMatches == Content = [s \in Source |-> root[s].files]

LEMMA ContentIsRoot == Inductive => ContentMatches
<1> SUFFICES ASSUME Inductive PROVE ContentMatches
  OBVIOUS
<1>1. ASSUME NEW s \in Source PROVE [p \in Path |-> ActiveHash(s, p)] = root[s].files
  <2>1. root[s].files \in [Path -> Hash \cup {NoFile}]
    BY DEF Inductive, TypeOK, Manifest, Files
  <2>2. \A p \in Path : ActiveHash(s, p) = root[s].files[p]
    BY ActiveHashIsRoot DEF Inductive
  <2> QED
    BY <2>1, <2>2
<1> QED
  BY <1>1 DEF Content, ContentMatches

LEMMA ContentIsRootAfter == Inductive' => ContentMatches'
BY ContentIsRoot, PTL

\* The floor of a source with an active job is the request of that job.
LEMMA FloorOfActive ==
    ASSUME Inductive, NEW s \in Source, NEW j \in JobId,
           job[j].source = s, job[j].status \in Active
    PROVE  /\ Floor[s] = job[j].asked
           /\ Floor[s] # NoRequest
           /\ Floor[s] <= repo[s].rev
<1>1. j \in ActiveJobs(s)
  BY DEF ActiveJobs
<1>2. \A k \in ActiveJobs(s) : k = j
  BY DEF ActiveJobs, Inductive, OneActiveJobPerSource
<1>3. (CHOOSE k \in ActiveJobs(s) : TRUE) = j
  BY <1>1, <1>2
<1>4. Floor[s] = job[j].asked
  BY <1>1, <1>3 DEF Floor
<1>5. job[j].asked \in 0..MaxRev
  BY DEF Inductive, TypeOK, Job
<1>6. job[j].asked <= repo[s].rev
  BY DEF Inductive, RevisionsAreKnown, Active
<1> QED
  BY <1>4, <1>5, <1>6, GitConstants DEF NoRequest

LEMMA FloorOfIdle ==
    ASSUME NEW s \in Source, ActiveJobs(s) = {}
    PROVE  Floor[s] = NoRequest
BY DEF Floor

\* A step that keeps the active jobs of a source and their requests keeps its floor.
LEMMA FloorKept ==
    ASSUME Inductive, Inductive', NEW s \in Source,
           \A k \in JobId : \/ job'[k] = job[k]
                            \/ /\ job[k].status \in Active /\ job'[k].status \in Active
                               /\ job'[k].source = job[k].source
                               /\ job'[k].asked = job[k].asked
                            \/ job[k].source # s /\ job'[k].source # s
    PROVE  Floor'[s] = Floor[s]
<1>1. CASE \E j \in JobId : job[j].source = s /\ job[j].status \in Active
  <2>1. PICK j \in JobId : job[j].source = s /\ job[j].status \in Active
    BY <1>1
  <2>2. job'[j].source = s /\ job'[j].status \in Active /\ job'[j].asked = job[j].asked
    BY <2>1
  <2>3. Floor[s] = job[j].asked
    BY <2>1, FloorOfActive
  <2>4. j \in ActiveJobs(s)' /\ \A k \in ActiveJobs(s)' : k = j
    BY <2>2 DEF ActiveJobs, Inductive, OneActiveJobPerSource
  <2>5. (CHOOSE k \in ActiveJobs(s)' : TRUE) = j
    BY <2>4
  <2>6. Floor'[s] = job'[j].asked
    BY <2>4, <2>5 DEF Floor
  <2> QED
    BY <2>2, <2>3, <2>6
<1>2. CASE ~ \E j \in JobId : job[j].source = s /\ job[j].status \in Active
  <2>1. ActiveJobs(s) = {}
    BY <1>2 DEF ActiveJobs
  <2>2. ActiveJobs(s)' = {}
    BY <1>2 DEF ActiveJobs
  <2> QED
    BY <2>1, <2>2 DEF Floor
<1> QED
  BY <1>1, <1>2

\* A job that leaves the active statuses takes the floor of its source with it.
LEMMA FloorDropped ==
    ASSUME Inductive, Inductive', NEW j \in JobId, NEW r \in Job, Rewrites(j, r),
           job[j].status \in Active, r.status \notin Active
    PROVE  /\ job[j].source \in Source
           /\ Floor[job[j].source] = job[j].asked
           /\ Floor[job[j].source] # NoRequest
           /\ Floor' = [Floor EXCEPT ![job[j].source] = NoRequest]
<1> DEFINE s == job[j].source
<1>1. job'[j] = r /\ \A k \in JobId : k # j => job'[k] = job[k]
  BY DEF Rewrites, Inductive, TypeOK
<1>2. s \in Source /\ r.source = s
  BY DEF Inductive, RowsAreFilled, Active, Rewrites
<1>3. Floor[s] = job[j].asked /\ Floor[s] # NoRequest
  BY <1>2, FloorOfActive
<1>4. \A t \in Source : t = s => ActiveJobs(t)' = {}
  BY <1>1, <1>2 DEF ActiveJobs, Inductive, OneActiveJobPerSource
<1>5. Floor'[s] = NoRequest
  BY <1>2, <1>4 DEF Floor, NoRequest
<1>6. \A t \in Source : t # s => Floor'[t] = Floor[t]
  BY <1>1, <1>2, FloorKept
<1>7. Floor = [t \in Source |-> Floor[t]] /\ Floor' = [t \in Source |-> Floor'[t]]
  BY DEF Floor
<1> QED
  BY <1>2, <1>3, <1>5, <1>6, <1>7

\* The initial states are initial states of the mirror.
LEMMA MirrorInitially == ASSUME Init PROVE Mirror!MirrorInit
<1>1. Inductive
  BY InductiveInit
<1>2. Content = [s \in Source |-> root[s].files]
  BY <1>1, ContentIsRoot DEF ContentMatches
<1>3. \A s \in Source : ActiveJobs(s) = {}
  BY DEF Init, NoJob, ActiveJobs, Active
<1>4. Floor = [s \in Source |-> NoRequest]
  BY <1>3 DEF Floor
<1>5. Mirror!Blank = NoManifest
  BY DEF Mirror!Blank, NoManifest, NoFiles
<1>6. Tree \in [Source -> SUBSET Mirror!Finding]
  BY <1>1, ShownType DEF Tree, Mirror!Finding, Inductive, TypeOK
<1>7. Head = [s \in Source |-> 0]
  BY DEF Head, Init, EmptyClone
<1> QED
  BY <1>2, <1>4, <1>5, <1>6, <1>7 DEF Mirror!MirrorInit, Init, NoManifest

\* Every step is a step of the mirror, or invisible to it.
LEMMA MirrorStep ==
    ASSUME Inductive, Inductive', [Next]_vars
    PROVE  [Mirror!MirrorNext]_(Mirror!mirrorVars)
<1> DEFINE Goal == Mirror!MirrorNext \/ UNCHANGED Mirror!mirrorVars
<1> SUFFICES Goal
  OBVIOUS
<1>1. Base
  BY DEF Inductive, Base
<1>2. /\ Content = [s \in Source |-> root[s].files]
      /\ Content' = [s \in Source |-> root'[s].files]
  BY ContentIsRoot, ContentIsRootAfter DEF ContentMatches
<1>3. Floor = [s \in Source |-> Floor[s]] /\ Floor' = [s \in Source |-> Floor'[s]]
  BY DEF Floor
<1>4. ASSUME NEW s \in Source, InsertJob(s) PROVE Goal
  <2>1. /\ UNCHANGED <<repo, root>> /\ ActiveJobs(s) = {}
        /\ seen' = [seen EXCEPT ![s] = Tree[s]]
    BY <1>4 DEF InsertJob, NoActiveJob, ActiveJobs, Tree
  <2>2. PICK j \in JobId, r \in Job :
          /\ job[j].status = "none" /\ job' = [job EXCEPT ![j] = r]
          /\ r.source = s /\ r.status = "queued" /\ r.asked = repo[s].rev
    BY <1>1, <1>4, InsertedRow
  <2>3. job'[j] = r /\ \A k \in JobId : k # j => job'[k] = job[k]
    BY <2>2 DEF Inductive, TypeOK
  <2>4. j \in ActiveJobs(s)' /\ \A k \in ActiveJobs(s)' : k = j
    BY <2>2, <2>3 DEF ActiveJobs, Active, Inductive, OneActiveJobPerSource
  <2>5. (CHOOSE k \in ActiveJobs(s)' : TRUE) = j
    BY <2>4
  <2>6. Floor[s] = NoRequest /\ Floor'[s] = repo[s].rev
    BY <2>1, <2>2, <2>3, <2>4, <2>5 DEF Floor
  <2>7. ASSUME NEW t \in Source, t # s PROVE Floor'[t] = Floor[t]
    <3>1. ActiveJobs(t)' = ActiveJobs(t)
      BY <2>2, <2>3, <2>7 DEF ActiveJobs, Active
    <3>2. j \notin ActiveJobs(t)
      BY <2>2 DEF ActiveJobs, Active
    <3>3. CASE ActiveJobs(t) = {}
      BY <3>1, <3>3 DEF Floor, NoRequest
    <3>4. CASE ActiveJobs(t) # {}
      <4>1. PICK k \in JobId : k = (CHOOSE i \in ActiveJobs(t) : TRUE) /\ k \in ActiveJobs(t)
        BY <3>4 DEF ActiveJobs
      <4> QED
        BY <2>3, <3>1, <3>2, <3>4, <4>1 DEF Floor
    <3> QED
      BY <3>3, <3>4
  <2>8. Floor' = [Floor EXCEPT ![s] = repo[s].rev]
    BY <1>3, <2>6, <2>7
  <2>9. Mirror!Request(s)
    BY <1>2, <2>1, <2>6, <2>8 DEF Mirror!Request, Head, Tree
  <2> QED
    BY <2>9 DEF Mirror!MirrorNext
<1>5. ASSUME CloneMoves, UNCHANGED <<job, root, worker>> PROVE Goal
  <2>1. UNCHANGED Content
    BY <1>2, <1>5
  <2>2. UNCHANGED Floor
    BY <1>3, <1>5, FloorKept
  <2>3. PICK s \in Source :
          Advance(s) \/ \E p \in Path, c \in Hash \cup {NoFile} : Write(s, p, c)
    BY <1>5 DEF CloneMoves
  <2>4. PICK r \in Clone :
          /\ repo' = [repo EXCEPT ![s] = r]
          /\ \/ r.rev = repo[s].rev + 1 /\ r.files = repo[s].files /\ UNCHANGED seen
             \/ r.rev = repo[s].rev /\ Remember(s)
    BY <2>3, CloneAfter DEF Inductive
  <2>5. repo'[s] = r /\ \A t \in Source : t # s => repo'[t] = repo[t]
    BY <2>4 DEF Inductive, TypeOK
  <2>6. CASE r.rev = repo[s].rev + 1 /\ r.files = repo[s].files /\ UNCHANGED seen
    <3>1. Head' = [Head EXCEPT ![s] = Head[s] + 1]
      BY <2>5, <2>6 DEF Head
    <3>2. UNCHANGED Tree
      BY <2>5, <2>6 DEF Tree, Shown
    <3>3. Mirror!MoveHead(s)
      BY <1>5, <2>1, <2>2, <2>6, <3>1, <3>2 DEF Mirror!MoveHead
    <3> QED
      BY <3>3 DEF Mirror!MirrorNext
  <2>7. CASE r.rev = repo[s].rev /\ Remember(s)
    <3>1. UNCHANGED Head
      BY <2>5, <2>7 DEF Head
    <3>2. Shown(r) \in SUBSET Mirror!Finding
      BY ShownType DEF Mirror!Finding
    <3>3. Tree' = [Tree EXCEPT ![s] = Shown(r)]
      BY <2>5 DEF Tree
    <3>4. Floor[s] = NoRequest <=> NoActiveJob(s)
      <4>1. CASE NoActiveJob(s)
        BY <4>1, FloorOfIdle DEF NoActiveJob, ActiveJobs
      <4>2. CASE ~ NoActiveJob(s)
        BY <4>2, FloorOfActive DEF NoActiveJob
      <4> QED
        BY <4>1, <4>2
    <3>5. seen' = IF Floor[s] = NoRequest THEN seen
                  ELSE [seen EXCEPT ![s] = seen[s] \cup Shown(r)]
      BY <2>5, <2>7, <3>4 DEF Remember
    <3>6. Mirror!Edit(s)
      BY <1>5, <2>1, <2>2, <3>1, <3>2, <3>3, <3>5 DEF Mirror!Edit
    <3> QED
      BY <3>6 DEF Mirror!MirrorNext
  <2> QED
    BY <2>4, <2>6, <2>7
<1>6. ASSUME NEW j \in JobId, NEW r \in Job, Rewrites(j, r), UNCHANGED <<repo, seen, root>>,
             job[j].status \in Active
      PROVE  Goal
  <2>1. UNCHANGED <<Content, Head, Tree>>
    BY <1>2, <1>6 DEF Head, Tree
  <2>2. CASE r.status \in Active
    <3>1. job'[j] = r /\ \A k \in JobId : k # j => job'[k] = job[k]
      BY <1>6 DEF Rewrites, Inductive, TypeOK
    <3>2. \A t \in Source : Floor'[t] = Floor[t]
      BY <1>6, <2>2, <3>1, FloorKept DEF Rewrites
    <3> QED
      BY <1>3, <1>6, <2>1, <3>2 DEF Mirror!mirrorVars
  <2>3. CASE r.status \notin Active
    <3>1. Mirror!GiveUp(job[j].source) /\ job[j].source \in Source
      BY <1>6, <2>1, <2>3, FloorDropped DEF Mirror!GiveUp
    <3> QED
      BY <3>1 DEF Mirror!MirrorNext
  <2> QED
    BY <2>2, <2>3
<1>7. ASSUME NEW w \in Worker, Restart(w) PROVE Goal
  <2>1. \A t \in Source : Floor'[t] = Floor[t]
    BY <1>7, RestartJobs, FloorKept DEF Inductive, Active
  <2> QED
    BY <1>2, <1>3, <1>7, <2>1 DEF Restart, Mirror!mirrorVars, Head, Tree
<1>8. ASSUME NEW w \in Worker, Apply(w) PROVE Goal
  <2> DEFINE j == worker[w].job
             s == job[j].source
             m == worker[w].manifest
  <2>1. PICK r \in Job :
          /\ j \in JobId /\ job[j].status = "running"
          /\ Rewrites(j, r) /\ r.status = "succeeded"
    BY <1>1, <1>8, ApplyJob
  <2>2. /\ s \in Source /\ Floor[s] = job[j].asked /\ Floor[s] # NoRequest
        /\ Floor' = [Floor EXCEPT ![s] = NoRequest]
    BY <2>1, FloorDropped DEF Active
  <2>3. m \in Manifest /\ root' = [root EXCEPT ![s] = m] /\ UNCHANGED <<repo, seen>>
    BY <1>1, <1>8, AppliedDocuments DEF Apply
  <2>4. /\ job[j].asked <= m.rev /\ root[s].rev <= m.rev /\ m.rev <= repo[s].rev
        /\ \A p \in Path : <<p, m.files[p]>> \in seen[s]
    BY <1>8, <2>1 DEF Apply, Inductive, ManifestIsFresh, RevisionsAreKnown, FilesAreKnown,
                      Active, Manifests
  <2>5. Content' = [Content EXCEPT ![s] = m.files]
    BY <1>2, <2>2, <2>3 DEF Inductive, TypeOK
  <2>6. m \in Mirror!MirrorManifest
    BY <2>3 DEF Mirror!MirrorManifest, Mirror!MirrorFiles, Manifest, Files
  <2>9. Head[s] = repo[s].rev /\ UNCHANGED <<Head, Tree>>
    BY <2>2, <2>3 DEF Head, Tree
  <2> HIDE DEF s, m
  <2>7. Mirror!Publish(s)
    BY <2>2, <2>3, <2>4, <2>5, <2>6, <2>9 DEF Mirror!Publish
  <2> QED
    BY <2>2, <2>7 DEF Mirror!MirrorNext
<1>9. ASSUME UNCHANGED <<job, repo, seen, root>> PROVE Goal
  <2>1. \A t \in Source : Floor'[t] = Floor[t]
    BY <1>9, FloorKept
  <2> QED
    BY <1>2, <1>3, <1>9, <2>1 DEF Mirror!mirrorVars, Head, Tree
<1>10. ASSUME NEW j \in JobId, Cancel(j) \/ LeaseExpires(j) PROVE Goal
  <2>1. UNCHANGED <<repo, seen, root>>
    BY <1>10 DEF Cancel, LeaseExpires
  <2> QED
    BY <1>1, <1>6, <1>10, <2>1, CancelJob, ExpireJob DEF Base, Active
<1>11. ASSUME NEW w \in Worker, Claim(w) \/ MarkFailed(w) PROVE Goal
  <2>1. UNCHANGED <<repo, seen, root>>
    BY <1>11 DEF Claim, MarkFailed
  <2>2. CASE Claim(w)
    BY <1>1, <1>6, <2>1, <2>2, ClaimJob DEF Base, Active
  <2>3. CASE MarkFailed(w)
    BY <1>1, <1>6, <1>9, <2>1, <2>3, MarkJob DEF Active
  <2> QED
    BY <1>11, <2>2, <2>3
<1>12. \/ UNCHANGED <<job, repo, seen, root>>
       \/ CloneMoves /\ UNCHANGED <<job, root, worker>>
       \/ \E s \in Source : Trigger(s)
       \/ \E j \in JobId : Retry(j) \/ Cancel(j) \/ LeaseExpires(j)
       \/ \E w \in Worker : Restart(w) \/ Claim(w) \/ MarkFailed(w) \/ Apply(w)
  BY DEF Next, vars, RunOne, LoadSource, CheckCancel, ReadHead, ListFiles, ReadFile,
         PrepareFails, ApplyRolledBack, Approve, Reject, StatementError, Crash, CloneMoves,
         Advance, Write
<1> QED
  BY <1>1, <1>4, <1>5, <1>7, <1>8, <1>9, <1>10, <1>11, <1>12, RetrySource DEF Trigger

\* Jobs, workers, leases, cancellation and crashes implement the mirror: what a
\* source shows is one manifest, whose HEAD is at least as new as the request that
\* fetched it and never goes back, and whose files the clone has shown since then.
THEOREM Refinement == Spec => MirrorsTheRepository
<1>1. Init => Mirror!MirrorInit
  BY MirrorInitially
<1>2. Inductive /\ Inductive' /\ [Next]_vars => [Mirror!MirrorNext]_(Mirror!mirrorVars)
  BY MirrorStep
<1> QED
  BY <1>1, <1>2, Invariance, PTL DEF Spec, MirrorsTheRepository, Mirror!MirrorSpec
=============================================================================
