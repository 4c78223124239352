------------------------------- MODULE Backup -------------------------------
(***************************************************************************)
(* The scheduled backup of the workers, the retention it ends with, and    *)
(* the restore drill of an operator: three processes that share an object  *)
(* store in which keys are made of the clock and nothing locks anything.   *)
(*                                                                         *)
(* Time is a number of instants; DayLength of them are a day, and what     *)
(* happens in one instant gets the same time stamp.  The content of a dump *)
(* or a snapshot is the version of the data it was taken of, and a         *)
(* checksum identifies the content.  The signature of a manifest protects  *)
(* it against others than the program and is not modelled; sizes, versions *)
(* and commits recorded in it are data.                                    *)
(*                                                                         *)
(* The client of the object store is built without its feature             *)
(* fail-on-err: an upload that the store refuses with a status (403, 404,  *)
(* 507) is Ok, put_object reads no status, and the backup goes on as if    *)
(* the object were there.                                                  *)
(***************************************************************************)
EXTENDS Integers, FiniteSetsExt, Functions

CONSTANTS
    Worker,
    DayLength, BackupHour,   \* BackupHour: the instants of a day in the hour
    RetentionDays,
    MaxTime, MaxVersion,     \* bounds: the clock, and changes of the data
    MaxRecord,               \* bound: rows of backup_record
    MaxRefused,              \* bound: objects the store refuses
    None

ASSUME BackupConstants ==
    /\ DayLength \in Nat \ {0} /\ BackupHour \subseteq 0..DayLength - 1
    /\ RetentionDays \in Nat
    /\ MaxTime \in Nat /\ MaxVersion \in Nat /\ MaxRecord \in Nat
    /\ MaxRefused \in Nat
    /\ None \notin Nat

VARIABLES
    now,
    version,   \* of the data in PostgreSQL and Qdrant
    dumps, snapshots, manifests,  \* the objects: functions of the time in a key
    record,    \* the rows of backup_record
    worker,    \* worker[w]: where its backup is, and its local variables
    drill,     \* the restore drill
    target,    \* the databases a drill restores into
    taken,     \* history: the pairs a manifest was stored for
    refused    \* history: the keys at which the store refused an object

objects == <<dumps, snapshots, manifests>>
history == <<taken, refused>>
vars == <<now, version, objects, record, worker, drill, target, history>>

Day(t) == t \div DayLength
Empty == [k \in {} |-> None]
Put(store, k, content) == [x \in DOMAIN store \cup {k} |->
                             IF x = k THEN content ELSE store[x]]
Without(store, keys) == Restrict(store, DOMAIN store \ keys)
Latest == Max(DOMAIN manifests)

Idle == [at |-> "idle"]
NoDrill == [at |-> "idle"]
EmptyTarget == [dump |-> None, snapshot |-> None]

Init ==
    /\ now = 0 /\ version = 0
    /\ dumps = Empty /\ snapshots = Empty /\ manifests = Empty
    /\ record = Empty
    /\ worker = [w \in Worker |-> Idle]
    /\ drill = NoDrill /\ target = EmptyTarget
    /\ taken = {}
    /\ refused = [dumps |-> {}, snapshots |-> {}, manifests |-> {}]

-----------------------------------------------------------------------------
(* The clock and the data.  A backup takes less than a day.                *)

Tick ==
    /\ now < MaxTime
    /\ \A w \in Worker : worker[w].at # "idle" =>
                            now - worker[w].since < DayLength - 1
    /\ now' = now + 1
    /\ UNCHANGED <<version, objects, record, worker, drill, target, history>>

Write ==
    /\ version < MaxVersion
    /\ version' = version + 1
    /\ UNCHANGED <<now, objects, record, worker, drill, target, history>>

-----------------------------------------------------------------------------
(* One backup of one worker.                                               *)

Stop(w) == worker' = [worker EXCEPT ![w] = Idle]

\* The hour has come and no backup of today has succeeded.
Due ==
    /\ now % DayLength \in BackupHour
    /\ ~\E i \in DOMAIN record : /\ record[i].status = "succeeded"
                                 /\ Day(record[i].created) = Day(now)

ShouldRunBackup(w) ==
    /\ worker[w].at = "idle"
    /\ Due
    /\ worker' = [worker EXCEPT ![w] = [at |-> "due", since |-> now]]
    /\ UNCHANGED <<now, version, objects, record, drill, target, history>>

NextRow == IF DOMAIN record = {} THEN 1 ELSE Max(DOMAIN record) + 1

\* The key of the dump is made, and pg_dump reads, before the dump is stored.
InsertRecord(w) ==
    /\ worker[w].at = "due"
    /\ NextRow <= MaxRecord
    /\ record' = Put(record, NextRow, [status |-> "running", created |-> now,
                                       keys |-> None])
    /\ worker' = [worker EXCEPT ![w] =
                    [at |-> "dump", since |-> @.since, row |-> NextRow,
                     dumpKey |-> now, dump |-> version]]
    /\ UNCHANGED <<now, version, objects, drill, target, history>>

\* The store answers an upload with a status that is not a success.
Refused(kind, k) ==
    /\ Cardinality(refused.dumps) + Cardinality(refused.snapshots)
         + Cardinality(refused.manifests) < MaxRefused
    /\ refused' = [refused EXCEPT ![kind] = @ \cup {k}]

BackupPostgres(w) ==
    /\ worker[w].at = "dump"
    /\ \/ /\ dumps' = Put(dumps, worker[w].dumpKey, worker[w].dump)
          /\ UNCHANGED refused
       \/ /\ Refused("dumps", worker[w].dumpKey)
          /\ UNCHANGED dumps
    /\ worker' = [worker EXCEPT ![w].at = "snapshot"]
    /\ UNCHANGED <<now, version, snapshots, manifests, record, drill, target,
                   taken>>

\* The key of the snapshot is made after the download.
BackupQdrant(w) ==
    /\ worker[w].at = "snapshot"
    /\ \/ /\ snapshots' = Put(snapshots, now, version)
          /\ UNCHANGED refused
       \/ /\ Refused("snapshots", now)
          /\ UNCHANGED snapshots
    /\ worker' = [worker EXCEPT ![w] =
                    [at |-> "manifest", since |-> @.since, row |-> @.row,
                     manifest |-> [dumpKey |-> @.dumpKey, dump |-> @.dump,
                                   snapshotKey |-> now,
                                   snapshot |-> version]]]
    /\ UNCHANGED <<now, version, dumps, manifests, record, drill, target,
                   taken>>

PutManifest(w) ==
    /\ worker[w].at = "manifest"
    /\ LET m == worker[w].manifest IN
       \/ /\ manifests' = Put(manifests, now, m)
          /\ taken' = taken \cup {<<m.dump, m.snapshot>>}
          /\ UNCHANGED refused
       \/ /\ Refused("manifests", now)
          /\ UNCHANGED <<manifests, taken>>
    /\ worker' = [worker EXCEPT ![w] =
                    [at |-> "mark", since |-> @.since, row |-> @.row,
                     manifest |-> @.manifest, key |-> now]]
    /\ UNCHANGED <<now, version, dumps, snapshots, record, drill, target>>

\* Mutant: the key of the manifest is made again when the row is marked.
MarkSucceededNow(w) ==
    /\ worker[w].at = "mark"
    /\ LET m == worker[w].manifest
           keys == [dump |-> m.dumpKey, snapshot |-> m.snapshotKey,
                    manifest |-> now]
       IN record' = [record EXCEPT ![worker[w].row].status = "succeeded",
                                   ![worker[w].row].keys = keys]
    /\ worker' = [worker EXCEPT ![w] = [at |-> "retain", since |-> @.since]]
    /\ UNCHANGED <<now, version, objects, drill, target, history>>

MarkSucceeded(w) ==
    /\ worker[w].at = "mark"
    /\ LET m == worker[w].manifest
           keys == [dump |-> m.dumpKey, snapshot |-> m.snapshotKey,
                    manifest |-> worker[w].key]
       IN record' = [record EXCEPT ![worker[w].row].status = "succeeded",
                                   ![worker[w].row].keys = keys]
    /\ worker' = [worker EXCEPT ![w] = [at |-> "retain", since |-> @.since]]
    /\ UNCHANGED <<now, version, objects, drill, target, history>>

\* The dump or the snapshot fails and the row says so; or the row keeps saying
\* "running": the manifest or a statement fails, or the worker crashes.
MarkFailed(w) ==
    /\ worker[w].at \in {"dump", "snapshot"}
    /\ record' = [record EXCEPT ![worker[w].row].status = "failed"]
    /\ Stop(w)
    /\ UNCHANGED <<now, version, objects, drill, target, history>>

Abandon(w) ==
    /\ worker[w].at # "idle"
    /\ Stop(w)
    /\ UNCHANGED <<now, version, objects, record, drill, target, history>>

\* Rows by their age; objects by the midnight before the date of their key.
Cutoff == now - RetentionDays * DayLength
\* Mutant: everything before today.
ExpiredToday(store) == {k \in DOMAIN store : Day(k) * DayLength < now}

Expired(store) == {k \in DOMAIN store : Day(k) * DayLength < Cutoff}

\* Mutant: retention runs before the backup of the day instead of after it.
RunRetentionFirst(w) ==
    /\ worker[w].at \in {"due", "retain"}
    /\ record' = Without(record, {i \in DOMAIN record :
                                    record[i].created < Cutoff})
    /\ \E d \in SUBSET Expired(dumps), s \in SUBSET Expired(snapshots),
          m \in SUBSET Expired(manifests) :
         /\ dumps' = Without(dumps, d)
         /\ snapshots' = Without(snapshots, s)
         /\ manifests' = Without(manifests, m)
    /\ Stop(w)
    /\ UNCHANGED <<now, version, drill, target, history>>

\* Rows go at once; every object that is listed and can be deleted goes.
RunRetention(w) ==
    /\ worker[w].at = "retain"
    /\ record' = Without(record, {i \in DOMAIN record :
                                    record[i].created < Cutoff})
    /\ \E d \in SUBSET Expired(dumps), s \in SUBSET Expired(snapshots),
          m \in SUBSET Expired(manifests) :
         /\ dumps' = Without(dumps, d)
         /\ snapshots' = Without(snapshots, s)
         /\ manifests' = Without(manifests, m)
    /\ Stop(w)
    /\ UNCHANGED <<now, version, drill, target, history>>

-----------------------------------------------------------------------------
(* The restore drill: it verifies the latest manifest and, if asked to,    *)
(* restores both artifacts.                                                *)

\* The latest by its key; if it is gone when it is read, the drill ends.
FindManifest ==
    /\ drill.at = "idle"
    /\ DOMAIN manifests # {}
    /\ drill' = [at |-> "manifest", manifest |-> manifests[Latest]]
    /\ target' = EmptyTarget
    /\ UNCHANGED <<now, version, objects, record, worker, history>>

\* Mutant: the object exists.
VerifiedPresent(store, key, sum) ==
    IF key \in DOMAIN store THEN store[key] ELSE None

\* What the drill holds after a download: nothing unless the checksum is right.
Verified(store, key, sum) ==
    IF key \in DOMAIN store /\ store[key] = sum THEN store[key] ELSE None

VerifyDump ==
    /\ drill.at = "manifest"
    /\ \E d \in {None, Verified(dumps, drill.manifest.dumpKey,
                                drill.manifest.dump)} :
         drill' = [at |-> "dump", manifest |-> drill.manifest, dump |-> d]
    /\ UNCHANGED <<now, version, objects, record, worker, target, history>>

VerifySnapshot ==
    /\ drill.at = "dump"
    /\ \E s \in {None, Verified(snapshots, drill.manifest.snapshotKey,
                                drill.manifest.snapshot)} :
         drill' = [at |-> "verified", dump |-> drill.dump, snapshot |-> s]
    /\ UNCHANGED <<now, version, objects, record, worker, target, history>>

\* Only if both are good is PostgreSQL restored, and after it, if that went
\* well, Qdrant; either may fail on the way.
Restore ==
    /\ drill.at = "verified"
    /\ drill.dump # None /\ drill.snapshot # None
    /\ \E s \in {None, drill.snapshot} :
         target' = [dump |-> drill.dump, snapshot |-> s]
    /\ drill' = NoDrill
    /\ UNCHANGED <<now, version, objects, record, worker, history>>

\* Nothing was to be restored, or something is wrong.
EndDrill ==
    /\ drill.at = "verified"
    /\ drill' = NoDrill
    /\ UNCHANGED <<now, version, objects, record, worker, target, history>>

-----------------------------------------------------------------------------
BackupStep(w) ==
    \/ ShouldRunBackup(w) \/ InsertRecord(w)
    \/ BackupPostgres(w) \/ BackupQdrant(w) \/ PutManifest(w)
    \/ MarkSucceeded(w) \/ MarkFailed(w) \/ Abandon(w) \/ RunRetention(w)

Next ==
    \/ Tick \/ Write
    \/ \E w \in Worker : BackupStep(w)
    \/ FindManifest \/ VerifyDump \/ VerifySnapshot \/ Restore \/ EndDrill

Spec == Init /\ [][Next]_vars

-----------------------------------------------------------------------------
(* Properties.                                                             *)

\* The keys at which an upload was answered: stored since, or refused.
PutDumps == DOMAIN dumps \cup refused.dumps
PutSnapshots == DOMAIN snapshots \cup refused.snapshots
PutManifests == DOMAIN manifests \cup refused.manifests

\* A row that says "succeeded" names a manifest, a dump and a snapshot, and
\* whichever of them the store did not refuse is in it, whatever failed on the
\* way, whoever else backed up in the same instant, until the row is within a
\* day of the retention period (run_backup uploads before it marks; retention
\* goes by dates).
SucceededIsStored ==
    \A i \in DOMAIN record :
        record[i].status = "succeeded"
          /\ now - record[i].created <= (RetentionDays - 1) * DayLength =>
            /\ record[i].keys.dump \in PutDumps
            /\ record[i].keys.snapshot \in PutSnapshots
            /\ record[i].keys.manifest \in PutManifests

\* The store has refused a manifest that would be the latest.
Unlisted == \E k \in refused.manifests : k > Latest

\* What the latest manifest names is in the store unless it was refused,
\* however old the manifest is: retention runs only after an upload of a newer
\* one, and so takes artifacts of the last one only if that upload was refused.
LatestBackupSurvives ==
    DOMAIN manifests # {} /\ ~Unlisted =>
        LET m == manifests[Latest] IN
        m.dumpKey \in PutDumps /\ m.snapshotKey \in PutSnapshots

\* The latest manifest itself is not deleted unless the upload of a newer one
\* was refused (run_retention); it is, if objects are kept for one day and the
\* backup that uploaded it went on past midnight.
LatestManifestIsPreserved ==
    [][DOMAIN manifests # {} /\ ~Unlisted => Latest \in DOMAIN manifests']_vars

\* The latest manifest is never deleted, as the comment of run_retention says.
LatestManifestIsKept ==
    [][DOMAIN manifests # {} => Latest \in DOMAIN manifests']_vars

\* Both databases of a restored target come from one backup, although two
\* workers may have written the same keys, the store may have refused objects
\* and retention may have deleted some between the steps of the drill; and
\* PostgreSQL is never touched before both artifacts were verified
\* (run_restore_drill_with_options).
RestoredIsOneBackup ==
    target.dump # None =>
        \E pair \in taken :
            /\ target.dump = pair[1]
            /\ target.snapshot \in {None, pair[2]}
=============================================================================
