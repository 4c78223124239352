---------------------------- MODULE BackupProofs ----------------------------
(***************************************************************************)
(* What a record promises and what a drill restores, for any number of     *)
(* workers, any length of a day and any retention period.                  *)
(*                                                                         *)
(* A worker that goes on after an upload relies on its object being there  *)
(* although another worker may run the retention in between.  Unless the   *)
(* store refused it, it is, because the keys of a backup are not older     *)
(* than its record, and the retention spares a key as long as it spares    *)
(* every key of that day.                                                  *)
(***************************************************************************)
EXTENDS Backup, NaturalsInduction, WellFoundedInduction, TLAPS

---------------------------------------------------------------------------
(* The inductive invariant.                                                *)

\* A record created at t is within its promise.
Promised(t) == now - t <= (RetentionDays - 1) * DayLength

Manifest == [dumpKey : Nat, dump : Nat, snapshotKey : Nat, snapshot : Nat]
PairOf(m) == <<m.dump, m.snapshot>>
Keys == [dump : Nat, snapshot : Nat, manifest : Nat]
Row == [status : {"running", "succeeded", "failed"}, created : Nat,
        keys : Keys \cup {None}]

Waiting == [at : {"due", "retain"}, since : Nat]
Storing == [at : {"dump", "snapshot"}, since : Nat, row : Nat, dumpKey : Nat,
            dump : Nat]
Describing == [at : {"manifest"}, since : Nat, row : Nat, manifest : Manifest]
Marking == [at : {"mark"}, since : Nat, row : Nat, manifest : Manifest,
            key : Nat]
WorkerState == {Idle} \cup Waiting \cup Storing \cup Describing \cup Marking

IsFunction(f) == f = [x \in DOMAIN f |-> f[x]]
IsStore(store) == IsFunction(store) /\ DOMAIN store \subseteq 0..now

TypeOK ==
    /\ now \in Nat /\ version \in Nat
    /\ IsStore(dumps) /\ IsStore(snapshots) /\ IsStore(manifests)
    /\ refused \in [dumps : SUBSET (0..now), snapshots : SUBSET (0..now),
                    manifests : SUBSET (0..now)]
    /\ IsFunction(record)
    /\ DOMAIN record \subseteq 0..MaxRecord
    /\ \A i \in DOMAIN record : record[i] \in Row /\ record[i].created <= now
    /\ worker \in [Worker -> WorkerState]

\* The record of a worker is still its own, and a backup takes less than a day.
HoldsRow(s, key) ==
    /\ key \in s.since..now
    /\ RetentionDays >= 1 => /\ s.row \in DOMAIN record
                             /\ record[s.row].created = key

InTime(s) == s.at # "idle" => /\ s.since <= now
                              /\ now - s.since <= DayLength - 1

DumpHeld(s) ==
    s.at \in {"dump", "snapshot"} =>
        /\ HoldsRow(s, s.dumpKey)
        /\ s.at = "snapshot" /\ Promised(s.dumpKey) => s.dumpKey \in PutDumps

ArtifactsStored(m) ==
    /\ m.snapshotKey \in m.dumpKey..now
    /\ Promised(m.dumpKey) => /\ m.dumpKey \in PutDumps
                              /\ m.snapshotKey \in PutSnapshots

ManifestHeld(s) ==
    s.at \in {"manifest", "mark"} =>
        /\ HoldsRow(s, s.manifest.dumpKey)
        /\ ArtifactsStored(s.manifest)
        /\ s.at = "mark" =>
            /\ s.key \in s.manifest.dumpKey..now
            /\ Promised(s.manifest.dumpKey) => s.key \in PutManifests

Sound(s) == InTime(s) /\ DumpHeld(s) /\ ManifestHeld(s)

StoredSince(t, keys) ==
    /\ keys \in Keys
    /\ keys.dump >= t /\ keys.snapshot >= t /\ keys.manifest >= t
    /\ keys.dump \in PutDumps /\ keys.snapshot \in PutSnapshots
    /\ keys.manifest \in PutManifests

RecordsKept ==
    \A i \in DOMAIN record :
        record[i].status = "succeeded" /\ Promised(record[i].created) =>
            StoredSince(record[i].created, record[i].keys)

Inductive ==
    TypeOK /\ RecordsKept /\ \A w \in Worker : Sound(worker[w])

---------------------------------------------------------------------------
(* Days, and the greatest of some numbers.                                 *)

\* Midnight is less than a day back.
LEMMA Midnight ==
    ASSUME NEW k \in Nat
    PROVE  Day(k) * DayLength \in Int /\ Day(k) * DayLength > k - DayLength
<1>1. k \div DayLength \in Int /\ k < (k \div DayLength) * DayLength + DayLength
    BY BackupConstants
<1> QED
    BY <1>1, BackupConstants DEF Day

LEMMA Periods ==
    /\ RetentionDays * DayLength \in Nat
    /\ (RetentionDays - 1) * DayLength = RetentionDays * DayLength - DayLength
    /\ RetentionDays >= 1 => RetentionDays * DayLength >= DayLength
    /\ RetentionDays = 0 => RetentionDays * DayLength = 0
<1>1. CASE RetentionDays = 0
    BY <1>1, BackupConstants
<1>2. CASE RetentionDays >= 1
    <2> DEFINE e == RetentionDays - 1
    <2>1. e \in Nat /\ RetentionDays = e + 1
        BY <1>2, BackupConstants
    <2>2. e * DayLength \in Nat /\ (e + 1) * DayLength = e * DayLength + DayLength
        BY <2>1, BackupConstants
    <2> QED
        BY <1>2, <2>1, <2>2, BackupConstants
<1> QED
    BY <1>1, <1>2, BackupConstants

\* The order of numbers.
Less == {p \in Nat \X Nat : p[1] < p[2]}

LEMMA Greatest ==
    ASSUME NEW n \in Nat, NEW S \in SUBSET (0..n), S # {}
    PROVE  Max(S) \in S /\ \A x \in S : Max(S) >= x
<1> DEFINE T == {n - x : x \in S}
<1>1. IsWellFoundedOn(Less, Nat)
    BY NatLessThanWellFounded DEF OpToRel, Less
<1>2. T \subseteq Nat /\ T # {}
    <2>1. \A x \in S : n - x \in Nat
        OBVIOUS
    <2>2. PICK x \in S : TRUE
        OBVIOUS
    <2>3. n - x \in T
        OBVIOUS
    <2> QED
        BY <2>1, <2>3
<1>3. PICK t \in T : \A v \in T : <<v, t>> \notin Less
    BY <1>1, <1>2, WFMin
<1>4. \E x \in S : \A y \in S : x >= y
    <2>1. PICK x \in S : t = n - x
        BY <1>3
    <2>2. ASSUME NEW y \in S PROVE x >= y
        <3>1. <<n - y, t>> \notin Less /\ n - y \in Nat /\ t \in Nat
            BY <1>2, <1>3
        <3> QED
            BY <2>1, <3>1 DEF Less
    <2> QED
        BY <2>2
<1> QED
    BY <1>4 DEF Max

LEMMA NextRowIsNew ==
    ASSUME Inductive
    PROVE  NextRow \in Nat /\ NextRow \notin DOMAIN record
<1>1. DOMAIN record \subseteq 0..MaxRecord /\ MaxRecord \in Nat
    BY BackupConstants DEF Inductive, TypeOK
<1>2. CASE DOMAIN record = {}
    BY <1>2 DEF NextRow
<1>3. CASE DOMAIN record # {}
    <2>1. Max(DOMAIN record) \in DOMAIN record
          /\ \A x \in DOMAIN record : Max(DOMAIN record) >= x
        BY <1>1, <1>3, Greatest
    <2> DEFINE m == Max(DOMAIN record)
    <2>2. m \in Nat /\ NextRow = m + 1 /\ \A x \in DOMAIN record : x \in Nat /\ m >= x
        BY <1>1, <1>3, <2>1 DEF NextRow
    <2> QED
        BY <2>2
<1> QED
    BY <1>2, <1>3

LEMMA PutDomain ==
    ASSUME NEW store, NEW k, NEW content
    PROVE  /\ DOMAIN Put(store, k, content) = DOMAIN store \cup {k}
           /\ Put(store, k, content)[k] = content
           /\ \A x \in DOMAIN store : x # k => Put(store, k, content)[x] = store[x]
           /\ IsFunction(Put(store, k, content))
    BY DEF Put, IsFunction

LEMMA WithoutDomain ==
    ASSUME NEW store, NEW keys
    PROVE  /\ DOMAIN Without(store, keys) = DOMAIN store \ keys
           /\ \A x \in DOMAIN store \ keys : Without(store, keys)[x] = store[x]
           /\ IsFunction(Without(store, keys))
    BY DEF Without, Restrict, IsFunction

\* Retention spares what a promised record can name.
LEMMA SparedKeys ==
    ASSUME now \in Nat, NEW t \in Nat, NEW k \in Nat, k >= t, Promised(t), NEW store
    PROVE  k \notin Expired(store)
<1>1. Day(k) * DayLength \in Int /\ Day(k) * DayLength > k - DayLength
    BY Midnight
<1> DEFINE p == RetentionDays * DayLength
           m == Day(k) * DayLength
<1>2. p \in Nat /\ now - t <= p - DayLength
    BY Periods DEF Promised
<1>3. Cutoff = now - p
    BY DEF Cutoff
<1> HIDE DEF p, m
<1>4. ~ (m < now - p)
    BY <1>1, <1>2, BackupConstants DEF m
<1> QED
    BY <1>3, <1>4 DEF Expired, m

---------------------------------------------------------------------------
(* Steps.                                                                  *)

LEMMA Initially == Init => Inductive
    BY BackupConstants
    DEF Init, Inductive, TypeOK, IsStore, IsFunction, Empty, WorkerState, Idle, Sound,
        InTime, DumpHeld, ManifestHeld, RecordsKept

\* What the others of a step keep: promised objects and young records.
StoresKept ==
    \A t, k \in Nat : k >= t /\ Promised(t) =>
        /\ k \in PutDumps => k \in PutDumps'
        /\ k \in PutSnapshots => k \in PutSnapshots'
        /\ k \in PutManifests => k \in PutManifests'

RowsKept ==
    RetentionDays >= 1 =>
        \A i \in DOMAIN record : now - record[i].created <= DayLength - 1 =>
            i \in DOMAIN record' /\ record'[i].created = record[i].created

LEMMA StateFields ==
    ASSUME NEW s \in WorkerState
    PROVE  /\ s.at # "idle" => s.since \in Nat
           /\ s.at \in {"dump", "snapshot"} => s \in Storing
           /\ s.at = "manifest" => s \in Describing
           /\ s.at = "mark" => s \in Marking
           /\ s.at \in {"due", "retain"} => s \in Waiting
           /\ s.at \in {"idle", "due", "retain", "dump", "snapshot", "manifest", "mark"}
    BY DEF WorkerState, Idle, Waiting, Storing, Describing, Marking

\* A worker that does not move stays as it should be.
LEMMA OthersStand ==
    ASSUME Inductive, StoresKept, RowsKept, now' = now,
           NEW w \in Worker, worker'[w] = worker[w]
    PROVE  Sound(worker[w])'
<1> DEFINE s == worker[w]
<1>1. s \in WorkerState /\ now \in Nat /\ DayLength \in Nat
    BY BackupConstants DEF Inductive, TypeOK
<1>2. \A t : Promised(t)' <=> Promised(t)
    BY DEF Promised
<1>3. ASSUME NEW key, HoldsRow(s, key), s.at # "idle" PROVE HoldsRow(s, key)'
    <2>1. s.since \in Nat /\ key \in Nat /\ now - key <= DayLength - 1
        BY <1>1, <1>3, StateFields DEF HoldsRow, Inductive, Sound, InTime
    <2> QED
        BY <1>3, <2>1 DEF HoldsRow, RowsKept
<1>4. CASE s.at \in {"dump", "snapshot"}
    <2>1. s.dumpKey \in Nat
        BY <1>1, <1>4, StateFields DEF Storing
    <2>2. HoldsRow(s, s.dumpKey) /\ (s.at = "snapshot" /\ Promised(s.dumpKey) => s.dumpKey \in PutDumps)
        BY <1>4 DEF Inductive, Sound, DumpHeld
    <2> QED
        BY <1>1, <1>2, <1>3, <1>4, <2>1, <2>2 DEF StoresKept, Inductive, Sound, InTime, DumpHeld, ManifestHeld
<1>5. CASE s.at \in {"manifest", "mark"}
    <2>1. s.manifest \in Manifest /\ (s.at = "mark" => s.key \in Nat)
        BY <1>1, <1>5, StateFields DEF Describing, Marking
    <2> DEFINE m == s.manifest
    <2>2. m.dumpKey \in Nat /\ m.snapshotKey \in Nat
        BY <2>1 DEF Manifest
    <2>3. HoldsRow(s, m.dumpKey) /\ ArtifactsStored(m)
          /\ (s.at = "mark" => /\ s.key \in m.dumpKey..now
                               /\ Promised(m.dumpKey) => s.key \in PutManifests)
        BY <1>5 DEF Inductive, Sound, ManifestHeld
    <2>4. ArtifactsStored(worker[w].manifest)'
        BY <1>2, <2>2, <2>3 DEF ArtifactsStored, StoresKept
    <2>5. s.at = "mark" => /\ s.key \in m.dumpKey..now
                           /\ Promised(m.dumpKey) => s.key \in PutManifests'
        BY <2>1, <2>2, <2>3 DEF StoresKept
    <2> QED
        BY <1>1, <1>2, <1>3, <1>5, <2>3, <2>4, <2>5 DEF Inductive, Sound, InTime, DumpHeld, ManifestHeld
<1>6. CASE s.at \in {"idle", "due", "retain"}
    BY <1>6 DEF Inductive, Sound, InTime, DumpHeld, ManifestHeld
<1> QED
    BY <1>1, <1>4, <1>5, <1>6, StateFields

LEMMA RecordsStand ==
    ASSUME Inductive, StoresKept, now' = now,
           \A i \in DOMAIN record' :
              \/ i \in DOMAIN record /\ record'[i] = record[i]
              \/ record'[i].status # "succeeded"
    PROVE  RecordsKept'
<1>1. ASSUME NEW i \in DOMAIN record', record'[i].status = "succeeded",
             Promised(record[i].created)'
      PROVE  StoredSince(record[i].created, record[i].keys)'
    <2> DEFINE r == record[i]
    <2>1. i \in DOMAIN record /\ record'[i] = r /\ r \in Row
        BY <1>1 DEF Inductive, TypeOK
    <2>2. Promised(r.created) /\ r.created \in Nat
        BY <1>1, <2>1 DEF Promised, Row
    <2>3. StoredSince(r.created, r.keys)
        BY <1>1, <2>1, <2>2 DEF Inductive, RecordsKept
    <2>4. r.keys.dump \in Nat /\ r.keys.snapshot \in Nat /\ r.keys.manifest \in Nat
        BY <2>3 DEF StoredSince, Keys
    <2> QED
        BY <2>1, <2>2, <2>3, <2>4 DEF StoredSince, StoresKept
<1> QED
    BY <1>1 DEF RecordsKept

\* A step of one worker that leaves the rest as it should be.
LEMMA OneMoves ==
    ASSUME Inductive, StoresKept, RowsKept, TypeOK', RecordsKept', now' = now,
           NEW w \in Worker, NEW s, worker' = [worker EXCEPT ![w] = s],
           Sound(s)'
    PROVE  Inductive'
<1>1. ASSUME NEW v \in Worker PROVE Sound(worker[v])'
    <2>1. CASE v = w
        <3>1. worker'[w] = s
            BY DEF Inductive, TypeOK
        <3> QED
            BY <2>1, <3>1 DEF Sound, InTime, DumpHeld, ManifestHeld
    <2>2. CASE v # w
        <3>1. worker'[v] = worker[v]
            BY <2>2 DEF Inductive, TypeOK
        <3> QED
            BY <3>1, OthersStand
    <2> QED
        BY <2>1, <2>2
<1> QED
    BY <1>1 DEF Inductive

LEMMA TimePasses == Inductive /\ Tick => Inductive'
<1> SUFFICES ASSUME Inductive, Tick PROVE Inductive'
    OBVIOUS
<1>1. /\ now \in Nat /\ now' = now + 1 /\ DayLength \in Nat
      /\ UNCHANGED <<version, dumps, snapshots, manifests, refused, record, worker>>
    BY BackupConstants DEF Tick, objects, history, Inductive, TypeOK
<1>2. TypeOK'
    BY <1>1 DEF Inductive, TypeOK, IsStore, Row
<1>3. ASSUME NEW t \in Nat, Promised(t)' PROVE Promised(t)
    <2> DEFINE p == (RetentionDays - 1) * DayLength
    <2>1. p \in Int
        BY Periods, BackupConstants
    <2> HIDE DEF p
    <2> QED
        BY <1>1, <1>3, <2>1 DEF Promised, p
<1>4. RecordsKept'
    BY <1>1, <1>3 DEF Inductive, TypeOK, RecordsKept, Row, StoredSince, PutDumps, PutSnapshots, PutManifests
<1>5. ASSUME NEW w \in Worker PROVE Sound(worker[w])'
    <2> DEFINE s == worker[w]
    <2>1. s \in WorkerState /\ Sound(s)
        BY DEF Inductive, TypeOK
    <2>2. InTime(s)'
        BY <1>1, <2>1, StateFields DEF Tick, Sound, InTime
    <2>3. ASSUME NEW key \in Nat, HoldsRow(s, key) PROVE HoldsRow(s, key)'
        BY <1>1, <2>3 DEF HoldsRow
    <2>4. DumpHeld(s)'
        <3>1. s.at \in {"dump", "snapshot"} => s.dumpKey \in Nat
            BY <2>1, StateFields DEF Storing
        <3> QED
            BY <1>1, <1>3, <2>1, <2>3, <3>1 DEF Sound, DumpHeld, PutDumps
    <2>5. ManifestHeld(s)'
        <3>1. s.at \in {"manifest", "mark"} =>
                /\ s.manifest.dumpKey \in Nat /\ s.manifest.snapshotKey \in Nat
                /\ s.at = "mark" => s.key \in Nat
            BY <2>1, StateFields DEF Describing, Marking, Manifest
        <3> QED
            BY <1>1, <1>3, <2>1, <2>3, <3>1
            DEF Sound, ManifestHeld, ArtifactsStored, PutDumps, PutSnapshots,
                PutManifests
    <2> QED
        BY <1>1, <2>2, <2>4, <2>5 DEF Sound, InTime, DumpHeld, ManifestHeld
<1> QED
    BY <1>2, <1>4, <1>5 DEF Inductive

LEMMA TriesBackup == ASSUME Inductive, NEW w \in Worker, ShouldRunBackup(w) PROVE Inductive'
<1> PICK s : s = [at |-> "due", since |-> now]
    OBVIOUS
<1>1. /\ worker' = [worker EXCEPT ![w] = s]
      /\ UNCHANGED <<now, version, dumps, snapshots, manifests, refused, record>>
      /\ now \in Nat
    BY DEF ShouldRunBackup, objects, history, Inductive, TypeOK
<1>2. s \in WorkerState /\ s.at = "due" /\ s.since = now
    BY <1>1 DEF WorkerState, Waiting
<1>3. TypeOK'
    BY <1>1, <1>2 DEF Inductive, TypeOK, IsStore
<1>4. Sound(s)'
    BY <1>1, <1>2, BackupConstants DEF Sound, InTime, DumpHeld, ManifestHeld
<1>5. StoresKept /\ RowsKept
    BY <1>1 DEF StoresKept, RowsKept, PutDumps, PutSnapshots, PutManifests
<1>6. RecordsKept'
    BY <1>1, <1>5, RecordsStand
<1> QED
    BY <1>1, <1>3, <1>4, <1>5, <1>6, OneMoves

LEMMA RecordsRow == ASSUME Inductive, NEW w \in Worker, InsertRecord(w) PROVE Inductive'
<1>0. \A n, q : /\ DOMAIN Put(record, n, q) = DOMAIN record \cup {n}
               /\ Put(record, n, q)[n] = q
               /\ \A x \in DOMAIN record : x # n => Put(record, n, q)[x] = record[x]
               /\ IsFunction(Put(record, n, q))
    BY DEF Put, IsFunction
<1>a. PICK s : s = [at |-> "dump", since |-> worker[w].since, row |-> NextRow,
                  dumpKey |-> now, dump |-> version]
    OBVIOUS
<1>b. PICK r : r = [status |-> "running", created |-> now, keys |-> None]
    OBVIOUS
<1>1. /\ worker' = [worker EXCEPT ![w] = s]
      /\ record' = Put(record, NextRow, r)
      /\ NextRow <= MaxRecord /\ worker[w].at = "due"
      /\ UNCHANGED <<now, version, dumps, snapshots, manifests, refused>>
      /\ now \in Nat /\ version \in Nat
    BY <1>a, <1>b DEF InsertRecord, objects, history, Inductive, TypeOK
<1>2. NextRow \in Nat /\ NextRow \notin DOMAIN record
    BY NextRowIsNew
<1>3. worker[w].since \in 0..now /\ now - worker[w].since <= DayLength - 1
    BY <1>1, StateFields DEF Inductive, TypeOK, Sound, InTime
<1>4. s \in WorkerState /\ s.at = "dump" /\ s.since = worker[w].since
      /\ s.dumpKey = now /\ s.row = NextRow
    BY <1>a, <1>1, <1>2, <1>3 DEF WorkerState, Storing
<1>5. r \in Row /\ r.created = now /\ r.status # "succeeded"
    BY <1>b, <1>1 DEF Row
<1>6. /\ DOMAIN record' = DOMAIN record \cup {NextRow}
      /\ record'[NextRow] = r
      /\ \A i \in DOMAIN record : record'[i] = record[i]
      /\ IsFunction(record')
    <2>1. record' = Put(record, NextRow, r)
        BY <1>1
    <2>2. DOMAIN record' = DOMAIN record \cup {NextRow}
        BY <1>0, <2>1
    <2>3. record'[NextRow] = r
        BY <1>0, <2>1
    <2>4. IsFunction(record')
        BY <2>1 DEF Put, IsFunction
    <2>5. ASSUME NEW i \in DOMAIN record PROVE record'[i] = record[i]
        <3>1. i # NextRow
            BY <1>2
        <3>2. Put(record, NextRow, r)[i] = record[i]
            BY <1>0, <3>1
        <3> QED
            BY <2>1, <3>2
    <2> QED
        BY <2>2, <2>3, <2>4, <2>5
<1>7. TypeOK'
    BY <1>1, <1>2, <1>4, <1>5, <1>6 DEF Inductive, TypeOK, IsStore
<1>8. Sound(s)'
    BY <1>1, <1>3, <1>4, <1>5, <1>6 DEF Sound, InTime, DumpHeld, ManifestHeld, HoldsRow
<1>9. StoresKept /\ RowsKept
    BY <1>1, <1>6 DEF StoresKept, RowsKept, PutDumps, PutSnapshots, PutManifests
<1>10. RecordsKept'
    BY <1>1, <1>5, <1>6, <1>9, RecordsStand
<1> QED
    BY <1>1, <1>7, <1>8, <1>9, <1>10, OneMoves

\* An upload is answered: its object is stored, or it is refused.
Answer(kind, k) ==
    /\ refused' \in [dumps : SUBSET (0..now), snapshots : SUBSET (0..now),
                     manifests : SUBSET (0..now)]
    /\ refused.dumps \subseteq refused'.dumps
    /\ refused.snapshots \subseteq refused'.snapshots
    /\ refused.manifests \subseteq refused'.manifests
    /\ IsFunction(dumps') /\ IsFunction(snapshots') /\ IsFunction(manifests')
    /\ DOMAIN dumps \subseteq DOMAIN dumps' /\ DOMAIN dumps' \subseteq 0..now
    /\ DOMAIN snapshots \subseteq DOMAIN snapshots'
    /\ DOMAIN snapshots' \subseteq 0..now
    /\ DOMAIN manifests \subseteq DOMAIN manifests'
    /\ DOMAIN manifests' \subseteq 0..now
    /\ kind = "dumps" => k \in PutDumps'
    /\ kind = "snapshots" => k \in PutSnapshots'
    /\ kind = "manifests" => k \in PutManifests'

LEMMA DumpAnswered ==
    ASSUME Inductive, NEW w \in Worker, BackupPostgres(w)
    PROVE  Answer("dumps", worker[w].dumpKey)
<1> PICK k, content : k = worker[w].dumpKey /\ content = worker[w].dump
    OBVIOUS
<1>1. k \in 0..now /\ UNCHANGED <<snapshots, manifests>>
    BY StateFields
    DEF BackupPostgres, Inductive, TypeOK, Sound, DumpHeld, HoldsRow, Storing
<1>2. CASE dumps' = Put(dumps, k, content) /\ UNCHANGED refused
    <2>1. DOMAIN dumps' = DOMAIN dumps \cup {k} /\ IsFunction(dumps')
        BY <1>2, PutDomain
    <2> QED
        BY <1>1, <1>2, <2>1 DEF Answer, PutDumps, Inductive, TypeOK, IsStore
<1>3. CASE Refused("dumps", k) /\ UNCHANGED dumps
    BY <1>1, <1>3 DEF Refused, Answer, PutDumps, Inductive, TypeOK, IsStore
<1> QED
    BY <1>2, <1>3 DEF BackupPostgres

LEMMA SnapshotAnswered ==
    ASSUME Inductive, NEW w \in Worker, BackupQdrant(w)
    PROVE  Answer("snapshots", now)
<1>1. now \in Nat /\ UNCHANGED <<dumps, manifests>>
    BY DEF BackupQdrant, Inductive, TypeOK
<1>2. CASE snapshots' = Put(snapshots, now, version) /\ UNCHANGED refused
    <2>1. DOMAIN snapshots' = DOMAIN snapshots \cup {now} /\ IsFunction(snapshots')
        BY <1>2, PutDomain
    <2> QED
        BY <1>1, <1>2, <2>1 DEF Answer, PutSnapshots, Inductive, TypeOK, IsStore
<1>3. CASE Refused("snapshots", now) /\ UNCHANGED snapshots
    BY <1>1, <1>3 DEF Refused, Answer, PutSnapshots, Inductive, TypeOK, IsStore
<1> QED
    BY <1>2, <1>3 DEF BackupQdrant

LEMMA ManifestAnswered ==
    ASSUME Inductive, NEW w \in Worker, PutManifest(w)
    PROVE  Answer("manifests", now)
<1> PICK k, content : k = now /\ content = worker[w].manifest
    OBVIOUS
<1>1. now \in Nat /\ UNCHANGED <<dumps, snapshots>>
    BY DEF PutManifest, Inductive, TypeOK
<1>2. CASE manifests' = Put(manifests, k, content) /\ UNCHANGED refused
    <2>1. DOMAIN manifests' = DOMAIN manifests \cup {k} /\ IsFunction(manifests')
        BY <1>2, PutDomain
    <2> QED
        BY <1>1, <1>2, <2>1 DEF Answer, PutManifests, Inductive, TypeOK, IsStore
<1>3. CASE Refused("manifests", k) /\ UNCHANGED manifests
    BY <1>1, <1>3 DEF Refused, Answer, PutManifests, Inductive, TypeOK, IsStore
<1> QED
    BY <1>2, <1>3 DEF PutManifest

LEMMA AnswerKeeps ==
    ASSUME NEW kind, NEW k, Answer(kind, k), UNCHANGED record
    PROVE  StoresKept /\ RowsKept
    BY DEF Answer, StoresKept, RowsKept, PutDumps, PutSnapshots, PutManifests

LEMMA StoresDump == ASSUME Inductive, NEW w \in Worker, BackupPostgres(w) PROVE Inductive'
<1>1. worker[w] \in Storing /\ Sound(worker[w]) /\ worker[w].at = "dump"
      /\ now \in Nat /\ worker \in [Worker -> WorkerState]
    BY StateFields DEF BackupPostgres, Inductive, TypeOK
<1> PICK s : s = [worker[w] EXCEPT !.at = "snapshot"]
    OBVIOUS
<1>2. /\ worker' = [worker EXCEPT ![w] = s]
      /\ UNCHANGED <<now, version, snapshots, manifests, record>>
    BY DEF BackupPostgres
<1>3. /\ s \in Storing /\ s.at = "snapshot" /\ s.since = worker[w].since
      /\ s.row = worker[w].row /\ s.dumpKey = worker[w].dumpKey
    BY <1>1 DEF Storing
<1>4. s \in WorkerState
    BY <1>3 DEF WorkerState
<1>5. Answer("dumps", s.dumpKey)
    BY <1>1, <1>3, DumpAnswered
<1>6. s.dumpKey \in 0..now /\ InTime(worker[w]) /\ HoldsRow(worker[w], s.dumpKey)
    BY <1>1, <1>3 DEF Sound, DumpHeld, HoldsRow, Storing
<1>7. TypeOK'
    BY <1>2, <1>4, <1>5, <1>6 DEF Inductive, TypeOK, IsStore, Answer
<1>8. Sound(s)'
    BY <1>1, <1>2, <1>3, <1>5, <1>6 DEF Sound, InTime, DumpHeld, ManifestHeld, HoldsRow, Answer
<1>9. StoresKept /\ RowsKept
    BY <1>2, <1>5, AnswerKeeps
<1>10. RecordsKept'
    BY <1>2, <1>9, RecordsStand
<1> QED
    BY <1>2, <1>7, <1>8, <1>9, <1>10, OneMoves

LEMMA StoresSnapshot == ASSUME Inductive, NEW w \in Worker, BackupQdrant(w) PROVE Inductive'
<1>1. worker[w] \in Storing /\ Sound(worker[w]) /\ worker[w].at = "snapshot"
      /\ now \in Nat /\ version \in Nat
    BY StateFields DEF BackupQdrant, Inductive, TypeOK
<1> PICK m : m = [dumpKey |-> worker[w].dumpKey, dump |-> worker[w].dump,
                  snapshotKey |-> now, snapshot |-> version]
    OBVIOUS
<1> PICK s : s = [at |-> "manifest", since |-> worker[w].since,
                  row |-> worker[w].row, manifest |-> m]
    OBVIOUS
<1>2. /\ worker' = [worker EXCEPT ![w] = s]
      /\ UNCHANGED <<now, version, dumps, manifests, record>>
    BY DEF BackupQdrant
<1>3. m \in Manifest /\ m.dumpKey = worker[w].dumpKey /\ m.snapshotKey = now
    BY <1>1 DEF Manifest, Storing
<1>4. /\ s \in Describing /\ s.at = "manifest" /\ s.since = worker[w].since
      /\ s.row = worker[w].row /\ s.manifest = m
    BY <1>1, <1>3 DEF Storing, Describing
<1>5. s \in WorkerState
    BY <1>4 DEF WorkerState
<1>6. Answer("snapshots", now)
    BY SnapshotAnswered
<1>7. /\ InTime(worker[w]) /\ HoldsRow(worker[w], m.dumpKey) /\ m.dumpKey \in 0..now
      /\ Promised(m.dumpKey) => m.dumpKey \in PutDumps
    BY <1>1, <1>3 DEF Sound, DumpHeld, HoldsRow, Storing
<1>8. TypeOK'
    BY <1>1, <1>2, <1>5, <1>6 DEF Inductive, TypeOK, IsStore, Answer
<1>9. ArtifactsStored(m)'
    BY <1>1, <1>2, <1>3, <1>6, <1>7 DEF ArtifactsStored, Promised, Answer, PutDumps
<1>10. Sound(s)'
    BY <1>1, <1>2, <1>4, <1>7, <1>9 DEF Sound, InTime, DumpHeld, ManifestHeld, HoldsRow, Answer
<1>11. StoresKept /\ RowsKept
    BY <1>2, <1>6, AnswerKeeps
<1>12. RecordsKept'
    BY <1>2, <1>11, RecordsStand
<1> QED
    BY <1>2, <1>8, <1>10, <1>11, <1>12, OneMoves

LEMMA StoresManifest == ASSUME Inductive, NEW w \in Worker, PutManifest(w) PROVE Inductive'
<1>1. worker[w] \in Describing /\ Sound(worker[w]) /\ worker[w].at = "manifest"
      /\ now \in Nat
    BY StateFields DEF PutManifest, Inductive, TypeOK
<1> PICK m : m = worker[w].manifest
    OBVIOUS
<1> PICK s : s = [at |-> "mark", since |-> worker[w].since,
                  row |-> worker[w].row, manifest |-> m, key |-> now]
    OBVIOUS
<1>2. /\ worker' = [worker EXCEPT ![w] = s]
      /\ UNCHANGED <<now, version, dumps, snapshots, record>>
    BY DEF PutManifest
<1>3. m \in Manifest /\ m.dumpKey \in Nat
    BY <1>1 DEF Describing, Manifest
<1>4. /\ s \in Marking /\ s.at = "mark" /\ s.since = worker[w].since
      /\ s.row = worker[w].row /\ s.manifest = m /\ s.key = now
    BY <1>1, <1>3 DEF Describing, Marking
<1>5. s \in WorkerState
    BY <1>4 DEF WorkerState
<1>6. Answer("manifests", now)
    BY ManifestAnswered
<1>7. /\ InTime(worker[w]) /\ HoldsRow(worker[w], m.dumpKey) /\ ArtifactsStored(m)
      /\ m.dumpKey \in 0..now
    BY <1>1, <1>3 DEF Sound, ManifestHeld, HoldsRow, Describing
<1>8. TypeOK'
    BY <1>1, <1>2, <1>5, <1>6 DEF Inductive, TypeOK, IsStore, Answer
<1>9. ArtifactsStored(m)'
    BY <1>2, <1>6, <1>7
    DEF ArtifactsStored, Promised, Answer, PutDumps, PutSnapshots
<1>10. Sound(s)'
    BY <1>1, <1>2, <1>4, <1>6, <1>7, <1>9 DEF Sound, InTime, DumpHeld, ManifestHeld, HoldsRow, Answer
<1>11. StoresKept /\ RowsKept
    BY <1>2, <1>6, AnswerKeeps
<1>12. RecordsKept'
    BY <1>2, <1>11, RecordsStand
<1> QED
    BY <1>2, <1>8, <1>10, <1>11, <1>12, OneMoves

LEMMA Marks == ASSUME Inductive, NEW w \in Worker, MarkSucceeded(w) PROVE Inductive'
<1>1. worker[w] \in Marking /\ Sound(worker[w]) /\ worker[w].at = "mark"
      /\ now \in Nat
    BY StateFields DEF MarkSucceeded, Inductive, TypeOK
<1> PICK m, n, t : m = worker[w].manifest /\ n = worker[w].row /\ t = worker[w].since
    OBVIOUS
<1> PICK s : s = [at |-> "retain", since |-> t]
    OBVIOUS
<1> PICK keys : keys = [dump |-> m.dumpKey, snapshot |-> m.snapshotKey,
                        manifest |-> worker[w].key]
    OBVIOUS
<1>2. /\ worker' = [worker EXCEPT ![w] = s]
      /\ record' = [record EXCEPT ![n].status = "succeeded", ![n].keys = keys]
      /\ UNCHANGED <<now, version, dumps, snapshots, manifests, refused>>
    BY DEF MarkSucceeded, objects, history
<1>3. m \in Manifest /\ t \in Nat /\ worker[w].key \in Nat
    BY <1>1 DEF Marking
<1>4. keys \in Keys /\ keys.dump = m.dumpKey /\ keys.snapshot = m.snapshotKey
      /\ keys.manifest = worker[w].key
    BY <1>3 DEF Keys, Manifest
<1>5. s \in WorkerState /\ s.at = "retain" /\ s.since = t
    BY <1>3 DEF WorkerState, Waiting
<1>6. /\ DOMAIN record' = DOMAIN record
      /\ \A i \in DOMAIN record : i # n => record'[i] = record[i]
    BY <1>2
<1>7. ASSUME n \in DOMAIN record
      PROVE  /\ record'[n] \in Row /\ record'[n].created = record[n].created
             /\ record'[n].keys = keys
    BY <1>2, <1>4, <1>7 DEF Inductive, TypeOK, Row
<1>8. IsFunction(record')
    BY <1>2 DEF IsFunction
<1>9. TypeOK'
    <2>1. \A i \in DOMAIN record' : record'[i] \in Row /\ record'[i].created <= now
        BY <1>6, <1>7 DEF Inductive, TypeOK
    <2> QED
        BY <1>2, <1>5, <1>6, <1>8, <2>1 DEF Inductive, TypeOK, IsStore
<1>10. /\ HoldsRow(worker[w], m.dumpKey) /\ ArtifactsStored(m)
       /\ worker[w].key >= m.dumpKey
       /\ Promised(m.dumpKey) => worker[w].key \in PutManifests
    BY <1>1, <1>3 DEF Sound, ManifestHeld, Manifest
<1>11. Sound(s)'
    BY <1>1, <1>2, <1>5 DEF Sound, InTime, DumpHeld, ManifestHeld
<1>12. StoresKept /\ RowsKept
    BY <1>2, <1>6, <1>7 DEF StoresKept, RowsKept, PutDumps, PutSnapshots, PutManifests
<1>13. RecordsKept'
    <2>1. ASSUME NEW i \in DOMAIN record', record'[i].status = "succeeded",
                 Promised(record[i].created)', i # n
          PROVE  StoredSince(record[i].created, record[i].keys)'
        BY <1>2, <1>6, <2>1
        DEF Inductive, RecordsKept, Promised, StoredSince, PutDumps, PutSnapshots,
            PutManifests
    <2>2. ASSUME n \in DOMAIN record, Promised(record[n].created)'
          PROVE  StoredSince(record[n].created, record[n].keys)'
        <3> PICK c : c = record[n].created
            OBVIOUS
        <3>1. c \in Nat /\ c <= now /\ record'[n].created = c /\ record'[n].keys = keys
            BY <1>7, <2>2 DEF Inductive, TypeOK, Row
        <3>2. Promised(c)
            BY <1>2, <2>2, <3>1 DEF Promised
        <3>3. RetentionDays >= 1
            <4> DEFINE p == RetentionDays * DayLength
            <4>1. now - c <= p - DayLength
                BY <3>2, Periods DEF Promised
            <4>2. /\ p \in Nat /\ now - c >= 0 /\ DayLength \in Nat /\ DayLength > 0
                  /\ RetentionDays \in Nat
                  /\ RetentionDays = 0 => p = 0
                BY <1>1, <3>1, Periods, BackupConstants
            <4> HIDE DEF p
            <4> QED
                BY <1>1, <3>1, <4>1, <4>2
        <3>4. c = m.dumpKey
            BY <1>10, <3>3 DEF HoldsRow
        <3>5. StoredSince(c, keys)
            BY <1>3, <1>4, <1>10, <3>1, <3>2, <3>4 DEF StoredSince, ArtifactsStored, Manifest
        <3> QED
            BY <1>2, <3>1, <3>5
            DEF StoredSince, PutDumps, PutSnapshots, PutManifests
    <2> QED
        BY <1>6, <2>1, <2>2 DEF RecordsKept
<1> QED
    BY <1>2, <1>9, <1>11, <1>12, <1>13, OneMoves

LEMMA MarksFailure == ASSUME Inductive, NEW w \in Worker, MarkFailed(w) PROVE Inductive'
<1> PICK n : n = worker[w].row
    OBVIOUS
<1>1. /\ worker' = [worker EXCEPT ![w] = Idle]
      /\ record' = [record EXCEPT ![n].status = "failed"]
      /\ UNCHANGED <<now, version, dumps, snapshots, manifests, refused>>
    BY DEF MarkFailed, Stop, objects, history
<1>2. /\ DOMAIN record' = DOMAIN record
      /\ \A i \in DOMAIN record : i # n => record'[i] = record[i]
    BY <1>1
<1>3. ASSUME n \in DOMAIN record
      PROVE  /\ record'[n] \in Row /\ record'[n].created = record[n].created
             /\ record'[n].status # "succeeded"
    BY <1>1, <1>3 DEF Inductive, TypeOK, Row
<1>4. IsFunction(record')
    BY <1>1 DEF IsFunction
<1>5. TypeOK'
    <2>1. \A i \in DOMAIN record' : record'[i] \in Row /\ record'[i].created <= now
        BY <1>2, <1>3 DEF Inductive, TypeOK
    <2> QED
        BY <1>1, <1>2, <1>4, <2>1 DEF Inductive, TypeOK, IsStore, WorkerState
<1>6. Sound(Idle)'
    BY DEF Sound, InTime, DumpHeld, ManifestHeld, Idle
<1>7. StoresKept /\ RowsKept
    BY <1>1, <1>2, <1>3 DEF StoresKept, RowsKept, PutDumps, PutSnapshots, PutManifests
<1>8. RecordsKept'
    BY <1>1, <1>2, <1>3, <1>7, RecordsStand
<1> QED
    BY <1>1, <1>5, <1>6, <1>7, <1>8, OneMoves

LEMMA Abandons == ASSUME Inductive, NEW w \in Worker, Abandon(w) PROVE Inductive'
<1>1. /\ worker' = [worker EXCEPT ![w] = Idle]
      /\ UNCHANGED <<now, version, dumps, snapshots, manifests, refused, record>>
    BY DEF Abandon, Stop, objects, history
<1>2. TypeOK'
    BY <1>1 DEF Inductive, TypeOK, IsStore, WorkerState
<1>3. Sound(Idle)'
    BY DEF Sound, InTime, DumpHeld, ManifestHeld, Idle
<1>4. StoresKept /\ RowsKept
    BY <1>1 DEF StoresKept, RowsKept, PutDumps, PutSnapshots, PutManifests
<1>5. RecordsKept'
    BY <1>1, <1>4, RecordsStand
<1> QED
    BY <1>1, <1>2, <1>3, <1>4, <1>5, OneMoves

LEMMA Retains == ASSUME Inductive, NEW w \in Worker, RunRetention(w) PROVE Inductive'
<1>1. PICK d \in SUBSET Expired(dumps), s \in SUBSET Expired(snapshots),
           m \in SUBSET Expired(manifests) :
         /\ dumps' = Without(dumps, d)
         /\ snapshots' = Without(snapshots, s)
         /\ manifests' = Without(manifests, m)
    BY DEF RunRetention
<1>2. PICK old : old = {i \in DOMAIN record : record[i].created < Cutoff}
    OBVIOUS
<1>3. /\ worker' = [worker EXCEPT ![w] = Idle]
      /\ record' = Without(record, old)
      /\ UNCHANGED <<now, version, refused>> /\ now \in Nat
    BY <1>2 DEF RunRetention, Stop, history, Inductive, TypeOK
<1>4. /\ DOMAIN dumps' = DOMAIN dumps \ d /\ IsFunction(dumps')
      /\ DOMAIN snapshots' = DOMAIN snapshots \ s /\ IsFunction(snapshots')
      /\ DOMAIN manifests' = DOMAIN manifests \ m /\ IsFunction(manifests')
    <2>1. DOMAIN dumps' = DOMAIN dumps \ d /\ IsFunction(dumps')
        BY <1>1, WithoutDomain
    <2>2. DOMAIN snapshots' = DOMAIN snapshots \ s /\ IsFunction(snapshots')
        BY <1>1, WithoutDomain
    <2>3. DOMAIN manifests' = DOMAIN manifests \ m /\ IsFunction(manifests')
        BY <1>1, WithoutDomain
    <2> QED
        BY <2>1, <2>2, <2>3
<1>5. /\ DOMAIN record' = DOMAIN record \ old /\ IsFunction(record')
      /\ \A i \in DOMAIN record' : record'[i] = record[i]
    <2>1. DOMAIN record' = DOMAIN record \ old /\ IsFunction(record')
        BY <1>3, WithoutDomain
    <2>2. \A i \in DOMAIN record \ old : record'[i] = record[i]
        BY <1>3, WithoutDomain
    <2> QED
        BY <2>1, <2>2
<1>6. TypeOK'
    BY <1>3, <1>4, <1>5 DEF Inductive, TypeOK, IsStore, WorkerState
<1>7. Sound(Idle)'
    BY DEF Sound, InTime, DumpHeld, ManifestHeld, Idle
<1>8. StoresKept
    <2>1. ASSUME NEW t \in Nat, NEW k \in Nat, k >= t, Promised(t)
          PROVE  k \notin Expired(dumps) /\ k \notin Expired(snapshots)
                    /\ k \notin Expired(manifests)
        BY <1>3, <2>1, SparedKeys
    <2> QED
        BY <1>3, <1>4, <2>1
        DEF StoresKept, PutDumps, PutSnapshots, PutManifests
<1>9. RowsKept
    <2>1. ASSUME RetentionDays >= 1, NEW i \in DOMAIN record,
                 now - record[i].created <= DayLength - 1
          PROVE  i \notin old
        <3> DEFINE p == RetentionDays * DayLength
        <3>1. p \in Nat /\ p >= DayLength /\ Cutoff = now - p /\ DayLength \in Nat
            BY <2>1, Periods, BackupConstants DEF Cutoff
        <3>2. record[i].created \in Nat
            BY DEF Inductive, TypeOK, Row
        <3> HIDE DEF p
        <3>3. ~ (record[i].created < Cutoff)
            BY <1>3, <2>1, <3>1, <3>2
        <3> QED
            BY <1>2, <3>3
    <2> QED
        BY <1>5, <2>1 DEF RowsKept
<1>10. RecordsKept'
    BY <1>3, <1>5, <1>8, RecordsStand
<1> QED
    BY <1>3, <1>6, <1>7, <1>8, <1>9, <1>10, OneMoves

LEMMA Steps == Inductive /\ [Next]_vars => Inductive'
<1> SUFFICES ASSUME Inductive, [Next]_vars PROVE Inductive'
    OBVIOUS
<1>1. ASSUME UNCHANGED <<now, dumps, snapshots, manifests, refused, record, worker>>,
             version' \in Nat
      PROVE  Inductive'
    BY <1>1 DEF Inductive, TypeOK, IsStore, RecordsKept, StoredSince, Promised,
                Sound, InTime, DumpHeld, ManifestHeld, HoldsRow, ArtifactsStored,
                PutDumps, PutSnapshots, PutManifests
<1>2. CASE Write
    <2>1. version' \in Nat
        BY <1>2 DEF Write, Inductive, TypeOK
    <2> QED
        BY <1>1, <1>2, <2>1 DEF Write, objects, history
<1>3. CASE \/ FindManifest \/ VerifyDump \/ VerifySnapshot \/ Restore
           \/ EndDrill \/ UNCHANGED vars
    <2>1. version' \in Nat
        BY <1>3
        DEF FindManifest, VerifyDump, VerifySnapshot, Restore, EndDrill, vars,
            Inductive, TypeOK
    <2> QED
        BY <1>1, <1>3, <2>1
        DEF FindManifest, VerifyDump, VerifySnapshot, Restore, EndDrill, vars,
            objects, history
<1>4. ASSUME NEW w \in Worker, BackupStep(w) PROVE Inductive'
    BY <1>4, TriesBackup, RecordsRow, StoresDump, StoresSnapshot, StoresManifest,
       Marks, MarksFailure, Abandons, Retains DEF BackupStep
<1> QED
    BY <1>2, <1>3, <1>4, TimePasses DEF Next

---------------------------------------------------------------------------
(* The drill.                                                              *)

PairsTaken ==
    \A k \in DOMAIN manifests : /\ manifests[k] \in Manifest
                                /\ PairOf(manifests[k]) \in taken

\* What the drill downloaded so far is of the manifest it found.
DrillSound ==
    /\ drill.at \in {"manifest", "dump"} => PairOf(drill.manifest) \in taken
    /\ drill.at = "dump" => drill.dump \in {None, drill.manifest.dump}
    /\ drill.at = "verified" =>
         \E pair \in taken : /\ drill.dump \in {None, pair[1]}
                             /\ drill.snapshot \in {None, pair[2]}

Restorable == PairsTaken /\ DrillSound /\ RestoredIsOneBackup

LEMMA RestorableAtFirst == Init => Restorable
    BY DEF Init, Restorable, PairsTaken, DrillSound, RestoredIsOneBackup, Empty,
           NoDrill, EmptyTarget

\* A step of a worker only adds manifests and pairs.
LEMMA WorkersKeep ==
    ASSUME Restorable, UNCHANGED <<drill, target>>, taken \subseteq taken', PairsTaken'
    PROVE  Restorable'
    BY DEF Restorable, DrillSound, RestoredIsOneBackup

LEMMA RestorableSteps ==
    Inductive /\ Restorable /\ [Next]_vars => Restorable'
<1> SUFFICES ASSUME Inductive, Restorable, [Next]_vars PROVE Restorable'
    OBVIOUS
<1>1. ASSUME UNCHANGED <<manifests, drill, target, taken>> PROVE Restorable'
    BY <1>1 DEF Restorable, PairsTaken, DrillSound, RestoredIsOneBackup
<1>2. ASSUME NEW w \in Worker, PutManifest(w) PROVE Restorable'
    <2> PICK k, m : k = now /\ m = worker[w].manifest
        OBVIOUS
    <2>1. CASE UNCHANGED <<manifests, taken>>
        BY <1>1, <1>2, <2>1 DEF PutManifest
    <2>2. CASE /\ manifests' = Put(manifests, k, m)
               /\ taken' = taken \cup {PairOf(m)}
        <3>1. m \in Manifest
            BY <1>2, StateFields DEF PutManifest, Inductive, TypeOK, Describing
        <3>2. PairsTaken'
            BY <2>2, <3>1 DEF Put, Restorable, PairsTaken
        <3> QED
            BY <1>2, <2>2, <3>2, WorkersKeep DEF PutManifest
    <2> QED
        BY <1>2, <2>1, <2>2 DEF PutManifest, PairOf
<1>3. ASSUME NEW w \in Worker, RunRetention(w) PROVE Restorable'
    <2>1. PICK m \in SUBSET Expired(manifests) : manifests' = Without(manifests, m)
        BY <1>3 DEF RunRetention
    <2>2. UNCHANGED <<drill, target, taken>>
        BY <1>3 DEF RunRetention, history
    <2>3. PairsTaken'
        BY <2>1, <2>2 DEF Without, Restrict, Restorable, PairsTaken
    <2> QED
        BY <2>2, <2>3, WorkersKeep
<1>4. CASE FindManifest
    <2> PICK m : m = manifests[Latest]
        OBVIOUS
    <2>1. Latest \in DOMAIN manifests
        BY <1>4, Greatest DEF FindManifest, Latest, Inductive, TypeOK, IsStore
    <2>2. PairOf(m) \in taken
        BY <2>1 DEF Restorable, PairsTaken
    <2>3. drill' = [at |-> "manifest", manifest |-> m] /\ target' = EmptyTarget
          /\ UNCHANGED <<manifests, taken>>
        BY <1>4 DEF FindManifest, objects, history
    <2> QED
        BY <2>2, <2>3
        DEF Restorable, PairsTaken, DrillSound, RestoredIsOneBackup, EmptyTarget
<1>5. CASE VerifyDump
    <2> PICK m : m = drill.manifest
        OBVIOUS
    <2>1. PICK d \in {None, m.dump} : drill' = [at |-> "dump", manifest |-> m, dump |-> d]
        BY <1>5 DEF VerifyDump, Verified
    <2>2. PairOf(m) \in taken /\ UNCHANGED <<manifests, target, taken>>
        BY <1>5 DEF VerifyDump, objects, history, Restorable, DrillSound
    <2> QED
        BY <2>1, <2>2
        DEF Restorable, PairsTaken, DrillSound, RestoredIsOneBackup
<1>6. CASE VerifySnapshot
    <2> PICK m, d : m = drill.manifest /\ d = drill.dump
        OBVIOUS
    <2>1. PICK s \in {None, m.snapshot} :
              drill' = [at |-> "verified", dump |-> d, snapshot |-> s]
        BY <1>6 DEF VerifySnapshot, Verified
    <2>2. PairOf(m) \in taken /\ d \in {None, m.dump}
          /\ UNCHANGED <<manifests, target, taken>>
        BY <1>6 DEF VerifySnapshot, objects, history, Restorable, DrillSound
    <2>3. PairOf(m)[1] = m.dump /\ PairOf(m)[2] = m.snapshot
        BY DEF PairOf
    <2>4. DrillSound'
        BY <2>1, <2>2, <2>3 DEF DrillSound
    <2> QED
        BY <2>2, <2>4 DEF Restorable, PairsTaken, RestoredIsOneBackup
<1>7. CASE Restore
    <2> PICK d, s : d = drill.dump /\ s = drill.snapshot
        OBVIOUS
    <2>1. d # None /\ UNCHANGED <<manifests, taken>> /\ drill' = NoDrill
        BY <1>7 DEF Restore, objects, history
    <2>2. PICK r \in {None, s} : target' = [dump |-> d, snapshot |-> r]
        BY <1>7 DEF Restore
    <2>3. PICK pair \in taken : d \in {None, pair[1]} /\ s \in {None, pair[2]}
        BY <1>7 DEF Restore, Restorable, DrillSound
    <2>4. RestoredIsOneBackup'
        BY <2>1, <2>2, <2>3 DEF RestoredIsOneBackup
    <2>5. DrillSound'
        BY <2>1 DEF DrillSound, NoDrill
    <2> QED
        BY <2>1, <2>4, <2>5 DEF Restorable, PairsTaken
<1>8. CASE EndDrill
    BY <1>8
    DEF EndDrill, objects, history, NoDrill, Restorable, PairsTaken, DrillSound,
        RestoredIsOneBackup
<1>9. ASSUME NEW w \in Worker,
             \/ ShouldRunBackup(w) \/ InsertRecord(w) \/ BackupPostgres(w)
             \/ BackupQdrant(w) \/ MarkSucceeded(w) \/ MarkFailed(w) \/ Abandon(w)
      PROVE  Restorable'
    BY <1>1, <1>9
    DEF ShouldRunBackup, InsertRecord, BackupPostgres, BackupQdrant,
        MarkSucceeded, MarkFailed, Abandon, objects, history
<1> QED
    BY <1>1, <1>2, <1>3, <1>4, <1>5, <1>6, <1>7, <1>8, <1>9
    DEF Next, BackupStep, Tick, Write, objects, history, vars

---------------------------------------------------------------------------
(* The last backup.                                                        *)

\* Long enough for two backups that take a day each, one after the other, and
\* the day the first of them began on.
LongRetention == RetentionDays >= 3 \/ (RetentionDays = 2 /\ DayLength <= 3)

\* A manifest names artifacts of less than a day before it.
ManifestsInTime ==
    \A k \in DOMAIN manifests :
        /\ manifests[k] \in Manifest
        /\ k - manifests[k].dumpKey <= DayLength - 1
        /\ manifests[k].snapshotKey >= manifests[k].dumpKey

\* The upload of a manifest was answered since a worker in "mark" began.
HasManifest(s) ==
    s.at \in {"mark", "retain"} => \E k \in PutManifests : k >= s.since

LastKept ==
    /\ ManifestsInTime
    /\ LatestBackupSurvives
    /\ \A w \in Worker : HasManifest(worker[w])

LEMMA LastKeptAtFirst == Init => LastKept
    BY DEF Init, LastKept, ManifestsInTime, LatestBackupSurvives, HasManifest, Empty, Idle

\* Retention spares what is less than two longest backups old.
LEMMA SparedLast ==
    ASSUME LongRetention, now \in Nat, NEW k \in Nat,
           now - k <= (DayLength - 1) + (DayLength - 1), NEW store
    PROVE  k \notin Expired(store)
<1>1. Day(k) * DayLength \in Int /\ Day(k) * DayLength > k - DayLength
    BY Midnight
<1> DEFINE p == RetentionDays * DayLength
           m == Day(k) * DayLength
<1>2. p \in Nat /\ p >= DayLength + DayLength + DayLength - 3
    <2>1. CASE RetentionDays = 2 /\ DayLength <= 3
        BY <2>1, BackupConstants
    <2>2. CASE RetentionDays >= 3
        <3> DEFINE e == RetentionDays - 3
        <3>1. e \in Nat /\ RetentionDays = e + 3
            BY <2>2, BackupConstants
        <3>2. /\ e * DayLength \in Nat
              /\ (e + 3) * DayLength = e * DayLength + DayLength + DayLength + DayLength
            BY <3>1, BackupConstants
        <3> QED
            BY <3>1, <3>2, BackupConstants
    <2> QED
        BY <2>1, <2>2 DEF LongRetention
<1>3. Cutoff = now - p
    BY DEF Cutoff
<1> HIDE DEF p, m
<1>4. ~ (m < now - p)
    BY <1>1, <1>2, BackupConstants DEF m
<1> QED
    BY <1>3, <1>4 DEF Expired, m

LEMMA LatestIsGreatest ==
    ASSUME Inductive, DOMAIN manifests # {}
    PROVE  /\ Latest \in DOMAIN manifests /\ Latest \in 0..now
           /\ \A x \in DOMAIN manifests : Latest >= x
    BY Greatest DEF Latest, Inductive, TypeOK, IsStore

\* A step that takes nothing from the stores and no manifest to them.
LEMMA StoresGrow ==
    ASSUME LastKept, UNCHANGED <<manifests, refused.manifests>>,
           PutDumps \subseteq PutDumps', PutSnapshots \subseteq PutSnapshots',
           \A w \in Worker : HasManifest(worker'[w])
    PROVE  LastKept'
    BY DEF LastKept, ManifestsInTime, LatestBackupSurvives, HasManifest, Latest,
           Unlisted, PutManifests

\* One worker moves, and if it has a manifest now, it had one before.
LEMMA MoverHasManifest ==
    ASSUME Inductive, LastKept, NEW w \in Worker, NEW s,
           worker' = [worker EXCEPT ![w] = s],
           s.at \in {"mark", "retain"} => /\ worker[w].at \in {"mark", "retain"}
                                          /\ s.since = worker[w].since
    PROVE  \A v \in Worker : HasManifest(worker'[v])
    BY DEF Inductive, TypeOK, LastKept, HasManifest

LEMMA LastManifestStored ==
    ASSUME LongRetention, Inductive, LastKept, NEW w \in Worker, PutManifest(w)
    PROVE  LastKept'
<1>1. worker[w] \in Describing /\ Sound(worker[w]) /\ worker[w].at = "manifest"
      /\ now \in Nat /\ DayLength \in Nat
    BY StateFields, BackupConstants DEF PutManifest, Inductive, TypeOK
<1> PICK k, m : k = now /\ m = worker[w].manifest
    OBVIOUS
<1> PICK s : s = [at |-> "mark", since |-> worker[w].since,
                  row |-> worker[w].row, manifest |-> m, key |-> now]
    OBVIOUS
<1>2. /\ worker' = [worker EXCEPT ![w] = s]
      /\ UNCHANGED <<now, dumps, snapshots>>
    BY DEF PutManifest
<1>3. m \in Manifest /\ m.dumpKey \in Nat /\ m.snapshotKey \in Nat
    BY <1>1 DEF Describing, Manifest
<1>5. /\ worker[w].since \in 0..now /\ now - worker[w].since <= DayLength - 1
      /\ m.dumpKey \in worker[w].since..now /\ ArtifactsStored(m)
    BY <1>1 DEF Sound, InTime, ManifestHeld, HoldsRow, Describing
<1>6. Promised(m.dumpKey)
    <2> DEFINE p == RetentionDays * DayLength
    <2>1. p \in Nat /\ p >= DayLength + DayLength
        <3> DEFINE e == RetentionDays - 2
        <3>1. e \in Nat /\ RetentionDays = e + 2
            BY BackupConstants DEF LongRetention
        <3>2. e * DayLength \in Nat /\ (e + 2) * DayLength = e * DayLength + DayLength + DayLength
            BY <3>1, <1>1
        <3> QED
            BY <3>1, <3>2, <1>1
    <2>2. (RetentionDays - 1) * DayLength = p - DayLength
        BY Periods
    <2> HIDE DEF p
    <2> QED
        BY <1>1, <1>3, <1>5, <2>1, <2>2 DEF Promised
<1>7. /\ m.dumpKey \in PutDumps /\ m.snapshotKey \in PutSnapshots
      /\ m.snapshotKey >= m.dumpKey
    BY <1>3, <1>5, <1>6 DEF ArtifactsStored
<1>8. Answer("manifests", k)
    BY ManifestAnswered
<1>9. \A v \in Worker : HasManifest(worker[v])'
    <2>1. ASSUME NEW v \in Worker, v # w PROVE HasManifest(worker[v])'
        BY <1>2, <1>8, <2>1
        DEF Answer, Inductive, TypeOK, LastKept, HasManifest, PutManifests
    <2>2. k >= s.since /\ worker'[w] = s
        BY <1>1, <1>2, <1>5 DEF Inductive, TypeOK
    <2>3. HasManifest(worker[w])'
        BY <1>8, <2>2 DEF HasManifest, Answer
    <2> QED
        BY <2>1, <2>3
<1>10. CASE manifests' = Put(manifests, k, m) /\ UNCHANGED refused
    <2>1. /\ DOMAIN manifests' = DOMAIN manifests \cup {k}
          /\ manifests'[k] = m
          /\ \A x \in DOMAIN manifests : x # k => manifests'[x] = manifests[x]
        BY <1>10 DEF Put
    <2>2. now - m.dumpKey <= DayLength - 1
        BY <1>1, <1>3, <1>5
    <2>3. ManifestsInTime'
        BY <1>3, <1>7, <2>1, <2>2 DEF LastKept, ManifestsInTime
    <2>4. Max(DOMAIN manifests') = k
        <3>1. DOMAIN manifests' \subseteq 0..now
            BY <1>1, <2>1 DEF Inductive, TypeOK, IsStore
        <3>2. /\ Max(DOMAIN manifests') \in DOMAIN manifests'
              /\ \A x \in DOMAIN manifests' : Max(DOMAIN manifests') >= x
            BY <1>1, <2>1, <3>1, Greatest
        <3> QED
            BY <1>1, <2>1, <3>1, <3>2
    <2>5. LatestBackupSurvives'
        BY <1>2, <1>7, <1>10, <2>1, <2>4
        DEF LatestBackupSurvives, Latest, PutDumps, PutSnapshots
    <2> QED
        BY <1>9, <2>3, <2>5 DEF LastKept
<1>11. CASE Refused("manifests", k) /\ UNCHANGED manifests
    <2>1. PutDumps' = PutDumps /\ PutSnapshots' = PutSnapshots
        BY <1>2, <1>11 DEF Refused, PutDumps, PutSnapshots, Inductive, TypeOK
    <2>2. Unlisted => Unlisted'
        BY <1>8, <1>11 DEF Unlisted, Latest, Answer
    <2>3. LatestBackupSurvives'
        BY <1>11, <2>1, <2>2 DEF LatestBackupSurvives, Latest, LastKept
    <2> QED
        BY <1>9, <1>11, <2>3 DEF LastKept, ManifestsInTime
<1> QED
    BY <1>10, <1>11 DEF PutManifest

\* The latest manifest is as recent as the backup of a worker that may delete,
\* unless an upload was refused.
LEMMA LatestIsRecent ==
    ASSUME Inductive, LastKept, NEW w \in Worker, RunRetention(w),
           DOMAIN manifests # {}, ~Unlisted
    PROVE  /\ Latest \in DOMAIN manifests /\ Latest \in 0..now
           /\ \A x \in DOMAIN manifests : Latest >= x
           /\ now - Latest <= DayLength - 1
<1>1. now \in Nat /\ DayLength \in Nat \ {0} /\ DOMAIN manifests \subseteq 0..now
    BY BackupConstants DEF Inductive, TypeOK, IsStore
<1>2. PICK own \in PutManifests : own >= worker[w].since
    BY DEF RunRetention, LastKept, HasManifest
<1>3. worker[w].since \in 0..now /\ now - worker[w].since <= DayLength - 1
    BY <1>1, StateFields DEF RunRetention, Inductive, TypeOK, Sound, InTime
<1>4. /\ Latest \in DOMAIN manifests /\ Latest \in 0..now
      /\ \A x \in DOMAIN manifests : Latest >= x
    BY LatestIsGreatest
<1>5. own \in Nat /\ Latest >= own
    BY <1>1, <1>4 DEF PutManifests, Unlisted, Inductive, TypeOK
<1> QED
    BY <1>1, <1>2, <1>3, <1>4, <1>5

LEMMA LastRetained ==
    ASSUME LongRetention, Inductive, LastKept, NEW w \in Worker, RunRetention(w)
    PROVE  LastKept'
<1>1. PICK d \in SUBSET Expired(dumps), s \in SUBSET Expired(snapshots),
           m \in SUBSET Expired(manifests) :
         /\ dumps' = Without(dumps, d)
         /\ snapshots' = Without(snapshots, s)
         /\ manifests' = Without(manifests, m)
    BY DEF RunRetention
<1>2. /\ worker' = [worker EXCEPT ![w] = Idle]
      /\ now \in Nat /\ DayLength \in Nat \ {0} /\ UNCHANGED refused
    BY BackupConstants DEF RunRetention, Stop, history, Inductive, TypeOK
<1>3. DOMAIN dumps' = DOMAIN dumps \ d
    BY <1>1, WithoutDomain
<1>4. DOMAIN snapshots' = DOMAIN snapshots \ s
    BY <1>1, WithoutDomain
<1>5. /\ DOMAIN manifests' = DOMAIN manifests \ m
      /\ \A k \in DOMAIN manifests' : manifests'[k] = manifests[k]
    BY <1>1 DEF Without, Restrict
<1>6. DOMAIN manifests' \subseteq 0..now
    BY <1>5 DEF Inductive, TypeOK, IsStore
<1>7. ASSUME DOMAIN manifests' = {} PROVE LatestBackupSurvives'
    BY <1>7 DEF LatestBackupSurvives
<1>8. ASSUME Unlisted, DOMAIN manifests' # {} PROVE LatestBackupSurvives'
    <2>1. PICK k \in refused.manifests : k > Latest
        BY <1>8 DEF Unlisted
    <2>2. Latest \in 0..now /\ \A x \in DOMAIN manifests : Latest >= x
        BY <1>5, <1>8, LatestIsGreatest
    <2>3. Max(DOMAIN manifests') \in DOMAIN manifests'
        BY <1>2, <1>6, <1>8, Greatest
    <2>4. k \in Nat /\ k > Max(DOMAIN manifests')
        BY <1>5, <1>6, <2>1, <2>2, <2>3 DEF Inductive, TypeOK
    <2>5. Unlisted'
        BY <1>2, <2>4 DEF Unlisted, Latest
    <2> QED
        BY <2>5 DEF LatestBackupSurvives
<1>9. ASSUME ~Unlisted, DOMAIN manifests # {} PROVE LatestBackupSurvives'
    <2>1. /\ Latest \in DOMAIN manifests /\ Latest \in 0..now
          /\ \A x \in DOMAIN manifests : Latest >= x
          /\ now - Latest <= DayLength - 1
        BY <1>9, LatestIsRecent
    <2> PICK L, l : L = Latest /\ l = manifests[L]
        OBVIOUS
    <2>2. /\ l \in Manifest /\ l.dumpKey \in Nat /\ l.snapshotKey \in Nat
          /\ L - l.dumpKey <= DayLength - 1 /\ l.snapshotKey >= l.dumpKey
          /\ l.dumpKey \in PutDumps /\ l.snapshotKey \in PutSnapshots
        BY <1>9, <2>1 DEF LastKept, ManifestsInTime, LatestBackupSurvives, Manifest
    <2>3. L \in DOMAIN manifests'
        <3>1. L \notin Expired(manifests)
            BY <1>2, <2>1, SparedLast
        <3> QED
            BY <1>5, <2>1, <3>1
    <2>4. l.dumpKey \in PutDumps'
        <3>1. now - l.dumpKey <= (DayLength - 1) + (DayLength - 1)
            BY <1>2, <2>1, <2>2
        <3>2. l.dumpKey \notin Expired(dumps)
            BY <1>2, <2>2, <3>1, SparedLast
        <3> QED
            BY <1>2, <1>3, <2>2, <3>2 DEF PutDumps
    <2>5. l.snapshotKey \in PutSnapshots'
        <3>1. now - l.snapshotKey <= (DayLength - 1) + (DayLength - 1)
            BY <1>2, <2>1, <2>2
        <3>2. l.snapshotKey \notin Expired(snapshots)
            BY <1>2, <2>2, <3>1, SparedLast
        <3> QED
            BY <1>2, <1>4, <2>2, <3>2 DEF PutSnapshots
    <2>6. Max(DOMAIN manifests') = L
        <3>1. DOMAIN manifests' \subseteq 0..now
            BY <1>5 DEF Inductive, TypeOK, IsStore
        <3>2. /\ Max(DOMAIN manifests') \in DOMAIN manifests'
              /\ \A x \in DOMAIN manifests' : Max(DOMAIN manifests') >= x
            BY <1>2, <2>3, <3>1, Greatest
        <3> QED
            BY <1>2, <1>5, <2>1, <2>3, <3>1, <3>2
    <2> QED
        BY <1>2, <1>5, <2>3, <2>4, <2>5, <2>6
        DEF LatestBackupSurvives, Latest, PutDumps, PutSnapshots
<1>10. LatestBackupSurvives'
    BY <1>5, <1>7, <1>8, <1>9
<1>11. ManifestsInTime'
    BY <1>5 DEF LastKept, ManifestsInTime
<1>12. \A v \in Worker : HasManifest(worker[v])'
    <2>1. ASSUME NEW v \in Worker, v # w PROVE HasManifest(worker[v])'
        <3>1. worker'[v] = worker[v] /\ worker[v] \in WorkerState
            BY <1>2, <2>1 DEF Inductive, TypeOK
        <3>2. CASE worker[v].at \notin {"mark", "retain"}
            BY <3>1, <3>2 DEF HasManifest
        <3>3. CASE worker[v].at \in {"mark", "retain"}
            <4>1. PICK own \in PutManifests : own >= worker[v].since
                BY <3>3 DEF LastKept, HasManifest
            <4>2. worker[v].since \in 0..now /\ now - worker[v].since <= DayLength - 1
                BY <1>2, <3>1, <3>3, StateFields DEF Inductive, Sound, InTime
            <4>3. own \in 0..now
                BY DEF PutManifests, Inductive, TypeOK, IsStore
            <4>4. now - own <= (DayLength - 1) + (DayLength - 1)
                BY <1>2, <4>1, <4>2, <4>3
            <4>5. own \notin Expired(manifests)
                BY <1>2, <4>3, <4>4, SparedLast
            <4>6. own \in PutManifests'
                BY <1>2, <1>5, <4>5 DEF PutManifests
            <4> QED
                BY <3>1, <4>1, <4>6 DEF HasManifest
        <3> QED
            BY <3>2, <3>3
    <2>2. HasManifest(worker[w])'
        BY <1>2 DEF Inductive, TypeOK, HasManifest, Idle
    <2> QED
        BY <2>1, <2>2
<1> QED
    BY <1>10, <1>11, <1>12 DEF LastKept

LEMMA ManifestPreserved ==
    ASSUME LongRetention, Inductive, LastKept, [Next]_vars,
           DOMAIN manifests # {}, ~Unlisted
    PROVE  Latest \in DOMAIN manifests'
<1>1. Latest \in DOMAIN manifests
    BY LatestIsGreatest
<1>2. ASSUME UNCHANGED manifests PROVE Latest \in DOMAIN manifests'
    BY <1>1, <1>2
<1>3. ASSUME NEW w \in Worker, PutManifest(w) PROVE Latest \in DOMAIN manifests'
    BY <1>1, <1>3 DEF PutManifest, Put
<1>4. ASSUME NEW w \in Worker, RunRetention(w) PROVE Latest \in DOMAIN manifests'
    <2>1. PICK m \in SUBSET Expired(manifests) : manifests' = Without(manifests, m)
        BY <1>4 DEF RunRetention
    <2>2. Latest \notin Expired(manifests)
        <3>1. now \in Nat /\ DayLength \in Nat \ {0}
            BY BackupConstants DEF Inductive, TypeOK
        <3>2. Latest \in Nat /\ now - Latest <= DayLength - 1
            BY <1>4, <3>1, LatestIsRecent
        <3> QED
            BY <3>1, <3>2, SparedLast
    <2> QED
        BY <1>1, <2>1, <2>2 DEF Without, Restrict
<1> QED
    BY <1>2, <1>3, <1>4
    DEF Next, BackupStep, Tick, Write, ShouldRunBackup, InsertRecord,
        BackupPostgres, BackupQdrant, MarkSucceeded, MarkFailed, Abandon,
        FindManifest, VerifyDump, VerifySnapshot, Restore, EndDrill, objects, history, vars

LEMMA LastKeptSteps ==
    LongRetention /\ Inductive /\ LastKept /\ [Next]_vars => LastKept'
<1> SUFFICES ASSUME LongRetention, Inductive, LastKept, [Next]_vars PROVE LastKept'
    OBVIOUS
<1>1. ASSUME UNCHANGED <<dumps, snapshots, manifests, refused, worker>> PROVE LastKept'
    BY <1>1
    DEF LastKept, ManifestsInTime, LatestBackupSurvives, HasManifest, Latest,
        Unlisted, PutDumps, PutSnapshots, PutManifests
<1>2. ASSUME NEW w \in Worker, NEW s, worker' = [worker EXCEPT ![w] = s],
             s.at \in {"mark", "retain"} => /\ worker[w].at \in {"mark", "retain"}
                                            /\ s.since = worker[w].since,
             UNCHANGED <<manifests, refused.manifests>>,
             PutDumps \subseteq PutDumps', PutSnapshots \subseteq PutSnapshots'
      PROVE  LastKept'
    BY <1>2, MoverHasManifest, StoresGrow DEF PutManifests
<1>3. ASSUME NEW w \in Worker, BackupStep(w) PROVE LastKept'
    <2>1. CASE ShouldRunBackup(w)
        <3> PICK s : s = [at |-> "due", since |-> now]
            OBVIOUS
        <3> QED
            BY <1>2, <2>1 DEF ShouldRunBackup, objects, history, PutDumps, PutSnapshots
    <2>2. CASE InsertRecord(w)
        <3> PICK s : s = [at |-> "dump", since |-> worker[w].since, row |-> NextRow,
                          dumpKey |-> now, dump |-> version]
            OBVIOUS
        <3> QED
            BY <1>2, <2>2 DEF InsertRecord, objects, history, PutDumps, PutSnapshots
    <2>3. CASE BackupPostgres(w)
        <3>1. PICK s : s = [worker[w] EXCEPT !.at = "snapshot"]
            OBVIOUS
        <3>2. worker' = [worker EXCEPT ![w] = s]
            BY <2>3, <3>1 DEF BackupPostgres
        <3>3. PICK k : Answer("dumps", k)
            BY <2>3, DumpAnswered
        <3>4. UNCHANGED <<manifests, refused.manifests>>
            BY <2>3 DEF BackupPostgres, Refused, Inductive, TypeOK
        <3>5. PutDumps \subseteq PutDumps' /\ PutSnapshots \subseteq PutSnapshots'
            BY <3>3 DEF Answer, PutDumps, PutSnapshots
        <3>6. s.at = "snapshot"
            BY <2>3, <3>1, StateFields DEF BackupPostgres, Inductive, TypeOK, Storing
        <3> QED
            BY <1>2, <3>2, <3>4, <3>5, <3>6
    <2>4. CASE BackupQdrant(w)
        <3> PICK m : m = [dumpKey |-> worker[w].dumpKey, dump |-> worker[w].dump,
                          snapshotKey |-> now, snapshot |-> version]
            OBVIOUS
        <3> PICK s : s = [at |-> "manifest", since |-> worker[w].since,
                          row |-> worker[w].row, manifest |-> m]
            OBVIOUS
        <3>1. worker' = [worker EXCEPT ![w] = s]
            BY <2>4 DEF BackupQdrant
        <3>2. Answer("snapshots", now)
            BY <2>4, SnapshotAnswered
        <3>3. UNCHANGED <<manifests, refused.manifests>>
            BY <2>4 DEF BackupQdrant, Refused, Inductive, TypeOK
        <3>4. PutDumps \subseteq PutDumps' /\ PutSnapshots \subseteq PutSnapshots'
            BY <3>2 DEF Answer, PutDumps, PutSnapshots
        <3> QED
            BY <1>2, <3>1, <3>3, <3>4
    <2>5. CASE MarkSucceeded(w)
        <3> PICK s : s = [at |-> "retain", since |-> worker[w].since]
            OBVIOUS
        <3> QED
            BY <1>2, <2>5 DEF MarkSucceeded, objects, history, PutDumps, PutSnapshots
    <2>6. CASE MarkFailed(w) \/ Abandon(w)
        BY <1>2, <2>6
        DEF MarkFailed, Abandon, Stop, objects, history, Idle, PutDumps, PutSnapshots
    <2> QED
        BY <1>3, <2>1, <2>2, <2>3, <2>4, <2>5, <2>6, LastManifestStored, LastRetained
        DEF BackupStep
<1> QED
    BY <1>1, <1>3
    DEF Next, Tick, Write, FindManifest, VerifyDump, VerifySnapshot, Restore,
        EndDrill, objects, history, vars

---------------------------------------------------------------------------

\* What a record says and what a worker relies on hold in every reachable state.
THEOREM BackupInvariance == Spec => []Inductive
<1> QED
    BY Initially, Steps, PTL DEF Spec

\* run_backup, run_retention: the artifacts of a row that says "succeeded" are
\* in the store until the row is within a day of the retention period, those
\* excepted whose upload the store refused.
THEOREM RecordsAreStored == Spec => []SucceededIsStored
<1>1. Inductive => SucceededIsStored
    BY DEF Inductive, RecordsKept, StoredSince, Promised, SucceededIsStored
<1> QED
    BY <1>1, BackupInvariance, PTL

\* run_restore_drill_with_options: a drill restores both databases of one
\* backup, or the first of the two, or nothing.
THEOREM DrillsDoNotMix == Spec => []RestoredIsOneBackup
<1>1. Restorable => RestoredIsOneBackup
    BY DEF Restorable
<1> QED
    BY <1>1, RestorableAtFirst, RestorableSteps, BackupInvariance, PTL DEF Spec

\* run_retention: what the latest manifest names and the store accepted is never
\* deleted while no newer manifest was refused, if objects are kept for three
\* days or longer (for two, if a backup takes long enough to reach into the next
\* day but one, it may be).
THEOREM LatestSurvives == LongRetention => (Spec => []LatestBackupSurvives)
<1>1. LastKept => LatestBackupSurvives
    BY DEF LastKept
<1>2. CASE LongRetention
    BY <1>1, <1>2, LastKeptAtFirst, LastKeptSteps, BackupInvariance, PTL DEF Spec
<1> QED
    BY <1>2

\* run_retention: the latest manifest is not deleted while no newer one was
\* refused, under the same condition.
THEOREM ManifestIsPreserved == LongRetention => (Spec => LatestManifestIsPreserved)
<1>1. CASE LongRetention
    <2>1. LongRetention /\ Inductive /\ LastKept /\ [Next]_vars =>
            [DOMAIN manifests # {} /\ ~Unlisted => Latest \in DOMAIN manifests']_vars
        BY ManifestPreserved
    <2> QED
        BY <1>1, <2>1, LastKeptAtFirst, LastKeptSteps, BackupInvariance, PTL
        DEF Spec, LatestManifestIsPreserved
<1> QED
    BY <1>1
=============================================================================
