---------------------------- MODULE NeedsReview -----------------------------
(***************************************************************************)
(* index-local and the review of its items: agents send files of a working *)
(* copy, each becomes an item in needs_review that takes the place of the  *)
(* older unreviewed item of the same path, and reviewers (users and        *)
(* agents, one by one or in bulk) promote items to the trusted lane or     *)
(* reject them.                                                            *)
(*                                                                         *)
(* index_local_file_for_agent is one READ COMMITTED transaction of several *)
(* statements, each of which sees what other transactions committed before *)
(* it started; the statements whose reads matter are actions.  Promoting   *)
(* or rejecting one item locks its row and is one action.                  *)
(*                                                                         *)
(* Simplifications: one project; an item and its chunk are one row; the    *)
(* source document, which the transaction upserts, is left out, and so are *)
(* texts, audit rows, the copy of the lane in the chunk's metadata (which  *)
(* retrieval does not read) and the origin and commit a bulk is filtered   *)
(* by (it takes any items that were in needs_review when it listed them).  *)
(***************************************************************************)
EXTENDS Naturals

CONSTANTS
    Call,       \* index_local_file_for_agent transactions under way at once
    Reviewer,   \* bulk promotions or rejections under way at once
    Path,       \* logical paths
    Hash,       \* content hashes
    MaxItem,    \* bound: number of knowledge_item rows
    Faults,     \* may a transaction fail or a request die?
    NoPath, NoHash

Item == 1..MaxItem

ASSUME NeedsReviewConstants ==
    /\ MaxItem \in Nat
    /\ Faults \in BOOLEAN
    /\ NoPath \notin Path
    /\ NoHash \notin Hash

VARIABLES
    item,       \* item[i]: the i-th row, in the order of insertion
    call,       \* call[c]: where the transaction is, and the rows it holds
    bulk,       \* bulk[r]: the verdict and the rows still to decide
    overlapped  \* history: have two transactions ever been under way at once?

vars == <<item, call, bulk, overlapped>>

Decided == {"approved", "rejected", "superseded"}
ItemRow == [status : {"absent", "needs_review"} \cup Decided,
            path : Path \cup {NoPath},
            hash : Hash \cup {NoHash}]

NoItem == [status |-> "absent", path |-> NoPath, hash |-> NoHash]

CallState == [pc : {"idle", "search", "lock", "insert"},
              path : Path \cup {NoPath},
              hash : Hash \cup {NoHash},
              hold : SUBSET Item]

IdleCall == [pc |-> "idle", path |-> NoPath, hash |-> NoHash, hold |-> {}]

Verdict == {"approved", "rejected"}
BulkState == [verdict : Verdict, todo : SUBSET Item]

TypeOK ==
    /\ item \in [Item -> ItemRow]
    /\ call \in [Call -> CallState]
    /\ bulk \in [Reviewer -> BulkState]
    /\ overlapped \in BOOLEAN

Init ==
    /\ item = [i \in Item |-> NoItem]
    /\ call = [c \in Call |-> IdleCall]
    /\ bulk = [r \in Reviewer |-> [verdict |-> "approved", todo |-> {}]]
    /\ overlapped = FALSE

---------------------------------------------------------------------------
(* index_local_file_for_agent.                                             *)

Unreviewed(p) == {i \in Item : item[i].status = "needs_review" /\ item[i].path = p}

\* Rows locked by the update of a transaction that has not committed.
LockedBy(c) == IF call[c].pc = "insert" THEN call[c].hold ELSE {}

Locked(i) == \E c \in Call : i \in LockedBy(c)

\* A hit on path and hash changes nothing; otherwise the transaction goes on.
Lookup(c, p, h) ==
    /\ call[c].pc = "idle"
    /\ \A i \in Unreviewed(p) : item[i].hash # h
    /\ call' = [call EXCEPT ![c] = [pc |-> "search", path |-> p, hash |-> h,
                                    hold |-> {}]]
    /\ overlapped' = (overlapped \/ \E d \in Call : call[d].pc # "idle")
    /\ UNCHANGED <<item, bulk>>

\* Mutant: the update does not look at the path.
SearchAnyPath(c) ==
    /\ call[c].pc = "search"
    /\ call' = [call EXCEPT ![c] = [@ EXCEPT
                    !.pc = "lock",
                    !.hold = {i \in UNION {Unreviewed(p) : p \in Path} :
                                item[i].hash # call[c].hash}]]
    /\ UNCHANGED <<item, bulk, overlapped>>

\* Mutant: the test on the hash is inverted.
SearchSameContent(c) ==
    /\ call[c].pc = "search"
    /\ call' = [call EXCEPT ![c] = [@ EXCEPT
                    !.pc = "lock",
                    !.hold = {i \in Unreviewed(call[c].path) :
                                item[i].hash = call[c].hash}]]
    /\ UNCHANGED <<item, bulk, overlapped>>

\* The supersede statement starts: it will update the rows it sees now.
Search(c) ==
    /\ call[c].pc = "search"
    /\ call' = [call EXCEPT ![c] = [@ EXCEPT
                    !.pc = "lock",
                    !.hold = {i \in Unreviewed(call[c].path) :
                                item[i].hash # call[c].hash}]]
    /\ UNCHANGED <<item, bulk, overlapped>>

\* Mutant: the rows are updated whatever became of them meanwhile.
LockUnchecked(c) ==
    /\ call[c].pc = "lock"
    /\ \A i \in call[c].hold : ~ Locked(i)
    /\ call' = [call EXCEPT ![c] = [@ EXCEPT !.pc = "insert"]]
    /\ UNCHANGED <<item, bulk, overlapped>>

\* It waits for the transactions that hold them, then reads them again.
Lock(c) ==
    /\ call[c].pc = "lock"
    /\ \A i \in call[c].hold : ~ Locked(i)
    /\ call' = [call EXCEPT ![c] = [@ EXCEPT
                    !.pc = "insert",
                    !.hold = {i \in call[c].hold : item[i].status = "needs_review"}]]
    /\ UNCHANGED <<item, bulk, overlapped>>

\* The new item and chunk, and the commit.
Insert(c) ==
    /\ call[c].pc = "insert"
    /\ \E n \in Item :
        /\ item[n].status = "absent"
        /\ \A k \in 1..(n - 1) : item[k].status # "absent"
        /\ item' = [i \in Item |->
                      CASE i = n -> [status |-> "needs_review",
                                     path |-> call[c].path,
                                     hash |-> call[c].hash]
                        [] i \in call[c].hold ->
                              [item[i] EXCEPT !.status = "superseded"]
                        [] OTHER -> item[i]]
    /\ call' = [call EXCEPT ![c] = IdleCall]
    /\ UNCHANGED <<bulk, overlapped>>

\* The transaction fails or its request dies; the file is counted as skipped.
Abort(c) ==
    /\ Faults
    /\ call[c].pc # "idle"
    /\ call' = [call EXCEPT ![c] = IdleCall]
    /\ UNCHANGED <<item, bulk, overlapped>>

---------------------------------------------------------------------------
(* promote_needs_review, reject_needs_review and their variants.           *)

\* The row is locked and still in needs_review.
Decidable(i) == item[i].status = "needs_review" /\ ~ Locked(i)

Decision(i, verdict) == item' = [item EXCEPT ![i] = [@ EXCEPT !.status = verdict]]

Decide(i, verdict) ==
    /\ Decidable(i)
    /\ Decision(i, verdict)
    /\ UNCHANGED <<call, bulk, overlapped>>

\* list_needs_review_ids_for_origin_commit.
BulkList(r, verdict) ==
    /\ bulk[r].todo = {}
    /\ \E ids \in SUBSET {i \in Item : item[i].status = "needs_review"} :
        bulk' = [bulk EXCEPT ![r] = [verdict |-> verdict, todo |-> ids]]
    /\ UNCHANGED <<item, call, overlapped>>

\* The ids one by one, oldest first; the first that is not in needs_review any
\* more ends the bulk with an error, and what was decided stays decided.
BulkStep(r) ==
    \E i \in bulk[r].todo :
        /\ \A k \in bulk[r].todo : i <= k
        /\ ~ Locked(i)
        /\ IF Decidable(i)
           THEN /\ Decision(i, bulk[r].verdict)
                /\ bulk' = [bulk EXCEPT ![r] = [@ EXCEPT !.todo = bulk[r].todo \ {i}]]
           ELSE /\ bulk' = [bulk EXCEPT ![r] = [@ EXCEPT !.todo = {}]]
                /\ UNCHANGED item
        /\ UNCHANGED <<call, overlapped>>

BulkDies(r) ==
    /\ Faults
    /\ bulk[r].todo # {}
    /\ bulk' = [bulk EXCEPT ![r] = [@ EXCEPT !.todo = {}]]
    /\ UNCHANGED <<item, call, overlapped>>

Next ==
    \/ \E c \in Call :
        \/ \E p \in Path, h \in Hash : Lookup(c, p, h)
        \/ Search(c) \/ Lock(c) \/ Insert(c) \/ Abort(c)
    \/ \E i \in Item, v \in Verdict : Decide(i, v)
    \/ \E r \in Reviewer :
        \/ \E v \in Verdict : BulkList(r, v)
        \/ BulkStep(r) \/ BulkDies(r)

Spec == Init /\ [][Next]_vars

---------------------------------------------------------------------------
\* What a transaction intends to supersede are other versions of its path; once
\* it holds their locks they wait for review, and nobody else holds them.
HeldRowsWait ==
    /\ \A c \in Call : \A i \in call[c].hold :
        /\ item[i].status # "absent"
        /\ item[i].path = call[c].path
        /\ item[i].hash # call[c].hash
    /\ \A c \in Call : \A i \in LockedBy(c) : item[i].status = "needs_review"
    /\ \A c, d \in Call : LockedBy(c) \cap LockedBy(d) # {} => c = d

\* Rows are numbered in the order of insertion.
RowsInOrder ==
    \A i, k \in Item : i < k /\ item[i].status = "absent" => item[k].status = "absent"

\* What a reviewer has decided, and what a newer version has replaced, is never
\* decided again: not by a second reviewer, a bulk that listed it earlier, or an
\* indexing transaction that saw it before the decision.  Only one of them wins.
ReviewIsFinal ==
    [][\A i \in Item : item[i].status \in Decided => item'[i] = item[i]]_vars

\* An unreviewed version only leaves the queue for a newer one of the same path
\* with another content: re-indexing never drops a file from review.
NothingIsDropped ==
    \A i \in Item : item[i].status = "superseded" =>
        \E k \in Item :
            /\ k > i
            /\ item[k].status # "absent"
            /\ item[k].path = item[i].path
            /\ item[k].hash # item[i].hash

\* A transaction that was never overlapped by another holds, from its supersede
\* statement on, all that waits on its path, and no copy of its own file waits.
SerialCallsSeeAll ==
    ~ overlapped => \A c \in Call : call[c].pc # "idle" =>
        /\ \A d \in Call : d # c => call[d].pc = "idle"
        /\ \A i \in Unreviewed(call[c].path) : item[i].hash # call[c].hash
        /\ call[c].pc # "search" => Unreviewed(call[c].path) \subseteq call[c].hold

\* "idempotent on project+path+hash" (agent_index.rs:429), and stale versions do
\* not accumulate (agent_index.rs:500-501): at most one version of a path waits
\* for review.  Only transactions that overlap can leave two, the same file
\* twice or two versions of it, since no unique index stands behind the lookup.
OneVersionWaits ==
    ~ overlapped => \A i, j \in Item :
        /\ item[i].status = "needs_review"
        /\ item[j].status = "needs_review"
        /\ item[i].path = item[j].path
        => i = j

\* The invariants together are inductive.
Inductive ==
    /\ TypeOK
    /\ RowsInOrder
    /\ HeldRowsWait
    /\ NothingIsDropped
    /\ SerialCallsSeeAll
    /\ OneVersionWaits
=============================================================================
