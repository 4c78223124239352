---------------------------- MODULE ReviewProofs ----------------------------
(***************************************************************************)
(* Proofs about NeedsReview, for any number of transactions, reviewers,    *)
(* paths, contents and rows.  The argument is the row lock: the rows a     *)
(* transaction is going to supersede are re-read under their locks and     *)
(* nobody decides a locked row, so the commit meets no decided row.        *)
(***************************************************************************)
EXTENDS NeedsReview, TLAPS

\* The invariant only looks at the rows and the calls.
LEMMA Stutter ==
    ASSUME Inductive, UNCHANGED <<item, call, overlapped>>,
           bulk' \in [Reviewer -> BulkState]
    PROVE  Inductive'
<1>1. TypeOK' /\ RowsInOrder' /\ HeldRowsWait' /\ NothingIsDropped'
    BY DEF Inductive, TypeOK, RowsInOrder, HeldRowsWait, LockedBy, NothingIsDropped
<1>2. SerialCallsSeeAll' /\ OneVersionWaits'
    BY DEF Inductive, SerialCallsSeeAll, Unreviewed, OneVersionWaits
<1> QED
    BY <1>1, <1>2 DEF Inductive

LEMMA Initially == Init => Inductive
<1> SUFFICES ASSUME Init PROVE Inductive
    OBVIOUS
<1>1. TypeOK
    BY DEF Init, TypeOK, ItemRow, NoItem, CallState, IdleCall, BulkState, Verdict
<1>2. /\ \A i \in Item : item[i].status = "absent"
      /\ \A c \in Call : call[c].hold = {} /\ call[c].pc = "idle"
    BY DEF Init, NoItem, IdleCall
<1>3. RowsInOrder /\ HeldRowsWait /\ NothingIsDropped
    BY <1>2 DEF RowsInOrder, HeldRowsWait, LockedBy, NothingIsDropped
<1>4. SerialCallsSeeAll /\ OneVersionWaits
    BY <1>2 DEF SerialCallsSeeAll, OneVersionWaits
<1> QED
    BY <1>1, <1>3, <1>4 DEF Inductive

\* A step of one call that leaves the rows alone: its intended rows must match,
\* those it locks must wait for review and be free, and a call that is alone
\* must see all that waits on its path.
LEMMA CallMoves ==
    ASSUME Inductive, NEW c \in Call, NEW s \in CallState,
           call' = [call EXCEPT ![c] = s], UNCHANGED <<item, bulk>>,
           overlapped' \in BOOLEAN, overlapped => overlapped',
           \A i \in s.hold : /\ item[i].status # "absent"
                             /\ item[i].path = s.path
                             /\ item[i].hash # s.hash,
           s.pc = "insert" => \A i \in s.hold :
                /\ item[i].status = "needs_review"
                /\ ~ Locked(i),
           ~ overlapped' /\ s.pc # "idle" =>
                /\ \A d \in Call : d # c => call[d].pc = "idle"
                /\ \A i \in Unreviewed(s.path) : item[i].hash # s.hash
                /\ s.pc # "search" => Unreviewed(s.path) \subseteq s.hold
    PROVE  Inductive'
<1> USE DEF Inductive
<1>1. call'[c] = s /\ \A d \in Call : d # c => call'[d] = call[d]
    BY DEF TypeOK
<1>2. TypeOK'
    BY DEF TypeOK
<1>3. \A d \in Call : d # c => LockedBy(d)' = LockedBy(d)
    BY <1>1 DEF LockedBy
<1>4. \A i \in LockedBy(c)' : item[i].status = "needs_review" /\ ~ Locked(i)
    BY <1>1 DEF LockedBy
<1>5. HeldRowsWait'
    <2>1. \A d \in Call : \A i \in call'[d].hold :
            /\ item[i].status # "absent"
            /\ item[i].path = call'[d].path
            /\ item[i].hash # call'[d].hash
        BY <1>1 DEF HeldRowsWait
    <2>2. \A d \in Call : \A i \in LockedBy(d)' : item[i].status = "needs_review"
        BY <1>3, <1>4 DEF HeldRowsWait
    <2>3. \A d, e \in Call : LockedBy(d)' \cap LockedBy(e)' # {} => d = e
        BY <1>3, <1>4 DEF HeldRowsWait, Locked
    <2> QED
        BY <2>1, <2>2, <2>3 DEF HeldRowsWait
<1>6. RowsInOrder' /\ NothingIsDropped' /\ OneVersionWaits'
    BY DEF RowsInOrder, NothingIsDropped, OneVersionWaits
<1>7. SerialCallsSeeAll'
    <2> SUFFICES ASSUME ~ overlapped', NEW d \in Call, call'[d].pc # "idle"
                 PROVE  /\ \A e \in Call : e # d => call'[e].pc = "idle"
                        /\ \A i \in Unreviewed(call'[d].path) : item[i].hash # call'[d].hash
                        /\ call'[d].pc # "search" =>
                                Unreviewed(call'[d].path) \subseteq call'[d].hold
        BY DEF SerialCallsSeeAll, Unreviewed
    <2>1. CASE d = c
        BY <1>1, <2>1
    <2>2. CASE d # c
        BY <1>1, <2>2 DEF SerialCallsSeeAll
    <2> QED
        BY <2>1, <2>2
<1> QED
    BY <1>2, <1>5, <1>6, <1>7

\* Lookup, Search, Lock and Abort.
LEMMA CallsMove ==
    ASSUME Inductive, NEW c \in Call,
           \/ \E p \in Path, h \in Hash : Lookup(c, p, h)
           \/ Search(c) \/ Lock(c) \/ Abort(c)
    PROVE  Inductive'
<1>t. call[c] \in CallState /\ overlapped \in BOOLEAN
    BY DEF Inductive, TypeOK
<1>a. ~ overlapped /\ call[c].pc # "idle" =>
        /\ \A d \in Call : d # c => call[d].pc = "idle"
        /\ \A i \in Unreviewed(call[c].path) : item[i].hash # call[c].hash
        /\ call[c].pc # "search" => Unreviewed(call[c].path) \subseteq call[c].hold
    BY DEF Inductive, SerialCallsSeeAll
<1>1. ASSUME NEW p \in Path, NEW h \in Hash, Lookup(c, p, h) PROVE Inductive'
    <2> DEFINE s == [pc |-> "search", path |-> p, hash |-> h, hold |-> {}]
    <2>1. s \in CallState /\ s.pc # "insert" /\ s.hold = {}
        BY DEF CallState
    <2>2. call' = [call EXCEPT ![c] = s] /\ UNCHANGED <<item, bulk>>
        BY <1>1 DEF Lookup
    <2>3. s.path = p /\ s.hash = h /\ s.pc = "search"
        OBVIOUS
    <2>4. /\ overlapped' \in BOOLEAN
          /\ overlapped => overlapped'
          /\ ~ overlapped' => \A d \in Call : call[d].pc = "idle"
          /\ \A i \in Unreviewed(p) : item[i].hash # h
        BY <1>t, <1>1 DEF Lookup
    <2> HIDE DEF s
    <2> QED
        BY <2>1, <2>2, <2>3, <2>4, CallMoves
<1>2. ASSUME Search(c) PROVE Inductive'
    <2> DEFINE rows == {i \in Unreviewed(call[c].path) : item[i].hash # call[c].hash}
               s == [call[c] EXCEPT !.pc = "lock", !.hold = rows]
    <2>1. rows \subseteq Item
        BY DEF Unreviewed
    <2>2. \A i \in rows : /\ item[i].status # "absent"
                          /\ item[i].path = call[c].path
                          /\ item[i].hash # call[c].hash
        BY DEF Unreviewed
    <2>3. call' = [call EXCEPT ![c] = s] /\ UNCHANGED <<item, bulk, overlapped>>
        BY <1>2 DEF Search
    <2>5. ~ overlapped =>
            /\ \A d \in Call : d # c => call[d].pc = "idle"
            /\ \A i \in Unreviewed(call[c].path) : item[i].hash # call[c].hash
            /\ Unreviewed(call[c].path) \subseteq rows
        BY <1>a, <1>2 DEF Search
    <2> HIDE DEF rows
    <2>4. /\ s \in CallState /\ s.pc # "insert" /\ s.hold = rows
          /\ s.path = call[c].path /\ s.hash = call[c].hash
        BY <1>t, <2>1 DEF CallState
    <2> HIDE DEF s
    <2> QED
        BY <1>t, <2>2, <2>3, <2>4, <2>5, CallMoves
<1>3. ASSUME Lock(c) PROVE Inductive'
    <2> DEFINE rows == {i \in call[c].hold : item[i].status = "needs_review"}
               s == [call[c] EXCEPT !.pc = "insert", !.hold = rows]
    <2>1. rows \subseteq Item
        BY <1>t DEF CallState
    <2>2. \A i \in rows : /\ item[i].status # "absent"
                          /\ item[i].path = call[c].path
                          /\ item[i].hash # call[c].hash
        BY DEF Inductive, HeldRowsWait
    <2>3. call' = [call EXCEPT ![c] = s] /\ UNCHANGED <<item, bulk, overlapped>>
        BY <1>3 DEF Lock
    <2>6. ~ overlapped =>
            /\ \A d \in Call : d # c => call[d].pc = "idle"
            /\ \A i \in Unreviewed(call[c].path) : item[i].hash # call[c].hash
            /\ Unreviewed(call[c].path) \subseteq rows
        BY <1>a, <1>3 DEF Lock, Unreviewed
    <2>4. \A i \in rows : item[i].status = "needs_review" /\ ~ Locked(i)
        BY <1>3 DEF Lock
    <2> HIDE DEF rows
    <2>5. /\ s \in CallState /\ s.hold = rows
          /\ s.path = call[c].path /\ s.hash = call[c].hash
        BY <1>t, <2>1 DEF CallState
    <2> HIDE DEF s
    <2> QED
        BY <1>t, <2>2, <2>3, <2>4, <2>5, <2>6, CallMoves
<1>4. ASSUME Abort(c) PROVE Inductive'
    <2>1. IdleCall \in CallState /\ IdleCall.pc = "idle" /\ IdleCall.hold = {}
        BY DEF CallState, IdleCall
    <2>2. call' = [call EXCEPT ![c] = IdleCall] /\ UNCHANGED <<item, bulk, overlapped>>
        BY <1>4 DEF Abort
    <2> QED
        BY <1>t, <2>1, <2>2, CallMoves
<1> QED
    BY <1>1, <1>2, <1>3, <1>4

\* The commit of an indexing transaction.
LEMMA Commits ==
    ASSUME Inductive, NEW c \in Call, Insert(c)
    PROVE  Inductive'
<1> USE DEF Inductive
<1>t. TypeOK
    OBVIOUS
<1>1. PICK n \in Item :
        /\ item[n].status = "absent"
        /\ \A k \in 1..(n - 1) : item[k].status # "absent"
        /\ item' = [i \in Item |->
                      CASE i = n -> [status |-> "needs_review",
                                     path |-> call[c].path,
                                     hash |-> call[c].hash]
                        [] i \in call[c].hold ->
                              [item[i] EXCEPT !.status = "superseded"]
                        [] OTHER -> item[i]]
    BY DEF Insert
<1>2. /\ call' = [call EXCEPT ![c] = IdleCall] /\ UNCHANGED <<bulk, overlapped>>
      /\ LockedBy(c) = call[c].hold
    BY DEF Insert, LockedBy
<1>3. /\ n \notin call[c].hold
      /\ \A i \in call[c].hold : i \in Item /\ item[i].status = "needs_review"
    BY <1>1, <1>2 DEF HeldRowsWait, TypeOK, CallState
<1>4. /\ item'[n] = [status |-> "needs_review", path |-> call[c].path,
                     hash |-> call[c].hash]
      /\ \A i \in call[c].hold : item'[i] = [item[i] EXCEPT !.status = "superseded"]
      /\ \A i \in Item : i # n /\ i \notin call[c].hold => item'[i] = item[i]
    BY <1>1, <1>3
<1>5. \A i \in call[c].hold : /\ item'[i] \in ItemRow
                              /\ item'[i].status = "superseded"
                              /\ item'[i].path = item[i].path
                              /\ item'[i].hash = item[i].hash
    <2> TAKE i \in call[c].hold
    <2>1. item[i] \in ItemRow /\ item'[i] = [item[i] EXCEPT !.status = "superseded"]
        BY <1>3, <1>4 DEF TypeOK
    <2> QED
        BY <2>1 DEF ItemRow, Decided
<1>6. /\ item'[n] \in ItemRow /\ item'[n].status = "needs_review"
      /\ item'[n].path = call[c].path /\ item'[n].hash = call[c].hash
    BY <1>4 DEF TypeOK, ItemRow, CallState
<1>7. /\ call'[c] = IdleCall /\ IdleCall \in CallState
      /\ IdleCall.hold = {} /\ IdleCall.pc = "idle"
      /\ \A d \in Call : d # c => call'[d] = call[d]
    BY <1>2 DEF TypeOK, IdleCall, CallState
<1>8. TypeOK'
    <2>1. \A i \in Item : item'[i] \in ItemRow
        BY <1>4, <1>5, <1>6 DEF TypeOK
    <2>2. item' \in [Item -> ItemRow]
        BY <1>1, <2>1
    <2> QED
        BY <1>2, <1>7, <2>2 DEF TypeOK
<1>9. \A i \in Item : item[i].status # "absent" =>
        /\ item'[i].status # "absent"
        /\ item'[i].path = item[i].path /\ item'[i].hash = item[i].hash
    BY <1>1, <1>4, <1>5
<1>10. RowsInOrder'
    <2> SUFFICES ASSUME NEW i \in Item, NEW k \in Item, i < k,
                        item'[i].status = "absent"
                 PROVE  item'[k].status = "absent"
        BY DEF RowsInOrder
    <2>1. item[i].status = "absent"
        BY <1>9
    <2>2. item[k].status = "absent"
        BY <2>1 DEF RowsInOrder
    <2>3. k # n
        BY <1>1, <2>1 DEF Item
    <2> QED
        BY <1>3, <1>4, <2>2, <2>3
<1>11. HeldRowsWait'
    <2>1. \A d \in Call : \A i \in call'[d].hold :
            /\ item'[i].status # "absent"
            /\ item'[i].path = call'[d].path
            /\ item'[i].hash # call'[d].hash
        BY <1>7, <1>9 DEF HeldRowsWait, TypeOK, CallState
    <2>2. \A d \in Call : LockedBy(d)' = IF d = c THEN {} ELSE LockedBy(d)
        BY <1>7 DEF LockedBy
    <2>3. \A d \in Call : \A i \in LockedBy(d)' : item'[i].status = "needs_review"
        <3> SUFFICES ASSUME NEW d \in Call, d # c, NEW i \in LockedBy(d)
                     PROVE  item'[i].status = "needs_review"
            BY <2>2
        <3>1. i \in Item /\ item[i].status = "needs_review" /\ i \notin call[c].hold
            BY <1>2 DEF HeldRowsWait, LockedBy, TypeOK, CallState
        <3> QED
            BY <1>1, <1>4, <3>1
    <2>4. \A d, e \in Call : LockedBy(d)' \cap LockedBy(e)' # {} => d = e
        BY <2>2 DEF HeldRowsWait
    <2> QED
        BY <2>1, <2>3, <2>4 DEF HeldRowsWait
<1>12. NothingIsDropped'
    <2> SUFFICES ASSUME NEW i \in Item, item'[i].status = "superseded"
                 PROVE  \E k \in Item : /\ k > i
                                        /\ item'[k].status # "absent"
                                        /\ item'[k].path = item'[i].path
                                        /\ item'[k].hash # item'[i].hash
        BY DEF NothingIsDropped
    <2>1. CASE item[i].status = "superseded"
        BY <1>9, <2>1 DEF NothingIsDropped
    <2>2. CASE i \in call[c].hold
        <3>1. n > i
            <4>1. ~ (n < i) /\ n # i
                BY <1>1, <1>3, <2>2 DEF RowsInOrder
            <4> QED
                BY <4>1, NeedsReviewConstants DEF Item
        <3> QED
            BY <1>5, <1>6, <2>2, <3>1 DEF HeldRowsWait
    <2> QED
        BY <1>4, <1>6, <2>1, <2>2
<1>13. ASSUME ~ overlapped
       PROVE  /\ \A d \in Call : d # c => call[d].pc = "idle"
              /\ Unreviewed(call[c].path) \subseteq call[c].hold
    BY <1>13 DEF Insert, SerialCallsSeeAll
<1>14. SerialCallsSeeAll'
    BY <1>2, <1>7, <1>13 DEF SerialCallsSeeAll
<1>15. OneVersionWaits'
    <2> SUFFICES ASSUME ~ overlapped, NEW i \in Item, NEW j \in Item,
                        item'[i].status = "needs_review",
                        item'[j].status = "needs_review",
                        item'[i].path = item'[j].path
                 PROVE  i = j
        BY <1>2 DEF OneVersionWaits
    <2>1. \A k \in Item : item'[k].status = "needs_review" /\ k # n =>
            /\ item'[k] = item[k]
            /\ item[k].path # call[c].path
        BY <1>4, <1>5, <1>13 DEF Unreviewed
    <2> QED
        BY <1>6, <2>1 DEF OneVersionWaits
<1> QED
    BY <1>8, <1>10, <1>11, <1>12, <1>14, <1>15

\* A decision on a row that waits for review and that nobody has locked.
LEMMA Decides ==
    ASSUME Inductive, NEW n \in Item, NEW v \in Verdict, Decidable(n),
           Decision(n, v), UNCHANGED <<call, overlapped>>,
           bulk' \in [Reviewer -> BulkState]
    PROVE  Inductive'
<1> USE DEF Inductive
<1> DEFINE row == [item[n] EXCEPT !.status = v]
<1>1. /\ row \in ItemRow /\ row.status = v
      /\ row.path = item[n].path /\ row.hash = item[n].hash
    BY DEF TypeOK, ItemRow, Decided, Verdict
<1>2. item' = [item EXCEPT ![n] = row] /\ v \notin {"absent", "superseded"}
    BY DEF Decision, Verdict
<1> HIDE DEF row
<1>3. item'[n] = row /\ \A i \in Item : i # n => item'[i] = item[i]
    BY <1>2 DEF TypeOK
<1>4. item[n].status = "needs_review" /\ \A c \in Call : n \notin LockedBy(c)
    BY DEF Decidable, Locked
<1>5. TypeOK'
    BY <1>1, <1>2 DEF TypeOK
<1>6. \A i \in Item :
        /\ item'[i].status = "absent" <=> item[i].status = "absent"
        /\ item'[i].status = "superseded" <=> item[i].status = "superseded"
        /\ item'[i].path = item[i].path /\ item'[i].hash = item[i].hash
    BY <1>1, <1>2, <1>3, <1>4
<1>7. RowsInOrder' /\ NothingIsDropped'
    BY <1>6 DEF RowsInOrder, NothingIsDropped
<1>8. HeldRowsWait'
    <2>1. \A c \in Call : LockedBy(c)' = LockedBy(c) /\ LockedBy(c) \subseteq Item
        BY DEF LockedBy, TypeOK, CallState
    <2>2. \A c \in Call : \A i \in LockedBy(c)' : item'[i].status = "needs_review"
        BY <1>3, <1>4, <2>1 DEF HeldRowsWait
    <2>3. \A c \in Call : \A i \in call[c].hold : i \in Item
        BY DEF TypeOK, CallState
    <2> QED
        BY <1>6, <2>1, <2>2, <2>3 DEF HeldRowsWait
<1>9. \A i \in Item : item'[i].status = "needs_review" => item'[i] = item[i]
    BY <1>1, <1>2, <1>3 DEF Verdict
<1>10. OneVersionWaits'
    BY <1>9 DEF OneVersionWaits
<1>11. \A p : Unreviewed(p)' \subseteq Unreviewed(p)
    BY <1>9 DEF Unreviewed
<1>12. SerialCallsSeeAll'
    BY <1>6, <1>11 DEF SerialCallsSeeAll, Unreviewed
<1> QED
    BY <1>5, <1>7, <1>8, <1>10, <1>12

\* What the steps of a bulk do to the rows and to the bulk.
LEMMA Bulks ==
    ASSUME TypeOK, NEW r \in Reviewer, BulkStep(r)
    PROVE  /\ bulk' \in [Reviewer -> BulkState]
           /\ UNCHANGED <<call, overlapped>>
           /\ \/ UNCHANGED item
              \/ \E i \in Item, v \in Verdict : Decidable(i) /\ Decision(i, v)
<1>1. bulk[r] \in BulkState
    BY DEF TypeOK
<1>2. PICK i \in bulk[r].todo :
        /\ IF Decidable(i)
           THEN /\ Decision(i, bulk[r].verdict)
                /\ bulk' = [bulk EXCEPT ![r] = [@ EXCEPT !.todo = bulk[r].todo \ {i}]]
           ELSE /\ bulk' = [bulk EXCEPT ![r] = [@ EXCEPT !.todo = {}]]
                /\ UNCHANGED item
        /\ UNCHANGED <<call, overlapped>>
    BY DEF BulkStep
<1>3. /\ [bulk[r] EXCEPT !.todo = {}] \in BulkState
      /\ [bulk[r] EXCEPT !.todo = bulk[r].todo \ {i}] \in BulkState
      /\ i \in Item /\ bulk[r].verdict \in Verdict
    BY <1>1 DEF BulkState
<1>4. bulk' \in [Reviewer -> BulkState]
    BY <1>2, <1>3 DEF TypeOK
<1> QED
    BY <1>2, <1>3, <1>4

\* Every step keeps the invariant.
LEMMA Preserved == Inductive /\ [Next]_vars => Inductive'
<1> SUFFICES ASSUME Inductive, [Next]_vars PROVE Inductive'
    OBVIOUS
<1>t. TypeOK
    BY DEF Inductive
<1>1. ASSUME UNCHANGED vars PROVE Inductive'
    BY <1>1, <1>t, Stutter DEF vars, TypeOK
<1>2. ASSUME NEW c \in Call,
             \/ \E p \in Path, h \in Hash : Lookup(c, p, h)
             \/ Search(c) \/ Lock(c) \/ Insert(c) \/ Abort(c)
      PROVE  Inductive'
    BY <1>2, CallsMove, Commits
<1>3. ASSUME NEW i \in Item, NEW v \in Verdict, Decide(i, v) PROVE Inductive'
    BY <1>3, <1>t, Decides DEF Decide, TypeOK
<1>4. ASSUME NEW r \in Reviewer, NEW v \in Verdict, BulkList(r, v) PROVE Inductive'
    <2>1. PICK ids \in SUBSET Item :
                bulk' = [bulk EXCEPT ![r] = [verdict |-> v, todo |-> ids]]
        BY <1>4 DEF BulkList
    <2>2. [verdict |-> v, todo |-> ids] \in BulkState
        BY DEF BulkState
    <2>3. bulk' \in [Reviewer -> BulkState]
        BY <1>t, <2>1, <2>2 DEF TypeOK
    <2> QED
        BY <1>4, <2>3, Stutter DEF BulkList
<1>5. ASSUME NEW r \in Reviewer, BulkStep(r) PROVE Inductive'
    BY <1>5, <1>t, Bulks, Decides, Stutter
<1>6. ASSUME NEW r \in Reviewer, BulkDies(r) PROVE Inductive'
    <2>1. [bulk[r] EXCEPT !.todo = {}] \in BulkState
        BY <1>t DEF TypeOK, BulkState
    <2>2. bulk' \in [Reviewer -> BulkState]
        BY <1>6, <1>t, <2>1 DEF BulkDies, TypeOK
    <2> QED
        BY <1>6, <2>2, Stutter DEF BulkDies
<1> QED
    BY <1>1, <1>2, <1>3, <1>4, <1>5, <1>6 DEF Next

\* The inductive invariant holds in every reachable state.
THEOREM ReviewInvariance == Spec => []Inductive
<1> QED
    BY Initially, Preserved, PTL DEF Spec

\* Re-indexing never drops a file from review: a superseded version has a newer
\* one of the same path, with another content.
THEOREM NothingDropped == Spec => []NothingIsDropped
<1>1. Inductive => NothingIsDropped
    BY DEF Inductive
<1> QED
    BY ReviewInvariance, <1>1, PTL

\* A step leaves decided rows alone.
LEMMA DecidedRowsStay ==
    ASSUME Inductive, [Next]_vars, NEW i \in Item, item[i].status \in Decided
    PROVE  item'[i] = item[i]
<1>t. TypeOK
    BY DEF Inductive
<1>1. ASSUME UNCHANGED item PROVE item'[i] = item[i]
    BY <1>1
<1>2. ASSUME NEW n \in Item, NEW v \in Verdict, Decidable(n), Decision(n, v)
      PROVE  item'[i] = item[i]
    BY <1>t, <1>2 DEF Decidable, Decision, Decided, TypeOK
<1>3. ASSUME NEW c \in Call, Insert(c) PROVE item'[i] = item[i]
    <2>1. \A k \in call[c].hold : item[k].status = "needs_review"
        BY <1>3 DEF Insert, Inductive, HeldRowsWait, LockedBy
    <2> QED
        BY <1>3, <2>1 DEF Insert, Decided
<1>4. ASSUME NEW r \in Reviewer, BulkStep(r) PROVE item'[i] = item[i]
    BY <1>1, <1>2, <1>4, <1>t, Bulks
<1> QED
    BY <1>1, <1>2, <1>3, <1>4 DEF Next, vars, Lookup, Search, Lock, Abort, Decide,
        BulkList, BulkDies

\* What was decided or superseded is never decided again, whatever transactions
\* and bulks saw it before.
THEOREM DecisionsAreFinal == Spec => ReviewIsFinal
<1>1. Inductive /\ [Next]_vars =>
        [\A i \in Item : item[i].status \in Decided => item'[i] = item[i]]_vars
    BY DecidedRowsStay
<1> QED
    BY ReviewInvariance, <1>1, PTL DEF Spec, ReviewIsFinal

\* While transactions do not overlap, one version of a path waits for review.
THEOREM OneVersion == Spec => []OneVersionWaits
<1>1. Inductive => OneVersionWaits
    BY DEF Inductive
<1> QED
    BY ReviewInvariance, <1>1, PTL
=============================================================================
