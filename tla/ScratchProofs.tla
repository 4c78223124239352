---------------------------- MODULE ScratchProofs ---------------------------
(***************************************************************************)
(* Proofs about ScratchMemory, for any number of calls, bodies and rows,   *)
(* with or without faults.  The argument is ownership: between the insert  *)
(* of a row and the end of the call that inserted it no other call acts on *)
(* the row, so a rollback never meets a memory somebody was told of after  *)
(* the call had ended.                                                     *)
(***************************************************************************)
EXTENDS ScratchMemory, TLAPS

\* The step of one call: everybody else's state is left alone, and the new
\* state of the call has its type if its fields have theirs.
LEMMA OneCall ==
    ASSUME TypeOK, NEW c \in Call, NEW s \in CallState,
           call' = [call EXCEPT ![c] = s]
    PROVE  /\ call' \in [Call -> CallState]
           /\ call'[c] = s
           /\ \A d \in Call : d # c => call'[d] = call[d]
BY DEF TypeOK

\* Goto and Answer, field by field.
LEMMA Moves ==
    ASSUME TypeOK, NEW c \in Call,
           NEW pc \in Owning \cup {"lookup", "insert", "done"},
           NEW answer \in {"none", "created", "idempotent", "error"}
    PROVE  /\ Goto(c, pc) =>
                /\ call' \in [Call -> CallState]
                /\ call'[c].pc = pc /\ call'[c].item = call[c].item
                /\ \A d \in Call : d # c => call'[d] = call[d]
           /\ Answer(c, answer) =>
                /\ call' \in [Call -> CallState]
                /\ call'[c].pc = "done"
                /\ \A d \in Call : d # c => call'[d] = call[d]
<1>1. call[c] \in CallState
    BY DEF TypeOK
<1>2. [call[c] EXCEPT !.pc = pc] \in CallState
    BY <1>1 DEF CallState
<1>3. [call[c] EXCEPT !.pc = "done", !.answer = answer] \in CallState
    BY <1>1 DEF CallState
<1>4. /\ [call[c] EXCEPT !.pc = pc].pc = pc
      /\ [call[c] EXCEPT !.pc = pc].item = call[c].item
      /\ [call[c] EXCEPT !.pc = "done", !.answer = answer].pc = "done"
    BY <1>1 DEF CallState
<1>5. ASSUME Goto(c, pc)
      PROVE  call' = [call EXCEPT ![c] = [call[c] EXCEPT !.pc = pc]]
    BY <1>5 DEF Goto
<1>6. ASSUME Answer(c, answer)
      PROVE  call' = [call EXCEPT ![c] =
                        [call[c] EXCEPT !.pc = "done", !.answer = answer]]
    BY <1>6 DEF Answer
<1> HIDE DEF Goto, Answer
<1>7. ASSUME Goto(c, pc)
      PROVE  /\ call' \in [Call -> CallState]
             /\ call'[c] = [call[c] EXCEPT !.pc = pc]
             /\ \A d \in Call : d # c => call'[d] = call[d]
    BY <1>2, <1>5, <1>7, OneCall
<1>8. ASSUME Answer(c, answer)
      PROVE  /\ call' \in [Call -> CallState]
             /\ call'[c] = [call[c] EXCEPT !.pc = "done", !.answer = answer]
             /\ \A d \in Call : d # c => call'[d] = call[d]
    BY <1>3, <1>6, <1>8, OneCall
<1> QED
    BY <1>4, <1>7, <1>8

\* No call owns a row and no row is used in an initial state.
LEMMA Initially == Init => Inductive
<1> SUFFICES ASSUME Init PROVE Inductive
    OBVIOUS
<1> USE DEF Init
<1>1. TypeOK
    BY DEF TypeOK, CallState, ItemRow, NoItem
<1>2. \A c \in Call : call[c].pc \notin Owning
    BY DEF Owning
<1>3. \A i \in Item : item[i].status = "absent" /\ item[i].told # "surely"
    BY DEF NoItem
<1>4. \A c \in Call : call[c].pc # "mark"
    BY <1>2 DEF Owning
<1> HIDE DEF Init
<1> QED
    BY <1>1, <1>2, <1>3, <1>4 DEF Inductive, OneItemPerContent, OwnersAreAlone,
        MarkedHavePoints, OwnedIsUntold, ToldIsSaved, NoOrphan

\* A step of a call that owns nothing before and afterwards and leaves the rows
\* and the points alone.
LEMMA Disowns ==
    ASSUME Inductive, NEW c \in Call, call[c].pc \notin Owning,
           UNCHANGED <<item, point>>, call' \in [Call -> CallState], call'[c].pc \notin Owning,
           \A d \in Call : d # c => call'[d] = call[d]
    PROVE  Inductive'
<1> USE DEF Inductive
<1>1. TypeOK'
    BY DEF TypeOK
<1>2. \A d \in Call : call'[d].pc \in Owning => call'[d] = call[d]
    OBVIOUS
<1>3. \A d \in Call : call'[d].pc = "mark" => call'[d] = call[d]
    BY <1>2 DEF Owning
<1>4. OneItemPerContent' /\ ToldIsSaved'
    BY DEF OneItemPerContent, ToldIsSaved, Saved
<1>5. OwnersAreAlone'
    BY <1>2 DEF OwnersAreAlone
<1>6. MarkedHavePoints' /\ OwnedIsUntold'
    BY <1>2, <1>3 DEF MarkedHavePoints, OwnedIsUntold
<1>7. NoOrphan'
    BY DEF NoOrphan, Saved, Owned
<1> QED
    BY <1>1, <1>4, <1>5, <1>6, <1>7

\* A step of the call that owns row i, on its own state, row and point: the
\* other rows and calls do not notice it.
LEMMA OwnerStep ==
    ASSUME Inductive, NEW c \in Call, call[c].pc \in Owning,
           NEW r \in ItemRow, r.hash = item[call[c].item].hash,
           r.status # "absent",
           item' = [item EXCEPT ![call[c].item] = r],
           point' \in SUBSET Item,
           \A k \in Item : k # call[c].item => (k \in point' <=> k \in point),
           call' \in [Call -> CallState],
           \A d \in Call : d # c => call'[d] = call[d],
           \/ /\ call'[c].pc \in Owning
              /\ call'[c].item = call[c].item
              /\ r.status = "scratch" /\ r.told # "surely"
              /\ call'[c].pc = "mark" => call[c].item \in point'
           \/ /\ call'[c].pc \notin Owning
              /\ r.told = "surely" => r.status = "scratch" /\ r.ready /\ call[c].item \in point'
              /\ r.status = "scratch" =>
                    (r.ready /\ call[c].item \in point') \/ r.left
    PROVE  Inductive'
<1> DEFINE i == call[c].item
<1> USE DEF Inductive
<1>0. i \in Item /\ item[i].status = "scratch"
    BY DEF OwnersAreAlone
<1>1. item'[i] = r /\ \A k \in Item : k # i => item'[k] = item[k]
    BY <1>0 DEF TypeOK
<1>2. TypeOK'
    BY <1>0 DEF TypeOK
<1>3. \A d \in Call : d # c /\ call[d].pc \in Owning =>
            call[d].item \in Item /\ call[d].item # i
    BY DEF OwnersAreAlone
<1>m. "mark" \in Owning
    BY DEF Owning
<1> HIDE DEF i
<1>4. OneItemPerContent'
    BY <1>0, <1>1 DEF OneItemPerContent, i
<1>5. OwnersAreAlone'
    BY <1>0, <1>1, <1>3 DEF OwnersAreAlone, i
<1>6. MarkedHavePoints'
    BY <1>0, <1>1, <1>3, <1>m DEF MarkedHavePoints, i
<1>7. OwnedIsUntold'
    BY <1>0, <1>1, <1>3 DEF OwnedIsUntold, i
<1>8. ASSUME NEW k \in Item, item'[k].told = "surely" PROVE Saved(k)'
    <2>1. CASE k # i
        BY <1>1, <1>8, <2>1 DEF ToldIsSaved, Saved, i
    <2>2. CASE k = i
        BY <1>0, <1>1, <1>8, <2>2 DEF Saved, i
    <2> QED
        BY <2>1, <2>2
<1>9. ToldIsSaved'
    BY <1>8 DEF ToldIsSaved
<1>10. ASSUME NEW k \in Item, item'[k].status = "scratch"
       PROVE  \/ Saved(k)'
              \/ \E d \in Call : call'[d].pc \in Owning /\ call'[d].item = k
              \/ item'[k].left
    <2>1. CASE k # i
        <3>1. item'[k] = item[k] /\ (k \in point' <=> k \in point)
            BY <1>1, <2>1 DEF i
        <3>2. CASE Saved(k) \/ item[k].left
            BY <3>1, <3>2 DEF Saved
        <3>3. ASSUME NEW d \in Call, call[d].pc \in Owning, call[d].item = k
              PROVE  call'[d].pc \in Owning /\ call'[d].item = k
            BY <2>1, <3>3 DEF i
        <3> QED
            BY <1>10, <3>1, <3>2, <3>3 DEF NoOrphan, Owned
    <2>2. CASE k = i
        BY <1>0, <1>1, <1>10, <2>2 DEF Saved, i
    <2> QED
        BY <2>1, <2>2
<1>11. NoOrphan'
    BY <1>10 DEF NoOrphan, Owned
<1> QED
    BY <1>2, <1>4, <1>5, <1>6, <1>7, <1>9, <1>11

\* A hit changes only what its row was told to be.
LEMMA HitRow ==
    ASSUME TypeOK, NEW i \in Item
    PROVE  /\ Hit(i) \in [Item -> ItemRow]
           /\ \A k \in Item :
                /\ Hit(i)[k].status = item[k].status /\ Hit(i)[k].hash = item[k].hash
                /\ Hit(i)[k].ready = item[k].ready /\ Hit(i)[k].left = item[k].left
                /\ Hit(i)[k].told = "surely" =>
                     item[k].told = "surely" \/ (k = i /\ ~ Owned(i) /\ ~ item[i].left)
<1> PICK x : x = IF Owned(i) \/ item[i].left THEN "early" ELSE "surely"
    OBVIOUS
<1>1. /\ x \in {"nobody", "early", "surely"}
      /\ x = "surely" => ~ Owned(i) /\ ~ item[i].left
      /\ Hit(i) = [item EXCEPT ![i].told = x]
    BY DEF Hit
<1> HIDE DEF Hit
<1>2. item[i] \in ItemRow /\ \A k \in Item : item[k] \in ItemRow
    BY DEF TypeOK
<1>3. Hit(i) \in [Item -> ItemRow]
    BY <1>1, <1>2 DEF TypeOK, ItemRow
<1>4. \A k \in Item : k # i => Hit(i)[k] = item[k]
    BY <1>1 DEF TypeOK
<1>5. Hit(i)[i] = [item[i] EXCEPT !.told = x]
    BY <1>1 DEF TypeOK
<1>6. /\ Hit(i)[i].status = item[i].status /\ Hit(i)[i].hash = item[i].hash
      /\ Hit(i)[i].ready = item[i].ready /\ Hit(i)[i].left = item[i].left
      /\ Hit(i)[i].told = x
    BY <1>2, <1>5 DEF ItemRow
<1> QED
    BY <1>1, <1>3, <1>4, <1>6

\* The row of a hit is saved unless it is owned or was left.
LEMMA Hits ==
    ASSUME Inductive, NEW c \in Call, call[c].pc \notin Owning, NEW i \in Item,
           item[i].status = "scratch", item' = Hit(i), UNCHANGED point,
           call' \in [Call -> CallState], call'[c].pc \notin Owning,
           \A d \in Call : d # c => call'[d] = call[d]
    PROVE  Inductive'
<1> USE DEF Inductive
<1>h. /\ item' \in [Item -> ItemRow]
      /\ \A k \in Item :
            /\ item'[k].status = item[k].status /\ item'[k].hash = item[k].hash
            /\ item'[k].ready = item[k].ready /\ item'[k].left = item[k].left
            /\ item'[k].told = "surely" =>
                 item[k].told = "surely" \/ (k = i /\ ~ Owned(i) /\ ~ item[i].left)
    BY HitRow
<1>1. TypeOK'
    BY <1>h DEF TypeOK
<1>2. \A d \in Call : /\ call'[d].pc \in Owning => call'[d] = call[d]
                      /\ call[d].pc \in Owning => call'[d] = call[d]
    OBVIOUS
<1>3. \A d \in Call : call'[d].pc = "mark" => call'[d] = call[d]
    BY <1>2 DEF Owning
<1>4. OneItemPerContent'
    BY <1>h DEF OneItemPerContent
<1>5. OwnersAreAlone'
    BY <1>h, <1>2 DEF OwnersAreAlone
<1>6. MarkedHavePoints'
    BY <1>3 DEF MarkedHavePoints
<1>7. OwnedIsUntold'
    BY <1>h, <1>2 DEF OwnedIsUntold, OwnersAreAlone, Owned
<1>8. ToldIsSaved'
    BY <1>h DEF ToldIsSaved, NoOrphan, Saved
<1>9. NoOrphan'
    BY <1>h, <1>2 DEF NoOrphan, Saved, Owned
<1> QED
    BY <1>1, <1>4, <1>5, <1>6, <1>7, <1>8, <1>9

\* Begin and Lookup, and Die of a call that owns no row.
LEMMA CallsComeAndGo ==
    ASSUME Inductive, NEW c \in Call,
           \/ \E h \in Hash : Begin(c, h)
           \/ Lookup(c)
           \/ Die(c) /\ call[c].pc \notin Owning
    PROVE  Inductive'
<1>t. TypeOK
    BY DEF Inductive
<1>o. call[c].pc \notin Owning
    BY DEF Begin, Lookup, Owning
<1>1. ASSUME NEW h \in Hash, Begin(c, h) PROVE Inductive'
    <2> DEFINE s == [pc |-> "lookup", hash |-> h, item |-> 0, answer |-> "none"]
    <2>1. s \in CallState /\ s.pc \notin Owning
        BY DEF CallState, Owning
    <2>2. call' = [call EXCEPT ![c] = s] /\ UNCHANGED <<item, point>>
        BY <1>1 DEF Begin
    <2> HIDE DEF s
    <2>3. /\ call' \in [Call -> CallState]
          /\ call'[c] = s
          /\ \A d \in Call : d # c => call'[d] = call[d]
        BY <1>t, <2>1, <2>2, OneCall
    <2> QED
        BY <1>o, <2>1, <2>2, <2>3, Disowns
<1>2. ASSUME Lookup(c) PROVE Inductive'
    <2>1. CASE Goto(c, "insert") /\ UNCHANGED item
        <3>1. /\ call' \in [Call -> CallState] /\ call'[c].pc = "insert"
              /\ \A d \in Call : d # c => call'[d] = call[d]
            BY <1>t, <2>1, Moves
        <3>2. UNCHANGED <<item, point>> /\ "insert" \notin Owning
            BY <1>2, <2>1 DEF Lookup, Owning
        <3> QED
            BY <1>o, <3>1, <3>2, Disowns
    <2>2. ASSUME NEW i \in Item, item[i].status = "scratch", item' = Hit(i),
                 call' = [call EXCEPT ![c] = [@ EXCEPT !.pc = "done", !.item = i,
                                                       !.answer = "idempotent"]]
          PROVE  Inductive'
        <3> DEFINE s == [call[c] EXCEPT !.pc = "done", !.item = i,
                                        !.answer = "idempotent"]
        <3>1. s \in CallState /\ s.pc \notin Owning
            BY <1>t DEF TypeOK, CallState, Owning
        <3>2. call' = [call EXCEPT ![c] = s] /\ UNCHANGED point
            BY <1>2, <2>2 DEF Lookup
        <3> HIDE DEF s
        <3>3. /\ call' \in [Call -> CallState]
              /\ call'[c] = s
              /\ \A d \in Call : d # c => call'[d] = call[d]
            BY <1>t, <3>1, <3>2, OneCall
        <3> QED
            BY <1>o, <2>2, <3>1, <3>2, <3>3, Hits
    <2> QED
        BY <1>2, <2>1, <2>2 DEF Lookup, Same
<1>3. ASSUME Die(c) PROVE Inductive'
    BY <1>o, <1>t, <1>3, Moves, Disowns DEF Die, Owning
<1> QED
    BY <1>1, <1>2, <1>3

\* The insert makes its call the only owner of a row nobody had.
LEMMA Inserts ==
    ASSUME Inductive, NEW c \in Call, Insert(c)
    PROVE  Inductive'
<1>t. TypeOK
    BY DEF Inductive
<1>1. CASE Answer(c, "error") /\ UNCHANGED item
    BY <1>t, <1>1, Moves, Disowns DEF Insert, Owning
<1>2. ASSUME NEW n \in Item, Same(call[c].hash) = {}, item[n].status = "absent",
             item' = [item EXCEPT ![n] = NewItem(call[c].hash)],
             call' = [call EXCEPT ![c] = [@ EXCEPT !.pc = "embed", !.item = n]]
      PROVE  Inductive'
    <2> DEFINE s == [call[c] EXCEPT !.pc = "embed", !.item = n]
               r == NewItem(call[c].hash)
    <2>1. s \in CallState /\ s.pc = "embed" /\ s.item = n
        BY <1>t DEF TypeOK, CallState, Owning
    <2>2. /\ r \in ItemRow
          /\ r.status = "scratch" /\ r.hash = call[c].hash /\ r.told # "surely"
        BY <1>t DEF TypeOK, CallState, ItemRow, NewItem, NoItem
    <2>3. call' = [call EXCEPT ![c] = s] /\ item' = [item EXCEPT ![n] = r]
        BY <1>2
    <2> HIDE DEF s, r
    <2>4. /\ call' \in [Call -> CallState]
          /\ call'[c] = s
          /\ \A d \in Call : d # c => call'[d] = call[d]
        BY <1>t, <2>1, <2>3, OneCall
    <2>5. item'[n] = r /\ \A k \in Item : k # n => item'[k] = item[k]
        BY <1>t, <2>3 DEF TypeOK
    <2>6. UNCHANGED point
        BY DEF Insert
    <2>7. TypeOK'
        BY <1>t, <2>2, <2>3, <2>4, <2>6 DEF TypeOK
    <2>8. \A d \in Call : d # c /\ call[d].pc \in Owning =>
                call[d].item \in Item /\ call[d].item # n
        BY <1>2 DEF Inductive, OwnersAreAlone
    <2>m. "mark" \in Owning
        BY DEF Owning
    <2>9. OneItemPerContent'
        <3>1. \A k \in Item : item[k].status = "scratch" => item[k].hash # r.hash
            BY <1>2, <2>2 DEF Same
        <3> QED
            BY <2>5, <3>1 DEF Inductive, OneItemPerContent
    <2>10. OwnersAreAlone'
        BY <2>1, <2>2, <2>4, <2>5, <2>8 DEF Inductive, OwnersAreAlone
    <2>11. MarkedHavePoints'
        BY <2>1, <2>4, <2>6 DEF Inductive, MarkedHavePoints
    <2>12. OwnedIsUntold'
        BY <2>1, <2>2, <2>4, <2>5, <2>8 DEF Inductive, OwnedIsUntold
    <2>13. ASSUME NEW k \in Item, item'[k].told = "surely" PROVE Saved(k)'
        <3>1. k # n
            BY <2>2, <2>5, <2>13
        <3> QED
            BY <2>5, <2>6, <2>13, <3>1 DEF Inductive, ToldIsSaved, Saved
    <2>14. ToldIsSaved'
        BY <2>13 DEF ToldIsSaved
    <2>15. NoOrphan'
        <3>1. \A d \in Call : call[d].pc \in Owning =>
                    call'[d].pc \in Owning /\ call'[d].item = call[d].item
            BY <2>4 DEF Insert, Owning
        <3>2. call'[c].pc \in Owning /\ call'[c].item = n
            BY <2>1, <2>4 DEF Owning
        <3> QED
            BY <2>5, <2>6, <3>1, <3>2 DEF Inductive, NoOrphan, Saved, Owned
    <2> QED
        BY <2>7, <2>9, <2>10, <2>11, <2>12, <2>14, <2>15 DEF Inductive
<1> QED
    BY <1>1, <1>2 DEF Insert

\* A row set to itself is the row.
LEMMA SameRow ==
    ASSUME TypeOK, NEW i \in Item
    PROVE  item = [item EXCEPT ![i] = item[i]] /\ item[i] \in ItemRow
BY DEF TypeOK

\* Embedding, marking, undoing and dying are steps of the owner.
LEMMA OwnersWork ==
    ASSUME Inductive, NEW c \in Call,
           \/ Embed(c) \/ Mark(c) \/ Unpoint(c) \/ Rollback(c)
           \/ Die(c) /\ call[c].pc \in Owning
    PROVE  Inductive'
<1> DEFINE i == call[c].item
<1>t. TypeOK /\ point \in SUBSET Item
    BY DEF Inductive, TypeOK
<1>p. {"embed", "mark", "unpoint", "rollback"} = Owning /\ "done" \notin Owning
    BY DEF Owning
<1>o. call[c].pc \in Owning
    BY <1>p DEF Embed, Mark, Unpoint, Rollback
<1>i. i \in Item /\ item[i].status = "scratch" /\ item[i].told # "surely"
    BY <1>o DEF Inductive, OwnersAreAlone, OwnedIsUntold
<1>s. item = [item EXCEPT ![i] = item[i]] /\ item[i] \in ItemRow
    BY <1>t, <1>i, SameRow
<1>1. ASSUME NEW pc \in Owning, Goto(c, pc), UNCHANGED item, point' \in SUBSET Item,
             \A k \in Item : k # i => (k \in point' <=> k \in point),
             pc = "mark" => i \in point'
      PROVE  Inductive'
    <2>1. /\ call' \in [Call -> CallState]
          /\ call'[c].pc = pc /\ call'[c].item = call[c].item
          /\ \A d \in Call : d # c => call'[d] = call[d]
        BY <1>t, <1>1, Moves
    <2> QED
        BY <1>o, <1>i, <1>s, <1>1, <2>1, OwnerStep
<1>2. CASE Embed(c)
    BY <1>t, <1>i, <1>p, <1>1, <1>2 DEF Embed
<1>3. CASE Unpoint(c)
    BY <1>t, <1>i, <1>p, <1>1, <1>3 DEF Unpoint
<1>4. CASE Mark(c)
    <2> DEFINE marked == [item EXCEPT ![i] = [@ EXCEPT !.ready = TRUE]]
               ready == [item[i] EXCEPT !.ready = TRUE]
               told == [item[i] EXCEPT !.ready = TRUE, !.told = "surely"]
    <2>0. i \in point /\ UNCHANGED point
        BY <1>4 DEF Mark, Inductive, MarkedHavePoints
    <2>1. /\ ready \in ItemRow /\ ready.hash = item[i].hash
          /\ ready.status = "scratch" /\ ready.told # "surely"
        BY <1>i, <1>s DEF ItemRow
    <2>2. /\ told \in ItemRow /\ told.hash = item[i].hash
          /\ told.status = "scratch" /\ told.ready
        BY <1>i, <1>s DEF ItemRow
    <2>3. marked = [item EXCEPT ![i] = ready]
        BY <1>i DEF TypeOK
    <2>4. [marked EXCEPT ![i] = [@ EXCEPT !.told = "surely"]] = [item EXCEPT ![i] = told]
        BY <1>t, <1>i, <1>s DEF TypeOK, ItemRow
    <2>5. \/ /\ item' = [item EXCEPT ![i] = told]
             /\ Answer(c, "created")
          \/ item' \in {item, [item EXCEPT ![i] = ready]} /\ Goto(c, "unpoint")
        BY <1>4, <2>3, <2>4 DEF Mark
    <2> HIDE DEF marked, ready, told
    <2>6. CASE Goto(c, "unpoint") /\ item' = item
        BY <1>t, <1>p, <1>1, <2>0, <2>6
    <2>7. CASE Goto(c, "unpoint") /\ item' = [item EXCEPT ![i] = ready]
        <3>1. /\ call' \in [Call -> CallState]
              /\ call'[c].pc = "unpoint" /\ call'[c].item = call[c].item
              /\ \A d \in Call : d # c => call'[d] = call[d]
            BY <1>p, <1>t, <2>7, Moves
        <3> QED
            BY <1>o, <1>p, <1>t, <2>0, <2>1, <2>7, <3>1, OwnerStep
    <2>8. CASE Answer(c, "created") /\ item' = [item EXCEPT ![i] = told]
        <3>1. /\ call' \in [Call -> CallState]
              /\ call'[c].pc = "done"
              /\ \A d \in Call : d # c => call'[d] = call[d]
            BY <1>t, <2>8, Moves
        <3> QED
            BY <1>o, <1>p, <1>t, <2>0, <2>2, <2>8, <3>1, OwnerStep
    <2> QED
        BY <2>5, <2>6, <2>7, <2>8
<1>5. CASE Rollback(c) \/ Die(c)
    <2> DEFINE gone == [item[i] EXCEPT !.status = "deleted"]
               left == [item[i] EXCEPT !.left = TRUE]
    <2>0. UNCHANGED point
        BY <1>5 DEF Rollback, Die
    <2>1. /\ gone \in ItemRow /\ gone.hash = item[i].hash
          /\ gone.status = "deleted" /\ gone.told # "surely"
        BY <1>i, <1>s DEF ItemRow
    <2>2. /\ left \in ItemRow /\ left.hash = item[i].hash
          /\ left.status = "scratch" /\ left.told # "surely" /\ left.left
        BY <1>i, <1>s DEF ItemRow
    <2>3. \/ item' = [item EXCEPT ![i] = gone]
          \/ item' = [item EXCEPT ![i] = left]
        BY <1>5, <1>o DEF Rollback, Die, Abandoned
    <2>4. /\ call' \in [Call -> CallState]
          /\ call'[c].pc = "done"
          /\ \A d \in Call : d # c => call'[d] = call[d]
        BY <1>t, <1>5, Moves DEF Rollback, Die
    <2> HIDE DEF gone, left
    <2>5. CASE item' = [item EXCEPT ![i] = left]
        BY <1>o, <1>p, <1>t, <2>0, <2>2, <2>4, <2>5, OwnerStep
    <2>6. CASE item' = [item EXCEPT ![i] = gone]
        BY <1>o, <1>p, <1>t, <2>0, <2>1, <2>4, <2>6, OwnerStep
    <2> QED
        BY <2>3, <2>5, <2>6
<1> QED
    BY <1>2, <1>3, <1>4, <1>5

\* Every step keeps the invariant.
LEMMA Preserved == Inductive /\ [Next]_vars => Inductive'
<1>1. ASSUME Inductive, UNCHANGED vars PROVE Inductive'
    BY <1>1 DEF vars, Inductive, TypeOK, OneItemPerContent, OwnersAreAlone,
        MarkedHavePoints, OwnedIsUntold, ToldIsSaved, NoOrphan, Saved, Owned
<1>2. ASSUME Inductive, NEW c \in Call, CallStep(c) \/ \E h \in Hash : Begin(c, h)
      PROVE  Inductive'
    BY <1>2, CallsComeAndGo, Inserts, OwnersWork DEF CallStep
<1> QED
    BY <1>1, <1>2 DEF Next

\* The inductive invariant holds in every reachable state.
THEOREM ScratchInvariance == Spec => []Inductive
<1> QED
    BY Initially, Preserved, PTL DEF Spec

\* The same body never has two scratch items, however many agents save it.
THEOREM OneItem == Spec => []OneItemPerContent
<1>1. Inductive => OneItemPerContent
    BY DEF Inductive
<1> QED
    BY ScratchInvariance, <1>1, PTL

\* A memory an agent was told is saved, by the call that inserted it or by a hit
\* after that call, keeps its row and its point, whatever other calls insert,
\* fail, undo or die.
THEOREM MemoriesStay == Spec => []ToldIsSaved
<1>1. Inductive => ToldIsSaved
    BY DEF Inductive
<1> QED
    BY ScratchInvariance, <1>1, PTL

\* A row that is not saved has an owner, or was left by a call that died or
\* could not delete it.
THEOREM NothingLeftBehind == Spec => []NoOrphan
<1>1. Inductive => NoOrphan
    BY DEF Inductive
<1> QED
    BY ScratchInvariance, <1>1, PTL

\* A row that was left has no owner any more.
LeftIsUnowned == \A c \in Call : call[c].pc \in Owning => ~ item[call[c].item].left

\* What a step does to the rows that were left.
LeftStep == /\ LeftIsUnowned'
            /\ \A i \in Item : item[i].left /\ ~ Saved(i) => ~ Saved(i)'

\* A step of a call that owns nothing before and afterwards.
LEMMA LeftAlone ==
    ASSUME LeftIsUnowned, Inductive, NEW c \in Call, UNCHANGED point,
           \A k \in Item : /\ item'[k].left = item[k].left
                          /\ item'[k].ready = item[k].ready
                          /\ item'[k].status = item[k].status,
           call'[c].pc \notin Owning, \A d \in Call : d # c => call'[d] = call[d]
    PROVE  LeftStep
BY DEF LeftIsUnowned, LeftStep, Saved, Inductive, OwnersAreAlone

\* A step of the call that owns row i.
LEMMA LeftElsewhere ==
    ASSUME Inductive, LeftIsUnowned, NEW c \in Call, NEW i \in Item,
           call[c].pc \in Owning, call[c].item = i,
           \A d \in Call : d # c => call'[d] = call[d],
           \A k \in Item : k # i => item'[k] = item[k] /\ (k \in point' <=> k \in point),
           call'[c].pc \in Owning => call'[c].item = i /\ ~ item'[i].left
    PROVE  LeftStep
<1>1. \A d \in Call : d # c /\ call[d].pc \in Owning =>
            call[d].item \in Item /\ call[d].item # i
    BY DEF Inductive, OwnersAreAlone
<1>2. LeftIsUnowned'
    BY <1>1 DEF LeftIsUnowned
<1>3. ~ item[i].left
    BY DEF LeftIsUnowned
<1> QED
    BY <1>2, <1>3 DEF LeftStep, Saved

\* The insert hands out a new row.
LEMMA LeftInserts ==
    ASSUME Inductive, LeftIsUnowned, NEW c \in Call, Insert(c)
    PROVE  LeftStep
<1>t. TypeOK /\ UNCHANGED point
    BY DEF Inductive, Insert
<1>1. CASE Answer(c, "error") /\ UNCHANGED item
    BY <1>t, <1>1, Moves, LeftAlone DEF Owning
<1>2. ASSUME NEW n \in Item, item[n].status = "absent",
             item' = [item EXCEPT ![n] = NewItem(call[c].hash)],
             call' = [call EXCEPT ![c] = [@ EXCEPT !.pc = "embed", !.item = n]]
      PROVE  LeftStep
    <2> DEFINE s == [call[c] EXCEPT !.pc = "embed", !.item = n]
               r == NewItem(call[c].hash)
    <2>1. s \in CallState /\ s.item = n
        BY <1>t DEF TypeOK, CallState, Owning
    <2>2. ~ r.left /\ ~ r.ready
        BY DEF NewItem, NoItem
    <2>3. call' = [call EXCEPT ![c] = s] /\ item' = [item EXCEPT ![n] = r]
        BY <1>2
    <2> HIDE DEF s, r
    <2>4. /\ call'[c] = s
          /\ \A d \in Call : d # c => call'[d] = call[d]
        BY <1>t, <2>1, <2>3, OneCall
    <2>5. item'[n] = r /\ \A k \in Item : k # n => item'[k] = item[k]
        BY <1>t, <2>3 DEF TypeOK
    <2>6. \A d \in Call : d # c /\ call[d].pc \in Owning =>
                call[d].item \in Item /\ call[d].item # n
        BY <1>2 DEF Inductive, OwnersAreAlone
    <2>7. LeftIsUnowned'
        BY <2>1, <2>2, <2>4, <2>5, <2>6 DEF LeftIsUnowned
    <2> QED
        BY <1>t, <2>2, <2>5, <2>7 DEF LeftStep, Saved
<1> QED
    BY <1>1, <1>2 DEF Insert

\* Embedding, marking, undoing and dying.
LEMMA LeftWork ==
    ASSUME Inductive, LeftIsUnowned, NEW c \in Call,
           \/ Embed(c) \/ Mark(c) \/ Unpoint(c) \/ Rollback(c)
           \/ Die(c) /\ call[c].pc \in Owning
    PROVE  LeftStep
<1> DEFINE i == call[c].item
<1>t. TypeOK /\ item \in [Item -> ItemRow]
    BY DEF Inductive, TypeOK
<1>p. {"embed", "mark", "unpoint", "rollback"} = Owning /\ "done" \notin Owning
    BY DEF Owning
<1>o. call[c].pc \in Owning
    BY <1>p DEF Embed, Mark, Unpoint, Rollback
<1>i. i \in Item /\ ~ item[i].left
    BY <1>o DEF Inductive, OwnersAreAlone, LeftIsUnowned
<1>1. \A k \in Item : k # i => item'[k] = item[k]
    BY <1>t, <1>i DEF Embed, Mark, Unpoint, Rollback, Die, Abandoned
<1>2. \A k \in Item : k # i => (k \in point' <=> k \in point)
    BY <1>i DEF Embed, Mark, Unpoint, Rollback, Die
<1>3. \/ (\E pc \in Owning : Goto(c, pc)) /\ item'[i].left = item[i].left
      \/ \E answer \in {"created", "error"} : Answer(c, answer)
    <2>1. CASE Embed(c) \/ Unpoint(c)
        BY <1>p, <2>1 DEF Embed, Unpoint
    <2>2. CASE Rollback(c) \/ Die(c)
        BY <2>2 DEF Rollback, Die
    <2>3. CASE Mark(c)
        <3> DEFINE marked == [item EXCEPT ![i] = [@ EXCEPT !.ready = TRUE]]
        <3>1. marked[i].left = item[i].left
            BY <1>t, <1>i DEF ItemRow
        <3>2. \/ Answer(c, "created")
              \/ Goto(c, "unpoint") /\ item' \in {item, marked}
            BY <2>3 DEF Mark
        <3> HIDE DEF marked
        <3> QED
            BY <1>p, <3>1, <3>2
    <2> QED
        BY <1>o, <2>1, <2>2, <2>3
<1>4. /\ \A d \in Call : d # c => call'[d] = call[d]
      /\ call'[c].pc \in Owning => call'[c].item = i /\ ~ item'[i].left
    BY <1>t, <1>p, <1>i, <1>3, Moves
<1> HIDE DEF i
<1> QED
    BY <1>o, <1>i, <1>1, <1>2, <1>4, LeftElsewhere DEF i

\* Every step keeps the rows that were left as they are.
LEMMA LeftNext ==
    ASSUME Inductive, LeftIsUnowned, [Next]_vars
    PROVE  LeftStep
<1>t. TypeOK
    BY DEF Inductive
<1>1. CASE UNCHANGED vars
    BY <1>1 DEF vars, LeftIsUnowned, LeftStep, Saved
<1>2. ASSUME NEW c \in Call, NEW h \in Hash, Begin(c, h) PROVE LeftStep
    <2> DEFINE s == [pc |-> "lookup", hash |-> h, item |-> 0, answer |-> "none"]
    <2>1. s \in CallState /\ s.pc \notin Owning /\ call' = [call EXCEPT ![c] = s]
        BY <1>2 DEF CallState, Owning, Begin
    <2> HIDE DEF s
    <2> QED
        BY <1>t, <1>2, <2>1, OneCall, LeftAlone DEF Begin
<1>3. ASSUME NEW c \in Call, Lookup(c) PROVE LeftStep
    <2>1. CASE Goto(c, "insert") /\ UNCHANGED item
        BY <1>t, <1>3, <2>1, Moves, LeftAlone DEF Lookup, Owning
    <2>2. ASSUME NEW i \in Item, item' = Hit(i),
                 call' = [call EXCEPT ![c] = [@ EXCEPT !.pc = "done", !.item = i,
                                                       !.answer = "idempotent"]]
          PROVE  LeftStep
        <3> DEFINE s == [call[c] EXCEPT !.pc = "done", !.item = i, !.answer = "idempotent"]
        <3>1. s \in CallState /\ s.pc \notin Owning /\ call' = [call EXCEPT ![c] = s]
            BY <1>t, <2>2 DEF TypeOK, CallState, Owning
        <3> HIDE DEF s
        <3>2. call'[c].pc \notin Owning /\ \A d \in Call : d # c => call'[d] = call[d]
            BY <1>t, <3>1, OneCall
        <3>3. UNCHANGED point
            BY <1>3 DEF Lookup
        <3>4. \A k \in Item : /\ item'[k].left = item[k].left
                               /\ item'[k].ready = item[k].ready
                               /\ item'[k].status = item[k].status
            BY <1>t, <2>2, HitRow
        <3> QED
            BY <3>2, <3>3, <3>4, LeftAlone
    <2> QED
        BY <1>3, <2>1, <2>2 DEF Lookup, Same
<1>4. ASSUME NEW c \in Call, Die(c), call[c].pc \notin Owning PROVE LeftStep
    BY <1>t, <1>4, Moves, LeftAlone DEF Die, Owning
<1> QED
    BY <1>1, <1>2, <1>3, <1>4, LeftInserts, LeftWork DEF Next, CallStep

\* A memory whose call died stays unsearchable, since only the call that
\* inserted a row marks it, and a hit marks nothing.
THEOREM OrphansStay == Spec => OrphanStaysUnsaved
<1>1. Init => LeftIsUnowned
    BY DEF Init, LeftIsUnowned, Owning
<1>2. Inductive /\ LeftIsUnowned /\ [Next]_vars => LeftIsUnowned'
    BY LeftNext DEF LeftStep
<1>3. Inductive /\ LeftIsUnowned /\ [Next]_vars =>
        [\A i \in Item : item[i].left /\ ~ Saved(i) => ~ Saved(i)']_vars
    BY LeftNext DEF LeftStep
<1> QED
    BY <1>1, <1>2, <1>3, ScratchInvariance, PTL DEF Spec, OrphanStaysUnsaved
=============================================================================
