--------------------------- MODULE ScratchMemory ---------------------------
(***************************************************************************)
(* index_memory: an agent saves a note of one project as a scratch item.   *)
(* The row is written first, then the note is embedded and its point is    *)
(* upserted into the index (external), then the chunk is marked ready; a   *)
(* failure undoes point and row, best effort.  Nobody else ever embeds a   *)
(* scratch chunk: the backfill claims approved and needs_review ones only. *)
(*                                                                         *)
(* Each SQL statement that commits and each call to the index is one       *)
(* action, and any number of calls are under way at once.                  *)
(*                                                                         *)
(* Simplifications: one project; item, chunk and source document of a note *)
(* are one row, since they are inserted and deleted together; a call that  *)
(* dies (process, connection of the client, a statement whose answer is    *)
(* lost) keeps what it committed.                                          *)
(***************************************************************************)
EXTENDS Naturals

CONSTANTS
    Call,       \* calls of index_memory that may be under way
    Hash,       \* content hashes of normalized bodies
    MaxItem,    \* bound: number of knowledge_item rows
    Faults,     \* may calls die and statements fail?
    NoHash

Item == 1..MaxItem

ASSUME ScratchConstants ==
    /\ MaxItem \in Nat
    /\ Faults \in BOOLEAN
    /\ NoHash \notin Hash

VARIABLES
    item,       \* item[i]: the i-th scratch item and its chunk
    point,      \* items whose chunk has a point in the index
    call        \* call[c]: where the call is, and what it answered

vars == <<item, point, call>>

\* A row is told of early by an answer "idempotent" that comes before the call
\* that inserted it has ended, or after it was abandoned; surely by "created",
\* and by any later answer "idempotent".
ItemRow == [status : {"absent", "scratch", "deleted"},
            hash : Hash \cup {NoHash},
            ready : BOOLEAN,
            told : {"nobody", "early", "surely"},  \* history: answers for it
            left : BOOLEAN]     \* history: its call died, or could not undo it

NoItem == [status |-> "absent", hash |-> NoHash, ready |-> FALSE,
           told |-> "nobody", left |-> FALSE]

NewItem(h) == [NoItem EXCEPT !.status = "scratch", !.hash = h]

\* The await points between which the call owns the row it inserted.
Owning == {"embed", "mark", "unpoint", "rollback"}

CallState == [pc : Owning \cup {"lookup", "insert", "done"},
              hash : Hash \cup {NoHash},
              item : Item \cup {0},
              answer : {"none", "created", "idempotent", "error"}]

TypeOK ==
    /\ item \in [Item -> ItemRow]
    /\ point \in SUBSET Item
    /\ call \in [Call -> CallState]

Init ==
    /\ item = [i \in Item |-> NoItem]
    /\ point = {}
    /\ call = [c \in Call |-> [pc |-> "done", hash |-> NoHash, item |-> 0,
                               answer |-> "none"]]

---------------------------------------------------------------------------
Goto(c, pc) == call' = [call EXCEPT ![c] = [@ EXCEPT !.pc = pc]]

Answer(c, answer) ==
    call' = [call EXCEPT ![c] = [@ EXCEPT !.pc = "done", !.answer = answer]]

\* The rows the lookup and the partial unique index speak of.
Same(h) == {i \in Item : item[i].status = "scratch" /\ item[i].hash = h}

\* The call that inserted the row is still under way.
Owned(i) == \E c \in Call : call[c].pc \in Owning /\ call[c].item = i

Hit(i) == [item EXCEPT ![i].told =
             IF Owned(i) \/ item[i].left THEN "early" ELSE "surely"]

Begin(c, h) ==
    /\ call[c].pc = "done"
    /\ call' = [call EXCEPT ![c] = [pc |-> "lookup", hash |-> h, item |-> 0,
                                    answer |-> "none"]]
    /\ UNCHANGED <<item, point>>

\* Mutant: a hit is embedded again, by the path of a new row.
LookupAgain(c) ==
    /\ call[c].pc = "lookup"
    /\ \/ \E i \in Same(call[c].hash) :
            call' = [call EXCEPT ![c] = [@ EXCEPT !.pc = "embed", !.item = i]]
       \/ Same(call[c].hash) = {} /\ Goto(c, "insert")
    /\ UNCHANGED <<item, point>>

\* A hit is answered at once, whatever the state of its chunk.
Lookup(c) ==
    /\ call[c].pc = "lookup"
    /\ \/ \E i \in Same(call[c].hash) :
            /\ item' = Hit(i)
            /\ call' = [call EXCEPT ![c] = [@ EXCEPT !.pc = "done", !.item = i,
                                                     !.answer = "idempotent"]]
       \/ Same(call[c].hash) = {} /\ Goto(c, "insert") /\ UNCHANGED item
    /\ UNCHANGED point

\* Mutant: the insert without the partial unique index.
InsertUnchecked(c) ==
    /\ call[c].pc = "insert"
    /\ \E i \in Item :
        /\ item[i].status = "absent"
        /\ \A k \in 1..(i - 1) : item[k].status # "absent"
        /\ item' = [item EXCEPT ![i] = NewItem(call[c].hash)]
        /\ call' = [call EXCEPT ![c] = [@ EXCEPT !.pc = "embed", !.item = i]]
    /\ UNCHANGED point

\* The rest of the transaction; a row committed since the lookup makes the
\* unique index refuse the insert.
Insert(c) ==
    /\ call[c].pc = "insert"
    /\ \/ /\ Same(call[c].hash) # {}
          /\ Answer(c, "error")
          /\ UNCHANGED item
       \/ /\ Same(call[c].hash) = {}
          /\ \E i \in Item :
                /\ item[i].status = "absent"
                /\ \A k \in 1..(i - 1) : item[k].status # "absent"
                /\ item' = [item EXCEPT ![i] = NewItem(call[c].hash)]
                /\ call' = [call EXCEPT ![c] = [@ EXCEPT !.pc = "embed",
                                                         !.item = i]]
    /\ UNCHANGED point

\* Mutant: a failure is answered without undoing anything.
EmbedWithoutUndo(c) ==
    /\ call[c].pc = "embed"
    /\ \/ point' = point \cup {call[c].item} /\ Goto(c, "mark")
       \/ point' \in {point, point \cup {call[c].item}} /\ Answer(c, "error")
    /\ UNCHANGED item

\* embed_and_upsert_scratch: a failed upsert may still have been applied.
Embed(c) ==
    /\ call[c].pc = "embed"
    /\ \/ point' = point \cup {call[c].item} /\ Goto(c, "mark")
       \/ point' \in {point, point \cup {call[c].item}} /\ Goto(c, "unpoint")
    /\ UNCHANGED item

\* mark_scratch_chunk_ready; an error is undone even if the update committed.
Mark(c) ==
    LET i == call[c].item
        found == item[i].status = "scratch"
        marked == [item EXCEPT ![i] = [@ EXCEPT !.ready = TRUE]]
    IN  /\ call[c].pc = "mark"
        /\ \/ /\ found
              /\ item' = [marked EXCEPT ![i] = [@ EXCEPT !.told = "surely"]]
              /\ Answer(c, "created")
           \/ /\ Faults \/ ~found
              /\ item' \in {item} \cup IF found THEN {marked} ELSE {}
              /\ Goto(c, "unpoint")
        /\ UNCHANGED point

\* index.delete, whose failure is ignored.
Unpoint(c) ==
    /\ call[c].pc = "unpoint"
    /\ point' \in {point, point \ {call[c].item}}
    /\ Goto(c, "rollback")
    /\ UNCHANGED item

\* The rows when i is left to itself.
Abandoned(i) == [item EXCEPT ![i] = [@ EXCEPT !.left = TRUE]]

\* delete_scratch_knowledge_item, whose failure is ignored.
Rollback(c) ==
    LET i == call[c].item IN
    /\ call[c].pc = "rollback"
    /\ \/ item' = [item EXCEPT ![i] = [@ EXCEPT !.status = "deleted"]]
       \/ Faults /\ item' = Abandoned(i)
    /\ Answer(c, "error")
    /\ UNCHANGED point

\* The call dies at an await: its transaction, if it has one, is rolled back.
Die(c) ==
    /\ Faults
    /\ call[c].pc # "done"
    /\ item' = IF call[c].pc \in Owning THEN Abandoned(call[c].item) ELSE item
    /\ Answer(c, "error")
    /\ UNCHANGED point

CallStep(c) ==
    \/ Lookup(c) \/ Insert(c) \/ Embed(c) \/ Mark(c) \/ Unpoint(c)
    \/ Rollback(c) \/ Die(c)

Next ==
    \E c \in Call : CallStep(c) \/ \E h \in Hash : Begin(c, h)

Spec == Init /\ [][Next]_vars

---------------------------------------------------------------------------
\* The same body never has two scratch items, however many agents save it at
\* once and whatever is rolled back (the lookup alone does not ensure it).
OneItemPerContent ==
    \A i, j \in Item :
        /\ item[i].status = "scratch"
        /\ item[j].status = "scratch"
        /\ item[i].hash = item[j].hash
        => i = j

\* A row has at most one owner, which holds it while it is there.
OwnersAreAlone ==
    /\ \A c, d \in Call :
        /\ call[c].pc \in Owning
        /\ call[d].pc \in Owning
        /\ call[c].item = call[d].item
        => c = d
    /\ \A c \in Call : call[c].pc \in Owning =>
        /\ call[c].item \in Item
        /\ item[call[c].item].status = "scratch"

\* The point is there when its chunk is about to be marked.
MarkedHavePoints == \A c \in Call : call[c].pc = "mark" => call[c].item \in point

\* Saved: searchable by text and by vector.
Saved(i) == item[i].status = "scratch" /\ item[i].ready /\ i \in point

\* What an agent was told is saved, by the call that inserted it or by a hit
\* after that call, stays saved: no later or concurrent call with the same body,
\* and no rollback, takes away the row or its point.  A hit may be answered
\* earlier (scratch_embed.rs:75-90): its row is lost if that call fails, and
\* stays unsaved if that call died.
ToldIsSaved == \A i \in Item : item[i].told = "surely" => Saved(i)

\* The row of a call under way is not yet surely anybody's memory.
OwnedIsUntold ==
    \A c \in Call : call[c].pc \in Owning => item[call[c].item].told # "surely"

\* A row that is not saved belongs to a call under way, unless that call died or
\* the statement that deletes the row failed: whatever the provider and the
\* index do, a failure ends with the row deleted.
NoOrphan ==
    \A i \in Item : item[i].status = "scratch" =>
        \/ Saved(i)
        \/ Owned(i)
        \/ item[i].left

\* The invariants together are inductive.
Inductive ==
    /\ TypeOK
    /\ OneItemPerContent
    /\ OwnersAreAlone
    /\ MarkedHavePoints
    /\ OwnedIsUntold
    /\ ToldIsSaved
    /\ NoOrphan

\* An abandoned row that is not saved never will be, however often its content
\* is sent again: a hit is answered as saved without looking at the chunk,
\* where the comment (scratch_embed.rs:61-62) says hits skip the embedding
\* "when chunk is already ready".
OrphanStaysUnsaved ==
    [][\A i \in Item : item[i].left /\ ~Saved(i) => ~Saved(i)']_vars
=============================================================================
