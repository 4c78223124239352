------------------------------ MODULE Retrieval ------------------------------
(***************************************************************************)
(* One retrieval request through its stages, and the evaluation that asks  *)
(* the golden questions.  Lexical search, vector search and hydration read *)
(* at different times; in between, items are promoted, rejected or retired *)
(* and their points linger in the vector index.                            *)
(*                                                                         *)
(* Requests share nothing but what they read, so one at a time is enough.  *)
(* A query is a value; the chunks its words occur in are part of Doc.      *)
(* Order within a trust class of the lexical result and the order of the   *)
(* vector result are arbitrary: ranks by text or vector are data.          *)
(***************************************************************************)
EXTENDS Integers, SequencesExt

CONSTANTS
    Project, OrgOf,      \* OrgOf[p]: the organization of project p
    Chunk,               \* chunk ids: numbers, as their order breaks ties
    Doc,                 \* Doc[c]: what never changes of c's item and document
    FirstStatus,         \* FirstStatus[c]: the statuses c's item may start with
    Blank,               \* a body of white space
    User, Agent,         \* principals: records, see AgentMay
    Question,            \* the golden questions, in the order of their file
    MaxLimit, HookLimit, \* the largest limit, and that of the HTTP hook
    EvaluationFloor,     \* the smallest limit of the evaluation
    Multiplier, Cap, RrfK,
    Attempts,            \* calls the evaluation makes for one question
    MaxChange            \* bound: changes to items in a behaviour

ASSUME RetrievalConstants ==
    /\ Chunk \subseteq Nat /\ IsFiniteSet(Chunk)
    /\ MaxLimit \in Nat \ {0} /\ HookLimit \in 1..MaxLimit
    /\ EvaluationFloor \in 1..MaxLimit
    /\ Multiplier \in Nat \ {0} /\ RrfK \in Nat \ {0}
    /\ Cap \in Nat /\ Cap >= MaxLimit

VARIABLES
    status,   \* status[c]: of the knowledge item of c
    active,   \* active[c]: of its source document
    stage,    \* how far the request has come
    ask,      \* the request with the access it was granted
    lexical, semantic, mode,  \* the candidates, and whether vectors were had
    ranked,   \* the hydrated items, then the reranked ones
    reply,    \* the answer
    run,      \* the evaluation under way
    report,   \* the report stored last
    held,     \* history: statuses active items have had since the request began
    changes   \* history: how many changes so far

request == <<ask, lexical, semantic, mode, ranked, reply>>
vars == <<status, active, stage, request, run, report, held, changes>>

Status == {"approved", "scratch", "needs_review", "rejected"}
Preference(s) == CASE s = "scratch" -> 1 [] s = "needs_review" -> 2
                   [] OTHER -> 0
NoAsk == [org |-> "none"]
NoReply == [items |-> <<>>, dropped |-> 0, applied |-> FALSE,
            compressed |-> FALSE]
NoRun == [on |-> FALSE, who |-> NoAsk, tries |-> 0, results |-> <<>>]

Init ==
    /\ status \in {s \in [Chunk -> Status] :
                     \A c \in Chunk : s[c] \in FirstStatus[c]}
    /\ active = [c \in Chunk |-> TRUE]
    /\ stage = "idle"
    /\ ask = NoAsk /\ lexical = <<>> /\ semantic = <<>> /\ mode = "hybrid"
    /\ ranked = <<>> /\ reply = NoReply
    /\ run = NoRun /\ report = "none"
    /\ held = [c \in Chunk |-> {}]
    /\ changes = 0

-----------------------------------------------------------------------------
(* What happens to items meanwhile.                                        *)

\* A person promotes, or rejects, an item that is not trusted.
Decide(c) ==
    /\ changes < MaxChange
    /\ status[c] \in {"scratch", "needs_review"}
    /\ \E s \in {"approved", "rejected"} :
         /\ status' = [status EXCEPT ![c] = s]
         /\ held' = IF stage # "idle" /\ active[c]
                    THEN [held EXCEPT ![c] = @ \cup {s}] ELSE held
    /\ changes' = changes + 1
    /\ UNCHANGED <<active, stage, request, run, report>>

\* The file of c leaves its source.
Retire(c) ==
    /\ changes < MaxChange
    /\ active[c]
    /\ active' = [active EXCEPT ![c] = FALSE]
    /\ changes' = changes + 1
    /\ UNCHANGED <<status, stage, request, run, report, held>>

-----------------------------------------------------------------------------
(* The request: who may ask, and what.                                     *)

UserMay(who, p) == OrgOf[p] = who.org
AgentMay(who, p) == OrgOf[p] = who.org /\ p \in who.projects

\* The access and the rest of the request, from here on one record.
Request(who, p, global, scratch, review, limit) ==
    [org |-> who.org, project |-> p, global |-> global, scratch |-> scratch,
     review |-> review, limit |-> limit]

Begin(r) ==
    /\ stage = "idle"
    /\ r.limit \in 1..MaxLimit
    /\ ask' = r
    /\ stage' = "asked"
    /\ held' = [c \in Chunk |-> IF active[c] THEN {status[c]} ELSE {}]
    /\ UNCHANGED <<status, active, lexical, semantic, mode, ranked, reply,
                   report, changes>>

\* A signed-in user probes a project.
AskAsUser(who, p) ==
    /\ ~run.on
    /\ UserMay(who, p)
    /\ \E g, s, n \in BOOLEAN, limit \in 0..MaxLimit + 1 :
         Begin(Request(who, p, g, s, n, limit))
    /\ UNCHANGED run

\* An agent asks, over MCP or over the HTTP hook, which clamps the limit.
HookClamp(limit) ==
    CASE limit < 1 -> 1 [] limit > HookLimit -> HookLimit [] OTHER -> limit

AskAsAgent(who, p) ==
    /\ ~run.on
    /\ AgentMay(who, p)
    /\ \E g, s, n, hook \in BOOLEAN, limit \in 0..MaxLimit + 1 :
         Begin(Request(who, p, g /\ who.global, s, n,
                       IF hook THEN HookClamp(limit) ELSE limit))
    /\ UNCHANGED run

-----------------------------------------------------------------------------
(* The stages.                                                             *)

\* The gate of both SQL statements.
Entitled(a, c) ==
    LET mine == Doc[c].scope = "project" /\ Doc[c].project = a.project IN
    /\ Doc[c].org = a.org
    /\ \/ status[c] = "approved"
       \/ a.scratch /\ status[c] = "scratch" /\ mine
       \/ a.review /\ status[c] = "needs_review" /\ mine
    /\ active[c]
    /\ \/ Doc[c].project = a.project
       \/ a.global /\ Doc[c].scope = "global" /\ status[c] = "approved"

Least(m, n) == IF m < n THEN m ELSE n
Top(s, n) == SubSeq(s, 1, Least(n, Len(s)))
\* Mutant: candidates are fetched, and fused, up to the limit only.
PoolOfLimit(a) == Least(a.limit, Cap)

Pool(a) == Least(a.limit * Multiplier, Cap)

Orders(S) == {s \in SetToAllKPermutations(S) : Len(s) = Cardinality(S)}

TrustedFirst(s) ==
    \A i, j \in DOMAIN s :
        i < j => Preference(status[s[i]]) <= Preference(status[s[j]])

LexicalSearch ==
    /\ stage = "asked"
    /\ LET hits == {c \in Chunk : Doc[c].words /\ Entitled(ask, c)} IN
       \E s \in Orders(hits) : TrustedFirst(s) /\ lexical' = Top(s, Pool(ask))
    /\ stage' = "matched"
    /\ UNCHANGED <<status, active, ask, semantic, mode, ranked, reply, run,
                   report, held, changes>>

\* Points carry no status, and those of retired files linger.
Near(a) == {c \in Chunk : /\ Doc[c].org = a.org
                          /\ \/ Doc[c].project = a.project
                             \/ a.global /\ Doc[c].scope = "global"}

\* The query is embedded and searched for, or one of the two fails.
VectorSearch ==
    /\ stage = "matched"
    /\ \/ /\ \E s \in SetToAllKPermutations(Near(ask)) :
               Len(s) <= Pool(ask) /\ semantic' = s
          /\ mode' = "hybrid"
       \/ semantic' = <<>> /\ mode' = "lexical_fallback"
    /\ stage' = "searched"
    /\ UNCHANGED <<status, active, ask, lexical, ranked, reply, run, report,
                   held, changes>>

\* Reciprocal rank fusion, on a common denominator.
Whole ==
    LET product[n \in 0..Cap] == IF n = 0 THEN 1 ELSE (RrfK + n) * product[n - 1]
    IN product[Cap]

\* A list counts a chunk once, at its first place.
Share(s, c) ==
    IF c \in ToSet(s)
    THEN Whole \div (RrfK + Min({i \in DOMAIN s : s[i] = c})) ELSE 0
Scores(lex, sem) ==
    [c \in ToSet(lex) \cup ToSet(sem) |-> Share(lex, c) + Share(sem, c)]

\* The best score first, ties by id.
Ahead(scores, c, d) ==
    scores[c] > scores[d] \/ (scores[c] = scores[d] /\ c < d)

\* The sequence in which each c is at place[c].
InPlace(place) ==
    [i \in 1..Cardinality(DOMAIN place) |-> CHOOSE c \in DOMAIN place : place[c] = i]

Fuse(lex, sem, n) ==
    LET scores == Scores(lex, sem)
        found == DOMAIN scores
    IN  Top(InPlace([c \in found |->
                1 + Cardinality({d \in found : Ahead(scores, d, c)})]), n)

\* The elements of s at the places I, in their order.
At(s, I) ==
    LET order == InPlace([n \in I |-> Cardinality(I \cap 1..n)])
    IN  [i \in DOMAIN order |-> s[order[i]]]

Item(c) == [chunk |-> c, status |-> status[c]]
\* Mutant: hydration trusts the filters of the searches.
HydratedUngated(a, s) == [i \in DOMAIN s |-> Item(s[i])]

Passing(a, s) == At(s, {n \in DOMAIN s : Entitled(a, s[n])})
Hydrated(a, s) == [i \in DOMAIN Passing(a, s) |-> Item(Passing(a, s)[i])]

Hydrate ==
    /\ stage = "searched"
    /\ ranked' = Hydrated(ask, Fuse(lexical, semantic, Pool(ask)))
    /\ semantic' = <<>>
    /\ stage' = "hydrated"
    /\ UNCHANGED <<status, active, ask, lexical, mode, reply, run, report,
                   held, changes>>

\* The reranker's hits may repeat an index or name one that is not there.
ApplyHits(items, hits, k) ==
    LET fresh == {n \in DOMAIN hits : /\ hits[n] \in DOMAIN items
                                      /\ \A m \in 1..n - 1 : hits[m] # hits[n]}
        chosen == Top(At(hits, fresh), k)
    IN  [i \in DOMAIN chosen |-> items[chosen[i]]]

\* The survivors so far that an item is a copy of.
Copies(out, it) ==
    {i \in DOMAIN out : /\ Doc[it.chunk].body # Blank
                        /\ Doc[out[i].chunk].body = Doc[it.chunk].body}

\* Mutant: the first item of a body is kept, whatever its lane.
MergedFirst(out, it) ==
    IF Copies(out, it) = {} THEN Append(out, it) ELSE out

\* One item of each body, the most trusted, at the place of the first.
Merged(out, it) ==
    LET copies == Copies(out, it) IN
    IF copies = {} THEN Append(out, it)
    ELSE [i \in DOMAIN out |->
            IF i \in copies /\ Preference(it.status) < Preference(out[i].status)
            THEN it ELSE out[i]]

Compress(items) ==
    LET out[n \in 0..Len(items)] ==
          IF n = 0 THEN <<>> ELSE Merged(out[n - 1], items[n])
    IN  out[Len(items)]

\* The request, or the server's default, says whether to compress.
Answer(items, applied) ==
    /\ ranked' = items
    /\ \E compress \in BOOLEAN :
         LET out == IF compress THEN Compress(items) ELSE items IN
         reply' = [items |-> out, dropped |-> Len(items) - Len(out),
                   applied |-> applied, compressed |-> compress]

\* Reranking is off, has no key, fails or is of no use; or it is applied.
RerankAndAnswer ==
    /\ stage = "hydrated"
    /\ \/ Answer(Top(ranked, ask.limit), FALSE)
       \/ \E items \in {ApplyHits(ranked, hits, ask.limit) : hits \in
                          BoundedSeq(1..Len(ranked) + 1, ask.limit + 1)} :
            items # <<>> /\ Answer(items, TRUE)
    /\ stage' = "answered"
    /\ UNCHANGED <<status, active, ask, lexical, semantic, mode, run, report,
                   held, changes>>

Clear ==
    /\ stage' = "idle"
    /\ ask' = NoAsk /\ lexical' = <<>> /\ semantic' = <<>> /\ mode' = "hybrid"
    /\ ranked' = <<>> /\ reply' = NoReply
    /\ held' = [c \in Chunk |-> {}]
    /\ UNCHANGED <<status, active, report, changes>>

Deliver == stage = "answered" /\ ~run.on /\ Clear /\ UNCHANGED run

-----------------------------------------------------------------------------
(* The evaluation.                                                         *)

StartEvaluation(who) ==
    /\ stage = "idle" /\ ~run.on
    /\ run' = [NoRun EXCEPT !.on = TRUE, !.who = who]
    /\ UNCHANGED <<status, active, stage, request, report, held, changes>>

EvaluationLimit(minimum) ==
    IF minimum < EvaluationFloor THEN EvaluationFloor
    ELSE Least(minimum, MaxLimit)

Asking == run.on /\ Len(run.results) < Len(Question)
Current == Question[Len(run.results) + 1]

Result(r) == run' = [run EXCEPT !.results = Append(@, r), !.tries = 0]

\* Trusted items only.
AskQuestion ==
    /\ Asking
    /\ UserMay(run.who, Current.project)
    /\ Begin(Request(run.who, Current.project, Current.global, FALSE, FALSE,
                     EvaluationLimit(Current.minimum)))
    /\ UNCHANGED run

QuestionRefused ==
    /\ Asking /\ stage = "idle"
    /\ ~UserMay(run.who, Current.project)
    /\ Result("error")
    /\ UNCHANGED <<status, active, stage, request, report, held, changes>>

Scored(q, items) ==
    /\ Len(items) >= q.minimum
    /\ \A s \in q.scopes : \E it \in ToSet(items) : Doc[it.chunk].scope = s
    /\ \A f \in q.files : \E it \in ToSet(items) : Doc[it.chunk].file = f

\* An empty answer without vectors is asked again, up to Attempts calls.
TakeAnswer ==
    /\ stage = "answered" /\ run.on
    /\ CASE mode = "hybrid" \/ reply.items # <<>> ->
              Result(IF Scored(Current, reply.items) THEN "passed" ELSE "failed")
         [] run.tries + 1 < Attempts -> run' = [run EXCEPT !.tries = @ + 1]
         [] OTHER -> Result("error")
    /\ Clear

Report ==
    /\ run.on /\ ~Asking
    /\ report' = IF ToSet(run.results) \subseteq {"passed"}
                 THEN "passed" ELSE "failed"
    /\ run' = NoRun
    /\ UNCHANGED <<status, active, stage, request, held, changes>>

\* One of the two SQL statements fails, and the request with it.
StatementError ==
    /\ stage \in {"asked", "searched"}
    /\ Clear
    /\ IF run.on THEN Result("error") ELSE UNCHANGED run

-----------------------------------------------------------------------------
Next ==
    \/ \E c \in Chunk : Decide(c) \/ Retire(c)
    \/ \E who \in User, p \in Project : AskAsUser(who, p)
    \/ \E who \in Agent, p \in Project : AskAsAgent(who, p)
    \/ LexicalSearch \/ VectorSearch \/ Hydrate \/ RerankAndAnswer \/ Deliver
    \/ \E who \in User : StartEvaluation(who)
    \/ AskQuestion \/ QuestionRefused \/ TakeAnswer \/ Report \/ StatementError

Spec == Init /\ [][Next]_vars

-----------------------------------------------------------------------------
(* Properties.                                                             *)

Delivered == ToSet(reply.items)

\* However the stages interleave with promotions, rejections and retirements,
\* an answer shows an item with a status it had, while its file was there,
\* after the request began; only in a lane the request asked for; and only of
\* the project, or global and trusted (HYDRATE_SQL gates what the lexical
\* search read earlier and what the vector index, which knows no status,
\* returned).
AnswersAreEntitled ==
    stage = "answered" =>
        \A it \in Delivered :
            /\ it.status \in held[it.chunk]
            /\ it.status \in {"approved"}
                 \cup (IF ask.scratch THEN {"scratch"} ELSE {})
                 \cup (IF ask.review THEN {"needs_review"} ELSE {})
            /\ Doc[it.chunk].org = ask.org
            /\ Doc[it.chunk].project # ask.project =>
                 ask.global /\ Doc[it.chunk].scope = "global"
                            /\ it.status = "approved"

\* Compression loses no content and no trust: of the items that went in, every
\* body is still there once, in its most trusted version, at the place of its
\* best rank, blank bodies are left alone, and what is missing was counted
\* (compress_items).
CompressKeepsTrust ==
    stage = "answered" /\ reply.compressed =>
        LET body(it) == Doc[it.chunk].body
            alike(x, y) == x = y \/ (body(x) # Blank /\ body(x) = body(y))
            place(it) == Min({i \in DOMAIN ranked : alike(ranked[i], it)})
        IN  /\ \A it \in ToSet(ranked) :
                 \E kept \in Delivered :
                   /\ alike(kept, it)
                   /\ Preference(kept.status) <= Preference(it.status)
            /\ \A i, j \in DOMAIN reply.items :
                 i < j => place(reply.items[i]) < place(reply.items[j])
            /\ reply.dropped = Len(ranked) - Len(reply.items)

\* Vectors never crowd out the words: as long as nothing the lexical search
\* found has changed, and the reranker did not choose otherwise, the answer is
\* drawn from as many items as it found, up to the limit, although every vector
\* hit may turn out to be hidden (the pool is oversampled: retrieve_context).
LexicalIsNotStarved ==
    (stage = "answered" /\ ~reply.applied
       /\ Multiplier >= 2 /\ Cap >= 2 * ask.limit
       /\ \A c \in ToSet(lexical) : Entitled(ask, c)) =>
        Len(ranked) >= Least(ask.limit, Len(lexical))

=============================================================================
