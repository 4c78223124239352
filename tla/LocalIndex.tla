----------------------------- MODULE LocalIndex -----------------------------
(***************************************************************************)
(* index-local: the laptops that upload their work trees batch by batch,   *)
(* the requests that resolve each root to a project, create it and attach  *)
(* it to the agent token, and what users do meanwhile with projects and    *)
(* tokens.  What becomes of an indexed file is the module NeedsReview;     *)
(* here a file is waiting for review or not.                               *)
(*                                                                         *)
(* Each action is one statement of the server: nothing holds a request     *)
(* together but the rows it read.                                          *)
(*                                                                         *)
(* Simplifications: a session's user is the organization it acts in        *)
(* (Membership); a slug is the repository's name followed by the numbers   *)
(* appended to it; the backfill a request queues is in EmbeddingJobs.      *)
(***************************************************************************)
EXTENDS LocalFiles, FiniteSets

CONSTANTS
    Client,       \* laptops, each with one upload at a time
    Org,
    Name,         \* repository names
    LongName,     \* names that fill a slug: a number appended is cut off
    Remote,       \* remote repositories
    NameOf,       \* NameOf[r]: the last segment of the address of r
    Spelling,     \* ways to write the address of one remote
    Workspaces,   \* what a laptop may find: sequences of planned roots
    MaxNumber,    \* bound: the highest number appended (100 in the code)
    MaxProject, MaxToken, MaxRun,   \* bounds: rows and uploads
    NoOrigin

Origin == [remote : Remote, spelling : Spelling]

\* A root that was found, with the files planned for upload.
PlannedRoot == [base : Name, origin : Origin \cup {NoOrigin}, files : Seq(LocalFile)]

ASSUME LocalIndexConstants ==
    /\ NoOrigin \notin Origin
    /\ Workspaces \subseteq Seq(PlannedRoot)
    /\ LongName \subseteq Name
    /\ NameOf \in [Remote -> Name]
    /\ MaxNumber \in Nat /\ MaxProject \in Nat /\ MaxToken \in Nat /\ MaxRun \in Nat

VARIABLES
    project,     \* rows of project, in the order of creation
    doc,         \* source_document rows of index-local, in the order of creation
    token,       \* rows of agent_token
    client,      \* client[c]: the upload of a laptop
    request,     \* request[c]: the request it waits for
    runs,        \* uploads started, for the bound
    overlapped   \* history: have two requests ever been under way at once?

vars == <<project, doc, token, client, request, runs, overlapped>>

---------------------------------------------------------------------------
(* Origins and slugs.                                                      *)

\* origins_equivalent: a trailing ".git" or "/" and the case do not count.
Equivalent(o, p) == o.remote = p.remote

\* normalize_project_slug_from_origin, or the directory's name.
SlugOf(root) == IF root.origin = NoOrigin THEN <<root.base>>
                ELSE <<NameOf[root.origin.remote]>>

\* ensure_db_slug of "slug-n" cuts at 64 characters.
Numbered(slug, n) == IF Head(slug) \in LongName THEN slug ELSE Append(slug, n)

ProjectsAt(o, slug) == {p \in DOMAIN project : project[p].org = o /\ project[p].slug = slug}
SlugsIn(o) == {project[p].slug : p \in {q \in DOMAIN project : project[q].org = o}}

---------------------------------------------------------------------------
(* Tokens.                                                                 *)

DefaultTools == {"retrieve_context", "search_knowledge", "propose_memory",
                 "list_projects", "get_source"}
DailyTools == DefaultTools \cup {"index_memory"}

CanCall(t, tool) == tool \in t.tools

Authentic(t) == t \in DOMAIN token /\ ~ token[t].revoked /\ ~ token[t].expired

\* The projects of a token: list_projects, retrieval and index_memory alike.
ProjectsOf(t) == {p \in DOMAIN project : /\ project[p].org = token[t].org
                                         /\ project[p].slug \in token[t].slugs}

\* Mutant: slugs are looked for in every organization.
CreateTokenAnywhere(o, slugs, tools) ==
    /\ Len(token) < MaxToken
    /\ slugs # {} /\ tools # {}
    /\ slugs \subseteq UNION {SlugsIn(q) : q \in Org}
    /\ token' = Append(token, [org |-> o, slugs |-> slugs, tools |-> tools,
                               revoked |-> FALSE, expired |-> FALSE])
    /\ UNCHANGED <<project, doc, client, request, runs, overlapped>>

\* create_agent_token counts the projects that have the slugs.
CreateToken(o, slugs, tools) ==
    /\ Len(token) < MaxToken
    /\ slugs # {} /\ tools # {}
    /\ slugs \subseteq SlugsIn(o)
    /\ token' = Append(token, [org |-> o, slugs |-> slugs, tools |-> tools,
                               revoked |-> FALSE, expired |-> FALSE])
    /\ UNCHANGED <<project, doc, client, request, runs, overlapped>>

RevokeToken(t) ==
    /\ ~ token[t].revoked
    /\ token' = [token EXCEPT ![t].revoked = TRUE]
    /\ UNCHANGED <<project, doc, client, request, runs, overlapped>>

ExpireToken(t) ==
    /\ Authentic(t)
    /\ token' = [token EXCEPT ![t].expired = TRUE]
    /\ UNCHANGED <<project, doc, client, request, runs, overlapped>>

\* create_project of a user: refused when the slug is taken.
CreateProject(o, slug) ==
    /\ Len(project) < MaxProject
    /\ slug \notin SlugsIn(o)
    /\ project' = Append(project, [org |-> o, slug |-> slug])
    /\ UNCHANGED <<doc, token, client, request, runs, overlapped>>

---------------------------------------------------------------------------
(* A laptop.                                                               *)

IdleClient == [status |-> "idle", token |-> 0, planned |-> <<>>, todo |-> <<>>,
               accepted |-> 0, skipped |-> 0]

GaveUp == [IdleClient EXCEPT !.status = "failed"]

\* The batches for each thing a laptop may find.
Upload == [roots \in Workspaces |-> BuildBatches(roots)]

\* index-here plans and starts to upload.  Any earlier upload has ended.
StartRun(c, t, roots) ==
    /\ client[c].status # "uploading"
    /\ runs < MaxRun
    /\ runs' = runs + 1
    /\ client' = [client EXCEPT ![c] =
            [IdleClient EXCEPT !.status = "uploading", !.token = t,
                               !.planned = FilesIn(roots),
                               !.todo = Upload[roots]]]
    /\ UNCHANGED <<project, doc, token, request, overlapped>>

\* Every batch has been answered.
FinishRun(c) ==
    /\ client[c].status = "uploading"
    /\ client[c].todo = <<>>
    /\ client' = [client EXCEPT ![c].status = "done"]
    /\ UNCHANGED <<project, doc, token, request, runs, overlapped>>

---------------------------------------------------------------------------
(* A request.                                                              *)

NoRequest == [pc |-> "none", roots |-> <<>>, granted |-> {}, origin |-> NoOrigin,
              slug |-> <<>>, number |-> 0, project |-> 0, accepted |-> 0, skipped |-> 0]

Batch(c) == Head(client[c].todo)
OrgOf(c) == token[client[c].token].org
Root(c) == Head(request[c].roots)

Served(c) ==
    /\ Authentic(client[c].token)
    /\ CanCall(token[client[c].token], "index_local")
    /\ Len(Batch(c)) <= MaxRoots
    /\ Len(FilesIn(Batch(c))) <= MaxFiles

\* The token's row is read here, and nowhere later.
Send(c) ==
    /\ client[c].status = "uploading"
    /\ client[c].todo # <<>>
    /\ request[c] = NoRequest
    /\ Served(c)
    /\ request' = [request EXCEPT ![c] =
            [NoRequest EXCEPT !.pc = "origin", !.roots = Batch(c),
                              !.granted = token[client[c].token].slugs]]
    /\ overlapped' = (overlapped \/ \E d \in Client : request[d] # NoRequest)
    /\ UNCHANGED <<project, doc, token, client, runs>>

\* 401, 403 or 400: the upload stops.
Refuse(c) ==
    /\ client[c].status = "uploading"
    /\ client[c].todo # <<>>
    /\ request[c] = NoRequest
    /\ ~ Served(c)
    /\ client' = [client EXCEPT ![c] = GaveUp]
    /\ UNCHANGED <<project, doc, token, request, runs, overlapped>>

\* Any statement may fail and the connection may drop; the laptop gives up.
FailRequest(c) ==
    /\ request[c] # NoRequest
    /\ request' = [request EXCEPT ![c] = NoRequest]
    /\ client' = [client EXCEPT ![c] = GaveUp]
    /\ UNCHANGED <<project, doc, token, runs, overlapped>>

Step(c, state) ==
    /\ request' = [request EXCEPT ![c] = state]
    /\ UNCHANGED <<token, client, runs, overlapped>>

Resolved(c, p) == [request[c] EXCEPT !.pc = "attach", !.project = p]

Indexed(o, origin) == {p \in DOMAIN project :
    project[p].org = o /\ \E i \in DOMAIN doc : doc[i].project = p /\ doc[i].origin = origin}

Earliest(S) == CHOOSE p \in S : \A q \in S : p <= q

\* find_project_by_origin_in_org: the very string, the oldest project.
FindByOrigin(c) ==
    LET origin == Root(c).origin
        found == Indexed(OrgOf(c), origin)
    IN
    /\ request[c].pc = "origin"
    /\ IF origin # NoOrigin /\ found # {}
       THEN Step(c, [Resolved(c, Earliest(found)) EXCEPT !.origin = origin])
       ELSE Step(c, [request[c] EXCEPT !.pc = "slug", !.origin = origin,
                                       !.slug = SlugOf(Root(c))])
    /\ UNCHANGED <<project, doc>>

\* find_project_by_slug_in_org.
FindBySlug(c) ==
    LET found == ProjectsAt(OrgOf(c), request[c].slug) IN
    /\ request[c].pc = "slug"
    /\ IF found = {} THEN Step(c, [request[c] EXCEPT !.pc = "create"])
       ELSE IF request[c].origin = NoOrigin
       THEN Step(c, Resolved(c, Earliest(found)))
       ELSE Step(c, [request[c] EXCEPT !.pc = "remote", !.project = Earliest(found)])
    /\ UNCHANGED <<project, doc>>

OriginDocs(p) == {i \in DOMAIN doc : doc[i].project = p /\ doc[i].origin # NoOrigin}

\* Mutant: a project is taken although it belongs to another remote.
CompareOriginUnchecked(c) ==
    /\ request[c].pc = "remote"
    /\ Step(c, Resolved(c, request[c].project))
    /\ UNCHANGED <<project, doc>>

\* find_origin_for_project: the oldest recorded origin decides.
CompareOrigin(c) ==
    LET docs == OriginDocs(request[c].project) IN
    /\ request[c].pc = "remote"
    /\ IF docs # {} /\ ~ Equivalent(doc[Earliest(docs)].origin, request[c].origin)
       THEN Step(c, [request[c] EXCEPT !.pc = "number", !.number = 2])
       ELSE Step(c, Resolved(c, request[c].project))
    /\ UNCHANGED <<project, doc>>

\* allocate_numbered_slug: one candidate at a time, whoever owns it; when they
\* are exhausted the request fails.
NumberSlug(c) ==
    LET candidate == Numbered(SlugOf(Root(c)), request[c].number) IN
    /\ request[c].pc = "number"
    /\ request[c].number <= MaxNumber
    /\ IF ProjectsAt(OrgOf(c), candidate) = {}
       THEN Step(c, [request[c] EXCEPT !.pc = "create", !.slug = candidate])
       ELSE Step(c, [request[c] EXCEPT !.number = request[c].number + 1])
    /\ UNCHANGED <<project, doc>>

\* create_project_for_agent: the slug may be taken by now, and then the project
\* that has it is answered, whatever its origin.
CreateForAgent(c) ==
    LET taken == ProjectsAt(OrgOf(c), request[c].slug) IN
    \/ /\ request[c].pc = "create"
       /\ taken # {}
       /\ Step(c, Resolved(c, Earliest(taken)))
       /\ UNCHANGED <<project, doc>>
    \/ /\ request[c].pc = "create"
       /\ taken = {}
       /\ Len(project) < MaxProject
       /\ project' = Append(project, [org |-> OrgOf(c), slug |-> request[c].slug])
       /\ Step(c, Resolved(c, Len(project) + 1))
       /\ UNCHANGED doc

Attached(c, slugs) ==
    /\ request[c].pc = "attach"
    /\ token' = [token EXCEPT ![client[c].token].slugs = slugs]
    /\ request' = [request EXCEPT ![c].pc = "files",
                        ![c].granted = @ \cup {project[request[c].project].slug}]
    /\ UNCHANGED <<project, doc, client, runs, overlapped>>

\* Mutant: the permissions are written back from the copy the request read.
AttachFromCopy(c) ==
    Attached(c, request[c].granted \cup {project[request[c].project].slug})

\* attach_project_slug_to_agent_token appends to the row itself, when the copy
\* of the request does not have the slug.
Attach(c) ==
    LET slug == project[request[c].project].slug IN
    Attached(c, IF slug \in request[c].granted THEN token[client[c].token].slugs
                ELSE token[client[c].token].slugs \cup {slug})

File(c) == Head(Root(c).files)

NextFile(c, accepted) ==
    [request[c] EXCEPT !.roots = <<[Root(c) EXCEPT !.files = Tail(Root(c).files)]>>
                                   \o Tail(request[c].roots),
                       !.accepted = IF accepted THEN @ + 1 ELSE @,
                       !.skipped = IF accepted THEN @ ELSE @ + 1]

\* A gate refuses the file, or storing it fails: it is skipped.
SkipFile(c) ==
    /\ request[c].pc = "files" /\ Root(c).files # <<>>
    /\ Step(c, NextFile(c, FALSE))
    /\ UNCHANGED <<project, doc>>

\* Documents with doc row put in: it takes the place of the one with the same
\* content, and another content of its path waits no longer.
Put(row) ==
    LET Here(d) == d.project = row.project /\ SamePath(d.file, row.file)
        kept == [i \in DOMAIN doc |->
                    IF Here(doc[i])
                    THEN IF doc[i].file = row.file THEN row
                         ELSE [doc[i] EXCEPT !.waiting = FALSE]
                    ELSE doc[i]]
    IN IF \E i \in DOMAIN doc : Here(doc[i]) /\ doc[i].file = row.file THEN kept
       ELSE Append(kept, row)

\* index_local_file_for_agent: the same content waiting under the same path
\* changes nothing, not even the origin; otherwise it waits, with this origin.
IndexFile(c) ==
    LET row == [project |-> request[c].project, file |-> File(c),
                origin |-> request[c].origin, waiting |-> TRUE]
    IN /\ request[c].pc = "files" /\ Root(c).files # <<>>
       /\ ServerAccepts(File(c))
       /\ Step(c, NextFile(c, TRUE))
       /\ doc' = IF \E i \in DOMAIN doc : /\ doc[i].project = row.project
                                         /\ doc[i].file = row.file /\ doc[i].waiting
                 THEN doc ELSE Put(row)
       /\ UNCHANGED project

\* The next root of the batch.
EndRoot(c) ==
    /\ request[c].pc = "files"
    /\ Root(c).files = <<>>
    /\ Len(request[c].roots) > 1
    /\ Step(c, [request[c] EXCEPT !.pc = "origin", !.roots = Tail(request[c].roots)])
    /\ UNCHANGED <<project, doc>>

\* The answer, with the counts of files.
Answer(c) ==
    /\ request[c].pc = "files"
    /\ Root(c).files = <<>>
    /\ Len(request[c].roots) = 1
    /\ request' = [request EXCEPT ![c] = NoRequest]
    /\ client' = [client EXCEPT ![c].todo = Tail(@),
                                ![c].accepted = @ + request[c].accepted,
                                ![c].skipped = @ + request[c].skipped]
    /\ UNCHANGED <<project, doc, token, runs, overlapped>>

\* An item is promoted or rejected (NeedsReview).
Review(i) ==
    /\ doc[i].waiting
    /\ doc' = [doc EXCEPT ![i].waiting = FALSE]
    /\ UNCHANGED <<project, token, client, request, runs, overlapped>>

---------------------------------------------------------------------------

Init ==
    /\ project = <<>> /\ doc = <<>> /\ token = <<>>
    /\ client = [c \in Client |-> IdleClient]
    /\ request = [c \in Client |-> NoRequest]
    /\ runs = 0
    /\ overlapped = FALSE

Next ==
    \/ \E o \in Org, n \in Name : CreateProject(o, <<n>>)
    \/ \E o \in Org : \E slugs \in SUBSET {project[p].slug : p \in DOMAIN project},
                         tools \in {DailyTools, DailyTools \cup {"index_local"}} :
            CreateToken(o, slugs, tools)
    \/ \E t \in DOMAIN token : RevokeToken(t) \/ ExpireToken(t)
    \/ \E i \in DOMAIN doc : Review(i)
    \/ \E c \in Client, t \in DOMAIN token, roots \in Workspaces : StartRun(c, t, roots)
    \/ \E c \in Client :
        \/ FinishRun(c) \/ Send(c) \/ Refuse(c) \/ FailRequest(c)
        \/ FindByOrigin(c) \/ FindBySlug(c) \/ CompareOrigin(c) \/ NumberSlug(c)
        \/ CreateForAgent(c) \/ Attach(c) \/ SkipFile(c) \/ IndexFile(c)
        \/ EndRoot(c) \/ Answer(c)

Spec == Init /\ [][Next]_vars

---------------------------------------------------------------------------
(* Properties.                                                             *)

\* "project_slugs must belong to that org" (PRODUCT.md:142): each slug of a token
\* names one project of the token's organization, also one a request attached.
TokenScope ==
    \A t \in DOMAIN token : \A slug \in token[t].slugs :
        Cardinality({p \in ProjectsOf(t) : project[p].slug = slug}) = 1

\* Requests that run with a copy of the permissions they read never take back
\* what was granted since, nor a revocation (agent_index.rs:405-426).
GrantsAreKept ==
    [][\A t \in DOMAIN token :
            /\ token[t].slugs \subseteq token'[t].slugs
            /\ token[t].revoked => token'[t].revoked]_vars

\* "do not invent second project for same origin" (2026-07-19-local-git-index-
\* here.md:47) and distinct remotes in distinct projects (agent_index_local.rs
\* :248-262).  One request at a time keeps both, the first for the very string
\* only: another spelling of a remote whose project is numbered is numbered again.
RemotesStayApart ==
    ~ overlapped =>
        \A i, j \in DOMAIN doc :
            /\ doc[i].origin # NoOrigin
            /\ doc[j].origin # NoOrigin
            => /\ doc[i].project = doc[j].project =>
                    Equivalent(doc[i].origin, doc[j].origin)
               /\ /\ doc[i].origin = doc[j].origin
                  /\ project[doc[i].project].org = project[doc[j].project].org
                  => doc[i].project = doc[j].project

\* An upload that ended well sent every planned file once, whatever the limits
\* cut it into, and a file that is in no project was reported as skipped.
UploadIsAccounted ==
    \A c \in Client : client[c].status = "done" =>
        /\ client[c].accepted + client[c].skipped = Len(client[c].planned)
        /\ Cardinality({i \in DOMAIN client[c].planned :
                        \A d \in DOMAIN doc : doc[d].file # client[c].planned[i]})
             <= client[c].skipped

---------------------------------------------------------------------------
(* The inductive invariant.  The contents of files, roots and batches do    *)
(* not matter to it, and it gives them no type.                            *)

IsProject(r) == r = [org |-> r.org, slug |-> r.slug]
IsToken(r) == r = [org |-> r.org, slugs |-> r.slugs, tools |-> r.tools,
                   revoked |-> r.revoked, expired |-> r.expired]
IsDoc(r) == r = [project |-> r.project, file |-> r.file, origin |-> r.origin,
                 waiting |-> r.waiting]
IsClient(r) == r = [status |-> r.status, token |-> r.token, planned |-> r.planned,
                    todo |-> r.todo, accepted |-> r.accepted, skipped |-> r.skipped]
IsRequest(r) == r = [pc |-> r.pc, roots |-> r.roots, granted |-> r.granted,
                     origin |-> r.origin, slug |-> r.slug, number |-> r.number,
                     project |-> r.project, accepted |-> r.accepted,
                     skipped |-> r.skipped]

TypeOK ==
    /\ project \in Seq(Range(project)) /\ \A p \in DOMAIN project : IsProject(project[p])
    /\ token \in Seq(Range(token)) /\ \A t \in DOMAIN token : IsToken(token[t])
    /\ doc \in Seq(Range(doc)) /\ \A i \in DOMAIN doc : IsDoc(doc[i])
    /\ client = [c \in Client |-> client[c]] /\ \A c \in Client : IsClient(client[c])
    /\ request = [c \in Client |-> request[c]] /\ \A c \in Client : IsRequest(request[c])

\* The unique index on (organization, slug).
SlugsAreUnique ==
    \A p, q \in DOMAIN project :
        project[p].org = project[q].org /\ project[p].slug = project[q].slug => p = q

\* A request works with the token of its laptop, for an upload with batches left.
RequestsHoldTokens ==
    \A c \in Client :
        /\ client[c].status = "uploading" => client[c].token \in DOMAIN token
        /\ request[c] # NoRequest => client[c].status = "uploading" /\ client[c].todo # <<>>

\* What a request resolved its root to is a project of its organization.
ResolvedIn(o, state) == state.pc \in {"remote", "attach", "files"} =>
    /\ state.project \in DOMAIN project
    /\ project[state.project].org = o

ResolvedAtHome == \A c \in Client : ResolvedIn(OrgOf(c), request[c])

DocumentsHaveProjects == \A i \in DOMAIN doc : doc[i].project \in DOMAIN project

\* A request that is alone finds the documents as it left them: those with its
\* origin are in the project it resolved to, that project has no others, and
\* nothing is in a project under the slug it is about to take.
Looking == {"slug", "remote", "number", "create"}

Finds(o, state) ==
    \A i \in DOMAIN doc :
        /\ /\ state.pc \in Looking \cup {"attach", "files"}
           /\ state.origin # NoOrigin
           /\ doc[i].origin = state.origin
           /\ project[doc[i].project].org = o
           => state.pc \notin Looking /\ doc[i].project = state.project
        /\ /\ state.pc \in {"attach", "files"}
           /\ state.origin # NoOrigin
           /\ doc[i].origin # NoOrigin
           /\ doc[i].project = state.project
           => Equivalent(doc[i].origin, state.origin)
        /\ state.pc = "create" =>
             ~ (/\ project[doc[i].project].org = o
                /\ project[doc[i].project].slug = state.slug)

AloneFindsItsOrigin ==
    ~ overlapped =>
        /\ \A c, d \in Client : request[c] # NoRequest /\ request[d] # NoRequest => c = d
        /\ \A c \in Client : Finds(OrgOf(c), request[c])

Inductive ==
    /\ TypeOK
    /\ SlugsAreUnique
    /\ TokenScope
    /\ RequestsHoldTokens
    /\ ResolvedAtHome
    /\ DocumentsHaveProjects
    /\ AloneFindsItsOrigin
    /\ RemotesStayApart
=============================================================================
