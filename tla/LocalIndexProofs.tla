-------------------------- MODULE LocalIndexProofs --------------------------
(***************************************************************************)
(* Proofs about LocalIndex, for any laptops, organizations, names, remotes *)
(* and work trees.  The argument: projects are only added, under a slug    *)
(* that is new in the organization, and tokens only gain slugs, so what a  *)
(* request resolved stays so; and a request that is alone leaves documents *)
(* only where it found, or found free, the place of their remote.  Packing *)
(* keeps every file once and in order, so what an upload was answered and  *)
(* what it still has to send are together what it planned.                 *)
(***************************************************************************)
EXTENDS LocalIndex, FiniteSetTheorems, SequenceTheorems, WellFoundedInduction, TLAPS

---------------------------------------------------------------------------
(* Rows.                                                                   *)

LEMMA RowsAre ==
    ASSUME NEW s, s \in Seq(Range(s))
    PROVE  Len(s) \in Nat /\ DOMAIN s = 1..Len(s)
OBVIOUS

\* A sequence is one of its own elements.
LEMMA OwnRange ==
    ASSUME NEW S, NEW s \in Seq(S)
    PROVE  s \in Seq(Range(s))
<1>1. /\ Len(s) \in Nat /\ DOMAIN s = 1..Len(s)
      /\ s = [i \in 1..Len(s) |-> s[i]]
    OBVIOUS
<1>2. \A i \in 1..Len(s) : s[i] \in Range(s)
    BY <1>1 DEF Range
<1>3. s \in [1..Len(s) -> Range(s)]
    BY <1>1, <1>2
<1> QED
    BY <1>1, <1>3, SeqDef

LEMMA AppendedRow ==
    ASSUME NEW s, s \in Seq(Range(s)), NEW r
    PROVE  /\ Append(s, r) \in Seq(Range(Append(s, r)))
           /\ DOMAIN Append(s, r) = DOMAIN s \cup {Len(s) + 1}
           /\ Append(s, r)[Len(s) + 1] = r
           /\ Len(s) + 1 \notin DOMAIN s
           /\ \A i \in DOMAIN s : Append(s, r)[i] = s[i]
<1> DEFINE S == Range(s) \cup {r}
<1>1. s \in Seq(S)
    <2>1. s \in [1..Len(s) -> S] /\ Len(s) \in Nat
        OBVIOUS
    <2> QED
        BY <2>1, SeqDef
<1>2. r \in S
    OBVIOUS
<1> HIDE DEF S
<1>3. Append(s, r) \in Seq(S)
    BY <1>1, <1>2
<1>4. /\ DOMAIN Append(s, r) = DOMAIN s \cup {Len(s) + 1}
      /\ Append(s, r)[Len(s) + 1] = r
      /\ Len(s) + 1 \notin DOMAIN s
      /\ \A i \in DOMAIN s : Append(s, r)[i] = s[i]
    BY <1>1, <1>2
<1> QED
    BY <1>3, <1>4, OwnRange

LEMMA ChangedRow ==
    ASSUME NEW s, s \in Seq(Range(s)), NEW i \in DOMAIN s, NEW r
    PROVE  /\ [s EXCEPT ![i] = r] \in Seq(Range([s EXCEPT ![i] = r]))
           /\ DOMAIN [s EXCEPT ![i] = r] = DOMAIN s
           /\ [s EXCEPT ![i] = r][i] = r
           /\ \A j \in DOMAIN s : j # i => [s EXCEPT ![i] = r][j] = s[j]
<1> DEFINE S == Range(s) \cup {r}
           t == [s EXCEPT ![i] = r]
<1>1. Len(s) \in Nat /\ DOMAIN s = 1..Len(s) /\ \A j \in DOMAIN s : s[j] \in S
    BY DEF Range
<1>2. /\ DOMAIN t = DOMAIN s /\ t[i] = r
      /\ \A j \in DOMAIN s : j # i => t[j] = s[j]
    OBVIOUS
<1>3. t \in [1..Len(s) -> S]
    BY <1>1
<1>4. t \in Seq(S)
    BY <1>1, <1>3, SeqDef
<1> HIDE DEF t, S
<1> QED
    BY <1>2, <1>4, OwnRange DEF t

\* The smallest of some rows.
Less == {p \in Nat \X Nat : p[1] < p[2]}

LEMMA LeastRow ==
    ASSUME NEW S \in SUBSET Nat, S # {}
    PROVE  Earliest(S) \in S /\ \A w \in S : Earliest(S) <= w
<1>1. IsWellFoundedOn(Less, Nat)
    BY NatLessThanWellFounded DEF OpToRel, Less
<1>2. PICK v \in S : \A w \in S : <<w, v>> \notin Less
    BY <1>1, WFMin
<1>3. \A w \in S : ~ (w < v)
    BY <1>2 DEF Less
<1>4. \A w \in S : v <= w
    BY <1>3
<1> QED
    BY <1>4 DEF Earliest

\* What editing the row of a token keeps.
LEMMA TokenEdits ==
    ASSUME NEW x, IsToken(x), NEW v, NEW y
    PROVE  /\ y = [x EXCEPT !.revoked = v] =>
                IsToken(y) /\ y.org = x.org /\ y.slugs = x.slugs /\ y.revoked = v
           /\ y = [x EXCEPT !.expired = v] =>
                IsToken(y) /\ y.org = x.org /\ y.slugs = x.slugs /\ y.revoked = x.revoked
           /\ y = [x EXCEPT !.slugs = v] =>
                IsToken(y) /\ y.org = x.org /\ y.slugs = v /\ y.revoked = x.revoked
<1>1. PICK x1, x2, x3, x4, x5 :
        x = [org |-> x1, slugs |-> x2, tools |-> x3, revoked |-> x4, expired |-> x5]
    BY DEF IsToken
<1>2. \A y1, y2, y3, y4, y5 :
        y = [org |-> y1, slugs |-> y2, tools |-> y3, revoked |-> y4, expired |-> y5] =>
        IsToken(y) /\ y.org = y1 /\ y.slugs = y2 /\ y.revoked = y4
    BY DEF IsToken
<1> QED
    BY <1>1, <1>2

---------------------------------------------------------------------------
(* The parts of the invariant.                                             *)

\* TokenScope without Cardinality.
SlugsExist ==
    \A t \in DOMAIN token : \A slug \in token[t].slugs :
        \E p \in DOMAIN project : project[p].org = token[t].org /\ project[p].slug = slug

LEMMA ScopeAsRows == SlugsAreUnique => (TokenScope <=> SlugsExist)
<1> SUFFICES ASSUME SlugsAreUnique PROVE TokenScope <=> SlugsExist
    OBVIOUS
<1>1. ASSUME NEW t \in DOMAIN token, NEW slug \in token[t].slugs
      PROVE  LET S == {p \in ProjectsOf(t) : project[p].slug = slug} IN
             Cardinality(S) = 1 <=>
                \E p \in DOMAIN project : project[p].org = token[t].org /\ project[p].slug = slug
    <2> DEFINE S == {p \in ProjectsOf(t) : project[p].slug = slug}
    <2>1. \A p : p \in S <=> /\ p \in DOMAIN project
                             /\ project[p].org = token[t].org /\ project[p].slug = slug
        BY <1>1 DEF ProjectsOf
    <2>2. ASSUME NEW p \in S PROVE S = {p}
        BY <2>1, <2>2 DEF SlugsAreUnique
    <2>3. S # {} => Cardinality(S) = 1
        BY <2>2, FS_Singleton
    <2>4. S = {} => Cardinality(S) = 0
        BY FS_EmptySet
    <2> HIDE DEF S
    <2>5. Cardinality(S) = 1 <=> \E p : p \in S
        BY <2>3, <2>4
    <2> QED
        BY <2>1, <2>5 DEF S
<1> QED
    BY <1>1 DEF TokenScope, SlugsExist

\* The parts that speak of tokens and requests, for steps that leave documents
\* alone: projects and tokens are only added to, and each request is as it was,
\* has not resolved anything, or moved on with what the rows say.
LEMMA Frame ==
    ASSUME Inductive, TypeOK', SlugsAreUnique', SlugsExist', RequestsHoldTokens',
           DOMAIN project \subseteq DOMAIN project',
           \A p \in DOMAIN project : project'[p] = project[p],
           DOMAIN token \subseteq DOMAIN token',
           \A t \in DOMAIN token : token'[t].org = token[t].org,
           DOMAIN doc' = DOMAIN doc,
           \A i \in DOMAIN doc : /\ doc'[i].project = doc[i].project
                                 /\ doc'[i].origin = doc[i].origin,
           ~ overlapped' =>
                /\ ~ overlapped
                /\ \A c, d \in Client :
                    request'[c] # NoRequest /\ request'[d] # NoRequest => c = d,
           \A c \in Client :
                \/ request'[c].pc \in {"none", "origin"}
                \/ /\ request[c] # NoRequest
                   /\ client'[c].token = client[c].token
                   /\ \/ request'[c] = request[c]
                      \/ /\ ResolvedIn(OrgOf(c), request[c])'
                         /\ ~ overlapped => Finds(OrgOf(c), request'[c])
    PROVE  Inductive'
<1>i. /\ SlugsAreUnique /\ RequestsHoldTokens /\ ResolvedAtHome /\ DocumentsHaveProjects
      /\ AloneFindsItsOrigin /\ RemotesStayApart
    BY DEF Inductive
<1>1. TokenScope'
    <2>1. SlugsAreUnique' => (TokenScope' <=> SlugsExist')
        BY ScopeAsRows, PTL
    <2> QED
        BY <2>1
<1>2. ASSUME NEW c \in Client, request[c] # NoRequest, client'[c].token = client[c].token
      PROVE  OrgOf(c)' = OrgOf(c)
    BY <1>i, <1>2 DEF OrgOf, RequestsHoldTokens
<1>3. DocumentsHaveProjects'
    BY <1>i DEF DocumentsHaveProjects
<1>4. \A i \in DOMAIN doc : project'[doc'[i].project] = project[doc[i].project]
    BY <1>i DEF DocumentsHaveProjects
<1>5. ASSUME NEW c \in Client PROVE ResolvedIn(OrgOf(c), request[c])'
    <2>1. CASE request'[c].pc \in {"none", "origin"}
        BY <2>1 DEF ResolvedIn
    <2>2. CASE /\ request[c] # NoRequest /\ client'[c].token = client[c].token
               /\ request'[c] = request[c]
        <3>1. ResolvedIn(OrgOf(c), request[c]) /\ OrgOf(c)' = OrgOf(c)
            BY <1>i, <1>2, <2>2 DEF ResolvedAtHome
        <3> QED
            BY <2>2, <3>1 DEF ResolvedIn
    <2> QED
        BY <2>1, <2>2
<1>6. ASSUME NEW c \in Client, ~ overlapped' PROVE Finds(OrgOf(c), request[c])'
    <2>1. CASE request'[c].pc \in {"none", "origin"}
        BY <2>1 DEF Finds, Looking
    <2>2. CASE /\ request[c] # NoRequest /\ client'[c].token = client[c].token
               /\ Finds(OrgOf(c), request'[c])
        BY <1>2, <1>4, <2>2 DEF Finds
    <2>3. request'[c] = request[c] => Finds(OrgOf(c), request'[c])
        BY <1>i, <1>6 DEF AloneFindsItsOrigin
    <2> QED
        BY <1>6, <2>1, <2>2, <2>3
<1>7. AloneFindsItsOrigin'
    BY <1>6 DEF AloneFindsItsOrigin
<1>8. RemotesStayApart'
    BY <1>i, <1>4 DEF RemotesStayApart
<1>9. ResolvedAtHome'
    BY <1>5 DEF ResolvedAtHome
<1> QED
    BY <1>1, <1>3, <1>7, <1>8, <1>9 DEF Inductive

---------------------------------------------------------------------------
(* What the statements do to projects and tokens.                          *)

ProjectsGrow ==
    /\ project' \in Seq(Range(project'))
    /\ \A p \in DOMAIN project' : IsProject(project'[p])
    /\ DOMAIN project \subseteq DOMAIN project'
    /\ \A p \in DOMAIN project : project'[p] = project[p]
    /\ SlugsAreUnique'

TokensGrow ==
    /\ token' \in Seq(Range(token'))
    /\ \A t \in DOMAIN token' : IsToken(token'[t])
    /\ DOMAIN token \subseteq DOMAIN token'
    /\ \A t \in DOMAIN token : /\ token'[t].org = token[t].org
                               /\ token[t].slugs \subseteq token'[t].slugs
                               /\ token[t].revoked => token'[t].revoked
    /\ \A t \in DOMAIN token' : \A slug \in token'[t].slugs :
        \E p \in DOMAIN project : project[p].org = token'[t].org /\ project[p].slug = slug

LEMMA SameProjects ==
    ASSUME Inductive, UNCHANGED project
    PROVE  ProjectsGrow
BY DEF Inductive, TypeOK, ProjectsGrow, SlugsAreUnique

LEMMA AddedProject ==
    ASSUME Inductive, NEW o, NEW slug, slug \notin SlugsIn(o),
           project' = Append(project, [org |-> o, slug |-> slug])
    PROVE  /\ ProjectsGrow
           /\ DOMAIN project' = DOMAIN project \cup {Len(project) + 1}
           /\ project'[Len(project) + 1].org = o
<1> DEFINE r == [org |-> o, slug |-> slug]
<1>1. r.org = o /\ r.slug = slug /\ IsProject(r) /\ project' = Append(project, r)
    BY DEF IsProject
<1>2. project \in Seq(Range(project)) /\ SlugsAreUnique
      /\ \A p \in DOMAIN project : IsProject(project[p])
    BY DEF Inductive, TypeOK
<1> HIDE DEF r
<1>3. /\ project' \in Seq(Range(project'))
      /\ DOMAIN project' = DOMAIN project \cup {Len(project) + 1}
      /\ project'[Len(project) + 1] = r
      /\ \A p \in DOMAIN project : project'[p] = project[p]
    BY <1>1, <1>2, AppendedRow
<1>4. \A p \in DOMAIN project : ~ (project[p].org = o /\ project[p].slug = slug)
    BY DEF SlugsIn
<1>5. SlugsAreUnique'
    BY <1>1, <1>2, <1>3, <1>4 DEF SlugsAreUnique
<1> QED
    BY <1>1, <1>2, <1>3, <1>5 DEF ProjectsGrow

LEMMA ScopeRows == ASSUME Inductive PROVE SlugsExist
BY ScopeAsRows DEF Inductive

LEMMA SameTokens ==
    ASSUME Inductive, UNCHANGED token
    PROVE  TokensGrow
BY ScopeRows DEF Inductive, TypeOK, TokensGrow, SlugsExist

\* A row that keeps its organization and gains slugs of projects of it.
LEMMA ChangedToken ==
    ASSUME Inductive, NEW t \in DOMAIN token, NEW r, IsToken(r),
           r.org = token[t].org, token[t].slugs \subseteq r.slugs,
           token[t].revoked => r.revoked,
           \A slug \in r.slugs \ token[t].slugs :
                \E p \in DOMAIN project : project[p].org = r.org /\ project[p].slug = slug,
           token' = [token EXCEPT ![t] = r]
    PROVE  TokensGrow
<1>1. token \in Seq(Range(token)) /\ SlugsExist /\ \A u \in DOMAIN token : IsToken(token[u])
    BY ScopeRows DEF Inductive, TypeOK
<1>2. /\ token' \in Seq(Range(token'))
      /\ DOMAIN token' = DOMAIN token
      /\ token'[t] = r
      /\ \A u \in DOMAIN token : u # t => token'[u] = token[u]
    BY <1>1, ChangedRow
<1>3. ASSUME NEW u \in DOMAIN token', NEW slug \in token'[u].slugs
      PROVE  \E p \in DOMAIN project : project[p].org = token'[u].org /\ project[p].slug = slug
    <2>1. CASE u = t /\ slug \notin token[t].slugs
        BY <1>2, <1>3, <2>1
    <2>2. CASE u = t /\ slug \in token[t].slugs
        BY <1>1, <1>2, <2>2 DEF SlugsExist
    <2>3. CASE u # t
        BY <1>1, <1>2, <1>3, <2>3 DEF SlugsExist
    <2> QED
        BY <2>1, <2>2, <2>3
<1> QED
    BY <1>1, <1>2, <1>3 DEF TokensGrow

LEMMA AddedToken ==
    ASSUME Inductive, NEW r, IsToken(r), r.slugs \subseteq SlugsIn(r.org),
           token' = Append(token, r)
    PROVE  TokensGrow
<1>1. token \in Seq(Range(token)) /\ SlugsExist /\ \A u \in DOMAIN token : IsToken(token[u])
    BY ScopeRows DEF Inductive, TypeOK
<1>2. /\ token' \in Seq(Range(token'))
      /\ DOMAIN token' = DOMAIN token \cup {Len(token) + 1}
      /\ token'[Len(token) + 1] = r
      /\ \A u \in DOMAIN token : token'[u] = token[u]
    BY <1>1, AppendedRow
<1>3. \A slug \in r.slugs :
        \E p \in DOMAIN project : project[p].org = r.org /\ project[p].slug = slug
    BY DEF SlugsIn
<1> QED
    BY <1>1, <1>2, <1>3 DEF TokensGrow, SlugsExist

---------------------------------------------------------------------------
(* What the statements do to requests.                                     *)

\* One request moves on.
LEMMA RequestStep ==
    ASSUME Inductive, ProjectsGrow, TokensGrow, UNCHANGED <<doc, client, overlapped>>,
           NEW c \in Client, request[c] # NoRequest, NEW s, IsRequest(s),
           request' = [request EXCEPT ![c] = s],
           s.pc \in {"remote", "attach", "files"} =>
                /\ s.project \in DOMAIN project'
                /\ project'[s.project].org = OrgOf(c),
           ~ overlapped => Finds(OrgOf(c), s)
    PROVE  Inductive'
<1>1. /\ TypeOK /\ RequestsHoldTokens /\ AloneFindsItsOrigin
    BY DEF Inductive
<1>2. /\ request' = [d \in Client |-> request'[d]]
      /\ request'[c] = s
      /\ \A d \in Client : d # c => request'[d] = request[d]
    BY <1>1 DEF TypeOK
<1>3. TypeOK'
    BY <1>1, <1>2 DEF TypeOK, ProjectsGrow, TokensGrow
<1>4. SlugsAreUnique' /\ SlugsExist'
    BY DEF ProjectsGrow, TokensGrow, SlugsExist
<1>5. RequestsHoldTokens'
    BY <1>1, <1>2 DEF RequestsHoldTokens, TokensGrow
<1>6. OrgOf(c)' = OrgOf(c)
    BY <1>1 DEF OrgOf, RequestsHoldTokens, TokensGrow
<1>7. ResolvedIn(OrgOf(c), request[c])'
    BY <1>2, <1>6 DEF ResolvedIn
<1>8. ~ overlapped' => \A d, e \in Client :
            request'[d] # NoRequest /\ request'[e] # NoRequest => d = e
    BY <1>1, <1>2 DEF AloneFindsItsOrigin
<1>9. ASSUME NEW d \in Client
      PROVE \/ request'[d].pc \in {"none", "origin"}
            \/ /\ request[d] # NoRequest
               /\ client'[d].token = client[d].token
               /\ \/ request'[d] = request[d]
                  \/ /\ ResolvedIn(OrgOf(d), request[d])'
                     /\ ~ overlapped => Finds(OrgOf(d), request'[d])
    <2>1. CASE d = c
        BY <1>2, <1>7, <2>1
    <2>2. CASE d # c /\ request[d] = NoRequest
        BY <1>2, <2>2 DEF NoRequest
    <2>3. CASE d # c /\ request[d] # NoRequest
        BY <1>2, <2>3
    <2> QED
        BY <2>1, <2>2, <2>3
<1> QED
    BY <1>3, <1>4, <1>5, <1>8, <1>9, Frame DEF ProjectsGrow, TokensGrow

\* A laptop moves on, and its request begins or ends; or projects and tokens
\* change and no request does.
LEMMA ClientStep ==
    ASSUME Inductive, ProjectsGrow, TokensGrow, UNCHANGED doc,
           client' = [d \in Client |-> client'[d]],
           request' = [d \in Client |-> request'[d]],
           RequestsHoldTokens',
           ~ overlapped' =>
                /\ ~ overlapped
                /\ \A d, e \in Client :
                    request'[d] # NoRequest /\ request'[e] # NoRequest => d = e,
           \A d \in Client :
                /\ IsClient(client'[d])
                /\ \/ request'[d].pc \in {"none", "origin"} /\ IsRequest(request'[d])
                   \/ request'[d] = request[d] /\ client'[d].token = client[d].token
    PROVE  Inductive'
<1>1. TypeOK
    BY DEF Inductive
<1>2. TypeOK'
    BY <1>1 DEF TypeOK, ProjectsGrow, TokensGrow
<1>3. SlugsAreUnique' /\ SlugsExist'
    BY DEF ProjectsGrow, TokensGrow, SlugsExist
<1>4. ASSUME NEW d \in Client, request[d] = NoRequest, request'[d] = request[d]
      PROVE  request'[d].pc \in {"none", "origin"}
    BY <1>4 DEF NoRequest
<1> QED
    BY <1>2, <1>3, <1>4, Frame DEF ProjectsGrow, TokensGrow

\* Users work with projects and tokens.
LEMMA RowsStep ==
    ASSUME Inductive, ProjectsGrow, TokensGrow,
           UNCHANGED <<doc, client, request, overlapped>>
    PROVE  Inductive'
<1>1. TypeOK /\ RequestsHoldTokens /\ AloneFindsItsOrigin
    BY DEF Inductive
<1>2. RequestsHoldTokens'
    BY <1>1 DEF RequestsHoldTokens, TokensGrow
<1> QED
    BY <1>1, <1>2, ClientStep DEF TypeOK, AloneFindsItsOrigin

---------------------------------------------------------------------------
(* The actions.                                                            *)

LEMMA UserActions ==
    ASSUME Inductive,
           \/ \E o \in Org, n \in Name : CreateProject(o, <<n>>)
           \/ \E o \in Org : \E slugs \in SUBSET {project[p].slug : p \in DOMAIN project},
                                tools \in {DailyTools, DailyTools \cup {"index_local"}} :
                CreateToken(o, slugs, tools)
           \/ \E t \in DOMAIN token : RevokeToken(t) \/ ExpireToken(t)
    PROVE  TokensGrow /\ Inductive'
<1>1. ASSUME NEW o \in Org, NEW slug, CreateProject(o, slug)
      PROVE  TokensGrow /\ Inductive'
    BY <1>1, AddedProject, SameTokens, RowsStep DEF CreateProject
<1>2. ASSUME NEW o \in Org, NEW slugs, NEW tools, CreateToken(o, slugs, tools)
      PROVE  TokensGrow /\ Inductive'
    <2> DEFINE r == [org |-> o, slugs |-> slugs, tools |-> tools,
                     revoked |-> FALSE, expired |-> FALSE]
    <2>1. IsToken(r) /\ r.slugs = slugs /\ r.org = o
        BY DEF IsToken
    <2>2. r.slugs \subseteq SlugsIn(r.org) /\ token' = Append(token, r)
        BY <1>2, <2>1 DEF CreateToken
    <2> HIDE DEF r
    <2>3. TokensGrow
        BY <2>1, <2>2, AddedToken
    <2> QED
        BY <1>2, <2>3, SameProjects, RowsStep DEF CreateToken
<1>3. ASSUME NEW t \in DOMAIN token, RevokeToken(t) \/ ExpireToken(t)
      PROVE  TokensGrow /\ Inductive'
    <2> DEFINE a == [token[t] EXCEPT !.revoked = TRUE]
               b == [token[t] EXCEPT !.expired = TRUE]
    <2>0. IsToken(token[t])
        BY DEF Inductive, TypeOK
    <2>1. IsToken(a) /\ a.org = token[t].org /\ a.slugs = token[t].slugs /\ a.revoked
        BY <2>0, TokenEdits
    <2>2. IsToken(b) /\ b.org = token[t].org /\ b.slugs = token[t].slugs
          /\ b.revoked = token[t].revoked
        BY <2>0, TokenEdits
    <2>3. token' = [token EXCEPT ![t] = a] \/ token' = [token EXCEPT ![t] = b]
        BY <1>3 DEF RevokeToken, ExpireToken
    <2>4. UNCHANGED <<project, doc, client, request, overlapped>>
        BY <1>3 DEF RevokeToken, ExpireToken
    <2> HIDE DEF a, b
    <2>5. TokensGrow
        BY <2>1, <2>2, <2>3, ChangedToken
    <2> QED
        BY <2>4, <2>5, SameProjects, RowsStep
<1> QED
    BY <1>1, <1>2, <1>3

\* The rows of laptops and requests.
LEMMA ClientRow ==
    ASSUME TypeOK, NEW c \in Client
    PROVE  /\ IsClient(client[c]) /\ IsRequest(request[c])
           /\ IsClient(IdleClient) /\ IsClient(GaveUp) /\ IsRequest(NoRequest)
           /\ GaveUp.status = "failed" /\ NoRequest.pc = "none"
<1>1. IsClient(client[c]) /\ IsRequest(request[c])
    BY DEF TypeOK
<1> QED
    BY <1>1 DEF IsClient, IsRequest, IdleClient, GaveUp, NoRequest

LEMMA OneClient ==
    ASSUME TypeOK, NEW c \in Client, NEW r, client' = [client EXCEPT ![c] = r]
    PROVE  /\ client' = [d \in Client |-> client'[d]] /\ client'[c] = r
           /\ \A d \in Client : d # c => client'[d] = client[d]
BY DEF TypeOK

LEMMA OneRequest ==
    ASSUME TypeOK, NEW c \in Client, NEW r, request' = [request EXCEPT ![c] = r]
    PROVE  /\ request' = [d \in Client |-> request'[d]] /\ request'[c] = r
           /\ \A d \in Client : d # c => request'[d] = request[d]
BY DEF TypeOK

LEMMA SentRequest ==
    ASSUME NEW r, NEW g, NEW y,
           y = [NoRequest EXCEPT !.pc = "origin", !.roots = r, !.granted = g]
    PROVE  IsRequest(y) /\ y.pc = "origin"
BY DEF IsRequest, NoRequest

LEMMA LaptopActions ==
    ASSUME Inductive, NEW c \in Client,
           \/ \E t \in DOMAIN token, roots \in Workspaces : StartRun(c, t, roots)
           \/ FinishRun(c) \/ Send(c) \/ Refuse(c) \/ FailRequest(c) \/ Answer(c)
    PROVE  Inductive'
<1>i. TypeOK /\ RequestsHoldTokens /\ AloneFindsItsOrigin
    BY DEF Inductive
<1>u. UNCHANGED <<project, doc, token>>
    BY DEF StartRun, FinishRun, Send, Refuse, FailRequest, Answer
<1>g. ProjectsGrow /\ TokensGrow
    BY <1>u, SameProjects, SameTokens
<1>1. ASSUME NEW t \in DOMAIN token, NEW roots \in Workspaces, StartRun(c, t, roots)
      PROVE  Inductive'
    <2> DEFINE x == IdleClient
               planned == FilesIn(roots)
               todo == Upload[roots]
               r == [x EXCEPT !.status = "uploading", !.token = t,
                              !.planned = planned, !.todo = todo]
    <2>x. IsClient(x)
        BY <1>i, ClientRow
    <2>0. r = [x EXCEPT !.status = "uploading", !.token = t, !.planned = planned,
                        !.todo = todo]
        OBVIOUS
    <2> HIDE DEF x, planned, todo, r
    <2>1. IsClient(r) /\ r.token = t
        BY <2>x, <2>0 DEF IsClient
    <2>2. client' = [client EXCEPT ![c] = r] /\ UNCHANGED <<request, overlapped>>
          /\ request[c] = NoRequest
        BY <1>1, <1>i DEF StartRun, RequestsHoldTokens, x, planned, todo, r
    <2> HIDE DEF r
    <2>3. /\ client' = [d \in Client |-> client'[d]] /\ client'[c] = r
          /\ \A d \in Client : d # c => client'[d] = client[d]
        BY <1>i, <2>1, <2>2, ClientRow, OneClient, OneRequest
    <2>4. RequestsHoldTokens'
        BY <1>i, <1>u, <2>1, <2>2, <2>3 DEF RequestsHoldTokens
    <2>5. request'[c].pc = "none" /\ IsRequest(request'[c])
        BY <1>i, <2>2, ClientRow
    <2> QED
        BY <1>i, <1>u, <1>g, <2>1, <2>2, <2>3, <2>4, <2>5, ClientStep
           DEF TypeOK, AloneFindsItsOrigin
<1>2. ASSUME FinishRun(c) PROVE Inductive'
    <2> DEFINE x == client[c]
               r == [x EXCEPT !.status = "done"]
    <2>x. IsClient(x) /\ x = client[c]
        BY <1>i, ClientRow
    <2>0. r = [x EXCEPT !.status = "done"]
        OBVIOUS
    <2> HIDE DEF x, r
    <2>1. IsClient(r) /\ r.token = client[c].token /\ r.status = "done"
        BY <2>x, <2>0 DEF IsClient
    <2>2. client' = [client EXCEPT ![c] = r] /\ UNCHANGED <<request, overlapped>>
          /\ request[c] = NoRequest
        BY <1>2, <1>i DEF FinishRun, RequestsHoldTokens, x, r
    <2> HIDE DEF r
    <2>3. /\ client' = [d \in Client |-> client'[d]] /\ client'[c] = r
          /\ \A d \in Client : d # c => client'[d] = client[d]
        BY <1>i, <2>1, <2>2, ClientRow, OneClient, OneRequest
    <2>4. RequestsHoldTokens'
        BY <1>i, <1>u, <2>1, <2>2, <2>3 DEF RequestsHoldTokens
    <2> QED
        BY <1>i, <1>u, <1>g, <2>1, <2>2, <2>3, <2>4, ClientStep
           DEF TypeOK, AloneFindsItsOrigin
<1>3. ASSUME Refuse(c) \/ FailRequest(c) PROVE Inductive'
    <2>1. /\ client' = [client EXCEPT ![c] = GaveUp]
          /\ request' = [request EXCEPT ![c] = NoRequest]
          /\ UNCHANGED overlapped
        <3>1. CASE Refuse(c)
            BY <1>i, <3>1 DEF Refuse, TypeOK
        <3>2. CASE FailRequest(c)
            BY <3>2 DEF FailRequest
        <3> QED
            BY <1>3, <3>1, <3>2
    <2>2. /\ client' = [d \in Client |-> client'[d]] /\ client'[c] = GaveUp
          /\ request' = [d \in Client |-> request'[d]] /\ request'[c] = NoRequest
          /\ \A d \in Client : d # c => client'[d] = client[d] /\ request'[d] = request[d]
          /\ IsClient(GaveUp) /\ IsRequest(NoRequest) /\ GaveUp.status # "uploading"
        BY <1>i, <2>1, ClientRow, OneClient, OneRequest
    <2>3. RequestsHoldTokens'
        BY <1>i, <1>u, <2>2 DEF RequestsHoldTokens
    <2>4. NoRequest.pc = "none"
        BY DEF NoRequest
    <2> QED
        BY <1>i, <1>u, <1>g, <2>1, <2>2, <2>3, <2>4, ClientStep
           DEF TypeOK, AloneFindsItsOrigin
<1>4. ASSUME Answer(c) PROVE Inductive'
    <2> DEFINE x == client[c]
               todo == Tail(x.todo)
               accepted == x.accepted + request[c].accepted
               skipped == x.skipped + request[c].skipped
               r == [x EXCEPT !.todo = todo, !.accepted = accepted, !.skipped = skipped]
    <2>x. IsClient(x) /\ x = client[c]
        BY <1>i, ClientRow
    <2>0. r = [x EXCEPT !.todo = todo, !.accepted = accepted, !.skipped = skipped]
        OBVIOUS
    <2> HIDE DEF x, todo, accepted, skipped, r
    <2>1. IsClient(r) /\ r.token = client[c].token /\ r.status = client[c].status
        BY <2>x, <2>0 DEF IsClient
    <2>2. /\ client' = [client EXCEPT ![c] = r]
          /\ request' = [request EXCEPT ![c] = NoRequest]
          /\ UNCHANGED overlapped
        BY <1>4 DEF Answer, x, todo, accepted, skipped, r
    <2> HIDE DEF r
    <2>3. /\ client' = [d \in Client |-> client'[d]] /\ client'[c] = r
          /\ request' = [d \in Client |-> request'[d]] /\ request'[c] = NoRequest
          /\ \A d \in Client : d # c => client'[d] = client[d] /\ request'[d] = request[d]
          /\ IsRequest(NoRequest)
        BY <1>i, <2>1, <2>2, ClientRow, OneClient, OneRequest
    <2>4. RequestsHoldTokens'
        BY <1>i, <1>u, <2>1, <2>3 DEF RequestsHoldTokens
    <2>5. NoRequest.pc = "none"
        BY DEF NoRequest
    <2> QED
        BY <1>i, <1>u, <1>g, <2>1, <2>2, <2>3, <2>4, <2>5, ClientStep
           DEF TypeOK, AloneFindsItsOrigin
<1>5. ASSUME Send(c) PROVE Inductive'
    <2> DEFINE r == [NoRequest EXCEPT !.pc = "origin", !.roots = Batch(c),
                              !.granted = token[client[c].token].slugs]
    <2>1. IsRequest(r) /\ r.pc = "origin"
        BY <1>i, ClientRow, SentRequest
    <2>2. /\ request' = [request EXCEPT ![c] = r] /\ UNCHANGED client
          /\ client[c].status = "uploading" /\ client[c].todo # <<>>
          /\ ~ overlapped' => ~ overlapped /\ \A d \in Client : request[d] = NoRequest
        BY <1>5 DEF Send
    <2> HIDE DEF r
    <2>3. /\ request' = [d \in Client |-> request'[d]] /\ request'[c] = r
          /\ \A d \in Client : d # c => request'[d] = request[d]
        BY <1>i, <2>1, <2>2, ClientRow, OneClient, OneRequest
    <2>4. RequestsHoldTokens'
        BY <1>i, <1>u, <2>2, <2>3 DEF RequestsHoldTokens
    <2> QED
        BY <1>i, <1>u, <1>g, <2>1, <2>2, <2>3, <2>4, ClientStep DEF TypeOK
<1> QED
    BY <1>1, <1>2, <1>3, <1>4, <1>5

\* A request that waits for nothing but its own state.
LEMMA StepAlone ==
    ASSUME Inductive, NEW c \in Client, request[c] # NoRequest, NEW s, IsRequest(s),
           Step(c, s), UNCHANGED <<project, doc>>,
           ResolvedIn(OrgOf(c), s),
           ~ overlapped => Finds(OrgOf(c), s)
    PROVE  TokensGrow /\ Inductive'
<1>1. ProjectsGrow /\ TokensGrow
    BY SameProjects, SameTokens DEF Step
<1> QED
    BY <1>1, RequestStep DEF Step, ResolvedIn

\* Where a request is, and what it knows.
LEMMA Knows ==
    ASSUME Inductive, NEW c \in Client, request[c].pc # "none"
    PROVE  /\ IsRequest(request[c]) /\ request[c] # NoRequest
           /\ ResolvedIn(OrgOf(c), request[c])
           /\ ~ overlapped => Finds(OrgOf(c), request[c])
           /\ client[c].token \in DOMAIN token
           /\ DOMAIN project \in SUBSET Nat /\ DOMAIN doc \in SUBSET Nat
           /\ \A i \in DOMAIN doc : doc[i].project \in DOMAIN project
<1>1. request[c] # NoRequest
    BY DEF NoRequest
<1>2. project \in Seq(Range(project)) /\ doc \in Seq(Range(doc))
    BY DEF Inductive, TypeOK
<1> QED
    BY <1>1, <1>2 DEF Inductive, TypeOK, ResolvedAtHome, AloneFindsItsOrigin,
        RequestsHoldTokens, DocumentsHaveProjects

LEMMA FindsByOrigin ==
    ASSUME Inductive, NEW c \in Client, FindByOrigin(c)
    PROVE  TokensGrow /\ Inductive'
<1> DEFINE x == request[c]
           o == OrgOf(c)
           origin == Root(c).origin
           found == Indexed(o, origin)
           first == Earliest(found)
           slug == SlugOf(Root(c))
<1>k. /\ x.pc = "origin" /\ x = request[c] /\ IsRequest(x) /\ request[c] # NoRequest
      /\ DOMAIN project \in SUBSET Nat
      /\ \A i \in DOMAIN doc : doc[i].project \in DOMAIN project
      /\ ~ overlapped => RemotesStayApart
    BY Knows DEF FindByOrigin, Inductive
<1>u. UNCHANGED <<project, doc>>
    BY DEF FindByOrigin
<1>f. \A p : p \in found <=> /\ p \in DOMAIN project /\ project[p].org = o
                             /\ \E i \in DOMAIN doc : doc[i].project = p /\ doc[i].origin = origin
    BY DEF Indexed
<1> HIDE DEF found
<1>1. ASSUME origin # NoOrigin, found # {},
             Step(c, [[x EXCEPT !.pc = "attach", !.project = first] EXCEPT !.origin = origin])
      PROVE  TokensGrow /\ Inductive'
    <2> DEFINE s == [[x EXCEPT !.pc = "attach", !.project = first] EXCEPT !.origin = origin]
    <2>1. first \in found
        BY <1>1, <1>k, <1>f, LeastRow
    <2>2. PICK j \in DOMAIN doc : doc[j].project = first /\ doc[j].origin = origin
        BY <1>f, <2>1
    <2>s. s = [[x EXCEPT !.pc = "attach", !.project = first] EXCEPT !.origin = origin]
        OBVIOUS
    <2>t. Step(c, s)
        BY <1>1
    <2> HIDE DEF x, first, origin, s
    <2>3. IsRequest(s) /\ s.pc = "attach" /\ s.project = first /\ s.origin = origin
        BY <1>k, <2>s DEF IsRequest
    <2>4. ResolvedIn(o, s)
        BY <1>f, <2>1, <2>3 DEF ResolvedIn
    <2>5. ASSUME ~ overlapped, NEW i \in DOMAIN doc
          PROVE  /\ doc[i].origin = origin /\ project[doc[i].project].org = o =>
                        doc[i].project = first
                 /\ doc[i].origin # NoOrigin /\ doc[i].project = first =>
                        Equivalent(doc[i].origin, origin)
        BY <1>1, <1>k, <1>f, <2>1, <2>2, <2>5 DEF RemotesStayApart
    <2>6. ~ overlapped => Finds(o, s)
        BY <2>3, <2>5 DEF Finds, Looking
    <2> HIDE DEF o
    <2> QED
        BY <1>k, <1>u, <2>t, <2>3, <2>4, <2>6, StepAlone DEF o
<1>2. ASSUME origin = NoOrigin \/ found = {},
             Step(c, [x EXCEPT !.pc = "slug", !.origin = origin, !.slug = slug])
      PROVE  TokensGrow /\ Inductive'
    <2> DEFINE s == [x EXCEPT !.pc = "slug", !.origin = origin, !.slug = slug]
    <2>s. s = [x EXCEPT !.pc = "slug", !.origin = origin, !.slug = slug]
        OBVIOUS
    <2>t. Step(c, s)
        BY <1>2
    <2> HIDE DEF x, slug, origin, s
    <2>3. IsRequest(s) /\ s.pc = "slug" /\ s.origin = origin
        BY <1>k, <2>s DEF IsRequest
    <2>4. ResolvedIn(o, s)
        BY <2>3 DEF ResolvedIn
    <2>5. Finds(o, s)
        BY <1>k, <1>f, <1>2, <2>3 DEF Finds, Looking
    <2> HIDE DEF o
    <2> QED
        BY <1>k, <1>u, <2>t, <2>3, <2>4, <2>5, StepAlone DEF o
<1> QED
    BY <1>1, <1>2 DEF FindByOrigin, Resolved, found

LEMMA FindsBySlug ==
    ASSUME Inductive, NEW c \in Client, FindBySlug(c)
    PROVE  TokensGrow /\ Inductive'
<1> DEFINE x == request[c]
           o == OrgOf(c)
           found == ProjectsAt(o, x.slug)
           first == Earliest(found)
<1>k. /\ x.pc = "slug" /\ x = request[c] /\ IsRequest(x) /\ request[c] # NoRequest
      /\ DOMAIN project \in SUBSET Nat
      /\ \A i \in DOMAIN doc : doc[i].project \in DOMAIN project
      /\ ~ overlapped => Finds(o, x)
    BY Knows DEF FindBySlug
<1>u. UNCHANGED <<project, doc>>
    BY DEF FindBySlug
<1>f. \A p : p \in found <=>
        p \in DOMAIN project /\ project[p].org = o /\ project[p].slug = x.slug
    BY DEF ProjectsAt
<1>e. found # {} => first \in found
    BY <1>k, <1>f, LeastRow
<1> HIDE DEF x, found, first
<1>1. ASSUME found = {}, Step(c, [x EXCEPT !.pc = "create"]) PROVE TokensGrow /\ Inductive'
    <2> DEFINE s == [x EXCEPT !.pc = "create"]
    <2>s. s = [x EXCEPT !.pc = "create"] /\ Step(c, s)
        BY <1>1
    <2> HIDE DEF s
    <2>3. IsRequest(s) /\ s.pc = "create" /\ s.origin = x.origin /\ s.slug = x.slug
        BY <1>k, <2>s DEF IsRequest
    <2>4. ResolvedIn(o, s)
        BY <2>3 DEF ResolvedIn
    <2>5. ~ overlapped => Finds(o, s)
        BY <1>k, <1>f, <1>1, <2>3 DEF Finds, Looking
    <2> HIDE DEF o
    <2> QED
        BY <1>k, <1>u, <2>s, <2>3, <2>4, <2>5, StepAlone DEF o
<1>2. ASSUME found # {}, NEW pc \in {"attach", "remote"},
             pc = "attach" => x.origin = NoOrigin,
             Step(c, [x EXCEPT !.pc = pc, !.project = first])
      PROVE  TokensGrow /\ Inductive'
    <2> DEFINE s == [x EXCEPT !.pc = pc, !.project = first]
    <2>s. s = [x EXCEPT !.pc = pc, !.project = first] /\ Step(c, s)
        BY <1>2
    <2> HIDE DEF s
    <2>3. IsRequest(s) /\ s.pc = pc /\ s.project = first /\ s.origin = x.origin
        BY <1>k, <2>s DEF IsRequest
    <2>4. ResolvedIn(o, s)
        BY <1>e, <1>f, <1>2, <2>3 DEF ResolvedIn
    <2>5. ~ overlapped => Finds(o, s)
        BY <1>k, <1>2, <2>3 DEF Finds, Looking
    <2> HIDE DEF o
    <2> QED
        BY <1>k, <1>u, <2>s, <2>3, <2>4, <2>5, StepAlone DEF o
<1> QED
    BY <1>1, <1>2 DEF FindBySlug, Resolved, found, first, x

LEMMA ComparesOrigin ==
    ASSUME Inductive, NEW c \in Client, CompareOrigin(c)
    PROVE  TokensGrow /\ Inductive'
<1> DEFINE x == request[c]
           o == OrgOf(c)
           p == x.project
           docs == OriginDocs(p)
           first == Earliest(docs)
<1>k. /\ x.pc = "remote" /\ x = request[c] /\ IsRequest(x) /\ request[c] # NoRequest
      /\ DOMAIN doc \in SUBSET Nat
      /\ ResolvedIn(o, x)
      /\ ~ overlapped => Finds(o, x) /\ RemotesStayApart
    BY Knows DEF CompareOrigin, Inductive
<1>u. UNCHANGED <<project, doc>>
    BY DEF CompareOrigin
<1>f. \A i : i \in docs <=> i \in DOMAIN doc /\ doc[i].project = p /\ doc[i].origin # NoOrigin
    BY DEF OriginDocs
<1>e. docs # {} => first \in docs
    BY <1>k, <1>f, LeastRow
<1> HIDE DEF x, docs, first
<1>1. ASSUME Step(c, [x EXCEPT !.pc = "number", !.number = 2]) PROVE TokensGrow /\ Inductive'
    <2> DEFINE s == [x EXCEPT !.pc = "number", !.number = 2]
    <2>s. s = [x EXCEPT !.pc = "number", !.number = 2] /\ Step(c, s)
        BY <1>1
    <2> HIDE DEF s
    <2>3. IsRequest(s) /\ s.pc = "number" /\ s.origin = x.origin
        BY <1>k, <2>s DEF IsRequest
    <2>4. ResolvedIn(o, s)
        BY <2>3 DEF ResolvedIn
    <2>5. ~ overlapped => Finds(o, s)
        BY <1>k, <2>3 DEF Finds, Looking
    <2> HIDE DEF o
    <2> QED
        BY <1>k, <1>u, <2>s, <2>3, <2>4, <2>5, StepAlone DEF o
<1>2. ASSUME docs = {} \/ Equivalent(doc[first].origin, x.origin),
             Step(c, [x EXCEPT !.pc = "attach", !.project = p])
      PROVE  TokensGrow /\ Inductive'
    <2> DEFINE s == [x EXCEPT !.pc = "attach", !.project = p]
    <2>s. s = [x EXCEPT !.pc = "attach", !.project = p] /\ Step(c, s)
        BY <1>2
    <2> HIDE DEF s, p
    <2>3. IsRequest(s) /\ s.pc = "attach" /\ s.project = p /\ s.origin = x.origin
        BY <1>k, <2>s DEF IsRequest
    <2>4. ResolvedIn(o, s)
        BY <1>k, <2>3 DEF ResolvedIn, p
    <2>5. ASSUME ~ overlapped, NEW i \in DOMAIN doc, doc[i].origin # NoOrigin, doc[i].project = p
          PROVE  Equivalent(doc[i].origin, x.origin)
        <3>1. first \in DOMAIN doc /\ doc[first].project = p /\ doc[first].origin # NoOrigin
              /\ docs # {}
            BY <1>e, <1>f, <2>5
        <3>2. Equivalent(doc[i].origin, doc[first].origin)
            BY <1>k, <2>5, <3>1 DEF RemotesStayApart
        <3> QED
            BY <1>2, <3>1, <3>2 DEF Equivalent
    <2>6. ~ overlapped => Finds(o, s)
        BY <1>k, <2>3, <2>5 DEF Finds, Looking
    <2> HIDE DEF o
    <2> QED
        BY <1>k, <1>u, <2>s, <2>3, <2>4, <2>6, StepAlone DEF o
<1> QED
    BY <1>1, <1>2 DEF CompareOrigin, Resolved, docs, first, x, p

LEMMA NumbersSlug ==
    ASSUME Inductive, NEW c \in Client, NumberSlug(c)
    PROVE  TokensGrow /\ Inductive'
<1> DEFINE x == request[c]
           o == OrgOf(c)
           slug == Numbered(SlugOf(Root(c)), x.number)
           next == x.number + 1
<1>k. /\ x.pc = "number" /\ x = request[c] /\ IsRequest(x) /\ request[c] # NoRequest
      /\ \A i \in DOMAIN doc : doc[i].project \in DOMAIN project
      /\ ~ overlapped => Finds(o, x)
    BY Knows DEF NumberSlug
<1>u. UNCHANGED <<project, doc>>
    BY DEF NumberSlug
<1>1. ASSUME ProjectsAt(o, slug) = {}, Step(c, [x EXCEPT !.pc = "create", !.slug = slug])
      PROVE  TokensGrow /\ Inductive'
    <2> DEFINE s == [x EXCEPT !.pc = "create", !.slug = slug]
    <2>s. s = [x EXCEPT !.pc = "create", !.slug = slug] /\ Step(c, s)
        BY <1>1
    <2> HIDE DEF s, x, slug
    <2>3. IsRequest(s) /\ s.pc = "create" /\ s.origin = x.origin /\ s.slug = slug
        BY <1>k, <2>s DEF IsRequest
    <2>4. ResolvedIn(o, s)
        BY <2>3 DEF ResolvedIn
    <2>5. ~ overlapped => Finds(o, s)
        BY <1>k, <1>1, <2>3 DEF Finds, Looking, ProjectsAt
    <2> HIDE DEF o
    <2> QED
        BY <1>k, <1>u, <2>s, <2>3, <2>4, <2>5, StepAlone DEF o
<1>2. ASSUME Step(c, [x EXCEPT !.number = next]) PROVE TokensGrow /\ Inductive'
    <2> DEFINE s == [x EXCEPT !.number = next]
    <2>s. s = [x EXCEPT !.number = next] /\ Step(c, s)
        BY <1>2
    <2> HIDE DEF s, x, next
    <2>3. IsRequest(s) /\ s.pc = "number" /\ s.origin = x.origin
        BY <1>k, <2>s DEF IsRequest
    <2>4. ResolvedIn(o, s)
        BY <2>3 DEF ResolvedIn
    <2>5. ~ overlapped => Finds(o, s)
        BY <1>k, <2>3 DEF Finds, Looking
    <2> HIDE DEF o
    <2> QED
        BY <1>k, <1>u, <2>s, <2>3, <2>4, <2>5, StepAlone DEF o
<1> QED
    BY <1>1, <1>2 DEF NumberSlug

LEMMA CreatesForAgent ==
    ASSUME Inductive, NEW c \in Client, CreateForAgent(c)
    PROVE  TokensGrow /\ Inductive'
<1> DEFINE x == request[c]
           o == OrgOf(c)
           taken == ProjectsAt(o, x.slug)
           first == Earliest(taken)
           new == Len(project) + 1
<1>k. /\ x.pc = "create" /\ x = request[c] /\ IsRequest(x) /\ request[c] # NoRequest
      /\ DOMAIN project \in SUBSET Nat
      /\ \A i \in DOMAIN doc : doc[i].project \in DOMAIN project
      /\ ~ overlapped => Finds(o, x)
    BY Knows DEF CreateForAgent
<1>f. \A p : p \in taken <=>
        p \in DOMAIN project /\ project[p].org = o /\ project[p].slug = x.slug
    BY DEF ProjectsAt
<1>e. taken # {} => first \in taken
    BY <1>k, <1>f, LeastRow
<1> HIDE DEF x, taken, first
<1>1. ASSUME taken # {}, Step(c, [x EXCEPT !.pc = "attach", !.project = first]),
             UNCHANGED <<project, doc>>
      PROVE  TokensGrow /\ Inductive'
    <2> DEFINE s == [x EXCEPT !.pc = "attach", !.project = first]
    <2>s. s = [x EXCEPT !.pc = "attach", !.project = first] /\ Step(c, s)
        BY <1>1
    <2> HIDE DEF s
    <2>3. IsRequest(s) /\ s.pc = "attach" /\ s.project = first /\ s.origin = x.origin
        BY <1>k, <2>s DEF IsRequest
    <2>4. ResolvedIn(o, s)
        BY <1>e, <1>f, <1>1, <2>3 DEF ResolvedIn
    <2>5. ~ overlapped => Finds(o, s)
        BY <1>k, <1>e, <1>f, <1>1, <2>3 DEF Finds, Looking
    <2> HIDE DEF o
    <2> QED
        BY <1>k, <1>1, <2>s, <2>3, <2>4, <2>5, StepAlone DEF o
<1>2. ASSUME taken = {}, UNCHANGED doc,
             project' = Append(project, [org |-> o, slug |-> x.slug]),
             Step(c, [x EXCEPT !.pc = "attach", !.project = new])
      PROVE  TokensGrow /\ Inductive'
    <2> DEFINE s == [x EXCEPT !.pc = "attach", !.project = new]
    <2>s. s = [x EXCEPT !.pc = "attach", !.project = new] /\ Step(c, s)
        BY <1>2
    <2>1. /\ ProjectsGrow /\ TokensGrow
          /\ new \in DOMAIN project' /\ project'[new].org = o
        <3>1. x.slug \notin SlugsIn(o)
            BY <1>f, <1>2 DEF SlugsIn
        <3> QED
            BY <1>2, <3>1, AddedProject, SameTokens DEF Step
    <2>2. new \notin DOMAIN project
        BY AppendedRow DEF Inductive, TypeOK
    <2> HIDE DEF s, new
    <2>3. IsRequest(s) /\ s.pc = "attach" /\ s.project = new /\ s.origin = x.origin
        BY <1>k, <2>s DEF IsRequest
    <2>4. ~ overlapped => Finds(o, s)
        BY <1>k, <2>2, <2>3 DEF Finds, Looking
    <2> HIDE DEF o
    <2> QED
        BY <1>k, <1>2, <2>s, <2>1, <2>3, <2>4, RequestStep DEF Step, o
<1> QED
    BY <1>1, <1>2 DEF CreateForAgent, Resolved, taken, first, x, new

LEMMA Attaches ==
    ASSUME Inductive, NEW c \in Client, Attach(c)
    PROVE  TokensGrow /\ Inductive'
<1> DEFINE x == request[c]
           o == OrgOf(c)
           t == client[c].token
           slug == project[x.project].slug
           granted == x.granted \cup {slug}
           s == [x EXCEPT !.pc = "files", !.granted = granted]
           y == token[t]
           slugs == IF slug \in x.granted THEN y.slugs ELSE y.slugs \cup {slug}
           r == [y EXCEPT !.slugs = slugs]
<1>k. /\ x.pc = "attach" /\ x = request[c] /\ IsRequest(x) /\ request[c] # NoRequest
      /\ ResolvedIn(o, x)
      /\ ~ overlapped => Finds(o, x)
      /\ t \in DOMAIN token /\ IsToken(y) /\ o = y.org
    BY Knows DEF Attach, Attached, Inductive, TypeOK, OrgOf
<1>s. /\ s = [x EXCEPT !.pc = "files", !.granted = granted]
      /\ r = [y EXCEPT !.slugs = slugs]
      /\ y.slugs \subseteq slugs /\ slugs \subseteq y.slugs \cup {slug}
    OBVIOUS
<1>t. /\ token' = [token EXCEPT ![t] = r]
      /\ UNCHANGED <<project, doc, client, overlapped>>
    BY DEF Attach, Attached
<1>q. request' = [request EXCEPT ![c] = s]
    BY DEF Attach, Attached
<1> HIDE DEF x, s, y, r, slugs, granted
<1>1. /\ IsRequest(s) /\ s.pc = "files" /\ s.project = x.project /\ s.origin = x.origin
    BY <1>k, <1>s DEF IsRequest
<1>2. IsToken(r) /\ r.org = y.org /\ r.slugs = slugs /\ r.revoked = y.revoked
    BY <1>k, <1>s DEF IsToken
<1>3. x.project \in DOMAIN project /\ project[x.project].org = o
    BY <1>k DEF ResolvedIn
<1>4. TokensGrow
    BY <1>k, <1>s, <1>t, <1>2, <1>3, ChangedToken DEF y
<1>5. ~ overlapped => Finds(o, s)
    BY <1>k, <1>1 DEF Finds, Looking
<1>6. ProjectsGrow
    BY <1>t, SameProjects
<1> HIDE DEF o
<1> QED
    BY <1>k, <1>t, <1>q, <1>1, <1>3, <1>4, <1>5, <1>6, RequestStep DEF o

LEMMA SkipsAndEnds ==
    ASSUME Inductive, NEW c \in Client, SkipFile(c) \/ EndRoot(c)
    PROVE  TokensGrow /\ Inductive'
<1> DEFINE x == request[c]
           o == OrgOf(c)
           rest == <<[Root(c) EXCEPT !.files = Tail(@)]>> \o Tail(x.roots)
           roots == Tail(x.roots)
           skipped == x.skipped + 1
           a == [x EXCEPT !.roots = rest, !.accepted = x.accepted, !.skipped = skipped]
           b == [x EXCEPT !.pc = "origin", !.roots = roots]
<1>k. /\ x.pc = "files" /\ x = request[c] /\ IsRequest(x) /\ request[c] # NoRequest
      /\ ResolvedIn(o, x)
      /\ ~ overlapped => Finds(o, x)
    BY Knows DEF SkipFile, EndRoot
<1>s. /\ a = [x EXCEPT !.roots = rest, !.accepted = x.accepted, !.skipped = skipped]
      /\ b = [x EXCEPT !.pc = "origin", !.roots = roots]
    OBVIOUS
<1>t. UNCHANGED <<project, doc>> /\ (Step(c, a) \/ Step(c, b))
    BY DEF SkipFile, EndRoot, NextFile
<1> HIDE DEF x, a, b, rest, roots, skipped
<1>1. /\ IsRequest(a) /\ a.pc = x.pc /\ a.project = x.project /\ a.origin = x.origin
      /\ a.slug = x.slug
      /\ IsRequest(b) /\ b.pc = "origin"
    BY <1>k, <1>s DEF IsRequest
<1>2. ResolvedIn(o, a) /\ ResolvedIn(o, b)
    BY <1>k, <1>1 DEF ResolvedIn
<1>3. ~ overlapped => Finds(o, a) /\ Finds(o, b)
    BY <1>k, <1>1 DEF Finds, Looking
<1> HIDE DEF o
<1> QED
    BY <1>k, <1>t, <1>1, <1>2, <1>3, StepAlone DEF o

---------------------------------------------------------------------------
(* Documents.                                                              *)

LEMMA AnyRows ==
    ASSUME NEW n \in Nat, NEW f, f = [i \in 1..n |-> f[i]]
    PROVE  f \in Seq(Range(f))
<1>1. DOMAIN f = 1..n
    OBVIOUS
<1>2. \A i \in 1..n : f[i] \in Range(f)
    BY <1>1 DEF Range
<1>3. f \in [1..n -> Range(f)]
    BY <1>2
<1> QED
    BY <1>3, SeqDef

LEMMA PutRows ==
    ASSUME TypeOK, NEW row, IsDoc(row)
    PROVE  /\ Put(row) \in Seq(Range(Put(row)))
           /\ \A i \in DOMAIN Put(row) :
                /\ IsDoc(Put(row)[i])
                /\ \/ Put(row)[i] = row
                   \/ /\ i \in DOMAIN doc
                      /\ Put(row)[i].project = doc[i].project
                      /\ Put(row)[i].origin = doc[i].origin
<1> DEFINE Here(d) == d.project = row.project /\ SamePath(d.file, row.file)
           New(d) == IF Here(d) THEN IF d.file = row.file THEN row
                                     ELSE [d EXCEPT !.waiting = FALSE]
                     ELSE d
           kept == [i \in DOMAIN doc |-> New(doc[i])]
<1>1. /\ Len(doc) \in Nat /\ DOMAIN doc = 1..Len(doc)
      /\ \A i \in DOMAIN doc : IsDoc(doc[i])
    BY DEF TypeOK
<1>2. ASSUME NEW d, IsDoc(d)
      PROVE  /\ IsDoc(New(d))
             /\ \/ New(d) = row
                \/ New(d).project = d.project /\ New(d).origin = d.origin
    <2> DEFINE e == [d EXCEPT !.waiting = FALSE]
    <2>1. e = [d EXCEPT !.waiting = FALSE]
        OBVIOUS
    <2>3. New(d) \in {row, d, e}
        OBVIOUS
    <2> HIDE DEF e
    <2>2. IsDoc(e) /\ e.project = d.project /\ e.origin = d.origin
        BY <1>2, <2>1 DEF IsDoc
    <2> HIDE DEF New
    <2> QED
        BY <1>2, <2>2, <2>3
<1>3. \/ Put(row) = kept
      \/ Put(row) = Append(kept, row)
    BY DEF Put
<1> HIDE DEF New, Here
<1>4. /\ DOMAIN kept = DOMAIN doc /\ \A i \in DOMAIN doc : kept[i] = New(doc[i])
      /\ kept = [i \in 1..Len(doc) |-> kept[i]]
    BY <1>1
<1> HIDE DEF kept
<1>5. kept \in Seq(Range(kept))
    BY <1>1, <1>4, AnyRows
<1>6. \A i \in DOMAIN kept :
        /\ IsDoc(kept[i])
        /\ kept[i] = row \/ (/\ i \in DOMAIN doc /\ kept[i].project = doc[i].project
                             /\ kept[i].origin = doc[i].origin)
    BY <1>1, <1>2, <1>4
<1>7. CASE Put(row) = kept
    BY <1>5, <1>6, <1>7
<1>8. CASE Put(row) = Append(kept, row)
    <2>1. /\ Put(row) \in Seq(Range(Put(row)))
          /\ DOMAIN Put(row) = DOMAIN kept \cup {Len(kept) + 1}
          /\ Put(row)[Len(kept) + 1] = row
          /\ \A i \in DOMAIN kept : Put(row)[i] = kept[i]
        BY <1>5, <1>8, AppendedRow
    <2> QED
        BY <1>6, <2>1
<1> QED
    BY <1>3, <1>7, <1>8

\* A request puts a document where it resolved its root to.
LEMMA DocumentStep ==
    ASSUME Inductive, UNCHANGED <<project, token, client, overlapped>>,
           doc' \in Seq(Range(doc')), \A i \in DOMAIN doc' : IsDoc(doc'[i]),
           NEW c \in Client, request[c].pc = "files", NEW s, IsRequest(s), s.pc = "files",
           s.project = request[c].project, s.origin = request[c].origin,
           request' = [request EXCEPT ![c] = s],
           \A i \in DOMAIN doc' :
                \/ /\ doc'[i].project = request[c].project
                   /\ doc'[i].origin = request[c].origin
                \/ /\ i \in DOMAIN doc
                   /\ doc'[i].project = doc[i].project
                   /\ doc'[i].origin = doc[i].origin
    PROVE  TokensGrow /\ Inductive'
<1> DEFINE o == OrgOf(c)
<1>i. /\ TypeOK /\ SlugsAreUnique /\ TokenScope /\ RequestsHoldTokens /\ ResolvedAtHome
      /\ DocumentsHaveProjects /\ AloneFindsItsOrigin /\ RemotesStayApart
    BY DEF Inductive
<1>k. /\ request[c] # NoRequest
      /\ request[c].project \in DOMAIN project /\ project[request[c].project].org = o
      /\ ~ overlapped => Finds(o, request[c])
    BY Knows DEF ResolvedIn
<1>1. /\ request' = [d \in Client |-> request'[d]] /\ request'[c] = s
      /\ \A d \in Client : d # c => request'[d] = request[d]
    BY <1>i, OneRequest
<1>2. TypeOK' /\ SlugsAreUnique'
    BY <1>i, <1>1 DEF TypeOK, SlugsAreUnique
<1>3. TokenScope'
    BY <1>i DEF TokenScope, ProjectsOf
<1>4. RequestsHoldTokens'
    BY <1>i, <1>k, <1>1 DEF RequestsHoldTokens
<1>5. \A d \in Client : OrgOf(d)' = OrgOf(d)
    BY DEF OrgOf
<1>6. ResolvedAtHome'
    BY <1>i, <1>k, <1>1, <1>5 DEF ResolvedAtHome, ResolvedIn
<1>7. DocumentsHaveProjects'
    BY <1>i, <1>k DEF DocumentsHaveProjects
<1>8. ASSUME ~ overlapped
      PROVE  \A d \in Client : request'[d].pc \in {"none", "origin"} \/ d = c
    <2>1. \A d \in Client : d # c => request[d] = NoRequest
        BY <1>i, <1>k, <1>8 DEF AloneFindsItsOrigin
    <2> QED
        BY <1>1, <2>1 DEF NoRequest
<1> HIDE DEF o
<1>9. ASSUME ~ overlapped, NEW i \in DOMAIN doc'
      PROVE  /\ /\ s.origin # NoOrigin /\ doc'[i].origin = s.origin
                /\ project[doc'[i].project].org = o
                => doc'[i].project = s.project
             /\ /\ s.origin # NoOrigin /\ doc'[i].origin # NoOrigin
                /\ doc'[i].project = s.project
                => Equivalent(doc'[i].origin, s.origin)
    <2>1. CASE doc'[i].project = s.project /\ doc'[i].origin = s.origin
        BY <2>1 DEF Equivalent
    <2>2. CASE /\ i \in DOMAIN doc /\ doc'[i].project = doc[i].project
               /\ doc'[i].origin = doc[i].origin
        BY <1>k, <1>9, <2>2 DEF Finds, Looking
    <2> QED
        BY <1>9, <2>1, <2>2
<1>10. ASSUME ~ overlapped, NEW d \in Client PROVE Finds(OrgOf(d), request[d])'
    <2>1. CASE request'[d].pc \in {"none", "origin"}
        BY <2>1 DEF Finds, Looking
    <2>2. CASE d = c
        BY <1>1, <1>5, <1>9, <1>10, <2>2 DEF Finds, Looking, o
    <2> QED
        BY <1>8, <1>10, <2>1, <2>2
<1>11. AloneFindsItsOrigin'
    <2>1. ~ overlapped => \A d, e \in Client :
                request'[d] # NoRequest /\ request'[e] # NoRequest => d = e
        BY <1>i, <1>k, <1>1 DEF AloneFindsItsOrigin
    <2> QED
        BY <1>10, <2>1 DEF AloneFindsItsOrigin
<1>12. ASSUME ~ overlapped, NEW i \in DOMAIN doc', NEW j \in DOMAIN doc',
              doc'[i].origin # NoOrigin, doc'[j].origin # NoOrigin
       PROVE  /\ doc'[i].project = doc'[j].project => Equivalent(doc'[i].origin, doc'[j].origin)
              /\ /\ doc'[i].origin = doc'[j].origin
                 /\ project[doc'[i].project].org = project[doc'[j].project].org
                 => doc'[i].project = doc'[j].project
    <2>1. CASE doc'[i].project = s.project /\ doc'[i].origin = s.origin
        BY <1>k, <1>9, <1>12, <2>1 DEF Equivalent
    <2>2. CASE doc'[j].project = s.project /\ doc'[j].origin = s.origin
        BY <1>k, <1>9, <1>12, <2>2 DEF Equivalent
    <2>3. CASE /\ i \in DOMAIN doc /\ doc'[i].project = doc[i].project
               /\ doc'[i].origin = doc[i].origin
               /\ j \in DOMAIN doc /\ doc'[j].project = doc[j].project
               /\ doc'[j].origin = doc[j].origin
        BY <1>i, <1>12, <2>3 DEF RemotesStayApart
    <2> QED
        BY <1>12, <2>1, <2>2, <2>3
<1>13. RemotesStayApart'
    BY <1>12 DEF RemotesStayApart
<1>14. TokensGrow
    BY SameTokens
<1> QED
    BY <1>2, <1>3, <1>4, <1>6, <1>7, <1>11, <1>13, <1>14 DEF Inductive

LEMMA IndexesFile ==
    ASSUME Inductive, NEW c \in Client, IndexFile(c)
    PROVE  TokensGrow /\ Inductive'
<1> DEFINE x == request[c]
           rest == <<[Root(c) EXCEPT !.files = Tail(@)]>> \o Tail(x.roots)
           accepted == x.accepted + 1
           s == [x EXCEPT !.roots = rest, !.accepted = accepted, !.skipped = x.skipped]
           row == [project |-> request[c].project, file |-> File(c),
                   origin |-> request[c].origin, waiting |-> TRUE]
<1>i. TypeOK
    BY DEF Inductive
<1>k. /\ x.pc = "files" /\ x = request[c] /\ IsRequest(x)
    BY Knows DEF IndexFile
<1>s. s = [x EXCEPT !.roots = rest, !.accepted = accepted, !.skipped = x.skipped]
    OBVIOUS
<1>t. /\ UNCHANGED <<project, token, client, overlapped>>
      /\ request' = [request EXCEPT ![c] = s]
      /\ doc' = doc \/ doc' = Put(row)
    BY DEF IndexFile, Step, NextFile
<1>r. IsDoc(row) /\ row.project = request[c].project /\ row.origin = request[c].origin
    BY DEF IsDoc
<1> HIDE DEF x, s, rest, accepted, row
<1>1. /\ IsRequest(s) /\ s.pc = x.pc /\ s.project = x.project /\ s.origin = x.origin
    BY <1>k, <1>s DEF IsRequest
<1>2. /\ doc' \in Seq(Range(doc')) /\ \A i \in DOMAIN doc' : IsDoc(doc'[i])
      /\ \A i \in DOMAIN doc' :
            \/ /\ doc'[i].project = request[c].project
               /\ doc'[i].origin = request[c].origin
            \/ /\ i \in DOMAIN doc
               /\ doc'[i].project = doc[i].project
               /\ doc'[i].origin = doc[i].origin
    <2>1. CASE doc' = doc
        BY <1>i, <2>1 DEF TypeOK
    <2>2. CASE doc' = Put(row)
        BY <1>i, <1>r, <2>2, PutRows
    <2> QED
        BY <1>t, <2>1, <2>2
<1> QED
    BY <1>k, <1>t, <1>1, <1>2, DocumentStep

LEMMA Reviews ==
    ASSUME Inductive, NEW i \in DOMAIN doc, Review(i)
    PROVE  TokensGrow /\ Inductive'
<1> DEFINE d == doc[i]
           e == [d EXCEPT !.waiting = FALSE]
<1>i. TypeOK /\ RequestsHoldTokens /\ AloneFindsItsOrigin
    BY DEF Inductive
<1>d. IsDoc(d) /\ d = doc[i] /\ e = [d EXCEPT !.waiting = FALSE]
    BY <1>i DEF TypeOK
<1>u. /\ doc' = [doc EXCEPT ![i] = e]
      /\ UNCHANGED <<project, token, client, request, overlapped>>
    BY DEF Review
<1> HIDE DEF d, e
<1>1. IsDoc(e) /\ e.project = d.project /\ e.origin = d.origin
    BY <1>d DEF IsDoc
<1>2. /\ doc' \in Seq(Range(doc')) /\ DOMAIN doc' = DOMAIN doc
      /\ doc'[i] = e /\ \A j \in DOMAIN doc : j # i => doc'[j] = doc[j]
    BY <1>i, <1>u, ChangedRow DEF TypeOK
<1>3. TypeOK'
    BY <1>i, <1>u, <1>1, <1>2 DEF TypeOK
<1>4. ProjectsGrow /\ TokensGrow
    BY <1>u, SameProjects, SameTokens
<1>5. SlugsAreUnique' /\ SlugsExist'
    BY <1>4 DEF ProjectsGrow, TokensGrow, SlugsExist
<1>6. RequestsHoldTokens'
    BY <1>i, <1>u DEF RequestsHoldTokens
<1>7. \A c \in Client : request'[c].pc \in {"none", "origin"} \/ request[c] # NoRequest
    BY <1>u DEF NoRequest
<1>8. \A j \in DOMAIN doc : doc'[j].project = doc[j].project /\ doc'[j].origin = doc[j].origin
    BY <1>d, <1>1, <1>2
<1> QED
    BY <1>i, <1>u, <1>2, <1>3, <1>4, <1>5, <1>6, <1>7, <1>8, Frame
       DEF ProjectsGrow, AloneFindsItsOrigin

---------------------------------------------------------------------------
(* The theorems.                                                           *)

LEMMA Initially == Init => Inductive
<1> SUFFICES ASSUME Init PROVE Inductive
    OBVIOUS
<1>1. /\ project = <<>> /\ doc = <<>> /\ token = <<>>
      /\ \A c \in Client : client[c] = IdleClient /\ request[c] = NoRequest
      /\ client = [c \in Client |-> client[c]] /\ request = [c \in Client |-> request[c]]
    BY DEF Init
<1>2. IsClient(IdleClient) /\ IsRequest(NoRequest) /\ NoRequest.pc = "none"
      /\ IdleClient.status = "idle"
    BY DEF IsClient, IsRequest, IdleClient, NoRequest
<1>3. <<>> \in Seq(Range(<<>>)) /\ DOMAIN <<>> = {}
    OBVIOUS
<1>4. TypeOK
    BY <1>1, <1>2, <1>3 DEF TypeOK
<1>5. SlugsAreUnique /\ TokenScope /\ DocumentsHaveProjects /\ RemotesStayApart
    BY <1>1, <1>3 DEF SlugsAreUnique, TokenScope, DocumentsHaveProjects, RemotesStayApart
<1>6. RequestsHoldTokens /\ ResolvedAtHome /\ AloneFindsItsOrigin
    BY <1>1, <1>2, <1>3 DEF RequestsHoldTokens, ResolvedAtHome, ResolvedIn,
        AloneFindsItsOrigin, Finds
<1> QED
    BY <1>4, <1>5, <1>6 DEF Inductive

LEMMA Steps ==
    ASSUME Inductive, [Next]_vars
    PROVE  TokensGrow /\ Inductive'
<1>1. CASE UNCHANGED vars
    BY <1>1, SameProjects, SameTokens, RowsStep DEF vars
<1>2. ASSUME NEW c \in Client,
             \/ \E t \in DOMAIN token, roots \in Workspaces : StartRun(c, t, roots)
             \/ FinishRun(c) \/ Send(c) \/ Refuse(c) \/ FailRequest(c) \/ Answer(c)
      PROVE  TokensGrow /\ Inductive'
    <2>1. UNCHANGED token
        BY <1>2 DEF StartRun, FinishRun, Send, Refuse, FailRequest, Answer
    <2> QED
        BY <1>2, <2>1, LaptopActions, SameTokens
<1> QED
    BY <1>1, <1>2, UserActions, FindsByOrigin, FindsBySlug, ComparesOrigin, NumbersSlug,
       CreatesForAgent, Attaches, SkipsAndEnds, IndexesFile, Reviews DEF Next

\* The inductive invariant holds in every reachable state.
THEOREM LocalIndexInvariance == Spec => []Inductive
<1>1. Inductive /\ [Next]_vars => Inductive'
    BY Steps
<1> QED
    BY <1>1, Initially, PTL DEF Spec

\* create_agent_token, attach_project_slug_to_agent_token: a token names projects
\* of its organization, whatever users and requests do meanwhile.
THEOREM Scoped == Spec => []TokenScope
<1>1. Inductive => TokenScope
    BY DEF Inductive
<1> QED
    BY LocalIndexInvariance, <1>1, PTL

\* attach_project_slug_to_agent_token: no request takes back a grant or a
\* revocation that was made while it ran.
THEOREM Kept == Spec => GrantsAreKept
<1>1. Inductive /\ [Next]_vars =>
        [\A t \in DOMAIN token :
            /\ token[t].slugs \subseteq token'[t].slugs
            /\ token[t].revoked => token'[t].revoked]_vars
    BY Steps DEF TokensGrow
<1> QED
    BY LocalIndexInvariance, <1>1, PTL DEF Spec, GrantsAreKept

\* resolve_or_create_project_slug: one request at a time keeps remotes apart and
\* finds the project of an origin again.
THEOREM Apart == Spec => []RemotesStayApart
<1>1. Inductive => RemotesStayApart
    BY DEF Inductive
<1> QED
    BY LocalIndexInvariance, <1>1, PTL

---------------------------------------------------------------------------
(* Induction and recursion along a sequence.                               *)

\* What holds of 0, and of every i when it holds of i - 1, holds up to n.
LEMMA UpTo ==
    ASSUME NEW n \in Nat, NEW P, 0 \in P, \A i \in 1..n : i - 1 \in P => i \in P
    PROVE  \A i \in 0..n : i \in P
<1> DEFINE bad == {i \in 0..n : i \notin P}
<1>1. CASE bad = {}
    BY <1>1
<1>2. CASE bad # {}
    <2>1. PICK v \in bad : \A w \in bad : v <= w
        <3>1. bad \in SUBSET Nat
            OBVIOUS
        <3> HIDE DEF bad
        <3> QED
            BY <1>2, <3>1, LeastRow
    <2>2. v \in 1..n /\ v \notin P
        BY <2>1
    <2>3. v - 1 \in P
        <3>1. v - 1 \notin bad
            BY <2>1, <2>2
        <3> QED
            BY <2>2, <3>1
    <2> QED
        BY <2>2, <2>3
<1> QED
    BY <1>1, <1>2

\* f runs from base through one step for each of 1..n, within S.
Runs(f, n, S, base, step) ==
    /\ f \in [0..n -> S]
    /\ f[0] = base
    /\ \A i \in 1..n : f[i] = step[i][f[i - 1]]

\* A recursion along 1..n has a solution.
LEMMA Recursion ==
    ASSUME NEW n \in Nat, NEW S, NEW base \in S, NEW step \in [1..n -> [S -> S]]
    PROVE  \E f : Runs(f, n, S, base, step)
<1> DEFINE Solves(f, m) == /\ f \in [0..m -> S]
                           /\ f[0] = base
                           /\ \A i \in 1..m : f[i] = step[i][f[i - 1]]
                      P == {m \in 0..n : \E f : Solves(f, m)}
<1>1. 0 \in P
    <2> DEFINE f == [i \in 0..0 |-> base]
    <2>1. f \in [0..0 -> S] /\ f[0] = base /\ 1..0 = {}
        OBVIOUS
    <2> HIDE DEF f
    <2>2. Solves(f, 0)
        BY <2>1
    <2> QED
        BY <2>2
<1>2. ASSUME NEW m \in 1..n, m - 1 \in P PROVE m \in P
    <2>1. PICK f : Solves(f, m - 1)
        BY <1>2
    <2> DEFINE x == step[m][f[m - 1]]
             g == [i \in 0..m |-> IF i = m THEN x ELSE f[i]]
    <2>2. x \in S
        BY <2>1
    <2> HIDE DEF x
    <2>3. g \in [0..m -> S]
        BY <2>1, <2>2
    <2>4. g[0] = base
        BY <2>1
    <2>5. \A i \in 0..m : i # m => g[i] = f[i]
        OBVIOUS
    <2>6. g[m] = x /\ g[m - 1] = f[m - 1]
        BY <2>5
    <2> HIDE DEF g
    <2>7. ASSUME NEW i \in 1..m PROVE g[i] = step[i][g[i - 1]]
        <3>1. CASE i = m
            BY <2>6, <3>1 DEF x
        <3>2. CASE i # m
            <4>1. g[i] = f[i] /\ g[i - 1] = f[i - 1] /\ i \in 1..(m - 1)
                BY <2>5, <3>2
            <4> QED
                BY <2>1, <4>1
        <3> QED
            BY <3>1, <3>2
    <2>8. Solves(g, m) /\ m \in 0..n
        BY <2>3, <2>4, <2>7
    <2> HIDE DEF Solves
    <2> QED
        BY <2>8
<1> HIDE DEF P
<1>3. \A m \in 1..n : m - 1 \in P => m \in P
    BY <1>2
<1>4. \A m \in 0..n : m \in P
    BY <1>1, <1>3, UpTo
<1>5. n \in P
    BY <1>4
<1> QED
    BY <1>5 DEF P, Runs

---------------------------------------------------------------------------
(* Sequences of sequences.                                                 *)

\* A function on 1..n is a sequence.
LEMMA Listed ==
    ASSUME NEW S, NEW n \in Nat, NEW f \in [1..n -> S]
    PROVE  f \in Seq(S) /\ Len(f) = n
OBVIOUS

\* f concatenates the elements of s one after the other.
InitialSegments(f, s, S) ==
    /\ f \in [0..Len(s) -> Seq(S)]
    /\ f[0] = <<>>
    /\ \A i \in 1..Len(s) : f[i] = f[i - 1] \o s[i]

\* FlattenSeq is where the concatenation ends.
Concatenates(f, s, S) == InitialSegments(f, s, S) /\ FlattenSeq(s) = f[Len(s)]

LEMMA Flattens ==
    ASSUME NEW S, NEW s \in Seq(Seq(S))
    PROVE  \E f : Concatenates(f, s, S)
<1> DEFINE n == Len(s)
           step == [i \in 1..n |-> [x \in Seq(S) |-> x \o s[i]]]
<1>1. /\ n \in Nat /\ \A i \in 1..n : s[i] \in Seq(S)
      /\ <<>> \in Seq(S)
    OBVIOUS
<1>2. step \in [1..n -> [Seq(S) -> Seq(S)]]
    <2>1. ASSUME NEW i \in 1..n, NEW x \in Seq(S) PROVE x \o s[i] \in Seq(S)
        BY <1>1, ConcatProperties
    <2> QED
        BY <2>1
<1>3. \A i \in 1..n : \A x \in Seq(S) : step[i][x] = x \o s[i]
    OBVIOUS
<1> HIDE DEF step
<1>4. PICK f : Runs(f, n, Seq(S), <<>>, step)
    BY <1>1, <1>2, Recursion
<1>5. /\ f \in [0..n -> Seq(S)] /\ f[0] = <<>>
      /\ \A i \in 1..n : f[i] = f[i - 1] \o s[i]
    <2>1. /\ f \in [0..n -> Seq(S)] /\ f[0] = <<>>
          /\ \A i \in 1..n : f[i] = step[i][f[i - 1]]
        BY <1>4 DEF Runs
    <2>2. \A i \in 1..n : i - 1 \in 0..n
        BY <1>1
    <2> QED
        BY <1>3, <2>1, <2>2
<1>6. InitialSegments(f, s, S)
    BY <1>5 DEF InitialSegments
<1>9. ASSUME NEW i \in 1..n, i = 1 PROVE f[i] = s[i]
    <2>1. f[i] = f[i - 1] \o s[i]
        BY <1>5
    <2>2. f[i] = <<>> \o s[i]
        <3>1. i - 1 = 0
            BY <1>9
        <3> QED
            BY <1>5, <2>1, <3>1
    <2> QED
        BY <1>1, <2>2, ConcatEmptySeq
<1>7. CASE n = 0
    <2>1. s = <<>>
        BY <1>7
    <2>2. FlattenSeq(s) = s
        BY <1>7 DEF FlattenSeq
    <2> QED
        BY <1>5, <1>6, <1>7, <2>1, <2>2 DEF Concatenates
<1>8. CASE n # 0
    <2> DEFINE Eq(g) == g = [i \in 1..n |-> IF i = 1 THEN s[i] ELSE g[i - 1] \o s[i]]
               h == CHOOSE g : Eq(g)
               k == [i \in 1..n |-> f[i]]
    <2>1. FlattenSeq(s) = h[n]
        BY <1>8 DEF FlattenSeq
    <2>2. Eq(k)
        <3>1. ASSUME NEW i \in 1..n
              PROVE  f[i] = IF i = 1 THEN s[i] ELSE k[i - 1] \o s[i]
            <4>1. CASE i = 1
                BY <1>9, <4>1
            <4>2. CASE i # 1
                <5>1. f[i] = f[i - 1] \o s[i]
                    BY <1>5
                <5>2. i - 1 \in 1..n
                    BY <1>1, <4>2
                <5> QED
                    BY <4>2, <5>1, <5>2
            <4> QED
                BY <4>1, <4>2
        <3> QED
            BY <3>1
    <2>3. Eq(h)
        BY <2>2
    <2> HIDE DEF h, k
    <2>4. \A i \in 1..n : h[i] = IF i = 1 THEN s[i] ELSE h[i - 1] \o s[i]
        BY <2>3
    <2> DEFINE P == {i \in 0..n : i = 0 \/ h[i] = f[i]}
    <2>5. 0 \in P
        BY <1>1
    <2>6. ASSUME NEW i \in 1..n, i - 1 \in P PROVE i \in P
        <3>1. CASE i = 1
            BY <1>9, <2>4, <3>1
        <3>2. CASE i # 1
            <4>1. h[i] = h[i - 1] \o s[i] /\ f[i] = f[i - 1] \o s[i]
                BY <1>5, <2>4, <3>2
            <4>2. h[i - 1] = f[i - 1]
                BY <2>6, <3>2
            <4>3. h[i] = f[i]
                BY <4>1, <4>2
            <4> QED
                BY <4>3
        <3> QED
            BY <3>1, <3>2
    <2> HIDE DEF P
    <2>7. \A i \in 0..n : i \in P
        BY <1>1, <2>5, <2>6, UpTo
    <2>8. h[n] = f[n]
        BY <1>1, <1>8, <2>7 DEF P
    <2> QED
        BY <1>6, <2>1, <2>8 DEF Concatenates
<1> QED
    BY <1>7, <1>8

LEMMA FlattenIsSeq ==
    ASSUME NEW S, NEW s \in Seq(Seq(S))
    PROVE  /\ FlattenSeq(s) \in Seq(S)
           /\ s = <<>> => FlattenSeq(s) = <<>>
<1>1. PICK f : Concatenates(f, s, S)
    BY Flattens
<1>2. Len(s) \in Nat /\ (s = <<>> => Len(s) = 0)
    OBVIOUS
<1> QED
    BY <1>1, <1>2 DEF Concatenates, InitialSegments

LEMMA FlattenOne ==
    ASSUME NEW S, NEW x \in Seq(S)
    PROVE  FlattenSeq(<<x>>) = x
<1> DEFINE s == <<x>>
<1>1. s \in Seq(Seq(S)) /\ Len(s) = 1 /\ s[1] = x
    OBVIOUS
<1> HIDE DEF s
<1>2. PICK f : Concatenates(f, s, S)
    BY <1>1, Flattens
<1>3. FlattenSeq(s) = <<>> \o x
    BY <1>1, <1>2 DEF Concatenates, InitialSegments
<1> QED
    BY <1>3, ConcatEmptySeq DEF s

LEMMA FlattenConcat ==
    ASSUME NEW S, NEW s \in Seq(Seq(S)), NEW t \in Seq(Seq(S))
    PROVE  FlattenSeq(s \o t) = FlattenSeq(s) \o FlattenSeq(t)
<1> DEFINE st == s \o t
           m == Len(s)
           n == Len(t)
<1>1. m \in Nat /\ n \in Nat
    OBVIOUS
<1>2. /\ st \in Seq(Seq(S)) /\ Len(st) = m + n
      /\ \A i \in 1..m + n : st[i] = IF i <= m THEN s[i] ELSE t[i - m]
    BY ConcatProperties
<1> HIDE DEF st
<1>3. PICK f : Concatenates(f, s, S)
    BY Flattens
<1>4. PICK g : Concatenates(g, t, S)
    BY Flattens
<1>5. PICK h : Concatenates(h, st, S)
    BY <1>2, Flattens
<1>f. /\ f \in [0..m -> Seq(S)] /\ f[0] = <<>> /\ FlattenSeq(s) = f[m]
      /\ \A i \in 1..m : f[i] = f[i - 1] \o s[i]
    BY <1>3 DEF Concatenates, InitialSegments
<1>g. /\ g \in [0..n -> Seq(S)] /\ g[0] = <<>> /\ FlattenSeq(t) = g[n]
      /\ \A i \in 1..n : g[i] = g[i - 1] \o t[i]
    BY <1>4 DEF Concatenates, InitialSegments
<1>h. /\ h[0] = <<>> /\ FlattenSeq(st) = h[m + n]
      /\ \A i \in 1..m + n : h[i] = h[i - 1] \o st[i]
    BY <1>2, <1>5 DEF Concatenates, InitialSegments
<1>6. f[m] \in Seq(S)
    BY <1>1, <1>f
<1> DEFINE P == {i \in 0..m : h[i] = f[i]}
           Q == {i \in 0..n : h[m + i] = f[m] \o g[i]}
<1>7. \A i \in 1..n : t[i] \in Seq(S)
    OBVIOUS
<1> HIDE DEF m, n
<1>8. 0 \in P
    BY <1>1, <1>f, <1>h
<1>9. ASSUME NEW i \in 1..m, i - 1 \in P PROVE i \in P
    <2>1. i \in 1..m + n /\ i \in 0..m
        BY <1>1
    <2>2. h[i] = h[i - 1] \o s[i] /\ f[i] = f[i - 1] \o s[i]
        <3>1. h[i] = h[i - 1] \o st[i] /\ st[i] = s[i]
            BY <1>2, <1>h, <2>1
        <3> QED
            BY <1>f, <3>1
    <2> QED
        BY <1>9, <2>1, <2>2
<1>10. h[m] = f[m]
    <2> HIDE DEF P
    <2>1. \A i \in 0..m : i \in P
        BY <1>1, <1>8, <1>9, UpTo
    <2> QED
        BY <1>1, <2>1 DEF P
<1>11. 0 \in Q
    <2>1. f[m] \o <<>> = f[m]
        BY <1>6, ConcatEmptySeq
    <2>2. m + 0 = m /\ 0 \in 0..n
        BY <1>1
    <2> QED
        BY <1>g, <1>10, <2>1, <2>2
<1>12. ASSUME NEW i \in 1..n, i - 1 \in Q PROVE i \in Q
    <2>1. /\ m + i \in 1..m + n /\ i \in 0..n /\ i - 1 \in 0..n
          /\ (m + i) - 1 = m + (i - 1) /\ ~ (m + i <= m) /\ (m + i) - m = i
        BY <1>1
    <2>2. h[m + i] = h[m + (i - 1)] \o t[i] /\ g[i] = g[i - 1] \o t[i]
        <3>1. h[m + i] = h[(m + i) - 1] \o st[m + i] /\ st[m + i] = t[i]
            BY <1>2, <1>h, <2>1
        <3> QED
            BY <1>g, <2>1, <3>1
    <2>3. h[m + (i - 1)] = f[m] \o g[i - 1]
        BY <1>12
    <2>4. f[m] \in Seq(S) /\ g[i - 1] \in Seq(S) /\ t[i] \in Seq(S)
        BY <1>6, <1>7, <1>g, <2>1
    <2>5. (f[m] \o g[i - 1]) \o t[i] = f[m] \o (g[i - 1] \o t[i])
        <3> HIDE DEF P, Q
        <3>1. \A u, v, w \in Seq(S) : (u \o v) \o w = u \o (v \o w)
            BY ConcatAssociative
        <3> QED
            BY <2>4, <3>1
    <2> QED
        BY <2>1, <2>2, <2>3, <2>5
<1>13. h[m + n] = f[m] \o g[n]
    <2> HIDE DEF Q
    <2>1. \A i \in 0..n : i \in Q
        BY <1>1, <1>11, <1>12, UpTo
    <2> QED
        <3>1. n \in Q
            BY <1>1, <2>1
        <3> QED
            BY <3>1 DEF Q
<1> QED
    BY <1>f, <1>g, <1>h, <1>13 DEF st

---------------------------------------------------------------------------
(* Files, pieces and batches.                                              *)

\* The files of batches still to be sent, and what is stored in some project.
Batches == Seq(Seq(PlannedRoot) \ {<<>>})
AllFiles(todo) == FlattenSeq([i \in DOMAIN todo |-> FilesIn(todo[i])])

LEMMA OneBatch ==
    ASSUME NEW b \in Seq(PlannedRoot)
    PROVE  /\ [i \in DOMAIN b |-> b[i].files] \in Seq(Seq(LocalFile))
           /\ Len([i \in DOMAIN b |-> b[i].files]) = Len(b)
           /\ FilesIn(b) \in Seq(LocalFile)
           /\ b = <<>> => FilesIn(b) = <<>>
<1> DEFINE t == [i \in DOMAIN b |-> b[i].files]
<1>1. /\ Len(b) \in Nat /\ DOMAIN b = 1..Len(b)
      /\ \A i \in 1..Len(b) : b[i] \in PlannedRoot
    OBVIOUS
<1>2. \A r \in PlannedRoot : r.files \in Seq(LocalFile)
    BY DEF PlannedRoot
<1>3. t \in [1..Len(b) -> Seq(LocalFile)]
    BY <1>1, <1>2
<1> HIDE DEF t
<1>4. t \in Seq(Seq(LocalFile)) /\ Len(t) = Len(b) /\ (b = <<>> => t = <<>>)
    BY <1>1, <1>3
<1>5. FlattenSeq(t) \in Seq(LocalFile) /\ (t = <<>> => FlattenSeq(t) = <<>>)
    BY <1>4, FlattenIsSeq
<1> QED
    BY <1>4, <1>5 DEF t, FilesIn

LEMMA TwoBatches ==
    ASSUME NEW a \in Seq(PlannedRoot), NEW b \in Seq(PlannedRoot)
    PROVE  FilesIn(a \o b) = FilesIn(a) \o FilesIn(b)
<1> DEFINE ab == a \o b
           ta == [i \in DOMAIN a |-> a[i].files]
           tb == [i \in DOMAIN b |-> b[i].files]
           tab == [i \in DOMAIN ab |-> ab[i].files]
<1>1. /\ ab \in Seq(PlannedRoot) /\ Len(ab) = Len(a) + Len(b)
      /\ \A i \in 1..Len(a) + Len(b) :
            ab[i] = IF i <= Len(a) THEN a[i] ELSE b[i - Len(a)]
      /\ Len(a) \in Nat /\ Len(b) \in Nat
    BY ConcatProperties
<1>2. /\ ta \in Seq(Seq(LocalFile)) /\ Len(ta) = Len(a)
      /\ tb \in Seq(Seq(LocalFile)) /\ Len(tb) = Len(b)
      /\ tab \in Seq(Seq(LocalFile)) /\ Len(tab) = Len(a) + Len(b)
    BY <1>1, OneBatch
<1>3. /\ \A i \in 1..Len(a) : ta[i] = a[i].files
      /\ \A i \in 1..Len(b) : tb[i] = b[i].files
      /\ \A i \in 1..Len(a) + Len(b) : tab[i] = ab[i].files
    BY <1>1
<1>4. FilesIn(a) = FlattenSeq(ta) /\ FilesIn(b) = FlattenSeq(tb)
      /\ FilesIn(ab) = FlattenSeq(tab)
    BY DEF FilesIn
<1> HIDE DEF ab, ta, tb, tab
<1>5. /\ ta \o tb \in Seq(Seq(LocalFile)) /\ Len(ta \o tb) = Len(a) + Len(b)
      /\ \A i \in 1..Len(a) + Len(b) :
            (ta \o tb)[i] = IF i <= Len(a) THEN ta[i] ELSE tb[i - Len(a)]
    <2>1. /\ ta \o tb \in Seq(Seq(LocalFile)) /\ Len(ta \o tb) = Len(ta) + Len(tb)
          /\ \A i \in 1..Len(ta) + Len(tb) :
                (ta \o tb)[i] = IF i <= Len(ta) THEN ta[i] ELSE tb[i - Len(ta)]
        <3>1. ta \in Seq(Seq(LocalFile)) /\ tb \in Seq(Seq(LocalFile))
            BY <1>2
        <3> QED
            BY <3>1, ConcatProperties
    <2>2. Len(ta) = Len(a) /\ Len(tb) = Len(b)
        BY <1>2
    <2> QED
        BY <2>1, <2>2
<1>6. ASSUME NEW i \in 1..Len(a) + Len(b) PROVE (ta \o tb)[i] = tab[i]
    <2>1. CASE i <= Len(a)
        <3>1. i \in 1..Len(a)
            BY <1>1, <2>1
        <3> QED
            BY <1>1, <1>3, <1>5, <2>1, <3>1
    <2>2. CASE ~ (i <= Len(a))
        <3>1. i - Len(a) \in 1..Len(b)
            BY <1>1, <2>2
        <3> QED
            BY <1>1, <1>3, <1>5, <2>2, <3>1
    <2> QED
        BY <2>1, <2>2
<1>7. tab = ta \o tb
    BY <1>2, <1>5, <1>6, SeqEqual
<1>8. FlattenSeq(ta \o tb) = FlattenSeq(ta) \o FlattenSeq(tb)
    BY <1>2, FlattenConcat
<1> QED
    BY <1>4, <1>7, <1>8 DEF ab

LEMMA FirstAndRest ==
    ASSUME NEW S, NEW s \in Seq(S), s # <<>>
    PROVE  /\ Head(s) \in S /\ Tail(s) \in Seq(S) /\ <<Head(s)>> \in Seq(S)
           /\ s = <<Head(s)>> \o Tail(s)
OBVIOUS

\* The files of the first root, then those of the others.
LEMMA FirstRoot ==
    ASSUME NEW b \in Seq(PlannedRoot), b # <<>>
    PROVE  FilesIn(b) = Head(b).files \o FilesIn(Tail(b))
<1>1. /\ Head(b) \in PlannedRoot /\ Tail(b) \in Seq(PlannedRoot)
      /\ <<Head(b)>> \in Seq(PlannedRoot) /\ b = <<Head(b)>> \o Tail(b)
    BY FirstAndRest
<1>2. FilesIn(b) = FilesIn(<<Head(b)>>) \o FilesIn(Tail(b))
    BY <1>1, TwoBatches
<1> DEFINE h == Head(b)
<1>3. [i \in DOMAIN <<h>> |-> <<h>>[i].files] = <<h.files>>
    OBVIOUS
<1>4. h.files \in Seq(LocalFile)
    BY <1>1 DEF PlannedRoot
<1>5. FilesIn(<<h>>) = h.files
    BY <1>3, <1>4, FlattenOne DEF FilesIn
<1> QED
    BY <1>2, <1>5

\* The files of batches are those of their roots.
LEMMA AllTheirRoots ==
    ASSUME NEW bs \in Seq(Seq(PlannedRoot))
    PROVE  /\ AllFiles(bs) \in Seq(LocalFile)
           /\ bs = <<>> => AllFiles(bs) = <<>>
           /\ FlattenSeq(bs) \in Seq(PlannedRoot)
           /\ AllFiles(bs) = FilesIn(FlattenSeq(bs))
<1> DEFINE n == Len(bs)
           t == [i \in DOMAIN bs |-> FilesIn(bs[i])]
<1>1. n \in Nat /\ DOMAIN bs = 1..n /\ \A i \in 1..n : bs[i] \in Seq(PlannedRoot)
    OBVIOUS
<1>2. t \in [1..n -> Seq(LocalFile)] /\ \A i \in 1..n : t[i] = FilesIn(bs[i])
    BY <1>1, OneBatch
<1>3. AllFiles(bs) = FlattenSeq(t)
    BY DEF AllFiles
<1> HIDE DEF t
<1>4. t \in Seq(Seq(LocalFile)) /\ Len(t) = n /\ (bs = <<>> => t = <<>>)
    <2>1. t \in Seq(Seq(LocalFile)) /\ Len(t) = n
        BY <1>1, <1>2, Listed
    <2>2. bs = <<>> => n = 0
        OBVIOUS
    <2> QED
        BY <2>1, <2>2
<1>5. PICK f : Concatenates(f, bs, PlannedRoot)
    BY Flattens
<1>6. PICK g : Concatenates(g, t, LocalFile)
    BY <1>4, Flattens
<1>f. /\ f \in [0..n -> Seq(PlannedRoot)] /\ f[0] = <<>> /\ FlattenSeq(bs) = f[n]
      /\ \A i \in 1..n : f[i] = f[i - 1] \o bs[i]
    BY <1>5 DEF Concatenates, InitialSegments
<1>g. /\ g \in [0..n -> Seq(LocalFile)] /\ g[0] = <<>> /\ FlattenSeq(t) = g[n]
      /\ \A i \in 1..n : g[i] = g[i - 1] \o t[i]
    BY <1>4, <1>6 DEF Concatenates, InitialSegments
<1> HIDE DEF n
<1> DEFINE P == {i \in 0..n : FilesIn(f[i]) = g[i]}
<1>7. 0 \in P
    <2>1. FilesIn(<<>>) = <<>>
        <3>1. <<>> \in Seq(PlannedRoot)
            OBVIOUS
        <3> QED
            BY <3>1, OneBatch
    <2> QED
        BY <1>1, <1>f, <1>g, <2>1
<1>8. ASSUME NEW i \in 1..n, i - 1 \in P PROVE i \in P
    <2>1. i - 1 \in 0..n /\ i \in 0..n
        BY <1>1
    <2>2. f[i - 1] \in Seq(PlannedRoot) /\ bs[i] \in Seq(PlannedRoot)
        BY <1>1, <1>f, <2>1
    <2>3. FilesIn(f[i - 1] \o bs[i]) = FilesIn(f[i - 1]) \o FilesIn(bs[i])
        BY <2>2, TwoBatches
    <2>4. f[i] = f[i - 1] \o bs[i] /\ g[i] = g[i - 1] \o FilesIn(bs[i])
        BY <1>2, <1>f, <1>g
    <2>5. FilesIn(f[i - 1]) = g[i - 1]
        BY <1>8
    <2> QED
        BY <2>1, <2>3, <2>4, <2>5
<1>9. FilesIn(f[n]) = g[n] /\ f[n] \in Seq(PlannedRoot) /\ g[n] \in Seq(LocalFile)
    <2> HIDE DEF P
    <2>1. \A i \in 0..n : i \in P
        BY <1>1, <1>7, <1>8, UpTo
    <2>2. n \in P
        BY <1>1, <2>1
    <2> QED
        BY <1>1, <1>f, <1>g, <2>2 DEF P
<1>10. t = <<>> => FlattenSeq(t) = <<>>
    BY <1>4, FlattenIsSeq
<1> QED
    BY <1>3, <1>4, <1>9, <1>10, <1>f, <1>g

\* The files of the first batch, then those of the others.
LEMMA FirstBatch ==
    ASSUME NEW bs \in Seq(Seq(PlannedRoot)), bs # <<>>
    PROVE  AllFiles(bs) = FilesIn(Head(bs)) \o AllFiles(Tail(bs))
<1>1. /\ Head(bs) \in Seq(PlannedRoot) /\ Tail(bs) \in Seq(Seq(PlannedRoot))
      /\ <<Head(bs)>> \in Seq(Seq(PlannedRoot)) /\ bs = <<Head(bs)>> \o Tail(bs)
    BY FirstAndRest
<1>2. FlattenSeq(bs) = FlattenSeq(<<Head(bs)>>) \o FlattenSeq(Tail(bs))
    BY <1>1, FlattenConcat
<1>3. FlattenSeq(<<Head(bs)>>) = Head(bs)
    BY <1>1, FlattenOne
<1>4. /\ AllFiles(bs) = FilesIn(FlattenSeq(bs))
      /\ AllFiles(Tail(bs)) = FilesIn(FlattenSeq(Tail(bs)))
      /\ FlattenSeq(Tail(bs)) \in Seq(PlannedRoot)
    BY <1>1, AllTheirRoots
<1> QED
    BY <1>1, <1>2, <1>3, <1>4, TwoBatches

---------------------------------------------------------------------------
(* Packing loses nothing.                                                  *)

\* Packs of items, none of them empty.
Packs(S) == Seq(Seq(S) \ {<<>>})

LEMMA PacksAreSeqs ==
    ASSUME NEW S, NEW p \in Packs(S)
    PROVE  p \in Seq(Seq(S)) /\ FlattenSeq(p) \in Seq(S)
<1>1. p \in Seq(Seq(S))
    <2>1. p \in [1..Len(p) -> Seq(S)] /\ Len(p) \in Nat
        BY DEF Packs
    <2> QED
        BY <2>1, Listed
<1> QED
    BY <1>1, FlattenIsSeq

LEMMA PlacedKeeps ==
    ASSUME NEW S, NEW p \in Packs(S), NEW x \in S, NEW fits
    PROVE  /\ Placed(p, x, fits) \in Packs(S)
           /\ FlattenSeq(Placed(p, x, fits)) = FlattenSeq(p) \o <<x>>
<1> DEFINE N == Seq(S) \ {<<>>}
<1>1. /\ p \in Seq(Seq(S)) /\ FlattenSeq(p) \in Seq(S) /\ p \in Seq(N)
      /\ <<x>> \in N /\ <<x>> \in Seq(S)
    <2>1. p \in Seq(Seq(S)) /\ FlattenSeq(p) \in Seq(S)
        BY PacksAreSeqs
    <2>2. p \in Seq(N)
        BY DEF Packs
    <2>3. <<x>> \in Seq(S) /\ <<x>> # <<>>
        OBVIOUS
    <2> QED
        BY <2>1, <2>2, <2>3
<1>2. ASSUME NEW q \in Seq(N), NEW y \in N
      PROVE  /\ q \in Seq(Seq(S)) /\ y \in Seq(S) /\ FlattenSeq(q) \in Seq(S)
             /\ Append(q, y) \in Seq(N)
             /\ FlattenSeq(Append(q, y)) = FlattenSeq(q) \o y
    <2>1. q \in Seq(Seq(S)) /\ FlattenSeq(q) \in Seq(S)
        BY PacksAreSeqs DEF Packs
    <2>2. y \in Seq(S) /\ <<y>> \in Seq(Seq(S))
        OBVIOUS
    <2>3. Append(q, y) = q \o <<y>>
        BY <2>1, <2>2, AppendIsConcat
    <2>4. FlattenSeq(q \o <<y>>) = FlattenSeq(q) \o FlattenSeq(<<y>>)
        BY <2>1, <2>2, FlattenConcat
    <2>5. FlattenSeq(<<y>>) = y
        BY <2>2, FlattenOne
    <2>6. Append(q, y) \in Seq(N)
        BY AppendProperties
    <2> QED
        BY <2>1, <2>2, <2>3, <2>4, <2>5, <2>6
<1>3. CASE Placed(p, x, fits) = Append(p, <<x>>)
    BY <1>1, <1>2, <1>3 DEF Packs
<1>4. CASE p # <<>> /\ Placed(p, x, fits) = Append(Front(p), Append(Last(p), x))
    <2>1. PICK q \in Seq(N), y \in N : p = Append(q, y)
        BY <1>1, <1>4, SequenceEmptyOrAppend
    <2> HIDE DEF N
    <2>2. Len(q) \in Nat /\ Len(p) = Len(q) + 1 /\ p[Len(p)] = y
        BY <2>1
    <2>3. SubSeq(p, 1, Len(p) - 1) = q
        <3>1. Len(p) - 1 = Len(q)
            BY <2>2
        <3>2. SubSeq(p, 1, Len(q)) = q
            BY <2>1
        <3> QED
            BY <3>1, <3>2
    <2>4. Front(p) = q /\ Last(p) = y
        BY <2>2, <2>3 DEF Front, Last
    <2>5. y \in Seq(S) /\ Append(y, x) = y \o <<x>> /\ Append(y, x) \in N
        BY <2>1, AppendIsConcat DEF N
    <2>6. /\ Append(q, Append(y, x)) \in Seq(N)
          /\ FlattenSeq(Append(q, Append(y, x))) = FlattenSeq(q) \o (y \o <<x>>)
          /\ FlattenSeq(p) = FlattenSeq(q) \o y /\ FlattenSeq(q) \in Seq(S)
        BY <1>2, <2>1, <2>5
    <2>7. (FlattenSeq(q) \o y) \o <<x>> = FlattenSeq(q) \o (y \o <<x>>)
        BY <1>1, <2>5, <2>6, ConcatAssociative
    <2> QED
        BY <1>4, <2>4, <2>6, <2>7 DEF Packs, N
<1> QED
    BY <1>3, <1>4 DEF Placed

\* Whatever fits, packs that items were placed in one after the other hold
\* them all, in their order.
LEMMA Packing ==
    ASSUME NEW S, NEW s \in Seq(S), NEW h, h[0] = <<>>,
           \A i \in 1..Len(s) : \E fits : h[i] = Placed(h[i - 1], s[i], fits)
    PROVE  h[Len(s)] \in Packs(S) /\ FlattenSeq(h[Len(s)]) = s
<1> DEFINE n == Len(s)
           P == {i \in 0..n : h[i] \in Packs(S) /\ FlattenSeq(h[i]) = SubSeq(s, 1, i)}
<1>1. n \in Nat /\ \A i \in 1..n : s[i] \in S
    OBVIOUS
<1>2. 0 \in P
    <2>1. <<>> \in Packs(S) /\ <<>> \in Seq(Seq(S)) /\ SubSeq(s, 1, 0) = <<>>
        BY SubSeqEmpty DEF Packs
    <2>2. FlattenSeq(<<>>) = <<>>
        BY <2>1, FlattenIsSeq
    <2>3. 0 \in 0..n
        BY <1>1
    <2>4. h[0] \in Packs(S) /\ FlattenSeq(h[0]) = SubSeq(s, 1, 0)
        BY <2>1, <2>2
    <2> QED
        BY <2>3, <2>4
<1>3. ASSUME NEW i \in 1..n, i - 1 \in P PROVE i \in P
    <2>1. PICK fits : h[i] = Placed(h[i - 1], s[i], fits)
        OBVIOUS
    <2>2. h[i - 1] \in Packs(S) /\ FlattenSeq(h[i - 1]) = SubSeq(s, 1, i - 1)
        BY <1>3
    <2>3. h[i] \in Packs(S) /\ FlattenSeq(h[i]) = SubSeq(s, 1, i - 1) \o <<s[i]>>
        <3>1. \A q \in Packs(S), x \in S :
                /\ Placed(q, x, fits) \in Packs(S)
                /\ FlattenSeq(Placed(q, x, fits)) = FlattenSeq(q) \o <<x>>
            BY PlacedKeeps
        <3>2. s[i] \in S
            BY <1>1
        <3> QED
            BY <2>1, <2>2, <3>1, <3>2
    <2>4. 1 \in 1..Len(s) /\ i \in 1..Len(s)
        BY <1>1
    <2>5. SubSeq(s, 1, i) = SubSeq(s, 1, i - 1) \o <<s[i]>>
        BY <2>4, SubSeqRecursiveSecond
    <2> QED
        BY <1>1, <2>3, <2>5
<1> HIDE DEF P
<1>4. \A i \in 0..n : i \in P
    BY <1>1, <1>2, <1>3, UpTo
<1>5. n \in P
    BY <1>1, <1>4
<1>6. SubSeq(s, 1, n) = s
    BY SubSeqFull
<1> QED
    BY <1>5, <1>6 DEF P

LEMMA PiecesHold ==
    ASSUME NEW plan \in PlannedRoot
    PROVE  Pieces(plan) \in Seq(PlannedRoot) /\ FilesIn(Pieces(plan)) = plan.files
<1> DEFINE s == plan.files
           n == Len(s)
           Small(chunk, f) == /\ Len(chunk) < MaxFiles
                              /\ Bytes(chunk) + f.size <= MaxBytes
           Eq(g) == g = [i \in 0..n |-> IF i = 0 THEN <<>>
                                        ELSE Placed(g[i - 1], s[i], Small(Last(g[i - 1]), s[i]))]
           h == CHOOSE g : Eq(g)
           step == [i \in 1..n |-> [p \in Packs(LocalFile) |->
                                        Placed(p, s[i], Small(Last(p), s[i]))]]
<1>1. s \in Seq(LocalFile) /\ n \in Nat /\ \A i \in 1..n : s[i] \in LocalFile
    BY DEF PlannedRoot
<1>2. Pieces(plan) = [i \in DOMAIN h[n] |-> [plan EXCEPT !.files = h[n][i]]]
    BY DEF Pieces, Pack
<1> HIDE DEF Small, s
<1>3. step \in [1..n -> [Packs(LocalFile) -> Packs(LocalFile)]]
    <2>1. ASSUME NEW i \in 1..n, NEW p \in Packs(LocalFile)
          PROVE  Placed(p, s[i], Small(Last(p), s[i])) \in Packs(LocalFile)
        BY <1>1, PlacedKeeps
    <2> QED
        BY <2>1
<1>4. <<>> \in Packs(LocalFile)
    BY DEF Packs
<1>5. \A i \in 1..n : \A p \in Packs(LocalFile) :
        step[i][p] = Placed(p, s[i], Small(Last(p), s[i]))
    OBVIOUS
<1> HIDE DEF step
<1>6. PICK f : Runs(f, n, Packs(LocalFile), <<>>, step)
    BY <1>1, <1>3, <1>4, Recursion
<1>7. /\ f \in [0..n -> Packs(LocalFile)] /\ f[0] = <<>>
      /\ \A i \in 1..n : f[i] = step[i][f[i - 1]]
    BY <1>6 DEF Runs
<1>8. Eq(f)
    <2>1. ASSUME NEW i \in 0..n, i # 0
          PROVE  f[i] = Placed(f[i - 1], s[i], Small(Last(f[i - 1]), s[i]))
        <3>1. i \in 1..n /\ i - 1 \in 0..n
            BY <1>1, <2>1
        <3>2. f[i] = step[i][f[i - 1]] /\ f[i - 1] \in Packs(LocalFile)
            BY <1>7, <3>1
        <3> QED
            BY <1>5, <3>1, <3>2
    <2>2. f = [i \in 0..n |-> f[i]]
        BY <1>7
    <2> QED
        BY <1>7, <2>1, <2>2
<1>9. Eq(h)
    BY <1>8
<1> HIDE DEF h
<1>10. h[0] = <<>>
    BY <1>1, <1>9
<1>11. \A i \in 1..n : h[i] = Placed(h[i - 1], s[i], Small(Last(h[i - 1]), s[i]))
    BY <1>1, <1>9
<1> HIDE DEF Eq
<1>12. h[n] \in Packs(LocalFile) /\ FlattenSeq(h[n]) = s
    BY <1>1, <1>10, <1>11, Packing
<1> DEFINE m == Len(h[n])
           t == [i \in 1..m |-> [plan EXCEPT !.files = h[n][i]]]
<1>13. /\ h[n] \in Seq(Seq(LocalFile)) /\ m \in Nat /\ DOMAIN h[n] = 1..m
       /\ \A i \in 1..m : h[n][i] \in Seq(LocalFile)
    <2>1. h[n] \in Seq(Seq(LocalFile))
        BY <1>12, PacksAreSeqs
    <2> QED
        BY <2>1
<1>14. \A u \in Seq(LocalFile) : /\ [plan EXCEPT !.files = u] \in PlannedRoot
                                 /\ [plan EXCEPT !.files = u].files = u
    BY DEF PlannedRoot
<1>15. Pieces(plan) = t
    BY <1>2, <1>13
<1>16. t \in [1..m -> PlannedRoot] /\ \A i \in 1..m : t[i].files = h[n][i]
    BY <1>13, <1>14
<1> HIDE DEF t
<1>17. t \in Seq(PlannedRoot) /\ DOMAIN t = 1..m
    BY <1>13, <1>16, Listed
<1>18. [i \in DOMAIN t |-> t[i].files] = h[n]
    <2>1. h[n] = [i \in 1..m |-> h[n][i]]
        BY <1>13
    <2> QED
        BY <1>16, <1>17, <2>1
<1>19. FilesIn(t) = s
    BY <1>12, <1>18 DEF FilesIn
<1> QED
    BY <1>15, <1>17, <1>19 DEF s

\* The batches of an upload hold every planned file once, in order.
LEMMA BatchesHold ==
    ASSUME NEW roots \in Seq(PlannedRoot)
    PROVE  /\ BuildBatches(roots) \in Packs(PlannedRoot)
           /\ AllFiles(BuildBatches(roots)) = FilesIn(roots)
<1> DEFINE pieces == [i \in DOMAIN roots |-> Pieces(roots[i])]
           s == FlattenSeq(pieces)
           n == Len(s)
           Eq(g) == g = [i \in 0..n |-> IF i = 0 THEN <<>>
                                        ELSE Placed(g[i - 1], s[i], Fits(Last(g[i - 1]), s[i]))]
           h == CHOOSE g : Eq(g)
           step == [i \in 1..n |-> [p \in Packs(PlannedRoot) |->
                                        Placed(p, s[i], Fits(Last(p), s[i]))]]
<1>1. BuildBatches(roots) = h[n]
    BY DEF BuildBatches, Pack
<1>2. /\ Len(roots) \in Nat /\ DOMAIN roots = 1..Len(roots)
      /\ \A i \in 1..Len(roots) : roots[i] \in PlannedRoot
    OBVIOUS
<1>3. pieces \in [1..Len(roots) -> Seq(PlannedRoot)]
    BY <1>2, PiecesHold
<1>4. \A i \in 1..Len(roots) : FilesIn(pieces[i]) = roots[i].files
    BY <1>2, PiecesHold
<1> HIDE DEF pieces
<1>5. pieces \in Seq(Seq(PlannedRoot)) /\ DOMAIN pieces = 1..Len(roots)
    BY <1>2, <1>3, Listed
<1>6. AllFiles(pieces) = FilesIn(roots)
    <2>1. [i \in DOMAIN pieces |-> FilesIn(pieces[i])] = [i \in DOMAIN roots |-> roots[i].files]
        BY <1>2, <1>4, <1>5
    <2> QED
        BY <2>1 DEF AllFiles, FilesIn
<1>7. s \in Seq(PlannedRoot) /\ AllFiles(pieces) = FilesIn(s)
    BY <1>5, AllTheirRoots
<1> HIDE DEF s
<1>8. n \in Nat /\ \A i \in 1..n : s[i] \in PlannedRoot
    BY <1>7
<1>9. step \in [1..n -> [Packs(PlannedRoot) -> Packs(PlannedRoot)]]
    <2>1. ASSUME NEW i \in 1..n, NEW p \in Packs(PlannedRoot)
          PROVE  Placed(p, s[i], Fits(Last(p), s[i])) \in Packs(PlannedRoot)
        BY <1>8, PlacedKeeps
    <2> QED
        BY <2>1
<1>10. <<>> \in Packs(PlannedRoot)
    BY DEF Packs
<1>11. \A i \in 1..n : \A p \in Packs(PlannedRoot) :
        step[i][p] = Placed(p, s[i], Fits(Last(p), s[i]))
    OBVIOUS
<1> HIDE DEF step
<1>12. PICK f : Runs(f, n, Packs(PlannedRoot), <<>>, step)
    BY <1>8, <1>9, <1>10, Recursion
<1>13. /\ f \in [0..n -> Packs(PlannedRoot)] /\ f[0] = <<>>
       /\ \A i \in 1..n : f[i] = step[i][f[i - 1]]
    BY <1>12 DEF Runs
<1>14. Eq(f)
    <2>1. ASSUME NEW i \in 0..n, i # 0
          PROVE  f[i] = Placed(f[i - 1], s[i], Fits(Last(f[i - 1]), s[i]))
        <3>1. i \in 1..n /\ i - 1 \in 0..n
            BY <1>8, <2>1
        <3>2. f[i] = step[i][f[i - 1]] /\ f[i - 1] \in Packs(PlannedRoot)
            BY <1>13, <3>1
        <3> QED
            BY <1>11, <3>1, <3>2
    <2>2. f = [i \in 0..n |-> f[i]]
        BY <1>13
    <2> QED
        BY <1>13, <2>1, <2>2
<1>15. Eq(h)
    BY <1>14
<1> HIDE DEF h
<1>16. h[0] = <<>>
    BY <1>8, <1>15
<1>17. \A i \in 1..n : h[i] = Placed(h[i - 1], s[i], Fits(Last(h[i - 1]), s[i]))
    BY <1>8, <1>15
<1> HIDE DEF Eq
<1>18. h[n] \in Packs(PlannedRoot) /\ FlattenSeq(h[n]) = s
    BY <1>7, <1>16, <1>17, Packing
<1>19. AllFiles(h[n]) = FilesIn(s)
    <2>1. h[n] \in Seq(Seq(PlannedRoot))
        BY <1>18, PacksAreSeqs
    <2> QED
        BY <1>18, <2>1, AllTheirRoots
<1> QED
    BY <1>1, <1>6, <1>7, <1>18, <1>19

---------------------------------------------------------------------------
(* The account of an upload.                                               *)

\* What is stored in some project.
Stored == {doc[d].file : d \in DOMAIN doc}

\* Of the planned files count were answered, those not stored are among the
\* skipped, and left are the others, in their order.
Tally(planned, count, skipped, left, stored) ==
    /\ planned \in Seq(LocalFile) /\ left \in Seq(LocalFile)
    /\ count \in Nat /\ skipped \in Nat
    /\ Len(planned) = count + Len(left)
    /\ \A i \in 1..Len(left) : planned[count + i] = left[i]
    /\ Cardinality({i \in 1..count : planned[i] \notin stored}) <= skipped

\* What the laptop x has before it while its request is y.
LeftOf(x, y) == IF y = NoRequest THEN AllFiles(x.todo)
                ELSE FilesIn(y.roots) \o AllFiles(Tail(x.todo))

AccountOf(x, y, stored) ==
    /\ x.todo \in Packs(PlannedRoot)
    /\ x.accepted \in Nat /\ x.skipped \in Nat
    /\ y.accepted \in Nat /\ y.skipped \in Nat
    /\ y # NoRequest => x.todo # <<>> /\ y.roots \in Seq(PlannedRoot) /\ y.roots # <<>>
    /\ Tally(x.planned, x.accepted + x.skipped + (y.accepted + y.skipped),
             x.skipped + y.skipped, LeftOf(x, y), stored)
    /\ x.status = "done" => x.todo = <<>> /\ y = NoRequest

\* An upload that was not given up has answered, holds and still has to send
\* its planned files, each once.
Accounts == \A c \in Client : client[c].status \in {"uploading", "done"} =>
                                AccountOf(client[c], request[c], Stored)

LEMMA TallyBegins ==
    ASSUME NEW planned \in Seq(LocalFile), NEW stored
    PROVE  Tally(planned, 0, 0, planned, stored)
<1> DEFINE U == {i \in 1..0 : planned[i] \notin stored}
<1>1. U = {}
    OBVIOUS
<1>2. Cardinality(U) = 0
    BY <1>1, FS_EmptySet
<1> QED
    BY <1>2 DEF Tally

LEMMA TallyStands ==
    ASSUME NEW planned, NEW count, NEW skipped, NEW left, NEW stored, NEW more,
           Tally(planned, count, skipped, left, stored), stored \subseteq more
    PROVE  Tally(planned, count, skipped, left, more)
<1> DEFINE U(s) == {i \in 1..count : planned[i] \notin s}
<1>1. count \in Nat /\ skipped \in Nat /\ Cardinality(U(stored)) <= skipped
    BY DEF Tally
<1>2. IsFiniteSet(U(stored)) /\ IsFiniteSet(U(more))
    <2>1. IsFiniteSet(1..count)
        BY <1>1, FS_Interval
    <2> QED
        BY <2>1, FS_Subset
<1>3. U(more) \in SUBSET U(stored)
    OBVIOUS
<1>4. Cardinality(U(more)) <= Cardinality(U(stored))
    BY <1>2, <1>3, FS_Subset
<1>5. Cardinality(U(more)) \in Nat /\ Cardinality(U(stored)) \in Nat
    BY <1>2, FS_CardinalityType
<1> HIDE DEF U
<1>6. Cardinality(U(more)) <= skipped
    BY <1>1, <1>4, <1>5
<1> QED
    BY <1>6 DEF Tally, U

\* The next file is answered: it is stored, or counted among the skipped.
LEMMA TallyNext ==
    ASSUME NEW planned, NEW count, NEW skipped, NEW left, NEW stored,
           Tally(planned, count, skipped, left, stored), left # <<>>,
           NEW skips \in {skipped, skipped + 1},
           skips = skipped => Head(left) \in stored
    PROVE  Tally(planned, count + 1, skips, Tail(left), stored)
<1> DEFINE U(n) == {i \in 1..n : planned[i] \notin stored}
<1>1. /\ planned \in Seq(LocalFile) /\ left \in Seq(LocalFile)
      /\ count \in Nat /\ skipped \in Nat
      /\ Len(planned) = count + Len(left)
      /\ \A i \in 1..Len(left) : planned[count + i] = left[i]
      /\ Cardinality(U(count)) <= skipped
    BY DEF Tally
<1>2. /\ Tail(left) \in Seq(LocalFile) /\ Len(Tail(left)) = Len(left) - 1
      /\ \A i \in 1..Len(Tail(left)) : Tail(left)[i] = left[i + 1]
      /\ Len(left) \in Nat /\ Len(left) # 0 /\ Head(left) = left[1]
    BY <1>1, HeadTailProperties
<1>3. planned[count + 1] = Head(left)
    BY <1>1, <1>2
<1>4. \A i \in 1..Len(Tail(left)) : planned[(count + 1) + i] = Tail(left)[i]
    <2>1. ASSUME NEW i \in 1..Len(Tail(left))
          PROVE  planned[(count + 1) + i] = Tail(left)[i]
        <3>1. i + 1 \in 1..Len(left) /\ count + (i + 1) = (count + 1) + i
            BY <1>1, <1>2
        <3> QED
            BY <1>1, <1>2, <3>1
    <2> QED
        BY <2>1
<1>5. IsFiniteSet(U(count)) /\ Cardinality(U(count)) \in Nat
    <2>1. IsFiniteSet(1..count)
        BY <1>1, FS_Interval
    <2>2. U(count) \in SUBSET (1..count)
        OBVIOUS
    <2> QED
        BY <2>1, <2>2, FS_Subset, FS_CardinalityType
<1>6. /\ Head(left) \in stored => U(count + 1) = U(count)
      /\ U(count + 1) \in {U(count), U(count) \cup {count + 1}}
      /\ count + 1 \notin U(count)
    <2>1. 1..(count + 1) = 1..count \cup {count + 1} /\ count + 1 \notin 1..count
        BY <1>1
    <2> QED
        BY <1>3, <2>1
<1> HIDE DEF U
<1>7. Cardinality(U(count) \cup {count + 1}) = Cardinality(U(count)) + 1
    BY <1>5, <1>6, FS_AddElement
<1>8. Cardinality(U(count + 1)) <= skips /\ skips \in Nat
    <2>1. PICK k : k = Cardinality(U(count))
        OBVIOUS
    <2>2. k \in Nat /\ k <= skipped /\ skipped \in Nat
        BY <1>1, <1>5, <2>1
    <2>3. Cardinality(U(count + 1)) \in {k, k + 1}
        BY <1>6, <1>7, <2>1
    <2>4. skips = skipped => Cardinality(U(count + 1)) = k
        BY <1>6, <2>1
    <2> QED
        BY <2>2, <2>3, <2>4
<1>9. Len(planned) = (count + 1) + Len(Tail(left)) /\ count + 1 \in Nat
    BY <1>1, <1>2
<1> QED
    BY <1>1, <1>2, <1>4, <1>8, <1>9 DEF Tally, U

\* The account of an upload does not read the rest of its request.
SameFiles(y, z) == /\ z.roots = y.roots /\ z.accepted = y.accepted
                   /\ z.skipped = y.skipped /\ z.pc # "none"

LEMMA AccountStands ==
    ASSUME NEW x, NEW y, NEW z, NEW stored, NEW more,
           AccountOf(x, y, stored), stored \subseteq more,
           z = y \/ (y # NoRequest /\ SameFiles(y, z))
    PROVE  AccountOf(x, z, more)
<1>1. CASE z = y
    <2>1. Tally(x.planned, x.accepted + x.skipped + (y.accepted + y.skipped),
                x.skipped + y.skipped, LeftOf(x, y), more)
        BY TallyStands DEF AccountOf
    <2> QED
        BY <1>1, <2>1 DEF AccountOf
<1>2. CASE y # NoRequest /\ SameFiles(y, z)
    <2>1. z # NoRequest
        BY <1>2 DEF SameFiles, NoRequest
    <2>2. LeftOf(x, z) = LeftOf(x, y)
        BY <1>2, <2>1 DEF SameFiles, LeftOf
    <2>3. Tally(x.planned, x.accepted + x.skipped + (y.accepted + y.skipped),
                x.skipped + y.skipped, LeftOf(x, y), more)
        BY TallyStands DEF AccountOf
    <2> QED
        BY <1>2, <2>1, <2>2, <2>3 DEF AccountOf, SameFiles
<1> QED
    BY <1>1, <1>2

\* The first batch becomes the roots of a request.
LEMMA AccountSent ==
    ASSUME NEW x, NEW stored, AccountOf(x, NoRequest, stored), x.todo # <<>>, NEW g, NEW y,
           y = [NoRequest EXCEPT !.pc = "origin", !.roots = Head(x.todo), !.granted = g]
    PROVE  AccountOf(x, y, stored)
<1>1. /\ y.roots = Head(x.todo) /\ y.accepted = 0 /\ y.skipped = 0 /\ y # NoRequest
      /\ NoRequest.accepted = 0 /\ NoRequest.skipped = 0
    BY DEF NoRequest
<1>2. x.todo \in Packs(PlannedRoot) /\ x.todo \in Seq(Seq(PlannedRoot))
    BY PacksAreSeqs DEF AccountOf
<1>3. Head(x.todo) \in Seq(PlannedRoot) /\ Head(x.todo) # <<>>
    <2>1. x.todo \in Seq(Seq(PlannedRoot) \ {<<>>})
        BY <1>2 DEF Packs
    <2>2. Head(x.todo) \in Seq(PlannedRoot) \ {<<>>}
        BY <2>1, HeadTailProperties
    <2> QED
        BY <2>2
<1>4. LeftOf(x, y) = LeftOf(x, NoRequest)
    BY <1>1, <1>2, FirstBatch DEF LeftOf
<1> QED
    BY <1>1, <1>3, <1>4 DEF AccountOf

LEMMA FirstOfTwo ==
    ASSUME NEW S, NEW u \in Seq(S), NEW v \in Seq(S), u # <<>>
    PROVE  u \o v # <<>> /\ Head(u \o v) = Head(u) /\ Tail(u \o v) = Tail(u) \o v
<1> DEFINE a == Tail(u \o v)
           b == Tail(u) \o v
<1>1. /\ u \o v \in Seq(S) /\ Len(u \o v) = Len(u) + Len(v)
      /\ \A i \in 1..Len(u) + Len(v) :
            (u \o v)[i] = IF i <= Len(u) THEN u[i] ELSE v[i - Len(u)]
      /\ Len(u) \in Nat /\ Len(v) \in Nat /\ Len(u) # 0
    BY ConcatProperties
<1>2. u \o v # <<>> /\ Head(u \o v) = Head(u)
    BY <1>1
<1>3. /\ a \in Seq(S) /\ Len(a) = Len(u) + Len(v) - 1
      /\ \A i \in 1..Len(a) : a[i] = (u \o v)[i + 1]
    BY <1>1, <1>2, HeadTailProperties
<1>4. /\ Tail(u) \in Seq(S) /\ Len(Tail(u)) = Len(u) - 1
      /\ \A i \in 1..Len(Tail(u)) : Tail(u)[i] = u[i + 1]
    BY HeadTailProperties
<1>5. /\ b \in Seq(S) /\ Len(b) = (Len(u) - 1) + Len(v)
      /\ \A i \in 1..(Len(u) - 1) + Len(v) :
            b[i] = IF i <= Len(u) - 1 THEN Tail(u)[i] ELSE v[i - (Len(u) - 1)]
    BY <1>4, ConcatProperties
<1> HIDE DEF a, b
<1>6. Len(a) = Len(b)
    BY <1>1, <1>3, <1>5
<1>7. ASSUME NEW i \in 1..Len(a) PROVE a[i] = b[i]
    <2>1. /\ i + 1 \in 1..Len(u) + Len(v) /\ i \in 1..(Len(u) - 1) + Len(v)
          /\ (i + 1) - Len(u) = i - (Len(u) - 1)
          /\ i + 1 <= Len(u) <=> i <= Len(u) - 1
          /\ i <= Len(u) - 1 => i \in 1..Len(Tail(u))
        BY <1>1, <1>3, <1>4
    <2>2. a[i] = IF i <= Len(u) - 1 THEN u[i + 1] ELSE v[i - (Len(u) - 1)]
        BY <1>1, <1>3, <2>1
    <2>3. b[i] = IF i <= Len(u) - 1 THEN u[i + 1] ELSE v[i - (Len(u) - 1)]
        BY <1>4, <1>5, <2>1
    <2> QED
        BY <2>2, <2>3
<1>8. a = b
    BY <1>3, <1>5, <1>6, <1>7, SeqEqual
<1> QED
    BY <1>2, <1>8 DEF a, b

LEMMA PutBefore ==
    ASSUME NEW S, NEW u \in S, NEW t \in Seq(S)
    PROVE  /\ <<u>> \o t \in Seq(S) /\ <<u>> \o t # <<>>
           /\ Head(<<u>> \o t) = u /\ Tail(<<u>> \o t) = t
<1> DEFINE v == <<u>>
<1>1. v \in Seq(S) /\ v # <<>> /\ Head(v) = u /\ Tail(v) = <<>>
    OBVIOUS
<1> HIDE DEF v
<1>2. v \o t # <<>> /\ Head(v \o t) = u /\ Tail(v \o t) = <<>> \o t
    BY <1>1, FirstOfTwo
<1>3. <<>> \o t = t /\ v \o t \in Seq(S)
    BY <1>1, ConcatEmptySeq, ConcatProperties
<1> QED
    BY <1>2, <1>3 DEF v

\* A file is answered.
LEMMA AccountNext ==
    ASSUME NEW x, NEW y, NEW stored, AccountOf(x, y, stored), y # NoRequest,
           NEW r, r = Head(y.roots), r.files # <<>>, NEW z, z # NoRequest,
           z.roots = <<[r EXCEPT !.files = Tail(r.files)]>> \o Tail(y.roots),
           \/ z.accepted = y.accepted + 1 /\ z.skipped = y.skipped /\ Head(r.files) \in stored
           \/ z.accepted = y.accepted /\ z.skipped = y.skipped + 1
    PROVE  AccountOf(x, z, stored)
<1> DEFINE rest == Tail(y.roots)
           r2 == [r EXCEPT !.files = Tail(r.files)]
           a == AllFiles(Tail(x.todo))
           count == x.accepted + x.skipped + (y.accepted + y.skipped)
           skips == x.skipped + y.skipped
           left == LeftOf(x, y)
<1>1. /\ x.todo \in Packs(PlannedRoot) /\ x.todo # <<>>
      /\ x.accepted \in Nat /\ x.skipped \in Nat /\ y.accepted \in Nat /\ y.skipped \in Nat
      /\ y.roots \in Seq(PlannedRoot) /\ y.roots # <<>>
      /\ Tally(x.planned, count, skips, left, stored)
      /\ x.status = "done" => x.todo = <<>> /\ y = NoRequest
    BY DEF AccountOf
<1>2. r \in PlannedRoot /\ rest \in Seq(PlannedRoot)
    BY <1>1, FirstAndRest
<1>3. r.files \in Seq(LocalFile) /\ Tail(r.files) \in Seq(LocalFile)
    <2>1. r.files \in Seq(LocalFile)
        BY <1>2 DEF PlannedRoot
    <2> QED
        BY <2>1, FirstAndRest
<1>4. r2 \in PlannedRoot /\ r2.files = Tail(r.files)
    BY <1>2, <1>3 DEF PlannedRoot
<1> HIDE DEF r2, rest
<1>5. z.roots = <<r2>> \o rest
    BY DEF r2, rest
<1>6. /\ z.roots \in Seq(PlannedRoot) /\ z.roots # <<>>
      /\ Head(z.roots) = r2 /\ Tail(z.roots) = rest
    <2>1. \A u \in PlannedRoot, t \in Seq(PlannedRoot) :
            /\ <<u>> \o t \in Seq(PlannedRoot) /\ <<u>> \o t # <<>>
            /\ Head(<<u>> \o t) = u /\ Tail(<<u>> \o t) = t
        BY PutBefore
    <2> QED
        BY <1>2, <1>4, <1>5, <2>1
<1>7. a \in Seq(LocalFile)
    <2>1. x.todo \in Seq(Seq(PlannedRoot))
        BY <1>1, PacksAreSeqs
    <2>2. Tail(x.todo) \in Seq(Seq(PlannedRoot))
        BY <1>1, <2>1, FirstAndRest
    <2> QED
        BY <2>2, AllTheirRoots
<1>8. FilesIn(rest) \in Seq(LocalFile)
    BY <1>2, OneBatch
<1>9. FilesIn(y.roots) = r.files \o FilesIn(rest)
    BY <1>1, FirstRoot DEF rest
<1>10. FilesIn(z.roots) = Tail(r.files) \o FilesIn(rest)
    BY <1>4, <1>6, FirstRoot
<1>11. left = FilesIn(y.roots) \o a /\ LeftOf(x, z) = FilesIn(z.roots) \o a
    BY DEF LeftOf
<1> HIDE DEF left, a
<1>12. /\ FilesIn(y.roots) # <<>> /\ Head(FilesIn(y.roots)) = Head(r.files)
       /\ Tail(FilesIn(y.roots)) = FilesIn(z.roots) /\ FilesIn(y.roots) \in Seq(LocalFile)
    <2>1. PICK u, v : u = r.files /\ v = FilesIn(rest)
        OBVIOUS
    <2>2. u \in Seq(LocalFile) /\ v \in Seq(LocalFile) /\ u # <<>>
        BY <1>3, <1>8, <2>1
    <2>3. u \o v # <<>> /\ Head(u \o v) = Head(u) /\ Tail(u \o v) = Tail(u) \o v
        BY <2>2, FirstOfTwo
    <2>4. u \o v \in Seq(LocalFile)
        BY <2>2, ConcatProperties
    <2> QED
        BY <1>9, <1>10, <2>1, <2>3, <2>4
<1>13. left # <<>> /\ Head(left) = Head(r.files) /\ Tail(left) = LeftOf(x, z)
    <2>1. PICK u : u = FilesIn(y.roots)
        OBVIOUS
    <2>2. u \in Seq(LocalFile) /\ u # <<>>
        BY <1>12, <2>1
    <2>3. u \o a # <<>> /\ Head(u \o a) = Head(u) /\ Tail(u \o a) = Tail(u) \o a
        BY <1>7, <2>2, FirstOfTwo
    <2> QED
        BY <1>11, <1>12, <2>1, <2>3
<1> DEFINE skips2 == x.skipped + z.skipped
<1>14. /\ skips2 \in {skips, skips + 1} /\ skips \in Nat
       /\ skips2 = skips => Head(left) \in stored
       /\ z.accepted \in Nat /\ z.skipped \in Nat
       /\ x.accepted + x.skipped + (z.accepted + z.skipped) = count + 1
    <2>1. PICK xa, xs, ya, ys, za, zs :
            /\ xa = x.accepted /\ xs = x.skipped /\ ya = y.accepted /\ ys = y.skipped
            /\ za = z.accepted /\ zs = z.skipped
        OBVIOUS
    <2>2. xa \in Nat /\ xs \in Nat /\ ya \in Nat /\ ys \in Nat
        BY <1>1, <2>1
    <2>3. \/ za = ya + 1 /\ zs = ys /\ Head(left) \in stored
          \/ za = ya /\ zs = ys + 1
        BY <1>13, <2>1
    <2>4. /\ xs + zs \in {xs + ys, xs + ys + 1} /\ xs + ys \in Nat
          /\ xs + zs = xs + ys => Head(left) \in stored
          /\ za \in Nat /\ zs \in Nat
          /\ xa + xs + (za + zs) = xa + xs + (ya + ys) + 1
        BY <2>2, <2>3
    <2> QED
        BY <2>1, <2>4
<1> HIDE DEF skips, skips2, count
<1>15. Tally(x.planned, count + 1, skips2, Tail(left), stored)
    BY <1>1, <1>13, <1>14, TallyNext
<1> QED
    BY <1>1, <1>6, <1>13, <1>14, <1>15 DEF AccountOf, skips2

\* A root that has no files left is done with.
LEMMA AccountRoot ==
    ASSUME NEW x, NEW y, NEW stored, AccountOf(x, y, stored), y # NoRequest,
           Head(y.roots).files = <<>>
    PROVE  /\ Tail(y.roots) \in Seq(PlannedRoot) /\ Len(y.roots) \in Nat
           /\ Len(y.roots) > 1 => Tail(y.roots) # <<>>
           /\ Len(y.roots) = 1 => FilesIn(y.roots) = <<>>
           /\ FilesIn(y.roots) = FilesIn(Tail(y.roots))
<1>1. y.roots \in Seq(PlannedRoot) /\ y.roots # <<>>
    BY DEF AccountOf
<1>2. Tail(y.roots) \in Seq(PlannedRoot) /\ Len(Tail(y.roots)) = Len(y.roots) - 1
      /\ Len(y.roots) \in Nat
    BY <1>1, HeadTailProperties
<1>3. FilesIn(Tail(y.roots)) \in Seq(LocalFile)
    BY <1>2, OneBatch
<1>4. FilesIn(y.roots) = <<>> \o FilesIn(Tail(y.roots))
    BY <1>1, FirstRoot
<1>5. FilesIn(y.roots) = FilesIn(Tail(y.roots))
    BY <1>3, <1>4, ConcatEmptySeq
<1>6. PICK n, t : n = Len(y.roots) /\ t = Tail(y.roots)
    OBVIOUS
<1>7. n \in Nat /\ t \in Seq(PlannedRoot) /\ Len(t) = n - 1
    BY <1>2, <1>6
<1>8. n > 1 => t # <<>>
    BY <1>7
<1>9. n = 1 => t = <<>>
    BY <1>7
<1>10. t = <<>> => FilesIn(t) = <<>>
    BY <1>7, OneBatch
<1> QED
    BY <1>2, <1>5, <1>6, <1>8, <1>9, <1>10

LEMMA AccountEnds ==
    ASSUME NEW x, NEW y, NEW stored, AccountOf(x, y, stored), y # NoRequest,
           Head(y.roots).files = <<>>, Len(y.roots) > 1, NEW z, z # NoRequest,
           z.roots = Tail(y.roots), z.accepted = y.accepted, z.skipped = y.skipped
    PROVE  AccountOf(x, z, stored)
<1>1. /\ Tail(y.roots) \in Seq(PlannedRoot) /\ Tail(y.roots) # <<>>
      /\ FilesIn(y.roots) = FilesIn(Tail(y.roots))
    BY AccountRoot
<1>2. LeftOf(x, z) = LeftOf(x, y)
    BY <1>1 DEF LeftOf
<1> QED
    BY <1>1, <1>2 DEF AccountOf

\* The answer adds the counts of the request to those of the upload.
LEMMA AccountAnswered ==
    ASSUME NEW x, NEW y, NEW stored, AccountOf(x, y, stored), y # NoRequest,
           x.status = "uploading", Head(y.roots).files = <<>>, Len(y.roots) = 1, NEW w,
           w.status = x.status, w.planned = x.planned, w.todo = Tail(x.todo),
           w.accepted = x.accepted + y.accepted, w.skipped = x.skipped + y.skipped
    PROVE  AccountOf(w, NoRequest, stored)
<1>1. FilesIn(y.roots) = <<>>
    BY AccountRoot
<1>2. /\ x.todo \in Packs(PlannedRoot) /\ x.todo # <<>>
      /\ x.accepted \in Nat /\ x.skipped \in Nat /\ y.accepted \in Nat /\ y.skipped \in Nat
      /\ Tally(x.planned, x.accepted + x.skipped + (y.accepted + y.skipped),
               x.skipped + y.skipped, LeftOf(x, y), stored)
    BY DEF AccountOf
<1>3. w.todo \in Packs(PlannedRoot)
    BY <1>2, FirstAndRest DEF Packs
<1>4. AllFiles(w.todo) \in Seq(LocalFile)
    BY <1>3, PacksAreSeqs, AllTheirRoots
<1>5. LeftOf(w, NoRequest) = LeftOf(x, y)
    <2>1. LeftOf(x, y) = <<>> \o AllFiles(w.todo)
        BY <1>1 DEF LeftOf
    <2> QED
        BY <1>4, <2>1, ConcatEmptySeq DEF LeftOf
<1>6. NoRequest.accepted = 0 /\ NoRequest.skipped = 0
    BY DEF NoRequest
<1>7. /\ w.accepted \in Nat /\ w.skipped \in Nat
      /\ w.accepted + w.skipped + (0 + 0) = x.accepted + x.skipped + (y.accepted + y.skipped)
      /\ w.skipped + 0 = x.skipped + y.skipped
    <2>1. PICK xa, xs, ya, ys :
            xa = x.accepted /\ xs = x.skipped /\ ya = y.accepted /\ ys = y.skipped
        OBVIOUS
    <2>2. xa \in Nat /\ xs \in Nat /\ ya \in Nat /\ ys \in Nat
        BY <1>2, <2>1
    <2>3. xa + ya + (xs + ys) + (0 + 0) = xa + xs + (ya + ys)
          /\ xs + ys + 0 = xs + ys /\ xa + ya \in Nat /\ xs + ys \in Nat
        BY <2>2
    <2> QED
        BY <2>1, <2>3
<1> QED
    BY <1>2, <1>3, <1>5, <1>6, <1>7 DEF AccountOf

LEMMA AccountBegins ==
    ASSUME NEW roots \in Workspaces, NEW t, NEW stored, NEW x,
           x = [IdleClient EXCEPT !.status = "uploading", !.token = t,
                                  !.planned = FilesIn(roots), !.todo = Upload[roots]]
    PROVE  AccountOf(x, NoRequest, stored)
<1>1. roots \in Seq(PlannedRoot)
    BY LocalIndexConstants
<1>2. Upload[roots] = BuildBatches(roots)
    BY DEF Upload
<1>3. /\ x.planned = FilesIn(roots) /\ x.todo = BuildBatches(roots)
      /\ x.accepted = 0 /\ x.skipped = 0 /\ x.status = "uploading"
      /\ NoRequest.accepted = 0 /\ NoRequest.skipped = 0
    BY <1>2 DEF IdleClient, NoRequest
<1>4. x.todo \in Packs(PlannedRoot) /\ LeftOf(x, NoRequest) = FilesIn(roots)
    BY <1>1, <1>3, BatchesHold DEF LeftOf
<1>5. Tally(FilesIn(roots), 0, 0, FilesIn(roots), stored)
    BY <1>1, OneBatch, TallyBegins
<1>6. 0 + 0 + (0 + 0) = 0 /\ 0 + 0 = 0
    OBVIOUS
<1> QED
    BY <1>3, <1>4, <1>5, <1>6 DEF AccountOf

---------------------------------------------------------------------------
(* Its steps.                                                              *)

\* What was stored stays so.
LEMMA PutFiles ==
    ASSUME TypeOK, NEW row, IsDoc(row)
    PROVE  LET files == {Put(row)[d].file : d \in DOMAIN Put(row)} IN
           Stored \subseteq files /\ row.file \in files
<1> DEFINE Here(d) == d.project = row.project /\ SamePath(d.file, row.file)
           New(d) == IF Here(d) THEN IF d.file = row.file THEN row
                                     ELSE [d EXCEPT !.waiting = FALSE]
                     ELSE d
           kept == [i \in DOMAIN doc |-> New(doc[i])]
           files == {Put(row)[d].file : d \in DOMAIN Put(row)}
<1>1. /\ Len(doc) \in Nat /\ DOMAIN doc = 1..Len(doc)
      /\ \A i \in DOMAIN doc : IsDoc(doc[i])
    BY DEF TypeOK
<1>2. ASSUME NEW d, IsDoc(d) PROVE New(d).file = d.file
    <2> DEFINE e == [d EXCEPT !.waiting = FALSE]
    <2>1. e = [d EXCEPT !.waiting = FALSE]
        OBVIOUS
    <2> HIDE DEF e
    <2>2. e.file = d.file
        BY <1>2, <2>1 DEF IsDoc
    <2> QED
        BY <2>1, <2>2
<1>3. \/ /\ Put(row) = kept
         /\ \E i \in DOMAIN doc : Here(doc[i]) /\ doc[i].file = row.file
      \/ Put(row) = Append(kept, row)
    BY DEF Put
<1> HIDE DEF New, Here
<1>4. /\ DOMAIN kept = DOMAIN doc /\ \A i \in DOMAIN doc : kept[i] = New(doc[i])
      /\ kept = [i \in 1..Len(doc) |-> kept[i]]
    BY <1>1
<1> HIDE DEF kept
<1>5. kept \in Seq(Range(kept))
    BY <1>1, <1>4, AnyRows
<1>6. \A i \in DOMAIN doc : i \in DOMAIN kept /\ kept[i].file = doc[i].file
    BY <1>1, <1>2, <1>4
<1>7. CASE /\ Put(row) = kept
           /\ \E i \in DOMAIN doc : Here(doc[i]) /\ doc[i].file = row.file
    <2>1. \A i \in DOMAIN doc : i \in DOMAIN Put(row) /\ Put(row)[i].file = doc[i].file
        BY <1>6, <1>7
    <2> QED
        BY <1>7, <2>1 DEF Stored
<1>8. CASE Put(row) = Append(kept, row)
    <2>1. /\ DOMAIN Put(row) = DOMAIN kept \cup {Len(kept) + 1}
          /\ Put(row)[Len(kept) + 1] = row
          /\ \A i \in DOMAIN kept : Put(row)[i] = kept[i]
        BY <1>5, <1>8, AppendedRow
    <2>2. \A i \in DOMAIN doc : i \in DOMAIN Put(row) /\ Put(row)[i].file = doc[i].file
        BY <1>6, <2>1
    <2> QED
        BY <2>1, <2>2 DEF Stored
<1> QED
    BY <1>3, <1>7, <1>8

\* The other laptops are not concerned.
LEMMA OneAccount ==
    ASSUME Accounts, Stored \subseteq Stored', NEW c \in Client,
           \A d \in Client : d # c => client'[d] = client[d] /\ request'[d] = request[d],
           client'[c].status \in {"uploading", "done"} =>
                AccountOf(client'[c], request'[c], Stored')
    PROVE  Accounts'
<1>1. ASSUME NEW d \in Client, client'[d].status \in {"uploading", "done"}
      PROVE  AccountOf(client'[d], request'[d], Stored')
    <2>1. CASE d = c
        BY <1>1, <2>1
    <2>2. CASE d # c
        <3>1. client'[d] = client[d] /\ request'[d] = request[d]
            BY <2>2
        <3>2. AccountOf(client[d], request[d], Stored)
            BY <1>1, <3>1 DEF Accounts
        <3>3. AccountOf(client[d], request[d], Stored')
            BY <3>2, AccountStands
        <3> QED
            BY <3>1, <3>3
    <2> QED
        BY <2>1, <2>2
<1> QED
    BY <1>1 DEF Accounts

\* What a request writes into its state while it looks for a project.
LEMMA RequestEdits ==
    ASSUME NEW y, IsRequest(y), y.pc # "none", NEW p, p # "none",
           NEW a, NEW b, NEW g, NEW n
    PROVE  /\ SameFiles(y, [y EXCEPT !.pc = p])
           /\ SameFiles(y, [y EXCEPT !.pc = p, !.project = a])
           /\ SameFiles(y, [[y EXCEPT !.pc = p, !.project = a] EXCEPT !.origin = b])
           /\ SameFiles(y, [y EXCEPT !.pc = p, !.origin = b, !.slug = a])
           /\ SameFiles(y, [y EXCEPT !.pc = p, !.number = n])
           /\ SameFiles(y, [y EXCEPT !.pc = p, !.slug = a])
           /\ SameFiles(y, [y EXCEPT !.number = n])
           /\ SameFiles(y, [y EXCEPT !.pc = p, !.granted = g])
<1>1. PICK y1, y2, y3, y4, y5, y6, y7, y8, y9 :
        y = [pc |-> y1, roots |-> y2, granted |-> y3, origin |-> y4, slug |-> y5,
             number |-> y6, project |-> y7, accepted |-> y8, skipped |-> y9]
    BY DEF IsRequest
<1>2. y1 # "none"
    BY <1>1
<1>3. /\ SameFiles(y, [y EXCEPT !.pc = p])
      /\ SameFiles(y, [y EXCEPT !.pc = p, !.project = a])
      /\ SameFiles(y, [[y EXCEPT !.pc = p, !.project = a] EXCEPT !.origin = b])
      /\ SameFiles(y, [y EXCEPT !.pc = p, !.origin = b, !.slug = a])
    BY <1>1, <1>2 DEF SameFiles
<1>4. /\ SameFiles(y, [y EXCEPT !.pc = p, !.number = n])
      /\ SameFiles(y, [y EXCEPT !.pc = p, !.slug = a])
      /\ SameFiles(y, [y EXCEPT !.number = n])
      /\ SameFiles(y, [y EXCEPT !.pc = p, !.granted = g])
    BY <1>1, <1>2 DEF SameFiles
<1> QED
    BY <1>3, <1>4

LEMMA Looks ==
    ASSUME TypeOK, NEW c \in Client,
           \/ FindByOrigin(c) \/ FindBySlug(c) \/ CompareOrigin(c) \/ NumberSlug(c)
           \/ CreateForAgent(c) \/ Attach(c)
    PROVE  /\ UNCHANGED <<client, doc>> /\ request[c] # NoRequest
           /\ \E z : request' = [request EXCEPT ![c] = z] /\ SameFiles(request[c], z)
<1> DEFINE y == request[c]
<1>1. IsRequest(y)
    BY DEF TypeOK
<1>2. ASSUME NEW z, Step(c, z), SameFiles(y, z)
      PROVE  UNCHANGED client /\ \E w : request' = [request EXCEPT ![c] = w] /\ SameFiles(y, w)
    BY <1>2 DEF Step
<1>3. "attach" # "none" /\ "slug" # "none" /\ "create" # "none" /\ "remote" # "none"
      /\ "number" # "none" /\ "files" # "none"
    OBVIOUS
<1>4. y.pc # "none" => y # NoRequest
    BY DEF NoRequest
<1>e. ASSUME y.pc # "none", NEW p, p # "none", NEW a, NEW b, NEW g, NEW n
      PROVE  /\ SameFiles(y, [y EXCEPT !.pc = p])
             /\ SameFiles(y, [y EXCEPT !.pc = p, !.project = a])
             /\ SameFiles(y, [[y EXCEPT !.pc = p, !.project = a] EXCEPT !.origin = b])
             /\ SameFiles(y, [y EXCEPT !.pc = p, !.origin = b, !.slug = a])
             /\ SameFiles(y, [y EXCEPT !.pc = p, !.number = n])
             /\ SameFiles(y, [y EXCEPT !.pc = p, !.slug = a])
             /\ SameFiles(y, [y EXCEPT !.number = n])
             /\ SameFiles(y, [y EXCEPT !.pc = p, !.granted = g])
    BY <1>1, <1>e, RequestEdits
<1>5. CASE FindByOrigin(c)
    <2>1. y.pc = "origin" /\ UNCHANGED doc
        BY <1>5 DEF FindByOrigin
    <2>2. PICK a, b, s :
            \/ Step(c, [[y EXCEPT !.pc = "attach", !.project = a] EXCEPT !.origin = b])
            \/ Step(c, [y EXCEPT !.pc = "slug", !.origin = b, !.slug = s])
        BY <1>5 DEF FindByOrigin, Resolved
    <2>3. /\ SameFiles(y, [[y EXCEPT !.pc = "attach", !.project = a] EXCEPT !.origin = b])
          /\ SameFiles(y, [y EXCEPT !.pc = "slug", !.origin = b, !.slug = s])
        BY <1>e, <2>1
    <2> QED
        BY <1>2, <1>4, <2>1, <2>2, <2>3
<1>6. CASE FindBySlug(c)
    <2>1. y.pc = "slug" /\ UNCHANGED doc
        BY <1>6 DEF FindBySlug
    <2>2. PICK a :
            \/ Step(c, [y EXCEPT !.pc = "create"])
            \/ Step(c, [y EXCEPT !.pc = "attach", !.project = a])
            \/ Step(c, [y EXCEPT !.pc = "remote", !.project = a])
        BY <1>6 DEF FindBySlug, Resolved
    <2>3. /\ SameFiles(y, [y EXCEPT !.pc = "create"])
          /\ SameFiles(y, [y EXCEPT !.pc = "attach", !.project = a])
          /\ SameFiles(y, [y EXCEPT !.pc = "remote", !.project = a])
        BY <1>e, <2>1
    <2> QED
        BY <1>2, <1>4, <2>1, <2>2, <2>3
<1>7. CASE CompareOrigin(c)
    <2>1. y.pc = "remote" /\ UNCHANGED doc
        BY <1>7 DEF CompareOrigin
    <2>2. PICK a :
            \/ Step(c, [y EXCEPT !.pc = "number", !.number = 2])
            \/ Step(c, [y EXCEPT !.pc = "attach", !.project = a])
        BY <1>7 DEF CompareOrigin, Resolved
    <2>3. /\ SameFiles(y, [y EXCEPT !.pc = "number", !.number = 2])
          /\ SameFiles(y, [y EXCEPT !.pc = "attach", !.project = a])
        BY <1>e, <2>1
    <2> QED
        BY <1>2, <1>4, <2>1, <2>2, <2>3
<1>8. CASE NumberSlug(c)
    <2>1. y.pc = "number" /\ UNCHANGED doc
        BY <1>8 DEF NumberSlug
    <2>2. PICK a, n :
            \/ Step(c, [y EXCEPT !.pc = "create", !.slug = a])
            \/ Step(c, [y EXCEPT !.number = n])
        BY <1>8 DEF NumberSlug
    <2>3. /\ SameFiles(y, [y EXCEPT !.pc = "create", !.slug = a])
          /\ SameFiles(y, [y EXCEPT !.number = n])
        BY <1>e, <2>1
    <2> QED
        BY <1>2, <1>4, <2>1, <2>2, <2>3
<1>9. CASE CreateForAgent(c)
    <2>1. y.pc = "create" /\ UNCHANGED doc
        BY <1>9 DEF CreateForAgent
    <2>2. PICK a : Step(c, [y EXCEPT !.pc = "attach", !.project = a])
        BY <1>9 DEF CreateForAgent, Resolved
    <2>3. SameFiles(y, [y EXCEPT !.pc = "attach", !.project = a])
        BY <1>e, <2>1
    <2> QED
        BY <1>2, <1>4, <2>1, <2>2, <2>3
<1>10. CASE Attach(c)
    <2>1. y.pc = "attach" /\ UNCHANGED <<client, doc>>
        BY <1>10 DEF Attach, Attached
    <2>2. PICK g : request' = [request EXCEPT ![c] = [y EXCEPT !.pc = "files", !.granted = g]]
        <3>1. request = [d \in Client |-> request[d]]
            BY DEF TypeOK
        <3>2. PICK g : request' = [request EXCEPT ![c].pc = "files", ![c].granted = g]
            BY <1>10 DEF Attach, Attached
        <3> QED
            BY <3>1, <3>2
    <2>3. SameFiles(y, [y EXCEPT !.pc = "files", !.granted = g])
        BY <1>e, <2>1
    <2> QED
        BY <1>4, <2>1, <2>2, <2>3
<1> QED
    BY <1>5, <1>6, <1>7, <1>8, <1>9, <1>10

LEMMA LaptopAccounts ==
    ASSUME Inductive, Accounts, NEW c \in Client,
           \/ \E t \in DOMAIN token, roots \in Workspaces : StartRun(c, t, roots)
           \/ FinishRun(c) \/ Send(c) \/ Refuse(c) \/ FailRequest(c) \/ Answer(c)
    PROVE  Accounts'
<1> DEFINE x == client[c]
           y == request[c]
<1>i. TypeOK /\ RequestsHoldTokens
    BY DEF Inductive
<1>d. Stored' = Stored
    BY DEF StartRun, FinishRun, Send, Refuse, FailRequest, Answer, Stored
<1>r. IsClient(x) /\ IsRequest(y) /\ GaveUp.status = "failed" /\ NoRequest.pc = "none"
    BY <1>i, ClientRow
<1>h. y # NoRequest => x.status = "uploading" /\ x.todo # <<>>
    BY <1>i DEF RequestsHoldTokens
<1>a. x.status \in {"uploading", "done"} => AccountOf(x, y, Stored)
    BY DEF Accounts
<1>w. \A w : client' = [client EXCEPT ![c] = w] =>
            client'[c] = w /\ \A d \in Client : d # c => client'[d] = client[d]
    BY <1>i, OneClient
<1>z. \A z : request' = [request EXCEPT ![c] = z] =>
            request'[c] = z /\ \A d \in Client : d # c => request'[d] = request[d]
    BY <1>i, OneRequest
<1>1. ASSUME NEW t \in DOMAIN token, NEW roots \in Workspaces, StartRun(c, t, roots)
      PROVE  Accounts'
    <2> DEFINE w == [IdleClient EXCEPT !.status = "uploading", !.token = t,
                                       !.planned = FilesIn(roots), !.todo = Upload[roots]]
    <2>1. /\ x.status # "uploading" /\ client' = [client EXCEPT ![c] = w]
          /\ UNCHANGED request
        BY <1>1 DEF StartRun
    <2>2. AccountOf(w, NoRequest, Stored)
        BY AccountBegins
    <2> HIDE DEF w
    <2>3. y = NoRequest
        BY <1>h, <2>1
    <2>4. /\ AccountOf(client'[c], request'[c], Stored')
          /\ \A d \in Client : d # c => client'[d] = client[d] /\ request'[d] = request[d]
        BY <1>d, <1>w, <2>1, <2>2, <2>3
    <2> QED
        BY <1>d, <2>4, OneAccount
<1>2. CASE FinishRun(c)
    <2> DEFINE w == [x EXCEPT !.status = "done"]
    <2>1. /\ x.status = "uploading" /\ x.todo = <<>> /\ UNCHANGED request
          /\ client' = [client EXCEPT ![c] = w]
        <3>1. client = [d \in Client |-> client[d]]
            BY <1>i DEF TypeOK
        <3> QED
            BY <1>2, <3>1 DEF FinishRun
    <2>2. w = [x EXCEPT !.status = "done"]
        OBVIOUS
    <2> HIDE DEF w, x
    <2>3. /\ w.status = "done" /\ w.planned = x.planned /\ w.todo = x.todo
          /\ w.accepted = x.accepted /\ w.skipped = x.skipped
        BY <1>r, <2>2 DEF IsClient
    <2>4. y = NoRequest
        BY <1>h, <2>1
    <2>5. AccountOf(w, y, Stored)
        BY <1>a, <2>1, <2>3, <2>4 DEF AccountOf, LeftOf
    <2>6. /\ AccountOf(client'[c], request'[c], Stored')
          /\ \A d \in Client : d # c => client'[d] = client[d] /\ request'[d] = request[d]
        BY <1>d, <1>w, <2>1, <2>5
    <2> QED
        BY <1>d, <2>6, OneAccount
<1>3. CASE Send(c)
    <2> DEFINE z == [NoRequest EXCEPT !.pc = "origin", !.roots = Head(x.todo),
                                      !.granted = token[client[c].token].slugs]
    <2>1. /\ x.status = "uploading" /\ x.todo # <<>> /\ y = NoRequest /\ UNCHANGED client
          /\ request' = [request EXCEPT ![c] = z]
        BY <1>3 DEF Send, Batch
    <2>2. AccountOf(x, z, Stored)
        BY <1>a, <2>1, AccountSent
    <2> HIDE DEF z
    <2>3. /\ AccountOf(client'[c], request'[c], Stored')
          /\ \A d \in Client : d # c => client'[d] = client[d] /\ request'[d] = request[d]
        BY <1>d, <1>z, <2>1, <2>2
    <2> QED
        BY <1>d, <2>3, OneAccount
<1>4. CASE Refuse(c) \/ FailRequest(c)
    <2>1. /\ client' = [client EXCEPT ![c] = GaveUp]
          /\ UNCHANGED request \/ request' = [request EXCEPT ![c] = NoRequest]
        BY <1>4 DEF Refuse, FailRequest
    <2>2. /\ client'[c].status \notin {"uploading", "done"}
          /\ \A d \in Client : d # c => client'[d] = client[d] /\ request'[d] = request[d]
        BY <1>r, <1>w, <1>z, <2>1
    <2> QED
        BY <1>d, <2>2, OneAccount
<1>5. CASE Answer(c)
    <2> DEFINE w == [x EXCEPT !.todo = Tail(@), !.accepted = @ + y.accepted,
                              !.skipped = @ + y.skipped]
    <2>1. /\ y.pc = "files" /\ Head(y.roots).files = <<>> /\ Len(y.roots) = 1
          /\ request' = [request EXCEPT ![c] = NoRequest]
          /\ client' = [client EXCEPT ![c] = w]
        <3>1. client = [d \in Client |-> client[d]]
            BY <1>i DEF TypeOK
        <3> QED
            BY <1>5, <3>1 DEF Answer, Root
    <2>2. w = [x EXCEPT !.todo = Tail(@), !.accepted = @ + y.accepted,
                        !.skipped = @ + y.skipped]
        OBVIOUS
    <2> HIDE DEF w, x, y
    <2>3. y # NoRequest
        BY <1>r, <2>1
    <2>4. PICK ya, ys, xa, xs, xt : /\ ya = x.accepted + y.accepted
                                    /\ ys = x.skipped + y.skipped /\ xt = Tail(x.todo)
        OBVIOUS
    <2>5. w = [x EXCEPT !.todo = xt, !.accepted = ya, !.skipped = ys]
        BY <2>2, <2>4
    <2>6. /\ w.status = x.status /\ w.planned = x.planned /\ w.todo = xt
          /\ w.accepted = ya /\ w.skipped = ys
        BY <1>r, <2>5 DEF IsClient
    <2>7. AccountOf(w, NoRequest, Stored)
        BY <1>a, <1>h, <2>1, <2>3, <2>4, <2>6, AccountAnswered
    <2>8. /\ AccountOf(client'[c], request'[c], Stored')
          /\ \A d \in Client : d # c => client'[d] = client[d] /\ request'[d] = request[d]
        BY <1>d, <1>w, <1>z, <2>1, <2>7
    <2> QED
        BY <1>d, <2>8, OneAccount
<1> QED
    BY <1>1, <1>2, <1>3, <1>4, <1>5

LEMMA LookingAccounts ==
    ASSUME Inductive, Accounts, NEW c \in Client,
           \/ FindByOrigin(c) \/ FindBySlug(c) \/ CompareOrigin(c) \/ NumberSlug(c)
           \/ CreateForAgent(c) \/ Attach(c)
    PROVE  Accounts'
<1>i. TypeOK
    BY DEF Inductive
<1>1. /\ UNCHANGED <<client, doc>> /\ request[c] # NoRequest
      /\ \E z : request' = [request EXCEPT ![c] = z] /\ SameFiles(request[c], z)
    BY <1>i, Looks
<1>2. PICK z : request' = [request EXCEPT ![c] = z] /\ SameFiles(request[c], z)
    BY <1>1
<1>3. request'[c] = z /\ \A d \in Client : d # c => request'[d] = request[d]
    BY <1>i, <1>2, OneRequest
<1>4. Stored' = Stored
    BY <1>1 DEF Stored
<1>5. ASSUME client[c].status \in {"uploading", "done"}
      PROVE  AccountOf(client[c], z, Stored)
    <2>1. AccountOf(client[c], request[c], Stored)
        BY <1>5 DEF Accounts
    <2> QED
        BY <1>1, <1>2, <2>1, AccountStands
<1> QED
    BY <1>1, <1>3, <1>4, <1>5, OneAccount

LEMMA FileAccounts ==
    ASSUME Inductive, Accounts, NEW c \in Client,
           SkipFile(c) \/ IndexFile(c) \/ EndRoot(c)
    PROVE  Accounts'
<1> DEFINE x == client[c]
           y == request[c]
           r == Root(c)
           z(a, s) == [y EXCEPT !.roots = <<[r EXCEPT !.files = Tail(r.files)]>> \o Tail(@),
                                !.accepted = a, !.skipped = s]
<1>i. TypeOK /\ RequestsHoldTokens
    BY DEF Inductive
<1>r. /\ y.pc = "files" /\ y # NoRequest /\ UNCHANGED client
      /\ IsRequest(y) /\ x.status = "uploading" /\ r = Head(y.roots)
    <2>1. y.pc = "files" /\ UNCHANGED client
        BY DEF SkipFile, IndexFile, EndRoot, Step
    <2>2. IsRequest(y) /\ NoRequest.pc = "none"
        BY <1>i, ClientRow
    <2> QED
        BY <1>i, <2>1, <2>2 DEF RequestsHoldTokens, Root
<1>a. AccountOf(x, y, Stored)
    BY <1>r DEF Accounts
<1>z. \A v : request' = [request EXCEPT ![c] = v] =>
            request'[c] = v /\ \A d \in Client : d # c => request'[d] = request[d]
    BY <1>i, OneRequest
<1>n. ASSUME NEW a, NEW s
      PROVE  /\ z(a, s) # NoRequest /\ z(a, s).accepted = a /\ z(a, s).skipped = s
             /\ z(a, s).roots = <<[r EXCEPT !.files = Tail(r.files)]>> \o Tail(y.roots)
    <2>1. PICK u : u = <<[r EXCEPT !.files = Tail(r.files)]>> \o Tail(y.roots)
        OBVIOUS
    <2>2. z(a, s) = [y EXCEPT !.roots = u, !.accepted = a, !.skipped = s]
        BY <2>1
    <2> HIDE DEF z, y
    <2>3. /\ z(a, s).pc = y.pc /\ z(a, s).accepted = a /\ z(a, s).skipped = s
          /\ z(a, s).roots = u
        BY <1>r, <2>2 DEF IsRequest
    <2> QED
        BY <1>r, <2>1, <2>3 DEF NoRequest
<1>1. CASE SkipFile(c)
    <2>1. /\ request' = [request EXCEPT ![c] = z(y.accepted, y.skipped + 1)]
          /\ r.files # <<>> /\ UNCHANGED doc
        BY <1>1 DEF SkipFile, Step, NextFile
    <2> HIDE DEF z, x, y, r
    <2>2. AccountOf(x, z(y.accepted, y.skipped + 1), Stored)
        BY <1>a, <1>n, <1>r, <2>1, AccountNext
    <2>3. Stored' = Stored
        BY <2>1 DEF Stored
    <2>4. /\ AccountOf(client'[c], request'[c], Stored')
          /\ \A d \in Client : d # c => client'[d] = client[d] /\ request'[d] = request[d]
        BY <1>r, <1>z, <2>1, <2>2, <2>3 DEF x
    <2> QED
        BY <2>3, <2>4, OneAccount
<1>2. CASE IndexFile(c)
    <2> DEFINE row == [project |-> request[c].project, file |-> File(c),
                       origin |-> request[c].origin, waiting |-> TRUE]
    <2>1. /\ request' = [request EXCEPT ![c] = z(y.accepted + 1, y.skipped)]
          /\ r.files # <<>>
          /\ \/ doc' = Put(row)
             \/ doc' = doc /\ \E i \in DOMAIN doc : doc[i].file = row.file
        BY <1>2 DEF IndexFile, Step, NextFile
    <2>2. row.file = Head(r.files) /\ IsDoc(row)
        BY DEF File, IsDoc
    <2> HIDE DEF z, x, y, r, row
    <2>3. Stored \subseteq Stored' /\ Head(r.files) \in Stored'
        <3>1. CASE doc' = Put(row)
            BY <1>i, <2>2, <3>1, PutFiles DEF Stored
        <3>2. CASE doc' = doc /\ \E i \in DOMAIN doc : doc[i].file = row.file
            BY <2>2, <3>2 DEF Stored
        <3> QED
            BY <2>1, <3>1, <3>2
    <2>4. AccountOf(x, y, Stored')
        BY <1>a, <2>3, AccountStands
    <2>5. AccountOf(x, z(y.accepted + 1, y.skipped), Stored')
        BY <1>n, <1>r, <2>1, <2>3, <2>4, AccountNext
    <2>6. /\ AccountOf(client'[c], request'[c], Stored')
          /\ \A d \in Client : d # c => client'[d] = client[d] /\ request'[d] = request[d]
        BY <1>r, <1>z, <2>1, <2>5 DEF x
    <2> QED
        BY <2>3, <2>6, OneAccount
<1>3. CASE EndRoot(c)
    <2> DEFINE v == [y EXCEPT !.pc = "origin", !.roots = Tail(@)]
    <2>1. /\ request' = [request EXCEPT ![c] = v]
          /\ r.files = <<>> /\ Len(y.roots) > 1 /\ UNCHANGED doc
        BY <1>3 DEF EndRoot, Step
    <2>2. PICK u : u = Tail(y.roots)
        OBVIOUS
    <2>3. v = [y EXCEPT !.pc = "origin", !.roots = u]
        BY <2>2
    <2> HIDE DEF v, y, x, r
    <2>4. /\ v.pc = "origin" /\ v.roots = u /\ v.accepted = y.accepted
          /\ v.skipped = y.skipped
        BY <1>r, <2>3 DEF IsRequest
    <2>5. v # NoRequest
        BY <2>4 DEF NoRequest
    <2>6. AccountOf(x, v, Stored)
        BY <1>a, <1>r, <2>1, <2>2, <2>4, <2>5, AccountEnds
    <2>7. Stored' = Stored
        BY <2>1 DEF Stored
    <2>8. /\ AccountOf(client'[c], request'[c], Stored')
          /\ \A d \in Client : d # c => client'[d] = client[d] /\ request'[d] = request[d]
        BY <1>r, <1>z, <2>1, <2>6, <2>7 DEF x
    <2> QED
        BY <2>7, <2>8, OneAccount
<1> QED
    BY <1>1, <1>2, <1>3

\* Users and reviewers do not touch it.
LEMMA UsersAccounts ==
    ASSUME Accounts, UNCHANGED <<client, request>>, Stored \subseteq Stored'
    PROVE  Accounts'
<1>1. ASSUME NEW d \in Client, client[d].status \in {"uploading", "done"}
      PROVE  AccountOf(client[d], request[d], Stored')
    <2>1. AccountOf(client[d], request[d], Stored)
        BY <1>1 DEF Accounts
    <2> QED
        BY <2>1, AccountStands
<1> QED
    BY <1>1 DEF Accounts

LEMMA AccountsSteps ==
    ASSUME Inductive, Accounts, [Next]_vars
    PROVE  Accounts'
<1>1. CASE UNCHANGED vars
    <2>1. UNCHANGED <<client, request>> /\ Stored \subseteq Stored'
        BY <1>1 DEF vars, Stored
    <2> QED
        BY <2>1, UsersAccounts
<1>2. ASSUME \/ \E o \in Org, n \in Name : CreateProject(o, <<n>>)
             \/ \E o \in Org :
                    \E slugs \in SUBSET {project[p].slug : p \in DOMAIN project},
                       tools \in {DailyTools, DailyTools \cup {"index_local"}} :
                            CreateToken(o, slugs, tools)
             \/ \E t \in DOMAIN token : RevokeToken(t) \/ ExpireToken(t)
      PROVE  Accounts'
    <2>1. UNCHANGED <<client, request, doc>>
        BY <1>2 DEF CreateProject, CreateToken, RevokeToken, ExpireToken
    <2>2. Stored \subseteq Stored'
        BY <2>1 DEF Stored
    <2> QED
        BY <2>1, <2>2, UsersAccounts
<1>3. ASSUME NEW i \in DOMAIN doc, Review(i)
      PROVE  Accounts'
    <2> DEFINE e == [doc[i] EXCEPT !.waiting = FALSE]
    <2>1. doc \in Seq(Range(doc)) /\ IsDoc(doc[i])
        BY DEF Inductive, TypeOK
    <2>2. doc' = [doc EXCEPT ![i] = e] /\ UNCHANGED <<client, request>>
        BY <1>3 DEF Review
    <2>3. e.file = doc[i].file
        <3>1. PICK d : d = doc[i]
            OBVIOUS
        <3>2. [d EXCEPT !.waiting = FALSE].file = d.file
            BY <2>1, <3>1 DEF IsDoc
        <3> QED
            BY <3>1, <3>2
    <2> HIDE DEF e
    <2>4. /\ DOMAIN doc' = DOMAIN doc /\ doc'[i] = e
          /\ \A j \in DOMAIN doc : j # i => doc'[j] = doc[j]
        BY <2>1, <2>2, ChangedRow
    <2>5. \A j \in DOMAIN doc : doc'[j].file = doc[j].file
        BY <2>3, <2>4
    <2>6. Stored \subseteq Stored'
        BY <2>4, <2>5 DEF Stored
    <2> QED
        BY <2>2, <2>6, UsersAccounts
<1> QED
    BY <1>1, <1>2, <1>3, LaptopAccounts, LookingAccounts, FileAccounts DEF Next

\* index-here, upload_plans: an upload that ended well sent every file it
\* planned, once and in some batch, and one that no project has was reported as
\* skipped, however the limits cut the upload and whatever the server refused.
THEOREM Accounted == Spec => []UploadIsAccounted
<1>1. Init => Accounts
    <2>1. IdleClient.status = "idle"
        BY DEF IdleClient
    <2> QED
        BY <2>1 DEF Init, Accounts
<1>2. Inductive /\ Accounts /\ [Next]_vars => Accounts'
    BY AccountsSteps
<1>3. Accounts => UploadIsAccounted
    <2> SUFFICES ASSUME Accounts, NEW c \in Client, client[c].status = "done"
                 PROVE  /\ client[c].accepted + client[c].skipped = Len(client[c].planned)
                        /\ Cardinality({i \in DOMAIN client[c].planned :
                                \A d \in DOMAIN doc : doc[d].file # client[c].planned[i]})
                             <= client[c].skipped
        BY DEF UploadIsAccounted
    <2> DEFINE x == client[c]
    <2>1. AccountOf(x, request[c], Stored) /\ x.status = "done"
        BY DEF Accounts
    <2> HIDE DEF x
    <2>2. /\ x.todo = <<>> /\ x.todo \in Packs(PlannedRoot) /\ request[c] = NoRequest
          /\ x.accepted \in Nat /\ x.skipped \in Nat
          /\ Tally(x.planned, x.accepted + x.skipped + (NoRequest.accepted + NoRequest.skipped),
                   x.skipped + NoRequest.skipped, LeftOf(x, NoRequest), Stored)
        BY <2>1 DEF AccountOf
    <2>3. NoRequest.accepted = 0 /\ NoRequest.skipped = 0
        BY DEF NoRequest
    <2>4. LeftOf(x, NoRequest) = <<>>
        <3>1. <<>> \in Seq(Seq(PlannedRoot))
            OBVIOUS
        <3>2. AllFiles(<<>>) = <<>>
            BY <3>1, AllTheirRoots
        <3> QED
            BY <2>2, <3>2 DEF LeftOf
    <2>5. PICK n, p : n = x.accepted + x.skipped /\ p = x.planned
        OBVIOUS
    <2>6. n \in Nat /\ Tally(p, n, x.skipped, <<>>, Stored)
        BY <2>2, <2>3, <2>4, <2>5
    <2>7. /\ p \in Seq(LocalFile) /\ Len(p) = n
          /\ Cardinality({i \in 1..n : p[i] \notin Stored}) <= x.skipped
        BY <2>6 DEF Tally
    <2>8. {i \in 1..n : p[i] \notin Stored}
            = {i \in DOMAIN p : \A d \in DOMAIN doc : doc[d].file # p[i]}
        BY <2>7 DEF Stored
    <2> QED
        BY <2>5, <2>7, <2>8 DEF x
<1> QED
    BY <1>1, <1>2, <1>3, LocalIndexInvariance, PTL DEF Spec
=============================================================================
