--------------------------- MODULE SourceMirror ---------------------------
(***************************************************************************)
(* What Git ingestion promises of a source, without jobs, workers, leases  *)
(* or crashes: the documents of the source are one manifest, all of it or  *)
(* nothing; a request is answered by a HEAD at least as new as when it was *)
(* made and by files each of which the working tree has shown since, or    *)
(* given up without a trace; the mirror never goes back to an older HEAD.  *)
(* It does not promise that the files are those of one commit.             *)
(***************************************************************************)
EXTENDS Naturals

CONSTANTS Source, Path, Hash, MaxRev, NoFile, NoRequest

VARIABLES
    head,       \* head[s]: the HEAD of the repository, counted
    shown,      \* shown[s]: what a reader of its files may find now
    mirror,     \* mirror[s]: the manifest the source says it has indexed
    content,    \* content[s][p]: the content of the document for path p
    floor,      \* floor[s]: the oldest HEAD that answers the open request
    since       \* since[s]: what the files have shown since it was made

mirrorVars == <<head, shown, mirror, content, floor, since>>

Finding == Path \X (Hash \cup {NoFile})
MirrorFiles == [Path -> Hash \cup {NoFile}]
MirrorManifest == [rev : 0..MaxRev, files : MirrorFiles]
Blank == [rev |-> 0, files |-> [p \in Path |-> NoFile]]

MirrorInit ==
    /\ head = [s \in Source |-> 0]
    /\ shown \in [Source -> SUBSET Finding]
    /\ mirror = [s \in Source |-> Blank]
    /\ content = [s \in Source |-> Blank.files]
    /\ floor = [s \in Source |-> NoRequest]
    /\ since = [s \in Source |-> {}]

MoveHead(s) ==
    /\ head' = [head EXCEPT ![s] = @ + 1]
    /\ UNCHANGED <<shown, mirror, content, floor, since>>

Edit(s) ==
    /\ \E now \in SUBSET Finding :
        /\ shown' = [shown EXCEPT ![s] = now]
        /\ since' = IF floor[s] = NoRequest THEN since
                    ELSE [since EXCEPT ![s] = @ \cup now]
    /\ UNCHANGED <<head, mirror, content, floor>>

Request(s) ==
    /\ floor[s] = NoRequest
    /\ floor' = [floor EXCEPT ![s] = head[s]]
    /\ since' = [since EXCEPT ![s] = shown[s]]
    /\ UNCHANGED <<head, shown, mirror, content>>

Publish(s) ==
    /\ floor[s] # NoRequest
    /\ \E m \in MirrorManifest :
        /\ floor[s] <= m.rev /\ m.rev <= head[s]
        /\ mirror[s].rev <= m.rev
        /\ \A p \in Path : <<p, m.files[p]>> \in since[s]
        /\ mirror' = [mirror EXCEPT ![s] = m]
        /\ content' = [content EXCEPT ![s] = m.files]
    /\ floor' = [floor EXCEPT ![s] = NoRequest]
    /\ UNCHANGED <<head, shown, since>>

GiveUp(s) ==
    /\ floor[s] # NoRequest
    /\ floor' = [floor EXCEPT ![s] = NoRequest]
    /\ UNCHANGED <<head, shown, mirror, content, since>>

MirrorNext ==
    \E s \in Source : MoveHead(s) \/ Edit(s) \/ Request(s) \/ Publish(s) \/ GiveUp(s)

MirrorSpec == MirrorInit /\ [][MirrorNext]_mirrorVars
=============================================================================
