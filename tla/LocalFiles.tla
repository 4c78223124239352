----------------------------- MODULE LocalFiles -----------------------------
(***************************************************************************)
(* What index-here does on the laptop before it sends anything: it finds   *)
(* the Git work trees under a directory, plans the tracked files of each   *)
(* that pass the gates, and packs them into batches under the limits of    *)
(* the server, which applies the gates again.                              *)
(*                                                                         *)
(* A directory is a sequence of names; a file has a directory, a name, an  *)
(* extension, a size and a body that may be blank.  Hashes are left out:   *)
(* both sides compute them from the same body.                             *)
(***************************************************************************)
EXTENDS Naturals, SequencesExt

CONSTANTS
    DefaultExt,   \* DEFAULT_ALLOWED_EXTENSIONS
    DeniedName,   \* DENIED_PATH_COMPONENTS, and ".."
    DeniedFile,   \* LOCKFILE_NAMES, and ".env" files
    MaxSize,      \* MAX_LOCAL_FILE_BYTES
    MaxFiles,     \* MAX_FILES_PER_REQUEST
    MaxRoots,     \* MAX_ROOTS
    MaxBytes      \* MAX_BATCH_BYTES

\* A tracked file.
LocalFile == [dir : Seq(STRING), name : STRING, ext : STRING, size : Nat,
              blank : BOOLEAN]

---------------------------------------------------------------------------
(* Gates.                                                                  *)

\* should_index_local_file_with_extensions; an empty list means the default.
ShouldIndex(f, allowed) ==
    /\ f.size <= MaxSize
    /\ (ToSet(f.dir) \cup {f.name}) \cap DeniedName = {}
    /\ f.name \notin DeniedFile
    /\ f.ext \in (IF allowed = {} THEN DefaultExt ELSE allowed)

\* The laptop may allow other extensions; the server has its default only.
ClientAccepts(f, allowed) == ShouldIndex(f, allowed) /\ ~ f.blank
ServerAccepts(f) == ShouldIndex(f, {}) /\ ~ f.blank

SamePath(f, g) == f.dir = g.dir /\ f.name = g.name

---------------------------------------------------------------------------
(* Discovery and plan.                                                     *)

\* The work tree around start, and those at most depth levels below it that
\* are not inside another one found on the way down.
DiscoverRoots(trees, start, depth) ==
    LET Around == {d \in trees : IsPrefix(d, start)}
        Below == {d \in trees : /\ IsStrictPrefix(start, d)
                                /\ Len(d) <= Len(start) + depth}
    IN {d \in Around : \A e \in Around : Len(e) <= Len(d)}
         \cup {d \in Below : \A e \in Below : ~ IsStrictPrefix(e, d)}

\* A tracked file of a root that lies in another discovered root is left to it.
InNested(f, root, roots) ==
    \E r \in roots : IsStrictPrefix(root, r) /\ IsPrefix(r, root \o f.dir)

PlanFiles(root, tracked, roots, allowed) ==
    SelectSeq(tracked, LAMBDA f : ~ InNested(f, root, roots) /\ ClientAccepts(f, allowed))

---------------------------------------------------------------------------
(* Batches.                                                                *)

\* x is put with the ones before it if it fits, or on its own.
Placed(packs, x, fits) ==
    IF packs # <<>> /\ fits
    THEN Append(Front(packs), Append(Last(packs), x))
    ELSE Append(packs, <<x>>)

\* Items in order, each put with the ones before it as long as it fits.
Pack(items, Fits(_, _)) ==
    LET packs[n \in 0..Len(items)] ==
            IF n = 0 THEN <<>>
            ELSE Placed(packs[n - 1], items[n], Fits(Last(packs[n - 1]), items[n]))
    IN packs[Len(items)]

Bytes(files) == FoldLeft(LAMBDA n, f : n + f.size, 0, files)
FilesIn(batch) == FlattenSeq([i \in DOMAIN batch |-> batch[i].files])

\* A root that exceeds a limit is sent in several pieces.
Pieces(plan) ==
    LET chunks == Pack(plan.files, LAMBDA chunk, f :
                        /\ Len(chunk) < MaxFiles
                        /\ Bytes(chunk) + f.size <= MaxBytes)
    IN [i \in DOMAIN chunks |-> [plan EXCEPT !.files = chunks[i]]]

Fits(batch, piece) ==
    /\ Len(batch) < MaxRoots
    /\ Len(FilesIn(batch)) + Len(piece.files) <= MaxFiles
    /\ Bytes(FilesIn(batch)) + Bytes(piece.files) <= MaxBytes

\* Mutant: a root that exceeds a limit loses the files beyond it.
BuildBatchesFirstPiece(plans) ==
    Pack([i \in DOMAIN SelectSeq(plans, LAMBDA p : p.files # <<>>) |->
            Head(Pieces(SelectSeq(plans, LAMBDA p : p.files # <<>>)[i]))], Fits)

BuildBatches(plans) ==
    Pack(FlattenSeq([i \in DOMAIN plans |-> Pieces(plans[i])]), Fits)
=============================================================================
