---------------------------- MODULE CandidateImage ----------------------------
(***************************************************************************)
(* How a transaction makes the next image of the metadata database: the    *)
(* engine writes to an overlay of its parent (otmp/src/cow_writer.rs), the *)
(* overlay is frozen into the pages that changed, and the pages become an  *)
(* update of the page map or, when that would be no smaller, a new full    *)
(* checkpoint (otmp/src/runtime.rs, finish_candidate).                     *)
(*                                                                         *)
(* A page is PageCells cells, the grain at which a file may be truncated.  *)
(* The first cell of page 1 is the number of pages in the file's header.   *)
(* `file' is what the engine believes the file to be and `published' the   *)
(* pages of the image at HEAD.                                             *)
(*                                                                         *)
(* A transaction is built on the image at HEAD in one call that awaits     *)
(* nothing, from objects that never change, so the others wait while one   *)
(* is built: to build later on an old parent is to build now and be slow   *)
(* to upload. Its artifacts are then uploaded one at a time, and the       *)
(* candidates in flight race for HEAD. A loser begins again on the winner. *)
(***************************************************************************)
EXTENDS PageImage

CONSTANTS Values,          \* what a cell may be written with
          Scenarios        \* bounds, one of which a behaviour keeps to:
                           \*   pages         that may be written
                           \*   genesis       pages of the first image
                           \*   transactions  candidates begun
                           \*   inFlight      candidates at once
                           \*   writes        of all candidates together
                           \*   uploadsFail   whether uploads fail and writers die

PageCells == 2

VARIABLES bound,       \* the scenario
          image,       \* the image at HEAD
          revision,    \* the root revision of HEAD
          published,   \* pages of the file when that image was built
          store,       \* objects uploaded
          candidates,  \* candidates built and neither published nor given up
          overlay,     \* the overlay of the one being built, or None
          file,        \* cells of the file as the engine sees it
          begun,       \* candidates begun, and the last id given out
          writes       \* writes so far

vars == <<bound, image, revision, published, store, candidates, overlay, file, begun, writes>>
headVars == <<bound, image, revision, published>>

None == <<>>
Content(v) == [j \in 1..PageCells |-> v]
Blank == [j \in 1..PageCells |-> 0]
PageOf(pos) == ((pos - 1) \div PageCells) + 1
CellOf(pos) == ((pos - 1) % PageCells) + 1
PagesOf(length) == (length + PageCells - 1) \div PageCells

FirstPages(n) == [p \in 1..n |-> [Blank EXCEPT ![1] = IF p = 1 THEN n ELSE p]]

(* An image of its own: the checkpoint has a new name, and its index and   *)
(* itself are the artifacts.                                               *)
CheckpointObject(id) == <<"checkpoint", id>>

FullImage(id, pages) ==
    LET index == CheckpointIndex(pages)
    IN  [image |-> [checkpoint |-> pages, id |-> id, index |-> index.root,
                    tree |-> NoTree, count |-> Len(pages)],
         uploads |-> Append(index.artifacts, CheckpointObject(id))]

Init ==
    /\ bound \in Scenarios
    /\ published = FirstPages(bound.genesis)
    /\ image = FullImage(0, published).image
    /\ store = ToSet(FullImage(0, published).uploads)
    /\ revision = 0
    /\ candidates = {}
    /\ overlay = None
    /\ file = <<>>
    /\ begun = 0
    /\ writes = 0

-----------------------------------------------------------------------------
(* The overlay.                                                            *)

NewOverlay ==
    [parent |-> Resolved(image), pages |-> <<>>, failed |-> FALSE,
     length |-> image.count * PageCells, limit |-> image.count * PageCells]

(* Overlay::read_at, a page at a time: zero beyond the end, then the pages *)
(* written, then the parent as far as it was never cut off.                *)
PageAt(o, p) ==
    [j \in 1..PageCells |->
        LET pos == (p - 1) * PageCells + j
        IN  IF pos > o.length THEN 0
            ELSE IF p \in DOMAIN o.pages THEN o.pages[p][j]
            ELSE IF pos <= o.limit THEN o.parent[p][j]
            ELSE 0]

WithPages(o, run, content) ==
    [o EXCEPT !.pages = [q \in DOMAIN @ \cup run |-> IF q \in run THEN content ELSE @[q]],
              !.length = Max({@} \cup {p * PageCells : p \in run})]

(* Mutant: what was cut off reappears when the file grows again.           *)
TruncatedKeepsParent(o, length) ==
    [o EXCEPT !.pages = Only(@, 1..PagesOf(length)), !.length = length]

(* The page the cut goes through keeps its first cells and is zero beyond. *)
Truncated(o, length) ==
    LET p == (length \div PageCells) + 1
        cut == [j \in 1..PageCells |-> IF j <= length % PageCells THEN PageAt(o, p)[j] ELSE 0]
        kept == IF length % PageCells = 0 THEN o.pages ELSE WithPages(o, {p}, cut).pages
    IN  IF length >= o.length THEN [o EXCEPT !.length = length]
        ELSE [o EXCEPT !.pages = Only(kept, 1..PagesOf(length)),
                       !.limit = Min({@, length}), !.length = length]

(* What may differ from the parent: the pages written and all beyond what  *)
(* is left of the parent.                                                  *)
Touched(o) == DOMAIN o.pages \cup ((o.limit \div PageCells) + 1)..PagesOf(o.length)

(* close_and_freeze: the pages that differ.                                *)
Changed(o) ==
    LET new == {p \in Touched(o) : /\ (p - 1) * PageCells < o.length
                                   /\ p \in DOMAIN o.parent => PageAt(o, p) # o.parent[p]}
    IN  [p \in new |-> PageAt(o, p)]

(* FrozenImage::materialize.                                               *)
Materialized(o, changed) ==
    [p \in 1..PagesOf(o.length) |-> IF p \in DOMAIN changed THEN changed[p] ELSE o.parent[p]]

-----------------------------------------------------------------------------
(* The engine's file, for reference.                                       *)

FileWritten(f, run, content) ==
    [pos \in 1..Max({Len(f)} \cup {p * PageCells : p \in run}) |->
        IF PageOf(pos) \in run THEN content[CellOf(pos)]
        ELSE IF pos <= Len(f) THEN f[pos] ELSE 0]

FileTruncated(f, length) == [pos \in 1..length |-> IF pos <= Len(f) THEN f[pos] ELSE 0]

FilePages(f) ==
    [p \in 1..(Len(f) \div PageCells) |-> [j \in 1..PageCells |-> f[(p - 1) * PageCells + j]]]

-----------------------------------------------------------------------------
Begin ==
    /\ overlay = None /\ begun < bound.transactions /\ Cardinality(candidates) < bound.inFlight
    /\ overlay' = NewOverlay
    /\ file' = [pos \in 1..(image.count * PageCells) |-> overlay'.parent[PageOf(pos)][CellOf(pos)]]
    /\ begun' = begun + 1
    /\ UNCHANGED <<headVars, store, candidates, writes>>

Writing == overlay # None /\ writes < bound.writes /\ writes' = writes + 1

(* write_pages: a run of pages, which write_page writes one by one.        *)
WritePages(first, last, v) ==
    /\ Writing
    /\ overlay' = WithPages(overlay, first..last, Content(v))
    /\ file' = FileWritten(file, first..last, Content(v))
    /\ UNCHANGED <<headVars, store, candidates, begun>>

(* capture: once a write failed the overlay has failed, whatever the       *)
(* engine makes of it.                                                     *)
Captured(o) == [o EXCEPT !.failed = TRUE]

(* A write of the run does not happen; the engine may go on as if it had.  *)
WriteFails(first, last, v) ==
    /\ Writing
    /\ overlay' = Captured(WithPages(overlay, first..(last - 1), Content(v)))
    /\ file' = FileWritten(file, first..last, Content(v))
    /\ UNCHANGED <<headVars, store, candidates, begun>>

Truncate(length) ==
    /\ Writing
    /\ overlay' = Truncated(overlay, length)
    /\ file' = FileTruncated(file, length)
    /\ UNCHANGED <<headVars, store, candidates, begun>>

Incremental(tree, count) == tree # NoTree /\ ReachableBytes(tree) < PageBytes * count

Listed(S) == FoldSet(LAMBDA a, q : Append(q, a), <<>>, S)

(* Mutant: what another candidate is about to upload is left to it.        *)
InUriOrderOnce(artifacts) == Listed(artifacts \ UNION {ToSet(c.uploads) : c \in candidates})

(* The order of the names, which begin with the kind of object; that of    *)
(* the hashes is any, and one is taken.                                    *)
InUriOrder(artifacts) ==
    LET maps == {a \in artifacts : a[1] = "page_map"}
    IN  Listed(maps) \o Listed(artifacts \ maps)

(* The next image and what is to be uploaded for it.                       *)
NextImage(o, changed, count) ==
    LET next == Persist(image.tree, changed, count)
    IN  IF Incremental(next.tree, count)
        THEN [image |-> [image EXCEPT !.tree = next.tree, !.count = count],
              uploads |-> InUriOrder(next.artifacts)]
        ELSE FullImage(begun, Materialized(o, changed))

(* Committing writes the header; then the overlay is frozen and the        *)
(* candidate made.                                                         *)
Finish ==
    /\ overlay # None
    /\ ~overlay.failed
    /\ overlay.length > 0 /\ overlay.length % PageCells = 0
    /\ LET count == overlay.length \div PageCells
           header == [PageAt(overlay, 1) EXCEPT ![1] = count]
           last == WithPages(overlay, {1}, header)
           next == NextImage(last, Changed(last), count)
       IN  candidates' = candidates \cup
              {[id |-> begun, parent |-> revision, image |-> next.image, uploads |-> next.uploads,
                pages |-> FilePages(FileWritten(file, {1}, header))]}
    /\ overlay' = None
    /\ file' = <<>>
    /\ UNCHANGED <<headVars, store, begun, writes>>

(* A failed or unaligned overlay is refused, and any transaction may be    *)
(* given up.                                                               *)
Abandon ==
    /\ overlay # None
    /\ overlay' = None
    /\ file' = <<>>
    /\ UNCHANGED <<headVars, store, candidates, begun, writes>>

Without(c) == candidates \ {c}

(* put_immutable: an object that is there already is as good as created.   *)
PutImmutable(c) ==
    /\ overlay = None
    /\ c.uploads # <<>>
    /\ store' = store \cup {Head(c.uploads)}
    /\ candidates' = Without(c) \cup {[c EXCEPT !.uploads = Tail(@)]}
    /\ UNCHANGED <<headVars, overlay, file, begun, writes>>

Uploaded(c) == overlay = None /\ c.uploads = <<>>

(* HEAD is still the parent's and becomes the candidate's.                 *)
ReplaceHead(c) ==
    /\ Uploaded(c)
    /\ revision = c.parent
    /\ image' = c.image /\ published' = c.pages /\ revision' = revision + 1
    /\ candidates' = Without(c)
    /\ UNCHANGED <<bound, store, overlay, file, begun, writes>>

(* HEAD has moved: the candidate is dropped with all it uploaded left      *)
(* behind; to rebase is to begin again on the winner.                      *)
LoseHead(c) ==
    /\ Uploaded(c)
    /\ revision # c.parent
    /\ candidates' = Without(c)
    /\ UNCHANGED <<headVars, store, overlay, file, begun, writes>>

(* An upload fails or the writer dies, after any number of uploads.        *)
GiveUp(c) ==
    /\ bound.uploadsFail
    /\ overlay = None
    /\ candidates' = Without(c)
    /\ UNCHANGED <<headVars, store, overlay, file, begun, writes>>

Stopped ==
    /\ overlay = None /\ candidates = {} /\ begun = bound.transactions
    /\ UNCHANGED vars

Next ==
    \/ Begin
    \/ \E first, last \in 2..bound.pages, v \in Values :
          first <= last /\ (WritePages(first, last, v) \/ WriteFails(first, last, v))
    \/ \E n \in 0..(bound.pages * PageCells) : Truncate(n)
    \/ Finish
    \/ Abandon
    \/ \E c \in candidates : PutImmutable(c) \/ ReplaceHead(c) \/ LoseHead(c) \/ GiveUp(c)
    \/ Stopped

Spec == Init /\ [][Next]_vars

-----------------------------------------------------------------------------
(* The overlay reads as the file the engine wrote, through every mixture   *)
(* of writes, cuts within a page and growth, until a write fails.          *)
OverlayIsFile ==
    overlay # None /\ ~overlay.failed =>
        /\ overlay.length = Len(file)
        /\ \A pos \in 1..Len(file) : PageAt(overlay, PageOf(pos))[CellOf(pos)] = file[pos]

(* The published image is accepted by resolve_generation and is the file   *)
(* of the last transaction that succeeded, page for page.                  *)
ResolvesToPublished ==
    /\ Resolves(image)
    /\ Resolved(image) = published
    /\ published[1][1] = image.count

(* The reader, which walks the trees page by page, reads the same image.   *)
ReaderAgrees == \A p \in 1..image.count : PageRead(image, p) = published[p]

(* Everything that the image at HEAD refers to is in the store, although a *)
(* candidate uploads only what it built and takes the rest from its        *)
(* parent, and although candidates that failed midway or lost the race     *)
(* left some of the same objects there and not others.                     *)
ImageStored ==
    Reachable(image.tree) \cup IndexReads(image.index) \cup {CheckpointObject(image.id)}
        \subseteq store
===============================================================================
