# OTMP: a TLA+ model of the table protocol

OTMP keeps a table's metadata in an object store: immutable commits, metadata
generations and SQLite images, and one mutable object, `HEAD`, that names the
current generation and is only ever replaced conditionally. This directory
models the parts of that program whose correctness depends on the order of
events, checks them with TLC on small instances and proves the most important
facts with TLAPS for instances of any size.

## The system

| Component | State | Operations | What makes it hard |
|---|---|---|---|
| Publication (`otmp/src/runtime.rs`) | `HEAD`; the immutable objects; per call: parent, rebases, lost answers | `append_files`, `commit_staged_files`, `transact`, `stage_file`, `put_immutable`, `cleanup`, `replay` | rival writers, duplicates, lost answers and late writes, failed uploads, crashes, bounded retries |
| Table transactions (`runtime/transactions.rs`, `runtime/history.rs`, `image.rs`) | refs, snapshots, live rows, schemas, field ids, properties, recorded operations | the six operations of `transact`, append and its rebase, `image::validate` | requests prepared from an older version and rebuilt on a winner; state kept up incrementally |
| Table creation (`initialize`) | `HEAD` | `create_head`, read-back | two creators, a lost answer, a successor committed meanwhile |
| Object stores (`storage.rs`, `otmp-s3`) | files, the lock, the temporary file; an S3 object and its ETag | `create_from_reader`, `create_head`, `replace_head`, `delete_if_version` | crash between rename and sync, client-side retries |
| Incremental images (`physical.rs`, `cow_writer.rs`, `checkpoint_index.rs`) | checkpoint, page packs, page-map tree, overlay | `persist`, `resolve_generation`, overlay reads and writes | tree boundaries, truncation and regrowth |
| History and verification (`runtime/history.rs`, `image.rs`) | retained generations and commits | `load_parent`, `verify_*`, `select_metadata`, `replay_semantic_commit` | commits rebuilt on a winner must replay; chains that skip, fork or repeat |
| Snapshot reader (`reader/`) | byte budget, cached and in-flight ranges | `reserve`, `get`, `insert`, `fill_range`, `copy_page` | concurrency, eviction, cancelled fills, objects that change |
| Reader engine (`reader_engine.rs`, `reader_engine_pages.rs`) | permit, failure slot, page roles | `execute`, `read`, `validate` | dropped callers, reads that never return, malformed pages |
| Provider (`otmp-datafusion/src/provider.rs`, `pruning.rs`, `schemaadapter.rs`) | per scan: cursor, descriptors, groups, checks in flight | `plan_scan`, `prune`, `bind` | paging, pruning that must lose no row, shared permits |
| Footer cache (`otmp-datafusion/src/footer.rs`) | admission budget, waiters, entries | `try_reserve`, `admit`, `shared_metadata` | reservation leaks, waiters |
| Codecs, CLI | none that outlives a call | encoding, printing | - |

A call of `append_files` or `transact` pins the table (reads `HEAD`, its
generation and its image), builds a candidate image on it (Transactions),
uploads the candidate's objects and replaces `HEAD` (Publication) through an
object store; readers pin the table the same way and resolve pages of the image.

### What makes each component correct

- **Publication**: an idempotency key commits at most once; whatever a caller is
  told stays true of the table for ever; `HEAD` advances one commit at a time and
  never names an object that is not there; every call that stays alive is answered.
- **Table transactions**: every candidate passes `image::validate`; an append lands
  only on the line of history it was prepared for; no transaction overwrites what
  it has not seen; a field id means one thing for ever.
- **Table creation**: one creator wins, the table is never replaced by another
  creation, and what the creators are told is true.
- **Object stores**: a write of `HEAD` is one atomic conditional step and its
  outcome (`Applied`, `Conflict`, `Indeterminate`) is true; no reader sees part of
  a `HEAD`.
- **Incremental images**: a page resolved through page map, pack and checkpoint is
  the page of the image that was persisted.
- **History and verification**: every published history verifies, and what is
  retained reads the same for ever.
- **Reader and footer caches**: the budget is kept, a failed or cancelled fill
  leaves nobody waiting, reservations come back on every path, nothing
  unauthenticated is handed out.
- **Reader engine**: a failure reaches the caller it belongs to, no row is made of a
  page that was not read, the engine comes free.
- **Provider**: the version wanted, every file once, no matching row lost, every
  object checked, every scan ends.

## The modules

| Module | Models | Used by |
|---|---|---|
| `CommitLog` | abstract: what publishing promises a caller | `Publication` (refinement) |
| `Publication` | `append_files`, `commit_staged_files`, `transact` from staging to the answer | `MCPublication`, `PublicationProofs` |
| `Transactions` | what requests, rebases and operations do to the image | `Verification`, `TransactionsProofs` |
| `Verification` | `validate`, `validate_commit_projection`, replay, `verify_history`, reading a retained snapshot | `MCTransactions`, `TransactionsProofs` |
| `TableCreation` | `initialize` | `MCTableCreation`, `TableCreationProofs` |
| `ConditionalHead` | abstract: what a store promises of `HEAD` | `LocalHead` (refinement) |
| `LocalHead` | `create_head`, `replace_head` of `LocalObjectStore` | `MCLocalHead`, `LocalHeadProofs` |
| `PageImage` | checkpoints, packs, page-map and index trees: build, update, resolve, read | `CandidateImage` |
| `CandidateImage` | the overlay a transaction writes to, what `finish_candidate` makes of it, and its uploads | `MCCandidateImage` |
| `ReaderCache` | page reads of a reader: budget, cache, shared range loads, authentication | `MCReaderCache`, `ReaderCacheProofs` |
| `ReaderEngine` | the reader's SQL engine: permit, cancellation, failures, page roles | `MCReaderEngine`, `ReaderEngineProofs` |
| `MetadataHistory` | which retained generation a reader, or the runtime, is pinned to | `FileListing` |
| `FileListing` | opening a reader, schemas, snapshots, paged listing, pruning, column binding | `ScanPlanning` |
| `ScanPlanning` | scans of a table provider | `MCScanPlanning`, `ScanPlanningProofs` |
| `FooterCache` | the footer cache scans share | `MCFooterCache`, `FooterCacheProofs` |

They stand on each other the way the code does: `LocalHead` shows that a
directory keeps the contract of `ConditionalHead`; `Publication` and
`TableCreation` use that contract as their `Head*`, `Create*` and `Late*` actions;
`Transactions` says what building a candidate, one step of `Publication`, does to
the rows, and `CandidateImage` what it does to the pages; `CommitLog` is what a
caller sees of it all. On the reading side `MetadataHistory` picks a generation,
`PageImage` and `ReaderCache` read its pages, `ReaderEngine` answers queries from
them, `FileListing` is what those queries say, and `ScanPlanning` plans scans with
it; the footer check of a scan is one step there and `FooterCache` its inside.

### Publication

`head` is the list of committed idempotency rows of the image that `HEAD` names, so
its length is the table version. Two `HEAD`s are equal exactly when their rows
are, because every build of a candidate mints fresh identifiers (`Cand(c)` is the
call and the number of its build). `objects` holds the immutable objects; `late`
holds conditional writes whose answer was lost and that may still land. Per call,
`parent`, `rebases`, `indeterminate` and `staged` are the locals of
`publish_transaction_from_parent` and `append_files`, and `pc` names the await the
call is at.

| Action | Code |
|---|---|
| `FirstPin`, `StageFile`, `StageFileFails`, `StagingDone`, `SecondPin` | `append_files`: pin and replay, stage, clean up after a failure, pin again and clean up if the key is there |
| `ParentPin`, `Build`, `ConfirmStaged` | pin the parent, `build_candidate` (accepted or rejected), check the staged files |
| `PutCommit`, `PutImage`, `PutGeneration` | `put_immutable`: create, or read back what is there |
| `HeadApplied`, `HeadConflict`, `HeadIndeterminate` | the three outcomes of `replace_head` |
| `Reconcile` | after a lost answer: pin, find the row, or send the same candidate again, or give up |
| `WinnerRead`, `Rebase` | after a conflict: pin the winner, replay, count the rebase, rebuild |
| `LateWriteLands`, `LateWriteFails`, `Crash` | the environment |

### Transactions and Verification

`history` holds the image of every version and `semantic` the semantic commit
objects; an image is a record of refs, snapshots, files with their metrics, live
rows, schemas and their field rows, field ids, properties and recorded commits.
`Prepare` reads the table and makes the request with the requirements it got from
there; `Begin` and `Reject` check it against the current image (`Evaluate`,
`AppendAccepted`, `MetricsValid`); `ApplyNext` and `ApplyFails` apply one operation
to a private image; `Finish` records the commit; `Publish` and `Conflict` replace
`HEAD` or start again on the winner.

`Verification` has no state of its own. `ValidImage` is `image::validate`,
`CommitProjected` is `validate_commit_projection` (one operator per function it
calls), `ReplayCommit` is `replay_semantic_commit`, `TransitionValid` and
`TailValid` are the two halves of `verify_history`, and `SnapshotFiles`,
`BranchFiles` and `VerifiedFiles` are what is read of a retained version.
`mutate_append` writes the image's current schema into the snapshot row while the
commit names the schema of the files: `SnapshotRowProjected` compares the two, and
only `validate_request` keeps them equal.

### TableCreation

`head` is the table `HEAD` belongs to, named by the call that created it, and its
version. `Upload` uploads the genesis objects, `Create*` are the outcomes of
`create_head`, `ReadConflict` and `Reconcile` the two read-backs. `Commit` is any
client that uses the table as soon as it is there.

### LocalHead

`head` is the contents of the file, `temps` the temporary files, `lock` the lock
file, `counter` the per-process counter of names. One action per system call,
each of which may fail; `Crash` kills a process with all its threads, frees its
lock and leaves its temporary file. Two processes may have the same process id,
one after the other or at once in different namespaces, so a temporary name may be
taken; `create_new` then fails. `fate` is auxiliary: it says what became of a
write, which the answer may hide.

The crashes are deaths of processes. `docs/QUALIFICATION.md` claims no more:
power loss, where an unsynced rename may be undone, is not modelled.

### PageImage and CandidateImage

Objects are named by content, so an object is its own name. `PageImage` builds and
updates the page-map tree (`leaf_nodes`, `internal_nodes`, `update`, `persist`) with
`Capacity` for the code's 128, and reads it twice over: `Resolved` is
`resolve_generation`, which flattens the tree onto the checkpoint, `PageRead` the
reader's walk to one page. `CandidateImage` has the overlay of `cow_writer.rs` as its
state: `WritePages`, `WriteFails`, `Truncate` (to any length, also within a page),
`Finish` (freeze, persist, and a new checkpoint when the update would be no
smaller) and `Abandon`. A page is two cells, the least that tells a cut within a
page from one at its end.

What the builders return are the nodes they made and the artifacts `create_tree`
registered on the way; a subtree that is shared registers nothing, and `Persist` keeps
of the registered ones those that the new root reaches. `Finish` puts a candidate in
`candidates` with its list of uploads (for a checkpoint: the nodes of its index, then
itself under a new name). `PutImmutable` uploads one object, `ReplaceHead` publishes if
`HEAD` is still the parent's, `LoseHead` drops a candidate that lost, whose rebase is
another `Begin` on the winner, and `GiveUp` is a failed upload or the death of the
writer after any number of uploads. While one candidate is built the others wait: the
build awaits nothing and reads only what is immutable, so to build later on an old
parent is to build now and be slow to upload.

### ReaderCache

A reader's program counter is the await it is at in `read_page`, `range` and
`fill_range`; `load` is the shared future of a range, `registry` the weak map of
loads in flight, `dying` the loads whose last owner is gone and whose `Drop` has not
run yet, and `cache` the first-in-first-out cache. The bytes in use are computed
from everything alive, which is what RAII makes them. `Cancel` drops a reader at any
await; `Replace` changes an object under the readers.

### ReaderEngine

`queue` and `task` are the permit of the engine and the blocking task that owns it;
`DropCaller` drops a caller at any point and its guard cancels the task. A page read
may succeed, fail, never return, and the engine may pass an error on or swallow it.
`roles` is the page validator, which learns what a page must be from the pages that
refer to it and keeps what it registered before an error.

### MetadataHistory, FileListing, ScanPlanning

`MetadataHistory` walks physical and semantic parents in step (`SelectMetadata`, the
reader's) and physical parents only (`PinMetadata`, the runtime's). `FileListing`
has the listing of a branch and of a historical snapshot as functions from a cursor
to a page (a page of a historical snapshot with a file that another snapshot created is
refused), `Keep` on metrics with absent values and NaN, and the binding of columns
by id, then name, with widening, defaults and nulls (`Reads`). `ScanPlanning` is
`plan_scan`: batches, the registry of descriptors, retained bytes, the preflight
checks in flight, the shared semaphore and cancellation.

### FooterCache

`rd` is a reader's call, `dec` a decode in flight, `reg` and `adm` the two FIFO
mutexes, `parked` the waiter inside `admit`, `order` the cached footers. Keys,
estimates and footers that something still refers to take bytes of one budget;
`BytesHeld` has each of those bytes once, named by what holds it, so that what is
in use is the size of a set. A load outlives the reader that began it as long as
another shares it.

## The runs

| Run | Question | Bounds |
|---|---|---|
| `publication_duplicates` | Do a call, its duplicate and a reuse of their key stay exactly-once under lost answers, failures and crashes, is every call answered, and does the protocol implement `CommitLog`? | 3 calls, 2 files, 1 rebase, 1 reconciliation |
| `publication_rivals` | Does the inductive invariant hold when rivals exhaust each other's rebases? | 3 calls, symmetric |
| `transactions` | Do appends, branches, tags, schemas and properties stay consistent in every order, and does every published history verify? | 5 calls, 20 scenarios |
| `local_head` | Is a write of the `HEAD` file one atomic step with a true answer, and does it return? | 5 writes, 3 processes, 2 process ids |
| `table_creation` | Is what rival creators are told true, and is each answered? | 3 calls, 1 reconciliation, 1 later commit |
| `images` | Is the published image the file that was written, for writer and reader, and is all of it in the store when candidates race, fail midway and are built again? | nodes of 2, packs of 2, 3 transactions; in turn with 7 pages and 3 writes, or 2 at once with 6 pages and 2 writes |
| `reader_cache` | Are budget, single flight and authentication kept when readers are dropped and objects replaced? | 2 readers, 2 ranges each, 1 permit |
| `reader_engine` | Do causes, cancellation and page roles stay right in a shared engine? | 2 callers, 32 images of 4 pages |
| `footer_cache` | Are the footer budget and versions kept, and is everybody answered? | 3 planning readers, 1 running query, 2 versions of a URI |
| `scan` | Is the pinned version the wanted one, and the plan exact, sound and reached? | 38 readers, 2 scans (one with 5 filters to choose from, one with 2), batches of 2 |
| `local_head_stat` | Violated: does `create_head` create only if absent? | 3 writes |
| `table_creation_denied` | Violated: does `AlreadyExists` mean that another genesis is in the way? | 2 calls |

What the newer runs show, property by property:

- `CandidatesValid`: `finish_candidate` never refuses what the code built.
  `HistoryVerifies`: `verify_history` accepts every history the code publishes, and a
  retained snapshot lists the same files for ever.
- `OverlayIsFile`, `ResolvesToPublished`, `ReaderAgrees`: from the engine's writes to
  the reader's page nothing is lost, resurrected or missing. `ImageStored`: a candidate
  uploads what it registered and nothing else; it holds because what a candidate
  reuses comes from its parent, which was published, never from the leftovers of one
  that was not. One mutant loses the nodes registered below a new level, the other
  leaves to a rival what the rival is about to upload.
- `BudgetKept` (in both caches) counts evicted entries that are still in use;
  `SingleFlight` that the registry always has the load that somebody waits for;
  `AuthenticOnly` that no changed object gets through; `EveryReadAnswered` that a
  shared future survives the reader that started it.
- `AnswersOwnCause`, `NoLostRead`, `EngineComesFree`: the failure slot and the permit
  of the engine. `RolesFormTree`: pages the validator accepted have no cycle and no
  page with two owners (every set of pages other than the root is entered from
  outside it).
- `OneVersionPerUri`, `NotRefusedForOthers`, `EveryCallAnswered`: footers of two
  versions never mix, and a reader is never refused for bytes that planning is sure
  to give back, nor left to wait for bytes that only it holds.
- `PinnedToWanted`, `PlanExact`, `NoMatchingRowLost`, `PlanValidated`,
  `EveryScanEnds`: a scan reads the version asked for, every file once, every row the
  filter lets through, only objects whose footers were checked; and it ends, also on
  damaged metadata.

Why the bounds are enough: every property of publication fails for a reason that
involves at most two calls and one rival (a duplicate and a third call that moves
`HEAD` between them), one lost answer followed by a retry, and one rebase; the
policy's limits are constants and 1 already separates "within" from "beyond" the
limit. In `Transactions` the requests are chosen to meet: the scenarios hold the
moves that return a ref or the schema to where it was, which is where comparing only
both ends goes wrong. With nodes and packs of 2, seven pages make a page map of
three levels (six suffice where candidates race), so leaf and internal splits, an emptied subtree and a shorter file
happen within three transactions. In the caches two readers of one range are the
creator and the sharer of a load, and the limits are chosen so that everything
fits alone and nothing fits twice. The histories and tables of `scan` are an explicit
list of the shapes the code distinguishes: skipped and repeated generations, forks,
cycles, files of a schema that renamed a column, a batch exactly full. Every
definition followed by a mutant (`Mutant: ...`) shows a bug of that code that the
properties catch at these bounds.

Names of bounds: `MaxRebases`, `MaxReconciliations` (the retry policy),
`FilesPerAppend`, `MaxVersion` (commits after the genesis), `MaxReads`, `Limit`,
`Permits`, `Concurrency`, `PlanningBudget`, `BatchLimit`, the `Scenarios` of images
(pages, transactions, candidates at once, writes) and the sets of calls and readers.
`Capacity`, `PackPages`, `MaxRecord` and `MaxRoles` stand for limits of the code.
Uploads fail only in the scenario with two candidates at once: what they leave behind
multiplies the states and concerns no property but `ImageStored`.

Fairness: `WF` of the steps of each call, reader or task. A call is a task that
awaits one operation at a time, each of which resolves in some way, so a step that
stays enabled is taken; nothing is assumed of which outcome it has, of rivals, of
late writes, of processes that die or of callers that are dropped. In `LocalHead`,
`WF(Progress(w))` also covers a thread that waits for the lock: it gets it if it
stays free. `lock_exclusive` does not promise more, and with finitely many writes no
more is needed. In the caches and in `ScanPlanning` one `WF` of all progress
together is enough, because every call is finite. In `ReaderEngine` the store owes
no answer: only the engine's task and the hand-over of the permit are fair. In
`FooterCache` planning drops what it has read, a running query need not.

Deadlock is checked everywhere; a behaviour ends in an explicit idle step once all
calls have ended.

## What is proved

TLAPS proves the following for every set of calls, keys, requests, processes, readers,
paths, files, page images and every cost and limit, from the named assumptions on the
constants alone (`ConstantsAssumption`, `CreationAssumption`, `LocalHeadAssumption`,
`GenesisSchemaAssumption`, `ScenariosAssumption`, `CacheAssumption`,
`EngineAssumption`, `FooterAssumption`, `ListingAssumption`, `PlanningAssumption`,
`ReadersAssumption`). They say that sizes and limits are natural numbers, that readers
are finitely many where bytes are counted, that a page refers to pages by number, that
a transaction asks for a sequence of the six operations of `transact`, that the
metrics of an append and the fields of a schema are lists, that the schema of a new
table is valid (`initialize` checks it; for a schema added later the model checks it
where the code does), and, of a table that is scanned, that its ids are positive
numbers and its rows finitely many, that every generation and commit that is referred
to is in the store, that a filter compares columns of the query with values, and that
the metrics a writer recorded are true of the columns of its file. The table may be
damaged in every other way: the code's own checks, not an assumption, are what the
theorems rest on.

- `PublicationProofs`: `TypeCorrect`, `HeadAdvances`, `Invariance`, `ExactlyOnce`,
  `OkIsTrue`, `DefiniteErrorsAreDefinite`, `HeadNeverDangles` and `Refinement`
  (`Publication` implements `CommitLog`).
- `TransactionsProofs`: `FieldIdsIntroduced`, `AllChangesRecorded`,
  `NothingStaleWritten`, `AppendsOnLine`, `CandidatesPinnable`, `HistoryAccepted`.
- `TableCreationProofs`: `CreatorsAnsweredTruly`, `OwnTableDenied`, `TableStays`.
- `LocalHeadProofs`: `HeadNeverPartial` and, when asking whether `HEAD` exists
  does not fail, `LocalHeadRefinement` (`LocalHead` implements `ConditionalHead`).
- `ReaderCacheProofs`: `LoadedOnce`, `PagesAuthentic`, `WithinLimit`.
- `ReaderEngineProofs`: `CausesAreOwn`, `NoReadIsLost`, `RolesAreTree`.
- `FooterCacheProofs`: `OneVersion`, `PlanningNotRefused`, `WithinBudget`.
- `ScanPlanningProofs`: `EveryFileOnce`, `NoRowLost`, `ObjectsValidated`, `PinnedAsWanted`.

**Publication.** None of the safety properties is inductive: that a key commits
once depends on what the images that calls and late writes hold have seen.
`PublicationInv` adds: every image a call or a late write was built on is an
earlier `HEAD` (`ImagesNotAhead`); a candidate's parent lacks its key
(`ParentLacksKey`); a call that reads a winner has a parent that `HEAD` has left
behind (`WinnerAhead`); and the bookkeeping of doubt: a late write can land, and a
committed row can be unknown to its sender, only while that sender is unsure
(`LateWritesOwned`, `RowsOwned`). A conditional write lands only on the `HEAD` it
expects; with the first two facts the key it adds is new; with the last two no
caller has been told otherwise. `Uploaded` carries what is in the store from the
uploads to the commit. There is one lemma per action and conjunct it can disturb.

**Table creation.** `Knows` records what a call has lost and sent by each step:
above all, that a creation that may still land belongs to a call that counts a
lost answer, which is why a failed read after one is reported as indeterminate.
`OwnTableDenied` says that the finding below is the only one of its kind: a creator
is told `AlreadyExists` of its own table only if somebody has committed to it since.

**Local head.** `Stands` says that from the comparison to the directory sync a
write holds the lock, so the `HEAD` it compared and the temporary file it wrote
stay as they are, and that `fate` follows from how far it got. Rename is then the
one step that takes effect.

**Transactions.** The properties compare versions that may lie far apart, and the
request that led to a version was made from yet another. The invariant ties all
three together: every version is what the call its last commit names made of the
version before it, where that call's request was acceptable (`CommitsOK`); a private
image is what the operations applied so far made of a version on which the request
was acceptable, also after a rebase (`CandidateOK`); and what is true of each image by
itself, that snapshots belong to appends and every field id to the schema that
introduced it, holds of all of them (`VersionsOK`). `Derived` says what a prefix of
the operations of a transaction may have changed; its lemma is an induction over the
operations, with one lemma for each kind of operation. That an append stays on its
line then follows version by version from its base: a commit none of whose operations
names the branch leaves it alone or appends to it, and the rebase has refused all
others. `NoStaleWrite` compares snapshots, as the requirements do: a tag that was seen,
dropped and created again as a branch of the same snapshot may be moved.

What `finish_candidate` and `verify_history` check needs a second invariant,
`Checked`, on top of this one. Every version is `Sound`: sequence numbers are dense
and snapshots younger than their parents, a file was added by the snapshot it names, a
ref and its live rows are those of the ancestry of its snapshot, a schema reads back
from its rows as it was inserted, metrics are those of the file's schema, and every
commit is recorded once. Every version also `Follows` from the one before: replaying
its semantic commit there gives this very image, and the image says what the commit
says. A transaction that is partly built is `Partly` there: some operations were
applied, each acceptable to the replay on what the ones before it made, and what an
applied operation projects is still to be seen (`StaysProjected`), because no two
operations of a request touch one ref, key or schema (`Apart`). Replay accepts an
operation because the request was checked on this version (`AcceptedFits`). `Ancestry`
and the replays are recursive functions over sets that grow with the history: that the
first has a solution is proved from the falling parents (`LineExists`,
`AncestryEquation`), that a replay equals the history from agreement position by
position (`ReplayedAll`, `TailReplayed`). `HistoryAccepted` then says of an old
snapshot that it reads the same files now as when it was committed, since versions
only add to its ancestry's rows.

**Reader cache.** `SingleFlight` needs the life of a load (`Registered`): a reader waits
only for a load that is alive, the registry names only loads alive under their key,
nobody waits for a load that is being dropped, and the loads a reader has not come to
are unused, so that creating one never revives an old one. That pages are authentic
follows from the digest checks of filling and of copying, and from the fact that
eviction only removes. For the budget, everything in use is counted by finite sets
(readers at work, loads alive, buffers, pages); each action that adds to one of them
has reserved first, and the rest shrink the sets or move a buffer from one owner to
the next.

**Reader engine.** `SlotOwned` says that the failure slot is full only while the
statement that filled it runs, so a cause cannot reach the next caller and a swallowed
error is still found when the statement ends. For the roles, `SoundRoles` gives every
page but the root a page that gave it its role, which had a role first. An overflow
chain is validated in one step of any length; the proof follows it page by page.

**Footer cache.** A reader's refusal depends on bytes that others hold, so the
invariant says who can hold any. A load is at the head of the registration queue until
its estimate is admitted, and a load that lets go of the queue, or leaves a footer
behind for another load of the same file to find, has a file that fits twice
(`Roomy`). Two unfinished loads never share a URI (`LoadsApart`), which with the second
lookup under the lock also keeps versions apart. For the budget each byte has its
reasons to be held. Every step takes away holders, adds bytes after `try_reserve` found
room for them, or replaces one reason for a byte by another (an estimate shrunk to the
footer that was decoded, a footer handed from its load to the cache and to readers).

**Scans.** A plan is exact at its end only because of what every page before it held,
so the invariant (`IInv`) says what the cursor means at any moment. For a branch, what
was listed is what is live and not after the cursor. For a historical snapshot, a set
of snapshots has been read to its end, newest first with falling sequence numbers, and
the snapshot the cursor names in part (`HasRead`); each lists only files it created
itself, so no file comes twice, and at the end the set is closed under parents, hence
the ancestry of the pinned snapshot. Next to it stand: descriptors are those of the
files listed so far and agree (`ListingOK`), the first file of each object waits, is
being checked or was checked, bindings are those of the files assembled so far
(`AssemblingOK`), and a scan is in the queue once, and only with something to check
(`QueueOK`). That a pruned file has no matching row is proved of `Keep`, conjunct by
conjunct, from true metrics: a column read by id or name, widened, defaulted or
absent never has a value that the refuted comparison holds of.

Which generation a reader is pinned to is decided by two walks within each other. The
inner one, along semantic parents, is a recursive function that has a solution
whatever the commits are (`FollowsExists`); what it finds is the commit of the
generation and lies in the history of `HEAD` (`AncestorSound`). The outer one is
followed turn by turn: it stays on that history, and so does its commit
(`StaysOnHistory`). In a history as publication leaves it there is one commit of each
version (`CommitsOnLine`), so the inner walk arrives (`AncestorFound`), and reader and
runtime go in step until one of them ends; the other ends the same way a turn later at
most (`StepInStep`, `StepEnds`), since neither sees a generation twice. A walk that
ends without an answer has seen all that `HEAD` reaches (`NothingBetween`).

Facts about sequences of any length (queues, operations, chains, evictions) are proved
by taking the least position at which they fail (`LeastNumber`, `UpTo`).

Proving has corrected the model. `SchemasValid` refused a schema without fields, which
`validate_schemas` does not; `Additive` left out `Schema::validate`, without which a
schema that names one field twice is accepted but cannot be read back; and `Intact`
did not say that `HEAD` has the version of its generation, without which reader and
runtime refuse with different errors.

Only model-checked: liveness, which needs fairness; and the images (`OverlayIsFile`,
`ResolvesToPublished`, `ReaderAgrees`, `ImageStored`), whose trees are recursive
operators.

## Findings

- `create_head` of `LocalObjectStore` asks `path.exists()` (`storage.rs:482`),
  which is false also when the question fails; it then renames a genesis over the
  `HEAD` that is there. `local_head_stat` shows it. `replace_head` returns such an
  error.
- After a lost answer, `initialize` tells the creator of the table that it
  `AlreadyExists` when the table has moved on before `HEAD` is read back
  (`runtime.rs:623`). `table_creation_denied` shows it; `table_creation` shows that
  this is the only case (`OwnTableDeniedOnlyIfMovedOn`).

Met while modelling and not shown by a run, because no line of the repository says
otherwise or the program does not get there:

- `load_schema` (`reader/schema.rs`) sorts root fields by ordinal but checks the rows
  below a field in the order of their ids; a struct whose children are not in id
  order, which `Schema::validate` accepts, is refused as having noncontiguous
  ordinals (`ChildrenContiguous`).
- `select_metadata` of the runtime does not follow semantic parents between
  generations that skip commits; on a forked physical history it pins a generation
  the reader refuses. This writer never leaves such a history, so `PinnedToWanted`
  asks for agreement only on intact ones.
- After a lost answer, an image that cannot be queried is answered with a plain
  SQLite error (`runtime.rs:1023`), which the model counts among the open answers.

## What is not modelled

- The contract of the stores has no `Conflict` for a writer's own earlier write
  and none while `HEAD` is still as expected. A client that retries inside one
  conditional PUT (S3) may give the first, the fault injection of
  `InMemoryObjectStore` the second.
- `delete_if_version` and `create_from_reader` of `LocalObjectStore`: they work on
  freshly named objects that nobody else writes.
- Encodings, hashes and SQL: distinct values are taken to have distinct encodings,
  and the images are reduced to the rows that decide. Integer widths of metrics,
  nested types in `Transactions` and nested columns in `FileListing` are left out.
- Of the checks that refuse damaged metadata when a reader opens: the ordinals of
  identifier fields and `Schema::validate` in `load_schema` (`SchemaError`), the
  identity of the checkpoint under an incremental image, and the comparison of the
  semantic state and the features (`Open`). They only refuse more.
- `ReaderCache` has the walk through tree nodes to a checkpoint range. On the way
  through a pack `copy_page` keeps the header, the raw index and its decoded form
  charged until the page is read, where `CheckNode` gives each back after its step: for
  images with packs the budget is tighter than in the model.
- Compression and the byte layout of packs and nodes; a node that splits because of
  its serialized size rather than its number of entries.
- In `Publication` the uploads of one image (packs, maps, checkpoint, index) are one
  upload, which `CandidateImage` takes apart; in turn `CandidateImage` leaves the commit
  and the generation object, and lost answers, to `Publication`. The order of the hashes
  in the names of artifacts is arbitrary, and one order is taken. Reads of generations and images are part of the read of `HEAD` that
  starts them.
- `Engine::open` of the reader, the cache of verified metadata bytes, the
  object-store facade and the execution plans of the DataFusion integration.
- The command line and the qualification programs: glue without state.

## Plan

Done: publication, transactions, creation and the local `HEAD`; then images, reader
cache, reader engine, history and verification, footer cache and scans. Left, each
with its instances and, where it pays, its proofs:

1. `S3Head`: conditional PUT with missing version tokens and reconciliation
   (`otmp-s3`), and `Publication` on top of a store that may answer `Conflict` to a
   writer's own write.
2. Nested schemas in `Transactions` and nested columns in `FileListing`.
