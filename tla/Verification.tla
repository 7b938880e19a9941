---------------------------- MODULE Verification ----------------------------
(***************************************************************************)
(* What an image is checked for, by itself (image::validate), against its  *)
(* semantic commit (validate_commit_projection) and against its parent     *)
(* (validate_transition), and what is built on those checks: a candidate   *)
(* before it is published, a table that is pinned, verify and              *)
(* verify_history, and reading a snapshot of an older version              *)
(* (otmp/src/image.rs, otmp/src/runtime.rs, otmp/src/runtime/history.rs).  *)
(*                                                                         *)
(* None of these changes the table, and what they read after HEAD is       *)
(* immutable: they are operators on the images and commits of              *)
(* Transactions.                                                           *)
(***************************************************************************)
EXTENDS Transactions

-----------------------------------------------------------------------------
(* image::validate                                                         *)

(* validate_relational_history.                                            *)
SequencesDense(t) ==
    /\ t.lastSequence = Cardinality(DOMAIN t.snapshots)
    /\ {t.snapshots[s].sequence : s \in DOMAIN t.snapshots} = 1..t.lastSequence

ParentsOlder(t) ==
    \A s \in DOMAIN t.snapshots :
        LET new == t.snapshots[s]
            old == t.snapshots[new.parent]
        IN  /\ new.version \in 1..t.version
            /\ \A u \in DOMAIN t.snapshots : t.snapshots[u].version = new.version => u = s
            /\ new.parent # NoSnapshot =>
                   /\ new.parent \in DOMAIN t.snapshots
                   /\ old.version < new.version /\ old.sequence < new.sequence

RefsValid(t) ==
    /\ \A r \in DOMAIN t.refs :
        /\ t.refs[r].created <= t.refs[r].updated
        /\ t.refs[r].updated <= t.version
        /\ t.refs[r].type = "tag" => t.refs[r].snapshot # NoSnapshot
        /\ t.refs[r].snapshot # NoSnapshot => t.refs[r].snapshot \in DOMAIN t.snapshots
    /\ RefIs(t, "main", "branch") /\ t.refs["main"].created = 0

(* A live row has its file and the snapshot that added it, and the rows of *)
(* a branch are those of its whole ancestry.                               *)
MembershipExact(t) ==
    /\ \A row \in t.live :
        /\ row.ref \in DOMAIN t.refs
        /\ row.file \in DOMAIN t.files
        /\ row.snapshot \in DOMAIN t.snapshots /\ t.snapshots[row.snapshot].added = row.file
    /\ \A r \in DOMAIN t.refs :
        LiveRows(t, r) = IF t.refs[r].type = "branch"
                         THEN Membership(t, r, t.refs[r].snapshot) ELSE {}

(* validate_schemas: the ordinals of a schema's rows are 0, 1, ...         *)
SchemasValid(t) ==
    \A id \in DOMAIN t.schemas :
        LET rows == RowsOfSchema(t, id)
        IN  /\ {row.ordinal : row \in rows} = 0..(Cardinality(rows) - 1)
            /\ Cardinality(FieldsOf(t, id)) = Cardinality(rows)

(* validate_file_descriptors: metrics are of fields of the file's schema.  *)
DescriptorsValid(t) ==
    \A f \in DOMAIN t.files : \A m \in t.files[f].metrics :
        m.field \in FieldsOf(t, t.files[f].schema) /\ CountsSound(m) /\ BoundsSound(m)

(* Every commit has its idempotency row and none is missing.               *)
CommitsPaired(t) ==
    /\ Len(t.commits) = t.version
    /\ \A u, v \in 1..Len(t.commits) : t.commits[u].key = t.commits[v].key => u = v

ValidImage(t) ==
    /\ t.currentSchema \in DOMAIN t.schemas
    /\ CommitsPaired(t)
    /\ SequencesDense(t)
    /\ ParentsOlder(t)
    /\ RefsValid(t)
    /\ MembershipExact(t)
    /\ SchemasValid(t)
    /\ DescriptorsValid(t)

-----------------------------------------------------------------------------
(* validate_commit_projection: image t says what its commit says.          *)

SnapshotRowProjected(t, commit, op) ==
    LET new == op.snapshot
    IN  /\ new.id \in DOMAIN t.snapshots
        /\ t.snapshots[new.id].version = commit.version
        /\ t.snapshots[new.id].parent = new.parent
        /\ t.snapshots[new.id].sequence = new.sequence
        /\ t.snapshots[new.id].schema = new.schema

(* The snapshot added exactly the file of the commit, and no other file    *)
(* was created with it.                                                    *)
ChangesProjected(t, commit, op) ==
    /\ t.snapshots[op.snapshot.id].added = op.file.id
    /\ {f \in DOMAIN t.files : t.files[f].snapshot = op.snapshot.id
                               \/ t.files[f].version = commit.version} = {op.file.id}

FileProjected(t, commit, op) ==
    LET f == op.file.id
        new == op.snapshot
    IN  /\ t.files[f] = [schema |-> op.file.schema, sequence |-> new.sequence,
                         snapshot |-> new.id, version |-> commit.version,
                         metrics |-> t.files[f].metrics]
        /\ {row \in LiveRows(t, op.target) : row.file = f} =
               {[ref |-> op.target, file |-> f, snapshot |-> new.id, sequence |-> new.sequence]}

MetricsProjected(t, op) ==
    /\ t.files[op.file.id].metrics = Elements(op.file.metrics)
    /\ Cardinality(t.files[op.file.id].metrics) = Len(op.file.metrics)

RefProjected(t, commit, op) ==
    /\ op.target \in DOMAIN t.refs
    /\ t.refs[op.target].snapshot = op.snapshot.id
    /\ t.refs[op.target].updated = commit.version

SnapshotProjected(t, commit) ==
    LET ops == {op \in Elements(commit.operations) : op.type = "commit_snapshot"}
    IN  /\ \A op \in ops :
            /\ SnapshotRowProjected(t, commit, op)
            /\ ChangesProjected(t, commit, op)
            /\ FileProjected(t, commit, op)
            /\ MetricsProjected(t, op)
            /\ RefProjected(t, commit, op)
        /\ {s \in DOMAIN t.snapshots : t.snapshots[s].version = commit.version} =
               {op.snapshot.id : op \in ops}

OperationProjected(t, version, op) ==
    CASE op.type = "set_properties" ->
             \A k \in DOMAIN op.updates :
                 IF op.updates[k] = NoValue THEN k \notin DOMAIN t.properties
                 ELSE /\ k \in DOMAIN t.properties
                      /\ t.properties[k] = [value |-> op.updates[k], updated |-> version]
      [] op.type = "create_ref" ->
             /\ RefIs(t, op.ref, op.refType)
             /\ t.refs[op.ref].snapshot = op.snapshot /\ t.refs[op.ref].created = version
      [] op.type = "replace_ref" ->
             /\ RefIs(t, op.ref, "branch")
             /\ t.refs[op.ref].snapshot = op.snapshot /\ t.refs[op.ref].updated = version
      [] op.type = "drop_ref" -> op.ref \notin DOMAIN t.refs
      [] op.type = "add_schema" ->
             op.schema.id \in DOMAIN t.schemas /\ ReadSchema(t, op.schema.id) = op.schema
      [] op.type = "set_current_schema" -> t.currentSchema = op.id
      [] op.type = "commit_snapshot" -> TRUE

MetadataProjected(t, commit) ==
    \A op \in Elements(commit.operations) : OperationProjected(t, commit.version, op)

(* `commit' is the object HEAD names; the row of its version repeats it.   *)
CommitProjected(t, commit) ==
    /\ t.version = commit.version
    /\ t.commits[commit.version] =
           [key |-> commit.key, operations |-> commit.operations, results |-> commit.results]
    /\ SnapshotProjected(t, commit)
    /\ MetadataProjected(t, commit)

(* load_pin_objects: what every pin of a version requires of it.           *)
Pinnable(t, commit) == ValidImage(t) /\ CommitProjected(t, commit)

-----------------------------------------------------------------------------
(* Replaying commits                                                       *)

NotReplayed == [version |-> -1]

(* apply_operations, in order; nothing if one of them fails.               *)
ApplyAll(t, ops) ==
    LET after[i \in 0..Len(ops)] ==
          IF i = 0 THEN t
          ELSE LET before == after[i - 1]
               IN  IF before = NotReplayed \/ ~Applicable(before, ops[i]) THEN NotReplayed
                   ELSE Apply(before, ops[i])
    IN  after[Len(ops)]

(* replay_append: the snapshot is the one the commit recorded.             *)
ReplayAppend(t, commit) == RecordCommit(Apply(t, commit.operations[1]), commit)

(* The operations are prepared again and must give the recorded results.   *)
ReplayMetadata(t, commit) ==
    LET new == ApplyAll(t, commit.operations)
    IN  IF /\ OperationsAccepted(t, commit.requirements, commit.operations)
           /\ Results(t, commit.operations) = commit.results
           /\ new # NotReplayed
        THEN RecordCommit(new, commit)
        ELSE NotReplayed

(* replay_semantic_commit on image t.                                      *)
ReplayCommit(t, commit) ==
    IF commit.version # t.version + 1 \/ \E q \in commit.requirements : ~Evaluate(t, q)
    THEN NotReplayed
    ELSE IF commit.operations[1].type = "commit_snapshot"
    THEN ReplayAppend(t, commit)
    ELSE ReplayMetadata(t, commit)

(* validate_transition: an image of the version before must give, with the *)
(* commit replayed on it, the same rows; one of the same version has them. *)
TransitionValid(old, new, commit) ==
    IF old.version = commit.version THEN old = new ELSE ReplayCommit(old, commit) = new

(* verify_retained_commit_tail: the oldest retained image, here that of    *)
(* version v, is the replay of all commits since genesis.                  *)
TailValid(v) ==
    LET replay[u \in 0..v] ==
          IF u = 0 THEN Genesis
          ELSE LET old == replay[u - 1]
                   new == IF old = NotReplayed THEN NotReplayed ELSE ReplayCommit(old, semantic[u])
               IN  IF new # NotReplayed /\ CommitProjected(new, semantic[u]) THEN new ELSE NotReplayed
    IN  replay[v] = At(v)

-----------------------------------------------------------------------------
(* Reading an older version                                                *)

NotFound == -1

(* resolve_snapshot: by ref, by id or by sequence number.                  *)
ResolveSnapshot(t, selection) ==
    LET named == {s \in DOMAIN t.snapshots : t.snapshots[s].sequence = selection.sequence}
    IN  CASE selection.by = "ref" ->
                 IF selection.ref \in DOMAIN t.refs THEN t.refs[selection.ref].snapshot ELSE NotFound
          [] selection.by = "id" ->
                 IF selection.snapshot \in DOMAIN t.snapshots THEN selection.snapshot ELSE NotFound
          [] selection.by = "sequence" ->
                 IF Cardinality(named) = 1 THEN CHOOSE s \in named : TRUE ELSE NotFound

Listed(t, f, sequence) == [file |-> f, schema |-> t.files[f].schema, sequence |-> sequence]

(* ResolvedSnapshot::files: the files its ancestry added.                  *)
SnapshotFiles(t, s) ==
    {Listed(t, t.snapshots[a].added, t.snapshots[a].sequence) : a \in Ancestry(t, s)}

(* PinnedTable::files: the live rows of a branch.                          *)
BranchFiles(t, r) == {Listed(t, row.file, row.sequence) : row \in LiveRows(t, r)}

(* collect_snapshot_files: the files whose objects verify reads, from the  *)
(* tips of the refs or from all snapshots.                                 *)
VerifiedFiles(t, scope) ==
    LET tips == IF scope = "retained history" THEN DOMAIN t.snapshots
                ELSE {t.refs[r].snapshot : r \in DOMAIN t.refs} \ {NoSnapshot}
    IN  {t.snapshots[s].added : s \in UNION {Ancestry(t, tip) : tip \in tips}}

-----------------------------------------------------------------------------
(* A candidate never fails the checks of finish_candidate: live rows kept  *)
(* up one append at a time are those of the whole ancestry, sequence       *)
(* numbers have no gap or repeat, no ref dangles and main survives, the    *)
(* metrics accepted with the request are those of the file's schema, and   *)
(* the image says what its commit says, whatever was rebuilt on whichever  *)
(* winner.                                                                 *)
CandidatesValid == \A c \in Calls : pc[c] = "built" => Pinnable(cand[c], Commit(c))

(* verify_history never refuses what this code wrote, from any anchor and  *)
(* wherever the retained generations end: each commit, replayed on the     *)
(* image before it with the requirements its call prepared, perhaps on an  *)
(* older version, gives the image that was published, row for row; and     *)
(* what is retained reads the same for ever: a snapshot lists the same     *)
(* files in every later version, by id, by sequence or by a branch at it,  *)
(* and verify reads every file a branch lists.                             *)
HistoryVerifies ==
    LET v == Current.version
    IN  /\ v > 0 => TransitionValid(At(v - 1), Current, semantic[v])
        /\ TailValid(v)
        /\ \A s \in DOMAIN Current.snapshots :
            LET first == At(Current.snapshots[s].version)
            IN  /\ SnapshotFiles(Current, s) = SnapshotFiles(first, s)
                /\ ResolveSnapshot(Current, [by |-> "sequence", sequence |-> first.lastSequence]) = s
        /\ \A r \in DOMAIN Current.refs : Current.refs[r].type = "branch" =>
            LET tip == ResolveSnapshot(Current, [by |-> "ref", ref |-> r])
            IN  /\ BranchFiles(Current, r) = SnapshotFiles(Current, tip)
                /\ {f.file : f \in BranchFiles(Current, r)} \subseteq VerifiedFiles(Current, "current")
        /\ VerifiedFiles(Current, "retained history") = DOMAIN Current.files
=============================================================================
