---------------------------- MODULE Transactions ----------------------------
(***************************************************************************)
(* What transactions do to a table (otmp/src/runtime/transactions.rs,      *)
(* otmp/src/runtime/history.rs, build_candidate in otmp/src/runtime.rs,    *)
(* mutate_append and validate in otmp/src/image.rs).                       *)
(*                                                                         *)
(* A call reads the table, prepares a request from what it read, and then  *)
(* builds a candidate image on the current one: it checks its requirements *)
(* there, applies its operations one by one to a private copy and replaces *)
(* HEAD if no other commit came first; if one did it starts again on the   *)
(* winner.  How HEAD is replaced, and what happens when an answer is lost, *)
(* is the business of Publication: here replacing HEAD is one step.        *)
(*                                                                         *)
(* `history' holds the image of every version, which the generations of a  *)
(* table retain.  A snapshot is named by the version that committed it and *)
(* a data file by the call that staged it (one file stands for a batch).   *)
(***************************************************************************)
EXTENDS Integers, Sequences, FiniteSets, Functions

CONSTANTS Calls,        \* calls of append_files, commit_staged_files, transact
          Scenarios,    \* the requests the calls may make, as call -> request
          GenesisSchema,\* the schema the table is created with
          FloatFields   \* the fields of a floating point type

(* What a transaction may ask for; snapshots are committed by appends.     *)
MetadataOperations ==
    {"set_properties", "create_ref", "replace_ref", "drop_ref", "add_schema", "set_current_schema"}

(* A schema is its id, the id of its parent and the ids of its fields.     *)
Schema == [id : Nat, parent : Nat, fields : Seq(Nat)]

(* validate_siblings: no field id is 0 or that of another field.           *)
FieldIdsValid(fields) ==
    /\ \A i \in 1..Len(fields) : fields[i] > 0
    /\ \A i, j \in 1..Len(fields) : fields[i] = fields[j] => i = j

(* Schema::validate, of what the model keeps of a schema.                  *)
SchemaValid(schema) == schema.id > 0 /\ FieldIdsValid(schema.fields)

(* What initialize requires of the schema it creates a table with.         *)
ASSUME GenesisSchemaAssumption ==
    GenesisSchema \in Schema /\ SchemaValid(GenesisSchema) /\ GenesisSchema.parent = 0

ASSUME ScenariosAssumption ==
    \A asked \in Scenarios : \A c \in Calls :
        IF asked[c].kind = "append"
        THEN asked[c].metrics \in Seq(Range(asked[c].metrics))
        ELSE /\ asked[c].operations \in Seq(Range(asked[c].operations))
             /\ \A op \in Range(asked[c].operations) :
                    /\ op.type \in MetadataOperations
                    /\ op.type = "add_schema" => op.schema \in Schema

VARIABLES history,      \* images of versions 0, 1, ...
          semantic,     \* semantic commit objects of versions 1, 2, ...
          request,      \* call -> what it asks for
          pc,           \* call -> where it is
          base,         \* call -> version it prepared its request from
          cand,         \* call -> private image it is building
          applied       \* call -> operations applied to that image

vars == <<history, semantic, request, pc, base, cand, applied>>

-----------------------------------------------------------------------------
(* Images                                                                  *)

NoSnapshot == 0
NoSchema == 0
NoValue == "null"

Put(f, x, y) == [z \in DOMAIN f \cup {x} |-> IF z = x THEN y ELSE f[z]]

Elements(s) == {s[i] : i \in 1..Len(s)}

(* insert_fields: a schema is stored as one row for each of its fields.    *)
FieldRows(schema) ==
    {[schema |-> schema.id, field |-> schema.fields[i], ordinal |-> i - 1]
        : i \in 1..Len(schema.fields)}

Genesis ==
    [version |-> 0,
     refs |-> [r \in {"main"} |-> [type |-> "branch", snapshot |-> NoSnapshot,
                                   created |-> 0, updated |-> 0]],
     snapshots |-> [s \in {} |-> {}],
     files |-> [f \in {} |-> {}],
     live |-> {},
     lastSequence |-> 0,
     schemas |-> [s \in {GenesisSchema.id} |-> NoSchema],
     fields |-> FieldRows(GenesisSchema),
     fieldIds |-> Elements(GenesisSchema.fields),
     currentSchema |-> GenesisSchema.id,
     properties |-> [k \in {} |-> {}],
     commits |-> <<>>]

NoImage == [version |-> 0]

Current == history[Len(history)]

At(v) == history[v + 1]

RefIs(t, r, type) == r \in DOMAIN t.refs /\ t.refs[r].type = type

PropertyValue(t, k) ==
    IF k \in DOMAIN t.properties THEN t.properties[k].value ELSE NoValue

RowsOfSchema(t, id) == {row \in t.fields : row.schema = id}

(* read_schema: the rows of a schema, in the order of their ordinals.      *)
ReadSchema(t, id) ==
    LET rows == RowsOfSchema(t, id)
    IN  [id |-> id, parent |-> t.schemas[id],
         fields |-> [i \in 1..Cardinality(rows) |->
                        (CHOOSE row \in rows : row.ordinal = i - 1).field]]

FieldsOf(t, id) == {row.field : row \in RowsOfSchema(t, id)}

(* ancestry: tip and everything it descends from; parents are older.       *)
Ancestry(t, tip) ==
    LET line[s \in {NoSnapshot} \cup DOMAIN t.snapshots] ==
          IF s = NoSnapshot THEN {} ELSE {s} \cup line[t.snapshots[s].parent]
    IN  line[tip]

(* The rows of otmp_ref_live_files that the ancestry of tip calls for.     *)
Membership(t, r, tip) ==
    {[ref |-> r, file |-> t.snapshots[s].added, snapshot |-> s,
      sequence |-> t.snapshots[s].sequence] : s \in Ancestry(t, tip)}

LiveRows(t, r) == {row \in t.live : row.ref = r}

-----------------------------------------------------------------------------
(* Requests                                                                *)

IsAppend(c) == request[c].kind = "append"

(* build_candidate on image t: the snapshot follows the tip of the target  *)
(* in that image, not the tip the call prepared from.                      *)
AppendOperation(t, c) ==
    [type |-> "commit_snapshot",
     target |-> request[c].ref,
     snapshot |-> [id |-> t.version + 1, parent |-> t.refs[request[c].ref].snapshot,
                   sequence |-> t.lastSequence + 1, schema |-> request[c].schema],
     file |-> [id |-> c, schema |-> request[c].schema, metrics |-> request[c].metrics]]

(* The operations of a commit of the call on image t.                      *)
Operations(t, c) ==
    IF IsAppend(c) THEN <<AppendOperation(t, c)>> ELSE request[c].operations

RefOperations == {"create_ref", "replace_ref", "drop_ref"}

Touches(op, r) == op.type \in RefOperations /\ op.ref = r

(* evaluate: one requirement against an image.                             *)
Evaluate(t, q) ==
    CASE q.type = "property_is" -> PropertyValue(t, q.key) = q.value
      [] q.type = "ref_absent" -> q.ref \notin DOMAIN t.refs
      [] q.type = "ref_exists" -> RefIs(t, q.ref, q.refType)
      [] q.type = "ref_snapshot_is" ->
             q.ref \in DOMAIN t.refs /\ t.refs[q.ref].snapshot = q.snapshot
      [] q.type = "snapshot_exists" -> q.snapshot \in DOMAIN t.snapshots
      [] q.type = "current_schema_is" -> t.currentSchema = q.schema
      [] q.type = "schema_id_absent" -> q.schema \notin DOMAIN t.schemas
      [] q.type = "field_ids_absent" -> q.fields \cap t.fieldIds = {}

SnapshotRequirement(s) ==
    IF s = NoSnapshot THEN {} ELSE {[type |-> "snapshot_exists", snapshot |-> s]}

SchemaRequirement(t) == [type |-> "current_schema_is", schema |-> t.currentSchema]

(* The requirements prepare_operations demands of a request for an         *)
(* operation on image t (those on a ref that is not there cannot be met).  *)
Required(t, op) ==
    CASE op.type = "set_properties" ->
             {[type |-> "property_is", key |-> k, value |-> PropertyValue(t, k)]
                  : k \in DOMAIN op.updates}
      [] op.type = "create_ref" ->
             {[type |-> "ref_absent", ref |-> op.ref]} \cup SnapshotRequirement(op.snapshot)
      [] op.type \in {"replace_ref", "drop_ref"} /\ op.ref \notin DOMAIN t.refs -> {}
      [] op.type = "replace_ref" /\ op.ref \in DOMAIN t.refs ->
             {[type |-> "ref_exists", ref |-> op.ref, refType |-> "branch"],
              [type |-> "ref_snapshot_is", ref |-> op.ref,
               snapshot |-> t.refs[op.ref].snapshot]}
             \cup SnapshotRequirement(op.snapshot)
      [] op.type = "drop_ref" /\ op.ref \in DOMAIN t.refs ->
             {[type |-> "ref_exists", ref |-> op.ref, refType |-> t.refs[op.ref].type],
              [type |-> "ref_snapshot_is", ref |-> op.ref,
               snapshot |-> t.refs[op.ref].snapshot]}
      [] op.type = "add_schema" ->
             {SchemaRequirement(t),
              [type |-> "schema_id_absent", schema |-> op.schema.id],
              [type |-> "field_ids_absent",
               fields |-> Elements(op.schema.fields) \ FieldsOf(t, t.currentSchema)]}
      [] op.type = "set_current_schema" -> {SchemaRequirement(t)}

(* additive_schema: a valid schema with the fields of the current one,     *)
(* unchanged, then new ones.                                               *)
Additive(old, new) ==
    /\ SchemaValid(new)
    /\ new.parent = old.id
    /\ Len(old.fields) <= Len(new.fields)
    /\ \A i \in 1..Len(old.fields) : new.fields[i] = old.fields[i]

(* What prepare_operations checks of an operation by itself.               *)
Permitted(t, op) ==
    /\ op.type = "create_ref" => (op.refType = "tag" => op.snapshot # NoSnapshot)
    /\ op.type = "replace_ref" => op.ref \in DOMAIN t.refs
    /\ op.type = "drop_ref" => op.ref # "main" /\ op.ref \in DOMAIN t.refs
    /\ op.type = "add_schema" => Additive(ReadSchema(t, t.currentSchema), op.schema)

(* No two operations of a request touch the same key or ref, and at most   *)
(* one adds and one selects a schema.                                      *)
WellFormed(ops) ==
    /\ ops # <<>>
    /\ \A i, j \in 1..Len(ops) : i # j =>
        /\ ops[i].type \in {"add_schema", "set_current_schema"} =>
               ops[i].type # ops[j].type
        /\ ops[i].type \in RefOperations => ~Touches(ops[j], ops[i].ref)
        /\ (ops[i].type = "set_properties" /\ ops[j].type = "set_properties") =>
               DOMAIN ops[i].updates \cap DOMAIN ops[j].updates = {}

(* Mutant: the requirements are read again from the winner.                *)
PreparedAgain(c) ==
    UNION {Required(Current, op) : op \in Elements(request[c].operations)}

(* The requirements a call puts in its request are the ones demanded of it *)
(* when it read the table.                                                 *)
Prepared(c) ==
    UNION {Required(At(base[c]), op) : op \in Elements(request[c].operations)}

(* prepare_operations on image t, of a request with these requirements.    *)
OperationsAccepted(t, requirements, ops) ==
    /\ WellFormed(ops)
    /\ \A q \in requirements : Evaluate(t, q)
    /\ \A op \in Elements(ops) :
           /\ Permitted(t, op)
           /\ Required(t, op) \subseteq requirements

(* What prepare_operations answers for an operation.                       *)
OperationResult(t, op) ==
    CASE op.type = "set_properties" -> [keys |-> DOMAIN op.updates]
      [] op.type = "create_ref" ->
             [ref |-> op.ref, type |-> op.refType, snapshot |-> op.snapshot]
      [] op.type = "replace_ref" ->
             [ref |-> op.ref, type |-> "branch", snapshot |-> op.snapshot]
      [] op.type = "drop_ref" ->
             [ref |-> op.ref, type |-> t.refs[op.ref].type, snapshot |-> t.refs[op.ref].snapshot]
      [] op.type = "add_schema" -> [schema |-> op.schema.id]
      [] op.type = "set_current_schema" -> [schema |-> op.id]
      [] op.type = "commit_snapshot" ->
             [snapshot |-> op.snapshot.id, sequence |-> op.snapshot.sequence,
              ref |-> op.target, file |-> op.file.id]

Results(t, ops) == [i \in 1..Len(ops) |-> OperationResult(t, ops[i])]

(* A metric counts values, nulls and NaNs of a field and bounds its        *)
(* values; each may be absent.                                             *)
Absent == -1
NaN == -2

CountsSound(m) ==
    /\ (m.nulls # Absent /\ m.values # Absent) => m.nulls <= m.values
    /\ m.nans # Absent => m.field \in FloatFields

BoundsSound(m) ==
    /\ m.lower # NaN /\ m.upper # NaN
    /\ (m.lower # Absent /\ m.upper # Absent) => m.lower <= m.upper

(* validate_metrics, against the current schema of image t.                *)
MetricsValid(t, metrics) ==
    /\ \A i, j \in 1..Len(metrics) : i # j => metrics[i].field # metrics[j].field
    /\ \A m \in Elements(metrics) :
           m.field \in FieldsOf(t, t.currentSchema) /\ CountsSound(m) /\ BoundsSound(m)

(* validate_request on image t.                                            *)
RequestValid(t, c) ==
    /\ RefIs(t, request[c].ref, "branch")
    /\ t.currentSchema = request[c].schema
    /\ MetricsValid(t, request[c].metrics)

(* The operations of the commits after version v, up to that of image t.   *)
OperationsSince(t, v) == UNION {Elements(t.commits[u].operations) : u \in (v + 1)..t.version}

(* Mutant: a target dropped and created again goes unnoticed.              *)
RefReplacedSince(t, r, v) ==
    \E op \in OperationsSince(t, v) : op.type = "replace_ref" /\ op.ref = r

RefTouchedSince(t, r, v) == \E op \in OperationsSince(t, v) : Touches(op, r)

SchemaSelectedSince(t, v) ==
    \E op \in OperationsSince(t, v) : op.type = "set_current_schema"

(* validate_append_rebase, then validate_request, on image t.              *)
AppendAccepted(t, c) ==
    LET r == request[c].ref
        old == At(base[c]).refs[r].snapshot
    IN  /\ RefIs(At(base[c]), r, "branch")
        /\ RefIs(t, r, "branch")
        /\ old = NoSnapshot \/ old \in Ancestry(t, t.refs[r].snapshot)
        /\ ~RefTouchedSince(t, r, base[c])
        /\ ~SchemaSelectedSince(t, base[c])
        /\ RequestValid(t, c)

Accepted(t, c) ==
    IF IsAppend(c) THEN AppendAccepted(t, c)
    ELSE OperationsAccepted(t, Prepared(c), request[c].operations)

(* The semantic commit of the call on image t: what it required, what it   *)
(* did and what it answers.                                                *)
SemanticCommit(t, c) ==
    [version |-> t.version + 1,
     key |-> c,
     requirements |-> IF IsAppend(c)
                      THEN {[type |-> "current_schema_is", schema |-> request[c].schema]}
                      ELSE Prepared(c),
     operations |-> Operations(t, c),
     results |-> Results(t, Operations(t, c))]

-----------------------------------------------------------------------------
(* apply_operations and mutate_append: one operation on a private image.   *)

(* materialize_branch: forget the rows of r, then list its ancestry.       *)
Materialize(t, r, tip) ==
    [t EXCEPT !.live = {row \in t.live : row.ref # r} \cup Membership(t, r, tip)]

SetProperties(t, op) ==
    LET kept == {k \in DOMAIN t.properties \cup DOMAIN op.updates :
                     k \in DOMAIN op.updates => op.updates[k] # NoValue}
    IN  [t EXCEPT !.properties =
            [k \in kept |-> IF k \in DOMAIN op.updates
                            THEN [value |-> op.updates[k], updated |-> t.version + 1]
                            ELSE t.properties[k]]]

CreateRef(t, op) ==
    LET created == [t EXCEPT !.refs =
            Put(@, op.ref, [type |-> op.refType, snapshot |-> op.snapshot,
                            created |-> t.version + 1, updated |-> t.version + 1])]
    IN  IF op.refType = "branch" THEN Materialize(created, op.ref, op.snapshot) ELSE created

(* Mutant: the live rows of the old tip are kept.                          *)
ReplaceRefOnly(t, op) ==
    [t EXCEPT !.refs[op.ref].snapshot = op.snapshot,
              !.refs[op.ref].updated = t.version + 1]

ReplaceRef(t, op) ==
    Materialize([t EXCEPT !.refs[op.ref].snapshot = op.snapshot,
                          !.refs[op.ref].updated = t.version + 1],
                op.ref, op.snapshot)

DropRef(t, op) ==
    [t EXCEPT !.refs = Restrict(@, DOMAIN @ \ {op.ref}),
              !.live = {row \in @ : row.ref # op.ref}]

(* Mutant: the new field ids are not recorded.                             *)
AddSchemaOnly(t, op) ==
    [t EXCEPT !.schemas = Put(@, op.schema.id, op.schema.parent),
              !.fields = @ \cup FieldRows(op.schema)]

AddSchema(t, op) ==
    [t EXCEPT !.schemas = Put(@, op.schema.id, op.schema.parent),
              !.fields = @ \cup FieldRows(op.schema),
              !.fieldIds = @ \cup Elements(op.schema.fields)]

SetCurrentSchema(t, op) == [t EXCEPT !.currentSchema = op.id]

(* The schema of the snapshot row is the current one of the image; that of *)
(* the commit is the one of the files.                                     *)
CommitSnapshot(t, op) ==
    LET new == op.snapshot
    IN  [t EXCEPT
           !.snapshots = Put(@, new.id,
               [parent |-> new.parent, sequence |-> new.sequence, schema |-> t.currentSchema,
                version |-> t.version + 1, added |-> op.file.id]),
           !.files = Put(@, op.file.id,
               [schema |-> op.file.schema, sequence |-> new.sequence, snapshot |-> new.id,
                version |-> t.version + 1, metrics |-> Elements(op.file.metrics)]),
           !.live = @ \cup {[ref |-> op.target, file |-> op.file.id, snapshot |-> new.id,
                             sequence |-> new.sequence]},
           !.refs[op.target].snapshot = new.id,
           !.refs[op.target].updated = t.version + 1,
           !.lastSequence = new.sequence]

(* Only selecting a schema that is not there, in operation order, fails.   *)
Applicable(t, op) == op.type = "set_current_schema" => op.id \in DOMAIN t.schemas

Apply(t, op) ==
    CASE op.type = "set_properties" -> SetProperties(t, op)
      [] op.type = "create_ref" -> CreateRef(t, op)
      [] op.type = "replace_ref" -> ReplaceRef(t, op)
      [] op.type = "drop_ref" -> DropRef(t, op)
      [] op.type = "add_schema" -> AddSchema(t, op)
      [] op.type = "set_current_schema" -> SetCurrentSchema(t, op)
      [] op.type = "commit_snapshot" -> CommitSnapshot(t, op)

(* Mutant: only the first operation is recorded.                           *)
RecordFirstOperation(t, commit) ==
    [t EXCEPT !.version = @ + 1,
              !.commits = Append(@, [key |-> commit.key, operations |-> <<commit.operations[1]>>,
                                     results |-> commit.results])]

(* The commit row, the idempotency row and the version, written last.      *)
RecordCommit(t, commit) ==
    [t EXCEPT !.version = @ + 1,
              !.commits = Append(@, [key |-> commit.key, operations |-> commit.operations,
                                     results |-> commit.results])]

-----------------------------------------------------------------------------
Init ==
    /\ history = <<Genesis>>
    /\ semantic = <<>>
    /\ request \in Scenarios
    /\ pc = [c \in Calls |-> "start"]
    /\ base = [c \in Calls |-> 0]
    /\ cand = [c \in Calls |-> NoImage]
    /\ applied = [c \in Calls |-> 0]

Goto(c, step) == pc' = [pc EXCEPT ![c] = step]

(* Read the table and prepare the request.  append_files refuses at once   *)
(* what is invalid now; commit_staged_files and transact do not look.      *)
Prepare(c) ==
    /\ pc[c] = "start"
    /\ base' = [base EXCEPT ![c] = Len(history) - 1]
    /\ IF IsAppend(c) /\ request[c].validated /\ ~RequestValid(Current, c)
       THEN Goto(c, "rejected")
       ELSE Goto(c, "prepared")
    /\ UNCHANGED <<history, semantic, request, cand, applied>>

(* Pin the parent, check the request against it and copy it.               *)
Begin(c) ==
    /\ pc[c] = "prepared"
    /\ Accepted(Current, c)
    /\ Goto(c, "build")
    /\ cand' = [cand EXCEPT ![c] = Current]
    /\ applied' = [applied EXCEPT ![c] = 0]
    /\ UNCHANGED <<history, semantic, request, base>>

Reject(c) ==
    /\ pc[c] = "prepared"
    /\ ~Accepted(Current, c)
    /\ Goto(c, "rejected")
    /\ UNCHANGED <<history, semantic, request, base, cand, applied>>

(* The image the candidate is built on, and the commit it is built for.    *)
Parent(c) == IF pc[c] = "built" THEN At(cand[c].version - 1) ELSE At(cand[c].version)
Commit(c) == SemanticCommit(Parent(c), c)

NextOperation(c) == Operations(Parent(c), c)[applied[c] + 1]

ApplyNext(c) ==
    /\ pc[c] = "build"
    /\ applied[c] < Len(Operations(Parent(c), c))
    /\ Applicable(cand[c], NextOperation(c))
    /\ cand' = [cand EXCEPT ![c] = Apply(cand[c], NextOperation(c))]
    /\ applied' = [applied EXCEPT ![c] = @ + 1]
    /\ UNCHANGED <<history, semantic, request, pc, base>>

ApplyFails(c) ==
    /\ pc[c] = "build"
    /\ applied[c] < Len(Operations(Parent(c), c))
    /\ ~Applicable(cand[c], NextOperation(c))
    /\ Goto(c, "rejected")
    /\ cand' = [cand EXCEPT ![c] = NoImage]
    /\ UNCHANGED <<history, semantic, request, base, applied>>

(* The candidate is complete; finish_candidate checks it (CandidatesValid  *)
(* says that it never refuses one).                                        *)
Finish(c) ==
    /\ pc[c] = "build"
    /\ applied[c] = Len(Operations(Parent(c), c))
    /\ cand' = [cand EXCEPT ![c] = RecordCommit(cand[c], Commit(c))]
    /\ Goto(c, "built")
    /\ UNCHANGED <<history, semantic, request, base, applied>>

(* Mutant: the commit object of the first attempt is published.            *)
PublishFirstCommit(c) ==
    /\ pc[c] = "built"
    /\ cand[c].version = Len(history)
    /\ history' = Append(history, cand[c])
    /\ semantic' = Append(semantic, SemanticCommit(At(base[c]), c))
    /\ Goto(c, "committed")
    /\ cand' = [cand EXCEPT ![c] = NoImage]
    /\ UNCHANGED <<request, base, applied>>

Publish(c) ==
    /\ pc[c] = "built"
    /\ cand[c].version = Len(history)
    /\ history' = Append(history, cand[c])
    /\ semantic' = Append(semantic, Commit(c))
    /\ Goto(c, "committed")
    /\ cand' = [cand EXCEPT ![c] = NoImage]
    /\ UNCHANGED <<request, base, applied>>

(* Another commit came first: rebuild on the winner; no page of the losing *)
(* candidate is reused.                                                    *)
Conflict(c) ==
    /\ pc[c] = "built"
    /\ cand[c].version # Len(history)
    /\ Goto(c, "prepared")
    /\ cand' = [cand EXCEPT ![c] = NoImage]
    /\ UNCHANGED <<history, semantic, request, base, applied>>

Step(c) ==
    \/ Prepare(c) \/ Begin(c) \/ Reject(c) \/ ApplyNext(c) \/ ApplyFails(c)
    \/ Finish(c) \/ Publish(c) \/ Conflict(c)

Settled == \A c \in Calls : pc[c] \in {"committed", "rejected"}

Next == (\E c \in Calls : Step(c)) \/ (Settled /\ UNCHANGED vars)

Spec == Init /\ [][Next]_vars

-----------------------------------------------------------------------------
Versions == 0..(Len(history) - 1)

TypeOK ==
    /\ Len(history) \in 1..(Cardinality(Calls) + 1)
    /\ request \in Scenarios
    /\ pc \in [Calls -> {"start", "prepared", "build", "built", "committed", "rejected"}]
    /\ base \in [Calls -> Versions]
    /\ Len(semantic) = Len(history) - 1
    /\ \A c \in Calls : applied[c] \in 0..(IF IsAppend(c) THEN 1 ELSE Len(request[c].operations))
    /\ \A c \in Calls : cand[c] # NoImage <=> pc[c] \in {"build", "built"}

(* A committed append landed on the line of history it was prepared for:   *)
(* from its base to its commit the target stayed the same branch, moved    *)
(* only by appends, and the schema of its files stayed current all along,  *)
(* not only at both ends (validate_append_rebase).                         *)
AppendsStayOnTheirLine ==
    \A s \in DOMAIN Current.snapshots :
        LET c == Current.snapshots[s].added
            r == request[c].ref
        IN  \A u \in base[c]..(s - 1) :
            /\ RefIs(At(u), r, "branch") /\ RefIs(At(u + 1), r, "branch")
            /\ At(u).refs[r].created = At(base[c]).refs[r].created
            /\ At(u).currentSchema = Current.files[c].schema
            /\ \/ At(u + 1).refs[r].snapshot = At(u).refs[r].snapshot
               \/ /\ Current.snapshots[At(u + 1).refs[r].snapshot].parent = At(u).refs[r].snapshot
                  /\ ~\E i \in 1..Len(At(u + 1).commits[u + 1].operations) :
                         Touches(At(u + 1).commits[u + 1].operations[i], r)

(* No committed transaction overwrote what it had not seen: each property, *)
(* ref and schema choice it replaced had, just before its commit, the      *)
(* value the call prepared from, however often it was rebuilt.  What it    *)
(* moves is a branch then, and what it drops of the type it saw.           *)
NoStaleWrite ==
    \A v \in 1..Current.version :
        LET c == Current.commits[v].key
            seen == At(base[c])
            before == At(v - 1)
        IN  \A op \in Elements(Current.commits[v].operations) :
            /\ op.type = "set_properties" => \A k \in DOMAIN op.updates :
                   PropertyValue(before, k) = PropertyValue(seen, k)
            /\ op.type \in {"replace_ref", "drop_ref"} =>
                   /\ op.ref \in DOMAIN seen.refs
                   /\ before.refs[op.ref].snapshot = seen.refs[op.ref].snapshot
                   /\ before.refs[op.ref].type =
                         IF op.type = "drop_ref" THEN seen.refs[op.ref].type ELSE "branch"
            /\ op.type \in {"add_schema", "set_current_schema"} =>
                   before.currentSchema = seen.currentSchema

(* Schema id has the field, the schema it was derived from has not.        *)
Introduces(t, id, field) == field \in FieldsOf(t, id) \ FieldsOf(t, t.schemas[id])

(* A field id means one thing for ever: only one schema introduces it, and *)
(* the others that have it inherit it (field_ids_absent).                  *)
FieldIdsIntroducedOnce ==
    \A a, b \in DOMAIN Current.schemas :
        \A field \in FieldsOf(Current, a) \cap FieldsOf(Current, b) :
            Introduces(Current, a, field) /\ Introduces(Current, b, field) => a = b

(* What the rebase of an append relies on: whatever changed between two    *)
(* versions is in the operations the later one recorded, tags never move   *)
(* and snapshots never change.                                             *)
ChangesRecorded ==
    \A v \in 1..Current.version :
        LET old == At(v - 1)
            new == At(v)
            ops == Elements(new.commits[v].operations)
        IN  /\ \A r \in DOMAIN old.refs \cup DOMAIN new.refs :
                   \/ /\ r \in DOMAIN old.refs \cap DOMAIN new.refs
                      /\ old.refs[r] = new.refs[r]
                   \/ \E op \in ops :
                          \/ Touches(op, r)
                          \/ op.type = "commit_snapshot" /\ op.target = r
            /\ \A r \in DOMAIN old.refs \cap DOMAIN new.refs :
                   old.refs[r].type = "tag" => old.refs[r] = new.refs[r]
            /\ old.currentSchema # new.currentSchema =>
                   \E op \in ops : op.type = "set_current_schema"
            /\ \A s \in DOMAIN old.snapshots :
                   s \in DOMAIN new.snapshots /\ new.snapshots[s] = old.snapshots[s]
=============================================================================
