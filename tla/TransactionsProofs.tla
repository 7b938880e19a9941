------------------------- MODULE TransactionsProofs -------------------------
(***************************************************************************)
(* Proofs about Transactions and Verification, for any calls and requests. *)
(***************************************************************************)
EXTENDS Verification, FiniteSetTheorems, TLAPS

-----------------------------------------------------------------------------
(* What an operation does to an image.                                     *)

ImageFields == {"version", "refs", "snapshots", "files", "live", "lastSequence", "schemas", "fields",
                "fieldIds", "currentSchema", "properties", "commits"}
RefFields == {"type", "snapshot", "created", "updated"}

Image(t) ==
    /\ DOMAIN t = ImageFields
    /\ \A r \in DOMAIN t.refs : DOMAIN t.refs[r] = RefFields

(* The rest of image t is as in image new.                                 *)
SameBut(new, t, fields) == \A f \in ImageFields \ fields : new[f] = t[f]

(* Refs that the operation does not name stay as they are.                 *)
OtherRefsKept(new, t, op) ==
    \A r : ~Touches(op, r) =>
        /\ r \in DOMAIN new.refs <=> r \in DOMAIN t.refs
        /\ r \in DOMAIN t.refs => new.refs[r] = t.refs[r]

LEMMA PropertiesSet ==
    ASSUME NEW t, Image(t), NEW op, op.type = "set_properties", NEW new, new = Apply(t, op)
    PROVE  Image(new) /\ SameBut(new, t, {"properties"})
<1>1. new = SetProperties(t, op)
  BY DEF Apply
<1> QED
  BY <1>1 DEF SetProperties, Image, SameBut, ImageFields

LEMMA SchemaSelected ==
    ASSUME NEW t, Image(t), NEW op, op.type = "set_current_schema", NEW new, new = Apply(t, op)
    PROVE  Image(new) /\ SameBut(new, t, {"currentSchema"})
<1>1. new = SetCurrentSchema(t, op)
  BY DEF Apply
<1> QED
  BY <1>1 DEF SetCurrentSchema, Image, SameBut, ImageFields

LEMMA SchemaAdded ==
    ASSUME NEW t, Image(t), NEW op, op.type = "add_schema", NEW new, new = Apply(t, op)
    PROVE  /\ Image(new) /\ SameBut(new, t, {"schemas", "fields", "fieldIds"})
           /\ new.schemas = Put(t.schemas, op.schema.id, op.schema.parent)
           /\ new.fields = t.fields \cup FieldRows(op.schema)
           /\ new.fieldIds = t.fieldIds \cup Elements(op.schema.fields)
<1>1. new = AddSchema(t, op)
  BY DEF Apply
<1> QED
  BY <1>1 DEF AddSchema, Image, SameBut, ImageFields

(* materialize_branch touches live rows alone.                             *)
LEMMA Materialized ==
    ASSUME NEW t, Image(t), NEW r, NEW tip, NEW new, new = Materialize(t, r, tip)
    PROVE  Image(new) /\ SameBut(new, t, {"live"})
  BY DEF Materialize, Image, SameBut, ImageFields

LEMMA RefCreated ==
    ASSUME NEW t, Image(t), NEW op, op.type = "create_ref", NEW new, new = Apply(t, op)
    PROVE  Image(new) /\ SameBut(new, t, {"refs", "live"}) /\ OtherRefsKept(new, t, op)
<1> DEFINE row == [type |-> op.refType, snapshot |-> op.snapshot,
                   created |-> t.version + 1, updated |-> t.version + 1]
           created == [t EXCEPT !.refs = Put(t.refs, op.ref, row)]
<1>1. new = IF op.refType = "branch" THEN Materialize(created, op.ref, op.snapshot) ELSE created
  BY DEF Apply, CreateRef
<1>2. DOMAIN row = RefFields
  BY DEF RefFields
<1>3. DOMAIN created = ImageFields /\ SameBut(created, t, {"refs"}) /\ created.refs = Put(t.refs, op.ref, row)
  BY DEF Image, SameBut, ImageFields
<1> HIDE DEF row, created
<1>4. Image(created) /\ OtherRefsKept(created, t, op)
  BY <1>2, <1>3 DEF Image, Put, OtherRefsKept, Touches, RefOperations
<1> QED
  BY <1>1, <1>3, <1>4, Materialized DEF SameBut, OtherRefsKept, ImageFields

LEMMA RefReplaced ==
    ASSUME NEW t, Image(t), NEW op, op.type = "replace_ref", NEW new, new = Apply(t, op)
    PROVE  /\ Image(new) /\ SameBut(new, t, {"refs", "live"}) /\ OtherRefsKept(new, t, op)
           /\ DOMAIN new.refs = DOMAIN t.refs
<1> DEFINE moved == [t EXCEPT !.refs[op.ref].snapshot = op.snapshot,
                              !.refs[op.ref].updated = t.version + 1]
<1>1. new = Materialize(moved, op.ref, op.snapshot)
  BY DEF Apply, ReplaceRef
<1>2. /\ Image(moved) /\ SameBut(moved, t, {"refs"}) /\ DOMAIN moved.refs = DOMAIN t.refs
      /\ \A r \in DOMAIN t.refs : r # op.ref => moved.refs[r] = t.refs[r]
  BY DEF Image, SameBut, ImageFields
<1> HIDE DEF moved
<1> QED
  BY <1>1, <1>2, Materialized DEF SameBut, OtherRefsKept, Touches, RefOperations, ImageFields

LEMMA RefDropped ==
    ASSUME NEW t, Image(t), NEW op, op.type = "drop_ref", NEW new, new = Apply(t, op)
    PROVE  /\ Image(new) /\ SameBut(new, t, {"refs", "live"}) /\ OtherRefsKept(new, t, op)
           /\ op.ref \notin DOMAIN new.refs
<1>1. new = DropRef(t, op)
  BY DEF Apply
<1>2. /\ DOMAIN new = ImageFields /\ SameBut(new, t, {"refs", "live"})
      /\ new.refs = Restrict(t.refs, DOMAIN t.refs \ {op.ref})
  BY <1>1 DEF DropRef, Image, SameBut, ImageFields
<1> QED
  BY <1>2 DEF Image, Restrict, OtherRefsKept, Touches, RefOperations

(* Operations of a transaction, together.                                  *)
LEMMA OperationKeeps ==
    ASSUME NEW t, Image(t), NEW op, op.type \in MetadataOperations, NEW new, new = Apply(t, op)
    PROVE  /\ Image(new) /\ OtherRefsKept(new, t, op)
           /\ new.version = t.version /\ new.commits = t.commits
           /\ new.snapshots = t.snapshots /\ new.files = t.files
           /\ op.type # "set_current_schema" => new.currentSchema = t.currentSchema
           /\ op.type # "add_schema" =>
                 new.schemas = t.schemas /\ new.fields = t.fields /\ new.fieldIds = t.fieldIds
           /\ op.type = "drop_ref" => op.ref \notin DOMAIN new.refs
<1>1. CASE op.type = "set_properties"
  BY <1>1, PropertiesSet DEF SameBut, ImageFields, OtherRefsKept
<1>2. CASE op.type = "create_ref"
  BY <1>2, RefCreated DEF SameBut, ImageFields
<1>3. CASE op.type = "replace_ref"
  BY <1>3, RefReplaced DEF SameBut, ImageFields
<1>4. CASE op.type = "drop_ref"
  BY <1>4, RefDropped DEF SameBut, ImageFields
<1>5. CASE op.type = "add_schema"
  BY <1>5, SchemaAdded DEF SameBut, ImageFields, OtherRefsKept
<1>6. CASE op.type = "set_current_schema"
  BY <1>6, SchemaSelected DEF SameBut, ImageFields, OtherRefsKept
<1> QED
  BY <1>1, <1>2, <1>3, <1>4, <1>5, <1>6 DEF MetadataOperations

(* What a commit_snapshot leaves behind.                                   *)
SnapshotEffect(new, t, op) ==
    /\ Image(new)
    /\ SameBut(new, t, {"snapshots", "files", "live", "refs", "lastSequence"})
    /\ DOMAIN new.snapshots = DOMAIN t.snapshots \cup {op.snapshot.id}
    /\ \A s \in DOMAIN t.snapshots : s # op.snapshot.id => new.snapshots[s] = t.snapshots[s]
    /\ new.snapshots[op.snapshot.id].parent = op.snapshot.parent
    /\ new.snapshots[op.snapshot.id].added = op.file.id
    /\ DOMAIN new.files = DOMAIN t.files \cup {op.file.id}
    /\ \A f \in DOMAIN t.files : f # op.file.id => new.files[f] = t.files[f]
    /\ new.files[op.file.id].schema = op.file.schema
    /\ DOMAIN new.refs = DOMAIN t.refs
    /\ \A r \in DOMAIN t.refs : r # op.target => new.refs[r] = t.refs[r]
    /\ new.refs[op.target].snapshot = op.snapshot.id
    /\ new.refs[op.target].type = t.refs[op.target].type
    /\ new.refs[op.target].created = t.refs[op.target].created

LEMMA SnapshotCommitted ==
    ASSUME NEW t, Image(t), NEW op, op.type = "commit_snapshot", op.target \in DOMAIN t.refs,
           NEW new, new = Apply(t, op)
    PROVE  SnapshotEffect(new, t, op)
<1>1. new = CommitSnapshot(t, op)
  BY DEF Apply
<1>2. /\ DOMAIN new = ImageFields
      /\ SameBut(new, t, {"snapshots", "files", "live", "refs", "lastSequence"})
      /\ new.refs = [t.refs EXCEPT ![op.target] =
                       [[t.refs[op.target] EXCEPT !.snapshot = op.snapshot.id]
                           EXCEPT !.updated = t.version + 1]]
  <2> DEFINE moved == [[t.refs[op.target] EXCEPT !.snapshot = op.snapshot.id]
                           EXCEPT !.updated = t.version + 1]
             refs == [t.refs EXCEPT ![op.target] = moved]
  <2>1. new.refs = [[t.refs EXCEPT ![op.target].snapshot = op.snapshot.id]
                        EXCEPT ![op.target].updated = t.version + 1]
    BY <1>1 DEF CommitSnapshot, Image, ImageFields
  <2>2. new.refs = refs
    BY <2>1
  <2>3. DOMAIN new = ImageFields /\ SameBut(new, t, {"snapshots", "files", "live", "refs", "lastSequence"})
    BY <1>1 DEF CommitSnapshot, Image, SameBut, ImageFields
  <2> QED
    BY <2>2, <2>3
<1>8. /\ DOMAIN new.refs = DOMAIN t.refs
      /\ \A r \in DOMAIN t.refs : r # op.target => new.refs[r] = t.refs[r]
      /\ DOMAIN new.refs[op.target] = RefFields
      /\ new.refs[op.target].snapshot = op.snapshot.id
      /\ new.refs[op.target].type = t.refs[op.target].type
      /\ new.refs[op.target].created = t.refs[op.target].created
  BY <1>2 DEF Image, RefFields
<1>3. new.snapshots = Put(t.snapshots, op.snapshot.id,
               [parent |-> op.snapshot.parent, sequence |-> op.snapshot.sequence,
                schema |-> t.currentSchema, version |-> t.version + 1, added |-> op.file.id])
  BY <1>1 DEF CommitSnapshot, Image, ImageFields
<1>4. new.files = Put(t.files, op.file.id,
               [schema |-> op.file.schema, sequence |-> op.snapshot.sequence, snapshot |-> op.snapshot.id,
                version |-> t.version + 1, metrics |-> Elements(op.file.metrics)])
  BY <1>1 DEF CommitSnapshot, Image, ImageFields
<1>5. Image(new)
  BY <1>2, <1>8 DEF Image
<1>6. /\ DOMAIN new.snapshots = DOMAIN t.snapshots \cup {op.snapshot.id}
      /\ \A s \in DOMAIN t.snapshots : s # op.snapshot.id => new.snapshots[s] = t.snapshots[s]
      /\ new.snapshots[op.snapshot.id].parent = op.snapshot.parent
      /\ new.snapshots[op.snapshot.id].added = op.file.id
  BY <1>3 DEF Put
<1>7. /\ DOMAIN new.files = DOMAIN t.files \cup {op.file.id}
      /\ \A f \in DOMAIN t.files : f # op.file.id => new.files[f] = t.files[f]
      /\ new.files[op.file.id].schema = op.file.schema
  BY <1>4 DEF Put
<1> QED
  BY <1>2, <1>5, <1>6, <1>7, <1>8 DEF SnapshotEffect

LEMMA CommitRecorded ==
    ASSUME NEW t, Image(t), NEW commit, NEW new, new = RecordCommit(t, commit)
    PROVE  /\ Image(new) /\ SameBut(new, t, {"version", "commits"})
           /\ new.version = t.version + 1
           /\ new.commits = Append(t.commits, [key |-> commit.key, operations |-> commit.operations,
                                               results |-> commit.results])
  BY DEF RecordCommit, Image, SameBut, ImageFields

-----------------------------------------------------------------------------
(* What acceptance of a request says.                                      *)

(* What is required of an operation holds of the image that accepts it.    *)
LEMMA RequirementsHold ==
    ASSUME NEW t, NEW requirements, NEW ops, OperationsAccepted(t, requirements, ops),
           NEW op \in Elements(ops)
    PROVE  /\ \A q \in Required(t, op) : Evaluate(t, q)
           /\ Permitted(t, op)
  BY DEF OperationsAccepted

LEMMA CreatesAnew ==
    ASSUME NEW t, NEW op, op.type = "create_ref", \A q \in Required(t, op) : Evaluate(t, q)
    PROVE  op.ref \notin DOMAIN t.refs
<1>1. [type |-> "ref_absent", ref |-> op.ref] \in Required(t, op)
  BY DEF Required
<1> QED
  BY <1>1 DEF Evaluate

LEMMA ReplacesBranch ==
    ASSUME NEW t, NEW op, op.type = "replace_ref", \A q \in Required(t, op) : Evaluate(t, q),
           Permitted(t, op)
    PROVE  RefIs(t, op.ref, "branch")
<1>1. op.ref \in DOMAIN t.refs
  BY DEF Permitted
<1>2. [type |-> "ref_exists", ref |-> op.ref, refType |-> "branch"] \in Required(t, op)
  BY <1>1 DEF Required
<1> QED
  BY <1>2 DEF Evaluate

LEMMA AddsFreshSchema ==
    ASSUME NEW t, NEW op, op.type = "add_schema", \A q \in Required(t, op) : Evaluate(t, q),
           Permitted(t, op)
    PROVE  /\ op.schema.id \notin DOMAIN t.schemas
           /\ op.schema.parent = t.currentSchema
           /\ (Elements(op.schema.fields) \ FieldsOf(t, t.currentSchema)) \cap t.fieldIds = {}
<1>1. /\ [type |-> "schema_id_absent", schema |-> op.schema.id] \in Required(t, op)
      /\ [type |-> "field_ids_absent",
          fields |-> Elements(op.schema.fields) \ FieldsOf(t, t.currentSchema)] \in Required(t, op)
  BY DEF Required
<1>2. op.schema.parent = t.currentSchema
  BY DEF Permitted, Additive, ReadSchema
<1> QED
  BY <1>1, <1>2 DEF Evaluate

-----------------------------------------------------------------------------
(* Sequences                                                               *)

IsSequence(s) == \E S : s \in Seq(S)

LEMMA Appended ==
    ASSUME NEW s, IsSequence(s), NEW e
    PROVE  /\ IsSequence(Append(s, e))
           /\ Len(s) \in Nat
           /\ Len(Append(s, e)) = Len(s) + 1
           /\ \A i \in 1..Len(s) : Append(s, e)[i] = s[i]
           /\ Append(s, e)[Len(s) + 1] = e
<1>1. PICK S : s \in Seq(S)
  BY DEF IsSequence
<1>2. s \in Seq(S \cup {e})
  BY <1>1
<1>3. Append(s, e) \in Seq(S \cup {e})
  BY <1>2
<1> QED
  BY <1>2, <1>3 DEF IsSequence

(* The first n operations.                                                 *)
Done(ops, n) == {ops[i] : i \in 1..n}

LEMMA OneMoreDone ==
    ASSUME NEW ops, NEW n \in Nat
    PROVE  Done(ops, n + 1) = Done(ops, n) \cup {ops[n + 1]}
<1>1. 1..(n + 1) = 1..n \cup {n + 1}
  OBVIOUS
<1> QED
  BY <1>1 DEF Done

-----------------------------------------------------------------------------
(* Schemas                                                                 *)

(* Rows name schemas and field ids that are recorded, and a field id is    *)
(* introduced by one schema.                                               *)
SchemaSound(t) ==
    /\ \A row \in t.fields : row.schema \in DOMAIN t.schemas /\ row.field \in t.fieldIds
    /\ \A a, b \in DOMAIN t.schemas :
           \A field \in FieldsOf(t, a) \cap FieldsOf(t, b) :
               Introduces(t, a, field) /\ Introduces(t, b, field) => a = b

LEMMA FieldsIn ==
    ASSUME NEW t, NEW id, NEW field
    PROVE  field \in FieldsOf(t, id) <=> \E row \in t.fields : row.schema = id /\ row.field = field
  BY DEF FieldsOf, RowsOfSchema

LEMMA RowsIn ==
    ASSUME NEW schema, NEW row \in FieldRows(schema)
    PROVE  row.schema = schema.id /\ row.field \in Elements(schema.fields)
  BY DEF FieldRows, Elements

(* A schema whose id is new and whose fields are those of its parent and   *)
(* new ones keeps that so.                                                 *)
LEMMA SchemaStaysSound ==
    ASSUME NEW t, SchemaSound(t), NEW schema, schema.id \notin DOMAIN t.schemas,
           (Elements(schema.fields) \ FieldsOf(t, schema.parent)) \cap t.fieldIds = {},
           NEW new,
           new.schemas = Put(t.schemas, schema.id, schema.parent),
           new.fields = t.fields \cup FieldRows(schema),
           new.fieldIds = t.fieldIds \cup Elements(schema.fields)
    PROVE  SchemaSound(new)
<1> DEFINE n == schema.id
<1>1. /\ DOMAIN new.schemas = DOMAIN t.schemas \cup {n}
      /\ new.schemas[n] = schema.parent
      /\ \A a \in DOMAIN t.schemas : new.schemas[a] = t.schemas[a]
  BY DEF Put
<1>2. \A row \in new.fields : row.schema \in DOMAIN new.schemas /\ row.field \in new.fieldIds
  BY <1>1, RowsIn DEF SchemaSound
<1>3. \A id : FieldsOf(t, id) \subseteq FieldsOf(new, id)
  BY FieldsIn
<1>4. \A id \in DOMAIN t.schemas : FieldsOf(new, id) = FieldsOf(t, id)
  <2> TAKE id \in DOMAIN t.schemas
  <2>1. \A field : field \in FieldsOf(new, id) => field \in FieldsOf(t, id)
    BY FieldsIn, RowsIn
  <2> QED
    BY <2>1, <1>3
<1>5. FieldsOf(new, n) \subseteq Elements(schema.fields)
  BY FieldsIn, RowsIn DEF SchemaSound
<1>6. \A a : FieldsOf(t, a) \subseteq t.fieldIds
  BY FieldsIn DEF SchemaSound
<1>7. \A a \in DOMAIN t.schemas : \A field : Introduces(new, a, field) => Introduces(t, a, field)
  BY <1>1, <1>3, <1>4 DEF Introduces
<1>8. \A field : Introduces(new, n, field) => field \notin t.fieldIds
  BY <1>1, <1>3, <1>5 DEF Introduces
<1>9. \A a \in DOMAIN t.schemas : \A field : Introduces(new, a, field) => field \in t.fieldIds
  BY <1>6, <1>7 DEF Introduces
<1>10. ASSUME NEW a \in DOMAIN new.schemas, NEW b \in DOMAIN new.schemas,
              NEW field \in FieldsOf(new, a) \cap FieldsOf(new, b),
              Introduces(new, a, field), Introduces(new, b, field)
       PROVE  a = b
  <2>1. CASE a = n \/ b = n
    BY <2>1, <1>1, <1>8, <1>9, <1>10
  <2>2. CASE a # n /\ b # n
    <3>1. a \in DOMAIN t.schemas /\ b \in DOMAIN t.schemas
      BY <2>2, <1>1
    <3>2. Introduces(t, a, field) /\ Introduces(t, b, field)
      BY <3>1, <1>7, <1>10
    <3>3. field \in FieldsOf(t, a) \cap FieldsOf(t, b)
      BY <3>2 DEF Introduces
    <3> QED
      BY <3>1, <3>2, <3>3 DEF SchemaSound
  <2> QED
    BY <2>1, <2>2
<1> QED
  BY <1>2, <1>10 DEF SchemaSound

-----------------------------------------------------------------------------
(* An image under construction                                             *)

(* What the operations done have made of image p.                          *)
Derived(p, t, done) ==
    /\ Image(t)
    /\ t.version = p.version /\ t.commits = p.commits
    /\ t.snapshots = p.snapshots /\ t.files = p.files
    /\ \A r : (\A op \in done : ~Touches(op, r)) =>
           /\ r \in DOMAIN t.refs <=> r \in DOMAIN p.refs
           /\ r \in DOMAIN p.refs => t.refs[r] = p.refs[r]
    /\ \A op \in done : op.type = "drop_ref" => op.ref \notin DOMAIN t.refs
    /\ (\A op \in done : op.type # "set_current_schema") => t.currentSchema = p.currentSchema
    /\ (\A op \in done : op.type # "add_schema") =>
           t.schemas = p.schemas /\ t.fields = p.fields /\ t.fieldIds = p.fieldIds
    /\ SchemaSound(t)

LEMMA NothingDone ==
    ASSUME NEW p, Image(p), SchemaSound(p)
    PROVE  Derived(p, p, {})
  BY DEF Derived

LEMMA DerivedNext ==
    ASSUME NEW p, NEW t, NEW ops, NEW n \in Nat, Derived(p, t, Done(ops, n)),
           WellFormed(ops), Len(ops) \in Nat, n < Len(ops), NEW op, op = ops[n + 1],
           op.type \in MetadataOperations,
           \A q \in Required(p, op) : Evaluate(p, q), Permitted(p, op),
           NEW new, new = Apply(t, op)
    PROVE  Derived(p, new, Done(ops, n + 1))
<1> DEFINE done == Done(ops, n)
<1>1. Done(ops, n + 1) = done \cup {op}
  BY OneMoreDone
<1>2. /\ Image(new) /\ OtherRefsKept(new, t, op)
      /\ new.version = t.version /\ new.commits = t.commits
      /\ new.snapshots = t.snapshots /\ new.files = t.files
      /\ op.type # "set_current_schema" => new.currentSchema = t.currentSchema
      /\ op.type # "add_schema" =>
            new.schemas = t.schemas /\ new.fields = t.fields /\ new.fieldIds = t.fieldIds
      /\ op.type = "drop_ref" => op.ref \notin DOMAIN new.refs
  BY OperationKeeps DEF Derived
<1>3. \A i \in 1..n : /\ op.type = "add_schema" => ops[i].type # "add_schema"
                      /\ ops[i].type \in RefOperations => ~Touches(op, ops[i].ref)
  BY DEF WellFormed
<1>4. /\ op.type = "add_schema" => \A other \in done : other.type # "add_schema"
      /\ \A other \in done : other.type \in RefOperations => ~Touches(op, other.ref)
  BY <1>3 DEF Done
<1> HIDE DEF done
<1>d. Derived(p, t, done)
  BY DEF done
<1>5. \A r : (\A other \in done \cup {op} : ~Touches(other, r)) =>
           /\ r \in DOMAIN new.refs <=> r \in DOMAIN p.refs
           /\ r \in DOMAIN p.refs => new.refs[r] = p.refs[r]
  BY <1>d, <1>2 DEF Derived, OtherRefsKept
<1>6. \A other \in done \cup {op} : other.type = "drop_ref" => other.ref \notin DOMAIN new.refs
  BY <1>d, <1>2, <1>4 DEF Derived, OtherRefsKept, RefOperations
<1>7. SchemaSound(new)
  <2>1. CASE op.type = "add_schema"
    <3>1. t.schemas = p.schemas /\ t.fields = p.fields /\ t.fieldIds = p.fieldIds
      BY <2>1, <1>4, <1>d DEF Derived
    <3>2. /\ op.schema.id \notin DOMAIN p.schemas
          /\ op.schema.parent = p.currentSchema
          /\ (Elements(op.schema.fields) \ FieldsOf(p, p.currentSchema)) \cap p.fieldIds = {}
      BY <2>1, AddsFreshSchema
    <3>3. FieldsOf(t, op.schema.parent) = FieldsOf(p, p.currentSchema)
      BY <3>1, <3>2 DEF FieldsOf, RowsOfSchema
    <3>4. /\ new.schemas = Put(t.schemas, op.schema.id, op.schema.parent)
          /\ new.fields = t.fields \cup FieldRows(op.schema)
          /\ new.fieldIds = t.fieldIds \cup Elements(op.schema.fields)
      BY <2>1, <1>d, SchemaAdded DEF Derived
    <3>5. SchemaSound(t)
      BY <1>d DEF Derived
    <3>6. op.schema.id \notin DOMAIN t.schemas
      BY <3>1, <3>2
    <3>7. (Elements(op.schema.fields) \ FieldsOf(t, op.schema.parent)) \cap t.fieldIds = {}
      BY <3>1, <3>2, <3>3
    <3> QED
      BY <3>4, <3>5, <3>6, <3>7, SchemaStaysSound
  <2>2. CASE op.type # "add_schema"
    <3>1. SchemaSound(t) /\ new.schemas = t.schemas /\ new.fields = t.fields /\ new.fieldIds = t.fieldIds
      BY <2>2, <1>d, <1>2 DEF Derived
    <3>2. \A id : FieldsOf(new, id) = FieldsOf(t, id)
      BY <3>1 DEF FieldsOf, RowsOfSchema
    <3> QED
      BY <3>1, <3>2 DEF SchemaSound, Introduces
  <2> QED
    BY <2>1, <2>2
<1>8. /\ (\A other \in done \cup {op} : other.type # "set_current_schema") =>
             new.currentSchema = p.currentSchema
      /\ (\A other \in done \cup {op} : other.type # "add_schema") =>
             new.schemas = p.schemas /\ new.fields = p.fields /\ new.fieldIds = p.fieldIds
      /\ new.version = p.version /\ new.commits = p.commits
      /\ new.snapshots = p.snapshots /\ new.files = p.files
  BY <1>d, <1>2 DEF Derived
<1> QED
  BY <1>1, <1>2, <1>5, <1>6, <1>7, <1>8 DEF Derived

-----------------------------------------------------------------------------
(* What changes between two versions                                       *)

(* The ref follows the snapshot the operation committed.                   *)
Advanced(old, new, r) ==
    /\ r \in DOMAIN old.refs \cap DOMAIN new.refs
    /\ old.refs[r].type = "branch" /\ new.refs[r].type = "branch"
    /\ new.refs[r].created = old.refs[r].created
    /\ new.refs[r].snapshot \in DOMAIN new.snapshots
    /\ new.snapshots[new.refs[r].snapshot].parent = old.refs[r].snapshot

(* ChangesRecorded for two images, with what an append does to its target. *)
Changes(old, new, ops) ==
    /\ \A r \in DOMAIN old.refs \cup DOMAIN new.refs :
           \/ /\ r \in DOMAIN old.refs \cap DOMAIN new.refs
              /\ old.refs[r] = new.refs[r]
           \/ \E op \in ops : Touches(op, r)
           \/ /\ \E op \in ops : op.type = "commit_snapshot" /\ op.target = r
              /\ Advanced(old, new, r)
    /\ \A r \in DOMAIN old.refs \cap DOMAIN new.refs :
           old.refs[r].type = "tag" => old.refs[r] = new.refs[r]
    /\ old.currentSchema # new.currentSchema => \E op \in ops : op.type = "set_current_schema"
    /\ \A s \in DOMAIN old.snapshots :
           s \in DOMAIN new.snapshots /\ new.snapshots[s] = old.snapshots[s]

LEMMA TransactionChanges ==
    ASSUME NEW p, NEW t, NEW ops, NEW requirements, OperationsAccepted(p, requirements, ops),
           \A op \in Elements(ops) : op.type \in MetadataOperations,
           Derived(p, t, Elements(ops))
    PROVE  Changes(p, t, Elements(ops))
<1> DEFINE all == Elements(ops)
<1>1. \A op \in all : /\ op.type = "create_ref" => op.ref \notin DOMAIN p.refs
                      /\ op.type = "replace_ref" => p.refs[op.ref].type = "branch"
  BY RequirementsHold, CreatesAnew, ReplacesBranch DEF RefIs
<1> HIDE DEF all
<1>d. Derived(p, t, all)
  BY DEF all
<1>2. \A r \in DOMAIN p.refs \cup DOMAIN t.refs :
           \/ /\ r \in DOMAIN p.refs \cap DOMAIN t.refs
              /\ p.refs[r] = t.refs[r]
           \/ \E op \in all : Touches(op, r)
  BY <1>d DEF Derived
<1>3. ASSUME NEW r \in DOMAIN p.refs \cap DOMAIN t.refs, p.refs[r].type = "tag"
      PROVE  p.refs[r] = t.refs[r]
  <2>1. ASSUME NEW op \in all, Touches(op, r)
        PROVE  FALSE
    <3>1. op.type = "drop_ref" => r \notin DOMAIN t.refs
      BY <2>1, <1>d DEF Derived, Touches
    <3> QED
      BY <2>1, <3>1, <1>1, <1>3 DEF Touches, RefOperations
  <2> QED
    BY <2>1, <1>d DEF Derived
<1>4. /\ p.currentSchema # t.currentSchema => \E op \in all : op.type = "set_current_schema"
      /\ t.snapshots = p.snapshots
  BY <1>d DEF Derived
<1> QED
  BY <1>2, <1>3, <1>4 DEF Changes, all

-----------------------------------------------------------------------------
(* Requests, apart from the state that holds them: r is what call c asks   *)
(* for, seen the image of version b, which it prepared from.               *)

AppendOf(p, r, c) ==
    [type |-> "commit_snapshot", target |-> r.ref,
     snapshot |-> [id |-> p.version + 1, parent |-> p.refs[r.ref].snapshot,
                   sequence |-> p.lastSequence + 1, schema |-> r.schema],
     file |-> [id |-> c, schema |-> r.schema, metrics |-> r.metrics]]

OperationsOf(p, r, c) == IF r.kind = "append" THEN <<AppendOf(p, r, c)>> ELSE r.operations

PreparedFrom(seen, ops) == UNION {Required(seen, op) : op \in Elements(ops)}

(* What acceptance says of the image p it was decided on.                  *)
Allowed(p, seen, b, r) ==
    IF r.kind = "append"
    THEN /\ RefIs(seen, r.ref, "branch") /\ RefIs(p, r.ref, "branch")
         /\ ~RefTouchedSince(p, r.ref, b) /\ ~SchemaSelectedSince(p, b)
         /\ p.currentSchema = r.schema /\ MetricsValid(p, r.metrics)
    ELSE OperationsAccepted(p, PreparedFrom(seen, r.operations), r.operations)

LEMMA OperationsSame ==
    ASSUME NEW p, NEW c
    PROVE  Operations(p, c) = OperationsOf(p, request[c], c)
  BY DEF Operations, OperationsOf, AppendOperation, AppendOf, IsAppend

LEMMA AcceptedAllowed ==
    ASSUME NEW p, NEW c, Accepted(p, c)
    PROVE  Allowed(p, At(base[c]), base[c], request[c])
<1>1. CASE IsAppend(c)
  BY <1>1 DEF Accepted, AppendAccepted, RequestValid, Allowed, IsAppend
<1>2. CASE ~IsAppend(c)
  <2>1. Prepared(c) = PreparedFrom(At(base[c]), request[c].operations)
    BY DEF Prepared, PreparedFrom
  <2> QED
    BY <1>2, <2>1 DEF Accepted, Allowed, IsAppend
<1> QED
  BY <1>1, <1>2

(* What Scenarios say of a request.                                        *)
RequestOK(r) ==
    IF r.kind = "append"
    THEN IsSequence(r.metrics)
    ELSE /\ IsSequence(r.operations)
         /\ \A op \in Elements(r.operations) :
                /\ op.type \in MetadataOperations
                /\ op.type = "add_schema" => op.schema \in Schema

LEMMA RequestsOK ==
    ASSUME request \in Scenarios, NEW c \in Calls
    PROVE  RequestOK(request[c])
<1>1. CASE request[c].kind = "append"
  BY <1>1, ScenariosAssumption DEF RequestOK, IsSequence
<1>2. CASE request[c].kind # "append"
  <2> DEFINE ops == request[c].operations
             Fits(op) == /\ op.type \in MetadataOperations
                         /\ op.type = "add_schema" => op.schema \in Schema
  <2>1. ops \in Seq(Range(ops)) /\ \A op \in Range(ops) : Fits(op)
    BY <1>2, ScenariosAssumption
  <2> HIDE DEF ops, Fits
  <2>2. IsSequence(ops) /\ DOMAIN ops = 1..Len(ops)
    BY <2>1 DEF IsSequence
  <2>3. \A op \in Elements(ops) : Fits(op)
    BY <2>1, <2>2 DEF Elements, Range
  <2> QED
    BY <1>2, <2>2, <2>3 DEF RequestOK, ops, Fits
<1> QED
  BY <1>1, <1>2

(* What a table keeps of its snapshots: who committed them and the schema  *)
(* of their files.                                                         *)
SnapshotOK(t, s, asked) ==
    LET f == t.snapshots[s].added
    IN  /\ f \in Calls /\ asked[f].kind = "append"
        /\ f = t.commits[s].key
        /\ f \in DOMAIN t.files /\ t.files[f].schema = asked[f].schema

(* The image t an append of files of this schema makes of p.               *)
AppendEffect(p, t, c, schema) ==
    /\ Image(t)
    /\ SameBut(t, p, {"snapshots", "files", "live", "refs", "lastSequence"})
    /\ DOMAIN t.snapshots = DOMAIN p.snapshots \cup {p.version + 1}
    /\ \A s \in DOMAIN p.snapshots : t.snapshots[s] = p.snapshots[s]
    /\ t.snapshots[p.version + 1].added = c
    /\ DOMAIN t.files = DOMAIN p.files \cup {c}
    /\ \A f \in DOMAIN p.files : f # c => t.files[f] = p.files[f]
    /\ t.files[c].schema = schema

LEMMA AppendChanges ==
    ASSUME NEW p, Image(p), NEW c, NEW asked, RefIs(p, asked.ref, "branch"), p.version \in Nat,
           DOMAIN p.snapshots \subseteq 1..p.version,
           NEW op, op = AppendOf(p, asked, c), NEW t, t = Apply(p, op)
    PROVE  AppendEffect(p, t, c, asked.schema) /\ Changes(p, t, {op})
<1> DEFINE r == asked.ref
           n == p.version + 1
<1>1. RefIs(p, r, "branch")
  OBVIOUS
<1>2. /\ op.type = "commit_snapshot" /\ op.target = r
      /\ op.snapshot.id = n /\ op.snapshot.parent = p.refs[r].snapshot
      /\ op.file.id = c /\ op.file.schema = asked.schema
  BY DEF AppendOf
<1>n. n \notin DOMAIN p.snapshots
  OBVIOUS
<1>3. op.target \in DOMAIN p.refs
  BY <1>1, <1>2 DEF RefIs
<1>4. SnapshotEffect(t, p, op)
  BY <1>2, <1>3, SnapshotCommitted
<1> HIDE DEF r, n
<1>5. /\ DOMAIN t.snapshots = DOMAIN p.snapshots \cup {n}
      /\ \A s \in DOMAIN p.snapshots : t.snapshots[s] = p.snapshots[s]
      /\ t.snapshots[n].parent = p.refs[r].snapshot
      /\ t.snapshots[n].added = c
      /\ DOMAIN t.files = DOMAIN p.files \cup {c}
      /\ \A f \in DOMAIN p.files : f # c => t.files[f] = p.files[f]
      /\ t.files[c].schema = asked.schema
      /\ DOMAIN t.refs = DOMAIN p.refs
      /\ \A x \in DOMAIN p.refs : x # r => t.refs[x] = p.refs[x]
      /\ t.refs[r].snapshot = n
      /\ t.refs[r].type = p.refs[r].type
      /\ t.refs[r].created = p.refs[r].created
  BY <1>2, <1>4, <1>n DEF SnapshotEffect
<1>6. t.currentSchema = p.currentSchema
  BY <1>4 DEF SnapshotEffect, SameBut, ImageFields
<1>7. Advanced(p, t, r)
  BY <1>1, <1>5 DEF Advanced, RefIs
<1>8. Changes(p, t, {op})
  BY <1>1, <1>2, <1>5, <1>6, <1>7 DEF Changes, RefIs
<1> QED
  BY <1>4, <1>5, <1>8 DEF n, SnapshotEffect, AppendEffect

-----------------------------------------------------------------------------
(* Images of versions and what led to them                                 *)

TableOK(t, asked) ==
    /\ Image(t) /\ t.version \in Nat
    /\ IsSequence(t.commits) /\ Len(t.commits) = t.version
    /\ SchemaSound(t)
    /\ DOMAIN t.snapshots \subseteq 1..t.version
    /\ \A s \in DOMAIN t.snapshots : SnapshotOK(t, s, asked)

(* Image t is what call c, prepared from version b, commits on image p.    *)
CommitOK(p, t, c, seen, b, asked) ==
    /\ TableOK(t, asked) /\ t.version = p.version + 1
    /\ \A w \in 1..p.version : t.commits[w] = p.commits[w]
    /\ t.commits[t.version].key = c
    /\ t.commits[t.version].operations = OperationsOf(p, asked[c], c)
    /\ b <= p.version
    /\ Allowed(p, seen, b, asked[c])
    /\ Changes(p, t, Elements(OperationsOf(p, asked[c], c)))

(* Image t is p after n of the operations of call c.                       *)
Building(p, t, n, r, c) ==
    /\ n \in 0..Len(OperationsOf(p, r, c))
    /\ IF r.kind = "append" THEN t = IF n = 0 THEN p ELSE Apply(p, AppendOf(p, r, c))
       ELSE Derived(p, t, Done(r.operations, n))

LEMMA OneOperation ==
    ASSUME NEW p, NEW r, NEW c, r.kind = "append"
    PROVE  /\ Len(OperationsOf(p, r, c)) = 1 /\ OperationsOf(p, r, c)[1] = AppendOf(p, r, c)
           /\ Elements(OperationsOf(p, r, c)) = {AppendOf(p, r, c)}
<1> DEFINE op == AppendOf(p, r, c)
<1>1. OperationsOf(p, r, c) = <<op>>
  BY DEF OperationsOf
<1> HIDE DEF op
<1>2. Len(<<op>>) = 1 /\ <<op>>[1] = op /\ {<<op>>[i] : i \in 1..1} = {op}
  OBVIOUS
<1> QED
  BY <1>1, <1>2 DEF Elements, op

LEMMA BuildingNext ==
    ASSUME NEW p, NEW t, NEW n, NEW r, NEW c, NEW seen, NEW b, RequestOK(r), Allowed(p, seen, b, r),
           Building(p, t, n, r, c), n < Len(OperationsOf(p, r, c)),
           NEW new, new = Apply(t, OperationsOf(p, r, c)[n + 1])
    PROVE  Building(p, new, n + 1, r, c)
<1>1. CASE r.kind = "append"
  BY <1>1, OneOperation DEF Building
<1>2. CASE r.kind # "append"
  <2> DEFINE ops == r.operations
             op == ops[n + 1]
  <2>1. OperationsOf(p, r, c) = ops
    BY <1>2 DEF OperationsOf
  <2>2. IsSequence(ops) /\ OperationsAccepted(p, PreparedFrom(seen, ops), ops)
    BY <1>2 DEF RequestOK, Allowed
  <2>3. Len(ops) \in Nat
    BY <2>2, Appended
  <2>4. n \in Nat /\ n < Len(ops) /\ Derived(p, t, Done(ops, n))
    BY <1>2, <2>1, <2>3 DEF Building
  <2>5. op \in Elements(ops)
    BY <2>3, <2>4 DEF Elements
  <2>6. op.type \in MetadataOperations
    BY <1>2, <2>5 DEF RequestOK
  <2>7. (\A q \in Required(p, op) : Evaluate(p, q)) /\ Permitted(p, op)
    BY <2>2, <2>5, RequirementsHold
  <2>8. WellFormed(ops)
    BY <2>2 DEF OperationsAccepted
  <2>9. new = Apply(t, op)
    BY <2>1
  <2> HIDE DEF ops, op
  <2>op. op = ops[n + 1]
    BY DEF op
  <2>10. Derived(p, new, Done(ops, n + 1))
    BY <2>op, <2>3, <2>4, <2>6, <2>7, <2>8, <2>9, DerivedNext
  <2>11. n + 1 \in 0..Len(ops)
    BY <2>3, <2>4
  <2> QED
    BY <1>2, <2>1, <2>10, <2>11 DEF Building, ops
<1> QED
  BY <1>1, <1>2

(* Image t, made of p, before its commit is recorded.                      *)
Completed(p, t, c, asked) ==
    /\ Image(t) /\ t.version = p.version /\ t.commits = p.commits
    /\ SchemaSound(t)
    /\ Changes(p, t, Elements(OperationsOf(p, asked[c], c)))
    /\ DOMAIN p.snapshots \subseteq DOMAIN t.snapshots
    /\ DOMAIN t.snapshots \subseteq
          DOMAIN p.snapshots \cup (IF asked[c].kind = "append" THEN {p.version + 1} ELSE {})
    /\ \A s \in DOMAIN p.snapshots : t.snapshots[s] = p.snapshots[s]
    /\ asked[c].kind = "append" => t.snapshots[p.version + 1].added = c
    /\ DOMAIN p.files \subseteq DOMAIN t.files
    /\ \A f \in DOMAIN p.files : t.files[f].schema = p.files[f].schema \/ f = c
    /\ asked[c].kind = "append" => c \in DOMAIN t.files /\ t.files[c].schema = asked[c].schema
    /\ asked[c].kind # "append" => t.files = p.files

LEMMA AllDone ==
    ASSUME NEW p, NEW t, NEW c \in Calls, NEW seen, NEW b, NEW asked, RequestOK(asked[c]),
           TableOK(p, asked), Allowed(p, seen, b, asked[c]),
           Building(p, t, Len(OperationsOf(p, asked[c], c)), asked[c], c)
    PROVE  Completed(p, t, c, asked)
<1> DEFINE r == asked[c]
<1>1. CASE r.kind = "append"
  <2> DEFINE op == AppendOf(p, r, c)
  <2>1. Elements(OperationsOf(p, r, c)) = {op} /\ Len(OperationsOf(p, r, c)) = 1
    BY <1>1, OneOperation
  <2>2. t = Apply(p, op)
    BY <1>1, <2>1 DEF Building
  <2>3. RefIs(p, r.ref, "branch")
    BY <1>1 DEF Allowed
  <2>4. Image(p) /\ p.version \in Nat /\ DOMAIN p.snapshots \subseteq 1..p.version /\ SchemaSound(p)
    BY DEF TableOK
  <2> HIDE DEF op
  <2>op. op = AppendOf(p, r, c)
    BY DEF op
  <2> HIDE DEF r
  <2>5. AppendEffect(p, t, c, r.schema) /\ Changes(p, t, {op})
    BY <2>2, <2>3, <2>4, <2>op, AppendChanges
  <2>6. /\ t.version = p.version /\ t.commits = p.commits /\ t.schemas = p.schemas
        /\ t.fields = p.fields /\ t.fieldIds = p.fieldIds
    BY <2>5 DEF AppendEffect, SameBut, ImageFields
  <2>7. SchemaSound(t)
    <3>1. \A id : FieldsOf(t, id) = FieldsOf(p, id)
      BY <2>6 DEF FieldsOf, RowsOfSchema
    <3> QED
      BY <2>4, <2>6, <3>1 DEF SchemaSound, Introduces
  <2> QED
    BY <1>1, <2>1, <2>5, <2>6, <2>7 DEF r, AppendEffect, Completed
<1>2. CASE r.kind # "append"
  <2> DEFINE ops == r.operations
  <2>1. OperationsOf(p, r, c) = ops
    BY <1>2 DEF OperationsOf
  <2>2. /\ OperationsAccepted(p, PreparedFrom(seen, ops), ops)
        /\ \A op \in Elements(ops) : op.type \in MetadataOperations
    BY <1>2 DEF RequestOK, Allowed
  <2>3. Derived(p, t, Elements(ops))
    BY <1>2, <2>1 DEF Building, Done, Elements
  <2>4. Changes(p, t, Elements(ops))
    BY <2>2, <2>3, TransactionChanges
  <2> QED
    BY <1>2, <2>1, <2>3, <2>4 DEF Derived, Completed
<1> QED
  BY <1>1, <1>2

LEMMA BuildingFinished ==
    ASSUME NEW p, NEW t, NEW c \in Calls, NEW seen, NEW b, NEW asked, RequestOK(asked[c]),
           TableOK(p, asked), Allowed(p, seen, b, asked[c]), b <= p.version,
           Building(p, t, Len(OperationsOf(p, asked[c], c)), asked[c], c),
           NEW commit, commit.key = c, commit.operations = OperationsOf(p, asked[c], c),
           NEW new, new = RecordCommit(t, commit)
    PROVE  CommitOK(p, new, c, seen, b, asked)
<1> DEFINE ops == OperationsOf(p, asked[c], c)
           n == p.version + 1
           row == [key |-> commit.key, operations |-> commit.operations, results |-> commit.results]
<1>1a. Completed(p, t, c, asked)
  BY AllDone
<1>1. /\ Image(t) /\ t.version = p.version /\ t.commits = p.commits
      /\ SchemaSound(t)
      /\ Changes(p, t, Elements(ops))
      /\ DOMAIN p.snapshots \subseteq DOMAIN t.snapshots
      /\ DOMAIN t.snapshots \subseteq
            DOMAIN p.snapshots \cup (IF asked[c].kind = "append" THEN {n} ELSE {})
      /\ \A s \in DOMAIN p.snapshots : t.snapshots[s] = p.snapshots[s]
      /\ asked[c].kind = "append" => t.snapshots[n].added = c
      /\ DOMAIN p.files \subseteq DOMAIN t.files
      /\ \A f \in DOMAIN p.files : t.files[f].schema = p.files[f].schema \/ f = c
      /\ asked[c].kind = "append" => c \in DOMAIN t.files /\ t.files[c].schema = asked[c].schema
      /\ asked[c].kind # "append" => t.files = p.files
  BY <1>1a DEF Completed
<1>2. /\ Image(p) /\ p.version \in Nat
      /\ IsSequence(p.commits) /\ Len(p.commits) = p.version
      /\ DOMAIN p.snapshots \subseteq 1..p.version
      /\ \A s \in DOMAIN p.snapshots : SnapshotOK(p, s, asked)
  BY DEF TableOK
<1>3. /\ Image(new) /\ SameBut(new, t, {"version", "commits"})
      /\ new.version = t.version + 1
      /\ new.commits = Append(t.commits, row)
  BY <1>1, CommitRecorded
<1>r. row.key = c /\ row.operations = ops
  OBVIOUS
<1> HIDE DEF row, ops, n
<1>4. /\ new.version = n /\ n \in Nat /\ n = p.version + 1
      /\ IsSequence(new.commits) /\ Len(new.commits) = n
      /\ \A w \in 1..p.version : new.commits[w] = p.commits[w]
      /\ new.commits[n] = row
  BY <1>1, <1>2, <1>3, Appended DEF n
<1>5. /\ new.snapshots = t.snapshots /\ new.files = t.files /\ new.refs = t.refs
      /\ new.currentSchema = t.currentSchema
      /\ new.schemas = t.schemas /\ new.fields = t.fields /\ new.fieldIds = t.fieldIds
  BY <1>3 DEF SameBut, ImageFields
<1>6. SchemaSound(new)
  <2>1. \A id : FieldsOf(new, id) = FieldsOf(t, id)
    BY <1>5 DEF FieldsOf, RowsOfSchema
  <2> QED
    BY <1>1, <1>5, <2>1 DEF SchemaSound, Introduces
<1>7. Changes(p, new, Elements(ops))
  BY <1>1, <1>5 DEF Changes, Advanced
<1>8. DOMAIN new.snapshots \subseteq 1..n
  BY <1>1, <1>2, <1>4, <1>5
<1>9. ASSUME NEW s \in DOMAIN new.snapshots
      PROVE  SnapshotOK(new, s, asked)
  <2>1. CASE s \in DOMAIN p.snapshots
    <3> DEFINE f == p.snapshots[s].added
    <3>1. /\ f \in Calls /\ asked[f].kind = "append" /\ f = p.commits[s].key
          /\ f \in DOMAIN p.files /\ p.files[f].schema = asked[f].schema
      BY <2>1, <1>2 DEF SnapshotOK
    <3>2. new.snapshots[s].added = f /\ new.commits[s] = p.commits[s]
      BY <2>1, <1>1, <1>2, <1>4, <1>5
    <3>3. f \in DOMAIN new.files /\ new.files[f].schema = asked[f].schema
      BY <3>1, <1>1, <1>5
    <3> QED
      BY <3>1, <3>2, <3>3 DEF SnapshotOK
  <2>2. CASE s \notin DOMAIN p.snapshots
    <3>1. s = n /\ asked[c].kind = "append"
      BY <2>2, <1>1, <1>5
    <3> QED
      BY <3>1, <1>1, <1>4, <1>5, <1>r DEF SnapshotOK
  <2> QED
    BY <2>1, <2>2
<1>10. TableOK(new, asked)
  BY <1>3, <1>4, <1>6, <1>8, <1>9 DEF TableOK
<1> QED
  BY <1>4, <1>7, <1>10, <1>r DEF CommitOK, ops

-----------------------------------------------------------------------------
(* The inductive invariant: every version is what a committed call made of *)
(* the version before, and every candidate is what its call has so far     *)
(* made of a version, accepted there.                                      *)

Kept(old, new) ==
    \A s \in DOMAIN old.snapshots :
        s \in DOMAIN new.snapshots /\ new.snapshots[s] = old.snapshots[s]

VersionsOK ==
    /\ \A v \in Versions : TableOK(At(v), request) /\ At(v).version = v
    /\ \A v \in Versions : \A w \in 1..v : At(v).commits[w] = At(w).commits[w]
    /\ \A v \in Versions : Kept(At(v), Current)

CommitsOK ==
    \A v \in Versions \ {0} :
        LET c == At(v).commits[v].key
        IN  /\ c \in Calls /\ pc[c] = "committed"
            /\ CommitOK(At(v - 1), At(v), c, At(base[c]), base[c], request)

Unfinished(c) ==
    LET p == At(cand[c].version)
    IN  /\ cand[c].version \in Versions /\ base[c] <= cand[c].version
        /\ Allowed(p, At(base[c]), base[c], request[c])
        /\ Building(p, cand[c], applied[c], request[c], c)

Finished(c) ==
    /\ cand[c].version - 1 \in Versions
    /\ CommitOK(At(cand[c].version - 1), cand[c], c, At(base[c]), base[c], request)

CandidateOK(c) ==
    /\ pc[c] = "build" => Unfinished(c)
    /\ pc[c] = "built" => Finished(c)

ShapeOK ==
    /\ request \in Scenarios
    /\ IsSequence(history) /\ Len(history) \in Nat \ {0}
    /\ DOMAIN pc = Calls /\ DOMAIN cand = Calls /\ DOMAIN applied = Calls
    /\ base \in [Calls -> Versions]

Inv == ShapeOK /\ VersionsOK /\ CommitsOK /\ \A c \in Calls : CandidateOK(c)

LEMMA InitInv == Init => Inv
<1> SUFFICES ASSUME Init PROVE Inv
  OBVIOUS
<1>1. /\ IsSequence(history) /\ Len(history) = 1 /\ history[1] = Genesis
  <2>1. history \in Seq({Genesis}) /\ Len(history) = 1 /\ history[1] = Genesis
    BY DEF Init
  <2> QED
    BY <2>1 DEF IsSequence
<1>2. Versions = {0} /\ At(0) = Genesis /\ Current = Genesis
  BY <1>1 DEF Versions, At, Current
<1>3. /\ Genesis.version = 0 /\ Genesis.commits = <<>> /\ DOMAIN Genesis.snapshots = {}
      /\ Genesis.fields = FieldRows(GenesisSchema)
      /\ Genesis.fieldIds = Elements(GenesisSchema.fields)
      /\ DOMAIN Genesis.schemas = {GenesisSchema.id}
  BY DEF Genesis
<1>4. Image(Genesis)
  BY DEF Genesis, Image, ImageFields, RefFields
<1>5. SchemaSound(Genesis)
  BY <1>3, RowsIn DEF SchemaSound
<1>6. IsSequence(<<>>) /\ Len(<<>>) = 0
  <2>1. <<>> \in Seq({})
    OBVIOUS
  <2> QED
    BY <2>1 DEF IsSequence
<1>7. TableOK(Genesis, request)
  BY <1>3, <1>4, <1>5, <1>6 DEF TableOK
<1>8. ShapeOK
  BY <1>1, <1>2 DEF ShapeOK, Init
<1>9. VersionsOK
  BY <1>2, <1>3, <1>7 DEF VersionsOK, Kept
<1>10. CommitsOK
  BY <1>2 DEF CommitsOK
<1>11. \A c \in Calls : CandidateOK(c)
  BY DEF Init, CandidateOK
<1> QED
  BY <1>8, <1>9, <1>10, <1>11 DEF Inv

(* A step of c that publishes nothing disturbs neither the versions nor    *)
(* the candidates of other calls.                                          *)
LEMMA Unpublished ==
    ASSUME Inv, NEW c \in Calls, history' = history, request' = request,
           pc[c] # "committed",
           DOMAIN pc' = Calls, DOMAIN cand' = Calls, DOMAIN applied' = Calls,
           base' \in [Calls -> Versions],
           \A d \in Calls \ {c} : /\ pc'[d] = pc[d] /\ base'[d] = base[d]
                                  /\ cand'[d] = cand[d] /\ applied'[d] = applied[d],
           CandidateOK(c)'
    PROVE  Inv'
<1>1. ShapeOK'
  BY DEF Inv, ShapeOK, Versions
<1>2. VersionsOK'
  BY DEF Inv, VersionsOK, Versions, At, Current
<1>3. CommitsOK'
  BY DEF Inv, CommitsOK, Versions, At
<1>4. \A d \in Calls \ {c} : CandidateOK(d)'
  BY DEF Inv, CandidateOK, Unfinished, Finished, Versions, At
<1> QED
  BY <1>1, <1>2, <1>3, <1>4 DEF Inv

LEMMA LastVersion ==
    ASSUME ShapeOK
    PROVE  /\ Len(history) - 1 \in Versions /\ Current = At(Len(history) - 1)
           /\ \A v \in Versions : v \in Nat /\ v + 1 \in 1..Len(history)
  BY DEF ShapeOK, Versions, Current, At

LEMMA PrepareInv ==
    ASSUME Inv, NEW c \in Calls, Prepare(c)
    PROVE  Inv'
<1>1. pc[c] = "start" /\ pc'[c] \in {"rejected", "prepared"} /\ DOMAIN pc' = Calls
  BY DEF Prepare, Goto, Inv, ShapeOK
<1>2. base' \in [Calls -> Versions]
  BY LastVersion DEF Prepare, Inv, ShapeOK
<1>3. CandidateOK(c)'
  BY <1>1 DEF CandidateOK
<1>4. \A d \in Calls \ {c} : pc'[d] = pc[d] /\ base'[d] = base[d]
  BY DEF Prepare, Goto, Inv, ShapeOK
<1> QED
  BY <1>1, <1>2, <1>3, <1>4, Unpublished DEF Prepare, Inv, ShapeOK

LEMMA BeginInv ==
    ASSUME Inv, NEW c \in Calls, Begin(c)
    PROVE  Inv'
<1> DEFINE v == Len(history) - 1
           ops == OperationsOf(Current, request[c], c)
<1>1. /\ pc[c] = "prepared" /\ pc'[c] = "build" /\ DOMAIN pc' = Calls
      /\ cand'[c] = Current /\ applied'[c] = 0
      /\ DOMAIN cand' = Calls /\ DOMAIN applied' = Calls
      /\ history' = history /\ request' = request /\ base' = base
      /\ \A d \in Calls \ {c} : pc'[d] = pc[d] /\ cand'[d] = cand[d] /\ applied'[d] = applied[d]
  BY DEF Begin, Goto, Inv, ShapeOK
<1>2. /\ v \in Versions /\ Current = At(v) /\ Current.version = v
      /\ TableOK(Current, request)
  BY LastVersion DEF Inv, VersionsOK
<1>3. Allowed(Current, At(base[c]), base[c], request[c])
  BY AcceptedAllowed DEF Begin
<1>4. base[c] <= v /\ v \in Nat /\ base[c] \in Nat
  BY LastVersion DEF Inv, ShapeOK, Versions
<1>5. Building(Current, Current, 0, request[c], c)
  <2>1. CASE request[c].kind = "append"
    BY <2>1, OneOperation DEF Building
  <2>2. CASE request[c].kind # "append"
    <3>1. IsSequence(request[c].operations)
      BY <2>2, RequestsOK DEF Inv, ShapeOK, RequestOK
    <3>2. Len(ops) \in Nat
      BY <2>2, <3>1, Appended DEF OperationsOf
    <3>3. Done(request[c].operations, 0) = {}
      BY DEF Done
    <3>4. Derived(Current, Current, {})
      BY <1>2, NothingDone DEF TableOK
    <3>5. 0 \in 0..Len(ops)
      BY <3>2
    <3>6. Derived(Current, Current, Done(request[c].operations, 0))
      BY <3>3, <3>4
    <3> QED
      BY <2>2, <3>5, <3>6 DEF Building
  <2> QED
    BY <2>1, <2>2
<1> HIDE DEF v
<1>6. Unfinished(c)'
  BY <1>1, <1>2, <1>3, <1>4, <1>5 DEF Unfinished, Versions, At
<1>7. CandidateOK(c)'
  BY <1>1, <1>6 DEF CandidateOK
<1> QED
  BY <1>1, <1>7, Unpublished DEF Inv, ShapeOK

(* A call that gives up its candidate, or never had one.                   *)
LEMMA NoCandidateInv ==
    ASSUME Inv, NEW c \in Calls, pc[c] # "committed", history' = history, request' = request,
           base' = base, applied' = applied, DOMAIN cand' = Calls,
           pc' = [pc EXCEPT ![c] = pc'[c]], pc'[c] \in {"prepared", "rejected"},
           \A d \in Calls \ {c} : cand'[d] = cand[d]
    PROVE  Inv'
<1>1. DOMAIN pc' = Calls /\ \A d \in Calls \ {c} : pc'[d] = pc[d]
  BY DEF Inv, ShapeOK
<1>2. CandidateOK(c)'
  BY DEF CandidateOK
<1> QED
  BY <1>1, <1>2, Unpublished DEF Inv, ShapeOK

LEMMA GivingUpInv ==
    ASSUME Inv, NEW c \in Calls, Reject(c) \/ ApplyFails(c) \/ Conflict(c)
    PROVE  Inv'
<1>1. /\ pc[c] # "committed" /\ history' = history /\ request' = request
      /\ base' = base /\ applied' = applied /\ DOMAIN cand' = Calls
      /\ \A d \in Calls \ {c} : cand'[d] = cand[d]
  BY DEF Reject, ApplyFails, Conflict, Inv, ShapeOK
<1>2. pc' = [pc EXCEPT ![c] = pc'[c]] /\ pc'[c] \in {"prepared", "rejected"}
  BY DEF Reject, ApplyFails, Conflict, Goto, Inv, ShapeOK
<1> QED
  BY <1>1, <1>2, NoCandidateInv

LEMMA ApplyNextInv ==
    ASSUME Inv, NEW c \in Calls, ApplyNext(c)
    PROVE  Inv'
<1> DEFINE p == At(cand[c].version)
           r == request[c]
           ops == OperationsOf(p, r, c)
           new == Apply(cand[c], ops[applied[c] + 1])
<1>1. /\ pc[c] = "build" /\ pc' = pc /\ history' = history /\ request' = request /\ base' = base
      /\ \A d \in Calls \ {c} : cand'[d] = cand[d] /\ applied'[d] = applied[d]
      /\ DOMAIN cand' = Calls /\ DOMAIN applied' = Calls /\ applied'[c] = applied[c] + 1
  BY DEF ApplyNext, Inv, ShapeOK
<1>2. Parent(c) = p /\ Operations(Parent(c), c) = ops
  BY <1>1, OperationsSame DEF Parent
<1>3. cand'[c] = new /\ applied[c] < Len(ops)
  BY <1>2 DEF ApplyNext, NextOperation, Inv, ShapeOK
<1>4. Unfinished(c) /\ RequestOK(r)
  BY <1>1, RequestsOK DEF Inv, CandidateOK, ShapeOK
<1>5. Building(p, new, applied[c] + 1, r, c)
  BY <1>3, <1>4, BuildingNext DEF Unfinished
<1>6. new.version = cand[c].version
  <2>1. CASE r.kind = "append"
    <3>1. cand[c] = p /\ new = Apply(p, AppendOf(p, r, c)) /\ applied[c] = 0
      BY <2>1, <1>3, <1>4, OneOperation DEF Unfinished, Building
    <3>2. TableOK(p, request) /\ RefIs(p, r.ref, "branch")
      BY <2>1, <1>4 DEF Unfinished, Allowed, Inv, VersionsOK
    <3>3. AppendEffect(p, new, c, r.schema)
      BY <3>1, <3>2, AppendChanges DEF TableOK
    <3> QED
      BY <3>1, <3>3 DEF AppendEffect, SameBut, ImageFields
  <2>2. CASE r.kind # "append"
    BY <2>2, <1>4, <1>5 DEF Unfinished, Building, Derived
  <2> QED
    BY <2>1, <2>2
<1> HIDE DEF new
<1>7. Unfinished(c)'
  BY <1>1, <1>3, <1>4, <1>5, <1>6 DEF Unfinished, Versions, At
<1>8. CandidateOK(c)'
  BY <1>1, <1>7 DEF CandidateOK
<1> QED
  BY <1>1, <1>8, Unpublished DEF Inv, ShapeOK

LEMMA FinishInv ==
    ASSUME Inv, NEW c \in Calls, Finish(c)
    PROVE  Inv'
<1> DEFINE v == cand[c].version
           p == At(v)
           r == request[c]
           ops == OperationsOf(p, r, c)
           commit == Commit(c)
           new == RecordCommit(cand[c], commit)
<1>1. /\ pc[c] = "build" /\ pc'[c] = "built" /\ DOMAIN pc' = Calls
      /\ history' = history /\ request' = request /\ base' = base /\ applied' = applied
      /\ cand'[c] = new /\ DOMAIN cand' = Calls
      /\ \A d \in Calls \ {c} : cand'[d] = cand[d] /\ pc'[d] = pc[d]
  BY DEF Finish, Goto, Inv, ShapeOK
<1>2. Parent(c) = p /\ Operations(Parent(c), c) = ops
  BY <1>1, OperationsSame DEF Parent
<1>3. applied[c] = Len(ops)
  BY <1>2 DEF Finish
<1>4. commit.key = c /\ commit.operations = ops
  BY <1>2 DEF Commit, SemanticCommit
<1>5. Unfinished(c) /\ RequestOK(r)
  BY <1>1, RequestsOK DEF Inv, CandidateOK, ShapeOK
<1>6. /\ v \in Versions /\ p.version = v /\ TableOK(p, request)
      /\ Allowed(p, At(base[c]), base[c], r) /\ base[c] <= p.version
      /\ Building(p, cand[c], Len(ops), r, c)
  BY <1>3, <1>5 DEF Unfinished, Inv, VersionsOK
<1> HIDE DEF commit
<1>7. CommitOK(p, new, c, At(base[c]), base[c], request)
  BY <1>4, <1>5, <1>6, BuildingFinished
<1> HIDE DEF new
<1>8. new.version - 1 = v /\ v \in Nat
  BY <1>6, <1>7 DEF CommitOK, TableOK
<1>9. Finished(c)'
  BY <1>1, <1>6, <1>7, <1>8 DEF Finished, Versions, At
<1>10. CandidateOK(c)'
  BY <1>1, <1>9 DEF CandidateOK
<1> QED
  BY <1>1, <1>10, Unpublished DEF Inv, ShapeOK

LEMMA PublishInv ==
    ASSUME Inv, NEW c \in Calls, Publish(c)
    PROVE  Inv'
<1> DEFINE n == Len(history)
           t == cand[c]
           p == At(n - 1)
<1>1. /\ pc[c] = "built" /\ pc'[c] = "committed" /\ DOMAIN pc' = Calls
      /\ request' = request /\ base' = base /\ applied' = applied
      /\ history' = Append(history, t) /\ DOMAIN cand' = Calls /\ t.version = n
      /\ \A d \in Calls \ {c} : cand'[d] = cand[d] /\ pc'[d] = pc[d]
  BY DEF Publish, Goto, Inv, ShapeOK
<1>2. /\ n \in Nat \ {0} /\ IsSequence(history')
      /\ Len(history') = n + 1 /\ history'[n + 1] = t
      /\ \A i \in 1..n : history'[i] = history[i]
  BY <1>1, Appended DEF Inv, ShapeOK
<1>3. /\ Versions = 0..(n - 1) /\ Versions' = 0..n
      /\ Current' = t /\ Current = p
      /\ history'[n + 1] = t
      /\ \A v \in Versions : history'[v + 1] = At(v)
  <2>1. Versions = 0..(n - 1) /\ Versions' = 0..((n + 1) - 1)
    BY <1>2 DEF Versions
  <2>2. Current' = t /\ Current = p
    BY <1>2 DEF Current, At
  <2>3. \A v \in Versions : history'[v + 1] = At(v)
    BY <1>2, <2>1 DEF At
  <2> QED
    BY <1>2, <2>1, <2>2, <2>3
<1>4. CommitOK(p, t, c, At(base[c]), base[c], request)
  BY <1>1 DEF Inv, CandidateOK, Finished
<1> HIDE DEF n, t, p
<1>5. n - 1 \in Versions /\ p = At(n - 1) /\ p.version = n - 1
  BY <1>2, <1>3 DEF Inv, VersionsOK, p
<1>6. ShapeOK'
  BY <1>1, <1>2, <1>3 DEF Inv, ShapeOK
<1>7. VersionsOK'
  <2>1. \A v \in Versions' : TableOK(At(v)', request') /\ At(v)'.version = v
    <3> TAKE v \in Versions'
    <3>1. CASE v \in Versions
      BY <3>1, <1>1, <1>3 DEF Inv, VersionsOK, At
    <3>2. CASE v = n
      BY <3>2, <1>1, <1>3, <1>4 DEF CommitOK, At, t
    <3> QED
      BY <3>1, <3>2, <1>2, <1>3
  <2>2. ASSUME NEW v \in Versions', NEW w \in 1..v
        PROVE  At(v)'.commits[w] = At(w)'.commits[w]
    <3>1. CASE v \in Versions
      <4>1. w \in Versions
        BY <3>1, <1>2, <1>3
      <4>2. At(v).commits[w] = At(w).commits[w]
        BY <3>1 DEF Inv, VersionsOK
      <4> QED
        BY <3>1, <4>1, <4>2, <1>3 DEF At
    <3>2. CASE v = n /\ w # n
      <4>1. w \in 1..(n - 1) /\ w \in Versions
        BY <3>2, <1>2, <1>3
      <4>2. t.commits[w] = p.commits[w]
        BY <4>1, <1>4, <1>5 DEF CommitOK
      <4>3. p.commits[w] = At(w).commits[w]
        BY <4>1, <1>5 DEF Inv, VersionsOK
      <4> QED
        BY <3>2, <4>1, <4>2, <4>3, <1>3 DEF At
    <3>3. CASE v = n /\ w = n
      BY <3>3
    <3> QED
      BY <3>1, <3>2, <3>3, <1>2, <1>3
  <2>3. ASSUME NEW v \in Versions'
        PROVE  Kept(At(v)', Current')
    <3>1. CASE v \in Versions
      <4>1. Kept(At(v), p)
        BY <3>1, <1>3 DEF Inv, VersionsOK
      <4>2. Kept(p, t)
        BY <1>4 DEF CommitOK, Changes, Kept
      <4>3. Kept(At(v), t)
        BY <4>1, <4>2 DEF Kept
      <4> QED
        BY <3>1, <4>3, <1>3 DEF At
    <3>2. CASE v = n
      BY <3>2, <1>3 DEF Kept, At
    <3> QED
      BY <3>1, <3>2, <1>2, <1>3
  <2> QED
    BY <2>1, <2>2, <2>3 DEF VersionsOK
<1>8. CommitsOK'
  <2>1. ASSUME NEW v \in Versions' \ {0}
        PROVE  /\ history'[v + 1].commits[v].key \in Calls
               /\ pc'[history'[v + 1].commits[v].key] = "committed"
               /\ CommitOK(history'[v - 1 + 1], history'[v + 1], history'[v + 1].commits[v].key,
                           history'[base'[history'[v + 1].commits[v].key] + 1],
                           base'[history'[v + 1].commits[v].key], request')
    <3>1. CASE v \in Versions
      <4> DEFINE d == At(v).commits[v].key
      <4>1. /\ d \in Calls /\ pc[d] = "committed"
            /\ CommitOK(At(v - 1), At(v), d, At(base[d]), base[d], request)
        BY <2>1, <3>1 DEF Inv, CommitsOK
      <4>2. d # c /\ base[d] \in Versions
        BY <1>1, <4>1 DEF Inv, ShapeOK
      <4>3. v - 1 \in Versions
        BY <2>1, <3>1, <1>2, <1>3
      <4>4. /\ history'[v + 1] = At(v) /\ history'[v - 1 + 1] = At(v - 1)
            /\ history'[base'[d] + 1] = At(base[d]) /\ base'[d] = base[d]
        BY <3>1, <4>2, <4>3, <1>1, <1>3
      <4> HIDE DEF d
      <4>5. history'[v + 1].commits[v].key = d
        BY <4>4 DEF d
      <4> QED
        BY <4>1, <4>2, <4>4, <4>5, <1>1
    <3>2. CASE v = n
      <4>1. base[c] \in Versions
        BY DEF Inv, ShapeOK
      <4>2. /\ history'[v + 1] = t /\ history'[v - 1 + 1] = p
            /\ history'[base'[c] + 1] = At(base[c]) /\ base'[c] = base[c]
        BY <3>2, <4>1, <1>1, <1>3, <1>5
      <4>3. t.commits[v].key = c
        BY <3>2, <1>1, <1>4 DEF CommitOK, t
      <4> QED
        BY <4>2, <4>3, <1>1, <1>4
    <3> QED
      BY <2>1, <3>1, <3>2, <1>2, <1>3
  <2> QED
    BY <2>1 DEF CommitsOK, At
<1>9. ASSUME NEW d \in Calls
      PROVE  CandidateOK(d)'
  <2>1. CASE d = c
    BY <2>1, <1>1 DEF CandidateOK
  <2>2. CASE d # c
    <3>1. /\ pc'[d] = pc[d] /\ cand'[d] = cand[d] /\ base'[d] = base[d]
          /\ applied'[d] = applied[d] /\ request'[d] = request[d]
          /\ base[d] \in Versions /\ At(base[d])' = At(base[d])
      BY <2>2, <1>1, <1>3 DEF Inv, ShapeOK, At
    <3>2. CandidateOK(d) /\ Versions \subseteq Versions'
      BY <1>2, <1>3 DEF Inv
    <3>3. ASSUME pc[d] = "build"
          PROVE  Unfinished(d)'
      <4>1. Unfinished(d)
        BY <3>2, <3>3 DEF CandidateOK
      <4>2. At(cand[d].version)' = At(cand[d].version)
        BY <4>1, <3>1, <1>3 DEF Unfinished, At
      <4> QED
        BY <4>1, <4>2, <3>1, <3>2 DEF Unfinished
    <3>4. ASSUME pc[d] = "built"
          PROVE  Finished(d)'
      <4>1. Finished(d)
        BY <3>2, <3>4 DEF CandidateOK
      <4>2. At(cand[d].version - 1)' = At(cand[d].version - 1)
        BY <4>1, <3>1, <1>3 DEF Finished, At
      <4> QED
        BY <4>1, <4>2, <3>1, <3>2, <1>1 DEF Finished
    <3> QED
      BY <3>1, <3>3, <3>4 DEF CandidateOK
  <2> QED
    BY <2>1, <2>2
<1> QED
  BY <1>6, <1>7, <1>8, <1>9 DEF Inv

LEMMA NextInv == Inv /\ [Next]_vars => Inv'
<1> SUFFICES ASSUME Inv, [Next]_vars PROVE Inv'
  OBVIOUS
<1>1. ASSUME NEW c \in Calls, Step(c)
      PROVE  Inv'
  BY <1>1, PrepareInv, BeginInv, GivingUpInv, ApplyNextInv, FinishInv, PublishInv DEF Step
<1>2. CASE UNCHANGED vars
  BY <1>2 DEF vars, Inv, ShapeOK, VersionsOK, CommitsOK, CandidateOK, Unfinished, Finished,
              Versions, At, Current
<1> QED
  BY <1>1, <1>2 DEF Next

LEMMA AlwaysInv == Spec => []Inv
  BY InitInv, NextInv, PTL DEF Spec

-----------------------------------------------------------------------------
(* Induction over natural numbers, by a least counterexample.              *)

Less == {pair \in Nat \X Nat : pair[1] < pair[2]}

(* A set of natural numbers has a least element.                           *)
LEMMA LeastNumber ==
    ASSUME NEW T \in SUBSET Nat, T # {}
    PROVE  \E n \in T : \A m \in T : n <= m
<1>1. OpToRel(<, Nat) = Less
  BY Zenon DEF OpToRel, Less
<1>2. IsWellFoundedOn(Less, Nat)
  BY <1>1, NatLessThanWellFounded, Zenon
<1>3. PICK n \in T : \A m \in T : ~(<<m, n>> \in Less)
  BY <1>2, WFMin
<1>4. \A m, k \in Nat : m < k => <<m, k>> \in Less
  BY DEF Less
<1>5. ASSUME NEW m \in T PROVE n <= m
  <2>1. ~(m < n)
    BY <1>3, <1>4, Zenon
  <2> QED
    BY <2>1
<1> QED
  BY <1>5

(* What holds of 0 and of each number up to n that follows one it holds of *)
(* holds of all of them.                                                   *)
LEMMA UpTo ==
    ASSUME NEW n \in Nat, NEW S, 0 \in S, \A i \in 1..n : i - 1 \in S => i \in S
    PROVE  0..n \subseteq S
<1> DEFINE T == 0..n \ S
<1> SUFFICES ASSUME T # {} PROVE FALSE
  OBVIOUS
<1>1. T \in SUBSET Nat
  OBVIOUS
<1>2. PICK m \in T : \A k \in T : m <= k
  BY <1>1, LeastNumber
<1>3. m \in 1..n /\ m - 1 \in 0..n /\ m - 1 \notin T
  BY <1>2
<1> QED
  BY <1>2, <1>3

-----------------------------------------------------------------------------
(* What follows                                                            *)

LEMMA CommitOf ==
    ASSUME Inv, NEW v \in 1..Current.version
    PROVE  LET c == Current.commits[v].key
           IN  /\ v \in Versions /\ v - 1 \in Versions /\ v \in Nat \ {0}
               /\ At(v).commits[v] = Current.commits[v]
               /\ c \in Calls
               /\ CommitOK(At(v - 1), At(v), c, At(base[c]), base[c], request)
<1>1. /\ Len(history) - 1 \in Versions /\ Current = At(Len(history) - 1)
      /\ Len(history) \in Nat
  BY LastVersion DEF Inv, ShapeOK
<1>2. Current.version = Len(history) - 1
  BY <1>1 DEF Inv, VersionsOK
<1>3. v \in Versions \ {0} /\ v - 1 \in Versions /\ v \in Nat \ {0}
  BY <1>1, <1>2 DEF Versions
<1>4. Current.commits[v] = At(v).commits[v]
  BY <1>1, <1>2 DEF Inv, VersionsOK
<1> QED
  BY <1>3, <1>4 DEF Inv, CommitsOK

(* FieldIdsIntroducedOnce, for any calls and requests: prepare_operations  *)
(* and apply_operations never let two schemas introduce a field id, however*)
(* transactions that add schemas race.                                     *)
THEOREM FieldIdsIntroduced == Spec => []FieldIdsIntroducedOnce
<1>1. Inv => FieldIdsIntroducedOnce
  <2> SUFFICES ASSUME Inv PROVE FieldIdsIntroducedOnce
    OBVIOUS
  <2>1. SchemaSound(Current)
    BY LastVersion DEF Inv, VersionsOK, TableOK
  <2> QED
    BY <2>1 DEF SchemaSound, FieldIdsIntroducedOnce
<1> QED
  BY <1>1, AlwaysInv, PTL

(* ChangesRecorded, for any calls and requests: what differs between two   *)
(* versions is in the operations recorded with the later one.              *)
THEOREM AllChangesRecorded == Spec => []ChangesRecorded
<1>1. Inv => ChangesRecorded
  <2> SUFFICES ASSUME Inv, NEW v \in 1..Current.version
               PROVE  LET old == At(v - 1)
                          new == At(v)
                          ops == Elements(new.commits[v].operations)
                      IN  /\ \A r \in DOMAIN old.refs \cup DOMAIN new.refs :
                                 \/ /\ r \in DOMAIN old.refs \cap DOMAIN new.refs
                                    /\ old.refs[r] = new.refs[r]
                                 \/ \E op \in ops :
                                        \/ Touches(op, r)
                                        \/ op.type = "commit_snapshot" /\ op.target = r
                          /\ \A r \in DOMAIN old.refs \cap DOMAIN new.refs :
                                 old.refs[r].type = "tag" => old.refs[r] = new.refs[r]
                          /\ old.currentSchema # new.currentSchema =>
                                 \E op \in ops : op.type = "set_current_schema"
                          /\ \A s \in DOMAIN old.snapshots :
                                 s \in DOMAIN new.snapshots /\ new.snapshots[s] = old.snapshots[s]
    BY DEF ChangesRecorded
  <2> DEFINE c == Current.commits[v].key
             ops == Elements(At(v).commits[v].operations)
  <2>1. CommitOK(At(v - 1), At(v), c, At(base[c]), base[c], request) /\ At(v).version = v
    BY CommitOf DEF Inv, VersionsOK
  <2>2. Changes(At(v - 1), At(v), ops)
    BY <2>1 DEF CommitOK
  <2> HIDE DEF ops
  <2> QED
    BY <2>2 DEF Changes, ops
<1> QED
  BY <1>1, AlwaysInv, PTL

(* Only replacing and dropping a ref ask for its snapshot.                 *)
LEMMA AsksForSnapshot ==
    ASSUME NEW t, NEW op, op.type \in MetadataOperations, NEW q \in Required(t, op),
           q.type = "ref_snapshot_is"
    PROVE  op.type \in {"replace_ref", "drop_ref"} /\ op.ref \in DOMAIN t.refs /\ q.ref = op.ref
<1>1. CASE op.type = "set_properties"
  BY <1>1 DEF Required
<1>2. CASE op.type = "create_ref"
  BY <1>2 DEF Required, SnapshotRequirement
<1>3. CASE op.type = "replace_ref"
  <2>1. op.ref \in DOMAIN t.refs
    BY <1>3 DEF Required
  <2>2. q \in {[type |-> "ref_exists", ref |-> op.ref, refType |-> "branch"],
               [type |-> "ref_snapshot_is", ref |-> op.ref, snapshot |-> t.refs[op.ref].snapshot]}
              \cup SnapshotRequirement(op.snapshot)
    BY <1>3, <2>1 DEF Required
  <2> QED
    BY <1>3, <2>1, <2>2 DEF SnapshotRequirement
<1>4. CASE op.type = "drop_ref"
  <2>1. op.ref \in DOMAIN t.refs
    BY <1>4 DEF Required
  <2> QED
    BY <1>4, <2>1 DEF Required
<1>5. CASE op.type = "add_schema"
  BY <1>5 DEF Required, SchemaRequirement
<1>6. CASE op.type = "set_current_schema"
  BY <1>6 DEF Required, SchemaRequirement
<1> QED
  BY <1>1, <1>2, <1>3, <1>4, <1>5, <1>6 DEF MetadataOperations

(* What an accepted transaction replaces is what it saw.                   *)
LEMMA AcceptedIsSeen ==
    ASSUME NEW p, NEW seen, NEW ops, OperationsAccepted(p, PreparedFrom(seen, ops), ops),
           \A o \in Elements(ops) : o.type \in MetadataOperations, NEW op \in Elements(ops)
    PROVE  /\ op.type = "set_properties" => \A k \in DOMAIN op.updates :
                  PropertyValue(p, k) = PropertyValue(seen, k)
           /\ op.type \in {"replace_ref", "drop_ref"} =>
                  /\ op.ref \in DOMAIN seen.refs
                  /\ p.refs[op.ref].snapshot = seen.refs[op.ref].snapshot
                  /\ p.refs[op.ref].type =
                        IF op.type = "drop_ref" THEN seen.refs[op.ref].type ELSE "branch"
           /\ op.type \in {"add_schema", "set_current_schema"} =>
                  p.currentSchema = seen.currentSchema
<1>1. \A q \in Required(seen, op) : Evaluate(p, q)
  BY DEF OperationsAccepted, PreparedFrom
<1>2. ASSUME op.type = "set_properties", NEW k \in DOMAIN op.updates
      PROVE  PropertyValue(p, k) = PropertyValue(seen, k)
  <2>1. [type |-> "property_is", key |-> k, value |-> PropertyValue(seen, k)] \in Required(seen, op)
    BY <1>2 DEF Required
  <2> QED
    BY <2>1, <1>1 DEF Evaluate
<1>3. ASSUME op.type \in {"replace_ref", "drop_ref"}
      PROVE  /\ op.ref \in DOMAIN seen.refs
             /\ p.refs[op.ref].snapshot = seen.refs[op.ref].snapshot
             /\ p.refs[op.ref].type =
                   IF op.type = "drop_ref" THEN seen.refs[op.ref].type ELSE "branch"
  <2> DEFINE q == [type |-> "ref_snapshot_is", ref |-> op.ref, snapshot |-> p.refs[op.ref].snapshot]
             mine == [type |-> "ref_snapshot_is", ref |-> op.ref,
                      snapshot |-> seen.refs[op.ref].snapshot]
             kind == [type |-> "ref_exists", ref |-> op.ref,
                      refType |-> IF op.type = "drop_ref" THEN seen.refs[op.ref].type ELSE "branch"]
  <2>1. op.ref \in DOMAIN p.refs /\ Required(p, op) \subseteq PreparedFrom(seen, ops)
    BY <1>3 DEF OperationsAccepted, Permitted
  <2>2. q \in Required(p, op)
    <3>1. CASE op.type = "replace_ref"
      BY <3>1, <2>1 DEF Required
    <3>2. CASE op.type = "drop_ref"
      BY <3>2, <2>1 DEF Required
    <3> QED
      BY <1>3, <3>1, <3>2
  <2>3. PICK other \in Elements(ops) : q \in Required(seen, other)
    BY <2>1, <2>2 DEF PreparedFrom
  <2>4. q.type = "ref_snapshot_is" /\ q.ref = op.ref
    OBVIOUS
  <2> HIDE DEF q
  <2>5. other.ref \in DOMAIN seen.refs /\ q.ref = other.ref
    BY <2>3, <2>4, AsksForSnapshot
  <2>6. op.ref \in DOMAIN seen.refs
    BY <2>4, <2>5
  <2>7. mine \in Required(seen, op) /\ kind \in Required(seen, op)
    <3>1. CASE op.type = "replace_ref"
      BY <3>1, <2>6 DEF Required
    <3>2. CASE op.type = "drop_ref"
      BY <3>2, <2>6 DEF Required
    <3> QED
      BY <1>3, <3>1, <3>2
  <2>8. Evaluate(p, mine) /\ Evaluate(p, kind)
    BY <2>7, <1>1
  <2>9. p.refs[op.ref].snapshot = seen.refs[op.ref].snapshot
    BY <2>8 DEF Evaluate
  <2>10. p.refs[op.ref].type = IF op.type = "drop_ref" THEN seen.refs[op.ref].type ELSE "branch"
    BY <2>8 DEF Evaluate, RefIs
  <2> QED
    BY <2>6, <2>9, <2>10
<1>4. ASSUME op.type \in {"add_schema", "set_current_schema"}
      PROVE  p.currentSchema = seen.currentSchema
  <2>1. SchemaRequirement(seen) \in Required(seen, op)
    BY <1>4 DEF Required
  <2>2. Evaluate(p, SchemaRequirement(seen))
    BY <2>1, <1>1
  <2> QED
    BY <2>2 DEF Evaluate, SchemaRequirement
<1> QED
  BY <1>2, <1>3, <1>4

(* NoStaleWrite, for any calls and requests: a transaction rebuilt on a    *)
(* winner overwrites nothing it has not seen, because its requirements are *)
(* those of its base and prepare_operations checks them all again.         *)
THEOREM NothingStaleWritten == Spec => []NoStaleWrite
<1>1. Inv => NoStaleWrite
  <2> SUFFICES ASSUME Inv, NEW v \in 1..Current.version,
                      NEW op \in Elements(Current.commits[v].operations)
               PROVE  LET c == Current.commits[v].key
                          seen == At(base[c])
                          before == At(v - 1)
                      IN  /\ op.type = "set_properties" => \A k \in DOMAIN op.updates :
                                 PropertyValue(before, k) = PropertyValue(seen, k)
                          /\ op.type \in {"replace_ref", "drop_ref"} =>
                                 /\ op.ref \in DOMAIN seen.refs
                                 /\ before.refs[op.ref].snapshot = seen.refs[op.ref].snapshot
                                 /\ before.refs[op.ref].type =
                                       IF op.type = "drop_ref" THEN seen.refs[op.ref].type
                                       ELSE "branch"
                          /\ op.type \in {"add_schema", "set_current_schema"} =>
                                 before.currentSchema = seen.currentSchema
    BY DEF NoStaleWrite
  <2> DEFINE c == Current.commits[v].key
             r == request[c]
             p == At(v - 1)
             seen == At(base[c])
  <2>1. /\ c \in Calls /\ CommitOK(p, At(v), c, seen, base[c], request)
        /\ At(v).version = v /\ At(v).commits[v] = Current.commits[v]
    BY CommitOf DEF Inv, VersionsOK
  <2>2. op \in Elements(OperationsOf(p, r, c)) /\ Allowed(p, seen, base[c], r) /\ RequestOK(r)
    BY <2>1, RequestsOK DEF CommitOK, Inv, ShapeOK
  <2> HIDE DEF c, r, p, seen
  <2>3. CASE r.kind = "append"
    <3>1. op = AppendOf(p, r, c)
      BY <2>2, <2>3, OneOperation
    <3>2. op.type = "commit_snapshot"
      BY <3>1 DEF AppendOf
    <3> QED
      BY <3>2
  <2>4. CASE r.kind # "append"
    <3> DEFINE ops == r.operations
    <3>1. /\ OperationsAccepted(p, PreparedFrom(seen, ops), ops)
          /\ \A o \in Elements(ops) : o.type \in MetadataOperations
          /\ op \in Elements(ops)
      BY <2>2, <2>4 DEF Allowed, RequestOK, OperationsOf
    <3> HIDE DEF ops
    <3> QED
      BY <3>1, AcceptedIsSeen DEF c, p, seen
  <2> QED
    BY <2>3, <2>4
<1> QED
  BY <1>1, AlwaysInv, PTL

(* A commit that does not touch branch r leaves it or appends to it.       *)
LEMMA LineGoesOn ==
    ASSUME Inv, NEW u, NEW r, u + 1 \in 1..Current.version, u \in Nat,
           RefIs(At(u), r, "branch"),
           \A op \in Elements(At(u + 1).commits[u + 1].operations) : ~Touches(op, r)
    PROVE  /\ RefIs(At(u + 1), r, "branch")
           /\ At(u + 1).refs[r].created = At(u).refs[r].created
           /\ \/ At(u + 1).refs[r].snapshot = At(u).refs[r].snapshot
              \/ Current.snapshots[At(u + 1).refs[r].snapshot].parent = At(u).refs[r].snapshot
           /\ (\A op \in Elements(At(u + 1).commits[u + 1].operations) :
                  op.type # "set_current_schema") => At(u + 1).currentSchema = At(u).currentSchema
<1> DEFINE w == u + 1
           c == Current.commits[w].key
           ops == Elements(At(w).commits[w].operations)
<1>1. /\ w \in Versions /\ w - 1 = u
      /\ CommitOK(At(w - 1), At(w), c, At(base[c]), base[c], request)
  BY CommitOf
<1>2. At(w).version = w /\ Kept(At(w), Current)
  BY <1>1 DEF Inv, VersionsOK
<1>3. Changes(At(u), At(w), ops)
  BY <1>1, <1>2 DEF CommitOK
<1> HIDE DEF w, ops
<1>4. \A op \in ops : ~Touches(op, r)
  BY DEF ops, w
<1>5. \/ r \in DOMAIN At(w).refs /\ At(u).refs[r] = At(w).refs[r]
      \/ Advanced(At(u), At(w), r)
  BY <1>3, <1>4 DEF Changes, RefIs
<1>6. (\A op \in ops : op.type # "set_current_schema") => At(w).currentSchema = At(u).currentSchema
  BY <1>3 DEF Changes
<1>7. CASE r \in DOMAIN At(w).refs /\ At(u).refs[r] = At(w).refs[r]
  BY <1>6, <1>7 DEF RefIs, w, ops
<1>8. CASE Advanced(At(u), At(w), r)
  <2>1. At(w).refs[r].snapshot \in DOMAIN At(w).snapshots
    BY <1>8 DEF Advanced
  <2>2. Current.snapshots[At(w).refs[r].snapshot] = At(w).snapshots[At(w).refs[r].snapshot]
    BY <1>2, <2>1 DEF Kept
  <2> QED
    BY <1>6, <1>8, <2>2 DEF Advanced, RefIs, w, ops
<1> QED
  BY <1>5, <1>7, <1>8

(* AppendsStayOnTheirLine, for any calls and requests: the walk over the   *)
(* commits since the base in validate_append_rebase is enough to place an  *)
(* append on the line it was prepared for, with the schema it has.         *)
THEOREM AppendsOnLine == Spec => []AppendsStayOnTheirLine
<1>1. Inv => AppendsStayOnTheirLine
  <2> SUFFICES ASSUME Inv, NEW s \in DOMAIN Current.snapshots,
                      NEW u \in base[Current.snapshots[s].added]..(s - 1)
               PROVE  LET c == Current.snapshots[s].added
                          r == request[c].ref
                      IN  /\ RefIs(At(u), r, "branch") /\ RefIs(At(u + 1), r, "branch")
                          /\ At(u).refs[r].created = At(base[c]).refs[r].created
                          /\ At(u).currentSchema = Current.files[c].schema
                          /\ \/ At(u + 1).refs[r].snapshot = At(u).refs[r].snapshot
                             \/ /\ Current.snapshots[At(u + 1).refs[r].snapshot].parent
                                      = At(u).refs[r].snapshot
                                /\ ~\E i \in 1..Len(At(u + 1).commits[u + 1].operations) :
                                       Touches(At(u + 1).commits[u + 1].operations[i], r)
    BY DEF AppendsStayOnTheirLine
  <2> DEFINE c == Current.snapshots[s].added
             r == request[c].ref
             b == base[c]
             p == At(s - 1)
             n == s - 1 - b
             OpsAt(w) == Elements(At(w).commits[w].operations)
  <2>1. /\ TableOK(Current, request) /\ Current.version \in Nat
    BY LastVersion DEF Inv, VersionsOK, TableOK
  <2>2. /\ c \in Calls /\ request[c].kind = "append" /\ c = Current.commits[s].key
        /\ Current.files[c].schema = request[c].schema /\ s \in 1..Current.version
    BY <2>1 DEF TableOK, SnapshotOK
  <2>3. /\ s \in Versions /\ s - 1 \in Versions /\ At(s).commits[s] = Current.commits[s]
        /\ CommitOK(p, At(s), c, At(b), b, request)
    BY <2>2, CommitOf
  <2>4. b \in Nat /\ b \in Versions
    BY <2>2, LastVersion DEF Inv, ShapeOK
  <2> HIDE DEF c, b
  <2>5. p.version = s - 1 /\ At(s).version = s
    BY <2>3 DEF Inv, VersionsOK
  <2>6. /\ RefIs(At(b), r, "branch") /\ p.currentSchema = request[c].schema
        /\ ~RefTouchedSince(p, r, b) /\ ~SchemaSelectedSince(p, b) /\ b <= s - 1
    BY <2>2, <2>3, <2>5 DEF CommitOK, Allowed
  <2>n. n \in Nat
    BY <2>2, <2>4, <2>6
  <2>7. ASSUME NEW w \in (b + 1)..(s - 1)
        PROVE  \A op \in OpsAt(w) : ~Touches(op, r) /\ op.type # "set_current_schema"
    <3>1. w \in 1..(s - 1)
      BY <2>4
    <3>2. p.commits[w] = At(w).commits[w]
      BY <3>1, <2>3 DEF Inv, VersionsOK
    <3>3. OpsAt(w) \subseteq OperationsSince(p, b)
      BY <3>2, <2>5 DEF OperationsSince
    <3> QED
      BY <3>3, <2>6 DEF RefTouchedSince, SchemaSelectedSince
  <2>8. \A op \in OpsAt(s) : ~Touches(op, r)
    <3>1. OpsAt(s) = Elements(OperationsOf(p, request[c], c))
      BY <2>3, <2>5 DEF CommitOK
    <3>2. OpsAt(s) = {AppendOf(p, request[c], c)}
      BY <2>2, <3>1, OneOperation
    <3>3. AppendOf(p, request[c], c).type = "commit_snapshot"
      BY DEF AppendOf
    <3> QED
      BY <3>2, <3>3 DEF Touches, RefOperations
  <2> DEFINE OnLine == {i \in 0..n : /\ RefIs(At(b + i), r, "branch")
                                     /\ At(b + i).refs[r].created = At(b).refs[r].created
                                     /\ At(b + i).currentSchema = At(b).currentSchema}
  <2>9. 0..n \subseteq OnLine
    <3>1. 0 \in OnLine
      BY <2>4, <2>6, <2>n
    <3>2. ASSUME NEW i \in 1..n, i - 1 \in OnLine
          PROVE  i \in OnLine
      <4> DEFINE x == b + (i - 1)
      <4>1. /\ x \in Nat /\ x + 1 = b + i /\ x + 1 \in (b + 1)..(s - 1)
            /\ x + 1 \in 1..Current.version
        BY <2>1, <2>2, <2>4, <2>n
      <4>2. /\ RefIs(At(x), r, "branch")
            /\ At(x).refs[r].created = At(b).refs[r].created
            /\ At(x).currentSchema = At(b).currentSchema
        BY <3>2
      <4>3. \A op \in OpsAt(x + 1) : ~Touches(op, r) /\ op.type # "set_current_schema"
        BY <4>1, <2>7
      <4> HIDE DEF x
      <4>4. /\ RefIs(At(x + 1), r, "branch")
            /\ At(x + 1).refs[r].created = At(x).refs[r].created
            /\ At(x + 1).currentSchema = At(x).currentSchema
        BY <4>1, <4>2, <4>3, LineGoesOn
      <4> QED
        BY <4>1, <4>2, <4>4
    <3> HIDE DEF OnLine
    <3> QED
      BY <3>1, <3>2, <2>n, UpTo
  <2>10. /\ u \in Nat /\ u \in b..(s - 1) /\ u + 1 \in 1..Current.version
         /\ u - b \in 0..n /\ b + (u - b) = u /\ n \in 0..n /\ b + n = s - 1
    <3>1. u \in b..(s - 1)
      BY DEF b, c
    <3> QED
      BY <3>1, <2>1, <2>2, <2>4, <2>n
  <2>11. /\ RefIs(At(u), r, "branch")
         /\ At(u).refs[r].created = At(b).refs[r].created
         /\ At(u).currentSchema = At(b).currentSchema
    <3>1. u - b \in OnLine
      BY <2>9, <2>10
    <3>2. /\ RefIs(At(b + (u - b)), r, "branch")
          /\ At(b + (u - b)).refs[r].created = At(b).refs[r].created
          /\ At(b + (u - b)).currentSchema = At(b).currentSchema
      BY <3>1
    <3> QED
      BY <2>10, <3>2
  <2>12. At(b).currentSchema = request[c].schema
    <3>1. n \in OnLine
      BY <2>9, <2>10
    <3>2. At(b + n).currentSchema = At(b).currentSchema
      BY <3>1
    <3> QED
      BY <2>6, <2>10, <3>2
  <2>13. \A op \in OpsAt(u + 1) : ~Touches(op, r)
    <3>1. CASE u + 1 = s
      BY <3>1, <2>8
    <3>2. CASE u + 1 # s
      <4>1. u + 1 \in (b + 1)..(s - 1)
        BY <3>2, <2>2, <2>4, <2>10
      <4> QED
        BY <4>1, <2>7
    <3> QED
      BY <3>1, <3>2
  <2>14. /\ RefIs(At(u + 1), r, "branch")
         /\ \/ At(u + 1).refs[r].snapshot = At(u).refs[r].snapshot
            \/ Current.snapshots[At(u + 1).refs[r].snapshot].parent = At(u).refs[r].snapshot
    BY <2>10, <2>11, <2>13, LineGoesOn
  <2>15. ~\E i \in 1..Len(At(u + 1).commits[u + 1].operations) :
                Touches(At(u + 1).commits[u + 1].operations[i], r)
    BY <2>13 DEF Elements
  <2> QED
    BY <2>2, <2>11, <2>12, <2>14, <2>15 DEF c, b
<1> QED
  BY <1>1, AlwaysInv, PTL

-----------------------------------------------------------------------------
(* What finish_candidate checks, made inductive: an image t whose rows may *)
(* be as young as version v.                                               *)

SnapshotsOK(t) ==
    /\ t.lastSequence \in Nat /\ IsFiniteSet(DOMAIN t.snapshots) /\ DOMAIN t.snapshots \subseteq Nat \ {0}
    /\ SequencesDense(t)
    /\ \A s \in DOMAIN t.snapshots :
        /\ t.snapshots[s].version = s
        /\ t.snapshots[s].sequence \in 1..t.lastSequence
        /\ t.snapshots[s].parent # NoSnapshot =>
              /\ t.snapshots[s].parent \in DOMAIN t.snapshots
              /\ t.snapshots[s].parent < s
              /\ t.snapshots[t.snapshots[s].parent].sequence < t.snapshots[s].sequence
    /\ \A a, b \in DOMAIN t.snapshots : t.snapshots[a].sequence = t.snapshots[b].sequence => a = b

(* A file was added by the snapshot it names and no other.                 *)
FilesOK(t) ==
    /\ \A f \in DOMAIN t.files :
        /\ t.files[f].snapshot \in DOMAIN t.snapshots
        /\ t.files[f].version = t.files[f].snapshot
        /\ t.snapshots[t.files[f].snapshot].added = f
    /\ \A s \in DOMAIN t.snapshots : t.snapshots[s].added \in DOMAIN t.files

RefsOK(t, v) ==
    /\ \A r \in DOMAIN t.refs :
        /\ t.refs[r].created \in Nat /\ t.refs[r].updated \in Nat
        /\ t.refs[r].created <= t.refs[r].updated /\ t.refs[r].updated <= v
        /\ t.refs[r].type = "tag" => t.refs[r].snapshot # NoSnapshot
        /\ t.refs[r].snapshot # NoSnapshot => t.refs[r].snapshot \in DOMAIN t.snapshots
    /\ RefIs(t, "main", "branch") /\ t.refs["main"].created = 0

(* A schema reads back as it was inserted.                                 *)
SchemasOK(t) ==
    /\ t.currentSchema \in DOMAIN t.schemas
    /\ \A id \in DOMAIN t.schemas :
        /\ ReadSchema(t, id) \in Schema /\ SchemaValid(ReadSchema(t, id))
        /\ RowsOfSchema(t, id) = FieldRows(ReadSchema(t, id))

ImageOK(t, v) ==
    /\ SnapshotsOK(t) /\ FilesOK(t) /\ RefsOK(t, v) /\ MembershipExact(t)
    /\ SchemasOK(t) /\ DescriptorsValid(t)

(* An image with its commit.                                               *)
Sound(t) ==
    /\ ImageOK(t, t.version) /\ CommitsPaired(t)
    /\ t.version \in DOMAIN t.snapshots => t.snapshots[t.version].sequence = t.lastSequence

FilesKept(old, new) == \A f \in DOMAIN old.files : f \in DOMAIN new.files /\ new.files[f] = old.files[f]

(* Image t is what replaying the commit on p gives, and says so.           *)
Follows(p, t, commit) ==
    /\ CommitProjected(t, commit)
    /\ ReplayCommit(p, commit) = t
    /\ FilesKept(p, t)
    /\ DOMAIN t.snapshots \subseteq DOMAIN p.snapshots \cup {t.version}

(* The commit of call c, which asks for r and prepared from image seen.    *)
CommitMade(p, seen, r, c) ==
    [version |-> p.version + 1,
     key |-> c,
     requirements |-> IF r.kind = "append" THEN {[type |-> "current_schema_is", schema |-> r.schema]}
                      ELSE PreparedFrom(seen, r.operations),
     operations |-> OperationsOf(p, r, c),
     results |-> Results(p, OperationsOf(p, r, c))]

(* Image t is what the first n operations make of p.                       *)
Stepwise(g, p, t, n, ops) ==
    /\ DOMAIN g = 0..n /\ g[0] = p /\ g[n] = t
    /\ \A i \in 1..n : /\ g[i - 1] # NotReplayed /\ Applicable(g[i - 1], ops[i])
                       /\ g[i] = Apply(g[i - 1], ops[i])

(* The first n operations of a transaction have been applied and show.     *)
Partly(p, t, n, ops) ==
    /\ ImageOK(t, p.version + 1) /\ t.lastSequence = p.lastSequence
    /\ \E g : Stepwise(g, p, t, n, ops)
    /\ \A op \in Done(ops, n) : OperationProjected(t, p.version + 1, op)

Rebuilt(c) ==
    LET p == At(cand[c].version - 1)
    IN  Sound(cand[c]) /\ Follows(p, cand[c], CommitMade(p, At(base[c]), request[c], c))

CommitsShaped == IsSequence(semantic) /\ Len(semantic) = Len(history) - 1

HistorySound ==
    /\ At(0) = Genesis
    /\ \A v \in Versions : Sound(At(v))
    /\ \A v \in Versions \ {0} : Follows(At(v - 1), At(v), semantic[v])
    /\ \A v \in Versions : FilesKept(At(v), Current)
    /\ \A v \in Versions : \A s \in DOMAIN Current.snapshots : s <= v => s \in DOMAIN At(v).snapshots

CandidateSound(c) ==
    /\ (pc[c] = "build" /\ ~IsAppend(c)) =>
           Partly(At(cand[c].version), cand[c], applied[c], request[c].operations)
    /\ pc[c] = "built" => Rebuilt(c)

Checked == CommitsShaped /\ HistorySound /\ \A c \in Calls : CandidateSound(c)

-----------------------------------------------------------------------------
(* Ancestry                                                                *)

(* What the recursion of ancestry says of a function from snapshots to     *)
(* sets of them.                                                           *)
LineFrom(line, snapshots) ==
    line = [s \in {NoSnapshot} \cup DOMAIN snapshots |->
               IF s = NoSnapshot THEN {} ELSE {s} \cup line[snapshots[s].parent]]

Line(snapshots) == CHOOSE line : LineFrom(line, snapshots)

LEMMA AncestryIsLine ==
    ASSUME NEW t, NEW tip
    PROVE  Ancestry(t, tip) = Line(t.snapshots)[tip]
  BY DEF Ancestry, Line, LineFrom

(* Parents are snapshots that are older.                                   *)
ParentsKnown(snapshots) ==
    /\ DOMAIN snapshots \subseteq Nat \ {0}
    /\ \A s \in DOMAIN snapshots :
           \/ snapshots[s].parent = NoSnapshot
           \/ snapshots[s].parent \in DOMAIN snapshots /\ snapshots[s].parent < s

(* The recursion has a solution: the least sets closed under parents.      *)
LEMMA LineExists ==
    ASSUME NEW snapshots, ParentsKnown(snapshots)
    PROVE  LineFrom(Line(snapshots), snapshots)
<1> DEFINE D == DOMAIN snapshots
           up(s) == snapshots[s].parent
           Closed(T) == \A x \in T : up(x) # NoSnapshot => up(x) \in T
           Reach(s) == {a \in D : \A T \in SUBSET D : s \in T /\ Closed(T) => a \in T}
           line == [s \in {NoSnapshot} \cup D |-> IF s = NoSnapshot THEN {} ELSE Reach(s)]
<1>1. /\ NoSnapshot \notin D
      /\ \A s \in D : up(s) = NoSnapshot \/ up(s) \in D
  BY DEF ParentsKnown, NoSnapshot
<1> HIDE DEF D, up
<1>2. ASSUME NEW s \in D
      PROVE  Reach(s) \in SUBSET D /\ s \in Reach(s) /\ Closed(Reach(s))
  BY <1>1
<1>3. ASSUME NEW s \in D, up(s) = NoSnapshot
      PROVE  Reach(s) = {s}
  <2>1. Closed({s}) /\ {s} \in SUBSET D
    BY <1>3
  <2> QED
    BY <2>1, <1>2
<1>4. ASSUME NEW s \in D, up(s) \in D
      PROVE  Reach(s) = {s} \cup Reach(up(s))
  <2> DEFINE T == {s} \cup Reach(up(s))
  <2>1. Closed(T) /\ T \in SUBSET D
    BY <1>2, <1>4
  <2>2. Reach(s) \subseteq T
    BY <2>1
  <2>3. up(s) \in Reach(s)
    BY <1>1, <1>2, <1>4
  <2>4. Reach(up(s)) \subseteq Reach(s)
    BY <1>2, <2>3
  <2> QED
    BY <1>2, <2>2, <2>4
<1> HIDE DEF Reach
<1>5. ASSUME NEW s \in {NoSnapshot} \cup D
      PROVE  line[s] = IF s = NoSnapshot THEN {} ELSE {s} \cup line[up(s)]
  BY <1>1, <1>3, <1>4
<1>6. LineFrom(line, snapshots)
  <2>1. line = [s \in {NoSnapshot} \cup D |-> IF s = NoSnapshot THEN {} ELSE {s} \cup line[up(s)]]
    BY <1>5
  <2> QED
    BY <2>1 DEF LineFrom, D, up
<1> HIDE DEF line
<1> QED
  BY <1>6 DEF Line

LEMMA AncestryEquation ==
    ASSUME NEW t, ParentsKnown(t.snapshots)
    PROVE  /\ Ancestry(t, NoSnapshot) = {}
           /\ \A s \in DOMAIN t.snapshots :
                  Ancestry(t, s) = {s} \cup Ancestry(t, t.snapshots[s].parent)
<1> DEFINE line == Line(t.snapshots)
<1>1. LineFrom(line, t.snapshots)
  BY LineExists
<1>2. NoSnapshot \notin DOMAIN t.snapshots
  BY DEF ParentsKnown, NoSnapshot
<1>3. \A s : Ancestry(t, s) = line[s]
  BY AncestryIsLine
<1> HIDE DEF line
<1>4. \A s \in {NoSnapshot} \cup DOMAIN t.snapshots :
          line[s] = IF s = NoSnapshot THEN {} ELSE {s} \cup line[t.snapshots[s].parent]
  BY <1>1 DEF LineFrom
<1>5. line[NoSnapshot] = {}
  BY <1>4
<1>6. \A s \in DOMAIN t.snapshots : line[s] = {s} \cup line[t.snapshots[s].parent]
  BY <1>2, <1>4
<1> QED
  BY <1>3, <1>5, <1>6

(* What holds of no snapshot, and of each whose parent it holds of, holds  *)
(* of all.                                                                 *)
LEMMA AlongParents ==
    ASSUME NEW snapshots, ParentsKnown(snapshots), NEW S, NoSnapshot \in S,
           \A s \in DOMAIN snapshots : snapshots[s].parent \in S => s \in S
    PROVE  DOMAIN snapshots \subseteq S
<1> DEFINE T == DOMAIN snapshots \ S
<1> SUFFICES ASSUME T # {} PROVE FALSE
  OBVIOUS
<1>1. T \in SUBSET Nat
  BY DEF ParentsKnown
<1>2. PICK m \in T : \A k \in T : m <= k
  BY <1>1, LeastNumber
<1>3. snapshots[m].parent \in DOMAIN snapshots /\ snapshots[m].parent < m
  BY DEF ParentsKnown
<1>4. snapshots[m].parent \in T
  BY <1>3
<1>5. m \in Nat /\ snapshots[m].parent \in Nat
  BY <1>1, <1>4
<1> QED
  BY <1>2, <1>3, <1>4, <1>5

LEMMA AncestryWithin ==
    ASSUME NEW t, ParentsKnown(t.snapshots), NEW tip \in {NoSnapshot} \cup DOMAIN t.snapshots
    PROVE  Ancestry(t, tip) \subseteq DOMAIN t.snapshots
<1> DEFINE S == {s \in {NoSnapshot} \cup DOMAIN t.snapshots : Ancestry(t, s) \subseteq DOMAIN t.snapshots}
<1>1. NoSnapshot \in S
  BY AncestryEquation
<1>2. \A s \in DOMAIN t.snapshots : t.snapshots[s].parent \in S => s \in S
  BY AncestryEquation
<1> HIDE DEF S
<1>3. DOMAIN t.snapshots \subseteq S
  BY <1>1, <1>2, AlongParents
<1> QED
  BY <1>1, <1>3 DEF S

(* Snapshots that come later do not change the ancestry of earlier ones.   *)
LEMMA AncestryStays ==
    ASSUME NEW old, NEW new, ParentsKnown(old.snapshots), ParentsKnown(new.snapshots), Kept(old, new),
           NEW tip \in {NoSnapshot} \cup DOMAIN old.snapshots
    PROVE  Ancestry(new, tip) = Ancestry(old, tip)
<1> DEFINE S == {s \in {NoSnapshot} \cup DOMAIN old.snapshots : Ancestry(new, s) = Ancestry(old, s)}
<1>1. NoSnapshot \in S
  BY AncestryEquation
<1>2. ASSUME NEW s \in DOMAIN old.snapshots, old.snapshots[s].parent \in S
      PROVE  s \in S
  <2>1. s \in DOMAIN new.snapshots /\ new.snapshots[s] = old.snapshots[s]
    BY DEF Kept
  <2>2. /\ Ancestry(new, s) = {s} \cup Ancestry(new, new.snapshots[s].parent)
        /\ Ancestry(old, s) = {s} \cup Ancestry(old, old.snapshots[s].parent)
    BY <2>1, AncestryEquation
  <2> QED
    BY <1>2, <2>1, <2>2
<1> HIDE DEF S
<1>3. DOMAIN old.snapshots \subseteq S
  BY <1>1, <1>2, AlongParents
<1> QED
  BY <1>1, <1>3 DEF S

(* Only the snapshots of an image decide about ancestry.                   *)
LEMMA SameAncestry ==
    ASSUME NEW t, NEW u, t.snapshots = u.snapshots
    PROVE  /\ \A tip : Ancestry(t, tip) = Ancestry(u, tip)
           /\ \A r, tip : Membership(t, r, tip) = Membership(u, r, tip)
<1>1. \A tip : Ancestry(t, tip) = Ancestry(u, tip)
  BY AncestryIsLine
<1> QED
  BY <1>1 DEF Membership

-----------------------------------------------------------------------------
(* Schemas and metrics as rows                                             *)

LEMMA Numbered ==
    ASSUME NEW n \in Nat, NEW T, NEW f \in [1..n -> T],
           \A x \in T : \E i \in 1..n : f[i] = x,
           \A i, j \in 1..n : f[i] = f[j] => i = j
    PROVE  IsFiniteSet(T) /\ Cardinality(T) = n
<1>1. f \in Bijection(1..n, T)
  BY DEF Bijection, Injection, Surjection, IsInjective
<1>2. ExistsBijection(1..n, T)
  BY <1>1 DEF ExistsBijection
<1> QED
  BY <1>2, FS_CountingElements, FS_NatBijection

LEMMA SchemaShape ==
    ASSUME NEW schema \in Schema, SchemaValid(schema)
    PROVE  /\ Len(schema.fields) \in Nat
           /\ \A i, j \in 1..Len(schema.fields) : schema.fields[i] = schema.fields[j] => i = j
  BY DEF Schema, SchemaValid, FieldIdsValid

(* The rows of a schema, told apart by ordinal and by field.               *)
RowsTell(rows, fields) ==
    /\ Len(fields) \in Nat
    /\ Cardinality(rows) = Len(fields)
    /\ {row.ordinal : row \in rows} = 0..(Len(fields) - 1)
    /\ Cardinality({row.field : row \in rows}) = Len(fields)
    /\ \A i \in 1..Len(fields) : (CHOOSE row \in rows : row.ordinal = i - 1).field = fields[i]

LEMMA FieldRowsAre ==
    ASSUME NEW schema \in Schema, SchemaValid(schema)
    PROVE  RowsTell(FieldRows(schema), schema.fields)
<1> DEFINE fields == schema.fields
           n == Len(fields)
           rows == FieldRows(schema)
           row(i) == [schema |-> schema.id, field |-> fields[i], ordinal |-> i - 1]
<1>1. n \in Nat /\ \A i, j \in 1..n : fields[i] = fields[j] => i = j
  BY SchemaShape
<1>2. rows = {row(i) : i \in 1..n}
  BY DEF FieldRows
<1> HIDE DEF rows, n
<1>3. \A i : row(i).field = fields[i] /\ row(i).ordinal = i - 1
  OBVIOUS
<1> HIDE DEF row, fields
<1>4. \A i, j \in 1..n : row(i) = row(j) => i = j
  <2> TAKE i, j \in 1..n
  <2>1. row(i).field = fields[i] /\ row(j).field = fields[j]
    BY <1>3
  <2> QED
    BY <1>1, <2>1
<1>5. Cardinality(rows) = n
  <2> DEFINE f == [i \in 1..n |-> row(i)]
  <2>1. f \in [1..n -> rows]
    BY <1>2
  <2>2. \A x \in rows : \E i \in 1..n : f[i] = x
    BY <1>2
  <2>3. \A i, j \in 1..n : f[i] = f[j] => i = j
    BY <1>4
  <2> HIDE DEF f
  <2> QED
    BY <1>1, <2>1, <2>2, <2>3, Numbered
<1>6. {x.ordinal : x \in rows} = 0..(n - 1)
  <2>1. \A x \in rows : x.ordinal \in 0..(n - 1)
    BY <1>1, <1>2, <1>3
  <2>2. ASSUME NEW k \in 0..(n - 1) PROVE \E x \in rows : x.ordinal = k
    <3>1. k + 1 \in 1..n
      BY <1>1
    <3>2. row(k + 1) \in rows /\ row(k + 1).ordinal = (k + 1) - 1
      BY <1>2, <1>3, <3>1
    <3> QED
      BY <3>2
  <2> QED
    BY <2>1, <2>2
<1>7. Cardinality({x.field : x \in rows}) = n
  <2> DEFINE T == {x.field : x \in rows}
             f == [i \in 1..n |-> fields[i]]
  <2>1. f \in [1..n -> T]
    BY <1>2, <1>3
  <2>2. \A x \in T : \E i \in 1..n : f[i] = x
    BY <1>2, <1>3
  <2>3. \A i, j \in 1..n : f[i] = f[j] => i = j
    BY <1>1
  <2> HIDE DEF f, T
  <2>4. Cardinality(T) = n
    BY <1>1, <2>1, <2>2, <2>3, Numbered
  <2> QED
    BY <2>4 DEF T
<1>8. ASSUME NEW i \in 1..n
      PROVE  (CHOOSE x \in rows : x.ordinal = i - 1).field = fields[i]
  <2> DEFINE x == CHOOSE x \in rows : x.ordinal = i - 1
  <2>1. row(i) \in rows /\ row(i).ordinal = i - 1
    BY <1>2, <1>3
  <2>2. x \in rows /\ x.ordinal = i - 1
    BY <2>1
  <2> HIDE DEF x
  <2>3. PICK j \in 1..n : x = row(j)
    BY <1>2, <2>2
  <2>4. j = i
    BY <1>1, <1>3, <2>2, <2>3
  <2>5. x.field = fields[i]
    BY <1>3, <2>3, <2>4
  <2> QED
    BY <2>5 DEF x
<1> QED
  BY <1>1, <1>5, <1>6, <1>7, <1>8 DEF fields, n, rows, RowsTell

(* insert_fields, then read_schema, is the schema again.                   *)
LEMMA ReadsBack ==
    ASSUME NEW t, NEW schema \in Schema, SchemaValid(schema),
           RowsOfSchema(t, schema.id) = FieldRows(schema), t.schemas[schema.id] = schema.parent
    PROVE  ReadSchema(t, schema.id) = schema
<1> DEFINE rows == RowsOfSchema(t, schema.id)
           n == Len(schema.fields)
           read(i) == (CHOOSE row \in rows : row.ordinal = i - 1).field
<1>1. /\ n \in Nat /\ Cardinality(rows) = n
      /\ \A i \in 1..n : read(i) = schema.fields[i]
  <2>1. RowsTell(rows, schema.fields)
    BY FieldRowsAre
  <2> QED
    BY <2>1 DEF RowsTell
<1>2. ReadSchema(t, schema.id) = [id |-> schema.id, parent |-> schema.parent,
                                  fields |-> [i \in 1..Cardinality(rows) |-> read(i)]]
  BY DEF ReadSchema
<1> HIDE DEF rows, read
<1>3. [i \in 1..Cardinality(rows) |-> read(i)] = schema.fields
  <2>1. schema.fields \in Seq(Nat)
    BY DEF Schema
  <2>2. schema.fields = [i \in 1..n |-> schema.fields[i]]
    BY <2>1
  <2> HIDE DEF n
  <2> QED
    BY <1>1, <2>2
<1>4. schema = [id |-> schema.id, parent |-> schema.parent, fields |-> schema.fields]
  BY DEF Schema
<1> QED
  BY <1>2, <1>3, <1>4

(* validate_schemas accepts schemas that read back.                        *)
LEMMA SchemasAccepted ==
    ASSUME NEW t, SchemasOK(t)
    PROVE  SchemasValid(t)
<1> SUFFICES ASSUME NEW id \in DOMAIN t.schemas
             PROVE  LET rows == RowsOfSchema(t, id)
                    IN  /\ {row.ordinal : row \in rows} = 0..(Cardinality(rows) - 1)
                        /\ Cardinality(FieldsOf(t, id)) = Cardinality(rows)
  BY DEF SchemasValid
<1> DEFINE schema == ReadSchema(t, id)
<1>1. schema \in Schema /\ SchemaValid(schema) /\ RowsOfSchema(t, id) = FieldRows(schema)
  BY DEF SchemasOK
<1> HIDE DEF schema
<1>2. FieldsOf(t, id) = {row.field : row \in FieldRows(schema)}
  BY <1>1 DEF FieldsOf
<1>3. RowsTell(FieldRows(schema), schema.fields)
  BY <1>1, FieldRowsAre
<1> QED
  BY <1>1, <1>2, <1>3 DEF RowsTell

(* The rows of a schema and its parent are all that reading it needs.      *)
LEMMA SameSchema ==
    ASSUME NEW t, NEW u, NEW id, RowsOfSchema(t, id) = RowsOfSchema(u, id), t.schemas[id] = u.schemas[id]
    PROVE  ReadSchema(t, id) = ReadSchema(u, id)
  BY DEF ReadSchema

-----------------------------------------------------------------------------
(* Refs and what they list                                                 *)

LEMMA SnapshotsHaveParents ==
    ASSUME NEW t, SnapshotsOK(t)
    PROVE  ParentsKnown(t.snapshots)
  BY DEF SnapshotsOK, ParentsKnown

LEMMA MembershipRows ==
    ASSUME NEW t, NEW r, NEW tip, NEW row \in Membership(t, r, tip)
    PROVE  /\ row.ref = r
           /\ \E s \in Ancestry(t, tip) : row.snapshot = s /\ row.file = t.snapshots[s].added
  BY DEF Membership

(* Branch r of image new is at tip and lists its ancestry; all else is as  *)
(* in image t.                                                             *)
Relisted(new, t, r, tip) ==
    /\ new.snapshots = t.snapshots /\ new.files = t.files
    /\ tip \in {NoSnapshot} \cup DOMAIN t.snapshots
    /\ r \in DOMAIN new.refs /\ new.refs[r].type = "branch" /\ new.refs[r].snapshot = tip
    /\ \A x : x # r => /\ x \in DOMAIN new.refs <=> x \in DOMAIN t.refs
                       /\ x \in DOMAIN t.refs => new.refs[x] = t.refs[x]
    /\ new.live = {row \in t.live : row.ref # r} \cup Membership(t, r, tip)

LEMMA RelistedExact ==
    ASSUME NEW t, NEW new, NEW r, NEW tip, Relisted(new, t, r, tip),
           MembershipExact(t), SnapshotsOK(t), FilesOK(t)
    PROVE  MembershipExact(new)
<1>1. /\ new.snapshots = t.snapshots /\ new.files = t.files
      /\ tip \in {NoSnapshot} \cup DOMAIN t.snapshots
      /\ r \in DOMAIN new.refs /\ new.refs[r].type = "branch" /\ new.refs[r].snapshot = tip
      /\ \A x : x # r => /\ x \in DOMAIN new.refs <=> x \in DOMAIN t.refs
                         /\ x \in DOMAIN t.refs => new.refs[x] = t.refs[x]
      /\ new.live = {row \in t.live : row.ref # r} \cup Membership(t, r, tip)
  BY DEF Relisted
<1>2. Ancestry(t, tip) \subseteq DOMAIN t.snapshots
  BY <1>1, SnapshotsHaveParents, AncestryWithin
<1>3. \A x, y : Membership(new, x, y) = Membership(t, x, y)
  BY <1>1, SameAncestry
<1>4. \A row \in Membership(t, r, tip) :
          /\ row.ref = r /\ row.snapshot \in DOMAIN t.snapshots
          /\ row.file = t.snapshots[row.snapshot].added /\ row.file \in DOMAIN t.files
  BY <1>2, MembershipRows DEF FilesOK
<1>5. ASSUME NEW row \in new.live
      PROVE  /\ row.ref \in DOMAIN new.refs
             /\ row.file \in DOMAIN new.files
             /\ row.snapshot \in DOMAIN new.snapshots /\ new.snapshots[row.snapshot].added = row.file
  <2>1. CASE row \in Membership(t, r, tip)
    BY <2>1, <1>1, <1>4
  <2>2. CASE row \in t.live /\ row.ref # r
    BY <2>2, <1>1 DEF MembershipExact
  <2> QED
    BY <1>1, <2>1, <2>2
<1>6. ASSUME NEW x \in DOMAIN new.refs
      PROVE  LiveRows(new, x) = IF new.refs[x].type = "branch"
                                THEN Membership(new, x, new.refs[x].snapshot) ELSE {}
  <2>1. CASE x = r
    <3>1. LiveRows(new, r) = Membership(t, r, tip)
      BY <1>1, <1>4 DEF LiveRows
    <3> QED
      BY <2>1, <3>1, <1>1, <1>3
  <2>2. CASE x # r
    <3>1. LiveRows(new, x) = LiveRows(t, x)
      BY <2>2, <1>1, <1>4 DEF LiveRows
    <3>2. x \in DOMAIN t.refs /\ new.refs[x] = t.refs[x]
      BY <2>2, <1>1
    <3>3. LiveRows(t, x) = IF t.refs[x].type = "branch"
                           THEN Membership(t, x, t.refs[x].snapshot) ELSE {}
      BY <3>2 DEF MembershipExact
    <3> QED
      BY <3>1, <3>2, <3>3, <1>3
  <2> QED
    BY <2>1, <2>2
<1> QED
  BY <1>5, <1>6 DEF MembershipExact

(* The refs and live rows of t and nothing that they depend on changes.    *)
LEMMA RefsSame ==
    ASSUME NEW t, NEW new, NEW v, RefsOK(t, v), MembershipExact(t),
           new.refs = t.refs, new.live = t.live, new.snapshots = t.snapshots, new.files = t.files
    PROVE  RefsOK(new, v) /\ MembershipExact(new)
<1>1. \A x, y : Membership(new, x, y) = Membership(t, x, y)
  BY SameAncestry
<1>2. \A x : LiveRows(new, x) = LiveRows(t, x)
  BY DEF LiveRows
<1>3. MembershipExact(new)
  BY <1>1, <1>2 DEF MembershipExact
<1> QED
  BY <1>3 DEF RefsOK, RefIs

LEMMA SnapshotsSame ==
    ASSUME NEW t, NEW new, SnapshotsOK(t), FilesOK(t),
           new.snapshots = t.snapshots, new.files = t.files, new.lastSequence = t.lastSequence
    PROVE  SnapshotsOK(new) /\ FilesOK(new)
<1>1. SequencesDense(new)
  BY DEF SnapshotsOK, SequencesDense
<1>2. FilesOK(new)
  BY DEF FilesOK
<1> QED
  BY <1>1, <1>2 DEF SnapshotsOK

(* Metrics stay those of fields of the file's schema while schemas are     *)
(* added.                                                                  *)
LEMMA DescriptorsStay ==
    ASSUME NEW t, NEW new, DescriptorsValid(t), new.files = t.files, t.fields \subseteq new.fields
    PROVE  DescriptorsValid(new)
<1>1. \A id : FieldsOf(t, id) \subseteq FieldsOf(new, id)
  BY DEF FieldsOf, RowsOfSchema
<1> QED
  BY <1>1 DEF DescriptorsValid

LEMMA SchemasSame ==
    ASSUME NEW t, NEW new, SchemasOK(t), new.schemas = t.schemas, new.fields = t.fields,
           new.currentSchema \in DOMAIN t.schemas
    PROVE  SchemasOK(new)
<1>1. \A id : RowsOfSchema(new, id) = RowsOfSchema(t, id)
  BY DEF RowsOfSchema
<1>2. \A id : ReadSchema(new, id) = ReadSchema(t, id)
  BY <1>1, SameSchema
<1> QED
  BY <1>1, <1>2 DEF SchemasOK

-----------------------------------------------------------------------------
(* One operation of a transaction on a sound image                         *)

(* What the operation leaves alone besides what it is about.               *)
LEMMA OperationSpares ==
    ASSUME NEW t, Image(t), NEW op, op.type \in MetadataOperations, NEW new, new = Apply(t, op)
    PROVE  /\ new.lastSequence = t.lastSequence
           /\ op.type # "set_properties" => new.properties = t.properties
           /\ op.type \notin RefOperations => new.refs = t.refs /\ new.live = t.live
<1>1. CASE op.type = "set_properties"
  BY <1>1, PropertiesSet DEF SameBut, ImageFields
<1>2. CASE op.type = "create_ref"
  BY <1>2, RefCreated DEF SameBut, ImageFields, RefOperations
<1>3. CASE op.type = "replace_ref"
  BY <1>3, RefReplaced DEF SameBut, ImageFields, RefOperations
<1>4. CASE op.type = "drop_ref"
  BY <1>4, RefDropped DEF SameBut, ImageFields, RefOperations
<1>5. CASE op.type = "add_schema"
  BY <1>5, SchemaAdded DEF SameBut, ImageFields
<1>6. CASE op.type = "set_current_schema"
  BY <1>6, SchemaSelected DEF SameBut, ImageFields
<1> QED
  BY <1>1, <1>2, <1>3, <1>4, <1>5, <1>6 DEF MetadataOperations

LEMMA PropertiesAre ==
    ASSUME NEW t, Image(t), NEW op, op.type = "set_properties", NEW new, new = Apply(t, op)
    PROVE  /\ \A k \in DOMAIN op.updates :
                  IF op.updates[k] = NoValue THEN k \notin DOMAIN new.properties
                  ELSE /\ k \in DOMAIN new.properties
                       /\ new.properties[k] = [value |-> op.updates[k], updated |-> t.version + 1]
           /\ \A k : k \notin DOMAIN op.updates =>
                  /\ k \in DOMAIN new.properties <=> k \in DOMAIN t.properties
                  /\ k \in DOMAIN t.properties => new.properties[k] = t.properties[k]
<1> DEFINE kept == {k \in DOMAIN t.properties \cup DOMAIN op.updates :
                        k \in DOMAIN op.updates => op.updates[k] # NoValue}
           properties == [k \in kept |-> IF k \in DOMAIN op.updates
                                         THEN [value |-> op.updates[k], updated |-> t.version + 1]
                                         ELSE t.properties[k]]
<1>1. new = [t EXCEPT !.properties = properties]
  BY DEF Apply, SetProperties
<1> HIDE DEF properties
<1>2. new.properties = properties
  BY <1>1 DEF Image, ImageFields
<1> QED
  BY <1>2 DEF properties

(* What acceptance says of a ref that is created.                          *)
CreateFits(t, op) ==
    /\ op.ref \notin DOMAIN t.refs
    /\ op.refType = "tag" => op.snapshot # NoSnapshot
    /\ op.snapshot \in {NoSnapshot} \cup DOMAIN t.snapshots

LEMMA CreatedRef ==
    ASSUME NEW t, Image(t), NEW op, op.type = "create_ref", NEW new, new = Apply(t, op)
    PROVE  /\ new.refs = Put(t.refs, op.ref, [type |-> op.refType, snapshot |-> op.snapshot,
                                              created |-> t.version + 1, updated |-> t.version + 1])
           /\ new.live = IF op.refType = "branch"
                         THEN {row \in t.live : row.ref # op.ref} \cup Membership(t, op.ref, op.snapshot)
                         ELSE t.live
<1> DEFINE refs == Put(t.refs, op.ref, [type |-> op.refType, snapshot |-> op.snapshot,
                                        created |-> t.version + 1, updated |-> t.version + 1])
           created == [t EXCEPT !.refs = refs]
<1>1. new = IF op.refType = "branch" THEN Materialize(created, op.ref, op.snapshot) ELSE created
  BY DEF Apply, CreateRef
<1> HIDE DEF refs
<1>2. /\ DOMAIN created = ImageFields /\ created.refs = refs /\ created.live = t.live
      /\ created.snapshots = t.snapshots
  BY DEF Image, ImageFields
<1> HIDE DEF created
<1>3. Membership(created, op.ref, op.snapshot) = Membership(t, op.ref, op.snapshot)
  BY <1>2, SameAncestry
<1>4. CASE op.refType = "branch"
  BY <1>1, <1>2, <1>3, <1>4 DEF Materialize, ImageFields, refs
<1>5. CASE op.refType # "branch"
  BY <1>1, <1>2, <1>5 DEF refs
<1> QED
  BY <1>4, <1>5

LEMMA CreateOK ==
    ASSUME NEW t, Image(t), t.version \in Nat, ImageOK(t, t.version + 1),
           NEW op, op.type = "create_ref", CreateFits(t, op), NEW new, new = Apply(t, op)
    PROVE  RefsOK(new, t.version + 1) /\ MembershipExact(new)
<1> DEFINE row == [type |-> op.refType, snapshot |-> op.snapshot,
                   created |-> t.version + 1, updated |-> t.version + 1]
           v == t.version + 1
<1>1. /\ new.refs = Put(t.refs, op.ref, row)
      /\ new.live = IF op.refType = "branch"
                    THEN {x \in t.live : x.ref # op.ref} \cup Membership(t, op.ref, op.snapshot)
                    ELSE t.live
      /\ new.snapshots = t.snapshots /\ new.files = t.files
  <2>1. new.snapshots = t.snapshots /\ new.files = t.files
    BY OperationKeeps DEF MetadataOperations
  <2> QED
    BY <2>1, CreatedRef
<1>2. /\ op.ref \notin DOMAIN t.refs /\ (op.refType = "tag" => op.snapshot # NoSnapshot)
      /\ op.snapshot \in {NoSnapshot} \cup DOMAIN t.snapshots
  BY DEF CreateFits
<1>3. /\ DOMAIN new.refs = DOMAIN t.refs \cup {op.ref} /\ new.refs[op.ref] = row
      /\ \A x \in DOMAIN t.refs : new.refs[x] = t.refs[x]
  BY <1>1, <1>2 DEF Put
<1>4. /\ row.type = op.refType /\ row.snapshot = op.snapshot
      /\ row.created = v /\ row.updated = v /\ v \in Nat
  OBVIOUS
<1>5. RefsOK(t, v) /\ MembershipExact(t) /\ SnapshotsOK(t) /\ FilesOK(t)
  BY DEF ImageOK
<1> HIDE DEF row, v
<1>6. RefsOK(new, v)
  <2>1. \A r \in DOMAIN new.refs :
          /\ new.refs[r].created \in Nat /\ new.refs[r].updated \in Nat
          /\ new.refs[r].created <= new.refs[r].updated /\ new.refs[r].updated <= v
          /\ new.refs[r].type = "tag" => new.refs[r].snapshot # NoSnapshot
          /\ new.refs[r].snapshot # NoSnapshot => new.refs[r].snapshot \in DOMAIN new.snapshots
    <3> TAKE r \in DOMAIN new.refs
    <3>1. CASE r = op.ref
      BY <3>1, <1>1, <1>2, <1>3, <1>4
    <3>2. CASE r \in DOMAIN t.refs
      BY <3>2, <1>1, <1>3, <1>5 DEF RefsOK
    <3> QED
      BY <3>1, <3>2, <1>3
  <2>2. RefIs(new, "main", "branch") /\ new.refs["main"].created = 0
    BY <1>3, <1>5 DEF RefsOK, RefIs
  <2> QED
    BY <2>1, <2>2 DEF RefsOK
<1>7. MembershipExact(new)
  <2>1. CASE op.refType = "branch"
    <3>1. Relisted(new, t, op.ref, op.snapshot)
      BY <2>1, <1>1, <1>2, <1>3, <1>4 DEF Relisted
    <3> QED
      BY <3>1, <1>5, RelistedExact
  <2>2. CASE op.refType # "branch"
    <3>1. new.live = t.live
      BY <2>2, <1>1
    <3>2. \A x, y : Membership(new, x, y) = Membership(t, x, y)
      BY <1>1, SameAncestry
    <3>3. \A x : LiveRows(new, x) = LiveRows(t, x)
      BY <3>1 DEF LiveRows
    <3>4. LiveRows(t, op.ref) = {}
      BY <1>2, <1>5 DEF MembershipExact, LiveRows
    <3>5. \A r \in DOMAIN new.refs :
              LiveRows(new, r) = IF new.refs[r].type = "branch"
                                 THEN Membership(new, r, new.refs[r].snapshot) ELSE {}
      BY <1>3, <1>4, <1>5, <2>2, <3>2, <3>3, <3>4 DEF MembershipExact
    <3> QED
      BY <1>1, <1>3, <1>5, <3>1, <3>5 DEF MembershipExact
  <2> QED
    BY <2>1, <2>2
<1> QED
  BY <1>6, <1>7 DEF v

LEMMA ReplacedRef ==
    ASSUME NEW t, Image(t), NEW op, op.type = "replace_ref", op.ref \in DOMAIN t.refs,
           NEW new, new = Apply(t, op)
    PROVE  /\ DOMAIN new.refs = DOMAIN t.refs
           /\ \A r \in DOMAIN t.refs : r # op.ref => new.refs[r] = t.refs[r]
           /\ new.refs[op.ref].type = t.refs[op.ref].type
           /\ new.refs[op.ref].created = t.refs[op.ref].created
           /\ new.refs[op.ref].snapshot = op.snapshot
           /\ new.refs[op.ref].updated = t.version + 1
           /\ new.live = {row \in t.live : row.ref # op.ref} \cup Membership(t, op.ref, op.snapshot)
<1> DEFINE moved == [t EXCEPT !.refs[op.ref].snapshot = op.snapshot,
                              !.refs[op.ref].updated = t.version + 1]
           row == [[t.refs[op.ref] EXCEPT !.snapshot = op.snapshot] EXCEPT !.updated = t.version + 1]
<1>1. new = Materialize(moved, op.ref, op.snapshot)
  BY DEF Apply, ReplaceRef
<1>2. /\ DOMAIN moved = ImageFields /\ moved.snapshots = t.snapshots /\ moved.live = t.live
      /\ moved.refs = [t.refs EXCEPT ![op.ref] = row]
  <2>1. moved.refs = [[t.refs EXCEPT ![op.ref].snapshot = op.snapshot]
                          EXCEPT ![op.ref].updated = t.version + 1]
    BY DEF Image, ImageFields
  <2>2. moved.refs = [t.refs EXCEPT ![op.ref] = row]
    BY <2>1
  <2> QED
    BY <2>2 DEF Image, ImageFields
<1>3. /\ row.type = t.refs[op.ref].type /\ row.created = t.refs[op.ref].created
      /\ row.snapshot = op.snapshot /\ row.updated = t.version + 1
  BY DEF Image, RefFields
<1> HIDE DEF moved, row
<1>4. Membership(moved, op.ref, op.snapshot) = Membership(t, op.ref, op.snapshot)
  BY <1>2, SameAncestry
<1>5. /\ new.refs = moved.refs
      /\ new.live = {x \in moved.live : x.ref # op.ref} \cup Membership(moved, op.ref, op.snapshot)
  BY <1>1, <1>2 DEF Materialize, ImageFields
<1> QED
  BY <1>2, <1>3, <1>4, <1>5

(* What acceptance says of a ref that is moved.                            *)
ReplaceFits(t, op) ==
    RefIs(t, op.ref, "branch") /\ op.snapshot \in {NoSnapshot} \cup DOMAIN t.snapshots

LEMMA ReplaceOK ==
    ASSUME NEW t, Image(t), t.version \in Nat, ImageOK(t, t.version + 1),
           NEW op, op.type = "replace_ref", ReplaceFits(t, op), NEW new, new = Apply(t, op)
    PROVE  RefsOK(new, t.version + 1) /\ MembershipExact(new)
<1> DEFINE v == t.version + 1
<1>1. /\ op.ref \in DOMAIN t.refs /\ t.refs[op.ref].type = "branch"
      /\ op.snapshot \in {NoSnapshot} \cup DOMAIN t.snapshots
  BY DEF ReplaceFits, RefIs
<1>2. new.snapshots = t.snapshots /\ new.files = t.files
  BY OperationKeeps DEF MetadataOperations
<1>3. /\ DOMAIN new.refs = DOMAIN t.refs
      /\ \A r \in DOMAIN t.refs : r # op.ref => new.refs[r] = t.refs[r]
      /\ new.refs[op.ref].type = "branch"
      /\ new.refs[op.ref].created = t.refs[op.ref].created
      /\ new.refs[op.ref].snapshot = op.snapshot
      /\ new.refs[op.ref].updated = v
      /\ new.live = {row \in t.live : row.ref # op.ref} \cup Membership(t, op.ref, op.snapshot)
  BY <1>1, ReplacedRef
<1>4. v \in Nat /\ RefsOK(t, v) /\ MembershipExact(t) /\ SnapshotsOK(t) /\ FilesOK(t)
  BY DEF ImageOK
<1> HIDE DEF v
<1>5. \A r \in DOMAIN new.refs :
          /\ new.refs[r].created \in Nat /\ new.refs[r].updated \in Nat
          /\ new.refs[r].created <= new.refs[r].updated /\ new.refs[r].updated <= v
          /\ new.refs[r].type = "tag" => new.refs[r].snapshot # NoSnapshot
          /\ new.refs[r].snapshot # NoSnapshot => new.refs[r].snapshot \in DOMAIN new.snapshots
  <2> TAKE r \in DOMAIN new.refs
  <2>1. CASE r = op.ref
    BY <2>1, <1>1, <1>2, <1>3, <1>4 DEF RefsOK
  <2>2. CASE r # op.ref
    BY <2>2, <1>2, <1>3, <1>4 DEF RefsOK
  <2> QED
    BY <2>1, <2>2
<1>6. RefIs(new, "main", "branch") /\ new.refs["main"].created = 0
  BY <1>3, <1>4 DEF RefsOK, RefIs
<1>7. Relisted(new, t, op.ref, op.snapshot)
  BY <1>1, <1>2, <1>3 DEF Relisted
<1> QED
  BY <1>4, <1>5, <1>6, <1>7, RelistedExact DEF RefsOK, v

LEMMA DropOK ==
    ASSUME NEW t, Image(t), t.version \in Nat, ImageOK(t, t.version + 1),
           NEW op, op.type = "drop_ref", op.ref # "main", NEW new, new = Apply(t, op)
    PROVE  RefsOK(new, t.version + 1) /\ MembershipExact(new)
<1> DEFINE v == t.version + 1
<1>1. new = DropRef(t, op)
  BY DEF Apply
<1>2. /\ new.refs = Restrict(t.refs, DOMAIN t.refs \ {op.ref})
      /\ new.live = {row \in t.live : row.ref # op.ref}
      /\ new.snapshots = t.snapshots /\ new.files = t.files
  BY <1>1 DEF DropRef, Image, ImageFields
<1>3. /\ DOMAIN new.refs = DOMAIN t.refs \ {op.ref}
      /\ \A r \in DOMAIN new.refs : new.refs[r] = t.refs[r]
  BY <1>2 DEF Restrict
<1>4. RefsOK(t, v) /\ MembershipExact(t)
  BY DEF ImageOK
<1> HIDE DEF v
<1>5. RefsOK(new, v)
  BY <1>2, <1>3, <1>4 DEF RefsOK, RefIs
<1>6. \A x, y : Membership(new, x, y) = Membership(t, x, y)
  BY <1>2, SameAncestry
<1>7. \A x : x # op.ref => LiveRows(new, x) = LiveRows(t, x)
  BY <1>2 DEF LiveRows
<1>8. MembershipExact(new)
  <2>1. \A row \in new.live :
            /\ row.ref \in DOMAIN new.refs
            /\ row.file \in DOMAIN new.files
            /\ row.snapshot \in DOMAIN new.snapshots /\ new.snapshots[row.snapshot].added = row.file
    BY <1>2, <1>3, <1>4 DEF MembershipExact
  <2>2. ASSUME NEW r \in DOMAIN new.refs
        PROVE  LiveRows(new, r) = IF new.refs[r].type = "branch"
                                  THEN Membership(new, r, new.refs[r].snapshot) ELSE {}
    <3>1. r \in DOMAIN t.refs /\ new.refs[r] = t.refs[r] /\ LiveRows(new, r) = LiveRows(t, r)
      BY <1>3, <1>7
    <3>2. LiveRows(t, r) = IF t.refs[r].type = "branch"
                           THEN Membership(t, r, t.refs[r].snapshot) ELSE {}
      BY <3>1, <1>4 DEF MembershipExact
    <3> QED
      BY <3>1, <3>2, <1>6
  <2> QED
    BY <2>1, <2>2 DEF MembershipExact
<1> QED
  BY <1>5, <1>8 DEF v

LEMMA AddSchemaOK ==
    ASSUME NEW t, Image(t), SchemasOK(t), SchemaSound(t),
           NEW op, op.type = "add_schema", op.schema \in Schema, SchemaValid(op.schema),
           op.schema.id \notin DOMAIN t.schemas, NEW new, new = Apply(t, op)
    PROVE  /\ SchemasOK(new)
           /\ op.schema.id \in DOMAIN new.schemas /\ ReadSchema(new, op.schema.id) = op.schema
<1> DEFINE schema == op.schema
           n == schema.id
<1>1. /\ new.schemas = Put(t.schemas, n, schema.parent)
      /\ new.fields = t.fields \cup FieldRows(schema)
      /\ new.currentSchema = t.currentSchema
  BY SchemaAdded DEF SameBut, ImageFields
<1>2. schema \in Schema /\ SchemaValid(schema) /\ n \notin DOMAIN t.schemas
  OBVIOUS
<1> HIDE DEF schema
<1>3. /\ DOMAIN new.schemas = DOMAIN t.schemas \cup {n} /\ new.schemas[n] = schema.parent
      /\ \A id \in DOMAIN t.schemas : new.schemas[id] = t.schemas[id]
  BY <1>1, <1>2 DEF Put
<1>4. \A row \in FieldRows(schema) : row.schema = n
  BY RowsIn
<1>5. RowsOfSchema(new, n) = FieldRows(schema)
  BY <1>1, <1>2, <1>4 DEF RowsOfSchema, SchemaSound
<1>6. \A id \in DOMAIN t.schemas : RowsOfSchema(new, id) = RowsOfSchema(t, id)
  BY <1>1, <1>2, <1>4 DEF RowsOfSchema
<1>7. ReadSchema(new, n) = schema
  BY <1>2, <1>3, <1>5, ReadsBack
<1>8. \A id \in DOMAIN t.schemas : ReadSchema(new, id) = ReadSchema(t, id)
  BY <1>3, <1>6, SameSchema
<1> HIDE DEF n
<1>9. ASSUME NEW id \in DOMAIN new.schemas
      PROVE  /\ ReadSchema(new, id) \in Schema /\ SchemaValid(ReadSchema(new, id))
             /\ RowsOfSchema(new, id) = FieldRows(ReadSchema(new, id))
  <2>1. CASE id = n
    BY <2>1, <1>2, <1>5, <1>7
  <2>2. CASE id \in DOMAIN t.schemas
    BY <2>2, <1>6, <1>8 DEF SchemasOK
  <2> QED
    BY <2>1, <2>2, <1>3
<1>10. SchemasOK(new)
  BY <1>1, <1>3, <1>9 DEF SchemasOK
<1> QED
  BY <1>3, <1>7, <1>10 DEF schema, n

(* What acceptance says of an operation, on the image it is applied to.    *)
Fits(t, op) ==
    /\ op.type = "create_ref" => CreateFits(t, op)
    /\ op.type = "replace_ref" => ReplaceFits(t, op)
    /\ op.type = "drop_ref" => op.ref # "main"
    /\ op.type = "add_schema" =>
           op.schema \in Schema /\ SchemaValid(op.schema) /\ op.schema.id \notin DOMAIN t.schemas
    /\ Applicable(t, op)

LEMMA OperationOK ==
    ASSUME NEW t, Image(t), t.version \in Nat, ImageOK(t, t.version + 1), SchemaSound(t),
           NEW op, op.type \in MetadataOperations, Fits(t, op), NEW new, new = Apply(t, op)
    PROVE  ImageOK(new, t.version + 1)
<1> DEFINE v == t.version + 1
<1>1. /\ new.snapshots = t.snapshots /\ new.files = t.files /\ new.lastSequence = t.lastSequence
      /\ op.type # "set_current_schema" => new.currentSchema = t.currentSchema
      /\ op.type # "add_schema" => new.schemas = t.schemas /\ new.fields = t.fields
      /\ op.type \notin RefOperations => new.refs = t.refs /\ new.live = t.live
  BY OperationKeeps, OperationSpares
<1>2. /\ SnapshotsOK(t) /\ FilesOK(t) /\ RefsOK(t, v) /\ MembershipExact(t)
      /\ SchemasOK(t) /\ DescriptorsValid(t)
  BY DEF ImageOK
<1>3. SnapshotsOK(new) /\ FilesOK(new)
  BY <1>1, <1>2, SnapshotsSame
<1>4. RefsOK(new, v) /\ MembershipExact(new)
  <2>1. CASE op.type = "create_ref"
    BY <2>1, CreateOK DEF Fits
  <2>2. CASE op.type = "replace_ref"
    BY <2>2, ReplaceOK DEF Fits
  <2>3. CASE op.type = "drop_ref"
    BY <2>3, DropOK DEF Fits
  <2>4. CASE op.type \notin RefOperations
    <3> HIDE DEF v
    <3> QED
      BY <2>4, <1>1, <1>2, RefsSame
  <2> QED
    BY <2>1, <2>2, <2>3, <2>4 DEF RefOperations
<1>5. t.fields \subseteq new.fields
  BY <1>1, SchemaAdded
<1>6. DescriptorsValid(new)
  BY <1>1, <1>2, <1>5, DescriptorsStay
<1>7. SchemasOK(new)
  <2>1. CASE op.type = "add_schema"
    BY <2>1, <1>2, AddSchemaOK DEF Fits
  <2>2. CASE op.type = "set_current_schema"
    <3>1. new.currentSchema = op.id
      <4>1. new = SetCurrentSchema(t, op)
        BY <2>2 DEF Apply
      <4> QED
        BY <4>1 DEF SetCurrentSchema, Image, ImageFields
    <3>2. op.id \in DOMAIN t.schemas
      BY <2>2 DEF Fits, Applicable
    <3> QED
      BY <2>2, <3>1, <3>2, <1>1, <1>2, SchemasSame
  <2>3. CASE op.type \notin {"add_schema", "set_current_schema"}
    BY <2>3, <1>1, <1>2, SchemasSame DEF SchemasOK
  <2> QED
    BY <2>1, <2>2, <2>3
<1> QED
  BY <1>3, <1>4, <1>6, <1>7 DEF ImageOK

(* The image says what the operation did.                                  *)
LEMMA ShowsItself ==
    ASSUME NEW t, Image(t), t.version \in Nat, SchemasOK(t), SchemaSound(t),
           NEW op, op.type \in MetadataOperations, Fits(t, op), NEW new, new = Apply(t, op)
    PROVE  OperationProjected(new, t.version + 1, op)
<1>1. CASE op.type = "set_properties"
  BY <1>1, PropertiesAre DEF OperationProjected
<1>2. CASE op.type = "create_ref"
  <2> DEFINE row == [type |-> op.refType, snapshot |-> op.snapshot,
                     created |-> t.version + 1, updated |-> t.version + 1]
  <2>1. new.refs = Put(t.refs, op.ref, row)
    BY <1>2, CreatedRef
  <2>2. row.type = op.refType /\ row.snapshot = op.snapshot /\ row.created = t.version + 1
    OBVIOUS
  <2> HIDE DEF row
  <2>3. op.ref \in DOMAIN new.refs /\ new.refs[op.ref] = row
    BY <2>1 DEF Put
  <2> QED
    BY <1>2, <2>2, <2>3 DEF OperationProjected, RefIs
<1>3. CASE op.type = "replace_ref"
  <2>1. op.ref \in DOMAIN t.refs /\ t.refs[op.ref].type = "branch"
    BY <1>3 DEF Fits, ReplaceFits, RefIs
  <2> QED
    BY <1>3, <2>1, ReplacedRef DEF OperationProjected, RefIs
<1>4. CASE op.type = "drop_ref"
  BY <1>4, RefDropped DEF OperationProjected
<1>5. CASE op.type = "add_schema"
  <2>1. op.schema.id \in DOMAIN new.schemas /\ ReadSchema(new, op.schema.id) = op.schema
    BY <1>5, AddSchemaOK DEF Fits
  <2> QED
    BY <1>5, <2>1 DEF OperationProjected
<1>6. CASE op.type = "set_current_schema"
  <2>1. new = SetCurrentSchema(t, op)
    BY <1>6 DEF Apply
  <2>2. new.currentSchema = op.id
    BY <2>1 DEF SetCurrentSchema, Image, ImageFields
  <2> QED
    BY <1>6, <2>2 DEF OperationProjected
<1> QED
  BY <1>1, <1>2, <1>3, <1>4, <1>5, <1>6 DEF MetadataOperations

(* Two operations of a transaction are about different things.             *)
Apart(other, op) ==
    /\ other.type \in {"add_schema", "set_current_schema"} => other.type # op.type
    /\ other.type \in RefOperations => ~Touches(op, other.ref)
    /\ (other.type = "set_properties" /\ op.type = "set_properties") =>
           DOMAIN other.updates \cap DOMAIN op.updates = {}

LEMMA StaysProjected ==
    ASSUME NEW t, Image(t), NEW v, NEW other, other.type \in MetadataOperations,
           OperationProjected(t, v, other),
           NEW op, op.type \in MetadataOperations, Apart(other, op), NEW new, new = Apply(t, op)
    PROVE  OperationProjected(new, v, other)
<1>1. /\ OtherRefsKept(new, t, op)
      /\ op.type # "set_current_schema" => new.currentSchema = t.currentSchema
      /\ op.type # "add_schema" => new.schemas = t.schemas /\ new.fields = t.fields
      /\ op.type # "set_properties" => new.properties = t.properties
  BY OperationKeeps, OperationSpares
<1>2. CASE other.type = "set_properties"
  <2>1. \A k \in DOMAIN other.updates :
            /\ k \in DOMAIN new.properties <=> k \in DOMAIN t.properties
            /\ k \in DOMAIN t.properties => new.properties[k] = t.properties[k]
    <3>1. CASE op.type = "set_properties"
      <4>1. \A k \in DOMAIN other.updates : k \notin DOMAIN op.updates
        BY <1>2, <3>1 DEF Apart
      <4> QED
        BY <4>1, <3>1, PropertiesAre
    <3>2. CASE op.type # "set_properties"
      BY <3>2, <1>1
    <3> QED
      BY <3>1, <3>2
  <2> QED
    BY <1>2, <2>1 DEF OperationProjected
<1>3. CASE other.type \in RefOperations
  <2>1. /\ other.ref \in DOMAIN new.refs <=> other.ref \in DOMAIN t.refs
        /\ other.ref \in DOMAIN t.refs => new.refs[other.ref] = t.refs[other.ref]
    BY <1>1, <1>3 DEF Apart, OtherRefsKept
  <2> QED
    BY <1>3, <2>1 DEF OperationProjected, RefIs, RefOperations
<1>4. CASE other.type = "add_schema"
  <2>1. new.schemas = t.schemas /\ new.fields = t.fields
    BY <1>1, <1>4 DEF Apart
  <2>2. \A id : RowsOfSchema(new, id) = RowsOfSchema(t, id)
    BY <2>1 DEF RowsOfSchema
  <2>3. ReadSchema(new, other.schema.id) = ReadSchema(t, other.schema.id)
    BY <2>1, <2>2, SameSchema
  <2> QED
    BY <1>4, <2>1, <2>3 DEF OperationProjected
<1>5. CASE other.type = "set_current_schema"
  BY <1>1, <1>5 DEF Apart, OperationProjected
<1> QED
  BY <1>2, <1>3, <1>4, <1>5 DEF MetadataOperations, RefOperations

-----------------------------------------------------------------------------
(* The operations of a transaction, one after the other                    *)

LEMMA RefersToSnapshot ==
    ASSUME NEW p, NEW op, op.type = "create_ref" \/ (op.type = "replace_ref" /\ op.ref \in DOMAIN p.refs),
           \A q \in Required(p, op) : Evaluate(p, q)
    PROVE  op.snapshot \in {NoSnapshot} \cup DOMAIN p.snapshots
<1> SUFFICES ASSUME op.snapshot # NoSnapshot PROVE op.snapshot \in DOMAIN p.snapshots
  OBVIOUS
<1> DEFINE q == [type |-> "snapshot_exists", snapshot |-> op.snapshot]
<1>1. q \in SnapshotRequirement(op.snapshot)
  BY DEF SnapshotRequirement
<1>2. SnapshotRequirement(op.snapshot) \subseteq Required(p, op)
  <2>1. CASE op.type = "create_ref"
    BY <2>1 DEF Required
  <2>2. CASE op.type = "replace_ref" /\ op.ref \in DOMAIN p.refs
    BY <2>2 DEF Required
  <2> QED
    BY <2>1, <2>2
<1>3. Evaluate(p, q)
  BY <1>1, <1>2
<1> QED
  BY <1>3 DEF Evaluate

(* The next operation of an accepted transaction, on the image it meets.   *)
LEMMA AcceptedFits ==
    ASSUME NEW p, NEW t, NEW ops, NEW n \in Nat, Derived(p, t, Done(ops, n)),
           WellFormed(ops), Len(ops) \in Nat, n < Len(ops), NEW op, op = ops[n + 1],
           op.type \in MetadataOperations, op.type = "add_schema" => op.schema \in Schema,
           \A q \in Required(p, op) : Evaluate(p, q), Permitted(p, op), Applicable(t, op)
    PROVE  Fits(t, op)
<1> DEFINE done == Done(ops, n)
<1>1. \A i \in 1..n : /\ op.type = "add_schema" => ops[i].type # "add_schema"
                      /\ op.type \in RefOperations => ~Touches(ops[i], op.ref)
  BY DEF WellFormed
<1>2. /\ op.type = "add_schema" => \A other \in done : other.type # "add_schema"
      /\ op.type \in RefOperations => \A other \in done : ~Touches(other, op.ref)
  BY <1>1 DEF Done
<1> HIDE DEF done
<1>d. Derived(p, t, done)
  BY DEF done
<1>3. op.type \in RefOperations =>
          /\ op.ref \in DOMAIN t.refs <=> op.ref \in DOMAIN p.refs
          /\ op.ref \in DOMAIN p.refs => t.refs[op.ref] = p.refs[op.ref]
  BY <1>2, <1>d DEF Derived
<1>4. t.snapshots = p.snapshots
  BY <1>d DEF Derived
<1>5. ASSUME op.type = "create_ref" PROVE CreateFits(t, op)
  <2>1. op.ref \notin DOMAIN t.refs
    BY <1>3, <1>5, CreatesAnew DEF RefOperations
  <2>2. op.snapshot \in {NoSnapshot} \cup DOMAIN t.snapshots
    BY <1>4, <1>5, RefersToSnapshot
  <2>3. op.refType = "tag" => op.snapshot # NoSnapshot
    BY <1>5 DEF Permitted
  <2> QED
    BY <2>1, <2>2, <2>3 DEF CreateFits
<1>6. ASSUME op.type = "replace_ref" PROVE ReplaceFits(t, op)
  <2>1. RefIs(p, op.ref, "branch")
    BY <1>6, ReplacesBranch
  <2>2. RefIs(t, op.ref, "branch")
    BY <2>1, <1>3, <1>6 DEF RefIs, RefOperations
  <2>3. op.snapshot \in {NoSnapshot} \cup DOMAIN t.snapshots
    BY <1>4, <1>6, <2>1, RefersToSnapshot DEF RefIs
  <2> QED
    BY <2>2, <2>3 DEF ReplaceFits
<1>7. op.type = "drop_ref" => op.ref # "main"
  BY DEF Permitted
<1>8. ASSUME op.type = "add_schema" PROVE SchemaValid(op.schema) /\ op.schema.id \notin DOMAIN t.schemas
  <2>1. op.schema.id \notin DOMAIN p.schemas
    BY <1>8, AddsFreshSchema
  <2>2. t.schemas = p.schemas
    BY <1>2, <1>8, <1>d DEF Derived
  <2>3. SchemaValid(op.schema)
    BY <1>8 DEF Permitted, Additive
  <2> QED
    BY <2>1, <2>2, <2>3
<1> QED
  BY <1>5, <1>6, <1>7, <1>8 DEF Fits

LEMMA ImageReplayed ==
    ASSUME NEW t, Image(t)
    PROVE  t # NotReplayed
<1>1. "refs" \in DOMAIN t /\ "refs" \notin DOMAIN NotReplayed
  BY DEF Image, ImageFields, NotReplayed
<1> QED
  BY <1>1

LEMMA StepwiseNext ==
    ASSUME NEW p, NEW t, NEW n \in Nat, NEW ops, NEW g, Stepwise(g, p, t, n, ops),
           t # NotReplayed, Applicable(t, ops[n + 1]), NEW new, new = Apply(t, ops[n + 1])
    PROVE  \E h : Stepwise(h, p, new, n + 1, ops)
<1> DEFINE h == [i \in 0..(n + 1) |-> IF i = n + 1 THEN new ELSE g[i]]
<1>1. DOMAIN h = 0..(n + 1) /\ h[n + 1] = new /\ \A i \in 0..n : h[i] = g[i]
  OBVIOUS
<1> HIDE DEF h
<1>2. h[0] = p
  BY <1>1 DEF Stepwise
<1>3. ASSUME NEW i \in 1..(n + 1)
      PROVE  /\ h[i - 1] # NotReplayed /\ Applicable(h[i - 1], ops[i])
             /\ h[i] = Apply(h[i - 1], ops[i])
  <2>1. CASE i = n + 1
    <3>1. h[i - 1] = t
      BY <1>1, <2>1 DEF Stepwise
    <3> QED
      BY <3>1, <1>1, <2>1
  <2>2. CASE i \in 1..n
    <3>1. h[i] = g[i] /\ h[i - 1] = g[i - 1]
      BY <1>1, <2>2
    <3> QED
      BY <3>1, <2>2 DEF Stepwise
  <2> QED
    BY <2>1, <2>2
<1>4. Stepwise(h, p, new, n + 1, ops)
  BY <1>1, <1>2, <1>3 DEF Stepwise
<1> QED
  BY <1>4

(* What is known of a transaction when its operation n + 1 is due.         *)
Due(p, t, n, ops) ==
    /\ n \in Nat /\ Len(ops) \in Nat /\ n < Len(ops)
    /\ p.version \in Nat
    /\ Derived(p, t, Done(ops, n))
    /\ WellFormed(ops)
    /\ \A op \in Elements(ops) :
           /\ op.type \in MetadataOperations
           /\ op.type = "add_schema" => op.schema \in Schema
           /\ \A q \in Required(p, op) : Evaluate(p, q)
           /\ Permitted(p, op)

LEMMA PartlyNext ==
    ASSUME NEW p, NEW t, NEW n, NEW ops, Due(p, t, n, ops), Partly(p, t, n, ops),
           Applicable(t, ops[n + 1]), NEW new, new = Apply(t, ops[n + 1])
    PROVE  Partly(p, new, n + 1, ops)
<1> DEFINE op == ops[n + 1]
<1>1. /\ n \in Nat /\ Len(ops) \in Nat /\ n < Len(ops) /\ p.version \in Nat
      /\ Derived(p, t, Done(ops, n)) /\ WellFormed(ops)
  BY DEF Due
<1>2. op \in Elements(ops) /\ \A i \in 1..n : ops[i] \in Elements(ops)
  BY <1>1 DEF Elements
<1>3. /\ op.type \in MetadataOperations /\ (op.type = "add_schema" => op.schema \in Schema)
      /\ (\A q \in Required(p, op) : Evaluate(p, q)) /\ Permitted(p, op)
      /\ \A i \in 1..n : ops[i].type \in MetadataOperations
  BY <1>2 DEF Due
<1>4. Image(t) /\ t.version = p.version /\ SchemaSound(t)
  BY <1>1 DEF Derived
<1>5. \A other \in Done(ops, n) : other.type \in MetadataOperations /\ Apart(other, op)
  <2>1. \A i \in 1..n : Apart(ops[i], op)
    BY <1>1 DEF WellFormed, Apart
  <2> QED
    BY <1>3, <2>1 DEF Done
<1> HIDE DEF op
<1>op. op = ops[n + 1] /\ Applicable(t, op) /\ new = Apply(t, op)
  BY DEF op
<1>6. Fits(t, op)
  BY <1>1, <1>3, <1>op, AcceptedFits
<1>7. /\ ImageOK(t, t.version + 1) /\ SchemasOK(t) /\ t.lastSequence = p.lastSequence
      /\ \A other \in Done(ops, n) : OperationProjected(t, p.version + 1, other)
  BY <1>4 DEF Partly, ImageOK
<1>8. ImageOK(new, p.version + 1)
  BY <1>1, <1>3, <1>4, <1>6, <1>7, <1>op, OperationOK
<1>9. new.lastSequence = p.lastSequence
  BY <1>3, <1>4, <1>7, <1>op, OperationSpares
<1>10. \E g : Stepwise(g, p, new, n + 1, ops)
  <2>1. PICK g : Stepwise(g, p, t, n, ops)
    BY DEF Partly
  <2> QED
    BY <2>1, <1>1, <1>4, <1>op, ImageReplayed, StepwiseNext
<1>11. OperationProjected(new, p.version + 1, op)
  BY <1>1, <1>3, <1>4, <1>6, <1>7, <1>op, ShowsItself
<1>12. \A other \in Done(ops, n) : OperationProjected(new, p.version + 1, other)
  BY <1>3, <1>4, <1>5, <1>7, <1>op, StaysProjected
<1>13. Done(ops, n + 1) = Done(ops, n) \cup {op}
  BY <1>1, <1>op, OneMoreDone
<1> QED
  BY <1>8, <1>9, <1>10, <1>11, <1>12, <1>13 DEF Partly

LEMMA PartlyBegun ==
    ASSUME NEW p, NEW ops, ImageOK(p, p.version), p.version \in Nat
    PROVE  Partly(p, p, 0, ops)
<1> DEFINE g == [i \in 0..0 |-> p]
<1>1. Stepwise(g, p, p, 0, ops)
  BY DEF Stepwise
<1> HIDE DEF g
<1>2. Done(ops, 0) = {}
  BY DEF Done
<1>3. RefsOK(p, p.version + 1)
  <2> DEFINE v == p.version
             w == p.version + 1
  <2>1. RefsOK(p, v) /\ v \in Nat /\ w \in Nat /\ v <= w
    BY DEF ImageOK
  <2> HIDE DEF v, w
  <2>2. RefsOK(p, w)
    BY <2>1 DEF RefsOK
  <2> QED
    BY <2>2 DEF w
<1>4. ImageOK(p, p.version + 1)
  BY <1>3 DEF ImageOK
<1> QED
  BY <1>1, <1>2, <1>4 DEF Partly

-----------------------------------------------------------------------------
(* An append on a sound image                                              *)

(* Image t is p with the snapshot and the file of call c, which asks for r.*)
AppendAdds(p, t, r, c) ==
    LET n == p.version + 1
        sequence == p.lastSequence + 1
    IN  /\ n \notin DOMAIN p.snapshots /\ c \notin DOMAIN p.files
        /\ DOMAIN t.snapshots = DOMAIN p.snapshots \cup {n}
        /\ \A s \in DOMAIN p.snapshots : t.snapshots[s] = p.snapshots[s]
        /\ t.snapshots[n].parent = p.refs[r.ref].snapshot /\ t.snapshots[n].sequence = sequence
        /\ t.snapshots[n].schema = p.currentSchema /\ t.snapshots[n].version = n
        /\ t.snapshots[n].added = c
        /\ DOMAIN t.files = DOMAIN p.files \cup {c}
        /\ \A f \in DOMAIN p.files : t.files[f] = p.files[f]
        /\ t.files[c] = [schema |-> r.schema, sequence |-> sequence, snapshot |-> n, version |-> n,
                         metrics |-> Elements(r.metrics)]
        /\ t.live = p.live \cup {[ref |-> r.ref, file |-> c, snapshot |-> n, sequence |-> sequence]}
        /\ t.lastSequence = sequence
        /\ DOMAIN t.refs = DOMAIN p.refs
        /\ \A x \in DOMAIN p.refs : x # r.ref => t.refs[x] = p.refs[x]
        /\ t.refs[r.ref].type = p.refs[r.ref].type /\ t.refs[r.ref].created = p.refs[r.ref].created
        /\ t.refs[r.ref].snapshot = n /\ t.refs[r.ref].updated = n
        /\ t.version = p.version /\ t.commits = p.commits
        /\ t.schemas = p.schemas /\ t.fields = p.fields /\ t.currentSchema = p.currentSchema

LEMMA AppendAddsRows ==
    ASSUME NEW p, Image(p), NEW r, NEW c, r.ref \in DOMAIN p.refs, p.version \in Nat,
           DOMAIN p.snapshots \subseteq 1..p.version, c \notin DOMAIN p.files,
           NEW t, t = Apply(p, AppendOf(p, r, c))
    PROVE  AppendAdds(p, t, r, c)
<1> DEFINE op == AppendOf(p, r, c)
           n == p.version + 1
           sequence == p.lastSequence + 1
           snapshot == [parent |-> p.refs[r.ref].snapshot, sequence |-> sequence,
                        schema |-> p.currentSchema, version |-> n, added |-> c]
           file == [schema |-> r.schema, sequence |-> sequence, snapshot |-> n, version |-> n,
                    metrics |-> Elements(r.metrics)]
<1>1. /\ op.type = "commit_snapshot" /\ op.target = r.ref
      /\ op.snapshot.id = n /\ op.snapshot.parent = p.refs[r.ref].snapshot
      /\ op.snapshot.sequence = sequence
      /\ op.file.id = c /\ op.file.schema = r.schema /\ op.file.metrics = r.metrics
  BY DEF AppendOf
<1> HIDE DEF op
<1>2. t = CommitSnapshot(p, op)
  BY <1>1 DEF Apply, op
<1>3. SnapshotEffect(t, p, op)
  BY <1>1, SnapshotCommitted DEF op
<1>n. n \notin DOMAIN p.snapshots
  OBVIOUS
<1> HIDE DEF n, sequence
<1>4. /\ t.snapshots = Put(p.snapshots, n, snapshot)
      /\ t.files = Put(p.files, c, file)
      /\ t.live = p.live \cup {[ref |-> r.ref, file |-> c, snapshot |-> n, sequence |-> sequence]}
      /\ t.lastSequence = sequence
  <2>1. t.snapshots = Put(p.snapshots, n, snapshot)
    BY <1>1, <1>2 DEF CommitSnapshot, Image, ImageFields, n
  <2>2. t.files = Put(p.files, c, file)
    BY <1>1, <1>2 DEF CommitSnapshot, Image, ImageFields, n
  <2>3. t.live = p.live \cup {[ref |-> r.ref, file |-> c, snapshot |-> n, sequence |-> sequence]}
    BY <1>1, <1>2 DEF CommitSnapshot, Image, ImageFields
  <2>4. t.lastSequence = sequence
    BY <1>1, <1>2 DEF CommitSnapshot, Image, ImageFields
  <2> QED
    BY <2>1, <2>2, <2>3, <2>4
<1>5. /\ snapshot.parent = p.refs[r.ref].snapshot /\ snapshot.sequence = sequence
      /\ snapshot.schema = p.currentSchema /\ snapshot.version = n /\ snapshot.added = c
  OBVIOUS
<1> HIDE DEF snapshot
<1>6. /\ DOMAIN t.snapshots = DOMAIN p.snapshots \cup {n} /\ t.snapshots[n] = snapshot
      /\ \A s \in DOMAIN p.snapshots : t.snapshots[s] = p.snapshots[s]
  BY <1>4, <1>n DEF Put
<1>7. /\ DOMAIN t.files = DOMAIN p.files \cup {c} /\ t.files[c] = file
      /\ \A f \in DOMAIN p.files : t.files[f] = p.files[f]
  BY <1>4 DEF Put
<1> HIDE DEF file
<1>8. /\ DOMAIN t.refs = DOMAIN p.refs
      /\ \A x \in DOMAIN p.refs : x # r.ref => t.refs[x] = p.refs[x]
      /\ t.refs[r.ref].type = p.refs[r.ref].type /\ t.refs[r.ref].created = p.refs[r.ref].created
      /\ t.refs[r.ref].snapshot = n
  BY <1>1, <1>3 DEF SnapshotEffect
<1>9. t.refs[r.ref].updated = n
  <2>1. t.refs = [[p.refs EXCEPT ![op.target].snapshot = op.snapshot.id]
                      EXCEPT ![op.target].updated = p.version + 1]
    BY <1>2 DEF CommitSnapshot, Image, ImageFields
  <2>2. DOMAIN p.refs[r.ref] = RefFields
    BY DEF Image
  <2> QED
    BY <1>1, <2>1, <2>2 DEF RefFields, n
<1>10. /\ t.version = p.version /\ t.commits = p.commits
       /\ t.schemas = p.schemas /\ t.fields = p.fields /\ t.currentSchema = p.currentSchema
  BY <1>3 DEF SnapshotEffect, SameBut, ImageFields
<1> QED
  BY <1>n, <1>4, <1>5, <1>6, <1>7, <1>8, <1>9, <1>10 DEF AppendAdds, n, sequence, file

LEMMA AppendSnapshotsOK ==
    ASSUME NEW p, NEW t, NEW r, NEW c, AppendAdds(p, t, r, c), SnapshotsOK(p), p.version \in Nat,
           DOMAIN p.snapshots \subseteq 1..p.version, r.ref \in DOMAIN p.refs, RefsOK(p, p.version)
    PROVE  SnapshotsOK(t)
<1> DEFINE n == p.version + 1
           k == p.lastSequence
           D == DOMAIN p.snapshots
           q(s) == p.snapshots[s].sequence
           u(s) == t.snapshots[s].sequence
<1>1. /\ n \notin D /\ DOMAIN t.snapshots = D \cup {n}
      /\ \A s \in D : t.snapshots[s] = p.snapshots[s]
      /\ t.snapshots[n].parent = p.refs[r.ref].snapshot /\ t.snapshots[n].sequence = k + 1
      /\ t.snapshots[n].version = n /\ t.lastSequence = k + 1
  BY DEF AppendAdds
<1>2. /\ k \in Nat /\ IsFiniteSet(D) /\ D \subseteq Nat \ {0}
      /\ k = Cardinality(D) /\ {q(s) : s \in D} = 1..k
      /\ \A s \in D : q(s) \in 1..k
      /\ \A a, b \in D : q(a) = q(b) => a = b
  BY DEF SnapshotsOK, SequencesDense
<1>3. /\ n \in Nat \ {0} /\ \A s \in D : s < n
      /\ p.refs[r.ref].snapshot \in {NoSnapshot} \cup D
  BY <1>2 DEF RefsOK
<1>u. u(n) = k + 1 /\ \A s \in D : u(s) = q(s)
  BY <1>1
<1>t. \A s : u(s) = t.snapshots[s].sequence
  OBVIOUS
<1>q. \A s : q(s) = p.snapshots[s].sequence
  OBVIOUS
<1> HIDE DEF n, k, D, q, u
<1>4. IsFiniteSet(D \cup {n}) /\ Cardinality(D \cup {n}) = k + 1
  BY <1>1, <1>2, FS_AddElement
<1>5. {u(s) : s \in D \cup {n}} = 1..(k + 1)
  <2>1. 1..(k + 1) = 1..k \cup {k + 1}
    BY <1>2
  <2>2. {u(s) : s \in D \cup {n}} = {q(s) : s \in D} \cup {k + 1}
    BY <1>u
  <2> QED
    BY <1>2, <2>1, <2>2
<1>6. SequencesDense(t)
  BY <1>1, <1>4, <1>5, <1>t DEF SequencesDense
<1>7. ASSUME NEW a \in D \cup {n}, NEW b \in D \cup {n}, u(a) = u(b)
      PROVE  a = b
  BY <1>2, <1>7, <1>u
<1>8. ASSUME NEW s \in D \cup {n}
      PROVE  /\ t.snapshots[s].version = s
             /\ u(s) \in 1..(k + 1)
             /\ t.snapshots[s].parent # NoSnapshot =>
                  /\ t.snapshots[s].parent \in D \cup {n} /\ t.snapshots[s].parent < s
                  /\ u(t.snapshots[s].parent) < u(s)
  <2>1. CASE s = n
    <3>1. t.snapshots[s].parent # NoSnapshot => t.snapshots[s].parent \in D
      BY <2>1, <1>1, <1>3
    <3>2. t.snapshots[s].version = s /\ u(s) = k + 1
      BY <2>1, <1>1, <1>u
    <3>3. \A x \in D : u(x) \in 1..k /\ x < s
      BY <2>1, <1>2, <1>3, <1>u
    <3>4. \A x \in D : u(x) < k + 1
      BY <3>3, <1>2
    <3>5. k + 1 \in 1..(k + 1)
      BY <1>2
    <3> HIDE DEF u
    <3> QED
      BY <3>1, <3>2, <3>3, <3>4, <3>5
  <2>2. CASE s \in D
    <3>1. /\ p.snapshots[s].version = s
          /\ p.snapshots[s].parent # NoSnapshot =>
               /\ p.snapshots[s].parent \in D /\ p.snapshots[s].parent < s
               /\ q(p.snapshots[s].parent) < q(s)
      BY <2>2, <1>q DEF SnapshotsOK, D
    <3>2. t.snapshots[s] = p.snapshots[s] /\ u(s) = q(s)
      BY <2>2, <1>1, <1>u
    <3>3. q(s) \in 1..(k + 1)
      BY <2>2, <1>2
    <3>4. p.snapshots[s].parent \in D => u(p.snapshots[s].parent) = q(p.snapshots[s].parent)
      BY <1>u
    <3> QED
      BY <3>1, <3>2, <3>3, <3>4
  <2> QED
    BY <2>1, <2>2
<1>9. k + 1 \in Nat /\ D \cup {n} \subseteq Nat \ {0}
  BY <1>2, <1>3
<1> QED
  BY <1>1, <1>4, <1>6, <1>7, <1>8, <1>9, <1>t DEF SnapshotsOK

LEMMA AppendFilesOK ==
    ASSUME NEW p, NEW t, NEW r, NEW c, AppendAdds(p, t, r, c), FilesOK(p)
    PROVE  FilesOK(t)
<1> DEFINE n == p.version + 1
<1>1. /\ n \notin DOMAIN p.snapshots /\ c \notin DOMAIN p.files
      /\ DOMAIN t.snapshots = DOMAIN p.snapshots \cup {n}
      /\ \A s \in DOMAIN p.snapshots : t.snapshots[s] = p.snapshots[s]
      /\ t.snapshots[n].added = c
      /\ DOMAIN t.files = DOMAIN p.files \cup {c}
      /\ \A f \in DOMAIN p.files : t.files[f] = p.files[f]
      /\ t.files[c].snapshot = n /\ t.files[c].version = n
  BY DEF AppendAdds
<1> HIDE DEF n
<1> QED
  BY <1>1 DEF FilesOK

LEMMA AppendRefsOK ==
    ASSUME NEW p, NEW t, NEW r, NEW c, AppendAdds(p, t, r, c), p.version \in Nat,
           RefsOK(p, p.version), r.ref \in DOMAIN p.refs
    PROVE  RefsOK(t, p.version + 1)
<1> DEFINE v == p.version
           n == p.version + 1
<1>1. /\ DOMAIN t.snapshots = DOMAIN p.snapshots \cup {n}
      /\ DOMAIN t.refs = DOMAIN p.refs
      /\ \A x \in DOMAIN p.refs : x # r.ref => t.refs[x] = p.refs[x]
      /\ t.refs[r.ref].type = p.refs[r.ref].type /\ t.refs[r.ref].created = p.refs[r.ref].created
      /\ t.refs[r.ref].snapshot = n /\ t.refs[r.ref].updated = n
  BY DEF AppendAdds
<1>2. v \in Nat /\ n \in Nat /\ v <= n /\ RefsOK(p, v) /\ n # NoSnapshot
  BY DEF NoSnapshot
<1> HIDE DEF v, n
<1>3. \A x \in DOMAIN t.refs :
          /\ t.refs[x].created \in Nat /\ t.refs[x].updated \in Nat
          /\ t.refs[x].created <= t.refs[x].updated /\ t.refs[x].updated <= n
          /\ t.refs[x].type = "tag" => t.refs[x].snapshot # NoSnapshot
          /\ t.refs[x].snapshot # NoSnapshot => t.refs[x].snapshot \in DOMAIN t.snapshots
  <2> TAKE x \in DOMAIN t.refs
  <2>1. /\ p.refs[x].created \in Nat /\ p.refs[x].updated \in Nat
        /\ p.refs[x].created <= p.refs[x].updated /\ p.refs[x].updated <= v
        /\ p.refs[x].type = "tag" => p.refs[x].snapshot # NoSnapshot
        /\ p.refs[x].snapshot # NoSnapshot => p.refs[x].snapshot \in DOMAIN p.snapshots
    BY <1>1, <1>2 DEF RefsOK
  <2>2. p.refs[x].created <= n /\ p.refs[x].updated <= n
    BY <2>1, <1>2
  <2>3. CASE x = r.ref
    BY <2>1, <2>2, <2>3, <1>1, <1>2
  <2>4. CASE x # r.ref
    BY <2>1, <2>2, <2>4, <1>1
  <2> QED
    BY <2>3, <2>4
<1>4. RefIs(t, "main", "branch") /\ t.refs["main"].created = 0
  BY <1>1, <1>2 DEF RefsOK, RefIs
<1> QED
  BY <1>3, <1>4 DEF RefsOK, n

(* The live rows of the target, kept up by one row, are those of the       *)
(* ancestry of its new tip.                                                *)
LEMMA AppendMembership ==
    ASSUME NEW p, NEW t, NEW r, NEW c, AppendAdds(p, t, r, c), MembershipExact(p), SnapshotsOK(p),
           SnapshotsOK(t), FilesOK(t), RefsOK(p, p.version), RefIs(p, r.ref, "branch")
    PROVE  MembershipExact(t)
<1> DEFINE n == p.version + 1
           tip == p.refs[r.ref].snapshot
           row == [ref |-> r.ref, file |-> c, snapshot |-> n, sequence |-> p.lastSequence + 1]
           of(x, s) == [ref |-> x, file |-> t.snapshots[s].added, snapshot |-> s,
                        sequence |-> t.snapshots[s].sequence]
<1>1. /\ n \notin DOMAIN p.snapshots
      /\ DOMAIN t.snapshots = DOMAIN p.snapshots \cup {n}
      /\ \A s \in DOMAIN p.snapshots : t.snapshots[s] = p.snapshots[s]
      /\ t.snapshots[n].parent = tip /\ t.snapshots[n].added = c
      /\ DOMAIN t.files = DOMAIN p.files \cup {c}
      /\ t.live = p.live \cup {row}
      /\ DOMAIN t.refs = DOMAIN p.refs
      /\ \A x \in DOMAIN p.refs : x # r.ref => t.refs[x] = p.refs[x]
      /\ t.refs[r.ref].type = "branch" /\ t.refs[r.ref].snapshot = n
  BY DEF AppendAdds, RefIs
<1>2. row.ref = r.ref /\ row.file = c /\ row.snapshot = n
  OBVIOUS
<1>3. row = of(r.ref, n)
  BY DEF AppendAdds
<1>4. r.ref \in DOMAIN p.refs /\ p.refs[r.ref].type = "branch"
  BY DEF RefIs
<1>5. /\ \A x \in DOMAIN p.refs : p.refs[x].snapshot \in {NoSnapshot} \cup DOMAIN p.snapshots
      /\ tip \in {NoSnapshot} \cup DOMAIN p.snapshots
  BY <1>4 DEF RefsOK
<1>6. ParentsKnown(p.snapshots) /\ ParentsKnown(t.snapshots) /\ Kept(p, t)
  BY <1>1, SnapshotsHaveParents DEF Kept
<1> HIDE DEF n, row, tip
<1>7. \A s \in {NoSnapshot} \cup DOMAIN p.snapshots :
          Ancestry(t, s) = Ancestry(p, s) /\ Ancestry(p, s) \subseteq DOMAIN p.snapshots
  BY <1>6, AncestryStays, AncestryWithin
<1>8. Ancestry(t, n) = {n} \cup Ancestry(p, tip)
  BY <1>1, <1>5, <1>6, <1>7, AncestryEquation
<1>9. ASSUME NEW x, NEW s \in {NoSnapshot} \cup DOMAIN p.snapshots
      PROVE  Membership(t, x, s) = Membership(p, x, s)
  BY <1>1, <1>7 DEF Membership
<1>10. Membership(t, r.ref, n) = {row} \cup Membership(p, r.ref, tip)
  <2>1. Membership(t, r.ref, n) = {of(r.ref, s) : s \in {n} \cup Ancestry(t, tip)}
    BY <1>5, <1>7, <1>8 DEF Membership
  <2>2. Membership(t, r.ref, tip) = {of(r.ref, s) : s \in Ancestry(t, tip)}
    BY DEF Membership
  <2> HIDE DEF of
  <2> QED
    BY <2>1, <2>2, <1>3, <1>5, <1>9
<1> HIDE DEF of
<1>11. ASSUME NEW x \in t.live
       PROVE  /\ x.ref \in DOMAIN t.refs /\ x.file \in DOMAIN t.files
              /\ x.snapshot \in DOMAIN t.snapshots /\ t.snapshots[x.snapshot].added = x.file
  <2>1. CASE x = row
    BY <2>1, <1>1, <1>2, <1>4
  <2>2. CASE x \in p.live
    BY <2>2, <1>1 DEF MembershipExact
  <2> QED
    BY <2>1, <2>2, <1>1
<1>12. ASSUME NEW x \in DOMAIN t.refs
       PROVE  LiveRows(t, x) = IF t.refs[x].type = "branch"
                               THEN Membership(t, x, t.refs[x].snapshot) ELSE {}
  <2>1. LiveRows(p, x) = IF p.refs[x].type = "branch"
                         THEN Membership(p, x, p.refs[x].snapshot) ELSE {}
    BY <1>1 DEF MembershipExact
  <2>2. CASE x = r.ref
    <3>1. LiveRows(t, x) = LiveRows(p, x) \cup {row}
      BY <2>2, <1>1, <1>2 DEF LiveRows
    <3>2. LiveRows(p, x) = Membership(p, r.ref, tip)
      BY <2>1, <2>2, <1>4 DEF tip
    <3>3. Membership(t, x, t.refs[x].snapshot) = Membership(t, r.ref, n)
      BY <2>2, <1>1
    <3> QED
      BY <2>2, <3>1, <3>2, <3>3, <1>1, <1>10
  <2>3. CASE x # r.ref
    <3>1. LiveRows(t, x) = LiveRows(p, x)
      BY <2>3, <1>1, <1>2 DEF LiveRows
    <3>2. x \in DOMAIN p.refs /\ t.refs[x] = p.refs[x]
      BY <2>3, <1>1
    <3>3. Membership(t, x, p.refs[x].snapshot) = Membership(p, x, p.refs[x].snapshot)
      BY <3>2, <1>5, <1>9
    <3> QED
      BY <2>1, <3>1, <3>2, <3>3
  <2> QED
    BY <2>2, <2>3
<1> QED
  BY <1>11, <1>12 DEF MembershipExact

LEMMA AppendDescriptors ==
    ASSUME NEW p, NEW t, NEW r, NEW c, AppendAdds(p, t, r, c), DescriptorsValid(p),
           p.currentSchema = r.schema, MetricsValid(p, r.metrics)
    PROVE  DescriptorsValid(t)
<1>1. /\ DOMAIN t.files = DOMAIN p.files \cup {c}
      /\ \A f \in DOMAIN p.files : t.files[f] = p.files[f]
      /\ t.files[c].schema = r.schema /\ t.files[c].metrics = Elements(r.metrics)
      /\ t.fields = p.fields
  BY DEF AppendAdds
<1>2. \A id : FieldsOf(t, id) = FieldsOf(p, id)
  BY <1>1 DEF FieldsOf, RowsOfSchema
<1>3. \A m \in Elements(r.metrics) : m.field \in FieldsOf(p, r.schema) /\ CountsSound(m) /\ BoundsSound(m)
  BY DEF MetricsValid
<1> QED
  BY <1>1, <1>2, <1>3 DEF DescriptorsValid

LEMMA AppendOK ==
    ASSUME NEW p, NEW t, NEW r, NEW c, AppendAdds(p, t, r, c), ImageOK(p, p.version), p.version \in Nat,
           DOMAIN p.snapshots \subseteq 1..p.version, RefIs(p, r.ref, "branch"),
           p.currentSchema = r.schema, MetricsValid(p, r.metrics)
    PROVE  ImageOK(t, p.version + 1)
<1>1. /\ SnapshotsOK(p) /\ FilesOK(p) /\ RefsOK(p, p.version) /\ MembershipExact(p)
      /\ SchemasOK(p) /\ DescriptorsValid(p) /\ r.ref \in DOMAIN p.refs
  BY DEF ImageOK, RefIs
<1>2. SnapshotsOK(t)
  BY <1>1, AppendSnapshotsOK
<1>3. FilesOK(t)
  BY <1>1, AppendFilesOK
<1>4. RefsOK(t, p.version + 1)
  BY <1>1, AppendRefsOK
<1>5. MembershipExact(t)
  BY <1>1, <1>2, <1>3, AppendMembership
<1>6. DescriptorsValid(t)
  BY <1>1, AppendDescriptors
<1>7. SchemasOK(t)
  <2>1. t.schemas = p.schemas /\ t.fields = p.fields /\ t.currentSchema \in DOMAIN p.schemas
    BY <1>1 DEF AppendAdds, SchemasOK
  <2> QED
    BY <1>1, <2>1, SchemasSame
<1> QED
  BY <1>2, <1>3, <1>4, <1>5, <1>6, <1>7 DEF ImageOK

-----------------------------------------------------------------------------
(* The commit of a candidate                                               *)

(* Recording a commit leaves all that is checked of the rows.              *)
LEMMA ImageSame ==
    ASSUME NEW t, NEW v, ImageOK(t, v), NEW new, SameBut(new, t, {"version", "commits"})
    PROVE  ImageOK(new, v)
<1>1. /\ new.refs = t.refs /\ new.live = t.live /\ new.snapshots = t.snapshots /\ new.files = t.files
      /\ new.lastSequence = t.lastSequence /\ new.schemas = t.schemas /\ new.fields = t.fields
      /\ new.currentSchema = t.currentSchema
  BY DEF SameBut, ImageFields
<1>2. /\ SnapshotsOK(t) /\ FilesOK(t) /\ RefsOK(t, v) /\ MembershipExact(t)
      /\ SchemasOK(t) /\ DescriptorsValid(t)
  BY DEF ImageOK
<1>3. SnapshotsOK(new) /\ FilesOK(new)
  BY <1>1, <1>2, SnapshotsSame
<1>4. RefsOK(new, v) /\ MembershipExact(new)
  BY <1>1, <1>2, RefsSame
<1>5. SchemasOK(new)
  BY <1>1, <1>2, SchemasSame DEF SchemasOK
<1>6. DescriptorsValid(new)
  BY <1>1, <1>2, DescriptorsStay
<1> QED
  BY <1>3, <1>4, <1>5, <1>6 DEF ImageOK

(* Image t of the operations on p, whose commit has not been recorded.     *)
Unrecorded(p, t) ==
    /\ Image(t) /\ t.version = p.version /\ t.commits = p.commits
    /\ p.version \in Nat /\ IsSequence(p.commits) /\ Len(p.commits) = p.version
    /\ CommitsPaired(p)
    /\ ImageOK(t, p.version + 1)
    /\ p.version + 1 \in DOMAIN t.snapshots => t.snapshots[p.version + 1].sequence = t.lastSequence

(* The key of a call that has not committed yet.                           *)
Fresh(p, key) == \A w \in 1..p.version : p.commits[w].key # key

LEMMA RecordedSound ==
    ASSUME NEW p, NEW t, Unrecorded(p, t), NEW commit, Fresh(p, commit.key),
           NEW new, new = RecordCommit(t, commit)
    PROVE  /\ Sound(new) /\ new.version = p.version + 1
           /\ new.commits[p.version + 1] =
                  [key |-> commit.key, operations |-> commit.operations, results |-> commit.results]
           /\ SameBut(new, t, {"version", "commits"})
<1> DEFINE row == [key |-> commit.key, operations |-> commit.operations, results |-> commit.results]
           n == p.version + 1
<1>1. /\ Image(t) /\ t.version = p.version /\ t.commits = p.commits
      /\ p.version \in Nat /\ IsSequence(p.commits) /\ Len(p.commits) = p.version
      /\ CommitsPaired(p) /\ ImageOK(t, n)
      /\ n \in DOMAIN t.snapshots => t.snapshots[n].sequence = t.lastSequence
  BY DEF Unrecorded
<1>2. /\ SameBut(new, t, {"version", "commits"}) /\ new.version = n
      /\ new.commits = Append(p.commits, row)
  BY <1>1, CommitRecorded
<1>3. row.key = commit.key
  OBVIOUS
<1> HIDE DEF row
<1>4. /\ Len(new.commits) = p.version + 1 /\ new.commits[p.version + 1] = row
      /\ \A w \in 1..p.version : new.commits[w] = p.commits[w]
  BY <1>1, <1>2, Appended
<1>5. ASSUME NEW u \in 1..n, NEW w \in 1..n, new.commits[u].key = new.commits[w].key
      PROVE  u = w
  <2>1. n \in Nat /\ \A i \in 1..n : i = n \/ i \in 1..p.version
    BY <1>1
  <2>2. \A i \in 1..p.version : new.commits[i].key # commit.key
    BY <1>4 DEF Fresh
  <2>3. new.commits[n].key = commit.key
    BY <1>3, <1>4
  <2>4. \A i, j \in 1..p.version : p.commits[i].key = p.commits[j].key => i = j
    BY <1>1 DEF CommitsPaired
  <2>5. CASE u \in 1..p.version /\ w \in 1..p.version
    BY <1>4, <1>5, <2>4, <2>5
  <2> HIDE DEF n
  <2>6. CASE u = n \/ w = n
    BY <1>5, <2>1, <2>2, <2>3, <2>6
  <2> QED
    BY <2>1, <2>5, <2>6
<1>6. CommitsPaired(new)
  BY <1>2, <1>4, <1>5 DEF CommitsPaired
<1>7. new.snapshots = t.snapshots /\ new.lastSequence = t.lastSequence
  BY <1>2 DEF SameBut, ImageFields
<1> HIDE DEF n
<1>8. ImageOK(new, n)
  BY <1>1, <1>2, ImageSame
<1>9. Sound(new)
  BY <1>1, <1>2, <1>6, <1>7, <1>8 DEF Sound
<1> QED
  BY <1>2, <1>4, <1>9 DEF n, row

(* validate_metrics refuses two metrics of one field: none is lost in the  *)
(* rows.                                                                   *)
LEMMA MetricsTold ==
    ASSUME NEW t, NEW metrics, IsSequence(metrics), MetricsValid(t, metrics)
    PROVE  Cardinality(Elements(metrics)) = Len(metrics)
<1> DEFINE n == Len(metrics)
           T == Elements(metrics)
           f == [i \in 1..n |-> metrics[i]]
<1>1. n \in Nat
  BY Appended
<1>2. f \in [1..n -> T] /\ \A x \in T : \E i \in 1..n : f[i] = x
  BY DEF Elements
<1>3. \A i, j \in 1..n : f[i] = f[j] => i = j
  BY DEF MetricsValid
<1> HIDE DEF n, T, f
<1>4. Cardinality(T) = n
  BY <1>1, <1>2, <1>3, Numbered
<1> QED
  BY <1>4 DEF T, n

(* What an append's commit says is what its image shows.                   *)
LEMMA AppendProjected ==
    ASSUME NEW p, NEW t, NEW r, NEW c, AppendAdds(p, t, r, c), p.version \in Nat,
           SnapshotsOK(t), FilesOK(p), MembershipExact(p), RefIs(p, r.ref, "branch"),
           p.currentSchema = r.schema, MetricsValid(p, r.metrics), IsSequence(r.metrics),
           NEW new, SameBut(new, t, {"version", "commits"}),
           NEW commit, commit.version = p.version + 1, Elements(commit.operations) = {AppendOf(p, r, c)}
    PROVE  SnapshotProjected(new, commit) /\ MetadataProjected(new, commit)
<1> DEFINE op == AppendOf(p, r, c)
           n == p.version + 1
           sequence == p.lastSequence + 1
           row == [ref |-> r.ref, file |-> c, snapshot |-> n, sequence |-> sequence]
           file == [schema |-> r.schema, sequence |-> sequence, snapshot |-> n, version |-> n,
                    metrics |-> Elements(r.metrics)]
<1>1. /\ op.type = "commit_snapshot" /\ op.target = r.ref
      /\ op.snapshot.id = n /\ op.snapshot.parent = p.refs[r.ref].snapshot
      /\ op.snapshot.sequence = sequence /\ op.snapshot.schema = r.schema
      /\ op.file.id = c /\ op.file.schema = r.schema /\ op.file.metrics = r.metrics
  BY DEF AppendOf
<1>2. Elements(commit.operations) = {op} /\ commit.version = n
  OBVIOUS
<1> HIDE DEF op
<1>3. /\ n \notin DOMAIN p.snapshots /\ c \notin DOMAIN p.files
      /\ DOMAIN t.snapshots = DOMAIN p.snapshots \cup {n}
      /\ t.snapshots[n].parent = p.refs[r.ref].snapshot /\ t.snapshots[n].sequence = sequence
      /\ t.snapshots[n].schema = r.schema /\ t.snapshots[n].version = n
      /\ t.snapshots[n].added = c
      /\ DOMAIN t.files = DOMAIN p.files \cup {c}
      /\ \A f \in DOMAIN p.files : t.files[f] = p.files[f]
      /\ t.files[c] = file
      /\ t.live = p.live \cup {row}
      /\ r.ref \in DOMAIN t.refs /\ t.refs[r.ref].snapshot = n /\ t.refs[r.ref].updated = n
  BY DEF AppendAdds, RefIs
<1>4. /\ new.snapshots = t.snapshots /\ new.files = t.files /\ new.live = t.live /\ new.refs = t.refs
  BY DEF SameBut, ImageFields
<1>5. /\ row.ref = r.ref /\ row.file = c
      /\ file.snapshot = n /\ file.version = n /\ file.metrics = Elements(r.metrics)
  OBVIOUS
<1>r. row = [ref |-> r.ref, file |-> c, snapshot |-> n, sequence |-> sequence]
  OBVIOUS
<1>f. file = [schema |-> r.schema, sequence |-> sequence, snapshot |-> n, version |-> n,
              metrics |-> file.metrics]
  OBVIOUS
<1> HIDE DEF n, sequence, row, file
<1>6. SnapshotRowProjected(new, commit, op)
  BY <1>1, <1>2, <1>3, <1>4 DEF SnapshotRowProjected
<1>7. ChangesProjected(new, commit, op)
  <2>1. \A f \in DOMAIN p.files : p.files[f].snapshot # n /\ p.files[f].version # n
    BY <1>3 DEF FilesOK
  <2>2. {f \in DOMAIN t.files : t.files[f].snapshot = n \/ t.files[f].version = n} = {c}
    BY <2>1, <1>3, <1>5
  <2> QED
    BY <2>2, <1>1, <1>2, <1>3, <1>4 DEF ChangesProjected
<1>8. FileProjected(new, commit, op)
  <2>1. \A x \in p.live : x.file # c
    BY <1>3 DEF MembershipExact
  <2>2. {x \in LiveRows(new, r.ref) : x.file = c} = {row}
    BY <2>1, <1>3, <1>4, <1>5 DEF LiveRows
  <2>3. new.files[c] = file
    BY <1>3, <1>4
  <2> QED
    BY <2>2, <2>3, <1>1, <1>2, <1>r, <1>f DEF FileProjected
<1>9. MetricsProjected(new, op)
  BY <1>1, <1>3, <1>4, <1>5, MetricsTold DEF MetricsProjected
<1>10. RefProjected(new, commit, op)
  BY <1>1, <1>2, <1>3, <1>4 DEF RefProjected
<1>11. {s \in DOMAIN new.snapshots : new.snapshots[s].version = commit.version} = {n}
  BY <1>2, <1>3, <1>4 DEF SnapshotsOK
<1>12. {x \in Elements(commit.operations) : x.type = "commit_snapshot"} = {op}
  BY <1>1, <1>2
<1>13. {x.snapshot.id : x \in {op}} = {n}
  BY <1>1
<1>14. SnapshotProjected(new, commit)
  BY <1>6, <1>7, <1>8, <1>9, <1>10, <1>11, <1>12, <1>13 DEF SnapshotProjected
<1>15. OperationProjected(new, commit.version, op)
  BY <1>1 DEF OperationProjected
<1> QED
  BY <1>2, <1>14, <1>15 DEF MetadataProjected

LEMMA AppendMade ==
    ASSUME NEW p, NEW asked, TableOK(p, asked), Sound(p), NEW r, r.kind = "append", IsSequence(r.metrics),
           NEW seen, NEW b, Allowed(p, seen, b, r), NEW c, Fresh(p, c),
           NEW t, t = Apply(p, AppendOf(p, r, c)),
           NEW commit, commit = CommitMade(p, seen, r, c), NEW new, new = RecordCommit(t, commit)
    PROVE  Sound(new) /\ Follows(p, new, commit)
<1> DEFINE n == p.version + 1
<1>1. /\ Image(p) /\ p.version \in Nat /\ IsSequence(p.commits) /\ Len(p.commits) = p.version
      /\ DOMAIN p.snapshots \subseteq 1..p.version
  BY DEF TableOK
<1>2. /\ RefIs(p, r.ref, "branch") /\ r.ref \in DOMAIN p.refs
      /\ p.currentSchema = r.schema /\ MetricsValid(p, r.metrics)
  BY DEF Allowed, RefIs
<1>3. /\ ImageOK(p, p.version) /\ CommitsPaired(p)
      /\ FilesOK(p) /\ MembershipExact(p)
  BY DEF Sound, ImageOK
<1>4. c \notin DOMAIN p.files
  <2> SUFFICES ASSUME c \in DOMAIN p.files PROVE FALSE
    OBVIOUS
  <2> DEFINE s == p.files[c].snapshot
  <2>1. s \in DOMAIN p.snapshots /\ p.snapshots[s].added = c
    BY <1>3 DEF FilesOK
  <2>2. c = p.commits[s].key
    BY <2>1 DEF TableOK, SnapshotOK
  <2> QED
    BY <1>1, <2>1, <2>2 DEF Fresh
<1>5. AppendAdds(p, t, r, c)
  BY <1>1, <1>2, <1>4, AppendAddsRows
<1>6. ImageOK(t, n)
  BY <1>1, <1>2, <1>3, <1>5, AppendOK
<1>7. Image(t)
  <2>1. AppendEffect(p, t, c, r.schema)
    BY <1>1, <1>2, AppendChanges
  <2> QED
    BY <2>1 DEF AppendEffect
<1>8. Unrecorded(p, t)
  <2>1. t.version = p.version /\ t.commits = p.commits /\ t.snapshots[n].sequence = t.lastSequence
    BY <1>5 DEF AppendAdds
  <2> QED
    BY <2>1, <1>1, <1>3, <1>6, <1>7 DEF Unrecorded
<1>9. /\ commit.version = n /\ commit.key = c
      /\ commit.requirements = {[type |-> "current_schema_is", schema |-> r.schema]}
      /\ commit.operations = OperationsOf(p, r, c)
  BY DEF CommitMade
<1>10. /\ Sound(new) /\ new.version = n
       /\ new.commits[n] =
              [key |-> commit.key, operations |-> commit.operations, results |-> commit.results]
       /\ SameBut(new, t, {"version", "commits"})
  BY <1>8, <1>9, RecordedSound
<1>11. /\ Elements(commit.operations) = {AppendOf(p, r, c)}
       /\ commit.operations[1] = AppendOf(p, r, c)
  BY <1>9, OneOperation
<1>12. SnapshotProjected(new, commit) /\ MetadataProjected(new, commit)
  BY <1>1, <1>2, <1>3, <1>5, <1>6, <1>9, <1>10, <1>11, AppendProjected DEF ImageOK
<1>13. CommitProjected(new, commit)
  BY <1>9, <1>10, <1>12 DEF CommitProjected
<1>14. ReplayCommit(p, commit) = new
  <2>1. \A q \in commit.requirements : Evaluate(p, q)
    <3> DEFINE asks == [type |-> "current_schema_is", schema |-> r.schema]
    <3>1. asks.type = "current_schema_is" /\ asks.schema = r.schema
      OBVIOUS
    <3> HIDE DEF asks
    <3>2. Evaluate(p, asks)
      BY <1>2, <3>1 DEF Evaluate
    <3> QED
      BY <1>9, <3>2 DEF asks
  <2>2. commit.operations[1].type = "commit_snapshot"
    BY <1>11 DEF AppendOf
  <2>3. ReplayAppend(p, commit) = new
    BY <1>11 DEF ReplayAppend
  <2> QED
    BY <1>9, <2>1, <2>2, <2>3 DEF ReplayCommit
<1>15. new.files = t.files /\ new.snapshots = t.snapshots
  BY <1>10 DEF SameBut, ImageFields
<1>16. FilesKept(p, new) /\ DOMAIN new.snapshots \subseteq DOMAIN p.snapshots \cup {new.version}
  BY <1>5, <1>10, <1>15 DEF AppendAdds, FilesKept
<1> QED
  BY <1>10, <1>13, <1>14, <1>16 DEF Follows

-----------------------------------------------------------------------------
(* Replaying a transaction                                                 *)

(* What the recursion of ApplyAll says of the images it goes through.      *)
AfterEach(after, p, ops) ==
    after = [i \in 0..Len(ops) |->
               IF i = 0 THEN p
               ELSE LET before == after[i - 1]
                    IN  IF before = NotReplayed \/ ~Applicable(before, ops[i]) THEN NotReplayed
                        ELSE Apply(before, ops[i])]

LEMMA ApplyAllIs ==
    ASSUME NEW p, NEW ops
    PROVE  ApplyAll(p, ops) = (CHOOSE after : AfterEach(after, p, ops))[Len(ops)]
  BY DEF ApplyAll, AfterEach

LEMMA ReplayedAll ==
    ASSUME NEW p, NEW t, NEW ops, Len(ops) \in Nat, NEW g, Stepwise(g, p, t, Len(ops), ops)
    PROVE  ApplyAll(p, ops) = t
<1> DEFINE n == Len(ops)
           next(before, i) == IF before = NotReplayed \/ ~Applicable(before, ops[i]) THEN NotReplayed
                              ELSE Apply(before, ops[i])
           all == CHOOSE after : AfterEach(after, p, ops)
           start == [i \in 0..n |-> g[i]]
<1>1. /\ n \in Nat /\ g[0] = p /\ g[n] = t
      /\ \A i \in 1..n : g[i] = next(g[i - 1], i)
  BY DEF Stepwise
<1>2. ASSUME NEW after
      PROVE  AfterEach(after, p, ops) <=>
                 after = [i \in 0..n |-> IF i = 0 THEN p ELSE next(after[i - 1], i)]
  BY DEF AfterEach
<1> HIDE DEF next, n
<1>3. start = [i \in 0..n |-> IF i = 0 THEN p ELSE next(start[i - 1], i)]
  <2>1. ASSUME NEW i \in 0..n
        PROVE  g[i] = IF i = 0 THEN p ELSE next(start[i - 1], i)
    <3>1. CASE i = 0
      BY <3>1, <1>1
    <3>2. CASE i # 0
      <4>1. i \in 1..n /\ i - 1 \in 0..n
        BY <3>2, <1>1
      <4>2. start[i - 1] = g[i - 1]
        BY <4>1
      <4> QED
        BY <3>2, <4>1, <4>2, <1>1
    <3> QED
      BY <3>1, <3>2
  <2> DEFINE e(i) == IF i = 0 THEN p ELSE next(start[i - 1], i)
  <2>2. \A i \in 0..n : g[i] = e(i)
    BY <2>1
  <2> HIDE DEF e
  <2>3. start = [i \in 0..n |-> e(i)]
    BY <2>2
  <2> QED
    BY <2>3 DEF e
<1> HIDE DEF start
<1>4. AfterEach(all, p, ops)
  <2>1. AfterEach(start, p, ops)
    BY <1>2, <1>3
  <2> QED
    BY <2>1
<1> HIDE DEF all
<1>5. \A i \in 0..n : all[i] = IF i = 0 THEN p ELSE next(all[i - 1], i)
  BY <1>2, <1>4
<1>6. all[n] = g[n]
  <2> DEFINE S == {i \in 0..n : all[i] = g[i]}
  <2>1. 0 \in S
    BY <1>1, <1>5
  <2>2. ASSUME NEW i \in 1..n, i - 1 \in S
        PROVE  i \in S
    <3>1. i \in 0..n /\ i # 0 /\ all[i - 1] = g[i - 1]
      BY <1>1, <2>2
    <3> QED
      BY <3>1, <1>1, <1>5
  <2> HIDE DEF S
  <2>3. 0..n \subseteq S
    BY <1>1, <2>1, <2>2, UpTo
  <2>4. n \in S
    BY <1>1, <2>3
  <2> QED
    BY <2>4 DEF S
<1> QED
  BY <1>1, <1>6, ApplyAllIs DEF all, n

(* Recording a commit leaves what shows of an operation.                   *)
LEMMA SameProjected ==
    ASSUME NEW t, NEW new, SameBut(new, t, {"version", "commits"}), NEW v, NEW op,
           op.type \in MetadataOperations, OperationProjected(t, v, op)
    PROVE  OperationProjected(new, v, op)
<1>1. /\ new.refs = t.refs /\ new.schemas = t.schemas /\ new.fields = t.fields
      /\ new.currentSchema = t.currentSchema /\ new.properties = t.properties
  BY DEF SameBut, ImageFields
<1>2. \A id : RowsOfSchema(new, id) = RowsOfSchema(t, id)
  BY <1>1 DEF RowsOfSchema
<1>3. \A id : ReadSchema(new, id) = ReadSchema(t, id)
  BY <1>1, <1>2, SameSchema
<1>4. \A x, type : RefIs(new, x, type) <=> RefIs(t, x, type)
  BY <1>1 DEF RefIs
<1> QED
  BY <1>1, <1>3, <1>4 DEF OperationProjected, MetadataOperations

LEMMA TransactionMade ==
    ASSUME NEW p, NEW asked, TableOK(p, asked), Sound(p), NEW r, r.kind # "append", RequestOK(r),
           NEW seen, NEW b, Allowed(p, seen, b, r), NEW c, Fresh(p, c),
           NEW t, Derived(p, t, Elements(r.operations)), Partly(p, t, Len(r.operations), r.operations),
           NEW commit, commit = CommitMade(p, seen, r, c), NEW new, new = RecordCommit(t, commit)
    PROVE  Sound(new) /\ Follows(p, new, commit)
<1> DEFINE n == p.version + 1
           ops == r.operations
<1>1. /\ Image(p) /\ p.version \in Nat /\ IsSequence(p.commits) /\ Len(p.commits) = p.version
      /\ DOMAIN p.snapshots \subseteq 1..p.version
  BY DEF TableOK
<1>2. /\ IsSequence(ops) /\ OperationsAccepted(p, PreparedFrom(seen, ops), ops)
      /\ \A op \in Elements(ops) : op.type \in MetadataOperations
  BY DEF RequestOK, Allowed
<1>3. Len(ops) \in Nat /\ ops # <<>>
  BY <1>2, Appended DEF OperationsAccepted, WellFormed
<1>4. Len(ops) # 0
  <2>1. PICK S : ops \in Seq(S)
    BY <1>2 DEF IsSequence
  <2> QED
    BY <1>3, <2>1
<1>5. /\ Image(t) /\ t.version = p.version /\ t.commits = p.commits
      /\ t.snapshots = p.snapshots /\ t.files = p.files
  BY DEF Derived
<1>6. /\ ImageOK(t, n) /\ SnapshotsOK(t)
      /\ \A op \in Elements(ops) : OperationProjected(t, n, op)
  BY DEF Partly, ImageOK, Done, Elements
<1>n. n \notin DOMAIN p.snapshots
  BY <1>1
<1>7. Unrecorded(p, t)
  BY <1>1, <1>5, <1>6, <1>n DEF Unrecorded, Sound
<1>8. /\ commit.version = n /\ commit.key = c
      /\ commit.requirements = PreparedFrom(seen, ops)
      /\ commit.operations = ops /\ commit.results = Results(p, ops)
  BY DEF CommitMade, OperationsOf
<1>9. /\ Sound(new) /\ new.version = n
      /\ new.commits[n] =
             [key |-> commit.key, operations |-> commit.operations, results |-> commit.results]
      /\ SameBut(new, t, {"version", "commits"})
  BY <1>7, <1>8, RecordedSound
<1>10. new.snapshots = p.snapshots /\ new.files = p.files
  BY <1>5, <1>9 DEF SameBut, ImageFields
<1> HIDE DEF n, ops
<1>11. SnapshotProjected(new, commit)
  <2>1. {op \in Elements(commit.operations) : op.type = "commit_snapshot"} = {}
    BY <1>2, <1>8 DEF MetadataOperations
  <2>2. {s \in DOMAIN new.snapshots : new.snapshots[s].version = commit.version} = {}
    BY <1>5, <1>6, <1>8, <1>10, <1>n DEF SnapshotsOK
  <2> QED
    BY <2>1, <2>2 DEF SnapshotProjected
<1>12. MetadataProjected(new, commit)
  <2>1. \A op \in Elements(ops) : OperationProjected(new, n, op)
    BY <1>2, <1>6, <1>9, SameProjected
  <2> QED
    BY <1>8, <2>1 DEF MetadataProjected
<1>13. CommitProjected(new, commit)
  BY <1>8, <1>9, <1>11, <1>12 DEF CommitProjected
<1>14. ReplayCommit(p, commit) = new
  <2>1. \A q \in commit.requirements : Evaluate(p, q)
    BY <1>2, <1>8 DEF OperationsAccepted
  <2>2. commit.operations[1].type # "commit_snapshot"
    <3>1. ops[1] \in Elements(ops)
      BY <1>3, <1>4 DEF Elements
    <3> QED
      BY <1>2, <1>8, <3>1 DEF MetadataOperations
  <2>3. ApplyAll(p, ops) = t
    <3>1. PICK g : Stepwise(g, p, t, Len(ops), ops)
      BY DEF Partly, ops
    <3> QED
      BY <1>3, <3>1, ReplayedAll
  <2>4. t # NotReplayed
    BY <1>5, ImageReplayed
  <2>5. ReplayMetadata(p, commit) = new
    BY <1>2, <1>8, <2>3, <2>4 DEF ReplayMetadata
  <2> QED
    BY <1>8, <2>1, <2>2, <2>5 DEF ReplayCommit, n
<1>15. FilesKept(p, new) /\ DOMAIN new.snapshots \subseteq DOMAIN p.snapshots \cup {new.version}
  BY <1>10 DEF FilesKept
<1> QED
  BY <1>9, <1>13, <1>14, <1>15 DEF Follows

(* The commit object of a candidate is that of its call on its parent.     *)
LEMMA CommitIs ==
    ASSUME NEW p, NEW c
    PROVE  SemanticCommit(p, c) = CommitMade(p, At(base[c]), request[c], c)
<1>1. Operations(p, c) = OperationsOf(p, request[c], c)
  BY OperationsSame
<1>2. Prepared(c) = PreparedFrom(At(base[c]), request[c].operations)
  BY DEF Prepared, PreparedFrom
<1> QED
  BY <1>1, <1>2 DEF SemanticCommit, CommitMade, IsAppend

(* A sound image of a version is valid.                                    *)
LEMMA SoundIsValid ==
    ASSUME NEW t, NEW asked, TableOK(t, asked), Sound(t)
    PROVE  ValidImage(t)
<1>1. /\ SnapshotsOK(t) /\ FilesOK(t) /\ RefsOK(t, t.version) /\ MembershipExact(t)
      /\ SchemasOK(t) /\ DescriptorsValid(t) /\ CommitsPaired(t)
  BY DEF Sound, ImageOK
<1>2. SequencesDense(t)
  BY <1>1 DEF SnapshotsOK
<1>3. DOMAIN t.snapshots \subseteq 1..t.version
  BY DEF TableOK
<1>4. ParentsOlder(t)
  BY <1>1, <1>3 DEF SnapshotsOK, ParentsOlder
<1>5. RefsValid(t)
  BY <1>1 DEF RefsOK, RefsValid
<1>6. SchemasValid(t) /\ t.currentSchema \in DOMAIN t.schemas
  BY <1>1, SchemasAccepted DEF SchemasOK
<1> QED
  BY <1>1, <1>2, <1>4, <1>5, <1>6 DEF ValidImage

(* No call that is still at work has committed.                            *)
LEMMA NotCommitted ==
    ASSUME Inv, NEW c \in Calls, pc[c] # "committed", NEW v \in Versions
    PROVE  Fresh(At(v), c)
<1> SUFFICES ASSUME NEW w \in 1..v PROVE At(v).commits[w].key # c
  BY DEF Fresh, Inv, VersionsOK
<1>1. w \in Versions \ {0}
  BY LastVersion DEF Inv, Versions, ShapeOK
<1>2. At(v).commits[w] = At(w).commits[w]
  BY DEF Inv, VersionsOK
<1>3. pc[At(w).commits[w].key] = "committed"
  BY <1>1 DEF Inv, CommitsOK
<1> QED
  BY <1>2, <1>3

(* CandidatesValid is what the stronger invariant says of candidates.      *)
LEMMA RebuiltIsPinnable ==
    ASSUME Inv, NEW c \in Calls, pc[c] = "built", Rebuilt(c)
    PROVE  Pinnable(cand[c], Commit(c))
<1> DEFINE p == At(cand[c].version - 1)
<1>1. TableOK(cand[c], request)
  BY DEF Inv, CandidateOK, Finished, CommitOK
<1>2. Commit(c) = CommitMade(p, At(base[c]), request[c], c)
  BY CommitIs DEF Commit, Parent
<1>3. Sound(cand[c]) /\ CommitProjected(cand[c], Commit(c))
  BY <1>2 DEF Rebuilt, Follows
<1> QED
  BY <1>1, <1>3, SoundIsValid DEF Pinnable

-----------------------------------------------------------------------------
(* Every version and every candidate passes                                *)

LEMMA GenesisSound == Sound(Genesis)
<1> DEFINE t == Genesis
<1>1. /\ t.version = 0 /\ t.commits = <<>> /\ DOMAIN t.snapshots = {} /\ DOMAIN t.files = {}
      /\ t.live = {} /\ t.lastSequence = 0
      /\ DOMAIN t.refs = {"main"} /\ t.refs["main"].type = "branch"
      /\ t.refs["main"].snapshot = NoSnapshot
      /\ t.refs["main"].created = 0 /\ t.refs["main"].updated = 0
      /\ DOMAIN t.schemas = {GenesisSchema.id} /\ t.schemas[GenesisSchema.id] = NoSchema
      /\ t.fields = FieldRows(GenesisSchema) /\ t.currentSchema = GenesisSchema.id
  BY DEF Genesis
<1> HIDE DEF t
<1>2. SnapshotsOK(t)
  <2>1. Cardinality(DOMAIN t.snapshots) = 0 /\ IsFiniteSet(DOMAIN t.snapshots)
    BY <1>1, FS_EmptySet
  <2>2. {t.snapshots[s].sequence : s \in DOMAIN t.snapshots} = 1..0
    BY <1>1
  <2> QED
    BY <1>1, <2>1, <2>2 DEF SnapshotsOK, SequencesDense
<1>3. FilesOK(t) /\ DescriptorsValid(t)
  BY <1>1 DEF FilesOK, DescriptorsValid
<1>4. RefsOK(t, 0)
  BY <1>1 DEF RefsOK, RefIs
<1>5. MembershipExact(t)
  <2>1. Ancestry(t, NoSnapshot) = {}
    BY <1>2, SnapshotsHaveParents, AncestryEquation
  <2>2. Membership(t, "main", NoSnapshot) = {}
    BY <2>1 DEF Membership
  <2>3. LiveRows(t, "main") = {}
    BY <1>1 DEF LiveRows
  <2> QED
    BY <1>1, <2>2, <2>3 DEF MembershipExact
<1>6. SchemasOK(t)
  <2> DEFINE schema == GenesisSchema
  <2>1. schema \in Schema /\ SchemaValid(schema) /\ schema.parent = NoSchema
    BY GenesisSchemaAssumption DEF NoSchema
  <2>2. RowsOfSchema(t, schema.id) = FieldRows(schema)
    BY <1>1, RowsIn DEF RowsOfSchema
  <2>3. ReadSchema(t, schema.id) = schema
    BY <1>1, <2>1, <2>2, ReadsBack
  <2> QED
    BY <1>1, <2>1, <2>2, <2>3 DEF SchemasOK
<1>7. CommitsPaired(t)
  <2>1. Len(t.commits) = 0
    BY <1>1
  <2> QED
    BY <1>1, <2>1 DEF CommitsPaired
<1>8. Sound(t)
  BY <1>1, <1>2, <1>3, <1>4, <1>5, <1>6, <1>7 DEF Sound, ImageOK
<1> QED
  BY <1>8 DEF t

LEMMA InitChecked == Init => Checked
<1> SUFFICES ASSUME Init PROVE Checked
  OBVIOUS
<1>1. /\ Len(history) = 1 /\ history[1] = Genesis
      /\ IsSequence(semantic) /\ Len(semantic) = 0
  <2>1. semantic \in Seq({}) /\ Len(semantic) = 0
    BY DEF Init
  <2>2. Len(history) = 1 /\ history[1] = Genesis
    BY DEF Init
  <2> QED
    BY <2>1, <2>2 DEF IsSequence
<1>2. Versions = {0} /\ At(0) = Genesis /\ Current = Genesis
  BY <1>1 DEF Versions, At, Current
<1>3. DOMAIN Genesis.snapshots = {}
  BY DEF Genesis
<1>4. HistorySound
  BY <1>2, <1>3, GenesisSound DEF HistorySound, FilesKept
<1>5. \A c \in Calls : CandidateSound(c)
  BY DEF Init, CandidateSound
<1> QED
  BY <1>1, <1>4, <1>5 DEF Checked, CommitsShaped

(* A step of c that publishes nothing.                                     *)
LEMMA UnpublishedChecked ==
    ASSUME Checked, NEW c \in Calls,
           history' = history, semantic' = semantic, request' = request,
           \A d \in Calls \ {c} : /\ pc'[d] = pc[d] /\ base'[d] = base[d]
                                  /\ cand'[d] = cand[d] /\ applied'[d] = applied[d],
           CandidateSound(c)'
    PROVE  Checked'
<1>1. CommitsShaped'
  BY DEF Checked, CommitsShaped
<1>2. HistorySound'
  BY DEF Checked, HistorySound, Versions, At, Current
<1>3. \A d \in Calls \ {c} : CandidateSound(d)'
  BY DEF Checked, CandidateSound, Rebuilt, IsAppend, At
<1> QED
  BY <1>1, <1>2, <1>3 DEF Checked

LEMMA NoCandidateChecked ==
    ASSUME Inv, Checked, NEW c \in Calls, Prepare(c) \/ Reject(c) \/ ApplyFails(c) \/ Conflict(c)
    PROVE  Checked'
<1>1. /\ history' = history /\ semantic' = semantic /\ request' = request
      /\ pc'[c] \in {"prepared", "rejected"}
  BY DEF Prepare, Reject, ApplyFails, Conflict, Goto, Inv, ShapeOK
<1>2. \A d \in Calls \ {c} : /\ pc'[d] = pc[d] /\ base'[d] = base[d]
                             /\ cand'[d] = cand[d] /\ applied'[d] = applied[d]
  BY DEF Prepare, Reject, ApplyFails, Conflict, Goto, Inv, ShapeOK
<1>3. CandidateSound(c)'
  BY <1>1 DEF CandidateSound
<1> QED
  BY <1>1, <1>2, <1>3, UnpublishedChecked

LEMMA BeginChecked ==
    ASSUME Inv, Checked, NEW c \in Calls, Begin(c)
    PROVE  Checked'
<1>1. /\ history' = history /\ semantic' = semantic /\ request' = request
      /\ pc'[c] = "build" /\ cand'[c] = Current /\ applied'[c] = 0
      /\ \A d \in Calls \ {c} : /\ pc'[d] = pc[d] /\ base'[d] = base[d]
                                /\ cand'[d] = cand[d] /\ applied'[d] = applied[d]
  BY DEF Begin, Goto, Inv, ShapeOK
<1>2. PICK v \in Versions : Current = At(v)
  BY LastVersion DEF Inv
<1>3. Current.version = v /\ v \in Nat /\ Sound(Current)
  BY <1>2, LastVersion DEF Inv, VersionsOK, Checked, HistorySound
<1>4. Partly(Current, Current, 0, request[c].operations)
  BY <1>3, PartlyBegun DEF Sound
<1>5. At(cand[c].version)' = Current
  BY <1>1, <1>2, <1>3 DEF At
<1>6. CandidateSound(c)'
  BY <1>1, <1>4, <1>5 DEF CandidateSound
<1> QED
  BY <1>1, <1>6, UnpublishedChecked

LEMMA ApplyNextChecked ==
    ASSUME Inv, Checked, NEW c \in Calls, ApplyNext(c)
    PROVE  Checked'
<1> DEFINE t == cand[c]
           p == At(cand[c].version)
           n == applied[c]
           ops == request[c].operations
<1>1. /\ pc[c] = "build" /\ pc' = pc /\ base' = base
      /\ history' = history /\ semantic' = semantic /\ request' = request
      /\ \A d \in Calls \ {c} : cand'[d] = cand[d] /\ applied'[d] = applied[d]
      /\ applied'[c] = n + 1
  BY DEF ApplyNext, Inv, ShapeOK
<1>2. ASSUME ~IsAppend(c)
      PROVE  Partly(p, cand'[c], n + 1, ops) /\ cand'[c].version = t.version
  <2>1. Operations(Parent(c), c) = ops /\ Parent(c) = p
    BY <1>1, <1>2 DEF Operations, Parent
  <2>2. n < Len(ops) /\ Applicable(t, ops[n + 1]) /\ cand'[c] = Apply(t, ops[n + 1])
    BY <2>1 DEF ApplyNext, NextOperation, Inv, ShapeOK
  <2>3. Unfinished(c) /\ RequestOK(request[c]) /\ request[c].kind # "append"
    BY <1>1, <1>2, RequestsOK DEF Inv, CandidateOK, ShapeOK, IsAppend
  <2>4. /\ t.version \in Versions /\ OperationsAccepted(p, PreparedFrom(At(base[c]), ops), ops)
        /\ n \in 0..Len(ops) /\ Derived(p, t, Done(ops, n))
    BY <2>3 DEF Unfinished, Building, Allowed, OperationsOf
  <2>5. IsSequence(ops) /\ Len(ops) \in Nat /\ n \in Nat
    BY <2>3, <2>4, Appended DEF RequestOK
  <2>6. p.version \in Nat
    BY <2>4 DEF Inv, VersionsOK, TableOK
  <2>7. \A op \in Elements(ops) :
            /\ op.type \in MetadataOperations
            /\ op.type = "add_schema" => op.schema \in Schema
            /\ \A q \in Required(p, op) : Evaluate(p, q)
            /\ Permitted(p, op)
    BY <2>3, <2>4, RequirementsHold DEF RequestOK
  <2>8. WellFormed(ops)
    BY <2>4 DEF OperationsAccepted
  <2>9. Partly(p, t, n, ops)
    BY <1>1, <1>2 DEF Checked, CandidateSound
  <2> HIDE DEF t, p, n, ops
  <2>10. Due(p, t, n, ops)
    BY <2>2, <2>4, <2>5, <2>6, <2>7, <2>8 DEF Due
  <2>11. Partly(p, cand'[c], n + 1, ops)
    BY <2>2, <2>9, <2>10, PartlyNext
  <2>12. ops[n + 1].type \in MetadataOperations
    BY <2>2, <2>5, <2>7 DEF Elements
  <2>13. Image(t)
    BY <2>4 DEF Derived
  <2> QED
    BY <2>2, <2>11, <2>12, <2>13, OperationKeeps
<1>3. ~IsAppend(c) => At(cand[c].version)' = p
  BY <1>1, <1>2 DEF At
<1>4. CandidateSound(c)'
  BY <1>1, <1>2, <1>3 DEF CandidateSound, IsAppend
<1> QED
  BY <1>1, <1>4, UnpublishedChecked

LEMMA FinishChecked ==
    ASSUME Inv, Checked, NEW c \in Calls, Finish(c)
    PROVE  Checked'
<1> DEFINE t == cand[c]
           v == cand[c].version
           p == At(v)
           r == request[c]
           seen == At(base[c])
           commit == CommitMade(p, seen, r, c)
           new == RecordCommit(t, commit)
<1>1. /\ pc[c] = "build" /\ pc'[c] = "built"
      /\ history' = history /\ semantic' = semantic /\ request' = request /\ base' = base
      /\ applied' = applied /\ cand'[c] = RecordCommit(t, Commit(c))
      /\ \A d \in Calls \ {c} : cand'[d] = cand[d] /\ pc'[d] = pc[d]
  BY DEF Finish, Goto, Inv, ShapeOK
<1>2. Parent(c) = p
  BY <1>1 DEF Parent
<1>3. cand'[c] = new
  BY <1>1, <1>2, CommitIs DEF Commit
<1>4. applied[c] = Len(OperationsOf(p, r, c))
  BY <1>2, OperationsSame DEF Finish
<1>5. Unfinished(c) /\ RequestOK(r)
  BY <1>1, RequestsOK DEF Inv, CandidateOK, ShapeOK
<1>6. /\ v \in Versions /\ p.version = v /\ TableOK(p, request) /\ Sound(p)
      /\ Allowed(p, seen, base[c], r) /\ Building(p, t, Len(OperationsOf(p, r, c)), r, c)
  BY <1>4, <1>5 DEF Unfinished, Inv, VersionsOK, Checked, HistorySound
<1>7. Fresh(p, c)
  BY <1>1, <1>6, NotCommitted
<1>8. v \in Nat
  BY <1>6 DEF TableOK
<1> HIDE DEF commit, new
<1>c. commit = CommitMade(p, seen, r, c) /\ new = RecordCommit(t, commit)
  BY DEF commit, new
<1>9. Sound(new) /\ Follows(p, new, commit)
  <2>1. CASE r.kind = "append"
    <3>1. t = Apply(p, AppendOf(p, r, c)) /\ IsSequence(r.metrics)
      BY <2>1, <1>5, <1>6, OneOperation DEF Building, RequestOK
    <3> HIDE DEF t, p, seen, r
    <3> QED
      BY <2>1, <3>1, <1>6, <1>7, <1>c, AppendMade
  <2>2. CASE r.kind # "append"
    <3>1. OperationsOf(p, r, c) = r.operations
      BY <2>2 DEF OperationsOf
    <3>2. Derived(p, t, Elements(r.operations))
      BY <2>2, <3>1, <1>6 DEF Building, Done, Elements
    <3>3. Partly(p, t, Len(r.operations), r.operations)
      BY <2>2, <3>1, <1>1, <1>4 DEF Checked, CandidateSound, IsAppend
    <3> HIDE DEF t, p, seen, r
    <3> QED
      BY <2>2, <3>2, <3>3, <1>5, <1>6, <1>7, <1>c, TransactionMade
  <2> QED
    BY <2>1, <2>2
<1>10. new.version - 1 = v
  <2>1. new.version = commit.version
    BY <1>9 DEF Follows, CommitProjected
  <2>2. commit.version = p.version + 1
    BY DEF commit, CommitMade
  <2> QED
    BY <1>6, <1>8, <2>1, <2>2
<1>11. Rebuilt(c)'
  BY <1>1, <1>3, <1>9, <1>10 DEF Rebuilt, At, commit
<1>12. CandidateSound(c)'
  BY <1>1, <1>11 DEF CandidateSound
<1> QED
  BY <1>1, <1>12, UnpublishedChecked

LEMMA PublishChecked ==
    ASSUME Inv, Checked, NEW c \in Calls, Publish(c)
    PROVE  Checked'
<1> DEFINE n == Len(history)
           t == cand[c]
           p == At(n - 1)
           commit == CommitMade(p, At(base[c]), request[c], c)
<1>1. /\ pc[c] = "built" /\ pc'[c] = "committed"
      /\ request' = request /\ base' = base /\ applied' = applied
      /\ history' = Append(history, t) /\ semantic' = Append(semantic, Commit(c)) /\ t.version = n
      /\ \A d \in Calls \ {c} : cand'[d] = cand[d] /\ pc'[d] = pc[d]
  BY DEF Publish, Goto, Inv, ShapeOK
<1>2. /\ n \in Nat \ {0} /\ Len(history') = n + 1 /\ history'[n + 1] = t
      /\ \A i \in 1..n : history'[i] = history[i]
  BY <1>1, Appended DEF Inv, ShapeOK
<1>3. /\ Versions = 0..(n - 1) /\ Versions' = 0..n /\ Current' = t /\ Current = p
      /\ \A v \in Versions : history'[v + 1] = At(v)
  <2>1. Versions = 0..(n - 1) /\ Versions' = 0..((n + 1) - 1)
    BY <1>2 DEF Versions
  <2>2. Current' = t /\ Current = p
    BY <1>2 DEF Current, At
  <2>3. \A v \in Versions : history'[v + 1] = At(v)
    BY <1>2, <2>1 DEF At
  <2> QED
    BY <1>2, <2>1, <2>2, <2>3
<1>4. Commit(c) = commit /\ Sound(t) /\ Follows(p, t, commit)
  <2>1. Rebuilt(c)
    BY <1>1 DEF Checked, CandidateSound
  <2> QED
    BY <1>1, <2>1, CommitIs DEF Rebuilt, Commit, Parent
<1>5. /\ IsSequence(semantic') /\ Len(semantic') = n /\ semantic'[n] = commit
      /\ \A i \in 1..(n - 1) : semantic'[i] = semantic[i]
  <2>1. IsSequence(semantic) /\ Len(semantic) = n - 1
    BY DEF Checked, CommitsShaped
  <2>2. semantic' = Append(semantic, commit)
    BY <1>1, <1>4
  <2> HIDE DEF commit, n
  <2>3. /\ IsSequence(semantic') /\ Len(semantic') = (n - 1) + 1 /\ semantic'[(n - 1) + 1] = commit
        /\ \A i \in 1..(n - 1) : semantic'[i] = semantic[i]
    BY <2>1, <2>2, Appended
  <2> QED
    BY <1>2, <2>3
<1> HIDE DEF n, t, p, commit
<1>p. n - 1 \in Versions /\ p = At(n - 1) /\ 0 \in Versions
  BY <1>2, <1>3 DEF p
<1>6. CommitsShaped'
  BY <1>2, <1>5 DEF CommitsShaped
<1>7. /\ \A v \in Versions : At(v)' = At(v)
      /\ \A v : v = n => At(v)' = t
  BY <1>2, <1>3 DEF At
<1>8. \A v \in Versions' : v = n \/ (v \in Versions /\ v \in Nat /\ v < n)
  BY <1>2, <1>3
<1>9. At(0)' = Genesis
  BY <1>7, <1>p DEF Checked, HistorySound
<1>10. ASSUME NEW v \in Versions'
       PROVE  Sound(At(v)')
  <2>1. CASE v = n
    BY <2>1, <1>4, <1>7
  <2>2. CASE v \in Versions
    BY <2>2, <1>7 DEF Checked, HistorySound
  <2> QED
    BY <1>8, <2>1, <2>2
<1>11. ASSUME NEW v \in Versions' \ {0}
       PROVE  Follows(At(v - 1)', At(v)', semantic'[v])
  <2>1. CASE v = n
    <3>1. At(v - 1)' = p
      BY <2>1, <1>7, <1>p
    <3> QED
      BY <2>1, <3>1, <1>4, <1>5, <1>7
  <2>2. CASE v \in Versions
    <3>1. v - 1 \in Versions /\ v \in 1..(n - 1)
      BY <2>2, <1>2, <1>3
    <3>2. Follows(At(v - 1), At(v), semantic[v])
      BY <2>2 DEF Checked, HistorySound
    <3> QED
      BY <2>2, <3>1, <3>2, <1>5, <1>7
  <2> QED
    BY <1>8, <2>1, <2>2
<1>12. ASSUME NEW v \in Versions'
       PROVE  FilesKept(At(v)', t)
  <2>1. CASE v = n
    BY <2>1, <1>7 DEF FilesKept
  <2>2. CASE v \in Versions
    <3>1. FilesKept(At(v), p)
      BY <2>2, <1>3 DEF Checked, HistorySound
    <3>2. FilesKept(p, t)
      BY <1>4 DEF Follows
    <3>3. FilesKept(At(v), t)
      BY <3>1, <3>2 DEF FilesKept
    <3> QED
      BY <2>2, <3>3, <1>7
  <2> QED
    BY <1>8, <2>1, <2>2
<1>13. ASSUME NEW v \in Versions', NEW s \in DOMAIN t.snapshots, s <= v
       PROVE  s \in DOMAIN At(v)'.snapshots
  <2>1. CASE v = n
    BY <2>1, <1>7
  <2>2. CASE v \in Versions /\ v \in Nat /\ v < n
    <3>1. s \in DOMAIN p.snapshots \cup {n}
      BY <1>1, <1>4 DEF Follows, t
    <3>2. s # n
      BY <1>13, <2>2, <1>2
    <3>3. s \in DOMAIN At(v).snapshots
      BY <1>13, <2>2, <3>1, <3>2, <1>3 DEF Checked, HistorySound
    <3> QED
      BY <2>2, <3>3, <1>7
  <2> QED
    BY <1>8, <2>1, <2>2
<1>14. HistorySound'
  BY <1>3, <1>9, <1>10, <1>11, <1>12, <1>13 DEF HistorySound
<1>15. ASSUME NEW d \in Calls
       PROVE  CandidateSound(d)'
  <2>1. CASE d = c
    BY <2>1, <1>1 DEF CandidateSound
  <2>2. CASE d # c
    <3>1. /\ pc'[d] = pc[d] /\ cand'[d] = cand[d] /\ base'[d] = base[d]
          /\ applied'[d] = applied[d] /\ request'[d] = request[d]
          /\ At(base[d])' = At(base[d]) /\ IsAppend(d)' = IsAppend(d)
      BY <2>2, <1>1, <1>7 DEF Inv, ShapeOK, IsAppend, At
    <3>2. ASSUME pc[d] = "build" PROVE At(cand[d].version)' = At(cand[d].version)
      <4>1. cand[d].version \in Versions
        BY <3>2 DEF Inv, CandidateOK, Unfinished
      <4> QED
        BY <4>1, <3>1, <1>7 DEF At
    <3>3. ASSUME pc[d] = "built" PROVE At(cand[d].version - 1)' = At(cand[d].version - 1)
      <4>1. cand[d].version - 1 \in Versions
        BY <3>3 DEF Inv, CandidateOK, Finished
      <4> QED
        BY <4>1, <3>1, <1>7 DEF At
    <3>4. CandidateSound(d)
      BY DEF Checked
    <3>5. pc[d] = "built" => Rebuilt(d)'
      BY <3>1, <3>3, <3>4 DEF CandidateSound, Rebuilt
    <3> QED
      BY <3>1, <3>2, <3>4, <3>5 DEF CandidateSound
  <2> QED
    BY <2>1, <2>2
<1> QED
  BY <1>6, <1>14, <1>15 DEF Checked

LEMMA NextChecked == Inv /\ Checked /\ [Next]_vars => Checked'
<1> SUFFICES ASSUME Inv, Checked, [Next]_vars PROVE Checked'
  OBVIOUS
<1>1. ASSUME NEW c \in Calls, Step(c)
      PROVE  Checked'
  <2>1. CASE Prepare(c) \/ Reject(c) \/ ApplyFails(c) \/ Conflict(c)
    BY <2>1, NoCandidateChecked
  <2>2. CASE Begin(c)
    BY <2>2, BeginChecked
  <2>3. CASE ApplyNext(c)
    BY <2>3, ApplyNextChecked
  <2>4. CASE Finish(c)
    BY <2>4, FinishChecked
  <2>5. CASE Publish(c)
    BY <2>5, PublishChecked
  <2> QED
    BY <1>1, <2>1, <2>2, <2>3, <2>4, <2>5 DEF Step
<1>2. CASE UNCHANGED vars
  <2>1. CommitsShaped' /\ HistorySound'
    BY <1>2 DEF vars, Checked, CommitsShaped, HistorySound, Versions, At, Current
  <2>2. \A c \in Calls : CandidateSound(c)'
    BY <1>2 DEF vars, Checked, CandidateSound, Rebuilt, IsAppend, At
  <2> QED
    BY <2>1, <2>2 DEF Checked
<1> QED
  BY <1>1, <1>2 DEF Next

LEMMA AlwaysChecked == Spec => [](Inv /\ Checked)
<1>1. Init => Inv /\ Checked
  BY InitInv, InitChecked
<1>2. (Inv /\ Checked) /\ [Next]_vars => (Inv /\ Checked)'
  BY NextInv, NextChecked
<1> QED
  BY <1>1, <1>2, PTL DEF Spec

(* CandidatesValid, for any calls and requests: whatever operations a call *)
(* applies, on whichever winner it is rebuilt, finish_candidate accepts    *)
(* the image, so no call fails there after its requirements were met.      *)
THEOREM CandidatesPinnable == Spec => []CandidatesValid
<1>1. Inv /\ Checked => CandidatesValid
  BY RebuiltIsPinnable DEF Checked, CandidateSound, CandidatesValid
<1> QED
  BY <1>1, AlwaysChecked, PTL

-----------------------------------------------------------------------------
(* Verifying the history and reading it                                    *)

(* verify_retained_commit_tail, one commit further.                        *)
ReplayOne(old, commit) ==
    LET new == IF old = NotReplayed THEN NotReplayed ELSE ReplayCommit(old, commit)
    IN  IF new # NotReplayed /\ CommitProjected(new, commit) THEN new ELSE NotReplayed

ReplayFrom(replay, v) ==
    replay = [u \in 0..v |-> IF u = 0 THEN Genesis ELSE ReplayOne(replay[u - 1], semantic[u])]

LEMMA TailIs ==
    ASSUME NEW v
    PROVE  TailValid(v) <=> (CHOOSE replay : ReplayFrom(replay, v))[v] = At(v)
  BY DEF TailValid, ReplayFrom, ReplayOne

LEMMA TailReplayed ==
    ASSUME Inv, Checked, NEW v \in Versions
    PROVE  TailValid(v)
<1> DEFINE start == [u \in 0..v |-> At(u)]
           all == CHOOSE replay : ReplayFrom(replay, v)
<1>1. v \in Nat /\ 0..v \subseteq Versions
  BY LastVersion DEF Inv, ShapeOK, Versions
<1>2. At(0) = Genesis
  BY DEF Checked, HistorySound
<1>3. ASSUME NEW u \in 1..v
      PROVE  At(u) = ReplayOne(At(u - 1), semantic[u])
  <2>1. u \in Versions \ {0} /\ u - 1 \in Versions
    BY <1>1
  <2>2. Follows(At(u - 1), At(u), semantic[u])
    BY <2>1 DEF Checked, HistorySound
  <2>3. At(u) # NotReplayed /\ At(u - 1) # NotReplayed
    BY <2>1, ImageReplayed DEF Inv, VersionsOK, TableOK
  <2> QED
    BY <2>2, <2>3 DEF Follows, ReplayOne
<1>4. start = [u \in 0..v |-> IF u = 0 THEN Genesis ELSE ReplayOne(start[u - 1], semantic[u])]
  <2> DEFINE e(u) == IF u = 0 THEN Genesis ELSE ReplayOne(start[u - 1], semantic[u])
  <2>1. ASSUME NEW u \in 0..v
        PROVE  At(u) = e(u)
    <3>1. CASE u = 0
      BY <3>1, <1>2
    <3>2. CASE u # 0
      <4>1. u \in 1..v /\ u - 1 \in 0..v
        BY <3>2, <1>1
      <4>2. start[u - 1] = At(u - 1)
        BY <4>1
      <4> HIDE DEF start
      <4> QED
        BY <3>2, <4>1, <4>2, <1>3
    <3> QED
      BY <3>1, <3>2
  <2> HIDE DEF e
  <2>2. start = [u \in 0..v |-> e(u)]
    BY <2>1
  <2> QED
    BY <2>2 DEF e
<1> HIDE DEF start
<1>5. ReplayFrom(all, v)
  <2>1. ReplayFrom(start, v)
    BY <1>4 DEF ReplayFrom
  <2> QED
    BY <2>1
<1> HIDE DEF all
<1>6. \A u \in 0..v : all[u] = IF u = 0 THEN Genesis ELSE ReplayOne(all[u - 1], semantic[u])
  BY <1>5 DEF ReplayFrom
<1>7. all[v] = At(v)
  <2> DEFINE S == {u \in 0..v : all[u] = At(u)}
  <2>1. 0 \in S
    BY <1>1, <1>2, <1>6
  <2>2. ASSUME NEW u \in 1..v, u - 1 \in S
        PROVE  u \in S
    <3>1. u \in 0..v /\ u # 0 /\ all[u - 1] = At(u - 1)
      BY <1>1, <2>2
    <3> QED
      BY <3>1, <1>3, <1>6
  <2> HIDE DEF S
  <2>3. 0..v \subseteq S
    BY <1>1, <2>1, <2>2, UpTo
  <2>4. v \in S
    BY <1>1, <2>3
  <2> QED
    BY <2>4 DEF S
<1> QED
  BY <1>7, TailIs DEF all

LEMMA LastTransition ==
    ASSUME Inv, Checked, NEW v \in Versions \ {0}
    PROVE  TransitionValid(At(v - 1), At(v), semantic[v])
<1>1. v \in Nat /\ v - 1 \in Versions
  BY LastVersion DEF Inv, ShapeOK, Versions
<1>2. At(v - 1).version = v - 1 /\ At(v).version = v
  BY <1>1 DEF Inv, VersionsOK
<1>3. Follows(At(v - 1), At(v), semantic[v])
  BY DEF Checked, HistorySound
<1>4. semantic[v].version = v
  BY <1>2, <1>3 DEF Follows, CommitProjected
<1> QED
  BY <1>1, <1>2, <1>3, <1>4 DEF TransitionValid, Follows

(* A later image keeps the snapshots and files of an earlier one.          *)
LEMMA SnapshotReadsSame ==
    ASSUME NEW old, NEW new, SnapshotsOK(old), SnapshotsOK(new), FilesOK(old),
           Kept(old, new), FilesKept(old, new), NEW s \in DOMAIN old.snapshots
    PROVE  SnapshotFiles(new, s) = SnapshotFiles(old, s)
<1> DEFINE A == Ancestry(old, s)
           was(a) == Listed(old, old.snapshots[a].added, old.snapshots[a].sequence)
           is(a) == Listed(new, new.snapshots[a].added, new.snapshots[a].sequence)
<1>1. ParentsKnown(old.snapshots) /\ ParentsKnown(new.snapshots)
  BY SnapshotsHaveParents
<1>2. Ancestry(new, s) = A /\ A \subseteq DOMAIN old.snapshots
  BY <1>1, AncestryStays, AncestryWithin
<1>3. \A a \in A : is(a) = was(a)
  <2> TAKE a \in A
  <2>1. new.snapshots[a] = old.snapshots[a] /\ old.snapshots[a].added \in DOMAIN old.files
    BY <1>2 DEF Kept, FilesOK
  <2>2. new.files[old.snapshots[a].added] = old.files[old.snapshots[a].added]
    BY <2>1 DEF FilesKept
  <2> QED
    BY <2>1, <2>2 DEF Listed
<1>4. SnapshotFiles(new, s) = {is(a) : a \in A} /\ SnapshotFiles(old, s) = {was(a) : a \in A}
  BY <1>2 DEF SnapshotFiles
<1> HIDE DEF A, is, was
<1> QED
  BY <1>3, <1>4

LEMMA ResolvesBySequence ==
    ASSUME NEW t, SnapshotsOK(t), NEW s \in DOMAIN t.snapshots,
           NEW selection, selection.by = "sequence", selection.sequence = t.snapshots[s].sequence
    PROVE  ResolveSnapshot(t, selection) = s
<1> DEFINE named == {x \in DOMAIN t.snapshots : t.snapshots[x].sequence = selection.sequence}
<1>1. named = {s}
  BY DEF SnapshotsOK
<1> HIDE DEF named
<1>2. Cardinality(named) = 1
  BY <1>1, FS_Singleton
<1>3. (CHOOSE x \in named : TRUE) = s
  BY <1>1
<1>4. ResolveSnapshot(t, selection) =
          IF Cardinality(named) = 1 THEN CHOOSE x \in named : TRUE ELSE NotFound
  BY DEF ResolveSnapshot, named
<1> QED
  BY <1>2, <1>3, <1>4

LEMMA ResolvesByRef ==
    ASSUME NEW t, NEW r \in DOMAIN t.refs, NEW selection, selection.by = "ref", selection.ref = r
    PROVE  ResolveSnapshot(t, selection) = t.refs[r].snapshot
  BY DEF ResolveSnapshot

(* A branch lists the files of its tip, and verify reads them.             *)
LEMMA BranchReads ==
    ASSUME NEW t, MembershipExact(t), SnapshotsOK(t), NEW r \in DOMAIN t.refs, t.refs[r].type = "branch"
    PROVE  /\ BranchFiles(t, r) = SnapshotFiles(t, t.refs[r].snapshot)
           /\ {f.file : f \in BranchFiles(t, r)} \subseteq VerifiedFiles(t, "current")
<1> DEFINE tip == t.refs[r].snapshot
           A == Ancestry(t, tip)
           row(s) == [ref |-> r, file |-> t.snapshots[s].added, snapshot |-> s,
                      sequence |-> t.snapshots[s].sequence]
           listed(s) == Listed(t, t.snapshots[s].added, t.snapshots[s].sequence)
<1>1. LiveRows(t, r) = {row(s) : s \in A}
  BY DEF MembershipExact, Membership
<1>2. \A s : Listed(t, row(s).file, row(s).sequence) = listed(s)
  OBVIOUS
<1>3. BranchFiles(t, r) = {listed(s) : s \in A}
  <2> HIDE DEF row, listed, A
  <2> QED
    BY <1>1, <1>2 DEF BranchFiles
<1>4. BranchFiles(t, r) = SnapshotFiles(t, tip)
  BY <1>3 DEF SnapshotFiles
<1>5. \A s : listed(s).file = t.snapshots[s].added
  BY DEF Listed
<1>6. ASSUME NEW s \in A
      PROVE  t.snapshots[s].added \in VerifiedFiles(t, "current")
  <2>1. Ancestry(t, NoSnapshot) = {}
    BY SnapshotsHaveParents, AncestryEquation
  <2>2. tip \in {t.refs[x].snapshot : x \in DOMAIN t.refs} \ {NoSnapshot}
    BY <1>6, <2>1
  <2> DEFINE tips == {t.refs[x].snapshot : x \in DOMAIN t.refs} \ {NoSnapshot}
  <2>3. VerifiedFiles(t, "current") = {t.snapshots[x].added : x \in UNION {Ancestry(t, y) : y \in tips}}
    BY DEF VerifiedFiles
  <2>4. s \in UNION {Ancestry(t, y) : y \in tips}
    BY <2>2
  <2> HIDE DEF tips
  <2> QED
    BY <2>3, <2>4
<1> HIDE DEF listed, A
<1>7. \A f \in BranchFiles(t, r) : f.file \in VerifiedFiles(t, "current")
  BY <1>3, <1>5, <1>6
<1> QED
  BY <1>4, <1>7

(* verify of the retained history reads every file of the table.           *)
LEMMA AllFilesRead ==
    ASSUME NEW t, SnapshotsOK(t), FilesOK(t)
    PROVE  VerifiedFiles(t, "retained history") = DOMAIN t.files
<1> DEFINE D == DOMAIN t.snapshots
<1>1. UNION {Ancestry(t, tip) : tip \in D} = D
  <2>1. \A tip \in D : tip \in Ancestry(t, tip) /\ Ancestry(t, tip) \subseteq D
    BY SnapshotsHaveParents, AncestryEquation, AncestryWithin
  <2> QED
    BY <2>1
<1>2. VerifiedFiles(t, "retained history") = {t.snapshots[s].added : s \in D}
  <2>1. VerifiedFiles(t, "retained history") =
            {t.snapshots[s].added : s \in UNION {Ancestry(t, tip) : tip \in D}}
    BY DEF VerifiedFiles
  <2> HIDE DEF D
  <2> QED
    BY <1>1, <2>1
<1> QED
  BY <1>2 DEF FilesOK

(* HistoryVerifies, for any calls and requests: verify_history accepts     *)
(* what the code committed, because each published image is what replaying *)
(* its commit on the image before gives; and because snapshots and files   *)
(* are never changed, an old snapshot lists the same files in every later  *)
(* version.                                                                *)
THEOREM HistoryAccepted == Spec => []HistoryVerifies
<1>1. ASSUME Inv, Checked
      PROVE  HistoryVerifies
  <2> DEFINE v == Current.version
             t == Current
  <2>1. v \in Versions /\ t = At(v) /\ v \in Nat
    <3>1. /\ Len(history) - 1 \in Versions /\ Current = At(Len(history) - 1)
          /\ Len(history) - 1 \in Nat
      BY <1>1, LastVersion DEF Inv
    <3>2. Current.version = Len(history) - 1
      BY <1>1, <3>1 DEF Inv, VersionsOK
    <3> QED
      BY <3>1, <3>2
  <2>2. /\ SnapshotsOK(t) /\ FilesOK(t) /\ MembershipExact(t)
        /\ TableOK(t, request) /\ DOMAIN t.snapshots \subseteq 1..v
    BY <1>1, <2>1 DEF Inv, VersionsOK, TableOK, Checked, HistorySound, Sound, ImageOK
  <2>3. v > 0 => TransitionValid(At(v - 1), Current, semantic[v])
    BY <1>1, <2>1, LastTransition
  <2>4. TailValid(v)
    BY <1>1, <2>1, TailReplayed
  <2> HIDE DEF v
  <2>5. ASSUME NEW s \in DOMAIN Current.snapshots
        PROVE  LET first == At(Current.snapshots[s].version)
               IN  /\ SnapshotFiles(Current, s) = SnapshotFiles(first, s)
                   /\ ResolveSnapshot(Current, [by |-> "sequence", sequence |-> first.lastSequence]) = s
    <3> DEFINE first == At(s)
    <3>1. Current.snapshots[s].version = s
      BY <2>2 DEF SnapshotsOK
    <3>2. s \in Versions
      BY <2>1, <2>2 DEF Versions
    <3>3. /\ Sound(first) /\ first.version = s /\ Kept(first, Current) /\ FilesKept(first, Current)
          /\ s \in DOMAIN first.snapshots
      <4>1. s <= s
        BY <2>1, <2>2
      <4> QED
        BY <1>1, <3>2, <4>1 DEF Inv, VersionsOK, Checked, HistorySound
    <3>4. SnapshotsOK(first) /\ FilesOK(first) /\ first.snapshots[s].sequence = first.lastSequence
      BY <3>3 DEF Sound, ImageOK
    <3>5. Current.snapshots[s].sequence = first.lastSequence
      BY <3>3, <3>4 DEF Kept
    <3> HIDE DEF first, t
    <3>6. SnapshotFiles(Current, s) = SnapshotFiles(first, s)
      BY <2>2, <3>3, <3>4, SnapshotReadsSame DEF t
    <3> DEFINE selection == [by |-> "sequence", sequence |-> first.lastSequence]
    <3>7. selection.by = "sequence" /\ selection.sequence = Current.snapshots[s].sequence
      BY <3>5
    <3> HIDE DEF selection
    <3>8. ResolveSnapshot(Current, selection) = s
      BY <2>2, <3>7, ResolvesBySequence DEF t
    <3> QED
      BY <3>1, <3>6, <3>8 DEF first, selection
  <2>6. ASSUME NEW r \in DOMAIN Current.refs, Current.refs[r].type = "branch"
        PROVE  LET tip == ResolveSnapshot(Current, [by |-> "ref", ref |-> r])
               IN  /\ BranchFiles(Current, r) = SnapshotFiles(Current, tip)
                   /\ {f.file : f \in BranchFiles(Current, r)} \subseteq VerifiedFiles(Current, "current")
    <3> DEFINE selection == [by |-> "ref", ref |-> r]
    <3>1. selection.by = "ref" /\ selection.ref = r
      OBVIOUS
    <3> HIDE DEF selection
    <3>2. ResolveSnapshot(Current, selection) = Current.refs[r].snapshot
      BY <3>1, ResolvesByRef
    <3> QED
      BY <2>2, <2>6, <3>2, BranchReads DEF selection
  <2>7. VerifiedFiles(Current, "retained history") = DOMAIN Current.files
    BY <2>2, AllFilesRead
  <2> QED
    BY <2>3, <2>4, <2>5, <2>6, <2>7 DEF HistoryVerifies, v
<1> QED
  BY <1>1, AlwaysChecked, PTL
=============================================================================
