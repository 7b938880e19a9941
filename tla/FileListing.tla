------------------------------ MODULE FileListing ------------------------------
(***************************************************************************)
(* Which files a pinned metadata reader lists, page by page, with the      *)
(* metrics it finds for them (snapshot.rs, schema.rs, files.rs and the     *)
(* opening in metadata.rs, all in otmp/src/reader), which of them a scan   *)
(* leaves out (otmp-datafusion/src/pruning.rs), and what the columns of    *)
(* the others read as (schemaadapter.rs).                                  *)
(*                                                                         *)
(* `t' is the relational content of one authenticated image with the       *)
(* objects its files name: it does not change under a reader.  Rows are    *)
(* read in the order of file ids, which is not the order in which files    *)
(* were added.                                                             *)
(***************************************************************************)
EXTENDS MetadataHistory, Sequences, FiniteSetsExt, SequencesExt

CONSTANTS BatchLimit,   \* files of a batch (256)
          QueryFiles    \* files of one metric statement (METRIC_QUERY_FILES)

ASSUME ListingAssumption == BatchLimit \in Nat \ {0} /\ QueryFiles \in Nat \ {0}

(* What of sequence s is in S, in its order.                               *)
Among(s, S) ==
    LET taken[i \in 0..Len(s)] ==
          IF i = 0 THEN <<>>
          ELSE IF s[i] \in S THEN Append(taken[i - 1], s[i]) ELSE taken[i - 1]
    IN  taken[Len(s)]

(* A set of ids in their order.                                            *)
Sorted(S) == Among([i \in 1..Max(S \cup {0}) |-> i], S)

NoSnapshot == 0
NoCursor == [snapshot |-> -1, before |-> 0, file |-> 0]

-----------------------------------------------------------------------------
(* Schemas.  A schema is kept as one row per field, nested fields too, and *)
(* a second time inside the types of the fields that contain others.       *)

Rows(rows, parent) == {f \in DOMAIN rows : rows[f].parent = parent}

(* check_ordinals: 0, 1, 2, ...  Roots are sorted by their ordinals first; *)
(* the rows below a field are taken in the order of their ids.             *)
RootsContiguous(rows) == {rows[f].ordinal : f \in Rows(rows, 0)} = 0..(Cardinality(Rows(rows, 0)) - 1)
ChildrenContiguous(rows, parent) ==
    \A f \in Rows(rows, parent) : rows[f].ordinal = Cardinality({g \in Rows(rows, parent) : g < f})

(* validate_tree: the rows below a field are the fields inside its type,   *)
(* in their order.                                                         *)
AgreesWithType(rows, f) ==
    /\ Cardinality(Rows(rows, f)) = Len(rows[f].children)
    /\ \A i \in DOMAIN rows[f].children :
          \E g \in Rows(rows, f) : g = rows[f].children[i] /\ rows[g].ordinal = i - 1

(* load_schema: no row is left over that no root contains.                 *)
SchemaError(t, id) ==
    IF id = 0 \/ id \notin DOMAIN t.schemas THEN "corrupt"
    ELSE LET rows == t.schemas[id]
         IN  IF /\ RootsContiguous(rows)
                /\ \A f \in DOMAIN rows : ChildrenContiguous(rows, f) /\ AgreesWithType(rows, f)
                /\ \A f \in DOMAIN rows : rows[f].parent \in DOMAIN rows \cup {0}
             THEN None ELSE "corrupt"

QuerySchema(t) == t.schemas[t.schema]

-----------------------------------------------------------------------------
(* Selection of a snapshot.                                                *)

(* descriptor: a snapshot there is, of the append-only profile.            *)
DescriptorError(t, s) ==
    IF s \notin DOMAIN t.snapshots THEN "not found"
    ELSE IF ~t.snapshots[s].append THEN "corrupt" ELSE None

Chosen(snapshot, branch) == [error |-> None, snapshot |-> snapshot, branch |-> branch]
Refused(error) == [error |-> error, snapshot |-> NoSnapshot, branch |-> None]

(* The selected snapshot if it has a sound descriptor and is no newer than *)
(* the metadata.                                                           *)
ChosenIfSound(t, s, branch) ==
    IF DescriptorError(t, s) # None THEN Refused(DescriptorError(t, s))
    ELSE IF t.snapshots[s].version > t.version THEN Refused("corrupt")
    ELSE Chosen(s, branch)

(* resolve: a branch may be empty, a tag may not.                          *)
Resolve(t, selection) ==
    CASE selection.by = "ref" ->
           IF selection.name \notin DOMAIN t.refs THEN Refused("ref not found")
           ELSE LET ref == t.refs[selection.name]
                    branch == IF ref.kind = "branch" THEN selection.name ELSE None
                IN  IF ref.snapshot # NoSnapshot THEN ChosenIfSound(t, ref.snapshot, branch)
                    ELSE IF ref.kind = "tag" THEN Refused("corrupt")
                    ELSE Chosen(NoSnapshot, branch)
      [] selection.by = "id" -> ChosenIfSound(t, selection.snapshot, None)
      [] selection.by = "sequence" ->
           LET found == {s \in DOMAIN t.snapshots : t.snapshots[s].sequence = selection.sequence}
           IN  IF selection.sequence = 0 \/ found = {} THEN Refused("not found")
               ELSE IF Cardinality(found) > 1 THEN Refused("corrupt")
               ELSE ChosenIfSound(t, CHOOSE s \in found : TRUE, None)

(* read_meta and validate_commit_row: the image is that of the generation  *)
(* and the commit it was selected by.                                      *)
IdentityMatches(h, chosen, t) ==
    /\ t.version = h.generations[chosen.generation].version
    /\ t.commit = chosen.commit /\ t.commit = h.generations[chosen.generation].commit

(* MetadataReader::open: the image is checked against the generation and   *)
(* the commit, its current schema is loaded, and main and the selection    *)
(* are resolved in it.                                                     *)
Open(h, wanted, selection) ==
    LET chosen == SelectMetadata(h, wanted)
        t == h.generations[chosen.generation].image
        main == Resolve(t, [by |-> "ref", name |-> "main"])
        snapshot == Resolve(t, selection)
    IN  IF chosen.error # None THEN Refused(chosen.error)
        ELSE IF ~IdentityMatches(h, chosen, t) THEN Refused("corrupt")
        ELSE IF SchemaError(t, t.schema) # None THEN Refused(SchemaError(t, t.schema))
        ELSE IF main.error # None THEN main
        ELSE IF snapshot.error # None THEN snapshot
        ELSE IF snapshot.snapshot # NoSnapshot /\ t.snapshots[snapshot.snapshot].sequence > t.sequence
        THEN Refused("corrupt")
        ELSE snapshot

-----------------------------------------------------------------------------
(* Metrics.                                                                *)

Ceiling(n, d) == (n + d - 1) \div d
Operations(n, fields) == 0..(Ceiling(n, QueryFiles) * Len(fields) - 1)

Offset(op, fields) == (op \div Len(fields)) * QueryFiles
MetricField(op, fields) == fields[(op % Len(fields)) + 1]

(* The positions of the files one operation asks for, among each other.    *)
Positions(op, ids, fields) == {p \in 1..QueryFiles : Offset(op, fields) + p <= Len(ids)}

(* The place in the batch of the file at a position among the requested.   *)
Place(op, fields, position) == Offset(op, fields) + position

(* metrics: what the operations find for the i-th file of a batch (none is *)
(* asked for without fields).                                              *)
Found(t, ids, fields, i) ==
    {m \in t.metrics : \E op \in Operations(Len(ids), fields) :
        /\ m.field = MetricField(op, fields)
        /\ \E p \in Positions(op, ids, fields) :
              Place(op, fields, p) = i /\ ids[Offset(op, fields) + p] = m.file}

(* A file has one metric of a field.                                       *)
FoundTwice(t, ids, fields) ==
    \E m, n \in t.metrics : m # n /\ m.file = n.file /\ m.field = n.field
                             /\ \E i \in DOMAIN ids, j \in DOMAIN fields : m.file = ids[i] /\ m.field = fields[j]

-----------------------------------------------------------------------------
(* Pages of files.                                                         *)

(* Mutant: the next page begins with the last file of this one.            *)
FromCursor(S, file) == {f \in S : f >= file}

AfterCursor(S, file) == {f \in S : f > file}

Page(S, file) ==
    LET left == Sorted(AfterCursor(S, file))
    IN  SubSeq(left, 1, Min({BatchLimit, Len(left)}))

BatchError(error) == [error |-> error, ids |-> <<>>, next |-> NoCursor]

(* The rows of a page: each names a file there is, consistent with the     *)
(* snapshot that added it.                                                 *)
Batch(t, ids, fields, next) ==
    IF \E i \in DOMAIN ids : ids[i] \notin DOMAIN t.files \/ ~t.files[ids[i]].sound THEN BatchError("corrupt")
    ELSE IF FoundTwice(t, ids, fields) THEN BatchError("corrupt")
    ELSE [error |-> None, ids |-> ids, next |-> next]

(* A file of a batch with the metrics found for it.                        *)
ReaderFile(t, ids, fields, i) == [id |-> ids[i], metrics |-> Found(t, ids, fields, i)]

(* branch: the live files of the branch.  Only an empty page is the last.  *)
BranchPage(t, pin, cursor, fields) ==
    LET ids == Page(t.live[pin.branch], cursor.file)
    IN  Batch(t, ids, fields,
              IF ids = <<>> THEN NoCursor ELSE [snapshot |-> NoSnapshot, before |-> 0, file |-> ids[Len(ids)]])

(* Mutant: any parent will do.                                             *)
AnyParent(t, s, before) == t.snapshots[s].version <= t.version

(* A parent is older than its child, and not newer than the metadata.      *)
OlderParent(t, s, before) ==
    t.snapshots[s].sequence < before /\ t.snapshots[s].version <= t.version

(* A file of the page was created by another snapshot.                     *)
HasForeignFile(t, ids, s) == \E f \in ToSet(ids) : f \in DOMAIN t.files /\ t.files[f].snapshot # s

(* historical: the changes of a snapshot, then those of its parent.  A     *)
(* page that is full may not be the snapshot's last, and one with a        *)
(* removal or with a file of another snapshot is refused.                  *)
HistoricalPage(t, pin, cursor, fields) ==
    LET at == IF cursor = NoCursor
              THEN [snapshot |-> pin.snapshot, before |-> t.snapshots[pin.snapshot].sequence, file |-> 0]
              ELSE cursor
        s == t.snapshots[at.snapshot]
        ids == Page(s.adds \cup s.removes, at.file)
    IN  IF DescriptorError(t, at.snapshot) # None THEN BatchError(DescriptorError(t, at.snapshot))
        ELSE IF s.sequence # at.before \/ s.version > t.version THEN BatchError("corrupt")
        ELSE IF ToSet(ids) \cap s.removes # {} \/ HasForeignFile(t, ids, at.snapshot)
        THEN BatchError("corrupt")
        ELSE IF Len(ids) = BatchLimit
        THEN Batch(t, ids, fields, [at EXCEPT !.file = ids[Len(ids)]])
        ELSE IF s.parent = NoSnapshot THEN Batch(t, ids, fields, NoCursor)
        ELSE IF DescriptorError(t, s.parent) # None THEN BatchError(DescriptorError(t, s.parent))
        ELSE IF ~OlderParent(t, s.parent, at.before) THEN BatchError("corrupt")
        ELSE Batch(t, ids, fields,
                   [snapshot |-> s.parent, before |-> t.snapshots[s.parent].sequence, file |-> 0])

(* enumerate.                                                              *)
Enumerate(t, pin, cursor, fields) ==
    IF pin.branch = None THEN HistoricalPage(t, pin, cursor, fields)
    ELSE BranchPage(t, pin, cursor, fields)

-----------------------------------------------------------------------------
(* Pruning.  A value is an integer; Null and NaN are apart, and NaN is     *)
(* greater than every number, as Arrow has it.                             *)

Null == -1
NaN == 99
Unknown == -2

Recorded(t, f) == t.schemas[t.files[f].schema]

(* absent_field_value: only the file's own schema can show that it does    *)
(* not have a column, which then reads as the field's default.             *)
IsAbsent(t, f, field) == field \notin Rows(Recorded(t, f), 0)
Default(t, field) == QuerySchema(t)[field].default

(* metric: the file's metric of the field, if its schema gives the field   *)
(* the type the query has it with.                                         *)
MetricOf(t, file, field) ==
    {m \in file.metrics : m.field = field /\ ~IsAbsent(t, file.id, field)
                           /\ Recorded(t, file.id)[field].type = QuerySchema(t)[field].type}

(* Mutant: the bounds of floating-point numbers count as they are.         *)
WithoutNaN(t, m) == TRUE

(* Bounds say nothing of NaN: they count for floating-point numbers only   *)
(* if there is none.                                                       *)
NoNaN(t, m) == QuerySchema(t)[m.field].type # "float64" \/ m.nans = 0

(* bounds: both or neither, unless they contradict each other.             *)
Bound(t, file, field, lower) ==
    IF IsAbsent(t, file.id, field)
    THEN IF Default(t, field) = Null THEN Unknown ELSE Default(t, field)
    ELSE LET usable == {m \in MetricOf(t, file, field) :
                          NoNaN(t, m) /\ m.low # Unknown /\ m.high # Unknown /\ m.low <= m.high}
             value == IF lower THEN (CHOOSE m \in usable : TRUE).low ELSE (CHOOSE m \in usable : TRUE).high
         IN  IF usable = {} \/ value = NaN THEN Unknown ELSE value

(* null_counts_for.                                                        *)
NullCount(t, file, field) ==
    IF IsAbsent(t, file.id, field) THEN IF Default(t, field) = Null THEN Unknown ELSE 0
    ELSE LET m == MetricOf(t, file, field) IN IF m = {} THEN Unknown ELSE (CHOOSE x \in m : TRUE).nulls

(* DataFusion's pruning predicate: the statistics refute one conjunct.     *)
Refuted(t, file, conjunct) ==
    LET low == Bound(t, file, conjunct.field, TRUE)
        high == Bound(t, file, conjunct.field, FALSE)
    IN  CASE conjunct.op = "eq" -> (high # Unknown /\ high < conjunct.value)
                                   \/ (low # Unknown /\ low > conjunct.value)
          [] conjunct.op = "gt" -> high # Unknown /\ high <= conjunct.value
          [] conjunct.op = "null" -> NullCount(t, file, conjunct.field) = 0

(* prune: what cannot be refuted stays.  A filter is a set of conjuncts.   *)
Keep(t, file, filter) == \A conjunct \in filter : ~Refuted(t, file, conjunct)

-----------------------------------------------------------------------------
(* What the columns of an object are for the query.                        *)

NotBound == 0
Object(t, f) == t.objects[t.files[f].uri]

(* position: the columns of the object with the field's id, or with no id  *)
(* and the name the field had when the file was written.                   *)
ColumnsOf(t, f, field) ==
    LET columns == Object(t, f).columns
    IN  {i \in DOMAIN columns : IF columns[i].id = 0 THEN columns[i].name = Recorded(t, f)[field].name
                                ELSE columns[i].id = field}

(* compatible: the conversions that lose nothing.                          *)
Compatible(source, target) == source = target \/ <<source, target>> = <<"int32", "int64">>

(* bind, for one field of the query.                                       *)
Binds(t, f, field) ==
    LET query == QuerySchema(t)[field]
        recorded == Recorded(t, f)[field]
        places == IF IsAbsent(t, f, field) THEN {} ELSE ColumnsOf(t, f, field)
    IN  IF places = {}
        THEN ~query.required /\ (IsAbsent(t, f, field) \/ ~recorded.required)
        ELSE /\ Cardinality(places) = 1
             /\ query.type = recorded.type
             /\ \A i \in places : Compatible(Object(t, f).columns[i].type, query.type)

(* OtmpAdapterFactory::create: no id is there twice and every field binds. *)
Adapts(t, f) ==
    LET columns == Object(t, f).columns
    IN  /\ \A i, j \in DOMAIN columns : (i # j /\ columns[i].id # 0) => columns[i].id # columns[j].id
        /\ \A field \in Rows(QuerySchema(t), 0) : Binds(t, f, field)

(* Adapter: what the scan reads for a field in a row of the object.        *)
Reads(t, f, field, row) ==
    IF IsAbsent(t, f, field) THEN Default(t, field)
    ELSE IF ColumnsOf(t, f, field) = {} THEN Default(t, field)
    ELSE row[CHOOSE i \in ColumnsOf(t, f, field) : TRUE]

(* What a conjunct means for the value that is read.                       *)
Holds(value, conjunct) ==
    CASE conjunct.op = "eq" -> value = conjunct.value
      [] conjunct.op = "gt" -> value # Null /\ value > conjunct.value
      [] conjunct.op = "null" -> value = Null

-----------------------------------------------------------------------------
(* The files a selection stands for, by its meaning.                       *)

(* The snapshots that parents lead to from s, itself included: those in    *)
(* every set that has s and the parents of its members.                    *)
Ancestry(t, s) ==
    LET all == DOMAIN t.snapshots
        Closed(S) == \A x \in S : t.snapshots[x].parent \in all => t.snapshots[x].parent \in S
    IN  {x \in all : \A S \in SUBSET all : ({s} \cap all \subseteq S /\ Closed(S)) => x \in S}

FilesOf(t, pin) ==
    IF pin.branch # None THEN t.live[pin.branch]
    ELSE UNION {t.snapshots[s].adds : s \in Ancestry(t, pin.snapshot)}

-----------------------------------------------------------------------------
(* What tables are made of.                                                *)

(* The ids of files and snapshots are positive numbers, an image has       *)
(* finitely many rows and the files of a branch are kept under its name.   *)
TableShape(t) ==
    /\ None \notin DOMAIN t.refs
    /\ \A r \in DOMAIN t.refs : t.refs[r].kind = "branch" => r \in DOMAIN t.live
    /\ \A r \in DOMAIN t.live : IsFiniteSet(t.live[r]) /\ t.live[r] \subseteq Nat \ {0}
    /\ DOMAIN t.snapshots \subseteq Nat \ {0}
    /\ \A s \in DOMAIN t.snapshots :
        LET changes == t.snapshots[s].adds \cup t.snapshots[s].removes
        IN  IsFiniteSet(changes) /\ changes \subseteq Nat \ {0} /\ t.snapshots[s].sequence \in Nat

(* What a metric says of a value of its column.                            *)
Describes(m, value) ==
    /\ value \in Int
    /\ value \notin {Null, NaN} =>
          (m.low # Unknown => m.low <= value) /\ (m.high # Unknown => value <= m.high)
    /\ value = Null => m.nulls # 0
    /\ value = NaN => m.nans # 0

(* Metrics are true of the columns they are about, as their writer found   *)
(* them, and only a column of floating-point numbers has NaN.              *)
MetricsTrue(t) ==
    \A m \in t.metrics :
        /\ m.low \in Int /\ m.high \in Int
        /\ (m.file \in DOMAIN t.files /\ ~IsAbsent(t, m.file, m.field)) =>
              /\ ColumnsOf(t, m.file, m.field) # {}
              /\ \A row \in Object(t, m.file).rows : \A i \in ColumnsOf(t, m.file, m.field) :
                    /\ Describes(m, row[i])
                    /\ row[i] = NaN => Recorded(t, m.file)[m.field].type = "float64"

(* A filter compares columns of the query with values.                     *)
FilterFits(t, filter) ==
    \A conjunct \in filter :
        /\ conjunct.op \in {"eq", "gt", "null"} /\ conjunct.value \in Int \ {Null}
        /\ QuerySchema(t)[conjunct.field].default \in Int
===============================================================================
