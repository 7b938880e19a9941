---------------------------- MODULE MCScanPlanning ----------------------------
(* Histories, tables and scans for TLC.                                    *)
EXTENDS ScanPlanning, TLC

CONSTANTS s1, s2
MCScans == {s1, s2}

Root(ordinal, name, type, required, default) ==
    [parent |-> 0, ordinal |-> ordinal, name |-> name, type |-> type, required |-> required,
     default |-> default, children |-> <<>>]

(* The second schema renames field 2 and gives its old name to field 3.    *)
Old == (1 :> Root(0, "a", "int64", TRUE, Null)) @@ (2 :> Root(1, "x", "float64", FALSE, Null))
New == (1 :> Root(0, "a", "int64", TRUE, Null)) @@ (2 :> Root(2, "y", "float64", FALSE, Null))
       @@ (3 :> Root(1, "x", "int64", FALSE, 5))
Gap == (1 :> Root(1, "a", "int64", TRUE, Null))
MCSchemas == (1 :> Old) @@ (2 :> New) @@ (3 :> Gap)

Column(id, name, type) == [id |-> id, name |-> name, type |-> type]
Parquet(length, columns, rows) == [length |-> length, columns |-> columns, rows |-> rows]
MCObjects ==
    ("u1" :> Parquet(1, <<Column(1, "a", "int32"), Column(0, "x", "float64")>>, {<<1, 3>>, <<2, NaN>>}))
    @@ ("u2" :> Parquet(1, <<Column(1, "a", "int64"), Column(2, "y", "float64"), Column(3, "x", "int64")>>,
                        {<<4, Null, 7>>}))
    @@ ("u3" :> Parquet(1, <<Column(1, "a", "int64")>>, {<<6>>}))
    @@ ("u4" :> Parquet(1, <<Column(2, "a", "int64")>>, {<<6>>}))

DataFile(uri, schema, snapshot) ==
    [uri |-> uri, schema |-> schema, snapshot |-> snapshot, hash |-> "h", length |-> 1, sound |-> TRUE]
MCFiles ==
    (1 :> DataFile("u1", 1, 2)) @@ (2 :> DataFile("u2", 2, 1)) @@ (3 :> DataFile("u3", 1, 2))
    @@ (4 :> DataFile("u1", 2, 3)) @@ (5 :> DataFile("u2", 1, 1)) @@ (6 :> [DataFile("u3", 1, 3) EXCEPT !.hash = "other"])
    @@ (7 :> DataFile("u4", 1, 3)) @@ (8 :> [DataFile("u3", 1, 3) EXCEPT !.sound = FALSE])
    @@ (9 :> DataFile("u3", 3, 3))

Metric(file, field, low, high, nulls, nans) ==
    [file |-> file, field |-> field, low |-> low, high |-> high, nulls |-> nulls, nans |-> nans]
MCMetrics ==
    {Metric(1, 1, 1, 2, 0, Unknown), Metric(1, 2, 3, 3, 0, 1), Metric(2, 1, 4, 4, 0, Unknown),
     Metric(2, 3, 7, 7, 0, Unknown), Metric(2, 2, Unknown, Unknown, 1, 0),
     Metric(5, 1, 4, 4, 0, Unknown), Metric(6, 1, 6, 6, 0, Unknown)}

Snapshot(parent, n, adds) ==
    [parent |-> parent, sequence |-> n, version |-> n, adds |-> adds, append |-> TRUE, removes |-> {}]
Image(version, snapshots, live) ==
    [version |-> version, commit |-> version, sequence |-> version, schema |-> 2, schemas |-> MCSchemas,
     refs |-> ("main" :> [kind |-> "branch", snapshot |-> version])
              @@ ("tag" :> [kind |-> "tag", snapshot |-> Min({version, 2})])
              @@ ("empty" :> [kind |-> "branch", snapshot |-> NoSnapshot]),
     snapshots |-> snapshots, files |-> MCFiles, objects |-> MCObjects, metrics |-> MCMetrics,
     live |-> ("main" :> live) @@ ("empty" :> {})]

(* Two snapshots whose file ids interleave, one of them exactly a page.    *)
Line(adds3) == <<Snapshot(0, 1, {2, 5}), Snapshot(1, 2, {1, 3}), Snapshot(2, 3, adds3)>>
Good == Image(2, SubSeq(Line({}), 1, 2), {1, 2, 3, 5})
Few == Image(2, <<Snapshot(0, 1, {2}), Snapshot(1, 2, {1, 3})>>, {1, 2, 3})
With(f) == Image(3, Line({f}), {1, 2, 3, 5, f})
Cyclic == Image(2, <<Snapshot(2, 1, {}), Snapshot(1, 2, {})>>, {})
Large == Image(3, Line({4, 7}), {1, 2, 3, 4, 5, 7})
Removing == Image(1, <<[Snapshot(0, 1, {1}) EXCEPT !.removes = {2}]>>, {1})

Generation(version, commit, parent, image) ==
    [version |-> version, commit |-> commit, state |-> commit, parent |-> parent, image |-> image, sound |-> TRUE]
Commit(parent, version) == [parent |-> parent, previous |-> parent, version |-> version, sound |-> TRUE]

Single(image) ==
    [version |-> image.version, head |-> 1, commit |-> image.commit,
     generations |-> <<Generation(image.version, image.commit, 0, image)>>,
     commits |-> [c \in 1..image.commit |-> Commit(c - 1, c)]]

Small(version) == Image(version, [n \in 1..version |-> Snapshot(n - 1, n, {})], {})

(* Four commits; the image of the third was written twice and the second   *)
(* has none.  Commit 5 is a rival of commit 2.                             *)
Retained ==
    [version |-> 4, head |-> 4, commit |-> 4,
     generations |-> <<Generation(1, 1, 0, Small(1)), Generation(3, 3, 1, Small(3)),
                       Generation(3, 3, 2, Small(3)), Generation(4, 4, 3, Small(4)),
                       Generation(2, 5, 1, [Small(2) EXCEPT !.commit = 5])>>,
     commits |-> <<Commit(0, 1), Commit(1, 2), Commit(2, 3), Commit(3, 4), Commit(1, 2)>>]
Forked == [Retained EXCEPT !.generations[2].parent = 5]
Circular == [Retained EXCEPT !.generations[2].parent = 3]
Broken == [Retained EXCEPT !.commits[3].previous = 5]

Main == [by |-> "ref", name |-> "main"]
Others == <<[by |-> "ref", name |-> "tag"], [by |-> "ref", name |-> "empty"], [by |-> "ref", name |-> "gone"],
            [by |-> "id", snapshot |-> 3], [by |-> "sequence", sequence |-> 2]>>
Reader(history, wanted, selection) == [history |-> history, wanted |-> wanted, selection |-> selection]

Tables == <<Good, With(6), With(7), With(4), With(8), With(9), Cyclic, Removing, Large>>
Histories == <<Retained, Forked, Circular, Broken>>
MCReaders ==
    [i \in 1..Len(Tables) |-> Reader(Single(Tables[i]), Current, Main)]
    \o [i \in 1..Len(Others) |-> Reader(Single(Good), Current, Others[i])]
    \o <<Reader(Single(Cyclic), Current, Others[5]), Reader(Single(Removing), Current, [by |-> "id", snapshot |-> 1]),
         Reader(Single(Few), Current, Others[1]), Reader(Single(With(5)), Current, Others[4])>>
    \o [i \in 1..20 |-> Reader(Histories[((i - 1) \div 5) + 1], <<Current, 1, 2, 3, 5>>[((i - 1) % 5) + 1], Main)]

Where(field, op, value) == [field |-> field, op |-> op, value |-> value]
MCFilters ==
    s1 :> {{}, {Where(1, "gt", 6)}, {Where(2, "gt", 5)}, {Where(3, "eq", 5), Where(1, "gt", 2)}, {Where(2, "null", 0)}}
    @@ s2 :> {{}, {Where(2, "gt", 5)}}
===============================================================================
