--------------------------- MODULE MCTransactions ---------------------------
(***************************************************************************)
(* An instance of Transactions for TLC: calls whose requests are chosen to *)
(* meet, in every order.                                                   *)
(*   Lines:    appends to a branch that is created, moved, dropped and     *)
(*             created again, and a tag, while appends are prepared.       *)
(*   Catalog:  schema evolution, properties and appends of the old and the *)
(*             new schema, and requests that are refused.                  *)
(***************************************************************************)
EXTENDS Verification, TLC

CONSTANTS c1, c2, c3, c4, c5

FiveCalls == {c1, c2, c3, c4, c5}

Schema1 == [id |-> 1, parent |-> 0, fields |-> <<1>>]
Schema2 == [id |-> 2, parent |-> 1, fields |-> <<1, 2>>]
Schema3 == [id |-> 3, parent |-> 1, fields |-> <<1, 2>>]

Metric(field, lower, upper) ==
    [field |-> field, values |-> 2, nulls |-> 1, nans |-> Absent, lower |-> lower, upper |-> upper]

AppendTo(r) ==
    [kind |-> "append", ref |-> r, schema |-> 1, validated |-> TRUE,
     metrics |-> <<Metric(1, 1, 2)>>]
CommitStaged(r) == [AppendTo(r) EXCEPT !.validated = FALSE]

(* Files of the second schema, and one of the first with metrics of the    *)
(* second.                                                                 *)
AppendNew == [CommitStaged("main") EXCEPT !.schema = 2, !.metrics = <<Metric(1, 1, 1), Metric(2, 3, Absent)>>]
AppendMixed == [AppendTo("main") EXCEPT !.metrics = <<Metric(2, 1, 2)>>]
Transact(ops) == [kind |-> "transact", operations |-> ops]

Create(r, type, s) == [type |-> "create_ref", ref |-> r, refType |-> type, snapshot |-> s]
Replace(r, s) == [type |-> "replace_ref", ref |-> r, snapshot |-> s]
Drop(r) == [type |-> "drop_ref", ref |-> r]
Set(k, v) == [type |-> "set_properties", updates |-> (k :> v)]
Add(schema) == [type |-> "add_schema", schema |-> schema]
Select(id) == [type |-> "set_current_schema", id |-> id]

(* c1 makes the branch; the others work on it and on main.                 *)
LineScenarios ==
    {c1 :> Transact(<<Create("b", "branch", 0)>>)
     @@ c2 :> AppendTo("b")
     @@ c3 :> a
     @@ c4 :> x
     @@ c5 :> y :
        a \in {AppendTo("main"), CommitStaged("b")},
        x \in {Transact(<<Replace("main", 2)>>), Transact(<<Drop("b")>>)},
        y \in {Transact(<<Create("b", "branch", 1)>>), Transact(<<Create("t", "tag", 2)>>),
               Transact(<<Replace("b", 1), Replace("main", 3)>>)}}

CatalogScenarios ==
    {c1 :> AppendTo("main") @@ c2 :> a @@ c3 :> others[1] @@ c4 :> others[2] @@ c5 :> others[3] :
        a \in {Transact(<<Add(Schema2), Select(2)>>),
               Transact(<<Add(Schema2), Set("k", "v1")>>)},
        others \in
          {<<Transact(<<Add(Schema3), Set("k", "v2")>>),
             Transact(<<Set("k", "null"), Create("t", "tag", 1)>>), Transact(<<>>)>>,
           <<Transact(<<Select(2)>>), Transact(<<Set("k", "v2"), Set("k", "v1")>>), AppendNew>>,
           <<Transact(<<Select(1)>>), Transact(<<Select(2)>>), AppendNew>>,
           <<Transact(<<Select(1)>>), Transact(<<Drop("main")>>), AppendMixed>>}}

MCScenarios == LineScenarios \cup CatalogScenarios
=============================================================================
