----------------------------- MODULE ScanPlanning -----------------------------
(***************************************************************************)
(* Scans of one table provider (plan_scan and what it calls in             *)
(* otmp-datafusion/src/provider.rs).                                       *)
(*                                                                         *)
(* The provider is bound to one pinned reader.  A scan lists the reader's  *)
(* files, leaves out those whose metrics refute its filter, and checks the *)
(* footer of every object it keeps before the plan may use it, a few at a  *)
(* time: the checks of all scans share one semaphore, of which a scan      *)
(* takes no more than its share.  Listing, checking and waiting for        *)
(* permits go on at once.                                                  *)
(***************************************************************************)
EXTENDS FileListing

CONSTANTS Readers,      \* the readers a provider may be opened with: store, version and selection
          Filters,      \* scan -> the filters it may have
          Scans,
          Concurrency,  \* preflight_concurrency
          PlanningBudget \* schemas and descriptors a scan may retain (planning_budget_bytes)

ASSUME PlanningAssumption == Concurrency \in Nat \ {0} /\ DOMAIN Readers = 1..Len(Readers)

VARIABLES reader,  \* the reader the provider is bound to, as it was opened
          scan,    \* what each scan is doing and has
          queue    \* scans waiting for a permit, in turn

vars == <<reader, scan, queue>>

(* What opening a reader gives: the generation it is pinned to, the image  *)
(* it reads there and the snapshot it selects in it.                       *)
OpenReader(r) ==
    LET pinned == SelectMetadata(Readers[r].history, Readers[r].wanted)
    IN  [from |-> r, pinned |-> pinned,
         table |-> Readers[r].history.generations[pinned.generation].image,
         pin |-> Open(Readers[r].history, Readers[r].wanted, Readers[r].selection)]

ASSUME ReadersAssumption ==
    \A r \in DOMAIN Readers :
        LET t == OpenReader(r).table
        IN  /\ Readers[r].selection.by \in {"ref", "id", "sequence"}
            /\ HistoryShape(Readers[r].history) /\ Readers[r].wanted \in Nat \cup {Current}
            /\ TableShape(t) /\ MetricsTrue(t)
            /\ \A s \in Scans : \A filter \in Filters[s] : FilterFits(t, filter)

table == reader.table
pin == reader.pin

NewScan ==
    [at |-> "idle", filter |-> {}, reading |-> FALSE, cursor |-> NoCursor, waits |-> FALSE, pending |-> <<>>,
     active |-> {}, descriptors |-> {}, schemas |-> {}, charged |-> 0, groups |-> <<>>, pruned |-> {},
     objects |-> {}, bindings |-> <<>>]

(* The provider is opened once; its scans come later.                      *)
Init ==
    /\ reader \in {OpenReader(r) : r \in DOMAIN Readers}
    /\ scan = [s \in Scans |-> NewScan]
    /\ queue = <<>>

Listing(s) == scan[s].at = "listing"
Ended(s) == scan[s].at \in {"planned", "failed", "gone"}

-----------------------------------------------------------------------------
(* Permits.                                                                *)

Checks == {check \in Scans \X DOMAIN table.files : check[2] \in scan[check[1]].active}
Permits == Concurrency - Cardinality(Checks) - Cardinality({s \in Scans : scan[s].at = "binding"})

ActiveScans == {s \in Scans : scan[s].at \notin {"idle", "planned", "failed", "gone"}}

(* A scan's share of the permits, one at the least.                        *)
Share == Max({1, Concurrency \div Max({1, Cardinality(ActiveScans)})})

(* The scan ends, and with it its requests and the permits of its checks.  *)
(* Only what is planned stays.                                             *)
EndScan(s, at) ==
    /\ scan' = [scan EXCEPT ![s] =
          IF at = "planned"
          THEN [NewScan EXCEPT !.at = at, !.filter = scan[s].filter, !.groups = scan[s].groups,
                               !.pruned = scan[s].pruned, !.objects = scan[s].objects]
          ELSE [NewScan EXCEPT !.at = at]]
    /\ queue' = Among(queue, Scans \ {s})
    /\ UNCHANGED reader

-----------------------------------------------------------------------------
(* Listing.                                                                *)

Start(s, filter) ==
    /\ scan[s].at = "idle" /\ pin.error = None
    /\ scan' = [scan EXCEPT ![s].at = "listing", ![s].filter = filter, ![s].reading = TRUE]
    /\ UNCHANGED <<reader, queue>>

(* The next batch is asked for when nothing of the last is left to admit.  *)
ReadOn(s) ==
    /\ Listing(s) /\ ~scan[s].reading
    /\ scan[s].pending = <<>> /\ scan[s].cursor # NoCursor
    /\ scan' = [scan EXCEPT ![s].reading = TRUE]
    /\ UNCHANGED <<reader, queue>>

(* The fields a filter is about, in their order.                          *)
Fields(filter) == Sorted({conjunct.field : conjunct \in filter})

(* The files of a batch whose metrics refute the filter.                   *)
RefutedFiles(t, ids, filter) ==
    {ids[i] : i \in {j \in DOMAIN ids : ~Keep(t, ReaderFile(t, ids, Fields(filter), j), filter)}}

(* What the reader answers a scan at its cursor, and what of it is left    *)
(* out.                                                                    *)
Answer(s) ==
    LET batch == Enumerate(table, pin, scan[s].cursor, Fields(scan[s].filter))
    IN  [batch |-> batch, refuted |-> RefutedFiles(table, batch.ids, scan[s].filter)]

Identity(f) == <<table.files[f].hash, table.files[f].length>>
UriOf(f) == table.files[f].uri
SchemaOf(f) == table.files[f].schema

(* read_batch: the schemas of the files that the scan does not have yet.   *)
NewSchemas(s, batch) == {SchemaOf(f) : f \in ToSet(batch.ids)} \ scan[s].schemas

(* Mutant: a file left out is not remembered.                              *)
RegisteredKept(ids, kept) == kept

(* The registry of URIs also sees the files that are left out.             *)
Registered(ids, kept) == ids

Conflicting(descriptors) == \E d, e \in descriptors : d[1] = e[1] /\ d[2] # e[2]

(* The files kept whose objects no earlier file asked to be checked.       *)
FirstOfObject(groups, kept) ==
    LET all == groups \o kept
        first == {i \in DOMAIN all : \A j \in DOMAIN all : j < i => UriOf(all[j]) # UriOf(all[i])}
    IN  Among(kept, {all[i] : i \in {j \in first : j > Len(groups)}})

(* The scan with a batch: its files are charged, registered, and left out  *)
(* or kept; the first file kept of an object has its footer checked and    *)
(* the others of the object share that.                                    *)
WithBatch(s, batch, kept, refuted) ==
    [scan[s] EXCEPT !.reading = FALSE, !.cursor = batch.next,
                    !.schemas = @ \cup NewSchemas(s, batch),
                    !.charged = @ + Cardinality(NewSchemas(s, batch)) + Len(batch.ids),
                    !.descriptors = @ \cup {<<UriOf(f), Identity(f)>> : f \in ToSet(Registered(batch.ids, kept))},
                    !.pruned = @ \cup refuted, !.groups = @ \o kept,
                    !.pending = FirstOfObject(scan[s].groups, kept)]

(* A batch comes, with the schemas that are new.                           *)
BatchArrives(s) ==
    /\ Listing(s) /\ scan[s].reading
    /\ \E answer \in {Answer(s)} :
       \E kept \in {Among(answer.batch.ids, ToSet(answer.batch.ids) \ answer.refuted)} :
       \E read \in {WithBatch(s, answer.batch, kept, answer.refuted)} :
          IF \/ answer.batch.error # None
             \/ \E id \in NewSchemas(s, answer.batch) : SchemaError(table, id) # None
             \/ read.charged > PlanningBudget
             \/ Conflicting(read.descriptors)
          THEN EndScan(s, "failed")
          ELSE scan' = [scan EXCEPT ![s] = read] /\ UNCHANGED <<reader, queue>>

(* The engine, the store or a budget fails the batch.                      *)
BatchFails(s) == Listing(s) /\ scan[s].reading /\ EndScan(s, "failed")

-----------------------------------------------------------------------------
(* Checking objects.                                                       *)

RequestPermit(s) ==
    /\ Listing(s) /\ scan[s].pending # <<>> /\ ~scan[s].waits
    /\ Cardinality(scan[s].active) < Share
    /\ scan' = [scan EXCEPT ![s].waits = TRUE]
    /\ queue' = Append(queue, s)
    /\ UNCHANGED reader

(* The semaphore serves the scan that waited longest: the next object's    *)
(* check begins, or that of the next file to bind.                         *)
Grant ==
    /\ queue # <<>> /\ Permits > 0
    /\ LET s == Head(queue)
       IN  scan' = IF Listing(s)
                   THEN [scan EXCEPT ![s].waits = FALSE, ![s].active = @ \cup {Head(scan[s].pending)},
                                     ![s].pending = Tail(@)]
                   ELSE [scan EXCEPT ![s].waits = FALSE, ![s].at = "binding"]
    /\ queue' = Tail(queue)
    /\ UNCHANGED reader

(* The object has the length the file says.                                *)
LengthMatches(f) == table.files[f].length = Object(table, f).length

(* preflight_object: the object has the length the file says and its       *)
(* footer's columns fit the file's schema, or the scan fails.              *)
PreflightDone(s, f) ==
    /\ Listing(s) /\ f \in scan[s].active
    /\ IF LengthMatches(f) /\ Adapts(table, f)
       THEN /\ scan' = [scan EXCEPT ![s].active = @ \ {f}, ![s].objects = @ \cup {UriOf(f)}]
            /\ UNCHANGED <<reader, queue>>
       ELSE EndScan(s, "failed")

(* The store or the footer cache fails.                                    *)
PreflightFails(s) == Listing(s) /\ scan[s].active # {} /\ EndScan(s, "failed")

-----------------------------------------------------------------------------
(* Assembling the plan.                                                    *)

(* The schema an object's footer was checked with.                         *)
CheckedSchema(s, uri) ==
    LET groups == scan[s].groups
    IN  SchemaOf(groups[Min({j \in DOMAIN groups : UriOf(groups[j]) = uri})])

(* The files of objects that were checked with another schema.             *)
ToBind(s) ==
    LET groups == scan[s].groups
    IN  Among(groups, {f \in ToSet(groups) : CheckedSchema(s, UriOf(f)) # SchemaOf(f)})

Assemble(s) ==
    /\ Listing(s) /\ ~scan[s].reading /\ scan[s].cursor = NoCursor
    /\ scan[s].active = {} /\ scan[s].pending = <<>>
    /\ scan' = [scan EXCEPT ![s].at = "assembling", ![s].bindings = ToBind(s)]
    /\ UNCHANGED <<reader, queue>>

RequestBinding(s) ==
    /\ scan[s].at = "assembling" /\ scan[s].bindings # <<>> /\ ~scan[s].waits
    /\ scan' = [scan EXCEPT ![s].waits = TRUE]
    /\ queue' = Append(queue, s)
    /\ UNCHANGED reader

BindingDone(s) ==
    /\ scan[s].at = "binding"
    /\ IF Adapts(table, Head(scan[s].bindings))
       THEN /\ scan' = [scan EXCEPT ![s].at = "assembling", ![s].bindings = Tail(@)]
            /\ UNCHANGED <<reader, queue>>
       ELSE EndScan(s, "failed")

BindingFails(s) == scan[s].at = "binding" /\ EndScan(s, "failed")

Planned(s) ==
    /\ scan[s].at = "assembling" /\ scan[s].bindings = <<>>
    /\ EndScan(s, "planned")

(* The caller drops the scan.                                              *)
DropScan(s) == s \in ActiveScans /\ EndScan(s, "gone")

-----------------------------------------------------------------------------
Progress ==
    \/ \E s \in Scans :
        \/ ReadOn(s) \/ BatchFails(s) \/ BatchArrives(s) \/ RequestPermit(s)
        \/ (\E f \in scan[s].active : PreflightDone(s, f)) \/ PreflightFails(s)
        \/ Assemble(s) \/ RequestBinding(s) \/ BindingDone(s) \/ BindingFails(s) \/ Planned(s)
    \/ Grant

Done == (pin.error # None \/ \A s \in Scans : Ended(s)) /\ UNCHANGED vars

Next ==
    \/ \E s \in Scans : (\E filter \in Filters[s] : Start(s, filter)) \/ DropScan(s)
    \/ Progress
    \/ Done

Spec == Init /\ [][Next]_vars

(* Queries of the engine and requests to the store end.                    *)
FairSpec == Spec /\ WF_vars(Progress)

-----------------------------------------------------------------------------
(* A reader is pinned to the version it asked for, in the history of HEAD  *)
(* and nowhere else; and it is opened whenever that version is still       *)
(* retained, however the physical parents skip or repeat commits.  The     *)
(* runtime's own selection answers the same of every history that          *)
(* publication leaves.                                                     *)
PinnedToWanted ==
    LET h == Readers[reader.from].history
        wanted == Readers[reader.from].wanted
        version == IF wanted = Current THEN h.version ELSE wanted
        chosen == reader.pinned
    IN  /\ chosen.error = None =>
              /\ h.generations[chosen.generation].version = version
              /\ h.generations[chosen.generation].commit \in CommitsOf(h)
              /\ chosen.generation \in GenerationsOf(h)
              /\ chosen.commit = h.generations[chosen.generation].commit
        /\ (Intact(h) /\ \E g \in GenerationsOf(h) : h.generations[g].version = version)
              => chosen.error = None
        /\ Intact(h) => PinMetadata(h, wanted) = chosen

(* A plan accounts for every file of the pinned selection exactly once,    *)
(* scanned or left out, however the pages fall (branch, historical).       *)
PlanExact ==
    \A s \in Scans : scan[s].at = "planned" =>
        /\ ToSet(scan[s].groups) \cup scan[s].pruned = FilesOf(table, pin)
        /\ ToSet(scan[s].groups) \cap scan[s].pruned = {}
        /\ Len(scan[s].groups) = Cardinality(ToSet(scan[s].groups))

(* A file left out has no row the filter would let through, as the scan    *)
(* would have read it: columns that are missing, renamed or have changed   *)
(* their type, missing metrics and NaN included (prune, bind).             *)
NoMatchingRowLost ==
    \A s \in Scans : \A f \in scan[s].pruned : \A row \in Object(table, f).rows :
        \E conjunct \in scan[s].filter : ~Holds(Reads(table, f, conjunct.field, row), conjunct)

(* The objects of a plan were each checked against the schema of every     *)
(* file that uses them, and no file of the selection, left out or not,     *)
(* claims other content for their URI.                                     *)
PlanValidated ==
    \A s \in Scans : scan[s].at = "planned" =>
        \A f \in ToSet(scan[s].groups) :
            /\ Adapts(table, f) /\ UriOf(f) \in scan[s].objects
            /\ \A g \in FilesOf(table, pin) : UriOf(g) = UriOf(f) => Identity(g) = Identity(f)

(* Every scan ends, also on metadata whose snapshots are their own         *)
(* ancestors, and however the scans share the permits.                     *)
EveryScanEnds == \A s \in Scans : (s \in ActiveScans) ~> Ended(s)
===============================================================================
