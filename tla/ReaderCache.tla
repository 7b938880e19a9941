----------------------------- MODULE ReaderCache -----------------------------
(***************************************************************************)
(* The page reads of one read context (otmp/src/reader/pages.rs and        *)
(* cache.rs): tasks that read authenticated metadata pages share a byte    *)
(* budget, a first-in-first-out cache of object ranges and pages, a        *)
(* registry of range loads in flight and a bounded number of store reads.  *)
(*                                                                         *)
(* A task opens its image, which pins the revision of the checkpoint, and  *)
(* reads one page: it takes the ranges Path[r] names one after the other   *)
(* and checks the last against the authenticated hash of the page.  The    *)
(* bytes of a buffer are those of the object revision it was read from;    *)
(* only revision "v0" is what the references authenticate.                 *)
(*                                                                         *)
(* A load is named by the reader that created it and the step of its path, *)
(* and so is the buffer it fills.  It lives as long as a reader waits for  *)
(* it; `dying' holds the loads nobody waits for any more whose Drop has    *)
(* not run yet.  A reservation is returned by the Drop of what it paid     *)
(* for, so the bytes in use are those of everything alive.                 *)
(***************************************************************************)
EXTENDS Naturals, Sequences, FiniteSets, FiniteSetsExt, Functions

CONSTANTS Readers,        \* tasks, each of which reads one page
          Path,           \* reader -> its ranges, <<object, window>>; the last holds its page
          Checkpoint,     \* the object of the image's full pages
          Nodes,          \* objects checked against their hash whenever they are read
          Limit,          \* cache_budget_bytes
          Permits,        \* max_inflight_reads
          WorkCost,       \* the page being assembled
          LoadCost,       \* a load in the registry
          FillCost,       \* a range being filled, and cached
          DecodeCost,     \* a decoded node
          PageCost        \* a cached page

ASSUME CacheAssumption ==
    /\ Limit \in Nat /\ Permits \in Nat \ {0}
    /\ {WorkCost, LoadCost, FillCost, DecodeCost, PageCost} \subseteq Nat
    /\ IsFiniteSet(Readers)
    /\ \A r \in Readers : Path[r] \in Seq(Range(Path[r])) \ {<<>>}

Objects == {Checkpoint} \cup UNION {{Path[r][i][1] : i \in DOMAIN Path[r]} : r \in Readers}
Loads == UNION {{<<r, i>> : i \in DOMAIN Path[r]} : r \in Readers}
None == <<>>

VARIABLES cache,      \* keys in order of insertion, their buffers, and the
                      \* revision and number of cached ranges of each object
          registry,   \* range key -> its load
          load,       \* load -> its state, range key and the buffer it produced
          dying,      \* loads nobody waits for whose Drop has not run
          reader,     \* reader -> where it is, what it pinned, waits for, holds and was told
          stored      \* object -> the revision in the store

vars == <<cache, registry, load, dying, reader, stored>>

Object(r) == Path[r][reader[r].step][1]
Last(r) == Path[r][Len(Path[r])]
Version(r) == reader[r].pinned[Object(r)]
RangeKey(r) == <<Object(r), Path[r][reader[r].step][2], Version(r)>>

(* The cache names a range by its object, whose identity has the revision. *)
CachedRange(k) == <<"range", k[1], k[2]>>
PageKey(r) == <<"page", Last(r), reader[r].pinned[Checkpoint]>>

Init ==
    /\ cache = [order |-> <<>>, values |-> <<>>, identities |-> <<>>]
    /\ registry = <<>>
    /\ load = [l \in Loads |-> [state |-> "none", key |-> None, output |-> None]]
    /\ dying = {}
    /\ reader = [r \in Readers |->
                    [pc |-> "open", step |-> 1, pinned |-> [o \in Objects |-> "none"],
                     joined |-> None, hold |-> None, told |-> "none"]]
    /\ stored = [o \in Objects |-> "v0"]

-----------------------------------------------------------------------------
(* The budget.                                                             *)

Working(r) == reader[r].pc \in {"meta", "lookup", "join", "wait", "check"}
Filling(l) == load[l].state \in {"queued", "fetching"}

(* The buffers somebody other than the cache refers to.                    *)
Held == {reader[r].hold : r \in Readers} \cup {load[l].output : l \in Loads}

Pages(c) == {k \in DOMAIN c.values : k[1] = "page"}

CachedBuffers(c) == {c.values[k] : k \in DOMAIN c.values \ Pages(c)}

Buffers(c) == ({l \in Loads : Filling(l)} \cup Held \cup CachedBuffers(c)) \cap Loads

(* Everything alive, if the cache were c.                                  *)
InUse(c) ==
    WorkCost * Cardinality({r \in Readers : Working(r)})
      + LoadCost * Cardinality({l \in Loads : load[l].state # "none"})
      + FillCost * Cardinality(Buffers(c))
      + PageCost * Cardinality(Pages(c))

-----------------------------------------------------------------------------
(* The cache (cache.rs): its mutex makes each of these one step.           *)

RangesOf(o, ks) == {k \in ks : k[1] = "range" /\ k[2] = o}

(* The last range of an object takes its identity with it.                 *)
IdentitiesWithout(ids, gone) ==
    LET left(o) == ids[o].count - Cardinality(RangesOf(o, gone))
    IN  [o \in {x \in DOMAIN ids : left(x) > 0} |-> [ids[o] EXCEPT !.count = left(o)]]

WithoutOldest(c, n) ==
    LET gone == {c.order[i] : i \in 1..n}
    IN  [order |-> SubSeq(c.order, n + 1, Len(c.order)),
         values |-> Restrict(c.values, DOMAIN c.values \ gone),
         identities |-> IdentitiesWithout(c.identities, gone)]

(* Mutant: what is evicted is taken to be free.                            *)
MakesRoomIfFreed(i, n) == InUse(cache) + n <= Limit + FillCost * i

(* Evicting the i oldest entries makes room for n bytes.  An entry that is *)
(* still held gives nothing back.                                          *)
MakesRoom(i, n) == InUse(WithoutOldest(cache, i)) + n <= Limit

(* A reservation evicts as few entries as make room, or all in vain.       *)
Reserve(n) ==
    LET enough == {i \in 0..Len(cache.order) : MakesRoom(i, n)}
    IN  IF enough = {} THEN [ok |-> FALSE, cache |-> WithoutOldest(cache, Len(cache.order))]
        ELSE [ok |-> TRUE, cache |-> WithoutOldest(cache, Min(enough))]

Inserted(c, k, b) ==
    [c EXCEPT !.order = Append(@, k), !.values = [x \in DOMAIN @ \cup {k} |-> IF x = k THEN b ELSE @[x]]]

(* Insertion of the buffer b that load l read, under its object's identity.*)
InsertedRange(l, b) ==
    LET o == load[l].key[1]
        old == IF o \in DOMAIN cache.identities THEN cache.identities[o]
               ELSE [version |-> load[l].key[3], count |-> 0]
    IN  [Inserted(cache, CachedRange(load[l].key), b) EXCEPT
           !.identities = [x \in DOMAIN @ \cup {o} |->
                              IF x = o THEN [old EXCEPT !.count = @ + 1] ELSE @[x]]]

(* Another revision of the object is cached.                               *)
Conflicting(o, v) == o \in DOMAIN cache.identities /\ cache.identities[o].version # v

-----------------------------------------------------------------------------
(* Readers.                                                                *)

InFlight == Cardinality({l \in Loads : load[l].state = "fetching"})

Waiters(l) == {r \in Readers : reader[r].pc = "wait" /\ reader[r].joined = l}

Failed(l) == load[l].state \in {"corrupt", "exhausted", "storage"}

At(r, where) == reader[r].pc = where

Goto(r, where) == reader' = [reader EXCEPT ![r].pc = where]

Ended(r, where, told) ==
    reader' = [reader EXCEPT ![r] = [@ EXCEPT !.pc = where, !.told = told,
                                              !.hold = None, !.joined = None]]

Fail(r, error) == Ended(r, "failed", error)

(* The last waiter to leave a load starts its Drop.                        *)
Leave(r) ==
    dying' = dying \cup {l \in Loads : Waiters(l) = {r}}

(* image: the checkpoint is stated and its revision pinned.  A stat holds  *)
(* a permit while the store answers; nothing else happens to it meanwhile. *)
Open(r) ==
    /\ At(r, "open")
    /\ InFlight < Permits
    /\ \/ reader' = [reader EXCEPT ![r].pc = "page", ![r].pinned[Checkpoint] = stored[Checkpoint]]
       \/ Fail(r, "storage")
    /\ UNCHANGED <<cache, registry, load, dying, stored>>

(* copy_page: a cached page, or room to assemble it.                       *)
PageHit(r) ==
    /\ At(r, "page")
    /\ PageKey(r) \in DOMAIN cache.values
    /\ Ended(r, "done", cache.values[PageKey(r)][2])
    /\ UNCHANGED <<cache, registry, load, dying, stored>>

PageMiss(r) ==
    /\ At(r, "page")
    /\ PageKey(r) \notin DOMAIN cache.values
    /\ LET room == Reserve(WorkCost)
       IN  /\ cache' = room.cache
           /\ IF room.ok THEN Goto(r, "meta") ELSE Fail(r, "exhausted")
    /\ UNCHANGED <<registry, load, dying, stored>>

(* immutable_metadata: the revision already known for the object, the one  *)
(* its cached ranges have, or the one in the store.                        *)
MetadataKnown(r) ==
    /\ At(r, "meta")
    /\ \/ Version(r) # "none" /\ Goto(r, "lookup")
       \/ /\ Version(r) = "none" /\ Object(r) \in DOMAIN cache.identities
          /\ reader' = [reader EXCEPT ![r].pc = "lookup",
                                      ![r].pinned[Object(r)] = cache.identities[Object(r)].version]
    /\ UNCHANGED <<cache, registry, load, dying, stored>>

MetadataStat(r) ==
    /\ At(r, "meta")
    /\ Version(r) = "none" /\ Object(r) \notin DOMAIN cache.identities
    /\ InFlight < Permits
    /\ \/ reader' = [reader EXCEPT ![r].pc = "lookup", ![r].pinned[Object(r)] = stored[Object(r)]]
       \/ Fail(r, "storage")
    /\ UNCHANGED <<cache, registry, load, dying, stored>>

(* range: the cache first.  Its lock is released before the registry's is  *)
(* taken.                                                                  *)
Lookup(r) ==
    /\ At(r, "lookup")
    /\ IF Conflicting(Object(r), Version(r)) THEN Fail(r, "corrupt")
       ELSE IF CachedRange(RangeKey(r)) \in DOMAIN cache.values
       THEN reader' = [reader EXCEPT ![r].pc = "check",
                                     ![r].hold = cache.values[CachedRange(RangeKey(r))]]
       ELSE Goto(r, "join")
    /\ UNCHANGED <<cache, registry, load, dying, stored>>

(* A load of another revision of the object is registered, dead or alive.  *)
OtherRevisionInFlight(r) ==
    \E k \in DOMAIN registry : k[1] = Object(r) /\ k[3] # Version(r)

JoinRefused(r) ==
    /\ At(r, "join")
    /\ OtherRevisionInFlight(r)
    /\ Fail(r, "corrupt")
    /\ UNCHANGED <<cache, registry, load, dying, stored>>

(* Weak::upgrade: a load in the registry that nobody waits for is no help. *)
Joinable(r) == RangeKey(r) \in DOMAIN registry /\ registry[RangeKey(r)] \notin dying

JoinLoad(r) ==
    /\ At(r, "join")
    /\ ~OtherRevisionInFlight(r)
    /\ Joinable(r)
    /\ reader' = [reader EXCEPT ![r].pc = "wait", ![r].joined = registry[RangeKey(r)]]
    /\ UNCHANGED <<cache, registry, load, dying, stored>>

NewLoad(r) ==
    /\ At(r, "join")
    /\ ~OtherRevisionInFlight(r)
    /\ ~Joinable(r)
    /\ LET room == Reserve(LoadCost)
           l == <<r, reader[r].step>>
       IN  /\ cache' = room.cache
           /\ \/ /\ room.ok
                 /\ reader' = [reader EXCEPT ![r].pc = "wait", ![r].joined = l]
                 /\ load' = [load EXCEPT ![l] = [@ EXCEPT !.state = "new", !.key = RangeKey(r)]]
                 /\ registry' = [k \in DOMAIN registry \cup {RangeKey(r)} |->
                                   IF k = RangeKey(r) THEN l ELSE registry[k]]
              \/ ~room.ok /\ Fail(r, "exhausted") /\ UNCHANGED <<load, registry>>
    /\ UNCHANGED <<dying, stored>>

(* Every waiter of a finished load takes its result or its error.          *)
TakeResult(r) ==
    /\ At(r, "wait")
    /\ LET l == reader[r].joined
       IN  \/ /\ load[l].state = "ready"
              /\ reader' = [reader EXCEPT ![r] = [@ EXCEPT !.pc = "check", !.joined = None,
                                                           !.hold = load[l].output]]
           \/ Failed(l) /\ Fail(r, load[l].state)
    /\ Leave(r)
    /\ UNCHANGED <<cache, registry, load, stored>>

-----------------------------------------------------------------------------
(* Loads: fill_range, polled as long as somebody waits.                    *)

(* Mutant: a load is driven by the reader that created it alone.           *)
PolledByCreator(l) == l[1] \in Waiters(l)

Polled(l) == Waiters(l) # {}

FillFailed(l, error) == load' = [load EXCEPT ![l].state = error]

FillReady(l, b) == load' = [load EXCEPT ![l] = [@ EXCEPT !.state = "ready", !.output = b]]

(* The range may have been cached since the reader looked.                 *)
FillStart(l) ==
    /\ load[l].state = "new" /\ Polled(l)
    /\ LET k == load[l].key
           room == Reserve(FillCost)
       IN  IF Conflicting(k[1], k[3]) THEN FillFailed(l, "corrupt") /\ UNCHANGED cache
           ELSE IF CachedRange(k) \in DOMAIN cache.values
           THEN FillReady(l, cache.values[CachedRange(k)]) /\ UNCHANGED cache
           ELSE /\ cache' = room.cache
                /\ load' = [load EXCEPT ![l].state = IF room.ok THEN "queued" ELSE "exhausted"]
    /\ UNCHANGED <<registry, dying, reader, stored>>

FillFetch(l) ==
    /\ load[l].state = "queued" /\ Polled(l)
    /\ InFlight < Permits
    /\ load' = [load EXCEPT ![l].state = "fetching"]
    /\ UNCHANGED <<cache, registry, dying, reader, stored>>

(* The read is conditional on the pinned revision.                         *)
FillRead(l) ==
    /\ load[l].state = "fetching" /\ Polled(l)
    /\ LET k == load[l].key
       IN  /\ stored[k[1]] = k[3]
           /\ IF Conflicting(k[1], k[3]) THEN FillFailed(l, "corrupt") /\ UNCHANGED cache
              ELSE IF CachedRange(k) \in DOMAIN cache.values
              THEN FillReady(l, cache.values[CachedRange(k)]) /\ UNCHANGED cache
              ELSE cache' = InsertedRange(l, l) /\ FillReady(l, l)
    /\ UNCHANGED <<registry, dying, reader, stored>>

FillError(l) ==
    /\ load[l].state = "fetching" /\ Polled(l)
    /\ FillFailed(l, "storage")
    /\ UNCHANGED <<cache, registry, dying, reader, stored>>

(* Mutant: Drop removes whatever is registered under its key.              *)
UnregisteredByKey(l) == Restrict(registry, DOMAIN registry \ {load[l].key})

Unregistered(l) ==
    IF load[l].key \in DOMAIN registry /\ registry[load[l].key] = l
    THEN Restrict(registry, DOMAIN registry \ {load[l].key})
    ELSE registry

(* RangeLoad::drop, and the permit, reservations and output it owns.       *)
LoadDrop(l) ==
    /\ l \in dying
    /\ registry' = Unregistered(l)
    /\ load' = [load EXCEPT ![l] = [@ EXCEPT !.state = "none", !.output = None]]
    /\ dying' = dying \ {l}
    /\ UNCHANGED <<cache, reader, stored>>

-----------------------------------------------------------------------------
(* Checking what was read.                                                 *)

Revision(r) == load[reader[r].hold].key[3]

(* Mutant: a page is trusted if the objects on its path were.              *)
LastRangeTrusted(r) == TRUE

(* The page's bytes have the hash that the page map or checkpoint index    *)
(* gives it.                                                               *)
HashMatches(r) == Revision(r) = "v0"

(* A tree node has its reference's hash or is refused; the parts of a pack *)
(* that was replaced may still decode.  What the walk through a pack keeps *)
(* charged until it has the page is given back here after each step.       *)
CheckNode(r) ==
    /\ At(r, "check")
    /\ reader[r].step < Len(Path[r])
    /\ \/ /\ Object(r) \in Nodes => Revision(r) = "v0"
          /\ LET room == Reserve(DecodeCost)
             IN  /\ cache' = room.cache
                 /\ IF room.ok
                    THEN reader' = [reader EXCEPT ![r].pc = "meta", ![r].step = @ + 1,
                                                  ![r].hold = None]
                    ELSE Fail(r, "exhausted")
       \/ Revision(r) # "v0" /\ Fail(r, "corrupt") /\ UNCHANGED cache
    /\ UNCHANGED <<registry, load, dying, stored>>

CheckPage(r) ==
    /\ At(r, "check")
    /\ reader[r].step = Len(Path[r])
    /\ \/ ~HashMatches(r) /\ Fail(r, "corrupt") /\ UNCHANGED cache
       \/ /\ HashMatches(r)
          /\ LET room == Reserve(PageCost)
             IN  IF ~room.ok THEN Fail(r, "exhausted") /\ cache' = room.cache
                 ELSE /\ cache' = IF PageKey(r) \in DOMAIN room.cache.values THEN room.cache
                                  ELSE Inserted(room.cache, PageKey(r), <<"bytes", Revision(r)>>)
                      /\ Ended(r, "done", Revision(r))
    /\ UNCHANGED <<registry, load, dying, stored>>

(* The task is dropped at one of its awaits.                               *)
Cancel(r) ==
    /\ reader[r].pc \in {"open", "meta", "wait"}
    /\ Ended(r, "cancelled", "none")
    /\ Leave(r)
    /\ UNCHANGED <<cache, registry, load, stored>>

(* Somebody replaces an object that should never change.                   *)
Replace(o) ==
    /\ stored[o] = "v0"
    /\ stored' = [stored EXCEPT ![o] = "v1"]
    /\ UNCHANGED <<cache, registry, load, dying, reader>>

ReaderStep(r) ==
    \/ Open(r) \/ PageHit(r) \/ PageMiss(r) \/ MetadataKnown(r) \/ MetadataStat(r)
    \/ Lookup(r) \/ JoinRefused(r) \/ JoinLoad(r) \/ NewLoad(r) \/ TakeResult(r)
    \/ CheckNode(r) \/ CheckPage(r)

LoadStep(l) == FillStart(l) \/ FillFetch(l) \/ FillRead(l) \/ FillError(l) \/ LoadDrop(l)

Finished(r) == reader[r].pc \in {"done", "failed", "cancelled"}

(* Every read is over and every load is gone.                              *)
Quiet ==
    /\ \A r \in Readers : Finished(r)
    /\ dying = {}
    /\ UNCHANGED vars

Next ==
    \/ \E r \in Readers : ReaderStep(r) \/ Cancel(r)
    \/ \E l \in Loads : LoadStep(l)
    \/ \E o \in Objects : Replace(o)
    \/ Quiet

Spec == Init /\ [][Next]_vars

Progress == (\E r \in Readers : ReaderStep(r)) \/ (\E l \in Loads : LoadStep(l))

(* A task that is not dropped is polled, and so are the loads somebody     *)
(* waits for; a store request is answered in the end.  Every read is       *)
(* finite, so it is enough that somebody who can go on does.               *)
FairSpec == Spec /\ WF_vars(Progress)

-----------------------------------------------------------------------------
(* Everything alive fits the budget, also when evicted entries are still   *)
(* in use (Cache::reserve).                                                *)
BudgetKept == InUse(cache) <= Limit

(* A range somebody waits for is being loaded once: the registry has every *)
(* load that is alive, also when an older load of the same range is        *)
(* dropped late (RangeLoad::drop).                                         *)
SingleFlight ==
    \A r \in Readers :
        At(r, "wait") =>
            LET k == load[reader[r].joined].key
            IN  k \in DOMAIN registry /\ registry[k] = reader[r].joined

(* No reader is given, and the cache holds no page, that the references do *)
(* not authenticate, whatever happened to the objects (copy_page).         *)
AuthenticOnly ==
    /\ \A r \in Readers : At(r, "done") => reader[r].told = "v0"
    /\ \A k \in Pages(cache) : cache.values[k][2] = "v0"

(* A read that is not dropped is answered, although the readers that share *)
(* its loads may be dropped at any time (Shared, max_inflight_reads).      *)
EveryReadAnswered == <>(\A r \in Readers : Finished(r))
=============================================================================
