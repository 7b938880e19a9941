-------------------------- MODULE ReaderCacheProofs --------------------------
(***************************************************************************)
(* Proofs about ReaderCache, for any readers, paths, costs and limits.     *)
(***************************************************************************)
EXTENDS ReaderCache, FiniteSetTheorems, TLAPS

-----------------------------------------------------------------------------
(* The shape of the state, and what is left of the cache after eviction.   *)

CacheFields == {"order", "values", "identities"}
ReaderFields == {"pc", "step", "pinned", "joined", "hold", "told"}
LoadFields == {"state", "key", "output"}

CacheShape(c) ==
    /\ DOMAIN c = CacheFields
    /\ \E S : c.order \in Seq(S)
    /\ IsFiniteSet(DOMAIN c.values)

Shape ==
    /\ DOMAIN reader = Readers
    /\ \A r \in Readers : DOMAIN reader[r] = ReaderFields /\ reader[r].step \in DOMAIN Path[r]
    /\ DOMAIN load = Loads
    /\ \A l \in Loads : DOMAIN load[l] = LoadFields
    /\ CacheShape(cache)

(* Cache c has nothing that the cache has not.                             *)
PartOfCache(c) ==
    /\ DOMAIN c = CacheFields
    /\ \E S : c.order \in Seq(S)
    /\ DOMAIN c.values \subseteq DOMAIN cache.values
    /\ \A k \in DOMAIN c.values : c.values[k] = cache.values[k]

(* What eviction leaves is part of the cache.                              *)
LEMMA Evicted ==
    ASSUME Shape, NEW n \in 0..Len(cache.order)
    PROVE  PartOfCache(WithoutOldest(cache, n))
<1> DEFINE c == WithoutOldest(cache, n)
<1>1. PICK S : cache.order \in Seq(S)
  BY DEF Shape, CacheShape
<1>2. Len(cache.order) \in Nat
  BY <1>1
<1>3. c.order = SubSeq(cache.order, n + 1, Len(cache.order))
  BY DEF WithoutOldest
<1>4. c.order \in Seq(S)
  BY <1>1, <1>2, <1>3
<1>5. PICK gone : c.values = Restrict(cache.values, DOMAIN cache.values \ gone)
  BY DEF WithoutOldest
<1>6. DOMAIN c = CacheFields
  BY DEF WithoutOldest, CacheFields
<1> HIDE DEF c
<1>7. PartOfCache(c)
  BY <1>4, <1>5, <1>6 DEF PartOfCache, Restrict
<1> QED
  BY <1>7 DEF c

Less == {pair \in Nat \X Nat : pair[1] < pair[2]}

(* A set of natural numbers has a least element.                           *)
LEMMA LeastNumber ==
    ASSUME NEW T \in SUBSET Nat, T # {}
    PROVE  Min(T) \in T
<1>1. OpToRel(<, Nat) = Less
  BY Zenon DEF OpToRel, Less
<1>2. IsWellFoundedOn(Less, Nat)
  BY <1>1, NatLessThanWellFounded, Zenon
<1>3. PICK n \in T : \A m \in T : ~(<<m, n>> \in Less)
  BY <1>2, WFMin
<1>4. \A m, k \in Nat : m < k => <<m, k>> \in Less
  BY DEF Less
<1>5. ASSUME NEW m \in T PROVE n <= m
  <2>1. ~(m < n)
    BY <1>3, <1>4, Zenon
  <2> QED
    BY <2>1
<1> QED
  BY <1>5 DEF Min

(* A reservation that succeeds finds room for its bytes, and one that does *)
(* not leaves part of the cache as well.                                   *)
LEMMA Reserved ==
    ASSUME Shape, NEW n
    PROVE  /\ PartOfCache(Reserve(n).cache)
           /\ Reserve(n).ok => InUse(Reserve(n).cache) + n <= Limit
           /\ Reserve(n).ok \in BOOLEAN
<1> DEFINE enough == {i \in 0..Len(cache.order) : MakesRoom(i, n)}
<1>1. Len(cache.order) \in Nat
  BY DEF Shape, CacheShape
<1>2. CASE enough = {}
  <2>1. Reserve(n) = [ok |-> FALSE, cache |-> WithoutOldest(cache, Len(cache.order))]
    BY <1>2 DEF Reserve
  <2> QED
    BY <1>1, <2>1, Evicted
<1>3. CASE enough # {}
  <2>1. Reserve(n) = [ok |-> TRUE, cache |-> WithoutOldest(cache, Min(enough))]
    BY <1>3 DEF Reserve
  <2>2. Min(enough) \in enough
    BY <1>1, <1>3, LeastNumber
  <2>3. Min(enough) \in 0..Len(cache.order) /\ MakesRoom(Min(enough), n)
    BY <2>2
  <2> QED
    BY <2>1, <2>3, Evicted DEF MakesRoom
<1> QED
  BY <1>2, <1>3

-----------------------------------------------------------------------------
(* Loads.                                                                  *)

(* Places of a reader that has not asked for the load of its step.         *)
Before == {"open", "page", "meta", "lookup", "join"}

(* A waiting reader waits for a load the registry has, a registered load   *)
(* is alive under its key, nobody waits for a load that is being dropped,  *)
(* and the loads a reader has not come to are unused.                      *)
Registered ==
    /\ \A k \in DOMAIN registry :
           registry[k] \in Loads /\ load[registry[k]].key = k /\ load[registry[k]].state # "none"
    /\ \A l \in dying : l \in Loads /\ load[l].state # "none" /\ Waiters(l) = {}
    /\ \A r \in Readers : At(r, "wait") =>
           reader[r].joined \in Loads /\ load[reader[r].joined].state # "none"
    /\ SingleFlight
    /\ \A r \in Readers : \A i \in DOMAIN Path[r] :
           (i > reader[r].step \/ (i = reader[r].step /\ reader[r].pc \in Before))
             => load[<<r, i>>].state = "none"

Structure == Shape /\ Registered

(* A load of a path's range.                                               *)
LEMMA LoadOf == \A r \in Readers : \A i \in DOMAIN Path[r] : <<r, i>> \in Loads
  BY DEF Loads

(* The first range of a path is there.                                     *)
LEMMA FirstOfPath == \A r \in Readers : DOMAIN Path[r] = 1..Len(Path[r]) /\ Len(Path[r]) \in Nat \ {0}
  BY CacheAssumption

LEMMA StructureInit == Init => Structure
<1> SUFFICES ASSUME Init PROVE Structure
  OBVIOUS
<1>1. \A r \in Readers : 1 \in DOMAIN Path[r]
  BY FirstOfPath
<1>2. Shape
  <2>1. cache.order \in Seq({}) /\ DOMAIN cache.values = {} /\ DOMAIN cache = CacheFields
    BY DEF Init, CacheFields
  <2>2. IsFiniteSet(DOMAIN cache.values)
    BY <2>1, FS_EmptySet
  <2> QED
    BY <1>1, <2>1, <2>2 DEF Init, Shape, CacheShape, ReaderFields, LoadFields
<1>3. Registered
  BY <1>1, LoadOf DEF Init, Registered, SingleFlight, At
<1> QED
  BY <1>2, <1>3 DEF Structure

(* Part of the cache, and a cache with one more entry, have its shape.     *)
LEMMA PartShape ==
    ASSUME Shape, NEW c, PartOfCache(c)
    PROVE  CacheShape(c)
  BY FS_Subset DEF Shape, CacheShape, PartOfCache

LEMMA InsertedShape ==
    ASSUME NEW c, CacheShape(c), NEW k, NEW b
    PROVE  /\ CacheShape(Inserted(c, k, b))
           /\ DOMAIN Inserted(c, k, b).values = DOMAIN c.values \cup {k}
           /\ \A x \in DOMAIN c.values : x # k => Inserted(c, k, b).values[x] = c.values[x]
           /\ Inserted(c, k, b).values[k] = b
<1> DEFINE d == Inserted(c, k, b)
<1>1. /\ DOMAIN d = CacheFields
      /\ d.order = Append(c.order, k)
      /\ d.values = [x \in DOMAIN c.values \cup {k} |-> IF x = k THEN b ELSE c.values[x]]
  BY DEF Inserted, CacheShape, CacheFields
<1>2. PICK S : c.order \in Seq(S)
  BY DEF CacheShape
<1>3. c.order \in Seq(S \cup {k})
  BY <1>2
<1>4. d.order \in Seq(S \cup {k})
  BY <1>1, <1>3
<1>5. IsFiniteSet(DOMAIN d.values)
  BY <1>1, FS_AddElement DEF CacheShape
<1> QED
  BY <1>1, <1>4, <1>5 DEF CacheShape

(* A step of reader r alone.                                               *)
Moved(r) ==
    /\ DOMAIN reader' = Readers
    /\ DOMAIN reader'[r] = ReaderFields
    /\ reader'[r].step \in DOMAIN Path[r]
    /\ \A q \in Readers \ {r} : reader'[q] = reader[q]
    /\ \A i \in DOMAIN Path[r] :
          (i > reader'[r].step \/ (i = reader'[r].step /\ reader'[r].pc \in Before))
            => (i > reader[r].step \/ (i = reader[r].step /\ reader[r].pc \in Before))

(* A reader that does not start to wait, and leaves the load it waited     *)
(* for, disturbs no other.                                                 *)
LEMMA ReaderMoves ==
    ASSUME Structure, NEW r \in Readers, Moved(r), UNCHANGED <<registry, load>>,
           reader'[r].pc # "wait", CacheShape(cache)',
           Leave(r) \/ (~At(r, "wait") /\ UNCHANGED dying)
    PROVE  Structure'
<1>1. Shape'
  BY DEF Structure, Shape, Moved
<1>2. \A q \in Readers : At(q, "wait")' => q # r /\ At(q, "wait") /\ reader'[q] = reader[q]
  BY DEF At, Moved
<1>3. \A l \in Loads : Waiters(l)' = Waiters(l) \ {r}
  BY <1>2 DEF Waiters, At, Moved
<1>4. \A l \in dying' : l \in Loads /\ load[l].state # "none" /\ Waiters(l)' = {}
  <2>1. \A l \in dying : l \in Loads /\ load[l].state # "none" /\ Waiters(l) = {}
    BY DEF Structure, Registered
  <2>2. \A l \in Loads : Waiters(l) = {r} => load[l].state # "none"
    BY DEF Structure, Registered, Waiters, At
  <2> QED
    BY <1>3, <2>1, <2>2 DEF Leave
<1>5. SingleFlight'
  BY <1>2 DEF Structure, Registered, SingleFlight, At
<1>6. Registered'
  BY <1>2, <1>4, <1>5 DEF Structure, Registered, Moved, At
<1> QED
  BY <1>1, <1>6 DEF Structure

(* A load that goes on stays registered under its key.                     *)
LEMMA LoadMoves ==
    ASSUME Structure, NEW l \in Loads, UNCHANGED <<registry, dying, reader>>, CacheShape(cache)',
           DOMAIN load' = Loads, DOMAIN load'[l] = LoadFields,
           \A m \in Loads \ {l} : load'[m] = load[m],
           load'[l].key = load[l].key, load[l].state # "none", load'[l].state # "none"
    PROVE  Structure'
<1>1. Shape'
  BY DEF Structure, Shape
<1>2. \A m \in Loads : load'[m].key = load[m].key /\ (load'[m].state = "none" <=> load[m].state = "none")
  OBVIOUS
<1>3. \A m \in Loads : Waiters(m)' = Waiters(m)
  BY DEF Waiters
<1>4. SingleFlight'
  BY <1>2 DEF Structure, Registered, SingleFlight, At
<1>5. Registered'
  BY <1>2, <1>3, <1>4, LoadOf DEF Structure, Registered, At
<1> QED
  BY <1>1, <1>5 DEF Structure

(* What a reservation leaves of the cache has its shape.                   *)
LEMMA ReservedShape ==
    ASSUME Shape, NEW n
    PROVE  CacheShape(Reserve(n).cache)
  BY Reserved, PartShape

(* A new load takes the place of one nobody waits for.                     *)
LEMMA NewLoadStructure ==
    ASSUME Structure, NEW r \in Readers, NewLoad(r)
    PROVE  Structure'
<1> DEFINE l == <<r, reader[r].step>>
<1>1. Shape /\ At(r, "join") /\ reader[r].step \in DOMAIN Path[r] /\ l \in Loads
  BY LoadOf DEF Structure, Shape, NewLoad
<1>2. CacheShape(cache)'
  BY <1>1, ReservedShape DEF NewLoad
<1>3. CASE Fail(r, "exhausted") /\ UNCHANGED <<load, registry>>
  <2>1. Moved(r) /\ reader'[r].pc # "wait" /\ UNCHANGED dying /\ ~At(r, "wait")
    BY <1>1, <1>3 DEF Moved, NewLoad, Fail, Ended, Shape, ReaderFields, Before, At
  <2> QED
    BY <1>2, <1>3, <2>1, ReaderMoves
<1>4. CASE /\ reader' = [reader EXCEPT ![r].pc = "wait", ![r].joined = l]
           /\ load' = [load EXCEPT ![l] = [@ EXCEPT !.state = "new", !.key = RangeKey(r)]]
           /\ registry' = [k \in DOMAIN registry \cup {RangeKey(r)} |->
                             IF k = RangeKey(r) THEN l ELSE registry[k]]
  <2>1. /\ DOMAIN reader' = Readers /\ DOMAIN reader'[r] = ReaderFields
        /\ reader'[r].pc = "wait" /\ reader'[r].joined = l /\ reader'[r].step = reader[r].step
        /\ \A q \in Readers \ {r} : reader'[q] = reader[q]
    BY <1>1, <1>4 DEF Shape, ReaderFields
  <2>2. /\ DOMAIN load' = Loads /\ DOMAIN load'[l] = LoadFields
        /\ load'[l].state = "new" /\ load'[l].key = RangeKey(r)
        /\ \A m \in Loads \ {l} : load'[m] = load[m]
    BY <1>1, <1>4 DEF Shape, LoadFields
  <2>3. load[l].state = "none"
    BY <1>1 DEF Structure, Registered, At, Before
  <2>4. l \notin dying /\ \A k \in DOMAIN registry : registry[k] # l
    BY <2>3 DEF Structure, Registered
  <2>5. \A q \in Readers : At(q, "wait") => /\ q # r /\ reader[q].joined # l
                                           /\ load[reader[q].joined].key # RangeKey(r)
    <3> SUFFICES ASSUME NEW q \in Readers, At(q, "wait")
                 PROVE  /\ q # r /\ reader[q].joined # l
                        /\ load[reader[q].joined].key # RangeKey(r)
      OBVIOUS
    <3>1. reader[q].joined \in Loads /\ load[reader[q].joined].state # "none"
      BY DEF Structure, Registered
    <3>2. reader[q].joined \notin dying
      BY <3>1 DEF Structure, Registered, Waiters, At
    <3>3. /\ load[reader[q].joined].key \in DOMAIN registry
          /\ registry[load[reader[q].joined].key] = reader[q].joined
      BY DEF Structure, Registered, SingleFlight
    <3>4. ~Joinable(r)
      BY DEF NewLoad
    <3> QED
      BY <1>1, <2>3, <3>1, <3>2, <3>3, <3>4 DEF Joinable, At
  <2>6. Shape'
    BY <1>1, <1>2, <2>1, <2>2 DEF Shape
  <2>7. \A m \in Loads : m # l => Waiters(m)' = Waiters(m)
    BY <1>1, <2>1 DEF Waiters, At
  <2>8. SingleFlight'
    BY <1>4, <2>1, <2>2, <2>5 DEF Structure, Registered, SingleFlight, At
  <2>9. \A k \in DOMAIN registry' :
           registry'[k] \in Loads /\ load'[registry'[k]].key = k /\ load'[registry'[k]].state # "none"
    BY <1>1, <1>4, <2>2, <2>4 DEF Structure, Registered
  <2>10. \A m \in dying' : m \in Loads /\ load'[m].state # "none" /\ Waiters(m)' = {}
    BY <2>2, <2>4, <2>7 DEF Structure, Registered, NewLoad
  <2>11. \A q \in Readers : At(q, "wait")' =>
           reader'[q].joined \in Loads /\ load'[reader'[q].joined].state # "none"
    BY <1>1, <2>1, <2>2, <2>5 DEF Structure, Registered, At
  <2>12. \A q \in Readers : \A i \in DOMAIN Path[q] :
           (i > reader'[q].step \/ (i = reader'[q].step /\ reader'[q].pc \in Before))
             => load'[<<q, i>>].state = "none"
    <3> SUFFICES ASSUME NEW q \in Readers, NEW i \in DOMAIN Path[q],
                        i > reader'[q].step \/ (i = reader'[q].step /\ reader'[q].pc \in Before)
                 PROVE  load'[<<q, i>>].state = "none"
      OBVIOUS
    <3>1. i > reader[q].step \/ (i = reader[q].step /\ reader[q].pc \in Before)
      BY <2>1 DEF Before
    <3>2. load[<<q, i>>].state = "none" /\ <<q, i>> \in Loads
      BY <3>1, LoadOf DEF Structure, Registered
    <3>3. <<q, i>> # l
      <4>1. q = r => i # reader[r].step
        BY <1>1, <2>1, FirstOfPath DEF Before
      <4> QED
        BY <4>1
    <3> QED
      BY <2>2, <3>2, <3>3
  <2> QED
    BY <2>6, <2>8, <2>9, <2>10, <2>11, <2>12 DEF Structure, Registered
<1> QED
  BY <1>3, <1>4 DEF NewLoad

(* A reader joins a registered load that somebody waits for.               *)
LEMMA JoinLoadStructure ==
    ASSUME Structure, NEW r \in Readers, JoinLoad(r)
    PROVE  Structure'
<1> DEFINE l == registry[RangeKey(r)]
<1>1. /\ RangeKey(r) \in DOMAIN registry /\ l \notin dying /\ l \in Loads
      /\ load[l].key = RangeKey(r) /\ load[l].state # "none"
  BY DEF Structure, Registered, JoinLoad, Joinable
<1>2. /\ DOMAIN reader' = Readers /\ DOMAIN reader'[r] = ReaderFields
      /\ reader'[r].pc = "wait" /\ reader'[r].joined = l /\ reader'[r].step = reader[r].step
      /\ \A q \in Readers \ {r} : reader'[q] = reader[q]
  BY DEF JoinLoad, Structure, Shape, ReaderFields
<1>3. Shape'
  BY <1>2 DEF Structure, Shape, JoinLoad
<1>4. \A m \in Loads : m # l => Waiters(m)' = Waiters(m)
  BY <1>2 DEF Waiters, JoinLoad, At
<1>5. SingleFlight'
  BY <1>1, <1>2 DEF Structure, Registered, SingleFlight, At, JoinLoad
<1>6. \A m \in dying : m \in Loads /\ load[m].state # "none" /\ Waiters(m)' = {}
  BY <1>1, <1>4 DEF Structure, Registered
<1>7. Registered'
  BY <1>1, <1>2, <1>5, <1>6 DEF Structure, Registered, At, JoinLoad, Before
<1> QED
  BY <1>3, <1>7 DEF Structure

(* Dropping a load takes it, and no later load of its range, out of the    *)
(* registry.                                                               *)
LEMMA LoadDropStructure ==
    ASSUME Structure, NEW l \in Loads, LoadDrop(l)
    PROVE  Structure'
<1>1. l \in dying /\ \A q \in Readers : At(q, "wait") => reader[q].joined # l
  BY DEF LoadDrop, Structure, Registered, Waiters, At
<1>2. /\ DOMAIN load' = Loads /\ DOMAIN load'[l] = LoadFields /\ load'[l].state = "none"
      /\ load'[l].key = load[l].key
      /\ \A m \in Loads \ {l} : load'[m] = load[m]
  BY DEF LoadDrop, Structure, Shape, LoadFields
<1>3. Shape'
  BY <1>2 DEF Structure, Shape, LoadDrop
<1>4. /\ DOMAIN registry' = {k \in DOMAIN registry : registry[k] # l}
      /\ \A k \in DOMAIN registry' : registry'[k] = registry[k]
  <2>1. \A k \in DOMAIN registry : registry[k] = l => k = load[l].key
    BY DEF Structure, Registered
  <2> QED
    BY <2>1 DEF LoadDrop, Unregistered, Restrict
<1>5. SingleFlight'
  BY <1>1, <1>2, <1>4 DEF LoadDrop, Structure, Registered, SingleFlight, At
<1>6. \A m \in Loads : Waiters(m)' = Waiters(m)
  BY DEF Waiters, LoadDrop
<1>7. \A k \in DOMAIN registry' :
         registry'[k] \in Loads /\ load'[registry'[k]].key = k /\ load'[registry'[k]].state # "none"
  BY <1>2, <1>4 DEF Structure, Registered
<1>8. \A m \in dying' : m \in Loads /\ load'[m].state # "none" /\ Waiters(m)' = {}
  BY <1>2, <1>6 DEF Structure, Registered, LoadDrop
<1>9. \A q \in Readers : At(q, "wait")' =>
         reader'[q].joined \in Loads /\ load'[reader'[q].joined].state # "none"
  BY <1>1, <1>2 DEF Structure, Registered, At, LoadDrop
<1>10. \A q \in Readers : \A i \in DOMAIN Path[q] :
         (i > reader'[q].step \/ (i = reader'[q].step /\ reader'[q].pc \in Before))
           => load'[<<q, i>>].state = "none"
  BY <1>2, LoadOf DEF Structure, Registered, LoadDrop
<1> QED
  BY <1>3, <1>5, <1>7, <1>8, <1>9, <1>10 DEF Structure, Registered

(* A reader that ends, and one that goes on with its step, move alone.     *)
LEMMA EndedMoves ==
    ASSUME Shape, NEW r \in Readers, NEW where \in {"done", "failed", "cancelled"}, NEW told,
           Ended(r, where, told)
    PROVE  /\ Moved(r) /\ reader'[r].pc = where /\ reader'[r].told = told
           /\ reader'[r].hold = None
  BY DEF Shape, ReaderFields, Ended, Moved, Before

LEMMA GotoMoves ==
    ASSUME Shape, NEW r \in Readers, reader[r].pc \in Before, NEW where, Goto(r, where)
    PROVE  /\ Moved(r) /\ reader'[r].pc = where /\ reader'[r].told = reader[r].told
           /\ reader'[r].hold = reader[r].hold
  BY DEF Shape, ReaderFields, Goto, Moved, Before

(* Readers, but for the two steps that start to wait.                      *)
LEMMA ReaderStructure ==
    ASSUME Structure, NEW r \in Readers,
           \/ Open(r) \/ PageHit(r) \/ PageMiss(r) \/ MetadataKnown(r) \/ MetadataStat(r)
           \/ Lookup(r) \/ JoinRefused(r) \/ TakeResult(r) \/ CheckNode(r) \/ CheckPage(r) \/ Cancel(r)
    PROVE  Structure'
<1> USE DEF At, Before, ReaderFields
<1>0. /\ Shape /\ DOMAIN reader = Readers /\ DOMAIN reader[r] = ReaderFields
      /\ reader[r].step \in DOMAIN Path[r] /\ CacheShape(cache)
  BY DEF Structure, Shape
<1>1. ASSUME Open(r) \/ PageHit(r) \/ MetadataKnown(r) \/ MetadataStat(r) \/ Lookup(r) \/ JoinRefused(r)
      PROVE  Structure'
  <2>1. UNCHANGED <<cache, registry, load, dying>>
    BY <1>1 DEF Open, PageHit, MetadataKnown, MetadataStat, Lookup, JoinRefused
  <2>2. Moved(r) /\ reader'[r].pc # "wait" /\ ~At(r, "wait")
    <3>1. CASE Open(r)
      BY <1>0, <3>1, EndedMoves DEF Open, Fail, Moved
    <3>2. CASE PageHit(r)
      BY <1>0, <3>2, EndedMoves DEF PageHit
    <3>3. CASE MetadataKnown(r)
      BY <1>0, <3>3, GotoMoves DEF MetadataKnown, Moved
    <3>4. CASE MetadataStat(r)
      BY <1>0, <3>4, EndedMoves DEF MetadataStat, Fail, Moved
    <3>5. CASE Lookup(r)
      <4>1. CASE Fail(r, "corrupt") \/ Goto(r, "join")
        BY <1>0, <3>5, <4>1, EndedMoves, GotoMoves DEF Lookup, Fail
      <4>2. CASE reader' = [reader EXCEPT ![r].pc = "check",
                                          ![r].hold = cache.values[CachedRange(RangeKey(r))]]
        BY <1>0, <3>5, <4>2 DEF Lookup, Moved
      <4> QED
        BY <3>5, <4>1, <4>2 DEF Lookup
    <3>6. CASE JoinRefused(r)
      BY <1>0, <3>6, EndedMoves DEF JoinRefused, Fail
    <3> QED
      BY <1>1, <3>1, <3>2, <3>3, <3>4, <3>5, <3>6
  <2> QED
    BY <1>0, <2>1, <2>2, ReaderMoves
<1>2. CASE PageMiss(r)
  <2>1. CacheShape(cache)'
    BY <1>0, <1>2, ReservedShape DEF PageMiss
  <2>2. Moved(r) /\ reader'[r].pc # "wait" /\ ~At(r, "wait") /\ UNCHANGED <<registry, load, dying>>
    BY <1>0, <1>2, EndedMoves, GotoMoves DEF PageMiss, Fail
  <2> QED
    BY <2>1, <2>2, ReaderMoves
<1>3. CASE TakeResult(r)
  <2>1. Moved(r) /\ reader'[r].pc # "wait" /\ Leave(r) /\ UNCHANGED <<cache, registry, load>>
    <3>1. CASE Fail(r, load[reader[r].joined].state)
      BY <1>0, <1>3, <3>1, EndedMoves DEF TakeResult, Fail
    <3>2. CASE reader' = [reader EXCEPT ![r] = [@ EXCEPT !.pc = "check", !.joined = None,
                                                         !.hold = load[reader[r].joined].output]]
      BY <1>0, <1>3, <3>2 DEF TakeResult, Moved
    <3> QED
      BY <1>3, <3>1, <3>2 DEF TakeResult
  <2> QED
    BY <1>0, <2>1, ReaderMoves
<1>4. CASE CheckNode(r)
  <2>1. CacheShape(cache)'
    BY <1>0, <1>4, ReservedShape DEF CheckNode
  <2>2. reader[r].step < Len(Path[r]) => reader[r].step + 1 \in DOMAIN Path[r]
    BY <1>0, FirstOfPath
  <2>3. Moved(r) /\ reader'[r].pc # "wait" /\ ~At(r, "wait") /\ UNCHANGED <<registry, load, dying>>
    <3>1. CASE Fail(r, "exhausted") \/ Fail(r, "corrupt")
      BY <1>0, <1>4, <3>1, EndedMoves DEF CheckNode, Fail
    <3>2. CASE reader' = [reader EXCEPT ![r].pc = "meta", ![r].step = @ + 1, ![r].hold = None]
      <4>1. /\ DOMAIN reader' = Readers /\ DOMAIN reader'[r] = ReaderFields /\ reader'[r].pc = "meta"
            /\ reader'[r].step = reader[r].step + 1 /\ \A q \in Readers \ {r} : reader'[q] = reader[q]
        BY <1>0, <3>2
      <4>2. \A i \in DOMAIN Path[r] : (i > reader'[r].step \/ i = reader'[r].step) => i > reader[r].step
        BY <1>0, <4>1, FirstOfPath
      <4> QED
        BY <1>4, <2>2, <4>1, <4>2 DEF CheckNode, Moved
    <3> QED
      BY <1>4, <3>1, <3>2 DEF CheckNode
  <2> QED
    BY <2>1, <2>3, ReaderMoves
<1>5. CASE CheckPage(r)
  <2>1. CacheShape(cache)'
    <3>1. CacheShape(Reserve(PageCost).cache)
      BY <1>0, ReservedShape
    <3>2. CacheShape(Inserted(Reserve(PageCost).cache, PageKey(r), <<"bytes", Revision(r)>>))
      BY <3>1, InsertedShape
    <3> QED
      BY <1>0, <1>5, <3>1, <3>2 DEF CheckPage
  <2>2. Moved(r) /\ reader'[r].pc # "wait" /\ ~At(r, "wait") /\ UNCHANGED <<registry, load, dying>>
    BY <1>0, <1>5, EndedMoves DEF CheckPage, Fail
  <2> QED
    BY <2>1, <2>2, ReaderMoves
<1>6. CASE Cancel(r)
  <2>1. Moved(r) /\ reader'[r].pc # "wait" /\ Leave(r) /\ UNCHANGED <<cache, registry, load>>
    BY <1>0, <1>6, EndedMoves DEF Cancel
  <2> QED
    BY <1>0, <2>1, ReaderMoves
<1> QED
  BY <1>1, <1>2, <1>3, <1>4, <1>5, <1>6

(* The steps of a load, but for its end.                                   *)
LEMMA LoadStructure ==
    ASSUME Structure, NEW l \in Loads, FillStart(l) \/ FillFetch(l) \/ FillRead(l) \/ FillError(l)
    PROVE  Structure'
<1>0. /\ Shape /\ DOMAIN load = Loads /\ DOMAIN load[l] = LoadFields /\ CacheShape(cache)
      /\ UNCHANGED <<registry, dying, reader>>
  BY DEF Structure, Shape, FillStart, FillFetch, FillRead, FillError
<1>1. load[l].state # "none"
  BY DEF FillStart, FillFetch, FillRead, FillError
<1>2. /\ DOMAIN load' = Loads /\ DOMAIN load'[l] = LoadFields
      /\ \A m \in Loads \ {l} : load'[m] = load[m]
      /\ load'[l].key = load[l].key /\ load'[l].state # "none"
  <2>1. ASSUME NEW state, state # "none", load' = [load EXCEPT ![l].state = state]
        PROVE  <1>2
    BY <1>0, <2>1 DEF LoadFields
  <2>2. ASSUME NEW b, FillReady(l, b)
        PROVE  <1>2
    BY <1>0, <2>2 DEF LoadFields, FillReady
  <2> QED
    BY <2>1, <2>2 DEF FillStart, FillFetch, FillRead, FillError, FillFailed
<1>3. CacheShape(cache)'
  <2>1. CacheShape(Reserve(FillCost).cache)
    BY <1>0, ReservedShape
  <2>2. CacheShape(InsertedRange(l, l))
    <3> DEFINE c == Inserted(cache, CachedRange(load[l].key), l)
    <3>1. CacheShape(c)
      BY <1>0, InsertedShape
    <3>2. PICK ids : InsertedRange(l, l) = [c EXCEPT !.identities = ids]
      BY DEF InsertedRange
    <3> HIDE DEF c
    <3> QED
      BY <3>1, <3>2 DEF CacheShape, CacheFields
  <2> QED
    BY <1>0, <2>1, <2>2 DEF FillStart, FillFetch, FillRead, FillError
<1> QED
  BY <1>0, <1>1, <1>2, <1>3, LoadMoves

(* Every step keeps the structure.                                         *)
LEMMA StructureNext ==
    ASSUME Structure, [Next]_vars
    PROVE  Structure'
<1>1. CASE UNCHANGED <<cache, registry, load, dying, reader>>
  BY <1>1 DEF Structure, Shape, CacheShape, Registered, SingleFlight, At, Waiters
<1>2. ASSUME NEW r \in Readers, ReaderStep(r) \/ Cancel(r)
      PROVE  Structure'
  BY <1>2, ReaderStructure, NewLoadStructure, JoinLoadStructure DEF ReaderStep
<1>3. ASSUME NEW l \in Loads, LoadStep(l)
      PROVE  Structure'
  BY <1>3, LoadStructure, LoadDropStructure DEF LoadStep
<1> QED
  BY <1>1, <1>2, <1>3 DEF Next, vars, Replace, Quiet

(* A range somebody waits for is loaded once, for any number of readers    *)
(* and however late the loads nobody waits for are dropped.                *)
THEOREM LoadedOnce == Spec => []SingleFlight
<1>1. Structure => SingleFlight
  BY DEF Structure, Registered
<1> QED
  BY <1>1, StructureInit, StructureNext, PTL DEF Spec

-----------------------------------------------------------------------------
(* Authentic pages.                                                        *)

AuthenticCache(c) == \A k \in Pages(c) : c.values[k][2] = "v0"

(* Neither eviction nor the insertion of a range brings in a page.         *)
LEMMA PartAuthentic ==
    ASSUME AuthenticCache(cache), NEW c, PartOfCache(c)
    PROVE  AuthenticCache(c)
  BY DEF AuthenticCache, Pages, PartOfCache

(* The cache with the range that load l read.                              *)
LEMMA RangeInserted ==
    ASSUME Shape, NEW l \in Loads
    PROVE  /\ DOMAIN InsertedRange(l, l).values = DOMAIN cache.values \cup {CachedRange(load[l].key)}
           /\ \A k \in DOMAIN cache.values :
                  k # CachedRange(load[l].key) => InsertedRange(l, l).values[k] = cache.values[k]
           /\ InsertedRange(l, l).values[CachedRange(load[l].key)] = l
           /\ Pages(InsertedRange(l, l)) \subseteq Pages(cache)
<1> DEFINE k == CachedRange(load[l].key)
           c == Inserted(cache, k, l)
           d == InsertedRange(l, l)
<1>1. /\ CacheShape(c) /\ DOMAIN c.values = DOMAIN cache.values \cup {k}
      /\ \A x \in DOMAIN cache.values : x # k => c.values[x] = cache.values[x]
      /\ c.values[k] = l
  BY InsertedShape DEF Shape
<1>2. PICK ids : d = [c EXCEPT !.identities = ids]
  BY DEF InsertedRange
<1>3. k[1] # "page"
  BY DEF CachedRange
<1> HIDE DEF c, d, k
<1>4. d.values = c.values
  BY <1>1, <1>2 DEF CacheShape, CacheFields
<1>5. Pages(d) \subseteq Pages(cache)
  BY <1>1, <1>3, <1>4 DEF Pages
<1>6. /\ DOMAIN d.values = DOMAIN cache.values \cup {k}
      /\ \A x \in DOMAIN cache.values : x # k => d.values[x] = cache.values[x]
      /\ d.values[k] = l
  BY <1>1, <1>4
<1> QED
  BY <1>5, <1>6 DEF d, k

(* A reader is told only what is checked or cached.                        *)
LEMMA AuthenticReader ==
    ASSUME Structure, AuthenticOnly, NEW r \in Readers, ReaderStep(r) \/ Cancel(r)
    PROVE  AuthenticOnly'
<1>0. Shape /\ AuthenticCache(cache)
  BY DEF Structure, AuthenticOnly, AuthenticCache
<1>1. ASSUME reader'[r].pc # "done", AuthenticCache(cache)',
             \A q \in Readers \ {r} : reader'[q] = reader[q]
      PROVE  AuthenticOnly'
  BY <1>1 DEF AuthenticOnly, AuthenticCache, At
<1>2. \A n : AuthenticCache(Reserve(n).cache)
  BY <1>0, Reserved, PartAuthentic
<1>3. ASSUME NEW where \in {"failed", "cancelled"}, NEW told, Ended(r, where, told), AuthenticCache(cache)'
      PROVE  AuthenticOnly'
  BY <1>0, <1>1, <1>3, EndedMoves DEF Moved
<1>4. ASSUME NEW told, told = "v0", Ended(r, "done", told), AuthenticCache(cache)'
      PROVE  AuthenticOnly'
  <2>1. /\ reader'[r].told = "v0" /\ \A q \in Readers \ {r} : reader'[q] = reader[q]
    BY <1>0, <1>4, EndedMoves DEF Moved
  <2> QED
    BY <1>4, <2>1 DEF AuthenticOnly, AuthenticCache, At
<1>6. ASSUME NEW where, where # "done", Goto(r, where), AuthenticCache(cache)'
      PROVE  AuthenticOnly'
  <2>1. reader'[r].pc # "done" /\ \A q \in Readers \ {r} : reader'[q] = reader[q]
    BY <1>0, <1>6 DEF Goto, Shape, ReaderFields
  <2> QED
    BY <1>1, <1>6, <2>1
<1>7. UNCHANGED cache => AuthenticCache(cache)'
  BY <1>0 DEF AuthenticCache, Pages
<1>8. ASSUME Open(r) \/ MetadataKnown(r) \/ MetadataStat(r) \/ Lookup(r) \/ JoinRefused(r)
             \/ JoinLoad(r) \/ TakeResult(r) \/ Cancel(r)
      PROVE  AuthenticOnly'
  <2>1. AuthenticCache(cache)'
    BY <1>7, <1>8 DEF Open, MetadataKnown, MetadataStat, Lookup, JoinRefused, JoinLoad, TakeResult, Cancel
  <2>2. CASE \E where \in {"failed", "cancelled"} : \E told : Ended(r, where, told)
    BY <1>3, <2>1, <2>2
  <2>3. CASE \E where \in {"lookup", "join"} : Goto(r, where)
    BY <1>6, <2>1, <2>3
  <2>4. CASE /\ reader'[r].pc \in {"page", "lookup", "check", "wait"}
             /\ \A q \in Readers \ {r} : reader'[q] = reader[q]
    BY <1>1, <2>1, <2>4
  <2>5. CASE Open(r)
    BY <1>0, <2>2, <2>4, <2>5 DEF Open, Fail, Shape, ReaderFields
  <2>6. CASE MetadataKnown(r)
    BY <1>0, <2>3, <2>4, <2>6 DEF MetadataKnown, Shape, ReaderFields
  <2>7. CASE MetadataStat(r)
    BY <1>0, <2>2, <2>4, <2>7 DEF MetadataStat, Fail, Shape, ReaderFields
  <2>8. CASE Lookup(r)
    BY <1>0, <2>2, <2>3, <2>4, <2>8 DEF Lookup, Fail, Shape, ReaderFields
  <2>9. CASE JoinRefused(r) \/ Cancel(r)
    BY <2>2, <2>9 DEF JoinRefused, Cancel, Fail
  <2>10. CASE JoinLoad(r)
    BY <1>0, <2>4, <2>10 DEF JoinLoad, Shape, ReaderFields
  <2>11. CASE TakeResult(r)
    BY <1>0, <2>2, <2>4, <2>11 DEF TakeResult, Fail, Shape, ReaderFields
  <2> QED
    BY <1>8, <2>5, <2>6, <2>7, <2>8, <2>9, <2>10, <2>11
<1>9. CASE PageHit(r)
  <2>1. PageKey(r) \in Pages(cache)
    BY <1>9 DEF PageHit, Pages, PageKey
  <2> QED
    BY <1>0, <1>4, <1>7, <1>9, <2>1 DEF PageHit, AuthenticCache
<1>10. CASE PageMiss(r)
  <2>1. AuthenticCache(cache)'
    BY <1>2, <1>10 DEF PageMiss
  <2> QED
    BY <1>3, <1>6, <1>10, <2>1 DEF PageMiss, Fail
<1>11. CASE NewLoad(r)
  <2>1. AuthenticCache(cache)'
    BY <1>2, <1>11 DEF NewLoad
  <2>2. CASE Fail(r, "exhausted")
    BY <1>3, <2>1, <2>2 DEF Fail
  <2>3. CASE reader' = [reader EXCEPT ![r].pc = "wait", ![r].joined = <<r, reader[r].step>>]
    <3>1. reader'[r].pc = "wait" /\ \A q \in Readers \ {r} : reader'[q] = reader[q]
      BY <1>0, <2>3 DEF Shape, ReaderFields
    <3> QED
      BY <1>1, <2>1, <3>1
  <2> QED
    BY <1>11, <2>2, <2>3 DEF NewLoad
<1>12. CASE CheckNode(r)
  <2>1. AuthenticCache(cache)'
    BY <1>2, <1>7, <1>12 DEF CheckNode
  <2>2. CASE Fail(r, "exhausted") \/ Fail(r, "corrupt")
    BY <1>3, <2>1, <2>2 DEF Fail
  <2>3. CASE reader' = [reader EXCEPT ![r].pc = "meta", ![r].step = @ + 1, ![r].hold = None]
    <3>1. reader'[r].pc = "meta" /\ \A q \in Readers \ {r} : reader'[q] = reader[q]
      BY <1>0, <2>3 DEF Shape, ReaderFields
    <3> QED
      BY <1>1, <2>1, <3>1
  <2> QED
    BY <1>12, <2>2, <2>3 DEF CheckNode
<1>13. CASE CheckPage(r)
  <2> DEFINE room == Reserve(PageCost)
             c == Inserted(room.cache, PageKey(r), <<"bytes", Revision(r)>>)
  <2>1. HashMatches(r) => AuthenticCache(c)
    <3>1. CacheShape(room.cache) /\ AuthenticCache(room.cache)
      BY <1>0, <1>2, ReservedShape
    <3>2. /\ DOMAIN c.values = DOMAIN room.cache.values \cup {PageKey(r)}
          /\ \A x \in DOMAIN room.cache.values : x # PageKey(r) => c.values[x] = room.cache.values[x]
          /\ c.values[PageKey(r)] = <<"bytes", Revision(r)>>
      BY <3>1, InsertedShape
    <3> HIDE DEF c, room
    <3> QED
      BY <3>1, <3>2 DEF AuthenticCache, Pages, HashMatches
  <2>2. AuthenticCache(cache)'
    BY <1>2, <1>7, <1>13, <2>1 DEF CheckPage
  <2>3. CASE Fail(r, "exhausted") \/ Fail(r, "corrupt")
    BY <1>3, <2>2, <2>3 DEF Fail
  <2>4. CASE HashMatches(r) /\ Ended(r, "done", Revision(r))
    BY <1>4, <2>2, <2>4 DEF HashMatches
  <2> QED
    BY <1>13, <2>3, <2>4 DEF CheckPage
<1> QED
  BY <1>8, <1>9, <1>10, <1>11, <1>12, <1>13 DEF ReaderStep

(* Every step keeps what readers were told and the cache's pages authentic.*)
LEMMA AuthenticNext ==
    ASSUME Structure, AuthenticOnly, [Next]_vars
    PROVE  AuthenticOnly'
<1>0. Shape /\ AuthenticCache(cache)
  BY DEF Structure, AuthenticOnly, AuthenticCache
<1>1. CASE UNCHANGED <<cache, reader>>
  BY <1>1 DEF AuthenticOnly, Pages, At
<1>2. ASSUME NEW l \in Loads, LoadStep(l)
      PROVE  AuthenticOnly'
  <2>1. AuthenticCache(Reserve(FillCost).cache)
    BY <1>0, Reserved, PartAuthentic
  <2>2. AuthenticCache(InsertedRange(l, l))
    <3>1. CachedRange(load[l].key)[1] # "page"
      BY DEF CachedRange
    <3> QED
      BY <1>0, <3>1, RangeInserted DEF AuthenticCache, Pages
  <2>3. AuthenticCache(cache)'
    <3>1. UNCHANGED cache \/ cache' = Reserve(FillCost).cache \/ cache' = InsertedRange(l, l)
      BY <1>2 DEF LoadStep, FillStart, FillFetch, FillRead, FillError, LoadDrop
    <3> QED
      BY <1>0, <2>1, <2>2, <3>1 DEF AuthenticCache, Pages
  <2>4. UNCHANGED reader
    BY <1>2 DEF LoadStep, FillStart, FillFetch, FillRead, FillError, LoadDrop
  <2> QED
    BY <2>3, <2>4 DEF AuthenticOnly, AuthenticCache, At
<1> QED
  BY <1>1, <1>2, AuthenticReader DEF Next, vars, Replace, Quiet

(* No reader is given a page, and the cache keeps none, that its reference *)
(* does not authenticate, whatever is done to the objects in the store.    *)
THEOREM PagesAuthentic == Spec => []AuthenticOnly
<1>1. Init => AuthenticOnly
  BY DEF Init, AuthenticOnly, At, Pages
<1> QED
  BY <1>1, StructureInit, StructureNext, AuthenticNext, PTL DEF Spec

-----------------------------------------------------------------------------
(* The budget.                                                             *)

Workers == {r \in Readers : Working(r)}
Alive == {l \in Loads : load[l].state # "none"}

Cost(w, a, b, p) == WorkCost * w + LoadCost * a + FillCost * b + PageCost * p

(* Only finitely many loads are ever named.                                *)
LEMMA LoadsFinite == IsFiniteSet(Loads)
<1> DEFINE of == [r \in Readers |-> {<<r, i>> : i \in DOMAIN Path[r]}]
           S == {of[r] : r \in Readers}
<1>1. IsFiniteSet(S)
  <2>1. of \in Surjection(Readers, S)
    BY DEF Surjection
  <2> QED
    BY <2>1, FS_Surjection, CacheAssumption
<1>2. ASSUME NEW r \in Readers PROVE IsFiniteSet(of[r])
  <2> DEFINE f == [i \in DOMAIN Path[r] |-> <<r, i>>]
  <2>1. IsFiniteSet(DOMAIN Path[r])
    <3>1. 1 \in Int /\ Len(Path[r]) \in Int /\ DOMAIN Path[r] = 1..Len(Path[r])
      BY FirstOfPath
    <3>2. IsFiniteSet(1..Len(Path[r]))
      BY <3>1, FS_Interval
    <3> QED
      BY <3>1, <3>2
  <2>2. f \in Surjection(DOMAIN Path[r], of[r])
    BY DEF Surjection
  <2> QED
    BY <2>1, <2>2, FS_Surjection
<1>3. Loads = UNION S
  BY DEF Loads
<1> QED
  BY <1>1, <1>2, <1>3, FS_UNION

(* The price of at most one more of a kind.                                *)
LEMMA Price ==
    ASSUME NEW x \in Nat, NEW m \in Nat, NEW n \in Nat, m <= n + 1
    PROVE  /\ x * m \in Nat /\ x * n \in Nat /\ x * m <= x * n + x
           /\ m <= n => x * m <= x * n
<1>1. \A i, j \in Nat : i <= j => x * i <= x * j /\ x * i \in Nat /\ x * j \in Nat
  OBVIOUS
<1>2. x * (n + 1) = x * n + x
  OBVIOUS
<1> QED
  BY <1>1, <1>2

(* What is in use is counted by finite sets.                               *)
LEMMA Counted ==
    ASSUME NEW c, IsFiniteSet(DOMAIN c.values)
    PROVE  /\ InUse(c) = Cost(Cardinality(Workers), Cardinality(Alive), Cardinality(Buffers(c)),
                              Cardinality(Pages(c)))
           /\ IsFiniteSet(Workers) /\ IsFiniteSet(Alive) /\ IsFiniteSet(Buffers(c))
           /\ IsFiniteSet(Pages(c))
<1>1. InUse(c) = Cost(Cardinality(Workers), Cardinality(Alive), Cardinality(Buffers(c)),
                      Cardinality(Pages(c)))
  BY DEF InUse, Cost, Workers, Alive
<1>2. IsFiniteSet(Workers)
  BY CacheAssumption, FS_Subset DEF Workers
<1>3. IsFiniteSet(Alive) /\ IsFiniteSet(Buffers(c))
  BY LoadsFinite, FS_Subset DEF Alive, Buffers
<1>4. IsFiniteSet(Pages(c))
  BY FS_Subset DEF Pages
<1> QED
  BY <1>1, <1>2, <1>3, <1>4

(* A set with at most one more element than a finite one.                  *)
LEMMA OneMore ==
    ASSUME NEW S, IsFiniteSet(S), NEW x, NEW T \in SUBSET (S \cup {x})
    PROVE  /\ Cardinality(T) \in Nat /\ Cardinality(T) <= Cardinality(S) + 1
           /\ T \subseteq S => Cardinality(T) <= Cardinality(S)
           /\ Cardinality(S) \in Nat
<1>1. IsFiniteSet(S \cup {x}) /\ Cardinality(S) \in Nat /\ Cardinality(S \cup {x}) <= Cardinality(S) + 1
  <2>1. Cardinality(S) \in Nat
    BY FS_CardinalityType
  <2>2. /\ IsFiniteSet(S \cup {x})
        /\ Cardinality(S \cup {x}) = IF x \in S THEN Cardinality(S) ELSE Cardinality(S) + 1
    BY FS_AddElement
  <2> QED
    BY <2>1, <2>2
<1>2. IsFiniteSet(T) /\ Cardinality(T) <= Cardinality(S \cup {x}) /\ Cardinality(S \cup {x}) \in Nat
  BY <1>1, FS_Subset, FS_CardinalityType
<1>3. Cardinality(T) \in Nat
  BY <1>2, FS_CardinalityType
<1>4. T \subseteq S => Cardinality(T) <= Cardinality(S)
  BY FS_Subset
<1> QED
  BY <1>1, <1>2, <1>3, <1>4

(* What a step that adds at most one x to one of what cache c leaves in    *)
(* use costs.                                                              *)
LEMMA Growth ==
    ASSUME NEW c, IsFiniteSet(DOMAIN c.values), NEW x,
           Workers' \subseteq Workers \cup {x}, Alive' \subseteq Alive \cup {x},
           Buffers(cache)' \subseteq Buffers(c) \cup {x}, Pages(cache)' \subseteq Pages(c) \cup {x},
           NEW more, InUse(c) + more <= Limit,
           \/ /\ Workers' \subseteq Workers /\ Alive' \subseteq Alive /\ more = 0
              /\ Buffers(cache)' \subseteq Buffers(c) /\ Pages(cache)' \subseteq Pages(c)
           \/ /\ more = WorkCost /\ Alive' \subseteq Alive
              /\ Buffers(cache)' \subseteq Buffers(c) /\ Pages(cache)' \subseteq Pages(c)
           \/ /\ more = LoadCost /\ Workers' \subseteq Workers
              /\ Buffers(cache)' \subseteq Buffers(c) /\ Pages(cache)' \subseteq Pages(c)
           \/ /\ more = FillCost /\ Workers' \subseteq Workers /\ Alive' \subseteq Alive
              /\ Pages(cache)' \subseteq Pages(c)
           \/ /\ more = PageCost /\ Workers' \subseteq Workers /\ Alive' \subseteq Alive
              /\ Buffers(cache)' \subseteq Buffers(c)
    PROVE  BudgetKept'
<1> DEFINE w == Cardinality(Workers)
           a == Cardinality(Alive)
           b == Cardinality(Buffers(c))
           p == Cardinality(Pages(c))
           w2 == Cardinality(Workers')
           a2 == Cardinality(Alive')
           b2 == Cardinality(Buffers(cache)')
           p2 == Cardinality(Pages(cache)')
<1>1. InUse(c) = Cost(w, a, b, p)
  BY Counted
<1>2. InUse(cache)' = Cost(w2, a2, b2, p2)
  BY DEF InUse, Cost, Workers, Alive
<1>3. /\ w \in Nat /\ w2 \in Nat /\ w2 <= w + 1 /\ (Workers' \subseteq Workers => w2 <= w)
      /\ a \in Nat /\ a2 \in Nat /\ a2 <= a + 1 /\ (Alive' \subseteq Alive => a2 <= a)
      /\ b \in Nat /\ b2 \in Nat /\ b2 <= b + 1 /\ (Buffers(cache)' \subseteq Buffers(c) => b2 <= b)
      /\ p \in Nat /\ p2 \in Nat /\ p2 <= p + 1 /\ (Pages(cache)' \subseteq Pages(c) => p2 <= p)
  <2>1. IsFiniteSet(Workers) /\ IsFiniteSet(Alive) /\ IsFiniteSet(Buffers(c)) /\ IsFiniteSet(Pages(c))
    BY Counted
  <2> QED
    BY <2>1, OneMore
<1> HIDE DEF w, a, b, p, w2, a2, b2, p2
<1>4. WorkCost \in Nat /\ LoadCost \in Nat /\ FillCost \in Nat /\ PageCost \in Nat /\ Limit \in Nat
  BY CacheAssumption
<1>5. /\ WorkCost * w \in Nat /\ WorkCost * w2 \in Nat /\ WorkCost * w2 <= WorkCost * w + WorkCost
      /\ w2 <= w => WorkCost * w2 <= WorkCost * w
  BY <1>3, <1>4, Price
<1>6. /\ LoadCost * a \in Nat /\ LoadCost * a2 \in Nat /\ LoadCost * a2 <= LoadCost * a + LoadCost
      /\ a2 <= a => LoadCost * a2 <= LoadCost * a
  BY <1>3, <1>4, Price
<1>7. /\ FillCost * b \in Nat /\ FillCost * b2 \in Nat /\ FillCost * b2 <= FillCost * b + FillCost
      /\ b2 <= b => FillCost * b2 <= FillCost * b
  BY <1>3, <1>4, Price
<1>8. /\ PageCost * p \in Nat /\ PageCost * p2 \in Nat /\ PageCost * p2 <= PageCost * p + PageCost
      /\ p2 <= p => PageCost * p2 <= PageCost * p
  BY <1>3, <1>4, Price
<1>9. more \in Nat
  BY <1>4
<1> QED
  BY <1>1, <1>2, <1>3, <1>4, <1>5, <1>6, <1>7, <1>8, <1>9 DEF BudgetKept, Cost

(* Part of the cache costs no more than the cache.                         *)
LEMMA PartInUse ==
    ASSUME Shape, NEW c, PartOfCache(c)
    PROVE  InUse(c) \in Nat /\ InUse(cache) \in Nat /\ InUse(c) <= InUse(cache)
<1> DEFINE w == Cardinality(Workers)
           a == Cardinality(Alive)
           b == Cardinality(Buffers(c))
           p == Cardinality(Pages(c))
           b2 == Cardinality(Buffers(cache))
           p2 == Cardinality(Pages(cache))
<1>1. IsFiniteSet(DOMAIN c.values) /\ IsFiniteSet(DOMAIN cache.values)
  BY PartShape DEF Shape, CacheShape
<1>2. Pages(c) \subseteq Pages(cache) /\ Buffers(c) \subseteq Buffers(cache)
  BY DEF Pages, Buffers, CachedBuffers, PartOfCache
<1>3. InUse(c) = Cost(w, a, b, p) /\ InUse(cache) = Cost(w, a, b2, p2)
  BY <1>1, Counted
<1>4. w \in Nat /\ a \in Nat /\ b \in Nat /\ p \in Nat /\ b2 \in Nat /\ p2 \in Nat
  BY <1>1, Counted, FS_CardinalityType
<1>5. b <= b2 /\ p <= p2
  BY <1>1, <1>2, Counted, FS_Subset
<1> HIDE DEF w, a, b, p, b2, p2
<1>6. WorkCost \in Nat /\ LoadCost \in Nat /\ FillCost \in Nat /\ PageCost \in Nat
  BY CacheAssumption
<1>7. WorkCost * w \in Nat /\ LoadCost * a \in Nat
  BY <1>4, <1>6
<1>8. FillCost * b \in Nat /\ FillCost * b2 \in Nat /\ FillCost * b <= FillCost * b2
  BY <1>4, <1>5, <1>6, Price
<1>9. PageCost * p \in Nat /\ PageCost * p2 \in Nat /\ PageCost * p <= PageCost * p2
  BY <1>4, <1>5, <1>6, Price
<1> QED
  BY <1>3, <1>7, <1>8, <1>9 DEF Cost

(* Whatever becomes of a reservation, what it leaves is within the budget. *)
LEMMA ReservedInUse ==
    ASSUME Shape, BudgetKept, NEW n \in Nat
    PROVE  /\ InUse(Reserve(n).cache) + 0 <= Limit
           /\ IsFiniteSet(DOMAIN Reserve(n).cache.values)
<1>1. PartOfCache(Reserve(n).cache)
  BY Reserved
<1>2. Limit \in Nat
  BY CacheAssumption
<1> QED
  BY <1>1, <1>2, PartInUse, PartShape DEF BudgetKept, CacheShape

LEMMA NoneIsNoLoad == None \notin Loads
  BY DEF Loads, None

(* A step of one reader that holds nothing new adds no buffer.             *)
LEMMA ReaderBuffers ==
    ASSUME Shape, NEW r \in Readers, \A q \in Readers \ {r} : reader'[q] = reader[q], NEW c,
           UNCHANGED load, CachedBuffers(cache') \subseteq CachedBuffers(c),
           reader'[r].hold \in {None} \cup Held \cup CachedBuffers(c)
    PROVE  /\ Buffers(cache)' \subseteq Buffers(c)
           /\ Alive' = Alive
           /\ Workers' \subseteq Workers \cup {r}
           /\ reader'[r].pc \notin {"meta", "lookup", "join", "wait", "check"} => Workers' \subseteq Workers
           /\ Working(r) => Workers' \subseteq Workers
<1>1. Held' \subseteq Held \cup {None} \cup CachedBuffers(c)
  BY DEF Held
<1>2. {l \in Loads : Filling(l)}' = {l \in Loads : Filling(l)} /\ Alive' = Alive
  BY DEF Filling, Alive
<1>3. Buffers(cache)' \subseteq Buffers(c)
  BY <1>1, <1>2, NoneIsNoLoad DEF Buffers, CachedBuffers
<1>4. /\ Workers' \subseteq Workers \cup {r}
      /\ reader'[r].pc \notin {"meta", "lookup", "join", "wait", "check"} => Workers' \subseteq Workers
      /\ Working(r) => Workers' \subseteq Workers
  BY DEF Workers, Working
<1> QED
  BY <1>2, <1>3, <1>4

(* Such a step stays within the budget, unless the reader starts to work.  *)
LEMMA NothingMore ==
    ASSUME Shape, NEW r \in Readers, \A q \in Readers \ {r} : reader'[q] = reader[q],
           NEW c, cache' = c, IsFiniteSet(DOMAIN c.values), InUse(c) + 0 <= Limit,
           UNCHANGED load, reader'[r].hold \in {None} \cup Held \cup CachedBuffers(c),
           Working(r) \/ reader'[r].pc \notin {"meta", "lookup", "join", "wait", "check"}
    PROVE  BudgetKept'
<1>1. CachedBuffers(cache') \subseteq CachedBuffers(c) /\ Pages(cache)' \subseteq Pages(c)
  BY DEF Pages, CachedBuffers
<1>2. Buffers(cache)' \subseteq Buffers(c) /\ Alive' = Alive /\ Workers' \subseteq Workers
  BY <1>1, ReaderBuffers
<1> QED
  BY <1>1, <1>2, Growth

(* The budget holds for what the cache and a reservation leave.            *)
LEMMA WithinBudget ==
    ASSUME Shape, BudgetKept
    PROVE  /\ IsFiniteSet(DOMAIN cache.values) /\ InUse(cache) + 0 <= Limit
           /\ \A n \in {WorkCost, LoadCost, FillCost, DecodeCost, PageCost} :
                 /\ IsFiniteSet(DOMAIN Reserve(n).cache.values)
                 /\ InUse(Reserve(n).cache) + 0 <= Limit
<1>1. PartOfCache(cache)
  BY DEF PartOfCache, Shape, CacheShape
<1>2. Limit \in Nat
  BY CacheAssumption
<1>3. InUse(cache) + 0 <= Limit
  BY <1>1, <1>2, PartInUse DEF BudgetKept
<1> QED
  BY <1>3, ReservedInUse, CacheAssumption DEF Shape, CacheShape

(* Readers stay within the budget.                                         *)
LEMMA BudgetReader ==
    ASSUME Structure, BudgetKept, NEW r \in Readers, ReaderStep(r) \/ Cancel(r)
    PROVE  BudgetKept'
<1>0. /\ Shape /\ DOMAIN reader = Readers /\ DOMAIN reader[r] = ReaderFields
      /\ reader[r].hold \in Held
  BY DEF Structure, Shape, Held
<1>1. ASSUME NEW where \in {"done", "failed", "cancelled"}, NEW told, Ended(r, where, told), UNCHANGED load,
             NEW c, cache' = c, IsFiniteSet(DOMAIN c.values), InUse(c) + 0 <= Limit
      PROVE  BudgetKept'
  <2>1. /\ reader'[r].pc = where /\ reader'[r].hold = None
        /\ \A q \in Readers \ {r} : reader'[q] = reader[q]
    BY <1>0, <1>1, EndedMoves DEF Moved
  <2> QED
    BY <1>0, <1>1, <2>1, NothingMore
<1>2. ASSUME Open(r) \/ PageHit(r) \/ MetadataKnown(r) \/ MetadataStat(r) \/ Lookup(r) \/ JoinRefused(r)
             \/ JoinLoad(r) \/ TakeResult(r) \/ Cancel(r)
      PROVE  BudgetKept'
  <2>1. UNCHANGED <<cache, load>>
    BY <1>2 DEF Open, PageHit, MetadataKnown, MetadataStat, Lookup, JoinRefused, JoinLoad, TakeResult,
                Cancel
  <2>2. CASE \E where \in {"done", "failed", "cancelled"} : \E told : Ended(r, where, told)
    BY <1>0, <1>1, <2>1, <2>2, WithinBudget
  <2>3. CASE /\ \A q \in Readers \ {r} : reader'[q] = reader[q]
             /\ reader'[r].hold \in Held \cup CachedBuffers(cache)
             /\ Working(r) \/ reader'[r].pc = "page"
    BY <1>0, <2>1, <2>3, WithinBudget, NothingMore
  <2>4. CASE Open(r)
    BY <1>0, <2>2, <2>3, <2>4 DEF Open, Fail, ReaderFields
  <2>5. CASE PageHit(r) \/ JoinRefused(r) \/ Cancel(r)
    BY <2>2, <2>5 DEF PageHit, JoinRefused, Cancel, Fail
  <2>6. CASE MetadataKnown(r)
    BY <1>0, <2>3, <2>6 DEF MetadataKnown, Goto, At, Working, ReaderFields
  <2>7. CASE MetadataStat(r)
    BY <1>0, <2>2, <2>3, <2>7 DEF MetadataStat, Fail, At, Working, ReaderFields
  <2>8. CASE Lookup(r)
    <3>1. CachedRange(RangeKey(r)) \in DOMAIN cache.values =>
             cache.values[CachedRange(RangeKey(r))] \in CachedBuffers(cache)
      BY DEF CachedBuffers, Pages, CachedRange
    <3> QED
      BY <1>0, <2>2, <2>3, <2>8, <3>1 DEF Lookup, Fail, Goto, At, Working, ReaderFields
  <2>9. CASE JoinLoad(r)
    BY <1>0, <2>3, <2>9 DEF JoinLoad, At, Working, ReaderFields
  <2>10. CASE TakeResult(r)
    <3>1. load[reader[r].joined].output \in Held
      BY <2>10 DEF TakeResult, Structure, Registered, Held
    <3> QED
      BY <1>0, <2>2, <2>3, <2>10, <3>1 DEF TakeResult, Fail, At, Working, ReaderFields
  <2> QED
    BY <1>2, <2>4, <2>5, <2>6, <2>7, <2>8, <2>9, <2>10
<1>3. CASE PageMiss(r)
  <2> DEFINE room == Reserve(WorkCost)
  <2>1. CASE Fail(r, "exhausted")
    BY <1>0, <1>1, <1>3, <2>1, WithinBudget DEF PageMiss, Fail
  <2>2. CASE room.ok /\ Goto(r, "meta")
    <3>1. InUse(room.cache) + WorkCost <= Limit
      BY <1>0, <2>2, Reserved
    <3>2. IsFiniteSet(DOMAIN room.cache.values)
      BY <1>0, WithinBudget
    <3>3. cache' = room.cache /\ UNCHANGED load
      BY <1>3 DEF PageMiss
    <3>4. reader'[r].hold = reader[r].hold /\ \A q \in Readers \ {r} : reader'[q] = reader[q]
      BY <1>0, <2>2 DEF Goto, ReaderFields
    <3> HIDE DEF room
    <3>5. CachedBuffers(cache') \subseteq CachedBuffers(room.cache)
          /\ Pages(cache)' \subseteq Pages(room.cache)
      BY <3>3 DEF Pages, CachedBuffers
    <3>6. /\ Buffers(cache)' \subseteq Buffers(room.cache) /\ Alive' = Alive
          /\ Workers' \subseteq Workers \cup {r}
      BY <1>0, <3>3, <3>4, <3>5, ReaderBuffers
    <3> QED
      BY <3>1, <3>2, <3>5, <3>6, Growth
  <2> QED
    BY <1>3, <2>1, <2>2 DEF PageMiss
<1>4. CASE NewLoad(r)
  <2> DEFINE room == Reserve(LoadCost)
             l == <<r, reader[r].step>>
  <2>1. CASE Fail(r, "exhausted") /\ UNCHANGED load
    BY <1>0, <1>1, <1>4, <2>1, WithinBudget DEF NewLoad, Fail
  <2>2. CASE /\ room.ok
             /\ reader' = [reader EXCEPT ![r].pc = "wait", ![r].joined = l]
             /\ load' = [load EXCEPT ![l] = [@ EXCEPT !.state = "new", !.key = RangeKey(r)]]
    <3>1. InUse(room.cache) + LoadCost <= Limit
      BY <1>0, <2>2, Reserved
    <3>2. IsFiniteSet(DOMAIN room.cache.values)
      BY <1>0, WithinBudget
    <3>3. cache' = room.cache
      BY <1>4 DEF NewLoad
    <3>4. \A q \in Readers : reader'[q].hold = reader[q].hold
      BY <1>0, <2>2 DEF ReaderFields
    <3>5. l \in Loads
      BY <1>0, LoadOf DEF Shape
    <3>6. /\ \A m \in Loads : load'[m].output = load[m].output
          /\ \A m \in Loads \ {l} : load'[m] = load[m]
          /\ load'[l].state = "new"
      BY <1>0, <2>2, <3>5 DEF Shape, LoadFields
    <3>7. Alive' \subseteq Alive \cup {l}
      BY <3>6 DEF Alive
    <3>8. Workers' \subseteq Workers
      BY <1>0, <1>4, <2>2 DEF NewLoad, At, Workers, Working, ReaderFields
    <3>9. {m \in Loads : Filling(m)}' \subseteq {m \in Loads : Filling(m)}
      BY <3>6 DEF Filling
    <3>10. Held' = Held
      BY <3>4, <3>6 DEF Held
    <3> HIDE DEF room, l
    <3>11. Buffers(cache)' \subseteq Buffers(room.cache) /\ Pages(cache)' \subseteq Pages(room.cache)
      BY <3>3, <3>9, <3>10 DEF Buffers, CachedBuffers, Pages
    <3> QED
      BY <3>1, <3>2, <3>7, <3>8, <3>11, Growth
  <2> QED
    BY <1>4, <2>1, <2>2 DEF NewLoad
<1>5. CASE CheckNode(r)
  <2>1. CASE Fail(r, "exhausted") /\ cache' = Reserve(DecodeCost).cache
    BY <1>0, <1>1, <1>5, <2>1, WithinBudget DEF CheckNode, Fail
  <2>2. CASE Fail(r, "corrupt") /\ UNCHANGED cache
    BY <1>0, <1>1, <1>5, <2>2, WithinBudget DEF CheckNode, Fail
  <2>3. CASE /\ cache' = Reserve(DecodeCost).cache
             /\ reader' = [reader EXCEPT ![r].pc = "meta", ![r].step = @ + 1, ![r].hold = None]
    <3>1. reader'[r].hold = None /\ \A q \in Readers \ {r} : reader'[q] = reader[q]
      BY <1>0, <2>3 DEF ReaderFields
    <3>2. Working(r) /\ UNCHANGED load
      BY <1>5 DEF CheckNode, At, Working
    <3> QED
      BY <1>0, <2>3, <3>1, <3>2, WithinBudget, NothingMore
  <2> QED
    BY <1>5, <2>1, <2>2, <2>3 DEF CheckNode
<1>6. CASE CheckPage(r)
  <2> DEFINE room == Reserve(PageCost)
             k == PageKey(r)
             c == Inserted(room.cache, k, <<"bytes", Revision(r)>>)
  <2>1. CASE Fail(r, "exhausted") /\ cache' = room.cache
    BY <1>0, <1>1, <1>6, <2>1, WithinBudget DEF CheckPage, Fail
  <2>2. CASE Fail(r, "corrupt") /\ UNCHANGED cache
    BY <1>0, <1>1, <1>6, <2>2, WithinBudget DEF CheckPage, Fail
  <2>3. CASE Ended(r, "done", Revision(r)) /\ cache' = room.cache
    BY <1>0, <1>1, <1>6, <2>3, WithinBudget DEF CheckPage
  <2>4. CASE room.ok /\ Ended(r, "done", Revision(r)) /\ cache' = c
    <3>1. InUse(room.cache) + PageCost <= Limit /\ CacheShape(room.cache)
      BY <1>0, <2>4, Reserved, ReservedShape
    <3>2. IsFiniteSet(DOMAIN room.cache.values)
      BY <3>1 DEF CacheShape
    <3>3. /\ DOMAIN c.values = DOMAIN room.cache.values \cup {k}
          /\ \A x \in DOMAIN room.cache.values : x # k => c.values[x] = room.cache.values[x]
      BY <3>1, InsertedShape
    <3>4. k[1] = "page"
      BY DEF PageKey
    <3>5. /\ reader'[r].pc = "done" /\ reader'[r].hold = None
          /\ \A q \in Readers \ {r} : reader'[q] = reader[q]
      BY <1>0, <2>4, EndedMoves DEF Moved
    <3>6. UNCHANGED load
      BY <1>6 DEF CheckPage
    <3> HIDE DEF room, k, c
    <3>7. Pages(cache)' \subseteq Pages(room.cache) \cup {k}
      BY <2>4, <3>3 DEF Pages
    <3>8. CachedBuffers(cache') \subseteq CachedBuffers(room.cache)
      BY <2>4, <3>3, <3>4 DEF CachedBuffers, Pages
    <3>9. Buffers(cache)' \subseteq Buffers(room.cache) /\ Alive' = Alive /\ Workers' \subseteq Workers
      BY <1>0, <3>5, <3>6, <3>8, ReaderBuffers
    <3> QED
      BY <3>1, <3>2, <3>7, <3>9, Growth
  <2> QED
    BY <1>6, <2>1, <2>2, <2>3, <2>4 DEF CheckPage
<1> QED
  BY <1>2, <1>3, <1>4, <1>5, <1>6 DEF ReaderStep

(* Loads stay within the budget.                                           *)
LEMMA BudgetLoad ==
    ASSUME Structure, BudgetKept, NEW l \in Loads, LoadStep(l)
    PROVE  BudgetKept'
<1>0. /\ Shape /\ DOMAIN load = Loads /\ DOMAIN load[l] = LoadFields
      /\ IsFiniteSet(DOMAIN cache.values) /\ InUse(cache) + 0 <= Limit
  BY WithinBudget DEF Structure, Shape
<1>1. UNCHANGED reader
  BY DEF LoadStep, FillStart, FillFetch, FillRead, FillError, LoadDrop
<1>2. Workers' = Workers
  BY <1>1 DEF Workers, Working
<1>3. ASSUME NEW c, IsFiniteSet(DOMAIN c.values), InUse(c) + 0 <= Limit,
             \A m \in Loads \ {l} : load'[m] = load[m],
             load'[l].state # "none" => load[l].state # "none",
             Pages(cache') \subseteq Pages(c),
             CachedBuffers(cache') \subseteq Buffers(c) \cup CachedBuffers(c),
             Filling(l)' => l \in Buffers(c),
             load'[l].output \in {None, load[l].output} \cup Buffers(c) \cup CachedBuffers(c)
      PROVE  BudgetKept'
  <2>1. Alive' \subseteq Alive
    BY <1>3 DEF Alive
  <2>2. Held' \subseteq Held \cup {None} \cup Buffers(c) \cup CachedBuffers(c)
    BY <1>1, <1>3 DEF Held
  <2>3. {m \in Loads : Filling(m)}' \subseteq {m \in Loads : Filling(m)} \cup Buffers(c)
    BY <1>3 DEF Filling
  <2>4. Buffers(cache)' \subseteq Buffers(c)
    BY <1>3, <2>2, <2>3, NoneIsNoLoad DEF Buffers, CachedBuffers
  <2>5. Pages(cache)' \subseteq Pages(c)
    BY <1>3 DEF Pages
  <2> QED
    BY <1>2, <1>3, <2>1, <2>4, <2>5, Growth
<1>4. ASSUME NEW error \in {"corrupt", "storage"}, FillFailed(l, error), UNCHANGED cache,
             load[l].state # "none"
      PROVE  BudgetKept'
  <2>1. /\ \A m \in Loads \ {l} : load'[m] = load[m]
        /\ load'[l].output = load[l].output /\ load'[l].state = error
    BY <1>0, <1>4 DEF LoadFields, FillFailed
  <2>2. Filling(l)' => l \in Buffers(cache)
    BY <1>4, <2>1 DEF Filling, Buffers
  <2>3. Pages(cache') \subseteq Pages(cache) /\ CachedBuffers(cache') \subseteq CachedBuffers(cache)
    BY <1>4 DEF Pages, CachedBuffers
  <2> QED
    BY <1>0, <1>3, <1>4, <2>1, <2>2, <2>3
<1>5. ASSUME NEW b, FillReady(l, b), load[l].state # "none",
             Pages(cache') \subseteq Pages(cache),
             CachedBuffers(cache') \subseteq Buffers(cache) \cup CachedBuffers(cache),
             b \in Buffers(cache) \cup CachedBuffers(cache)
      PROVE  BudgetKept'
  <2>1. /\ \A m \in Loads \ {l} : load'[m] = load[m]
        /\ load'[l].output = b /\ load'[l].state = "ready"
    BY <1>0, <1>5 DEF LoadFields, FillReady
  <2>2. ~Filling(l)'
    BY <2>1 DEF Filling
  <2> QED
    BY <1>0, <1>3, <1>5, <2>1, <2>2
<1>6. ASSUME CachedRange(load[l].key) \in DOMAIN cache.values
      PROVE  cache.values[CachedRange(load[l].key)] \in CachedBuffers(cache)
  BY <1>6 DEF CachedBuffers, Pages, CachedRange
<1>7. UNCHANGED cache => /\ Pages(cache') \subseteq Pages(cache)
                         /\ CachedBuffers(cache') \subseteq CachedBuffers(cache)
  BY DEF Pages, CachedBuffers
<1>8. CASE FillStart(l)
  <2> DEFINE room == Reserve(FillCost)
  <2>1. CASE FillFailed(l, "corrupt") /\ UNCHANGED cache
    BY <1>4, <1>8, <2>1 DEF FillStart
  <2>2. CASE /\ CachedRange(load[l].key) \in DOMAIN cache.values /\ UNCHANGED cache
             /\ FillReady(l, cache.values[CachedRange(load[l].key)])
    BY <1>5, <1>6, <1>7, <1>8, <2>2 DEF FillStart
  <2>3. CASE /\ cache' = room.cache /\ ~room.ok
             /\ load' = [load EXCEPT ![l].state = "exhausted"]
    <3>1. /\ \A m \in Loads \ {l} : load'[m] = load[m]
          /\ load'[l].output = load[l].output /\ load'[l].state = "exhausted" /\ load[l].state # "none"
      BY <1>0, <1>8, <2>3 DEF LoadFields, FillStart
    <3>2. ~Filling(l)'
      BY <3>1 DEF Filling
    <3>3. Pages(cache') \subseteq Pages(room.cache) /\ CachedBuffers(cache') \subseteq CachedBuffers(room.cache)
      BY <2>3 DEF Pages, CachedBuffers
    <3>4. IsFiniteSet(DOMAIN room.cache.values) /\ InUse(room.cache) + 0 <= Limit
      BY <1>0, WithinBudget
    <3> HIDE DEF room
    <3> QED
      BY <1>3, <3>1, <3>2, <3>3, <3>4
  <2>4. CASE /\ cache' = room.cache /\ room.ok
             /\ load' = [load EXCEPT ![l].state = "queued"]
    <3>1. /\ \A m \in Loads \ {l} : load'[m] = load[m]
          /\ load'[l].output = load[l].output /\ load[l].state # "none"
      BY <1>0, <1>8, <2>4 DEF LoadFields, FillStart
    <3>2. InUse(room.cache) + FillCost <= Limit /\ IsFiniteSet(DOMAIN room.cache.values)
      BY <1>0, <2>4, Reserved, WithinBudget
    <3>3. Alive' \subseteq Alive
      BY <3>1 DEF Alive
    <3>4. Held' \subseteq Held
      BY <1>1, <3>1 DEF Held
    <3>5. {m \in Loads : Filling(m)}' \subseteq {m \in Loads : Filling(m)} \cup {l}
      BY <3>1 DEF Filling
    <3> HIDE DEF room
    <3>6. Buffers(cache)' \subseteq Buffers(room.cache) \cup {l} /\ Pages(cache)' \subseteq Pages(room.cache)
      BY <2>4, <3>4, <3>5 DEF Buffers, CachedBuffers, Pages
    <3> QED
      BY <1>2, <3>2, <3>3, <3>6, Growth
  <2> QED
    BY <1>8, <2>1, <2>2, <2>3, <2>4 DEF FillStart
<1>9. CASE FillFetch(l)
  <2>1. /\ \A m \in Loads \ {l} : load'[m] = load[m]
        /\ load'[l].output = load[l].output /\ load[l].state = "queued" /\ UNCHANGED cache
    BY <1>0, <1>9 DEF LoadFields, FillFetch
  <2>2. l \in Buffers(cache)
    BY <2>1 DEF Filling, Buffers
  <2> QED
    BY <1>0, <1>3, <1>7, <2>1, <2>2
<1>10. CASE FillRead(l)
  <2>1. l \in Buffers(cache)
    BY <1>10 DEF FillRead, Filling, Buffers
  <2>2. CASE FillFailed(l, "corrupt") /\ UNCHANGED cache
    BY <1>4, <1>10, <2>2 DEF FillRead
  <2>3. CASE /\ CachedRange(load[l].key) \in DOMAIN cache.values /\ UNCHANGED cache
             /\ FillReady(l, cache.values[CachedRange(load[l].key)])
    BY <1>5, <1>6, <1>7, <1>10, <2>3 DEF FillRead
  <2>4. CASE cache' = InsertedRange(l, l) /\ FillReady(l, l)
    <3> DEFINE c == InsertedRange(l, l)
               k == CachedRange(load[l].key)
    <3>1. /\ DOMAIN c.values = DOMAIN cache.values \cup {k}
          /\ \A x \in DOMAIN cache.values : x # k => c.values[x] = cache.values[x]
          /\ c.values[k] = l
          /\ Pages(c) \subseteq Pages(cache)
      BY <1>0, RangeInserted
    <3> HIDE DEF c, k
    <3>2. CachedBuffers(c) \subseteq CachedBuffers(cache) \cup {l}
      BY <3>1 DEF CachedBuffers, Pages
    <3>3. Pages(cache') \subseteq Pages(cache) /\ CachedBuffers(cache') \subseteq Buffers(cache) \cup CachedBuffers(cache)
      BY <2>1, <2>4, <3>1, <3>2 DEF c
    <3>4. load[l].state # "none"
      BY <1>10 DEF FillRead
    <3> QED
      BY <1>5, <2>1, <2>4, <3>3, <3>4
  <2> QED
    BY <1>10, <2>2, <2>3, <2>4 DEF FillRead
<1>11. CASE FillError(l)
  BY <1>4, <1>11 DEF FillError
<1>12. CASE LoadDrop(l)
  <2>1. /\ \A m \in Loads \ {l} : load'[m] = load[m]
        /\ load'[l].output = None /\ load'[l].state = "none" /\ UNCHANGED cache
    BY <1>0, <1>12 DEF LoadFields, LoadDrop
  <2>2. ~Filling(l)'
    BY <2>1 DEF Filling
  <2> QED
    BY <1>0, <1>3, <1>7, <2>1, <2>2
<1> QED
  BY <1>8, <1>9, <1>10, <1>11, <1>12 DEF LoadStep

(* At the start nothing is in use.                                         *)
LEMMA BudgetInit == Init => BudgetKept
<1> SUFFICES ASSUME Init PROVE BudgetKept
  OBVIOUS
<1>1. DOMAIN cache.values = {} /\ IsFiniteSet(DOMAIN cache.values)
  BY FS_EmptySet DEF Init
<1>2. Workers = {} /\ Alive = {} /\ Pages(cache) = {}
  BY <1>1 DEF Init, Workers, Working, Alive, Pages
<1>3. Buffers(cache) = {}
  <2>1. Held \subseteq {None} /\ \A l \in Loads : ~Filling(l)
    BY DEF Init, Held, Filling
  <2> QED
    BY <1>1, <2>1, NoneIsNoLoad DEF Buffers, CachedBuffers
<1>4. InUse(cache) = Cost(0, 0, 0, 0)
  BY <1>1, <1>2, <1>3, Counted, FS_EmptySet
<1> QED
  BY <1>4, CacheAssumption DEF Cost, BudgetKept

(* Every step stays within the budget.                                     *)
LEMMA BudgetNext ==
    ASSUME Structure, BudgetKept, [Next]_vars
    PROVE  BudgetKept'
<1>1. CASE UNCHANGED <<cache, load, reader>>
  BY <1>1 DEF BudgetKept, InUse, Working, Buffers, Filling, Held, CachedBuffers, Pages
<1> QED
  BY <1>1, BudgetReader, BudgetLoad DEF Next, vars, Replace, Quiet

(* Everything alive fits the budget, for any costs, any number of readers  *)
(* and any order of eviction and release.                                  *)
THEOREM WithinLimit == Spec => []BudgetKept
  BY BudgetInit, StructureInit, StructureNext, BudgetNext, PTL DEF Spec
===============================================================================
