------------------------------ MODULE FooterCache ------------------------------
(***************************************************************************)
(* The Parquet footer cache a table provider's scans share                 *)
(* (otmp-datafusion/src/footer.rs).                                        *)
(*                                                                         *)
(* A reader of a file asks for the default metadata, which is cached and   *)
(* loaded once for all who ask, or for metadata decoded with its own       *)
(* options, which is not.  Three things take bytes of one budget: the key  *)
(* of a load in flight, the bounded estimate of a footer being decoded,    *)
(* and every footer something still refers to, whether the cache still     *)
(* holds it or not.  Who does not fit waits, one at a time, while somebody *)
(* else holds bytes that are sure to come back; a reader of a running      *)
(* query may hold its footer for as long as it likes.                      *)
(*                                                                         *)
(* A load has the name of the reader that began it, and so has the footer  *)
(* it makes.  The drop of a reader or of a load with all it owns is one    *)
(* step: whoever waits is woken at its end.                                *)
(***************************************************************************)
EXTENDS Naturals, Sequences, FiniteSets, FiniteSetsExt, SequencesExt

CONSTANTS Readers,      \* readers of files, each with one file
          Preflight,    \* those of a planning scan, which drop what they read
          Optioned,     \* those that also decode with options of their own
          Files, File,  \* the immutable files, and the file of each reader
          Uri,          \* the URI of a file: two files of one URI are two versions
          Limit,        \* bytes of the budget
          KeyBytes,     \* bytes of the key of a load
          Estimate,     \* file -> bytes reserved to decode its footer
          Actual        \* file -> bytes of the decoded footer

None == "none"

ASSUME FooterAssumption ==
    /\ IsFiniteSet(Readers) /\ None \notin Readers
    /\ Preflight \subseteq Readers /\ Optioned \subseteq Readers /\ Preflight \cap Optioned = {}
    /\ File \in [Readers -> Files]
    /\ Limit \in Nat /\ KeyBytes \in Nat
    /\ \A f \in Files : Actual[f] \in Nat /\ Estimate[f] \in Nat

VARIABLES rd,      \* what each reader is doing and holds
          dec,     \* the decoding of each load and of each option call
          reg,     \* the registration lock: its holder and those who wait, in turn
          adm,     \* the admission lock: likewise
          parked,  \* the first to be admitted waits for a notification
          order    \* footers the cache holds, oldest first

vars == <<rd, dec, reg, adm, parked, order>>

Decoders == Readers \X {"load", "option"}
Idle == [at |-> "none", tail |-> None, entry |-> None, error |-> None]

Init ==
    /\ rd = [r \in Readers |-> [at |-> "new", lease |-> None, hit |-> FALSE, joined |-> None,
                                told |-> None]]
    /\ dec = [d \in Decoders |-> Idle]
    /\ reg = <<>> /\ adm = <<>> /\ parked = FALSE /\ order = <<>>

(* A queue whose members of S left.                                        *)
Without(queue, S) ==
    LET left[i \in 0..Len(queue)] ==
          IF i = 0 THEN <<>>
          ELSE IF queue[i] \in S THEN left[i - 1] ELSE Append(left[i - 1], queue[i])
    IN  left[Len(queue)]

-----------------------------------------------------------------------------
(* The budget.                                                             *)

Loads == {l \in Readers : dec[<<l, "load">>].at # "none"}
Decoding == {d \in Decoders : dec[d].at \in {"decode", "shrunk"}}

(* Footers something refers to, if the cache holds those of `held'.        *)
Footers(held) ==
    (ToSet(held) \cup {rd[r].lease : r \in Readers}
       \cup {dec[d].tail : d \in Decoders} \cup {dec[<<l, "load">>].entry : l \in Loads}) \ {None}

OptionLeases == {r \in Readers : dec[<<r, "option">>].at = "done"}

(* The n bytes that x holds, for the reason given.                         *)
Bytes(reason, x, n) == {reason} \X {x} \X (1..n)

FooterBytes(entries) == UNION {Bytes("footer", e, Actual[File[e]]) : e \in entries}

Reserved(d) == IF dec[d].at = "decode" THEN Estimate[File[d[1]]] ELSE Actual[File[d[1]]]

BytesHeld(held) ==
    (UNION {Bytes("key", l, KeyBytes) : l \in Loads})
      \cup (UNION {Bytes("decoding", d, Reserved(d)) : d \in Decoding})
      \cup FooterBytes(Footers(held))
      \cup (UNION {Bytes("option", r, Actual[File[r]]) : r \in OptionLeases})

UsedWith(held) == Cardinality(BytesHeld(held))

Used == UsedWith(order)

Transient == Cardinality(Decoding)
Keys == Cardinality(Loads)
Hits == Cardinality({r \in Readers : rd[r].hit})

-----------------------------------------------------------------------------
(* Admission: a claim is <<reader, "key">>, or the decoder whose footer is *)
(* to fit.                                                                 *)

Amount(claim) == IF claim[2] = "key" THEN KeyBytes ELSE Estimate[File[claim[1]]]

(* Mutant: evicting a footer is taken to free its bytes.                   *)
EvictionFrees(claim) ==
    {k \in 0..Len(order) :
        Used + Amount(claim) <= Limit + Cardinality(FooterBytes(ToSet(SubSeq(order, 1, k))))}

(* The numbers of oldest footers whose eviction makes room for the claim.  *)
Suffices(claim) ==
    {k \in 0..Len(order) : UsedWith(SubSeq(order, k + 1, Len(order))) + Amount(claim) <= Limit}

OwnHits(claim) == IF claim[2] = "option" /\ rd[claim[1]].hit THEN 1 ELSE 0

(* Mutant: footers held for planning by a cache hit are overlooked.        *)
ReleasableWithoutHits(claim) ==
    \/ Transient > 0
    \/ claim[2] = "key" /\ Keys > 0
    \/ claim[2] = "load" /\ Keys > 1

(* Somebody else holds what is sure to come back: a footer being decoded,  *)
(* one that planning reads, or the key of another load.  An option call    *)
(* does not wait for keys: their loads may be queued behind it.            *)
Releasable(claim) ==
    \/ Transient > 0
    \/ Hits > OwnHits(claim)
    \/ claim[2] = "key" /\ Keys > 0
    \/ claim[2] = "load" /\ Keys > 1

(* try_reserve, in the turn of its claim: evicts until the claim fits; if  *)
(* it does not, everything is evicted and the claim waits or is refused.   *)
Reserves(claim) ==
    /\ adm # <<>> /\ Head(adm) = claim /\ ~parked
    /\ Suffices(claim) # {}
    /\ order' = SubSeq(order, Min(Suffices(claim)) + 1, Len(order))
    /\ adm' = Tail(adm)
    /\ parked' = FALSE

CannotFit(claim) ==
    /\ adm # <<>> /\ Head(adm) = claim /\ ~parked
    /\ Amount(claim) > Limit \/ (Suffices(claim) = {} /\ ~Releasable(claim))
    /\ order' = IF Amount(claim) > Limit THEN order ELSE <<>>
    /\ adm' = Tail(adm)
    /\ parked' = FALSE

Pressure ==
    /\ adm # <<>> /\ ~parked
    /\ Amount(Head(adm)) <= Limit
    /\ Suffices(Head(adm)) = {} /\ Releasable(Head(adm))
    /\ order' = <<>>
    /\ parked' = TRUE
    /\ UNCHANGED <<rd, dec, reg, adm>>

(* What is refused although it would fit an empty cache is "starved" if a  *)
(* running query holds bytes at that moment, or asks.                      *)
Exhausted(claim) ==
    IF claim[2] = "option" \/ \E r \in Readers \ Preflight :
          rd[r].lease # None \/ dec[<<r, "option">>].at = "done" \/ dec[<<r, "option">>].tail # None
    THEN "starved" ELSE "exhausted"

(* Reservation::drop, shrink and finish_transient wake who waits.          *)
Notified == parked' = FALSE

NotifiedIf(released) == parked' = (parked /\ ~released)

-----------------------------------------------------------------------------
(* Readers leaving and loads ending.                                       *)

Others(r, l) == {x \in Readers \ {r} : rd[x].joined = l}

(* Reader r becomes `to' and gives up the load it joined: a load nobody    *)
(* waits for is dropped, with its turns, its reservations and its key.     *)
LeaveLoad(r, to) ==
    LET l == rd[r].joined
        ends == l # None /\ Others(r, l) = {}
    IN  /\ rd' = [rd EXCEPT ![r] = to]
        /\ dec' = IF ends THEN [dec EXCEPT ![<<l, "load">>] = Idle] ELSE dec
        /\ reg' = IF ends THEN Without(reg, {l}) ELSE reg
        /\ adm' = IF ends THEN Without(adm, {<<l, "load">>}) ELSE adm
        /\ NotifiedIf(ends)
        /\ UNCHANGED order

(* A call of r before it joined a load ends, and with it r's turn.         *)
Answer(r, to) ==
    /\ rd' = [rd EXCEPT ![r] = to]
    /\ reg' = Without(reg, {r})
    /\ UNCHANGED dec

Told(r, error) == [rd[r] EXCEPT !.at = "rest", !.told = error]

-----------------------------------------------------------------------------
(* get_metadata without options.                                           *)

Cached(f) == {e \in ToSet(order) : File[e] = f}
ConflictCached(f) == \E e \in ToSet(order) : Uri[File[e]] = Uri[f] /\ File[e] # f

Leased(r) ==
    [rd[r] EXCEPT !.at = "rest", !.told = "ok", !.lease = CHOOSE e \in Cached(File[r]) : TRUE,
                  !.hit = r \in Preflight]

Call(r) ==
    /\ rd[r].at = "new"
    /\ rd' = [rd EXCEPT ![r].at = "lookup"]
    /\ UNCHANGED <<dec, reg, adm, parked, order>>

(* get, before and under the registration lock.                            *)
Lookup(r) ==
    /\ \/ rd[r].at = "lookup"
       \/ rd[r].at = "registering" /\ Head(reg) = r
    /\ IF ConflictCached(File[r]) THEN Answer(r, Told(r, "conflict"))
       ELSE IF Cached(File[r]) # {} THEN Answer(r, Leased(r))
       ELSE /\ rd' = [rd EXCEPT ![r].at = IF @ = "lookup" THEN "pending" ELSE "recheck"]
            /\ UNCHANGED <<dec, reg>>
    /\ UNCHANGED <<adm, parked, order>>

(* Mutant: the loads in flight are looked at once, before the lock.        *)
PendingUnlocked(r) == {l \in Loads : rd[r].at = "pending" /\ Uri[File[l]] = Uri[File[r]]}

(* pending_load: the loads in flight of the reader's URI.                  *)
PendingOfUri(r) == {l \in Loads : Uri[File[l]] = Uri[File[r]]}

Pending(r) ==
    /\ rd[r].at \in {"pending", "recheck"}
    /\ LET found == PendingOfUri(r)
       IN  IF \E l \in found : File[l] # File[r]
           THEN Answer(r, Told(r, "conflict")) /\ UNCHANGED adm
           ELSE IF found # {}
           THEN Answer(r, [rd[r] EXCEPT !.at = "joined", !.joined = CHOOSE l \in found : TRUE])
                /\ UNCHANGED adm
           ELSE IF rd[r].at = "pending"
           THEN /\ rd' = [rd EXCEPT ![r].at = "registering"]
                /\ reg' = Append(reg, r)
                /\ UNCHANGED <<dec, adm>>
           ELSE /\ rd' = [rd EXCEPT ![r].at = "key"]
                /\ adm' = Append(adm, <<r, "key">>)
                /\ UNCHANGED <<dec, reg>>
    /\ UNCHANGED <<parked, order>>

(* The key is paid for: the load is registered and owns the turn of the    *)
(* reader that began it.                                                   *)
BeginLoad(r) ==
    /\ rd[r].at = "key"
    /\ \/ /\ Reserves(<<r, "key">>)
          /\ rd' = [rd EXCEPT ![r].at = "joined", ![r].joined = r]
          /\ dec' = [dec EXCEPT ![<<r, "load">>].at = "tail"]
          /\ UNCHANGED reg
       \/ /\ CannotFit(<<r, "key">>)
          /\ Answer(r, Told(r, IF KeyBytes > Limit THEN "too large" ELSE Exhausted(<<r, "key">>)))

(* The load's result is everybody's who joined it.  Planning keeps the     *)
(* load, and so its key, for as long as it keeps the footer.               *)
TakeResult(r) ==
    /\ rd[r].at = "joined"
    /\ LET l == dec[<<rd[r].joined, "load">>]
       IN  \/ /\ l.at = "done" /\ r \in Preflight
              /\ rd' = [rd EXCEPT ![r].at = "rest", ![r].told = "ok", ![r].lease = l.entry]
              /\ UNCHANGED <<dec, reg, adm, parked, order>>
           \/ /\ l.at = "done" /\ r \notin Preflight
              /\ LeaveLoad(r, [rd[r] EXCEPT !.at = "rest", !.told = "ok", !.lease = l.entry,
                                            !.joined = None])
           \/ /\ l.at = "failed"
              /\ LeaveLoad(r, [Told(r, l.error) EXCEPT !.joined = None])

-----------------------------------------------------------------------------
(* get_metadata with options, and the decoding both share.                 *)

CallOptioned(r) ==
    /\ r \in Optioned
    /\ rd[r].at \in {"new", "rest"}
    /\ dec[<<r, "option">>].at = "none"
    /\ rd' = [rd EXCEPT ![r].at = "option", ![r].told = None]
    /\ dec' = [dec EXCEPT ![<<r, "option">>].at = "tail"]
    /\ UNCHANGED <<reg, adm, parked, order>>

(* The decoding ends without a footer, and drops what it reserved.         *)
Failed(d, error) ==
    /\ dec' = [dec EXCEPT ![d] = [Idle EXCEPT !.at = "failed", !.error = error]]
    /\ rd' = IF d[2] = "option" THEN [rd EXCEPT ![d[1]] = Told(d[1], error)] ELSE rd

OwnKey(d) == IF d[2] = "load" THEN KeyBytes ELSE 0

(* read_tail: the bytes of a footer the cache holds are used again, and    *)
(* that footer is held meanwhile; otherwise the trailer is fetched, which  *)
(* may fail.                                                               *)
ReadTail(d) ==
    LET f == File[d[1]]
        kept == IF Cached(f) = {} THEN None ELSE CHOOSE e \in Cached(f) : TRUE
    IN  /\ dec[d].at = "tail"
        /\ \/ ConflictCached(f) /\ Failed(d, "conflict") /\ UNCHANGED adm
           \/ ~ConflictCached(f) /\ kept = None /\ Failed(d, "store") /\ UNCHANGED adm
           \/ ~ConflictCached(f) /\ Estimate[f] + OwnKey(d) > Limit
              /\ Failed(d, "too large") /\ UNCHANGED adm
           \/ /\ ~ConflictCached(f) /\ Estimate[f] + OwnKey(d) <= Limit
              /\ dec' = [dec EXCEPT ![d].at = "admission", ![d].tail = kept]
              /\ adm' = Append(adm, d)
              /\ UNCHANGED rd
        /\ UNCHANGED <<reg, parked, order>>

(* reserve_footer: a load passes its registration turn on once another     *)
(* load of its size would fit beside it.                                   *)
AdmitFooter(d) ==
    /\ dec[d].at = "admission"
    /\ \/ /\ Reserves(d)
          /\ dec' = [dec EXCEPT ![d].at = "decode", ![d].tail = None]
          /\ reg' = IF UsedWith(order') + 2 * Estimate[File[d[1]]] + KeyBytes <= Limit /\ d[2] = "load"
                    THEN Without(reg, {d[1]}) ELSE reg
          /\ UNCHANGED rd
       \/ CannotFit(d) /\ Failed(d, Exhausted(d)) /\ UNCHANGED reg

(* The footer is fetched, checked and decoded, or is not; the reservation  *)
(* shrinks to what it takes.                                               *)
Decode(d) ==
    /\ dec[d].at = "decode"
    /\ \/ Failed(d, "store")
       \/ Actual[File[d[1]]] > Estimate[File[d[1]]] /\ Failed(d, "too large")
       \/ /\ Actual[File[d[1]]] <= Estimate[File[d[1]]]
          /\ dec' = [dec EXCEPT ![d].at = "shrunk"]
          /\ UNCHANGED rd
    /\ Notified
    /\ UNCHANGED <<reg, adm, order>>

(* insert: a footer that came in meanwhile is used, and this one dropped.  *)
(* An option call keeps its own.                                           *)
Retain(d) ==
    LET f == File[d[1]]
    IN  /\ dec[d].at = "shrunk"
        /\ \/ /\ d[2] = "option"
              /\ dec' = [dec EXCEPT ![d].at = "done"]
              /\ rd' = [rd EXCEPT ![d[1]] = Told(d[1], "ok")]
              /\ UNCHANGED order
           \/ d[2] = "load" /\ ConflictCached(f) /\ Failed(d, "conflict") /\ UNCHANGED order
           \/ /\ d[2] = "load" /\ ~ConflictCached(f)
              /\ LET e == IF Cached(f) = {} THEN d[1] ELSE CHOOSE x \in Cached(f) : TRUE
                 IN  dec' = [dec EXCEPT ![d].at = "done", ![d].entry = e]
              /\ order' = IF Cached(f) = {} THEN Append(order, d[1]) ELSE order
              /\ UNCHANGED rd
        /\ UNCHANGED <<reg, adm>>

(* Mutant: a reservation that becomes a footer's wakes nobody.             *)
RetainQuietly == parked' = parked

(* finish_transient.                                                       *)
FinishTransient == Notified

RetainFooter(d) == Retain(d) /\ FinishTransient

-----------------------------------------------------------------------------
(* The drop of a reader, at rest or in a call.  If it was the one waiting, *)
(* the next has its turn.                                                  *)

HasTurn(r) == rd[r].at \in {"registering", "recheck", "key"}

DropReader(r) ==
    LET gone == [rd[r] EXCEPT !.at = "gone", !.lease = None, !.hit = FALSE, !.joined = None]
        l == rd[r].joined
        ends == l # None /\ Others(r, l) = {}
        dropped == {<<r, "option">>} \cup (IF ends THEN {<<l, "load">>} ELSE {})
        claims == dropped \cup {<<r, "key">>}
        turns == (IF ends THEN {l} ELSE {}) \cup (IF HasTurn(r) THEN {r} ELSE {})
        released == \/ ends \/ rd[r].hit
                    \/ <<r, "option">> \in Decoding \/ r \in OptionLeases
                    \/ Footers(order)' # Footers(order)
    IN  /\ rd[r].at # "gone"
        /\ rd' = [rd EXCEPT ![r] = gone]
        /\ dec' = [d \in Decoders |-> IF d \in dropped THEN Idle ELSE dec[d]]
        /\ reg' = Without(reg, turns)
        /\ adm' = Without(adm, claims)
        /\ UNCHANGED order
        /\ NotifiedIf(released \/ Head(adm) \in claims)

Progress ==
    \/ \E r \in Readers : Lookup(r) \/ Pending(r) \/ BeginLoad(r) \/ TakeResult(r)
    \/ \E d \in Decoders : ReadTail(d) \/ AdmitFooter(d) \/ Decode(d) \/ RetainFooter(d)
    \/ Pressure
    \/ \E r \in Preflight : rd[r].at = "rest" /\ DropReader(r)

Done == (\A r \in Readers : rd[r].at = "gone") /\ UNCHANGED vars

Next ==
    \/ \E r \in Readers : Call(r) \/ CallOptioned(r) \/ DropReader(r)
    \/ Progress
    \/ Done

Spec == Init /\ [][Next]_vars

(* Tasks run, requests to the store end, and planning drops what it read;  *)
(* a running query need not.                                               *)
FairSpec == Spec /\ WF_vars(Progress)

-----------------------------------------------------------------------------
(* The budget holds, counting footers that were evicted while a reader     *)
(* still refers to them (try_reserve).                                     *)
BudgetKept == Used <= Limit

(* One version of an object at most is loaded or cached at any time, and   *)
(* its footer is loaded by one load (check, pending_load).                 *)
OneVersionPerUri ==
    /\ \A l, m \in Loads : l # m /\ Uri[File[l]] = Uri[File[m]]
                             => {dec[<<l, "load">>].at, dec[<<m, "load">>].at} \cap {"done", "failed"} # {}
    /\ \A e, x \in ToSet(order) : e # x => Uri[File[e]] # Uri[File[x]]

(* Default metadata that fits alone is never refused for want of room that *)
(* other planning holds: it waits (owned_keys, owned_hits).                *)
NotRefusedForOthers == \A r \in Readers : rd[r].told # "exhausted"

InCall(r) == rd[r].at \notin {"new", "rest", "gone"}

(* Every call is answered: nobody waits for room that only the waiter, or  *)
(* somebody waiting behind it, could give back, and no wake-up is lost     *)
(* (admit).                                                                *)
EveryCallAnswered == \A r \in Readers : InCall(r) ~> ~InCall(r)
===============================================================================
