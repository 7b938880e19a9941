--------------------------- MODULE FooterCacheProofs ---------------------------
(***************************************************************************)
(* Proofs about FooterCache, for any readers, files and sizes.             *)
(***************************************************************************)
EXTENDS FooterCache, FiniteSetTheorems, TLAPS

-----------------------------------------------------------------------------
(* Induction over natural numbers, by a least counterexample.              *)

Less == {pair \in Nat \X Nat : pair[1] < pair[2]}

(* A set of natural numbers has a least element.                           *)
LEMMA LeastNumber ==
    ASSUME NEW T \in SUBSET Nat, T # {}
    PROVE  \E n \in T : \A m \in T : n <= m
<1>1. OpToRel(<, Nat) = Less
  BY Zenon DEF OpToRel, Less
<1>2. IsWellFoundedOn(Less, Nat)
  BY <1>1, NatLessThanWellFounded, Zenon
<1>3. PICK n \in T : \A m \in T : ~(<<m, n>> \in Less)
  BY <1>2, WFMin
<1>4. \A m, k \in Nat : m < k => <<m, k>> \in Less
  BY DEF Less
<1>5. ASSUME NEW m \in T PROVE n <= m
  <2>1. ~(m < n)
    BY <1>3, <1>4, Zenon
  <2> QED
    BY <2>1
<1> QED
  BY <1>5

(* What holds of 0 and of each number up to n that follows one it holds of *)
(* holds of all of them.                                                   *)
LEMMA UpTo ==
    ASSUME NEW n \in Nat, NEW S, 0 \in S, \A i \in 1..n : i - 1 \in S => i \in S
    PROVE  0..n \subseteq S
<1> DEFINE T == 0..n \ S
<1> SUFFICES ASSUME T # {} PROVE FALSE
  OBVIOUS
<1>1. T \in SUBSET Nat
  OBVIOUS
<1>2. PICK m \in T : \A k \in T : m <= k
  BY <1>1, LeastNumber
<1>3. m \in 1..n /\ m - 1 \in 0..n /\ m - 1 \notin T
  BY <1>2
<1> QED
  BY <1>2, <1>3

-----------------------------------------------------------------------------
(* Queues                                                                  *)

HeadIs(queue, x) == queue # <<>> /\ Head(queue) = x

LEMMA AppendKeeps ==
    ASSUME NEW X, NEW queue \in Seq(X), NEW e \in X
    PROVE  /\ Append(queue, e) \in Seq(X)
           /\ ToSet(Append(queue, e)) = ToSet(queue) \cup {e}
           /\ \A x : HeadIs(queue, x) => HeadIs(Append(queue, e), x)
<1>1. /\ Append(queue, e) \in Seq(X) /\ Len(Append(queue, e)) = Len(queue) + 1
      /\ Append(queue, e)[Len(queue) + 1] = e
      /\ \A i \in 1..Len(queue) : Append(queue, e)[i] = queue[i]
  OBVIOUS
<1>2. ToSet(Append(queue, e)) = ToSet(queue) \cup {e}
  <2>1. \A x \in ToSet(Append(queue, e)) : x \in ToSet(queue) \cup {e}
    BY <1>1 DEF ToSet
  <2>2. ToSet(queue) \cup {e} \subseteq ToSet(Append(queue, e))
    BY <1>1 DEF ToSet
  <2> QED
    BY <2>1, <2>2
<1>3. ASSUME NEW x, HeadIs(queue, x) PROVE HeadIs(Append(queue, e), x)
  <2>1. 1 \in 1..Len(queue) /\ queue[1] = x
    BY <1>3 DEF HeadIs
  <2>2. Append(queue, e)[1] = x /\ Append(queue, e) # <<>>
    BY <1>1, <2>1
  <2> QED
    BY <1>1, <2>2 DEF HeadIs
<1> QED
  BY <1>1, <1>2, <1>3

LeftNext(queue, S, x, i) == IF queue[i] \in S THEN x ELSE Append(x, queue[i])

Leaves(g, queue, S, n) ==
    g = [i \in 0..n |-> IF i = 0 THEN <<>> ELSE LeftNext(queue, S, g[i - 1], i)]

(* The recursive function in Without is well defined.                      *)
LEMMA WithoutEquation ==
    ASSUME NEW n \in Nat, NEW queue, NEW S
    PROVE  \E g : Leaves(g, queue, S, n)
<1> DEFINE next(x, i) == LeftNext(queue, S, x, i)
           Solves(g, k) == g = [i \in 0..k |-> IF i = 0 THEN <<>> ELSE next(g[i - 1], i)]
           Solved == {k \in 0..n : \E g : Solves(g, k)}
<1>1. 0 \in Solved
  <2> DEFINE g == [i \in 0..0 |-> <<>>]
  <2> HIDE DEF next
  <2>1. Solves(g, 0)
    OBVIOUS
  <2> HIDE DEF Solves, g
  <2> QED
    BY <2>1
<1>2. ASSUME NEW k \in 1..n, k - 1 \in Solved PROVE k \in Solved
  <2>1. PICK g : Solves(g, k - 1)
    BY <1>2
  <2> DEFINE h == [i \in 0..k |-> IF i < k THEN g[i] ELSE next(g[k - 1], k)]
  <2> HIDE DEF next
  <2>2. ASSUME NEW i \in 0..k
        PROVE  h[i] = IF i = 0 THEN <<>> ELSE next(h[i - 1], i)
    <3>1. CASE i < k
      BY <2>1, <3>1
    <3>2. CASE i = k
      BY <3>2
    <3> QED
      BY <3>1, <3>2
  <2>3. Solves(h, k)
    BY <2>2
  <2> HIDE DEF Solves, h
  <2> QED
    BY <2>3
<1>3. 0..n \subseteq Solved
  <2> HIDE DEF Solved
  <2> QED
    BY <1>1, <1>2, UpTo
<1>4. \E g : Solves(g, n)
  <2> HIDE DEF Solves
  <2> QED
    BY <1>3
<1> QED
  BY <1>4 DEF Leaves

(* Who is not in S keeps its place in the queue, the first one too.        *)
LEMMA WithoutKeeps ==
    ASSUME NEW X, NEW queue \in Seq(X), NEW S
    PROVE  /\ Without(queue, S) \in Seq(X)
           /\ \A x : x \in ToSet(queue) /\ x \notin S => x \in ToSet(Without(queue, S))
           /\ \A x : x \notin S /\ HeadIs(queue, x) => HeadIs(Without(queue, S), x)
<1> DEFINE n == Len(queue)
           left == CHOOSE g : Leaves(g, queue, S, n)
<1>1. Without(queue, S) = left[n]
  BY DEF Without, Leaves, LeftNext
<1>2. n \in Nat /\ DOMAIN queue = 1..n /\ \A i \in 1..n : queue[i] \in X
  OBVIOUS
<1>3. Leaves(left, queue, S, n)
  <2>1. \E g : Leaves(g, queue, S, n)
    BY <1>2, WithoutEquation
  <2> QED
    BY <2>1
<1> HIDE DEF left, n
<1>i. \A i \in 0..n : left[i] = IF i = 0 THEN <<>> ELSE LeftNext(queue, S, left[i - 1], i)
  BY <1>3 DEF Leaves
<1> DEFINE Good(i) == /\ left[i] \in Seq(X)
                      /\ \A j \in 1..i : queue[j] \notin S => queue[j] \in ToSet(left[i])
                      /\ i > 0 /\ queue[1] \notin S => left[i] # <<>> /\ left[i][1] = queue[1]
           Ok == {i \in 0..n : Good(i)}
<1>0. left[0] = <<>>
  BY <1>2, <1>i
<1>4. Good(0) /\ left[0] = <<>>
  <2>1. <<>> \in Seq(X) /\ \A j \in 1..0 : FALSE
    OBVIOUS
  <2> QED
    BY <1>0, <2>1
<1>5. ASSUME NEW i \in 1..n, Good(i - 1) PROVE Good(i)
  <2>1. left[i] = IF queue[i] \in S THEN left[i - 1] ELSE Append(left[i - 1], queue[i])
    BY <1>2, <1>i DEF LeftNext
  <2>2. CASE queue[i] \in S
    <3>1. left[i] = left[i - 1] /\ \A j \in 1..i : queue[j] \notin S => j \in 1..(i - 1)
      BY <2>1, <2>2
    <3>2. queue[1] \notin S => i - 1 > 0
      BY <2>2
    <3> QED
      BY <3>1, <3>2, <1>5
  <2>3. CASE queue[i] \notin S
    <3> DEFINE old == left[i - 1]
    <3>1. left[i] = Append(old, queue[i]) /\ old \in Seq(X) /\ queue[i] \in X
      BY <2>1, <2>3, <1>2, <1>5
    <3>2. left[i] \in Seq(X) /\ Len(left[i]) = Len(old) + 1 /\ left[i][Len(old) + 1] = queue[i]
          /\ \A k \in 1..Len(old) : left[i][k] = old[k]
      BY <3>1
    <3>3. ToSet(old) \subseteq ToSet(left[i]) /\ queue[i] \in ToSet(left[i])
      BY <3>1, AppendKeeps
    <3>4. \A j \in 1..i : queue[j] \notin S => queue[j] \in ToSet(left[i])
      <4> SUFFICES ASSUME NEW j \in 1..i, queue[j] \notin S PROVE queue[j] \in ToSet(left[i])
        OBVIOUS
      <4>1. CASE j = i
        BY <4>1, <3>3
      <4>2. CASE j \in 1..(i - 1)
        BY <4>2, <3>3, <1>5
      <4> QED
        BY <4>1, <4>2
    <3>5. queue[1] \notin S => left[i] # <<>> /\ left[i][1] = queue[1]
      <4>1. CASE i = 1
        <5>1. old = <<>>
          BY <4>1, <1>4
        <5> QED
          BY <4>1, <5>1, <3>1
      <4>2. CASE i > 1
        <5>1. queue[1] \notin S => old # <<>> /\ old[1] = queue[1]
          BY <4>2, <1>5
        <5>2. old # <<>> => 1 \in 1..Len(old)
          BY <3>1
        <5>3. left[i] # <<>>
          BY <3>1
        <5> QED
          BY <5>1, <5>2, <5>3, <3>2
      <4> QED
        BY <4>1, <4>2
    <3> QED
      BY <3>2, <3>4, <3>5
  <2> QED
    BY <2>2, <2>3
<1>6. 0..n \subseteq Ok
  <2> HIDE DEF Good
  <2>1. 0 \in Ok /\ \A i \in 1..n : i - 1 \in Ok => i \in Ok
    BY <1>2, <1>4, <1>5
  <2> HIDE DEF Ok
  <2> QED
    BY <2>1, <1>2, UpTo
<1>7. Good(n)
  BY <1>2, <1>6
<1>8. \A x : x \in ToSet(queue) /\ x \notin S => x \in ToSet(left[n])
  BY <1>2, <1>7 DEF ToSet
<1>9. \A x : x \notin S /\ HeadIs(queue, x) => HeadIs(left[n], x)
  <2> SUFFICES ASSUME NEW x, x \notin S, HeadIs(queue, x) PROVE HeadIs(left[n], x)
    OBVIOUS
  <2>1. queue # <<>> /\ queue[1] = x /\ n > 0
    BY DEF HeadIs, n
  <2>2. left[n] \in Seq(X) /\ left[n] # <<>> /\ left[n][1] = x
    BY <1>7, <2>1
  <2> QED
    BY <2>2 DEF HeadIs
<1> QED
  BY <1>1, <1>7, <1>8, <1>9
-----------------------------------------------------------------------------
(* The inductive invariant                                                 *)

ReaderFields == {"at", "lease", "hit", "joined", "told"}
DecoderFields == {"at", "tail", "entry", "error"}
MaybeReader == Readers \cup {None}

CachedIn(held, f) == {e \in ToSet(held) : File[e] = f}

(* There is room for two loads of the file.                                *)
Roomy(f) == 2 * Estimate[f] + 2 * KeyBytes <= Limit

(* Reader r, in state `me', with these decoders, this queue for the        *)
(* registration lock and these footers cached.                             *)
ReaderOK(r, me, decoders, queue, held) ==
    /\ DOMAIN me = ReaderFields
    /\ me.lease \in MaybeReader /\ me.joined \in MaybeReader /\ me.told # "exhausted"
    /\ me.at = "registering" => r \in ToSet(queue)
    /\ me.at \in {"recheck", "key"} =>
          HeadIs(queue, r) /\ (CachedIn(held, File[r]) # {} => Roomy(File[r]))
    /\ me.at = "key" => \A l \in Readers : Uri[File[l]] = Uri[File[r]] => decoders[<<l, "load">>].at = "none"
    /\ me.at \notin {"joined", "rest", "gone", "option"} => decoders[<<r, "load">>].at = "none"
    /\ me.at = "joined" => me.joined \in Readers
    /\ me.joined \in Readers => decoders[<<me.joined, "load">>].at # "none"
    /\ me.at \notin {"rest", "gone", "option"} => me.lease = None
    /\ (r \in Preflight /\ me.lease # None /\ ~me.hit) =>
          me.joined \in Readers /\ decoders[<<me.joined, "load">>].at = "done"

(* Decoder d, in state `me'.                                               *)
DecoderOK(d, me, queue, held) ==
    /\ DOMAIN me = DecoderFields
    /\ me.tail \in MaybeReader /\ me.entry \in MaybeReader /\ me.error # "exhausted"
    /\ me.entry # None => me.at = "done"
    /\ me.tail # None => me.at = "admission"
    /\ me.at = "shrunk" => Actual[File[d[1]]] <= Estimate[File[d[1]]]
    /\ (d[2] = "load" /\ me.at \in {"tail", "admission"}) => HeadIs(queue, d[1])
    /\ (d[2] = "load" /\ me.at # "none") => HeadIs(queue, d[1]) \/ Roomy(File[d[1]])
    /\ (d[2] = "load" /\ me.at = "tail" /\ CachedIn(held, File[d[1]]) # {}) => Roomy(File[d[1]])
    /\ (d[2] = "load" /\ me.at = "admission") => Estimate[File[d[1]]] + KeyBytes <= Limit
    /\ (d[2] = "load" /\ me.tail # None) =>
          /\ File[me.tail] = File[d[1]] /\ Roomy(File[d[1]])
          /\ Actual[File[d[1]]] <= Estimate[File[d[1]]]
    /\ (d[2] = "option" /\ d[1] \notin Optioned) => me.at = "none"

CacheOK(held) ==
    /\ held \in Seq(Readers)
    /\ \A e, x \in ToSet(held) : e # x => Uri[File[e]] # Uri[File[x]]
    /\ \A e \in ToSet(held) : Actual[File[e]] <= Estimate[File[e]]

Ended == {"done", "failed"}

LoadsApart(decoders) ==
    \A l, m \in Readers :
        (/\ l # m /\ Uri[File[l]] = Uri[File[m]]
         /\ decoders[<<l, "load">>].at # "none" /\ decoders[<<m, "load">>].at # "none") =>
             decoders[<<l, "load">>].at \in Ended \/ decoders[<<m, "load">>].at \in Ended

Inv ==
    /\ DOMAIN rd = Readers /\ DOMAIN dec = Decoders /\ reg \in Seq(Readers)
    /\ \A r \in Readers : ReaderOK(r, rd[r], dec, reg, order)
    /\ \A d \in Decoders : DecoderOK(d, dec[d], reg, order)
    /\ CacheOK(order)
    /\ LoadsApart(dec)

LEMMA DecodersAre ==
    /\ \A d \in Decoders : d[1] \in Readers /\ d[2] \in {"load", "option"} /\ d = <<d[1], d[2]>>
    /\ \A r \in Readers : <<r, "load">> \in Decoders /\ <<r, "option">> \in Decoders
    /\ \A r : <<r, "load">>[1] = r /\ <<r, "option">>[1] = r
    /\ \A r : <<r, "load">>[2] = "load" /\ <<r, "option">>[2] = "option"
  BY DEF Decoders

LEMMA InitInv == Init => Inv
<1> SUFFICES ASSUME Init PROVE Inv
  OBVIOUS
<1>1. DOMAIN rd = Readers /\ DOMAIN dec = Decoders /\ reg \in Seq(Readers) /\ order = <<>>
  BY DEF Init
<1>2. CacheOK(order)
  <2>1. <<>> \in Seq(Readers) /\ DOMAIN <<>> = {}
    OBVIOUS
  <2>2. ToSet(<<>>) = {}
    BY <2>1 DEF ToSet
  <2> QED
    BY <1>1, <2>1, <2>2 DEF CacheOK
<1>3. \A d \in Decoders : dec[d] = Idle
  BY DEF Init
<1>4. Idle.at = "none" /\ Idle.tail = None /\ Idle.entry = None /\ Idle.error = None
      /\ DOMAIN Idle = DecoderFields
  BY DEF Idle, DecoderFields
<1>5. \A d \in Decoders : DecoderOK(d, dec[d], reg, order)
  BY <1>3, <1>4 DEF DecoderOK, MaybeReader, None
<1>6. ASSUME NEW r \in Readers PROVE ReaderOK(r, rd[r], dec, reg, order)
  <2>1. \A l \in Readers : dec[<<l, "load">>].at = "none"
    BY <1>3, <1>4, DecodersAre
  <2>2. /\ DOMAIN rd[r] = ReaderFields
        /\ rd[r].at = "new" /\ rd[r].lease = None /\ rd[r].joined = None /\ rd[r].told = None
    BY DEF Init, ReaderFields
  <2> QED
    BY <2>1, <2>2, FooterAssumption DEF ReaderOK, MaybeReader, None
<1>7. LoadsApart(dec)
  BY <1>3, <1>4, DecodersAre DEF LoadsApart
<1> QED
  BY <1>1, <1>2, <1>5, <1>6, <1>7 DEF Inv

(* A footer is no longer cached, or one of a roomy file is new.            *)
CacheFor(f, held, now) == CachedIn(now, f) \subseteq CachedIn(held, f) \/ Roomy(f)

(* A reader that does nothing, while others do.                            *)
LEMMA ReaderStays ==
    ASSUME NEW r, NEW me, NEW decoders, NEW queue, NEW held, ReaderOK(r, me, decoders, queue, held),
           NEW decoders2, NEW queue2, NEW held2,
           me.at = "registering" /\ r \in ToSet(queue) => r \in ToSet(queue2),
           me.at \in {"recheck", "key"} /\ HeadIs(queue, r) =>
               HeadIs(queue2, r) /\ CacheFor(File[r], held, held2),
           me.at = "key" => \A l \in Readers : decoders[<<l, "load">>].at = "none" =>
                                decoders2[<<l, "load">>].at = "none",
           me.at \notin {"joined", "rest", "gone", "option"} /\ decoders[<<r, "load">>].at = "none" =>
               decoders2[<<r, "load">>].at = "none",
           me.joined \in Readers =>
               /\ decoders[<<me.joined, "load">>].at # "none" => decoders2[<<me.joined, "load">>].at # "none"
               /\ decoders[<<me.joined, "load">>].at = "done" => decoders2[<<me.joined, "load">>].at = "done"
    PROVE  ReaderOK(r, me, decoders2, queue2, held2)
  BY DEF ReaderOK, CacheFor

LEMMA DecoderStays ==
    ASSUME NEW d, NEW me, NEW queue, NEW held, DecoderOK(d, me, queue, held),
           NEW queue2, NEW held2,
           d[2] = "load" /\ me.at # "none" /\ HeadIs(queue, d[1]) => HeadIs(queue2, d[1]),
           d[2] = "load" /\ me.at = "tail" /\ HeadIs(queue, d[1]) => CacheFor(File[d[1]], held, held2)
    PROVE  DecoderOK(d, me, queue2, held2)
  BY DEF DecoderOK, CacheFor

(* Loads that go on, none of them new.                                     *)
LoadsGoOn(decoders, decoders2) ==
    \A l \in Readers :
        /\ decoders[<<l, "load">>].at = "none" <=> decoders2[<<l, "load">>].at = "none"
        /\ decoders[<<l, "load">>].at = "done" => decoders2[<<l, "load">>].at = "done"
        /\ decoders[<<l, "load">>].at = "failed" => decoders2[<<l, "load">>].at = "failed"

LEMMA StillApart ==
    ASSUME NEW decoders, LoadsApart(decoders), NEW decoders2, LoadsGoOn(decoders, decoders2)
    PROVE  LoadsApart(decoders2)
  BY DEF LoadsApart, LoadsGoOn, Ended

(* A reader acts for itself, and no decoder does; footers may be evicted.  *)
LEMMA ReaderActs ==
    ASSUME Inv, NEW r \in Readers, DOMAIN rd' = Readers, dec' = dec,
           \A x \in Readers \ {r} : rd'[x] = rd[x],
           reg' \in Seq(Readers), CacheOK(order'),
           \A f : CachedIn(order', f) \subseteq CachedIn(order, f),
           \A x \in Readers \ {r} : /\ x \in ToSet(reg) => x \in ToSet(reg')
                                    /\ HeadIs(reg, x) => HeadIs(reg', x),
           dec[<<r, "load">>].at # "none" /\ HeadIs(reg, r) => HeadIs(reg', r),
           ReaderOK(r, rd'[r], dec, reg', order')
    PROVE  Inv'
<1>1. \A x \in Readers : ReaderOK(x, rd[x], dec, reg, order)
  BY DEF Inv
<1>2. ASSUME NEW x \in Readers PROVE ReaderOK(x, rd'[x], dec', reg', order')
  <2>1. CASE x = r
    BY <2>1
  <2>2. CASE x # r
    <3>1. rd'[x] = rd[x] /\ ReaderOK(x, rd[x], dec, reg, order)
          /\ CacheFor(File[x], order, order')
      BY <2>2, <1>1 DEF CacheFor
    <3>2. ReaderOK(x, rd[x], dec, reg', order')
      BY <3>1, <2>2, ReaderStays
    <3> QED
      BY <3>1, <3>2
  <2> QED
    BY <2>1, <2>2
<1>3. ASSUME NEW d \in Decoders PROVE DecoderOK(d, dec'[d], reg', order')
  <2>1. DecoderOK(d, dec[d], reg, order) /\ CacheFor(File[d[1]], order, order') /\ d[1] \in Readers
    BY DecodersAre DEF Inv, CacheFor
  <2>2. d[2] = "load" /\ dec[d].at # "none" /\ HeadIs(reg, d[1]) => HeadIs(reg', d[1])
    BY DecodersAre
  <2> QED
    BY <2>1, <2>2, DecoderStays
<1> QED
  BY <1>2, <1>3 DEF Inv

(* A decoder acts for itself; no load begins or is dropped.                *)
LEMMA DecoderActs ==
    ASSUME Inv, NEW d \in Decoders, DOMAIN dec' = Decoders, DOMAIN rd' = Readers,
           \A e \in Decoders \ {d} : dec'[e] = dec[e],
           \A x \in Readers \ {d[1]} : rd'[x] = rd[x],
           LoadsGoOn(dec, dec'), reg' \in Seq(Readers), CacheOK(order'),
           \A x \in Readers \ {d[1]} : /\ x \in ToSet(reg) => x \in ToSet(reg')
                                       /\ HeadIs(reg, x) => HeadIs(reg', x),
           \A x \in Readers \ {d[1]} : HeadIs(reg, x) => CacheFor(File[x], order, order'),
           d[2] = "option" /\ HeadIs(reg, d[1]) =>
               HeadIs(reg', d[1]) /\ CacheFor(File[d[1]], order, order'),
           ReaderOK(d[1], rd'[d[1]], dec', reg', order'),
           DecoderOK(d, dec'[d], reg', order')
    PROVE  Inv'
<1>1. \A x \in Readers : ReaderOK(x, rd[x], dec, reg, order)
  BY DEF Inv
<1>2. ASSUME NEW x \in Readers PROVE ReaderOK(x, rd'[x], dec', reg', order')
  <2>1. CASE x = d[1]
    BY <2>1
  <2>2. CASE x # d[1]
    <3>1. rd'[x] = rd[x] /\ ReaderOK(x, rd[x], dec, reg, order)
      BY <2>2, <1>1
    <3>2. ReaderOK(x, rd[x], dec', reg', order')
      <4>1. \A l \in Readers :
               /\ dec[<<l, "load">>].at = "none" <=> dec'[<<l, "load">>].at = "none"
               /\ dec[<<l, "load">>].at = "done" => dec'[<<l, "load">>].at = "done"
        BY DEF LoadsGoOn
      <4>2. x \in ToSet(reg) => x \in ToSet(reg')
        BY <2>2
      <4>3. HeadIs(reg, x) => HeadIs(reg', x) /\ CacheFor(File[x], order, order')
        BY <2>2
      <4> QED
        BY <3>1, <4>1, <4>2, <4>3 DEF ReaderOK, CacheFor
    <3> QED
      BY <3>1, <3>2
  <2> QED
    BY <2>1, <2>2
<1>3. ASSUME NEW e \in Decoders PROVE DecoderOK(e, dec'[e], reg', order')
  <2>1. CASE e = d
    BY <2>1
  <2>2. CASE e # d
    <3>1. DecoderOK(e, dec[e], reg, order) /\ dec'[e] = dec[e]
      BY <2>2 DEF Inv
    <3>2. e[2] = "load" /\ e[1] = d[1] => d[2] = "option"
      BY <2>2, DecodersAre
    <3>3. e[2] = "load" /\ HeadIs(reg, e[1]) =>
              HeadIs(reg', e[1]) /\ CacheFor(File[e[1]], order, order')
      BY <3>2, DecodersAre
    <3> QED
      BY <3>1, <3>3, DecoderStays
  <2> QED
    BY <2>1, <2>2
<1>4. LoadsApart(dec')
  BY StillApart DEF Inv
<1> QED
  BY <1>2, <1>3, <1>4 DEF Inv

-----------------------------------------------------------------------------
(* Calls before they join a load                                           *)

LEMMA CachedAre ==
    ASSUME Inv, NEW f
    PROVE  Cached(f) = CachedIn(order, f) /\ Cached(f) \subseteq Readers
<1>1. order \in Seq(Readers)
  BY DEF Inv, CacheOK
<1>2. ToSet(order) \subseteq Readers
  BY <1>1 DEF ToSet
<1> QED
  BY <1>2 DEF Cached, CachedIn

LEMMA AnswerInv ==
    ASSUME Inv, NEW r \in Readers, rd[r].at \notin {"joined", "rest", "gone", "option"},
           NEW to, Answer(r, to), DOMAIN to = ReaderFields, to.at \in {"rest", "joined"},
           to.lease \in MaybeReader, to.joined \in MaybeReader, to.told # "exhausted",
           to.at = "joined" => to.joined \in Readers /\ to.lease = rd[r].lease,
           to.joined = rd[r].joined \/ dec[<<to.joined, "load">>].at # "none",
           (to.lease = rd[r].lease /\ to.hit = rd[r].hit) \/ to.hit = (r \in Preflight),
           to.lease = rd[r].lease /\ to.joined # rd[r].joined => rd[r].lease = None,
           CacheOK(order'), \A f : CachedIn(order', f) \subseteq CachedIn(order, f)
    PROVE  Inv'
<1>1. /\ rd' = [rd EXCEPT ![r] = to] /\ reg' = Without(reg, {r}) /\ dec' = dec
      /\ DOMAIN rd = Readers /\ reg \in Seq(Readers) /\ ReaderOK(r, rd[r], dec, reg, order)
  BY DEF Answer, Inv
<1>2. DOMAIN rd' = Readers /\ rd'[r] = to /\ \A x \in Readers \ {r} : rd'[x] = rd[x]
  BY <1>1
<1>3. /\ reg' \in Seq(Readers)
      /\ \A x \in Readers \ {r} : /\ x \in ToSet(reg) => x \in ToSet(reg')
                                  /\ HeadIs(reg, x) => HeadIs(reg', x)
  BY <1>1, WithoutKeeps
<1>4. dec[<<r, "load">>].at = "none"
  BY <1>1 DEF ReaderOK
<1>5. ReaderOK(r, to, dec, reg', order')
  BY <1>1, <1>4 DEF ReaderOK
<1> QED
  BY <1>1, <1>2, <1>3, <1>4, <1>5, ReaderActs

LEMMA CallInv ==
    ASSUME Inv, NEW r \in Readers, Call(r)
    PROVE  Inv'
<1>1. /\ rd[r].at = "new" /\ rd' = [rd EXCEPT ![r].at = "lookup"] /\ dec' = dec /\ reg' = reg
      /\ order' = order /\ DOMAIN rd = Readers /\ ReaderOK(r, rd[r], dec, reg, order)
      /\ reg \in Seq(Readers) /\ CacheOK(order)
  BY DEF Call, Inv
<1>2. /\ DOMAIN rd' = Readers /\ \A x \in Readers \ {r} : rd'[x] = rd[x]
      /\ rd'[r] = [rd[r] EXCEPT !.at = "lookup"]
  BY <1>1
<1>3. ReaderOK(r, rd'[r], dec, reg, order)
  BY <1>1, <1>2 DEF ReaderOK, ReaderFields
<1> QED
  BY <1>1, <1>2, <1>3, ReaderActs

LEMMA ToldIs ==
    ASSUME Inv, NEW r \in Readers, NEW error, NEW to, to = Told(r, error)
    PROVE  /\ DOMAIN to = ReaderFields /\ to.at = "rest" /\ to.told = error
           /\ to.lease = rd[r].lease /\ to.joined = rd[r].joined /\ to.hit = rd[r].hit
<1>1. DOMAIN rd[r] = ReaderFields
  BY DEF Inv, ReaderOK
<1> QED
  BY <1>1 DEF Told, ReaderFields

LEMMA LookupInv ==
    ASSUME Inv, NEW r \in Readers, Lookup(r)
    PROVE  Inv'
<1>1. /\ rd[r].at \in {"lookup", "registering"} /\ order' = order
      /\ DOMAIN rd = Readers /\ ReaderOK(r, rd[r], dec, reg, order)
      /\ reg \in Seq(Readers) /\ CacheOK(order)
      /\ \A f : CachedIn(order', f) \subseteq CachedIn(order, f)
  BY DEF Lookup, Inv
<1>2. rd[r].lease \in MaybeReader /\ rd[r].joined \in MaybeReader /\ DOMAIN rd[r] = ReaderFields
  BY <1>1 DEF ReaderOK
<1>3. CASE ConflictCached(File[r])
  <2> DEFINE to == Told(r, "conflict")
  <2>1. Answer(r, to)
    BY <1>3 DEF Lookup
  <2>2. /\ DOMAIN to = ReaderFields /\ to.at = "rest" /\ to.told = "conflict"
        /\ to.lease = rd[r].lease /\ to.joined = rd[r].joined /\ to.hit = rd[r].hit
    BY ToldIs
  <2> HIDE DEF to
  <2> QED
    BY <1>1, <1>2, <2>1, <2>2, AnswerInv
<1>4. CASE ~ConflictCached(File[r]) /\ Cached(File[r]) # {}
  <2> DEFINE to == Leased(r)
             e == CHOOSE x \in Cached(File[r]) : TRUE
  <2>1. Answer(r, to)
    BY <1>4 DEF Lookup
  <2>2. e \in Readers
    BY <1>4, CachedAre
  <2>3. /\ DOMAIN to = ReaderFields /\ to.at = "rest" /\ to.told = "ok"
        /\ to.lease = e /\ to.joined = rd[r].joined /\ to.hit = (r \in Preflight)
    <3>1. to = [rd[r] EXCEPT !.at = "rest", !.told = "ok", !.lease = e, !.hit = r \in Preflight]
      BY DEF Leased
    <3> HIDE DEF to, e
    <3> QED
      BY <1>2, <3>1 DEF ReaderFields
  <2> HIDE DEF to, e
  <2>4. to.lease \in MaybeReader
    BY <2>2, <2>3 DEF MaybeReader
  <2> QED
    BY <1>1, <1>2, <2>1, <2>3, <2>4, AnswerInv
<1>5. CASE ~ConflictCached(File[r]) /\ Cached(File[r]) = {}
  <2> DEFINE next == IF rd[r].at = "lookup" THEN "pending" ELSE "recheck"
  <2>1. rd' = [rd EXCEPT ![r].at = next] /\ dec' = dec /\ reg' = reg
    BY <1>5 DEF Lookup
  <2>2. /\ DOMAIN rd' = Readers /\ \A x \in Readers \ {r} : rd'[x] = rd[x]
        /\ rd'[r] = [rd[r] EXCEPT !.at = next]
    BY <1>1, <2>1
  <2>3. CachedIn(order, File[r]) = {}
    BY <1>5, CachedAre
  <2>4. next = "recheck" => HeadIs(reg, r)
    <3>1. ASSUME next = "recheck" PROVE HeadIs(reg, r)
      <4>1. rd[r].at = "registering" /\ Head(reg) = r
        BY <3>1, <1>1 DEF Lookup
      <4>2. r \in ToSet(reg)
        BY <4>1, <1>1 DEF ReaderOK
      <4>3. reg # <<>>
        BY <4>2, <1>1 DEF ToSet
      <4> QED
        BY <4>1, <4>3 DEF HeadIs
    <3> QED
      BY <3>1
  <2>n. next \in {"pending", "recheck"}
    OBVIOUS
  <2> HIDE DEF next
  <2>5. ReaderOK(r, rd'[r], dec, reg, order)
    BY <1>1, <1>2, <2>2, <2>3, <2>4, <2>n DEF ReaderOK, ReaderFields
  <2> QED
    BY <1>1, <2>1, <2>2, <2>5, ReaderActs
<1> QED
  BY <1>3, <1>4, <1>5

LEMMA PendingInv ==
    ASSUME Inv, NEW r \in Readers, Pending(r)
    PROVE  Inv'
<1> DEFINE found == PendingOfUri(r)
           other == \E l \in found : File[l] # File[r]
<1>1. /\ rd[r].at \in {"pending", "recheck"} /\ order' = order
      /\ DOMAIN rd = Readers /\ ReaderOK(r, rd[r], dec, reg, order)
      /\ reg \in Seq(Readers) /\ CacheOK(order)
      /\ \A f : CachedIn(order', f) \subseteq CachedIn(order, f)
  BY DEF Pending, Inv
<1>2. /\ rd[r].lease = None /\ rd[r].lease \in MaybeReader /\ rd[r].joined \in MaybeReader
      /\ DOMAIN rd[r] = ReaderFields /\ rd[r].told # "exhausted"
  BY <1>1 DEF ReaderOK
<1>3. found \subseteq Readers /\ (\A l \in found : dec[<<l, "load">>].at # "none")
      /\ \A l \in Readers : dec[<<l, "load">>].at # "none" /\ Uri[File[l]] = Uri[File[r]] => l \in found
  BY DEF PendingOfUri, Loads
<1>4. CASE other
  <2> DEFINE to == Told(r, "conflict")
  <2>1. Answer(r, to)
    BY <1>4 DEF Pending
  <2>2. /\ DOMAIN to = ReaderFields /\ to.at = "rest" /\ to.told = "conflict"
        /\ to.lease = rd[r].lease /\ to.joined = rd[r].joined /\ to.hit = rd[r].hit
    BY ToldIs
  <2> HIDE DEF to
  <2> QED
    BY <1>1, <1>2, <2>1, <2>2, AnswerInv
<1>5. CASE ~other /\ found # {}
  <2> DEFINE l == CHOOSE x \in found : TRUE
             to == [rd[r] EXCEPT !.at = "joined", !.joined = l]
  <2>1. Answer(r, to)
    BY <1>5 DEF Pending
  <2>2. l \in Readers /\ dec[<<l, "load">>].at # "none"
    BY <1>3, <1>5
  <2> HIDE DEF l
  <2>3. /\ DOMAIN to = ReaderFields /\ to.at = "joined" /\ to.told = rd[r].told
        /\ to.lease = rd[r].lease /\ to.joined = l /\ to.hit = rd[r].hit
    BY <1>2 DEF ReaderFields
  <2>4. l \in MaybeReader
    BY <2>2 DEF MaybeReader
  <2> HIDE DEF to
  <2> QED
    BY <1>1, <1>2, <2>1, <2>2, <2>3, <2>4, AnswerInv
<1>6. CASE ~other /\ found = {} /\ rd[r].at = "pending"
  <2>1. rd' = [rd EXCEPT ![r].at = "registering"] /\ dec' = dec /\ reg' = Append(reg, r)
    BY <1>6 DEF Pending
  <2>2. /\ DOMAIN rd' = Readers /\ \A x \in Readers \ {r} : rd'[x] = rd[x]
        /\ rd'[r] = [rd[r] EXCEPT !.at = "registering"]
    BY <1>1, <2>1
  <2>3. /\ reg' \in Seq(Readers) /\ ToSet(reg') = ToSet(reg) \cup {r}
        /\ \A x : HeadIs(reg, x) => HeadIs(reg', x)
    BY <1>1, <2>1, AppendKeeps
  <2>4. ReaderOK(r, rd'[r], dec, reg', order)
    BY <1>1, <1>2, <1>6, <2>2, <2>3 DEF ReaderOK, ReaderFields
  <2> QED
    BY <1>1, <2>1, <2>2, <2>3, <2>4, ReaderActs
<1>7. CASE ~other /\ found = {} /\ rd[r].at = "recheck"
  <2>1. rd' = [rd EXCEPT ![r].at = "key"] /\ dec' = dec /\ reg' = reg
    BY <1>7 DEF Pending
  <2>2. /\ DOMAIN rd' = Readers /\ \A x \in Readers \ {r} : rd'[x] = rd[x]
        /\ rd'[r] = [rd[r] EXCEPT !.at = "key"]
    BY <1>1, <2>1
  <2>3. \A l \in Readers : Uri[File[l]] = Uri[File[r]] => dec[<<l, "load">>].at = "none"
    BY <1>3, <1>7
  <2>4. ReaderOK(r, rd'[r], dec, reg, order)
    BY <1>1, <1>2, <1>7, <2>2, <2>3 DEF ReaderOK, ReaderFields
  <2> QED
    BY <1>1, <2>1, <2>2, <2>4, ReaderActs
<1> QED
  BY <1>1, <1>4, <1>5, <1>6, <1>7

-----------------------------------------------------------------------------
(* Admission                                                               *)

(* Evicting the oldest footers leaves some of the footers cached before.   *)
LEMMA SuffixKeeps ==
    ASSUME NEW held, CacheOK(held), NEW k \in 0..Len(held), NEW rest,
           rest = SubSeq(held, k + 1, Len(held))
    PROVE  CacheOK(rest) /\ ToSet(rest) \subseteq ToSet(held)
           /\ \A f : CachedIn(rest, f) \subseteq CachedIn(held, f)
<1>1. held \in Seq(Readers)
  BY DEF CacheOK
<1>2. /\ rest \in Seq(Readers) /\ Len(rest) = Len(held) - k
      /\ \A i \in 1..Len(rest) : rest[i] = held[k + i] /\ k + i \in 1..Len(held)
  BY <1>1
<1>3. ToSet(rest) \subseteq ToSet(held)
  BY <1>1, <1>2 DEF ToSet
<1> QED
  BY <1>2, <1>3 DEF CacheOK, CachedIn

LEMMA EmptyCache == CacheOK(<<>>) /\ ToSet(<<>>) = {}
<1>1. <<>> \in Seq(Readers) /\ DOMAIN <<>> = {}
  OBVIOUS
<1>2. ToSet(<<>>) = {}
  BY <1>1 DEF ToSet
<1> QED
  BY <1>1, <1>2 DEF CacheOK

LEMMA ReservesKeeps ==
    ASSUME Inv, NEW claim, Reserves(claim)
    PROVE  /\ CacheOK(order') /\ ToSet(order') \subseteq ToSet(order)
           /\ \A f : CachedIn(order', f) \subseteq CachedIn(order, f)
           /\ UsedWith(order') + Amount(claim) <= Limit
<1> DEFINE S == Suffices(claim)
<1>1. order \in Seq(Readers) /\ CacheOK(order) /\ S # {}
  BY DEF Inv, CacheOK, Reserves
<1>2. S \subseteq 0..Len(order)
      /\ \A k \in S : UsedWith(SubSeq(order, k + 1, Len(order))) + Amount(claim) <= Limit
  BY DEF Suffices
<1>3. S \in SUBSET Nat
  BY <1>1, <1>2
<1>4. Min(S) \in S
  <2>1. \E n \in S : \A m \in S : n <= m
    BY <1>1, <1>3, LeastNumber
  <2> QED
    BY <2>1 DEF Min
<1>5. order' = SubSeq(order, Min(S) + 1, Len(order))
  BY DEF Reserves
<1> HIDE DEF S
<1> QED
  BY <1>1, <1>2, <1>4, <1>5, SuffixKeeps

LEMMA CannotFitKeeps ==
    ASSUME Inv, NEW claim, CannotFit(claim)
    PROVE  /\ CacheOK(order') /\ ToSet(order') \subseteq ToSet(order)
           /\ \A f : CachedIn(order', f) \subseteq CachedIn(order, f)
<1>1. order' = order \/ order' = <<>>
  BY DEF CannotFit
<1> QED
  BY <1>1, EmptyCache DEF Inv, CachedIn

-----------------------------------------------------------------------------
(* The bytes held                                                          *)

InFlight(decoders) == {l \in Readers : decoders[<<l, "load">>].at # "none"}

BeingDecoded(decoders) == {d \in Decoders : decoders[d].at \in {"decode", "shrunk"}}

Takes(me, f) == IF me.at = "decode" THEN Estimate[f] ELSE Actual[f]

ReferredTo(readers, decoders, held) ==
    (ToSet(held) \cup {readers[r].lease : r \in Readers} \cup {decoders[d].tail : d \in Decoders}
       \cup {decoders[<<l, "load">>].entry : l \in InFlight(decoders)}) \ {None}

OptionsDone(decoders) == {r \in Readers : decoders[<<r, "option">>].at = "done"}

(* BytesHeld, of given readers and decoders.                               *)
HeldBy(readers, decoders, held) ==
    (UNION {Bytes("key", l, KeyBytes) : l \in InFlight(decoders)})
      \cup (UNION {Bytes("decoding", d, Takes(decoders[d], File[d[1]])) : d \in BeingDecoded(decoders)})
      \cup (UNION {Bytes("footer", e, Actual[File[e]]) : e \in ReferredTo(readers, decoders, held)})
      \cup (UNION {Bytes("option", r, Actual[File[r]]) : r \in OptionsDone(decoders)})

LEMMA HeldIs ==
    ASSUME NEW held
    PROVE  BytesHeld(held) = HeldBy(rd, dec, held)
  BY DEF BytesHeld, HeldBy, Loads, InFlight, Decoding, BeingDecoded, Reserved, Takes, FooterBytes,
         Footers, ReferredTo, OptionLeases, OptionsDone

LEMMA UsedAre ==
    /\ Used = Cardinality(HeldBy(rd, dec, order))
    /\ Used' = Cardinality(HeldBy(rd', dec', order'))
<1>1. Used = Cardinality(HeldBy(rd, dec, order))
  BY HeldIs DEF Used, UsedWith
<1>2. Used' = Cardinality(HeldBy(rd', dec', order'))
  BY DEF Used, UsedWith, BytesHeld, HeldBy, Loads, InFlight, Decoding, BeingDecoded, Reserved, Takes,
         FooterBytes, Footers, ReferredTo, OptionLeases, OptionsDone
<1> QED
  BY <1>1, <1>2

LEMMA BytesFinite ==
    ASSUME NEW reason, NEW x, NEW n \in Nat
    PROVE  IsFiniteSet(Bytes(reason, x, n)) /\ Cardinality(Bytes(reason, x, n)) = n
<1> DEFINE f == [i \in 1..n |-> <<reason, x, i>>]
<1>1. IsFiniteSet(1..n) /\ Cardinality(1..n) = n
  BY FS_Interval
<1>2. f \in Bijection(1..n, Bytes(reason, x, n))
  <2>1. \A b \in Bytes(reason, x, n) : b[3] \in 1..n /\ b = <<reason, x, b[3]>>
    BY DEF Bytes
  <2>2. f \in [1..n -> Bytes(reason, x, n)]
    BY DEF Bytes
  <2>3. \A i, j \in 1..n : f[i] = f[j] => i = j
    OBVIOUS
  <2>4. IsInjective(f)
    BY <2>2, <2>3 DEF IsInjective
  <2>5. \A b \in Bytes(reason, x, n) : f[b[3]] = b
    BY <2>1
  <2> HIDE DEF f
  <2> QED
    BY <2>1, <2>2, <2>4, <2>5 DEF Bijection, Injection, Surjection
<1>3. ExistsBijection(1..n, Bytes(reason, x, n))
  BY <1>2 DEF ExistsBijection
<1> QED
  BY <1>1, <1>3, FS_Bijection

(* Finitely many finite sets have finitely many members between them.      *)
LEMMA UnionFinite ==
    ASSUME NEW S, IsFiniteSet(S), NEW f, DOMAIN f = S, \A x \in S : IsFiniteSet(f[x])
    PROVE  IsFiniteSet(UNION {f[x] : x \in S})
<1> DEFINE T == {f[x] : x \in S}
           g == [x \in S |-> f[x]]
<1>1. g \in Surjection(S, T)
  BY DEF Surjection
<1>2. IsFiniteSet(T)
  <2> HIDE DEF g, T
  <2> QED
    BY <1>1, FS_Surjection
<1>3. \A t \in T : IsFiniteSet(t)
  OBVIOUS
<1> HIDE DEF T
<1>4. IsFiniteSet(UNION T)
  BY <1>2, <1>3, FS_UNION
<1> QED
  BY <1>4 DEF T

LEMMA SizesAre ==
    /\ IsFiniteSet(Readers) /\ IsFiniteSet(Decoders) /\ KeyBytes \in Nat /\ Limit \in Nat
    /\ \A r \in Readers : Actual[File[r]] \in Nat /\ Estimate[File[r]] \in Nat
<1>1. IsFiniteSet({"load", "option"})
  <2>1. IsFiniteSet({"load"})
    BY FS_Singleton
  <2>2. IsFiniteSet({"load"} \cup {"option"})
    BY <2>1, FS_AddElement
  <2>3. {"load"} \cup {"option"} = {"load", "option"}
    OBVIOUS
  <2> QED
    BY <2>2, <2>3
<1>2. IsFiniteSet(Decoders)
  BY <1>1, FS_Product, FooterAssumption DEF Decoders
<1> QED
  BY <1>2, FooterAssumption

LEMMA ReferredAre ==
    ASSUME NEW readers, NEW decoders, NEW held, ToSet(held) \subseteq Readers,
           \A r \in Readers : readers[r].lease \in MaybeReader,
           \A d \in Decoders : decoders[d].tail \in MaybeReader /\ decoders[d].entry \in MaybeReader
    PROVE  ReferredTo(readers, decoders, held) \subseteq Readers
<1>1. {readers[r].lease : r \in Readers} \subseteq MaybeReader
  OBVIOUS
<1>2. {decoders[d].tail : d \in Decoders} \subseteq MaybeReader
  OBVIOUS
<1>3. \A l \in InFlight(decoders) : decoders[<<l, "load">>].entry \in MaybeReader
  BY DecodersAre DEF InFlight
<1> QED
  BY <1>1, <1>2, <1>3 DEF ReferredTo, MaybeReader

LEMMA HeldFinite ==
    ASSUME NEW readers, NEW decoders, NEW held, ReferredTo(readers, decoders, held) \subseteq Readers
    PROVE  IsFiniteSet(HeldBy(readers, decoders, held)) /\ Cardinality(HeldBy(readers, decoders, held)) \in Nat
<1> DEFINE A == InFlight(decoders)
           B == BeingDecoded(decoders)
           C == ReferredTo(readers, decoders, held)
           D == OptionsDone(decoders)
           fa == [l \in A |-> Bytes("key", l, KeyBytes)]
           fb == [d \in B |-> Bytes("decoding", d, Takes(decoders[d], File[d[1]]))]
           fc == [e \in C |-> Bytes("footer", e, Actual[File[e]])]
           fd == [r \in D |-> Bytes("option", r, Actual[File[r]])]
<1>1. A \subseteq Readers /\ B \subseteq Decoders /\ C \subseteq Readers /\ D \subseteq Readers
  BY DEF InFlight, BeingDecoded, OptionsDone
<1>2. IsFiniteSet(A) /\ IsFiniteSet(B) /\ IsFiniteSet(C) /\ IsFiniteSet(D)
  BY <1>1, SizesAre, FS_Subset
<1>3. \A d \in B : Takes(decoders[d], File[d[1]]) \in Nat
  BY <1>1, SizesAre, DecodersAre DEF Takes
<1>4. HeldBy(readers, decoders, held) =
        (UNION {fa[x] : x \in A}) \cup (UNION {fb[x] : x \in B}) \cup (UNION {fc[x] : x \in C})
          \cup (UNION {fd[x] : x \in D})
  <2>1. {fa[x] : x \in A} = {Bytes("key", l, KeyBytes) : l \in A}
    OBVIOUS
  <2>2. {fb[x] : x \in B} = {Bytes("decoding", d, Takes(decoders[d], File[d[1]])) : d \in B}
    OBVIOUS
  <2>3. {fc[x] : x \in C} = {Bytes("footer", e, Actual[File[e]]) : e \in C}
    OBVIOUS
  <2>4. {fd[x] : x \in D} = {Bytes("option", r, Actual[File[r]]) : r \in D}
    OBVIOUS
  <2> QED
    BY <2>1, <2>2, <2>3, <2>4 DEF HeldBy
<1>5. /\ \A x \in A : IsFiniteSet(fa[x])
      /\ \A x \in B : IsFiniteSet(fb[x])
      /\ \A x \in C : IsFiniteSet(fc[x])
      /\ \A x \in D : IsFiniteSet(fd[x])
  BY <1>1, <1>3, BytesFinite, SizesAre
<1>6. DOMAIN fa = A /\ DOMAIN fb = B /\ DOMAIN fc = C /\ DOMAIN fd = D
  OBVIOUS
<1> HIDE DEF A, B, C, D, fa, fb, fc, fd
<1>7. /\ IsFiniteSet(UNION {fa[x] : x \in A}) /\ IsFiniteSet(UNION {fb[x] : x \in B})
      /\ IsFiniteSet(UNION {fc[x] : x \in C}) /\ IsFiniteSet(UNION {fd[x] : x \in D})
  BY <1>2, <1>5, <1>6, UnionFinite
<1>8. IsFiniteSet(HeldBy(readers, decoders, held))
  <2> DEFINE a == UNION {fa[x] : x \in A}
             b == UNION {fb[x] : x \in B}
             c == UNION {fc[x] : x \in C}
             d == UNION {fd[x] : x \in D}
  <2> HIDE DEF a, b, c, d
  <2>1. IsFiniteSet(a) /\ IsFiniteSet(b) /\ IsFiniteSet(c) /\ IsFiniteSet(d)
    BY <1>7 DEF a, b, c, d
  <2>2. IsFiniteSet(a \cup b)
    BY <2>1, FS_Union
  <2>3. IsFiniteSet(a \cup b \cup c)
    BY <2>1, <2>2, FS_Union
  <2>4. IsFiniteSet(a \cup b \cup c \cup d)
    BY <2>1, <2>3, FS_Union
  <2> QED
    BY <2>4, <1>4 DEF a, b, c, d
<1> QED
  BY <1>8, FS_CardinalityType

LEMMA HeldWith ==
    ASSUME Inv, NEW held \in Seq(Readers)
    PROVE  IsFiniteSet(BytesHeld(held)) /\ UsedWith(held) \in Nat
<1>1. ToSet(held) \subseteq Readers
  BY DEF ToSet
<1>2. \A r \in Readers : rd[r].lease \in MaybeReader
  BY DEF Inv, ReaderOK
<1>3. \A d \in Decoders : dec[d].tail \in MaybeReader /\ dec[d].entry \in MaybeReader
  BY DEF Inv, DecoderOK
<1>4. ReferredTo(rd, dec, held) \subseteq Readers
  BY <1>1, <1>2, <1>3, ReferredAre
<1> QED
  BY <1>4, HeldFinite, HeldIs DEF UsedWith

(* What exceeds the budget is never reserved.                              *)
LEMMA DoesNotFit ==
    ASSUME Inv, NEW claim, Reserves(claim), Amount(claim) \in Nat
    PROVE  Amount(claim) <= Limit
<1>1. order' \in Seq(Readers) /\ UsedWith(order') + Amount(claim) <= Limit
  BY ReservesKeeps DEF CacheOK
<1>2. UsedWith(order') \in Nat
  BY <1>1, HeldWith
<1> QED
  BY <1>1, <1>2, SizesAre

-----------------------------------------------------------------------------
(* Refusals                                                                *)

LEMMA NothingReleasable ==
    ASSUME Inv, NEW claim, claim[2] # "option", ~Releasable(claim)
    PROVE  /\ Decoding = {} /\ \A r \in Readers : ~rd[r].hit
           /\ claim[2] = "key" => Loads = {}
           /\ claim[2] = "load" => \A l, m \in Loads : l = m
<1> DEFINE hits == {r \in Readers : rd[r].hit}
<1>1. IsFiniteSet(Decoding) /\ IsFiniteSet(Loads) /\ IsFiniteSet(hits)
  BY SizesAre, FS_Subset DEF Decoding, Loads
<1>2. Transient \in Nat /\ Keys \in Nat /\ Hits \in Nat
  BY <1>1, FS_CardinalityType DEF Transient, Keys, Hits
<1>3. OwnHits(claim) = 0
  BY DEF OwnHits
<1>4. Transient = 0 /\ Hits = 0
  BY <1>2, <1>3 DEF Releasable
<1>5. Decoding = {} /\ hits = {}
  BY <1>1, <1>4, FS_EmptySet DEF Transient, Hits
<1>6. claim[2] = "key" => Loads = {}
  <2> SUFFICES ASSUME claim[2] = "key" PROVE Loads = {}
    OBVIOUS
  <2>1. Keys = 0
    BY <1>2 DEF Releasable
  <2> QED
    BY <1>1, <2>1, FS_EmptySet DEF Keys
<1>7. ASSUME claim[2] = "load", NEW l \in Loads, NEW m \in Loads PROVE l = m
  <2>1. Keys <= 1
    BY <1>2, <1>7 DEF Releasable
  <2>2. Keys # 0
    BY <1>1, <1>7, FS_EmptySet DEF Keys
  <2>3. Keys = 1
    BY <1>2, <2>1, <2>2
  <2>4. \E x : Loads = {x}
    BY <1>1, <2>3, FS_Singleton DEF Keys
  <2> QED
    BY <2>4, <1>7
<1> QED
  BY <1>5, <1>6, <1>7

(* Where no load is done and nobody holds what could come back, nor does a *)
(* running query, all that is held are keys and what loads reuse.          *)
LEMMA OnlyLoadsHold ==
    ASSUME Inv, NEW claim, claim[2] # "option", ~Releasable(claim), Exhausted(claim) = "exhausted",
           \A l \in Loads : dec[<<l, "load">>].at # "done"
    PROVE  /\ Decoding = {} /\ OptionLeases = {}
           /\ \A e \in Footers(<<>>) : \E l \in Loads : e = dec[<<l, "load">>].tail
<1>1. Decoding = {} /\ \A r \in Readers : ~rd[r].hit
  BY NothingReleasable
<1>2. \A r \in Readers \ Preflight : /\ rd[r].lease = None /\ dec[<<r, "option">>].at # "done"
                                     /\ dec[<<r, "option">>].tail = None
  BY DEF Exhausted
<1>3. \A r \in Preflight : r \in Readers /\ r \notin Optioned
  BY FooterAssumption
<1>4. \A d \in Decoders : DecoderOK(d, dec[d], reg, order)
  BY DEF Inv
<1>5. ASSUME NEW r \in Preflight
      PROVE  dec[<<r, "option">>].at = "none" /\ dec[<<r, "option">>].tail = None
  <2>1. DecoderOK(<<r, "option">>, dec[<<r, "option">>], reg, order)
    BY <1>3, <1>4, DecodersAre
  <2>2. dec[<<r, "option">>].at = "none"
    BY <2>1, <1>3, DecodersAre DEF DecoderOK
  <2> QED
    BY <2>1, <2>2 DEF DecoderOK
<1>6. OptionLeases = {}
  BY <1>2, <1>5 DEF OptionLeases
<1>7. ASSUME NEW r \in Readers PROVE rd[r].lease = None
  <2>1. CASE r \notin Preflight
    BY <2>1, <1>2
  <2>2. CASE r \in Preflight
    <3>1. ReaderOK(r, rd[r], dec, reg, order)
      BY DEF Inv
    <3>2. ASSUME rd[r].lease # None PROVE FALSE
      <4>1. rd[r].joined \in Readers /\ dec[<<rd[r].joined, "load">>].at = "done"
        BY <3>1, <3>2, <2>2, <1>1 DEF ReaderOK
      <4> QED
        BY <4>1 DEF Loads
    <3> QED
      BY <3>2
  <2> QED
    BY <2>1, <2>2
<1>8. ASSUME NEW e \in Footers(<<>>) PROVE \E l \in Loads : e = dec[<<l, "load">>].tail
  <2>1. e # None /\ (\/ \E r \in Readers : e = rd[r].lease
                     \/ \E d \in Decoders : e = dec[d].tail
                     \/ \E l \in Loads : e = dec[<<l, "load">>].entry)
    BY EmptyCache DEF Footers
  <2>2. CASE \E r \in Readers : e = rd[r].lease
    BY <2>1, <2>2, <1>7
  <2>3. CASE \E d \in Decoders : e = dec[d].tail
    <3>1. PICK d \in Decoders : e = dec[d].tail
      BY <2>3
    <3>2. d = <<d[1], d[2]>> /\ d[1] \in Readers /\ d[2] \in {"load", "option"}
      BY DecodersAre
    <3>3. dec[d].at = "admission"
      BY <3>1, <2>1, <1>4 DEF DecoderOK
    <3>4. d[2] # "option"
      BY <3>1, <3>2, <2>1, <1>2, <1>5
    <3>5. d = <<d[1], "load">> /\ d[1] \in Loads
      BY <3>2, <3>3, <3>4 DEF Loads
    <3> QED
      BY <3>1, <3>5
  <2>4. CASE \E l \in Loads : e = dec[<<l, "load">>].entry
    <3>1. PICK l \in Loads : e = dec[<<l, "load">>].entry
      BY <2>4
    <3>2. l \in Readers /\ DecoderOK(<<l, "load">>, dec[<<l, "load">>], reg, order)
      BY <1>4, DecodersAre DEF Loads
    <3> QED
      BY <3>1, <3>2, <2>1 DEF DecoderOK
  <2> QED
    BY <2>1, <2>2, <2>3, <2>4
<1> QED
  BY <1>1, <1>6, <1>8

LEMMA EmptySuffices ==
    ASSUME Inv, NEW claim, Amount(claim) \in Nat, NEW n \in Nat, UsedWith(<<>>) \in Nat,
           UsedWith(<<>>) <= n, n + Amount(claim) <= Limit
    PROVE  Suffices(claim) # {}
<1>1. order \in Seq(Readers)
  BY DEF Inv, CacheOK
<1>2. Len(order) \in 0..Len(order) /\ SubSeq(order, Len(order) + 1, Len(order)) = <<>>
  BY <1>1
<1>3. UsedWith(<<>>) + Amount(claim) <= Limit
  BY SizesAre
<1> QED
  BY <1>2, <1>3 DEF Suffices

LEMMA KeyNotRefused ==
    ASSUME Inv, NEW r \in Readers, KeyBytes <= Limit, CannotFit(<<r, "key">>)
    PROVE  Exhausted(<<r, "key">>) # "exhausted"
<1> SUFFICES ASSUME Exhausted(<<r, "key">>) = "exhausted" PROVE FALSE
  OBVIOUS
<1> DEFINE claim == <<r, "key">>
<1>1. claim[2] = "key" /\ Amount(claim) = KeyBytes
  BY DEF Amount
<1>2. Suffices(claim) = {} /\ ~Releasable(claim)
  BY <1>1, SizesAre DEF CannotFit
<1> HIDE DEF claim
<1>3. Loads = {}
  BY <1>1, <1>2, NothingReleasable
<1>4. Exhausted(claim) = "exhausted"
  BY DEF claim
<1>5. Decoding = {} /\ OptionLeases = {} /\ Footers(<<>>) = {}
  BY <1>1, <1>2, <1>3, <1>4, OnlyLoadsHold
<1>6. BytesHeld(<<>>) = {}
  BY <1>3, <1>5 DEF BytesHeld, FooterBytes
<1>7. UsedWith(<<>>) = 0
  BY <1>6, FS_EmptySet DEF UsedWith
<1> QED
  BY <1>1, <1>2, <1>7, EmptySuffices, SizesAre

LEMMA LoadNotRefused ==
    ASSUME Inv, NEW l \in Readers, dec[<<l, "load">>].at = "admission", CannotFit(<<l, "load">>)
    PROVE  Exhausted(<<l, "load">>) # "exhausted"
<1> SUFFICES ASSUME Exhausted(<<l, "load">>) = "exhausted" PROVE FALSE
  OBVIOUS
<1> DEFINE claim == <<l, "load">>
           f == File[l]
           tail == dec[<<l, "load">>].tail
<1>1. claim[2] = "load" /\ Amount(claim) = Estimate[f]
  BY DEF Amount
<1>2. DecoderOK(<<l, "load">>, dec[<<l, "load">>], reg, order)
  BY DecodersAre DEF Inv
<1>3. Estimate[f] + KeyBytes <= Limit /\ tail \in MaybeReader
      /\ (tail # None => File[tail] = f /\ Roomy(f) /\ Actual[f] <= Estimate[f])
  BY <1>2, DecodersAre DEF DecoderOK
<1>s. Estimate[f] \in Nat /\ Actual[f] \in Nat /\ KeyBytes \in Nat /\ Limit \in Nat
  BY SizesAre
<1>4. Suffices(claim) = {} /\ ~Releasable(claim)
  <2>1. Amount(claim) > Limit \/ (Suffices(claim) = {} /\ ~Releasable(claim))
    BY DEF CannotFit
  <2>2. ~(Amount(claim) > Limit)
    BY <1>1, <1>3, <1>s
  <2> QED
    BY <2>1, <2>2
<1>n. Exhausted(claim) = "exhausted"
  OBVIOUS
<1>5. l \in Loads
  BY DEF Loads
<1> HIDE DEF claim
<1>6. Loads = {l}
  BY <1>1, <1>4, <1>5, NothingReleasable
<1>7. /\ Decoding = {} /\ OptionLeases = {}
      /\ \A e \in Footers(<<>>) : \E x \in Loads : e = dec[<<x, "load">>].tail
  BY <1>1, <1>4, <1>6, <1>n, OnlyLoadsHold
<1>8. \A e \in Footers(<<>>) : e = tail /\ e # None
  BY <1>6, <1>7 DEF Footers
<1> HIDE DEF tail
<1> DEFINE n == IF tail = None THEN 0 ELSE Actual[f]
           key == Bytes("key", l, KeyBytes)
           span == Bytes("footer", tail, n)
<1>9. BytesHeld(<<>>) \subseteq key \cup span
  <2>1. \A e \in Footers(<<>>) : Bytes("footer", e, Actual[File[e]]) = span
    BY <1>3, <1>8
  <2> HIDE DEF span, key
  <2>2. FooterBytes(Footers(<<>>)) \subseteq span
    BY <2>1 DEF FooterBytes
  <2>3. UNION {Bytes("key", x, KeyBytes) : x \in Loads} \subseteq key
    BY <1>6 DEF key
  <2> QED
    BY <2>2, <2>3, <1>7 DEF BytesHeld
<1>10. n \in Nat /\ n + KeyBytes + Estimate[f] <= Limit
  BY <1>3, <1>s DEF Roomy
<1> HIDE DEF n
<1>11. /\ IsFiniteSet(key) /\ Cardinality(key) = KeyBytes
       /\ IsFiniteSet(span) /\ Cardinality(span) = n
  BY <1>10, <1>s, BytesFinite
<1> HIDE DEF key, span
<1>12. /\ IsFiniteSet(key \cup span) /\ Cardinality(key \cap span) \in Nat
       /\ Cardinality(key \cup span) = KeyBytes + n - Cardinality(key \cap span)
  <2>1. IsFiniteSet(key \cap span)
    BY <1>11, FS_Intersection
  <2> QED
    BY <2>1, <1>11, FS_Union, FS_CardinalityType
<1>13. UsedWith(<<>>) \in Nat /\ UsedWith(<<>>) <= Cardinality(key \cup span)
  BY <1>9, <1>12, FS_Subset, FS_CardinalityType DEF UsedWith
<1>14. UsedWith(<<>>) <= KeyBytes + n /\ KeyBytes + n \in Nat
  BY <1>10, <1>12, <1>13, <1>s
<1>15. (KeyBytes + n) + Amount(claim) <= Limit /\ Amount(claim) \in Nat
  BY <1>1, <1>10, <1>s
<1> QED
  BY <1>4, <1>13, <1>14, <1>15, EmptySuffices

-----------------------------------------------------------------------------
(* Loads begin and end                                                     *)

LEMMA BeginLoadInv ==
    ASSUME Inv, NEW r \in Readers, BeginLoad(r)
    PROVE  Inv'
<1>1. /\ rd[r].at = "key" /\ DOMAIN rd = Readers /\ DOMAIN dec = Decoders /\ reg \in Seq(Readers)
      /\ ReaderOK(r, rd[r], dec, reg, order) /\ <<r, "load">> \in Decoders
      /\ DecoderOK(<<r, "load">>, dec[<<r, "load">>], reg, order)
  BY DecodersAre DEF BeginLoad, Inv
<1>2. /\ rd[r].lease = None /\ rd[r].lease \in MaybeReader /\ rd[r].joined \in MaybeReader
      /\ DOMAIN rd[r] = ReaderFields /\ rd[r].told # "exhausted"
      /\ HeadIs(reg, r) /\ dec[<<r, "load">>].at = "none"
      /\ \A l \in Readers : Uri[File[l]] = Uri[File[r]] => dec[<<l, "load">>].at = "none"
  BY <1>1 DEF ReaderOK
<1>3. CASE Reserves(<<r, "key">>) /\ ~CannotFit(<<r, "key">>)
  <2>1. /\ rd' = [rd EXCEPT ![r].at = "joined", ![r].joined = r]
        /\ dec' = [dec EXCEPT ![<<r, "load">>].at = "tail"] /\ reg' = reg
    BY <1>3 DEF BeginLoad
  <2>2. /\ CacheOK(order') /\ \A f : CachedIn(order', f) \subseteq CachedIn(order, f)
    BY <1>3, ReservesKeeps
  <2>3. /\ DOMAIN rd' = Readers /\ DOMAIN dec' = Decoders
        /\ \A x \in Readers \ {r} : rd'[x] = rd[x]
        /\ \A d \in Decoders \ {<<r, "load">>} : dec'[d] = dec[d]
        /\ dec'[<<r, "load">>] = [dec[<<r, "load">>] EXCEPT !.at = "tail"]
    BY <1>1, <2>1
  <2>4. /\ DOMAIN rd'[r] = ReaderFields /\ rd'[r].at = "joined" /\ rd'[r].joined = r
        /\ rd'[r].lease = rd[r].lease /\ rd'[r].told = rd[r].told
    BY <1>1, <1>2, <2>1 DEF ReaderFields
  <2>5. dec'[<<r, "load">>].at = "tail" /\ \A l \in Readers \ {r} : dec'[<<l, "load">>] = dec[<<l, "load">>]
    <3>1. DOMAIN dec[<<r, "load">>] = DecoderFields
      BY <1>1 DEF DecoderOK
    <3>2. dec'[<<r, "load">>].at = "tail"
      BY <3>1, <2>3 DEF DecoderFields
    <3>3. \A l \in Readers \ {r} : <<l, "load">> \in Decoders \ {<<r, "load">>}
      BY DecodersAre
    <3> QED
      BY <3>2, <3>3, <2>3
  <2>6. ASSUME NEW x \in Readers PROVE ReaderOK(x, rd'[x], dec', reg', order')
    <3>1. CASE x = r
      BY <3>1, <2>4, <2>5, <1>2 DEF ReaderOK, MaybeReader
    <3>2. CASE x # r
      <4>1. ReaderOK(x, rd[x], dec, reg, order) /\ rd'[x] = rd[x]
        BY <3>2, <2>3 DEF Inv
      <4>2. rd[x].at # "key"
        BY <4>1, <3>2, <1>2 DEF ReaderOK, HeadIs
      <4>3. rd[x].joined \in Readers =>
               /\ dec'[<<rd[x].joined, "load">>].at # "none"
               /\ dec[<<rd[x].joined, "load">>].at = "done" => dec'[<<rd[x].joined, "load">>].at = "done"
        BY <4>1, <2>5, <1>2 DEF ReaderOK
      <4>4. dec'[<<x, "load">>] = dec[<<x, "load">>] /\ CacheFor(File[x], order, order')
        BY <3>2, <2>2, <2>5 DEF CacheFor
      <4>5. ReaderOK(x, rd[x], dec', reg, order')
        BY <4>1, <4>2, <4>3, <4>4, ReaderStays
      <4> QED
        BY <4>1, <4>5, <2>1
    <3> QED
      BY <3>1, <3>2
  <2>7. ASSUME NEW d \in Decoders PROVE DecoderOK(d, dec'[d], reg', order')
    <3>1. CASE d = <<r, "load">>
      <4>1. /\ DOMAIN dec[d] = DecoderFields /\ dec[d].tail = None /\ dec[d].entry = None
            /\ dec[d].error # "exhausted"
        BY <3>1, <1>1, <1>2 DEF DecoderOK
      <4>2. /\ DOMAIN dec'[d] = DecoderFields /\ dec'[d].at = "tail" /\ dec'[d].tail = None
            /\ dec'[d].entry = None /\ dec'[d].error # "exhausted"
        BY <3>1, <4>1, <2>3 DEF DecoderFields
      <4>3. CachedIn(order', File[r]) # {} => Roomy(File[r])
        BY <1>1, <2>2 DEF ReaderOK
      <4>4. d[1] = r /\ d[2] = "load"
        BY <3>1
      <4> QED
        BY <4>2, <4>3, <4>4, <1>2, <2>1 DEF DecoderOK, MaybeReader
    <3>2. CASE d # <<r, "load">>
      <4>1. DecoderOK(d, dec[d], reg, order) /\ dec'[d] = dec[d] /\ reg' = reg
            /\ CacheFor(File[d[1]], order, order')
        BY <3>2, <2>1, <2>2, <2>3 DEF Inv, CacheFor
      <4> QED
        BY <4>1, DecoderStays
    <3> QED
      BY <3>1, <3>2
  <2>8. LoadsApart(dec')
    <3>1. LoadsApart(dec)
      BY DEF Inv
    <3> QED
      BY <3>1, <2>5, <1>2 DEF LoadsApart
  <2> QED
    BY <1>1, <2>1, <2>2, <2>3, <2>6, <2>7, <2>8 DEF Inv
<1>4. CASE CannotFit(<<r, "key">>) /\ ~Reserves(<<r, "key">>)
  <2> DEFINE error == IF KeyBytes > Limit THEN "too large" ELSE Exhausted(<<r, "key">>)
             to == Told(r, error)
  <2>1. Answer(r, to)
    BY <1>4 DEF BeginLoad
  <2>2. error # "exhausted"
    BY <1>4, KeyNotRefused, SizesAre
  <2> HIDE DEF error
  <2>3. /\ DOMAIN to = ReaderFields /\ to.at = "rest" /\ to.told = error
        /\ to.lease = rd[r].lease /\ to.joined = rd[r].joined /\ to.hit = rd[r].hit
    BY ToldIs
  <2> HIDE DEF to
  <2>4. CacheOK(order') /\ \A f : CachedIn(order', f) \subseteq CachedIn(order, f)
    BY <1>4, CannotFitKeeps
  <2> QED
    BY <1>1, <1>2, <2>1, <2>2, <2>3, <2>4, AnswerInv
<1>5. ~(CannotFit(<<r, "key">>) /\ Reserves(<<r, "key">>))
  <2> SUFFICES ASSUME CannotFit(<<r, "key">>), Reserves(<<r, "key">>) PROVE FALSE
    OBVIOUS
  <2>1. KeyBytes > Limit /\ Amount(<<r, "key">>) = KeyBytes
    BY DEF CannotFit, Reserves, Amount
  <2>2. KeyBytes <= Limit
    BY <2>1, DoesNotFit, SizesAre
  <2> QED
    BY <2>1, <2>2, SizesAre
<1> QED
  BY <1>3, <1>4, <1>5 DEF BeginLoad

LEMMA IdleIs ==
    /\ Idle.at = "none" /\ Idle.tail = None /\ Idle.entry = None /\ Idle.error = None
    /\ DOMAIN Idle = DecoderFields
    /\ \A d, queue, held : DecoderOK(d, Idle, queue, held)
<1>1. /\ Idle.at = "none" /\ Idle.tail = None /\ Idle.entry = None /\ Idle.error = None
      /\ DOMAIN Idle = DecoderFields
  BY DEF Idle, DecoderFields
<1> QED
  BY <1>1 DEF DecoderOK, MaybeReader, None

(* Reader r becomes `to', which has joined no load, and these decoders are *)
(* dropped with the turns they had, and r with its own.                    *)
LEMMA LeaveInv ==
    ASSUME Inv, NEW r \in Readers, NEW to, NEW dropped, NEW turns,
           rd' = [rd EXCEPT ![r] = to], order' = order, DOMAIN dec' = Decoders,
           \A d \in Decoders : dec'[d] = IF d \in dropped THEN Idle ELSE dec[d],
           \A y \in Readers \ {r} : <<rd[y].joined, "load">> \notin dropped,
           reg' \in Seq(Readers),
           \A x \in Readers \ turns : /\ x \in ToSet(reg) => x \in ToSet(reg')
                                      /\ HeadIs(reg, x) => HeadIs(reg', x),
           \A x \in turns : \/ x = r /\ dec[<<x, "load">>].at = "none"
                            \/ <<x, "load">> \in dropped /\ dec[<<x, "load">>].at # "none",
           DOMAIN to = ReaderFields, to.at \in {"rest", "gone"}, to.joined = None,
           to.lease \in MaybeReader, to.told # "exhausted",
           r \in Preflight /\ to.lease # None => to.hit
    PROVE  Inv'
<1>1. DOMAIN rd = Readers /\ CacheOK(order)
      /\ (\A x \in Readers : ReaderOK(x, rd[x], dec, reg, order))
      /\ (\A d \in Decoders : DecoderOK(d, dec[d], reg, order)) /\ LoadsApart(dec)
  BY DEF Inv
<1>2. DOMAIN rd' = Readers /\ rd'[r] = to /\ \A x \in Readers \ {r} : rd'[x] = rd[x]
  BY <1>1
<1>3. \A l \in Readers : dec'[<<l, "load">>] = IF <<l, "load">> \in dropped THEN Idle ELSE dec[<<l, "load">>]
  BY DecodersAre
<1>4. \A l \in Readers : /\ dec'[<<l, "load">>].at \in {"none", dec[<<l, "load">>].at}
                         /\ <<l, "load">> \notin dropped => dec'[<<l, "load">>] = dec[<<l, "load">>]
  BY <1>3, IdleIs
<1>5. ASSUME NEW x \in Readers PROVE ReaderOK(x, rd'[x], dec', reg', order')
  <2>1. CASE x = r
    <3>1. None \notin Readers
      BY FooterAssumption
    <3> QED
      BY <2>1, <3>1, <1>2 DEF ReaderOK, MaybeReader
  <2>2. CASE x # r
    <3>1. ReaderOK(x, rd[x], dec, reg, order) /\ rd'[x] = rd[x]
      BY <2>2, <1>1, <1>2
    <3>2. rd[x].at \in {"registering", "recheck", "key"} => x \notin turns
      BY <3>1, <2>2 DEF ReaderOK
    <3>3. ASSUME rd[x].joined \in Readers
          PROVE  dec'[<<rd[x].joined, "load">>] = dec[<<rd[x].joined, "load">>]
      <4>1. <<rd[x].joined, "load">> \notin dropped
        BY <2>2
      <4> QED
        BY <4>1, <3>3, <1>4
    <3>4. /\ \A l \in Readers : dec[<<l, "load">>].at = "none" => dec'[<<l, "load">>].at = "none"
          /\ x \notin turns => /\ x \in ToSet(reg) => x \in ToSet(reg')
                               /\ HeadIs(reg, x) => HeadIs(reg', x)
      BY <1>4
    <3>5. ReaderOK(x, rd[x], dec', reg', order')
      BY <3>1, <3>2, <3>3, <3>4 DEF ReaderOK
    <3> QED
      BY <3>1, <3>5
  <2> QED
    BY <2>1, <2>2
<1>6. ASSUME NEW d \in Decoders PROVE DecoderOK(d, dec'[d], reg', order')
  <2>1. CASE d \in dropped
    BY <2>1, IdleIs
  <2>2. CASE d \notin dropped
    <3>1. dec'[d] = dec[d] /\ DecoderOK(d, dec[d], reg, order) /\ d[1] \in Readers
      BY <2>2, <1>1, DecodersAre
    <3>2. d[2] = "load" /\ dec[d].at # "none" => d[1] \notin turns
      BY <2>2, DecodersAre
    <3>3. CacheFor(File[d[1]], order, order')
      BY DEF CacheFor
    <3>4. DecoderOK(d, dec[d], reg', order')
      BY <3>1, <3>2, <3>3, DecoderStays
    <3> QED
      BY <3>1, <3>4
  <2> QED
    BY <2>1, <2>2
<1>7. LoadsApart(dec')
  <2>1. \A l \in Readers : dec'[<<l, "load">>].at # "none" => dec'[<<l, "load">>].at = dec[<<l, "load">>].at
    BY <1>4
  <2> QED
    BY <1>1, <2>1 DEF LoadsApart, Ended
<1> QED
  BY <1>1, <1>2, <1>5, <1>6, <1>7 DEF Inv

LEMMA LeaveLoadInv ==
    ASSUME Inv, NEW r \in Readers, rd[r].at = "joined", NEW to, LeaveLoad(r, to),
           DOMAIN to = ReaderFields, to.at \in {"rest", "gone"}, to.joined = None,
           to.lease \in MaybeReader, to.told # "exhausted",
           r \in Preflight /\ to.lease # None => to.hit
    PROVE  Inv'
<1> DEFINE l == rd[r].joined
           ends == l # None /\ Others(r, l) = {}
           dropped == IF ends THEN {<<l, "load">>} ELSE {}
           turns == IF ends THEN {l} ELSE {}
<1>1. /\ rd' = [rd EXCEPT ![r] = to] /\ order' = order
      /\ dec' = (IF ends THEN [dec EXCEPT ![<<l, "load">>] = Idle] ELSE dec)
      /\ reg' = (IF ends THEN Without(reg, {l}) ELSE reg)
  BY DEF LeaveLoad
<1>2. l \in Readers /\ DOMAIN dec = Decoders /\ reg \in Seq(Readers) /\ <<l, "load">> \in Decoders
      /\ dec[<<l, "load">>].at # "none"
  BY DecodersAre DEF Inv, ReaderOK
<1> HIDE DEF l
<1>3. DOMAIN dec' = Decoders /\ \A d \in Decoders : dec'[d] = IF d \in dropped THEN Idle ELSE dec[d]
  BY <1>1, <1>2
<1>4. \A y \in Readers \ {r} : <<rd[y].joined, "load">> \notin dropped
  BY DEF Others
<1>5. /\ reg' \in Seq(Readers)
      /\ \A x \in Readers \ turns : /\ x \in ToSet(reg) => x \in ToSet(reg')
                                    /\ HeadIs(reg, x) => HeadIs(reg', x)
  <2>1. CASE ends
    BY <2>1, <1>1, <1>2, WithoutKeeps
  <2>2. CASE ~ends
    BY <2>2, <1>1, <1>2
  <2> QED
    BY <2>1, <2>2
<1>6. \A x \in turns : <<x, "load">> \in dropped /\ dec[<<x, "load">>].at # "none"
  BY <1>2
<1> HIDE DEF dropped, turns, ends
<1> QED
  BY <1>1, <1>3, <1>4, <1>5, <1>6, LeaveInv

LEMMA TakeResultInv ==
    ASSUME Inv, NEW r \in Readers, TakeResult(r)
    PROVE  Inv'
<1> DEFINE l == dec[<<rd[r].joined, "load">>]
<1>1. /\ rd[r].at = "joined" /\ ReaderOK(r, rd[r], dec, reg, order) /\ DOMAIN rd = Readers
      /\ reg \in Seq(Readers) /\ CacheOK(order)
  BY DEF TakeResult, Inv
<1>2. rd[r].joined \in Readers /\ rd[r].lease = None /\ DOMAIN rd[r] = ReaderFields /\ l.at # "none"
      /\ rd[r].joined \in MaybeReader
  BY <1>1 DEF ReaderOK
<1>3. l.entry \in MaybeReader /\ l.error # "exhausted" /\ <<rd[r].joined, "load">> \in Decoders
  BY <1>2, DecodersAre DEF Inv, DecoderOK
<1>4. CASE l.at = "done" /\ r \in Preflight
  <2>1. /\ rd' = [rd EXCEPT ![r].at = "rest", ![r].told = "ok", ![r].lease = l.entry]
        /\ dec' = dec /\ reg' = reg /\ order' = order
    BY <1>4 DEF TakeResult
  <2> HIDE DEF l
  <2>2. /\ DOMAIN rd' = Readers /\ \A x \in Readers \ {r} : rd'[x] = rd[x]
        /\ DOMAIN rd'[r] = ReaderFields /\ rd'[r].at = "rest" /\ rd'[r].told = "ok"
        /\ rd'[r].lease = l.entry /\ rd'[r].joined = rd[r].joined
    BY <1>1, <1>2, <2>1 DEF ReaderFields
  <2>3. ReaderOK(r, rd'[r], dec, reg, order)
    BY <2>2, <1>2, <1>3, <1>4 DEF ReaderOK, l
  <2> QED
    BY <1>1, <2>1, <2>2, <2>3, ReaderActs
<1>5. CASE l.at = "done" /\ r \notin Preflight
  <2> DEFINE to == [rd[r] EXCEPT !.at = "rest", !.told = "ok", !.lease = l.entry, !.joined = None]
  <2>1. LeaveLoad(r, to)
    BY <1>5 DEF TakeResult
  <2>2. /\ DOMAIN to = ReaderFields /\ to.at = "rest" /\ to.joined = None /\ to.lease = l.entry
        /\ to.told = "ok"
    BY <1>2 DEF ReaderFields
  <2> HIDE DEF to, l
  <2> QED
    BY <1>1, <1>3, <1>5, <2>1, <2>2, LeaveLoadInv
<1>6. CASE l.at = "failed"
  <2> DEFINE told == Told(r, l.error)
             to == [told EXCEPT !.joined = None]
  <2>1. LeaveLoad(r, to)
    BY <1>6 DEF TakeResult
  <2>2. /\ DOMAIN told = ReaderFields /\ told.at = "rest" /\ told.told = l.error
        /\ told.lease = rd[r].lease
    BY ToldIs
  <2> HIDE DEF told, l
  <2>3. /\ DOMAIN to = ReaderFields /\ to.at = "rest" /\ to.joined = None /\ to.lease = rd[r].lease
        /\ to.told = l.error
    BY <2>2 DEF ReaderFields
  <2>4. to.lease \in MaybeReader
    BY <2>3, <1>2 DEF MaybeReader
  <2> HIDE DEF to
  <2> QED
    BY <1>1, <1>2, <1>3, <2>1, <2>3, <2>4, LeaveLoadInv
<1> QED
  BY <1>4, <1>5, <1>6 DEF TakeResult

LEMMA DropReaderInv ==
    ASSUME Inv, NEW r \in Readers, DropReader(r)
    PROVE  Inv'
<1> DEFINE gone == [rd[r] EXCEPT !.at = "gone", !.lease = None, !.hit = FALSE, !.joined = None]
           l == rd[r].joined
           ends == l # None /\ Others(r, l) = {}
           dropped == {<<r, "option">>} \cup (IF ends THEN {<<l, "load">>} ELSE {})
           turns == (IF ends THEN {l} ELSE {}) \cup (IF HasTurn(r) THEN {r} ELSE {})
<1>1. /\ rd' = [rd EXCEPT ![r] = gone] /\ order' = order /\ reg' = Without(reg, turns)
      /\ dec' = [d \in Decoders |-> IF d \in dropped THEN Idle ELSE dec[d]]
  BY DEF DropReader
<1>2. ReaderOK(r, rd[r], dec, reg, order) /\ reg \in Seq(Readers)
  BY DEF Inv
<1>3. /\ DOMAIN gone = ReaderFields /\ gone.at = "gone" /\ gone.joined = None /\ gone.lease = None
      /\ gone.told # "exhausted"
  BY <1>2 DEF ReaderOK, ReaderFields
<1>4. gone.lease \in MaybeReader
  BY <1>3 DEF MaybeReader
<1>5. ends => l \in Readers /\ dec[<<l, "load">>].at # "none"
  BY <1>2 DEF ReaderOK, MaybeReader
<1>6. HasTurn(r) => dec[<<r, "load">>].at = "none"
  BY <1>2 DEF ReaderOK, HasTurn
<1> HIDE DEF gone, l
<1>7. \A y \in Readers \ {r} : <<rd[y].joined, "load">> \notin dropped
  BY DEF Others
<1>8. \A x \in turns : \/ x = r /\ dec[<<x, "load">>].at = "none"
                       \/ <<x, "load">> \in dropped /\ dec[<<x, "load">>].at # "none"
  BY <1>5, <1>6
<1> HIDE DEF turns, dropped
<1>9. /\ reg' \in Seq(Readers)
      /\ \A x \in Readers \ turns : /\ x \in ToSet(reg) => x \in ToSet(reg')
                                    /\ HeadIs(reg, x) => HeadIs(reg', x)
  BY <1>1, <1>2, WithoutKeeps
<1>10. DOMAIN dec' = Decoders /\ \A d \in Decoders : dec'[d] = IF d \in dropped THEN Idle ELSE dec[d]
  BY <1>1
<1> QED
  BY <1>1, <1>3, <1>4, <1>7, <1>8, <1>9, <1>10, LeaveInv

-----------------------------------------------------------------------------
(* Decoding                                                                *)

(* Decoder d becomes `me', its reader rests if it is told so, and the      *)
(* queue stays.                                                            *)
LEMMA DecoderMoves ==
    ASSUME Inv, NEW d \in Decoders, NEW me, dec' = [dec EXCEPT ![d] = me],
           rd' = rd \/ \E error : error # "exhausted" /\ rd' = [rd EXCEPT ![d[1]] = Told(d[1], error)],
           dec[d].at \notin {"none", "done", "failed"}, me.at # "none",
           reg' = reg, CacheOK(order'),
           \A x \in Readers \ {d[1]} : HeadIs(reg, x) => CacheFor(File[x], order, order'),
           d[2] = "option" => CacheFor(File[d[1]], order, order'),
           DecoderOK(d, me, reg, order')
    PROVE  Inv'
<1> DEFINE r == d[1]
<1>1. /\ DOMAIN rd = Readers /\ DOMAIN dec = Decoders /\ reg \in Seq(Readers)
      /\ ReaderOK(r, rd[r], dec, reg, order) /\ r \in Readers /\ d[2] \in {"load", "option"}
      /\ d = <<r, d[2]>>
  BY DecodersAre DEF Inv
<1>2. DOMAIN dec' = Decoders /\ dec'[d] = me /\ \A e \in Decoders \ {d} : dec'[e] = dec[e]
  BY <1>1
<1>3. DOMAIN rd' = Readers /\ \A x \in Readers \ {r} : rd'[x] = rd[x]
  BY <1>1
<1>4. LoadsGoOn(dec, dec')
  BY <1>1, <1>2, DecodersAre DEF LoadsGoOn
<1>5. ReaderOK(r, rd[r], dec', reg, order')
  <2>1. rd[r].at \in {"recheck", "key"} => CacheFor(File[r], order, order')
    BY <1>1 DEF ReaderOK
  <2> QED
    BY <1>1, <1>4, <2>1 DEF ReaderOK, CacheFor, LoadsGoOn
<1>6. ReaderOK(r, rd'[r], dec', reg, order')
  <2>1. CASE rd' = rd
    BY <2>1, <1>5
  <2>2. CASE rd' # rd
    <3>1. PICK error : error # "exhausted" /\ rd' = [rd EXCEPT ![r] = Told(r, error)]
      BY <2>2
    <3> DEFINE to == Told(r, error)
    <3>2. rd'[r] = to
      BY <1>1, <3>1
    <3>3. /\ DOMAIN to = ReaderFields /\ to.at = "rest" /\ to.told = error
          /\ to.lease = rd[r].lease /\ to.joined = rd[r].joined /\ to.hit = rd[r].hit
      BY <1>1, ToldIs
    <3> HIDE DEF to
    <3>4. ReaderOK(r, to, dec', reg, order')
      BY <3>1, <3>3, <1>5 DEF ReaderOK
    <3> QED
      BY <3>2, <3>4
  <2> QED
    BY <2>1, <2>2
<1> HIDE DEF r
<1>7. DecoderOK(d, dec'[d], reg', order')
  BY <1>2
<1> QED
  BY <1>1, <1>2, <1>3, <1>4, <1>6, <1>7, DecoderActs DEF r

LEMMA FailedInv ==
    ASSUME Inv, NEW d \in Decoders, dec[d].at \notin {"none", "done", "failed"},
           NEW error, error # "exhausted", Failed(d, error), reg' = reg, CacheOK(order'),
           \A f : CachedIn(order', f) \subseteq CachedIn(order, f)
    PROVE  Inv'
<1> DEFINE me == [Idle EXCEPT !.at = "failed", !.error = error]
<1>1. /\ dec' = [dec EXCEPT ![d] = me]
      /\ rd' = rd \/ rd' = [rd EXCEPT ![d[1]] = Told(d[1], error)]
  BY DEF Failed
<1>2. /\ DOMAIN me = DecoderFields /\ me.at = "failed" /\ me.error = error /\ me.tail = None
      /\ me.entry = None
  BY DEF Idle, DecoderFields
<1> HIDE DEF me
<1>3. DecoderOK(d, me, reg, order')
  <2>1. DecoderOK(d, dec[d], reg, order)
    BY DEF Inv
  <2> QED
    BY <2>1, <1>2 DEF DecoderOK, MaybeReader
<1>4. \A f : CacheFor(f, order, order')
  BY DEF CacheFor
<1> QED
  BY <1>1, <1>2, <1>3, <1>4, DecoderMoves

LEMMA CallOptionedInv ==
    ASSUME Inv, NEW r \in Readers, CallOptioned(r)
    PROVE  Inv'
<1> DEFINE d == <<r, "option">>
<1>1. /\ r \in Optioned /\ rd[r].at \in {"new", "rest"} /\ dec[d].at = "none"
      /\ rd' = [rd EXCEPT ![r].at = "option", ![r].told = None]
      /\ dec' = [dec EXCEPT ![d].at = "tail"] /\ reg' = reg /\ order' = order
  BY DEF CallOptioned
<1>2. /\ DOMAIN rd = Readers /\ DOMAIN dec = Decoders /\ reg \in Seq(Readers) /\ d \in Decoders
      /\ ReaderOK(r, rd[r], dec, reg, order) /\ DecoderOK(d, dec[d], reg, order) /\ CacheOK(order)
      /\ d[1] = r /\ d[2] = "option"
  BY DecodersAre DEF Inv
<1>d. \A l \in Readers : <<l, "load">> \in Decoders \ {d}
  BY DecodersAre
<1> HIDE DEF d
<1>3. /\ DOMAIN rd' = Readers /\ \A x \in Readers \ {r} : rd'[x] = rd[x]
      /\ DOMAIN dec' = Decoders /\ \A e \in Decoders \ {d} : dec'[e] = dec[e]
      /\ dec'[d] = [dec[d] EXCEPT !.at = "tail"]
  BY <1>1, <1>2
<1>4. DOMAIN rd[r] = ReaderFields /\ DOMAIN dec[d] = DecoderFields
  BY <1>2 DEF ReaderOK, DecoderOK
<1>5. /\ DOMAIN rd'[r] = ReaderFields /\ rd'[r].at = "option" /\ rd'[r].told = None
      /\ rd'[r].lease = rd[r].lease /\ rd'[r].joined = rd[r].joined /\ rd'[r].hit = rd[r].hit
  BY <1>1, <1>2, <1>4 DEF ReaderFields
<1>6. \A l \in Readers : dec'[<<l, "load">>] = dec[<<l, "load">>]
  BY <1>3, <1>d
<1>7. ReaderOK(r, rd'[r], dec', reg, order)
  BY <1>1, <1>2, <1>5, <1>6 DEF ReaderOK, None
<1>8. /\ DOMAIN dec'[d] = DecoderFields /\ dec'[d].at = "tail" /\ dec'[d].tail = dec[d].tail
      /\ dec'[d].entry = dec[d].entry /\ dec'[d].error = dec[d].error
  BY <1>3, <1>4 DEF DecoderFields
<1>9. DecoderOK(d, dec'[d], reg, order)
  BY <1>1, <1>2, <1>8 DEF DecoderOK
<1>10. LoadsGoOn(dec, dec') /\ \A f : CacheFor(f, order, order')
  BY <1>1, <1>6 DEF LoadsGoOn, CacheFor
<1> QED
  BY <1>1, <1>2, <1>3, <1>7, <1>9, <1>10, DecoderActs

LEMMA ReadTailInv ==
    ASSUME Inv, NEW d \in Decoders, ReadTail(d)
    PROVE  Inv'
<1> DEFINE f == File[d[1]]
           kept == IF Cached(f) = {} THEN None ELSE CHOOSE e \in Cached(f) : TRUE
           me == [dec[d] EXCEPT !.at = "admission", !.tail = kept]
<1>1. /\ dec[d].at = "tail" /\ reg' = reg /\ order' = order /\ DOMAIN dec = Decoders
      /\ DecoderOK(d, dec[d], reg, order) /\ CacheOK(order) /\ d[1] \in Readers
      /\ d[2] \in {"load", "option"}
      /\ \A g : CachedIn(order', g) \subseteq CachedIn(order, g) /\ CacheFor(g, order, order')
  BY DecodersAre DEF ReadTail, Inv, CacheFor
<1>2. CASE \E error : error # "exhausted" /\ Failed(d, error)
  BY <1>1, <1>2, FailedInv
<1>3. CASE /\ Estimate[f] + OwnKey(d) <= Limit /\ rd' = rd
           /\ dec' = [dec EXCEPT ![d].at = "admission", ![d].tail = kept]
  <2>1. Cached(f) = CachedIn(order, f) /\ Cached(f) \subseteq Readers
    BY CachedAre
  <2>2. /\ kept \in MaybeReader
        /\ kept # None => kept \in ToSet(order) /\ File[kept] = f /\ CachedIn(order, f) # {}
    BY <2>1 DEF MaybeReader, Cached
  <2>3. dec' = [dec EXCEPT ![d] = me]
    BY <1>1, <1>3
  <2> HIDE DEF kept
  <2>4. DOMAIN dec[d] = DecoderFields
    BY <1>1 DEF DecoderOK
  <2>5. /\ DOMAIN me = DecoderFields /\ me.at = "admission" /\ me.tail = kept
        /\ me.entry = dec[d].entry /\ me.error = dec[d].error
    BY <2>4 DEF DecoderFields
  <2> HIDE DEF me
  <2>6. d[2] = "load" => Estimate[f] + KeyBytes <= Limit
    BY <1>3 DEF OwnKey
  <2>7. kept # None => Actual[f] <= Estimate[f]
    BY <2>2, <1>1 DEF CacheOK
  <2> HIDE DEF f
  <2>8. DecoderOK(d, me, reg, order)
    BY <1>1, <2>2, <2>5, <2>6, <2>7 DEF DecoderOK, f
  <2> QED
    BY <1>1, <1>3, <2>3, <2>5, <2>8, DecoderMoves
<1> QED
  BY <1>2, <1>3 DEF ReadTail

(* The turn is passed on only where there is room for another load.        *)
LEMMA PassedOnIfRoomy ==
    ASSUME Inv, NEW l \in Readers, dec[<<l, "load">>].at # "none", NEW held \in Seq(Readers),
           UsedWith(held) + 2 * Estimate[File[l]] + KeyBytes <= Limit
    PROVE  Roomy(File[l])
<1> DEFINE key == Bytes("key", l, KeyBytes)
<1>1. l \in Loads
  BY DEF Loads
<1>2. key \subseteq BytesHeld(held)
  BY <1>1 DEF BytesHeld
<1>3. IsFiniteSet(BytesHeld(held)) /\ UsedWith(held) \in Nat
  BY HeldWith
<1>4. Cardinality(key) = KeyBytes
  BY BytesFinite, SizesAre
<1> HIDE DEF key
<1>5. KeyBytes <= UsedWith(held)
  BY <1>2, <1>3, <1>4, FS_Subset DEF UsedWith
<1>6. Estimate[File[l]] \in Nat /\ KeyBytes \in Nat /\ Limit \in Nat
  BY SizesAre
<1> QED
  BY <1>3, <1>5, <1>6 DEF Roomy

LEMMA AdmitFooterInv ==
    ASSUME Inv, NEW d \in Decoders, AdmitFooter(d)
    PROVE  Inv'
<1> DEFINE r == d[1]
           f == File[r]
<1>1. /\ dec[d].at = "admission" /\ DOMAIN dec = Decoders /\ DOMAIN rd = Readers
      /\ DecoderOK(d, dec[d], reg, order) /\ r \in Readers /\ reg \in Seq(Readers)
      /\ d[2] \in {"load", "option"} /\ d = <<r, d[2]>> /\ ReaderOK(r, rd[r], dec, reg, order)
  BY DecodersAre DEF AdmitFooter, Inv
<1>2. CASE /\ Reserves(d) /\ rd' = rd
           /\ dec' = [dec EXCEPT ![d].at = "decode", ![d].tail = None]
           /\ reg' = IF UsedWith(order') + 2 * Estimate[f] + KeyBytes <= Limit /\ d[2] = "load"
                     THEN Without(reg, {r}) ELSE reg
  <2>1. CacheOK(order') /\ \A g : CachedIn(order', g) \subseteq CachedIn(order, g)
    BY <1>2, ReservesKeeps
  <2>2. DOMAIN dec' = Decoders /\ \A e \in Decoders \ {d} : dec'[e] = dec[e]
    BY <1>1, <1>2
  <2>3. DOMAIN dec[d] = DecoderFields
    BY <1>1 DEF DecoderOK
  <2>4. /\ DOMAIN dec'[d] = DecoderFields /\ dec'[d].at = "decode" /\ dec'[d].tail = None
        /\ dec'[d].entry = dec[d].entry /\ dec'[d].error = dec[d].error
    BY <1>1, <1>2, <2>3 DEF DecoderFields
  <2>5. /\ reg' \in Seq(Readers)
        /\ \A x \in Readers \ {r} : /\ x \in ToSet(reg) => x \in ToSet(reg')
                                    /\ HeadIs(reg, x) => HeadIs(reg', x)
    <3>1. reg' = Without(reg, {r}) \/ reg' = reg
      BY <1>2
    <3> QED
      BY <3>1, <1>1, WithoutKeeps
  <2>6. d[2] = "option" => reg' = reg
    BY <1>2
  <2>7. d[2] = "load" => reg' = reg \/ Roomy(f)
    <3> SUFFICES ASSUME d[2] = "load", reg' # reg PROVE Roomy(f)
      OBVIOUS
    <3>1. UsedWith(order') + 2 * Estimate[f] + KeyBytes <= Limit
      BY <1>2
    <3>2. dec[<<r, "load">>].at # "none" /\ order' \in Seq(Readers)
      BY <1>1, <2>1 DEF CacheOK
    <3> HIDE DEF r
    <3> QED
      BY <3>1, <3>2, <1>1, PassedOnIfRoomy
  <2>8. LoadsGoOn(dec, dec')
    <3>1. ASSUME NEW l \in Readers
          PROVE  dec'[<<l, "load">>] = dec[<<l, "load">>] \/ d = <<l, "load">>
      BY <2>2, DecodersAre
    <3> QED
      BY <3>1, <1>1, <2>4 DEF LoadsGoOn
  <2>9. \A g : CacheFor(g, order, order')
    BY <2>1 DEF CacheFor
  <2>10. ReaderOK(r, rd[r], dec', reg', order')
    <3>1. rd[r].at \in {"registering", "recheck", "key"} => reg' = reg
      BY <1>1, <2>6 DEF ReaderOK
    <3> HIDE DEF r
    <3> QED
      BY <1>1, <2>1, <2>8, <3>1 DEF ReaderOK, LoadsGoOn
  <2> HIDE DEF r
  <2>11. DecoderOK(d, dec'[d], reg', order')
    BY <1>1, <2>4, <2>7 DEF DecoderOK, MaybeReader, r
  <2> QED
    BY <1>1, <1>2, <2>1, <2>2, <2>5, <2>6, <2>8, <2>9, <2>10, <2>11, DecoderActs DEF r
<1>3. CASE CannotFit(d) /\ Failed(d, Exhausted(d)) /\ reg' = reg
  <2>1. Exhausted(d) # "exhausted"
    <3>1. CASE d[2] = "option"
      BY <3>1 DEF Exhausted
    <3>2. CASE d[2] = "load"
      <4>1. d = <<r, "load">>
        BY <3>2, <1>1
      <4> HIDE DEF r
      <4> QED
        BY <4>1, <1>1, <1>3, LoadNotRefused
    <3> QED
      BY <3>1, <3>2, <1>1
  <2>2. CacheOK(order') /\ \A g : CachedIn(order', g) \subseteq CachedIn(order, g)
    BY <1>3, CannotFitKeeps
  <2> QED
    BY <1>1, <1>3, <2>1, <2>2, FailedInv
<1> QED
  BY <1>2, <1>3 DEF AdmitFooter

LEMMA DecodeInv ==
    ASSUME Inv, NEW d \in Decoders, Decode(d)
    PROVE  Inv'
<1>1. /\ dec[d].at = "decode" /\ reg' = reg /\ order' = order /\ DOMAIN dec = Decoders
      /\ DecoderOK(d, dec[d], reg, order) /\ CacheOK(order)
      /\ \A g : CachedIn(order', g) \subseteq CachedIn(order, g) /\ CacheFor(g, order, order')
  BY DEF Decode, Inv, CacheFor
<1>2. CASE \E error : error # "exhausted" /\ Failed(d, error)
  BY <1>1, <1>2, FailedInv
<1>3. CASE /\ Actual[File[d[1]]] <= Estimate[File[d[1]]] /\ rd' = rd
           /\ dec' = [dec EXCEPT ![d].at = "shrunk"]
  <2> DEFINE me == [dec[d] EXCEPT !.at = "shrunk"]
  <2>1. dec' = [dec EXCEPT ![d] = me]
    BY <1>1, <1>3
  <2>2. DOMAIN dec[d] = DecoderFields
    BY <1>1 DEF DecoderOK
  <2>3. /\ DOMAIN me = DecoderFields /\ me.at = "shrunk" /\ me.tail = dec[d].tail
        /\ me.entry = dec[d].entry /\ me.error = dec[d].error
    BY <2>2 DEF DecoderFields
  <2> HIDE DEF me
  <2>4. DecoderOK(d, me, reg, order)
    BY <1>1, <1>3, <2>3 DEF DecoderOK
  <2> QED
    BY <1>1, <1>3, <2>1, <2>3, <2>4, DecoderMoves
<1> QED
  BY <1>2, <1>3 DEF Decode

(* A footer enters a cache that holds none of its URI.                     *)
LEMMA InsertKeeps ==
    ASSUME NEW held, CacheOK(held), NEW e \in Readers, Actual[File[e]] <= Estimate[File[e]],
           \A x \in ToSet(held) : Uri[File[x]] # Uri[File[e]]
    PROVE  /\ CacheOK(Append(held, e)) /\ ToSet(Append(held, e)) = ToSet(held) \cup {e}
           /\ \A f : f # File[e] => CachedIn(Append(held, e), f) = CachedIn(held, f)
<1>1. held \in Seq(Readers)
  BY DEF CacheOK
<1>2. Append(held, e) \in Seq(Readers) /\ ToSet(Append(held, e)) = ToSet(held) \cup {e}
  BY <1>1, AppendKeeps
<1> DEFINE now == Append(held, e)
<1> HIDE DEF now
<1>3. now \in Seq(Readers) /\ ToSet(now) = ToSet(held) \cup {e}
  BY <1>2 DEF now
<1>4. CacheOK(now) /\ \A f : f # File[e] => CachedIn(now, f) = CachedIn(held, f)
  BY <1>3 DEF CacheOK, CachedIn
<1> QED
  BY <1>3, <1>4 DEF now

LEMMA RetainInv ==
    ASSUME Inv, NEW d \in Decoders, Retain(d)
    PROVE  Inv'
<1> DEFINE f == File[d[1]]
<1>1. /\ dec[d].at = "shrunk" /\ reg' = reg /\ DOMAIN dec = Decoders
      /\ DecoderOK(d, dec[d], reg, order) /\ CacheOK(order) /\ d[1] \in Readers
      /\ d[2] \in {"load", "option"}
  BY DecodersAre DEF Retain, Inv
<1>2. DOMAIN dec[d] = DecoderFields /\ Actual[f] <= Estimate[f] /\ dec[d].tail = None
      /\ dec[d].error # "exhausted" /\ dec[d].entry \in MaybeReader
  BY <1>1 DEF DecoderOK
<1>3. CASE /\ d[2] = "option" /\ dec' = [dec EXCEPT ![d].at = "done"]
           /\ rd' = [rd EXCEPT ![d[1]] = Told(d[1], "ok")] /\ order' = order
  <2> DEFINE me == [dec[d] EXCEPT !.at = "done"]
  <2>1. dec' = [dec EXCEPT ![d] = me]
    BY <1>1, <1>3
  <2>2. /\ DOMAIN me = DecoderFields /\ me.at = "done" /\ me.tail = dec[d].tail
        /\ me.entry = dec[d].entry /\ me.error = dec[d].error
    BY <1>2 DEF DecoderFields
  <2> HIDE DEF me
  <2>3. DecoderOK(d, me, reg, order)
    BY <1>1, <1>3, <2>2 DEF DecoderOK
  <2>4. \A g : CacheFor(g, order, order')
    BY <1>3 DEF CacheFor
  <2> QED
    BY <1>1, <1>3, <2>1, <2>2, <2>3, <2>4, DecoderMoves
<1>4. CASE Failed(d, "conflict") /\ order' = order
  BY <1>1, <1>4, FailedInv
<1>5. CASE /\ d[2] = "load" /\ ~ConflictCached(f) /\ rd' = rd
           /\ dec' = [dec EXCEPT ![d].at = "done",
                                 ![d].entry = IF Cached(f) = {} THEN d[1] ELSE CHOOSE x \in Cached(f) : TRUE]
           /\ order' = IF Cached(f) = {} THEN Append(order, d[1]) ELSE order
  <2> DEFINE e == IF Cached(f) = {} THEN d[1] ELSE CHOOSE x \in Cached(f) : TRUE
             me == [dec[d] EXCEPT !.at = "done", !.entry = e]
  <2>1. dec' = [dec EXCEPT ![d] = me]
    BY <1>1, <1>5
  <2>2. e \in Readers /\ Cached(f) = CachedIn(order, f)
    BY <1>1, CachedAre
  <2> HIDE DEF e
  <2>3. /\ DOMAIN me = DecoderFields /\ me.at = "done" /\ me.tail = dec[d].tail
        /\ me.entry = e /\ me.error = dec[d].error
    BY <1>2 DEF DecoderFields
  <2> HIDE DEF me
  <2>4. CacheOK(order') /\ \A g : g # f => CachedIn(order', g) = CachedIn(order, g)
    <3>1. CASE Cached(f) # {}
      BY <3>1, <1>1, <1>5
    <3>2. CASE Cached(f) = {}
      <4>1. \A x \in ToSet(order) : Uri[File[x]] # Uri[f]
        BY <3>2, <1>5 DEF Cached, ConflictCached
      <4> QED
        BY <4>1, <3>2, <1>1, <1>2, <1>5, InsertKeeps
    <3> QED
      BY <3>1, <3>2
  <2>5. DecoderOK(d, me, reg, order')
    BY <1>1, <1>2, <1>5, <2>2, <2>3 DEF DecoderOK, MaybeReader
  <2>6. ASSUME NEW x \in Readers \ {d[1]}, HeadIs(reg, x) PROVE CacheFor(File[x], order, order')
    <3>1. CASE File[x] # f
      BY <3>1, <2>4 DEF CacheFor
    <3>2. CASE File[x] = f
      <4>1. ~HeadIs(reg, d[1])
        BY <2>6 DEF HeadIs
      <4>2. Roomy(f)
        BY <4>1, <1>1, <1>5 DEF DecoderOK
      <4> QED
        BY <3>2, <4>2 DEF CacheFor
    <3> QED
      BY <3>1, <3>2
  <2> QED
    BY <1>1, <1>5, <2>1, <2>3, <2>4, <2>5, <2>6, DecoderMoves
<1> QED
  BY <1>3, <1>4, <1>5 DEF Retain

LEMMA PressureInv ==
    ASSUME Inv, Pressure
    PROVE  Inv'
<1>1. rd' = rd /\ dec' = dec /\ reg' = reg /\ order' = <<>>
  BY DEF Pressure
<1>2. \A f : CacheFor(f, order, order')
  BY <1>1, EmptyCache DEF CacheFor, CachedIn
<1>3. ASSUME NEW r \in Readers PROVE ReaderOK(r, rd[r], dec, reg, order')
  BY <1>2, ReaderStays DEF Inv
<1>4. ASSUME NEW d \in Decoders PROVE DecoderOK(d, dec[d], reg, order')
  BY <1>2, DecoderStays DEF Inv
<1> QED
  BY <1>1, <1>3, <1>4, EmptyCache DEF Inv

LEMMA NextInv ==
    ASSUME Inv, [Next]_vars
    PROVE  Inv'
<1>1. CASE UNCHANGED vars
  BY <1>1 DEF vars, Inv
<1>2. CASE \E r \in Readers : Call(r)
  BY <1>2, CallInv
<1>3. CASE \E r \in Readers : CallOptioned(r)
  BY <1>3, CallOptionedInv
<1>4. CASE \E r \in Readers : DropReader(r)
  BY <1>4, DropReaderInv
<1>5. CASE \E r \in Readers : Lookup(r)
  BY <1>5, LookupInv
<1>6. CASE \E r \in Readers : Pending(r)
  BY <1>6, PendingInv
<1>7. CASE \E r \in Readers : BeginLoad(r)
  BY <1>7, BeginLoadInv
<1>8. CASE \E r \in Readers : TakeResult(r)
  BY <1>8, TakeResultInv
<1>9. CASE \E d \in Decoders : ReadTail(d)
  BY <1>9, ReadTailInv
<1>10. CASE \E d \in Decoders : AdmitFooter(d)
  BY <1>10, AdmitFooterInv
<1>11. CASE \E d \in Decoders : Decode(d)
  BY <1>11, DecodeInv
<1>12. CASE \E d \in Decoders : Retain(d)
  BY <1>12, RetainInv
<1>13. CASE Pressure
  BY <1>13, PressureInv
<1> QED
  BY <1>1, <1>2, <1>3, <1>4, <1>5, <1>6, <1>7, <1>8, <1>9, <1>10, <1>11, <1>12, <1>13, FooterAssumption
  DEF Next, Progress, Done, RetainFooter

LEMMA InvHolds == Spec => []Inv
  BY InitInv, NextInv, PTL DEF Spec

(* However the readers, loads and option calls interleave, one load at     *)
(* most of an object is still running and one of its versions at most is   *)
(* cached (check, pending_load).                                           *)
THEOREM OneVersion == Spec => []OneVersionPerUri
<1>1. Inv => OneVersionPerUri
  BY DEF Inv, OneVersionPerUri, LoadsApart, CacheOK, Loads, Ended
<1> QED
  BY <1>1, InvHolds, PTL

(* Whatever the sizes, no reader of default metadata is refused for want   *)
(* of room that other planning holds (owned_keys, owned_hits).             *)
THEOREM PlanningNotRefused == Spec => []NotRefusedForOthers
<1>1. Inv => NotRefusedForOthers
  BY DEF Inv, NotRefusedForOthers, ReaderOK
<1> QED
  BY <1>1, InvHolds, PTL

-----------------------------------------------------------------------------
(* The budget                                                              *)

(* What is held after a step was held before, or is among `extra'.         *)
LEMMA HeldGrows ==
    ASSUME NEW R, NEW D, NEW held, NEW R2, NEW D2, NEW held2, NEW extra,
           \A l \in InFlight(D2) : l \in InFlight(D) \/ Bytes("key", l, KeyBytes) \subseteq extra,
           \A d \in BeingDecoded(D2) :
               \/ /\ d \in BeingDecoded(D)
                  /\ 1..Takes(D2[d], File[d[1]]) \subseteq 1..Takes(D[d], File[d[1]])
               \/ Bytes("decoding", d, Takes(D2[d], File[d[1]])) \subseteq extra,
           \A e \in ReferredTo(R2, D2, held2) :
               e \in ReferredTo(R, D, held) \/ Bytes("footer", e, Actual[File[e]]) \subseteq extra,
           \A r \in OptionsDone(D2) :
               r \in OptionsDone(D) \/ Bytes("option", r, Actual[File[r]]) \subseteq extra
    PROVE  HeldBy(R2, D2, held2) \subseteq HeldBy(R, D, held) \cup extra
<1>1. (UNION {Bytes("key", l, KeyBytes) : l \in InFlight(D2)}) \subseteq HeldBy(R, D, held) \cup extra
  BY DEF HeldBy
<1>2. (UNION {Bytes("decoding", d, Takes(D2[d], File[d[1]])) : d \in BeingDecoded(D2)})
        \subseteq HeldBy(R, D, held) \cup extra
  <2> SUFFICES ASSUME NEW d \in BeingDecoded(D2)
               PROVE  Bytes("decoding", d, Takes(D2[d], File[d[1]])) \subseteq HeldBy(R, D, held) \cup extra
    OBVIOUS
  <2>1. CASE d \in BeingDecoded(D) /\ 1..Takes(D2[d], File[d[1]]) \subseteq 1..Takes(D[d], File[d[1]])
    <3>1. Bytes("decoding", d, Takes(D2[d], File[d[1]])) \subseteq Bytes("decoding", d, Takes(D[d], File[d[1]]))
      BY <2>1 DEF Bytes
    <3> QED
      BY <3>1, <2>1 DEF HeldBy
  <2> QED
    BY <2>1
<1>3. (UNION {Bytes("footer", e, Actual[File[e]]) : e \in ReferredTo(R2, D2, held2)})
        \subseteq HeldBy(R, D, held) \cup extra
  BY DEF HeldBy
<1>4. (UNION {Bytes("option", r, Actual[File[r]]) : r \in OptionsDone(D2)})
        \subseteq HeldBy(R, D, held) \cup extra
  BY DEF HeldBy
<1>5. HeldBy(R2, D2, held2) =
        (UNION {Bytes("key", l, KeyBytes) : l \in InFlight(D2)})
          \cup (UNION {Bytes("decoding", d, Takes(D2[d], File[d[1]])) : d \in BeingDecoded(D2)})
          \cup (UNION {Bytes("footer", e, Actual[File[e]]) : e \in ReferredTo(R2, D2, held2)})
          \cup (UNION {Bytes("option", r, Actual[File[r]]) : r \in OptionsDone(D2)})
  BY DEF HeldBy
<1> QED
  BY <1>1, <1>2, <1>3, <1>4, <1>5

LEMMA HeldNow ==
    ASSUME Inv
    PROVE  IsFiniteSet(HeldBy(rd, dec, order)) /\ Used = Cardinality(HeldBy(rd, dec, order)) /\ Used \in Nat
<1>1. order \in Seq(Readers)
  BY DEF Inv, CacheOK
<1> QED
  BY <1>1, HeldWith, HeldIs, UsedAre DEF UsedWith

LEMMA HeldNext ==
    ASSUME Inv'
    PROVE  IsFiniteSet(HeldBy(rd', dec', order')) /\ Used' = Cardinality(HeldBy(rd', dec', order')) /\ Used' \in Nat
<1>1. ToSet(order') \subseteq Readers
  <2>1. order' \in Seq(Readers)
    BY DEF Inv, CacheOK
  <2> QED
    BY <2>1 DEF ToSet
<1>2. \A r \in Readers : rd'[r].lease \in MaybeReader
  BY DEF Inv, ReaderOK
<1>3. \A d \in Decoders : dec'[d].tail \in MaybeReader /\ dec'[d].entry \in MaybeReader
  BY DEF Inv, DecoderOK
<1>4. ReferredTo(rd', dec', order') \subseteq Readers
  BY <1>1, <1>2, <1>3, ReferredAre
<1> QED
  BY <1>4, HeldFinite, UsedAre

(* Steps after which nothing is held that was not held before.             *)
LEMMA StillWithin ==
    ASSUME Inv, Inv', BudgetKept, HeldBy(rd', dec', order') \subseteq HeldBy(rd, dec, order)
    PROVE  BudgetKept'
<1>1. Used' <= Used /\ Used \in Nat /\ Used' \in Nat
  BY HeldNow, HeldNext, FS_Subset
<1>2. Used <= Limit
  BY DEF BudgetKept
<1>3. Used' <= Limit
  BY <1>1, <1>2, SizesAre
<1> QED
  BY <1>3 DEF BudgetKept

(* Steps that hold something new, for which there is room.                 *)
LEMMA WithinByRoom ==
    ASSUME Inv, Inv', NEW held \in Seq(Readers), NEW reason, NEW x, NEW n \in Nat,
           UsedWith(held) + n <= Limit,
           HeldBy(rd', dec', order') \subseteq HeldBy(rd, dec, held) \cup Bytes(reason, x, n)
    PROVE  BudgetKept'
<1> DEFINE old == HeldBy(rd, dec, held)
           new == Bytes(reason, x, n)
<1>1. IsFiniteSet(old) /\ UsedWith(held) = Cardinality(old) /\ UsedWith(held) \in Nat
  BY HeldWith, HeldIs DEF UsedWith
<1>2. IsFiniteSet(new) /\ Cardinality(new) = n
  BY BytesFinite
<1> HIDE DEF old, new
<1>3. /\ IsFiniteSet(old \cup new) /\ Cardinality(old \cap new) \in Nat
      /\ Cardinality(old \cup new) = Cardinality(old) + n - Cardinality(old \cap new)
  <2>1. IsFiniteSet(old \cap new)
    BY <1>1, FS_Intersection
  <2> QED
    BY <2>1, <1>1, <1>2, FS_Union, FS_CardinalityType
<1>4. Used' <= Cardinality(old \cup new) /\ Used' \in Nat
  BY <1>3, HeldNext, FS_Subset DEF old, new
<1>5. Used' <= Limit
  BY <1>1, <1>3, <1>4, SizesAre
<1> QED
  BY <1>5 DEF BudgetKept

(* Steps that hold n bytes for another reason than before.                 *)
LEMMA WithinBySwap ==
    ASSUME Inv, Inv', BudgetKept, NEW d \in Decoders, NEW reason, NEW x, NEW n \in Nat,
           Bytes("decoding", d, n) \subseteq HeldBy(rd, dec, order),
           Bytes("decoding", d, n) \cap HeldBy(rd', dec', order') = {},
           HeldBy(rd', dec', order') \subseteq HeldBy(rd, dec, order) \cup Bytes(reason, x, n)
    PROVE  BudgetKept'
<1> DEFINE old == HeldBy(rd, dec, order)
           out == Bytes("decoding", d, n)
           in == Bytes(reason, x, n)
           now == HeldBy(rd', dec', order')
<1>1. IsFiniteSet(old) /\ Used = Cardinality(old) /\ Used \in Nat
  BY HeldNow
<1>2. /\ IsFiniteSet(out) /\ Cardinality(out) = n
      /\ IsFiniteSet(in) /\ Cardinality(in) = n
  BY BytesFinite
<1>3. Used' = Cardinality(now) /\ Used' \in Nat
  BY HeldNext
<1>4. now \subseteq (old \ out) \cup in /\ out \subseteq old
  OBVIOUS
<1> HIDE DEF old, out, in, now
<1>5. old \cap out = out
  BY <1>4
<1>6. IsFiniteSet(old \ out) /\ Cardinality(old \ out) = Cardinality(old) - n
  <2>1. IsFiniteSet(old \ out) /\ Cardinality(old \ out) = Cardinality(old) - Cardinality(old \cap out)
    BY <1>1, FS_Difference
  <2>2. Cardinality(old \cap out) = n
    BY <1>2, <1>5
  <2> QED
    BY <2>1, <2>2
<1>7. /\ IsFiniteSet((old \ out) \cup in) /\ Cardinality((old \ out) \cap in) \in Nat
      /\ Cardinality((old \ out) \cup in) = Cardinality(old \ out) + n - Cardinality((old \ out) \cap in)
  <2>1. IsFiniteSet((old \ out) \cap in)
    BY <1>6, FS_Intersection
  <2> QED
    BY <2>1, <1>2, <1>6, FS_Union, FS_CardinalityType
<1>8. Used' <= Cardinality((old \ out) \cup in)
  BY <1>3, <1>4, <1>7, FS_Subset
<1>9. Used <= Limit
  BY DEF BudgetKept
<1>10. Used' <= Limit
  BY <1>1, <1>3, <1>6, <1>7, <1>8, <1>9, SizesAre
<1> QED
  BY <1>10 DEF BudgetKept

(* The footers that something may refer to after a step without a new one. *)
Known(R, D, held) == ReferredTo(R, D, held) \cup {None}

LEMMA KnownAre ==
    ASSUME Inv, NEW held
    PROVE  /\ \A r \in Readers : rd[r].lease \in Known(rd, dec, held)
           /\ \A d \in Decoders : dec[d].tail \in Known(rd, dec, held)
           /\ \A l \in Readers : dec[<<l, "load">>].entry \in Known(rd, dec, held)
           /\ ToSet(held) \subseteq Known(rd, dec, held)
           /\ None \in Known(rd, dec, held)
<1>1. ASSUME NEW l \in Readers PROVE dec[<<l, "load">>].entry \in Known(rd, dec, held)
  <2>1. DecoderOK(<<l, "load">>, dec[<<l, "load">>], reg, order)
    BY DecodersAre DEF Inv
  <2>2. dec[<<l, "load">>].entry # None => l \in InFlight(dec)
    BY <2>1 DEF DecoderOK, InFlight
  <2> QED
    BY <2>2 DEF Known, ReferredTo
<1>2. \A r \in Readers : rd[r].lease \in Known(rd, dec, held)
  BY DEF Known, ReferredTo
<1>3. \A d \in Decoders : dec[d].tail \in Known(rd, dec, held)
  BY DEF Known, ReferredTo
<1>4. ToSet(held) \subseteq Known(rd, dec, held) /\ None \in Known(rd, dec, held)
  BY DEF Known, ReferredTo
<1> QED
  BY <1>1, <1>2, <1>3, <1>4

LEMMA ReferredAmong ==
    ASSUME NEW K, NEW R2, NEW D2, NEW held2, ToSet(held2) \subseteq K,
           \A r \in Readers : R2[r].lease \in K,
           \A d \in Decoders : D2[d].tail \in K,
           \A l \in Readers : D2[<<l, "load">>].entry \in K
    PROVE  ReferredTo(R2, D2, held2) \subseteq K \ {None}
<1> SUFFICES ASSUME NEW e \in ReferredTo(R2, D2, held2) PROVE e \in K /\ e # None
  OBVIOUS
<1>1. e # None /\ (\/ e \in ToSet(held2) \/ \E r \in Readers : e = R2[r].lease
                   \/ \E d \in Decoders : e = D2[d].tail
                   \/ \E l \in Readers : e = D2[<<l, "load">>].entry)
  BY DEF ReferredTo, InFlight
<1> QED
  BY <1>1

LEMMA ReferredStays ==
    ASSUME NEW R, NEW D, NEW held, NEW R2, NEW D2, NEW held2,
           ToSet(held2) \subseteq Known(R, D, held),
           \A r \in Readers : R2[r].lease \in Known(R, D, held),
           \A d \in Decoders : D2[d].tail \in Known(R, D, held),
           \A l \in Readers : D2[<<l, "load">>].entry \in Known(R, D, held)
    PROVE  ReferredTo(R2, D2, held2) \subseteq ReferredTo(R, D, held)
<1>1. ReferredTo(R2, D2, held2) \subseteq Known(R, D, held) \ {None}
  BY ReferredAmong
<1> QED
  BY <1>1 DEF Known

(* A step after which each load, footer being decoded and option footer    *)
(* was one before, and a footer being decoded takes no more.               *)
LEMMA Shrinks ==
    ASSUME Inv, Inv', BudgetKept,
           ToSet(order') \subseteq ToSet(order),
           \A r \in Readers : rd'[r].lease \in Known(rd, dec, order),
           \A d \in Decoders : dec'[d].tail \in Known(rd, dec, order),
           \A l \in Readers : dec'[<<l, "load">>].entry \in Known(rd, dec, order),
           \A l \in Readers : dec'[<<l, "load">>].at # "none" => dec[<<l, "load">>].at # "none",
           \A r \in Readers : dec'[<<r, "option">>].at = "done" => dec[<<r, "option">>].at = "done",
           \A d \in Decoders :
               \/ dec'[d].at = dec[d].at \/ dec'[d].at \notin {"decode", "shrunk"}
               \/ /\ dec[d].at = "decode" /\ dec'[d].at = "shrunk"
                  /\ Actual[File[d[1]]] <= Estimate[File[d[1]]]
    PROVE  BudgetKept'
<1>1. ToSet(order') \subseteq Known(rd, dec, order)
  BY KnownAre
<1>2. ReferredTo(rd', dec', order') \subseteq ReferredTo(rd, dec, order)
  BY <1>1, ReferredStays
<1>3. InFlight(dec') \subseteq InFlight(dec) /\ OptionsDone(dec') \subseteq OptionsDone(dec)
  BY DEF InFlight, OptionsDone
<1>4. ASSUME NEW d \in BeingDecoded(dec')
      PROVE  d \in BeingDecoded(dec) /\ 1..Takes(dec'[d], File[d[1]]) \subseteq 1..Takes(dec[d], File[d[1]])
  <2>1. d \in Decoders /\ dec'[d].at \in {"decode", "shrunk"}
    BY DEF BeingDecoded
  <2>2. CASE dec'[d].at = dec[d].at
    BY <2>1, <2>2 DEF BeingDecoded, Takes
  <2>3. CASE /\ dec[d].at = "decode" /\ dec'[d].at = "shrunk"
             /\ Actual[File[d[1]]] <= Estimate[File[d[1]]]
    <3>1. Takes(dec[d], File[d[1]]) = Estimate[File[d[1]]] /\ Takes(dec'[d], File[d[1]]) = Actual[File[d[1]]]
      BY <2>3 DEF Takes
    <3>2. Estimate[File[d[1]]] \in Nat /\ Actual[File[d[1]]] \in Nat
      BY <2>1, DecodersAre, SizesAre
    <3>3. 1..Takes(dec'[d], File[d[1]]) \subseteq 1..Takes(dec[d], File[d[1]])
      BY <3>1, <3>2, <2>3
    <3> QED
      BY <3>3, <2>1, <2>3 DEF BeingDecoded
  <2> QED
    BY <2>1, <2>2, <2>3
<1>5. HeldBy(rd', dec', order') \subseteq HeldBy(rd, dec, order) \cup {}
  BY <1>2, <1>3, <1>4, HeldGrows
<1> QED
  BY <1>5, StillWithin

(* A reader takes a footer already referred to, or none; no decoder acts.  *)
LEMMA ReaderWithin ==
    ASSUME Inv, Inv', BudgetKept, NEW r \in Readers, dec' = dec, ToSet(order') \subseteq ToSet(order),
           \A x \in Readers \ {r} : rd'[x] = rd[x], rd'[r].lease \in Known(rd, dec, order)
    PROVE  BudgetKept'
<1>1. \A x \in Readers : rd'[x].lease \in Known(rd, dec, order)
  BY KnownAre
<1> QED
  BY <1>1, KnownAre, Shrinks

LEMMA TakenAre ==
    ASSUME Inv, NEW r \in Readers, NEW error
    PROVE  Told(r, error).lease \in Known(rd, dec, order)
<1> DEFINE to == Told(r, error)
<1>1. to.lease = rd[r].lease
  BY ToldIs
<1> HIDE DEF to
<1>2. to.lease \in Known(rd, dec, order)
  BY <1>1, KnownAre
<1> QED
  BY <1>2 DEF to

LEMMA AnswerWithin ==
    ASSUME Inv, Inv', BudgetKept, NEW r \in Readers, NEW to, Answer(r, to),
           to.lease \in Known(rd, dec, order), ToSet(order') \subseteq ToSet(order)
    PROVE  BudgetKept'
<1>1. DOMAIN rd = Readers /\ rd' = [rd EXCEPT ![r] = to] /\ dec' = dec
  BY DEF Inv, Answer
<1>2. rd'[r] = to /\ \A x \in Readers \ {r} : rd'[x] = rd[x]
  BY <1>1
<1> QED
  BY <1>1, <1>2, ReaderWithin

LEMMA CallWithin ==
    ASSUME Inv, Inv', BudgetKept, NEW r \in Readers, Call(r)
    PROVE  BudgetKept'
<1>1. DOMAIN rd = Readers /\ DOMAIN rd[r] = ReaderFields
  BY DEF Inv, ReaderOK
<1>2. rd' = [rd EXCEPT ![r].at = "lookup"] /\ dec' = dec /\ order' = order
  BY DEF Call
<1>3. rd'[r].lease = rd[r].lease /\ \A x \in Readers \ {r} : rd'[x] = rd[x]
  BY <1>1, <1>2 DEF ReaderFields
<1> QED
  BY <1>2, <1>3, KnownAre, ReaderWithin

LEMMA LookupWithin ==
    ASSUME Inv, Inv', BudgetKept, NEW r \in Readers, Lookup(r)
    PROVE  BudgetKept'
<1>1. DOMAIN rd = Readers /\ DOMAIN rd[r] = ReaderFields
  BY DEF Inv, ReaderOK
<1>2. order' = order
  BY DEF Lookup
<1>3. CASE ConflictCached(File[r])
  <2>1. Answer(r, Told(r, "conflict"))
    BY <1>3 DEF Lookup
  <2> QED
    BY <1>2, <2>1, TakenAre, AnswerWithin
<1>4. CASE ~ConflictCached(File[r]) /\ Cached(File[r]) # {}
  <2> DEFINE to == Leased(r)
             e == CHOOSE x \in Cached(File[r]) : TRUE
  <2>1. Answer(r, to)
    BY <1>4 DEF Lookup
  <2>2. e \in ToSet(order)
    BY <1>4 DEF Cached
  <2>3. to.lease = e
    <3>1. to = [rd[r] EXCEPT !.at = "rest", !.told = "ok", !.lease = e, !.hit = r \in Preflight]
      BY DEF Leased
    <3> HIDE DEF to, e
    <3> QED
      BY <1>1, <3>1 DEF ReaderFields
  <2> HIDE DEF to, e
  <2> QED
    BY <1>2, <2>1, <2>2, <2>3, KnownAre, AnswerWithin
<1>5. CASE ~ConflictCached(File[r]) /\ Cached(File[r]) = {}
  <2> DEFINE next == IF rd[r].at = "lookup" THEN "pending" ELSE "recheck"
  <2>1. rd' = [rd EXCEPT ![r].at = next] /\ dec' = dec
    BY <1>5 DEF Lookup
  <2> HIDE DEF next
  <2>2. rd'[r].lease = rd[r].lease /\ \A x \in Readers \ {r} : rd'[x] = rd[x]
    BY <1>1, <2>1 DEF ReaderFields
  <2> QED
    BY <1>2, <2>1, <2>2, KnownAre, ReaderWithin
<1> QED
  BY <1>3, <1>4, <1>5

LEMMA PendingWithin ==
    ASSUME Inv, Inv', BudgetKept, NEW r \in Readers, Pending(r)
    PROVE  BudgetKept'
<1> DEFINE found == PendingOfUri(r)
           other == \E l \in found : File[l] # File[r]
<1>1. DOMAIN rd = Readers /\ DOMAIN rd[r] = ReaderFields /\ order' = order
  BY DEF Inv, ReaderOK, Pending
<1>2. CASE other
  <2>1. Answer(r, Told(r, "conflict"))
    BY <1>2 DEF Pending
  <2> QED
    BY <1>1, <2>1, TakenAre, AnswerWithin
<1>3. CASE ~other /\ found # {}
  <2> DEFINE l == CHOOSE x \in found : TRUE
             to == [rd[r] EXCEPT !.at = "joined", !.joined = l]
  <2>1. Answer(r, to)
    BY <1>3 DEF Pending
  <2> HIDE DEF l
  <2>2. to.lease = rd[r].lease
    BY <1>1 DEF ReaderFields
  <2> HIDE DEF to
  <2> QED
    BY <1>1, <2>1, <2>2, KnownAre, AnswerWithin
<1>4. CASE ~other /\ found = {}
  <2>1. dec' = dec /\ \E next : rd' = [rd EXCEPT ![r].at = next]
    BY <1>4 DEF Pending
  <2>2. rd'[r].lease = rd[r].lease /\ \A x \in Readers \ {r} : rd'[x] = rd[x]
    BY <1>1, <2>1 DEF ReaderFields
  <2> QED
    BY <1>1, <2>1, <2>2, KnownAre, ReaderWithin
<1> QED
  BY <1>2, <1>3, <1>4

LEMMA LeaveWithin ==
    ASSUME Inv, Inv', BudgetKept, NEW r \in Readers, NEW to, NEW dropped,
           rd' = [rd EXCEPT ![r] = to], order' = order,
           \A d \in Decoders : dec'[d] = IF d \in dropped THEN Idle ELSE dec[d],
           to.lease \in Known(rd, dec, order)
    PROVE  BudgetKept'
<1>1. \A x \in Readers : rd'[x].lease \in Known(rd, dec, order)
  <2>1. DOMAIN rd = Readers
    BY DEF Inv
  <2> QED
    BY <2>1, KnownAre
<1>2. \A d \in Decoders : /\ dec'[d].tail \in {dec[d].tail, None} /\ dec'[d].entry \in {dec[d].entry, None}
                          /\ dec'[d].at \in {dec[d].at, "none"}
  BY IdleIs
<1>3. \A d \in Decoders : dec'[d].tail \in Known(rd, dec, order)
  BY <1>2, KnownAre
<1>4. \A l \in Readers : /\ dec'[<<l, "load">>].entry \in Known(rd, dec, order)
                         /\ dec'[<<l, "load">>].at # "none" => dec[<<l, "load">>].at # "none"
                         /\ dec'[<<l, "option">>].at = "done" => dec[<<l, "option">>].at = "done"
  BY <1>2, DecodersAre, KnownAre
<1>5. \A d \in Decoders : dec'[d].at = dec[d].at \/ dec'[d].at \notin {"decode", "shrunk"}
  BY <1>2
<1> QED
  BY <1>1, <1>3, <1>4, <1>5, Shrinks

LEMMA LeaveLoadWithin ==
    ASSUME Inv, Inv', BudgetKept, NEW r \in Readers, NEW to, LeaveLoad(r, to),
           to.lease \in Known(rd, dec, order)
    PROVE  BudgetKept'
<1> DEFINE l == rd[r].joined
           ends == l # None /\ Others(r, l) = {}
           dropped == IF ends THEN {<<l, "load">>} ELSE {}
<1>1. /\ rd' = [rd EXCEPT ![r] = to] /\ order' = order
      /\ dec' = (IF ends THEN [dec EXCEPT ![<<l, "load">>] = Idle] ELSE dec)
  BY DEF LeaveLoad
<1>2. DOMAIN dec = Decoders
  BY DEF Inv
<1>3. \A d \in Decoders : dec'[d] = IF d \in dropped THEN Idle ELSE dec[d]
  BY <1>1, <1>2
<1> HIDE DEF dropped, ends, l
<1> QED
  BY <1>1, <1>3, LeaveWithin

LEMMA TakeResultWithin ==
    ASSUME Inv, Inv', BudgetKept, NEW r \in Readers, TakeResult(r)
    PROVE  BudgetKept'
<1> DEFINE l == dec[<<rd[r].joined, "load">>]
<1>1. DOMAIN rd = Readers /\ DOMAIN rd[r] = ReaderFields /\ rd[r].joined \in Readers
  BY DEF Inv, ReaderOK, TakeResult
<1>2. l.entry \in Known(rd, dec, order)
  BY <1>1, KnownAre
<1>3. CASE l.at = "done" /\ r \in Preflight
  <2>1. /\ rd' = [rd EXCEPT ![r].at = "rest", ![r].told = "ok", ![r].lease = l.entry]
        /\ dec' = dec /\ order' = order
    BY <1>3 DEF TakeResult
  <2> HIDE DEF l
  <2>2. rd'[r].lease = l.entry /\ \A x \in Readers \ {r} : rd'[x] = rd[x]
    BY <1>1, <2>1 DEF ReaderFields
  <2> QED
    BY <1>2, <2>1, <2>2, ReaderWithin
<1>4. CASE l.at = "done" /\ r \notin Preflight
  <2> DEFINE to == [rd[r] EXCEPT !.at = "rest", !.told = "ok", !.lease = l.entry, !.joined = None]
  <2>1. LeaveLoad(r, to)
    BY <1>4 DEF TakeResult
  <2>2. to.lease = l.entry
    BY <1>1 DEF ReaderFields
  <2> HIDE DEF to, l
  <2> QED
    BY <1>2, <2>1, <2>2, LeaveLoadWithin
<1>5. CASE l.at = "failed"
  <2> DEFINE told == Told(r, l.error)
             to == [told EXCEPT !.joined = None]
  <2>1. LeaveLoad(r, to)
    BY <1>5 DEF TakeResult
  <2>2. DOMAIN told = ReaderFields /\ told.lease \in Known(rd, dec, order)
    BY ToldIs, TakenAre
  <2> HIDE DEF told, l
  <2>3. to.lease = told.lease
    BY <2>2 DEF ReaderFields
  <2> HIDE DEF to
  <2> QED
    BY <2>1, <2>2, <2>3, LeaveLoadWithin
<1> QED
  BY <1>3, <1>4, <1>5 DEF TakeResult

LEMMA DropReaderWithin ==
    ASSUME Inv, Inv', BudgetKept, NEW r \in Readers, DropReader(r)
    PROVE  BudgetKept'
<1> DEFINE gone == [rd[r] EXCEPT !.at = "gone", !.lease = None, !.hit = FALSE, !.joined = None]
           l == rd[r].joined
           ends == l # None /\ Others(r, l) = {}
           dropped == {<<r, "option">>} \cup (IF ends THEN {<<l, "load">>} ELSE {})
<1>1. /\ rd' = [rd EXCEPT ![r] = gone] /\ order' = order
      /\ dec' = [d \in Decoders |-> IF d \in dropped THEN Idle ELSE dec[d]]
  BY DEF DropReader
<1>2. DOMAIN rd[r] = ReaderFields
  BY DEF Inv, ReaderOK
<1>3. gone.lease = None
  BY <1>2 DEF ReaderFields
<1>4. gone.lease \in Known(rd, dec, order)
  BY <1>3, KnownAre
<1> HIDE DEF gone, dropped
<1>5. \A d \in Decoders : dec'[d] = IF d \in dropped THEN Idle ELSE dec[d]
  BY <1>1
<1> QED
  BY <1>1, <1>4, <1>5, LeaveWithin

(* Decoder d becomes `me', without a footer of its own.                    *)
LEMMA DecoderWithin ==
    ASSUME Inv, Inv', BudgetKept, NEW d \in Decoders, NEW me, dec' = [dec EXCEPT ![d] = me],
           ToSet(order') \subseteq ToSet(order),
           \A r \in Readers : rd'[r].lease \in Known(rd, dec, order),
           me.tail \in Known(rd, dec, order), d[2] = "load" => me.entry \in Known(rd, dec, order),
           d[2] = "load" => dec[d].at # "none", d[2] = "option" => me.at # "done",
           \/ me.at \notin {"decode", "shrunk"}
           \/ dec[d].at = "decode" /\ me.at = "shrunk" /\ Actual[File[d[1]]] <= Estimate[File[d[1]]]
    PROVE  BudgetKept'
<1>1. DOMAIN dec = Decoders
  BY DEF Inv
<1>2. dec'[d] = me /\ \A e \in Decoders \ {d} : dec'[e] = dec[e]
  BY <1>1
<1>3. \A e \in Decoders : dec'[e].tail \in Known(rd, dec, order)
  BY <1>2, KnownAre
<1>4. ASSUME NEW l \in Readers
      PROVE  /\ dec'[<<l, "load">>].entry \in Known(rd, dec, order)
             /\ dec'[<<l, "load">>].at # "none" => dec[<<l, "load">>].at # "none"
  <2>1. <<l, "load">> \in Decoders /\ <<l, "load">>[2] = "load"
        /\ dec[<<l, "load">>].entry \in Known(rd, dec, order)
    BY DecodersAre, KnownAre
  <2>2. CASE <<l, "load">> = d
    BY <2>1, <2>2, <1>2
  <2>3. CASE <<l, "load">> # d
    BY <2>1, <2>3, <1>2
  <2> QED
    BY <2>2, <2>3
<1>5. ASSUME NEW l \in Readers
      PROVE  dec'[<<l, "option">>].at = "done" => dec[<<l, "option">>].at = "done"
  <2>1. <<l, "option">> \in Decoders /\ <<l, "option">>[2] = "option"
    BY DecodersAre
  <2> QED
    BY <2>1, <1>2
<1>6. \A e \in Decoders :
         \/ dec'[e].at = dec[e].at \/ dec'[e].at \notin {"decode", "shrunk"}
         \/ /\ dec[e].at = "decode" /\ dec'[e].at = "shrunk"
            /\ Actual[File[e[1]]] <= Estimate[File[e[1]]]
  BY <1>2
<1> QED
  BY <1>3, <1>4, <1>5, <1>6, Shrinks

LEMMA FailedWithin ==
    ASSUME Inv, Inv', BudgetKept, NEW d \in Decoders, dec[d].at # "none", NEW error, Failed(d, error),
           ToSet(order') \subseteq ToSet(order)
    PROVE  BudgetKept'
<1> DEFINE me == [Idle EXCEPT !.at = "failed", !.error = error]
<1>1. /\ dec' = [dec EXCEPT ![d] = me] /\ DOMAIN rd = Readers /\ d[1] \in Readers
      /\ rd' = rd \/ rd' = [rd EXCEPT ![d[1]] = Told(d[1], error)]
  BY DecodersAre DEF Failed, Inv
<1>2. me.at = "failed" /\ me.tail = None /\ me.entry = None
  BY DEF Idle
<1> HIDE DEF me
<1>3. \A r \in Readers : rd'[r].lease \in Known(rd, dec, order)
  BY <1>1, KnownAre, TakenAre
<1>4. None \in Known(rd, dec, order)
  BY KnownAre
<1> QED
  BY <1>1, <1>2, <1>3, <1>4, DecoderWithin

LEMMA CallOptionedWithin ==
    ASSUME Inv, Inv', BudgetKept, NEW r \in Readers, CallOptioned(r)
    PROVE  BudgetKept'
<1> DEFINE d == <<r, "option">>
           me == [dec[d] EXCEPT !.at = "tail"]
<1>1. /\ DOMAIN rd = Readers /\ DOMAIN rd[r] = ReaderFields /\ DOMAIN dec = Decoders /\ d \in Decoders
      /\ DOMAIN dec[d] = DecoderFields /\ d[2] = "option"
  BY DecodersAre DEF Inv, ReaderOK, DecoderOK
<1>2. /\ rd' = [rd EXCEPT ![r].at = "option", ![r].told = None]
      /\ dec' = [dec EXCEPT ![d].at = "tail"] /\ order' = order
  BY DEF CallOptioned
<1> HIDE DEF d
<1>3. dec' = [dec EXCEPT ![d] = me] /\ me.tail = dec[d].tail /\ me.at = "tail"
  BY <1>1, <1>2 DEF DecoderFields
<1>4. rd'[r].lease = rd[r].lease /\ \A x \in Readers \ {r} : rd'[x] = rd[x]
  BY <1>1, <1>2 DEF ReaderFields
<1>5. (\A x \in Readers : rd'[x].lease \in Known(rd, dec, order)) /\ me.tail \in Known(rd, dec, order)
  BY <1>1, <1>3, <1>4, KnownAre
<1> HIDE DEF me
<1> QED
  BY <1>1, <1>2, <1>3, <1>5, DecoderWithin

LEMMA ReadTailWithin ==
    ASSUME Inv, Inv', BudgetKept, NEW d \in Decoders, ReadTail(d)
    PROVE  BudgetKept'
<1> DEFINE f == File[d[1]]
           kept == IF Cached(f) = {} THEN None ELSE CHOOSE e \in Cached(f) : TRUE
           me == [dec[d] EXCEPT !.at = "admission", !.tail = kept]
<1>1. /\ dec[d].at = "tail" /\ order' = order /\ DOMAIN dec = Decoders /\ DOMAIN dec[d] = DecoderFields
      /\ DecoderOK(d, dec[d], reg, order)
  BY DEF ReadTail, Inv, DecoderOK
<1>2. CASE \E error : Failed(d, error)
  BY <1>1, <1>2, FailedWithin
<1>3. CASE rd' = rd /\ dec' = [dec EXCEPT ![d].at = "admission", ![d].tail = kept]
  <2>1. kept \in Known(rd, dec, order)
    BY KnownAre DEF Cached
  <2> HIDE DEF kept
  <2>2. /\ dec' = [dec EXCEPT ![d] = me]
        /\ me.tail = kept /\ me.at = "admission" /\ me.entry = dec[d].entry
    BY <1>1, <1>3 DEF DecoderFields
  <2>3. dec[d].entry = None /\ None \in Known(rd, dec, order)
    BY <1>1, KnownAre DEF DecoderOK
  <2> HIDE DEF me
  <2> QED
    BY <1>1, <1>3, <2>1, <2>2, <2>3, KnownAre, DecoderWithin
<1> QED
  BY <1>2, <1>3 DEF ReadTail

LEMMA DecodeWithin ==
    ASSUME Inv, Inv', BudgetKept, NEW d \in Decoders, Decode(d)
    PROVE  BudgetKept'
<1>1. /\ dec[d].at = "decode" /\ order' = order /\ DOMAIN dec = Decoders /\ DOMAIN dec[d] = DecoderFields
      /\ DecoderOK(d, dec[d], reg, order)
  BY DEF Decode, Inv, DecoderOK
<1>2. CASE \E error : Failed(d, error)
  BY <1>1, <1>2, FailedWithin
<1>3. CASE /\ Actual[File[d[1]]] <= Estimate[File[d[1]]] /\ rd' = rd
           /\ dec' = [dec EXCEPT ![d].at = "shrunk"]
  <2> DEFINE me == [dec[d] EXCEPT !.at = "shrunk"]
  <2>1. /\ dec' = [dec EXCEPT ![d] = me]
        /\ me.tail = dec[d].tail /\ me.at = "shrunk" /\ me.entry = dec[d].entry
    BY <1>1, <1>3 DEF DecoderFields
  <2>2. dec[d].entry = None /\ dec[d].tail = None /\ None \in Known(rd, dec, order)
    BY <1>1, KnownAre DEF DecoderOK
  <2> HIDE DEF me
  <2>3. \A r \in Readers : rd'[r].lease \in Known(rd, dec, order)
    BY <1>3, KnownAre
  <2>4. me.tail \in Known(rd, dec, order) /\ me.entry \in Known(rd, dec, order)
    BY <2>1, <2>2
  <2> QED
    BY <1>1, <1>3, <2>1, <2>3, <2>4, DecoderWithin
<1> QED
  BY <1>2, <1>3 DEF Decode

LEMMA PressureWithin ==
    ASSUME Inv, Inv', BudgetKept, Pressure
    PROVE  BudgetKept'
<1>1. rd' = rd /\ dec' = dec /\ order' = <<>>
  BY DEF Pressure
<1>2. ToSet(order') \subseteq ToSet(order)
  BY <1>1, EmptyCache
<1> QED
  BY <1>1, <1>2, KnownAre, Shrinks

LEMMA BeginLoadWithin ==
    ASSUME Inv, Inv', BudgetKept, NEW r \in Readers, BeginLoad(r)
    PROVE  BudgetKept'
<1> DEFINE d == <<r, "load">>
           claim == <<r, "key">>
<1>1. /\ DOMAIN rd = Readers /\ DOMAIN rd[r] = ReaderFields /\ DOMAIN dec = Decoders /\ d \in Decoders
      /\ DOMAIN dec[d] = DecoderFields /\ Amount(claim) = KeyBytes
  BY DecodersAre DEF Inv, ReaderOK, DecoderOK, Amount
<1>2. CASE /\ Reserves(claim) /\ rd' = [rd EXCEPT ![r].at = "joined", ![r].joined = r]
           /\ dec' = [dec EXCEPT ![d].at = "tail"]
  <2>1. order' \in Seq(Readers) /\ UsedWith(order') + KeyBytes <= Limit
    BY <1>1, <1>2, ReservesKeeps DEF CacheOK
  <2>2. /\ dec'[d].at = "tail" /\ dec'[d].tail = dec[d].tail /\ dec'[d].entry = dec[d].entry
        /\ \A e \in Decoders \ {d} : dec'[e] = dec[e]
    BY <1>1, <1>2 DEF DecoderFields
  <2>3. \A x \in Readers : rd'[x].lease = rd[x].lease
    BY <1>1, <1>2 DEF ReaderFields
  <2>4. /\ \A e \in Decoders : dec'[e].tail = dec[e].tail /\ dec'[e].entry = dec[e].entry
        /\ \A e \in Decoders \ {d} : dec'[e] = dec[e]
    BY <2>2
  <2>5. ReferredTo(rd', dec', order') \subseteq ReferredTo(rd, dec, order')
    <3>1. /\ \A x \in Readers : rd'[x].lease \in Known(rd, dec, order')
          /\ \A e \in Decoders : dec'[e].tail \in Known(rd, dec, order')
          /\ \A l \in Readers : dec'[<<l, "load">>].entry \in Known(rd, dec, order')
          /\ ToSet(order') \subseteq Known(rd, dec, order')
      BY <2>3, <2>4, KnownAre, DecodersAre
    <3> QED
      BY <3>1, ReferredStays
  <2>6. \A l \in InFlight(dec') : l \in InFlight(dec) \/ l = r
    <3>1. \A l \in Readers : l # r => <<l, "load">> \in Decoders \ {d}
      BY DecodersAre
    <3> HIDE DEF d
    <3> QED
      BY <2>4, <3>1 DEF InFlight
  <2>7. \A e \in BeingDecoded(dec') : e \in BeingDecoded(dec) /\ dec'[e] = dec[e]
    <3> HIDE DEF d
    <3> QED
      BY <2>2 DEF BeingDecoded
  <2>8. OptionsDone(dec') \subseteq OptionsDone(dec)
    <3>1. \A x \in Readers : <<x, "option">> \in Decoders \ {d}
      BY DecodersAre
    <3> HIDE DEF d
    <3> QED
      BY <2>2, <3>1 DEF OptionsDone
  <2> DEFINE extra == Bytes("key", r, KeyBytes)
  <2>9. \A l \in InFlight(dec') : l \in InFlight(dec) \/ Bytes("key", l, KeyBytes) \subseteq extra
    BY <2>6
  <2> HIDE DEF extra, d
  <2>10. HeldBy(rd', dec', order') \subseteq HeldBy(rd, dec, order') \cup extra
    BY <2>5, <2>7, <2>8, <2>9, HeldGrows
  <2> QED
    BY <2>1, <2>10, SizesAre, WithinByRoom DEF extra
<1>3. CASE CannotFit(claim) /\ \E error : Answer(r, Told(r, error))
  <2>1. ToSet(order') \subseteq ToSet(order)
    BY <1>3, CannotFitKeeps
  <2> QED
    BY <1>3, <2>1, TakenAre, AnswerWithin
<1> QED
  BY <1>2, <1>3 DEF BeginLoad

LEMMA AdmitFooterWithin ==
    ASSUME Inv, Inv', BudgetKept, NEW d \in Decoders, AdmitFooter(d)
    PROVE  BudgetKept'
<1>1. /\ dec[d].at = "admission" /\ DOMAIN dec = Decoders /\ DOMAIN dec[d] = DecoderFields
      /\ Amount(d) = Estimate[File[d[1]]] /\ d[1] \in Readers
  BY DecodersAre DEF AdmitFooter, Inv, DecoderOK, Amount
<1>2. CASE Reserves(d) /\ rd' = rd /\ dec' = [dec EXCEPT ![d].at = "decode", ![d].tail = None]
  <2>1. order' \in Seq(Readers) /\ UsedWith(order') + Estimate[File[d[1]]] <= Limit
    BY <1>1, <1>2, ReservesKeeps DEF CacheOK
  <2>2. /\ dec'[d].at = "decode" /\ dec'[d].tail = None /\ dec'[d].entry = dec[d].entry
        /\ \A e \in Decoders \ {d} : dec'[e] = dec[e]
    BY <1>1, <1>2 DEF DecoderFields
  <2>3. \A e \in Decoders : dec'[e].tail \in {dec[e].tail, None} /\ dec'[e].entry = dec[e].entry
    BY <2>2
  <2>4. \A e \in Decoders : /\ dec'[e].at = "none" <=> dec[e].at = "none"
                            /\ dec'[e].at = "done" <=> dec[e].at = "done"
    BY <1>1, <2>2
  <2>5. ReferredTo(rd', dec', order') \subseteq ReferredTo(rd, dec, order')
    <3>1. /\ \A x \in Readers : rd'[x].lease \in Known(rd, dec, order')
          /\ \A e \in Decoders : dec'[e].tail \in Known(rd, dec, order')
          /\ \A l \in Readers : dec'[<<l, "load">>].entry \in Known(rd, dec, order')
          /\ ToSet(order') \subseteq Known(rd, dec, order')
      BY <1>2, <2>3, KnownAre, DecodersAre
    <3> QED
      BY <3>1, ReferredStays
  <2>6. InFlight(dec') \subseteq InFlight(dec) /\ OptionsDone(dec') \subseteq OptionsDone(dec)
    BY <2>4, DecodersAre DEF InFlight, OptionsDone
  <2>7. \A e \in BeingDecoded(dec') : (e \in BeingDecoded(dec) /\ dec'[e] = dec[e]) \/ e = d
    BY <2>2 DEF BeingDecoded
  <2> DEFINE n == Estimate[File[d[1]]]
             extra == Bytes("decoding", d, n)
  <2>8. Takes(dec'[d], File[d[1]]) = n /\ n \in Nat
    BY <1>1, <2>2, SizesAre DEF Takes
  <2>9. \A e \in BeingDecoded(dec') :
            \/ /\ e \in BeingDecoded(dec)
               /\ 1..Takes(dec'[e], File[e[1]]) \subseteq 1..Takes(dec[e], File[e[1]])
            \/ Bytes("decoding", e, Takes(dec'[e], File[e[1]])) \subseteq extra
    BY <2>7, <2>8
  <2> HIDE DEF extra, n
  <2>10. HeldBy(rd', dec', order') \subseteq HeldBy(rd, dec, order') \cup extra
    BY <2>5, <2>6, <2>9, HeldGrows
  <2>11. UsedWith(order') + n <= Limit
    BY <2>1 DEF n
  <2> QED
    BY <2>1, <2>8, <2>10, <2>11, WithinByRoom DEF extra
<1>3. CASE CannotFit(d) /\ \E error : Failed(d, error)
  <2>1. ToSet(order') \subseteq ToSet(order)
    BY <1>3, CannotFitKeeps
  <2> QED
    BY <1>1, <1>3, <2>1, FailedWithin
<1> QED
  BY <1>2, <1>3 DEF AdmitFooter

LEMMA NotDecoding ==
    ASSUME NEW R, NEW D, NEW held, NEW d, d \notin BeingDecoded(D), NEW n
    PROVE  Bytes("decoding", d, n) \cap HeldBy(R, D, held) = {}
<1> SUFFICES ASSUME NEW b \in HeldBy(R, D, held) PROVE b[1] # "decoding" \/ b[2] # d
  BY DEF Bytes
<1>1. \/ \E l : b \in Bytes("key", l, KeyBytes)
      \/ \E e \in BeingDecoded(D) : b \in Bytes("decoding", e, Takes(D[e], File[e[1]]))
      \/ \E e : b \in Bytes("footer", e, Actual[File[e]])
      \/ \E r : b \in Bytes("option", r, Actual[File[r]])
  BY DEF HeldBy
<1> QED
  BY <1>1 DEF Bytes

(* The footer d decoded is kept under another name: the reason changes,    *)
(* the bytes do not.                                                       *)
LEMMA KeptWithin ==
    ASSUME Inv, Inv', BudgetKept, NEW d \in Decoders, dec[d].at = "shrunk",
           dec'[d].at = "done", \A e \in Decoders \ {d} : dec'[e] = dec[e],
           \A e \in ReferredTo(rd', dec', order') :
               e \in ReferredTo(rd, dec, order) \/ (d[2] = "load" /\ e = d[1])
    PROVE  BudgetKept'
<1> DEFINE n == Actual[File[d[1]]]
           reason == IF d[2] = "load" THEN "footer" ELSE "option"
           extra == Bytes(reason, d[1], n)
<1>1. n \in Nat /\ d = <<d[1], d[2]>>
  BY DecodersAre, SizesAre
<1>2. d \in BeingDecoded(dec) /\ Takes(dec[d], File[d[1]]) = n /\ d \notin BeingDecoded(dec')
  BY DEF BeingDecoded, Takes
<1>3. Bytes("decoding", d, n) \subseteq HeldBy(rd, dec, order)
  BY <1>2 DEF HeldBy
<1>4. Bytes("decoding", d, n) \cap HeldBy(rd', dec', order') = {}
  BY <1>2, NotDecoding
<1>5. \A e \in BeingDecoded(dec') : e \in BeingDecoded(dec) /\ dec'[e] = dec[e]
  BY <1>2 DEF BeingDecoded
<1>6. InFlight(dec') \subseteq InFlight(dec)
  BY DecodersAre DEF InFlight
<1>7. \A r \in OptionsDone(dec') : r \in OptionsDone(dec) \/ Bytes("option", r, Actual[File[r]]) \subseteq extra
  <2> SUFFICES ASSUME NEW r \in OptionsDone(dec'), r \notin OptionsDone(dec)
               PROVE  Bytes("option", r, Actual[File[r]]) \subseteq extra
    OBVIOUS
  <2>1. r \in Readers /\ <<r, "option">> \in Decoders /\ dec'[<<r, "option">>] # dec[<<r, "option">>]
    BY DecodersAre DEF OptionsDone
  <2>2. d = <<r, "option">>
    BY <2>1
  <2>3. d[1] = r /\ d[2] = "option"
    BY <2>2
  <2>4. reason = "option"
    BY <2>3
  <2> QED
    BY <2>3, <2>4
<1>8. \A e \in ReferredTo(rd', dec', order') :
          e \in ReferredTo(rd, dec, order) \/ Bytes("footer", e, Actual[File[e]]) \subseteq extra
  OBVIOUS
<1> HIDE DEF extra, n, reason
<1>9. HeldBy(rd', dec', order') \subseteq HeldBy(rd, dec, order) \cup extra
  BY <1>5, <1>6, <1>7, <1>8, HeldGrows
<1> QED
  BY <1>1, <1>3, <1>4, <1>9, WithinBySwap DEF extra

LEMMA RetainWithin ==
    ASSUME Inv, Inv', BudgetKept, NEW d \in Decoders, Retain(d)
    PROVE  BudgetKept'
<1> DEFINE f == File[d[1]]
<1>1. /\ dec[d].at = "shrunk" /\ DOMAIN dec = Decoders /\ DOMAIN dec[d] = DecoderFields
      /\ dec[d].entry = None /\ dec[d].tail = None /\ d[1] \in Readers /\ DOMAIN rd = Readers
      /\ order \in Seq(Readers)
  BY DecodersAre DEF Retain, Inv, DecoderOK, CacheOK
<1>2. None \in Known(rd, dec, order) /\ ToSet(order) \subseteq Known(rd, dec, order)
      /\ (\A r \in Readers : rd[r].lease \in Known(rd, dec, order))
      /\ (\A e \in Decoders : dec[e].tail \in Known(rd, dec, order))
      /\ (\A l \in Readers : dec[<<l, "load">>].entry \in Known(rd, dec, order))
  BY KnownAre
<1>3. CASE /\ d[2] = "option" /\ dec' = [dec EXCEPT ![d].at = "done"]
           /\ rd' = [rd EXCEPT ![d[1]] = Told(d[1], "ok")] /\ order' = order
  <2>1. /\ dec'[d].at = "done" /\ dec'[d].tail = None /\ dec'[d].entry = None
        /\ \A e \in Decoders \ {d} : dec'[e] = dec[e]
    BY <1>1, <1>3 DEF DecoderFields
  <2>2. \A r \in Readers : rd'[r].lease \in Known(rd, dec, order)
    BY <1>1, <1>2, <1>3, TakenAre
  <2>3. \A e \in Decoders : dec'[e].tail \in Known(rd, dec, order)
    BY <1>2, <2>1
  <2>4. \A l \in Readers : dec'[<<l, "load">>].entry \in Known(rd, dec, order)
    BY <1>2, <2>1, DecodersAre
  <2>5. ReferredTo(rd', dec', order') \subseteq ReferredTo(rd, dec, order)
    <3>1. ToSet(order') \subseteq Known(rd, dec, order)
      BY <1>2, <1>3
    <3> QED
      BY <3>1, <2>2, <2>3, <2>4, ReferredStays
  <2>6. \A e \in ReferredTo(rd', dec', order') : e \in ReferredTo(rd, dec, order) \/ (d[2] = "load" /\ e = d[1])
    BY <2>5
  <2>7. dec[d].at = "shrunk" /\ dec'[d].at = "done" /\ \A e \in Decoders \ {d} : dec'[e] = dec[e]
    BY <1>1, <2>1
  <2> QED
    BY <2>6, <2>7, KeptWithin
<1>4. CASE Failed(d, "conflict") /\ order' = order
  BY <1>1, <1>4, FailedWithin
<1>5. CASE /\ d[2] = "load" /\ rd' = rd /\ Cached(f) # {} /\ order' = order
           /\ dec' = [dec EXCEPT ![d].at = "done", ![d].entry = CHOOSE x \in Cached(f) : TRUE]
  <2> DEFINE e == CHOOSE x \in Cached(f) : TRUE
             me == [dec[d] EXCEPT !.at = "done", !.entry = e]
  <2>1. e \in Known(rd, dec, order)
    BY <1>2, <1>5 DEF Cached
  <2> HIDE DEF e
  <2>2. dec' = [dec EXCEPT ![d] = me] /\ me.tail = None /\ me.at = "done" /\ me.entry = e
    BY <1>1, <1>5 DEF DecoderFields, e
  <2> HIDE DEF me
  <2>3. \A r \in Readers : rd'[r].lease \in Known(rd, dec, order)
    BY <1>2, <1>5
  <2>4. me.tail \in Known(rd, dec, order) /\ me.entry \in Known(rd, dec, order)
        /\ me.at \notin {"decode", "shrunk"} /\ d[2] # "option" /\ dec[d].at # "none"
    BY <1>1, <1>2, <1>5, <2>1, <2>2
  <2>5. dec' = [dec EXCEPT ![d] = me] /\ ToSet(order') \subseteq ToSet(order)
    BY <1>5, <2>2
  <2> QED
    BY <1>1, <2>3, <2>4, <2>5, DecoderWithin
<1>6. CASE /\ d[2] = "load" /\ rd' = rd /\ order' = Append(order, d[1])
           /\ dec' = [dec EXCEPT ![d].at = "done", ![d].entry = d[1]]
  <2> DEFINE K == Known(rd, dec, order) \cup {d[1]}
  <2>1. /\ dec'[d].at = "done" /\ dec'[d].tail = None /\ dec'[d].entry = d[1]
        /\ \A e \in Decoders \ {d} : dec'[e] = dec[e]
    BY <1>1, <1>6 DEF DecoderFields
  <2>2. ToSet(order') \subseteq K /\ \A r \in Readers : rd'[r].lease \in K
    BY <1>1, <1>2, <1>6, AppendKeeps
  <2>3. \A e \in Decoders : dec'[e].tail \in K
    BY <1>2, <2>1
  <2>4. ASSUME NEW l \in Readers PROVE dec'[<<l, "load">>].entry \in K
    <3>1. CASE <<l, "load">> = d
      BY <3>1, <2>1
    <3>2. CASE <<l, "load">> # d
      BY <3>2, <2>1, <1>2, DecodersAre
    <3> QED
      BY <3>1, <3>2
  <2> HIDE DEF K
  <2>5. ReferredTo(rd', dec', order') \subseteq K \ {None}
    BY <2>2, <2>3, <2>4, ReferredAmong
  <2>6. \A e \in ReferredTo(rd', dec', order') : e \in ReferredTo(rd, dec, order) \/ (d[2] = "load" /\ e = d[1])
    BY <1>6, <2>5 DEF K, Known
  <2>7. dec[d].at = "shrunk" /\ dec'[d].at = "done" /\ \A e \in Decoders \ {d} : dec'[e] = dec[e]
    BY <1>1, <2>1
  <2> QED
    BY <2>6, <2>7, KeptWithin
<1> QED
  BY <1>3, <1>4, <1>5, <1>6 DEF Retain

LEMMA NextWithin ==
    ASSUME Inv, Inv', BudgetKept, [Next]_vars
    PROVE  BudgetKept'
<1>1. CASE UNCHANGED vars
  <2>1. rd' = rd /\ dec' = dec /\ order' = order
    BY <1>1 DEF vars
  <2> QED
    BY <2>1, StillWithin
<1>2. CASE \E r \in Readers : Call(r)
  BY <1>2, CallWithin
<1>3. CASE \E r \in Readers : CallOptioned(r)
  BY <1>3, CallOptionedWithin
<1>4. CASE \E r \in Readers : DropReader(r)
  BY <1>4, DropReaderWithin
<1>5. CASE \E r \in Readers : Lookup(r)
  BY <1>5, LookupWithin
<1>6. CASE \E r \in Readers : Pending(r)
  BY <1>6, PendingWithin
<1>7. CASE \E r \in Readers : BeginLoad(r)
  BY <1>7, BeginLoadWithin
<1>8. CASE \E r \in Readers : TakeResult(r)
  BY <1>8, TakeResultWithin
<1>9. CASE \E d \in Decoders : ReadTail(d)
  BY <1>9, ReadTailWithin
<1>10. CASE \E d \in Decoders : AdmitFooter(d)
  BY <1>10, AdmitFooterWithin
<1>11. CASE \E d \in Decoders : Decode(d)
  BY <1>11, DecodeWithin
<1>12. CASE \E d \in Decoders : Retain(d)
  BY <1>12, RetainWithin
<1>13. CASE Pressure
  BY <1>13, PressureWithin
<1> QED
  BY <1>1, <1>2, <1>3, <1>4, <1>5, <1>6, <1>7, <1>8, <1>9, <1>10, <1>11, <1>12, <1>13, FooterAssumption
  DEF Next, Progress, Done, RetainFooter

LEMMA InitWithin == Init => BudgetKept
<1> SUFFICES ASSUME Init PROVE BudgetKept
  OBVIOUS
<1>1. order = <<>> /\ (\A r \in Readers : rd[r].lease = None) /\ \A d \in Decoders : dec[d] = Idle
  BY DEF Init
<1>2. \A r \in Readers : dec[<<r, "load">>] = Idle /\ dec[<<r, "option">>] = Idle
  BY <1>1, DecodersAre
<1>3. InFlight(dec) = {} /\ BeingDecoded(dec) = {} /\ OptionsDone(dec) = {}
  BY <1>1, <1>2, IdleIs DEF InFlight, BeingDecoded, OptionsDone
<1>4. ReferredTo(rd, dec, order) \subseteq {None} \ {None}
  BY <1>1, <1>2, IdleIs, EmptyCache, ReferredAmong
<1>5. HeldBy(rd, dec, order) = {}
  BY <1>3, <1>4 DEF HeldBy
<1>6. Used = 0
  BY <1>5, UsedAre, FS_EmptySet
<1> QED
  BY <1>6, SizesAre DEF BudgetKept

(* However the readers, loads and option calls interleave, and whatever    *)
(* the sizes, the keys, the footers being decoded and every footer still   *)
(* referred to fit the budget together (try_reserve).                      *)
THEOREM WithinBudget == Spec => []BudgetKept
<1>1. Inv /\ Inv' /\ BudgetKept /\ [Next]_vars => BudgetKept'
  BY NextWithin
<1> QED
  BY <1>1, InvHolds, InitWithin, PTL DEF Spec
===============================================================================
