-------------------------- MODULE ScanPlanningProofs --------------------------
(***************************************************************************)
(* Proofs about ScanPlanning, for any readers, tables, filters and limits. *)
(***************************************************************************)
EXTENDS ScanPlanning, FiniteSetTheorems, TLAPS

-----------------------------------------------------------------------------
(* Induction over natural numbers, by a least counterexample.              *)

Less == {pair \in Nat \X Nat : pair[1] < pair[2]}

(* A set of natural numbers has a least element.                           *)
LEMMA LeastNumber ==
    ASSUME NEW T \in SUBSET Nat, T # {}
    PROVE  \E n \in T : \A m \in T : n <= m
<1>1. OpToRel(<, Nat) = Less
  BY Zenon DEF OpToRel, Less
<1>2. IsWellFoundedOn(Less, Nat)
  BY <1>1, NatLessThanWellFounded, Zenon
<1>3. PICK n \in T : \A m \in T : ~(<<m, n>> \in Less)
  BY <1>2, WFMin
<1>4. \A m, k \in Nat : m < k => <<m, k>> \in Less
  BY DEF Less
<1>5. ASSUME NEW m \in T PROVE n <= m
  <2>1. ~(m < n)
    BY <1>3, <1>4, Zenon
  <2> QED
    BY <2>1
<1> QED
  BY <1>5

(* What holds of 0 and of each number up to n that follows one it holds of *)
(* holds of all of them.                                                   *)
LEMMA UpTo ==
    ASSUME NEW n \in Nat, NEW S, 0 \in S, \A i \in 1..n : i - 1 \in S => i \in S
    PROVE  0..n \subseteq S
<1> DEFINE T == 0..n \ S
<1> SUFFICES ASSUME T # {} PROVE FALSE
  OBVIOUS
<1>1. T \in SUBSET Nat
  OBVIOUS
<1>2. PICK m \in T : \A k \in T : m <= k
  BY <1>1, LeastNumber
<1>3. m \in 1..n /\ m - 1 \in 0..n /\ m - 1 \notin T
  BY <1>2
<1> QED
  BY <1>2, <1>3

-----------------------------------------------------------------------------
(* What is left of a sequence                                              *)

(* Sequence r is made of elements of s in their order.                     *)
Picks(r, s) ==
    \E h \in [1..Len(r) -> 1..Len(s)] :
        /\ \A i, j \in 1..Len(r) : i < j => h[i] < h[j]
        /\ \A i \in 1..Len(r) : r[i] = s[h[i]]

TakenNext(s, S, x, i) == IF s[i] \in S THEN Append(x, s[i]) ELSE x

Takes(g, s, S, n) ==
    g = [i \in 0..n |-> IF i = 0 THEN <<>> ELSE TakenNext(s, S, g[i - 1], i)]

LEMMA NothingInEmpty == ToSet(<<>>) = {}
<1>1. DOMAIN <<>> = {}
  OBVIOUS
<1> QED
  BY <1>1 DEF ToSet

(* The recursive function in Among is well defined.                        *)
LEMMA AmongEquation ==
    ASSUME NEW n \in Nat, NEW s, NEW S
    PROVE  \E g : Takes(g, s, S, n)
<1> DEFINE next(x, i) == TakenNext(s, S, x, i)
           Solves(g, k) == g = [i \in 0..k |-> IF i = 0 THEN <<>> ELSE next(g[i - 1], i)]
           Solved == {k \in 0..n : \E g : Solves(g, k)}
<1>1. 0 \in Solved
  <2> DEFINE g == [i \in 0..0 |-> <<>>]
  <2> HIDE DEF next
  <2>1. Solves(g, 0)
    OBVIOUS
  <2> HIDE DEF Solves, g
  <2> QED
    BY <2>1
<1>2. ASSUME NEW k \in 1..n, k - 1 \in Solved PROVE k \in Solved
  <2>1. PICK g : Solves(g, k - 1)
    BY <1>2
  <2> DEFINE h == [i \in 0..k |-> IF i < k THEN g[i] ELSE next(g[k - 1], k)]
  <2> HIDE DEF next
  <2>2. ASSUME NEW i \in 0..k
        PROVE  h[i] = IF i = 0 THEN <<>> ELSE next(h[i - 1], i)
    <3>1. CASE i < k
      BY <2>1, <3>1
    <3>2. CASE i = k
      BY <3>2
    <3> QED
      BY <3>1, <3>2
  <2>3. Solves(h, k)
    BY <2>2
  <2> HIDE DEF Solves, h
  <2> QED
    BY <2>3
<1>3. 0..n \subseteq Solved
  <2> HIDE DEF Solved
  <2> QED
    BY <1>1, <1>2, UpTo
<1>4. \E g : Solves(g, n)
  <2> HIDE DEF Solves
  <2> QED
    BY <1>3
<1> QED
  BY <1>4 DEF Takes

(* Among takes the elements that are in S, and leaves their order.         *)
LEMMA AmongPicks ==
    ASSUME NEW X, NEW s \in Seq(X), NEW S
    PROVE  /\ Among(s, S) \in Seq(X)
           /\ ToSet(Among(s, S)) = ToSet(s) \cap S
           /\ Picks(Among(s, S), s)
<1> DEFINE n == Len(s)
           g == CHOOSE f : Takes(f, s, S, n)
<1>1. Among(s, S) = g[n]
  BY DEF Among, Takes, TakenNext
<1>2. n \in Nat /\ DOMAIN s = 1..n /\ \A i \in 1..n : s[i] \in X
  OBVIOUS
<1>3. Takes(g, s, S, n)
  <2>1. \E f : Takes(f, s, S, n)
    BY <1>2, AmongEquation
  <2> QED
    BY <2>1
<1> HIDE DEF g, n
<1>i. \A i \in 0..n : g[i] = IF i = 0 THEN <<>> ELSE TakenNext(s, S, g[i - 1], i)
  BY <1>3 DEF Takes
<1> DEFINE Map(i, h) == /\ h \in [1..Len(g[i]) -> 1..i]
                        /\ \A j, k \in 1..Len(g[i]) : j < k => h[j] < h[k]
                        /\ \A j \in 1..Len(g[i]) : g[i][j] = s[h[j]]
           Good(i) == /\ g[i] \in Seq(X)
                      /\ \A j \in 1..i : s[j] \in S => \E k \in 1..Len(g[i]) : g[i][k] = s[j]
                      /\ \A k \in 1..Len(g[i]) : g[i][k] \in S
                      /\ \E h : Map(i, h)
           Ok == {i \in 0..n : Good(i)}
<1>4. Good(0)
  <2>1. g[0] = <<>>
    BY <1>2, <1>i
  <2>2. Map(0, <<>>)
    BY <2>1
  <2> HIDE DEF Map
  <2>3. <<>> \in Seq(X) /\ Len(<<>>) = 0
    OBVIOUS
  <2> QED
    BY <2>1, <2>2, <2>3
<1>5. ASSUME NEW i \in 1..n, Good(i - 1) PROVE Good(i)
  <2> DEFINE old == g[i - 1]
  <2>1. g[i] = IF s[i] \in S THEN Append(old, s[i]) ELSE old
    BY <1>2, <1>i DEF TakenNext
  <2>2. PICK f : Map(i - 1, f)
    BY <1>5
  <2>o. old \in Seq(X) /\ Len(old) \in Nat
    BY <1>5
  <2>3. CASE s[i] \notin S
    <3>1. g[i] = old
      BY <2>1, <2>3
    <3>2. Map(i, f)
      BY <2>2, <3>1
    <3>3. \A j \in 1..i : s[j] \in S => j \in 1..(i - 1)
      BY <2>3
    <3> HIDE DEF Map
    <3> QED
      BY <1>5, <3>1, <3>2, <3>3
  <2>4. CASE s[i] \in S
    <3>1. /\ g[i] \in Seq(X) /\ Len(g[i]) = Len(old) + 1 /\ g[i][Len(old) + 1] = s[i]
          /\ \A k \in 1..Len(old) : g[i][k] = old[k]
      BY <2>1, <2>4, <2>o, <1>2
    <3> DEFINE m == Len(old)
               h == [k \in 1..(m + 1) |-> IF k = m + 1 THEN i ELSE f[k]]
    <3>2. Map(i, h)
      <4>1. \A k \in 1..m : f[k] \in 1..(i - 1)
        BY <2>2
      <4>2. h \in [1..Len(g[i]) -> 1..i]
        BY <3>1, <4>1
      <4>3. ASSUME NEW j \in 1..(m + 1), NEW k \in 1..(m + 1), j < k PROVE h[j] < h[k]
        <5>1. CASE k = m + 1
          BY <2>o, <4>1, <4>3, <5>1
        <5>2. CASE k # m + 1
          <6>1. j \in 1..m /\ k \in 1..m
            BY <2>o, <4>3, <5>2
          <6>2. f[j] < f[k]
            BY <2>2, <4>3, <6>1
          <6> QED
            BY <2>o, <6>1, <6>2
        <5> QED
          BY <5>1, <5>2
      <4>4. ASSUME NEW j \in 1..(m + 1) PROVE g[i][j] = s[h[j]]
        <5>1. CASE j = m + 1
          BY <3>1, <5>1
        <5>2. CASE j \in 1..m
          BY <2>o, <2>2, <3>1, <5>2
        <5> QED
          BY <2>o, <5>1, <5>2
      <4> HIDE DEF h
      <4> QED
        BY <3>1, <4>2, <4>3, <4>4
    <3>3. ASSUME NEW j \in 1..i, s[j] \in S PROVE \E k \in 1..Len(g[i]) : g[i][k] = s[j]
      <4>1. CASE j = i
        <5>1. m + 1 \in 1..Len(g[i])
          BY <2>o, <3>1
        <5> QED
          BY <3>1, <4>1, <5>1
      <4>2. CASE j \in 1..(i - 1)
        <5>1. PICK k \in 1..m : old[k] = s[j]
          BY <1>5, <3>3, <4>2
        <5>2. k \in 1..Len(g[i]) /\ g[i][k] = s[j]
          BY <2>o, <3>1, <5>1
        <5> QED
          BY <5>2
      <4> QED
        BY <4>1, <4>2
    <3>4. ASSUME NEW k \in 1..Len(g[i]) PROVE g[i][k] \in S
      <4>1. CASE k = m + 1
        BY <2>4, <3>1, <4>1
      <4>2. CASE k \in 1..m
        BY <1>5, <3>1, <4>2
      <4> QED
        BY <2>o, <3>1, <4>1, <4>2
    <3> HIDE DEF Map, h, m
    <3>5. \E w : Map(i, w)
      BY <3>2
    <3> QED
      BY <3>1, <3>3, <3>4, <3>5
  <2> QED
    BY <2>3, <2>4
<1>6. 0..n \subseteq Ok
  <2> HIDE DEF Good
  <2>1. 0 \in Ok /\ \A i \in 1..n : i - 1 \in Ok => i \in Ok
    BY <1>2, <1>4, <1>5
  <2> HIDE DEF Ok
  <2> QED
    BY <2>1, <1>2, UpTo
<1>7. Good(n)
  BY <1>2, <1>6
<1>8. PICK h : Map(n, h)
  BY <1>7
<1>9. Picks(g[n], s)
  BY <1>8 DEF Picks, n
<1>10. ToSet(g[n]) = ToSet(s) \cap S
  <2>1. DOMAIN g[n] = 1..Len(g[n])
    BY <1>7
  <2>2. \A k \in 1..Len(g[n]) : g[n][k] \in S /\ h[k] \in 1..n /\ g[n][k] = s[h[k]]
    BY <1>7, <1>8
  <2> HIDE DEF Map
  <2>3. ToSet(g[n]) \subseteq ToSet(s) \cap S
    BY <1>2, <2>1, <2>2 DEF ToSet
  <2>4. ToSet(s) \cap S \subseteq ToSet(g[n])
    BY <1>2, <1>7, <2>1 DEF ToSet
  <2> QED
    BY <2>3, <2>4
<1> QED
  BY <1>1, <1>7, <1>9, <1>10

Distinct(s) == \A i, j \in 1..Len(s) : s[i] = s[j] => i = j
Increasing(s) == \A i, j \in 1..Len(s) : i < j => s[i] < s[j]

LEMMA PicksKeep ==
    ASSUME NEW X, NEW s \in Seq(X), NEW r \in Seq(X), Picks(r, s)
    PROVE  /\ Distinct(s) => Distinct(r)
           /\ Increasing(s) => Increasing(r)
<1>1. PICK h \in [1..Len(r) -> 1..Len(s)] :
          /\ \A i, j \in 1..Len(r) : i < j => h[i] < h[j]
          /\ \A i \in 1..Len(r) : r[i] = s[h[i]]
  BY DEF Picks
<1>2. Increasing(s) => Increasing(r)
  BY <1>1 DEF Increasing
<1>3. ASSUME Distinct(s), NEW i \in 1..Len(r), NEW j \in 1..Len(r), r[i] = r[j] PROVE i = j
  <2>1. h[i] = h[j]
    BY <1>1, <1>3 DEF Distinct
  <2>2. h[i] \in Int /\ h[j] \in Int /\ i \in Int /\ j \in Int
    BY <1>1
  <2> QED
    BY <1>1, <2>1, <2>2
<1> QED
  BY <1>2, <1>3 DEF Distinct

LEMMA IncreasingDistinct ==
    ASSUME NEW s \in Seq(Nat), Increasing(s)
    PROVE  Distinct(s)
<1>1. \A i \in 1..Len(s) : s[i] \in Nat
  OBVIOUS
<1> QED
  BY <1>1 DEF Increasing, Distinct

(* Elements that are not repeated are counted by the length.               *)
LEMMA DistinctCounted ==
    ASSUME NEW X, NEW s \in Seq(X), Distinct(s)
    PROVE  IsFiniteSet(ToSet(s)) /\ Len(s) = Cardinality(ToSet(s))
<1>1. Len(s) \in Nat /\ DOMAIN s = 1..Len(s) /\ s \in [1..Len(s) -> X]
  OBVIOUS
<1>2. s \in [1..Len(s) -> ToSet(s)] /\ \A x \in ToSet(s) : \E i \in 1..Len(s) : s[i] = x
  BY <1>1 DEF ToSet
<1>3. s \in Bijection(1..Len(s), ToSet(s))
  BY <1>1, <1>2 DEF Distinct, Bijection, Injection, Surjection, IsInjective
<1>4. ExistsBijection(1..Len(s), ToSet(s))
  BY <1>3 DEF ExistsBijection
<1>5. Cardinality(ToSet(s)) = Len(s)
  BY <1>1, <1>4, FS_CountingElements
<1>6. IsFiniteSet(ToSet(s))
  BY <1>1, <1>4, FS_NatBijection
<1> QED
  BY <1>5, <1>6

-----------------------------------------------------------------------------
(* Ids in their order, page by page                                        *)

(* A finite set of numbers has a greatest element.                         *)
LEMMA GreatestNumber ==
    ASSUME NEW S \in SUBSET Nat, IsFiniteSet(S), S # {}
    PROVE  Max(S) \in S /\ \A x \in S : x <= Max(S)
<1>n. PICK n \in Nat : ExistsBijection(1..n, S)
  BY FS_NatBijection
<1>1. PICK f \in Bijection(1..n, S) : TRUE
  BY <1>n DEF ExistsBijection
<1>2. f \in [1..n -> S] /\ \A x \in S : \E i \in 1..n : f[i] = x
  BY <1>1 DEF Bijection, Injection, Surjection
<1> DEFINE Above(i) == {m \in Nat : \A j \in 1..i : f[j] <= m}
           Bounded == {i \in 0..n : Above(i) # {}}
<1>3. 0 \in Bounded
  <2>1. 0 \in Above(0)
    OBVIOUS
  <2> QED
    BY <2>1
<1>4. ASSUME NEW i \in 1..n, i - 1 \in Bounded PROVE i \in Bounded
  <2>1. PICK m \in Nat : \A j \in 1..(i - 1) : f[j] <= m
    BY <1>4
  <2>2. f[i] \in Nat /\ m \in Nat
    BY <1>2
  <2>3. m + f[i] \in Above(i)
    <3>0. \A j \in 1..n : f[j] \in Nat
      BY <1>2
    <3>1. \A j \in 1..(i - 1) : j \in 1..n /\ f[j] \in Nat /\ f[j] <= m
      BY <2>1, <3>0
    <3>2. \A j \in 1..i : f[j] <= m + f[i]
      BY <2>2, <3>1
    <3> QED
      BY <2>2, <3>2
  <2> QED
    BY <2>3
<1>5. n \in Bounded
  <2>1. 0..n \subseteq Bounded
    <3> HIDE DEF Bounded
    <3> QED
      BY <1>3, <1>4, UpTo
  <2> QED
    BY <2>1
<1> DEFINE Bounds == {m \in Nat : \A x \in S : x <= m}
<1>6. Bounds # {}
  <2>1. PICK m \in Above(n) : TRUE
    BY <1>5
  <2>2. m \in Bounds
    BY <1>2, <2>1
  <2> QED
    BY <2>2
<1>7. PICK b \in Bounds : \A m \in Bounds : b <= m
  <2> HIDE DEF Bounds
  <2>1. Bounds \in SUBSET Nat
    BY DEF Bounds
  <2> QED
    BY <1>6, <2>1, LeastNumber
<1>8. b \in S
  <2> SUFFICES ASSUME b \notin S PROVE FALSE
    OBVIOUS
  <2>1. \A x \in S : x < b
    BY <1>7
  <2>2. b > 0
    <3>1. PICK x \in S : TRUE
      OBVIOUS
    <3> QED
      BY <2>1, <3>1
  <2>3. b - 1 \in Bounds
    BY <1>7, <2>1, <2>2
  <2> QED
    BY <1>7, <2>3
<1>9. \E y \in S : \A x \in S : y >= x
  BY <1>7, <1>8
<1>10. Max(S) \in S /\ \A x \in S : Max(S) >= x
  BY <1>9 DEF Max
<1> QED
  BY <1>10

LEMMA SortedIs ==
    ASSUME NEW S \in SUBSET (Nat \ {0}), IsFiniteSet(S)
    PROVE  Sorted(S) \in Seq(Nat) /\ ToSet(Sorted(S)) = S /\ Increasing(Sorted(S))
<1> DEFINE n == Max(S \cup {0})
           all == [i \in 1..n |-> i]
<1>1. n \in Nat /\ \A x \in S : x <= n
  <2>1. IsFiniteSet(S \cup {0}) /\ S \cup {0} \in SUBSET Nat /\ S \cup {0} # {}
    BY FS_AddElement
  <2> QED
    BY <2>1, GreatestNumber
<1> HIDE DEF n
<1>2. all \in Seq(Nat) /\ Len(all) = n
  BY <1>1
<1>3. Increasing(all) /\ DOMAIN all = 1..n
  BY <1>1, <1>2 DEF Increasing
<1>4. ToSet(all) = 1..n
  BY <1>3 DEF ToSet
<1>5. S \subseteq 1..n
  BY <1>1
<1> HIDE DEF all
<1>6. /\ Among(all, S) \in Seq(Nat) /\ ToSet(Among(all, S)) = ToSet(all) \cap S /\ Picks(Among(all, S), all)
  BY <1>2, AmongPicks
<1>7. Increasing(Among(all, S))
  BY <1>2, <1>3, <1>6, PicksKeep
<1>8. Sorted(S) = Among(all, S)
  BY DEF Sorted, all, n
<1> QED
  BY <1>4, <1>5, <1>6, <1>7, <1>8

(* A page has the next ids, and all that are left unless it is full.       *)
LEMMA PageIs ==
    ASSUME NEW S \in SUBSET (Nat \ {0}), IsFiniteSet(S), NEW file \in Nat,
           NEW ids, ids = Page(S, file)
    PROVE  /\ ids \in Seq(Nat) /\ Increasing(ids) /\ Len(ids) <= BatchLimit
           /\ ToSet(ids) \subseteq {f \in S : f > file}
           /\ Len(ids) < BatchLimit => ToSet(ids) = {f \in S : f > file}
           /\ ids # <<>> => /\ ids[Len(ids)] \in Nat /\ ids[Len(ids)] > file
                            /\ ToSet(ids) = {f \in S : f > file /\ f <= ids[Len(ids)]}
<1> DEFINE after == {f \in S : f > file}
           left == Sorted(after)
           n == Len(left)
           k == Min({BatchLimit, n})
<1>1. after \in SUBSET (Nat \ {0}) /\ IsFiniteSet(after)
  BY FS_Subset
<1>3. ids = SubSeq(left, 1, k)
  BY DEF Page, AfterCursor
<1> HIDE DEF after, k
<1>2. left \in Seq(Nat) /\ ToSet(left) = after /\ Increasing(left) /\ n \in Nat
  BY <1>1, SortedIs
<1> HIDE DEF left
<1>4. k \in Nat /\ k <= n /\ k <= BatchLimit /\ (k < BatchLimit => k = n)
  <2>1. BatchLimit \in Nat
    BY ListingAssumption
  <2> DEFINE T == {BatchLimit, n}
  <2>2. \E x \in T : \A y \in T : x =< y
    BY <1>2, <2>1
  <2> HIDE DEF T
  <2>3. Min(T) \in T /\ \A y \in T : Min(T) =< y
    BY <2>2 DEF Min
  <2> QED
    BY <1>2, <2>1, <2>3 DEF T, k
<1>5. ids \in Seq(Nat) /\ Len(ids) = k /\ \A i \in 1..k : ids[i] = left[i]
  BY <1>2, <1>3, <1>4
<1>6. Increasing(ids)
  <2> SUFFICES ASSUME NEW i \in 1..k, NEW j \in 1..k, i < j PROVE ids[i] < ids[j]
    BY <1>5 DEF Increasing
  <2>1. i \in 1..n /\ j \in 1..n
    BY <1>2, <1>4
  <2>2. left[i] < left[j]
    BY <1>2, <2>1 DEF Increasing
  <2> QED
    BY <1>5, <2>2
<1>7. DOMAIN ids = 1..k /\ DOMAIN left = 1..n
  BY <1>2, <1>5
<1>i. \A x : (x \in ToSet(ids) <=> \E i \in 1..k : x = ids[i]) /\ (x \in after <=> \E i \in 1..n : x = left[i])
  BY <1>2, <1>7 DEF ToSet
<1> HIDE DEF n
<1>8. ToSet(ids) \subseteq after
  <2> SUFFICES ASSUME NEW i \in 1..k PROVE ids[i] \in after
    BY <1>i
  <2>1. i \in 1..n
    BY <1>2, <1>4
  <2> QED
    BY <2>1, <1>5, <1>i
<1>9. k < BatchLimit => ToSet(ids) = after
  <2> SUFFICES ASSUME k = n PROVE after \subseteq ToSet(ids)
    BY <1>4, <1>8
  <2> QED
    BY <1>5, <1>i
<1>10. ASSUME ids # <<>>
       PROVE  /\ ids[Len(ids)] \in Nat /\ ids[Len(ids)] > file
              /\ ToSet(ids) = {f \in S : f > file /\ f <= ids[Len(ids)]}
  <2>0. k # 0
    BY <1>10, <1>5
  <2>a. k \in 1..k /\ k \in 1..n
    <3> HIDE DEF n
    <3> QED
      BY <2>0, <1>2, <1>4
  <2>1. k \in 1..k /\ k \in 1..n /\ ids[k] = left[k] /\ ids[k] \in ToSet(ids)
    BY <2>a, <1>5, <1>7 DEF ToSet
  <2>2. ids[k] \in Nat /\ ids[k] > file
    BY <2>1, <1>8 DEF after
  <2>3. ASSUME NEW x \in ToSet(ids) PROVE x \in S /\ x > file /\ x <= ids[k]
    <3>1. PICK i \in 1..k : ids[i] = x
      BY <1>7 DEF ToSet
    <3>2. ids[i] \in Nat /\ (i < k => ids[i] < ids[k])
      BY <1>5, <1>6, <2>1 DEF Increasing
    <3>3. ids[i] <= ids[k]
      BY <2>2, <3>2, <1>4
    <3> QED
      BY <1>8, <3>1, <3>3 DEF after
  <2>4. ASSUME NEW x \in S, x > file, x <= ids[k] PROVE x \in ToSet(ids)
    <3>1. PICK i \in 1..n : left[i] = x
      BY <1>2, <1>7, <2>4 DEF ToSet, after
    <3>2. k < i => left[k] < left[i]
      BY <1>2, <2>1 DEF Increasing, n
    <3>3. left[i] \in Nat /\ left[k] \in Nat
      BY <1>2, <2>1 DEF n
    <3>4. i <= k
      BY <1>4, <2>1, <2>4, <3>1, <3>2, <3>3
    <3>5. i \in 1..k
      BY <1>4, <3>4
    <3> QED
      BY <1>5, <1>7, <3>1, <3>5 DEF ToSet
  <2> QED
    BY <1>5, <2>2, <2>3, <2>4
<1> QED
  BY <1>4, <1>5, <1>6, <1>8, <1>9, <1>10 DEF after

-----------------------------------------------------------------------------
(* The inductive invariant                                                 *)

ScanFields == {"at", "filter", "reading", "cursor", "waits", "pending", "active", "descriptors", "schemas",
               "charged", "groups", "pruned", "objects", "bindings"}

(* What a scan has listed, kept or left out.                               *)
Covered(me) == ToSet(me.groups) \cup me.pruned

AddsOf(t, W) == UNION {t.snapshots[x].adds : x \in W}

(* A set of snapshots that has a snapshot and the parents of its members.  *)
ClosedFrom(t, s, S) ==
    /\ {s} \cap DOMAIN t.snapshots \subseteq S
    /\ \A x \in S : t.snapshots[x].parent \in DOMAIN t.snapshots => t.snapshots[x].parent \in S

(* Where a historical listing is.                                          *)
ListingAt(t, p, cursor) ==
    IF cursor = NoCursor
    THEN [snapshot |-> p.snapshot, before |-> t.snapshots[p.snapshot].sequence, file |-> 0]
    ELSE cursor

(* The files up to the cursor of the snapshot that is being read.          *)
ReadPart(t, at) == {f \in AddsOf(t, {at.snapshot} \cap DOMAIN t.snapshots) : f <= at.file}

(* The snapshots of W have been read to their ends, newest first, and that *)
(* of `at' in part: they are the pinned one and ancestors of it, each with *)
(* files of its own.                                                       *)
HasRead(t, p, at, W, covered) ==
    /\ W \subseteq DOMAIN t.snapshots
    /\ at.file \in Nat /\ at = [snapshot |-> at.snapshot, before |-> at.before, file |-> at.file]
    /\ p.snapshot \in W \cup {at.snapshot}
    /\ \A x \in W : /\ t.snapshots[x].sequence > at.before
                    /\ t.snapshots[x].parent \in W \cup {at.snapshot}
                    /\ \A f \in t.snapshots[x].adds : t.files[f].snapshot = x
    /\ \A f \in ReadPart(t, at) : t.files[f].snapshot = at.snapshot
    /\ \A S \in SUBSET DOMAIN t.snapshots :
          ClosedFrom(t, p.snapshot, S) => (W \cup {at.snapshot}) \cap DOMAIN t.snapshots \subseteq S
    /\ covered = AddsOf(t, W) \cup ReadPart(t, at)

(* What has been listed is what the cursor says.                           *)
UpToCursor(t, p, cursor, covered) ==
    IF p.branch # None
    THEN cursor.file \in Nat /\ covered = {f \in t.live[p.branch] : f <= cursor.file}
    ELSE \E W \in SUBSET DOMAIN t.snapshots : HasRead(t, p, ListingAt(t, p, cursor), W, covered)

Listed(t, p, me) ==
    IF me.reading \/ me.cursor # NoCursor
    THEN UpToCursor(t, p, me.cursor, Covered(me))
    ELSE Covered(me) = FilesOf(t, p)

Descriptor(t, f) == <<t.files[f].uri, <<t.files[f].hash, t.files[f].length>>>>

(* The files of an object agree on what it is.                             *)
Agree(t, F) == \A f, g \in F : t.files[f].uri = t.files[g].uri => Descriptor(t, f) = Descriptor(t, g)

(* No row of a file passes the filter.                                     *)
NoneMatches(t, f, filter) ==
    \A row \in Object(t, f).rows : \E conjunct \in filter : ~Holds(Reads(t, f, conjunct.field, row), conjunct)

IsFirst(t, groups, i) ==
    \A j \in 1..Len(groups) : j < i => t.files[groups[j]].uri # t.files[groups[i]].uri

IsChecked(t, me, f) == t.files[f].uri \in me.objects /\ Adapts(t, f)

ListingOK(t, p, me) ==
    /\ Listed(t, p, me)
    /\ me.reading => me.pending = <<>>
    /\ me.waits => me.pending # <<>>
    /\ \A i \in 1..Len(me.groups) :
          IsFirst(t, me.groups, i) => \/ me.groups[i] \in ToSet(me.pending) \cup me.active
                                      \/ IsChecked(t, me, me.groups[i])

AssemblingOK(t, p, me) ==
    /\ Covered(me) = FilesOf(t, p)
    /\ \A f \in ToSet(me.groups) : t.files[f].uri \in me.objects /\ (Adapts(t, f) \/ f \in ToSet(me.bindings))
    /\ (me.waits \/ me.at = "binding") => me.bindings # <<>>
    /\ me.at = "binding" => ~me.waits

ShapeOK(me) ==
    /\ DOMAIN me = ScanFields
    /\ me.at \in {"idle", "listing", "assembling", "binding", "planned", "failed", "gone"}
    /\ me.groups \in Seq(Nat) /\ me.pending \in Seq(Nat) /\ me.bindings \in Seq(Nat)
    /\ me.waits \in BOOLEAN /\ me.reading \in BOOLEAN

ScanOK(t, p, me) ==
    /\ ShapeOK(me)
    /\ FilterFits(t, me.filter)
    /\ \A f \in me.pruned : NoneMatches(t, f, me.filter)
    /\ Distinct(me.groups) /\ ToSet(me.groups) \cap me.pruned = {}
    /\ me.at = "idle" => me = NewScan
    /\ me.at \in {"listing", "assembling", "binding"} =>
          p.error = None /\ me.descriptors = {Descriptor(t, f) : f \in Covered(me)}
    /\ Agree(t, Covered(me))
    /\ me.at = "listing" => ListingOK(t, p, me)
    /\ me.at \in {"assembling", "binding"} => AssemblingOK(t, p, me)
    /\ me.at = "planned" => /\ Covered(me) = FilesOf(t, p)
                            /\ \A f \in ToSet(me.groups) : IsChecked(t, me, f)

(* Who waits for a permit waits once, and has something to check.          *)
QueueOK ==
    /\ queue \in Seq(Scans) /\ Distinct(queue)
    /\ \A i \in 1..Len(queue) : scan[queue[i]].waits /\ scan[queue[i]].at \in {"listing", "assembling"}

(* The reader is as it was opened, and every scan is as far as its cursor, *)
(* its objects and its bindings say.                                       *)
IInv ==
    /\ reader \in {OpenReader(r) : r \in DOMAIN Readers}
    /\ DOMAIN scan = Scans
    /\ \A s \in Scans : ScanOK(reader.table, reader.pin, scan[s])
    /\ QueueOK

-----------------------------------------------------------------------------
(* Objects, filters and selections                                         *)

(* Whether an object fits a file depends on its URI and its schema only.   *)
LEMMA AdaptsAlike ==
    ASSUME NEW t, NEW f, NEW g, t.files[f].uri = t.files[g].uri, t.files[f].schema = t.files[g].schema,
           Adapts(t, f)
    PROVE  Adapts(t, g)
<1>1. Object(t, f) = Object(t, g) /\ Recorded(t, f) = Recorded(t, g)
  BY DEF Object, Recorded
<1>2. \A field : IsAbsent(t, f, field) = IsAbsent(t, g, field)
  BY <1>1, Zenon DEF IsAbsent
<1>3. \A field : ColumnsOf(t, f, field) = ColumnsOf(t, g, field)
  BY <1>1, Zenon DEF ColumnsOf
<1>4. \A field : Binds(t, f, field) = Binds(t, g, field)
  BY <1>1, <1>2, <1>3, Zenon DEF Binds
<1> QED
  BY <1>1, <1>4, Zenon DEF Adapts

(* The value a scan reads where a file has the column and a metric of it.  *)
LEMMA MetricDescribes ==
    ASSUME NEW t, MetricsTrue(t), NEW file, file.id \in DOMAIN t.files,
           \A m \in file.metrics : m \in t.metrics /\ m.file = file.id,
           NEW field, ~IsAbsent(t, file.id, field), NEW m \in MetricOf(t, file, field),
           NEW row \in Object(t, file.id).rows, NEW value, value = Reads(t, file.id, field, row)
    PROVE  /\ Describes(m, value) /\ m.low \in Int /\ m.high \in Int
           /\ value = NaN => QuerySchema(t)[m.field].type = "float64"
<1>1. /\ m \in file.metrics /\ m.field = field
      /\ Recorded(t, file.id)[field].type = QuerySchema(t)[field].type
  BY DEF MetricOf
<1>2. m \in t.metrics /\ m.file = file.id /\ m.low \in Int /\ m.high \in Int
  BY <1>1, Zenon DEF MetricsTrue
<1>3. /\ ColumnsOf(t, file.id, field) # {}
      /\ \A i \in ColumnsOf(t, file.id, field) :
            Describes(m, row[i]) /\ (row[i] = NaN => Recorded(t, file.id)[field].type = "float64")
  BY <1>1, <1>2, Zenon DEF MetricsTrue
<1> DEFINE i == CHOOSE j \in ColumnsOf(t, file.id, field) : TRUE
<1>4. i \in ColumnsOf(t, file.id, field)
  BY <1>3
<1>5. value = row[i]
  BY <1>3, Zenon DEF Reads
<1> HIDE DEF i
<1> QED
  BY <1>1, <1>2, <1>3, <1>4, <1>5

(* What its metrics refute, no row of a file makes true.                   *)
LEMMA RefutedFalse ==
    ASSUME NEW t, MetricsTrue(t), NEW file, file.id \in DOMAIN t.files,
           \A m \in file.metrics : m \in t.metrics /\ m.file = file.id,
           NEW filter, FilterFits(t, filter), NEW conjunct \in filter, Refuted(t, file, conjunct),
           NEW row \in Object(t, file.id).rows
    PROVE  ~Holds(Reads(t, file.id, conjunct.field, row), conjunct)
<1> DEFINE field == conjunct.field
           low == Bound(t, file, field, TRUE)
           high == Bound(t, file, field, FALSE)
           value == Reads(t, file.id, field, row)
           default == Default(t, field)
<1>1. conjunct.op \in {"eq", "gt", "null"} /\ conjunct.value \in Int /\ conjunct.value # Null /\ default \in Int
  BY DEF FilterFits, Default
<1>2. /\ conjunct.op = "eq" => (high # Unknown /\ high < conjunct.value) \/ (low # Unknown /\ low > conjunct.value)
      /\ conjunct.op = "gt" => high # Unknown /\ high <= conjunct.value
      /\ conjunct.op = "null" => NullCount(t, file, field) = 0
  <2> HIDE DEF field
  <2>1. Refuted(t, file, conjunct) =
          CASE conjunct.op = "eq" -> (high # Unknown /\ high < conjunct.value)
                                     \/ (low # Unknown /\ low > conjunct.value)
            [] conjunct.op = "gt" -> high # Unknown /\ high <= conjunct.value
            [] conjunct.op = "null" -> NullCount(t, file, field) = 0
    BY Zenon DEF Refuted, field
  <2> HIDE DEF low, high
  <2> QED
    BY <1>1, <2>1
<1> SUFFICES ASSUME Holds(value, conjunct) PROVE FALSE
  OBVIOUS
<1>3. /\ conjunct.op = "eq" => value = conjunct.value
      /\ conjunct.op = "gt" => value # Null /\ value > conjunct.value
      /\ conjunct.op = "null" => value = Null
  <2> HIDE DEF value
  <2> QED
    BY <1>1 DEF Holds
<1>4. CASE IsAbsent(t, file.id, field)
  <2>1. value = default
    BY <1>4, Zenon DEF Reads
  <2>2. /\ low = IF default = Null THEN Unknown ELSE default
        /\ high = IF default = Null THEN Unknown ELSE default
        /\ NullCount(t, file, field) = IF default = Null THEN Unknown ELSE 0
    BY <1>4, Zenon DEF Bound, NullCount
  <2> HIDE DEF value, low, high, default, field
  <2> QED
    BY <1>1, <1>2, <1>3, <2>1, <2>2 DEF Unknown, Null
<1>5. CASE ~IsAbsent(t, file.id, field)
  <2>1. ASSUME NEW m \in MetricOf(t, file, field)
        PROVE  /\ Describes(m, value) /\ m.low \in Int /\ m.high \in Int
               /\ value = NaN => QuerySchema(t)[m.field].type = "float64"
    <3> HIDE DEF field
    <3> QED
      BY <1>5, MetricDescribes
  <2> HIDE DEF low, high
  <2>b. low = Bound(t, file, field, TRUE) /\ high = Bound(t, file, field, FALSE)
    BY DEF low, high
  <2> HIDE DEF field
  <2>c. /\ low # Unknown => \E m \in MetricOf(t, file, field) : NoNaN(t, m) /\ low = m.low
        /\ high # Unknown => \E m \in MetricOf(t, file, field) : NoNaN(t, m) /\ high = m.high
    <3> DEFINE usable == {m \in MetricOf(t, file, field) :
                              NoNaN(t, m) /\ m.low # Unknown /\ m.high # Unknown /\ m.low <= m.high}
               chosen == CHOOSE m \in usable : TRUE
    <3>1. /\ low = IF usable = {} \/ chosen.low = NaN THEN Unknown ELSE chosen.low
          /\ high = IF usable = {} \/ chosen.high = NaN THEN Unknown ELSE chosen.high
      BY <1>5, <2>b DEF Bound
    <3>2. usable # {} => chosen \in usable
      <4> HIDE DEF usable
      <4> QED
        OBVIOUS
    <3> HIDE DEF chosen
    <3>3. \A m \in usable : m \in MetricOf(t, file, field) /\ NoNaN(t, m)
      OBVIOUS
    <3> HIDE DEF usable
    <3> QED
      BY <3>1, <3>2, <3>3
  <2>2. ASSUME high # Unknown PROVE value # Null => value \in Int /\ high \in Int /\ value <= high
    <3> HIDE DEF field, value
    <3>1. PICK m \in MetricOf(t, file, field) : NoNaN(t, m) /\ high = m.high
      BY <2>2, <2>c
    <3> QED
      BY <2>1, <2>2, <3>1 DEF Describes, NoNaN
  <2>3. ASSUME low # Unknown PROVE value # Null => value \in Int /\ low \in Int /\ low <= value
    <3> HIDE DEF field, value
    <3>1. PICK m \in MetricOf(t, file, field) : NoNaN(t, m) /\ low = m.low
      BY <2>3, <2>c
    <3> QED
      BY <2>1, <2>3, <3>1 DEF Describes, NoNaN
  <2>4. NullCount(t, file, field) = 0 => value # Null
    <3> DEFINE found == MetricOf(t, file, field)
    <3>1. NullCount(t, file, field) = IF found = {} THEN Unknown ELSE (CHOOSE x \in found : TRUE).nulls
      BY <1>5, Zenon DEF NullCount
    <3>2. found # {} => (CHOOSE x \in found : TRUE) \in found
      <4> HIDE DEF found
      <4> QED
        OBVIOUS
    <3> HIDE DEF value
    <3>3. \A m \in found : value = Null => m.nulls # 0
      BY <2>1 DEF Describes
    <3> HIDE DEF found, field
    <3> QED
      BY <3>1, <3>2, <3>3 DEF Unknown
  <2> HIDE DEF value, low, high, field
  <2> QED
    BY <1>1, <1>2, <1>3, <2>2, <2>3, <2>4
<1> QED
  BY <1>4, <1>5

(* The files of a batch that are left out have no row to show.             *)
LEMMA RefutedHaveNone ==
    ASSUME NEW t, MetricsTrue(t), NEW filter, FilterFits(t, filter), NEW ids,
           \A i \in DOMAIN ids : ids[i] \in DOMAIN t.files, NEW f \in RefutedFiles(t, ids, filter)
    PROVE  f \in ToSet(ids) /\ NoneMatches(t, f, filter)
<1>1. PICK i \in DOMAIN ids : f = ids[i] /\ ~Keep(t, ReaderFile(t, ids, Fields(filter), i), filter)
  BY Zenon DEF RefutedFiles
<1> DEFINE file == ReaderFile(t, ids, Fields(filter), i)
<1>2. PICK conjunct \in filter : Refuted(t, file, conjunct)
  BY <1>1, Zenon DEF Keep
<1>3. file.id = f /\ f \in DOMAIN t.files
  BY <1>1 DEF ReaderFile
<1>4. \A m \in file.metrics : m \in t.metrics /\ m.file = f
  <2>1. file.metrics = Found(t, ids, Fields(filter), i)
    BY DEF ReaderFile
  <2>2. \A m \in Found(t, ids, Fields(filter), i) : m \in t.metrics /\ m.file = ids[i]
    BY Zenon DEF Found, Place
  <2> HIDE DEF file
  <2> QED
    BY <1>1, <2>1, <2>2
<1> HIDE DEF file
<1>5. \A row \in Object(t, f).rows : ~Holds(Reads(t, f, conjunct.field, row), conjunct)
  BY <1>2, <1>3, <1>4, RefutedFalse
<1> QED
  BY <1>1, <1>5 DEF ToSet, NoneMatches

(* A reader that opens has a branch of the table or none.                  *)
LEMMA OpensBranch ==
    ASSUME NEW r \in DOMAIN Readers, NEW t, NEW p, t = OpenReader(r).table, p = OpenReader(r).pin,
           p.error = None, p.branch # None
    PROVE  p.branch \in DOMAIN t.live
<1> DEFINE h == Readers[r].history
           wanted == Readers[r].wanted
           selection == Readers[r].selection
           found == Resolve(t, selection)
<1>1. p = Open(h, wanted, selection) /\ t = h.generations[SelectMetadata(h, wanted).generation].image
  BY DEF OpenReader
<1>2. \A e : Refused(e).error = e /\ Refused(e).branch = None
  BY DEF Refused
<1>3. p = found
  <2> DEFINE main == Resolve(t, [by |-> "ref", name |-> "main"])
             chosen == SelectMetadata(h, wanted)
  <2>1. \/ \E e : p = Refused(e)
        \/ p = main /\ main.error # None
        \/ p = found
    <3> HIDE DEF h, wanted, selection
    <3> QED
      BY <1>1, Zenon DEF Open
  <2> HIDE DEF main, found
  <2> QED
    BY <1>2, <2>1
<1>4. TableShape(t) /\ selection.by \in {"ref", "id", "sequence"}
  BY ReadersAssumption
<1>5. \A s, b : ChosenIfSound(t, s, b).branch \in {b, None}
  BY DEF ChosenIfSound, Chosen, Refused
<1>6. \A s, b : Chosen(s, b).branch = b
  BY DEF Chosen
<1>7. selection.by = "ref" /\ selection.name \in DOMAIN t.refs /\ t.refs[selection.name].kind = "branch"
      /\ p.branch = selection.name
  <2> HIDE DEF selection
  <2>1. CASE selection.by = "ref"
    <3> DEFINE ref == t.refs[selection.name]
               branch == IF ref.kind = "branch" THEN selection.name ELSE None
    <3>1. found = IF selection.name \notin DOMAIN t.refs THEN Refused("ref not found")
                  ELSE IF ref.snapshot # NoSnapshot THEN ChosenIfSound(t, ref.snapshot, branch)
                  ELSE IF ref.kind = "tag" THEN Refused("corrupt")
                  ELSE Chosen(NoSnapshot, branch)
      BY <2>1 DEF Resolve
    <3> HIDE DEF found, ref
    <3>2. selection.name \in DOMAIN t.refs
      BY <1>2, <1>3, <3>1 DEF None
    <3>3. found.branch \in {branch, None}
      <4>1. \/ \E e : found = Refused(e)
            \/ \E s : found = ChosenIfSound(t, s, branch) \/ found = Chosen(s, branch)
        BY <3>1, Zenon
      <4> HIDE DEF branch
      <4> QED
        BY <1>2, <1>5, <1>6, <4>1
    <3> QED
      BY <1>3, <2>1, <3>2, <3>3 DEF ref
  <2>2. CASE selection.by = "id"
    <3>1. found = ChosenIfSound(t, selection.snapshot, None)
      BY <2>2 DEF Resolve
    <3> HIDE DEF found
    <3> QED
      BY <1>3, <1>5, <3>1
  <2>3. CASE selection.by = "sequence"
    <3>1. (\E e : found = Refused(e)) \/ \E s : found = ChosenIfSound(t, s, None)
      BY <2>3 DEF Resolve
    <3> HIDE DEF found
    <3> QED
      BY <1>2, <1>3, <1>5, <3>1
  <2> QED
    BY <1>4, <2>1, <2>2, <2>3
<1> QED
  BY <1>4, <1>7 DEF TableShape

-----------------------------------------------------------------------------
(* A page continues the listing                                            *)

(* A batch continues a listing that had covered some files.                *)
Continues(t, p, batch, covered) ==
    /\ batch.ids \in Seq(Nat) /\ Distinct(batch.ids)
    /\ \A i \in DOMAIN batch.ids : batch.ids[i] \in DOMAIN t.files
    /\ ToSet(batch.ids) \cap covered = {}
    /\ batch.next # NoCursor => UpToCursor(t, p, batch.next, covered \cup ToSet(batch.ids))
    /\ batch.next = NoCursor => covered \cup ToSet(batch.ids) = FilesOf(t, p)

LEMMA BatchIs ==
    ASSUME NEW t, NEW ids, NEW fields, NEW next, Batch(t, ids, fields, next).error = None
    PROVE  /\ Batch(t, ids, fields, next).ids = ids /\ Batch(t, ids, fields, next).next = next
           /\ \A i \in DOMAIN ids : ids[i] \in DOMAIN t.files
<1>1. BatchError("corrupt").error # None
  BY DEF BatchError, None
<1>2. /\ ~(\E i \in DOMAIN ids : ids[i] \notin DOMAIN t.files \/ ~t.files[ids[i]].sound)
      /\ ~FoundTwice(t, ids, fields)
  BY <1>1, Zenon DEF Batch
<1>3. Batch(t, ids, fields, next) = [error |-> None, ids |-> ids, next |-> next]
  BY <1>2, Zenon DEF Batch
<1> QED
  BY <1>2, <1>3

(* The ids up to one, and those after it.                                  *)
LEMMA UpToAndAfter ==
    ASSUME NEW S \in SUBSET Nat, NEW file \in Nat
    PROVE  /\ \A T : T \subseteq {f \in S : f > file} => T \cap {f \in S : f <= file} = {}
           /\ {f \in S : f <= file} \cup {f \in S : f > file} = S
           /\ \A last \in Nat : last > file =>
                 {f \in S : f <= file} \cup {f \in S : f > file /\ f <= last} = {f \in S : f <= last}
<1>1. \A f \in S : f \in Nat
  OBVIOUS
<1>2. \A f \in S : (f > file) = ~(f <= file)
  BY <1>1
<1>3. \A f \in S, last \in Nat : (last > file /\ f <= file) => f <= last
  BY <1>1
<1> QED
  BY <1>2, <1>3, Zenon

LEMMA BranchContinues ==
    ASSUME NEW t, NEW p, TableShape(t), p.branch # None, p.branch \in DOMAIN t.live,
           NEW cursor, NEW covered, UpToCursor(t, p, cursor, covered),
           NEW fields, NEW batch, batch = BranchPage(t, p, cursor, fields), batch.error = None
    PROVE  Continues(t, p, batch, covered)
<1> DEFINE live == t.live[p.branch]
           ids == Page(live, cursor.file)
           last == [snapshot |-> NoSnapshot, before |-> 0, file |-> ids[Len(ids)]]
           next == IF ids = <<>> THEN NoCursor ELSE last
<1>1. live \in SUBSET (Nat \ {0}) /\ IsFiniteSet(live)
  BY DEF TableShape
<1>2. cursor.file \in Nat /\ covered = {f \in live : f <= cursor.file}
  BY Zenon DEF UpToCursor
<1>3. batch = Batch(t, ids, fields, next)
  BY DEF BranchPage
<1>p. ids = Page(live, cursor.file)
  OBVIOUS
<1>q. FilesOf(t, p) = live
  BY DEF FilesOf
<1>r. \A next1, all : UpToCursor(t, p, next1, all)
          <=> next1.file \in Nat /\ all = {f \in live : f <= next1.file}
  BY Zenon DEF UpToCursor
<1> HIDE DEF live, ids
<1>4. /\ batch.ids = ids /\ batch.next = next
      /\ \A i \in DOMAIN ids : ids[i] \in DOMAIN t.files
  <2> HIDE DEF next
  <2> QED
    BY <1>3, BatchIs
<1>5. /\ ids \in Seq(Nat) /\ Increasing(ids) /\ Len(ids) <= BatchLimit
      /\ ToSet(ids) \subseteq {f \in live : f > cursor.file}
      /\ Len(ids) < BatchLimit => ToSet(ids) = {f \in live : f > cursor.file}
      /\ ids # <<>> => /\ ids[Len(ids)] \in Nat /\ ids[Len(ids)] > cursor.file
                       /\ ToSet(ids) = {f \in live : f > cursor.file /\ f <= ids[Len(ids)]}
  BY <1>1, <1>2, <1>p, PageIs
<1>6. Distinct(ids)
  BY <1>5, IncreasingDistinct
<1>s. live \in SUBSET Nat
  BY <1>1
<1>7. ToSet(ids) \cap covered = {}
  BY <1>2, <1>5, <1>s, UpToAndAfter, Zenon
<1>8. ASSUME ids # <<>> PROVE next # NoCursor /\ UpToCursor(t, p, next, covered \cup ToSet(ids))
  <2>1. next.file = ids[Len(ids)] /\ next.snapshot # NoCursor.snapshot
    BY <1>8 DEF NoCursor, NoSnapshot
  <2>2. covered \cup ToSet(ids) = {f \in live : f <= ids[Len(ids)]}
    <3> DEFINE end == ids[Len(ids)]
    <3>1. end \in Nat /\ end > cursor.file /\ ToSet(ids) = {f \in live : f > cursor.file /\ f <= end}
      BY <1>5, <1>8
    <3> HIDE DEF end
    <3>2. {f \in live : f <= cursor.file} \cup {f \in live : f > cursor.file /\ f <= end} = {f \in live : f <= end}
      BY <1>2, <1>s, <3>1, UpToAndAfter
    <3>3. covered \cup ToSet(ids) = {f \in live : f <= end}
      BY <1>2, <3>1, <3>2
    <3> QED
      BY <3>3 DEF end
  <2> QED
    BY <1>5, <1>8, <1>r, <2>1, <2>2
<1>9. ASSUME ids = <<>> PROVE next = NoCursor /\ covered \cup ToSet(ids) = live
  <2>1. Len(ids) < BatchLimit
    BY <1>9, ListingAssumption
  <2>2. ToSet(ids) = {}
    BY <1>9 DEF ToSet
  <2>3. covered \cup ToSet(ids) = live
    BY <1>2, <1>5, <1>s, <2>1, UpToAndAfter, SMTT(30), SMTT(30)
  <2> QED
    BY <1>9, <2>3
<1> HIDE DEF next
<1> QED
  BY <1>4, <1>5, <1>6, <1>7, <1>8, <1>9, <1>q DEF Continues

(* Once everything that was begun is read, it is the whole ancestry.       *)
LEMMA ReadIsAncestry ==
    ASSUME NEW t, NEW p, NEW at, NEW W, NEW covered, HasRead(t, p, at, W, covered),
           NEW done, done = W \cup {at.snapshot}, at.snapshot \in DOMAIN t.snapshots,
           t.snapshots[at.snapshot].parent \notin DOMAIN t.snapshots
    PROVE  Ancestry(t, p.snapshot) = done
<1> DEFINE all == DOMAIN t.snapshots
<1>1. done \in SUBSET all
  BY DEF HasRead
<1>2. ClosedFrom(t, p.snapshot, done)
  BY DEF HasRead, ClosedFrom
<1>3. \A S \in SUBSET all : ClosedFrom(t, p.snapshot, S) => done \subseteq S
  BY DEF HasRead
<1>4. Ancestry(t, p.snapshot) = {x \in all : \A S \in SUBSET all : ClosedFrom(t, p.snapshot, S) => x \in S}
  BY Zenon DEF Ancestry, ClosedFrom
<1> HIDE DEF all
<1>5. done \subseteq Ancestry(t, p.snapshot)
  BY <1>1, <1>3, <1>4
<1>6. Ancestry(t, p.snapshot) \subseteq done
  BY <1>1, <1>2, <1>4
<1> QED
  BY <1>5, <1>6

(* A page of a snapshot is followed by the rest of the snapshot, by its    *)
(* parent or by nothing.                                                   *)
PageFollows(t, at, fields, batch) ==
    LET s == t.snapshots[at.snapshot]
        ids == Page(s.adds \cup s.removes, at.file)
    IN  /\ at.snapshot \in DOMAIN t.snapshots /\ s.sequence = at.before
        /\ ToSet(ids) \cap s.removes = {} /\ ~HasForeignFile(t, ids, at.snapshot)
        /\ \/ /\ Len(ids) = BatchLimit
              /\ batch = Batch(t, ids, fields, [at EXCEPT !.file = ids[Len(ids)]])
           \/ Len(ids) # BatchLimit /\ s.parent = NoSnapshot /\ batch = Batch(t, ids, fields, NoCursor)
           \/ /\ Len(ids) # BatchLimit /\ s.parent \in DOMAIN t.snapshots
              /\ t.snapshots[s.parent].sequence < at.before
              /\ batch = Batch(t, ids, fields,
                               [snapshot |-> s.parent, before |-> t.snapshots[s.parent].sequence, file |-> 0])

LEMMA HistoricalPageIs ==
    ASSUME NEW t, NEW p, NEW cursor, NEW fields,
           NEW batch, batch = HistoricalPage(t, p, cursor, fields), batch.error = None
    PROVE  PageFollows(t, ListingAt(t, p, cursor), fields, batch)
<1> DEFINE at == ListingAt(t, p, cursor)
           s == t.snapshots[at.snapshot]
           ids == Page(s.adds \cup s.removes, at.file)
<1> DEFINE rest == [at EXCEPT !.file = ids[Len(ids)]]
           parent == [snapshot |-> s.parent, before |-> t.snapshots[s.parent].sequence, file |-> 0]
           removed == ToSet(ids) \cap s.removes # {} \/ HasForeignFile(t, ids, at.snapshot)
<1>1. batch =
        IF DescriptorError(t, at.snapshot) # None THEN BatchError(DescriptorError(t, at.snapshot))
        ELSE IF s.sequence # at.before \/ s.version > t.version THEN BatchError("corrupt")
        ELSE IF removed THEN BatchError("corrupt")
        ELSE IF Len(ids) = BatchLimit THEN Batch(t, ids, fields, rest)
        ELSE IF s.parent = NoSnapshot THEN Batch(t, ids, fields, NoCursor)
        ELSE IF DescriptorError(t, s.parent) # None THEN BatchError(DescriptorError(t, s.parent))
        ELSE IF ~OlderParent(t, s.parent, at.before) THEN BatchError("corrupt")
        ELSE Batch(t, ids, fields, parent)
  BY Zenon DEF HistoricalPage, ListingAt
<1>2. \A e : e # None => BatchError(e).error # None
  BY DEF BatchError
<1>3. "corrupt" # None
  BY DEF None
<1>4. \A x : DescriptorError(t, x) = None => x \in DOMAIN t.snapshots
  BY DEF DescriptorError, None
<1>5. OlderParent(t, s.parent, at.before) => t.snapshots[s.parent].sequence < at.before
  BY DEF OlderParent
<1> HIDE DEF rest, parent, removed, at, s, ids
<1>6. /\ at.snapshot \in DOMAIN t.snapshots /\ s.sequence = at.before /\ ~removed
      /\ \/ Len(ids) = BatchLimit /\ batch = Batch(t, ids, fields, rest)
         \/ Len(ids) # BatchLimit /\ s.parent = NoSnapshot /\ batch = Batch(t, ids, fields, NoCursor)
         \/ /\ Len(ids) # BatchLimit /\ s.parent \in DOMAIN t.snapshots
            /\ t.snapshots[s.parent].sequence < at.before
            /\ batch = Batch(t, ids, fields, parent)
  BY <1>1, <1>2, <1>3, <1>4, <1>5
<1> QED
  BY <1>6, Zenon DEF rest, parent, removed, at, s, ids, PageFollows

LEMMA HistoryContinues ==
    ASSUME NEW t, NEW p, TableShape(t), p.branch = None,
           NEW cursor, NEW covered, UpToCursor(t, p, cursor, covered),
           NEW fields, NEW batch, batch = HistoricalPage(t, p, cursor, fields), batch.error = None
    PROVE  Continues(t, p, batch, covered)
<1> DEFINE at == ListingAt(t, p, cursor)
           cur == at.snapshot
           s == t.snapshots[cur]
           ids == Page(s.adds \cup s.removes, at.file)
           known == DOMAIN t.snapshots
           rest == [at EXCEPT !.file = ids[Len(ids)]]
           parent == [snapshot |-> s.parent, before |-> t.snapshots[s.parent].sequence, file |-> 0]
<1>1. PICK W \in SUBSET DOMAIN t.snapshots : HasRead(t, p, at, W, covered)
  BY Zenon DEF UpToCursor
<1>2. /\ cur \in known /\ s.sequence = at.before
      /\ ToSet(ids) \cap s.removes = {} /\ ~HasForeignFile(t, ids, cur)
      /\ \/ Len(ids) = BatchLimit /\ batch = Batch(t, ids, fields, rest)
         \/ Len(ids) # BatchLimit /\ s.parent = NoSnapshot /\ batch = Batch(t, ids, fields, NoCursor)
         \/ /\ Len(ids) # BatchLimit /\ s.parent \in known
            /\ t.snapshots[s.parent].sequence < at.before
            /\ batch = Batch(t, ids, fields, parent)
  <2>1. PageFollows(t, at, fields, batch)
    BY HistoricalPageIs
  <2> HIDE DEF at
  <2> QED
    BY <2>1, Zenon DEF PageFollows
<1>3. at.file \in Nat /\ at = [snapshot |-> cur, before |-> at.before, file |-> at.file]
  BY <1>1 DEF HasRead
<1>4. /\ \A x \in known : /\ x \in Nat \ {0} /\ t.snapshots[x].sequence \in Nat
                          /\ t.snapshots[x].adds \subseteq Nat \ {0}
      /\ s.adds \cup s.removes \in SUBSET (Nat \ {0}) /\ IsFiniteSet(s.adds \cup s.removes)
  BY <1>2 DEF TableShape
<1>p. ids = Page(s.adds \cup s.removes, at.file)
  OBVIOUS
<1>u. \A next, all : next # NoCursor =>
          ((\E V \in SUBSET known : HasRead(t, p, next, V, all)) => UpToCursor(t, p, next, all))
  BY Zenon DEF UpToCursor, ListingAt
<1>a. /\ ReadPart(t, at) = {f \in s.adds : f <= at.file}
      /\ AddsOf(t, W \cup {cur}) = AddsOf(t, W) \cup s.adds
  <2> HIDE DEF at
  <2>1. AddsOf(t, {cur} \cap known) = s.adds
    BY <1>2 DEF AddsOf
  <2> QED
    BY <2>1 DEF AddsOf, ReadPart
<1> HIDE DEF at, ids, known, rest, parent
<1>5. /\ ids \in Seq(Nat) /\ Increasing(ids) /\ Len(ids) <= BatchLimit
      /\ ToSet(ids) \subseteq {f \in s.adds \cup s.removes : f > at.file}
      /\ Len(ids) < BatchLimit => ToSet(ids) = {f \in s.adds \cup s.removes : f > at.file}
      /\ ids # <<>> => /\ ids[Len(ids)] \in Nat /\ ids[Len(ids)] > at.file
                       /\ ToSet(ids) = {f \in s.adds \cup s.removes : f > at.file /\ f <= ids[Len(ids)]}
  <2> DEFINE changes == s.adds \cup s.removes
  <2>1. changes \in SUBSET (Nat \ {0}) /\ IsFiniteSet(changes) /\ ids = Page(changes, at.file)
    BY <1>4, <1>p
  <2> HIDE DEF changes
  <2>2. /\ ids \in Seq(Nat) /\ Increasing(ids) /\ Len(ids) <= BatchLimit
        /\ ToSet(ids) \subseteq {f \in changes : f > at.file}
        /\ Len(ids) < BatchLimit => ToSet(ids) = {f \in changes : f > at.file}
        /\ ids # <<>> => /\ ids[Len(ids)] \in Nat /\ ids[Len(ids)] > at.file
                         /\ ToSet(ids) = {f \in changes : f > at.file /\ f <= ids[Len(ids)]}
    BY <1>3, <2>1, PageIs
  <2> QED
    BY <2>2 DEF changes
<1>6. Distinct(ids)
  BY <1>5, IncreasingDistinct
<1>7. \E next : batch = Batch(t, ids, fields, next)
  BY <1>2
<1>8. /\ batch.ids = ids /\ \A i \in DOMAIN ids : ids[i] \in DOMAIN t.files
      /\ \A next : batch = Batch(t, ids, fields, next) => batch.next = next
  BY <1>7, BatchIs
<1>9. \A f \in ToSet(ids) : f \in s.adds /\ f > at.file /\ t.files[f].snapshot = cur
  <2>1. \A f \in ToSet(ids) : f \in DOMAIN t.files
    BY <1>8 DEF ToSet
  <2>2. \A f \in ToSet(ids) : t.files[f].snapshot = cur
    BY <1>2, <2>1 DEF HasForeignFile
  <2> QED
    BY <1>2, <1>5, <2>2
<1>10. ToSet(ids) \cap covered = {}
  <2> SUFFICES ASSUME NEW f \in ToSet(ids), f \in covered PROVE FALSE
    OBVIOUS
  <2>1. f \in AddsOf(t, W) \/ f \in ReadPart(t, at)
    BY <1>1 DEF HasRead
  <2>2. ASSUME f \in AddsOf(t, W) PROVE FALSE
    <3>1. PICK x \in W : f \in t.snapshots[x].adds
      BY <2>2 DEF AddsOf
    <3>2. t.files[f].snapshot = x /\ t.snapshots[x].sequence > at.before
      BY <1>1, <3>1 DEF HasRead
    <3>3. x = cur /\ s.sequence \in Nat
      BY <1>2, <1>4, <1>9, <3>2
    <3> QED
      BY <1>2, <3>2, <3>3
  <2>3. ASSUME f \in ReadPart(t, at) PROVE FALSE
    <3>1. f <= at.file /\ f > at.file /\ f \in Nat
      BY <1>2, <1>4, <1>9, <1>a, <2>3
    <3> QED
      BY <1>3, <3>1
  <2> QED
    BY <2>1, <2>2, <2>3
<1>11. s.adds \in SUBSET Nat
  BY <1>4
<1>12. CASE Len(ids) = BatchLimit /\ batch = Batch(t, ids, fields, rest)
  <2> DEFINE end == ids[Len(ids)]
  <2>1. ids # <<>>
    BY <1>5, <1>12, ListingAssumption
  <2>2. end \in Nat /\ end > at.file /\ ToSet(ids) = {f \in s.adds \cup s.removes : f > at.file /\ f <= end}
    BY <1>5, <2>1
  <2>3. rest = [snapshot |-> cur, before |-> at.before, file |-> end] /\ rest # NoCursor
    <3>1. rest = [snapshot |-> cur, before |-> at.before, file |-> end]
      BY <1>3 DEF rest
    <3>2. rest.snapshot # NoCursor.snapshot
      BY <3>1, <1>2, <1>4 DEF NoCursor
    <3> QED
      BY <3>1, <3>2
  <2> HIDE DEF end
  <2>4. ToSet(ids) = {f \in s.adds : f > at.file /\ f <= end}
    BY <1>9, <2>2
  <2>5. ReadPart(t, rest) = {f \in s.adds : f <= end}
    <3>1. AddsOf(t, {cur} \cap DOMAIN t.snapshots) = s.adds
      BY <1>2 DEF AddsOf, known
    <3> QED
      BY <2>3, <3>1 DEF ReadPart
  <2>6. ReadPart(t, at) \cup ToSet(ids) = ReadPart(t, rest)
    BY <1>3, <1>11, <1>a, <2>2, <2>4, <2>5, UpToAndAfter
  <2>7. \A f \in ReadPart(t, rest) : t.files[f].snapshot = cur
    BY <1>1, <1>9, <2>6 DEF HasRead
  <2>8. HasRead(t, p, rest, W, covered \cup ToSet(ids))
    BY <1>1, <2>2, <2>3, <2>6, <2>7 DEF HasRead
  <2>9. UpToCursor(t, p, rest, covered \cup ToSet(ids))
    BY <1>u, <2>3, <2>8 DEF known
  <2> QED
    BY <1>5, <1>6, <1>8, <1>10, <1>12, <2>3, <2>9 DEF Continues
<1>13. ASSUME Len(ids) # BatchLimit
       PROVE  /\ covered \cup ToSet(ids) = AddsOf(t, W \cup {cur})
              /\ \A f \in s.adds : t.files[f].snapshot = cur
  <2>1. ToSet(ids) = {f \in s.adds \cup s.removes : f > at.file}
    <3>1. Len(ids) \in Nat /\ BatchLimit \in Nat
      BY <1>5, ListingAssumption
    <3> QED
      BY <1>5, <1>13, <3>1
  <2>2. ToSet(ids) = {f \in s.adds : f > at.file}
    BY <1>9, <2>1
  <2>3. ReadPart(t, at) \cup ToSet(ids) = s.adds
    BY <1>3, <1>11, <1>a, <2>2, UpToAndAfter
  <2>4. \A f \in s.adds : t.files[f].snapshot = cur
    BY <1>1, <1>9, <2>3 DEF HasRead
  <2>5. covered \cup ToSet(ids) = AddsOf(t, W) \cup s.adds
    BY <1>1, <2>3 DEF HasRead
  <2> QED
    BY <1>a, <2>4, <2>5
<1>14. CASE Len(ids) # BatchLimit /\ s.parent = NoSnapshot /\ batch = Batch(t, ids, fields, NoCursor)
  <2>1. s.parent \notin DOMAIN t.snapshots
    BY <1>4, <1>14 DEF known, NoSnapshot
  <2>2. Ancestry(t, p.snapshot) = W \cup {cur}
    BY <1>1, <1>2, <2>1, ReadIsAncestry DEF known
  <2>3. FilesOf(t, p) = AddsOf(t, W \cup {cur})
    BY <2>2, Zenon DEF FilesOf, AddsOf
  <2> QED
    BY <1>5, <1>6, <1>8, <1>10, <1>13, <1>14, <2>3 DEF Continues
<1>15. CASE /\ Len(ids) # BatchLimit /\ s.parent \in known
            /\ t.snapshots[s.parent].sequence < at.before
            /\ batch = Batch(t, ids, fields, parent)
  <2> DEFINE V == W \cup {cur}
  <2>1. /\ parent = [snapshot |-> s.parent, before |-> parent.before, file |-> 0]
        /\ parent.before = t.snapshots[s.parent].sequence /\ parent.snapshot = s.parent /\ parent.file = 0
    BY DEF parent
  <2>2. parent # NoCursor
    <3>1. parent.snapshot # NoCursor.snapshot
      BY <1>4, <1>15, <2>1 DEF NoCursor
    <3> QED
      BY <3>1
  <2>3. ReadPart(t, parent) = {}
    <3>1. AddsOf(t, {s.parent} \cap DOMAIN t.snapshots) \subseteq Nat \ {0}
      BY <1>4, <1>15 DEF AddsOf, known
    <3>2. \A f \in Nat \ {0} : ~(f <= parent.file)
      BY <2>1
    <3> QED
      BY <2>1, <3>1, <3>2, Zenon DEF ReadPart
  <2>4. ASSUME NEW x \in V
        PROVE  /\ t.snapshots[x].sequence > parent.before
               /\ t.snapshots[x].parent \in V \cup {parent.snapshot}
               /\ \A f \in t.snapshots[x].adds : t.files[f].snapshot = x
    <3>1. CASE x = cur
      BY <1>2, <1>4, <1>13, <1>15, <2>1, <3>1
    <3>2. CASE x \in W
      <4>1. /\ t.snapshots[x].sequence > at.before /\ t.snapshots[x].parent \in W \cup {cur}
            /\ \A f \in t.snapshots[x].adds : t.files[f].snapshot = x
        BY <1>1, <3>2 DEF HasRead
      <4>2. t.snapshots[x].sequence \in Nat /\ at.before \in Nat /\ parent.before \in Nat
        BY <1>1, <1>2, <1>4, <1>15, <2>1, <3>2 DEF known
      <4> QED
        BY <1>15, <2>1, <4>1, <4>2
    <3> QED
      BY <3>1, <3>2
  <2>5. ASSUME NEW S \in SUBSET DOMAIN t.snapshots, ClosedFrom(t, p.snapshot, S)
        PROVE  (V \cup {parent.snapshot}) \cap DOMAIN t.snapshots \subseteq S
    <3>1. W \subseteq S /\ cur \in S
      BY <1>1, <1>2, <2>5 DEF HasRead, known
    <3>2. s.parent \in S
      BY <1>15, <2>5, <3>1 DEF ClosedFrom, known
    <3> QED
      BY <2>1, <3>1, <3>2
  <2>6. V \in SUBSET DOMAIN t.snapshots /\ p.snapshot \in V \cup {parent.snapshot}
    BY <1>1, <1>2 DEF HasRead, known
  <2>7. covered \cup ToSet(ids) = AddsOf(t, V) \cup ReadPart(t, parent)
    BY <1>13, <1>15, <2>3
  <2> HIDE DEF V
  <2>8. HasRead(t, p, parent, V, covered \cup ToSet(ids))
    BY <2>1, <2>3, <2>4, <2>5, <2>6, <2>7 DEF HasRead
  <2>9. UpToCursor(t, p, parent, covered \cup ToSet(ids))
    BY <1>u, <2>2, <2>6, <2>8 DEF known
  <2> QED
    BY <1>5, <1>6, <1>8, <1>10, <1>15, <2>2, <2>9 DEF Continues
<1> QED
  BY <1>2, <1>12, <1>14, <1>15

(* What the reader answers continues the listing.                          *)
LEMMA AnswerContinues ==
    ASSUME NEW t, NEW p, TableShape(t), p.branch # None => p.branch \in DOMAIN t.live,
           NEW cursor, NEW covered, UpToCursor(t, p, cursor, covered),
           NEW fields, NEW batch, batch = Enumerate(t, p, cursor, fields), batch.error = None
    PROVE  Continues(t, p, batch, covered)
<1>1. CASE p.branch = None
  BY <1>1, HistoryContinues DEF Enumerate
<1>2. CASE p.branch # None
  BY <1>2, BranchContinues DEF Enumerate
<1> QED
  BY <1>1, <1>2

-----------------------------------------------------------------------------
(* What each step leaves of a scan                                         *)

(* What a reader is known to be.                                           *)
ReaderOK(t, p) ==
    /\ TableShape(t) /\ MetricsTrue(t)
    /\ p.error = None /\ p.branch # None => p.branch \in DOMAIN t.live

LEMMA ReaderIsOK ==
    ASSUME NEW r \in DOMAIN Readers
    PROVE  /\ ReaderOK(OpenReader(r).table, OpenReader(r).pin)
           /\ \A s \in Scans : \A filter \in Filters[s] : FilterFits(OpenReader(r).table, filter)
<1> DEFINE t == OpenReader(r).table
           p == OpenReader(r).pin
<1>1. /\ TableShape(t) /\ MetricsTrue(t)
      /\ \A s \in Scans : \A filter \in Filters[s] : FilterFits(t, filter)
  BY ReadersAssumption, Zenon
<1>2. p.error = None /\ p.branch # None => p.branch \in DOMAIN t.live
  BY OpensBranch
<1> QED
  BY <1>1, <1>2 DEF ReaderOK

(* A listing that begins has covered nothing.                              *)
LEMMA NothingListed ==
    ASSUME NEW t, NEW p, ReaderOK(t, p), p.error = None
    PROVE  UpToCursor(t, p, NoCursor, {})
<1>1. CASE p.branch # None
  <2> DEFINE live == t.live[p.branch]
  <2>1. live \subseteq Nat \ {0}
    BY <1>1 DEF ReaderOK, TableShape
  <2> HIDE DEF live
  <2>2. NoCursor.file = 0 /\ \A f \in Nat \ {0} : ~(f <= 0)
    BY DEF NoCursor
  <2>3. {f \in live : f <= NoCursor.file} = {}
    BY <2>1, <2>2
  <2> QED
    BY <1>1, <2>2, <2>3 DEF UpToCursor, live
<1>2. CASE p.branch = None
  <2> DEFINE at == ListingAt(t, p, NoCursor)
  <2>1. /\ at = [snapshot |-> p.snapshot, before |-> t.snapshots[p.snapshot].sequence, file |-> 0]
        /\ at.snapshot = p.snapshot /\ at.file = 0
    BY DEF ListingAt
  <2> HIDE DEF at
  <2>2. ReadPart(t, at) = {}
    <3>1. AddsOf(t, {p.snapshot} \cap DOMAIN t.snapshots) \subseteq Nat \ {0}
      BY DEF AddsOf, ReaderOK, TableShape
    <3>2. \A f \in Nat \ {0} : ~(f <= at.file)
      BY <2>1
    <3> QED
      BY <2>1, <3>1, <3>2, Zenon DEF ReadPart
  <2>3. AddsOf(t, {}) = {}
    BY DEF AddsOf
  <2>4. HasRead(t, p, at, {}, {})
    BY <2>1, <2>2, <2>3 DEF HasRead, ClosedFrom
  <2> QED
    BY <1>2, <2>4, Zenon DEF UpToCursor, at
<1> QED
  BY <1>1, <1>2

(* A file is checked for its object if no file before it was.              *)
LEMMA FirstsPending ==
    ASSUME NEW groups \in Seq(Nat), NEW kept \in Seq(Nat), NEW all, all = groups \o kept
    PROVE  /\ FirstOfObject(groups, kept) \in Seq(Nat)
           /\ \A i \in 1..Len(all) : (IsFirst(table, all, i) /\ i > Len(groups))
                 => all[i] \in ToSet(FirstOfObject(groups, kept))
<1> DEFINE first == {i \in DOMAIN all : \A j \in DOMAIN all : j < i => UriOf(all[j]) # UriOf(all[i])}
           S == {all[i] : i \in {j \in first : j > Len(groups)}}
<1>1. FirstOfObject(groups, kept) = Among(kept, S)
  BY DEF FirstOfObject
<1>2. all \in Seq(Nat) /\ DOMAIN all = 1..Len(all) /\ Len(all) = Len(groups) + Len(kept)
      /\ \A i \in 1..Len(kept) : all[Len(groups) + i] = kept[i]
  OBVIOUS
<1>3. ASSUME NEW i \in 1..Len(all), IsFirst(table, all, i), i > Len(groups)
      PROVE  all[i] \in S /\ all[i] \in ToSet(kept)
  <2>1. i \in first
    BY <1>2, <1>3 DEF IsFirst, UriOf
  <2>2. all[i] \in S
    BY <1>3, <2>1
  <2>3. i - Len(groups) \in 1..Len(kept) /\ all[i] = kept[i - Len(groups)]
    BY <1>2, <1>3
  <2>4. all[i] \in ToSet(kept)
    BY <2>3 DEF ToSet
  <2> QED
    BY <2>2, <2>4
<1> HIDE DEF S
<1>4. Among(kept, S) \in Seq(Nat) /\ ToSet(Among(kept, S)) = ToSet(kept) \cap S
  BY AmongPicks
<1> QED
  BY <1>1, <1>3, <1>4

Joins(all, r, s) ==
    /\ all \in Seq(Nat) /\ ToSet(all) = ToSet(r) \cup ToSet(s) /\ Len(all) = Len(r) + Len(s)
    /\ \A i \in 1..Len(r) : i \in 1..Len(all) /\ all[i] = r[i]
    /\ (Distinct(r) /\ Distinct(s) /\ ToSet(r) \cap ToSet(s) = {}) => Distinct(all)

LEMMA JoinedSequences ==
    ASSUME NEW r \in Seq(Nat), NEW s \in Seq(Nat)
    PROVE  Joins(r \o s, r, s)
<1> DEFINE all == r \o s
<1>1. all \in Seq(Nat) /\ DOMAIN all = 1..Len(all) /\ Len(all) = Len(r) + Len(s)
      /\ DOMAIN r = 1..Len(r) /\ DOMAIN s = 1..Len(s) /\ Len(r) \in Nat /\ Len(s) \in Nat
  OBVIOUS
<1>2. /\ \A i \in 1..Len(r) : i \in 1..Len(all) /\ all[i] = r[i]
      /\ \A i \in 1..Len(s) : Len(r) + i \in 1..Len(all) /\ all[Len(r) + i] = s[i]
  BY <1>1
<1>3. \A k \in 1..Len(all) : k \in 1..Len(r) \/ k - Len(r) \in 1..Len(s)
  BY <1>1
<1>4. \A k \in 1..Len(all) : \/ k \in 1..Len(r) /\ all[k] = r[k]
                             \/ k - Len(r) \in 1..Len(s) /\ all[k] = s[k - Len(r)]
  <2> TAKE k \in 1..Len(all)
  <2>1. CASE k \in 1..Len(r)
    BY <1>2, <2>1
  <2>2. CASE k - Len(r) \in 1..Len(s)
    <3>1. Len(r) + (k - Len(r)) = k
      BY <1>1
    <3>2. all[Len(r) + (k - Len(r))] = s[k - Len(r)]
      BY <1>2, <2>2
    <3> QED
      BY <2>2, <3>1, <3>2
  <2> QED
    BY <1>3, <2>1, <2>2
<1>5. ToSet(all) = ToSet(r) \cup ToSet(s)
  <2>1. ToSet(all) \subseteq ToSet(r) \cup ToSet(s)
    BY <1>1, <1>4 DEF ToSet
  <2>2. ToSet(r) \cup ToSet(s) \subseteq ToSet(all)
    <3>1. \A i \in 1..Len(r) : r[i] \in ToSet(all)
      BY <1>1, <1>2 DEF ToSet
    <3>2. ASSUME NEW i \in 1..Len(s) PROVE s[i] \in ToSet(all)
      BY <1>1, <1>2 DEF ToSet
    <3> QED
      BY <1>1, <3>1, <3>2 DEF ToSet
  <2> QED
    BY <2>1, <2>2
<1>6. ASSUME Distinct(r), Distinct(s), ToSet(r) \cap ToSet(s) = {},
             NEW i \in 1..Len(all), NEW j \in 1..Len(all), all[i] = all[j]
      PROVE  i = j
  <2>1. \A k \in 1..Len(r) : r[k] \in ToSet(r)
    BY <1>1 DEF ToSet
  <2>2. \A k \in 1..Len(s) : s[k] \in ToSet(s)
    BY <1>1 DEF ToSet
  <2>3. CASE i \in 1..Len(r) /\ all[i] = r[i]
    BY <1>4, <1>6, <2>1, <2>2, <2>3 DEF Distinct
  <2>4. CASE i - Len(r) \in 1..Len(s) /\ all[i] = s[i - Len(r)]
    <3>1. j - Len(r) \in 1..Len(s) /\ all[j] = s[j - Len(r)]
      BY <1>4, <1>6, <2>1, <2>2, <2>4
    <3>2. i - Len(r) = j - Len(r)
      BY <1>6, <2>4, <3>1 DEF Distinct
    <3> QED
      BY <1>1, <3>2
  <2> QED
    BY <1>4, <2>3, <2>4
<1>7. (Distinct(r) /\ Distinct(s) /\ ToSet(r) \cap ToSet(s) = {}) => Distinct(all)
  BY <1>6 DEF Distinct
<1> HIDE DEF all
<1>8. Joins(all, r, s)
  BY <1>1, <1>2, <1>5, <1>7 DEF Joins
<1> QED
  BY <1>8 DEF all

(* The scan `new' is `me' with a batch.                                    *)
TakesBatch(t, p, me, batch, refuted, kept, new) ==
    /\ batch = Enumerate(t, p, me.cursor, Fields(me.filter)) /\ batch.error = None
    /\ refuted = RefutedFiles(t, batch.ids, me.filter)
    /\ kept = Among(batch.ids, ToSet(batch.ids) \ refuted)
    /\ DOMAIN new = ScanFields
    /\ new.at = me.at /\ new.filter = me.filter /\ new.waits = me.waits /\ new.active = me.active
    /\ new.objects = me.objects /\ new.bindings = me.bindings
    /\ new.reading = FALSE /\ new.cursor = batch.next
    /\ new.descriptors = me.descriptors \cup {Descriptor(t, f) : f \in ToSet(batch.ids)}
    /\ ~Conflicting(new.descriptors)
    /\ new.pruned = me.pruned \cup refuted /\ new.groups = me.groups \o kept
    /\ new.pending \in Seq(Nat)
    /\ \A i \in 1..Len(new.groups) : (IsFirst(t, new.groups, i) /\ i > Len(me.groups))
           => new.groups[i] \in ToSet(new.pending)

(* A batch that arrives leaves the scan as far as its new cursor says.     *)
LEMMA BatchTaken ==
    ASSUME NEW t, NEW p, ReaderOK(t, p), NEW me, ScanOK(t, p, me), me.at = "listing", me.reading,
           NEW batch, NEW refuted, NEW kept, NEW new, TakesBatch(t, p, me, batch, refuted, kept, new)
    PROVE  ScanOK(t, p, new)
<1> USE DEF TakesBatch
<1> DEFINE ids == batch.ids
<1>1. /\ ShapeOK(me) /\ FilterFits(t, me.filter) /\ \A f \in me.pruned : NoneMatches(t, f, me.filter)
      /\ Distinct(me.groups) /\ ToSet(me.groups) \cap me.pruned = {}
      /\ p.error = None /\ me.descriptors = {Descriptor(t, f) : f \in Covered(me)}
      /\ ListingOK(t, p, me)
  BY DEF ScanOK
<1>2. Continues(t, p, batch, Covered(me))
  <2>1. UpToCursor(t, p, me.cursor, Covered(me))
    BY <1>1 DEF ListingOK, Listed
  <2> QED
    BY <1>1, <2>1, AnswerContinues DEF ReaderOK
<1>3. /\ ids \in Seq(Nat) /\ Distinct(ids) /\ \A i \in DOMAIN ids : ids[i] \in DOMAIN t.files
      /\ ToSet(ids) \cap Covered(me) = {}
  BY <1>2 DEF Continues
<1>4. \A f \in refuted : f \in ToSet(ids) /\ NoneMatches(t, f, me.filter)
  BY <1>1, <1>3, RefutedHaveNone DEF ReaderOK
<1>5. kept \in Seq(Nat) /\ ToSet(kept) = ToSet(ids) \ refuted /\ Distinct(kept)
  <2>1. kept \in Seq(Nat) /\ ToSet(kept) = ToSet(ids) \cap (ToSet(ids) \ refuted) /\ Picks(kept, ids)
    BY <1>3, AmongPicks
  <2> QED
    BY <1>3, <2>1, PicksKeep, SMTT(30), ZenonT(30)
<1>6. ToSet(me.groups) \cap ToSet(ids) = {} /\ me.pruned \cap ToSet(ids) = {}
  BY <1>3 DEF Covered
<1>g. me.groups \in Seq(Nat)
  BY <1>1 DEF ShapeOK
<1>7. /\ new.groups \in Seq(Nat) /\ ToSet(new.groups) = ToSet(me.groups) \cup ToSet(kept)
      /\ Len(new.groups) = Len(me.groups) + Len(kept) /\ Distinct(new.groups)
      /\ \A i \in 1..Len(me.groups) : i \in 1..Len(new.groups) /\ new.groups[i] = me.groups[i]
  <2>1. ToSet(me.groups) \cap ToSet(kept) = {}
    BY <1>5, <1>6
  <2> QED
    <3>1. Joins(new.groups, me.groups, kept)
      BY <1>5, <1>g, JoinedSequences, SMTT(30), ZenonT(30)
    <3> QED
      BY <1>1, <1>5, <2>1, <3>1 DEF Joins
<1>8. Covered(new) = Covered(me) \cup ToSet(ids)
  BY <1>4, <1>5, <1>7 DEF Covered
<1>9. ToSet(new.groups) \cap new.pruned = {}
  BY <1>1, <1>4, <1>5, <1>6, <1>7
<1>10. \A f \in new.pruned : NoneMatches(t, f, new.filter)
  BY <1>1, <1>4
<1>11. ShapeOK(new)
  BY <1>1, <1>7 DEF ShapeOK
<1>12. new.descriptors = {Descriptor(t, f) : f \in Covered(new)}
  BY <1>1, <1>8
<1>13. Agree(t, Covered(new))
  <2>1. ASSUME NEW f \in Covered(new), NEW g \in Covered(new), t.files[f].uri = t.files[g].uri
        PROVE  Descriptor(t, f) = Descriptor(t, g)
    <3>1. Descriptor(t, f) \in new.descriptors /\ Descriptor(t, g) \in new.descriptors
      BY <1>12
    <3>2. /\ Descriptor(t, f) = <<t.files[f].uri, Descriptor(t, f)[2]>>
          /\ Descriptor(t, g) = <<t.files[g].uri, Descriptor(t, g)[2]>>
          /\ Descriptor(t, f)[1] = t.files[f].uri /\ Descriptor(t, g)[1] = t.files[g].uri
      BY DEF Descriptor
    <3>3. Descriptor(t, f)[2] = Descriptor(t, g)[2]
      BY <2>1, <3>1, <3>2 DEF Conflicting
    <3> QED
      BY <2>1, <3>2, <3>3
  <2> QED
    BY <2>1 DEF Agree
<1>14. ListingOK(t, p, new)
  <2>1. Listed(t, p, new)
    BY <1>2, <1>8 DEF Listed, Continues
  <2>2. me.pending = <<>> /\ ~me.waits
    BY <1>1 DEF ListingOK
  <2>3. ASSUME NEW i \in 1..Len(new.groups), IsFirst(t, new.groups, i)
        PROVE  \/ new.groups[i] \in ToSet(new.pending) \cup new.active
               \/ IsChecked(t, new, new.groups[i])
    <3>1. CASE i > Len(me.groups)
      BY <2>3, <3>1
    <3>2. CASE ~(i > Len(me.groups))
      <4>1. i \in 1..Len(me.groups) /\ new.groups[i] = me.groups[i]
        <5>1. Len(me.groups) \in Nat
          BY <1>g
        <5>2. i \in 1..Len(me.groups)
          BY <3>2, <5>1
        <5> QED
          BY <1>7, <5>2
      <4>2. IsFirst(t, me.groups, i)
        BY <1>7, <2>3, <4>1, ZenonT(30) DEF IsFirst
      <4>3. me.groups[i] \in ToSet(me.pending) \cup me.active \/ IsChecked(t, me, me.groups[i])
        BY <1>1, <4>1, <4>2 DEF ListingOK
      <4>4. ToSet(me.pending) = {}
        BY <2>2, NothingInEmpty
      <4> QED
        BY <4>1, <4>3, <4>4 DEF IsChecked
    <3> QED
      BY <3>1, <3>2
  <2> QED
    BY <2>1, <2>2, <2>3 DEF ListingOK
<1> QED
  BY <1>1, <1>7, <1>9, <1>10, <1>11, <1>12, <1>13, <1>14 DEF ScanOK

(* Once every object is checked, only the files of objects that were       *)
(* checked with another schema are left to bind.                           *)
LEMMA FirstChecked ==
    ASSUME NEW s \in Scans, NEW groups, groups = scan[s].groups, groups \in Seq(Nat),
           \A i \in 1..Len(groups) : IsFirst(table, groups, i) => IsChecked(table, scan[s], groups[i])
    PROVE  /\ ToBind(s) \in Seq(Nat)
           /\ \A f \in ToSet(groups) : /\ UriOf(f) \in scan[s].objects
                                       /\ Adapts(table, f) \/ f \in ToSet(ToBind(s))
<1> DEFINE S == {f \in ToSet(groups) : CheckedSchema(s, UriOf(f)) # SchemaOf(f)}
<1>1. ToBind(s) = Among(groups, S)
  BY DEF ToBind
<1>2. Among(groups, S) \in Seq(Nat) /\ ToSet(Among(groups, S)) = ToSet(groups) \cap S
  <2> HIDE DEF S
  <2> QED
    BY AmongPicks
<1>3. DOMAIN groups = 1..Len(groups)
  OBVIOUS
<1>4. ASSUME NEW f \in ToSet(groups)
      PROVE  UriOf(f) \in scan[s].objects /\ (Adapts(table, f) \/ f \in S)
  <2> DEFINE same == {j \in DOMAIN groups : UriOf(groups[j]) = UriOf(f)}
             k == Min(same)
  <2>1. same \in SUBSET Nat /\ same # {}
    BY <1>3 DEF ToSet
  <2>2. k \in same /\ \A j \in same : k <= j
    <3> HIDE DEF same
    <3>1. \E n \in same : \A m \in same : n <= m
      BY <2>1, LeastNumber
    <3> QED
      BY <3>1 DEF Min
  <2>3. CheckedSchema(s, UriOf(f)) = SchemaOf(groups[k])
    BY DEF CheckedSchema
  <2> HIDE DEF k
  <2>4. k \in 1..Len(groups) /\ UriOf(groups[k]) = UriOf(f)
    BY <1>3, <2>2
  <2>5. IsFirst(table, groups, k)
    <3>1. ASSUME NEW j \in 1..Len(groups), j < k PROVE UriOf(groups[j]) # UriOf(groups[k])
      <4>1. j \notin same
        BY <2>2, <2>4, <3>1
      <4> QED
        BY <1>3, <2>4, <4>1
    <3> QED
      BY <3>1 DEF IsFirst, UriOf
  <2>6. IsChecked(table, scan[s], groups[k])
    BY <2>4, <2>5
  <2>7. UriOf(f) \in scan[s].objects
    BY <2>4, <2>6 DEF IsChecked, UriOf
  <2>8. SchemaOf(groups[k]) = SchemaOf(f) => Adapts(table, f)
    BY <2>4, <2>6, AdaptsAlike DEF IsChecked, UriOf, SchemaOf
  <2> QED
    BY <2>3, <2>7, <2>8
<1> QED
  BY <1>1, <1>2, <1>4

-----------------------------------------------------------------------------
(* Steps                                                                   *)

(* A step of one scan.                                                     *)
LEMMA OneScan ==
    ASSUME IInv, reader' = reader, NEW s \in Scans, NEW me, scan' = [scan EXCEPT ![s] = me],
           ScanOK(reader.table, reader.pin, me), QueueOK'
    PROVE  IInv'
<1>1. DOMAIN scan' = Scans /\ \A u \in Scans : scan'[u] = IF u = s THEN me ELSE scan[u]
  BY DEF IInv
<1>2. \A u \in Scans : ScanOK(reader.table, reader.pin, scan'[u])
  BY <1>1 DEF IInv
<1> QED
  BY <1>1, <1>2 DEF IInv

(* A scan that goes on waiting, or did not wait, leaves the queue right.   *)
LEMMA SameQueue ==
    ASSUME QueueOK, DOMAIN scan = Scans, queue' = queue, NEW s \in Scans, NEW me,
           scan' = [scan EXCEPT ![s] = me],
           (scan[s].waits /\ scan[s].at \in {"listing", "assembling"})
              => (me.waits /\ me.at \in {"listing", "assembling"})
    PROVE  QueueOK'
<1>1. \A u \in Scans : scan'[u] = IF u = s THEN me ELSE scan[u]
  OBVIOUS
<1>2. queue \in Seq(Scans) /\ \A i \in 1..Len(queue) : queue[i] \in Scans
  BY DEF QueueOK
<1> QED
  BY <1>1, <1>2 DEF QueueOK

(* A scan that begins to wait joins the queue.                             *)
LEMMA JoinsQueue ==
    ASSUME QueueOK, DOMAIN scan = Scans, NEW s \in Scans, NEW me, queue' = Append(queue, s),
           scan' = [scan EXCEPT ![s] = me], ~scan[s].waits,
           me.waits, me.at \in {"listing", "assembling"}
    PROVE  QueueOK'
<1>1. \A u \in Scans : scan'[u] = IF u = s THEN me ELSE scan[u]
  OBVIOUS
<1>2. /\ queue \in Seq(Scans) /\ Distinct(queue) /\ Len(queue) \in Nat
      /\ \A i \in 1..Len(queue) : queue[i] \in Scans /\ scan[queue[i]].waits
                                   /\ scan[queue[i]].at \in {"listing", "assembling"}
  BY DEF QueueOK
<1>3. /\ queue' \in Seq(Scans) /\ Len(queue') = Len(queue) + 1 /\ queue'[Len(queue) + 1] = s
      /\ \A i \in 1..Len(queue) : queue'[i] = queue[i]
  BY <1>2
<1>4. \A i \in 1..Len(queue) : queue[i] # s
  BY <1>2
<1>5. \A i \in 1..Len(queue') : i \in 1..Len(queue) \/ i = Len(queue) + 1
  BY <1>2, <1>3
<1>6. Distinct(queue')
  BY <1>2, <1>3, <1>4, <1>5 DEF Distinct
<1>7. \A i \in 1..Len(queue') : scan'[queue'[i]].waits /\ scan'[queue'[i]].at \in {"listing", "assembling"}
  BY <1>1, <1>2, <1>3, <1>4, <1>5
<1> QED
  BY <1>3, <1>6, <1>7 DEF QueueOK, Distinct

(* A scan that is served leaves the queue.                                 *)
LEMMA LeavesQueue ==
    ASSUME QueueOK, DOMAIN scan = Scans, queue # <<>>, NEW s, s = Head(queue), NEW me,
           queue' = Tail(queue), scan' = [scan EXCEPT ![s] = me]
    PROVE  s \in Scans /\ scan[s].waits /\ scan[s].at \in {"listing", "assembling"} /\ QueueOK'
<1>2. /\ queue \in Seq(Scans) /\ Distinct(queue) /\ Len(queue) \in Nat \ {0}
      /\ \A i \in 1..Len(queue) : queue[i] \in Scans /\ scan[queue[i]].waits
                                   /\ scan[queue[i]].at \in {"listing", "assembling"}
  BY DEF QueueOK
<1>1. s \in Scans /\ s = queue[1] /\ 1 \in 1..Len(queue)
  BY <1>2
<1>u. \A u \in Scans : scan'[u] = IF u = s THEN me ELSE scan[u]
  BY <1>1
<1>3. /\ queue' \in Seq(Scans) /\ Len(queue') = Len(queue) - 1
      /\ \A i \in 1..Len(queue') : queue'[i] = queue[i + 1] /\ i + 1 \in 1..Len(queue) /\ i + 1 # 1
  BY <1>2
<1>4. \A i \in 1..Len(queue') : queue'[i] # s
  BY <1>1, <1>2, <1>3 DEF Distinct
<1>5. ASSUME NEW i \in 1..Len(queue'), NEW j \in 1..Len(queue'), queue'[i] = queue'[j] PROVE i = j
  <2>1. i + 1 = j + 1
    BY <1>2, <1>3, <1>5 DEF Distinct
  <2> QED
    BY <2>1
<1>6. \A i \in 1..Len(queue') : scan'[queue'[i]].waits /\ scan'[queue'[i]].at \in {"listing", "assembling"}
  BY <1>u, <1>2, <1>3, <1>4
<1> QED
  BY <1>1, <1>2, <1>3, <1>5, <1>6 DEF QueueOK, Distinct

(* A scan that ends has nothing, or its plan.                              *)
LEMMA ScanEnds ==
    ASSUME IInv, NEW s \in Scans, NEW at \in {"planned", "failed", "gone"}, EndScan(s, at),
           at = "planned" => scan[s].at = "assembling" /\ scan[s].bindings = <<>>
    PROVE  IInv'
<1> DEFINE old == scan[s]
           me == IF at = "planned"
                 THEN [NewScan EXCEPT !.at = at, !.filter = old.filter, !.groups = old.groups,
                                      !.pruned = old.pruned, !.objects = old.objects]
                 ELSE [NewScan EXCEPT !.at = at]
           t == reader.table
           p == reader.pin
<1>1. scan' = [scan EXCEPT ![s] = me] /\ queue' = Among(queue, Scans \ {s}) /\ reader' = reader
  BY DEF EndScan
<1>2. ScanOK(t, p, old) /\ QueueOK /\ DOMAIN scan = Scans
  BY DEF IInv
<1>3. QueueOK'
  <2> HIDE DEF me
  <2>1. queue' \in Seq(Scans) /\ ToSet(queue') = ToSet(queue) \cap (Scans \ {s}) /\ Picks(queue', queue)
    BY <1>1, <1>2, AmongPicks DEF QueueOK
  <2>2. Distinct(queue')
    BY <1>2, <2>1, PicksKeep DEF QueueOK
  <2>3. \A u \in Scans \ {s} : scan'[u] = scan[u]
    BY <1>1, <1>2
  <2>4. ASSUME NEW i \in 1..Len(queue')
        PROVE  scan'[queue'[i]].waits /\ scan'[queue'[i]].at \in {"listing", "assembling"}
    <3>1. queue'[i] \in ToSet(queue')
      BY <2>1 DEF ToSet
    <3>2. queue'[i] \in Scans \ {s} /\ queue'[i] \in ToSet(queue)
      BY <2>1, <3>1
    <3>3. PICK j \in 1..Len(queue) : queue[j] = queue'[i]
      BY <1>2, <3>2 DEF ToSet, QueueOK
    <3> QED
      BY <1>2, <2>3, <3>2, <3>3 DEF QueueOK
  <2> QED
    BY <2>1, <2>2, <2>4 DEF QueueOK, Distinct
<1>4. ScanOK(t, p, me)
  <2>1. CASE at = "planned"
    <3>1. /\ DOMAIN me = ScanFields /\ me.at = "planned" /\ me.filter = old.filter /\ me.groups = old.groups
          /\ me.pruned = old.pruned /\ me.objects = old.objects
          /\ me.pending = <<>> /\ me.bindings = <<>> /\ me.waits = FALSE /\ me.reading = FALSE
      BY <2>1 DEF NewScan, ScanFields
    <3> HIDE DEF me
    <3>a. <<>> \in Seq(Nat) /\ old.groups \in Seq(Nat)
      BY <1>2 DEF ScanOK, ShapeOK
    <3>2. ShapeOK(me) /\ Covered(me) = Covered(old)
      BY <3>1, <3>a DEF ShapeOK, Covered
    <3>3. Covered(me) = FilesOf(t, p) /\ \A f \in ToSet(me.groups) : IsChecked(t, me, f)
      <4>1. AssemblingOK(t, p, old) /\ ToSet(old.bindings) = {}
        BY <1>2, <2>1 DEF ScanOK, ToSet
      <4> QED
        BY <3>1, <3>2, <4>1 DEF AssemblingOK, IsChecked
    <3> QED
      BY <1>2, <3>1, <3>2, <3>3 DEF ScanOK
  <2>2. CASE at # "planned"
    <3>1. /\ DOMAIN me = ScanFields /\ me.at = at /\ me.filter = {} /\ me.groups = <<>> /\ me.pruned = {}
          /\ me.pending = <<>> /\ me.bindings = <<>> /\ me.waits = FALSE /\ me.reading = FALSE
      BY <2>2 DEF NewScan, ScanFields
    <3> HIDE DEF me
    <3>2. Covered(me) = {} /\ ToSet(me.groups) = {} /\ Distinct(me.groups)
      BY <3>1 DEF Covered, ToSet, Distinct
    <3>a. <<>> \in Seq(Nat)
      OBVIOUS
    <3>b. ShapeOK(me)
      BY <2>2, <3>1, <3>a DEF ShapeOK
    <3>3. FilterFits(t, me.filter) /\ Agree(t, Covered(me)) /\ ShapeOK(me)
      BY <3>1, <3>2, <3>b DEF FilterFits, Agree
    <3> QED
      BY <2>2, <3>1, <3>2, <3>3 DEF ScanOK
  <2> QED
    BY <2>1, <2>2
<1> HIDE DEF me
<1> QED
  BY <1>1, <1>3, <1>4, OneScan

(* What the invariant says of a scan and its reader.                       *)
LEMMA OfOneScan ==
    ASSUME IInv, NEW s \in Scans
    PROVE  /\ ScanOK(reader.table, reader.pin, scan[s]) /\ DOMAIN scan[s] = ScanFields
           /\ ReaderOK(reader.table, reader.pin) /\ QueueOK /\ DOMAIN scan = Scans
           /\ \A filter \in Filters[s] : FilterFits(reader.table, filter)
<1>1. PICK r \in DOMAIN Readers : reader = OpenReader(r)
  BY DEF IInv
<1>2. /\ ReaderOK(reader.table, reader.pin)
      /\ \A filter \in Filters[s] : FilterFits(reader.table, filter)
  BY <1>1, ReaderIsOK
<1> QED
  BY <1>2 DEF IInv, ScanOK, ShapeOK

LEMMA StartStep ==
    ASSUME IInv, NEW s \in Scans, NEW filter \in Filters[s], Start(s, filter)
    PROVE  IInv'
<1> DEFINE me == [NewScan EXCEPT !.at = "listing", !.filter = filter, !.reading = TRUE]
           t == reader.table
           p == reader.pin
<1>1. /\ ScanOK(t, p, scan[s]) /\ ReaderOK(t, p) /\ QueueOK /\ DOMAIN scan = Scans /\ FilterFits(t, filter)
  BY OfOneScan
<1>2. scan[s] = NewScan /\ p.error = None /\ reader' = reader /\ queue' = queue
  BY <1>1 DEF Start, ScanOK, pin
<1>3. scan' = [scan EXCEPT ![s] = me]
  BY <1>1, <1>2 DEF Start, NewScan
<1>4. /\ DOMAIN me = ScanFields /\ me.at = "listing" /\ me.filter = filter /\ me.reading = TRUE
      /\ me.cursor = NoCursor /\ me.waits = FALSE /\ me.pending = <<>> /\ me.descriptors = {}
      /\ me.groups = <<>> /\ me.pruned = {} /\ me.bindings = <<>>
  BY DEF NewScan, ScanFields
<1>5. scan[s].waits = FALSE
  BY <1>2 DEF NewScan
<1> HIDE DEF me
<1>6. ToSet(me.groups) = {} /\ Covered(me) = {} /\ Distinct(me.groups) /\ Len(me.groups) = 0
  BY <1>4 DEF Covered, ToSet, Distinct
<1>7. UpToCursor(t, p, me.cursor, Covered(me))
  BY <1>1, <1>2, <1>4, <1>6, NothingListed
<1>8. ListingOK(t, p, me)
  BY <1>4, <1>6, <1>7 DEF ListingOK, Listed
<1>a. <<>> \in Seq(Nat)
  OBVIOUS
<1>9. ShapeOK(me) /\ Agree(t, Covered(me))
  BY <1>4, <1>6, <1>a DEF ShapeOK, Agree
<1>10. ScanOK(t, p, me)
  BY <1>1, <1>2, <1>4, <1>6, <1>8, <1>9 DEF ScanOK
<1>11. QueueOK'
  BY <1>1, <1>2, <1>3, <1>5, SameQueue
<1> QED
  BY <1>2, <1>3, <1>10, <1>11, OneScan

(* A step that changes neither what is listed nor the filter.              *)
SameFiles(new, me) ==
    /\ DOMAIN new = ScanFields
    /\ new.groups = me.groups /\ new.pruned = me.pruned /\ new.filter = me.filter
    /\ new.descriptors = me.descriptors /\ new.pending \in Seq(Nat) /\ new.bindings \in Seq(Nat)
    /\ new.waits \in BOOLEAN /\ new.reading \in BOOLEAN

LEMMA FilesStay ==
    ASSUME NEW t, NEW p, NEW me, ScanOK(t, p, me), NEW new, SameFiles(new, me),
           me.at \in {"listing", "assembling", "binding"},
           new.at \in {"listing", "assembling", "binding"},
           new.at = "listing" => ListingOK(t, p, new),
           new.at \in {"assembling", "binding"} => AssemblingOK(t, p, new)
    PROVE  ScanOK(t, p, new)
<1>1. Covered(new) = Covered(me)
  BY DEF SameFiles, Covered
<1>2. ShapeOK(new)
  BY DEF SameFiles, ShapeOK, ScanOK
<1>3. new.at \notin {"idle", "planned"}
  OBVIOUS
<1> QED
  BY <1>1, <1>2, <1>3 DEF SameFiles, ScanOK

LEMMA ReadOnStep ==
    ASSUME IInv, NEW s \in Scans, ReadOn(s)
    PROVE  IInv'
<1> DEFINE old == scan[s]
           me == [scan[s] EXCEPT !.reading = TRUE]
           t == reader.table
           p == reader.pin
<1>1. ScanOK(t, p, old) /\ QueueOK /\ DOMAIN scan = Scans /\ DOMAIN old = ScanFields
  BY OfOneScan
<1>2. /\ old.at = "listing" /\ old.pending = <<>> /\ old.cursor # NoCursor
      /\ reader' = reader /\ queue' = queue /\ scan' = [scan EXCEPT ![s] = me]
  BY DEF ReadOn, Listing
<1>3. /\ me.at = old.at /\ me.cursor = old.cursor /\ me.pending = old.pending /\ me.waits = old.waits
      /\ me.active = old.active /\ me.objects = old.objects /\ me.groups = old.groups
      /\ me.pruned = old.pruned /\ me.reading = TRUE
  BY <1>1 DEF ScanFields
<1>4. SameFiles(me, old)
  BY <1>1 DEF ScanFields, SameFiles, ScanOK, ShapeOK
<1> HIDE DEF me, old
<1>5. ListingOK(t, p, me)
  BY <1>1, <1>2, <1>3 DEF ScanOK, ListingOK, Listed, Covered, IsChecked
<1>6. ScanOK(t, p, me)
  BY <1>1, <1>2, <1>3, <1>4, <1>5, FilesStay
<1>7. QueueOK'
  BY <1>1, <1>2, <1>3, SameQueue DEF old
<1> QED
  BY <1>2, <1>6, <1>7, OneScan

LEMMA BatchStep ==
    ASSUME IInv, NEW s \in Scans, BatchArrives(s)
    PROVE  IInv'
<1> DEFINE old == scan[s]
           t == reader.table
           p == reader.pin
           batch == Answer(s).batch
           refuted == Answer(s).refuted
           kept == Among(batch.ids, ToSet(batch.ids) \ refuted)
           read == WithBatch(s, batch, kept, refuted)
<1>1. /\ ScanOK(t, p, old) /\ ReaderOK(t, p) /\ QueueOK /\ DOMAIN scan = Scans /\ DOMAIN old = ScanFields
  BY OfOneScan
<1>2. /\ old.at = "listing" /\ old.reading
      /\ \/ EndScan(s, "failed")
         \/ /\ batch.error = None /\ ~Conflicting(read.descriptors)
            /\ scan' = [scan EXCEPT ![s] = read] /\ reader' = reader /\ queue' = queue
  BY DEF BatchArrives, Listing
<1>3. CASE EndScan(s, "failed")
  BY <1>3, ScanEnds
<1>4. CASE /\ batch.error = None /\ ~Conflicting(read.descriptors)
           /\ scan' = [scan EXCEPT ![s] = read] /\ reader' = reader /\ queue' = queue
  <2>1. /\ batch = Enumerate(t, p, old.cursor, Fields(old.filter))
        /\ refuted = RefutedFiles(t, batch.ids, old.filter)
    BY DEF Answer, table, pin
  <2>2. /\ kept = Among(batch.ids, ToSet(batch.ids) \ refuted)
        /\ read = WithBatch(s, batch, kept, refuted)
    OBVIOUS
  <2> HIDE DEF batch, refuted, kept
  <2>3. /\ DOMAIN read = ScanFields
        /\ read.at = old.at /\ read.filter = old.filter /\ read.waits = old.waits /\ read.active = old.active
        /\ read.objects = old.objects /\ read.bindings = old.bindings
        /\ read.reading = FALSE /\ read.cursor = batch.next
        /\ read.pruned = old.pruned \cup refuted /\ read.groups = old.groups \o kept
        /\ read.pending = FirstOfObject(old.groups, kept)
    BY <1>1 DEF WithBatch, ScanFields
  <2>4. read.descriptors = old.descriptors \cup {Descriptor(t, f) : f \in ToSet(batch.ids)}
    BY <1>1 DEF WithBatch, ScanFields, Registered, Descriptor, UriOf, Identity, table
  <2> HIDE DEF read, old
  <2>5. old.groups \in Seq(Nat) /\ kept \in Seq(Nat)
    <3>1. UpToCursor(t, p, old.cursor, Covered(old)) /\ p.error = None
      BY <1>1, <1>2 DEF ScanOK, ListingOK, Listed
    <3>2. Continues(t, p, batch, Covered(old))
      BY <1>1, <1>4, <2>1, <3>1, AnswerContinues DEF ReaderOK
    <3>3. batch.ids \in Seq(Nat)
      BY <3>2 DEF Continues
    <3> QED
      BY <1>1, <2>2, <3>3, AmongPicks DEF ScanOK, ShapeOK
  <2>6. /\ read.pending \in Seq(Nat)
        /\ \A i \in 1..Len(read.groups) : (IsFirst(t, read.groups, i) /\ i > Len(old.groups))
               => read.groups[i] \in ToSet(read.pending)
    BY <2>3, <2>5, FirstsPending DEF table
  <2>7. ScanOK(t, p, read)
    <3>1. TakesBatch(t, p, old, batch, refuted, kept, read)
      BY <1>4, <2>1, <2>2, <2>3, <2>4, <2>6 DEF TakesBatch
    <3> QED
      BY <1>1, <1>2, <3>1, BatchTaken
  <2>8. QueueOK'
    BY <1>1, <1>4, <2>3, SameQueue DEF old
  <2> QED
    BY <1>4, <2>7, <2>8, OneScan
<1> QED
  BY <1>2, <1>3, <1>4

LEMMA RequestPermitStep ==
    ASSUME IInv, NEW s \in Scans, RequestPermit(s)
    PROVE  IInv'
<1> DEFINE old == scan[s]
           me == [scan[s] EXCEPT !.waits = TRUE]
           t == reader.table
           p == reader.pin
<1>1. ScanOK(t, p, old) /\ QueueOK /\ DOMAIN scan = Scans /\ DOMAIN old = ScanFields
  BY OfOneScan
<1>2. /\ old.at = "listing" /\ old.pending # <<>> /\ ~old.waits
      /\ reader' = reader /\ queue' = Append(queue, s) /\ scan' = [scan EXCEPT ![s] = me]
  BY DEF RequestPermit, Listing
<1>3. /\ me.at = old.at /\ me.cursor = old.cursor /\ me.pending = old.pending /\ me.waits = TRUE
      /\ me.active = old.active /\ me.objects = old.objects /\ me.groups = old.groups
      /\ me.pruned = old.pruned /\ me.reading = old.reading
  BY <1>1 DEF ScanFields
<1>4. SameFiles(me, old)
  BY <1>1 DEF ScanFields, SameFiles, ScanOK, ShapeOK
<1>w. ~scan[s].waits
  BY <1>2
<1> HIDE DEF me, old
<1>5. ListingOK(t, p, me)
  BY <1>1, <1>2, <1>3 DEF ScanOK, ListingOK, Listed, Covered, IsChecked
<1>6. ScanOK(t, p, me)
  BY <1>1, <1>2, <1>3, <1>4, <1>5, FilesStay
<1>7. QueueOK'
  BY <1>1, <1>2, <1>3, <1>w, JoinsQueue
<1> QED
  BY <1>2, <1>6, <1>7, OneScan

LEMMA RequestBindingStep ==
    ASSUME IInv, NEW s \in Scans, RequestBinding(s)
    PROVE  IInv'
<1> DEFINE old == scan[s]
           me == [scan[s] EXCEPT !.waits = TRUE]
           t == reader.table
           p == reader.pin
<1>1. ScanOK(t, p, old) /\ QueueOK /\ DOMAIN scan = Scans /\ DOMAIN old = ScanFields
  BY OfOneScan
<1>2. /\ old.at = "assembling" /\ old.bindings # <<>> /\ ~old.waits
      /\ reader' = reader /\ queue' = Append(queue, s) /\ scan' = [scan EXCEPT ![s] = me]
  BY DEF RequestBinding
<1>3. /\ me.at = old.at /\ me.bindings = old.bindings /\ me.waits = TRUE
      /\ me.objects = old.objects /\ me.groups = old.groups /\ me.pruned = old.pruned
  BY <1>1 DEF ScanFields
<1>4. SameFiles(me, old)
  BY <1>1 DEF ScanFields, SameFiles, ScanOK, ShapeOK
<1>w. ~scan[s].waits
  BY <1>2
<1> HIDE DEF me, old
<1>5. AssemblingOK(t, p, me)
  BY <1>1, <1>2, <1>3 DEF ScanOK, AssemblingOK, Covered
<1>6. ScanOK(t, p, me)
  BY <1>1, <1>2, <1>3, <1>4, <1>5, FilesStay
<1>7. QueueOK'
  BY <1>1, <1>2, <1>3, <1>w, JoinsQueue
<1> QED
  BY <1>2, <1>6, <1>7, OneScan

LEMMA HeadAndTail ==
    ASSUME NEW s \in Seq(Nat), s # <<>>
    PROVE  Tail(s) \in Seq(Nat) /\ ToSet(s) = {Head(s)} \cup ToSet(Tail(s))
<1>1. /\ Tail(s) \in Seq(Nat) /\ Len(Tail(s)) = Len(s) - 1 /\ Head(s) = s[1] /\ Len(s) \in Nat \ {0}
      /\ DOMAIN s = 1..Len(s) /\ DOMAIN Tail(s) = 1..Len(Tail(s))
      /\ \A i \in 1..Len(Tail(s)) : Tail(s)[i] = s[i + 1] /\ i + 1 \in 1..Len(s)
  OBVIOUS
<1> DEFINE r == Tail(s)
<1> HIDE DEF r
<1>2. ToSet(s) \subseteq {Head(s)} \cup ToSet(Tail(s))
  <2>1. ASSUME NEW i \in 1..Len(s), i # 1 PROVE s[i] \in ToSet(Tail(s))
    <3>1. i - 1 \in 1..Len(Tail(s)) /\ (i - 1) + 1 = i
      BY <1>1, <2>1
    <3>2. Tail(s)[i - 1] = s[i]
      BY <1>1, <3>1
    <3> QED
      BY <1>1, <3>1, <3>2 DEF ToSet
  <2> QED
    BY <1>1, <2>1 DEF ToSet
<1>3. {Head(s)} \cup ToSet(Tail(s)) \subseteq ToSet(s)
  <2>1. s[1] \in ToSet(s)
    BY <1>1 DEF ToSet
  <2>2. ASSUME NEW i \in 1..Len(Tail(s)) PROVE Tail(s)[i] \in ToSet(s)
    <3>1. Tail(s)[i] = s[i + 1] /\ i + 1 \in 1..Len(s)
      BY <1>1
    <3> QED
      BY <1>1, <3>1 DEF ToSet
  <2> QED
    BY <1>1, <2>1, <2>2 DEF ToSet
<1> QED
  BY <1>1, <1>2, <1>3

LEMMA GrantStep ==
    ASSUME IInv, Grant
    PROVE  IInv'
<1> DEFINE s == Head(queue)
           old == scan[s]
           served == [scan[s] EXCEPT !.waits = FALSE, !.active = @ \cup {Head(scan[s].pending)},
                                     !.pending = Tail(@)]
           bound == [scan[s] EXCEPT !.waits = FALSE, !.at = "binding"]
           me == IF Listing(s) THEN served ELSE bound
           t == reader.table
           p == reader.pin
<1>1. QueueOK /\ DOMAIN scan = Scans /\ queue # <<>> /\ queue' = Tail(queue) /\ reader' = reader
  BY DEF IInv, Grant
<1>q. queue \in Seq(Scans)
  BY <1>1 DEF QueueOK
<1>2. s \in Scans
  BY <1>1, <1>q
<1>3. scan' = [scan EXCEPT ![s] = me]
  <2>1. scan' = IF Listing(s)
                THEN [scan EXCEPT ![s].waits = FALSE, ![s].active = @ \cup {Head(scan[s].pending)},
                                  ![s].pending = Tail(@)]
                ELSE [scan EXCEPT ![s].waits = FALSE, ![s].at = "binding"]
    BY DEF Grant
  <2>2. [scan EXCEPT ![s].waits = FALSE, ![s].active = @ \cup {Head(scan[s].pending)},
                     ![s].pending = Tail(@)] = [scan EXCEPT ![s] = served]
    <3> HIDE DEF s
    <3> QED
      BY <1>1, <1>2
  <2>3. [scan EXCEPT ![s].waits = FALSE, ![s].at = "binding"] = [scan EXCEPT ![s] = bound]
    <3> HIDE DEF s
    <3> QED
      BY <1>1, <1>2
  <2> HIDE DEF s, served, bound
  <2> QED
    BY <2>1, <2>2, <2>3
<1>4. scan[s].waits /\ scan[s].at \in {"listing", "assembling"} /\ QueueOK'
  <2>1. s = Head(queue)
    OBVIOUS
  <2> HIDE DEF me, s
  <2> QED
    BY <1>1, <1>3, <2>1, LeavesQueue
<1> HIDE DEF s
<1>5. ScanOK(t, p, old) /\ DOMAIN old = ScanFields
  BY <1>2, OfOneScan
<1>6. CASE Listing(s)
  <2>1. ListingOK(t, p, old) /\ old.pending \in Seq(Nat) /\ old.pending # <<>> /\ old.at = "listing"
    BY <1>4, <1>5, <1>6 DEF ScanOK, ShapeOK, ListingOK, Listing
  <2>2. Tail(old.pending) \in Seq(Nat) /\ ToSet(old.pending) = {Head(old.pending)} \cup ToSet(Tail(old.pending))
    <3> DEFINE pending == old.pending
    <3>1. pending \in Seq(Nat) /\ pending # <<>>
      BY <2>1
    <3> HIDE DEF pending
    <3>2. Tail(pending) \in Seq(Nat) /\ ToSet(pending) = {Head(pending)} \cup ToSet(Tail(pending))
      BY <3>1, HeadAndTail
    <3> QED
      BY <3>2 DEF pending
  <2>3. /\ served.at = old.at /\ served.cursor = old.cursor /\ served.pending = Tail(old.pending)
        /\ served.waits = FALSE /\ served.active = old.active \cup {Head(old.pending)}
        /\ served.objects = old.objects /\ served.groups = old.groups
        /\ served.pruned = old.pruned /\ served.reading = old.reading
    BY <1>5 DEF ScanFields
  <2>4. SameFiles(served, old)
    BY <1>5, <2>2 DEF ScanFields, SameFiles, ScanOK, ShapeOK
  <2>m. me = served
    BY <1>6
  <2> HIDE DEF served, old, me
  <2>5. ~served.reading
    BY <2>1, <2>3 DEF ListingOK
  <2>6. ListingOK(t, p, served)
    <3>1. Listed(t, p, served)
      BY <2>1, <2>3 DEF ListingOK, Listed, Covered
    <3>2. ToSet(served.pending) \cup served.active = ToSet(old.pending) \cup old.active
      BY <2>2, <2>3
    <3> QED
      BY <2>1, <2>3, <2>5, <3>1, <3>2 DEF ListingOK, IsChecked
  <2>7. ScanOK(t, p, served)
    BY <1>5, <2>1, <2>3, <2>4, <2>6, FilesStay
  <2> QED
    BY <1>1, <1>2, <1>3, <1>4, <2>7, <2>m, OneScan
<1>7. CASE ~Listing(s)
  <2>1. AssemblingOK(t, p, old) /\ old.bindings # <<>> /\ old.at = "assembling"
    BY <1>4, <1>5, <1>7 DEF ScanOK, AssemblingOK, Listing
  <2>3. /\ bound.at = "binding" /\ bound.bindings = old.bindings /\ bound.waits = FALSE
        /\ bound.objects = old.objects /\ bound.groups = old.groups /\ bound.pruned = old.pruned
    BY <1>5 DEF ScanFields
  <2>4. SameFiles(bound, old)
    BY <1>5 DEF ScanFields, SameFiles, ScanOK, ShapeOK
  <2>m. me = bound
    BY <1>7
  <2> HIDE DEF bound, old, me
  <2>6. AssemblingOK(t, p, bound)
    BY <2>1, <2>3 DEF AssemblingOK, Covered
  <2>7. ScanOK(t, p, bound)
    BY <1>5, <2>1, <2>3, <2>4, <2>6, FilesStay
  <2> QED
    BY <1>1, <1>2, <1>3, <1>4, <2>7, <2>m, OneScan
<1> QED
  BY <1>6, <1>7

LEMMA PreflightStep ==
    ASSUME IInv, NEW s \in Scans, NEW f, PreflightDone(s, f)
    PROVE  IInv'
<1> DEFINE old == scan[s]
           me == [scan[s] EXCEPT !.active = @ \ {f}, !.objects = @ \cup {UriOf(f)}]
           t == reader.table
           p == reader.pin
<1>1. ScanOK(t, p, old) /\ QueueOK /\ DOMAIN scan = Scans /\ DOMAIN old = ScanFields
  BY OfOneScan
<1>2. CASE EndScan(s, "failed")
  BY <1>2, ScanEnds
<1>3. CASE ~EndScan(s, "failed")
  <2>1. /\ old.at = "listing" /\ Adapts(t, f) /\ reader' = reader /\ queue' = queue
        /\ scan' = [scan EXCEPT ![s].active = @ \ {f}, ![s].objects = @ \cup {UriOf(f)}]
    BY <1>3 DEF PreflightDone, Listing, table
  <2>2. scan' = [scan EXCEPT ![s] = me]
    BY <1>1, <2>1
  <2>3. /\ me.at = old.at /\ me.cursor = old.cursor /\ me.pending = old.pending /\ me.waits = old.waits
        /\ me.active = old.active \ {f} /\ me.objects = old.objects \cup {UriOf(f)}
        /\ me.groups = old.groups /\ me.pruned = old.pruned /\ me.reading = old.reading
    BY <1>1 DEF ScanFields
  <2>4. SameFiles(me, old)
    BY <1>1 DEF ScanFields, SameFiles, ScanOK, ShapeOK
  <2>q. QueueOK'
    BY <1>1, <2>1, <2>2, <2>3, SameQueue
  <2> HIDE DEF me, old
  <2>5. ListingOK(t, p, me)
    <3>1. ListingOK(t, p, old)
      BY <1>1, <2>1 DEF ScanOK
    <3>2. IsChecked(t, me, f)
      BY <2>1, <2>3 DEF IsChecked, UriOf, table
    <3>3. \A g : IsChecked(t, old, g) => IsChecked(t, me, g)
      BY <2>3 DEF IsChecked
    <3> QED
      BY <2>3, <3>1, <3>2, <3>3 DEF ListingOK, Listed, Covered
  <2>6. ScanOK(t, p, me)
    BY <1>1, <2>1, <2>3, <2>4, <2>5, FilesStay
  <2> QED
    BY <2>1, <2>2, <2>6, <2>q, OneScan
<1> QED
  BY <1>2, <1>3

LEMMA AssembleStep ==
    ASSUME IInv, NEW s \in Scans, Assemble(s)
    PROVE  IInv'
<1> DEFINE old == scan[s]
           me == [scan[s] EXCEPT !.at = "assembling", !.bindings = ToBind(s)]
           t == reader.table
           p == reader.pin
<1>1. ScanOK(t, p, old) /\ QueueOK /\ DOMAIN scan = Scans /\ DOMAIN old = ScanFields
  BY OfOneScan
<1>2. /\ old.at = "listing" /\ ~old.reading /\ old.cursor = NoCursor /\ old.active = {} /\ old.pending = <<>>
      /\ reader' = reader /\ queue' = queue
      /\ scan' = [scan EXCEPT ![s].at = "assembling", ![s].bindings = ToBind(s)]
  BY DEF Assemble, Listing
<1>3. scan' = [scan EXCEPT ![s] = me]
  BY <1>1, <1>2
<1>4. ListingOK(t, p, old) /\ old.groups \in Seq(Nat) /\ ToSet(old.pending) = {}
  BY <1>1, <1>2 DEF ScanOK, ShapeOK, ToSet
<1>5. /\ ToBind(s) \in Seq(Nat)
      /\ \A f \in ToSet(old.groups) : /\ UriOf(f) \in old.objects
                                      /\ Adapts(t, f) \/ f \in ToSet(ToBind(s))
  <2>1. \A i \in 1..Len(old.groups) : IsFirst(table, old.groups, i) => IsChecked(table, old, old.groups[i])
    BY <1>2, <1>4 DEF ListingOK, table
  <2> QED
    BY <1>4, <2>1, FirstChecked DEF table
<1>6. /\ me.at = "assembling" /\ me.bindings = ToBind(s) /\ me.waits = old.waits
      /\ me.objects = old.objects /\ me.groups = old.groups /\ me.pruned = old.pruned
  BY <1>1 DEF ScanFields
<1>7. SameFiles(me, old)
  BY <1>1, <1>5 DEF ScanFields, SameFiles, ScanOK, ShapeOK
<1>q. QueueOK'
  BY <1>1, <1>2, <1>3, <1>6, SameQueue
<1> HIDE DEF me, old
<1>8. AssemblingOK(t, p, me)
  <2>1. ~old.waits /\ Covered(old) = FilesOf(t, p)
    BY <1>2, <1>4 DEF ListingOK, Listed
  <2> QED
    BY <1>5, <1>6, <2>1 DEF AssemblingOK, Covered, UriOf, table
<1>9. ScanOK(t, p, me)
  BY <1>1, <1>2, <1>6, <1>7, <1>8, FilesStay
<1> QED
  BY <1>2, <1>3, <1>9, <1>q, OneScan

LEMMA BindingStep ==
    ASSUME IInv, NEW s \in Scans, BindingDone(s)
    PROVE  IInv'
<1> DEFINE old == scan[s]
           me == [scan[s] EXCEPT !.at = "assembling", !.bindings = Tail(@)]
           t == reader.table
           p == reader.pin
<1>1. ScanOK(t, p, old) /\ QueueOK /\ DOMAIN scan = Scans /\ DOMAIN old = ScanFields
  BY OfOneScan
<1>2. CASE EndScan(s, "failed")
  BY <1>2, ScanEnds
<1>3. CASE ~EndScan(s, "failed")
  <2>1. /\ old.at = "binding" /\ Adapts(t, Head(old.bindings)) /\ reader' = reader /\ queue' = queue
        /\ scan' = [scan EXCEPT ![s].at = "assembling", ![s].bindings = Tail(@)]
    BY <1>3 DEF BindingDone, table
  <2>2. scan' = [scan EXCEPT ![s] = me]
    BY <1>1, <2>1
  <2>3. /\ me.at = "assembling" /\ me.bindings = Tail(old.bindings) /\ me.waits = old.waits
        /\ me.objects = old.objects /\ me.groups = old.groups /\ me.pruned = old.pruned
    BY <1>1 DEF ScanFields
  <2>b. AssemblingOK(t, p, old) /\ old.bindings \in Seq(Nat) /\ old.bindings # <<>>
    BY <1>1, <2>1 DEF ScanOK, ShapeOK, AssemblingOK
  <2>t. Tail(old.bindings) \in Seq(Nat) /\ ToSet(old.bindings) = {Head(old.bindings)} \cup ToSet(Tail(old.bindings))
    <3> DEFINE left == old.bindings
    <3>1. left \in Seq(Nat) /\ left # <<>>
      BY <2>b
    <3> HIDE DEF left
    <3>2. Tail(left) \in Seq(Nat) /\ ToSet(left) = {Head(left)} \cup ToSet(Tail(left))
      BY <3>1, HeadAndTail
    <3> QED
      BY <3>2 DEF left
  <2>4. SameFiles(me, old)
    BY <1>1, <2>t DEF ScanFields, SameFiles, ScanOK, ShapeOK
  <2>q. QueueOK'
    BY <1>1, <2>1, <2>2, <2>3, SameQueue
  <2> HIDE DEF me, old
  <2>5. ~me.waits
    BY <2>1, <2>3, <2>b DEF AssemblingOK
  <2>6. AssemblingOK(t, p, me)
    BY <2>1, <2>3, <2>5, <2>b, <2>t DEF AssemblingOK, Covered
  <2>7. ScanOK(t, p, me)
    BY <1>1, <2>1, <2>3, <2>4, <2>6, FilesStay
  <2> QED
    BY <2>1, <2>2, <2>7, <2>q, OneScan
<1> QED
  BY <1>2, <1>3

-----------------------------------------------------------------------------
(* Theorems                                                                *)

LEMMA InitOK == Init => IInv
<1> SUFFICES ASSUME Init PROVE IInv
  OBVIOUS
<1>1. PICK r \in DOMAIN Readers : reader = OpenReader(r)
  BY DEF Init
<1>2. DOMAIN scan = Scans /\ \A s \in Scans : scan[s] = NewScan
  BY DEF Init
<1>3. /\ DOMAIN NewScan = ScanFields /\ NewScan.at = "idle" /\ NewScan.filter = {} /\ NewScan.groups = <<>>
      /\ NewScan.pruned = {} /\ NewScan.pending = <<>> /\ NewScan.bindings = <<>>
      /\ NewScan.waits = FALSE /\ NewScan.reading = FALSE
  BY DEF NewScan, ScanFields
<1>4. <<>> \in Seq(Nat)
  OBVIOUS
<1>5. Covered(NewScan) = {} /\ ToSet(NewScan.groups) = {} /\ Distinct(NewScan.groups)
  BY <1>3 DEF Covered, ToSet, Distinct
<1>6. ShapeOK(NewScan)
  BY <1>3, <1>4 DEF ShapeOK
<1>7. \A t, p : ScanOK(t, p, NewScan)
  BY <1>3, <1>5, <1>6 DEF ScanOK, FilterFits, Agree
<1>8. QueueOK
  BY DEF Init, QueueOK, Distinct
<1> QED
  BY <1>1, <1>2, <1>7, <1>8 DEF IInv

LEMMA NextOK == IInv /\ [Next]_vars => IInv'
<1> SUFFICES ASSUME IInv, [Next]_vars PROVE IInv'
  OBVIOUS
<1>1. ASSUME NEW s \in Scans, NEW filter \in Filters[s], Start(s, filter) PROVE IInv'
  BY <1>1, StartStep
<1>2. ASSUME NEW s \in Scans, DropScan(s) PROVE IInv'
  BY <1>2, ScanEnds DEF DropScan
<1>3. ASSUME NEW s \in Scans, ReadOn(s) PROVE IInv'
  BY <1>3, ReadOnStep
<1>4. ASSUME NEW s \in Scans, BatchFails(s) PROVE IInv'
  BY <1>4, ScanEnds DEF BatchFails
<1>5. ASSUME NEW s \in Scans, BatchArrives(s) PROVE IInv'
  BY <1>5, BatchStep
<1>6. ASSUME NEW s \in Scans, RequestPermit(s) PROVE IInv'
  BY <1>6, RequestPermitStep
<1>7. ASSUME NEW s \in Scans, NEW f \in scan[s].active, PreflightDone(s, f) PROVE IInv'
  BY <1>7, PreflightStep
<1>8. ASSUME NEW s \in Scans, PreflightFails(s) PROVE IInv'
  BY <1>8, ScanEnds DEF PreflightFails
<1>9. ASSUME NEW s \in Scans, Assemble(s) PROVE IInv'
  BY <1>9, AssembleStep
<1>10. ASSUME NEW s \in Scans, RequestBinding(s) PROVE IInv'
  BY <1>10, RequestBindingStep
<1>11. ASSUME NEW s \in Scans, BindingDone(s) PROVE IInv'
  BY <1>11, BindingStep
<1>12. ASSUME NEW s \in Scans, BindingFails(s) PROVE IInv'
  BY <1>12, ScanEnds DEF BindingFails
<1>13. ASSUME NEW s \in Scans, Planned(s) PROVE IInv'
  BY <1>13, ScanEnds DEF Planned
<1>14. CASE Grant
  BY <1>14, GrantStep
<1>15. CASE UNCHANGED vars
  BY <1>15 DEF vars, IInv, QueueOK, Distinct
<1> QED
  BY <1>1, <1>2, <1>3, <1>4, <1>5, <1>6, <1>7, <1>8, <1>9, <1>10, <1>11, <1>12, <1>13, <1>14, <1>15
     DEF Next, Progress, Done

LEMMA Invariance == Spec => []IInv
<1> QED
  BY InitOK, NextOK, PTL DEF Spec

(* However many files a table has, however the pages fall and whichever    *)
(* way through branches or through parents they are read, a plan has every *)
(* file of the pinned selection once, scanned or left out (branch,         *)
(* historical, plan_scan).                                                 *)
THEOREM EveryFileOnce == Spec => []PlanExact
<1>1. ASSUME IInv PROVE PlanExact
  <2> SUFFICES ASSUME NEW s \in Scans, scan[s].at = "planned"
               PROVE  /\ ToSet(scan[s].groups) \cup scan[s].pruned = FilesOf(table, pin)
                      /\ ToSet(scan[s].groups) \cap scan[s].pruned = {}
                      /\ Len(scan[s].groups) = Cardinality(ToSet(scan[s].groups))
    BY DEF PlanExact
  <2>1. ScanOK(reader.table, reader.pin, scan[s])
    BY <1>1, OfOneScan
  <2>2. scan[s].groups \in Seq(Nat) /\ Distinct(scan[s].groups)
    BY <2>1 DEF ScanOK, ShapeOK
  <2>3. Len(scan[s].groups) = Cardinality(ToSet(scan[s].groups))
    BY <2>2, DistinctCounted
  <2> QED
    BY <2>1, <2>3 DEF ScanOK, Covered, table, pin
<1> QED
  BY <1>1, Invariance, PTL

(* Whatever the metrics, the schemas and the filters are, a file that a    *)
(* scan leaves out has no row that its filter lets through (prune, bind).  *)
THEOREM NoRowLost == Spec => []NoMatchingRowLost
<1>1. ASSUME IInv PROVE NoMatchingRowLost
  <2> SUFFICES ASSUME NEW s \in Scans, NEW f \in scan[s].pruned PROVE NoneMatches(table, f, scan[s].filter)
    BY DEF NoMatchingRowLost, NoneMatches
  <2>1. ScanOK(reader.table, reader.pin, scan[s])
    BY <1>1, OfOneScan
  <2> QED
    BY <2>1 DEF ScanOK, table
<1> QED
  BY <1>1, Invariance, PTL

(* Whatever objects the files share and however the checks of any number   *)
(* of scans share the permits, every object of a plan was checked against  *)
(* the schema of every file that uses it, and no file of the selection     *)
(* claims other content for it (preflight_object, plan_scan).              *)
THEOREM ObjectsValidated == Spec => []PlanValidated
<1>1. ASSUME IInv PROVE PlanValidated
  <2> SUFFICES ASSUME NEW s \in Scans, scan[s].at = "planned", NEW f \in ToSet(scan[s].groups)
               PROVE  /\ Adapts(table, f) /\ UriOf(f) \in scan[s].objects
                      /\ \A g \in FilesOf(table, pin) : UriOf(g) = UriOf(f) => Identity(g) = Identity(f)
    BY DEF PlanValidated
  <2>1. ScanOK(reader.table, reader.pin, scan[s])
    BY <1>1, OfOneScan
  <2>2. IsChecked(table, scan[s], f) /\ Agree(table, FilesOf(table, pin)) /\ f \in FilesOf(table, pin)
    BY <2>1 DEF ScanOK, Covered, table, pin
  <2>3. ASSUME NEW g \in FilesOf(table, pin), UriOf(g) = UriOf(f) PROVE Identity(g) = Identity(f)
    <3>1. Descriptor(table, g) = Descriptor(table, f)
      BY <2>2, <2>3 DEF Agree, UriOf
    <3> QED
      BY <3>1 DEF Descriptor, Identity
  <2> QED
    BY <2>2, <2>3 DEF IsChecked, UriOf
<1> QED
  BY <1>1, Invariance, PTL

-----------------------------------------------------------------------------
(* Iterating a function, and what a walk along parents reaches             *)

(* There is a function whose value at n is F done n times, from b.         *)
Iterates(A, F, b, N) ==
    \E f \in [0..N -> A] : f[0] = b /\ \A n \in 1..N : f[n] = F[f[n - 1]]

LEMMA Iterated ==
    ASSUME NEW A, NEW F \in [A -> A], NEW b \in A, NEW N \in Nat
    PROVE  Iterates(A, F, b, N)
<1> DEFINE Goes(f, k) == f[0] = b /\ \A n \in 1..k : f[n] = F[f[n - 1]]
           S == {k \in 0..N : \E f \in [0..N -> A] : Goes(f, k)}
<1>1. 0 \in S
  <2> DEFINE f == [n \in 0..N |-> b]
  <2>1. f \in [0..N -> A] /\ f[0] = b
    OBVIOUS
  <2> HIDE DEF f
  <2>2. Goes(f, 0)
    BY <2>1
  <2> HIDE DEF Goes
  <2>3. 0 \in 0..N
    OBVIOUS
  <2> QED
    BY <2>1, <2>2, <2>3
<1>2. ASSUME NEW k \in 1..N, k - 1 \in S
      PROVE  k \in S
  <2>1. PICK f \in [0..N -> A] : Goes(f, k - 1)
    BY <1>2
  <2> DEFINE next == [f EXCEPT ![k] = F[f[k - 1]]]
  <2>2. next \in [0..N -> A]
    OBVIOUS
  <2>3. next[0] = b
    BY <2>1
  <2>4. ASSUME NEW n \in 1..k PROVE next[n] = F[next[n - 1]]
    BY <2>1
  <2>5. Goes(next, k)
    BY <2>3, <2>4
  <2> HIDE DEF next
  <2> QED
    BY <2>2, <2>5
<1> HIDE DEF S
<1>3. 0..N \subseteq S
  BY <1>1, <1>2, UpTo
<1>4. N \in S
  BY <1>3
<1> QED
  BY <1>4 DEF S, Iterates

(* The sets of the first generations or commits along parents.             *)
Reached(up, things, start, N) ==
    up = [n \in 0..N |-> IF n = 0 THEN {start}
                         ELSE up[n - 1] \cup ({things[x].parent : x \in up[n - 1]} \ {0})]

ClosedUnder(T, things) == \A x \in T : things[x].parent # 0 => things[x].parent \in T

(* As many steps as there are elements reach all that can be reached.      *)
LEMMA ReachedAll ==
    ASSUME NEW things, NEW D, D = DOMAIN things, IsFiniteSet(D), 0 \notin D, NEW start \in D,
           \A x \in D : things[x].parent \in D \cup {0}
    PROVE  LET up == CHOOSE up : Reached(up, things, start, Cardinality(D))
               all == up[Cardinality(D)]
           IN  /\ start \in all /\ all \subseteq D /\ ClosedUnder(all, things)
               /\ \A T : start \in T /\ ClosedUnder(T, things) => all \subseteq T
<1> DEFINE N == Cardinality(D)
           more(S) == S \cup ({things[x].parent : x \in S} \ {0})
           F == [S \in SUBSET D |-> more(S)]
           chosen == CHOOSE up : Reached(up, things, start, N)
<1>1. N \in Nat
  BY FS_CardinalityType
<1>2. \A S \in SUBSET D : more(S) \in SUBSET D
  OBVIOUS
<1>3. F \in [SUBSET D -> SUBSET D] /\ \A S \in SUBSET D : F[S] = more(S)
  BY <1>2
<1> HIDE DEF F, N
<1>4. PICK f \in [0..N -> SUBSET D] : f[0] = {start} /\ \A n \in 1..N : f[n] = F[f[n - 1]]
  <2>1. {start} \in SUBSET D
    OBVIOUS
  <2>2. Iterates(SUBSET D, F, {start}, N)
    BY <1>1, <1>3, <2>1, Iterated
  <2> QED
    BY <2>2 DEF Iterates
<1>5. \A n \in 1..N : f[n] = more(f[n - 1])
  BY <1>1, <1>3, <1>4
<1>6. Reached(f, things, start, N)
  <2>1. \A n \in 0..N : f[n] = IF n = 0 THEN {start} ELSE more(f[n - 1])
    BY <1>1, <1>4, <1>5
  <2> HIDE DEF more
  <2>2. f = [n \in 0..N |-> IF n = 0 THEN {start} ELSE more(f[n - 1])]
    BY <2>1
  <2> QED
    BY <2>2 DEF Reached, more
<1>7. Reached(chosen, things, start, N)
  BY <1>6
<1> HIDE DEF chosen
<1>8. \A n \in 0..N : chosen[n] = IF n = 0 THEN {start} ELSE more(chosen[n - 1])
  BY <1>7 DEF Reached
<1> HIDE DEF more
<1>9. \A n \in 0..N : chosen[n] = f[n]
  <2> DEFINE S == {n \in 0..N : chosen[n] = f[n]}
  <2>1. 0 \in S
    <3>1. 0 \in 0..N
      BY <1>1
    <3>2. chosen[0] = {start}
      BY <3>1, <1>8, Zenon
    <3> QED
      BY <3>1, <3>2, <1>4
  <2>2. ASSUME NEW n \in 1..N, n - 1 \in S PROVE n \in S
    <3>1. n \in 0..N /\ n # 0 /\ chosen[n - 1] = f[n - 1]
      BY <1>1, <2>2
    <3> QED
      BY <3>1, <1>5, <1>8
  <2> HIDE DEF S
  <2>3. 0..N \subseteq S
    BY <1>1, <2>1, <2>2, UpTo
  <2> QED
    BY <2>3 DEF S
<1>10. start \in f[N] /\ \A n \in 0..N : f[n] \subseteq D
  <2> DEFINE S == {n \in 0..N : start \in f[n]}
  <2>1. 0 \in S
    BY <1>1, <1>4
  <2>2. ASSUME NEW n \in 1..N, n - 1 \in S PROVE n \in S
    BY <1>1, <1>5, <2>2 DEF more
  <2> HIDE DEF S
  <2>3. 0..N \subseteq S
    BY <1>1, <2>1, <2>2, UpTo
  <2> QED
    BY <1>1, <1>4, <2>3 DEF S
<1>11. ClosedUnder(f[N], things)
  <2> DEFINE S == {n \in 0..N : Cardinality(f[n]) > n \/ ClosedUnder(f[n], things)}
  <2>1. 0 \in S
    <3>1. Cardinality(f[0]) = 1
      BY <1>4, FS_Singleton
    <3> QED
      BY <1>1, <3>1
  <2>2. ASSUME NEW n \in 1..N, n - 1 \in S PROVE n \in S
    <3>1. n - 1 \in 0..N /\ n \in 0..N /\ f[n] = more(f[n - 1]) /\ f[n - 1] \subseteq f[n]
      BY <1>1, <1>5 DEF more
    <3>2. CASE ClosedUnder(f[n - 1], things)
      <4>1. f[n] = f[n - 1]
        BY <3>1, <3>2 DEF ClosedUnder, more
      <4> QED
        BY <3>1, <3>2, <4>1
    <3>3. CASE ~ClosedUnder(f[n - 1], things)
      <4>1. Cardinality(f[n - 1]) > n - 1
        BY <2>2, <3>3
      <4>2. f[n] # f[n - 1]
        BY <3>1, <3>3 DEF ClosedUnder, more
      <4>3. IsFiniteSet(f[n]) /\ IsFiniteSet(f[n - 1])
        BY <1>10, <3>1, FS_Subset
      <4>4. Cardinality(f[n - 1]) < Cardinality(f[n])
        BY <3>1, <4>2, <4>3, FS_Subset, FS_CardinalityType
      <4>5. Cardinality(f[n - 1]) \in Nat /\ Cardinality(f[n]) \in Nat
        BY <4>3, FS_CardinalityType
      <4>6. Cardinality(f[n]) > n
        BY <4>1, <4>4, <4>5
      <4> QED
        BY <3>1, <4>6
    <3> QED
      BY <3>2, <3>3
  <2> HIDE DEF S
  <2>3. 0..N \subseteq S
    BY <1>1, <2>1, <2>2, UpTo
  <2>4. Cardinality(f[N]) > N \/ ClosedUnder(f[N], things)
    BY <1>1, <2>3 DEF S
  <2>5. Cardinality(f[N]) \in Nat /\ Cardinality(f[N]) <= N
    BY <1>1, <1>10, FS_Subset, FS_CardinalityType DEF N
  <2> QED
    BY <1>1, <2>4, <2>5
<1>12. ASSUME NEW T, start \in T, ClosedUnder(T, things) PROVE f[N] \subseteq T
  <2> DEFINE S == {n \in 0..N : f[n] \subseteq T}
  <2>1. 0 \in S
    BY <1>1, <1>4, <1>12
  <2>2. ASSUME NEW n \in 1..N, n - 1 \in S PROVE n \in S
    BY <1>1, <1>5, <1>12, <2>2 DEF ClosedUnder, more
  <2> HIDE DEF S
  <2>3. 0..N \subseteq S
    BY <1>1, <2>1, <2>2, UpTo
  <2> QED
    BY <1>1, <2>3 DEF S
<1>13. chosen[N] = f[N] /\ f[N] \subseteq D
  BY <1>1, <1>9, <1>10
<1> QED
  BY <1>10, <1>11, <1>12, <1>13 DEF chosen, N

(* A function that follows parents until it comes to an element of Z.      *)
Follows(back, D, Z, value, parent) ==
    back = [x \in D |-> IF x \in Z THEN value[x] ELSE back[parent[x]]]

LEMMA FollowsExists ==
    ASSUME NEW D, NEW Z, NEW value, NEW parent, \A x \in D \ Z : parent[x] \in D
    PROVE  Follows(CHOOSE back : Follows(back, D, Z, value, parent), D, Z, value, parent)
<1> DEFINE Closed(T) == \A y \in T \ Z : parent[y] \in T
           Ends(x) == {z \in D \cap Z : \A T \in SUBSET D : x \in T /\ Closed(T) => z \in T}
           val(x) == value[CHOOSE z : z \in Ends(x)]
           back == [x \in D |-> val(x)]
<1>1. ASSUME NEW x \in D \cap Z PROVE Ends(x) = {x}
  <2>1. {x} \in SUBSET D /\ Closed({x})
    OBVIOUS
  <2> QED
    BY <2>1
<1>2. ASSUME NEW x \in D \ Z PROVE Ends(x) = Ends(parent[x])
  <2>1. parent[x] \in D
    OBVIOUS
  <2>2. ASSUME NEW T \in SUBSET D, parent[x] \in T, Closed(T)
        PROVE  {x} \cup T \in SUBSET D /\ Closed({x} \cup T)
    BY <2>2
  <2>3. Ends(x) \subseteq Ends(parent[x])
    <3> SUFFICES ASSUME NEW z \in Ends(x), NEW T \in SUBSET D, parent[x] \in T, Closed(T)
                 PROVE  z \in T
      OBVIOUS
    <3>1. z \in {x} \cup T
      BY <2>2
    <3>2. z # x
      OBVIOUS
    <3> QED
      BY <3>1, <3>2
  <2>4. Ends(parent[x]) \subseteq Ends(x)
    OBVIOUS
  <2> QED
    BY <2>3, <2>4
<1> HIDE DEF Ends
<1>3. ASSUME NEW x \in D
      PROVE  val(x) = IF x \in Z THEN value[x] ELSE back[parent[x]]
  BY <1>1, <1>2
<1>4. back = [x \in D |-> IF x \in Z THEN value[x] ELSE back[parent[x]]]
  <2> DEFINE e(x) == IF x \in Z THEN value[x] ELSE back[parent[x]]
  <2>1. \A x \in D : val(x) = e(x)
    BY <1>3
  <2> HIDE DEF e, val
  <2>2. back = [x \in D |-> e(x)]
    BY <2>1
  <2> QED
    BY <2>2 DEF e
<1> HIDE DEF back
<1>5. Follows(back, D, Z, value, parent)
  BY <1>4 DEF Follows
<1> QED
  BY <1>5

-----------------------------------------------------------------------------
(* The history of HEAD                                                     *)

CommitUp(h) == CHOOSE up : Reached(up, h.commits, h.commit, Cardinality(DOMAIN h.commits))
GenerationUp(h) == CHOOSE up : Reached(up, h.generations, h.head, Cardinality(DOMAIN h.generations))

LEMMA CommitsReached ==
    ASSUME NEW h, HistoryShape(h)
    PROVE  /\ h.commit \in CommitsOf(h) /\ CommitsOf(h) \subseteq DOMAIN h.commits
           /\ ClosedUnder(CommitsOf(h), h.commits)
           /\ \A T : h.commit \in T /\ ClosedUnder(T, h.commits) => CommitsOf(h) \subseteq T
<1>1. CommitsOf(h) = CommitUp(h)[Cardinality(DOMAIN h.commits)]
  BY DEF CommitsOf, CommitUp, Reached
<1>2. /\ IsFiniteSet(DOMAIN h.commits) /\ 0 \notin DOMAIN h.commits /\ h.commit \in DOMAIN h.commits
      /\ \A c \in DOMAIN h.commits : h.commits[c].parent \in DOMAIN h.commits \cup {0}
  BY DEF HistoryShape
<1> QED
  BY <1>1, <1>2, ReachedAll DEF CommitUp

LEMMA GenerationsReached ==
    ASSUME NEW h, HistoryShape(h)
    PROVE  /\ h.head \in GenerationsOf(h) /\ GenerationsOf(h) \subseteq DOMAIN h.generations
           /\ ClosedUnder(GenerationsOf(h), h.generations)
           /\ \A T : h.head \in T /\ ClosedUnder(T, h.generations) => GenerationsOf(h) \subseteq T
<1>1. GenerationsOf(h) = GenerationUp(h)[Cardinality(DOMAIN h.generations)]
  BY DEF GenerationsOf, GenerationUp, Reached
<1>2. /\ IsFiniteSet(DOMAIN h.generations) /\ 0 \notin DOMAIN h.generations /\ h.head \in DOMAIN h.generations
      /\ \A g \in DOMAIN h.generations : h.generations[g].parent \in DOMAIN h.generations \cup {0}
  BY DEF HistoryShape
<1> QED
  BY <1>1, <1>2, ReachedAll DEF GenerationUp

(* What an intact history says of its commits.                             *)
CommitsIntact(h) ==
    \A c \in CommitsOf(h) :
        /\ h.commits[c].sound /\ h.commits[c].previous = h.commits[c].parent
        /\ h.commits[c].parent # 0 => h.commits[h.commits[c].parent].version + 1 = h.commits[c].version

(* It is a line: the versions are those of HEAD and before, one commit     *)
(* each.                                                                   *)
LEMMA CommitsOnLine ==
    ASSUME NEW h, HistoryShape(h), CommitsIntact(h)
    PROVE  /\ \A a, b \in CommitsOf(h) : h.commits[a].version = h.commits[b].version => a = b
           /\ \A a, c \in CommitsOf(h) :
                 h.commits[a].version < h.commits[c].version => h.commits[c].parent # 0
<1> DEFINE C == CommitsOf(h)
           v(c) == h.commits[c].version
           up(c) == h.commits[c].parent
           last == v(h.commit)
<1>1. /\ h.commit \in C /\ C \subseteq DOMAIN h.commits /\ ClosedUnder(C, h.commits)
      /\ \A T : h.commit \in T /\ ClosedUnder(T, h.commits) => C \subseteq T
  BY CommitsReached
<1>2. \A c \in C : v(c) \in Nat /\ (up(c) # 0 => up(c) \in C /\ v(up(c)) + 1 = v(c))
  BY <1>1 DEF HistoryShape, CommitsIntact, ClosedUnder
<1>3. \A c \in C : v(c) <= last
  <2> DEFINE T == {c \in C : v(c) <= last}
  <2>1. h.commit \in T
    BY <1>1, <1>2
  <2>2. ClosedUnder(T, h.commits)
    BY <1>1, <1>2 DEF ClosedUnder
  <2>3. C \subseteq T
    BY <1>1, <2>1, <2>2
  <2> QED
    BY <2>3
<1>4. ASSUME NEW c \in C, c # h.commit
      PROVE  \E x \in C : up(x) = c
  <2> SUFFICES ASSUME \A x \in C : up(x) # c PROVE FALSE
    OBVIOUS
  <2>1. h.commit \in C \ {c} /\ ClosedUnder(C \ {c}, h.commits)
    BY <1>1, <1>4 DEF ClosedUnder
  <2>2. C \subseteq C \ {c}
    BY <1>1, <2>1
  <2> QED
    BY <2>2
<1> HIDE DEF C, v, up, last
<1>5. last \in Nat /\ h.commit \in C /\ v(h.commit) = last
  BY <1>1, <1>2 DEF last
<1>6. ASSUME NEW c \in C, NEW b \in C, v(b) < v(c)
      PROVE  \E x \in C : up(x) # 0 /\ v(x) = v(c)
  <2> DEFINE T == {n \in Nat : v(b) < n /\ n <= last /\ ~\E x \in C : up(x) # 0 /\ v(x) = n}
  <2> SUFFICES ASSUME T # {} PROVE FALSE
    BY <1>2, <1>3, <1>6
  <2>1. PICK n \in T : \A m \in T : n <= m
    BY LeastNumber
  <2>2. PICK y \in C : v(y) = n - 1
    <3>1. CASE v(b) = n - 1
      BY <3>1
    <3>2. CASE v(b) # n - 1
      <4>1. n - 1 \in Nat /\ v(b) < n - 1 /\ n - 1 <= last /\ n - 1 \notin T
        BY <1>2, <1>5, <2>1, <3>2
      <4> QED
        BY <4>1
    <3> QED
      BY <3>1, <3>2
  <2>3. y # h.commit
    BY <1>5, <2>1, <2>2
  <2>4. PICK x \in C : up(x) = y
    BY <1>4, <2>3
  <2>5. y # 0
    BY <1>1 DEF HistoryShape, C
  <2>6. up(x) # 0 /\ v(x) = n
    BY <1>2, <2>1, <2>2, <2>4, <2>5
  <2> QED
    BY <2>1, <2>6
<1>7. ASSUME NEW a \in C, NEW b \in C, v(a) = v(b)
      PROVE  a = b
  <2> DEFINE T == {n \in Nat : \E x, y \in C : x # y /\ v(x) = v(y) /\ n = last - v(x)}
  <2> SUFFICES ASSUME a # b PROVE FALSE
    OBVIOUS
  <2>1. last - v(a) \in T
    BY <1>2, <1>3, <1>5, <1>7
  <2>2. PICK n \in T : \A m \in T : n <= m
    BY <2>1, LeastNumber
  <2>3. PICK x \in C, y \in C : x # y /\ v(x) = v(y) /\ n = last - v(x)
    BY <2>2
  <2>4. ASSUME NEW c \in C, c # h.commit
        PROVE  \E z \in C : up(z) = c /\ v(z) = v(c) + 1 /\ v(c) < last
    <3>1. PICK z \in C : up(z) = c
      BY <1>4, <2>4
    <3>2. c # 0
      BY <1>1 DEF HistoryShape, C
    <3> QED
      BY <1>2, <1>3, <1>5, <3>1, <3>2
  <2>5. x # h.commit /\ y # h.commit
    BY <1>5, <1>2, <2>3, <2>4
  <2>6. PICK s \in C : up(s) = x /\ v(s) = v(x) + 1 /\ v(x) < last
    BY <2>4, <2>5
  <2>7. PICK t \in C : up(t) = y /\ v(t) = v(y) + 1
    BY <2>4, <2>5
  <2>8. s # t /\ v(s) = v(t)
    BY <2>3, <2>6, <2>7
  <2>9. last - v(s) \in Nat /\ last - v(s) < n
    BY <1>2, <1>3, <1>5, <2>3, <2>6
  <2>10. last - v(s) \in T
    BY <2>8, <2>9
  <2> QED
    BY <2>2, <2>9, <2>10
<1>8. ASSUME NEW a \in C, NEW c \in C, v(a) < v(c) PROVE up(c) # 0
  <2>1. PICK x \in C : up(x) # 0 /\ v(x) = v(c)
    BY <1>6, <1>8
  <2> QED
    BY <1>7, <2>1
<1> QED
  BY <1>7, <1>8 DEF C, v, up

(* The walk along semantic parents.                                        *)
Back(back, h, c, p) ==
    LET parent == h.generations[p]
    IN  back = [x \in DOMAIN h.commits |->
          LET a == h.commits[x].parent
          IN  IF a = 0 THEN 0
              ELSE IF h.commits[a].version + 1 # h.commits[x].version \/ a # h.commits[x].previous THEN 0
              ELSE IF h.commits[a].version = parent.version
              THEN IF a = parent.commit /\ ValidCommit(h, a, parent.version, parent.state)
                   THEN FromAncestor(c, a) ELSE 0
              ELSE IF ValidCommit(h, a, h.commits[a].version, a) THEN back[a] ELSE 0]

AncestorBack(h, c, p) == CHOOSE back : Back(back, h, c, p)

LEMMA BackExists ==
    ASSUME NEW h, HistoryShape(h), NEW c, NEW p
    PROVE  Back(AncestorBack(h, c, p), h, c, p)
<1> DEFINE D == DOMAIN h.commits
           parent == h.generations[p]
           up(x) == h.commits[x].parent
           broken(x) == up(x) = 0 \/ h.commits[up(x)].version + 1 # h.commits[x].version
                        \/ up(x) # h.commits[x].previous
           there(x) == h.commits[up(x)].version = parent.version
           found(x) == up(x) = parent.commit /\ ValidCommit(h, up(x), parent.version, parent.state)
           goes(x) == ValidCommit(h, up(x), h.commits[up(x)].version, up(x))
           Z == {x \in D : broken(x) \/ there(x) \/ ~goes(x)}
           value == [x \in D |-> IF ~broken(x) /\ there(x) /\ found(x) THEN up(x) ELSE 0]
           ups == [x \in D |-> up(x)]
<1>1. \A x \in D \ Z : ups[x] \in D
  BY DEF HistoryShape
<1>2. ASSUME NEW back
      PROVE  Back(back, h, c, p) <=> Follows(back, D, Z, value, ups)
  <2> DEFINE one(x) == IF up(x) = 0 THEN 0
                       ELSE IF h.commits[up(x)].version + 1 # h.commits[x].version \/ up(x) # h.commits[x].previous
                       THEN 0
                       ELSE IF there(x) THEN IF found(x) THEN up(x) ELSE 0
                       ELSE IF goes(x) THEN back[up(x)] ELSE 0
             two(x) == IF x \in Z THEN value[x] ELSE back[ups[x]]
  <2>1. Back(back, h, c, p) <=> back = [x \in D |-> one(x)]
    BY DEF Back, FromAncestor
  <2>2. \A x \in D : one(x) = two(x)
    <3> HIDE DEF up, there, found, goes
    <3> QED
      OBVIOUS
  <2> HIDE DEF one, two
  <2>3. [x \in D |-> one(x)] = [x \in D |-> two(x)]
    BY <2>2
  <2>4. Follows(back, D, Z, value, ups) <=> back = [x \in D |-> two(x)]
    BY DEF Follows, two
  <2> QED
    BY <2>1, <2>3, <2>4
<1> HIDE DEF D, Z, value, ups
<1>3. \E back : Follows(back, D, Z, value, ups)
  BY <1>1, FollowsExists, Zenon
<1>4. \E back : Back(back, h, c, p)
  BY <1>2, <1>3
<1> QED
  BY <1>4 DEF AncestorBack

LEMMA AncestorIs ==
    ASSUME NEW h, NEW c, NEW p
    PROVE  SemanticAncestor(h, c, p) = AncestorBack(h, c, p)[c]
BY DEF SemanticAncestor, AncestorBack, Back

(* An ancestor that is found is the commit of the generation, and in the   *)
(* history of the commit the walk set out from.                            *)
LEMMA AncestorSound ==
    ASSUME NEW h, HistoryShape(h), NEW c \in DOMAIN h.commits, NEW p,
           SemanticAncestor(h, c, p) # 0
    PROVE  /\ SemanticAncestor(h, c, p) = h.generations[p].commit
           /\ SemanticAncestor(h, c, p) \in DOMAIN h.commits
           /\ c \in CommitsOf(h) => SemanticAncestor(h, c, p) \in CommitsOf(h)
<1> DEFINE back == AncestorBack(h, c, p)
           D == DOMAIN h.commits
           C == CommitsOf(h)
           parent == h.generations[p]
           up(x) == h.commits[x].parent
           v(x) == h.commits[x].version
           Good(x) == /\ back[x] = parent.commit /\ back[x] \in D
                      /\ x \in C => back[x] \in C
           T == {n \in Nat : \E x \in D : n = v(x) /\ back[x] # 0 /\ ~Good(x)}
<1>1. Back(back, h, c, p)
  BY BackExists
<1> HIDE DEF back
<1>2. ASSUME NEW x \in D, back[x] # 0
      PROVE  /\ up(x) # 0 /\ v(up(x)) + 1 = v(x)
             /\ \/ back[x] = up(x) /\ up(x) = parent.commit
                \/ back[x] = back[up(x)]
  BY <1>1, <1>2 DEF Back, FromAncestor
<1>3. \A x \in D : v(x) \in Nat /\ (up(x) # 0 => up(x) \in D)
  BY DEF HistoryShape
<1>4. \A x \in C : up(x) # 0 => up(x) \in C
  BY CommitsReached DEF ClosedUnder
<1> HIDE DEF D, C, up, v, parent
<1>5. T = {}
  <2> SUFFICES ASSUME T # {} PROVE FALSE
    OBVIOUS
  <2>1. PICK n \in T : \A m \in T : n <= m
    BY LeastNumber
  <2>2. PICK x \in D : n = v(x) /\ back[x] # 0 /\ ~Good(x)
    BY <2>1
  <2>3. up(x) \in D /\ v(up(x)) \in Nat /\ v(up(x)) + 1 = v(x) /\ (x \in C => up(x) \in C)
    BY <1>2, <1>3, <1>4, <2>2
  <2>4. back[x] # up(x) \/ up(x) # parent.commit
    BY <2>2, <2>3
  <2>5. back[x] = back[up(x)]
    BY <1>2, <2>2, <2>4
  <2>6. ~Good(up(x)) /\ back[up(x)] # 0
    BY <2>2, <2>3, <2>5
  <2>7. v(up(x)) \in T
    BY <2>3, <2>6
  <2> QED
    BY <2>1, <2>2, <2>3, <2>7
<1>6. c \in D /\ back[c] # 0
  BY AncestorIs DEF back, D
<1>7. Good(c)
  BY <1>3, <1>5, <1>6
<1> QED
  BY <1>7, AncestorIs DEF back, D, C, parent

(* In an intact history the commit of an older generation is found.        *)
LEMMA AncestorFound ==
    ASSUME NEW h, HistoryShape(h), CommitsIntact(h), NEW c \in CommitsOf(h), NEW p,
           h.generations[p].commit \in CommitsOf(h),
           h.generations[p].state = h.generations[p].commit,
           h.generations[p].version = h.commits[h.generations[p].commit].version,
           h.generations[p].version < h.commits[c].version
    PROVE  SemanticAncestor(h, c, p) # 0
<1> DEFINE back == AncestorBack(h, c, p)
           C == CommitsOf(h)
           parent == h.generations[p]
           up(x) == h.commits[x].parent
           v(x) == h.commits[x].version
           T == {n \in Nat : \E x \in C : n = v(x) /\ parent.version < n /\ back[x] = 0}
<1>1. Back(back, h, c, p)
  BY BackExists
<1>2. C \subseteq DOMAIN h.commits /\ \A x \in C : v(x) \in Nat /\ x # 0
  BY CommitsReached DEF HistoryShape
<1>3. ASSUME NEW x \in C, parent.version < v(x)
      PROVE  up(x) \in C /\ up(x) # 0 /\ v(up(x)) + 1 = v(x) /\ up(x) = h.commits[x].previous /\ h.commits[up(x)].sound
  <2>1. up(x) # 0
    BY <1>3, CommitsOnLine
  <2> QED
    BY <2>1, CommitsReached DEF ClosedUnder, CommitsIntact
<1>4. ASSUME NEW x \in C, parent.version < v(x), back[x] = 0
      PROVE  v(up(x)) # parent.version /\ back[up(x)] = 0
  <2>1. x \in DOMAIN h.commits
    BY <1>2
  <2>2. back[x] = IF v(up(x)) = parent.version
                  THEN IF up(x) = parent.commit /\ ValidCommit(h, up(x), parent.version, parent.state)
                       THEN up(x) ELSE 0
                  ELSE IF ValidCommit(h, up(x), v(up(x)), up(x)) THEN back[up(x)] ELSE 0
    BY <1>1, <1>3, <1>4, <2>1 DEF Back, FromAncestor
  <2>3. v(up(x)) = parent.version => up(x) = parent.commit
    BY <1>3, <1>4, CommitsOnLine
  <2>4. up(x) = parent.commit => ValidCommit(h, up(x), parent.version, parent.state)
    BY <1>3, <1>4 DEF ValidCommit
  <2>5. ValidCommit(h, up(x), v(up(x)), up(x))
    BY <1>3, <1>4 DEF ValidCommit
  <2> QED
    BY <1>3, <1>4, <2>2, <2>3, <2>4, <2>5
<1>5. parent.version \in Nat
  BY CommitsReached DEF HistoryShape
<1> HIDE DEF back, C, up, v, parent
<1>6. T = {}
  <2> SUFFICES ASSUME T # {} PROVE FALSE
    OBVIOUS
  <2>1. PICK n \in T : \A m \in T : n <= m
    BY LeastNumber
  <2>2. PICK x \in C : n = v(x) /\ parent.version < n /\ back[x] = 0
    BY <2>1
  <2>3. up(x) \in C /\ v(up(x)) + 1 = v(x) /\ v(up(x)) # parent.version /\ back[up(x)] = 0
    BY <1>3, <1>4, <2>2
  <2>4. v(up(x)) \in Nat /\ v(up(x)) < n /\ parent.version < v(up(x))
    BY <1>2, <1>5, <2>2, <2>3
  <2>5. v(up(x)) \in T
    BY <2>3, <2>4
  <2> QED
    BY <2>1, <2>4, <2>5
<1>7. c \in C /\ v(c) \in Nat /\ parent.version < v(c)
  BY <1>2 DEF C, v, parent
<1>8. back[c] # 0
  BY <1>6, <1>7
<1> QED
  BY <1>8, AncestorIs DEF back

-----------------------------------------------------------------------------
(* The two walks along physical parents, turn by turn                      *)

Outcomes == {"walking", None, "corrupt", "history not retained"}

WalkStates(h) ==
    [generation : DOMAIN h.generations, commit : DOMAIN h.commits,
     seen : SUBSET DOMAIN h.generations, outcome : Outcomes]
WalkBegin(h) == [generation |-> h.head, commit |-> h.commit, seen |-> {}, outcome |-> "walking"]

PinStates(h) ==
    [generation : DOMAIN h.generations, seen : SUBSET DOMAIN h.generations, outcome : Outcomes]
PinBegin(h) == [generation |-> h.head, seen |-> {h.head}, outcome |-> "walking"]

Turns(h) == Cardinality(DOMAIN h.generations)

(* f is where the reader's walk is after each turn.                        *)
Walked(f, h, wanted) ==
    /\ f \in [0..Turns(h) + 1 -> WalkStates(h)] /\ f[0] = WalkBegin(h)
    /\ \A n \in 1..Turns(h) + 1 : f[n] = NextParent(h, wanted, f[n - 1])

(* f is where the runtime's walk is after each turn.                       *)
Pinned(f, h, wanted) ==
    /\ f \in [0..Turns(h) + 1 -> PinStates(h)] /\ f[0] = PinBegin(h)
    /\ \A n \in 1..Turns(h) + 1 : f[n] = LoadParent(h, wanted, f[n - 1])

LEMMA TurnsNat == ASSUME NEW h, HistoryShape(h) PROVE Turns(h) \in Nat
BY FS_CardinalityType DEF HistoryShape, Turns

LEMMA NextParentType ==
    ASSUME NEW h, HistoryShape(h), NEW wanted, NEW at \in WalkStates(h)
    PROVE  NextParent(h, wanted, at) \in WalkStates(h)
<1> DEFINE p == h.generations[at.generation].parent
           ancestor == SemanticAncestor(h, at.commit, p)
<1>1. p # 0 => p \in DOMAIN h.generations
  BY DEF HistoryShape, WalkStates
<1>2. ancestor # 0 => ancestor \in DOMAIN h.commits
  BY AncestorSound DEF WalkStates
<1>3. \A outcome \in Outcomes : [at EXCEPT !.outcome = outcome] \in WalkStates(h)
  BY DEF WalkStates
<1>4. p # 0 => [at EXCEPT !.generation = p, !.seen = @ \cup {at.generation}] \in WalkStates(h)
  BY <1>1 DEF WalkStates
<1>5. p # 0 /\ ancestor # 0 =>
          [at EXCEPT !.generation = p, !.commit = ancestor, !.seen = @ \cup {at.generation}] \in WalkStates(h)
  BY <1>1, <1>2 DEF WalkStates
<1> HIDE DEF p, ancestor
<1> QED
  BY <1>3, <1>4, <1>5 DEF NextParent, Outcomes, p, ancestor

LEMMA LoadParentType ==
    ASSUME NEW h, HistoryShape(h), NEW wanted, NEW at \in PinStates(h)
    PROVE  LoadParent(h, wanted, at) \in PinStates(h)
<1> DEFINE p == h.generations[at.generation].parent
<1>1. p # 0 => p \in DOMAIN h.generations
  BY DEF HistoryShape, PinStates
<1>2. \A outcome \in Outcomes : [at EXCEPT !.outcome = outcome] \in PinStates(h)
  BY DEF PinStates
<1>3. p # 0 => [at EXCEPT !.generation = p, !.seen = @ \cup {p}] \in PinStates(h)
  BY <1>1 DEF PinStates
<1> QED
  BY <1>2, <1>3 DEF LoadParent, Outcomes

LEMMA WalkExists ==
    ASSUME NEW h, HistoryShape(h), NEW wanted
    PROVE  \E f : Walked(f, h, wanted)
<1> DEFINE A == WalkStates(h)
           N == Turns(h) + 1
           F == [at \in A |-> NextParent(h, wanted, at)]
<1>1. F \in [A -> A]
  BY NextParentType
<1>2. WalkBegin(h) \in A
  BY DEF WalkStates, WalkBegin, Outcomes, HistoryShape
<1>3. N \in Nat
  BY TurnsNat
<1>4. \A at \in A : F[at] = NextParent(h, wanted, at)
  OBVIOUS
<1> HIDE DEF A, F
<1>5. Iterates(A, F, WalkBegin(h), N)
  BY <1>1, <1>2, <1>3, Iterated
<1>6. PICK f \in [0..N -> A] : f[0] = WalkBegin(h) /\ \A n \in 1..N : f[n] = F[f[n - 1]]
  BY <1>5 DEF Iterates
<1>7. \A n \in 1..N : f[n] = NextParent(h, wanted, f[n - 1])
  BY <1>3, <1>4, <1>6
<1> QED
  BY <1>6, <1>7 DEF Walked, A

LEMMA PinExists ==
    ASSUME NEW h, HistoryShape(h), NEW wanted
    PROVE  \E f : Pinned(f, h, wanted)
<1> DEFINE A == PinStates(h)
           N == Turns(h) + 1
           F == [at \in A |-> LoadParent(h, wanted, at)]
<1>1. F \in [A -> A]
  BY LoadParentType
<1>2. PinBegin(h) \in A
  BY DEF PinStates, PinBegin, Outcomes, HistoryShape
<1>3. N \in Nat
  BY TurnsNat
<1>4. \A at \in A : F[at] = LoadParent(h, wanted, at)
  OBVIOUS
<1> HIDE DEF A, F
<1>5. Iterates(A, F, PinBegin(h), N)
  BY <1>1, <1>2, <1>3, Iterated
<1>6. PICK f \in [0..N -> A] : f[0] = PinBegin(h) /\ \A n \in 1..N : f[n] = F[f[n - 1]]
  BY <1>5 DEF Iterates
<1>7. \A n \in 1..N : f[n] = LoadParent(h, wanted, f[n - 1])
  BY <1>3, <1>4, <1>6
<1> QED
  BY <1>6, <1>7 DEF Pinned, A

WalkTurn(turn, h, wanted) ==
    turn = [n \in 0..Turns(h) |->
              {NextParent(h, wanted, at) : at \in IF n = 0 THEN {WalkBegin(h)} ELSE turn[n - 1]}]
PinTurn(turn, h, wanted) ==
    turn = [n \in 0..Turns(h) |->
              {LoadParent(h, wanted, at) : at \in IF n = 0 THEN {PinBegin(h)} ELSE turn[n - 1]}]

WalkAnswer(end) == IF end.outcome = None THEN Selected(end.generation, end.commit) ELSE NotSelected(end.outcome)

(* The answers of the walks are where they are after the last turn.        *)
LEMMA WalkEnd ==
    ASSUME NEW h, HistoryShape(h), NEW wanted, NEW f, Walked(f, h, wanted)
    PROVE  Walk(h, wanted) = WalkAnswer(f[Turns(h) + 1])
<1> DEFINE N == Turns(h)
           step(S) == {NextParent(h, wanted, at) : at \in S}
           mine == [n \in 0..N |-> {f[n + 1]}]
           turn == CHOOSE turn : WalkTurn(turn, h, wanted)
<1>1. N \in Nat
  BY TurnsNat
<1>2. \A n \in 1..N + 1 : f[n] = NextParent(h, wanted, f[n - 1])
  BY DEF Walked
<1>3. \A x : step({x}) = {NextParent(h, wanted, x)}
  OBVIOUS
<1>4. \A t : WalkTurn(t, h, wanted) <=> t = [n \in 0..N |-> step(IF n = 0 THEN {WalkBegin(h)} ELSE t[n - 1])]
  BY DEF WalkTurn
<1>5. f[0] = WalkBegin(h)
  BY DEF Walked
<1> HIDE DEF step, N
<1>6. \A n \in 0..N : {f[n + 1]} = step({f[n]})
  <2> TAKE n \in 0..N
  <2>1. n + 1 \in 1..N + 1 /\ (n + 1) - 1 = n
    BY <1>1
  <2>2. f[n + 1] = NextParent(h, wanted, f[n])
    BY <1>2, <2>1
  <2> QED
    BY <1>3, <2>2
<1>7. WalkTurn(mine, h, wanted)
  <2> DEFINE e(n) == step(IF n = 0 THEN {WalkBegin(h)} ELSE mine[n - 1])
  <2>1. ASSUME NEW n \in 0..N PROVE {f[n + 1]} = e(n)
    <3>1. CASE n = 0
      BY <1>1, <1>5, <1>6, <3>1
    <3>2. CASE n # 0
      <4>1. n - 1 \in 0..N /\ (n - 1) + 1 = n
        BY <1>1, <3>2
      <4>2. mine[n - 1] = {f[n]}
        BY <4>1
      <4> QED
        BY <1>6, <3>2, <4>2
    <3> QED
      BY <3>1, <3>2
  <2> HIDE DEF e
  <2>2. mine = [n \in 0..N |-> e(n)]
    BY <2>1
  <2>3. mine = [n \in 0..N |-> step(IF n = 0 THEN {WalkBegin(h)} ELSE mine[n - 1])]
    BY <2>2 DEF e
  <2> HIDE DEF mine
  <2> QED
    BY <1>4, <2>3
<1> HIDE DEF mine
<1>8. WalkTurn(turn, h, wanted)
  BY <1>7
<1> HIDE DEF turn
<1>9. \A n \in 0..N : turn[n] = step(IF n = 0 THEN {WalkBegin(h)} ELSE turn[n - 1])
  BY <1>4, <1>8
<1>10. turn[N] = {f[N + 1]}
  <2> DEFINE S == {n \in 0..N : turn[n] = {f[n + 1]}}
  <2>1. 0 \in S
    <3>1. 0 \in 0..N
      BY <1>1
    <3>2. turn[0] = step({WalkBegin(h)})
      BY <1>9, <3>1, Zenon
    <3> QED
      BY <3>1, <3>2, <1>5, <1>6
  <2>2. ASSUME NEW n \in 1..N, n - 1 \in S PROVE n \in S
    <3>1. n \in 0..N /\ n # 0 /\ turn[n - 1] = {f[n]}
      BY <1>1, <2>2
    <3>2. turn[n] = step(turn[n - 1])
      BY <1>9, <3>1
    <3> QED
      BY <1>6, <3>1, <3>2
  <2> HIDE DEF S
  <2>3. 0..N \subseteq S
    BY <1>1, <2>1, <2>2, UpTo
  <2> QED
    BY <1>1, <2>3 DEF S
<1>11. Walk(h, wanted) = WalkAnswer(CHOOSE at \in turn[N] : TRUE)
  BY DEF Walk, turn, N, Turns, WalkTurn, WalkBegin, WalkAnswer
<1> QED
  BY <1>10, <1>11 DEF N

PinAnswer(h, version, end) ==
    IF h.generations[h.head].version # h.version \/ h.generations[h.head].commit # h.commit
       \/ ~Loads(h, h.head)
    THEN NotSelected("corrupt")
    ELSE IF version > h.version THEN NotSelected("version not found")
    ELSE IF end.outcome # None THEN NotSelected(end.outcome)
    ELSE Selected(end.generation, h.generations[end.generation].commit)

LEMMA PinEnd ==
    ASSUME NEW h, HistoryShape(h), NEW wanted, NEW version,
           version = IF wanted = Current THEN h.version ELSE wanted, NEW f, Pinned(f, h, version)
    PROVE  PinMetadata(h, wanted) = PinAnswer(h, version, f[Turns(h) + 1])
<1> DEFINE N == Turns(h)
           step(S) == {LoadParent(h, version, at) : at \in S}
           mine == [n \in 0..N |-> {f[n + 1]}]
           turn == CHOOSE turn : PinTurn(turn, h, version)
<1>1. N \in Nat
  BY TurnsNat
<1>2. \A n \in 1..N + 1 : f[n] = LoadParent(h, version, f[n - 1])
  BY DEF Pinned
<1>3. \A x : step({x}) = {LoadParent(h, version, x)}
  OBVIOUS
<1>4. \A t : PinTurn(t, h, version) <=> t = [n \in 0..N |-> step(IF n = 0 THEN {PinBegin(h)} ELSE t[n - 1])]
  BY DEF PinTurn
<1>5. f[0] = PinBegin(h)
  BY DEF Pinned
<1> HIDE DEF step, N
<1>6. \A n \in 0..N : {f[n + 1]} = step({f[n]})
  <2> TAKE n \in 0..N
  <2>1. n + 1 \in 1..N + 1 /\ (n + 1) - 1 = n
    BY <1>1
  <2>2. f[n + 1] = LoadParent(h, version, f[n])
    BY <1>2, <2>1
  <2> QED
    BY <1>3, <2>2
<1>7. PinTurn(mine, h, version)
  <2> DEFINE e(n) == step(IF n = 0 THEN {PinBegin(h)} ELSE mine[n - 1])
  <2>1. ASSUME NEW n \in 0..N PROVE {f[n + 1]} = e(n)
    <3>1. CASE n = 0
      BY <1>1, <1>5, <1>6, <3>1
    <3>2. CASE n # 0
      <4>1. n - 1 \in 0..N /\ (n - 1) + 1 = n
        BY <1>1, <3>2
      <4>2. mine[n - 1] = {f[n]}
        BY <4>1
      <4> QED
        BY <1>6, <3>2, <4>2
    <3> QED
      BY <3>1, <3>2
  <2> HIDE DEF e
  <2>2. mine = [n \in 0..N |-> e(n)]
    BY <2>1
  <2>3. mine = [n \in 0..N |-> step(IF n = 0 THEN {PinBegin(h)} ELSE mine[n - 1])]
    BY <2>2 DEF e
  <2> HIDE DEF mine
  <2> QED
    BY <1>4, <2>3
<1> HIDE DEF mine
<1>8. PinTurn(turn, h, version)
  BY <1>7
<1> HIDE DEF turn
<1>9. \A n \in 0..N : turn[n] = step(IF n = 0 THEN {PinBegin(h)} ELSE turn[n - 1])
  BY <1>4, <1>8
<1>10. turn[N] = {f[N + 1]}
  <2> DEFINE S == {n \in 0..N : turn[n] = {f[n + 1]}}
  <2>1. 0 \in S
    <3>1. 0 \in 0..N
      BY <1>1
    <3>2. turn[0] = step({PinBegin(h)})
      BY <1>9, <3>1, Zenon
    <3> QED
      BY <3>1, <3>2, <1>5, <1>6
  <2>2. ASSUME NEW n \in 1..N, n - 1 \in S PROVE n \in S
    <3>1. n \in 0..N /\ n # 0 /\ turn[n - 1] = {f[n]}
      BY <1>1, <2>2
    <3>2. turn[n] = step(turn[n - 1])
      BY <1>9, <3>1
    <3> QED
      BY <1>6, <3>1, <3>2
  <2> HIDE DEF S
  <2>3. 0..N \subseteq S
    BY <1>1, <2>1, <2>2, UpTo
  <2> QED
    BY <1>1, <2>3 DEF S
<1>11. PinMetadata(h, wanted) = PinAnswer(h, version, CHOOSE at \in turn[N] : TRUE)
  BY DEF PinMetadata, turn, N, Turns, PinTurn, PinBegin, PinAnswer
<1> QED
  BY <1>10, <1>11 DEF N

(* The reader stays in the history of HEAD.                                *)
OnHistory(h, v, at) ==
    /\ at.generation \in GenerationsOf(h) /\ at.commit \in CommitsOf(h)
    /\ at.commit = h.generations[at.generation].commit
    /\ at.outcome = None => h.generations[at.generation].version = v

LEMMA StaysOnHistory ==
    ASSUME NEW h, HistoryShape(h), NEW v, NEW at \in WalkStates(h), OnHistory(h, v, at)
    PROVE  OnHistory(h, v, NextParent(h, v, at))
<1> DEFINE g == at.generation
           p == h.generations[g].parent
           ancestor == SemanticAncestor(h, at.commit, p)
           new == NextParent(h, v, at)
           along == [at EXCEPT !.generation = p, !.seen = @ \cup {g}]
           back == [at EXCEPT !.generation = p, !.commit = ancestor, !.seen = @ \cup {g}]
<1>1. p # 0 => p \in GenerationsOf(h)
  BY GenerationsReached DEF ClosedUnder, OnHistory
<1>2. ancestor # 0 => ancestor = h.generations[p].commit /\ ancestor \in CommitsOf(h)
  BY AncestorSound, CommitsReached DEF OnHistory
<1>3. \A outcome \in Outcomes \ {None} : OnHistory(h, v, [at EXCEPT !.outcome = outcome])
  BY DEF OnHistory, WalkStates
<1>4. h.generations[g].version = v => OnHistory(h, v, [at EXCEPT !.outcome = None])
  BY DEF OnHistory, WalkStates
<1>5. (at.outcome = "walking" /\ p # 0 /\ h.generations[p].commit = h.generations[g].commit) => OnHistory(h, v, along)
  BY <1>1 DEF OnHistory, WalkStates, None
<1>6. (at.outcome = "walking" /\ p # 0 /\ ancestor # 0) => OnHistory(h, v, back)
  BY <1>1, <1>2 DEF OnHistory, WalkStates, None
<1>7. \/ new = at
      \/ \E outcome \in Outcomes \ {None} : new = [at EXCEPT !.outcome = outcome]
      \/ h.generations[g].version = v /\ new = [at EXCEPT !.outcome = None]
      \/ at.outcome = "walking" /\ p # 0 /\ h.generations[p].commit = h.generations[g].commit /\ new = along
      \/ at.outcome = "walking" /\ p # 0 /\ ancestor # 0 /\ new = back
  <2>1. {"corrupt", "history not retained"} \subseteq Outcomes \ {None}
    BY DEF Outcomes, None
  <2> HIDE DEF ancestor
  <2> QED
    BY <2>1 DEF NextParent, ancestor
<1> QED
  BY <1>3, <1>4, <1>5, <1>6, <1>7

(* A reader that is given a generation has the one it wanted.              *)
LEMMA SelectedOnHistory ==
    ASSUME NEW h, HistoryShape(h), NEW wanted, SelectMetadata(h, wanted).error = None
    PROVE  LET chosen == SelectMetadata(h, wanted)
           IN  /\ h.generations[chosen.generation].version = IF wanted = Current THEN h.version ELSE wanted
               /\ h.generations[chosen.generation].commit \in CommitsOf(h)
               /\ chosen.generation \in GenerationsOf(h)
               /\ chosen.commit = h.generations[chosen.generation].commit
<1> DEFINE v == IF wanted = Current THEN h.version ELSE wanted
           N == Turns(h) + 1
<1>1. SelectMetadata(h, wanted) = Walk(h, v) /\ h.generations[h.head].commit = h.commit
  BY DEF SelectMetadata, NotSelected, None
<1> HIDE DEF v
<1>2. PICK f : Walked(f, h, v)
  BY WalkExists
<1>3. N \in Nat
  BY TurnsNat
<1>4. OnHistory(h, v, f[N])
  <2> DEFINE S == {n \in 0..N : OnHistory(h, v, f[n])}
  <2>1. 0 \in S
    <3>1. f[0] = WalkBegin(h)
      BY <1>2 DEF Walked
    <3>2. OnHistory(h, v, WalkBegin(h))
      BY <1>1, GenerationsReached, CommitsReached DEF OnHistory, WalkBegin, None
    <3> QED
      BY <1>3, <3>1, <3>2
  <2>2. ASSUME NEW n \in 1..N, n - 1 \in S PROVE n \in S
    <3>1. f[n - 1] \in WalkStates(h) /\ f[n] = NextParent(h, v, f[n - 1]) /\ n \in 0..N
      BY <1>2, <1>3 DEF Walked
    <3>2. OnHistory(h, v, f[n - 1])
      BY <2>2
    <3> QED
      BY <3>1, <3>2, StaysOnHistory
  <2> HIDE DEF S
  <2>3. 0..N \subseteq S
    BY <1>3, <2>1, <2>2, UpTo
  <2> QED
    BY <1>3, <2>3 DEF S
<1>5. Walk(h, v) = WalkAnswer(f[N])
  BY <1>2, WalkEnd
<1>6. f[N].outcome = None /\ Walk(h, v) = Selected(f[N].generation, f[N].commit)
  BY <1>1, <1>5 DEF WalkAnswer, NotSelected
<1> QED
  BY <1>1, <1>4, <1>6 DEF Selected, OnHistory, v

-----------------------------------------------------------------------------
(* The two walks through an intact history                                 *)

Retained(h, v) == \E g \in GenerationsOf(h) : h.generations[g].version = v

(* Every generation before g has been seen, and is newer than v.           *)
Passed(h, v, seen, g) ==
    /\ seen \subseteq GenerationsOf(h) /\ h.head \in seen \cup {g}
    /\ \A x \in seen : /\ h.generations[x].parent \in seen \cup {g}
                       /\ h.generations[x].version > v

(* Reader and runtime are at the same generation, after n turns.           *)
InStep(h, v, n, w, q) ==
    /\ w.outcome = "walking" /\ q.outcome = "walking"
    /\ w.generation = q.generation /\ q.seen = w.seen \cup {w.generation}
    /\ w.generation \notin w.seen /\ Cardinality(w.seen) = n
    /\ h.generations[w.generation].version >= v
    /\ Passed(h, v, w.seen, w.generation)

(* One has ended and the other is about to.                                *)
Lagging(h, v, w, q) ==
    /\ ~Retained(h, v)
    /\ \/ /\ w.outcome = "history not retained" /\ q.outcome = "walking"
          /\ h.generations[q.generation].version < v
       \/ q.outcome = "corrupt" /\ w.outcome = "walking" /\ w.generation \in w.seen

BothEnded(h, v, w, q) ==
    /\ w.outcome # "walking" /\ w.outcome = q.outcome
    /\ IF w.outcome = None THEN w.generation = q.generation ELSE ~Retained(h, v)

(* What an intact history says of a generation and its parent.             *)
LEMMA GenerationIntact ==
    ASSUME NEW h, HistoryShape(h), Intact(h), NEW g \in GenerationsOf(h)
    PROVE  LET p == h.generations[g].parent
           IN  /\ Loads(h, g) /\ h.generations[g].sound /\ g \in DOMAIN h.generations
               /\ h.generations[g].commit \in CommitsOf(h)
               /\ h.generations[g].state = h.generations[g].commit
               /\ h.generations[g].version = h.commits[h.generations[g].commit].version
               /\ h.generations[g].version \in Nat
               /\ p # 0 => p \in GenerationsOf(h) /\ h.generations[p].version <= h.generations[g].version
<1>1. /\ h.generations[g].commit \in CommitsOf(h) /\ h.generations[g].sound
      /\ h.generations[g].state = h.generations[g].commit
      /\ h.generations[g].version = h.commits[h.generations[g].commit].version
      /\ h.generations[g].parent # 0 =>
             h.generations[h.generations[g].parent].version <= h.generations[g].version
  BY DEF Intact
<1>2. h.commits[h.generations[g].commit].sound
  BY <1>1 DEF Intact
<1>3. Loads(h, g)
  BY <1>1, <1>2 DEF Loads, ValidCommit
<1>4. g \in DOMAIN h.generations /\ (h.generations[g].parent # 0 => h.generations[g].parent \in GenerationsOf(h))
  BY GenerationsReached DEF ClosedUnder
<1>5. h.generations[g].version \in Nat
  BY <1>4 DEF HistoryShape
<1> QED
  BY <1>1, <1>3, <1>4, <1>5

LEMMA CommitsOfIntact ==
    ASSUME NEW h, Intact(h) PROVE CommitsIntact(h)
BY DEF Intact, CommitsIntact

(* Nothing is retained of a version between that of what was seen and the  *)
(* parent of g.                                                            *)
LEMMA NothingBetween ==
    ASSUME NEW h, HistoryShape(h), Intact(h), NEW v \in Nat, NEW seen, NEW g \in GenerationsOf(h),
           Passed(h, v, seen, g), h.generations[g].version > v,
           LET p == h.generations[g].parent
           IN  p = 0 \/ p \in seen \cup {g} \/ h.generations[p].version < v
    PROVE  ~Retained(h, v)
<1> DEFINE GG == GenerationsOf(h)
           T == seen \cup {g} \cup {x \in GG : h.generations[x].version < v}
<1>1. h.head \in T
  BY DEF Passed
<1>2. ASSUME NEW x \in T, h.generations[x].parent # 0
      PROVE  h.generations[x].parent \in T
  <2>1. x \in GG /\ h.generations[x].version \in Nat
    BY GenerationIntact DEF Passed
  <2>2. h.generations[x].parent \in GG /\ h.generations[h.generations[x].parent].version \in Nat
        /\ h.generations[h.generations[x].parent].version <= h.generations[x].version
    BY <1>2, <2>1, GenerationIntact
  <2>3. CASE x \in seen
    BY <2>3 DEF Passed
  <2>4. CASE x = g
    BY <1>2, <2>2, <2>4
  <2>5. CASE h.generations[x].version < v
    BY <2>1, <2>2, <2>5
  <2> QED
    BY <2>3, <2>4, <2>5
<1>3. GG \subseteq T
  <2>1. ClosedUnder(T, h.generations)
    BY <1>2 DEF ClosedUnder
  <2> HIDE DEF T
  <2> QED
    BY <1>1, <2>1, GenerationsReached
<1>4. ASSUME NEW x \in GG PROVE h.generations[x].version # v
  <2>1. h.generations[x].version \in Nat
    BY GenerationIntact
  <2> QED
    BY <1>3, <2>1 DEF Passed
<1> QED
  BY <1>4 DEF Retained

(* The reader goes on to a parent that is not older than v.                *)
LEMMA ReaderGoesOn ==
    ASSUME NEW h, HistoryShape(h), Intact(h), NEW v \in Nat, NEW w \in WalkStates(h), OnHistory(h, v, w),
           w.outcome = "walking", w.generation \notin w.seen, h.generations[w.generation].version > v,
           h.generations[w.generation].parent # 0,
           h.generations[h.generations[w.generation].parent].version >= v
    PROVE  LET new == NextParent(h, v, w)
           IN  /\ new.outcome = "walking" /\ new.generation = h.generations[w.generation].parent
               /\ new.seen = w.seen \cup {w.generation}
<1> DEFINE g == w.generation
           p == h.generations[g].parent
           generation == h.generations[g]
           parent == h.generations[p]
           ancestor == SemanticAncestor(h, w.commit, p)
<1>1. g \in GenerationsOf(h) /\ p \in GenerationsOf(h) /\ w.commit = generation.commit
  BY GenerationIntact DEF OnHistory
<1>2. /\ generation.version \in Nat /\ parent.version \in Nat /\ parent.sound
      /\ parent.version <= generation.version
      /\ generation.state = generation.commit /\ parent.state = parent.commit
      /\ generation.version = h.commits[generation.commit].version
      /\ parent.version = h.commits[parent.commit].version
      /\ generation.commit \in CommitsOf(h) /\ parent.commit \in CommitsOf(h)
  BY <1>1, GenerationIntact
<1>3. parent.version = generation.version => parent.commit = generation.commit /\ parent.state = generation.state
  BY <1>2, CommitsOnLine, CommitsOfIntact
<1>4. parent.version # generation.version => ancestor # 0
  <2> SUFFICES ASSUME parent.version # generation.version PROVE ancestor # 0
    OBVIOUS
  <2>1. parent.version < generation.version
    <3>1. \A a, b \in Nat : a <= b /\ a # b => a < b
      OBVIOUS
    <3> QED
      BY <1>2, <3>1, Zenon
  <2>2. parent.version < h.commits[w.commit].version
    BY <1>1, <1>2, <2>1, Zenon
  <2> QED
    BY <1>1, <1>2, <2>2, AncestorFound, CommitsOfIntact
<1>5. /\ generation.version # v /\ ~(parent.version > generation.version)
      /\ ~(parent.version < v)
  <2>1. \A a, b, c \in Nat : a > c /\ b <= a /\ b >= c => a # c /\ ~(b > a) /\ ~(b < c)
    OBVIOUS
  <2> QED
    BY <1>2, <2>1, Zenon
<1> HIDE DEF ancestor
<1>6. NextParent(h, v, w) = IF parent.version = generation.version
                            THEN [w EXCEPT !.generation = p, !.seen = @ \cup {g}]
                            ELSE [w EXCEPT !.generation = p, !.commit = ancestor, !.seen = @ \cup {g}]
  BY <1>2, <1>3, <1>4, <1>5, Zenon DEF NextParent, ancestor
<1> QED
  BY <1>6 DEF WalkStates

LEMMA StepInStep ==
    ASSUME NEW h, HistoryShape(h), Intact(h), NEW v \in Nat, NEW n \in Nat,
           NEW w \in WalkStates(h), NEW q \in PinStates(h), OnHistory(h, v, w), InStep(h, v, n, w, q)
    PROVE  LET w1 == NextParent(h, v, w)
               q1 == LoadParent(h, v, q)
           IN  InStep(h, v, n + 1, w1, q1) \/ Lagging(h, v, w1, q1) \/ BothEnded(h, v, w1, q1)
<1> DEFINE g == w.generation
           p == h.generations[g].parent
           generation == h.generations[g]
           parent == h.generations[p]
           w1 == NextParent(h, v, w)
           q1 == LoadParent(h, v, q)
<1>1. /\ w.outcome = "walking" /\ q.outcome = "walking" /\ q.generation = g /\ q.seen = w.seen \cup {g}
      /\ g \notin w.seen /\ Cardinality(w.seen) = n /\ Passed(h, v, w.seen, g)
      /\ generation.version >= v
  BY DEF InStep
<1>2. /\ g \in GenerationsOf(h) /\ generation.version \in Nat
      /\ p # 0 => p \in GenerationsOf(h) /\ parent.version \in Nat /\ Loads(h, p) /\ parent.sound
                  /\ parent.version <= generation.version
  BY GenerationIntact DEF OnHistory
<1>3. /\ \A outcome : [w EXCEPT !.outcome = outcome].outcome = outcome
      /\ \A outcome : [w EXCEPT !.outcome = outcome].generation = g
      /\ \A outcome : [q EXCEPT !.outcome = outcome].outcome = outcome
      /\ \A outcome : [q EXCEPT !.outcome = outcome].generation = g
  BY <1>1 DEF WalkStates, PinStates
<1>4. /\ generation.version > v => generation.version # v /\ ~(generation.version < v)
      /\ p # 0 => ~(parent.version > generation.version)
      /\ p # 0 /\ generation.version > v /\ parent.version < v => parent.version # generation.version
  BY <1>2
<1>5. CASE generation.version = v
  <2>1. w1 = [w EXCEPT !.outcome = None]
    BY <1>1, <1>5 DEF NextParent
  <2>2. q1 = [q EXCEPT !.outcome = None]
    BY <1>1, <1>5 DEF LoadParent
  <2>3. BothEnded(h, v, w1, q1)
    BY <1>3, <2>1, <2>2 DEF BothEnded, None
  <2> QED
    BY <2>3
<1>6. CASE generation.version > v /\ p = 0
  <2>1. w1 = [w EXCEPT !.outcome = "history not retained"]
    BY <1>1, <1>6, <1>4, Zenon DEF NextParent
  <2>2. q1 = [q EXCEPT !.outcome = "history not retained"]
    BY <1>1, <1>6, <1>4, Zenon DEF LoadParent
  <2>3. ~Retained(h, v)
    BY <1>1, <1>2, <1>6, NothingBetween
  <2>4. w1.outcome = "history not retained" /\ q1.outcome = "history not retained"
    BY <1>3, <2>1, <2>2, Zenon
  <2>5. BothEnded(h, v, w1, q1)
    <3> HIDE DEF w1, q1
    <3> QED
      BY <2>3, <2>4 DEF BothEnded, None
  <2> QED
    BY <2>5
<1>7. CASE generation.version > v /\ p # 0 /\ parent.version < v
  <2>1. ~Retained(h, v)
    BY <1>1, <1>2, <1>7, NothingBetween
  <2>2. w1 = [w EXCEPT !.outcome = "history not retained"]
    BY <1>1, <1>2, <1>7, <1>4, Zenon DEF NextParent
  <2>3. p \notin q.seen
    BY <1>1, <1>2, <1>7 DEF Passed
  <2>4. ValidEdge(h, g, p, q.seen)
    BY <1>2, <1>7, <2>3 DEF ValidEdge
  <2>5. q1 = [q EXCEPT !.generation = p, !.seen = @ \cup {p}]
    BY <1>1, <1>2, <1>7, <1>4, <2>4, Zenon DEF LoadParent
  <2>6. q1.outcome = "walking" /\ q1.generation = p
    BY <1>1, <2>5 DEF PinStates
  <2>7. Lagging(h, v, w1, q1)
    BY <1>3, <1>7, <2>1, <2>2, <2>6 DEF Lagging
  <2> QED
    BY <2>7
<1>8. CASE generation.version > v /\ p # 0 /\ parent.version >= v
  <2>1. w1.outcome = "walking" /\ w1.generation = p /\ w1.seen = w.seen \cup {g}
    BY <1>1, <1>8, ReaderGoesOn
  <2>2. CASE p \in q.seen
    <3>1. ~ValidEdge(h, g, p, q.seen)
      BY <2>2 DEF ValidEdge
    <3>2. q1 = [q EXCEPT !.outcome = "corrupt"]
      BY <1>1, <1>8, <1>4, <3>1, Zenon DEF LoadParent
    <3>3. ~Retained(h, v)
      BY <1>1, <1>2, <1>8, <2>2, NothingBetween
    <3>4. Lagging(h, v, w1, q1)
      BY <1>1, <1>3, <2>1, <2>2, <3>2, <3>3 DEF Lagging
    <3> QED
      BY <3>4
  <2>3. CASE p \notin q.seen
    <3>1. parent.version = generation.version =>
              parent.state = generation.state /\ parent.commit = generation.commit
      <4>1. /\ generation.state = generation.commit /\ parent.state = parent.commit
            /\ generation.version = h.commits[generation.commit].version
            /\ parent.version = h.commits[parent.commit].version
            /\ generation.commit \in CommitsOf(h) /\ parent.commit \in CommitsOf(h)
        BY <1>2, <1>8, GenerationIntact
      <4> QED
        BY <4>1, CommitsOnLine, CommitsOfIntact
    <3>2. ValidEdge(h, g, p, q.seen)
      BY <1>2, <1>8, <2>3, <3>1 DEF ValidEdge
    <3>3. q1 = [q EXCEPT !.generation = p, !.seen = @ \cup {p}]
      BY <1>1, <1>2, <1>8, <1>4, <3>2, Zenon DEF LoadParent
    <3>4. q1.outcome = "walking" /\ q1.generation = p /\ q1.seen = q.seen \cup {p}
      BY <1>1, <3>3 DEF PinStates
    <3>5. Cardinality(w1.seen) = n + 1
      <4>1. IsFiniteSet(w.seen)
        BY FS_Subset DEF HistoryShape, WalkStates
      <4> QED
        BY <1>1, <2>1, <4>1, FS_AddElement
    <3>6. Passed(h, v, w1.seen, p)
      BY <1>1, <1>2, <1>8, <2>1 DEF Passed
    <3>7. InStep(h, v, n + 1, w1, q1)
      BY <1>1, <1>8, <2>1, <2>3, <3>4, <3>5, <3>6 DEF InStep
    <3> QED
      BY <3>7
  <2> QED
    BY <2>2, <2>3
<1>9. \/ generation.version = v
      \/ generation.version > v /\ p = 0
      \/ generation.version > v /\ p # 0 /\ parent.version < v
      \/ generation.version > v /\ p # 0 /\ parent.version >= v
  BY <1>1, <1>2
<1> QED
  BY <1>5, <1>6, <1>7, <1>8, <1>9

LEMMA StepEnds ==
    ASSUME NEW h, HistoryShape(h), NEW v \in Nat, NEW w \in WalkStates(h), NEW q \in PinStates(h),
           Lagging(h, v, w, q) \/ BothEnded(h, v, w, q)
    PROVE  BothEnded(h, v, NextParent(h, v, w), LoadParent(h, v, q))
<1> DEFINE w1 == NextParent(h, v, w)
           q1 == LoadParent(h, v, q)
<1>1. w.outcome # "walking" => w1 = w
  BY DEF NextParent
<1>2. q.outcome # "walking" => q1 = q
  BY DEF LoadParent
<1>3. CASE BothEnded(h, v, w, q)
  BY <1>1, <1>2, <1>3 DEF BothEnded
<1>4. CASE /\ ~Retained(h, v) /\ w.outcome = "history not retained" /\ q.outcome = "walking"
           /\ h.generations[q.generation].version < v
  <2>1. h.generations[q.generation].version # v
    <3>1. h.generations[q.generation].version \in Nat
      BY DEF PinStates, HistoryShape
    <3>2. \A a, b \in Nat : a < b => a # b
      OBVIOUS
    <3> QED
      BY <1>4, <3>1, <3>2, Zenon
  <2>2. q1 = [q EXCEPT !.outcome = "history not retained"]
    BY <1>4, <2>1, Zenon DEF LoadParent
  <2>3. q1.outcome = "history not retained"
    BY <2>2 DEF PinStates
  <2> QED
    BY <1>1, <1>4, <2>3 DEF BothEnded, None
<1>5. CASE ~Retained(h, v) /\ q.outcome = "corrupt" /\ w.outcome = "walking" /\ w.generation \in w.seen
  <2>1. w1 = [w EXCEPT !.outcome = "corrupt"]
    BY <1>5 DEF NextParent
  <2>2. w1.outcome = "corrupt"
    BY <2>1 DEF WalkStates
  <2> QED
    BY <1>2, <1>5, <2>2 DEF BothEnded, None
<1> QED
  BY <1>3, <1>4, <1>5 DEF Lagging

(* Of an intact history a reader is given every version that is retained,  *)
(* and the runtime is given what the reader is.                            *)
LEMMA IntactSelected ==
    ASSUME NEW h, HistoryShape(h), Intact(h), NEW wanted \in Nat \cup {Current}
    PROVE  /\ Retained(h, IF wanted = Current THEN h.version ELSE wanted) =>
                  SelectMetadata(h, wanted).error = None
           /\ PinMetadata(h, wanted) = SelectMetadata(h, wanted)
<1> DEFINE v == IF wanted = Current THEN h.version ELSE wanted
           N == Turns(h)
           head == h.generations[h.head]
<1>1. h.head \in GenerationsOf(h) /\ head.commit = h.commit /\ head.version = h.version
  BY GenerationsReached DEF Intact
<1>2. /\ Loads(h, h.head) /\ head.sound /\ head.state = h.commit /\ h.version \in Nat
      /\ head.commit \in CommitsOf(h)
  BY <1>1, GenerationIntact
<1>3. v \in Nat
  BY <1>2
<1>4. ValidCommit(h, head.commit, head.version, head.state)
  BY <1>2 DEF Loads
<1>5. N \in Nat
  BY TurnsNat
<1>6. PICK f : Walked(f, h, v)
  BY WalkExists
<1>7. PICK e : Pinned(e, h, v)
  BY PinExists
<1>8. Walk(h, v) = WalkAnswer(f[N + 1])
  BY <1>6, WalkEnd
<1>9. PinMetadata(h, wanted) = PinAnswer(h, v, e[N + 1])
  BY <1>7, PinEnd
<1>10. CASE v > h.version
  <2>1. SelectMetadata(h, wanted) = NotSelected("version not found")
    BY <1>10 DEF SelectMetadata
  <2>2. PinMetadata(h, wanted) = NotSelected("version not found")
    BY <1>1, <1>2, <1>9, <1>10, Zenon DEF PinAnswer
  <2>3. ~Retained(h, v)
    <3> DEFINE T == {g \in GenerationsOf(h) : h.generations[g].version <= h.version}
    <3>1. h.head \in T
      BY <1>1, <1>2
    <3>2. ASSUME NEW g \in T, h.generations[g].parent # 0 PROVE h.generations[g].parent \in T
      <4>1. /\ h.generations[g].version \in Nat /\ h.generations[g].parent \in GenerationsOf(h)
            /\ h.generations[h.generations[g].parent].version <= h.generations[g].version
        BY <3>2, GenerationIntact
      <4>2. h.generations[h.generations[g].parent].version \in Nat
        BY <4>1, GenerationIntact
      <4>3. h.generations[h.generations[g].parent].version <= h.version
        BY <1>2, <4>1, <4>2
      <4> QED
        BY <4>1, <4>3
    <3>3. GenerationsOf(h) \subseteq T
      <4>1. ClosedUnder(T, h.generations)
        BY <3>2 DEF ClosedUnder
      <4> HIDE DEF T
      <4> QED
        BY <3>1, <4>1, GenerationsReached
    <3>4. ASSUME NEW g \in GenerationsOf(h) PROVE h.generations[g].version # v
      <4>1. h.generations[g].version \in Nat
        BY GenerationIntact
      <4> HIDE DEF v
      <4> QED
        BY <1>2, <1>3, <1>10, <3>3, <4>1
    <3> HIDE DEF v
    <3> QED
      BY <3>4 DEF Retained
  <2> QED
    BY <2>1, <2>2, <2>3
<1>11. CASE ~(v > h.version)
  <2>1. SelectMetadata(h, wanted) = Walk(h, v)
    BY <1>1, <1>2, <1>4, <1>11, Zenon DEF SelectMetadata
  <2>2. v <= h.version
    BY <1>2, <1>3, <1>11
  <2> HIDE DEF v, N
  <2> DEFINE Together(n) == \/ InStep(h, v, n, f[n], e[n])
                            \/ Lagging(h, v, f[n], e[n])
                            \/ BothEnded(h, v, f[n], e[n])
             S == {n \in 0..N + 1 : OnHistory(h, v, f[n]) /\ Together(n)}
  <2>3. \A n \in 0..N + 1 : f[n] \in WalkStates(h) /\ e[n] \in PinStates(h)
    BY <1>6, <1>7 DEF Walked, Pinned, N
  <2>4. \A n \in 1..N + 1 : f[n] = NextParent(h, v, f[n - 1]) /\ e[n] = LoadParent(h, v, e[n - 1])
    BY <1>6, <1>7 DEF Walked, Pinned, N
  <2>5. 0 \in S
    <3>1. f[0] = WalkBegin(h) /\ e[0] = PinBegin(h)
      BY <1>6, <1>7 DEF Walked, Pinned
    <3>2. OnHistory(h, v, WalkBegin(h))
      BY <1>1, <1>2 DEF OnHistory, WalkBegin, None
    <3>3. InStep(h, v, 0, WalkBegin(h), PinBegin(h))
      <4>1. Passed(h, v, {}, h.head) /\ Cardinality({}) = 0
        BY FS_EmptySet DEF Passed
      <4>2. head.version >= v
        BY <1>1, <1>2, <1>3, <2>2
      <4> QED
        BY <4>1, <4>2 DEF InStep, WalkBegin, PinBegin
    <3> QED
      BY <1>5, <3>1, <3>2, <3>3
  <2>6. ASSUME NEW n \in 1..N + 1, n - 1 \in S
        PROVE  /\ n \in S
               /\ ~InStep(h, v, n - 1, f[n - 1], e[n - 1]) => BothEnded(h, v, f[n], e[n])
    <3>1. n \in 0..N + 1 /\ n - 1 \in 0..N + 1 /\ n - 1 \in Nat /\ (n - 1) + 1 = n
      BY <1>5
    <3>2. /\ f[n - 1] \in WalkStates(h) /\ e[n - 1] \in PinStates(h)
          /\ f[n] = NextParent(h, v, f[n - 1]) /\ e[n] = LoadParent(h, v, e[n - 1])
      BY <2>3, <2>4, <3>1
    <3>3. OnHistory(h, v, f[n - 1]) /\ Together(n - 1)
      BY <2>6
    <3>4. OnHistory(h, v, f[n])
      BY <3>2, <3>3, StaysOnHistory
    <3>5. CASE InStep(h, v, n - 1, f[n - 1], e[n - 1])
      <4>1. Together(n)
        <5> DEFINE m == n - 1
        <5>1. m \in Nat /\ m + 1 = n
          BY <3>1
        <5>2. InStep(h, v, m, f[m], e[m])
          BY <3>5
        <5> HIDE DEF m
        <5>3. \/ InStep(h, v, m + 1, f[n], e[n]) \/ Lagging(h, v, f[n], e[n]) \/ BothEnded(h, v, f[n], e[n])
          BY <1>3, <3>2, <3>3, <5>1, <5>2, StepInStep DEF m
        <5> QED
          BY <5>1, <5>3
      <4> QED
        BY <3>1, <3>4, <3>5, <4>1
    <3>6. CASE ~InStep(h, v, n - 1, f[n - 1], e[n - 1])
      <4>1. BothEnded(h, v, f[n], e[n])
        BY <1>3, <3>2, <3>3, <3>6, StepEnds
      <4> QED
        BY <3>1, <3>4, <4>1
    <3> QED
      BY <3>5, <3>6
  <2> HIDE DEF S
  <2>7. 0..N + 1 \subseteq S
    <3>1. \A n \in 1..N + 1 : n - 1 \in S => n \in S
      BY <2>6
    <3>2. N + 1 \in Nat
      BY <1>5
    <3> QED
      BY <2>5, <3>1, <3>2, UpTo
  <2>8. ~InStep(h, v, N, f[N], e[N])
    <3> SUFFICES ASSUME InStep(h, v, N, f[N], e[N]) PROVE FALSE
      OBVIOUS
    <3> DEFINE w == f[N]
               all == w.seen \cup {w.generation}
    <3>1. w.generation \in DOMAIN h.generations /\ w.seen \subseteq DOMAIN h.generations
      BY <1>5, <2>3 DEF WalkStates
    <3>2. w.generation \notin w.seen /\ Cardinality(w.seen) = N
      BY DEF InStep
    <3>3. IsFiniteSet(DOMAIN h.generations)
      BY DEF HistoryShape
    <3>4. IsFiniteSet(w.seen)
      BY <3>1, <3>3, FS_Subset
    <3>5. Cardinality(all) = N + 1
      BY <3>2, <3>4, FS_AddElement
    <3>6. Cardinality(all) <= Cardinality(DOMAIN h.generations)
      <4>1. all \in SUBSET DOMAIN h.generations
        BY <3>1
      <4> QED
        BY <3>3, <4>1, FS_Subset
    <3> QED
      BY <1>5, <3>5, <3>6 DEF N, Turns
  <2>9. BothEnded(h, v, f[N + 1], e[N + 1]) /\ OnHistory(h, v, f[N + 1])
    <3>1. N + 1 \in 1..N + 1 /\ (N + 1) - 1 = N /\ N \in S /\ N + 1 \in S
      BY <1>5, <2>7
    <3>2. BothEnded(h, v, f[N + 1], e[N + 1])
      BY <2>6, <2>8, <3>1
    <3> QED
      BY <3>1, <3>2 DEF S
  <2>10. CASE f[N + 1].outcome = None
    <3>1. Walk(h, v) = Selected(f[N + 1].generation, f[N + 1].commit)
      BY <1>8, <2>10 DEF WalkAnswer
    <3>2. e[N + 1].outcome = None /\ e[N + 1].generation = f[N + 1].generation
      BY <2>9, <2>10 DEF BothEnded
    <3>3. f[N + 1].commit = h.generations[f[N + 1].generation].commit
      BY <2>9 DEF OnHistory
    <3>4. PinMetadata(h, wanted) = Selected(e[N + 1].generation, h.generations[e[N + 1].generation].commit)
      BY <1>1, <1>2, <1>9, <1>11, <3>2, Zenon DEF PinAnswer
    <3>5. Walk(h, v).error = None
      BY <3>1 DEF Selected
    <3> QED
      BY <2>1, <3>1, <3>2, <3>3, <3>4, <3>5 DEF v
  <2>11. CASE f[N + 1].outcome # None
    <3>1. Walk(h, v) = NotSelected(f[N + 1].outcome)
      BY <1>8, <2>11 DEF WalkAnswer
    <3>2. e[N + 1].outcome = f[N + 1].outcome /\ ~Retained(h, v)
      BY <2>9, <2>11 DEF BothEnded
    <3>3. PinMetadata(h, wanted) = NotSelected(f[N + 1].outcome)
      BY <1>1, <1>2, <1>9, <1>11, <2>11, <3>2, Zenon DEF PinAnswer
    <3> QED
      BY <2>1, <3>1, <3>2, <3>3 DEF v
  <2> QED
    BY <2>10, <2>11
<1> QED
  BY <1>10, <1>11

LEMMA OpenedAsWanted ==
    ASSUME NEW r \in DOMAIN Readers, reader = OpenReader(r)
    PROVE  PinnedToWanted
<1> DEFINE h == Readers[r].history
           wanted == Readers[r].wanted
           chosen == SelectMetadata(h, wanted)
<1>1. reader.from = r /\ reader.pinned = chosen
  BY DEF OpenReader
<1>2. HistoryShape(h) /\ wanted \in Nat \cup {Current}
  BY ReadersAssumption
<1> HIDE DEF h, wanted
<1>3. chosen.error = None =>
          /\ h.generations[chosen.generation].version = IF wanted = Current THEN h.version ELSE wanted
          /\ h.generations[chosen.generation].commit \in CommitsOf(h)
          /\ chosen.generation \in GenerationsOf(h)
          /\ chosen.commit = h.generations[chosen.generation].commit
  BY <1>2, SelectedOnHistory
<1>4. Intact(h) =>
          /\ Retained(h, IF wanted = Current THEN h.version ELSE wanted) => chosen.error = None
          /\ PinMetadata(h, wanted) = chosen
  BY <1>2, IntactSelected
<1> HIDE DEF chosen
<1> QED
  BY <1>1, <1>3, <1>4 DEF PinnedToWanted, Retained, h, wanted

(* Whatever generations and commits the store holds and however their      *)
(* parents skip, repeat, fork or go round, a reader is pinned to a         *)
(* generation of the version it asked for in the history of HEAD, and of a *)
(* history as publication leaves it to every version that is retained;     *)
(* there the runtime pins the same (resolve, select_metadata).             *)
THEOREM PinnedAsWanted == Spec => []PinnedToWanted
<1>1. ASSUME IInv PROVE PinnedToWanted
  BY <1>1, OpenedAsWanted DEF IInv
<1> QED
  BY <1>1, Invariance, PTL
===============================================================================
