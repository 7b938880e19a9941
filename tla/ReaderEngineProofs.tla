-------------------------- MODULE ReaderEngineProofs --------------------------
(***************************************************************************)
(* Proofs about ReaderEngine, for any queries, images and limits.          *)
(***************************************************************************)
EXTENDS ReaderEngine, FiniteSetTheorems, TLAPS

-----------------------------------------------------------------------------
(* Induction over natural numbers, by a least counterexample.              *)

Less == {pair \in Nat \X Nat : pair[1] < pair[2]}

(* A set of natural numbers has a least element.                           *)
LEMMA LeastNumber ==
    ASSUME NEW T \in SUBSET Nat, T # {}
    PROVE  \E n \in T : \A m \in T : n <= m
<1>1. OpToRel(<, Nat) = Less
  BY Zenon DEF OpToRel, Less
<1>2. IsWellFoundedOn(Less, Nat)
  BY <1>1, NatLessThanWellFounded, Zenon
<1>3. PICK n \in T : \A m \in T : ~(<<m, n>> \in Less)
  BY <1>2, WFMin
<1>4. \A m, k \in Nat : m < k => <<m, k>> \in Less
  BY DEF Less
<1>5. ASSUME NEW m \in T PROVE n <= m
  <2>1. ~(m < n)
    BY <1>3, <1>4, Zenon
  <2> QED
    BY <2>1
<1> QED
  BY <1>5

(* What holds of 0 and of each number up to n that follows one it holds of *)
(* holds of all of them.                                                   *)
LEMMA UpTo ==
    ASSUME NEW n \in Nat, NEW S, 0 \in S, \A i \in 1..n : i - 1 \in S => i \in S
    PROVE  0..n \subseteq S
<1> DEFINE T == 0..n \ S
<1> SUFFICES ASSUME T # {} PROVE FALSE
  OBVIOUS
<1>1. T \in SUBSET Nat
  OBVIOUS
<1>2. PICK m \in T : \A k \in T : m <= k
  BY <1>1, LeastNumber
<1>3. m \in 1..n /\ m - 1 \in 0..n /\ m - 1 \notin T
  BY <1>2
<1> QED
  BY <1>2, <1>3

-----------------------------------------------------------------------------
(* Roles                                                                   *)

BtreeRole == [kind : {"btree"}, parent : Nat, slot : Nat]
OverflowRole == [kind : {"overflow"}, owner : Nat, cell : Nat, remaining : Nat, record : Nat]

(* What gives page x its role, among pages that have the roles rho: a cell *)
(* of a B-tree page, or the page before it in a chain.                     *)
FromCell(rho, x, role) ==
    /\ role \in BtreeRole
    /\ role.parent \in DOMAIN rho
    /\ role.slot \in DOMAIN content[role.parent].refs
    /\ content[role.parent].refs[role.slot].to = x

HeadsChain(rho, x, role) ==
    /\ role \in OverflowRole
    /\ role.owner \in DOMAIN rho
    /\ role.remaining = role.record
    /\ role.cell \in DOMAIN content[role.owner].refs
    /\ content[role.owner].refs[role.cell].to = x

FollowsInChain(rho, x, role) ==
    /\ role \in OverflowRole
    /\ role.owner \in DOMAIN rho
    /\ role.remaining < role.record
    /\ \E y \in DOMAIN rho : rho[y] = [role EXCEPT !.remaining = @ + 1] /\ NextInChain(y) = x

Justified(rho, x, role) ==
    FromCell(rho, x, role) \/ HeadsChain(rho, x, role) \/ FollowsInChain(rho, x, role)

From(role) == IF role.kind = "btree" THEN role.parent ELSE role.owner

Rooted(rho) ==
    \A S \in SUBSET (DOMAIN rho \ {1}) : S # {} => \E p \in S : From(rho[p]) \in DOMAIN rho \ S

Distinct(rho) == \A p, q \in DOMAIN rho : p # q => rho[p] # rho[q]

SoundRoles(rho) ==
    /\ rho = [x \in DOMAIN rho |-> rho[x]]
    /\ DOMAIN rho \subseteq Pages
    /\ 1 \in DOMAIN rho /\ rho[1] = Root
    /\ \A x \in DOMAIN rho \ {1} : Justified(rho, x, rho[x])
    /\ Rooted(rho)
    /\ Distinct(rho)

(* Nobody else has a role that somebody gives a page without one.          *)
LEMMA RoleIsNew ==
    ASSUME NEW rho, SoundRoles(rho), NEW x, x \notin DOMAIN rho, NEW role, Justified(rho, x, role),
           NEW z \in DOMAIN rho
    PROVE  rho[z] # role
<1> SUFFICES ASSUME rho[z] = role PROVE FALSE
  OBVIOUS
<1>1. z # 1
  <2>1. From(role) \in Pages
    BY DEF SoundRoles, Justified, FromCell, HeadsChain, FollowsInChain, From, BtreeRole, OverflowRole
  <2>2. From(Root) = 0
    BY DEF From, Root
  <2>3. 0 \notin Pages
    BY EngineAssumption DEF Pages
  <2> QED
    BY <2>1, <2>2, <2>3 DEF SoundRoles
<1>2. Justified(rho, z, role)
  BY <1>1 DEF SoundRoles
<1>3. CASE FromCell(rho, x, role)
  BY <1>2, <1>3 DEF Justified, FromCell, HeadsChain, FollowsInChain, BtreeRole, OverflowRole
<1>4. CASE HeadsChain(rho, x, role)
  BY <1>2, <1>4 DEF Justified, FromCell, HeadsChain, FollowsInChain, BtreeRole, OverflowRole
<1>5. CASE FollowsInChain(rho, x, role)
  <2>1. FollowsInChain(rho, z, role)
    BY <1>2, <1>5 DEF Justified, FromCell, HeadsChain, FollowsInChain, BtreeRole, OverflowRole
  <2>2. PICK y \in DOMAIN rho : rho[y] = [role EXCEPT !.remaining = @ + 1] /\ NextInChain(y) = x
    BY <1>5 DEF FollowsInChain
  <2>3. PICK w \in DOMAIN rho : rho[w] = [role EXCEPT !.remaining = @ + 1] /\ NextInChain(w) = z
    BY <2>1 DEF FollowsInChain
  <2>4. y = w
    BY <2>2, <2>3 DEF SoundRoles, Distinct
  <2> QED
    BY <2>2, <2>3, <2>4
<1> QED
  BY <1>3, <1>4, <1>5 DEF Justified

With(rho, x, role) == [z \in DOMAIN rho \cup {x} |-> IF z = x THEN role ELSE rho[z]]

(* More roles take nothing from what gives a page its role.                *)
LEMMA JustifiedLater ==
    ASSUME NEW rho, NEW sigma, DOMAIN rho \subseteq DOMAIN sigma, \A z \in DOMAIN rho : sigma[z] = rho[z],
           NEW x, NEW role, Justified(rho, x, role)
    PROVE  Justified(sigma, x, role)
  BY DEF Justified, FromCell, HeadsChain, FollowsInChain

(* Giving a page its first role keeps the tree.                            *)
LEMMA NewRole ==
    ASSUME NEW rho, SoundRoles(rho), NEW x \in Pages, x \notin DOMAIN rho, NEW role, Justified(rho, x, role)
    PROVE  SoundRoles(With(rho, x, role))
<1> DEFINE new == With(rho, x, role)
<1>1. /\ DOMAIN new = DOMAIN rho \cup {x}
      /\ new[x] = role
      /\ \A z \in DOMAIN rho : new[z] = rho[z]
      /\ new = [z \in DOMAIN new |-> new[z]]
  BY DEF With
<1> HIDE DEF new
<1>2. From(role) \in DOMAIN rho
  BY DEF Justified, FromCell, HeadsChain, FollowsInChain, From, BtreeRole, OverflowRole
<1>3. \A z \in DOMAIN new \ {1} : Justified(new, z, new[z])
  BY <1>1, JustifiedLater DEF SoundRoles
<1>4. Rooted(new)
  <2> SUFFICES ASSUME NEW S \in SUBSET (DOMAIN new \ {1}), S # {}
               PROVE  \E p \in S : From(new[p]) \in DOMAIN new \ S
    BY DEF Rooted
  <2>1. CASE S = {x}
    BY <1>1, <1>2, <2>1
  <2>2. CASE S # {x}
    <3> DEFINE R == S \ {x}
    <3>1. R \in SUBSET (DOMAIN rho \ {1}) /\ R # {}
      BY <1>1, <2>2
    <3>2. PICK p \in R : From(rho[p]) \in DOMAIN rho \ R
      BY <3>1, Zenon DEF SoundRoles, Rooted
    <3>3. From(new[p]) \in DOMAIN new \ S
      BY <1>1, <3>1, <3>2
    <3> QED
      BY <3>2, <3>3
  <2> QED
    BY <2>1, <2>2
<1>5. Distinct(new)
  <2>1. \A z \in DOMAIN rho : rho[z] # role
    BY RoleIsNew
  <2> QED
    BY <1>1, <2>1 DEF Distinct, SoundRoles
<1> QED
  BY <1>1, <1>3, <1>4, <1>5 DEF SoundRoles, new

-----------------------------------------------------------------------------
(* What validate makes of the roles                                        *)

Errors == {"ok", "corrupt", "exhausted"}

Validating(s) ==
    /\ s = [roles |-> s.roles, error |-> s.error]
    /\ s.error \in Errors
    /\ SoundRoles(s.roles)

Keeps(rho, sigma) == DOMAIN rho \subseteq DOMAIN sigma /\ \A z \in DOMAIN rho : sigma[z] = rho[z]

(* add keeps the tree when something gives the page its role.              *)
LEMMA AddRoleSound ==
    ASSUME NEW s, Validating(s), NEW x, NEW role, Justified(s.roles, x, role)
    PROVE  Validating(AddRole(s, x, role)) /\ Keeps(s.roles, AddRole(s, x, role).roles)
<1> DEFINE end == AddRole(s, x, role)
<1>1. CASE end = s
  BY <1>1 DEF Keeps
<1>2. CASE \E e \in Errors : end = [roles |-> s.roles, error |-> e]
  BY <1>2 DEF Keeps, Validating
<1>3. CASE x \in Pages /\ x \notin DOMAIN s.roles /\ end = Register(s, x, role)
  <2>1. end = [roles |-> With(s.roles, x, role), error |-> s.error]
    BY <1>3 DEF Register, With, Validating
  <2>2. SoundRoles(With(s.roles, x, role))
    BY <1>3, NewRole DEF Validating
  <2>3. Keeps(s.roles, With(s.roles, x, role))
    BY <1>3 DEF Keeps, With
  <2> QED
    BY <2>1, <2>2, <2>3 DEF Validating
<1>4. \A e : [s EXCEPT !.error = e] = [roles |-> s.roles, error |-> e]
  BY DEF Validating
<1> QED
  BY <1>1, <1>2, <1>3, <1>4 DEF AddRole, Errors

(* The equation of the roles after each reference: there is such a         *)
(* function for the first n references, whatever n is.                     *)
LEMMA ReferencesEquation ==
    ASSUME NEW p, Len(content[p].refs) \in Nat
    PROVE  AfterReferences(p) =
             [i \in 0..Len(content[p].refs) |->
                IF i = 0 THEN [roles |-> roles, error |-> "ok"]
                ELSE AddRole(AfterReferences(p)[i - 1], content[p].refs[i].to, RoleFrom(p, i))]
<1> DEFINE next(s, i) == AddRole(s, content[p].refs[i].to, RoleFrom(p, i))
           start == [roles |-> roles, error |-> "ok"]
           Solves(g, n) == g = [i \in 0..n |-> IF i = 0 THEN start ELSE next(g[i - 1], i)]
           n == Len(content[p].refs)
           Solved == {k \in 0..n : \E g : Solves(g, k)}
<1>1. 0 \in Solved
  <2> DEFINE g == [i \in 0..0 |-> start]
  <2> HIDE DEF next, start
  <2>1. Solves(g, 0)
    OBVIOUS
  <2> HIDE DEF Solves, g
  <2> QED
    BY <2>1
<1>2. ASSUME NEW k \in 1..n, k - 1 \in Solved PROVE k \in Solved
  <2>1. PICK g : Solves(g, k - 1)
    BY <1>2
  <2> DEFINE h == [i \in 0..k |-> IF i < k THEN g[i] ELSE next(g[k - 1], k)]
  <2> HIDE DEF next, start
  <2>2. ASSUME NEW i \in 0..k
        PROVE  h[i] = IF i = 0 THEN start ELSE next(h[i - 1], i)
    <3>1. CASE i < k
      BY <2>1, <3>1
    <3>2. CASE i = k
      BY <3>2
    <3> QED
      BY <3>1, <3>2
  <2>3. Solves(h, k)
    BY <2>2
  <2> HIDE DEF Solves, h
  <2> QED
    BY <2>3, n \in Nat
<1>3. 0..n \subseteq Solved
  <2> HIDE DEF Solved
  <2> QED
    BY <1>1, <1>2, UpTo
<1>4. PICK g : Solves(g, n)
  BY <1>3
<1> QED
  BY <1>4 DEF AfterReferences

(* The references of a page with a B-tree role give each its role.         *)
LEMMA ReferencesSound ==
    ASSUME content \in Images, SoundRoles(roles), NEW p \in DOMAIN roles
    PROVE  Validating(AfterReferences(p)[Len(content[p].refs)])
<1> DEFINE refs == content[p].refs
           after == AfterReferences(p)
           Good(i) == Validating(after[i]) /\ Keeps(roles, after[i].roles)
           Ok == {i \in 0..Len(refs) : Good(i)}
<1>1. p \in Pages /\ refs \in Seq(Reference)
  BY EngineAssumption DEF SoundRoles
<1>2. \A i \in 0..Len(refs) :
         after[i] = IF i = 0 THEN [roles |-> roles, error |-> "ok"]
                    ELSE AddRole(after[i - 1], refs[i].to, RoleFrom(p, i))
  BY <1>1, ReferencesEquation
<1>3. ASSUME NEW i \in 1..Len(refs), Good(i - 1) PROVE Good(i)
  <2>1. refs[i] \in Reference /\ i \in DOMAIN refs
    BY <1>1
  <2>2. Justified(after[i - 1].roles, refs[i].to, RoleFrom(p, i))
    <3>1. p \in DOMAIN after[i - 1].roles
      BY <1>3 DEF Keeps
    <3>2. p \in Nat
      BY <1>1, EngineAssumption DEF Pages
    <3>3. CASE refs[i].kind = "btree"
      BY <2>1, <3>1, <3>2, <3>3 DEF RoleFrom, Justified, FromCell, BtreeRole
    <3>4. CASE refs[i].kind = "overflow"
      BY <2>1, <3>1, <3>2, <3>4 DEF RoleFrom, Justified, HeadsChain, OverflowRole, Reference
    <3> QED
      BY <2>1, <3>3, <3>4 DEF Reference
  <2>3. after[i] = AddRole(after[i - 1], refs[i].to, RoleFrom(p, i))
    BY <1>2
  <2>4. Validating(after[i]) /\ Keeps(after[i - 1].roles, after[i].roles)
    BY <1>3, <2>2, <2>3, AddRoleSound
  <2> QED
    BY <1>3, <2>4 DEF Keeps
<1>4. Good(0)
  BY <1>1, <1>2 DEF Validating, Errors, Keeps
<1>5. 0..Len(refs) \subseteq Ok
  <2> HIDE DEF Good
  <2>1. 0 \in Ok /\ \A i \in 1..Len(refs) : i - 1 \in Ok => i \in Ok
    BY <1>1, <1>3, <1>4
  <2>2. Len(refs) \in Nat
    BY <1>1
  <2> HIDE DEF Ok, refs
  <2> QED
    BY <2>1, <2>2, UpTo
<1> QED
  BY <1>1, <1>5

(* validate keeps the tree, whatever it makes of the page.                 *)
LEMMA ValidatedSound ==
    ASSUME content \in Images, SoundRoles(roles), NEW p
    PROVE  Validating(Validated(p))
<1> DEFINE start == [roles |-> roles, error |-> "ok"]
<1>1. \A e \in Errors : Validating([roles |-> roles, error |-> e])
  BY DEF Validating
<1>2. CASE p \notin DOMAIN roles
  BY <1>1, <1>2 DEF Validated, Errors
<1>3. CASE p \in DOMAIN roles /\ roles[p].kind = "overflow"
  <2>1. roles[p] \in OverflowRole /\ roles[p].owner \in DOMAIN roles
    BY <1>3 DEF SoundRoles, Root, Justified, FromCell, HeadsChain, FollowsInChain, BtreeRole, OverflowRole
  <2>2. roles[p].remaining <= roles[p].record
    BY <1>3, <2>1
       DEF SoundRoles, Root, Justified, FromCell, HeadsChain, FollowsInChain, BtreeRole, OverflowRole
  <2> DEFINE next == [roles[p] EXCEPT !.remaining = @ - 1]
  <2>3. ASSUME roles[p].remaining > 1
        PROVE  Justified(roles, NextInChain(p), next)
    <3>1. next \in OverflowRole /\ next.owner = roles[p].owner /\ next.remaining < next.record
      BY <2>1, <2>2, <2>3 DEF OverflowRole
    <3>2. roles[p] = [next EXCEPT !.remaining = @ + 1]
      <4> DEFINE role(n) == [kind |-> "overflow", owner |-> roles[p].owner, cell |-> roles[p].cell,
                             remaining |-> n, record |-> roles[p].record]
      <4>1. roles[p] = role(roles[p].remaining) /\ roles[p].remaining \in Nat
        BY <2>1 DEF OverflowRole
      <4>2. next = role(roles[p].remaining - 1)
        BY <4>1
      <4> HIDE DEF next
      <4>3. [next EXCEPT !.remaining = @ + 1] = role(roles[p].remaining - 1 + 1)
        BY <4>2
      <4>4. roles[p].remaining - 1 + 1 = roles[p].remaining
        BY <4>1
      <4> QED
        BY <4>1, <4>3, <4>4
    <3> QED
      BY <1>3, <2>1, <3>1, <3>2 DEF Justified, FollowsInChain
  <2>4. roles[p].remaining > 1 => Validating(AddRole(start, NextInChain(p), next))
    BY <1>1, <2>3, AddRoleSound DEF Errors
  <2> QED
    BY <1>1, <1>3, <2>4 DEF Validated, ValidateOverflow, Errors
<1>4. CASE p \in DOMAIN roles /\ roles[p].kind # "overflow"
  <2> DEFINE end == AfterReferences(p)[Len(content[p].refs)]
  <2>1. Validating(end)
    BY <1>4, ReferencesSound
  <2>2. Validating([end EXCEPT !.error = "corrupt"])
    BY <2>1 DEF Validating, Errors
  <2> QED
    BY <1>4, <2>1, <2>2 DEF Validated, ValidateBtree
<1> QED
  BY <1>2, <1>3, <1>4

-----------------------------------------------------------------------------
(* The invariant                                                           *)

Places == {"idle", "spawned", "executing", "reading", "concluding", "between"}

Task == [query : Queries \cup {None}, at : Places, statement : Nat, reads : Nat, page : Nat,
         result : {"ok", "exhausted", "turso"}, lost : BOOLEAN]

EngineTypeOK ==
    /\ content \in Images
    /\ queue \in Seq(Queries)
    /\ call \in [Queries -> {"idle", "queued", "waiting", "answered", "gone"}]
    /\ DOMAIN told = Queries /\ told = [q \in Queries |-> told[q]]
    /\ task \in Task
    /\ task.at # "idle" => task.query \in Queries

(* The slot holds a cause only while the statement it belongs to runs, and *)
(* it holds one if a read of that statement failed.                        *)
SlotOwned ==
    /\ failure # Nothing => task.at \in {"executing", "reading", "concluding"}
    /\ task.lost => failure # Nothing

EngineInv == EngineTypeOK /\ AnswersOwnCause /\ SlotOwned /\ SoundRoles(roles)

(* The engine starts with page 1 as its root and an empty slot.            *)
LEMMA EngineInit == Init => EngineInv
<1> SUFFICES ASSUME Init PROVE EngineInv
  OBVIOUS
<1>1. EngineTypeOK /\ AnswersOwnCause /\ SlotOwned
  BY EngineAssumption
     DEF Init, EngineTypeOK, AnswersOwnCause, SlotOwned, Idle, Nothing, None, Places, Task
<1>2. SoundRoles(roles)
  <2>1. roles = [p \in {1} |-> Root] /\ DOMAIN roles = {1} /\ roles[1] = Root /\ 1 \in Pages
    BY EngineAssumption DEF Init, Pages
  <2>2. Rooted(roles)
    BY <2>1 DEF Rooted
  <2> QED
    BY <2>1, <2>2 DEF SoundRoles, Distinct
<1> QED
  BY <1>1, <1>2 DEF EngineInv

(* A cause of failure with a name is not an empty slot.                    *)
LEMMA CauseKept ==
    ASSUME NEW cause \in {"cancelled", "source", "exhausted", "corrupt"}, EngineInv,
           task.at \in {"executing", "reading"}, ReadFailed(cause), UNCHANGED <<queue, call, told, content>>
    PROVE  EngineTypeOK' /\ AnswersOwnCause' /\ SlotOwned'
<1>1. Of(task.query, cause) # Nothing /\ Of(task.query, cause).whose = task.query
  BY DEF Of, Nothing, None
<1>2. failure' # Nothing /\ failure'.whose = task.query
  BY <1>1 DEF ReadFailed, Remember, EngineInv, AnswersOwnCause
<1>3. task'.at \in {"executing", "concluding"} /\ task'.query = task.query /\ task' \in Task
  <2>1. task \in Task
    BY DEF EngineInv, EngineTypeOK
  <2>2. CASE task' = [task EXCEPT !.at = "concluding", !.result = "turso", !.lost = TRUE]
    BY <2>1, <2>2 DEF Task, Places
  <2>3. CASE task' = [task EXCEPT !.at = "executing", !.lost = TRUE]
    BY <2>1, <2>3 DEF Task, Places
  <2> QED
    BY <2>2, <2>3 DEF ReadFailed
<1>4. EngineTypeOK'
  BY <1>3 DEF EngineInv, EngineTypeOK
<1> QED
  BY <1>2, <1>3, <1>4 DEF EngineInv, AnswersOwnCause, SlotOwned

(* Ending the task answers its own caller, when the slot is left empty.    *)
LEMMA EndKept ==
    ASSUME EngineInv, NEW answer, answer.whose = task.query, task.at # "idle", End(answer),
           failure' = Nothing, UNCHANGED <<queue, content>>
    PROVE  EngineTypeOK' /\ AnswersOwnCause' /\ SlotOwned'
<1>1. task.query \in Queries
  BY DEF EngineInv, EngineTypeOK
<1>2. EngineTypeOK'
  BY <1>1 DEF End, EngineInv, EngineTypeOK, Idle, Places, None, Task
<1>3. \A q \in Queries : told'[q].whose \in {None, q}
  BY <1>1 DEF End, EngineInv, EngineTypeOK, AnswersOwnCause
<1> QED
  BY <1>2, <1>3 DEF AnswersOwnCause, SlotOwned, End, Idle

(* Every step of the engine, its callers and the store keeps the           *)
(* invariant.                                                              *)
LEMMA EngineNext ==
    ASSUME EngineInv, [Next]_vars
    PROVE  EngineInv'
<1>1. task \in Task /\ content \in Images /\ SoundRoles(roles)
  BY DEF EngineInv, EngineTypeOK
<1>2. ASSUME UNCHANGED <<content, roles>>, EngineTypeOK', AnswersOwnCause', SlotOwned'
      PROVE  EngineInv'
  BY <1>1, <1>2 DEF EngineInv, SoundRoles, Justified, FromCell, HeadsChain, FollowsInChain,
                    Rooted, Distinct, From, NextInChain
<1>3. ASSUME NEW q \in Queries, Refuse(q) \/ Submit(q) \/ DropCaller(q)
      PROVE  EngineInv'
  <2>1. CASE Refuse(q)
    BY <1>2, <2>1 DEF Refuse, EngineInv, EngineTypeOK, AnswersOwnCause, SlotOwned, Of
  <2>2. CASE Submit(q)
    BY <1>2, <2>2 DEF Submit, EngineInv, EngineTypeOK, AnswersOwnCause, SlotOwned
  <2>3. CASE DropCaller(q)
    <3>1. queue' \in Seq(Queries)
      <4>1. queue \in Seq(Queries)
        BY DEF EngineInv, EngineTypeOK
      <4>2. ASSUME NEW i \in DOMAIN queue PROVE RemoveAt(queue, i) \in Seq(Queries)
        <5>1. SubSeq(queue, 1, i - 1) \in Seq(Queries) /\ SubSeq(queue, i + 1, Len(queue)) \in Seq(Queries)
          BY <4>1
        <5> QED
          BY <5>1 DEF RemoveAt
      <4> QED
        BY <2>3, <4>1, <4>2 DEF DropCaller
    <3> QED
      BY <1>2, <2>3, <3>1 DEF DropCaller, EngineInv, EngineTypeOK, AnswersOwnCause, SlotOwned
  <2> QED
    BY <1>3, <2>1, <2>2, <2>3
<1>4. CASE Admit
  <2>1. Head(queue) \in Queries /\ Tail(queue) \in Seq(Queries)
    BY <1>4 DEF Admit, EngineInv, EngineTypeOK
  <2>2. /\ task' \in Task /\ task'.at = "spawned" /\ task'.query = Head(queue)
        /\ ~task'.lost
    BY <1>4, <2>1 DEF Admit, Idle, Task, Places
  <2>3. failure = Nothing
    BY <1>4 DEF Admit, EngineInv, SlotOwned
  <2> QED
    BY <1>2, <1>4, <2>1, <2>2, <2>3 DEF Admit, EngineInv, EngineTypeOK, AnswersOwnCause, SlotOwned
<1>5. CASE NextStatement
  <2>1. task'.query = task.query /\ task'.at = "executing" /\ ~task'.lost /\ task' \in Task
    <3>1. task.statement + 1 \in Nat
      BY <1>1 DEF Task
    <3> QED
      BY <1>1, <1>5, <3>1 DEF NextStatement, Task, Places
  <2> QED
    BY <1>2, <1>5, <2>1 DEF NextStatement, EngineInv, EngineTypeOK, AnswersOwnCause, SlotOwned
<1>6. CASE StopCancelled \/ AllDone
  <2>1. failure = Nothing /\ task.at # "idle"
    BY <1>6 DEF StopCancelled, AllDone, EngineInv, SlotOwned
  <2>2. \A cause : Of(task.query, cause).whose = task.query
    BY DEF Of
  <2> QED
    BY <1>2, <1>6, <2>1, <2>2, EndKept DEF StopCancelled, AllDone
<1>7. ASSUME NEW result \in {"ok", "exhausted", "turso"}, Ends(result)
      PROVE  EngineInv'
  <2>1. task'.query = task.query /\ task'.at = "concluding" /\ task'.lost = task.lost /\ task' \in Task
    BY <1>1, <1>7 DEF Ends, Task, Places
  <2> QED
    BY <1>2, <1>7, <2>1 DEF Ends, EngineInv, EngineTypeOK, AnswersOwnCause, SlotOwned
<1>8. ASSUME NEW p \in Pages, Ask(p)
      PROVE  EngineInv'
  <2>1. task'.query = task.query /\ task'.at = "reading" /\ task'.lost = task.lost /\ task' \in Task
    <3>1. task.reads + 1 \in Nat /\ p \in Nat
      BY <1>1, EngineAssumption DEF Task, Pages
    <3> QED
      BY <1>1, <1>8, <3>1 DEF Ask, Task, Places
  <2> QED
    BY <1>2, <1>8, <2>1 DEF Ask, EngineInv, EngineTypeOK, AnswersOwnCause, SlotOwned
<1>9. CASE ReadCancelled
  BY <1>2, <1>9, CauseKept DEF ReadCancelled
<1>10. ASSUME NEW cause \in {"source", "exhausted"}, SourceFails(cause)
       PROVE  EngineInv'
  BY <1>2, <1>10, CauseKept DEF SourceFails
<1>11. CASE SourceAnswers
  <2> DEFINE v == Validated(task.page)
  <2>1. Validating(v)
    BY <1>1, ValidatedSound
  <2>2. SoundRoles(roles)'
    <3>1. SoundRoles(v.roles) /\ roles' = v.roles /\ content' = content
      BY <1>11, <2>1 DEF SourceAnswers, Validating
    <3> HIDE DEF v
    <3>2. Rooted(roles)' /\ Distinct(roles)'
      BY <3>1 DEF SoundRoles, Rooted, Distinct, From
    <3>3. \A x, role : Justified(v.roles, x, role) => Justified(roles, x, role)'
      BY <3>1 DEF Justified, FromCell, HeadsChain, FollowsInChain, NextInChain
    <3> QED
      BY <3>1, <3>2, <3>3 DEF SoundRoles
  <2>3. EngineTypeOK' /\ AnswersOwnCause' /\ SlotOwned'
    <3>1. CASE v.error = "ok"
      <4>1. task'.query = task.query /\ task'.at = "executing" /\ task'.lost = task.lost /\ task' \in Task
        BY <1>1, <1>11, <3>1 DEF SourceAnswers, Task, Places
      <4> QED
        BY <1>11, <3>1, <4>1 DEF SourceAnswers, EngineInv, EngineTypeOK, AnswersOwnCause, SlotOwned
    <3>2. CASE v.error # "ok"
      <4>1. v.error \in {"corrupt", "exhausted"}
        BY <2>1, <3>2 DEF Validating, Errors
      <4> QED
        BY <1>11, <3>2, <4>1, CauseKept DEF SourceAnswers
    <3> QED
      BY <3>1, <3>2
  <2> QED
    BY <2>2, <2>3 DEF EngineInv
<1>12. CASE Conclude
  <2>1. CASE Cause # Nothing
    BY <1>2, <1>12, <2>1, EndKept DEF Conclude, Cause, TakeFailure, EngineInv, AnswersOwnCause
  <2>2. CASE Cause = Nothing /\ (Cancelled \/ task.result # "ok")
    <3>1. \A cause : Of(task.query, cause).whose = task.query
      BY DEF Of
    <3> QED
      BY <1>2, <1>12, <2>2, <3>1, EndKept DEF Conclude, TakeFailure
  <2>3. CASE Cause = Nothing /\ ~Cancelled /\ task.result = "ok"
    <3>1. task'.query = task.query /\ task'.at = "between" /\ ~task'.lost /\ task' \in Task
      BY <1>1, <1>12, <2>3 DEF Conclude, Task, Places, Cause, EngineInv, SlotOwned
    <3> QED
      BY <1>2, <1>12, <2>3, <3>1
         DEF Conclude, TakeFailure, EngineInv, EngineTypeOK, AnswersOwnCause, SlotOwned
  <2> QED
    BY <2>1, <2>2, <2>3
<1>13. CASE UNCHANGED vars
  BY <1>2, <1>13 DEF vars, EngineInv, EngineTypeOK, AnswersOwnCause, SlotOwned
<1> QED
  BY <1>3, <1>4, <1>5, <1>6, <1>7, <1>8, <1>9, <1>10, <1>11, <1>12, <1>13
     DEF Next, TaskStep, Source, Quiet

(* A query is told only of its own failed reads, for any number of queries *)
(* of the shared engine, dropped or not.                                   *)
THEOREM CausesAreOwn == Spec => []AnswersOwnCause
<1>1. EngineInv => AnswersOwnCause
  BY DEF EngineInv
<1> QED
  BY <1>1, EngineInit, EngineNext, PTL DEF Spec

(* No statement's rows are handed on after a read of it failed, whatever   *)
(* the engine makes of the error.                                          *)
THEOREM NoReadIsLost == Spec => []NoLostRead
<1>1. EngineInv => NoLostRead
  BY DEF EngineInv, SlotOwned, NoLostRead
<1> QED
  BY <1>1, EngineInit, EngineNext, PTL DEF Spec

(* Whatever an image holds, the pages the validator has given roles form   *)
(* one tree.                                                               *)
THEOREM RolesAreTree == Spec => []RolesFormTree
<1>1. EngineInv => RolesFormTree
  BY DEF EngineInv, SoundRoles, Rooted, Distinct, From, Referrer, RolesFormTree
<1> QED
  BY <1>1, EngineInit, EngineNext, PTL DEF Spec
===============================================================================
