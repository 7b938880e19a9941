------------------------- MODULE TableCreationProofs -------------------------
(***************************************************************************)
(* Proofs about TableCreation, for any creators and bounds.                *)
(***************************************************************************)
EXTENDS TableCreation, TLAPS

(* No call is the table that is not there, so a genesis is a HEAD.         *)
LEMMA GenesisIsHead ==
    ASSUME NEW c \in Calls
    PROVE  /\ GenesisHead(c) # NoHead
           /\ GenesisHead(c) \in [table : Calls, version : Nat]
           /\ GenesisHead(c).table = c
  BY CreationAssumption DEF GenesisHead, NoHead

(* Before anything is sent the invariant holds.                            *)
LEMMA CreationInit == Init => CreationInv
  BY CreationAssumption
     DEF Init, CreationInv, TypeOK, Knows, AnswersTrue, OwnTableDeniedOnlyIfMovedOn,
         Created, Results

(* A step that leaves HEAD alone keeps whose table it is.                  *)
LEMMA SameHead ==
    ASSUME UNCHANGED head
    PROVE  \A c \in Calls : Created(c)' <=> Created(c)
  BY DEF Created

(* Every step of initialize keeps the invariant.                           *)
LEMMA CreationStep ==
    ASSUME CreationInv, NEW c \in Calls, Step(c)
    PROVE  CreationInv'
<1> USE CreationAssumption
    DEF CreationInv, TypeOK, Knows, AnswersTrue, OwnTableDeniedOnlyIfMovedOn, Goto, Return,
        Results
<1>1. CASE Upload(c)
  BY <1>1, SameHead DEF Upload
<1>2. CASE UploadFails(c)
  BY <1>2, SameHead DEF UploadFails
<1>3. CASE CreateApplied(c)
  BY <1>3, GenesisIsHead DEF CreateApplied, Created
<1>4. CASE CreateConflict(c)
  BY <1>4, SameHead DEF CreateConflict
<1>5. CASE CreateIndeterminate(c)
  BY <1>5, SameHead DEF CreateIndeterminate
<1>6. ASSUME AnswerFromHead(c), UNCHANGED <<head, objects, late, reconciliations>>,
             pc[c] \in {"conflict", "reconcile"}
      PROVE  CreationInv'
  <2>1. CASE head = GenesisHead(c)
    BY <1>6, <2>1, SameHead, GenesisIsHead DEF AnswerFromHead, Created
  <2>2. CASE head # GenesisHead(c)
    <3>1. Created(c) => head.version > 0 /\ reconciliations[c] > 0
      BY <1>6, <2>2 DEF AnswerFromHead, Created, GenesisHead
    <3> QED
      BY <1>6, <2>2, <3>1, SameHead DEF AnswerFromHead
  <2> QED
    BY <2>1, <2>2
<1>7. CASE ReadConflict(c)
  <2>1. CASE AnswerFromHead(c)
    BY <1>6, <1>7, <2>1 DEF ReadConflict
  <2>2. CASE ConflictUnreadable(c)
    BY <1>7, <2>2, SameHead DEF ReadConflict, ConflictUnreadable
  <2> QED
    BY <1>7, <2>1, <2>2 DEF ReadConflict
<1>8. CASE Reconcile(c)
  <2>1. CASE AnswerFromHead(c)
    BY <1>6, <1>8, <2>1 DEF Reconcile
  <2>2. CASE RetryOrGiveUp(c)
    BY <1>8, <2>2, SameHead DEF Reconcile, RetryOrGiveUp
  <2> QED
    BY <1>8, <2>1, <2>2 DEF Reconcile
<1> QED
  BY <1>1, <1>2, <1>3, <1>4, <1>5, <1>7, <1>8 DEF Step

(* So does every step of the environment.                                  *)
LEMMA CreationNext ==
    ASSUME CreationInv, [Next]_vars
    PROVE  CreationInv'
<1> USE CreationAssumption
    DEF CreationInv, TypeOK, Knows, AnswersTrue, OwnTableDeniedOnlyIfMovedOn, Results
<1>1. ASSUME NEW c \in Calls, LateCreationLands(c)
      PROVE  CreationInv'
  BY <1>1, GenesisIsHead DEF LateCreationLands, Created
<1>2. ASSUME NEW c \in Calls, LateCreationFails(c)
      PROVE  CreationInv'
  BY <1>2, SameHead DEF LateCreationFails
<1>3. ASSUME NEW c \in Calls, Crash(c)
      PROVE  CreationInv'
  BY <1>3, SameHead DEF Crash, Running
<1>4. CASE Commit
  <2>1. /\ head \in [table : Calls, version : Nat]
        /\ head' = [table |-> head.table, version |-> head.version + 1]
        /\ head' # NoHead
    BY <1>4 DEF Commit, NoHead
  <2>2. \A c \in Calls : Created(c)' <=> Created(c)
    BY <1>4, <2>1 DEF Commit, Created
  <2> QED
    BY <1>4, <2>1, <2>2 DEF Commit
<1>5. CASE UNCHANGED vars
  BY <1>5, SameHead DEF vars
<1> QED
  BY <1>1, <1>2, <1>3, <1>4, <1>5, CreationStep DEF Next

(* What initialize tells its callers is true for ever, with any number of  *)
(* rivals, lost answers and later commits.                                 *)
THEOREM CreatorsAnsweredTruly ==
    Spec => [](TypeOK /\ AnswersTrue /\ OwnTableDeniedOnlyIfMovedOn)
<1>1. CreationInv => TypeOK /\ AnswersTrue /\ OwnTableDeniedOnlyIfMovedOn
  BY DEF CreationInv
<1> QED
  BY <1>1, CreationInit, CreationNext, PTL DEF Spec

(* A creator is told that the table is another's although it is its own    *)
(* only when later commits have moved HEAD on, for any number of rivals.   *)
THEOREM OwnTableDenied == Spec => []OwnTableDeniedOnlyIfMovedOn
<1>1. CreationInv => OwnTableDeniedOnlyIfMovedOn
  BY DEF CreationInv
<1> QED
  BY <1>1, CreationInit, CreationNext, PTL DEF Spec

(* Once HEAD is there no creation, retried or late, replaces the table.    *)
THEOREM TableStays == Spec => TableNeverReplaced
<1>1. ASSUME CreationInv, [Next]_vars
      PROVE  [head # NoHead => (head'.table = head.table /\ head'.version >= head.version)]_head
  <2>1. CASE Commit
    BY <1>1, <2>1 DEF Commit, CreationInv, TypeOK, NoHead
  <2>2. CASE head = NoHead \/ UNCHANGED head
    BY <1>1, <2>2
  <2>3. ASSUME NEW c \in Calls, Step(c) \/ LateCreationLands(c) \/ LateCreationFails(c) \/ Crash(c)
        PROVE  head = NoHead \/ UNCHANGED head
    BY <2>3 DEF Step, Upload, UploadFails, CreateApplied, CreateConflict, CreateIndeterminate,
                ReadConflict, Reconcile, LateCreationLands, LateCreationFails, Crash
  <2> QED
    BY <1>1, <2>1, <2>2, <2>3 DEF Next, vars
<1> QED
  BY <1>1, CreationInit, CreationNext, PTL DEF Spec, TableNeverReplaced
=============================================================================
