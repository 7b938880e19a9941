-------------------------- MODULE PublicationProofs --------------------------
(***************************************************************************)
(* Proofs about Publication, for any calls, keys, intents and bounds.      *)
(***************************************************************************)
EXTENDS Publication, TLAPS

-----------------------------------------------------------------------------
(* Types                                                                   *)

(* Replaying a key that an image holds yields the identifiers of a         *)
(* candidate (replay).                                                     *)
LEMMA CommittedType ==
    ASSUME NEW image \in Seq(Row), NEW c \in Calls, RowsFor(image, c) # {}
    PROVE  /\ Committed(image, c) \in Results
           /\ \E i \in RowsFor(image, c) : Committed(image, c) = Ok(image[i].cand)
<1>1. PICK i \in RowsFor(image, c) : Committed(image, c) = Ok(image[i].cand)
  BY DEF Committed
<1>0. image[i] \in Row
  BY DEF RowsFor
<1>2. image[i].cand \in Candidates
  BY <1>0 DEF Row
<1>3. Ok(image[i].cand) \in {Ok(d) : d \in Candidates}
  BY <1>2
<1>4. Committed(image, c) \in Results
  BY <1>1, <1>3, Zenon DEF Results
<1> QED
  BY <1>1, <1>4

(* The results that leave a commit open are failures, and no result yet is *)
(* not one of them.                                                        *)
LEMMA OpenFailures ==
    /\ Failed("indeterminate") \in OpenResults
    /\ Failed("image_error") \in OpenResults
    /\ NoResult \notin OpenResults
    /\ NoResult.kind # "ok"
<1>1. /\ Failed("indeterminate") \in OpenResults
      /\ Failed("image_error") \in OpenResults
  BY Zenon DEF OpenResults, OpenErrors
<1>2. NoResult \notin OpenResults
  BY DEF OpenResults, NoResult, Failed
<1> QED
  BY <1>1, <1>2 DEF NoResult

(* The row a call would commit is a row.                                   *)
LEMMA CandRowType ==
    ASSUME TypeOK, NEW c \in Calls
    PROVE  Cand(c) \in Candidates /\ CandRow(c) \in Row
  BY DEF TypeOK, Candidates, Row, Cand, CandRow

(* The names a call gives its objects are object names.                    *)
LEMMA ObjectTypes ==
    ASSUME TypeOK, NEW c \in Calls
    PROVE  /\ CommitObject(Cand(c)) \in Objects
           /\ ImageObject(Cand(c)) \in Objects
           /\ GenerationObject(Cand(c)) \in Objects
           /\ \A i \in 1..FileCount(c) : DataFile(c, i) \in Objects
           /\ FileCount(c) \in 0..FilesPerAppend
  BY ConstantsAssumption, CandRowType
     DEF TypeOK, Objects, CommitObject, ImageObject, GenerationObject, DataFile, FileCount

(* Answering from an image leaves pc and result well typed.                *)
LEMMA AnswerType ==
    ASSUME NEW image \in Seq(Row), NEW c \in Calls, pc \in [Calls -> Steps],
           result \in [Calls -> Results], AnswerFromImage(c, image)
    PROVE  pc' \in [Calls -> Steps] /\ result' \in [Calls -> Results]
<1>1. CASE Replays(image, c) /\ Return(c, Committed(image, c))
  BY <1>1, CommittedType DEF Return, Replays, Steps
<1>2. CASE Return(c, Failed("idempotency_conflict"))
  BY <1>2 DEF Return, Steps, Results, Errors
<1> QED
  BY <1>1, <1>2 DEF AnswerFromImage

(* An error is a result.                                                   *)
LEMMA FailedType ==
    ASSUME NEW e \in Errors
    PROVE  Failed(e) \in Results
  BY DEF Results

(* The initial state is well typed.                                        *)
LEMMA TypeInit == Init => TypeOK
<1> SUFFICES ASSUME Init PROVE TypeOK
  OBVIOUS
<1>1. NoResult \in Results
  BY DEF Results
<1> QED
  BY <1>1, ConstantsAssumption DEF Init, TypeOK, Steps

(* The steps of append_files keep the types.                               *)
LEMMA TypeAppendStep ==
    ASSUME TypeOK, NEW c \in Calls, AppendStep(c)
    PROVE  TypeOK'
<1> USE ConstantsAssumption, ObjectTypes, FailedType DEF Goto, Steps
<1>1. CASE FirstPin(c)
  <2>1. pc' \in [Calls -> Steps] /\ result' \in [Calls -> Results]
    BY <1>1, AnswerType DEF FirstPin, Return, TypeOK, Errors
  <2> QED
    BY <1>1, <2>1 DEF FirstPin, TypeOK
<1>2. CASE StageFile(c)
  BY <1>2 DEF StageFile, TypeOK
<1>3. CASE StageFileFails(c)
  <2>1. \A i \in 1..(staged[c] + 1) : DataFile(c, i) \in Objects
    BY <1>3 DEF StageFileFails, TypeOK
  <2>2. Staged(c) \cup {DataFile(c, staged[c] + 1)} \subseteq Objects
    <3>1. staged[c] \in Nat
      BY DEF TypeOK
    <3>2. /\ \A i \in 1..staged[c] : DataFile(c, i) \in Objects
          /\ DataFile(c, staged[c] + 1) \in Objects
      BY <2>1, <3>1
    <3> QED
      BY <3>2, Zenon DEF Staged
  <2>3. objects' \subseteq Objects
    BY <1>3, <2>2, Zenon DEF StageFileFails, TypeOK
  <2> QED
    BY <1>3, <2>3 DEF StageFileFails, TypeOK, Return, Errors
<1>4. CASE StagingDone(c)
  BY <1>4 DEF StagingDone, TypeOK
<1>5. CASE SecondPin(c)
  <2>1. ASSUME Replays(head, c) PROVE Committed(head, c) \in Results
    <3>1. head \in Seq(Row)
      BY DEF TypeOK
    <3>2. RowsFor(head, c) # {}
      BY <2>1 DEF Replays
    <3> QED
      BY <3>1, <3>2, CommittedType
  <2>3. pc' \in [Calls -> Steps] /\ result' \in [Calls -> Results]
    BY <1>5, <2>1 DEF SecondPin, Return, TypeOK, Errors
  <2>2. objects' \subseteq Objects
    BY <1>5 DEF SecondPin, CleanUp, TypeOK
  <2> QED
    BY <1>5, <2>2, <2>3 DEF SecondPin, TypeOK
<1> QED
  BY <1>1, <1>2, <1>3, <1>4, <1>5 DEF AppendStep

(* The steps of publish_transaction_from_parent keep the types.            *)
LEMMA TypePublishStep ==
    ASSUME TypeOK, NEW c \in Calls, PublishStep(c)
    PROVE  TypeOK'
<1> USE ConstantsAssumption, ObjectTypes, FailedType DEF Goto, Steps
<1>1. CASE ParentPin(c)
  BY <1>1 DEF ParentPin, TypeOK, Return, Errors
<1>2. CASE Build(c)
  <2>1. pc' \in [Calls -> Steps] /\ result' \in [Calls -> Results]
    BY <1>2, AnswerType DEF Build, Return, TypeOK, Errors
  <2> QED
    BY <1>2, <2>1 DEF Build, TypeOK
<1>3. CASE ConfirmStaged(c)
  BY <1>3 DEF ConfirmStaged, TypeOK, Return, Errors
<1>4. CASE PutCommit(c)
  BY <1>4 DEF PutCommit, PutImmutable, TypeOK, Return, Errors
<1>5. CASE PutImage(c)
  BY <1>5 DEF PutImage, PutImmutable, TypeOK, Return, Errors
<1>6. CASE PutGeneration(c)
  BY <1>6 DEF PutGeneration, PutImmutable, TypeOK, Return, Errors
<1>7. CASE HeadApplied(c)
  <2>1. head' \in Seq(Row)
    BY <1>7, CandRowType DEF HeadApplied, TypeOK
  <2>2. Ok(Cand(c)) \in Results
    BY CandRowType DEF Results
  <2> QED
    BY <1>7, <2>1, <2>2 DEF HeadApplied, TypeOK, Return
<1>8. CASE HeadConflict(c)
  BY <1>8 DEF HeadConflict, TypeOK
<1>9. CASE HeadIndeterminate(c)
  BY <1>9, CandRowType DEF HeadIndeterminate, TypeOK
<1>10. CASE Reconcile(c)
  <2>1. pc' \in [Calls -> Steps] /\ result' \in [Calls -> Results]
    BY <1>10, AnswerType DEF Reconcile, ImageUnreadable, RetryOrGiveUp, Return, TypeOK, Errors
  <2> QED
    BY <1>10, <2>1 DEF Reconcile, TypeOK
<1>11. CASE WinnerRead(c)
  <2>1. pc' \in [Calls -> Steps] /\ result' \in [Calls -> Results]
    BY <1>11, AnswerType DEF WinnerRead, ImageUnreadable, WinnerUnreadable, Return, TypeOK, Errors
  <2> QED
    BY <1>11, <2>1 DEF WinnerRead, TypeOK
<1>12. CASE Rebase(c)
  BY <1>12 DEF Rebase, Exhausted, TypeOK
<1> QED
  BY <1>1, <1>2, <1>3, <1>4, <1>5, <1>6, <1>7, <1>8, <1>9, <1>10, <1>11, <1>12
     DEF PublishStep

(* So does every other step.                                               *)
LEMMA TypeNext == TypeOK /\ [Next]_vars => TypeOK'
<1> SUFFICES ASSUME TypeOK, [Next]_vars PROVE TypeOK'
  OBVIOUS
<1>1. ASSUME NEW c \in Calls, Step(c) PROVE TypeOK'
  BY <1>1, TypeAppendStep, TypePublishStep DEF Step
<1>2. ASSUME NEW c \in Calls, Crash(c) PROVE TypeOK'
  BY <1>2 DEF Crash, TypeOK, Steps
<1>3. ASSUME NEW w \in late, LateWriteLands(w) PROVE TypeOK'
  <2>1. w \in [expected : Seq(Row), row : Row]
    BY DEF TypeOK
  <2>2. w.expected \in Seq(Row) /\ w.row \in Row
    BY <2>1
  <2>3. head' \in Seq(Row)
    BY <1>3, <2>2 DEF LateWriteLands
  <2> QED
    BY <1>3, <2>3 DEF LateWriteLands, callVars, TypeOK
<1>4. ASSUME NEW w \in late, LateWriteFails(w) PROVE TypeOK'
  BY <1>4 DEF LateWriteFails, callVars, TypeOK
<1>5. CASE UNCHANGED vars
  BY <1>5 DEF vars, TypeOK
<1> QED
  BY <1>1, <1>2, <1>3, <1>4, <1>5 DEF Next, AllSettled

(* Every variable keeps its type, whatever the calls and the bounds.       *)
THEOREM TypeCorrect == Spec => []TypeOK
  BY TypeInit, TypeNext, PTL DEF Spec
-----------------------------------------------------------------------------
(* Frames: what a step leaves alone                                        *)

(* A step of one call does not touch the state of another.                 *)
LEMMA StepFrame ==
    ASSUME TypeOK, NEW c \in Calls, Step(c), NEW d \in Calls, d # c
    PROVE  /\ pc'[d] = pc[d]
           /\ parent'[d] = parent[d]
           /\ rebases'[d] = rebases[d]
           /\ indeterminate'[d] = indeterminate[d]
           /\ staged'[d] = staged[d]
           /\ result'[d] = result[d]
<1> USE DEF TypeOK, Return, Goto, AnswerFromImage
<1>1. CASE AppendStep(c)
  BY <1>1 DEF AppendStep, FirstPin, StageFile, StageFileFails, StagingDone, SecondPin
<1>2. CASE ParentPin(c) \/ Build(c) \/ ConfirmStaged(c) \/ PutCommit(c) \/ PutImage(c)
           \/ PutGeneration(c)
  BY <1>2 DEF ParentPin, Build, ConfirmStaged, PutCommit, PutImage, PutGeneration,
              PutImmutable
<1>3. CASE HeadApplied(c) \/ HeadConflict(c) \/ HeadIndeterminate(c)
  BY <1>3 DEF HeadApplied, HeadConflict, HeadIndeterminate
<1>4. CASE Reconcile(c) \/ WinnerRead(c) \/ Rebase(c)
  BY <1>4 DEF Reconcile, ImageUnreadable, RetryOrGiveUp, WinnerRead, WinnerUnreadable, Rebase
<1> QED
  BY <1>1, <1>2, <1>3, <1>4 DEF Step, PublishStep

(* HEAD and the writes under way change only at the conditional write, and *)
(* a parent only by pinning HEAD.                                          *)
LEMMA StepEffect ==
    ASSUME TypeOK, NEW c \in Calls, Step(c)
    PROVE  /\ head' = head \/ HeadApplied(c)
           /\ late' = late \/ HeadIndeterminate(c)
           /\ parent'[c] = parent[c] \/ (parent'[c] = head /\ head' = head)
<1> USE DEF TypeOK, Return, Goto, AnswerFromImage
<1>1. CASE AppendStep(c)
  BY <1>1 DEF AppendStep, FirstPin, StageFile, StageFileFails, StagingDone, SecondPin
<1>2. CASE ParentPin(c) \/ Build(c) \/ ConfirmStaged(c) \/ PutCommit(c) \/ PutImage(c)
           \/ PutGeneration(c)
  BY <1>2 DEF ParentPin, Build, ConfirmStaged, PutCommit, PutImage, PutGeneration,
              PutImmutable
<1>3. CASE HeadApplied(c) \/ HeadConflict(c) \/ HeadIndeterminate(c)
  BY <1>3 DEF HeadApplied, HeadConflict, HeadIndeterminate
<1>4. CASE Reconcile(c) \/ WinnerRead(c) \/ Rebase(c)
  BY <1>4 DEF Reconcile, ImageUnreadable, RetryOrGiveUp, WinnerRead, WinnerUnreadable, Rebase
<1> QED
  BY <1>1, <1>2, <1>3, <1>4 DEF Step, PublishStep

(* Objects disappear only when a call that has published nothing cleans up *)
(* its own staged files.                                                   *)
LEMMA StepObjects ==
    ASSUME TypeOK, NEW c \in Calls, Step(c), NEW o \in objects
    PROVE  o \in objects' \/ (pc[c] \in {"stage", "pin2"} /\ o \in Staged(c))
<1>1. CASE AppendStep(c)
  BY <1>1 DEF AppendStep, FirstPin, StageFile, StageFileFails, StagingDone, SecondPin,
              CleanUp
<1>2. CASE ParentPin(c) \/ Build(c) \/ ConfirmStaged(c) \/ PutCommit(c) \/ PutImage(c)
           \/ PutGeneration(c)
  BY <1>2 DEF ParentPin, Build, ConfirmStaged, PutCommit, PutImage, PutGeneration,
              PutImmutable
<1>3. CASE HeadApplied(c) \/ HeadConflict(c) \/ HeadIndeterminate(c)
  BY <1>3 DEF HeadApplied, HeadConflict, HeadIndeterminate
<1>4. CASE Reconcile(c) \/ WinnerRead(c) \/ Rebase(c)
  BY <1>4 DEF Reconcile, ImageUnreadable, RetryOrGiveUp, WinnerRead, WinnerUnreadable, Rebase
<1> QED
  BY <1>1, <1>2, <1>3, <1>4 DEF Step, PublishStep

(* HEAD moves to a longer history or stays.                                *)
LEMMA HeadStep ==
    ASSUME TypeOK, [Next]_vars
    PROVE  head' = head \/ \E r \in Row : head' = Append(head, r)
<1>1. ASSUME NEW c \in Calls, Step(c), head' # head
      PROVE  \E r \in Row : head' = Append(head, r)
  <2>1. HeadApplied(c)
    BY <1>1, StepEffect
  <2> QED
    BY <2>1, CandRowType DEF HeadApplied
<1>2. ASSUME NEW w \in late, LateWriteLands(w)
      PROVE  \E r \in Row : head' = Append(head, r)
  <2>1. w.row \in Row
    BY DEF TypeOK
  <2> QED
    BY <1>2, <2>1 DEF LateWriteLands
<1> QED
  BY <1>1, <1>2 DEF Next, Crash, LateWriteFails, vars

(* HEAD only ever advances by one commit (HeadAdvancesByOne).              *)
THEOREM HeadAdvances == Spec => HeadAdvancesByOne
<1>1. TypeOK /\ [Next]_vars => [\E r \in Row : head' = Append(head, r)]_head
  BY HeadStep
<1> QED
  BY <1>1, TypeCorrect, PTL DEF Spec, HeadAdvancesByOne

-----------------------------------------------------------------------------
(* The inductive invariant, one conjunct at a time                         *)

(* Pinned and expected images stay behind HEAD.                            *)
LEMMA ImagesStep ==
    ASSUME TypeOK, TypeOK', ImagesNotAhead, [Next]_vars
    PROVE  ImagesNotAhead'
<1> DEFINE Behind(image) == /\ Len(image) <= Len(head')
                            /\ \A i \in 1..Len(image) : image[i] = head'[i]
                            /\ Len(image) = Len(head') => image = head'
<1>1. ASSUME NEW image \in Seq(Row), NotAhead(image) PROVE Behind(image)
  BY <1>1, HeadStep DEF NotAhead, TypeOK
<1>2. ASSUME NEW d \in Calls PROVE Behind(parent'[d])
  <2>1. Behind(parent[d])
    BY <1>1 DEF ImagesNotAhead, TypeOK
  <2>2. CASE parent'[d] = parent[d]
    BY <2>1, <2>2
  <2>3. CASE parent'[d] = head /\ head' = head
    BY <2>3
  <2>4. ASSUME NEW c \in Calls, Step(c)
        PROVE  parent'[d] = parent[d] \/ (parent'[d] = head /\ head' = head)
    BY <2>4, StepFrame, StepEffect
  <2> QED
    BY <2>2, <2>3, <2>4
       DEF Next, Crash, LateWriteLands, LateWriteFails, callVars, vars
<1>3. ASSUME NEW w \in late' PROVE Behind(w.expected)
  <2>1. ASSUME w \in late PROVE Behind(w.expected)
    BY <2>1, <1>1 DEF ImagesNotAhead, TypeOK
  <2>2. ASSUME NEW c \in Calls, HeadIndeterminate(c), w \notin late PROVE Behind(w.expected)
    <3>1. w.expected = parent[c]
      BY <2>2 DEF HeadIndeterminate
    <3> QED
      BY <3>1, <1>1 DEF ImagesNotAhead, TypeOK
  <2> QED
    BY <2>1, <2>2, StepEffect DEF Next, Crash, LateWriteLands, LateWriteFails, vars
<1> QED
  BY <1>2, <1>3 DEF ImagesNotAhead, NotAhead

(* A candidate's parent lacks its key.                                     *)
LEMMA ParentLacksKeyStep ==
    ASSUME TypeOK, ParentLacksKey, [Next]_vars
    PROVE  ParentLacksKey'
<1> USE DEF Candidacy
<1> SUFFICES ASSUME NEW d \in Calls, pc'[d] \in Candidacy PROVE KeyFree(parent'[d], d)
  BY DEF ParentLacksKey, KeyFree, RowsFor
<1>1. ASSUME NEW c \in Calls, Step(c) PROVE KeyFree(parent'[d], d)
  <2>1. CASE c # d
    BY <2>1, <1>1, StepFrame DEF ParentLacksKey
  <2>2. CASE c = d /\ AppendStep(c)
    BY <2>2 DEF AppendStep, FirstPin, StageFile, StageFileFails, StagingDone, SecondPin,
                TypeOK, Return, Goto, AnswerFromImage
  <2>3. CASE c = d /\ (ParentPin(c) \/ Build(c) \/ ConfirmStaged(c))
    BY <2>3 DEF ParentPin, Build, ConfirmStaged, TypeOK, Return, Goto, AnswerFromImage,
                ParentLacksKey
  <2>4. CASE c = d /\ (PutCommit(c) \/ PutImage(c) \/ PutGeneration(c))
    BY <2>4 DEF PutCommit, PutImage, PutGeneration, PutImmutable, TypeOK, Return, Goto,
                ParentLacksKey
  <2>5. CASE c = d /\ (HeadApplied(c) \/ HeadConflict(c) \/ HeadIndeterminate(c))
    BY <2>5 DEF HeadApplied, HeadConflict, HeadIndeterminate, TypeOK, Return, Goto,
                ParentLacksKey
  <2>6. CASE c = d /\ (Reconcile(c) \/ WinnerRead(c) \/ Rebase(c))
    BY <2>6 DEF Reconcile, ImageUnreadable, RetryOrGiveUp, WinnerRead, WinnerUnreadable, Rebase, TypeOK,
                Return, Goto, AnswerFromImage, ParentLacksKey
  <2> QED
    BY <1>1, <2>1, <2>2, <2>3, <2>4, <2>5, <2>6 DEF Step, PublishStep
<1>2. ASSUME NEW c \in Calls, Crash(c) PROVE KeyFree(parent'[d], d)
  BY <1>2 DEF Crash, TypeOK, ParentLacksKey
<1> QED
  BY <1>1, <1>2 DEF Next, LateWriteLands, LateWriteFails, callVars, vars, ParentLacksKey

(* Only a call that has returned has a result.                             *)
LEMMA ResultStep ==
    ASSUME TypeOK, ResultOnReturn, [Next]_vars
    PROVE  ResultOnReturn'
<1> SUFFICES ASSUME NEW d \in Calls, pc'[d] # "returned" PROVE result'[d] = NoResult
  BY DEF ResultOnReturn
<1>1. ASSUME NEW c \in Calls, Step(c) PROVE result'[d] = NoResult
  <2>1. CASE c # d
    BY <2>1, <1>1, StepFrame DEF ResultOnReturn
  <2>2. CASE c = d
    <3>1. pc[c] # "returned" /\ (result' = result \/ pc'[c] = "returned")
      <4> USE DEF TypeOK, Return, Goto, AnswerFromImage
      <4>1. CASE AppendStep(c)
        BY <4>1 DEF AppendStep, FirstPin, StageFile, StageFileFails, StagingDone, SecondPin
      <4>2. CASE PublishStep(c)
        BY <4>2 DEF PublishStep, ParentPin, Build, ConfirmStaged, PutCommit, PutImage,
                    PutGeneration, PutImmutable, HeadApplied, HeadConflict,
                    HeadIndeterminate, Reconcile, RetryOrGiveUp, WinnerRead,
                    WinnerUnreadable, ImageUnreadable, Rebase
      <4> QED
        BY <1>1, <4>1, <4>2 DEF Step
    <3> QED
      BY <2>2, <3>1 DEF ResultOnReturn
  <2> QED
    BY <2>1, <2>2
<1>2. ASSUME NEW c \in Calls, Crash(c) PROVE result'[d] = NoResult
  BY <1>2 DEF Crash, Running, TypeOK, ResultOnReturn
<1> QED
  BY <1>1, <1>2 DEF Next, LateWriteLands, LateWriteFails, callVars, vars, ResultOnReturn

(* A call looks for a winner only once HEAD has left its parent.           *)
LEMMA WinnerStep ==
    ASSUME TypeOK, TypeOK', ImagesNotAhead, WinnerAhead, [Next]_vars
    PROVE  WinnerAhead'
<1> SUFFICES ASSUME NEW d \in Calls, pc'[d] = "winner" PROVE Len(parent'[d]) < Len(head')
  BY DEF WinnerAhead
<1>0. Len(head) \in Nat /\ Len(parent[d]) \in Nat /\ Len(head') \in Nat /\ Len(head) <= Len(head')
  BY HeadStep DEF TypeOK
<1>1. ASSUME pc[d] = "winner", parent'[d] = parent[d] PROVE Len(parent'[d]) < Len(head')
  BY <1>0, <1>1 DEF WinnerAhead
<1>2. ASSUME NEW c \in Calls, Step(c) PROVE Len(parent'[d]) < Len(head')
  <2>1. CASE c # d
    BY <2>1, <1>1, <1>2, StepFrame
  <2>2. CASE c = d
    <3>1. CASE HeadConflict(c)
      BY <1>0, <2>2, <3>1 DEF HeadConflict, ImagesNotAhead, NotAhead
    <3>2. CASE Reconcile(c)
      BY <1>0, <2>2, <3>2 DEF Reconcile, ImageUnreadable, RetryOrGiveUp, ImagesNotAhead, NotAhead, Return,
                         Goto, AnswerFromImage, TypeOK
    <3>3. pc'[c] # "winner" \/ HeadConflict(c) \/ Reconcile(c)
      <4> USE DEF TypeOK, Return, Goto, AnswerFromImage
      <4>1. CASE AppendStep(c)
        BY <4>1 DEF AppendStep, FirstPin, StageFile, StageFileFails, StagingDone, SecondPin
      <4>2. CASE PublishStep(c)
        BY <4>2 DEF PublishStep, ParentPin, Build, ConfirmStaged, PutCommit, PutImage,
                    PutGeneration, PutImmutable, HeadApplied,
                    HeadIndeterminate, WinnerRead, WinnerUnreadable, ImageUnreadable, Rebase
      <4> QED
        BY <1>2, <4>1, <4>2 DEF Step
    <3> QED
      BY <2>2, <3>1, <3>2, <3>3
  <2> QED
    BY <2>1, <2>2
<1>3. ASSUME NEW c \in Calls, Crash(c) PROVE Len(parent'[d]) < Len(head')
  BY <1>1, <1>3 DEF Crash, TypeOK
<1> QED
  BY <1>1, <1>2, <1>3 DEF Next, LateWriteLands, LateWriteFails, callVars, vars

(* No step removes a metadata object, nor another call's data file, nor a  *)
(* data file of a call past its second pin.                                *)
LEMMA ObjectsKept ==
    ASSUME TypeOK, NEW c \in Calls, Step(c)
    PROVE  /\ \A x : CommitObject(x) \in objects => CommitObject(x) \in objects'
           /\ \A x : ImageObject(x) \in objects => ImageObject(x) \in objects'
           /\ \A x : GenerationObject(x) \in objects => GenerationObject(x) \in objects'
           /\ \A d, i : d # c /\ DataFile(d, i) \in objects => DataFile(d, i) \in objects'
           /\ pc[c] \notin {"stage", "pin2"} => objects \subseteq objects'
<1>1. \A x, i : /\ CommitObject(x) # DataFile(c, i)
                /\ ImageObject(x) # DataFile(c, i)
                /\ GenerationObject(x) # DataFile(c, i)
  BY DEF CommitObject, ImageObject, GenerationObject, DataFile
<1>2. \A d, i, j : d # c => DataFile(d, i) # DataFile(c, j)
  BY DEF DataFile
<1>3. \A o \in objects : o \in objects' \/ \E i : o = DataFile(c, i)
  BY StepObjects DEF Staged
<1>4. pc[c] \notin {"stage", "pin2"} => objects \subseteq objects'
  BY StepObjects
<1> QED
  BY <1>1, <1>2, <1>3, <1>4

(* Uploads done before a step are still there at the next one.             *)
LEMMA UploadedStep ==
    ASSUME TypeOK, Uploaded, [Next]_vars
    PROVE  Uploaded'
<1> USE DEF Candidacy
<1> DEFINE U(d) ==
        /\ pc'[d] \in {"pin2", "parent_pin", "build"} \cup Candidacy =>
               staged'[d] = FileCount(d)
        /\ pc'[d] \in Candidacy \ {"confirm"} =>
               {DataFile(d, i) : i \in 1..staged'[d]} \subseteq objects'
        /\ pc'[d] \in {"put_image", "put_generation", "cas", "reconcile"} =>
               CommitObject(<<d, rebases'[d]>>) \in objects'
        /\ pc'[d] \in {"put_generation", "cas", "reconcile"} =>
               ImageObject(<<d, rebases'[d]>>) \in objects'
        /\ pc'[d] \in {"cas", "reconcile"} => GenerationObject(<<d, rebases'[d]>>) \in objects'
<1> SUFFICES ASSUME NEW d \in Calls PROVE U(d)
  BY DEF Uploaded, Cand, CommitObject, ImageObject, GenerationObject, Staged
<1>1. ASSUME NEW c \in Calls, Step(c) PROVE U(d)
  <2>1. CASE c # d
    BY <2>1, <1>1, StepFrame, ObjectsKept DEF Uploaded, Cand, Staged
  <2>2. CASE c = d /\ AppendStep(c)
    BY <2>2 DEF AppendStep, FirstPin, StageFile, StageFileFails, StagingDone, SecondPin,
                TypeOK, Return, Goto, AnswerFromImage, Uploaded
  <2>3. CASE c = d /\ (ParentPin(c) \/ Build(c) \/ ConfirmStaged(c))
    BY <2>3 DEF ParentPin, Build, ConfirmStaged, TypeOK, Return, Goto, AnswerFromImage,
                Uploaded, Staged
  <2>4. CASE c = d /\ (PutCommit(c) \/ PutImage(c) \/ PutGeneration(c))
    BY <2>4 DEF PutCommit, PutImage, PutGeneration, PutImmutable, TypeOK, Return, Goto,
                Uploaded, Staged, Cand
  <2>5. CASE c = d /\ (HeadApplied(c) \/ HeadConflict(c) \/ HeadIndeterminate(c))
    BY <2>5 DEF HeadApplied, HeadConflict, HeadIndeterminate, TypeOK, Return, Goto,
                Uploaded, Staged, Cand
  <2>6. CASE c = d /\ (Reconcile(c) \/ WinnerRead(c))
    BY <2>6 DEF Reconcile, ImageUnreadable, RetryOrGiveUp, WinnerRead, WinnerUnreadable, TypeOK,
                Return, Goto, AnswerFromImage, Uploaded, Staged, Cand
  <2>7. CASE c = d /\ Rebase(c)
    BY <2>7 DEF Rebase, TypeOK, Goto, Uploaded
  <2> QED
    BY <1>1, <2>1, <2>2, <2>3, <2>4, <2>5, <2>6, <2>7 DEF Step, PublishStep
<1>2. ASSUME NEW c \in Calls, Crash(c) PROVE U(d)
  BY <1>2 DEF Crash, TypeOK, Uploaded, Staged, Cand
<1>3. CASE UNCHANGED callVars /\ objects' = objects
  BY <1>3 DEF callVars, Uploaded, Staged, Cand
<1> QED
  BY <1>1, <1>2, <1>3 DEF Next, LateWriteLands, LateWriteFails, callVars, vars

(* A call that has sent something either stays exposed or rebases.         *)
LEMMA ExposedStep ==
    ASSUME TypeOK, TypeOK', ImagesNotAhead, ParentLacksKey, ResultOnReturn, WinnerAhead,
           NEW c \in Calls, Step(c), pc[c] \notin Early
    PROVE  /\ pc'[c] \notin Early
           /\ Exposed(c) => Exposed(c)' \/ Rebase(c)
<1> USE DEF Early
<1>0. /\ Len(head) \in Nat /\ Len(parent[c]) \in Nat /\ Len(head') \in Nat
      /\ Len(head) <= Len(head')
  <2>1. [Next]_vars
    BY DEF Next
  <2>2. head' = head \/ \E r \in Row : head' = Append(head, r)
    BY <2>1, HeadStep
  <2>3. head \in Seq(Row) /\ head' \in Seq(Row) /\ parent[c] \in Seq(Row)
    BY DEF TypeOK
  <2> QED
    BY <2>2, <2>3
<1>1. ~AppendStep(c) /\ ~ParentPin(c)
  BY DEF AppendStep, FirstPin, StageFile, StageFileFails, StagingDone, SecondPin, ParentPin
<1>2. pc[c] # "returned" /\ pc[c] # "crashed" /\ result[c] = NoResult
  BY <1>1 DEF Step, PublishStep, Build, ConfirmStaged, PutCommit, PutImage, PutGeneration,
         PutImmutable, HeadApplied, HeadConflict, HeadIndeterminate, Reconcile, WinnerRead,
         Rebase, ResultOnReturn
<1>3. NoResult \notin OpenResults
  BY OpenFailures
<1>4. CASE Build(c) \/ ConfirmStaged(c)
  BY <1>0, <1>2, <1>3, <1>4
     DEF Build, ConfirmStaged, TypeOK, Return, Goto, AnswerFromImage, Exposed, Unsure
<1>5. CASE PutCommit(c) \/ PutImage(c) \/ PutGeneration(c)
  BY <1>0, <1>2, <1>3, <1>5
     DEF PutCommit, PutImage, PutGeneration, PutImmutable, TypeOK, Return, Goto, Exposed, Unsure
<1>6. CASE HeadApplied(c)
  BY <1>0, <1>6, CandRowType DEF HeadApplied, TypeOK, Return, Exposed
<1>7. CASE HeadConflict(c)
  BY <1>0, <1>7 DEF HeadConflict, TypeOK, Goto, Exposed, ImagesNotAhead, NotAhead
<1>8. CASE HeadIndeterminate(c)
  BY <1>8 DEF HeadIndeterminate, TypeOK, Goto, Exposed, Unsure
<1>9. CASE Reconcile(c)
  <2>1. CASE AnswerFromImage(c, head)
    <3>1. RowsFor(head, c) # {}
      BY <2>1 DEF AnswerFromImage, Replays, KeyTaken
    <3>2. head # parent[c]
      BY <3>1, <1>9 DEF Reconcile, ParentLacksKey, Candidacy, KeyFree
    <3> QED
      BY <1>0, <1>9, <2>1, <3>2 DEF Reconcile, AnswerFromImage, Return, TypeOK, Exposed,
                              ImagesNotAhead, NotAhead
  <2>2. CASE RetryOrGiveUp(c) \/ Goto(c, "winner")
    BY <1>0, <1>2, <1>3, <1>9, <2>2, OpenFailures
       DEF Reconcile, RetryOrGiveUp, Return, Goto, TypeOK, Exposed, Unsure
  <2>3. CASE ImageUnreadable(c)
    BY <1>9, <2>3, OpenFailures DEF ImageUnreadable, Return, TypeOK, Exposed, Unsure
  <2> QED
    BY <1>9, <2>1, <2>2, <2>3 DEF Reconcile
<1>10. CASE WinnerRead(c)
  BY <1>0, <1>10 DEF WinnerRead, WinnerUnreadable, ImageUnreadable, Return, AnswerFromImage,
                     TypeOK, Exposed, WinnerAhead
<1>11. CASE Rebase(c)
  BY <1>11 DEF Rebase, Goto, TypeOK
<1> QED
  BY <1>1, <1>4, <1>5, <1>6, <1>7, <1>8, <1>9, <1>10, <1>11 DEF Step, PublishStep

(* Rows and writes under way are well typed.                               *)
LEMMA RowTypes ==
    ASSUME TypeOK
    PROVE  /\ \A r \in Row : r.cand[1] \in Calls
           /\ \A w \in late : w.expected \in Seq(Row) /\ w.row \in Row
                             /\ w.row.cand[1] \in Calls
           /\ \A i \in 1..Len(head) : head[i] \in Row /\ head[i].cand[1] \in Calls
<1>1. \A r \in Row : r.cand[1] \in Calls
  BY DEF Row, Candidates
<1>2. \A w \in late : w.expected \in Seq(Row) /\ w.row \in Row
  BY DEF TypeOK
<1>3. \A i \in 1..Len(head) : head[i] \in Row
  BY DEF TypeOK
<1> QED
  BY <1>1, <1>2, <1>3

(* At the conditional write everything a reader of the candidate needs has *)
(* been uploaded.                                                          *)
LEMMA CandidateUploaded ==
    ASSUME TypeOK, Uploaded, NEW c \in Calls, pc[c] = "cas"
    PROVE  Reachable(CandRow(c)) \subseteq objects
<1>1. CandRow(c).cand = Cand(c) /\ CandRow(c).cand[1] = c
  BY DEF CandRow, Cand
<1>2. staged[c] = FileCount(c) /\ Staged(c) \subseteq objects
  BY DEF Uploaded, Candidacy
<1>3. /\ CommitObject(Cand(c)) \in objects
      /\ ImageObject(Cand(c)) \in objects
      /\ GenerationObject(Cand(c)) \in objects
  BY DEF Uploaded
<1> QED
  BY <1>1, <1>2, <1>3 DEF Reachable, Staged

(* A step keeps everything a row needs, unless its own call is still       *)
(* staging files.                                                          *)
LEMMA ReachableKept ==
    ASSUME TypeOK, NEW c \in Calls, Step(c), NEW r \in Row, Reachable(r) \subseteq objects,
           r.cand[1] # c \/ pc[c] \notin {"stage", "pin2"}
    PROVE  Reachable(r) \subseteq objects'
<1>1. CASE pc[c] \notin {"stage", "pin2"}
  BY <1>1, ObjectsKept
<1>2. CASE r.cand[1] # c
  BY <1>2, ObjectsKept DEF Reachable
<1> QED
  BY <1>1, <1>2

(* Late writes stay owned.                                                 *)
LEMMA LateStep ==
    ASSUME TypeOK, TypeOK', ImagesNotAhead, ParentLacksKey, ResultOnReturn, WinnerAhead,
           LateWritesOwned, Uploaded, [Next]_vars
    PROVE  LateWritesOwned'
<1> DEFINE Owned(w) ==
        /\ RowIntact(w.row)
        /\ KeyFree(w.expected, w.row.cand[1])
        /\ Reachable(w.row) \subseteq objects'
        /\ pc'[w.row.cand[1]] \notin Early
        /\ Len(w.expected) <= Len(parent'[w.row.cand[1]])
        /\ Len(w.expected) = Len(parent'[w.row.cand[1]]) => Exposed(w.row.cand[1])'
<1> SUFFICES ASSUME NEW w \in late' PROVE Owned(w)
  BY DEF LateWritesOwned, RowIntact, KeyFree, RowsFor, Reachable
<1> DEFINE d == w.row.cand[1]
<1>0. Len(head') \in Nat /\ Len(head) \in Nat /\ Len(head) <= Len(head')
  BY HeadStep DEF TypeOK
<1>1. ASSUME w \in late
      PROVE  /\ RowIntact(w.row)
             /\ KeyFree(w.expected, d)
             /\ Reachable(w.row) \subseteq objects
             /\ pc[d] \notin Early
             /\ Len(w.expected) <= Len(parent[d])
             /\ Len(w.expected) = Len(parent[d]) => Exposed(d)
             /\ d \in Calls /\ w.row \in Row /\ w.expected \in Seq(Row)
             /\ Len(w.expected) \in Nat /\ Len(parent[d]) \in Nat
             /\ Len(parent[d]) <= Len(head)
  <2>1. d \in Calls /\ w.row \in Row /\ w.expected \in Seq(Row)
    BY <1>1, RowTypes
  <2>2. parent[d] \in Seq(Row) /\ Len(parent[d]) <= Len(head)
    BY <2>1 DEF TypeOK, ImagesNotAhead, NotAhead
  <2> QED
    BY <1>1, <2>1, <2>2 DEF LateWritesOwned
<1>2. ASSUME NEW c \in Calls, Step(c), w \in late PROVE Owned(w)
  <2>1. Reachable(w.row) \subseteq objects'
    BY <1>1, <1>2, ReachableKept DEF Early
  <2>2. CASE c # d
    <3>1. /\ pc'[d] = pc[d] /\ parent'[d] = parent[d] /\ result'[d] = result[d]
          /\ indeterminate'[d] = indeterminate[d]
      BY <1>1, <1>2, <2>2, StepFrame
    <3>2. Exposed(d) => Exposed(d)'
      BY <1>0, <1>1, <1>2, <3>1 DEF Exposed, Unsure
    <3> QED
      BY <1>1, <1>2, <2>1, <3>1, <3>2
  <2>3. CASE c = d
    <3>1. pc'[c] \notin Early /\ (Exposed(c) => Exposed(c)' \/ Rebase(c))
      BY <1>1, <1>2, <2>3, ExposedStep
    <3>2. CASE Rebase(c)
      <4>1. Len(parent[c]) < Len(head) /\ parent'[c] = head
        BY <3>2 DEF Rebase, WinnerAhead, TypeOK
      <4> QED
        BY <1>0, <1>1, <1>2, <2>1, <2>3, <3>1, <4>1
    <3>3. CASE ~Rebase(c)
      <4>1. parent'[c] = parent[c]
        BY <1>1, <1>2, <2>3, <3>3 DEF Early, Step, AppendStep, FirstPin, StageFile,
           StageFileFails, StagingDone, SecondPin, PublishStep, ParentPin, Build,
           ConfirmStaged, PutCommit, PutImage, PutGeneration, PutImmutable, HeadApplied,
           HeadConflict, HeadIndeterminate, Reconcile, WinnerRead
      <4> QED
        BY <1>1, <1>2, <2>1, <2>3, <3>1, <3>3, <4>1
    <3> QED
      BY <3>2, <3>3
  <2> QED
    BY <2>2, <2>3
<1>3. ASSUME NEW c \in Calls, Step(c), w \notin late PROVE Owned(w)
  <2>1. HeadIndeterminate(c)
    BY <1>3, StepEffect
  <2>2. w = [expected |-> parent[c], row |-> CandRow(c)]
    BY <1>3, <2>1 DEF HeadIndeterminate
  <2>3. d = c /\ w.row = CandRow(c) /\ w.expected = parent[c]
    BY <2>2 DEF CandRow, Cand
  <2>4. RowIntact(w.row)
    BY <2>3 DEF RowIntact, CandRow, Cand
  <2>5. KeyFree(w.expected, d)
    BY <2>1, <2>3 DEF HeadIndeterminate, ParentLacksKey, Candidacy
  <2>6. Reachable(w.row) \subseteq objects'
    BY <2>1, <2>3, CandidateUploaded DEF HeadIndeterminate
  <2>7. pc'[c] = "reconcile" /\ parent'[c] = parent[c] /\ indeterminate'[c] > 0
    BY <2>1 DEF HeadIndeterminate, Goto, TypeOK
  <2>8. Exposed(c)'
    BY <2>7 DEF Exposed, Unsure
  <2> QED
    BY <2>3, <2>4, <2>5, <2>6, <2>7, <2>8 DEF Early, TypeOK
<1>4. ASSUME NEW c \in Calls, Crash(c) PROVE Owned(w)
  <2>1. w \in late /\ parent' = parent /\ objects' = objects /\ head' = head
        /\ indeterminate' = indeterminate /\ result' = result
    BY <1>4 DEF Crash
  <2>2. pc'[d] \notin Early /\ (Exposed(d) => Exposed(d)')
    BY <1>1, <1>4, <2>1 DEF Crash, Exposed, Unsure, Early, TypeOK, Running
  <2> QED
    BY <1>1, <2>1, <2>2
<1>5. ASSUME late' \subseteq late, UNCHANGED <<objects, callVars>> PROVE Owned(w)
  <2>1. Exposed(d) => Exposed(d)'
    BY <1>0, <1>1, <1>5 DEF Exposed, Unsure, callVars
  <2> QED
    BY <1>1, <1>5, <2>1 DEF callVars
<1> QED
  BY <1>2, <1>3, <1>4, <1>5 DEF Next, LateWriteLands, LateWriteFails, vars, callVars

(* The row a step adds to HEAD is its sender's, who is unsure or told Ok;  *)
(* its key was free and its objects are in the store.                      *)
LEMMA NewRow ==
    ASSUME TypeOK, ImagesNotAhead, ParentLacksKey, LateWritesOwned, Uploaded, [Next]_vars,
           head' # head
    PROVE  \E r \in Row :
               /\ head' = Append(head, r)
               /\ RowIntact(r)
               /\ KeyFree(head, r.cand[1])
               /\ Reachable(r) \subseteq objects'
               /\ Unsure(r.cand[1])' \/ result'[r.cand[1]].kind = "ok"
<1>1. ASSUME NEW c \in Calls, Step(c)
      PROVE  \E r \in Row :
                 /\ head' = Append(head, r)
                 /\ RowIntact(r)
                 /\ KeyFree(head, r.cand[1])
                 /\ Reachable(r) \subseteq objects'
                 /\ Unsure(r.cand[1])' \/ result'[r.cand[1]].kind = "ok"
  <2>1. HeadApplied(c)
    BY <1>1, StepEffect
  <2>2. CandRow(c) \in Row /\ CandRow(c).cand[1] = c /\ RowIntact(CandRow(c))
    BY CandRowType DEF CandRow, Cand, RowIntact
  <2>3. KeyFree(head, c) /\ head' = Append(head, CandRow(c))
    BY <2>1 DEF HeadApplied, ParentLacksKey, Candidacy
  <2>4. Reachable(CandRow(c)) \subseteq objects'
    BY <2>1, CandidateUploaded DEF HeadApplied
  <2>5. result'[c].kind = "ok"
    BY <2>1 DEF HeadApplied, Return, Ok, TypeOK
  <2> QED
    BY <2>2, <2>3, <2>4, <2>5
<1>2. ASSUME NEW w \in late, LateWriteLands(w)
      PROVE  \E r \in Row :
                 /\ head' = Append(head, r)
                 /\ RowIntact(r)
                 /\ KeyFree(head, r.cand[1])
                 /\ Reachable(r) \subseteq objects'
                 /\ Unsure(r.cand[1])' \/ result'[r.cand[1]].kind = "ok"
  <2> DEFINE d == w.row.cand[1]
  <2>1. d \in Calls /\ w.row \in Row /\ head = w.expected /\ head' = Append(head, w.row)
    BY <1>2, RowTypes DEF LateWriteLands
  <2>2. RowIntact(w.row) /\ KeyFree(head, d) /\ Reachable(w.row) \subseteq objects'
    BY <1>2, <2>1 DEF LateWritesOwned, LateWriteLands
  <2>3. Len(head) <= Len(parent[d]) /\ (Len(head) = Len(parent[d]) => Exposed(d))
    BY <2>1 DEF LateWritesOwned
  <2>4. Len(parent[d]) <= Len(head) /\ Len(head) \in Nat /\ Len(parent[d]) \in Nat
    BY <2>1 DEF ImagesNotAhead, NotAhead, TypeOK
  <2>5. Unsure(d)
    BY <2>3, <2>4 DEF Exposed
  <2>6. Unsure(d)'
    BY <1>2, <2>5 DEF Unsure, LateWriteLands, callVars
  <2> QED
    BY <2>1, <2>2, <2>6
<1> QED
  BY <1>1, <1>2 DEF Next, Crash, LateWriteFails, vars

(* The sender of a committed row knows of it or stays unsure.              *)
LEMMA RowsStep ==
    ASSUME TypeOK, TypeOK', ImagesNotAhead, ParentLacksKey, ResultOnReturn, LateWritesOwned,
           RowsOwned, Uploaded, KeyCommittedOnce, [Next]_vars
    PROVE  RowsOwned'
<1> DEFINE UnsureNext(x) ==
        \/ pc'[x] = "crashed"
        \/ result'[x] \in OpenResults
        \/ indeterminate'[x] > 0 /\ pc'[x] \in {"cas", "reconcile", "winner"}
<1> SUFFICES ASSUME NEW i \in 1..Len(head')
             PROVE  /\ RowIntact(head'[i])
                    /\ UnsureNext(head'[i].cand[1]) \/ result'[head'[i].cand[1]].kind = "ok"
  BY DEF RowsOwned, RowIntact, Unsure
<1>1. ASSUME i \in 1..Len(head), head'[i] = head[i]
      PROVE  /\ RowIntact(head'[i])
             /\ UnsureNext(head'[i].cand[1]) \/ result'[head'[i].cand[1]].kind = "ok"
  <2> DEFINE d == head[i].cand[1]
  <2>1. d \in Calls /\ RowIntact(head[i]) /\ (Unsure(d) \/ result[d].kind = "ok")
    BY <1>1, RowTypes DEF RowsOwned
  <2>2. ASSUME NEW c \in Calls, Step(c), c # d
        PROVE  UnsureNext(d) \/ result'[d].kind = "ok"
    BY <2>1, <2>2, StepFrame DEF Unsure
  <2>3. ASSUME NEW c \in Calls, Step(c), c = d
        PROVE  UnsureNext(d) \/ result'[d].kind = "ok"
    <3>1. i \in RowsFor(head, c) /\ head[i].intent = IntentOf[c]
      BY <1>1, <2>1, <2>3 DEF RowIntact, RowsFor
    <3>2. ~KeyFree(head, c)
      BY <3>1 DEF KeyFree
    <3>3. ~KeyTaken(head, c)
      BY <3>1 DEF KeyTaken, KeyCommittedOnce, RowsFor
    <3>4. NoResult.kind # "ok" /\ NoResult \notin OpenResults
      BY OpenFailures
    <3>5. Running(c)
      BY <2>3 DEF Running, Step, AppendStep, FirstPin, StageFile, StageFileFails, StagingDone,
         SecondPin, PublishStep, ParentPin, Build, ConfirmStaged, PutCommit, PutImage,
         PutGeneration, PutImmutable, HeadApplied, HeadConflict, HeadIndeterminate,
         Reconcile, WinnerRead, Rebase
    <3>6. indeterminate[c] > 0 /\ pc[c] \in {"cas", "reconcile", "winner"}
      BY <2>1, <2>3, <3>4, <3>5 DEF Unsure, ResultOnReturn, Running
    <3>7. CASE HeadApplied(c)
      BY <2>3, <3>7 DEF HeadApplied, Return, Ok, TypeOK
    <3>8. CASE HeadConflict(c) \/ HeadIndeterminate(c)
      BY <2>3, <3>6, <3>8 DEF HeadConflict, HeadIndeterminate, Goto, TypeOK, Unsure
    <3>9. CASE Reconcile(c)
      <4>1. CASE RetryOrGiveUp(c) \/ Goto(c, "winner")
        BY <2>3, <3>6, <3>9, <4>1, OpenFailures
           DEF Reconcile, RetryOrGiveUp, Goto, Return, TypeOK, Unsure
      <4>2. CASE Return(c, Committed(head, c))
        BY <2>3, <4>2 DEF Return, Committed, Ok, TypeOK
      <4> QED
        BY <2>3, <3>2, <3>3, <3>9, <4>1, <4>2, OpenFailures
           DEF Reconcile, AnswerFromImage, ImageUnreadable, Return, TypeOK
    <3>10. CASE WinnerRead(c)
      <4>1. CASE WinnerUnreadable(c)
        BY <2>3, <3>6, <4>1, OpenFailures DEF WinnerUnreadable, Return, TypeOK, Unsure
      <4>2. CASE Return(c, Committed(head, c))
        BY <2>3, <4>2 DEF Return, Committed, Ok, TypeOK
      <4> QED
        BY <2>3, <3>2, <3>3, <3>10, <4>1, <4>2, OpenFailures
           DEF WinnerRead, AnswerFromImage, ImageUnreadable, Return, TypeOK
    <3>11. HeadApplied(c) \/ HeadConflict(c) \/ HeadIndeterminate(c) \/ Reconcile(c)
           \/ WinnerRead(c)
      BY <2>3, <3>2, <3>6 DEF Step, AppendStep, FirstPin, StageFile, StageFileFails,
         StagingDone, SecondPin, PublishStep, ParentPin, Build, ConfirmStaged, PutCommit,
         PutImage, PutGeneration, PutImmutable, Rebase
    <3> QED
      BY <3>7, <3>8, <3>9, <3>10, <3>11
  <2>4. ASSUME NEW c \in Calls, Crash(c) PROVE UnsureNext(d) \/ result'[d].kind = "ok"
    BY <2>1, <2>4 DEF Crash, Unsure, TypeOK
  <2>5. ASSUME UNCHANGED callVars PROVE UnsureNext(d) \/ result'[d].kind = "ok"
    BY <2>1, <2>5 DEF callVars, Unsure
  <2>6. UnsureNext(d) \/ result'[d].kind = "ok"
    BY <2>2, <2>3, <2>4, <2>5 DEF Next, LateWriteLands, LateWriteFails, vars, callVars
  <2> QED
    BY <1>1, <2>1, <2>6
<1>2. CASE head' = head
  BY <1>1, <1>2
<1>3. CASE head' # head
  <2>1. PICK r \in Row : /\ head' = Append(head, r)
                         /\ RowIntact(r)
                         /\ UnsureNext(r.cand[1]) \/ result'[r.cand[1]].kind = "ok"
    BY <1>3, NewRow DEF Unsure
  <2>2. CASE i = Len(head) + 1
    <3>1. head'[i] = r
      BY <2>1, <2>2 DEF TypeOK
    <3> QED
      BY <2>1, <3>1
  <2>3. CASE i # Len(head) + 1
    <3>1. i \in 1..Len(head) /\ head'[i] = head[i]
      BY <2>1, <2>3 DEF TypeOK
    <3> QED
      BY <1>1, <3>1
  <2> QED
    BY <2>2, <2>3
<1> QED
  BY <1>2, <1>3

(* No key is committed twice.                                              *)
LEMMA KeyOnceStep ==
    ASSUME TypeOK, TypeOK', ImagesNotAhead, ParentLacksKey, LateWritesOwned, Uploaded,
           KeyCommittedOnce, [Next]_vars
    PROVE  KeyCommittedOnce'
<1>1. CASE head' = head
  BY <1>1 DEF KeyCommittedOnce
<1>2. CASE head' # head
  <2>1. PICK r \in Row : /\ head' = Append(head, r)
                         /\ RowIntact(r)
                         /\ KeyFree(head, r.cand[1])
    BY <1>2, NewRow
  <2>2. \A i \in 1..Len(head) : head[i].key # r.key
    BY <2>1 DEF RowIntact, KeyFree, RowsFor
  <2>3. /\ Len(head') = Len(head) + 1 /\ Len(head) \in Nat
        /\ head'[Len(head) + 1] = r
        /\ \A i \in 1..Len(head) : head'[i] = head[i]
    BY <2>1 DEF TypeOK
  <2> QED
    BY <2>2, <2>3 DEF KeyCommittedOnce
<1> QED
  BY <1>1, <1>2

(* What HEAD reaches stays in the store.                                   *)
LEMMA ObjectsStep ==
    ASSUME TypeOK, TypeOK', ImagesNotAhead, ParentLacksKey, ResultOnReturn, LateWritesOwned,
           RowsOwned, Uploaded, CommittedObjectsExist, [Next]_vars
    PROVE  CommittedObjectsExist'
<1> SUFFICES ASSUME NEW i \in 1..Len(head') PROVE Reachable(head'[i]) \subseteq objects'
  BY DEF CommittedObjectsExist, Reachable
<1>1. ASSUME i \in 1..Len(head), head'[i] = head[i] PROVE Reachable(head'[i]) \subseteq objects'
  <2>1. head[i] \in Row /\ head[i].cand[1] \in Calls /\ Reachable(head[i]) \subseteq objects
    BY <1>1, RowTypes DEF CommittedObjectsExist
  <2>2. ASSUME NEW c \in Calls, Step(c) PROVE Reachable(head[i]) \subseteq objects'
    <3>1. NoResult.kind # "ok" /\ NoResult \notin OpenResults
      BY OpenFailures
    <3>2. head[i].cand[1] # c \/ pc[c] \notin {"stage", "pin2"}
      BY <1>1, <2>1, <3>1 DEF RowsOwned, Unsure, ResultOnReturn
    <3> QED
      BY <2>1, <2>2, <3>2, ReachableKept
  <2> QED
    BY <1>1, <2>1, <2>2 DEF Next, Crash, LateWriteLands, LateWriteFails, vars
<1>2. CASE head' = head
  BY <1>1, <1>2
<1>3. CASE head' # head
  <2>1. PICK r \in Row : head' = Append(head, r) /\ Reachable(r) \subseteq objects'
    BY <1>3, NewRow
  <2>2. CASE i = Len(head) + 1
    BY <2>1, <2>2 DEF TypeOK
  <2>3. CASE i # Len(head) + 1
    BY <1>1, <2>1, <2>3 DEF TypeOK
  <2> QED
    BY <2>2, <2>3
<1> QED
  BY <1>2, <1>3

(* A call answered with an error other than PublicationIndeterminate owns  *)
(* no row.                                                                 *)
LEMMA DefiniteFromRows ==
    ASSUME TypeOK, ResultOnReturn, RowsOwned
    PROVE  DefiniteErrorNeverCommitted
<1> SUFFICES ASSUME NEW c \in Calls, result[c].kind = "error",
                    result[c].error \in DefiniteErrors,
                    NEW i \in 1..Len(head), head[i].cand[1] = c
             PROVE  FALSE
  BY DEF DefiniteErrorNeverCommitted
<1>1. NoResult.kind # "error"
  BY DEF NoResult
<1>2. pc[c] = "returned"
  BY <1>1 DEF ResultOnReturn
<1>3. result[c] \notin OpenResults
  BY DEF Failed, OpenResults, DefiniteErrors, Errors
<1> QED
  BY <1>2, <1>3 DEF RowsOwned, Unsure

(* What a replay returns is the committed row of the key.                  *)
LEMMA ReplayTrue ==
    ASSUME NEW image \in Seq(Row), NEW c \in Calls, TypeOK, KeyCommittedOnce,
           NotAhead(image), Replays(image, c)
    PROVE  \E i \in 1..Len(head) : /\ head[i].key = KeyOf[c]
                                   /\ head[i].intent = IntentOf[c]
                                   /\ head[i].cand = Committed(image, c).cand
<1>1. PICK i \in RowsFor(image, c) : image[i].intent = IntentOf[c]
  BY DEF Replays
<1>2. PICK j \in RowsFor(image, c) : Committed(image, c) = Ok(image[j].cand)
  BY <1>1, CommittedType
<1>3. /\ i \in 1..Len(head) /\ head[i] = image[i] /\ head[i].key = KeyOf[c]
      /\ j \in 1..Len(head) /\ head[j] = image[j] /\ head[j].key = KeyOf[c]
  BY DEF RowsFor, NotAhead, TypeOK
<1>4. i = j
  BY <1>3 DEF KeyCommittedOnce
<1> QED
  BY <1>1, <1>2, <1>3, <1>4 DEF Ok

(* Where an Ok comes from.                                                 *)
LEMMA OkSource ==
    ASSUME TypeOK, NEW c \in Calls, Step(c), result'[c] # result[c], result'[c].kind = "ok"
    PROVE  \/ HeadApplied(c)
           \/ Replays(head, c) /\ result'[c] = Committed(head, c)
           \/ Replays(parent[c], c) /\ result'[c] = Committed(parent[c], c)
<1> USE DEF TypeOK, Return, Goto, AnswerFromImage
<1>1. \A e : Failed(e).kind # "ok"
  BY DEF Failed
<1>2. CASE AppendStep(c)
  BY <1>1, <1>2 DEF AppendStep, FirstPin, StageFile, StageFileFails, StagingDone, SecondPin
<1>3. CASE PublishStep(c)
  BY <1>1, <1>3 DEF PublishStep, ParentPin, Build, ConfirmStaged, PutCommit, PutImage,
                    PutGeneration, PutImmutable, HeadConflict,
                    HeadIndeterminate, Reconcile, RetryOrGiveUp, WinnerRead,
                    WinnerUnreadable, ImageUnreadable, Rebase
<1> QED
  BY <1>2, <1>3 DEF Step

(* Every Ok stays true.                                                    *)
LEMMA OkStep ==
    ASSUME TypeOK, TypeOK', ImagesNotAhead, KeyCommittedOnce, OkIsCommitted, [Next]_vars
    PROVE  OkIsCommitted'
<1> SUFFICES ASSUME NEW d \in Calls, result'[d].kind = "ok"
             PROVE  \E i \in 1..Len(head') : /\ head'[i].key = KeyOf[d]
                                             /\ head'[i].intent = IntentOf[d]
                                             /\ head'[i].cand = result'[d].cand
  BY DEF OkIsCommitted
<1>1. \A i \in 1..Len(head) : i \in 1..Len(head') /\ head'[i] = head[i]
  <2>1. head \in Seq(Row)
    BY DEF TypeOK
  <2>2. CASE head' = head
    BY <2>2
  <2>3. ASSUME NEW r \in Row, head' = Append(head, r)
        PROVE  \A i \in 1..Len(head) : i \in 1..Len(head') /\ head'[i] = head[i]
    BY <2>1, <2>3
  <2> QED
    BY <2>2, <2>3, HeadStep
<1>2. CASE result'[d] = result[d]
  BY <1>1, <1>2 DEF OkIsCommitted
<1>3. ASSUME NEW c \in Calls, Step(c), result'[d] # result[d]
      PROVE  \E i \in 1..Len(head') : /\ head'[i].key = KeyOf[d]
                                      /\ head'[i].intent = IntentOf[d]
                                      /\ head'[i].cand = result'[d].cand
  <2>1. c = d
    BY <1>3, StepFrame
  <2>2. CASE HeadApplied(d)
    <3>1. head' = Append(head, CandRow(d)) /\ result'[d] = Ok(Cand(d))
      BY <2>2 DEF HeadApplied, Return, TypeOK
    <3>2. Len(head) + 1 \in 1..Len(head') /\ head'[Len(head) + 1] = CandRow(d)
      <4>1. head \in Seq(Row) /\ CandRow(d) \in Row
        BY CandRowType DEF TypeOK
      <4> QED
        BY <3>1, <4>1
    <3> QED
      BY <3>1, <3>2 DEF CandRow, Ok
  <2>3. CASE Replays(head, d) /\ result'[d] = Committed(head, d)
    <3>1. head \in Seq(Row) /\ NotAhead(head)
      BY DEF TypeOK, NotAhead
    <3> QED
      BY <1>1, <2>3, <3>1, ReplayTrue
  <2>4. CASE Replays(parent[d], d) /\ result'[d] = Committed(parent[d], d)
    <3>1. parent[d] \in Seq(Row) /\ NotAhead(parent[d])
      BY DEF TypeOK, ImagesNotAhead
    <3> QED
      BY <1>1, <2>4, <3>1, ReplayTrue
  <2> QED
    BY <1>3, <2>1, <2>2, <2>3, <2>4, OkSource
<1> QED
  BY <1>2, <1>3 DEF Next, Crash, LateWriteLands, LateWriteFails, callVars, vars

-----------------------------------------------------------------------------
(* The theorems                                                            *)

(* The inductive invariant holds initially.                                *)
LEMMA InvInit == Init => PublicationInv
<1> SUFFICES ASSUME Init PROVE PublicationInv
  OBVIOUS
<1>1. TypeOK
  BY TypeInit
<1>2. NoResult.kind # "ok" /\ NoResult.kind # "error"
  BY DEF NoResult
<1>3. ImagesNotAhead /\ ParentLacksKey /\ ResultOnReturn /\ WinnerAhead /\ LateWritesOwned
  BY DEF Init, ImagesNotAhead, NotAhead, ParentLacksKey, Candidacy, ResultOnReturn,
         WinnerAhead, LateWritesOwned
<1>4. RowsOwned /\ KeyCommittedOnce /\ CommittedObjectsExist
  BY DEF Init, RowsOwned, KeyCommittedOnce, CommittedObjectsExist
<1>5. OkIsCommitted /\ DefiniteErrorNeverCommitted
  BY <1>2 DEF Init, OkIsCommitted, DefiniteErrorNeverCommitted
<1>6. Uploaded
  BY DEF Init, Uploaded, Candidacy, FileCount
<1> QED
  BY <1>1, <1>3, <1>4, <1>5, <1>6 DEF PublicationInv

(* Every step preserves it.                                                *)
LEMMA InvNext == PublicationInv /\ [Next]_vars => PublicationInv'
<1> SUFFICES ASSUME PublicationInv, [Next]_vars PROVE PublicationInv'
  OBVIOUS
<1> USE DEF PublicationInv
<1>1. TypeOK'
  BY TypeNext
<1>2. ImagesNotAhead'
  BY <1>1, ImagesStep
<1>3. ParentLacksKey'
  BY ParentLacksKeyStep
<1>4. ResultOnReturn'
  BY ResultStep
<1>5. WinnerAhead'
  BY <1>1, WinnerStep
<1>6. LateWritesOwned'
  BY <1>1, LateStep
<1>7. RowsOwned'
  BY <1>1, RowsStep
<1>8. Uploaded'
  BY UploadedStep
<1>9. KeyCommittedOnce'
  BY <1>1, KeyOnceStep
<1>10. OkIsCommitted'
  BY <1>1, OkStep
<1>11. (TypeOK /\ ResultOnReturn /\ RowsOwned => DefiniteErrorNeverCommitted)'
  BY DefiniteFromRows, PTL
<1>12. DefiniteErrorNeverCommitted'
  BY <1>1, <1>4, <1>7, <1>11
<1>13. CommittedObjectsExist'
  BY <1>1, ObjectsStep
<1> QED
  BY <1>1, <1>2, <1>3, <1>4, <1>5, <1>6, <1>7, <1>8, <1>9, <1>10, <1>12, <1>13

(* The inductive invariant holds throughout every behaviour.               *)
THEOREM Invariance == Spec => []PublicationInv
  BY InvInit, InvNext, PTL DEF Spec

(* A key is committed at most once.                                        *)
THEOREM ExactlyOnce == Spec => []KeyCommittedOnce
<1>1. PublicationInv => KeyCommittedOnce
  BY DEF PublicationInv
<1> QED
  BY <1>1, Invariance, PTL

(* A caller told Ok was told the truth, and it stays true.                 *)
THEOREM OkIsTrue == Spec => []OkIsCommitted
<1>1. PublicationInv => OkIsCommitted
  BY DEF PublicationInv
<1> QED
  BY <1>1, Invariance, PTL

(* Only PublicationIndeterminate may hide a commit.                        *)
THEOREM DefiniteErrorsAreDefinite == Spec => []DefiniteErrorNeverCommitted
<1>1. PublicationInv => DefiniteErrorNeverCommitted
  BY DEF PublicationInv
<1> QED
  BY <1>1, Invariance, PTL

(* HEAD never dangles.                                                     *)
THEOREM HeadNeverDangles == Spec => []CommittedObjectsExist
<1>1. PublicationInv => CommittedObjectsExist
  BY DEF PublicationInv
<1> QED
  BY <1>1, Invariance, PTL

-----------------------------------------------------------------------------
(* Publication implements CommitLog                                        *)

AbstractLog(h) == [i \in 1..Len(h) |-> AbstractRow(h[i])]

(* The abstract log of an extended HEAD is the extended abstract log.      *)
LEMMA AbstractLogAppend ==
    ASSUME NEW h \in Seq(Row), NEW r \in Row
    PROVE  /\ Len(AbstractLog(h)) = Len(h)
           /\ AbstractLog(Append(h, r)) = Append(AbstractLog(h), AbstractRow(r))
<1>1. AbstractLog(h) \in Seq({AbstractRow(x) : x \in Row})
  BY DEF AbstractLog
<1>2. Len(AbstractLog(h)) = Len(h)
  BY DEF AbstractLog
<1>3. Len(Append(h, r)) = Len(h) + 1
  OBVIOUS
<1> QED
  BY <1>1, <1>2, <1>3 DEF AbstractLog

(* The initial states map to the initial state of the promise.             *)
LEMMA RefineInit == Init => Promise!Init
<1> SUFFICES ASSUME Init PROVE Promise!Init
  OBVIOUS
<1>1. \A c \in Calls : AnswerOf(c) = "open"
  BY DEF Init, AnswerOf, NoResult
<1> QED
  BY <1>1 DEF Init, Promise!Init

(* What the answer of a call may become, and what it then rests on.        *)
LEMMA AnswerStep ==
    ASSUME PublicationInv, PublicationInv', NEW c \in Calls, result'[c] # result[c],
           [Next]_vars
    PROVE  /\ Step(c)
           /\ AnswerOf(c) = "open"
           /\ AnswerOf(c)' = "done" => \E i \in 1..Len(head') :
                  head'[i].key = KeyOf[c] /\ head'[i].intent = IntentOf[c]
           /\ AnswerOf(c)' = "refused" => \A i \in 1..Len(head') : head'[i].cand[1] # c
           /\ AnswerOf(c)' \in {"done", "refused", "unknown", "open"}
<1> USE DEF PublicationInv
<1>1. Step(c)
  BY StepFrame DEF Next, Crash, LateWriteLands, LateWriteFails, callVars, vars
<1>2. pc[c] # "returned"
  BY <1>1 DEF Step, AppendStep, FirstPin, StageFile, StageFileFails, StagingDone,
         SecondPin, PublishStep, ParentPin, Build, ConfirmStaged, PutCommit, PutImage,
         PutGeneration, PutImmutable, HeadApplied, HeadConflict, HeadIndeterminate,
         Reconcile, WinnerRead, Rebase
<1>3. AnswerOf(c) = "open"
  BY <1>2 DEF ResultOnReturn, AnswerOf, NoResult
<1>4. ASSUME AnswerOf(c)' = "done"
      PROVE  \E i \in 1..Len(head') : head'[i].key = KeyOf[c] /\ head'[i].intent = IntentOf[c]
  BY <1>4 DEF AnswerOf, OkIsCommitted
<1>5. ASSUME AnswerOf(c)' = "refused" PROVE \A i \in 1..Len(head') : head'[i].cand[1] # c
  <2>1. result'[c].kind \notin {"none", "ok"} /\ result'[c].error \notin OpenErrors
    BY <1>5 DEF AnswerOf
  <2>2. result'[c] \in Results
    BY DEF TypeOK
  <2>3. PICK e \in Errors : result'[c] = Failed(e)
    BY <2>1, <2>2 DEF Results, NoResult, Ok
  <2>4. result'[c].kind = "error" /\ result'[c].error \in DefiniteErrors
    BY <2>1, <2>3 DEF Failed, DefiniteErrors
  <2> QED
    BY <2>4 DEF DefiniteErrorNeverCommitted
<1> QED
  BY <1>1, <1>3, <1>4, <1>5 DEF AnswerOf

(* A step that leaves HEAD alone answers at most one call, truthfully.     *)
LEMMA RefineQuiet ==
    ASSUME PublicationInv, PublicationInv', [Next]_vars, head' = head
    PROVE  Promise!Next \/ UNCHANGED Promise!vars
<1> DEFINE log == [i \in 1..Len(head) |-> AbstractRow(head[i])]
           answer == [c \in Calls |-> AnswerOf(c)]
<1>1. head \in Seq(Row) /\ Len(log) = Len(head)
  BY AbstractLogAppend DEF PublicationInv, TypeOK, AbstractLog
<1>2. log' = log
  OBVIOUS
<1>3. CASE \A c \in Calls : result'[c] = result[c]
  <2>1. answer' = answer
    BY <1>3 DEF AnswerOf
  <2> QED
    BY <1>2, <2>1 DEF Promise!vars
<1>4. ASSUME NEW c \in Calls, result'[c] # result[c]
      PROVE  Promise!Next \/ UNCHANGED Promise!vars
  <2>1. Step(c)
    BY <1>4, AnswerStep
  <2>2. \A d \in Calls : d # c => AnswerOf(d)' = AnswerOf(d)
    BY <2>1, StepFrame DEF AnswerOf, PublicationInv
  <2>3. answer[c] = "open"
    BY <1>4, AnswerStep
  <2>4. ASSUME NEW a, AnswerOf(c)' = a PROVE answer' = [answer EXCEPT ![c] = a]
    BY <2>2, <2>4
  <2>5. CASE AnswerOf(c)' = "done"
    <3>1. \E i \in 1..Len(log) : log[i].key = KeyOf[c] /\ log[i].intent = IntentOf[c]
      BY <1>1, <1>4, <2>5, AnswerStep DEF AbstractRow
    <3>2. Promise!AnswerDone(c)
      BY <1>2, <2>3, <2>4, <2>5, <3>1 DEF Promise!AnswerDone, Promise!HoldsIntent
    <3> QED
      BY <3>2 DEF Promise!Next
  <2>6. CASE AnswerOf(c)' = "refused"
    <3>1. \A i \in 1..Len(log) : log[i].call # c
      BY <1>1, <1>4, <2>6, AnswerStep DEF AbstractRow
    <3>2. Promise!AnswerRefused(c)
      BY <1>2, <2>3, <2>4, <2>6, <3>1 DEF Promise!AnswerRefused, Promise!HoldsOwn
    <3> QED
      BY <3>2 DEF Promise!Next
  <2>7. CASE AnswerOf(c)' = "unknown"
    <3>1. Promise!AnswerUnknown(c)
      BY <1>2, <2>3, <2>4, <2>7 DEF Promise!AnswerUnknown
    <3> QED
      BY <3>1 DEF Promise!Next
  <2>8. CASE AnswerOf(c)' = "open"
    <3>1. answer' = answer
      BY <2>3, <2>4, <2>8
    <3> QED
      BY <1>2, <3>1 DEF Promise!vars
  <2> QED
    BY <1>4, <2>5, <2>6, <2>7, <2>8, AnswerStep
<1> QED
  BY <1>3, <1>4

(* A step that extends HEAD commits for one call, which is told Ok at once *)
(* or is still without a definite answer.                                  *)
LEMMA RefineGrow ==
    ASSUME PublicationInv, PublicationInv', [Next]_vars, head' # head
    PROVE  Promise!Next
<1> DEFINE log == [i \in 1..Len(head) |-> AbstractRow(head[i])]
           answer == [c \in Calls |-> AnswerOf(c)]
<1> USE DEF PublicationInv
<1>1. head \in Seq(Row) /\ Len(log) = Len(head)
  BY AbstractLogAppend DEF TypeOK, AbstractLog
<1>2. ASSUME NEW c \in Calls, NEW r \in Row, head' = Append(head, r), r.cand[1] = c,
             RowIntact(r), KeyFree(head, c), answer[c] \in {"open", "unknown"}
      PROVE  Promise!Extend(c)
  <2>1. log' = Append(log, AbstractRow(r))
    BY <1>1, <1>2, AbstractLogAppend DEF AbstractLog
  <2>2. AbstractRow(r) = [call |-> c, key |-> KeyOf[c], intent |-> IntentOf[c]]
    BY <1>2 DEF AbstractRow, RowIntact
  <2>3. \A i \in 1..Len(log) : log[i].key # KeyOf[c]
    BY <1>1, <1>2 DEF KeyFree, RowsFor, AbstractRow
  <2> QED
    BY <1>2, <2>1, <2>2, <2>3 DEF Promise!Extend, Promise!Holds, Promise!RowOf
<1>3. ASSUME NEW c \in Calls, Step(c) PROVE Promise!Next
  <2>1. HeadApplied(c)
    BY <1>3, StepEffect
  <2>2. CandRow(c) \in Row /\ CandRow(c).cand[1] = c /\ RowIntact(CandRow(c))
    BY CandRowType DEF CandRow, Cand, RowIntact
  <2>3. KeyFree(head, c) /\ head' = Append(head, CandRow(c))
    BY <2>1 DEF HeadApplied, ParentLacksKey, Candidacy
  <2>4. AnswerOf(c) = "open"
    BY <2>1 DEF HeadApplied, ResultOnReturn, AnswerOf, NoResult
  <2>5. AnswerOf(c)' = "done" /\ \A d \in Calls : d # c => AnswerOf(d)' = AnswerOf(d)
    BY <2>1 DEF HeadApplied, Return, AnswerOf, Ok, TypeOK
  <2>6. answer[c] = "open" /\ answer' = [answer EXCEPT ![c] = "done"]
    BY <2>4, <2>5
  <2>7. Promise!CommitAndAnswer(c)
    BY <1>2, <2>2, <2>3, <2>6 DEF Promise!CommitAndAnswer
  <2> QED
    BY <2>7 DEF Promise!Next
<1>4. ASSUME NEW w \in late, LateWriteLands(w) PROVE Promise!Next
  <2>1. PICK r \in Row : /\ head' = Append(head, r)
                         /\ RowIntact(r)
                         /\ KeyFree(head, r.cand[1])
                         /\ Unsure(r.cand[1])' \/ result'[r.cand[1]].kind = "ok"
    BY NewRow
  <2> DEFINE c == r.cand[1]
  <2>2. c \in Calls /\ UNCHANGED callVars
    BY <1>4, RowTypes DEF LateWriteLands
  <2>3. result[c].kind # "ok"
    <3>1. ASSUME result[c].kind = "ok" PROVE FALSE
      <4>1. PICK i \in 1..Len(head) : head[i].key = KeyOf[c]
        BY <2>2, <3>1 DEF OkIsCommitted
      <4> QED
        BY <2>1, <4>1 DEF KeyFree, RowsFor
    <3> QED
      BY <3>1
  <2>4. Unsure(c)
    BY <2>1, <2>2, <2>3 DEF Unsure, callVars
  <2>5. AnswerOf(c) \in {"open", "unknown"}
    <3>1. CASE result[c] \in OpenResults
      <4>1. PICK e \in OpenErrors : result[c] = Failed(e)
        BY <3>1 DEF OpenResults
      <4> QED
        BY <4>1 DEF AnswerOf, Failed
    <3>2. CASE result[c] = NoResult
      BY <3>2 DEF AnswerOf, NoResult
    <3> QED
      BY <2>2, <2>4, <3>1, <3>2 DEF Unsure, ResultOnReturn
  <2>6. answer[c] \in {"open", "unknown"} /\ answer' = answer
    BY <2>2, <2>5 DEF callVars, AnswerOf
  <2>7. Promise!Commit(c)
    BY <1>2, <2>1, <2>2, <2>6 DEF Promise!Commit
  <2> QED
    BY <2>2, <2>7 DEF Promise!Next
<1> QED
  BY <1>3, <1>4 DEF Next, Crash, LateWriteFails, vars

(* Publication implements CommitLog: whatever the interleaving, the lost   *)
(* answers and the crashes, callers see one linear history in which every  *)
(* key is committed at most once and every answer is true for ever.        *)
THEOREM Refinement == Spec => ImplementsCommitLog
<1>1. Init => Promise!Init
  BY RefineInit
<1>2. PublicationInv /\ PublicationInv' /\ [Next]_vars => [Promise!Next]_(Promise!vars)
  BY RefineQuiet, RefineGrow
<1>3. Spec => []PublicationInv
  BY Invariance
<1> QED
  BY <1>1, <1>2, <1>3, PTL DEF Spec, ImplementsCommitLog, Promise!Spec
=============================================================================
