----------------------------- MODULE Publication -----------------------------
(***************************************************************************)
(* Publication of transactions through the HEAD object of one table        *)
(* (otmp/src/runtime.rs: append_files, commit_staged_from_base,            *)
(* publish_transaction_from_parent, put_immutable, cleanup, replay;        *)
(* otmp/src/runtime/transactions.rs: transact).                            *)
(*                                                                         *)
(* Any number of calls, in any number of processes, stage data files, pin  *)
(* the table, build a candidate, upload its immutable objects and replace  *)
(* HEAD conditionally on the version they pinned.  The store may lose the  *)
(* answer to a conditional write: the write then lands now, later or       *)
(* never.  Every read of HEAD and every upload may fail, and a process may *)
(* die at any point.                                                       *)
(*                                                                         *)
(* HEAD names one metadata generation, whose image holds every committed   *)
(* idempotency row; `head' is that list of rows, so Len(head) is the table *)
(* version and HEAD values are equal exactly when their rows are (a        *)
(* candidate's identifiers are fresh).  What a transaction writes besides  *)
(* its row is the business of Transactions; here building a candidate on a   *)
(* parent succeeds or is rejected, either way.  HEAD always belongs to the *)
(* same table, so the table-identity checks of the code never fire.        *)
(***************************************************************************)
EXTENDS Naturals, Sequences

CONSTANTS Calls,              \* publication calls; each runs at most once
          KeyOf,              \* call -> idempotency key
          IntentOf,           \* call -> hash of the logical intent
          Appends,            \* the calls that are append_files
          FilesPerAppend,     \* data files staged by one append
          MaxRebases,         \* TransactionRetryPolicy::maximum_rebases
          MaxReconciliations  \* ... maximum_indeterminate_reconciliations

ASSUME ConstantsAssumption ==
    /\ Appends \subseteq Calls
    /\ FilesPerAppend \in Nat
    /\ MaxRebases \in Nat
    /\ MaxReconciliations \in Nat

VARIABLES head,           \* the rows of the image HEAD names
          objects,        \* immutable objects in the store
          late,           \* conditional writes sent, answer lost, not yet settled
          pc,             \* call -> where it is
          parent,         \* call -> HEAD it builds on
          rebases,        \* call -> rebases so far
          indeterminate,  \* call -> answers lost for the current candidate
          staged,         \* call -> data files staged so far
          result          \* call -> what it returned

vars == <<head, objects, late, pc, parent, rebases, indeterminate, staged, result>>

callVars == <<pc, parent, rebases, indeterminate, staged, result>>

-----------------------------------------------------------------------------
(* Values                                                                  *)

(* Each (re)build mints fresh identifiers: call and build number.          *)
Candidates == Calls \X (0..MaxRebases)

Row == [cand : Candidates, key : {KeyOf[c] : c \in Calls},
        intent : {IntentOf[c] : c \in Calls}]

Cand(c) == <<c, rebases[c]>>

CandRow(c) == [cand |-> Cand(c), key |-> KeyOf[c], intent |-> IntentOf[c]]

CommitObject(cand) == <<"commit", cand>>
ImageObject(cand) == <<"image", cand>>
GenerationObject(cand) == <<"generation", cand>>
DataFile(c, i) == <<"data", <<c, i>>>>

Objects == ({"commit", "image", "generation"} \X Candidates)
               \cup ({"data"} \X (Calls \X (1..FilesPerAppend)))

FileCount(c) == IF c \in Appends THEN FilesPerAppend ELSE 0

Staged(c) == {DataFile(c, i) : i \in 1..staged[c]}

(* Everything a reader of the committed row r dereferences.                *)
Reachable(r) ==
    {CommitObject(r.cand), ImageObject(r.cand), GenerationObject(r.cand)}
        \cup {DataFile(r.cand[1], i) : i \in 1..FileCount(r.cand[1])}

Errors == {"storage_error", "rejected", "idempotency_conflict",
           "rebase_exhausted", "indeterminate", "image_error"}

NoResult == [kind |-> "none"]
Ok(cand) == [kind |-> "ok", cand |-> cand]
Failed(e) == [kind |-> "error", error |-> e]

Results == {NoResult} \cup {Ok(d) : d \in Candidates} \cup {Failed(e) : e \in Errors}

Steps == {"pin1", "stage", "pin2", "parent_pin", "build", "confirm", "put_commit",
          "put_image", "put_generation", "cas", "reconcile", "winner",
          "returned", "crashed"}

Running(c) == pc[c] \notin {"returned", "crashed"}

-----------------------------------------------------------------------------
(* replay / check_idempotency: what an image says of a call's key.         *)

(* Mutant: the lookup is by key and intent, so a reused key looks free.    *)
RowsForIntent(image, c) ==
    {i \in 1..Len(image) : image[i].key = KeyOf[c] /\ image[i].intent = IntentOf[c]}

RowsFor(image, c) == {i \in 1..Len(image) : image[i].key = KeyOf[c]}

(* Mutant: the stored intent is not compared.                              *)
ReplaysAnyIntent(image, c) == RowsFor(image, c) # {}

Replays(image, c) == \E i \in RowsFor(image, c) : image[i].intent = IntentOf[c]

KeyTaken(image, c) == \E i \in RowsFor(image, c) : image[i].intent # IntentOf[c]

KeyFree(image, c) == RowsFor(image, c) = {}

Committed(image, c) == Ok(image[CHOOSE i \in RowsFor(image, c) : TRUE].cand)

Return(c, r) ==
    /\ pc' = [pc EXCEPT ![c] = "returned"]
    /\ result' = [result EXCEPT ![c] = r]

Goto(c, step) == pc' = [pc EXCEPT ![c] = step] /\ UNCHANGED result

(* The idempotency check ends the call when the image has a row for the    *)
(* key: with that row's result, or with IdempotencyConflict.               *)
AnswerFromImage(c, image) ==
    \/ Replays(image, c) /\ Return(c, Committed(image, c))
    \/ KeyTaken(image, c) /\ Return(c, Failed("idempotency_conflict"))

(* cleanup: delete_if_version on every staged file, failures ignored.      *)
CleanUp(c) ==
    \E kept \in SUBSET Staged(c) : objects' = objects \ (Staged(c) \ kept)

-----------------------------------------------------------------------------
Init ==
    /\ head = <<>>
    /\ objects = {}
    /\ late = {}
    /\ pc = [c \in Calls |-> IF c \in Appends THEN "pin1" ELSE "parent_pin"]
    /\ parent = [c \in Calls |-> <<>>]
    /\ rebases = [c \in Calls |-> 0]
    /\ indeterminate = [c \in Calls |-> 0]
    /\ staged = [c \in Calls |-> 0]
    /\ result = [c \in Calls |-> NoResult]

-----------------------------------------------------------------------------
(* append_files                                                            *)

(* The first pin: reject what is already invalid before copying files.     *)
FirstPin(c) ==
    /\ pc[c] = "pin1"
    /\ \/ Return(c, Failed("storage_error"))
       \/ AnswerFromImage(c, head)
       \/ KeyFree(head, c) /\ Return(c, Failed("rejected"))
       \/ KeyFree(head, c) /\ Goto(c, "stage")
    /\ UNCHANGED <<head, objects, late, parent, rebases, indeterminate, staged>>

(* stage_file: copy, fingerprint and read back the next data file.         *)
StageFile(c) ==
    /\ pc[c] = "stage"
    /\ staged[c] < FileCount(c)
    /\ objects' = objects \cup {DataFile(c, staged[c] + 1)}
    /\ staged' = [staged EXCEPT ![c] = @ + 1]
    /\ UNCHANGED <<head, late, pc, parent, rebases, indeterminate, result>>

(* The copy or its verification fails; its own object is deleted if it can *)
(* be, and so are the files staged before it.                              *)
StageFileFails(c) ==
    /\ pc[c] = "stage"
    /\ staged[c] < FileCount(c)
    /\ \E kept \in SUBSET (Staged(c) \cup {DataFile(c, staged[c] + 1)}) :
           objects' = (objects \ Staged(c)) \cup kept
    /\ Return(c, Failed("storage_error"))
    /\ UNCHANGED <<head, late, parent, rebases, indeterminate, staged>>

StagingDone(c) ==
    /\ pc[c] = "stage"
    /\ staged[c] = FileCount(c)
    /\ Goto(c, "pin2")
    /\ UNCHANGED <<head, objects, late, parent, rebases, indeterminate, staged>>

(* The second pin, after the copies.  Only an IdempotencyConflict leaves   *)
(* the staged files behind.                                                *)
SecondPin(c) ==
    /\ pc[c] = "pin2"
    /\ \/ Return(c, Failed("storage_error")) /\ CleanUp(c)
       \/ Replays(head, c) /\ Return(c, Committed(head, c)) /\ CleanUp(c)
       \/ KeyTaken(head, c) /\ Return(c, Failed("idempotency_conflict")) /\ UNCHANGED objects
       \/ KeyFree(head, c) /\ Return(c, Failed("rejected")) /\ CleanUp(c)
       \/ KeyFree(head, c) /\ Goto(c, "parent_pin") /\ UNCHANGED objects
    /\ UNCHANGED <<head, late, parent, rebases, indeterminate, staged>>

-----------------------------------------------------------------------------
(* publish_transaction                                                     *)

ParentPin(c) ==
    /\ pc[c] = "parent_pin"
    /\ \/ Return(c, Failed("storage_error")) /\ UNCHANGED parent
       \/ Goto(c, "build") /\ parent' = [parent EXCEPT ![c] = head]
    /\ UNCHANGED <<head, objects, late, rebases, indeterminate, staged>>

(* Top of the rebase loop: replay against the parent, then build on it.    *)
Build(c) ==
    /\ pc[c] = "build"
    /\ \/ Return(c, Failed("storage_error"))      \* the image cannot be opened
       \/ AnswerFromImage(c, parent[c])
       \/ KeyFree(parent[c], c) /\ Return(c, Failed("rejected"))
       \/ KeyFree(parent[c], c) /\ Goto(c, "confirm")
    /\ UNCHANGED <<head, objects, late, parent, rebases, indeterminate, staged>>

(* confirm_readable on every staged file, which must be the staged version.*)
ConfirmStaged(c) ==
    /\ pc[c] = "confirm"
    /\ \/ Return(c, Failed("storage_error"))
       \/ Staged(c) \subseteq objects /\ Goto(c, "put_commit")
    /\ UNCHANGED <<head, objects, late, parent, rebases, indeterminate, staged>>

(* Mutant: a failed upload is not noticed.                                 *)
PutUnconfirmed(c, step, object, next) ==
    /\ pc[c] = step
    /\ objects' \in {objects, objects \cup {object}}
    /\ Goto(c, next)
    /\ UNCHANGED <<head, late, parent, rebases, indeterminate, staged>>

(* put_immutable: create, then read back.  A failure may leave the object. *)
PutImmutable(c, step, object, next) ==
    /\ pc[c] = step
    /\ \/ objects' = objects \cup {object} /\ Goto(c, next)
       \/ /\ objects' \in {objects, objects \cup {object}}
          /\ Return(c, Failed("storage_error"))
    /\ UNCHANGED <<head, late, parent, rebases, indeterminate, staged>>

PutCommit(c) == PutImmutable(c, "put_commit", CommitObject(Cand(c)), "put_image")

PutImage(c) == PutImmutable(c, "put_image", ImageObject(Cand(c)), "put_generation")

PutGeneration(c) ==
    /\ PutImmutable(c, "put_generation", GenerationObject(Cand(c)), "cas")

(* replace_head answers Applied.                                           *)
HeadApplied(c) ==
    /\ pc[c] = "cas"
    /\ head = parent[c]
    /\ head' = Append(parent[c], CandRow(c))
    /\ Return(c, Ok(Cand(c)))
    /\ UNCHANGED <<objects, late, parent, rebases, indeterminate, staged>>

(* replace_head answers Conflict: HEAD is not the version it was given.    *)
HeadConflict(c) ==
    /\ pc[c] = "cas"
    /\ head # parent[c]
    /\ Goto(c, "winner")
    /\ UNCHANGED <<head, objects, late, parent, rebases, indeterminate, staged>>

(* Mutant: lost answers are not counted.                                   *)
HeadIndeterminateUncounted(c) ==
    /\ pc[c] = "cas"
    /\ late' = late \cup {[expected |-> parent[c], row |-> CandRow(c)]}
    /\ Goto(c, "reconcile")
    /\ UNCHANGED <<head, objects, parent, rebases, indeterminate, staged>>

(* replace_head answers Indeterminate: the write may still be under way.   *)
HeadIndeterminate(c) ==
    /\ pc[c] = "cas"
    /\ late' = late \cup {[expected |-> parent[c], row |-> CandRow(c)]}
    /\ indeterminate' = [indeterminate EXCEPT ![c] = @ + 1]
    /\ Goto(c, "reconcile")
    /\ UNCHANGED <<head, objects, parent, rebases, staged>>

MayRetry(c) == indeterminate[c] <= MaxReconciliations

(* Mutant: giving up is reported like any storage failure.                 *)
RetryOrFail(c) ==
    IF MayRetry(c) THEN Goto(c, "cas") ELSE Return(c, Failed("storage_error"))

(* Send the same candidate again, or give up without knowing.              *)
RetryOrGiveUp(c) ==
    IF MayRetry(c) THEN Goto(c, "cas") ELSE Return(c, Failed("indeterminate"))

(* The pin succeeds but replay cannot query the local copy of its image;   *)
(* the error is returned as it is, whatever was lost before.               *)
ImageUnreadable(c) == Return(c, Failed("image_error"))

(* The pin after an indeterminate answer fails, shows the key committed,   *)
(* shows HEAD as it was, or shows another winner.                          *)
Reconcile(c) ==
    /\ pc[c] = "reconcile"
    /\ \/ RetryOrGiveUp(c)                                \* the pin failed
       \/ ImageUnreadable(c)
       \/ AnswerFromImage(c, head)
       \/ KeyFree(head, c) /\ head = parent[c] /\ RetryOrGiveUp(c)
       \/ KeyFree(head, c) /\ head # parent[c] /\ Goto(c, "winner")
    /\ UNCHANGED <<head, objects, late, parent, rebases, indeterminate, staged>>

(* Mutant: the answers lost before the conflict are forgotten.             *)
WinnerUnreadableForgets(c) == Return(c, Failed("storage_error"))

(* The winner of a conflict cannot be pinned: a conflict does not resolve  *)
(* an answer lost before it.                                               *)
WinnerUnreadable(c) ==
    Return(c, Failed(IF indeterminate[c] > 0 THEN "indeterminate" ELSE "storage_error"))

Exhausted(c) == rebases[c] + 1 > MaxRebases

WinnerRead(c) ==
    /\ pc[c] = "winner"
    /\ \/ WinnerUnreadable(c)
       \/ ImageUnreadable(c)
       \/ AnswerFromImage(c, head)
       \/ KeyFree(head, c) /\ Exhausted(c) /\ Return(c, Failed("rebase_exhausted"))
    /\ UNCHANGED <<head, objects, late, parent, rebases, indeterminate, staged>>

(* Mutant: the rebased candidate is not uploaded again.                    *)
RebaseWithoutUpload(c) ==
    /\ pc[c] = "winner"
    /\ KeyFree(head, c)
    /\ ~Exhausted(c)
    /\ Goto(c, "cas")
    /\ parent' = [parent EXCEPT ![c] = head]
    /\ rebases' = [rebases EXCEPT ![c] = @ + 1]
    /\ indeterminate' = [indeterminate EXCEPT ![c] = 0]
    /\ UNCHANGED <<head, objects, late, staged>>

(* Start over on the winner with a new candidate and a clean slate.        *)
Rebase(c) ==
    /\ pc[c] = "winner"
    /\ KeyFree(head, c)
    /\ ~Exhausted(c)
    /\ Goto(c, "build")
    /\ parent' = [parent EXCEPT ![c] = head]
    /\ rebases' = [rebases EXCEPT ![c] = @ + 1]
    /\ indeterminate' = [indeterminate EXCEPT ![c] = 0]
    /\ UNCHANGED <<head, objects, late, staged>>

-----------------------------------------------------------------------------
(* The environment                                                         *)

(* The process making the call dies.                                       *)
Crash(c) ==
    /\ Running(c)
    /\ pc' = [pc EXCEPT ![c] = "crashed"]
    /\ UNCHANGED <<head, objects, late, parent, rebases, indeterminate, staged, result>>

(* A conditional write whose answer was lost reaches HEAD ...              *)
LateWriteLands(w) ==
    /\ head = w.expected
    /\ head' = Append(w.expected, w.row)
    /\ late' = late \ {w}
    /\ UNCHANGED <<objects, callVars>>

(* ... or fails its precondition, or was never delivered.                  *)
LateWriteFails(w) ==
    /\ late' = late \ {w}
    /\ UNCHANGED <<head, objects, callVars>>

AppendStep(c) ==
    \/ FirstPin(c) \/ StageFile(c) \/ StageFileFails(c) \/ StagingDone(c)
    \/ SecondPin(c)

PublishStep(c) ==
    \/ ParentPin(c) \/ Build(c) \/ ConfirmStaged(c)
    \/ PutCommit(c) \/ PutImage(c) \/ PutGeneration(c)
    \/ HeadApplied(c) \/ HeadConflict(c) \/ HeadIndeterminate(c)
    \/ Reconcile(c) \/ WinnerRead(c) \/ Rebase(c)

Step(c) == AppendStep(c) \/ PublishStep(c)

AllSettled == late = {} /\ \A c \in Calls : ~Running(c)

Next ==
    \/ \E c \in Calls : Step(c) \/ Crash(c)
    \/ \E w \in late : LateWriteLands(w) \/ LateWriteFails(w)
    \/ AllSettled /\ UNCHANGED vars

Spec == Init /\ [][Next]_vars

(* A call that is not dead keeps running: each await of the code resolves. *)
FairSpec == Spec /\ \A c \in Calls : WF_vars(Step(c))

-----------------------------------------------------------------------------
TypeOK ==
    /\ head \in Seq(Row)
    /\ objects \subseteq Objects
    /\ late \subseteq [expected : Seq(Row), row : Row]
    /\ pc \in [Calls -> Steps]
    /\ parent \in [Calls -> Seq(Row)]
    /\ rebases \in [Calls -> 0..MaxRebases]
    /\ indeterminate \in [Calls -> Nat]
    /\ staged \in [Calls -> 0..FilesPerAppend]
    /\ result \in [Calls -> Results]

(* A key is committed at most once, whatever was retried, replayed, lost   *)
(* or delivered late (publish_transaction_from_parent, replay).            *)
KeyCommittedOnce ==
    \A i, j \in 1..Len(head) : head[i].key = head[j].key => i = j

(* A caller told Ok was told the identifiers of the one committed row of   *)
(* its key, and that row carries its intent: duplicates of a call agree on *)
(* the result whichever of them committed.                                 *)
OkIsCommitted ==
    \A c \in Calls : result[c].kind = "ok" =>
        \E i \in 1..Len(head) :
            /\ head[i].key = KeyOf[c]
            /\ head[i].intent = IntentOf[c]
            /\ head[i].cand = result[c].cand

(* Only PublicationIndeterminate, and a local failure to query a pinned    *)
(* image, may hide a commit: after any other error nothing this call sent  *)
(* is committed, not even by a late write.                                 *)
OpenErrors == {"indeterminate", "image_error"}

OpenResults == {Failed(e) : e \in OpenErrors}

DefiniteErrors == Errors \ OpenErrors

DefiniteErrorNeverCommitted ==
    \A c \in Calls :
        (result[c].kind = "error" /\ result[c].error \in DefiniteErrors)
            => \A i \in 1..Len(head) : head[i].cand[1] # c

(* HEAD never dangles: the commit, image, generation and data files of     *)
(* every committed row are in the store; no failed upload is published and *)
(* no cleanup deletes a file some commit references.                       *)
CommittedObjectsExist ==
    \A i \in 1..Len(head) : Reachable(head[i]) \subseteq objects

(* HEAD only ever advances by one commit; nothing committed is lost to a   *)
(* concurrent, retried or late write (finish_candidate, replace_head).     *)
HeadAdvancesByOne ==
    [][\E r \in Row : head' = Append(head, r)]_head

(* Every call that stays alive is answered: reconciliation and rebasing    *)
(* are bounded even when every answer is lost and every rival wins.        *)
EveryCallAnswered ==
    \A c \in Calls : <>(~Running(c))

-----------------------------------------------------------------------------
(* The inductive invariant behind the safety properties.                   *)

(* An image some call has seen is an earlier HEAD or HEAD itself.          *)
NotAhead(image) ==
    /\ Len(image) <= Len(head)
    /\ \A i \in 1..Len(image) : image[i] = head[i]
    /\ Len(image) = Len(head) => image = head

ImagesNotAhead ==
    /\ \A c \in Calls : NotAhead(parent[c])
    /\ \A w \in late : NotAhead(w.expected)

(* The steps between building a candidate and settling it.                 *)
Candidacy == {"confirm", "put_commit", "put_image", "put_generation",
              "cas", "reconcile", "winner"}

ParentLacksKey ==
    \A c \in Calls : pc[c] \in Candidacy => KeyFree(parent[c], c)

ResultOnReturn ==
    \A c \in Calls : pc[c] # "returned" => result[c] = NoResult

WinnerAhead ==
    \A c \in Calls : pc[c] = "winner" => Len(parent[c]) < Len(head)

(* Whether something this call sent may be in HEAD without it knowing.     *)
Unsure(c) ==
    \/ pc[c] = "crashed"
    \/ result[c] \in OpenResults
    \/ indeterminate[c] > 0 /\ pc[c] \in {"cas", "reconcile", "winner"}

RowIntact(r) ==
    /\ r.key = KeyOf[r.cand[1]]
    /\ r.intent = IntentOf[r.cand[1]]

(* The steps before the parent of a candidate is pinned.                   *)
Early == {"pin1", "stage", "pin2", "parent_pin"}

(* Whether what became of a candidate built on parent[c] is still open to  *)
(* its sender, or HEAD has moved past that parent.                         *)
Exposed(c) == Unsure(c) \/ Len(parent[c]) < Len(head)

(* A late write carries its sender's intent, would add a key its image     *)
(* lacks, and can land only while its sender is unsure.                    *)
LateWritesOwned ==
    \A w \in late :
        LET c == w.row.cand[1] IN
        /\ RowIntact(w.row)
        /\ KeyFree(w.expected, c)
        /\ Reachable(w.row) \subseteq objects
        /\ pc[c] \notin Early
        /\ Len(w.expected) <= Len(parent[c])
        /\ Len(w.expected) = Len(parent[c]) => Exposed(c)

(* A committed row carries its sender's intent, and its sender knows of it *)
(* or is unsure.                                                           *)
RowsOwned ==
    \A i \in 1..Len(head) :
        LET c == head[i].cand[1] IN
        /\ RowIntact(head[i])
        /\ Unsure(c) \/ result[c].kind = "ok"

(* What a call has uploaded by the time it reaches a step.                 *)
Uploaded ==
    \A c \in Calls :
        /\ pc[c] \in {"pin2", "parent_pin", "build"} \cup Candidacy =>
               staged[c] = FileCount(c)
        /\ pc[c] \in Candidacy \ {"confirm"} => Staged(c) \subseteq objects
        /\ pc[c] \in {"put_image", "put_generation", "cas", "reconcile"} =>
               CommitObject(Cand(c)) \in objects
        /\ pc[c] \in {"put_generation", "cas", "reconcile"} =>
               ImageObject(Cand(c)) \in objects
        /\ pc[c] \in {"cas", "reconcile"} => GenerationObject(Cand(c)) \in objects

(* Where every call, committed row and late write stands with respect to   *)
(* HEAD: strong enough for each step of the protocol to preserve it.       *)
PublicationInv ==
    /\ TypeOK
    /\ ImagesNotAhead
    /\ ParentLacksKey
    /\ ResultOnReturn
    /\ WinnerAhead
    /\ LateWritesOwned
    /\ RowsOwned
    /\ Uploaded
    /\ KeyCommittedOnce
    /\ OkIsCommitted
    /\ DefiniteErrorNeverCommitted
    /\ CommittedObjectsExist

-----------------------------------------------------------------------------
(* Publication implements the promise of CommitLog.                        *)

AnswerOf(c) ==
    IF result[c].kind = "none" THEN "open"
    ELSE IF result[c].kind = "ok" THEN "done"
    ELSE IF result[c].error \in OpenErrors THEN "unknown"
    ELSE "refused"

AbstractRow(r) == [call |-> r.cand[1], key |-> r.key, intent |-> r.intent]

Promise == INSTANCE CommitLog WITH
    log <- [i \in 1..Len(head) |-> AbstractRow(head[i])],
    answer <- [c \in Calls |-> AnswerOf(c)]

(* Every behaviour of the publication machinery is one the promise allows: *)
(* at most one commit per key, in one linear history, and every answer     *)
(* true of it for ever.                                                    *)
ImplementsCommitLog == Promise!Spec
=============================================================================
