---------------------------- MODULE TableCreation ----------------------------
(***************************************************************************)
(* Creating a table (otmp/src/runtime.rs, initialize): upload the genesis  *)
(* objects, create HEAD if there is none, and find out what happened when  *)
(* the answer is lost.                                                     *)
(*                                                                         *)
(* Several clients create a table in the same place.  As soon as HEAD is   *)
(* there any client may commit to the table, so HEAD may have moved on     *)
(* when a creator reads it back.  `head' is the table it belongs to, named *)
(* by the call that created it, and its version.                           *)
(***************************************************************************)
EXTENDS Naturals

CONSTANTS Calls,               \* calls of initialize
          MaxReconciliations,  \* maximum_indeterminate_reconciliations
          MaxVersion           \* bound on the commits that follow

ASSUME CreationAssumption ==
    /\ "none" \notin Calls
    /\ MaxReconciliations \in Nat
    /\ MaxVersion \in Nat

VARIABLES head,              \* NoHead, or the table and version of HEAD
          objects,           \* the calls whose genesis objects are all uploaded
          late,              \* creations sent, answer lost, not yet settled
          pc,                \* call -> where it is
          reconciliations,   \* call -> answers lost
          result             \* call -> what it returned

vars == <<head, objects, late, pc, reconciliations, result>>

NoHead == [table |-> "none", version |-> 0]

GenesisHead(c) == [table |-> c, version |-> 0]

Running(c) == pc[c] \notin {"returned", "crashed"}

Init ==
    /\ head = NoHead
    /\ objects = {}
    /\ late = {}
    /\ pc = [c \in Calls |-> "upload"]
    /\ reconciliations = [c \in Calls |-> 0]
    /\ result = [c \in Calls |-> "none"]

Goto(c, step) == pc' = [pc EXCEPT ![c] = step] /\ UNCHANGED result

Return(c, r) ==
    /\ pc' = [pc EXCEPT ![c] = "returned"]
    /\ result' = [result EXCEPT ![c] = r]

-----------------------------------------------------------------------------
(* Commit, checkpoint, its index and the generation, each read back.       *)
Upload(c) ==
    /\ pc[c] = "upload"
    /\ objects' = objects \cup {c}
    /\ Goto(c, "create")
    /\ UNCHANGED <<head, late, reconciliations>>

(* A request that is refused before it ends the same way: nothing is sent. *)
UploadFails(c) ==
    /\ pc[c] = "upload"
    /\ Return(c, "storage_error")
    /\ UNCHANGED <<head, objects, late, reconciliations>>

(* Mutant: HEAD is replaced if it is there.                                *)
CreateOverwrites(c) ==
    /\ pc[c] = "create"
    /\ head' = GenesisHead(c)
    /\ Return(c, "ok")
    /\ UNCHANGED <<objects, late, reconciliations>>

CreateApplied(c) ==
    /\ pc[c] = "create"
    /\ head = NoHead
    /\ head' = GenesisHead(c)
    /\ Return(c, "ok")
    /\ UNCHANGED <<objects, late, reconciliations>>

CreateConflict(c) ==
    /\ pc[c] = "create"
    /\ head # NoHead
    /\ Goto(c, "conflict")
    /\ UNCHANGED <<head, objects, late, reconciliations>>

(* Mutant: lost answers are not counted.                                   *)
CreateIndeterminateUncounted(c) ==
    /\ pc[c] = "create"
    /\ late' = late \cup {c}
    /\ Goto(c, "reconcile")
    /\ UNCHANGED <<head, objects, reconciliations>>

CreateIndeterminate(c) ==
    /\ pc[c] = "create"
    /\ late' = late \cup {c}
    /\ reconciliations' = [reconciliations EXCEPT ![c] = @ + 1]
    /\ Goto(c, "reconcile")
    /\ UNCHANGED <<head, objects>>

(* Mutant: whose HEAD it is does not matter.                               *)
AnswerWithoutLooking(c) == head # NoHead /\ Return(c, "already_exists")

(* HEAD is there: it is this call's own genesis, or it is not.             *)
AnswerFromHead(c) ==
    /\ head # NoHead
    /\ Return(c, IF head = GenesisHead(c) THEN "ok" ELSE "already_exists")

(* Mutant: a failed read is an ordinary failure whatever was lost before.  *)
ConflictUnreadableForgets(c) == Return(c, "storage_error")

ConflictUnreadable(c) ==
    Return(c, IF reconciliations[c] > 0 THEN "indeterminate" ELSE "storage_error")

ReadConflict(c) ==
    /\ pc[c] = "conflict"
    /\ AnswerFromHead(c) \/ ConflictUnreadable(c)
    /\ UNCHANGED <<head, objects, late, reconciliations>>

(* No HEAD, or no answer: create it again, or give up without knowing.     *)
RetryOrGiveUp(c) ==
    IF reconciliations[c] <= MaxReconciliations
    THEN Goto(c, "create")
    ELSE Return(c, "indeterminate")

Reconcile(c) ==
    /\ pc[c] = "reconcile"
    /\ AnswerFromHead(c) \/ RetryOrGiveUp(c)
    /\ UNCHANGED <<head, objects, late, reconciliations>>

-----------------------------------------------------------------------------
(* The environment: late creations, commits of other clients, deaths.      *)

LateCreationLands(c) ==
    /\ c \in late
    /\ head = NoHead
    /\ head' = GenesisHead(c)
    /\ late' = late \ {c}
    /\ UNCHANGED <<objects, pc, reconciliations, result>>

LateCreationFails(c) ==
    /\ c \in late
    /\ late' = late \ {c}
    /\ UNCHANGED <<head, objects, pc, reconciliations, result>>

(* Publication: a commit to the table HEAD names.                          *)
Commit ==
    /\ head # NoHead
    /\ head.version < MaxVersion
    /\ head' = [head EXCEPT !.version = @ + 1]
    /\ UNCHANGED <<objects, late, pc, reconciliations, result>>

Crash(c) ==
    /\ Running(c)
    /\ pc' = [pc EXCEPT ![c] = "crashed"]
    /\ UNCHANGED <<head, objects, late, reconciliations, result>>

Step(c) ==
    \/ Upload(c) \/ UploadFails(c) \/ CreateApplied(c) \/ CreateConflict(c)
    \/ CreateIndeterminate(c) \/ ReadConflict(c) \/ Reconcile(c)

AllSettled == late = {} /\ \A c \in Calls : ~Running(c)

Next ==
    \/ \E c \in Calls :
           Step(c) \/ LateCreationLands(c) \/ LateCreationFails(c) \/ Crash(c)
    \/ Commit
    \/ AllSettled /\ UNCHANGED vars

Spec == Init /\ [][Next]_vars

(* Each await of a call that stays alive resolves.                         *)
FairSpec == Spec /\ \A c \in Calls : WF_vars(Step(c))

-----------------------------------------------------------------------------
Results == {"none", "ok", "already_exists", "storage_error", "indeterminate"}

TypeOK ==
    /\ head \in {NoHead} \cup [table : Calls, version : Nat]
    /\ objects \subseteq Calls
    /\ late \subseteq Calls
    /\ pc \in [Calls -> {"upload", "create", "conflict", "reconcile", "returned", "crashed"}]
    /\ reconciliations \in [Calls -> 0..(MaxReconciliations + 1)]
    /\ result \in [Calls -> Results]

(* Whose table HEAD belongs to.                                            *)
Created(c) == head # NoHead /\ head.table = c

(* Once there is a table no creation replaces it or takes it back.         *)
TableNeverReplaced ==
    [][head # NoHead => (head'.table = head.table /\ head'.version >= head.version)]_head

(* What a creator is told is true, for ever: ok only to the call whose     *)
(* table HEAD belongs to, a storage error only to one whose table it never *)
(* will be, and HEAD's genesis objects are all there.                      *)
AnswersTrue ==
    /\ \A c \in Calls :
        /\ result[c] = "ok" => Created(c)
        /\ result[c] = "storage_error" => ~Created(c) /\ c \notin late
    /\ head # NoHead => head.table \in objects

(* AlreadyExists is said to the creator of the table itself only when an   *)
(* answer was lost and the table has moved on since.                       *)
OwnTableDeniedOnlyIfMovedOn ==
    \A c \in Calls : (result[c] = "already_exists" /\ Created(c)) =>
        reconciliations[c] > 0 /\ head.version > 0

(* AlreadyExists means that another genesis is in the way, as the table of *)
(* error codes has it.                                                     *)
AlreadyExistsMeansAnother ==
    \A c \in Calls : result[c] = "already_exists" => ~Created(c)

(* What a call has done and may have done by the time it is at a step: the *)
(* facts the answers rest on.                                              *)
Knows ==
    \A c \in Calls :
        /\ pc[c] # "returned" => result[c] = "none"
        /\ pc[c] = "upload" => reconciliations[c] = 0
        /\ pc[c] = "create" => reconciliations[c] <= MaxReconciliations
        /\ pc[c] \in {"create", "conflict", "reconcile"} => c \in objects
        /\ c \in late => c \in objects /\ reconciliations[c] > 0
        /\ Created(c) => c \in objects /\ (reconciliations[c] > 0 \/ result[c] = "ok")
        /\ result[c] = "storage_error" => reconciliations[c] = 0
        /\ result[c] = "already_exists" => head # NoHead

CreationInv == TypeOK /\ Knows /\ AnswersTrue /\ OwnTableDeniedOnlyIfMovedOn

(* Every creator that stays alive is answered.                             *)
EveryCreatorAnswered == \A c \in Calls : <>(~Running(c))
=============================================================================
