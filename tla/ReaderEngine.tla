----------------------------- MODULE ReaderEngine -----------------------------
(***************************************************************************)
(* The read-only SQL engine of a pinned image (otmp/src/reader_engine.rs)  *)
(* and the structural check of the pages it is given                       *)
(* (otmp/src/reader_engine_pages.rs).                                      *)
(*                                                                         *)
(* Callers queue for the one permit of the engine.  The blocking task that *)
(* runs a caller's statements owns the permit, so it outlives a caller     *)
(* that is dropped; the caller's guard then cancels the task, also while   *)
(* it waits for a page that never comes.  A page read that fails leaves    *)
(* its cause in a slot beside the engine, which may report anything or     *)
(* nothing of it.                                                          *)
(*                                                                         *)
(* A page is a B-tree page or part of an overflow chain according to the   *)
(* page that referred to it.  `content' says what the bytes of each page   *)
(* refer to, and whether they make sense to the end.                       *)
(***************************************************************************)
EXTENDS Naturals, Sequences, FiniteSets, FiniteSetsExt, SequencesExt

CONSTANTS Queries,       \* callers, each with one group of statements
          Statements,    \* statements of a group
          Images,        \* contents the pinned image may have
          NumPages,      \* pages of the image
          MaxRecord,     \* maximum_record_bytes, in pages
          MaxRoles,      \* max_roles
          MaxReads       \* bound on the page reads of a statement

Pages == 1..NumPages
None == "none"

(* What the bytes of a page may refer to.                                  *)
Reference == [to : Nat, kind : {"btree", "overflow"}, length : Nat]

ASSUME EngineAssumption ==
    /\ NumPages \in Nat \ {0}
    /\ MaxRoles \in Nat
    /\ Images \subseteq [Pages -> [refs : Seq(Reference), sound : BOOLEAN]]

VARIABLES content,   \* page -> what its bytes refer to
          queue,     \* callers waiting for the permit, first come first served
          call,      \* query -> what its caller is doing
          told,      \* query -> its answer
          cancelled, \* queries whose guard was dropped
          task,      \* the blocking task that owns the permit
          failure,   \* the first failed read not yet taken: whose, and its cause
          roles,     \* page -> the role it was given
          charged,   \* roles paid for
          accepted   \* pages handed to the engine

vars == <<content, queue, call, told, cancelled, task, failure, roles, charged, accepted>>

Idle == [query |-> None, at |-> "idle", statement |-> 0, reads |-> 0, page |-> 0, result |-> "ok",
         lost |-> FALSE]

(* An answer or a cause of failure, with the query it arose in.            *)
Nothing == [whose |-> None, cause |-> None]
Of(q, cause) == [whose |-> q, cause |-> cause]

Root == [kind |-> "btree", parent |-> 0, slot |-> 0]

Init ==
    /\ content \in Images
    /\ queue = <<>>
    /\ call = [q \in Queries |-> "idle"]
    /\ told = [q \in Queries |-> Nothing]
    /\ cancelled = {}
    /\ task = Idle
    /\ failure = Nothing
    /\ roles = [p \in {1} |-> Root]
    /\ charged = 0
    /\ accepted = {}

-----------------------------------------------------------------------------
(* PageValidator.                                                          *)

Register(state, p, role) ==
    [state EXCEPT !.roles = [x \in DOMAIN @ \cup {p} |-> IF x = p THEN role ELSE @[x]]]

(* Mutant: the last page to refer to a page has it.                        *)
AddRoleAnew(state, p, role) ==
    IF state.error # "ok" THEN state
    ELSE IF p \notin Pages THEN [state EXCEPT !.error = "corrupt"]
    ELSE Register(state, p, role)

(* add: a page within the image takes the first role it is given, while    *)
(* there is room for roles, and accepts no other.                          *)
AddRole(state, p, role) ==
    IF state.error # "ok" THEN state
    ELSE IF p \notin Pages THEN [state EXCEPT !.error = "corrupt"]
    ELSE IF p \in DOMAIN state.roles
    THEN IF state.roles[p] = role THEN state ELSE [state EXCEPT !.error = "corrupt"]
    ELSE IF Cardinality(DOMAIN state.roles) >= MaxRoles THEN [state EXCEPT !.error = "exhausted"]
    ELSE Register(state, p, role)

(* The role the i-th reference of B-tree page p gives: a child, or the     *)
(* first page of the chain of a record too long for its cell.              *)
RoleFrom(p, i) ==
    LET ref == content[p].refs[i]
    IN  IF ref.kind = "btree" THEN [kind |-> "btree", parent |-> p, slot |-> i]
        ELSE [kind |-> "overflow", owner |-> p, cell |-> i,
              remaining |-> ref.length, record |-> ref.length]

(* The roles after the first i references of B-tree page p, in order.      *)
AfterReferences(p) ==
    LET after[i \in 0..Len(content[p].refs)] ==
          IF i = 0 THEN [roles |-> roles, error |-> "ok"]
          ELSE AddRole(after[i - 1], content[p].refs[i].to, RoleFrom(p, i))
    IN  after

ValidateBtree(p) ==
    LET end == AfterReferences(p)[Len(content[p].refs)]
    IN  IF end.error = "ok" /\ ~content[p].sound THEN [end EXCEPT !.error = "corrupt"] ELSE end

(* The first bytes of an overflow page are the number of the next.         *)
NextInChain(p) == IF content[p].refs = <<>> THEN 0 ELSE content[p].refs[1].to

ValidateOverflow(p) ==
    LET role == roles[p]
        start == [roles |-> roles, error |-> "ok"]
    IN  IF role.record > MaxRecord THEN [start EXCEPT !.error = "exhausted"]
        ELSE IF role.remaining > 1
        THEN AddRole(start, NextInChain(p), [role EXCEPT !.remaining = @ - 1])
        ELSE IF NextInChain(p) # 0 THEN [start EXCEPT !.error = "corrupt"]
        ELSE start

(* validate: what the roles become, and whether the page is accepted.  The *)
(* roles registered before an error stay.                                  *)
Validated(p) ==
    IF p \notin DOMAIN roles THEN [roles |-> roles, error |-> "corrupt"]
    ELSE IF roles[p].kind = "overflow" THEN ValidateOverflow(p)
    ELSE ValidateBtree(p)

-----------------------------------------------------------------------------
(* Callers.                                                                *)

(* query_group: empty and oversized groups, zero budgets and statements    *)
(* that write are refused at once.                                         *)
Refuse(q) ==
    /\ call[q] = "idle"
    /\ call' = [call EXCEPT ![q] = "answered"]
    /\ told' = [told EXCEPT ![q] = Of(q, "refused")]
    /\ UNCHANGED <<content, queue, cancelled, task, failure, roles, charged, accepted>>

Submit(q) ==
    /\ call[q] = "idle"
    /\ call' = [call EXCEPT ![q] = "queued"]
    /\ queue' = Append(queue, q)
    /\ UNCHANGED <<content, told, cancelled, task, failure, roles, charged, accepted>>

(* The permit goes to the caller that waited longest, and with it into the *)
(* task it spawns.                                                         *)
Admit ==
    /\ task.at = "idle" /\ queue # <<>>
    /\ task' = [Idle EXCEPT !.query = Head(queue), !.at = "spawned"]
    /\ call' = [call EXCEPT ![Head(queue)] = "waiting"]
    /\ queue' = Tail(queue)
    /\ UNCHANGED <<content, told, cancelled, failure, roles, charged, accepted>>

(* Dropping a caller takes it out of the queue or cancels its task.        *)
DropCaller(q) ==
    /\ call[q] \in {"queued", "waiting"}
    /\ call' = [call EXCEPT ![q] = "gone"]
    /\ IF call[q] = "queued"
       THEN /\ \E i \in DOMAIN queue : queue[i] = q /\ queue' = RemoveAt(queue, i)
            /\ UNCHANGED cancelled
       ELSE cancelled' = cancelled \cup {q} /\ UNCHANGED queue
    /\ UNCHANGED <<content, told, task, failure, roles, charged, accepted>>

-----------------------------------------------------------------------------
(* The blocking task.                                                      *)

Cancelled == task.query \in cancelled

(* The end of the task returns the permit and answers a caller that waits. *)
End(answer) ==
    /\ task' = Idle
    /\ call' = IF call[task.query] = "waiting" THEN [call EXCEPT ![task.query] = "answered"] ELSE call
    /\ told' = IF call[task.query] = "waiting" THEN [told EXCEPT ![task.query] = answer] ELSE told

NextStatement ==
    /\ task.at \in {"spawned", "between"}
    /\ task.statement < Statements
    /\ ~Cancelled
    /\ task' = [task EXCEPT !.at = "executing", !.statement = @ + 1, !.reads = 0, !.result = "ok",
                            !.lost = FALSE]
    /\ UNCHANGED <<content, queue, call, told, cancelled, failure, roles, charged, accepted>>

StopCancelled ==
    /\ task.at \in {"spawned", "between"}
    /\ Cancelled
    /\ End(Of(task.query, "cancelled"))
    /\ UNCHANGED <<content, queue, cancelled, failure, roles, charged, accepted>>

AllDone ==
    /\ task.at = "between"
    /\ task.statement = Statements
    /\ ~Cancelled
    /\ End(Of(task.query, "ok"))
    /\ UNCHANGED <<content, queue, cancelled, failure, roles, charged, accepted>>

(* The statement ends: with its rows, for want of budget, or with an error *)
(* of the engine, which a cancelled statement is interrupted with.         *)
Ends(result) ==
    /\ task.at = "executing"
    /\ task' = [task EXCEPT !.at = "concluding", !.result = result]
    /\ UNCHANGED <<content, queue, call, told, cancelled, failure, roles, charged, accepted>>

(* The engine asks for a page.                                             *)
Ask(p) ==
    /\ task.at = "executing"
    /\ task.reads < MaxReads
    /\ ~Cancelled
    /\ task' = [task EXCEPT !.at = "reading", !.page = p, !.reads = @ + 1]
    /\ UNCHANGED <<content, queue, call, told, cancelled, failure, roles, charged, accepted>>

(* remember: the first cause stays until it is taken.                      *)
Remember(cause) == failure' = IF failure = Nothing THEN Of(task.query, cause) ELSE failure

(* io_error: the engine learns that the read failed, not why.  Whether it  *)
(* gives up or goes on is its own affair.                                  *)
ReadFailed(cause) ==
    /\ Remember(cause)
    /\ \/ task' = [task EXCEPT !.at = "concluding", !.result = "turso", !.lost = TRUE]
       \/ task' = [task EXCEPT !.at = "executing", !.lost = TRUE]

(* Mutant: cancellation is looked at before a read, not during it.         *)
ReadWaitsOut ==
    /\ task.at = "executing"
    /\ Cancelled
    /\ ReadFailed("cancelled")
    /\ UNCHANGED <<content, queue, call, told, cancelled, roles, charged, accepted>>

(* A cancelled query's read fails before it starts, and the guard's        *)
(* notification ends the wait for the page.                                *)
ReadCancelled ==
    /\ task.at \in {"executing", "reading"}
    /\ Cancelled
    /\ ReadFailed("cancelled")
    /\ UNCHANGED <<content, queue, call, told, cancelled, roles, charged, accepted>>

(* The page does not come, or there is no room to check it.                *)
SourceFails(cause) ==
    /\ task.at = "reading"
    /\ ReadFailed(cause)
    /\ UNCHANGED <<content, queue, call, told, cancelled, roles, charged, accepted>>

(* What was registered is paid for, whatever became of the page.           *)
Charge(before, after) == Cardinality(DOMAIN after.roles) - before

SourceAnswers ==
    /\ task.at = "reading"
    /\ LET v == Validated(task.page)
       IN  /\ roles' = v.roles
           /\ charged' = charged + Charge(Cardinality(DOMAIN roles), v)
           /\ IF v.error = "ok"
              THEN /\ accepted' = accepted \cup {task.page}
                   /\ task' = [task EXCEPT !.at = "executing"]
                   /\ UNCHANGED failure
              ELSE ReadFailed(v.error) /\ UNCHANGED accepted
    /\ UNCHANGED <<content, queue, call, told, cancelled>>

(* Mutant: the cause matters only if the engine reports an error.          *)
CauseIfReported == IF task.result = "turso" THEN failure ELSE Nothing

(* take_failure: the cause, and the slot left empty.                       *)
Cause == failure

(* Mutant: a statement the engine reports an error of leaves the slot.     *)
LeaveFailure == failure' = IF task.result = "turso" THEN failure ELSE Nothing

TakeFailure == failure' = Nothing

(* Whatever the engine says, a read that failed is the statement's result; *)
(* then cancellation, then what the engine says.                           *)
Conclude ==
    /\ task.at = "concluding"
    /\ TakeFailure
    /\ IF Cause # Nothing THEN End(Cause)
       ELSE IF Cancelled THEN End(Of(task.query, "cancelled"))
       ELSE IF task.result # "ok" THEN End(Of(task.query, task.result))
       ELSE task' = [task EXCEPT !.at = "between"] /\ UNCHANGED <<call, told>>
    /\ UNCHANGED <<content, queue, cancelled, roles, charged, accepted>>

Source == SourceAnswers \/ \E cause \in {"source", "exhausted"} : SourceFails(cause)

TaskStep ==
    \/ NextStatement \/ StopCancelled \/ AllDone \/ ReadCancelled \/ Conclude
    \/ \E result \in {"ok", "exhausted", "turso"} : Ends(result)
    \/ \E p \in Pages : Ask(p)

Quiet == (\A q \in Queries : call[q] \in {"answered", "gone"}) /\ task = Idle /\ UNCHANGED vars

Next ==
    \/ \E q \in Queries : Refuse(q) \/ Submit(q) \/ DropCaller(q)
    \/ Admit
    \/ TaskStep
    \/ Source
    \/ Quiet

Spec == Init /\ [][Next]_vars

(* The runtime runs its tasks and the engine's statements are finite.  The *)
(* store owes no answer.                                                   *)
FairSpec == Spec /\ WF_vars(Admit) /\ WF_vars(TaskStep)

-----------------------------------------------------------------------------
(* A cause of failure is told to the query whose read failed, never to a   *)
(* later query of the shared engine (remember, take_failure).              *)
AnswersOwnCause ==
    /\ failure # Nothing => failure.whose = task.query
    /\ \A q \in Queries : told[q].whose \in {None, q}

(* Rows are handed on only if every page they were made of was read, also  *)
(* when the engine swallows the error of a read (Worker::execute).         *)
NoLostRead == task.at = "between" => ~task.lost

Referrer(p) == IF roles[p].kind = "btree" THEN roles[p].parent ELSE roles[p].owner

(* The pages with a role hang together in one tree rooted in page 1: no    *)
(* page is its own ancestor, since every set of other pages is entered     *)
(* from outside it, and none is part of two records or two places of one,  *)
(* so a walk along accepted pages ends (PageValidator).                    *)
RolesFormTree ==
    /\ roles[1] = Root
    /\ \A S \in SUBSET (DOMAIN roles \ {1}) :
           S # {} => \E p \in S : Referrer(p) \in DOMAIN roles \ S
    /\ \A p, q \in DOMAIN roles : p # q => roles[p] # roles[q]

(* A query whose caller is gone gives the engine back, even if the store   *)
(* never answers its read.                                                 *)
EngineComesFree == \A q \in Queries : (q \in cancelled) ~> (task.query # q)
===============================================================================
