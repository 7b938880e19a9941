------------------------------ MODULE LocalHead ------------------------------
(***************************************************************************)
(* HEAD in a directory (LocalObjectStore in otmp/src/storage.rs:           *)
(* lock_head, create_head, replace_head, write_head_locked).               *)
(*                                                                         *)
(* A writer takes the lock file, compares HEAD, writes a temporary file    *)
(* next to it, renames it over HEAD and syncs the directory.  Readers do   *)
(* not lock.  Writers are threads of several processes; every system call  *)
(* may fail, and a process may die between any two of them, which frees    *)
(* the lock and leaves the temporary file.  Processes may have the same    *)
(* id: one after the other, or at once in different namespaces.            *)
(***************************************************************************)
EXTENDS Naturals, FiniteSets, Functions

CONSTANTS Writes,         \* calls of create_head and replace_head
          Expected,       \* write -> the HEAD it expects; Absent for create_head
          Value,          \* write -> the HEAD it writes
          Absent,         \* there is no HEAD file
          Processes,
          ProcessOf,      \* write -> the process it runs in
          PidOf,          \* process -> its process id
          StatMayFail     \* whether asking if HEAD exists may fail

ASSUME LocalHeadAssumption ==
    /\ "nobody" \notin Writes
    /\ ProcessOf \in [Writes -> Processes]
    /\ StatMayFail \in BOOLEAN
    /\ \A w \in Writes : Value[w] # Absent

VARIABLES head,       \* contents of the HEAD file
          temps,      \* temporary file -> its contents
          lock,       \* who holds .HEAD.lock
          counter,    \* process -> HEAD_TEMP_COUNTER
          pc,         \* write -> where it is
          temp,       \* write -> its temporary file
          answer,     \* write -> what it returned
          fate        \* write -> what became of it (auxiliary)

vars == <<head, temps, lock, counter, pc, temp, answer, fate>>

Nobody == "nobody"
NoTemp == <<"none", 0>>
Partial == "partial"

Creates(w) == Expected[w] = Absent

TempName(w) == <<PidOf[ProcessOf[w]], counter[ProcessOf[w]]>>

Put(f, x, y) == [z \in DOMAIN f \cup {x} |-> IF z = x THEN y ELSE f[z]]

Init ==
    /\ head = Absent
    /\ temps = [t \in {} |-> Partial]
    /\ lock = Nobody
    /\ counter = [p \in Processes |-> 0]
    /\ pc = [w \in Writes |-> "idle"]
    /\ temp = [w \in Writes |-> NoTemp]
    /\ answer = [w \in Writes |-> "none"]
    /\ fate = [w \in Writes |-> "unsent"]

-----------------------------------------------------------------------------
Goto(w, step) == pc' = [pc EXCEPT ![w] = step] /\ UNCHANGED <<lock, answer>>

(* Returning drops the guard of the lock, if it is held.                   *)
Return(w, a) ==
    /\ pc' = [pc EXCEPT ![w] = "returned"]
    /\ answer' = [answer EXCEPT ![w] = a]
    /\ lock' = IF lock = w THEN Nobody ELSE lock

(* A failed system call ends the write: unwrap_or_else(Indeterminate).     *)
Fails(w) == Return(w, "Indeterminate")

Call(w) ==
    /\ pc[w] = "idle"
    /\ Goto(w, "lock")
    /\ fate' = [fate EXCEPT ![w] = "sent"]
    /\ UNCHANGED <<head, temps, counter, temp>>

(* Mutant: the lock is shared.                                             *)
LockShared(w) ==
    /\ pc[w] = "lock"
    /\ lock' = w
    /\ pc' = [pc EXCEPT ![w] = "check"]
    /\ UNCHANGED <<head, temps, counter, temp, answer, fate>>

Lock(w) ==
    /\ pc[w] = "lock"
    /\ lock = Nobody
    /\ lock' = w
    /\ pc' = [pc EXCEPT ![w] = "check"]
    /\ UNCHANGED <<head, temps, counter, temp, answer, fate>>

LockFails(w) ==
    /\ pc[w] = "lock"
    /\ Fails(w)
    /\ UNCHANGED <<head, temps, counter, temp, fate>>

(* create_head asks path.exists(), which is false when the question fails; *)
(* replace_head reads HEAD and returns the error.                          *)
Check(w) ==
    /\ pc[w] = "check"
    /\ \/ head = Expected[w] /\ Goto(w, "temp") /\ UNCHANGED fate
       \/ /\ head # Expected[w]
          /\ Goto(w, "conflict")
          /\ fate' = [fate EXCEPT ![w] = "refused"]
       \/ Creates(w) /\ StatMayFail /\ Goto(w, "temp") /\ UNCHANGED fate
       \/ ~Creates(w) /\ Fails(w) /\ UNCHANGED fate
    /\ UNCHANGED <<head, temps, counter, temp>>

ReturnConflict(w) ==
    /\ pc[w] = "conflict"
    /\ Return(w, "Conflict")
    /\ UNCHANGED <<head, temps, counter, temp, fate>>

(* The counter moves even when create_new finds a file of that name.       *)
CreateTemp(w) ==
    /\ pc[w] = "temp"
    /\ counter' = [counter EXCEPT ![ProcessOf[w]] = @ + 1]
    /\ \/ /\ TempName(w) \notin DOMAIN temps
          /\ temps' = Put(temps, TempName(w), Partial)
          /\ temp' = [temp EXCEPT ![w] = TempName(w)]
          /\ Goto(w, "write")
       \/ Fails(w) /\ UNCHANGED <<temps, temp>>
    /\ UNCHANGED <<head, fate>>

(* write_all and sync_all; a failure leaves the file, whatever is in it.   *)
WriteTemp(w) ==
    /\ pc[w] = "write"
    /\ \/ temps' = Put(temps, temp[w], Value[w]) /\ Goto(w, "rename")
       \/ temps' \in {temps, Put(temps, temp[w], Value[w])} /\ Fails(w)
    /\ UNCHANGED <<head, counter, temp, fate>>

Rename(w) ==
    /\ pc[w] = "rename"
    /\ head' = temps[temp[w]]
    /\ temps' = Restrict(temps, DOMAIN temps \ {temp[w]})
    /\ fate' = [fate EXCEPT ![w] = "effective"]
    /\ Goto(w, "sync")
    /\ UNCHANGED <<counter, temp>>

RenameFails(w) ==
    /\ pc[w] = "rename"
    /\ Fails(w)
    /\ UNCHANGED <<head, temps, counter, temp, fate>>

(* Open and sync the directory; HEAD has been replaced either way.         *)
SyncDirectory(w) ==
    /\ pc[w] = "sync"
    /\ \/ Return(w, "Applied")
       \/ Fails(w)
    /\ UNCHANGED <<head, temps, counter, temp, fate>>

(* Mutant: the lock outlives its process.                                  *)
CrashKeepsLock(p) ==
    LET dead == {w \in Writes : ProcessOf[w] = p} IN
    /\ \E w \in dead : pc[w] \notin {"returned", "dead"}
    /\ pc' = [w \in Writes |-> IF w \in dead /\ pc[w] # "returned" THEN "dead" ELSE pc[w]]
    /\ UNCHANGED <<lock, head, temps, counter, temp, answer, fate>>

Crash(p) ==
    LET dead == {w \in Writes : ProcessOf[w] = p} IN
    /\ \E w \in dead : pc[w] \notin {"returned", "dead"}
    /\ pc' = [w \in Writes |-> IF w \in dead /\ pc[w] # "returned" THEN "dead" ELSE pc[w]]
    /\ lock' = IF lock \in dead THEN Nobody ELSE lock
    /\ UNCHANGED <<head, temps, counter, temp, answer, fate>>

Progress(w) ==
    \/ Lock(w) \/ Check(w) \/ ReturnConflict(w) \/ CreateTemp(w)
    \/ WriteTemp(w) \/ Rename(w) \/ SyncDirectory(w)

Step(w) == Progress(w) \/ LockFails(w) \/ RenameFails(w)

AllDone == \A w \in Writes : pc[w] \in {"returned", "dead"}

Next ==
    \/ \E w \in Writes : Call(w) \/ Step(w)
    \/ \E p \in Processes : Crash(p)
    \/ AllDone /\ UNCHANGED vars

Spec == Init /\ [][Next]_vars

(* A running thread gets on; one that waits for the lock gets it if it     *)
(* stays free.  No system call is bound to fail.                           *)
FairSpec == Spec /\ \A w \in Writes : WF_vars(Progress(w))

-----------------------------------------------------------------------------
Heads == {Absent} \cup {Value[w] : w \in Writes}

(* HEAD is never a partly written file: a reader, which does not lock,     *)
(* sees what some writer wrote in full.                                    *)
TypeOK ==
    /\ head \in Heads
    /\ \A t \in DOMAIN temps : temps[t] \in Heads \cup {Partial}
    /\ lock \in Writes \cup {Nobody}
    /\ temp \in [Writes -> {NoTemp} \cup ({PidOf[p] : p \in Processes} \X Nat)]
    /\ counter \in [Processes -> Nat]
    /\ pc \in [Writes -> {"idle", "lock", "check", "conflict", "temp", "write",
                          "rename", "sync", "returned", "dead"}]
    /\ answer \in [Writes -> {"none", "Applied", "Conflict", "Indeterminate"}]
    /\ fate \in [Writes -> {"unsent", "sent", "effective", "refused"}]

(* create_head never replaces a HEAD that is there.                        *)
CreateOnlyIfAbsent ==
    [][\A w \in Writes :
        (Creates(w) /\ fate[w] # "effective" /\ fate'[w] = "effective") => head = Absent]_vars

(* Where a write stands.  From the comparison to the directory sync it     *)
(* holds the lock, so what it compared and what it wrote stay as they are; *)
(* what became of it follows from how far it got.                          *)
Locked(w) == pc[w] \in {"check", "conflict", "temp", "write", "rename", "sync"}

Compared(w) == pc[w] \in {"temp", "write", "rename"}

Stands ==
    \A w \in Writes :
        /\ Locked(w) => lock = w
        /\ Compared(w) => (head = Expected[w] \/ StatMayFail)
        /\ pc[w] = "write" => temp[w] \in DOMAIN temps
        /\ pc[w] = "rename" => temp[w] \in DOMAIN temps /\ temps[temp[w]] = Value[w]
        /\ pc[w] = "idle" => fate[w] = "unsent"
        /\ (pc[w] \in {"lock", "check"} \/ Compared(w)) => fate[w] = "sent"
        /\ pc[w] = "conflict" => fate[w] = "refused"
        /\ pc[w] = "sync" => fate[w] = "effective"
        /\ pc[w] # "returned" => answer[w] = "none"

LocalHeadInv == TypeOK /\ Stands

(* Every write of a process that stays alive returns, whoever dies holding *)
(* the lock and whatever temporary files the dead have left.               *)
EveryWriteReturns ==
    \A w \in Writes : (pc[w] = "lock") ~> (pc[w] \in {"returned", "dead"})

(* The directory keeps the promise of ConditionalHead: comparing, writing  *)
(* and renaming under the lock look like one step, and every answer is     *)
(* true, also of a write whose process died or whose directory sync failed.*)
Promise == INSTANCE ConditionalHead

ImplementsConditionalHead == Promise!Spec
=============================================================================
