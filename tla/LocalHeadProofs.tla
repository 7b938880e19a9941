--------------------------- MODULE LocalHeadProofs ---------------------------
(***************************************************************************)
(* Proofs about LocalHead, for any writes and processes.  The invariant is *)
(* proved whether or not asking if HEAD exists may fail; that the          *)
(* directory implements ConditionalHead, only when it may not.             *)
(***************************************************************************)
EXTENDS LocalHead, TLAPS

(* Before any call the invariant holds.                                    *)
LEMMA InvInit == Init => LocalHeadInv
  BY LocalHeadAssumption
     DEF Init, LocalHeadInv, TypeOK, Stands, Heads, Nobody, NoTemp, Locked, Compared

(* A write that does not touch files or the lock and stays outside the     *)
(* locked part keeps the invariant.                                        *)
LEMMA CallStep ==
    ASSUME LocalHeadInv, NEW w \in Writes, Call(w)
    PROVE  LocalHeadInv'
  BY DEF LocalHeadInv, TypeOK, Stands, Heads, Locked, Compared, Call, Goto

(* A name of a temporary file is a process id and a number.                *)
LEMMA TempNameType ==
    ASSUME TypeOK, NEW w \in Writes
    PROVE  TempName(w) \in {PidOf[p] : p \in Processes} \X Nat
  BY LocalHeadAssumption DEF TypeOK, TempName

(* Each step of a write keeps the types.                                   *)
LEMMA StepTypes ==
    ASSUME LocalHeadInv, NEW w \in Writes, Step(w)
    PROVE  TypeOK'
<1> USE LocalHeadAssumption DEF LocalHeadInv, TypeOK, Goto, Return, Fails
<1>1. CASE Lock(w)           BY <1>1 DEF Lock, Heads
<1>2. CASE LockFails(w)      BY <1>2 DEF LockFails, Heads
<1>3. CASE Check(w)          BY <1>3 DEF Check, Heads
<1>4. CASE ReturnConflict(w) BY <1>4 DEF ReturnConflict, Heads
<1>5. CASE CreateTemp(w)
  <2>1. \A t \in DOMAIN temps' : temps'[t] \in Heads \cup {Partial}
    BY <1>5 DEF CreateTemp, Put
  <2>2. temp' \in [Writes -> {NoTemp} \cup ({PidOf[p] : p \in Processes} \X Nat)]
    BY <1>5, TempNameType DEF CreateTemp
  <2>3. counter' \in [Processes -> Nat]
    BY <1>5 DEF CreateTemp
  <2> QED BY <1>5, <2>1, <2>2, <2>3 DEF CreateTemp, Heads
<1>6. CASE WriteTemp(w)      BY <1>6 DEF WriteTemp, Put, Heads
<1>7. CASE Rename(w)
  <2>1. temps[temp[w]] = Value[w]
    BY <1>7 DEF Rename, Stands
  <2> QED BY <1>7, <2>1 DEF Rename, Restrict, Heads
<1>8. CASE RenameFails(w)    BY <1>8 DEF RenameFails, Heads
<1>9. CASE SyncDirectory(w)  BY <1>9 DEF SyncDirectory, Heads
<1> QED
  BY <1>1, <1>2, <1>3, <1>4, <1>5, <1>6, <1>7, <1>8, <1>9 DEF Step, Progress

(* Each step of a write keeps where every write stands: nobody else is in  *)
(* the locked part when this one is.                                       *)
LEMMA StepStands ==
    ASSUME LocalHeadInv, NEW w \in Writes, Step(w)
    PROVE  Stands'
<1>1. TypeOK' BY StepTypes
<1> USE LocalHeadAssumption
    DEF LocalHeadInv, TypeOK, Stands, Locked, Compared, Goto, Return, Fails
<1>2. CASE Lock(w)           BY <1>1, <1>2 DEF Lock, Nobody
<1>3. CASE LockFails(w)      BY <1>1, <1>3 DEF LockFails, Nobody
<1>4. CASE Check(w)          BY <1>1, <1>4 DEF Check, Nobody
<1>5. CASE ReturnConflict(w) BY <1>1, <1>5 DEF ReturnConflict, Nobody
<1>6. CASE CreateTemp(w)     BY <1>1, <1>6 DEF CreateTemp, Put, Nobody
<1>7. CASE WriteTemp(w)      BY <1>1, <1>7 DEF WriteTemp, Put, Nobody
<1>8. CASE Rename(w)         BY <1>1, <1>8 DEF Rename, Nobody
<1>9. CASE RenameFails(w)    BY <1>1, <1>9 DEF RenameFails, Nobody
<1>10. CASE SyncDirectory(w) BY <1>1, <1>10 DEF SyncDirectory, Nobody
<1> QED
  BY <1>2, <1>3, <1>4, <1>5, <1>6, <1>7, <1>8, <1>9, <1>10 DEF Step, Progress

(* The death of a process keeps the invariant: the lock it frees is one    *)
(* that no surviving write holds.                                          *)
LEMMA CrashStep ==
    ASSUME LocalHeadInv, NEW p \in Processes, Crash(p)
    PROVE  LocalHeadInv'
<1> DEFINE dead == {w \in Writes : ProcessOf[w] = p}
<1>1. /\ pc' = [w \in Writes |->
                   IF w \in dead /\ pc[w] # "returned" THEN "dead" ELSE pc[w]]
      /\ lock' = IF lock \in dead THEN Nobody ELSE lock
      /\ UNCHANGED <<head, temps, counter, temp, answer, fate>>
  BY DEF Crash
<1> HIDE DEF dead
<1>2. TypeOK'
  BY <1>1 DEF LocalHeadInv, TypeOK, Heads
<1>3. \A w \in Writes : pc'[w] = pc[w] \/ (pc[w] # "returned" /\ pc'[w] = "dead")
  BY <1>1
<1>4. \A w \in Writes : Locked(w)' => Locked(w) /\ lock' = lock
  <2> SUFFICES ASSUME NEW w \in Writes, Locked(w)'
               PROVE  Locked(w) /\ lock' = lock
    OBVIOUS
  <2>1. Locked(w) BY <1>3 DEF Locked
  <2>2. lock = w  BY <2>1 DEF LocalHeadInv, Stands
  <2>3. w \notin dead BY <1>1 DEF Locked
  <2> QED BY <2>1, <2>2, <2>3, <1>1
<1>5. Stands'
  BY <1>1, <1>3, <1>4 DEF LocalHeadInv, Stands, Locked, Compared
<1> QED BY <1>2, <1>5 DEF LocalHeadInv

(* The invariant is inductive.                                             *)
LEMMA InvNext == LocalHeadInv /\ [Next]_vars => LocalHeadInv'
<1> SUFFICES ASSUME LocalHeadInv, [Next]_vars PROVE LocalHeadInv'
  OBVIOUS
<1>1. ASSUME NEW w \in Writes, Call(w) PROVE LocalHeadInv'
  BY <1>1, CallStep
<1>2. ASSUME NEW w \in Writes, Step(w) PROVE LocalHeadInv'
  BY <1>2, StepTypes, StepStands DEF LocalHeadInv
<1>3. ASSUME NEW p \in Processes, Crash(p) PROVE LocalHeadInv'
  BY <1>3, CrashStep
<1>4. CASE UNCHANGED vars
  BY <1>4 DEF vars, LocalHeadInv, TypeOK, Stands, Heads, Locked, Compared
<1> QED BY <1>1, <1>2, <1>3, <1>4 DEF Next

(* HEAD is always what some writer wrote in full, and every write is where *)
(* its lock, its file and its fate say it is.                              *)
THEOREM HeadNeverPartial == Spec => [](TypeOK /\ Stands)
<1>1. LocalHeadInv => TypeOK /\ Stands
  BY DEF LocalHeadInv
<1> QED BY <1>1, InvInit, InvNext, PTL DEF Spec

(* When asking whether HEAD exists does not fail, each step of a write is  *)
(* a step of the register or leaves it alone.                              *)
LEMMA StepSimulates ==
    ASSUME LocalHeadInv, ~StatMayFail, NEW w \in Writes, Step(w)
    PROVE  [Promise!Next]_Promise!vars
<1> USE DEF LocalHeadInv, TypeOK, Stands, Locked, Compared, Promise!vars
<1> DEFINE Answered(a) ==
        /\ answer' = [answer EXCEPT ![w] = a]
        /\ UNCHANGED <<head, fate>>
<1>a. ASSUME fate[w] # "unsent", pc[w] # "returned", Answered("Indeterminate")
      PROVE  Promise!Next
  BY <1>a DEF Promise!Next, Promise!AnswerIndeterminate, Promise!Answer
<1>1. CASE Lock(w)
  BY <1>1 DEF Lock
<1>2. CASE LockFails(w)
  BY <1>2, <1>a DEF LockFails, Fails, Return
<1>3. CASE Check(w)
  <2>1. CASE head # Expected[w] /\ fate' = [fate EXCEPT ![w] = "refused"]
             /\ UNCHANGED <<head, answer>>
    BY <2>1, <1>3 DEF Check, Promise!Next, Promise!Refuse
  <2>2. CASE UNCHANGED <<head, answer, fate>>
    BY <2>2
  <2>3. CASE Fails(w) /\ UNCHANGED <<head, fate>>
    BY <2>3, <1>3, <1>a DEF Check, Fails, Return
  <2> QED BY <1>3, <2>1, <2>2, <2>3 DEF Check, Goto
<1>4. CASE ReturnConflict(w)
  BY <1>4 DEF ReturnConflict, Return, Promise!Next, Promise!AnswerConflict, Promise!Answer
<1>5. CASE CreateTemp(w)
  BY <1>5, <1>a DEF CreateTemp, Goto, Fails, Return
<1>6. CASE WriteTemp(w)
  BY <1>6, <1>a DEF WriteTemp, Goto, Fails, Return
<1>7. CASE Rename(w)
  BY <1>7 DEF Rename, Goto, Promise!Next, Promise!TakeEffect
<1>8. CASE RenameFails(w)
  BY <1>8, <1>a DEF RenameFails, Fails, Return
<1>9. CASE SyncDirectory(w)
  <2>1. CASE Return(w, "Applied")
    BY <2>1, <1>9 DEF SyncDirectory, Return, Promise!Next, Promise!AnswerApplied,
                      Promise!Answer
  <2>2. CASE Fails(w)
    BY <2>2, <1>9, <1>a DEF SyncDirectory, Fails, Return
  <2> QED BY <1>9, <2>1, <2>2 DEF SyncDirectory
<1> QED
  BY <1>1, <1>2, <1>3, <1>4, <1>5, <1>6, <1>7, <1>8, <1>9 DEF Step, Progress

(* LocalObjectStore implements ConditionalHead when asking whether HEAD    *)
(* exists does not fail: lock, comparison, temporary file and rename are   *)
(* together one atomic conditional write, and its answers are true.        *)
THEOREM LocalHeadRefinement ==
    ASSUME ~StatMayFail
    PROVE  Spec => ImplementsConditionalHead
<1>1. Init => Promise!Init
  BY DEF Init, Promise!Init
<1>2. LocalHeadInv /\ [Next]_vars => [Promise!Next]_Promise!vars
  <2> SUFFICES ASSUME LocalHeadInv, [Next]_vars
               PROVE  [Promise!Next]_Promise!vars
    OBVIOUS
  <2>1. ASSUME NEW w \in Writes, Call(w) PROVE Promise!Next
    BY <2>1 DEF LocalHeadInv, Stands, Call, Goto, Promise!Next, Promise!Send
  <2>2. ASSUME NEW w \in Writes, Step(w) PROVE [Promise!Next]_Promise!vars
    BY <2>2, StepSimulates
  <2>3. ASSUME NEW p \in Processes, Crash(p) PROVE UNCHANGED Promise!vars
    BY <2>3 DEF Crash, Promise!vars
  <2>4. CASE UNCHANGED vars
    BY <2>4 DEF vars, Promise!vars
  <2> QED BY <2>1, <2>2, <2>3, <2>4 DEF Next
<1> QED
  BY <1>1, <1>2, InvInit, InvNext, PTL DEF Spec, Promise!Spec, ImplementsConditionalHead
=============================================================================
