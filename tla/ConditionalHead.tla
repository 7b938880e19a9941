--------------------------- MODULE ConditionalHead ---------------------------
(***************************************************************************)
(* What an object store promises of HEAD (ConditionalWriteOutcome and the  *)
(* ObjectStore trait in otmp/src/storage.rs): one register that a write    *)
(* replaces only if it holds what the writer expects, in one step.         *)
(*   Applied        the write took effect;                                 *)
(*   Conflict       it did not and never will;                             *)
(*   Indeterminate  it did, or it did not, or it still may.                *)
(***************************************************************************)
CONSTANTS Writes,     \* conditional writes, each sent at most once
          Expected,   \* write -> what HEAD must hold
          Value,      \* write -> what HEAD then holds
          Absent      \* there is no HEAD yet

VARIABLES head, fate, answer

vars == <<head, fate, answer>>

Init ==
    /\ head = Absent
    /\ fate = [w \in Writes |-> "unsent"]
    /\ answer = [w \in Writes |-> "none"]

Send(w) ==
    /\ fate[w] = "unsent"
    /\ fate' = [fate EXCEPT ![w] = "sent"]
    /\ UNCHANGED <<head, answer>>

TakeEffect(w) ==
    /\ fate[w] = "sent"
    /\ head = Expected[w]
    /\ head' = Value[w]
    /\ fate' = [fate EXCEPT ![w] = "effective"]
    /\ UNCHANGED answer

Refuse(w) ==
    /\ fate[w] = "sent"
    /\ head # Expected[w]
    /\ fate' = [fate EXCEPT ![w] = "refused"]
    /\ UNCHANGED <<head, answer>>

Answer(w, a) ==
    /\ answer[w] = "none"
    /\ answer' = [answer EXCEPT ![w] = a]
    /\ UNCHANGED <<head, fate>>

AnswerApplied(w) == fate[w] = "effective" /\ Answer(w, "Applied")

AnswerConflict(w) == fate[w] = "refused" /\ Answer(w, "Conflict")

AnswerIndeterminate(w) == fate[w] # "unsent" /\ Answer(w, "Indeterminate")

Next ==
    \E w \in Writes :
        \/ Send(w) \/ TakeEffect(w) \/ Refuse(w)
        \/ AnswerApplied(w) \/ AnswerConflict(w) \/ AnswerIndeterminate(w)

Spec == Init /\ [][Next]_vars
=============================================================================
