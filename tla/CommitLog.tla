------------------------------ MODULE CommitLog ------------------------------
(***************************************************************************)
(* What publishing to an OTMP table promises its callers, without any of   *)
(* the machinery that delivers it.                                         *)
(*                                                                         *)
(* The table is a log of committed intents.  A call carries an idempotency *)
(* key and an intent; it is answered at most once, and its answer says     *)
(* what the log holds for the key:                                         *)
(*   "done"     the log holds this intent under this key;                  *)
(*   "refused"  this call has not committed and never will;                *)
(*   "unknown"  it may have committed and may still do so.                 *)
(* A call whose process dies stays "open" for ever.                        *)
(***************************************************************************)
EXTENDS Naturals, Sequences

CONSTANTS Calls,      \* the calls made by every client of the table
          KeyOf,      \* call -> idempotency key
          IntentOf    \* call -> hash of the logical intent

VARIABLES log,        \* committed rows, oldest first
          answer      \* call -> what its caller has been told

vars == <<log, answer>>

Answers == {"open", "done", "refused", "unknown"}

Holds(l, key) == \E i \in 1..Len(l) : l[i].key = key

HoldsIntent(l, c) ==
    \E i \in 1..Len(l) : l[i].key = KeyOf[c] /\ l[i].intent = IntentOf[c]

HoldsOwn(l, c) == \E i \in 1..Len(l) : l[i].call = c

RowOf(c) == [call |-> c, key |-> KeyOf[c], intent |-> IntentOf[c]]

Init ==
    /\ log = <<>>
    /\ answer = [c \in Calls |-> "open"]

(* A key is used once, and never on behalf of a call that was told no.     *)
Extend(c) ==
    /\ answer[c] \in {"open", "unknown"}
    /\ ~Holds(log, KeyOf[c])
    /\ log' = Append(log, RowOf(c))

Commit(c) == Extend(c) /\ UNCHANGED answer

CommitAndAnswer(c) ==
    /\ answer[c] = "open"
    /\ Extend(c)
    /\ answer' = [answer EXCEPT ![c] = "done"]

AnswerDone(c) ==
    /\ answer[c] = "open"
    /\ HoldsIntent(log, c)
    /\ answer' = [answer EXCEPT ![c] = "done"]
    /\ UNCHANGED log

AnswerRefused(c) ==
    /\ answer[c] = "open"
    /\ ~HoldsOwn(log, c)
    /\ answer' = [answer EXCEPT ![c] = "refused"]
    /\ UNCHANGED log

AnswerUnknown(c) ==
    /\ answer[c] = "open"
    /\ answer' = [answer EXCEPT ![c] = "unknown"]
    /\ UNCHANGED log

Next ==
    \E c \in Calls :
        \/ Commit(c)
        \/ CommitAndAnswer(c)
        \/ AnswerDone(c)
        \/ AnswerRefused(c)
        \/ AnswerUnknown(c)

Spec == Init /\ [][Next]_vars
=============================================================================
