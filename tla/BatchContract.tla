--------------------------- MODULE BatchContract ---------------------------
(***************************************************************************)
(* What a BatchStore promises its callers, without saying how it keeps     *)
(* track: a member joins a batch, finishes, and once nobody is left to     *)
(* wait for, everyone who has finished and has not been told about yet is  *)
(* reported in one announcement.  There are no counters, no "announced"    *)
(* bit and no reset: those are the implementations' business.              *)
(***************************************************************************)
CONSTANTS Tasks,    \* task ids
          Batches   \* batch ids

VARIABLES pending,  \* pending[b]: members that joined and have not finished
          owed,     \* owed[b]: members that finished and are not reported yet
          told      \* tasks that some announcement has reported

vars == <<pending, owed, told>>

Init == /\ pending = [b \in Batches |-> {}]
        /\ owed = [b \in Batches |-> {}]
        /\ told = {}

\* register(batch, task)
Join(b, t) ==
    /\ \A c \in Batches : t \notin pending[c] \cup owed[c]
    /\ t \notin told
    /\ pending' = [pending EXCEPT ![b] = @ \cup {t}]
    /\ UNCHANGED <<owed, told>>

\* record_completion_and_maybe_announce(batch, task): not the last one
FinishEarly(b, t) ==
    /\ t \in pending[b]
    /\ pending[b] # {t}
    /\ pending' = [pending EXCEPT ![b] = @ \ {t}]
    /\ owed' = [owed EXCEPT ![b] = @ \cup {t}]
    /\ UNCHANGED told

\* record_completion_and_maybe_announce(batch, task): the last one
FinishLast(b, t) ==
    /\ pending[b] = {t}
    /\ pending' = [pending EXCEPT ![b] = {}]
    /\ owed' = [owed EXCEPT ![b] = {}]
    /\ told' = told \cup owed[b] \cup {t}

Next == \E b \in Batches, t \in Tasks :
           Join(b, t) \/ FinishEarly(b, t) \/ FinishLast(b, t)

Spec == Init /\ [][Next]_vars
=============================================================================
