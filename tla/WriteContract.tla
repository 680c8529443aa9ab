--------------------------- MODULE WriteContract ---------------------------
(***************************************************************************)
(* What the write path promises to a caller that enqueued a task and polls *)
(* task_status:<task_id>, whatever happens to the writer in between: the   *)
(* effect of a task is applied at most once and is never undone, and       *)
(* "success" is only ever shown for a task that was applied.  "failed" is  *)
(* promised nothing about: the queue is at-least-once and a later delivery *)
(* of an applied task may be reported as failed.                           *)
(***************************************************************************)
CONSTANT Task

VARIABLES
    applied,   \* the tasks whose effect is in the database
    shown      \* what a poll of task_status returns

contractVars == <<applied, shown>>

Init ==
    /\ applied = {}
    /\ shown = [t \in Task |-> "none"]

\* The transaction of t commits.
Apply(t) ==
    /\ t \notin applied
    /\ applied' = applied \cup {t}
    /\ UNCHANGED shown

ShowSuccess(t) ==
    /\ t \in applied
    /\ shown' = [shown EXCEPT ![t] = "success"]
    /\ UNCHANGED applied

ShowFailed(t) ==
    /\ shown' = [shown EXCEPT ![t] = "failed"]
    /\ UNCHANGED applied

\* The key expires.
Forget(t) ==
    /\ shown' = [shown EXCEPT ![t] = "none"]
    /\ UNCHANGED applied

Next == \E t \in Task : Apply(t) \/ ShowSuccess(t) \/ ShowFailed(t) \/ Forget(t)

Spec == Init /\ [][Next]_contractVars
=============================================================================
