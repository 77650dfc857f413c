---- MODULE Await ----
(***************************************************************************)
(* What a caller may rely on when it awaits a value of a publisher: it is  *)
(* told that the value came only if it did, and that it will never come    *)
(* only if the publisher is over without it or the wait was cancelled; it  *)
(* may be told at any time that its patience is exhausted. It is told once.*)
(***************************************************************************)
VARIABLES
    came,       \* the publisher has shown a wanted value
    over,       \* how the publisher ended: "no", "finished", "failed"
    cancelled,  \* the caller's task has been cancelled
    outcome     \* what the caller has been told

vars == <<came, over, cancelled, outcome>>

Init == came = FALSE /\ over = "no" /\ cancelled = FALSE /\ outcome = "none"

Come == over = "no" /\ came' = TRUE /\ UNCHANGED <<over, cancelled, outcome>>

End == /\ over = "no"
       /\ over' \in {"finished", "failed"}
       /\ UNCHANGED <<came, cancelled, outcome>>

Cancel == cancelled' = TRUE /\ UNCHANGED <<came, over, outcome>>

Tell(o) ==
    /\ outcome = "none"
    /\ outcome' = o
    /\ UNCHANGED <<came, over, cancelled>>

Return == came /\ Tell("returned")

TimeOut == Tell("timedOut")

WrongValue == (cancelled \/ (over = "finished" /\ ~came)) /\ Tell("wrongValue")

Fail == over = "failed" /\ ~came /\ Tell("failed")

BeCancelled == cancelled /\ Tell("cancelled")

Next == Come \/ End \/ Cancel \/ Return \/ TimeOut \/ WrongValue \/ Fail
        \/ BeCancelled

Spec == Init /\ [][Next]_vars
====
