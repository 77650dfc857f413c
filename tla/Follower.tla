---- MODULE Follower ----
(***************************************************************************)
(* What an observer may rely on that is told of changes late: what it      *)
(* shows was the truth at some time, never comes before it was, and never  *)
(* goes back to what was true earlier. The truth only grows.               *)
(***************************************************************************)
EXTENDS Naturals

VARIABLES truth, shown

vars == <<truth, shown>>

Init == truth = 0 /\ shown = 0

Happen == truth' \in Nat /\ truth' > truth /\ UNCHANGED shown

\* Not every truth need be shown.
Show == shown' \in shown + 1 .. truth /\ UNCHANGED truth

Next == Happen \/ Show

Spec == Init /\ [][Next]_vars
====
