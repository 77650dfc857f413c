---- MODULE WaitFor ----
(***************************************************************************)
(* Publisher.waitFor (Util.swift): a task group of two children, a timer   *)
(* and a task that reads the publisher through an unbounded stream; the    *)
(* first to end decides, the other is cancelled and awaited.               *)
(*                                                                         *)
(* Of a published value only its truth under the predicate is kept. The    *)
(* publisher, the stream and the task group behave as OpenCombine and the  *)
(* Swift runtime document them: a sink gets the current value at once, a   *)
(* stream that is terminated still hands out what it has buffered.         *)
(***************************************************************************)
EXTENDS Naturals, Sequences

CONSTANT MaxPublished   \* bound: values that reach the stream

ASSUME BoundAssumption == MaxPublished \in Nat \ {0}

Child == {"timer", "reader"}
Ending == {"returned", "timedOut", "wrongValue", "failed", "cancelled"}

VARIABLES
    phase,      \* the caller: "idle", "started", "awaiting", "leaving", "done"
    child,      \* child task -> "off", "running", or how it ended
    first,      \* the child that ended first, or "none"
    cancelled,  \* the caller's task has been cancelled
    shown,      \* the predicate's verdict on the publisher's current value
    stream,     \* "off", "open", "finished", "failed", "dropped"
    sent,       \* verdicts on the values yielded to the stream
    read        \* how many of them the reader has taken

callVars == <<phase, child, first>>
streamVars == <<stream, sent, read>>
vars == <<callVars, cancelled, shown, streamVars>>

TypeOK ==
    /\ phase \in {"idle", "started", "awaiting", "leaving", "done"}
    /\ child \in [Child -> {"off", "running"} \cup Ending]
    /\ child["timer"] \notin {"returned", "wrongValue", "failed"}
    /\ child["reader"] \notin {"timedOut", "cancelled"}
    /\ first \in Child \cup {"none"}
    /\ cancelled \in BOOLEAN
    /\ shown \in BOOLEAN
    /\ stream \in {"off", "open", "finished", "failed", "dropped"}
    /\ sent \in Seq(BOOLEAN)
    /\ read \in Nat
    /\ read <= Len(sent)

Init ==
    /\ phase = "idle"
    /\ child = [c \in Child |-> "off"]
    /\ first = "none"
    /\ cancelled = FALSE
    /\ shown \in BOOLEAN
    /\ stream = "off"
    /\ sent = <<>>
    /\ read = 0

----------------------------------------------------------------------------
\* The publisher, on any thread.

Publish(v) ==
    /\ shown' = v
    /\ IF stream = "open"
       THEN Len(sent) < MaxPublished /\ sent' = Append(sent, v)
       ELSE UNCHANGED sent
    /\ UNCHANGED <<callVars, cancelled, stream, read>>

Complete(how) ==
    /\ stream = "open"
    /\ stream' = how
    /\ UNCHANGED <<callVars, cancelled, shown, sent, read>>

----------------------------------------------------------------------------
\* The caller's task.

Start ==
    /\ phase = "idle"
    /\ phase' = "started"
    /\ child' = [child EXCEPT !["timer"] = "running"]
    /\ UNCHANGED <<first, cancelled, shown, streamVars>>

\* asyncStream() subscribes here, before the reader runs.
Subscribe ==
    /\ phase = "started"
    /\ phase' = "awaiting"
    /\ stream' = "open"
    /\ sent' = <<shown>>
    /\ child' = [child EXCEPT !["reader"] = "running"]
    /\ UNCHANGED <<first, cancelled, shown, read>>

Cancel ==
    /\ phase # "done"
    /\ cancelled' = TRUE
    /\ UNCHANGED <<callVars, shown, streamVars>>

\* group.next() has a child, and cancelAll() follows, or the throw out of
\* the group, which cancels the same way.
GroupNext ==
    /\ phase = "awaiting"
    /\ first # "none"
    /\ phase' = "leaving"
    /\ UNCHANGED <<child, first, cancelled, shown, streamVars>>

\* The group awaits its children; the stream's last reference goes with it.
Leave ==
    /\ phase = "leaving"
    /\ \A c \in Child : child[c] # "running"
    /\ phase' = "done"
    /\ stream' = IF stream = "open" THEN "dropped" ELSE stream
    /\ UNCHANGED <<child, first, cancelled, shown, sent, read>>

----------------------------------------------------------------------------
\* The children.

CancellingCallerOnly == cancelled   \* mutant
Cancelling == cancelled \/ phase = "leaving"

EndChild(c, how) ==
    /\ child[c] = "running"
    /\ child' = [child EXCEPT ![c] = how]
    /\ first' = IF first = "none" THEN c ELSE first
    /\ UNCHANGED <<phase, cancelled, shown>>

TimerFires == EndChild("timer", "timedOut") /\ UNCHANGED streamVars

TimerCancelled ==
    /\ Cancelling
    /\ EndChild("timer", "cancelled")
    /\ UNCHANGED streamVars

\* `for try await value in asyncStream where predicate(value) { return }'
ReaderTakesOne ==   \* mutant
    /\ read < Len(sent)
    /\ read' = read + 1
    /\ EndChild("reader", IF sent[read + 1] THEN "returned" ELSE "wrongValue")
    /\ UNCHANGED <<stream, sent>>
ReaderTakes ==
    /\ read < Len(sent)
    /\ read' = read + 1
    /\ IF sent[read + 1]
       THEN EndChild("reader", "returned")
       ELSE /\ child["reader"] = "running"
            /\ UNCHANGED <<callVars, cancelled, shown>>
    /\ UNCHANGED <<stream, sent>>

\* The cancellation handler of the stream unsubscribes and finishes it.
StreamDropped ==
    /\ Cancelling
    /\ stream = "open"
    /\ stream' = "dropped"
    /\ UNCHANGED <<callVars, cancelled, shown, sent, read>>

ReaderEnds ==
    /\ read = Len(sent)
    /\ \/ stream \in {"finished", "dropped"} /\ EndChild("reader", "wrongValue")
       \/ stream = "failed" /\ EndChild("reader", "failed")
    /\ UNCHANGED streamVars

----------------------------------------------------------------------------

CallStep == Start \/ Subscribe \/ GroupNext \/ Leave
ReaderStep == ReaderTakes \/ ReaderEnds
Next ==
    \/ \E v \in BOOLEAN : Publish(v)
    \/ \E how \in {"finished", "failed"} : Complete(how)
    \/ Cancel \/ CallStep
    \/ TimerFires \/ TimerCancelled \/ ReaderStep \/ StreamDropped

\* The tasks are scheduled; nothing is assumed of the publisher nor
\* of how long the timer takes.
Fairness ==
    /\ WF_vars(CallStep)
    /\ WF_vars(ReaderStep)
    /\ WF_vars(StreamDropped)
    /\ WF_vars(TimerCancelled)

Spec == Init /\ [][Next]_vars /\ Fairness

----------------------------------------------------------------------------

Came == \E i \in 1..Len(sent) : sent[i]
Told == IF phase = "done" THEN child[first] ELSE "none"

Caller == INSTANCE Await WITH
    came <- Came,
    over <- IF stream \in {"finished", "failed"} THEN stream ELSE "no",
    outcome <- Told

StartedInOrder ==
    /\ child["timer"] = "off" <=> phase = "idle"
    /\ child["reader"] = "off" <=> phase \in {"idle", "started"}
    /\ child["reader"] = "off" => stream = "off" /\ sent = <<>>
FirstHasEnded ==
    /\ first # "none" => child[first] \in Ending
    /\ phase \in {"leaving", "done"} => first # "none"
    /\ phase = "done" => \A c \in Child : child[c] \in Ending
NothingMissed ==
    child["reader"] # "returned" => \A i \in 1..read : ~sent[i]
VerdictIsTrue ==
    /\ child["reader"] = "returned" => Came
    /\ child["reader"] = "failed" => stream = "failed" /\ ~Came
    /\ child["reader"] = "wrongValue" /\ first = "reader" =>
        cancelled \/ (stream = "finished" /\ ~Came)
    /\ child["timer"] = "cancelled" /\ first = "timer" => cancelled
    /\ stream = "dropped" /\ first = "none" => cancelled

\* Why waitFor keeps its promise: until the reader has found a wanted value
\* it has passed over none (lines 108-111); a verdict that decides the wait
\* was true when it was reached and nothing published later makes it false;
\* only a cancelled caller may be told less.
DecisionIsSound ==
    /\ TypeOK
    /\ StartedInOrder
    /\ FirstHasEnded
    /\ NothingMissed
    /\ VerdictIsTrue

\* waitFor keeps Await's promise: it returns only for a value that came, and
\* gives up as "wrong value" or "failed" only if none came, however values,
\* the end of the publisher, the timer and cancellation are interleaved. A
\* value that came and went between two reads counts (the stream of lines
\* 69-87 is unbounded).
KeepsPromise == Caller!Spec

\* waitFor ends by itself: once a wanted value is published, without the help
\* of its timer (lines 108-115), so that neither a missed value nor a child left
\* running keeps the caller waiting for the timeout; and once the timer has
\* fired, even if the publisher never says anything (lines 102-105, 114-116).
Ends == Came \/ child["timer"] = "timedOut" ~> phase = "done"
====
