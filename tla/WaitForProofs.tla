---- MODULE WaitForProofs ----
(***************************************************************************)
(* waitFor implements Await, for any number of published values.           *)
(***************************************************************************)
EXTENDS WaitFor, TLAPS

LEMMA InitSound == Init => DecisionIsSound
<1> SUFFICES ASSUME Init PROVE DecisionIsSound
    OBVIOUS
<1>1. TypeOK
    <2>1. /\ child \in [Child -> {"off", "running"} \cup Ending]
          /\ child["timer"] = "off" /\ child["reader"] = "off"
        BY DEF Init, Child
    <2>2. sent \in Seq(BOOLEAN) /\ read \in Nat /\ read <= Len(sent)
        BY DEF Init
    <2>3. cancelled \in BOOLEAN
        BY Zenon DEF Init
    <2>4. phase = "idle" /\ first = "none" /\ stream = "off" /\ shown \in BOOLEAN
        BY DEF Init
    <2> QED
        BY <2>1, <2>2, <2>3, <2>4 DEF TypeOK
<1>2. StartedInOrder
    BY DEF Init, StartedInOrder, Child
<1>3. FirstHasEnded
    BY DEF Init, FirstHasEnded
<1>4. NothingMissed
    BY DEF Init, NothingMissed
<1>5. VerdictIsTrue
    BY DEF Init, VerdictIsTrue, Child
<1> QED
    BY <1>1, <1>2, <1>3, <1>4, <1>5 DEF DecisionIsSound

\* A value that has come stays come when more are published.
LEMMA CameStays ==
    ASSUME TypeOK, NEW v \in BOOLEAN, sent' = Append(sent, v)
    PROVE  /\ sent' \in Seq(BOOLEAN)
           /\ Len(sent') = Len(sent) + 1
           /\ \A i \in 1..Len(sent) : sent'[i] = sent[i]
           /\ Came => Came'
BY DEF TypeOK, Came

\* The end of a child keeps the invariant if its verdict is a true one.
LEMMA ChildEnds ==
    ASSUME DecisionIsSound, NEW c \in Child, NEW how \in Ending,
           EndChild(c, how), stream' = stream, sent' = sent,
           read' \in Nat, read' >= read, read' <= Len(sent),
           c = "timer" => how \in {"timedOut", "cancelled"} /\ read' = read,
           c = "reader" => how \in {"returned", "wrongValue", "failed"},
           how = "returned" => Came,
           how # "returned" => \A i \in 1..read' : sent[i] => i \in 1..read,
           how = "failed" => stream = "failed" /\ ~Came,
           how = "wrongValue" /\ first = "none" =>
               cancelled \/ (stream = "finished" /\ ~Came),
           how = "cancelled" /\ first = "none" => cancelled
    PROVE  DecisionIsSound'
<1> USE DEF DecisionIsSound, Child
<1>1. TypeOK'
    BY DEF TypeOK, EndChild, Ending
<1>2. StartedInOrder'
    BY DEF StartedInOrder, TypeOK, EndChild
<1>3. FirstHasEnded'
    BY DEF FirstHasEnded, TypeOK, EndChild, Ending
<1>4. NothingMissed'
    BY DEF NothingMissed, TypeOK, EndChild, Ending
<1>5. VerdictIsTrue'
    BY DEF VerdictIsTrue, FirstHasEnded, TypeOK, EndChild, Ending, Came
<1> QED
    BY <1>1, <1>2, <1>3, <1>4, <1>5

LEMMA StepSound == DecisionIsSound /\ [Next]_vars => DecisionIsSound'
<1> SUFFICES ASSUME DecisionIsSound, [Next]_vars PROVE DecisionIsSound'
    OBVIOUS
<1>t. TypeOK
    BY DEF DecisionIsSound
<1>1. ASSUME NEW v \in BOOLEAN, Publish(v) PROVE DecisionIsSound'
    <2>1. CASE stream # "open"
        BY <1>1, <2>1 DEF Publish, callVars, DecisionIsSound, TypeOK, Came,
           StartedInOrder, FirstHasEnded, NothingMissed, VerdictIsTrue
    <2>2. CASE stream = "open"
        <3>1. sent' = Append(sent, v)
            BY <1>1, <2>2 DEF Publish
        <3>2. /\ sent' \in Seq(BOOLEAN)
              /\ Len(sent') = Len(sent) + 1
              /\ \A i \in 1..Len(sent) : sent'[i] = sent[i]
              /\ Came => Came'
            BY <3>1, <1>t, CameStays
        <3>3. \A i \in 1..read : sent'[i] = sent[i]
            BY <3>2, <1>t DEF TypeOK
        <3> QED
            BY <1>1, <2>2, <3>2, <3>3 DEF Publish, callVars, DecisionIsSound, TypeOK,
               StartedInOrder, FirstHasEnded, NothingMissed, VerdictIsTrue
    <2> QED
        BY <2>1, <2>2
<1>2. ASSUME NEW how \in {"finished", "failed"}, Complete(how)
      PROVE  DecisionIsSound'
    BY <1>2 DEF Complete, callVars, DecisionIsSound, TypeOK, Came,
       StartedInOrder, FirstHasEnded, NothingMissed, VerdictIsTrue
<1>3. CASE Cancel
    BY <1>3 DEF Cancel, callVars, streamVars, DecisionIsSound, TypeOK, Came,
       StartedInOrder, FirstHasEnded, NothingMissed, VerdictIsTrue
<1>4. CASE Start
    BY <1>4 DEF Start, streamVars, DecisionIsSound, TypeOK, Came, Child, Ending,
       StartedInOrder, FirstHasEnded, NothingMissed, VerdictIsTrue
<1>5. CASE Subscribe
    BY <1>5 DEF Subscribe, DecisionIsSound, TypeOK, Came, Child, Ending,
       StartedInOrder, FirstHasEnded, NothingMissed, VerdictIsTrue
<1>6. CASE GroupNext
    BY <1>6 DEF GroupNext, streamVars, DecisionIsSound, TypeOK, Came,
       StartedInOrder, FirstHasEnded, NothingMissed, VerdictIsTrue
<1>7. CASE Leave
    BY <1>7 DEF Leave, DecisionIsSound, TypeOK, Came, Child,
       StartedInOrder, FirstHasEnded, NothingMissed, VerdictIsTrue
<1>8. CASE TimerFires
    BY <1>8, ChildEnds DEF TimerFires, streamVars, DecisionIsSound, TypeOK,
       Child, Ending
<1>9. CASE TimerCancelled
    BY <1>9, ChildEnds DEF TimerCancelled, Cancelling, FirstHasEnded, streamVars, DecisionIsSound, TypeOK,
       Child, Ending
<1>10. CASE ReaderTakes
    <2>1. CASE sent[read + 1]
        BY <1>10, <2>1, ChildEnds DEF ReaderTakes, DecisionIsSound, TypeOK,
           Child, Ending, Came
    <2>2. CASE ~sent[read + 1]
        BY <1>10, <2>2 DEF ReaderTakes, callVars, DecisionIsSound, TypeOK, Came,
           StartedInOrder, FirstHasEnded, NothingMissed, VerdictIsTrue
    <2> QED
        BY <2>1, <2>2
<1>11. CASE StreamDropped
    BY <1>11 DEF StreamDropped, Cancelling, callVars, DecisionIsSound, TypeOK, Came,
       StartedInOrder, FirstHasEnded, NothingMissed, VerdictIsTrue
<1>12. CASE ReaderEnds
    <2>1. child["reader"] = "running"
        BY <1>12 DEF ReaderEnds, EndChild
    <2>2. ~Came
        BY <1>12, <2>1 DEF ReaderEnds, DecisionIsSound, NothingMissed, Came
    <2>3. CASE EndChild("reader", "failed") /\ stream = "failed"
        BY <1>12, <2>2, <2>3, ChildEnds DEF ReaderEnds, streamVars,
           DecisionIsSound, TypeOK, Child, Ending
    <2>4. CASE EndChild("reader", "wrongValue") /\ stream \in {"finished", "dropped"}
        BY <1>12, <2>2, <2>4, ChildEnds DEF ReaderEnds, streamVars,
           DecisionIsSound, TypeOK, VerdictIsTrue, Child, Ending
    <2> QED
        BY <1>12, <2>3, <2>4 DEF ReaderEnds
<1>13. CASE UNCHANGED vars
    BY <1>13 DEF vars, callVars, streamVars, DecisionIsSound, TypeOK, Came,
       StartedInOrder, FirstHasEnded, NothingMissed, VerdictIsTrue
<1> QED
    BY <1>1, <1>2, <1>3, <1>4, <1>5, <1>6, <1>7, <1>8, <1>9, <1>10, <1>11,
       <1>12, <1>13 DEF Next, CallStep, ReaderStep

\* The reader passes over no wanted value and a deciding verdict is true
\* (Util.swift 108-114), after every step of every behaviour.
THEOREM DecisionsAreSound == Spec => []DecisionIsSound
BY InitSound, StepSound, PTL DEF Spec

----------------------------------------------------------------------------

LEMMA InitMaps == Init => Caller!Init
BY DEF Init, Caller!Init, Came, Told

\* A step that neither yields, completes, cancels nor leaves is invisible.
LEMMA Invisible ==
    ASSUME UNCHANGED <<stream, sent, cancelled>>,
           phase' = "done" <=> phase = "done",
           phase = "done" => UNCHANGED <<child, first>>
    PROVE  UNCHANGED Caller!vars
BY DEF Caller!vars, Came, Told

LEMMA StepMaps ==
    DecisionIsSound /\ [Next]_vars => [Caller!Next]_(Caller!vars)
<1> SUFFICES ASSUME DecisionIsSound, [Next]_vars
             PROVE  Caller!Next \/ UNCHANGED Caller!vars
    OBVIOUS
<1>t. TypeOK
    BY DEF DecisionIsSound
<1>d. phase = "done" => child["timer"] # "running" /\ child["reader"] # "running"
    BY DEF DecisionIsSound, FirstHasEnded, Child, Ending
<1>1. ASSUME NEW v \in BOOLEAN, Publish(v)
      PROVE  Caller!Next \/ UNCHANGED Caller!vars
    <2>1. CASE stream # "open"
        BY <1>1, <2>1, Invisible DEF Publish, callVars
    <2>2. CASE stream = "open"
        <3>1. Came => Came'
            BY <1>1, <2>2, <1>t, CameStays DEF Publish
        <3>2. Came' \in BOOLEAN /\ Came \in BOOLEAN
            BY DEF Came
        <3>3. CASE Came' = Came
            BY <1>1, <3>3 DEF Publish, callVars, Caller!vars, Told
        <3>4. CASE Came' = TRUE
            <4>1. Caller!Come
                BY <1>1, <2>2, <3>4 DEF Publish, callVars, Caller!Come, Told
            <4> QED
                BY <4>1 DEF Caller!Next
        <3> QED
            BY <3>1, <3>2, <3>3, <3>4
    <2> QED
        BY <2>1, <2>2
<1>2. ASSUME NEW how \in {"finished", "failed"}, Complete(how)
      PROVE  Caller!Next \/ UNCHANGED Caller!vars
    <2>1. Caller!End
        BY <1>2 DEF Complete, callVars, Caller!End, Came, Told
    <2> QED
        BY <2>1 DEF Caller!Next
<1>3. CASE Cancel
    <2>1. Caller!Cancel
        BY <1>3 DEF Cancel, callVars, streamVars, Caller!Cancel, Came, Told
    <2> QED
        BY <2>1 DEF Caller!Next
<1>4. CASE Start
    BY <1>4, Invisible DEF Start, streamVars
<1>5. CASE Subscribe
    <2>1. ~Came /\ stream = "off" /\ phase # "done" /\ phase' # "done"
        BY <1>5 DEF Subscribe, DecisionIsSound, StartedInOrder, Came
    <2>2. Came' = TRUE \/ Came' = FALSE
        BY DEF Came
    <2>3. CASE Came' = TRUE
        <3>1. Caller!Come
            BY <1>5, <2>1, <2>3 DEF Subscribe, Caller!Come, Told
        <3> QED
            BY <3>1 DEF Caller!Next
    <2>4. CASE Came' = FALSE
        <3>1. Came' = Came
            BY <2>1, <2>4 DEF Came
        <3> QED
            BY <1>5, <2>1, <3>1 DEF Subscribe, Caller!vars, Told
    <2> QED
        BY <2>2, <2>3, <2>4
<1>6. CASE GroupNext
    BY <1>6, Invisible DEF GroupNext, streamVars
<1>7. CASE Leave
    <2>1. /\ Told = "none" /\ Told' = child[first]
          /\ Came' = Came
          /\ (IF stream \in {"finished", "failed"} THEN stream ELSE "no")'
                = IF stream \in {"finished", "failed"} THEN stream ELSE "no"
          /\ cancelled' = cancelled
        BY <1>7 DEF Leave, Told, Came
    <2>2. first \in Child /\ child[first] \in Ending
        BY <1>7, <1>t DEF Leave, DecisionIsSound, FirstHasEnded, TypeOK
    <2>3. CASE child[first] = "returned"
        <3>1. Came
            BY <2>2, <2>3, <1>t DEF DecisionIsSound, VerdictIsTrue, TypeOK, Child
        <3> QED
            BY <2>1, <2>3, <3>1 DEF Caller!Next, Caller!Return, Caller!Tell
    <2>4. CASE child[first] = "timedOut"
        BY <2>1, <2>4 DEF Caller!Next, Caller!TimeOut, Caller!Tell
    <2>5. CASE child[first] = "wrongValue"
        <3>1. cancelled \/ (stream = "finished" /\ ~Came)
            BY <2>2, <2>5, <1>t DEF DecisionIsSound, VerdictIsTrue, TypeOK, Child
        <3> QED
            BY <2>1, <2>5, <3>1 DEF Caller!Next, Caller!WrongValue, Caller!Tell
    <2>6. CASE child[first] = "failed"
        <3>1. stream = "failed" /\ ~Came
            BY <2>2, <2>6, <1>t DEF DecisionIsSound, VerdictIsTrue, TypeOK, Child
        <3> QED
            BY <2>1, <2>6, <3>1 DEF Caller!Next, Caller!Fail, Caller!Tell
    <2>7. CASE child[first] = "cancelled"
        <3>1. cancelled
            BY <2>2, <2>7, <1>t DEF DecisionIsSound, VerdictIsTrue, TypeOK, Child
        <3> QED
            BY <2>1, <2>7, <3>1 DEF Caller!Next, Caller!BeCancelled, Caller!Tell
    <2> QED
        BY <2>2, <2>3, <2>4, <2>5, <2>6, <2>7 DEF Ending
<1>8. CASE TimerFires
    BY <1>8, <1>d, Invisible DEF TimerFires, EndChild, streamVars
<1>9. CASE TimerCancelled
    BY <1>9, <1>d, Invisible DEF TimerCancelled, EndChild, streamVars
<1>10. CASE ReaderTakes
    BY <1>10, <1>d, Invisible DEF ReaderTakes, EndChild, callVars
<1>11. CASE StreamDropped
    BY <1>11 DEF StreamDropped, callVars, Caller!vars, Came, Told
<1>12. CASE ReaderEnds
    BY <1>12, <1>d, Invisible DEF ReaderEnds, EndChild, streamVars
<1>13. CASE UNCHANGED vars
    BY <1>13, Invisible DEF vars, callVars, streamVars
<1> QED
    BY <1>1, <1>2, <1>3, <1>4, <1>5, <1>6, <1>7, <1>8, <1>9, <1>10, <1>11,
       <1>12, <1>13 DEF Next, CallStep, ReaderStep

\* waitFor implements Await: whatever the interleaving of publisher, timer,
\* reader and cancellation, the caller is told only what is so.
THEOREM WaitForKeepsPromise == Spec => KeepsPromise
BY DecisionsAreSound, InitMaps, StepMaps, PTL DEF Spec, KeepsPromise, Caller!Spec
====
