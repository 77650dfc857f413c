---- MODULE ForwardingProofs ----
(***************************************************************************)
(* The safety of MediaForwardingUnit, for any number of packets.           *)
(***************************************************************************)
EXTENDS Forwarding, TLAPS

LEMMA InitInv == Init => ForwardingInv
<1> SUFFICES ASSUME Init PROVE ForwardingInv
    OBVIOUS
<1>1. TypeOK
    <2>1. /\ app = "new" /\ unit = "none" /\ job = "none" /\ egress = "none"
          /\ last \in Nat /\ sent \in Nat
        BY BoundAssumption DEF Init
    <2>2. FlagsOK
        BY Zenon DEF Init, FlagsOK
    <2> QED
        BY <2>1, <2>2 DEF TypeOK, Place
<1>2. job # "send" /\ app # "stopped" /\ egress # "deleted"
    BY DEF Init
<1>3. /\ ~UnitIsReferenced
      /\ ~held /\ ~subscribed /\ ~handler /\ job = "none" /\ ~asking
    BY DEF Init, UnitIsReferenced, InInit
<1> QED
    BY <1>1, <1>2, <1>3 DEF ForwardingInv, NilNeverUnwrapped

\* The flags stay flags: each action leaves one alone or gives it a truth value.
LEMMA StepFlags == FlagsOK /\ [Next]_vars => FlagsOK'
<1> SUFFICES ASSUME FlagsOK, [Next]_vars PROVE FlagsOK'
    OBVIOUS
<1> USE DEF FlagsOK, unitVars, sinkVars, headerVars, egressVars
<1>1. CASE InitStep
    BY <1>1, Zenon DEF InitStep, CreateEgress, InitThrows, SetHandler, Subscribe,
       InitReturns
<1>2. CASE SinkStep
    BY <1>2, Zenon DEF SinkStep, SinkGuard, SinkHeader, SinkSend, PayloadTypeFound
<1>3. CASE Arrive \/ EgressChanges \/ LearnCodec \/ IngressCloses
    BY <1>3, Zenon DEF Arrive, EgressChanges, LearnCodec, IngressCloses
<1>4. CASE EgressPublishes
    BY <1>4 DEF EgressPublishes
<1>5. CASE KeyFrameRequested \/ KeyFrameForwarded
    BY <1>5, Zenon DEF KeyFrameRequested, KeyFrameForwarded
<1>6. CASE StopCancel \/ StopStep \/ Forget
    BY <1>6, Zenon DEF StopCancel, StopStep, StopClear, StopClose, Forget
<1>7. CASE FreeUnit \/ EgressPeerEnds \/ FreeEgress
    BY <1>7, Zenon DEF FreeUnit, EgressPeerEnds, FreeEgress
<1>8. CASE UNCHANGED vars
    BY <1>8, Zenon DEF vars
<1> QED
    BY <1>1, <1>2, <1>3, <1>4, <1>5, <1>6, <1>7, <1>8 DEF Next

LEMMA StepInv == ForwardingInv /\ [Next]_vars => ForwardingInv'
<1> SUFFICES ASSUME ForwardingInv, [Next]_vars PROVE ForwardingInv'
    OBVIOUS
<1>f. FlagsOK'
    BY StepFlags DEF ForwardingInv, TypeOK
<1> USE <1>f DEF ForwardingInv, TypeOK, Place, NilNeverUnwrapped, UnitIsReferenced,
        InInit, unitVars, sinkVars, headerVars, egressVars, AppGoes
<1>1. CASE InitStep
    <2>1. CASE CreateEgress
        BY <2>1 DEF CreateEgress
    <2>2. CASE InitThrows
        BY <2>2 DEF InitThrows
    <2>3. CASE SetHandler
        BY <2>3 DEF SetHandler
    <2>4. CASE Subscribe
        BY <2>4 DEF Subscribe
    <2>5. CASE InitReturns
        BY <2>5 DEF InitReturns
    <2> QED
        BY <1>1, <2>1, <2>2, <2>3, <2>4, <2>5 DEF InitStep
<1>2. CASE SinkStep
    <2>1. CASE SinkGuard
        BY <2>1 DEF SinkGuard
    <2>2. CASE SinkHeader
        BY <2>2 DEF SinkHeader, HeaderFound, PayloadTypeFound
    <2>3. CASE SinkSend
        BY <2>3 DEF SinkSend
    <2> QED
        BY <1>2, <2>1, <2>2, <2>3 DEF SinkStep
<1>3. CASE Arrive
    BY <1>3 DEF Arrive
<1>4. CASE EgressChanges
    BY <1>4 DEF EgressChanges
<1>5. CASE EgressPublishes
    BY <1>5 DEF EgressPublishes
<1>6. CASE LearnCodec
    BY <1>6 DEF LearnCodec
<1>7. CASE IngressCloses
    BY <1>7 DEF IngressCloses
<1>8. CASE KeyFrameRequested
    BY <1>8 DEF KeyFrameRequested
<1>9. CASE KeyFrameForwarded
    BY <1>9 DEF KeyFrameForwarded
<1>10. CASE StopCancel
    BY <1>10 DEF StopCancel
<1>11. CASE StopStep
    <2>1. CASE StopClear
        BY <2>1 DEF StopClear
    <2>2. CASE StopClose
        BY <2>2 DEF StopClose
    <2> QED
        BY <1>11, <2>1, <2>2 DEF StopStep
<1>12. CASE Forget
    BY <1>12 DEF Forget
<1>13. CASE FreeUnit
    BY <1>13 DEF FreeUnit
<1>14. CASE EgressPeerEnds
    BY <1>14 DEF EgressPeerEnds
<1>15. CASE FreeEgress
    BY <1>15 DEF FreeEgress
<1>16. CASE UNCHANGED vars
    BY <1>16 DEF vars
<1> QED
    BY <1>1, <1>2, <1>3, <1>4, <1>5, <1>6, <1>7, <1>8, <1>9, <1>10, <1>11,
       <1>12, <1>13, <1>14, <1>15, <1>16 DEF Next

\* No closure of the unit runs after the unit or its egress track is freed,
\* no nil is unwrapped, and a stopped egress track stays closed.
THEOREM ForwardingIsSound == Spec => []ForwardingInv
BY InitInv, StepInv, PTL DEF Spec

\* The sink never unwraps a nil payload type, also not on the packet after a
\* lookup that threw between the two assignments.
THEOREM NoNilIsUnwrapped == Spec => []NilNeverUnwrapped
<1>1. ForwardingInv => NilNeverUnwrapped
    BY DEF ForwardingInv
<1> QED
    BY <1>1, ForwardingIsSound, PTL

LEMMA StoppedStep ==
    ForwardingInv /\ [Next]_vars => [app = "stopped" => sent' = sent]_vars
<1> SUFFICES ASSUME ForwardingInv, Next, app = "stopped" PROVE sent' = sent
    BY DEF vars, sinkVars
<1>1. egress # "open"
    BY DEF ForwardingInv
<1>2. CASE SinkSend
    BY <1>1, <1>2 DEF SinkSend, Accepted
<1>3. CASE ~SinkSend
    BY <1>3 DEF Next, InitStep, CreateEgress, InitThrows, SetHandler, Subscribe,
       InitReturns, SinkStep, SinkGuard, SinkHeader, Arrive, EgressChanges,
       EgressPublishes, LearnCodec, IngressCloses, KeyFrameRequested,
       KeyFrameForwarded, StopCancel, StopStep, StopClear, StopClose, Forget,
       FreeUnit, EgressPeerEnds, FreeEgress, sinkVars
<1> QED
    BY <1>2, <1>3

\* After stop() has returned the unit sends no packet, whatever the sink was
\* doing meanwhile.
THEOREM StoppedSendsNothing == Spec => StoppedIsSilent
BY ForwardingIsSound, StoppedStep, PTL DEF Spec, StoppedIsSilent
====
