---- MODULE Forwarding ----
(***************************************************************************)
(* MediaForwardingUnit: a unit that forwards an ingress track to an egress *)
(* track it creates. The application makes it, stops it and forgets it;    *)
(* the ingress peer's library thread runs its message sink; the egress     *)
(* peer's library thread runs its keyframe callback.                       *)
(*                                                                         *)
(* The unit, its egress track and its two closures refer to each other.    *)
(* Reference counting is modelled by who still refers to an object. Of the *)
(* headers only whether ssrc and pt have been found is kept.               *)
(***************************************************************************)
EXTENDS Naturals

CONSTANT MaxPackets   \* bound: packets the ingress track receives

ASSUME BoundAssumption == MaxPackets \in Nat

Place == {"new", "created", "handled", "subscribed", "failed",   \* in init
          "ready", "cancelled", "cleared", "stopped"}            \* in stop

VARIABLES
    app,          \* where the application is in init and stop
    held,         \* the application refers to the unit
    unit,         \* the unit object: "none", "alive", "freed"
    subscribed,   \* the ingress publisher holds the message sink
    handler,      \* egressTrack.onKeyFrameRequested is set
    ssrc, pt,     \* these have been found
    last,         \* number of the packet in ingressTrack.lastMessage
    job,          \* the message sink: "none", "arrived", "open", "send"
    sent,         \* packets the library has accepted for the egress track
    asking,       \* the keyframe closure is running
    ingressOpen,
    egress,       \* "none", "connecting", "open", "closed", "deleted"
    isOpen,       \* egressTrack.isOpen
    listed,       \* the egress peer's sets hold the egress track
    codecKnown    \* the library knows payload types for the egress track

headerVars == <<ssrc, pt>>
sinkVars == <<headerVars, last, job, sent>>
unitVars == <<held, unit, subscribed, handler>>
egressVars == <<egress, isOpen, listed, codecKnown>>
vars == <<app, unitVars, sinkVars, asking, ingressOpen, egressVars>>

FlagsOK ==
    /\ held \in BOOLEAN /\ subscribed \in BOOLEAN /\ handler \in BOOLEAN
    /\ ssrc \in BOOLEAN /\ pt \in BOOLEAN /\ asking \in BOOLEAN
    /\ ingressOpen \in BOOLEAN /\ isOpen \in BOOLEAN
    /\ listed \in BOOLEAN /\ codecKnown \in BOOLEAN
TypeOK ==
    /\ FlagsOK
    /\ app \in Place
    /\ unit \in {"none", "alive", "freed"}
    /\ job \in {"none", "arrived", "open", "send"}
    /\ egress \in {"none", "connecting", "open", "closed", "deleted"}
    /\ last \in Nat /\ sent \in Nat

Init ==
    /\ app = "new" /\ unit = "none" /\ job = "none" /\ egress = "none"
    /\ last \in {0, 1} \cap 0..MaxPackets /\ sent = 0
    /\ ingressOpen \in BOOLEAN
    /\ held = FALSE /\ subscribed = FALSE /\ handler = FALSE
    /\ ssrc = FALSE /\ pt = FALSE /\ asking = FALSE
    /\ isOpen = FALSE /\ listed = FALSE /\ codecKnown = FALSE

AppGoes(from, to) == app = from /\ app' = to

----------------------------------------------------------------------------
\* init

CreateEgress ==
    /\ AppGoes("new", "created")
    /\ unit' = "alive"
    /\ egress' = "connecting"
    /\ listed' = TRUE
    /\ UNCHANGED <<held, subscribed, handler, sinkVars, asking, ingressOpen,
                   isOpen, codecKnown>>

\* A throw before or, leaving the egress track with its peer, after that.
InitThrows ==
    /\ AppGoes("new", "failed") \/ AppGoes("created", "failed")
    /\ unit' = "freed"
    /\ UNCHANGED <<held, subscribed, handler, sinkVars, asking, ingressOpen,
                   egressVars>>

SetHandler ==
    /\ AppGoes("created", "handled")
    /\ handler' = TRUE
    /\ UNCHANGED <<held, unit, subscribed, sinkVars, asking, ingressOpen,
                   egressVars>>

\* The sink is given the current lastMessage at once, on this thread.
Subscribe ==
    /\ AppGoes("handled", "subscribed")
    /\ subscribed' = TRUE
    /\ job' = IF last = 0 THEN "none" ELSE "arrived"
    /\ UNCHANGED <<held, unit, handler, headerVars, last, sent, asking,
                   ingressOpen, egressVars>>

InitReturns ==
    /\ job = "none"
    /\ AppGoes("subscribed", "ready")
    /\ held' = TRUE
    /\ UNCHANGED <<unit, subscribed, handler, sinkVars, asking, ingressOpen,
                   egressVars>>

----------------------------------------------------------------------------
\* The message sink. A publisher delivers to a sink one value at a time.

Arrive ==
    /\ ingressOpen /\ job = "none" /\ last < MaxPackets
    /\ last' = last + 1
    /\ job' = IF subscribed THEN "arrived" ELSE "none"
    /\ UNCHANGED <<app, unitVars, headerVars, sent, asking, ingressOpen,
                   egressVars>>

SinkGuard ==
    /\ job = "arrived"
    /\ job' = IF isOpen THEN "open" ELSE "none"
    /\ UNCHANGED <<app, unitVars, headerVars, last, sent, asking,
                   ingressOpen, egressVars>>

\* payloadTypesForCodec finds one; send is accepted.
PayloadTypeFound == codecKnown
Accepted == egress = "open"

\* A lookup that throws leaves ssrc set and pt nil for the next packet.
HeaderFoundEither == ssrc \/ pt   \* mutant
HeaderFound == ssrc /\ pt
SinkHeader ==
    /\ job = "open"
    /\ IF HeaderFound
       THEN job' = "send" /\ UNCHANGED headerVars
       ELSE /\ ssrc' = TRUE
            /\ pt' = PayloadTypeFound
            /\ job' = IF PayloadTypeFound THEN "send" ELSE "none"
    /\ UNCHANGED <<app, unitVars, last, sent, asking, ingressOpen, egressVars>>

SinkSend ==
    /\ job = "send"
    /\ job' = "none"
    /\ sent' = IF Accepted THEN sent + 1 ELSE sent
    /\ UNCHANGED <<app, unitVars, headerVars, last, asking, ingressOpen,
                   egressVars>>

----------------------------------------------------------------------------
\* The egress track's library thread, and the ingress track's end.

EgressChanges ==
    /\ \/ egress = "connecting" /\ egress' = "open"
       \/ egress \in {"connecting", "open"} /\ egress' = "closed"
    /\ UNCHANGED <<app, unitVars, sinkVars, asking, ingressOpen, isOpen,
                   listed, codecKnown>>

\* The open and closed callbacks.
EgressPublishes ==
    /\ egress \in {"open", "closed"}
    /\ isOpen' = (egress = "open")
    /\ UNCHANGED <<app, unitVars, sinkVars, asking, ingressOpen, egress,
                   listed, codecKnown>>

LearnCodec ==
    /\ egress = "open"
    /\ codecKnown' = TRUE
    /\ UNCHANGED <<app, unitVars, sinkVars, asking, ingressOpen, egress,
                   isOpen, listed>>

KeyFrameRequested ==
    /\ egress = "open" /\ handler /\ ~asking
    /\ asking' = TRUE
    /\ UNCHANGED <<app, unitVars, sinkVars, ingressOpen, egressVars>>

KeyFrameForwarded ==
    /\ asking
    /\ asking' = FALSE
    /\ UNCHANGED <<app, unitVars, sinkVars, ingressOpen, egressVars>>

IngressCloses ==
    /\ ingressOpen
    /\ ingressOpen' = FALSE
    /\ UNCHANGED <<app, unitVars, sinkVars, asking, egressVars>>

----------------------------------------------------------------------------
\* stop

StopCancelNothing ==   \* mutant
    /\ held
    /\ AppGoes("ready", "cancelled")
    /\ UNCHANGED <<unitVars, sinkVars, asking, ingressOpen, egressVars>>
StopCancel ==
    /\ held
    /\ AppGoes("ready", "cancelled")
    /\ subscribed' = FALSE
    /\ UNCHANGED <<held, unit, handler, sinkVars, asking, ingressOpen,
                   egressVars>>

StopClear ==
    /\ AppGoes("cancelled", "cleared")
    /\ handler' = FALSE
    /\ UNCHANGED <<held, unit, subscribed, sinkVars, asking, ingressOpen,
                   egressVars>>

StopUnlists ==   \* mutant
    /\ AppGoes("cleared", "stopped")
    /\ listed' = FALSE
    /\ UNCHANGED <<unitVars, sinkVars, asking, ingressOpen, egress, isOpen,
                   codecKnown>>
StopClose ==
    /\ AppGoes("cleared", "stopped")
    /\ egress' = "closed"
    /\ listed' = FALSE
    /\ UNCHANGED <<unitVars, sinkVars, asking, ingressOpen, isOpen, codecKnown>>

----------------------------------------------------------------------------
\* References

Forget ==
    /\ held /\ app \in {"ready", "stopped"}
    /\ held' = FALSE
    /\ UNCHANGED <<app, unit, subscribed, handler, sinkVars, asking,
                   ingressOpen, egressVars>>

InInit == app \in {"created", "handled", "subscribed"}
UnitIsReferenced ==
    InInit \/ held \/ subscribed \/ handler \/ job # "none" \/ asking

FreeUnit ==
    /\ unit = "alive" /\ ~UnitIsReferenced
    /\ unit' = "freed"
    /\ UNCHANGED <<app, held, subscribed, handler, sinkVars, asking,
                   ingressOpen, egressVars>>

\* The unit retains the egress peer; without it the peer may go any time.
EgressPeerEnds ==
    /\ unit = "freed" /\ listed
    /\ listed' = FALSE
    /\ egress' = "closed"
    /\ UNCHANGED <<app, unitVars, sinkVars, asking, ingressOpen, isOpen,
                   codecKnown>>

\* Channel.deinit of the egress track.
FreeEgress ==
    /\ egress \notin {"none", "deleted"}
    /\ unit # "alive" /\ ~listed
    /\ egress' = "deleted"
    /\ UNCHANGED <<app, unitVars, sinkVars, asking, ingressOpen, isOpen,
                   listed, codecKnown>>

----------------------------------------------------------------------------

InitStep == CreateEgress \/ InitThrows \/ SetHandler \/ Subscribe \/ InitReturns
SinkStep == SinkGuard \/ SinkHeader \/ SinkSend
StopStep == StopClear \/ StopClose
Next ==
    \/ InitStep \/ SinkStep \/ Arrive
    \/ EgressChanges \/ EgressPublishes \/ LearnCodec \/ IngressCloses
    \/ KeyFrameRequested \/ KeyFrameForwarded
    \/ StopCancel \/ StopStep \/ Forget
    \/ FreeUnit \/ EgressPeerEnds \/ FreeEgress

\* Closures and calls under way go on, unreferenced objects are freed.
Fairness ==
    /\ WF_vars(SinkStep)
    /\ WF_vars(KeyFrameForwarded)
    /\ WF_vars(StopStep)
    /\ WF_vars(FreeUnit)
    /\ WF_vars(FreeEgress)

Spec == Init /\ [][Next]_vars /\ Fairness

----------------------------------------------------------------------------

\* A sink that has reached the rewriting of the header (lines 59-60) unwraps
\* an ssrc and a payload type that were found, also after a packet whose
\* lookup threw between the two (lines 52-58).
NilNeverUnwrapped == job = "send" => ssrc /\ pt

\* When stop() has returned, not even a sink that was past its guard when
\* stop() began gets a packet out (lines 50, 61, 73-78).
StoppedIsSilent == [][app = "stopped" => sent' = sent]_vars

\* stop() breaks every cycle (lines 72-78): once it has returned and the
\* application forgets the unit, unit and egress track are freed.
StoppedIsFreed ==
    app = "stopped" /\ ~held ~> unit = "freed" /\ egress = "deleted"

\* The sink and the keyframe closure never outlive the unit and the egress
\* track they refer to, and a track that was stopped stays closed.
ForwardingInv ==
    /\ TypeOK
    /\ NilNeverUnwrapped
    /\ app = "stopped" => egress \in {"closed", "deleted"}
    /\ egress = "deleted" => unit # "alive"
    /\ UnitIsReferenced => unit = "alive"
    /\ app \in {"new", "created", "failed"} =>
        ~held /\ ~subscribed /\ ~handler /\ job = "none" /\ ~asking
====
