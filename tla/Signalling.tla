---- MODULE Signalling ----
(***************************************************************************)
(* Two AlloWebRTCPeers that negotiate: the application's calls on each     *)
(* side in the order of README and test (lock the local description, wait  *)
(* for gathering, create the text and send it), the signalling transport   *)
(* between them, and the callbacks through which each peer publishes what  *)
(* the library knows. "offerer" makes the offers of every round, the other *)
(* side answers.                                                           *)
(*                                                                         *)
(* An application either waits until gathering is complete, or sends its   *)
(* description at once and each candidate as it is published ("trickle").  *)
(***************************************************************************)
EXTENDS MediaSection, FiniteSets

CONSTANTS
    MaxCandidates,   \* bound: candidates each peer gathers
    Slack,           \* candidates that fit in the 1024 bytes of createOffer
    Rounds,          \* bound: offers
    Tricklings,      \* which sets of peers may trickle
    Streams, Names,  \* ids the offerer may give its tracks
    Styles           \* how the media sections name them

Peer == {"offerer", "answerer"}

ASSUME CandidatesAssumption ==
    MaxCandidates \in [Peer -> Nat \ {0}] /\ Slack \in Nat
ASSUME TricklingsAssumption == Tricklings \subseteq SUBSET Peer
ASSUME RoundsAssumption == Rounds \in Nat \ {0}
ASSUME IdsAssumption == IsFiniteSet(Streams) /\ IsFiniteSet(Names)
ASSUME StylesAssumption ==
    Styles \subseteq {"unified", "planB", "both", "unifiedStreamOnly",
                       "planBStreamOnly"}

Other(p) == IF p = "offerer" THEN "answerer" ELSE "offerer"
TypeOf(p) == IF p = "offerer" THEN "offer" ELSE "answer"
Track == Streams \X Names

\* rtc.h numbers the states a callback may bring; Swift's enums name them.
RtcState == [new |-> 0, connecting |-> 1, connected |-> 2, failed |-> 4]
RtcGathering == [new |-> 0, inProgress |-> 1, complete |-> 2]
RtcSignaling == [stable |-> 0, haveLocalOffer |-> 1, haveRemoteOffer |-> 2]
StateNamesSwapped ==   \* mutant: two cases of the enum in the other order
    <<"new", "connecting", "disconnected", "connected", "failed", "closed">>
StateNames ==
    <<"new", "connecting", "connected", "disconnected", "failed", "closed">>
GatheringNames == <<"new", "inProgress", "complete">>
SignalingNames == <<"stable", "haveLocalOffer", "haveRemoteOffer",
                    "haveLocalPRAnswer", "haveRemotePRAnswer">>
RawValue(names, raw) == names[raw + 1]   \* init(rawValue:)!

VARIABLES
    trickle,     \* the peers whose application does not wait for gathering
    state, gathering, signaling,   \* the library's, per peer
    gathered,    \* candidates the peer has found: 1 .. gathered
    known,       \* candidates of the other side it has been told
    described,   \* the other side's description is set
    sections,    \* media sections of the offerer: <<track, style>>
    announced,   \* those the answerer's library has called back about
    events,      \* callbacks the library has still to run, in order
    pub,         \* what the peer publishes
    tracks,      \* tracks its track callback has made
    at,          \* where the application is with the peer
    capacity,    \* candidates for which createOffer has made room
    trickled,    \* candidates it has sent
    round,       \* offers made
    wire         \* messages on their way to a peer

libVars == <<state, gathering, signaling, gathered, known, described,
             sections, announced, events>>
appVars == <<trickle, at, capacity, trickled, round, wire>>
vars == <<libVars, pub, tracks, appVars>>

Waiting == {"locked", "sent", "connecting"}
Place == {"ready", "accepted", "sized", "done", "gaveUp", "refused",
          "tooSmall"} \cup Waiting

Section == Track \X Styles
Candidate == UNION {1 .. MaxCandidates[p] : p \in Peer}
Description == [type : {"unspec", "offer", "answer"},
                sections : SUBSET Section, candidates : SUBSET Candidate]
NoDescription == [type |-> "unspec", sections |-> {}, candidates |-> {}]
Published == [state : {"new", "connecting", "connected", "failed"},
              gathering : {"new", "inProgress", "complete"},
              signaling : {"stable", "haveLocalOffer", "haveRemoteOffer"},
              description : Description, candidates : Seq(Candidate)]
Event == [kind : {"state", "gathering", "signaling", "candidate"}, value : Nat]
         \cup [kind : {"description"}, value : Description]
         \cup [kind : {"track"}, value : Section]
Message == [kind : {"description"}, value : Description]
           \cup [kind : {"candidate"}, value : Candidate]
Ev(kind, value) == [kind |-> kind, value |-> value]

TypeOK ==
    /\ trickle \in Tricklings
    /\ state \in [Peer -> {"new", "connecting", "connected", "failed"}]
    /\ gathering \in [Peer -> {"new", "inProgress", "complete"}]
    /\ signaling \in [Peer -> {"stable", "haveLocalOffer", "haveRemoteOffer"}]
    /\ gathered \in [Peer -> Candidate \cup {0}]
    /\ known \in [Peer -> SUBSET Candidate]
    /\ described \in [Peer -> BOOLEAN]
    /\ sections \in SUBSET Section
    /\ announced \in SUBSET Section
    /\ events \in [Peer -> Seq(Event)]
    /\ pub \in [Peer -> Published]
    /\ tracks \in SUBSET [found : BOOLEAN, stream : Streams \cup {"none"},
                          track : Names \cup Streams \cup {"none"}]
    /\ at \in [Peer -> Place]
    /\ capacity \in [Peer -> Nat]
    /\ trickled \in [Peer -> Candidate \cup {0}]
    /\ round \in 0 .. Rounds
    /\ wire \in [Peer -> Seq(Message)]

Init ==
    /\ trickle \in Tricklings
    /\ state = [p \in Peer |-> "new"]
    /\ gathering = [p \in Peer |-> "new"]
    /\ signaling = [p \in Peer |-> "stable"]
    /\ gathered = [p \in Peer |-> 0]
    /\ known = [p \in Peer |-> {}]
    /\ described = [p \in Peer |-> FALSE]
    /\ sections = {}
    /\ announced = {}
    /\ events = [p \in Peer |-> <<>>]
    /\ pub = [p \in Peer |->
                 [state |-> "new", gathering |-> "new", signaling |-> "stable",
                  description |-> NoDescription, candidates |-> <<>>]]
    /\ tracks = {}
    /\ at = [p \in Peer |-> "ready"]
    /\ capacity = [p \in Peer |-> 0]
    /\ trickled = [p \in Peer |-> 0]
    /\ round = 0
    /\ wire = [p \in Peer |-> <<>>]

\* try! GetMsid in a track callback ends the answerer's process.
Runs(p) == p = "answerer" => NotFound \notin tracks

(***************************************************************************)
(* The library.                                                            *)
(***************************************************************************)

\* What a peer's text says: sections are the offerer's, the answer echoes.
Text(p) == [type |-> TypeOf(p), sections |-> sections,
            candidates |-> 1 .. gathered[p]]

Raise(p, news) == events' = [events EXCEPT ![p] = @ \o news]

LibGathers(p) ==
    /\ Runs(p) /\ gathering[p] = "inProgress" /\ gathered[p] < MaxCandidates[p]
    /\ gathered' = [gathered EXCEPT ![p] = @ + 1]
    /\ Raise(p, <<Ev("candidate", gathered[p] + 1)>>)
    /\ UNCHANGED <<state, gathering, signaling, known, described, sections,
                   announced, pub, tracks, appVars>>

LibGatheringEnds(p) ==
    /\ Runs(p) /\ gathering[p] = "inProgress" /\ gathered[p] > 0
    /\ gathering' = [gathering EXCEPT ![p] = "complete"]
    /\ Raise(p, <<Ev("gathering", RtcGathering.complete)>>)
    /\ UNCHANGED <<state, signaling, gathered, known, described, sections,
                   announced, pub, tracks, appVars>>

\* A peer connects when either side can reach the other.
LibConnects(p) ==
    /\ Runs(p) /\ Runs(Other(p))
    /\ state[p] = "connecting" /\ state[Other(p)] \in {"connecting", "connected"}
    /\ known[p] \cup known[Other(p)] # {}
    /\ state' = [state EXCEPT ![p] = "connected"]
    /\ Raise(p, <<Ev("state", RtcState.connected)>>)
    /\ UNCHANGED <<gathering, signaling, gathered, known, described, sections,
                   announced, pub, tracks, appVars>>

LibFails(p) ==
    /\ Runs(p)
    /\ state[p] = "connecting"
    /\ state' = [state EXCEPT ![p] = "failed"]
    /\ Raise(p, <<Ev("state", RtcState.failed)>>)
    /\ UNCHANGED <<gathering, signaling, gathered, known, described, sections,
                   announced, pub, tracks, appVars>>

(***************************************************************************)
(* The closures of AlloWebRTCPeer.setupCallbacks.                          *)
(***************************************************************************)
PublishState(view, event) ==
    CASE event.kind = "state" ->
             [view EXCEPT !.state = RawValue(StateNames, event.value)]
      [] event.kind = "gathering" ->
             [view EXCEPT !.gathering = RawValue(GatheringNames, event.value)]
      [] event.kind = "signaling" ->
             [view EXCEPT !.signaling = RawValue(SignalingNames, event.value)]
      [] event.kind = "description" ->
             [view EXCEPT !.description = event.value]
      [] OTHER -> view

PublishLast(view, event) ==   \* mutant: candidates are not accumulated
    IF event.kind = "candidate" THEN [view EXCEPT !.candidates = <<event.value>>]
    ELSE PublishState(view, event)
PublishNoState(view, event) ==   \* mutant: one callback is not installed
    IF event.kind = "candidate"
    THEN [view EXCEPT !.candidates = Append(@, event.value)]
    ELSE IF event.kind = "state" THEN view ELSE PublishState(view, event)

Publish(view, event) ==
    IF event.kind = "candidate"
    THEN [view EXCEPT !.candidates = Append(@, event.value)]
    ELSE PublishState(view, event)

\* The track closure asks for the ids of the section it is called for.
MsidOf(section) ==
    GetMsid(Write(section[2], section[1][1], section[1][2]))

CbRun(p) ==
    /\ Runs(p) /\ events[p] # <<>>
    /\ events' = [events EXCEPT ![p] = Tail(@)]
    /\ LET event == Head(events[p]) IN
       /\ pub' = [pub EXCEPT ![p] = Publish(@, event)]
       /\ tracks' = IF event.kind = "track"
                    THEN tracks \cup {MsidOf(event.value)} ELSE tracks
    /\ UNCHANGED <<state, gathering, signaling, gathered, known, described,
                   sections, announced, appVars>>

(***************************************************************************)
(* The application.                                                        *)
(***************************************************************************)
Goto(p, place) == at' = [at EXCEPT ![p] = place]
Send(p, message) == wire' = [wire EXCEPT ![Other(p)] = Append(@, message)]
Refuse(p) == Goto(p, "refused") /\ UNCHANGED libVars

\* createTrack on the side that will make the offer.
AddTrack ==
    /\ at["offerer"] = "ready" /\ round < Rounds
    /\ \E t \in Track, style \in Styles :
        /\ \A section \in sections : section[1] # t
        /\ sections' = sections \cup {<<t, style>>}
    /\ UNCHANGED <<state, gathering, signaling, gathered, known, described,
                   announced, events, pub, tracks, appVars>>

\* lockLocalDescription: the library takes an offer when it is stable and an
\* answer when it has an offer; the first time, it begins to gather.
Lock(p) ==
    /\ Runs(p)
    /\ IF p = "offerer" THEN at[p] = "ready" /\ round < Rounds
                        ELSE at[p] = "accepted"
    /\ IF signaling[p] # (IF p = "offerer" THEN "stable" ELSE "haveRemoteOffer")
       THEN Refuse(p) /\ UNCHANGED round
       ELSE LET next == IF p = "offerer" THEN "haveLocalOffer" ELSE "stable"
                first == gathering[p] = "new"
                starts == p = "answerer" /\ state[p] = "new"
            IN  /\ Goto(p, "locked")
                /\ round' = IF p = "offerer" THEN round + 1 ELSE round
                /\ signaling' = [signaling EXCEPT ![p] = next]
                /\ gathering' = [gathering EXCEPT
                                    ![p] = IF first THEN "inProgress" ELSE @]
                /\ state' = [state EXCEPT
                                ![p] = IF starts THEN "connecting" ELSE @]
                /\ Raise(p, <<Ev("signaling", RtcSignaling[next]),
                              Ev("description", Text(p))>>
                            \o (IF first
                                THEN <<Ev("gathering", RtcGathering.inProgress)>>
                                ELSE <<>>)
                            \o (IF starts
                                THEN <<Ev("state", RtcState.connecting)>>
                                ELSE <<>>))
                /\ UNCHANGED <<gathered, known, described, sections, announced>>
    /\ UNCHANGED <<pub, tracks, trickle, capacity, trickled, wire>>

MeasureEarly(p) ==   \* mutant: any gathering will do
    /\ Runs(p) /\ at[p] = "locked"
    /\ p \in trickle \/ pub[p].gathering \in {"inProgress", "complete"}
    /\ Goto(p, "sized")
    /\ capacity' = [capacity EXCEPT ![p] = gathered[p] + Slack]
    /\ UNCHANGED <<libVars, pub, tracks, trickle, trickled, round, wire>>

\* The wait for gathering is over; createOffer or createAnswer asks for the
\* length of the text and makes room for it and 1024 bytes more.
Measure(p) ==
    /\ Runs(p) /\ at[p] = "locked"
    /\ p \in trickle \/ pub[p].gathering = "complete"
    /\ Goto(p, "sized")
    /\ capacity' = [capacity EXCEPT ![p] = gathered[p] + Slack]
    /\ UNCHANGED <<libVars, pub, tracks, trickle, trickled, round, wire>>

\* Then for the text, which is sent, unless it has outgrown the room.
Create(p) ==
    /\ Runs(p) /\ at[p] = "sized"
    /\ IF gathered[p] > capacity[p]
       THEN Goto(p, "tooSmall") /\ UNCHANGED wire
       ELSE /\ Goto(p, IF p = "offerer" THEN "sent" ELSE "connecting")
            /\ Send(p, Ev("description", Text(p)))
    /\ UNCHANGED <<libVars, pub, tracks, trickle, capacity, trickled, round>>

SendCandidateEarly(p) ==   \* mutant: does not wait for the description
    /\ Runs(p) /\ p \in trickle
    /\ trickled[p] < Len(pub[p].candidates)
    /\ trickled' = [trickled EXCEPT ![p] = @ + 1]
    /\ Send(p, Ev("candidate", pub[p].candidates[trickled[p] + 1]))
    /\ UNCHANGED <<libVars, pub, tracks, trickle, at, capacity, round>>

SendCandidate(p) ==
    /\ Runs(p) /\ p \in trickle /\ at[p] \in {"sent", "connecting", "ready", "done"}
    /\ trickled[p] < Len(pub[p].candidates)
    /\ trickled' = [trickled EXCEPT ![p] = @ + 1]
    /\ Send(p, Ev("candidate", pub[p].candidates[trickled[p] + 1]))
    /\ UNCHANGED <<libVars, pub, tracks, trickle, at, capacity, round>>

Arrives(p, kind) == Runs(p) /\ wire[p] # <<>> /\ Head(wire[p]).kind = kind
Taken(p) == wire' = [wire EXCEPT ![p] = Tail(@)]

\* The track callbacks a set of media sections brings, in some order.
Announcements(fresh) ==
    {news \in [1 .. Cardinality(fresh) -> {Ev("track", s) : s \in fresh}] :
        \A s \in fresh : \E i \in DOMAIN news : news[i].value = s}

\* set(remote:): the library takes an offer when it is stable and an answer
\* when it has made an offer, and announces the tracks that are new to it.
SetRemoteOffer ==
    LET p == "answerer"
        text == Head(wire[p]).value
    IN  /\ Arrives(p, "description") /\ at[p] = "ready"
        /\ Taken(p)
        /\ IF signaling[p] # "stable" THEN Refuse(p)
           ELSE /\ Goto(p, "accepted")
                /\ signaling' = [signaling EXCEPT ![p] = "haveRemoteOffer"]
                /\ known' = [known EXCEPT ![p] = @ \cup text.candidates]
                /\ described' = [described EXCEPT ![p] = TRUE]
                /\ announced' = announced \cup text.sections
                /\ \E news \in Announcements(text.sections \ announced) :
                    Raise(p, <<Ev("signaling", RtcSignaling.haveRemoteOffer)>>
                             \o news)
                /\ UNCHANGED <<state, gathering, gathered, sections>>
        /\ UNCHANGED <<pub, tracks, trickle, capacity, trickled, round>>

SetRemoteAnswer ==
    LET p == "offerer"
        text == Head(wire[p]).value
    IN  /\ Arrives(p, "description") /\ at[p] = "sent"
        /\ Taken(p)
        /\ IF signaling[p] # "haveLocalOffer" THEN Refuse(p)
           ELSE /\ Goto(p, "connecting")
                /\ signaling' = [signaling EXCEPT ![p] = "stable"]
                /\ known' = [known EXCEPT ![p] = @ \cup text.candidates]
                /\ described' = [described EXCEPT ![p] = TRUE]
                /\ state' = [state EXCEPT
                                ![p] = IF @ = "new" THEN "connecting" ELSE @]
                /\ Raise(p, <<Ev("signaling", RtcSignaling.stable)>>
                            \o (IF state[p] = "new"
                                THEN <<Ev("state", RtcState.connecting)>>
                                ELSE <<>>))
                /\ UNCHANGED <<gathering, gathered, sections, announced>>
        /\ UNCHANGED <<pub, tracks, trickle, capacity, trickled, round>>

\* add(remote:): refused while there is no remote description.
AddRemoteCandidate(p) ==
    /\ Arrives(p, "candidate")
    /\ Taken(p)
    /\ IF described[p]
       THEN /\ known' = [known EXCEPT ![p] = @ \cup {Head(wire[p]).value}]
            /\ UNCHANGED at
       ELSE Goto(p, "refused") /\ UNCHANGED known
    /\ UNCHANGED <<state, gathering, signaling, gathered, described, sections,
                   announced, events, pub, tracks, trickle, capacity, trickled,
                   round>>

ConnectedEarly(p) ==   \* mutant: `connected' is that of the last round
    /\ Runs(p) /\ at[p] \in {"sent", "connecting"}
    /\ pub[p].state = "connected"
    /\ Goto(p, IF p = "offerer" /\ round = Rounds THEN "done" ELSE "ready")
    /\ UNCHANGED <<libVars, pub, tracks, trickle, capacity, trickled, round,
                   wire>>

\* The wait for `state' ends; there may be another round.
Connected(p) ==
    /\ Runs(p) /\ at[p] = "connecting" /\ pub[p].state = "connected"
    /\ Goto(p, IF p = "offerer" /\ round = Rounds THEN "done" ELSE "ready")
    /\ UNCHANGED <<libVars, pub, tracks, trickle, capacity, trickled, round,
                   wire>>

\* A wait runs into its timeout.
TimesOut(p) ==
    /\ Runs(p)
    /\ \/ at[p] = "locked" /\ p \notin trickle
       \/ at[p] = "connecting"
    /\ Goto(p, "gaveUp")
    /\ UNCHANGED <<libVars, pub, tracks, trickle, capacity, trickled, round,
                   wire>>

AppStep(p) ==
    Lock(p) \/ Measure(p) \/ Create(p) \/ SendCandidate(p)
        \/ AddRemoteCandidate(p) \/ Connected(p)

Next ==
    \/ \E p \in Peer :
        \/ LibGathers(p) \/ LibGatheringEnds(p) \/ LibConnects(p) \/ LibFails(p)
        \/ CbRun(p) \/ AppStep(p) \/ TimesOut(p)
    \/ AddTrack \/ SetRemoteOffer \/ SetRemoteAnswer

\* Library threads and application make progress; tracks need not be added,
\* connections need not fail and waits need not run out.
Fairness ==
    /\ \A p \in Peer :
        /\ WF_vars(LibGathers(p)) /\ WF_vars(LibGatheringEnds(p))
        /\ WF_vars(LibConnects(p)) /\ WF_vars(CbRun(p)) /\ WF_vars(AppStep(p))
        /\ WF_vars(SendCandidate(p)) /\ WF_vars(AddRemoteCandidate(p))
    /\ WF_vars(SetRemoteOffer) /\ WF_vars(SetRemoteAnswer)

Spec == Init /\ [][Next]_vars /\ Fairness

(***************************************************************************)
(* Properties.                                                             *)
(***************************************************************************)
UpTo(n) == [i \in 1 .. n |-> i]

\* Once the callbacks raised so far have run, a peer publishes what its
\* library knows: the states under Swift's names for rtc.h's numbers, every
\* candidate once and in order (AlloDataChannel.swift:620-650).
PublishedIsTrue ==
    \A p \in Peer : events[p] = <<>> =>
        /\ pub[p].state = state[p]
        /\ pub[p].gathering = gathering[p]
        /\ pub[p].signaling = signaling[p]
        /\ pub[p].candidates = UpTo(gathered[p])

\* An application that sees gatheringState complete finds every candidate of
\* the peer in `candidates', and in `localDescription' the description that
\* SFUMain.swift:60 and :95 then unwrap (AlloDataChannel.swift:620-634,
\* 643-646).
CompleteHasAll ==
    \A p \in Peer : pub[p].gathering = "complete" =>
        /\ pub[p].candidates = UpTo(gathered[p])
        /\ pub[p].description.type = TypeOf(p)

\* README: "Wait for ICE gathering to finish so we have all connection
\* options available". A description sent after that wait carries every
\* candidate its sender will ever find, in each round. And it is sent:
\* createOffer and createAnswer ask for the size and then for the text
\* (AlloDataChannel.swift:225-227, 235-237), which after the wait cannot
\* outgrow the room between the two calls.
NeverTooSmall == \A p \in Peer : p \notin trickle => at[p] # "tooSmall"
SentIsComplete ==
    /\ NeverTooSmall
    /\ \A p \in Peer : Other(p) \notin trickle => \A i \in DOMAIN wire[p] :
        /\ wire[p][i].kind = "description"
        /\ wire[p][i].value.candidates = 1 .. gathered[Other(p)]
        /\ gathering[Other(p)] = "complete"

\* The order of calls that README shows, and candidates sent only after the
\* description, never meet a refusal of the library, in any round
\* (AlloDataChannel.swift:243-269).
NeverRefused == \A p \in Peer : at[p] # "refused"

\* What has been locked on one side and not been set on the other: an offer
\* until the answerer has taken it from the wire, an answer from the moment
\* the answerer is stable again.
Mentions(s) == \E i \in DOMAIN s : s[i].kind = "description"
Outstanding ==
    IF at["offerer"] # "sent" \/ Mentions(wire["answerer"]) THEN "offer"
    ELSE IF signaling["answerer"] = "stable" THEN "answer" ELSE "none"
Mail ==
    IF signaling["offerer"] = "haveLocalOffer" THEN Outstanding ELSE "none"

Exchange == INSTANCE OfferAnswer WITH
    Tracks <- Section, mail <- Mail,
    offerer <- signaling["offerer"], answerer <- signaling["answerer"],
    tracks <- sections, told <- announced

\* The two libraries take turns as OfferAnswer says, whatever the messages
\* overtake on their way to the published state: each offer is taken once and
\* answered once before the next is made, in every round, and brings the
\* answerer every track made before it (AlloDataChannel.swift:243-262).
TakesTurns == Exchange!Spec

\* What an announced section promises of its track: the ids given to
\* createTrack, or, where the track id is left out, the stream's for both, as
\* GetMsid has it for a=msid lines.
StreamOnly == {"unifiedStreamOnly", "planBStreamOnly"}
Promised(section) ==
    LET track == section[1]
    IN  Ids(track[1], IF section[2] \in StreamOnly THEN track[1] ELSE track[2])

\* The track callback of the other side makes each announced track with
\* the ids its section promises, whichever way it is written
\* (AlloDataChannel.swift:490-512, 660-667).
TracksSurvive ==
    tracks \cup {MsidOf(events["answerer"][i].value) :
                    i \in {j \in DOMAIN events["answerer"] :
                              events["answerer"][j].kind = "track"}}
        = {Promised(s) : s \in announced}

\* "format: a=ssrc:<num> msid <streamId> <trackId?>": the track callback
\* finds ids in such a line also when it names the stream alone, so its
\* `try!' does not trap (AlloDataChannel.swift:502, 664).
TrackIdIsOptional == NotFound \notin tracks

\* An offer ends in both peers publishing `connected', unless a wait ran out,
\* the connection failed, or a trickled text had outgrown its room.
Connects ==
    round > 0 ~> \/ \A p \in Peer : pub[p].state = "connected"
                 \/ \E p \in Peer : \/ at[p] \in {"gaveUp", "tooSmall"}
                                    \/ state[p] = "failed"
====
