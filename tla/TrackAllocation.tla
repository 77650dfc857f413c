---- MODULE TrackAllocation ----
(***************************************************************************)
(* createTrack's bookkeeping: the payload type of a codec configuration,   *)
(* the SSRC and the mid of a track, and what is left when the library      *)
(* refuses the track. SSRCs of the other side's tracks are reserved by the *)
(* track callback, which the library runs some time after set(remote:), if *)
(* it does not find the track in `channels' already.                       *)
(***************************************************************************)
EXTENDS Naturals, FiniteSets

CONSTANTS
    Streams,    \* streamId arguments
    Mids,       \* explicit mid arguments
    Keys,       \* PayloadTypeAllocator.Key: codec, profile, clock, channels
    Ssrcs,      \* 1 .. UInt32.max in the code
    PtFloor,    \* 96 in the code: `next' before the first allocation
    PtCeiling   \* 127 in the code: the last payload type

ASSUME PtAssumption == /\ PtFloor \in Nat /\ PtCeiling \in Nat
                       /\ 0 < PtFloor /\ PtFloor <= PtCeiling

VARIABLES
    next,        \* PayloadTypeAllocator.next
    map,         \* PayloadTypeAllocator.map, NoPt where it has no entry
    used,        \* SsrcAllocator.used
    making,      \* what the createTrack under way will ask for, if any
    outcome,     \* how the last createTrack ended
    local,       \* the media sections that createTrack added
    channels,    \* the peer's Tracks, each as the section it was made for
    remote,      \* the sections the other side has described
    unannounced  \* those whose track callback has not run yet

vars == <<next, map, used, making, outcome, local, channels, remote,
          unannounced>>

NoPt == 0
Pts == PtFloor + 1 .. PtCeiling
Section == [mid : Streams \cup Mids, key : Keys, pt : Pts, ssrc : Ssrcs,
            auto : BOOLEAN]
Described == [mid : Streams \cup Mids, ssrc : Ssrcs]

TypeOK ==
    /\ next \in PtFloor .. PtCeiling
    /\ map \in [Keys -> Pts \cup {NoPt}]
    /\ used \in SUBSET Ssrcs
    /\ making \in SUBSET Section
    /\ outcome \in {"none", "ok", "exhausted", "failed"}
    /\ local \in SUBSET Section
    /\ channels \in SUBSET Described
    /\ remote \in SUBSET Described
    /\ unannounced \in SUBSET remote

Init ==
    /\ next = PtFloor /\ map = [k \in Keys |-> NoPt]
    /\ used = {} /\ making = {} /\ outcome = "none"
    /\ local = {} /\ channels = {} /\ remote = {} /\ unannounced = {}

\* PayloadTypeAllocator.payloadType: `guard next < 127 else throw'.
HasRoomPast(key) == map[key] # NoPt \/ next <= PtCeiling   \* mutant: `<='
HasRoomLess(key) == map[key] # NoPt \/ next + 1 < PtCeiling \* mutant: 126
HasRoom(key) == map[key] # NoPt \/ next < PtCeiling

\* ... then the known payload type, or the next one, which is remembered.
PtFor(key) == IF map[key] # NoPt THEN map[key] ELSE next + 1
PayloadTypeForgotten(key) ==                    \* mutant: map not updated
    /\ next' = IF map[key] # NoPt THEN next ELSE next + 1
    /\ UNCHANGED map
PayloadTypeReused(key) ==                       \* mutant: next not stepped
    /\ map' = [map EXCEPT ![key] = PtFor(key)]
    /\ UNCHANGED next
PayloadTypeAnew(key) ==                         \* mutant: map not looked at
    /\ next' = next + 1
    /\ map' = [map EXCEPT ![key] = next + 1]
PayloadType(key) ==
    /\ next' = IF map[key] # NoPt THEN next ELSE next + 1
    /\ map' = [map EXCEPT ![key] = PtFor(key)]

\* SsrcAllocator: reserve the caller's, or draw until one is unused.
ChooseAny(ssrc, auto) == used' = used \cup {ssrc}     \* mutant: no check
Choose(ssrc, auto) ==
    /\ auto => ssrc \notin used
    /\ used' = used \cup {ssrc}

\* `let mid = mid ?? "\(streamId)"'
MidsFor(stream) == {stream} \cup Mids

\* createTrack up to rtcAddTrackEx.
Allocate(stream, mid, key, ssrc, auto) ==
    /\ making = {} /\ HasRoom(key) /\ mid \in MidsFor(stream)
    /\ PayloadType(key)
    /\ making' = {[mid |-> mid, key |-> key, pt |-> PtFor(key), ssrc |-> ssrc,
                   auto |-> auto]}
    /\ Choose(ssrc, auto)
    /\ UNCHANGED <<outcome, local, channels, remote, unannounced>>

\* `throw Error.exhausted', before anything has changed.
Exhausted(key) ==
    /\ making = {} /\ ~HasRoom(key)
    /\ outcome' = "exhausted"
    /\ UNCHANGED <<next, map, used, making, local, channels, remote,
                   unannounced>>

\* The handle the library gives for a mid is that of a Track in `channels'
\* only if there is a Track of this mid; it may be a fresh one all the same.
IsListed(mid) == \E c \in channels : c.mid = mid

\* rtcAddTrackEx: a section is added, or the one with this mid described
\* anew; createTrack lists a Track for it, or returns the one it finds.
AddTrack ==
    \E m \in making :
        /\ local' = {s \in local : s.mid # m.mid} \cup making
        /\ \/ IsListed(m.mid) /\ UNCHANGED channels
           \/ channels' = channels \cup {[mid |-> m.mid, ssrc |-> m.ssrc]}
        /\ making' = {} /\ outcome' = "ok"
        /\ UNCHANGED <<next, map, used, remote, unannounced>>

\* rtcAddTrackEx fails and createTrack throws: the payload type and the
\* SSRC stay taken.
AddTrackFails ==
    /\ making # {}
    /\ making' = {} /\ outcome' = "failed"
    /\ UNCHANGED <<next, map, used, local, channels, remote, unannounced>>

\* set(remote:): the library reads a section of the other side, a new one or
\* one with another SSRC than before.
RemoteDescribes(section) ==
    /\ section \notin remote
    /\ remote' = remote \cup {section}
    /\ unannounced' = unannounced \cup {section}
    /\ UNCHANGED <<next, map, used, making, outcome, local, channels>>

\* The track callback. Only if `!this.channels.contains(...)' is a Track made
\* and `for ssrc in track.ssrcs { this.sa.reserve(ssrc) }' run.
CallbackNoReserve(section) ==                   \* mutant: reserve forgotten
    /\ section \in unannounced
    /\ unannounced' = unannounced \ {section}
    /\ channels' = channels \cup {section}
    /\ UNCHANGED <<next, map, used, making, outcome, local, remote>>
TrackCallback(section) ==
    /\ section \in unannounced
    /\ unannounced' = unannounced \ {section}
    /\ \/ IsListed(section.mid) /\ UNCHANGED <<channels, used>>
       \/ /\ channels' = channels \cup {section}
          /\ used' = used \cup {section.ssrc}
    /\ UNCHANGED <<next, map, making, outcome, local, remote>>

CreateTrack ==
    \E stream \in Streams, mid \in Streams \cup Mids, key \in Keys,
       ssrc \in Ssrcs, auto \in BOOLEAN :
        Allocate(stream, mid, key, ssrc, auto)

Next ==
    \/ CreateTrack
    \/ \E key \in Keys : Exhausted(key)
    \/ AddTrack \/ AddTrackFails
    \/ \E section \in Described :
           RemoteDescribes(section) \/ TrackCallback(section)

Spec == Init /\ [][Next]_vars

(***************************************************************************)
(* What createTrack promises                                               *)
(***************************************************************************)

\* No two codec configurations share a payload type: the library would
\* describe both with one rtpmap.
PayloadTypesDistinct ==
    \A k, l \in Keys : map[k] # NoPt /\ map[k] = map[l] => k = l

\* The sections in use carry the payload type that the allocator has for
\* their codec, also when an earlier createTrack for it has failed.
SectionsUseTheMap ==
    \A s \in local \cup making : s.pt = map[s.key]

\* The payload types handed out are those from 97 up to `next', without a
\* hole: createTrack gives up only when all of them are taken.
NoHole == {map[k] : k \in {l \in Keys : map[l] # NoPt}} = PtFloor + 1 .. next
ExhaustedMeansFull ==
    /\ NoHole
    /\ outcome = "exhausted" => next = PtCeiling

\* A track keeps the payload type of its codec for the life of the peer.
PayloadTypesStable ==
    [][\A k \in Keys : map[k] # NoPt => map'[k] = map[k]]_vars

\* An SSRC drawn by the allocator is none of this side's sections, nor one
\* that the section of any of the peer's Tracks had when the Track was made,
\* by createTrack or by the track callback, whatever callbacks and failed
\* calls came between.
DrawnIsFresh ==
    [][\A m \in making' \ making :
        m.auto => \A s \in local \cup channels : s.ssrc # m.ssrc]_vars

\* The same, for all that set(remote:) has parsed: `reserve ... call when
\* parsing remote SDP too'. (The callback reserves later, and nothing for a
\* Track that is listed already.)
DrawnIsFreshOfParsed ==
    [][\A m \in making' \ making :
        m.auto => \A s \in remote : s.ssrc # m.ssrc]_vars
====
