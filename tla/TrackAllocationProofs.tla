---- MODULE TrackAllocationProofs ----
(***************************************************************************)
(* createTrack's bookkeeping is right for any number of codecs, streams    *)
(* and SSRCs, and any range of payload types.                              *)
(***************************************************************************)
EXTENDS TrackAllocation, TLAPS

\* What payloadType(for:) does to a key that has no entry, spelled out once.
LEMMA AllocationStep ==
    ASSUME NEW key \in Keys, TypeOK, HasRoom(key), PayloadType(key)
    PROVE  /\ PtFor(key) \in Pts
           /\ map' = [map EXCEPT ![key] = PtFor(key)]
           /\ map'[key] = PtFor(key)
           /\ map[key] # NoPt => map' = map /\ next' = next
           /\ map[key] = NoPt => /\ next' = next + 1
                                 /\ PtFor(key) = next + 1
                                 /\ next < PtCeiling
BY PtAssumption DEF TypeOK, HasRoom, PayloadType, PtFor, Pts, NoPt

\* Every variable of createTrack's bookkeeping keeps its type; in particular
\* a payload type never leaves the dynamic range 97 .. 127.
THEOREM TypeCorrect == Spec => []TypeOK
<1>1. Init => TypeOK
  BY PtAssumption DEF Init, TypeOK, Pts, NoPt
<1>2. TypeOK /\ [Next]_vars => TypeOK'
  <2> SUFFICES ASSUME TypeOK, [Next]_vars PROVE TypeOK'
    OBVIOUS
  <2>1. ASSUME NEW stream \in Streams, NEW mid \in Streams \cup Mids,
               NEW key \in Keys, NEW ssrc \in Ssrcs, NEW auto \in BOOLEAN,
               Allocate(stream, mid, key, ssrc, auto)
        PROVE  TypeOK'
    <3>1. PtFor(key) \in Pts /\ map' = [map EXCEPT ![key] = PtFor(key)]
      BY <2>1, AllocationStep DEF Allocate
    <3>2. map' \in [Keys -> Pts \cup {NoPt}]
      BY <3>1 DEF TypeOK
    <3>3. next' \in PtFloor .. PtCeiling
      BY <2>1, AllocationStep, PtAssumption DEF Allocate, TypeOK
    <3>4. making' \in SUBSET Section
      BY <2>1, <3>1 DEF Allocate, Section
    <3>5. used' \in SUBSET Ssrcs
      BY <2>1 DEF Allocate, Choose, TypeOK
    <3> QED
      BY <2>1, <3>2, <3>3, <3>4, <3>5 DEF Allocate, TypeOK
  <2>2. ASSUME NEW key \in Keys, Exhausted(key) PROVE TypeOK'
    BY <2>2 DEF Exhausted, TypeOK
  <2>3. CASE AddTrack
    BY <2>3 DEF AddTrack, TypeOK, Section, Described
  <2>4. CASE AddTrackFails
    BY <2>4 DEF AddTrackFails, TypeOK
  <2>5. ASSUME NEW section \in Described, RemoteDescribes(section)
        PROVE  TypeOK'
    BY <2>5 DEF RemoteDescribes, TypeOK
  <2>6. ASSUME NEW section \in Described, TrackCallback(section)
        PROVE  TypeOK'
    BY <2>6 DEF TrackCallback, TypeOK, Described
  <2>7. CASE UNCHANGED vars
    BY <2>7 DEF vars, TypeOK
  <2> QED
    BY <2>1, <2>2, <2>3, <2>4, <2>5, <2>6, <2>7 DEF Next, CreateTrack
<1> QED
  BY <1>1, <1>2, PTL DEF Spec

(***************************************************************************)
(* The inductive invariant: the payload types in the map are exactly those *)
(* up to `next', each of one codec, and the sections agree with the map.   *)
(***************************************************************************)
Exhaustion == outcome = "exhausted" => next = PtCeiling
Entered == \A k \in Keys : map[k] # NoPt => map[k] \in PtFloor + 1 .. next
Onto == \A p \in PtFloor + 1 .. next : \E k \in Keys : map[k] = p
Inv == PayloadTypesDistinct /\ SectionsUseTheMap /\ Entered /\ Onto
       /\ Exhaustion

LEMMA InvInit == Init => Inv
BY PtAssumption DEF Init, Inv, PayloadTypesDistinct, SectionsUseTheMap,
                    Entered, Onto, Exhaustion, NoPt

\* A section's payload type is a real one, so its codec has an entry.
LEMMA SectionsHaveEntries ==
    ASSUME TypeOK, SectionsUseTheMap
    PROVE  \A s \in local \cup making : s.key \in Keys /\ map[s.key] # NoPt
BY PtAssumption DEF TypeOK, SectionsUseTheMap, Section, Pts, NoPt

LEMMA InvStep == TypeOK /\ Inv /\ [Next]_vars => Inv'
<1> SUFFICES ASSUME TypeOK, Inv, [Next]_vars PROVE Inv'
  OBVIOUS
<1> USE PtAssumption
<1>1. ASSUME NEW stream \in Streams, NEW mid \in Streams \cup Mids,
             NEW key \in Keys, NEW ssrc \in Ssrcs, NEW auto \in BOOLEAN,
             Allocate(stream, mid, key, ssrc, auto)
      PROVE  Inv'
  <2>1. /\ PtFor(key) \in Pts /\ PtFor(key) # NoPt
        /\ map' = [map EXCEPT ![key] = PtFor(key)]
        /\ map'[key] = PtFor(key)
        /\ map[key] # NoPt => map' = map /\ next' = next
        /\ map[key] = NoPt => next' = next + 1 /\ PtFor(key) = next + 1
                              /\ next < PtCeiling
    BY <1>1, AllocationStep DEF Allocate, Pts, NoPt
  <2>2. \A k \in Keys : map'[k] = IF k = key THEN PtFor(key) ELSE map[k]
    BY <2>1 DEF TypeOK
  <2>3. PayloadTypesDistinct'
    BY <2>1, <2>2 DEF Inv, TypeOK, PayloadTypesDistinct, Entered
  <2>4. SectionsUseTheMap'
    <3>1. \A s \in local : s.pt = map'[s.key]
      BY <2>1, <2>2, SectionsHaveEntries DEF Inv, SectionsUseTheMap
    <3>2. \A s \in making' : s.pt = map'[s.key]
      BY <1>1, <2>1 DEF Allocate
    <3> QED
      BY <1>1, <3>1, <3>2 DEF Allocate, SectionsUseTheMap
  <2>5. Entered'
    BY <2>1, <2>2 DEF Inv, TypeOK, Entered
  <2>6. Onto'
    <3> SUFFICES ASSUME NEW p \in PtFloor + 1 .. next'
                 PROVE  \E k \in Keys : map'[k] = p
      BY DEF Onto
    <3>1. CASE map[key] # NoPt
      BY <2>1, <3>1 DEF Inv, Onto
    <3>2. CASE map[key] = NoPt /\ p = next + 1
      BY <2>1, <3>2
    <3>3. CASE map[key] = NoPt /\ p # next + 1
      <4>1. p \in PtFloor + 1 .. next
        BY <2>1, <3>3 DEF TypeOK
      <4>2. PICK k \in Keys : map[k] = p
        BY <4>1 DEF Inv, Onto
      <4>3. k # key
        BY <3>3, <4>1, <4>2 DEF NoPt
      <4> QED
        BY <2>2, <4>2, <4>3
    <3> QED
      BY <3>1, <3>2, <3>3
  <2>7. Exhaustion'
    BY <1>1, <2>1 DEF Inv, TypeOK, Allocate, Exhaustion
  <2> QED
    BY <2>3, <2>4, <2>5, <2>6, <2>7 DEF Inv
<1>2. ASSUME NEW key \in Keys, Exhausted(key) PROVE Inv'
  BY <1>2 DEF Exhausted, HasRoom, Inv, TypeOK, PayloadTypesDistinct,
              SectionsUseTheMap, Entered, Onto, Exhaustion
<1>3. CASE AddTrack
  BY <1>3 DEF AddTrack, Inv, PayloadTypesDistinct, SectionsUseTheMap, Entered,
              Onto, Exhaustion
<1>4. CASE AddTrackFails
  BY <1>4 DEF AddTrackFails, Inv, PayloadTypesDistinct, SectionsUseTheMap,
              Entered, Onto, Exhaustion
<1>5. ASSUME NEW section \in Described,
             RemoteDescribes(section) \/ TrackCallback(section)
      PROVE  Inv'
  BY <1>5 DEF RemoteDescribes, TrackCallback, Inv, PayloadTypesDistinct,
              SectionsUseTheMap, Entered, Onto, Exhaustion
<1>6. CASE UNCHANGED vars
  BY <1>6 DEF vars, Inv, PayloadTypesDistinct, SectionsUseTheMap, Entered,
              Onto, Exhaustion
<1> QED
  BY <1>1, <1>2, <1>3, <1>4, <1>5, <1>6 DEF Next, CreateTrack

LEMMA InvHolds == Spec => []Inv
BY InvInit, InvStep, TypeCorrect, PTL DEF Spec

\* No two codec configurations ever share a payload type.
THEOREM PayloadTypesAreDistinct == Spec => []PayloadTypesDistinct
BY InvHolds, PTL DEF Inv

\* A section carries its codec's payload type, after failures and retries too.
THEOREM SectionsAgreeWithMap == Spec => []SectionsUseTheMap
BY InvHolds, PTL DEF Inv

\* createTrack throws `exhausted' only when 97 .. 127 are all given out.
THEOREM ExhaustionIsReal == Spec => []ExhaustedMeansFull
<1>1. TypeOK /\ Inv => ExhaustedMeansFull
  <2> SUFFICES ASSUME TypeOK, Inv PROVE ExhaustedMeansFull
    OBVIOUS
  <2> DEFINE given == {map[k] : k \in {l \in Keys : map[l] # NoPt}}
  <2>1. given \subseteq PtFloor + 1 .. next
    BY DEF Inv, Entered
  <2>2. PtFloor + 1 .. next \subseteq given
    <3> SUFFICES ASSUME NEW p \in PtFloor + 1 .. next PROVE p \in given
      OBVIOUS
    <3>1. PICK k \in Keys : map[k] = p
      BY DEF Inv, Onto
    <3>2. map[k] # NoPt
      BY <3>1, PtAssumption DEF NoPt
    <3> QED
      BY <3>1, <3>2
  <2> QED
    BY <2>1, <2>2 DEF ExhaustedMeansFull, NoHole, Inv, Exhaustion
<1> QED
  BY <1>1, InvHolds, TypeCorrect, PTL

\* A codec's payload type never changes once tracks may use it.
THEOREM PayloadTypesAreStable == Spec => PayloadTypesStable
<1> DEFINE Stable == \A k \in Keys : map[k] # NoPt => map'[k] = map[k]
<1>1. TypeOK /\ [Next]_vars => [Stable]_vars
  <2> SUFFICES ASSUME TypeOK, [Next]_vars PROVE Stable \/ UNCHANGED vars
    BY DEF Stable
  <2>1. ASSUME NEW stream \in Streams, NEW mid \in Streams \cup Mids,
               NEW key \in Keys, NEW ssrc \in Ssrcs, NEW auto \in BOOLEAN,
               Allocate(stream, mid, key, ssrc, auto)
        PROVE  Stable
    BY <2>1 DEF Allocate, PayloadType, PtFor, TypeOK
  <2>2. CASE UNCHANGED map
    BY <2>2
  <2> QED
    BY <2>1, <2>2 DEF Next, CreateTrack, Exhausted, AddTrack, AddTrackFails,
                      RemoteDescribes, TrackCallback, vars
<1> QED
  BY <1>1, TypeCorrect, PTL DEF Spec, PayloadTypesStable

(***************************************************************************)
(* Every SSRC of a section of this side, and of the section that any Track *)
(* was made for, is in the allocator's `used'.                             *)
(***************************************************************************)
Reserved == \A s \in local \cup making \cup channels : s.ssrc \in used

LEMMA ReservedHolds == Spec => []Reserved
<1>1. Init => Reserved
  BY DEF Init, Reserved
<1>2. Reserved /\ [Next]_vars => Reserved'
  <2> SUFFICES ASSUME Reserved, [Next]_vars PROVE Reserved'
    OBVIOUS
  <2>1. ASSUME NEW stream \in Streams, NEW mid \in Streams \cup Mids,
               NEW key \in Keys, NEW ssrc \in Ssrcs, NEW auto \in BOOLEAN,
               Allocate(stream, mid, key, ssrc, auto)
        PROVE  Reserved'
    BY <2>1 DEF Allocate, Choose, Reserved
  <2>2. CASE AddTrack
    BY <2>2 DEF AddTrack, Reserved
  <2>3. ASSUME NEW section \in Described, TrackCallback(section)
        PROVE  Reserved'
    BY <2>3 DEF TrackCallback, Reserved
  <2>4. CASE UNCHANGED <<used, local, channels>> /\ making' \subseteq making
    BY <2>4 DEF Reserved
  <2> QED
    BY <2>1, <2>2, <2>3, <2>4
    DEF Next, CreateTrack, Exhausted, AddTrackFails, RemoteDescribes, vars
<1> QED
  BY <1>1, <1>2, PTL DEF Spec

\* A drawn SSRC is new among this side's sections and those that any Track of
\* the peer was made for, announced or created.
THEOREM DrawnSsrcIsFresh == Spec => DrawnIsFresh
<1> DEFINE Fresh == \A m \in making' \ making :
              m.auto => \A s \in local \cup channels : s.ssrc # m.ssrc
<1>1. Reserved /\ [Next]_vars => [Fresh]_vars
  <2> SUFFICES ASSUME Reserved, [Next]_vars PROVE Fresh \/ UNCHANGED vars
    BY DEF Fresh
  <2>1. ASSUME NEW stream \in Streams, NEW mid \in Streams \cup Mids,
               NEW key \in Keys, NEW ssrc \in Ssrcs, NEW auto \in BOOLEAN,
               Allocate(stream, mid, key, ssrc, auto)
        PROVE  Fresh
    <3>1. auto => ssrc \notin used
      BY <2>1 DEF Allocate, Choose
    <3>2. \A m \in making' : m.auto = auto /\ m.ssrc = ssrc
      BY <2>1 DEF Allocate
    <3> QED
      BY <3>1, <3>2 DEF Reserved
  <2>2. CASE making' \subseteq making
    BY <2>2
  <2> QED
    BY <2>1, <2>2 DEF Next, CreateTrack, Exhausted, AddTrack, AddTrackFails,
                      RemoteDescribes, TrackCallback, vars
<1> QED
  BY <1>1, ReservedHolds, PTL DEF Spec, DrawnIsFresh
====
