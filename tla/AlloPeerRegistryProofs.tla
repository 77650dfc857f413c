---- MODULE AlloPeerRegistryProofs ----
(***************************************************************************)
(* For any number of channels and wrappers: a handle has one wrapper, the  *)
(* constructors never trap, and a listed wrapper shows what its channel is *)
(* once its events have been delivered, as long as one of two promises is  *)
(* kept: announcements do not overlap the application's calls (~Overlap),  *)
(* or the library presents no handle twice (~Revisits). Under the first,   *)
(* the published sets agree, list every open channel and no closed one.    *)
(***************************************************************************)
EXTENDS AlloPeerProofs

Making == {"entered", "check", "construct"}
SetPlace == {"readAll", "writeAll", "readKind", "writeKind"}
Adding(t) == At(t) \in Kind \cup SetPlace /\ call[t].adding
Removing(t) == At(t) \in SetPlace /\ ~call[t].adding
Listed(o) == o \in dataChannels \cup tracks

(***************************************************************************)
(* What holds under either promise.                                        *)
(***************************************************************************)
RetainedLive == \A o \in Wrapper : Retained(o) => status[o] = "live"

Roles ==
    /\ At("app") # "entered" /\ At("lib") # "check"
    /\ call["lib"].adding
    /\ \A t \in Thread : At(t) \in Making \cup Kind => call[t].adding

PeerPlaces ==
    /\ conn # "closed" => peerStatus = "live"
    /\ conn = "closed" => \A h \in Handle : handle[h] # "made"
    /\ HoldsPeer("app") => peerStatus = "live"
    /\ At("lib") \notin {"idle", "deleting"} => peerStatus # "freed"

NewHandles ==
    /\ \A h \in pending : handle[h] # "none"
    /\ \A o \in Wrapper : handle[HandleOf(o)] = "none" \/ HandleOf(o) \in pending
                              => status[o] = "unused"
    /\ \A t \in Thread : At(t) \in Making =>
           call[t].hdl \notin pending /\ handle[call[t].hdl] # "none"

\* No call works on a deleted handle, and none waits to be announced.
InTime ==
    /\ \A t \in Thread : At(t) \in Making \/ Adding(t) =>
           handle[call[t].hdl] # "deleted"
    /\ \A h \in pending : handle[h] # "deleted"

\* No call makes a second wrapper of a handle, nor loses the first to a
\* deinit before its guard has found it.
Reserved ==
    \A t \in Thread, o \in Wrapper :
        At(t) \in Making /\ Alive(o) /\ HandleOf(o) = call[t].hdl =>
            At(t) # "construct" /\ status[o] = "live"

Base == RetainedLive /\ Roles /\ PeerPlaces /\ NewHandles /\ InTime /\ OneWrapper

(***************************************************************************)
(* The library presents no handle twice.                                   *)
(***************************************************************************)
Fresh ==
    /\ \A t \in Thread, o \in Wrapper :
           At(t) \in Making /\ HandleOf(o) = call[t].hdl => status[o] = "unused"
    /\ At("app") \in Making /\ At("lib") \in Making =>
           call["app"].hdl # call["lib"].hdl
    /\ \A o, p \in Wrapper :
           status[o] # "unused" /\ status[p] # "unused"
               /\ HandleOf(o) = HandleOf(p) => o = p

(***************************************************************************)
(* Announcements do not overlap the application's calls. At most thread t  *)
(* is in a call, and then:                                                 *)
(***************************************************************************)

\* The guards look where a wrapper would be listed.
Guarded(t) ==
    \A o \in Wrapper : Alive(o) /\ HandleOf(o) = call[t].hdl =>
        /\ At(t) = "entered" => o \in channels
        /\ At(t) = "check" => Listed(o)
        /\ At(t) # "construct"

\* Nothing has changed a set since it was read for a change.
Snapshot(t) ==
    /\ At(t) = "writeAll" => call[t].snap = channels
    /\ At(t) = "writeKind" => call[t].snap = KindSet(call[t].hdl)
    /\ At(t) \in {"readKind", "writeKind"} =>
           (call[t].obj \in channels <=> call[t].adding)

Kinds ==
    /\ \A o \in dataChannels : HandleOf(o) \in DataIds
    /\ \A o \in tracks : HandleOf(o) \in TrackIds

Target(t) ==
    /\ Removing(t) => handle[call[t].hdl] \in {"closed", "deleted"}
    /\ Adding(t) => call[t].obj \notin shut \cup appRefs
    /\ \A o \in shut : status[o] # "unused"

\* While the peer is there: the sets agree but for the wrapper the call is
\* adding or removing, an open channel's wrapper is listed, a closed one's
\* is not.
Agree(t) ==
    \A o \in Wrapper :
        \/ o \in channels <=> Listed(o)
        \/ At(t) \in {"readKind", "writeKind"} /\ call[t].obj = o
OpenIsListed(t) ==
    \A o \in Wrapper : Alive(o) /\ handle[HandleOf(o)] = "made" =>
        \/ o \in channels /\ Listed(o)
        \/ Adding(t) /\ call[t].obj = o
ShutIsOut(t) ==
    \A o \in shut :
        /\ o \in channels =>
               Removing(t) /\ At(t) \in {"readAll", "writeAll"} /\ call[t].obj = o
        /\ Listed(o) => Removing(t) /\ call[t].obj = o

SerialAt(t) ==
    /\ \A u \in Thread : u # t => At(u) = "idle"
    /\ Guarded(t) /\ Snapshot(t) /\ Kinds /\ Target(t)
    /\ peerStatus = "live" => Agree(t) /\ OpenIsListed(t) /\ ShutIsOut(t)
Serial == \E t \in Thread : SerialAt(t)

(***************************************************************************)
(* What a wrapper shows. The last event on its way that bears on a field   *)
(* of the wrapper has the field's true value; without one the callback in  *)
(* flight has it if it bears on the field, else the wrapper shows it.      *)
(***************************************************************************)
Owned ==
    \A o \in Wrapper : Alive(o) => /\ userPtr[HandleOf(o)] = o
                                   /\ handle[HandleOf(o)] # "deleted"

InFlight == \A h \in Handle : running[h] # NoCall =>
                /\ running[h].obj = userPtr[h] /\ userPtr[h] # NoWrapper

Shown(h) == IF userPtr[h] \in Wrapper THEN published[userPtr[h]] ELSE Blank

\* Of the events in s: none is of a kind in K, or the i-th is the last that is.
NoneOf(s, K) == \A i \in DOMAIN s : s[i].kind \notin K
LastOf(s, K, i) == /\ i \in DOMAIN s /\ s[i].kind \in K
                   /\ \A j \in DOMAIN s : j > i => s[j].kind \notin K

OpenKinds == {"open", "closed"}
OpenTold(s, cb, true, shown) ==
    /\ \A i \in DOMAIN s : LastOf(s, OpenKinds, i) => (true <=> s[i].kind = "open")
    /\ NoneOf(s, OpenKinds) => IF cb # NoCall /\ cb.kind \in OpenKinds
                               THEN true <=> cb.kind = "open"
                               ELSE true <=> shown
ValueTold(s, cb, kind, true, shown) ==
    /\ \A i \in DOMAIN s : LastOf(s, {kind}, i) => true = s[i].value
    /\ NoneOf(s, {kind}) => IF cb # NoCall /\ cb.kind = kind
                            THEN true = cb.value ELSE true = shown

ToldOf(s, cb, true, shown) ==
    /\ OpenTold(s, cb, true.isOpen, shown.isOpen)
    /\ ValueTold(s, cb, "error", true.lastError, shown.lastError)
    /\ ValueTold(s, cb, "message", true.lastMessage, shown.lastMessage)
ToldAt(h) == ToldOf(events[h], running[h], truth[h], Shown(h))
Told == \A h \in Handle : handle[h] # "deleted" => ToldAt(h)

MirrorInv == Owned /\ InFlight /\ Told

----------------------------------------------------------------------------
\* Steps that leave the wrappers, the references to them and the calls alone.
Registry == <<status, setVars, appRefs, shut, call>>
Aside ==
    \/ Library \/ ClosePeer \/ DropPeer \/ BeginPeerDeinit \/ UNCHANGED vars
    \/ \E h \in Handle : CbRun(h)

LEMMA AsideKeeps == Aside => UNCHANGED Registry
<1> USE DEF Registry, objVars, setVars
<1>1. CASE Library
  BY <1>1 DEF Library
<1>2. CASE ClosePeer \/ DropPeer \/ BeginPeerDeinit
  BY <1>2 DEF ClosePeer, DropPeer, BeginPeerDeinit, StartPeerDeinit
<1>3. CASE UNCHANGED vars
  BY <1>3 DEF vars
<1>4. CASE \E h \in Handle : CbRun(h)
  BY <1>4 DEF CbRun
<1> QED
  BY <1>1, <1>2, <1>3, <1>4 DEF Aside

\* The steps of the program, one disjunct for each way the proofs below go.
Steps ==
    \/ Aside
    \/ CreateDataChannel \/ CreateTrack \/ CheckExisting \/ AnnGuard
    \/ FinishPeerDeinit \/ ReleasePeer \/ LeaveFreed
    \/ \E h \in Handle : AnnStart(h)
    \/ \E t \in Thread : \/ Construct(t) \/ Register(t) \/ ReadAll(t)
                         \/ WriteAll(t) \/ ReadKind(t) \/ WriteKind(t)
    \/ \E o \in Wrapper : \/ Close(o) \/ Take(o) \/ Drop(o)
                          \/ BeginDeinit(o) \/ FinishDeinit(o)

LEMMA NextSteps == [Next]_vars => Steps
BY Zenon DEF Next, Steps, Aside, ThreadStep

\* What a call is after its next move.
LEMMA CallFacts ==
    ASSUME Typed
    PROVE  /\ \A t \in Thread : call[t] \in CallState
           /\ \A t \in Thread : At(t) # "idle" => call[t].hdl \in Handle
           /\ Thread = {"app", "lib"}
           /\ channels \in SUBSET Wrapper /\ dataChannels \in SUBSET Wrapper
           /\ tracks \in SUBSET Wrapper /\ appRefs \in SUBSET Wrapper
           /\ \A o \in Wrapper : HandleOf(o) \in Handle
           /\ status \in [Wrapper -> {"unused", "live", "deinit", "freed"}]
           /\ handle \in [Handle -> {"none", "made", "closed", "deleted"}]
BY DEF Typed, TypeOK, LibTypeOK, Located, Thread, Wrapper, HandleOf

----------------------------------------------------------------------------
\* RetainedLive: only Construct gives out a reference to a wrapper nobody
\* referred to.
NoNewRef == \A o \in Wrapper : Retained(o)' => Retained(o)

LEMMA SetsAreRefs ==
    /\ \A h : KindSet(h) \subseteq dataChannels \cup tracks
    /\ \A S, o : Insert(S, o) \subseteq S \cup {o} /\ Remove(S, o) \subseteq S
BY DEF KindSet, Insert, Remove, Same

LEMMA CallNoNewRef ==
    ASSUME Typed, NEW t \in Thread, NEW c, call' = [call EXCEPT ![t] = c],
           c.obj \in Wrapper => Retained(c.obj),
           \A o \in Wrapper : o \in c.snap => Retained(o),
           \A o \in Wrapper : o \in (appRefs \cup channels \cup dataChannels
                                        \cup tracks)' => Retained(o)
    PROVE  NoNewRef
<1> SUFFICES ASSUME NEW o \in Wrapper, Retained(o)' PROVE Retained(o)
  BY DEF NoNewRef
<1>1. call'[t] = c /\ \A u \in Thread : u # t => call'[u] = call[u]
  BY DEF Typed, TypeOK
<1>2. CASE o \in (appRefs \cup channels \cup dataChannels \cup tracks)'
  BY <1>2
<1>3. ASSUME NEW u \in Thread, call'[u].obj = o \/ o \in call'[u].snap
      PROVE  Retained(o)
  <2>1. CASE u = t
    BY <1>1, <1>3, <2>1
  <2>2. CASE u # t
    BY <1>1, <1>3, <2>2 DEF Retained
  <2> QED
    BY <2>1, <2>2
<1> QED
  BY <1>2, <1>3 DEF Retained
LEMMA IdleHolds == Idle.obj \notin Wrapper /\ Idle.snap = {}
BY NoWrapperAssumption DEF Idle

LEMMA ReturnNoNewRef ==
    ASSUME Typed, NEW t \in Thread, Return(t),
           \A o \in Wrapper : o \in (appRefs \cup channels \cup dataChannels
                                        \cup tracks)' => Retained(o)
    PROVE  NoNewRef
BY IdleHolds, CallNoNewRef DEF Return

LEMMA GotoNoNewRef ==
    ASSUME Typed, NEW t \in Thread, NEW place, Goto(t, place),
           UNCHANGED <<appRefs, setVars>>
    PROVE  NoNewRef
<1> DEFINE c == [call[t] EXCEPT !.at = place]
<1>1. c.obj = call[t].obj /\ c.snap = call[t].snap
  BY CallFacts DEF CallState
<1>2. call' = [call EXCEPT ![t] = c]
  BY DEF Goto
<1> HIDE DEF c
<1> QED
  BY <1>1, <1>2, CallNoNewRef DEF Retained, setVars

LEMMA StartNoNewRef ==
    ASSUME Typed, NEW t \in Thread, NEW place, NEW h,
           call' = [call EXCEPT ![t] = [Idle EXCEPT !.at = place, !.hdl = h]],
           UNCHANGED <<appRefs, setVars>>
    PROVE  NoNewRef
<1> DEFINE c == [Idle EXCEPT !.at = place, !.hdl = h]
<1>1. c.obj = Idle.obj /\ c.snap = Idle.snap
  BY DEF Idle
<1> HIDE DEF c
<1> QED
  BY <1>1, IdleHolds, CallNoNewRef DEF Retained, setVars, c

LEMMA UnwindNoNewRef ==
    ASSUME Typed, NEW t \in Thread, Unwind(t),
           \A o \in Wrapper : o \in (appRefs \cup channels \cup dataChannels
                                        \cup tracks)' => Retained(o)
    PROVE  NoNewRef
<1> DEFINE c == [Idle EXCEPT !.at = "leaving", !.hdl = call[t].hdl]
<1>1. c.obj = Idle.obj /\ c.snap = Idle.snap
  BY DEF Idle
<1>2. Return(t) \/ call' = [call EXCEPT ![t] = c]
  BY DEF Unwind
<1> HIDE DEF c
<1> QED
  BY <1>1, <1>2, IdleHolds, CallNoNewRef, ReturnNoNewRef

\* The end of an announcement callback: it returns, or the peer it was the
\* last to hold begins to go while it is still there.
LEMMA LeaveWays ==
    ReleasePeer \/ LeaveFreed =>
        /\ At("lib") \in {"leaving", "deleting"}
        /\ \/ Return("lib") /\ UNCHANGED <<libVars, setVars, objVars>>
           \/ /\ Goto("lib", "deleting") /\ StartPeerDeinit
              /\ At("lib") = "leaving" /\ peerStatus = "live" /\ ~HoldsPeer("app")
BY DEF ReleasePeer, LeaveFreed

LEMMA RefSteps ==
    ASSUME Typed, Steps
    PROVE  \/ NoNewRef /\ UNCHANGED status
           \/ \E t \in Thread : Construct(t) /\ Answerable(t)
           \/ \E o \in Wrapper : BeginDeinit(o) \/ FinishDeinit(o)
<1>1. CASE Aside
  BY <1>1, AsideKeeps DEF Registry, setVars, NoNewRef, Retained
<1>2. ASSUME NEW ids, NEW fact, Obtain(ids, fact)
      PROVE  NoNewRef /\ UNCHANGED status
  BY <1>2, StartNoNewRef DEF Obtain, objVars, Thread
<1>3. CASE CreateDataChannel \/ CreateTrack
  BY <1>2, <1>3 DEF CreateDataChannel, CreateTrack
<1>4. CASE CheckExisting
  <2>1. CASE Goto("app", "construct") /\ UNCHANGED appRefs
    BY <1>4, <2>1, GotoNoNewRef DEF CheckExisting, Thread
  <2>2. CASE Return("app") /\ appRefs' \subseteq appRefs \cup dataChannels \cup tracks
    BY <1>4, <2>2, ReturnNoNewRef DEF CheckExisting, Thread, Retained, setVars
  <2> QED
    BY <1>4, <2>1, <2>2 DEF CheckExisting, KindSet, Same
<1>5. CASE AnnGuard
  BY <1>5, GotoNoNewRef DEF AnnGuard, Thread, objVars
<1>15. CASE ReleasePeer \/ LeaveFreed
  <2>1. UNCHANGED <<setVars, appRefs, status>>
    BY <1>15, LeaveWays DEF StartPeerDeinit, objVars
  <2>2. Return("lib") \/ Goto("lib", "deleting")
    BY <1>15, LeaveWays
  <2> QED
    BY <2>1, <2>2, GotoNoNewRef, ReturnNoNewRef
    DEF Retained, setVars, Thread
<1>6. CASE FinishPeerDeinit
  BY <1>6 DEF FinishPeerDeinit, NoNewRef, Retained
<1>7. ASSUME NEW h \in Handle, AnnStart(h) PROVE NoNewRef /\ UNCHANGED status
  BY <1>7, StartNoNewRef DEF AnnStart, Thread, objVars
<1>8. ASSUME NEW t \in Thread, Construct(t), ~Answerable(t)
      PROVE  NoNewRef /\ UNCHANGED status
  BY <1>8, GotoNoNewRef DEF Construct
<1>9. ASSUME NEW t \in Thread, Register(t) PROVE NoNewRef /\ UNCHANGED status
  <2>1. \E place : Goto(t, place)
    BY <1>9 DEF Register
  <2> QED
    BY <1>9, <2>1, GotoNoNewRef DEF Register, objVars
<1>10. ASSUME NEW t \in Thread, ReadAll(t) \/ ReadKind(t)
       PROVE  NoNewRef /\ UNCHANGED status
  <2>1. ASSUME NEW place, NEW S, NEW next, Read(t, place, S, next),
               S \subseteq channels \cup dataChannels \cup tracks
        PROVE  NoNewRef /\ UNCHANGED status
    <3>1. CASE PeerGone(t)
      BY <2>1, <3>1, ReturnNoNewRef DEF Read, Retained, setVars, objVars
    <3>2. CASE ~PeerGone(t)
      <4> DEFINE c == [call[t] EXCEPT !.at = next, !.snap = S]
      <4>1. c.obj = call[t].obj /\ c.snap = S
        BY CallFacts DEF CallState
      <4>2. call' = [call EXCEPT ![t] = c] /\ UNCHANGED <<setVars, objVars>>
        BY <2>1, <3>2 DEF Read, Typed, TypeOK
      <4> HIDE DEF c
      <4> QED
        BY <2>1, <4>1, <4>2, CallNoNewRef DEF Retained, setVars, objVars
    <3> QED
      BY <3>1, <3>2
  <2> QED
    BY <1>10, <2>1, SetsAreRefs DEF ReadAll, ReadKind
<1>11. ASSUME NEW t \in Thread, WriteAll(t) PROVE NoNewRef /\ UNCHANGED status
  <2> DEFINE c == [call[t] EXCEPT !.at = "readKind", !.snap = {}]
  <2>1. c.obj = call[t].obj /\ c.snap = {}
    BY CallFacts DEF CallState
  <2>2. /\ call' = [call EXCEPT ![t] = c]
        /\ UNCHANGED <<dataChannels, tracks, appRefs, status>>
        /\ channels' \subseteq call[t].snap \cup {call[t].obj}
    <3>1. call' = [call EXCEPT ![t] = c] /\ channels' = Changed(t)
          /\ UNCHANGED <<dataChannels, tracks, objVars>>
      BY <1>11 DEF WriteAll, Typed, TypeOK
    <3> HIDE DEF c
    <3> QED
      BY <3>1, SetsAreRefs DEF Changed, objVars
  <2> HIDE DEF c
  <2> QED
    BY <2>1, <2>2, CallNoNewRef DEF Retained
<1>12. ASSUME NEW t \in Thread, WriteKind(t) PROVE NoNewRef /\ UNCHANGED status
  <2>1. /\ (appRefs \cup dataChannels \cup tracks)'
               \subseteq appRefs \cup dataChannels \cup tracks \cup call[t].snap
                         \cup {call[t].obj}
        /\ UNCHANGED <<channels, status>> /\ Unwind(t)
    BY <1>12, SetsAreRefs DEF WriteKind, Changed
  <2> QED
    BY <2>1, UnwindNoNewRef DEF Retained
<1>13. ASSUME NEW o \in Wrapper, Close(o) PROVE NoNewRef /\ UNCHANGED status
  <2> DEFINE c == [Idle EXCEPT !.at = "readAll", !.hdl = HandleOf(o),
                               !.obj = o, !.adding = FALSE]
  <2>1. c.obj = o /\ c.snap = {}
    BY DEF Idle
  <2>2. /\ call' = [call EXCEPT !["app"] = c]
        /\ UNCHANGED <<setVars, appRefs, status>> /\ o \in appRefs
    BY <1>13 DEF Close
  <2> HIDE DEF c
  <2> QED
    BY <2>1, <2>2, CallNoNewRef DEF Retained, setVars, Thread
<1>14. ASSUME NEW o \in Wrapper, Take(o) \/ Drop(o)
       PROVE  NoNewRef /\ UNCHANGED status
  BY <1>14 DEF Take, Drop, NoNewRef, Retained, setVars
<1> QED
  BY <1>1, <1>3, <1>4, <1>5, <1>6, <1>7, <1>8, <1>9, <1>10, <1>11, <1>12,
     <1>13, <1>14, <1>15 DEF Steps, FinishPeerDeinit

\* Construct gives the new wrapper to its call and touches no other.
LEMMA ConstructFacts ==
    ASSUME Typed, NEW t \in Thread, Construct(t), Answerable(t)
    PROVE  \E o \in Wrapper :
              /\ HandleOf(o) = call[t].hdl /\ status[o] = "unused"
              /\ status'[o] = "live"
              /\ \A p \in Wrapper \ {o} : status'[p] = status[p]
              /\ userPtr' = [userPtr EXCEPT ![call[t].hdl] = o]
              /\ published' = [published EXCEPT ![o] = Blank]
              /\ call'[t].at = "open" /\ call'[t].obj = o
              /\ call'[t].hdl = call[t].hdl /\ call'[t].adding = call[t].adding
              /\ call'[t].snap = call[t].snap
              /\ \A u \in Thread : u # t => call'[u] = call[u]
              /\ UNCHANGED <<conn, handle, known, truth, events, registered,
                             running, pending, setVars, peerStatus, appPeer,
                             appRefs, shut>>
<1>1. PICK o \in Wrapper :
              /\ HandleOf(o) = call[t].hdl /\ status[o] = "unused"
              /\ status' = [status EXCEPT ![o] = "live"]
              /\ userPtr' = [userPtr EXCEPT ![call[t].hdl] = o]
              /\ published' = [published EXCEPT ![o] = Blank]
              /\ call' = [call EXCEPT ![t].at = Registering[1], ![t].obj = o]
  BY DEF Construct
<1>2. Registering[1] = "open"
  BY DEF Registering
<1>3. /\ call'[t].at = "open" /\ call'[t].obj = o
      /\ call'[t].hdl = call[t].hdl /\ call'[t].adding = call[t].adding
      /\ call'[t].snap = call[t].snap
      /\ \A u \in Thread : u # t => call'[u] = call[u]
  BY <1>1, <1>2 DEF Typed, TypeOK, CallState
<1>4. status'[o] = "live" /\ \A p \in Wrapper \ {o} : status'[p] = status[p]
  BY <1>1 DEF Typed, TypeOK
<1> QED
  BY <1>1, <1>3, <1>4 DEF Construct

LEMMA DeinitFacts ==
    ASSUME Typed, NEW o \in Wrapper, BeginDeinit(o) \/ FinishDeinit(o)
    PROVE  /\ UNCHANGED <<setVars, appRefs, shut, call, pending, peerStatus,
                          conn, known, running, appPeer>>
           /\ \A p \in Wrapper \ {o} : status'[p] = status[p]
           /\ BeginDeinit(o) => /\ ~Retained(o) /\ status[o] = "live"
                                /\ status'[o] = "deinit" /\ UNCHANGED libVars
           /\ FinishDeinit(o) => /\ status[o] = "deinit" /\ status'[o] = "freed"
                                 /\ DeleteHandle(HandleOf(o))
BY DEF BeginDeinit, FinishDeinit, Typed, TypeOK, libVars, setVars

LEMMA RetainedStep == Typed /\ RetainedLive /\ Steps => RetainedLive'
<1> SUFFICES ASSUME Typed, RetainedLive, Steps PROVE RetainedLive'
  OBVIOUS
<1>1. CASE NoNewRef /\ UNCHANGED status
  BY <1>1 DEF RetainedLive, NoNewRef
<1>2. ASSUME NEW t \in Thread, Construct(t), Answerable(t) PROVE RetainedLive'
  <2>1. PICK o \in Wrapper :
           /\ status'[o] = "live"
           /\ \A p \in Wrapper \ {o} : status'[p] = status[p]
           /\ call'[t].obj = o /\ call'[t].snap = call[t].snap
           /\ \A u \in Thread : u # t => call'[u] = call[u]
           /\ UNCHANGED <<setVars, appRefs>>
    BY <1>2, ConstructFacts
  <2>2. \A p \in Wrapper \ {o} : Retained(p)' => Retained(p)
    BY <2>1 DEF Retained, setVars
  <2> QED
    BY <2>1, <2>2 DEF RetainedLive
<1>3. ASSUME NEW o \in Wrapper, BeginDeinit(o) \/ FinishDeinit(o)
      PROVE  RetainedLive'
  <2>1. \A p \in Wrapper : Retained(p)' <=> Retained(p)
    BY <1>3, DeinitFacts DEF Retained, setVars
  <2> QED
    BY <1>3, <2>1, DeinitFacts DEF RetainedLive
<1> QED
  BY <1>1, <1>2, <1>3, RefSteps

----------------------------------------------------------------------------
\* How a step moves the calls.
Others(t) == \A u \in Thread : u # t => call'[u] = call[u]
Moved(t, place) ==
    /\ call'[t].at = place /\ call'[t].hdl = call[t].hdl
    /\ call'[t].obj = call[t].obj /\ call'[t].adding = call[t].adding
    /\ Others(t)
Returned(t) ==
    /\ call'[t].at \in {"idle", "leaving"} /\ call'[t].obj = NoWrapper
    /\ call'[t].adding /\ call'[t].snap = {} /\ Others(t)
Started(t, place, h) ==
    /\ call'[t].at = place /\ call'[t].hdl = h /\ call'[t].adding /\ Others(t)
    /\ call'[t].obj = NoWrapper

LEMMA GotoFacts ==
    ASSUME Typed, NEW t \in Thread, NEW place, Goto(t, place)
    PROVE  Moved(t, place) /\ call'[t].snap = call[t].snap
BY DEF Typed, TypeOK, CallState, Goto, Moved, Others

LEMMA ReturnFacts ==
    ASSUME Typed, NEW t \in Thread, Return(t)
    PROVE  Returned(t) /\ call'[t].at = "idle"
BY DEF Typed, TypeOK, Return, Returned, Others, Idle

LEMMA UnwindFacts ==
    ASSUME Typed, NEW t \in Thread, Unwind(t) PROVE Returned(t)
<1>1. CASE Return(t)
  BY <1>1, ReturnFacts
<1>2. CASE call' = [call EXCEPT ![t] = [Idle EXCEPT !.at = "leaving",
                                                 !.hdl = call[t].hdl]]
  BY <1>2 DEF Typed, TypeOK, Returned, Others, Idle
<1> QED
  BY <1>1, <1>2 DEF Unwind

LEMMA ObtainFacts ==
    ASSUME Typed, NEW ids \in SUBSET Handle, NEW fact, Obtain(ids, fact)
    PROVE  /\ MayStart("app") /\ appPeer /\ conn # "closed"
           /\ \E h \in ids :
                  /\ Started("app", "check", h)
                  /\ \/ handle[h] = "none" /\ handle' = [handle EXCEPT ![h] = "made"]
                        /\ known' = [known EXCEPT ![h] = fact]
                     \/ Revisits /\ handle[h] = "made" /\ h \notin pending
                        /\ UNCHANGED <<handle, known>>
           /\ UNCHANGED <<conn, channelVars, pending, setVars, objVars>>
<1>1. ASSUME NEW h \in ids,
             call' = [call EXCEPT !["app"] = [Idle EXCEPT !.at = "check", !.hdl = h]]
      PROVE  Started("app", "check", h)
  BY <1>1 DEF Typed, TypeOK, Started, Others, Idle, Thread
<1> QED
  BY <1>1 DEF Obtain, Make

LEMMA ObtainWays ==
    CreateDataChannel \/ CreateTrack =>
        \E ids \in SUBSET Handle, fact \in BOOLEAN : Obtain(ids, fact)
<1>1. DataIds \in SUBSET Handle /\ TrackIds \in SUBSET Handle
  BY DEF Handle
<1>2. CASE CreateTrack
  BY <1>1, <1>2 DEF CreateTrack
<1>3. CASE CreateDataChannel
  <2>1. PICK manual \in BOOLEAN : Obtain(DataIds, manual \/ conn = "connected")
    BY <1>3 DEF CreateDataChannel
  <2> DEFINE fact == manual \/ conn = "connected"
  <2>2. fact \in BOOLEAN /\ Obtain(DataIds, fact)
    BY <2>1
  <2> HIDE DEF fact
  <2> QED
    BY <1>1, <2>2
<1> QED
  BY <1>2, <1>3

LEMMA AnnStartFacts ==
    ASSUME Typed, NEW h \in Handle, AnnStart(h)
    PROVE  /\ Started("lib", "entered", h)
           /\ MayStart("lib") /\ peerStatus # "freed"
           /\ h \in pending \/ (Revisits /\ conn # "closed" /\ handle[h] = "made")
           /\ pending' = pending \ {h}
           /\ UNCHANGED <<conn, handle, known, channelVars, setVars, objVars>>
BY DEF Typed, TypeOK, AnnStart, Started, Others, Idle, Thread

LEMMA ReadFacts ==
    ASSUME Typed, NEW t \in Thread, NEW place, NEW S, NEW next,
           Read(t, place, S, next)
    PROVE  /\ At(t) = place
           /\ \/ PeerGone(t) /\ Returned(t) /\ call'[t].at = "idle"
              \/ ~PeerGone(t) /\ Moved(t, next) /\ call'[t].snap = S
           /\ UNCHANGED <<libVars, setVars, objVars>>
<1>1. CASE PeerGone(t)
  BY <1>1, ReturnFacts DEF Read
<1>2. CASE ~PeerGone(t)
  BY <1>2 DEF Read, Typed, TypeOK, CallState, Moved, Others
<1> QED
  BY <1>1, <1>2

LEMMA WriteAllFacts ==
    ASSUME Typed, NEW t \in Thread, WriteAll(t)
    PROVE  /\ At(t) = "writeAll" /\ Moved(t, "readKind")
           /\ channels' = Changed(t)
           /\ UNCHANGED <<libVars, dataChannels, tracks, objVars>>
BY DEF WriteAll, Typed, TypeOK, CallState, Moved, Others

LEMMA CloseFacts ==
    ASSUME Typed, NEW o \in Wrapper, Close(o)
    PROVE  /\ call'["app"].at = "readAll" /\ call'["app"].hdl = HandleOf(o)
           /\ call'["app"].obj = o /\ ~call'["app"].adding /\ Others("app")
           /\ MayStart("app") /\ o \in appRefs
           /\ CloseHandles({HandleOf(o)}) /\ shut' = shut \cup {o}
           /\ UNCHANGED <<conn, known, userPtr, registered, running, pending,
                          setVars, peerStatus, status, published, appPeer,
                          appRefs>>
BY DEF Close, Typed, TypeOK, Others, Idle, Thread

\* The next place of a registration.
LEMMA RegisterFacts ==
    ASSUME Typed, NEW t \in Thread, Register(t)
    PROVE  /\ At(t) \in Kind
           /\ \/ handle[call[t].hdl] = "deleted" /\ Moved(t, "trapped")
              \/ /\ handle[call[t].hdl] # "deleted"
                 /\ \E place \in Kind \cup {"readAll"} : Moved(t, place)
           /\ UNCHANGED <<conn, handle, known, truth, events, userPtr, running,
                          pending, setVars, objVars>>
<1>1. PICK i \in 1 .. 4 : /\ At(t) = Registering[i]
                          /\ IF handle[call[t].hdl] = "deleted"
                             THEN Goto(t, "trapped")
                             ELSE Goto(t, IF i = 4 THEN "readAll"
                                          ELSE Registering[i + 1])
  BY DEF Register
<1>2. \A j \in 1 .. 4 : Registering[j] \in Kind
  BY DEF Registering, Kind
<1>3. (IF i = 4 THEN "readAll" ELSE Registering[i + 1]) \in Kind \cup {"readAll"}
  BY <1>2
<1> QED
  BY <1>1, <1>2, <1>3, GotoFacts DEF Register

LEMMA WriteKindFacts ==
    ASSUME Typed, NEW t \in Thread, WriteKind(t)
    PROVE  /\ At(t) = "writeKind" /\ Returned(t)
           /\ call[t].hdl \in DataIds => dataChannels' = Changed(t) /\ tracks' = tracks
           /\ call[t].hdl \notin DataIds =>
                  tracks' = Changed(t) /\ dataChannels' = dataChannels
           /\ appRefs' = IF t = "app" /\ call[t].adding
                         THEN appRefs \cup {call[t].obj} ELSE appRefs
           /\ UNCHANGED <<libVars, channels, peerStatus, status, published,
                          appPeer, shut>>
BY UnwindFacts DEF WriteKind

LEMMA CheckFacts ==
    ASSUME Typed, CheckExisting
    PROVE  /\ At("app") = "check"
           /\ LET existing == Same(KindSet(call["app"].hdl), call["app"].hdl) IN
              \/ existing # {} /\ Returned("app") /\ appRefs' = appRefs \cup existing
              \/ existing = {} /\ Moved("app", "construct") /\ UNCHANGED appRefs
           /\ UNCHANGED <<libVars, setVars, peerStatus, status, published,
                          appPeer, shut>>
BY ReturnFacts, GotoFacts DEF CheckExisting, Thread

LEMMA GuardFacts ==
    ASSUME Typed, AnnGuard
    PROVE  /\ At("lib") = "entered"
           /\ \/ Same(channels, call["lib"].hdl) = {} /\ Moved("lib", "construct")
              \/ Same(channels, call["lib"].hdl) # {} /\ Moved("lib", "leaving")
           /\ UNCHANGED <<libVars, setVars, objVars>>
BY GotoFacts DEF AnnGuard, Thread

LEMMA LeaveFacts ==
    ASSUME Typed, ReleasePeer \/ LeaveFreed
    PROVE  /\ At("lib") \in {"leaving", "deleting"}
           /\ UNCHANGED <<setVars, status, published, appPeer, appRefs, shut,
                          known, userPtr, registered, running, pending>>
           /\ \/ Returned("lib") /\ call'["lib"].at = "idle"
                    /\ UNCHANGED <<libVars, objVars>>
              \/ /\ Moved("lib", "deleting") /\ CloseHandles(Handle)
                 /\ conn' = "closed" /\ peerStatus' = "deinit"
                 /\ peerStatus = "live" /\ ~HoldsPeer("app")
BY LeaveWays, ReturnFacts, GotoFacts
DEF StartPeerDeinit, libVars, objVars, Thread

LEMMA IdleFacts ==
    /\ Idle.at = "idle" /\ Idle.adding /\ Idle.obj = NoWrapper
    /\ \A t \in Thread : t = "app" \/ t = "lib"
    /\ "app" \in Thread /\ "lib" \in Thread
BY DEF Idle, Thread

\* A construct that traps goes where a failed registration goes.
LEMMA TrapFacts ==
    ASSUME Typed, NEW t \in Thread, Construct(t), ~Answerable(t)
    PROVE  /\ At(t) = "construct" /\ Moved(t, "trapped")
           /\ UNCHANGED <<libVars, setVars, objVars>>
BY GotoFacts DEF Construct, libVars, objVars, setVars

LEMMA RolesStep == Typed /\ Roles /\ Steps => Roles'
<1> SUFFICES ASSUME Typed, Roles, Steps PROVE Roles'
  OBVIOUS
<1> USE IdleFacts DEF Roles, At, Making, Kind
<1>1. CASE Aside
  BY <1>1, AsideKeeps DEF Registry
<1>2. ASSUME NEW ids \in SUBSET Handle, NEW fact, Obtain(ids, fact) PROVE Roles'
  BY <1>2, ObtainFacts DEF Started, Others
<1>3. CASE CheckExisting
  BY <1>3, CheckFacts DEF Moved, Returned, Others
<1>4. CASE AnnGuard
  BY <1>4, GuardFacts DEF Moved, Returned, Others
<1>5. CASE FinishPeerDeinit
  BY <1>5 DEF FinishPeerDeinit
<1>6. ASSUME NEW h \in Handle, AnnStart(h) PROVE Roles'
  BY <1>6, AnnStartFacts DEF Started, Others
<1>7. ASSUME NEW t \in Thread, Construct(t), Answerable(t) PROVE Roles'
  <2>1. At(t) = "construct"
    BY <1>7 DEF Construct
  <2> QED
    BY <1>7, <2>1, ConstructFacts
<1>8. ASSUME NEW t \in Thread, Construct(t), ~Answerable(t) PROVE Roles'
  BY <1>8, TrapFacts DEF Moved, Others
<1>9. ASSUME NEW t \in Thread, Register(t) PROVE Roles'
  BY <1>9, RegisterFacts DEF Moved, Others
<1>10. ASSUME NEW t \in Thread, ReadAll(t) \/ ReadKind(t) PROVE Roles'
  BY <1>10, ReadFacts DEF ReadAll, ReadKind, Moved, Returned, Others
<1>11. ASSUME NEW t \in Thread, WriteAll(t) PROVE Roles'
  BY <1>11, WriteAllFacts DEF Moved, Others
<1>12. ASSUME NEW t \in Thread, WriteKind(t) PROVE Roles'
  BY <1>12, WriteKindFacts DEF Returned, Others
<1>13. ASSUME NEW o \in Wrapper, Close(o) PROVE Roles'
  BY <1>13, CloseFacts DEF Others
<1>14. ASSUME NEW o \in Wrapper, Take(o) \/ Drop(o) PROVE Roles'
  BY <1>14 DEF Take, Drop
<1>15. ASSUME NEW o \in Wrapper, BeginDeinit(o) \/ FinishDeinit(o) PROVE Roles'
  BY <1>15, DeinitFacts
<1>16. CASE CreateDataChannel \/ CreateTrack
  BY <1>2, <1>16 DEF CreateDataChannel, CreateTrack, Handle
<1>17. CASE ReleasePeer \/ LeaveFreed
  BY <1>17, LeaveFacts DEF Moved, Returned, Others
<1> QED
  BY <1>1, <1>3, <1>4, <1>5, <1>6, <1>7, <1>8, <1>9, <1>10, <1>11, <1>12,
     <1>13, <1>14, <1>15, <1>16, <1>17 DEF Steps

----------------------------------------------------------------------------
\* PeerPlaces: the peer is there for a call of the application, and its
\* connection is closed before it goes.
LEMMA LibraryConn ==
    ASSUME Typed, Library
    PROVE  /\ conn' = "closed" <=> conn = "closed"
           /\ \A h \in Handle : handle'[h] # handle[h] =>
                  \/ handle[h] = "none" /\ handle'[h] = "made" /\ conn # "closed"
                     /\ h \in pending'
                  \/ handle[h] = "made" /\ handle'[h] = "closed"
           /\ \A h \in pending' : h \notin pending =>
                  handle[h] = "none" /\ handle'[h] = "made"
           /\ pending \subseteq pending'
           /\ UNCHANGED <<setVars, objVars, call>>
<1> USE DEF Typed, TypeOK, LibTypeOK
<1>1. CASE LibConnect
  BY <1>1 DEF LibConnect, Library
<1>2. ASSUME NEW h \in Handle, LibAnnounceRemote(h)
      PROVE  /\ UNCHANGED conn /\ conn # "closed"
             /\ handle[h] = "none" /\ handle' = [handle EXCEPT ![h] = "made"]
             /\ pending' = pending \cup {h}
  BY <1>2 DEF LibAnnounceRemote, Make
<1>3. ASSUME NEW h \in Handle, LibOpen(h) \/ LibMessage(h) \/ LibError(h) \/ CbStart(h)
      PROVE  UNCHANGED <<conn, handle, pending>>
  BY <1>3 DEF LibOpen, LibMessage, LibError, CbStart
<1>4. ASSUME NEW h \in Handle, LibCloseRemote(h)
      PROVE  /\ UNCHANGED <<conn, pending>>
             /\ \A k \in Handle : handle'[k] # handle[k] =>
                    handle[k] = "made" /\ handle'[k] = "closed"
  BY <1>4 DEF LibCloseRemote, CloseHandles
<1> QED
  BY <1>1, <1>2, <1>3, <1>4 DEF Library, LibStep

LEMMA ClosingFacts ==
    ASSUME Typed, NEW hs \in SUBSET Handle, CloseHandles(hs)
    PROVE  \A h \in Handle :
              /\ h \in hs => handle'[h] # "made"
              /\ handle[h] # "made" => handle'[h] = handle[h]
              /\ handle'[h] = handle[h] \/ handle'[h] = "closed"
BY DEF CloseHandles, Typed, TypeOK, LibTypeOK

LEMMA DeleteFacts ==
    ASSUME Typed, NEW h \in Handle, DeleteHandle(h)
    PROVE  /\ handle'[h] = "deleted"
           /\ \A k \in Handle \ {h} : handle'[k] = handle[k]
BY DEF DeleteHandle, Typed, TypeOK, LibTypeOK

LEMMA PeerPlacesAside ==
    ASSUME Typed, PeerPlaces, Aside PROVE PeerPlaces'
<1> USE DEF At
<1>0. UNCHANGED call
  BY AsideKeeps DEF Registry
<1>1. HoldsPeer("app")' <=> HoldsPeer("app")
  BY <1>0 DEF HoldsPeer
<1>2. CASE Library
  <2>1. UNCHANGED peerStatus
    BY <1>2, LibraryConn DEF objVars
  <2>2. conn' = "closed" => \A h \in Handle : handle'[h] # "made"
    BY <1>2, LibraryConn DEF PeerPlaces
  <2> HIDE DEF HoldsPeer
  <2> QED
    BY <1>0, <1>1, <1>2, <2>1, <2>2, LibraryConn DEF PeerPlaces
<1>3. CASE ClosePeer
  BY <1>0, <1>1, <1>3, ClosingFacts DEF PeerPlaces, ClosePeer, objVars
<1>4. CASE DropPeer \/ UNCHANGED vars \/ \E h \in Handle : CbRun(h)
  BY <1>0, <1>1, <1>4 DEF PeerPlaces, DropPeer, CbRun, vars, libVars, objVars
<1>5. CASE BeginPeerDeinit
  <2>1. ~HoldsPeer("app") /\ conn' = "closed" /\ peerStatus' = "deinit"
        /\ \A h \in Handle : handle'[h] # "made"
    BY <1>5, ClosingFacts, IdleFacts
    DEF BeginPeerDeinit, StartPeerDeinit, PeerRetained
  <2> QED
    BY <1>0, <1>1, <2>1 DEF PeerPlaces
<1> QED
  BY <1>2, <1>3, <1>4, <1>5 DEF Aside

\* A step that keeps connection, handles and peer, and under which the
\* application's call comes to hold the peer only if it did before.
LEMMA PeerPlacesFrame ==
    ASSUME PeerPlaces, UNCHANGED <<conn, handle, peerStatus>>,
           HoldsPeer("app")' => HoldsPeer("app") \/ peerStatus = "live",
           At("lib")' \notin {"idle", "deleting"} =>
               At("lib") \notin {"idle", "deleting"} \/ peerStatus # "freed"
    PROVE  PeerPlaces'
<1> HIDE DEF HoldsPeer
<1> QED
  BY DEF PeerPlaces

LEMMA PeerPlacesStep == Typed /\ Roles /\ PeerPlaces /\ Steps => PeerPlaces'
<1> SUFFICES ASSUME Typed, Roles, PeerPlaces, Steps PROVE PeerPlaces'
  OBVIOUS
<1> USE IdleFacts DEF At, Kind, Making
<1>1. CASE Aside
  BY <1>1, PeerPlacesAside
<1>2. ASSUME NEW ids \in SUBSET Handle, NEW fact, Obtain(ids, fact) PROVE PeerPlaces'
  <2>1. /\ conn # "closed" /\ peerStatus = "live"
        /\ UNCHANGED <<conn, peerStatus>> /\ call'["lib"] = call["lib"]
    BY <1>2, ObtainFacts DEF Started, Others, PeerPlaces, objVars
  <2> QED
    BY <2>1 DEF PeerPlaces
<1>3. CASE CheckExisting
  BY <1>3, CheckFacts, PeerPlacesFrame
  DEF Moved, Returned, Others, libVars, HoldsPeer
<1>4. CASE AnnGuard
  BY <1>4, GuardFacts, PeerPlacesFrame
  DEF Moved, Returned, Others, libVars, objVars, HoldsPeer
<1>5. CASE FinishPeerDeinit
  <2>1. /\ peerStatus = "deinit" /\ At("lib") \in {"idle", "deleting"}
        /\ UNCHANGED <<conn, handle, call>>
    BY <1>5 DEF FinishPeerDeinit
  <2>2. HoldsPeer("app")' <=> HoldsPeer("app")
    BY <2>1 DEF HoldsPeer
  <2> HIDE DEF HoldsPeer
  <2> QED
    BY <2>1, <2>2 DEF PeerPlaces
<1>6. ASSUME NEW h \in Handle, AnnStart(h) PROVE PeerPlaces'
  BY <1>6, AnnStartFacts, PeerPlacesFrame DEF Started, Others, objVars, HoldsPeer
<1>7. ASSUME NEW t \in Thread, Construct(t), Answerable(t) PROVE PeerPlaces'
  <2>1. At(t) = "construct"
    BY <1>7 DEF Construct
  <2> QED
    BY <1>7, <2>1, ConstructFacts, PeerPlacesFrame DEF HoldsPeer
<1>8. ASSUME NEW t \in Thread, Construct(t), ~Answerable(t) PROVE PeerPlaces'
  BY <1>8, TrapFacts, PeerPlacesFrame DEF Moved, Others, HoldsPeer, libVars, objVars
<1>9. ASSUME NEW t \in Thread, Register(t) PROVE PeerPlaces'
  BY <1>9, RegisterFacts, PeerPlacesFrame DEF Moved, Others, HoldsPeer, objVars, Roles
<1>10. ASSUME NEW t \in Thread, ReadAll(t) \/ ReadKind(t) PROVE PeerPlaces'
  BY <1>10, ReadFacts, PeerPlacesFrame
  DEF ReadAll, ReadKind, Moved, Returned, Others, HoldsPeer, PeerGone, libVars, objVars
<1>11. ASSUME NEW t \in Thread, WriteAll(t) PROVE PeerPlaces'
  BY <1>11, WriteAllFacts, PeerPlacesFrame DEF Moved, Others, HoldsPeer, libVars, objVars
<1>12. ASSUME NEW t \in Thread, WriteKind(t) PROVE PeerPlaces'
  BY <1>12, WriteKindFacts, PeerPlacesFrame DEF Returned, Others, HoldsPeer, libVars
<1>13. ASSUME NEW o \in Wrapper, Close(o) PROVE PeerPlaces'
  <2>1. /\ ~HoldsPeer("app")' /\ call'["lib"] = call["lib"]
        /\ UNCHANGED <<conn, peerStatus>>
    BY <1>13, CloseFacts DEF Others, HoldsPeer
  <2>2. \A h \in Handle : handle[h] # "made" => handle'[h] # "made"
    <3>1. {HandleOf(o)} \in SUBSET Handle
      BY CallFacts
    <3> QED
      BY <1>13, <3>1, CloseFacts, ClosingFacts
  <2> HIDE DEF HoldsPeer
  <2> QED
    BY <2>1, <2>2 DEF PeerPlaces
<1>14. ASSUME NEW o \in Wrapper, Take(o) \/ Drop(o) PROVE PeerPlaces'
  BY <1>14, PeerPlacesFrame DEF Take, Drop, libVars, HoldsPeer
<1>15. ASSUME NEW o \in Wrapper, BeginDeinit(o) \/ FinishDeinit(o) PROVE PeerPlaces'
  <2>1. UNCHANGED <<conn, peerStatus, call>>
    BY <1>15, DeinitFacts
  <2>2. \A h \in Handle : handle[h] # "made" => handle'[h] # "made"
    BY <1>15, DeinitFacts, DeleteFacts, CallFacts DEF libVars
  <2>3. HoldsPeer("app")' <=> HoldsPeer("app")
    BY <2>1 DEF HoldsPeer
  <2> HIDE DEF HoldsPeer
  <2> QED
    BY <2>1, <2>2, <2>3 DEF PeerPlaces
<1>16. CASE CreateDataChannel \/ CreateTrack
  BY <1>2, <1>16 DEF CreateDataChannel, CreateTrack, Handle
<1>17. CASE ReleasePeer \/ LeaveFreed
  <2>1. HoldsPeer("app")' <=> HoldsPeer("app")
    BY <1>17, LeaveFacts DEF HoldsPeer, Moved, Returned, Others
  <2>2. At("lib")' \in {"idle", "deleting"}
    BY <1>17, LeaveFacts DEF Moved
  <2>3. CASE UNCHANGED <<libVars, objVars>>
    <3> HIDE DEF HoldsPeer
    <3> QED
      BY <2>1, <2>2, <2>3, PeerPlacesFrame DEF libVars, objVars
  <2>4. CASE CloseHandles(Handle) /\ conn' = "closed" /\ peerStatus' = "deinit"
             /\ ~HoldsPeer("app")
    <3>1. \A h \in Handle : handle'[h] # "made"
      BY <2>4, ClosingFacts
    <3> HIDE DEF HoldsPeer
    <3> QED
      BY <2>1, <2>4, <3>1 DEF PeerPlaces
  <2> HIDE DEF HoldsPeer
  <2> QED
    BY <1>17, <2>3, <2>4, LeaveFacts
<1> QED
  BY <1>1, <1>3, <1>4, <1>5, <1>6, <1>7, <1>8, <1>9, <1>10, <1>11, <1>12,
     <1>13, <1>14, <1>15, <1>16, <1>17 DEF Steps

----------------------------------------------------------------------------
\* NewHandles: a handle not announced yet has no wrapper and no call.
HandleOrder ==
    \A h \in Handle : \/ handle'[h] = handle[h]
                      \/ handle[h] = "none" /\ handle'[h] = "made"
                      \/ handle[h] = "made" /\ handle'[h] = "closed"

LEMMA HandleSteps ==
    ASSUME Typed, Steps
    PROVE  HandleOrder \/ \E o \in Wrapper : FinishDeinit(o)
<1> USE DEF HandleOrder
<1>1. CASE Aside
  <2>1. CASE Library
    BY <2>1, LibraryConn
  <2>2. CASE ClosePeer \/ BeginPeerDeinit
    <3>1. CloseHandles(Handle) /\ Handle \in SUBSET Handle
      BY <2>2 DEF ClosePeer, BeginPeerDeinit, StartPeerDeinit
    <3> QED
      BY <3>1, ClosingFacts
  <2>3. CASE DropPeer \/ UNCHANGED vars \/ \E h \in Handle : CbRun(h)
    BY <2>3 DEF DropPeer, CbRun, vars, libVars
  <2> QED
    BY <1>1, <2>1, <2>2, <2>3 DEF Aside
<1>2. ASSUME NEW ids \in SUBSET Handle, NEW fact, Obtain(ids, fact)
      PROVE  HandleOrder
  BY <1>2, ObtainFacts, CallFacts
<1>3. CASE CheckExisting \/ AnnGuard
  BY <1>3 DEF CheckExisting, AnnGuard, libVars
<1>4. CASE FinishPeerDeinit \/ \E h \in Handle : AnnStart(h)
  BY <1>4 DEF FinishPeerDeinit, AnnStart
<1>5. ASSUME NEW t \in Thread, Construct(t) \/ Register(t) \/ ReadAll(t)
                               \/ WriteAll(t) \/ ReadKind(t) \/ WriteKind(t)
      PROVE  UNCHANGED handle
  BY <1>5 DEF Construct, Register, ReadAll, ReadKind, Read, WriteAll, WriteKind,
              libVars
<1>6. ASSUME NEW o \in Wrapper, Close(o) PROVE HandleOrder
  <2>1. {HandleOf(o)} \in SUBSET Handle
    BY CallFacts
  <2>2. CloseHandles({HandleOf(o)})
    BY <1>6, CloseFacts
  <2> QED
    BY <2>1, <2>2, ClosingFacts
<1>7. ASSUME NEW o \in Wrapper, Take(o) \/ Drop(o) \/ BeginDeinit(o)
      PROVE  UNCHANGED handle
  BY <1>7 DEF Take, Drop, BeginDeinit, libVars
<1>8. CASE ReleasePeer \/ LeaveFreed
  BY <1>8, LeaveFacts, ClosingFacts, CallFacts DEF libVars
<1> QED
  BY <1>1, <1>2, <1>3, <1>4, <1>5, <1>6, <1>7, <1>8
  DEF Steps, CreateDataChannel, CreateTrack, Handle

LEMMA HandleFacts ==
    ASSUME Typed, Steps
    PROVE  /\ \A h \in Handle : handle'[h] = "none" => handle[h] = "none"
           /\ \A h \in Handle : handle[h] \in {"closed", "deleted"} =>
                  handle'[h] \in {"closed", "deleted"}
           /\ \A h \in Handle : handle'[h] = "made" => handle[h] \in {"none", "made"}
<1>1. CASE HandleOrder
  BY <1>1, CallFacts DEF HandleOrder
<1>2. ASSUME NEW o \in Wrapper, FinishDeinit(o)
      PROVE  \A h \in Handle : handle'[h] = handle[h] \/ handle'[h] = "deleted"
  BY <1>2, DeinitFacts, DeleteFacts, CallFacts
<1> QED
  BY <1>1, <1>2, HandleSteps, CallFacts

\* What a step does to the status of the wrappers.
NoNewLife == \A o \in Wrapper : Alive(o)' => Alive(o)

LEMMA StatusFacts ==
    ASSUME Typed, Steps
    PROVE  /\ \A o \in Wrapper : status[o] # "unused" => status'[o] # "unused"
           /\ \/ NoNewLife /\ \A o \in Wrapper :
                     status'[o] # "unused" => status[o] # "unused"
              \/ \E t \in Thread : Construct(t) /\ Answerable(t)
<1>1. CASE UNCHANGED status
  BY <1>1 DEF NoNewLife, Alive
<1>2. ASSUME NEW t \in Thread, Construct(t), Answerable(t)
      PROVE  \A o \in Wrapper : status[o] # "unused" => status'[o] # "unused"
  BY <1>2, ConstructFacts
<1>3. ASSUME NEW o \in Wrapper, BeginDeinit(o) \/ FinishDeinit(o)
      PROVE  /\ NoNewLife
             /\ \A p \in Wrapper : status'[p] # "unused" <=> status[p] # "unused"
  BY <1>3, DeinitFacts DEF NoNewLife, Alive
<1> QED
  BY <1>1, <1>2, <1>3, RefSteps

\* Only a start brings a call to work on a handle.
NoNewMaking == \A t \in Thread : At(t)' \in Making =>
                   At(t) \in Making /\ call'[t].hdl = call[t].hdl
NoNewWork == \A t \in Thread : At(t)' \in Making \/ Adding(t)' =>
                 /\ At(t) \in Making \/ Adding(t)
                 /\ call'[t].hdl = call[t].hdl

LEMMA WorkFacts ==
    ASSUME Typed, Steps
    PROVE  \/ NoNewWork /\ NoNewMaking
           \/ \E ids \in SUBSET Handle, fact \in BOOLEAN : Obtain(ids, fact)
           \/ \E h \in Handle : AnnStart(h)
<1> USE IdleFacts DEF NoNewWork, NoNewMaking, At, Adding, Making, Kind, SetPlace
<1>1. CASE Aside
  BY <1>1, AsideKeeps DEF Registry
<1>2. CASE CreateDataChannel
  BY <1>2, ObtainWays
<1>3. CASE CreateTrack
  BY <1>3, ObtainWays
<1>4. CASE CheckExisting
  BY <1>4, CheckFacts DEF Moved, Returned, Others
<1>5. CASE AnnGuard
  BY <1>5, GuardFacts DEF Moved, Returned, Others
<1>6. CASE FinishPeerDeinit
  BY <1>6 DEF FinishPeerDeinit
<1>7. ASSUME NEW t \in Thread, Construct(t), Answerable(t) PROVE NoNewWork /\ NoNewMaking
  <2>1. At(t) = "construct"
    BY <1>7 DEF Construct
  <2> QED
    BY <1>7, <2>1, ConstructFacts
<1>8. ASSUME NEW t \in Thread, Construct(t), ~Answerable(t) PROVE NoNewWork /\ NoNewMaking
  BY <1>8, TrapFacts DEF Moved, Others
<1>9. ASSUME NEW t \in Thread, Register(t) PROVE NoNewWork /\ NoNewMaking
  BY <1>9, RegisterFacts DEF Moved, Others
<1>10. ASSUME NEW t \in Thread, ReadAll(t) \/ ReadKind(t) PROVE NoNewWork /\ NoNewMaking
  BY <1>10, ReadFacts DEF ReadAll, ReadKind, Moved, Returned, Others
<1>11. ASSUME NEW t \in Thread, WriteAll(t) PROVE NoNewWork /\ NoNewMaking
  BY <1>11, WriteAllFacts DEF Moved, Others
<1>12. ASSUME NEW t \in Thread, WriteKind(t) PROVE NoNewWork /\ NoNewMaking
  BY <1>12, WriteKindFacts DEF Returned, Others
<1>13. ASSUME NEW o \in Wrapper, Close(o) PROVE NoNewWork /\ NoNewMaking
  BY <1>13, CloseFacts DEF Others
<1>14. ASSUME NEW o \in Wrapper, Take(o) \/ Drop(o) PROVE NoNewWork /\ NoNewMaking
  BY <1>14 DEF Take, Drop
<1>15. ASSUME NEW o \in Wrapper, BeginDeinit(o) \/ FinishDeinit(o) PROVE NoNewWork /\ NoNewMaking
  BY <1>15, DeinitFacts
<1>16. CASE ReleasePeer \/ LeaveFreed
  BY <1>16, LeaveFacts DEF Moved, Returned, Others
<1> QED
  BY <1>1, <1>2, <1>3, <1>4, <1>5, <1>6, <1>7, <1>8, <1>9, <1>10, <1>11, <1>12,
     <1>13, <1>14, <1>15, <1>16 DEF Steps

LEMMA NewPending ==
    ASSUME Typed, Library PROVE pending' \subseteq Handle
BY DEF Typed, TypeOK, LibTypeOK, Library, LibStep, LibConnect, LibAnnounceRemote,
       LibOpen, LibMessage, LibError, LibCloseRemote, CbStart

LEMMA PendingFacts ==
    ASSUME Typed, Steps
    PROVE  \A h \in pending' : /\ h \in Handle
                              /\ \/ h \in pending
                                 \/ handle[h] = "none" /\ handle'[h] = "made"
<1>0. pending \subseteq Handle
  BY DEF Typed, TypeOK, LibTypeOK
<1>1. CASE Library
  BY <1>1, LibraryConn, NewPending
<1>2. CASE pending' \subseteq pending
  BY <1>0, <1>2
<1>3. ASSUME ~Library PROVE pending' \subseteq pending
  BY <1>3 DEF Steps, ReleasePeer, LeaveFreed, StartPeerDeinit, Aside, ClosePeer, DropPeer, BeginPeerDeinit, vars, libVars, CbRun,
     CreateDataChannel, CreateTrack, Obtain, CheckExisting, AnnGuard,
     FinishPeerDeinit, AnnStart, Construct, Register, ReadAll, ReadKind, Read,
     WriteAll, WriteKind, Close, Take, Drop, BeginDeinit, FinishDeinit
<1> QED
  BY <1>1, <1>2, <1>3

LEMMA NewHandlesStep == Typed /\ NewHandles /\ Steps => NewHandles'
<1> SUFFICES ASSUME Typed, NewHandles, Steps PROVE NewHandles'
  OBVIOUS
<1> USE IdleFacts DEF At, Making
<1>0. \A h \in Handle : handle'[h] = "none" => handle[h] = "none"
  BY HandleFacts
<1>1. \A h \in pending' : h \in Handle /\ handle'[h] # "none"
                           /\ (h \notin pending => handle[h] = "none")
  BY <1>0, PendingFacts DEF NewHandles
<1>2. ASSUME NEW o \in Wrapper,
             handle'[HandleOf(o)] = "none" \/ HandleOf(o) \in pending'
      PROVE  status'[o] = "unused"
  <2>1. handle[HandleOf(o)] = "none" \/ HandleOf(o) \in pending
    BY <1>0, <1>1, <1>2, CallFacts
  <2>2. ASSUME NEW t \in Thread, Construct(t), Answerable(t)
        PROVE  status'[o] = status[o]
    <3>1. At(t) = "construct"
      BY <2>2 DEF Construct
    <3>2. HandleOf(o) # call[t].hdl
      BY <2>1, <3>1 DEF NewHandles
    <3> QED
      BY <2>2, <3>2, ConstructFacts
  <2> QED
    BY <2>1, <2>2, StatusFacts DEF NewHandles
<1>3. ASSUME NEW t \in Thread, At(t) \in Making
      PROVE  call[t].hdl \notin pending' /\ handle'[call[t].hdl] # "none"
  <2>1. call[t].hdl \in Handle /\ call[t].hdl \notin pending
        /\ handle[call[t].hdl] # "none"
    BY <1>3, CallFacts DEF NewHandles
  <2> QED
    BY <1>0, <1>1, <2>1
<1>4. CASE NoNewMaking
  BY <1>1, <1>2, <1>3, <1>4 DEF NewHandles, NoNewMaking
<1>5. ASSUME NEW t \in Thread, NEW h \in Handle, NEW place, Started(t, place, h),
             h \notin pending', handle'[h] # "none"
      PROVE  NewHandles'
  BY <1>1, <1>2, <1>3, <1>5 DEF NewHandles, Started, Others
<1>6. ASSUME NEW ids \in SUBSET Handle, NEW fact \in BOOLEAN, Obtain(ids, fact)
      PROVE  NewHandles'
  <2>1. PICK h \in Handle : /\ Started("app", "check", h) /\ handle'[h] = "made"
                            /\ h \notin pending'
    BY <1>6, ObtainFacts, CallFacts DEF NewHandles
  <2> QED
    BY <1>5, <2>1
<1>7. ASSUME NEW h \in Handle, AnnStart(h) PROVE NewHandles'
  <2>1. h \notin pending' /\ handle'[h] # "none"
    BY <1>7, AnnStartFacts DEF NewHandles
  <2> QED
    BY <1>5, <1>7, <2>1, AnnStartFacts
<1> QED
  BY <1>4, <1>6, <1>7, WorkFacts

----------------------------------------------------------------------------
LEMMA OneWrapperStep ==
    Typed /\ Reserved /\ OneWrapper /\ Steps => OneWrapper'
<1> SUFFICES ASSUME Typed, Reserved, OneWrapper, Steps PROVE OneWrapper'
  OBVIOUS
<1>1. CASE NoNewLife
  BY <1>1 DEF NoNewLife, OneWrapper
<1>2. ASSUME NEW t \in Thread, Construct(t), Answerable(t) PROVE OneWrapper'
  <2>1. At(t) = "construct"
    BY <1>2 DEF Construct
  <2>2. PICK o \in Wrapper :
           /\ HandleOf(o) = call[t].hdl
           /\ \A p \in Wrapper \ {o} : status'[p] = status[p]
    BY <1>2, ConstructFacts
  <2>3. \A p \in Wrapper : HandleOf(p) = call[t].hdl => ~Alive(p)
    BY <2>1 DEF Reserved, Making
  <2> QED
    BY <2>2, <2>3 DEF OneWrapper, Alive
<1> QED
  BY <1>1, <1>2, StatusFacts

----------------------------------------------------------------------------
LEMMA InTimeStep ==
    Typed /\ RetainedLive /\ NewHandles /\ Reserved /\ OneWrapper /\ InTime /\ Steps
        => InTime'
<1> SUFFICES ASSUME Typed, RetainedLive, NewHandles, Reserved, OneWrapper,
                    InTime, Steps
             PROVE  InTime'
  OBVIOUS
<1>1. ASSUME NEW t \in Thread, At(t) \in Making \/ Adding(t)
      PROVE  call[t].hdl \in Handle /\ handle'[call[t].hdl] # "deleted"
  <2>1. call[t].hdl \in Handle /\ handle[call[t].hdl] # "deleted"
    BY <1>1, CallFacts DEF InTime, Making, Adding, Kind, SetPlace
  <2>2. ASSUME NEW o \in Wrapper, FinishDeinit(o)
        PROVE  HandleOf(o) # call[t].hdl
    <3>1. status[o] = "deinit" /\ Alive(o)
      BY <2>2, DeinitFacts DEF Alive
    <3>2. CASE At(t) \in Making
      BY <3>1, <3>2 DEF Reserved
    <3>3. CASE Adding(t)
      <4>1. call[t].obj \in Wrapper /\ HandleOf(call[t].obj) = call[t].hdl
        BY <3>3 DEF Typed, Located, HasObject, Adding, SetPlace
      <4>2. status[call[t].obj] = "live"
        BY <4>1 DEF RetainedLive, Retained
      <4> QED
        BY <3>1, <4>1, <4>2 DEF OneWrapper, Alive
    <3> QED
      BY <1>1, <3>2, <3>3
  <2>3. ASSUME NEW o \in Wrapper, FinishDeinit(o)
        PROVE  handle'[call[t].hdl] = handle[call[t].hdl]
    BY <2>1, <2>2, <2>3, DeinitFacts, DeleteFacts, CallFacts
  <2> QED
    BY <2>1, <2>3, HandleSteps DEF HandleOrder
<1>2. ASSUME NEW h \in pending' PROVE handle'[h] # "deleted"
  <2>1. h \in Handle /\ (h \in pending \/ handle'[h] = "made")
    BY <1>2, PendingFacts
  <2>2. ASSUME h \in pending, NEW o \in Wrapper, FinishDeinit(o)
        PROVE  handle'[h] = handle[h]
    <3>1. HandleOf(o) # h /\ HandleOf(o) \in Handle
      BY <2>2, DeinitFacts, CallFacts DEF NewHandles
    <3> QED
      BY <2>1, <2>2, <3>1, DeinitFacts, DeleteFacts
  <2> QED
    BY <2>1, <2>2, HandleSteps DEF HandleOrder, InTime
<1>3. CASE NoNewWork
  BY <1>1, <1>2, <1>3 DEF InTime, NoNewWork
<1>4. ASSUME NEW t \in Thread, NEW h \in Handle, NEW place,
             Started(t, place, h), handle'[h] # "deleted"
      PROVE  InTime'
  BY <1>1, <1>2, <1>4 DEF InTime, Started, Others, At, Adding
<1>5. ASSUME NEW ids \in SUBSET Handle, NEW fact \in BOOLEAN, Obtain(ids, fact)
      PROVE  InTime'
  <2>1. PICK h \in Handle : Started("app", "check", h) /\ handle'[h] = "made"
    BY <1>5, ObtainFacts, CallFacts
  <2> QED
    BY <1>4, <2>1, IdleFacts
<1>6. ASSUME NEW h \in Handle, AnnStart(h) PROVE InTime'
  BY <1>4, <1>6, AnnStartFacts, IdleFacts DEF InTime
<1> QED
  BY <1>3, <1>5, <1>6, WorkFacts

----------------------------------------------------------------------------
\* If no handle is presented twice, the handle of a starting call is unused.
LEMMA FreshReserved == Fresh => Reserved
BY DEF Fresh, Reserved, Alive

LEMMA FreshStep ==
    Typed /\ ~Revisits /\ NewHandles /\ Fresh /\ Steps => Fresh'
<1> SUFFICES ASSUME Typed, ~Revisits, NewHandles, Fresh, Steps PROVE Fresh'
  OBVIOUS
<1> USE IdleFacts DEF At, Making
<1>1. CASE NoNewMaking /\ \A o \in Wrapper : status'[o] # "unused" => status[o] # "unused"
  BY <1>1 DEF Fresh, NoNewMaking
<1>2. ASSUME NEW t \in Thread, Construct(t), Answerable(t) PROVE Fresh'
  <2>1. At(t) = "construct"
    BY <1>2 DEF Construct
  <2>2. PICK o \in Wrapper :
           /\ HandleOf(o) = call[t].hdl /\ At(t)' = "open"
           /\ \A p \in Wrapper \ {o} : status'[p] = status[p]
           /\ \A u \in Thread : u # t => call'[u] = call[u]
    BY <1>2, ConstructFacts
  <2>3. \A p \in Wrapper : HandleOf(p) = HandleOf(o) => status[p] = "unused"
    BY <2>1, <2>2 DEF Fresh
  <2>4. \A u \in Thread : At(u)' \in Making => call'[u].hdl # HandleOf(o)
                              /\ call'[u] = call[u]
    BY <2>1, <2>2 DEF Fresh
  <2> QED
    BY <2>2, <2>3, <2>4 DEF Fresh
<1>3. ASSUME NEW t \in Thread, NEW h \in Handle, NEW place, Started(t, place, h),
             UNCHANGED status,
             \A o \in Wrapper : HandleOf(o) = h => status[o] = "unused",
             \A u \in Thread : At(u) \in Making => call[u].hdl # h
      PROVE  Fresh'
  BY <1>3 DEF Fresh, Started, Others
<1>4. ASSUME NEW ids \in SUBSET Handle, NEW fact \in BOOLEAN, Obtain(ids, fact)
      PROVE  Fresh'
  <2>1. PICK h \in Handle : Started("app", "check", h) /\ handle[h] = "none"
    BY <1>4, ObtainFacts
  <2>2. UNCHANGED status
    BY <1>4, ObtainFacts DEF objVars
  <2> QED
    BY <1>3, <2>1, <2>2 DEF NewHandles
<1>5. ASSUME NEW h \in Handle, AnnStart(h) PROVE Fresh'
  <2>1. Started("lib", "entered", h) /\ h \in pending /\ UNCHANGED status
    BY <1>5, AnnStartFacts DEF objVars
  <2> QED
    BY <1>3, <2>1 DEF NewHandles
<1>6. CASE NoNewMaking /\ \E t \in Thread : Construct(t) /\ Answerable(t)
  BY <1>2, <1>6
<1> QED
  BY <1>1, <1>4, <1>5, <1>6, WorkFacts, StatusFacts

----------------------------------------------------------------------------
\* If announcements do not overlap the calls of the application, at most one
\* thread is in a call; with none in a call either thread will do.
LEMMA SerialReserved == Typed /\ RetainedLive /\ Roles /\ Serial => Reserved
<1> SUFFICES ASSUME Typed, RetainedLive, Roles, Serial,
                    NEW u \in Thread, NEW o \in Wrapper, At(u) \in Making,
                    Alive(o), HandleOf(o) = call[u].hdl
             PROVE  At(u) # "construct" /\ status[o] = "live"
  BY DEF Reserved
<1>1. PICK t \in Thread : SerialAt(t)
  BY DEF Serial
<1>2. u = t /\ Guarded(t)
  BY <1>1 DEF SerialAt, Making
<1>3. At(u) # "construct" /\ (o \in channels \/ Listed(o))
  BY <1>2 DEF Guarded, Making
<1> QED
  BY <1>3 DEF RetainedLive, Retained, Listed

LEMMA SerialQuiet ==
    ASSUME NEW t \in Thread, SerialAt(t), At(t) = "idle", NEW u \in Thread
    PROVE  SerialAt(u)
<1>1. \A v \in Thread : At(v) = "idle"
  BY DEF SerialAt
<1>2. ~Adding(t) /\ ~Removing(t) /\ ~Adding(u) /\ ~Removing(u)
  BY <1>1 DEF Adding, Removing, Kind, SetPlace
<1>3. Guarded(u) /\ Snapshot(u)
  BY <1>1 DEF Guarded, Snapshot
<1>4. Target(u)
  BY <1>2 DEF SerialAt, Target
<1>5. ASSUME peerStatus = "live" PROVE Agree(u) /\ OpenIsListed(u) /\ ShutIsOut(u)
  <2>1. Agree(t) /\ OpenIsListed(t) /\ ShutIsOut(t)
    BY <1>5 DEF SerialAt
  <2>2. Agree(u)
    BY <1>1, <2>1 DEF Agree
  <2> QED
    BY <1>2, <2>1, <2>2 DEF OpenIsListed, ShutIsOut
<1> QED
  BY <1>1, <1>3, <1>4, <1>5 DEF SerialAt

LEMMA SerialStart ==
    ASSUME Typed, Serial, ~Overlap, NEW t \in Thread, MayStart(t)
    PROVE  SerialAt(t) /\ \A u \in Thread : At(u) = "idle"
<1>1. \A u \in Thread : At(u) = "idle"
  BY IdleFacts DEF MayStart, Other
<1> QED
  BY <1>1, SerialQuiet DEF Serial

LEMMA SerialBusy ==
    ASSUME Serial, NEW t \in Thread, At(t) # "idle" PROVE SerialAt(t)
BY DEF Serial, SerialAt

\* What every step keeps for a wrapper.
LEMMA KeptFacts ==
    ASSUME Typed, NewHandles, Steps
    PROVE  /\ peerStatus' = "live" => peerStatus = "live"
           /\ \A o \in Wrapper : Alive(o) /\ handle'[HandleOf(o)] = "made" =>
                  handle[HandleOf(o)] = "made"
           /\ \A o \in Wrapper : Alive(o) =>
                  handle[HandleOf(o)] # "none"
<1>1. peerStatus' = "live" => peerStatus = "live"
  BY DEF Steps, ReleasePeer, LeaveFreed, StartPeerDeinit, Aside, Library, ClosePeer, DropPeer, BeginPeerDeinit, vars, objVars, CbRun,
     CreateDataChannel, CreateTrack, Obtain, CheckExisting, AnnGuard,
     FinishPeerDeinit, AnnStart, Construct, Register, ReadAll, ReadKind, Read,
     WriteAll, WriteKind, Close, Take, Drop, BeginDeinit, FinishDeinit
<1>2. \A o \in Wrapper : Alive(o) => handle[HandleOf(o)] # "none"
  BY DEF NewHandles, Alive
<1> QED
  BY <1>1, <1>2, HandleFacts, CallFacts

LEMMA SerialFrame ==
    ASSUME Typed, NewHandles, Steps, NEW t \in Thread, SerialAt(t),
           UNCHANGED <<setVars, shut, call>>, NoNewLife,
           appRefs' \subseteq appRefs \/ At(t) = "idle"
    PROVE  SerialAt(t)'
<1> USE DEF At, Adding, Removing, SetPlace, Kind, Listed, setVars
<1>1. Guarded(t)' /\ Kinds'
  BY DEF SerialAt, Guarded, Kinds, NoNewLife
<1>2. Snapshot(t)'
  BY DEF SerialAt, Snapshot, KindSet
<1>3. Target(t)'
  BY StatusFacts, HandleFacts, CallFacts DEF SerialAt, Target, Typed, TypeOK
<1>4. ASSUME peerStatus' = "live"
      PROVE  Agree(t)' /\ OpenIsListed(t)' /\ ShutIsOut(t)'
  <2>1. Agree(t) /\ OpenIsListed(t) /\ ShutIsOut(t)
    BY <1>4, KeptFacts DEF SerialAt
  <2>2. Agree(t)' /\ ShutIsOut(t)'
    BY <2>1 DEF Agree, ShutIsOut
  <2>3. OpenIsListed(t)'
    BY <2>1, KeptFacts DEF OpenIsListed, NoNewLife
  <2> QED
    BY <2>2, <2>3
<1>5. \A u \in Thread : u # t => At(u)' = "idle"
  BY DEF SerialAt
<1> QED
  BY <1>1, <1>2, <1>3, <1>4, <1>5 DEF SerialAt

LEMMA SerialLibrary ==
    ASSUME Typed, Roles, NewHandles, PeerPlaces, Serial, ~Overlap, Steps,
           \/ Aside \/ FinishPeerDeinit
           \/ \E o \in Wrapper : Take(o) \/ Drop(o) \/ BeginDeinit(o) \/ FinishDeinit(o)
    PROVE  Serial'
<1>1. PICK t \in Thread : SerialAt(t)
  BY DEF Serial
<1>2. CASE Aside
  BY <1>1, <1>2, AsideKeeps, SerialFrame DEF Registry, setVars, NoNewLife, Alive, Serial
<1>3. ASSUME NEW o \in Wrapper, Take(o) \/ Drop(o) PROVE Serial'
  <2>1. SerialAt("app") /\ At("app") = "idle"
    BY <1>3, SerialStart, IdleFacts DEF Take, Drop
  <2>2. UNCHANGED <<setVars, shut, call, status>>
    BY <1>3 DEF Take, Drop
  <2> QED
    BY <2>1, <2>2, SerialFrame, IdleFacts DEF NoNewLife, Alive, Serial
<1>4. ASSUME NEW o \in Wrapper, BeginDeinit(o) \/ FinishDeinit(o) PROVE Serial'
  <2>1. UNCHANGED <<setVars, shut, call, appRefs>> /\ NoNewLife
    BY <1>4, DeinitFacts DEF NoNewLife, Alive
  <2> QED
    BY <1>1, <2>1, SerialFrame DEF Serial
<1>5. CASE FinishPeerDeinit
  <2> USE IdleFacts DEF At, Adding, Removing, SetPlace, Kind, Listed
  <2>1. /\ peerStatus = "deinit" /\ peerStatus' = "freed"
        /\ At("lib") \in {"idle", "deleting"}
        /\ UNCHANGED <<shut, call, appRefs, status, handle>>
        /\ channels' = {} /\ dataChannels' = {} /\ tracks' = {}
    BY <1>5 DEF FinishPeerDeinit
  <2>2. ~HoldsPeer("app")
    BY <2>1 DEF PeerPlaces
  <2>3. At(t) \notin {"entered", "check", "construct", "writeAll", "writeKind"}
        /\ (At(t) = "readKind" => ~call[t].adding)
    BY <2>1, <2>2 DEF HoldsPeer, Roles
  <2>4. Guarded(t)'
    BY <1>1, <2>1, <2>3 DEF SerialAt, Guarded
  <2>5. Snapshot(t)'
    BY <1>1, <2>1, <2>3 DEF SerialAt, Snapshot
  <2>6. Kinds' /\ Target(t)'
    BY <1>1, <2>1, <2>3 DEF SerialAt, Kinds, Target
  <2> QED
    BY <1>1, <2>1, <2>4, <2>5, <2>6 DEF SerialAt, Serial
<1> QED
  BY <1>2, <1>3, <1>4, <1>5

LEMMA SerialStarted ==
    ASSUME Typed, NewHandles, Steps, NEW t \in Thread, SerialAt(t),
           At(t) = "idle", NEW h, NEW place \in {"check", "entered"},
           Started(t, place, h), UNCHANGED <<setVars, objVars>>,
           \A o \in Wrapper : Alive(o) /\ HandleOf(o) = h =>
               o \in channels /\ Listed(o)
    PROVE  Serial'
<1> USE DEF At, Adding, Removing, SetPlace, Kind, Listed, setVars, objVars
<1>1. At(t)' = place /\ call'[t].hdl = h
  BY DEF Started
<1>2. ~Adding(t)' /\ ~Removing(t)' /\ ~Adding(t) /\ ~Removing(t)
  BY <1>1
<1>3. Guarded(t)'
  BY <1>1 DEF Guarded, Alive
<1>4. Snapshot(t)' /\ Kinds'
  BY <1>1 DEF Snapshot, SerialAt, Kinds
<1>5. Target(t)'
  BY <1>2 DEF SerialAt, Target
<1>6. ASSUME peerStatus' = "live"
      PROVE  Agree(t)' /\ OpenIsListed(t)' /\ ShutIsOut(t)'
  <2>1. Agree(t) /\ OpenIsListed(t) /\ ShutIsOut(t)
    BY <1>6 DEF SerialAt
  <2>2. Agree(t)'
    BY <1>1, <2>1 DEF Agree
  <2>3. OpenIsListed(t)'
    BY <1>2, <2>1, KeptFacts DEF OpenIsListed, Alive
  <2>4. ShutIsOut(t)'
    BY <1>2, <2>1 DEF ShutIsOut
  <2> QED
    BY <2>2, <2>3, <2>4
<1>7. \A u \in Thread : u # t => At(u)' = "idle"
  BY DEF SerialAt, Started, Others
<1> QED
  BY <1>3, <1>4, <1>5, <1>6, <1>7 DEF SerialAt, Serial

LEMMA SerialStarts ==
    ASSUME Typed, NewHandles, PeerPlaces, Serial, ~Overlap, Steps,
           \/ \E ids \in SUBSET Handle, fact \in BOOLEAN : Obtain(ids, fact)
           \/ \E h \in Handle : AnnStart(h)
    PROVE  Serial'
<1>1. ASSUME NEW t \in Thread, MayStart(t), NEW h \in Handle,
             \/ handle[h] = "none" \/ h \in pending
             \/ conn # "closed" /\ handle[h] = "made"
      PROVE  /\ SerialAt(t) /\ At(t) = "idle"
             /\ \A o \in Wrapper : Alive(o) /\ HandleOf(o) = h =>
                    o \in channels /\ Listed(o)
  <2>1. SerialAt(t) /\ At(t) = "idle"
    BY <1>1, SerialStart
  <2>2. ASSUME NEW o \in Wrapper, Alive(o), HandleOf(o) = h
        PROVE  conn # "closed" /\ handle[h] = "made"
    BY <1>1, <2>2 DEF NewHandles, Alive
  <2>3. ~Adding(t)
    BY <2>1 DEF Adding, Kind, SetPlace
  <2> QED
    BY <2>1, <2>2, <2>3 DEF SerialAt, OpenIsListed, PeerPlaces
<1>2. ASSUME NEW ids \in SUBSET Handle, NEW fact \in BOOLEAN, Obtain(ids, fact)
      PROVE  Serial'
  <2>1. PICK h \in Handle : /\ Started("app", "check", h)
                            /\ handle[h] = "none" \/ handle[h] = "made"
    BY <1>2, ObtainFacts
  <2>2. MayStart("app") /\ conn # "closed" /\ UNCHANGED <<setVars, objVars>>
    BY <1>2, ObtainFacts
  <2> QED
    BY <1>1, <2>1, <2>2, SerialStarted, IdleFacts
<1>3. ASSUME NEW h \in Handle, AnnStart(h) PROVE Serial'
  BY <1>1, <1>3, AnnStartFacts, SerialStarted, IdleFacts
<1> QED
  BY <1>2, <1>3

\* A move of the call that leaves the sets alone.
LEMMA SerialMoved ==
    ASSUME Typed, NEW t \in Thread, SerialAt(t), NEW place, Moved(t, place),
           UNCHANGED <<handle, status, setVars, shut, appRefs, peerStatus>>,
           Guarded(t)', Snapshot(t)',
           Adding(t)' => Adding(t), Removing(t)' => Removing(t),
           At(t) \in {"readKind", "writeKind"} => place \in {"readKind", "writeKind"},
           Adding(t) => Adding(t)' \/ handle[call[t].hdl] # "made",
           Removing(t) => Removing(t)',
           At(t) \in {"readAll", "writeAll"} => place \in {"readAll", "writeAll"}
    PROVE  Serial'
<1>1. /\ At(t)' = place /\ call'[t].hdl = call[t].hdl /\ call'[t].obj = call[t].obj
      /\ \A u \in Thread : u # t => At(u)' = "idle"
  BY DEF At, Moved, Others, SerialAt
<1>2. Kinds' /\ \A o \in Wrapper : (Alive(o)' <=> Alive(o)) /\ (Listed(o)' <=> Listed(o))
  BY DEF SerialAt, Kinds, setVars, Alive, Listed
<1>3. Target(t)'
  BY <1>1 DEF SerialAt, Target
<1>4. Adding(t) => call[t].obj \in Wrapper /\ HandleOf(call[t].obj) = call[t].hdl
  BY DEF Typed, Located, HasObject, Adding, SetPlace
<1> HIDE DEF Adding, Removing, Alive, Listed
<1>5. ASSUME peerStatus' = "live"
      PROVE  Agree(t)' /\ OpenIsListed(t)' /\ ShutIsOut(t)'
  <2>1. Agree(t) /\ OpenIsListed(t) /\ ShutIsOut(t)
    BY <1>5 DEF SerialAt
  <2>2. Agree(t)'
    BY <1>1, <1>2, <2>1 DEF Agree, setVars
  <2>3. OpenIsListed(t)'
    BY <1>1, <1>2, <1>4, <2>1 DEF OpenIsListed, setVars
  <2>4. ShutIsOut(t)'
    BY <1>1, <1>2, <2>1 DEF ShutIsOut, setVars, Typed, TypeOK
  <2> QED
    BY <2>2, <2>3, <2>4
<1> QED
  BY <1>1, <1>2, <1>3, <1>5 DEF SerialAt, Serial

\* The return of a call that has nothing to add or to remove any more.
LEMMA SerialReturned ==
    ASSUME Typed, NEW t \in Thread, SerialAt(t), Returned(t),
           UNCHANGED <<handle, status, setVars, shut, peerStatus>>,
           peerStatus = "live" => /\ ~Adding(t) /\ ~Removing(t)
                                  /\ At(t) \notin {"readKind", "writeKind"}
    PROVE  Serial'
<1>1. /\ At(t)' \in {"idle", "leaving"}
      /\ \A u \in Thread : u # t => At(u)' = "idle"
  BY DEF At, Returned, Others, SerialAt
<1>2. /\ Kinds' /\ ~Adding(t)' /\ ~Removing(t)'
      /\ \A o \in Wrapper : (Alive(o)' <=> Alive(o)) /\ (Listed(o)' <=> Listed(o))
  BY <1>1 DEF SerialAt, Kinds, setVars, Alive, Listed, Adding, Removing, Kind, SetPlace
<1>3. Guarded(t)' /\ Snapshot(t)' /\ Target(t)'
  BY <1>1, <1>2 DEF Guarded, Snapshot, SerialAt, Target
<1> HIDE DEF Adding, Removing, Alive, Listed
<1>4. ASSUME peerStatus' = "live"
      PROVE  Agree(t)' /\ OpenIsListed(t)' /\ ShutIsOut(t)'
  <2>1. Agree(t) /\ OpenIsListed(t) /\ ShutIsOut(t)
    BY <1>4 DEF SerialAt
  <2>2. Agree(t)' /\ OpenIsListed(t)'
    BY <1>2, <1>4, <2>1 DEF Agree, OpenIsListed, setVars
  <2>3. ShutIsOut(t)'
    BY <1>2, <1>4, <2>1 DEF ShutIsOut, setVars, Typed, TypeOK
  <2> QED
    BY <2>2, <2>3
<1> QED
  BY <1>1, <1>2, <1>3, <1>4 DEF SerialAt, Serial

LEMMA SerialClose ==
    ASSUME Typed, RetainedLive, NewHandles, Serial, ~Overlap, Steps,
           NEW o \in Wrapper, Close(o)
    PROVE  Serial'
<1>1. SerialAt("app") /\ \A u \in Thread : At(u) = "idle"
  BY CloseFacts, SerialStart, IdleFacts
<1>2. /\ At("app")' = "readAll" /\ call'["app"].hdl = HandleOf(o)
      /\ call'["app"].obj = o /\ ~call'["app"].adding
      /\ \A u \in Thread : u # "app" => At(u)' = "idle"
      /\ shut' = shut \cup {o} /\ o \in appRefs
      /\ UNCHANGED <<setVars, status, peerStatus, appRefs>>
  BY <1>1, CloseFacts DEF Others, At
<1>3. /\ Removing("app")' /\ ~Adding("app")' /\ ~Adding("app") /\ ~Removing("app")
      /\ Kinds' /\ \A p \in Wrapper : (Alive(p)' <=> Alive(p)) /\ (Listed(p)' <=> Listed(p))
  BY <1>1, <1>2, IdleFacts
  DEF Adding, Removing, SetPlace, Kind, SerialAt, Kinds, Alive, Listed, setVars
<1>4. status[o] = "live" /\ handle'[HandleOf(o)] \in {"closed", "deleted"}
  <2>1. status[o] = "live"
    BY <1>2 DEF RetainedLive, Retained
  <2>2. HandleOf(o) \in Handle /\ handle[HandleOf(o)] # "none"
    BY <2>1, CallFacts DEF NewHandles
  <2>3. {HandleOf(o)} \in SUBSET Handle /\ CloseHandles({HandleOf(o)})
    BY <2>2, CloseFacts
  <2> QED
    BY <2>1, <2>2, <2>3, ClosingFacts, CallFacts
<1> HIDE DEF Adding, Removing, Alive, Listed
<1>5. Guarded("app")' /\ Snapshot("app")' /\ Target("app")'
  BY <1>1, <1>2, <1>3, <1>4 DEF Guarded, Snapshot, Target, SerialAt
<1>6. ASSUME peerStatus' = "live"
      PROVE  Agree("app")' /\ OpenIsListed("app")' /\ ShutIsOut("app")'
  <2>1. Agree("app") /\ OpenIsListed("app") /\ ShutIsOut("app")
    BY <1>1, <1>2, <1>6 DEF SerialAt
  <2>2. Agree("app")'
    BY <1>1, <1>2, <1>3, <2>1, IdleFacts DEF Agree, setVars
  <2>3. OpenIsListed("app")'
    BY <1>2, <1>3, <2>1, KeptFacts DEF OpenIsListed, setVars
  <2>4. ShutIsOut("app")'
    BY <1>2, <1>3, <2>1 DEF ShutIsOut, setVars, Typed, TypeOK
  <2> QED
    BY <2>2, <2>3, <2>4
<1> QED
  BY <1>2, <1>3, <1>5, <1>6, IdleFacts DEF SerialAt, Serial

\* The last moves of an announcement callback, and a guard that has found
\* the wrapper.
LEMMA SerialLeaves ==
    ASSUME Typed, Roles, Serial,
           \/ ReleasePeer \/ LeaveFreed
           \/ AnnGuard /\ Moved("lib", "leaving")
    PROVE  Serial'
<1>1. /\ At("lib") \in {"entered", "leaving", "deleting"}
      /\ At("lib")' \in {"idle", "leaving", "deleting"} /\ Others("lib")
      /\ UNCHANGED <<setVars, status, shut>>
      /\ \/ UNCHANGED <<handle, peerStatus>>
         \/ peerStatus' # "live" /\ CloseHandles(Handle)
  BY LeaveFacts, GuardFacts DEF At, Moved, Returned, libVars, objVars
<1>2. SerialAt("lib")
  BY <1>1, SerialBusy, IdleFacts
<1>3. /\ ~Adding("lib") /\ ~Removing("lib") /\ ~Adding("lib")' /\ ~Removing("lib")'
      /\ \A u \in Thread : u # "lib" => At(u)' = "idle"
  BY <1>1, <1>2 DEF Adding, Removing, Kind, SetPlace, SerialAt, Others, At
<1>4. Kinds' /\ \A o \in Wrapper : (Alive(o)' <=> Alive(o)) /\ (Listed(o)' <=> Listed(o))
  BY <1>1, <1>2 DEF SerialAt, Kinds, setVars, Alive, Listed
<1>5. Guarded("lib")' /\ Snapshot("lib")' /\ Target("lib")'
  BY <1>1, <1>2, <1>3 DEF Guarded, Snapshot, Target, SerialAt
<1> HIDE DEF Adding, Removing, Alive, Listed
<1>6. ASSUME peerStatus' = "live"
      PROVE  Agree("lib")' /\ OpenIsListed("lib")' /\ ShutIsOut("lib")'
  <2>1. /\ UNCHANGED <<handle, peerStatus>>
        /\ Agree("lib") /\ OpenIsListed("lib") /\ ShutIsOut("lib")
    BY <1>1, <1>2, <1>6 DEF SerialAt
  <2>2. Agree("lib")' /\ OpenIsListed("lib")'
    BY <1>1, <1>3, <1>4, <2>1 DEF Agree, OpenIsListed, setVars
  <2>3. ShutIsOut("lib")'
    BY <1>1, <1>3, <1>4, <2>1 DEF ShutIsOut, setVars, Typed, TypeOK
  <2> QED
    BY <2>2, <2>3
<1> QED
  BY <1>3, <1>4, <1>5, <1>6, IdleFacts DEF SerialAt, Serial

LEMMA SerialGuards ==
    ASSUME Typed, Roles, Serial,
           CheckExisting \/ (AnnGuard /\ ~Moved("lib", "leaving"))
    PROVE  Serial'
<1> USE DEF Adding, Removing, Kind, SetPlace
<1>1. PICK t \in Thread :
        /\ At(t) \in {"check", "entered"}
        /\ Returned(t) \/ Moved(t, "construct")
        /\ Moved(t, "construct") => \A o \in Wrapper :
               ~(HandleOf(o) = call[t].hdl
                 /\ (IF At(t) = "check" THEN o \in KindSet(call[t].hdl)
                                        ELSE o \in channels))
        /\ Returned(t) \/ UNCHANGED appRefs
        /\ UNCHANGED <<handle, status, setVars, shut, peerStatus>>
  <2>1. CASE CheckExisting
    BY <2>1, CheckFacts, IdleFacts DEF libVars, Same, Moved, Returned
  <2>2. CASE AnnGuard /\ ~Moved("lib", "leaving")
    <3>1. /\ At("lib") = "entered" /\ Moved("lib", "construct")
          /\ Same(channels, call["lib"].hdl) = {}
          /\ UNCHANGED <<libVars, setVars, objVars>>
      BY <2>2, GuardFacts
    <3>2. \A o \in Wrapper : ~(HandleOf(o) = call["lib"].hdl /\ o \in channels)
      BY <3>1 DEF Same
    <3> QED
      BY <3>1, <3>2, IdleFacts DEF libVars, objVars
  <2> QED
    BY <2>1, <2>2
<1>2. SerialAt(t) /\ At(t) \in {"check", "entered"}
  BY <1>1, SerialBusy
<1>3. CASE Returned(t)
  BY <1>1, <1>2, <1>3, SerialReturned
<1>4. CASE Moved(t, "construct") /\ UNCHANGED appRefs
  <2>1. Guarded(t)'
    <3> SUFFICES ASSUME NEW o \in Wrapper, Alive(o), HandleOf(o) = call[t].hdl
                 PROVE  FALSE
      BY <1>1, <1>4 DEF Guarded, Moved, Alive, At
    <3>1. o \in channels \/ Listed(o)
      BY <1>2 DEF SerialAt, Guarded
    <3>2. At(t) = "check" => o \in KindSet(call[t].hdl)
      BY <1>2, <3>1, IdsAssumption DEF SerialAt, Guarded, Kinds, Listed, KindSet
    <3>3. At(t) = "entered" => o \in channels
      BY <1>2 DEF SerialAt, Guarded
    <3> QED
      BY <1>1, <1>2, <1>4, <3>2, <3>3
  <2>2. Snapshot(t)' /\ ~Adding(t)' /\ ~Adding(t) /\ ~Removing(t)' /\ ~Removing(t)
    BY <1>2, <1>4 DEF Snapshot, Moved, At
  <2> QED
    BY <1>1, <1>2, <1>4, <2>1, <2>2, SerialMoved
<1> QED
  BY <1>1, <1>3, <1>4

LEMMA SerialReads ==
    ASSUME Typed, Roles, Serial, NEW t \in Thread, ReadAll(t) \/ ReadKind(t)
    PROVE  Serial'
<1> USE DEF Adding, Removing, Kind, SetPlace
<1>1. /\ At(t) \in {"readAll", "readKind"}
      /\ \/ PeerGone(t) /\ Returned(t)
         \/ At(t) = "readAll" /\ Moved(t, "writeAll") /\ call'[t].snap = channels
         \/ At(t) = "readKind" /\ Moved(t, "writeKind")
                /\ call'[t].snap = KindSet(call[t].hdl)
      /\ UNCHANGED <<libVars, setVars, objVars>>
  BY ReadFacts DEF ReadAll, ReadKind
<1>2. SerialAt(t)
  BY <1>1, SerialBusy
<1>3. CASE PeerGone(t) /\ Returned(t)
  BY <1>1, <1>2, <1>3, SerialReturned DEF PeerGone, libVars, objVars
<1>4. ASSUME NEW place \in {"writeAll", "writeKind"}, Moved(t, place),
             place = "writeAll" <=> At(t) = "readAll",
             call'[t].snap = IF place = "writeAll" THEN channels
                             ELSE KindSet(call[t].hdl)
      PROVE  Serial'
  <2>1. UNCHANGED <<handle, status, setVars, shut, appRefs, peerStatus>>
    BY <1>1 DEF libVars, objVars
  <2>2. Guarded(t)'
    BY <1>4 DEF Guarded, Moved, At
  <2>3. Snapshot(t)'
    BY <1>1, <1>2, <1>4, <2>1 DEF SerialAt, Snapshot, Moved, At, KindSet, setVars
  <2>4. (Adding(t)' <=> Adding(t)) /\ (Removing(t)' <=> Removing(t))
    BY <1>1, <1>4 DEF Moved, At
  <2> HIDE DEF Adding, Removing
  <2> QED
    BY <1>1, <1>2, <1>4, <2>1, <2>2, <2>3, <2>4, SerialMoved
<1> QED
  BY <1>1, <1>3, <1>4

LEMMA SerialRegister ==
    ASSUME Typed, Roles, Serial, NEW t \in Thread,
           Register(t) \/ (Construct(t) /\ ~Answerable(t))
    PROVE  Serial'
<1> USE DEF Adding, Removing, Kind, SetPlace
<1>1. CASE Register(t)
  <2>1. PICK place \in Kind \cup {"readAll", "trapped"} :
           /\ Moved(t, place)
           /\ place = "trapped" => handle[call[t].hdl] = "deleted"
    BY <1>1, RegisterFacts
  <2>2. /\ At(t) \in Kind /\ SerialAt(t)
        /\ UNCHANGED <<handle, status, setVars, shut, appRefs, peerStatus>>
    BY <1>1, RegisterFacts, SerialBusy DEF objVars
  <2>3. Adding(t) /\ ~Removing(t) /\ ~Removing(t)'
        /\ (place = "trapped" \/ Adding(t)')
    BY <2>1, <2>2 DEF Roles, Moved, At, Making
  <2>4. Guarded(t)' /\ Snapshot(t)'
    BY <2>1, <2>2 DEF Guarded, Snapshot, Moved, At
  <2> HIDE DEF Adding, Removing
  <2> QED
    BY <2>1, <2>2, <2>3, <2>4, SerialMoved
<1>2. CASE Construct(t) /\ ~Answerable(t)
  <2>1. /\ At(t) = "construct" /\ SerialAt(t) /\ Moved(t, "trapped")
        /\ UNCHANGED <<handle, status, setVars, shut, appRefs, peerStatus>>
    BY <1>2, TrapFacts, SerialBusy DEF libVars, objVars
  <2>2. Guarded(t)' /\ Snapshot(t)'
    BY <2>1 DEF Guarded, Snapshot, Moved, At
  <2>3. ~Adding(t) /\ ~Adding(t)' /\ ~Removing(t) /\ ~Removing(t)'
    BY <2>1 DEF Moved, At
  <2> HIDE DEF Adding, Removing
  <2> QED
    BY <2>1, <2>2, <2>3, SerialMoved
<1> QED
  BY <1>1, <1>2

LEMMA SerialConstruct ==
    ASSUME Typed, RetainedLive, NewHandles, Roles, Serial, Steps,
           NEW t \in Thread, Construct(t), Answerable(t)
    PROVE  Serial'
<1>1. At(t) = "construct" /\ SerialAt(t) /\ call[t].adding
  BY SerialBusy DEF Construct, Roles, Making
<1>2. PICK o \in Wrapper :
         /\ status[o] = "unused" /\ \A p \in Wrapper \ {o} : status'[p] = status[p]
         /\ At(t)' = "open" /\ call'[t].obj = o /\ call'[t].adding
         /\ \A u \in Thread : u # t => call'[u] = call[u]
         /\ UNCHANGED <<handle, setVars, peerStatus, shut, appRefs>>
  BY <1>1, ConstructFacts DEF At
<1>3. Guarded(t)' /\ Snapshot(t)' /\ Kinds'
  BY <1>1, <1>2 DEF Guarded, Snapshot, SerialAt, Kinds, setVars
<1>4. Adding(t)' /\ ~Removing(t)' /\ ~Adding(t) /\ ~Removing(t)
  BY <1>1, <1>2 DEF Adding, Removing, Kind, SetPlace, At
<1>5. Target(t)'
  <2>1. o \notin shut \cup appRefs
    BY <1>1, <1>2 DEF SerialAt, Target, RetainedLive, Retained
  <2> QED
    BY <1>1, <1>2, <1>4, <2>1, StatusFacts DEF SerialAt, Target, Typed, TypeOK
<1> HIDE DEF Adding, Removing
<1>6. ASSUME peerStatus' = "live"
      PROVE  Agree(t)' /\ OpenIsListed(t)' /\ ShutIsOut(t)'
  <2>1. Agree(t) /\ OpenIsListed(t) /\ ShutIsOut(t)
    BY <1>1, <1>2, <1>6 DEF SerialAt
  <2>2. Agree(t)' /\ ShutIsOut(t)'
    BY <1>1, <1>2, <1>4, <2>1 DEF Agree, ShutIsOut, Listed, setVars
  <2>3. OpenIsListed(t)'
    BY <1>2, <1>4, <2>1 DEF OpenIsListed, Alive, Listed, setVars
  <2> QED
    BY <2>2, <2>3
<1>7. \A u \in Thread : u # t => At(u)' = "idle"
  BY <1>1, <1>2 DEF SerialAt, At
<1> QED
  BY <1>3, <1>5, <1>6, <1>7 DEF SerialAt, Serial

\* With one wrapper a handle, equality by id is equality.
LEMMA ChangedIs ==
    ASSUME Typed, RetainedLive, OneWrapper, NEW t \in Thread, At(t) \in HasObject,
           call[t].snap \subseteq channels \cup dataChannels \cup tracks
    PROVE  Changed(t) = IF call[t].adding THEN call[t].snap \cup {call[t].obj}
                        ELSE call[t].snap \ {call[t].obj}
<1> DEFINE o == call[t].obj
<1>1. o \in Wrapper /\ status[o] = "live"
  BY DEF Typed, Located, RetainedLive, Retained
<1>2. \A p \in call[t].snap : p \in Wrapper /\ status[p] = "live"
  BY CallFacts DEF RetainedLive, Retained
<1>3. Same(call[t].snap, HandleOf(o)) \subseteq {o}
  BY <1>1, <1>2 DEF Same, OneWrapper, Alive
<1>4. Same(call[t].snap, HandleOf(o)) = call[t].snap \cap {o}
  BY <1>3 DEF Same
<1> QED
  BY <1>4 DEF Changed, Insert, Remove

LEMMA SerialWriteAll ==
    ASSUME Typed, RetainedLive, OneWrapper, Serial, NEW t \in Thread, WriteAll(t)
    PROVE  Serial'
<1> DEFINE o == call[t].obj
<1>1. /\ At(t) = "writeAll" /\ SerialAt(t) /\ Moved(t, "readKind")
      /\ call[t].snap = channels
      /\ UNCHANGED <<handle, status, dataChannels, tracks, peerStatus, shut, appRefs>>
  BY WriteAllFacts, SerialBusy DEF SerialAt, Snapshot, libVars, objVars
<1>2. channels' = IF call[t].adding THEN channels \cup {o} ELSE channels \ {o}
  BY <1>1, ChangedIs, WriteAllFacts DEF HasObject
<1>3. o \in Wrapper /\ HandleOf(o) = call[t].hdl
  BY <1>1 DEF Typed, Located, HasObject
<1>4. /\ At(t)' = "readKind" /\ call'[t].obj = o /\ call'[t].hdl = call[t].hdl
      /\ call'[t].adding = call[t].adding
      /\ \A u \in Thread : u # t => At(u)' = "idle"
  BY <1>1 DEF Moved, Others, SerialAt, At
<1> HIDE DEF o
<1>5. /\ (Adding(t)' <=> call[t].adding) /\ (Adding(t) <=> call[t].adding)
      /\ (Removing(t)' <=> ~call[t].adding) /\ (Removing(t) <=> ~call[t].adding)
  BY <1>1, <1>4 DEF Adding, Removing, SetPlace
<1>6. Guarded(t)' /\ Snapshot(t)' /\ Kinds'
  BY <1>1, <1>2, <1>4 DEF Guarded, Snapshot, SerialAt, Kinds
<1>7. Target(t)'
  BY <1>1, <1>4, <1>5 DEF Target, SerialAt, o
<1>8. call[t].adding => o \notin shut
  BY <1>1, <1>5 DEF SerialAt, Target, o
<1>9. ~call[t].adding => handle[HandleOf(o)] # "made"
  BY <1>1, <1>3, <1>5 DEF SerialAt, Target
<1> HIDE DEF Adding, Removing
<1>10. ASSUME peerStatus' = "live"
       PROVE  Agree(t)' /\ OpenIsListed(t)' /\ ShutIsOut(t)'
  <2>1. Agree(t) /\ OpenIsListed(t) /\ ShutIsOut(t) /\ call[t].obj = o
    BY <1>1, <1>10 DEF SerialAt, o
  <2>2. Agree(t)'
    BY <1>1, <1>2, <1>4, <2>1 DEF Agree, Listed
  <2>3. OpenIsListed(t)'
    BY <1>1, <1>2, <1>4, <1>5, <1>9, <2>1 DEF OpenIsListed, Listed, Alive
  <2>4. ShutIsOut(t)'
    BY <1>1, <1>2, <1>4, <1>5, <1>8, <2>1 DEF ShutIsOut, Listed
  <2> QED
    BY <2>2, <2>3, <2>4
<1> QED
  BY <1>4, <1>6, <1>7, <1>10 DEF SerialAt, Serial

LEMMA SerialWriteKind ==
    ASSUME Typed, RetainedLive, OneWrapper, Serial, NEW t \in Thread, WriteKind(t)
    PROVE  Serial'
<1> DEFINE o == call[t].obj
<1>1. /\ At(t) = "writeKind" /\ SerialAt(t) /\ Returned(t)
      /\ call[t].snap = KindSet(call[t].hdl) /\ (o \in channels <=> call[t].adding)
      /\ UNCHANGED <<handle, status, channels, peerStatus, shut>>
  BY WriteKindFacts, SerialBusy DEF SerialAt, Snapshot, libVars
<1>2. o \in Wrapper /\ HandleOf(o) = call[t].hdl /\ call[t].hdl \in Handle
  BY <1>1 DEF Typed, Located, HasObject
<1>3. Changed(t) = IF call[t].adding THEN KindSet(call[t].hdl) \cup {o}
                   ELSE KindSet(call[t].hdl) \ {o}
  BY <1>1, ChangedIs DEF HasObject, KindSet
<1>4. Kinds'
  BY <1>1, <1>2, <1>3, WriteKindFacts DEF SerialAt, Kinds, KindSet, Handle
<1>5. \A p \in Wrapper : Listed(p)' <=> IF p = o THEN call[t].adding ELSE Listed(p)
  BY <1>1, <1>2, <1>3, WriteKindFacts, IdsAssumption
  DEF SerialAt, Kinds, KindSet, Listed, Handle
<1>6. /\ At(t)' \in {"idle", "leaving"}
      /\ \A u \in Thread : u # t => At(u)' = "idle"
  BY <1>1 DEF Returned, Others, SerialAt, At
<1>7. /\ ~Adding(t)' /\ ~Removing(t)'
      /\ (Adding(t) <=> call[t].adding) /\ (Removing(t) <=> ~call[t].adding)
  BY <1>1, <1>6 DEF Adding, Removing, SetPlace, Kind
<1>8. Guarded(t)' /\ Snapshot(t)' /\ Target(t)'
  BY <1>1, <1>6, <1>7 DEF Guarded, Snapshot, Target, SerialAt
<1>9. call[t].adding => o \notin shut
  BY <1>1, <1>7 DEF SerialAt, Target
<1>10. ~call[t].adding => handle[HandleOf(o)] # "made"
  BY <1>1, <1>2, <1>7 DEF SerialAt, Target
<1>11. ASSUME peerStatus' = "live"
       PROVE  Agree(t)' /\ OpenIsListed(t)' /\ ShutIsOut(t)'
  <2>1. Agree(t) /\ OpenIsListed(t) /\ ShutIsOut(t) /\ call[t].obj = o
    BY <1>1, <1>11 DEF SerialAt
  <2> HIDE DEF o, Adding, Removing, Listed
  <2>2. Agree(t)'
    BY <1>1, <1>5, <2>1 DEF Agree
  <2>3. OpenIsListed(t)'
    BY <1>1, <1>5, <1>7, <1>10, <2>1 DEF OpenIsListed, Alive
  <2>4. ShutIsOut(t)'
    BY <1>1, <1>5, <1>7, <1>9, <2>1 DEF ShutIsOut, Typed, TypeOK
  <2> QED
    BY <2>2, <2>3, <2>4
<1> QED
  BY <1>4, <1>6, <1>8, <1>11 DEF SerialAt, Serial

LEMMA SerialStep ==
    Typed /\ Base /\ ~Overlap /\ Serial /\ Steps => Serial'
BY SerialLibrary, SerialStarts, SerialGuards, SerialLeaves, SerialReads, SerialRegister,
   SerialConstruct, SerialWriteAll, SerialWriteKind, SerialClose, ObtainWays
DEF Base, Steps

----------------------------------------------------------------------------
\* The constructors' questions have answers: no fact is left out.
Known == \A h \in Handle : handle[h] # "none" => known[h]

LEMMA KnownStep ==
    Typed /\ NewHandles /\ Omissions = {} /\ Known /\ Steps => Known'
<1> SUFFICES ASSUME Typed, NewHandles, Omissions = {}, Known, Steps PROVE Known'
  OBVIOUS
<1>1. CASE handle' = handle /\ known' = known
  BY <1>1 DEF Known
<1>2. ASSUME NEW h \in Handle, Make(h, TRUE) PROVE Known'
  BY <1>2 DEF Make, Known, Typed, TypeOK, LibTypeOK
<1>3. CASE Library
  <2>1. CASE LibConnect
    BY <2>1 DEF LibConnect, Known, Typed, TypeOK, LibTypeOK
  <2>2. ASSUME NEW h \in Handle, LibAnnounceRemote(h) PROVE Known'
    <3>1. Make(h, TRUE)
      BY <2>2 DEF LibAnnounceRemote
    <3> QED
      BY <1>2, <3>1
  <2>3. ASSUME NEW h \in Handle, LibCloseRemote(h) PROVE Known'
    BY <2>3 DEF LibCloseRemote, CloseHandles, Known
  <2> QED
    BY <1>1, <1>3, <2>1, <2>2, <2>3
    DEF Library, LibStep, LibOpen, LibMessage, LibError, CbStart
<1>4. ASSUME NEW ids \in SUBSET Handle, Obtain(ids, TRUE) PROVE Known'
  BY <1>1, <1>2, <1>4 DEF Obtain
<1>5. CASE CreateDataChannel \/ CreateTrack
  <2>1. ASSUME NEW manual \in BOOLEAN, manual, Obtain(DataIds, manual \/ conn = "connected")
        PROVE  Obtain(DataIds, TRUE)
    BY <2>1 DEF Obtain
  <2> QED
    BY <1>4, <1>5, <2>1 DEF CreateDataChannel, CreateTrack, Handle
<1>6. ASSUME NEW hs, CloseHandles(hs), UNCHANGED known PROVE Known'
  BY <1>6 DEF CloseHandles, Known
<1>7. ASSUME NEW o \in Wrapper, Close(o) \/ FinishDeinit(o) PROVE Known'
  <2>1. CASE Close(o)
    BY <1>6, <2>1 DEF Close
  <2>2. CASE FinishDeinit(o)
    <3>1. UNCHANGED known /\ handle[HandleOf(o)] # "none"
      BY <2>2, DeinitFacts DEF NewHandles
    <3>2. \A h \in Handle : handle'[h] = handle[h] \/ h = HandleOf(o)
      BY <2>2, DeinitFacts, DeleteFacts, CallFacts
    <3> QED
      BY <3>1, <3>2 DEF Known
  <2> QED
    BY <1>7, <2>1, <2>2
<1>8. CASE ClosePeer \/ BeginPeerDeinit \/ ReleasePeer \/ LeaveFreed
  BY <1>1, <1>6, <1>8, LeaveFacts
  DEF ClosePeer, BeginPeerDeinit, StartPeerDeinit, libVars
<1> QED
  BY <1>1, <1>3, <1>5, <1>7, <1>8
  DEF Steps, Aside, DropPeer, vars, libVars, CbRun, CheckExisting, AnnGuard,
      FinishPeerDeinit, AnnStart, Construct, Register, ReadAll, ReadKind, Read,
      WriteAll, WriteKind, Take, Drop, BeginDeinit

LEMMA TrapStep ==
    Typed /\ Roles /\ NewHandles /\ InTime /\ Known /\ SetupNeverTraps /\ Steps
        => SetupNeverTraps'
<1> SUFFICES ASSUME Typed, Roles, NewHandles, InTime, Known, SetupNeverTraps, Steps
             PROVE  SetupNeverTraps'
  OBVIOUS
<1> USE IdleFacts DEF SetupNeverTraps, At
<1>1. CASE Aside
  BY <1>1, AsideKeeps DEF Registry
<1>2. ASSUME NEW ids \in SUBSET Handle, NEW fact \in BOOLEAN, Obtain(ids, fact)
      PROVE  SetupNeverTraps'
  BY <1>2, ObtainFacts DEF Started, Others
<1>3. CASE CheckExisting
  BY <1>3, CheckFacts DEF Moved, Returned, Others
<1>4. CASE AnnGuard
  BY <1>4, GuardFacts DEF Moved, Returned, Others
<1>5. CASE FinishPeerDeinit
  BY <1>5 DEF FinishPeerDeinit
<1>6. ASSUME NEW h \in Handle, AnnStart(h) PROVE SetupNeverTraps'
  BY <1>6, AnnStartFacts DEF Started, Others
<1>7. ASSUME NEW t \in Thread, Construct(t) PROVE SetupNeverTraps'
  <2>1. At(t) \in Making /\ call[t].hdl \in Handle
    BY <1>7, CallFacts DEF Construct, Making
  <2>2. Answerable(t)
    BY <2>1 DEF Answerable, InTime, NewHandles, Known
  <2> QED
    BY <1>7, <2>2, ConstructFacts
<1>8. ASSUME NEW t \in Thread, Register(t) PROVE SetupNeverTraps'
  <2>1. Adding(t)
    BY <1>8, RegisterFacts DEF Adding, Roles
  <2>2. handle[call[t].hdl] # "deleted"
    BY <2>1 DEF InTime
  <2> QED
    BY <1>8, <2>2, RegisterFacts DEF Moved, Others, Kind
<1>9. ASSUME NEW t \in Thread, ReadAll(t) \/ ReadKind(t) PROVE SetupNeverTraps'
  BY <1>9, ReadFacts DEF ReadAll, ReadKind, Moved, Returned, Others
<1>10. ASSUME NEW t \in Thread, WriteAll(t) PROVE SetupNeverTraps'
  BY <1>10, WriteAllFacts DEF Moved, Others
<1>11. ASSUME NEW t \in Thread, WriteKind(t) PROVE SetupNeverTraps'
  BY <1>11, WriteKindFacts DEF Returned, Others
<1>12. ASSUME NEW o \in Wrapper, Close(o) PROVE SetupNeverTraps'
  BY <1>12, CloseFacts DEF Others
<1>13. ASSUME NEW o \in Wrapper, Take(o) \/ Drop(o) PROVE SetupNeverTraps'
  BY <1>13 DEF Take, Drop
<1>14. ASSUME NEW o \in Wrapper, BeginDeinit(o) \/ FinishDeinit(o)
       PROVE  SetupNeverTraps'
  BY <1>14, DeinitFacts
<1>15. CASE ReleasePeer \/ LeaveFreed
  BY <1>15, LeaveFacts DEF Moved, Returned, Others
<1> QED
  BY <1>1, <1>2, <1>3, <1>4, <1>5, <1>6, <1>7, <1>8, <1>9, <1>10, <1>11, <1>12,
     <1>13, <1>14, <1>15, ObtainWays DEF Steps

----------------------------------------------------------------------------
\* What an event's arrival, its start and its end do to what is told.
LEMMA Arrives ==
    ASSUME NEW s \in Seq(Event), NEW e \in Event, NEW K
    PROVE  /\ e.kind \in K => /\ ~NoneOf(Append(s, e), K)
                              /\ \A i : LastOf(Append(s, e), K, i) =>
                                            Append(s, e)[i] = e
           /\ e.kind \notin K =>
                  /\ NoneOf(Append(s, e), K) => NoneOf(s, K)
                  /\ \A i : LastOf(Append(s, e), K, i) =>
                         LastOf(s, K, i) /\ Append(s, e)[i] = s[i]
<1>1. /\ DOMAIN Append(s, e) = 1 .. Len(s) + 1 /\ DOMAIN s = 1 .. Len(s)
      /\ Append(s, e)[Len(s) + 1] = e /\ Len(s) \in Nat
      /\ \A i \in 1 .. Len(s) : Append(s, e)[i] = s[i]
  OBVIOUS
<1> DEFINE a == Append(s, e)
<1> HIDE DEF a
<1>2. CASE e.kind \in K
  <2>1. ~NoneOf(a, K)
    BY <1>1, <1>2 DEF NoneOf, a
  <2>2. ASSUME NEW i, LastOf(a, K, i) PROVE a[i] = e
    <3>1. i = Len(s) + 1
      BY <1>1, <1>2, <2>2 DEF LastOf, a
    <3> QED
      BY <1>1, <3>1 DEF a
  <2> QED
    BY <1>2, <2>1, <2>2 DEF a
<1>3. CASE e.kind \notin K
  <2>1. NoneOf(a, K) => NoneOf(s, K)
    BY <1>1 DEF NoneOf, a
  <2>2. ASSUME NEW i, LastOf(a, K, i) PROVE LastOf(s, K, i) /\ a[i] = s[i]
    BY <1>1, <1>3, <2>2 DEF LastOf, a
  <2> QED
    BY <1>3, <2>1, <2>2 DEF a
<1> QED
  BY <1>2, <1>3

LEMMA Leaves ==
    ASSUME NEW s \in Seq(Event), s # <<>>, NEW K
    PROVE  /\ \A i : LastOf(Tail(s), K, i) =>
                  LastOf(s, K, i + 1) /\ s[i + 1] = Tail(s)[i]
           /\ NoneOf(Tail(s), K) => IF Head(s).kind \in K THEN LastOf(s, K, 1)
                                    ELSE NoneOf(s, K)
           /\ Head(s) = s[1]
<1>1. /\ Head(s) = s[1] /\ Len(s) \in Nat /\ Len(s) # 0
      /\ DOMAIN s = 1 .. Len(s) /\ DOMAIN Tail(s) = 1 .. Len(s) - 1
      /\ \A i \in 1 .. Len(s) - 1 : Tail(s)[i] = s[i + 1]
  OBVIOUS
<1> DEFINE r == Tail(s)
<1> HIDE DEF r
<1>2. ASSUME NEW i, LastOf(r, K, i) PROVE LastOf(s, K, i + 1) /\ s[i + 1] = r[i]
  <2>1. /\ i \in 1 .. Len(s) - 1 /\ r[i].kind \in K /\ s[i + 1] = r[i]
        /\ \A j \in 1 .. Len(s) - 1 : j > i => s[j + 1].kind \notin K
    BY <1>1, <1>2 DEF LastOf, r
  <2>2. ASSUME NEW j \in 1 .. Len(s), j > i + 1 PROVE s[j].kind \notin K
    <3>1. j - 1 \in 1 .. Len(s) - 1 /\ j - 1 > i /\ (j - 1) + 1 = j
      BY <1>1, <2>1, <2>2
    <3> QED
      BY <2>1, <3>1
  <2> QED
    BY <1>1, <2>1, <2>2 DEF LastOf
<1>3. ASSUME NoneOf(r, K), NEW j \in 1 .. Len(s), j > 1 PROVE s[j].kind \notin K
  <2>1. j - 1 \in 1 .. Len(s) - 1 /\ (j - 1) + 1 = j
    BY <1>1, <1>3
  <2> QED
    BY <1>1, <1>3, <2>1 DEF NoneOf, r
<1>4. NoneOf(r, K) => IF Head(s).kind \in K THEN LastOf(s, K, 1) ELSE NoneOf(s, K)
  BY <1>1, <1>3 DEF NoneOf, LastOf
<1> QED
  BY <1>1, <1>2, <1>4 DEF r

LEMMA ToldArrival ==
    ASSUME NEW s \in Seq(Event), NEW e \in Event, NEW cb, NEW true, NEW new, NEW shown,
           ToldOf(s, cb, true, shown),
           IF e.kind \in OpenKinds THEN new.isOpen <=> e.kind = "open"
                                   ELSE new.isOpen = true.isOpen,
           new.lastError = IF e.kind = "error" THEN e.value ELSE true.lastError,
           new.lastMessage = IF e.kind = "message" THEN e.value ELSE true.lastMessage
    PROVE  ToldOf(Append(s, e), cb, new, shown)
<1> DEFINE a == Append(s, e)
<1>1. ASSUME NEW kind \in {"error", "message"}, NEW x, NEW y, NEW z,
             ValueTold(s, cb, kind, x, z), y = IF e.kind = kind THEN e.value ELSE x
      PROVE  ValueTold(a, cb, kind, y, z)
  <2>1. /\ e.kind = kind => ~NoneOf(a, {kind})
        /\ e.kind = kind => \A i : LastOf(a, {kind}, i) => a[i] = e
        /\ e.kind # kind => (NoneOf(a, {kind}) => NoneOf(s, {kind}))
        /\ e.kind # kind => \A i : LastOf(a, {kind}, i) =>
                                       LastOf(s, {kind}, i) /\ a[i] = s[i]
    BY Arrives
  <2>2. \A i : LastOf(s, {kind}, i) => i \in DOMAIN s
    BY DEF LastOf
  <2> HIDE DEF a
  <2> QED
    BY <1>1, <2>1, <2>2 DEF ValueTold
<1>2. OpenTold(a, cb, new.isOpen, shown.isOpen)
  <2>1. /\ e.kind \in OpenKinds => ~NoneOf(a, OpenKinds)
        /\ e.kind \in OpenKinds => \A i : LastOf(a, OpenKinds, i) => a[i] = e
        /\ e.kind \notin OpenKinds => (NoneOf(a, OpenKinds) => NoneOf(s, OpenKinds))
        /\ e.kind \notin OpenKinds => \A i : LastOf(a, OpenKinds, i) =>
                                       LastOf(s, OpenKinds, i) /\ a[i] = s[i]
    BY Arrives
  <2>2. \A i : LastOf(s, OpenKinds, i) => i \in DOMAIN s
    BY DEF LastOf
  <2>3. OpenTold(s, cb, true.isOpen, shown.isOpen)
    BY DEF ToldOf
  <2> HIDE DEF a, OpenKinds
  <2> QED
    BY <2>1, <2>2, <2>3 DEF OpenTold
<1> HIDE DEF a
<1> QED
  BY <1>1, <1>2 DEF ToldOf, a

LEMMA ToldStart ==
    ASSUME NEW s \in Seq(Event), s # <<>>, NEW cb, cb # NoCall, NEW true, NEW shown,
           ToldOf(s, NoCall, true, shown),
           cb.kind = Head(s).kind, cb.value = Head(s).value
    PROVE  ToldOf(Tail(s), cb, true, shown)
<1> DEFINE r == Tail(s)
<1>1. \A K : /\ \A i : LastOf(r, K, i) => LastOf(s, K, i + 1) /\ s[i + 1] = r[i]
             /\ NoneOf(r, K) => IF Head(s).kind \in K THEN LastOf(s, K, 1)
                                ELSE NoneOf(s, K)
             /\ Head(s) = s[1]
             /\ \A i : LastOf(s, K, i) => i \in DOMAIN s
  BY Leaves DEF LastOf
<1> HIDE DEF r
<1>2. ASSUME NEW kind, NEW x, NEW z, ValueTold(s, NoCall, kind, x, z)
      PROVE  ValueTold(r, cb, kind, x, z)
  <2>1. ASSUME NEW i, LastOf(r, {kind}, i) PROVE x = r[i].value
    BY <1>1, <1>2, <2>1 DEF ValueTold
  <2>2. ASSUME NoneOf(r, {kind})
        PROVE  IF cb.kind = kind THEN x = cb.value ELSE x = z
    BY <1>1, <1>2, <2>2 DEF ValueTold
  <2> QED
    BY <2>1, <2>2 DEF ValueTold
<1>3. OpenTold(r, cb, true.isOpen, shown.isOpen)
  <2>0. OpenTold(s, NoCall, true.isOpen, shown.isOpen)
    BY DEF ToldOf
  <2>1. ASSUME NEW i, LastOf(r, OpenKinds, i)
        PROVE  true.isOpen <=> r[i].kind = "open"
    BY <1>1, <2>0, <2>1 DEF OpenTold
  <2>2. ASSUME NoneOf(r, OpenKinds)
        PROVE  IF cb.kind \in OpenKinds THEN true.isOpen <=> cb.kind = "open"
               ELSE true.isOpen <=> shown.isOpen
    BY <1>1, <2>0, <2>2 DEF OpenTold
  <2> QED
    BY <2>1, <2>2 DEF OpenTold
<1> QED
  BY <1>2, <1>3 DEF ToldOf, r

LEMMA ToldRun ==
    ASSUME NEW s, NEW cb \in Call, cb # NoCall, NEW true, NEW shown \in View,
           ToldOf(s, cb, true, shown)
    PROVE  ToldOf(s, NoCall, true, Effect(shown, cb.kind, cb.value))
<1> DEFINE now == Effect(shown, cb.kind, cb.value)
<1>1. /\ cb.kind \in OpenKinds => (now.isOpen <=> cb.kind = "open")
      /\ cb.kind \notin OpenKinds => now.isOpen = shown.isOpen
      /\ now.lastError = IF cb.kind = "error" THEN cb.value ELSE shown.lastError
      /\ now.lastMessage = IF cb.kind = "message" THEN cb.value ELSE shown.lastMessage
  BY DEF Effect, OpenKinds, View, Call, Kind
<1> HIDE DEF now
<1>2. OpenTold(s, NoCall, true.isOpen, now.isOpen)
  BY <1>1 DEF ToldOf, OpenTold
<1>3. /\ ValueTold(s, NoCall, "error", true.lastError, now.lastError)
      /\ ValueTold(s, NoCall, "message", true.lastMessage, now.lastMessage)
  BY <1>1 DEF ToldOf, ValueTold
<1> QED
  BY <1>2, <1>3 DEF ToldOf, now

----------------------------------------------------------------------------
\* MirrorInv. A channel hears at most one more event.
Hears(h) ==
    \/ truth'[h] = truth[h] /\ events'[h] = events[h]
    \/ \E e \in Event :
         /\ events'[h] = Append(events[h], e)
         /\ IF e.kind \in OpenKinds THEN truth'[h].isOpen <=> e.kind = "open"
                                    ELSE truth'[h].isOpen = truth[h].isOpen
         /\ truth'[h].lastError =
                IF e.kind = "error" THEN e.value ELSE truth[h].lastError
         /\ truth'[h].lastMessage =
                IF e.kind = "message" THEN e.value ELSE truth[h].lastMessage

LEMMA MirrorHears ==
    ASSUME Typed, MirrorInv, UNCHANGED <<userPtr, running, published>>, NoNewLife,
           \A h \in Handle : handle'[h] = "deleted" <=> handle[h] = "deleted",
           \A h \in Handle : Hears(h)
    PROVE  MirrorInv'
<1>1. Owned' /\ InFlight'
  BY CallFacts DEF MirrorInv, Owned, InFlight, NoNewLife
<1>2. ASSUME NEW h \in Handle, ToldAt(h) PROVE ToldAt(h)'
  <2>1. Shown(h)' = Shown(h) /\ events[h] \in Seq(Event)
    BY DEF Shown, Typed, TypeOK, LibTypeOK
  <2>2. CASE truth'[h] = truth[h] /\ events'[h] = events[h]
    BY <1>2, <2>1, <2>2 DEF ToldAt
  <2>3. CASE truth'[h] # truth[h] \/ events'[h] # events[h]
    <3>1. PICK e \in Event :
             /\ events'[h] = Append(events[h], e)
             /\ IF e.kind \in OpenKinds THEN truth'[h].isOpen <=> e.kind = "open"
                                        ELSE truth'[h].isOpen = truth[h].isOpen
             /\ truth'[h].lastError =
                    IF e.kind = "error" THEN e.value ELSE truth[h].lastError
             /\ truth'[h].lastMessage =
                    IF e.kind = "message" THEN e.value ELSE truth[h].lastMessage
      BY <2>3 DEF Hears
    <3>2. ToldOf(Append(events[h], e), running[h], truth'[h], Shown(h))
      BY <1>2, <2>1, <3>1, ToldArrival DEF ToldAt
    <3> QED
      BY <2>1, <3>1, <3>2 DEF ToldAt
  <2> QED
    BY <2>2, <2>3
<1>3. Told'
  <2> SUFFICES ASSUME NEW h \in Handle, handle'[h] # "deleted" PROVE ToldAt(h)'
    BY DEF Told
  <2>1. ToldAt(h)
    BY DEF MirrorInv, Told
  <2> QED
    BY <1>2, <2>1
<1> QED
  BY <1>1, <1>3 DEF MirrorInv

LEMMA CloseHears ==
    ASSUME Typed, NEW hs \in SUBSET Handle, CloseHandles(hs)
    PROVE  \A h \in Handle : Hears(h)
<1> SUFFICES ASSUME NEW h \in Handle PROVE Hears(h)
  OBVIOUS
<1>1. truth[h] \in View
  BY DEF Typed, TypeOK, LibTypeOK
<1>2. CASE h \in hs /\ handle[h] = "made"
  <2>1. /\ events'[h] = Append(events[h], Ev("closed", 0))
        /\ truth'[h] = [truth[h] EXCEPT !.isOpen = FALSE]
    BY <1>2 DEF CloseHandles
  <2>2. /\ Ev("closed", 0) \in Event /\ Ev("closed", 0).kind = "closed"
        /\ ~truth'[h].isOpen /\ truth'[h].lastError = truth[h].lastError
        /\ truth'[h].lastMessage = truth[h].lastMessage
    BY <1>1, <2>1 DEF Ev, Event, Kind, View
  <2> QED
    BY <2>1, <2>2 DEF Hears, OpenKinds
<1>3. CASE ~(h \in hs /\ handle[h] = "made")
  BY <1>3 DEF CloseHandles, Hears
<1> QED
  BY <1>2, <1>3

LEMMA LibraryHears ==
    ASSUME Typed, NEW k \in Handle, LibOpen(k) \/ LibMessage(k) \/ LibError(k)
    PROVE  \A h \in Handle : Hears(h)
<1> SUFFICES ASSUME NEW h \in Handle PROVE Hears(h)
  OBVIOUS
<1>1. truth[k] \in View /\ truth \in [Handle -> View] /\ events \in [Handle -> Seq(Event)]
  BY DEF Typed, TypeOK, LibTypeOK
<1>2. CASE h # k
  BY <1>1, <1>2 DEF LibOpen, LibMessage, LibError, Hears
<1>3. CASE h = k /\ LibOpen(k)
  <2>1. /\ events'[k] = Append(events[k], Ev("open", 0))
        /\ truth'[k] = [truth[k] EXCEPT !.isOpen = TRUE]
    BY <1>1, <1>3 DEF LibOpen
  <2>2. /\ Ev("open", 0) \in Event /\ Ev("open", 0).kind = "open"
        /\ truth'[k].isOpen /\ truth'[k].lastError = truth[k].lastError
        /\ truth'[k].lastMessage = truth[k].lastMessage
    BY <1>1, <2>1 DEF Ev, Event, Kind, View
  <2> QED
    BY <1>3, <2>1, <2>2 DEF Hears, OpenKinds
<1>4. CASE h = k /\ LibMessage(k)
  <2> DEFINE e == Ev("message", truth[k].lastMessage + 1)
  <2>1. /\ events'[k] = Append(events[k], e)
        /\ truth'[k] = [truth[k] EXCEPT !.lastMessage = @ + 1]
    BY <1>1, <1>4 DEF LibMessage
  <2>2. /\ e \in Event /\ e.kind = "message" /\ e.value = truth'[k].lastMessage
        /\ truth'[k].isOpen = truth[k].isOpen /\ truth'[k].lastError = truth[k].lastError
    BY <1>1, <2>1 DEF Ev, Event, Kind, View
  <2> HIDE DEF e
  <2> QED
    BY <1>4, <2>1, <2>2 DEF Hears, OpenKinds
<1>5. CASE h = k /\ LibError(k)
  <2> DEFINE e == Ev("error", truth[k].lastError + 1)
  <2>1. /\ events'[k] = Append(events[k], e)
        /\ truth'[k] = [truth[k] EXCEPT !.lastError = @ + 1]
    BY <1>1, <1>5 DEF LibError
  <2>2. /\ e \in Event /\ e.kind = "error" /\ e.value = truth'[k].lastError
        /\ truth'[k].isOpen = truth[k].isOpen
        /\ truth'[k].lastMessage = truth[k].lastMessage
    BY <1>1, <2>1 DEF Ev, Event, Kind, View
  <2> HIDE DEF e
  <2> QED
    BY <1>5, <2>1, <2>2 DEF Hears, OpenKinds
<1> QED
  BY <1>2, <1>3, <1>4, <1>5

\* Everything but these four steps leaves what is told alone, or tells it.
LEMMA HearSteps ==
    ASSUME Typed, Steps,
           \A h \in Handle : ~CbRun(h) /\ ~(Library /\ CbStart(h)),
           \A o \in Wrapper : ~FinishDeinit(o),
           \A t \in Thread : ~(Construct(t) /\ Answerable(t))
    PROVE  /\ UNCHANGED <<userPtr, running, published>>
           /\ \A h \in Handle : Hears(h)
<1>1. CASE UNCHANGED channelVars /\ UNCHANGED published
  BY <1>1 DEF channelVars, Hears
<1>2. CASE Library
  <2>1. CASE LibConnect \/ \E h \in Handle : LibAnnounceRemote(h)
    BY <1>1, <1>2, <2>1 DEF LibConnect, LibAnnounceRemote, Library, objVars
  <2>2. ASSUME NEW h \in Handle, LibOpen(h) \/ LibMessage(h) \/ LibError(h)
        PROVE  UNCHANGED <<userPtr, running>> /\ \A k \in Handle : Hears(k)
    BY <2>2, LibraryHears DEF LibOpen, LibMessage, LibError
  <2>3. ASSUME NEW h \in Handle, LibCloseRemote(h)
        PROVE  UNCHANGED <<userPtr, running>> /\ \A k \in Handle : Hears(k)
    <3>1. CloseHandles({h}) /\ {h} \in SUBSET Handle
      BY <2>3 DEF LibCloseRemote
    <3> QED
      BY <2>3, <3>1, CloseHears DEF LibCloseRemote
  <2> QED
    BY <1>2, <2>1, <2>2, <2>3 DEF Library, LibStep, objVars
<1>3. CASE ClosePeer \/ BeginPeerDeinit
  <2>1. /\ CloseHandles(Handle) /\ Handle \in SUBSET Handle
        /\ UNCHANGED <<userPtr, running, published>>
    BY <1>3 DEF ClosePeer, BeginPeerDeinit, StartPeerDeinit, objVars
  <2> QED
    BY <2>1, CloseHears
<1>11. CASE ReleasePeer \/ LeaveFreed
  <2>1. UNCHANGED channelVars \/ (CloseHandles(Handle) /\ Handle \in SUBSET Handle)
    BY <1>11, LeaveFacts DEF libVars, channelVars
  <2> QED
    BY <1>1, <1>11, <2>1, LeaveFacts, CloseHears
<1>4. ASSUME NEW o \in Wrapper, Close(o)
      PROVE  UNCHANGED <<userPtr, running, published>> /\ \A h \in Handle : Hears(h)
  <2>1. CloseHandles({HandleOf(o)}) /\ {HandleOf(o)} \in SUBSET Handle
    BY <1>4, CloseFacts, CallFacts
  <2> QED
    BY <1>4, <2>1, CloseHears, CloseFacts
<1>5. CASE \E ids \in SUBSET Handle, fact \in BOOLEAN : Obtain(ids, fact)
  BY <1>1, <1>5 DEF Obtain, objVars
<1>6. ASSUME NEW t \in Thread, Construct(t) \/ Register(t)
      PROVE  UNCHANGED <<truth, events, userPtr, running, published>>
  BY <1>6 DEF Construct, Register, objVars
<1>7. CASE CheckExisting \/ AnnGuard \/ FinishPeerDeinit \/ DropPeer \/ UNCHANGED vars
             \/ \E h \in Handle : AnnStart(h)
  <2>1. UNCHANGED channelVars /\ UNCHANGED published
    BY <1>7 DEF CheckExisting, AnnGuard, FinishPeerDeinit, DropPeer, vars, AnnStart,
                libVars, objVars, channelVars
  <2> QED
    BY <1>1, <2>1
<1>8. ASSUME NEW t \in Thread, ReadAll(t) \/ WriteAll(t) \/ ReadKind(t) \/ WriteKind(t)
      PROVE  UNCHANGED channelVars /\ UNCHANGED published
  BY <1>8 DEF ReadAll, ReadKind, Read, WriteAll, WriteKind, libVars, objVars, channelVars
<1>9. ASSUME NEW o \in Wrapper, Take(o) \/ Drop(o) \/ BeginDeinit(o)
      PROVE  UNCHANGED channelVars /\ UNCHANGED published
  BY <1>9 DEF Take, Drop, BeginDeinit, libVars, objVars, channelVars
<1>10. \A t \in Thread : Construct(t) \/ Register(t) =>
           (\A h \in Handle : Hears(h)) /\ UNCHANGED <<userPtr, running, published>>
  BY <1>6 DEF Hears
<1> QED
  BY <1>1, <1>2, <1>3, <1>4, <1>5, <1>7, <1>8, <1>9, <1>10, <1>11, ObtainWays
  DEF Steps, Aside

LEMMA MirrorStart ==
    ASSUME Typed, PtrInv, MirrorInv, NEW h \in Handle, CbStart(h), Library
    PROVE  MirrorInv'
<1> DEFINE cb == [obj |-> userPtr[h], kind |-> Head(events[h]).kind,
                  value |-> Head(events[h]).value]
<1>1. /\ running[h] = NoCall /\ events[h] # <<>> /\ userPtr[h] # NoWrapper
      /\ running'[h] = cb /\ events'[h] = Tail(events[h])
      /\ \A k \in Handle \ {h} : running'[k] = running[k] /\ events'[k] = events[k]
      /\ UNCHANGED <<handle, truth, userPtr>>
  BY DEF CbStart, Typed, TypeOK, LibTypeOK, PtrInv, CallbacksHavePointer
<1>2. UNCHANGED <<published, status>>
  BY DEF Library, objVars
<1>3. cb # NoCall /\ cb.obj = userPtr[h] /\ cb.kind = Head(events[h]).kind
      /\ cb.value = Head(events[h]).value /\ events[h] \in Seq(Event)
  BY <1>1 DEF NoCall, Typed, TypeOK, LibTypeOK
<1> HIDE DEF cb
<1>4. Owned' /\ InFlight'
  BY <1>1, <1>2, <1>3 DEF MirrorInv, Owned, InFlight, Alive
<1>5. Told'
  <2> SUFFICES ASSUME NEW k \in Handle, handle'[k] # "deleted" PROVE ToldAt(k)'
    BY DEF Told
  <2>1. ToldAt(k) /\ Shown(k)' = Shown(k)
    BY <1>1, <1>2 DEF MirrorInv, Told, Shown
  <2>2. CASE k # h
    BY <1>1, <2>1, <2>2 DEF ToldAt
  <2>3. CASE k = h
    <3>1. ToldOf(Tail(events[h]), cb, truth[h], Shown(h))
      BY <1>1, <1>3, <2>1, <2>3, ToldStart DEF ToldAt
    <3> QED
      BY <1>1, <2>1, <2>3, <3>1 DEF ToldAt
  <2> QED
    BY <2>2, <2>3
<1> QED
  BY <1>4, <1>5 DEF MirrorInv

LEMMA MirrorRun ==
    ASSUME Typed, PtrInv, MirrorInv, NEW h \in Handle, CbRun(h)
    PROVE  MirrorInv'
<1> DEFINE cb == running[h]
<1>1. /\ cb # NoCall /\ cb \in Call /\ cb.obj = userPtr[h] /\ userPtr[h] \in Wrapper
      /\ published'[userPtr[h]] = Effect(published[userPtr[h]], cb.kind, cb.value)
      /\ \A o \in Wrapper : o # userPtr[h] => published'[o] = published[o]
      /\ running'[h] = NoCall /\ \A k \in Handle \ {h} : running'[k] = running[k]
      /\ UNCHANGED <<handle, truth, events, userPtr, status>>
  BY DEF CbRun, Typed, TypeOK, LibTypeOK, MirrorInv, InFlight
<1> HIDE DEF cb
<1>2. Owned' /\ InFlight'
  BY <1>1 DEF MirrorInv, Owned, InFlight, Alive
<1>3. Told'
  <2> SUFFICES ASSUME NEW k \in Handle, handle'[k] # "deleted" PROVE ToldAt(k)'
    BY DEF Told
  <2>1. ToldAt(k)
    BY <1>1 DEF MirrorInv, Told
  <2>2. CASE k # h
    <3>1. Shown(k)' = Shown(k)
      BY <1>1, <2>2, NoWrapperAssumption DEF Shown, PtrInv, PointersLive
    <3> QED
      BY <1>1, <2>1, <2>2, <3>1 DEF ToldAt
  <2>3. CASE k = h
    <3>1. Shown(h)' = Effect(Shown(h), cb.kind, cb.value) /\ Shown(h) \in View
      BY <1>1 DEF Shown, Typed, TypeOK
    <3>2. ToldOf(events[h], NoCall, truth[h], Effect(Shown(h), cb.kind, cb.value))
      BY <1>1, <2>1, <2>3, <3>1, ToldRun DEF ToldAt, cb
    <3> QED
      BY <1>1, <2>3, <3>1, <3>2 DEF ToldAt
  <2> QED
    BY <2>2, <2>3
<1> QED
  BY <1>2, <1>3 DEF MirrorInv

LEMMA MirrorConstruct ==
    ASSUME Typed, PtrInv, Reserved, MirrorInv, NEW t \in Thread, Construct(t),
           Answerable(t)
    PROVE  MirrorInv'
<1> DEFINE h == call[t].hdl
<1>1. PICK o \in Wrapper :
         /\ HandleOf(o) = h /\ status[o] = "unused"
         /\ \A p \in Wrapper \ {o} : status'[p] = status[p]
         /\ userPtr' = [userPtr EXCEPT ![h] = o]
         /\ published' = [published EXCEPT ![o] = Blank]
         /\ UNCHANGED <<handle, truth, events, running>>
  BY ConstructFacts
<1>2. At(t) = "construct" /\ h \in Handle /\ handle[h] # "deleted"
  BY CallFacts DEF Construct, Answerable
<1>3. /\ userPtr'[h] = o /\ \A k \in Handle \ {h} : userPtr'[k] = userPtr[k]
      /\ published'[o] = Blank
      /\ \A p \in Wrapper \ {o} : published'[p] = published[p]
  BY <1>1, <1>2 DEF Typed, TypeOK, LibTypeOK
<1>4. \A p \in Wrapper : HandleOf(p) = h => ~Alive(p)
  BY <1>2 DEF Reserved, Making
<1>5. userPtr[h] = NoWrapper
  BY <1>2, <1>4 DEF PtrInv, PointersLive, Typed, TypeOK, LibTypeOK
<1> HIDE DEF h
<1>6. Owned'
  BY <1>1, <1>2, <1>3, <1>4, CallFacts DEF MirrorInv, Owned, Alive
<1>7. InFlight'
  BY <1>1, <1>3, <1>5 DEF MirrorInv, InFlight
<1>8. Told'
  <2> SUFFICES ASSUME NEW k \in Handle, handle'[k] # "deleted" PROVE ToldAt(k)'
    BY DEF Told
  <2>1. ToldAt(k)
    BY <1>1 DEF MirrorInv, Told
  <2>2. Shown(k)' = Shown(k)
    <3>1. CASE k = h
      BY <1>3, <1>5, <3>1, NoWrapperAssumption DEF Shown
    <3>2. CASE k # h
      BY <1>1, <1>3, <3>2, NoWrapperAssumption DEF Shown, PtrInv, PointersLive
    <3> QED
      BY <3>1, <3>2
  <2> QED
    BY <1>1, <2>1, <2>2 DEF ToldAt
<1> QED
  BY <1>6, <1>7, <1>8 DEF MirrorInv

LEMMA MirrorDelete ==
    ASSUME Typed, PtrInv, OneWrapper, MirrorInv, NEW o \in Wrapper, FinishDeinit(o)
    PROVE  MirrorInv'
<1> DEFINE h == HandleOf(o)
<1>1. /\ status[o] = "deinit" /\ status'[o] = "freed" /\ running[h] = NoCall
      /\ \A p \in Wrapper \ {o} : status'[p] = status[p] /\ published'[p] = published[p]
      /\ h \in Handle /\ UNCHANGED running
  BY CallFacts DEF FinishDeinit, Typed, TypeOK
<1>2. /\ handle'[h] = "deleted"
      /\ \A k \in Handle \ {h} : /\ handle'[k] = handle[k] /\ truth'[k] = truth[k]
                                 /\ events'[k] = events[k] /\ userPtr'[k] = userPtr[k]
  BY <1>1 DEF FinishDeinit, DeleteHandle, Typed, TypeOK, LibTypeOK
<1>3. \A p \in Wrapper : Alive(p)' => Alive(p) /\ HandleOf(p) # h
  BY <1>1 DEF Alive, OneWrapper
<1> HIDE DEF h
<1>4. Owned' /\ InFlight'
  BY <1>1, <1>2, <1>3, CallFacts DEF MirrorInv, Owned, InFlight
<1>5. Told'
  <2> SUFFICES ASSUME NEW k \in Handle, handle'[k] # "deleted" PROVE ToldAt(k)'
    BY DEF Told
  <2>1. k # h /\ handle[k] # "deleted"
    BY <1>2
  <2>2. ToldAt(k)
    BY <2>1 DEF MirrorInv, Told
  <2>3. Shown(k)' = Shown(k)
    BY <1>1, <1>2, <2>1, NoWrapperAssumption DEF Shown, PtrInv, PointersLive, h
  <2> QED
    BY <1>1, <1>2, <2>1, <2>2, <2>3 DEF ToldAt
<1> QED
  BY <1>4, <1>5 DEF MirrorInv

LEMMA MirrorStep ==
    Typed /\ PtrInv /\ Reserved /\ OneWrapper /\ MirrorInv /\ Steps => MirrorInv'
<1> SUFFICES ASSUME Typed, PtrInv, Reserved, OneWrapper, MirrorInv, Steps
             PROVE  MirrorInv'
  OBVIOUS
<1>1. CASE \/ \E h \in Handle : CbRun(h) \/ (Library /\ CbStart(h))
           \/ \E o \in Wrapper : FinishDeinit(o)
           \/ \E t \in Thread : Construct(t) /\ Answerable(t)
  BY <1>1, MirrorStart, MirrorRun, MirrorConstruct, MirrorDelete
<1>2. CASE /\ \A h \in Handle : ~CbRun(h) /\ ~(Library /\ CbStart(h))
           /\ \A o \in Wrapper : ~FinishDeinit(o)
           /\ \A t \in Thread : ~(Construct(t) /\ Answerable(t))
  <2>1. UNCHANGED <<userPtr, running, published>> /\ \A h \in Handle : Hears(h)
    BY <1>2, HearSteps
  <2>2. \A h \in Handle : handle'[h] = "deleted" <=> handle[h] = "deleted"
    BY <1>2, HandleSteps DEF HandleOrder
  <2>3. NoNewLife
    BY <1>2, StatusFacts
  <2> QED
    BY <2>1, <2>2, <2>3, MirrorHears
<1> QED
  BY <1>1, <1>2

----------------------------------------------------------------------------
\* The invariant: what holds under either promise, and what the promise that
\* is kept adds.
Kept == (~Revisits /\ Fresh) \/ (~Overlap /\ Serial)
RegistryInv == Base /\ MirrorInv /\ Kept

LEMMA NothingRetained == Init => \A o \in Wrapper : ~Retained(o)
BY IdleHolds DEF Init, Retained

LEMMA RegistryInit == Init => Base /\ MirrorInv /\ Fresh /\ Serial
<1> SUFFICES ASSUME Init PROVE Base /\ MirrorInv /\ Fresh /\ Serial
  OBVIOUS
<1>1. /\ \A t \in Thread : At(t) = "idle" /\ call[t].adding
      /\ \A o \in Wrapper : status[o] = "unused" /\ HandleOf(o) \in Handle
      /\ \A h \in Handle : handle[h] = "none" /\ running[h] = NoCall
                           /\ events[h] = <<>> /\ truth[h] = Blank
                           /\ userPtr[h] = NoWrapper
      /\ channels = {} /\ dataChannels = {} /\ tracks = {} /\ shut = {}
      /\ peerStatus = "live" /\ conn = "new" /\ pending = {}
  BY IdleFacts DEF Init, LibInit, At, Wrapper, HandleOf
<1>2. \A t \in Thread : ~Adding(t) /\ ~Removing(t) /\ At(t) \notin Making \cup Kind
                        /\ At(t) \notin SetPlace
  BY <1>1 DEF Adding, Removing, Making, Kind, SetPlace
<1>3. RetainedLive
  BY NothingRetained DEF RetainedLive
<1>4. Roles /\ PeerPlaces
  BY <1>1, <1>2, IdleFacts DEF Roles, PeerPlaces
<1>5. NewHandles /\ InTime /\ OneWrapper /\ Fresh /\ Owned /\ InFlight
  <2> HIDE DEF Making, Adding
  <2>1. NewHandles /\ InTime
    BY <1>1, <1>2 DEF NewHandles, InTime
  <2>2. \A o \in Wrapper : ~Alive(o) /\ status[o] = "unused"
    BY <1>1 DEF Alive
  <2>3. OneWrapper /\ Owned
    BY <2>2 DEF OneWrapper, Owned
  <2>4. Fresh
    BY <1>2, <2>2, IdleFacts DEF Fresh
  <2>5. InFlight
    BY <1>1 DEF InFlight
  <2> QED
    BY <2>1, <2>3, <2>4, <2>5
<1>6. Told
  <2> SUFFICES ASSUME NEW h \in Handle PROVE ToldOf(<<>>, NoCall, Blank, Blank)
    BY <1>1, NoWrapperAssumption DEF Told, ToldAt, Shown
  <2>1. \A K, i : ~LastOf(<<>>, K, i)
    BY DEF LastOf
  <2> QED
    BY <2>1 DEF ToldOf, OpenTold, ValueTold
<1>7. SerialAt("app")
  BY <1>1, <1>2, IdleFacts
  DEF SerialAt, Guarded, Snapshot, Kinds, Target, Agree, OpenIsListed, ShutIsOut,
      Listed, Alive, SetPlace, Making
<1> QED
  BY <1>3, <1>4, <1>5, <1>6, <1>7, IdleFacts DEF Base, MirrorInv, Serial

LEMMA RegistryStep ==
    Typed /\ PtrInv /\ RegistryInv /\ [Next]_vars => RegistryInv'
<1> SUFFICES ASSUME Typed, PtrInv, RegistryInv, [Next]_vars PROVE RegistryInv'
  OBVIOUS
<1>1. Steps /\ Base /\ MirrorInv
  BY NextSteps DEF RegistryInv
<1>2. Reserved
  BY FreshReserved, SerialReserved DEF RegistryInv, Kept, Base
<1>3. Base'
  BY <1>1, <1>2, RetainedStep, RolesStep, PeerPlacesStep, NewHandlesStep,
     InTimeStep, OneWrapperStep DEF Base
<1>4. MirrorInv'
  BY <1>1, <1>2, MirrorStep DEF Base
<1>5. CASE ~Revisits /\ Fresh
  BY <1>1, <1>3, <1>4, <1>5, FreshStep DEF RegistryInv, Kept, Base
<1>6. CASE ~Overlap /\ Serial
  BY <1>1, <1>3, <1>4, <1>6, SerialStep DEF RegistryInv, Kept
<1> QED
  BY <1>5, <1>6 DEF RegistryInv, Kept

LEMMA RegistryHolds ==
    ASSUME ~Overlap \/ ~Revisits PROVE Spec => [](Typed /\ PtrInv /\ RegistryInv)
<1>1. Init => RegistryInv
  BY RegistryInit DEF RegistryInv, Kept
<1> QED
  BY <1>1, RegistryStep, PtrInvInit, PtrInvStep, TypedHolds, PTL DEF Spec

LEMMA SerialHolds ==
    ASSUME ~Overlap PROVE Spec => [](Typed /\ RegistryInv /\ Serial)
<1>1. Typed /\ RegistryInv /\ Serial /\ [Next]_vars => Serial'
  BY SerialStep, NextSteps DEF RegistryInv
<1>2. Init => Serial
  BY RegistryInit
<1> QED
  BY <1>1, <1>2, RegistryHolds, PTL DEF Spec

----------------------------------------------------------------------------
\* A handle never has two wrappers, so that the deinit of one cannot delete
\* the handle of another: the guards of createDataChannel, createTrack and of
\* the announcement callbacks see to it, unless calls overlap with
\* announcements of handles that the library has presented before.
THEOREM OneWrapperHolds ==
    ASSUME ~Overlap \/ ~Revisits PROVE Spec => []OneWrapper
<1>1. RegistryInv => OneWrapper
  BY DEF RegistryInv, Base
<1> QED
  BY <1>1, RegistryHolds, PTL

\* Once its events have been delivered, a listed wrapper's isOpen, lastError
\* and lastMessage are those of its channel, whatever happened before and
\* between the registrations of setupCallbacks.
THEOREM MirrorHolds ==
    ASSUME ~Overlap \/ ~Revisits PROVE Spec => []Mirror
<1>1. Typed /\ RegistryInv => Mirror
  <2> SUFFICES ASSUME Typed, RegistryInv, NEW o \in channels,
                      events[HandleOf(o)] = <<>>, running[HandleOf(o)] = NoCall
               PROVE  published[o] = truth[HandleOf(o)]
    BY DEF Mirror
  <2> DEFINE h == HandleOf(o)
  <2>1. o \in Wrapper /\ h \in Handle /\ Alive(o)
    BY CallFacts DEF RegistryInv, Base, RetainedLive, Retained, Alive
  <2>2. userPtr[h] = o /\ ToldAt(h)
    BY <2>1 DEF RegistryInv, MirrorInv, Owned, Told
  <2>3. ToldOf(<<>>, NoCall, truth[h], published[o])
    BY <2>1, <2>2 DEF ToldAt, Shown
  <2>4. \A K : NoneOf(<<>>, K)
    BY DEF NoneOf
  <2>5. /\ truth[h].isOpen <=> published[o].isOpen
        /\ truth[h].lastError = published[o].lastError
        /\ truth[h].lastMessage = published[o].lastMessage
    BY <2>3, <2>4 DEF ToldOf, OpenTold, ValueTold
  <2>6. truth[h] \in View /\ published[o] \in View
    BY <2>1 DEF Typed, TypeOK, LibTypeOK
  <2> QED
    BY <2>5, <2>6 DEF View
<1> QED
  BY <1>1, RegistryHolds, PTL

\* No question of a constructor or of setupCallbacks fails under its try!,
\* when every data channel has its stream id and every track its msid.
THEOREM SetupIsSafe ==
    ASSUME ~Overlap \/ ~Revisits, Omissions = {} PROVE Spec => []SetupNeverTraps
<1>1. Init => Known /\ SetupNeverTraps
  BY IdleFacts DEF Init, LibInit, Known, SetupNeverTraps, At
<1>2. Typed /\ RegistryInv /\ Known /\ SetupNeverTraps /\ [Next]_vars
          => Known' /\ SetupNeverTraps'
  BY KnownStep, TrapStep, NextSteps DEF RegistryInv, Base
<1> QED
  BY <1>1, <1>2, RegistryHolds, PTL DEF Spec

\* Between calls the published sets agree, each wrapper in the set of its
\* kind, if no announcement comes while the application is in a call.
THEOREM RegistryAgreesHolds ==
    ASSUME ~Overlap PROVE Spec => []RegistryAgrees
<1>1. Typed /\ Serial => RegistryAgrees
  <2> SUFFICES ASSUME Typed, Serial, Quiet, peerStatus = "live"
               PROVE  /\ channels = dataChannels \cup tracks
                      /\ \A o \in dataChannels : HandleOf(o) \in DataIds
                      /\ \A o \in tracks : HandleOf(o) \in TrackIds
    BY DEF RegistryAgrees
  <2>1. PICK t \in Thread : SerialAt(t)
    BY DEF Serial
  <2>2. \A o \in Wrapper : o \in channels <=> Listed(o)
    BY <2>1 DEF SerialAt, Agree, Quiet
  <2> QED
    BY <2>1, <2>2, CallFacts DEF SerialAt, Kinds, Listed
<1> QED
  BY <1>1, SerialHolds, PTL

\* Between calls the wrapper of an open channel is in both its sets, and one
\* that close() was called on is in none, under the same condition.
THEOREM ListedUntilClosedHolds ==
    ASSUME ~Overlap PROVE Spec => []ListedUntilClosed
<1>1. Typed /\ Serial => ListedUntilClosed
  <2> SUFFICES ASSUME Typed, Serial, Quiet, peerStatus = "live"
               PROVE  /\ \A o \in Wrapper :
                             Alive(o) /\ handle[HandleOf(o)] = "made" =>
                                 o \in channels /\ o \in KindSet(HandleOf(o))
                      /\ \A o \in shut : o \notin channels /\ ~Listed(o)
    BY DEF ListedUntilClosed, Listed
  <2>1. PICK t \in Thread : SerialAt(t)
    BY DEF Serial
  <2>2. ~Adding(t) /\ ~Removing(t)
    BY DEF Quiet, Adding, Removing, Kind, SetPlace
  <2>3. ASSUME NEW o \in Wrapper, Alive(o), handle[HandleOf(o)] = "made"
        PROVE  o \in channels /\ o \in KindSet(HandleOf(o))
    <3>1. o \in channels /\ Listed(o)
      BY <2>1, <2>2, <2>3 DEF SerialAt, OpenIsListed
    <3> QED
      BY <2>1, <3>1, IdsAssumption DEF SerialAt, Kinds, Listed, KindSet
  <2>4. \A o \in shut : o \notin channels /\ ~Listed(o)
    BY <2>1, <2>2 DEF SerialAt, ShutIsOut
  <2> QED
    BY <2>3, <2>4
<1> QED
  BY <1>1, SerialHolds, PTL

\* Channel.deinit never calls rtcDelete on an open channel, under the same
\* condition: while the peer is there an open channel's wrapper is listed,
\* and the peer closes the connection before its sets go.
THEOREM DeletedOnlyClosedHolds ==
    ASSUME ~Overlap PROVE Spec => DeletedOnlyClosed
<1>1. Typed /\ RegistryInv /\ Serial /\ [Next]_vars =>
          \A h \in Handle : handle[h] = "made" => handle'[h] # "deleted"
  <2> SUFFICES ASSUME Typed, RegistryInv, Serial, Steps, NEW h \in Handle,
                      handle[h] = "made"
               PROVE  handle'[h] # "deleted"
    BY NextSteps
  <2>1. ASSUME NEW o \in Wrapper, FinishDeinit(o) PROVE HandleOf(o) # h
    <3> SUFFICES ASSUME HandleOf(o) = h PROVE FALSE
      OBVIOUS
    <3>1. status[o] = "deinit"
      BY <2>1, DeinitFacts
    <3>2. ~Retained(o)
      BY <3>1 DEF RegistryInv, Base, RetainedLive
    <3>3. peerStatus = "live"
      BY DEF RegistryInv, Base, PeerPlaces
    <3>4. PICK t \in Thread : OpenIsListed(t)
      BY <3>3 DEF Serial, SerialAt
    <3>5. o \in channels \/ call[t].obj = o
      BY <3>1, <3>4 DEF OpenIsListed, Alive
    <3> QED
      BY <3>2, <3>5 DEF Retained
  <2>2. ASSUME NEW o \in Wrapper, FinishDeinit(o) PROVE handle'[h] = handle[h]
    BY <2>1, <2>2, DeinitFacts, DeleteFacts, CallFacts
  <2> QED
    BY <2>2, HandleSteps DEF HandleOrder
<1>2. Typed /\ RegistryInv /\ Serial /\ [Next]_vars =>
          [\A h \in Handle : handle[h] = "made" => handle'[h] # "deleted"]_vars
  BY <1>1
<1> QED
  BY <1>2, SerialHolds, PTL DEF Spec, DeletedOnlyClosed

----------------------------------------------------------------------------
\* The directories: a wrapper is absent from one while it is coming, until its
\* call has passed the last place before the wrapper is listed there.
AllPlaces == Kind \cup {"readAll", "writeAll"}
KindPlaces == Kind \cup SetPlace
Coming(o, places) ==
    \/ status[o] = "unused"
    \/ \E t \in Thread : call[t].obj = o /\ call[t].adding /\ At(t) \in places
EntryIn(o, listed, places) ==
    IF listed THEN "listed" ELSE IF Coming(o, places) THEN "absent" ELSE "gone"

\* Who is being removed has been closed.
Aims == \A t \in Thread : Removing(t) => call[t].obj \in shut
DirInv == Typed /\ Base /\ Serial /\ Aims

Shape ==
    /\ AllEntries = [o \in Wrapper |-> EntryIn(o, o \in channels, AllPlaces)]
    /\ KindEntries = [o \in Wrapper |-> EntryIn(o, Listed(o), KindPlaces)]

LEMMA EntriesAre == Shape
<1>1. /\ \A set, before : Entries(set, before) =
            [o \in Wrapper |-> EntryIn(o, o \in set, before)]
  BY DEF Entries, EntryIn, Coming
<1>2. KindPlaces = Kind \cup {"readAll", "writeAll", "readKind", "writeKind"}
  BY DEF KindPlaces, SetPlace
<1>3. \A o : o \in dataChannels \cup tracks <=> Listed(o)
  BY DEF Listed
<1> QED
  BY <1>1, <1>2, <1>3
  DEF Shape, AllEntries, KindEntries, AllPlaces

LEMMA ShapeStays == Shape /\ Shape'
BY EntriesAre, PTL

\* A step that no directory shows.
SameComing == \A o \in Wrapper : /\ Coming(o, AllPlaces)' <=> Coming(o, AllPlaces)
                                 /\ Coming(o, KindPlaces)' <=> Coming(o, KindPlaces)
SameOpen == peerStatus' = "freed" <=> peerStatus = "freed"
Unseen == SameComing /\ SameOpen /\ UNCHANGED <<setVars, shut>>

LEMMA UnseenStutters ==
    ASSUME Unseen PROVE UNCHANGED All!vars /\ UNCHANGED ByKind!vars
<1>1. \A o \in Wrapper :
         /\ EntryIn(o, o \in channels, AllPlaces)' = EntryIn(o, o \in channels, AllPlaces)
         /\ EntryIn(o, Listed(o), KindPlaces)' = EntryIn(o, Listed(o), KindPlaces)
  <2> HIDE DEF Coming
  <2> QED
    BY DEF Unseen, SameComing, EntryIn, Listed, setVars
<1>2. UNCHANGED AllEntries /\ UNCHANGED KindEntries
  <2> HIDE DEF EntryIn
  <2> QED
    BY <1>1, ShapeStays DEF Shape
<1>3. UNCHANGED (peerStatus # "freed") /\ UNCHANGED shut
  BY DEF Unseen, SameOpen
<1> QED
  BY <1>2, <1>3 DEF All!vars, ByKind!vars

\* Aims: only close() starts a removal.
LEMMA RemovalFacts ==
    ASSUME Typed, Roles, Steps
    PROVE  \A t \in Thread : Removing(t)' =>
               \/ Removing(t) /\ call'[t].obj = call[t].obj
               \/ \E o \in Wrapper : Close(o) /\ call'[t].obj = o
<1> DEFINE Kept1 == \A t \in Thread : Removing(t)' =>
                        Removing(t) /\ call'[t].obj = call[t].obj
<1> USE IdleFacts DEF At, Removing, Making, Kind, SetPlace
<1>1. CASE Aside \/ FinishPeerDeinit
  BY <1>1, AsideKeeps DEF Registry, FinishPeerDeinit
<1>2. ASSUME NEW ids \in SUBSET Handle, NEW fact, Obtain(ids, fact) PROVE Kept1
  BY <1>2, ObtainFacts DEF Started, Others
<1>3. CASE CheckExisting \/ AnnGuard
  BY <1>3, CheckFacts, GuardFacts DEF Moved, Returned, Others
<1>4. ASSUME NEW h \in Handle, AnnStart(h) PROVE Kept1
  BY <1>4, AnnStartFacts DEF Started, Others
<1>5. ASSUME NEW t \in Thread, Construct(t) PROVE Kept1
  <2>1. At(t) = "construct" /\ call[t].adding
    BY <1>5 DEF Construct, Roles
  <2> QED
    BY <1>5, <2>1, ConstructFacts, TrapFacts DEF Moved, Others
<1>6. ASSUME NEW t \in Thread, Register(t) PROVE Kept1
  <2>1. call[t].adding
    BY <1>6, RegisterFacts DEF Roles
  <2> QED
    BY <1>6, <2>1, RegisterFacts DEF Moved, Others
<1>7. ASSUME NEW t \in Thread, ReadAll(t) \/ ReadKind(t) PROVE Kept1
  BY <1>7, ReadFacts DEF ReadAll, ReadKind, Moved, Returned, Others
<1>8. ASSUME NEW t \in Thread, WriteAll(t) \/ WriteKind(t) PROVE Kept1
  BY <1>8, WriteAllFacts, WriteKindFacts DEF Moved, Returned, Others
<1>9. ASSUME NEW o \in Wrapper, Close(o)
      PROVE  \A t \in Thread : Removing(t)' =>
                 \/ Removing(t) /\ call'[t].obj = call[t].obj
                 \/ call'[t].obj = o
  <2>1. call'["app"].obj = o /\ Others("app")
    BY <1>9, CloseFacts
  <2> QED
    BY <2>1 DEF Others
<1>10. ASSUME NEW o \in Wrapper,
              Take(o) \/ Drop(o) \/ BeginDeinit(o) \/ FinishDeinit(o)
       PROVE  Kept1
  BY <1>10, DeinitFacts DEF Take, Drop
<1>11. CASE ReleasePeer \/ LeaveFreed
  BY <1>11, LeaveFacts DEF Moved, Returned, Others
<1> HIDE DEF Removing
<1> QED
  BY <1>1, <1>2, <1>3, <1>4, <1>5, <1>6, <1>7, <1>8, <1>9, <1>10, <1>11, ObtainWays
  DEF Steps

LEMMA AimsStep == Typed /\ Roles /\ Aims /\ Steps => Aims'
<1> SUFFICES ASSUME Typed, Roles, Aims, Steps PROVE Aims'
  OBVIOUS
<1>1. shut \subseteq shut'
  <2>1. Aside => UNCHANGED shut
    BY AsideKeeps DEF Registry
  <2>2. ASSUME NEW ids, NEW fact, Obtain(ids, fact) PROVE UNCHANGED shut
    BY <2>2 DEF Obtain, objVars
  <2>6. ASSUME NEW h \in Handle, AnnStart(h) PROVE UNCHANGED shut
    BY <2>6 DEF AnnStart, objVars
  <2>3. CheckExisting \/ AnnGuard \/ FinishPeerDeinit => UNCHANGED shut
    BY DEF CheckExisting, AnnGuard, FinishPeerDeinit, objVars
  <2>4. \A t \in Thread : Construct(t) \/ Register(t) \/ ReadAll(t) \/ WriteAll(t)
                           \/ ReadKind(t) \/ WriteKind(t) => UNCHANGED shut
    BY DEF Construct, Register, ReadAll, ReadKind, Read, WriteAll, WriteKind,
           objVars
  <2>5. \A o \in Wrapper : /\ Close(o) => shut \subseteq shut'
                           /\ Take(o) \/ Drop(o) \/ BeginDeinit(o)
                                  \/ FinishDeinit(o) => UNCHANGED shut
    BY DEF Close, Take, Drop, BeginDeinit, FinishDeinit
  <2>7. ReleasePeer \/ LeaveFreed => UNCHANGED shut
    BY LeaveFacts
  <2> QED
    BY <2>1, <2>2, <2>3, <2>4, <2>5, <2>6, <2>7, ObtainWays DEF Steps
<1>2. \A o \in Wrapper : Close(o) => o \in shut'
  BY DEF Close
<1> HIDE DEF Removing
<1> QED
  BY <1>1, <1>2, RemovalFacts DEF Aims

\* A call that moves without passing a place where its wrapper is listed.
LEMMA ComingStays ==
    ASSUME NEW t \in Thread, Others(t),
           \A o \in Wrapper : status'[o] = "unused" <=> status[o] = "unused",
           \/ ~Adding(t) /\ ~Adding(t)'
           \/ /\ call'[t].obj = call[t].obj /\ call'[t].adding = call[t].adding
              /\ At(t)' \in AllPlaces <=> At(t) \in AllPlaces
              /\ At(t)' \in KindPlaces <=> At(t) \in KindPlaces
    PROVE  SameComing
<1> DEFINE Brings(u, o, places) ==
        call[u].obj = o /\ call[u].adding /\ At(u) \in places
<1>1. ASSUME NEW u \in Thread, NEW o \in Wrapper
      PROVE  /\ Brings(u, o, AllPlaces)' <=> Brings(u, o, AllPlaces)
             /\ Brings(u, o, KindPlaces)' <=> Brings(u, o, KindPlaces)
  <2>1. CASE u # t
    BY <2>1 DEF Others, At
  <2>2. CASE u = t /\ ~Adding(t) /\ ~Adding(t)'
    BY <2>2 DEF Adding, AllPlaces, KindPlaces, SetPlace
  <2>3. CASE u = t /\ ~(~Adding(t) /\ ~Adding(t)')
    BY <2>3
  <2> QED
    BY <2>1, <2>2, <2>3
<1> QED
  BY <1>1 DEF SameComing, Coming

LEMMA UnseenAside ==
    ASSUME Typed, NEW o,
           \/ Aside
           \/ o \in Wrapper /\ (\/ Take(o) \/ Drop(o)
                               \/ BeginDeinit(o) \/ FinishDeinit(o))
    PROVE  Unseen
<1>1. UNCHANGED <<setVars, shut, call>>
      /\ \A p \in Wrapper : status'[p] = "unused" <=> status[p] = "unused"
  <2>1. Aside => UNCHANGED <<setVars, shut, call, status>>
    BY AsideKeeps DEF Registry
  <2>2. Take(o) \/ Drop(o) => UNCHANGED <<setVars, shut, call, status>>
    BY DEF Take, Drop
  <2>3. o \in Wrapper /\ (BeginDeinit(o) \/ FinishDeinit(o)) =>
            /\ UNCHANGED <<setVars, shut, call>>
            /\ \A p \in Wrapper : status'[p] = "unused" <=> status[p] = "unused"
    BY DeinitFacts
  <2> QED
    BY <2>1, <2>2, <2>3
<1>2. SameComing
  BY <1>1 DEF SameComing, Coming, At
<1>3. SameOpen
  <2>1. Aside => peerStatus' = peerStatus
                 \/ (peerStatus = "live" /\ peerStatus' = "deinit")
    BY DEF Aside, Library, objVars, ClosePeer, DropPeer, BeginPeerDeinit,
           StartPeerDeinit, CbRun, vars
  <2>2. Take(o) \/ Drop(o) => UNCHANGED peerStatus
    BY DEF Take, Drop
  <2>3. o \in Wrapper /\ (BeginDeinit(o) \/ FinishDeinit(o)) => UNCHANGED peerStatus
    BY DeinitFacts
  <2> QED
    BY <2>1, <2>2, <2>3 DEF SameOpen
<1> QED
  BY <1>1, <1>2, <1>3 DEF Unseen

\* The starts and the guards, and the moves of a call up to a set.
LEMMA UnseenStarts ==
    ASSUME Typed, Roles,
           \/ \E ids \in SUBSET Handle, fact \in BOOLEAN : Obtain(ids, fact)
           \/ \E h \in Handle : AnnStart(h)
           \/ CheckExisting \/ AnnGuard \/ ReleasePeer \/ LeaveFreed
    PROVE  Unseen
<1> DEFINE Goal == /\ UNCHANGED <<setVars, status, shut>> /\ SameOpen
                   /\ \E t \in Thread : Others(t) /\ ~Adding(t) /\ ~Adding(t)'
<1>1. Goal
  <2> USE IdleFacts DEF Adding, Kind, SetPlace, At, SameOpen
  <2>5. CASE ReleasePeer \/ LeaveFreed
    BY <2>5, LeaveFacts DEF objVars, Moved, Returned
  <2>1. ASSUME NEW ids \in SUBSET Handle, NEW fact, Obtain(ids, fact) PROVE Goal
    BY <2>1, ObtainFacts DEF objVars, Started, MayStart
  <2>2. ASSUME NEW h \in Handle, AnnStart(h) PROVE Goal
    BY <2>2, AnnStartFacts DEF objVars, Started, MayStart
  <2>3. CASE CheckExisting
    BY <2>3, CheckFacts DEF Moved, Returned
  <2>4. CASE AnnGuard
    BY <2>4, GuardFacts DEF objVars, Moved, Returned
  <2> HIDE DEF Goal
  <2> QED
    BY <2>1, <2>2, <2>3, <2>4, <2>5
<1> QED
  BY <1>1, ComingStays DEF Unseen

LEMMA UnseenConstruct ==
    ASSUME Typed, Roles, NEW t \in Thread, Construct(t) PROVE Unseen
<1>1. At(t) = "construct" /\ call[t].adding
  BY DEF Construct, Roles, Making
<1>2. CASE ~Answerable(t)
  <2>1. /\ Others(t) /\ ~Adding(t) /\ ~Adding(t)'
        /\ UNCHANGED <<setVars, status, shut, peerStatus>>
    BY <1>1, <1>2, TrapFacts DEF Moved, Adding, Kind, SetPlace, At, objVars
  <2> QED
    BY <2>1, ComingStays DEF Unseen, SameOpen
<1>3. CASE Answerable(t)
  <2>1. PICK o \in Wrapper :
           /\ status[o] = "unused" /\ status'[o] = "live"
           /\ \A p \in Wrapper \ {o} : status'[p] = status[p]
           /\ call'[t].at = "open" /\ call'[t].obj = o
           /\ call'[t].adding = call[t].adding
           /\ \A u \in Thread : u # t => call'[u] = call[u]
           /\ UNCHANGED <<setVars, shut, peerStatus>>
    BY <1>3, ConstructFacts
  <2>2. /\ "open" \in AllPlaces /\ "open" \in KindPlaces
        /\ "construct" \notin AllPlaces /\ "construct" \notin KindPlaces
    BY DEF AllPlaces, KindPlaces, Kind, SetPlace
  <2>3. Coming(o, AllPlaces) /\ Coming(o, KindPlaces)
        /\ Coming(o, AllPlaces)' /\ Coming(o, KindPlaces)'
    BY <1>1, <2>1, <2>2 DEF Coming, At
  <2>4. ASSUME NEW p \in Wrapper \ {o}, NEW places, "construct" \notin places
        PROVE  /\ Coming(p, places) <=> status[p] = "unused"
                      \/ \E u \in Thread \ {t} : call[u].obj = p /\ call[u].adding
                                                 /\ call[u].at \in places
               /\ (status[p] = "unused"
                      \/ \E u \in Thread : call'[u].obj = p /\ call'[u].adding
                                                 /\ call'[u].at \in places)
                  <=> Coming(p, places)
    BY <1>1, <2>1, <2>4 DEF Coming, At
  <2>5. SameComing
    BY <2>1, <2>2, <2>3, <2>4 DEF SameComing, Coming, At
  <2> QED
    BY <2>1, <2>5 DEF Unseen, SameOpen
<1> QED
  BY <1>2, <1>3

LEMMA UnseenMoves ==
    ASSUME Typed, Roles, InTime, NEW t \in Thread,
           Register(t) \/ ReadAll(t) \/ ReadKind(t)
    PROVE  Unseen
<1> USE DEF AllPlaces, KindPlaces, SetPlace, Kind, At
<1>1. CASE Register(t)
  <2>1. At(t) \in Kind /\ UNCHANGED <<setVars, status, shut, peerStatus>>
    BY <1>1, RegisterFacts DEF objVars
  <2>2. handle[call[t].hdl] # "deleted"
    BY <2>1 DEF Roles, Adding, InTime
  <2>3. PICK place \in Kind \cup {"readAll"} : Moved(t, place)
    BY <1>1, <2>2, RegisterFacts
  <2>4. SameComing
    BY <2>1, <2>3, ComingStays DEF Moved
  <2> QED
    BY <2>1, <2>4 DEF Unseen, SameOpen
<1>2. ASSUME NEW S, NEW place, NEW next, Read(t, place, S, next),
             \/ place = "readAll" /\ next = "writeAll"
             \/ place = "readKind" /\ next = "writeKind"
      PROVE  Unseen
  <2>1. At(t) = place /\ UNCHANGED <<setVars, status, shut, peerStatus>>
    BY <1>2, ReadFacts DEF objVars
  <2>2. CASE PeerGone(t) /\ Returned(t)
    <3>1. ~Adding(t) /\ ~Adding(t)' /\ Others(t)
      BY <2>2, IdleFacts DEF PeerGone, Adding, Returned
    <3> QED
      BY <2>1, <3>1, ComingStays DEF Unseen, SameOpen
  <2>3. CASE Moved(t, next)
    <3>1. SameComing
      BY <1>2, <2>1, <2>3, ComingStays DEF Moved
    <3> QED
      BY <2>1, <3>1 DEF Unseen, SameOpen
  <2> QED
    BY <1>2, <2>2, <2>3, ReadFacts
<1> QED
  BY <1>1, <1>2 DEF ReadAll, ReadKind

\* What the directories say of a wrapper, before and after a step.
LEMMA Readings ==
    /\ AllEntries = [o \in Wrapper |-> AllEntries[o]]
    /\ AllEntries' = [o \in Wrapper |-> AllEntries'[o]]
    /\ KindEntries = [o \in Wrapper |-> KindEntries[o]]
    /\ KindEntries' = [o \in Wrapper |-> KindEntries'[o]]
    /\ \A o \in Wrapper :
          /\ AllEntries[o] = IF o \in channels THEN "listed"
                             ELSE IF Coming(o, AllPlaces) THEN "absent" ELSE "gone"
          /\ AllEntries'[o] = IF o \in channels' THEN "listed"
                              ELSE IF Coming(o, AllPlaces)' THEN "absent" ELSE "gone"
          /\ KindEntries[o] = IF Listed(o) THEN "listed"
                              ELSE IF Coming(o, KindPlaces) THEN "absent" ELSE "gone"
          /\ KindEntries'[o] = IF Listed(o)' THEN "listed"
                               ELSE IF Coming(o, KindPlaces)' THEN "absent" ELSE "gone"
<1> HIDE DEF Coming, Listed
<1> QED
  BY ShapeStays DEF Shape, EntryIn

LEMMA OneChange ==
    ASSUME NEW S, NEW e, NEW f, e = [x \in S |-> e[x]], f = [x \in S |-> f[x]],
           NEW o \in S, \A x \in S \ {o} : f[x] = e[x]
    PROVE  f = [e EXCEPT ![o] = f[o]]
OBVIOUS

LEMMA NoChange ==
    ASSUME NEW S, NEW e, NEW f, e = [x \in S |-> e[x]], f = [x \in S |-> f[x]],
           \A x \in S : f[x] = e[x]
    PROVE  f = e
OBVIOUS

\* The wrapper of a call that is writing a set, before and after.
LEMMA WriterFacts ==
    ASSUME Typed, RetainedLive, Serial, OneWrapper, PeerPlaces, Aims,
           NEW t \in Thread, At(t) \in {"writeAll", "writeKind"}
    PROVE  LET o == call[t].obj IN
           /\ SerialAt(t)
           /\ o \in Wrapper /\ HandleOf(o) = call[t].hdl /\ status[o] = "live"
           /\ \A p \in channels : HandleOf(p) = HandleOf(o) => p = o
           /\ \A p \in Wrapper : Listed(p) /\ HandleOf(p) = HandleOf(o) => p = o
           /\ ~call[t].adding => o \in shut
           /\ call[t].adding => peerStatus # "freed"
           /\ \A places : "idle" \notin places =>
                 /\ Coming(o, places) <=> call[t].adding /\ At(t) \in places
                 /\ \A p \in Wrapper \ {o} :
                        Coming(p, places) <=> status[p] = "unused"
<1> DEFINE o == call[t].obj
<1>1. SerialAt(t)
  BY SerialBusy
<1>2. o \in Wrapper /\ HandleOf(o) = call[t].hdl /\ status[o] = "live"
  BY DEF Typed, Located, HasObject, RetainedLive, Retained
<1>3. \A p \in Wrapper : p \in channels \/ Listed(p) => status[p] = "live"
  BY DEF RetainedLive, Retained, Listed
<1>4. \A p \in Wrapper : (p \in channels \/ Listed(p)) /\ HandleOf(p) = HandleOf(o)
          => p = o
  BY <1>2, <1>3 DEF OneWrapper, Alive
<1>5. ~call[t].adding => o \in shut
  BY DEF Aims, Removing, SetPlace
<1>6. call[t].adding => peerStatus # "freed"
  BY IdleFacts DEF PeerPlaces, HoldsPeer
<1>7. ASSUME NEW places, "idle" \notin places
      PROVE  /\ Coming(o, places) <=> call[t].adding /\ At(t) \in places
             /\ \A p \in Wrapper \ {o} : Coming(p, places) <=> status[p] = "unused"
  BY <1>1, <1>2, <1>7 DEF Coming, SerialAt
<1>8. channels \subseteq Wrapper
  BY CallFacts
<1> HIDE DEF Coming, Listed
<1> QED
  BY <1>1, <1>2, <1>4, <1>5, <1>6, <1>7, <1>8

LEMMA WriteAllShown ==
    ASSUME Typed, RetainedLive, Serial, OneWrapper, PeerPlaces, Aims,
           NEW t \in Thread, WriteAll(t)
    PROVE  [All!Next]_(All!vars) /\ UNCHANGED ByKind!vars
<1> DEFINE o == call[t].obj
<1>1. /\ At(t) = "writeAll" /\ Moved(t, "readKind") /\ channels' = Changed(t)
      /\ UNCHANGED <<dataChannels, tracks, status, shut, peerStatus>>
  BY WriteAllFacts DEF objVars
<1>2. /\ o \in Wrapper /\ SerialAt(t) /\ status[o] = "live"
      /\ \A p \in channels : HandleOf(p) = HandleOf(o) => p = o
      /\ ~call[t].adding => o \in shut
      /\ call[t].adding => peerStatus # "freed"
  BY <1>1, WriterFacts
<1>3. channels' = IF call[t].adding THEN channels \cup {o} ELSE channels \ {o}
  <2>1. call[t].snap = channels
    BY <1>1, <1>2 DEF SerialAt, Snapshot
  <2> QED
    BY <1>1, <2>1, ChangedIs DEF HasObject
<1>4. /\ "writeAll" \in AllPlaces /\ "readKind" \notin AllPlaces
      /\ "writeAll" \in KindPlaces /\ "readKind" \in KindPlaces
      /\ "idle" \notin AllPlaces /\ "idle" \notin KindPlaces
  BY DEF AllPlaces, KindPlaces, SetPlace, Kind
<1>5. /\ Coming(o, AllPlaces) <=> call[t].adding
      /\ \A p \in Wrapper \ {o} : Coming(p, AllPlaces) <=> status[p] = "unused"
  BY <1>1, <1>4, WriterFacts
<1>6. \A p \in Wrapper : Coming(p, AllPlaces)' <=> status[p] = "unused"
  <2>1. \A u \in Thread : At(u)' \notin AllPlaces
    BY <1>1, <1>2, <1>4 DEF SerialAt, Moved, Others, At
  <2> QED
    BY <1>1, <2>1 DEF Coming
<1>7. UNCHANGED ByKind!vars
  <2>1. \A p \in Wrapper : Coming(p, KindPlaces)' <=> Coming(p, KindPlaces)
    BY <1>1, <1>4 DEF Coming, Moved, Others, At
  <2>2. UNCHANGED KindEntries
    <3> HIDE DEF Coming
    <3>1. \A p \in Wrapper : Listed(p)' <=> Listed(p)
      BY <1>1 DEF Listed
    <3>2. \A p \in Wrapper : KindEntries'[p] = KindEntries[p]
      BY <2>1, <3>1, Readings
    <3> QED
      BY <3>2, Readings, NoChange
  <2> QED
    BY <1>1, <2>2 DEF ByKind!vars
<1> HIDE DEF o, Coming
<1>8. \A p \in Wrapper \ {o} : AllEntries'[p] = AllEntries[p]
  BY <1>1, <1>3, <1>5, <1>6, Readings
<1>9. CASE call[t].adding /\ o \notin channels
  <2>1. AllEntries[o] = "absent" /\ AllEntries'[o] = "listed"
    BY <1>2, <1>3, <1>5, <1>9, Readings
  <2>2. \A p \in Wrapper : p[1] = o[1] => AllEntries[p] # "listed"
    BY <1>2, <1>9, Readings DEF HandleOf
  <2>3. AllEntries' = [AllEntries EXCEPT ![o] = "listed"]
    BY <1>2, <1>8, <2>1, OneChange, Readings
  <2>4. All!List(o)
    BY <1>1, <1>2, <1>9, <2>1, <2>2, <2>3 DEF All!List, All!Entry, Wrapper
  <2> QED
    BY <1>2, <1>7, <2>4 DEF All!Next, All!Entry, Wrapper
<1>10. CASE ~call[t].adding /\ o \in channels
  <2>1. AllEntries[o] = "listed" /\ AllEntries'[o] = "gone"
    BY <1>2, <1>3, <1>6, <1>10, Readings
  <2>2. AllEntries' = [AllEntries EXCEPT ![o] = "gone"]
    BY <1>2, <1>8, <2>1, OneChange, Readings
  <2>3. All!Unlist(o)
    BY <1>1, <1>2, <1>10, <2>1, <2>2 DEF All!Unlist
  <2> QED
    BY <1>2, <1>7, <2>3 DEF All!Next, All!Entry, Wrapper
<1>11. CASE call[t].adding <=> o \in channels
  <2>1. AllEntries'[o] = AllEntries[o]
    BY <1>2, <1>3, <1>5, <1>6, <1>11, Readings
  <2>2. UNCHANGED AllEntries
    BY <1>8, <2>1, NoChange, Readings
  <2> QED
    BY <1>1, <1>7, <2>2 DEF All!vars
<1> QED
  BY <1>9, <1>10, <1>11

LEMMA WriteKindShown ==
    ASSUME Typed, RetainedLive, Serial, OneWrapper, PeerPlaces, Aims,
           NEW t \in Thread, WriteKind(t)
    PROVE  UNCHANGED All!vars /\ [ByKind!Next]_(ByKind!vars)
<1> DEFINE o == call[t].obj
<1>1. /\ At(t) = "writeKind" /\ Returned(t)
      /\ UNCHANGED <<channels, status, shut, peerStatus>>
  BY WriteKindFacts
<1>2. /\ o \in Wrapper /\ SerialAt(t) /\ status[o] = "live"
      /\ HandleOf(o) = call[t].hdl /\ call[t].hdl \in Handle
      /\ \A p \in Wrapper : Listed(p) /\ HandleOf(p) = HandleOf(o) => p = o
      /\ ~call[t].adding => o \in shut
      /\ call[t].adding => peerStatus # "freed"
  BY <1>1, WriterFacts, CallFacts
<1>3. \A p \in Wrapper : Listed(p)' <=> IF p = o THEN call[t].adding ELSE Listed(p)
  <2>1. call[t].snap = KindSet(call[t].hdl)
    BY <1>1, <1>2 DEF SerialAt, Snapshot
  <2>2. Changed(t) = IF call[t].adding THEN KindSet(call[t].hdl) \cup {o}
                     ELSE KindSet(call[t].hdl) \ {o}
    BY <1>1, <2>1, ChangedIs DEF HasObject, KindSet
  <2> QED
    BY <1>1, <1>2, <2>1, <2>2, WriteKindFacts, IdsAssumption
    DEF SerialAt, Kinds, KindSet, Listed, Handle
<1>4. /\ "writeKind" \notin AllPlaces /\ "writeKind" \in KindPlaces
      /\ "idle" \notin AllPlaces /\ "idle" \notin KindPlaces
      /\ "leaving" \notin AllPlaces /\ "leaving" \notin KindPlaces
  BY DEF AllPlaces, KindPlaces, SetPlace, Kind
<1>5. /\ Coming(o, KindPlaces) <=> call[t].adding
      /\ \A p \in Wrapper \ {o} : Coming(p, KindPlaces) <=> status[p] = "unused"
  BY <1>1, <1>4, WriterFacts
<1>6. \A p \in Wrapper : /\ Coming(p, KindPlaces)' <=> status[p] = "unused"
                         /\ Coming(p, AllPlaces)' <=> status[p] = "unused"
  <2>1. \A u \in Thread : At(u)' \in {"idle", "leaving"}
    BY <1>1, <1>2 DEF SerialAt, Returned, Others, At
  <2> QED
    BY <1>1, <1>4, <2>1 DEF Coming
<1>7. UNCHANGED All!vars
  <2>1. \A p \in Wrapper : Coming(p, AllPlaces) <=> status[p] = "unused"
    BY <1>1, <1>2, <1>4, WriterFacts
  <2>2. UNCHANGED AllEntries
    <3> HIDE DEF Coming
    <3>1. \A p \in Wrapper : AllEntries'[p] = AllEntries[p]
      BY <1>1, <1>6, <2>1, Readings
    <3> QED
      BY <3>1, Readings, NoChange
  <2> QED
    BY <1>1, <2>2 DEF All!vars
<1> HIDE DEF o, Coming, Listed
<1>8. \A p \in Wrapper \ {o} : KindEntries'[p] = KindEntries[p]
  BY <1>1, <1>3, <1>5, <1>6, Readings
<1>9. CASE call[t].adding /\ ~Listed(o)
  <2>1. KindEntries[o] = "absent" /\ KindEntries'[o] = "listed"
    BY <1>2, <1>3, <1>5, <1>9, Readings
  <2>2. \A p \in Wrapper : p[1] = o[1] => KindEntries[p] # "listed"
    BY <1>2, <1>9, Readings DEF HandleOf
  <2>3. KindEntries' = [KindEntries EXCEPT ![o] = "listed"]
    BY <1>2, <1>8, <2>1, OneChange, Readings
  <2>4. ByKind!List(o)
    BY <1>1, <1>2, <1>9, <2>1, <2>2, <2>3 DEF ByKind!List, ByKind!Entry, Wrapper
  <2> QED
    BY <1>2, <1>7, <2>4 DEF ByKind!Next, ByKind!Entry, Wrapper
<1>10. CASE ~call[t].adding /\ Listed(o)
  <2>1. KindEntries[o] = "listed" /\ KindEntries'[o] = "gone"
    BY <1>2, <1>3, <1>6, <1>10, Readings
  <2>2. KindEntries' = [KindEntries EXCEPT ![o] = "gone"]
    BY <1>2, <1>8, <2>1, OneChange, Readings
  <2>3. ByKind!Unlist(o)
    BY <1>1, <1>2, <1>10, <2>1, <2>2 DEF ByKind!Unlist
  <2> QED
    BY <1>2, <1>7, <2>3 DEF ByKind!Next, ByKind!Entry, Wrapper
<1>11. CASE call[t].adding <=> Listed(o)
  <2>1. KindEntries'[o] = KindEntries[o]
    BY <1>2, <1>3, <1>5, <1>6, <1>11, Readings
  <2>2. UNCHANGED KindEntries
    BY <1>8, <2>1, NoChange, Readings
  <2> QED
    BY <1>1, <1>7, <2>2 DEF ByKind!vars
<1> QED
  BY <1>9, <1>10, <1>11

LEMMA CloseShown ==
    ASSUME Typed, RetainedLive, Serial, ~Overlap, NEW o \in Wrapper, Close(o)
    PROVE  All!Next /\ ByKind!Next
<1>1. /\ \A u \in Thread : At(u) = "idle"
      /\ o \in appRefs /\ shut' = shut \cup {o} /\ Others("app")
      /\ ~Adding("app") /\ ~Adding("app")'
      /\ UNCHANGED <<setVars, status, peerStatus>>
  BY CloseFacts, SerialStart, IdleFacts DEF Adding, Kind, SetPlace, At
<1>2. UNCHANGED AllEntries /\ UNCHANGED KindEntries
  <2>1. SameComing
    BY <1>1, IdleFacts, ComingStays
  <2>2. \A p \in Wrapper : Listed(p)' <=> Listed(p)
    BY <1>1 DEF Listed, setVars
  <2>3. UNCHANGED channels
    BY <1>1 DEF setVars
  <2> HIDE DEF Coming, Listed
  <2>4. \A p \in Wrapper : AllEntries'[p] = AllEntries[p]
                           /\ KindEntries'[p] = KindEntries[p]
    BY <2>1, <2>2, <2>3, Readings DEF SameComing
  <2> QED
    BY <2>4, Readings, NoChange
<1>3. AllEntries[o] # "absent" /\ KindEntries[o] # "absent"
  <2>1. status[o] = "live"
    BY <1>1 DEF RetainedLive, Retained
  <2>2. "idle" \notin AllPlaces /\ "idle" \notin KindPlaces
    BY DEF AllPlaces, KindPlaces, SetPlace, Kind
  <2>3. ~Coming(o, AllPlaces) /\ ~Coming(o, KindPlaces)
    BY <1>1, <2>1, <2>2 DEF Coming
  <2> HIDE DEF Coming, Listed
  <2> QED
    BY <2>3, Readings
<1>4. All!Shut(o) /\ ByKind!Shut(o)
  BY <1>1, <1>2, <1>3 DEF All!Shut, ByKind!Shut
<1> QED
  BY <1>4 DEF All!Next, ByKind!Next, All!Entry, ByKind!Entry, Wrapper

LEMMA EndShown ==
    ASSUME Typed, RetainedLive, PeerPlaces, Roles, FinishPeerDeinit
    PROVE  All!Next /\ ByKind!Next
<1>1. /\ peerStatus = "deinit" /\ peerStatus' = "freed"
      /\ At("lib") \in {"idle", "deleting"}
      /\ channels' = {} /\ dataChannels' = {} /\ tracks' = {}
      /\ UNCHANGED <<call, status, shut>>
  BY DEF FinishPeerDeinit
<1>2. ~HoldsPeer("app")
  BY <1>1 DEF PeerPlaces
<1>3. \A t \in Thread : ~(call[t].adding /\ At(t) \in KindPlaces)
                        /\ ~(call[t].adding /\ At(t) \in AllPlaces)
  BY <1>1, <1>2, IdleFacts DEF HoldsPeer, KindPlaces, AllPlaces, SetPlace, Kind
<1>4. \A o \in Wrapper :
         /\ Coming(o, AllPlaces) <=> status[o] = "unused"
         /\ Coming(o, AllPlaces)' <=> status[o] = "unused"
         /\ Coming(o, KindPlaces) <=> status[o] = "unused"
         /\ Coming(o, KindPlaces)' <=> status[o] = "unused"
  BY <1>1, <1>3 DEF Coming, At
<1>5. \A o \in Wrapper : /\ o \in channels \/ Listed(o) => status[o] = "live"
                         /\ o \notin channels' /\ ~Listed(o)'
  BY <1>1 DEF RetainedLive, Retained, Listed
<1> HIDE DEF Coming, Listed
<1>6. \A o \in Wrapper :
         /\ AllEntries'[o] = IF AllEntries[o] = "listed" THEN "gone" ELSE AllEntries[o]
         /\ KindEntries'[o] = IF KindEntries[o] = "listed" THEN "gone" ELSE KindEntries[o]
  BY <1>4, <1>5, Readings
<1>7. All!End
  BY <1>1, <1>6, Readings DEF All!End, All!Entry, Wrapper
<1>8. ByKind!End
  BY <1>1, <1>6, Readings DEF ByKind!End, ByKind!Entry, Wrapper
<1> QED
  BY <1>7, <1>8 DEF All!Next, ByKind!Next

LEMMA DirectoryInit == Init => Aims /\ All!Init /\ ByKind!Init
<1> SUFFICES ASSUME Init PROVE Aims /\ All!Init /\ ByKind!Init
  OBVIOUS
<1>1. /\ channels = {} /\ dataChannels = {} /\ tracks = {} /\ shut = {}
      /\ peerStatus = "live" /\ \A o \in Wrapper : status[o] = "unused"
      /\ \A t \in Thread : At(t) = "idle"
  BY IdleFacts DEF Init, At
<1>2. \A o \in Wrapper : /\ AllEntries[o] = "absent" /\ KindEntries[o] = "absent"
  BY <1>1, Readings DEF Coming, Listed
<1>3. Aims
  BY <1>1 DEF Aims, Removing, SetPlace
<1>4. All!Init
  BY <1>1, <1>2, Readings DEF All!Init, All!Entry, Wrapper
<1>5. ByKind!Init
  BY <1>1, <1>2, Readings DEF ByKind!Init, ByKind!Entry, Wrapper
<1> QED
  BY <1>3, <1>4, <1>5

LEMMA DirectoryStep ==
    ASSUME Typed, Base, Serial, Aims, ~Overlap, Steps
    PROVE  [All!Next]_(All!vars) /\ [ByKind!Next]_(ByKind!vars)
<1> DEFINE Shows == [All!Next]_(All!vars) /\ [ByKind!Next]_(ByKind!vars)
<1>0. Unseen => Shows
  BY UnseenStutters
<1> SUFFICES Shows
  OBVIOUS
<1> HIDE DEF Shows, Unseen
<1> USE DEF Base
<1>1. ASSUME NEW o \in Wrapper,
             Take(o) \/ Drop(o) \/ BeginDeinit(o) \/ FinishDeinit(o)
      PROVE  Shows
  BY <1>0, <1>1, UnseenAside
<1>2. CASE Aside
  BY <1>0, <1>2, UnseenAside
<1>3. CASE CreateDataChannel \/ CreateTrack \/ CheckExisting \/ AnnGuard
           \/ ReleasePeer \/ LeaveFreed
           \/ \E h \in Handle : AnnStart(h)
  BY <1>0, <1>3, UnseenStarts, ObtainWays
<1>4. ASSUME NEW t \in Thread,
             Construct(t) \/ Register(t) \/ ReadAll(t) \/ ReadKind(t)
      PROVE  Shows
  BY <1>0, <1>4, UnseenConstruct, UnseenMoves
<1>5. ASSUME NEW t \in Thread, WriteAll(t) \/ WriteKind(t) PROVE Shows
  BY <1>5, WriteAllShown, WriteKindShown DEF Shows
<1>6. ASSUME NEW o \in Wrapper, Close(o) PROVE Shows
  BY <1>6, CloseShown DEF Shows
<1>7. CASE FinishPeerDeinit
  BY <1>7, EndShown DEF Shows
<1> QED
  BY <1>1, <1>2, <1>3, <1>4, <1>5, <1>6, <1>7 DEF Steps

\* When no announcement comes during the application's calls, `channels', and
\* `dataChannels' with `tracks', implement Directory at every step of every
\* call: for any number of handles, a published set never holds two wrappers
\* of a handle, loses one only by its close() or with the peer, and never
\* lists again what it lost (AlloDataChannel.swift:115-117, 205-222, 342-345).
THEOREM SetsAreDirectoriesHold ==
    ASSUME ~Overlap PROVE Spec => SetsAreDirectories
<1>1. Typed /\ RegistryInv /\ Serial /\ Aims /\ [Next]_vars =>
          /\ Aims'
          /\ [All!Next]_(All!vars) /\ [ByKind!Next]_(ByKind!vars)
  BY NextSteps, AimsStep, DirectoryStep DEF RegistryInv, Base
<1> QED
  BY <1>1, DirectoryInit, SerialHolds, PTL
  DEF Spec, SetsAreDirectories, All!Spec, ByKind!Spec
====
