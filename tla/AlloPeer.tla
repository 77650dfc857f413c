---- MODULE AlloPeer ----
(***************************************************************************)
(* AlloWebRTCPeer and its Channel, DataChannel and Track wrappers: how     *)
(* wrapper objects are made around the library's handles, listed in the    *)
(* published sets, fed by callbacks through an unretained user pointer,    *)
(* closed, and freed by reference counting.                                *)
(*                                                                         *)
(* Two threads run the code: "app", which calls the API, and "lib", on     *)
(* which the library announces channels. A Swift mutation of a @Published  *)
(* set is a read of the set and a write of the changed copy: two steps.    *)
(* Callbacks of single channels may run at any time.                       *)
(***************************************************************************)
EXTENDS RtcLibrary

CONSTANTS
    Overlap,   \* announcements may run while the application is in a call
    Revisits,  \* the library may present a handle again: as the result of a
               \* second create, or as an announcement of a created channel
    NoHandle

ASSUME SwitchAssumption == Overlap \in BOOLEAN /\ Revisits \in BOOLEAN
ASSUME NoHandleAssumption == NoHandle \notin Handle

Thread == {"app", "lib"}

\* Where a thread is in createX, close, or an announcement callback.
RegisteringNoClosed == <<"open", "open", "error", "message">>    \* mutant
Registering == <<"open", "closed", "error", "message">>
Place == {"idle", "entered", "check", "construct", "readAll", "writeAll",
          "readKind", "writeKind", "leaving", "deleting", "trapped"} \cup Kind

VARIABLES
    peerStatus,    \* the AlloWebRTCPeer object: "live", "deinit", "freed"
    channels, dataChannels, tracks,   \* its published sets
    status,        \* wrapper -> "unused", "live", "deinit", "freed"
    published,     \* wrapper -> its isOpen, lastError, lastMessage
    appPeer,       \* the application holds a reference to the peer
    appRefs,       \* wrappers the application holds a reference to
    shut,          \* wrappers the application has called close() on
    call           \* thread -> the call it is executing

setVars == <<channels, dataChannels, tracks>>
objVars == <<peerStatus, status, published, appPeer, appRefs, shut>>
vars == <<libVars, setVars, objVars, call>>

Idle == [at |-> "idle", hdl |-> NoHandle, obj |-> NoWrapper,
         adding |-> TRUE, snap |-> {}]
CallState == [at : Place, hdl : Handle \cup {NoHandle},
              obj : Wrapper \cup {NoWrapper}, adding : BOOLEAN,
              snap : SUBSET Wrapper]

TypeOK ==
    /\ LibTypeOK
    /\ peerStatus \in {"live", "deinit", "freed"}
    /\ channels \in SUBSET Wrapper
    /\ dataChannels \in SUBSET Wrapper
    /\ tracks \in SUBSET Wrapper
    /\ status \in [Wrapper -> {"unused", "live", "deinit", "freed"}]
    /\ published \in [Wrapper -> View]
    /\ appPeer \in BOOLEAN
    /\ appRefs \in SUBSET Wrapper
    /\ shut \in SUBSET Wrapper
    /\ call \in [Thread -> CallState]

Init ==
    /\ LibInit
    /\ peerStatus = "live" /\ appPeer = TRUE
    /\ channels = {} /\ dataChannels = {} /\ tracks = {}
    /\ status = [o \in Wrapper |-> "unused"]
    /\ published = [o \in Wrapper |-> Blank]
    /\ appRefs = {} /\ shut = {}
    /\ call = [t \in Thread |-> Idle]

(***************************************************************************)
(* Helpers                                                                 *)
(***************************************************************************)
At(t) == call[t].at
Other(t) == IF t = "app" THEN "lib" ELSE "app"

\* A thread may start something: it is idle, and unless announcements may
\* overlap the application's calls the other thread is idle too.
MayStart(t) == At(t) = "idle" /\ (Overlap \/ At(Other(t)) = "idle")

Goto(t, place) == call' = [call EXCEPT ![t].at = place]
Return(t) == call' = [call EXCEPT ![t] = Idle]

\* A create returns to the application; an announcement callback is done but
\* for its own reference to the peer.
Unwind(t) ==
    IF t = "lib" THEN call' = [call EXCEPT ![t] = [Idle EXCEPT !.at = "leaving",
                                                        !.hdl = call[t].hdl]]
                 ELSE Return(t)

\* The wrappers of a set that equal o: Channel's == and hash are by id.
Same(S, h) == {p \in S : HandleOf(p) = h}
InsertId(S, o) == S \cup {HandleOf(o)}          \* mutant: a set of ids
InsertOnly(S, o) == {o}                         \* mutant: `=' for `insert'
Insert(S, o) == IF Same(S, HandleOf(o)) = {} THEN S \cup {o} ELSE S
RemoveNothing(S, o) == S                        \* mutant: remove forgotten
Remove(S, o) == S \ Same(S, HandleOf(o))

\* The set of its own kind a wrapper is listed in, beside `channels'.
KindSetTracks(h) == tracks                      \* mutant: the wrong set
KindSet(h) == IF h \in DataIds THEN dataChannels ELSE tracks

\* Something keeps a reference to the wrapper: the application, a published
\* set or a copy of one, or a call that is working on it.
RetainedByApp(o) ==                             \* mutant: sets do not retain
    o \in appRefs \/ \E t \in Thread : call[t].obj = o
Retained(o) ==
    \/ o \in appRefs \cup channels \cup dataChannels \cup tracks
    \/ \E t \in Thread : call[t].obj = o \/ o \in call[t].snap

\* A call keeps the peer alive: not yet at the entry of a callback, and in
\* close() only while `self.peer?' is being evaluated.
HoldsPeer(t) ==
    \/ At(t) \in {"check", "construct", "writeAll", "writeKind", "leaving"}
                 \cup Kind
    \/ At(t) \in {"readAll", "readKind"} /\ call[t].adding
PeerInCycle == appPeer \/ channels # {}         \* mutant: strong Channel.peer
PeerRetained == appPeer \/ \E t \in Thread : HoldsPeer(t)

(***************************************************************************)
(* createDataChannel and createTrack                                       *)
(***************************************************************************)

\* The library's answer to rtcCreateDataChannelEx and rtcAddTrackEx: a
\* fresh id, or one it has given out already. On a closed connection both
\* fail, and nothing has changed.
Obtain(ids, fact) ==
    /\ MayStart("app") /\ appPeer /\ conn # "closed"
    /\ \E h \in ids :
        /\ \/ Make(h, fact)
           \/ /\ Revisits /\ handle[h] = "made" /\ h \notin pending
              /\ UNCHANGED <<handle, known>>
        /\ call' = [call EXCEPT !["app"] = [Idle EXCEPT !.at = "check",
                                                        !.hdl = h]]
    /\ UNCHANGED <<conn, channelVars, pending, setVars, objVars>>

CreateUnnumbered ==                             \* mutant: streamId not passed
    Obtain(DataIds, conn = "connected")

CreateDataChannel ==
    \E manual \in BOOLEAN :
        /\ manual \/ "stream" \in Omissions
        /\ Obtain(DataIds, manual \/ conn = "connected")

CreateTrack == Obtain(TrackIds, TRUE)

\* `if let existing = self.dataChannels.first(where:)', and for tracks.
CheckExisting ==
    /\ At("app") = "check"
    /\ LET h == call["app"].hdl
           existing == Same(KindSet(h), h)
       IN  \/ /\ existing # {}
              /\ appRefs' = appRefs \cup existing
              /\ Return("app")
           \/ /\ existing = {}
              /\ Goto("app", "construct")
              /\ UNCHANGED appRefs
    /\ UNCHANGED <<libVars, setVars, peerStatus, status, published, appPeer,
                   shut>>

(***************************************************************************)
(* The announcement callbacks                                              *)
(***************************************************************************)

\* The library starts the data channel or track callback for h: a channel
\* of the other side, or one the application made itself.
AnnStart(h) ==
    /\ MayStart("lib") /\ peerStatus # "freed"
    /\ h \in pending \/ (Revisits /\ conn # "closed" /\ handle[h] = "made")
    /\ pending' = pending \ {h}
    /\ call' = [call EXCEPT !["lib"] = [Idle EXCEPT !.at = "entered",
                                                    !.hdl = h]]
    /\ UNCHANGED <<conn, handle, known, channelVars, setVars, objVars>>

AnnUnguarded ==                                 \* mutant: guard dropped
    /\ At("lib") = "entered"
    /\ Goto("lib", "construct")
    /\ UNCHANGED <<libVars, setVars, objVars>>

AnnNegated ==                                   \* mutant: guard negated
    /\ At("lib") = "entered"
    /\ Goto("lib", IF Same(channels, call["lib"].hdl) = {}
                   THEN "leaving" ELSE "construct")
    /\ UNCHANGED <<libVars, setVars, objVars>>

\* `if !this.channels.contains(where: { $0.id == dcid })'
AnnGuard ==
    /\ At("lib") = "entered"
    /\ Goto("lib", IF Same(channels, call["lib"].hdl) = {}
                   THEN "construct" ELSE "leaving")
    /\ UNCHANGED <<libVars, setVars, objVars>>

(***************************************************************************)
(* Channel.init, run by either thread                                      *)
(***************************************************************************)

\* The constructor's questions to the library, each under `try!'.
Answerable(t) ==
    LET h == call[t].hdl
    IN  /\ handle[h] # "deleted"
        /\ h \in DataIds \/ t = "lib" => known[h]

\* DataChannel.init or Track.init up to rtcSetUserPointer.
Construct(t) ==
    /\ At(t) = "construct"
    /\ LET h == call[t].hdl IN
       \/ /\ ~Answerable(t)
          /\ Goto(t, "trapped")
          /\ UNCHANGED <<userPtr, status, published>>
       \/ /\ Answerable(t)
          /\ \E o \in Wrapper :
              /\ HandleOf(o) = h /\ status[o] = "unused"
              /\ \A p \in Wrapper : HandleOf(p) = h /\ status[p] = "unused"
                                        => o[2] <= p[2]
              /\ status' = [status EXCEPT ![o] = "live"]
              /\ published' = [published EXCEPT ![o] = Blank]
              /\ userPtr' = [userPtr EXCEPT ![h] = o]
              /\ call' = [call EXCEPT ![t].at = Registering[1], ![t].obj = o]
    /\ UNCHANGED <<conn, handle, known, truth, events, registered, running,
                   pending, setVars, peerStatus, appPeer, appRefs, shut>>

\* One of rtcSetOpenCallback, ..., rtcSetMessageCallback, in this order.
Register(t) ==
    \E i \in 1 .. 4 :
        /\ At(t) = Registering[i]
        /\ IF handle[call[t].hdl] = "deleted"
           THEN Goto(t, "trapped") /\ UNCHANGED registered
           ELSE /\ registered' =
                       [registered EXCEPT ![call[t].hdl] = @ \cup {At(t)}]
                /\ Goto(t, IF i = 4 THEN "readAll" ELSE Registering[i + 1])
        /\ UNCHANGED <<conn, handle, known, truth, events, userPtr, running,
                       pending, setVars, objVars>>

(***************************************************************************)
(* channels.insert/remove, then dataChannels or tracks.insert/remove       *)
(***************************************************************************)
Changed(t) == IF call[t].adding THEN Insert(call[t].snap, call[t].obj)
                                ELSE Remove(call[t].snap, call[t].obj)

\* `self.peer?' is nil once the peer has begun to deinitialise.
PeerGone(t) == ~call[t].adding /\ peerStatus # "live"

Read(t, place, S, next) ==
    /\ At(t) = place
    /\ IF PeerGone(t) THEN Return(t)
       ELSE call' = [call EXCEPT ![t].at = next, ![t].snap = S]
    /\ UNCHANGED <<libVars, setVars, objVars>>

ReadAll(t) == Read(t, "readAll", channels, "writeAll")

ReadKind(t) == Read(t, "readKind", KindSet(call[t].hdl), "writeKind")

WriteAll(t) ==
    /\ At(t) = "writeAll"
    /\ channels' = Changed(t)
    /\ call' = [call EXCEPT ![t].at = "readKind", ![t].snap = {}]
    /\ UNCHANGED <<libVars, dataChannels, tracks, objVars>>

\* A create returns the wrapper to the application, too.
WriteKind(t) ==
    /\ At(t) = "writeKind"
    /\ IF call[t].hdl \in DataIds
       THEN dataChannels' = Changed(t) /\ UNCHANGED tracks
       ELSE tracks' = Changed(t) /\ UNCHANGED dataChannels
    /\ appRefs' = IF t = "app" /\ call[t].adding
                  THEN appRefs \cup {call[t].obj} ELSE appRefs
    /\ Unwind(t)
    /\ UNCHANGED <<libVars, channels, peerStatus, status, published, appPeer,
                   shut>>

(***************************************************************************)
(* The application: close(), and its references                            *)
(***************************************************************************)

\* DataChannel.close or Track.close, up to `self.peer?.channels.remove'.
Close(o) ==
    /\ MayStart("app") /\ o \in appRefs
    /\ CloseHandles({HandleOf(o)})
    /\ shut' = shut \cup {o}
    /\ call' = [call EXCEPT !["app"] =
                   [Idle EXCEPT !.at = "readAll", !.hdl = HandleOf(o),
                                !.obj = o, !.adding = FALSE]]
    /\ UNCHANGED <<conn, known, userPtr, registered, running, pending, setVars,
                   peerStatus, status, published, appPeer, appRefs>>

\* The application takes a wrapper from a published set, or forgets one.
Take(o) ==
    /\ MayStart("app") /\ appPeer /\ o \in channels \ appRefs
    /\ appRefs' = appRefs \cup {o}
    /\ UNCHANGED <<libVars, setVars, peerStatus, status, published, appPeer,
                   shut, call>>

Drop(o) ==
    /\ MayStart("app") /\ o \in appRefs
    /\ appRefs' = appRefs \ {o}
    /\ UNCHANGED <<libVars, setVars, peerStatus, status, published, appPeer,
                   shut, call>>

\* AlloWebRTCPeer.close: rtcClosePeerConnection closes every channel.
ClosePeer ==
    /\ MayStart("app") /\ appPeer /\ conn # "closed"
    /\ conn' = "closed"
    /\ CloseHandles(Handle)
    /\ UNCHANGED <<known, userPtr, registered, running, pending, setVars,
                   objVars, call>>

DropPeer ==
    /\ MayStart("app") /\ appPeer
    /\ appPeer' = FALSE
    /\ UNCHANGED <<libVars, setVars, peerStatus, status, published, appRefs,
                   shut, call>>

(***************************************************************************)
(* Callbacks of a channel                                                  *)
(***************************************************************************)

EffectStaysOpen(view, kind, value) ==           \* mutant: closed is ignored
    CASE kind = "open" -> [view EXCEPT !.isOpen = TRUE]
      [] kind = "closed" -> view
      [] kind = "error" -> [view EXCEPT !.lastError = value]
      [] kind = "message" -> [view EXCEPT !.lastMessage = value]

\* The body of the closure registered for the event's kind.
Effect(view, kind, value) ==
    CASE kind = "open" -> [view EXCEPT !.isOpen = TRUE]
      [] kind = "closed" -> [view EXCEPT !.isOpen = FALSE]
      [] kind = "error" -> [view EXCEPT !.lastError = value]
      [] kind = "message" -> [view EXCEPT !.lastMessage = value]

CbRun(h) ==
    /\ running[h] # NoCall
    /\ LET cb == running[h] IN
       published' = [published EXCEPT ![cb.obj] = Effect(@, cb.kind, cb.value)]
    /\ running' = [running EXCEPT ![h] = NoCall]
    /\ UNCHANGED <<conn, handle, known, truth, events, userPtr, registered,
                   pending, setVars, peerStatus, status, appPeer, appRefs,
                   shut, call>>

(***************************************************************************)
(* Reference counting                                                      *)
(***************************************************************************)

DeinitNoDelete(o) ==                            \* mutant: no rtcDelete
    /\ status[o] = "live" /\ ~Retained(o)
    /\ status' = [status EXCEPT ![o] = "freed"]
    /\ UNCHANGED <<libVars, setVars, peerStatus, published, appPeer, appRefs,
                   shut, call>>

\* The last reference to a wrapper goes: Channel.deinit calls rtcDelete,
\* which waits for the handle's callback in flight.
BeginDeinit(o) ==
    /\ status[o] = "live" /\ ~Retained(o)
    /\ status' = [status EXCEPT ![o] = "deinit"]
    /\ UNCHANGED <<libVars, setVars, peerStatus, published, appPeer, appRefs,
                   shut, call>>

FinishDeinit(o) ==
    /\ status[o] = "deinit" /\ running[HandleOf(o)] = NoCall
    /\ DeleteHandle(HandleOf(o))
    /\ status' = [status EXCEPT ![o] = "freed"]
    /\ published' = [published EXCEPT ![o] = Blank]
    /\ UNCHANGED <<conn, known, running, pending, setVars, peerStatus,
                   appPeer, appRefs, shut, call>>

\* The last reference to the peer goes: its deinit closes the connection.
StartPeerDeinit ==
    /\ peerStatus' = "deinit"
    /\ conn' = "closed"
    /\ CloseHandles(Handle)
    /\ UNCHANGED <<known, userPtr, registered, running, pending, setVars,
                   status, published, appPeer, appRefs, shut>>

BeginPeerDeinit ==
    /\ peerStatus = "live" /\ ~PeerRetained
    /\ StartPeerDeinit
    /\ UNCHANGED call

\* An announcement callback gives up `this'. When the application has let go
\* of the peer meanwhile, that was the last reference, and the deinit runs
\* inside the callback, on the thread of the library.
ReleasePeer ==
    /\ At("lib") = "leaving"
    /\ IF peerStatus = "live" /\ ~appPeer /\ ~HoldsPeer("app")
       THEN StartPeerDeinit /\ Goto("lib", "deleting")
       ELSE Return("lib") /\ UNCHANGED <<libVars, setVars, objVars>>

\* rtcDeletePeerConnection waits for the announcement in flight, its own
\* caller excepted; then the published sets go.
FinishPeerDeinit ==
    /\ peerStatus = "deinit"
    /\ At("lib") = "idle" \/ (At("lib") = "deleting" /\ ~WaitsForOwn)
    /\ peerStatus' = "freed"
    /\ channels' = {} /\ dataChannels' = {} /\ tracks' = {}
    /\ pending' = {}
    /\ UNCHANGED <<conn, handle, known, channelVars, status, published,
                   appPeer, appRefs, shut, call>>

\* The callback that the peer ended in returns to the library.
LeaveFreed ==
    /\ At("lib") = "deleting" /\ peerStatus = "freed"
    /\ Return("lib")
    /\ UNCHANGED <<libVars, setVars, objVars>>

(***************************************************************************)
(* The specification                                                       *)
(***************************************************************************)
Library == LibStep /\ UNCHANGED <<setVars, objVars, call>>

ThreadStep(t) ==
    \/ Construct(t) \/ Register(t)
    \/ ReadAll(t) \/ WriteAll(t) \/ ReadKind(t) \/ WriteKind(t)

Next ==
    \/ Library
    \/ CreateDataChannel \/ CreateTrack \/ CheckExisting
    \/ \E h \in Handle : AnnStart(h) \/ CbRun(h)
    \/ AnnGuard
    \/ \E t \in Thread : ThreadStep(t)
    \/ \E o \in Wrapper : \/ Close(o) \/ Take(o) \/ Drop(o)
                          \/ BeginDeinit(o) \/ FinishDeinit(o)
    \/ ClosePeer \/ DropPeer \/ BeginPeerDeinit \/ ReleasePeer
    \/ FinishPeerDeinit \/ LeaveFreed

Spec == Init /\ [][Next]_vars

\* What the code and the library do by themselves once they can: a call
\* under way goes on, a callback that has something to deliver runs, an
\* object without references is freed (at once: strongly fair). Nothing
\* obliges the application to call anything, or the network to send anything.
AppStep == CheckExisting \/ ThreadStep("app")
LibThreadStep == AnnGuard \/ ThreadStep("lib") \/ ReleasePeer \/ LeaveFreed
Callback(h) ==
    CbRun(h) \/ (CbStart(h) /\ UNCHANGED <<setVars, objVars, call>>)

Fairness ==
    /\ WF_vars(AppStep) /\ WF_vars(LibThreadStep)
    /\ \A h \in Handle : WF_vars(AnnStart(h)) /\ WF_vars(Callback(h))
    /\ \A o \in Wrapper : WF_vars(BeginDeinit(o) \/ FinishDeinit(o))
    /\ SF_vars(BeginPeerDeinit) /\ WF_vars(FinishPeerDeinit)

FairSpec == Spec /\ Fairness

(***************************************************************************)
(* What the design promises                                                *)
(***************************************************************************)
Alive(o) == status[o] \in {"live", "deinit"}
Quiet == \A t \in Thread : At(t) = "idle"

\* The pointer the library keeps, and the one a callback in flight was given,
\* is the wrapper of that very handle and its memory is not freed: setupCallbacks
\* passes it unretained, and only the rtcDelete of deinit takes it back.
PointerSafe ==
    \A h \in Handle :
        /\ registered[h] # {} => /\ userPtr[h] \in Wrapper
                                 /\ HandleOf(userPtr[h]) = h
                                 /\ Alive(userPtr[h])
        /\ running[h] # NoCall => /\ running[h].obj \in Wrapper
                                  /\ HandleOf(running[h].obj) = h
                                  /\ Alive(running[h].obj)

\* A handle has one wrapper: else the deinit of either deletes the handle
\* of both, and the one that lost the user pointer never hears of anything.
\* The guards of createX and of the announcement callbacks are there for it.
OneWrapper ==
    \A o, p \in Wrapper :
        Alive(o) /\ Alive(p) /\ HandleOf(o) = HandleOf(p) => o = p

\* A listed wrapper shows what its channel is once nothing is on its way,
\* whatever happened before its callbacks were registered.
Mirror ==
    \A o \in channels : LET h == HandleOf(o) IN
        events[h] = <<>> /\ running[h] = NoCall => published[o] = truth[h]

\* `channels ... // both datachannels and tracks': between calls the three
\* published sets agree, each wrapper in the set of its kind.
RegistryAgrees ==
    Quiet /\ peerStatus = "live" =>
             /\ channels = dataChannels \cup tracks
             /\ \A o \in dataChannels : HandleOf(o) \in DataIds
             /\ \A o \in tracks : HandleOf(o) \in TrackIds

\* Between calls a wrapper is listed from its making until close() was called
\* on it: it is not freed under the library, the guards that look for it find
\* it, and they do not find the closed one.
ListedUntilClosed ==
    Quiet /\ peerStatus = "live" =>
        /\ \A o \in Wrapper :
               Alive(o) /\ handle[HandleOf(o)] = "made" =>
                   o \in channels /\ o \in KindSet(HandleOf(o))
        /\ shut \cap (channels \cup dataChannels \cup tracks) = {}

\* What a published set says of each wrapper, while it is being made, at most
\* up to the places `before', and afterwards.
Entries(set, before) ==
    [o \in Wrapper |->
        IF o \in set THEN "listed"
        ELSE IF \/ status[o] = "unused"
                \/ \E t \in Thread : /\ call[t].obj = o /\ call[t].adding
                                     /\ At(t) \in before
             THEN "absent" ELSE "gone"]
AllEntries == Entries(channels, Kind \cup {"readAll", "writeAll"})
KindEntries ==
    Entries(dataChannels \cup tracks,
            Kind \cup {"readAll", "writeAll", "readKind", "writeKind"})
All == INSTANCE Directory WITH
    Names <- Handle, entry <- AllEntries, open <- peerStatus # "freed"
ByKind == INSTANCE Directory WITH
    Names <- Handle, entry <- KindEntries, open <- peerStatus # "freed"

\* `channels', and `dataChannels' and `tracks' together, are directories at
\* every step, in the middle of calls too: whoever looks at them sees no two
\* wrappers of a handle, loses none but by its close() or the end of the
\* peer, and sees none again that is gone.
SetsAreDirectories == All!Spec /\ ByKind!Spec

\* No `try!' of the constructors and of setupCallbacks fails.
SetupNeverTraps == \A t \in Thread : At(t) # "trapped"

\* Channel.deinit wonders whether it may run before the channel is really
\* closed: rtcDelete is never called on a channel that is still open.
DeletedOnlyClosed ==
    [][\A h \in Handle : handle[h] = "made" => handle'[h] # "deleted"]_vars

\* Every channel there is, made here or by the other side, gets into the set
\* of its kind, the last of the two it is listed in, whatever the other thread
\* is doing meanwhile, unless the peer goes. (Whether it stays listed is
\* another matter: an overlapping call may write its older copy over it.)
HasBeenListed(h) ==
    \E o \in Wrapper : HandleOf(o) = h /\ KindEntries[o] # "absent"
AnnouncedIsListed ==
    []<>(\A h \in Handle :
            handle[h] # "none" => HasBeenListed(h) \/ peerStatus # "live")

\* A wrapper that was closed and that the application forgot is freed, and
\* its handle deleted: close() leaves no reference behind.
ShutIsFreed ==
    \A o \in Wrapper :
        o \in shut \ appRefs ~> status[o] = "freed" \/ o \in appRefs

\* A peer the application forgot is freed: its deinit, which waits for the
\* callback in flight, never waits for something that waits for it, also when
\* that callback had the last reference and the deinit runs inside it.
PeerIsFreed == []<>(appPeer \/ peerStatus = "freed")

\* What happened to a channel gets to its wrapper: again and again every
\* listed wrapper shows what its channel is (of which there is no end of
\* change only at the network's will).
TruthArrives ==
    []<>(\A o \in channels : published[o] = truth[HandleOf(o)])
====
