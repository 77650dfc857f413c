---- MODULE AlloPeerProofs ----
(***************************************************************************)
(* For any number of channels and wrappers, with or without overlapping    *)
(* announcements: the pointers the library holds lead to live wrappers.    *)
(***************************************************************************)
EXTENDS AlloPeer, TLAPS

(***************************************************************************)
(* A thread that is in a call works on a handle, and from the registration *)
(* of the callbacks on, on a wrapper of that handle.                       *)
(***************************************************************************)
HasObject == Kind \cup {"readAll", "writeAll", "readKind", "writeKind"}
Located ==
    \A t \in Thread :
        /\ At(t) # "idle" => call[t].hdl \in Handle
        /\ At(t) \in HasObject => /\ call[t].obj \in Wrapper
                                  /\ HandleOf(call[t].obj) = call[t].hdl
Typed == TypeOK /\ Located

LEMMA IdleTyped == Idle \in CallState /\ Idle.at = "idle"
BY DEF Idle, CallState, Place

LEMMA InitTyped == Init => Typed
BY IdleTyped DEF Init, LibInit, Typed, TypeOK, LibTypeOK, Located, At,
                 HasObject, Kind, View, Blank, Call, NoCall, Thread

LEMMA EventsTyped ==
    ASSUME NEW s \in Seq(Event), NEW e \in Event
    PROVE  /\ Append(s, e) \in Seq(Event)
           /\ s # <<>> => Tail(s) \in Seq(Event) /\ Head(s) \in Event
OBVIOUS

LEMMA CloseTyped ==
    ASSUME LibTypeOK, NEW hs \in SUBSET Handle, CloseHandles(hs)
    PROVE  /\ handle' \in [Handle -> {"none", "made", "closed", "deleted"}]
           /\ truth' \in [Handle -> View]
           /\ events' \in [Handle -> Seq(Event)]
<1>1. Ev("closed", 0) \in Event
  BY DEF Ev, Event, Kind
<1> QED
  BY <1>1, EventsTyped DEF CloseHandles, LibTypeOK, View

LEMMA LibraryTyped == LibTypeOK /\ LibStep => LibTypeOK'
<1> SUFFICES ASSUME LibTypeOK, LibStep PROVE LibTypeOK'
  OBVIOUS
<1> USE DEF channelVars
<1>1. CASE LibConnect
  BY <1>1 DEF LibConnect, LibTypeOK
<1>2. ASSUME NEW h \in Handle, LibAnnounceRemote(h) PROVE LibTypeOK'
  BY <1>2 DEF LibAnnounceRemote, Make, LibTypeOK
<1>3. ASSUME NEW h \in Handle, LibOpen(h) PROVE LibTypeOK'
  <2>1. Ev("open", 0) \in Event
    BY DEF Ev, Event, Kind
  <2>2. Append(events[h], Ev("open", 0)) \in Seq(Event)
    BY <2>1, EventsTyped DEF LibTypeOK
  <2> QED
    BY <1>3, <2>2 DEF LibOpen, LibTypeOK, View
<1>4. ASSUME NEW h \in Handle, LibMessage(h) PROVE LibTypeOK'
  <2>1. truth[h].lastMessage + 1 \in Nat
    BY DEF LibTypeOK, View
  <2>2. Append(events[h], Ev("message", truth[h].lastMessage + 1)) \in Seq(Event)
    BY <2>1, EventsTyped DEF LibTypeOK, Ev, Event, Kind
  <2> QED
    BY <1>4, <2>1, <2>2 DEF LibMessage, LibTypeOK, View
<1>5. ASSUME NEW h \in Handle, LibError(h) PROVE LibTypeOK'
  <2>1. truth[h].lastError + 1 \in Nat
    BY DEF LibTypeOK, View
  <2>2. Append(events[h], Ev("error", truth[h].lastError + 1)) \in Seq(Event)
    BY <2>1, EventsTyped DEF LibTypeOK, Ev, Event, Kind
  <2> QED
    BY <1>5, <2>1, <2>2 DEF LibError, LibTypeOK, View
<1>6. ASSUME NEW h \in Handle, LibCloseRemote(h) PROVE LibTypeOK'
  <2>1. CloseHandles({h}) /\ {h} \in SUBSET Handle
    BY <1>6 DEF LibCloseRemote
  <2> QED
    BY <1>6, <2>1, CloseTyped DEF LibCloseRemote, LibTypeOK
<1>7. ASSUME NEW h \in Handle, CbStart(h) PROVE LibTypeOK'
  <2>1. Head(events[h]) \in Event /\ Tail(events[h]) \in Seq(Event)
    BY <1>7, EventsTyped DEF CbStart, LibTypeOK
  <2> QED
    BY <1>7, <2>1 DEF CbStart, LibTypeOK, Event, Call
<1> QED
  BY <1>1, <1>2, <1>3, <1>4, <1>5, <1>6, <1>7 DEF LibStep

\* The two ways an action moves one thread and leaves the other where it is.
LEMMA ReturnTyped ==
    ASSUME Typed, NEW t \in Thread, Return(t)
    PROVE  call' \in [Thread -> CallState] /\ Located'
BY IdleTyped DEF Typed, TypeOK, Return, Located, At, HasObject, Kind

LEMMA MoveTyped ==
    ASSUME Typed, NEW t \in Thread, NEW c \in CallState,
           call' = [call EXCEPT ![t] = c],
           c.at # "idle" => c.hdl \in Handle,
           c.at \in HasObject => c.obj \in Wrapper /\ HandleOf(c.obj) = c.hdl
    PROVE  call' \in [Thread -> CallState] /\ Located'
BY DEF Typed, TypeOK, Located, At

LEMMA GotoTyped ==
    ASSUME Typed, NEW t \in Thread, At(t) # "idle", NEW place \in Place,
           Goto(t, place), place \in HasObject => At(t) \in HasObject
    PROVE  call' \in [Thread -> CallState] /\ Located'
<1> DEFINE c == [call[t] EXCEPT !.at = place]
<1>1. c \in CallState /\ call' = [call EXCEPT ![t] = c]
  BY DEF Goto, Typed, TypeOK, CallState
<1>2. c.at = place /\ c.hdl = call[t].hdl /\ c.obj = call[t].obj
  BY DEF Typed, TypeOK, CallState
<1>3. c.hdl \in Handle
  BY <1>2 DEF Typed, Located
<1>4. c.at \in HasObject => c.obj \in Wrapper /\ HandleOf(c.obj) = c.hdl
  BY <1>2 DEF Typed, Located
<1> HIDE DEF c
<1> QED
  BY <1>1, <1>3, <1>4, MoveTyped

\* Actions that leave every thread where it is.
LEMMA StillLocated == Located /\ call' = call => Located'
BY DEF Located, At

\* The start of a call, and the end of an announcement callback.
LEMMA StartTyped ==
    ASSUME Typed, NEW t \in Thread, NEW h \in Handle,
           NEW place \in {"check", "entered", "leaving"},
           call' = [call EXCEPT ![t] = [Idle EXCEPT !.at = place, !.hdl = h]]
    PROVE  call' \in [Thread -> CallState] /\ Located'
<1> DEFINE c == [Idle EXCEPT !.at = place, !.hdl = h]
<1>1. c \in CallState /\ c.at = place /\ c.hdl = h
  BY DEF Idle, CallState, Place
<1>2. place \notin HasObject
  BY DEF HasObject, Kind
<1> HIDE DEF c
<1> QED
  BY <1>1, <1>2, MoveTyped DEF c

LEMMA UnwindTyped ==
    ASSUME Typed, NEW t \in Thread, At(t) # "idle", Unwind(t)
    PROVE  call' \in [Thread -> CallState] /\ Located'
<1>1. CASE t = "lib"
  <2>1. call[t].hdl \in Handle
    BY DEF Typed, Located
  <2> QED
    BY <1>1, <2>1, StartTyped DEF Unwind
<1>2. CASE t # "lib"
  BY <1>2, ReturnTyped DEF Unwind
<1> QED
  BY <1>1, <1>2

LEMMA ObtainTyped ==
    ASSUME Typed, NEW ids \in SUBSET Handle, NEW fact \in BOOLEAN,
           Obtain(ids, fact)
    PROVE  Typed'
<1>1. PICK h \in ids :
        /\ Make(h, fact) \/ UNCHANGED <<handle, known>>
        /\ call' = [call EXCEPT !["app"] = [Idle EXCEPT !.at = "check",
                                                        !.hdl = h]]
  BY DEF Obtain
<1>2. call' \in [Thread -> CallState] /\ Located'
  BY <1>1, StartTyped DEF Thread
<1>3. /\ handle' \in [Handle -> {"none", "made", "closed", "deleted"}]
      /\ known' \in [Handle -> BOOLEAN]
  <2>1. CASE Make(h, fact)
    BY <2>1 DEF Make, Typed, TypeOK, LibTypeOK
  <2>2. CASE UNCHANGED <<handle, known>>
    BY <2>2 DEF Typed, TypeOK, LibTypeOK
  <2> QED
    BY <1>1, <2>1, <2>2
<1>4. UNCHANGED <<conn, channelVars, pending, setVars, objVars>>
  BY DEF Obtain
<1> QED
  BY <1>2, <1>3, <1>4 DEF Typed, TypeOK, LibTypeOK, channelVars, setVars,
                          objVars

LEMMA CheckTyped == Typed /\ CheckExisting => Typed'
<1> SUFFICES ASSUME Typed, CheckExisting PROVE Typed'
  OBVIOUS
<1>1. call' \in [Thread -> CallState] /\ Located'
  BY ReturnTyped, GotoTyped DEF CheckExisting, Thread, HasObject, Kind, Place
<1>2. appRefs' \in SUBSET Wrapper
  BY DEF CheckExisting, KindSet, Same, Typed, TypeOK
<1> QED
  BY <1>1, <1>2 DEF CheckExisting, Typed, TypeOK, LibTypeOK, libVars, setVars

LEMMA AnnStartTyped ==
    ASSUME Typed, NEW h \in Handle, AnnStart(h) PROVE Typed'
<1>1. call' \in [Thread -> CallState] /\ Located'
  BY StartTyped DEF AnnStart, Thread
<1> QED
  BY <1>1 DEF AnnStart, Typed, TypeOK, LibTypeOK, channelVars, setVars, objVars

LEMMA AnnGuardTyped == Typed /\ AnnGuard => Typed'
<1> SUFFICES ASSUME Typed, AnnGuard PROVE Typed'
  OBVIOUS
<1>1. call' \in [Thread -> CallState] /\ Located'
  BY GotoTyped DEF AnnGuard, Thread, HasObject, Kind, Place
<1> QED
  BY <1>1 DEF AnnGuard, Typed, TypeOK, LibTypeOK, libVars, setVars, objVars

LEMMA ConstructTyped ==
    ASSUME Typed, NEW t \in Thread, Construct(t) PROVE Typed'
<1> DEFINE h == call[t].hdl
<1>0. At(t) = "construct" /\ h \in Handle
  BY DEF Construct, Typed, Located
<1>1. CASE ~Answerable(t)
  <2>1. call' \in [Thread -> CallState] /\ Located'
    BY <1>0, <1>1, GotoTyped DEF Construct, HasObject, Kind, Place
  <2> QED
    BY <1>1, <2>1 DEF Construct, Typed, TypeOK, LibTypeOK, setVars
<1>2. CASE Answerable(t)
  <2>1. PICK o \in Wrapper :
          /\ HandleOf(o) = h
          /\ status' = [status EXCEPT ![o] = "live"]
          /\ published' = [published EXCEPT ![o] = Blank]
          /\ userPtr' = [userPtr EXCEPT ![h] = o]
          /\ call' = [call EXCEPT ![t].at = Registering[1], ![t].obj = o]
    BY <1>2 DEF Construct
  <2> DEFINE c == [call[t] EXCEPT !.at = Registering[1], !.obj = o]
  <2>2. Registering[1] = "open"
    BY DEF Registering
  <2>3. c \in CallState /\ c.hdl = h /\ c.obj = o
    BY <2>2 DEF Typed, TypeOK, CallState, Place, Kind
  <2>4. call' = [call EXCEPT ![t] = c]
    BY <2>1 DEF Typed, TypeOK
  <2> HIDE DEF c
  <2>5. call' \in [Thread -> CallState] /\ Located'
    BY <1>0, <2>1, <2>3, <2>4, MoveTyped
  <2>6. Blank \in View
    BY DEF Blank, View
  <2> QED
    BY <1>0, <2>1, <2>5, <2>6
    DEF Construct, Typed, TypeOK, LibTypeOK, setVars
<1> QED
  BY <1>1, <1>2

LEMMA RegisterTyped ==
    ASSUME Typed, NEW t \in Thread, Register(t) PROVE Typed'
<1>1. PICK i \in 1 .. 4 :
        /\ At(t) = Registering[i]
        /\ \/ Goto(t, "trapped") /\ UNCHANGED registered
           \/ /\ registered' =
                   [registered EXCEPT ![call[t].hdl] = @ \cup {At(t)}]
              /\ Goto(t, IF i = 4 THEN "readAll" ELSE Registering[i + 1])
        /\ UNCHANGED <<conn, handle, known, truth, events, userPtr, running,
                       pending, setVars, objVars>>
  BY DEF Register
<1>2. \A j \in 1 .. 4 : Registering[j] \in Kind
  BY DEF Registering, Kind
<1>3. At(t) \in Kind /\ At(t) # "idle" /\ At(t) \in HasObject
  BY <1>1, <1>2 DEF Kind, HasObject
<1>4. (IF i = 4 THEN "readAll" ELSE Registering[i + 1]) \in Place
  BY <1>2 DEF Place
<1>5. call' \in [Thread -> CallState] /\ Located'
  BY <1>1, <1>3, <1>4, GotoTyped DEF Place
<1>6. registered' \in [Handle -> SUBSET Kind]
  <2>1. registered \in [Handle -> SUBSET Kind] /\ {At(t)} \in SUBSET Kind
    BY <1>3 DEF Typed, TypeOK, LibTypeOK
  <2>2. CASE UNCHANGED registered
    BY <2>1, <2>2
  <2>3. CASE registered' = [registered EXCEPT ![call[t].hdl] = @ \cup {At(t)}]
    BY <2>1, <2>3
  <2> QED
    BY <1>1, <2>2, <2>3
<1> QED
  BY <1>1, <1>5, <1>6 DEF Typed, TypeOK, LibTypeOK, setVars, objVars

LEMMA ReadTyped ==
    ASSUME Typed, NEW t \in Thread, ReadAll(t) \/ ReadKind(t) PROVE Typed'
<1>1. PICK next \in {"writeAll", "writeKind"}, S \in SUBSET Wrapper :
        /\ At(t) \in {"readAll", "readKind"}
        /\ \/ Return(t)
           \/ call' = [call EXCEPT ![t].at = next, ![t].snap = S]
        /\ UNCHANGED <<libVars, setVars, objVars>>
  BY DEF ReadAll, ReadKind, Read, KindSet, Typed, TypeOK
<1>2. call' \in [Thread -> CallState] /\ Located'
  <2>1. CASE Return(t)
    BY <2>1, ReturnTyped
  <2>2. CASE call' = [call EXCEPT ![t].at = next, ![t].snap = S]
    <3> DEFINE c == [call[t] EXCEPT !.at = next, !.snap = S]
    <3>1. c \in CallState /\ c.hdl = call[t].hdl /\ c.obj = call[t].obj
      BY DEF Typed, TypeOK, CallState, Place
    <3>2. call' = [call EXCEPT ![t] = c]
      BY <2>2 DEF Typed, TypeOK
    <3>3. c.hdl \in Handle /\ c.obj \in Wrapper /\ HandleOf(c.obj) = c.hdl
      BY <1>1, <3>1 DEF Typed, Located, HasObject
    <3> HIDE DEF c
    <3> QED
      BY <3>1, <3>2, <3>3, MoveTyped
  <2> QED
    BY <1>1, <2>1, <2>2
<1> QED
  BY <1>1, <1>2 DEF Typed, TypeOK, LibTypeOK, libVars, setVars, objVars

LEMMA ChangedTyped ==
    ASSUME Typed, NEW t \in Thread, At(t) \in HasObject
    PROVE  Changed(t) \in SUBSET Wrapper
BY DEF Typed, TypeOK, CallState, Located, Changed, Insert, Remove, Same

LEMMA WriteAllTyped ==
    ASSUME Typed, NEW t \in Thread, WriteAll(t) PROVE Typed'
<1> DEFINE c == [call[t] EXCEPT !.at = "readKind", !.snap = {}]
<1>1. c \in CallState /\ c.hdl = call[t].hdl /\ c.obj = call[t].obj
  BY DEF Typed, TypeOK, CallState, Place
<1>2. call' = [call EXCEPT ![t] = c]
  BY DEF WriteAll, Typed, TypeOK
<1>3. c.hdl \in Handle /\ c.obj \in Wrapper /\ HandleOf(c.obj) = c.hdl
  BY <1>1 DEF WriteAll, Typed, Located, HasObject
<1>4. channels' \in SUBSET Wrapper
  BY ChangedTyped DEF WriteAll, HasObject
<1> HIDE DEF c
<1>5. call' \in [Thread -> CallState] /\ Located'
  BY <1>1, <1>2, <1>3, MoveTyped
<1> QED
  BY <1>4, <1>5 DEF WriteAll, Typed, TypeOK, LibTypeOK, libVars, objVars

LEMMA WriteKindTyped ==
    ASSUME Typed, NEW t \in Thread, WriteKind(t) PROVE Typed'
<1>1. call' \in [Thread -> CallState] /\ Located'
  BY UnwindTyped DEF WriteKind
<1>2. dataChannels' \in SUBSET Wrapper /\ tracks' \in SUBSET Wrapper
  BY ChangedTyped DEF WriteKind, HasObject, Typed, TypeOK
<1>3. appRefs' \in SUBSET Wrapper
  BY DEF WriteKind, Typed, TypeOK, Located, HasObject
<1> QED
  BY <1>1, <1>2, <1>3 DEF WriteKind, Typed, TypeOK, LibTypeOK, libVars

LEMMA CloseCallTyped ==
    ASSUME Typed, NEW o \in Wrapper, Close(o) PROVE Typed'
<1> DEFINE c == [Idle EXCEPT !.at = "readAll", !.hdl = HandleOf(o),
                             !.obj = o, !.adding = FALSE]
<1>1. HandleOf(o) \in Handle
  BY DEF Wrapper, HandleOf
<1>2. c \in CallState /\ c.hdl = HandleOf(o) /\ c.obj = o
  BY <1>1 DEF Idle, CallState, Place
<1>3. call' = [call EXCEPT !["app"] = c]
  BY DEF Close
<1> HIDE DEF c
<1>4. call' \in [Thread -> CallState] /\ Located'
  BY <1>1, <1>2, <1>3, MoveTyped DEF Thread
<1>5. CloseHandles({HandleOf(o)}) /\ {HandleOf(o)} \in SUBSET Handle
  BY <1>1 DEF Close
<1>6. /\ handle' \in [Handle -> {"none", "made", "closed", "deleted"}]
      /\ truth' \in [Handle -> View]
      /\ events' \in [Handle -> Seq(Event)]
  BY <1>5, CloseTyped DEF Typed, TypeOK
<1> QED
  BY <1>4, <1>6 DEF Close, Typed, TypeOK, LibTypeOK, setVars

LEMMA CbRunTyped ==
    ASSUME Typed, NEW h \in Handle, CbRun(h) PROVE Typed'
<1>1. running[h] \in Call
  BY DEF Typed, TypeOK, LibTypeOK
<1>2. \A view \in View : Effect(view, running[h].kind, running[h].value) \in View
  <2> SUFFICES ASSUME NEW view \in View
               PROVE  Effect(view, running[h].kind, running[h].value) \in View
    OBVIOUS
  <2>1. /\ [view EXCEPT !.isOpen = TRUE] \in View
        /\ [view EXCEPT !.isOpen = FALSE] \in View
        /\ [view EXCEPT !.lastError = running[h].value] \in View
        /\ [view EXCEPT !.lastMessage = running[h].value] \in View
    BY <1>1 DEF View, Call
  <2>2. running[h].kind \in Kind
    BY <1>1 DEF Call
  <2> QED
    BY <2>1, <2>2 DEF Effect, Kind
<1>3. published' \in [Wrapper -> View]
  BY <1>2 DEF CbRun, Typed, TypeOK
<1>4. running' \in [Handle -> Call]
  BY DEF CbRun, Typed, TypeOK, LibTypeOK, NoCall, Call, Kind
<1> QED
  BY <1>3, <1>4, StillLocated DEF CbRun, Typed, TypeOK, LibTypeOK, setVars

LEMMA FinishDeinitTyped ==
    ASSUME Typed, NEW o \in Wrapper, FinishDeinit(o) PROVE Typed'
<1>1. HandleOf(o) \in Handle
  BY DEF Wrapper, HandleOf
<1>2. /\ handle' \in [Handle -> {"none", "made", "closed", "deleted"}]
      /\ truth' \in [Handle -> View]
      /\ events' \in [Handle -> Seq(Event)]
      /\ userPtr' \in [Handle -> Wrapper \cup {NoWrapper}]
      /\ registered' \in [Handle -> SUBSET Kind]
  <2>1. <<>> \in Seq(Event) /\ DeleteHandle(HandleOf(o))
    BY DEF FinishDeinit
  <2>2. truth' \in [Handle -> View]
    BY <1>1, <2>1 DEF DeleteHandle, Typed, TypeOK, LibTypeOK, View
  <2>3. events' \in [Handle -> Seq(Event)]
    BY <1>1, <2>1 DEF DeleteHandle, Typed, TypeOK, LibTypeOK
  <2> QED
    BY <1>1, <2>1, <2>2, <2>3 DEF DeleteHandle, Typed, TypeOK, LibTypeOK
<1>3. /\ status' \in [Wrapper -> {"unused", "live", "deinit", "freed"}]
      /\ published' \in [Wrapper -> View]
  BY DEF FinishDeinit, Typed, TypeOK, Blank, View
<1> QED
  BY <1>2, <1>3, StillLocated DEF FinishDeinit, Typed, TypeOK, LibTypeOK,
                                  setVars

LEMMA StartDeinitTyped ==
    ASSUME Typed, StartPeerDeinit,
           call' \in [Thread -> CallState], Located'
    PROVE  Typed'
<1>1. /\ handle' \in [Handle -> {"none", "made", "closed", "deleted"}]
      /\ truth' \in [Handle -> View]
      /\ events' \in [Handle -> Seq(Event)]
  BY CloseTyped DEF StartPeerDeinit, Typed, TypeOK
<1> QED
  BY <1>1 DEF StartPeerDeinit, Typed, TypeOK, LibTypeOK, setVars

LEMMA PeerStepTyped ==
    ASSUME Typed,
           \/ ClosePeer \/ DropPeer \/ BeginPeerDeinit
           \/ FinishPeerDeinit
    PROVE  Typed'
<1>1. Located'
  BY StillLocated DEF Typed, ClosePeer, DropPeer, BeginPeerDeinit,
                      FinishPeerDeinit
<1>2. ASSUME CloseHandles(Handle)
      PROVE  /\ handle' \in [Handle -> {"none", "made", "closed", "deleted"}]
             /\ truth' \in [Handle -> View]
             /\ events' \in [Handle -> Seq(Event)]
  BY <1>2, CloseTyped DEF Typed, TypeOK
<1>3. CASE ClosePeer
  BY <1>1, <1>2, <1>3 DEF ClosePeer, Typed, TypeOK, LibTypeOK, setVars, objVars
<1>4. CASE DropPeer
  BY <1>1, <1>4 DEF DropPeer, Typed, TypeOK, LibTypeOK, libVars, setVars
<1>5. CASE BeginPeerDeinit
  BY <1>1, <1>5, StartDeinitTyped DEF BeginPeerDeinit, Typed, TypeOK
<1>6. CASE FinishPeerDeinit
  BY <1>1, <1>6 DEF FinishPeerDeinit, Typed, TypeOK, LibTypeOK, channelVars
<1> QED
  BY <1>3, <1>4, <1>5, <1>6

\* The end of an announcement callback, with or without the peer's deinit.
LEMMA LeaveTyped ==
    ASSUME Typed, ReleasePeer \/ LeaveFreed PROVE Typed'
<1>1. CASE Return("lib") /\ UNCHANGED <<libVars, setVars, objVars>>
  BY <1>1, ReturnTyped DEF Thread, Typed, TypeOK, LibTypeOK, libVars, setVars,
                           objVars
<1>2. CASE At("lib") = "leaving" /\ StartPeerDeinit /\ Goto("lib", "deleting")
  <2>1. call' \in [Thread -> CallState] /\ Located'
    BY <1>2, GotoTyped DEF Thread, HasObject, Kind, Place
  <2> QED
    BY <1>2, <2>1, StartDeinitTyped
<1> QED
  BY <1>1, <1>2 DEF ReleasePeer, LeaveFreed

LEMMA ReferenceTyped ==
    ASSUME Typed, NEW o \in Wrapper, Take(o) \/ Drop(o) \/ BeginDeinit(o)
    PROVE  Typed'
<1>1. Located'
  BY StillLocated DEF Typed, Take, Drop, BeginDeinit
<1> QED
  BY <1>1 DEF Take, Drop, BeginDeinit, Typed, TypeOK, LibTypeOK, libVars,
              setVars

LEMMA StepTyped == Typed /\ [Next]_vars => Typed'
<1> SUFFICES ASSUME Typed, [Next]_vars PROVE Typed'
  OBVIOUS
<1>1. CASE Library
  BY <1>1, LibraryTyped, StillLocated DEF Library, Typed, TypeOK, setVars,
                                          objVars
<1>2. CASE CreateDataChannel
  <2>1. PICK manual \in BOOLEAN : Obtain(DataIds, manual \/ conn = "connected")
    BY <1>2 DEF CreateDataChannel
  <2> DEFINE fact == manual \/ conn = "connected"
  <2>2. fact \in BOOLEAN /\ DataIds \in SUBSET Handle
    BY DEF Handle
  <2> HIDE DEF fact
  <2> QED
    BY <2>1, <2>2, ObtainTyped DEF fact
<1>3. CASE CreateTrack
  BY <1>3, ObtainTyped DEF CreateTrack, Handle
<1>4. CASE CheckExisting
  BY <1>4, CheckTyped
<1>5. ASSUME NEW h \in Handle, AnnStart(h) \/ CbRun(h) PROVE Typed'
  BY <1>5, AnnStartTyped, CbRunTyped
<1>6. CASE AnnGuard
  BY <1>6, AnnGuardTyped
<1>7. ASSUME NEW t \in Thread, ThreadStep(t) PROVE Typed'
  BY <1>7, ConstructTyped, RegisterTyped, ReadTyped, WriteAllTyped,
     WriteKindTyped DEF ThreadStep
<1>8. ASSUME NEW o \in Wrapper, Close(o) \/ Take(o) \/ Drop(o)
                                \/ BeginDeinit(o) \/ FinishDeinit(o)
      PROVE  Typed'
  BY <1>8, CloseCallTyped, ReferenceTyped, FinishDeinitTyped
<1>9. CASE ClosePeer \/ DropPeer \/ BeginPeerDeinit \/ FinishPeerDeinit
  BY <1>9, PeerStepTyped
<1>11. CASE ReleasePeer \/ LeaveFreed
  BY <1>11, LeaveTyped
<1>10. CASE UNCHANGED vars
  BY <1>10, StillLocated DEF vars, libVars, setVars, objVars, Typed, TypeOK,
                             LibTypeOK
<1> QED
  BY <1>1, <1>2, <1>3, <1>4, <1>5, <1>6, <1>7, <1>8, <1>9, <1>10, <1>11 DEF Next

\* A thread that is registering callbacks or changing a set has the wrapper
\* it does that for.
LEMMA TypedHolds == Spec => []Typed
BY InitTyped, StepTyped, PTL DEF Spec

\* Every variable of the peer, its wrappers and the library keeps its type.
THEOREM TypeCorrect == Spec => []TypeOK
BY TypedHolds, PTL DEF Typed

(***************************************************************************)
(* PointerSafe is not inductive: a callback can be registered on a handle  *)
(* that has no pointer yet, unless the thread that registers it has set    *)
(* one before and rtcDelete has not taken it back since.                   *)
(***************************************************************************)
PointersLive ==
    \A h \in Handle : userPtr[h] # NoWrapper =>
                          HandleOf(userPtr[h]) = h /\ Alive(userPtr[h])
CallbacksHavePointer ==
    \A h \in Handle : registered[h] # {} => userPtr[h] # NoWrapper
RunningLive ==
    \A h \in Handle : running[h] # NoCall =>
                          /\ running[h].obj # NoWrapper
                          /\ HandleOf(running[h].obj) = h
                          /\ Alive(running[h].obj)
PointerFirst ==
    \A t \in Thread : At(t) \in Kind /\ handle[call[t].hdl] # "deleted" =>
                          userPtr[call[t].hdl] # NoWrapper
PtrInv == PointersLive /\ CallbacksHavePointer /\ RunningLive /\ PointerFirst

LEMMA PtrInvInit == Init => PtrInv
BY DEF Init, LibInit, PtrInv, PointersLive, CallbacksHavePointer, RunningLive,
       PointerFirst, At, Idle, Kind

LEMMA PtrInvSafe == Typed /\ PtrInv => PointerSafe
BY NoWrapperAssumption
   DEF Typed, TypeOK, LibTypeOK, PtrInv, PointersLive, CallbacksHavePointer,
       RunningLive, PointerSafe, Call

\* Most actions touch no pointer, free nothing, revive no deleted handle and
\* bring no thread to the registration of callbacks.
KeepsDeleted == \A h \in Handle : handle[h] = "deleted" => handle'[h] = "deleted"
KeepsAlive == \A o \in Wrapper : Alive(o) => Alive(o)'
NoNewcomer == \A t \in Thread : At(t)' \in Kind =>
                  At(t) \in Kind /\ call'[t].hdl = call[t].hdl

LEMMA PtrFrame ==
    ASSUME Typed, PtrInv, UNCHANGED <<userPtr, registered, running>>,
           KeepsDeleted, KeepsAlive, NoNewcomer
    PROVE  PtrInv'
<1>1. \A h \in Handle : userPtr[h] \in Wrapper \cup {NoWrapper}
  BY DEF Typed, TypeOK, LibTypeOK
<1>2. \A h \in Handle : running[h].obj \in Wrapper \cup {NoWrapper}
  BY DEF Typed, TypeOK, LibTypeOK, Call
<1>3. PointersLive'
  BY <1>1 DEF PtrInv, PointersLive, KeepsAlive
<1>4. CallbacksHavePointer'
  BY DEF PtrInv, CallbacksHavePointer
<1>5. RunningLive'
  BY <1>2 DEF PtrInv, RunningLive, KeepsAlive
<1>6. PointerFirst'
  <2> SUFFICES ASSUME NEW t \in Thread, At(t)' \in Kind,
                      handle'[call'[t].hdl] # "deleted"
               PROVE  userPtr'[call'[t].hdl] # NoWrapper
    BY DEF PointerFirst
  <2>1. At(t) \in Kind /\ call'[t].hdl = call[t].hdl
    BY DEF NoNewcomer
  <2>2. call[t].hdl \in Handle
    BY <2>1 DEF Typed, Located, Kind
  <2>3. handle[call[t].hdl] # "deleted"
    BY <2>1, <2>2 DEF KeepsDeleted
  <2> QED
    BY <2>1, <2>3 DEF PtrInv, PointerFirst
<1> QED
  BY <1>3, <1>4, <1>5, <1>6 DEF PtrInv

\* A thread that moves, but not to or among the registrations.
LEMMA MovesAway ==
    ASSUME Typed, NEW t \in Thread, NEW c, c.at \notin Kind,
           call' = [call EXCEPT ![t] = c]
    PROVE  NoNewcomer
BY DEF Typed, TypeOK, NoNewcomer, At

LEMMA GoesAway ==
    ASSUME Typed, NEW t \in Thread, NEW place, place \notin Kind,
           Goto(t, place)
    PROVE  NoNewcomer
BY DEF Typed, TypeOK, CallState, NoNewcomer, At, Goto

LEMMA ReturnsAway ==
    ASSUME Typed, NEW t \in Thread, Return(t) PROVE NoNewcomer
BY MovesAway DEF Return, Idle, Kind

LEMMA UnwindsAway ==
    ASSUME Typed, NEW t \in Thread, Unwind(t) PROVE NoNewcomer
<1>1. [Idle EXCEPT !.at = "leaving", !.hdl = call[t].hdl].at \notin Kind
  BY DEF Idle, Kind
<1> QED
  BY <1>1, MovesAway, ReturnsAway DEF Unwind

LEMMA CloseKeepsDeleted ==
    ASSUME Typed, NEW hs \in SUBSET Handle, CloseHandles(hs)
    PROVE  KeepsDeleted
BY DEF CloseHandles, KeepsDeleted, Typed, TypeOK, LibTypeOK

LEMMA SameAlive == UNCHANGED status => KeepsAlive
BY DEF KeepsAlive, Alive

LEMMA SameHandle == UNCHANGED handle => KeepsDeleted
BY DEF KeepsDeleted

LEMMA SameCall == UNCHANGED call => NoNewcomer
BY DEF NoNewcomer, At

LEMMA LibraryPtr == Typed /\ PtrInv /\ Library => PtrInv'
<1> SUFFICES ASSUME Typed, PtrInv, Library PROVE PtrInv'
  OBVIOUS
<1>1. UNCHANGED <<status, call>>
  BY DEF Library, objVars
<1> USE <1>1, SameAlive, SameCall DEF channelVars
<1>2. CASE LibConnect
  BY <1>2, PtrFrame, SameHandle DEF LibConnect
<1>3. ASSUME NEW h \in Handle, LibAnnounceRemote(h) PROVE PtrInv'
  <2>1. KeepsDeleted
    BY <1>3 DEF LibAnnounceRemote, Make, KeepsDeleted, Typed, TypeOK, LibTypeOK
  <2> QED
    BY <1>3, <2>1, PtrFrame DEF LibAnnounceRemote
<1>4. ASSUME NEW h \in Handle, LibOpen(h) \/ LibMessage(h) \/ LibError(h)
      PROVE  PtrInv'
  BY <1>4, PtrFrame, SameHandle DEF LibOpen, LibMessage, LibError
<1>5. ASSUME NEW h \in Handle, LibCloseRemote(h) PROVE PtrInv'
  BY <1>5, PtrFrame, CloseKeepsDeleted DEF LibCloseRemote
<1>6. ASSUME NEW h \in Handle, CbStart(h) PROVE PtrInv'
  <2>1. /\ UNCHANGED <<handle, userPtr, registered>>
        /\ registered[h] # {}
        /\ running' = [running EXCEPT ![h] = [obj |-> userPtr[h],
                                             kind |-> Head(events[h]).kind,
                                             value |-> Head(events[h]).value]]
    BY <1>6 DEF CbStart
  <2>2. userPtr[h] # NoWrapper /\ HandleOf(userPtr[h]) = h /\ Alive(userPtr[h])
    BY <2>1 DEF PtrInv, CallbacksHavePointer, PointersLive
  <2>3. RunningLive'
    BY <2>1, <2>2 DEF PtrInv, RunningLive, Alive, Typed, TypeOK, LibTypeOK
  <2>4. PointersLive' /\ CallbacksHavePointer' /\ PointerFirst'
    BY <2>1 DEF PtrInv, PointersLive, CallbacksHavePointer, PointerFirst,
                Alive, At
  <2> QED
    BY <2>3, <2>4 DEF PtrInv
<1> QED
  BY <1>2, <1>3, <1>4, <1>5, <1>6 DEF Library, LibStep

\* createX and the entry of an announcement: no wrapper is involved yet.
LEMMA StartPtr ==
    ASSUME Typed, PtrInv,
           \/ CreateDataChannel \/ CreateTrack \/ CheckExisting \/ AnnGuard
           \/ \E h \in Handle : AnnStart(h)
    PROVE  PtrInv'
<1>1. ASSUME NEW ids \in SUBSET Handle, NEW fact, Obtain(ids, fact)
      PROVE  PtrInv'
  <2>1. PICK h \in ids :
          /\ Make(h, fact) \/ UNCHANGED <<handle, known>>
          /\ call' = [call EXCEPT !["app"] = [Idle EXCEPT !.at = "check",
                                                          !.hdl = h]]
    BY <1>1 DEF Obtain
  <2>2. KeepsDeleted
    BY <2>1 DEF Make, KeepsDeleted, Typed, TypeOK, LibTypeOK
  <2>3. [Idle EXCEPT !.at = "check", !.hdl = h].at \notin Kind
    BY DEF Idle, Kind
  <2>4. NoNewcomer
    BY <2>1, <2>3, MovesAway DEF Thread
  <2> QED
    BY <1>1, <2>2, <2>4, PtrFrame, SameAlive DEF Obtain, channelVars, objVars
<1>2. CASE CreateDataChannel \/ CreateTrack
  BY <1>1, <1>2 DEF CreateDataChannel, CreateTrack, Handle
<1>3. CASE CheckExisting
  <2>1. NoNewcomer
    BY <1>3, ReturnsAway, GoesAway DEF CheckExisting, Kind, Thread
  <2> QED
    BY <1>3, <2>1, PtrFrame, SameAlive, SameHandle
    DEF CheckExisting, libVars
<1>4. CASE AnnGuard
  <2>1. NoNewcomer
    BY <1>4, GoesAway DEF AnnGuard, Kind, Thread
  <2> QED
    BY <1>4, <2>1, PtrFrame, SameAlive, SameHandle
    DEF AnnGuard, libVars, objVars
<1>5. ASSUME NEW h \in Handle, AnnStart(h) PROVE PtrInv'
  <2>1. [Idle EXCEPT !.at = "entered", !.hdl = h].at \notin Kind
    BY DEF Idle, Kind
  <2>2. NoNewcomer
    BY <1>5, <2>1, MovesAway DEF AnnStart, Thread
  <2> QED
    BY <1>5, <2>2, PtrFrame, SameAlive, SameHandle
    DEF AnnStart, channelVars, objVars
<1> QED
  BY <1>2, <1>3, <1>4, <1>5

\* Channel.init sets the pointer, to a wrapper that has just come to life.
LEMMA ConstructPtr ==
    ASSUME Typed, PtrInv, NEW t \in Thread, Construct(t) PROVE PtrInv'
<1> DEFINE h == call[t].hdl
<1>0. At(t) = "construct" /\ h \in Handle
      /\ UNCHANGED <<handle, registered, running>>
  BY DEF Construct, Typed, Located
<1>1. CASE ~Answerable(t)
  <2>1. NoNewcomer /\ UNCHANGED <<userPtr, status>>
    BY <1>1, GoesAway DEF Construct, Kind
  <2> QED
    BY <1>0, <2>1, PtrFrame, SameAlive, SameHandle
<1>2. CASE Answerable(t)
  <2>1. PICK o \in Wrapper :
          /\ HandleOf(o) = h /\ status[o] = "unused"
          /\ status' = [status EXCEPT ![o] = "live"]
          /\ userPtr' = [userPtr EXCEPT ![h] = o]
          /\ call' = [call EXCEPT ![t].at = Registering[1], ![t].obj = o]
    BY <1>2 DEF Construct
  <2>2. \A p \in Wrapper : Alive(p) => Alive(p)'
    BY <2>1 DEF Alive, Typed, TypeOK
  <2>3. Alive(o)' /\ o # NoWrapper
    BY <2>1, NoWrapperAssumption DEF Alive, Typed, TypeOK
  <2>4. \A k \in Handle : userPtr'[k] = IF k = h THEN o ELSE userPtr[k]
    BY <1>0, <2>1 DEF Typed, TypeOK, LibTypeOK
  <2>5. PointersLive'
    BY <2>1, <2>2, <2>3, <2>4
    DEF PtrInv, PointersLive, Typed, TypeOK, LibTypeOK
  <2>6. CallbacksHavePointer'
    BY <1>0, <2>3, <2>4 DEF PtrInv, CallbacksHavePointer
  <2>7. RunningLive'
    BY <1>0, <2>2 DEF PtrInv, RunningLive, Typed, TypeOK, LibTypeOK, Call
  <2>8. PointerFirst'
    <3> SUFFICES ASSUME NEW u \in Thread, At(u)' \in Kind,
                        handle'[call'[u].hdl] # "deleted"
                 PROVE  userPtr'[call'[u].hdl] # NoWrapper
      BY DEF PointerFirst
    <3>1. CASE u = t
      <4>1. call'[t].hdl = h
        BY <2>1 DEF Typed, TypeOK, CallState
      <4> QED
        BY <1>0, <2>3, <2>4, <3>1, <4>1
    <3>2. CASE u # t
      <4>1. call'[u] = call[u] /\ call[u].hdl \in Handle
        BY <2>1, <3>2 DEF Typed, TypeOK, Located, At, Kind
      <4> QED
        BY <1>0, <2>3, <2>4, <4>1 DEF PtrInv, PointerFirst, At
    <3> QED
      BY <3>1, <3>2
  <2> QED
    BY <2>5, <2>6, <2>7, <2>8 DEF PtrInv
<1> QED
  BY <1>1, <1>2

LEMMA RegisterPtr ==
    ASSUME Typed, PtrInv, NEW t \in Thread, Register(t) PROVE PtrInv'
<1> DEFINE h == call[t].hdl
<1>1. PICK i \in 1 .. 4 :
        /\ At(t) = Registering[i]
        /\ IF handle[h] = "deleted"
           THEN Goto(t, "trapped") /\ UNCHANGED registered
           ELSE /\ registered' = [registered EXCEPT ![h] = @ \cup {At(t)}]
                /\ Goto(t, IF i = 4 THEN "readAll" ELSE Registering[i + 1])
        /\ UNCHANGED <<handle, userPtr, running, status>>
  BY DEF Register, objVars
<1>2. At(t) \in Kind /\ h \in Handle
  BY <1>1 DEF Registering, Kind, Typed, Located
<1>3. CASE handle[h] = "deleted"
  <2>1. NoNewcomer /\ UNCHANGED registered
    BY <1>1, <1>3, GoesAway DEF Kind
  <2> QED
    BY <1>1, <2>1, PtrFrame, SameAlive, SameHandle
<1>4. CASE handle[h] # "deleted"
  <2>1. userPtr[h] # NoWrapper
    BY <1>2, <1>4 DEF PtrInv, PointerFirst
  <2>2. CallbacksHavePointer'
    BY <1>1, <1>2, <1>4, <2>1
    DEF PtrInv, CallbacksHavePointer, Typed, TypeOK, LibTypeOK
  <2>3. PointersLive' /\ RunningLive'
    BY <1>1 DEF PtrInv, PointersLive, RunningLive, Alive
  <2>4. PointerFirst'
    <3>1. \A u \in Thread : call'[u].hdl = call[u].hdl
                            /\ (u # t => At(u)' = At(u))
      BY <1>1, <1>4 DEF Goto, At, Typed, TypeOK, CallState
    <3> QED
      BY <1>1, <2>1, <3>1 DEF PtrInv, PointerFirst
  <2> QED
    BY <2>2, <2>3, <2>4 DEF PtrInv
<1> QED
  BY <1>3, <1>4

\* The changes of the published sets and what the application does.
LEMMA SetsPtr ==
    ASSUME Typed, PtrInv, NEW t \in Thread,
           ReadAll(t) \/ ReadKind(t) \/ WriteAll(t) \/ WriteKind(t)
    PROVE  PtrInv'
<1>1. UNCHANGED <<handle, userPtr, registered, running, status>>
  BY DEF ReadAll, ReadKind, Read, WriteAll, WriteKind, libVars, objVars
<1>2. NoNewcomer
  <2>1. CASE Return(t) \/ Unwind(t)
    BY <2>1, ReturnsAway, UnwindsAway
  <2>2. ASSUME NEW place \in {"writeAll", "writeKind", "readKind"}, NEW S,
               call' = [call EXCEPT ![t].at = place, ![t].snap = S]
        PROVE  NoNewcomer
    BY <2>2 DEF NoNewcomer, At, Kind, Typed, TypeOK, CallState
  <2> QED
    BY <2>1, <2>2 DEF ReadAll, ReadKind, Read, WriteAll, WriteKind
<1> QED
  BY <1>1, <1>2, PtrFrame, SameAlive, SameHandle

LEMMA ApplicationPtr ==
    ASSUME Typed, PtrInv,
           \/ \E o \in Wrapper : Close(o) \/ Take(o) \/ Drop(o)
           \/ ClosePeer \/ DropPeer \/ BeginPeerDeinit \/ ReleasePeer
           \/ FinishPeerDeinit \/ LeaveFreed
    PROVE  PtrInv'
<1>1. ASSUME NEW o \in Wrapper, Close(o) PROVE PtrInv'
  <2>1. KeepsDeleted
    BY <1>1, CloseKeepsDeleted DEF Close, Wrapper, HandleOf
  <2>2. [Idle EXCEPT !.at = "readAll", !.hdl = HandleOf(o), !.obj = o,
                     !.adding = FALSE].at \notin Kind
    BY DEF Idle, Kind
  <2>3. NoNewcomer
    BY <1>1, <2>2, MovesAway DEF Close, Thread
  <2> QED
    BY <1>1, <2>1, <2>3, PtrFrame, SameAlive DEF Close
<1>2. ASSUME NEW o \in Wrapper, Take(o) \/ Drop(o) PROVE PtrInv'
  BY <1>2, PtrFrame, SameAlive, SameHandle, SameCall DEF Take, Drop, libVars
<1>3. CASE ClosePeer \/ BeginPeerDeinit
  <2>1. KeepsDeleted
    BY <1>3, CloseKeepsDeleted DEF ClosePeer, BeginPeerDeinit, StartPeerDeinit
  <2> QED
    BY <1>3, <2>1, PtrFrame, SameAlive, SameCall
    DEF ClosePeer, BeginPeerDeinit, StartPeerDeinit, objVars
<1>5. CASE StartPeerDeinit /\ Goto("lib", "deleting")
  <2>1. KeepsDeleted
    BY <1>5, CloseKeepsDeleted DEF StartPeerDeinit
  <2>2. NoNewcomer
    BY <1>5, GoesAway DEF Kind, Thread
  <2> QED
    BY <1>5, <2>1, <2>2, PtrFrame, SameAlive DEF StartPeerDeinit
<1>6. CASE Return("lib") /\ UNCHANGED <<libVars, setVars, objVars>>
  <2>1. NoNewcomer
    BY <1>6, ReturnsAway DEF Thread
  <2> QED
    BY <1>6, <2>1, PtrFrame, SameAlive, SameHandle DEF libVars, objVars
<1>4. CASE DropPeer \/ FinishPeerDeinit
  BY <1>4, PtrFrame, SameAlive, SameHandle, SameCall
  DEF DropPeer, FinishPeerDeinit, libVars, channelVars
<1> QED
  BY <1>1, <1>2, <1>3, <1>4, <1>5, <1>6 DEF ReleasePeer, LeaveFreed

LEMMA CbRunPtr == ASSUME Typed, PtrInv, NEW h \in Handle, CbRun(h) PROVE PtrInv'
<1>1. /\ UNCHANGED <<handle, userPtr, registered, status, call>>
      /\ \A k \in Handle : running'[k] = IF k = h THEN NoCall ELSE running[k]
  BY DEF CbRun, Typed, TypeOK, LibTypeOK
<1>2. RunningLive'
  BY <1>1 DEF PtrInv, RunningLive, Alive
<1> QED
  BY <1>1, <1>2 DEF PtrInv, PointersLive, CallbacksHavePointer, PointerFirst,
                    Alive, At

\* deinit begins: the wrapper is still there. It ends: rtcDelete has waited
\* for the callback in flight, and taken pointer and callbacks back.
LEMMA DeinitPtr ==
    ASSUME Typed, PtrInv, NEW o \in Wrapper, BeginDeinit(o) \/ FinishDeinit(o)
    PROVE  PtrInv'
<1>1. CASE BeginDeinit(o)
  <2>1. KeepsAlive
    BY <1>1 DEF BeginDeinit, KeepsAlive, Alive, Typed, TypeOK
  <2> QED
    BY <1>1, <2>1, PtrFrame, SameHandle, SameCall DEF BeginDeinit, libVars
<1>2. CASE FinishDeinit(o)
  <2> DEFINE h == HandleOf(o)
  <2>1. h \in Handle
    BY DEF Wrapper, HandleOf
  <2>2. /\ status' = [status EXCEPT ![o] = "freed"]
        /\ handle' = [handle EXCEPT ![h] = "deleted"]
        /\ registered' = [registered EXCEPT ![h] = {}]
        /\ userPtr' = [userPtr EXCEPT ![h] = NoWrapper]
        /\ running[h] = NoCall
        /\ UNCHANGED <<running, call>>
    BY <1>2 DEF FinishDeinit, DeleteHandle
  <2>3. \A p \in Wrapper : Alive(p) /\ HandleOf(p) # h => Alive(p)'
    BY <2>2 DEF Alive, Typed, TypeOK
  <2>4. PointersLive'
    BY <2>1, <2>2, <2>3 DEF PtrInv, PointersLive, Typed, TypeOK, LibTypeOK
  <2>5. CallbacksHavePointer'
    BY <2>1, <2>2 DEF PtrInv, CallbacksHavePointer, Typed, TypeOK, LibTypeOK
  <2>6. RunningLive'
    BY <2>1, <2>2, <2>3 DEF PtrInv, RunningLive, Typed, TypeOK, LibTypeOK, Call
  <2>7. PointerFirst'
    <3> SUFFICES ASSUME NEW t \in Thread, At(t) \in Kind,
                        handle'[call[t].hdl] # "deleted"
                 PROVE  userPtr'[call[t].hdl] # NoWrapper
      BY <2>2 DEF PointerFirst, At
    <3>1. call[t].hdl \in Handle
      BY DEF Typed, Located, Kind
    <3>2. call[t].hdl # h /\ handle[call[t].hdl] # "deleted"
      BY <2>1, <2>2, <3>1 DEF Typed, TypeOK, LibTypeOK
    <3> QED
      BY <2>1, <2>2, <3>1, <3>2
      DEF PtrInv, PointerFirst, Typed, TypeOK, LibTypeOK
  <2> QED
    BY <2>4, <2>5, <2>6, <2>7 DEF PtrInv
<1> QED
  BY <1>1, <1>2

LEMMA PtrInvStep == Typed /\ PtrInv /\ [Next]_vars => PtrInv'
<1> SUFFICES ASSUME Typed, PtrInv, [Next]_vars PROVE PtrInv'
  OBVIOUS
<1>1. CASE Next
  BY <1>1, LibraryPtr, StartPtr, CbRunPtr, ConstructPtr, RegisterPtr, SetsPtr,
     ApplicationPtr, DeinitPtr DEF Next, ThreadStep
<1>2. CASE UNCHANGED vars
  BY <1>2, PtrFrame, SameAlive, SameHandle, SameCall
  DEF vars, libVars, objVars
<1> QED
  BY <1>1, <1>2

\* No callback of the library ever reaches a freed wrapper, or the wrapper of
\* another handle, however announcements, callbacks, close() and the release
\* of wrappers and peer interleave.
THEOREM PointersAreSafe == Spec => []PointerSafe
BY PtrInvInit, PtrInvStep, PtrInvSafe, TypedHolds, PTL DEF Spec
====
