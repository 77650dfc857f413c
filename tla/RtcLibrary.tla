---- MODULE RtcLibrary ----
(***************************************************************************)
(* libdatachannel as AlloDataChannel uses it through rtc.h: one peer       *)
(* connection and the handles (integer ids) of its data channels and       *)
(* tracks. The library is external: only what the Swift code relies on is  *)
(* modelled.                                                               *)
(*   - an id is given out once and names one channel until rtcDelete;      *)
(*   - events of a handle are delivered one at a time and in order, each   *)
(*     to the callback registered for its kind; an event that arrives      *)
(*     before its callback is registered is kept and delivered after;      *)
(*   - a callback gets the user pointer the handle had when it started;    *)
(*   - rtcDelete and rtcDeletePeerConnection return only once the          *)
(*     callbacks in flight have returned, and none starts afterwards; a    *)
(*     callback that makes the call itself waits for its own end only if   *)
(*     WaitsForOwn (the mutex of a callback slot is recursive).            *)
(***************************************************************************)
EXTENDS Naturals, Sequences, FiniteSets

CONSTANTS
    DataIds,      \* ids the library may give to data channels
    TrackIds,     \* ids the library may give to tracks
    Copies,       \* bound: wrapper objects the program may make per id
    MaxArrivals,  \* bound: messages and errors per handle
    WaitsForOwn,  \* a callback that deletes its own connection waits for itself
    Omissions,    \* optional facts that may be absent: "stream", "msid"
    NoWrapper     \* the null user pointer

Handle == DataIds \cup TrackIds
Wrapper == Handle \X Copies
HandleOf(o) == o[1]

ASSUME IdsAssumption == DataIds \cap TrackIds = {}
ASSUME CopiesAssumption == Copies \subseteq Nat /\ Copies # {}
ASSUME ArrivalsAssumption == MaxArrivals \in Nat
ASSUME OwnAssumption == WaitsForOwn \in BOOLEAN
ASSUME OmissionsAssumption == Omissions \subseteq {"stream", "msid"}
ASSUME NoWrapperAssumption == NoWrapper \notin Wrapper

\* The four callbacks of a channel, and what the library knows of it.
Kind == {"open", "closed", "error", "message"}
Event == [kind : Kind, value : Nat]
View == [isOpen : BOOLEAN, lastError : Nat, lastMessage : Nat]
Blank == [isOpen |-> FALSE, lastError |-> 0, lastMessage |-> 0]

NoCall == [obj |-> NoWrapper, kind |-> "open", value |-> 0]
Call == [obj : Wrapper \cup {NoWrapper}, kind : Kind, value : Nat]

VARIABLES
    conn,        \* the peer connection: "new", "connected", "closed"
    handle,      \* id -> "none", "made", "closed", "deleted"
    known,       \* id -> its stream id (data), or msid (track), can be read
    truth,       \* id -> what the channel really is
    events,      \* id -> events not yet handed to a callback
    userPtr,     \* id -> its user pointer
    registered,  \* id -> the kinds that have a callback
    running,     \* id -> the callback in flight, NoCall if none
    pending      \* ids the library has still to announce to the program

libVars == <<conn, handle, known, truth, events, userPtr, registered,
             running, pending>>
channelVars == <<truth, events, userPtr, registered, running>>

LibTypeOK ==
    /\ conn \in {"new", "connected", "closed"}
    /\ handle \in [Handle -> {"none", "made", "closed", "deleted"}]
    /\ known \in [Handle -> BOOLEAN]
    /\ truth \in [Handle -> View]
    /\ events \in [Handle -> Seq(Event)]
    /\ userPtr \in [Handle -> Wrapper \cup {NoWrapper}]
    /\ registered \in [Handle -> SUBSET Kind]
    /\ running \in [Handle -> Call]
    /\ pending \in SUBSET Handle

LibInit ==
    /\ conn = "new"
    /\ handle = [h \in Handle |-> "none"]
    /\ known = [h \in Handle |-> FALSE]
    /\ truth = [h \in Handle |-> Blank]
    /\ events = [h \in Handle |-> <<>>]
    /\ userPtr = [h \in Handle |-> NoWrapper]
    /\ registered = [h \in Handle |-> {}]
    /\ running = [h \in Handle |-> NoCall]
    /\ pending = {}

Ev(kind, value) == [kind |-> kind, value |-> value]

(***************************************************************************)
(* Calls: the part of an rtc* call that changes the library's state, used  *)
(* as conjuncts by the actions of the program.                             *)
(***************************************************************************)

\* A fresh id for a channel whose optional fact is present or not.
Make(h, fact) ==
    /\ handle[h] = "none"
    /\ handle' = [handle EXCEPT ![h] = "made"]
    /\ known' = [known EXCEPT ![h] = fact]

\* rtcClose, or an implicit close, of a set of handles: each one still
\* unclosed has one "closed" event to deliver.
CloseHandles(hs) ==
    LET closing == {h \in hs : handle[h] = "made"}
    IN  /\ handle' = [h \in Handle |->
                        IF h \in closing THEN "closed" ELSE handle[h]]
        /\ truth' = [h \in Handle |->
                        IF h \in closing THEN [truth[h] EXCEPT !.isOpen = FALSE]
                        ELSE truth[h]]
        /\ events' = [h \in Handle |->
                        IF h \in closing THEN Append(events[h], Ev("closed", 0))
                        ELSE events[h]]

\* rtcDelete: no event and no callback is left.
DeleteHandle(h) ==
    /\ handle' = [handle EXCEPT ![h] = "deleted"]
    /\ truth' = [truth EXCEPT ![h].isOpen = FALSE]
    /\ events' = [events EXCEPT ![h] = <<>>]
    /\ registered' = [registered EXCEPT ![h] = {}]
    /\ userPtr' = [userPtr EXCEPT ![h] = NoWrapper]

(***************************************************************************)
(* Steps of the library and of the network.                                *)
(***************************************************************************)

\* The transports come up: every data channel now has a stream id.
LibConnect ==
    /\ conn = "new"
    /\ conn' = "connected"
    /\ known' = [h \in Handle |->
                    known[h] \/ (h \in DataIds /\ handle[h] = "made")]
    /\ UNCHANGED <<handle, pending, channelVars>>

\* The other side opened a data channel or described a track.
LibAnnounceRemote(h) ==
    /\ conn # "closed"
    /\ h \in DataIds => conn = "connected"
    /\ \E fact \in BOOLEAN :
        /\ fact \/ (h \in TrackIds /\ "msid" \in Omissions)
        /\ Make(h, fact)
    /\ pending' = pending \cup {h}
    /\ UNCHANGED <<conn, channelVars>>

LibOpen(h) ==
    /\ conn = "connected" /\ handle[h] = "made" /\ ~truth[h].isOpen
    /\ truth' = [truth EXCEPT ![h].isOpen = TRUE]
    /\ events' = [events EXCEPT ![h] = Append(@, Ev("open", 0))]
    /\ UNCHANGED <<conn, handle, known, userPtr, registered, running, pending>>

\* The bound: messages and errors of a handle so far.
Arrivals(h) == truth[h].lastMessage + truth[h].lastError

LibMessage(h) ==
    /\ truth[h].isOpen /\ Arrivals(h) < MaxArrivals
    /\ truth' = [truth EXCEPT ![h].lastMessage = @ + 1]
    /\ events' = [events EXCEPT
                    ![h] = Append(@, Ev("message", truth[h].lastMessage + 1))]
    /\ UNCHANGED <<conn, handle, known, userPtr, registered, running, pending>>

LibError(h) ==
    /\ handle[h] = "made" /\ Arrivals(h) < MaxArrivals
    /\ truth' = [truth EXCEPT ![h].lastError = @ + 1]
    /\ events' = [events EXCEPT
                    ![h] = Append(@, Ev("error", truth[h].lastError + 1))]
    /\ UNCHANGED <<conn, handle, known, userPtr, registered, running, pending>>

\* The other side closed the channel, or its transport failed.
LibCloseRemote(h) ==
    /\ handle[h] = "made"
    /\ CloseHandles({h})
    /\ UNCHANGED <<conn, known, userPtr, registered, running, pending>>

\* The library starts the callback of the next event of h.
CbStart(h) ==
    /\ running[h] = NoCall /\ events[h] # <<>>
    /\ Head(events[h]).kind \in registered[h]
    /\ running' = [running EXCEPT ![h] = [obj |-> userPtr[h],
                                         kind |-> Head(events[h]).kind,
                                         value |-> Head(events[h]).value]]
    /\ events' = [events EXCEPT ![h] = Tail(@)]
    /\ UNCHANGED <<conn, handle, known, truth, userPtr, registered, pending>>

LibStep ==
    \/ LibConnect
    \/ \E h \in Handle : \/ LibAnnounceRemote(h)
                         \/ LibOpen(h)
                         \/ LibMessage(h)
                         \/ LibError(h)
                         \/ LibCloseRemote(h)
                         \/ CbStart(h)
====
