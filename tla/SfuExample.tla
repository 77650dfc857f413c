---- MODULE SfuExample ----
(***************************************************************************)
(* The SFU example: `main' makes one Receiver after the other while the    *)
(* sink on the ingress track's messages, run by a thread of the library,   *)
(* forwards each packet to the receivers made so far.                      *)
(***************************************************************************)
EXTENDS Naturals, Sequences

CONSTANTS
    Receiver,     \* the receivers main makes, in any order
    MaxPackets    \* bound: packets the sender sends

VARIABLES
    main,       \* where main is in the loop
    current,    \* the receiver it is making
    receivers,  \* the list
    track,      \* a receiver's `track': "nil" or "made"
    library,    \* the library's side of that track
    isOpen,     \* as the track publishes it
    packet,     \* packets that have arrived
    sink,       \* the sink's run: the list it iterates, and how far it is
    steady,     \* receivers open since the packet arrived
    received    \* the packets a receiver's track was given

mainVars == <<main, current, receivers, track>>
sinkVars == <<packet, sink, received>>
vars == <<mainVars, library, isOpen, sinkVars, steady>>

Idle == [run |-> "idle", list |-> <<>>, i |-> 0]

TypeOK ==
    /\ main \in {"append", "create", "answer", "threw"}
    /\ current \in Receiver
    /\ receivers \in Seq(Receiver)
    /\ track \in [Receiver -> {"nil", "made"}]
    /\ library \in [Receiver -> {"none", "offered", "answered", "open", "closed"}]
    /\ isOpen \in [Receiver -> BOOLEAN]
    /\ packet \in 0 .. MaxPackets
    /\ sink \in [run : {"idle", "forwarding", "done", "trapped"},
                 list : Seq(Receiver), i : Nat]
    /\ steady \in SUBSET Receiver
    /\ received \in [Receiver -> SUBSET (1 .. MaxPackets)]

Init ==
    /\ main = "append"
    /\ current \in Receiver
    /\ receivers = <<>>
    /\ track = [r \in Receiver |-> "nil"]
    /\ library = [r \in Receiver |-> "none"]
    /\ isOpen = [r \in Receiver |-> FALSE]
    /\ packet = 0
    /\ sink = Idle
    /\ steady = {}
    /\ received = [r \in Receiver |-> {}]

Listed(r) == \E i \in DOMAIN receivers : receivers[i] = r
\* A trap ends the process, and so does an error that main throws.
Alive == sink.run # "trapped" /\ main # "threw"

\* A receiver enters the list before it has a track.
AppendReceiver ==
    /\ Alive /\ main = "append"
    /\ \E r \in Receiver :
        /\ ~Listed(r)
        /\ current' = r
        /\ receivers' = Append(receivers, r)
    /\ main' = "create"
    /\ UNCHANGED <<track, library, isOpen, sinkVars, steady>>

\* createTrack may throw, and main ends with it; else the offer is printed.
CreateTrack ==
    /\ Alive /\ main = "create"
    /\ \/ main' = "threw" /\ UNCHANGED <<track, library>>
       \/ /\ main' = "answer"
          /\ track' = [track EXCEPT ![current] = "made"]
          /\ library' = [library EXCEPT ![current] = "offered"]
    /\ UNCHANGED <<current, receivers, isOpen, sinkVars, steady>>

\* The answer is pasted; it may not parse or not be accepted.
SetAnswer ==
    /\ Alive /\ main = "answer"
    /\ \/ main' = "threw" /\ UNCHANGED library
       \/ /\ main' = "append"
          /\ library' = [library EXCEPT ![current] = "answered"]
    /\ UNCHANGED <<current, receivers, track, isOpen, sinkVars, steady>>

\* The library opens and closes tracks, and they publish it.
Opens(r) ==
    /\ Alive /\ library[r] = "answered"
    /\ library' = [library EXCEPT ![r] = "open"]
    /\ isOpen' = [isOpen EXCEPT ![r] = TRUE]
    /\ UNCHANGED <<mainVars, sinkVars, steady>>

Closes(r) ==
    /\ Alive /\ library[r] = "open"
    /\ library' = [library EXCEPT ![r] = "closed"]
    /\ isOpen' = [isOpen EXCEPT ![r] = FALSE]
    /\ steady' = steady \ {r}
    /\ UNCHANGED <<mainVars, sinkVars>>

\* A packet arrives: `for receiver in receivers' iterates a copy.
Arrives ==
    /\ Alive /\ sink.run \in {"idle", "done"} /\ packet < MaxPackets
    /\ packet' = packet + 1
    /\ sink' = [run |-> "forwarding", list |-> receivers, i |-> 1]
    /\ steady' = {r \in Receiver : Listed(r) /\ isOpen[r]}
    /\ UNCHANGED <<mainVars, library, isOpen, received>>

\* One turn of the loop: a nil track traps, a track that is not open ends the
\* whole run (`return'), and another is given the packet. send may throw; the
\* loop goes on.
Forward ==
    /\ Alive /\ sink.run = "forwarding" /\ sink.i <= Len(sink.list)
    /\ LET r == sink.list[sink.i] IN
       \/ /\ track[r] = "nil"
          /\ sink' = [sink EXCEPT !.run = "trapped"]
          /\ UNCHANGED received
       \/ /\ track[r] = "made" /\ ~isOpen[r]
          /\ sink' = [sink EXCEPT !.run = "done"]
          /\ UNCHANGED received
       \/ /\ isOpen[r]
          /\ sink' = [sink EXCEPT !.i = @ + 1]
          /\ received' = [received EXCEPT ![r] =
                             IF library[r] = "open" THEN @ \cup {packet} ELSE @]
    /\ UNCHANGED <<mainVars, library, isOpen, packet, steady>>

Done ==
    /\ Alive /\ sink.run = "forwarding" /\ sink.i > Len(sink.list)
    /\ sink' = [sink EXCEPT !.run = "done"]
    /\ UNCHANGED <<mainVars, library, isOpen, packet, steady, received>>

Next ==
    \/ AppendReceiver \/ CreateTrack \/ SetAnswer \/ Arrives \/ Forward \/ Done
    \/ \E r \in Receiver : Opens(r) \/ Closes(r)

Spec == Init /\ [][Next]_vars

\* SFUMain.swift:18 and the unit it is built from promise to "forward media
\* between peers": when the sink has handled a packet, every receiver whose
\* track was open all the while has been given it (SFUMain.swift:43-53).
OpenReceiversGetIt ==
    sink.run = "done" => \A r \in steady : packet \in received[r]
====
