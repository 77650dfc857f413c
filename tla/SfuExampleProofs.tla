---- MODULE SfuExampleProofs ----
(***************************************************************************)
(* How far the flaw of the SFU example goes, for any number of receivers   *)
(* and packets: a packet reaches every open receiver of the list up to the *)
(* first that is not open, and the sink traps only at the receiver that    *)
(* `main' has listed and not given its track yet.                          *)
(***************************************************************************)
EXTENDS SfuExample, TLAPS

\* A receiver gets its track after it is listed, and only the newest waits
\* for it.
Made ==
    /\ \A r \in Receiver : track[r] = "made" => Listed(r)
    /\ \A r \in Receiver : library[r] # "none" => track[r] = "made"
    /\ \A i \in DOMAIN receivers : track[receivers[i]] = "nil" =>
           main \in {"create", "threw"} /\ receivers[i] = current
    /\ main = "create" => track[current] = "nil" /\ Listed(current)
    /\ main = "answer" => library[current] = "offered"

\* A track publishes what it is, and a steady one has been open all along.
Open ==
    /\ \A r \in Receiver : isOpen[r] <=> library[r] = "open"
    /\ \A r \in steady : isOpen[r]

\* The sink goes through a list of receivers that are listed, has handed the
\* packet to those steady ones it has passed, and is done at the end of the
\* list or at one that is not steady.
Handed ==
    /\ sink.run = "idle" => sink.list = <<>> /\ steady = {}
    /\ \A i \in DOMAIN sink.list : Listed(sink.list[i])
    /\ \A r \in steady : \E i \in DOMAIN sink.list : sink.list[i] = r
    /\ \A i \in DOMAIN sink.list : i < sink.i /\ sink.list[i] \in steady =>
           packet \in received[sink.list[i]]
    /\ sink.run = "done" /\ sink.i \in DOMAIN sink.list =>
           sink.list[sink.i] \notin steady
    /\ sink.run # "idle" => sink.i > 0 /\ packet > 0
    /\ sink.run = "trapped" => /\ sink.i \in DOMAIN sink.list
                               /\ track[sink.list[sink.i]] = "nil"
                               /\ main # "threw"

SfuInv == TypeOK /\ Made /\ Open /\ Handed

LEMMA SfuInit == MaxPackets \in Nat /\ Init => SfuInv
<1> SUFFICES ASSUME MaxPackets \in Nat, Init PROVE SfuInv
  OBVIOUS
<1>0. <<>> \in Seq(Receiver) /\ 0 \in 0 .. MaxPackets
  OBVIOUS
<1>1. TypeOK
  BY <1>0 DEF Init, TypeOK, Idle
<1>2. Made /\ Open /\ Handed
  BY DEF Init, Made, Open, Handed, Idle
<1> QED
  BY <1>1, <1>2 DEF SfuInv

LEMMA TypeStep == MaxPackets \in Nat /\ TypeOK /\ Handed /\ [Next]_vars => TypeOK'
<1> SUFFICES ASSUME MaxPackets \in Nat, TypeOK, Handed, [Next]_vars PROVE TypeOK'
  OBVIOUS
<1> USE DEF TypeOK, mainVars, sinkVars
<1>1. CASE AppendReceiver
  BY <1>1 DEF AppendReceiver
<1>2. CASE CreateTrack
  BY <1>2 DEF CreateTrack
<1>3. CASE SetAnswer
  BY <1>3 DEF SetAnswer
<1>4. ASSUME NEW r \in Receiver, Opens(r) \/ Closes(r) PROVE TypeOK'
  BY <1>4 DEF Opens, Closes
<1>5. CASE Arrives
  <2>1. packet' \in 0 .. MaxPackets
    BY <1>5 DEF Arrives
  <2>2. sink' \in [run : {"idle", "forwarding", "done", "trapped"},
                  list : Seq(Receiver), i : Nat]
    BY <1>5 DEF Arrives
  <2>3. steady' \in SUBSET Receiver
    BY <1>5 DEF Arrives
  <2> QED
    BY <1>5, <2>1, <2>2, <2>3 DEF Arrives
<1>6. CASE Forward
  <2>0. sink.run # "idle"
    BY <1>6 DEF Forward
  <2>1. packet \in 1 .. MaxPackets
    <3> HIDE DEF TypeOK
    <3>1. packet > 0
      BY <2>0 DEF Handed
    <3> QED
      BY <3>1 DEF TypeOK
  <2>2. received' \in [Receiver -> SUBSET (1 .. MaxPackets)]
    <3>1. received \in [Receiver -> SUBSET (1 .. MaxPackets)]
      OBVIOUS
    <3> HIDE DEF TypeOK
    <3>2. \E r, b : \/ UNCHANGED received
                   \/ received' = [received EXCEPT ![r] =
                                      IF b THEN @ \cup {packet} ELSE @]
      BY <1>6 DEF Forward
    <3> QED
      BY <2>1, <3>1, <3>2
  <2>3. sink' \in [run : {"idle", "forwarding", "done", "trapped"},
                  list : Seq(Receiver), i : Nat]
    BY <1>6 DEF Forward
  <2> QED
    BY <1>6, <2>2, <2>3 DEF Forward
<1>7. CASE Done
  BY <1>7 DEF Done
<1>8. CASE UNCHANGED vars
  BY <1>8 DEF vars
<1> QED
  BY <1>1, <1>2, <1>3, <1>4, <1>5, <1>6, <1>7, <1>8 DEF Next

\* A receiver is added at the end of the list.
LEMMA AppendFacts ==
    ASSUME TypeOK, NEW r \in Receiver, receivers' = Append(receivers, r)
    PROVE  /\ \A p \in Receiver : Listed(p)' <=> Listed(p) \/ p = r
           /\ \A i \in DOMAIN receivers' :
                  \/ receivers'[i] = r
                  \/ i \in DOMAIN receivers /\ receivers'[i] = receivers[i]
<1>1. /\ DOMAIN receivers = 1 .. Len(receivers) /\ Len(receivers) \in Nat
      /\ DOMAIN receivers' = 1 .. Len(receivers) + 1
      /\ receivers'[Len(receivers) + 1] = r
      /\ \A i \in 1 .. Len(receivers) : receivers'[i] = receivers[i]
  BY DEF TypeOK
<1>2. ASSUME NEW p \in Receiver PROVE Listed(p)' <=> Listed(p) \/ p = r
  BY <1>1 DEF Listed
<1>3. \A i \in DOMAIN receivers' :
         \/ receivers'[i] = r
         \/ i \in DOMAIN receivers /\ receivers'[i] = receivers[i]
  BY <1>1
<1> QED
  BY <1>2, <1>3

LEMMA MadeStep == TypeOK /\ Made /\ Open /\ [Next]_vars => Made'
<1> SUFFICES ASSUME TypeOK, Made, Open, [Next]_vars PROVE Made'
  OBVIOUS
<1> USE DEF mainVars, sinkVars
<1>0. \A i \in DOMAIN receivers : receivers[i] \in Receiver
  BY DEF TypeOK
<1>1. CASE AppendReceiver
  <2>1. PICK r \in Receiver : /\ ~Listed(r) /\ current' = r
                              /\ receivers' = Append(receivers, r)
    BY <1>1 DEF AppendReceiver
  <2>2. main = "append" /\ main' = "create" /\ UNCHANGED <<track, library>>
    BY <1>1 DEF AppendReceiver
  <2>3. track[r] = "nil"
    BY <2>1 DEF Made, TypeOK
  <2> QED
    BY <1>0, <2>1, <2>2, <2>3, AppendFacts DEF Made
<1>2. CASE CreateTrack
  <2>1. UNCHANGED receivers /\ main = "create" /\ UNCHANGED current
    BY <1>2 DEF CreateTrack
  <2>2. CASE main' = "threw" /\ UNCHANGED <<track, library>>
    BY <2>1, <2>2 DEF Made, Listed
  <2>3. CASE /\ main' = "answer"
             /\ track' = [track EXCEPT ![current] = "made"]
             /\ library' = [library EXCEPT ![current] = "offered"]
    <3>1. /\ track'[current] = "made" /\ library'[current] = "offered"
          /\ \A r \in Receiver \ {current} :
                 track'[r] = track[r] /\ library'[r] = library[r]
      BY <2>3 DEF TypeOK
    <3>2. Listed(current)
      BY <2>1 DEF Made
    <3> QED
      BY <1>0, <2>1, <2>3, <3>1, <3>2 DEF Made, Listed
  <2> QED
    BY <1>2, <2>2, <2>3 DEF CreateTrack
<1>3. CASE SetAnswer
  <2>1. /\ UNCHANGED <<receivers, track>> /\ main = "answer"
        /\ main' \in {"threw", "append"}
        /\ \A r \in Receiver : library'[r] = library[r]
               \/ (r = current /\ library[r] # "none")
    BY <1>3 DEF SetAnswer, Made, TypeOK
  <2> QED
    BY <2>1 DEF Made, Listed, TypeOK
<1>4. ASSUME NEW r \in Receiver, Opens(r) \/ Closes(r) PROVE Made'
  <2>1. /\ UNCHANGED mainVars /\ library[r] \in {"answered", "open"}
        /\ \A p \in Receiver \ {r} : library'[p] = library[p]
    BY <1>4 DEF Opens, Closes, TypeOK
  <2> QED
    BY <2>1 DEF Made, Listed, TypeOK
<1>5. CASE Arrives \/ Forward \/ Done \/ UNCHANGED vars
  <2>1. UNCHANGED <<mainVars, library>>
    BY <1>5 DEF Arrives, Forward, Done, vars
  <2> QED
    BY <2>1 DEF Made, Listed
<1> QED
  BY <1>1, <1>2, <1>3, <1>4, <1>5 DEF Next

LEMMA OpenStep == TypeOK /\ Made /\ Open /\ [Next]_vars => Open'
<1> SUFFICES ASSUME TypeOK, Made, Open, [Next]_vars PROVE Open'
  OBVIOUS
<1> USE DEF Open
<1>1. CASE CreateTrack \/ SetAnswer
  <2>1. UNCHANGED <<isOpen, steady>>
    BY <1>1 DEF CreateTrack, SetAnswer
  <2>2. library[current] # "open" /\ library'[current] # "open"
    BY <1>1 DEF CreateTrack, SetAnswer, Made, TypeOK
  <2>3. \A r \in Receiver \ {current} : library'[r] = library[r]
    BY <1>1 DEF CreateTrack, SetAnswer, TypeOK
  <2> QED
    BY <2>1, <2>2, <2>3 DEF TypeOK
<1>2. ASSUME NEW r \in Receiver, Opens(r) \/ Closes(r) PROVE Open'
  BY <1>2 DEF Opens, Closes, TypeOK
<1>3. CASE AppendReceiver \/ Forward \/ Done \/ UNCHANGED vars
  <2>1. UNCHANGED <<library, isOpen, steady>>
    BY <1>3 DEF AppendReceiver, sinkVars, Forward, Done, vars
  <2> QED
    BY <2>1
<1>4. CASE Arrives
  BY <1>4 DEF Arrives
<1> QED
  BY <1>1, <1>2, <1>3, <1>4 DEF Next

\* Whoever listed stays listed.
LEMMA ListGrows ==
    ASSUME TypeOK, [Next]_vars
    PROVE  \A r \in Receiver : Listed(r) => Listed(r)'
<1>1. CASE AppendReceiver
  BY <1>1, AppendFacts DEF AppendReceiver
<1>2. CASE ~AppendReceiver
  <2>1. UNCHANGED receivers
    BY <1>2 DEF Next, CreateTrack, SetAnswer, Opens, Closes, Arrives, Forward, Done,
               mainVars, vars
  <2> QED
    BY <2>1 DEF Listed
<1> QED
  BY <1>1, <1>2

\* One turn of the loop.
LEMMA ForwardFacts ==
    ASSUME TypeOK, Made, Open, Handed, Forward
    PROVE  LET r == sink.list[sink.i] IN
           /\ sink.i \in DOMAIN sink.list /\ r \in Receiver
           /\ sink'.list = sink.list /\ packet' = packet
           /\ UNCHANGED <<mainVars, library, isOpen, steady>>
           /\ \A p \in Receiver : received[p] \subseteq received'[p]
           /\ \/ track[r] = "nil" /\ sink'.run = "trapped" /\ sink'.i = sink.i
              \/ ~isOpen[r] /\ sink'.run = "done" /\ sink'.i = sink.i
              \/ /\ packet \in received'[r]
                 /\ sink'.run = "forwarding" /\ sink'.i = sink.i + 1
<1> DEFINE r == sink.list[sink.i]
<1>1. sink.run = "forwarding" /\ sink.i <= Len(sink.list)
  BY DEF Forward
<1>2. sink \in [run : {"idle", "forwarding", "done", "trapped"},
                list : Seq(Receiver), i : Nat] /\ sink.i > 0
  BY <1>1 DEF TypeOK, Handed
<1>3. sink.i \in DOMAIN sink.list /\ r \in Receiver
  BY <1>1, <1>2
<1>4. /\ received \in [Receiver -> SUBSET (1 .. MaxPackets)]
      /\ isOpen[r] => library[r] = "open"
  BY <1>3 DEF TypeOK, Open
<1>5. \/ track[r] = "nil" /\ sink' = [sink EXCEPT !.run = "trapped"]
         /\ UNCHANGED received
      \/ ~isOpen[r] /\ sink' = [sink EXCEPT !.run = "done"] /\ UNCHANGED received
      \/ /\ isOpen[r] /\ sink' = [sink EXCEPT !.i = @ + 1]
         /\ received' = [received EXCEPT ![r] =
                            IF library[r] = "open" THEN @ \cup {packet} ELSE @]
  BY DEF Forward
<1>6. UNCHANGED <<mainVars, library, isOpen, steady, packet>>
  BY DEF Forward
<1> HIDE DEF r
<1>7. \A p \in Receiver : received[p] \subseteq received'[p]
  BY <1>3, <1>4, <1>5
<1>8. \/ track[r] = "nil" /\ sink'.run = "trapped" /\ sink'.i = sink.i
         /\ sink'.list = sink.list
      \/ ~isOpen[r] /\ sink'.run = "done" /\ sink'.i = sink.i
         /\ sink'.list = sink.list
      \/ /\ packet \in received'[r] /\ sink'.list = sink.list
         /\ sink'.run = "forwarding" /\ sink'.i = sink.i + 1
  BY <1>1, <1>2, <1>3, <1>4, <1>5
<1> QED
  BY <1>3, <1>6, <1>7, <1>8 DEF r

ListMayGrow == \A r \in Receiver : Listed(r) => Listed(r)'

\* A step that leaves the sink alone keeps what it has done, if no receiver of
\* its list leaves and none becomes steady.
LEMMA HandedFrame ==
    ASSUME TypeOK, Handed, ListMayGrow, UNCHANGED sinkVars,
           steady' \subseteq steady,
           sink.run = "trapped" => UNCHANGED <<track, main>>
    PROVE  Handed'
<1>1. sink.list \in Seq(Receiver)
  BY DEF TypeOK
<1>2. \A i \in DOMAIN sink.list : sink.list[i] \in Receiver
  BY <1>1
<1>3. UNCHANGED sink /\ UNCHANGED packet /\ UNCHANGED received
  BY DEF sinkVars
<1> QED
  BY <1>2, <1>3 DEF Handed, ListMayGrow

LEMMA HandedStep == TypeOK /\ Made /\ Open /\ Handed /\ [Next]_vars => Handed'
<1> SUFFICES ASSUME TypeOK, Made, Open, Handed, [Next]_vars PROVE Handed'
  OBVIOUS
<1>0. ListMayGrow
  BY ListGrows DEF ListMayGrow
<1>1. CASE AppendReceiver \/ CreateTrack \/ SetAnswer \/ UNCHANGED vars
  <2>1. UNCHANGED sinkVars /\ UNCHANGED steady
    BY <1>1 DEF AppendReceiver, CreateTrack, SetAnswer, vars
  <2>2. sink.run = "trapped" => UNCHANGED <<track, main>>
    BY <1>1 DEF AppendReceiver, CreateTrack, SetAnswer, vars, Alive, mainVars
  <2> QED
    BY <1>0, <2>1, <2>2, HandedFrame
<1>2. ASSUME NEW r \in Receiver, Opens(r) \/ Closes(r) PROVE Handed'
  <2>1. UNCHANGED sinkVars /\ UNCHANGED mainVars /\ steady' \subseteq steady
    BY <1>2 DEF Opens, Closes
  <2> QED
    BY <1>0, <2>1, HandedFrame DEF mainVars
<1>3. CASE Arrives
  <2>1. /\ sink'.run = "forwarding" /\ sink'.list = receivers /\ sink'.i = 1
        /\ packet' = packet + 1 /\ packet \in Nat
        /\ UNCHANGED receivers
        /\ \A r \in steady' : Listed(r)
    BY <1>3 DEF Arrives, mainVars, TypeOK
  <2>2. DOMAIN receivers = 1 .. Len(receivers)
    BY DEF TypeOK
  <2> QED
    BY <2>1, <2>2 DEF Handed, Listed
<1>4. CASE Forward
  <2> DEFINE r == sink.list[sink.i]
  <2>1. /\ sink.i \in DOMAIN sink.list /\ r \in Receiver
        /\ sink'.list = sink.list /\ packet' = packet
        /\ UNCHANGED <<mainVars, isOpen, steady>>
        /\ \A p \in Receiver : received[p] \subseteq received'[p]
        /\ \/ track[r] = "nil" /\ sink'.run = "trapped" /\ sink'.i = sink.i
           \/ ~isOpen[r] /\ sink'.run = "done" /\ sink'.i = sink.i
           \/ /\ packet \in received'[r]
              /\ sink'.run = "forwarding" /\ sink'.i = sink.i + 1
    BY <1>4, ForwardFacts
  <2>2. /\ sink.run = "forwarding" /\ main # "threw"
        /\ sink.i \in Nat /\ sink.list \in Seq(Receiver)
    BY <1>4 DEF Forward, Alive, TypeOK
  <2>3. UNCHANGED <<receivers, track, main>>
    BY <2>1 DEF mainVars
  <2>4. \A i \in DOMAIN sink.list : i \in Nat /\ sink.list[i] \in Receiver
    BY <2>2
  <2>5. sink.i > 0 /\ packet > 0
    BY <2>2 DEF Handed
  <2>6. \A i \in DOMAIN sink.list :
           i < sink'.i /\ sink.list[i] \in steady => packet \in received'[sink.list[i]]
    BY <2>1, <2>2, <2>4 DEF Handed
  <2>7. sink'.run = "done" => r \notin steady
    BY <2>1 DEF Open
  <2>8. /\ \A i \in DOMAIN sink.list : Listed(sink.list[i])'
        /\ \A p \in steady : \E i \in DOMAIN sink.list : sink.list[i] = p
    BY <1>0, <2>1, <2>3, <2>4 DEF Handed, ListMayGrow
  <2>9. sink'.run # "idle" /\ sink'.i > 0
    BY <2>1, <2>2, <2>5
  <2>10. sink'.run = "trapped" => sink'.i = sink.i /\ track[r] = "nil"
    BY <2>1
  <2>11. sink'.run = "done" => sink'.i = sink.i
    BY <2>1
  <2> QED
    BY <2>1, <2>2, <2>3, <2>5, <2>6, <2>7, <2>8, <2>9, <2>10, <2>11 DEF Handed
<1>5. CASE Done
  <2>1. /\ sink.run = "forwarding" /\ sink.i > Len(sink.list)
        /\ sink' = [sink EXCEPT !.run = "done"]
        /\ UNCHANGED <<packet, steady, received, receivers>>
    BY <1>5 DEF Done, mainVars
  <2>2. /\ sink'.run = "done" /\ sink'.list = sink.list /\ sink'.i = sink.i
        /\ sink.i \notin DOMAIN sink.list
    BY <2>1 DEF TypeOK
  <2> QED
    BY <2>1, <2>2 DEF Handed, Listed
<1> QED
  BY <1>1, <1>2, <1>3, <1>4, <1>5 DEF Next

THEOREM SfuInvariant == ASSUME MaxPackets \in Nat PROVE Spec => []SfuInv
<1>1. Init => SfuInv
  BY SfuInit
<1>2. SfuInv /\ [Next]_vars => SfuInv'
  <2> SUFFICES ASSUME TypeOK, Made, Open, Handed, [Next]_vars PROVE SfuInv'
    BY DEF SfuInv
  <2> QED
    BY TypeStep, MadeStep, OpenStep, HandedStep DEF SfuInv
<1> QED
  BY <1>1, <1>2, PTL DEF Spec

\* What the example does promise: a packet reaches the receivers of the list up
\* to the first that was not open all the while (`return', SFUMain.swift:43-53).
PrefixGetsIt ==
    sink.run = "done" =>
        \A i \in DOMAIN sink.list :
            (\A j \in 1 .. i : sink.list[j] \in steady) => packet \in received[sink.list[i]]

THEOREM OpenPrefixGetsIt == ASSUME MaxPackets \in Nat PROVE Spec => []PrefixGetsIt
<1>1. SfuInv => PrefixGetsIt
  <2> SUFFICES ASSUME SfuInv, sink.run = "done", NEW i \in DOMAIN sink.list,
                      \A j \in 1 .. i : sink.list[j] \in steady
               PROVE  packet \in received[sink.list[i]]
    BY DEF PrefixGetsIt
  <2>1. /\ sink.i \in Nat /\ sink.i > 0 /\ i \in Nat /\ i > 0
        /\ DOMAIN sink.list = 1 .. Len(sink.list) /\ Len(sink.list) \in Nat
    BY DEF SfuInv, TypeOK, Handed
  <2>2. i < sink.i
    BY <2>1 DEF SfuInv, Handed
  <2>3. sink.list[i] \in steady
    BY <2>1
  <2> QED
    BY <2>2, <2>3 DEF SfuInv, Handed
<1> QED
  BY <1>1, SfuInvariant, PTL

\* `$0.track!' in the sink traps only at the receiver that main has put in the
\* list and is making the track of, which is the newest (SFUMain.swift:75-85).
TrapsOnlyAtNewest ==
    sink.run = "trapped" =>
        /\ main = "create"
        /\ sink.i \in DOMAIN sink.list /\ sink.list[sink.i] = current

THEOREM OnlyNewestTraps == ASSUME MaxPackets \in Nat PROVE Spec => []TrapsOnlyAtNewest
<1>1. SfuInv => TrapsOnlyAtNewest
  <2> SUFFICES ASSUME SfuInv, sink.run = "trapped" PROVE TrapsOnlyAtNewest
    BY DEF TrapsOnlyAtNewest
  <2>1. /\ sink.i \in DOMAIN sink.list /\ track[sink.list[sink.i]] = "nil"
        /\ main # "threw" /\ Listed(sink.list[sink.i])
    BY DEF SfuInv, Handed
  <2>2. main \in {"create", "threw"} /\ sink.list[sink.i] = current
    BY <2>1 DEF SfuInv, Made, Listed
  <2> QED
    BY <2>1, <2>2 DEF TrapsOnlyAtNewest
<1> QED
  BY <1>1, SfuInvariant, PTL
====
