---- MODULE CallbackSlotsProofs ----
(***************************************************************************)
(* Proofs about the slots of a channel, for any number of library threads  *)
(* and errors: the slots' own invariant, that no closure finds its wrapper *)
(* freed, and that a settled wrapper shows what its channel is.            *)
(***************************************************************************)
EXTENDS CallbackSlots, TLAPS

----------------------------------------------------------------------------
\* The slots' inductive invariant: SlotsInv needs to know that a thread of
\* setupCallbacks replays to the slot it is at, that a live wrapper has all
\* the callbacks set so far, and what a deinit has emptied already.

\* setupCallbacks and its replays.
Replaying ==
    /\ At(App) # "idle" => next <= 3 /\ call[App].slot = Order[next]
    /\ ~held => next = 4
    /\ \A t \in Thread : At(t) # "idle" => call[t].value # 0

\* A wrapper that is alive has its callbacks, and they have missed nothing.
Filled ==
    object = "live" =>
        /\ \A i \in 1 .. 3 : i < next => callback[Order[i]]
        /\ \A k \in Slot : callback[k] => stored[k] = 0
        /\ \A t \in Thread : Running(t) => callback[call[t].slot]

\* A deinit runs on a thread that has left its closure, and no thread is in a
\* closure it has emptied the slot of.
Cleared ==
    /\ object # "live" => ~held
    /\ object = "deinit" => At(deleter) \in {"leaving", "idle"}
                            /\ (At(deleter) = "idle" => deleter = App)
    /\ object = "freed" => clearing = 4
    /\ object # "live" => \A i \in 1 .. 3 : i < clearing =>
           /\ ~callback[Order[i]]
           /\ \A t \in Thread : At(t) \in {"entered", "inside"} =>
                                    call[t].slot # Order[i]

SlotsIInv == SlotsInv /\ Replaying /\ Filled /\ Cleared

----------------------------------------------------------------------------
\* What is on its way to the wrapper, as long as the library calls the slots
\* of a channel one at a time.

Latest(v) == v = errors \/ \E u \in Emitters : Pend(u, "error")

OneAtATime ==
    \A t, u \in Emitters : At(t) # "idle" /\ At(u) # "idle" => t = u

OpenNews ==
    /\ life = "new" => ~isOpen /\ ~Pending("open") /\ ~Pending("closed")
    /\ life = "open" => ~Pending("closed") /\ (isOpen \/ Pending("open"))
    /\ life = "closed" /\ (isOpen \/ Pending("open")) => Pending("closed")
    /\ life = "closed" => \A t \in Emitters : ~Pend(t, "open")

ErrorNews ==
    /\ \A t \in Emitters : Pend(t, "error") => call[t].value = errors
    /\ stored["error"] # 0 => Latest(stored["error"])
    /\ Pend(App, "error") => Latest(call[App].value)
    /\ lastError = errors \/ Pending("error")

News ==
    ordered => OneAtATime /\ (object = "live" => OpenNews /\ ErrorNews)

----------------------------------------------------------------------------
\* Types.

LEMMA OrderFacts ==
    /\ Len(Order) = 3
    /\ Order[1] = "open" /\ Order[2] = "closed" /\ Order[3] = "error"
    BY DEF Order

FlagsOK ==
    /\ ordered \in BOOLEAN /\ held \in BOOLEAN /\ isOpen \in BOOLEAN
    /\ callback \in [Slot -> BOOLEAN]

LEMMA SetFlag ==
    ASSUME NEW S, NEW f \in [S -> BOOLEAN], NEW k \in S, NEW b \in BOOLEAN
    PROVE  [f EXCEPT ![k] = b] \in [S -> BOOLEAN]
    BY Zenon

LEMMA OrderIsSlot == \A i \in 1 .. 3 : Order[i] \in Slot
    BY OrderFacts DEF Slot

LEMMA FlagsStep ==
    FlagsOK /\ next \in 1 .. 4 /\ clearing \in 1 .. 4 /\ [Next]_vars => FlagsOK'
<1> SUFFICES ASSUME FlagsOK, next \in 1 .. 4, clearing \in 1 .. 4, [Next]_vars
             PROVE  FlagsOK'
    OBVIOUS
<1> USE DEF FlagsOK, channelVars, slotVars, deleteVars, viewVars
<1>1. CASE \E t \in Emitters : Opens(t) \/ Closes(t) \/ Fails(t)
    BY <1>1, Zenon DEF Opens, Closes, Fails, Emit
<1>2. CASE \E t \in Thread : CallStep(t)
    <2> PICK t \in Thread : CallStep(t)
        BY <1>2
    <2>1. CASE Call(t) \/ Retain(t) \/ Leave(t)
        BY <2>1, Zenon DEF Call, Retain, Leave
    <2>2. CASE Show(t)
        <3>1. isOpen' \in BOOLEAN
            <4>1. CASE call[t].slot = "open"
                BY <4>1, <2>2, Zenon DEF Show
            <4>2. CASE call[t].slot = "closed"
                <5>1. isOpen' = FALSE
                    BY <4>2, <2>2 DEF Show
                <5> QED
                    BY <5>1, Zenon
            <4>3. CASE call[t].slot # "open" /\ call[t].slot # "closed"
                <5>1. isOpen' = isOpen
                    BY <4>3, <2>2 DEF Show
                <5> QED
                    BY <5>1, Zenon
            <4> QED
                BY <4>1, <4>2, <4>3
        <3> QED
            BY <2>2, <3>1, Zenon DEF Show
    <2> QED
        BY <2>1, <2>2 DEF CallStep
<1>3. CASE SetSlot
    <2>1. Order[next] \in Slot
        BY <1>3, OrderFacts, OrderIsSlot DEF SetSlot
    <2> QED
        BY <1>3, <2>1, SetFlag, Zenon DEF SetSlot
<1>4. CASE Drop
    BY <1>4, Zenon DEF Drop
<1>5. CASE ClearSlot
    <2>1. Order[clearing] \in Slot
        BY <1>5, OrderFacts, OrderIsSlot DEF ClearSlot
    <2> QED
        BY <1>5, <2>1, SetFlag, Zenon DEF ClearSlot
<1>6. CASE FinishDeinit \/ UNCHANGED vars
    BY <1>6, Zenon DEF FinishDeinit, vars
<1> QED
    BY <1>1, <1>2, <1>3, <1>4, <1>5, <1>6 DEF Next

LEMMA TypeInit == Init => TypeOK
<1> SUFFICES ASSUME Init PROVE TypeOK
    OBVIOUS
<1>1. FlagsOK
    BY Zenon DEF Init, FlagsOK
<1> QED
    BY <1>1, ErrorsAssumption DEF Init, FlagsOK, TypeOK, Idle, Place, Slot

LEMMA TypeStep == SlotsIInv /\ [Next]_vars => TypeOK'
<1> SUFFICES ASSUME SlotsIInv, [Next]_vars PROVE TypeOK'
    OBVIOUS
<1>f. FlagsOK'
    BY FlagsStep DEF SlotsIInv, SlotsInv, TypeOK, FlagsOK
<1>e. Emitters \subseteq Thread /\ App \in Thread /\ Nobody \notin Thread
    BY ThreadsAssumption DEF Thread
<1> HIDE DEF Thread
<1> USE <1>f, <1>e, ErrorsAssumption, OrderFacts, OrderIsSlot
<1> USE DEF SlotsIInv, SlotsInv, TypeOK, FlagsOK, channelVars, slotVars, deleteVars,
        viewVars, At, Place
<1>1. ASSUME NEW t \in Emitters, Opens(t) \/ Closes(t) \/ Fails(t)
      PROVE  TypeOK'
    BY <1>1 DEF Opens, Closes, Fails, Emit, Slot
<1>2. ASSUME NEW t \in Thread, Call(t)
      PROVE  TypeOK'
    BY <1>2 DEF Call, Idle, Slot
<1>3. ASSUME NEW t \in Thread, Retain(t)
      PROVE  TypeOK'
    BY <1>3 DEF Retain
<1>4. ASSUME NEW t \in Thread, Show(t)
      PROVE  TypeOK'
    <2>1. call' = [call EXCEPT ![t].at = "leaving"]
        BY <1>4 DEF Show
    <2>2. call' \in [Thread -> [at : Place, slot : Slot, value : Nat]]
        BY <2>1
    <2>3. lastError' \in Nat
        <3>1. lastError' = IF call[t].slot = "error" THEN call[t].value
                           ELSE lastError
            BY <1>4 DEF Show
        <3> QED
            BY <3>1
    <2>4. /\ object' \in {"live", "deinit", "freed"}
          /\ deleter' \in Thread \cup {Nobody} /\ clearing' \in 1 .. 4
        BY <1>4 DEF Show, BeginDeinit
    <2>5. UNCHANGED <<ordered, life, errors, callback, stored, owner, next, held>>
        BY <1>4 DEF Show
    <2> QED
        BY <2>2, <2>3, <2>4, <2>5
<1>5. ASSUME NEW t \in Thread, Leave(t)
      PROVE  TypeOK'
    BY <1>5 DEF Leave, Replaying, Idle, Slot
<1>6. CASE SetSlot
    BY <1>6 DEF SetSlot, CanLock
<1>7. CASE Drop
    BY <1>7 DEF Drop, BeginDeinit
<1>8. CASE ClearSlot
    BY <1>8 DEF ClearSlot
<1>9. CASE FinishDeinit
    BY <1>9 DEF FinishDeinit
<1>10. CASE UNCHANGED vars
    BY <1>10 DEF vars
<1> QED
    BY <1>1, <1>2, <1>3, <1>4, <1>5, <1>6, <1>7, <1>8, <1>9, <1>10 DEF Next, CallStep

----------------------------------------------------------------------------
\* The slots.

\* Every slot is one of the three of Order.
LEMMA SlotsOfOrder == \A k \in Slot : \E i \in 1 .. 3 : Order[i] = k
    BY OrderFacts DEF Slot

LEMMA SlotsStep == SlotsIInv /\ [Next]_vars => SlotsIInv'
<1> SUFFICES ASSUME SlotsIInv, [Next]_vars PROVE SlotsIInv'
    OBVIOUS
<1>t. TypeOK /\ TypeOK'
    BY TypeStep DEF SlotsIInv, SlotsInv
<1>e. Emitters \subseteq Thread /\ App \in Thread /\ Nobody \notin Thread
      /\ App \notin Emitters
    BY ThreadsAssumption DEF Thread
<1> DEFINE Rest == (object = "deinit" <=> deleter # Nobody) /\ At(App) # "waiting"
<1> HIDE DEF Thread
<1> USE <1>t, <1>e, OrderFacts
<1> USE DEF TypeOK, channelVars, slotVars, deleteVars, viewVars, At, Running, Slot,
        SlotsIInv, SlotsInv, Locking, InOrder, Replaying, Filled, Cleared
<1>1. ASSUME NEW t \in Emitters, Opens(t) \/ Closes(t) \/ Fails(t)
      PROVE  SlotsIInv'
    <2>1. Locking'
        BY <1>1 DEF Opens, Closes, Fails, Emit
    <2>2. InOrder'
        BY <1>1 DEF Opens, Closes, Fails, Emit
    <2>3. Rest'
        BY <1>1 DEF Opens, Closes, Fails, Emit
    <2>4. Replaying'
        BY <1>1 DEF Opens, Closes, Fails, Emit
    <2>5. Filled'
        BY <1>1 DEF Opens, Closes, Fails, Emit
    <2>6. Cleared'
        <3> HIDE DEF Locking, InOrder, Filled, Replaying, Running
        <3>1. /\ UNCHANGED <<callback, object, held, deleter, clearing>>
              /\ call[t].at = "idle" /\ call'[t].at = "waiting"
              /\ \A u \in Thread \ {t} : call'[u] = call[u]
            BY <1>1 DEF Opens, Closes, Fails, Emit
        <3>2. object = "deinit" => deleter \in Thread /\ deleter # t
            BY <3>1, <1>1
        <3>3. object = "deinit" => call'[deleter] = call[deleter]
            BY <3>1, <3>2
        <3>4. ASSUME NEW u \in Thread, call'[u].at \in {"entered", "inside"}
              PROVE  call'[u] = call[u]
            BY <3>1, <3>4
        <3>5. (object # "live" => ~held)' /\ (object = "freed" => clearing = 4)'
            BY <3>1
        <3>6. (object = "deinit" => At(deleter) \in {"leaving", "idle"}
                                    /\ (At(deleter) = "idle" => deleter = App))'
            BY <3>1, <3>3
        <3>7. (object # "live" => \A i \in 1 .. 3 : i < clearing =>
                 /\ ~callback[Order[i]]
                 /\ \A u \in Thread : At(u) \in {"entered", "inside"} =>
                                          call[u].slot # Order[i])'
            BY <3>1, <3>4
        <3> QED
            BY <3>5, <3>6, <3>7
    <2> HIDE DEF TypeOK, Locking, InOrder, Replaying, Filled, Cleared
    <2> QED
        BY <2>1, <2>2, <2>3, <2>4, <2>5, <2>6
<1>2. ASSUME NEW t \in Thread, Call(t)
      PROVE  SlotsIInv'
    <2>1. Locking'
        <3> HIDE DEF InOrder, Replaying, Filled, Cleared
        <3>1. CASE callback[call[t].slot]
            <4>1. /\ owner' = [owner EXCEPT ![call[t].slot] = t]
                  /\ call'[t].at = "entered" /\ call'[t].slot = call[t].slot
                  /\ \A u \in Thread \ {t} : call'[u] = call[u]
                  /\ call[t].at = "waiting" /\ owner[call[t].slot] \in {Nobody, t}
                BY <1>2, <3>1 DEF Call, CanLock
            <4>2. ASSUME NEW u \in Thread, Running(u)'
                  PROVE  owner'[call'[u].slot] = u
                <5>1. CASE u = t
                    BY <4>1, <4>2, <5>1
                <5>2. CASE u # t
                    <6>1. Running(u) /\ call'[u] = call[u]
                        BY <4>1, <4>2, <5>2
                    <6>2. owner[call[u].slot] = u
                        BY <6>1
                    <6> QED
                        BY <4>1, <5>2, <6>1, <6>2
                <5> QED
                    BY <5>1, <5>2
            <4>3. ASSUME NEW k \in Slot, owner'[k] # Nobody
                  PROVE  Running(owner[k])' /\ call'[owner'[k]].slot = k
                <5>1. CASE k = call[t].slot /\ owner'[k] = t
                    BY <4>1, <5>1
                <5>2. CASE owner'[k] = owner[k]
                    <6>1. Running(owner[k]) /\ call[owner[k]].slot = k
                        BY <4>3, <5>2
                    <6>2. owner[k] # t /\ owner[k] \in Thread
                        BY <4>1, <4>3, <5>2, <6>1
                    <6>3. call'[owner[k]] = call[owner[k]]
                        BY <4>1, <6>2
                    <6> QED
                        BY <5>2, <6>1, <6>3
                <5> QED
                    BY <5>1, <5>2, <4>1
            <4> QED
                BY <4>2, <4>3
        <3>2. CASE ~callback[call[t].slot]
            <4>1. /\ UNCHANGED owner
                  /\ call'[t].at = "idle"
                  /\ \A u \in Thread \ {t} : call'[u] = call[u]
                  /\ call[t].at = "waiting"
                BY <1>2, <3>2 DEF Call, Idle
            <4>2. ASSUME NEW u \in Thread, Running(u)'
                  PROVE  owner'[call'[u].slot] = u
                <5>1. CASE u = t
                    BY <4>1, <4>2, <5>1
                <5>2. CASE u # t
                    <6>1. Running(u) /\ call'[u] = call[u]
                        BY <4>1, <4>2, <5>2
                    <6>2. owner[call[u].slot] = u
                        BY <6>1
                    <6> QED
                        BY <4>1, <5>2, <6>1, <6>2
                <5> QED
                    BY <5>1, <5>2
            <4>3. ASSUME NEW k \in Slot, owner'[k] # Nobody
                  PROVE  Running(owner[k])' /\ call'[owner'[k]].slot = k
                <5>2. CASE owner'[k] = owner[k]
                    <6>1. Running(owner[k]) /\ call[owner[k]].slot = k
                        BY <4>3, <5>2
                    <6>2. owner[k] # t /\ owner[k] \in Thread
                        BY <4>1, <4>3, <5>2, <6>1
                    <6>3. call'[owner[k]] = call[owner[k]]
                        BY <4>1, <6>2
                    <6> QED
                        BY <5>2, <6>1, <6>3
                <5> QED
                    BY <5>2, <4>1
            <4> QED
                BY <4>2, <4>3
        <3> QED
            BY <3>1, <3>2
    <2>2. InOrder'
        <3> HIDE DEF Locking, Replaying, Cleared, Running
        <3>1. CASE callback[call[t].slot]
            <4> HIDE DEF Filled
            <4>1. UNCHANGED <<callback, stored, next, object>>
                  /\ call'[App].slot = call[App].slot
                  /\ (At(App) # "idle" => (At(App) # "idle")')
                BY <1>2, <3>1 DEF Call
            <4> QED
                BY <4>1
        <3>2. CASE ~callback[call[t].slot]
            <4>1. UNCHANGED <<callback, next, object>> /\ t # App
                  /\ stored' = [stored EXCEPT ![call[t].slot] = call[t].value]
                  /\ call'[App] = call[App]
                BY <1>2, <3>2 DEF Call
            <4> QED
                BY <4>1, <3>2
        <3> QED
            BY <3>1, <3>2
    <2>3. Rest'
        BY <1>2 DEF Call, CanLock, Idle
    <2>4. Replaying'
        BY <1>2 DEF Call, CanLock, Idle
    <2>5. Filled'
        BY <1>2 DEF Call, CanLock, Idle
    <2>6. Cleared'
        BY <1>2 DEF Call, CanLock, Idle
    <2> HIDE DEF TypeOK, Locking, InOrder, Replaying, Filled, Cleared
    <2> QED
        BY <2>1, <2>2, <2>3, <2>4, <2>5, <2>6
<1>3. ASSUME NEW t \in Thread, Retain(t)
      PROVE  SlotsIInv'
    <2>1. Locking'
        BY <1>3 DEF Retain
    <2>2. InOrder'
        BY <1>3 DEF Retain
    <2>3. Rest'
        BY <1>3 DEF Retain
    <2>4. Replaying'
        BY <1>3 DEF Retain
    <2>5. Filled'
        BY <1>3 DEF Retain
    <2>6. Cleared'
        BY <1>3 DEF Retain
    <2> HIDE DEF TypeOK, Locking, InOrder, Replaying, Filled, Cleared
    <2> QED
        BY <2>1, <2>2, <2>3, <2>4, <2>5, <2>6
<1>4. ASSUME NEW t \in Thread, Show(t)
      PROVE  SlotsIInv'
    <2>1. Locking'
        BY <1>4 DEF Show, BeginDeinit
    <2>2. InOrder'
        BY <1>4 DEF Show, BeginDeinit
    <2>3. Rest'
        BY <1>4 DEF Show, BeginDeinit
    <2>4. Replaying'
        BY <1>4 DEF Show, BeginDeinit
    <2>5. Filled'
        BY <1>4 DEF Show, BeginDeinit
    <2>6. Cleared'
        BY <1>4 DEF Show, BeginDeinit
    <2> HIDE DEF TypeOK, Locking, InOrder, Replaying, Filled, Cleared
    <2> QED
        BY <2>1, <2>2, <2>3, <2>4, <2>5, <2>6
<1>5. ASSUME NEW t \in Thread, Leave(t)
      PROVE  SlotsIInv'
    <2>1. Locking'
        BY <1>5 DEF Leave, Idle
    <2>2. InOrder'
        BY <1>5 DEF Leave, Idle
    <2>3. Rest'
        BY <1>5 DEF Leave, Idle
    <2>4. Replaying'
        BY <1>5 DEF Leave, Idle
    <2>5. Filled'
        BY <1>5 DEF Leave, Idle
    <2>6. Cleared'
        BY <1>5 DEF Leave, Idle
    <2> HIDE DEF TypeOK, Locking, InOrder, Replaying, Filled, Cleared
    <2> QED
        BY <2>1, <2>2, <2>3, <2>4, <2>5, <2>6
<1>6. CASE SetSlot
    <2>1. Locking'
        BY <1>6 DEF SetSlot, CanLock
    <2>2. InOrder'
        <3> HIDE DEF Locking, Replaying, Filled, Cleared, Running
        <3>0. \A i, j \in 1 .. 3 : i # j => Order[i] # Order[j]
            OBVIOUS
        <3>1. /\ callback' = [callback EXCEPT ![Order[next]] = TRUE]
              /\ stored' = [stored EXCEPT ![Order[next]] = 0]
              /\ UNCHANGED object /\ next \in 1 .. 3 /\ At(App) = "idle"
            BY <1>6 DEF SetSlot
        <3>2. \/ next' = next /\ call'[App].slot = Order[next]
                 /\ call'[App].at = "entered"
              \/ next' = next + 1
            BY <1>6 DEF SetSlot
        <3>3. ASSUME NEW i \in 1 .. 3, i # next
              PROVE  /\ callback'[Order[i]] => callback[Order[i]]
                     /\ stored'[Order[i]] = stored[Order[i]]
            <4>1. Order[i] # Order[next] /\ Order[i] \in Slot
                BY <3>0, <3>1, <3>3, OrderIsSlot
            <4>2. callback'[Order[i]] = callback[Order[i]]
                BY <4>1, <3>1, Zenon
            <4>3. stored'[Order[i]] = stored[Order[i]]
                BY <4>1, <3>1, Zenon
            <4> QED
                BY <4>2, <4>3, Zenon
        <3>4. stored'[Order[next]] = 0
            BY <3>1
        <3>5. ASSUME NEW i \in 1 .. 3, callback'[Order[i]]
              PROVE  i < next' \/ (call'[App].at # "idle" /\ call'[App].slot = Order[i])
            <4>1. CASE i = next
                BY <4>1, <3>1, <3>2
            <4>2. CASE i # next /\ i < next
                BY <4>2, <3>1, <3>2
            <4>3. CASE i > next
                BY <4>3, <3>1, <3>2, <3>3, <3>5
            <4> QED
                BY <4>1, <4>2, <4>3, <3>1
        <3>6. ASSUME NEW i \in 1 .. 3, stored'[Order[i]] # 0
              PROVE  i >= next' \/ object' # "live"
            BY <3>1, <3>2, <3>3, <3>4, <3>6
        <3> QED
            BY <3>5, <3>6
    <2>3. Rest'
        BY <1>6 DEF SetSlot, CanLock
    <2>4. Replaying'
        BY <1>6 DEF SetSlot, CanLock
    <2>5. Filled'
        BY <1>6 DEF SetSlot, CanLock
    <2>6. Cleared'
        BY <1>6 DEF SetSlot, CanLock
    <2> HIDE DEF TypeOK, Locking, InOrder, Replaying, Filled, Cleared
    <2> QED
        BY <2>1, <2>2, <2>3, <2>4, <2>5, <2>6
<1>7. CASE Drop
    <2>1. Locking'
        BY <1>7 DEF Drop, BeginDeinit
    <2>2. InOrder'
        BY <1>7 DEF Drop, BeginDeinit
    <2>3. Rest'
        BY <1>7 DEF Drop, BeginDeinit
    <2>4. Replaying'
        BY <1>7 DEF Drop, BeginDeinit
    <2>5. Filled'
        BY <1>7 DEF Drop, BeginDeinit
    <2>6. Cleared'
        BY <1>7 DEF Drop, BeginDeinit
    <2> HIDE DEF TypeOK, Locking, InOrder, Replaying, Filled, Cleared
    <2> QED
        BY <2>1, <2>2, <2>3, <2>4, <2>5, <2>6
<1>8. CASE ClearSlot
    <2>1. Locking'
        BY <1>8 DEF ClearSlot, CanLock
    <2>2. InOrder'
        BY <1>8 DEF ClearSlot, CanLock
    <2>3. Rest'
        BY <1>8 DEF ClearSlot, CanLock
    <2>4. Replaying'
        BY <1>8 DEF ClearSlot, CanLock
    <2>5. Filled'
        BY <1>8 DEF ClearSlot, CanLock
    <2>6. Cleared'
        BY <1>8 DEF ClearSlot, CanLock
    <2> HIDE DEF TypeOK, Locking, InOrder, Replaying, Filled, Cleared
    <2> QED
        BY <2>1, <2>2, <2>3, <2>4, <2>5, <2>6
<1>9. CASE FinishDeinit
    <2>1. Locking'
        BY <1>9 DEF FinishDeinit
    <2>2. InOrder'
        BY <1>9 DEF FinishDeinit
    <2>3. Rest'
        BY <1>9 DEF FinishDeinit
    <2>4. Replaying'
        BY <1>9 DEF FinishDeinit
    <2>5. Filled'
        BY <1>9 DEF FinishDeinit
    <2>6. Cleared'
        BY <1>9 DEF FinishDeinit
    <2> HIDE DEF TypeOK, Locking, InOrder, Replaying, Filled, Cleared
    <2> QED
        BY <2>1, <2>2, <2>3, <2>4, <2>5, <2>6
<1>10. CASE UNCHANGED vars
    <2>1. Locking'
        BY <1>10 DEF vars
    <2>2. InOrder'
        BY <1>10 DEF vars
    <2>3. Rest'
        BY <1>10 DEF vars
    <2>4. Replaying'
        BY <1>10 DEF vars
    <2>5. Filled'
        BY <1>10 DEF vars
    <2>6. Cleared'
        BY <1>10 DEF vars
    <2> HIDE DEF TypeOK, Locking, InOrder, Replaying, Filled, Cleared
    <2> QED
        BY <2>1, <2>2, <2>3, <2>4, <2>5, <2>6
<1> QED
    BY <1>1, <1>2, <1>3, <1>4, <1>5, <1>6, <1>7, <1>8, <1>9, <1>10 DEF Next, CallStep

LEMMA SlotsInit == Init => SlotsIInv
<1> SUFFICES ASSUME Init PROVE SlotsIInv
    OBVIOUS
<1>1. TypeOK
    BY TypeInit
<1>2. \A t \in Thread : At(t) = "idle"
    BY DEF Init, At, Idle
<1>3. App \in Thread /\ next = 1 /\ object = "live" /\ deleter = Nobody /\ held
    BY DEF Init, Thread
<1>4. \A k \in Slot : ~callback[k] /\ stored[k] = 0 /\ owner[k] = Nobody
    BY DEF Init
<1> QED
    BY <1>1, <1>2, <1>3, <1>4, OrderIsSlot
    DEF SlotsIInv, SlotsInv, Locking, InOrder, Replaying, Filled, Cleared, Running

\* A callback is run by the thread that holds its mutex, no mutex stays
\* locked, and a call is stored only while its callback is not set, for any
\* number of library threads (utils.hpp:77-126).
THEOREM SlotsAreSound == Spec => []SlotsInv
<1>1. SlotsIInv => SlotsInv
    BY DEF SlotsIInv
<1> QED
    BY SlotsInit, SlotsStep, <1>1, PTL DEF Spec

\* No closure of setupCallbacks finds the wrapper it was given freed: deinit
\* empties the slots under their mutexes before the memory goes
\* (AlloDataChannel.swift:284-289, 310-329).
THEOREM WrapperIsThere == Spec => []FreedIsUntouched
<1>1. SlotsIInv => FreedIsUntouched
    <2> SUFFICES ASSUME SlotsIInv, NEW t \in Thread, object = "freed",
                        At(t) \in {"entered", "inside"}
                 PROVE  FALSE
        BY DEF FreedIsUntouched
    <2>1. call[t].slot \in Slot /\ clearing = 4
        BY DEF SlotsIInv, SlotsInv, TypeOK, Cleared
    <2>2. PICK i \in 1 .. 3 : Order[i] = call[t].slot
        BY <2>1, SlotsOfOrder
    <2> QED
        BY <2>1, <2>2 DEF SlotsIInv, Cleared
<1> QED
    BY SlotsInit, SlotsStep, <1>1, PTL DEF Spec

----------------------------------------------------------------------------
\* The truth.

LEMMA NewsInit == Init => News
<1> SUFFICES ASSUME Init PROVE News
    OBVIOUS
<1>1. \A t \in Thread : At(t) = "idle"
    BY DEF Init, At, Idle
<1>2. Emitters \subseteq Thread /\ App \in Thread
    BY DEF Thread
<1>3. life = "new" /\ errors = 0 /\ lastError = 0 /\ isOpen = FALSE
      /\ \A k \in Slot : stored[k] = 0
    BY DEF Init
<1> QED
    BY <1>1, <1>2, <1>3
    DEF News, OneAtATime, OpenNews, ErrorNews, Pending, Pend, Slot

\* A running closure of a live wrapper has its slot to itself.
LEMMA Alone ==
    ASSUME SlotsIInv, object = "live", NEW t \in Thread, At(t) = "inside"
    PROVE  /\ stored[call[t].slot] = 0
           /\ \A u \in Thread : u # t /\ Running(u) => call[u].slot # call[t].slot
<1>1. Running(t) /\ call[t].slot \in Slot
    BY DEF Running, SlotsIInv, SlotsInv, TypeOK
<1>2. callback[call[t].slot] /\ owner[call[t].slot] = t
    BY <1>1 DEF SlotsIInv, SlotsInv, Locking, Filled
<1> QED
    BY <1>1, <1>2 DEF SlotsIInv, SlotsInv, Locking, Filled

\* Once the closed callback runs, the open callback has been replayed.
LEMMA OpenComesFirst ==
    ASSUME SlotsIInv, object = "live", NEW t \in Thread, At(t) = "inside",
           call[t].slot = "closed"
    PROVE  stored["open"] = 0 /\ ~Pend(App, "open")
<1>1. callback["closed"] /\ Running(t)
    BY DEF Running, SlotsIInv, Filled
<1>2. next \in 1 .. 4
    BY DEF SlotsIInv, SlotsInv, TypeOK
<1>3. next > 2 \/ (At(App) # "idle" /\ call[App].slot = "closed")
    BY <1>1, <1>2, OrderFacts DEF SlotsIInv, SlotsInv, InOrder
<1>4. At(App) # "idle" => call[App].slot = Order[next]
    BY DEF SlotsIInv, Replaying
<1>5. next # 1
    BY <1>3, <1>4, OrderFacts
<1>6. stored["open"] = 0
    BY <1>2, <1>5, OrderFacts DEF SlotsIInv, SlotsInv, InOrder
<1>7. ASSUME Pend(App, "open") PROVE FALSE
    <2>1. Order[next] = "open" /\ next \in 1 .. 3
        BY <1>2, <1>4, <1>7 DEF Pend, SlotsIInv, Replaying
    <2> QED
        BY <2>1, <1>5, OrderFacts
<1> QED
    BY <1>6, <1>7

\* Steps that only move news closer leave the invariant as it is.
LEMMA NewsFrame ==
    ASSUME OpenNews, UNCHANGED <<life, isOpen>>,
           Pending("open")' <=> Pending("open"),
           Pending("closed")' <=> Pending("closed"),
           \A t \in Emitters : Pend(t, "open")' => Pend(t, "open")
    PROVE  OpenNews'
    BY DEF OpenNews

LEMMA ErrorFrame ==
    ASSUME ErrorNews, UNCHANGED <<errors, lastError>>,
           Pending("error")' <=> Pending("error"),
           \A t \in Emitters : /\ Pend(t, "error")' <=> Pend(t, "error")
                               /\ Pend(t, "error") => call'[t].value = call[t].value,
           stored'["error"] # 0 => stored'["error"] = stored["error"],
           Pend(App, "error")' =>
               \/ Pend(App, "error") /\ call'[App].value = call[App].value
               \/ stored["error"] # 0 /\ call'[App].value = stored["error"]
    PROVE  ErrorNews'
<1>1. (\E u \in Emitters : Pend(u, "error"))' <=>
         \E u \in Emitters : Pend(u, "error")
    BY DEF Pend, At
<1>2. ASSUME NEW t \in Emitters, Pend(t, "error")'
      PROVE  call'[t].value = errors'
    <2>1. Pend(t, "error") /\ call'[t].value = call[t].value
        BY <1>2
    <2> QED
        BY <2>1 DEF ErrorNews
<1>3. stored'["error"] # 0 => Latest(stored["error"])' /\ Latest(stored["error"])
    BY <1>1 DEF ErrorNews, Latest
<1>4. Pend(App, "error")' => Latest(call[App].value)'
    BY <1>1 DEF ErrorNews, Latest
<1> QED
    BY <1>2, <1>3, <1>4 DEF ErrorNews

LEMMA NewsStep == SlotsIInv /\ News /\ [Next]_vars => News'
<1> SUFFICES ASSUME SlotsIInv, News, [Next]_vars, ordered'
             PROVE  OneAtATime' /\ (object' = "live" => OpenNews' /\ ErrorNews')
    BY DEF News
<1>t. SlotsIInv' /\ TypeOK /\ TypeOK'
    BY SlotsStep DEF SlotsIInv, SlotsInv
<1>e. Emitters \subseteq Thread /\ App \in Thread /\ App \notin Emitters
      /\ \A t \in Thread : t = App \/ t \in Emitters
    BY ThreadsAssumption DEF Thread
<1>o. ordered
    <2>1. CASE Next
        BY <2>1 DEF Next, CallStep, Opens, Closes, Fails, Emit, Call, Retain, Show,
           Leave, SetSlot, Drop, ClearSlot, FinishDeinit, channelVars
    <2>2. CASE UNCHANGED vars
        BY <2>2 DEF vars, channelVars
    <2> QED
        BY <2>1, <2>2
<1>n. OneAtATime /\ (object = "live" => OpenNews /\ ErrorNews)
    BY <1>o DEF News
<1> HIDE DEF Thread
<1> USE <1>t, <1>e, <1>o, <1>n
<1>1. ASSUME NEW t \in Emitters, Opens(t) \/ Closes(t) \/ Fails(t)
      PROVE  OneAtATime' /\ (object' = "live" => OpenNews' /\ ErrorNews')
    <2>1. /\ \A u \in Emitters : At(u) = "idle"
          /\ call'[t].at = "waiting"
          /\ \A u \in Thread \ {t} : call'[u] = call[u]
          /\ UNCHANGED <<object, stored, isOpen, lastError>>
        BY <1>1 DEF Opens, Closes, Fails, Emit, TypeOK, slotVars, deleteVars, viewVars
    <2>2. OneAtATime'
        BY <2>1 DEF OneAtATime, At
    <2>3. \A u \in Thread \ {t}, k \in Slot : Pend(u, k)' <=> Pend(u, k)
        BY <2>1 DEF Pend, At
    <2>4. \A k \in Slot : ~Pend(t, k)
        BY <2>1 DEF Pend
    <2>5. ASSUME object' = "live" PROVE OpenNews'
        BY <1>1, <2>1, <2>3, <2>4, <2>5
        DEF OpenNews, Pending, Pend, At, Opens, Closes, Fails, Emit, Slot, TypeOK
    <2>6. ASSUME object' = "live" PROVE ErrorNews'
        BY <1>1, <2>1, <2>3, <2>4, <2>6
        DEF ErrorNews, Latest, Pending, Pend, At, Opens, Closes, Fails, Emit, Slot, TypeOK
    <2> QED
        BY <2>2, <2>5, <2>6
<1>2. ASSUME NEW t \in Thread, Call(t)
      PROVE  OneAtATime' /\ (object' = "live" => OpenNews' /\ ErrorNews')
    <2>1. /\ UNCHANGED <<life, errors, object, isOpen, lastError>>
          /\ \A u \in Thread \ {t} : call'[u] = call[u]
          /\ At(t) = "waiting" /\ t \in Emitters
        <3>1. At(App) # "waiting"
            BY DEF SlotsIInv, SlotsInv
        <3> QED
            BY <1>2, <3>1 DEF Call, Idle, channelVars, deleteVars, viewVars, TypeOK
    <2>2. OneAtATime'
        BY <2>1 DEF OneAtATime, At
    <2>3. \A u \in Thread \ {t}, k \in Slot : Pend(u, k)' <=> Pend(u, k)
        BY <2>1 DEF Pend, At
    <2>4. CASE callback[call[t].slot]
        <3>1. /\ UNCHANGED stored
              /\ call' = [call EXCEPT ![t].at = "entered"]
            BY <1>2, <2>4 DEF Call
        <3>2. /\ call'[t].at = "entered" /\ call'[t].slot = call[t].slot
              /\ call'[t].value = call[t].value
            BY <3>1 DEF TypeOK
        <3>3. \A k \in Slot : Pend(t, k)' <=> Pend(t, k)
            BY <2>1, <3>2 DEF Pend, At
        <3>4. \A k \in Slot : Pending(k)' <=> Pending(k)
            BY <2>3, <3>1, <3>3 DEF Pending
        <3>5. object' = "live" => OpenNews'
            BY <2>1, <2>3, <3>3, <3>4, NewsFrame DEF Slot
        <3>6. object' = "live" => ErrorNews'
            BY <2>1, <2>3, <3>1, <3>2, <3>3, <3>4, ErrorFrame DEF Slot
        <3> QED
            BY <2>2, <3>5, <3>6
    <2>5. CASE ~callback[call[t].slot]
        <3>1. /\ stored' = [stored EXCEPT ![call[t].slot] = call[t].value]
              /\ call'[t].at = "idle"
            BY <1>2, <2>5 DEF Call, Idle, TypeOK
        <3>2. \A k \in Slot : ~Pend(t, k)'
            BY <3>1 DEF Pend, At
        <3>3. call[t].slot \in Slot /\ call[t].value # 0
            BY <2>1 DEF SlotsIInv, Replaying, TypeOK
        <3>4. Pend(t, call[t].slot) /\ stored'[call[t].slot] = call[t].value
              /\ \A k \in Slot \ {call[t].slot} : stored'[k] = stored[k] /\ ~Pend(t, k)
            BY <2>1, <3>1, <3>3 DEF Pend, TypeOK
        <3>5. \A k \in Slot : Pending(k)' <=> Pending(k)
            BY <2>3, <3>2, <3>3, <3>4 DEF Pending
        <3>6. object' = "live" => OpenNews'
            BY <2>1, <2>3, <3>2, <3>5, NewsFrame DEF Slot
        <3>7. ASSUME object' = "live" PROVE ErrorNews'
            <4>1. CASE call[t].slot = "error"
                <5>1. stored'["error"] = errors
                    BY <2>1, <3>4, <3>7, <4>1 DEF ErrorNews
                <5>2. ~Pend(App, "error")
                    BY <2>1, <2>5, <3>7, <4>1 DEF Pend, SlotsIInv, SlotsInv, Filled, Running
                <5>3. ~Pend(App, "error")'
                    BY <2>1, <2>3, <5>2 DEF Slot
                <5>4. \A u \in Emitters : Pend(u, "error")' =>
                          Pend(u, "error") /\ call'[u].value = call[u].value
                    BY <2>1, <2>3, <3>2 DEF Slot
                <5>5. Latest(errors)'
                    BY <2>1 DEF Latest
                <5>6. Pending("error")' <=> Pending("error")
                    BY <3>5 DEF Slot
                <5>7. \A u \in Emitters : Pend(u, "error")' => call'[u].value = errors'
                    BY <2>1, <3>7, <5>4 DEF ErrorNews
                <5>8. lastError' = errors' \/ Pending("error")'
                    BY <2>1, <3>7, <5>6 DEF ErrorNews
                <5>9. Latest(stored["error"])'
                    BY <2>1, <5>1 DEF Latest
                <5> QED
                    BY <5>3, <5>7, <5>8, <5>9 DEF ErrorNews
            <4>2. CASE call[t].slot # "error"
                <5>1. stored'["error"] = stored["error"] /\ ~Pend(t, "error")
                    BY <3>4, <4>2 DEF Slot
                <5>2. \A u \in Emitters :
                          /\ Pend(u, "error")' <=> Pend(u, "error")
                          /\ Pend(u, "error") => call'[u].value = call[u].value
                    BY <2>1, <2>3, <3>2, <5>1 DEF Slot
                <5>3. call'[App] = call[App] /\ (Pend(App, "error")' <=> Pend(App, "error"))
                    BY <2>1, <2>3 DEF Slot
                <5>4. Pending("error")' <=> Pending("error")
                    BY <3>5 DEF Slot
                <5>5. ErrorNews /\ UNCHANGED <<errors, lastError>>
                    BY <2>1, <3>7
                <5>6. Pend(App, "error")' =>
                          Pend(App, "error") /\ call'[App].value = call[App].value
                    BY <5>3
                <5> HIDE DEF Pend, Pending, ErrorNews
                <5> QED
                    BY <5>1, <5>2, <5>4, <5>5, <5>6, ErrorFrame
            <4> QED
                BY <4>1, <4>2
        <3> QED
            BY <2>2, <3>6, <3>7
    <2> QED
        BY <2>4, <2>5
<1>3. ASSUME NEW t \in Thread, Retain(t) \/ Leave(t)
      PROVE  OneAtATime' /\ (object' = "live" => OpenNews' /\ ErrorNews')
    <2>1. /\ UNCHANGED <<life, errors, object, isOpen, lastError, stored>>
          /\ \A u \in Thread \ {t} : call'[u] = call[u]
          /\ At(t) # "idle"
        BY <1>3 DEF Retain, Leave, TypeOK, channelVars, slotVars, deleteVars,
           viewVars
    <2>2. OneAtATime'
        BY <2>1 DEF OneAtATime, At
    <2>3. \/ /\ At(t) = "entered" /\ call'[t].at = "inside"
             /\ call'[t].slot = call[t].slot /\ call'[t].value = call[t].value
          \/ At(t) = "leaving" /\ call'[t].at = "idle"
        BY <1>3 DEF Retain, Leave, TypeOK, Idle
    <2>4. \A u \in Thread, k \in Slot :
              /\ Pend(u, k)' <=> Pend(u, k)
              /\ Pend(u, k) => call'[u].value = call[u].value
        BY <2>1, <2>3 DEF Pend, At
    <2>5. \A k \in Slot : Pending(k)' <=> Pending(k)
        BY <2>1, <2>4 DEF Pending
    <2>6. object' = "live" => OpenNews'
        BY <2>1, <2>4, <2>5, NewsFrame DEF Slot
    <2>7. object' = "live" => ErrorNews'
        BY <2>1, <2>4, <2>5, ErrorFrame DEF Slot
    <2> QED
        BY <2>2, <2>6, <2>7
<1>4. ASSUME NEW t \in Thread, Show(t)
      PROVE  OneAtATime' /\ (object' = "live" => OpenNews' /\ ErrorNews')
    <2>1. /\ UNCHANGED <<life, errors, stored>>
          /\ \A u \in Thread \ {t} : call'[u] = call[u]
          /\ At(t) = "inside" /\ call'[t].at = "leaving"
          /\ object' = "live" => object = "live"
        BY <1>4 DEF Show, BeginDeinit, TypeOK, channelVars, slotVars
    <2>2. OneAtATime'
        BY <2>1 DEF OneAtATime, At
    <2>3. /\ \A u \in Thread \ {t}, k \in Slot : Pend(u, k)' <=> Pend(u, k)
          /\ \A k \in Slot : ~Pend(t, k)'
        BY <2>1 DEF Pend, At
    <2>4. call[t].slot \in Slot /\ Pend(t, call[t].slot)
          /\ \A k \in Slot \ {call[t].slot} : ~Pend(t, k)
        BY <2>1 DEF Pend, TypeOK
    <2>5. \A k \in Slot \ {call[t].slot} : Pending(k)' <=> Pending(k)
        BY <2>1, <2>3, <2>4 DEF Pending
    <2>6. ASSUME object' = "live" PROVE OpenNews'
        <3>1. CASE call[t].slot = "open"
            <4>1. isOpen'
                BY <1>4, <3>1 DEF Show
            <4>2. Pending("open")
                BY <2>4, <3>1 DEF Pending
            <4>3. Pending("closed")' <=> Pending("closed")
                BY <2>5, <3>1 DEF Slot
            <4>4. \A u \in Emitters : Pend(u, "open")' => Pend(u, "open")
                BY <2>3 DEF Slot
            <4> QED
                BY <2>1, <2>6, <4>1, <4>2, <4>3, <4>4 DEF OpenNews
        <3>2. CASE call[t].slot = "closed"
            <4>1. ~isOpen'
                BY <1>4, <3>2 DEF Show
            <4>2. Pending("closed")
                BY <2>4, <3>2 DEF Pending
            <4>3. life = "closed"
                BY <2>1, <2>6, <4>2 DEF OpenNews, TypeOK
            <4>4. stored["open"] = 0 /\ ~Pend(App, "open")
                BY <2>1, <2>6, <3>2, OpenComesFirst
            <4>5. \A u \in Thread : ~Pend(u, "open")
                BY <2>1, <2>6, <4>3, <4>4 DEF OpenNews
            <4>6. \A u \in Thread : ~Pend(u, "open")'
                BY <2>3, <4>5 DEF Slot
            <4>7. ~Pending("open")'
                BY <2>1, <4>4, <4>6 DEF Pending
            <4> QED
                BY <2>1, <4>1, <4>3, <4>6, <4>7 DEF OpenNews
        <3>3. CASE call[t].slot = "error"
            <4>1. isOpen' = isOpen
                BY <1>4, <3>3 DEF Show
            <4>2. /\ Pending("open")' <=> Pending("open")
                  /\ Pending("closed")' <=> Pending("closed")
                BY <2>5, <3>3 DEF Slot
            <4>3. \A u \in Emitters : Pend(u, "open")' => Pend(u, "open")
                BY <2>3 DEF Slot
            <4> QED
                BY <2>1, <2>6, <4>1, <4>2, <4>3, NewsFrame
        <3> QED
            BY <2>4, <3>1, <3>2, <3>3 DEF Slot
    <2>7. ASSUME object' = "live" PROVE ErrorNews'
        <3>1. CASE call[t].slot # "error"
            <4>1. lastError' = lastError
                BY <1>4, <3>1 DEF Show
            <4>2. ~Pend(t, "error") /\ (Pending("error")' <=> Pending("error"))
                BY <2>4, <2>5, <3>1 DEF Slot
            <4>3. \A u \in Thread : /\ Pend(u, "error")' <=> Pend(u, "error")
                                    /\ Pend(u, "error") => call'[u] = call[u]
                BY <2>1, <2>3, <4>2 DEF Slot
            <4> QED
                BY <2>1, <2>7, <4>1, <4>2, <4>3, ErrorFrame
        <3>2. CASE call[t].slot = "error"
            <4>1. lastError' = call[t].value
                BY <1>4, <3>2 DEF Show
            <4>2. /\ stored["error"] = 0
                  /\ \A u \in Thread : u # t /\ Running(u) => call[u].slot # "error"
                BY <2>1, <2>7, <3>2, Alone
            <4>3. ~Pend(App, "error")'
                <5>1. CASE App = t
                    BY <2>3, <5>1 DEF Slot
                <5>2. CASE App # t
                    BY <2>3, <4>2, <5>2 DEF Slot, Pend, Running, SlotsIInv, SlotsInv
                <5> QED
                    BY <5>1, <5>2
            <4>4. ASSUME NEW u \in Emitters, Pend(u, "error")'
                  PROVE  call'[u].value = errors'
                <5>1. u # t /\ Pend(u, "error")
                    BY <2>3, <4>4 DEF Slot
                <5> QED
                    BY <2>1, <2>7, <5>1 DEF ErrorNews
            <4>5. lastError' = errors' \/ Pending("error")'
                <5>1. CASE call[t].value = errors
                    BY <2>1, <4>1, <5>1
                <5>2. CASE call[t].value # errors
                    <6>1. PICK u \in Emitters : Pend(u, "error") /\ t = App
                        BY <2>1, <2>4, <2>7, <3>2, <5>2 DEF ErrorNews, Latest
                    <6>2. Pend(u, "error")'
                        BY <2>3, <6>1 DEF Slot
                    <6> QED
                        BY <6>2 DEF Pending
                <5> QED
                    BY <5>1, <5>2
            <4> QED
                BY <2>1, <4>2, <4>3, <4>4, <4>5 DEF ErrorNews
        <3> QED
            BY <3>1, <3>2
    <2> QED
        BY <2>2, <2>6, <2>7
<1>5. CASE SetSlot
    <2>1. /\ UNCHANGED <<life, errors, object, isOpen, lastError>>
          /\ \A u \in Emitters : call'[u] = call[u]
          /\ At(App) = "idle" /\ Order[next] \in Slot
        BY <1>5, OrderFacts, OrderIsSlot
        DEF SetSlot, TypeOK, channelVars, deleteVars, viewVars
    <2>2. OneAtATime'
        BY <2>1 DEF OneAtATime, At
    <2>3. \A u \in Emitters, k \in Slot : Pend(u, k)' <=> Pend(u, k)
        BY <2>1 DEF Pend, At
    <2>4. stored'[Order[next]] = 0
          /\ \A k \in Slot \ {Order[next]} : stored'[k] = stored[k]
        BY <1>5, <2>1 DEF SetSlot, TypeOK
    <2>5. \A k \in Slot : ~Pend(App, k)
        BY <2>1 DEF Pend
    <2>6. \/ /\ stored[Order[next]] # 0 /\ call'[App].at = "entered"
             /\ call'[App].slot = Order[next]
             /\ call'[App].value = stored[Order[next]]
          \/ stored[Order[next]] = 0 /\ call'[App] = call[App]
        BY <1>5 DEF SetSlot, TypeOK
    <2>7. \A k \in Slot : Pend(App, k)' <=> k = Order[next] /\ stored[k] # 0
        BY <2>1, <2>6 DEF Pend, At
    <2>8. \A k \in Slot : Pending(k)' <=> Pending(k)
        BY <2>3, <2>4, <2>5, <2>7 DEF Pending
    <2>9. object' = "live" => OpenNews'
        BY <2>1, <2>3, <2>8, NewsFrame DEF Slot
    <2>10. object' = "live" => ErrorNews'
        BY <2>1, <2>3, <2>4, <2>6, <2>7, <2>8, ErrorFrame DEF Slot
    <2> QED
        BY <2>2, <2>9, <2>10
<1>6. CASE Drop \/ ClearSlot \/ FinishDeinit \/ UNCHANGED vars
    <2>1. /\ UNCHANGED <<life, errors, isOpen, lastError, stored, call>>
          /\ object' = "live" => object = "live"
        BY <1>6 DEF Drop, BeginDeinit, ClearSlot, FinishDeinit, vars, channelVars,
           slotVars, deleteVars, viewVars
    <2> QED
        BY <2>1 DEF OneAtATime, OpenNews, ErrorNews, Latest, Pending, Pend, At
<1> QED
    BY <1>1, <1>2, <1>3, <1>4, <1>5, <1>6 DEF Next, CallStep

\* As long as the library calls the slots of a channel one at a time, a
\* settled wrapper shows what its channel is, whatever was missed and replayed
\* (AlloDataChannel.swift:312-324).
THEOREM SettledWrapperIsRight == Spec => []SettledShowsTruth
<1>1. SlotsIInv /\ News => SettledShowsTruth
    <2> SUFFICES ASSUME SlotsIInv, News, ordered, next > Len(Order),
                        object = "live", \A t \in Thread : At(t) = "idle"
                 PROVE  isOpen = (life = "open") /\ lastError = errors
        BY DEF SettledShowsTruth
    <2>1. \A k \in Slot : stored[k] = 0
        BY OrderFacts, SlotsOfOrder DEF SlotsIInv, SlotsInv, InOrder, TypeOK
    <2>2. \A k \in Slot : ~Pending(k)
        BY <2>1 DEF Pending, Pend
    <2>3. isOpen <=> life = "open"
        BY <2>2 DEF News, OpenNews, SlotsIInv, SlotsInv, TypeOK, Slot
    <2>4. isOpen = (life = "open")
        BY <2>3, Zenon DEF SlotsIInv, SlotsInv, TypeOK
    <2>5. lastError = errors
        BY <2>2 DEF News, ErrorNews, Slot
    <2> QED
        BY <2>4, <2>5
<1> QED
    BY SlotsInit, SlotsStep, NewsInit, NewsStep, <1>1, PTL DEF Spec

----------------------------------------------------------------------------
\* The wrapper follows its channel step by step: CallbackSlots implements
\* Follower.

\* What is missed is missed by an empty slot, and closures run from full ones.
Kept ==
    /\ \A k \in Slot : callback[k] => stored[k] = 0
    /\ \A t \in Thread : At(t) \in {"entered", "inside"} => callback[call[t].slot]

LEMMA KeptStep ==
    ASSUME SlotsIInv, Kept, [Next]_vars
    PROVE  Kept'
<1>t. /\ TypeOK /\ \A t \in Thread : call[t].slot \in Slot
      /\ App \in Thread /\ Emitters \subseteq Thread
    BY DEF SlotsIInv, SlotsInv, TypeOK, Thread
<1> HIDE DEF Thread
<1>1. ASSUME NEW t \in Emitters, Opens(t) \/ Closes(t) \/ Fails(t)
      PROVE  Kept'
    <2>1. /\ call'[t].at = "waiting" /\ \A u \in Thread \ {t} : call'[u] = call[u]
          /\ UNCHANGED <<stored, callback>>
        BY <1>1, <1>t DEF Opens, Closes, Fails, Emit, TypeOK, slotVars
    <2> QED
        BY <2>1 DEF Kept, At
<1>2. ASSUME NEW t \in Thread, Call(t)
      PROVE  Kept'
    <2>1. callback' = callback /\ \A u \in Thread \ {t} : call'[u] = call[u]
        BY <1>2, <1>t DEF Call, Idle, TypeOK
    <2>2. CASE callback[call[t].slot]
        <3>1. stored' = stored /\ call'[t].slot = call[t].slot
            BY <1>2, <2>2, <1>t DEF Call, TypeOK
        <3> QED
            BY <2>1, <2>2, <3>1 DEF Kept, At
    <2>3. CASE ~callback[call[t].slot]
        <3>1. /\ stored' = [stored EXCEPT ![call[t].slot] = call[t].value]
              /\ call'[t].at = "idle"
            BY <1>2, <2>3, <1>t DEF Call, Idle, TypeOK
        <3>2. \A k \in Slot : callback[k] => stored'[k] = stored[k]
            BY <2>3, <3>1, <1>t DEF TypeOK
        <3> QED
            BY <2>1, <3>1, <3>2 DEF Kept, At
    <2> QED
        BY <2>2, <2>3
<1>3. ASSUME NEW t \in Thread, Retain(t) \/ Show(t) \/ Leave(t)
      PROVE  Kept'
    <2>1. /\ UNCHANGED <<stored, callback>>
          /\ \A u \in Thread \ {t} : call'[u] = call[u]
          /\ call'[t].at \in {"leaving", "idle"}
             \/ (At(t) = "entered" /\ call'[t].slot = call[t].slot)
        <3>1. CASE Retain(t)
            BY <1>t, <3>1 DEF Retain, TypeOK, slotVars
        <3>2. CASE Show(t)
            <4>1. call' = [call EXCEPT ![t].at = "leaving"]
                  /\ UNCHANGED <<stored, callback>>
                BY <3>2 DEF Show, slotVars
            <4> QED
                BY <1>t, <4>1 DEF TypeOK
        <3>3. CASE Leave(t)
            BY <1>t, <3>3 DEF Leave, Idle, TypeOK
        <3> QED
            BY <1>3, <3>1, <3>2, <3>3
    <2> QED
        BY <2>1 DEF Kept, At
<1>4. CASE SetSlot
    <2>1. Order[next] \in Slot
        BY <1>4, OrderFacts, OrderIsSlot, <1>t DEF SetSlot, TypeOK
    <2>2. /\ callback' = [callback EXCEPT ![Order[next]] = TRUE]
          /\ stored' = [stored EXCEPT ![Order[next]] = 0]
          /\ \A u \in Thread \ {App} : call'[u] = call[u]
          /\ call'[App] = call[App] \/ call'[App].slot = Order[next]
        BY <1>4, <1>t DEF SetSlot, TypeOK
    <2>3. \A k \in Slot : /\ callback'[k] = TRUE \/ callback'[k] = callback[k]
                          /\ callback[k] => callback'[k]
        BY <2>1, <2>2, <1>t DEF TypeOK
    <2>4. \A k \in Slot : callback'[k] => stored'[k] = 0
        BY <2>1, <2>2, <1>t DEF TypeOK, Kept
    <2>5. callback'[Order[next]]
        BY <2>1, <2>2, <1>t DEF TypeOK
    <2>6. \A u \in Thread : call'[u] = call[u] \/ call'[u].slot = Order[next]
        BY <2>2
    <2> QED
        BY <2>3, <2>4, <2>5, <2>6, <1>t DEF Kept, At
<1>5. CASE ClearSlot
    <2>1. Order[clearing] \in Slot /\ deleter \in Thread
        BY <1>5, OrderFacts, OrderIsSlot, <1>t
        DEF ClearSlot, TypeOK, SlotsIInv, SlotsInv
    <2>2. /\ callback' = [callback EXCEPT ![Order[clearing]] = FALSE]
          /\ UNCHANGED <<stored, call>>
        BY <1>5 DEF ClearSlot
    <2>3. owner[Order[clearing]] \in {Nobody, deleter}
          /\ At(deleter) \in {"leaving", "idle"}
        BY <1>5 DEF ClearSlot, CanLock, SlotsIInv, Cleared
    <2>4. \A t \in Thread : At(t) \in {"entered", "inside"} =>
              call[t].slot # Order[clearing]
        BY <2>1, <2>3, ThreadsAssumption DEF SlotsIInv, SlotsInv, Locking, Running, Thread
    <2>5. \A k \in Slot : callback'[k] => callback[k]
        BY <2>1, <2>2, <1>t DEF TypeOK
    <2>6. \A k \in Slot : k # Order[clearing] => callback'[k] = callback[k]
        BY <2>1, <2>2, <1>t DEF TypeOK
    <2> QED
        BY <2>2, <2>4, <2>5, <2>6, <1>t DEF Kept, At
<1>6. CASE Drop \/ FinishDeinit \/ UNCHANGED vars
    BY <1>6 DEF Drop, FinishDeinit, vars, slotVars, Kept, At
<1> QED
    BY <1>1, <1>2, <1>3, <1>4, <1>5, <1>6 DEF Next, CallStep

\* Who has news for a slot, and which: a thread in the call, or, under the
\* name Nobody, the slot that has missed it.
Holder == Thread \cup {Nobody}
Has(x, k) ==
    IF x = Nobody THEN stored[k]
    ELSE IF Pend(x, k) THEN call[x].value ELSE 0

\* The news of the channel's life are each in one place, those the wrapper
\* has not seen; no library thread opens a channel that is closed.
Once(k) == \A x, y \in Holder : Has(x, k) # 0 /\ Has(y, k) # 0 => x = y
StageInv ==
    /\ Once("open") /\ Once("closed")
    /\ \A x \in Holder :
        /\ Has(x, "open") # 0 => life # "new" /\ ~isOpen
        /\ Has(x, "closed") # 0 => life = "closed"
    /\ isOpen => life # "new"
    /\ life = "closed" => \A t \in Emitters : Has(t, "open") = 0

\* Every error on its way is newer than the one shown, and a library thread
\* has a newer one than the slot or the replay.
ErrorInv ==
    /\ lastError <= errors
    /\ \A x \in Holder : Has(x, "error") # 0 =>
           lastError < Has(x, "error") /\ Has(x, "error") <= errors
    /\ \A t \in Emitters, x \in Holder :
           x \notin Emitters /\ Has(t, "error") # 0 /\ Has(x, "error") # 0
               => Has(x, "error") < Has(t, "error")

Following == Kept /\ (ordered => StageInv /\ ErrorInv)

LEMMA HasFacts ==
    ASSUME SlotsIInv
    PROVE  /\ \A x \in Holder, k \in Slot : Has(x, k) \in Nat
           /\ \A k \in Slot : Pending(k) <=> \E x \in Holder : Has(x, k) # 0
           /\ \A t \in Thread, k \in Slot : Has(t, k) # 0 <=> Pend(t, k)
           /\ \A t \in Thread, k \in Slot : Has(t, k) # 0 => Has(t, k) = call[t].value
           /\ \A k \in Slot : Has(Nobody, k) = stored[k]
           /\ Nobody \in Holder /\ Nobody \notin Thread /\ Nobody \notin Emitters
           /\ App \in Thread /\ App \notin Emitters
           /\ Emitters \subseteq Thread /\ Thread \subseteq Holder
           /\ \A x \in Holder : x \in Emitters \/ x = App \/ x = Nobody
<1>1. /\ Nobody \in Holder /\ Nobody \notin Thread /\ Nobody \notin Emitters
      /\ App \in Thread /\ App \notin Emitters
      /\ Emitters \subseteq Thread /\ Thread \subseteq Holder
      /\ \A x \in Holder : x \in Thread \/ x = Nobody
      /\ \A x \in Holder : x \in Emitters \/ x = App \/ x = Nobody
    BY ThreadsAssumption DEF Holder, Thread
<1>2. \A t \in Thread : call[t].value \in Nat
    BY DEF SlotsIInv, SlotsInv, TypeOK
<1>3. \A t \in Thread, k \in Slot : Pend(t, k) => call[t].value # 0
    BY DEF SlotsIInv, Replaying, Pend
<1>4. \A t \in Thread, k \in Slot :
          Has(t, k) = IF Pend(t, k) THEN call[t].value ELSE 0
    BY <1>1 DEF Has
<1>5. \A k \in Slot : Has(Nobody, k) = stored[k] /\ stored[k] \in Nat
    BY DEF Has, SlotsIInv, SlotsInv, TypeOK
<1> HIDE DEF Has, Holder, Thread, Pend
<1>6. \A k \in Slot : Pending(k) <=> \E x \in Holder : Has(x, k) # 0
    BY <1>1, <1>3, <1>4, <1>5 DEF Pending
<1>7. \A x \in Holder, k \in Slot : Has(x, k) \in Nat
    BY <1>1, <1>2, <1>4, <1>5
<1> QED
    BY <1>1, <1>3, <1>4, <1>5, <1>6, <1>7

\* News arises at a library thread, is passed from it to the slot or from the
\* slot to the replay, and ends in being shown.

Arises(t, k, v) ==
    /\ \A u \in Emitters, j \in Slot : Has(u, j) = 0
    /\ \A x \in Holder, j \in Slot :
           Has(x, j)' = IF x = t /\ j = k THEN v ELSE Has(x, j)

Passes(x, y, k) ==
    /\ (x \in Emitters /\ y = Nobody) \/ (x = Nobody /\ y = App)
    /\ Has(x, k) # 0
    /\ \A z \in Holder :
           Has(z, k)' = IF z = y THEN Has(x, k) ELSE IF z = x THEN 0 ELSE Has(z, k)
Moves(k) ==
    \/ \A x \in Holder : Has(x, k)' = Has(x, k)
    \/ \E x, y \in Holder : Passes(x, y, k)

IsShown(t, k) ==
    /\ Has(t, k) # 0
    /\ \A x \in Holder, j \in Slot :
           Has(x, j)' = IF x = t THEN 0 ELSE Has(x, j)
    /\ \A j \in Slot : j # k => Has(t, j) = 0
    /\ \A x \in Holder : x # t /\ Has(x, k) # 0 => t = App /\ x \in Emitters

LEMMA NewsArises ==
    ASSUME SlotsIInv, ordered, NEW t \in Emitters, NEW k \in Slot,
           NEW v \in Nat, v # 0, Emit(t, k, v)
    PROVE  Arises(t, k, v)
<1>f. /\ TypeOK /\ SlotsIInv /\ Nobody \notin Thread /\ Emitters \subseteq Thread
      /\ \A x \in Holder : x \in Thread \/ x = Nobody
      /\ \A u \in Thread, j \in Slot : Has(u, j) # 0 <=> Pend(u, j)
      /\ \A x \in Holder, j \in Slot : Has(x, j) \in Nat
    BY HasFacts DEF SlotsIInv, SlotsInv, Holder
<1> HIDE DEF Thread, Holder
<1>1. /\ \A u \in Emitters : At(u) = "idle"
      /\ \A u \in Thread \ {t} : call'[u] = call[u]
      /\ call'[t] = [at |-> "waiting", slot |-> k, value |-> v]
      /\ stored' = stored
    BY <1>f DEF Emit, TypeOK, slotVars
<1>2. \A u \in Emitters, j \in Slot : Has(u, j) = 0
    BY <1>1, <1>f DEF Pend
<1>3. \A u \in Thread, j \in Slot :
          u # t => Has(u, j)' = Has(u, j)
    BY <1>1, <1>f DEF Has, Pend, At
<1>4. \A j \in Slot : Has(Nobody, j)' = Has(Nobody, j)
    BY <1>1 DEF Has
<1>5. \A j \in Slot : Has(t, j)' = IF j = k THEN v ELSE 0
    BY <1>1, <1>f DEF Has, Pend, At
<1> QED
    BY <1>2, <1>3, <1>4, <1>5, <1>f DEF Arises

LEMMA NewsIsShown ==
    ASSUME SlotsIInv, Kept, ordered, OneAtATime, NEW t \in Thread, Show(t)
    PROVE  IsShown(t, call[t].slot)
<1> DEFINE k == call[t].slot
<1>f. /\ TypeOK /\ Nobody \notin Thread /\ Emitters \subseteq Thread
      /\ \A x \in Holder : x \in Thread \/ x = Nobody
      /\ \A u \in Thread : u \in Emitters \/ u = App
      /\ \A u \in Thread, j \in Slot : Has(u, j) # 0 <=> Pend(u, j)
      /\ \A j \in Slot : Has(Nobody, j) = stored[j]
      /\ \A x \in Holder, j \in Slot : Has(x, j) \in Nat
    BY HasFacts DEF SlotsIInv, SlotsInv, Holder, Thread
<1> HIDE DEF Thread, Holder
<1>1. At(t) = "inside" /\ k \in Slot /\ stored' = stored
      /\ call' = [call EXCEPT ![t].at = "leaving"]
    BY <1>f DEF Show, slotVars, TypeOK
<1>2. call'[t].at = "leaving" /\ \A u \in Thread \ {t} : call'[u] = call[u]
    BY <1>1, <1>f DEF TypeOK
<1>3. Has(t, k) # 0 /\ \A j \in Slot : j # k => Has(t, j) = 0
    BY <1>1, <1>f DEF Pend
<1>4. \A u \in Thread, j \in Slot : u # t => Has(u, j)' = Has(u, j)
    BY <1>2, <1>f DEF Has, Pend, At
<1>5. \A j \in Slot : Has(Nobody, j)' = Has(Nobody, j)
    BY <1>1 DEF Has
<1>6. \A j \in Slot : Has(t, j)' = 0
    BY <1>2, <1>f DEF Has, Pend, At
<1>7. callback[k] /\ stored[k] = 0 /\ owner[k] = t
    BY <1>1 DEF Kept, SlotsIInv, SlotsInv, Locking, Running
<1>8. ASSUME NEW u \in Thread, u # t, Has(u, k) # 0
      PROVE  t = App /\ u \in Emitters
    <2>1. Pend(u, k)
        BY <1>1, <1>8, <1>f
    <2>2. At(u) = "waiting" /\ u \in Emitters
        BY <1>7, <1>8, <1>f, <2>1 DEF Pend, Running, SlotsIInv, SlotsInv, Locking
    <2>3. t \notin Emitters
        BY <1>1, <1>8, <2>2 DEF OneAtATime
    <2> QED
        BY <2>2, <2>3, <1>f
<1>9. \A x \in Holder : x # t /\ Has(x, k) # 0 => t = App /\ x \in Emitters
    BY <1>1, <1>7, <1>8, <1>f
<1>10. \A x \in Holder, j \in Slot :
           Has(x, j)' = IF x = t THEN 0 ELSE Has(x, j)
    BY <1>4, <1>5, <1>6, <1>f
<1> QED
    BY <1>3, <1>9, <1>10 DEF IsShown

LEMMA NewsMoves ==
    ASSUME SlotsIInv,
           \/ \E t \in Thread : Call(t) \/ Retain(t) \/ Leave(t)
           \/ SetSlot \/ Drop \/ ClearSlot \/ FinishDeinit \/ UNCHANGED vars,
           NEW k \in Slot
    PROVE  Moves(k)
<1>f. /\ TypeOK /\ Nobody \notin Thread /\ Emitters \subseteq Thread
      /\ Nobody \in Holder /\ App \in Thread /\ Thread \subseteq Holder
      /\ \A x \in Holder : x \in Thread \/ x = Nobody
      /\ \A u \in Thread : u \in Emitters \/ u = App
      /\ \A u \in Thread, j \in Slot : Has(u, j) # 0 <=> Pend(u, j)
      /\ \A u \in Thread, j \in Slot : Has(u, j) # 0 => Has(u, j) = call[u].value
      /\ \A j \in Slot : Has(Nobody, j) = stored[j]
    BY HasFacts DEF SlotsIInv, SlotsInv, Holder, Thread
<1> HIDE DEF Thread, Holder
<1>1. ASSUME NEW t \in Thread, Retain(t) \/ Leave(t)
      PROVE  Moves(k)
    <2>1. /\ stored' = stored /\ \A u \in Thread \ {t} : call'[u] = call[u]
          /\ \/ /\ At(t) = "entered" /\ call'[t].at = "inside"
                /\ call'[t].slot = call[t].slot /\ call'[t].value = call[t].value
             \/ At(t) = "leaving" /\ call'[t].at = "idle"
        BY <1>1, <1>f DEF Retain, Leave, Idle, TypeOK, slotVars
    <2>2. \A u \in Thread : Has(u, k)' = Has(u, k)
        BY <2>1, <1>f DEF Has, Pend, At
    <2>3. Has(Nobody, k)' = Has(Nobody, k)
        BY <2>1 DEF Has
    <2> QED
        BY <2>2, <2>3, <1>f DEF Moves
<1>2. CASE Drop \/ ClearSlot \/ FinishDeinit \/ UNCHANGED vars
    <2>1. stored' = stored /\ call' = call
        BY <1>2 DEF Drop, ClearSlot, FinishDeinit, vars, slotVars
    <2>2. \A x \in Holder : Has(x, k)' = Has(x, k)
        BY <2>1 DEF Has, Pend, At
    <2> QED
        BY <2>2 DEF Moves
<1>3. ASSUME NEW t \in Thread, Call(t)
      PROVE  Moves(k)
    <2> DEFINE s == call[t].slot
    <2>1. At(t) = "waiting" /\ s \in Slot /\ t \in Emitters
        BY <1>3, <1>f DEF Call, TypeOK, SlotsIInv, SlotsInv
    <2>2. \A u \in Thread \ {t} : call'[u] = call[u]
        BY <1>3, <1>f DEF Call, Idle, TypeOK
    <2>3. \A u \in Thread : u # t => Has(u, k)' = Has(u, k)
        BY <2>2, <1>f DEF Has, Pend, At
    <2>4. CASE callback[s]
        <3>1. /\ stored' = stored /\ call'[t].at = "entered"
              /\ call'[t].slot = call[t].slot /\ call'[t].value = call[t].value
            BY <1>3, <2>4, <1>f DEF Call, TypeOK
        <3>2. Has(t, k)' = Has(t, k)
            BY <2>1, <3>1, <1>f DEF Has, Pend, At
        <3>3. Has(Nobody, k)' = Has(Nobody, k)
            BY <3>1 DEF Has
        <3> QED
            BY <2>3, <3>2, <3>3, <1>f DEF Moves
    <2>5. CASE ~callback[s]
        <3>1. /\ stored' = [stored EXCEPT ![s] = call[t].value]
              /\ call'[t].at = "idle"
            BY <1>3, <2>5, <1>f DEF Call, Idle, TypeOK
        <3>2. Has(t, k)' = 0
            BY <3>1, <1>f DEF Has, Pend, At
        <3>3. Has(Nobody, k)' = IF k = s THEN call[t].value ELSE Has(Nobody, k)
            BY <2>1, <3>1, <1>f DEF Has, TypeOK
        <3>4. CASE k # s
            <4>1. Has(t, k) = 0
                BY <3>4, <1>f DEF Pend
            <4> QED
                BY <2>3, <3>2, <3>3, <3>4, <4>1, <1>f DEF Moves
        <3>5. CASE k = s
            <4>1. Has(t, k) # 0 /\ Has(t, k) = call[t].value
                BY <2>1, <3>5, <1>f DEF Pend
            <4>2. Passes(t, Nobody, k)
                BY <2>1, <2>3, <3>2, <3>3, <3>5, <4>1, <1>f DEF Passes
            <4> QED
                BY <4>2, <1>f DEF Moves
        <3> QED
            BY <3>4, <3>5
    <2> QED
        BY <2>4, <2>5
<1>4. CASE SetSlot
    <2> DEFINE s == Order[next]
    <2>1. At(App) = "idle" /\ s \in Slot /\ \A u \in Thread \ {App} : call'[u] = call[u]
        BY <1>4, OrderFacts, OrderIsSlot, <1>f DEF SetSlot, TypeOK
    <2>2. stored' = [stored EXCEPT ![s] = 0]
        BY <1>4 DEF SetSlot
    <2>3. \A u \in Thread : u # App => Has(u, k)' = Has(u, k)
        BY <2>1, <1>f DEF Has, Pend, At
    <2>4. Has(Nobody, k)' = IF k = s THEN 0 ELSE Has(Nobody, k)
        BY <2>1, <2>2, <1>f DEF Has, TypeOK
    <2>5. Has(App, k) = 0
        BY <2>1, <1>f DEF Pend
    <2>6. CASE stored[s] = 0
        <3>1. call' = call
            BY <1>4, <2>6 DEF SetSlot
        <3>2. Has(App, k)' = Has(App, k)
            BY <3>1, <1>f DEF Has, Pend, At
        <3> QED
            BY <2>3, <2>4, <2>6, <3>2, <1>f DEF Moves
    <2>7. CASE stored[s] # 0
        <3>1. call'[App] = [at |-> "entered", slot |-> s, value |-> stored[s]]
            BY <1>4, <2>7, <1>f DEF SetSlot, TypeOK
        <3>2. Has(App, k)' = IF k = s THEN stored[s] ELSE 0
            BY <3>1, <1>f DEF Has, Pend, At
        <3>3. CASE k # s
            BY <2>3, <2>4, <2>5, <3>2, <3>3, <1>f DEF Moves
        <3>4. CASE k = s
            <4>1. Passes(Nobody, App, k)
                BY <2>3, <2>4, <2>7, <3>2, <3>4, <1>f DEF Passes
            <4> QED
                BY <4>1, <1>f DEF Moves
        <3> QED
            BY <3>3, <3>4
    <2> QED
        BY <2>6, <2>7
<1> QED
    BY <1>1, <1>2, <1>3, <1>4

\* What each of these does to the invariant and to what is shown.

Shows == <<life, errors, isOpen, lastError>>
Follows ==
    /\ StageInv' /\ ErrorInv'
    /\ [StageFollows!Next]_(StageFollows!vars)
    /\ [ErrorFollows!Next]_(ErrorFollows!vars)

LEMMA StageNumbers ==
    ASSUME life \in {"new", "open", "closed"}
    PROVE  /\ Stage = IF life = "new" THEN 0 ELSE IF life = "open" THEN 1 ELSE 2
           /\ Stage \in Nat
    BY DEF Stage

Carried == \A k \in Slot : Pending(k) <=> \E x \in Holder : Has(x, k) # 0
LEMMA PendingIsCarried == SlotsIInv => Carried
    BY HasFacts DEF Carried

LEMMA FollowsMoves ==
    ASSUME SlotsIInv, SlotsIInv', OneAtATime, StageInv, ErrorInv, ordered, ordered' = ordered,
           \A k \in Slot : Moves(k), UNCHANGED Shows
    PROVE  Follows
<1>f. /\ Nobody \in Holder /\ App \in Holder /\ Emitters \subseteq Holder
      /\ Nobody \notin Emitters /\ App \notin Emitters /\ App # Nobody
      /\ \A x \in Holder : x \in Emitters \/ x = App \/ x = Nobody
      /\ \A x \in Holder, k \in Slot : Has(x, k) \in Nat
      /\ "open" \in Slot /\ "closed" \in Slot /\ "error" \in Slot
    BY HasFacts DEF Slot
<1>p. /\ \A k \in Slot : Pending(k) <=> \E x \in Holder : Has(x, k) # 0
      /\ \A k \in Slot : Pending(k)' <=> \E x \in Holder : Has(x, k)' # 0
    <2>1. \A k \in Slot : Pending(k) <=> \E x \in Holder : Has(x, k) # 0
        BY HasFacts
    <2>2. SlotsIInv' => Carried'
        BY PendingIsCarried, PTL
    <2> QED
        BY <2>1, <2>2 DEF Carried
<1>o. \A t, u \in Emitters, k \in Slot :
          Has(t, k) # 0 /\ Has(u, k) # 0 => t = u
    BY HasFacts DEF OneAtATime, Pend
<1> HIDE DEF Has, Holder, Pending
<1>1. life' = life /\ errors' = errors /\ isOpen' = isOpen /\ lastError' = lastError
    BY DEF Shows
<1>2. ASSUME NEW k \in Slot, Once(k)
      PROVE  /\ Once(k)'
             /\ \A x \in Holder : Has(x, k)' # 0 => \E y \in Holder : Has(y, k) # 0
             /\ \A x \in Emitters : Has(x, k)' # 0 => Has(x, k) # 0
             /\ Pending(k)' <=> Pending(k)
    BY <1>2, <1>f, <1>p DEF Once, Moves, Passes
<1>3. StageInv'
    BY <1>1, <1>2, <1>f DEF StageInv
<1>4. ErrorInv'
    <2>1. Moves("error")
        BY <1>f
    <2>2. CASE \A x \in Holder : Has(x, "error")' = Has(x, "error")
        BY <1>1, <1>f, <2>2 DEF ErrorInv
    <2>3. ASSUME NEW x \in Holder, NEW y \in Holder, Passes(x, y, "error")
          PROVE  ErrorInv'
        <3>1. ASSUME NEW z \in Holder
              PROVE  Has(z, "error")' # 0 => /\ lastError' < Has(z, "error")'
                                             /\ Has(z, "error")' <= errors'
            BY <1>1, <2>3, <3>1 DEF ErrorInv, Passes
        <3>2. ASSUME NEW t \in Emitters, NEW z \in Holder, z \notin Emitters,
                     Has(t, "error")' # 0, Has(z, "error")' # 0
              PROVE  Has(z, "error")' < Has(t, "error")'
            <4>1. y \notin Emitters /\ t # x /\ t # y /\ t \in Holder
                BY <1>f, <2>3, <3>2 DEF Passes
            <4>2. Has(t, "error")' = Has(t, "error")
                BY <2>3, <4>1 DEF Passes
            <4>3. CASE z = y
                <5>1. Has(z, "error")' = Has(x, "error") /\ Has(x, "error") # 0
                    BY <2>3, <4>3 DEF Passes
                <5> QED
                    BY <1>f, <1>o, <2>3, <3>2, <4>1, <4>2, <5>1 DEF ErrorInv, Passes
            <4>4. CASE z # y
                <5>1. Has(z, "error")' = Has(z, "error")
                    BY <2>3, <3>2, <4>4 DEF Passes
                <5> QED
                    BY <3>2, <4>2, <5>1 DEF ErrorInv
            <4> QED
                BY <4>3, <4>4
        <3> QED
            BY <1>1, <3>1, <3>2 DEF ErrorInv
    <2> QED
        BY <2>1, <2>2, <2>3 DEF Moves
<1>5. StageShown' = StageShown /\ Stage' = Stage
    BY <1>1, <1>2, <1>f DEF StageInv, StageShown, Stage
<1>6. UNCHANGED StageFollows!vars /\ UNCHANGED ErrorFollows!vars
    BY <1>1, <1>5 DEF StageFollows!vars, ErrorFollows!vars, If
<1> QED
    BY <1>3, <1>4, <1>6 DEF Follows

LEMMA FollowsArises ==
    ASSUME SlotsIInv, SlotsIInv', StageInv, ErrorInv, ordered, ordered' = ordered,
           UNCHANGED <<isOpen, lastError>>, NEW t \in Emitters,
           \/ /\ life = "new" /\ life' = "open" /\ errors' = errors
              /\ Arises(t, "open", 1)
           \/ /\ life # "closed" /\ life' = "closed" /\ errors' = errors
              /\ Arises(t, "closed", 1)
           \/ /\ life' = life /\ errors' = errors + 1
              /\ Arises(t, "error", errors + 1)
    PROVE  Follows
<1>f. /\ t \in Holder /\ Emitters \subseteq Holder
      /\ \A x \in Holder, k \in Slot : Has(x, k) \in Nat
      /\ "open" \in Slot /\ "closed" \in Slot /\ "error" \in Slot
      /\ errors \in Nat /\ errors' \in Nat /\ lastError \in Nat
      /\ life \in {"new", "open", "closed"} /\ life' \in {"new", "open", "closed"}
    BY HasFacts DEF Slot, SlotsIInv, SlotsInv, TypeOK
<1>p. /\ \A k \in Slot : Pending(k) <=> \E x \in Holder : Has(x, k) # 0
      /\ \A k \in Slot : Pending(k)' <=> \E x \in Holder : Has(x, k)' # 0
    <2>1. \A k \in Slot : Pending(k) <=> \E x \in Holder : Has(x, k) # 0
        BY HasFacts
    <2>2. SlotsIInv' => Carried'
        BY PendingIsCarried, PTL
    <2> QED
        BY <2>1, <2>2 DEF Carried
<1>s. /\ Stage = IF life = "new" THEN 0 ELSE IF life = "open" THEN 1 ELSE 2
      /\ Stage' = IF life' = "new" THEN 0 ELSE IF life' = "open" THEN 1 ELSE 2
    BY <1>f DEF Stage
<1> HIDE DEF Has, Holder, Pending, Stage
<1>1. CASE life = "new" /\ life' = "open" /\ errors' = errors
           /\ Arises(t, "open", 1)
    <2>1. /\ \A x \in Holder, k \in Slot :
                 k # "open" => Has(x, k)' = Has(x, k)
          /\ \A x \in Holder : Has(x, "open") = 0
          /\ \A x \in Holder : Has(x, "open")' = IF x = t THEN 1 ELSE 0
          /\ \A x \in Holder : Has(x, "closed") = 0
        BY <1>1, <1>f DEF Arises, StageInv
    <2>2. Once("open")' /\ Once("closed")'
        BY <2>1, <1>f DEF Once
    <2>3. StageInv'
        BY <1>1, <1>f, <2>1, <2>2 DEF StageInv
    <2>4. ErrorInv'
        BY <1>1, <1>f, <2>1 DEF ErrorInv
    <2>5. ~isOpen /\ StageShown = 0 /\ StageShown' = 0
        BY <1>1 DEF StageInv, StageShown
    <2>6. Stage = 0 /\ Stage' = 1
        BY <1>1, <1>s
    <2>7. StageFollows!Happen
        BY <2>5, <2>6 DEF StageFollows!Happen, If
    <2>8. UNCHANGED ErrorFollows!vars
        BY <1>1 DEF ErrorFollows!vars, If
    <2> QED
        BY <2>3, <2>4, <2>7, <2>8 DEF Follows, StageFollows!Next
<1>2. CASE life # "closed" /\ life' = "closed" /\ errors' = errors
           /\ Arises(t, "closed", 1)
    <2>1. /\ \A x \in Holder, k \in Slot :
                 k # "closed" => Has(x, k)' = Has(x, k)
          /\ \A x \in Holder : Has(x, "closed") = 0
          /\ \A x \in Holder : Has(x, "closed")' = IF x = t THEN 1 ELSE 0
          /\ \A u \in Emitters : Has(u, "open") = 0
        BY <1>2, <1>f DEF Arises, StageInv
    <2>2. Once("open")' /\ Once("closed")'
        BY <2>1, <1>f DEF Once, StageInv
    <2>3. StageInv'
        BY <1>2, <1>f, <2>1, <2>2 DEF StageInv
    <2>4. ErrorInv'
        BY <1>2, <1>f, <2>1 DEF ErrorInv
    <2>5. Pending("closed")'
        BY <1>f, <1>p, <2>1
    <2>6. /\ StageShown = IF isOpen THEN 1 ELSE 0
          /\ StageShown' = StageShown
        BY <1>2, <2>5 DEF StageShown
    <2>7. Stage \in {0, 1} /\ Stage' = 2
        BY <1>2, <1>f, <1>s
    <2>8. StageFollows!Happen
        BY <2>6, <2>7 DEF StageFollows!Happen, If
    <2>9. UNCHANGED ErrorFollows!vars
        BY <1>2 DEF ErrorFollows!vars, If
    <2> QED
        BY <2>3, <2>4, <2>8, <2>9 DEF Follows, StageFollows!Next
<1>3. CASE life' = life /\ errors' = errors + 1 /\ Arises(t, "error", errors + 1)
    <2>1. /\ \A x \in Holder, k \in Slot :
                 k # "error" => Has(x, k)' = Has(x, k)
          /\ \A u \in Emitters : Has(u, "error") = 0
          /\ \A x \in Holder :
                 Has(x, "error")' = IF x = t THEN errors + 1 ELSE Has(x, "error")
        BY <1>3, <1>f DEF Arises
    <2>2. Once("open")' /\ Once("closed")'
        BY <2>1, <1>f DEF Once, StageInv
    <2>3. StageInv'
        BY <1>3, <1>f, <2>1, <2>2 DEF StageInv
    <2>4. ErrorInv'
        BY <1>3, <1>f, <2>1 DEF ErrorInv
    <2>5. Pending("closed")' <=> Pending("closed")
        BY <1>f, <1>p, <2>1
    <2>6. StageShown' = StageShown
        BY <1>3, <2>5 DEF StageShown
    <2>7. Stage' = Stage
        BY <1>3, <1>s
    <2>8. UNCHANGED StageFollows!vars
        BY <2>6, <2>7 DEF StageFollows!vars, If
    <2>9. ErrorFollows!Happen
        BY <1>3, <1>f DEF ErrorFollows!Happen, If
    <2> QED
        BY <2>3, <2>4, <2>8, <2>9 DEF Follows, ErrorFollows!Next
<1> QED
    BY <1>1, <1>2, <1>3

LEMMA FollowsShow ==
    ASSUME SlotsIInv, SlotsIInv', StageInv, ErrorInv, ordered, ordered' = ordered,
           object = "live" => OpenNews, NEW t \in Thread, Show(t),
           IsShown(t, call[t].slot)
    PROVE  Follows
<1> DEFINE k == call[t].slot
<1>f. /\ t \in Holder /\ Emitters \subseteq Holder /\ App \notin Emitters
      /\ \A x \in Emitters : x \in Thread
      /\ t \in Emitters \/ t = App
      /\ \A x \in Holder, j \in Slot : Has(x, j) \in Nat
      /\ Slot = {"open", "closed", "error"} /\ k \in Slot
      /\ errors \in Nat /\ lastError \in Nat
      /\ life \in {"new", "open", "closed"}
    BY HasFacts DEF Slot, SlotsIInv, SlotsInv, TypeOK
<1>p. /\ \A j \in Slot : Pending(j) <=> \E x \in Holder : Has(x, j) # 0
      /\ \A j \in Slot : Pending(j)' <=> \E x \in Holder : Has(x, j)' # 0
    <2>1. \A j \in Slot : Pending(j) <=> \E x \in Holder : Has(x, j) # 0
        BY HasFacts
    <2>2. SlotsIInv' => Carried'
        BY PendingIsCarried, PTL
    <2> QED
        BY <2>1, <2>2 DEF Carried
<1>s. Stage = IF life = "new" THEN 0 ELSE IF life = "open" THEN 1 ELSE 2
    BY <1>f DEF Stage
<1>1. /\ life' = life /\ errors' = errors
      /\ k = "open" => isOpen' = TRUE /\ lastError' = lastError
      /\ k = "closed" => isOpen' = FALSE /\ lastError' = lastError
      /\ k = "error" => isOpen' = isOpen /\ lastError' = call[t].value
    BY DEF Show, channelVars
<1>2. Has(t, k) = call[t].value /\ Has(t, k) # 0
    BY <1>f, HasFacts DEF IsShown
<1>live. ASSUME k = "open" PROVE t = App => object = "live"
    <2>1. t = App => next \in 1 .. 3
        BY DEF Show, SlotsIInv, SlotsInv, TypeOK, Replaying
    <2> QED
        BY <2>1 DEF SlotsIInv, Replaying, Cleared
<1>3. /\ \A x \in Holder, j \in Slot : Has(x, j)' = IF x = t THEN 0 ELSE Has(x, j)
      /\ \A j \in Slot : j # k => Has(t, j) = 0
      /\ \A x \in Holder : x # t /\ Has(x, k) # 0 => t = App /\ x \in Emitters
    BY DEF IsShown
<1>4. \A j \in Slot : j # k => (Pending(j)' <=> Pending(j))
    BY <1>3, <1>f, <1>p
<1>5. Stage' = Stage
    BY <1>1 DEF Stage
<1> HIDE DEF Has, Holder, Pending, Stage, k
<1>6. Once("open")' /\ Once("closed")'
    BY <1>3, <1>f DEF Once, StageInv
<1>7. k = "open" => \A x \in Holder : Has(x, "open")' = 0
    BY <1>2, <1>3, <1>f DEF StageInv, Once
<1>8. k = "closed" => \A x \in Holder : Has(x, "closed")' = 0
    BY <1>2, <1>3, <1>f DEF StageInv, Once
<1>9. StageInv'
    <2>1. \A x \in Holder, j \in Slot : Has(x, j)' # 0 => Has(x, j) # 0
        BY <1>3
    <2>2. isOpen' => isOpen \/ k = "open"
        BY <1>1, <1>f
    <2>3. k = "open" => life # "new"
        BY <1>2, <1>f DEF StageInv
    <2> QED
        BY <1>1, <1>6, <1>7, <1>f, <2>1, <2>2, <2>3 DEF StageInv
<1>10. CASE k = "open"
    <2>1. StageShown = 0
        <3>1. ~isOpen
            BY <1>2, <1>10, <1>f DEF StageInv
        <3>2. life = "closed" => t = App
            BY <1>2, <1>10, <1>f DEF StageInv
        <3>3. life = "closed" => Pending("closed")
            BY <1>live, <1>10, <1>2, <1>f, <1>p, <3>2 DEF OpenNews
        <3> QED
            BY <3>1, <3>3 DEF StageShown
    <2>2. StageShown' = 1
        BY <1>1, <1>10 DEF StageShown
    <2>3. Stage \in {1, 2}
        BY <1>s, <1>2, <1>10, <1>f DEF StageInv
    <2>4. StageFollows!Show
        BY <1>5, <2>1, <2>2, <2>3 DEF StageFollows!Show, If
    <2>5. ErrorInv'
        BY <1>1, <1>3, <1>10, <1>f DEF ErrorInv
    <2>6. UNCHANGED ErrorFollows!vars
        BY <1>1, <1>10 DEF ErrorFollows!vars, If
    <2> QED
        BY <1>9, <2>4, <2>5, <2>6 DEF Follows, StageFollows!Next
<1>11. CASE k = "closed"
    <2>1. life = "closed" /\ Pending("closed") /\ ~Pending("closed")'
        BY <1>2, <1>8, <1>11, <1>f, <1>p DEF StageInv
    <2>2. StageShown \in {0, 1} /\ StageShown' = 2
        BY <1>1, <1>11, <2>1 DEF StageShown
    <2>3. Stage = 2
        BY <1>s, <2>1
    <2>4. StageFollows!Show
        BY <1>5, <2>2, <2>3 DEF StageFollows!Show, If
    <2>5. ErrorInv'
        BY <1>1, <1>3, <1>11, <1>f DEF ErrorInv
    <2>6. UNCHANGED ErrorFollows!vars
        BY <1>1, <1>11 DEF ErrorFollows!vars, If
    <2> QED
        BY <1>9, <2>4, <2>5, <2>6 DEF Follows, StageFollows!Next
<1>12. CASE k = "error"
    <2>1. StageShown' = StageShown
        BY <1>1, <1>4, <1>12, <1>f DEF StageShown
    <2>2. UNCHANGED StageFollows!vars
        BY <1>5, <2>1 DEF StageFollows!vars, If
    <2>3. /\ lastError' = Has(t, "error")
          /\ lastError < lastError' /\ lastError' <= errors
        BY <1>1, <1>2, <1>12, <1>f DEF ErrorInv, k
    <2>4. ErrorFollows!Show
        <3>1. lastError' \in lastError + 1 .. errors
            BY <2>3, <1>2, <1>12, <1>f
        <3> QED
            BY <1>1, <3>1 DEF ErrorFollows!Show, If
    <2>5. \A x \in Holder : x # t /\ Has(x, "error") # 0 =>
              Has(t, "error") < Has(x, "error")
        BY <1>2, <1>3, <1>12, <1>f DEF ErrorInv
    <2>6. ErrorInv'
        BY <1>1, <1>3, <1>f, <1>12, <2>3, <2>5 DEF ErrorInv
    <2> QED
        BY <1>9, <2>2, <2>4, <2>6 DEF Follows, ErrorFollows!Next
<1> QED
    BY <1>10, <1>11, <1>12, <1>f

LEMMA FollowingStep ==
    ASSUME SlotsIInv, News, Following, [Next]_vars
    PROVE  /\ Following'
           /\ [StageFollows!Next]_(StageFollows!vars)
           /\ [ErrorFollows!Next]_(ErrorFollows!vars)
<1>t. SlotsIInv' /\ Kept' /\ Emitters \subseteq Thread
    BY SlotsStep, KeptStep DEF Following, Thread
<1>1. ordered' = ordered
    <2>1. CASE Next
        BY <2>1 DEF Next, CallStep, Opens, Closes, Fails, Emit, Call, Retain, Show,
           Leave, SetSlot, Drop, ClearSlot, FinishDeinit, channelVars
    <2>2. CASE UNCHANGED vars
        BY <2>2 DEF vars, channelVars
    <2> QED
        BY <2>1, <2>2
<1>2. CASE ~ordered
    <2>1. UNCHANGED StageFollows!vars /\ UNCHANGED ErrorFollows!vars
        BY <1>1, <1>2 DEF StageFollows!vars, ErrorFollows!vars, If
    <2> QED
        BY <1>t, <1>1, <1>2, <2>1 DEF Following
<1>3. CASE ordered
    <2>o. /\ Kept /\ StageInv /\ ErrorInv
          /\ OneAtATime /\ (object = "live" => OpenNews)
        BY <1>3 DEF Following, News
    <2>n. errors + 1 \in Nat /\ errors + 1 # 0
          /\ "open" \in Slot /\ "closed" \in Slot /\ "error" \in Slot
        BY DEF SlotsIInv, SlotsInv, TypeOK, Slot
    <2>1. ASSUME NEW t \in Emitters, Opens(t) \/ Closes(t) \/ Fails(t)
          PROVE  Follows
        <3>1. UNCHANGED <<isOpen, lastError>>
            BY <2>1 DEF Opens, Closes, Fails, Emit, viewVars
        <3>2. CASE Opens(t)
            <4>1. Arises(t, "open", 1)
                BY <1>3, <2>n, <3>2, NewsArises DEF Opens
            <4> QED
                BY <1>t, <1>1, <1>3, <2>o, <3>1, <3>2, <4>1, FollowsArises
                DEF Opens
        <3>3. CASE Closes(t)
            <4>1. Arises(t, "closed", 1)
                BY <1>3, <2>n, <3>3, NewsArises DEF Closes
            <4> QED
                BY <1>t, <1>1, <1>3, <2>o, <3>1, <3>3, <4>1, FollowsArises
                DEF Closes
        <3>4. CASE Fails(t)
            <4>1. Arises(t, "error", errors + 1)
                BY <1>3, <2>n, <3>4, NewsArises DEF Fails
            <4> QED
                BY <1>t, <1>1, <1>3, <2>o, <3>1, <3>4, <4>1, FollowsArises
                DEF Fails
        <3> QED
            BY <2>1, <3>2, <3>3, <3>4
    <2>2. ASSUME NEW t \in Thread, Show(t)
          PROVE  Follows
        <3>1. IsShown(t, call[t].slot)
            BY <1>3, <2>o, <2>2, NewsIsShown
        <3> QED
            BY <1>t, <1>1, <1>3, <2>o, <2>2, <3>1, FollowsShow
    <2>3. ASSUME \/ \E t \in Thread : Call(t) \/ Retain(t) \/ Leave(t)
                 \/ SetSlot \/ Drop \/ ClearSlot \/ FinishDeinit \/ UNCHANGED vars
          PROVE  Follows
        <3>1. \A k \in Slot : Moves(k)
            BY <2>3, NewsMoves
        <3>2. UNCHANGED Shows
            BY <2>3 DEF Call, Retain, Leave, SetSlot, Drop, ClearSlot,
               FinishDeinit, vars, channelVars, viewVars, Shows
        <3> QED
            BY <1>t, <1>1, <1>3, <2>o, <3>1, <3>2, FollowsMoves
    <2>4. Follows
        BY <2>1, <2>2, <2>3 DEF Next, CallStep
    <2> QED
        BY <1>t, <2>4 DEF Follows, Following
<1> QED
    BY <1>2, <1>3

LEMMA FollowingInit ==
    Init => Following /\ StageFollows!Init /\ ErrorFollows!Init
<1> SUFFICES ASSUME Init
             PROVE  Following /\ StageFollows!Init /\ ErrorFollows!Init
    OBVIOUS
<1>1. /\ life = "new" /\ errors = 0 /\ lastError = 0 /\ isOpen = FALSE
      /\ \A k \in Slot : stored[k] = 0 /\ ~callback[k]
      /\ \A t \in Thread : At(t) = "idle"
    BY DEF Init, At, Idle
<1>2. Kept
    BY <1>1 DEF Kept
<1>3. \A x \in Holder, k \in Slot : Has(x, k) = 0
    BY <1>1 DEF Holder, Has, Pend
<1>4. Emitters \subseteq Holder /\ "open" \in Slot /\ "closed" \in Slot
      /\ "error" \in Slot
    BY DEF Holder, Thread, Slot
<1> HIDE DEF Has, Holder
<1>5. StageInv
    BY <1>1, <1>3, <1>4 DEF StageInv, Once
<1>6. ErrorInv
    BY <1>1, <1>3, <1>4 DEF ErrorInv
<1>7. Stage = 0 /\ StageShown = 0
    BY <1>1 DEF Stage, StageShown
<1> QED
    BY <1>1, <1>2, <1>5, <1>6, <1>7
    DEF Following, StageFollows!Init, ErrorFollows!Init, If

\* A wrapper whose library calls its slots one at a time implements Follower
\* twice, for its channel's life and for its errors: for any number of library
\* threads and errors, through setup, replays and deinit, what it shows is
\* never ahead of the channel and never goes back (utils.hpp:77-126,
\* AlloDataChannel.swift:312-324).
THEOREM WrapperFollows == Spec => FollowsTruth
<1>1. Init => SlotsIInv /\ News /\ Following
                  /\ StageFollows!Init /\ ErrorFollows!Init
    BY SlotsInit, NewsInit, FollowingInit
<1>2. SlotsIInv /\ News /\ Following /\ [Next]_vars =>
          /\ SlotsIInv' /\ News' /\ Following'
          /\ [StageFollows!Next]_(StageFollows!vars)
          /\ [ErrorFollows!Next]_(ErrorFollows!vars)
    BY SlotsStep, NewsStep, FollowingStep
<1> QED
    BY <1>1, <1>2, PTL
    DEF Spec, FollowsTruth, StageFollows!Spec, ErrorFollows!Spec
====
