---- MODULE CallbackSlots ----
(***************************************************************************)
(* How the callbacks of one channel reach its wrapper: the library keeps   *)
(* each callback in a slot with a recursive mutex of its own that          *)
(* remembers the last call it missed (synchronized_stored_callback in      *)
(* utils.hpp), Channel.setupCallbacks fills the slots one after the other  *)
(* while the library may be calling them, and Channel.deinit empties them  *)
(* on whatever thread let the last reference go, a thread inside one of    *)
(* the callbacks included.                                                 *)
(*                                                                         *)
(* RtcLibrary assumes what this module shows: an event that comes before   *)
(* its callback is kept, and deletion waits for the callback in flight.    *)
(***************************************************************************)
EXTENDS Naturals, Sequences

CONSTANTS
    Emitters,    \* library threads that call the slots
    App,         \* the thread that runs Channel.init and drops the wrapper
    Nobody,
    MaxErrors    \* bound: errors the channel meets

ASSUME ThreadsAssumption == App \notin Emitters /\ Nobody \notin Emitters \cup {App}
ASSUME ErrorsAssumption == MaxErrors \in Nat

Thread == Emitters \cup {App}
Slot == {"open", "closed", "error"}

\* The order in which setupCallbacks fills the slots. The message slot, the
\* last, is left out: it is like the error slot in every respect.
OrderSwapped == <<"closed", "open", "error">>   \* mutant
Order == <<"open", "closed", "error">>

VARIABLES
    ordered,    \* the library calls the slots of a channel one at a time
    life,       \* what the channel is: "new", "open", "closed"
    errors,     \* errors it has met
    callback,   \* slot -> a callback is set
    stored,     \* slot -> the last call it missed, 0 if none
    owner,      \* slot -> the thread that holds its mutex
    call,       \* thread -> the slot call it is in
    next,       \* the slot setupCallbacks fills next, an index of Order
    object,     \* the wrapper: "live", "deinit", "freed"
    held,       \* somebody outside the callbacks refers to the wrapper
    deleter,    \* the thread that runs deinit
    clearing,   \* the slot rtcDelete empties next, an index of Order
    isOpen, lastError   \* what the wrapper shows

channelVars == <<ordered, life, errors>>
slotVars == <<callback, stored, owner>>
deleteVars == <<object, held, deleter, clearing>>
viewVars == <<isOpen, lastError>>
vars == <<channelVars, slotVars, call, next, deleteVars, viewVars>>

Place == {"idle", "waiting", "entered", "inside", "leaving"}
Idle == [at |-> "idle", slot |-> "open", value |-> 0]

TypeOK ==
    /\ ordered \in BOOLEAN
    /\ life \in {"new", "open", "closed"}
    /\ errors \in 0 .. MaxErrors
    /\ callback \in [Slot -> BOOLEAN]
    /\ stored \in [Slot -> Nat]
    /\ owner \in [Slot -> Thread \cup {Nobody}]
    /\ call \in [Thread -> [at : Place, slot : Slot, value : Nat]]
    /\ next \in 1 .. 4
    /\ object \in {"live", "deinit", "freed"}
    /\ held \in BOOLEAN
    /\ deleter \in Thread \cup {Nobody}
    /\ clearing \in 1 .. 4
    /\ isOpen \in BOOLEAN /\ lastError \in Nat

Init ==
    /\ ordered \in BOOLEAN
    /\ life = "new" /\ errors = 0
    /\ callback = [k \in Slot |-> FALSE]
    /\ stored = [k \in Slot |-> 0]
    /\ owner = [k \in Slot |-> Nobody]
    /\ call = [t \in Thread |-> Idle]
    /\ next = 1
    /\ object = "live" /\ held = TRUE
    /\ deleter = Nobody /\ clearing = 1
    /\ isOpen = FALSE /\ lastError = 0

At(t) == call[t].at
Running(t) == At(t) \in {"entered", "inside", "leaving"}
CanLockOnce(t, k) == owner[k] = Nobody   \* mutant: std::mutex
CanLock(t, k) == owner[k] \in {Nobody, t}

----------------------------------------------------------------------------
\* operator()

\* Something happens to the channel and thread t is to call its slot.
Emit(t, k, value) ==
    /\ At(t) = "idle" /\ object # "freed"
    /\ ordered => \A u \in Emitters : At(u) = "idle"
    /\ call' = [call EXCEPT ![t] = [at |-> "waiting", slot |-> k,
                                    value |-> value]]
    /\ UNCHANGED <<ordered, slotVars, next, deleteVars, viewVars>>

Opens(t) ==
    /\ life = "new" /\ life' = "open"
    /\ Emit(t, "open", 1)
    /\ UNCHANGED errors

Closes(t) ==
    /\ life # "closed" /\ life' = "closed"
    /\ Emit(t, "closed", 1)
    /\ UNCHANGED errors

Fails(t) ==
    /\ errors < MaxErrors /\ errors' = errors + 1
    /\ Emit(t, "error", errors + 1)
    /\ UNCHANGED life

CallForgotten(t) ==   \* mutant: synchronized_callback
    LET k == call[t].slot IN
    /\ At(t) = "waiting" /\ CanLock(t, k)
    /\ IF callback[k]
       THEN /\ owner' = [owner EXCEPT ![k] = t]
            /\ call' = [call EXCEPT ![t].at = "entered"]
       ELSE /\ call' = [call EXCEPT ![t] = Idle]
            /\ UNCHANGED owner
    /\ UNCHANGED <<channelVars, callback, stored, next, deleteVars, viewVars>>

\* Under the mutex: the callback runs, or the call is stored.
Call(t) ==
    LET k == call[t].slot IN
    /\ At(t) = "waiting" /\ CanLock(t, k)
    /\ IF callback[k]
       THEN /\ owner' = [owner EXCEPT ![k] = t]
            /\ call' = [call EXCEPT ![t].at = "entered"]
            /\ UNCHANGED stored
       ELSE /\ stored' = [stored EXCEPT ![k] = call[t].value]
            /\ call' = [call EXCEPT ![t] = Idle]
            /\ UNCHANGED owner
    /\ UNCHANGED <<channelVars, callback, next, deleteVars, viewVars>>

----------------------------------------------------------------------------
\* The closures of setupCallbacks.

\* takeUnretainedValue: from here to its end the closure keeps the wrapper.
Retain(t) ==
    /\ At(t) = "entered"
    /\ call' = [call EXCEPT ![t].at = "inside"]
    /\ UNCHANGED <<channelVars, slotVars, next, deleteVars, viewVars>>

\* The last reference goes on thread t: deinit begins there.
BeginDeinit(t) == object' = "deinit" /\ deleter' = t /\ clearing' = 1

\* The assignment, then the end of the closure.
Show(t) ==
    /\ At(t) = "inside"
    /\ call' = [call EXCEPT ![t].at = "leaving"]
    /\ isOpen' = CASE call[t].slot = "open" -> TRUE
                   [] call[t].slot = "closed" -> FALSE
                   [] OTHER -> isOpen
    /\ lastError' = IF call[t].slot = "error" THEN call[t].value ELSE lastError
    /\ IF /\ object = "live" /\ ~held
          /\ \A u \in Thread \ {t} : At(u) # "inside"
       THEN BeginDeinit(t)
       ELSE UNCHANGED <<object, deleter, clearing>>
    /\ UNCHANGED <<channelVars, slotVars, next, held>>

\* The call of the slot returns, once a deinit on this thread is over.
Leave(t) ==
    /\ At(t) = "leaving" /\ deleter # t
    /\ owner' = [owner EXCEPT ![call[t].slot] = Nobody]
    /\ call' = [call EXCEPT ![t] = Idle]
    /\ next' = IF t = App THEN next + 1 ELSE next
    /\ UNCHANGED <<channelVars, callback, stored, deleteVars, viewVars>>

----------------------------------------------------------------------------
\* operator=

SetUnlocked ==   \* mutant: the replay does not hold the mutex
    /\ next <= Len(Order) /\ At(App) = "idle"
    /\ LET k == Order[next] IN
       /\ callback' = [callback EXCEPT ![k] = TRUE]
       /\ stored' = [stored EXCEPT ![k] = 0]
       /\ IF stored[k] # 0
          THEN /\ call' = [call EXCEPT ![App] = [at |-> "entered", slot |-> k,
                                                 value |-> stored[k]]]
               /\ UNCHANGED next
          ELSE /\ next' = next + 1
               /\ UNCHANGED call
    /\ UNCHANGED <<channelVars, owner, deleteVars, viewVars>>

\* Channel.setupCallbacks sets a callback; the slot replays the call it
\* missed to it, holding its mutex.
SetSlot ==
    /\ next <= Len(Order) /\ At(App) = "idle"
    /\ LET k == Order[next] IN
       /\ CanLock(App, k)
       /\ callback' = [callback EXCEPT ![k] = TRUE]
       /\ stored' = [stored EXCEPT ![k] = 0]
       /\ IF stored[k] # 0
          THEN /\ owner' = [owner EXCEPT ![k] = App]
               /\ call' = [call EXCEPT ![App] = [at |-> "entered", slot |-> k,
                                                 value |-> stored[k]]]
               /\ UNCHANGED next
          ELSE /\ next' = next + 1
               /\ UNCHANGED <<owner, call>>
    /\ UNCHANGED <<channelVars, deleteVars, viewVars>>

\* Whoever held the wrapper lets go of it, in a sink of a callback perhaps.
Drop ==
    /\ next > Len(Order) /\ held
    /\ held' = FALSE
    /\ IF \A t \in Thread : At(t) # "inside"
       THEN BeginDeinit(App)
       ELSE UNCHANGED <<object, deleter, clearing>>
    /\ UNCHANGED <<channelVars, slotVars, call, next, viewVars>>

ClearUnlocked ==   \* mutant: the mutex is not taken
    /\ object = "deinit" /\ clearing <= Len(Order)
    /\ callback' = [callback EXCEPT ![Order[clearing]] = FALSE]
    /\ clearing' = clearing + 1
    /\ UNCHANGED <<channelVars, stored, owner, call, next, object, held,
                   deleter, viewVars>>

\* rtcDelete assigns a null callback to each slot.
ClearSlot ==
    /\ object = "deinit" /\ clearing <= Len(Order)
    /\ CanLock(deleter, Order[clearing])
    /\ callback' = [callback EXCEPT ![Order[clearing]] = FALSE]
    /\ clearing' = clearing + 1
    /\ UNCHANGED <<channelVars, stored, owner, call, next, object, held,
                   deleter, viewVars>>

FinishDeinit ==
    /\ object = "deinit" /\ clearing > Len(Order)
    /\ object' = "freed" /\ deleter' = Nobody
    /\ UNCHANGED <<channelVars, slotVars, call, next, held, clearing, viewVars>>

----------------------------------------------------------------------------

CallStep(t) == Call(t) \/ Retain(t) \/ Show(t) \/ Leave(t)
Next ==
    \/ \E t \in Emitters : Opens(t) \/ Closes(t) \/ Fails(t)
    \/ \E t \in Thread : CallStep(t)
    \/ SetSlot \/ Drop \/ ClearSlot \/ FinishDeinit

\* Threads go on with what they are in.
Fairness ==
    /\ \A t \in Thread : WF_vars(CallStep(t))
    /\ WF_vars(SetSlot) /\ WF_vars(ClearSlot) /\ WF_vars(FinishDeinit)

Spec == Init /\ [][Next]_vars /\ Fairness

----------------------------------------------------------------------------

\* A callback is run by the thread that holds its mutex, and no mutex stays
\* locked.
Locking ==
    /\ \A t \in Thread : Running(t) => owner[call[t].slot] = t
    /\ \A k \in Slot : owner[k] # Nobody =>
                           Running(owner[k]) /\ call[owner[k]].slot = k

\* The slots are filled in order, and only a slot not filled stores a call.
InOrder ==
    \A i \in 1 .. 3 :
        /\ callback[Order[i]] => \/ i < next
                                 \/ At(App) # "idle" /\ call[App].slot = Order[i]
        /\ stored[Order[i]] # 0 => i >= next \/ object # "live"

\* What the slots are for: a callback is run by the thread that holds its
\* mutex, replays of setupCallbacks included, and no mutex stays locked; a
\* call is stored only while its callback is not set; the slots are filled
\* in order (utils.hpp:77-126, AlloDataChannel.swift:308-330).
SlotsInv ==
    /\ TypeOK /\ Locking /\ InOrder
    /\ object = "deinit" <=> deleter # Nobody
    /\ At(App) # "waiting"

\* Channel passes itself to the library unretained (AlloDataChannel.swift
\* 310-329): no closure that has a pointer to the wrapper finds it freed,
\* although deinit may begin between the call of the closure and its first
\* line, on another thread or below a closure of the same channel.
FreedIsUntouched ==
    \A t \in Thread : At(t) \in {"entered", "inside"} => object # "freed"

\* As long as the library calls the slots of a channel one at a time, a
\* wrapper that has its callbacks shows what the channel is once no call is
\* under way, whatever was missed before or while they were set (312-324).
SettledShowsTruth ==
    ordered /\ next > Len(Order) /\ object = "live"
        /\ (\A t \in Thread : At(t) = "idle")
    => isOpen = (life = "open") /\ lastError = errors

\* Channel.deinit ends: rtcDelete waits for the closures in flight, and no
\* closure in flight, not even the one deinit runs below, waits for it.
DeinitEnds == object = "deinit" ~> object = "freed"

\* Under the promise of SettledShowsTruth, the news that a channel is closed
\* gets to a wrapper that shows it open, also past a setup under way.
CloseArrives ==
    ordered /\ life = "closed" /\ isOpen ~> ~isOpen \/ object = "freed"

\* The news of a slot that is still to be shown: missed and stored, or on a
\* thread that is in the call and has not made the assignment.
Pend(t, k) == At(t) \in {"waiting", "entered", "inside"} /\ call[t].slot = k
Pending(k) == stored[k] # 0 \/ \E t \in Thread : Pend(t, k)

\* A channel is new, then open or not, then closed; a wrapper that shows it
\* not open has not seen it open, or has seen it closed.
Stage == [new |-> 0, open |-> 1, closed |-> 2][life]
StageShown ==
    IF isOpen THEN 1
    ELSE IF life = "closed" /\ ~Pending("closed") THEN 2 ELSE 0

If(known, n) == IF known THEN n ELSE 0
StageFollows == INSTANCE Follower WITH truth <- If(ordered, Stage),
                                       shown <- If(ordered, StageShown)
ErrorFollows == INSTANCE Follower WITH truth <- If(ordered, errors),
                                       shown <- If(ordered, lastError)

\* Under the promise of SettledShowsTruth, what a wrapper shows follows the
\* channel at every step, not only when all is quiet: no replay of a missed
\* call and no call that waited for a mutex puts back an older error over a
\* newer one or opens a wrapper that has shown its channel closed
\* (utils.hpp:77-126, AlloDataChannel.swift:312-324).
FollowsTruth == StageFollows!Spec /\ ErrorFollows!Spec
====
