---- MODULE OfferAnswer ----
(***************************************************************************)
(* What two applications may rely on when they negotiate: offers and       *)
(* answers take turns. A side makes an offer only when both are stable and *)
(* nothing is in the mail, each offer is taken once and answered once, and *)
(* the side that takes it then knows every track of the side that made it. *)
(***************************************************************************)
EXTENDS Naturals

CONSTANTS
    Rounds,     \* offers that may be made
    Tracks      \* tracks the offerer may have

VARIABLES
    round,              \* offers made
    offerer, answerer,  \* the signalling state of either side
    mail,               \* what has been made and not been taken
    tracks,             \* the tracks of the offerer
    told                \* those the answerer knows

vars == <<round, offerer, answerer, mail, tracks, told>>

Init ==
    /\ round = 0
    /\ offerer = "stable" /\ answerer = "stable"
    /\ mail = "none"
    /\ tracks = {} /\ told = {}

\* Between rounds and before the first.
AddTrack ==
    /\ offerer = "stable"
    /\ \E t \in Tracks \ tracks : tracks' = tracks \cup {t}
    /\ UNCHANGED <<round, offerer, answerer, mail, told>>

MakeOffer ==
    /\ offerer = "stable" /\ answerer = "stable" /\ mail = "none"
    /\ round < Rounds
    /\ round' = round + 1
    /\ offerer' = "haveLocalOffer" /\ mail' = "offer"
    /\ UNCHANGED <<answerer, tracks, told>>

TakeOffer ==
    /\ mail = "offer" /\ answerer = "stable"
    /\ answerer' = "haveRemoteOffer" /\ mail' = "none"
    /\ told' = tracks
    /\ UNCHANGED <<round, offerer, tracks>>

MakeAnswer ==
    /\ answerer = "haveRemoteOffer"
    /\ answerer' = "stable" /\ mail' = "answer"
    /\ UNCHANGED <<round, offerer, tracks, told>>

TakeAnswer ==
    /\ mail = "answer" /\ offerer = "haveLocalOffer"
    /\ offerer' = "stable" /\ mail' = "none"
    /\ UNCHANGED <<round, answerer, tracks, told>>

Next == AddTrack \/ MakeOffer \/ TakeOffer \/ MakeAnswer \/ TakeAnswer

Spec == Init /\ [][Next]_vars
====
