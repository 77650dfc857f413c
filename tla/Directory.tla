---- MODULE Directory ----
(***************************************************************************)
(* What a published set promises those who look at it at any time: an      *)
(* entry is listed once, beside no other entry of its name, stays until it *)
(* has been shut or the directory ends, and never comes back.              *)
(***************************************************************************)
CONSTANTS Names, Copies
Entry == Names \X Copies

VARIABLES
    entry,   \* of each entry: "absent", "listed", "gone"
    shut,    \* entries somebody asked to be rid of
    open     \* the directory is there

vars == <<entry, shut, open>>

Init ==
    /\ entry = [e \in Entry |-> "absent"]
    /\ shut = {} /\ open = TRUE

List(e) ==
    /\ open /\ entry[e] = "absent"
    /\ \A f \in Entry : f[1] = e[1] => entry[f] # "listed"
    /\ entry' = [entry EXCEPT ![e] = "listed"]
    /\ UNCHANGED <<shut, open>>

Shut(e) ==
    /\ entry[e] # "absent"
    /\ shut' = shut \cup {e}
    /\ UNCHANGED <<entry, open>>

Unlist(e) ==
    /\ e \in shut /\ entry[e] = "listed"
    /\ entry' = [entry EXCEPT ![e] = "gone"]
    /\ UNCHANGED <<shut, open>>

End ==
    /\ open /\ open' = FALSE
    /\ entry' = [e \in Entry |->
                    IF entry[e] = "listed" THEN "gone" ELSE entry[e]]
    /\ UNCHANGED shut

Next == End \/ \E e \in Entry : List(e) \/ Shut(e) \/ Unlist(e)

Spec == Init /\ [][Next]_vars
====
