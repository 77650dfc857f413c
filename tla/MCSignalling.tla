---- MODULE MCSignalling ----
(* Small instances of Signalling for TLC. *)
EXTENDS Signalling

UnevenCandidates == [p \in Peer |-> IF p = "offerer" THEN 2 ELSE 1]
NobodyTrickles == {{}}
AnswererMay == {{}, {"answerer"}}
====
