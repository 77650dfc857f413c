---- MODULE MCTrackAllocation ----
(* Small instances of TrackAllocation for TLC. *)
EXTENDS TrackAllocation, TLC

CONSTANTS webcam, side, opus, h264, vp8, s1, s2

\* Codec configurations are interchangeable, and so are SSRCs.
Interchangeable == Permutations(Keys) \cup Permutations(Ssrcs)
====
