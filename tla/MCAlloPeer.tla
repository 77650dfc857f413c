---- MODULE MCAlloPeer ----
(* Small instances of AlloPeer for TLC. *)
EXTENDS AlloPeer

CONSTANTS d1, t1
OneData == {d1}
OneTrack == {t1}
TwoCopies == {1, 2}
OneCopy == {1}
Nothing == {}
====
