---------------------------- MODULE MCMediaPhash ----------------------------
(* Instances of MediaPhash for TLC. *)
EXTENDS MediaPhash

CONSTANTS s1, s2

MCVideos == 1 .. 2
MCBroken == {1}
MCShard == [r \in {s1, s2} |-> IF r = s1 THEN MCVideos ELSE {1}]
=============================================================================
