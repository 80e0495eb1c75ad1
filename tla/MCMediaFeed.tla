---------------------------- MODULE MCMediaFeed ----------------------------
(* Instances of MediaFeed for TLC. *)
EXTENDS MediaFeed

MCVideos == 1 .. 2
MCLegacyHash == {1}
=============================================================================
