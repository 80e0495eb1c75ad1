--------------------------- MODULE MCThumbBackfill ---------------------------
(* Instances of ThumbBackfill for TLC. *)
EXTENDS ThumbBackfill
=============================================================================
