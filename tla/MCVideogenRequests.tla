------------------------- MODULE MCVideogenRequests -------------------------
(* Instances of VideogenRequests for TLC. *)
EXTENDS VideogenRequests
=============================================================================
