---------------------------- MODULE MCEdgeRoutes ----------------------------
(* Instances of EdgeRoutes for TLC. *)
EXTENDS EdgeRoutes

\* The receiver's clock is behind or ahead, by as much as is allowed.
MCOffsets == {-1, 1}
=============================================================================
