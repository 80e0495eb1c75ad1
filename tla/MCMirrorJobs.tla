---------------------------- MODULE MCMirrorJobs ----------------------------
(* Instances of MirrorJobs for TLC. *)
EXTENDS MirrorJobs
=============================================================================
