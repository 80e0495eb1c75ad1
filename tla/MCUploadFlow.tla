---------------------------- MODULE MCUploadFlow ----------------------------
(* Instances of UploadFlow for TLC. *)
EXTENDS UploadFlow, TLC

\* The requests are interchangeable; alone and mark are permuted with them.
Symmetry == Permutations(Calls)
=============================================================================
