---------------------------- MODULE MCSweepLease ----------------------------
(* Instances of SweepLease for TLC. *)
EXTENDS SweepLease, TLC

BoxSymmetry == Permutations(Boxes)
=============================================================================
