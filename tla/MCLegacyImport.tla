--------------------------- MODULE MCLegacyImport ---------------------------
(* Instances of LegacyImport for TLC. *)
EXTENDS LegacyImport

\* A refused limit, a small one and none.
Asked == {-1, 1, 4}

\* Rows 2 and 3 spell the id of one video in two ways.
Spelling == [v \in 1 .. 3 |-> IF v = 3 THEN 2 ELSE v]
=============================================================================
