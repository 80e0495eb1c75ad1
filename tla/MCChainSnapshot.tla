--------------------------- MODULE MCChainSnapshot ---------------------------
(* Instances of ChainSnapshot for TLC. *)
EXTENDS ChainSnapshot

\* Both posts are of one creator.
MCCreator == [p \in 1 .. 2 |-> 1]
=============================================================================
