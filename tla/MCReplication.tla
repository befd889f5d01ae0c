--------------------------- MODULE MCReplication ---------------------------
(* Instances of Replication for TLC.                                       *)
EXTENDS Replication, TLC

\* Nodes are interchangeable.
Symmetry == Permutations(Nodes)
=============================================================================
