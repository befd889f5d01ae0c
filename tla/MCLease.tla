------------------------------ MODULE MCLease ------------------------------
(* Instances of Lease for TLC.                                             *)
EXTENDS Lease, TLC

\* Nodes are interchangeable (sound for the safety runs only).
Symmetry == Permutations(Nodes)
=============================================================================
