------------------------------- MODULE MCDbKv -------------------------------
(* The instance of MCDb, with the refinement mapping to KvStore. *)
EXTENDS DbKv, TLC

CONSTANTS k1, k2

MCKeys == {k1, k2}
MCBatches == {[k \in {k1, k2} |-> "put"], k1 :> "del"}
=============================================================================
