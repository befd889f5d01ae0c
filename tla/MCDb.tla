-------------------------------- MODULE MCDb --------------------------------
(***************************************************************************)
(* Instances of Db for TLC: two keys, a batch that puts both and one that   *)
(* deletes one.                                                             *)
(***************************************************************************)
EXTENDS Db, TLC

CONSTANTS k1, k2

MCKeys == {k1, k2}
MCBatches == {[k \in {k1, k2} |-> "put"], k1 :> "del"}
=============================================================================
