------------------------------ MODULE MCStorage ------------------------------
(***************************************************************************)
(* The components of a node's storage, of its replication and of its vector *)
(* index that share no state in these models, side by side: every behaviour *)
(* is a behaviour of one of them, chosen initially, while the others keep   *)
(* one of their initial states. What holds of every behaviour here holds of *)
(* each component alone.                                                    *)
(***************************************************************************)
EXTENDS Replication, RetainedLog, Rejoin, Archive, Directories, Snapshot,
        BlockCache, VectorIndex

\* Vectors of two lengths.
VecDims == CHOOSE d \in [Vecs -> {1, 2}] : {d[v] : v \in Vecs} = {1, 2}

VARIABLE part    \* the component this behaviour is about

allVars == <<part, vars, rlVars, rjVars, arcVars, dirVars, snapVars, cacheVars, vecVars>>

MCStorageInit ==
    /\ part \in {"replication", "log", "rejoin", "archive", "directories", "snapshot", "cache", "vector"}
    /\ Init
    /\ RlInit
    /\ RjInit
    /\ ArcInit
    /\ DirInit
    /\ SnapInit
    /\ CacheInit
    /\ VecInit /\ (part = "vector" \/ vlog = <<>>)

MCStorageNext ==
    /\ UNCHANGED part
    /\ \/ /\ part = "replication" /\ FencingNext
          /\ UNCHANGED <<rlVars, rjVars, arcVars, dirVars, snapVars, cacheVars, vecVars>>
       \/ /\ part = "log" /\ RlNext
          /\ UNCHANGED <<vars, rjVars, arcVars, dirVars, snapVars, cacheVars, vecVars>>
       \/ /\ part = "rejoin" /\ RjNext
          /\ UNCHANGED <<vars, rlVars, arcVars, dirVars, snapVars, cacheVars, vecVars>>
       \/ /\ part = "archive" /\ ArcNext
          /\ UNCHANGED <<vars, rlVars, rjVars, dirVars, snapVars, cacheVars, vecVars>>
       \/ /\ part = "directories" /\ DirNext
          /\ UNCHANGED <<vars, rlVars, rjVars, arcVars, snapVars, cacheVars, vecVars>>
       \/ /\ part = "snapshot" /\ SnapNext
          /\ UNCHANGED <<vars, rlVars, rjVars, arcVars, dirVars, cacheVars, vecVars>>
       \/ /\ part = "cache" /\ CacheNext
          /\ UNCHANGED <<vars, rlVars, rjVars, arcVars, dirVars, snapVars, vecVars>>
       \/ /\ part = "vector" /\ VecNext
          /\ UNCHANGED <<vars, rlVars, rjVars, arcVars, dirVars, snapVars, cacheVars>>

MCStorageSpec == MCStorageInit /\ [][MCStorageNext]_allVars

\* Objects are interchangeable.
Symmetry == Permutations(Objects)

=============================================================================
