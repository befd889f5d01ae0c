-------------------------------- MODULE DbKv --------------------------------
(***************************************************************************)
(* Db implements KvStore.  The map is what recovery would rebuild from the *)
(* disk, less the frames of the writes in flight: flush, compaction and    *)
(* Db::open must leave it alone, a write changes it once, at its ack, and  *)
(* a crash changes it by the frames that happened to be on disk.           *)
(***************************************************************************)
EXTENDS Db

\* The WAL, or what phase C is about to put back in its place.
DurableWal == IF flush.pc = "reappend" THEN flush.tail ELSE wal

SettledRows ==
    UNION {RowsOf(f) : f \in {g \in Range(DurableWal) : g.ok /\ g.wid \notin Pending}}

\* The batches in flight are the last ones submitted.
FirstPending == CHOOSE i \in 1 .. Len(hist) + 1 :
                   \A j \in 1 .. Len(hist) : j \in Pending <=> j >= i

KV == INSTANCE KvStore WITH
    kv       <- [k \in Keys |-> Lookup(Append(Tables(current.segs), SettledRows), k)],
    inflight <- [i \in 1 .. Len(hist) + 1 - FirstPending |->
                    [id  |-> FirstPending + i - 1,
                     ops |-> hist[FirstPending + i - 1].ops]],
    count    <- Len(hist)

\* Every behaviour of the engine, seen through its durable map, is one of KvStore's.
ImplementsKv == KV!Spec
=============================================================================
