----------------------------- MODULE KernelIndex -----------------------------
(***************************************************************************)
(* What the repository derives from the heads (kernel/src/storage/         *)
(* repository.rs, cache.rs): the relationship and type index rows that     *)
(* ride every commit's batch, the repair operation that recomputes them,   *)
(* and the optional cache of heads.  A commit reads the head through the   *)
(* cache, assembles its batch (which is when the cache is invalidated) and *)
(* lands it; readers and the repair hold no lock.                          *)
(*                                                                         *)
(* There is one relationship type, and relo/ and reli/ rows are one row:   *)
(* they are always written and deleted together.                           *)
(***************************************************************************)
EXTENDS Integers, FiniteSets, Functions

CONSTANTS
    Nodes,            \* object ids
    TypeNames,
    Readers,          \* threads that read heads
    MaxRefs,          \* bound: references in a version's list
    MaxIndexWrites    \* bound: commits

ASSUME IndexAssumption == {MaxRefs, MaxIndexWrites} \subseteq Nat

VARIABLES
    heads,     \* per object: its head version
    typeRows, relRows,
    cached,    \* per object: the head the cache holds
    batch,     \* the assembled batch of the holder of the pipe lock
    reading,   \* per reader: the head it read and has not put into the cache
    repair,    \* the rebuild
    suspect,   \* history: objects cached by a read that a commit of theirs overlapped
    iwrites

indexVars == <<heads, typeRows, relRows, cached, batch, reading, repair, suspect, iwrites>>

Refs(k) == {"out", "in"} \X (Nodes \ {k})
Edge(k, ref) == IF ref[1] = "out" THEN <<k, ref[2]>> ELSE <<ref[2], k>>

\* A version's relationships are a list: how often each reference occurs.
RelLists(k) == {r \in [Refs(k) -> 0 .. MaxRefs] : SumFunction(r) <= MaxRefs}
NoRels(k) == [x \in Refs(k) |-> 0]
EdgesOf(k, rels) == {Edge(k, x) : x \in {y \in Refs(k) : rels[y] > 0}}

Absent == [v |-> 0]
NoBatch == [on |-> FALSE]
NoRepair == [pc |-> "off", oldT |-> {}, oldR |-> {}, newT |-> {}, newR |-> {}, touched |-> {}]
Nothing == [on |-> FALSE]

IndexInit ==
    /\ heads = [k \in Nodes |-> Absent] /\ typeRows = {} /\ relRows = {}
    /\ cached = [k \in Nodes |-> Absent] /\ batch = NoBatch
    /\ reading = [r \in Readers |-> Nothing] /\ repair = NoRepair /\ suspect = {}
    /\ iwrites = 0

-----------------------------------------------------------------------------
(* Commits *)

\* get_head: the cache, or the engine.
HeadOf(k) == IF cached[k] # Absent THEN cached[k] ELSE heads[k]

\* Mutant: every old reference goes.
Removed_All(k, old, new) == {x \in Refs(k) : old[x] > 0}

\* The references of the old list left over once each of the new ones took one away.
Removed(k, old, new) == {x \in Refs(k) : old[x] > new[x]}

\* Mutant: put_head and delete_head leave the cache alone.
CacheAfter_Kept(k) == [cached EXCEPT ![k] = HeadOf(k)]

\* put_head and delete_head, while the batch is assembled.
CacheAfter(k) == [cached EXCEPT ![k] = Absent]

CanCommitIndex == ~batch.on /\ iwrites < MaxIndexWrites

\* History: a commit of k overlaps the reads of it that are under way.
Overlapping(k) == [r \in Readers |-> IF reading[r].on /\ reading[r].k = k
                                     THEN [reading[r] EXCEPT !.raced = TRUE] ELSE reading[r]]

\* commit_version and transact_inner: rows of the new version, minus the old ones.
PutVersion(k, type, rels) ==
    LET h == HeadOf(k)
        old == IF h = Absent THEN NoRels(k) ELSE h.rels
    IN  /\ CanCommitIndex
        /\ batch' = [on |-> TRUE, k |-> k, h |-> [v |-> h.v + 1, type |-> type, rels |-> rels],
                     old |-> old,
                     putT |-> {<<type, k>>}, delT |-> {},
                     putR |-> EdgesOf(k, rels), delR |-> {Edge(k, x) : x \in Removed(k, old, rels)}]
        /\ cached' = CacheAfter(k)
        /\ reading' = Overlapping(k) /\ suspect' = suspect \ {k}
        /\ iwrites' = iwrites + 1
        /\ UNCHANGED <<heads, typeRows, relRows, repair>>

\* forget with Erase: the head and its type row.
EraseHead(k) ==
    LET h == HeadOf(k)
    IN  /\ CanCommitIndex /\ h # Absent
        /\ batch' = [on |-> TRUE, k |-> k, h |-> Absent, old |-> NoRels(k),
                     putT |-> {}, delT |-> {<<h.type, k>>}, putR |-> {}, delR |-> {}]
        /\ cached' = CacheAfter(k)
        /\ reading' = Overlapping(k) /\ suspect' = suspect \ {k}
        /\ iwrites' = iwrites + 1
        /\ UNCHANGED <<heads, typeRows, relRows, repair>>

\* One batch: puts before deletes.
RowsLanded(rows, put, del) == (rows \cup put) \ del

LandIndex ==
    /\ batch.on
    /\ heads' = [heads EXCEPT ![batch.k] = batch.h]
    /\ typeRows' = RowsLanded(typeRows, batch.putT, batch.delT)
    /\ relRows' = RowsLanded(relRows, batch.putR, batch.delR)
    /\ batch' = NoBatch
    /\ repair' = [repair EXCEPT !.touched = IF repair.pc = "off" THEN {} ELSE @ \cup {batch.k}]
    /\ UNCHANGED <<cached, reading, suspect, iwrites>>

LandIndexFails ==
    /\ batch.on
    /\ batch' = NoBatch
    /\ UNCHANGED <<heads, typeRows, relRows, cached, reading, repair, suspect, iwrites>>

-----------------------------------------------------------------------------
(* The cache *)

\* get_head without the lock: the engine is read, then the cache is filled.
ReadMiss(r, k) ==
    /\ ~reading[r].on /\ cached[k] = Absent /\ heads[k] # Absent
    /\ reading' = [reading EXCEPT ![r] = [on |-> TRUE, k |-> k, h |-> heads[k],
                                              raced |-> batch.on /\ batch.k = k]]
    /\ UNCHANGED <<heads, typeRows, relRows, cached, batch, repair, suspect, iwrites>>

ReadFill(r) ==
    /\ reading[r].on
    /\ cached' = [cached EXCEPT ![reading[r].k] = reading[r].h]
    /\ suspect' = IF reading[r].raced THEN suspect \cup {reading[r].k} ELSE suspect \ {reading[r].k}
    /\ reading' = [reading EXCEPT ![r] = Nothing]
    /\ UNCHANGED <<heads, typeRows, relRows, batch, repair, iwrites>>

-----------------------------------------------------------------------------
(* rebuild_derived_indexes *)

TypeImage == {<<heads[k].type, k>> : k \in {j \in Nodes : heads[j] # Absent}}
RelImage == UNION {EdgesOf(k, heads[k].rels) : k \in {j \in Nodes : heads[j] # Absent}}

RebuildOld ==
    /\ repair = NoRepair
    /\ repair' = [NoRepair EXCEPT !.pc = "heads", !.oldT = typeRows, !.oldR = relRows]
    /\ UNCHANGED <<heads, typeRows, relRows, cached, batch, reading, suspect, iwrites>>

RebuildHeads ==
    /\ repair.pc = "heads"
    /\ repair' = [repair EXCEPT !.pc = "write", !.newT = TypeImage, !.newR = RelImage]
    /\ UNCHANGED <<heads, typeRows, relRows, cached, batch, reading, suspect, iwrites>>

\* Mutant: only what is missing is put.
Repaired_PutOnly(rows, old, new) == rows \cup (new \ old)

\* The symmetric difference of the two scans, in one batch.
Repaired(rows, old, new) == (rows \cup (new \ old)) \ (old \ new)

RebuildWrite ==
    /\ repair.pc = "write"
    /\ typeRows' = Repaired(typeRows, repair.oldT, repair.newT)
    /\ relRows' = Repaired(relRows, repair.oldR, repair.newR)
    /\ repair' = NoRepair
    /\ UNCHANGED <<heads, cached, batch, reading, suspect, iwrites>>

IndexNext ==
    \/ \E k \in Nodes : \/ \E t \in TypeNames, rels \in RelLists(k) : PutVersion(k, t, rels)
                        \/ EraseHead(k)
                        \/ \E r \in Readers : ReadMiss(r, k)
    \/ LandIndex \/ LandIndexFails
    \/ \E r \in Readers : ReadFill(r)
    \/ RebuildOld \/ RebuildHeads \/ RebuildWrite

IndexSpec == IndexInit /\ [][IndexNext]_indexVars

-----------------------------------------------------------------------------
(* Properties *)

IndexTypeOK ==
    /\ typeRows \subseteq TypeNames \X Nodes /\ relRows \subseteq Nodes \X Nodes
    /\ \A k \in Nodes : heads[k].v \in Nat /\ cached[k].v \in Nat
    /\ repair.pc \in {"off", "heads", "write"} /\ iwrites \in Nat

\* A row that a scan by type or a walk of the relationships needs (rows left over are
\* harmless: readers check them against the head, kernel.rs:4146-4158) goes missing only
\*  - from a commit that takes one listing of its edge away while another is left: the
\*    same reference twice in the previous version, or one of the object at the other end;
\*  - from a repair that a commit of one of its objects overlapped.
\* Otherwise, and for the type rows of commits always, "the index and the head can never
\* drift" (kernel.rs:1859-1901).
LeftOut == RelImage \ relRows
Untyped == TypeImage \ typeRows
Listing(k) == IF heads[k] = Absent THEN {} ELSE EdgesOf(k, heads[k].rels)
Relisted(e) ==
    batch.on /\ (\/ \E x \in Refs(batch.k) : Edge(batch.k, x) = e /\ batch.old[x] > 1
                 \/ \E j \in Nodes \ {batch.k} : e \in Listing(j))
Overlapped(e) == {e[1], e[2]} \cap repair.touched # {}
RowsKept ==
    /\ \A e \in LeftOut' \ LeftOut : Relisted(e) \/ Overlapped(e)
    /\ \A t \in Untyped' \ Untyped : t[2] \in repair.touched

\* Once a rebuild is done the rows of every object that no commit touched meanwhile, and of
\* every edge between two of them, are the exact image of the heads
\* (repository.rs:466-472, "every derived row is recomputed as their exact image").
RebuildExact ==
    repair.pc = "write" /\ repair' = NoRepair =>
        LET still == Nodes \ repair.touched
        IN  /\ \A k \in still, t \in TypeNames : <<t, k>> \in typeRows' <=> <<t, k>> \in TypeImage
            /\ \A j, k \in still : <<j, k>> \in relRows' <=> <<j, k>> \in RelImage

\* The cache holds nothing but the current heads, save of an object whose head was read
\* while a commit of it was under way (cache.rs:3-4, "kept coherent by invalidating or
\* updating entries on every write path").
CacheCoherent == \A k \in Nodes \ suspect : cached[k] # Absent => cached[k] = heads[k]

\* What the comments say without those exceptions, and what is not so: no edge of a head
\* is without its row, and nothing in the cache is stale (kernel.rs:1871-1874, cache.rs:3-4).
NoDrift == LeftOut = {}
NeverStale == ~batch.on => \A k \in Nodes : cached[k] # Absent => cached[k] = heads[k]

\* What the index rows and the head cache promise a reader.
KernelIndexPromise ==
    [][(IndexTypeOK /\ CacheCoherent)' /\ RowsKept /\ RebuildExact]_indexVars
=============================================================================
