--------------------------------- MODULE Db ---------------------------------
(***************************************************************************)
(* The write path of the storage engine (crates/storage/aikoql-v2/src):    *)
(* WAL -> memtable -> flush -> segment -> compaction, and recovery.        *)
(*                                                                         *)
(* On disk: WAL, SEGMENT files, and the CURRENT/MANIFEST pair.  In memory: *)
(* State (db.rs), behind one RwLock, and the WAL file behind one mutex     *)
(* that is only ever taken under the RwLock.  Three kinds of threads share *)
(* it: writers (write_at, or the committer thread's commit_group), one     *)
(* flush at a time (the flush pipe), and any number of compactions.  A     *)
(* flush detaches its memtables and builds segment files WITHOUT the lock, *)
(* and so does a compaction while it merges.                               *)
(*                                                                         *)
(* The process can die between any two steps, or half-way through an       *)
(* append; with it dies the memory and, on power loss, any suffix of the   *)
(* WAL that was never fsynced.                                             *)
(***************************************************************************)
EXTENDS Integers, Sequences

CONSTANTS
    Keys,        \* user keys
    Batches,     \* the op batches a client may write: [K -> {"put","del"}], K a set of keys
    Durability,  \* DurabilityMode: "Sync", "Async" or "GroupCommit"
    MaxGroup,    \* GroupCommit: the most batches in one group (max_batch_ops)
    Mergers,     \* threads that may run a compaction
    Faults,      \* the failures this instance admits, a subset of AllFaults
    MaxWrites,   \* bound: batches submitted over the whole behaviour
    MaxGen,      \* bound: no flush or merge starts at this manifest generation or above
    MaxCrashes   \* bound: process deaths

\* Failures an instance may admit; each gates the action or the disjunct of that name.
AllFaults ==
    {"appendFail",     \* write_all on the WAL fails, no byte written
     "appendTorn",     \* write_all fails after writing part of the frame
     "syncFail",       \* the WAL fsync fails after the append
     "buildFail",      \* flush phase B fails (disk full while writing a segment)
     "publishFail",    \* flush phase C fails at the manifest or at CURRENT
     "rewriteFail",    \* flush phase C fails in the WAL rewrite
     "mergeFail",      \* a compaction fails in its merge or at its publication
     "powerLoss",      \* the process dies with the machine: unsynced bytes may be lost
     "killInRewrite"}  \* the process dies inside the WAL rewrite, with a tail to save

ASSUME DbAssumption ==
    /\ Batches \subseteq UNION {[K -> {"put", "del"}] : K \in (SUBSET Keys) \ {{}}}
    /\ Durability \in {"Sync", "Async", "GroupCommit"}
    /\ MaxGroup \in Nat \ {0}
    /\ Mergers \cap {"free", "write", "flush"} = {}
    /\ Faults \subseteq AllFaults
    /\ {MaxWrites, MaxGen, MaxCrashes} \subseteq Nat

VARIABLES
    \* ---- disk ----
    wal,         \* the active WAL: a sequence of frames
    synced,      \* how many of its leading frames an fsync covers
    files,       \* SEGMENT-*.seg: a set of [id, rows]
    current,     \* the manifest CURRENT points at: [gen, segs]
    \* ---- State ----
    up,          \* the database is open
    active,      \* the mutable memtable, a set of rows
    immutables,  \* rotated memtables, oldest first
    segments,    \* attached segment readers, oldest first
    records,     \* segment_records, what the next manifest will list
    nextSeq, nextSeg, gen,
    \* ---- threads ----
    lock,        \* who holds State's write lock: "free", "write", "flush" or a merger
    flush,       \* the flush inside the flush pipe: [pc, segs, len, tail]
    merge,       \* per merger: [pc, inputs, gen, out]
    \* ---- what clients know ----
    hist,        \* every submitted batch: [ops, seq, st]
    crashes

disk    == <<wal, synced, files, current>>
mem     == <<active, immutables, segments, records>>
alloc   == <<nextSeq, nextSeg, gen>>
threads == <<lock, flush, merge>>
vars    == <<disk, up, mem, alloc, threads, hist, crashes>>

-----------------------------------------------------------------------------
(* Data *)

Range(s) == {s[i] : i \in DOMAIN s}

\* A tombstone, and what a get of an absent key returns.
None == 0

Row     == [key : Keys, seq : Nat, val : Nat]
Frame   == [seq : Nat, wid : Nat, ops : Batches, ok : BOOLEAN]
Segment == [id : Nat, rows : SUBSET Row]
Manifest == [gen : Nat, segs : Seq(Segment)]
Status  == {"pending", "acked", "failed", "lost"}
Write   == [ops : Batches, seq : Nat, st : Status]
FlushState == [pc : {"idle", "build", "publish", "truncate", "reappend"},
               segs : Seq(Segment), len : Nat, tail : Seq(Frame)]
MergeState == [pc : {"idle", "merging", "renamed", "published"},
               inputs : Seq(Segment), gen : Nat, out : Seq(Segment)]

\* Mutant: a delete carries a value outside the encoding.
RowsOf_BadDelete(f) ==
    {[key |-> k, seq |-> f.seq, val |-> IF f.ops[k] = "put" THEN f.wid ELSE -1]
        : k \in DOMAIN f.ops}

\* The rows one frame puts in a memtable: one sequence number for the whole batch.
RowsOf(f) ==
    {[key |-> k, seq |-> f.seq, val |-> IF f.ops[k] = "put" THEN f.wid ELSE None]
        : k \in DOMAIN f.ops}

\* What replay_reader applies: the rows of the whole frames.
Replay(w) == UNION {RowsOf(w[i]) : i \in {j \in DOMAIN w : w[j].ok}}

\* Memtable::get and SegmentReader::get: a table's newest row of a key.
Holds(rows, k) == \E r \in rows : r.key = k
Head1(rows, k) ==
    CHOOSE r \in rows : r.key = k /\ \A q \in rows : q.key = k => q.seq <= r.seq

\* get_inner / scan_from: the newest LAYER that holds the key answers, whatever
\* the sequence numbers of the layers below say; a tombstone answers None.
Lookup(layers, k) ==
    LET hits == {i \in DOMAIN layers : Holds(layers[i], k)}
    IN  IF hits = {} THEN None
        ELSE Head1(layers[CHOOSE i \in hits : \A j \in hits : j <= i], k).val

\* What is left of the WAL w when the process dies or a write to it fails half-way:
\* no fsynced frame is missing; of the others some prefix survives, and the frame
\* after it possibly in part.
Remains(w, n) ==
    LET whole == {i \in 0 .. Len(w) : n <= i}
    IN  {SubSeq(w, 1, i) : i \in whole} \cup
        {Append(SubSeq(w, 1, i), [w[i + 1] EXCEPT !.ok = FALSE]) : i \in whole \ {Len(w)}}

Tables(segs) == [i \in DOMAIN segs |-> segs[i].rows]

\* Mutant: a tombstone is dropped before it has shadowed the older rows of its key.
Merged_TombstoneFirst(segs) ==
    LET live == {r \in UNION {s.rows : s \in Range(segs)} : r.val # None}
    IN  {r \in live : \A q \in live : q.key = r.key => q.seq <= r.seq}

\* compaction::merge under KeepAll: a key's newest row over all inputs survives;
\* if that row is a tombstone the key disappears.
Merged(segs) ==
    LET all == UNION {s.rows : s \in Range(segs)}
    IN  {r \in all : /\ \A q \in all : q.key = r.key => q.seq <= r.seq
                     /\ r.val # None}

\* Writing SEGMENT-{id} replaces a file of that name.
AddFiles(segs) ==
    {f \in files : \A s \in Range(segs) : s.id # f.id} \cup Range(segs)

-----------------------------------------------------------------------------
(* Reads *)

\* Db::get, under the state read lock.
Get(k) == Lookup(Tables(segments) \o immutables \o <<active>>, k)

\* replay_reader accepts the WAL: damage only as its tail, sequence numbers increasing.
WalReadable ==
    \A i, j \in DOMAIN wal :
        i < j /\ wal[j].ok => wal[i].ok /\ wal[i].seq < wal[j].seq

\* validate_manifest and the reopen of every listed segment succeed: the files fs
\* hold each segment of the list, none is listed twice, none is empty.
Backed(segs, fs) ==
    /\ Range(segs) \subseteq fs
    /\ \A i, j \in DOMAIN segs : segs[i].id = segs[j].id => i = j
    /\ \A i \in DOMAIN segs : segs[i].rows # {}

\* What Db::open would rebuild from the disk as it is now.
Recovered(k) == Lookup(Append(Tables(current.segs), Replay(wal)), k)

-----------------------------------------------------------------------------
(* Initial state: the first open of an empty directory. *)

NoFlush == [pc |-> "idle", segs |-> <<>>, len |-> 0, tail |-> <<>>]
NoMerge == [pc |-> "idle", inputs |-> <<>>, gen |-> 0, out |-> <<>>]

Init ==
    /\ wal = <<>> /\ synced = 0 /\ files = {}
    /\ current = [gen |-> 1, segs |-> <<>>]
    /\ up = TRUE
    /\ active = {} /\ immutables = <<>> /\ segments = <<>> /\ records = <<>>
    /\ nextSeq = 1 /\ nextSeg = 1 /\ gen = 1
    /\ lock = "free" /\ flush = NoFlush /\ merge = [m \in Mergers |-> NoMerge]
    /\ hist = <<>> /\ crashes = 0

-----------------------------------------------------------------------------
(* Writers: write_at (a group of one) and commit_group, both under the     *)
(* state write lock from the sequence assignment to the apply.             *)

Pending == {i \in DOMAIN hist : hist[i].st = "pending"}

\* The batches in flight end as st.
Settle(st) ==
    [i \in DOMAIN hist |-> IF i \in Pending THEN [hist[i] EXCEPT !.st = st] ELSE hist[i]]

\* A group takes one more batch.
MayAppend ==
    /\ up
    /\ Len(hist) < MaxWrites
    /\ \/ lock = "free"
       \/ lock = "write" /\ Durability = "GroupCommit"
                         /\ \E i \in Pending : Len(hist) - i + 1 < MaxGroup
                                               /\ \A j \in Pending : i <= j

\* Assign the sequence number, append the frame.
WriteAppend(b) ==
    /\ MayAppend
    /\ lock' = "write"
    /\ hist' = Append(hist, [ops |-> b, seq |-> nextSeq, st |-> "pending"])
    /\ nextSeq' = nextSeq + 1
    /\ wal' = Append(wal, [seq |-> nextSeq, wid |-> Len(hist) + 1, ops |-> b, ok |-> TRUE])
    /\ UNCHANGED <<synced, files, current, up, mem, nextSeg, gen, flush, merge, crashes>>

\* The append fails: the sequence number stays consumed, the frames the group
\* appended before stay in the WAL, every batch of the group gets the error.
WriteAppendFail(b) ==
    /\ MayAppend
    /\ lock' = "free"
    /\ hist' = Append(Settle("failed"), [ops |-> b, seq |-> nextSeq, st |-> "failed"])
    /\ nextSeq' = nextSeq + 1
    /\ \/ /\ "appendFail" \in Faults
          /\ wal' = wal
       \/ /\ "appendTorn" \in Faults
          /\ wal' = Append(wal, [seq |-> nextSeq, wid |-> Len(hist) + 1,
                                 ops |-> b, ok |-> FALSE])
    /\ UNCHANGED <<synced, files, current, up, mem, nextSeg, gen, flush, merge, crashes>>

\* The durability boundary (one fsync per group; none in Async), the apply, the ack.
WriteApply ==
    /\ lock = "write"
    /\ lock' = "free"
    /\ synced' = IF Durability = "Async" THEN synced ELSE Len(wal)
    /\ active' = active \cup UNION {RowsOf(f) : f \in {g \in Range(wal) : g.wid \in Pending}}
    /\ hist' = Settle("acked")
    /\ UNCHANGED <<wal, files, current, up, immutables, segments, records, alloc,
                   flush, merge, crashes>>

\* The fsync fails: nothing is applied, the frames stay in the WAL.
WriteSyncFail ==
    /\ "syncFail" \in Faults /\ Durability # "Async"
    /\ lock = "write"
    /\ lock' = "free"
    /\ hist' = Settle("failed")
    /\ UNCHANGED <<disk, up, mem, alloc, flush, merge, crashes>>

-----------------------------------------------------------------------------
(* Flush: one at a time, in three phases.  Phase B runs without the lock.  *)

\* rotate()
Rotate ==
    /\ up /\ lock = "free" /\ active # {}
    /\ immutables' = Append(immutables, active)
    /\ active' = {}
    /\ UNCHANGED <<disk, up, segments, records, alloc, threads, hist, crashes>>

\* flush_phase_a: rotate, detach every immutable, reserve its segment id, note
\* the WAL length.  From here to phase C the rows are in the flush plan only.
FlushPhaseA ==
    /\ up /\ lock = "free" /\ flush.pc = "idle" /\ gen < MaxGen
    /\ LET all == IF active = {} THEN immutables ELSE Append(immutables, active)
       IN  /\ all # <<>>
           /\ flush' = [pc |-> "build", len |-> Len(wal), tail |-> <<>>,
                        segs |-> [i \in DOMAIN all |-> [id |-> nextSeg + i - 1,
                                                        rows |-> all[i]]]]
           /\ nextSeg' = nextSeg + Len(all)
    /\ active' = {} /\ immutables' = <<>>
    /\ UNCHANGED <<disk, up, segments, records, nextSeq, gen, lock, merge, hist, crashes>>

\* flush_phase_b: write, sync and reopen the segment files.
FlushPhaseB ==
    /\ flush.pc = "build"
    /\ files' = AddFiles(flush.segs)
    /\ flush' = [flush EXCEPT !.pc = "publish"]
    /\ UNCHANGED <<wal, synced, current, up, mem, alloc, lock, merge, hist, crashes>>

\* An I/O error in phase B returns out of flush_entry; the plan, and the
\* memtables in it, are dropped.
FlushPhaseBFail ==
    /\ "buildFail" \in Faults
    /\ flush.pc = "build"
    /\ flush' = NoFlush
    /\ UNCHANGED <<disk, up, mem, alloc, lock, merge, hist, crashes>>

\* Mutant: the new segments go below the old ones.
Extend_Below(segs) == flush.segs \o segs

\* Segment lists are kept oldest first: a flush publishes and attaches at the end.
Extend(segs) == segs \o flush.segs

\* Mutant: the manifest is published under the generation State already has.
NextGen_Same == gen

\* The generation the next manifest gets.
NextGen == gen + 1

\* flush_phase_c up to CURRENT, under the lock taken again: the records join
\* whatever a compaction left in State meanwhile.
FlushPublish ==
    /\ flush.pc = "publish" /\ lock = "free"
    /\ lock' = "flush"
    /\ records' = Extend(records)
    /\ gen' = NextGen
    /\ current' = [gen |-> gen', segs |-> records']
    /\ flush' = [flush EXCEPT !.pc = "truncate"]
    /\ UNCHANGED <<wal, synced, files, up, active, immutables, segments,
                   nextSeq, nextSeg, merge, hist, crashes>>

\* The manifest or CURRENT fails to publish (or CURRENT lands and its directory
\* sync fails): State keeps the new records and generation, no reader is attached.
FlushPublishFail ==
    /\ "publishFail" \in Faults
    /\ flush.pc = "publish" /\ lock = "free"
    /\ records' = Extend(records)
    /\ gen' = NextGen
    /\ current' \in {current, [gen |-> gen', segs |-> records']}
    /\ flush' = NoFlush
    /\ UNCHANGED <<wal, synced, files, up, active, immutables, segments,
                   nextSeq, nextSeg, lock, merge, hist, crashes>>

\* Mutant: the whole WAL is truncated (the rule before flushes left the lock).
UncoveredTail_None == <<>>

\* The frames appended since phase A noted the length; no segment covers them.
UncoveredTail == SubSeq(wal, flush.len + 1, Len(wal))

\* Save the tail, empty the file.
FlushTruncate ==
    /\ flush.pc = "truncate"
    /\ flush' = [flush EXCEPT !.pc = "reappend",
                              !.tail = UncoveredTail]
    /\ wal' = <<>> /\ synced' = 0
    /\ UNCHANGED <<files, current, up, mem, alloc, lock, merge, hist, crashes>>

\* Write the tail back, sync, attach the readers, release the lock.
FlushReappend ==
    /\ flush.pc = "reappend"
    /\ wal' = flush.tail /\ synced' = Len(flush.tail)
    /\ segments' = Extend(segments)
    /\ flush' = NoFlush /\ lock' = "free"
    /\ UNCHANGED <<files, current, up, active, immutables, records, alloc,
                   merge, hist, crashes>>

\* An error in the rewrite returns before the readers are attached; after
\* set_len(0) only some prefix of the tail is back in the file.
FlushRewriteFail ==
    /\ "rewriteFail" \in Faults
    /\ \/ /\ flush.pc = "truncate"
          /\ UNCHANGED <<wal, synced>>
       \/ /\ flush.pc = "reappend"
          /\ wal' \in Remains(flush.tail, 0)
          /\ synced' = 0
    /\ flush' = NoFlush /\ lock' = "free"
    /\ UNCHANGED <<files, current, up, mem, alloc, merge, hist, crashes>>

-----------------------------------------------------------------------------
(* Compaction: compact_impl under KeepAll. *)

\* Phase A: clone the segment list and note the generation (read lock).
MergeCapture(m) ==
    /\ up /\ lock = "free" /\ merge[m].pc = "idle" /\ gen < MaxGen
    /\ segments # <<>>
    /\ merge' = [merge EXCEPT ![m] = [pc |-> "merging", inputs |-> segments,
                                      gen |-> gen, out |-> <<>>]]
    /\ UNCHANGED <<disk, up, mem, alloc, lock, flush, hist, crashes>>

\* Mutant: phase C does not compare generations.
Fresh_Unchecked(m) == TRUE

\* No flush and no other merge published since phase A.
Fresh(m) == gen = merge[m].gen

\* Phase C, the generation moved since A: discard the staged output.
MergeStale(m) ==
    /\ merge[m].pc = "merging" /\ lock = "free"
    /\ ~Fresh(m)
    /\ merge' = [merge EXCEPT ![m] = NoMerge]
    /\ UNCHANGED <<disk, up, mem, alloc, lock, flush, hist, crashes>>

\* Phase C, fresh: draw a real id and rename the staged file into place.  A merge
\* that leaves nothing alive publishes no segment.
MergeRename(m) ==
    /\ merge[m].pc = "merging" /\ lock = "free"
    /\ Fresh(m)
    /\ LET live == Merged(merge[m].inputs)
           out  == IF live = {} THEN <<>> ELSE <<[id |-> nextSeg, rows |-> live]>>
       IN  /\ merge' = [merge EXCEPT ![m].pc = "renamed", ![m].out = out]
           /\ files' = AddFiles(out)
           /\ nextSeg' = nextSeg + Len(out)
    /\ lock' = m
    /\ UNCHANGED <<wal, synced, current, up, mem, nextSeq, gen, flush, hist, crashes>>

\* Manifest and CURRENT at the next generation.
MergePublish(m) ==
    /\ merge[m].pc = "renamed"
    /\ gen' = NextGen
    /\ current' = [gen |-> gen', segs |-> merge[m].out]
    /\ merge' = [merge EXCEPT ![m].pc = "published"]
    /\ UNCHANGED <<wal, synced, files, up, mem, nextSeq, nextSeg, lock, flush, hist, crashes>>

\* Swap the readers, delete the replaced files.  A file a snapshot pinned, or
\* that cannot be removed, stays.
MergeSwap(m) ==
    /\ merge[m].pc = "published"
    /\ \E left \in SUBSET Range(records) :
          files' = {f \in files : \/ \A r \in Range(records) : r.id # f.id
                                  \/ \E r \in left : r.id = f.id}
    /\ segments' = merge[m].out /\ records' = merge[m].out
    /\ merge' = [merge EXCEPT ![m] = NoMerge]
    /\ lock' = "free"
    /\ UNCHANGED <<wal, synced, current, up, active, immutables, alloc, flush, hist, crashes>>

\* An error in the merge, or (after the renames) at the manifest or CURRENT.
MergeFail(m) ==
    /\ "mergeFail" \in Faults
    /\ \/ /\ merge[m].pc = "merging"
          /\ UNCHANGED <<gen, current, lock>>
       \/ /\ merge[m].pc = "renamed"
          /\ gen' = NextGen
          /\ current' \in {current, [gen |-> gen', segs |-> merge[m].out]}
          /\ lock' = "free"
    /\ merge' = [merge EXCEPT ![m] = NoMerge]
    /\ UNCHANGED <<wal, synced, files, up, mem, nextSeq, nextSeg, flush, hist, crashes>>

-----------------------------------------------------------------------------
(* Process death and recovery *)

\* A write in flight has failed as far as its client can tell; in Async an acked
\* write may be gone unless its frame or a published segment holds it.
HistAfterCrash(w) ==
    [i \in DOMAIN hist |->
        IF hist[i].st = "pending" THEN [hist[i] EXCEPT !.st = "failed"]
        ELSE IF /\ Durability = "Async" /\ hist[i].st = "acked"
                /\ \E f \in Range(wal) : f.wid = i
                /\ ~ \E f \in Range(w) : f.wid = i /\ f.ok
                /\ ~ \E s \in Range(current.segs) : \E r \in s.rows : r.seq = hist[i].seq
        THEN [hist[i] EXCEPT !.st = "lost"]
        ELSE hist[i]]

\* How many leading frames survive for certain: the fsynced ones if the machine
\* goes down, every finished append if only the process does.
Surviving == IF "powerLoss" \in Faults THEN synced
             ELSE IF lock = "write" THEN Len(wal) - 1 ELSE Len(wal)

Crash ==
    /\ up /\ crashes < MaxCrashes
    /\ crashes' = crashes + 1
    /\ IF flush.pc = "reappend"
       THEN /\ flush.tail = <<>> \/ "killInRewrite" \in Faults
            /\ wal' \in Remains(flush.tail, 0)
       ELSE wal' \in Remains(wal, Surviving)
    /\ synced' = Len(wal')
    /\ hist' = HistAfterCrash(wal')
    /\ up' = FALSE
    /\ active' = {} /\ immutables' = <<>> /\ segments' = <<>> /\ records' = <<>>
    /\ lock' = "free" /\ flush' = NoFlush /\ merge' = [m \in Mergers |-> NoMerge]
    /\ UNCHANGED <<files, current, alloc>>

\* Mutant: the largest number of S is handed out again.
IsNext_Reuse(n, S) == (\A x \in S : x <= n) /\ (n = 1 \/ n \in S)

\* One more than the largest number of S, 1 when there is none.
IsNext(n, S) == (\A x \in S : x < n) /\ (n = 1 \/ n - 1 \in S)

\* Db::open: check the manifest, attach its segments, replay the WAL, drop a torn
\* tail, recover the allocators.  A write nobody was told about is settled here.
Open ==
    /\ ~up
    /\ Backed(current.segs, files) /\ WalReadable
    /\ up' = TRUE
    /\ \E n \in 0 .. Len(wal) :
          /\ \A i \in DOMAIN wal : wal[i].ok <=> i <= n
          /\ wal' = SubSeq(wal, 1, n)
          /\ synced' = n
    /\ active' = Replay(wal)
    /\ records' = current.segs /\ segments' = current.segs
    /\ gen' = current.gen
    /\ LET ids  == {s.id : s \in Range(current.segs)}
           seqs == {f.seq : f \in Range(wal')} \cup
                   UNION {{r.seq : r \in s.rows} : s \in Range(current.segs)}
       IN  /\ \E n \in {1} \cup {i + 1 : i \in ids} : IsNext(n, ids) /\ nextSeg' = n
           /\ \E n \in {1} \cup {i + 1 : i \in seqs} : IsNext(n, seqs) /\ nextSeq' = n
    /\ hist' = [i \in DOMAIN hist |->
                   IF hist[i].st # "failed" THEN hist[i]
                   ELSE [hist[i] EXCEPT !.st =
                            IF \E f \in Range(wal') : f.wid = i THEN "acked" ELSE "lost"]]
    /\ UNCHANGED <<files, current, immutables, threads, crashes>>

-----------------------------------------------------------------------------

Writers == \/ \E b \in Batches : WriteAppend(b) \/ WriteAppendFail(b)
           \/ WriteApply \/ WriteSyncFail
Flusher == \/ FlushPhaseA \/ FlushPhaseB \/ FlushPhaseBFail
           \/ FlushPublish \/ FlushPublishFail
           \/ FlushTruncate \/ FlushReappend \/ FlushRewriteFail
Merger(m) == \/ MergeCapture(m) \/ MergeStale(m) \/ MergeRename(m)
             \/ MergePublish(m) \/ MergeSwap(m) \/ MergeFail(m)

Next == \/ Writers \/ Rotate \/ Flusher
        \/ \E m \in Mergers : Merger(m)
        \/ Crash \/ Open

Spec == Init /\ [][Next]_vars

-----------------------------------------------------------------------------
(* Properties *)

\* Type correctness of State, the files and the threads' local state.
TypeOK ==
    /\ wal \in Seq(Frame) /\ synced \in Nat
    /\ files \subseteq Segment
    /\ current \in Manifest
    /\ up \in BOOLEAN
    /\ active \subseteq Row /\ immutables \in Seq(SUBSET Row)
    /\ segments \in Seq(Segment) /\ records \in Seq(Segment)
    /\ nextSeq \in Nat /\ nextSeg \in Nat /\ gen \in Nat
    /\ lock \in {"free", "write", "flush"} \cup Mergers
    /\ flush \in FlushState /\ merge \in [Mergers -> MergeState]
    /\ hist \in Seq(Write) /\ crashes \in Nat

With(st) == {i \in DOMAIN hist : hist[i].st \in st}

\* The value the writes W, in submission order, give a key.
Latest(W, k) ==
    LET touch == {i \in W : k \in DOMAIN hist[i].ops}
    IN  IF touch = {} THEN None
        ELSE LET i == CHOOSE i \in touch : \A j \in touch : j <= i
             IN  IF hist[i].ops[k] = "put" THEN i ELSE None

\* A restart would find each segment the manifest lists on disk, whole, and listed
\* once (db.rs:533-537, 615-648).
ManifestBacked == Backed(current.segs, files)

\* Whenever the process has died, Db::open accepts the disk and finds on it every
\* acknowledged batch, of every batch that ended in an error or had no answer yet
\* either all or nothing, and nothing else (db.rs:12-13, "acked == durable").
AckedDurable ==
    ~up =>
    /\ ManifestBacked /\ WalReadable
    /\ \E S \in SUBSET With({"pending", "failed"}) :
          \A k \in Keys : Recovered(k) = Latest(S \cup With({"acked"}), k)

\* Between them the layers of the running database hold exactly the acknowledged
\* batches: nothing falls between a memtable, the plan of a running flush and the
\* attached segments, whatever a compaction swaps meanwhile.
LayersComplete ==
    up => \A k \in Keys :
             Lookup(Tables(segments) \o Tables(flush.segs) \o immutables \o <<active>>, k)
                 = Latest(With({"acked"}), k)

\* get and scan let the newest LAYER answer and never compare sequence numbers
\* across layers (db.rs:1912-1989): in memory and on disk, a lower layer must hold
\* nothing newer than a layer above it that holds the same key.
OrderedLayers(layers) ==
    \A i, j \in DOMAIN layers : i < j =>
        \A r \in layers[i] : Holds(layers[j], r.key) =>
            \E q \in layers[j] : q.key = r.key /\ r.seq <= q.seq
LayersOrdered ==
    /\ OrderedLayers(Tables(segments) \o Tables(flush.segs) \o immutables \o <<active>>)
    /\ OrderedLayers(Append(Tables(current.segs), Replay(wal)))

\* A read sees every acknowledged write (db.rs:13, "acked == durable AND visible";
\* db.rs:22, "reads keep seeing it").
AckedVisible ==
    up => \A k \in Keys : Get(k) = Latest(With({"acked"}), k)

\* Acknowledged batches have increasing sequence numbers: last_seq is "the newest
\* committed seq: a follower's resume point" (db.rs:1086), so it never moves back.
SeqsIncrease ==
    \A i, j \in With({"acked"}) : i < j => hist[i].seq < hist[j].seq

Ids(segs) == {s.id : s \in Range(segs)}

\* No flush, compaction, failed publication or reused segment id ever takes a file
\* away from under CURRENT.  What keeps a listed file alive is who may own a segment
\* id: every id listed on disk or in State, in the plan of a running
\* flush or in the output of a merge is below nextSeg, and a plan or an output
\* shares none with the lists a merge deletes by (db.rs:2816-2820, 2910-2927).
ListsBacked ==
    /\ Backed(current.segs, files) /\ Backed(records, files)
    /\ \A i \in Ids(current.segs) \cup Ids(records) : i < nextSeg
PlanOwned ==
    flush.pc \in {"build", "publish"} =>
        /\ Backed(flush.segs, IF flush.pc = "build" THEN Range(flush.segs) ELSE files)
        /\ \A i \in Ids(flush.segs) :
              i < nextSeg /\ i \notin Ids(current.segs) /\ i \notin Ids(records)
OutputOwned ==
    \A m \in Mergers : merge[m].pc \in {"renamed", "published"} =>
        /\ lock = m
        /\ Backed(merge[m].out, files)
        /\ \A i \in Ids(merge[m].out) :
              /\ i < nextSeg /\ i \notin Ids(records)
              /\ flush.pc \in {"build", "publish"} => i \notin Ids(flush.segs)
        /\ merge[m].pc = "published" => current.segs = merge[m].out
ThreadsOwned ==
    /\ flush.pc \in {"truncate", "reappend"} => lock = "flush"
    /\ ~up => flush = NoFlush /\ merge = [m \in Mergers |-> NoMerge]
    /\ \A i \in DOMAIN immutables : immutables[i] # {}
FilesOwned == ListsBacked /\ PlanOwned /\ OutputOwned /\ ThreadsOwned

\* The manifest generation on disk never moves back, and each generation that is
\* published over another replaces it by a newer one.
GenerationAdvances ==
    [][current' # current => current.gen < current'.gen]_vars

\* A lookup goes through the layers newest first and stops at the first hit: they
\* are ordered, and what they show is what was committed.
LayersSound == LayersOrdered /\ LayersComplete
=============================================================================
