--------------------------- MODULE IndexMaintainer ---------------------------
(***************************************************************************)
(* The derived indexes and the thread that keeps them: the scheduler's       *)
(* IndexMaintainer (engines/scheduler/src/lib.rs) feeds committed events to  *)
(* the vector and text indexes and to a declared property index              *)
(* (kernel/src/index/property.rs), and the planner answers equality lookups  *)
(* from that index plus the journal tail it has not applied                  *)
(* (runtime/src/cbo.rs).                                                     *)
(*                                                                           *)
(* An event is an object and what its version at that commit holds: a key    *)
(* value, or nothing (deleted, or without the property).  The vector and     *)
(* text indexes are one map; one property index may be declared, dropped and *)
(* declared again, each time as a new instance (gen).  The catalog's own     *)
(* rows are journal events no index holds; they are left out.                *)
(***************************************************************************)
EXTENDS Naturals, Sequences, FiniteSets, FiniteSetsExt

CONSTANTS Objs, Vals, Nil,
          MaxEvents,        \* commits
          MaintainerBatch,  \* MAINTAINER_BATCH
          IndexTailCap,     \* INDEX_TAIL_CAP
          MaxUpsets         \* errors, crashes and declarations

ASSUME MaintainerAssumption ==
    /\ IsFiniteSet(Objs) /\ Objs # {} /\ Nil \notin Vals
    /\ {MaxEvents, IndexTailCap, MaxUpsets} \subseteq Nat
    /\ MaintainerBatch \in Nat \ {0}

VARIABLES
    log,     \* the journal: a sequence of [obj, val]
    ann,     \* contents of the vector and text indexes
    ix,      \* the property index: catalog row, registered state, contents, stamp
    reseed,  \* the rebuilds under way: by a declaration, by a starting maintainer
    mt,      \* the maintainer thread
    water,   \* MaintainerInner::water
    ckpt,    \* the published checkpoint
    tmp,     \* the one being written
    q,       \* a lookup between its two reads
    upsets   \* errors, crashes and declarations so far

mtVars == <<log, ann, ix, reseed, mt, water, ckpt, tmp, q, upsets>>

Contents == [Objs -> Vals \cup {Nil}]
Bare == [o \in Objs |-> Nil]
NoCkpt == [full |-> FALSE, water |-> 0, ann |-> Bare]
NoTmp == [step |-> "none", water |-> 0, ann |-> Bare]
NoReseed == [step |-> "idle", h0 |-> 0, gen |-> 0]
NoLookup == [step |-> "idle", val |-> Nil, tail |-> {}, head |-> 0, quiet |-> FALSE]
Off == [pc |-> "off", resumed |-> FALSE, from |-> 0, recv |-> 0, live |-> FALSE, pend |-> <<>>,
        todo |-> 0, pos |-> 0, gen |-> 0, failed |-> FALSE]

JournalHead == Len(log)

EventsOf(o) == {i \in 1..JournalHead : log[i].obj = o}
LastOf(o) == IF EventsOf(o) = {} THEN 0 ELSE Max(EventsOf(o))

\* scan_heads: what the newest version of each object holds.
Heads == [o \in Objs |-> IF LastOf(o) = 0 THEN Nil ELSE log[LastOf(o)].val]

-----------------------------------------------------------------------------
(* The commit pipeline, as far as the indexes see it.                        *)

\* A commit writes the journal and broadcasts its event before it releases the
\* pipe lock; a receiver sees it any time later.
CommitEvent(o) ==
    /\ JournalHead < MaxEvents
    /\ \E v \in Vals \cup {Nil} : log' = Append(log, [obj |-> o, val |-> v])
    /\ UNCHANGED <<ann, ix, reseed, mt, water, ckpt, tmp, q, upsets>>

-----------------------------------------------------------------------------
(* Declaring, reseeding and dropping the property index.                     *)

\* PropertyIndex::rebuild begins: the head first; nothing to do for a Ready
\* index already stamped there.
RebuildStart(state, stamp, gen) ==
    IF stamp = JournalHead /\ state = "Ready"
    THEN NoReseed
    ELSE [step |-> "begun", h0 |-> JournalHead, gen |-> gen]

\* catalog_create_index: the row, the registration, and the rebuild begins.
CreateIndex ==
    /\ ix.row = "none" /\ upsets < MaxUpsets
    /\ ix' = [row |-> "Building", reg |-> "Building", map |-> Bare, stamp |-> 0,
              over |-> 0, gen |-> ix.gen + 1]
    /\ reseed' = [reseed EXCEPT !["ddl"] = RebuildStart("Building", 0, ix.gen + 1)]
    /\ upsets' = upsets + 1
    /\ UNCHANGED <<log, ann, mt, water, ckpt, tmp, q>>

\* rebuild_index on a Ready index (the SDK declares it on every connect).
RebuildIndex ==
    /\ ix.reg = "Ready" /\ ix.row = "Ready" /\ reseed["ddl"].step = "idle"
    /\ upsets < MaxUpsets
    /\ reseed' = [reseed EXCEPT !["ddl"] = RebuildStart("Ready", ix.stamp, ix.gen)]
    /\ upsets' = upsets + 1
    /\ UNCHANGED <<log, ann, ix, mt, water, ckpt, tmp, q>>

\* rebuild: the stamp is invalidated before the map is touched ...
InvalidateStamp(c) ==
    /\ reseed[c].step = "begun"
    /\ ix' = IF reseed[c].gen = ix.gen THEN [ix EXCEPT !.stamp = 0] ELSE ix
    /\ reseed' = [reseed EXCEPT ![c].step = "scan"]
    /\ q' = [q EXCEPT !.quiet = FALSE]
    /\ UNCHANGED <<log, ann, mt, water, ckpt, tmp, upsets>>

\* ... then, under the map's write lock, the heads are scanned, and the stamp is
\* the head read before the scan.
ScanHeads(c) ==
    /\ reseed[c].step = "scan"
    /\ ix' = IF reseed[c].gen = ix.gen
             THEN [ix EXCEPT !.map = Heads, !.stamp = reseed[c].h0, !.over = reseed[c].h0]
             ELSE ix
    /\ reseed' = [reseed EXCEPT ![c] = NoReseed]
    /\ UNCHANGED <<log, ann, mt, water, ckpt, tmp, q, upsets>>

\* catalog_create_index ends: the row, then the registered state.
IndexReady ==
    /\ ix.reg = "Building" /\ reseed["ddl"].step = "idle"
    /\ ix' = IF ix.row = "Building" THEN [ix EXCEPT !.row = "Ready"]
                                    ELSE [ix EXCEPT !.reg = "Ready"]
    /\ UNCHANGED <<log, ann, reseed, mt, water, ckpt, tmp, q, upsets>>

\* catalog_drop_index: Dropping on the row and in the registry, then gone.
DropIndex ==
    /\ \/ /\ ix.reg = "Ready" /\ reseed["ddl"].step = "idle"
          /\ ix' = [ix EXCEPT !.row = "Dropping", !.reg = "Dropping"]
       \/ /\ ix.reg = "Dropping" /\ q.step = "idle"
          /\ ix' = [ix EXCEPT !.row = "none", !.reg = "none", !.map = Bare, !.stamp = 0, !.over = 0]
    /\ UNCHANGED <<log, ann, reseed, mt, water, ckpt, tmp, q, upsets>>

-----------------------------------------------------------------------------
(* The maintainer thread.                                                    *)

\* kernel.notify: the channel carries what is broadcast from here on.
Subscribed(m) == [m EXCEPT !.recv = JournalHead]

\* do_start: subscribe, then load the checkpoint if one is complete, else begin
\* with the whole journal.  checkpoint writes the property files under
\* properties/ and start_at hands restore the directory above it, so no file is
\* found and a registered property index is rebuilt from the heads.
MtStart ==
    /\ mt.pc \in {"off", "fresh"}
    /\ LET resume == ckpt.full /\ mt.pc = "off"
       IN  /\ mt' = [Subscribed(Off) EXCEPT !.pc = "cut", !.resumed = resume,
                                            !.from = IF resume THEN ckpt.water ELSE 0]
           /\ ann' = IF resume THEN ckpt.ann ELSE Bare
           /\ reseed' = IF resume /\ ix.reg # "none"
                        THEN [reseed EXCEPT !["mt"] = RebuildStart(ix.reg, ix.stamp, ix.gen)]
                        ELSE reseed
    /\ q' = [q EXCEPT !.quiet = FALSE]
    /\ UNCHANGED <<log, ix, water, ckpt, tmp, upsets>>

\* The events to replay: the journal past the checkpoint's water.
Interval(a, b) == [i \in 1..(IF b > a THEN b - a ELSE 0) |-> a + i]

MtCut ==
    /\ mt.pc = "cut" /\ reseed["mt"].step = "idle"
    /\ LET events == Interval(mt.from, JournalHead)
       IN  mt' = [mt EXCEPT !.pc = IF events = <<>> THEN "run" ELSE "replay",
                            !.pend = events, !.todo = Min({MaintainerBatch, Len(events)}),
                            !.gen = ix.gen]
    /\ water' = IF mt'.pc = "run" THEN mt.from ELSE water
    /\ UNCHANGED <<log, ann, ix, reseed, ckpt, tmp, q, upsets>>

\* Receiving in the loop: events the replay has applied are skipped until the
\* first one past it.
Taken(m, seq) ==
    IF ~m.live /\ seq <= m.from
    THEN [m EXCEPT !.recv = seq]
    ELSE [m EXCEPT !.recv = seq, !.live = TRUE, !.pend = Append(@, seq)]

MtReceive ==
    /\ mt.pc = "run" /\ mt.todo = 0 /\ ~mt.failed
    /\ mt.recv < JournalHead /\ Len(mt.pend) < MaintainerBatch
    /\ mt' = Taken(mt, mt.recv + 1)
    /\ UNCHANGED <<log, ann, ix, reseed, water, ckpt, tmp, q, upsets>>

\* A slip in the loop: only a full batch is drained.
DrainNow_FullOnly == Len(mt.pend) = MaintainerBatch

\* A batch is drained when it is full, when the channel is quiet, or again
\* after a failure.
DrainNow == \/ Len(mt.pend) = MaintainerBatch
            \/ mt.pend # <<>> /\ mt.recv = JournalHead
            \/ mt.failed

MtDrain ==
    /\ mt.pc = "run" /\ mt.todo = 0 /\ DrainNow
    /\ mt' = [mt EXCEPT !.todo = Len(mt.pend), !.pos = 0, !.gen = ix.gen]
    /\ UNCHANGED <<log, ann, ix, reseed, water, ckpt, tmp, q, upsets>>

\* apply_batch, one event: the version at its commit, in every index that was
\* registered when the batch began.
MtApply ==
    /\ mt.pc \in {"replay", "run"} /\ mt.pos < mt.todo
    /\ LET i == mt.pend[mt.pos + 1]
       IN  /\ ann' = [ann EXCEPT ![log[i].obj] = log[i].val]
           /\ ix' = IF mt.gen = ix.gen /\ ix.reg # "none"
                    THEN [ix EXCEPT !.map[log[i].obj] = log[i].val]
                    ELSE ix
    /\ mt' = [mt EXCEPT !.pos = @ + 1]
    /\ UNCHANGED <<log, reseed, water, ckpt, tmp, q, upsets>>

\* A slip in apply_batch: the indexes are stamped with the journal's head.
BatchStamp_Head == JournalHead

\* set_applied_seq takes the last event of the batch.
BatchStamp == mt.pend[mt.todo]

\* apply_batch ends: the batch's last event stamps every index.  The replay
\* goes on with the next chunk; the loop stores the water mark.
MtBatchDone ==
    /\ mt.pc \in {"replay", "run"} /\ mt.todo > 0 /\ mt.pos = mt.todo
    /\ LET last == mt.pend[mt.todo]
           rest == SubSeq(mt.pend, mt.todo + 1, Len(mt.pend))
           done == rest = <<>>
       IN  /\ ix' = IF mt.gen = ix.gen /\ ix.reg # "none" THEN [ix EXCEPT !.stamp = BatchStamp] ELSE ix
           /\ mt' = [mt EXCEPT !.pc = IF done THEN "run" ELSE "replay",
                               !.pend = rest, !.pos = 0, !.failed = FALSE,
                               !.todo = IF done THEN 0 ELSE Min({MaintainerBatch, Len(rest)}),
                               !.from = IF mt.pc = "replay" THEN last ELSE @,
                               !.gen = ix.gen]
           /\ water' = IF done THEN last ELSE water
    /\ UNCHANGED <<log, ann, reseed, ckpt, tmp, q, upsets>>

\* The next event the maintainer will apply (after a failed start, any).
NextEvent ==
    CASE mt.pc = "off" -> IF ckpt.full THEN ckpt.water + 1 ELSE 1
      [] mt.pc \in {"fresh", "dead"} -> 1
      [] mt.pc = "cut" -> mt.from + 1
      [] mt.pc \in {"replay", "run"} ->
            IF mt.pend = <<>> THEN Max({mt.recv, mt.from}) + 1
            ELSE IF mt.pos < Len(mt.pend) THEN mt.pend[mt.pos + 1]
            ELSE mt.pend[Len(mt.pend)] + 1

\* A reseed, or a replay that is starting over, has stamped the index past events
\* the maintainer is yet to apply (ix.over is a ghost).
Overtaken == NextEvent <= ix.over

\* A failed batch stays pending and is applied again from its first event; a
\* failed replay of a resume starts over without the checkpoint, a failed full
\* replay leaves no maintainer.  A lookup under way is no longer quiet (a ghost)
\* when a reseed is then ahead of the maintainer.
AfterError(m) ==
    IF m.pc = "run" THEN [m EXCEPT !.failed = TRUE, !.todo = 0, !.pos = 0]
    ELSE [Off EXCEPT !.pc = IF m.resumed THEN "fresh" ELSE "dead"]

MtError ==
    /\ mt.todo > 0 /\ mt.pos < mt.todo
    /\ upsets < MaxUpsets
    /\ mt' = AfterError(mt)
    /\ ix' = IF mt.pc = "replay" THEN [ix EXCEPT !.over = ix.stamp] ELSE ix
    /\ upsets' = upsets + 1
    /\ UNCHANGED <<log, ann, reseed, water, ckpt, tmp>>
    /\ q' = [q EXCEPT !.quiet = @ /\ ~Overtaken']

-----------------------------------------------------------------------------
(* Checkpoints, crashes.                                                     *)

\* A slip in checkpoint: the water mark read after the contents.
TmpWater_Late == IF tmp.step = "copied" THEN water ELSE 0

\* checkpoint reads the water mark first, so the contents are at or past it.
TmpWater == IF tmp.step = "none" THEN water ELSE tmp.water

\* checkpoint, a step at a time: the water mark; the contents, and the old
\* directory removed; the new one renamed into place.  The timer leaves an index
\* alone that has not moved since.
Checkpoint ==
    /\ mt.pc = "run"
    /\ \/ /\ tmp.step = "none" /\ ~(ckpt.full /\ ckpt.water = water)
          /\ tmp' = [tmp EXCEPT !.step = "water", !.water = TmpWater]
          /\ UNCHANGED ckpt
       \/ /\ tmp.step = "water"
          /\ tmp' = [tmp EXCEPT !.step = "copied", !.ann = ann]
          /\ ckpt' = NoCkpt
       \/ /\ tmp.step = "copied"
          /\ ckpt' = [full |-> TRUE, water |-> TmpWater, ann |-> tmp.ann]
          /\ tmp' = NoTmp
    /\ UNCHANGED <<log, ann, ix, reseed, mt, water, q, upsets>>

\* load_property_indexes_with at open: a Dropping row is finished off, a
\* declaration cut short is rebuilt, a Ready index starts empty.
LoadedIndex ==
    CASE ix.row \in {"none", "Dropping"} ->
            [ix EXCEPT !.row = "none", !.reg = "none", !.map = Bare, !.stamp = 0, !.over = 0]
      [] ix.row = "Building" ->
            [ix EXCEPT !.row = "Ready", !.reg = "Ready", !.map = Heads,
                       !.stamp = JournalHead, !.over = JournalHead]
      [] ix.row = "Ready" -> [ix EXCEPT !.reg = "Ready", !.map = Bare, !.stamp = 0, !.over = 0]

\* A kill and the next open: the journal, the catalog row and the published
\* checkpoint remain.  An event journalled but not broadcast is in the journal.
MtCrash ==
    /\ upsets < MaxUpsets
    /\ upsets' = upsets + 1
    /\ ann' = Bare
    /\ ix' = LoadedIndex
    /\ reseed' = [c \in {"ddl", "mt"} |-> NoReseed]
    /\ mt' = Off /\ water' = 0 /\ tmp' = NoTmp /\ q' = NoLookup
    /\ UNCHANGED <<log, ckpt>>

-----------------------------------------------------------------------------
(* Lookups.                                                                  *)

\* A slip in unapplied: the first event after the stamp is taken for applied.
Unapplied_PastNext == {log[i].obj : i \in ix.stamp + 2..JournalHead}

\* unapplied: the objects of every event after the stamp.
Unapplied == {log[i].obj : i \in ix.stamp + 1..JournalHead}

\* may_serve_exact and the cap, then the first read of patched_eq.
LookupTail(v) ==
    /\ q.step = "idle" /\ ix.reg = "Ready"
    /\ JournalHead <= ix.stamp + IndexTailCap
    /\ q' = [step |-> "tail", val |-> v, tail |-> Unapplied, head |-> JournalHead,
             quiet |-> ~Overtaken /\ \A c \in DOMAIN reseed : reseed[c].step # "scan"]
    /\ UNCHANGED <<log, ann, ix, reseed, mt, water, ckpt, tmp, upsets>>

\* patched_eq: the rows of the index and the tail.
Answered == {o \in Objs : ix.map[o] = q.val} \cup q.tail

LookupScan ==
    /\ q.step = "tail"
    /\ q' = NoLookup
    /\ UNCHANGED <<log, ann, ix, reseed, mt, water, ckpt, tmp, upsets>>

-----------------------------------------------------------------------------
MtInit ==
    /\ log = <<>> /\ ann = Bare
    /\ \E st \in {"none", "Ready"} :
          ix = [row |-> st, reg |-> st, map |-> Bare, stamp |-> 0, over |-> 0, gen |-> 0]
    /\ reseed = [c \in {"ddl", "mt"} |-> NoReseed]
    /\ mt = Off /\ water = 0 /\ ckpt = NoCkpt /\ tmp = NoTmp /\ q = NoLookup
    /\ upsets = 0

MtNext ==
    \/ \E o \in Objs : CommitEvent(o)
    \/ CreateIndex \/ RebuildIndex \/ IndexReady \/ DropIndex
    \/ \E c \in {"ddl", "mt"} : InvalidateStamp(c) \/ ScanHeads(c)
    \/ MtStart \/ MtCut \/ MtReceive \/ MtDrain \/ MtApply \/ MtBatchDone \/ MtError
    \/ Checkpoint \/ MtCrash
    \/ \E v \in Vals : LookupTail(v)
    \/ LookupScan

MtSpec == MtInit /\ [][MtNext]_mtVars

\* Threads run: the maintainer starts, receives
\* and applies, a rebuild goes on.  Commits, faults and DDL are not forced.
MtFair == MtSpec /\ WF_mtVars(MtStart \/ MtCut \/ MtReceive \/ MtDrain \/ MtApply \/ MtBatchDone)
                 /\ WF_mtVars(\E c \in {"ddl", "mt"} : InvalidateStamp(c) \/ ScanHeads(c))

-----------------------------------------------------------------------------
(* Properties.                                                               *)

\* Type invariant.
MtTypeOK ==
    /\ log \in Seq([obj : Objs, val : Vals \cup {Nil}])
    /\ water \in 0..JournalHead
    /\ ann \in Contents
    /\ ix.map \in Contents /\ ix.stamp \in 0..JournalHead
    /\ ix.row \in {"none", "Building", "Ready", "Dropping"}
    /\ mt.pc \in {"off", "fresh", "cut", "replay", "run", "dead"}
    /\ mt.pos <= mt.todo /\ mt.todo <= Len(mt.pend)
    /\ \A i \in 1..Len(mt.pend) : mt.pend[i] \in 1..JournalHead
    /\ ckpt.ann \in Contents /\ ckpt.water \in 0..JournalHead

\* The property index is exact at its stamp (cbo.rs unapplied, property.rs
\* rebuild): an object whose newest event the stamp covers is in the map under
\* its key, through failed and repeated batches, commits that fall between the
\* subscription and the replay, checkpoints, crashes and reseeds, except while
\* the maintainer re-applies events a reseed has overtaken.
StampExact ==
    ix.reg = "Ready" /\ ~Overtaken =>
        \A o \in Objs : LastOf(o) <= ix.stamp => ix.map[o] = Heads[o]

\* Everything up to the water mark is in the vector and text indexes (what
\* wait_caught_up promises), after a resume from a checkpoint that was taken
\* beside the loop as well.
WaterExact ==
    mt.pc = "run" => \A o \in Objs : LastOf(o) <= water => ann[o] = Heads[o]

\* An equality lookup (patched_eq: the tail first, then the rows) returns every
\* object that had the value all along, unless a reseed fell into it, or a
\* replay or a failed batch that starts over behind one.
LookupComplete ==
    [][LookupScan /\ q.quiet =>
        {o \in Objs : LastOf(o) <= q.head /\ Heads[o] = q.val} \subseteq Answered]_mtVars

\* "An Eq lookup that is exact however far (up to the cap) the index lags"
\* (cbo.rs): the same without the exception.
LookupExact ==
    [][LookupScan =>
        {o \in Objs : LastOf(o) <= q.head /\ Heads[o] = q.val} \subseteq Answered]_mtVars

\* The maintainer catches up in the end, or could not start at all.
CatchesUp == <>[](mt.pc = "dead" \/ water = JournalHead)

\* What the maintainer promises a lookup, at once and in the end.
MaintainerPromise == [](MtTypeOK /\ StampExact /\ WaterExact) /\ LookupComplete /\ CatchesUp
=============================================================================
