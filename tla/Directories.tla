----------------------------- MODULE Directories -----------------------------
(***************************************************************************)
(* The identity, replica and placement directories of the storage engine   *)
(* (db.rs, checkpoint.rs, identity/directory.rs, placement/directory.rs):  *)
(* the object API over them, their delta logs, checkpoints, compaction,    *)
(* and what open rebuilds after a crash.  Durability is Sync.              *)
(*                                                                         *)
(* A LogicalId and its ReplicaId are reserved, merged and logged together, *)
(* so one number stands for both, and one log for the IDENTITY and REPLICA *)
(* logs of a generation.  An object has one key; the value of a row is its *)
(* frame's seq.  A chain hash is the set of generations it was extended    *)
(* with, and its largest member is the floor.                              *)
(***************************************************************************)
EXTENDS Integers, Sequences, FiniteSets, Functions, SequencesExt

CONSTANTS
    Objects,       \* ObjectIds
    DirWriters,    \* threads of the object API
    MaxDirWrites,  \* bound: frames
    MaxDirGen,     \* bound: generations
    MaxDirCrashes  \* bound: crashes

ASSUME DirAssumption == {MaxDirWrites, MaxDirGen, MaxDirCrashes} \subseteq Nat

NoIdentity == 0
DirIds == 0 .. MaxDirWrites
NoPl == [k |-> "none", gen |-> 0, seg |-> 0, seq |-> 0]
MemPl(g) == [k |-> "mem", gen |-> g, seg |-> 0, seq |-> 0]
SegPl(g, sid, seq) == [k |-> "seg", gen |-> g, seg |-> sid, seq |-> seq]
RetiredPl(g) == [k |-> "retired", gen |-> g, seg |-> 0, seq |-> 0]
NoDirRow == [id |-> NoIdentity, seq |-> 0, del |-> TRUE]

VARIABLES
    dup,      \* the database is open
    st,       \* State, in memory
    dput,     \* per writer: the operation between its resolve and its write
    dfl,      \* flush: [pc, rows, sid, upto]
    dco,      \* compaction: [pc, gen, segs, recs]
    dck,      \* write_checkpoint: its step, 0 when it is not running
    ddisk,     \* the files
    dacked,   \* per object: the last acknowledged row
    dcrashes

dirVars == <<dup, st, dput, dfl, dco, dck, ddisk, dacked, dcrashes>>

NoOp == [op |-> "none", oid |-> "none", id |-> NoIdentity, pgen |-> 0]
IdleFlush == [pc |-> "idle", rows |-> {}, sid |-> 0, upto |-> 0]
IdleMerge == [pc |-> "idle", gen |-> 0, segs |-> <<>>, recs |-> {}]

EmptyState == [ident |-> [o \in Objects |-> NoIdentity], place |-> [i \in DirIds |-> NoPl],
               pendI |-> {}, pendP |-> {}, nextId |-> 1, nextPg |-> 1, nextSid |-> 1,
               nextSeq |-> 1, gen |-> 1, chainI |-> {}, chainP |-> {}, segs |-> <<>>, mem |-> {},
               fits |-> TRUE]  \* the replay met no conflict

\* CURRENT and its manifest; the delta logs and the checkpoints by generation; the WAL.
EmptyDisk == [cur |-> [gen |-> 1, segs |-> <<>>, chainI |-> {}, chainP |-> {}],
              logI |-> <<>>, logP |-> <<>>, ckpt |-> <<>>, wal |-> <<>>]

DirInit ==
    /\ dup = TRUE /\ st = EmptyState /\ ddisk = EmptyDisk
    /\ dput = [w \in DirWriters |-> NoOp] /\ dfl = IdleFlush /\ dco = IdleMerge /\ dck = 0
    /\ dacked = [o \in Objects |-> NoDirRow] /\ dcrashes = 0

\* A publication holds the state lock from its first file to its last.
StateFree == dup /\ dfl.pc \in {"idle", "built"} /\ dco.pc \in {"idle", "merged"} /\ dck = 0

MaxGen(S) == IF S = {} THEN 0 ELSE CHOOSE g \in S : \A x \in S : x <= g
NewestRow(rows) == CHOOSE r \in rows : \A q \in rows : q.seq <= r.seq
With(f, g, recs) == (g :> recs) @@ f

-----------------------------------------------------------------------------
(* Directory merges *)

\* merge_identity and merge_replica: an ObjectId keeps the id it has.
IdentityFits(ident, oid, id) == ident[oid] \in {NoIdentity, id}

\* Mutant: the last writer wins, whatever its generation.
MergePlacement_Last(place, id, p) == [place EXCEPT ![id] = p]

\* merge_placement: the larger generation wins.
MergePlacement(place, id, p) == IF place[id].gen > p.gen THEN place ELSE [place EXCEPT ![id] = p]
PlacementFits(place, id, p) == place[id].gen = p.gen => place[id] \in {p, NoPl}

MergeAll(place, recs) ==
    [i \in DirIds |->
        LET mine == {r.p : r \in {x \in recs : x.id = i}} \cup {place[i]}
        IN  CHOOSE p \in mine : \A q \in mine : q.gen <= p.gen]

\* apply_object_placement: a put or a delete moves the object to the memtable.
ToMemtable(s, id) ==
    [s EXCEPT !.place = MergePlacement(@, id, MemPl(s.nextPg)), !.nextPg = @ + 1,
              !.pendP = @ \cup {[id |-> id, p |-> MemPl(s.nextPg)]}]

\* The CreateObject arm of write_at and of replay.
Created(s, f) ==
    [s EXCEPT !.ident[f.oid] = f.id, !.pendI = @ \cup {[oid |-> f.oid, id |-> f.id]},
              !.place = MergePlacement(@, f.id, MemPl(f.pgen)),
              !.pendP = @ \cup {[id |-> f.id, p |-> MemPl(f.pgen)]},
              !.nextId = IF f.id >= @ THEN f.id + 1 ELSE @,
              !.nextPg = IF f.pgen >= @ THEN f.pgen + 1 ELSE @]

Creates(f) == f.op \in {"create", "new"}
WithRow(s, f) == [s EXCEPT !.mem = @ \cup {[id |-> f.id, seq |-> f.seq, del |-> f.op = "del"]}]

\* write_at's application of a frame.
Applied(s, f) ==
    LET c == IF Creates(f) THEN Created(s, f) ELSE s
    IN  IF f.op = "create" THEN c ELSE ToMemtable(WithRow(c, f), f.id)

-----------------------------------------------------------------------------
(* The object API *)

\* reserve_identity.
Reserve(w, op, oid) ==
    /\ dput' = [dput EXCEPT ![w] = [op |-> op, oid |-> oid, id |-> st.nextId, pgen |-> st.nextPg]]
    /\ st' = [st EXCEPT !.nextId = @ + 1, !.nextPg = @ + 1]

\* put_object, delete_object, create_object up to the write: resolve, or reserve.
\* create_object hashes its own fresh id into the ObjectId.
DirResolve(w, op, oid) ==
    /\ StateFree /\ dput[w] = NoOp /\ st.nextSeq <= MaxDirWrites /\ st.nextId <= MaxDirWrites
    /\ IF st.ident[oid] = NoIdentity
       THEN /\ op \in {"put", "create"}
            /\ op = "create" => \A v \in DirWriters : dput[v].oid # oid
            /\ Reserve(w, IF op = "put" THEN "new" ELSE "create", oid)
       ELSE /\ op \in {"put", "del"}
            /\ dput' = [dput EXCEPT ![w] = [op |-> op, oid |-> oid, id |-> st.ident[oid], pgen |-> 0]]
            /\ st' = st
    /\ UNCHANGED <<dup, dfl, dco, dck, ddisk, dacked, dcrashes>>

\* write: the frame is in the WAL before it is applied; a conflict is reported then.
DirWrite(w) ==
    LET f == [op |-> dput[w].op, oid |-> dput[w].oid, id |-> dput[w].id,
              pgen |-> dput[w].pgen, seq |-> st.nextSeq]
    IN  /\ StateFree /\ dput[w] # NoOp /\ st.nextSeq <= MaxDirWrites
        /\ ddisk' = [ddisk EXCEPT !.wal = Append(@, f)]
        /\ IF Creates(f) /\ ~IdentityFits(st.ident, f.oid, f.id)
           THEN st' = [st EXCEPT !.nextSeq = @ + 1] /\ dacked' = dacked
           ELSE /\ st' = [Applied(st, f) EXCEPT !.nextSeq = @ + 1]
                /\ dacked' = [dacked EXCEPT ![f.oid] =
                                 [id |-> f.id, seq |-> IF f.op = "create" THEN 0 ELSE f.seq,
                                  del |-> f.op \in {"create", "del"}]]
        /\ dput' = [dput EXCEPT ![w] = NoOp]
        /\ UNCHANGED <<dup, dfl, dco, dck, dcrashes>>

\* get_object: a Segment placement answers from its anchor and skips the memtable.
Direct(id) == st.place[id].k = "seg" /\ \E i \in DOMAIN st.segs : st.segs[i].sid = st.place[id].seg
RowsIn(rows, id) == {r \in rows : r.id = id}
Holding(id) == {i \in DOMAIN st.segs : RowsIn(st.segs[i].rows, id) # {}}
GetObject(oid) ==
    LET id == st.ident[oid]
    IN  CASE id = NoIdentity -> NoDirRow
          [] id # NoIdentity /\ Direct(id) ->
                CHOOSE r \in UNION {st.segs[i].rows : i \in DOMAIN st.segs} :
                    r.id = id /\ r.seq = st.place[id].seq
          [] id # NoIdentity /\ ~Direct(id) /\ RowsIn(st.mem, id) # {} -> NewestRow(RowsIn(st.mem, id))
          [] OTHER -> IF id = NoIdentity \/ Holding(id) = {} THEN NoDirRow
                      ELSE NewestRow(RowsIn(st.segs[MaxGen(Holding(id))].rows, id))

-----------------------------------------------------------------------------
(* Flush *)

\* Phase A freezes the memtable and notes the WAL's length; phase B builds the segment.
DirFlushA ==
    /\ StateFree /\ dfl.pc = "idle" /\ st.mem # {} /\ st.gen < MaxDirGen
    /\ dfl' = [pc |-> "built", rows |-> st.mem, sid |-> st.nextSid, upto |-> Len(ddisk.wal)]
    /\ st' = [st EXCEPT !.mem = {}, !.nextSid = @ + 1]
    /\ UNCHANGED <<dup, dput, dco, dck, ddisk, dacked, dcrashes>>

\* Anchors: the newest flushed row of each id, given fresh generations in id order.
Anchored == {r.id : r \in dfl.rows}
AnchorGen(id) == st.nextPg + Cardinality({i \in Anchored : i < id})
AnchorRecs == {[id |-> i, p |-> SegPl(AnchorGen(i), dfl.sid, NewestRow(RowsIn(dfl.rows, i)).seq)] :
                 i \in Anchored}

\* Phase C takes the lock: placements, the generation, the identity log.
DirFlushC ==
    /\ StateFree /\ dfl.pc = "built" /\ st.gen < MaxDirGen
    /\ LET g == st.gen + 1
       IN  /\ st' = [st EXCEPT !.place = MergeAll(@, AnchorRecs), !.gen = g, !.pendI = {},
                              !.nextPg = @ + Cardinality(Anchored),
                              !.pendP = @ \cup AnchorRecs,
                              !.chainI = IF st.pendI = {} THEN @ ELSE @ \cup {g}]
           /\ ddisk' = IF st.pendI = {} THEN ddisk
                      ELSE [ddisk EXCEPT !.logI = With(@, g, st.pendI)]
    /\ dfl' = [dfl EXCEPT !.pc = "identity"]
    /\ UNCHANGED <<dup, dput, dco, dck, dacked, dcrashes>>

\* Publish the pending placements under the new generation.
LogPlacements(recs) ==
    /\ ddisk' = IF recs = {} THEN ddisk ELSE [ddisk EXCEPT !.logP = With(@, st.gen, recs)]
    /\ st' = [st EXCEPT !.pendP = {}, !.chainP = IF recs = {} THEN @ ELSE @ \cup {st.gen}]

DirFlushPlacements ==
    /\ dup /\ dfl.pc = "identity" /\ LogPlacements(st.pendP)
    /\ dfl' = [dfl EXCEPT !.pc = "placement"]
    /\ UNCHANGED <<dup, dput, dco, dck, dacked, dcrashes>>

ManifestOf(segs) == [gen |-> st.gen, segs |-> segs, chainI |-> st.chainI, chainP |-> st.chainP]

\* The manifest, then CURRENT.
DirFlushCurrent ==
    /\ dup /\ dfl.pc = "placement"
    /\ ddisk' = [ddisk EXCEPT !.cur = ManifestOf(Append(st.segs, [sid |-> dfl.sid, rows |-> dfl.rows]))]
    /\ dfl' = [dfl EXCEPT !.pc = "current"]
    /\ UNCHANGED <<dup, st, dput, dco, dck, dacked, dcrashes>>

\* The WAL keeps only its tail; the segment is installed; a checkpoint may be due.
DirFlushDone ==
    /\ dup /\ dfl.pc = "current"
    /\ ddisk' = [ddisk EXCEPT !.wal = SubSeq(@, dfl.upto + 1, Len(@))]
    /\ st' = [st EXCEPT !.segs = Append(@, [sid |-> dfl.sid, rows |-> dfl.rows])]
    /\ dfl' = IdleFlush /\ dck' \in {0, 1}
    /\ UNCHANGED <<dup, dput, dco, dacked, dcrashes>>

-----------------------------------------------------------------------------
(* Checkpoint: published, then the logs it covers are removed one by one *)

CheckpointOf == [ident |-> st.ident, place |-> st.place, nextId |-> st.nextId, nextPg |-> st.nextPg,
                 chainI |-> st.chainI, chainP |-> st.chainP]

Publish(d, g, c) == [d EXCEPT !.ckpt = With(@, g, c)]

\* prune_deltas_before: any one file it removes.
PruneOne(d, g) ==
    {[d EXCEPT !.logI = Restrict(@, DOMAIN @ \ {x})] : x \in {y \in DOMAIN d.logI : y <= g}}
    \cup {[d EXCEPT !.logP = Restrict(@, DOMAIN @ \ {x})] : x \in {y \in DOMAIN d.logP : y <= g}}
    \cup {[d EXCEPT !.ckpt = Restrict(@, DOMAIN @ \ {x})] : x \in {y \in DOMAIN d.ckpt : y < g}}

\* Mutant: the logs go before the checkpoint that replaces them.
CheckpointSteps_PruneFirst == <<"prune", "publish">>

CheckpointSteps == <<"publish", "prune">>

\* write_checkpoint, one file at a time.
DirCheckpoint ==
    /\ dup /\ dck # 0
    /\ LET over == (dck + 1) % 3
       IN  IF CheckpointSteps[dck] = "publish"
           THEN ddisk' = Publish(ddisk, st.gen, CheckpointOf) /\ dck' = over
           ELSE \/ PruneOne(ddisk, st.gen) = {} /\ ddisk' = ddisk /\ dck' = over
                \/ ddisk' \in PruneOne(ddisk, st.gen) /\ dck' = dck
    /\ UNCHANGED <<dup, st, dput, dfl, dco, dacked, dcrashes>>

-----------------------------------------------------------------------------
(* Compaction *)

\* Phases A and B: capture the segments and the generation, merge unlocked.
DirMerge ==
    /\ StateFree /\ dco.pc = "idle" /\ st.segs # <<>> /\ st.gen < MaxDirGen
    /\ dco' = [IdleMerge EXCEPT !.pc = "merged", !.gen = st.gen, !.segs = st.segs]
    /\ UNCHANGED <<dup, st, dput, dfl, dck, ddisk, dacked, dcrashes>>

\* merge: the newest row of each id, a tombstone is dropped.
MergedRows(segs) ==
    LET all == UNION {segs[i].rows : i \in DOMAIN segs}
    IN  {r \in {NewestRow(RowsIn(all, i)) : i \in {q.id : q \in all}} : ~r.del}
MergedSegs(segs, sid) == IF MergedRows(segs) = {} THEN <<>> ELSE <<[sid |-> sid, rows |-> MergedRows(segs)]>>

\* Segment placements move to the merged segment, or retire with their rows.
SegPlaced == {i \in DirIds : st.place[i].k = "seg"}
Relocated(id) ==
    LET g == st.nextPg + Cardinality({i \in SegPlaced : i < id})
        live == RowsIn(MergedRows(dco.segs), id)
    IN  IF live = {} THEN RetiredPl(g) ELSE SegPl(g, st.nextSid, NewestRow(live).seq)
Relocations == {[id |-> i, p |-> Relocated(i)] : i \in SegPlaced}

\* Phase C: a flush published in between, so nothing is; or the placement log.
DirMergeC ==
    /\ StateFree /\ dco.pc = "merged"
    /\ IF st.gen # dco.gen
       THEN dco' = IdleMerge /\ UNCHANGED <<st, ddisk>>
       ELSE LET g == st.gen + 1
                recs == st.pendP \cup Relocations
            IN  /\ st' = [st EXCEPT !.gen = g, !.pendP = {},
                                   !.nextPg = @ + Cardinality(SegPlaced),
                                   !.chainP = IF recs = {} THEN @ ELSE @ \cup {g}]
                /\ ddisk' = IF recs = {} THEN ddisk ELSE [ddisk EXCEPT !.logP = With(@, g, recs)]
                /\ dco' = [dco EXCEPT !.pc = "location", !.recs = recs]
    /\ UNCHANGED <<dup, dput, dfl, dck, dacked, dcrashes>>

\* CURRENT.
DirMergeCurrent ==
    /\ dup /\ dco.pc = "location"
    /\ ddisk' = [ddisk EXCEPT !.cur = ManifestOf(MergedSegs(dco.segs, st.nextSid))]
    /\ dco' = [dco EXCEPT !.pc = "current"]
    /\ UNCHANGED <<dup, st, dput, dfl, dck, dacked, dcrashes>>

\* The merged segments replace their inputs; the placements follow; a checkpoint may be due.
DirMergeDone ==
    /\ dup /\ dco.pc = "current"
    /\ st' = [st EXCEPT !.segs = MergedSegs(dco.segs, st.nextSid), !.nextSid = @ + 1,
                        !.place = MergeAll(@, dco.recs)]
    /\ dco' = IdleMerge /\ dck' \in {0, 1}
    /\ UNCHANGED <<dup, dput, dfl, ddisk, dacked, dcrashes>>

-----------------------------------------------------------------------------
(* Crash and open *)

DirCrash ==
    /\ dup /\ dcrashes < MaxDirCrashes /\ dcrashes' = dcrashes + 1
    /\ dup' = FALSE /\ st' = EmptyState /\ dput' = [w \in DirWriters |-> NoOp]
    /\ dfl' = IdleFlush /\ dco' = IdleMerge /\ dck' = 0
    /\ UNCHANGED <<ddisk, dacked>>

\* load_newest: the newest checkpoint at or below CURRENT, if any.
CkptGen == MaxGen({g \in DOMAIN ddisk.ckpt : g <= ddisk.cur.gen})
Base == IF CkptGen = 0 THEN [ident |-> EmptyState.ident, place |-> EmptyState.place,
                             nextId |-> 0, nextPg |-> 0, chainI |-> {}, chainP |-> {}]
        ELSE ddisk.ckpt[CkptGen]

\* validate_family_coverage, once there is a checkpoint older than CURRENT.
CommittedSince(log) == {g \in DOMAIN log : g > CkptGen /\ g <= ddisk.cur.gen}
FamilyCovered(log, base, chain) ==
    /\ MaxGen(chain) > CkptGen => MaxGen(CommittedSince(log)) = MaxGen(chain)
    /\ base \cup CommittedSince(log) = chain
DeltasCovered == \/ CkptGen \in {0, ddisk.cur.gen}
           \/ /\ FamilyCovered(ddisk.logI, Base.chainI, ddisk.cur.chainI)
              /\ FamilyCovered(ddisk.logP, Base.chainP, ddisk.cur.chainP)

\* The logs after the checkpoint, up to CURRENT, on top of it.
Identities == UNION {ddisk.logI[g] : g \in CommittedSince(ddisk.logI)}
LoggedIdent == [o \in Objects |->
                  LET ids == ({r.id : r \in {x \in Identities : x.oid = o}} \cup {Base.ident[o]}) \ {NoIdentity}
                  IN  IF ids = {} THEN NoIdentity ELSE CHOOSE i \in ids : TRUE]
IdentitiesFit == LET ident == LoggedIdent IN \A r \in Identities : IdentityFits(ident, r.oid, r.id)
LoggedPlace == MergeAll(Base.place, UNION {ddisk.logP[g] : g \in CommittedSince(ddisk.logP)})

\* validate_segment_location.
Located == LET place == LoggedPlace IN \A i \in DirIds : place[i].k = "seg" =>
              \E k \in DOMAIN ddisk.cur.segs : ddisk.cur.segs[k].sid = place[i].seg

\* orphan_placement_max_generation: ignored logs still bound the next generation.
OrphanPg == MaxGen({r.p.gen : r \in UNION {ddisk.logP[g] : g \in {x \in DOMAIN ddisk.logP : x > ddisk.cur.gen}}})
PlaceGens(place) == {place[i].gen : i \in DirIds}

\* Mutant: a placement on disk is left alone.
ReplayPlacement_Keep(s, id) == IF s.place[id].k # "none" THEN s ELSE ToMemtable(s, id)

\* replay_object_placement: only a memtable placement is left alone.
ReplayPlacement(s, id) == IF s.place[id].k = "mem" THEN s ELSE ToMemtable(s, id)

ReplayFits(s, f) == Creates(f) => /\ IdentityFits(s.ident, f.oid, f.id)
                                  /\ PlacementFits(s.place, f.id, MemPl(f.pgen))
Replayed1(s, f) ==
    LET c == IF Creates(f) THEN [Created(s, f) EXCEPT !.nextPg = s.nextPg, !.nextId = s.nextId] ELSE s
        t == IF f.op = "create" THEN c ELSE ReplayPlacement(WithRow(c, f), f.id)
    IN  [t EXCEPT !.nextSeq = f.seq + 1, !.fits = @ /\ ReplayFits(s, f)]

\* open, up to the replay of the WAL.
Loaded == [EmptyState EXCEPT !.ident = LoggedIdent, !.place = LoggedPlace, !.gen = ddisk.cur.gen,
                             !.chainI = ddisk.cur.chainI, !.chainP = ddisk.cur.chainP,
                             !.segs = ddisk.cur.segs,
                             !.nextPg = MaxGen(PlaceGens(LoggedPlace) \cup {OrphanPg}) + 1,
                             !.nextSeq = MaxGen({r.seq : r \in UNION {ddisk.cur.segs[k].rows : k \in DOMAIN ddisk.cur.segs}}) + 1]

\* Every frame of the WAL in turn, the state between two frames taken as a value.
AfterReplay == FoldLeft(LAMBDA s, f : CHOOSE t \in {Replayed1(x, f) : x \in {s}} : TRUE,
                        Loaded, ddisk.wal)

\* The next ids are above everything known and above the checkpoint's floors.
NextId(ident) == MaxGen({ident[o] + 1 : o \in Objects} \cup {1, Base.nextId})
NextPg(place) == MaxGen(PlaceGens(place) \cup {OrphanPg, Base.nextPg - 1}) + 1
NextSid == MaxGen({ddisk.cur.segs[k].sid : k \in DOMAIN ddisk.cur.segs}) + 1

OpenAccepts == DeltasCovered /\ IdentitiesFit /\ Located /\ AfterReplay.fits

DirOpen ==
    /\ ~dup /\ OpenAccepts
    /\ dup' = TRUE
    /\ st' = [AfterReplay EXCEPT !.nextId = NextId(AfterReplay.ident), !.nextPg = NextPg(AfterReplay.place), !.nextSid = NextSid]
    /\ UNCHANGED <<dput, dfl, dco, dck, ddisk, dacked, dcrashes>>

DirNext ==
    \/ \E w \in DirWriters : \/ \E op \in {"put", "del", "create"}, o \in Objects : DirResolve(w, op, o)
                             \/ DirWrite(w)
    \/ DirFlushA \/ DirFlushC \/ DirFlushPlacements \/ DirFlushCurrent \/ DirFlushDone
    \/ DirCheckpoint \/ DirMerge \/ DirMergeC \/ DirMergeCurrent \/ DirMergeDone
    \/ DirCrash \/ DirOpen

DirSpec == DirInit /\ [][DirNext]_dirVars

-----------------------------------------------------------------------------
(* Properties *)

DirTypeOK ==
    /\ dup \in BOOLEAN /\ dck \in 0 .. 2 /\ dcrashes \in 0 .. MaxDirCrashes
    /\ DOMAIN st = DOMAIN EmptyState /\ st.ident \in [Objects -> DirIds]
    /\ st.gen \in 1 .. MaxDirGen /\ ddisk.cur.gen <= MaxDirGen
    /\ dfl.pc \in {"idle", "built", "identity", "placement", "current"}
    /\ dco.pc \in {"idle", "merged", "location", "current"}

\* What a row answers a reader.
DirAnswer(r) == IF r.del THEN 0 ELSE r.seq

Ahead == {o \in Objects : dacked[o] # NoDirRow}

\* A delta log a crash left behind, which a later generation has reached without
\* writing one of its own.
OrphanCounted == \/ \E g \in CommittedSince(ddisk.logI) : g \notin ddisk.cur.chainI
                 \/ \E g \in CommittedSince(ddisk.logP) : g \notin ddisk.cur.chainP

\* Two frames of the WAL give one ObjectId two ids.
CreateConflict == \E i, j \in DOMAIN ddisk.wal :
    Creates(ddisk.wal[i]) /\ Creates(ddisk.wal[j]) /\ ddisk.wal[i].oid = ddisk.wal[j].oid
    /\ ddisk.wal[i].id # ddisk.wal[j].id

\* Whatever file a crash falls between (flush, compaction, checkpoint, pruning), open
\* accepts what is on disk; only an orphan delta log that a later publication overtook, or
\* two racing creations of one object, can make it refuse (db.rs:545-563).
OnlyKnownRefusals == OpenAccepts \/ OrphanCounted \/ CreateConflict

\* The same, without exceptions: what db.rs:549-551 says of orphan logs.
AlwaysOpens == OpenAccepts

\* No object ever loses or shares the id under which it was acknowledged, across
\* crashes, reserved ids that were never logged, and checkpoints (db.rs:824-827).
IdsKept ==
    dup => /\ \A o \in Ahead : st.ident[o] = dacked[o].id /\ st.nextId > st.ident[o]
           /\ \A o, p \in Ahead : st.ident[o] = st.ident[p] => o = p

\* An open that succeeds answers every object with its last acknowledged row, although
\* the placements it loads may point into segments the WAL's rows supersede.
ReopenReadsLatest ==
    ~dup /\ dup' => \A o \in Ahead : DirAnswer(GetObject(o))' = DirAnswer(dacked[o])

\* A Segment placement means no newer row can hide in a memtable (db.rs:1590-1593).
SegmentMeansNewest ==
    dup => \A o \in Objects :
        LET id == st.ident[o]
        IN  id # NoIdentity /\ Direct(id) => \A r \in RowsIn(st.mem, id) : r.seq < st.place[id].seq

\* What the directories promise an engine that is opened again; whether open accepts them
\* depends on the files alone.
DirectoriesPromise ==
    [][/\ (DirTypeOK /\ IdsKept)' /\ ReopenReadsLatest
       /\ ddisk' # ddisk => OnlyKnownRefusals']_dirVars
=============================================================================
