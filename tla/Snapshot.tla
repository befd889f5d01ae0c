------------------------------ MODULE Snapshot ------------------------------
(***************************************************************************)
(* The engine's own snapshot and restore (snapshot.rs): files are captured *)
(* and pinned under the state lock together with a copy of the WAL, copied *)
(* without a lock while flushes, compactions and checkpoints go on, and    *)
(* committed by a marker.  restore_from accepts a directory whose marker   *)
(* names all the files it needs, each of them intact.                      *)
(*                                                                         *)
(* A row is its number.  A delta log of the replica directory is published *)
(* and pruned with the identity directory's: one file stands for both.     *)
(***************************************************************************)
EXTENDS Integers, FiniteSets

CONSTANTS
    Snapshotters,  \* threads that take snapshots: the archiver, a bootstrap, an operator
    MaxSnapRows,   \* bound: rows written
    MaxSnapGen     \* bound: generations

ASSUME SnapAssumption == MaxSnapRows \in Nat /\ MaxSnapGen \in Nat \ {0}

Seg(n) == [kind |-> "SEGMENT", n |-> n]
Log(family, g) == [kind |-> family, n |-> g]
Ckpt(g) == [kind |-> "CHECKPOINT", n |-> g]
Manifest(g) == [kind |-> "MANIFEST", n |-> g]

\* The directories with delta logs, and those that a flush may have records of.
Families == {"IDENTITY", "PLACEMENT"}
Flushed == {{}, {"PLACEMENT"}, Families}

VARIABLES
    snGen,    \* the generation CURRENT names
    snMan,    \* per generation: its manifest [segs, floor]
    snRows,   \* per segment: its rows
    snDir,    \* the files of the database
    snWal,    \* the rows of the WAL
    snNext,   \* the next row
    snFroz,   \* the rows a running flush has frozen
    snPins,   \* State::snapshot_pins
    shot      \* per snapshotter: [pc, gen, left, got, wal, at]

snapVars == <<snGen, snMan, snRows, snDir, snWal, snNext, snFroz, snPins, shot>>

NoShot == [pc |-> "idle", gen |-> 0, left |-> {}, got |-> {}, wal |-> {}, at |-> 0]

SnapInit ==
    /\ snGen = 1 /\ snMan = [g \in 1 .. MaxSnapGen |-> [segs |-> {}, floor |-> [d \in Families |-> 0]]]
    /\ snRows = [n \in 1 .. MaxSnapGen |-> {}] /\ snDir = {Manifest(1)}
    /\ snWal = {} /\ snNext = 1 /\ snFroz = {} /\ snPins = {}
    /\ shot = [s \in Snapshotters |-> NoShot]

-----------------------------------------------------------------------------
(* The database meanwhile *)

SnapWrite ==
    /\ snNext <= MaxSnapRows
    /\ snWal' = snWal \cup {snNext} /\ snNext' = snNext + 1
    /\ UNCHANGED <<snGen, snMan, snRows, snDir, snFroz, snPins, shot>>

\* Phase A of a flush.
SnapFreeze ==
    /\ snFroz = {} /\ snWal # {} /\ snGen < MaxSnapGen
    /\ snFroz' = snWal
    /\ UNCHANGED <<snGen, snMan, snRows, snDir, snWal, snNext, snPins, shot>>

\* Mutant: the flush drops the whole WAL.
WalTail_None(wal, frozen) == {}

\* What a flush leaves in the WAL.
WalTail(wal, frozen) == wal \ frozen

\* The directories that have records to log are given the generation as their floor.
Floors(logged, g) == [d \in Families |-> IF d \in logged THEN g ELSE snMan[snGen].floor[d]]
DeltaLogs(logged, g) == {Log(d, g) : d \in logged}

\* Phase C: the segment, its delta logs and its manifest; the WAL keeps its tail.
SnapPublish(logged) ==
    LET g == snGen + 1
    IN  /\ snFroz # {} /\ g <= MaxSnapGen
        /\ snGen' = g
        /\ snMan' = [snMan EXCEPT ![g] = [segs |-> snMan[snGen].segs \cup {g},
                                          floor |-> Floors(logged, g)]]
        /\ snRows' = [snRows EXCEPT ![g] = snFroz]
        /\ snDir' = snDir \cup {Seg(g), Manifest(g)} \cup DeltaLogs(logged, g)
        /\ snWal' = WalTail(snWal, snFroz) /\ snFroz' = {}
        /\ UNCHANGED <<snNext, snPins, shot>>

\* Mutant: deletion does not look at the pins.
Deletable_All(files) == files

\* Both deletion surfaces skip pinned names.
Deletable(files) == files \ snPins

\* A compaction: one segment replaces all; the old files go, if they may.  Only
\* placements are logged.
SnapCompact(logged) ==
    LET g == snGen + 1
        old == snMan[snGen].segs
    IN  /\ old # {} /\ g <= MaxSnapGen
        /\ snGen' = g
        /\ snMan' = [snMan EXCEPT ![g] = [segs |-> {g}, floor |-> Floors(logged, g)]]
        /\ snRows' = [snRows EXCEPT ![g] = UNION {snRows[n] : n \in old}]
        /\ snDir' = (snDir \cup {Seg(g), Manifest(g)} \cup DeltaLogs(logged, g))
                    \ Deletable({Seg(n) : n \in old})
        /\ UNCHANGED <<snWal, snNext, snFroz, snPins, shot>>

\* write_checkpoint, then prune_deltas_before; the floors stay.
SnapCheckpoint ==
    /\ snDir' = (snDir \cup {Ckpt(snGen)})
                \ Deletable({f \in snDir : \/ f.kind \in Families /\ f.n <= snGen
                                           \/ f.kind = "CHECKPOINT" /\ f.n < snGen})
    /\ UNCHANGED <<snGen, snMan, snRows, snWal, snNext, snFroz, snPins, shot>>

-----------------------------------------------------------------------------
(* snapshot_to *)

\* pinned_files: the manifest and its segments, every log and checkpoint up to it.
PinnedFiles ==
    {Manifest(snGen)} \cup {Seg(n) : n \in snMan[snGen].segs}
    \cup {f \in snDir : f.kind \in Families \cup {"CHECKPOINT"} /\ f.n <= snGen}

\* Capture and arm, in one hold of the state lock; the WAL is copied here.
SnapCapture(s) ==
    /\ shot[s].pc = "idle"
    /\ shot' = [shot EXCEPT ![s] = [pc |-> "copy", gen |-> snGen, left |-> PinnedFiles,
                                    got |-> {}, wal |-> snWal, at |-> snNext - 1]]
    /\ snPins' = snPins \cup PinnedFiles
    /\ UNCHANGED <<snGen, snMan, snRows, snDir, snWal, snNext, snFroz>>

\* Copy one file; one that is gone fails the snapshot, which disarms its pins.
SnapCopy(s) ==
    /\ shot[s].pc = "copy"
    /\ \E f \in shot[s].left :
          IF f \in snDir
          THEN /\ shot' = [shot EXCEPT ![s].left = @ \ {f}, ![s].got = @ \cup {f}]
               /\ snPins' = snPins
          ELSE /\ shot' = [shot EXCEPT ![s].pc = "failed"]
               /\ snPins' = snPins \ (shot[s].left \cup shot[s].got)
    /\ UNCHANGED <<snGen, snMan, snRows, snDir, snWal, snNext, snFroz>>

\* The marker is published last.
ReadyToMark(s) == shot[s].left = {}

SnapMark(s) ==
    /\ shot[s].pc = "copy" /\ ReadyToMark(s)
    /\ shot' = [shot EXCEPT ![s].pc = "marked"]
    /\ snPins' = snPins \ (shot[s].left \cup shot[s].got)
    /\ UNCHANGED <<snGen, snMan, snRows, snDir, snWal, snNext, snFroz>>

\* The caller takes the next snapshot into a new directory.
SnapAgain(s) ==
    /\ shot[s].pc \in {"marked", "failed"}
    /\ shot' = [shot EXCEPT ![s] = NoShot]
    /\ UNCHANGED <<snGen, snMan, snRows, snDir, snWal, snNext, snFroz, snPins>>

SnapNext == \/ SnapWrite \/ SnapFreeze \/ SnapCheckpoint
            \/ \E logged \in Flushed : SnapPublish(logged)
            \/ \E logged \in {{}, {"PLACEMENT"}} : SnapCompact(logged)
            \/ \E s \in Snapshotters : SnapCapture(s) \/ SnapCopy(s) \/ SnapMark(s) \/ SnapAgain(s)

SnapSpec == SnapInit /\ [][SnapNext]_snapVars

-----------------------------------------------------------------------------
(* Properties *)

SnapTypeOK ==
    /\ snGen \in 1 .. MaxSnapGen /\ snNext \in 1 .. MaxSnapRows + 1
    /\ snWal \subseteq 1 .. MaxSnapRows /\ snFroz \subseteq snWal
    /\ \A s \in Snapshotters : shot[s].pc \in {"idle", "copy", "marked", "failed"}

\* The manifest and every segment it names.
HasSegments(s) ==
    /\ Manifest(shot[s].gen) \in shot[s].got
    /\ {Seg(n) : n \in snMan[shot[s].gen].segs} \subseteq shot[s].got
FloorOf(s, d) == snMan[shot[s].gen].floor[d]

FloorLogged(s, d) == FloorOf(s, d) > 0 => Log(d, FloorOf(s, d)) \in shot[s].got

\* validate_snapshot_manifest: and the log of every floor.
Restores(s) == HasSegments(s) /\ \A d \in Families : FloorLogged(s, d)

\* A checkpoint came after the floor; its prune may have taken the floor's log.
Subsumed(s, d) == \E f \in shot[s].got : f.kind = "CHECKPOINT" /\ f.n >= FloorOf(s, d)
RestoredRows(s) == shot[s].wal \cup UNION {snRows[n] : n \in snMan[shot[s].gen].segs}

\* A marked snapshot has all that makes its generation whole, whatever was flushed,
\* compacted or pruned during the copy: its segments and its share of the WAL are exactly
\* the rows written when it was captured, and a delta log its manifest names is there
\* unless a checkpoint that replaces it is.  Only then does restore_from refuse it: the
\* floor stays in the manifest when write_checkpoint prunes its log (snapshot.rs:198-210).
MarkedRestores ==
    \A s \in Snapshotters : shot[s].pc = "marked" =>
        /\ HasSegments(s) /\ RestoredRows(s) = 1 .. shot[s].at
        /\ \A d \in Families : FloorLogged(s, d) \/ Subsumed(s, d)

\* The same, without exceptions: what snapshot.rs:576-577 says of a committed marker.
AlwaysRestores == \A s \in Snapshotters : shot[s].pc = "marked" => Restores(s)

\* "the snapshot's lock-free bulk copy can never race a prune" (db.rs:305-306).
CopyNeverRaces == \A s \in Snapshotters : shot[s].pc = "copy" => shot[s].left \subseteq snDir

\* What a snapshot taken beside a running engine keeps.
SnapshotSafe == SnapTypeOK /\ MarkedRestores /\ CopyNeverRaces
=============================================================================
