--------------------------- MODULE Snapshot_proofs ---------------------------
(***************************************************************************)
(* Theorems about Snapshot, for any number of rows and generations, about  *)
(* Rejoin, for any number of shipped snapshots and crashes, about          *)
(* RetainedLog, for any number of frames and consumers, and about Archive, *)
(* for any number of terms, frames, kept snapshots and faults.             *)
(***************************************************************************)
EXTENDS Snapshot, Rejoin, RetainedLog, Archive, FiniteSetTheorems, WellFoundedInduction, TLAPS

File == [kind : {"SEGMENT", "IDENTITY", "PLACEMENT", "CHECKPOINT", "MANIFEST"}, n : Int]
Gens == 1 .. MaxSnapGen

ManifestRec == [segs : SUBSET Gens, floor : [Families -> 0 .. MaxSnapGen]]
ShotRec == [pc : {"idle", "copy", "marked", "failed"}, gen : Int, left : SUBSET File,
            got : SUBSET File, wal : SUBSET Int, at : Int]

SnapTypes ==
    /\ snGen \in Gens /\ snNext \in 1 .. MaxSnapRows + 1
    /\ snMan \in [Gens -> ManifestRec]
    /\ snRows \in [Gens -> SUBSET Int] /\ snDir \subseteq File
    /\ snWal \subseteq 1 .. MaxSnapRows /\ snFroz \subseteq snWal
    /\ shot \in [Snapshotters -> ShotRec]

\* The rows of the segments a generation's manifest names.
RowsOf(g) == UNION {snRows[n] : n \in snMan[g].segs}

\* The log of a directory's floor is among the files, or a checkpoint that covers it.
DeltaCovered(d, g, files) == g = 0 \/ Log(d, g) \in files \/ \E c \in Nat : Ckpt(c) \in files /\ g <= c

\* What the files of a restorable generation include.
Needs(g, files) ==
    /\ Manifest(g) \in files
    /\ \A n \in snMan[g].segs : Seg(n) \in files
    /\ \A d \in Families : DeltaCovered(d, snMan[g].floor[d], files)

\* The database: its current generation is on disk and, with the WAL, holds every row.
BaseInv ==
    /\ snMan[snGen].segs \subseteq 1 .. snGen /\ \A d \in Families : snMan[snGen].floor[d] <= snGen
    /\ Needs(snGen, {f \in snDir : f.n <= snGen})
    /\ snWal \cup RowsOf(snGen) = 1 .. snNext - 1

Files(s) == shot[s].left \cup shot[s].got

\* A snapshot that was captured: what it copied and has yet to copy make it whole.
ShotInv(s) ==
    shot[s].pc \in {"copy", "marked"} =>
        /\ shot[s].gen \in 1 .. snGen
        /\ snMan[shot[s].gen].segs \subseteq 1 .. snGen
        /\ Needs(shot[s].gen, Files(s))
        /\ shot[s].wal \cup RowsOf(shot[s].gen) = 1 .. shot[s].at
        /\ shot[s].pc = "marked" => shot[s].left = {}

SnapInv == SnapTypes /\ BaseInv /\ \A s \in Snapshotters : ShotInv(s)

-----------------------------------------------------------------------------

LEMMA SnapInvInit == SnapInit => SnapInv
<1>. SUFFICES ASSUME SnapInit PROVE SnapInv
  OBVIOUS
<1>. USE SnapAssumption DEF SnapInit
<1>1. SnapTypes
  BY DEF SnapTypes, Gens, ManifestRec, ShotRec, File, Manifest, NoShot, Families
<1>2. RowsOf(snGen) = {}
  BY DEF RowsOf
<1>3. BaseInv
  BY <1>2 DEF BaseInv, Needs, DeltaCovered, Manifest
<1>4. \A s \in Snapshotters : ShotInv(s)
  BY DEF ShotInv, NoShot
<1>. QED  BY <1>1, <1>3, <1>4 DEF SnapInv

\* What a publication adds to the manifest and to the directory.
LEMMA FloorsAre ==
  ASSUME SnapTypes, NEW logged \in SUBSET Families, snGen + 1 \in Gens
  PROVE  /\ Floors(logged, snGen + 1) \in [Families -> 0 .. MaxSnapGen]
         /\ DeltaLogs(logged, snGen + 1) \subseteq File /\ {Seg(snGen + 1), Manifest(snGen + 1)} \subseteq File
<1>1. snMan[snGen].floor \in [Families -> 0 .. MaxSnapGen] /\ snGen \in Int
  BY DEF SnapTypes, ManifestRec, Gens
<1>2. snGen + 1 \in 0 .. MaxSnapGen
  BY DEF Gens
<1>. QED  BY <1>1, <1>2 DEF Floors, DeltaLogs, Log, Seg, Manifest, File, Families

LEMMA SnapTypesNext == SnapTypes /\ [SnapNext]_snapVars => SnapTypes'
<1>. SUFFICES ASSUME SnapTypes, [SnapNext]_snapVars PROVE SnapTypes'
  OBVIOUS
<1>. USE SnapAssumption DEF SnapTypes, Gens
<1>1. CASE SnapWrite
  BY <1>1 DEF SnapWrite
<1>2. CASE SnapFreeze
  BY <1>2 DEF SnapFreeze
<1>3. ASSUME NEW logged \in Flushed, SnapPublish(logged) PROVE SnapTypes'
  <2>1. snGen + 1 \in Gens /\ snMan[snGen] \in ManifestRec /\ logged \in SUBSET Families
    BY <1>3 DEF SnapPublish, Flushed, Families
  <2>2. [segs |-> snMan[snGen].segs \cup {snGen + 1}, floor |-> Floors(logged, snGen + 1)] \in ManifestRec
    BY <2>1, FloorsAre DEF ManifestRec
  <2>3. snDir' \subseteq File
    BY <1>3, <2>1, FloorsAre DEF SnapPublish
  <2>. QED  BY <1>3, <2>1, <2>2, <2>3 DEF SnapPublish, WalTail
<1>4. ASSUME NEW logged \in {{}, {"PLACEMENT"}}, SnapCompact(logged) PROVE SnapTypes'
  <2>1. snGen + 1 \in Gens /\ snMan[snGen] \in ManifestRec /\ logged \in SUBSET Families
    BY <1>4 DEF SnapCompact, Families
  <2>2. [segs |-> {snGen + 1}, floor |-> Floors(logged, snGen + 1)] \in ManifestRec
    BY <2>1, FloorsAre DEF ManifestRec
  <2>3. UNION {snRows[n] : n \in snMan[snGen].segs} \subseteq Int
    BY <2>1 DEF ManifestRec
  <2>5. snDir' \subseteq File
    BY <1>4, <2>1, FloorsAre DEF SnapCompact
  <2>. QED  BY <1>4, <2>1, <2>2, <2>3, <2>5 DEF SnapCompact
<1>5. CASE SnapCheckpoint
  BY <1>5 DEF SnapCheckpoint, File, Ckpt
<1>6. ASSUME NEW s \in Snapshotters, SnapCapture(s) PROVE SnapTypes'
  <2>1. PinnedFiles \subseteq File
    BY DEF PinnedFiles, File, Seg, Manifest, ManifestRec
  <2>2. [pc |-> "copy", gen |-> snGen, left |-> PinnedFiles, got |-> {}, wal |-> snWal,
         at |-> snNext - 1] \in ShotRec
    BY <2>1 DEF ShotRec
  <2>. QED  BY <1>6, <2>2 DEF SnapCapture
<1>7. ASSUME NEW s \in Snapshotters, SnapCopy(s) PROVE SnapTypes'
  <2>. PICK f \in shot[s].left :
         IF f \in snDir
         THEN shot' = [shot EXCEPT ![s].left = @ \ {f}, ![s].got = @ \cup {f}]
         ELSE shot' = [shot EXCEPT ![s].pc = "failed"]
    BY <1>7 DEF SnapCopy
  <2>1. CASE f \in snDir
    <3>1. shot' = [shot EXCEPT ![s] = [shot[s] EXCEPT !.left = @ \ {f}, !.got = @ \cup {f}]]
      BY <2>1
    <3>2. [shot[s] EXCEPT !.left = @ \ {f}, !.got = @ \cup {f}] \in ShotRec
      <4>1. shot[s] \in ShotRec /\ f \in File
        BY DEF ShotRec
      <4>. QED  BY ONLY <4>1 DEF ShotRec
    <3>. QED  BY <1>7, <3>1, <3>2 DEF SnapCopy
  <2>2. CASE f \notin snDir
    <3>1. [shot[s] EXCEPT !.pc = "failed"] \in ShotRec
      <4>1. shot[s] \in ShotRec
        OBVIOUS
      <4>. QED  BY ONLY <4>1 DEF ShotRec
    <3>2. shot' = [shot EXCEPT ![s] = [shot[s] EXCEPT !.pc = "failed"]]
      BY <2>2
    <3>. QED  BY <1>7, <3>1, <3>2 DEF SnapCopy
  <2>. QED  BY <2>1, <2>2
<1>8. ASSUME NEW s \in Snapshotters, SnapMark(s) PROVE SnapTypes'
  <2>1. [shot[s] EXCEPT !.pc = "marked"] \in ShotRec
    BY DEF ShotRec
  <2>2. shot' = [shot EXCEPT ![s] = [shot[s] EXCEPT !.pc = "marked"]]
    BY <1>8 DEF SnapMark
  <2>. QED  BY <1>8, <2>1, <2>2 DEF SnapMark
<1>9. ASSUME NEW s \in Snapshotters, SnapAgain(s) PROVE SnapTypes'
  <2>1. NoShot \in ShotRec
    BY DEF ShotRec, NoShot
  <2>. QED  BY <1>9, <2>1 DEF SnapAgain
<1>10. CASE UNCHANGED snapVars
  BY <1>10 DEF snapVars
<1>. QED
  BY <1>1, <1>2, <1>3, <1>4, <1>5, <1>6, <1>7, <1>8, <1>9, <1>10 DEF SnapNext

\* A step of the database leaves every captured snapshot alone.
LEMMA ShotsKept ==
  ASSUME SnapInv, SnapTypes', shot' = shot, snGen' >= snGen,
         \A g \in 1 .. snGen : /\ snMan'[g].segs = snMan[g].segs
                               /\ snMan'[g].floor = snMan[g].floor
                               /\ snRows'[g] = snRows[g],
         NEW s \in Snapshotters
  PROVE  ShotInv(s)'
<1>. SUFFICES ASSUME shot[s].pc \in {"copy", "marked"} PROVE ShotInv(s)'
  BY DEF ShotInv
<1>. DEFINE g == shot[s].gen
<1>1. /\ g \in 1 .. snGen /\ g \in Gens /\ snGen \in Gens /\ snGen' \in Gens
      /\ snMan[g].segs \subseteq 1 .. snGen
      /\ Needs(g, Files(s)) /\ shot[s].wal \cup RowsOf(g) = 1 .. shot[s].at
      /\ shot[s].pc = "marked" => shot[s].left = {}
  BY SnapAssumption DEF SnapInv, ShotInv, SnapTypes, Gens
<1>2. shot[s].gen' = g /\ Files(s)' = Files(s) /\ RowsOf(shot[s].gen)' = RowsOf(g)
  BY <1>1 DEF RowsOf, Files
<1>4. Needs(shot[s].gen, Files(s))'
  BY <1>1, <1>2 DEF Needs
<1>3. snMan'[g].segs \subseteq 1 .. snGen'
  BY <1>1 DEF Gens
<1>. QED  BY <1>1, <1>2, <1>3, <1>4 DEF ShotInv, Gens

\* After a publication every floor is covered: by its new log, or by what covered it before.
LEMMA FloorsCovered ==
  ASSUME SnapInv, NEW logged \in SUBSET Families, snGen + 1 \in Gens,
         NEW files, DeltaLogs(logged, snGen + 1) \subseteq files,
         \A f \in snDir : f.n <= snGen /\ f.kind # "SEGMENT" => f \in files,
         NEW d \in Families
  PROVE  /\ Floors(logged, snGen + 1)[d] <= snGen + 1
         /\ DeltaCovered(d, Floors(logged, snGen + 1)[d], files)
<1>0. /\ snMan[snGen].floor[d] <= snGen /\ snMan[snGen].floor[d] \in Nat /\ snGen \in Nat
      /\ DeltaCovered(d, snMan[snGen].floor[d], {f \in snDir : f.n <= snGen})
  <2>1. snMan[snGen] \in ManifestRec /\ snGen \in Nat
    BY SnapAssumption DEF SnapInv, SnapTypes, Gens
  <2>2. snMan[snGen].floor[d] \in Nat
    BY <2>1, SnapAssumption DEF ManifestRec
  <2>. QED  BY <2>1, <2>2 DEF SnapInv, BaseInv, Needs
<1>1. CASE d \in logged
  <2>1. Floors(logged, snGen + 1)[d] = snGen + 1 /\ Log(d, snGen + 1) \in files
    BY <1>1 DEF Floors, DeltaLogs
  <2>. QED  BY <1>0, <2>1 DEF DeltaCovered
<1>2. CASE d \notin logged
  <2>1. Floors(logged, snGen + 1)[d] = snMan[snGen].floor[d]
    BY <1>2 DEF Floors
  <2>2. \A h : Log(d, h) \in {f \in snDir : f.n <= snGen} => Log(d, h) \in files
    BY DEF Log, Families
  <2>3. \A c : Ckpt(c) \in {f \in snDir : f.n <= snGen} => Ckpt(c) \in files
    BY DEF Ckpt
  <2>. QED  BY <1>0, <2>1, <2>2, <2>3 DEF DeltaCovered
<1>. QED  BY <1>1, <1>2

\* A flush's publication: the frozen rows move from the WAL to the new segment.
LEMMA PublishBase == ASSUME SnapInv, NEW logged \in Flushed, SnapPublish(logged) PROVE BaseInv'
<1>. DEFINE g == snGen + 1
<1>0. logged \in SUBSET Families
  BY DEF Flushed, Families
<1>1. /\ g \in Gens /\ snGen \in Gens /\ g \in Nat /\ snGen' = g
      /\ snMan'[g].segs = snMan[snGen].segs \cup {g} /\ snMan'[g].floor = Floors(logged, g)
      /\ snRows'[g] = snFroz /\ \A n \in Gens \ {g} : snRows'[n] = snRows[n]
      /\ snDir' = snDir \cup {Seg(g), Manifest(g)} \cup DeltaLogs(logged, g)
      /\ snWal' = snWal \ snFroz /\ snNext' = snNext
  BY SnapAssumption DEF SnapInv, SnapTypes, SnapPublish, WalTail, Gens
<1>2. snMan[snGen].segs \subseteq 1 .. snGen /\ snMan[snGen].segs \subseteq Gens
  BY SnapAssumption DEF SnapInv, SnapTypes, BaseInv, ManifestRec, Gens
<1>3. RowsOf(snGen)' = RowsOf(snGen) \cup snFroz
  <2>1. \A n \in snMan[snGen].segs : snRows'[n] = snRows[n]
    BY <1>1, <1>2 DEF Gens
  <2>2. RowsOf(snGen)' = UNION {snRows'[n] : n \in snMan[snGen].segs \cup {g}}
    BY <1>1 DEF RowsOf
  <2>3. \A x : x \in RowsOf(snGen)' <=> x \in RowsOf(snGen) \/ x \in snFroz
    BY <1>1, <2>1, <2>2 DEF RowsOf
  <2>. QED  BY <2>3
<1>4. snWal' \cup RowsOf(snGen)' = 1 .. snNext' - 1
  BY <1>1, <1>3 DEF SnapInv, SnapTypes, BaseInv
<1>5. Needs(snGen, {f \in snDir : f.n <= snGen})'
  <2>1. \A n \in snMan[snGen].segs : Seg(n) \in snDir'
    BY <1>1 DEF SnapInv, BaseInv, Needs
  <2>2. {Seg(g), Manifest(g)} \cup DeltaLogs(logged, g) \subseteq {f \in snDir' : f.n <= g}
    BY <1>1 DEF Seg, Log, DeltaLogs, Manifest
  <2>3. ASSUME NEW n \in snMan'[g].segs PROVE Seg(n) \in {f \in snDir' : f.n <= g}
    <3>1. CASE n = g
      BY <2>2, <3>1
    <3>2. CASE n \in snMan[snGen].segs
      <4>1. Seg(n).n <= g /\ Seg(n) \in snDir'
        BY <1>1, <1>2, <2>1, <3>2 DEF Seg, Gens
      <4>. QED  BY <4>1
    <3>. QED  BY <1>1, <3>1, <3>2
  <2>4. \A f \in snDir : f.n <= snGen => f \in {x \in snDir' : x.n <= g}
    <3>1. \A f \in snDir : f.n \in Int
      BY DEF SnapInv, SnapTypes, File
    <3>2. \A k \in Int : k <= snGen => k <= g
      BY <1>1 DEF Gens
    <3>. QED  BY <1>1, <3>1, <3>2
  <2>5. \A d \in Families : DeltaCovered(d, Floors(logged, g)[d], {f \in snDir' : f.n <= g})
    BY <1>0, <1>1, <2>2, <2>4, FloorsCovered
  <2>. QED  BY <1>1, <2>2, <2>3, <2>5 DEF Needs, DeltaCovered
<1>6. \A d \in Families : Floors(logged, g)[d] <= g
  BY <1>0, <1>1, FloorsCovered, DeltaLogs(logged, g) \subseteq DeltaLogs(logged, g) \cup snDir
<1>. QED  BY <1>1, <1>2, <1>4, <1>5, <1>6 DEF BaseInv, Gens

\* A compaction: one segment holds the rows of all; only segments are deleted.
LEMMA CompactBase ==
  ASSUME SnapInv, NEW logged \in {{}, {"PLACEMENT"}}, SnapCompact(logged) PROVE BaseInv'
<1>. DEFINE g == snGen + 1
<1>0. logged \in SUBSET Families
  BY DEF Families
<1>1. /\ g \in Gens /\ snGen \in Gens /\ g \in Nat /\ snGen' = g
      /\ snMan'[g].segs = {g} /\ snMan'[g].floor = Floors(logged, g) /\ snRows'[g] = RowsOf(snGen)
      /\ snWal' = snWal /\ snNext' = snNext
  BY SnapAssumption DEF SnapInv, SnapTypes, SnapCompact, Gens, RowsOf
<1>2. snMan[snGen].segs \subseteq 1 .. snGen
  BY DEF SnapInv, BaseInv
<1>3. RowsOf(snGen)' = RowsOf(snGen)
  BY <1>1 DEF RowsOf
<1>4. snWal' \cup RowsOf(snGen)' = 1 .. snNext' - 1
  BY <1>1, <1>3 DEF SnapInv, BaseInv
<1>5. Needs(snGen, {f \in snDir : f.n <= snGen})'
  <2>1. \A f \in {Seg(g), Manifest(g)} \cup DeltaLogs(logged, g) : f \notin {Seg(n) : n \in snMan[snGen].segs}
    BY <1>0, <1>1, <1>2 DEF Seg, Log, DeltaLogs, Manifest, Gens, Families
  <2>2. {Seg(g), Manifest(g)} \cup DeltaLogs(logged, g) \subseteq snDir'
    BY <2>1 DEF SnapCompact, Deletable
  <2>3. {Seg(g), Manifest(g)} \cup DeltaLogs(logged, g) \subseteq {f \in snDir' : f.n <= g}
    BY <1>1, <2>2 DEF Seg, Log, DeltaLogs, Manifest
  <2>4. \A f \in snDir : f.n <= snGen /\ f.kind # "SEGMENT" => f \in {x \in snDir' : x.n <= g}
    <3>1. \A f \in snDir : f.n \in Int
      BY DEF SnapInv, SnapTypes, File
    <3>2. \A f \in snDir : f.kind # "SEGMENT" => f \in snDir'
      BY DEF SnapCompact, Deletable, Seg
    <3>3. \A k \in Int : k <= snGen => k <= g
      BY <1>1 DEF Gens
    <3>. QED  BY <3>1, <3>2, <3>3
  <2>5. \A d \in Families : DeltaCovered(d, Floors(logged, g)[d], {f \in snDir' : f.n <= g})
    BY <1>0, <1>1, <2>3, <2>4, FloorsCovered
  <2>. QED  BY <1>1, <2>3, <2>5 DEF Needs, DeltaCovered
<1>6. \A d \in Families : Floors(logged, g)[d] <= g
  BY <1>0, <1>1, FloorsCovered, DeltaLogs(logged, g) \subseteq DeltaLogs(logged, g) \cup snDir
<1>. QED  BY <1>1, <1>4, <1>5, <1>6 DEF BaseInv, Gens

\* A checkpoint covers every delta log that it allows to be pruned.
LEMMA CheckpointBase == SnapInv /\ SnapCheckpoint => BaseInv'
<1>. SUFFICES ASSUME SnapInv, SnapCheckpoint PROVE BaseInv'
  OBVIOUS
<1>1. /\ snGen' = snGen /\ snGen \in Gens /\ snGen \in Nat /\ snRows' = snRows
      /\ snMan' = snMan /\ snWal' = snWal /\ snNext' = snNext
  BY SnapAssumption DEF SnapInv, SnapTypes, SnapCheckpoint, Gens, ManifestRec
<1>2. RowsOf(snGen)' = RowsOf(snGen)
  BY <1>1 DEF RowsOf
<1>3. \A f \in snDir : f.kind \in {"MANIFEST", "SEGMENT"} => f \in snDir'
  BY DEF SnapCheckpoint, Deletable, Families
<1>6. \A d \in Families : snMan[snGen].floor[d] <= snGen
  BY DEF SnapInv, BaseInv
<1>4. Ckpt(snGen) \in {f \in snDir' : f.n <= snGen}
  BY <1>1 DEF SnapCheckpoint, Deletable, Ckpt, Families
<1>5. Needs(snGen, {f \in snDir : f.n <= snGen})'
  <2>1. Manifest(snGen) \in {f \in snDir' : f.n <= snGen}
    BY <1>1, <1>3 DEF SnapInv, BaseInv, Needs, Manifest
  <2>2. \A n \in snMan[snGen].segs : Seg(n) \in {f \in snDir' : f.n <= snGen}
    BY <1>1, <1>3 DEF SnapInv, BaseInv, Needs, Seg
  <2>3. \A d \in Families : DeltaCovered(d, snMan[snGen].floor[d], {f \in snDir' : f.n <= snGen})
    BY <1>1, <1>4, <1>6 DEF DeltaCovered
  <2>. QED  BY <1>1, <2>1, <2>2, <2>3 DEF Needs
<1>. QED  BY <1>1, <1>2, <1>5 DEF SnapInv, BaseInv

\* A snapshot's own steps leave the database alone.
LEMMA BaseKept ==
  ASSUME SnapInv, UNCHANGED <<snGen, snMan, snRows, snDir, snWal, snNext>>
  PROVE  BaseInv'
BY DEF SnapInv, BaseInv, Needs, RowsOf, DeltaCovered

\* And the other snapshots.
LEMMA OthersKept ==
  ASSUME SnapInv, UNCHANGED <<snGen, snMan, snRows>>,
         NEW u \in Snapshotters, shot'[u] = shot[u]
  PROVE  ShotInv(u)'
BY DEF SnapInv, ShotInv, Needs, RowsOf, Files, DeltaCovered

\* What capture pins is all that its generation needs.
LEMMA CaptureShot ==
  ASSUME SnapInv, NEW s \in Snapshotters, SnapCapture(s)
  PROVE  ShotInv(s)'
<1>1. /\ shot'[s].pc = "copy" /\ shot'[s].gen = snGen /\ shot'[s].left = PinnedFiles
      /\ shot'[s].got = {} /\ shot'[s].wal = snWal /\ shot'[s].at = snNext - 1
      /\ UNCHANGED <<snGen, snMan, snRows>>
  BY DEF SnapCapture, SnapInv, SnapTypes
<1>2. Needs(snGen, PinnedFiles)
  <2>. USE DEF SnapInv, BaseInv, Needs
  <2>1. Manifest(snGen) \in PinnedFiles /\ \A n \in snMan[snGen].segs : Seg(n) \in PinnedFiles
    BY DEF PinnedFiles
  <2>2. \A f \in snDir : f.kind \in Families \cup {"CHECKPOINT"} /\ f.n <= snGen => f \in PinnedFiles
    BY DEF PinnedFiles
  <2>3. \A d \in Families : DeltaCovered(d, snMan[snGen].floor[d], PinnedFiles)
    BY <2>2 DEF DeltaCovered, Log, Ckpt
  <2>. QED  BY <2>1, <2>3
<1>3. Files(s)' = PinnedFiles
  BY <1>1 DEF Files
<1>4. Needs(shot[s].gen, Files(s))' /\ RowsOf(shot[s].gen)' = RowsOf(snGen)
  BY <1>1, <1>2, <1>3 DEF Needs, RowsOf
<1>5. snGen \in 1 .. snGen
  BY SnapAssumption DEF SnapInv, SnapTypes, Gens
<1>. QED  BY <1>1, <1>4, <1>5 DEF ShotInv, SnapInv, BaseInv

\* Copying a file takes it from what is left to what is there.
LEMMA CopyShot ==
  ASSUME SnapInv, NEW s \in Snapshotters, SnapCopy(s)
  PROVE  ShotInv(s)'
<1>. PICK f \in shot[s].left :
       IF f \in snDir
       THEN shot' = [shot EXCEPT ![s].left = @ \ {f}, ![s].got = @ \cup {f}]
       ELSE shot' = [shot EXCEPT ![s].pc = "failed"]
  BY DEF SnapCopy
<1>0. shot[s].pc = "copy" /\ UNCHANGED <<snGen, snMan, snRows>> /\ shot[s] \in ShotRec
  BY DEF SnapCopy, SnapInv, SnapTypes
<1>1. CASE f \in snDir
  <2>1. shot' = [shot EXCEPT ![s] = [shot[s] EXCEPT !.left = @ \ {f}, !.got = @ \cup {f}]]
    BY <1>1
  <2>2. shot'[s] = [shot[s] EXCEPT !.left = @ \ {f}, !.got = @ \cup {f}]
    BY <2>1 DEF SnapInv, SnapTypes
  <2>3. /\ shot'[s].pc = shot[s].pc /\ shot'[s].gen = shot[s].gen /\ shot'[s].wal = shot[s].wal
        /\ shot'[s].at = shot[s].at /\ Files(s)' = Files(s)
    BY <1>0, <2>2 DEF ShotRec, Files
  <2>. QED  BY <1>0, <2>3 DEF SnapInv, ShotInv, Needs, RowsOf
<1>2. CASE f \notin snDir
  <2>1. shot' = [shot EXCEPT ![s] = [shot[s] EXCEPT !.pc = "failed"]]
    BY <1>2
  <2>2. shot'[s] = [shot[s] EXCEPT !.pc = "failed"]
    BY <2>1 DEF SnapInv, SnapTypes
  <2>3. shot'[s].pc = "failed"
    BY <1>0, <2>2 DEF ShotRec
  <2>. QED  BY <2>3 DEF ShotInv
<1>. QED  BY <1>1, <1>2

\* The marker goes with a snapshot that has nothing left to copy.
LEMMA MarkShot ==
  ASSUME SnapInv, NEW s \in Snapshotters, SnapMark(s)
  PROVE  ShotInv(s)'
<1>0. /\ shot[s].pc = "copy" /\ shot[s].left = {} /\ UNCHANGED <<snGen, snMan, snRows>>
      /\ shot[s] \in ShotRec
  BY DEF SnapMark, ReadyToMark, SnapInv, SnapTypes
<1>1. shot' = [shot EXCEPT ![s] = [shot[s] EXCEPT !.pc = "marked"]]
  BY DEF SnapMark
<1>2. shot'[s] = [shot[s] EXCEPT !.pc = "marked"]
  BY <1>1 DEF SnapInv, SnapTypes
<1>3. /\ shot'[s].gen = shot[s].gen /\ shot'[s].wal = shot[s].wal /\ shot'[s].at = shot[s].at
      /\ shot'[s].left = {} /\ Files(s)' = Files(s)
  BY <1>0, <1>2 DEF ShotRec, Files
<1>. QED  BY <1>0, <1>3 DEF SnapInv, ShotInv, Needs, RowsOf

LEMMA SnapInvNext == SnapInv /\ [SnapNext]_snapVars => SnapInv'
<1>. SUFFICES ASSUME SnapInv, [SnapNext]_snapVars PROVE SnapInv'
  OBVIOUS
<1>0. SnapTypes'
  BY SnapTypesNext DEF SnapInv
<1>. SUFFICES BaseInv' /\ \A u \in Snapshotters : ShotInv(u)'
  BY <1>0 DEF SnapInv
<1>1. CASE SnapWrite
  <2>1. BaseInv'
    <3>1. RowsOf(snGen)' = RowsOf(snGen) /\ Needs(snGen, {f \in snDir : f.n <= snGen})'
      BY <1>1 DEF SnapWrite, SnapInv, BaseInv, Needs, RowsOf, DeltaCovered
    <3>2. snWal' \cup RowsOf(snGen) = 1 .. snNext' - 1
      BY <1>1 DEF SnapWrite, SnapInv, SnapTypes, BaseInv
    <3>. QED  BY <1>1, <3>1, <3>2 DEF SnapWrite, SnapInv, BaseInv
  <2>. QED  BY <1>1, <2>1, OthersKept DEF SnapWrite
<1>2. CASE SnapFreeze
  BY <1>2, BaseKept, OthersKept DEF SnapFreeze
<1>3. ASSUME NEW logged \in Flushed, SnapPublish(logged)
      PROVE  BaseInv' /\ \A u \in Snapshotters : ShotInv(u)'
  <2>1. /\ snGen' >= snGen /\ shot' = shot
        /\ \A g \in 1 .. snGen : snMan'[g] = snMan[g] /\ snRows'[g] = snRows[g]
    BY <1>3 DEF SnapPublish, SnapInv, SnapTypes, Gens
  <2>. QED  BY <1>0, <1>3, <2>1, PublishBase, ShotsKept
<1>4. ASSUME NEW logged \in {{}, {"PLACEMENT"}}, SnapCompact(logged)
      PROVE  BaseInv' /\ \A u \in Snapshotters : ShotInv(u)'
  <2>1. /\ snGen' >= snGen /\ shot' = shot
        /\ \A g \in 1 .. snGen : snMan'[g] = snMan[g] /\ snRows'[g] = snRows[g]
    BY <1>4 DEF SnapCompact, SnapInv, SnapTypes, Gens
  <2>. QED  BY <1>0, <1>4, <2>1, CompactBase, ShotsKept
<1>5. CASE SnapCheckpoint
  <2>1. snGen' >= snGen /\ UNCHANGED <<shot, snMan, snRows>>
    BY <1>5 DEF SnapCheckpoint, SnapInv, SnapTypes, Gens
  <2>. QED  BY <1>0, <1>5, <2>1, CheckpointBase, ShotsKept
<1>6. ASSUME NEW s \in Snapshotters, SnapCapture(s) \/ SnapCopy(s) \/ SnapMark(s) \/ SnapAgain(s)
      PROVE  BaseInv' /\ \A u \in Snapshotters : ShotInv(u)'
  <2>1. UNCHANGED <<snGen, snMan, snRows, snDir, snWal, snNext>>
    BY <1>6 DEF SnapCapture, SnapCopy, SnapMark, SnapAgain
  <2>2. \A u \in Snapshotters \ {s} : shot'[u] = shot[u]
    <3>. shot \in [Snapshotters -> ShotRec]
      BY DEF SnapInv, SnapTypes
    <3>1. CASE SnapCopy(s)
      BY <3>1 DEF SnapCopy
    <3>2. CASE SnapMark(s)
      BY <3>2 DEF SnapMark
    <3>. QED  BY <1>6, <3>1, <3>2 DEF SnapCapture, SnapAgain
  <2>3. SnapAgain(s) => ShotInv(s)'
    BY DEF SnapAgain, ShotInv, NoShot, SnapInv, SnapTypes
  <2>4. ShotInv(s)'
    BY <1>6, <2>3, CaptureShot, CopyShot, MarkShot
  <2>. QED  BY <2>1, <2>2, <2>4, BaseKept, OthersKept
<1>7. CASE UNCHANGED snapVars
  BY <1>7, BaseKept, OthersKept DEF snapVars
<1>. QED  BY <1>1, <1>2, <1>3, <1>4, <1>5, <1>6, <1>7 DEF SnapNext

LEMMA MarkedFollows == SnapInv => SnapTypeOK /\ MarkedRestores
<1>. SUFFICES ASSUME SnapInv PROVE SnapTypeOK /\ MarkedRestores
  OBVIOUS
<1>1. SnapTypeOK
  BY DEF SnapInv, SnapTypes, SnapTypeOK, ShotRec, Gens
<1>2. ASSUME NEW s \in Snapshotters, shot[s].pc = "marked"
      PROVE  /\ HasSegments(s) /\ RestoredRows(s) = 1 .. shot[s].at
             /\ \A d \in Families : FloorLogged(s, d) \/ Subsumed(s, d)
  <2>1. Needs(shot[s].gen, shot[s].got) /\ shot[s].wal \cup RowsOf(shot[s].gen) = 1 .. shot[s].at
    BY <1>2 DEF SnapInv, ShotInv, Files
  <2>2. ASSUME NEW d \in Families PROVE FloorLogged(s, d) \/ Subsumed(s, d)
    <3>1. DeltaCovered(d, FloorOf(s, d), shot[s].got)
      BY <2>1 DEF Needs, FloorOf
    <3>2. CASE \E c \in Nat : Ckpt(c) \in shot[s].got /\ FloorOf(s, d) <= c
      <4>1. PICK c \in Nat : Ckpt(c) \in shot[s].got /\ FloorOf(s, d) <= c
        BY <3>2
      <4>2. Ckpt(c).kind = "CHECKPOINT" /\ Ckpt(c).n = c /\ FloorOf(s, d) \in Int
        <5>1. shot[s].gen \in Gens
          BY <1>2, SnapAssumption DEF SnapInv, ShotInv, SnapTypes, Gens
        <5>. QED  BY <5>1 DEF Ckpt, FloorOf, SnapInv, SnapTypes, ManifestRec
      <4>. QED  BY <4>1, <4>2 DEF Subsumed
    <3>. QED  BY <3>1, <3>2 DEF DeltaCovered, FloorLogged
  <2>. QED  BY <2>1, <2>2 DEF HasSegments, RestoredRows, Needs, RowsOf
<1>. QED  BY <1>1, <1>2 DEF MarkedRestores

\* A marked snapshot holds exactly the rows of its capture, and every delta log its
\* manifest names or a checkpoint that replaces it, whatever was flushed, compacted or
\* pruned during the copy, for any number of concurrent snapshots (snapshot.rs:
\* snapshot_to): a restore refuses it only for a log that a checkpoint has replaced.
THEOREM SnapshotsRestore == SnapSpec => [](SnapTypeOK /\ MarkedRestores)
BY SnapInvInit, SnapInvNext, MarkedFollows, PTL DEF SnapSpec

-----------------------------------------------------------------------------
(* A lone snapshotter *)

\* What is left to copy is pinned, and there.
PinInv == \A s \in Snapshotters : shot[s].pc = "copy" => shot[s].left \subseteq snDir \cap snPins

\* No step deletes a pinned file.
LEMMA PinnedStay == SnapInv /\ [SnapNext]_snapVars => snDir \cap snPins \subseteq snDir'
<1>. SUFFICES ASSUME SnapInv, [SnapNext]_snapVars PROVE snDir \cap snPins \subseteq snDir'
  OBVIOUS
<1>. QED
  BY DEF SnapNext, SnapWrite, SnapFreeze, SnapPublish, SnapCompact, SnapCheckpoint, SnapCapture,
         SnapCopy, SnapMark, SnapAgain, Deletable, snapVars

\* Capture pins files that are there.
LEMMA PinnedExist == SnapInv => PinnedFiles \subseteq snDir
BY DEF SnapInv, BaseInv, Needs, PinnedFiles

LEMMA PinNext ==
  ASSUME \A s, u \in Snapshotters : s = u, SnapInv, PinInv, [SnapNext]_snapVars
  PROVE  PinInv'
<1>0. snDir \cap snPins \subseteq snDir' /\ shot \in [Snapshotters -> ShotRec]
  BY PinnedStay DEF SnapInv, SnapTypes
<1>1. CASE UNCHANGED <<shot, snPins>>
  BY <1>0, <1>1 DEF PinInv
<1>2. ASSUME NEW s \in Snapshotters, SnapCapture(s) PROVE PinInv'
  <2>1. shot'[s].left = PinnedFiles /\ snPins' = snPins \cup PinnedFiles /\ snDir' = snDir
    BY <1>0, <1>2 DEF SnapCapture
  <2>. QED  BY <2>1, PinnedExist DEF PinInv
<1>3. ASSUME NEW s \in Snapshotters, SnapCopy(s) PROVE PinInv'
  <2>1. PICK f \in shot[s].left :
          IF f \in snDir
          THEN /\ shot' = [shot EXCEPT ![s].left = @ \ {f}, ![s].got = @ \cup {f}]
               /\ snPins' = snPins
          ELSE shot' = [shot EXCEPT ![s].pc = "failed"]
    BY <1>3 DEF SnapCopy
  <2>2. shot[s].left \subseteq snDir \cap snPins /\ snDir' = snDir
    BY <1>3 DEF SnapCopy, PinInv
  <2>3. /\ shot' = [shot EXCEPT ![s] = [shot[s] EXCEPT !.left = @ \ {f}, !.got = @ \cup {f}]]
        /\ snPins' = snPins
    BY <2>1, <2>2
  <2>4. shot'[s] = [shot[s] EXCEPT !.left = @ \ {f}, !.got = @ \cup {f}]
    BY <1>0, <2>3
  <2>5. shot'[s].left = shot[s].left \ {f}
    BY <1>0, <2>4 DEF ShotRec
  <2>. QED  BY <2>2, <2>3, <2>5 DEF PinInv
<1>4. ASSUME NEW s \in Snapshotters, SnapMark(s) \/ SnapAgain(s) PROVE PinInv'
  <2>1. shot'[s].pc # "copy"
    <3>1. CASE SnapMark(s)
      <4>1. shot' = [shot EXCEPT ![s] = [shot[s] EXCEPT !.pc = "marked"]]
        BY <3>1 DEF SnapMark
      <4>2. shot'[s] = [shot[s] EXCEPT !.pc = "marked"]
        BY <1>0, <4>1
      <4>. QED  BY <1>0, <4>2 DEF ShotRec
    <3>2. CASE SnapAgain(s)
      BY <1>0, <3>2 DEF SnapAgain, NoShot
    <3>. QED  BY <1>4, <3>1, <3>2
  <2>. QED  BY <2>1 DEF PinInv
<1>. QED
  BY <1>1, <1>2, <1>3, <1>4 DEF SnapNext, SnapWrite, SnapFreeze, SnapPublish, SnapCompact,
     SnapCheckpoint, snapVars

\* With one snapshot at a time the copy never meets a file that was pruned under it
\* (db.rs: snapshot_pins; snapshot.rs: snapshot_to): all of SnapshotSafe.
THEOREM LoneSnapshotSafe ==
  ASSUME \A s, u \in Snapshotters : s = u
  PROVE  SnapSpec => []SnapshotSafe
<1>1. SnapInit => PinInv
  BY DEF SnapInit, PinInv, NoShot
<1>2. SnapInv /\ PinInv /\ [SnapNext]_snapVars => PinInv'
  BY PinNext
<1>3. SnapInv /\ PinInv => SnapshotSafe
  BY MarkedFollows DEF PinInv, SnapshotSafe, CopyNeverRaces
<1>. QED  BY <1>1, <1>2, <1>3, SnapInvInit, SnapInvNext, PTL DEF SnapSpec

-----------------------------------------------------------------------------
(* Rejoin: a standby replaced on disk. *)

\* Between the snapshot's arrival and the end of its re-bootstrap.
Working == {"restore", "meta", "moveOld", "moveNew", "dropOld", "dropSnap", "dropCkpt", "unrecord"}

\* The new directory has taken the old one's place.
Moved == {"dropOld", "dropSnap", "dropCkpt", "unrecord"}

RjTypes ==
    /\ RjTypeOK
    /\ rjDir \in [data : Int, meta : Int] /\ rjNew \in [data : Int, meta : Int]
    /\ rjSnap \in [n : Int, whole : BOOLEAN] /\ rjShips \in 0 .. MaxShips
    /\ rjCkpt \in Int

\* A recorded re-bootstrap is finished from its own snapshot or not at all.
RecordInv ==
    rjPending # Nowhere => /\ Serving /\ rjPc \notin {"follow", "record"}
                           /\ rjSnap.whole => rjSnap.n = rjPending
                           /\ rjSnap.whole \/ rjDir = HoldsShip(rjPending)

\* A process at work carries the snapshot it restores, and a serving one has recorded it.
WorkInv ==
    /\ rjPc \in Working \cup {"record"} => rjGoal # Nowhere /\ (rjSnap.whole => rjSnap.n = rjGoal)
    /\ Serving /\ rjPc \in Working => rjPending = rjGoal
    /\ rjPc \in {"record", "refused"} => Serving
    /\ rjPc = "record" => rjSnap.whole
    /\ rjPc = "refused" => rjPending # Nowhere
    /\ rjPc \in {"meta", "moveOld", "moveNew"} => rjSnap.whole
    /\ ~ Serving /\ rjPc = "restore" => rjSnap.whole

\* What .new holds before it is moved, and the directory once it was.
DirInv ==
    /\ rjDir.meta = rjDir.data
    /\ rjPc = "follow" => rjDir # Gone
    /\ rjPc = "meta" => rjNew.data = rjGoal
    /\ rjPc \in {"moveOld", "moveNew"} => rjNew = HoldsShip(rjGoal)
    /\ rjPc \in Moved => rjDir = HoldsShip(rjGoal)

\* Without a re-bootstrap in progress the checkpoint describes the directory.
CkptInv ==
    Serving => /\ rjPending = Nowhere => rjDir # Gone /\ rjCkpt \in {Nowhere, rjDir.data}
               /\ rjPc = "unrecord" => rjCkpt = Nowhere

RjInv == RjTypes /\ RecordInv /\ WorkInv /\ DirInv /\ CkptInv

-----------------------------------------------------------------------------

LEMMA RjInvInit == RjInit => RjInv
BY RejoinAssumption
DEF RjInit, RjInv, RjTypes, RjTypeOK, RecordInv, WorkInv, DirInv, CkptInv, Working, Moved,
    HoldsShip, Gone, Nowhere, NoSource

LEMMA RjInvNext == RjInv /\ [RjNext]_rjVars => RjInv'
<1>. SUFFICES ASSUME RjInv, [RjNext]_rjVars PROVE RjInv'
  OBVIOUS
<1>. USE RejoinAssumption
     DEF RjInv, RjTypes, RjTypeOK, RecordInv, WorkInv, DirInv, CkptInv, Working, Moved, HoldsShip,
         Gone, Nowhere, NoSource, RjGo
<1>1. CASE RjStart
  BY <1>1 DEF RjStart, Blank
<1>2. CASE RjCheckpoint
  BY <1>2 DEF RjCheckpoint
<1>3. CASE RjReceive
  BY <1>3 DEF RjReceive, Received
<1>4. CASE RjRecord
  BY <1>4 DEF RjRecord
<1>5. CASE RjRestore
  BY <1>5 DEF RjRestore
<1>6. CASE RjMeta
  BY <1>6 DEF RjMeta, MetaOf
<1>7. CASE RjMoveOld
  BY <1>7 DEF RjMoveOld
<1>8. CASE RjMoveNew
  BY <1>8 DEF RjMoveNew
<1>9. CASE RjDropOld
  BY <1>9 DEF RjDropOld
<1>10. CASE RjDropSnap
  <2>. UNCHANGED <<rjDir, rjNew, rjOld, rjCkpt, rjPending, rjGoal, rjShips>> /\ rjPc = "dropSnap"
    BY <1>10 DEF RjDropSnap
  <2>1. CASE rjSnap.whole /\ rjSnap' = [rjSnap EXCEPT !.whole = FALSE] /\ RjGo("dropSnap")
    <3>1. rjSnap' \in [n : Int, whole : BOOLEAN] /\ ~ rjSnap'.whole
      BY <2>1
    <3>. QED  BY <2>1, <3>1
  <2>2. CASE rjSnap' = NoSource /\ RjGo("dropCkpt")
    BY <2>2
  <2>. QED  BY <1>10, <2>1, <2>2 DEF RjDropSnap
<1>11. CASE RjDropCkpt
  BY <1>11 DEF RjDropCkpt, CkptAfter
<1>12. CASE RjUnrecord
  BY <1>12 DEF RjUnrecord
<1>13. CASE RjRestart
  BY <1>13 DEF RjRestart
<1>14. CASE RjCrash
  BY <1>14 DEF RjCrash
<1>15. CASE UNCHANGED rjVars
  BY <1>15 DEF rjVars
<1>. QED
  BY <1>1, <1>2, <1>3, <1>4, <1>5, <1>6, <1>7, <1>8, <1>9, <1>10, <1>11, <1>12, <1>13, <1>14,
     <1>15 DEF RjNext

\* Whatever a crash interrupts, a re-bootstrap never leaves a mixed history, and a recorded one
\* can be finished or is done (replication.rs: receive_dir, rebootstrap, finish_rebootstrap),
\* in a serving standby and in the loop alike.
THEOREM RejoinNeverMixes == RjSpec => [](RjTypeOK /\ NeverMixed /\ RecordHasSource)
<1>1. RjInv => RjTypeOK /\ NeverMixed /\ RecordHasSource
  BY DEF RjInv, RjTypes, RecordInv, DirInv, NeverMixed, RecordHasSource
<1>. QED  BY <1>1, RjInvInit, RjInvNext, PTL DEF RjSpec

\* A serving standby, which records the snapshot before it exits for its restart, keeps all of
\* RejoinSafe: it never resumes from an index checkpoint of the history it has replaced.
THEOREM ServingRejoinSafe ==
  ASSUME Serving
  PROVE  RjSpec => []RejoinSafe
<1>1. RjInv => RejoinSafe
  BY DEF RjInv, RjTypes, RecordInv, DirInv, CkptInv, RejoinSafe, NeverMixed, RecordHasSource,
         CkptMatches
<1>. QED  BY <1>1, RjInvInit, RjInvNext, PTL DEF RjSpec

-----------------------------------------------------------------------------
(* RetainedLog *)

Elems(f) == {f[i] : i \in DOMAIN f}

LogReader == [on : BOOLEAN, sent : Nat, hold : Nat, pc : {"idle", "list", "read"},
              wal : Seq(Nat), next : Nat, names : SUBSET Nat]

RlShape ==
    /\ rwal \in Seq(Nat) /\ {rnext, burnt, answered, links} \subseteq Nat /\ rnext # 0
    /\ \A f \in rfiles : f \in Seq(Nat) /\ f # <<>>
    /\ frames \subseteq Nat /\ (\A s \in frames : s < rnext)
    /\ covered \in [pc : {"idle", "archive", "truncate"}, len : Nat]
    /\ held \in [Consumers -> SUBSET frames]
    /\ flight \in [Consumers -> Seq(Nat)] /\ \A c \in Consumers : Elems(flight[c]) \subseteq frames
    /\ cons \in [Consumers -> LogReader] /\ \A c \in Consumers : Elems(cons[c].wal) \subseteq frames

\* What is on disk is of the leader's frames, in order: a file is older than the WAL,
\* unless it has a prefix of it that a flush archived and has not truncated.
DiskInv ==
    /\ OnDisk \subseteq frames
    /\ \A i, j \in DOMAIN rwal : i < j => rwal[i] < rwal[j]
    /\ \A f, g \in rfiles : f[1] < g[1] => \A i \in DOMAIN f : f[i] < g[1]
    /\ \A f \in rfiles : rwal # <<>> => \/ \A i \in DOMAIN f : f[i] < rwal[1]
                                        \/ f[1] = rwal[1] /\ Elems(f) \subseteq Elems(rwal)

\* A flush covers frames of the WAL and archives them before it truncates.
FlushInv ==
    /\ covered.pc # "idle" => covered.len \in 1 .. Len(rwal)
    /\ covered.pc = "truncate" => /\ Covered \in rfiles
                                  /\ \A f \in rfiles : f[1] = rwal[1] => f = Covered

RlInv == RlShape /\ DiskInv /\ FlushInv /\ HeldIsPrefix

\* What a hold or a release to come stands for: the consumer has every frame up to its
\* hold, and whoever was counted in the ack a thread read has every frame up to that.
ReleaseInv ==
    /\ releasing \in [Consumers -> [upto : Nat, counted : SUBSET Consumers]]
    /\ \A s \in frames : s # 0
    /\ \A c \in Consumers : cons[c].hold < rnext /\ \A s \in frames : s <= cons[c].hold => s \in held[c]
    /\ \A c \in Consumers : cons[c].pc # "idle" => cons[c].on
    /\ \A d \in Consumers : releasing[d].upto < rnext
    /\ \A d \in Consumers : \A c \in releasing[d].counted : \A s \in frames :
          s <= releasing[d].upto => s \in held[c] /\ (cons[c].on => s <= cons[c].hold)

-----------------------------------------------------------------------------

LEMMA Least == ASSUME NEW T \in SUBSET Nat, T # {} PROVE \E x \in T : \A y \in T : ~ (y < x)
<1>1. PICK x \in T : \A y \in T : ~ (<<y, x>> \in OpToRel(<, Nat))
  BY WFMin, NatLessThanWellFounded
<1>2. \A y \in T : <<y, x>> \in OpToRel(<, Nat) <=> y < x
  BY DEF OpToRel
<1>. QED  BY <1>1, <1>2

\* Top is the largest of a bounded set, 0 of an empty one.
LEMMA TopIs ==
    ASSUME NEW S \in SUBSET Nat, NEW n \in Nat, \A s \in S : s < n
    PROVE  /\ Top(S) \in Nat /\ \A s \in S : s <= Top(S)
           /\ Top(S) = 0 \/ Top(S) \in S
<1>1. CASE S = {}
  BY <1>1 DEF Top
<1>2. CASE S # {}
  <2>. DEFINE T == {n - s : s \in S}
  <2>1. T \in SUBSET Nat
    OBVIOUS
  <2>2. T # {}
    BY <1>2
  <2>. HIDE DEF T
  <2>3. PICK t \in T : \A y \in T : ~ (y < t)
    BY <2>1, <2>2, Least
  <2>4. PICK m \in S : t = n - m
    BY DEF T
  <2>5. \A s \in S : n - s \in T
    BY DEF T
  <2>6. \A s \in S : s <= m
    BY <2>3, <2>4, <2>5
  <2>7. Top(S) = CHOOSE x \in S : \A s \in S : s <= x
    BY <1>2 DEF Top
  <2>8. Top(S) \in S /\ \A s \in S : s <= Top(S)
    BY <2>6, <2>7
  <2>. QED  BY <2>8
<1>. QED  BY <1>1, <1>2

LEMMA RlInitial == RlInit => RlInv
<1>. SUFFICES ASSUME RlInit PROVE RlInv
  OBVIOUS
<1>1. RlIdle \in LogReader /\ RlIdle.wal = <<>>
  BY DEF RlIdle, LogReader
<1>2. Elems(<<>>) = {}
  BY DEF Elems
<1>3. RlShape
  BY <1>1, <1>2 DEF RlShape, RlInit, NoFlushRl
<1>4. OnDisk = {}
  BY DEF OnDisk, RlInit
<1>5. DiskInv /\ FlushInv
  BY <1>4 DEF DiskInv, FlushInv, RlInit, NoFlushRl
<1>6. HeldIsPrefix
  BY DEF HeldIsPrefix, RlInit
<1>. QED  BY <1>3, <1>5, <1>6 DEF RlInv

LEMMA FileIs ==
    ASSUME RlInv, NEW f \in rfiles
    PROVE  f \in Seq(Nat) /\ 1 \in DOMAIN f /\ f[1] \in Nat /\ \A i \in DOMAIN f : f[i] \in Nat
<1>1. f \in Seq(Nat) /\ f # <<>>
  BY DEF RlInv, RlShape
<1>2. Len(f) \in Nat /\ Len(f) # 0 /\ DOMAIN f = 1 .. Len(f)
  BY <1>1
<1>. QED  BY <1>1, <1>2

LEMMA OlderThanWal ==
    ASSUME RlInv, NEW f \in rfiles, rwal # <<>>
    PROVE  \/ \A i \in DOMAIN f : f[i] < rwal[1]
           \/ f[1] = rwal[1] /\ Elems(f) \subseteq Elems(rwal)
BY Zenon DEF RlInv, DiskInv

\* The steps that leave the log alone.
LEMMA LogStays ==
    ASSUME RlInv, UNCHANGED <<rwal, rfiles, covered, frames>>
    PROVE  DiskInv' /\ FlushInv' /\ UnackedRetained
BY DEF RlInv, DiskInv, FlushInv, UnackedRetained, Lost, OnDisk, Covered, Elems

\* What the consumers hold is not affected by a step that leaves it alone.
LEMMA HeldStays ==
    ASSUME RlInv, UNCHANGED <<held, frames, answered>>
    PROVE  HeldIsPrefix'
BY DEF RlInv, HeldIsPrefix

-----------------------------------------------------------------------------
(* The leader's steps *)

LEMMA RlWriteKeeps == ASSUME RlInv, RlWrite PROVE RlInv' /\ UnackedRetained
<1>. USE DEF RlInv
<1>0. rnext \in Nat /\ rwal \in Seq(Nat) /\ rnext' = rnext + 1 /\ rwal' = Append(rwal, rnext)
      /\ frames' = frames \cup {rnext} /\ UNCHANGED <<rfiles, covered, burnt, cons, held, flight, answered, links>>
  BY DEF RlShape, RlWrite
<1>1. RlShape'
  <2>1. rwal' \in Seq(Nat) /\ rnext' \in Nat
    BY <1>0
  <2>2. frames' \subseteq Nat /\ \A s \in frames' : s < rnext'
    BY <1>0 DEF RlShape
  <2>3. held' \in [Consumers -> SUBSET frames']
    BY <1>0 DEF RlShape
  <2>4. \A c \in Consumers : Elems(flight'[c]) \subseteq frames' /\ Elems(cons'[c].wal) \subseteq frames'
    BY <1>0 DEF RlShape
  <2>. QED  BY <1>0, <2>1, <2>2, <2>3, <2>4 DEF RlShape
<1>2. /\ Len(rwal') = Len(rwal) + 1 /\ DOMAIN rwal' = 1 .. (Len(rwal) + 1) /\ DOMAIN rwal = 1 .. Len(rwal)
      /\ rwal'[Len(rwal) + 1] = rnext /\ (\A i \in 1 .. Len(rwal) : rwal'[i] = rwal[i]) /\ Len(rwal) \in Nat
  BY <1>0
<1>3. OnDisk' = OnDisk \cup {rnext}
  BY <1>0, <1>2 DEF OnDisk
<1>4. \A i \in DOMAIN rwal : rwal[i] \in frames
  BY DEF DiskInv, OnDisk
<1>5. \A f \in rfiles : \A i \in DOMAIN f : f[i] \in frames
  BY DEF DiskInv, OnDisk
<1>6. \A s \in frames : s < rnext /\ s \in Nat
  BY DEF RlShape
<1>7. \A i, j \in DOMAIN rwal' : i < j => rwal'[i] < rwal'[j]
  <2>. SUFFICES ASSUME NEW i \in DOMAIN rwal', NEW j \in DOMAIN rwal', i < j PROVE rwal'[i] < rwal'[j]
    OBVIOUS
  <2>1. i \in 1 .. Len(rwal) /\ rwal'[i] = rwal[i]
    BY <1>2
  <2>2. CASE j = Len(rwal) + 1
    BY <2>1, <2>2, <1>2, <1>4, <1>6
  <2>3. CASE j # Len(rwal) + 1
    BY <2>1, <2>3, <1>2 DEF DiskInv
  <2>. QED  BY <2>2, <2>3
<1>8. \A f \in rfiles : \/ \A i \in DOMAIN f : f[i] < rwal'[1]
                        \/ f[1] = rwal'[1] /\ Elems(f) \subseteq Elems(rwal')
  <2>. SUFFICES ASSUME NEW f \in rfiles
                PROVE  \/ \A i \in DOMAIN f : f[i] < rwal'[1]
                       \/ f[1] = rwal'[1] /\ Elems(f) \subseteq Elems(rwal')
    OBVIOUS
  <2>1. CASE rwal = <<>>
    <3>1. rwal'[1] = rnext
      BY <2>1, <1>2
    <3>. QED  BY <3>1, <1>5, <1>6
  <2>2. CASE rwal # <<>>
    <3>1. rwal'[1] = rwal[1]
      BY <2>2, <1>0, <1>2
    <3>2. Elems(rwal) \subseteq Elems(rwal')
      BY <1>2 DEF Elems
    <3>. QED  BY <2>2, <3>1, <3>2 DEF DiskInv
  <2>. QED  BY <2>1, <2>2
<1>9. DiskInv'
  BY <1>0, <1>3, <1>7, <1>8 DEF DiskInv
<1>10. FlushInv'
  <2>1. covered.pc # "truncate"
    BY DEF RlWrite
  <2>. QED  BY <1>0, <1>2, <2>1 DEF FlushInv
<1>11. HeldIsPrefix'
  <2>1. ASSUME NEW c \in Consumers PROVE held'[c] = {f \in frames' : f <= Top(held'[c])}
    <3>1. held[c] \in SUBSET Nat /\ \A s \in held[c] : s < rnext
      BY DEF RlShape
    <3>2. Top(held[c]) \in Nat /\ (Top(held[c]) = 0 \/ Top(held[c]) \in held[c])
      BY <3>1, <1>0, TopIs
    <3>3. rnext > 0
      BY <1>0 DEF RlShape
    <3>. QED  BY <1>0, <3>1, <3>2, <3>3 DEF HeldIsPrefix
  <2>. QED  BY <2>1, <1>0 DEF HeldIsPrefix
<1>12. UnackedRetained
  BY <1>3 DEF UnackedRetained, Lost
<1>. QED  BY <1>1, <1>9, <1>10, <1>11, <1>12
LEMMA RlBurnKeeps == ASSUME RlInv, RlBurn PROVE RlInv' /\ UnackedRetained
<1>1. RlShape'
  BY DEF RlBurn, RlInv, RlShape
<1>2. DiskInv' /\ FlushInv' /\ UnackedRetained /\ HeldIsPrefix'
  BY LogStays, HeldStays DEF RlBurn
<1>. QED  BY <1>1, <1>2 DEF RlInv

LEMMA RlFlushBeginKeeps == ASSUME RlInv, RlFlushBegin PROVE RlInv' /\ UnackedRetained
<1>0. UNCHANGED <<rwal, rfiles, frames, held, answered, cons, rnext, burnt, links, flight>>
  BY DEF RlFlushBegin
<1>1. Len(rwal) \in 1 .. Len(rwal)
  BY DEF RlFlushBegin, RlInv, RlShape
<1>2. RlShape' /\ FlushInv'
  BY <1>0, <1>1 DEF RlFlushBegin, RlInv, RlShape, FlushInv
<1>3. DiskInv' /\ UnackedRetained
  BY <1>0 DEF RlInv, DiskInv, UnackedRetained, Lost, OnDisk, Elems
<1>. QED  BY <1>0, <1>2, <1>3, HeldStays DEF RlInv

\* The covered prefix begins as the WAL does and has its frames.
LEMMA CoveredIs ==
    ASSUME RlInv, covered.pc # "idle"
    PROVE  /\ Covered \in Seq(Nat) /\ Covered # <<>> /\ Covered[1] = rwal[1]
           /\ Elems(Covered) \subseteq Elems(rwal) /\ rwal # <<>>
           /\ DOMAIN Covered = 1 .. covered.len /\ \A i \in 1 .. covered.len : Covered[i] = rwal[i]
           /\ 1 \in DOMAIN Covered
<1>1. rwal \in Seq(Nat) /\ covered.len \in 1 .. Len(rwal) /\ Len(rwal) \in Nat /\ covered.len \in Nat
  BY DEF RlInv, RlShape, FlushInv
<1>2. Covered \in Seq(Nat) /\ Len(Covered) = covered.len
      /\ \A i \in 1 .. covered.len : Covered[i] = rwal[i]
  BY <1>1 DEF Covered
<1>3. DOMAIN Covered = 1 .. covered.len /\ DOMAIN rwal = 1 .. Len(rwal)
  BY <1>1, <1>2
<1>4. \A i \in 1 .. covered.len : i \in DOMAIN rwal
  BY <1>1, <1>3
<1>5. Elems(Covered) \subseteq Elems(rwal)
  BY <1>2, <1>3, <1>4 DEF Elems
<1>6. Covered # <<>> /\ rwal # <<>> /\ 1 \in DOMAIN Covered
  BY <1>1, <1>2, <1>3
<1>. QED  BY <1>1, <1>2, <1>3, <1>5, <1>6

LEMMA RlArchiveKeeps == ASSUME RlInv, RlArchive PROVE RlInv' /\ UnackedRetained
<1>. PICK C : C = Covered
  OBVIOUS
<1>0. UNCHANGED <<rwal, frames, held, answered, cons, rnext, burnt, links, flight>>
      /\ rfiles' = {f \in rfiles : f[1] # C[1]} \cup {C}
      /\ covered.pc = "archive" /\ covered' = [covered EXCEPT !.pc = "truncate"]
  BY DEF RlArchive
<1>1. C \in Seq(Nat) /\ C # <<>> /\ C[1] = rwal[1] /\ rwal # <<>>
      /\ Elems(C) \subseteq Elems(rwal) /\ 1 \in DOMAIN C
  BY <1>0, CoveredIs
<1>2. covered' \in [pc : {"idle", "archive", "truncate"}, len : Nat] /\ covered'.pc = "truncate"
      /\ covered'.len = covered.len
  BY <1>0 DEF RlInv, RlShape
<1>3. RlShape'
  BY <1>0, <1>1, <1>2 DEF RlInv, RlShape
<1>4. Covered' = C
  BY <1>0, <1>2 DEF Covered
<1>5. FlushInv'
  BY <1>0, <1>1, <1>2, <1>4 DEF RlInv, FlushInv
<1>6. OnDisk = Elems(rwal) \cup UNION {Elems(f) : f \in rfiles}
  BY DEF OnDisk, Elems
<1>7. OnDisk' = Elems(rwal) \cup UNION {Elems(f) : f \in rfiles'}
  BY <1>0 DEF OnDisk, Elems
<1>8. \A f \in rfiles : f[1] = C[1] => Elems(f) \subseteq Elems(rwal)
  <2>. SUFFICES ASSUME NEW f \in rfiles, f[1] = C[1] PROVE Elems(f) \subseteq Elems(rwal)
    OBVIOUS
  <2>1. 1 \in DOMAIN f /\ f[1] \in Nat
    BY DEF RlInv, RlShape
  <2>2. ~ (f[1] < rwal[1])
    BY <1>1, <2>1
  <2>. QED  BY <1>1, <2>1, <2>2 DEF RlInv, DiskInv
<1>9. OnDisk' = OnDisk
  BY <1>0, <1>1, <1>6, <1>7, <1>8
<1>10. DiskInv'
  <2>1. ASSUME NEW f \in rfiles', NEW g \in rfiles', f[1] < g[1], NEW i \in DOMAIN f
        PROVE  f[i] < g[1]
    <3>1. CASE f = C
      <4>0. rwal[1] \in Nat /\ g # C
        BY <2>1, <3>1, <1>1
      <4>1. g \in rfiles /\ 1 \in DOMAIN g /\ g[1] \in Nat /\ rwal[1] \in Nat
        BY <4>0, <1>0, FileIs
      <4>2. g[1] < rwal[1] \/ g[1] = rwal[1]
        BY <4>1, <1>1 DEF RlInv, DiskInv
      <4>. QED  BY <2>1, <3>1, <1>1, <4>1, <4>2
    <3>2. CASE f # C /\ g = C
      <4>1. f \in rfiles /\ f[1] # rwal[1]
        BY <3>2, <1>0, <1>1
      <4>. QED  BY <4>1, <3>2, <1>1 DEF RlInv, DiskInv
    <3>3. CASE f # C /\ g # C
      BY <2>1, <3>3, <1>0 DEF RlInv, DiskInv
    <3>. QED  BY <3>1, <3>2, <3>3
  <2>2. \A f \in rfiles' : \/ \A i \in DOMAIN f : f[i] < rwal'[1]
                           \/ f[1] = rwal'[1] /\ Elems(f) \subseteq Elems(rwal')
    <3>1. \A f \in rfiles' : f = C \/ f \in rfiles
      BY <1>0
    <3>2. ASSUME NEW f \in rfiles
          PROVE  \/ \A i \in DOMAIN f : f[i] < rwal[1]
                 \/ f[1] = rwal[1] /\ Elems(f) \subseteq Elems(rwal)
      BY <3>2, <1>1, OlderThanWal
    <3>. QED  BY <3>1, <3>2, <1>0, <1>1
  <2>. QED  BY <1>0, <1>9, <2>1, <2>2 DEF RlInv, DiskInv
<1>11. UnackedRetained
  BY <1>9 DEF UnackedRetained, Lost
<1>. QED  BY <1>0, <1>3, <1>5, <1>10, <1>11, HeldStays DEF RlInv

LEMMA Suffix ==
    ASSUME NEW w \in Seq(Nat), NEW n \in 0 .. Len(w), NEW t, t = SubSeq(w, n + 1, Len(w))
    PROVE  /\ t \in Seq(Nat) /\ DOMAIN t = 1 .. Len(w) - n
           /\ \A i \in 1 .. Len(w) - n : i + n \in DOMAIN w /\ t[i] = w[i + n]
<1>1. DOMAIN w = 1 .. Len(w) /\ Len(w) \in Nat
  OBVIOUS
<1>2. /\ t \in Seq(Nat) /\ DOMAIN t = 1 .. Len(w) - n
      /\ \A i \in 1 .. Len(w) - n : t[i] = w[i + n]
  BY <1>1
<1>3. \A i \in 1 .. Len(w) - n : i + n \in 1 .. Len(w)
  BY <1>1
<1>4. \A i \in 1 .. Len(w) - n : i + n \in DOMAIN w
  BY <1>1, <1>3
<1>. QED  BY <1>2, <1>4

LEMMA RlTruncateKeeps == ASSUME RlInv, RlTruncate PROVE RlInv' /\ UnackedRetained
<1>. PICK n : n = covered.len
  OBVIOUS
<1>0. UNCHANGED <<rfiles, frames, held, answered, cons, rnext, burnt, links, flight>>
      /\ rwal' = SubSeq(rwal, n + 1, Len(rwal)) /\ covered.pc = "truncate" /\ covered' = NoFlushRl
  BY DEF RlTruncate, WalAfter
<1>1. rwal \in Seq(Nat) /\ Len(rwal) \in Nat /\ DOMAIN rwal = 1 .. Len(rwal) /\ n \in 1 .. Len(rwal)
  BY <1>0 DEF RlInv, RlShape, FlushInv
<1>2. /\ rwal' \in Seq(Nat) /\ DOMAIN rwal' = 1 .. (Len(rwal) - n)
      /\ \A i \in 1 .. (Len(rwal) - n) : i + n \in DOMAIN rwal /\ rwal'[i] = rwal[i + n]
  <2>1. n \in 0 .. Len(rwal)
    BY <1>1
  <2>. QED  BY <1>0, <1>1, <2>1, Suffix
<1>3. RlShape' /\ FlushInv'
  BY <1>0, <1>2 DEF RlInv, RlShape, FlushInv, NoFlushRl
<1>4. \A i \in DOMAIN rwal : i <= n => \E f \in rfiles : rwal[i] \in Elems(f)
  <2>1. Covered \in rfiles /\ DOMAIN Covered = 1 .. n /\ \A i \in 1 .. n : Covered[i] = rwal[i]
    BY <1>0, CoveredIs DEF RlInv, FlushInv
  <2>2. \A i \in 1 .. n : rwal[i] \in Elems(Covered)
    BY <2>1 DEF Elems
  <2>. QED  BY <1>1, <2>1, <2>2
<1>5. OnDisk = Elems(rwal) \cup UNION {Elems(f) : f \in rfiles}
  BY DEF OnDisk, Elems
<1>6. OnDisk' = Elems(rwal') \cup UNION {Elems(f) : f \in rfiles}
  BY <1>0 DEF OnDisk, Elems
<1>7. Elems(rwal') \subseteq Elems(rwal)
  <2>1. \A i \in 1 .. (Len(rwal) - n) : i + n \in DOMAIN rwal
    BY <1>1
  <2>. QED  BY <1>2, <2>1 DEF Elems
<1>8. OnDisk \subseteq OnDisk'
  <2>1. ASSUME NEW i \in DOMAIN rwal, ~ (i <= n) PROVE rwal[i] \in Elems(rwal')
    <3>1. i - n \in 1 .. (Len(rwal) - n) /\ (i - n) + n = i
      BY <2>1, <1>1
    <3>2. i - n \in DOMAIN rwal' /\ rwal'[i - n] = rwal[i]
      BY <3>1, <1>2
    <3>. QED  BY <3>2 DEF Elems
  <2>2. \A i \in DOMAIN rwal : rwal[i] \in OnDisk'
    BY <2>1, <1>4, <1>6
  <2>. QED  BY <1>5, <1>6, <2>2 DEF Elems
<1>9. DiskInv'
  <2>1. OnDisk' \subseteq frames'
    BY <1>0, <1>5, <1>6, <1>7 DEF RlInv, DiskInv
  <2>2. \A i, j \in DOMAIN rwal' : i < j => rwal'[i] < rwal'[j]
    <3>1. \A i \in DOMAIN rwal' : i + n \in DOMAIN rwal /\ rwal'[i] = rwal[i + n] /\ i \in Int
      BY <1>1, <1>2
    <3>2. \A i, j \in DOMAIN rwal' : i < j => i + n < j + n
      BY <1>1, <1>2
    <3>. QED  BY <3>1, <3>2 DEF RlInv, DiskInv
  <2>3. ASSUME NEW f \in rfiles', rwal' # <<>>, NEW i \in DOMAIN f PROVE f[i] < rwal'[1]
    <3>1. 1 \in DOMAIN rwal' /\ rwal'[1] = rwal[1 + n] /\ 1 + n \in DOMAIN rwal
      BY <2>3, <1>1, <1>2
    <3>2. \A j \in 1 .. n : rwal[j] < rwal'[1]
      <4>1. \A j \in 1 .. n : j \in DOMAIN rwal /\ j < 1 + n
        BY <1>1
      <4>. QED  BY <3>1, <4>1 DEF RlInv, DiskInv
    <3>3. f \in rfiles /\ rwal # <<>> /\ 1 \in 1 .. n /\ 1 \in DOMAIN rwal
      BY <1>0, <1>1
    <3>6. f[i] \in Nat /\ rwal[1] \in Nat /\ rwal'[1] \in Nat
      <4>1. f[i] \in Nat
        BY <2>3, <3>3, FileIs
      <4>2. rwal[1] \in Nat
        BY <1>1, <3>3
      <4>3. rwal'[1] \in Nat
        BY <1>1, <3>1
      <4>. QED  BY <4>1, <4>2, <4>3
    <3>4. CASE f[1] = rwal[1]
      <4>1. f = Covered
        BY <1>0, <3>3, <3>4 DEF RlInv, FlushInv
      <4>2. i \in 1 .. n /\ f[i] = rwal[i]
        BY <4>1, <1>0, CoveredIs
      <4>. QED  BY <4>2, <3>2
    <3>5. CASE f[1] # rwal[1]
      <4>1. f[i] < rwal[1]
        BY <3>3, <3>5 DEF RlInv, DiskInv
      <4>. QED  BY <4>1, <3>2, <3>3, <3>6
    <3>. QED  BY <3>4, <3>5
  <2>. QED  BY <1>0, <2>1, <2>2, <2>3 DEF RlInv, DiskInv
<1>10. UnackedRetained
  BY <1>8 DEF UnackedRetained, Lost
<1>. QED  BY <1>0, <1>3, <1>9, <1>10, HeldStays DEF RlInv

LEMMA RlRestartKeeps == ASSUME RlInv, RlRestart PROVE RlInv' /\ UnackedRetained
<1>0. UNCHANGED <<rwal, rfiles, frames, held, answered, burnt>> /\ links' = links + 1
      /\ cons' = [c \in Consumers |-> RlIdle] /\ flight' = [c \in Consumers |-> <<>>]
      /\ covered' = NoFlushRl /\ rnext' = Top(frames) + 1
  BY DEF RlRestart
<1>1. Top(frames) \in Nat /\ \A s \in frames : s <= Top(frames)
  BY TopIs DEF RlInv, RlShape
<1>2. RlIdle \in LogReader /\ RlIdle.wal = <<>> /\ RlIdle.on = FALSE /\ Elems(<<>>) = {}
  BY DEF RlIdle, LogReader, Elems
<1>3. rnext' \in Nat /\ rnext' # 0 /\ \A s \in frames' : s < rnext'
  BY <1>0, <1>1 DEF RlInv, RlShape
<1>4. RlShape'
  BY <1>0, <1>2, <1>3 DEF RlInv, RlShape, NoFlushRl
<1>5. DiskInv' /\ FlushInv'
  BY <1>0 DEF RlInv, DiskInv, FlushInv, OnDisk, Elems, NoFlushRl
<1>6. UnackedRetained
  BY <1>0 DEF UnackedRetained, Lost, OnDisk
<1>. QED  BY <1>0, <1>4, <1>5, <1>6, HeldStays DEF RlInv

LEMMA SlowestIs ==
    ASSUME RlInv, Slowest > 0
    PROVE  Slowest \in Nat /\ (\E c \in On : Slowest = cons[c].hold) /\ \A c \in On : Slowest <= cons[c].hold
<1>. PICK low : low = Slowest
  OBVIOUS
<1>1. CASE On = {}
  BY <1>1 DEF Slowest
<1>2. CASE On # {}
  <2>1. \A c \in Consumers : cons[c].hold \in Nat
    BY DEF RlInv, RlShape, LogReader
  <2>2. Holds(On) \in SUBSET Nat /\ Holds(On) # {}
    BY <1>2, <2>1 DEF Holds, On
  <2>3. PICK m \in Holds(On) : \A h \in Holds(On) : ~ (h < m)
    BY <2>2, Least
  <2>4. \A h \in Holds(On) : m <= h
    BY <2>2, <2>3
  <2>5. low = CHOOSE x \in Holds(On) : \A h \in Holds(On) : x <= h
    BY <1>2 DEF Slowest
  <2>6. low \in Holds(On) /\ \A h \in Holds(On) : low <= h
    BY <2>4, <2>5
  <2>7. \A c \in Consumers : c \in On => cons[c].hold \in Holds(On)
    BY DEF Holds, On
  <2>8. \E c \in On : low = cons[c].hold
    BY <2>6 DEF Holds
  <2>. QED  BY <2>2, <2>6, <2>7, <2>8 DEF On
<1>. QED  BY <1>1, <1>2

LEMMA ReleaseKeeps ==
    ASSUME RlInv, ReleaseInv, NEW d \in Consumers, Release(d) PROVE RlInv' /\ UnackedRetained
<1>. PICK low : low = releasing[d].upto
  OBVIOUS
<1>0. UNCHANGED <<rwal, frames, held, answered, cons, rnext, burnt, links, flight, covered>>
      /\ rfiles' = {f \in rfiles : ~Releasable(f, low)}
  BY DEF Release
<1>1. low \in Nat
  BY DEF ReleaseInv
\* A released file has no frame above what everyone connected has acked.
<1>2. ASSUME NEW f \in rfiles, Releasable(f, low), NEW i \in DOMAIN f PROVE f[i] <= low
  <2>1. PICK g \in rfiles : f[1] < g[1] /\ g[1] <= low + 1
    BY <1>2 DEF Releasable
  <2>2. f[i] < g[1]
    BY <1>2, <2>1 DEF RlInv, DiskInv
  <2>3. f[i] \in Nat /\ g[1] \in Nat
    BY <1>2, FileIs
  <2>. QED  BY <1>1, <2>1, <2>2, <2>3
<1>3. UnackedRetained
  <2>. SUFFICES ASSUME NEW c \in Consumers, cons[c].on, NEW s \in Lost, s > cons[c].hold
                PROVE  Unseen(c, s)
    BY <1>0 DEF UnackedRetained
  <2>1. s \in OnDisk /\ s \notin OnDisk' /\ s \in frames /\ s \in Nat /\ cons[c].hold \in Nat
    BY DEF Lost, RlInv, DiskInv, RlShape, LogReader
  <2>2. ~ \E i \in DOMAIN rwal : s = rwal[i]
    BY <2>1, <1>0 DEF OnDisk
  <2>3. PICK f \in rfiles : \E i \in DOMAIN f : s = f[i]
    BY <2>1, <2>2 DEF OnDisk
  <2>4. PICK i \in DOMAIN f : s = f[i]
    BY <2>3
  <2>5. f \notin rfiles'
    BY <2>1, <2>4 DEF OnDisk
  <2>6. s <= low
    BY <1>0, <1>2, <2>4, <2>5
  <2>7. CASE c \in releasing[d].counted
    <3>1. s <= cons[c].hold
      BY <2>1, <2>6, <2>7 DEF ReleaseInv
    <3>. QED  BY <2>1, <3>1
  <2>8. CASE c \notin releasing[d].counted
    BY <2>6, <2>8 DEF Unseen
  <2>. QED  BY <2>7, <2>8
<1>4. RlShape'
  BY <1>0 DEF RlInv, RlShape
<1>5. rfiles' \subseteq rfiles /\ OnDisk' \subseteq OnDisk
  BY <1>0 DEF OnDisk
<1>6. DiskInv'
  BY <1>0, <1>5 DEF RlInv, DiskInv
<1>7. FlushInv'
  <2>1. ASSUME covered.pc = "truncate" PROVE Covered \in rfiles'
    <3>1. Covered \in rfiles /\ Covered[1] = rwal[1] /\ rwal # <<>>
      BY <2>1, CoveredIs DEF RlInv, FlushInv
    <3>2. ASSUME NEW g \in rfiles, Covered[1] < g[1] PROVE FALSE
      <4>1. g[1] \in Nat /\ 1 \in DOMAIN g /\ rwal[1] \in Nat
        BY <3>1, FileIs
      <4>2. g[1] < rwal[1] \/ g[1] = rwal[1]
        BY <4>1, <3>1, OlderThanWal
      <4>. QED  BY <3>1, <3>2, <4>1, <4>2
    <3>3. ~Releasable(Covered, low)
      BY <3>2 DEF Releasable
    <3>. QED  BY <1>0, <3>1, <3>3
  <2>2. Covered' = Covered
    BY <1>0 DEF Covered
  <2>. QED  BY <1>0, <1>5, <2>1, <2>2 DEF RlInv, FlushInv
<1>. QED  BY <1>0, <1>3, <1>4, <1>6, <1>7, HeldStays DEF RlInv

-----------------------------------------------------------------------------
(* The consumers' steps *)

\* A step of a consumer's reader.
LEMMA ReaderStep ==
    ASSUME RlInv, UNCHANGED <<rwal, rfiles, covered, frames, rnext, burnt, held, answered>>,
           cons' \in [Consumers -> LogReader], flight' \in [Consumers -> Seq(Nat)],
           \A c \in Consumers : Elems(cons'[c].wal) \subseteq frames /\ Elems(flight'[c]) \subseteq frames,
           links' \in Nat
    PROVE  RlInv' /\ UnackedRetained
<1>1. RlShape'
  BY DEF RlInv, RlShape
<1>. QED  BY <1>1, LogStays, HeldStays DEF RlInv

LEMMA IdleReader == RlIdle \in LogReader /\ RlIdle.wal = <<>> /\ Elems(<<>>) = {} /\ <<>> \in Seq(Nat)
BY DEF RlIdle, LogReader, Elems

LEMMA LinkedReader ==
    ASSUME NEW n \in Nat, NEW m \in Nat, NEW r, r = [RlIdle EXCEPT !.on = TRUE, !.sent = n, !.hold = m]
    PROVE  r \in LogReader /\ r.wal = <<>>
<1>1. PICK b : b = TRUE
  OBVIOUS
<1>2. r = [on |-> b, sent |-> n, hold |-> m, pc |-> "idle", wal |-> <<>>, next |-> 0, names |-> {}]
  BY <1>1 DEF RlIdle
<1>3. b \in BOOLEAN /\ <<>> \in Seq(Nat) /\ {} \in SUBSET Nat
  BY <1>1
<1>. QED  BY ONLY <1>2, <1>3, n \in Nat, m \in Nat DEF LogReader

LEMMA HeldTop ==
    ASSUME RlInv, NEW c \in Consumers
    PROVE  /\ Top(held[c]) \in Nat /\ \A s \in held[c] : s <= Top(held[c])
           /\ Top(held[c]) = 0 \/ Top(held[c]) \in held[c]
<1>1. held[c] \in SUBSET Nat /\ rnext \in Nat /\ \A s \in held[c] : s < rnext
  BY DEF RlInv, RlShape
<1>. QED  BY <1>1, TopIs

LEMMA ConnectKeeps ==
    ASSUME RlInv, NEW c \in Consumers, Connect(c) \/ Disconnect(c) PROVE RlInv' /\ UnackedRetained
<1>. PICK r : r = [RlIdle EXCEPT !.on = TRUE, !.sent = Top(held[c]), !.hold = Top(held[c])]
  OBVIOUS
<1>1. r \in LogReader /\ r.wal = <<>>
  BY HeldTop, LinkedReader
<1>2. PICK q \in {r, RlIdle} : cons' = [cons EXCEPT ![c] = q] /\ flight' = [flight EXCEPT ![c] = <<>>]
                              /\ links' \in Nat /\ UNCHANGED <<rwal, rfiles, covered, frames, rnext, burnt, held, answered>>
  BY DEF Connect, Disconnect, RlInv, RlShape
<1>3. q \in LogReader /\ q.wal = <<>>
  BY <1>1, IdleReader
<1>4. cons' \in [Consumers -> LogReader] /\ flight' \in [Consumers -> Seq(Nat)]
  BY <1>2, <1>3, IdleReader DEF RlInv, RlShape
<1>5. \A d \in Consumers : Elems(cons'[d].wal) \subseteq frames /\ Elems(flight'[d]) \subseteq frames
  BY <1>2, <1>3, IdleReader DEF RlInv, RlShape
<1>. QED  BY <1>2, <1>4, <1>5, ReaderStep

LEMMA LogReadKeeps ==
    ASSUME RlInv, NEW c \in Consumers, LogReadWal(c) \/ LogList(c) PROVE RlInv' /\ UnackedRetained
<1>0. UNCHANGED <<rwal, rfiles, rnext, covered, burnt, held, flight, answered, frames, links>>
  BY DEF LogReadWal, LogList
<1>1. cons \in [Consumers -> LogReader] /\ rwal \in Seq(Nat) /\ rnext \in Nat /\ Elems(rwal) \subseteq frames
      /\ {f[1] : f \in rfiles} \subseteq Nat
  <2>1. Elems(rwal) \subseteq frames
    BY DEF RlInv, DiskInv, OnDisk, Elems
  <2>2. {f[1] : f \in rfiles} \subseteq Nat
    BY FileIs
  <2>. QED  BY <2>1, <2>2 DEF RlInv, RlShape
<1>5. PICK r \in LogReader : cons' = [cons EXCEPT ![c] = r] /\ r.wal \in {cons[c].wal, rwal}
  <2>. PICK q \in LogReader : q = cons[c]
    BY <1>1
  <2>1. CASE LogReadWal(c)
    <3>1. [q EXCEPT !.pc = "list", !.wal = rwal] \in LogReader /\ [q EXCEPT !.pc = "list", !.wal = rwal].wal = rwal
      BY <1>1 DEF LogReader
    <3>2. cons' = [cons EXCEPT ![c] = [q EXCEPT !.pc = "list", !.wal = rwal]]
      BY <2>1, <1>1 DEF LogReadWal
    <3>. QED  BY <3>1, <3>2
  <2>2. CASE LogList(c)
    <3>. PICK N \in SUBSET Nat : N = {f[1] : f \in rfiles}
      BY <1>1
    <3>. PICK n \in Nat : n = rnext
      BY <1>1
    <3>1. [q EXCEPT !.pc = "read", !.next = n, !.names = N] \in LogReader
          /\ [q EXCEPT !.pc = "read", !.next = n, !.names = N].wal = q.wal
      BY DEF LogReader
    <3>2. cons' = [cons EXCEPT ![c] = [q EXCEPT !.pc = "read", !.next = n, !.names = N]]
      BY <2>2, <1>1 DEF LogList
    <3>. QED  BY <3>1, <3>2
  <2>. QED  BY <2>1, <2>2
<1>2. cons' \in [Consumers -> LogReader]
  BY <1>1, <1>5
<1>3. \A d \in Consumers : cons'[d].wal \in {cons[d].wal, rwal}
  BY <1>1, <1>5
<1>4. \A d \in Consumers : Elems(cons'[d].wal) \subseteq frames
  BY <1>1, <1>3 DEF RlInv, RlShape
<1>. QED  BY <1>0, <1>2, <1>4, ReaderStep DEF RlInv, RlShape

\* Without a gap the run is of the frames read.
LEMMA RunIs ==
    ASSUME NEW S \in SUBSET Nat, NEW a \in Nat, NEW n \in Nat, \A s \in S : s < n /\ s > a,
           \A s \in S : \A t \in a + 1 .. s : t \in S
    PROVE  Run(S, a) \in Seq(Nat) /\ Elems(Run(S, a)) \subseteq S /\ Len(Run(S, a)) \in Nat
<1>. DEFINE P(m) == (\A i \in 1 .. m : a + i \in S) /\ a + m + 1 \notin S
<1>1. \E m \in 0 .. Cardinality(S) : P(m)
  <2>1. CASE S = {}
    <3>1. Cardinality(S) = 0
      BY <2>1, FS_EmptySet
    <3>2. P(0)
      BY <2>1
    <3>. QED  BY <3>1, <3>2
  <2>2. CASE S # {}
    <3>1. PICK x : x = Top(S)
      OBVIOUS
    <3>2. x \in Nat /\ (\A s \in S : s <= x) /\ (x = 0 \/ x \in S)
      BY <3>1, TopIs
    <3>8. PICK y \in S : y > a /\ y <= x
      BY <2>2, <3>2
    <3>3. x \in S /\ x > a
      BY <3>2, <3>8
    <3>4. S = a + 1 .. x
      <4>1. S \subseteq a + 1 .. x
        BY <3>2
      <4>. QED  BY <4>1, <3>3
    <3>5. Cardinality(S) = x - a
      <4>1. a + 1 \in Int /\ x \in Int /\ ~ (a + 1 > x)
        BY <3>2, <3>3
      <4>2. Cardinality(a + 1 .. x) = x - (a + 1) + 1
        BY <4>1, FS_Interval
      <4>. QED  BY <3>2, <3>4, <4>2
    <3>6. x - a \in 0 .. Cardinality(S)
      BY <3>2, <3>3, <3>5
    <3>7. P(x - a)
      BY <3>2, <3>3, <3>4
    <3>. QED  BY <3>6, <3>7
  <2>. QED  BY <2>1, <2>2
<1>2. PICK m : m = CHOOSE i \in 0 .. Cardinality(S) : P(i)
  OBVIOUS
<1>3. m \in 0 .. Cardinality(S) /\ P(m)
  BY <1>1, <1>2
<1>4. m \in Nat
  BY <1>3
<1>5. Run(S, a) = [i \in 1 .. m |-> a + i]
  BY <1>2 DEF Run
<1>6. Run(S, a) \in Seq(Nat) /\ Len(Run(S, a)) = m /\ DOMAIN Run(S, a) = 1 .. m
  BY <1>4, <1>5
<1>7. Elems(Run(S, a)) \subseteq S
  BY <1>3, <1>5, <1>6 DEF Elems
<1>. QED  BY <1>4, <1>6, <1>7

LEMMA LogSendKeeps == ASSUME RlInv, NEW c \in Consumers, LogSend(c) PROVE RlInv' /\ UnackedRetained
<1>. PICK S : S = {s \in Frames(c) : s > cons[c].sent}
  OBVIOUS
<1>. PICK a, b : a = cons[c].sent /\ b = cons[c].hold
  OBVIOUS
<1>. PICK out : out = Run(S, a)
  OBVIOUS
<1>0. UNCHANGED <<rwal, rfiles, rnext, covered, burnt, held, answered, frames, links>>
      /\ flight' = [flight EXCEPT ![c] = @ \o out]
      /\ cons' = [cons EXCEPT ![c] = [RlIdle EXCEPT !.on = TRUE, !.sent = a + Len(out), !.hold = b]]
  <2>1. [RlIdle EXCEPT !.on = TRUE, !.sent = a + Len(out), !.hold = b]
        = [RlIdle EXCEPT !.on = TRUE, !.hold = b, !.sent = a + Len(out)]
    BY DEF RlIdle
  <2>. QED  BY <2>1 DEF LogSend
<1>1. a \in Nat /\ b \in Nat
  BY DEF RlInv, RlShape, LogReader
<1>2. Frames(c) \subseteq frames
  <2>2. Elems(cons[c].wal) \subseteq frames
    BY DEF RlInv, RlShape
  <2>3. Frames(c) \subseteq (UNION {{f[i] : i \in DOMAIN f} : f \in rfiles}) \cup Elems(cons[c].wal)
    <3>1. PICK R : R = {g \in rfiles : g[1] \in cons[c].names}
      OBVIOUS
    <3>2. R \subseteq rfiles
      BY <3>1
    <3>3. Frames(c) = (UNION {{f[i] : i \in DOMAIN f} : f \in R}) \cup {cons[c].wal[i] : i \in DOMAIN cons[c].wal}
      BY <3>1, Zenon DEF Frames
    <3>4. Elems(cons[c].wal) = {cons[c].wal[i] : i \in DOMAIN cons[c].wal}
      BY DEF Elems
    <3>5. (UNION {{f[i] : i \in DOMAIN f} : f \in R}) \subseteq UNION {{f[i] : i \in DOMAIN f} : f \in rfiles}
      BY <3>2
    <3>. QED  BY <3>3, <3>4, <3>5
  <2>4. (UNION {{f[i] : i \in DOMAIN f} : f \in rfiles}) \subseteq frames
    BY Zenon DEF RlInv, DiskInv, OnDisk
  <2>. QED  BY <2>2, <2>3, <2>4
<1>3. S \in SUBSET Nat /\ rnext \in Nat /\ \A s \in S : s < rnext /\ s > a
  BY <1>2 DEF RlInv, RlShape
<1>4. \A s \in S : \A t \in a + 1 .. s : t \in S
  <2>1. ~Gap(c)
    BY DEF LogSend
  <2>. QED  BY <2>1 DEF Gap
<1>5. out \in Seq(Nat) /\ Elems(out) \subseteq S /\ Len(out) \in Nat
  BY <1>1, <1>3, <1>4, RunIs
<1>6. cons' \in [Consumers -> LogReader] /\ cons'[c].wal = <<>>
  <2>1. PICK r : r = [RlIdle EXCEPT !.on = TRUE, !.sent = a + Len(out), !.hold = b]
    OBVIOUS
  <2>3. a + Len(out) \in Nat
    BY <1>1, <1>5
  <2>2. r \in LogReader /\ r.wal = <<>>
    BY <1>1, <2>1, <2>3, LinkedReader
  <2>. QED  BY <1>0, <2>1, <2>2 DEF RlInv, RlShape
<1>7. flight[c] \in Seq(Nat) /\ flight[c] \o out \in Seq(Nat)
  BY <1>5 DEF RlInv, RlShape
<1>8. Elems(flight[c] \o out) \subseteq Elems(flight[c]) \cup Elems(out)
  <2>1. PICK w : w = flight[c]
    OBVIOUS
  <2>5. PICK v : v = w \o out
    OBVIOUS
  <2>6. Elems(v) = {v[i] : i \in DOMAIN v}
    BY DEF Elems
  <2>8. Elems(flight[c] \o out) = Elems(v) /\ Elems(flight[c]) = Elems(w)
    BY <2>1, <2>5, Zenon
  <2>7. SUFFICES \A i \in DOMAIN v : v[i] \in Elems(w) \cup Elems(out)
    BY <2>6, <2>8
  <2>. SUFFICES ASSUME NEW i \in DOMAIN (w \o out) PROVE (w \o out)[i] \in Elems(w) \cup Elems(out)
    BY <2>5
  <2>2. w \in Seq(Nat) /\ out \in Seq(Nat)
    BY <1>5, <1>7, <2>1
  <2>3. CASE i \in DOMAIN w
    BY <2>2, <2>3 DEF Elems
  <2>4. CASE i \notin DOMAIN w
    <3>1. i - Len(w) \in DOMAIN out /\ (w \o out)[i] = out[i - Len(w)]
      BY <2>2, <2>4
    <3>. QED  BY <3>1 DEF Elems
  <2>. QED  BY <2>3, <2>4
<1>9. flight' \in [Consumers -> Seq(Nat)]
  BY <1>0, <1>7 DEF RlInv, RlShape
<1>10. \A d \in Consumers : Elems(flight'[d]) \subseteq frames
  BY <1>0, <1>2, <1>5, <1>8 DEF RlInv, RlShape
<1>11. \A d \in Consumers : Elems(cons'[d].wal) \subseteq frames
  BY <1>0, <1>6, IdleReader DEF RlInv, RlShape
<1>. QED  BY <1>0, <1>6, <1>9, <1>10, <1>11, ReaderStep DEF RlInv, RlShape

\* What a consumer holds grows to a larger prefix of the frames.
LEMMA HeldGrows ==
    ASSUME RlInv, NEW c \in Consumers, NEW H, held' = [held EXCEPT ![c] = H],
           held[c] \subseteq H, H \subseteq frames, H = {f \in frames : f <= Top(H)},
           UNCHANGED <<frames, answered>>
    PROVE  held' \in [Consumers -> SUBSET frames'] /\ HeldIsPrefix'
<1>1. held \in [Consumers -> SUBSET frames]
  BY DEF RlInv, RlShape
<1>2. \A d \in Consumers : held'[d] = IF d = c THEN H ELSE held[d]
  BY <1>1
<1>3. \A d \in Consumers : held[d] \subseteq held'[d]
  BY <1>2
<1>4. \A d \in Consumers : held'[d] = {f \in frames' : f <= Top(held'[d])}
  BY <1>2 DEF RlInv, HeldIsPrefix
<1>5. Standbys \subseteq Consumers
  BY DEF Consumers
<1>6. answered' > 0 => \E d \in Standbys : answered' \in held'[d]
  BY <1>3, <1>5 DEF RlInv, HeldIsPrefix
<1>. QED  BY <1>1, <1>4, <1>6 DEF HeldIsPrefix

LEMMA LogFailKeeps == ASSUME RlInv, NEW c \in Consumers, LogFail(c) PROVE RlInv' /\ UnackedRetained
<1>. PICK r : r = [RlIdle EXCEPT !.on = TRUE, !.sent = rnext - 1, !.hold = rnext - 1]
  OBVIOUS
<1>0. UNCHANGED <<rwal, rfiles, rnext, covered, burnt, answered, frames, links>>
      /\ held' = [held EXCEPT ![c] = frames] /\ flight' = [flight EXCEPT ![c] = <<>>]
  BY DEF LogFail
<1>1. rnext - 1 \in Nat
  BY DEF RlInv, RlShape
<1>2. PICK q \in {r, RlIdle} : cons' = [cons EXCEPT ![c] = q]
  BY DEF LogFail
<1>3. q \in LogReader /\ q.wal = <<>>
  BY <1>1, <1>2, IdleReader, LinkedReader
<1>4. cons' \in [Consumers -> LogReader] /\ flight' \in [Consumers -> Seq(Nat)]
  BY <1>0, <1>2, <1>3, IdleReader DEF RlInv, RlShape
<1>5. \A d \in Consumers : Elems(cons'[d].wal) \subseteq frames /\ Elems(flight'[d]) \subseteq frames
  BY <1>0, <1>2, <1>3, IdleReader DEF RlInv, RlShape
<1>6. frames = {f \in frames : f <= Top(frames)} /\ held[c] \subseteq frames
  BY TopIs DEF RlInv, RlShape
<1>7. held' \in [Consumers -> SUBSET frames'] /\ HeldIsPrefix'
  BY <1>0, <1>6, HeldGrows
<1>8. RlShape'
  BY <1>0, <1>4, <1>5, <1>7 DEF RlInv, RlShape
<1>. QED  BY <1>0, <1>7, <1>8, LogStays DEF RlInv

LEMMA DeliverKeeps == ASSUME RlInv, NEW c \in Consumers, Deliver(c) PROVE RlInv' /\ UnackedRetained
<1>. PICK f : f = Head(flight[c])
  OBVIOUS
<1>. PICK q : q = flight[c]
  OBVIOUS
<1>0. UNCHANGED <<rwal, rfiles, rnext, covered, burnt, answered, frames, links>> /\ q # <<>>
  BY DEF Deliver
<1>1. q \in Seq(Nat) /\ Elems(q) \subseteq frames
  BY DEF RlInv, RlShape
<1>2. f \in frames /\ f \in Nat
  <2>1. 1 \in DOMAIN q /\ f = q[1]
    BY <1>0, <1>1
  <2>. QED  BY <2>1, <1>1 DEF Elems
<1>3. Tail(q) \in Seq(Nat) /\ Elems(Tail(q)) \subseteq Elems(q)
  <2>1. Tail(q) \in Seq(Nat) /\ \A i \in DOMAIN Tail(q) : i + 1 \in DOMAIN q /\ Tail(q)[i] = q[i + 1]
    BY <1>0, <1>1
  <2>. QED  BY <2>1 DEF Elems
<1>4. CASE Applies(c, f) \/ f <= Top(held[c])
  <2>0. /\ held' = [held EXCEPT ![c] = IF Applies(c, f) THEN @ \cup {f} ELSE @]
        /\ flight' = [flight EXCEPT ![c] = Tail(@)] /\ cons' = cons
    BY <1>4 DEF Deliver
  <2>. PICK H : H = IF Applies(c, f) THEN held[c] \cup {f} ELSE held[c]
    OBVIOUS
  <2>1. held' = [held EXCEPT ![c] = H]
    BY <2>0
  <2>2. held[c] \subseteq frames /\ held[c] \subseteq H /\ H \subseteq frames
    BY <1>2 DEF RlInv, RlShape
  <2>3. held[c] = {g \in frames : g <= Top(held[c])}
    BY DEF RlInv, HeldIsPrefix
  <2>4. H = {g \in frames : g <= Top(H)}
    <3>1. CASE Applies(c, f)
      <4>1. f = Top(held[c]) + 1 /\ H = held[c] \cup {f}
        BY <3>1 DEF Applies
      <4>2. H \in SUBSET Nat /\ rnext \in Nat /\ \A s \in H : s < rnext
        BY <2>2 DEF RlInv, RlShape
      <4>3. Top(H) \in Nat /\ (\A s \in H : s <= Top(H)) /\ (Top(H) = 0 \/ Top(H) \in H)
        BY <4>2, TopIs
      <4>4. Top(held[c]) \in Nat /\ \A s \in held[c] : s <= Top(held[c])
        BY HeldTop
      <4>8. f \in H /\ \A s \in H : s <= f
        BY <1>2, <4>1, <4>2, <4>4
      <4>5. Top(H) = f
        BY <1>2, <4>1, <4>3, <4>4, <4>8
      <4>6. \A g \in frames : g \in Nat
        BY DEF RlInv, RlShape
      <4>7. \A g \in frames : g <= f <=> g <= Top(held[c]) \/ g = f
        BY <4>1, <4>4, <4>6
      <4>. QED  BY <1>2, <2>3, <4>1, <4>5, <4>7
    <3>2. CASE ~Applies(c, f)
      BY <2>3, <3>2
    <3>. QED  BY <3>1, <3>2
  <2>5. held' \in [Consumers -> SUBSET frames'] /\ HeldIsPrefix'
    BY <1>0, <2>1, <2>2, <2>4, HeldGrows
  <2>6. flight' \in [Consumers -> Seq(Nat)] /\ \A d \in Consumers : Elems(flight'[d]) \subseteq frames
    BY <2>0, <1>1, <1>3 DEF RlInv, RlShape
  <2>7. RlShape'
    BY <1>0, <2>0, <2>5, <2>6 DEF RlInv, RlShape
  <2>. QED  BY <1>0, <2>5, <2>7, LogStays DEF RlInv
<1>5. CASE ~ (Applies(c, f) \/ f <= Top(held[c]))
  <2>0. held' = held /\ flight' = [flight EXCEPT ![c] = <<>>] /\ cons' = [cons EXCEPT ![c] = RlIdle]
    BY <1>5 DEF Deliver
  <2>1. cons' \in [Consumers -> LogReader] /\ flight' \in [Consumers -> Seq(Nat)]
    BY <2>0, IdleReader DEF RlInv, RlShape
  <2>2. \A d \in Consumers : Elems(cons'[d].wal) \subseteq frames /\ Elems(flight'[d]) \subseteq frames
    BY <2>0, IdleReader DEF RlInv, RlShape
  <2>. QED  BY <1>0, <2>0, <2>1, <2>2, ReaderStep DEF RlInv, RlShape
<1>. QED  BY <1>4, <1>5

LEMMA AckKeeps == ASSUME RlInv, NEW c \in Consumers, Ack(c) PROVE RlInv' /\ UnackedRetained
<1>0. UNCHANGED <<rwal, rfiles, rnext, covered, burnt, held, flight, frames, links>>
      /\ cons' = [cons EXCEPT ![c].hold = Top(held[c])]
      /\ answered' = IF c \in Standbys /\ Top(held[c]) > answered THEN Top(held[c]) ELSE answered
  BY DEF Ack, AckOf
<1>1. Top(held[c]) \in Nat /\ (Top(held[c]) = 0 \/ Top(held[c]) \in held[c])
  BY HeldTop
<1>2. cons' \in [Consumers -> LogReader] /\ \A d \in Consumers : cons'[d].wal = cons[d].wal
  <2>1. cons \in [Consumers -> LogReader]
    BY DEF RlInv, RlShape
  <2>. PICK q : q = [cons[c] EXCEPT !.hold = Top(held[c])]
    OBVIOUS
  <2>2. q \in LogReader /\ q.wal = cons[c].wal
    BY <1>1, <2>1 DEF LogReader
  <2>3. cons' = [cons EXCEPT ![c] = q]
    BY <1>0
  <2>. QED  BY <2>1, <2>2, <2>3
<1>3. answered \in Nat /\ answered' \in Nat
  BY <1>0, <1>1 DEF RlInv, RlShape
<1>4. RlShape'
  BY <1>0, <1>2, <1>3 DEF RlInv, RlShape
<1>5. answered' > 0 => \E d \in Standbys : answered' \in held'[d]
  BY <1>0, <1>1, <1>3 DEF RlInv, HeldIsPrefix
<1>6. HeldIsPrefix'
  BY <1>0, <1>5 DEF RlInv, HeldIsPrefix
<1>. QED  BY <1>0, <1>4, <1>6, LogStays DEF RlInv

LEMMA ReadSlowestKeeps ==
    ASSUME RlInv, NEW c \in Consumers, ReadSlowest(c) PROVE RlInv' /\ UnackedRetained
BY ReaderStep DEF ReadSlowest, RlInv, RlShape

-----------------------------------------------------------------------------
(* Holds and releases *)

\* A consumer whose hold moves stands by exactly what it holds.
Settled(c) ==
    /\ cons'[c].pc # "idle" => cons'[c].on
    /\ \/ cons'[c].hold = cons[c].hold /\ cons'[c].on = cons[c].on
       \/ cons'[c].hold = 0 /\ ~cons'[c].on
       \/ cons'[c].hold < rnext' /\ \A s \in frames' : s <= cons'[c].hold <=> s \in held'[c]

LEMMA HoldsKept ==
    ASSUME RlInv, ReleaseInv, RlInv', releasing' = releasing,
           rnext' \in {rnext, rnext + 1}, frames' \in {frames, frames \cup {rnext}},
           \A c \in Consumers : held[c] \subseteq held'[c] /\ Settled(c)
    PROVE  ReleaseInv'
<1>0. rnext \in Nat /\ rnext' \in Nat /\ rnext # 0 /\ frames \subseteq Nat /\ frames' \subseteq Nat
      /\ rnext <= rnext'
  BY DEF RlInv, RlShape
<1>1. \A s \in frames' : s # 0 /\ (s \in frames \/ s = rnext)
  BY <1>0 DEF ReleaseInv
<1>2. \A c \in Consumers : cons[c].hold \in Nat /\ cons'[c].hold \in Nat
  BY DEF RlInv, RlShape, LogReader
<1>3. ASSUME NEW c \in Consumers
      PROVE  cons'[c].hold < rnext' /\ \A s \in frames' : s <= cons'[c].hold => s \in held'[c]
  <2>1. CASE cons'[c].hold = cons[c].hold
    BY <1>0, <1>1, <1>2, <2>1 DEF ReleaseInv
  <2>2. CASE cons'[c].hold = 0
    BY <1>0, <1>1, <2>2
  <2>3. CASE cons'[c].hold < rnext' /\ \A s \in frames' : s <= cons'[c].hold <=> s \in held'[c]
    BY <2>3
  <2>. QED  BY <2>1, <2>2, <2>3 DEF Settled
<1>4. \A d \in Consumers : releasing[d].upto \in Nat /\ releasing[d].upto < rnext
                           /\ releasing[d].counted \subseteq Consumers
  BY DEF ReleaseInv
<1>5. ASSUME NEW d \in Consumers, NEW c \in releasing[d].counted, NEW s \in frames', s <= releasing[d].upto
      PROVE  s \in held'[c] /\ (cons'[c].on => s <= cons'[c].hold)
  <2>1. c \in Consumers /\ s \in frames
    BY <1>0, <1>1, <1>4, <1>5
  <2>2. s \in held[c] /\ (cons[c].on => s <= cons[c].hold)
    BY <1>5, <2>1 DEF ReleaseInv
  <2>. QED  BY <2>1, <2>2 DEF Settled
<1>6. \A d \in Consumers : releasing'[d].upto < rnext'
  BY <1>0, <1>4
<1>7. \A c \in Consumers : cons'[c].pc # "idle" => cons'[c].on
  BY DEF Settled
<1>. QED  BY <1>1, <1>3, <1>5, <1>6, <1>7 DEF ReleaseInv

\* A consumer that stands by its newest frame.
LEMMA SettledAtTop ==
    ASSUME RlInv, NEW c \in Consumers, cons'[c].hold = Top(held[c]), cons'[c].on, UNCHANGED <<frames, held, rnext>>
    PROVE  Settled(c)
<1>1. Top(held[c]) \in Nat /\ (Top(held[c]) = 0 \/ Top(held[c]) \in held[c])
  BY HeldTop
<1>2. held[c] = {f \in frames : f <= Top(held[c])} /\ rnext \in Nat /\ rnext # 0
      /\ \A s \in held[c] : s < rnext
  BY DEF RlInv, RlShape, HeldIsPrefix
<1>3. Top(held[c]) < rnext
  BY <1>1, <1>2
<1>. QED  BY <1>2, <1>3 DEF Settled

LEMMA HoldsAlone ==
    ASSUME RlInv, ReleaseInv, RlInv',
           RlWrite \/ RlBurn \/ RlFlushBegin \/ RlArchive \/ RlTruncate
    PROVE  ReleaseInv'
<1>1. cons' = cons /\ held' = held /\ releasing' = releasing
      /\ rnext' \in {rnext, rnext + 1} /\ frames' \in {frames, frames \cup {rnext}}
  BY DEF RlWrite, RlBurn, RlFlushBegin, RlArchive, RlTruncate
<1>2. \A c \in Consumers : held[c] \subseteq held'[c] /\ Settled(c)
  BY <1>1 DEF Settled, ReleaseInv
<1>. QED  BY <1>1, <1>2, HoldsKept

LEMMA RestartHolds == ASSUME RlInv, ReleaseInv, RlInv', RlRestart PROVE ReleaseInv'
<1>1. cons' = [c \in Consumers |-> RlIdle] /\ releasing' = [c \in Consumers |-> NoRelease]
      /\ frames' = frames
  BY DEF RlRestart
<1>2. RlIdle.hold = 0 /\ RlIdle.pc = "idle" /\ NoRelease \in [upto : Nat, counted : SUBSET Consumers]
      /\ NoRelease.upto = 0 /\ NoRelease.counted = {}
  BY DEF RlIdle, NoRelease
<1>3. rnext' \in Nat /\ rnext' # 0 /\ (\A s \in frames' : s # 0 /\ s \in Nat)
  BY <1>1 DEF RlInv, RlShape, ReleaseInv
<1>4. 0 < rnext'
  BY <1>3
<1>5. releasing' \in [Consumers -> [upto : Nat, counted : SUBSET Consumers]]
  BY <1>1, <1>2
<1>. QED  BY <1>1, <1>2, <1>3, <1>4, <1>5 DEF ReleaseInv

LEMMA ReadSlowestHolds ==
    ASSUME RlInv, ReleaseInv, RlInv', NEW d \in Consumers, ReadSlowest(d) PROVE ReleaseInv'
<1>1. UNCHANGED <<cons, held, frames, rnext>> /\ Slowest > 0
      /\ releasing' = [releasing EXCEPT ![d] = [upto |-> Slowest, counted |-> On]]
  BY DEF ReadSlowest
<1>2. Slowest \in Nat /\ (\E c \in On : Slowest = cons[c].hold) /\ \A c \in On : Slowest <= cons[c].hold
  BY <1>1, SlowestIs
<1>3. On \subseteq Consumers /\ Slowest < rnext
  BY <1>2 DEF On, ReleaseInv
<1>. PICK n \in Nat : n = Slowest
  BY <1>2
<1>. PICK S \in SUBSET Consumers : S = On
  BY <1>3
<1>. PICK r : r = [upto |-> n, counted |-> S]
  OBVIOUS
<1>9. r \in [upto : Nat, counted : SUBSET Consumers] /\ r.upto = n /\ r.counted = S
  OBVIOUS
<1>4. releasing' = [releasing EXCEPT ![d] = r]
      /\ releasing \in [Consumers -> [upto : Nat, counted : SUBSET Consumers]]
  BY <1>1 DEF ReleaseInv
<1>5. releasing' \in [Consumers -> [upto : Nat, counted : SUBSET Consumers]]
      /\ \A e \in Consumers : releasing'[e] = IF e = d THEN r ELSE releasing[e]
  BY <1>4, <1>9
<1>6. ASSUME NEW c \in S, NEW s \in frames, s <= n PROVE s \in held[c] /\ s <= cons[c].hold
  <2>1. c \in Consumers /\ s \in Nat /\ cons[c].hold \in Nat /\ n <= cons[c].hold
    BY <1>2, <1>3 DEF RlInv, RlShape, LogReader
  <2>2. s <= cons[c].hold
    BY <1>6, <2>1
  <2>. QED  BY <2>1, <2>2 DEF ReleaseInv
<1>7. ASSUME NEW e \in Consumers, NEW c \in releasing'[e].counted, NEW s \in frames, s <= releasing'[e].upto
      PROVE  s \in held[c] /\ (cons[c].on => s <= cons[c].hold)
  <2>1. CASE e = d
    BY <1>5, <1>6, <1>7, <1>9, <2>1
  <2>2. CASE e # d
    BY <1>5, <1>7, <2>2 DEF ReleaseInv
  <2>. QED  BY <2>1, <2>2
<1>8. \A e \in Consumers : releasing'[e].upto < rnext
  BY <1>3, <1>5, <1>9 DEF ReleaseInv
<1>. QED  BY <1>1, <1>5, <1>7, <1>8 DEF ReleaseInv

LEMMA ReleaseHolds ==
    ASSUME RlInv, ReleaseInv, RlInv', NEW d \in Consumers, Release(d) PROVE ReleaseInv'
<1>1. UNCHANGED <<cons, held, frames, rnext>> /\ releasing' = [releasing EXCEPT ![d] = NoRelease]
  BY DEF Release
<1>2. NoRelease \in [upto : Nat, counted : SUBSET Consumers] /\ NoRelease.upto = 0 /\ NoRelease.counted = {}
  BY DEF NoRelease
<1>3. releasing' \in [Consumers -> [upto : Nat, counted : SUBSET Consumers]]
      /\ \A e \in Consumers : releasing'[e] = IF e = d THEN NoRelease ELSE releasing[e]
  BY <1>1, <1>2 DEF ReleaseInv
<1>4. rnext \in Nat /\ 0 < rnext
  BY DEF RlInv, RlShape
<1>5. \A e \in Consumers : releasing'[e].upto < rnext
  BY <1>2, <1>3, <1>4 DEF ReleaseInv
<1>6. \A e \in Consumers : releasing'[e].counted = {} \/ releasing'[e] = releasing[e]
  BY <1>2, <1>3
<1>. QED  BY <1>1, <1>3, <1>5, <1>6 DEF ReleaseInv

\* The reader of a consumer that stays connected keeps its hold.
LEMMA ReaderHolds ==
    ASSUME RlInv, ReleaseInv, RlInv', NEW c \in Consumers,
           Connect(c) \/ Disconnect(c) \/ LogReadWal(c) \/ LogList(c) \/ LogSend(c) \/ Ack(c)
    PROVE  ReleaseInv'
<1>1. UNCHANGED <<held, frames, rnext, releasing>>
  BY DEF Connect, Disconnect, LogReadWal, LogList, LogSend, Ack
<1>2. cons \in [Consumers -> LogReader]
  BY DEF RlInv, RlShape
<1>3. \A d \in Consumers \ {c} : cons'[d] = cons[d]
  BY <1>2 DEF Connect, Disconnect, LogReadWal, LogList, LogSend, Ack
<1>4. Settled(c)
  <2>1. CASE Connect(c)
    <3>1. cons'[c] = [RlIdle EXCEPT !.on = TRUE, !.sent = Top(held[c]), !.hold = Top(held[c])]
      BY <1>2, <2>1 DEF Connect
    <3>2. cons'[c].hold = Top(held[c]) /\ cons'[c].on
      BY <3>1 DEF RlIdle
    <3>. QED  BY <1>1, <3>2, SettledAtTop
  <2>2. CASE Disconnect(c)
    BY <1>2, <2>2 DEF Disconnect, Settled, RlIdle
  <2>3. CASE LogReadWal(c) \/ LogList(c)
    <3>1. cons'[c].hold = cons[c].hold /\ cons'[c].on = cons[c].on /\ cons[c].on
      BY <1>2, <2>3 DEF LogReadWal, LogList, LogReader, ReleaseInv
    <3>. QED  BY <3>1 DEF Settled
  <2>4. CASE LogSend(c)
    <3>1. cons[c].on \in BOOLEAN /\ cons[c].on
      BY <1>2, <2>4 DEF LogSend, ReleaseInv, LogReader
    <3>2. cons'[c].hold = cons[c].hold /\ cons'[c].on = TRUE
      BY <1>2, <2>4 DEF LogSend, RlIdle
    <3>. QED  BY <3>1, <3>2 DEF Settled
  <2>5. CASE Ack(c)
    <3>1. cons'[c].hold = Top(held[c]) /\ cons'[c].on
      BY <1>2, <2>5 DEF Ack, AckOf, LogReader
    <3>. QED  BY <1>1, <3>1, SettledAtTop
  <2>. QED  BY <2>1, <2>2, <2>3, <2>4, <2>5
<1>5. \A d \in Consumers : held[d] \subseteq held'[d] /\ Settled(d)
  BY <1>1, <1>3, <1>4 DEF Settled, ReleaseInv
<1>. QED  BY <1>1, <1>5, HoldsKept

LEMMA LogFailHolds ==
    ASSUME RlInv, ReleaseInv, RlInv', NEW c \in Consumers, LogFail(c) PROVE ReleaseInv'
<1>1. UNCHANGED <<frames, rnext, releasing>> /\ held' = [held EXCEPT ![c] = frames]
  BY DEF LogFail
<1>2. cons \in [Consumers -> LogReader] /\ held \in [Consumers -> SUBSET frames]
      /\ rnext \in Nat /\ rnext # 0 /\ (\A s \in frames : s \in Nat /\ s < rnext)
  BY DEF RlInv, RlShape
<1>3. (\A d \in Consumers \ {c} : cons'[d] = cons[d]) /\ \A d \in Consumers : held[d] \subseteq held'[d]
  BY <1>1, <1>2 DEF LogFail
<1>4. Settled(c)
  <2>1. CASE c \in Standbys
    BY <1>2, <2>1 DEF LogFail, Settled, RlIdle
  <2>2. CASE c \notin Standbys
    <3>1. cons'[c].hold = rnext - 1 /\ cons'[c].on /\ held'[c] = frames
      BY <1>1, <1>2, <2>2 DEF LogFail, RlIdle
    <3>2. rnext - 1 < rnext /\ \A s \in frames : s <= rnext - 1
      BY <1>2
    <3>3. cons'[c].hold < rnext' /\ \A s \in frames' : s <= cons'[c].hold <=> s \in held'[c]
      BY <1>1, <3>1, <3>2
    <3>. QED  BY <3>1, <3>3 DEF Settled
  <2>. QED  BY <2>1, <2>2
<1>5. \A d \in Consumers : Settled(d)
  BY <1>3, <1>4 DEF Settled, ReleaseInv
<1>. QED  BY <1>1, <1>3, <1>5, HoldsKept

LEMMA DeliverHolds ==
    ASSUME RlInv, ReleaseInv, RlInv', NEW c \in Consumers, Deliver(c) PROVE ReleaseInv'
<1>1. UNCHANGED <<frames, rnext, releasing>>
  BY DEF Deliver
<1>2. cons \in [Consumers -> LogReader] /\ held \in [Consumers -> SUBSET frames]
  BY DEF RlInv, RlShape
<1>3. \A d \in Consumers : held[d] \subseteq held'[d]
  BY <1>2 DEF Deliver
<1>4. cons' \in {cons, [cons EXCEPT ![c] = RlIdle]}
  BY DEF Deliver
<1>5. \A d \in Consumers : cons'[d] = cons[d] \/ cons'[d] = RlIdle
  BY <1>2, <1>4
<1>6. RlIdle.hold = 0 /\ RlIdle.on = FALSE /\ RlIdle.pc = "idle"
  BY DEF RlIdle
<1>7. \A d \in Consumers : Settled(d)
  BY <1>5, <1>6 DEF Settled, ReleaseInv
<1>. QED  BY <1>1, <1>3, <1>7, HoldsKept

LEMMA ReleaseSteps == ASSUME RlInv, ReleaseInv, [RlNext]_rlVars, RlInv' PROVE ReleaseInv'
<1>1. CASE UNCHANGED rlVars
  BY <1>1 DEF rlVars, ReleaseInv
<1>2. CASE RlNext
  BY <1>2, HoldsAlone, RestartHolds, ReadSlowestHolds, ReleaseHolds, ReaderHolds, LogFailHolds,
     DeliverHolds DEF RlNext
<1>. QED  BY <1>1, <1>2

LEMMA ReleaseInitial == RlInit => ReleaseInv
<1>1. RlIdle.hold = 0 /\ RlIdle.pc = "idle" /\ NoRelease \in [upto : Nat, counted : SUBSET Consumers]
      /\ NoRelease.upto = 0 /\ NoRelease.counted = {}
  BY DEF RlIdle, NoRelease
<1>. QED  BY <1>1 DEF RlInit, ReleaseInv

LEMMA RlSteps ==
    ASSUME RlInv, ReleaseInv, [RlNext]_rlVars PROVE RlInv' /\ (UnackedRetained \/ UNCHANGED rlVars)
<1>1. CASE UNCHANGED rlVars
  <2>2. RlShape'
    BY <1>1 DEF rlVars, RlInv, RlShape
  <2>3. DiskInv' /\ FlushInv' /\ HeldIsPrefix'
    BY <1>1, LogStays, HeldStays DEF rlVars
  <2>1. RlInv'
    BY <2>2, <2>3 DEF RlInv
  <2>. QED  BY <1>1, <2>1
<1>2. CASE RlNext
  BY <1>2, RlWriteKeeps, RlBurnKeeps, RlFlushBeginKeeps, RlArchiveKeeps, RlTruncateKeeps,
     RlRestartKeeps, ReadSlowestKeeps, ReleaseKeeps, ConnectKeeps, LogReadKeeps, LogSendKeeps, LogFailKeeps,
     DeliverKeeps, AckKeeps DEF RlNext
<1>. QED  BY <1>1, <1>2

\* A frame that a connected consumer has not acked stays on the leader's disk, every
\* consumer holds all the leader's frames up to its newest, and what the gate answered is on a
\* standby (db.rs: log_since, release_log, flush_phase_c; replication.rs: serve_standby, the gate).
THEOREM LogRetained == RlSpec => RetainedLogPromise
<1>. DEFINE Inv == RlInv /\ ReleaseInv
<1>1. Inv /\ [RlNext]_rlVars => Inv' /\ [(RlTypeOK /\ HeldIsPrefix)' /\ UnackedRetained]_rlVars
  <2>1. RlInv' => (RlTypeOK /\ HeldIsPrefix)'
    BY DEF RlInv, RlShape, RlTypeOK
  <2>. QED  BY <2>1, RlSteps, ReleaseSteps
<1>2. RlInit => Inv
  BY RlInitial, ReleaseInitial
<1>. QED  BY <1>1, <1>2, PTL DEF RlSpec, RetainedLogPromise

-----------------------------------------------------------------------------
(* Archive *)

SnapObject == [k : {"snap"}, term : ArcTerms, seq : Nat, ms : Nat, part : {"file", "COMPLETE"}]
LogObject == [k : {"log"}, term : ArcTerms, first : Nat \ {0}, last : Nat, ms : Nat]
ArcRecord == [pc : {"off", "idle", "file", "complete", "list", "doom", "delete"},
              why : {"start", "gap", "periodic"}, archived : Nat, seq : Nat, ms : Nat,
              snapped : Nat \cup {-1}, kept : SUBSET SnapObject,
              doomed : SUBSET (SnapObject \cup LogObject)]

ArcShape ==
    /\ aterm \in ArcTerms /\ ams \in Nat /\ arcFaults \in Nat
    /\ alog \in [ArcTerms -> Seq(ArcTerms)]
    /\ arc \in [ArcTerms -> ArcRecord]
    /\ objects \subseteq SnapObject \cup LogObject

\* An archiver that is uploading a snapshot, and one that has its timeline begun.
Uploads(t) == arc[t].pc \in {"file", "complete"}
Running(t) == arc[t].pc # "off" /\ (Uploads(t) => arc[t].why # "start")

\* A snapshot and a log object that can have been made by now.
Taken(s) == s.ms < ams /\ s.term <= aterm /\ s.seq <= Len(alog[s.term])
Written(l) == l.ms < ams /\ l.term <= aterm /\ l.first <= l.last /\ l.last <= Len(alog[l.term])

\* What the objects, and what archivers remember of them, are bounded by.
ArcBounds ==
    /\ \A o \in objects : IF o.k = "snap" THEN Taken(o) ELSE Written(o)
    /\ \A r \in ArcTerms : \A k \in arc[r].kept : Taken(k) /\ k.part = "COMPLETE"
    /\ \A t \in ArcTerms : /\ aterm < t => arc[t].pc = "off"
                           /\ arc[t].archived <= Len(alog[t])
                           /\ ~Running(t) => arc[t].archived = 0
                           /\ Uploads(t) => arc[t].seq <= Len(alog[t]) /\ arc[t].ms < ams

\* A snapshot at least as new as one that a prune keeps is complete.
KeptInv ==
    /\ \A r \in ArcTerms : \A k \in arc[r].kept : \E c \in Complete : c = k \/ Newer(c, k)
    /\ \A r \in ArcTerms : arc[r].pc \in {"doom", "delete"} => arc[r].kept # {}

\* A later term has a complete snapshot.
Later(t) == \E c \in Complete : c.term > t

\* Doomed's condition.
DoomedBy(o, kept) ==
    \/ o.term < OldestTerm(kept)
    \/ /\ \E s \in kept : s.term = o.term
       /\ \/ o.k = "log" /\ LogDoomed(o, Floor(kept, o.term))
          \/ /\ o.k = "snap" /\ Newer(Floor(kept, o.term), o)
             /\ \A s \in kept : ~(s.term = o.term /\ s.seq = o.seq /\ s.ms = o.ms)

MarkOf(o) == SnapKey(o.term, o.seq, o.ms, "COMPLETE")
FileOf(o) == SnapKey(o.term, o.seq, o.ms, "file")

\* What a prune deletes: a snapshot's marker goes before its file, where it matters.
DoomInv ==
    \A r \in ArcTerms : arc[r].pc = "delete" =>
        \A o \in arc[r].doomed :
            /\ DoomedBy(o, arc[r].kept)
            /\ o.k = "snap" /\ o.part = "file" /\ MarkOf(o) \in objects =>
                  MarkOf(o) \in arc[r].doomed \/ o.term < OldestTerm(arc[r].kept)

\* An upload is newer than what its term has and than what a prune keeps of its term.
UploadInv ==
    \A t \in ArcTerms : Uploads(t) =>
        /\ \A c \in Complete : c.term = t => c.seq <= arc[t].seq /\ c.ms < arc[t].ms
        /\ \A r \in ArcTerms : \A k \in arc[r].kept :
              k.term = t => k.seq <= arc[t].seq /\ k.ms < arc[t].ms
        /\ arc[t].pc = "complete" => SnapKey(t, arc[t].seq, arc[t].ms, "file") \in objects \/ Later(t)
        /\ arc[t].why = "start" => Logs(t) = {}
        /\ arc[t].archived <= arc[t].seq /\ \A l \in Logs(t) : l.last <= arc[t].seq

\* A complete snapshot of the newest timeline has its file.
FileInv == \A c \in Complete : FileOf(c) \in objects \/ Later(c.term)

\* Log objects follow one another; one that was put and not counted is put again.
BatchInv ==
    \A t \in ArcTerms :
        /\ \A l, m \in Logs(t) : l.first < m.first => l.last < m.first
        /\ Running(t) => \A l \in Logs(t) :
              \/ l.last <= arc[t].archived
              \/ l.first = arc[t].archived + 1 /\ l.last <= arc[t].archived + LogBatch

\* A log object holds n; n is in the log, or counted as archived.
InLog(t, n) == \E l \in Logs(t) : l.first <= n /\ n <= l.last
Reached(t, n) == (\E l \in Logs(t) : n <= l.last) \/ (Running(t) /\ n <= arc[t].archived)

\* From the snapshot c on there is no hole.
Chained(t, c) == \A n \in Nat : n > c.seq /\ Reached(t, n) => InLog(t, n)

\* A timeline with anything to replay is replayed from a complete snapshot without a
\* hole, or is not the newest.
ChainInv ==
    \A t \in ArcTerms : Logs(t) # {} \/ Running(t) =>
        \E c \in Complete : c.term > t \/ (c.term = t /\ Chained(t, c))

ArcInv == /\ ArcShape /\ ArcBounds /\ KeptInv /\ DoomInv /\ UploadInv /\ FileInv /\ BatchInv
          /\ ChainInv

\* What the store holds, as a function of its keys.
Marked(O) == {o \in O : o.k = "snap" /\ o.part = "COMPLETE"}
LogsIn(O, t) == {o \in O : o.k = "log" /\ o.term = t}

LEMMA MarkedIs ==
    ASSUME NEW O \in SUBSET (SnapObject \cup LogObject)
    PROVE  UNION {{o \in O : o.k = "snap" /\ o.part = "COMPLETE" /\ o.term = t} : t \in ArcTerms} = Marked(O)
<1>1. \A o \in O : o.k = "snap" => o \in SnapObject /\ o.term \in ArcTerms
  BY DEF SnapObject, LogObject
<1>. QED  BY <1>1 DEF Marked

LEMMA CompleteIs ==
    /\ objects \subseteq SnapObject \cup LogObject =>
          /\ Complete = Marked(objects)
          /\ \A t \in ArcTerms : Snaps(t) = {c \in Complete : c.term = t}
    /\ \A t \in ArcTerms : Logs(t) = LogsIn(objects, t)
<1>1. objects \subseteq SnapObject \cup LogObject => Complete = Marked(objects)
  BY MarkedIs DEF Complete, Snaps
<1>. QED  BY <1>1 DEF Snaps, Logs, LogsIn, Marked

LEMMA CompleteIsNext ==
    /\ objects' \subseteq SnapObject \cup LogObject => Complete' = Marked(objects')
    /\ \A t \in ArcTerms : Logs(t)' = LogsIn(objects', t)
<1>1. objects' \subseteq SnapObject \cup LogObject => Complete' = Marked(objects')
  BY MarkedIs DEF Complete, Snaps
<1>. QED  BY <1>1 DEF Snaps, Logs, LogsIn, Marked

LEMMA ObjectsKept ==
    ASSUME objects' = objects
    PROVE  /\ Complete' = Complete
           /\ \A t \in ArcTerms : Logs(t)' = Logs(t) /\ Snaps(t)' = Snaps(t)
<1>. QED  BY DEF Complete, Snaps, Logs

LEMMA ArcInitial == ArcInit => ArcInv
<1>. SUFFICES ASSUME ArcInit PROVE ArcInv
  OBVIOUS
<1>. USE ArcAssumption DEF ArcInit
<1>1. ArcShape
  BY DEF ArcShape, ArcRecord, ArcOff, ArcTerms
<1>2. Complete = {} /\ \A t \in ArcTerms : Logs(t) = {} /\ ~Uploads(t) /\ ~Running(t)
  BY DEF Complete, Snaps, Logs, Uploads, Running, ArcOff
<1>3. \A t \in ArcTerms : arc[t].kept = {} /\ arc[t].pc = "off" /\ arc[t].archived = 0
  BY DEF ArcOff
<1>4. ArcBounds
  BY <1>2, <1>3 DEF ArcBounds
<1>. QED
  BY <1>1, <1>2, <1>3, <1>4 DEF ArcInv, KeptInv, DoomInv, UploadInv, FileInv, BatchInv, ChainInv

LEMMA MostOf ==
    ASSUME NEW S \in SUBSET Nat, NEW b \in Nat, S # {}, \A x \in S : x <= b
    PROVE  \E m \in S : \A x \in S : x <= m
<1>. DEFINE T == {b - x : x \in S}
<1>0. \A x \in S : b - x \in Nat
  OBVIOUS
<1>1. T \in SUBSET Nat /\ T # {}
  BY <1>0
<1>2. PICK d \in T : \A y \in T : ~(y < d)
  BY <1>1, Least
<1>3. PICK m \in S : d = b - m
  OBVIOUS
<1>4. \A x \in S : ~(b - x < b - m)
  BY <1>2, <1>3
<1>5. \A x \in S : x <= m
  BY <1>4
<1>. QED  BY <1>5

\* The oldest term of what a prune keeps, and a term's oldest kept snapshot.
LEMMA OldestIs ==
    ASSUME NEW kept \in SUBSET SnapObject, kept # {}
    PROVE  /\ \E s \in kept : s.term = OldestTerm(kept)
           /\ \A s \in kept : OldestTerm(kept) <= s.term
           /\ OldestTerm(kept) \in ArcTerms
<1>. DEFINE T == {s.term : s \in kept}
<1>1. T \in SUBSET ArcTerms /\ T \in SUBSET Nat /\ T # {}
  BY DEF SnapObject, ArcTerms
<1>2. PICK m \in T : \A y \in T : ~(y < m)
  BY <1>1, Least
<1>3. \A s \in kept : m <= s.term
  BY <1>1, <1>2
<1>4. OldestTerm(kept) \in T /\ \A s \in kept : OldestTerm(kept) <= s.term
  BY <1>3 DEF OldestTerm
<1>. QED  BY <1>1, <1>4

LEMMA FloorIs ==
    ASSUME NEW kept \in SUBSET SnapObject, NEW t \in ArcTerms, \E s \in kept : s.term = t
    PROVE  /\ Floor(kept, t) \in kept /\ Floor(kept, t).term = t
           /\ \A r \in kept : r.term = t => ~Newer(Floor(kept, t), r)
<1>. DEFINE T == {s.seq : s \in {r \in kept : r.term = t}}
<1>1. T \in SUBSET Nat /\ T # {}
  BY DEF SnapObject
<1>2. PICK a \in T : \A y \in T : ~(y < a)
  BY <1>1, Least
<1>. DEFINE U == {s.ms : s \in {r \in kept : r.term = t /\ r.seq = a}}
<1>3. U \in SUBSET Nat /\ U # {}
  BY DEF SnapObject
<1>4. PICK b \in U : \A y \in U : ~(y < b)
  BY <1>3, Least
<1>5. PICK s \in kept : s.term = t /\ s.seq = a /\ s.ms = b
  OBVIOUS
<1>6. \A r \in kept : r.term = t => ~(r.seq < a) /\ (r.seq = a => ~(r.ms < b))
  BY <1>2, <1>4
<1>7. \A r \in kept : r.seq \in Nat /\ r.ms \in Nat /\ r.term \in Nat
  BY DEF SnapObject, ArcTerms
<1>8. \A r \in kept : r.term = t => ~Newer(s, r)
  BY <1>5, <1>6, <1>7 DEF Newer
<1>. QED  BY <1>5, <1>8 DEF Floor

\* Of snapshots of a term that were taken by now, one is the newest.
LEMMA NewestIs ==
    ASSUME NEW S \in SUBSET SnapObject, NEW t \in ArcTerms, NEW b \in Nat, NEW d \in Nat, S # {},
           \A s \in S : s.term = t /\ s.seq <= b /\ s.ms <= d
    PROVE  \E s \in S : \A r \in S : ~Newer(r, s)
<1>. DEFINE T == {s.seq : s \in S}
<1>1. T \in SUBSET Nat /\ T # {} /\ \A x \in T : x <= b
  BY DEF SnapObject
<1>2. PICK m \in T : \A y \in T : y <= m
  BY <1>1, MostOf
<1>. DEFINE U == {s.ms : s \in {r \in S : r.seq = m}}
<1>3. U \in SUBSET Nat /\ U # {} /\ \A x \in U : x <= d
  BY DEF SnapObject
<1>4. PICK e \in U : \A y \in U : y <= e
  BY <1>3, MostOf
<1>5. PICK s \in S : s.seq = m /\ s.ms = e
  OBVIOUS
<1>6. \A r \in S : r.seq <= m /\ (r.seq = m => r.ms <= e)
  BY <1>2, <1>4
<1>7. \A r \in S : r.seq \in Nat /\ r.ms \in Nat /\ r.term = t
  BY DEF SnapObject
<1>. QED  BY <1>5, <1>6, <1>7 DEF Newer, ArcTerms

\* Of log objects of a term, one is listed last.
LEMMA LastListed ==
    ASSUME NEW L \in SUBSET LogObject, NEW t \in ArcTerms, NEW b \in Nat, NEW d \in Nat, L # {},
           \A l \in L : l.term = t /\ l.first <= b /\ l.last <= b /\ l.ms <= d
    PROVE  \E l \in L : \A m \in L \ {l} : LexLess(KeyRank(m), KeyRank(l))
<1>. DEFINE T == {l.first : l \in L}
<1>1. T \in SUBSET Nat /\ T # {} /\ \A x \in T : x <= b
  BY DEF LogObject
<1>2. PICK f \in T : \A y \in T : y <= f
  BY <1>1, MostOf
<1>. DEFINE U == {l.last : l \in {m \in L : m.first = f}}
<1>3. U \in SUBSET Nat /\ U # {} /\ \A x \in U : x <= b
  BY DEF LogObject
<1>4. PICK e \in U : \A y \in U : y <= e
  BY <1>3, MostOf
<1>. DEFINE V == {l.ms : l \in {m \in L : m.first = f /\ m.last = e}}
<1>5. V \in SUBSET Nat /\ V # {} /\ \A x \in V : x <= d
  BY DEF LogObject
<1>6. PICK g \in V : \A y \in V : y <= g
  BY <1>5, MostOf
<1>7. PICK l \in L : l.first = f /\ l.last = e /\ l.ms = g
  OBVIOUS
<1>8. ASSUME NEW m \in L \ {l} PROVE LexLess(KeyRank(m), KeyRank(l))
  <2>1. /\ m.first <= f /\ (m.first = f => m.last <= e)
        /\ (m.first = f /\ m.last = e => m.ms <= g)
    BY <1>2, <1>4, <1>6
  <2>2. m.k = "log" /\ l.k = "log" /\ m.term = t /\ l.term = t
    BY DEF LogObject
  <2>3. /\ m = [k |-> "log", term |-> t, first |-> m.first, last |-> m.last, ms |-> m.ms]
        /\ l = [k |-> "log", term |-> t, first |-> f, last |-> e, ms |-> g]
    BY <1>7, <2>2 DEF LogObject
  <2>4. m.first # f \/ m.last # e \/ m.ms # g
    BY <2>3
  <2>5. m.first \in Nat /\ m.last \in Nat /\ m.ms \in Nat /\ f \in Nat /\ e \in Nat /\ g \in Nat
    BY <1>7 DEF LogObject
  <2>6. \/ m.first < f
        \/ m.first = f /\ m.last < e
        \/ m.first = f /\ m.last = e /\ m.ms < g
    BY <2>1, <2>4, <2>5
  <2>7. KeyRank(m) = <<t, 0, m.first, m.last, m.ms, 0>> /\ KeyRank(l) = <<t, 0, f, e, g, 0>>
    BY <1>7, <2>2 DEF KeyRank
  <2>. QED  BY <2>6, <2>7 DEF LexLess
<1>. QED  BY <1>8

\* A log object listed before another of its timeline does not reach further.
LEMMA ListedBefore ==
    ASSUME NEW l \in LogObject, NEW m \in LogObject, l.term = m.term,
           LexLess(KeyRank(m), KeyRank(l)), m.first < l.first => m.last < l.first,
           l.first <= l.last
    PROVE  m.last <= l.last
<1>1. /\ l.first \in Nat /\ m.first \in Nat /\ l.last \in Nat /\ m.last \in Nat
      /\ l.ms \in Nat /\ m.ms \in Nat /\ l.term \in Nat
  BY DEF LogObject, ArcTerms
<1>2. /\ KeyRank(m) = <<l.term, 0, m.first, m.last, m.ms, 0>>
      /\ KeyRank(l) = <<l.term, 0, l.first, l.last, l.ms, 0>>
  BY DEF KeyRank, LogObject
<1>3. PICK i \in 1 .. 6 : KeyRank(m)[i] < KeyRank(l)[i] /\ \A j \in 1 .. i - 1 : KeyRank(m)[j] = KeyRank(l)[j]
  BY <1>2 DEF LexLess
<1>4. CASE i = 3
  BY <1>1, <1>2, <1>3, <1>4
<1>5. CASE i = 4
  BY <1>1, <1>2, <1>3, <1>5
<1>6. CASE i = 5
  BY <1>1, <1>2, <1>3, <1>6
<1>7. CASE i \in {1, 2, 6}
  BY <1>1, <1>2, <1>3, <1>7
<1>. QED  BY <1>4, <1>5, <1>6, <1>7

LEMMA NewerThan ==
    ASSUME NEW a \in SnapObject, NEW b \in SnapObject, NEW c \in SnapObject, Newer(a, b),
           b = c \/ Newer(b, c)
    PROVE  /\ Newer(a, c) /\ a # c /\ a.term >= c.term /\ (a.term = c.term => a.seq >= c.seq)
<1>1. \A s \in {a, b, c} : s.term \in Nat /\ s.seq \in Nat /\ s.ms \in Nat
  BY DEF SnapObject, ArcTerms
<1>. QED  BY <1>1 DEF Newer

\* The log grows, or a standby takes over.
LEMMA LeadersKeep ==
    ASSUME ArcInv, ArcTakeOver \/ ArcWrite
    PROVE  ArcInv'
<1>. USE DEF ArcInv
<1>0. objects' = objects /\ arc' = arc /\ ams' = ams /\ arcFaults' = arcFaults
  BY DEF ArcTakeOver, ArcWrite
<1>1. /\ aterm' \in ArcTerms /\ aterm <= aterm' /\ alog' \in [ArcTerms -> Seq(ArcTerms)]
      /\ \A t \in ArcTerms : t <= aterm => Len(alog[t]) <= Len(alog'[t])
  <2>1. CASE ArcTakeOver
    <3>1. PICK n \in 0 .. Len(alog[aterm]) : alog' = [alog EXCEPT ![aterm + 1] = SubSeq(alog[aterm], 1, n)]
      BY <2>1 DEF ArcTakeOver
    <3>2. aterm' = aterm + 1 /\ aterm' \in ArcTerms /\ aterm \in Nat
      BY <2>1, ArcAssumption DEF ArcTakeOver, ArcShape, ArcTerms
    <3>3. alog[aterm] \in Seq(ArcTerms)
      BY DEF ArcShape
    <3>4. SubSeq(alog[aterm], 1, n) \in Seq(ArcTerms)
      BY <3>3
    <3>5. \A t \in ArcTerms : t # aterm + 1 => alog'[t] = alog[t]
      BY <3>1 DEF ArcShape
    <3>6. \A t \in ArcTerms : Len(alog[t]) \in Nat
      BY DEF ArcShape
    <3>7. \A t \in ArcTerms : t <= aterm => t # aterm + 1
      BY <3>2 DEF ArcTerms
    <3>8. alog' \in [ArcTerms -> Seq(ArcTerms)]
      BY <3>1, <3>4 DEF ArcShape
    <3>. QED  BY <3>2, <3>5, <3>6, <3>7, <3>8
  <2>2. CASE ArcWrite
    <3>1. /\ alog' = [alog EXCEPT ![aterm] = Append(@, aterm)] /\ aterm' = aterm
          /\ aterm \in ArcTerms /\ aterm \in Nat
      BY <2>2 DEF ArcWrite, ArcShape, ArcTerms
    <3>2. alog[aterm] \in Seq(ArcTerms)
      BY DEF ArcShape
    <3>3. Append(alog[aterm], aterm) \in Seq(ArcTerms) /\ Len(Append(alog[aterm], aterm)) = Len(alog[aterm]) + 1
      BY <3>1, <3>2
    <3>4. \A t \in ArcTerms : t # aterm => alog'[t] = alog[t]
      BY <3>1 DEF ArcShape
    <3>5. alog'[aterm] = Append(alog[aterm], aterm)
      BY <3>1 DEF ArcShape
    <3>6. \A t \in ArcTerms : Len(alog[t]) \in Nat
      BY DEF ArcShape
    <3>7. alog' \in [ArcTerms -> Seq(ArcTerms)]
      BY <3>1, <3>3 DEF ArcShape
    <3>. QED  BY <3>1, <3>3, <3>4, <3>5, <3>6, <3>7
  <2>. QED  BY <2>1, <2>2
<1>2. /\ Complete' = Complete /\ \A t \in ArcTerms : Logs(t)' = Logs(t)
  BY <1>0, ObjectsKept
<1>3. ArcShape'
  BY <1>0, <1>1 DEF ArcShape
<1>4. /\ \A t \in ArcTerms : Len(alog[t]) \in Nat /\ Len(alog'[t]) \in Nat /\ t \in Nat
      /\ aterm \in Nat /\ aterm' \in Nat
  BY <1>1 DEF ArcShape, ArcTerms
<1>5. \A t \in ArcTerms : Uploads(t)' = Uploads(t) /\ Running(t)' = Running(t)
  BY <1>0 DEF Uploads, Running
<1>6. ArcBounds'
  <2>0. ASSUME NEW s \in SnapObject, Taken(s) PROVE Taken(s)'
    <3>1. s.term \in ArcTerms /\ s.seq \in Nat
      BY DEF SnapObject
    <3>2. s.term <= aterm /\ s.seq <= Len(alog[s.term]) /\ s.ms < ams
      BY <2>0 DEF Taken
    <3>3. Len(alog[s.term]) <= Len(alog'[s.term])
      BY <1>1, <3>1, <3>2
    <3>4. s.term <= aterm'
      <4>1. s.term \in Nat /\ aterm \in Nat /\ aterm' \in Nat
        BY <1>4, <3>1
      <4>2. s.term <= aterm /\ aterm <= aterm'
        BY <1>1, <3>2
      <4>. QED  BY ONLY <4>1, <4>2
    <3>5. s.seq <= Len(alog'[s.term])
      BY <1>4, <3>1, <3>2, <3>3
    <3>. QED  BY <1>0, <3>2, <3>4, <3>5 DEF Taken
  <2>1. \A o \in objects : o.k = "snap" => Taken(o)'
    <3>1. \A o \in objects : o.k = "snap" => o \in SnapObject
      BY DEF ArcShape, SnapObject, LogObject
    <3>. QED  BY <2>0, <3>1 DEF ArcBounds
  <2>2. ASSUME NEW o \in objects, o.k # "snap" PROVE Written(o)'
    <3>1. o.term \in ArcTerms /\ o.last \in Nat
      BY <2>2 DEF ArcShape, SnapObject, LogObject
    <3>2. /\ o.term <= aterm /\ o.first <= o.last /\ o.last <= Len(alog[o.term])
          /\ o.ms < ams
      BY <2>2 DEF ArcBounds, Written
    <3>3. Len(alog[o.term]) <= Len(alog'[o.term])
      BY <1>1, <3>1, <3>2
    <3>4. o.term <= aterm'
      <4>1. o.term \in Nat /\ aterm \in Nat /\ aterm' \in Nat
        BY <1>4, <3>1
      <4>2. o.term <= aterm /\ aterm <= aterm'
        BY <1>1, <3>2
      <4>. QED  BY ONLY <4>1, <4>2
    <3>5. o.last <= Len(alog'[o.term])
      BY <1>4, <3>1, <3>2, <3>3
    <3>. QED  BY <1>0, <3>2, <3>4, <3>5 DEF Written
  <2>3. \A r \in ArcTerms : \A k \in arc[r].kept : Taken(k)' /\ k.part = "COMPLETE"
    <3>1. \A r \in ArcTerms : \A k \in arc[r].kept : k \in SnapObject
      BY DEF ArcShape, ArcRecord
    <3>. QED  BY <2>0, <3>1 DEF ArcBounds
  <2>4. ASSUME NEW t \in ArcTerms
        PROVE  /\ aterm' < t => arc[t].pc = "off"
               /\ arc[t].archived <= Len(alog'[t])
               /\ ~Running(t)' => arc[t].archived = 0
               /\ Uploads(t)' => arc[t].seq <= Len(alog'[t]) /\ arc[t].ms < ams
    <3>1. arc[t].archived \in Nat /\ arc[t].seq \in Nat
      BY DEF ArcShape, ArcRecord
    <3>2. CASE t <= aterm
      BY <1>1, <1>4, <1>5, <3>1, <3>2 DEF ArcBounds
    <3>3. CASE aterm < t
      <4>1. arc[t].pc = "off" /\ ~Running(t) /\ ~Uploads(t)
        BY <3>3 DEF ArcBounds, Running, Uploads
      <4>. QED  BY <1>1, <1>4, <1>5, <4>1 DEF ArcBounds
    <3>. QED  BY <1>4, <3>2, <3>3
  <2>. QED  BY <1>0, <2>1, <2>2, <2>3, <2>4 DEF ArcBounds
<1>7. KeptInv' /\ DoomInv' /\ FileInv'
  BY <1>0, <1>2 DEF KeptInv, DoomInv, FileInv, Later
<1>8. UploadInv'
  BY <1>0, <1>2, <1>5 DEF UploadInv, Later
<1>9. BatchInv'
  BY <1>0, <1>2, <1>5 DEF BatchInv
<1>10. ChainInv'
  BY <1>0, <1>2, <1>5 DEF ChainInv, Chained, Reached, InLog
<1>. QED  BY <1>3, <1>6, <1>7, <1>8, <1>9, <1>10

\* A snapshot begins: it will be at least as new as all there is of its term.
LEMMA BeginKeeps ==
    ASSUME ArcInv, NEW t \in ArcTerms, NEW w \in {"start", "gap", "periodic"}, BeginSnap(t, w),
           objects' = objects, alog' = alog, aterm' = aterm, arcFaults' \in Nat, t <= aterm,
           w = "start" => arc[t].pc = "off" /\ Logs(t) = {},
           w # "start" => arc[t].pc = "idle"
    PROVE  ArcInv'
<1>. USE DEF ArcInv
<1>0. arc \in [ArcTerms -> ArcRecord] /\ arc[t] \in ArcRecord /\ ams \in Nat
  BY DEF ArcShape
<1>1. /\ arc'[t].pc = "file" /\ arc'[t].seq = Len(alog[t]) /\ arc'[t].ms = ams /\ arc'[t].why = w
      /\ arc'[t].archived = arc[t].archived /\ arc'[t].kept = arc[t].kept
      /\ \A q \in ArcTerms \ {t} : arc'[q] = arc[q]
      /\ ams' = ams + 1
  BY <1>0 DEF BeginSnap, ArcRecord
<1>2. /\ Complete' = Complete /\ \A q \in ArcTerms : Logs(q)' = Logs(q)
  BY ObjectsKept
<1>3. ArcShape'
  <2>1. Len(alog[t]) \in Nat
    BY DEF ArcShape
  <2>2. [arc[t] EXCEPT !.pc = "file", !.seq = Len(alog[t]), !.ms = ams, !.why = w] \in ArcRecord
    BY <1>0, <2>1 DEF ArcRecord
  <2>3. arc' \in [ArcTerms -> ArcRecord]
    BY <1>0, <2>2 DEF BeginSnap
  <2>. QED  BY <1>1, <2>3 DEF ArcShape
<1>4. \A q \in ArcTerms : arc'[q].kept = arc[q].kept /\ arc'[q].archived = arc[q].archived
  BY <1>1
<1>5. /\ \A q \in ArcTerms \ {t} : Uploads(q)' = Uploads(q) /\ Running(q)' = Running(q)
      /\ Uploads(t)' /\ Running(t)' = Running(t) /\ ~Uploads(t)
  BY <1>1 DEF Uploads, Running
<1>6. ArcBounds'
  <2>1. \A s : Taken(s) /\ s.ms \in Nat => Taken(s)'
    BY <1>0, <1>1 DEF Taken
  <2>2. \A l : Written(l) /\ l.ms \in Nat => Written(l)'
    BY <1>0, <1>1 DEF Written
  <2>3. \A o \in objects : o.ms \in Nat
    BY DEF ArcShape, SnapObject, LogObject
  <2>4. \A r \in ArcTerms : \A k \in arc[r].kept : k.ms \in Nat
    BY DEF ArcShape, ArcRecord, SnapObject
  <2>5. \A q \in ArcTerms \ {t} : /\ aterm' < q => arc'[q].pc = "off"
                                  /\ arc'[q].archived <= Len(alog'[q])
                                  /\ ~Running(q)' => arc'[q].archived = 0
                                  /\ Uploads(q)' => arc'[q].seq <= Len(alog'[q]) /\ arc'[q].ms < ams'
    <3>1. \A q \in ArcTerms : arc[q].ms \in Nat
      BY DEF ArcShape, ArcRecord
    <3>. QED  BY <1>0, <1>1, <1>5, <3>1 DEF ArcBounds
  <2>6. /\ aterm' < t => arc'[t].pc = "off"
        /\ arc'[t].archived <= Len(alog'[t])
        /\ ~Running(t)' => arc'[t].archived = 0
        /\ Uploads(t)' => arc'[t].seq <= Len(alog'[t]) /\ arc'[t].ms < ams'
    <3>1. ~(aterm' < t) /\ Len(alog[t]) <= Len(alog[t])
      BY DEF ArcShape, ArcTerms
    <3>. QED  BY <1>0, <1>1, <1>5, <3>1 DEF ArcBounds
  <2>. QED  BY <1>4, <2>1, <2>2, <2>3, <2>4, <2>5, <2>6 DEF ArcBounds
<1>7. KeptInv'
  <2>1. arc'[t].pc \notin {"doom", "delete"}
    BY <1>1
  <2>. QED  BY <1>1, <1>2, <1>4, <2>1 DEF KeptInv
<1>8. DoomInv'
  BY <1>1 DEF DoomInv
<1>9. FileInv'
  BY <1>2 DEF FileInv, Later
<1>10. BatchInv'
  BY <1>2, <1>4, <1>5 DEF BatchInv
<1>11. ChainInv'
  BY <1>2, <1>4, <1>5 DEF ChainInv, Chained, Reached, InLog
<1>12. UploadInv'
  <2>1. ASSUME NEW q \in ArcTerms \ {t}, Uploads(q)
        PROVE  /\ \A c \in Complete : c.term = q => c.seq <= arc'[q].seq /\ c.ms < arc'[q].ms
               /\ \A r \in ArcTerms : \A k \in arc'[r].kept :
                     k.term = q => k.seq <= arc'[q].seq /\ k.ms < arc'[q].ms
               /\ arc'[q].pc = "complete" => SnapKey(q, arc'[q].seq, arc'[q].ms, "file") \in objects' \/ Later(q)'
               /\ arc'[q].why = "start" => Logs(q) = {}
               /\ arc'[q].archived <= arc'[q].seq /\ \A l \in Logs(q) : l.last <= arc'[q].seq
    BY <1>1, <1>2, <1>4, <2>1 DEF UploadInv, Later
  <2>2. \A c \in Complete : c.term = t => c.seq <= arc'[t].seq /\ c.ms < arc'[t].ms
    <3>1. \A c \in Complete : c \in objects /\ c.k = "snap"
      BY CompleteIs DEF ArcShape, Marked
    <3>. QED  BY <1>1, <3>1 DEF ArcBounds, Taken
  <2>3. \A r \in ArcTerms : \A k \in arc'[r].kept :
             k.term = t => k.seq <= arc'[t].seq /\ k.ms < arc'[t].ms
    BY <1>1, <1>4 DEF ArcBounds, Taken
  <2>4. arc'[t].why = "start" => Logs(t) = {}
    BY <1>1
  <2>5. arc'[t].archived <= arc'[t].seq
    BY <1>1 DEF ArcBounds
  <2>6. \A l \in Logs(t) : l.last <= arc'[t].seq
    BY <1>1 DEF ArcBounds, Written, Logs
  <2>7. arc'[t].pc # "complete"
    BY <1>1
  <2>. QED  BY <1>2, <1>5, <2>1, <2>2, <2>3, <2>4, <2>5, <2>6, <2>7 DEF UploadInv
<1>. QED  BY <1>3, <1>6, <1>7, <1>8, <1>9, <1>10, <1>11, <1>12

\* An archiver that is off, or goes on from what it counts as archived, with nothing kept.
LEMMA RestKeeps ==
    ASSUME ArcInv, NEW t \in ArcTerms, UNCHANGED <<objects, alog, aterm, ams>>, arcFaults' \in Nat,
           arc' \in [ArcTerms -> ArcRecord], \A q \in ArcTerms \ {t} : arc'[q] = arc[q],
           arc'[t].kept = {}, arc'[t].pc \in {"off", "idle"},
           arc'[t].pc = "off" => arc'[t].archived = 0,
           arc'[t].pc = "idle" =>
              /\ t <= aterm /\ arc'[t].archived <= Len(alog[t])
              /\ \A l \in Logs(t) :
                    \/ l.last <= arc'[t].archived
                    \/ l.first = arc'[t].archived + 1 /\ l.last <= arc'[t].archived + LogBatch
              /\ \E c \in Complete : c.term > t \/ (c.term = t /\ Chained(t, c)')
    PROVE  ArcInv'
<1>. USE DEF ArcInv
<1>1. /\ Complete' = Complete /\ \A q \in ArcTerms : Logs(q)' = Logs(q)
  BY ObjectsKept
<1>2. ArcShape'
  BY DEF ArcShape
<1>3. /\ \A q \in ArcTerms \ {t} : Uploads(q)' = Uploads(q) /\ Running(q)' = Running(q)
      /\ ~Uploads(t)' /\ (Running(t)' <=> arc'[t].pc = "idle")
  BY DEF Uploads, Running
<1>4. \A r \in ArcTerms : \A k \in arc'[r].kept : r # t /\ k \in arc[r].kept
  OBVIOUS
<1>5. ArcBounds'
  <2>1. \A s : Taken(s)' = Taken(s) /\ Written(s)' = Written(s)
    BY DEF Taken, Written
  <2>2. \A q \in ArcTerms \ {t} : /\ aterm' < q => arc'[q].pc = "off"
                                  /\ arc'[q].archived <= Len(alog'[q])
                                  /\ ~Running(q)' => arc'[q].archived = 0
                                  /\ Uploads(q)' => arc'[q].seq <= Len(alog'[q]) /\ arc'[q].ms < ams'
    BY <1>3 DEF ArcBounds
  <2>3. /\ aterm' < t => arc'[t].pc = "off"
        /\ arc'[t].archived <= Len(alog'[t])
        /\ ~Running(t)' => arc'[t].archived = 0
    <3>1. Len(alog[t]) \in Nat /\ aterm \in Nat /\ t \in Nat
      BY DEF ArcShape, ArcTerms
    <3>. QED  BY <1>3, <3>1
  <2>4. \A o \in objects' : IF o.k = "snap" THEN Taken(o)' ELSE Written(o)'
    BY <2>1 DEF ArcBounds
  <2>5. \A r \in ArcTerms : \A k \in arc'[r].kept : Taken(k)' /\ k.part = "COMPLETE"
    BY <1>4, <2>1 DEF ArcBounds
  <2>. QED  BY <1>3, <2>2, <2>3, <2>4, <2>5 DEF ArcBounds
<1>6. KeptInv'
  <2>1. arc'[t].pc \notin {"doom", "delete"}
    OBVIOUS
  <2>. QED  BY <1>1, <1>4, <2>1 DEF KeptInv
<1>7. DoomInv'
  BY DEF DoomInv
<1>8. FileInv'
  BY <1>1 DEF FileInv, Later
<1>9. UploadInv'
  <2>1. ASSUME NEW q \in ArcTerms \ {t}, Uploads(q)
        PROVE  /\ \A c \in Complete : c.term = q => c.seq <= arc'[q].seq /\ c.ms < arc'[q].ms
               /\ arc'[q].pc = "complete" => SnapKey(q, arc'[q].seq, arc'[q].ms, "file") \in objects' \/ Later(q)'
               /\ arc'[q].why = "start" => Logs(q) = {}
               /\ arc'[q].archived <= arc'[q].seq /\ \A l \in Logs(q) : l.last <= arc'[q].seq
    BY <1>1, <2>1 DEF UploadInv, Later
  <2>2. ASSUME NEW q \in ArcTerms \ {t}, Uploads(q)
        PROVE  \A r \in ArcTerms : \A k \in arc'[r].kept :
                     k.term = q => k.seq <= arc'[q].seq /\ k.ms < arc'[q].ms
    BY <1>4, <2>2 DEF UploadInv
  <2>. QED  BY <1>1, <1>3, <2>1, <2>2 DEF UploadInv
<1>10. BatchInv'
  BY <1>1, <1>3 DEF BatchInv
<1>11. ChainInv'
  <2>1. ASSUME NEW q \in ArcTerms \ {t}, Logs(q)' # {} \/ Running(q)'
        PROVE  \E c \in Complete' : c.term > q \/ (c.term = q /\ Chained(q, c)')
    <3>1. PICK c \in Complete : c.term > q \/ (c.term = q /\ Chained(q, c))
      BY <1>1, <1>3, <2>1 DEF ChainInv
    <3>2. Chained(q, c)' = Chained(q, c)
      BY <1>1, <1>3 DEF Chained, Reached, InLog
    <3>. QED  BY <1>1, <3>1, <3>2
  <2>2. ASSUME Logs(t)' # {} \/ Running(t)'
        PROVE  \E c \in Complete' : c.term > t \/ (c.term = t /\ Chained(t, c)')
    <3>1. CASE arc'[t].pc = "idle"
      BY <1>1, <3>1
    <3>2. CASE arc'[t].pc = "off"
      <4>1. Logs(t) # {} /\ ~Running(t)'
        BY <1>1, <1>3, <2>2, <3>2
      <4>2. PICK c \in Complete : c.term > t \/ (c.term = t /\ Chained(t, c))
        BY <4>1 DEF ChainInv
      <4>3. Chained(t, c) => Chained(t, c)'
        BY <1>1, <4>1 DEF Chained, Reached, InLog
      <4>. QED  BY <1>1, <4>2, <4>3
    <3>. QED  BY <3>1, <3>2
  <2>. QED  BY <2>1, <2>2 DEF ChainInv
<1>. QED  BY <1>2, <1>5, <1>6, <1>7, <1>8, <1>9, <1>10, <1>11

\* The process dies, or a prune is over.
LEMMA DieKeeps ==
    ASSUME ArcInv, NEW t \in ArcTerms, ArcDie(t)
    PROVE  ArcInv'
<1>. USE DEF ArcInv
<1>1. /\ arc' = [arc EXCEPT ![t] = ArcOff] /\ UNCHANGED <<objects, alog, aterm, ams>>
      /\ arcFaults' \in Nat
  BY DEF ArcDie, Fault, ArcShape
<1>2. ArcOff \in ArcRecord /\ ArcOff.kept = {} /\ ArcOff.pc = "off" /\ ArcOff.archived = 0
  BY DEF ArcOff, ArcRecord
<1>3. arc' \in [ArcTerms -> ArcRecord] /\ arc'[t] = ArcOff /\ \A q \in ArcTerms \ {t} : arc'[q] = arc[q]
  BY <1>1, <1>2 DEF ArcShape
<1>4. arc'[t].kept = {} /\ arc'[t].pc = "off" /\ arc'[t].archived = 0
  BY <1>2, <1>3
<1>. QED  BY <1>1, <1>3, <1>4, RestKeeps

LEMMA PrunedKeeps ==
    ASSUME ArcInv, NEW t \in ArcTerms, arc[t].pc = "delete", UNCHANGED <<objects, alog, aterm, ams>>,
           arcFaults' \in Nat,
           arc' = [arc EXCEPT ![t].pc = "idle", ![t].kept = {}, ![t].doomed = {}]
    PROVE  ArcInv'
<1>. USE DEF ArcInv
<1>1. arc \in [ArcTerms -> ArcRecord] /\ arc[t] \in ArcRecord
  BY DEF ArcShape
<1>2. /\ arc' \in [ArcTerms -> ArcRecord] /\ \A q \in ArcTerms \ {t} : arc'[q] = arc[q]
      /\ arc'[t].kept = {} /\ arc'[t].pc = "idle" /\ arc'[t].archived = arc[t].archived
  BY <1>1 DEF ArcRecord
<1>3. Running(t) /\ ~Uploads(t) /\ Running(t)'
  BY <1>2 DEF Running, Uploads
<1>4. t <= aterm /\ arc'[t].archived <= Len(alog[t])
  <2>1. ~(aterm < t) /\ aterm \in Nat /\ t \in Nat
    BY DEF ArcBounds, ArcShape, ArcTerms
  <2>. QED  BY <1>2, <2>1 DEF ArcBounds
<1>5. \A l \in Logs(t) : \/ l.last <= arc'[t].archived
                         \/ l.first = arc'[t].archived + 1 /\ l.last <= arc'[t].archived + LogBatch
  BY <1>2, <1>3 DEF BatchInv
<1>6. \E c \in Complete : c.term > t \/ (c.term = t /\ Chained(t, c)')
  <2>1. PICK c \in Complete : c.term > t \/ (c.term = t /\ Chained(t, c))
    BY <1>3 DEF ChainInv
  <2>2. Logs(t)' = Logs(t)
    BY ObjectsKept
  <2>3. Chained(t, c)' = Chained(t, c)
    BY <1>2, <1>3, <2>2 DEF Chained, Reached, InLog
  <2>. QED  BY <2>1, <2>3
<1>. QED  BY <1>2, <1>4, <1>5, <1>6, RestKeeps

\* A restarted archiver goes on where its timeline ends.
LEMMA ResumeKeeps ==
    ASSUME ArcInv, NEW t \in ArcTerms, arc[t].pc = "off", t <= aterm, Logs(t) \cup Snaps(t) # {},
           arc' = [arc EXCEPT ![t] = [ArcOff EXCEPT !.pc = "idle", !.archived = Resume(t)]],
           UNCHANGED <<objects, alog, aterm, ams, arcFaults>>
    PROVE  ArcInv'
<1>. USE DEF ArcInv
<1>. DEFINE S == {l.last : l \in Logs(t)} \cup {s.seq : s \in Snaps(t)}
<1>1. /\ \A l \in Logs(t) : l.last \in Nat /\ l.last <= Len(alog[t])
      /\ \A s \in Snaps(t) : s.seq \in Nat /\ s.seq <= Len(alog[t])
  BY DEF Logs, Snaps, ArcShape, ArcBounds, SnapObject, LogObject, Taken, Written
<1>2. S \in SUBSET Nat /\ S # {} /\ Len(alog[t]) \in Nat /\ \A x \in S : x <= Len(alog[t])
  <2>1. S # {}
    OBVIOUS
  <2>2. Len(alog[t]) \in Nat
    BY DEF ArcShape
  <2>3. \A x \in S : x \in Nat /\ x <= Len(alog[t])
    BY <1>1
  <2>. QED  BY <2>1, <2>2, <2>3
<1>3. PICK m \in S : \A x \in S : x <= m
  BY <1>2, MostOf
<1>4. Resume(t) \in S /\ \A x \in S : x <= Resume(t)
  BY <1>3 DEF Resume, MaxOf
<1>5. Resume(t) \in Nat /\ Resume(t) <= Len(alog[t])
  BY <1>2, <1>4
<1>6. [ArcOff EXCEPT !.pc = "idle", !.archived = Resume(t)] \in ArcRecord
  BY <1>5 DEF ArcOff, ArcRecord
<1>7. /\ arc' \in [ArcTerms -> ArcRecord] /\ \A q \in ArcTerms \ {t} : arc'[q] = arc[q]
      /\ arc'[t].kept = {} /\ arc'[t].pc = "idle" /\ arc'[t].archived = Resume(t)
  BY <1>6 DEF ArcOff, ArcShape
<1>8. /\ Logs(t)' = Logs(t) /\ \A s \in Snaps(t) : s \in Complete /\ s.term = t
      /\ arcFaults' \in Nat
  BY ObjectsKept, CompleteIs DEF ArcShape
<1>9. \A l \in Logs(t) : l.last <= arc'[t].archived
  BY <1>4, <1>7
<1>10. \E c \in Complete : c.term > t \/ (c.term = t /\ Chained(t, c)')
  <2>1. CASE \E s \in Snaps(t) : s.seq = Resume(t)
    <3>1. PICK s \in Snaps(t) : s.seq = Resume(t)
      BY <2>1
    <3>2. \A n \in Nat : n > s.seq => ~Reached(t, n)'
      BY <1>1, <1>5, <1>7, <1>8, <1>9, <3>1 DEF Reached
    <3>3. Chained(t, s)'
      BY <3>2 DEF Chained
    <3>. QED  BY <1>8, <3>3
  <2>2. CASE \E l \in Logs(t) : l.last = Resume(t)
    <3>1. PICK l \in Logs(t) : l.last = Resume(t)
      BY <2>2
    <3>2. PICK c \in Complete : c.term > t \/ (c.term = t /\ Chained(t, c))
      BY <3>1 DEF ChainInv
    <3>3. \A n \in Nat : Reached(t, n)' => Reached(t, n)
      BY <1>7, <1>8, <3>1 DEF Reached
    <3>4. \A n \in Nat : InLog(t, n)' = InLog(t, n)
      BY <1>8 DEF InLog
    <3>5. Chained(t, c) => Chained(t, c)'
      BY <3>3, <3>4 DEF Chained
    <3>. QED  BY <3>2, <3>5
  <2>. QED  BY <1>4, <2>1, <2>2
<1>. QED  BY <1>5, <1>7, <1>8, <1>9, <1>10, RestKeeps

LEMMA StartKeeps ==
    ASSUME ArcInv, NEW t \in ArcTerms, ArcStart(t)
    PROVE  ArcInv'
<1>. USE DEF ArcInv
<1>1. /\ arc[t].pc = "off" /\ t <= aterm
      /\ objects' = objects /\ alog' = alog /\ aterm' = aterm /\ arcFaults' = arcFaults /\ arcFaults' \in Nat
  BY DEF ArcStart, ArcShape
<1>2. CASE Logs(t) \cup Snaps(t) = {}
  <2>1. BeginSnap(t, "start") /\ Logs(t) = {}
    BY <1>2 DEF ArcStart
  <2>. QED  BY <1>1, <2>1, BeginKeeps
<1>3. CASE Logs(t) \cup Snaps(t) # {}
  <2>1. /\ arc' = [arc EXCEPT ![t] = [ArcOff EXCEPT !.pc = "idle", !.archived = Resume(t)]]
        /\ ams' = ams
    BY <1>3 DEF ArcStart
  <2>. QED  BY <1>1, <1>3, <2>1, ResumeKeeps
<1>. QED  BY <1>2, <1>3

LEMMA SnapshotsKeep ==
    ASSUME ArcInv, NEW t \in ArcTerms, ArcGap(t) \/ ArcPeriodic(t)
    PROVE  ArcInv'
<1>. USE DEF ArcInv
<1>1. /\ arc[t].pc = "idle"
      /\ objects' = objects /\ alog' = alog /\ aterm' = aterm /\ arcFaults' \in Nat
      /\ BeginSnap(t, "gap") \/ BeginSnap(t, "periodic")
  BY DEF ArcGap, ArcPeriodic, Fault, ArcShape
<1>2. t <= aterm
  BY <1>1 DEF ArcBounds, ArcShape, ArcTerms
<1>3. CASE BeginSnap(t, "gap")
  BY <1>1, <1>2, <1>3, BeginKeeps
<1>4. CASE BeginSnap(t, "periodic")
  BY <1>1, <1>2, <1>4, BeginKeeps
<1>. QED  BY <1>1, <1>3, <1>4

\* prune() lists what is complete, and then what goes.
LEMMA KeepKeeps ==
    ASSUME ArcInv, NEW t \in ArcTerms, PruneKeep(t)
    PROVE  ArcInv'
<1>. USE DEF ArcInv
<1>0. arc \in [ArcTerms -> ArcRecord] /\ arc[t] \in ArcRecord
  BY DEF ArcShape
<1>1. \A k \in Kept : k \in Complete /\ k \in objects /\ k.k = "snap" /\ k.part = "COMPLETE" /\ k \in SnapObject
  BY CompleteIs DEF ArcShape, Kept, Marked, SnapObject, LogObject
<1>2. /\ arc[t].pc = "list" /\ arc'[t].kept = Kept /\ arc'[t].archived = arc[t].archived
      /\ arc'[t].pc = (IF Kept = {} THEN "idle" ELSE "doom")
      /\ \A q \in ArcTerms \ {t} : arc'[q] = arc[q]
      /\ UNCHANGED <<alog, aterm, objects, ams, arcFaults>>
  BY <1>0 DEF PruneKeep, ArcRecord
<1>3. ArcShape'
  <2>1. arc' \in [ArcTerms -> ArcRecord]
    BY <1>0, <1>1 DEF PruneKeep, ArcRecord
  <2>. QED  BY <1>2, <2>1 DEF ArcShape
<1>4. /\ Complete' = Complete /\ \A q \in ArcTerms : Logs(q)' = Logs(q)
  BY <1>2, ObjectsKept
<1>5. /\ \A q \in ArcTerms : Uploads(q)' = Uploads(q) /\ Running(q)' = Running(q)
      /\ \A q \in ArcTerms : arc'[q].archived = arc[q].archived
      /\ ~Uploads(t)
  BY <1>2 DEF Uploads, Running
<1>6. \A r \in ArcTerms : \A k \in arc'[r].kept : k \in Kept \/ (r # t /\ k \in arc[r].kept)
  BY <1>2
<1>7. ArcBounds'
  <2>1. \A s : Taken(s)' = Taken(s) /\ Written(s)' = Written(s)
    BY <1>2 DEF Taken, Written
  <2>2. \A q \in ArcTerms : /\ aterm' < q => arc'[q].pc = "off"
                            /\ arc'[q].archived <= Len(alog'[q])
                            /\ ~Running(q)' => arc'[q].archived = 0
                            /\ Uploads(q)' => arc'[q].seq <= Len(alog'[q]) /\ arc'[q].ms < ams'
    BY <1>2, <1>5 DEF ArcBounds
  <2>3. \A o \in objects' : IF o.k = "snap" THEN Taken(o)' ELSE Written(o)'
    BY <1>2, <2>1 DEF ArcBounds
  <2>4. \A k \in Kept : Taken(k)
    BY <1>1 DEF ArcBounds
  <2>5. \A r \in ArcTerms : \A k \in arc'[r].kept : Taken(k)' /\ k.part = "COMPLETE"
    BY <1>1, <1>6, <2>1, <2>4 DEF ArcBounds
  <2>. QED  BY <2>2, <2>3, <2>5 DEF ArcBounds
<1>8. KeptInv'
  BY <1>1, <1>2, <1>4, <1>6 DEF KeptInv
<1>9. DoomInv'
  BY <1>2 DEF DoomInv
<1>10. FileInv'
  BY <1>2, <1>4 DEF FileInv, Later
<1>11. UploadInv'
  <2>1. ASSUME NEW q \in ArcTerms, Uploads(q)
        PROVE  /\ q # t
               /\ \A c \in Complete : c.term = q => c.seq <= arc'[q].seq /\ c.ms < arc'[q].ms
               /\ arc'[q].pc = "complete" => SnapKey(q, arc'[q].seq, arc'[q].ms, "file") \in objects' \/ Later(q)'
               /\ arc'[q].why = "start" => Logs(q) = {}
               /\ arc'[q].archived <= arc'[q].seq /\ \A l \in Logs(q) : l.last <= arc'[q].seq
    BY <1>2, <1>4, <1>5, <2>1 DEF UploadInv, Later
  <2>2. ASSUME NEW q \in ArcTerms, Uploads(q)
        PROVE  \A r \in ArcTerms : \A k \in arc'[r].kept :
                     k.term = q => k.seq <= arc'[q].seq /\ k.ms < arc'[q].ms
    BY <1>1, <1>2, <1>6, <2>1, <2>2 DEF UploadInv
  <2>. QED  BY <1>4, <1>5, <2>1, <2>2 DEF UploadInv
<1>12. BatchInv'
  BY <1>4, <1>5 DEF BatchInv
<1>13. ChainInv'
  BY <1>4, <1>5 DEF ChainInv, Chained, Reached, InLog
<1>. QED  BY <1>3, <1>7, <1>8, <1>9, <1>10, <1>11, <1>12, <1>13

LEMMA DoomKeeps ==
    ASSUME ArcInv, NEW t \in ArcTerms, PruneDoom(t)
    PROVE  ArcInv'
<1>. USE DEF ArcInv
<1>0. arc \in [ArcTerms -> ArcRecord] /\ arc[t] \in ArcRecord
  BY DEF ArcShape
<1>1. Doomed(arc[t].kept) \in SUBSET (SnapObject \cup LogObject)
  BY DEF ArcShape, Doomed
<1>2. /\ arc[t].pc = "doom" /\ arc'[t].doomed = Doomed(arc[t].kept) /\ arc'[t].pc = "delete"
      /\ arc'[t].archived = arc[t].archived /\ arc'[t].kept = arc[t].kept
      /\ \A q \in ArcTerms \ {t} : arc'[q] = arc[q]
      /\ UNCHANGED <<alog, aterm, objects, ams, arcFaults>>
  BY <1>0 DEF PruneDoom, ArcRecord
<1>3. ArcShape'
  <2>1. arc' \in [ArcTerms -> ArcRecord]
    BY <1>0, <1>1 DEF PruneDoom, ArcRecord
  <2>. QED  BY <1>2, <2>1 DEF ArcShape
<1>4. /\ Complete' = Complete /\ \A q \in ArcTerms : Logs(q)' = Logs(q)
  BY <1>2, ObjectsKept
<1>5. /\ \A q \in ArcTerms : Uploads(q)' = Uploads(q) /\ Running(q)' = Running(q)
      /\ \A q \in ArcTerms : arc'[q].archived = arc[q].archived /\ arc'[q].kept = arc[q].kept
      /\ ~Uploads(t)
  BY <1>2 DEF Uploads, Running
<1>6. ArcBounds'
  <2>1. \A s : Taken(s)' = Taken(s) /\ Written(s)' = Written(s)
    BY <1>2 DEF Taken, Written
  <2>2. \A q \in ArcTerms : /\ aterm' < q => arc'[q].pc = "off"
                            /\ arc'[q].archived <= Len(alog'[q])
                            /\ ~Running(q)' => arc'[q].archived = 0
                            /\ Uploads(q)' => arc'[q].seq <= Len(alog'[q]) /\ arc'[q].ms < ams'
    BY <1>2, <1>5 DEF ArcBounds
  <2>. QED  BY <1>2, <1>5, <2>1, <2>2 DEF ArcBounds
<1>7. KeptInv'
  BY <1>2, <1>4, <1>5 DEF KeptInv
<1>8. DoomInv'
  <2>1. ASSUME NEW o \in Doomed(arc[t].kept)
        PROVE  /\ DoomedBy(o, arc[t].kept)
               /\ o.k = "snap" /\ o.part = "file" /\ MarkOf(o) \in objects =>
                    MarkOf(o) \in Doomed(arc[t].kept)
    <3>1. DoomedBy(o, arc[t].kept)
      BY DEF Doomed, DoomedBy
    <3>2. /\ MarkOf(o).k = "snap" /\ MarkOf(o).term = o.term /\ MarkOf(o).seq = o.seq
          /\ MarkOf(o).ms = o.ms
      BY DEF MarkOf, SnapKey
    <3>3. \A a : Newer(a, MarkOf(o)) = Newer(a, o)
      BY <3>2 DEF Newer
    <3>. HIDE DEF MarkOf
    <3>4. o.k = "snap" => DoomedBy(MarkOf(o), arc[t].kept)
      BY <3>1, <3>2, <3>3 DEF DoomedBy
    <3>. QED  BY <3>1, <3>4 DEF Doomed, DoomedBy
  <2>. QED  BY <1>2, <2>1 DEF DoomInv
<1>9. FileInv'
  BY <1>2, <1>4 DEF FileInv, Later
<1>10. UploadInv'
  <2>1. ASSUME NEW q \in ArcTerms, Uploads(q)
        PROVE  /\ q # t
               /\ \A c \in Complete : c.term = q => c.seq <= arc'[q].seq /\ c.ms < arc'[q].ms
               /\ \A r \in ArcTerms : \A k \in arc'[r].kept :
                     k.term = q => k.seq <= arc'[q].seq /\ k.ms < arc'[q].ms
               /\ arc'[q].pc = "complete" => SnapKey(q, arc'[q].seq, arc'[q].ms, "file") \in objects' \/ Later(q)'
               /\ arc'[q].why = "start" => Logs(q) = {}
               /\ arc'[q].archived <= arc'[q].seq /\ \A l \in Logs(q) : l.last <= arc'[q].seq
    BY <1>2, <1>4, <1>5, <2>1 DEF UploadInv, Later
  <2>. QED  BY <1>4, <1>5, <2>1 DEF UploadInv
<1>11. BatchInv'
  BY <1>4, <1>5 DEF BatchInv
<1>12. ChainInv'
  BY <1>4, <1>5 DEF ChainInv, Chained, Reached, InLog
<1>. QED  BY <1>3, <1>6, <1>7, <1>8, <1>9, <1>10, <1>11, <1>12

\* A batch of the log.
LEMMA BatchKeeps ==
    ASSUME ArcInv, NEW t \in ArcTerms, ArcBatch(t)
    PROVE  ArcInv'
<1>. USE DEF ArcInv
<1>0. /\ arc \in [ArcTerms -> ArcRecord] /\ arc[t] \in ArcRecord /\ ams \in Nat
      /\ LogBatch \in Nat \ {0} /\ arc[t].archived \in Nat /\ Len(alog[t]) \in Nat
  <2>1. arc \in [ArcTerms -> ArcRecord] /\ arc[t] \in ArcRecord /\ ams \in Nat /\ Len(alog[t]) \in Nat
    BY DEF ArcShape
  <2>2. arc[t].archived \in Nat
    BY <2>1 DEF ArcRecord
  <2>3. LogBatch \in Nat \ {0}
    BY ArcAssumption
  <2>. QED  BY <2>1, <2>2, <2>3
<1>a. PICK a : a = arc[t].archived
  OBVIOUS
<1>e. PICK e : e = BatchEnd(t)
  OBVIOUS
<1>m. PICK m : m = LogKey(t, a + 1, e, ams)
  OBVIOUS
<1>1. /\ a \in Nat /\ e \in Nat /\ a + 1 <= e /\ e <= a + LogBatch /\ e <= Len(alog[t])
      /\ e = a + LogBatch \/ e = Len(alog[t])
  BY <1>0, <1>a, <1>e DEF ArcBatch, BatchEnd
<1>2. /\ m \in LogObject /\ m.k = "log" /\ m.term = t /\ m.first = a + 1 /\ m.last = e /\ m.ms = ams
  BY <1>0, <1>1, <1>m DEF LogKey, LogObject
<1>3. /\ arc[t].pc = "idle" /\ ams' = ams + 1 /\ alog' = alog /\ aterm' = aterm
      /\ objects' = objects \cup {m}
      /\ arcFaults' \in Nat
  BY <1>a, <1>e, <1>m DEF ArcBatch, Fault, ArcShape
<1>4. arc' = [arc EXCEPT ![t].archived = e] \/ arc' = arc
  BY <1>e DEF ArcBatch
<1>5. /\ \A q \in ArcTerms \ {t} : arc'[q] = arc[q]
      /\ arc'[t].archived \in {a, e}
      /\ arc' \in [ArcTerms -> ArcRecord]
  <2>1. CASE arc' = arc
    BY <1>0, <1>a, <2>1
  <2>2. CASE arc' = [arc EXCEPT ![t].archived = e]
    <3>1. [arc[t] EXCEPT !.archived = e] \in ArcRecord /\ [arc[t] EXCEPT !.archived = e].archived = e
      BY <1>0, <1>1 DEF ArcRecord
    <3>2. arc'[t] = [arc[t] EXCEPT !.archived = e]
      BY <1>0, <2>2
    <3>. QED  BY <1>0, <2>2, <3>1, <3>2
  <2>. QED  BY <1>4, <2>1, <2>2
<1>6. \A q \in ArcTerms : /\ arc'[q].pc = arc[q].pc /\ arc'[q].why = arc[q].why /\ arc'[q].kept = arc[q].kept
                          /\ arc'[q].doomed = arc[q].doomed /\ arc'[q].seq = arc[q].seq
                          /\ arc'[q].ms = arc[q].ms
  <2>1. CASE arc' = arc
    BY <2>1
  <2>2. CASE arc' = [arc EXCEPT ![t].archived = e]
    <3>1. arc'[t] = [arc[t] EXCEPT !.archived = e]
      BY <1>0, <2>2
    <3>2. /\ arc'[t].pc = arc[t].pc /\ arc'[t].why = arc[t].why /\ arc'[t].kept = arc[t].kept
          /\ arc'[t].doomed = arc[t].doomed /\ arc'[t].seq = arc[t].seq /\ arc'[t].ms = arc[t].ms
      BY <1>0, <3>1 DEF ArcRecord
    <3>. QED  BY <1>5, <3>2
  <2>. QED  BY <1>4, <2>1, <2>2
<1>7. ArcShape'
  BY <1>2, <1>3, <1>5 DEF ArcShape
<1>8. /\ Complete' = Complete /\ Logs(t)' = Logs(t) \cup {m}
      /\ \A q \in ArcTerms \ {t} : Logs(q)' = Logs(q)
  <2>1. Marked(objects') = Marked(objects)
    BY <1>2, <1>3 DEF Marked
  <2>2. \A q \in ArcTerms : LogsIn(objects', q) = LogsIn(objects, q) \cup (IF q = t THEN {m} ELSE {})
    BY <1>2, <1>3 DEF LogsIn
  <2>. QED  BY <1>7, <2>1, <2>2, CompleteIs, CompleteIsNext DEF ArcShape
<1>9. /\ \A q \in ArcTerms : Uploads(q)' = Uploads(q) /\ Running(q)' = Running(q)
      /\ ~Uploads(t) /\ Running(t)
  BY <1>3, <1>6 DEF Uploads, Running
<1>10. ArcBounds'
  <2>1. \A s : Taken(s) /\ s.ms \in Nat => Taken(s)'
    BY <1>0, <1>3 DEF Taken
  <2>2. \A l : Written(l) /\ l.ms \in Nat => Written(l)'
    BY <1>0, <1>3 DEF Written
  <2>3. \A o \in objects : o.ms \in Nat
    BY DEF ArcShape, SnapObject, LogObject
  <2>4. \A r \in ArcTerms : \A k \in arc[r].kept : k.ms \in Nat
    BY DEF ArcShape, ArcRecord, SnapObject
  <2>5. t <= aterm
    BY <1>3 DEF ArcBounds, ArcShape, ArcTerms
  <2>6. Written(m)'
    BY <1>0, <1>1, <1>2, <1>3, <2>5 DEF Written
  <2>7. \A q \in ArcTerms \ {t} : arc'[q].archived <= Len(alog'[q]) /\ (~Running(q)' => arc'[q].archived = 0)
    BY <1>3, <1>5, <1>9 DEF ArcBounds
  <2>8. arc'[t].archived <= Len(alog'[t]) /\ Running(t)'
    BY <1>a, <1>1, <1>3, <1>5, <1>9 DEF ArcBounds
  <2>9. \A q \in ArcTerms : /\ aterm' < q => arc'[q].pc = "off"
                            /\ Uploads(q)' => arc'[q].seq <= Len(alog'[q]) /\ arc'[q].ms < ams'
    <3>1. \A q \in ArcTerms : arc[q].ms \in Nat
      BY DEF ArcShape, ArcRecord
    <3>. QED  BY <1>0, <1>3, <1>6, <1>9, <3>1 DEF ArcBounds
  <2>10. \A o \in objects' : IF o.k = "snap" THEN Taken(o)' ELSE Written(o)'
    BY <1>2, <1>3, <2>1, <2>2, <2>3, <2>6 DEF ArcBounds
  <2>11. \A r \in ArcTerms : \A k \in arc'[r].kept : Taken(k)' /\ k.part = "COMPLETE"
    BY <1>6, <2>1, <2>4 DEF ArcBounds
  <2>. QED  BY <2>7, <2>8, <2>9, <2>10, <2>11 DEF ArcBounds
<1>11. KeptInv'
  BY <1>6, <1>8 DEF KeptInv
<1>12. DoomInv'
  <2>1. \A o : MarkOf(o) \in objects' => MarkOf(o) \in objects
    BY <1>2, <1>3 DEF MarkOf, SnapKey
  <2>. QED  BY <1>6, <2>1 DEF DoomInv
<1>13. FileInv'
  BY <1>3, <1>8 DEF FileInv, Later
<1>14. UploadInv'
  <2>1. ASSUME NEW q \in ArcTerms, Uploads(q)
        PROVE  /\ q # t
               /\ \A c \in Complete : c.term = q => c.seq <= arc'[q].seq /\ c.ms < arc'[q].ms
               /\ \A r \in ArcTerms : \A k \in arc'[r].kept :
                     k.term = q => k.seq <= arc'[q].seq /\ k.ms < arc'[q].ms
               /\ arc'[q].pc = "complete" => SnapKey(q, arc'[q].seq, arc'[q].ms, "file") \in objects' \/ Later(q)'
               /\ arc'[q].why = "start" => Logs(q) = {}
               /\ arc'[q].archived <= arc'[q].seq /\ \A l \in Logs(q) : l.last <= arc'[q].seq
    BY <1>3, <1>5, <1>6, <1>8, <1>9, <2>1 DEF UploadInv, Later
  <2>. QED  BY <1>8, <1>9, <2>1 DEF UploadInv
<1>15. \A l \in Logs(t) : /\ l.first \in Nat /\ l.last \in Nat /\ l.first <= l.last /\ l.last <= Len(alog[t])
                          /\ l.last <= a \/ (l.first = a + 1 /\ l.last <= a + LogBatch)
  <2>1. \A l \in Logs(t) : l \in objects /\ l \in LogObject /\ l.term = t /\ l.k = "log"
    BY DEF ArcShape, Logs, SnapObject, LogObject
  <2>2. \A l \in Logs(t) : Written(l)
    BY <2>1 DEF ArcBounds
  <2>3. \A l \in Logs(t) : \/ l.last <= arc[t].archived
                           \/ l.first = arc[t].archived + 1 /\ l.last <= arc[t].archived + LogBatch
    BY <1>9 DEF BatchInv
  <2>4. \A l \in LogObject : l.first \in Nat /\ l.last \in Nat
    BY DEF LogObject
  <2>5. \A l \in Logs(t) : l.first <= l.last /\ l.last <= Len(alog[t])
    BY <2>1, <2>2 DEF Written
  <2>6. \A l \in Logs(t) : l.last <= a \/ (l.first = a + 1 /\ l.last <= a + LogBatch)
    BY <1>a, <2>3
  <2>. QED  BY <2>1, <2>4, <2>5, <2>6
<1>16. BatchInv'
  <2>1. ASSUME NEW l \in Logs(t)', NEW n \in Logs(t)', l.first < n.first PROVE l.last < n.first
    <3>1. CASE l \in Logs(t) /\ n \in Logs(t)
      BY <2>1, <3>1 DEF BatchInv
    <3>2. CASE l = m /\ n \in Logs(t)
      BY <1>0, <1>1, <1>2, <1>15, <2>1, <3>2
    <3>3. CASE l \in Logs(t) /\ n = m
      BY <1>0, <1>1, <1>2, <1>15, <2>1, <3>3
    <3>4. CASE l = m /\ n = m
      BY <1>0, <1>1, <1>2, <2>1, <3>4
    <3>. QED  BY <1>8, <3>1, <3>2, <3>3, <3>4
  <2>2. ASSUME NEW l \in Logs(t)'
        PROVE  \/ l.last <= arc'[t].archived
               \/ l.first = arc'[t].archived + 1 /\ l.last <= arc'[t].archived + LogBatch
    <3>1. CASE l = m
      BY <1>0, <1>1, <1>2, <1>5, <3>1
    <3>2. CASE l \in Logs(t)
      BY <1>0, <1>1, <1>5, <1>15, <3>2
    <3>. QED  BY <1>8, <3>1, <3>2
  <2>. QED  BY <1>5, <1>8, <1>9, <2>1, <2>2 DEF BatchInv
<1>17. ChainInv'
  <2>1. ASSUME NEW q \in ArcTerms \ {t}, Logs(q)' # {} \/ Running(q)'
        PROVE  \E c \in Complete' : c.term > q \/ (c.term = q /\ Chained(q, c)')
    <3>1. PICK c \in Complete : c.term > q \/ (c.term = q /\ Chained(q, c))
      BY <1>8, <1>9, <2>1 DEF ChainInv
    <3>2. Chained(q, c)' = Chained(q, c)
      BY <1>5, <1>8, <1>9 DEF Chained, Reached, InLog
    <3>. QED  BY <1>8, <3>1, <3>2
  <2>2. \E c \in Complete' : c.term > t \/ (c.term = t /\ Chained(t, c)')
    <3>1. PICK c \in Complete : c.term > t \/ (c.term = t /\ Chained(t, c))
      BY <1>9 DEF ChainInv
    <3>2. ASSUME Chained(t, c), NEW n \in Nat, n > c.seq, Reached(t, n)' PROVE InLog(t, n)'
      <4>1. CASE Reached(t, n)
        <5>1. InLog(t, n)
          BY <3>2, <4>1 DEF Chained
        <5>. QED  BY <1>8, <5>1 DEF InLog
      <4>2. CASE ~Reached(t, n)
        <5>1. ~(n <= a) /\ n <= e
          BY <1>0, <1>1, <1>2, <1>5, <1>8, <1>9, <3>2, <4>2, <1>a DEF Reached
        <5>. QED  BY <1>0, <1>1, <1>2, <1>8, <5>1 DEF InLog
      <4>. QED  BY <4>1, <4>2
    <3>3. Chained(t, c) => Chained(t, c)'
      BY <3>2 DEF Chained
    <3>. QED  BY <1>8, <3>1, <3>3
  <2>. QED  BY <2>1, <2>2 DEF ChainInv
<1>. QED  BY <1>7, <1>10, <1>11, <1>12, <1>13, <1>14, <1>16, <1>17

\* A put of an upload, reported as done or as failed: X is what landed of it.
LEMMA PutKeeps ==
    ASSUME ArcInv, NEW t \in ArcTerms, Uploads(t), UNCHANGED <<alog, aterm, ams>>, arcFaults' \in Nat,
           NEW u, u = SnapKey(t, arc[t].seq, arc[t].ms, "COMPLETE"),
           NEW f, f = SnapKey(t, arc[t].seq, arc[t].ms, "file"),
           NEW X \in {{}, {f}, {u}}, objects' = objects \cup X, u \in X => arc[t].pc = "complete",
           arc' \in [ArcTerms -> ArcRecord], \A q \in ArcTerms \ {t} : arc'[q] = arc[q],
           arc'[t].kept = arc[t].kept, arc'[t].seq = arc[t].seq, arc'[t].ms = arc[t].ms,
           arc'[t].why = arc[t].why, arc'[t].pc \in {"complete", "off", "idle", "list"},
           arc'[t].pc = "complete" => f \in X /\ arc'[t].archived = arc[t].archived,
           arc'[t].pc = "off" => arc[t].why = "start" /\ arc'[t].archived = arc[t].archived,
           arc'[t].pc \in {"idle", "list"} =>
              \/ arc[t].why # "start" /\ arc'[t].archived = arc[t].archived
              \/ u \in X /\ arc'[t].archived = arc[t].seq
    PROVE  ArcInv'
<1>. USE DEF ArcInv
<1>0. /\ arc[t] \in ArcRecord /\ arc[t].seq \in Nat /\ arc[t].ms \in Nat /\ arc[t].archived \in Nat
      /\ aterm \in Nat /\ t \in Nat /\ Len(alog[t]) \in Nat /\ ams \in Nat
  BY DEF ArcShape, ArcRecord, ArcTerms
<1>1. /\ u \in SnapObject /\ u.k = "snap" /\ u.part = "COMPLETE" /\ u.term = t /\ u.seq = arc[t].seq
      /\ u.ms = arc[t].ms
      /\ f \in SnapObject /\ f.k = "snap" /\ f.part = "file" /\ f.term = t /\ f.seq = arc[t].seq
      /\ f.ms = arc[t].ms
  BY <1>0 DEF SnapKey, SnapObject
<1>2. u # f /\ FileOf(u) = f
  BY <1>1 DEF FileOf
<1>3. ArcShape'
  BY <1>1 DEF ArcShape
<1>4. /\ Complete \subseteq Complete' /\ Complete' \subseteq Complete \cup {u}
      /\ u \in X => u \in Complete'
      /\ u \notin X => Complete' = Complete
      /\ \A q \in ArcTerms : Logs(q)' = Logs(q)
  <2>1. /\ Marked(objects) \subseteq Marked(objects') /\ Marked(objects') \subseteq Marked(objects) \cup {u}
        /\ u \in X => u \in Marked(objects')
        /\ u \notin X => Marked(objects') = Marked(objects)
    BY <1>1, <1>2 DEF Marked
  <2>2. \A q \in ArcTerms : LogsIn(objects', q) = LogsIn(objects, q)
    BY <1>1 DEF LogsIn
  <2>. QED  BY <1>3, <2>1, <2>2, CompleteIs, CompleteIsNext DEF ArcShape
<1>5. \A q : Later(q) => Later(q)'
  BY <1>4 DEF Later
<1>6. /\ \A q \in ArcTerms \ {t} : Uploads(q)' = Uploads(q) /\ Running(q)' = Running(q)
      /\ Uploads(t)' <=> arc'[t].pc = "complete"
      /\ Running(t)' => \/ arc'[t].archived = arc[t].seq /\ u \in X
                        \/ arc'[t].archived = arc[t].archived /\ Running(t)
      /\ ~Running(t)' => ~Running(t) /\ arc'[t].archived = arc[t].archived
  BY <1>2 DEF Uploads, Running
<1>7. \A q \in ArcTerms : arc'[q].kept = arc[q].kept
  OBVIOUS
<1>8. /\ t <= aterm /\ Taken(u) /\ Taken(f)
  BY <1>0, <1>1 DEF Taken, ArcBounds, Uploads
<1>9. ArcBounds'
  <2>1. \A s : Taken(s)' = Taken(s) /\ Written(s)' = Written(s)
    BY DEF Taken, Written
  <2>2. \A q \in ArcTerms \ {t} : /\ aterm' < q => arc'[q].pc = "off"
                                  /\ arc'[q].archived <= Len(alog'[q])
                                  /\ ~Running(q)' => arc'[q].archived = 0
                                  /\ Uploads(q)' => arc'[q].seq <= Len(alog'[q]) /\ arc'[q].ms < ams'
    BY <1>6 DEF ArcBounds
  <2>3. /\ ~(aterm' < t) /\ arc[t].seq <= Len(alog[t]) /\ arc[t].ms < ams
    BY <1>0, <1>8 DEF ArcBounds
  <2>4. /\ arc'[t].archived <= Len(alog'[t])
        /\ ~Running(t)' => arc'[t].archived = 0
    BY <1>6, <2>3 DEF ArcBounds
  <2>5. \A o \in objects' : IF o.k = "snap" THEN Taken(o)' ELSE Written(o)'
    BY <1>1, <1>8, <2>1 DEF ArcBounds
  <2>6. \A r \in ArcTerms : \A k \in arc'[r].kept : Taken(k)' /\ k.part = "COMPLETE"
    BY <1>7, <2>1 DEF ArcBounds
  <2>. QED  BY <2>2, <2>3, <2>4, <2>5, <2>6 DEF ArcBounds
<1>10. KeptInv'
  <2>1. arc'[t].pc \notin {"doom", "delete"}
    OBVIOUS
  <2>. QED  BY <1>4, <1>7, <2>1 DEF KeptInv
<1>11. DoomInv'
  <2>1. ASSUME NEW r \in ArcTerms, arc'[r].pc = "delete", NEW o \in arc'[r].doomed
        PROVE  /\ DoomedBy(o, arc'[r].kept)
               /\ o.k = "snap" /\ o.part = "file" /\ MarkOf(o) \in objects' =>
                    MarkOf(o) \in arc'[r].doomed \/ o.term < OldestTerm(arc'[r].kept)
    <3>1. r # t /\ arc'[r] = arc[r]
      BY <2>1
    <3>2. DoomedBy(o, arc[r].kept)
      BY <2>1, <3>1 DEF DoomInv
    <3>3. ASSUME o.k = "snap", MarkOf(o) = u PROVE o.term < OldestTerm(arc[r].kept)
      <4>1. o.term = t /\ o.seq = arc[t].seq /\ o.ms = arc[t].ms
        BY <1>1, <3>3 DEF MarkOf, SnapKey
      <4>2. SUFFICES ASSUME ~(o.term < OldestTerm(arc[r].kept)) PROVE FALSE
        OBVIOUS
      <4>3. /\ \E s \in arc[r].kept : s.term = t
            /\ Newer(Floor(arc[r].kept, t), o)
        BY <3>2, <3>3, <4>1, <4>2 DEF DoomedBy
      <4>4. arc[r].kept \in SUBSET SnapObject
        BY DEF ArcShape, ArcRecord
      <4>5. PICK k : k = Floor(arc[r].kept, t)
        OBVIOUS
      <4>6. k \in arc[r].kept /\ k.term = t
        BY <4>3, <4>4, <4>5, FloorIs
      <4>7. k.seq <= arc[t].seq /\ k.ms < arc[t].ms
        BY <4>6 DEF UploadInv
      <4>8. k.seq \in Nat /\ k.ms \in Nat
        BY <4>4, <4>6 DEF SnapObject
      <4>. QED  BY <1>0, <4>1, <4>3, <4>5, <4>6, <4>7, <4>8 DEF Newer
    <3>4. ASSUME o.k = "snap", o.part = "file", MarkOf(o) \in objects'
          PROVE  MarkOf(o) \in arc'[r].doomed \/ o.term < OldestTerm(arc'[r].kept)
      <4>1. CASE MarkOf(o) = u
        BY <3>1, <3>3, <3>4, <4>1
      <4>2. CASE MarkOf(o) \in objects
        BY <2>1, <3>1, <3>4, <4>2 DEF DoomInv
      <4>3. MarkOf(o) # f
        BY <1>1 DEF MarkOf, SnapKey
      <4>. QED  BY <3>4, <4>1, <4>2, <4>3
    <3>. QED  BY <3>1, <3>2, <3>4
  <2>. QED  BY <2>1 DEF DoomInv
<1>12. FileInv'
  <2>1. u \in X => f \in objects' \/ Later(t)
    BY DEF UploadInv
  <2>2. u \in X => FileOf(u) \in objects' \/ Later(u.term)'
    BY <1>1, <1>2, <1>5, <2>1
  <2>3. \A c \in Complete : FileOf(c) \in objects' \/ Later(c.term)'
    BY <1>5 DEF FileInv
  <2>. QED  BY <1>4, <2>2, <2>3 DEF FileInv
<1>13. UploadInv'
  <2>1. ASSUME NEW q \in ArcTerms, Uploads(q)'
        PROVE  /\ Uploads(q) /\ arc'[q].seq = arc[q].seq /\ arc'[q].ms = arc[q].ms /\ arc'[q].why = arc[q].why
               /\ arc'[q].archived = arc[q].archived
               /\ \A c \in Complete' : c \in Complete \/ c.term # q
    BY <1>1, <1>2, <1>4, <1>6, <2>1
  <2>2. ASSUME NEW q \in ArcTerms, Uploads(q)', arc'[q].pc = "complete"
        PROVE  SnapKey(q, arc'[q].seq, arc'[q].ms, "file") \in objects' \/ Later(q)'
    <3>1. CASE q = t
      BY <2>2, <3>1
    <3>2. CASE q # t
      BY <1>5, <1>6, <2>2, <3>2 DEF UploadInv
    <3>. QED  BY <3>1, <3>2
  <2>3. ASSUME NEW q \in ArcTerms, Uploads(q)'
        PROVE  /\ \A c \in Complete' : c.term = q => c.seq <= arc'[q].seq /\ c.ms < arc'[q].ms
               /\ \A r \in ArcTerms : \A k \in arc'[r].kept :
                     k.term = q => k.seq <= arc'[q].seq /\ k.ms < arc'[q].ms
               /\ arc'[q].why = "start" => Logs(q) = {}
               /\ arc'[q].archived <= arc'[q].seq /\ \A l \in Logs(q) : l.last <= arc'[q].seq
    BY <1>7, <2>1, <2>3 DEF UploadInv
  <2>. QED  BY <1>4, <2>2, <2>3 DEF UploadInv
<1>14. BatchInv'
  <2>1. \A q \in ArcTerms \ {t} : Running(q)' => \A l \in Logs(q) :
              \/ l.last <= arc'[q].archived
              \/ l.first = arc'[q].archived + 1 /\ l.last <= arc'[q].archived + LogBatch
    BY <1>6 DEF BatchInv
  <2>2. Running(t)' => \A l \in Logs(t) :
              \/ l.last <= arc'[t].archived
              \/ l.first = arc'[t].archived + 1 /\ l.last <= arc'[t].archived + LogBatch
    <3>1. CASE arc'[t].archived = arc[t].archived /\ Running(t)
      BY <3>1 DEF BatchInv
    <3>2. CASE arc'[t].archived = arc[t].seq
      BY <3>2 DEF UploadInv
    <3>. QED  BY <1>6, <3>1, <3>2
  <2>. QED  BY <1>4, <2>1, <2>2 DEF BatchInv
<1>15. ChainInv'
  <2>1. ASSUME NEW q \in ArcTerms, Running(q)' => Running(q) /\ arc'[q].archived = arc[q].archived,
               Logs(q)' # {} \/ Running(q)'
        PROVE  \E c \in Complete' : c.term > q \/ (c.term = q /\ Chained(q, c)')
    <3>1. PICK c \in Complete : c.term > q \/ (c.term = q /\ Chained(q, c))
      BY <1>4, <2>1 DEF ChainInv
    <3>2. \A n \in Nat : (Reached(q, n)' => Reached(q, n)) /\ InLog(q, n)' = InLog(q, n)
      BY <1>4, <2>1 DEF Reached, InLog
    <3>3. Chained(q, c) => Chained(q, c)'
      BY <3>2 DEF Chained
    <3>. QED  BY <1>4, <3>1, <3>3
  <2>2. ASSUME Running(t)', arc'[t].archived = arc[t].seq, u \in X
        PROVE  \E c \in Complete' : c.term > t \/ (c.term = t /\ Chained(t, c)')
    <3>1. \A l \in Logs(t) : l.last <= arc[t].seq /\ l.last \in Nat
      BY DEF UploadInv, Logs, ArcShape, LogObject, SnapObject
    <3>2. \A n \in Nat : n > u.seq => ~Reached(t, n)'
      BY <1>0, <1>1, <1>4, <2>2, <3>1 DEF Reached
    <3>3. Chained(t, u)'
      BY <3>2 DEF Chained
    <3>. QED  BY <1>1, <1>4, <2>2, <3>3
  <2>. QED  BY <1>6, <2>1, <2>2 DEF ChainInv
<1>. QED  BY <1>3, <1>9, <1>10, <1>11, <1>12, <1>13, <1>14, <1>15

LEMMA PutsKeep ==
    ASSUME ArcInv, NEW t \in ArcTerms, ArcPutFile(t) \/ ArcPutComplete(t) \/ ArcPutFails(t)
    PROVE  ArcInv'
<1>. USE DEF ArcInv
<1>u. PICK u : u = SnapKey(t, arc[t].seq, arc[t].ms, "COMPLETE")
  OBVIOUS
<1>f. PICK f : f = SnapKey(t, arc[t].seq, arc[t].ms, "file")
  OBVIOUS
<1>0. /\ arc \in [ArcTerms -> ArcRecord] /\ arc[t] \in ArcRecord /\ arcFaults \in Nat
  BY DEF ArcShape
<1>1. UploadOrder[1] = "file" /\ UploadOrder[2] = "COMPLETE"
  BY DEF UploadOrder
<1>2. CASE ArcPutFile(t)
  <2>1. /\ arc[t].pc = "file" /\ UNCHANGED <<alog, aterm, ams>> /\ arcFaults' \in Nat
        /\ objects' = objects \cup {f}
    BY <1>0, <1>1, <1>2, <1>f DEF ArcPutFile
  <2>2. /\ arc' \in [ArcTerms -> ArcRecord] /\ \A q \in ArcTerms \ {t} : arc'[q] = arc[q]
        /\ arc'[t].kept = arc[t].kept /\ arc'[t].seq = arc[t].seq /\ arc'[t].ms = arc[t].ms
        /\ arc'[t].why = arc[t].why /\ arc'[t].pc = "complete" /\ arc'[t].archived = arc[t].archived
    BY <1>0, <1>2 DEF ArcPutFile, ArcRecord
  <2>3. u # f
    BY <1>u, <1>f DEF SnapKey
  <2>. QED  BY <1>u, <1>f, <2>1, <2>2, <2>3, PutKeeps DEF Uploads
<1>3. CASE ArcPutComplete(t)
  <2>1. /\ arc[t].pc = "complete" /\ UNCHANGED <<alog, aterm, ams>> /\ arcFaults' \in Nat
        /\ objects' = objects \cup {u}
    BY <1>0, <1>1, <1>3, <1>u DEF ArcPutComplete
  <2>2. CASE arc[t].why = "periodic"
    <3>1. /\ arc' \in [ArcTerms -> ArcRecord] /\ \A q \in ArcTerms \ {t} : arc'[q] = arc[q]
          /\ arc'[t].kept = arc[t].kept /\ arc'[t].seq = arc[t].seq /\ arc'[t].ms = arc[t].ms
          /\ arc'[t].why = arc[t].why /\ arc'[t].pc = "list" /\ arc'[t].archived = arc[t].archived
      BY <1>0, <1>3, <2>2 DEF ArcPutComplete, ArcRecord
    <3>. QED  BY <1>u, <1>f, <2>1, <2>2, <3>1, PutKeeps DEF Uploads
  <2>3. CASE arc[t].why # "periodic"
    <3>1. /\ arc' \in [ArcTerms -> ArcRecord] /\ \A q \in ArcTerms \ {t} : arc'[q] = arc[q]
          /\ arc'[t].kept = arc[t].kept /\ arc'[t].seq = arc[t].seq /\ arc'[t].ms = arc[t].ms
          /\ arc'[t].why = arc[t].why /\ arc'[t].pc = "idle" /\ arc'[t].archived = arc[t].seq
      BY <1>0, <1>3, <2>3 DEF ArcPutComplete, ArcRecord
    <3>. QED  BY <1>u, <1>f, <2>1, <3>1, PutKeeps DEF Uploads
  <2>. QED  BY <2>2, <2>3
<1>4. CASE ArcPutFails(t)
  <2>1. PICK p : p = CASE arc[t].why = "start" -> "off"
                       [] arc[t].why = "gap" -> "idle"
                       [] arc[t].why = "periodic" -> "list"
    OBVIOUS
  <2>2. /\ p \in {"off", "idle", "list"} /\ (p = "off" <=> arc[t].why = "start")
    BY <1>0, <2>1 DEF ArcRecord
  <2>3. /\ Uploads(t) /\ UNCHANGED <<alog, aterm, ams>> /\ arcFaults' \in Nat
        /\ arc' = [arc EXCEPT ![t].pc = p]
    BY <1>0, <1>4, <2>1 DEF ArcPutFails, Fault, Uploads
  <2>4. /\ arc' \in [ArcTerms -> ArcRecord] /\ \A q \in ArcTerms \ {t} : arc'[q] = arc[q]
        /\ arc'[t].kept = arc[t].kept /\ arc'[t].seq = arc[t].seq /\ arc'[t].ms = arc[t].ms
        /\ arc'[t].why = arc[t].why /\ arc'[t].pc = p /\ arc'[t].archived = arc[t].archived
    BY <1>0, <2>2, <2>3 DEF ArcRecord
  <2>5. PICK X \in {{}, {f}, {u}} : objects' = objects \cup X /\ (u \in X => arc[t].pc = "complete")
    <3>1. u # f
      BY <1>u, <1>f DEF SnapKey
    <3>2. CASE objects' = objects
      BY <3>2
    <3>3. CASE objects' # objects /\ arc[t].pc = "file"
      <4>1. objects' = objects \cup {f}
        BY <1>1, <1>4, <1>f, <3>3 DEF ArcPutFails
      <4>. QED  BY <3>1, <4>1
    <3>4. CASE objects' # objects /\ arc[t].pc = "complete"
      <4>1. objects' = objects \cup {u}
        BY <1>1, <1>4, <1>u, <3>4 DEF ArcPutFails
      <4>. QED  BY <3>4, <4>1
    <3>. QED  BY <2>3, <3>2, <3>3, <3>4 DEF Uploads
  <2>. QED  BY <1>u, <1>f, <2>2, <2>3, <2>4, <2>5, PutKeeps
<1>. QED  BY <1>2, <1>3, <1>4

\* A doomed snapshot is older than one that is complete; and of a term below those of
\* the kept ones there is a complete snapshot of a later term.
LEMMA DoomedOlder ==
    ASSUME ArcInv, NEW r \in ArcTerms, arc[r].pc = "delete", NEW o \in arc[r].doomed
    PROVE  /\ o.k = "snap" => \E c \in Complete : Newer(c, o)
           /\ o.term < OldestTerm(arc[r].kept) => Later(o.term)
           /\ o.k = "log" => \E c \in Complete : \/ c.term > o.term
                                                 \/ c.term = o.term /\ c.seq >= o.last
<1>. USE DEF ArcInv
<1>1. PICK K : K = arc[r].kept
  OBVIOUS
<1>2. K \in SUBSET SnapObject /\ K # {} /\ o \in SnapObject \cup LogObject
  BY <1>1 DEF ArcShape, ArcRecord, KeptInv
<1>3. DoomedBy(o, K)
  BY <1>1 DEF DoomInv
<1>4. \A c \in Complete : c \in SnapObject
  BY CompleteIs DEF ArcShape, Marked, SnapObject, LogObject
<1>5. \A k \in K : \E c \in Complete : c = k \/ Newer(c, k)
  BY <1>1 DEF KeptInv
<1>6. o.term \in ArcTerms /\ o.term \in Nat /\ \A s \in SnapObject : s.term \in Nat /\ s.seq \in Nat /\ s.ms \in Nat
  BY <1>2 DEF SnapObject, LogObject, ArcTerms
<1>7. CASE o.term < OldestTerm(K)
  <2>1. PICK k \in K : k.term = OldestTerm(K)
    BY <1>2, OldestIs
  <2>2. PICK c \in Complete : c = k \/ Newer(c, k)
    BY <1>5
  <2>3. c.term > o.term
    BY <1>2, <1>4, <1>6, <1>7, <2>1, <2>2 DEF Newer
  <2>4. Newer(c, o)
    BY <2>3 DEF Newer
  <2>. QED  BY <2>3, <2>4 DEF Later
<1>8. CASE ~(o.term < OldestTerm(K))
  <2>1. \E s \in K : s.term = o.term
    BY <1>3, <1>8 DEF DoomedBy
  <2>2. PICK k : k = Floor(K, o.term)
    OBVIOUS
  <2>3. k \in K /\ k.term = o.term
    BY <1>2, <1>6, <2>1, <2>2, FloorIs
  <2>4. PICK c \in Complete : c = k \/ Newer(c, k)
    BY <1>5, <2>3
  <2>5. k \in SnapObject /\ c \in SnapObject
    BY <1>2, <1>4, <2>3
  <2>6. o.k = "snap" => Newer(k, o) /\ o \in SnapObject
    BY <1>2, <1>3, <1>8, <2>2 DEF DoomedBy, LogObject
  <2>7. o.k = "log" => o.last <= k.seq /\ o.last \in Nat
    BY <1>2, <1>3, <1>8, <2>2 DEF DoomedBy, LogDoomed, LogObject, SnapObject
  <2>8. ASSUME o.k = "snap" PROVE Newer(c, o)
    <3>1. Newer(k, o) /\ o \in SnapObject
      BY <2>6, <2>8
    <3>. QED  BY <1>6, <2>4, <2>5, <3>1 DEF Newer
  <2>9. ASSUME o.k = "log" PROVE \/ c.term > o.term
                                 \/ c.term = o.term /\ c.seq >= o.last
    BY <1>6, <2>3, <2>4, <2>5, <2>7, <2>9 DEF Newer
  <2>10. OldestTerm(K) \in Nat
    BY <1>2, OldestIs DEF ArcTerms
  <2>. QED  BY <1>1, <1>8, <2>8, <2>9
<1>. QED  BY <1>1, <1>7, <1>8

\* A snapshot's marker is listed before its file.
LEMMA MarkFirst ==
    ASSUME NEW o \in SnapObject, o.part = "file", NEW S, MarkOf(o) \in S
    PROVE  ~IsFirst(o, S)
<1>1. PICK m : m = MarkOf(o)
  OBVIOUS
<1>2. m.k = "snap" /\ m.term = o.term /\ m.seq = o.seq /\ m.ms = o.ms /\ m.part = "COMPLETE" /\ m # o
  BY <1>1 DEF MarkOf, SnapKey
<1>3. o.k = "snap" /\ o.term \in Nat /\ o.seq \in Nat /\ o.ms \in Nat
  BY DEF SnapObject, ArcTerms
<1>4. /\ KeyRank(o) = <<o.term, 1, o.seq, o.ms, 1, 0>>
      /\ KeyRank(m) = <<o.term, 1, o.seq, o.ms, 0, 0>>
  BY <1>2, <1>3 DEF KeyRank
<1>5. ~LexLess(KeyRank(o), KeyRank(m))
  BY <1>3, <1>4 DEF LexLess
<1>. QED  BY <1>1, <1>2, <1>5 DEF IsFirst

\* One delete of a prune.
LEMMA DeleteKeeps ==
    ASSUME ArcInv, NEW r \in ArcTerms, arc[r].pc = "delete", NEW o \in arc[r].doomed,
           IsFirst(o, arc[r].doomed), objects' = objects \ {o},
           arc' = [arc EXCEPT ![r].doomed = @ \ {o}], UNCHANGED <<alog, aterm, ams, arcFaults>>
    PROVE  ArcInv'
<1>. USE DEF ArcInv
<1>0. /\ arc \in [ArcTerms -> ArcRecord] /\ arc[r] \in ArcRecord /\ o \in SnapObject \cup LogObject
  BY DEF ArcShape, ArcRecord
<1>1. /\ \A q \in ArcTerms : /\ arc'[q].pc = arc[q].pc /\ arc'[q].why = arc[q].why
                             /\ arc'[q].kept = arc[q].kept /\ arc'[q].archived = arc[q].archived
                             /\ arc'[q].seq = arc[q].seq /\ arc'[q].ms = arc[q].ms
      /\ \A q \in ArcTerms \ {r} : arc'[q].doomed = arc[q].doomed
      /\ arc'[r].doomed = arc[r].doomed \ {o}
      /\ arc' \in [ArcTerms -> ArcRecord]
  BY <1>0 DEF ArcRecord
<1>2. ArcShape'
  BY <1>1 DEF ArcShape
<1>3. /\ Complete' = Complete \ {o} /\ \A q \in ArcTerms : Logs(q)' = Logs(q) \ {o}
  <2>1. Marked(objects') = Marked(objects) \ {o}
    BY DEF Marked
  <2>2. \A q \in ArcTerms : LogsIn(objects', q) = LogsIn(objects, q) \ {o}
    BY DEF LogsIn
  <2>. QED  BY <1>2, <2>1, <2>2, CompleteIs, CompleteIsNext DEF ArcShape
<1>4. \A q \in ArcTerms : Uploads(q)' = Uploads(q) /\ Running(q)' = Running(q)
  BY <1>1 DEF Uploads, Running
<1>5. \A c \in Complete : c \in SnapObject /\ c.k = "snap" /\ c.part = "COMPLETE" /\ c \in objects
  BY CompleteIs DEF ArcShape, Marked, SnapObject, LogObject
<1>6. \A s \in SnapObject : s.term \in Nat /\ s.seq \in Nat /\ s.ms \in Nat
  BY DEF SnapObject, ArcTerms
\* What replaces a snapshot that is gone.
<1>7. ASSUME NEW c \in Complete
      PROVE  \E d \in Complete' : \/ d = c
                                  \/ Newer(d, c) /\ d.term >= c.term /\ (d.term = c.term => d.seq >= c.seq)
  <2>1. CASE c # o
    BY <1>3, <2>1
  <2>2. CASE c = o
    <3>1. PICK d \in Complete : Newer(d, o)
      BY <1>5, <2>2, DoomedOlder
    <3>2. d # o
      BY <1>5, <1>6, <2>2, <3>1 DEF Newer
    <3>3. d.term >= c.term /\ (d.term = c.term => d.seq >= c.seq)
      BY <1>5, <1>6, <2>2, <3>1 DEF Newer
    <3>. QED  BY <1>3, <2>2, <3>1, <3>2, <3>3
  <2>. QED  BY <2>1, <2>2
<1>8. \A q \in ArcTerms : Later(q) => Later(q)'
  <2>1. SUFFICES ASSUME NEW q \in ArcTerms, NEW c \in Complete, c.term > q PROVE Later(q)'
    BY DEF Later
  <2>2. PICK d \in Complete' : d = c \/ d.term >= c.term
    BY <1>7
  <2>3. d.term > q
    BY <1>3, <1>5, <1>6, <2>1, <2>2 DEF ArcTerms
  <2>. QED  BY <2>3 DEF Later
<1>9. ArcBounds'
  <2>1. \A s : Taken(s)' = Taken(s) /\ Written(s)' = Written(s)
    BY DEF Taken, Written
  <2>2. \A q \in ArcTerms : /\ aterm' < q => arc'[q].pc = "off"
                            /\ arc'[q].archived <= Len(alog'[q])
                            /\ ~Running(q)' => arc'[q].archived = 0
                            /\ Uploads(q)' => arc'[q].seq <= Len(alog'[q]) /\ arc'[q].ms < ams'
    BY <1>1, <1>4 DEF ArcBounds
  <2>3. \A p \in objects' : IF p.k = "snap" THEN Taken(p)' ELSE Written(p)'
    BY <2>1 DEF ArcBounds
  <2>4. \A q \in ArcTerms : \A k \in arc'[q].kept : Taken(k)' /\ k.part = "COMPLETE"
    BY <1>1, <2>1 DEF ArcBounds
  <2>. QED  BY <2>2, <2>3, <2>4 DEF ArcBounds
<1>10. KeptInv'
  <2>1. ASSUME NEW q \in ArcTerms, NEW k \in arc[q].kept PROVE \E d \in Complete' : d = k \/ Newer(d, k)
    <3>1. PICK c \in Complete : c = k \/ Newer(c, k)
      BY DEF KeptInv
    <3>2. PICK d \in Complete' : d = c \/ Newer(d, c)
      BY <1>7
    <3>3. k \in SnapObject /\ c \in SnapObject /\ d \in SnapObject
      BY <1>3, <1>5 DEF ArcShape, ArcRecord
    <3>4. d = k \/ Newer(d, k)
      BY <3>1, <3>2, <3>3, NewerThan
    <3>. QED  BY <3>4
  <2>. QED  BY <1>1, <2>1 DEF KeptInv
<1>11. DoomInv'
  <2>1. ASSUME NEW q \in ArcTerms, arc[q].pc = "delete", NEW p \in arc'[q].doomed
        PROVE  /\ DoomedBy(p, arc[q].kept)
               /\ p.k = "snap" /\ p.part = "file" /\ MarkOf(p) \in objects' =>
                    MarkOf(p) \in arc'[q].doomed \/ p.term < OldestTerm(arc[q].kept)
    <3>1. p \in arc[q].doomed /\ (arc[q].doomed \ {o}) \subseteq arc'[q].doomed
      BY <1>1
    <3>. QED  BY <2>1, <3>1 DEF DoomInv
  <2>. QED  BY <1>1, <2>1 DEF DoomInv
<1>12. FileInv'
  <2>1. SUFFICES ASSUME NEW c \in Complete', FileOf(c) \notin objects' PROVE Later(c.term)'
    BY DEF FileInv
  <2>2. c \in Complete /\ c.term \in ArcTerms /\ c \in SnapObject /\ c.part = "COMPLETE" /\ c \in objects
    BY <1>3, <1>5 DEF SnapObject
  <2>3. CASE FileOf(c) # o
    BY <1>8, <2>1, <2>2, <2>3 DEF FileInv
  <2>4. CASE FileOf(c) = o
    <3>1. o.k = "snap" /\ o.part = "file" /\ o.term = c.term /\ o.seq = c.seq /\ o.ms = c.ms
      BY <2>4 DEF FileOf, SnapKey
    <3>2. o \in SnapObject
      BY <1>0, <3>1 DEF LogObject
    <3>3. MarkOf(o) = c
      BY <2>2, <3>1 DEF MarkOf, SnapKey, SnapObject
    <3>4. MarkOf(o) \notin arc[r].doomed
      BY <3>1, <3>2, MarkFirst
    <3>5. o.term < OldestTerm(arc[r].kept)
      BY <2>2, <3>1, <3>3, <3>4 DEF DoomInv
    <3>6. Later(o.term)
      BY <3>5, DoomedOlder
    <3>. QED  BY <1>8, <2>2, <3>1, <3>6
  <2>. QED  BY <2>3, <2>4
<1>13. UploadInv'
  <2>1. ASSUME NEW q \in ArcTerms, Uploads(q), arc[q].pc = "complete"
        PROVE  SnapKey(q, arc[q].seq, arc[q].ms, "file") \in objects' \/ Later(q)'
    <3>1. PICK f : f = SnapKey(q, arc[q].seq, arc[q].ms, "file")
      OBVIOUS
    <3>2. f \in objects \/ Later(q)
      BY <2>1, <3>1 DEF UploadInv
    <3>3. ASSUME f = o PROVE Later(q)
      <4>1. o.k = "snap" /\ o.term = q /\ o.seq = arc[q].seq /\ o.ms = arc[q].ms
        BY <3>1, <3>3 DEF SnapKey
      <4>2. DoomedBy(o, arc[r].kept)
        BY DEF DoomInv
      <4>3. CASE o.term < OldestTerm(arc[r].kept)
        BY <4>1, <4>3, DoomedOlder
      <4>4. CASE ~(o.term < OldestTerm(arc[r].kept))
        <5>1. (\E s \in arc[r].kept : s.term = q) /\ Newer(Floor(arc[r].kept, q), o)
          BY <4>1, <4>2, <4>4 DEF DoomedBy
        <5>2. arc[r].kept \in SUBSET SnapObject
          BY DEF ArcShape, ArcRecord
        <5>3. PICK k : k = Floor(arc[r].kept, q)
          OBVIOUS
        <5>4. k \in arc[r].kept /\ k.term = q
          BY <5>1, <5>2, <5>3, FloorIs
        <5>5. k.seq <= arc[q].seq /\ k.ms < arc[q].ms
          BY <2>1, <5>4 DEF UploadInv
        <5>6. k.seq \in Nat /\ k.ms \in Nat /\ arc[q].seq \in Nat /\ arc[q].ms \in Nat /\ q \in Nat
          <6>1. k.seq \in Nat /\ k.ms \in Nat
            BY <5>2, <5>4 DEF SnapObject
          <6>2. arc[q] \in ArcRecord /\ q \in Nat
            BY DEF ArcShape, ArcTerms
          <6>3. arc[q].seq \in Nat /\ arc[q].ms \in Nat
            BY <6>2 DEF ArcRecord
          <6>. QED  BY <6>1, <6>2, <6>3
        <5>. QED  BY <4>1, <5>1, <5>3, <5>4, <5>5, <5>6 DEF Newer
      <4>. QED  BY <4>3, <4>4
    <3>. QED  BY <1>8, <3>1, <3>2, <3>3
  <2>2. ASSUME NEW q \in ArcTerms, Uploads(q)
        PROVE  /\ \A c \in Complete' : c.term = q => c.seq <= arc[q].seq /\ c.ms < arc[q].ms
               /\ \A p \in ArcTerms : \A k \in arc[p].kept :
                     k.term = q => k.seq <= arc[q].seq /\ k.ms < arc[q].ms
               /\ arc[q].why = "start" => Logs(q)' = {}
               /\ arc[q].archived <= arc[q].seq /\ \A l \in Logs(q)' : l.last <= arc[q].seq
    BY <1>3, <2>2 DEF UploadInv
  <2>. QED  BY <1>1, <1>4, <2>1, <2>2 DEF UploadInv
<1>14. BatchInv'
  <2>1. \A q \in ArcTerms : Logs(q)' \subseteq Logs(q)
    BY <1>3
  <2>. QED  BY <1>1, <1>4, <2>1 DEF BatchInv
<1>15. ChainInv'
  <2>1. SUFFICES ASSUME NEW q \in ArcTerms, Logs(q)' # {} \/ Running(q)'
                 PROVE  \E c \in Complete' : c.term > q \/ (c.term = q /\ Chained(q, c)')
    BY DEF ChainInv
  <2>2. PICK c \in Complete : c.term > q \/ (c.term = q /\ Chained(q, c))
    BY <1>3, <1>4, <2>1 DEF ChainInv
  <2>3. PICK d \in Complete' : \/ d = c
                               \/ Newer(d, c) /\ d.term >= c.term /\ (d.term = c.term => d.seq >= c.seq)
    BY <1>7
  <2>4. /\ d \in SnapObject /\ c \in SnapObject /\ d.term \in Nat /\ c.term \in Nat /\ q \in Nat
        /\ d.seq \in Nat /\ c.seq \in Nat /\ d \in Complete
    BY <1>3, <1>5, <1>6 DEF ArcTerms
  <2>5. CASE d.term > q
    BY <2>5
  <2>6. CASE ~(d.term > q)
    <3>1. d.term = q /\ c.term = q /\ d.seq >= c.seq /\ Chained(q, c)
      BY <2>2, <2>3, <2>4, <2>6
    <3>2. Chained(q, d)
      BY <2>4, <3>1 DEF Chained
    <3>3. CASE o \notin Logs(q)
      <4>1. Logs(q)' = Logs(q)
        BY <1>3, <3>3
      <4>2. Chained(q, d)'
        BY <1>1, <1>4, <3>2, <4>1 DEF Chained, Reached, InLog
      <4>. QED  BY <3>1, <4>2
    <3>4. CASE o \in Logs(q)
      <4>1. o.k = "log" /\ o.term = q /\ o.last \in Nat
        BY <1>0, <3>4 DEF Logs, SnapObject, LogObject
      <4>2. PICK e \in Complete : e.term > q \/ (e.term = q /\ e.seq >= o.last)
        BY <4>1, DoomedOlder
      <4>3. e # o /\ e \in Complete' /\ e.seq \in Nat
        BY <1>3, <1>5, <1>6, <4>1
      <4>4. CASE e.term > q
        BY <4>3, <4>4
      <4>5. CASE e.term = q /\ e.seq >= o.last
        <5>1. PICK b \in Complete' : b.term = q /\ b.seq \in Nat /\ b.seq >= d.seq /\ b.seq >= o.last
          <6>1. CASE d.seq >= o.last
            BY <2>4, <3>1, <6>1
          <6>2. CASE ~(d.seq >= o.last)
            BY <2>4, <4>1, <4>3, <4>5, <6>2
          <6>. QED  BY <6>1, <6>2
        <5>2. ASSUME NEW n \in Nat, n > b.seq, Reached(q, n)' PROVE InLog(q, n)'
          <6>1. Reached(q, n)
            BY <1>1, <1>3, <1>4, <5>2 DEF Reached
          <6>2. n > d.seq
            BY <2>4, <5>1, <5>2
          <6>3. InLog(q, n)
            BY <3>2, <6>1, <6>2 DEF Chained
          <6>4. PICK l \in Logs(q) : l.first <= n /\ n <= l.last
            BY <6>3 DEF InLog
          <6>5. l # o
            BY <4>1, <5>1, <5>2, <6>4
          <6>. QED  BY <1>3, <6>4, <6>5 DEF InLog
        <5>3. Chained(q, b)'
          BY <5>2 DEF Chained
        <5>. QED  BY <5>1, <5>3
      <4>. QED  BY <4>2, <4>4, <4>5
    <3>. QED  BY <3>3, <3>4
  <2>. QED  BY <2>5, <2>6
<1>. QED  BY <1>2, <1>9, <1>10, <1>11, <1>12, <1>13, <1>14, <1>15

LEMMA PruneDeleteKeeps ==
    ASSUME ArcInv, NEW t \in ArcTerms, PruneDelete(t)
    PROVE  ArcInv'
<1>1. arc[t].pc = "delete" /\ UNCHANGED <<alog, aterm, ams>> /\ arcFaults \in Nat
  BY DEF PruneDelete, ArcInv, ArcShape
<1>2. ASSUME NEW o \in arc[t].doomed, IsFirst(o, arc[t].doomed), objects' = objects \ {o},
             arc' = [arc EXCEPT ![t].doomed = @ \ {o}], arcFaults' = arcFaults
      PROVE  ArcInv'
  BY <1>1, <1>2, DeleteKeeps
<1>3. ASSUME arc' = [arc EXCEPT ![t].pc = "idle", ![t].kept = {}, ![t].doomed = {}],
             objects' = objects, arcFaults' = arcFaults \/ Fault
      PROVE  ArcInv'
  <2>1. arcFaults' \in Nat
    BY <1>1, <1>3 DEF Fault
  <2>. QED  BY <1>1, <1>3, <2>1, PrunedKeeps
<1>. QED  BY <1>2, <1>3 DEF PruneDelete

LEMMA ArcStep ==
    ASSUME ArcInv, [ArcNext]_arcVars
    PROVE  ArcInv'
<1>1. CASE UNCHANGED arcVars
  <2>1. /\ alog' = alog /\ aterm' = aterm /\ objects' = objects /\ arc' = arc /\ ams' = ams
        /\ arcFaults' = arcFaults
    BY <1>1 DEF arcVars
  <2>2. Complete' = Complete /\ \A q \in ArcTerms : Logs(q)' = Logs(q)
    BY <2>1, ObjectsKept
  <2>3. \A q \in ArcTerms : Uploads(q)' = Uploads(q) /\ Running(q)' = Running(q)
    BY <2>1 DEF Uploads, Running
  <2>4. ArcShape' /\ ArcBounds'
    BY <2>1, <2>3 DEF ArcInv, ArcShape, ArcBounds, Taken, Written
  <2>5. KeptInv' /\ DoomInv' /\ FileInv'
    BY <2>1, <2>2 DEF ArcInv, KeptInv, DoomInv, FileInv, Later
  <2>6. UploadInv'
    BY <2>1, <2>2, <2>3 DEF ArcInv, UploadInv, Later
  <2>7. BatchInv'
    BY <2>1, <2>2, <2>3 DEF ArcInv, BatchInv
  <2>8. ChainInv'
    BY <2>1, <2>2, <2>3 DEF ArcInv, ChainInv, Chained, Reached, InLog
  <2>. QED  BY <2>4, <2>5, <2>6, <2>7, <2>8 DEF ArcInv
<1>2. CASE ArcTakeOver \/ ArcWrite
  BY <1>2, LeadersKeep
<1>3. ASSUME NEW t \in ArcTerms,
             \/ ArcStart(t) \/ ArcBatch(t) \/ ArcGap(t) \/ ArcPeriodic(t)
             \/ ArcPutFile(t) \/ ArcPutComplete(t) \/ ArcPutFails(t)
             \/ PruneKeep(t) \/ PruneDoom(t) \/ PruneDelete(t) \/ ArcDie(t)
      PROVE  ArcInv'
  BY <1>3, StartKeeps, BatchKeeps, SnapshotsKeep, PutsKeep, KeepKeeps, DoomKeeps, PruneDeleteKeeps,
     DieKeeps
<1>. QED  BY <1>1, <1>2, <1>3 DEF ArcNext

\* The newest timeline with a snapshot is the one the latest restore chooses.
LEMMA ArcRestorable == ArcInv => ArcTypeOK /\ LatestRestorable
<1>. SUFFICES ASSUME ArcInv PROVE ArcTypeOK /\ LatestRestorable
  OBVIOUS
<1>. USE DEF ArcInv
<1>1. ArcTypeOK
  BY DEF ArcTypeOK, ArcShape, ArcRecord
<1>u. PICK u : u = [by |-> "latest", at |-> 0]
  OBVIOUS
<1>2. u.by = "latest" /\ \A s : FitsSnap(u, s)
  BY <1>u DEF FitsSnap
<1>3. /\ \A t \in ArcTerms : Snaps(t) = {c \in Complete : c.term = t}
      /\ \A c \in Complete : /\ c \in SnapObject /\ c \in objects /\ c.part = "COMPLETE" /\ c.k = "snap"
                             /\ c.term \in ArcTerms /\ Taken(c)
  <2>1. Complete = Marked(objects) /\ \A t \in ArcTerms : Snaps(t) = {c \in Complete : c.term = t}
    BY CompleteIs DEF ArcShape
  <2>2. \A c \in Complete : c \in SnapObject /\ c \in objects /\ c.part = "COMPLETE" /\ c.k = "snap"
    BY <2>1 DEF ArcShape, Marked, SnapObject, LogObject
  <2>. QED  BY <2>1, <2>2 DEF ArcBounds, SnapObject
<1>4. /\ \A t \in ArcTerms : Len(alog[t]) \in Nat /\ arc[t].archived \in Nat
      /\ ams \in Nat
  BY DEF ArcShape, ArcRecord
<1>5. ASSUME NEW t \in ArcTerms, NEW c \in Complete, c.term = t PROVE Reaches(t, u)
  <2>1. /\ Snaps(t) \in SUBSET SnapObject /\ Snaps(t) # {}
        /\ \A s \in Snaps(t) : s.term = t /\ s.seq <= Len(alog[t]) /\ s.ms <= ams
    <3>1. \A s \in Snaps(t) : s \in SnapObject /\ s.term = t /\ s.seq <= Len(alog[t]) /\ s.ms < ams
      BY <1>3 DEF Taken
    <3>2. \A s \in SnapObject : s.ms \in Nat
      BY DEF SnapObject
    <3>3. \A s \in Snaps(t) : s.ms <= ams
      BY <1>4, <3>1, <3>2
    <3>. QED  BY <1>3, <1>5, <3>1, <3>3
  <2>2. PICK s \in Snaps(t) : \A r \in Snaps(t) : ~Newer(r, s)
    BY <1>4, <2>1, NewestIs
  <2>3. IsBase(t, u, s)
    BY <1>2, <2>2 DEF IsBase
  <2>. QED  BY <1>2, <2>3 DEF Reaches
<1>6. ASSUME NEW t \in Chosen(u), NEW s \in Snaps(t), IsBase(t, u, s)
      PROVE  /\ Succeeds(t, u, s)
             /\ arc[t].pc # "off" => arc[t].archived <= Goal(t, u, s)
  <2>1. t \in ArcTerms /\ \A r \in ArcTerms : Reaches(r, u) => r <= t
    BY DEF Chosen
  <2>2. ~Later(t)
    BY <1>3, <1>5, <2>1 DEF Later, ArcTerms
  <2>3. s \in Complete /\ s.term = t /\ s \in SnapObject /\ s.seq \in Nat
    BY <1>3, <2>1 DEF SnapObject
  <2>4. SnapKey(t, s.seq, s.ms, "file") \in objects
    BY <2>2, <2>3 DEF FileInv, FileOf
  <2>5. PICK L : L = Replayed(t, u, s)
    OBVIOUS
  <2>6. \A l : l \in L <=> l \in Logs(t) /\ l.last > s.seq
    BY <1>2, <2>5 DEF Replayed
  <2>7. \A l \in Logs(t) : /\ l \in LogObject /\ l.term = t /\ l.first \in Nat /\ l.last \in Nat
                           /\ l.first <= l.last /\ l.last <= Len(alog[t]) /\ l.ms < ams /\ l.ms \in Nat
    <3>1. \A l \in Logs(t) : l \in objects /\ l \in LogObject /\ l.term = t /\ l.k = "log"
      BY DEF ArcShape, Logs, SnapObject, LogObject
    <3>2. \A l \in LogObject : l.first \in Nat /\ l.last \in Nat /\ l.ms \in Nat
      BY DEF LogObject
    <3>3. \A l \in Logs(t) : Written(l)
      BY <3>1 DEF ArcBounds
    <3>. QED  BY <3>1, <3>2, <3>3 DEF Written
  <2>8. ASSUME NEW n \in Nat, n > s.seq, Reached(t, n)
        PROVE  \E l \in L : l.first <= n /\ n <= l.last
    <3>1. Logs(t) # {} \/ Running(t)
      BY <2>8 DEF Reached
    <3>2. PICK c \in Complete : c.term = t /\ Chained(t, c)
      BY <2>1, <2>2, <3>1 DEF ChainInv, Later
    <3>3. c \in Snaps(t) /\ c.seq \in Nat
      BY <1>3, <2>1, <3>2 DEF SnapObject
    <3>4. ~Newer(c, s)
      BY <1>2, <1>6, <3>3 DEF IsBase
    <3>5. n > c.seq
      BY <2>3, <2>8, <3>2, <3>3, <3>4 DEF Newer
    <3>6. PICK l \in Logs(t) : l.first <= n /\ n <= l.last
      BY <2>8, <3>2, <3>5 DEF Chained, InLog
    <3>7. l.last > s.seq
      BY <2>3, <2>7, <2>8, <3>6
    <3>. QED  BY <2>6, <3>6, <3>7
  <2>9. ASSUME arc[t].archived > s.seq, arc[t].pc # "off"
        PROVE  Reached(t, arc[t].archived)
    <3>1. Running(t)
      <4>1. ~Running(t) => arc[t].archived = 0
        BY <2>1 DEF ArcBounds
      <4>. QED  BY <2>3, <2>9, <4>1
    <3>2. arc[t].archived <= arc[t].archived
      BY <1>4, <2>1
    <3>. QED  BY <3>1, <3>2 DEF Reached
  <2>10. Goal(t, u, s) = Reach(t, u, s)
    BY <1>2 DEF Goal
  <2>11. CASE L = {}
    <3>1. Goal(t, u, s) = s.seq
      BY <2>5, <2>10, <2>11 DEF Reach
    <3>2. \A n \in s.seq + 1 .. Goal(t, u, s) : FALSE
      BY <2>3, <3>1
    <3>3. arc[t].pc # "off" => ~(arc[t].archived > s.seq)
      BY <1>4, <2>1, <2>8, <2>9, <2>11
    <3>. QED  BY <1>4, <2>1, <2>3, <2>4, <3>1, <3>2, <3>3 DEF Succeeds
  <2>12. CASE L # {}
    <3>1. L \in SUBSET LogObject /\ \A l \in L : l.term = t /\ l.first <= Len(alog[t]) /\ l.last <= Len(alog[t]) /\ l.ms <= ams
      <4>1. \A l \in L : l \in Logs(t)
        BY <2>6
      <4>2. \A l \in L : l \in LogObject /\ l.term = t /\ l.last <= Len(alog[t])
        BY <2>7, <4>1
      <4>3. \A l \in L : l.first <= Len(alog[t]) /\ l.ms <= ams
        BY <1>4, <2>1, <2>7, <4>1
      <4>. QED  BY <4>2, <4>3
    <3>2. \E l \in L : \A m \in L \ {l} : LexLess(KeyRank(m), KeyRank(l))
      <4>1. PICK b \in Nat : b = Len(alog[t])
        BY <1>4, <2>1
      <4>2. PICK d \in Nat : d = ams
        BY <1>4
      <4>3. \A l \in L : l.term = t /\ l.first <= b /\ l.last <= b /\ l.ms <= d
        BY <3>1, <4>1, <4>2
      <4>4. L \in SUBSET LogObject
        BY <3>1
      <4>. QED  BY ONLY <2>1, <2>12, <4>3, <4>4, LastListed
    <3>3. PICK g : g = CHOOSE l \in L : \A m \in L \ {l} : LexLess(KeyRank(m), KeyRank(l))
      OBVIOUS
    <3>4. g \in L /\ \A m \in L \ {g} : LexLess(KeyRank(m), KeyRank(g))
      BY <3>2, <3>3
    <3>5. Goal(t, u, s) = g.last
      BY <2>5, <2>10, <2>12, <3>3 DEF Reach
    <3>6. g \in Logs(t) /\ g.last > s.seq /\ g.last \in Nat
      BY <2>6, <2>7, <3>4
    <3>7. ASSUME NEW n \in s.seq + 1 .. g.last PROVE \E l \in L : l.first <= n /\ n <= l.last
      <4>1. n \in Nat /\ n > s.seq /\ n <= g.last
        BY <2>3, <3>6
      <4>2. Reached(t, n)
        BY <3>6, <4>1 DEF Reached
      <4>. QED  BY <2>8, <4>1, <4>2
    <3>8. ASSUME arc[t].pc # "off" PROVE arc[t].archived <= g.last
      <4>1. CASE arc[t].archived > s.seq
        <5>1. PICK l \in L : arc[t].archived <= l.last
          BY <1>4, <2>1, <2>8, <2>9, <3>8, <4>1
        <5>2. l \in Logs(t) /\ l \in LogObject /\ g \in LogObject /\ l.term = g.term /\ g.first <= g.last /\ l.last \in Nat
          BY <2>6, <2>7, <3>6
        <5>3. l.first < g.first => l.last < g.first
          BY <2>1, <3>6, <5>2 DEF BatchInv
        <5>4. CASE l = g
          BY <5>1, <5>4
        <5>5. CASE l # g
          <6>1. LexLess(KeyRank(l), KeyRank(g))
            BY <3>4, <5>5
          <6>2. l.last <= g.last
            BY <5>2, <5>3, <6>1, ListedBefore
          <6>. QED  BY <1>4, <2>1, <3>6, <5>1, <5>2, <6>2
        <5>. QED  BY <5>4, <5>5
      <4>2. CASE ~(arc[t].archived > s.seq)
        BY <1>4, <2>1, <2>3, <3>6, <4>2
      <4>. QED  BY <4>1, <4>2
    <3>. QED  BY <2>4, <2>5, <3>5, <3>7, <3>8 DEF Succeeds
  <2>. QED  BY <2>11, <2>12
<1>7. LatestRestorable
  BY <1>6, <1>u DEF LatestRestorable
<1>. QED  BY <1>1, <1>7

\* While a prune deletes, its list changes by a delete, or without one.
LEMMA DoomedStep ==
    ASSUME ArcInv, ArcNext, NEW r \in ArcTerms, arc[r].pc = "delete", arc'[r].doomed # arc[r].doomed
    PROVE  objects' = objects \/ \E o \in arc[r].doomed : objects' = objects \ {o}
<1>0. arc \in [ArcTerms -> ArcRecord]
  BY DEF ArcInv, ArcShape
<1>1. ~(ArcTakeOver \/ ArcWrite)
  BY DEF ArcTakeOver, ArcWrite
<1>2. PICK t \in ArcTerms :
             \/ ArcStart(t) \/ ArcBatch(t) \/ ArcGap(t) \/ ArcPeriodic(t)
             \/ ArcPutFile(t) \/ ArcPutComplete(t) \/ ArcPutFails(t)
             \/ PruneKeep(t) \/ PruneDoom(t) \/ PruneDelete(t) \/ ArcDie(t)
  BY <1>1 DEF ArcNext
<1>3. t = r
  <2>1. SUFFICES ASSUME t # r PROVE arc'[r] = arc[r]
    OBVIOUS
  <2>2. CASE ArcStart(t) \/ ArcGap(t) \/ ArcPeriodic(t)
    BY <1>0, <2>1, <2>2 DEF ArcStart, ArcGap, ArcPeriodic, BeginSnap
  <2>3. CASE ArcBatch(t)
    BY <1>0, <2>1, <2>3 DEF ArcBatch
  <2>4. CASE ArcPutFile(t) \/ ArcPutComplete(t) \/ ArcPutFails(t)
    BY <1>0, <2>1, <2>4 DEF ArcPutFile, ArcPutComplete, ArcPutFails
  <2>5. CASE PruneKeep(t) \/ PruneDoom(t) \/ PruneDelete(t) \/ ArcDie(t)
    BY <1>0, <2>1, <2>5 DEF PruneKeep, PruneDoom, PruneDelete, ArcDie
  <2>. QED  BY <1>2, <2>2, <2>3, <2>4, <2>5
<1>4. PruneDelete(r) \/ ArcDie(r)
  BY <1>2, <1>3 DEF ArcStart, ArcBatch, ArcGap, ArcPeriodic, ArcPutFile, ArcPutComplete, ArcPutFails,
        PruneKeep, PruneDoom
<1>. QED  BY <1>4 DEF PruneDelete, ArcDie

LEMMA ArcSpares == ArcInv /\ [ArcNext]_arcVars => [PruneSpares]_arcVars
<1>. SUFFICES ASSUME ArcInv, ArcNext PROVE PruneSpares
  OBVIOUS
<1>1. SUFFICES ASSUME NEW r \in ArcTerms, arc[r].pc = "delete", arc'[r].doomed # arc[r].doomed,
                      NEW u \in Untils, NEW t \in Chosen(u), NEW s \in Snaps(t) \cap arc[r].kept,
                      IsBase(t, u, s), Succeeds(t, u, s)
               PROVE  s \in objects' /\ Succeeds(t, u, s)' /\ Goal(t, u, s)' = Goal(t, u, s)
  BY DEF PruneSpares
<1>2. /\ objects \subseteq SnapObject \cup LogObject /\ arc[r].kept \in SUBSET SnapObject
      /\ arc[r].doomed \in SUBSET (SnapObject \cup LogObject) /\ arc[r].kept # {}
      /\ t \in ArcTerms /\ s \in SnapObject /\ s \in objects /\ s.k = "snap" /\ s.term = t
  BY <1>1 DEF ArcInv, ArcShape, ArcRecord, KeptInv, Chosen, Snaps
<1>3. PICK K : K = arc[r].kept
  OBVIOUS
<1>4. OldestTerm(K) <= s.term /\ OldestTerm(K) \in Nat
  BY <1>1, <1>2, <1>3, OldestIs DEF ArcTerms
\* The pruner deletes nothing of a snapshot it keeps, nor a log object that goes past it.
<1>5. ASSUME NEW o \in arc[r].doomed
      PROVE  /\ ~(o.k = "snap" /\ o.term = s.term /\ o.seq = s.seq /\ o.ms = s.ms)
             /\ ~(o.k = "log" /\ o.term = t /\ o.last > s.seq)
  <2>1. DoomedBy(o, K)
    BY <1>1, <1>3 DEF ArcInv, DoomInv
  <2>2. ASSUME o.term = t
        PROVE  ~(o.term < OldestTerm(K))
    BY <1>2, <1>4, <2>2 DEF ArcTerms
  <2>3. ASSUME o.k = "log", o.term = t, o.last > s.seq PROVE FALSE
    <3>1. PICK k : k = Floor(K, t)
      OBVIOUS
    <3>2. o.last <= k.seq
      BY <2>1, <2>2, <2>3, <3>1 DEF DoomedBy, LogDoomed
    <3>3. k \in K /\ k.term = t /\ ~Newer(k, s)
      BY <1>1, <1>2, <1>3, <3>1, FloorIs
    <3>4. k.seq \in Nat /\ s.seq \in Nat /\ o.last \in Nat
      BY <1>2, <1>3, <2>3, <3>3 DEF SnapObject, LogObject
    <3>5. ~(k.seq > s.seq)
      BY <1>2, <3>3 DEF Newer
    <3>. QED  BY <2>3, <3>2, <3>4, <3>5
  <2>. QED  BY <1>1, <1>2, <1>3, <2>1, <2>2, <2>3 DEF DoomedBy
<1>6. objects' \subseteq objects /\ \A o \in objects : o \in objects' \/ o \in arc[r].doomed
  BY <1>1, DoomedStep
<1>7. s \in objects'
  BY <1>2, <1>5, <1>6
<1>8. PICK f : f = SnapKey(t, s.seq, s.ms, "file")
  OBVIOUS
<1>9. f \in objects'
  <2>1. f \in objects
    BY <1>1, <1>8 DEF Succeeds
  <2>2. f.k = "snap" /\ f.term = s.term /\ f.seq = s.seq /\ f.ms = s.ms
    BY <1>2, <1>8 DEF SnapKey
  <2>. QED  BY <1>5, <1>6, <2>1, <2>2
<1>10. Replayed(t, u, s)' = Replayed(t, u, s)
  <2>1. ASSUME NEW l \in Logs(t), l.last > s.seq PROVE l \in Logs(t)'
    BY <1>5, <1>6, <2>1 DEF Logs
  <2>2. Logs(t)' \subseteq Logs(t)
    BY <1>6 DEF Logs
  <2>. QED  BY <2>1, <2>2 DEF Replayed
<1>11. Goal(t, u, s)' = Goal(t, u, s)
  BY <1>10 DEF Goal, Reach
<1>. QED  BY <1>1, <1>7, <1>8, <1>9, <1>10, <1>11 DEF Succeeds

\* At any moment of any upload, prune or archiver's death the newest timeline is restored
\* to everything its archiver reported as archived, and pruning leaves what restores from a
\* kept snapshot as it was (archive.rs:11-16, 484-490), for any number of terms, frames,
\* kept snapshots, failed puts and dead archivers and any size of a batch.
THEOREM ArchiveKept == ArcSpec => ArchivePromise
<1>1. ArcInit => ArcInv
  BY ArcInitial
<1>2. ArcInv /\ [ArcNext]_arcVars => ArcInv'
  BY ArcStep
<1>3. ArcInv => ArcTypeOK /\ LatestRestorable
  BY ArcRestorable
<1>4. ArcInv /\ [ArcNext]_arcVars => [PruneSpares]_arcVars
  BY ArcSpares
<1>. QED  BY <1>1, <1>2, <1>3, <1>4, PTL DEF ArcSpec, ArchivePromise
=============================================================================
