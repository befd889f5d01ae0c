------------------------------ MODULE Db_proofs ------------------------------
(***************************************************************************)
(* Theorems about Db, for every set of keys, batches, mergers and faults,  *)
(* every durability mode and every bound.                                  *)
(***************************************************************************)
EXTENDS Db, TLAPS

-----------------------------------------------------------------------------
(* Sequences *)

LEMMA RangeTyped == ASSUME NEW S, NEW s \in Seq(S) PROVE Range(s) \subseteq S
BY DOMAIN s = 1 .. Len(s) DEF Range

-----------------------------------------------------------------------------
(* Data *)

LEMMA RowsTyped == ASSUME NEW f \in Frame PROVE RowsOf(f) \subseteq Row
<1>1. DOMAIN f.ops \subseteq Keys
  BY DbAssumption DEF Frame
<1>2. f.seq \in Nat /\ f.wid \in Nat
  BY DEF Frame
<1>. QED  BY <1>1, <1>2 DEF RowsOf, Row, None

LEMMA ReplayTyped == ASSUME NEW w \in Seq(Frame) PROVE Replay(w) \subseteq Row
<1>1. \A i \in DOMAIN w : w[i] \in Frame
  OBVIOUS
<1>. QED  BY <1>1, RowsTyped DEF Replay

LEMMA RemainsTyped ==
    ASSUME NEW w \in Seq(Frame), NEW n \in Int, NEW x \in Remains(w, n)
    PROVE  x \in Seq(Frame)
<1>1. CASE \E i \in 0 .. Len(w) : x = SubSeq(w, 1, i)
  BY <1>1
<1>2. CASE \E i \in 0 .. Len(w) - 1 : x = Append(SubSeq(w, 1, i), [w[i + 1] EXCEPT !.ok = FALSE])
  <2>1. PICK i \in 0 .. Len(w) - 1 :
               x = Append(SubSeq(w, 1, i), [w[i + 1] EXCEPT !.ok = FALSE])
    BY <1>2
  <2>2. w[i + 1] \in Frame
    OBVIOUS
  <2>3. [w[i + 1] EXCEPT !.ok = FALSE] \in Frame
    BY <2>2 DEF Frame
  <2>4. SubSeq(w, 1, i) \in Seq(Frame)
    OBVIOUS
  <2>. QED  BY <2>1, <2>3, <2>4
<1>3. Len(w) \in Nat
  OBVIOUS
<1>4. \A i \in {j \in 0 .. Len(w) : n <= j} \ {Len(w)} : i \in 0 .. Len(w) - 1
  BY <1>3
<1>5. \/ \E i \in {j \in 0 .. Len(w) : n <= j} : x = SubSeq(w, 1, i)
      \/ \E i \in {j \in 0 .. Len(w) : n <= j} \ {Len(w)} :
            x = Append(SubSeq(w, 1, i), [w[i + 1] EXCEPT !.ok = FALSE])
  BY Zenon DEF Remains
<1>. QED  BY <1>1, <1>2, <1>4, <1>5, Zenon

LEMMA SegmentTyped ==
    ASSUME NEW s \in Segment PROVE s.id \in Nat /\ s.rows \subseteq Row
BY DEF Segment

LEMMA MergedTyped ==
    ASSUME NEW segs \in Seq(Segment) PROVE Merged(segs) \subseteq Row
<1>1. Range(segs) \subseteq Segment
  BY RangeTyped
<1>2. \A x \in Range(segs) : x.rows \subseteq Row
  BY <1>1, SegmentTyped
<1>. QED  BY <1>2 DEF Merged

LEMMA HistTyped ==
    ASSUME NEW h \in Seq(Write), NEW g \in [DOMAIN h -> Write] PROVE g \in Seq(Write)
<1>1. DOMAIN h = 1 .. Len(h) /\ Len(h) \in Nat
  OBVIOUS
<1>. QED  BY <1>1

LEMMA RestampTyped ==
    ASSUME NEW h \in Seq(Write)
    PROVE  \A i \in DOMAIN h : /\ h[i] \in Write
                               /\ \A x \in Status : [h[i] EXCEPT !.st = x] \in Write
<1>1. ASSUME NEW w \in Write, NEW x \in Status PROVE [w EXCEPT !.st = x] \in Write
  BY DEF Write
<1>. QED  BY <1>1

LEMMA SettleTyped ==
    ASSUME hist \in Seq(Write), NEW st \in Status
    PROVE  Settle(st) \in Seq(Write)
<1>1. Settle(st) \in [DOMAIN hist -> Write]
  BY RestampTyped DEF Settle
<1>. QED  BY <1>1, HistTyped

LEMMA ManifestTyped ==
    current \in Manifest => /\ current.gen \in Nat
                            /\ current.segs \in Seq(Segment)
                            /\ Range(current.segs) \subseteq Segment
BY RangeTyped DEF Manifest

LEMMA FlushTyped ==
    flush \in FlushState => /\ flush.segs \in Seq(Segment) /\ flush.len \in Nat
                            /\ flush.tail \in Seq(Frame)
                            /\ Range(flush.segs) \subseteq Segment
BY RangeTyped DEF FlushState

LEMMA MergeTyped ==
    ASSUME merge \in [Mergers -> MergeState], NEW m \in Mergers
    PROVE  /\ merge[m].inputs \in Seq(Segment) /\ merge[m].gen \in Nat
           /\ merge[m].out \in Seq(Segment)
           /\ Range(merge[m].out) \subseteq Segment
BY RangeTyped DEF MergeState

LEMMA IdleTyped == NoFlush \in FlushState /\ NoMerge \in MergeState
BY DEF NoFlush, NoMerge, FlushState, MergeState

-----------------------------------------------------------------------------
(* Type correctness *)

LEMMA TypeInit == Init => TypeOK
<1>1. [gen |-> 1, segs |-> <<>>] \in Manifest
  BY DEF Manifest
<1>. QED  BY <1>1, IdleTyped DEF Init, TypeOK

LEMMA TypeNext == TypeOK /\ [Next]_vars => TypeOK'
<1>. SUFFICES ASSUME TypeOK, [Next]_vars PROVE TypeOK'
  OBVIOUS
<1>. USE DEF TypeOK
<1>1. ASSUME NEW b \in Batches, WriteAppend(b) PROVE TypeOK'
  <2>1. [ops |-> b, seq |-> nextSeq, st |-> "pending"] \in Write
    BY DEF Write, Status
  <2>2. [seq |-> nextSeq, wid |-> Len(hist) + 1, ops |-> b, ok |-> TRUE] \in Frame
    BY DEF Frame
  <2>. QED  BY <1>1, <2>1, <2>2 DEF WriteAppend, mem
<1>2. ASSUME NEW b \in Batches, WriteAppendFail(b) PROVE TypeOK'
  <2>1. [ops |-> b, seq |-> nextSeq, st |-> "failed"] \in Write
    BY DEF Write, Status
  <2>2. [seq |-> nextSeq, wid |-> Len(hist) + 1, ops |-> b, ok |-> FALSE] \in Frame
    BY DEF Frame
  <2>3. Settle("failed") \in Seq(Write)
    BY SettleTyped DEF Status
  <2>4. wal' \in Seq(Frame)
    <3>1. Append(wal, [seq |-> nextSeq, wid |-> Len(hist) + 1, ops |-> b, ok |-> FALSE])
             \in Seq(Frame)
      BY <2>2
    <3>. QED  BY <1>2, <3>1 DEF WriteAppendFail
  <2>5. hist' \in Seq(Write)
    BY <1>2, <2>1, <2>3 DEF WriteAppendFail
  <2>. QED  BY <1>2, <2>4, <2>5 DEF WriteAppendFail, mem
<1>3. ASSUME WriteApply PROVE TypeOK'
  <2>1. Settle("acked") \in Seq(Write)
    BY SettleTyped DEF Status
  <2>2. active' \subseteq Row
    <3>1. Range(wal) \subseteq Frame
      BY RangeTyped
    <3>. QED  BY <1>3, <3>1, RowsTyped DEF WriteApply
  <2>3. synced' \in Nat
    BY <1>3 DEF WriteApply
  <2>. QED  BY <1>3, <2>1, <2>2, <2>3 DEF WriteApply, alloc
<1>4. ASSUME WriteSyncFail PROVE TypeOK'
  BY <1>4, SettleTyped DEF WriteSyncFail, Status, disk, mem, alloc
<1>5. ASSUME Rotate PROVE TypeOK'
  BY <1>5 DEF Rotate, disk, alloc, threads
<1>6. ASSUME FlushPhaseA PROVE TypeOK'
  <2>. DEFINE all == IF active = {} THEN immutables ELSE Append(immutables, active)
              sg  == [i \in DOMAIN all |-> [id |-> nextSeg + i - 1, rows |-> all[i]]]
  <2>1. all \in Seq(SUBSET Row)
    OBVIOUS
  <2>2. DOMAIN all = 1 .. Len(all) /\ Len(all) \in Nat
    BY <2>1
  <2>3. \A i \in 1 .. Len(all) : all[i] \in SUBSET Row
    BY <2>1
  <2>4. /\ flush' = [pc |-> "build", len |-> Len(wal), tail |-> <<>>, segs |-> sg]
        /\ nextSeg' = nextSeg + Len(all)
    BY <1>6 DEF FlushPhaseA
  <2>. HIDE DEF all
  <2>5. \A i \in 1 .. Len(all) : [id |-> nextSeg + i - 1, rows |-> all[i]] \in Segment
    BY <2>3 DEF Segment
  <2>6. sg \in Seq(Segment)
    BY <2>2, <2>5
  <2>. HIDE DEF sg
  <2>7. flush' \in FlushState
    BY <2>4, <2>6 DEF FlushState
  <2>8. nextSeg' \in Nat
    BY <2>2, <2>4
  <2>9. active' = {} /\ immutables' = <<>> /\ <<>> \in Seq(SUBSET Row)
    BY <1>6 DEF FlushPhaseA
  <2>10. UNCHANGED <<disk, up, segments, records, nextSeq, gen, lock, merge, hist, crashes>>
    BY <1>6 DEF FlushPhaseA
  <2>. QED  BY <2>7, <2>8, <2>9, <2>10 DEF disk
<1>7. ASSUME FlushPhaseB PROVE TypeOK'
  <2>1. flush' \in FlushState
    BY <1>7 DEF FlushPhaseB, FlushState
  <2>. QED  BY <1>7, <2>1, FlushTyped DEF FlushPhaseB, AddFiles, mem, alloc
<1>8. ASSUME FlushPhaseBFail PROVE TypeOK'
  BY <1>8, IdleTyped DEF FlushPhaseBFail, disk, mem, alloc
<1>9. ASSUME FlushPublish PROVE TypeOK'
  <2>1. records' \in Seq(Segment)
    BY <1>9, FlushTyped DEF FlushPublish, Extend
  <2>2. current' \in Manifest
    BY <1>9, <2>1 DEF FlushPublish, Manifest, NextGen
  <2>3. flush' \in FlushState
    BY <1>9 DEF FlushPublish, FlushState
  <2>. QED  BY <1>9, <2>1, <2>2, <2>3 DEF FlushPublish, NextGen
<1>10. ASSUME FlushPublishFail PROVE TypeOK'
  <2>1. records' \in Seq(Segment)
    BY <1>10, FlushTyped DEF FlushPublishFail, Extend
  <2>2. [gen |-> gen', segs |-> records'] \in Manifest
    BY <1>10, <2>1 DEF FlushPublishFail, Manifest, NextGen
  <2>3. current' \in Manifest
    BY <1>10, <2>2 DEF FlushPublishFail
  <2>4. gen' \in Nat
    BY <1>10 DEF FlushPublishFail, NextGen
  <2>5. flush' = NoFlush /\ UNCHANGED <<wal, synced, files, up, active, immutables, segments,
                                        nextSeq, nextSeg, lock, merge, hist, crashes>>
    BY <1>10 DEF FlushPublishFail
  <2>. QED  BY <2>1, <2>3, <2>4, <2>5, IdleTyped
<1>11. ASSUME FlushTruncate PROVE TypeOK'
  <2>1. SubSeq(wal, flush.len + 1, Len(wal)) \in Seq(Frame)
    BY FlushTyped
  <2>2. flush' \in FlushState
    BY <1>11, <2>1 DEF FlushTruncate, UncoveredTail, FlushState
  <2>. QED  BY <1>11, <2>2 DEF FlushTruncate, mem, alloc
<1>12. ASSUME FlushReappend PROVE TypeOK'
  BY <1>12, FlushTyped, IdleTyped DEF FlushReappend, Extend, alloc
<1>13. ASSUME FlushRewriteFail PROVE TypeOK'
  <2>1. wal' \in Seq(Frame) /\ synced' \in Nat
    BY <1>13, FlushTyped, RemainsTyped DEF FlushRewriteFail
  <2>. QED  BY <1>13, <2>1, IdleTyped DEF FlushRewriteFail, mem, alloc
<1>14. ASSUME NEW m \in Mergers, MergeCapture(m) PROVE TypeOK'
  <2>1. [pc |-> "merging", inputs |-> segments, gen |-> gen, out |-> <<>>] \in MergeState
    BY DEF MergeState
  <2>. QED  BY <1>14, <2>1 DEF MergeCapture, disk, mem, alloc
<1>15. ASSUME NEW m \in Mergers, MergeStale(m) PROVE TypeOK'
  BY <1>15, IdleTyped DEF MergeStale, disk, mem, alloc
<1>16. ASSUME NEW m \in Mergers, MergeRename(m) PROVE TypeOK'
  <2>. DEFINE live == Merged(merge[m].inputs)
              out  == IF live = {} THEN <<>> ELSE <<[id |-> nextSeg, rows |-> live]>>
  <2>1. /\ merge' = [merge EXCEPT ![m].pc = "renamed", ![m].out = out]
        /\ files' = AddFiles(out)
        /\ nextSeg' = nextSeg + Len(out)
    BY <1>16 DEF MergeRename
  <2>2. live \subseteq Row
    BY MergedTyped, MergeTyped
  <2>. HIDE DEF live
  <2>3. [id |-> nextSeg, rows |-> live] \in Segment
    BY <2>2 DEF Segment
  <2>4. out \in Seq(Segment) /\ Len(out) \in Nat
    BY <2>3
  <2>. HIDE DEF out
  <2>5. Range(out) \subseteq Segment
    BY <2>4, RangeTyped
  <2>6. merge' \in [Mergers -> MergeState]
    BY <2>1, <2>4 DEF MergeState
  <2>7. files' \subseteq Segment
    BY <2>1, <2>5 DEF AddFiles
  <2>8. lock' = m /\ UNCHANGED <<wal, synced, current, up, mem, nextSeq, gen, flush,
                                  hist, crashes>>
    BY <1>16 DEF MergeRename
  <2>9. nextSeg' \in Nat
    BY <2>1, <2>4
  <2>. QED  BY <2>6, <2>7, <2>8, <2>9 DEF mem
<1>17. ASSUME NEW m \in Mergers, MergePublish(m) PROVE TypeOK'
  <2>1. current' \in Manifest
    BY <1>17, MergeTyped DEF MergePublish, Manifest, NextGen
  <2>2. merge' \in [Mergers -> MergeState]
    BY <1>17 DEF MergePublish, MergeState
  <2>. QED  BY <1>17, <2>1, <2>2 DEF MergePublish, mem, NextGen
<1>18. ASSUME NEW m \in Mergers, MergeSwap(m) PROVE TypeOK'
  BY <1>18, MergeTyped, IdleTyped DEF MergeSwap, alloc
<1>19. ASSUME NEW m \in Mergers, MergeFail(m) PROVE TypeOK'
  <2>1. current' \in Manifest /\ gen' \in Nat
    <3>1. CASE current' = current
      BY <1>19, <3>1 DEF MergeFail, NextGen
    <3>2. CASE gen' = gen + 1 /\ current' = [gen |-> gen', segs |-> merge[m].out]
      BY <3>2, MergeTyped DEF Manifest
    <3>. QED  BY <1>19, <3>1, <3>2 DEF MergeFail, NextGen
  <2>. QED  BY <1>19, <2>1, IdleTyped DEF MergeFail, mem
<1>20. ASSUME Crash PROVE TypeOK'
  <2>1. wal' \in Seq(Frame)
    <3>1. Surviving \in Int
      BY DEF Surviving
    <3>2. wal' \in Remains(flush.tail, 0) \/ wal' \in Remains(wal, Surviving)
      BY <1>20 DEF Crash
    <3>. QED  BY <3>1, <3>2, FlushTyped, RemainsTyped
  <2>2. hist' \in Seq(Write)
    <3>1. hist' = HistAfterCrash(wal')
      BY <1>20 DEF Crash
    <3>2. hist' \in [DOMAIN hist -> Write]
      BY <3>1, RestampTyped DEF HistAfterCrash, Status
    <3>. QED  BY <3>2, HistTyped
  <2>3. synced' \in Nat
    BY <1>20, <2>1 DEF Crash
  <2>4. /\ up' = FALSE
        /\ active' = {} /\ immutables' = <<>> /\ segments' = <<>> /\ records' = <<>>
        /\ lock' = "free" /\ flush' = NoFlush /\ merge' = [m \in Mergers |-> NoMerge]
        /\ UNCHANGED <<files, current, alloc>>
        /\ crashes' = crashes + 1
    BY <1>20 DEF Crash
  <2>5. merge' \in [Mergers -> MergeState] /\ flush' \in FlushState
    BY <2>4, IdleTyped
  <2>6. active' \subseteq Row /\ immutables' \in Seq(SUBSET Row)
    BY <2>4
  <2>7. segments' \in Seq(Segment) /\ records' \in Seq(Segment)
    BY <2>4
  <2>8. up' \in BOOLEAN
    BY <1>20, Zenon DEF Crash
  <2>10. lock' \in {"free", "write", "flush"} \cup Mergers /\ crashes' \in Nat
    BY <2>4
  <2>9. files' \subseteq Segment /\ current' \in Manifest
        /\ nextSeq' \in Nat /\ nextSeg' \in Nat /\ gen' \in Nat
    BY <2>4 DEF alloc
  <2>. QED  BY <2>1, <2>2, <2>3, <2>5, <2>6, <2>7, <2>8, <2>9, <2>10
<1>21. ASSUME Open PROVE TypeOK'
  <2>1. wal' \in Seq(Frame) /\ synced' \in Nat
    BY <1>21 DEF Open
  <2>2. hist' \in Seq(Write)
    <3>1. hist' = [i \in DOMAIN hist |->
                      IF hist[i].st # "failed" THEN hist[i]
                      ELSE [hist[i] EXCEPT !.st =
                               IF \E f \in Range(wal') : f.wid = i THEN "acked" ELSE "lost"]]
      BY <1>21 DEF Open
    <3>2. hist' \in [DOMAIN hist -> Write]
      BY <3>1, RestampTyped DEF Status
    <3>. QED  BY <3>2, HistTyped
  <2>3. nextSeg' \in Nat
    <3>1. \A x \in Range(current.segs) : x.id \in Nat
      BY ManifestTyped, SegmentTyped
    <3>. QED  BY <1>21, <3>1 DEF Open
  <2>4. nextSeq' \in Nat
    <3>1. \A x \in Range(current.segs) : \A r \in x.rows : r.seq \in Nat
      BY ManifestTyped, SegmentTyped DEF Row
    <3>2. Range(wal') \subseteq Frame
      BY <2>1, RangeTyped
    <3>3. \A f \in Range(wal') : f.seq \in Nat
      BY <3>2 DEF Frame
    <3>. QED  BY <1>21, <3>1, <3>3, SMTT(30) DEF Open
  <2>5. active' \subseteq Row
    BY <1>21, ReplayTyped DEF Open
  <2>. QED  BY <1>21, <2>1, <2>2, <2>3, <2>4, <2>5, ManifestTyped DEF Open, threads
<1>22. CASE UNCHANGED vars
  BY <1>22 DEF vars, disk, mem, alloc, threads
<1>. QED
  BY <1>1, <1>2, <1>3, <1>4, <1>5, <1>6, <1>7, <1>8, <1>9, <1>10, <1>11, <1>12, <1>13, <1>14,
     <1>15, <1>16, <1>17, <1>18, <1>19, <1>20, <1>21, <1>22
  DEF Next, Writers, Flusher, Merger

\* The state, the files and the threads' local data stay well typed in every
\* behaviour, whatever fails and whenever the process dies.
THEOREM TypeCorrect == Spec => []TypeOK
BY TypeInit, TypeNext, PTL DEF Spec

-----------------------------------------------------------------------------
(* Lists of segments *)

LEMMA ConcatRange ==
    ASSUME NEW a \in Seq(Segment), NEW b \in Seq(Segment)
    PROVE  /\ Range(a \o b) = Range(a) \cup Range(b)
           /\ Ids(a \o b) = Ids(a) \cup Ids(b)
<1>1. Range(a \o b) \subseteq Range(a) \cup Range(b)
  <2>1. ASSUME NEW i \in DOMAIN (a \o b) PROVE (a \o b)[i] \in Range(a) \cup Range(b)
    <3>1. CASE i <= Len(a)
      BY <3>1 DEF Range
    <3>2. CASE i > Len(a)
      <4>1. (a \o b)[i] = b[i - Len(a)] /\ i - Len(a) \in DOMAIN b
        BY <3>2
      <4>. QED  BY <4>1 DEF Range
    <3>. QED  BY <3>1, <3>2
  <2>. QED  BY <2>1 DEF Range
<1>2. Range(a) \subseteq Range(a \o b)
  <2>1. ASSUME NEW i \in DOMAIN a PROVE i \in DOMAIN (a \o b) /\ (a \o b)[i] = a[i]
    OBVIOUS
  <2>. QED  BY <2>1 DEF Range
<1>3. Range(b) \subseteq Range(a \o b)
  <2>1. ASSUME NEW i \in DOMAIN b
        PROVE  i + Len(a) \in DOMAIN (a \o b) /\ (a \o b)[i + Len(a)] = b[i]
    OBVIOUS
  <2>. QED  BY <2>1 DEF Range
<1>4. Range(a \o b) = Range(a) \cup Range(b)
  BY <1>1, <1>2, <1>3
<1>. QED  BY <1>4 DEF Ids

LEMMA BackedConcat ==
    ASSUME NEW a \in Seq(Segment), NEW b \in Seq(Segment), NEW fs,
           Backed(a, fs), Backed(b, fs), Ids(a) \cap Ids(b) = {}
    PROVE  Backed(a \o b, fs)
<1>1. Range(a \o b) \subseteq fs
  BY ConcatRange DEF Backed
<1>. DEFINE c == a \o b
<1>2. ASSUME NEW i \in DOMAIN c
      PROVE  \/ i \in DOMAIN a /\ c[i] = a[i]
             \/ i - Len(a) \in DOMAIN b /\ c[i] = b[i - Len(a)]
  OBVIOUS
<1>3. \A i \in DOMAIN a, j \in DOMAIN b : a[i].id # b[j].id
  BY DEF Ids, Range
<1>4. DOMAIN c \subseteq Int /\ Len(a) \in Int
  OBVIOUS
<1>. HIDE DEF c
<1>5. \A i, j \in DOMAIN c : c[i].id = c[j].id => i = j
  <2>. SUFFICES ASSUME NEW i \in DOMAIN c, NEW j \in DOMAIN c, c[i].id = c[j].id PROVE i = j
    OBVIOUS
  <2>1. CASE i \in DOMAIN a /\ c[i] = a[i] /\ j \in DOMAIN a /\ c[j] = a[j]
    BY <2>1 DEF Backed
  <2>2. CASE /\ i - Len(a) \in DOMAIN b /\ c[i] = b[i - Len(a)]
             /\ j - Len(a) \in DOMAIN b /\ c[j] = b[j - Len(a)]
    <3>1. i - Len(a) = j - Len(a)
      BY <2>2 DEF Backed
    <3>. QED  BY <3>1, <1>4
  <2>. QED  BY <1>2, <1>3, <2>1, <2>2
<1>6. \A i \in DOMAIN c : c[i].rows # {}
  BY <1>2 DEF Backed
<1>. QED  BY <1>1, <1>5, <1>6 DEF Backed, c

\* A list stays backed as long as its files stay.
LEMMA BackedKept ==
    ASSUME NEW a, NEW fs, NEW gs, Backed(a, fs), Range(a) \subseteq gs
    PROVE  Backed(a, gs)
BY DEF Backed

\* Writing files with other ids takes nothing away from a list.
LEMMA AddFilesKeeps ==
    ASSUME NEW a, NEW b, Backed(a, files), Ids(a) \cap Ids(b) = {}
    PROVE  Backed(a, AddFiles(b))
<1>1. ASSUME NEW x \in Range(a) PROVE x \in AddFiles(b)
  <2>1. x \in files
    BY DEF Backed
  <2>2. \A s \in Range(b) : s.id # x.id
    BY DEF Ids
  <2>. QED  BY <2>1, <2>2 DEF AddFiles
<1>. QED  BY <1>1, BackedKept

LEMMA AddFilesHolds ==
    ASSUME NEW b, NEW fs, Backed(b, fs) PROVE Backed(b, AddFiles(b))
<1>1. Range(b) \subseteq AddFiles(b)
  BY DEF AddFiles
<1>. QED  BY <1>1, BackedKept

LEMMA IdsTyped == ASSUME NEW a \in Seq(Segment) PROVE Ids(a) \subseteq Nat
BY RangeTyped, SegmentTyped DEF Ids

LEMMA EmptyBacked == ASSUME NEW fs PROVE Backed(<<>>, fs) /\ Ids(<<>>) = {}
BY DEF Backed, Ids, Range

-----------------------------------------------------------------------------
(* The inductive invariant *)

LEMMA FilesInit == Init => FilesOwned
<1>. SUFFICES ASSUME Init PROVE FilesOwned
  OBVIOUS
<1>1. current.segs = <<>> /\ records = <<>> /\ immutables = <<>> /\ flush = NoFlush
      /\ merge = [m \in Mergers |-> NoMerge]
  BY DEF Init
<1>2. ListsBacked
  BY <1>1, EmptyBacked DEF ListsBacked
<1>3. PlanOwned /\ OutputOwned /\ ThreadsOwned
  BY <1>1 DEF PlanOwned, OutputOwned, ThreadsOwned, NoFlush, NoMerge
<1>. QED  BY <1>2, <1>3 DEF FilesOwned

\* While no thread publishes, no merge output and no half-done rewrite exists.
LEMMA Quiet ==
    ASSUME FilesOwned, lock \in {"free", "write"}
    PROVE  /\ \A m \in Mergers : merge[m].pc \notin {"renamed", "published"}
           /\ flush.pc \notin {"truncate", "reappend"}
BY DbAssumption DEF FilesOwned, OutputOwned, ThreadsOwned

\* A merger that publishes is the only one, and no flush publishes.
LEMMA Alone ==
    ASSUME FilesOwned, NEW m \in Mergers, merge[m].pc \in {"renamed", "published"}
    PROVE  /\ lock = m
           /\ \A n \in Mergers \ {m} : merge[n].pc \notin {"renamed", "published"}
           /\ flush.pc \notin {"truncate", "reappend"}
BY DbAssumption DEF FilesOwned, OutputOwned, ThreadsOwned

\* Steps that touch neither the files nor who owns them.
LEMMA FilesStutter ==
    ASSUME FilesOwned, lock \in {"free", "write"} \/ lock' = lock,
           UNCHANGED <<files, current, up, immutables, records, nextSeg, flush, merge>>
    PROVE  FilesOwned'
<1>1. ListsBacked' /\ PlanOwned'
  BY DEF FilesOwned, ListsBacked, PlanOwned
<1>2. OutputOwned' /\ ThreadsOwned'
  BY Quiet DEF FilesOwned, OutputOwned, ThreadsOwned
<1>. QED  BY <1>1, <1>2 DEF FilesOwned

LEMMA FilesNext == TypeOK /\ FilesOwned /\ [Next]_vars => FilesOwned'
<1>. SUFFICES ASSUME TypeOK, FilesOwned, [Next]_vars PROVE FilesOwned'
  OBVIOUS
<1>t. /\ current.segs \in Seq(Segment) /\ records \in Seq(Segment)
      /\ flush.segs \in Seq(Segment) /\ nextSeg \in Nat
      /\ merge \in [Mergers -> MergeState]
  BY ManifestTyped, FlushTyped DEF TypeOK
<1>1. ASSUME NEW b \in Batches, WriteAppend(b) \/ WriteAppendFail(b) PROVE FilesOwned'
  <2>1. lock \in {"free", "write"}
    BY <1>1 DEF WriteAppend, WriteAppendFail, MayAppend
  <2>2. UNCHANGED <<files, current, up, immutables, records, nextSeg, flush, merge>>
    BY <1>1 DEF WriteAppend, WriteAppendFail, mem
  <2>. QED  BY <2>1, <2>2, FilesStutter
<1>2. ASSUME WriteApply \/ WriteSyncFail PROVE FilesOwned'
  <2>1. lock \in {"free", "write"}
    BY <1>2 DEF WriteApply, WriteSyncFail
  <2>2. UNCHANGED <<files, current, up, immutables, records, nextSeg, flush, merge>>
    BY <1>2 DEF WriteApply, WriteSyncFail, disk, mem, alloc
  <2>. QED  BY <2>1, <2>2, FilesStutter
<1>3. ASSUME Rotate PROVE FilesOwned'
  <2>1. UNCHANGED <<files, current, up, records, nextSeg, lock, flush, merge>>
    BY <1>3 DEF Rotate, disk, alloc, threads
  <2>2. ListsBacked' /\ PlanOwned' /\ OutputOwned'
    BY <2>1 DEF FilesOwned, ListsBacked, PlanOwned, OutputOwned
  <2>3. \A i \in DOMAIN immutables' : immutables'[i] # {}
    <3>1. immutables' = Append(immutables, active) /\ active # {}
      BY <1>3 DEF Rotate
    <3>2. immutables \in Seq(SUBSET Row)
      BY DEF TypeOK
    <3>3. \A i \in DOMAIN immutables : immutables[i] # {}
      BY DEF FilesOwned, ThreadsOwned
    <3>. QED  BY <3>1, <3>2, <3>3
  <2>4. ThreadsOwned'
    BY <2>1, <2>3 DEF FilesOwned, ThreadsOwned
  <2>. QED  BY <2>2, <2>4 DEF FilesOwned
<1>4. ASSUME FlushPhaseA PROVE FilesOwned'
  <2>. DEFINE all == IF active = {} THEN immutables ELSE Append(immutables, active)
              sg  == [i \in DOMAIN all |-> [id |-> nextSeg + i - 1, rows |-> all[i]]]
  <2>1. all \in Seq(SUBSET Row) /\ \A i \in DOMAIN all : all[i] # {}
    <3>1. immutables \in Seq(SUBSET Row) /\ active \in SUBSET Row
      BY DEF TypeOK
    <3>2. \A i \in DOMAIN immutables : immutables[i] # {}
      BY DEF FilesOwned, ThreadsOwned
    <3>. QED  BY <3>1, <3>2
  <2>2. DOMAIN all = 1 .. Len(all) /\ Len(all) \in Nat
    BY <2>1
  <2>3. /\ flush' = [pc |-> "build", len |-> Len(wal), tail |-> <<>>, segs |-> sg]
        /\ nextSeg' = nextSeg + Len(all)
    BY <1>4 DEF FlushPhaseA
  <2>4. up /\ lock = "free" /\ immutables' = <<>>
    BY <1>4 DEF FlushPhaseA
  <2>5. UNCHANGED <<files, current, up, records, lock, merge>>
    BY <1>4 DEF FlushPhaseA, disk
  <2>. HIDE DEF all
  <2>6. /\ \A i, j \in DOMAIN sg : sg[i].id = sg[j].id => i = j
        /\ \A i \in DOMAIN sg : sg[i].rows # {}
    BY <2>1, <2>2, <1>t
  <2>7. \A i \in Ids(sg) : nextSeg <= i /\ i < nextSeg'
    BY <2>2, <2>3, <1>t DEF Ids, Range
  <2>. HIDE DEF sg
  <2>8. Ids(current.segs) \subseteq Nat /\ Ids(records) \subseteq Nat
    BY <1>t, IdsTyped
  <2>9. nextSeg' \in Nat /\ nextSeg <= nextSeg'
    BY <2>2, <2>3, <1>t
  <2>10. \A i \in Ids(current.segs) \cup Ids(records) : i < nextSeg /\ i < nextSeg'
    BY <2>8, <2>9, <1>t DEF FilesOwned, ListsBacked
  <2>11. ListsBacked'
    BY <2>5, <2>10 DEF FilesOwned, ListsBacked
  <2>12. Backed(sg, Range(sg))
    BY <2>6 DEF Backed
  <2>13. \A i \in Ids(sg) : i \notin Ids(current.segs) /\ i \notin Ids(records)
    BY <2>7, <2>8, <2>10, <1>t
  <2>14. flush'.pc = "build" /\ flush'.segs = sg
    BY <2>3
  <2>15. PlanOwned'
    BY <2>5, <2>7, <2>12, <2>13, <2>14 DEF PlanOwned
  <2>16. OutputOwned'
    BY <2>4, <2>5, Quiet DEF OutputOwned
  <2>17. ThreadsOwned'
    BY <2>4, <2>5, <2>14 DEF ThreadsOwned
  <2>. QED  BY <2>11, <2>15, <2>16, <2>17 DEF FilesOwned
<1>5. ASSUME FlushPhaseB PROVE FilesOwned'
  <2>1. /\ flush.pc = "build" /\ files' = AddFiles(flush.segs)
        /\ flush'.pc = "publish" /\ flush'.segs = flush.segs
        /\ UNCHANGED <<current, up, records, immutables, nextSeg, lock, merge>>
    BY <1>5 DEF FlushPhaseB, TypeOK, FlushState, mem, alloc
  <2>2. /\ Backed(flush.segs, Range(flush.segs))
        /\ Ids(current.segs) \cap Ids(flush.segs) = {}
        /\ Ids(records) \cap Ids(flush.segs) = {}
    BY <2>1 DEF FilesOwned, PlanOwned
  <2>3. Backed(current.segs, files') /\ Backed(records, files')
    BY <2>1, <2>2, AddFilesKeeps DEF FilesOwned, ListsBacked
  <2>4. Backed(flush.segs, files')
    BY <2>1, <2>2, AddFilesHolds
  <2>5. ListsBacked'
    BY <2>1, <2>3 DEF FilesOwned, ListsBacked
  <2>6. PlanOwned'
    BY <2>1, <2>4 DEF FilesOwned, PlanOwned
  <2>7. ASSUME NEW m \in Mergers, merge[m].pc \in {"renamed", "published"}
        PROVE  Backed(merge[m].out, files')
    <3>1. Backed(merge[m].out, files) /\ Ids(merge[m].out) \cap Ids(flush.segs) = {}
      BY <2>1, <2>7 DEF FilesOwned, OutputOwned
    <3>. QED  BY <2>1, <3>1, AddFilesKeeps
  <2>8. OutputOwned'
    BY <2>1, <2>7 DEF FilesOwned, OutputOwned
  <2>9. up
    BY <2>1 DEF FilesOwned, ThreadsOwned, NoFlush
  <2>10. ThreadsOwned'
    BY <2>1, <2>9 DEF FilesOwned, ThreadsOwned
  <2>. QED  BY <2>5, <2>6, <2>8, <2>10 DEF FilesOwned
<1>6. ASSUME FlushPhaseBFail PROVE FilesOwned'
  <2>1. /\ flush.pc = "build" /\ flush' = NoFlush
        /\ UNCHANGED <<files, current, up, records, immutables, nextSeg, lock, merge>>
    BY <1>6 DEF FlushPhaseBFail, disk, mem, alloc
  <2>2. up
    BY <2>1 DEF FilesOwned, ThreadsOwned, NoFlush
  <2>3. ListsBacked' /\ PlanOwned'
    BY <2>1 DEF FilesOwned, ListsBacked, PlanOwned, NoFlush
  <2>4. OutputOwned' /\ ThreadsOwned'
    BY <2>1, <2>2 DEF FilesOwned, OutputOwned, ThreadsOwned, NoFlush
  <2>. QED  BY <2>3, <2>4 DEF FilesOwned
<1>7. ASSUME FlushPublish \/ FlushPublishFail PROVE FilesOwned'
  <2>1. /\ flush.pc = "publish" /\ lock = "free"
        /\ records' = records \o flush.segs
        /\ UNCHANGED <<files, up, immutables, nextSeg, merge>>
    BY <1>7 DEF FlushPublish, FlushPublishFail, Extend
  <2>2. current'.segs = records' \/ current' = current
    BY <1>7 DEF FlushPublish, FlushPublishFail
  <2>3. (flush'.pc = "truncate" /\ lock' = "flush") \/ flush' = NoFlush
    BY <1>7 DEF FlushPublish, FlushPublishFail, TypeOK, FlushState
  <2>4. /\ Backed(flush.segs, files) /\ Backed(records, files)
        /\ Backed(current.segs, files)
        /\ Ids(records) \cap Ids(flush.segs) = {}
        /\ \A i \in Ids(flush.segs) \cup Ids(records) \cup Ids(current.segs) : i < nextSeg
    BY <2>1 DEF FilesOwned, ListsBacked, PlanOwned
  <2>5. Backed(records', files) /\ Ids(records') = Ids(records) \cup Ids(flush.segs)
    BY <2>1, <2>4, <1>t, BackedConcat, ConcatRange
  <2>6. ListsBacked'
    BY <2>1, <2>2, <2>4, <2>5 DEF ListsBacked
  <2>7. PlanOwned'
    BY <2>3 DEF PlanOwned, NoFlush
  <2>8. OutputOwned'
    BY <2>1, Quiet DEF OutputOwned
  <2>9. up
    BY <2>1 DEF FilesOwned, ThreadsOwned, NoFlush
  <2>10. ThreadsOwned'
    BY <2>1, <2>3, <2>9 DEF FilesOwned, ThreadsOwned, NoFlush
  <2>. QED  BY <2>6, <2>7, <2>8, <2>10 DEF FilesOwned
<1>8. ASSUME FlushTruncate \/ FlushReappend \/ FlushRewriteFail PROVE FilesOwned'
  <2>1. /\ flush.pc \in {"truncate", "reappend"}
        /\ UNCHANGED <<files, current, up, records, immutables, nextSeg, merge>>
    BY <1>8 DEF FlushTruncate, FlushReappend, FlushRewriteFail, mem, alloc
  <2>2. (flush'.pc = "reappend" /\ lock' = lock) \/ flush' = NoFlush
    BY <1>8 DEF FlushTruncate, FlushReappend, FlushRewriteFail, TypeOK, FlushState
  <2>3. up /\ lock = "flush"
    BY <2>1 DEF FilesOwned, ThreadsOwned, NoFlush
  <2>4. ListsBacked'
    BY <2>1 DEF FilesOwned, ListsBacked
  <2>5. PlanOwned'
    BY <2>2 DEF PlanOwned, NoFlush
  <2>6. OutputOwned'
    BY <2>1, <2>3, DbAssumption DEF FilesOwned, OutputOwned
  <2>7. ThreadsOwned'
    BY <2>1, <2>2, <2>3 DEF FilesOwned, ThreadsOwned, NoFlush
  <2>. QED  BY <2>4, <2>5, <2>6, <2>7 DEF FilesOwned
<1>9. ASSUME NEW m \in Mergers, MergeCapture(m) \/ MergeStale(m) PROVE FilesOwned'
  <2>1. /\ lock = "free"
        /\ UNCHANGED <<files, current, up, records, immutables, nextSeg, lock, flush>>
    BY <1>9 DEF MergeCapture, MergeStale, disk, mem, alloc
  <2>2. up
    BY <1>9 DEF MergeCapture, MergeStale, FilesOwned, ThreadsOwned, NoMerge
  <2>3. \A n \in Mergers : merge'[n].pc \notin {"renamed", "published"}
    <3>1. \A n \in Mergers : merge[n].pc \notin {"renamed", "published"}
      BY <2>1, Quiet
    <3>. QED  BY <1>9, <3>1, <1>t DEF MergeCapture, MergeStale, NoMerge
  <2>4. ListsBacked' /\ PlanOwned' /\ OutputOwned'
    BY <2>1, <2>3 DEF FilesOwned, ListsBacked, PlanOwned, OutputOwned
  <2>5. ThreadsOwned'
    BY <2>1, <2>2 DEF FilesOwned, ThreadsOwned
  <2>. QED  BY <2>4, <2>5 DEF FilesOwned
<1>10. ASSUME NEW m \in Mergers, MergeRename(m) PROVE FilesOwned'
  <2>. DEFINE live == Merged(merge[m].inputs)
              out  == IF live = {} THEN <<>> ELSE <<[id |-> nextSeg, rows |-> live]>>
  <2>1. /\ merge' = [merge EXCEPT ![m].pc = "renamed", ![m].out = out]
        /\ files' = AddFiles(out)
        /\ nextSeg' = nextSeg + Len(out)
        /\ merge[m].pc = "merging" /\ lock = "free" /\ lock' = m
        /\ UNCHANGED <<current, up, records, immutables, flush>>
    BY <1>10 DEF MergeRename, mem
  <2>. HIDE DEF live
  <2>2. Backed(out, Range(out)) /\ Ids(out) \subseteq {nextSeg}
    BY DEF Backed, Ids, Range
  <2>3. Len(out) \in Nat /\ (Ids(out) # {} => Len(out) = 1)
    BY DEF Ids, Range
  <2>. HIDE DEF out
  <2>4. nextSeg <= nextSeg' /\ nextSeg' \in Nat /\ \A i \in Ids(out) : i < nextSeg'
    <3>1. nextSeg <= nextSeg' /\ nextSeg' \in Nat
      BY <2>1, <2>3, <1>t
    <3>2. ASSUME NEW i \in Ids(out) PROVE i < nextSeg'
      <4>1. i = nextSeg /\ Len(out) = 1
        BY <2>2, <2>3
      <4>2. nextSeg' = nextSeg + 1
        BY <2>1, <4>1
      <4>. QED  BY <4>1, <4>2, <1>t
    <3>. QED  BY <3>1, <3>2
  <2>5. /\ Ids(current.segs) \subseteq Nat /\ Ids(records) \subseteq Nat
        /\ Ids(flush.segs) \subseteq Nat
    BY <1>t, IdsTyped
  <2>6. \A i \in Ids(current.segs) \cup Ids(records) : i < nextSeg /\ i < nextSeg'
    BY <2>4, <2>5, <1>t DEF FilesOwned, ListsBacked
  <2>7. Ids(current.segs) \cap Ids(out) = {} /\ Ids(records) \cap Ids(out) = {}
    BY <2>2, <2>5, <2>6, <1>t
  <2>8. Backed(current.segs, files') /\ Backed(records, files')
    BY <2>1, <2>7, AddFilesKeeps DEF FilesOwned, ListsBacked
  <2>9. ListsBacked'
    BY <2>1, <2>6, <2>8 DEF ListsBacked
  <2>10. ASSUME flush.pc \in {"build", "publish"}
         PROVE  /\ \A i \in Ids(flush.segs) : i < nextSeg /\ i < nextSeg'
                /\ Ids(flush.segs) \cap Ids(out) = {}
    <3>1. \A i \in Ids(flush.segs) : i < nextSeg
      BY <2>10 DEF FilesOwned, PlanOwned
    <3>. QED  BY <3>1, <2>2, <2>4, <2>5, <1>t
  <2>11. flush.pc = "publish" => Backed(flush.segs, files')
    <3>. SUFFICES ASSUME flush.pc = "publish" PROVE Backed(flush.segs, files')
      OBVIOUS
    <3>1. Backed(flush.segs, files)
      BY DEF FilesOwned, PlanOwned
    <3>. QED  BY <3>1, <2>1, <2>10, AddFilesKeeps
  <2>12. PlanOwned'
    BY <2>1, <2>10, <2>11 DEF FilesOwned, PlanOwned
  <2>13. Backed(out, files')
    BY <2>1, <2>2, AddFilesHolds
  <2>14. /\ merge'[m].pc = "renamed" /\ merge'[m].out = out
         /\ \A n \in Mergers \ {m} : merge'[n] = merge[n]
    BY <2>1, <1>t DEF MergeState
  <2>15. \A n \in Mergers \ {m} : merge'[n].pc \notin {"renamed", "published"}
    BY <2>1, <2>14, Quiet
  <2>16. OutputOwned'
    BY <2>1, <2>4, <2>7, <2>10, <2>13, <2>14, <2>15 DEF OutputOwned
  <2>17. up
    BY <2>1 DEF FilesOwned, ThreadsOwned, NoMerge
  <2>18. ThreadsOwned'
    BY <2>1, <2>17, Quiet DEF FilesOwned, ThreadsOwned
  <2>. QED  BY <2>9, <2>12, <2>16, <2>18 DEF FilesOwned
<1>11. ASSUME NEW m \in Mergers, MergePublish(m) PROVE FilesOwned'
  <2>1. /\ merge[m].pc = "renamed"
        /\ current'.segs = merge[m].out
        /\ UNCHANGED <<files, up, records, immutables, nextSeg, lock, flush>>
    BY <1>11 DEF MergePublish, mem
  <2>2. /\ merge'[m].pc = "published" /\ merge'[m].out = merge[m].out
        /\ \A n \in Mergers \ {m} : merge'[n] = merge[n]
    BY <1>11, <1>t DEF MergePublish, MergeState
  <2>3. /\ lock = m /\ Backed(merge[m].out, files)
        /\ \A i \in Ids(merge[m].out) :
              /\ i < nextSeg /\ i \notin Ids(records)
              /\ flush.pc \in {"build", "publish"} => i \notin Ids(flush.segs)
    BY <2>1 DEF FilesOwned, OutputOwned
  <2>4. ListsBacked'
    BY <2>1, <2>3 DEF FilesOwned, ListsBacked
  <2>5. PlanOwned'
    BY <2>1, <2>3 DEF FilesOwned, PlanOwned
  <2>6. OutputOwned'
    BY <2>1, <2>2, <2>3, Alone DEF OutputOwned
  <2>7. up
    BY <2>1 DEF FilesOwned, ThreadsOwned, NoMerge
  <2>8. ThreadsOwned'
    BY <2>1, <2>7 DEF FilesOwned, ThreadsOwned
  <2>. QED  BY <2>4, <2>5, <2>6, <2>8 DEF FilesOwned
<1>12. ASSUME NEW m \in Mergers, MergeSwap(m) PROVE FilesOwned'
  <2>1. /\ merge[m].pc = "published"
        /\ records' = merge[m].out /\ merge' = [merge EXCEPT ![m] = NoMerge]
        /\ UNCHANGED <<current, up, immutables, nextSeg, flush>>
    BY <1>12 DEF MergeSwap, alloc
  <2>2. ASSUME NEW f \in files, f.id \notin Ids(records) PROVE f \in files'
    BY <1>12, <2>2 DEF MergeSwap, Ids
  <2>3. /\ Backed(merge[m].out, files) /\ current.segs = merge[m].out
        /\ \A i \in Ids(merge[m].out) :
              /\ i < nextSeg /\ i \notin Ids(records)
              /\ flush.pc \in {"build", "publish"} => i \notin Ids(flush.segs)
    BY <2>1 DEF FilesOwned, OutputOwned
  <2>4. Range(merge[m].out) \subseteq files'
    BY <2>2, <2>3 DEF Backed, Ids
  <2>5. Backed(merge[m].out, files')
    BY <2>3, <2>4, BackedKept
  <2>6. ListsBacked'
    BY <2>1, <2>3, <2>5 DEF ListsBacked
  <2>7. flush.pc = "publish" => Backed(flush.segs, files')
    <3>. SUFFICES ASSUME flush.pc = "publish" PROVE Backed(flush.segs, files')
      OBVIOUS
    <3>1. Backed(flush.segs, files) /\ \A i \in Ids(flush.segs) : i \notin Ids(records)
      BY DEF FilesOwned, PlanOwned
    <3>2. Range(flush.segs) \subseteq files'
      BY <2>2, <3>1 DEF Backed, Ids
    <3>. QED  BY <3>1, <3>2, BackedKept
  <2>8. PlanOwned'
    BY <2>1, <2>3, <2>7 DEF FilesOwned, PlanOwned
  <2>9. \A n \in Mergers : merge'[n].pc \notin {"renamed", "published"}
    BY <2>1, <1>t, Alone DEF NoMerge
  <2>10. OutputOwned'
    BY <2>9 DEF OutputOwned
  <2>11. up
    BY <2>1 DEF FilesOwned, ThreadsOwned, NoMerge
  <2>12. ThreadsOwned'
    BY <2>1, <2>11, Alone DEF FilesOwned, ThreadsOwned
  <2>. QED  BY <2>6, <2>8, <2>10, <2>12 DEF FilesOwned
<1>13. ASSUME NEW m \in Mergers, MergeFail(m) PROVE FilesOwned'
  <2>1. /\ merge' = [merge EXCEPT ![m] = NoMerge]
        /\ UNCHANGED <<files, up, records, immutables, nextSeg, flush>>
    BY <1>13 DEF MergeFail, mem
  <2>2. /\ merge'[m].pc = "idle"
        /\ \A n \in Mergers \ {m} : merge'[n] = merge[n]
    BY <2>1, <1>t DEF NoMerge
  <2>3. up
    BY <1>13 DEF MergeFail, FilesOwned, ThreadsOwned, NoMerge
  <2>4. CASE merge[m].pc = "merging" /\ UNCHANGED <<current, lock>>
    <3>1. ListsBacked' /\ PlanOwned'
      BY <2>1, <2>4 DEF FilesOwned, ListsBacked, PlanOwned
    <3>2. OutputOwned'
      BY <2>1, <2>2, <2>4 DEF FilesOwned, OutputOwned
    <3>3. ThreadsOwned'
      BY <2>1, <2>3, <2>4 DEF FilesOwned, ThreadsOwned
    <3>. QED  BY <3>1, <3>2, <3>3 DEF FilesOwned
  <2>5. CASE /\ merge[m].pc = "renamed"
             /\ current' = current \/ current'.segs = merge[m].out
    <3>1. /\ Backed(merge[m].out, files)
          /\ \A i \in Ids(merge[m].out) :
                /\ i < nextSeg
                /\ flush.pc \in {"build", "publish"} => i \notin Ids(flush.segs)
      BY <2>5 DEF FilesOwned, OutputOwned
    <3>2. ListsBacked'
      BY <2>1, <2>5, <3>1 DEF FilesOwned, ListsBacked
    <3>3. PlanOwned'
      BY <2>1, <2>5, <3>1 DEF FilesOwned, PlanOwned
    <3>4. OutputOwned'
      BY <2>2, <2>5, Alone DEF OutputOwned
    <3>5. ThreadsOwned'
      BY <2>1, <2>3, <2>5, Alone DEF FilesOwned, ThreadsOwned
    <3>. QED  BY <3>2, <3>3, <3>4, <3>5 DEF FilesOwned
  <2>. QED  BY <1>13, <2>4, <2>5 DEF MergeFail
<1>14. ASSUME Crash PROVE FilesOwned'
  <2>1. /\ records' = <<>> /\ immutables' = <<>>
        /\ flush' = NoFlush /\ merge' = [m \in Mergers |-> NoMerge]
        /\ UNCHANGED <<files, current, nextSeg>>
    BY <1>14 DEF Crash, alloc
  <2>2. ListsBacked'
    BY <2>1, EmptyBacked DEF FilesOwned, ListsBacked
  <2>3. PlanOwned' /\ OutputOwned' /\ ThreadsOwned'
    BY <2>1 DEF PlanOwned, OutputOwned, ThreadsOwned, NoFlush, NoMerge
  <2>. QED  BY <2>2, <2>3 DEF FilesOwned
<1>15. ASSUME Open PROVE FilesOwned'
  <2>1. /\ ~up /\ records' = current.segs
        /\ UNCHANGED <<files, current, immutables, lock, flush, merge>>
    BY <1>15 DEF Open, threads
  <2>2. \A i \in Ids(current.segs) : i < nextSeg'
    BY <1>15 DEF Open, IsNext, Ids
  <2>3. ListsBacked'
    BY <2>1, <2>2 DEF FilesOwned, ListsBacked
  <2>4. flush = NoFlush /\ merge = [m \in Mergers |-> NoMerge]
    BY <2>1 DEF FilesOwned, ThreadsOwned
  <2>5. PlanOwned' /\ OutputOwned'
    BY <2>1, <2>4 DEF PlanOwned, OutputOwned, NoFlush, NoMerge
  <2>6. ThreadsOwned'
    BY <2>1, <2>4 DEF FilesOwned, ThreadsOwned, NoFlush
  <2>. QED  BY <2>3, <2>5, <2>6 DEF FilesOwned
<1>16. CASE UNCHANGED vars
  <2>1. UNCHANGED <<files, current, up, immutables, records, nextSeg, lock, flush, merge>>
    BY <1>16 DEF vars, disk, mem, alloc, threads
  <2>. QED  BY <2>1, FilesStutter
<1>. QED
  BY <1>1, <1>2, <1>3, <1>4, <1>5, <1>6, <1>7, <1>8, <1>9, <1>10, <1>11, <1>12, <1>13, <1>14,
     <1>15, <1>16
  DEF Next, Writers, Flusher, Merger

\* Every file id has one owner, in every behaviour: a restart at any instant finds every
\* segment CURRENT lists on disk, whatever a flush or a compaction was doing, whichever of
\* their steps failed, and although segment ids are handed out again after a restart
\* (db.rs:814-820).
THEOREM FilesAlwaysOwned == Spec => []FilesOwned
<1>1. Init => FilesOwned
  BY FilesInit
<1>2. TypeOK /\ FilesOwned /\ [Next]_vars => FilesOwned'
  BY FilesNext
<1>. QED  BY <1>1, <1>2, TypeCorrect, PTL DEF Spec

-----------------------------------------------------------------------------
(* Generations *)

\* State is at or past the generation on disk.
GenAhead == current.gen <= gen

LEMMA GenNext ==
    ASSUME TypeOK, GenAhead, [Next]_vars
    PROVE  /\ GenAhead'
           /\ current' # current => current.gen < current'.gen
<1>. USE DEF GenAhead
<1>1. gen \in Nat /\ current.gen \in Nat
  BY ManifestTyped DEF TypeOK
<1>2. CASE gen' = gen + 1 /\ current'.gen = gen'
  BY <1>1, <1>2
<1>3. CASE gen' = gen + 1 /\ current' = current
  BY <1>1, <1>3
<1>4. CASE gen' = current.gen /\ current' = current
  BY <1>1, <1>4
<1>5. CASE UNCHANGED <<gen, current>>
  BY <1>5
<1>6. ASSUME Writers \/ Rotate PROVE UNCHANGED <<gen, current>>
  BY <1>6 DEF Writers, WriteAppend, WriteAppendFail, WriteApply, WriteSyncFail, Rotate, disk, alloc
<1>7. ASSUME FlushPublish \/ FlushPublishFail
      PROVE  gen' = gen + 1 /\ (current'.gen = gen' \/ current' = current)
  BY <1>7 DEF FlushPublish, FlushPublishFail, NextGen
<1>8. ASSUME \/ FlushPhaseA \/ FlushPhaseB \/ FlushPhaseBFail
             \/ FlushTruncate \/ FlushReappend \/ FlushRewriteFail
      PROVE  UNCHANGED <<gen, current>>
  BY <1>8 DEF FlushPhaseA, FlushPhaseB, FlushPhaseBFail, FlushTruncate, FlushReappend,
              FlushRewriteFail, disk, alloc
<1>9. ASSUME NEW m \in Mergers, MergePublish(m)
      PROVE  gen' = gen + 1 /\ current'.gen = gen'
  BY <1>9 DEF MergePublish, NextGen
<1>10. ASSUME NEW m \in Mergers, MergeFail(m)
       PROVE  \/ UNCHANGED <<gen, current>>
              \/ gen' = gen + 1 /\ (current'.gen = gen' \/ current' = current)
  BY <1>10 DEF MergeFail, NextGen
<1>11. ASSUME NEW m \in Mergers,
              MergeCapture(m) \/ MergeStale(m) \/ MergeRename(m) \/ MergeSwap(m)
       PROVE  UNCHANGED <<gen, current>>
  BY <1>11 DEF MergeCapture, MergeStale, MergeRename, MergeSwap, disk, alloc
<1>12. ASSUME Crash PROVE UNCHANGED <<gen, current>>
  BY <1>12 DEF Crash, alloc
<1>13. ASSUME Open PROVE gen' = current.gen /\ current' = current
  BY <1>13 DEF Open
<1>14. CASE UNCHANGED vars
  BY <1>14, <1>5 DEF vars, disk, alloc
<1>. QED
  BY <1>2, <1>3, <1>4, <1>5, <1>6, <1>7, <1>8, <1>9, <1>10, <1>11, <1>12, <1>13, <1>14
  DEF Next, Flusher, Merger

\* What replaces the published manifest is always newer: a flush and a compaction
\* that race, or a publication that failed half-way, never bring an older one back.
THEOREM GenerationAlwaysAdvances == Spec => GenerationAdvances
<1>1. Init => GenAhead
  BY DEF Init, GenAhead
<1>2. TypeOK /\ GenAhead /\ [Next]_vars => GenAhead'
  BY GenNext
<1>3. Spec => []GenAhead
  BY <1>1, <1>2, TypeCorrect, PTL DEF Spec
<1>4. TypeOK /\ GenAhead /\ [Next]_vars
        => [current' # current => current.gen < current'.gen]_vars
  BY GenNext
<1>. QED  BY <1>3, <1>4, TypeCorrect, PTL DEF Spec, GenerationAdvances
=============================================================================
