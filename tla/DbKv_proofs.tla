----------------------------- MODULE DbKv_proofs -----------------------------
(***************************************************************************)
(* Theorems about the data of the engine: what is acked is durable, the    *)
(* layers are sound, and Db implements KvStore.                            *)
(*                                                                         *)
(* The argument is about three things: the history of writes, the log (the *)
(* WAL, or the tail phase C is about to write back) and sets of rows that  *)
(* lie below it.  Log(w, h) says how the log follows the history, and      *)
(* Base(U, w, h) that the rows U may lie below it.  View concludes that U  *)
(* with the acked frames, and any others, answers a lookup as the writes   *)
(* of the history do.  Both the published and the attached segments are    *)
(* such a U: a flush moves frames from the log to U (Truncating), a merge  *)
(* keeps the newest rows of U (BaseMerged), a write appends to the log     *)
(* (Appending) or settles (Growth), a crash cuts it (Cutting).             *)
(***************************************************************************)
EXTENDS DbKv, Db_proofs, WellFoundedInduction

-----------------------------------------------------------------------------
(* Rows and tables *)

\* v is what the newest row of k in U says, None when U has no row of k.
NewestIs(U, k, v) ==
    \/ v = None /\ ~Holds(U, k)
    \/ \E r \in U : r.key = k /\ r.val = v /\ \A q \in U : q.key = k => q.seq <= r.seq

\* A key has one row per sequence number.
Unique(U) == \A r, q \in U : r.key = q.key /\ r.seq = q.seq => r = q

\* Table t may lie on top of the rows U.
Above(U, t) == \A r \in U : Holds(t, r.key) => \E q \in t : q.key = r.key /\ r.seq <= q.seq

TableRows(ts) == UNION {ts[i] : i \in DOMAIN ts}
Rows(segs) == UNION {segs[i].rows : i \in DOMAIN segs}

\* A set of naturals has a least element.
LEMMA Least == ASSUME NEW T \in SUBSET Nat, T # {} PROVE \E x \in T : \A y \in T : ~ (y < x)
<1>1. PICK x \in T : \A y \in T : ~ (<<y, x>> \in OpToRel(<, Nat))
  BY WFMin, NatLessThanWellFounded
<1>2. \A y \in T : <<y, x>> \in OpToRel(<, Nat) <=> y < x
  BY DEF OpToRel
<1>. QED  BY <1>1, <1>2

\* A set of indices has a largest one.
LEMMA Largest ==
    ASSUME NEW n \in Nat, NEW S \in SUBSET (1 .. n), S # {}
    PROVE  \E x \in S : \A y \in S : y <= x
<1>. DEFINE T == {n - x : x \in S}
<1>1. T \in SUBSET Nat /\ T # {}
  <2>1. \A x \in S : n - x \in Nat
    OBVIOUS
  <2>2. PICK x \in S : TRUE
    OBVIOUS
  <2>3. n - x \in T
    BY <2>2
  <2>. QED  BY <2>1, <2>3
<1>. HIDE DEF T
<1>2. PICK t \in T : \A y \in T : ~ (y < t)
  BY <1>1, Least
<1>3. PICK x \in S : t = n - x
  BY DEF T
<1>4. ASSUME NEW y \in S PROVE y <= x
  <2>1. n - y \in T
    BY DEF T
  <2>2. ~ (n - y < n - x)
    BY <1>2, <1>3, <2>1
  <2>. QED  BY <2>2
<1>. QED  BY <1>4

\* What a lookup finds: where no layer hides a newer row, the newest row of the key.
LEMMA LookupNewest ==
    ASSUME NEW layers \in Seq(SUBSET Row), OrderedLayers(layers),
           Unique(TableRows(layers)), NEW k, NEW v, NewestIs(TableRows(layers), k, v)
    PROVE  Lookup(layers, k) = v
<1>. DEFINE hits == {i \in DOMAIN layers : Holds(layers[i], k)}
            U    == TableRows(layers)
<1>1. DOMAIN layers = 1 .. Len(layers) /\ Len(layers) \in Nat
  OBVIOUS
<1>2. \A r \in U : r \in Row /\ r.seq \in Nat
  BY <1>1 DEF TableRows, Row
<1>3. \A i \in DOMAIN layers : layers[i] \subseteq U
  BY DEF TableRows
<1>4. CASE hits = {}
  <2>1. ~Holds(U, k)
    BY <1>4 DEF TableRows, Holds
  <2>2. v = None
    BY <2>1 DEF NewestIs, Holds
  <2>. QED  BY <1>4, <2>2 DEF Lookup
<1>5. CASE hits # {}
  <2>1. PICK m \in hits : \A j \in hits : j <= m
    <3>1. hits \in SUBSET (1 .. Len(layers))
      BY <1>1
    <3>. HIDE DEF hits
    <3>. QED  BY <1>1, <1>5, <3>1, Largest
  <2>2. (CHOOSE i \in hits : \A j \in hits : j <= i) = m
    <3>1. \A i \in hits : (\A j \in hits : j <= i) => i = m
      BY <1>1, <2>1
    <3>. HIDE DEF hits
    <3>. QED  BY <2>1, <3>1
  <2>3. m \in DOMAIN layers /\ Holds(layers[m], k)
    OBVIOUS
  <2>4. Holds(U, k)
    BY <1>3, <2>3 DEF Holds
  <2>5. PICK r \in U : r.key = k /\ r.val = v /\ \A q \in U : q.key = k => q.seq <= r.seq
    BY <2>4 DEF NewestIs
  <2>6. r \in layers[m]
    <3>1. PICK i \in DOMAIN layers : r \in layers[i]
      BY DEF TableRows
    <3>2. i \in hits
      BY <2>5, <3>1 DEF Holds
    <3>3. i <= m
      BY <2>1, <3>2
    <3>4. CASE i = m
      BY <3>1, <3>4
    <3>5. CASE i < m
      <4>1. PICK q \in layers[m] : q.key = k /\ r.seq <= q.seq
        BY <2>3, <2>5, <3>1, <3>5 DEF OrderedLayers
      <4>2. q \in U /\ q.seq <= r.seq
        BY <1>3, <2>3, <2>5, <4>1
      <4>3. q.seq = r.seq
        BY <1>2, <4>1, <4>2
      <4>. QED  BY <2>5, <4>1, <4>2, <4>3 DEF Unique
    <3>. QED  BY <1>1, <3>3, <3>4, <3>5
  <2>7. Head1(layers[m], k) = r
    <3>1. r.key = k /\ \A q \in layers[m] : q.key = k => q.seq <= r.seq
      BY <1>3, <2>3, <2>5
    <3>2. ASSUME NEW x \in layers[m], x.key = k,
                 \A q \in layers[m] : q.key = k => q.seq <= x.seq
          PROVE  x = r
      <4>1. x \in U /\ x.seq <= r.seq /\ r.seq <= x.seq
        BY <1>3, <2>3, <2>5, <2>6, <3>2
      <4>2. x.seq = r.seq
        BY <1>2, <4>1
      <4>. QED  BY <2>5, <3>2, <4>1, <4>2 DEF Unique
    <3>. QED  BY <2>6, <3>1, <3>2 DEF Head1
  <2>. QED  BY <1>5, <2>2, <2>5, <2>7 DEF Lookup
<1>. QED  BY <1>4, <1>5

-----------------------------------------------------------------------------
(* The log and the history *)

Acked(h) == {i \in DOMAIN h : h[i].st = "acked"}
AckedIn(w, h) == {i \in DOMAIN w : h[w[i].wid].st = "acked"}
FrameRows(w, I) == UNION {RowsOf(w[i]) : i \in I}
Wids(w, I) == {w[i].wid : i \in I}

\* v is what the writes W of h leave in k.
IsLatest(h, W, k, v) ==
    \/ v = None /\ \A i \in W : k \notin DOMAIN h[i].ops
    \/ \E i \in W : /\ k \in DOMAIN h[i].ops
                    /\ \A j \in W : k \in DOMAIN h[j].ops => j <= i
                    /\ v = IF h[i].ops[k] = "put" THEN i ELSE None

\* The rows U answer for k what the writes W leave in it.
Shows(U, h, W, k) == \E v : IsLatest(h, W, k, v) /\ NewestIs(U, k, v)

\* The frames of w are of writes of h, in their order; only the last may be torn and
\* only if it was not acked; no acked write is missing between two frames.
Log(w, h) ==
    /\ w \in Seq(Frame) /\ h \in Seq(Write)
    /\ \A i \in DOMAIN w : /\ w[i].wid \in DOMAIN h /\ w[i].ops = h[w[i].wid].ops
                           /\ h[w[i].wid].st # "lost"
    /\ \A i, j \in DOMAIN w : i < j => w[i].wid < w[j].wid /\ w[i].seq < w[j].seq /\ w[i].ok
    /\ \A i \in AckedIn(w, h) : w[i].ok
    /\ \A a \in Acked(h), i \in DOMAIN w :
          w[i].wid <= a => \E j \in AckedIn(w, h) : w[j].wid = a

\* The rows U may lie below the log w: none is newer than a frame unless it is in an
\* acked one, and U is right about the keys no acked frame touches.
Base(U, w, h) ==
    /\ \A r \in U : r \in FrameRows(w, AckedIn(w, h)) \/ \A i \in DOMAIN w : r.seq < w[i].seq
    /\ \A k \in Keys : (\A i \in AckedIn(w, h) : k \notin DOMAIN w[i].ops)
                          => Shows(U, h, Acked(h), k)

LEMMA RowOfFrame ==
    ASSUME NEW f
    PROVE  /\ \A r \in RowsOf(f) : /\ r.key \in DOMAIN f.ops /\ r.seq = f.seq
                                   /\ r.val = IF f.ops[r.key] = "put" THEN f.wid ELSE None
           /\ \A k \in DOMAIN f.ops : \E r \in RowsOf(f) :
                 /\ r.key = k /\ r.seq = f.seq
                 /\ r.val = IF f.ops[k] = "put" THEN f.wid ELSE None
<1>1. ASSUME NEW k \in DOMAIN f.ops
      PROVE  \E r \in RowsOf(f) : /\ r.key = k /\ r.seq = f.seq
                                  /\ r.val = IF f.ops[k] = "put" THEN f.wid ELSE None
  <2>. DEFINE r == [key |-> k, seq |-> f.seq,
                    val |-> IF f.ops[k] = "put" THEN f.wid ELSE None]
  <2>1. r \in RowsOf(f)
    BY DEF RowsOf
  <2>. QED  BY <2>1
<1>2. ASSUME NEW r \in RowsOf(f)
      PROVE  /\ r.key \in DOMAIN f.ops /\ r.seq = f.seq
             /\ r.val = IF f.ops[r.key] = "put" THEN f.wid ELSE None
  BY DEF RowsOf
<1>. QED  BY <1>1, <1>2

LEMMA LogTyped ==
    ASSUME NEW w, NEW h, Log(w, h)
    PROVE  /\ w \in Seq(Frame) /\ DOMAIN w = 1 .. Len(w) /\ Len(w) \in Nat
           /\ \A i \in DOMAIN w : w[i].wid \in Nat /\ w[i].seq \in Nat
           /\ DOMAIN h = 1 .. Len(h) /\ Len(h) \in Nat /\ AckedIn(w, h) \subseteq DOMAIN w
           /\ Acked(h) \subseteq DOMAIN h
<1>1. w \in Seq(Frame) /\ h \in Seq(Write)
  BY DEF Log
<1>2. DOMAIN w = 1 .. Len(w) /\ Len(w) \in Nat /\ \A i \in DOMAIN w : w[i] \in Frame
  BY <1>1
<1>3. \A i \in DOMAIN w : w[i].wid \in Nat /\ w[i].seq \in Nat
  BY <1>2 DEF Frame
<1>4. DOMAIN h = 1 .. Len(h) /\ Len(h) \in Nat
  BY <1>1
<1>. QED  BY <1>1, <1>2, <1>3, <1>4 DEF AckedIn, Acked

\* What rows below the log and some of its frames answer together, as long as the
\* frames are at least the acked ones.
LEMMA View ==
    ASSUME NEW w, NEW h, Log(w, h), NEW B \in SUBSET Row, Base(B, w, h),
           NEW J \in SUBSET DOMAIN w, AckedIn(w, h) \subseteq J, NEW k \in Keys
    PROVE  Shows(B \cup FrameRows(w, J), h, Acked(h) \cup Wids(w, J), k)
<1>. DEFINE W == Acked(h) \cup Wids(w, J)
            U == B \cup FrameRows(w, J)
            T == {i \in J : k \in DOMAIN w[i].ops}
<1>1. /\ DOMAIN w = 1 .. Len(w) /\ Len(w) \in Nat
      /\ \A i \in DOMAIN w : w[i].wid \in Nat /\ w[i].seq \in Nat
      /\ DOMAIN h = 1 .. Len(h) /\ Len(h) \in Nat
  BY LogTyped
<1>2. \A i \in DOMAIN w : w[i].wid \in DOMAIN h /\ w[i].ops = h[w[i].wid].ops
  BY DEF Log
<1>3. \A i, j \in DOMAIN w : i < j => w[i].wid < w[j].wid /\ w[i].seq < w[j].seq
  BY DEF Log
<1>4. \A r \in B : r.seq \in Nat
  BY DEF Row
<1>5. CASE T = {}
  <2>1. \A i \in AckedIn(w, h) : k \notin DOMAIN w[i].ops
    BY <1>5
  <2>2. PICK v : IsLatest(h, Acked(h), k, v) /\ NewestIs(B, k, v)
    BY <2>1 DEF Base, Shows
  <2>3. \A i \in Wids(w, J) : k \notin DOMAIN h[i].ops
    BY <1>2, <1>5 DEF Wids
  <2>4. IsLatest(h, W, k, v)
    BY <2>2, <2>3 DEF IsLatest
  <2>5. \A r \in FrameRows(w, J) : r.key # k
    BY <1>5, RowOfFrame DEF FrameRows
  <2>6. NewestIs(U, k, v)
    BY <2>2, <2>5 DEF NewestIs, Holds
  <2>. QED  BY <2>4, <2>6 DEF Shows
<1>6. CASE T # {}
  <2>1. PICK i \in T : \A j \in T : j <= i
    <3>1. T \in SUBSET (1 .. Len(w))
      BY <1>1
    <3>. HIDE DEF T
    <3>. QED  BY <1>1, <1>6, <3>1, Largest
  <2>2. i \in J /\ i \in DOMAIN w /\ k \in DOMAIN w[i].ops
    OBVIOUS
  <2>. DEFINE v == IF w[i].ops[k] = "put" THEN w[i].wid ELSE None
  <2>3. \A j \in T : w[j].wid <= w[i].wid /\ w[j].seq <= w[i].seq
    <3>. SUFFICES ASSUME NEW j \in T PROVE w[j].wid <= w[i].wid /\ w[j].seq <= w[i].seq
      OBVIOUS
    <3>1. j \in DOMAIN w /\ j <= i
      BY <2>1
    <3>2. CASE j = i
      BY <1>1, <2>2, <3>2
    <3>3. CASE j < i
      BY <1>1, <1>3, <2>2, <3>1, <3>3
    <3>. QED  BY <1>1, <2>2, <3>1, <3>2, <3>3
  <2>4. ASSUME NEW a \in W, k \in DOMAIN h[a].ops PROVE a <= w[i].wid
    <3>1. CASE a \in Wids(w, J)
      <4>1. PICK j \in J : a = w[j].wid
        BY <3>1 DEF Wids
      <4>2. j \in T
        BY <1>2, <2>4, <4>1
      <4>. QED  BY <2>3, <4>1, <4>2
    <3>2. CASE a \in Acked(h)
      <4>1. a \in Nat /\ w[i].wid \in Nat
        BY <1>1, <2>2, <3>2 DEF Acked
      <4>2. ASSUME w[i].wid <= a PROVE a <= w[i].wid
        <5>1. PICK j \in AckedIn(w, h) : w[j].wid = a
          BY <2>2, <3>2, <4>2 DEF Log
        <5>2. j \in DOMAIN w /\ j \in J
          BY DEF AckedIn
        <5>3. j \in T
          BY <1>2, <2>4, <5>1, <5>2
        <5>. QED  BY <2>3, <5>1, <5>3
      <4>. QED  BY <4>1, <4>2
    <3>. QED  BY <3>1, <3>2
  <2>5. w[i].wid \in W
    BY <2>2 DEF Wids
  <2>6. IsLatest(h, W, k, v)
    BY <1>2, <2>2, <2>4, <2>5 DEF IsLatest
  <2>7. PICK r \in RowsOf(w[i]) : r.key = k /\ r.seq = w[i].seq /\ r.val = v
    BY <2>2, RowOfFrame
  <2>8. r \in U
    BY <2>2 DEF FrameRows
  <2>9. \A q \in FrameRows(w, J) : q.key = k => q.seq <= w[i].seq
    <3>. SUFFICES ASSUME NEW q \in FrameRows(w, J), q.key = k PROVE q.seq <= w[i].seq
      OBVIOUS
    <3>1. PICK j \in J : q \in RowsOf(w[j])
      BY DEF FrameRows
    <3>2. k \in DOMAIN w[j].ops /\ q.seq = w[j].seq
      BY <3>1, RowOfFrame
    <3>. QED  BY <2>3, <3>2
  <2>10. \A q \in B : q.key = k => q.seq <= w[i].seq
    <3>. SUFFICES ASSUME NEW q \in B, q.key = k PROVE q.seq <= w[i].seq
      OBVIOUS
    <3>1. CASE q \in FrameRows(w, AckedIn(w, h))
      <4>1. q \in FrameRows(w, J)
        BY <3>1 DEF FrameRows
      <4>. QED  BY <2>9, <4>1
    <3>2. CASE \A j \in DOMAIN w : q.seq < w[j].seq
      BY <1>1, <1>4, <2>2, <3>2
    <3>. QED  BY <3>1, <3>2 DEF Base
  <2>11. NewestIs(U, k, v)
    BY <2>7, <2>8, <2>9, <2>10 DEF NewestIs
  <2>. QED  BY <2>6, <2>11 DEF Shows
<1>. QED  BY <1>5, <1>6

\* Rows of acked frames may join the rows below the log.
LEMMA BaseJoin ==
    ASSUME NEW w, NEW h, NEW B, Base(B, w, h),
           NEW F \in SUBSET FrameRows(w, AckedIn(w, h))
    PROVE  Base(B \cup F, w, h)
<1>1. ASSUME NEW k \in Keys, \A i \in AckedIn(w, h) : k \notin DOMAIN w[i].ops
      PROVE  Shows(B \cup F, h, Acked(h), k)
  <2>1. PICK v : IsLatest(h, Acked(h), k, v) /\ NewestIs(B, k, v)
    BY <1>1 DEF Base, Shows
  <2>2. \A r \in F : r.key # k
    BY <1>1, RowOfFrame DEF FrameRows
  <2>3. NewestIs(B \cup F, k, v)
    BY <2>1, <2>2 DEF NewestIs, Holds
  <2>. QED  BY <2>1, <2>3 DEF Shows
<1>. QED  BY <1>1 DEF Base

\* What a compaction keeps of the rows U.
Kept(U) == {r \in U : (\A q \in U : q.key = r.key => q.seq <= r.seq) /\ r.val # None}

LEMMA KeptAnswers ==
    ASSUME NEW U \in SUBSET Row, Unique(U), NEW k, NEW v, NewestIs(U, k, v)
    PROVE  NewestIs(Kept(U), k, v)
<1>1. CASE ~Holds(U, k)
  BY <1>1 DEF NewestIs, Holds, Kept
<1>2. CASE Holds(U, k)
  <2>1. PICK r \in U : r.key = k /\ r.val = v /\ \A q \in U : q.key = k => q.seq <= r.seq
    BY <1>2 DEF NewestIs
  <2>2. CASE v # None
    BY <2>1, <2>2 DEF NewestIs, Kept
  <2>3. CASE v = None
    <3>1. ASSUME NEW q \in Kept(U), q.key = k PROVE FALSE
      <4>1. q \in U /\ q.seq <= r.seq /\ r.seq <= q.seq /\ q.val # None
        BY <2>1, <3>1 DEF Kept
      <4>2. q.seq \in Nat /\ r.seq \in Nat
        BY <4>1 DEF Row
      <4>3. q.seq = r.seq
        BY <4>1, <4>2
      <4>. QED  BY <2>1, <2>3, <3>1, <4>1, <4>3 DEF Unique
    <3>. QED  BY <2>3, <3>1 DEF NewestIs, Holds
  <2>. QED  BY <2>2, <2>3
<1>. QED  BY <1>1, <1>2

LEMMA BaseMerged ==
    ASSUME NEW w, NEW h, NEW U \in SUBSET Row, Unique(U), Base(U, w, h)
    PROVE  Base(Kept(U), w, h)
<1>1. \A k \in Keys : Shows(U, h, Acked(h), k) => Shows(Kept(U), h, Acked(h), k)
  BY KeptAnswers DEF Shows
<1>2. Kept(U) \subseteq U
  BY DEF Kept
<1>. QED  BY <1>1, <1>2 DEF Base

\* More writes are known, acked or failed; whichever were acked have their frames.
Grown(w, h, h2) ==
    /\ h2 \in Seq(Write)
    /\ \A i \in DOMAIN h : i \in DOMAIN h2 /\ h2[i].ops = h[i].ops
    /\ Acked(h) \subseteq Acked(h2)
    /\ Acked(h2) \subseteq Acked(h) \cup Wids(w, AckedIn(w, h2))
    /\ \A i \in DOMAIN w : h2[w[i].wid].st # "lost" /\ (i \in AckedIn(w, h2) => w[i].ok)

LEMMA Growth ==
    ASSUME NEW w, NEW h, NEW h2, Log(w, h), Grown(w, h, h2)
    PROVE  /\ Log(w, h2) /\ AckedIn(w, h) \subseteq AckedIn(w, h2)
           /\ \A B : Base(B, w, h) => Base(B, w, h2)
<1>1. \A i \in DOMAIN w : w[i].wid \in DOMAIN h /\ w[i].ops = h[w[i].wid].ops
  BY DEF Log
<1>2. AckedIn(w, h) \subseteq AckedIn(w, h2)
  BY <1>1 DEF AckedIn, Acked, Grown
<1>3. ASSUME NEW a \in Acked(h2), NEW i \in DOMAIN w, w[i].wid <= a
      PROVE  \E j \in AckedIn(w, h2) : w[j].wid = a
  <2>1. CASE a \in Acked(h)
    BY <1>2, <1>3, <2>1 DEF Log
  <2>2. CASE a \in Wids(w, AckedIn(w, h2))
    BY <2>2 DEF Wids
  <2>. QED  BY <2>1, <2>2 DEF Grown
<1>4. Log(w, h2)
  <2>1. \A i \in DOMAIN w : /\ w[i].wid \in DOMAIN h2 /\ w[i].ops = h2[w[i].wid].ops
                            /\ h2[w[i].wid].st # "lost"
    BY <1>1 DEF Grown
  <2>2. h2 \in Seq(Write) /\ \A i \in AckedIn(w, h2) : w[i].ok
    BY DEF Grown, AckedIn
  <2>. QED  BY <1>3, <2>1, <2>2 DEF Log
<1>5. ASSUME NEW B, Base(B, w, h) PROVE Base(B, w, h2)
  <2>1. \A r \in FrameRows(w, AckedIn(w, h)) : r \in FrameRows(w, AckedIn(w, h2))
    BY <1>2 DEF FrameRows
  <2>2. ASSUME NEW k \in Keys, \A i \in AckedIn(w, h2) : k \notin DOMAIN w[i].ops
        PROVE  Shows(B, h2, Acked(h2), k)
    <3>1. PICK v : IsLatest(h, Acked(h), k, v) /\ NewestIs(B, k, v)
      BY <1>2, <1>5, <2>2 DEF Base, Shows
    <3>2. \A a \in Acked(h) : a \in Acked(h2) /\ h2[a].ops = h[a].ops
      BY DEF Grown, Acked
    <3>3. \A a \in Acked(h2) \ Acked(h) : k \notin DOMAIN h2[a].ops
      <4>. SUFFICES ASSUME NEW a \in Acked(h2) \ Acked(h) PROVE k \notin DOMAIN h2[a].ops
        OBVIOUS
      <4>1. PICK i \in AckedIn(w, h2) : a = w[i].wid
        BY DEF Grown, Wids
      <4>2. i \in DOMAIN w /\ h2[a].ops = w[i].ops
        BY <1>1, <4>1 DEF AckedIn, Grown
      <4>. QED  BY <2>2, <4>1, <4>2
    <3>4. IsLatest(h2, Acked(h2), k, v)
      <4>1. CASE v = None /\ \A i \in Acked(h) : k \notin DOMAIN h[i].ops
        BY <3>2, <3>3, <4>1 DEF IsLatest
      <4>2. CASE \E i \in Acked(h) : /\ k \in DOMAIN h[i].ops
                                     /\ \A j \in Acked(h) : k \in DOMAIN h[j].ops => j <= i
                                     /\ v = IF h[i].ops[k] = "put" THEN i ELSE None
        <5>1. PICK i \in Acked(h) : /\ k \in DOMAIN h[i].ops
                                    /\ \A j \in Acked(h) : k \in DOMAIN h[j].ops => j <= i
                                    /\ v = IF h[i].ops[k] = "put" THEN i ELSE None
          BY <4>2
        <5>2. \A j \in Acked(h2) : k \in DOMAIN h2[j].ops => j <= i
          BY <3>2, <3>3, <5>1
        <5>. QED  BY <3>2, <5>1, <5>2 DEF IsLatest
      <4>. QED  BY <3>1, <4>1, <4>2 DEF IsLatest
    <3>. QED  BY <3>1, <3>4 DEF Shows
  <2>. QED  BY <1>5, <2>1, <2>2 DEF Base
<1>. QED  BY <1>2, <1>4, <1>5

\* A tail of the log is gone, and perhaps its last frame torn, but no acked frame.
CutTo(w, w2, h) ==
    /\ w2 \in Seq(Frame) /\ DOMAIN w2 \subseteq DOMAIN w
    /\ \A i \in DOMAIN w2 : w2[i].wid = w[i].wid /\ w2[i].seq = w[i].seq /\ w2[i].ops = w[i].ops
    /\ \A i, j \in DOMAIN w2 : i < j => w2[i].ok
    /\ \A i \in AckedIn(w, h) : i \in DOMAIN w2 /\ w2[i].ok

LEMMA RowsOfSame ==
    ASSUME NEW f, NEW g, f.wid = g.wid, f.seq = g.seq, f.ops = g.ops
    PROVE  RowsOf(f) = RowsOf(g)
BY DEF RowsOf

LEMMA Cutting ==
    ASSUME NEW w, NEW w2, NEW h, Log(w, h), CutTo(w, w2, h)
    PROVE  /\ Log(w2, h) /\ AckedIn(w2, h) = AckedIn(w, h)
           /\ \A I \in SUBSET DOMAIN w2 : FrameRows(w2, I) = FrameRows(w, I)
           /\ \A B : Base(B, w, h) => Base(B, w2, h)
<1>1. AckedIn(w2, h) = AckedIn(w, h)
  BY DEF AckedIn, CutTo
<1>2. \A i \in DOMAIN w2 : RowsOf(w2[i]) = RowsOf(w[i])
  BY RowsOfSame DEF CutTo
<1>3. \A I \in SUBSET DOMAIN w2 : FrameRows(w2, I) = FrameRows(w, I)
  BY <1>2 DEF FrameRows
<1>4. \A i \in DOMAIN w2 : /\ i \in DOMAIN w /\ w2[i].wid = w[i].wid
                           /\ w2[i].seq = w[i].seq /\ w2[i].ops = w[i].ops
  BY DEF CutTo
<1>5. Log(w2, h)
  <2>1. \A i \in DOMAIN w2 : /\ w2[i].wid \in DOMAIN h /\ w2[i].ops = h[w2[i].wid].ops
                             /\ h[w2[i].wid].st # "lost"
    BY <1>4 DEF Log
  <2>2. \A i, j \in DOMAIN w2 : i < j => w2[i].wid < w2[j].wid /\ w2[i].seq < w2[j].seq
    BY <1>4 DEF Log
  <2>3. ASSUME NEW a \in Acked(h), NEW i \in DOMAIN w2, w2[i].wid <= a
        PROVE  \E j \in AckedIn(w2, h) : w2[j].wid = a
    <3>1. PICK j \in AckedIn(w, h) : w[j].wid = a
      BY <1>4, <2>3 DEF Log
    <3>. QED  BY <1>1, <1>4, <3>1 DEF AckedIn
  <2>4. \A i \in AckedIn(w2, h) : w2[i].ok
    BY <1>1 DEF CutTo
  <2>5. w2 \in Seq(Frame) /\ h \in Seq(Write) /\ \A i, j \in DOMAIN w2 : i < j => w2[i].ok
    BY DEF CutTo, Log
  <2>. QED  BY <2>1, <2>2, <2>3, <2>4, <2>5 DEF Log
<1>6. AckedIn(w, h) \subseteq DOMAIN w2
  BY <1>1 DEF AckedIn
<1>7. FrameRows(w2, AckedIn(w2, h)) = FrameRows(w, AckedIn(w, h))
  BY <1>1, <1>3, <1>6
<1>8. ASSUME NEW B, Base(B, w, h) PROVE Base(B, w2, h)
  <2>1. \A r \in B : r \in FrameRows(w2, AckedIn(w2, h)) \/ \A i \in DOMAIN w2 : r.seq < w2[i].seq
    BY <1>4, <1>7, <1>8 DEF Base
  <2>2. \A i \in AckedIn(w, h) : w2[i].ops = w[i].ops
    BY <1>4, <1>6
  <2>. QED  BY <1>1, <1>8, <2>1, <2>2 DEF Base
<1>. QED  BY <1>1, <1>3, <1>5, <1>8

\* One more write is in flight, its frame the newest.
LEMMA Appending ==
    ASSUME NEW w, NEW h, Log(w, h), NEW f \in Frame, NEW x \in Write,
           f.wid = Len(h) + 1, f.ops = x.ops, x.st = "pending",
           \A i \in DOMAIN w : w[i].ok /\ w[i].seq < f.seq
    PROVE  /\ Log(Append(w, f), Append(h, x))
           /\ AckedIn(Append(w, f), Append(h, x)) = AckedIn(w, h)
           /\ Acked(Append(h, x)) = Acked(h)
           /\ \A I \in SUBSET DOMAIN w : FrameRows(Append(w, f), I) = FrameRows(w, I)
           /\ \A B : Base(B, w, h) /\ (\A r \in B : r.seq < f.seq)
                        => Base(B, Append(w, f), Append(h, x))
<1>. DEFINE w2 == Append(w, f)
            h2 == Append(h, x)
<1>1. /\ w \in Seq(Frame) /\ DOMAIN w = 1 .. Len(w) /\ Len(w) \in Nat
      /\ \A i \in DOMAIN w : w[i].wid \in Nat /\ w[i].seq \in Nat
      /\ DOMAIN h = 1 .. Len(h) /\ Len(h) \in Nat
  BY LogTyped
<1>2. h \in Seq(Write)
  BY DEF Log
<1>3. /\ w2 \in Seq(Frame) /\ DOMAIN w2 = DOMAIN w \cup {Len(w) + 1}
      /\ w2[Len(w) + 1] = f /\ \A i \in DOMAIN w : w2[i] = w[i]
  BY <1>1
<1>4. /\ h2 \in Seq(Write) /\ DOMAIN h2 = DOMAIN h \cup {Len(h) + 1}
      /\ h2[Len(h) + 1] = x /\ \A i \in DOMAIN h : h2[i] = h[i]
  BY <1>1, <1>2
<1>5. \A i \in DOMAIN w : w[i].wid \in DOMAIN h /\ w[i].ops = h[w[i].wid].ops
  BY DEF Log
<1>6. Len(w) + 1 \notin DOMAIN w /\ \A i \in DOMAIN w : i < Len(w) + 1
  BY <1>1
<1>. HIDE DEF w2, h2
<1>7. AckedIn(w2, h2) = AckedIn(w, h)
  <2>1. h2[w2[Len(w) + 1].wid].st # "acked"
    BY <1>3, <1>4
  <2>2. \A i \in DOMAIN w : h2[w2[i].wid].st = h[w[i].wid].st
    BY <1>3, <1>4, <1>5
  <2>. QED  BY <1>3, <2>1, <2>2 DEF AckedIn
<1>8. Acked(h2) = Acked(h)
  BY <1>4 DEF Acked
<1>9. \A I \in SUBSET DOMAIN w : FrameRows(w2, I) = FrameRows(w, I)
  BY <1>3 DEF FrameRows
<1>10. Log(w2, h2)
  <2>1. \A i \in DOMAIN w2 : /\ w2[i].wid \in DOMAIN h2 /\ w2[i].ops = h2[w2[i].wid].ops
                             /\ h2[w2[i].wid].st # "lost"
    <3>1. \A i \in DOMAIN w : h[w[i].wid].st # "lost"
      BY DEF Log
    <3>. QED  BY <1>3, <1>4, <1>5, <3>1
  <2>2. ASSUME NEW i \in DOMAIN w2, NEW j \in DOMAIN w2, i < j
        PROVE  w2[i].wid < w2[j].wid /\ w2[i].seq < w2[j].seq /\ w2[i].ok
    <3>1. i \in DOMAIN w /\ w2[i] = w[i]
      BY <1>1, <1>3, <2>2
    <3>2. CASE j \in DOMAIN w
      BY <1>3, <2>2, <3>1, <3>2 DEF Log
    <3>3. CASE j = Len(w) + 1
      <4>1. w[i].wid < f.wid
        BY <1>1, <1>5, <3>1
      <4>. QED  BY <1>3, <3>1, <3>3, <4>1
    <3>. QED  BY <1>3, <3>2, <3>3
  <2>3. ASSUME NEW a \in Acked(h2), NEW i \in DOMAIN w2, w2[i].wid <= a
        PROVE  \E j \in AckedIn(w2, h2) : w2[j].wid = a
    <3>1. a \in DOMAIN h /\ a \in Acked(h)
      BY <1>8 DEF Acked
    <3>2. i \in DOMAIN w /\ w2[i] = w[i]
      BY <1>1, <1>3, <2>3, <3>1
    <3>3. PICK j \in AckedIn(w, h) : w[j].wid = a
      BY <2>3, <3>1, <3>2 DEF Log
    <3>. QED  BY <1>3, <1>7, <3>3 DEF AckedIn
  <2>4. \A i \in AckedIn(w2, h2) : w2[i].ok
    BY <1>3, <1>7 DEF AckedIn
  <2>. QED  BY <1>3, <1>4, <2>1, <2>2, <2>3, <2>4 DEF Log
<1>11. ASSUME NEW B, Base(B, w, h), \A r \in B : r.seq < f.seq PROVE Base(B, w2, h2)
  <2>1. FrameRows(w2, AckedIn(w2, h2)) = FrameRows(w, AckedIn(w, h))
    BY <1>7, <1>9 DEF AckedIn
  <2>2. ASSUME NEW r \in B
        PROVE  r \in FrameRows(w2, AckedIn(w2, h2)) \/ \A i \in DOMAIN w2 : r.seq < w2[i].seq
    BY <1>3, <1>11, <2>1 DEF Base
  <2>3. ASSUME NEW k \in Keys, \A i \in AckedIn(w2, h2) : k \notin DOMAIN w2[i].ops
        PROVE  Shows(B, h2, Acked(h2), k)
    <3>1. \A i \in AckedIn(w, h) : k \notin DOMAIN w[i].ops
      BY <1>3, <1>7, <2>3 DEF AckedIn
    <3>2. PICK v : IsLatest(h, Acked(h), k, v) /\ NewestIs(B, k, v)
      BY <1>11, <3>1 DEF Base, Shows
    <3>3. \A a \in Acked(h) : h2[a] = h[a]
      BY <1>4 DEF Acked
    <3>4. IsLatest(h2, Acked(h2), k, v)
      BY <1>8, <3>2, <3>3 DEF IsLatest
    <3>. QED  BY <3>2, <3>4 DEF Shows
  <2>. QED  BY <2>2, <2>3 DEF Base
<1>. QED  BY <1>7, <1>8, <1>9, <1>10, <1>11 DEF w2, h2

LEMMA TailIs ==
    ASSUME NEW w \in Seq(Frame), NEW n \in 0 .. Len(w), NEW t, t = SubSeq(w, n + 1, Len(w))
    PROVE  /\ t \in Seq(Frame) /\ DOMAIN t = 1 .. Len(w) - n
           /\ \A i \in DOMAIN t : i + n \in DOMAIN w /\ t[i] = w[i + n] /\ n < i + n
<1>1. DOMAIN w = 1 .. Len(w) /\ Len(w) \in Nat
  OBVIOUS
<1>2. /\ t \in Seq(Frame) /\ DOMAIN t = 1 .. Len(w) - n
      /\ \A i \in 1 .. Len(w) - n : t[i] = w[i + n]
  BY <1>1
<1>. QED  BY <1>1, <1>2

\* The first n frames go, and the rows of the acked ones join the rows below.
Truncated(w, w2, h, n, B) ==
    /\ Log(w, h) /\ n \in 0 .. Len(w) /\ w2 = SubSeq(w, n + 1, Len(w))
    /\ B \in SUBSET Row /\ Base(B, w, h)

LEMMA Truncating ==
    ASSUME NEW w, NEW w2, NEW h, NEW n, NEW B, Truncated(w, w2, h, n, B)
    PROVE  /\ Log(w2, h)
           /\ FrameRows(w2, AckedIn(w2, h)) = FrameRows(w, {i \in AckedIn(w, h) : n < i})
           /\ FrameRows(w2, DOMAIN w2) \subseteq FrameRows(w, DOMAIN w)
           /\ Base(B \cup FrameRows(w, {i \in AckedIn(w, h) : i <= n}), w2, h)
<1>. DEFINE G == B \cup FrameRows(w, {i \in AckedIn(w, h) : i <= n})
<1>0. /\ Log(w, h) /\ n \in 0 .. Len(w) /\ w2 = SubSeq(w, n + 1, Len(w))
      /\ B \in SUBSET Row /\ Base(B, w, h)
  BY DEF Truncated
<1>. USE <1>0
<1>1. /\ w \in Seq(Frame) /\ DOMAIN w = 1 .. Len(w) /\ Len(w) \in Nat
      /\ \A i \in DOMAIN w : w[i].wid \in Nat /\ w[i].seq \in Nat
      /\ DOMAIN h = 1 .. Len(h) /\ Len(h) \in Nat
      /\ AckedIn(w, h) \subseteq DOMAIN w
  BY LogTyped
<1>2. /\ w2 \in Seq(Frame) /\ DOMAIN w2 = 1 .. Len(w) - n
      /\ \A i \in 1 .. Len(w) - n : w2[i] = w[i + n]
  BY <1>1
<1>3. /\ \A i \in DOMAIN w2 : i + n \in DOMAIN w /\ w2[i] = w[i + n] /\ n < i + n
      /\ \A i \in DOMAIN w : n < i => i - n \in DOMAIN w2 /\ w2[i - n] = w[i]
  <2>1. \A i \in DOMAIN w2 : i + n \in DOMAIN w /\ w2[i] = w[i + n] /\ n < i + n
    BY <1>1, <1>2
  <2>2. ASSUME NEW i \in DOMAIN w, n < i PROVE i - n \in DOMAIN w2 /\ w2[i - n] = w[i]
    <3>1. i - n \in DOMAIN w2 /\ (i - n) + n = i
      BY <1>1, <1>2, <2>2
    <3>. QED  BY <1>2, <3>1
  <2>. QED  BY <2>1, <2>2
<1>4. \A i \in DOMAIN w2 : i \in AckedIn(w2, h) <=> i + n \in AckedIn(w, h)
  BY <1>3 DEF AckedIn
<1>5. FrameRows(w2, AckedIn(w2, h)) = FrameRows(w, {i \in AckedIn(w, h) : n < i})
  <2>1. ASSUME NEW r \in FrameRows(w2, AckedIn(w2, h))
        PROVE  r \in FrameRows(w, {i \in AckedIn(w, h) : n < i})
    <3>1. PICK i \in AckedIn(w2, h) : r \in RowsOf(w2[i])
      BY DEF FrameRows
    <3>2. i + n \in {j \in AckedIn(w, h) : n < j} /\ r \in RowsOf(w[i + n])
      BY <1>3, <1>4, <3>1 DEF AckedIn
    <3>. QED  BY <3>2 DEF FrameRows
  <2>2. ASSUME NEW r \in FrameRows(w, {i \in AckedIn(w, h) : n < i})
        PROVE  r \in FrameRows(w2, AckedIn(w2, h))
    <3>1. PICK i \in AckedIn(w, h) : n < i /\ r \in RowsOf(w[i])
      BY DEF FrameRows
    <3>2. i \in DOMAIN w
      BY <1>1
    <3>3. i - n \in DOMAIN w2 /\ w2[i - n] = w[i] /\ (i - n) + n = i
      BY <1>1, <1>3, <3>1, <3>2
    <3>4. i - n \in AckedIn(w2, h) /\ r \in RowsOf(w2[i - n])
      BY <1>4, <3>1, <3>3
    <3>. QED  BY <3>4 DEF FrameRows
  <2>. QED  BY <2>1, <2>2
<1>6. FrameRows(w2, DOMAIN w2) \subseteq FrameRows(w, DOMAIN w)
  <2>1. ASSUME NEW r \in FrameRows(w2, DOMAIN w2) PROVE r \in FrameRows(w, DOMAIN w)
    <3>1. PICK i \in DOMAIN w2 : r \in RowsOf(w2[i])
      BY DEF FrameRows
    <3>2. i + n \in DOMAIN w /\ r \in RowsOf(w[i + n])
      BY <1>3, <3>1
    <3>. QED  BY <3>2 DEF FrameRows
  <2>. QED  BY <2>1
<1>7. Log(w2, h)
  <2>1. \A i \in DOMAIN w2 : /\ w2[i].wid \in DOMAIN h /\ w2[i].ops = h[w2[i].wid].ops
                             /\ h[w2[i].wid].st # "lost"
    BY <1>3 DEF Log
  <2>2. ASSUME NEW i \in DOMAIN w2, NEW j \in DOMAIN w2, i < j
        PROVE  w2[i].wid < w2[j].wid /\ w2[i].seq < w2[j].seq /\ w2[i].ok
    <3>1. i + n \in DOMAIN w /\ j + n \in DOMAIN w /\ i + n < j + n
      BY <1>2, <1>3, <2>2
    <3>2. w2[i] = w[i + n] /\ w2[j] = w[j + n]
      BY <1>3
    <3>. QED  BY <3>1, <3>2 DEF Log
  <2>3. ASSUME NEW a \in Acked(h), NEW i \in DOMAIN w2, w2[i].wid <= a
        PROVE  \E j \in AckedIn(w2, h) : w2[j].wid = a
    <3>1. i + n \in DOMAIN w /\ w2[i] = w[i + n] /\ n < i + n
      BY <1>3
    <3>2. PICK j \in AckedIn(w, h) : w[j].wid = a
      BY <2>3, <3>1 DEF Log
    <3>3. j \in DOMAIN w
      BY <1>1
    <3>4. ~ (j < i + n)
      <4>1. j < i + n => w[j].wid < w[i + n].wid
        BY <3>1, <3>3 DEF Log
      <4>. QED  BY <1>1, <2>3, <3>1, <3>2, <3>3, <4>1
    <3>5. n < j
      BY <1>1, <1>2, <3>3, <3>4
    <3>6. j - n \in DOMAIN w2 /\ w2[j - n] = w[j] /\ (j - n) + n = j
      BY <1>1, <1>3, <3>3, <3>5
    <3>. QED  BY <1>4, <3>2, <3>6
  <2>4. \A i \in AckedIn(w2, h) : w2[i].ok
    BY <1>3, <1>4 DEF Log, AckedIn
  <2>. QED  BY <1>2, <2>1, <2>2, <2>3, <2>4 DEF Log
<1>8. ASSUME NEW r \in G
      PROVE  r \in FrameRows(w2, AckedIn(w2, h)) \/ \A i \in DOMAIN w2 : r.seq < w2[i].seq
  <2>1. CASE r \in FrameRows(w, AckedIn(w, h))
    <3>1. PICK i \in AckedIn(w, h) : r \in RowsOf(w[i])
      BY <2>1 DEF FrameRows
    <3>2. CASE n < i
      <4>1. r \in FrameRows(w, {j \in AckedIn(w, h) : n < j})
        BY <3>1, <3>2 DEF FrameRows
      <4>. QED  BY <1>5, <4>1
    <3>3. CASE i <= n
      <4>1. ASSUME NEW j \in DOMAIN w2 PROVE r.seq < w2[j].seq
        <5>1. i \in DOMAIN w /\ j + n \in DOMAIN w /\ w2[j] = w[j + n] /\ i < j + n
          BY <1>1, <1>3, <3>3
        <5>2. w[i].seq < w[j + n].seq
          BY <5>1 DEF Log
        <5>. QED  BY <3>1, <5>1, <5>2, RowOfFrame
      <4>. QED  BY <4>1
    <3>. QED  BY <1>1, <3>2, <3>3
  <2>2. CASE \A i \in DOMAIN w : r.seq < w[i].seq
    BY <1>3, <2>2
  <2>3. r \in B => r \in FrameRows(w, AckedIn(w, h)) \/ \A i \in DOMAIN w : r.seq < w[i].seq
    BY DEF Base
  <2>4. r \notin B => r \in FrameRows(w, AckedIn(w, h))
    BY DEF FrameRows
  <2>. QED  BY <2>1, <2>2, <2>3, <2>4
<1>9. ASSUME NEW k \in Keys, \A i \in AckedIn(w2, h) : k \notin DOMAIN w2[i].ops
      PROVE  Shows(G, h, Acked(h), k)
  <2>1. Shows(B \cup FrameRows(w, AckedIn(w, h)), h, Acked(h) \cup Wids(w, AckedIn(w, h)), k)
    BY <1>1, View
  <2>2. Wids(w, AckedIn(w, h)) \subseteq Acked(h)
    BY DEF Wids, AckedIn, Acked, Log
  <2>3. Acked(h) \cup Wids(w, AckedIn(w, h)) = Acked(h)
    BY <2>2
  <2>4. PICK v : IsLatest(h, Acked(h), k, v) /\ NewestIs(B \cup FrameRows(w, AckedIn(w, h)), k, v)
    BY <2>1, <2>3 DEF Shows
  <2>5. G \subseteq B \cup FrameRows(w, AckedIn(w, h))
    BY DEF FrameRows
  <2>6. ASSUME NEW r \in B \cup FrameRows(w, AckedIn(w, h)), r.key = k PROVE r \in G
    <3>1. CASE r \in B
      BY <3>1
    <3>2. CASE r \in FrameRows(w, AckedIn(w, h))
      <4>1. PICK i \in AckedIn(w, h) : r \in RowsOf(w[i])
        BY <3>2 DEF FrameRows
      <4>2. k \in DOMAIN w[i].ops
        BY <2>6, <4>1, RowOfFrame
      <4>3. ~ (n < i)
        <5>. SUFFICES ASSUME n < i PROVE FALSE
          OBVIOUS
        <5>1. i - n \in DOMAIN w2 /\ w2[i - n] = w[i] /\ (i - n) + n = i
          BY <1>1, <1>3
        <5>2. i - n \in AckedIn(w2, h)
          BY <1>4, <5>1
        <5>. QED  BY <1>9, <4>2, <5>1, <5>2
      <4>4. i \in {j \in AckedIn(w, h) : j <= n}
        BY <1>1, <4>3
      <4>. QED  BY <4>1, <4>4 DEF FrameRows
    <3>. QED  BY <3>1, <3>2
  <2>. HIDE DEF G
  <2>7. NewestIs(G, k, v)
    BY <2>4, <2>5, <2>6 DEF NewestIs, Holds
  <2>. QED  BY <2>4, <2>7 DEF Shows
<1>10. Base(G, w2, h)
  BY <1>8, <1>9 DEF Base
<1>. QED  BY <1>5, <1>6, <1>7, <1>10

-----------------------------------------------------------------------------
(* Layers *)

Stack == Seq(SUBSET Row)

LEMMA CatRows ==
    ASSUME NEW a \in Stack, NEW b \in Stack
    PROVE  a \o b \in Stack /\ TableRows(a \o b) = TableRows(a) \cup TableRows(b)
<1>. DEFINE c == a \o b
<1>1. /\ DOMAIN a = 1 .. Len(a) /\ Len(a) \in Nat /\ DOMAIN b = 1 .. Len(b) /\ Len(b) \in Nat
      /\ DOMAIN c = 1 .. Len(a) + Len(b) /\ c \in Stack
  BY DEF Stack
<1>2. \A i \in DOMAIN a : i \in DOMAIN c /\ c[i] = a[i]
  BY DEF Stack
<1>3. \A i \in DOMAIN b : i + Len(a) \in DOMAIN c /\ c[i + Len(a)] = b[i]
  BY DEF Stack
<1>4. \A i \in DOMAIN c : \/ i \in DOMAIN a /\ c[i] = a[i]
                          \/ i - Len(a) \in DOMAIN b /\ c[i] = b[i - Len(a)]
  BY DEF Stack
<1>. HIDE DEF c
<1>5. TableRows(c) \subseteq TableRows(a) \cup TableRows(b)
  BY <1>4 DEF TableRows
<1>6. TableRows(a) \subseteq TableRows(c)
  BY <1>2 DEF TableRows
<1>7. TableRows(b) \subseteq TableRows(c)
  BY <1>3 DEF TableRows
<1>. QED  BY <1>1, <1>5, <1>6, <1>7 DEF c

\* A stack on a stack: the upper tables lie on top of every row below.
LEMMA CatOrdered ==
    ASSUME NEW a \in Stack, NEW b \in Stack
    PROVE  OrderedLayers(a \o b) <=> /\ OrderedLayers(a) /\ OrderedLayers(b)
                                     /\ \A j \in DOMAIN b : Above(TableRows(a), b[j])
<1>. DEFINE c == a \o b
<1>1. /\ DOMAIN a = 1 .. Len(a) /\ Len(a) \in Nat /\ DOMAIN b = 1 .. Len(b) /\ Len(b) \in Nat
      /\ DOMAIN c = 1 .. Len(a) + Len(b)
  BY DEF Stack
<1>2. \A i \in DOMAIN a : i \in DOMAIN c /\ c[i] = a[i]
  BY DEF Stack
<1>3. \A i \in DOMAIN b : i + Len(a) \in DOMAIN c /\ c[i + Len(a)] = b[i]
  BY DEF Stack
<1>4. \A i \in DOMAIN c : \/ i \in DOMAIN a /\ c[i] = a[i]
                          \/ i - Len(a) \in DOMAIN b /\ c[i] = b[i - Len(a)]
  BY DEF Stack
<1>. HIDE DEF c
<1>5. \A x : OrderedLayers(x) <=> \A i, j \in DOMAIN x : i < j => Above(x[i], x[j])
  BY DEF OrderedLayers, Above
<1>6. ASSUME OrderedLayers(c)
      PROVE  /\ OrderedLayers(a) /\ OrderedLayers(b)
             /\ \A j \in DOMAIN b : Above(TableRows(a), b[j])
  <2>1. \A i, j \in DOMAIN a : i < j => Above(a[i], a[j])
    BY <1>2, <1>5, <1>6
  <2>2. ASSUME NEW i \in DOMAIN b, NEW j \in DOMAIN b, i < j PROVE Above(b[i], b[j])
    <3>1. i + Len(a) < j + Len(a)
      BY <1>1, <2>2
    <3>. QED  BY <1>3, <1>5, <1>6, <3>1
  <2>3. ASSUME NEW i \in DOMAIN a, NEW j \in DOMAIN b PROVE Above(a[i], b[j])
    <3>1. i < j + Len(a)
      BY <1>1
    <3>. QED  BY <1>2, <1>3, <1>5, <1>6, <3>1
  <2>4. \A j \in DOMAIN b : Above(TableRows(a), b[j])
    BY <2>3 DEF Above, TableRows
  <2>. QED  BY <1>5, <2>1, <2>2, <2>4
<1>7. ASSUME OrderedLayers(a), OrderedLayers(b), \A j \in DOMAIN b : Above(TableRows(a), b[j])
      PROVE  OrderedLayers(c)
  <2>. SUFFICES ASSUME NEW i \in DOMAIN c, NEW j \in DOMAIN c, i < j PROVE Above(c[i], c[j])
    BY <1>5
  <2>1. CASE i \in DOMAIN a /\ j \in DOMAIN a
    BY <1>2, <1>5, <1>7, <2>1
  <2>2. CASE i \in DOMAIN a /\ j \notin DOMAIN a
    <3>1. j - Len(a) \in DOMAIN b /\ c[j] = b[j - Len(a)] /\ c[i] = a[i]
      BY <1>2, <1>4, <2>2
    <3>2. c[i] \subseteq TableRows(a)
      BY <2>2, <3>1 DEF TableRows
    <3>. QED  BY <1>7, <3>1, <3>2 DEF Above
  <2>3. CASE i \notin DOMAIN a
    <3>1. j \notin DOMAIN a
      BY <1>1, <2>3
    <3>2. /\ i - Len(a) \in DOMAIN b /\ c[i] = b[i - Len(a)]
          /\ j - Len(a) \in DOMAIN b /\ c[j] = b[j - Len(a)]
      BY <1>4, <2>3, <3>1
    <3>3. i - Len(a) < j - Len(a)
      BY <1>1
    <3>. QED  BY <1>5, <1>7, <3>2, <3>3
  <2>. QED  BY <2>1, <2>2, <2>3
<1>. QED  BY <1>6, <1>7 DEF c

LEMMA OneLayer ==
    ASSUME NEW t \in SUBSET Row
    PROVE  /\ <<t>> \in Stack /\ OrderedLayers(<<t>>) /\ TableRows(<<t>>) = t
           /\ <<>> \in Stack /\ OrderedLayers(<<>>) /\ TableRows(<<>>) = {}
<1>1. <<t>> \in Stack /\ <<>> \in Stack
  BY DEF Stack
<1>2. DOMAIN <<t>> = {1} /\ <<t>>[1] = t
  OBVIOUS
<1>3. DOMAIN <<>> = {}
  OBVIOUS
<1>. QED  BY <1>1, <1>2, <1>3 DEF OrderedLayers, TableRows

LEMMA PushOrdered ==
    ASSUME NEW a \in Stack, NEW t \in SUBSET Row
    PROVE  /\ Append(a, t) \in Stack /\ TableRows(Append(a, t)) = TableRows(a) \cup t
           /\ OrderedLayers(Append(a, t)) <=> OrderedLayers(a) /\ Above(TableRows(a), t)
<1>1. Append(a, t) = a \o <<t>>
  BY DEF Stack
<1>2. DOMAIN <<t>> = {1} /\ <<t>>[1] = t
  OBVIOUS
<1>3. <<t>> \in Stack /\ OrderedLayers(<<t>>) /\ TableRows(<<t>>) = t
  BY OneLayer
<1>4. OrderedLayers(a \o <<t>>) <=> OrderedLayers(a) /\ Above(TableRows(a), t)
  BY <1>2, <1>3, CatOrdered
<1>. QED  BY <1>1, <1>3, <1>4, CatRows

LEMMA TablesAre ==
    ASSUME NEW s \in Seq(Segment)
    PROVE  /\ Tables(s) \in Stack /\ TableRows(Tables(s)) = Rows(s) /\ Rows(s) \subseteq Row
           /\ DOMAIN Tables(s) = DOMAIN s /\ \A i \in DOMAIN s : Tables(s)[i] = s[i].rows
<1>1. DOMAIN s = 1 .. Len(s) /\ Len(s) \in Nat /\ \A i \in DOMAIN s : s[i] \in Segment
  OBVIOUS
<1>2. \A i \in DOMAIN s : s[i].rows \in SUBSET Row
  BY <1>1, SegmentTyped
<1>3. Tables(s) \in Stack
  BY <1>1, <1>2 DEF Tables, Stack
<1>4. DOMAIN Tables(s) = DOMAIN s /\ \A i \in DOMAIN s : Tables(s)[i] = s[i].rows
  BY DEF Tables
<1>5. TableRows(Tables(s)) = Rows(s)
  BY <1>4 DEF TableRows, Rows
<1>6. Rows(s) \subseteq Row
  BY <1>2 DEF Rows
<1>. QED  BY <1>3, <1>4, <1>5, <1>6

LEMMA TablesCat ==
    ASSUME NEW s \in Seq(Segment), NEW t \in Seq(Segment)
    PROVE  Tables(s \o t) = Tables(s) \o Tables(t) /\ Rows(s \o t) = Rows(s) \cup Rows(t)
<1>1. /\ s \o t \in Seq(Segment) /\ DOMAIN s = 1 .. Len(s) /\ Len(s) \in Nat
      /\ DOMAIN t = 1 .. Len(t) /\ Len(t) \in Nat /\ Len(s \o t) = Len(s) + Len(t)
      /\ DOMAIN (s \o t) = 1 .. Len(s) + Len(t)
  OBVIOUS
<1>2. Tables(s) \in Stack /\ Tables(t) \in Stack /\ Tables(s \o t) \in Stack
  BY <1>1, TablesAre
<1>3. Len(Tables(s)) = Len(s) /\ Len(Tables(t)) = Len(t) /\ Len(Tables(s \o t)) = Len(s) + Len(t)
  BY <1>1 DEF Tables
<1>4. \A i \in 1 .. Len(s) + Len(t) : Tables(s \o t)[i] = (Tables(s) \o Tables(t))[i]
  <2>. SUFFICES ASSUME NEW i \in 1 .. Len(s) + Len(t)
                PROVE  Tables(s \o t)[i] = (Tables(s) \o Tables(t))[i]
    OBVIOUS
  <2>1. Tables(s \o t)[i] = (s \o t)[i].rows
    BY <1>1 DEF Tables
  <2>2. CASE i <= Len(s)
    <3>1. (s \o t)[i] = s[i] /\ Tables(s)[i] = s[i].rows
      BY <1>1, <2>2 DEF Tables
    <3>2. (Tables(s) \o Tables(t))[i] = Tables(s)[i]
      BY <1>2, <1>3, <2>2 DEF Stack
    <3>. QED  BY <2>1, <3>1, <3>2
  <2>3. CASE ~ (i <= Len(s))
    <3>1. (s \o t)[i] = t[i - Len(s)] /\ Tables(t)[i - Len(s)] = t[i - Len(s)].rows
      BY <1>1, <2>3 DEF Tables
    <3>2. (Tables(s) \o Tables(t))[i] = Tables(t)[i - Len(s)]
      BY <1>2, <1>3, <2>3 DEF Stack
    <3>. QED  BY <2>1, <3>1, <3>2
  <2>. QED  BY <2>2, <2>3
<1>5. Tables(s \o t) = Tables(s) \o Tables(t)
  <2>1. Tables(s) \o Tables(t) \in [1 .. Len(s) + Len(t) -> SUBSET Row]
    <3>. DEFINE c == Tables(s) \o Tables(t)
    <3>1. c \in Stack /\ Len(c) = Len(Tables(s)) + Len(Tables(t))
      BY <1>2 DEF Stack
    <3>. HIDE DEF c
    <3>2. Len(c) = Len(s) + Len(t)
      BY <1>3, <3>1
    <3>3. c \in [1 .. Len(c) -> SUBSET Row]
      BY <3>1 DEF Stack
    <3>. QED  BY <3>2, <3>3 DEF c
  <2>2. Tables(s \o t) \in [1 .. Len(s) + Len(t) -> SUBSET Row]
    BY <1>1, <1>2, <1>3 DEF Stack
  <2>. QED  BY <1>4, <2>1, <2>2
<1>. QED  BY <1>1, <1>2, <1>5, CatRows, TablesAre

\* The layers a lookup goes through, by the rows below each part.
Stacked(s, f, im, a) ==
    /\ OrderedLayers(Tables(s)) /\ OrderedLayers(Tables(f)) /\ OrderedLayers(im)
    /\ \A i \in DOMAIN f : Above(Rows(s), f[i].rows)
    /\ \A i \in DOMAIN im : Above(Rows(s) \cup Rows(f), im[i])
    /\ Above(Rows(s) \cup Rows(f) \cup TableRows(im), a)

Layers(s, f, im, a) == Tables(s) \o Tables(f) \o im \o <<a>>

LEMMA StackedOrdered ==
    ASSUME NEW s \in Seq(Segment), NEW f \in Seq(Segment), NEW im \in Stack, NEW a \in SUBSET Row,
           Stacked(s, f, im, a)
    PROVE  /\ Layers(s, f, im, a) \in Stack /\ OrderedLayers(Layers(s, f, im, a))
           /\ TableRows(Layers(s, f, im, a)) = Rows(s) \cup Rows(f) \cup TableRows(im) \cup a
<1>. DEFINE all == Layers(s, f, im, a)
<1>1. /\ Tables(s) \in Stack /\ TableRows(Tables(s)) = Rows(s)
      /\ Tables(f) \in Stack /\ TableRows(Tables(f)) = Rows(f)
      /\ DOMAIN Tables(f) = DOMAIN f /\ \A i \in DOMAIN f : Tables(f)[i] = f[i].rows
  BY TablesAre
<1>. DEFINE b == Tables(s) \o Tables(f)
            c == b \o im
<1>2. b \in Stack /\ TableRows(b) = Rows(s) \cup Rows(f)
  BY <1>1, CatRows
<1>3. OrderedLayers(b)
  BY <1>1, CatOrdered DEF Stacked
<1>. HIDE DEF b
<1>4. c \in Stack /\ TableRows(c) = Rows(s) \cup Rows(f) \cup TableRows(im)
  BY <1>2, CatRows
<1>5. OrderedLayers(c)
  <2>1. OrderedLayers(im) /\ \A i \in DOMAIN im : Above(TableRows(b), im[i])
    BY <1>2 DEF Stacked
  <2>. QED  BY <1>2, <1>3, <2>1, CatOrdered
<1>6. all = c \o <<a>>
  BY DEF b, Layers
<1>. HIDE DEF all
<1>. HIDE DEF c
<1>7. <<a>> \in Stack /\ OrderedLayers(<<a>>) /\ TableRows(<<a>>) = a
  BY OneLayer
<1>8. all \in Stack /\ TableRows(all) = TableRows(c) \cup a
  BY <1>4, <1>6, <1>7, CatRows
<1>9. DOMAIN <<a>> = {1} /\ <<a>>[1] = a
  OBVIOUS
<1>10. \A j \in DOMAIN <<a>> : Above(TableRows(c), <<a>>[j])
  BY <1>4, <1>9 DEF Stacked
<1>11. OrderedLayers(all)
  BY <1>4, <1>5, <1>6, <1>7, <1>10, CatOrdered
<1>. QED  BY <1>4, <1>8, <1>11 DEF all

-----------------------------------------------------------------------------
(* The inductive invariant *)

\* The faults after which the engine still keeps what it acked.
SafeFaults ==
    /\ Faults \subseteq {"appendFail", "syncFail", "mergeFail", "powerLoss"}
    /\ Durability = "Async" => "powerLoss" \notin Faults

\* How much of the log the plan of a running flush covers.
Unflushed == IF flush.pc \in {"build", "publish", "truncate"} THEN flush.len ELSE 0

\* The log follows the history; an acked frame is synced where power can fail.
LogInv ==
    /\ Log(DurableWal, hist)
    /\ up => \A i \in DOMAIN DurableWal : DurableWal[i].ok /\ DurableWal[i].seq < nextSeq
    /\ "powerLoss" \in Faults /\ flush.pc # "reappend" =>
          \A i \in AckedIn(DurableWal, hist) : i <= synced
    /\ flush.pc = "reappend" => wal = <<>>

\* The writes in flight are the last ones submitted, and have frames no flush covers.
PendInv ==
    /\ Pending = {} <=> lock # "write"
    /\ \A p \in Pending : \A q \in DOMAIN hist : p <= q => q \in Pending
    /\ \A p \in Pending : \E i \in DOMAIN DurableWal : DurableWal[i].wid = p /\ Unflushed < i

\* The memtables and the plan hold the acked frames, the readers what State lists.
MemInv ==
    /\ up =>
        /\ Unflushed <= Len(DurableWal)
        /\ flush.pc = "idle" => flush.segs = <<>>
        /\ flush.pc \in {"build", "publish", "truncate"} =>
              Rows(flush.segs) = FrameRows(DurableWal, {i \in AckedIn(DurableWal, hist) : i <= flush.len})
        /\ TableRows(immutables) \cup active =
              FrameRows(DurableWal, {i \in AckedIn(DurableWal, hist) : Unflushed < i})
        /\ flush.pc \in {"truncate", "reappend"} =>
              current.segs = segments \o flush.segs /\ records = current.segs
        /\ flush.pc \notin {"truncate", "reappend"} => records = segments
    /\ ~up => lock = "free" /\ immutables = <<>> /\ segments = <<>>

\* A merge that is still fresh has read the attached segments; its output is what
\* they merge to.
MergeInv ==
    \A m \in Mergers :
        /\ merge[m].pc = "merging" =>
              /\ merge[m].gen <= gen
              /\ merge[m].gen = gen =>
                    /\ merge[m].inputs = segments
                    /\ flush.pc \notin {"truncate", "reappend"}
                    /\ \A n \in Mergers : merge[n].pc # "published"
        /\ merge[m].pc \in {"renamed", "published"} =>
              Len(merge[m].out) <= 1 /\ Rows(merge[m].out) = Merged(segments)

AllRows == Rows(current.segs) \cup Rows(segments) \cup FrameRows(DurableWal, DOMAIN DurableWal)

\* No sequence number is used twice for a key.
RowInv == Unique(AllRows) /\ (up => \A r \in AllRows : r.seq < nextSeq)

\* Both the published and the attached segments may lie below the log.
BaseInv ==
    /\ Base(Rows(current.segs), DurableWal, hist)
    /\ up /\ flush.pc # "reappend" => Base(Rows(segments), DurableWal, hist)

OrdInv ==
    /\ up => Stacked(segments, flush.segs, immutables, active)
    /\ OrderedLayers(Tables(current.segs))

DataInv == LogInv /\ PendInv /\ MemInv /\ MergeInv /\ RowInv /\ BaseInv /\ OrdInv

LEMMA Typed ==
    ASSUME TypeOK
    PROVE  /\ DurableWal \in Seq(Frame) /\ hist \in Seq(Write)
           /\ current.segs \in Seq(Segment) /\ segments \in Seq(Segment)
           /\ flush.segs \in Seq(Segment) /\ records \in Seq(Segment)
           /\ immutables \in Stack /\ active \in SUBSET Row
           /\ Rows(current.segs) \subseteq Row /\ Rows(segments) \subseteq Row
           /\ Rows(flush.segs) \subseteq Row
           /\ flush.len \in Nat /\ nextSeq \in Nat /\ gen \in Nat /\ synced \in Nat
           /\ wal \in Seq(Frame) /\ flush.tail \in Seq(Frame) /\ up \in BOOLEAN
           /\ merge \in [Mergers -> MergeState] /\ Unflushed \in Nat
<1>1. /\ wal \in Seq(Frame) /\ hist \in Seq(Write) /\ flush.tail \in Seq(Frame)
      /\ current.segs \in Seq(Segment) /\ segments \in Seq(Segment)
      /\ flush.segs \in Seq(Segment) /\ records \in Seq(Segment)
      /\ flush.len \in Nat /\ nextSeq \in Nat /\ gen \in Nat /\ synced \in Nat
      /\ merge \in [Mergers -> MergeState]
  BY ManifestTyped, FlushTyped DEF TypeOK
<1>2. immutables \in Stack /\ active \in SUBSET Row
  BY DEF TypeOK, Stack
<1>3. DurableWal \in Seq(Frame)
  BY <1>1 DEF DurableWal
<1>4. Unflushed \in Nat
  BY <1>1 DEF Unflushed
<1>5. up \in BOOLEAN
  BY Zenon DEF TypeOK
<1>6. /\ Rows(current.segs) \subseteq Row /\ Rows(segments) \subseteq Row
      /\ Rows(flush.segs) \subseteq Row
  BY <1>1, TablesAre
<1>. QED  BY <1>1, <1>2, <1>3, <1>4, <1>5, <1>6

LEMMA FrameRowsTyped ==
    ASSUME NEW w \in Seq(Frame), NEW I \in SUBSET DOMAIN w PROVE FrameRows(w, I) \subseteq Row
<1>1. \A i \in I : w[i] \in Frame
  OBVIOUS
<1>. QED  BY <1>1, RowsTyped DEF FrameRows

LEMMA StatusTyped ==
    ASSUME NEW h \in Seq(Write)
    PROVE  \A i \in DOMAIN h : h[i] \in Write /\ h[i].st \in Status
<1>1. \A i \in DOMAIN h : h[i] \in Write
  OBVIOUS
<1>. QED  BY <1>1 DEF Write

\* Latest, of any history.
LatestOf(h, W, k) ==
    LET touch == {i \in W : k \in DOMAIN h[i].ops}
    IN  IF touch = {} THEN None
        ELSE LET i == CHOOSE i \in touch : \A j \in touch : j <= i
             IN  IF h[i].ops[k] = "put" THEN i ELSE None

LEMMA LatestOfIs ==
    ASSUME NEW h \in Seq(Write), NEW W \in SUBSET DOMAIN h, NEW k, NEW v, IsLatest(h, W, k, v)
    PROVE  LatestOf(h, W, k) = v
<1>. DEFINE touch == {i \in W : k \in DOMAIN h[i].ops}
<1>1. CASE touch = {}
  BY <1>1 DEF LatestOf, IsLatest
<1>2. CASE touch # {}
  <2>1. PICK i \in W : /\ k \in DOMAIN h[i].ops
                       /\ \A j \in W : k \in DOMAIN h[j].ops => j <= i
                       /\ v = IF h[i].ops[k] = "put" THEN i ELSE None
    BY <1>2 DEF IsLatest
  <2>2. i \in touch /\ \A j \in touch : j <= i
    BY <2>1
  <2>3. \A x \in touch : x \in Int
    OBVIOUS
  <2>4. \A x \in touch : (\A j \in touch : j <= x) => x = i
    BY <2>2, <2>3
  <2>. HIDE DEF touch
  <2>5. (CHOOSE x \in touch : \A j \in touch : j <= x) = i
    BY <2>2, <2>4
  <2>. QED  BY <1>2, <2>1, <2>5 DEF LatestOf, touch
<1>. QED  BY <1>1, <1>2

LEMMA LatestIs ==
    ASSUME hist \in Seq(Write), NEW W \in SUBSET DOMAIN hist, NEW k, NEW v, IsLatest(hist, W, k, v)
    PROVE  Latest(W, k) = v
<1>1. Latest(W, k) = LatestOf(hist, W, k)
  BY DEF Latest, LatestOf
<1>. QED  BY <1>1, LatestOfIs

LEMMA Answer ==
    ASSUME hist \in Seq(Write), NEW W \in SUBSET DOMAIN hist, NEW k,
           NEW layers \in Stack, OrderedLayers(layers), Unique(TableRows(layers)),
           Shows(TableRows(layers), hist, W, k)
    PROVE  Lookup(layers, k) = Latest(W, k)
<1>1. PICK v : IsLatest(hist, W, k, v) /\ NewestIs(TableRows(layers), k, v)
  BY DEF Shows
<1>2. Lookup(layers, k) = v
  BY <1>1, LookupNewest DEF Stack
<1>3. Latest(W, k) = v
  BY <1>1, LatestIs
<1>. QED  BY <1>2, <1>3

LEMMA BaseAbove ==
    ASSUME NEW w \in Seq(Frame), NEW h, NEW B \in SUBSET Row, Base(B, w, h),
           NEW J \in SUBSET DOMAIN w, AckedIn(w, h) \subseteq J
    PROVE  Above(B, FrameRows(w, J))
<1>1. FrameRows(w, J) \subseteq Row
  BY FrameRowsTyped
<1>. SUFFICES ASSUME NEW r \in B, NEW p \in FrameRows(w, J), p.key = r.key
              PROVE  \E q \in FrameRows(w, J) : q.key = r.key /\ r.seq <= q.seq
  BY DEF Above, Holds
<1>2. CASE r \in FrameRows(w, AckedIn(w, h))
  <2>1. r \in FrameRows(w, J) /\ r.seq \in Nat
    BY <1>2 DEF FrameRows, Row
  <2>. QED  BY <2>1
<1>3. CASE \A i \in DOMAIN w : r.seq < w[i].seq
  <2>1. PICK i \in J : p \in RowsOf(w[i])
    BY DEF FrameRows
  <2>2. p.seq = w[i].seq
    BY <2>1, RowOfFrame
  <2>3. r.seq < p.seq /\ r.seq \in Nat /\ p.seq \in Nat
    BY <1>1, <1>3, <2>2 DEF Row
  <2>. QED  BY <2>3
<1>. QED  BY <1>2, <1>3 DEF Base

\* Some frames of the log on top of the segments CURRENT lists.
LEMMA OnDisk ==
    ASSUME TypeOK, LogInv, RowInv, BaseInv, OrdInv,
           NEW J \in SUBSET DOMAIN DurableWal, AckedIn(DurableWal, hist) \subseteq J
    PROVE  /\ OrderedLayers(Append(Tables(current.segs), FrameRows(DurableWal, J)))
           /\ Acked(hist) \cup Wids(DurableWal, J) \in SUBSET DOMAIN hist
           /\ \A k \in Keys : Lookup(Append(Tables(current.segs), FrameRows(DurableWal, J)), k)
                                 = Latest(Acked(hist) \cup Wids(DurableWal, J), k)
<1>. DEFINE F == FrameRows(DurableWal, J)
            W == Acked(hist) \cup Wids(DurableWal, J)
            L == Append(Tables(current.segs), F)
<1>1. /\ DurableWal \in Seq(Frame) /\ hist \in Seq(Write) /\ current.segs \in Seq(Segment)
      /\ Rows(current.segs) \subseteq Row
  BY Typed
<1>2. F \in SUBSET Row
  BY <1>1, FrameRowsTyped
<1>3. Tables(current.segs) \in Stack /\ TableRows(Tables(current.segs)) = Rows(current.segs)
  BY <1>1, TablesAre
<1>4. Above(Rows(current.segs), F)
  BY <1>1, BaseAbove DEF BaseInv
<1>. HIDE DEF F
<1>5. L \in Stack /\ TableRows(L) = Rows(current.segs) \cup F /\ OrderedLayers(L)
  BY <1>2, <1>3, <1>4, PushOrdered DEF OrdInv
<1>6. F \subseteq FrameRows(DurableWal, DOMAIN DurableWal)
  BY DEF F, FrameRows
<1>7. Unique(TableRows(L))
  BY <1>5, <1>6 DEF RowInv, AllRows, Unique
<1>8. W \in SUBSET DOMAIN hist
  BY DEF Acked, Wids, LogInv, Log
<1>9. ASSUME NEW k \in Keys PROVE Lookup(L, k) = Latest(W, k)
  <2>1. Shows(Rows(current.segs) \cup F, hist, W, k)
    BY <1>1, View DEF LogInv, BaseInv, F
  <2>. HIDE DEF L, W
  <2>. QED  BY <1>1, <1>5, <1>7, <1>8, <2>1, Answer
<1>. QED  BY <1>5, <1>8, <1>9 DEF F

LEMMA DataAckedDurable ==
    ASSUME TypeOK, FilesOwned, DataInv PROVE AckedDurable
<1>. SUFFICES ASSUME ~up PROVE /\ ManifestBacked /\ WalReadable
                               /\ \E S \in SUBSET With({"pending", "failed"}) :
                                     \A k \in Keys : Recovered(k) = Latest(S \cup With({"acked"}), k)
  BY DEF AckedDurable
<1>1. ManifestBacked
  BY DEF FilesOwned, ListsBacked, ManifestBacked
<1>2. DurableWal = wal
  BY DEF FilesOwned, ThreadsOwned, NoFlush, DurableWal
<1>3. WalReadable
  BY <1>2 DEF WalReadable, DataInv, LogInv, Log
<1>. DEFINE J == {i \in DOMAIN DurableWal : DurableWal[i].ok}
            S == Wids(DurableWal, J) \ Acked(hist)
<1>4. AckedIn(DurableWal, hist) \subseteq J
  BY DEF DataInv, LogInv, Log, AckedIn
<1>5. J \in SUBSET DOMAIN DurableWal
  OBVIOUS
<1>6. Replay(wal) = FrameRows(DurableWal, J)
  BY <1>2 DEF Replay, FrameRows
<1>7. With({"acked"}) = Acked(hist)
  BY DEF With, Acked
<1>8. S \in SUBSET With({"pending", "failed"})
  <2>1. ASSUME NEW i \in J, DurableWal[i].wid \notin Acked(hist)
        PROVE  DurableWal[i].wid \in With({"pending", "failed"})
    <3>1. DurableWal[i].wid \in DOMAIN hist /\ hist[DurableWal[i].wid].st # "lost"
      BY DEF DataInv, LogInv, Log
    <3>2. \A x \in DOMAIN hist : hist[x].st \in Status
      BY StatusTyped, Typed
    <3>. QED  BY <2>1, <3>1, <3>2 DEF With, Acked, Status
  <2>. QED  BY <2>1 DEF Wids
<1>9. S \cup With({"acked"}) = Acked(hist) \cup Wids(DurableWal, J)
  BY <1>7
<1>. HIDE DEF J
<1>10. \A k \in Keys : Recovered(k) = Latest(Acked(hist) \cup Wids(DurableWal, J), k)
  BY <1>4, <1>5, <1>6, OnDisk DEF DataInv, Recovered
<1>. HIDE DEF S
<1>11. \A k \in Keys : Recovered(k) = Latest(S \cup With({"acked"}), k)
  BY <1>9, <1>10
<1>. QED  BY <1>1, <1>3, <1>8, <1>11

\* The rows of the running database: the acked frames on a base.
LEMMA InMemory ==
    ASSUME TypeOK, DataInv, up
    PROVE  \E B \in SUBSET Row :
              /\ Base(B, DurableWal, hist)
              /\ Rows(segments) \cup Rows(flush.segs) \cup TableRows(immutables) \cup active
                    = B \cup FrameRows(DurableWal, AckedIn(DurableWal, hist))
              /\ B \subseteq Rows(current.segs) \cup Rows(segments)
<1>. DEFINE A == AckedIn(DurableWal, hist)
            F == FrameRows(DurableWal, A)
<1>1. /\ current.segs \in Seq(Segment) /\ segments \in Seq(Segment) /\ flush.segs \in Seq(Segment)
      /\ Rows(current.segs) \subseteq Row /\ Rows(segments) \subseteq Row
  BY Typed
<1>2. A \subseteq Nat \ {0}
  <2>1. DurableWal \in Seq(Frame)
    BY Typed
  <2>2. DOMAIN DurableWal = 1 .. Len(DurableWal) /\ Len(DurableWal) \in Nat
    BY <2>1
  <2>. QED  BY <2>2 DEF AckedIn
<1>3. TableRows(immutables) \cup active = FrameRows(DurableWal, {i \in A : Unflushed < i})
  BY DEF DataInv, MemInv
<1>4. CASE flush.pc = "reappend"
  <2>1. Unflushed = 0 /\ current.segs = segments \o flush.segs
    BY <1>4 DEF DataInv, MemInv, Unflushed
  <2>2. Rows(current.segs) = Rows(segments) \cup Rows(flush.segs)
    BY <1>1, <2>1, TablesCat
  <2>3. {i \in A : Unflushed < i} = A
    BY <1>2, <2>1
  <2>4. Base(Rows(current.segs), DurableWal, hist)
    BY DEF DataInv, BaseInv
  <2>. QED  BY <1>1, <1>3, <2>2, <2>3, <2>4
<1>5. CASE flush.pc = "idle"
  <2>1. Unflushed = 0 /\ flush.segs = <<>>
    BY <1>5 DEF DataInv, MemInv, Unflushed
  <2>2. Rows(flush.segs) = {}
    BY <2>1 DEF Rows
  <2>3. {i \in A : Unflushed < i} = A
    BY <1>2, <2>1
  <2>4. Base(Rows(segments), DurableWal, hist)
    BY <1>5 DEF DataInv, BaseInv
  <2>. QED  BY <1>1, <1>3, <2>2, <2>3, <2>4
<1>6. CASE flush.pc \in {"build", "publish", "truncate"}
  <2>1. Unflushed = flush.len /\ flush.len \in Nat
    BY <1>6, Typed DEF Unflushed
  <2>2. Rows(flush.segs) = FrameRows(DurableWal, {i \in A : i <= flush.len})
    BY <1>6 DEF DataInv, MemInv
  <2>3. \A i \in A : i <= flush.len \/ flush.len < i
    BY <1>2, <2>1
  <2>4. F = FrameRows(DurableWal, {i \in A : i <= flush.len})
               \cup FrameRows(DurableWal, {i \in A : flush.len < i})
    BY <2>3 DEF FrameRows
  <2>5. Base(Rows(segments), DurableWal, hist)
    BY <1>6 DEF DataInv, BaseInv
  <2>6. Rows(segments) \cup Rows(flush.segs) \cup TableRows(immutables) \cup active
           = Rows(segments) \cup F
    BY <1>3, <2>1, <2>2, <2>4
  <2>. QED  BY <1>1, <2>5, <2>6
<1>7. flush.pc \in {"idle", "build", "publish", "truncate", "reappend"}
  BY DEF TypeOK, FlushState
<1>. QED  BY <1>4, <1>5, <1>6, <1>7

LEMMA DataLayersSound ==
    ASSUME TypeOK, FilesOwned, DataInv PROVE LayersSound
<1>. DEFINE L == Layers(segments, flush.segs, immutables, active)
            A == AckedIn(DurableWal, hist)
<1>1. /\ segments \in Seq(Segment) /\ flush.segs \in Seq(Segment) /\ immutables \in Stack
      /\ active \in SUBSET Row /\ hist \in Seq(Write) /\ DurableWal \in Seq(Frame)
      /\ current.segs \in Seq(Segment)
  BY Typed
<1>2. With({"acked"}) = Acked(hist)
  BY DEF With, Acked
<1>3. A \in SUBSET DOMAIN DurableWal
  BY DEF AckedIn
<1>4. Acked(hist) \cup Wids(DurableWal, A) = Acked(hist) /\ Acked(hist) \in SUBSET DOMAIN hist
  BY DEF Acked, Wids, AckedIn, DataInv, LogInv, Log
<1>5. ASSUME up PROVE OrderedLayers(L) /\ \A k \in Keys : Lookup(L, k) = Latest(Acked(hist), k)
  <2>1. /\ L \in Stack /\ OrderedLayers(L)
        /\ TableRows(L) = Rows(segments) \cup Rows(flush.segs) \cup TableRows(immutables) \cup active
    <3>1. Stacked(segments, flush.segs, immutables, active)
      BY <1>5 DEF DataInv, OrdInv
    <3>. QED  BY <1>1, <3>1, StackedOrdered
  <2>. HIDE DEF L
  <2>2. PICK B \in SUBSET Row :
              /\ Base(B, DurableWal, hist)
              /\ TableRows(L) = B \cup FrameRows(DurableWal, A)
              /\ B \subseteq Rows(current.segs) \cup Rows(segments)
    BY <1>5, <2>1, InMemory
  <2>3. TableRows(L) \subseteq AllRows
    BY <1>3, <2>2 DEF AllRows, FrameRows
  <2>4. Unique(TableRows(L))
    BY <2>3 DEF Unique, DataInv, RowInv
  <2>5. ASSUME NEW k \in Keys PROVE Lookup(L, k) = Latest(Acked(hist), k)
    <3>1. Shows(TableRows(L), hist, Acked(hist), k)
      BY <1>3, <1>4, <2>2, View DEF DataInv, LogInv
    <3>. QED  BY <1>1, <1>4, <2>1, <2>4, <3>1, Answer
  <2>. QED  BY <2>1, <2>5
<1>6. ASSUME ~up PROVE OrderedLayers(L)
  <2>1. segments = <<>> /\ immutables = <<>> /\ flush.segs = <<>>
    BY <1>6 DEF DataInv, MemInv, FilesOwned, ThreadsOwned, NoFlush
  <2>2. Stacked(<<>>, <<>>, <<>>, active)
    BY DEF Stacked, OrderedLayers, Tables, Above, Rows, TableRows
  <2>. QED  BY <1>1, <2>1, <2>2, StackedOrdered
<1>7. OrderedLayers(Append(Tables(current.segs), Replay(wal)))
  <2>1. CASE flush.pc = "reappend"
    <3>1. Replay(wal) = {}
      BY <2>1 DEF Replay, DataInv, LogInv
    <3>2. Above(Rows(current.segs), {})
      BY DEF Above, Holds
    <3>3. OrderedLayers(Tables(current.segs))
      BY DEF DataInv, OrdInv
    <3>. QED  BY <1>1, <3>1, <3>2, <3>3, TablesAre, PushOrdered
  <2>2. CASE flush.pc # "reappend"
    <3>. DEFINE J == {i \in DOMAIN DurableWal : DurableWal[i].ok}
    <3>1. A \subseteq J /\ J \in SUBSET DOMAIN DurableWal
      BY <1>3 DEF DataInv, LogInv, Log
    <3>2. Replay(wal) = FrameRows(DurableWal, J)
      BY <2>2 DEF Replay, FrameRows, DurableWal
    <3>. HIDE DEF J
    <3>. QED  BY <3>1, <3>2, OnDisk DEF DataInv
  <2>. QED  BY <2>1, <2>2
<1>. QED  BY <1>2, <1>5, <1>6, <1>7, Typed DEF LayersSound, LayersOrdered, LayersComplete, Layers

-----------------------------------------------------------------------------
(* The steps *)

LEMMA DataInit == Init => DataInv
<1>. SUFFICES ASSUME Init PROVE DataInv
  OBVIOUS
<1>1. /\ wal = <<>> /\ current.segs = <<>> /\ active = {} /\ immutables = <<>>
      /\ segments = <<>> /\ records = <<>> /\ lock = "free" /\ flush = NoFlush
      /\ merge = [m \in Mergers |-> NoMerge] /\ hist = <<>> /\ up
  BY DEF Init
<1>2. flush.pc = "idle" /\ flush.segs = <<>> /\ Unflushed = 0 /\ DurableWal = <<>>
  BY <1>1 DEF NoFlush, Unflushed, DurableWal
<1>3. DOMAIN <<>> = {} /\ <<>> \in Seq(Frame) /\ <<>> \in Seq(Write) /\ Len(<<>>) = 0
  OBVIOUS
<1>4. AckedIn(<<>>, <<>>) = {} /\ Acked(<<>>) = {} /\ Rows(<<>>) = {} /\ TableRows(<<>>) = {}
      /\ \A w, I : I = {} => FrameRows(w, I) = {}
  BY <1>3 DEF AckedIn, Acked, Rows, TableRows, FrameRows
<1>5. LogInv
  BY <1>1, <1>2, <1>3, <1>4 DEF LogInv, Log
<1>6. PendInv
  BY <1>1 DEF PendInv, Pending
<1>7. MemInv
  <2>1. AckedIn(DurableWal, hist) = {}
    BY <1>1, <1>2, <1>4
  <2>2. FrameRows(DurableWal, {i \in AckedIn(DurableWal, hist) : Unflushed < i}) = {}
    BY <2>1 DEF FrameRows
  <2>3. TableRows(immutables) \cup active = {} /\ Unflushed <= Len(DurableWal)
    BY <1>1, <1>2, <1>3, <1>4
  <2>4. up /\ flush.pc = "idle" /\ flush.segs = <<>> /\ records = segments
    BY <1>1, <1>2
  <2>. QED  BY <2>2, <2>3, <2>4 DEF MemInv
<1>8. MergeInv
  BY <1>1 DEF MergeInv, NoMerge
<1>9. RowInv
  BY <1>1, <1>2, <1>3, <1>4 DEF RowInv, AllRows, Unique
<1>10. BaseInv
  <2>1. \A k \in Keys : Shows({}, <<>>, {}, k)
    BY DEF Shows, IsLatest, NewestIs, Holds
  <2>. QED  BY <1>1, <1>2, <1>4, <2>1 DEF BaseInv, Base
<1>11. OrdInv
  BY <1>1, <1>2, <1>3, <1>4 DEF OrdInv, Stacked, OrderedLayers, Tables, Above
<1>. QED  BY <1>5, <1>6, <1>7, <1>8, <1>9, <1>10, <1>11 DEF DataInv

\* Steps that touch neither the log and the history nor any layer.
LEMMA KeepCore ==
    ASSUME DataInv, DurableWal' = DurableWal, Unflushed' = Unflushed,
           flush'.pc = "reappend" <=> flush.pc = "reappend", flush'.segs = flush.segs,
           lock' = "write" <=> lock = "write",
           UNCHANGED <<wal, synced, hist, up, nextSeq, segments, current, active, immutables>>
    PROVE  LogInv' /\ PendInv' /\ RowInv' /\ BaseInv' /\ OrdInv'
<1>1. LogInv'
  BY DEF DataInv, LogInv
<1>2. Pending' = Pending
  BY DEF Pending
<1>3. PendInv'
  BY <1>2 DEF DataInv, PendInv
<1>4. AllRows' = AllRows
  BY DEF AllRows
<1>5. RowInv'
  BY <1>4 DEF DataInv, RowInv
<1>6. BaseInv' /\ OrdInv'
  BY DEF DataInv, BaseInv, OrdInv
<1>. QED  BY <1>1, <1>3, <1>5, <1>6

\* With the memory unchanged too.
LEMMA KeepMem ==
    ASSUME DataInv, UNCHANGED <<wal, synced, hist, up, nextSeq, mem, current, flush>>,
           lock' = "write" <=> lock = "write", ~up => lock' = "free", MergeInv'
    PROVE  DataInv'
<1>1. DurableWal' = DurableWal /\ Unflushed' = Unflushed
  BY DEF DurableWal, Unflushed
<1>2. UNCHANGED <<active, immutables, segments, records>>
  BY DEF mem
<1>3. LogInv' /\ PendInv' /\ RowInv' /\ BaseInv' /\ OrdInv'
  BY <1>1, <1>2, KeepCore
<1>4. MemInv'
  BY <1>1, <1>2 DEF DataInv, MemInv
<1>. QED  BY <1>3, <1>4 DEF DataInv

LEMMA DataCapture ==
    ASSUME TypeOK, FilesOwned, DataInv, NEW m \in Mergers, MergeCapture(m) \/ MergeStale(m)
    PROVE  DataInv'
<1>1. /\ lock = "free" /\ merge \in [Mergers -> MergeState] /\ gen \in Nat
      /\ UNCHANGED <<wal, synced, hist, up, nextSeq, mem, current, flush, lock, gen>>
  BY Typed DEF MergeCapture, MergeStale, disk, alloc
<1>2. /\ \A n \in Mergers : merge[n].pc \notin {"renamed", "published"}
      /\ flush.pc \notin {"truncate", "reappend"}
  BY <1>1, Quiet
<1>3. \A n \in Mergers : n # m => merge'[n] = merge[n]
  BY <1>1 DEF MergeCapture, MergeStale
<1>4. \/ merge'[m] = [pc |-> "merging", inputs |-> segments, gen |-> gen, out |-> <<>>]
      \/ merge'[m] = NoMerge
  BY <1>1 DEF MergeCapture, MergeStale
<1>5. segments' = segments
  BY <1>1 DEF mem
<1>6. \A n \in Mergers : merge'[n].pc \notin {"renamed", "published"}
  BY <1>2, <1>3, <1>4 DEF NoMerge
<1>7. MergeInv'
  BY <1>1, <1>2, <1>3, <1>4, <1>5, <1>6 DEF DataInv, MergeInv, NoMerge
<1>. QED  BY <1>1, <1>7, KeepMem

LEMMA MergedKept == ASSUME NEW s \in Seq(Segment) PROVE Merged(s) = Kept(Rows(s))
<1>1. UNION {x.rows : x \in Range(s)} = Rows(s)
  BY DEF Range, Rows
<1>. QED  BY <1>1 DEF Merged, Kept

LEMMA DataRename ==
    ASSUME TypeOK, FilesOwned, DataInv, NEW m \in Mergers, MergeRename(m)
    PROVE  DataInv'
<1>. DEFINE live == Merged(merge[m].inputs)
            out  == IF live = {} THEN <<>> ELSE <<[id |-> nextSeg, rows |-> live]>>
<1>1. /\ merge' = [merge EXCEPT ![m].pc = "renamed", ![m].out = out]
      /\ merge[m].pc = "merging" /\ merge[m].gen = gen /\ lock = "free" /\ lock' = m
      /\ UNCHANGED <<wal, synced, hist, up, nextSeq, mem, current, flush, gen>>
  BY DEF MergeRename, Fresh
<1>2. /\ merge[m].inputs = segments /\ up
      /\ \A n \in Mergers : merge[n].pc \notin {"renamed", "published"}
  BY <1>1, Quiet DEF DataInv, MergeInv, FilesOwned, ThreadsOwned, NoMerge
<1>3. Len(out) <= 1 /\ Rows(out) = live
  BY DEF Rows
<1>. HIDE DEF out
<1>4. /\ merge'[m].pc = "renamed" /\ merge'[m].out = out
      /\ \A n \in Mergers : n # m => merge'[n] = merge[n]
  BY <1>1, Typed DEF MergeState
<1>5. segments' = segments
  BY <1>1 DEF mem
<1>6. MergeInv'
  BY <1>1, <1>2, <1>3, <1>4, <1>5 DEF DataInv, MergeInv
<1>7. m # "write"
  BY DbAssumption
<1>. QED  BY <1>1, <1>2, <1>6, <1>7, KeepMem

\* A merge publishes: what the manifest lists now may lie below the log as well.
LEMMA Publishing ==
    ASSUME TypeOK, FilesOwned, DataInv, NEW m \in Mergers, merge[m].pc \in {"renamed", "published"},
           DurableWal' = DurableWal,
           UNCHANGED <<hist, up, nextSeq, flush>>, current'.segs = merge[m].out,
           segments' \in {segments, merge[m].out}
    PROVE  /\ RowInv' /\ BaseInv' /\ OrderedLayers(Tables(current'.segs))
           /\ Rows(merge[m].out) \subseteq Rows(segments)
<1>. DEFINE out == merge[m].out
            U   == Rows(segments)
<1>1. /\ segments \in Seq(Segment) /\ out \in Seq(Segment) /\ U \subseteq Row
  BY Typed, MergeTyped
<1>2. Len(out) <= 1 /\ Rows(out) = Kept(U)
  BY <1>1, MergedKept DEF DataInv, MergeInv
<1>3. flush.pc \notin {"truncate", "reappend"} /\ up
  BY Alone DEF FilesOwned, ThreadsOwned, NoMerge
<1>4. Unique(U)
  BY DEF DataInv, RowInv, AllRows, Unique
<1>5. Base(U, DurableWal, hist)
  BY <1>3 DEF DataInv, BaseInv
<1>6. Base(Kept(U), DurableWal, hist)
  BY <1>1, <1>4, <1>5, BaseMerged
<1>7. Kept(U) \subseteq U
  BY DEF Kept
<1>8. Rows(segments') \in {U, Kept(U)} /\ Rows(current'.segs) = Kept(U)
  BY <1>2
<1>9. BaseInv'
  BY <1>5, <1>6, <1>8 DEF BaseInv
<1>10. AllRows' \subseteq AllRows
  BY <1>7, <1>8 DEF AllRows
<1>11. RowInv'
  BY <1>10 DEF DataInv, RowInv, Unique
<1>12. DOMAIN out = 1 .. Len(out) /\ Len(out) \in Nat
  BY <1>1
<1>13. \A i, j \in DOMAIN Tables(out) : ~ (i < j)
  BY <1>2, <1>12 DEF Tables
<1>14. OrderedLayers(Tables(out))
  BY <1>13 DEF OrderedLayers
<1>. QED  BY <1>2, <1>7, <1>9, <1>11, <1>14

LEMMA DataMergePublish ==
    ASSUME TypeOK, FilesOwned, DataInv, NEW m \in Mergers,
           MergePublish(m) \/ (MergeFail(m) /\ merge[m].pc = "renamed")
    PROVE  DataInv'
<1>1. /\ merge[m].pc = "renamed" /\ gen' = gen + 1
      /\ current'.segs = merge[m].out \/ current' = current
      /\ UNCHANGED <<wal, synced, hist, up, nextSeq, mem, flush>>
  BY DEF MergePublish, MergeFail, NextGen
<1>2. lock = m /\ flush.pc \notin {"truncate", "reappend"} /\ up
      /\ \A n \in Mergers \ {m} : merge[n].pc \notin {"renamed", "published"}
  BY <1>1, Alone DEF FilesOwned, ThreadsOwned, NoMerge
<1>3. lock' \in {"free", m} /\ lock' # "write" /\ lock # "write"
  BY <1>2, DbAssumption DEF MergePublish, MergeFail
<1>4. UNCHANGED <<active, immutables, segments, records>>
  BY <1>1 DEF mem
<1>5. DurableWal' = DurableWal /\ Unflushed' = Unflushed
  BY <1>1 DEF DurableWal, Unflushed
<1>6. gen \in Nat /\ merge \in [Mergers -> MergeState] /\ \A n \in Mergers : merge[n].gen \in Nat
  BY Typed, MergeTyped
<1>7. \A n \in Mergers : n # m => merge'[n] = merge[n]
  BY <1>6 DEF MergePublish, MergeFail
<1>8. merge'[m] = NoMerge \/ (merge'[m].pc = "published" /\ merge'[m].out = merge[m].out)
  BY <1>6 DEF MergePublish, MergeFail, MergeState
<1>9. MergeInv'
  <2>1. \A n \in Mergers : merge[n].pc = "merging" => merge[n].gen < gen'
    BY <1>1, <1>6 DEF DataInv, MergeInv
  <2>2. \A n \in Mergers : n # m => merge'[n].pc \notin {"renamed", "published"}
    BY <1>2, <1>7
  <2>3. ASSUME NEW n \in Mergers, merge'[n].pc = "merging"
        PROVE  merge'[n].gen < gen'
    BY <1>7, <1>8, <2>1, <2>3 DEF NoMerge
  <2>4. ASSUME NEW n \in Mergers, merge'[n].pc \in {"renamed", "published"}
        PROVE  Len(merge'[n].out) <= 1 /\ Rows(merge'[n].out) = Merged(segments)
    <3>1. n = m /\ merge'[n].out = merge[m].out
      BY <1>8, <2>2, <2>4 DEF NoMerge
    <3>. QED  BY <1>1, <3>1 DEF DataInv, MergeInv
  <2>5. gen' \in Nat /\ \A n \in Mergers : merge'[n].pc = "merging" => merge'[n].gen \in Nat
    BY <1>1, <1>6, <1>7, <1>8 DEF NoMerge
  <2>. QED  BY <1>4, <2>3, <2>4, <2>5 DEF MergeInv
<1>10. MemInv'
  BY <1>1, <1>2, <1>4, <1>5 DEF DataInv, MemInv
<1>11. LogInv' /\ PendInv'
  <2>1. Pending' = Pending
    BY <1>1 DEF Pending
  <2>. QED  BY <1>1, <1>3, <1>5, <2>1 DEF DataInv, LogInv, PendInv
<1>12. CASE current' = current
  BY <1>1, <1>3, <1>4, <1>5, <1>9, <1>10, <1>12, KeepCore DEF DataInv
<1>13. CASE current'.segs = merge[m].out
  <2>1. RowInv' /\ BaseInv' /\ OrderedLayers(Tables(current'.segs))
    BY <1>1, <1>4, <1>5, <1>13, Publishing
  <2>2. OrdInv'
    BY <1>1, <1>4, <2>1 DEF DataInv, OrdInv
  <2>. QED  BY <1>9, <1>10, <1>11, <2>1, <2>2 DEF DataInv
<1>. QED  BY <1>1, <1>12, <1>13

LEMMA DataSwap ==
    ASSUME TypeOK, FilesOwned, DataInv, NEW m \in Mergers, MergeSwap(m) PROVE DataInv'
<1>1. /\ merge[m].pc = "published" /\ segments' = merge[m].out /\ records' = merge[m].out
      /\ merge' = [merge EXCEPT ![m] = NoMerge] /\ lock' = "free"
      /\ UNCHANGED <<wal, synced, current, up, active, immutables, nextSeq, gen, flush, hist>>
  BY DEF MergeSwap, alloc
<1>2. lock = m /\ flush.pc \notin {"truncate", "reappend"} /\ up /\ current.segs = merge[m].out
      /\ \A n \in Mergers \ {m} : merge[n].pc \notin {"renamed", "published"}
  BY <1>1, Alone DEF FilesOwned, ThreadsOwned, OutputOwned, NoMerge
<1>3. lock' # "write" /\ lock # "write"
  BY <1>1, <1>2, DbAssumption
<1>4. DurableWal' = DurableWal /\ Unflushed' = Unflushed
  BY <1>1 DEF DurableWal, Unflushed
<1>5. /\ RowInv' /\ BaseInv' /\ OrderedLayers(Tables(current'.segs))
      /\ Rows(merge[m].out) \subseteq Rows(segments)
  BY <1>1, <1>2, <1>4, Publishing
<1>6. LogInv' /\ PendInv'
  <2>1. Pending' = Pending
    BY <1>1 DEF Pending
  <2>. QED  BY <1>1, <1>3, <1>4, <2>1 DEF DataInv, LogInv, PendInv
<1>7. MemInv'
  BY <1>1, <1>2, <1>4 DEF DataInv, MemInv
<1>8. /\ merge'[m] = NoMerge /\ \A n \in Mergers : n # m => merge'[n] = merge[n]
  BY <1>1, Typed
<1>9. MergeInv'
  <2>1. \A n \in Mergers : merge[n].pc = "merging" => merge[n].gen <= gen /\ merge[n].gen # gen
    BY <1>1 DEF DataInv, MergeInv
  <2>. QED  BY <1>1, <1>2, <1>8, <2>1 DEF MergeInv, NoMerge
<1>10. OrdInv'
  <2>1. Stacked(segments, flush.segs, immutables, active)
    BY <1>2 DEF DataInv, OrdInv
  <2>2. OrderedLayers(Tables(merge[m].out))
    BY <1>1, <1>2, <1>5
  <2>3. Stacked(merge[m].out, flush.segs, immutables, active)
    BY <1>5, <2>1, <2>2 DEF Stacked, Above
  <2>. QED  BY <1>1, <1>5, <2>3 DEF OrdInv
<1>. QED  BY <1>5, <1>6, <1>7, <1>9, <1>10 DEF DataInv

LEMMA DataMergeFail ==
    ASSUME TypeOK, FilesOwned, DataInv, NEW m \in Mergers, MergeFail(m), merge[m].pc = "merging"
    PROVE  DataInv'
<1>1. /\ merge' = [merge EXCEPT ![m] = NoMerge]
      /\ UNCHANGED <<wal, synced, hist, up, nextSeq, mem, current, flush, lock, gen>>
  BY DEF MergeFail
<1>2. /\ merge'[m] = NoMerge /\ \A n \in Mergers : n # m => merge'[n] = merge[n]
  BY <1>1, Typed
<1>3. segments' = segments
  BY <1>1 DEF mem
<1>4. MergeInv'
  BY <1>1, <1>2, <1>3 DEF DataInv, MergeInv, NoMerge
<1>5. ~up => lock = "free"
  BY DEF DataInv, MemInv
<1>. QED  BY <1>1, <1>4, <1>5, KeepMem

LEMMA DataPhaseB ==
    ASSUME TypeOK, FilesOwned, DataInv, FlushPhaseB PROVE DataInv'
<1>1. /\ flush.pc = "build" /\ flush'.pc = "publish"
      /\ flush'.segs = flush.segs /\ flush'.len = flush.len
      /\ UNCHANGED <<wal, synced, hist, up, nextSeq, current, lock, gen, merge>>
      /\ UNCHANGED <<active, immutables, segments, records>>
  BY DEF FlushPhaseB, TypeOK, FlushState, mem, alloc
<1>2. DurableWal' = DurableWal /\ Unflushed' = Unflushed
  BY <1>1 DEF DurableWal, Unflushed
<1>3. LogInv' /\ PendInv' /\ RowInv' /\ BaseInv' /\ OrdInv'
  BY <1>1, <1>2, KeepCore
<1>4. MemInv'
  BY <1>1, <1>2 DEF DataInv, MemInv
<1>5. MergeInv'
  BY <1>1 DEF DataInv, MergeInv
<1>. QED  BY <1>3, <1>4, <1>5 DEF DataInv

\* The parts about the log when only the memory moves.
LEMMA KeepLog ==
    ASSUME DataInv, DurableWal' = DurableWal, Unflushed' = Unflushed \/ lock = "free",
           flush'.pc # "reappend", flush.pc # "reappend",
           lock' = lock, UNCHANGED <<wal, synced, hist, up, nextSeq, segments, current>>
    PROVE  LogInv' /\ PendInv' /\ RowInv' /\ BaseInv'
<1>1. LogInv' /\ BaseInv'
  BY DEF DataInv, LogInv, BaseInv
<1>2. Pending' = Pending
  BY DEF Pending
<1>3. PendInv'
  BY <1>2 DEF DataInv, PendInv
<1>4. AllRows' = AllRows
  BY DEF AllRows
<1>5. RowInv'
  BY <1>4 DEF DataInv, RowInv
<1>. QED  BY <1>1, <1>3, <1>5

LEMMA DataRotate ==
    ASSUME TypeOK, FilesOwned, DataInv, Rotate PROVE DataInv'
<1>1. /\ up /\ lock = "free" /\ immutables' = Append(immutables, active) /\ active' = {}
      /\ UNCHANGED <<wal, synced, hist, up, nextSeq, current, lock, gen, merge, flush>>
      /\ UNCHANGED <<segments, records>>
  BY DEF Rotate, disk, alloc, threads
<1>2. DurableWal' = DurableWal /\ Unflushed' = Unflushed
  BY <1>1 DEF DurableWal, Unflushed
<1>3. flush.pc # "reappend"
  BY <1>1, Quiet
<1>4. LogInv' /\ PendInv' /\ RowInv' /\ BaseInv'
  BY <1>1, <1>2, <1>3, KeepLog
<1>5. immutables \in Stack /\ active \in SUBSET Row
  BY Typed
<1>6. /\ TableRows(immutables') = TableRows(immutables) \cup active
      /\ OrderedLayers(immutables') <=> OrderedLayers(immutables) /\ Above(TableRows(immutables), active)
  BY <1>1, <1>5, PushOrdered
<1>7. MemInv'
  BY <1>1, <1>2, <1>6 DEF DataInv, MemInv
<1>8. MergeInv'
  BY <1>1 DEF DataInv, MergeInv
<1>9. OrdInv'
  <2>1. Stacked(segments, flush.segs, immutables, active)
    BY <1>1 DEF DataInv, OrdInv
  <2>2. \A i \in DOMAIN immutables' : \/ i \in DOMAIN immutables /\ immutables'[i] = immutables[i]
                                      \/ immutables'[i] = active
    BY <1>1, <1>5 DEF Stack
  <2>3. Above(Rows(segments) \cup Rows(flush.segs), active)
    BY <2>1 DEF Stacked, Above
  <2>4. \A i \in DOMAIN immutables' : Above(Rows(segments) \cup Rows(flush.segs), immutables'[i])
    BY <2>1, <2>2, <2>3 DEF Stacked
  <2>5. OrderedLayers(immutables')
    BY <1>6, <2>1 DEF Stacked, Above
  <2>6. Above(Rows(segments) \cup Rows(flush.segs) \cup TableRows(immutables'), {})
    BY DEF Above, Holds
  <2>7. Stacked(segments, flush.segs, immutables', {})
    BY <2>1, <2>4, <2>5, <2>6 DEF Stacked
  <2>. QED  BY <1>1, <2>7 DEF DataInv, OrdInv
<1>. QED  BY <1>4, <1>7, <1>8, <1>9 DEF DataInv

LEMMA DataPhaseA ==
    ASSUME TypeOK, FilesOwned, DataInv, FlushPhaseA PROVE DataInv'
<1>. DEFINE all == IF active = {} THEN immutables ELSE Append(immutables, active)
            sg  == [i \in DOMAIN all |-> [id |-> nextSeg + i - 1, rows |-> all[i]]]
<1>1. /\ flush' = [pc |-> "build", len |-> Len(wal), tail |-> <<>>, segs |-> sg]
      /\ up /\ lock = "free" /\ flush.pc = "idle" /\ immutables' = <<>> /\ active' = {}
      /\ UNCHANGED <<wal, synced, hist, up, nextSeq, current, lock, gen, merge>>
      /\ UNCHANGED <<segments, records>>
  BY DEF FlushPhaseA, disk
<1>2. /\ immutables \in Stack /\ active \in SUBSET Row /\ wal \in Seq(Frame)
  BY Typed
<1>3. Stacked(segments, <<>>, immutables, active) /\ flush.segs = <<>>
  BY <1>1 DEF DataInv, OrdInv, MemInv
<1>4. Rows(<<>>) = {}
  BY DEF Rows
<1>5. /\ TableRows(all) = TableRows(immutables) \cup active
      /\ OrderedLayers(all) /\ \A i \in DOMAIN all : Above(Rows(segments), all[i])
  <2>1. CASE active = {}
    BY <1>3, <1>4, <2>1 DEF Stacked
  <2>2. CASE active # {}
    <3>1. all = Append(immutables, active)
      BY <2>2
    <3>2. /\ OrderedLayers(immutables) /\ Above(TableRows(immutables), active)
          /\ Above(Rows(segments), active)
          /\ \A i \in DOMAIN immutables : Above(Rows(segments), immutables[i])
      BY <1>3, <1>4 DEF Stacked, Above
    <3>3. \A i \in DOMAIN all : \/ i \in DOMAIN immutables /\ all[i] = immutables[i]
                                \/ all[i] = active
      BY <1>2, <3>1 DEF Stack
    <3>. HIDE DEF all
    <3>. QED  BY <1>2, <3>1, <3>2, <3>3, PushOrdered
  <2>. QED  BY <2>1, <2>2
<1>. HIDE DEF all
<1>6. DOMAIN sg = DOMAIN all /\ \A i \in DOMAIN sg : sg[i].rows = all[i]
  OBVIOUS
<1>. HIDE DEF sg
<1>7. Tables(sg) = [i \in DOMAIN all |-> all[i]]
  BY <1>6 DEF Tables
<1>8. OrderedLayers(Tables(sg)) /\ Rows(sg) = TableRows(all)
  BY <1>5, <1>6, <1>7 DEF OrderedLayers, Rows, TableRows
<1>9. DurableWal' = DurableWal /\ DurableWal = wal /\ Unflushed = 0 /\ Unflushed' = Len(wal)
  BY <1>1 DEF DurableWal, Unflushed
<1>10. LogInv' /\ PendInv' /\ RowInv' /\ BaseInv'
  BY <1>1, <1>9, KeepLog
<1>11. OrdInv'
  <2>1. Stacked(segments, sg, <<>>, {})
    <3>1. OrderedLayers(<<>>) /\ TableRows(<<>>) = {} /\ DOMAIN <<>> = {}
      BY DEF OrderedLayers, TableRows
    <3>2. \A U : Above(U, {})
      BY DEF Above, Holds
    <3>3. OrderedLayers(Tables(segments))
      BY <1>3 DEF Stacked
    <3>. QED  BY <1>5, <1>6, <1>8, <3>1, <3>2, <3>3 DEF Stacked
  <2>2. flush'.segs = sg
    BY <1>1
  <2>. QED  BY <1>1, <2>1, <2>2 DEF DataInv, OrdInv
<1>12. MemInv'
  <2>. DEFINE A == AckedIn(wal, hist)
  <2>1. DOMAIN wal = 1 .. Len(wal) /\ Len(wal) \in Nat
    BY <1>2
  <2>2. A \subseteq 1 .. Len(wal)
    BY <2>1 DEF AckedIn
  <2>3. TableRows(immutables) \cup active = FrameRows(wal, {i \in A : 0 < i})
    BY <1>1, <1>9 DEF DataInv, MemInv
  <2>. HIDE DEF A
  <2>4. /\ {i \in A : 0 < i} = {i \in A : i <= Len(wal)} /\ {i \in A : Len(wal) < i} = {}
    <3>1. \A i \in A : 0 < i /\ i <= Len(wal) /\ ~ (Len(wal) < i)
      BY <2>1, <2>2
    <3>. QED  BY <3>1
  <2>5. Rows(sg) = FrameRows(wal, {i \in A : i <= Len(wal)})
    BY <1>5, <1>8, <2>3, <2>4
  <2>6. FrameRows(wal, {i \in A : Len(wal) < i}) = {}
    BY <2>4 DEF FrameRows
  <2>7. TableRows(<<>>) \cup {} = {}
    BY DEF TableRows
  <2>8. flush'.pc = "build" /\ flush'.segs = sg /\ flush'.len = Len(wal) /\ hist' = hist
        /\ up' /\ records' = segments' /\ immutables' = <<>> /\ active' = {} /\ DurableWal' = wal
    BY <1>1, <1>9 DEF DataInv, MemInv
  <2>9. AckedIn(DurableWal', hist') = A /\ Unflushed' = Len(wal) /\ Len(wal) <= Len(wal)
    BY <1>9, <2>1, <2>8 DEF A
  <2>10. Rows(flush'.segs) = FrameRows(DurableWal', {i \in AckedIn(DurableWal', hist') : i <= flush'.len})
    BY <2>5, <2>8, <2>9
  <2>11. TableRows(immutables') \cup active'
            = FrameRows(DurableWal', {i \in AckedIn(DurableWal', hist') : Unflushed' < i})
    BY <2>6, <2>7, <2>8, <2>9
  <2>. QED  BY <2>8, <2>9, <2>10, <2>11 DEF MemInv
<1>13. MergeInv'
  <2>1. flush'.pc = "build"
    BY <1>1
  <2>. QED  BY <1>1, <2>1 DEF DataInv, MergeInv
<1>. QED  BY <1>10, <1>11, <1>12, <1>13 DEF DataInv

LEMMA DataFlushPublish ==
    ASSUME TypeOK, FilesOwned, DataInv, FlushPublish PROVE DataInv'
<1>1. /\ flush.pc = "publish" /\ lock = "free" /\ lock' = "flush"
      /\ records' = records \o flush.segs /\ gen' = gen + 1 /\ current'.segs = records'
      /\ flush'.pc = "truncate" /\ flush'.segs = flush.segs /\ flush'.len = flush.len
      /\ UNCHANGED <<wal, synced, hist, up, nextSeq, merge, active, immutables, segments>>
  BY DEF FlushPublish, Extend, NextGen, TypeOK, FlushState
<1>2. up /\ \A m \in Mergers : merge[m].pc \notin {"renamed", "published"}
  BY <1>1, Quiet DEF FilesOwned, ThreadsOwned, NoFlush
<1>3. current'.segs = segments \o flush.segs
  BY <1>1, <1>2 DEF DataInv, MemInv
<1>4. segments \in Seq(Segment) /\ flush.segs \in Seq(Segment)
  BY Typed
<1>5. Tables(current'.segs) = Tables(segments) \o Tables(flush.segs)
      /\ Rows(current'.segs) = Rows(segments) \cup Rows(flush.segs)
  BY <1>3, <1>4, TablesCat
<1>6. DurableWal' = DurableWal /\ Unflushed' = Unflushed
  BY <1>1 DEF DurableWal, Unflushed
<1>7. LogInv' /\ PendInv'
  <2>1. Pending' = Pending
    BY <1>1 DEF Pending
  <2>. QED  BY <1>1, <1>6, <2>1 DEF DataInv, LogInv, PendInv
<1>8. MemInv'
  BY <1>1, <1>2, <1>3, <1>6 DEF DataInv, MemInv
<1>9. MergeInv'
  <2>1. gen \in Nat /\ \A m \in Mergers : merge[m].gen \in Nat
    BY Typed, MergeTyped
  <2>2. \A m \in Mergers : merge[m].pc = "merging" => merge[m].gen <= gen' /\ merge[m].gen # gen'
    BY <1>1, <2>1 DEF DataInv, MergeInv
  <2>. QED  BY <1>1, <1>2, <2>2 DEF MergeInv
<1>10. Rows(flush.segs) \subseteq FrameRows(DurableWal, AckedIn(DurableWal, hist))
  <2>1. Rows(flush.segs)
           = FrameRows(DurableWal, {i \in AckedIn(DurableWal, hist) : i <= flush.len})
    BY <1>1, <1>2 DEF DataInv, MemInv
  <2>. QED  BY <2>1 DEF FrameRows
<1>11. BaseInv'
  <2>1. Base(Rows(segments), DurableWal, hist)
    BY <1>1, <1>2 DEF DataInv, BaseInv
  <2>2. Base(Rows(segments) \cup Rows(flush.segs), DurableWal, hist)
    BY <1>10, <2>1, BaseJoin
  <2>. QED  BY <1>1, <1>5, <1>6, <2>1, <2>2 DEF BaseInv
<1>12. RowInv'
  <2>1. FrameRows(DurableWal, AckedIn(DurableWal, hist)) \subseteq FrameRows(DurableWal, DOMAIN DurableWal)
    BY DEF FrameRows, AckedIn
  <2>2. AllRows' \subseteq AllRows
    BY <1>1, <1>5, <1>6, <1>10, <2>1 DEF AllRows
  <2>. QED  BY <1>1, <2>2 DEF DataInv, RowInv, Unique
<1>13. OrdInv'
  <2>1. Stacked(segments, flush.segs, immutables, active)
    BY <1>2 DEF DataInv, OrdInv
  <2>2. /\ Tables(segments) \in Stack /\ TableRows(Tables(segments)) = Rows(segments)
        /\ Tables(flush.segs) \in Stack /\ DOMAIN Tables(flush.segs) = DOMAIN flush.segs
        /\ \A i \in DOMAIN flush.segs : Tables(flush.segs)[i] = flush.segs[i].rows
    BY <1>4, TablesAre
  <2>3. \A j \in DOMAIN Tables(flush.segs) : Above(TableRows(Tables(segments)), Tables(flush.segs)[j])
    BY <2>1, <2>2 DEF Stacked
  <2>4. OrderedLayers(Tables(segments)) /\ OrderedLayers(Tables(flush.segs))
    BY <2>1 DEF Stacked
  <2>5. OrderedLayers(Tables(segments) \o Tables(flush.segs))
    BY <2>2, <2>3, <2>4, CatOrdered
  <2>. QED  BY <1>1, <1>5, <2>1, <2>5 DEF OrdInv
<1>. QED  BY <1>7, <1>8, <1>9, <1>11, <1>12, <1>13 DEF DataInv

LEMMA DataTruncate ==
    ASSUME TypeOK, FilesOwned, DataInv, FlushTruncate PROVE DataInv'
<1>1. /\ flush.pc = "truncate" /\ flush'.pc = "reappend" /\ flush'.segs = flush.segs
      /\ flush'.tail = SubSeq(wal, flush.len + 1, Len(wal)) /\ wal' = <<>>
      /\ UNCHANGED <<hist, up, nextSeq, current, lock, gen, merge>>
      /\ UNCHANGED <<active, immutables, segments, records>>
  BY DEF FlushTruncate, UncoveredTail, TypeOK, FlushState, mem, alloc
<1>2. up /\ lock = "flush"
  BY <1>1 DEF FilesOwned, ThreadsOwned, NoFlush
<1>3. /\ DurableWal = wal /\ DurableWal' = SubSeq(wal, flush.len + 1, Len(wal))
      /\ Unflushed = flush.len /\ Unflushed' = 0
  BY <1>1 DEF DurableWal, Unflushed
<1>4. /\ Log(wal, hist) /\ Base(Rows(segments), wal, hist)
      /\ \A i \in DOMAIN wal : wal[i].ok /\ wal[i].seq < nextSeq
  BY <1>1, <1>2, <1>3 DEF DataInv, LogInv, BaseInv
<1>5. flush.len \in 0 .. Len(wal) /\ wal \in Seq(Frame) /\ Len(wal) \in Nat
  <2>1. flush.len \in Nat /\ wal \in Seq(Frame)
    BY Typed
  <2>2. flush.len <= Len(wal) /\ Len(wal) \in Nat
    BY <1>2, <1>3, <2>1 DEF DataInv, MemInv
  <2>. QED  BY <2>1, <2>2
<1>6. PICK w : w = SubSeq(wal, flush.len + 1, Len(wal))
  OBVIOUS
<1>7. /\ Log(w, hist)
      /\ FrameRows(w, AckedIn(w, hist)) = FrameRows(wal, {i \in AckedIn(wal, hist) : flush.len < i})
      /\ FrameRows(w, DOMAIN w) \subseteq FrameRows(wal, DOMAIN wal)
      /\ Base(Rows(segments) \cup FrameRows(wal, {i \in AckedIn(wal, hist) : i <= flush.len}), w, hist)
  <2>1. Rows(segments) \in SUBSET Row
    BY Typed
  <2>2. Truncated(wal, w, hist, flush.len, Rows(segments))
    BY <1>4, <1>5, <1>6, <2>1 DEF Truncated
  <2>. QED  BY <2>2, Truncating, Zenon
<1>8. DurableWal' = w
  BY <1>3, <1>6
<1>9. /\ current.segs = segments \o flush.segs /\ records = current.segs
      /\ Rows(flush.segs) = FrameRows(wal, {i \in AckedIn(wal, hist) : i <= flush.len})
      /\ TableRows(immutables) \cup active = FrameRows(wal, {i \in AckedIn(wal, hist) : flush.len < i})
  BY <1>1, <1>2, <1>3 DEF DataInv, MemInv
<1>10. Rows(current.segs) = Rows(segments) \cup Rows(flush.segs)
  BY <1>9, Typed, TablesCat
<1>11. LogInv'
  <2>1. ASSUME NEW i \in DOMAIN w PROVE w[i].ok /\ w[i].seq < nextSeq
    <3>1. DOMAIN w = 1 .. Len(wal) - flush.len /\ w[i] = wal[flush.len + i]
          /\ flush.len + i \in DOMAIN wal
      BY <1>5, <1>6
    <3>. QED  BY <1>4, <3>1
  <2>. QED  BY <1>1, <1>7, <1>8, <2>1 DEF LogInv
<1>12. PendInv'
  <2>1. Pending = {} /\ Pending' = Pending
    BY <1>1, <1>2 DEF DataInv, PendInv, Pending
  <2>. QED  BY <1>1, <1>2, <2>1 DEF PendInv
<1>13. MemInv'
  <2>1. AckedIn(w, hist) \subseteq Nat \ {0} /\ Len(w) \in Nat
    <3>1. w \in Seq(Frame)
      BY <1>7 DEF Log
    <3>2. DOMAIN w = 1 .. Len(w) /\ Len(w) \in Nat
      BY <3>1
    <3>. QED  BY <3>2 DEF AckedIn
  <2>2. {i \in AckedIn(w, hist) : 0 < i} = AckedIn(w, hist)
    BY <2>1
  <2>3. TableRows(immutables) \cup active = FrameRows(w, {i \in AckedIn(w, hist) : 0 < i})
    BY <1>7, <1>9, <2>2
  <2>4. /\ TableRows(immutables') \cup active'
              = FrameRows(DurableWal', {i \in AckedIn(DurableWal', hist') : Unflushed' < i})
    BY <1>1, <1>3, <1>8, <2>3
  <2>5. Unflushed' <= Len(DurableWal')
    <3>1. Unflushed' = 0
      BY <1>3
    <3>. QED  BY <1>8, <2>1, <3>1
  <2>. QED  BY <1>1, <1>2, <1>9, <2>4, <2>5 DEF MemInv
<1>14. MergeInv'
  BY <1>1 DEF DataInv, MergeInv
<1>15. RowInv'
  <2>1. AllRows' \subseteq AllRows
    BY <1>1, <1>3, <1>7, <1>8 DEF AllRows
  <2>. QED  BY <1>1, <2>1 DEF DataInv, RowInv, Unique
<1>16. BaseInv'
  <2>1. Base(Rows(current.segs), w, hist)
    BY <1>7, <1>9, <1>10
  <2>. QED  BY <1>1, <1>8, <2>1 DEF BaseInv
<1>17. OrdInv'
  BY <1>1 DEF DataInv, OrdInv
<1>. QED  BY <1>11, <1>12, <1>13, <1>14, <1>15, <1>16, <1>17 DEF DataInv

LEMMA DataReappend ==
    ASSUME TypeOK, FilesOwned, DataInv, FlushReappend PROVE DataInv'
<1>1. /\ flush.pc = "reappend" /\ wal' = flush.tail /\ synced' = Len(flush.tail)
      /\ segments' = segments \o flush.segs /\ flush'.pc = "idle" /\ flush'.segs = <<>>
      /\ lock' = "free"
      /\ UNCHANGED <<hist, up, nextSeq, current, gen, merge, active, immutables, records>>
  BY DEF FlushReappend, Extend, NoFlush, alloc
<1>2. up /\ lock = "flush"
  BY <1>1 DEF FilesOwned, ThreadsOwned, NoFlush
<1>3. /\ DurableWal' = DurableWal /\ DurableWal = flush.tail /\ Unflushed' = 0 /\ Unflushed = 0
  BY <1>1 DEF DurableWal, Unflushed
<1>4. segments' = current.segs /\ records = current.segs
  BY <1>1, <1>2 DEF DataInv, MemInv
<1>5. LogInv'
  <2>1. \A i \in AckedIn(flush.tail, hist) : i <= Len(flush.tail)
    <3>1. flush.tail \in Seq(Frame)
      BY Typed
    <3>2. DOMAIN flush.tail = 1 .. Len(flush.tail) /\ Len(flush.tail) \in Nat
      BY <3>1
    <3>. QED  BY <3>2 DEF AckedIn
  <2>2. /\ Log(DurableWal, hist)
        /\ \A i \in DOMAIN DurableWal : DurableWal[i].ok /\ DurableWal[i].seq < nextSeq
    BY <1>2 DEF DataInv, LogInv
  <2>. QED  BY <1>1, <1>3, <2>1, <2>2 DEF LogInv
<1>6. PendInv'
  <2>1. Pending = {} /\ Pending' = Pending
    BY <1>1, <1>2 DEF DataInv, PendInv, Pending
  <2>. QED  BY <1>1, <1>2, <2>1 DEF PendInv
<1>7. MemInv'
  <2>1. TableRows(immutables) \cup active
           = FrameRows(DurableWal, {i \in AckedIn(DurableWal, hist) : Unflushed < i})
    BY <1>2 DEF DataInv, MemInv
  <2>2. TableRows(immutables') \cup active'
           = FrameRows(DurableWal', {i \in AckedIn(DurableWal', hist') : Unflushed' < i})
    BY <1>1, <1>3, <2>1
  <2>3. Unflushed' <= Len(DurableWal')
    BY <1>2, <1>3 DEF DataInv, MemInv
  <2>. QED  BY <1>1, <1>2, <1>4, <2>2, <2>3 DEF MemInv
<1>8. MergeInv'
  <2>1. \A m \in Mergers : merge[m].pc \notin {"renamed", "published"}
    BY <1>2, DbAssumption DEF FilesOwned, OutputOwned
  <2>2. \A m \in Mergers : merge[m].pc = "merging" => merge[m].gen <= gen /\ merge[m].gen # gen
    BY <1>1 DEF DataInv, MergeInv
  <2>. QED  BY <1>1, <2>1, <2>2 DEF MergeInv
<1>9. RowInv'
  <2>1. AllRows' \subseteq AllRows
    BY <1>1, <1>3, <1>4 DEF AllRows
  <2>. QED  BY <1>1, <2>1 DEF DataInv, RowInv, Unique
<1>10. BaseInv'
  BY <1>1, <1>3, <1>4 DEF DataInv, BaseInv
<1>11. OrdInv'
  <2>1. Stacked(segments, flush.segs, immutables, active) /\ OrderedLayers(Tables(current.segs))
    BY <1>2 DEF DataInv, OrdInv
  <2>2. Rows(segments') = Rows(segments) \cup Rows(flush.segs)
    BY <1>1, Typed, TablesCat
  <2>3. Rows(<<>>) = {} /\ DOMAIN <<>> = {} /\ OrderedLayers(Tables(<<>>))
    BY DEF Rows, Tables, OrderedLayers
  <2>4. Stacked(current.segs, <<>>, immutables, active)
    BY <1>4, <2>1, <2>2, <2>3 DEF Stacked
  <2>. QED  BY <1>1, <1>4, <2>1, <2>4 DEF OrdInv
<1>. QED  BY <1>5, <1>6, <1>7, <1>8, <1>9, <1>10, <1>11 DEF DataInv

LEMMA DataAppend ==
    ASSUME TypeOK, FilesOwned, DataInv, NEW b \in Batches, WriteAppend(b) PROVE DataInv'
<1>. DEFINE f == [seq |-> nextSeq, wid |-> Len(hist) + 1, ops |-> b, ok |-> TRUE]
            x == [ops |-> b, seq |-> nextSeq, st |-> "pending"]
<1>1. /\ up /\ lock \in {"free", "write"} /\ lock' = "write" /\ nextSeq' = nextSeq + 1
      /\ hist' = Append(hist, x) /\ wal' = Append(wal, f)
      /\ UNCHANGED <<synced, current, up, gen, flush, merge>>
      /\ UNCHANGED <<active, immutables, segments, records>>
  BY DEF WriteAppend, MayAppend, mem
<1>2. flush.pc \notin {"truncate", "reappend"}
  BY <1>1, Quiet
<1>3. DurableWal = wal /\ DurableWal' = wal' /\ Unflushed' = Unflushed
  BY <1>1, <1>2 DEF DurableWal, Unflushed
<1>4. /\ hist \in Seq(Write) /\ wal \in Seq(Frame) /\ nextSeq \in Nat /\ synced \in Nat
      /\ Unflushed \in Nat
  BY Typed
<1>5. Len(hist) \in Nat /\ Len(wal) \in Nat
  BY <1>4
<1>6. /\ f \in Frame /\ x \in Write
  BY <1>4, <1>5 DEF Frame, Write, Status
<1>7. f.wid = Len(hist) + 1 /\ f.ops = x.ops /\ x.st = "pending" /\ f.seq = nextSeq /\ f.ok
  OBVIOUS
<1>. HIDE DEF f, x
<1>8. /\ Log(wal, hist) /\ \A i \in DOMAIN wal : wal[i].ok /\ wal[i].seq < nextSeq
  BY <1>1, <1>3 DEF DataInv, LogInv
<1>9. \A i \in DOMAIN wal : wal[i].ok /\ wal[i].seq < f.seq
  BY <1>7, <1>8
<1>10. /\ Log(wal', hist') /\ AckedIn(wal', hist') = AckedIn(wal, hist)
       /\ Acked(hist') = Acked(hist)
       /\ \A I \in SUBSET DOMAIN wal : FrameRows(wal', I) = FrameRows(wal, I)
       /\ \A B : Base(B, wal, hist) /\ (\A r \in B : r.seq < f.seq) => Base(B, wal', hist')
  BY <1>1, <1>6, <1>7, <1>8, <1>9, Appending
<1>11. /\ DOMAIN wal = 1 .. Len(wal) /\ DOMAIN wal' = DOMAIN wal \cup {Len(wal) + 1}
       /\ wal'[Len(wal) + 1] = f /\ \A i \in DOMAIN wal : wal'[i] = wal[i]
       /\ Len(wal') = Len(wal) + 1
  BY <1>1, <1>4, <1>6
<1>12. /\ DOMAIN hist = 1 .. Len(hist) /\ DOMAIN hist' = DOMAIN hist \cup {Len(hist) + 1}
       /\ hist'[Len(hist) + 1] = x /\ \A i \in DOMAIN hist : hist'[i] = hist[i]
  BY <1>1, <1>4, <1>6
<1>13. LogInv'
  <2>1. \A i \in DOMAIN wal' : wal'[i].ok /\ wal'[i].seq < nextSeq'
    <3>1. \A i \in DOMAIN wal : wal[i].seq \in Nat
      BY <1>8, LogTyped
    <3>. QED  BY <1>1, <1>4, <1>7, <1>8, <1>11, <3>1
  <2>. QED  BY <1>1, <1>2, <1>3, <1>10, <2>1 DEF DataInv, LogInv
<1>14. PendInv'
  <2>1. Pending' = Pending \cup {Len(hist) + 1}
    BY <1>7, <1>12 DEF Pending
  <2>2. Pending \subseteq DOMAIN hist
    BY DEF Pending
  <2>3. ASSUME NEW p \in Pending', NEW q \in DOMAIN hist', p <= q PROVE q \in Pending'
    BY <1>5, <1>12, <2>1, <2>2, <2>3 DEF DataInv, PendInv
  <2>4. ASSUME NEW p \in Pending' PROVE \E i \in DOMAIN wal' : wal'[i].wid = p /\ Unflushed < i
    <3>1. CASE p \in Pending
      BY <1>3, <1>11, <3>1 DEF DataInv, PendInv
    <3>2. CASE p = Len(hist) + 1
      <4>1. Unflushed <= Len(wal)
        BY <1>1, <1>3 DEF DataInv, MemInv
      <4>2. Unflushed < Len(wal) + 1
        BY <1>4, <1>5, <4>1
      <4>. QED  BY <1>7, <1>11, <3>2, <4>2
    <3>. QED  BY <2>1, <3>1, <3>2
  <2>. QED  BY <1>1, <1>3, <2>1, <2>3, <2>4 DEF PendInv
<1>15. MemInv'
  <2>2. /\ {i \in AckedIn(wal, hist) : i <= flush.len} \in SUBSET DOMAIN wal
        /\ {i \in AckedIn(wal, hist) : Unflushed < i} \in SUBSET DOMAIN wal
    BY DEF AckedIn
  <2>3. /\ flush.pc \in {"build", "publish", "truncate"} =>
              Rows(flush.segs) = FrameRows(wal', {i \in AckedIn(wal', hist') : i <= flush.len})
        /\ TableRows(immutables) \cup active
              = FrameRows(wal', {i \in AckedIn(wal', hist') : Unflushed < i})
    BY <1>1, <1>3, <1>10, <2>2 DEF DataInv, MemInv
  <2>4. Unflushed <= Len(wal')
    <3>1. Unflushed <= Len(wal)
      BY <1>1, <1>3 DEF DataInv, MemInv
    <3>. QED  BY <1>4, <1>5, <1>11, <3>1
  <2>. QED  BY <1>1, <1>2, <1>3, <2>3, <2>4 DEF DataInv, MemInv
<1>16. MergeInv'
  BY <1>1 DEF DataInv, MergeInv
<1>17. RowInv'
  <2>1. AllRows' = AllRows \cup RowsOf(f)
    <3>1. FrameRows(wal', DOMAIN wal') = FrameRows(wal, DOMAIN wal) \cup RowsOf(f)
      BY <1>11 DEF FrameRows
    <3>. QED  BY <1>1, <1>3, <3>1 DEF AllRows
  <2>2. \A r \in AllRows : r.seq < nextSeq /\ r.seq \in Nat
    <3>1. AllRows \subseteq Row
      BY <1>3, Typed, FrameRowsTyped DEF AllRows
    <3>. QED  BY <1>1, <3>1 DEF DataInv, RowInv, Row
  <2>3. \A r \in RowsOf(f) : r.seq = nextSeq
    BY <1>7, RowOfFrame
  <2>4. \A r, q \in RowsOf(f) : r.key = q.key => r = q
    BY DEF RowsOf
  <2>5. Unique(AllRows)
    BY DEF DataInv, RowInv
  <2>6. Unique(AllRows')
    BY <1>4, <2>1, <2>2, <2>3, <2>4, <2>5 DEF Unique
  <2>7. \A r \in AllRows' : r.seq < nextSeq'
    BY <1>1, <1>4, <2>1, <2>2, <2>3
  <2>. QED  BY <2>6, <2>7 DEF RowInv
<1>18. BaseInv'
  <2>1. \A r \in Rows(current.segs) \cup Rows(segments) : r.seq < f.seq
    BY <1>1, <1>7 DEF DataInv, RowInv, AllRows
  <2>2. Base(Rows(current.segs), wal, hist) /\ Base(Rows(segments), wal, hist)
    BY <1>1, <1>2, <1>3 DEF DataInv, BaseInv
  <2>3. Base(Rows(current.segs), wal', hist') /\ Base(Rows(segments), wal', hist')
    BY <1>10, <2>1, <2>2
  <2>. QED  BY <1>1, <1>3, <2>3 DEF BaseInv
<1>19. OrdInv'
  BY <1>1 DEF DataInv, OrdInv
<1>. QED  BY <1>13, <1>14, <1>15, <1>16, <1>17, <1>18, <1>19 DEF DataInv

\* The writes in flight fail, and no write but a failed one is new.
Failing(h, h2) ==
    /\ h2 \in Seq(Write)
    /\ \A i \in DOMAIN h : /\ i \in DOMAIN h2 /\ h2[i].ops = h[i].ops
                           /\ h2[i].st = IF h[i].st = "pending" THEN "failed" ELSE h[i].st
    /\ \A i \in DOMAIN h2 : i \in DOMAIN h \/ h2[i].st = "failed"

LEMMA FailingKeeps ==
    ASSUME NEW w, NEW h, NEW h2, Log(w, h), Failing(h, h2)
    PROVE  /\ Log(w, h2) /\ AckedIn(w, h2) = AckedIn(w, h) /\ Acked(h2) = Acked(h)
           /\ \A B : Base(B, w, h) => Base(B, w, h2)
           /\ \A i \in DOMAIN h2 : h2[i].st # "pending"
<1>1. \A i \in DOMAIN w : w[i].wid \in DOMAIN h /\ h[w[i].wid].st # "lost"
  BY DEF Log
<1>2. Acked(h2) = Acked(h)
  BY DEF Acked, Failing
<1>3. AckedIn(w, h2) = AckedIn(w, h)
  BY <1>1 DEF AckedIn, Failing
<1>4. Grown(w, h, h2)
  BY <1>1, <1>2, <1>3 DEF Grown, Failing, Log
<1>. QED  BY <1>2, <1>3, <1>4, Growth DEF Failing

LEMMA SettleIs ==
    ASSUME hist \in Seq(Write), NEW st \in Status
    PROVE  /\ Settle(st) \in Seq(Write) /\ DOMAIN Settle(st) = DOMAIN hist
           /\ Len(Settle(st)) = Len(hist)
           /\ \A i \in DOMAIN hist : /\ Settle(st)[i].ops = hist[i].ops
                                     /\ Settle(st)[i].st = IF hist[i].st = "pending" THEN st ELSE hist[i].st
<1>1. Settle(st) \in Seq(Write)
  BY SettleTyped
<1>2. DOMAIN Settle(st) = DOMAIN hist
  BY DEF Settle
<1>3. Len(Settle(st)) = Len(hist)
  BY <1>1, <1>2
<1>4. ASSUME NEW i \in DOMAIN hist
      PROVE  /\ Settle(st)[i].ops = hist[i].ops
             /\ Settle(st)[i].st = IF hist[i].st = "pending" THEN st ELSE hist[i].st
  <2>1. hist[i] \in Write
    BY StatusTyped
  <2>2. /\ [hist[i] EXCEPT !.st = st].ops = hist[i].ops /\ [hist[i] EXCEPT !.st = st].st = st
    BY <2>1 DEF Write
  <2>. QED  BY <2>2 DEF Settle, Pending
<1>. QED  BY <1>1, <1>2, <1>3, <1>4

\* An append or an fsync that fails.
LEMMA DataFail ==
    ASSUME SafeFaults, TypeOK, FilesOwned, DataInv,
           WriteSyncFail \/ \E b \in Batches : WriteAppendFail(b)
    PROVE  DataInv'
<1>1. /\ up /\ lock \in {"free", "write"} /\ lock' = "free" /\ nextSeq' \in {nextSeq, nextSeq + 1}
      /\ UNCHANGED <<wal, synced, current, up, gen, flush, merge>>
      /\ UNCHANGED <<active, immutables, segments, records>>
  BY DEF WriteAppendFail, WriteSyncFail, MayAppend, mem, disk, alloc, SafeFaults, DataInv, MemInv
<1>2. flush.pc \notin {"truncate", "reappend"}
  BY <1>1, Quiet
<1>3. DurableWal = wal /\ DurableWal' = wal /\ Unflushed' = Unflushed
  BY <1>1, <1>2 DEF DurableWal, Unflushed
<1>4. hist \in Seq(Write) /\ wal \in Seq(Frame) /\ nextSeq \in Nat
  BY Typed
<1>5. Failing(hist, hist')
  <2>1. /\ Settle("failed") \in Seq(Write) /\ DOMAIN Settle("failed") = DOMAIN hist
        /\ Len(Settle("failed")) = Len(hist)
        /\ \A i \in DOMAIN hist :
              /\ Settle("failed")[i].ops = hist[i].ops
              /\ Settle("failed")[i].st = IF hist[i].st = "pending" THEN "failed" ELSE hist[i].st
    BY <1>4, SettleIs DEF Status
  <2>2. CASE hist' = Settle("failed")
    BY <2>1, <2>2 DEF Failing
  <2>3. ASSUME NEW b \in Batches,
               hist' = Append(Settle("failed"), [ops |-> b, seq |-> nextSeq, st |-> "failed"])
        PROVE  Failing(hist, hist')
    <3>. DEFINE x == [ops |-> b, seq |-> nextSeq, st |-> "failed"]
                h == Settle("failed")
    <3>1. x \in Write /\ x.st = "failed"
      BY <1>4 DEF Write, Status
    <3>. HIDE DEF x, h
    <3>2. /\ hist' \in Seq(Write) /\ DOMAIN hist' = DOMAIN h \cup {Len(h) + 1}
          /\ hist'[Len(h) + 1] = x /\ \A i \in DOMAIN h : hist'[i] = h[i]
      BY <2>1, <2>3, <3>1 DEF x, h
    <3>. QED  BY <2>1, <3>1, <3>2 DEF Failing, h
  <2>. QED  BY <2>2, <2>3 DEF WriteAppendFail, WriteSyncFail
<1>6. /\ Log(wal, hist) /\ \A i \in DOMAIN wal : wal[i].ok /\ wal[i].seq < nextSeq
  BY <1>1, <1>3 DEF DataInv, LogInv
<1>7. /\ Log(wal, hist') /\ AckedIn(wal, hist') = AckedIn(wal, hist)
      /\ \A B : Base(B, wal, hist) => Base(B, wal, hist')
      /\ \A i \in DOMAIN hist' : hist'[i].st # "pending"
  BY <1>5, <1>6, FailingKeeps
<1>8. LogInv'
  <2>1. \A i \in DOMAIN wal : wal[i].seq < nextSeq'
    <3>1. \A i \in DOMAIN wal : wal[i].seq \in Nat
      BY <1>6, LogTyped
    <3>. QED  BY <1>1, <1>4, <1>6, <3>1
  <2>. QED  BY <1>1, <1>2, <1>3, <1>6, <1>7, <2>1 DEF DataInv, LogInv
<1>9. PendInv'
  <2>1. Pending' = {}
    BY <1>7 DEF Pending
  <2>. QED  BY <1>1, <2>1 DEF PendInv
<1>10. MemInv'
  BY <1>1, <1>2, <1>3, <1>7 DEF DataInv, MemInv
<1>11. MergeInv'
  BY <1>1 DEF DataInv, MergeInv
<1>12. RowInv'
  <2>1. AllRows' = AllRows
    BY <1>1, <1>3 DEF AllRows
  <2>2. \A r \in AllRows : r.seq < nextSeq /\ r.seq \in Nat
    <3>1. AllRows \subseteq Row
      BY <1>3, Typed, FrameRowsTyped DEF AllRows
    <3>. QED  BY <1>1, <3>1 DEF DataInv, RowInv, Row
  <2>3. \A r \in AllRows : r.seq < nextSeq'
    BY <1>1, <1>4, <2>2
  <2>. QED  BY <2>1, <2>3 DEF DataInv, RowInv
<1>13. BaseInv'
  BY <1>1, <1>2, <1>3, <1>7 DEF DataInv, BaseInv
<1>14. OrdInv'
  BY <1>1 DEF DataInv, OrdInv
<1>. QED  BY <1>8, <1>9, <1>10, <1>11, <1>12, <1>13, <1>14 DEF DataInv

LEMMA DataApply ==
    ASSUME SafeFaults, TypeOK, FilesOwned, DataInv, WriteApply PROVE DataInv'
<1>1. /\ lock = "write" /\ lock' = "free" /\ hist' = Settle("acked")
      /\ synced' = IF Durability = "Async" THEN synced ELSE Len(wal)
      /\ active' = active \cup UNION {RowsOf(f) : f \in {g \in Range(wal) : g.wid \in Pending}}
      /\ UNCHANGED <<wal, current, up, nextSeq, gen, flush, merge, immutables, segments, records>>
  BY DEF WriteApply, alloc
<1>2. up /\ flush.pc \notin {"truncate", "reappend"}
  BY <1>1, Quiet DEF DataInv, MemInv
<1>3. DurableWal = wal /\ DurableWal' = wal /\ Unflushed' = Unflushed
  BY <1>1, <1>2 DEF DurableWal, Unflushed
<1>4. /\ hist \in Seq(Write) /\ wal \in Seq(Frame) /\ Unflushed \in Nat /\ flush.len \in Nat
      /\ immutables \in Stack /\ active \in SUBSET Row
  BY Typed
<1>5. /\ DOMAIN wal = 1 .. Len(wal) /\ Len(wal) \in Nat
      /\ \A i \in DOMAIN wal : wal[i].wid \in Nat /\ wal[i].seq \in Nat
      /\ DOMAIN hist = 1 .. Len(hist) /\ Len(hist) \in Nat
  <2>1. Log(wal, hist)
    BY <1>3 DEF DataInv, LogInv
  <2>. QED  BY <2>1, LogTyped
<1>6. /\ hist' \in Seq(Write) /\ DOMAIN hist' = DOMAIN hist
      /\ \A i \in DOMAIN hist :
            /\ hist'[i].ops = hist[i].ops
            /\ hist'[i].st = IF hist[i].st = "pending" THEN "acked" ELSE hist[i].st
  BY <1>1, <1>4, SettleIs DEF Status
<1>7. /\ Log(wal, hist) /\ \A i \in DOMAIN wal : wal[i].ok /\ wal[i].seq < nextSeq
  BY <1>2, <1>3 DEF DataInv, LogInv
<1>8. \A i \in DOMAIN wal : wal[i].wid \in DOMAIN hist /\ hist[wal[i].wid].st # "lost"
  BY <1>7 DEF Log
<1>. DEFINE P == {i \in DOMAIN wal : wal[i].wid \in Pending}
            A == AckedIn(wal, hist)
<1>9. AckedIn(wal, hist') = A \cup P
  BY <1>6, <1>8 DEF AckedIn, Pending
<1>10. \A i \in P : Unflushed < i
  <2>. SUFFICES ASSUME NEW i \in P PROVE Unflushed < i
    OBVIOUS
  <2>1. PICK j \in DOMAIN wal : wal[j].wid = wal[i].wid /\ Unflushed < j
    BY <1>3 DEF DataInv, PendInv
  <2>2. i = j
    <3>1. i \in DOMAIN wal /\ (i < j => wal[i].wid < wal[j].wid) /\ (j < i => wal[j].wid < wal[i].wid)
      BY <1>7 DEF Log
    <3>. QED  BY <1>5, <2>1, <3>1
  <2>. QED  BY <2>1, <2>2
<1>11. Grown(wal, hist, hist')
  <2>1. Acked(hist) \subseteq Acked(hist')
    BY <1>6 DEF Acked
  <2>2. ASSUME NEW a \in Acked(hist') PROVE a \in Acked(hist) \cup Wids(wal, AckedIn(wal, hist'))
    <3>1. CASE a \in Pending
      <4>1. PICK i \in DOMAIN wal : wal[i].wid = a
        BY <1>3, <3>1 DEF DataInv, PendInv
      <4>2. i \in P
        BY <3>1, <4>1
      <4>. QED  BY <1>9, <4>1, <4>2 DEF Wids
    <3>2. CASE a \notin Pending
      BY <1>6, <3>2 DEF Acked, Pending
    <3>. QED  BY <3>1, <3>2
  <2>. QED  BY <1>6, <1>7, <1>8, <2>1, <2>2 DEF Grown
<1>12. /\ Log(wal, hist') /\ \A B : Base(B, wal, hist) => Base(B, wal, hist')
  BY <1>7, <1>11, Growth
<1>13. LogInv'
  <2>1. "powerLoss" \in Faults => synced' = Len(wal)
    BY <1>1 DEF SafeFaults
  <2>2. \A i \in AckedIn(wal, hist') : i <= Len(wal)
    BY <1>5 DEF AckedIn
  <2>. QED  BY <1>1, <1>2, <1>3, <1>7, <1>12, <2>1, <2>2 DEF LogInv
<1>14. PendInv'
  <2>1. Pending' = {}
    BY <1>6 DEF Pending
  <2>. QED  BY <1>1, <2>1 DEF PendInv
<1>15. active' = active \cup FrameRows(wal, P)
  BY <1>1 DEF Range, FrameRows
<1>16. MemInv'
  <2>1. /\ {i \in A \cup P : i <= flush.len} = {i \in A : i <= flush.len} \/ Unflushed # flush.len
    BY <1>4, <1>5, <1>10
  <2>2. flush.pc \in {"build", "publish", "truncate"} => Unflushed = flush.len
    BY DEF Unflushed
  <2>3. {i \in A \cup P : Unflushed < i} = {i \in A : Unflushed < i} \cup P
    BY <1>10
  <2>. HIDE DEF P, A
  <2>4. FrameRows(wal, {i \in A : Unflushed < i} \cup P)
           = FrameRows(wal, {i \in A : Unflushed < i}) \cup FrameRows(wal, P)
    BY DEF FrameRows
  <2>5. flush.pc \in {"build", "publish", "truncate"} =>
            Rows(flush.segs) = FrameRows(wal, {i \in A \cup P : i <= flush.len})
    BY <1>2, <1>3, <2>1, <2>2 DEF DataInv, MemInv, A
  <2>6. TableRows(immutables) \cup active' = FrameRows(wal, {i \in A \cup P : Unflushed < i})
    <3>1. TableRows(immutables) \cup active = FrameRows(wal, {i \in A : Unflushed < i})
      BY <1>2, <1>3 DEF DataInv, MemInv, A
    <3>. QED  BY <1>15, <2>3, <2>4, <3>1
  <2>. QED  BY <1>1, <1>2, <1>3, <1>9, <2>5, <2>6 DEF DataInv, MemInv
<1>17. MergeInv'
  BY <1>1 DEF DataInv, MergeInv
<1>18. RowInv'
  <2>1. AllRows' = AllRows
    BY <1>1, <1>3 DEF AllRows
  <2>. QED  BY <1>1, <2>1 DEF DataInv, RowInv
<1>19. BaseInv'
  BY <1>1, <1>2, <1>3, <1>12 DEF DataInv, BaseInv
<1>20. OrdInv'
  <2>. DEFINE L == Rows(segments) \cup Rows(flush.segs) \cup TableRows(immutables)
  <2>1. Stacked(segments, flush.segs, immutables, active)
    BY <1>2 DEF DataInv, OrdInv
  <2>2. PICK B \in SUBSET Row : Base(B, wal, hist) /\ L \cup active = B \cup FrameRows(wal, A)
    BY <1>2, <1>3, InMemory
  <2>3. ASSUME NEW r \in L, NEW i \in P PROVE r.seq < wal[i].seq
    <3>1. CASE r \in FrameRows(wal, A)
      <4>1. PICK j \in A : r \in RowsOf(wal[j])
        BY <3>1 DEF FrameRows
      <4>2. j \in DOMAIN wal /\ hist[wal[j].wid].st = "acked" /\ r.seq = wal[j].seq
        BY <4>1, RowOfFrame DEF AckedIn
      <4>3. wal[j].wid \notin Pending /\ wal[i].wid \in Pending /\ i \in DOMAIN wal
        BY <4>2 DEF Pending
      <4>4. ~ (wal[i].wid <= wal[j].wid)
        BY <1>8, <4>2, <4>3 DEF DataInv, PendInv
      <4>5. ~ (i < j) /\ i # j
        <5>1. i < j => wal[i].wid < wal[j].wid
          BY <1>7, <4>2, <4>3 DEF Log
        <5>. QED  BY <1>5, <4>2, <4>3, <4>4, <5>1
      <4>6. j < i
        BY <1>5, <4>2, <4>3, <4>5
      <4>. QED  BY <1>7, <4>2, <4>3, <4>6 DEF Log
    <3>2. CASE r \in B /\ r \notin FrameRows(wal, A)
      BY <2>2, <3>2 DEF Base
    <3>. QED  BY <2>2, <3>1, <3>2
  <2>4. \A r \in L : r.seq \in Nat
    <3>1. A \in SUBSET DOMAIN wal
      BY DEF AckedIn
    <3>2. FrameRows(wal, A) \subseteq Row
      BY <1>4, <3>1, FrameRowsTyped
    <3>3. L \subseteq Row
      BY <2>2, <3>2
    <3>. QED  BY <3>3 DEF Row
  <2>5. Above(L, active')
    <3>. SUFFICES ASSUME NEW r \in L, NEW p \in active', p.key = r.key
                  PROVE  \E q \in active' : q.key = r.key /\ r.seq <= q.seq
      BY DEF Above, Holds
    <3>1. CASE p \in active
      <4>1. PICK q \in active : q.key = r.key /\ r.seq <= q.seq
        BY <2>1, <3>1 DEF Stacked, Above, Holds
      <4>. QED  BY <1>15, <4>1
    <3>2. CASE p \in FrameRows(wal, P)
      <4>1. PICK i \in P : p \in RowsOf(wal[i])
        BY <3>2 DEF FrameRows
      <4>2. p.seq = wal[i].seq /\ r.seq < wal[i].seq /\ i \in DOMAIN wal
        BY <2>3, <4>1, RowOfFrame
      <4>3. r.seq <= p.seq
        BY <1>5, <2>4, <4>2
      <4>. QED  BY <4>3
    <3>. QED  BY <1>15, <3>1, <3>2
  <2>. HIDE DEF P, A
  <2>6. Stacked(segments, flush.segs, immutables, active')
    BY <2>1, <2>5 DEF Stacked
  <2>. QED  BY <1>1, <1>2, <2>6 DEF DataInv, OrdInv
<1>. QED  BY <1>13, <1>14, <1>16, <1>17, <1>18, <1>19, <1>20 DEF DataInv

-----------------------------------------------------------------------------
(* Crash and recovery *)

LEMMA NextFrame ==
    ASSUME NEW m \in Nat, NEW i \in 0 .. m, i # m
    PROVE  i \in Nat /\ i + 1 \in 1 .. m /\ 1 .. (i + 1) \subseteq 1 .. m
<1>1. i \in Int /\ 0 <= i /\ i <= m
  OBVIOUS
<1>2. i + 1 <= m
  BY <1>1
<1>. QED  BY <1>1, <1>2

\* What survives is the log up to some frame past n, and perhaps a torn one.
LEMMA RemainsIs ==
    ASSUME NEW w \in Seq(Frame), NEW n \in Int, NEW x \in Remains(w, n)
    PROVE  /\ x \in Seq(Frame)
           /\ \E i \in 0 .. Len(w) :
                 /\ n <= i /\ 1 .. i \subseteq DOMAIN x /\ DOMAIN x \subseteq 1 .. (i + 1)
                 /\ DOMAIN x \subseteq DOMAIN w
                 /\ \A j \in 1 .. i : x[j] = w[j]
                 /\ \A j \in DOMAIN x : /\ x[j].wid = w[j].wid /\ x[j].seq = w[j].seq
                                        /\ x[j].ops = w[j].ops /\ (i < j => ~ x[j].ok)
<1>1. x \in Seq(Frame)
  BY RemainsTyped
<1>2. DOMAIN w = 1 .. Len(w) /\ Len(w) \in Nat
  OBVIOUS
<1>2a. \A i \in 0 .. Len(w) : i # Len(w) => /\ i + 1 \in DOMAIN w /\ i \in Nat
                                             /\ 1 .. (i + 1) \subseteq DOMAIN w
  BY <1>2, NextFrame
<1>3. ASSUME NEW i \in 0 .. Len(w), n <= i, x = SubSeq(w, 1, i)
      PROVE  /\ DOMAIN x = 1 .. i /\ \A j \in 1 .. i : x[j] = w[j]
  BY <1>2, <1>3
<1>4. ASSUME NEW i \in 0 .. Len(w), i # Len(w), n <= i,
             x = Append(SubSeq(w, 1, i), [w[i + 1] EXCEPT !.ok = FALSE])
      PROVE  /\ DOMAIN x = 1 .. (i + 1) /\ \A j \in 1 .. i : x[j] = w[j]
             /\ x[i + 1].wid = w[i + 1].wid /\ x[i + 1].seq = w[i + 1].seq
             /\ x[i + 1].ops = w[i + 1].ops /\ ~ x[i + 1].ok
  <2>1. /\ SubSeq(w, 1, i) \in Seq(Frame) /\ Len(SubSeq(w, 1, i)) = i
        /\ \A j \in 1 .. i : SubSeq(w, 1, i)[j] = w[j]
    BY <1>2
  <2>2. PICK s : s = SubSeq(w, 1, i)
    OBVIOUS
  <2>3. i + 1 \in DOMAIN w
    BY <1>2a, <1>4
  <2>4. PICK f : f = [w[i + 1] EXCEPT !.ok = FALSE]
    OBVIOUS
  <2>5. w[i + 1] \in Frame
    BY <2>3
  <2>6. f \in Frame /\ f.wid = w[i + 1].wid /\ f.seq = w[i + 1].seq /\ f.ops = w[i + 1].ops /\ ~ f.ok
    BY <2>4, <2>5 DEF Frame
  <2>7. x = Append(s, f) /\ s \in Seq(Frame) /\ Len(s) = i /\ \A j \in 1 .. i : s[j] = w[j]
    BY <1>4, <2>1, <2>2, <2>4
  <2>8. DOMAIN x = 1 .. (i + 1) /\ x[i + 1] = f /\ \A j \in 1 .. i : x[j] = s[j]
    BY <2>6, <2>7
  <2>. QED  BY <2>6, <2>7, <2>8
<1>5. CASE \E i \in 0 .. Len(w) : n <= i /\ x = SubSeq(w, 1, i)
  <2>1. PICK i \in 0 .. Len(w) : n <= i /\ x = SubSeq(w, 1, i)
    BY <1>5
  <2>2. DOMAIN x = 1 .. i /\ \A j \in 1 .. i : x[j] = w[j]
    BY <1>3, <2>1
  <2>3. /\ 1 .. i \subseteq DOMAIN x /\ DOMAIN x \subseteq 1 .. (i + 1) /\ DOMAIN x \subseteq DOMAIN w
        /\ \A j \in DOMAIN x : ~ (i < j)
    BY <1>2, <2>2
  <2>4. \A j \in DOMAIN x : /\ x[j].wid = w[j].wid /\ x[j].seq = w[j].seq
                            /\ x[j].ops = w[j].ops /\ (i < j => ~ x[j].ok)
    BY <2>2, <2>3
  <2>. QED  BY <1>1, <2>1, <2>2, <2>3, <2>4
<1>6. CASE \E i \in (0 .. Len(w)) \ {Len(w)} :
              n <= i /\ x = Append(SubSeq(w, 1, i), [w[i + 1] EXCEPT !.ok = FALSE])
  <2>1. PICK i \in (0 .. Len(w)) \ {Len(w)} :
              n <= i /\ x = Append(SubSeq(w, 1, i), [w[i + 1] EXCEPT !.ok = FALSE])
    BY <1>6
  <2>2. /\ DOMAIN x = 1 .. (i + 1) /\ \A j \in 1 .. i : x[j] = w[j]
        /\ x[i + 1].wid = w[i + 1].wid /\ x[i + 1].seq = w[i + 1].seq
        /\ x[i + 1].ops = w[i + 1].ops /\ ~ x[i + 1].ok
    BY <1>4, <2>1
  <2>3. /\ 1 .. i \subseteq DOMAIN x /\ DOMAIN x \subseteq 1 .. (i + 1) /\ DOMAIN x \subseteq DOMAIN w
        /\ \A j \in DOMAIN x : j \in 1 .. i \/ j = i + 1
        /\ \A j \in 1 .. i : ~ (i < j)
    <3>1. i \in Nat /\ 1 .. (i + 1) \subseteq DOMAIN w
      BY <1>2a, <2>1
    <3>2. DOMAIN x = 1 .. (i + 1)
      BY <2>2
    <3>. QED  BY <3>1, <3>2
  <2>4. \A j \in DOMAIN x : /\ x[j].wid = w[j].wid /\ x[j].seq = w[j].seq
                            /\ x[j].ops = w[j].ops /\ (i < j => ~ x[j].ok)
    BY <2>2, <2>3
  <2>. QED  BY <1>1, <2>1, <2>2, <2>3, <2>4
<1>. QED  BY <1>5, <1>6 DEF Remains

\* A crash takes no acked frame with it.
LEMMA CrashCuts ==
    ASSUME SafeFaults, TypeOK, FilesOwned, DataInv, Crash
    PROVE  CutTo(DurableWal, wal', hist)
<1>. DEFINE w == DurableWal
<1>1. Log(w, hist)
  BY DEF DataInv, LogInv
<1>2. /\ DOMAIN w = 1 .. Len(w) /\ Len(w) \in Nat /\ w \in Seq(Frame)
      /\ DOMAIN hist = 1 .. Len(hist) /\ Len(hist) \in Nat
      /\ \A i \in DOMAIN w : w[i].wid \in DOMAIN hist
  BY <1>1, LogTyped DEF Log
<1>3. PICK n \in Int : wal' \in Remains(w, n) /\ \A i \in AckedIn(w, hist) : i <= n
  <2>1. CASE flush.pc = "reappend"
    <3>1. w = <<>> /\ wal' \in Remains(w, 0)
      BY <2>1 DEF Crash, SafeFaults, DurableWal
    <3>2. AckedIn(w, hist) = {}
      BY <3>1 DEF AckedIn
    <3>. QED  BY <3>1, <3>2
  <2>2. CASE flush.pc # "reappend"
    <3>1. w = wal /\ wal' \in Remains(w, Surviving)
      BY <2>2 DEF Crash, DurableWal
    <3>2. Surviving \in Int
      BY <1>2, <3>1, Typed DEF Surviving
    <3>3. ASSUME NEW i \in AckedIn(w, hist) PROVE i <= Surviving
      <4>1. i \in DOMAIN w /\ hist[w[i].wid].st = "acked"
        BY DEF AckedIn
      <4>2. CASE "powerLoss" \in Faults
        BY <2>2, <4>2 DEF DataInv, LogInv, Surviving
      <4>3. CASE "powerLoss" \notin Faults /\ lock = "write"
        <5>1. PICK p \in Pending : TRUE
          BY <4>3 DEF DataInv, PendInv
        <5>2. Len(hist) \in Pending
          <6>1. p \in DOMAIN hist
            BY DEF Pending
          <6>2. p <= Len(hist) /\ Len(hist) \in DOMAIN hist
            BY <1>2, <6>1
          <6>. QED  BY <5>1, <6>2 DEF DataInv, PendInv
        <5>3. PICK j \in DOMAIN w : w[j].wid = Len(hist)
          BY <5>2 DEF DataInv, PendInv
        <5>4. i # j
          BY <4>1, <5>2, <5>3 DEF Pending
        <5>5. j < i => w[j].wid < w[i].wid
          BY <1>1, <4>1 DEF Log
        <5>6. w[i].wid \in DOMAIN hist
          BY <1>2, <4>1
        <5>7. i < j
          BY <1>2, <4>1, <5>3, <5>4, <5>5, <5>6
        <5>8. Surviving = Len(w) - 1
          BY <3>1, <4>3 DEF Surviving
        <5>. QED  BY <1>2, <4>1, <5>7, <5>8
      <4>4. CASE "powerLoss" \notin Faults /\ lock # "write"
        <5>1. Surviving = Len(w)
          BY <3>1, <4>4 DEF Surviving
        <5>. QED  BY <1>2, <4>1, <5>1
      <4>. QED  BY <4>2, <4>3, <4>4
    <3>. QED  BY <3>1, <3>2, <3>3
  <2>. QED  BY <2>1, <2>2
<1>. HIDE DEF w
<1>4. PICK x : x = wal'
  OBVIOUS
<1>5. x \in Remains(w, n)
  BY <1>3, <1>4
<1>6. x \in Seq(Frame)
  BY <1>2, <1>5, RemainsIs
<1>7. PICK i \in 0 .. Len(w) :
                 /\ n <= i /\ 1 .. i \subseteq DOMAIN x /\ DOMAIN x \subseteq 1 .. (i + 1)
                 /\ DOMAIN x \subseteq DOMAIN w
                 /\ \A j \in 1 .. i : x[j] = w[j]
                 /\ \A j \in DOMAIN x : /\ x[j].wid = w[j].wid /\ x[j].seq = w[j].seq
                                        /\ x[j].ops = w[j].ops /\ (i < j => ~ x[j].ok)
  BY <1>2, <1>5, RemainsIs
<1>8. ASSUME NEW a \in DOMAIN x, NEW b \in DOMAIN x, a < b PROVE x[a].ok
  <2>1. a \in 1 .. i /\ a \in DOMAIN w /\ b \in DOMAIN w
    BY <1>7, <1>8
  <2>2. w[a].ok
    BY <1>1, <1>8, <2>1 DEF Log
  <2>. QED  BY <1>7, <2>1, <2>2
<1>9. ASSUME NEW a \in AckedIn(w, hist) PROVE a \in DOMAIN x /\ x[a].ok
  <2>1. a \in DOMAIN w /\ a <= n
    BY <1>3 DEF AckedIn
  <2>2. a \in 1 .. i
    BY <1>2, <1>3, <1>7, <2>1
  <2>3. w[a].ok
    BY <1>1 DEF Log
  <2>. QED  BY <1>7, <2>2, <2>3
<1>10. CutTo(w, x, hist)
  BY <1>6, <1>7, <1>8, <1>9 DEF CutTo
<1>. QED  BY <1>4, <1>10 DEF w

\* To the clients a crash fails what was in flight, and undoes no ack.
LEMMA CrashFails ==
    ASSUME SafeFaults, TypeOK, FilesOwned, DataInv, Crash
    PROVE  Failing(hist, hist')
<1>1. /\ hist \in Seq(Write) /\ hist' = HistAfterCrash(wal')
  BY Typed DEF Crash
<1>2. PICK x : x = wal'
  OBVIOUS
<1>3. CutTo(DurableWal, x, hist)
  BY <1>2, CrashCuts
<1>4. \A i \in DOMAIN hist : hist[i] \in Write /\ hist[i].st \in Status
  BY <1>1, StatusTyped
<1>5. ASSUME NEW i \in DOMAIN hist, hist[i].st = "acked", NEW f \in Range(wal), f.wid = i
      PROVE  \E g \in Range(x) : g.wid = i /\ g.ok
  <2>1. PICK j \in DOMAIN wal : f = wal[j]
    BY DEF Range
  <2>2. DurableWal = wal
    BY <2>1 DEF DurableWal, DataInv, LogInv
  <2>3. j \in AckedIn(wal, hist)
    BY <1>5, <2>1 DEF AckedIn
  <2>4. j \in DOMAIN x /\ x[j].ok /\ x[j].wid = wal[j].wid
    BY <1>3, <2>2, <2>3 DEF CutTo
  <2>. QED  BY <1>5, <2>1, <2>4 DEF Range
<1>6. DOMAIN hist' = DOMAIN hist
  BY <1>1 DEF HistAfterCrash
<1>7. ASSUME NEW i \in DOMAIN hist
      PROVE  hist'[i] = IF hist[i].st = "pending" THEN [hist[i] EXCEPT !.st = "failed"] ELSE hist[i]
  <2>1. hist' = HistAfterCrash(x)
    BY <1>1, <1>2
  <2>. QED  BY <1>5, <2>1 DEF HistAfterCrash
<1>8. ASSUME NEW i \in DOMAIN hist
      PROVE  /\ hist'[i] \in Write /\ hist'[i].ops = hist[i].ops
             /\ hist'[i].st = IF hist[i].st = "pending" THEN "failed" ELSE hist[i].st
  <2>1. /\ hist[i] \in Write /\ [hist[i] EXCEPT !.st = "failed"] \in Write
    BY <1>1, RestampTyped DEF Status
  <2>2. /\ [hist[i] EXCEPT !.st = "failed"].ops = hist[i].ops
        /\ [hist[i] EXCEPT !.st = "failed"].st = "failed"
    BY <2>1 DEF Write
  <2>. QED  BY <1>7, <2>1, <2>2
<1>9. hist' \in Seq(Write)
  <2>1. hist' \in [DOMAIN hist -> Write]
    BY <1>1, <1>6, <1>8 DEF HistAfterCrash
  <2>. QED  BY <1>1, <2>1, HistTyped
<1>. QED  BY <1>6, <1>8, <1>9 DEF Failing

LEMMA DataCrash ==
    ASSUME SafeFaults, TypeOK, FilesOwned, DataInv, Crash PROVE DataInv'
<1>1. /\ up' = FALSE /\ lock' = "free" /\ flush'.pc = "idle" /\ synced' = Len(wal')
      /\ immutables' = <<>> /\ segments' = <<>> /\ current' = current
      /\ \A m \in Mergers : merge'[m].pc = "idle"
  BY DEF Crash, NoFlush, NoMerge
<1>2. DurableWal' = wal'
  BY <1>1 DEF DurableWal
<1>. DEFINE w == DurableWal
<1>3. Log(w, hist) /\ CutTo(w, wal', hist) /\ Failing(hist, hist')
  BY CrashCuts, CrashFails DEF DataInv, LogInv
<1>4. /\ Log(wal', hist) /\ AckedIn(wal', hist) = AckedIn(w, hist)
      /\ \A I \in SUBSET DOMAIN wal' : FrameRows(wal', I) = FrameRows(w, I)
      /\ \A B : Base(B, w, hist) => Base(B, wal', hist)
  BY <1>3, Cutting
<1>5. /\ Log(wal', hist') /\ \A B : Base(B, wal', hist) => Base(B, wal', hist')
      /\ \A i \in DOMAIN hist' : hist'[i].st # "pending"
  BY <1>3, <1>4, FailingKeeps
<1>6. LogInv'
  <2>1. \A i \in AckedIn(wal', hist') : i <= Len(wal')
    <3>1. DOMAIN wal' = 1 .. Len(wal') /\ Len(wal') \in Nat
      BY <1>5, LogTyped
    <3>. QED  BY <3>1 DEF AckedIn
  <2>. QED  BY <1>1, <1>2, <1>5, <2>1 DEF LogInv
<1>7. PendInv'
  <2>1. Pending' = {}
    BY <1>5 DEF Pending
  <2>. QED  BY <1>1, <2>1 DEF PendInv
<1>8. MemInv' /\ MergeInv'
  BY <1>1 DEF MemInv, MergeInv
<1>9. RowInv'
  <2>1. FrameRows(wal', DOMAIN wal') \subseteq FrameRows(w, DOMAIN w)
    <3>1. FrameRows(wal', DOMAIN wal') = FrameRows(w, DOMAIN wal')
      BY <1>4
    <3>2. DOMAIN wal' \subseteq DOMAIN w
      BY <1>3 DEF CutTo
    <3>. QED  BY <3>1, <3>2 DEF FrameRows
  <2>2. Rows(<<>>) = {}
    BY DEF Rows
  <2>3. AllRows' \subseteq AllRows
    BY <1>1, <1>2, <2>1, <2>2 DEF AllRows
  <2>. QED  BY <1>1, <2>3 DEF DataInv, RowInv, Unique
<1>10. BaseInv'
  <2>1. Base(Rows(current.segs), wal', hist')
    BY <1>4, <1>5 DEF DataInv, BaseInv
  <2>. QED  BY <1>1, <1>2, <2>1 DEF BaseInv
<1>11. OrdInv'
  BY <1>1 DEF DataInv, OrdInv
<1>. QED  BY <1>6, <1>7, <1>8, <1>9, <1>10, <1>11 DEF DataInv

\* Recovery reads the whole frames, and settles each write by whether it has one.
OpensTo(x) ==
    /\ x \in Seq(Frame) /\ DOMAIN x = {i \in DOMAIN wal : wal[i].ok}
    /\ \A i \in DOMAIN x : x[i] = wal[i]

LEMMA OpenCuts ==
    ASSUME TypeOK, DataInv, Open, DurableWal = wal
    PROVE  OpensTo(wal') /\ CutTo(wal, wal', hist)
<1>1. Log(wal, hist) /\ wal \in Seq(Frame) /\ DOMAIN wal = 1 .. Len(wal) /\ Len(wal) \in Nat
  BY LogTyped DEF DataInv, LogInv
<1>2. PICK n \in 0 .. Len(wal) : /\ \A i \in DOMAIN wal : wal[i].ok <=> i <= n
                                 /\ wal' = SubSeq(wal, 1, n)
  BY DEF Open
<1>3. PICK x : x = wal'
  OBVIOUS
<1>4. x = SubSeq(wal, 1, n)
  BY <1>2, <1>3
<1>5. x \in Seq(Frame) /\ DOMAIN x = 1 .. n /\ \A i \in 1 .. n : x[i] = wal[i]
  BY <1>1, <1>4
<1>6. \A i \in DOMAIN wal : i \in 1 .. n <=> i <= n
  BY <1>1
<1>7. 1 .. n \subseteq DOMAIN wal
  BY <1>1
<1>8. OpensTo(x)
  <2>1. DOMAIN x = {i \in DOMAIN wal : wal[i].ok}
    BY <1>2, <1>5, <1>6, <1>7
  <2>. QED  BY <1>5, <2>1 DEF OpensTo
<1>9. CutTo(wal, x, hist)
  BY <1>1, <1>8 DEF CutTo, OpensTo, Log, AckedIn
<1>. QED  BY <1>3, <1>8, <1>9

LEMMA OpenSettles ==
    ASSUME TypeOK, DataInv, Open, Pending = {}, Log(wal', hist), \A i \in DOMAIN wal' : wal'[i].ok
    PROVE  /\ Grown(wal', hist, hist') /\ DOMAIN hist' = DOMAIN hist
           /\ \A i \in DOMAIN wal' : hist'[wal'[i].wid].st = "acked"
           /\ \A i \in DOMAIN hist' : hist'[i].st # "pending"
<1>1. hist \in Seq(Write)
  BY Typed
<1>2. PICK x : x = wal'
  OBVIOUS
<1>3. hist' = [i \in DOMAIN hist |->
                   IF hist[i].st # "failed" THEN hist[i]
                   ELSE [hist[i] EXCEPT !.st =
                            IF \E f \in Range(x) : f.wid = i THEN "acked" ELSE "lost"]]
  BY <1>2 DEF Open
<1>4. DOMAIN hist' = DOMAIN hist
  BY <1>3
<1>5. ASSUME NEW i \in DOMAIN hist
      PROVE  /\ hist'[i] \in Write /\ hist'[i].ops = hist[i].ops
             /\ hist'[i].st = IF hist[i].st # "failed" THEN hist[i].st
                              ELSE IF \E f \in Range(x) : f.wid = i THEN "acked" ELSE "lost"
  <2>. DEFINE st == IF \E f \in Range(x) : f.wid = i THEN "acked" ELSE "lost"
  <2>1. st \in Status
    BY DEF Status
  <2>2. hist'[i] = IF hist[i].st # "failed" THEN hist[i] ELSE [hist[i] EXCEPT !.st = st]
    BY <1>3
  <2>. HIDE DEF st
  <2>3. hist[i] \in Write /\ [hist[i] EXCEPT !.st = st] \in Write
    BY <1>1, <2>1, RestampTyped
  <2>4. [hist[i] EXCEPT !.st = st].ops = hist[i].ops /\ [hist[i] EXCEPT !.st = st].st = st
    BY <2>3 DEF Write
  <2>5. /\ hist'[i] \in Write /\ hist'[i].ops = hist[i].ops
        /\ hist'[i].st = IF hist[i].st # "failed" THEN hist[i].st ELSE st
    BY <2>2, <2>3, <2>4
  <2>. QED  BY <2>5 DEF st
<1>6. hist' \in Seq(Write)
  <2>1. hist' \in [DOMAIN hist -> Write]
    BY <1>3, <1>5
  <2>. QED  BY <1>1, <2>1, HistTyped
<1>7. \A i \in DOMAIN hist : hist[i].st \in Status /\ hist[i].st # "pending"
  BY <1>1, StatusTyped DEF Pending
<1>8. Log(x, hist)
  BY <1>2
<1>9. ASSUME NEW i \in DOMAIN x
      PROVE  x[i].wid \in DOMAIN hist /\ hist'[x[i].wid].st = "acked" /\ i \in AckedIn(x, hist')
  <2>1. x[i].wid \in DOMAIN hist /\ hist[x[i].wid].st # "lost"
    BY <1>8 DEF Log
  <2>2. x[i] \in Range(x)
    BY DEF Range
  <2>3. hist'[x[i].wid].st = "acked"
    BY <1>5, <1>7, <2>1, <2>2 DEF Status
  <2>. QED  BY <2>1, <2>3 DEF AckedIn
<1>10. Acked(hist) \subseteq Acked(hist')
  BY <1>4, <1>5 DEF Acked
<1>11. ASSUME NEW a \in Acked(hist'), a \notin Acked(hist) PROVE a \in Wids(x, AckedIn(x, hist'))
  <2>1. PICK f \in Range(x) : f.wid = a
    BY <1>4, <1>5, <1>11 DEF Acked
  <2>2. PICK i \in DOMAIN x : f = x[i]
    BY DEF Range
  <2>. QED  BY <1>9, <2>1, <2>2 DEF Wids
<1>12. \A i \in DOMAIN hist' : hist'[i].st # "pending"
  BY <1>4, <1>5, <1>7
<1>13. \A i \in DOMAIN x : x[i].ok
  BY <1>2
<1>14. Grown(x, hist, hist')
  BY <1>4, <1>5, <1>6, <1>9, <1>10, <1>11, <1>13 DEF Grown
<1>. QED  BY <1>2, <1>4, <1>9, <1>12, <1>14

LEMMA DataOpen ==
    ASSUME TypeOK, FilesOwned, DataInv, Open PROVE DataInv'
<1>1. /\ ~up /\ up' = TRUE /\ active' = Replay(wal)
      /\ records' = current.segs /\ segments' = current.segs
      /\ UNCHANGED <<current, immutables, lock, flush, merge>>
  BY DEF Open, threads
<1>2. /\ flush.pc = "idle" /\ flush.segs = <<>> /\ lock = "free" /\ immutables = <<>>
      /\ \A m \in Mergers : merge[m].pc = "idle"
  BY <1>1 DEF FilesOwned, ThreadsOwned, NoFlush, NoMerge, DataInv, MemInv
<1>3. DurableWal = wal /\ DurableWal' = wal' /\ Unflushed' = 0
  BY <1>1, <1>2 DEF DurableWal, Unflushed
<1>4. Pending = {}
  BY <1>2 DEF DataInv, PendInv
<1>5. /\ current.segs \in Seq(Segment) /\ Rows(current.segs) \subseteq Row
  BY Typed
<1>6. PICK x : x = wal'
  OBVIOUS
<1>7. Log(wal, hist) /\ OpensTo(x) /\ CutTo(wal, x, hist)
  BY <1>3, <1>6, OpenCuts DEF DataInv, LogInv
<1>8. /\ Log(x, hist) /\ \A I \in SUBSET DOMAIN x : FrameRows(x, I) = FrameRows(wal, I)
      /\ \A B : Base(B, wal, hist) => Base(B, x, hist)
  BY <1>7, Cutting
<1>9. \A i \in DOMAIN x : x[i].ok
  BY <1>7 DEF OpensTo
<1>10. /\ Grown(x, hist, hist')
       /\ \A i \in DOMAIN x : hist'[x[i].wid].st = "acked"
       /\ \A i \in DOMAIN hist' : hist'[i].st # "pending"
  BY <1>4, <1>6, <1>8, <1>9, OpenSettles
<1>11. Log(x, hist') /\ \A B : Base(B, x, hist) => Base(B, x, hist')
  BY <1>8, <1>10, Growth
<1>12. AckedIn(x, hist') = DOMAIN x
  BY <1>10 DEF AckedIn
<1>13. x \in Seq(Frame) /\ DOMAIN x = 1 .. Len(x) /\ Len(x) \in Nat
  BY <1>11, LogTyped
<1>14. Replay(wal) = FrameRows(x, DOMAIN x)
  <2>1. Replay(wal) = FrameRows(wal, DOMAIN x)
    BY <1>7 DEF Replay, OpensTo, FrameRows
  <2>. QED  BY <1>8, <2>1
<1>15. /\ \A i \in DOMAIN x : x[i].seq < nextSeq'
       /\ \A r \in Rows(current.segs) : r.seq < nextSeq'
  <2>. DEFINE S == {f.seq : f \in Range(x)} \cup
                   UNION {{r.seq : r \in s.rows} : s \in Range(current.segs)}
  <2>1. IsNext(nextSeq', S)
    BY <1>6 DEF Open
  <2>2. \A i \in DOMAIN x : x[i].seq \in S
    BY DEF Range
  <2>3. \A r \in Rows(current.segs) : r.seq \in S
    BY DEF Range, Rows
  <2>. QED  BY <2>1, <2>2, <2>3 DEF IsNext
<1>16. LogInv'
  <2>1. "powerLoss" \in Faults => \A i \in AckedIn(x, hist') : i <= synced'
    <3>1. PICK n \in 0 .. Len(wal) : /\ \A i \in DOMAIN wal : wal[i].ok <=> i <= n
                                     /\ synced' = n
      BY DEF Open
    <3>. QED  BY <1>7, <1>12, <3>1 DEF OpensTo
  <2>. QED  BY <1>1, <1>2, <1>3, <1>6, <1>9, <1>11, <1>15, <2>1 DEF LogInv
<1>17. PendInv'
  <2>1. Pending' = {}
    BY <1>10 DEF Pending
  <2>. QED  BY <1>1, <1>2, <2>1 DEF PendInv
<1>18. MemInv'
  <2>1. TableRows(<<>>) = {}
    BY DEF TableRows
  <2>2. {i \in AckedIn(x, hist') : 0 < i} = DOMAIN x
    BY <1>12, <1>13
  <2>3. TableRows(immutables') \cup active' = FrameRows(x, {i \in AckedIn(x, hist') : 0 < i})
    BY <1>1, <1>2, <1>14, <2>1, <2>2
  <2>4. 0 <= Len(x)
    BY <1>13
  <2>. QED  BY <1>1, <1>2, <1>3, <1>6, <2>3, <2>4 DEF MemInv
<1>19. MergeInv'
  BY <1>1, <1>2 DEF MergeInv
<1>20. AllRows' = Rows(current.segs) \cup FrameRows(x, DOMAIN x)
  BY <1>1, <1>3, <1>6 DEF AllRows
<1>21. RowInv'
  <2>1. FrameRows(x, DOMAIN x) \subseteq FrameRows(wal, DOMAIN wal)
    <3>1. FrameRows(x, DOMAIN x) = FrameRows(wal, DOMAIN x)
      BY <1>8
    <3>2. DOMAIN x \subseteq DOMAIN wal
      BY <1>7 DEF CutTo
    <3>. QED  BY <3>1, <3>2 DEF FrameRows
  <2>2. AllRows' \subseteq AllRows
    BY <1>3, <1>20, <2>1 DEF AllRows
  <2>3. \A r \in FrameRows(x, DOMAIN x) : r.seq < nextSeq'
    <3>. SUFFICES ASSUME NEW i \in DOMAIN x, NEW r \in RowsOf(x[i]) PROVE r.seq < nextSeq'
      BY DEF FrameRows
    <3>1. r.seq = x[i].seq
      BY RowOfFrame
    <3>. QED  BY <1>15, <3>1
  <2>4. \A r \in AllRows' : r.seq < nextSeq'
    BY <1>15, <1>20, <2>3
  <2>5. Unique(AllRows')
    BY <2>2 DEF DataInv, RowInv, Unique
  <2>. QED  BY <2>4, <2>5 DEF RowInv
<1>22. Base(Rows(current.segs), x, hist')
  BY <1>3, <1>8, <1>11 DEF DataInv, BaseInv
<1>23. BaseInv'
  BY <1>1, <1>3, <1>6, <1>22 DEF BaseInv
<1>24. OrdInv'
  <2>1. Above(Rows(current.segs), FrameRows(x, DOMAIN x))
    BY <1>5, <1>12, <1>13, <1>22, BaseAbove
  <2>2. /\ Rows(<<>>) = {} /\ DOMAIN <<>> = {} /\ TableRows(<<>>) = {}
        /\ OrderedLayers(Tables(<<>>)) /\ OrderedLayers(<<>>)
    BY DEF Rows, Tables, OrderedLayers, TableRows
  <2>3. OrderedLayers(Tables(current.segs))
    BY DEF DataInv, OrdInv
  <2>4. Stacked(current.segs, <<>>, <<>>, FrameRows(x, DOMAIN x))
    BY <2>1, <2>2, <2>3 DEF Stacked
  <2>. QED  BY <1>1, <1>2, <1>14, <2>3, <2>4 DEF OrdInv
<1>. QED  BY <1>16, <1>17, <1>18, <1>19, <1>21, <1>23, <1>24 DEF DataInv

LEMMA DataNext ==
    ASSUME SafeFaults, TypeOK, FilesOwned, DataInv, [Next]_vars PROVE DataInv'
<1>1. ASSUME NEW b \in Batches, WriteAppend(b) PROVE DataInv'
  BY <1>1, DataAppend
<1>2. CASE WriteSyncFail \/ \E b \in Batches : WriteAppendFail(b)
  BY <1>2, DataFail
<1>3. CASE WriteApply
  BY <1>3, DataApply
<1>4. CASE Rotate
  BY <1>4, DataRotate
<1>5. CASE FlushPhaseA
  BY <1>5, DataPhaseA
<1>6. CASE FlushPhaseB
  BY <1>6, DataPhaseB
<1>7. CASE FlushPublish
  BY <1>7, DataFlushPublish
<1>8. CASE FlushTruncate
  BY <1>8, DataTruncate
<1>9. CASE FlushReappend
  BY <1>9, DataReappend
<1>10. ~ (FlushPhaseBFail \/ FlushPublishFail \/ FlushRewriteFail)
  BY DEF SafeFaults, FlushPhaseBFail, FlushPublishFail, FlushRewriteFail
<1>11. ASSUME NEW m \in Mergers, Merger(m) PROVE DataInv'
  <2>1. CASE MergeCapture(m) \/ MergeStale(m)
    BY <2>1, DataCapture
  <2>2. CASE MergeRename(m)
    BY <2>2, DataRename
  <2>3. CASE MergePublish(m) \/ (MergeFail(m) /\ merge[m].pc = "renamed")
    BY <2>3, DataMergePublish
  <2>4. CASE MergeSwap(m)
    BY <2>4, DataSwap
  <2>5. CASE MergeFail(m) /\ merge[m].pc = "merging"
    BY <2>5, DataMergeFail
  <2>6. MergeFail(m) => merge[m].pc \in {"merging", "renamed"}
    BY DEF MergeFail
  <2>. QED  BY <1>11, <2>1, <2>2, <2>3, <2>4, <2>5, <2>6 DEF Merger
<1>12. CASE Crash
  BY <1>12, DataCrash
<1>13. CASE Open
  BY <1>13, DataOpen
<1>14. CASE UNCHANGED vars
  <2>1. UNCHANGED <<wal, synced, hist, up, nextSeq, mem, current, flush, lock, gen, merge, segments>>
    BY <1>14 DEF vars, disk, mem, alloc, threads
  <2>2. MergeInv'
    BY <2>1 DEF DataInv, MergeInv
  <2>3. ~up => lock' = "free"
    BY <2>1 DEF DataInv, MemInv
  <2>. QED  BY <2>1, <2>2, <2>3, KeepMem
<1>. QED  BY <1>1, <1>2, <1>3, <1>4, <1>5, <1>6, <1>7, <1>8, <1>9, <1>10, <1>11, <1>12, <1>13,
             <1>14 DEF Next, Writers, Flusher

\* DataInv is inductive: the log follows the history and both the published and the
\* attached segments may lie below it, at every step of writers, the flush, any
\* number of compactions, crashes and recoveries, for any bounds (db.rs:12-22).
THEOREM DataAlwaysSound == ASSUME SafeFaults PROVE Spec => []DataInv
<1>1. Init => DataInv
  BY DataInit
<1>2. TypeOK /\ FilesOwned /\ DataInv /\ [Next]_vars => DataInv'
  BY DataNext
<1>. QED  BY <1>1, <1>2, TypeCorrect, FilesAlwaysOwned, PTL DEF Spec

\* "Acked == durable" (db.rs:12-13): whenever the process is down, Db::open accepts the
\* disk and finds every acknowledged batch on it, each unanswered one whole or not at
\* all, and nothing else; under every interleaving, with failed appends and fsyncs,
\* failed merges and, where a write is fsynced before its ack, power loss.
THEOREM AckedAlwaysDurable == ASSUME SafeFaults PROVE Spec => []AckedDurable
<1>1. TypeOK /\ FilesOwned /\ DataInv => AckedDurable
  BY DataAckedDurable
<1>. QED  BY <1>1, TypeCorrect, FilesAlwaysOwned, DataAlwaysSound, PTL

\* The layers a get walks through (db.rs:1912-1989) are ordered, in memory and on disk,
\* and with the plan of a running flush hold exactly the acknowledged batches.
THEOREM LayersAlwaysSound == ASSUME SafeFaults PROVE Spec => []LayersSound
<1>1. TypeOK /\ FilesOwned /\ DataInv => LayersSound
  BY DataLayersSound
<1>. QED  BY <1>1, TypeCorrect, FilesAlwaysOwned, DataAlwaysSound, PTL

-----------------------------------------------------------------------------
(* The refinement: what the writes leave in the map *)

LEMMA LatestExists ==
    ASSUME NEW h \in Seq(Write), NEW W \in SUBSET DOMAIN h, NEW k
    PROVE  \E v : IsLatest(h, W, k, v)
<1>. DEFINE touch == {i \in W : k \in DOMAIN h[i].ops}
<1>1. CASE touch = {}
  BY <1>1 DEF IsLatest
<1>2. CASE touch # {}
  <2>1. touch \in SUBSET (1 .. Len(h)) /\ Len(h) \in Nat
    OBVIOUS
  <2>. HIDE DEF touch
  <2>2. PICK i \in touch : \A j \in touch : j <= i
    BY <1>2, <2>1, Largest
  <2>. USE DEF touch
  <2>3. IsLatest(h, W, k, IF h[i].ops[k] = "put" THEN i ELSE None)
    BY <2>2 DEF IsLatest
  <2>. QED  BY <2>3
<1>. QED  BY <1>1, <1>2

\* Only the operations of the writes W matter.
LEMMA LatestSame ==
    ASSUME NEW h \in Seq(Write), NEW g \in Seq(Write), NEW W \in SUBSET DOMAIN h,
           W \subseteq DOMAIN g, \A i \in W : g[i].ops = h[i].ops, NEW k
    PROVE  LatestOf(g, W, k) = LatestOf(h, W, k)
<1>1. PICK v : IsLatest(h, W, k, v)
  BY LatestExists
<1>2. IsLatest(g, W, k, v)
  BY <1>1 DEF IsLatest
<1>3. W \in SUBSET DOMAIN g
  OBVIOUS
<1>. QED  BY <1>1, <1>2, <1>3, LatestOfIs

MapOf(h, W) == [k \in Keys |-> LatestOf(h, W, k)]
Queue(h, F) == [i \in 1 .. Len(h) + 1 - F |-> [id |-> F + i - 1, ops |-> h[F + i - 1].ops]]
Applied(m, q, n) ==
    [k \in Keys |->
        LET touch == {i \in 1 .. n : k \in DOMAIN q[i].ops}
        IN  IF touch = {} THEN m[k]
            ELSE LET i == CHOOSE i \in touch : \A j \in touch : j <= i
                 IN  IF q[i].ops[k] = "put" THEN q[i].id ELSE 0]

\* Applying the first n batches in flight adds their writes to the map.
LEMMA AppliedIs ==
    ASSUME NEW h \in Seq(Write), NEW F \in 1 .. (Len(h) + 1), NEW W \in SUBSET DOMAIN h,
           \A a \in W : a < F, NEW n \in 0 .. (Len(h) + 1 - F)
    PROVE  Applied(MapOf(h, W), Queue(h, F), n) = MapOf(h, W \cup F .. (F + n - 1))
<1>. DEFINE W2 == W \cup F .. (F + n - 1)
            q == Queue(h, F)
<1>1. Len(h) \in Nat /\ DOMAIN h = 1 .. Len(h) /\ F \in Nat /\ n \in Nat /\ F + n - 1 <= Len(h) /\ 1 <= F
  OBVIOUS
<1>2. W2 \in SUBSET DOMAIN h /\ W \subseteq W2
  BY <1>1
<1>3. ASSUME NEW i \in 1 .. n
      PROVE  /\ q[i].ops = h[F + i - 1].ops /\ q[i].id = F + i - 1
             /\ F + i - 1 \in F .. (F + n - 1) /\ F + i - 1 \in W2
  <2>1. i \in 1 .. Len(h) + 1 - F
    BY <1>1
  <2>2. q[i] = [id |-> F + i - 1, ops |-> h[F + i - 1].ops]
    BY <2>1 DEF Queue
  <2>3. F + i - 1 \in F .. (F + n - 1)
    BY <1>1
  <2>. QED  BY <2>2, <2>3
<1>4. ASSUME NEW a \in W2, a \notin W PROVE a - F + 1 \in 1 .. n /\ a = F + (a - F + 1) - 1
  BY <1>1, <1>4
<1>5. \A a \in W2 : a \in Nat
  BY <1>1, <1>2
<1>. HIDE DEF W2, q
<1>6. ASSUME NEW k \in Keys PROVE Applied(MapOf(h, W), q, n)[k] = LatestOf(h, W2, k)
  <2>. DEFINE touch == {i \in 1 .. n : k \in DOMAIN q[i].ops}
  <2>1. Applied(MapOf(h, W), q, n)[k] =
           IF touch = {} THEN LatestOf(h, W, k)
           ELSE LET i == CHOOSE i \in touch : \A j \in touch : j <= i
                IN  IF q[i].ops[k] = "put" THEN q[i].id ELSE 0
    BY DEF Applied, MapOf
  <2>2. CASE touch = {}
    <3>1. \A a \in W2 : a \notin W => k \notin DOMAIN h[a].ops
      <4>. SUFFICES ASSUME NEW a \in W2, a \notin W PROVE k \notin DOMAIN h[a].ops
        OBVIOUS
      <4>1. PICK i \in 1 .. n : a = F + i - 1
        BY <1>4
      <4>2. q[i].ops = h[a].ops
        BY <1>3, <4>1
      <4>. QED  BY <2>2, <4>2
    <3>2. PICK v : IsLatest(h, W, k, v)
      BY LatestExists
    <3>3. IsLatest(h, W2, k, v)
      BY <1>2, <3>1, <3>2 DEF IsLatest
    <3>4. LatestOf(h, W, k) = v /\ LatestOf(h, W2, k) = v
      BY <1>2, <3>2, <3>3, LatestOfIs
    <3>. QED  BY <2>1, <2>2, <3>4
  <2>3. CASE touch # {}
    <3>1. touch \in SUBSET (1 .. n)
      OBVIOUS
    <3>. HIDE DEF touch
    <3>2. PICK i \in touch : \A j \in touch : j <= i
      BY <1>1, <2>3, <3>1, Largest
    <3>3. \A x \in touch : x \in Int
      BY <3>1
    <3>4. (CHOOSE x \in touch : \A j \in touch : j <= x) = i
      <4>1. \A x \in touch : (\A j \in touch : j <= x) => x = i
        BY <3>2, <3>3
      <4>. QED  BY <3>2, <4>1
    <3>5. i \in 1 .. n /\ k \in DOMAIN q[i].ops
      BY <3>1, <3>2 DEF touch
    <3>. DEFINE b == F + i - 1
    <3>6. b \in W2 /\ b \in Nat /\ q[i].ops = h[b].ops /\ q[i].id = b
      BY <1>3, <1>5, <3>5
    <3>7. ASSUME NEW a \in W2, k \in DOMAIN h[a].ops PROVE a <= b
      <4>1. CASE a \in W
        <5>1. a < F /\ a \in Nat /\ i \in Nat /\ 1 <= i
          BY <1>5, <3>5, <4>1
        <5>. QED  BY <1>1, <5>1
      <4>2. CASE a \notin W
        <5>1. PICK j \in 1 .. n : a = F + j - 1
          BY <1>4, <4>2
        <5>2. q[j].ops = h[a].ops
          BY <1>3, <5>1
        <5>3. j \in touch
          BY <3>7, <5>2 DEF touch
        <5>4. j <= i /\ j \in Int /\ i \in Int
          BY <3>2, <3>3, <5>3
        <5>. QED  BY <1>1, <5>1, <5>4
      <4>. QED  BY <4>1, <4>2
    <3>. HIDE DEF b
    <3>8. IsLatest(h, W2, k, IF h[b].ops[k] = "put" THEN b ELSE None)
      BY <3>5, <3>6, <3>7 DEF IsLatest
    <3>9. LatestOf(h, W2, k) = IF h[b].ops[k] = "put" THEN b ELSE None
      BY <1>2, <3>8, LatestOfIs
    <3>. QED  BY <2>1, <2>3, <3>4, <3>6, <3>9 DEF None
  <2>. QED  BY <2>2, <2>3
<1>7. Applied(MapOf(h, W), q, n) = MapOf(h, W2)
  <2>1. Applied(MapOf(h, W), q, n) = [k \in Keys |-> Applied(MapOf(h, W), q, n)[k]]
    BY DEF Applied
  <2>. QED  BY <1>6, <2>1 DEF MapOf
<1>. QED  BY <1>7 DEF W2, q

-----------------------------------------------------------------------------
(* The refinement: mapping the states *)

\* The faults under which no write fails and yet leaves its frame in the log.
KvFaults ==
    /\ Faults \subseteq {"appendFail", "mergeFail", "powerLoss"}
    /\ Durability = "Async" => "powerLoss" \notin Faults
    /\ Durability = "GroupCommit" => "appendFail" \notin Faults

\* Every frame of the running database is of a write acked or in flight.
NoneFailed ==
    up => \A i \in DOMAIN DurableWal : hist[DurableWal[i].wid].st \in {"acked", "pending"}

KvMap == [k \in Keys |-> Lookup(Append(Tables(current.segs), SettledRows), k)]
Flight == [i \in 1 .. Len(hist) + 1 - FirstPending |->
              [id |-> FirstPending + i - 1, ops |-> hist[FirstPending + i - 1].ops]]

\* The writes the disk holds, as recovery would read it.
OnDiskNow ==
    IF up THEN Acked(hist) ELSE Acked(hist) \cup Wids(wal, {i \in DOMAIN wal : wal[i].ok})

Sound == TypeOK /\ FilesOwned /\ DataInv /\ NoneFailed

LEMMA KvMapIs == Sound => KvMap = MapOf(hist, OnDiskNow) /\ OnDiskNow \in SUBSET DOMAIN hist
<1>. SUFFICES ASSUME Sound PROVE KvMap = MapOf(hist, OnDiskNow) /\ OnDiskNow \in SUBSET DOMAIN hist
  OBVIOUS
<1>. DEFINE J == {i \in DOMAIN DurableWal : DurableWal[i].ok /\ DurableWal[i].wid \notin Pending}
            W == Acked(hist) \cup Wids(DurableWal, J)
<1>1. /\ TypeOK /\ LogInv /\ RowInv /\ BaseInv /\ OrdInv /\ Log(DurableWal, hist)
  BY DEF Sound, DataInv, LogInv
<1>2. AckedIn(DurableWal, hist) \subseteq J
  BY <1>1 DEF Log, AckedIn, Pending
<1>3. SettledRows = FrameRows(DurableWal, J)
  BY DEF SettledRows, FrameRows, Range
<1>4. J \in SUBSET DOMAIN DurableWal
  OBVIOUS
<1>5. W = OnDiskNow
  <2>1. CASE up
    <3>1. ASSUME NEW i \in J PROVE DurableWal[i].wid \in Acked(hist)
      <4>1. DurableWal[i].wid \in DOMAIN hist
        BY <1>1 DEF Log
      <4>2. hist[DurableWal[i].wid].st \in {"acked", "pending"}
        BY <2>1 DEF Sound, NoneFailed
      <4>. QED  BY <4>1, <4>2 DEF Acked, Pending
    <3>2. Wids(DurableWal, J) \subseteq Acked(hist)
      BY <3>1 DEF Wids
    <3>. QED  BY <2>1, <3>2 DEF OnDiskNow
  <2>2. CASE ~up
    <3>1. DurableWal = wal /\ lock = "free"
      BY <2>2 DEF Sound, FilesOwned, ThreadsOwned, NoFlush, DurableWal, DataInv, MemInv
    <3>2. Pending = {}
      BY <3>1 DEF Sound, DataInv, PendInv
    <3>3. J = {i \in DOMAIN wal : wal[i].ok}
      BY <3>1, <3>2
    <3>. QED  BY <2>2, <3>1, <3>3 DEF OnDiskNow
  <2>. QED  BY <2>1, <2>2
<1>. HIDE DEF J
<1>6. /\ W \in SUBSET DOMAIN hist
      /\ \A k \in Keys : Lookup(Append(Tables(current.segs), SettledRows), k) = Latest(W, k)
  BY <1>1, <1>2, <1>3, <1>4, OnDisk
<1>. HIDE DEF W
<1>7. \A k \in Keys : Latest(W, k) = LatestOf(hist, W, k)
  BY DEF Latest, LatestOf
<1>8. KvMap = MapOf(hist, W)
  BY <1>6, <1>7 DEF KvMap, MapOf
<1>. QED  BY <1>5, <1>6, <1>8

\* From F on the writes of h are in flight.
Splits(h, F) == F \in 1 .. (Len(h) + 1) /\ \A j \in 1 .. Len(h) : h[j].st = "pending" <=> j >= F

LEMMA FirstIs ==
    ASSUME hist \in Seq(Write), NEW F, Splits(hist, F)
    PROVE  FirstPending = F
<1>. DEFINE P(i) == \A j \in 1 .. Len(hist) : j \in Pending <=> j >= i
<1>1. Len(hist) \in Nat /\ DOMAIN hist = 1 .. Len(hist)
  OBVIOUS
<1>2. F \in 1 .. (Len(hist) + 1) /\ P(F)
  BY <1>1 DEF Splits, Pending
<1>3. ASSUME NEW i \in 1 .. (Len(hist) + 1), P(i) PROVE i = F
  <2>1. ~ (i < F)
    <3>. SUFFICES ASSUME i < F PROVE FALSE
      OBVIOUS
    <3>1. i \in 1 .. Len(hist)
      BY <1>1, <1>2
    <3>2. i \in Pending /\ i \notin Pending
      BY <1>1, <1>2, <1>3, <3>1
    <3>. QED  BY <3>2
  <2>2. ~ (F < i)
    <3>. SUFFICES ASSUME F < i PROVE FALSE
      OBVIOUS
    <3>1. F \in 1 .. Len(hist)
      BY <1>1, <1>2
    <3>2. F \in Pending /\ F \notin Pending
      BY <1>1, <1>2, <1>3, <3>1
    <3>. QED  BY <3>2
  <2>. QED  BY <1>1, <1>2, <2>1, <2>2
<1>4. FirstPending = CHOOSE i \in 1 .. Len(hist) + 1 : P(i)
  BY DEF FirstPending
<1>. HIDE DEF P
<1>. QED  BY <1>2, <1>3, <1>4

LEMMA FirstSplits == Sound => Splits(hist, FirstPending)
<1>. SUFFICES ASSUME Sound PROVE Splits(hist, FirstPending)
  OBVIOUS
<1>1. hist \in Seq(Write) /\ PendInv
  BY Typed DEF Sound, DataInv
<1>2. Len(hist) \in Nat /\ DOMAIN hist = 1 .. Len(hist)
  BY <1>1
<1>3. CASE Pending = {}
  <2>1. Splits(hist, Len(hist) + 1)
    BY <1>2, <1>3 DEF Splits, Pending
  <2>. QED  BY <1>1, <2>1, FirstIs
<1>4. CASE Pending # {}
  <2>1. Pending \in SUBSET Nat
    BY <1>2 DEF Pending
  <2>2. PICK F \in Pending : \A y \in Pending : ~ (y < F)
    BY <1>4, <2>1, Least
  <2>3. F \in 1 .. Len(hist) /\ F \in Nat
    BY <1>2, <2>1 DEF Pending
  <2>4. ASSUME NEW j \in 1 .. Len(hist) PROVE hist[j].st = "pending" <=> j >= F
    <3>1. hist[j].st = "pending" <=> j \in Pending
      BY <1>2 DEF Pending
    <3>2. F <= j => j \in Pending
      BY <1>1, <1>2 DEF PendInv
    <3>3. j \in Pending => ~ (j < F)
      BY <2>2
    <3>. QED  BY <2>3, <3>1, <3>2, <3>3
  <2>5. Splits(hist, F)
    BY <1>2, <2>3, <2>4 DEF Splits
  <2>. QED  BY <1>1, <2>5, FirstIs
<1>. QED  BY <1>3, <1>4

LEMMA FlightIs ==
    Sound => /\ hist \in Seq(Write) /\ Flight = Queue(hist, FirstPending)
             /\ FirstPending \in 1 .. (Len(hist) + 1)
             /\ \A a \in Acked(hist) : a < FirstPending
<1>. SUFFICES ASSUME Sound
              PROVE  /\ hist \in Seq(Write) /\ Flight = Queue(hist, FirstPending)
                     /\ FirstPending \in 1 .. (Len(hist) + 1)
                     /\ \A a \in Acked(hist) : a < FirstPending
  OBVIOUS
<1>1. hist \in Seq(Write) /\ Splits(hist, FirstPending)
  BY Typed, FirstSplits DEF Sound
<1>2. Len(hist) \in Nat /\ DOMAIN hist = 1 .. Len(hist)
  BY <1>1
<1>3. ASSUME NEW a \in Acked(hist) PROVE a < FirstPending
  <2>1. a \in 1 .. Len(hist) /\ hist[a].st = "acked"
    BY <1>2 DEF Acked
  <2>2. ~ (a >= FirstPending) /\ FirstPending \in Int
    BY <1>1, <1>2, <2>1 DEF Splits
  <2>. QED  BY <2>1, <2>2
<1>. QED  BY <1>1, <1>3 DEF Flight, Queue, Splits

LEMMA NoneFailedNext ==
    ASSUME KvFaults, TypeOK, FilesOwned, DataInv, NoneFailed, [Next]_vars
    PROVE  NoneFailed'
<1>. SUFFICES ASSUME up', NEW i \in DOMAIN DurableWal'
              PROVE  hist'[DurableWal'[i].wid].st \in {"acked", "pending"}
  BY DEF NoneFailed
<1>1. /\ hist \in Seq(Write) /\ DOMAIN hist = 1 .. Len(hist) /\ Len(hist) \in Nat
      /\ DurableWal \in Seq(Frame) /\ nextSeq \in Nat /\ wal \in Seq(Frame)
      /\ flush.len \in Nat /\ DOMAIN wal = 1 .. Len(wal) /\ Len(wal) \in Nat
  BY Typed
<1>2. \A j \in DOMAIN DurableWal : DurableWal[j].wid \in DOMAIN hist
  BY DEF DataInv, LogInv, Log
<1>3. up => \A j \in DOMAIN DurableWal : hist[DurableWal[j].wid].st \in {"acked", "pending"}
  BY DEF NoneFailed
<1>4. ASSUME up, hist' = hist, DurableWal' = DurableWal
      PROVE  hist'[DurableWal'[i].wid].st \in {"acked", "pending"}
  BY <1>3, <1>4
<1>5. ASSUME NEW b \in Batches, WriteAppend(b)
      PROVE  hist'[DurableWal'[i].wid].st \in {"acked", "pending"}
  <2>1. /\ up /\ lock \in {"free", "write"} /\ flush' = flush
        /\ hist' = Append(hist, [ops |-> b, seq |-> nextSeq, st |-> "pending"])
        /\ wal' = Append(wal, [seq |-> nextSeq, wid |-> Len(hist) + 1, ops |-> b, ok |-> TRUE])
    BY <1>5 DEF WriteAppend, MayAppend
  <2>2. DurableWal = wal /\ DurableWal' = wal'
    BY <2>1, Quiet DEF DurableWal
  <2>3. PICK x : x = [ops |-> b, seq |-> nextSeq, st |-> "pending"]
    OBVIOUS
  <2>4. PICK f : f = [seq |-> nextSeq, wid |-> Len(hist) + 1, ops |-> b, ok |-> TRUE]
    OBVIOUS
  <2>5. x \in Write /\ f \in Frame /\ x.st = "pending" /\ f.wid = Len(hist) + 1
    BY <1>1, <2>3, <2>4 DEF Write, Status, Frame
  <2>6. /\ hist'[Len(hist) + 1] = x /\ \A j \in DOMAIN hist : hist'[j] = hist[j]
    BY <1>1, <2>1, <2>3, <2>5
  <2>7. /\ DOMAIN wal' = DOMAIN wal \cup {Len(wal) + 1} /\ wal'[Len(wal) + 1] = f
        /\ \A j \in DOMAIN wal : wal'[j] = wal[j]
    BY <1>1, <2>1, <2>4, <2>5
  <2>. QED  BY <1>2, <1>3, <2>1, <2>2, <2>5, <2>6, <2>7
<1>6. ASSUME NEW b \in Batches, WriteAppendFail(b)
      PROVE  hist'[DurableWal'[i].wid].st \in {"acked", "pending"}
  <2>1. /\ up /\ lock = "free" /\ flush' = flush /\ wal' = wal
        /\ hist' = Append(Settle("failed"), [ops |-> b, seq |-> nextSeq, st |-> "failed"])
    BY <1>6 DEF WriteAppendFail, MayAppend, KvFaults
  <2>2. DurableWal' = DurableWal
    BY <2>1 DEF DurableWal
  <2>3. Pending = {}
    BY <2>1 DEF DataInv, PendInv
  <2>4. /\ Settle("failed") \in Seq(Write) /\ DOMAIN Settle("failed") = DOMAIN hist
        /\ \A j \in DOMAIN hist :
              Settle("failed")[j].st = IF hist[j].st = "pending" THEN "failed" ELSE hist[j].st
    BY <1>1, SettleIs DEF Status
  <2>5. \A j \in DOMAIN hist : hist'[j] = Settle("failed")[j]
    <3>1. PICK h : h = Settle("failed")
      OBVIOUS
    <3>2. PICK x : x = [ops |-> b, seq |-> nextSeq, st |-> "failed"]
      OBVIOUS
    <3>3. h \in Seq(Write) /\ x \in Write /\ hist' = Append(h, x) /\ DOMAIN h = DOMAIN hist
      BY <1>1, <2>1, <2>4, <3>1, <3>2 DEF Write, Status
    <3>4. \A j \in DOMAIN h : hist'[j] = h[j]
      BY <3>3
    <3>. QED  BY <3>1, <3>3, <3>4
  <2>6. \A j \in DOMAIN hist : hist'[j].st = hist[j].st
    BY <2>3, <2>4, <2>5 DEF Pending
  <2>. QED  BY <1>2, <1>3, <2>1, <2>2, <2>6
<1>7. CASE WriteApply
  <2>1. lock = "write" /\ hist' = Settle("acked") /\ UNCHANGED <<wal, flush, up>>
    BY <1>7 DEF WriteApply
  <2>2. DurableWal' = DurableWal
    BY <2>1 DEF DurableWal
  <2>3. \A j \in DOMAIN hist : hist'[j].st = IF hist[j].st = "pending" THEN "acked" ELSE hist[j].st
    BY <1>1, <2>1, SettleIs DEF Status
  <2>. QED  BY <1>2, <1>3, <2>1, <2>2, <2>3
<1>8. CASE Rotate \/ FlushPhaseA \/ FlushPhaseB \/ FlushPublish \/ FlushReappend
  <2>1. hist' = hist /\ up' = up
    BY <1>8 DEF Rotate, FlushPhaseA, FlushPhaseB, FlushPublish, FlushReappend, disk
  <2>2. DurableWal' = DurableWal
    <3>1. CASE Rotate
      BY <3>1 DEF Rotate, DurableWal, disk, threads
    <3>2. CASE FlushPhaseA
      BY <3>2 DEF FlushPhaseA, DurableWal, disk
    <3>3. CASE FlushPhaseB \/ FlushPublish
      <4>1. wal' = wal /\ flush.pc # "reappend"
        BY <3>3 DEF FlushPhaseB, FlushPublish
      <4>2. flush'.pc # "reappend"
        BY <3>3 DEF FlushPhaseB, FlushPublish, TypeOK, FlushState
      <4>. QED  BY <4>1, <4>2 DEF DurableWal
    <3>4. CASE FlushReappend
      BY <3>4 DEF FlushReappend, DurableWal, NoFlush
    <3>. QED  BY <1>8, <3>1, <3>2, <3>3, <3>4
  <2>. QED  BY <1>4, <2>1, <2>2
<1>9. CASE FlushTruncate
  <2>1. /\ up' = up /\ hist' = hist /\ flush.pc = "truncate"
        /\ flush' = [flush EXCEPT !.pc = "reappend", !.tail = UncoveredTail]
    BY <1>9 DEF FlushTruncate
  <2>2. PICK t : t = SubSeq(wal, flush.len + 1, Len(wal))
    OBVIOUS
  <2>3. flush \in FlushState
    BY DEF TypeOK
  <2>4. DurableWal = wal /\ DurableWal' = t
    BY <2>1, <2>2, <2>3 DEF DurableWal, UncoveredTail, FlushState
  <2>5. flush.len <= Len(wal)
    BY <2>1, <2>4 DEF DataInv, MemInv, Unflushed
  <2>6. \A j \in DOMAIN t : j + flush.len \in DOMAIN wal /\ t[j] = wal[j + flush.len]
    <3>1. flush.len \in 0 .. Len(wal)
      BY <1>1, <2>5
    <3>2. wal \in Seq(Frame)
      BY <1>1
    <3>3. \A j \in DOMAIN t : j + flush.len \in DOMAIN wal /\ t[j] = wal[j + flush.len]
                               /\ flush.len < j + flush.len
      BY ONLY <2>2, <3>1, <3>2, TailIs
    <3>. QED  BY <3>3
  <2>. QED  BY <1>3, <2>1, <2>4, <2>6
<1>10. ASSUME NEW m \in Mergers, Merger(m)
       PROVE  hist'[DurableWal'[i].wid].st \in {"acked", "pending"}
  <2>1. UNCHANGED <<hist, up, wal, flush>>
    BY <1>10 DEF Merger, MergeCapture, MergeStale, MergeRename, MergePublish, MergeSwap, MergeFail, disk
  <2>2. DurableWal' = DurableWal
    BY <2>1 DEF DurableWal
  <2>. QED  BY <1>4, <2>1, <2>2
<1>11. ~ Crash
  BY DEF Crash
<1>12. CASE Open
  <2>1. flush' = flush /\ ~up
    BY <1>12 DEF Open, threads
  <2>2. flush.pc = "idle" /\ lock = "free"
    BY <2>1 DEF FilesOwned, ThreadsOwned, NoFlush, DataInv, MemInv
  <2>3. DurableWal = wal /\ DurableWal' = wal' /\ Pending = {}
    BY <2>1, <2>2 DEF DurableWal, DataInv, PendInv
  <2>4. OpensTo(wal') /\ Log(wal', hist)
    BY <1>12, <2>3, OpenCuts, Cutting DEF DataInv, LogInv
  <2>5. \A j \in DOMAIN wal' : wal'[j].ok
    BY <2>4 DEF OpensTo
  <2>6. \A j \in DOMAIN wal' : hist'[wal'[j].wid].st = "acked"
    BY <1>12, <2>3, <2>4, <2>5, OpenSettles
  <2>. QED  BY <2>3, <2>6
<1>13. ~ (WriteSyncFail \/ FlushPhaseBFail \/ FlushPublishFail \/ FlushRewriteFail)
  BY DEF KvFaults, WriteSyncFail, FlushPhaseBFail, FlushPublishFail, FlushRewriteFail
<1>14. CASE UNCHANGED vars
  BY <1>4, <1>14 DEF vars, disk, threads, DurableWal
<1>. QED  BY <1>5, <1>6, <1>7, <1>8, <1>9, <1>10, <1>11, <1>12, <1>13, <1>14
          DEF Next, Writers, Flusher

-----------------------------------------------------------------------------
(* The refinement: mapping the steps *)

KvReads ==
    /\ KvMap = MapOf(hist, OnDiskNow) /\ OnDiskNow \in SUBSET DOMAIN hist
    /\ hist \in Seq(Write) /\ Flight = Queue(hist, FirstPending) /\ Splits(hist, FirstPending)

LEMMA KvPrimed == Sound' => KvReads'
<1>1. Sound => KvReads
  BY KvMapIs, FlightIs, FirstSplits DEF KvReads
<1>. QED  BY <1>1, PTL

\* Only one number splits a history.
LEMMA SplitsOnce ==
    ASSUME NEW h \in Seq(Write), NEW F, NEW G, Splits(h, F), Splits(h, G) PROVE F = G
<1>1. Len(h) \in Nat /\ F \in 1 .. (Len(h) + 1) /\ G \in 1 .. (Len(h) + 1)
  BY DEF Splits
<1>2. ~ (F < G)
  <2>. SUFFICES ASSUME F < G PROVE FALSE
    OBVIOUS
  <2>1. F \in 1 .. Len(h) /\ F >= F /\ ~ (F >= G)
    BY <1>1
  <2>. QED  BY <2>1 DEF Splits
<1>3. ~ (G < F)
  <2>. SUFFICES ASSUME G < F PROVE FALSE
    OBVIOUS
  <2>1. G \in 1 .. Len(h) /\ G >= G /\ ~ (G >= F)
    BY <1>1
  <2>. QED  BY <2>1 DEF Splits
<1>. QED  BY <1>1, <1>2, <1>3

LEMMA NoneSplits ==
    ASSUME NEW h \in Seq(Write), \A i \in DOMAIN h : h[i].st # "pending"
    PROVE  Splits(h, Len(h) + 1) /\ Queue(h, Len(h) + 1) = <<>>
<1>1. Len(h) \in Nat /\ DOMAIN h = 1 .. Len(h)
  OBVIOUS
<1>2. Splits(h, Len(h) + 1)
  BY <1>1 DEF Splits
<1>3. 1 .. Len(h) + 1 - (Len(h) + 1) = {}
  BY <1>1
<1>4. DOMAIN Queue(h, Len(h) + 1) = {}
  BY <1>3 DEF Queue
<1>5. Queue(h, Len(h) + 1) = [i \in {} |-> 0]
  BY <1>3, <1>4 DEF Queue
<1>6. <<>> = [i \in {} |-> 0]
  OBVIOUS
<1>. QED  BY <1>2, <1>5, <1>6

KvStutters == KvMap' = KvMap /\ Flight' = Flight /\ Len(hist') = Len(hist)

\* Flushes, merges and rotations move rows about; the map does not move.
LEMMA KvKept ==
    ASSUME Sound, Sound', up, up', hist' = hist PROVE KvStutters
<1>1. OnDiskNow' = OnDiskNow
  BY DEF OnDiskNow
<1>2. KvMap' = KvMap
  BY <1>1, KvMapIs, KvPrimed DEF KvReads
<1>3. Pending' = Pending
  BY DEF Pending
<1>4. FirstPending' = FirstPending
  BY <1>3 DEF FirstPending
<1>5. Flight' = Flight
  BY <1>4 DEF Flight
<1>. QED  BY <1>2, <1>5 DEF KvStutters

\* Recovery takes up the whole frames, which the map already counted.
LEMMA KvOpens ==
    ASSUME Sound, Sound', Open PROVE KvStutters
<1>1. TypeOK /\ FilesOwned /\ DataInv /\ flush' = flush /\ ~up /\ up'
  BY DEF Sound, Open, threads
<1>2. flush.pc = "idle" /\ lock = "free"
  BY <1>1 DEF FilesOwned, ThreadsOwned, NoFlush, DataInv, MemInv
<1>3. DurableWal = wal /\ Pending = {}
  BY <1>1, <1>2 DEF DurableWal, DataInv, PendInv
<1>4. OpensTo(wal') /\ Log(wal', hist)
  BY <1>1, <1>3, OpenCuts, Cutting DEF DataInv, LogInv
<1>5. \A j \in DOMAIN wal' : wal'[j].ok
  BY <1>4 DEF OpensTo
<1>6. /\ Grown(wal', hist, hist') /\ DOMAIN hist' = DOMAIN hist
      /\ \A i \in DOMAIN wal' : hist'[wal'[i].wid].st = "acked"
      /\ \A i \in DOMAIN hist' : hist'[i].st # "pending"
  BY <1>1, <1>3, <1>4, <1>5, OpenSettles
<1>7. /\ hist \in Seq(Write) /\ hist' \in Seq(Write) /\ OnDiskNow \in SUBSET DOMAIN hist
      /\ KvMap = MapOf(hist, OnDiskNow) /\ KvMap' = MapOf(hist', OnDiskNow')
      /\ Flight = Queue(hist, FirstPending) /\ Flight' = Queue(hist', FirstPending')
      /\ Splits(hist, FirstPending) /\ Splits(hist', FirstPending')
  BY KvMapIs, FlightIs, FirstSplits, KvPrimed DEF KvReads
<1>8. OnDiskNow' = OnDiskNow
  <2>1. OnDiskNow' = Acked(hist') /\ OnDiskNow = Acked(hist) \cup Wids(wal, {i \in DOMAIN wal : wal[i].ok})
    BY <1>1 DEF OnDiskNow
  <2>2. Wids(wal, {i \in DOMAIN wal : wal[i].ok}) = Wids(wal', DOMAIN wal')
    BY <1>4 DEF OpensTo, Wids
  <2>3. Wids(wal', DOMAIN wal') \subseteq Acked(hist')
    BY <1>4, <1>6 DEF Wids, Acked, Log
  <2>4. Acked(hist') \subseteq Acked(hist) \cup Wids(wal', DOMAIN wal')
    BY <1>6 DEF Grown, Wids, AckedIn
  <2>5. Acked(hist) \subseteq Acked(hist')
    BY <1>6 DEF Grown
  <2>. QED  BY <2>1, <2>2, <2>3, <2>4, <2>5
<1>9. MapOf(hist', OnDiskNow) = MapOf(hist, OnDiskNow)
  <2>1. \A i \in OnDiskNow : hist'[i].ops = hist[i].ops
    BY <1>6, <1>7 DEF Grown
  <2>2. \A k \in Keys : LatestOf(hist', OnDiskNow, k) = LatestOf(hist, OnDiskNow, k)
    BY <1>6, <1>7, <2>1, LatestSame
  <2>. QED  BY <2>2 DEF MapOf
<1>10. Len(hist') = Len(hist)
  BY <1>6, <1>7
<1>11. Flight = <<>> /\ Flight' = <<>>
  <2>1. \A i \in DOMAIN hist : hist[i].st # "pending"
    BY <1>3 DEF Pending
  <2>2. /\ Splits(hist, Len(hist) + 1) /\ Queue(hist, Len(hist) + 1) = <<>>
        /\ Splits(hist', Len(hist') + 1) /\ Queue(hist', Len(hist') + 1) = <<>>
    BY <1>6, <1>7, <2>1, NoneSplits
  <2>3. FirstPending = Len(hist) + 1 /\ FirstPending' = Len(hist') + 1
    BY <1>7, <2>2, SplitsOnce
  <2>. QED  BY <1>7, <2>2, <2>3
<1>. QED  BY <1>7, <1>8, <1>9, <1>10, <1>11 DEF KvStutters

LEMMA SeqIsFunction ==
    ASSUME NEW S, NEW s \in Seq(S), NEW D, DOMAIN s = D PROVE s = [i \in D |-> s[i]]
<1>1. PICK n \in Nat : s \in [1 .. n -> S]
  <2>1. Len(s) \in Nat /\ s \in [1 .. Len(s) -> S]
    OBVIOUS
  <2>. QED  BY <2>1
<1>2. s = [i \in DOMAIN s |-> s[i]]
  BY <1>1
<1>. QED  BY <1>2

LEMMA AppendWrite ==
    ASSUME NEW h \in Seq(Write), NEW x \in Write
    PROVE  /\ Append(h, x) \in Seq(Write) /\ Len(Append(h, x)) = Len(h) + 1
           /\ Append(h, x)[Len(h) + 1] = x /\ \A i \in DOMAIN h : Append(h, x)[i] = h[i]
           /\ DOMAIN h = 1 .. Len(h) /\ Len(h) \in Nat
           /\ DOMAIN Append(h, x) = 1 .. (Len(h) + 1)
OBVIOUS

\* A batch joins the ones in flight.
LEMMA KvSubmits ==
    ASSUME Sound, Sound', NEW b \in Batches, WriteAppend(b)
    PROVE  /\ KvMap' = KvMap /\ Len(hist') = Len(hist) + 1
           /\ Flight' = Append(Flight, [id |-> Len(hist'), ops |-> b])
<1>1. /\ up /\ up' = up /\ hist' = Append(hist, [ops |-> b, seq |-> nextSeq, st |-> "pending"])
  BY DEF WriteAppend, MayAppend
<1>2. PICK x : x = [ops |-> b, seq |-> nextSeq, st |-> "pending"]
  OBVIOUS
<1>3. x \in Write /\ x.st = "pending" /\ x.ops = b
  BY <1>2 DEF Write, Status, Sound, TypeOK
<1>4. /\ hist \in Seq(Write) /\ hist' \in Seq(Write) /\ OnDiskNow \in SUBSET DOMAIN hist
      /\ KvMap = MapOf(hist, OnDiskNow) /\ KvMap' = MapOf(hist', OnDiskNow')
      /\ Flight = Queue(hist, FirstPending) /\ Flight' = Queue(hist', FirstPending')
      /\ Splits(hist, FirstPending) /\ Splits(hist', FirstPending')
  BY KvMapIs, FlightIs, FirstSplits, KvPrimed DEF KvReads
<1>5. hist' = Append(hist, x)
  BY <1>1, <1>2
<1>6. /\ Len(hist') = Len(hist) + 1 /\ hist'[Len(hist) + 1] = x
      /\ \A i \in DOMAIN hist : hist'[i] = hist[i]
      /\ DOMAIN hist = 1 .. Len(hist) /\ Len(hist) \in Nat /\ DOMAIN hist' = 1 .. (Len(hist) + 1)
  BY <1>3, <1>4, <1>5, AppendWrite
<1>7. OnDiskNow' = OnDiskNow
  <2>1. Acked(hist') = Acked(hist)
    BY <1>3, <1>6 DEF Acked
  <2>. QED  BY <1>1, <2>1 DEF OnDiskNow
<1>8. KvMap' = KvMap
  <2>1. \A k \in Keys : LatestOf(hist', OnDiskNow, k) = LatestOf(hist, OnDiskNow, k)
    BY <1>4, <1>6, LatestSame
  <2>. QED  BY <1>4, <1>7, <2>1 DEF MapOf
<1>. DEFINE F == FirstPending
<1>9. F \in 1 .. (Len(hist) + 1) /\ F \in Nat
  BY <1>4, <1>6 DEF Splits
<1>10. Splits(hist', F)
  <2>1. F \in 1 .. (Len(hist') + 1)
    BY <1>6, <1>9
  <2>2. ASSUME NEW j \in 1 .. Len(hist') PROVE hist'[j].st = "pending" <=> j >= F
    <3>1. CASE j = Len(hist) + 1
      BY <1>3, <1>6, <1>9, <3>1
    <3>2. CASE j \in 1 .. Len(hist)
      BY <1>4, <1>6, <3>2 DEF Splits
    <3>. QED  BY <1>6, <3>1, <3>2
  <2>. QED  BY <2>1, <2>2 DEF Splits
<1>11. Flight' = Queue(hist', F)
  BY <1>4, <1>10, SplitsOnce
<1>. HIDE DEF F
<1>12. Queue(hist', F) = Append(Queue(hist, F), [id |-> Len(hist) + 1, ops |-> b])
  <2>. DEFINE q == Queue(hist, F)
              n == Len(hist) + 1 - F
              e == [id |-> Len(hist) + 1, ops |-> b]
              U == [id : Nat, ops : Batches]
  <2>1. n \in Nat /\ Len(hist') + 1 - F = n + 1 /\ F + (n + 1) - 1 = Len(hist) + 1
    BY <1>6, <1>9
  <2>2. \A i \in 1 .. n : F + i - 1 \in Nat /\ F + i - 1 \in DOMAIN hist
    BY <1>6, <1>9
  <2>3. \A i \in DOMAIN hist : hist[i].ops \in Batches
    <3>1. \A i \in DOMAIN hist : hist[i] \in Write
      BY <1>4, StatusTyped
    <3>. QED  BY <3>1 DEF Write
  <2>4. \A i \in 1 .. n : [id |-> F + i - 1, ops |-> hist[F + i - 1].ops] \in U
    BY <2>2, <2>3
  <2>5. q = [i \in 1 .. n |-> [id |-> F + i - 1, ops |-> hist[F + i - 1].ops]]
    BY DEF Queue
  <2>. HIDE DEF q, n, U, e
  <2>6. q \in Seq(U) /\ Len(q) = n
    BY <2>1, <2>4, <2>5
  <2>7. e \in U
    BY <1>6 DEF e, U
  <2>8. /\ Append(q, e) \in Seq(U) /\ DOMAIN Append(q, e) = 1 .. (n + 1)
        /\ Append(q, e)[n + 1] = e /\ \A i \in 1 .. n : Append(q, e)[i] = q[i]
    BY <2>1, <2>6, <2>7
  <2>9. Queue(hist', F) = [i \in 1 .. (n + 1) |-> [id |-> F + i - 1, ops |-> hist'[F + i - 1].ops]]
    BY <2>1 DEF Queue
  <2>10. ASSUME NEW i \in 1 .. (n + 1) PROVE Queue(hist', F)[i] = Append(q, e)[i]
    <3>1. CASE i = n + 1
      <4>1. Queue(hist', F)[i] = [id |-> Len(hist) + 1, ops |-> hist'[Len(hist) + 1].ops]
        BY <2>1, <2>9, <3>1
      <4>. QED  BY <1>3, <1>6, <2>8, <3>1, <4>1 DEF e
    <3>2. CASE i \in 1 .. n
      <4>1. hist'[F + i - 1] = hist[F + i - 1]
        BY <1>6, <2>2, <3>2
      <4>2. Queue(hist', F)[i] = [id |-> F + i - 1, ops |-> hist[F + i - 1].ops]
        BY <2>9, <4>1
      <4>. QED  BY <2>5, <2>8, <3>2, <4>2
    <3>3. i = n + 1 \/ i \in 1 .. n
      <4>1. n \in Nat
        BY <2>1
      <4>. QED  BY <4>1
    <3>. QED  BY <3>1, <3>2, <3>3
  <2>11. Queue(hist', F) = Append(q, e)
    <3>1. PICK s : s = Append(q, e)
      OBVIOUS
    <3>2. PICK r : r = Queue(hist', F)
      OBVIOUS
    <3>3. s = [i \in 1 .. (n + 1) |-> s[i]]
      <4>1. s \in Seq(U) /\ DOMAIN s = 1 .. (n + 1)
        BY <2>8, <3>1
      <4>. QED  BY <4>1, SeqIsFunction
    <3>4. r = [i \in 1 .. (n + 1) |-> r[i]]
      BY <2>9, <3>2
    <3>5. \A i \in 1 .. (n + 1) : r[i] = s[i]
      BY <2>10, <3>1, <3>2
    <3>6. r = s
      BY <3>3, <3>4, <3>5
    <3>. QED  BY <3>1, <3>2, <3>6
  <2>. QED  BY <2>11 DEF q, e
<1>. QED  BY <1>4, <1>6, <1>8, <1>11, <1>12 DEF F

\* The append fails before a byte is written: the batch never was.
LEMMA KvRefuses ==
    ASSUME KvFaults, Sound, Sound', NEW b \in Batches, WriteAppendFail(b)
    PROVE  KvMap' = KvMap /\ Len(hist') = Len(hist) + 1 /\ Flight = <<>> /\ Flight' = <<>>
<1>1. /\ up /\ up' = up /\ lock = "free"
      /\ hist' = Append(Settle("failed"), [ops |-> b, seq |-> nextSeq, st |-> "failed"])
  BY DEF WriteAppendFail, MayAppend, KvFaults
<1>2. PICK x : x = [ops |-> b, seq |-> nextSeq, st |-> "failed"]
  OBVIOUS
<1>3. x \in Write /\ x.st = "failed"
  BY <1>2 DEF Write, Status, Sound, TypeOK
<1>4. /\ hist \in Seq(Write) /\ hist' \in Seq(Write) /\ OnDiskNow \in SUBSET DOMAIN hist
      /\ KvMap = MapOf(hist, OnDiskNow) /\ KvMap' = MapOf(hist', OnDiskNow')
      /\ Flight = Queue(hist, FirstPending) /\ Flight' = Queue(hist', FirstPending')
      /\ Splits(hist, FirstPending) /\ Splits(hist', FirstPending')
  BY KvMapIs, FlightIs, FirstSplits, KvPrimed DEF KvReads
<1>5. Pending = {}
  BY <1>1 DEF Sound, DataInv, PendInv
<1>6. \A i \in DOMAIN hist : hist[i].st # "pending"
  BY <1>5 DEF Pending
<1>7. PICK h : h = Settle("failed")
  OBVIOUS
<1>8. /\ h \in Seq(Write) /\ DOMAIN h = DOMAIN hist /\ Len(h) = Len(hist)
      /\ \A i \in DOMAIN hist : h[i].ops = hist[i].ops /\ h[i].st = hist[i].st
  BY <1>4, <1>6, <1>7, SettleIs DEF Status
<1>9. hist' = Append(h, x)
  BY <1>1, <1>2, <1>7
<1>10. /\ Len(hist') = Len(hist) + 1 /\ hist'[Len(hist) + 1] = x
       /\ DOMAIN hist = 1 .. Len(hist) /\ Len(hist) \in Nat /\ DOMAIN hist' = 1 .. (Len(hist) + 1)
       /\ \A i \in DOMAIN hist : hist'[i].ops = hist[i].ops /\ hist'[i].st = hist[i].st
  BY <1>3, <1>8, <1>9, AppendWrite
<1>11. OnDiskNow' = OnDiskNow
  <2>1. Acked(hist') = Acked(hist)
    BY <1>3, <1>10 DEF Acked
  <2>. QED  BY <1>1, <2>1 DEF OnDiskNow
<1>12. KvMap' = KvMap
  <2>1. \A i \in OnDiskNow : hist'[i].ops = hist[i].ops
    BY <1>4, <1>10
  <2>2. OnDiskNow \subseteq DOMAIN hist'
    BY <1>4, <1>10
  <2>3. \A k \in Keys : LatestOf(hist', OnDiskNow, k) = LatestOf(hist, OnDiskNow, k)
    BY <1>4, <2>1, <2>2, LatestSame
  <2>. QED  BY <1>4, <1>11, <2>3 DEF MapOf
<1>13. \A i \in DOMAIN hist' : hist'[i].st # "pending"
  BY <1>3, <1>6, <1>10
<1>14. /\ Splits(hist, Len(hist) + 1) /\ Queue(hist, Len(hist) + 1) = <<>>
       /\ Splits(hist', Len(hist') + 1) /\ Queue(hist', Len(hist') + 1) = <<>>
  BY <1>4, <1>6, <1>13, NoneSplits
<1>15. FirstPending = Len(hist) + 1 /\ FirstPending' = Len(hist') + 1
  BY <1>4, <1>14, SplitsOnce
<1>. QED  BY <1>4, <1>10, <1>12, <1>14, <1>15

LEMMA QueueLen ==
    ASSUME NEW h \in Seq(Write), NEW F \in 1 .. (Len(h) + 1)
    PROVE  /\ Len(Queue(h, F)) = Len(h) + 1 - F /\ Len(h) + 1 - F \in Nat
           /\ F <= Len(h) => Queue(h, F) # <<>>
<1>1. Len(h) \in Nat /\ Len(h) + 1 - F \in Nat
  OBVIOUS
<1>2. DOMAIN Queue(h, F) = 1 .. Len(h) + 1 - F
  BY DEF Queue
<1>3. Len(Queue(h, F)) = Len(h) + 1 - F
  BY <1>1, <1>2
<1>4. ASSUME F <= Len(h) PROVE Queue(h, F) # <<>>
  <2>1. 1 \in 1 .. Len(h) + 1 - F
    BY <1>1, <1>4
  <2>2. DOMAIN <<>> = {}
    OBVIOUS
  <2>. QED  BY <1>2, <2>1, <2>2
<1>. QED  BY <1>1, <1>3, <1>4

\* Settling the batches in flight when the map has the first n of them.
LEMMA KvSettles ==
    ASSUME Sound, Sound', up, NEW n \in 0 .. (Len(hist) + 1 - FirstPending),
           OnDiskNow' = Acked(hist) \cup FirstPending .. (FirstPending + n - 1),
           DOMAIN hist' = DOMAIN hist, \A i \in DOMAIN hist : hist'[i].ops = hist[i].ops,
           \A i \in DOMAIN hist' : hist'[i].st # "pending"
    PROVE  /\ KvMap' = Applied(KvMap, Flight, n) /\ Flight' = <<>> /\ Len(hist') = Len(hist)
           /\ Len(Flight) = Len(hist) + 1 - FirstPending
           /\ Pending # {} => Flight # <<>>
           /\ Pending = {} => KvStutters
<1>. DEFINE F == FirstPending
            W == Acked(hist)
<1>1. /\ hist \in Seq(Write) /\ hist' \in Seq(Write) /\ OnDiskNow = W /\ W \in SUBSET DOMAIN hist
      /\ KvMap = MapOf(hist, W) /\ KvMap' = MapOf(hist', OnDiskNow')
      /\ Flight = Queue(hist, F) /\ Flight' = Queue(hist', FirstPending')
      /\ Splits(hist, F) /\ Splits(hist', FirstPending')
      /\ F \in 1 .. (Len(hist) + 1) /\ \A a \in W : a < F
      /\ OnDiskNow' \in SUBSET DOMAIN hist'
  BY KvMapIs, FlightIs, FirstSplits, KvPrimed DEF KvReads, OnDiskNow
<1>2. Len(hist') = Len(hist) /\ Len(hist) \in Nat /\ DOMAIN hist = 1 .. Len(hist)
  BY <1>1
<1>3. Splits(hist', Len(hist') + 1) /\ Queue(hist', Len(hist') + 1) = <<>>
  BY <1>1, NoneSplits
<1>4. Flight' = <<>>
  <2>1. FirstPending' = Len(hist') + 1
    BY <1>1, <1>3, SplitsOnce
  <2>. QED  BY <1>1, <1>3, <2>1
<1>5. /\ Len(Flight) = Len(hist) + 1 - F
      /\ F <= Len(hist) => Flight # <<>>
  BY <1>1, QueueLen
<1>. DEFINE W2 == W \cup F .. (F + n - 1)
<1>6. OnDiskNow' = W2
  OBVIOUS
<1>7. Applied(KvMap, Flight, n) = MapOf(hist, W2)
  <2>1. n \in 0 .. (Len(hist) + 1 - F)
    OBVIOUS
  <2>2. hist \in Seq(Write) /\ W \in SUBSET DOMAIN hist
    BY <1>1
  <2>3. F \in 1 .. (Len(hist) + 1) /\ \A a \in W : a < F
    BY <1>1
  <2>. HIDE DEF F, W
  <2>4. Applied(MapOf(hist, W), Queue(hist, F), n) = MapOf(hist, W \cup F .. (F + n - 1))
    BY ONLY <2>1, <2>2, <2>3, AppliedIs
  <2>. QED  BY <1>1, <2>4
<1>. HIDE DEF W2, F, W
<1>8. W2 \in SUBSET DOMAIN hist /\ W2 \subseteq DOMAIN hist' /\ \A i \in W2 : hist'[i].ops = hist[i].ops
  BY <1>1, <1>6
<1>9. \A k \in Keys : LatestOf(hist', W2, k) = LatestOf(hist, W2, k)
  BY <1>1, <1>8, LatestSame
<1>10. KvMap' = Applied(KvMap, Flight, n)
  BY <1>1, <1>6, <1>7, <1>9 DEF MapOf
<1>11. ASSUME Pending # {} PROVE Flight # <<>>
  <2>1. PICK p \in 1 .. Len(hist) : hist[p].st = "pending"
    BY <1>2, <1>11 DEF Pending
  <2>2. p >= F
    BY <1>1, <2>1 DEF Splits
  <2>3. F <= Len(hist)
    BY <1>1, <1>2, <2>1, <2>2
  <2>. QED  BY <1>5, <2>3
<1>12. ASSUME Pending = {} PROVE KvStutters
  <2>1. \A i \in DOMAIN hist : hist[i].st # "pending"
    BY <1>12 DEF Pending
  <2>2. Splits(hist, Len(hist) + 1) /\ Queue(hist, Len(hist) + 1) = <<>>
    BY <1>1, <2>1, NoneSplits
  <2>3. F = Len(hist) + 1
    BY <1>1, <2>2, SplitsOnce
  <2>4. Flight = <<>>
    BY <1>1, <2>2, <2>3
  <2>5. n = 0
    BY <1>2, <2>3 DEF F
  <2>6. F .. (F + n - 1) = {}
    BY <1>2, <2>3, <2>5
  <2>7. W2 = W
    BY <2>6 DEF W2
  <2>8. KvMap' = KvMap
    BY <1>1, <1>6, <1>9, <2>7 DEF MapOf
  <2>. QED  BY <1>2, <1>4, <2>4, <2>8 DEF KvStutters
<1>. QED  BY <1>2, <1>4, <1>5, <1>10, <1>11, <1>12 DEF F

LEMMA KvCommits ==
    ASSUME Sound, Sound', WriteApply
    PROVE  /\ KvMap' = Applied(KvMap, Flight, Len(Flight)) /\ Flight # <<>> /\ Flight' = <<>>
           /\ Len(hist') = Len(hist)
<1>1. /\ lock = "write" /\ hist' = Settle("acked") /\ up' = up
  BY DEF WriteApply
<1>2. up /\ Pending # {}
  BY <1>1 DEF Sound, DataInv, MemInv, PendInv
<1>. DEFINE F == FirstPending
            n == Len(hist) + 1 - F
<1>3. /\ hist \in Seq(Write) /\ Splits(hist, F) /\ Len(hist) \in Nat /\ DOMAIN hist = 1 .. Len(hist)
  <2>1. hist \in Seq(Write)
    BY FlightIs
  <2>. QED  BY <2>1, FirstSplits
<1>4. /\ DOMAIN hist' = DOMAIN hist
      /\ \A i \in DOMAIN hist :
            /\ hist'[i].ops = hist[i].ops
            /\ hist'[i].st = IF hist[i].st = "pending" THEN "acked" ELSE hist[i].st
  BY <1>1, <1>3, SettleIs DEF Status
<1>5. F \in 1 .. (Len(hist) + 1) /\ n \in 0 .. (Len(hist) + 1 - F) /\ F + n - 1 = Len(hist)
  BY <1>3 DEF Splits
<1>6. Acked(hist') = Acked(hist) \cup F .. Len(hist)
  <2>1. \A i \in 1 .. Len(hist) : hist[i].st = "pending" <=> i \in F .. Len(hist)
    BY <1>3, <1>5 DEF Splits
  <2>2. F .. Len(hist) \subseteq DOMAIN hist
    BY <1>3, <1>5
  <2>. HIDE DEF F
  <2>3. \A i \in DOMAIN hist : hist'[i].st = "acked" <=> hist[i].st = "acked" \/ i \in F .. Len(hist)
    BY <1>3, <1>4, <2>1
  <2>. QED  BY <1>4, <2>2, <2>3 DEF Acked
<1>7. OnDiskNow' = Acked(hist) \cup F .. (F + n - 1)
  <2>1. OnDiskNow' = Acked(hist')
    BY <1>1, <1>2 DEF OnDiskNow
  <2>. QED  BY <1>5, <1>6, <2>1
<1>8. \A i \in DOMAIN hist' : hist'[i].st # "pending"
  BY <1>4
<1>. HIDE DEF n
<1>9. /\ KvMap' = Applied(KvMap, Flight, n) /\ Flight' = <<>> /\ Len(hist') = Len(hist)
      /\ Len(Flight) = Len(hist) + 1 - F /\ Flight # <<>>
  BY <1>2, <1>4, <1>5, <1>7, <1>8, KvSettles
<1>10. n = Len(Flight)
  BY <1>9 DEF n
<1>. QED  BY <1>9, <1>10

\* The frames of the writes in flight that survive a crash are a prefix of them.
LEMMA KvCuts ==
    ASSUME KvFaults, Sound, Sound', Crash
    PROVE  \/ KvStutters
           \/ /\ \E n \in 0 .. Len(Flight) : KvMap' = Applied(KvMap, Flight, n)
              /\ Flight # <<>> /\ Flight' = <<>> /\ Len(hist') = Len(hist)
<1>. DEFINE F == FirstPending
            w == DurableWal
<1>1. up /\ up' = FALSE /\ hist' = HistAfterCrash(wal')
  BY DEF Crash
<1>2. /\ SafeFaults /\ TypeOK /\ FilesOwned /\ DataInv /\ NoneFailed
  BY DEF Sound, KvFaults, SafeFaults
<1>3. Failing(hist, hist')
  BY <1>2, CrashFails
<1>4. DOMAIN hist' = DOMAIN hist
  BY <1>1 DEF HistAfterCrash
<1>5. /\ hist \in Seq(Write) /\ Splits(hist, F) /\ Len(hist) \in Nat /\ DOMAIN hist = 1 .. Len(hist)
  <2>1. hist \in Seq(Write)
    BY FlightIs
  <2>. QED  BY <2>1, FirstSplits
<1>6. /\ Log(w, hist) /\ \A j \in DOMAIN w : w[j].ok /\ hist[w[j].wid].st \in {"acked", "pending"}
  BY <1>1, <1>2 DEF DataInv, LogInv, NoneFailed
<1>7. /\ w \in Seq(Frame) /\ DOMAIN w = 1 .. Len(w) /\ Len(w) \in Nat
      /\ \A j \in DOMAIN w : w[j].wid \in DOMAIN hist
  BY <1>6, LogTyped DEF Log
<1>8. PICK c \in Int : wal' \in Remains(w, c)
  <2>1. CASE flush.pc = "reappend"
    BY <2>1 DEF Crash, DurableWal
  <2>2. CASE flush.pc # "reappend"
    <3>1. w = wal /\ wal' \in Remains(w, Surviving)
      BY <2>2 DEF Crash, DurableWal
    <3>2. Surviving \in Int
      BY <1>2, <1>7, <3>1, Typed DEF Surviving
    <3>. QED  BY <3>1, <3>2
  <2>. QED  BY <2>1, <2>2
<1>. HIDE DEF w
<1>9. PICK x : x = wal'
  OBVIOUS
<1>10. x \in Remains(w, c)
  BY <1>8, <1>9
<1>11. PICK i \in 0 .. Len(w) :
                 /\ 1 .. i \subseteq DOMAIN x /\ DOMAIN x \subseteq 1 .. (i + 1)
                 /\ DOMAIN x \subseteq DOMAIN w
                 /\ \A j \in 1 .. i : x[j] = w[j]
                 /\ \A j \in DOMAIN x : i < j => ~ x[j].ok
  BY <1>7, <1>10, RemainsIs
<1>12. {j \in DOMAIN x : x[j].ok} = 1 .. i
  <2>1. \A j \in 1 .. i : j \in DOMAIN x /\ j \in DOMAIN w /\ x[j] = w[j]
    BY <1>11
  <2>2. \A j \in 1 .. i : j \in DOMAIN x /\ x[j].ok
    BY <1>6, <2>1
  <2>3. \A j \in DOMAIN x : j \in 1 .. i \/ i < j
    BY <1>7, <1>11
  <2>. QED  BY <1>11, <2>2, <2>3
<1>13. Wids(x, {j \in DOMAIN x : x[j].ok}) = Wids(w, 1 .. i)
  BY <1>11, <1>12 DEF Wids
<1>14. Acked(hist') = Acked(hist)
  BY <1>3, <1>4 DEF Failing, Acked
<1>15. OnDiskNow' = Acked(hist) \cup Wids(w, 1 .. i)
  <2>1. OnDiskNow' = Acked(hist') \cup Wids(x, {j \in DOMAIN x : x[j].ok})
    BY <1>1, <1>9 DEF OnDiskNow
  <2>. QED  BY <1>13, <1>14, <2>1
<1>16. F \in 1 .. (Len(hist) + 1) /\ F \in Nat
  BY <1>5 DEF Splits
<1>. HIDE DEF F
<1>17. \A j \in 1 .. i : /\ j \in DOMAIN w /\ w[j].wid \in 1 .. Len(hist)
                         /\ (w[j].wid \in Acked(hist) \/ w[j].wid >= F)
                         /\ (j < i => w[j].wid < w[i].wid)
  <2>. SUFFICES ASSUME NEW j \in 1 .. i
                PROVE  /\ j \in DOMAIN w /\ w[j].wid \in 1 .. Len(hist)
                       /\ (w[j].wid \in Acked(hist) \/ w[j].wid >= F)
                       /\ (j < i => w[j].wid < w[i].wid)
    OBVIOUS
  <2>1. j \in DOMAIN w /\ (j < i => i \in DOMAIN w)
    BY <1>7
  <2>2. w[j].wid \in 1 .. Len(hist) /\ (j < i => w[j].wid < w[i].wid)
    BY <1>5, <1>6, <1>7, <2>1 DEF Log
  <2>3. hist[w[j].wid].st = "acked" \/ w[j].wid >= F
    BY <1>5, <1>6, <2>1, <2>2 DEF Splits
  <2>. QED  BY <1>5, <2>1, <2>2, <2>3 DEF Acked
<1>18. PICK n \in 0 .. (Len(hist) + 1 - F) :
            Acked(hist) \cup Wids(w, 1 .. i) = Acked(hist) \cup F .. (F + n - 1)
  <2>1. CASE \A j \in 1 .. i : w[j].wid \in Acked(hist)
    <3>1. Wids(w, 1 .. i) \subseteq Acked(hist)
      BY <2>1 DEF Wids
    <3>2. F .. (F + 0 - 1) = {} /\ 0 \in 0 .. (Len(hist) + 1 - F)
      BY <1>5, <1>16
    <3>3. Acked(hist) \cup Wids(w, 1 .. i) = Acked(hist) \cup F .. (F + 0 - 1)
      BY <3>1, <3>2
    <3>. QED  BY <3>2, <3>3
  <2>2. CASE \E j \in 1 .. i : w[j].wid \notin Acked(hist)
    <3>1. PICK j \in 1 .. i : w[j].wid >= F
      BY <1>17, <2>2
    <3>2. i \in 1 .. i /\ j \in Nat /\ i \in Nat /\ j <= i
      BY <1>7
    <3>. DEFINE m == w[i].wid
    <3>3. m \in 1 .. Len(hist) /\ i \in DOMAIN w
      BY <1>17, <3>2
    <3>4. \A a \in 1 .. i : w[a].wid <= m /\ w[a].wid \in Nat
      <4>. SUFFICES ASSUME NEW a \in 1 .. i PROVE w[a].wid <= m /\ w[a].wid \in Nat
        OBVIOUS
      <4>1. w[a].wid \in 1 .. Len(hist) /\ (a < i => w[a].wid < m)
        BY <1>17
      <4>2. a < i \/ a = i
        BY <3>2
      <4>. QED  BY <1>5, <3>3, <4>1, <4>2
    <3>5. m >= F
      <4>1. w[j].wid <= m /\ w[j].wid \in Nat /\ m \in Nat
        BY <3>3, <3>4
      <4>. QED  BY <1>16, <3>1, <4>1
    <3>6. Wids(w, 1 .. i) \subseteq Acked(hist) \cup F .. m
      <4>1. ASSUME NEW a \in 1 .. i PROVE w[a].wid \in Acked(hist) \cup F .. m
        <5>1. w[a].wid <= m /\ w[a].wid \in Nat /\ (w[a].wid \in Acked(hist) \/ w[a].wid >= F)
          BY <1>17, <3>4
        <5>. QED  BY <1>16, <3>3, <5>1
      <4>. QED  BY <4>1 DEF Wids
    <3>7. ASSUME NEW p \in F .. m PROVE p \in Wids(w, 1 .. i)
      <4>1. p \in 1 .. Len(hist) /\ p >= F /\ p <= m
        BY <1>5, <1>16, <3>3
      <4>2. p \in Pending
        BY <1>5, <4>1 DEF Splits, Pending
      <4>3. PICK a \in DOMAIN w : w[a].wid = p
        BY <1>2, <4>2 DEF DataInv, PendInv, w
      <4>4. i < a => w[i].wid < w[a].wid
        BY <1>6, <3>3 DEF Log
      <4>5. a \in 1 .. i
        BY <1>7, <3>2, <3>3, <4>1, <4>3, <4>4
      <4>. QED  BY <4>3, <4>5 DEF Wids
    <3>. DEFINE q == m - F + 1
    <3>8. q \in 0 .. (Len(hist) + 1 - F) /\ F + q - 1 = m
      BY <1>5, <1>16, <3>3, <3>5
    <3>. HIDE DEF q, m
    <3>9. Acked(hist) \cup Wids(w, 1 .. i) = Acked(hist) \cup F .. m
      BY <3>6, <3>7
    <3>. QED  BY <3>8, <3>9
  <2>. QED  BY <2>1, <2>2
<1>19. OnDiskNow' = Acked(hist) \cup F .. (F + n - 1)
  BY <1>15, <1>18
<1>20. /\ \A j \in DOMAIN hist : hist'[j].ops = hist[j].ops
       /\ \A j \in DOMAIN hist' : hist'[j].st # "pending"
  BY <1>3, <1>4 DEF Failing
<1>21. /\ KvMap' = Applied(KvMap, Flight, n) /\ Flight' = <<>> /\ Len(hist') = Len(hist)
       /\ Len(Flight) = Len(hist) + 1 - F
       /\ Pending # {} => Flight # <<>>
       /\ Pending = {} => KvStutters
  BY <1>1, <1>4, <1>18, <1>19, <1>20, KvSettles DEF F
<1>22. n \in 0 .. Len(Flight)
  BY <1>18, <1>21
<1>. QED  BY <1>21, <1>22

KvVars == <<KvMap, Flight, Len(hist)>>

LEMMA KvAfter == \A n : KV!After(n) = Applied(KvMap, Flight, n)
BY DEF KV!After, Applied, KvMap, Flight

LEMMA KvNext ==
    ASSUME KvFaults, Sound, Sound', [Next]_vars PROVE [KV!Next]_KvVars
<1>1. ASSUME KvStutters PROVE [KV!Next]_KvVars
  BY <1>1 DEF KvStutters, KvVars
<1>2. ASSUME NEW b \in Batches, WriteAppend(b) PROVE KV!Next
  <2>1. /\ KvMap' = KvMap /\ Len(hist') = Len(hist) + 1
        /\ Flight' = Append(Flight, [id |-> Len(hist'), ops |-> b])
    BY <1>2, KvSubmits
  <2>2. KV!Submit(b)
    BY <2>1 DEF KV!Submit, KvMap, Flight
  <2>. QED  BY <2>2 DEF KV!Next
<1>3. ASSUME NEW b \in Batches, WriteAppendFail(b) PROVE KV!Next
  <2>1. KvMap' = KvMap /\ Len(hist') = Len(hist) + 1 /\ Flight = <<>> /\ Flight' = <<>>
    BY <1>3, KvRefuses
  <2>2. KV!Refuse
    BY <2>1 DEF KV!Refuse, KvMap, Flight
  <2>. QED  BY <2>2 DEF KV!Next
<1>4. CASE WriteApply
  <2>1. /\ KvMap' = Applied(KvMap, Flight, Len(Flight)) /\ Flight # <<>> /\ Flight' = <<>>
        /\ Len(hist') = Len(hist)
    BY <1>4, KvCommits
  <2>2. KvMap' = KV!After(Len(Flight))
    BY <2>1, KvAfter
  <2>3. KV!Commit
    BY <2>1, <2>2 DEF KV!Commit, KvMap, Flight
  <2>. QED  BY <2>3 DEF KV!Next
<1>5. CASE Crash
  <2>1. CASE KvStutters
    BY <1>1, <2>1
  <2>2. CASE /\ \E n \in 0 .. Len(Flight) : KvMap' = Applied(KvMap, Flight, n)
             /\ Flight # <<>> /\ Flight' = <<>> /\ Len(hist') = Len(hist)
    <3>1. \E n \in 0 .. Len(Flight) : KvMap' = KV!After(n)
      BY <2>2, KvAfter
    <3>2. KV!Cut
      BY <2>2, <3>1 DEF KV!Cut, KvMap, Flight
    <3>. QED  BY <3>2 DEF KV!Next
  <2>. QED  BY <1>5, <2>1, <2>2, KvCuts
<1>6. CASE Open
  BY <1>1, <1>6, KvOpens
<1>7. CASE Rotate \/ FlushPhaseA \/ FlushPhaseB \/ FlushPublish \/ FlushTruncate \/ FlushReappend
  <2>1. hist' = hist /\ up' = up
    BY <1>7 DEF Rotate, FlushPhaseA, FlushPhaseB, FlushPublish, FlushTruncate, FlushReappend, disk
  <2>2. up
    BY <1>7 DEF Rotate, FlushPhaseA, FlushPhaseB, FlushPublish, FlushTruncate, FlushReappend,
                Sound, FilesOwned, ThreadsOwned, NoFlush
  <2>. QED  BY <1>1, <2>1, <2>2, KvKept
<1>8. ASSUME NEW m \in Mergers, Merger(m) PROVE [KV!Next]_KvVars
  <2>1. hist' = hist /\ up' = up
    BY <1>8 DEF Merger, MergeCapture, MergeStale, MergeRename, MergePublish, MergeSwap, MergeFail
  <2>2. up
    <3>. SUFFICES ASSUME ~up PROVE FALSE
      OBVIOUS
    <3>1. merge[m].pc = "idle"
      BY DEF Sound, FilesOwned, ThreadsOwned, NoMerge
    <3>. QED  BY <1>8, <3>1 DEF Merger, MergeCapture, MergeStale, MergeRename, MergePublish,
                                MergeSwap, MergeFail
  <2>. QED  BY <1>1, <2>1, <2>2, KvKept
<1>9. ~ (WriteSyncFail \/ FlushPhaseBFail \/ FlushPublishFail \/ FlushRewriteFail)
  BY DEF KvFaults, WriteSyncFail, FlushPhaseBFail, FlushPublishFail, FlushRewriteFail
<1>10. CASE UNCHANGED vars
  <2>1. UNCHANGED <<hist, current, flush, wal>>
    BY <1>10 DEF vars, disk, threads
  <2>2. Pending' = Pending /\ DurableWal' = DurableWal
    BY <2>1 DEF Pending, DurableWal
  <2>3. SettledRows' = SettledRows /\ FirstPending' = FirstPending
    BY <2>1, <2>2 DEF SettledRows, FirstPending
  <2>4. KvStutters
    BY <2>1, <2>3 DEF KvStutters, KvMap, Flight
  <2>. QED  BY <1>1, <2>4
<1>. QED  BY <1>2, <1>3, <1>4, <1>5, <1>6, <1>7, <1>8, <1>9, <1>10 DEF Next, Writers, Flusher

LEMMA KvInit == Init => KV!Init
<1>. SUFFICES ASSUME Init PROVE KV!Init
  OBVIOUS
<1>1. hist = <<>> /\ wal = <<>> /\ flush.pc = "idle" /\ current.segs = <<>> /\ up
  BY DEF Init, NoFlush
<1>2. Sound
  <2>1. TypeOK /\ FilesOwned /\ DataInv
    BY TypeInit, FilesInit, DataInit
  <2>2. NoneFailed
    BY <1>1 DEF NoneFailed, DurableWal
  <2>. QED  BY <2>1, <2>2 DEF Sound
<1>3. /\ hist \in Seq(Write) /\ Len(hist) = 0 /\ DOMAIN hist = {}
  BY <1>1
<1>4. Flight = <<>>
  <2>1. Splits(hist, Len(hist) + 1) /\ Queue(hist, Len(hist) + 1) = <<>>
    BY <1>3, NoneSplits
  <2>2. Splits(hist, FirstPending) /\ Flight = Queue(hist, FirstPending)
    BY <1>2, FirstSplits, FlightIs
  <2>3. FirstPending = Len(hist) + 1
    BY <1>3, <2>1, <2>2, SplitsOnce
  <2>. QED  BY <2>1, <2>2, <2>3
<1>5. KvMap = [k \in Keys |-> 0]
  <2>1. Acked(hist) = {} /\ OnDiskNow = {}
    BY <1>1, <1>3 DEF Acked, OnDiskNow
  <2>2. \A k \in Keys : LatestOf(hist, {}, k) = 0
    BY DEF LatestOf, None
  <2>3. KvMap = MapOf(hist, {})
    BY <1>2, <2>1, KvMapIs
  <2>. QED  BY <2>2, <2>3 DEF MapOf
<1>. QED  BY <1>3, <1>4, <1>5 DEF KV!Init, KvMap, Flight

\* Db implements KvStore: seen through the map its disk holds, every step of the engine
\* submits, refuses, commits or cuts off batches, whole and in order, or is invisible;
\* flush, compaction and recovery are (db.rs:12-28).
THEOREM EngineImplementsKv == ASSUME KvFaults PROVE Spec => ImplementsKv
<1>1. SafeFaults
  BY DEF KvFaults, SafeFaults
<1>2. Init => NoneFailed
  BY DEF Init, NoneFailed, DurableWal, NoFlush
<1>3. TypeOK /\ FilesOwned /\ DataInv /\ NoneFailed /\ [Next]_vars => NoneFailed'
  BY NoneFailedNext
<1>4. Spec => []NoneFailed
  BY <1>1, <1>2, <1>3, TypeCorrect, FilesAlwaysOwned, DataAlwaysSound, PTL DEF Spec
<1>5. Spec => []Sound
  <2>1. TypeOK /\ FilesOwned /\ DataInv /\ NoneFailed => Sound
    BY DEF Sound
  <2>. QED  BY <1>1, <1>4, <2>1, TypeCorrect, FilesAlwaysOwned, DataAlwaysSound, PTL
<1>6. Sound /\ Sound' /\ [Next]_vars => [KV!Next]_KvVars
  BY KvNext
<1>7. Spec => KV!Init /\ [][KV!Next]_KvVars
  BY <1>5, <1>6, KvInit, PTL DEF Spec
<1>. QED  BY <1>7, PTL DEF ImplementsKv, KV!Spec, KvVars, KvMap, Flight
=============================================================================
