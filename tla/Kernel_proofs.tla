---------------------------- MODULE Kernel_proofs ----------------------------
(***************************************************************************)
(* Theorems about the kernel's commit pipeline, its key ring and its vector*)
(* index.                                                                  *)
(***************************************************************************)
EXTENDS KernelCommit, KeyRing, VectorIndex, FiniteSetTheorems, SequenceTheorems,
        WellFoundedInduction, TLAPS

-----------------------------------------------------------------------------
(* KernelCommit: the invariant *)

Requests == IdemKeys \cup TxnIds \cup {NoId}
Events == [koid : Koids, v : Nat, kind : {"written", "erased"}, ts : Nat, by : Requests, snap : Int, begun : Nat]
States == {"Draft", "Archived", "Deleted"}
VersionWrites == [koid : Koids, v : Nat, kind : {"written", "erased"}, state : States \cup {"none"}]

RowTypes ==
    /\ journal \in Seq(Events) /\ Len(journal) <= MaxCommits
    /\ lastTs \in Nat /\ hlc \in Nat /\ lastTs <= hlc /\ hlc <= MaxTs
    /\ head \in [Koids -> [v : Nat, ts : Nat, state : States \cup {"none"}]]
    /\ \A k \in Koids : head[k].v = 0 <=> head[k].state = "none"
    /\ idem \in [IdemKeys -> [koid : Koids \cup {NoId}, v : Nat]]
    /\ txnrec \in [TxnIds -> [body : Seq(Koids), found : BOOLEAN]]
    /\ usage \in Nat /\ usageRow = usage /\ usageHead = Len(journal) /\ (Len(journal) = 0 => usage = 0)
    /\ \A i \in DOMAIN journal : journal[i].ts \in 1 .. lastTs

\* A key or a transaction id of the journal has its outcome recorded.
ByInv ==
    \A i \in DOMAIN journal : /\ journal[i].by \in IdemKeys => idem[journal[i].by] # NoOutcome
                              /\ journal[i].by \in TxnIds => txnrec[journal[i].by].found

ErasedSince(k, b) == \E e \in DOMAIN journal : e > b /\ journal[e].koid = k /\ journal[e].kind = "erased"

\* What the holder of the pipe lock has checked still holds when its batch lands.
PipeInv ==
    pipe # NoPipe =>
        /\ pipe.kind \in {"remember", "evolve", "forget", "erase", "txn"}
        /\ pipe.writes \in Seq(VersionWrites) /\ Len(journal) + Len(pipe.writes) <= MaxCommits
        /\ pipe.ts \in lastTs + 1 .. hlc /\ pipe.delta \in Int /\ (Len(pipe.writes) = 0 => pipe.delta = 0)
        /\ pipe.by \in Requests /\ pipe.snap \in Int /\ pipe.begun \in Nat
        /\ \A i \in DOMAIN pipe.writes :
             pipe.writes[i].kind = "written" =>
                 pipe.writes[i].v = head[pipe.writes[i].koid].v + 1 /\ pipe.writes[i].state \in States
        /\ \A i, j \in DOMAIN pipe.writes : i # j => pipe.writes[i].koid # pipe.writes[j].koid
        /\ pipe.kind # "txn" => Len(pipe.writes) = 1 /\ pipe.snap = -1 /\ pipe.by \in IdemKeys \cup {NoId}
        /\ pipe.kind \notin {"remember", "txn"} => pipe.by = NoId
        /\ pipe.kind = "remember" =>
             pipe.writes[1].kind = "written" /\ (pipe.by # NoId => idem[pipe.by] = NoOutcome)
        /\ pipe.kind = "txn" =>
             /\ pipe.by \in TxnIds /\ ~txnrec[pipe.by].found /\ pipe.body \in Seq(Koids)
             /\ \A i \in DOMAIN pipe.writes, j \in DOMAIN journal :
                  journal[j].koid = pipe.writes[i].koid /\ journal[j].ts > pipe.snap
                  => ErasedSince(pipe.writes[i].koid, pipe.begun)

\* The versions of k at or before a timestamp.
UpTo(l, k, ts) == {i \in Since(l, k) : l[i].ts <= ts}

Stages == [koid : Koids, exp : Nat]

\* A staged version is not newer than the snapshot, unless its object was erased meanwhile.
StagedInv(t, s) ==
    ErasedSince(s.koid, t.begun) \/ s.exp <= Cardinality(UpTo(journal, s.koid, t.snap))

\* The journal a transaction began after is not newer than its snapshot.
OpenInv(t) ==
    /\ t.snap <= hlc /\ t.begun <= Len(journal)
    /\ \A i \in 1 .. t.begun : journal[i].ts <= t.snap
    /\ \A i \in DOMAIN t.staged : StagedInv(t, t.staged[i])

Txns == [id : TxnIds \cup {NoId}, snap : Nat, begun : Nat, staged : Seq(Stages)]

TxnInv ==
    /\ txn \in [Clients -> Txns]
    /\ \A c \in Clients : txn[c] = NoTxn \/ (txn[c].id \in TxnIds /\ OpenInv(txn[c]))

CommitInv ==
    /\ RowTypes /\ JournalTellsHistory /\ ByInv /\ PipeInv /\ TxnInv
    /\ AppliedOnce /\ FirstCommitterWins /\ TimeOrder

-----------------------------------------------------------------------------
(* KernelCommit: the events of an object since its last erase *)

\* The journal l tells the history of k: its version rows and its head's version.
Tells(l, k, vs, n) ==
    LET S == Since(l, k)
    IN  /\ \A i \in S : l[i].v = Cardinality({j \in S : j <= i})
        /\ vs = {[v |-> l[i].v, ts |-> l[i].ts] : i \in S}
        /\ n = Cardinality(S)

\* The same, as one predicate of the journal, the object and its rows.
LEMMA HistoryIs == JournalTellsHistory <=> \A k \in Koids : Tells(journal, k, vers[k], head[k].v)
BY DEF JournalTellsHistory, Tells

\* They are finitely many, and so are those of any part of them.
LEMMA SinceFinite ==
  ASSUME NEW l \in Seq(Events), NEW k
  PROVE  /\ Since(l, k) \subseteq 1 .. Len(l) /\ IsFiniteSet(Since(l, k)) /\ Cardinality(Since(l, k)) \in 0 .. Len(l)
         /\ \A T \in SUBSET Since(l, k) :
              /\ IsFiniteSet(T) /\ Cardinality(T) \in Nat /\ Cardinality(T) <= Cardinality(Since(l, k))
              /\ Cardinality(T) = Cardinality(Since(l, k)) => T = Since(l, k)
<1>1. Since(l, k) \subseteq 1 .. Len(l) /\ Len(l) \in Nat
  BY DEF Since
<1>2. IsFiniteSet(1 .. Len(l)) /\ Cardinality(1 .. Len(l)) = Len(l)
  <2>1. 1 \in Int /\ Len(l) \in Int
    BY <1>1
  <2>2. IsFiniteSet(1 .. Len(l)) /\ Cardinality(1 .. Len(l)) = (IF 1 > Len(l) THEN 0 ELSE Len(l) - 1 + 1)
    BY <2>1, FS_Interval, Zenon
  <2>. QED  BY <1>1, <2>2
<1>3. IsFiniteSet(Since(l, k)) /\ Cardinality(Since(l, k)) <= Len(l) /\ Cardinality(Since(l, k)) \in Nat
  BY <1>1, <1>2, FS_Subset, FS_CardinalityType
<1>4. ASSUME NEW T \in SUBSET Since(l, k)
      PROVE  /\ IsFiniteSet(T) /\ Cardinality(T) \in Nat /\ Cardinality(T) <= Cardinality(Since(l, k))
             /\ Cardinality(T) = Cardinality(Since(l, k)) => T = Since(l, k)
  BY <1>3, FS_Subset, FS_CardinalityType
<1>. QED  BY <1>1, <1>3, <1>4

\* The journal J has the events of l, and then others.
Longer(l, J) ==
    J \in Seq(Events) /\ Len(l) <= Len(J) /\ \A i \in 1 .. Len(l) : J[i] = l[i]

\* Nothing of k is added.
LEMMA SinceSame ==
  ASSUME NEW l \in Seq(Events), NEW J \in Seq(Events), Longer(l, J), NEW k,
         \A i \in 1 .. Len(J) : i > Len(l) => J[i].koid # k
  PROVE  Since(J, k) = Since(l, k)
BY DEF Since, Longer

\* The one event of k that J has after those of l is at p.
Lone(l, J, k, p) ==
    /\ p \in 1 .. Len(J) /\ p > Len(l) /\ J[p].koid = k
    /\ \A i \in 1 .. Len(J) : i > Len(l) /\ i # p => J[i].koid # k

\* A version is added.
LEMMA SinceOne ==
  ASSUME NEW l \in Seq(Events), NEW J \in Seq(Events), Longer(l, J), NEW k, NEW p, Lone(l, J, k, p),
         J[p].kind = "written"
  PROVE  Since(J, k) = Since(l, k) \cup {p}
<1>0. Len(l) \in Nat /\ Len(J) \in Nat /\ DOMAIN l = 1 .. Len(l) /\ DOMAIN J = 1 .. Len(J)
  OBVIOUS
<1>. DEFINE El == {i \in DOMAIN l : l[i].koid = k /\ l[i].kind = "erased"}
            EJ == {i \in DOMAIN J : J[i].koid = k /\ J[i].kind = "erased"}
<1>1. EJ = El
  BY <1>0 DEF Longer, Lone
<1>2. ASSUME NEW i \in Since(J, k) PROVE i \in Since(l, k) \cup {p}
  BY <1>0, <1>1, <1>2 DEF Since, Longer, Lone
<1>3. ASSUME NEW i \in Since(l, k) \cup {p} PROVE i \in Since(J, k)
  BY <1>0, <1>1, <1>3 DEF Since, Longer, Lone
<1>. QED  BY <1>2, <1>3

\* An erase is added.
LEMMA SinceNone ==
  ASSUME NEW l \in Seq(Events), NEW J \in Seq(Events), Longer(l, J), NEW k, NEW p, Lone(l, J, k, p),
         J[p].kind = "erased"
  PROVE  Since(J, k) = {}
<1>0. Len(l) \in Nat /\ Len(J) \in Nat /\ DOMAIN l = 1 .. Len(l) /\ DOMAIN J = 1 .. Len(J)
  OBVIOUS
<1>1. ASSUME NEW i \in Since(J, k) PROVE FALSE
  <2>1. i \in 1 .. Len(J) /\ J[i].koid = k /\ p < i
    BY <1>0, <1>1 DEF Since, Lone
  <2>. QED  BY <1>0, <2>1 DEF Lone
<1>. QED  BY <1>1

\* The least number principle.
LEMMA Least == ASSUME NEW T \in SUBSET Nat, T # {} PROVE \E x \in T : \A y \in T : ~ (y < x)
<1>1. PICK x \in T : \A y \in T : ~ (<<y, x>> \in OpToRel(<, Nat))
  BY WFMin, NatLessThanWellFounded
<1>2. \A y \in T : <<y, x>> \in OpToRel(<, Nat) <=> y < x
  BY DEF OpToRel
<1>. QED  BY <1>1, <1>2

-----------------------------------------------------------------------------
(* KernelCommit: the steps *)

\* A step that lands nothing.
LEMMA Quiet ==
  ASSUME CommitInv, UNCHANGED <<vers, head, journal, lastTs, idem, txnrec, usageRow, usageHead, usage>>,
         hlc' \in lastTs .. MaxTs, PipeInv', TxnInv'
  PROVE  CommitInv'
<1>1. RowTypes'
  BY DEF CommitInv, RowTypes
<1>2. journal' = journal /\ head' = head /\ vers' = vers /\ idem' = idem /\ txnrec' = txnrec
  OBVIOUS
<1>3. JournalTellsHistory'
  <2>1. \A k \in Koids : Tells(journal, k, vers[k], head[k].v)
    BY HistoryIs DEF CommitInv
  <2>2. (\A k \in Koids : Tells(journal, k, vers[k], head[k].v))'
    BY <1>2, <2>1
  <2>. QED  BY <2>2, HistoryIs, PTL
<1>4. ByInv'
  BY <1>2 DEF CommitInv, ByInv
<1>5. AppliedOnce'
  BY <1>2 DEF CommitInv, AppliedOnce
<1>6. FirstCommitterWins'
  BY <1>2 DEF CommitInv, FirstCommitterWins
<1>7. TimeOrder'
  BY <1>2 DEF CommitInv, TimeOrder
<1>. QED  BY <1>1, <1>3, <1>4, <1>5, <1>6, <1>7 DEF CommitInv

\* An open transaction does not notice a step that leaves the journal alone and the clock no lower.
LEMMA OpenSame ==
  ASSUME CommitInv, NEW t \in Txns, OpenInv(t), UNCHANGED journal, hlc' \in Nat, hlc <= hlc'
  PROVE  OpenInv(t)'
<1>1. journal' = journal /\ t.snap \in Nat /\ hlc \in Nat
  BY DEF CommitInv, Txns, RowTypes
<1>2. t.snap <= hlc'
  BY <1>1 DEF OpenInv
<1>3. \A i \in DOMAIN t.staged : StagedInv(t, t.staged[i])'
  <2>1. ASSUME NEW s, StagedInv(t, s) PROVE StagedInv(t, s)'
    BY <1>1, <2>1 DEF StagedInv, ErasedSince
  <2>2. \A i \in DOMAIN t.staged : StagedInv(t, t.staged[i])
    BY DEF OpenInv
  <2>. QED  BY <2>1, <2>2
<1>. QED  BY <1>1, <1>2, <1>3, Zenon DEF OpenInv

\* Nor do all of them.
LEMMA TxnSame ==
  ASSUME CommitInv, UNCHANGED <<txn, journal>>, hlc' \in Nat, hlc <= hlc'
  PROVE  TxnInv'
<1>1. journal' = journal /\ txn' = txn /\ txn \in [Clients -> Txns]
  BY DEF CommitInv, TxnInv
<1>2. ASSUME NEW c \in Clients, OpenInv(txn[c]) PROVE OpenInv(txn[c])'
  BY <1>1, <1>2, OpenSame
<1>. QED  BY <1>1, <1>2, Zenon DEF CommitInv, TxnInv

\* Nor does the holder of the pipe lock when the store does not change.
LEMMA PipeSame ==
  ASSUME CommitInv, UNCHANGED <<vers, head, journal, lastTs, idem, txnrec, usageRow, usageHead, usage, pipe>>,
         hlc' \in Nat, hlc <= hlc'
  PROVE  PipeInv'
BY DEF CommitInv, PipeInv, RowTypes, ErasedSince

\* A request that is no transaction takes the pipe lock.
LEMMA SingleStep ==
  ASSUME CommitInv, NEW kind \in {"remember", "evolve", "forget", "erase"}, NEW w \in VersionWrites,
         NEW by \in IdemKeys \cup {NoId}, NEW delta \in Int,
         Assemble(Single(kind, w, by, delta)), UNCHANGED txn,
         w.kind = "written" => w.v = head[w.koid].v + 1 /\ w.state \in States,
         kind = "remember" => w.kind = "written" /\ (by # NoId => idem[by] = NoOutcome),
         kind # "remember" => by = NoId
  PROVE  CommitInv'
<1>. DEFINE b == Single(kind, w, by, delta)
<1>1. /\ b = [kind |-> kind, writes |-> <<w>>, by |-> by, snap |-> -1, begun |-> 0,
              body |-> <<>>, delta |-> delta, ts |-> hlc + 1]
      /\ pipe' = b /\ hlc' = hlc + 1 /\ hlc < MaxTs /\ Len(journal) + Len(b.writes) <= MaxCommits
      /\ UNCHANGED <<vers, head, journal, lastTs, idem, txnrec, usageRow, usageHead, usage>>
  BY DEF Assemble, Single, Batch, storeVars
<1>2. hlc \in Nat /\ lastTs \in Nat /\ lastTs <= hlc /\ MaxTs \in Nat
  BY KernelAssumption DEF CommitInv, RowTypes
<1>3. TxnInv'
  BY <1>1, <1>2, TxnSame
<1>4. PipeInv'
  <2>1. <<w>> \in Seq(VersionWrites) /\ Len(<<w>>) = 1 /\ DOMAIN <<w>> = {1} /\ <<w>>[1] = w
    OBVIOUS
  <2>. HIDE DEF b
  <2>2. /\ b.kind = kind /\ b.writes = <<w>> /\ b.by = by /\ b.snap = -1 /\ b.begun = 0 /\ b.delta = delta
        /\ b.ts = hlc + 1
    BY <1>1
  <2>3. \A i \in DOMAIN b.writes : i = 1 /\ b.writes[i] = w
    BY <2>1, <2>2
  <2>4. /\ b.kind \in {"remember", "evolve", "forget", "erase", "txn"}
        /\ b.writes \in Seq(VersionWrites) /\ Len(journal) + Len(b.writes) <= MaxCommits
        /\ b.by \in Requests /\ b.snap \in Int /\ b.begun \in Nat
        /\ b.ts \in lastTs + 1 .. hlc' /\ b.delta \in Int
    BY <1>1, <1>2, <2>1, <2>2 DEF Requests
  <2>5. /\ \A i \in DOMAIN b.writes :
             b.writes[i].kind = "written" =>
                 b.writes[i].v = head[b.writes[i].koid].v + 1 /\ b.writes[i].state \in States
        /\ \A i, j \in DOMAIN b.writes : i # j => b.writes[i].koid # b.writes[j].koid
    BY <2>3
  <2>6. /\ b.kind # "txn" /\ Len(b.writes) = 1 /\ b.snap = -1 /\ b.by \in IdemKeys \cup {NoId}
        /\ b.kind \notin {"remember", "txn"} => b.by = NoId
        /\ b.kind = "remember" =>
             b.writes[1].kind = "written" /\ (b.by # NoId => idem[b.by] = NoOutcome)
    BY <2>1, <2>2
  <2>. QED  BY <1>1, <2>4, <2>5, <2>6 DEF PipeInv
<1>5. hlc' \in lastTs .. MaxTs
  BY <1>1, <1>2
<1>. QED  BY <1>1, <1>3, <1>4, <1>5, Quiet

\* Heads, and the writes built from them.
LEMMA HeadType ==
  ASSUME CommitInv, NEW k \in Koids
  PROVE  /\ head[k].v \in Nat /\ head[k].state \in States \cup {"none"}
         /\ head[k].v = 0 <=> head[k].state = "none"
BY DEF CommitInv, RowTypes

LEMMA WriteType ==
  ASSUME CommitInv, NEW k \in Koids, NEW st \in States
  PROVE  /\ Write(k, "written", st) \in VersionWrites
         /\ Write(k, "written", st).koid = k /\ Write(k, "written", st).kind = "written"
         /\ Write(k, "written", st).v = head[k].v + 1 /\ Write(k, "written", st).state = st
BY HeadType DEF Write, VersionWrites

\* The requests that are no transaction, one by one.
LEMMA RememberStep ==
  ASSUME CommitInv, NEW k \in Koids, NEW key \in IdemKeys \cup {NoId}, Remember(k, key)
  PROVE  CommitInv'
<1>. DEFINE st == IF Exists(k) THEN head[k].state ELSE "Draft"
<1>1. st \in States
  BY HeadType DEF Exists, States
<1>2. PICK delta \in Int : Assemble(Single("remember", Write(k, "written", st), key, delta)) /\ UNCHANGED txn
  BY DEF Remember
<1>. HIDE DEF st
<1>. QED  BY <1>1, <1>2, WriteType, SingleStep DEF Remember

LEMMA EvolveStep == ASSUME CommitInv, NEW k \in Koids, Evolve(k) PROVE CommitInv'
<1>1. LifecycleStep[head[k].state] \in States
  BY DEF Evolve, LifecycleStep, States
<1>. QED  BY <1>1, WriteType, SingleStep, KernelAssumption DEF Evolve

LEMMA TombstoneStep == ASSUME CommitInv, NEW k \in Koids, Tombstone(k) PROVE CommitInv'
<1>1. "Deleted" \in States
  BY DEF States
<1>. QED  BY <1>1, WriteType, SingleStep DEF Tombstone

LEMMA EraseStep == ASSUME CommitInv, NEW k \in Koids, Erase(k) PROVE CommitInv'
<1>. DEFINE w == [koid |-> k, v |-> head[k].v, kind |-> "erased", state |-> "none"]
<1>1. w \in VersionWrites /\ w.kind = "erased"
  BY HeadType DEF VersionWrites
<1>2. Assemble(Single("erase", w, NoId, -1)) /\ UNCHANGED txn
  BY DEF Erase
<1>. HIDE DEF w
<1>. QED  BY <1>1, <1>2, SingleStep

\* A step that changes the transaction of one client, and not the journal.
LEMMA OneTxn ==
  ASSUME CommitInv, NEW c \in Clients, NEW t \in Txns, t = NoTxn \/ (t.id \in TxnIds /\ OpenInv(t)'),
         txn' = [txn EXCEPT ![c] = t], UNCHANGED journal, hlc' \in Nat, hlc <= hlc'
  PROVE  TxnInv'
<1>0. txn \in [Clients -> Txns] /\ txn' \in [Clients -> Txns] /\ txn'[c] = t
  BY DEF CommitInv, TxnInv
<1>2. ASSUME NEW d \in Clients PROVE txn'[d] = NoTxn \/ (txn'[d].id \in TxnIds /\ OpenInv(txn[d])')
  <2>1. CASE d = c
    BY <1>0, <2>1
  <2>2. CASE d # c /\ txn[d] # NoTxn
    <3>1. txn'[d] = txn[d]
      BY <1>0, <2>2
    <3>2. txn[d].id \in TxnIds /\ OpenInv(txn[d])
      BY <2>2 DEF CommitInv, TxnInv
    <3>3. OpenInv(txn[d])'
      BY <1>0, <3>1, <3>2, OpenSame
    <3>. QED  BY <3>1, <3>2, <3>3
  <2>3. CASE d # c /\ txn[d] = NoTxn
    BY <1>0, <2>3
  <2>. QED  BY <2>1, <2>2, <2>3
<1>. QED  BY <1>0, <1>2 DEF TxnInv

\* No transaction is one of the records a client may hold.
LEMMA NoTxnType == NoTxn \in Txns
<1>1. <<>> \in Seq(Stages)
  OBVIOUS
<1>. QED  BY <1>1 DEF NoTxn, Txns

\* What had landed at begin_transaction is no newer than the snapshot.
LEMMA BeginStep ==
  ASSUME CommitInv, NEW c \in Clients, NEW id \in TxnIds, Begin(c, id)
  PROVE  CommitInv'
<1>. DEFINE t == [id |-> id, snap |-> hlc + 1, begun |-> Len(journal), staged |-> <<>>]
<1>1. /\ txn' = [txn EXCEPT ![c] = t] /\ hlc' = hlc + 1 /\ hlc < MaxTs
      /\ UNCHANGED <<vers, head, journal, lastTs, idem, txnrec, usageRow, usageHead, usage, pipe>>
  BY DEF Begin, storeVars
<1>2. /\ hlc \in Nat /\ lastTs \in Nat /\ lastTs <= hlc /\ MaxTs \in Nat /\ journal \in Seq(Events)
      /\ \A i \in DOMAIN journal : journal[i].ts \in 1 .. lastTs
  BY KernelAssumption DEF CommitInv, RowTypes
<1>3. t \in Txns
  <2>1. <<>> \in Seq(Stages) /\ Len(journal) \in Nat
    BY <1>2
  <2>. QED  BY <1>2, <2>1 DEF Txns
<1>4. t.id = id /\ t.snap = hlc + 1 /\ t.begun = Len(journal) /\ t.staged = <<>> /\ DOMAIN t.staged = {}
  OBVIOUS
<1>. HIDE DEF t
<1>5. PICK u : u = t
  OBVIOUS
<1>6. OpenInv(u)'
  <2>1. u.snap <= hlc' /\ u.begun <= Len(journal') /\ DOMAIN u.staged = {}
    BY <1>1, <1>2, <1>4, <1>5
  <2>2. \A i \in 1 .. u.begun : journal'[i].ts <= u.snap
    BY <1>1, <1>2, <1>4, <1>5
  <2>. QED  BY <2>1, <2>2 DEF OpenInv
<1>7. TxnInv'
  <2>1. u \in Txns /\ u.id \in TxnIds /\ txn' = [txn EXCEPT ![c] = u] /\ hlc' \in Nat /\ hlc <= hlc'
    BY <1>1, <1>2, <1>3, <1>4, <1>5
  <2>. QED  BY <1>1, <1>6, <2>1, OneTxn
<1>8. PipeInv'
  BY <1>1, <1>2, PipeSame
<1>9. hlc' \in lastTs .. MaxTs
  BY <1>1, <1>2
<1>. QED  BY <1>1, <1>7, <1>8, <1>9, Quiet

\* A handle is consumed.
LEMMA EndTxnStep == ASSUME CommitInv, NEW c \in Clients, EndTxn(c) PROVE CommitInv'
<1>1. /\ txn' = [txn EXCEPT ![c] = NoTxn] /\ hlc' = hlc
      /\ UNCHANGED <<vers, head, journal, lastTs, idem, txnrec, usageRow, usageHead, usage, pipe>>
  BY DEF EndTxn, storeVars
<1>2. hlc \in Nat /\ lastTs \in Nat /\ lastTs <= hlc /\ MaxTs \in Nat /\ hlc <= MaxTs
  BY KernelAssumption DEF CommitInv, RowTypes
<1>3. TxnInv'
  <2>1. PICK u \in Txns : u = NoTxn
    BY NoTxnType
  <2>2. txn' = [txn EXCEPT ![c] = u] /\ journal' = journal /\ hlc' \in Nat /\ hlc <= hlc'
    BY <1>1, <1>2, <2>1
  <2>. QED  BY <2>1, <2>2, OneTxn
<1>4. PipeInv'
  BY <1>1, <1>2, PipeSame
<1>. QED  BY <1>1, <1>2, <1>3, <1>4, Quiet

\* A version read at a timestamp counts no version that is newer.
LEMMA PinnedAtMost ==
  ASSUME CommitInv, NEW k \in Koids, NEW ts \in Nat
  PROVE  VersionAt(k, ts) \in Nat /\ VersionAt(k, ts) <= Cardinality(UpTo(journal, k, ts))
<1>. DEFINE L == Since(journal, k)
            U == UpTo(journal, k, ts)
            S == {r \in vers[k] : r.ts <= ts}
<1>1. journal \in Seq(Events) /\ \A i \in DOMAIN journal : journal[i].ts \in Nat
  BY DEF CommitInv, RowTypes
<1>2. /\ \A i \in L : journal[i].v = Cardinality({j \in L : j <= i})
      /\ vers[k] = {[v |-> journal[i].v, ts |-> journal[i].ts] : i \in L}
  BY HistoryIs DEF CommitInv, Tells
<1>3. /\ L \subseteq 1 .. Len(journal) /\ U \in SUBSET L /\ Len(journal) \in Nat
      /\ DOMAIN journal = 1 .. Len(journal)
  BY <1>1, SinceFinite DEF UpTo
<1>4. IsFiniteSet(U) /\ Cardinality(U) \in Nat
  BY <1>1, <1>3, SinceFinite
<1>5. CASE S = {}
  BY <1>4, <1>5 DEF VersionAt
<1>6. CASE S # {}
  <2>1. \A r \in S : r.ts \in Nat /\ r.ts <= ts
    BY <1>1, <1>2, <1>3
  <2>2. PICK r \in S : \A q \in S : q.ts <= r.ts
    <3>. DEFINE T == {ts - r.ts : r \in S}
    <3>1. T \in SUBSET Nat /\ T # {}
      BY <1>6, <2>1
    <3>. HIDE DEF T
    <3>2. PICK x \in T : \A y \in T : ~ (y < x)
      BY <3>1, Least
    <3>3. PICK r \in S : x = ts - r.ts
      BY DEF T
    <3>4. \A q \in S : ts - q.ts \in T
      BY DEF T
    <3>5. ASSUME NEW q \in S PROVE q.ts <= r.ts
      <4>1. ~ (ts - q.ts < ts - r.ts) /\ q.ts \in Nat /\ r.ts \in Nat
        BY <2>1, <3>2, <3>3, <3>4
      <4>. QED  BY <4>1
    <3>. QED  BY <3>5
  <2>. DEFINE m == CHOOSE z \in S : \A q \in S : q.ts <= z.ts
  <2>3. m \in S
    BY <2>2
  <2>4. VersionAt(k, ts) = m.v
    BY <1>6 DEF VersionAt
  <2>. HIDE DEF m
  <2>5. PICK i \in L : m = [v |-> journal[i].v, ts |-> journal[i].ts]
    BY <1>2, <2>3
  <2>. DEFINE B == {j \in L : j <= i}
  <2>6. B \in SUBSET U
    <3>1. journal[i].ts <= ts
      BY <2>1, <2>3, <2>5
    <3>2. ASSUME NEW j \in L, j <= i PROVE journal[j].ts <= ts
      <4>1. CASE j = i
        BY <3>1, <4>1
      <4>2. CASE j < i
        <5>1. journal[j].ts <= journal[i].ts
          BY <1>1, <1>3, <4>2 DEF CommitInv, TimeOrder
        <5>. QED  BY <1>1, <1>3, <3>1, <5>1
      <4>. QED  BY <1>3, <3>2, <4>1, <4>2
    <3>. QED  BY <3>2 DEF UpTo
  <2>7. Cardinality(B) \in Nat /\ Cardinality(B) <= Cardinality(U)
    <3>. HIDE DEF B, U
    <3>. QED  BY <1>4, <2>6, FS_Subset, FS_CardinalityType
  <2>8. VersionAt(k, ts) = Cardinality(B)
    BY <1>2, <2>4, <2>5
  <2>. QED  BY <2>7, <2>8
<1>. QED  BY <1>5, <1>6

\* stage pins a version of the snapshot.
LEMMA StageStep ==
  ASSUME CommitInv, NEW c \in Clients, NEW k \in Koids, Stage(c, k)
  PROVE  CommitInv'
<1>. DEFINE s == [koid |-> k, exp |-> VersionAt(k, txn[c].snap)]
            t == [txn[c] EXCEPT !.staged = Append(@, s)]
<1>0. txn \in [Clients -> Txns] /\ txn[c] \in Txns /\ txn[c] # NoTxn /\ txn[c].id \in TxnIds /\ OpenInv(txn[c])
  BY DEF CommitInv, TxnInv, Stage
<1>1. /\ txn' = [txn EXCEPT ![c].staged = Append(@, s)] /\ hlc' = hlc
      /\ UNCHANGED <<vers, head, journal, lastTs, idem, txnrec, usageRow, usageHead, usage, pipe>>
  BY DEF Stage, storeVars, PinnedVersion
<1>2. txn' = [txn EXCEPT ![c] = t]
  BY <1>1
<1>3. hlc \in Nat /\ lastTs \in Nat /\ lastTs <= hlc /\ MaxTs \in Nat /\ hlc <= MaxTs
  BY KernelAssumption DEF CommitInv, RowTypes
<1>4. txn[c].snap \in Nat /\ txn[c].begun \in Nat /\ txn[c].staged \in Seq(Stages)
  BY <1>0 DEF Txns
<1>5. s \in Stages /\ s.koid = k /\ s.exp <= Cardinality(UpTo(journal, k, txn[c].snap))
  <2>1. VersionAt(k, txn[c].snap) \in Nat /\ VersionAt(k, txn[c].snap) <= Cardinality(UpTo(journal, k, txn[c].snap))
    BY <1>4, PinnedAtMost
  <2>. QED  BY <2>1 DEF Stages
<1>. HIDE DEF s
<1>6. /\ t \in Txns /\ t.id = txn[c].id /\ t.snap = txn[c].snap /\ t.begun = txn[c].begun
      /\ t.staged = Append(txn[c].staged, s)
  <2>1. Append(txn[c].staged, s) \in Seq(Stages)
    BY <1>4, <1>5
  <2>. QED  BY <1>0, <2>1 DEF Txns
<1>. HIDE DEF t
<1>7. OpenInv(t)
  <2>1. ASSUME NEW i \in DOMAIN t.staged PROVE StagedInv(t, t.staged[i])
    <3>1. CASE i = Len(txn[c].staged) + 1
      <4>1. t.staged[i] = s
        BY <1>4, <1>5, <1>6, <3>1
      <4>. QED  BY <1>5, <1>6, <4>1 DEF StagedInv
    <3>2. CASE i # Len(txn[c].staged) + 1
      <4>1. i \in DOMAIN txn[c].staged /\ t.staged[i] = txn[c].staged[i]
        BY <1>4, <1>5, <1>6, <3>2
      <4>2. StagedInv(txn[c], txn[c].staged[i])
        BY <1>0, <4>1 DEF OpenInv
      <4>. QED  BY <1>6, <4>1, <4>2 DEF StagedInv
    <3>. QED  BY <3>1, <3>2
  <2>. QED  BY <1>0, <1>6, <2>1 DEF OpenInv
<1>8. TxnInv'
  <2>1. PICK u : u = t
    OBVIOUS
  <2>2. u \in Txns /\ u.id \in TxnIds /\ txn' = [txn EXCEPT ![c] = u]
    BY <1>0, <1>2, <1>6, <2>1
  <2>3. journal' = journal /\ hlc' \in Nat /\ hlc <= hlc'
    BY <1>1, <1>3
  <2>4. OpenInv(u)'
    BY <1>7, <2>1, <2>2, <2>3, OpenSame
  <2>. QED  BY <2>2, <2>3, <2>4, OneTxn
<1>9. PipeInv'
  BY <1>1, <1>3, PipeSame
<1>. QED  BY <1>1, <1>3, <1>8, <1>9, Quiet

\* The first committer wins: when no staged version has moved, nothing newer than the snapshot is
\* written over, unless its object was erased since the transaction began.
LEMMA StagedCurrent ==
  ASSUME CommitInv, NEW t \in Txns, OpenInv(t), NEW i \in DOMAIN t.staged,
         t.staged[i].exp = head[t.staged[i].koid].v,
         NEW j \in DOMAIN journal, journal[j].koid = t.staged[i].koid, journal[j].ts > t.snap
  PROVE  ErasedSince(t.staged[i].koid, t.begun)
<1>. DEFINE k == t.staged[i].koid
            L == Since(journal, k)
            U == UpTo(journal, k, t.snap)
<1>. SUFFICES ASSUME ~ ErasedSince(k, t.begun) PROVE FALSE
  OBVIOUS
<1>0. journal[j].ts \in Nat
  BY DEF CommitInv, RowTypes
<1>1. /\ journal \in Seq(Events) /\ t.staged[i] \in Stages /\ k \in Koids /\ t.snap \in Nat /\ t.begun \in Nat
      /\ j \in 1 .. Len(journal) /\ Len(journal) \in Nat
  <2>1. journal \in Seq(Events) /\ t.staged \in Seq(Stages) /\ t.snap \in Nat /\ t.begun \in Nat
    BY DEF CommitInv, RowTypes, Txns
  <2>2. t.staged[i] \in Stages /\ j \in 1 .. Len(journal) /\ Len(journal) \in Nat
    BY <2>1
  <2>. QED  BY <2>1, <2>2 DEF Stages
<1>2. t.staged[i].exp <= Cardinality(U) /\ t.staged[i].exp \in Nat
  BY <1>1 DEF OpenInv, StagedInv, Stages
<1>3. head[k].v = Cardinality(L)
  BY <1>1, HistoryIs DEF CommitInv, Tells
<1>4. U \in SUBSET L
  BY DEF UpTo
<1>5. /\ Cardinality(U) \in Nat /\ Cardinality(L) \in Nat /\ Cardinality(U) <= Cardinality(L)
      /\ Cardinality(U) = Cardinality(L) => U = L
  <2>1. Cardinality(L) \in 0 .. Len(journal)
    BY <1>1, SinceFinite
  <2>. HIDE DEF U
  <2>. QED  BY <1>1, <1>4, <2>1, SinceFinite
<1>6. U = L
  BY <1>2, <1>3, <1>5
<1>7. j > t.begun
  BY <1>0, <1>1 DEF OpenInv
<1>8. j \in L
  BY <1>1, <1>7 DEF Since, ErasedSince
<1>9. journal[j].ts <= t.snap
  BY <1>6, <1>8 DEF UpTo
<1>. QED  BY <1>0, <1>1, <1>9

\* A transaction takes the pipe lock.
LEMMA CommitStep == ASSUME CommitInv, NEW c \in Clients, Commit(c) PROVE CommitInv'
<1>. DEFINE t == txn[c]
            st(i) == IF Exists(t.staged[i].koid) THEN head[t.staged[i].koid].state ELSE "Draft"
            writes == [i \in DOMAIN t.staged |-> Write(t.staged[i].koid, "written", st(i))]
            created == {i \in DOMAIN t.staged : ~Exists(t.staged[i].koid)}
            b == Batch("txn", writes, t.id, t.snap, t.begun, Body(t), Cardinality(created))
<1>1. t # NoTxn /\ ~txnrec[t.id].found /\ CanCommit(t) /\ Assemble(b) /\ txn' = [txn EXCEPT ![c] = NoTxn]
  BY DEF Commit
<1>2. t \in Txns /\ t.id \in TxnIds /\ OpenInv(t)
  BY <1>1 DEF CommitInv, TxnInv
<1>3. t.snap \in Nat /\ t.begun \in Nat /\ t.staged \in Seq(Stages)
  BY <1>2 DEF Txns
<1>4. /\ b.kind = "txn" /\ b.writes = writes /\ b.by = t.id /\ b.snap = t.snap /\ b.begun = t.begun
      /\ b.body = Body(t) /\ b.delta = Cardinality(created) /\ b.ts = hlc + 1
  BY DEF Batch
<1>5. /\ pipe' = b /\ hlc' = hlc + 1 /\ hlc < MaxTs /\ Len(journal) + Len(b.writes) <= MaxCommits
      /\ UNCHANGED <<vers, head, journal, lastTs, idem, txnrec, usageRow, usageHead, usage>>
  BY <1>1 DEF Assemble, storeVars
<1>. HIDE DEF b
<1>6. hlc \in Nat /\ lastTs \in Nat /\ lastTs <= hlc /\ MaxTs \in Nat
  BY KernelAssumption DEF CommitInv, RowTypes
<1>7. ASSUME NEW i \in DOMAIN t.staged
      PROVE  /\ t.staged[i].koid \in Koids /\ writes[i] \in VersionWrites /\ writes[i].koid = t.staged[i].koid
             /\ writes[i].v = head[t.staged[i].koid].v + 1 /\ writes[i].state \in States
  <2>1. t.staged[i] \in Stages
    BY <1>3
  <2>2. t.staged[i].koid \in Koids
    BY <2>1 DEF Stages
  <2>3. st(i) \in States
    BY <2>2, HeadType DEF Exists, States
  <2>4. writes[i] = Write(t.staged[i].koid, "written", st(i))
    OBVIOUS
  <2>. HIDE DEF st, writes
  <2>. QED  BY <2>2, <2>3, <2>4, WriteType
<1>8. DOMAIN writes = DOMAIN t.staged /\ DOMAIN t.staged = 1 .. Len(t.staged) /\ Len(t.staged) \in Nat
  BY <1>3
<1>9. Cardinality(created) \in Nat
  <2>1. IsFiniteSet(1 .. Len(t.staged))
    <3>1. 1 \in Int /\ Len(t.staged) \in Int
      BY <1>8
    <3>. QED  BY <3>1, FS_Interval, Zenon
  <2>2. created \in SUBSET (1 .. Len(t.staged))
    BY <1>8
  <2>. HIDE DEF created
  <2>. QED  BY <2>1, <2>2, FS_Subset, FS_CardinalityType
<1>10. writes \in Seq(VersionWrites)
  <2>1. writes \in [1 .. Len(t.staged) -> VersionWrites]
    BY <1>7, <1>8
  <2>. QED  BY <1>8, <2>1
<1>11. Len(writes) = 0 => Cardinality(created) = 0
  <2>1. Len(writes) = Len(t.staged)
    BY <1>8
  <2>2. Len(writes) = 0 => created = {}
    BY <1>8, <2>1
  <2>. QED  BY <2>2, FS_EmptySet
<1>. HIDE DEF writes, created
<1>12. Body(t) \in Seq(Koids)
  BY <1>7, <1>8 DEF Body
<1>13. TxnInv'
  <2>1. PICK u \in Txns : u = NoTxn
    BY NoTxnType
  <2>2. txn' = [txn EXCEPT ![c] = u]
    BY <1>1, <2>1
  <2>3. journal' = journal /\ hlc' \in Nat /\ hlc <= hlc'
    BY <1>5, <1>6
  <2>. QED  BY <2>1, <2>2, <2>3, OneTxn
<1>14. PipeInv'
  <2>1. /\ b.kind \in {"remember", "evolve", "forget", "erase", "txn"}
        /\ b.writes \in Seq(VersionWrites) /\ Len(journal) + Len(b.writes) <= MaxCommits
        /\ b.by \in Requests /\ b.snap \in Int /\ b.begun \in Nat
        /\ b.ts \in lastTs + 1 .. hlc' /\ b.delta \in Int /\ (Len(b.writes) = 0 => b.delta = 0)
    BY <1>2, <1>3, <1>4, <1>5, <1>6, <1>9, <1>10, <1>11 DEF Requests
  <2>2. \A i \in DOMAIN b.writes :
           b.writes[i].v = head[b.writes[i].koid].v + 1 /\ b.writes[i].state \in States
    BY <1>4, <1>7, <1>8
  <2>3. \A i, j \in DOMAIN b.writes : i # j => b.writes[i].koid # b.writes[j].koid
    BY <1>1, <1>4, <1>7, <1>8 DEF CanCommit
  <2>4. b.kind = "txn" /\ b.by \in TxnIds /\ ~txnrec[b.by].found /\ b.body \in Seq(Koids)
    BY <1>1, <1>2, <1>4, <1>12
  <2>5. ASSUME NEW i \in DOMAIN b.writes, NEW j \in DOMAIN journal,
               journal[j].koid = b.writes[i].koid, journal[j].ts > b.snap
        PROVE  ErasedSince(b.writes[i].koid, b.begun)
    <3>1. i \in DOMAIN t.staged /\ b.writes[i].koid = t.staged[i].koid
      BY <1>4, <1>7, <1>8
    <3>2. t.staged[i].exp = head[t.staged[i].koid].v
      BY <1>1, <3>1 DEF CanCommit
    <3>. HIDE DEF t
    <3>. QED  BY <1>2, <1>4, <2>5, <3>1, <3>2, StagedCurrent
  <2>6. ASSUME NEW k, NEW n, ErasedSince(k, n) PROVE ErasedSince(k, n)'
    BY <1>5, <2>6 DEF ErasedSince
  <2>7. PICK p : p = b
    OBVIOUS
  <2>8. /\ pipe' = p /\ head' = head /\ journal' = journal /\ lastTs' = lastTs /\ txnrec' = txnrec
    BY <1>5, <2>7
  <2>9. ASSUME NEW i \in DOMAIN p.writes, NEW j \in DOMAIN journal,
               journal[j].koid = p.writes[i].koid, journal[j].ts > p.snap
        PROVE  ErasedSince(p.writes[i].koid, p.begun)'
    BY <2>5, <2>6, <2>7, <2>9
  <2>. QED  BY <2>1, <2>2, <2>3, <2>4, <2>7, <2>8, <2>9 DEF PipeInv
<1>15. hlc' \in lastTs .. MaxTs
  BY <1>5, <1>6
<1>. QED  BY <1>5, <1>13, <1>14, <1>15, Quiet

\* The event of the i-th write of a batch.
EventOf(b, i) ==
    [koid |-> b.writes[i].koid, v |-> b.writes[i].v, kind |-> b.writes[i].kind, ts |-> b.ts,
     by |-> b.by, snap |-> b.snap, begun |-> b.begun]

\* The journal once the batch is in.
LEMMA LandJournal ==
  ASSUME CommitInv, Land
  PROVE  /\ journal \in Seq(Events) /\ journal' \in Seq(Events) /\ Longer(journal, journal')
         /\ Len(journal) \in Nat /\ Len(pipe.writes) \in Nat /\ DOMAIN journal = 1 .. Len(journal)
         /\ DOMAIN pipe.writes = 1 .. Len(pipe.writes) /\ DOMAIN journal' = 1 .. Len(journal')
         /\ Len(journal') = Len(journal) + Len(pipe.writes)
         /\ \A i \in 1 .. Len(journal) : journal'[i] = journal[i]
         /\ \A i \in DOMAIN pipe.writes : journal'[Len(journal) + i] = EventOf(pipe, i)
         /\ \A p \in DOMAIN journal' : p > Len(journal) => p - Len(journal) \in DOMAIN pipe.writes
<1>. DEFINE new == [i \in DOMAIN pipe.writes |-> EventOf(pipe, i)]
<1>1. journal \in Seq(Events) /\ journal' = journal \o new /\ pipe # NoPipe
  BY DEF CommitInv, RowTypes, Land, EventOf
<1>2. /\ pipe.writes \in Seq(VersionWrites) /\ pipe.ts \in Nat /\ pipe.by \in Requests
      /\ pipe.snap \in Int /\ pipe.begun \in Nat
  BY <1>1 DEF CommitInv, PipeInv, RowTypes
<1>3. /\ Len(journal) \in Nat /\ Len(pipe.writes) \in Nat /\ DOMAIN journal = 1 .. Len(journal)
      /\ DOMAIN pipe.writes = 1 .. Len(pipe.writes)
  BY <1>1, <1>2
<1>4. new \in Seq(Events) /\ Len(new) = Len(pipe.writes) /\ \A i \in DOMAIN pipe.writes : new[i] = EventOf(pipe, i)
  <2>1. ASSUME NEW i \in DOMAIN pipe.writes PROVE EventOf(pipe, i) \in Events
    <3>1. pipe.writes[i] \in VersionWrites
      BY <1>2
    <3>. QED  BY <1>2, <3>1 DEF EventOf, Events, VersionWrites
  <2>2. new \in [1 .. Len(pipe.writes) -> Events]
    BY <1>3, <2>1
  <2>. QED  BY <1>3, <2>2
<1>. HIDE DEF new
<1>5. /\ journal' \in Seq(Events) /\ Len(journal') = Len(journal) + Len(pipe.writes)
      /\ \A i \in 1 .. Len(journal) + Len(pipe.writes) :
           journal'[i] = IF i <= Len(journal) THEN journal[i] ELSE new[i - Len(journal)]
  <2>0. journal \in Seq(Events) /\ new \in Seq(Events)
    BY <1>1, <1>4
  <2>1. /\ journal \o new \in Seq(Events) /\ Len(journal \o new) = Len(journal) + Len(new)
        /\ \A i \in 1 .. Len(journal) + Len(new) :
             (journal \o new)[i] = IF i <= Len(journal) THEN journal[i] ELSE new[i - Len(journal)]
    BY <2>0, ConcatProperties, Zenon
  <2>. QED  BY <1>1, <1>4, <2>1, Zenon
<1>6. DOMAIN journal' = 1 .. Len(journal')
  BY <1>5
<1>7. \A i \in 1 .. Len(journal) : journal'[i] = journal[i]
  BY <1>3, <1>5
<1>8. ASSUME NEW i \in DOMAIN pipe.writes PROVE journal'[Len(journal) + i] = EventOf(pipe, i)
  <2>1. /\ Len(journal) + i \in 1 .. Len(journal) + Len(pipe.writes) /\ ~ (Len(journal) + i <= Len(journal))
        /\ (Len(journal) + i) - Len(journal) = i
    BY <1>3
  <2>. QED  BY <1>4, <1>5, <2>1
<1>9. \A p \in DOMAIN journal' : p > Len(journal) => p - Len(journal) \in DOMAIN pipe.writes
  BY <1>3, <1>5, <1>6
<1>10. Longer(journal, journal')
  BY <1>3, <1>5, <1>7 DEF Longer
<1>. QED  BY <1>1, <1>3, <1>5, <1>6, <1>7, <1>8, <1>9, <1>10

\* Its fields.
LEMMA EventFields ==
  ASSUME NEW b, NEW i
  PROVE  /\ EventOf(b, i).koid = b.writes[i].koid /\ EventOf(b, i).v = b.writes[i].v
         /\ EventOf(b, i).kind = b.writes[i].kind /\ EventOf(b, i).ts = b.ts /\ EventOf(b, i).by = b.by
         /\ EventOf(b, i).snap = b.snap /\ EventOf(b, i).begun = b.begun
BY DEF EventOf

\* Where an object is in a batch that lands: nowhere, or once.
LEMMA LandOnce ==
  ASSUME CommitInv, Land, NEW k \in Koids
  PROVE  \/ \A p \in DOMAIN journal' : p > Len(journal) => journal'[p].koid # k
         \/ \E i \in DOMAIN pipe.writes :
              /\ pipe.writes[i].koid = k
              /\ Len(journal) + i \in DOMAIN journal' /\ Len(journal) + i > Len(journal)
              /\ journal'[Len(journal) + i] = EventOf(pipe, i)
              /\ \A p \in DOMAIN journal' : p > Len(journal) /\ p # Len(journal) + i => journal'[p].koid # k
              /\ \A j \in DOMAIN pipe.writes : pipe.writes[j].koid = k => j = i
<1>0. /\ Len(journal) \in Nat /\ Len(pipe.writes) \in Nat /\ DOMAIN pipe.writes = 1 .. Len(pipe.writes)
      /\ DOMAIN journal' = 1 .. Len(journal') /\ Len(journal') = Len(journal) + Len(pipe.writes)
      /\ \A i \in DOMAIN pipe.writes : journal'[Len(journal) + i] = EventOf(pipe, i)
      /\ \A p \in DOMAIN journal' : p > Len(journal) => p - Len(journal) \in DOMAIN pipe.writes
  BY LandJournal, Zenon
<1>1. \A p \in DOMAIN journal' : p > Len(journal) =>
         p - Len(journal) \in DOMAIN pipe.writes /\ journal'[p].koid = pipe.writes[p - Len(journal)].koid
  <2>1. ASSUME NEW p \in DOMAIN journal', p > Len(journal)
        PROVE  p - Len(journal) \in DOMAIN pipe.writes /\ journal'[p].koid = pipe.writes[p - Len(journal)].koid
    <3>1. p - Len(journal) \in DOMAIN pipe.writes /\ p = Len(journal) + (p - Len(journal))
      BY <1>0, <2>1
    <3>2. journal'[p] = EventOf(pipe, p - Len(journal))
      BY <1>0, <3>1
    <3>. QED  BY <3>1, <3>2, EventFields
  <2>. QED  BY <2>1
<1>2. CASE \A j \in DOMAIN pipe.writes : pipe.writes[j].koid # k
  BY <1>1, <1>2
<1>3. CASE \E j \in DOMAIN pipe.writes : pipe.writes[j].koid = k
  <2>1. PICK i \in DOMAIN pipe.writes : pipe.writes[i].koid = k
    BY <1>3
  <2>2. \A j \in DOMAIN pipe.writes : pipe.writes[j].koid = k => j = i
    BY <2>1 DEF CommitInv, PipeInv, Land
  <2>3. /\ Len(journal) + i \in DOMAIN journal' /\ Len(journal) + i > Len(journal)
        /\ journal'[Len(journal) + i] = EventOf(pipe, i)
    BY <1>0
  <2>4. ASSUME NEW p \in DOMAIN journal', p > Len(journal), p # Len(journal) + i, journal'[p].koid = k PROVE FALSE
    <3>1. p - Len(journal) \in DOMAIN pipe.writes /\ pipe.writes[p - Len(journal)].koid = k
      BY <1>1, <2>4
    <3>2. p - Len(journal) = i
      BY <2>2, <3>1
    <3>. QED  BY <1>0, <2>4, <3>2
  <2>. QED  BY <2>1, <2>2, <2>3, <2>4
<1>. QED  BY <1>2, <1>3

\* What becomes of an object's events since its last erase.
LEMMA LandSince ==
  ASSUME CommitInv, Land, NEW k \in Koids
  PROVE  \/ /\ \A j \in DOMAIN pipe.writes : pipe.writes[j].koid # k
            /\ Since(journal', k) = Since(journal, k)
         \/ \E i \in DOMAIN pipe.writes :
              /\ pipe.writes[i].koid = k /\ \A j \in DOMAIN pipe.writes : pipe.writes[j].koid = k => j = i
              /\ Len(journal) + i \in DOMAIN journal' /\ Len(journal) + i > Len(journal)
              /\ journal'[Len(journal) + i] = EventOf(pipe, i)
              /\ \/ /\ pipe.writes[i].kind = "written"
                    /\ Since(journal', k) = Since(journal, k) \cup {Len(journal) + i}
                 \/ /\ pipe.writes[i].kind = "erased"
                    /\ Since(journal', k) = {}
<1>0. /\ Len(journal) \in Nat /\ Len(pipe.writes) \in Nat /\ DOMAIN pipe.writes = 1 .. Len(pipe.writes)
      /\ DOMAIN journal' = 1 .. Len(journal') /\ Len(journal') = Len(journal) + Len(pipe.writes)
      /\ \A i \in DOMAIN pipe.writes : journal'[Len(journal) + i] = EventOf(pipe, i)
      /\ \A p \in DOMAIN journal' : p > Len(journal) => p - Len(journal) \in DOMAIN pipe.writes
  BY LandJournal, Zenon
<1>1. CASE \A p \in DOMAIN journal' : p > Len(journal) => journal'[p].koid # k
  <2>1. \A j \in DOMAIN pipe.writes : pipe.writes[j].koid # k
    <3>1. ASSUME NEW j \in DOMAIN pipe.writes PROVE pipe.writes[j].koid # k
      <4>1. Len(journal) + j \in DOMAIN journal' /\ Len(journal) + j > Len(journal)
        BY <1>0
      <4>2. journal'[Len(journal) + j].koid = pipe.writes[j].koid
        BY <1>0, EventFields
      <4>. QED  BY <1>1, <4>1, <4>2
    <3>. QED  BY <3>1
  <2>2. Since(journal', k) = Since(journal, k)
    BY <1>1, LandJournal, SinceSame
  <2>. QED  BY <2>1, <2>2
<1>2. ASSUME NEW i \in DOMAIN pipe.writes,
             /\ pipe.writes[i].koid = k
             /\ Len(journal) + i \in DOMAIN journal' /\ Len(journal) + i > Len(journal)
             /\ journal'[Len(journal) + i] = EventOf(pipe, i)
             /\ \A p \in DOMAIN journal' : p > Len(journal) /\ p # Len(journal) + i => journal'[p].koid # k
      PROVE  \/ /\ pipe.writes[i].kind = "written"
                /\ Since(journal', k) = Since(journal, k) \cup {Len(journal) + i}
             \/ /\ pipe.writes[i].kind = "erased"
                /\ Since(journal', k) = {}
  <2>1. pipe.writes[i].kind \in {"written", "erased"}
    <3>1. pipe.writes \in Seq(VersionWrites)
      BY DEF CommitInv, PipeInv, Land
    <3>2. pipe.writes[i] \in VersionWrites
      BY <3>1
    <3>. QED  BY <3>2 DEF VersionWrites
  <2>2. PICK p \in DOMAIN journal' : p = Len(journal) + i
    BY <1>2
  <2>3. Lone(journal, journal', k, p) /\ journal'[p].kind = pipe.writes[i].kind
    <3>1. p > Len(journal) /\ journal'[p] = EventOf(pipe, i) /\ pipe.writes[i].koid = k /\ p \in 1 .. Len(journal')
      BY <1>0, <1>2, <2>2
    <3>2. journal'[p].koid = k /\ journal'[p].kind = pipe.writes[i].kind
      BY <3>1, EventFields
    <3>3. \A q \in 1 .. Len(journal') : q > Len(journal) /\ q # p => journal'[q].koid # k
      BY <1>0, <1>2, <2>2
    <3>. QED  BY <3>1, <3>2, <3>3 DEF Lone
  <2>4. journal \in Seq(Events) /\ journal' \in Seq(Events) /\ Longer(journal, journal')
    BY LandJournal, Zenon
  <2>5. CASE pipe.writes[i].kind = "written"
    BY <2>2, <2>3, <2>4, <2>5, SinceOne
  <2>6. CASE pipe.writes[i].kind = "erased"
    BY <2>2, <2>3, <2>4, <2>6, SinceNone
  <2>. QED  BY <2>1, <2>5, <2>6
<1>. QED  BY <1>1, <1>2, LandOnce

\* What becomes of an object's rows.
LEMMA LandRows ==
  ASSUME Land, NEW k \in Koids
  PROVE  /\ (\A j \in DOMAIN pipe.writes : pipe.writes[j].koid # k) => vers'[k] = vers[k] /\ head'[k] = head[k]
         /\ \A i \in DOMAIN pipe.writes :
              pipe.writes[i].koid = k /\ (\A j \in DOMAIN pipe.writes : pipe.writes[j].koid = k => j = i) =>
                /\ pipe.writes[i].kind = "written" =>
                     /\ vers'[k] = vers[k] \cup {[v |-> pipe.writes[i].v, ts |-> pipe.ts]}
                     /\ head'[k] = [v |-> pipe.writes[i].v, ts |-> pipe.ts, state |-> pipe.writes[i].state]
                /\ pipe.writes[i].kind = "erased" => vers'[k] = {} /\ head'[k] = NoHead
<1>. DEFINE Of(kind) == {i \in DOMAIN pipe.writes : pipe.writes[i].koid = k /\ pipe.writes[i].kind = kind}
            I == {i \in DOMAIN pipe.writes : pipe.writes[i].koid = k}
            w == pipe.writes[CHOOSE i \in I : TRUE]
<1>1. /\ vers'[k] = IF Of("erased") # {} THEN {}
                    ELSE vers[k] \cup {[v |-> pipe.writes[i].v, ts |-> pipe.ts] : i \in Of("written")}
      /\ head'[k] = IF I = {} THEN head[k]
                    ELSE IF w.kind = "erased" THEN NoHead ELSE [v |-> w.v, ts |-> pipe.ts, state |-> w.state]
  BY DEF Land, RowsAfter, HeadAfter
<1>2. CASE \A j \in DOMAIN pipe.writes : pipe.writes[j].koid # k
  <2>1. Of("erased") = {} /\ Of("written") = {} /\ I = {}
    BY <1>2
  <2>. QED  BY <1>1, <1>2, <2>1
<1>3. ASSUME NEW i \in DOMAIN pipe.writes, pipe.writes[i].koid = k,
             \A j \in DOMAIN pipe.writes : pipe.writes[j].koid = k => j = i
      PROVE  /\ pipe.writes[i].kind = "written" =>
                  /\ vers'[k] = vers[k] \cup {[v |-> pipe.writes[i].v, ts |-> pipe.ts]}
                  /\ head'[k] = [v |-> pipe.writes[i].v, ts |-> pipe.ts, state |-> pipe.writes[i].state]
             /\ pipe.writes[i].kind = "erased" => vers'[k] = {} /\ head'[k] = NoHead
  <2>1. I = {i} /\ (CHOOSE j \in I : TRUE) = i
    BY <1>3
  <2>2. w = pipe.writes[i] /\ I # {}
    BY <2>1
  <2>3. CASE pipe.writes[i].kind = "written"
    <3>1. Of("erased") = {} /\ Of("written") = {i}
      BY <1>3, <2>3
    <3>2. {[v |-> pipe.writes[j].v, ts |-> pipe.ts] : j \in Of("written")} = {[v |-> pipe.writes[i].v, ts |-> pipe.ts]}
      BY <3>1
    <3>. HIDE DEF Of, I, w
    <3>. QED  BY <1>1, <2>2, <2>3, <3>1, <3>2
  <2>4. CASE pipe.writes[i].kind = "erased"
    <3>1. Of("erased") # {}
      BY <1>3, <2>4
    <3>. HIDE DEF Of, I, w
    <3>. QED  BY <1>1, <2>2, <2>4, <3>1
  <2>. QED  BY <2>3, <2>4
<1>4. (\A j \in DOMAIN pipe.writes : pipe.writes[j].koid # k) => vers'[k] = vers[k] /\ head'[k] = head[k]
  BY <1>2
<1>. QED  BY <1>3, <1>4, Zenon

\* The journal still tells every object's history.
LEMMA LandHistory == ASSUME CommitInv, Land PROVE JournalTellsHistory'
<1>. SUFFICES ASSUME NEW k \in Koids PROVE Tells(journal', k, vers'[k], head'[k].v)
  <2>1. (\A k \in Koids : Tells(journal, k, vers[k], head[k].v))' => JournalTellsHistory'
    BY HistoryIs, PTL
  <2>. QED  BY <2>1
<1>. DEFINE L == Since(journal, k)
<1>0. /\ journal \in Seq(Events) /\ Len(journal) \in Nat /\ L \subseteq 1 .. Len(journal)
      /\ \A i \in L : journal'[i] = journal[i]
  BY LandJournal, SinceFinite
<1>1. /\ \A i \in L : journal[i].v = Cardinality({j \in L : j <= i})
      /\ vers[k] = {[v |-> journal[i].v, ts |-> journal[i].ts] : i \in L}
      /\ head[k].v = Cardinality(L)
  BY HistoryIs DEF CommitInv, Tells
<1>2. IsFiniteSet(L) /\ Cardinality(L) \in Nat
  BY <1>0, SinceFinite
<1>3. CASE Since(journal', k) = L /\ \A j \in DOMAIN pipe.writes : pipe.writes[j].koid # k
  <2>1. vers'[k] = vers[k] /\ head'[k] = head[k]
    BY <1>3, LandRows
  <2>2. vers'[k] = {[v |-> journal'[i].v, ts |-> journal'[i].ts] : i \in L}
    BY <1>0, <1>1, <2>1
  <2>. HIDE DEF L
  <2>. QED  BY <1>0, <1>1, <1>3, <2>1, <2>2 DEF Tells
<1>4. ASSUME NEW i \in DOMAIN pipe.writes, pipe.writes[i].koid = k,
             \A j \in DOMAIN pipe.writes : pipe.writes[j].koid = k => j = i,
             Len(journal) + i > Len(journal), journal'[Len(journal) + i] = EventOf(pipe, i)
      PROVE  /\ pipe.writes[i].kind = "written" /\ Since(journal', k) = L \cup {Len(journal) + i}
                => Tells(journal', k, vers'[k], head'[k].v)
             /\ pipe.writes[i].kind = "erased" /\ Since(journal', k) = {}
                => Tells(journal', k, vers'[k], head'[k].v)
  <2>1. CASE pipe.writes[i].kind = "written" /\ Since(journal', k) = L \cup {Len(journal) + i}
    <3>1. PICK p : p = Len(journal) + i
      OBVIOUS
    <3>. DEFINE M == L \cup {p}
    <3>2. p \notin L /\ p \in Int /\ (\A j \in L : j < p /\ j \in Int)
      <4>1. DOMAIN pipe.writes = 1 .. Len(pipe.writes)
        BY LandJournal
      <4>. QED  BY <1>0, <1>4, <3>1, <4>1
    <3>3. Cardinality(M) = Cardinality(L) + 1
      BY <1>2, <3>2, FS_AddElement
    <3>4. /\ vers'[k] = vers[k] \cup {[v |-> pipe.writes[i].v, ts |-> pipe.ts]}
          /\ head'[k] = [v |-> pipe.writes[i].v, ts |-> pipe.ts, state |-> pipe.writes[i].state]
      BY <1>4, <2>1, LandRows
    <3>5. pipe.writes[i].v = Cardinality(L) + 1
      BY <1>1, <1>4, <2>1 DEF Land, CommitInv, PipeInv
    <3>6. journal'[p].v = pipe.writes[i].v /\ journal'[p].ts = pipe.ts
      BY <1>4, <3>1, EventFields
    <3>7. vers'[k] = {[v |-> journal'[j].v, ts |-> journal'[j].ts] : j \in M}
      BY <1>0, <1>1, <3>4, <3>6
    <3>8. ASSUME NEW j \in M PROVE journal'[j].v = Cardinality({q \in M : q <= j})
      <4>1. CASE j = p
        <5>1. {q \in M : q <= j} = M
          <6>1. \A q \in M : q <= j
            BY <3>2, <4>1
          <6>. HIDE DEF M
          <6>. QED  BY <6>1
        <5>. QED  BY <3>3, <3>5, <3>6, <4>1, <5>1
      <4>2. CASE j \in L
        <5>1. {q \in M : q <= j} = {q \in L : q <= j}
          BY <3>2, <4>2
        <5>. QED  BY <1>0, <1>1, <4>2, <5>1
      <4>. QED  BY <4>1, <4>2
    <3>9. head'[k].v = Cardinality(M)
      BY <3>3, <3>4, <3>5
    <3>10. Since(journal', k) = M
      BY <2>1, <3>1
    <3>. HIDE DEF M
    <3>. QED  BY <3>7, <3>8, <3>9, <3>10 DEF Tells
  <2>2. CASE pipe.writes[i].kind = "erased" /\ Since(journal', k) = {}
    <3>1. vers'[k] = {} /\ head'[k].v = 0
      <4>1. vers'[k] = {} /\ head'[k] = NoHead
        BY <1>4, <2>2, LandRows
      <4>. QED  BY <4>1 DEF NoHead
    <3>. QED  BY <2>2, <3>1, FS_EmptySet DEF Tells
  <2>. QED  BY <2>1, <2>2
<1>. QED  BY <1>3, <1>4, LandSince

\* The rows and the count.
LEMMA LandTypes == ASSUME CommitInv, Land PROVE RowTypes'
<1>0. /\ journal \in Seq(Events) /\ journal' \in Seq(Events) /\ Len(journal) \in Nat /\ Len(pipe.writes) \in Nat
      /\ Len(journal') = Len(journal) + Len(pipe.writes) /\ DOMAIN journal = 1 .. Len(journal)
      /\ DOMAIN journal' = 1 .. Len(journal') /\ DOMAIN pipe.writes = 1 .. Len(pipe.writes)
      /\ \A i \in 1 .. Len(journal) : journal'[i] = journal[i]
      /\ \A i \in DOMAIN pipe.writes : journal'[Len(journal) + i] = EventOf(pipe, i)
      /\ \A p \in DOMAIN journal' : p > Len(journal) => p - Len(journal) \in DOMAIN pipe.writes
  BY LandJournal, Zenon
<1>1. /\ pipe.writes \in Seq(VersionWrites) /\ Len(journal) + Len(pipe.writes) <= MaxCommits
      /\ pipe.ts \in lastTs + 1 .. hlc /\ pipe.delta \in Int /\ (Len(pipe.writes) = 0 => pipe.delta = 0)
      /\ pipe.kind # "txn" => Len(pipe.writes) = 1 /\ pipe.by \in IdemKeys \cup {NoId}
      /\ pipe.kind = "txn" => pipe.by \in TxnIds /\ pipe.body \in Seq(Koids)
      /\ \A i \in DOMAIN pipe.writes :
             pipe.writes[i].kind = "written" =>
                 pipe.writes[i].v = head[pipe.writes[i].koid].v + 1 /\ pipe.writes[i].state \in States
  BY DEF Land, CommitInv, PipeInv
<1>2. /\ lastTs \in Nat /\ hlc \in Nat /\ hlc <= MaxTs
      /\ head \in [Koids -> [v : Nat, ts : Nat, state : States \cup {"none"}]]
      /\ \A k \in Koids : head[k].v = 0 <=> head[k].state = "none"
      /\ idem \in [IdemKeys -> [koid : Koids \cup {NoId}, v : Nat]]
      /\ txnrec \in [TxnIds -> [body : Seq(Koids), found : BOOLEAN]]
      /\ usage \in Nat /\ usageRow = usage /\ (Len(journal) = 0 => usage = 0)
      /\ \A i \in DOMAIN journal : journal[i].ts \in 1 .. lastTs
  BY DEF CommitInv, RowTypes
<1>3. \A i \in DOMAIN pipe.writes : pipe.writes[i] \in VersionWrites
  BY <1>1
<1>4. lastTs' = pipe.ts /\ hlc' = hlc /\ usageHead' = Len(journal')
  BY DEF Land
<1>5. ASSUME NEW k \in Koids
      PROVE  /\ head'[k] \in [v : Nat, ts : Nat, state : States \cup {"none"}]
             /\ head'[k].v = 0 <=> head'[k].state = "none"
  <2>1. CASE \A j \in DOMAIN pipe.writes : pipe.writes[j].koid # k
    <3>1. head'[k] = head[k]
      BY <2>1, LandRows
    <3>. QED  BY <1>2, <3>1
  <2>2. ASSUME NEW i \in DOMAIN pipe.writes, pipe.writes[i].koid = k,
               \A j \in DOMAIN pipe.writes : pipe.writes[j].koid = k => j = i
        PROVE  /\ head'[k] \in [v : Nat, ts : Nat, state : States \cup {"none"}]
               /\ head'[k].v = 0 <=> head'[k].state = "none"
    <3>1. pipe.writes[i].kind \in {"written", "erased"} /\ pipe.writes[i].v \in Nat
      BY <1>3 DEF VersionWrites
    <3>2. CASE pipe.writes[i].kind = "written"
      <4>1. head'[k] = [v |-> pipe.writes[i].v, ts |-> pipe.ts, state |-> pipe.writes[i].state]
        BY <2>2, <3>2, LandRows
      <4>2. pipe.writes[i].v = head[k].v + 1 /\ head[k].v \in Nat /\ pipe.writes[i].state \in States
        BY <1>1, <1>2, <2>2, <3>2
      <4>3. pipe.ts \in Nat /\ "none" \notin States
        BY <1>1, <1>2 DEF States
      <4>. QED  BY <3>1, <4>1, <4>2, <4>3
    <3>3. CASE pipe.writes[i].kind = "erased"
      <4>1. head'[k] = NoHead
        BY <2>2, <3>3, LandRows
      <4>. QED  BY <4>1 DEF NoHead
    <3>. QED  BY <3>1, <3>2, <3>3
  <2>. QED  BY <2>1, <2>2, LandSince
<1>6. head' \in [Koids -> [v : Nat, ts : Nat, state : States \cup {"none"}]]
  <2>1. head' = [k \in Koids |-> head'[k]]
    BY DEF Land
  <2>. QED  BY <1>5, <2>1
<1>7. idem' \in [IdemKeys -> [koid : Koids \cup {NoId}, v : Nat]]
  <2>1. idem' = IdemAfter(pipe)
    BY DEF Land
  <2>2. CASE pipe.kind = "remember" /\ pipe.by # NoId
    <3>1. 1 \in DOMAIN pipe.writes /\ pipe.by \in IdemKeys
      <4>1. Len(pipe.writes) = 1 /\ pipe.by \in IdemKeys
        BY <1>1, <2>2
      <4>. QED  BY <1>0, <4>1
    <3>2. pipe.writes[1].koid \in Koids /\ pipe.writes[1].v \in Nat
      BY <1>3, <3>1 DEF VersionWrites
    <3>. QED  BY <1>2, <2>1, <2>2, <3>1, <3>2 DEF IdemAfter
  <2>. QED  BY <1>2, <2>1, <2>2 DEF IdemAfter
<1>8. txnrec' \in [TxnIds -> [body : Seq(Koids), found : BOOLEAN]]
  BY <1>1, <1>2 DEF Land, RecordAfter
<1>9. usage' \in Nat /\ usageRow' = usage' /\ (Len(journal') = 0 => usage' = 0)
  <2>1. usage' = CountAfter(pipe) /\ usageRow' = UsageRowAfter(pipe, CountAfter(pipe))
    BY DEF Land
  <2>2. usage' \in Nat /\ (pipe.delta = 0 => usage' = usage)
    BY <1>1, <1>2, <2>1 DEF CountAfter
  <2>3. usageRow' = usage'
    BY <1>2, <2>1, <2>2 DEF UsageRowAfter
  <2>4. Len(journal') = 0 => Len(pipe.writes) = 0 /\ Len(journal) = 0
    BY <1>0
  <2>. QED  BY <1>1, <1>2, <2>2, <2>3, <2>4
<1>10. ASSUME NEW i \in DOMAIN journal' PROVE journal'[i].ts \in 1 .. lastTs'
  <2>1. CASE i <= Len(journal)
    <3>1. journal'[i] = journal[i] /\ journal[i].ts \in 1 .. lastTs
      BY <1>0, <1>2, <2>1
    <3>. QED  BY <1>1, <1>2, <1>4, <3>1
  <2>2. CASE i > Len(journal)
    <3>1. i - Len(journal) \in DOMAIN pipe.writes /\ i = Len(journal) + (i - Len(journal))
      BY <1>0, <2>2
    <3>2. journal'[i].ts = pipe.ts
      BY <1>0, <3>1, EventFields
    <3>. QED  BY <1>1, <1>2, <1>4, <3>2
  <2>. QED  BY <1>0, <2>1, <2>2
<1>11. lastTs' \in Nat /\ hlc' \in Nat /\ lastTs' <= hlc' /\ hlc' <= MaxTs /\ Len(journal') <= MaxCommits
  BY <1>0, <1>1, <1>2, <1>4
<1>. QED  BY <1>0, <1>4, <1>5, <1>6, <1>7, <1>8, <1>9, <1>10, <1>11 DEF RowTypes

\* An event of the journal was there, or is of the batch.
LEMMA LandEvents ==
  ASSUME CommitInv, Land, NEW i \in DOMAIN journal'
  PROVE  \/ i \in DOMAIN journal /\ i <= Len(journal) /\ journal'[i] = journal[i]
         \/ /\ i > Len(journal) /\ i - Len(journal) \in DOMAIN pipe.writes
            /\ journal'[i].koid = pipe.writes[i - Len(journal)].koid
            /\ journal'[i].ts = pipe.ts /\ journal'[i].by = pipe.by
            /\ journal'[i].snap = pipe.snap /\ journal'[i].begun = pipe.begun
<1>0. /\ Len(journal) \in Nat /\ Len(pipe.writes) \in Nat
      /\ Len(journal') = Len(journal) + Len(pipe.writes) /\ DOMAIN journal = 1 .. Len(journal)
      /\ DOMAIN journal' = 1 .. Len(journal') /\ DOMAIN pipe.writes = 1 .. Len(pipe.writes)
      /\ \A j \in 1 .. Len(journal) : journal'[j] = journal[j]
      /\ \A j \in DOMAIN pipe.writes : journal'[Len(journal) + j] = EventOf(pipe, j)
  BY LandJournal, Zenon
<1>1. CASE i <= Len(journal)
  BY <1>0, <1>1
<1>2. CASE i > Len(journal)
  <2>1. i - Len(journal) \in DOMAIN pipe.writes /\ i = Len(journal) + (i - Len(journal))
    BY <1>0, <1>2
  <2>2. journal'[i] = EventOf(pipe, i - Len(journal))
    BY <1>0, <2>1
  <2>. QED  BY <1>2, <2>1, <2>2, EventFields
<1>. QED  BY <1>0, <1>1, <1>2

\* The outcome of a key or a transaction id is recorded with its events, once.
LEMMA LandRecords ==
  ASSUME CommitInv, Land
  PROVE  /\ \A x \in IdemKeys : /\ idem[x] # NoOutcome => idem'[x] # NoOutcome
                                /\ x = pipe.by => idem'[x] # NoOutcome /\ idem[x] = NoOutcome
         /\ \A x \in TxnIds : /\ txnrec[x].found => txnrec'[x].found
                              /\ x = pipe.by => txnrec'[x].found /\ ~txnrec[x].found
         /\ pipe.by \in IdemKeys \cup TxnIds \cup {NoId}
<1>1. /\ pipe.writes \in Seq(VersionWrites)
      /\ pipe.kind # "txn" => Len(pipe.writes) = 1 /\ pipe.by \in IdemKeys \cup {NoId}
      /\ pipe.kind \notin {"remember", "txn"} => pipe.by = NoId
      /\ pipe.kind = "txn" => pipe.by \in TxnIds /\ ~txnrec[pipe.by].found
      /\ pipe.kind = "remember" =>
           pipe.writes[1].kind = "written" /\ (pipe.by # NoId => idem[pipe.by] = NoOutcome)
      /\ \A i \in DOMAIN pipe.writes :
             pipe.writes[i].kind = "written" => pipe.writes[i].v = head[pipe.writes[i].koid].v + 1
  BY DEF Land, CommitInv, PipeInv
<1>2. NoId \notin IdemKeys /\ NoId \notin TxnIds /\ \A x \in IdemKeys : x \notin TxnIds
  BY KernelAssumption
<1>3. idem' = IdemAfter(pipe) /\ txnrec' = RecordAfter(pipe)
  BY DEF Land
<1>4. DOMAIN idem = IdemKeys /\ txnrec \in [TxnIds -> [body : Seq(Koids), found : BOOLEAN]]
  BY DEF CommitInv, RowTypes
<1>5. CASE pipe.kind = "txn"
  <2>1. txnrec' = [txnrec EXCEPT ![pipe.by] = [body |-> pipe.body, found |-> TRUE]] /\ idem' = idem
    BY <1>3, <1>5 DEF IdemAfter, RecordAfter
  <2>. QED  BY <1>1, <1>2, <1>4, <1>5, <2>1
<1>6. CASE pipe.kind = "remember" /\ pipe.by # NoId
  <2>1. idem' = [idem EXCEPT ![pipe.by] = [koid |-> pipe.writes[1].koid, v |-> pipe.writes[1].v]] /\ txnrec' = txnrec
    BY <1>3, <1>6 DEF IdemAfter, RecordAfter
  <2>2. 1 \in DOMAIN pipe.writes /\ pipe.by \in IdemKeys /\ pipe.writes[1] \in VersionWrites
    <3>1. Len(pipe.writes) = 1 /\ pipe.by \in IdemKeys
      BY <1>1, <1>6
    <3>. QED  BY <1>1, <3>1
  <2>3. pipe.writes[1].v # 0
    <3>1. pipe.writes[1].koid \in Koids
      BY <2>2 DEF VersionWrites
    <3>2. pipe.writes[1].v = head[pipe.writes[1].koid].v + 1
      BY <1>1, <1>6, <2>2
    <3>. QED  BY <3>1, <3>2, HeadType
  <2>4. [koid |-> pipe.writes[1].koid, v |-> pipe.writes[1].v] # NoOutcome
    BY <2>3 DEF NoOutcome
  <2>. QED  BY <1>1, <1>2, <1>4, <1>6, <2>1, <2>2, <2>4
<1>7. CASE pipe.kind # "txn" /\ ~(pipe.kind = "remember" /\ pipe.by # NoId)
  <2>1. idem' = idem /\ txnrec' = txnrec
    BY <1>3, <1>7 DEF IdemAfter, RecordAfter
  <2>2. pipe.by = NoId
    BY <1>1, <1>7
  <2>. QED  BY <1>2, <2>1, <2>2
<1>. QED  BY <1>5, <1>6, <1>7

\* So no key and no id is applied twice.
LEMMA LandBy == ASSUME CommitInv, Land PROVE (ByInv /\ AppliedOnce)'
<1>1. ByInv /\ AppliedOnce
  BY DEF CommitInv
<1>2. ASSUME NEW i \in DOMAIN journal'
      PROVE  /\ journal'[i].by \in IdemKeys => idem'[journal'[i].by] # NoOutcome
             /\ journal'[i].by \in TxnIds => txnrec'[journal'[i].by].found
  <2>1. CASE i \in DOMAIN journal /\ journal'[i] = journal[i]
    BY <1>1, <2>1, LandRecords DEF ByInv
  <2>2. CASE journal'[i].by = pipe.by
    BY <2>2, LandRecords
  <2>. QED  BY <2>1, <2>2, LandEvents
<1>3. ASSUME NEW i \in DOMAIN journal, journal[i].by = pipe.by PROVE pipe.by = NoId
  BY <1>1, <1>3, LandRecords DEF ByInv
<1>4. ASSUME NEW i \in DOMAIN journal', NEW j \in DOMAIN journal', journal'[i].by = journal'[j].by,
             journal'[i].by # NoId
      PROVE  journal'[i].ts = journal'[j].ts
  <2>1. CASE /\ i \in DOMAIN journal /\ journal'[i] = journal[i]
             /\ j \in DOMAIN journal /\ journal'[j] = journal[j]
    BY <1>1, <1>4, <2>1 DEF AppliedOnce
  <2>2. CASE journal'[i].ts = pipe.ts /\ journal'[j].ts = pipe.ts
    BY <2>2
  <2>3. CASE i \in DOMAIN journal /\ journal'[i] = journal[i] /\ journal'[j].by = pipe.by
    BY <1>3, <1>4, <2>3
  <2>4. CASE j \in DOMAIN journal /\ journal'[j] = journal[j] /\ journal'[i].by = pipe.by
    BY <1>3, <1>4, <2>4
  <2>. QED  BY <2>1, <2>2, <2>3, <2>4, LandEvents
<1>. QED  BY <1>2, <1>4 DEF ByInv, AppliedOnce

\* The batch is newer than what was there, and only a transaction has several events.
LEMMA LandOrder == ASSUME CommitInv, Land PROVE TimeOrder'
<1>0. /\ Len(journal) \in Nat /\ DOMAIN journal' \subseteq Int
      /\ DOMAIN pipe.writes = 1 .. Len(pipe.writes) /\ Len(pipe.writes) \in Nat
  <2>1. /\ Len(journal) \in Nat /\ DOMAIN journal' = 1 .. Len(journal')
        /\ DOMAIN pipe.writes = 1 .. Len(pipe.writes) /\ Len(pipe.writes) \in Nat
    BY LandJournal, Zenon
  <2>. QED  BY <2>1
<1>1. /\ pipe.ts \in lastTs + 1 .. hlc /\ lastTs \in Nat /\ hlc \in Nat
      /\ \A i \in DOMAIN journal : journal[i].ts \in 1 .. lastTs
      /\ pipe.kind # "txn" => Len(pipe.writes) = 1
      /\ pipe.kind = "txn" => pipe.by \in TxnIds
  BY DEF Land, CommitInv, PipeInv, RowTypes
<1>2. ASSUME NEW i \in DOMAIN journal', NEW j \in DOMAIN journal', i < j
      PROVE  \/ journal'[i].ts < journal'[j].ts
             \/ journal'[i].ts = journal'[j].ts /\ journal'[i].by = journal'[j].by /\ journal'[i].by \in TxnIds
  <2>1. CASE /\ i \in DOMAIN journal /\ journal'[i] = journal[i]
             /\ j \in DOMAIN journal /\ journal'[j] = journal[j]
    BY <1>2, <2>1 DEF CommitInv, TimeOrder
  <2>2. CASE i \in DOMAIN journal /\ journal'[i] = journal[i] /\ journal'[j].ts = pipe.ts
    BY <1>1, <2>2
  <2>3. CASE i > Len(journal) /\ j <= Len(journal)
    BY <1>0, <1>2, <2>3
  <2>4. CASE /\ i - Len(journal) \in DOMAIN pipe.writes /\ j - Len(journal) \in DOMAIN pipe.writes
             /\ journal'[i].ts = pipe.ts /\ journal'[j].ts = pipe.ts
             /\ journal'[i].by = pipe.by /\ journal'[j].by = pipe.by
    <3>1. Len(pipe.writes) # 1
      <4>1. i - Len(journal) # j - Len(journal)
        BY <1>0, <1>2
      <4>2. \A x, y \in DOMAIN pipe.writes : Len(pipe.writes) = 1 => x = y
        BY <1>0
      <4>. QED  BY <2>4, <4>1, <4>2
    <3>. QED  BY <1>1, <2>4, <3>1
  <2>. QED  BY <2>1, <2>2, <2>3, <2>4, LandEvents
<1>. QED  BY <1>2 DEF TimeOrder

\* The first committer still wins.
LEMMA LandFirst == ASSUME CommitInv, Land PROVE FirstCommitterWins'
<1>0. /\ Len(journal) \in Nat /\ Len(journal') \in Nat
      /\ DOMAIN journal = 1 .. Len(journal) /\ DOMAIN journal' = 1 .. Len(journal')
      /\ \A i \in 1 .. Len(journal) : journal'[i] = journal[i]
      /\ \A i \in DOMAIN journal : journal[i].begun \in Nat
  <2>1. /\ journal \in Seq(Events) /\ journal' \in Seq(Events) /\ DOMAIN journal = 1 .. Len(journal)
        /\ DOMAIN journal' = 1 .. Len(journal') /\ \A i \in 1 .. Len(journal) : journal'[i] = journal[i]
    BY LandJournal, Zenon
  <2>2. \A i \in DOMAIN journal : journal[i] \in Events
    BY <2>1
  <2>3. Len(journal) \in Nat /\ Len(journal') \in Nat
    BY <2>1
  <2>. QED  BY <2>1, <2>2, <2>3 DEF Events
<1>1. ASSUME NEW i \in DOMAIN journal', journal'[i].snap >= 0, NEW j \in 1 .. i - 1,
             journal'[j].koid = journal'[i].koid, journal'[j].ts > journal'[i].snap
      PROVE  \E e \in journal'[i].begun + 1 .. i - 1 :
                 journal'[e].koid = journal'[i].koid /\ journal'[e].kind = "erased"
  <2>1. CASE i \in DOMAIN journal
    <3>1. journal'[i] = journal[i] /\ j \in DOMAIN journal /\ journal'[j] = journal[j]
      BY <1>0, <2>1
    <3>2. PICK e \in journal[i].begun + 1 .. i - 1 : journal[e].koid = journal[i].koid /\ journal[e].kind = "erased"
      BY <1>1, <2>1, <3>1 DEF CommitInv, FirstCommitterWins
    <3>3. e \in 1 .. Len(journal)
      BY <1>0, <2>1, <3>2
    <3>. QED  BY <1>0, <3>1, <3>2, <3>3
  <2>2. CASE /\ i > Len(journal) /\ i - Len(journal) \in DOMAIN pipe.writes
             /\ journal'[i].koid = pipe.writes[i - Len(journal)].koid
             /\ journal'[i].snap = pipe.snap /\ journal'[i].begun = pipe.begun
    <3>1. pipe # NoPipe /\ PipeInv
      BY DEF Land, CommitInv
    <3>2. pipe.kind = "txn" /\ pipe.begun \in Nat
      BY <1>1, <2>2, <3>1 DEF PipeInv
    <3>3. CASE j \in DOMAIN journal /\ journal'[j] = journal[j]
      <4>1. ErasedSince(pipe.writes[i - Len(journal)].koid, pipe.begun)
        BY <1>1, <2>2, <3>1, <3>2, <3>3 DEF PipeInv
      <4>2. PICK e \in DOMAIN journal : /\ e > pipe.begun /\ journal[e].koid = journal'[i].koid
                                        /\ journal[e].kind = "erased"
        BY <2>2, <4>1 DEF ErasedSince
      <4>3. e \in pipe.begun + 1 .. i - 1 /\ journal'[e] = journal[e]
        BY <1>0, <2>2, <3>2, <4>2
      <4>. QED  BY <2>2, <4>2, <4>3
    <3>4. CASE /\ j - Len(journal) \in DOMAIN pipe.writes
               /\ journal'[j].koid = pipe.writes[j - Len(journal)].koid
      <4>1. j - Len(journal) # i - Len(journal)
        BY <1>0
      <4>. QED  BY <1>1, <2>2, <3>1, <3>4, <4>1 DEF PipeInv
    <3>5. j \in DOMAIN journal'
      BY <1>0
    <3>. QED  BY <3>3, <3>4, <3>5, LandEvents
  <2>. QED  BY <2>1, <2>2, LandEvents
<1>. QED  BY <1>1 DEF FirstCommitterWins

\* A transaction that is open while a batch lands.
LEMMA LandTxn == ASSUME CommitInv, Land PROVE TxnInv'
<1>0. /\ journal \in Seq(Events) /\ journal' \in Seq(Events) /\ Len(journal) \in Nat /\ Len(journal') \in Nat
      /\ Len(journal) <= Len(journal') /\ DOMAIN journal = 1 .. Len(journal) /\ DOMAIN journal' = 1 .. Len(journal')
      /\ \A i \in 1 .. Len(journal) : journal'[i] = journal[i]
  <2>1. /\ journal \in Seq(Events) /\ journal' \in Seq(Events) /\ DOMAIN journal = 1 .. Len(journal)
        /\ DOMAIN journal' = 1 .. Len(journal') /\ \A i \in 1 .. Len(journal) : journal'[i] = journal[i]
        /\ Longer(journal, journal')
    BY LandJournal, Zenon
  <2>2. Len(journal) \in Nat /\ Len(journal') \in Nat
    BY <2>1
  <2>. QED  BY <2>1, <2>2 DEF Longer
<1>1. txn' = txn /\ hlc' = hlc
  BY DEF Land
<1>2. ASSUME NEW t \in Txns, OpenInv(t), NEW s \in Stages, StagedInv(t, s) PROVE StagedInv(t, s)'
  <2>1. t.begun \in Nat /\ t.begun <= Len(journal) /\ s.koid \in Koids /\ s.exp \in Nat
    BY <1>2 DEF Txns, OpenInv, Stages
  <2>2. CASE ErasedSince(s.koid, t.begun)
    <3>1. PICK e \in DOMAIN journal : e > t.begun /\ journal[e].koid = s.koid /\ journal[e].kind = "erased"
      BY <2>2 DEF ErasedSince
    <3>2. e \in DOMAIN journal' /\ journal'[e] = journal[e]
      BY <1>0, <3>1
    <3>. QED  BY <3>1, <3>2 DEF StagedInv, ErasedSince
  <2>3. ASSUME NEW i \in DOMAIN pipe.writes, pipe.writes[i].koid = s.koid, pipe.writes[i].kind = "erased",
               Len(journal) + i \in DOMAIN journal', Len(journal) + i > Len(journal),
               journal'[Len(journal) + i] = EventOf(pipe, i)
        PROVE  StagedInv(t, s)'
    <3>1. PICK e \in DOMAIN journal' : e = Len(journal) + i
      BY <2>3
    <3>2. e > t.begun /\ journal'[e].koid = s.koid /\ journal'[e].kind = "erased"
      <4>1. e > t.begun
        BY <1>0, <2>1, <2>3, <3>1
      <4>. QED  BY <2>3, <3>1, <4>1, EventFields
    <3>. QED  BY <3>1, <3>2 DEF StagedInv, ErasedSince
  <2>4. CASE Since(journal, s.koid) \subseteq Since(journal', s.koid) /\ ~ErasedSince(s.koid, t.begun)
    <3>. DEFINE U == UpTo(journal, s.koid, t.snap)
                V == UpTo(journal', s.koid, t.snap)
    <3>1. U \subseteq V
      <4>1. \A i \in Since(journal, s.koid) : journal'[i] = journal[i]
        BY <1>0 DEF Since
      <4>. QED  BY <2>4, <4>1 DEF UpTo
    <3>2. IsFiniteSet(V) /\ Cardinality(V) \in Nat
      <4>1. V \in SUBSET Since(journal', s.koid)
        BY DEF UpTo
      <4>. HIDE DEF V
      <4>. QED  BY <1>0, <4>1, SinceFinite
    <3>. HIDE DEF U, V
    <3>3. Cardinality(U) \in Nat /\ Cardinality(U) <= Cardinality(V)
      BY <3>1, <3>2, FS_Subset, FS_CardinalityType
    <3>4. s.exp <= Cardinality(U)
      BY <1>2, <2>4 DEF StagedInv, U
    <3>5. s.exp <= Cardinality(V)
      BY <2>1, <3>2, <3>3, <3>4
    <3>. QED  BY <3>5 DEF StagedInv, V
  <2>. QED  BY <2>1, <2>2, <2>3, <2>4, LandSince
<1>3. ASSUME NEW t \in Txns, OpenInv(t) PROVE OpenInv(t)'
  <2>1. t.begun \in Nat /\ t.snap \in Nat /\ t.staged \in Seq(Stages)
    BY DEF Txns
  <2>2. t.snap <= hlc' /\ t.begun <= Len(journal')
    BY <1>0, <1>1, <1>3, <2>1 DEF OpenInv
  <2>3. \A i \in 1 .. t.begun : journal'[i].ts <= t.snap
    BY <1>0, <1>3, <2>1 DEF OpenInv
  <2>4. \A i \in DOMAIN t.staged : t.staged[i] \in Stages /\ StagedInv(t, t.staged[i])
    BY <1>3, <2>1 DEF OpenInv
  <2>5. \A i \in DOMAIN t.staged : StagedInv(t, t.staged[i])'
    BY <1>2, <1>3, <2>4
  <2>. QED  BY <2>2, <2>3, <2>5 DEF OpenInv
<1>4. ASSUME NEW c \in Clients, OpenInv(txn[c]) PROVE OpenInv(txn[c])'
  <2>1. txn[c] \in Txns
    BY DEF CommitInv, TxnInv
  <2>. QED  BY <1>1, <1>3, <1>4, <2>1
<1>. QED  BY <1>1, <1>4, Zenon DEF CommitInv, TxnInv

\* write_batch and what follows it.
LEMMA LandStep == ASSUME CommitInv, Land PROVE CommitInv'
<1>1. PipeInv'
  BY DEF Land, PipeInv
<1>. QED  BY <1>1, LandTypes, LandHistory, LandBy, LandFirst, LandOrder, LandTxn DEF CommitInv

\* write_batch fails.
LEMMA LandFailsStep == ASSUME CommitInv, LandFails PROVE CommitInv'
<1>1. /\ pipe' = NoPipe /\ hlc' = hlc /\ txn' = txn
      /\ UNCHANGED <<vers, head, journal, lastTs, idem, txnrec, usageRow, usageHead, usage>>
  BY DEF LandFails, storeVars
<1>2. hlc \in Nat /\ lastTs \in Nat /\ lastTs <= hlc /\ MaxTs \in Nat /\ hlc <= MaxTs
  BY KernelAssumption DEF CommitInv, RowTypes
<1>3. PipeInv'
  BY <1>1 DEF PipeInv
<1>4. TxnInv'
  BY <1>1, <1>2, TxnSame
<1>5. hlc' \in lastTs .. MaxTs
  BY <1>1, <1>2
<1>. QED  BY <1>1, <1>3, <1>4, <1>5, Quiet

\* A restart finds the count it had, and no transaction and no batch.
LEMMA CrashStep == ASSUME CommitInv, KernelCrash PROVE CommitInv'
<1>1. /\ pipe' = NoPipe /\ hlc' = lastTs /\ txn' = [c \in Clients |-> NoTxn]
      /\ UNCHANGED <<vers, head, journal, lastTs, idem, txnrec, usageRow, usageHead>>
  BY DEF KernelCrash, HlcAtOpen
<1>2. /\ hlc \in Nat /\ lastTs \in Nat /\ lastTs <= hlc /\ MaxTs \in Nat /\ hlc <= MaxTs
      /\ usageHead = Len(journal) /\ usageRow = usage /\ journal \in Seq(Events)
      /\ Len(journal) = 0 => usage = 0
  BY KernelAssumption DEF CommitInv, RowTypes
<1>3. usage' = usage
  <2>1. CASE journal # <<>>
    BY <1>2, <2>1 DEF KernelCrash
  <2>2. CASE journal = <<>>
    <3>1. Len(journal) = 0 /\ DOMAIN journal = {}
      BY <2>2
    <3>2. ASSUME NEW k \in Koids PROVE ~ Exists(k)
      <4>1. Since(journal, k) = {}
        BY <3>1 DEF Since
      <4>2. head[k].v = 0
        BY <4>1, HistoryIs, FS_EmptySet DEF CommitInv, Tells
      <4>. QED  BY <4>2, HeadType DEF Exists
    <3>3. {k \in Koids : Exists(k) /\ head[k].state # "Deleted"} = {}
      BY <3>2
    <3>4. Rebuilt = 0
      BY <3>3, FS_EmptySet DEF Rebuilt
    <3>. QED  BY <1>2, <2>2, <3>1, <3>4 DEF KernelCrash
  <2>. QED  BY <2>1, <2>2
<1>4. PipeInv'
  BY <1>1 DEF PipeInv
<1>5. TxnInv'
  BY <1>1, NoTxnType DEF TxnInv
<1>6. hlc' \in lastTs .. MaxTs
  BY <1>1, <1>2
<1>. QED  BY <1>1, <1>3, <1>4, <1>5, <1>6, Quiet

\* The invariant holds at first, in every step, and says what is promised.
LEMMA CommitInit == KernelInit => CommitInv
<1>. SUFFICES ASSUME KernelInit PROVE CommitInv
  OBVIOUS
<1>0. /\ vers = [k \in Koids |-> {}] /\ head = [k \in Koids |-> NoHead] /\ journal = <<>> /\ lastTs = 0
      /\ idem = [i \in IdemKeys |-> NoOutcome] /\ txnrec = [i \in TxnIds |-> NoRecord]
      /\ usageRow = 0 /\ usageHead = 0 /\ usage = 0 /\ hlc = 0 /\ pipe = NoPipe /\ txn = [c \in Clients |-> NoTxn]
  BY DEF KernelInit
<1>1. journal \in Seq(Events) /\ Len(journal) = 0 /\ DOMAIN journal = {} /\ <<>> \in Seq(Koids)
  BY <1>0
<1>2. RowTypes
  BY <1>0, <1>1, KernelAssumption DEF RowTypes, NoHead, NoOutcome, NoRecord
<1>3. JournalTellsHistory
  <2>1. ASSUME NEW k \in Koids PROVE Tells(journal, k, vers[k], head[k].v)
    <3>1. Since(journal, k) = {}
      BY <1>1 DEF Since
    <3>2. vers[k] = {} /\ head[k].v = 0
      BY <1>0 DEF NoHead
    <3>. QED  BY <3>1, <3>2, FS_EmptySet DEF Tells
  <2>. QED  BY <2>1, HistoryIs
<1>4. ByInv /\ AppliedOnce /\ FirstCommitterWins /\ TimeOrder
  BY <1>1 DEF ByInv, AppliedOnce, FirstCommitterWins, TimeOrder
<1>5. PipeInv /\ TxnInv
  BY <1>0, NoTxnType DEF PipeInv, TxnInv
<1>. QED  BY <1>2, <1>3, <1>4, <1>5 DEF CommitInv

LEMMA CommitNext == CommitInv /\ [KernelNext]_kernelVars => CommitInv'
<1>. SUFFICES ASSUME CommitInv, [KernelNext]_kernelVars PROVE CommitInv'
  OBVIOUS
<1>1. ASSUME NEW k \in Koids, NEW key \in IdemKeys \cup {NoId}, Remember(k, key) PROVE CommitInv'
  BY <1>1, RememberStep
<1>2. ASSUME NEW k \in Koids, Evolve(k) \/ Tombstone(k) \/ Erase(k) PROVE CommitInv'
  BY <1>2, EvolveStep, TombstoneStep, EraseStep
<1>3. ASSUME NEW c \in Clients, NEW id \in TxnIds, Begin(c, id) PROVE CommitInv'
  BY <1>3, BeginStep
<1>4. ASSUME NEW c \in Clients, NEW k \in Koids, Stage(c, k) PROVE CommitInv'
  BY <1>4, StageStep
<1>5. ASSUME NEW c \in Clients, Commit(c) \/ EndTxn(c) PROVE CommitInv'
  BY <1>5, CommitStep, EndTxnStep
<1>6. CASE Land \/ LandFails \/ KernelCrash
  BY <1>6, LandStep, LandFailsStep, CrashStep
<1>7. CASE UNCHANGED kernelVars
  <2>1. /\ UNCHANGED <<vers, head, journal, lastTs, idem, txnrec, usageRow, usageHead, usage, pipe>>
        /\ hlc' = hlc /\ txn' = txn
    BY <1>7 DEF kernelVars
  <2>2. hlc \in Nat /\ lastTs \in Nat /\ lastTs <= hlc /\ MaxTs \in Nat /\ hlc <= MaxTs
    BY KernelAssumption DEF CommitInv, RowTypes
  <2>3. PipeInv'
    BY <2>1, <2>2, PipeSame
  <2>4. TxnInv'
    BY <2>1, <2>2, TxnSame
  <2>. QED  BY <2>1, <2>2, <2>3, <2>4, Quiet
<1>. QED  BY <1>1, <1>2, <1>3, <1>4, <1>5, <1>6, <1>7 DEF KernelNext

LEMMA CommitSafeInv == CommitInv => CommitSafe
<1>. SUFFICES ASSUME CommitInv PROVE CommitSafe
  OBVIOUS
<1>1. ASSUME NEW k \in Koids
      PROVE  /\ vers[k] \subseteq [v : 1 .. MaxCommits, ts : 1 .. MaxTs]
             /\ head[k].v \in 0 .. MaxCommits
             /\ head[k].state \in {"none", "Draft", "Archived", "Deleted"}
  <2>. DEFINE L == Since(journal, k)
  <2>1. /\ journal \in Seq(Events) /\ Len(journal) <= MaxCommits /\ lastTs \in Nat /\ hlc \in Nat
        /\ lastTs <= hlc /\ hlc <= MaxTs /\ \A i \in DOMAIN journal : journal[i].ts \in 1 .. lastTs
        /\ {MaxCommits, MaxTs} \subseteq Nat
    BY KernelAssumption DEF CommitInv, RowTypes
  <2>2. /\ \A i \in L : journal[i].v = Cardinality({j \in L : j <= i})
        /\ vers[k] = {[v |-> journal[i].v, ts |-> journal[i].ts] : i \in L}
        /\ head[k].v = Cardinality(L)
    BY HistoryIs DEF CommitInv, Tells
  <2>3. L \subseteq 1 .. Len(journal) /\ IsFiniteSet(L) /\ Cardinality(L) \in 0 .. Len(journal) /\ Len(journal) \in Nat
    BY <2>1, SinceFinite
  <2>4. ASSUME NEW i \in L PROVE journal[i].v \in 1 .. MaxCommits /\ journal[i].ts \in 1 .. MaxTs
    <3>. DEFINE B == {j \in L : j <= i}
    <3>1. B \in SUBSET L /\ i \in B /\ i \in DOMAIN journal
      BY <2>1, <2>3
    <3>2. journal[i].v = Cardinality(B)
      BY <2>2
    <3>. HIDE DEF B
    <3>3. IsFiniteSet(B) /\ Cardinality(B) \in Nat /\ Cardinality(B) <= Cardinality(L) /\ Cardinality(B) # 0
      BY <2>3, <3>1, FS_Subset, FS_CardinalityType, FS_EmptySet
    <3>4. journal[i].ts \in 1 .. lastTs
      BY <2>1, <3>1
    <3>. QED  BY <2>1, <2>3, <3>2, <3>3, <3>4
  <2>5. vers[k] \subseteq [v : 1 .. MaxCommits, ts : 1 .. MaxTs]
    BY <2>2, <2>4
  <2>6. head[k].v \in 0 .. MaxCommits
    BY <2>1, <2>2, <2>3
  <2>. QED  BY <2>5, <2>6, HeadType DEF States
<1>2. usageRow \in Nat /\ usage \in Nat /\ hlc \in 0 .. MaxTs /\ lastTs \in 0 .. MaxTs
  BY KernelAssumption DEF CommitInv, RowTypes
<1>3. ASSUME NEW c \in Clients PROVE txn[c].id \in TxnIds \cup {NoId} /\ txn[c].snap \in 0 .. MaxTs
  <2>1. txn[c] \in Txns /\ (txn[c] = NoTxn \/ txn[c].snap <= hlc)
    BY DEF CommitInv, TxnInv, OpenInv
  <2>2. hlc \in Nat /\ hlc <= MaxTs /\ MaxTs \in Nat
    BY KernelAssumption DEF CommitInv, RowTypes
  <2>3. txn[c].id \in TxnIds \cup {NoId} /\ txn[c].snap \in Nat
    BY <2>1 DEF Txns
  <2>4. NoTxn.snap = 0
    BY DEF NoTxn
  <2>. QED  BY <2>1, <2>2, <2>3, <2>4
<1>4. KernelTypeOK
  BY <1>1, <1>2, <1>3 DEF KernelTypeOK
<1>5. UsageSurvives
  BY DEF CommitInv, RowTypes, UsageSurvives
<1>. QED  BY <1>4, <1>5 DEF CommitInv, CommitSafe

\* Whatever requests and transactions race, whatever batches fail and whenever the process dies: the
\* journal tells every object's history, a key and a transaction id are applied once, the first
\* committer wins unless the object was erased meanwhile, the journal is in timestamp order across
\* restarts, and a restart finds the usage count (remember_locked, transact_inner, stage, forget,
\* open_with).
THEOREM CommitAlwaysSafe == KernelSpec => []CommitSafe
<1>1. KernelSpec => []CommitInv
  BY CommitInit, CommitNext, PTL DEF KernelSpec
<1>. QED  BY <1>1, CommitSafeInv, PTL

-----------------------------------------------------------------------------
(* KeyRing *)

\* Functions from some tenants: to generations, to wraps.
DekMap == UNION {[D -> {0, 1}] : D \in SUBSET Tenants}
Wrap == [kek : 0 .. MaxKeks, gen : {0, 1}]
WrapMap == UNION {[D -> Wrap] : D \in SUBSET Tenants}
DekRow == [present : BOOLEAN, wraps : WrapMap]

KeyTypes ==
    /\ kms \in 0 .. MaxKeks /\ dekFile \in 0 .. MaxKeks /\ nextFile \in 0 .. MaxKeks \cup {NoKek}
    /\ rows \in [deks : DekRow, prev : DekRow, next : DekRow, prevNext : DekRow]
    /\ env \in [kek : 0 .. MaxKeks, deks : DekMap, prev : DekMap, wraps : WrapMap]
    /\ ring \in {"down", "keyed", "open", "refused"}
    /\ rot \in [step : 0 .. 6, kek : 0 .. MaxKeks]
    /\ wr \in [step : {"idle", "persist", "commit"}, tenant : Tenants \cup {"none"}, gen : {0, 1}]
    /\ wr.step # "idle" => wr.tenant \in Tenants
    /\ sealed \subseteq Tenants \X {0, 1} /\ minted \in 0 .. MaxKeks

\* The rows d and p have the data key of every ciphertext of c.
Covers(d, p, c) ==
    \A x \in c :
        \/ x[1] \in DOMAIN d.wraps /\ d.wraps[x[1]].gen = x[2]
        \/ x[1] \in DOMAIN p.wraps /\ p.wraps[x[1]].gen = x[2]

\* An open under the KEK k accepts the rows d (current data keys) and p (previous ones) and
\* reads the ciphertexts c with them.
Good(d, p, k, c) ==
    /\ UnwrapsAll(d.wraps, k) /\ UnwrapsAll(p.wraps, k) /\ Covers(d, p, c)
    /\ d.wraps # NoWraps /\ (p.present <=> p.wraps # NoWraps)
    /\ DOMAIN p.wraps \subseteq DOMAIN d.wraps

\* The next generation of rows is one that the installed KEK does not open.
NextStale == rows.next.present => ~ UnwrapsAll(rows.next.wraps, kms)

\* What the process holds in memory, against the rows.
MemoryInv ==
    ring = "open" =>
        /\ env.deks # NoWraps /\ env.wraps = WrapAll(env.deks, env.kek)
        /\ env.prev = KeysOf(rows.prev.wraps)
        /\ \A t \in DOMAIN rows.deks.wraps : t \in DOMAIN env.deks /\ env.deks[t] = rows.deks.wraps[t].gen
        /\ rot.step \notin {4, 5} => env.kek = kms
        /\ wr.step # "idle" => wr.tenant \in DOMAIN env.deks /\ env.deks[wr.tenant] = wr.gen
        /\ wr.step = "commit" => wr.tenant \in DOMAIN rows.deks.wraps

\* Where a rotation is.
RotationInv ==
    /\ ring # "open" => rot.step = 0 /\ wr.step = "idle"
    /\ rot.step \in 0 .. 3 => dekFile = kms \/ (ring = "down" /\ nextFile = kms)
    /\ rot.step \in 0 .. 2 /\ ring = "open" => NextStale
    /\ rot.step \in 1 .. 3 => kms < rot.kek /\ rot.kek = minted
    /\ rot.step \in 2 .. 6 => nextFile = rot.kek
    /\ rot.step \in 3 .. 4 => /\ rows.next = Present(WrapAll(env.deks, rot.kek))
                              /\ rows.prevNext = RowOf(WrapAll(env.prev, rot.kek))
    /\ rot.step \in 4 .. 6 => kms = rot.kek
    /\ rot.step \in 5 .. 6 => rows = Promoted(WrapAll(env.deks, kms), WrapAll(env.prev, kms))

KeyInv ==
    /\ KeyTypes /\ ring # "refused" /\ kms <= minted
    /\ Good(ChosenRows.deks, ChosenRows.prev, kms, sealed) /\ MemoryInv /\ RotationInv

\* The instances the theorem is about: only the steps before the KEK is installed may return
\* an error, and some tenant has a data key.
SafeErrors == ErrorSteps \subseteq {2, 3} /\ FirstTenants # {}

-----------------------------------------------------------------------------
(* Maps of data keys and of wraps *)

LEMMA DekMapDef == \A f : f \in DekMap <=> DOMAIN f \subseteq Tenants /\ f \in [DOMAIN f -> {0, 1}]
BY DEF DekMap

LEMMA WrapMapDef == \A w : w \in WrapMap <=> DOMAIN w \subseteq Tenants /\ w \in [DOMAIN w -> Wrap]
BY DEF WrapMap

LEMMA NoWrapsMap == NoWraps \in DekMap /\ NoWraps \in WrapMap /\ DOMAIN NoWraps = {}
BY DekMapDef, WrapMapDef DEF NoWraps

LEMMA EmptyMap == \A f \in DekMap \cup WrapMap : f = NoWraps <=> DOMAIN f = {}
<1>. TAKE f \in DekMap \cup WrapMap
<1>1. f = [t \in DOMAIN f |-> f[t]]
  BY DekMapDef, WrapMapDef
<1>. QED  BY <1>1, NoWrapsMap DEF NoWraps

\* Wrapping keeps the data keys and puts all of them under one KEK.
LEMMA WrapAllMap ==
  ASSUME NEW d \in DekMap, NEW k \in 0 .. MaxKeks
  PROVE  /\ WrapAll(d, k) \in WrapMap /\ DOMAIN WrapAll(d, k) = DOMAIN d
         /\ \A t \in DOMAIN d : WrapAll(d, k)[t].gen = d[t] /\ WrapAll(d, k)[t].kek = k
         /\ UnwrapsAll(WrapAll(d, k), k) /\ KeysOf(WrapAll(d, k)) = d
         /\ WrapAll(d, k) = NoWraps <=> d = NoWraps
<1>1. /\ DOMAIN WrapAll(d, k) = DOMAIN d
      /\ \A t \in DOMAIN d : WrapAll(d, k)[t] = [kek |-> k, gen |-> d[t]]
  BY DEF WrapAll
<1>2. WrapAll(d, k) \in [DOMAIN d -> Wrap]
  BY DekMapDef DEF WrapAll, Wrap
<1>3. WrapAll(d, k) \in WrapMap
  BY <1>1, <1>2, DekMapDef, WrapMapDef
<1>4. KeysOf(WrapAll(d, k)) = d
  BY <1>1, DekMapDef DEF KeysOf
<1>5. UnwrapsAll(WrapAll(d, k), k)
  BY <1>1 DEF UnwrapsAll
<1>6. WrapAll(d, k) = NoWraps <=> d = NoWraps
  BY <1>1, <1>3, EmptyMap
<1>. QED  BY <1>1, <1>3, <1>4, <1>5, <1>6

LEMMA KeysOfMap ==
  ASSUME NEW w \in WrapMap
  PROVE  /\ KeysOf(w) \in DekMap /\ DOMAIN KeysOf(w) = DOMAIN w
         /\ \A t \in DOMAIN w : KeysOf(w)[t] = w[t].gen
         /\ \A k : UnwrapsAll(w, k) => WrapAll(KeysOf(w), k) = w
<1>1. w \in [DOMAIN w -> Wrap] /\ DOMAIN w \subseteq Tenants
  BY WrapMapDef
<1>2. KeysOf(w) \in [DOMAIN w -> {0, 1}]
  BY <1>1 DEF KeysOf, Wrap
<1>3. DOMAIN KeysOf(w) = DOMAIN w /\ \A t \in DOMAIN w : KeysOf(w)[t] = w[t].gen
  BY DEF KeysOf
<1>4. KeysOf(w) \in DekMap
  BY <1>1, <1>2, <1>3, DekMapDef
<1>5. ASSUME NEW k, UnwrapsAll(w, k) PROVE WrapAll(KeysOf(w), k) = w
  <2>1. \A t \in DOMAIN w : w[t] = [kek |-> k, gen |-> KeysOf(w)[t]]
    BY <1>1, <1>3, <1>5 DEF UnwrapsAll, Wrap
  <2>2. w = [t \in DOMAIN w |-> [kek |-> k, gen |-> KeysOf(w)[t]]]
    BY <1>1, <2>1
  <2>. QED  BY <1>3, <2>2 DEF WrapAll
<1>. QED  BY <1>3, <1>4, <1>5

\* Wraps of another KEK do not open.
LEMMA OtherKek ==
  ASSUME NEW d \in DekMap, d # NoWraps, NEW k \in 0 .. MaxKeks, NEW j, j # k
  PROVE  ~ UnwrapsAll(WrapAll(d, k), j)
BY WrapAllMap, EmptyMap DEF UnwrapsAll

LEMMA RowOfRow ==
  ASSUME NEW w \in WrapMap
  PROVE  RowOf(w) \in DekRow /\ Present(w) \in DekRow /\ RowOf(w).wraps = w
         /\ Present(w).wraps = w /\ Present(w).present /\ (RowOf(w).present <=> w # NoWraps)
BY NoWrapsMap DEF RowOf, Present, NoDek, DekRow

-----------------------------------------------------------------------------
(* What an open would choose *)

\* With a next generation it cannot open, an open keeps the current rows.
LEMMA ChosenStale ==
  ASSUME KeyTypes, NextStale
  PROVE  ChosenRows.deks = rows.deks /\ ChosenRows.prev = rows.prev
         /\ ChosenRows.next = NoDek /\ ChosenRows.prevNext = NoDek
BY DEF ChosenRows, NextStale, KeyTypes

LEMMA ChosenStaleNext ==
  ASSUME KeyTypes', NextStale'
  PROVE  ChosenRows'.deks = rows'.deks /\ ChosenRows'.prev = rows'.prev
BY DEF ChosenRows, NextStale, KeyTypes

LEMMA ChosenTypes ==
  ASSUME KeyTypes
  PROVE  /\ ChosenRows \in [deks : DekRow, prev : DekRow, next : DekRow, prevNext : DekRow]
         /\ ChosenRows.next = NoDek /\ ChosenRows.prevNext = NoDek
<1>1. NoDek \in DekRow
  BY NoWrapsMap DEF NoDek, DekRow
<1>2. \A r \in DekRow : r.wraps \in WrapMap
  BY DEF DekRow
<1>3. \A r, q \in DekRow : Promoted(r.wraps, q.wraps)
         \in [deks : DekRow, prev : DekRow, next : DekRow, prevNext : DekRow]
  BY <1>1, <1>2, RowOfRow DEF Promoted
<1>. QED  BY <1>1, <1>3 DEF ChosenRows, KeyTypes, Promoted

\* While the ring is open: before the KEK is installed an open would keep the rows, at the
\* commit point it would promote the next ones, afterwards they are promoted.
LEMMA ChosenOpen ==
  ASSUME KeyInv, ring = "open"
  PROVE  /\ rot.step \in 0 .. 3 => NextStale /\ ChosenRows.deks = rows.deks /\ ChosenRows.prev = rows.prev
         /\ rot.step \in 4 .. 6 => /\ ChosenRows.deks = Present(WrapAll(env.deks, kms))
                                   /\ ChosenRows.prev = RowOf(WrapAll(env.prev, kms))
<1>. USE DEF KeyInv
<1>1. env.deks \in DekMap /\ env.prev \in DekMap /\ rot.kek \in 0 .. MaxKeks /\ kms \in 0 .. MaxKeks
  BY DEF KeyTypes
<1>2. CASE rot.step \in 0 .. 2
  BY <1>2, ChosenStale DEF RotationInv
<1>3. CASE rot.step = 3
  <2>1. rows.next = Present(WrapAll(env.deks, rot.kek)) /\ kms # rot.kek /\ env.deks # NoWraps
    BY <1>1, <1>3 DEF RotationInv, MemoryInv
  <2>2. NextStale
    BY <1>1, <2>1, OtherKek, WrapAllMap, RowOfRow DEF NextStale
  <2>. QED  BY <1>3, <2>2, ChosenStale
<1>4. CASE rot.step = 4
  <2>1. /\ rows.next = Present(WrapAll(env.deks, kms)) /\ rows.prevNext = RowOf(WrapAll(env.prev, kms))
    BY <1>4 DEF RotationInv
  <2>2. rows.next.present /\ rows.next.wraps = WrapAll(env.deks, kms) /\ UnwrapsAll(rows.next.wraps, kms)
        /\ rows.prevNext.wraps = WrapAll(env.prev, kms)
    BY <1>1, <2>1, WrapAllMap, RowOfRow
  <2>. QED  BY <1>4, <2>2 DEF ChosenRows, Promoted
<1>5. CASE rot.step \in 5 .. 6
  <2>1. rows = Promoted(WrapAll(env.deks, kms), WrapAll(env.prev, kms))
    BY <1>5 DEF RotationInv
  <2>2. NextStale
    BY <2>1 DEF NextStale, Promoted, NoDek
  <2>. QED  BY <1>5, <2>1, <2>2, ChosenStale DEF Promoted
<1>. QED  BY <1>2, <1>3, <1>4, <1>5 DEF KeyTypes

\* Wraps of all the data keys in memory, under any KEK, lose nothing that KEK can open.
LEMMA MemoryGood ==
  ASSUME KeyInv, ring = "open", rot.step \in 0 .. 3, NEW k \in 0 .. MaxKeks
  PROVE  Good(Present(WrapAll(env.deks, k)), RowOf(WrapAll(env.prev, k)), k, sealed)
<1>. DEFINE d == Present(WrapAll(env.deks, k))
            p == RowOf(WrapAll(env.prev, k))
<1>1. env.deks \in DekMap /\ env.prev \in DekMap /\ rows.prev.wraps \in WrapMap
  BY DEF KeyInv, KeyTypes, DekRow
<1>2. Good(rows.deks, rows.prev, kms, sealed)
  BY ChosenOpen DEF KeyInv
<1>3. /\ env.deks # NoWraps /\ env.prev = KeysOf(rows.prev.wraps)
      /\ \A t \in DOMAIN rows.deks.wraps : t \in DOMAIN env.deks /\ env.deks[t] = rows.deks.wraps[t].gen
  BY DEF KeyInv, MemoryInv
<1>4. d.wraps = WrapAll(env.deks, k) /\ p.wraps = WrapAll(env.prev, k)
      /\ (p.present <=> p.wraps # NoWraps)
  BY <1>1, WrapAllMap, RowOfRow
<1>5. /\ DOMAIN d.wraps = DOMAIN env.deks /\ DOMAIN p.wraps = DOMAIN rows.prev.wraps
      /\ \A t \in DOMAIN d.wraps : d.wraps[t].gen = env.deks[t]
      /\ \A t \in DOMAIN p.wraps : p.wraps[t].gen = rows.prev.wraps[t].gen
  BY <1>1, <1>3, <1>4, WrapAllMap, KeysOfMap
<1>6. d.wraps # NoWraps /\ UnwrapsAll(d.wraps, k) /\ UnwrapsAll(p.wraps, k)
  BY <1>1, <1>3, <1>4, WrapAllMap
<1>7. Covers(d, p, sealed)
  BY <1>2, <1>3, <1>5 DEF Good, Covers
<1>8. DOMAIN p.wraps \subseteq DOMAIN d.wraps
  BY <1>2, <1>3, <1>5 DEF Good
<1>. QED  BY <1>4, <1>6, <1>7, <1>8 DEF Good

-----------------------------------------------------------------------------
(* The invariant holds initially and is preserved *)

LEMMA KeyInvInit == ASSUME SafeErrors, KeyInit PROVE KeyInv
<1>. USE KeyRingAssumption DEF KeyInit
<1>. DEFINE deks == [t \in FirstTenants |-> 0]
            w == WrapAll(deks, 0)
<1>1. deks \in DekMap /\ 0 \in 0 .. MaxKeks /\ DOMAIN deks = FirstTenants
  BY DekMapDef
<1>2. deks # NoWraps /\ w # NoWraps /\ w \in WrapMap
  BY <1>1, EmptyMap, WrapAllMap DEF SafeErrors
<1>3. /\ rows = [deks |-> RowOf(w), prev |-> NoDek, next |-> NoDek, prevNext |-> NoDek]
      /\ env = [kek |-> 0, deks |-> deks, prev |-> NoWraps, wraps |-> w]
  OBVIOUS
<1>. HIDE DEF deks, w
<1>4. NoDek \in DekRow /\ NoDek.wraps = NoWraps /\ ~NoDek.present /\ RowOf(w) \in DekRow /\ RowOf(w).wraps = w
  BY <1>2, NoWrapsMap, RowOfRow DEF NoDek, DekRow
<1>5. KeyTypes
  BY <1>1, <1>2, <1>3, <1>4, NoWrapsMap DEF KeyTypes, NoRotation, NoWrite
<1>6. NextStale
  BY <1>3, <1>4 DEF NextStale
<1>7. ChosenRows.deks = RowOf(w) /\ ChosenRows.prev = NoDek
  BY <1>3, <1>5, <1>6, ChosenStale
<1>8. UnwrapsAll(w, 0) /\ KeysOf(NoWraps) = NoWraps /\ UnwrapsAll(NoWraps, 0)
  BY <1>1, WrapAllMap, KeysOfMap, NoWrapsMap, EmptyMap DEF w, UnwrapsAll
<1>9. Good(ChosenRows.deks, ChosenRows.prev, kms, sealed)
  BY <1>2, <1>4, <1>7, <1>8, NoWrapsMap DEF Good, Covers
<1>10. MemoryInv
  <2>1. DOMAIN w = DOMAIN deks /\ \A t \in DOMAIN deks : w[t].gen = deks[t]
    BY <1>1, WrapAllMap DEF w
  <2>. QED  BY <1>2, <1>3, <1>4, <1>8, <2>1 DEF MemoryInv, w, NoWrite
<1>11. RotationInv
  BY <1>6 DEF RotationInv, NoRotation, NoWrite
<1>. QED  BY <1>5, <1>9, <1>10, <1>11 DEF KeyInv

LEMMA SameChosen == ASSUME rows' = rows, kms' = kms PROVE ChosenRows' = ChosenRows
BY DEF ChosenRows

\* An open ring whose rows stay: the choice an open would make keeps being a good one.
LEMMA KeepGood ==
  ASSUME KeyInv, rows' = rows, kms' = kms, sealed' = sealed
  PROVE  Good(ChosenRows.deks, ChosenRows.prev, kms, sealed)'
BY SameChosen DEF KeyInv

\* Adding a data key to a map, and its wrap to the map of wraps.
LEMMA WithKeyMap ==
  ASSUME NEW f \in DekMap, NEW t \in Tenants, NEW k \in 0 .. MaxKeks
  PROVE  /\ WithKey(f, t, 0) \in DekMap /\ WithKey(f, t, 0) # NoWraps
         /\ DOMAIN WithKey(f, t, 0) = DOMAIN f \cup {t} /\ WithKey(f, t, 0)[t] = 0
         /\ \A u \in DOMAIN f \ {t} : WithKey(f, t, 0)[u] = f[u]
         /\ WithKey(WrapAll(f, k), t, [kek |-> k, gen |-> 0]) = WrapAll(WithKey(f, t, 0), k)
<1>1. DOMAIN WithKey(f, t, 0) = DOMAIN f \cup {t} /\ WithKey(f, t, 0)[t] = 0
      /\ \A u \in DOMAIN f \ {t} : WithKey(f, t, 0)[u] = f[u]
  BY DEF WithKey
<1>2. WithKey(f, t, 0) \in [DOMAIN f \cup {t} -> {0, 1}]
  BY DekMapDef DEF WithKey
<1>3. WithKey(f, t, 0) \in DekMap /\ WithKey(f, t, 0) # NoWraps
  BY <1>1, <1>2, DekMapDef, NoWrapsMap
<1>4. WithKey(WrapAll(f, k), t, [kek |-> k, gen |-> 0]) = WrapAll(WithKey(f, t, 0), k)
  <2>1. \A u \in DOMAIN f \cup {t} : (IF u = t THEN [kek |-> k, gen |-> 0] ELSE WrapAll(f, k)[u])
                                        = [kek |-> k, gen |-> WithKey(f, t, 0)[u]]
    BY <1>1 DEF WrapAll
  <2>2. DOMAIN WrapAll(f, k) = DOMAIN f
    BY DEF WrapAll
  <2>3. WithKey(WrapAll(f, k), t, [kek |-> k, gen |-> 0])
          = [u \in DOMAIN f \cup {t} |-> IF u = t THEN [kek |-> k, gen |-> 0] ELSE WrapAll(f, k)[u]]
    BY <2>2 DEF WithKey
  <2>4. WrapAll(WithKey(f, t, 0), k) = [u \in DOMAIN f \cup {t} |-> [kek |-> k, gen |-> WithKey(f, t, 0)[u]]]
    BY <1>1 DEF WrapAll
  <2>. QED  BY <2>1, <2>3, <2>4
<1>. QED  BY <1>1, <1>3, <1>4

LEMMA KeyEncrypt ==
  ASSUME KeyInv, NEW t \in Tenants, EncryptField(t)
  PROVE  KeyInv'
<1>0. KeyTypes /\ MemoryInv /\ RotationInv /\ ring # "refused" /\ kms <= minted
  BY DEF KeyInv
<1>1. /\ ring = "open" /\ env.kek \in 0 .. MaxKeks /\ env.deks \in DekMap /\ env.prev \in DekMap
      /\ env \in [kek : 0 .. MaxKeks, deks : DekMap, prev : DekMap, wraps : WrapMap]
  BY <1>0 DEF EncryptField, KeyTypes
<1>2. /\ env' \in [kek : 0 .. MaxKeks, deks : DekMap, prev : DekMap, wraps : WrapMap]
      /\ env'.prev = env.prev /\ env'.kek = env.kek
      /\ env'.deks # NoWraps /\ env'.wraps = WrapAll(env'.deks, env'.kek)
      /\ t \in DOMAIN env'.deks /\ wr' = [step |-> "persist", tenant |-> t, gen |-> env'.deks[t]]
      /\ \A u \in DOMAIN env.deks : u \in DOMAIN env'.deks /\ env'.deks[u] = env.deks[u]
      /\ rot.step # 0 => env' = env
  <2>1. CASE t \in DOMAIN env.deks
    BY <1>0, <1>1, <2>1 DEF EncryptField, MemoryInv
  <2>2. CASE t \notin DOMAIN env.deks
    <3>. DEFINE W == WithKey(env.deks, t, 0)
                X == WithKey(env.wraps, t, [kek |-> env.kek, gen |-> 0])
    <3>1. env' = [env EXCEPT !.deks = W, !.wraps = X] /\ wr' = [step |-> "persist", tenant |-> t, gen |-> 0]
          /\ rot.step = 0
      BY <2>2 DEF EncryptField, CreationFree
    <3>2. env.wraps = WrapAll(env.deks, env.kek)
      BY <1>0, <1>1 DEF MemoryInv
    <3>3. /\ W \in DekMap /\ W # NoWraps /\ DOMAIN W = DOMAIN env.deks \cup {t} /\ W[t] = 0
          /\ \A u \in DOMAIN env.deks : W[u] = env.deks[u]
          /\ X = WrapAll(W, env.kek)
      BY <1>1, <2>2, <3>2, WithKeyMap
    <3>4. X \in WrapMap
      BY <1>1, <3>3, WrapAllMap
    <3>. HIDE DEF W, X
    <3>5. env'.deks = W /\ env'.wraps = X /\ env'.kek = env.kek /\ env'.prev = env.prev
      BY <1>1, <3>1
    <3>6. env' \in [kek : 0 .. MaxKeks, deks : DekMap, prev : DekMap, wraps : WrapMap]
      BY <1>1, <3>1, <3>3, <3>4
    <3>. QED  BY <3>1, <3>3, <3>5, <3>6
  <2>. QED  BY <2>1, <2>2
<1>3. env'.deks[t] \in {0, 1}
  BY <1>2, DekMapDef
<1>4. KeyTypes'
  <2>1. wr' \in [step : {"idle", "persist", "commit"}, tenant : Tenants \cup {"none"}, gen : {0, 1}]
        /\ wr'.tenant \in Tenants
    BY <1>2, <1>3
  <2>. QED  BY <1>0, <1>2, <2>1 DEF KeyTypes, EncryptField
<1>5. UNCHANGED <<kms, dekFile, nextFile, rows, ring, rot, sealed, minted, keyFaults>>
  BY DEF EncryptField
<1>6. MemoryInv'
  <2>1. wr'.step = "persist" /\ wr'.tenant = t /\ wr'.gen = env'.deks[t]
    BY <1>2
  <2>2. env'.prev = KeysOf(rows'.prev.wraps)
    BY <1>0, <1>1, <1>2, <1>5 DEF MemoryInv
  <2>3. \A u \in DOMAIN rows'.deks.wraps : u \in DOMAIN env'.deks /\ env'.deks[u] = rows'.deks.wraps[u].gen
    <3>1. \A u \in DOMAIN rows.deks.wraps : u \in DOMAIN env.deks /\ env.deks[u] = rows.deks.wraps[u].gen
      BY <1>0, <1>1 DEF MemoryInv
    <3>2. \A u \in DOMAIN env.deks : u \in DOMAIN env'.deks /\ env'.deks[u] = env.deks[u]
      BY <1>2
    <3>3. rows' = rows
      BY <1>5
    <3>. QED  BY <3>1, <3>2, <3>3
  <2>4. rot'.step \notin {4, 5} => env'.kek = kms'
    BY <1>0, <1>1, <1>2, <1>5 DEF MemoryInv
  <2>. QED  BY <1>2, <2>1, <2>2, <2>3, <2>4 DEF MemoryInv
<1>7. RotationInv'
  <2>1. CASE rot.step = 0
    BY <1>0, <1>1, <1>5, <2>1 DEF RotationInv, NextStale
  <2>2. CASE rot.step # 0
    <3>1. env' = env
      BY <1>2, <2>2
    <3>2. RotationInv /\ ring = "open"
      BY <1>0, <1>1
    <3>. QED  BY <1>5, <2>2, <3>1, <3>2 DEF RotationInv, NextStale
  <2>. QED  BY <2>1, <2>2
<1>. QED  BY <1>0, <1>4, <1>5, <1>6, <1>7, KeepGood DEF KeyInv

LEMMA KeyPersist == ASSUME KeyInv, PersistDeks PROVE KeyInv'
<1>0. KeyTypes /\ MemoryInv /\ RotationInv /\ ring # "refused" /\ kms <= minted
  BY DEF KeyInv
<1>1. /\ ring = "open" /\ rot.step = 0 /\ env.deks \in DekMap /\ env.prev \in DekMap
      /\ env.wraps \in WrapMap /\ kms \in 0 .. MaxKeks /\ rows.prev.wraps \in WrapMap
      /\ rows \in [deks : DekRow, prev : DekRow, next : DekRow, prevNext : DekRow]
  BY <1>0 DEF PersistDeks, MayPersist, CreationFree, RotationInv, KeyTypes, DekRow
<1>2. env.wraps = WrapAll(env.deks, kms)
  BY <1>0, <1>1 DEF MemoryInv
<1>3. rows' \in [deks : DekRow, prev : DekRow, next : DekRow, prevNext : DekRow]
      /\ rows'.deks = Present(WrapAll(env.deks, kms)) /\ rows'.prev = rows.prev
      /\ rows'.next = rows.next /\ rows'.prevNext = rows.prevNext
  BY <1>1, <1>2, RowOfRow DEF PersistDeks
<1>4. NextStale /\ NextStale'
  BY <1>0, <1>1, <1>3 DEF RotationInv, NextStale, PersistDeks
<1>5. wr'.step = "commit" /\ wr'.tenant = wr.tenant /\ wr'.gen = wr.gen
  BY <1>0 DEF PersistDeks, KeyTypes
<1>6. KeyTypes'
  <2>1. wr' \in [step : {"idle", "persist", "commit"}, tenant : Tenants \cup {"none"}, gen : {0, 1}]
    BY <1>0 DEF KeyTypes, PersistDeks
  <2>. QED  BY <1>0, <1>3, <1>5, <2>1 DEF KeyTypes, PersistDeks
<1>7. /\ env.deks # NoWraps /\ env.prev = KeysOf(rows.prev.wraps) /\ env.kek = kms
      /\ \A t \in DOMAIN rows.deks.wraps : t \in DOMAIN env.deks /\ env.deks[t] = rows.deks.wraps[t].gen
      /\ wr.tenant \in DOMAIN env.deks /\ env.deks[wr.tenant] = wr.gen
  BY <1>0, <1>1 DEF MemoryInv, PersistDeks
<1>8. /\ rows'.deks.wraps = WrapAll(env.deks, kms) /\ DOMAIN rows'.deks.wraps = DOMAIN env.deks
      /\ \A t \in DOMAIN env.deks : rows'.deks.wraps[t].gen = env.deks[t]
      /\ rows'.deks.wraps # NoWraps /\ UnwrapsAll(rows'.deks.wraps, kms)
  BY <1>1, <1>3, <1>7, WrapAllMap, RowOfRow
<1>9. Good(ChosenRows.deks, ChosenRows.prev, kms, sealed)'
  <2>1. ChosenRows'.deks = rows'.deks /\ ChosenRows'.prev = rows'.prev
    BY <1>4, <1>6, ChosenStaleNext
  <2>2. Good(rows.deks, rows.prev, kms, sealed)
    BY <1>1, ChosenOpen DEF KeyInv
  <2>3. Covers(rows'.deks, rows'.prev, sealed)
    BY <1>3, <1>7, <1>8, <2>2 DEF Good, Covers
  <2>4. DOMAIN rows'.prev.wraps \subseteq DOMAIN rows'.deks.wraps
    BY <1>3, <1>7, <1>8, <2>2 DEF Good
  <2>. QED  BY <1>3, <1>8, <2>1, <2>2, <2>3, <2>4 DEF Good, PersistDeks
<1>10. UNCHANGED <<kms, dekFile, nextFile, env, ring, rot, sealed, minted, keyFaults>>
  BY DEF PersistDeks
<1>11. MemoryInv'
  BY <1>0, <1>1, <1>2, <1>3, <1>5, <1>7, <1>8, <1>10 DEF MemoryInv
<1>12. RotationInv'
  BY <1>0, <1>1, <1>4, <1>10 DEF RotationInv
<1>. QED  BY <1>0, <1>6, <1>9, <1>10, <1>11, <1>12 DEF KeyInv

LEMMA KeyCommit == ASSUME KeyInv, CommitField PROVE KeyInv'
<1>0. KeyTypes /\ MemoryInv /\ RotationInv /\ ring # "refused" /\ kms <= minted
  BY DEF KeyInv
<1>1. /\ ring = "open" /\ wr.tenant \in Tenants /\ wr.gen \in {0, 1}
      /\ wr.tenant \in DOMAIN env.deks /\ env.deks[wr.tenant] = wr.gen
      /\ wr.tenant \in DOMAIN rows.deks.wraps /\ rows.deks.wraps[wr.tenant].gen = wr.gen
  BY <1>0 DEF CommitField, KeyTypes, RotationInv, MemoryInv
<1>2. UNCHANGED <<kms, dekFile, nextFile, rows, env, ring, rot, minted, keyFaults>>
      /\ sealed' = sealed \cup {<<wr.tenant, wr.gen>>} /\ wr' = NoWrite
  BY DEF CommitField
<1>3. wr.tenant \in DOMAIN ChosenRows.deks.wraps /\ ChosenRows.deks.wraps[wr.tenant].gen = wr.gen
  <2>1. CASE rot.step \in 0 .. 3
    BY <1>1, <2>1, ChosenOpen
  <2>2. CASE rot.step \in 4 .. 6
    <3>1. env.deks \in DekMap /\ kms \in 0 .. MaxKeks
      BY <1>0 DEF KeyTypes
    <3>2. ChosenRows.deks.wraps = WrapAll(env.deks, kms)
      BY <1>1, <2>2, <3>1, ChosenOpen, WrapAllMap, RowOfRow
    <3>. QED  BY <1>1, <3>1, <3>2, WrapAllMap
  <2>. QED  BY <1>0, <2>1, <2>2 DEF KeyTypes
<1>4. Good(ChosenRows.deks, ChosenRows.prev, kms, sealed)'
  <2>1. ChosenRows' = ChosenRows /\ Good(ChosenRows.deks, ChosenRows.prev, kms, sealed)
    BY <1>2, SameChosen DEF KeyInv
  <2>2. Covers(ChosenRows.deks, ChosenRows.prev, sealed')
    BY <1>2, <1>3, <2>1 DEF Good, Covers
  <2>. QED  BY <1>2, <2>1, <2>2 DEF Good
<1>5. KeyTypes'
  BY <1>0, <1>1, <1>2 DEF KeyTypes, NoWrite
<1>6. MemoryInv'
  BY <1>0, <1>2 DEF MemoryInv, NoWrite
<1>7. RotationInv'
  BY <1>0, <1>2 DEF RotationInv, NoWrite, NextStale
<1>. QED  BY <1>0, <1>2, <1>4, <1>5, <1>6, <1>7 DEF KeyInv

LEMMA KeyMint == ASSUME KeyInv, Mint PROVE KeyInv'
<1>0. KeyTypes /\ MemoryInv /\ RotationInv /\ ring # "refused" /\ kms <= minted
  BY DEF KeyInv
<1>1. KeyTypes'
  BY <1>0, KeyRingAssumption DEF KeyTypes, Mint
<1>2. MemoryInv'
  BY <1>0 DEF MemoryInv, Mint
<1>3. RotationInv'
  BY <1>0 DEF RotationInv, Mint, NextStale, KeyTypes
<1>. QED  BY <1>0, <1>1, <1>2, <1>3, KeepGood DEF KeyInv, Mint, KeyTypes

LEMMA KeyCrashes == ASSUME KeyInv, KeyCrash PROVE KeyInv'
<1>0. KeyTypes /\ MemoryInv /\ RotationInv /\ ring # "refused" /\ kms <= minted
  BY DEF KeyInv
<1>1. KeyTypes'
  BY <1>0, NoWrapsMap, KeyRingAssumption DEF KeyTypes, KeyCrash, NoEnv, NoRotation, NoWrite
<1>2. MemoryInv'
  BY DEF MemoryInv, KeyCrash
<1>3. RotationInv'
  BY <1>0 DEF RotationInv, KeyCrash, NoRotation, NoWrite, KeyTypes
<1>. QED  BY <1>0, <1>1, <1>2, <1>3, KeepGood DEF KeyInv, KeyCrash

LEMMA KeyOpenRing == ASSUME KeyInv, OpenRing PROVE KeyInv'
<1>0. KeyTypes /\ MemoryInv /\ RotationInv /\ ring # "refused" /\ kms <= minted
  BY DEF KeyInv
<1>1. ring = "down" /\ rot.step = 0 /\ wr.step = "idle" /\ dekFile' = kms /\ ring' = "keyed" /\ nextFile' = NoKek
      /\ UNCHANGED <<kms, rows, env, rot, wr, sealed, minted, keyFaults>>
  BY <1>0 DEF OpenRing, RotationInv
<1>2. KeyTypes'
  BY <1>0, <1>1 DEF KeyTypes
<1>3. MemoryInv' /\ RotationInv'
  BY <1>0, <1>1 DEF MemoryInv, RotationInv
<1>. QED  BY <1>0, <1>1, <1>2, <1>3, KeepGood DEF KeyInv

LEMMA KeyOpenDeks == ASSUME KeyInv, OpenDeks PROVE KeyInv'
<1>0. KeyTypes /\ MemoryInv /\ RotationInv /\ ring = "keyed" /\ kms <= minted
      /\ Good(ChosenRows.deks, ChosenRows.prev, kms, sealed)
  BY DEF KeyInv, OpenDeks
<1>1. /\ rows' \in [deks : DekRow, prev : DekRow, next : DekRow, prevNext : DekRow]
      /\ rows' = ChosenRows /\ rows'.next = NoDek
  BY <1>0, ChosenTypes DEF OpenDeks
<1>2. ring' = "open"
  BY <1>0 DEF OpenDeks, Loads, Good
<1>3. rows'.deks.wraps \in WrapMap /\ rows'.prev.wraps \in WrapMap /\ kms \in 0 .. MaxKeks
  BY <1>0, <1>1 DEF DekRow, KeyTypes
<1>4. /\ env' = [kek |-> kms, deks |-> KeysOf(rows'.deks.wraps),
                 prev |-> KeysOf(rows'.prev.wraps), wraps |-> rows'.deks.wraps]
      /\ UNCHANGED <<kms, dekFile, nextFile, rot, wr, sealed, minted, keyFaults>>
  BY DEF OpenDeks
<1>5. env' \in [kek : 0 .. MaxKeks, deks : DekMap, prev : DekMap, wraps : WrapMap]
  BY <1>3, <1>4, KeysOfMap
<1>6. KeyTypes'
  BY <1>0, <1>1, <1>2, <1>4, <1>5 DEF KeyTypes
<1>7. NextStale'
  BY <1>1 DEF NextStale, NoDek
<1>8. Good(ChosenRows.deks, ChosenRows.prev, kms, sealed)'
  BY <1>0, <1>1, <1>4, <1>6, <1>7, ChosenStaleNext
<1>9. rot.step = 0 /\ wr.step = "idle" /\ dekFile = kms
  BY <1>0 DEF RotationInv
<1>10. MemoryInv'
  <2>1. UnwrapsAll(rows'.deks.wraps, kms) /\ rows'.deks.wraps # NoWraps
    BY <1>0, <1>1 DEF Good
  <2>2. rows'.deks.wraps = WrapAll(KeysOf(rows'.deks.wraps), kms)
    BY <1>3, <2>1, KeysOfMap
  <2>3. /\ DOMAIN KeysOf(rows'.deks.wraps) = DOMAIN rows'.deks.wraps
        /\ \A t \in DOMAIN rows'.deks.wraps : KeysOf(rows'.deks.wraps)[t] = rows'.deks.wraps[t].gen
        /\ KeysOf(rows'.deks.wraps) # NoWraps
    BY <1>3, <2>1, KeysOfMap, EmptyMap
  <2>. QED  BY <1>4, <1>9, <2>2, <2>3 DEF MemoryInv
<1>11. RotationInv'
  BY <1>2, <1>4, <1>7, <1>9 DEF RotationInv
<1>. QED  BY <1>0, <1>2, <1>4, <1>6, <1>8, <1>10, <1>11 DEF KeyInv

\* Steps 2 and 3 of a rotation, whether they return an error or not: a next generation of the
\* file, then of the rows, under a KEK that is not installed.
LEMMA KeyFileStep ==
  ASSUME KeyInv, rot.step = 1, UNCHANGED <<ring, wr, sealed, minted>>,
         Wrote2 \/ UNCHANGED <<kms, dekFile, nextFile, rows, env>>,
         rot' = NoRotation \/ (Wrote2 /\ rot' = [rot EXCEPT !.step = 2])
  PROVE  KeyInv'
<1>0. KeyTypes /\ MemoryInv /\ RotationInv /\ ring = "open" /\ kms <= minted /\ NextStale
      /\ rot \in [step : 0 .. 6, kek : 0 .. MaxKeks] /\ kms \in 0 .. MaxKeks
  BY DEF KeyInv, RotationInv, KeyTypes
<1>1. UNCHANGED <<kms, dekFile, rows, env>> /\ (nextFile' = rot.kek \/ nextFile' = nextFile)
      /\ rot' \in [step : 0 .. 6, kek : 0 .. MaxKeks]
      /\ (rot'.step = 0 \/ (rot'.step = 2 /\ rot'.kek = rot.kek /\ nextFile' = rot.kek))
  BY <1>0, KeyRingAssumption DEF Wrote2, NoRotation
<1>2. KeyTypes'
  BY <1>0, <1>1 DEF KeyTypes
<1>3. MemoryInv'
  BY <1>0, <1>1 DEF MemoryInv
<1>4. NextStale'
  BY <1>0, <1>1 DEF NextStale
<1>5. RotationInv'
  BY <1>0, <1>1, <1>4 DEF RotationInv
<1>. QED  BY <1>0, <1>1, <1>2, <1>3, <1>5, KeepGood DEF KeyInv

LEMMA KeyRowStep ==
  ASSUME KeyInv, rot.step = 2, UNCHANGED <<ring, wr, sealed, minted>>,
         Wrote3 \/ UNCHANGED <<kms, dekFile, nextFile, rows, env>>,
         rot' = NoRotation \/ (Wrote3 /\ rot' = [rot EXCEPT !.step = 3])
  PROVE  KeyInv'
<1>. DEFINE d == Present(WrapAll(env.deks, rot.kek))
            p == RowOf(WrapAll(env.prev, rot.kek))
<1>0. KeyTypes /\ MemoryInv /\ RotationInv /\ ring = "open" /\ kms <= minted /\ NextStale
  BY DEF KeyInv, RotationInv
<1>1. /\ rot \in [step : 0 .. 6, kek : 0 .. MaxKeks] /\ kms \in 0 .. MaxKeks /\ rot.kek \in 0 .. MaxKeks
      /\ env.deks \in DekMap /\ env.prev \in DekMap /\ kms # rot.kek /\ env.deks # NoWraps
      /\ rows \in [deks : DekRow, prev : DekRow, next : DekRow, prevNext : DekRow]
  BY <1>0 DEF KeyTypes, RotationInv, MemoryInv
<1>2. UNCHANGED <<kms, dekFile, nextFile, env>> /\ rot' \in [step : 0 .. 6, kek : 0 .. MaxKeks]
      /\ (rot'.step = 0 \/ (rot'.step = 3 /\ rot'.kek = rot.kek /\ Wrote3))
  BY <1>1, KeyRingAssumption DEF Wrote3, NoRotation
<1>3. d \in DekRow /\ p \in DekRow /\ d.wraps = WrapAll(env.deks, rot.kek)
  BY <1>1, WrapAllMap, RowOfRow
<1>4. ~ UnwrapsAll(d.wraps, kms)
  BY <1>1, <1>3, OtherKek
<1>5. Wrote3 => rows' = [rows EXCEPT !.next = d, !.prevNext = p]
  BY DEF Wrote3, NextRows
<1>. HIDE DEF d, p
<1>6. /\ rows' \in [deks : DekRow, prev : DekRow, next : DekRow, prevNext : DekRow]
      /\ rows'.deks = rows.deks /\ rows'.prev = rows.prev
      /\ Wrote3 => rows'.next = d /\ rows'.prevNext = p
      /\ ~Wrote3 => rows' = rows
  BY <1>1, <1>3, <1>5
<1>7. NextStale'
  BY <1>0, <1>2, <1>4, <1>6 DEF NextStale
<1>8. KeyTypes'
  BY <1>0, <1>2, <1>6 DEF KeyTypes
<1>9. Good(ChosenRows.deks, ChosenRows.prev, kms, sealed)'
  <2>1. Good(rows.deks, rows.prev, kms, sealed)
    BY <1>0, <1>1, ChosenOpen DEF KeyInv
  <2>. QED  BY <1>2, <1>6, <1>7, <1>8, <2>1, ChosenStaleNext
<1>10. MemoryInv'
  BY <1>0, <1>2, <1>6 DEF MemoryInv
<1>11. RotationInv'
  BY <1>0, <1>2, <1>6, <1>7 DEF RotationInv, d, p
<1>. QED  BY <1>0, <1>2, <1>8, <1>9, <1>10, <1>11 DEF KeyInv

\* Step 4, the commit point: the KEK is installed, and an open would now promote the next rows.
LEMMA KeyInstall ==
  ASSUME KeyInv, rot.step = 3, Wrote4, rot' = [rot EXCEPT !.step = 4],
         UNCHANGED <<ring, wr, sealed, minted>>
  PROVE  KeyInv'
<1>0. KeyTypes /\ MemoryInv /\ RotationInv /\ ring = "open" /\ kms <= minted
  BY DEF KeyInv, RotationInv
<1>1. /\ rot \in [step : 0 .. 6, kek : 0 .. MaxKeks] /\ rot.kek \in 0 .. MaxKeks
      /\ env.deks \in DekMap /\ env.prev \in DekMap /\ minted = rot.kek /\ nextFile = rot.kek
      /\ rows.next = Present(WrapAll(env.deks, rot.kek)) /\ rows.prevNext = RowOf(WrapAll(env.prev, rot.kek))
  BY <1>0 DEF KeyTypes, RotationInv
<1>2. /\ kms' = rot.kek /\ UNCHANGED <<dekFile, nextFile, rows, env, ring, wr, sealed, minted>>
      /\ rot' \in [step : 0 .. 6, kek : 0 .. MaxKeks] /\ rot'.step = 4 /\ rot'.kek = rot.kek
  BY <1>1 DEF Wrote4
<1>3. /\ rows'.next.present /\ rows'.next.wraps = WrapAll(env.deks, kms')
      /\ UnwrapsAll(rows'.next.wraps, kms') /\ rows'.prevNext.wraps = WrapAll(env.prev, kms')
  BY <1>1, <1>2, WrapAllMap, RowOfRow
<1>4. ChosenRows'.deks = Present(WrapAll(env.deks, kms')) /\ ChosenRows'.prev = RowOf(WrapAll(env.prev, kms'))
  BY <1>3 DEF ChosenRows, Promoted
<1>5. Good(ChosenRows.deks, ChosenRows.prev, kms, sealed)'
  BY <1>0, <1>1, <1>2, <1>4, MemoryGood
<1>6. KeyTypes'
  BY <1>0, <1>2, <1>1 DEF KeyTypes
<1>7. MemoryInv'
  BY <1>0, <1>2 DEF MemoryInv
<1>8. RotationInv'
  BY <1>0, <1>1, <1>2 DEF RotationInv
<1>. QED  BY <1>0, <1>1, <1>2, <1>5, <1>6, <1>7, <1>8 DEF KeyInv

\* Step 5: the next rows become the rows.
LEMMA KeyPromote ==
  ASSUME KeyInv, rot.step = 4, Wrote5, rot' = [rot EXCEPT !.step = 5],
         UNCHANGED <<ring, wr, sealed, minted>>
  PROVE  KeyInv'
<1>0. KeyTypes /\ MemoryInv /\ RotationInv /\ ring = "open" /\ kms <= minted
  BY DEF KeyInv, RotationInv
<1>1. /\ rot \in [step : 0 .. 6, kek : 0 .. MaxKeks] /\ kms = rot.kek /\ nextFile = rot.kek
      /\ env.deks \in DekMap /\ env.prev \in DekMap /\ kms \in 0 .. MaxKeks
  BY <1>0 DEF KeyTypes, RotationInv
<1>. DEFINE d == WrapAll(env.deks, kms)
            p == WrapAll(env.prev, kms)
<1>2. /\ rows' = Promoted(d, p) /\ UNCHANGED <<kms, dekFile, nextFile, env, ring, wr, sealed, minted>>
      /\ rot' \in [step : 0 .. 6, kek : 0 .. MaxKeks] /\ rot'.step = 5 /\ rot'.kek = rot.kek
  BY <1>1 DEF Wrote5
<1>3. /\ d \in WrapMap /\ p \in WrapMap /\ DOMAIN d = DOMAIN env.deks /\ KeysOf(p) = env.prev
      /\ \A t \in DOMAIN d : d[t].gen = env.deks[t]
  BY <1>1, WrapAllMap
<1>4. /\ Present(d) \in DekRow /\ RowOf(p) \in DekRow /\ NoDek \in DekRow
      /\ Present(d).wraps = d /\ RowOf(p).wraps = p
  BY <1>3, RowOfRow, NoWrapsMap DEF NoDek, DekRow
<1>. HIDE DEF d, p
<1>5. /\ rows' \in [deks : DekRow, prev : DekRow, next : DekRow, prevNext : DekRow]
      /\ rows'.deks = Present(d) /\ rows'.prev = RowOf(p) /\ rows'.next = NoDek
  BY <1>2, <1>4 DEF Promoted
<1>6. NextStale'
  BY <1>5 DEF NextStale, NoDek
<1>7. KeyTypes'
  BY <1>0, <1>2, <1>5 DEF KeyTypes
<1>8. Good(ChosenRows.deks, ChosenRows.prev, kms, sealed)'
  <2>1. ChosenRows.deks = Present(d) /\ ChosenRows.prev = RowOf(p)
    BY <1>0, <1>1, ChosenOpen DEF d, p
  <2>. QED  BY <1>2, <1>5, <1>6, <1>7, <2>1, ChosenStaleNext DEF KeyInv
<1>9. MemoryInv'
  BY <1>0, <1>2, <1>3, <1>4, <1>5 DEF MemoryInv
<1>10. RotationInv'
  BY <1>0, <1>1, <1>2 DEF RotationInv, d, p
<1>. QED  BY <1>0, <1>2, <1>7, <1>8, <1>9, <1>10 DEF KeyInv

\* Adoption: the envelope in memory takes the KEK and its wraps.
LEMMA KeyAdopt ==
  ASSUME KeyInv, rot.step = 5, Adopt, rot' = [rot EXCEPT !.step = 6],
         UNCHANGED <<ring, wr, sealed, minted>>
  PROVE  KeyInv'
<1>0. KeyTypes /\ MemoryInv /\ RotationInv /\ ring = "open" /\ kms <= minted
  BY DEF KeyInv, RotationInv
<1>1. /\ rot \in [step : 0 .. 6, kek : 0 .. MaxKeks] /\ kms = rot.kek /\ rot.kek \in 0 .. MaxKeks
      /\ env \in [kek : 0 .. MaxKeks, deks : DekMap, prev : DekMap, wraps : WrapMap]
      /\ WrapAll(env.deks, rot.kek) \in WrapMap
  BY <1>0, WrapAllMap DEF KeyTypes, RotationInv
<1>2. /\ env' \in [kek : 0 .. MaxKeks, deks : DekMap, prev : DekMap, wraps : WrapMap]
      /\ env'.kek = rot.kek /\ env'.wraps = WrapAll(env.deks, rot.kek)
      /\ env'.deks = env.deks /\ env'.prev = env.prev
  BY <1>1 DEF Adopt
<1>3. /\ UNCHANGED <<kms, dekFile, nextFile, rows, ring, wr, sealed, minted>>
      /\ rot' \in [step : 0 .. 6, kek : 0 .. MaxKeks] /\ rot'.step = 6 /\ rot'.kek = rot.kek
  BY <1>1 DEF Adopt
<1>4. KeyTypes'
  BY <1>0, <1>2, <1>3 DEF KeyTypes
<1>5. MemoryInv'
  BY <1>0, <1>1, <1>2, <1>3 DEF MemoryInv
<1>6. RotationInv'
  BY <1>0, <1>1, <1>2, <1>3 DEF RotationInv
<1>. QED  BY <1>0, <1>3, <1>4, <1>5, <1>6, KeepGood DEF KeyInv

\* Step 6: <dek>.next is renamed over <dek>; the rotation is over.
LEMMA KeyRename ==
  ASSUME KeyInv, rot.step = 6, Wrote6, rot' = NoRotation, UNCHANGED <<ring, wr, sealed, minted>>
  PROVE  KeyInv'
<1>0. KeyTypes /\ MemoryInv /\ RotationInv /\ ring = "open" /\ kms <= minted
  BY DEF KeyInv, RotationInv
<1>1. /\ dekFile' = kms /\ nextFile' = NoKek /\ UNCHANGED <<kms, rows, env, ring, wr, sealed, minted>>
      /\ rot' \in [step : 0 .. 6, kek : 0 .. MaxKeks] /\ rot'.step = 0
  BY <1>0, KeyRingAssumption DEF Wrote6, RotationInv, NoRotation
<1>2. KeyTypes'
  BY <1>0, <1>1 DEF KeyTypes
<1>3. MemoryInv'
  BY <1>0, <1>1 DEF MemoryInv
<1>4. NextStale'
  <2>1. rows.next = NoDek
    BY <1>0 DEF RotationInv, Promoted
  <2>. QED  BY <1>1, <2>1 DEF NextStale, NoDek
<1>5. RotationInv'
  BY <1>0, <1>1, <1>4 DEF RotationInv
<1>. QED  BY <1>0, <1>1, <1>2, <1>3, <1>5, KeepGood DEF KeyInv

LEMMA KeyRotateStep == ASSUME KeyInv, RotateStep PROVE KeyInv'
<1>0. /\ rot.step \in 1 .. 6 /\ Wrote(StepOrder[rot.step])
      /\ rot' = IF rot.step = 6 THEN NoRotation ELSE [rot EXCEPT !.step = @ + 1]
      /\ UNCHANGED <<ring, wr, sealed, minted>>
  BY DEF RotateStep
<1>1. CASE rot.step = 1
  BY <1>0, <1>1, KeyFileStep DEF Wrote, StepOrder
<1>2. CASE rot.step = 2
  BY <1>0, <1>2, KeyRowStep DEF Wrote, StepOrder
<1>3. CASE rot.step = 3
  BY <1>0, <1>3, KeyInstall DEF Wrote, StepOrder
<1>4. CASE rot.step = 4
  BY <1>0, <1>4, KeyPromote DEF Wrote, StepOrder
<1>5. CASE rot.step = 5
  BY <1>0, <1>5, KeyAdopt DEF Wrote, StepOrder
<1>6. CASE rot.step = 6
  BY <1>0, <1>6, KeyRename DEF Wrote, StepOrder
<1>. QED  BY <1>0, <1>1, <1>2, <1>3, <1>4, <1>5, <1>6

LEMMA KeyRotateError == ASSUME SafeErrors, KeyInv, RotateError PROVE KeyInv'
<1>0. /\ rot.step \in 1 .. 6 /\ StepOrder[rot.step] \in {2, 3}
      /\ Wrote(StepOrder[rot.step]) \/ UNCHANGED <<kms, dekFile, nextFile, rows, env>>
      /\ rot' = NoRotation /\ UNCHANGED <<ring, wr, sealed, minted>>
  BY DEF RotateError, SafeErrors
<1>1. rot.step = 1 \/ rot.step = 2
  BY <1>0 DEF StepOrder
<1>2. CASE rot.step = 1
  BY <1>0, <1>2, KeyFileStep DEF Wrote, StepOrder
<1>3. CASE rot.step = 2
  BY <1>0, <1>3, KeyRowStep DEF Wrote, StepOrder
<1>. QED  BY <1>1, <1>2, <1>3

\* A roll: the data keys become the previous ones, which keep every old ciphertext readable.
LEMMA KeyRoll == ASSUME KeyInv, RollDeks PROVE KeyInv'
<1>. DEFINE fresh == [t \in DOMAIN env.deks |-> 1]
<1>0. /\ KeyTypes /\ MemoryInv /\ RotationInv /\ ring = "open" /\ kms <= minted
      /\ rot.step = 0 /\ wr.step = "idle" /\ NextStale /\ dekFile = kms
      /\ UNCHANGED <<kms, dekFile, nextFile, ring, rot, wr, minted, keyFaults>>
  BY DEF KeyInv, RollDeks, CreationFree, RotationInv
<1>1. /\ env \in [kek : 0 .. MaxKeks, deks : DekMap, prev : DekMap, wraps : WrapMap]
      /\ env.deks \in DekMap /\ env.prev \in DekMap /\ env.wraps \in WrapMap
      /\ rows \in [deks : DekRow, prev : DekRow, next : DekRow, prevNext : DekRow]
      /\ rows.deks.wraps \in WrapMap /\ rows.prev.wraps \in WrapMap
      /\ kms \in 0 .. MaxKeks /\ sealed \subseteq Tenants \X {0, 1}
  BY <1>0 DEF KeyTypes, DekRow
<1>2. /\ env.kek = kms /\ env.wraps = WrapAll(env.deks, kms) /\ env.deks # NoWraps
      /\ env.prev = KeysOf(rows.prev.wraps)
      /\ \A t \in DOMAIN rows.deks.wraps : t \in DOMAIN env.deks /\ env.deks[t] = rows.deks.wraps[t].gen
  BY <1>0 DEF MemoryInv
<1>3. Good(rows.deks, rows.prev, kms, sealed)
  BY <1>0, ChosenOpen DEF KeyInv
<1>4. PICK s \in SUBSET {c[1] : c \in sealed} :
         sealed' = sealed \cup {<<t, env'.deks[t]>> : t \in s \cap DOMAIN env'.prev}
  BY DEF RollDeks
<1>5. CASE rows.prev.present
  <2>1. rows' = rows /\ env' = env
    BY <1>5 DEF RollDeks
  <2>2. DOMAIN env.prev = DOMAIN rows.prev.wraps
    BY <1>1, <1>2, KeysOfMap
  <2>3. \A t \in DOMAIN env.prev : t \in DOMAIN rows.deks.wraps /\ rows.deks.wraps[t].gen = env.deks[t]
                                   /\ t \in Tenants /\ env.deks[t] \in {0, 1}
    BY <1>1, <1>2, <1>3, <2>2, DekMapDef DEF Good
  <2>4. sealed' \subseteq Tenants \X {0, 1}
    BY <1>1, <1>4, <2>1, <2>3
  <2>5. KeyTypes'
    BY <1>0, <2>1, <2>4 DEF KeyTypes
  <2>6. Covers(rows.deks, rows.prev, sealed')
    BY <1>3, <1>4, <2>1, <2>3 DEF Good, Covers
  <2>7. NextStale' /\ MemoryInv'
    BY <1>0, <2>1 DEF NextStale, MemoryInv
  <2>8. Good(ChosenRows.deks, ChosenRows.prev, kms, sealed)'
    BY <1>0, <1>3, <2>1, <2>5, <2>6, <2>7, ChosenStaleNext DEF Good
  <2>9. RotationInv'
    BY <1>0, <2>1, <2>7 DEF RotationInv
  <2>. QED  BY <1>0, <2>5, <2>7, <2>8, <2>9 DEF KeyInv
<1>6. CASE ~rows.prev.present
  <2>. DEFINE w == WrapAll(fresh, kms)
  <2>1. fresh \in DekMap /\ DOMAIN fresh = DOMAIN env.deks /\ fresh # NoWraps
        /\ \A t \in DOMAIN fresh : fresh[t] = 1
    BY <1>1, <1>2, DekMapDef, EmptyMap
  <2>2. /\ rows' = [rows EXCEPT !.prev = Present(env.wraps), !.deks = Present(w)]
        /\ env' = [env EXCEPT !.prev = env.deks, !.deks = fresh, !.wraps = w]
    BY <1>2, <1>6 DEF RollDeks
  <2>. HIDE DEF fresh
  <2>3. /\ w \in WrapMap /\ DOMAIN w = DOMAIN fresh /\ UnwrapsAll(w, kms) /\ w # NoWraps
        /\ \A t \in DOMAIN fresh : w[t].gen = fresh[t]
    BY <1>1, <2>1, WrapAllMap
  <2>4. /\ DOMAIN env.wraps = DOMAIN env.deks /\ UnwrapsAll(env.wraps, kms)
        /\ env.wraps # NoWraps /\ KeysOf(env.wraps) = env.deks
        /\ \A t \in DOMAIN env.deks : env.wraps[t].gen = env.deks[t]
    BY <1>1, <1>2, WrapAllMap
  <2>5. Present(w) \in DekRow /\ Present(env.wraps) \in DekRow
    BY <1>1, <2>3, RowOfRow
  <2>5a. /\ Present(w).wraps = w /\ Present(env.wraps).wraps = env.wraps /\ Present(env.wraps).present
    BY DEF Present
  <2>6. env'.wraps = WrapAll(fresh, kms)
    BY <1>1, <2>2
  <2>. HIDE DEF w
  <2>7. /\ rows' \in [deks : DekRow, prev : DekRow, next : DekRow, prevNext : DekRow]
        /\ rows'.deks = Present(w) /\ rows'.prev = Present(env.wraps) /\ rows'.next = rows.next
    BY <1>1, <2>2, <2>5
  <2>8. /\ env' \in [kek : 0 .. MaxKeks, deks : DekMap, prev : DekMap, wraps : WrapMap]
        /\ env'.deks = fresh /\ env'.prev = env.deks /\ env'.kek = kms
    BY <1>1, <1>2, <2>1, <2>2, <2>3
  <2>9. \A t \in DOMAIN env.deks : t \in Tenants /\ env'.deks[t] = 1
    BY <1>1, <2>1, <2>8, DekMapDef
  <2>10. sealed' \subseteq Tenants \X {0, 1}
    BY <1>1, <1>4, <2>8, <2>9
  <2>11. KeyTypes'
    BY <1>0, <2>7, <2>8, <2>10 DEF KeyTypes
  <2>12. NextStale'
    BY <1>0, <2>7 DEF NextStale
  <2>13. Covers(rows'.deks, rows'.prev, sealed')
    <3>1. rows.prev.wraps = NoWraps
      BY <1>3, <1>6 DEF Good
    <3>2. ASSUME NEW x \in sealed PROVE x[1] \in DOMAIN env.wraps /\ env.wraps[x[1]].gen = x[2]
      BY <1>2, <1>3, <2>4, <3>1, <3>2, NoWrapsMap DEF Good, Covers
    <3>3. ASSUME NEW t \in DOMAIN env.deks PROVE t \in DOMAIN w /\ w[t].gen = env'.deks[t]
      BY <2>1, <2>3, <2>8, <3>3
    <3>. QED  BY <1>4, <2>5a, <2>7, <2>8, <3>2, <3>3 DEF Covers
  <2>14. Good(ChosenRows.deks, ChosenRows.prev, kms, sealed)'
    <3>1. DOMAIN rows'.prev.wraps \subseteq DOMAIN rows'.deks.wraps
      BY <2>1, <2>3, <2>4, <2>5a, <2>7
    <3>2. Good(rows'.deks, rows'.prev, kms, sealed')
      BY <2>3, <2>4, <2>5a, <2>7, <2>13, <3>1 DEF Good
    <3>. QED  BY <1>0, <2>11, <2>12, <3>2, ChosenStaleNext
  <2>15. MemoryInv'
    BY <1>0, <2>1, <2>3, <2>4, <2>5a, <2>6, <2>7, <2>8 DEF MemoryInv
  <2>16. RotationInv'
    BY <1>0, <2>12 DEF RotationInv
  <2>. QED  BY <1>0, <2>11, <2>14, <2>15, <2>16 DEF KeyInv
<1>. QED  BY <1>5, <1>6

\* KeyInv implies the promise of the key ring.
LEMMA KeyInvSafe == ASSUME KeyInv PROVE KeysSafe
<1>0. KeyTypes /\ MemoryInv /\ RotationInv /\ ring # "refused"
      /\ Good(ChosenRows.deks, ChosenRows.prev, kms, sealed)
  BY DEF KeyInv
<1>1. KeyTypeOK
  <2>1. \A w \in WrapMap : DOMAIN w \subseteq Tenants /\ \A t \in DOMAIN w : w[t].kek \in 0 .. MaxKeks
    BY WrapMapDef DEF Wrap
  <2>2. \A w \in {env.wraps, rows.deks.wraps, rows.prev.wraps, rows.next.wraps} : w \in WrapMap
    BY <1>0 DEF KeyTypes, DekRow
  <2>. QED  BY <1>0, <2>1, <2>2 DEF KeyTypeOK, KeyTypes
<1>2. StoreKeyOpens
  BY <1>0 DEF StoreKeyOpens, RotationInv, KeyTypes
<1>3. FieldsReadable
  BY <1>0 DEF FieldsReadable, Loads, Good, Covers
<1>4. OneKek
  <2>1. SUFFICES ASSUME ring = "open", rot.step = 0
                 PROVE  /\ dekFile = kms /\ env.kek = kms
                        /\ UnwrapsAll(rows.deks.wraps, kms) /\ UnwrapsAll(rows.prev.wraps, kms)
                        /\ UnwrapsAll(env.wraps, kms)
    BY DEF OneKek
  <2>2. Good(rows.deks, rows.prev, kms, sealed)
    BY <1>0, <2>1, ChosenOpen
  <2>3. env.deks \in DekMap /\ kms \in 0 .. MaxKeks /\ env.wraps = WrapAll(env.deks, kms) /\ env.kek = kms
    BY <1>0, <2>1 DEF KeyTypes, MemoryInv
  <2>. QED  BY <1>0, <2>1, <2>2, <2>3, WrapAllMap DEF Good, RotationInv
<1>. QED  BY <1>1, <1>2, <1>3, <1>4 DEF KeysSafe

\* A rotation cut off anywhere by a crash, tenants created beside it, rolls, and errors of the
\* steps before the KEK is installed (keyring.rs, rotate_steps) never leave a store that the next
\* open refuses or cannot read: the installed KEK opens <dek> or <dek>.next, every committed
\* ciphertext has its data key, and between rotations one KEK wraps everything.
THEOREM KeysAlwaysSafe == ASSUME SafeErrors PROVE KeySpec => []KeysSafe
<1>1. KeyInit => KeyInv
  BY KeyInvInit
<1>2. KeyInv /\ [KeyNext]_keyVars => KeyInv'
  <2>1. SUFFICES ASSUME KeyInv, [KeyNext]_keyVars PROVE KeyInv'
    OBVIOUS
  <2>2. CASE UNCHANGED keyVars
    <3>1. KeyTypes' /\ MemoryInv' /\ RotationInv'
      BY <2>1, <2>2 DEF KeyInv, KeyTypes, MemoryInv, RotationInv, NextStale, keyVars
    <3>. QED  BY <2>1, <2>2, <3>1, KeepGood DEF KeyInv, keyVars
  <2>. QED  BY <2>1, <2>2, KeyEncrypt, KeyPersist, KeyCommit, KeyMint, KeyRotateStep,
               KeyRotateError, KeyRoll, KeyCrashes, KeyOpenRing, KeyOpenDeks DEF KeyNext
<1>. QED  BY <1>1, <1>2, KeyInvSafe, PTL DEF KeySpec

-----------------------------------------------------------------------------
(* VectorIndex *)

\* The events of k the index takes notice of in a journal, and the last of them.
NoticedIn(l, k) == {i \in 1 .. Len(l) : l[i].koid = k /\ l[i].op # "blank" /\ Taken(l, i)}
LastIn(l, k) == l[CHOOSE i \in NoticedIn(l, k) : \A j \in NoticedIn(l, k) : j <= i]

\* No event after the first a is noticed of k.
Settled(l, k, a) == NoticedIn(l, k) # {} /\ \A i \in NoticedIn(l, k) : i <= a

\* k is deleted after the first a events.
DelAhead(l, k, a) == \E i \in 1 .. Len(l) : i > a /\ l[i].koid = k /\ l[i].op = "del"

\* What the last event e of k asks of a graph, of the live entries and of the tombstones.
GraphHas(e, k, g) == e.op = "up" => <<k, e.vec>> \in g
Lists(e, k, m) == (e.op = "up" => k \in m) /\ (e.op = "del" => k \notin m)
Unburied(e, k, t) == e.op = "up" => k \notin t

\* The events whose effect on the index is complete.
Effective == IF mt.step \in {"commit", "rebuild", "clear"} THEN mt.applied + 1 ELSE mt.applied

VecTypes ==
    /\ vlog \in Seq(VecEvents) /\ graph \subseteq VecKoids \X (Vecs \cup {NoCode})
    /\ DOMAIN modelMap \subseteq VecKoids /\ IsFiniteSet(DOMAIN modelMap)
    /\ modelMap \in [DOMAIN modelMap -> Vecs \cup {NoCode}]
    /\ tombstones \subseteq VecKoids /\ physical \in Nat /\ pendingRebuild \in BOOLEAN
    /\ mt \in [step : {"next", "map", "end", "commit", "rebuild", "clear"}, applied : 0 .. Len(vlog), batches : Nat]
    /\ mt.step # "next" => mt.applied < Len(vlog)

\* What the event under way has done so far.
BatchInv ==
    /\ mt.step \in {"map", "end"} => Event.op # "blank" /\ Taken(vlog, mt.applied + 1)
                                /\ (Event.op = "up" => <<Event.koid, Event.vec>> \in graph)
    /\ mt.step = "end" =>
          /\ Event.op = "up" => Event.koid \in DOMAIN modelMap /\ modelMap[Event.koid] = Event.vec
          /\ Event.op = "del" => Event.koid \notin DOMAIN modelMap

\* The index is right about every object that no later event is about.
SettledInv ==
    \A k \in VecKoids : Settled(vlog, k, Effective) =>
        /\ GraphHas(LastIn(vlog, k), k, graph)
        /\ Lists(LastIn(vlog, k), k, DOMAIN modelMap)
        /\ Unburied(LastIn(vlog, k), k, tombstones)
        /\ LastIn(vlog, k).op = "up" => modelMap[k] \in {LastIn(vlog, k).vec, NoCode}

\* Without nodes, every live entry is about to be deleted.
CountInv == physical = 0 => \A k \in DOMAIN modelMap : DelAhead(vlog, k, Effective)

\* The parts a checkpoint has read are right about every object that no event after its water
\* mark is about.
CkptInv ==
    /\ ck.step \in {"off", "graph", "models", "tombs", "publish"}
    /\ ck.step # "off" => ck.water \in 0 .. mt.applied
    /\ ck.step \in {"models", "tombs", "publish"} =>
          /\ ck.graph \subseteq VecKoids \X (Vecs \cup {NoCode})
          /\ \A k \in VecKoids : Settled(vlog, k, ck.water) => GraphHas(LastIn(vlog, k), k, ck.graph)
    /\ ck.step \in {"tombs", "publish"} =>
          /\ ck.models \subseteq VecKoids /\ IsFiniteSet(ck.models)
          /\ \A k \in VecKoids : Settled(vlog, k, ck.water) => Lists(LastIn(vlog, k), k, ck.models)
          /\ \A k \in ck.models : k \in DOMAIN modelMap \/ DelAhead(vlog, k, ck.water)
    /\ ck.step = "publish" =>
          /\ ck.tombs \subseteq VecKoids
          /\ \A k \in VecKoids : Settled(vlog, k, ck.water) => Unburied(LastIn(vlog, k), k, ck.tombs)

\* So is the published checkpoint.
SavedInv ==
    saved # NoCkpt =>
        /\ saved.water \in 0 .. Len(vlog) /\ saved.graph \subseteq VecKoids \X (Vecs \cup {NoCode})
        /\ saved.models \subseteq VecKoids /\ IsFiniteSet(saved.models) /\ saved.tombs \subseteq VecKoids
        /\ saved.physical \in Nat /\ saved.pending \in BOOLEAN
        /\ \A k \in VecKoids : Settled(vlog, k, saved.water) =>
              /\ GraphHas(LastIn(vlog, k), k, saved.graph)
              /\ Lists(LastIn(vlog, k), k, saved.models)
              /\ Unburied(LastIn(vlog, k), k, saved.tombs)
        /\ saved.physical = 0 => \A k \in saved.models : DelAhead(vlog, k, saved.water)

\* The shard, or its checkpoint, has the dimension of the journal's first vector once it has seen
\* one.
Begun == IF mt.step = "next" THEN mt.applied ELSE mt.applied + 1
DimIs(d, a) ==
    /\ d \in Nat
    /\ d # 0 => \E j \in 1 .. Len(vlog) : FirstUp(vlog, j) /\ d = DimOf[vlog[j].vec]
    /\ \A i \in 1 .. Len(vlog) : vlog[i].op = "up" /\ i <= a => d # 0
DimInv == DimIs(vdim, Begun) /\ (saved # NoCkpt => DimIs(saved.dim, saved.water))

VecInv == VecTypes /\ BatchInv /\ SettledInv /\ CountInv /\ CkptInv /\ SavedInv

-----------------------------------------------------------------------------
(* What a journal settles *)

LEMMA SettledMore ==
  ASSUME NEW l, NEW k, NEW a \in Nat, NEW b \in Nat, a <= b, Settled(l, k, a)
  PROVE  Settled(l, k, b) /\ ~ DelAhead(l, k, a)
<1>1. \A i \in NoticedIn(l, k) : i \in Int
  BY DEF NoticedIn
<1>2. Settled(l, k, b)
  BY <1>1 DEF Settled
<1>3. ASSUME DelAhead(l, k, a) PROVE FALSE
  <2>1. PICK i \in 1 .. Len(l) : i > a /\ l[i].koid = k /\ l[i].op = "del"
    BY <1>3 DEF DelAhead
  <2>2. i \in NoticedIn(l, k)
    BY <2>1 DEF NoticedIn, Taken
  <2>. QED  BY <2>1, <2>2 DEF Settled
<1>. QED  BY <1>2, <1>3

LEMMA DelLess ==
  ASSUME NEW l, NEW k, NEW a \in Nat, NEW b \in Nat, a <= b, DelAhead(l, k, b)
  PROVE  DelAhead(l, k, a)
BY DEF DelAhead

\* The event that settles an object is its last one.
LEMMA LastSettled ==
  ASSUME NEW l, NEW k, NEW a \in Nat, Settled(l, k, a), a \in NoticedIn(l, k)
  PROVE  LastIn(l, k) = l[a]
<1>1. \A j \in NoticedIn(l, k) : j <= a /\ j \in Int
  BY DEF Settled, NoticedIn
<1>2. \A i \in NoticedIn(l, k) : (\A j \in NoticedIn(l, k) : j <= i) => i = a
  BY <1>1
<1>3. (CHOOSE i \in NoticedIn(l, k) : \A j \in NoticedIn(l, k) : j <= i) = a
  BY <1>1, <1>2
<1>. QED  BY <1>3 DEF LastIn

LEMMA SettledLess ==
  ASSUME NEW l, NEW k, NEW a \in Nat, Settled(l, k, a + 1), a + 1 \notin NoticedIn(l, k)
  PROVE  Settled(l, k, a)
<1>1. \A i \in NoticedIn(l, k) : i \in Int /\ i <= a + 1 /\ i # a + 1
  BY DEF Settled, NoticedIn
<1>2. \A i \in NoticedIn(l, k) : i <= a
  BY <1>1
<1>. QED  BY <1>2 DEF Settled

LEMMA EventIs ==
  ASSUME VecTypes, mt.applied < Len(vlog)
  PROVE  /\ mt.applied \in Nat /\ mt.applied + 1 \in 1 .. Len(vlog) /\ Event = vlog[mt.applied + 1]
         /\ Event.koid \in VecKoids /\ Event.op \in {"up", "blank", "del"} /\ Event.vec \in Vecs \cup {NoCode}
         /\ \A k : mt.applied + 1 \in NoticedIn(vlog, k) <=> Event.koid = k /\ Event.op # "blank" /\ Taken(vlog, mt.applied + 1)
<1>1. mt.applied \in Nat /\ mt.applied + 1 \in 1 .. Len(vlog) /\ Event = vlog[mt.applied + 1]
  BY DEF VecTypes, Event
<1>2. Event \in VecEvents
  BY <1>1 DEF VecTypes
<1>3. Event.koid \in VecKoids /\ Event.op \in {"up", "blank", "del"} /\ Event.vec \in Vecs \cup {NoCode}
  BY <1>2 DEF VecEvents
<1>. QED  BY <1>1, <1>3 DEF NoticedIn

-----------------------------------------------------------------------------
(* VecInv is inductive *)

LEMMA VecInvInit == VecInit => VecInv
<1>. SUFFICES ASSUME VecInit PROVE VecInv
  OBVIOUS
<1>1. VecTypes
  <2>1. vlog \in Seq(VecEvents)
    BY VectorIndexAssumption DEF VecInit
  <2>2. DOMAIN modelMap = {} /\ modelMap \in [{} -> Vecs \cup {NoCode}]
    BY DEF VecInit, NoMap
  <2>3. IsFiniteSet(DOMAIN modelMap)
    BY <2>2, FS_EmptySet
  <2>4. /\ graph = {} /\ tombstones = {} /\ physical = 0 /\ pendingRebuild = FALSE /\ Len(vlog) \in Nat
        /\ mt = [step |-> "next", applied |-> 0, batches |-> 0]
    BY <2>1 DEF VecInit, Fresh
  <2>5. modelMap \in [DOMAIN modelMap -> Vecs \cup {NoCode}]
    BY <2>2
  <2>6. mt \in [step : {"next", "map", "end", "commit", "rebuild", "clear"}, applied : 0 .. Len(vlog), batches : Nat]
    BY <2>4
  <2>7. mt.step = "next"
    BY <2>4
  <2>. QED  BY <2>1, <2>2, <2>3, <2>4, <2>5, <2>6, <2>7 DEF VecTypes
<1>2. BatchInv /\ CountInv
  BY DEF VecInit, BatchInv, CountInv, Fresh, NoMap
<1>3. SettledInv
  <2>1. \A k : ~ Settled(vlog, k, 0)
    BY DEF Settled, NoticedIn
  <2>. QED  BY <2>1 DEF SettledInv, Effective, VecInit, Fresh
<1>4. CkptInv /\ SavedInv
  BY DEF CkptInv, SavedInv, VecInit, NotTaking
<1>. QED  BY <1>1, <1>2, <1>3, <1>4 DEF VecInv

\* The maintainer's steps keep what a checkpoint has read, if no live entry goes unless its
\* object is deleted.
LEMMA CkptKept ==
  ASSUME VecInv, UNCHANGED <<vlog, ck, saved>>, mt'.applied \in Nat, mt.applied <= mt'.applied,
         \A k \in DOMAIN modelMap : k \in DOMAIN modelMap' \/ DelAhead(vlog, k, mt.applied)
  PROVE  CkptInv' /\ SavedInv'
<1>0. VecTypes /\ CkptInv /\ SavedInv /\ mt.applied \in Nat
  BY DEF VecInv, VecTypes
<1>1. SavedInv'
  BY <1>0 DEF SavedInv
<1>2. ck.step # "off" => ck.water \in Nat /\ ck.water <= mt.applied /\ ck.water \in 0 .. mt'.applied
  BY <1>0 DEF CkptInv
<1>3. ck.step \in {"tombs", "publish"} =>
         \A k \in ck.models : k \in DOMAIN modelMap' \/ DelAhead(vlog, k, ck.water)
  <2>1. ASSUME ck.step \in {"tombs", "publish"}, NEW k \in ck.models, k \notin DOMAIN modelMap'
        PROVE  DelAhead(vlog, k, ck.water)
    <3>1. k \in DOMAIN modelMap \/ DelAhead(vlog, k, ck.water)
      BY <1>0, <2>1 DEF CkptInv
    <3>2. CASE k \in DOMAIN modelMap
      BY <1>0, <1>2, <2>1, <3>2, DelLess
    <3>. QED  BY <3>1, <3>2
  <2>. QED  BY <2>1
<1>4. CkptInv'
  BY <1>0, <1>2, <1>3 DEF CkptInv
<1>. QED  BY <1>1, <1>4

LEMMA TakenIs ==
  ASSUME VecTypes, DimInv, mt.step = "next", mt.applied < Len(vlog), Event.op = "up"
  PROVE  Taken(vlog, mt.applied + 1) <=> ~Mismatched
<1>. PICK n \in 1 .. Len(vlog) : n = mt.applied + 1 /\ vlog[n].op = "up" /\ Event = vlog[n]
  BY EventIs
<1>0. DimIs(vdim, mt.applied) /\ mt.applied \in Nat
  BY EventIs DEF DimInv, Begun
<1>1. CASE vdim = 0
  <2>1. FirstUp(vlog, n)
    BY <1>0, <1>1 DEF DimIs, FirstUp
  <2>. QED  BY <1>1, <2>1 DEF Taken, Mismatched
<1>2. CASE vdim # 0
  <2>1. PICK j \in 1 .. Len(vlog) : FirstUp(vlog, j) /\ vdim = DimOf[vlog[j].vec]
    BY <1>0, <1>2 DEF DimIs
  <2>2. \A h \in 1 .. Len(vlog) : FirstUp(vlog, h) => h = j
    BY <2>1 DEF FirstUp
  <2>. QED  BY <1>2, <2>1, <2>2 DEF Taken, Mismatched
<1>. QED  BY <1>1, <1>2

\* Applying an event, in its steps.
LEMMA VecApply1 == ASSUME VecInv, DimInv, Apply1 PROVE VecInv'
<1>0. VecTypes /\ BatchInv /\ SettledInv /\ CountInv /\ mt.step = "next" /\ mt.applied < Len(vlog)
      /\ UNCHANGED <<vlog, modelMap, physical, pendingRebuild, ck, saved>>
  BY DEF VecInv, Apply1
<1>1. /\ mt.applied \in Nat /\ mt.applied + 1 \in 1 .. Len(vlog) /\ Event = vlog[mt.applied + 1]
      /\ Event.koid \in VecKoids /\ Event.op \in {"up", "blank", "del"} /\ Event.vec \in Vecs \cup {NoCode}
      /\ \A k : mt.applied + 1 \in NoticedIn(vlog, k) <=> Event.koid = k /\ Event.op # "blank" /\ Taken(vlog, mt.applied + 1)
  BY <1>0, EventIs
<1>. PICK skips \in BOOLEAN : skips <=> Event.op = "blank" \/ ~Taken(vlog, mt.applied + 1)
  OBVIOUS
<1>10. (Event.op = "up" => (skips <=> Mismatched)) /\ (Event.op # "up" => (skips <=> Event.op = "blank"))
       /\ (Event.op # "up" => ~Mismatched)
  BY <1>0, <1>1, TakenIs DEF Taken, Mismatched
<1>2. /\ mt' = [mt EXCEPT !.step = IF skips THEN "commit" ELSE "map"]
      /\ graph' = IF Event.op = "up" /\ ~skips THEN graph \cup {<<Event.koid, Event.vec>>} ELSE graph
      /\ tombstones' = IF Event.op = "del" THEN tombstones \cup {Event.koid} ELSE tombstones
  BY <1>1, <1>10 DEF Apply1, Goto
<1>3. /\ mt' \in [step : {"next", "map", "end", "commit", "rebuild", "clear"}, applied : 0 .. Len(vlog), batches : Nat]
      /\ mt'.applied = mt.applied /\ mt'.step = IF skips THEN "commit" ELSE "map"
      /\ Event' = Event
  BY <1>0, <1>2 DEF VecTypes, Event
<1>4. VecTypes'
  <2>1. graph' \subseteq VecKoids \X (Vecs \cup {NoCode}) /\ tombstones' \subseteq VecKoids
    BY <1>0, <1>1, <1>2 DEF VecTypes
  <2>. QED  BY <1>0, <1>3, <2>1 DEF VecTypes
<1>5. BatchInv'
  BY <1>0, <1>1, <1>2, <1>3 DEF BatchInv
<1>6. \A k \in VecKoids : Settled(vlog, k, Effective') => Settled(vlog, k, Effective)
  BY <1>0, <1>1, <1>3, SettledLess DEF Effective
<1>7. SettledInv'
  <2>1. SUFFICES ASSUME NEW k \in VecKoids, Settled(vlog, k, Effective')
                 PROVE  /\ GraphHas(LastIn(vlog, k), k, graph')
                        /\ Lists(LastIn(vlog, k), k, DOMAIN modelMap)
                        /\ Unburied(LastIn(vlog, k), k, tombstones')
                        /\ LastIn(vlog, k).op = "up" => modelMap[k] \in {LastIn(vlog, k).vec, NoCode}
    BY <1>0 DEF SettledInv
  <2>2. Settled(vlog, k, mt.applied) /\ Effective = mt.applied
    BY <1>0, <1>6, <2>1 DEF Effective
  <2>3. ~skips => k # Event.koid
    <3>1. mt.applied + 1 \notin NoticedIn(vlog, k)
      BY <1>1, <2>2 DEF Settled
    <3>. QED  BY <1>1, <3>1
  <2>4. /\ GraphHas(LastIn(vlog, k), k, graph)
        /\ Lists(LastIn(vlog, k), k, DOMAIN modelMap)
        /\ Unburied(LastIn(vlog, k), k, tombstones)
        /\ LastIn(vlog, k).op = "up" => modelMap[k] \in {LastIn(vlog, k).vec, NoCode}
    BY <1>0, <2>2 DEF SettledInv
  <2>5. Event.op = "del" => ~skips
    BY <1>10
  <2>. QED  BY <1>2, <2>3, <2>4, <2>5 DEF GraphHas, Unburied
<1>8. CountInv'
  <2>1. SUFFICES ASSUME physical = 0, NEW k \in DOMAIN modelMap PROVE DelAhead(vlog, k, Effective')
    BY <1>0 DEF CountInv
  <2>2. DelAhead(vlog, k, mt.applied)
    BY <1>0, <2>1 DEF CountInv, Effective
  <2>3. CASE ~skips
    BY <1>3, <2>2, <2>3 DEF Effective
  <2>4. CASE skips
    <3>1. Effective' = mt.applied + 1
      BY <1>3, <2>4 DEF Effective
    <3>2. PICK i \in 1 .. Len(vlog) : i > mt.applied /\ vlog[i].koid = k /\ vlog[i].op = "del"
      BY <2>2 DEF DelAhead
    <3>3. i # mt.applied + 1
      BY <1>1, <1>10, <2>4, <3>2
    <3>. QED  BY <1>1, <3>1, <3>2, <3>3 DEF DelAhead
  <2>. QED  BY <2>3, <2>4
<1>9. CkptInv' /\ SavedInv'
  BY <1>0, <1>1, <1>3, CkptKept
<1>. QED  BY <1>4, <1>5, <1>7, <1>8, <1>9 DEF VecInv

LEMMA VecApply2 == ASSUME VecInv, Apply2 PROVE VecInv'
<1>0. VecTypes /\ BatchInv /\ SettledInv /\ CountInv /\ mt.step = "map" /\ mt.applied < Len(vlog)
      /\ UNCHANGED <<vlog, graph, tombstones, pendingRebuild, ck, saved>>
  BY DEF VecInv, Apply2, VecTypes
<1>1. /\ mt.applied \in Nat /\ mt.applied + 1 \in 1 .. Len(vlog) /\ Event = vlog[mt.applied + 1]
      /\ Event.koid \in VecKoids /\ Event.op \in {"up", "blank", "del"} /\ Event.vec \in Vecs \cup {NoCode}
      /\ \A k : mt.applied + 1 \in NoticedIn(vlog, k) <=> Event.koid = k /\ Event.op # "blank" /\ Taken(vlog, mt.applied + 1)
  BY <1>0, EventIs
<1>2. Event.op # "blank" /\ Taken(vlog, mt.applied + 1) /\ (Event.op = "up" => <<Event.koid, Event.vec>> \in graph)
  BY <1>0 DEF BatchInv
<1>3. /\ mt' = [mt EXCEPT !.step = "end"]
      /\ modelMap' = IF Event.op = "up" THEN WithEntry(Event.koid, Event.vec) ELSE EntriesLeft(Event.koid)
      /\ physical' = IF Event.op = "up" /\ Event.koid \notin DOMAIN modelMap THEN physical + 1 ELSE physical
  BY DEF Apply2, Goto
<1>4. /\ mt' \in [step : {"next", "map", "end", "commit", "rebuild", "clear"}, applied : 0 .. Len(vlog), batches : Nat]
      /\ mt'.applied = mt.applied /\ mt'.step = "end" /\ Event' = Event
      /\ Effective = mt.applied /\ Effective' = mt.applied
  BY <1>0, <1>3 DEF VecTypes, Event, Effective
<1>5. /\ DOMAIN modelMap' = IF Event.op = "up" THEN DOMAIN modelMap \cup {Event.koid} ELSE DOMAIN modelMap \ {Event.koid}
      /\ \A k \in DOMAIN modelMap' : modelMap'[k] = IF k = Event.koid THEN Event.vec ELSE modelMap[k]
      /\ modelMap' \in [DOMAIN modelMap' -> Vecs \cup {NoCode}]
  <2>1. CASE Event.op = "up"
    BY <1>0, <1>1, <1>3, <2>1 DEF WithEntry, VecTypes
  <2>2. CASE Event.op # "up"
    BY <1>0, <1>1, <1>3, <2>2 DEF EntriesLeft, VecTypes
  <2>. QED  BY <2>1, <2>2
<1>6. VecTypes'
  <2>1. IsFiniteSet(DOMAIN modelMap \cup {Event.koid}) /\ IsFiniteSet(DOMAIN modelMap \ {Event.koid})
    BY <1>0, FS_AddElement, FS_RemoveElement DEF VecTypes
  <2>2. DOMAIN modelMap' \subseteq VecKoids /\ IsFiniteSet(DOMAIN modelMap') /\ physical' \in Nat
    BY <1>0, <1>1, <1>3, <1>5, <2>1 DEF VecTypes
  <2>. QED  BY <1>0, <1>4, <1>5, <2>2 DEF VecTypes
<1>7. BatchInv'
  BY <1>0, <1>1, <1>2, <1>4, <1>5 DEF BatchInv
<1>8. SettledInv'
  <2>1. SUFFICES ASSUME NEW k \in VecKoids, Settled(vlog, k, mt.applied)
                 PROVE  /\ GraphHas(LastIn(vlog, k), k, graph)
                        /\ Lists(LastIn(vlog, k), k, DOMAIN modelMap')
                        /\ Unburied(LastIn(vlog, k), k, tombstones)
                        /\ LastIn(vlog, k).op = "up" => modelMap'[k] \in {LastIn(vlog, k).vec, NoCode}
    BY <1>0, <1>4 DEF SettledInv
  <2>2. k # Event.koid
    <3>1. mt.applied + 1 \notin NoticedIn(vlog, k)
      BY <1>1, <2>1 DEF Settled
    <3>. QED  BY <1>1, <1>2, <3>1
  <2>3. /\ GraphHas(LastIn(vlog, k), k, graph)
        /\ Lists(LastIn(vlog, k), k, DOMAIN modelMap)
        /\ Unburied(LastIn(vlog, k), k, tombstones)
        /\ LastIn(vlog, k).op = "up" => modelMap[k] \in {LastIn(vlog, k).vec, NoCode}
    BY <1>0, <1>4, <2>1 DEF SettledInv
  <2>4. Lists(LastIn(vlog, k), k, DOMAIN modelMap')
    BY <1>5, <2>2, <2>3 DEF Lists
  <2>. QED  BY <1>5, <2>2, <2>3, <2>4 DEF Lists
<1>9. CountInv'
  <2>1. SUFFICES ASSUME physical' = 0, NEW k \in DOMAIN modelMap' PROVE DelAhead(vlog, k, mt.applied)
    BY <1>0, <1>4 DEF CountInv
  <2>2. physical = 0 /\ k \in DOMAIN modelMap
    BY <1>0, <1>3, <1>5, <2>1 DEF VecTypes
  <2>. QED  BY <1>0, <1>4, <2>2 DEF CountInv
<1>10. CkptInv' /\ SavedInv'
  <2>1. \A k \in DOMAIN modelMap : k \in DOMAIN modelMap' \/ DelAhead(vlog, k, mt.applied)
    <3>1. ASSUME NEW k \in DOMAIN modelMap, k \notin DOMAIN modelMap' PROVE DelAhead(vlog, k, mt.applied)
      <4>1. k = Event.koid /\ Event.op = "del"
        BY <1>1, <1>2, <1>5, <3>1
      <4>. QED  BY <1>1, <4>1 DEF DelAhead
    <3>. QED  BY <3>1
  <2>. QED  BY <1>0, <1>1, <1>4, <2>1, CkptKept
<1>. QED  BY <1>6, <1>7, <1>8, <1>9, <1>10 DEF VecInv

LEMMA VecApply3 == ASSUME VecInv, Apply3 PROVE VecInv'
<1>0. VecTypes /\ BatchInv /\ SettledInv /\ CountInv /\ mt.step = "end" /\ mt.applied < Len(vlog)
      /\ UNCHANGED <<vlog, graph, modelMap, physical, ck, saved>>
  BY DEF VecInv, Apply3, VecTypes
<1>1. /\ mt.applied \in Nat /\ mt.applied + 1 \in 1 .. Len(vlog) /\ Event = vlog[mt.applied + 1]
      /\ Event.koid \in VecKoids /\ Event.op \in {"up", "blank", "del"} /\ Event.vec \in Vecs \cup {NoCode}
      /\ \A k : mt.applied + 1 \in NoticedIn(vlog, k) <=> Event.koid = k /\ Event.op # "blank" /\ Taken(vlog, mt.applied + 1)
  BY <1>0, EventIs
<1>2. /\ Event.op # "blank" /\ Taken(vlog, mt.applied + 1) /\ (Event.op = "up" => <<Event.koid, Event.vec>> \in graph)
      /\ Event.op = "up" => Event.koid \in DOMAIN modelMap /\ modelMap[Event.koid] = Event.vec
      /\ Event.op = "del" => Event.koid \notin DOMAIN modelMap
  BY <1>0 DEF BatchInv
<1>3. /\ mt' = [mt EXCEPT !.step = "commit"]
      /\ tombstones' = IF Event.op = "up" THEN tombstones \ {Event.koid} ELSE tombstones
      /\ pendingRebuild' \in BOOLEAN
  BY DEF Apply3, Goto
<1>4. /\ mt' \in [step : {"next", "map", "end", "commit", "rebuild", "clear"}, applied : 0 .. Len(vlog), batches : Nat]
      /\ mt'.applied = mt.applied /\ mt'.step = "commit"
      /\ Effective = mt.applied /\ Effective' = mt.applied + 1
  BY <1>0, <1>3 DEF VecTypes, Effective
<1>5. VecTypes'
  BY <1>0, <1>3, <1>4 DEF VecTypes
<1>6. BatchInv'
  BY <1>4 DEF BatchInv
<1>7. SettledInv'
  <2>1. SUFFICES ASSUME NEW k \in VecKoids, Settled(vlog, k, mt.applied + 1)
                 PROVE  /\ GraphHas(LastIn(vlog, k), k, graph)
                        /\ Lists(LastIn(vlog, k), k, DOMAIN modelMap)
                        /\ Unburied(LastIn(vlog, k), k, tombstones')
                        /\ LastIn(vlog, k).op = "up" => modelMap[k] \in {LastIn(vlog, k).vec, NoCode}
    BY <1>0, <1>4 DEF SettledInv
  <2>2. CASE k = Event.koid
    <3>1. LastIn(vlog, k) = Event
      BY <1>1, <1>2, <2>1, <2>2, LastSettled
    <3>. QED  BY <1>2, <1>3, <2>2, <3>1 DEF GraphHas, Lists, Unburied
  <2>3. CASE k # Event.koid
    <3>1. Settled(vlog, k, mt.applied)
      BY <1>1, <2>1, <2>3, SettledLess
    <3>2. /\ GraphHas(LastIn(vlog, k), k, graph)
          /\ Lists(LastIn(vlog, k), k, DOMAIN modelMap)
          /\ Unburied(LastIn(vlog, k), k, tombstones)
          /\ LastIn(vlog, k).op = "up" => modelMap[k] \in {LastIn(vlog, k).vec, NoCode}
      BY <1>0, <1>4, <3>1 DEF SettledInv
    <3>. QED  BY <1>3, <3>2 DEF Unburied
  <2>. QED  BY <2>2, <2>3
<1>8. CountInv'
  <2>1. SUFFICES ASSUME physical = 0, NEW k \in DOMAIN modelMap PROVE DelAhead(vlog, k, mt.applied + 1)
    BY <1>0, <1>4 DEF CountInv
  <2>2. PICK i \in 1 .. Len(vlog) : i > mt.applied /\ vlog[i].koid = k /\ vlog[i].op = "del"
    BY <1>0, <1>4, <2>1 DEF CountInv, DelAhead
  <2>3. i # mt.applied + 1
    BY <1>1, <1>2, <2>2
  <2>. QED  BY <1>1, <2>2, <2>3 DEF DelAhead
<1>9. CkptInv' /\ SavedInv'
  BY <1>0, <1>1, <1>4, CkptKept
<1>. QED  BY <1>5, <1>6, <1>7, <1>8, <1>9 DEF VecInv

\* A rebuild, in its steps.
LEMMA VecRebuild == ASSUME VecInv, RebuildTest \/ Rebuild \/ ClearTombstones PROVE VecInv'
<1>0. VecTypes /\ SettledInv /\ CountInv /\ mt.step \in {"commit", "rebuild", "clear"}
      /\ mt.applied < Len(vlog) /\ mt.applied \in Nat /\ mt.batches \in Nat
      /\ UNCHANGED <<vlog, modelMap, ck, saved>>
  <2>1. mt.step \in {"commit", "rebuild", "clear"} /\ UNCHANGED <<vlog, modelMap, ck, saved>>
    <3>1. CASE RebuildTest
      BY <3>1 DEF RebuildTest
    <3>2. CASE Rebuild
      BY <3>2 DEF Rebuild
    <3>3. CASE ClearTombstones
      BY <3>3 DEF ClearTombstones
    <3>. QED  BY <3>1, <3>2, <3>3
  <2>. QED  BY <2>1 DEF VecInv, VecTypes
<1>1. /\ mt' \in [step : {"next", "map", "end", "commit", "rebuild", "clear"}, applied : 0 .. Len(vlog), batches : Nat]
      /\ pendingRebuild' \in BOOLEAN
      /\ \/ mt'.step \in {"rebuild", "clear"} /\ mt'.applied = mt.applied
         \/ mt'.step = "next" /\ mt'.applied = mt.applied + 1
  <2>1. ASSUME NEW s \in {"rebuild", "clear"}, Goto(s)
        PROVE  /\ mt' \in [step : {"next", "map", "end", "commit", "rebuild", "clear"}, applied : 0 .. Len(vlog), batches : Nat]
               /\ mt'.step \in {"rebuild", "clear"} /\ mt'.applied = mt.applied
    BY <1>0, <2>1 DEF Goto, VecTypes
  <2>2. ASSUME NEW b \in BOOLEAN, EndBatch(b)
        PROVE  /\ mt' \in [step : {"next", "map", "end", "commit", "rebuild", "clear"}, applied : 0 .. Len(vlog), batches : Nat]
               /\ pendingRebuild' \in BOOLEAN /\ mt'.step = "next" /\ mt'.applied = mt.applied + 1
    BY <1>0, <2>2 DEF EndBatch, VecTypes
  <2>3. pendingRebuild \in BOOLEAN
    BY <1>0 DEF VecTypes
  <2>4. CASE RebuildTest
    BY <2>1, <2>2, <2>4 DEF RebuildTest
  <2>5. CASE Rebuild
    BY <2>1, <2>2, <2>3, <2>5 DEF Rebuild
  <2>6. CASE ClearTombstones
    BY <2>2, <2>3, <2>6 DEF ClearTombstones
  <2>. QED  BY <2>4, <2>5, <2>6
<1>2. Effective = mt.applied + 1 /\ Effective' = Effective
  BY <1>0, <1>1 DEF Effective
<1>3. /\ tombstones' \subseteq tombstones
      /\ \/ graph' = graph /\ physical' = physical
         \/ /\ LiveReady /\ graph' = {<<k, modelMap[k]>> : k \in DOMAIN modelMap}
            /\ physical' = Cardinality(DOMAIN modelMap)
  BY DEF RebuildTest, Rebuild, ClearTombstones
<1>4. VecTypes'
  <2>1. Cardinality(DOMAIN modelMap) \in Nat
    BY <1>0, FS_CardinalityType DEF VecTypes
  <2>2. graph' \subseteq VecKoids \X (Vecs \cup {NoCode}) /\ physical' \in Nat
    BY <1>0, <1>3, <2>1 DEF VecTypes
  <2>. QED  BY <1>0, <1>1, <1>3, <2>2 DEF VecTypes
<1>5. BatchInv'
  BY <1>1 DEF BatchInv
<1>6. SettledInv'
  <2>1. SUFFICES ASSUME NEW k \in VecKoids, Settled(vlog, k, Effective)
                 PROVE  /\ GraphHas(LastIn(vlog, k), k, graph')
                        /\ Lists(LastIn(vlog, k), k, DOMAIN modelMap)
                        /\ Unburied(LastIn(vlog, k), k, tombstones')
                        /\ LastIn(vlog, k).op = "up" => modelMap[k] \in {LastIn(vlog, k).vec, NoCode}
    BY <1>0, <1>2 DEF SettledInv
  <2>2. /\ GraphHas(LastIn(vlog, k), k, graph)
        /\ Lists(LastIn(vlog, k), k, DOMAIN modelMap)
        /\ Unburied(LastIn(vlog, k), k, tombstones)
        /\ LastIn(vlog, k).op = "up" => modelMap[k] \in {LastIn(vlog, k).vec, NoCode}
    BY <1>0, <2>1 DEF SettledInv
  <2>3. GraphHas(LastIn(vlog, k), k, graph')
    BY <1>3, <2>2 DEF GraphHas, Lists, LiveReady
  <2>. QED  BY <1>3, <2>2, <2>3 DEF Unburied
<1>7. CountInv'
  <2>1. CASE physical' = physical
    BY <1>0, <1>2, <2>1 DEF CountInv
  <2>2. CASE physical' = Cardinality(DOMAIN modelMap)
    <3>1. physical' = 0 => DOMAIN modelMap = {}
      BY <1>0, <2>2, FS_EmptySet DEF VecTypes
    <3>. QED  BY <1>0, <3>1 DEF CountInv
  <2>. QED  BY <1>3, <2>1, <2>2
<1>8. CkptInv' /\ SavedInv'
  BY <1>0, <1>1, CkptKept
<1>. QED  BY <1>4, <1>5, <1>6, <1>7, <1>8 DEF VecInv

\* A checkpoint that reads the next part: the index is right about what is settled at its water
\* mark, which the maintainer has passed.
LEMMA VecRead == ASSUME VecInv, CkWater \/ CkGraph \/ CkModels \/ CkTombs PROVE VecInv'
<1>0. VecTypes /\ BatchInv /\ SettledInv /\ CountInv /\ CkptInv /\ SavedInv /\ mt.applied \in Nat
  BY DEF VecInv, VecTypes
<1>1. UNCHANGED <<vlog, graph, modelMap, tombstones, physical, pendingRebuild, mt, saved>>
  <2>1. CASE CkWater
    BY <2>1 DEF CkWater
  <2>2. CASE CkGraph
    BY <2>2 DEF CkGraph
  <2>3. CASE CkModels
    BY <2>3 DEF CkModels
  <2>4. CASE CkTombs
    BY <2>4 DEF CkTombs
  <2>. QED  BY <2>1, <2>2, <2>3, <2>4
<1>2. ASSUME ck.step # "off", NEW k \in VecKoids, Settled(vlog, k, ck.water)
      PROVE  /\ GraphHas(LastIn(vlog, k), k, graph)
             /\ Lists(LastIn(vlog, k), k, DOMAIN modelMap)
             /\ Unburied(LastIn(vlog, k), k, tombstones)
  <2>1. ck.water \in Nat /\ Effective \in Nat /\ ck.water <= Effective
    BY <1>0, <1>2 DEF CkptInv, Effective
  <2>2. Settled(vlog, k, Effective)
    BY <1>2, <2>1, SettledMore
  <2>. QED  BY <1>0, <2>2 DEF SettledInv
<1>3. CkptInv'
  <2>1. CASE CkWater
    <3>1. ck' = [step |-> "graph", water |-> mt.applied]
      BY <2>1 DEF CkWater
    <3>. QED  BY <1>0, <1>1, <3>1 DEF CkptInv
  <2>2. CASE CkGraph
    <3>1. ck.step = "graph" /\ ck' = [step |-> "models", water |-> ck.water, graph |-> graph]
      BY <2>2 DEF CkGraph
    <3>2. ck'.step = "models" /\ ck'.water = ck.water /\ ck'.graph = graph
      BY <3>1
    <3>3. \A k \in VecKoids : Settled(vlog, k, ck.water) => GraphHas(LastIn(vlog, k), k, graph)
      BY <1>2, <3>1
    <3>4. ck.water \in 0 .. mt.applied /\ graph \subseteq VecKoids \X (Vecs \cup {NoCode})
      BY <1>0, <3>1 DEF CkptInv, VecTypes
    <3>. QED  BY <1>1, <3>2, <3>3, <3>4 DEF CkptInv
  <2>3. CASE CkModels
    <3>1. /\ ck.step = "models"
          /\ ck' = [step |-> "tombs", water |-> ck.water, graph |-> ck.graph, models |-> DOMAIN modelMap]
      BY <2>3 DEF CkModels
    <3>2. ck'.step = "tombs" /\ ck'.water = ck.water /\ ck'.graph = ck.graph /\ ck'.models = DOMAIN modelMap
      BY <3>1
    <3>3. \A k \in VecKoids : Settled(vlog, k, ck.water) => Lists(LastIn(vlog, k), k, DOMAIN modelMap)
      BY <1>2, <3>1
    <3>4. /\ ck.water \in 0 .. mt.applied /\ ck.graph \subseteq VecKoids \X (Vecs \cup {NoCode})
          /\ DOMAIN modelMap \subseteq VecKoids /\ IsFiniteSet(DOMAIN modelMap)
          /\ \A k \in VecKoids : Settled(vlog, k, ck.water) => GraphHas(LastIn(vlog, k), k, ck.graph)
      BY <1>0, <3>1 DEF CkptInv, VecTypes
    <3>. QED  BY <1>1, <3>2, <3>3, <3>4 DEF CkptInv
  <2>4. CASE CkTombs
    <3>1. /\ ck.step = "tombs"
          /\ ck' = [step |-> "publish", water |-> ck.water, graph |-> ck.graph, models |-> ck.models,
                    tombs |-> tombstones]
      BY <2>4 DEF CkTombs
    <3>2. /\ ck'.step = "publish" /\ ck'.water = ck.water /\ ck'.graph = ck.graph
          /\ ck'.models = ck.models /\ ck'.tombs = tombstones
      BY <3>1
    <3>3. \A k \in VecKoids : Settled(vlog, k, ck.water) => Unburied(LastIn(vlog, k), k, tombstones)
      BY <1>2, <3>1
    <3>4. /\ ck.water \in 0 .. mt.applied /\ ck.graph \subseteq VecKoids \X (Vecs \cup {NoCode})
          /\ ck.models \subseteq VecKoids /\ IsFiniteSet(ck.models) /\ tombstones \subseteq VecKoids
          /\ \A k \in VecKoids : Settled(vlog, k, ck.water) => GraphHas(LastIn(vlog, k), k, ck.graph)
          /\ \A k \in VecKoids : Settled(vlog, k, ck.water) => Lists(LastIn(vlog, k), k, ck.models)
          /\ \A k \in ck.models : k \in DOMAIN modelMap \/ DelAhead(vlog, k, ck.water)
      BY <1>0, <3>1 DEF CkptInv, VecTypes
    <3>. QED  BY <1>1, <3>2, <3>3, <3>4 DEF CkptInv
  <2>. QED  BY <2>1, <2>2, <2>3, <2>4
<1>4. VecTypes' /\ BatchInv' /\ SettledInv' /\ CountInv' /\ SavedInv'
  <2>1. VecTypes'
    BY <1>0, <1>1 DEF VecTypes
  <2>2. Event' = Event /\ Effective' = Effective
    BY <1>1 DEF Event, Effective
  <2>3. BatchInv'
    BY <1>0, <1>1, <2>2 DEF BatchInv
  <2>4. SettledInv'
    BY <1>0, <1>1, <2>2 DEF SettledInv
  <2>5. CountInv'
    BY <1>0, <1>1, <2>2 DEF CountInv
  <2>6. SavedInv'
    BY <1>0, <1>1 DEF SavedInv
  <2>. QED  BY <2>1, <2>3, <2>4, <2>5, <2>6
<1>. QED  BY <1>3, <1>4 DEF VecInv

\* A count of no nodes, read last, is of an index whose entries are about to be deleted; so are
\* the entries the checkpoint has read.
LEMMA VecPublish == ASSUME VecInv, CkPublish PROVE VecInv'
<1>0. VecTypes /\ BatchInv /\ SettledInv /\ CountInv /\ CkptInv /\ mt.applied \in Nat /\ ck.step = "publish"
      /\ UNCHANGED <<vlog, graph, modelMap, tombstones, physical, pendingRebuild, mt>>
      /\ ck' = NotTaking
  BY DEF VecInv, VecTypes, CkPublish
<1>1. saved' = [water |-> ck.water, graph |-> ck.graph, models |-> ck.models,
                tombs |-> ck.tombs, physical |-> physical, pending |-> pendingRebuild, dim |-> vdim]
  BY DEF CkPublish, CkWaterMark
<1>2. /\ saved'.water = ck.water /\ saved'.graph = ck.graph /\ saved'.models = ck.models
      /\ saved'.tombs = ck.tombs /\ saved'.physical = physical /\ saved'.pending = pendingRebuild
  BY <1>1
<1>3. /\ ck.water \in 0 .. mt.applied /\ ck.graph \subseteq VecKoids \X (Vecs \cup {NoCode})
      /\ ck.models \subseteq VecKoids /\ IsFiniteSet(ck.models) /\ ck.tombs \subseteq VecKoids
      /\ \A k \in VecKoids : Settled(vlog, k, ck.water) =>
            /\ GraphHas(LastIn(vlog, k), k, ck.graph)
            /\ Lists(LastIn(vlog, k), k, ck.models)
            /\ Unburied(LastIn(vlog, k), k, ck.tombs)
      /\ \A k \in ck.models : k \in DOMAIN modelMap \/ DelAhead(vlog, k, ck.water)
  BY <1>0 DEF CkptInv
<1>4. physical = 0 => \A k \in ck.models : DelAhead(vlog, k, ck.water)
  <2>1. ck.water \in Nat /\ Effective \in Nat /\ ck.water <= Effective
    BY <1>0, <1>3 DEF Effective
  <2>2. ASSUME physical = 0, NEW k \in DOMAIN modelMap PROVE DelAhead(vlog, k, ck.water)
    <3>1. DelAhead(vlog, k, Effective)
      BY <1>0, <2>2 DEF CountInv
    <3>. QED  BY <2>1, <3>1, DelLess
  <2>. QED  BY <1>3, <2>2
<1>5. SavedInv'
  <2>1. ck.water \in 0 .. Len(vlog) /\ physical \in Nat /\ pendingRebuild \in BOOLEAN
    BY <1>0, <1>3 DEF VecTypes
  <2>. QED  BY <1>0, <1>2, <1>3, <1>4, <2>1 DEF SavedInv
<1>6. CkptInv'
  BY <1>0 DEF CkptInv, NotTaking
<1>7. VecTypes'
  BY <1>0 DEF VecTypes
<1>8. Event' = Event /\ Effective' = Effective
  BY <1>0 DEF Event, Effective
<1>9. BatchInv'
  BY <1>0, <1>8 DEF BatchInv
<1>10. SettledInv'
  BY <1>0, <1>8 DEF SettledInv
<1>11. CountInv'
  BY <1>0, <1>8 DEF CountInv
<1>. QED  BY <1>5, <1>6, <1>7, <1>9, <1>10, <1>11 DEF VecInv

\* A restart: the checkpoint, or the empty index, is right about what is settled at its water mark.
LEMMA VecStart == ASSUME VecInv, VecRestart PROVE VecInv'
<1>0. VecTypes /\ SavedInv /\ UNCHANGED <<vlog, saved>> /\ ck' = NotTaking /\ Len(vlog) \in Nat
  BY DEF VecInv, VecTypes, VecRestart
<1>1. SavedInv' /\ CkptInv'
  BY <1>0 DEF SavedInv, CkptInv, NotTaking
<1>2. CASE saved = NoCkpt
  <2>1. /\ graph' = {} /\ modelMap' = NoMap /\ tombstones' = {} /\ physical' = 0
        /\ pendingRebuild' = FALSE /\ mt' = [step |-> "next", applied |-> 0, batches |-> 0]
    BY <1>2 DEF VecRestart, Fresh
  <2>2. DOMAIN modelMap' = {} /\ modelMap' \in [{} -> Vecs \cup {NoCode}]
    BY <2>1 DEF NoMap
  <2>3. IsFiniteSet(DOMAIN modelMap')
    BY <2>2, FS_EmptySet
  <2>4. /\ mt' \in [step : {"next", "map", "end", "commit", "rebuild", "clear"}, applied : 0 .. Len(vlog), batches : Nat]
        /\ mt'.step = "next" /\ mt'.applied = 0
    BY <1>0, <2>1
  <2>5. modelMap' \in [DOMAIN modelMap' -> Vecs \cup {NoCode}]
    BY <2>2
  <2>6. VecTypes'
    BY <1>0, <2>1, <2>2, <2>3, <2>4, <2>5 DEF VecTypes
  <2>7. BatchInv' /\ CountInv'
    BY <2>2, <2>4 DEF BatchInv, CountInv
  <2>8. SettledInv'
    <3>1. \A k : ~ Settled(vlog, k, 0)
      BY <1>0 DEF Settled, NoticedIn
    <3>2. Effective' = 0
      BY <2>4 DEF Effective
    <3>. QED  BY <1>0, <3>1, <3>2 DEF SettledInv
  <2>. QED  BY <1>1, <2>6, <2>7, <2>8 DEF VecInv
<1>3. CASE saved # NoCkpt
  <2>1. /\ graph' = IF saved.physical = 0 THEN {} ELSE saved.graph
        /\ modelMap' = [k \in saved.models |-> NoCode]
        /\ tombstones' = saved.tombs /\ physical' = saved.physical
        /\ pendingRebuild' = saved.pending
        /\ mt' = [step |-> "next", applied |-> saved.water, batches |-> 0]
    BY <1>3 DEF VecRestart, Fresh
  <2>2. /\ saved.water \in 0 .. Len(vlog) /\ saved.graph \subseteq VecKoids \X (Vecs \cup {NoCode})
        /\ saved.models \subseteq VecKoids /\ IsFiniteSet(saved.models) /\ saved.tombs \subseteq VecKoids
        /\ saved.physical \in Nat /\ saved.pending \in BOOLEAN
        /\ \A k \in VecKoids : Settled(vlog, k, saved.water) =>
              /\ GraphHas(LastIn(vlog, k), k, saved.graph)
              /\ Lists(LastIn(vlog, k), k, saved.models)
              /\ Unburied(LastIn(vlog, k), k, saved.tombs)
        /\ saved.physical = 0 => \A k \in saved.models : DelAhead(vlog, k, saved.water)
    BY <1>0, <1>3 DEF SavedInv
  <2>3. DOMAIN modelMap' = saved.models /\ modelMap' \in [saved.models -> Vecs \cup {NoCode}]
    BY <2>1
  <2>4. /\ mt' \in [step : {"next", "map", "end", "commit", "rebuild", "clear"}, applied : 0 .. Len(vlog), batches : Nat]
        /\ mt'.step = "next" /\ mt'.applied = saved.water /\ Effective' = saved.water
    BY <2>1, <2>2 DEF Effective
  <2>5. modelMap' \in [DOMAIN modelMap' -> Vecs \cup {NoCode}] /\ graph' \subseteq VecKoids \X (Vecs \cup {NoCode})
    BY <2>1, <2>2, <2>3
  <2>6. VecTypes'
    BY <1>0, <2>1, <2>2, <2>3, <2>4, <2>5 DEF VecTypes
  <2>7. BatchInv'
    BY <2>4 DEF BatchInv
  <2>8. CountInv'
    BY <1>0, <2>1, <2>2, <2>3, <2>4 DEF CountInv
  <2>9. SettledInv'
    <3>1. SUFFICES ASSUME NEW k \in VecKoids, Settled(vlog, k, saved.water)
                   PROVE  /\ GraphHas(LastIn(vlog, k), k, graph')
                          /\ Lists(LastIn(vlog, k), k, DOMAIN modelMap')
                          /\ Unburied(LastIn(vlog, k), k, tombstones')
                          /\ LastIn(vlog, k).op = "up" => modelMap'[k] \in {LastIn(vlog, k).vec, NoCode}
      BY <1>0, <2>4 DEF SettledInv
    <3>2. /\ GraphHas(LastIn(vlog, k), k, saved.graph)
          /\ Lists(LastIn(vlog, k), k, saved.models)
          /\ Unburied(LastIn(vlog, k), k, saved.tombs)
      BY <2>2, <3>1
    <3>3. saved.water \in Nat
      BY <2>2
    <3>4. ~ DelAhead(vlog, k, saved.water)
      BY <3>1, <3>3, SettledMore
    <3>5. LastIn(vlog, k).op = "up" => k \in saved.models /\ saved.physical # 0
      BY <2>2, <3>2, <3>4 DEF Lists
    <3>6. GraphHas(LastIn(vlog, k), k, graph')
      BY <2>1, <3>2, <3>5 DEF GraphHas
    <3>. QED  BY <2>1, <2>3, <3>2, <3>5, <3>6
  <2>. QED  BY <1>1, <2>6, <2>7, <2>8, <2>9 DEF VecInv
<1>. QED  BY <1>2, <1>3

LEMMA VecInvNext == ASSUME VecInv, DimInv, [VecNext]_vecVars PROVE VecInv'
<1>1. CASE Apply1
  BY <1>1, VecApply1
<1>2. CASE Apply2
  BY <1>2, VecApply2
<1>3. CASE Apply3
  BY <1>3, VecApply3
<1>4. CASE RebuildTest \/ Rebuild \/ ClearTombstones
  BY <1>4, VecRebuild
<1>5. CASE CkWater \/ CkGraph \/ CkModels \/ CkTombs
  BY <1>5, VecRead
<1>6. CASE CkPublish
  BY <1>6, VecPublish
<1>7. CASE VecRestart
  BY <1>7, VecStart
<1>8. CASE UNCHANGED vecVars
  <2>1. /\ VecTypes /\ BatchInv /\ SettledInv /\ CountInv /\ CkptInv /\ SavedInv
        /\ UNCHANGED <<vlog, graph, modelMap, tombstones, physical, pendingRebuild, mt, ck, saved>>
    BY <1>8 DEF VecInv, vecVars
  <2>2. Event' = Event /\ Effective' = Effective
    BY <2>1 DEF Event, Effective
  <2>3. VecTypes'
    BY <2>1 DEF VecTypes
  <2>4. BatchInv'
    BY <2>1, <2>2 DEF BatchInv
  <2>5. SettledInv'
    BY <2>1, <2>2 DEF SettledInv
  <2>6. CountInv'
    BY <2>1, <2>2 DEF CountInv
  <2>7. CkptInv'
    BY <2>1 DEF CkptInv
  <2>8. SavedInv'
    BY <2>1 DEF SavedInv
  <2>. QED  BY <2>3, <2>4, <2>5, <2>6, <2>7, <2>8 DEF VecInv
<1>. QED  BY <1>1, <1>2, <1>3, <1>4, <1>5, <1>6, <1>7, <1>8 DEF VecNext

-----------------------------------------------------------------------------
(* The shard's dimension *)

LEMMA DimLess ==
  ASSUME VecTypes, NEW d, NEW a \in Nat, NEW b \in Nat, DimIs(d, a), b <= a
  PROVE  DimIs(d, b)
<1>1. \A i \in 1 .. Len(vlog) : i <= b => i <= a
  OBVIOUS
<1>. QED  BY <1>1 DEF DimIs

\* A step is right about dimensions if it is about the shard's and about the checkpoint's.
LEMMA DimMoves ==
  ASSUME vlog' = vlog, DimIs(vdim', Begun'), saved' # NoCkpt => DimIs(saved'.dim, saved'.water) PROVE DimInv'
<1>1. DimIs(vdim, Begun)' /\ (saved' # NoCkpt => DimIs(saved.dim, saved.water)')
  BY DEF DimIs
<1>. QED  BY <1>1 DEF DimInv

LEMMA DimApply1 == ASSUME VecInv, DimInv, Apply1 PROVE DimInv'
<1>. PICK n : n = mt.applied + 1
  OBVIOUS
<1>0. VecTypes /\ mt.step = "next" /\ mt.applied < Len(vlog) /\ UNCHANGED <<vlog, saved>>
      /\ DimIs(vdim, mt.applied) /\ (saved # NoCkpt => DimIs(saved.dim, saved.water))
  BY DEF VecInv, Apply1, DimInv, Begun
<1>1. /\ mt.applied \in Nat /\ n \in 1 .. Len(vlog) /\ Event = vlog[n]
      /\ Event.op \in {"up", "blank", "del"} /\ Event \in VecEvents
  BY <1>0, EventIs DEF VecTypes
<1>2. Begun' = n
  BY <1>0 DEF Apply1, Goto, Begun, VecTypes
<1>3. DimIs(vdim', n)
  <2>1. CASE Event.op = "up" /\ ~Mismatched
    <3>4. Event.vec \in Vecs
      <4>. DEFINE Ups == {[koid |-> k, op |-> "up", vec |-> v] : k \in VecKoids, v \in Vecs}
                  Others == {[koid |-> k, op |-> o, vec |-> NoCode] : k \in VecKoids, o \in {"blank", "del"}}
      <4>1. \A e \in Ups : e.vec \in Vecs
        OBVIOUS
      <4>2. \A e \in Others : e.op # "up"
        OBVIOUS
      <4>3. VecEvents = Ups \cup Others
        BY DEF VecEvents
      <4>. HIDE DEF Ups, Others
      <4>4. Event \in VecEvents /\ Event.op = "up"
        BY <1>1, <2>1
      <4>. QED  BY ONLY <4>1, <4>2, <4>3, <4>4
    <3>5. vdim' = DimOf[Event.vec]
      BY <2>1 DEF Apply1
    <3>1. vdim' = DimOf[vlog[n].vec] /\ vlog[n].vec \in Vecs
      BY <1>1, <3>4, <3>5
    <3>2. vdim' \in Nat /\ vdim' # 0
      BY <3>1, VectorIndexAssumption
    <3>3. \E j \in 1 .. Len(vlog) : FirstUp(vlog, j) /\ vdim' = DimOf[vlog[j].vec]
      <4>1. CASE vdim = 0
        <5>1. FirstUp(vlog, n)
          BY <1>0, <1>1, <2>1, <4>1 DEF DimIs, FirstUp
        <5>. QED  BY <1>1, <3>1, <5>1
      <4>2. CASE vdim # 0
        BY <1>0, <1>1, <2>1, <3>1, <4>2 DEF DimIs, Mismatched
      <4>. QED  BY <4>1, <4>2
    <3>. QED  BY <3>2, <3>3 DEF DimIs
  <2>2. CASE ~(Event.op = "up" /\ ~Mismatched)
    <3>1. vdim' = vdim /\ (Event.op = "up" => vdim # 0)
      BY <1>1, <2>2 DEF Apply1, Mismatched
    <3>2. \A i \in 1 .. Len(vlog) : i <= n => i <= mt.applied \/ i = n
      BY <1>1
    <3>. QED  BY <1>0, <1>1, <3>1, <3>2 DEF DimIs
  <2>. QED  BY <2>1, <2>2
<1>. QED  BY <1>0, <1>2, <1>3, DimMoves

LEMMA DimNext == ASSUME VecInv, DimInv, [VecNext]_vecVars PROVE DimInv'
<1>0. VecTypes /\ mt.applied \in Nat /\ Begun \in Nat /\ mt.applied <= Begun /\ DimIs(vdim, Begun)
      /\ (saved # NoCkpt => DimIs(saved.dim, saved.water))
  BY DEF VecInv, VecTypes, DimInv, Begun
<1>1. CASE Apply1
  BY <1>1, DimApply1
<1>2. ASSUME Apply2 \/ Apply3 \/ RebuildTest \/ Rebuild \/ ClearTombstones \/ CkWater \/ CkGraph
             \/ CkModels \/ CkTombs \/ UNCHANGED vecVars
      PROVE  DimInv'
  <2>1. UNCHANGED <<vlog, vdim, saved>>
    BY <1>2 DEF Apply2, Apply3, RebuildTest, Rebuild, ClearTombstones, CkWater, CkGraph, CkModels, CkTombs, vecVars
  <2>2. Begun' = Begun
    <3>1. CASE UNCHANGED mt
      BY <3>1 DEF Begun
    <3>2. CASE Apply2 \/ Apply3
      BY <1>0, <3>2 DEF Apply2, Apply3, Goto, Begun, VecTypes
    <3>3. CASE RebuildTest \/ Rebuild \/ ClearTombstones
      BY <1>0, <3>3 DEF RebuildTest, Rebuild, ClearTombstones, Goto, EndBatch, Begun, VecTypes
    <3>. QED  BY <1>2, <3>1, <3>2, <3>3 DEF CkWater, CkGraph, CkModels, CkTombs, vecVars
  <2>. QED  BY <1>0, <2>1, <2>2, DimMoves
<1>3. CASE CkPublish
  <2>1. ck.water \in 0 .. mt.applied /\ ck.step = "publish"
    BY <1>3 DEF VecInv, CkptInv, CkPublish
  <2>2. UNCHANGED <<vlog, vdim, mt>> /\ saved'.dim = vdim /\ saved'.water = ck.water
    BY <1>3 DEF CkPublish, CkWaterMark
  <2>3. Begun' = Begun
    BY <2>2 DEF Begun
  <2>4. DimIs(vdim, ck.water)
    BY <1>0, <2>1, DimLess
  <2>. QED  BY <1>0, <2>2, <2>3, <2>4, DimMoves
<1>4. CASE VecRestart
  <2>1. CASE saved = NoCkpt
    <3>1. vdim' = 0 /\ Begun' = 0 /\ UNCHANGED <<vlog, saved>>
      BY <1>4, <2>1 DEF VecRestart, Fresh, Begun
    <3>2. DimIs(0, 0)
      BY DEF DimIs
    <3>. QED  BY <2>1, <3>1, <3>2, DimMoves
  <2>2. CASE saved # NoCkpt
    <3>1. vdim' = saved.dim /\ UNCHANGED <<vlog, saved>> /\ mt' = [Fresh EXCEPT !.applied = saved.water]
      BY <1>4, <2>2 DEF VecRestart
    <3>2. Begun' = saved.water
      BY <3>1 DEF Fresh, Begun
    <3>. QED  BY <1>0, <2>2, <3>1, <3>2, DimMoves
  <2>. QED  BY <2>1, <2>2
<1>. QED  BY <1>1, <1>2, <1>3, <1>4 DEF VecNext

LEMMA DimInit == VecInit => DimInv
BY DEF VecInit, DimInv, DimIs, Begun, Fresh

LEMMA VecInvSafe == ASSUME VecInv, DimInv PROVE VectorSafe
<1>0. VecTypes /\ SettledInv /\ CkptInv
  BY DEF VecInv
<1>1. VecTypeOK
  BY <1>0 DEF DimInv, DimIs, VecTypeOK, VecTypes, CkptInv
<1>2. ASSUME CaughtUp, NEW k \in VecKoids, Noticed(k) # {}
      PROVE  /\ LastOp(k) = LastIn(vlog, k)
             /\ GraphHas(LastIn(vlog, k), k, graph)
             /\ Lists(LastIn(vlog, k), k, DOMAIN modelMap)
             /\ Unburied(LastIn(vlog, k), k, tombstones)
  <2>1. Noticed(k) = NoticedIn(vlog, k)
    BY DEF Noticed, NoticedIn
  <2>2. LastOp(k) = LastIn(vlog, k)
    BY <2>1 DEF LastOp, LastIn
  <2>3. Effective = Len(vlog)
    BY <1>2 DEF CaughtUp, Effective
  <2>4. Settled(vlog, k, Effective)
    <3>1. \A i \in NoticedIn(vlog, k) : i <= Len(vlog)
      BY DEF NoticedIn
    <3>. QED  BY <1>2, <2>1, <2>3, <3>1 DEF Settled
  <2>. QED  BY <1>0, <2>2, <2>4 DEF SettledInv
<1>3. FindsCurrent
  <2>1. SUFFICES ASSUME CaughtUp, NEW k \in VecKoids, Noticed(k) # {}, LastOp(k).op = "up"
                 PROVE  LastOp(k).vec \in Finds(k)
    BY DEF FindsCurrent
  <2>2. <<k, LastOp(k).vec>> \in graph /\ k \notin tombstones /\ k \in DOMAIN modelMap
    BY <1>2, <2>1 DEF GraphHas, Lists, Unburied
  <2>3. LastOp(k).vec \in Vecs \cup {NoCode}
    BY <1>0, <2>2 DEF VecTypes
  <2>. QED  BY <2>2, <2>3 DEF Finds
<1>4. GoneHidden
  <2>1. SUFFICES ASSUME CaughtUp, NEW k \in VecKoids, Noticed(k) # {}, LastOp(k).op = "del"
                 PROVE  Finds(k) = {}
    BY DEF GoneHidden
  <2>2. k \notin DOMAIN modelMap
    BY <1>2, <2>1 DEF Lists
  <2>. QED  BY <2>2 DEF Finds
<1>. QED  BY <1>1, <1>3, <1>4 DEF VectorSafe

\* Whatever the rebuilds, the checkpoints read part by part beside them and the restarts from such
\* a checkpoint, a maintainer that has caught up finds every object by its newest embedding of
\* the shard's dimension, which is that of its first one, and finds no deleted one (maybe_rebuild, checkpoint, load, search).
THEOREM VectorAlwaysSafe == VecSpec => []VectorSafe
<1>. DEFINE Inv == VecInv /\ DimInv
<1>1. Inv /\ [VecNext]_vecVars => Inv'
  BY VecInvNext, DimNext
<1>2. VecInit => Inv
  BY VecInvInit, DimInit
<1>3. Inv => VectorSafe
  BY VecInvSafe
<1>. QED  BY <1>1, <1>2, <1>3, PTL DEF VecSpec
=============================================================================
