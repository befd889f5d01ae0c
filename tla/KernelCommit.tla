----------------------------- MODULE KernelCommit -----------------------------
(***************************************************************************)
(* The kernel's commit pipeline (kernel/src/transaction/kernel.rs and      *)
(* kernel/txn.rs): remember, evolve, forget and snapshot transactions over *)
(* versioned objects, with one journal, idempotency keys, transaction      *)
(* records and a usage count.                                              *)
(*                                                                         *)
(* Every commit holds the pipe lock while it checks the heads, takes its   *)
(* timestamp and lands ONE batch, so it is two steps: assemble (pipe taken,*)
(* timestamp fixed) and land.  Reads and begin_transaction take no lock.   *)
(* A refused request changes nothing and is not a step.  What a version    *)
(* holds, authorisation, schemas and constraints are left out: they refuse *)
(* requests.                                                               *)
(***************************************************************************)
EXTENDS Integers, Sequences, FiniteSets

CONSTANTS
    Koids,          \* object ids
    Clients,        \* threads that use the kernel
    IdemKeys,       \* idempotency keys of remember
    TxnIds,         \* transaction ids
    NoId,           \* no key, no transaction
    MaxCommits,     \* bound: journal events
    MaxStaged,      \* bound: staged writes of one transaction
    MaxTs,          \* bound: the hybrid logical clock
    MaxKernelCrashes

ASSUME KernelAssumption ==
    /\ {MaxCommits, MaxStaged, MaxTs, MaxKernelCrashes} \subseteq Nat
    /\ NoId \notin IdemKeys \cup TxnIds /\ IdemKeys \cap TxnIds = {}

VARIABLES
    \* rows of the store
    vers,       \* per object: its version rows
    head,       \* per object: the head row
    journal,    \* the events; the journal head is the last one and `lastTs`
    lastTs,
    idem,       \* per key: the remembered outcome
    txnrec,     \* per transaction id: the outcome record
    usageRow,   \* objects of the tenant, and the watermark it is exact at
    usageHead,
    \* memory
    usage,
    hlc,
    pipe,       \* the assembled batch of the holder of the pipe lock
    txn,        \* per client: its open transaction
    kcrashes

kernelVars == <<vers, head, journal, lastTs, idem, txnrec, usageRow, usageHead,
                usage, hlc, pipe, txn, kcrashes>>

NoHead == [v |-> 0, ts |-> 0, state |-> "none"]
NoPipe == [kind |-> "none"]
NoTxn == [id |-> NoId, snap |-> 0, begun |-> 0, staged |-> <<>>]
NoRecord == [body |-> <<>>, found |-> FALSE]
NoOutcome == [koid |-> NoId, v |-> 0]

KernelInit ==
    /\ vers = [k \in Koids |-> {}] /\ head = [k \in Koids |-> NoHead]
    /\ journal = <<>> /\ lastTs = 0
    /\ idem = [i \in IdemKeys |-> NoOutcome]
    /\ txnrec = [i \in TxnIds |-> NoRecord]
    /\ usageRow = 0 /\ usageHead = 0 /\ usage = 0
    /\ hlc = 0 /\ pipe = NoPipe /\ txn = [c \in Clients |-> NoTxn] /\ kcrashes = 0

storeVars == <<vers, head, journal, lastTs, idem, txnrec, usageRow, usageHead, usage>>

-----------------------------------------------------------------------------
(* Reads *)

Exists(k) == head[k].state # "none"

\* get_version_at: the newest version committed at or before ts.
VersionAt(k, ts) ==
    LET S == {r \in vers[k] : r.ts <= ts}
    IN  IF S = {} THEN 0 ELSE (CHOOSE r \in S : \A q \in S : q.ts <= r.ts).v

-----------------------------------------------------------------------------
(* Assembling a batch: the pipe lock is taken, the timestamp fixed *)

\* One version written by a batch.
Write(k, kind, state) == [koid |-> k, v |-> head[k].v + 1, kind |-> kind, state |-> state]

Assemble(batch) ==
    /\ pipe = NoPipe /\ hlc < MaxTs
    /\ Len(journal) + Len(batch.writes) <= MaxCommits
    /\ hlc' = hlc + 1
    /\ pipe' = batch
    /\ UNCHANGED <<storeVars, kcrashes>>

\* `snap` and `begun` are those of the transaction.
Batch(kind, writes, by, snap, begun, body, delta) ==
    [kind |-> kind, writes |-> writes, by |-> by, snap |-> snap, begun |-> begun,
     body |-> body, delta |-> delta, ts |-> hlc + 1]

\* The batch of one request that is no transaction.
Single(kind, write, by, delta) == Batch(kind, <<write>>, by, -1, 0, <<>>, delta)

\* remember_locked, unless the key has an outcome: a new object (koid generated, or
\* given with expected_version 0) is a Draft, an update keeps the lifecycle state.
Remember(k, key) ==
    /\ key # NoId => idem[key] = NoOutcome
    /\ Assemble(Single("remember", Write(k, "written", IF Exists(k) THEN head[k].state ELSE "Draft"),
                       key, IF Exists(k) THEN 0 ELSE 1))
    /\ UNCHANGED txn

\* The lifecycle, short of the states between Draft and Archived.
LifecycleStep == [Draft |-> "Archived", Archived |-> "Deleted"]

Evolve(k) ==
    /\ head[k].state \in DOMAIN LifecycleStep
    /\ Assemble(Single("evolve", Write(k, "written", LifecycleStep[head[k].state]), NoId, 0))
    /\ UNCHANGED txn

\* forget, whatever the state of the head.
Tombstone(k) ==
    /\ Exists(k)
    /\ Assemble(Single("forget", Write(k, "written", "Deleted"), NoId, -1))
    /\ UNCHANGED txn

Erase(k) ==
    /\ Exists(k)
    /\ Assemble(Single("erase", [koid |-> k, v |-> head[k].v, kind |-> "erased", state |-> "none"],
                       NoId, -1))
    /\ UNCHANGED txn

-----------------------------------------------------------------------------
(* Transactions *)

\* begin_transaction; `begun` is how much of the journal had landed.
Begin(c, id) ==
    /\ txn[c] = NoTxn /\ hlc < MaxTs
    /\ hlc' = hlc + 1
    /\ txn' = [txn EXCEPT ![c] =
                  [id |-> id, snap |-> hlc + 1, begun |-> Len(journal), staged |-> <<>>]]
    /\ UNCHANGED <<storeVars, pipe, kcrashes>>

\* Mutant: the version of the head, not of the snapshot.
PinnedVersion_Head(k, snap) == head[k].v

\* stage: expected_version is pinned from the begin snapshot.
PinnedVersion(k, snap) == VersionAt(k, snap)

Stage(c, k) ==
    /\ txn[c] # NoTxn /\ Len(txn[c].staged) < MaxStaged
    /\ txn' = [txn EXCEPT ![c].staged =
                  Append(@, [koid |-> k, exp |-> PinnedVersion(k, txn[c].snap)])]
    /\ UNCHANGED <<storeVars, hlc, pipe, kcrashes>>

Body(t) == [i \in DOMAIN t.staged |-> t.staged[i].koid]

\* Nothing staged has moved, and no object is staged twice.
CanCommit(t) ==
    /\ \A i \in DOMAIN t.staged : t.staged[i].exp = head[t.staged[i].koid].v
    /\ \A i, j \in DOMAIN t.staged : i # j => t.staged[i].koid # t.staged[j].koid

\* transact_inner with a transaction id that has no record.  Objects being created
\* add to the count.
Commit(c) ==
    LET t == txn[c]
        writes == [i \in DOMAIN t.staged |->
                      Write(t.staged[i].koid, "written",
                            IF Exists(t.staged[i].koid) THEN head[t.staged[i].koid].state
                                                        ELSE "Draft")]
        created == {i \in DOMAIN t.staged : ~Exists(t.staged[i].koid)}
    IN  /\ t # NoTxn /\ ~txnrec[t.id].found /\ CanCommit(t)
        /\ Assemble(Batch("txn", writes, t.id, t.snap, t.begun, Body(t), Cardinality(created)))
        /\ txn' = [txn EXCEPT ![c] = NoTxn]

\* rollback, a commit that is refused, and a commit whose id is already recorded
\* (deduplicated, or refused when the body differs): the handle is consumed.
EndTxn(c) ==
    /\ txn[c] # NoTxn
    /\ txn' = [txn EXCEPT ![c] = NoTxn]
    /\ UNCHANGED <<storeVars, hlc, pipe, kcrashes>>

-----------------------------------------------------------------------------
(* Landing *)

\* Mutant: erase drops the head and leaves the versions.
RowsAfter_HeadOnly(k, b) ==
    {[v |-> w.v, ts |-> b.ts] : w \in {b.writes[i] : i \in {j \in DOMAIN b.writes :
                                     b.writes[j].koid = k /\ b.writes[j].kind = "written"}}}
    \cup vers[k]

\* The version rows of k once the batch is in.
RowsAfter(k, b) ==
    LET Of(kind) == {i \in DOMAIN b.writes : b.writes[i].koid = k /\ b.writes[i].kind = kind}
    IN  IF Of("erased") # {} THEN {}
        ELSE vers[k] \cup {[v |-> b.writes[i].v, ts |-> b.ts] : i \in Of("written")}

HeadAfter(k, b) ==
    LET I == {i \in DOMAIN b.writes : b.writes[i].koid = k}
    IN  IF I = {} THEN head[k]
        ELSE LET w == b.writes[CHOOSE i \in I : TRUE]
             IN  IF w.kind = "erased" THEN NoHead ELSE [v |-> w.v, ts |-> b.ts, state |-> w.state]

\* Mutant: the outcome is not part of the batch.
IdemAfter_Separate(b) == idem

\* put_idem, in the same batch.
IdemAfter(b) ==
    IF b.kind = "remember" /\ b.by # NoId
    THEN [idem EXCEPT ![b.by] = [koid |-> b.writes[1].koid, v |-> b.writes[1].v]]
    ELSE idem

\* put_txn_record, in the same batch.
RecordAfter(b) ==
    IF b.kind = "txn" THEN [txnrec EXCEPT ![b.by] = [body |-> b.body, found |-> TRUE]] ELSE txnrec

\* Mutant: only remember carries the count's row.
UsageRowAfter_RememberOnly(b, n) == IF b.kind \in {"remember"} /\ b.delta # 0 THEN n ELSE usageRow

\* The usage row rides a batch that changes the count.
UsageRowAfter(b, n) == IF b.delta # 0 THEN n ELSE usageRow

\* Mutant: the count is not saturated.
CountAfter_Signed(b) == usage + b.delta

\* The count never goes below zero.
CountAfter(b) == IF usage + b.delta < 0 THEN 0 ELSE usage + b.delta

\* write_batch, then the memory that follows it; the lock is released.
Land ==
    /\ pipe # NoPipe
    /\ vers' = [k \in Koids |-> RowsAfter(k, pipe)]
    /\ head' = [k \in Koids |-> HeadAfter(k, pipe)]
    /\ journal' = journal \o [i \in DOMAIN pipe.writes |->
                     [koid |-> pipe.writes[i].koid, v |-> pipe.writes[i].v,
                      kind |-> pipe.writes[i].kind, ts |-> pipe.ts,
                      by |-> pipe.by, snap |-> pipe.snap, begun |-> pipe.begun]]
    /\ lastTs' = pipe.ts
    /\ idem' = IdemAfter(pipe) /\ txnrec' = RecordAfter(pipe)
    /\ usageRow' = UsageRowAfter(pipe, CountAfter(pipe))
    /\ usageHead' = Len(journal')
    /\ usage' = CountAfter(pipe)
    /\ pipe' = NoPipe
    /\ UNCHANGED <<hlc, txn, kcrashes>>

\* write_batch fails: nothing landed, the error goes to the caller.
LandFails ==
    /\ pipe # NoPipe
    /\ pipe' = NoPipe
    /\ UNCHANGED <<storeVars, hlc, txn, kcrashes>>

\* Mutant: the clock starts from nothing.
HlcAtOpen_Zero == 0

\* Hlc::starting_at the journal head's timestamp.
HlcAtOpen == lastTs

\* TenantManager::rebuild: heads that are not deleted.
Rebuilt == Cardinality({k \in Koids : Exists(k) /\ head[k].state # "Deleted"})

\* A kill (also after a batch landed and before its caller heard of it), then
\* open_with: the usage row is loaded when its watermark is the journal head.
KernelCrash ==
    /\ kcrashes < MaxKernelCrashes
    /\ kcrashes' = kcrashes + 1
    /\ pipe' = NoPipe /\ txn' = [c \in Clients |-> NoTxn]
    /\ hlc' = HlcAtOpen
    /\ usage' = IF journal # <<>> /\ usageHead = Len(journal) THEN usageRow ELSE Rebuilt
    /\ UNCHANGED <<vers, head, journal, lastTs, idem, txnrec, usageRow, usageHead>>

KernelNext ==
    \/ \E k \in Koids : \/ \E key \in IdemKeys \cup {NoId} : Remember(k, key)
                        \/ Evolve(k) \/ Tombstone(k) \/ Erase(k)
    \/ \E c \in Clients : \/ \E id \in TxnIds : Begin(c, id)
                          \/ \E k \in Koids : Stage(c, k)
                          \/ Commit(c) \/ EndTxn(c)
    \/ Land \/ LandFails \/ KernelCrash

KernelSpec == KernelInit /\ [][KernelNext]_kernelVars

-----------------------------------------------------------------------------
(* Properties *)

KernelTypeOK ==
    /\ \A k \in Koids : /\ vers[k] \subseteq [v : 1 .. MaxCommits, ts : 1 .. MaxTs]
                        /\ head[k].v \in 0 .. MaxCommits
                        /\ head[k].state \in {"none", "Draft", "Archived", "Deleted"}
    /\ usageRow \in Nat /\ usage \in Nat /\ hlc \in 0 .. MaxTs /\ lastTs \in 0 .. MaxTs
    /\ \A c \in Clients : txn[c].id \in TxnIds \cup {NoId} /\ txn[c].snap \in 0 .. MaxTs

\* The journal tells every object's whole history: since its last erase the events
\* of an object carry the versions 1, 2, ... in order, those are its version rows
\* with their timestamps and the last one is its head; an erased object has no row
\* left (commit_version, transact_inner and forget, kernel.rs:1856-1922, 3145-3264,
\* 3602-3627).
Since(l, k) ==
    LET E == {i \in DOMAIN l : l[i].koid = k /\ l[i].kind = "erased"}
    IN  {i \in DOMAIN l : l[i].koid = k /\ \A e \in E : e < i}
JournalTellsHistory ==
    \A k \in Koids :
        LET S == Since(journal, k)
        IN  /\ \A i \in S : journal[i].v = Cardinality({j \in S : j <= i})
            /\ vers[k] = {[v |-> journal[i].v, ts |-> journal[i].ts] : i \in S}
            /\ head[k].v = Cardinality(S)

\* A request with an idempotency key, and a transaction with an id, is applied once
\* however often it is sent, whatever crashes: all events under one key or id are of
\* one commit (remember_locked, kernel.rs:2189-2217; transact_inner, 2759-2786).
AppliedOnce ==
    \A i, j \in DOMAIN journal :
        journal[i].by = journal[j].by /\ journal[i].by # NoId => journal[i].ts = journal[j].ts

\* First committer wins: between a transaction's snapshot and its commit nobody else
\* committed a version of what it writes, unless an erase of the object has landed
\* since the transaction began: the object then counts its versions again from 1, and
\* a staged version may be a new one's (stage and transact_inner, txn.rs:105-123,
\* kernel.rs:2812-2820).
FirstCommitterWins ==
    \A i \in DOMAIN journal : journal[i].snap >= 0 =>
        \A j \in 1 .. i - 1 :
            journal[j].koid = journal[i].koid /\ journal[j].ts > journal[i].snap
            => \E e \in journal[i].begun + 1 .. i - 1 :
                    journal[e].koid = journal[i].koid /\ journal[e].kind = "erased"

\* The order of the journal is the order of the timestamps, across restarts: as-of
\* reads and the journal agree (Hlc, kernel.rs:114-147; open_with, 886).
TimeOrder ==
    \A i, j \in DOMAIN journal : i < j => \/ journal[i].ts < journal[j].ts
                                          \/ /\ journal[i].ts = journal[j].ts
                                             /\ journal[i].by = journal[j].by
                                             /\ journal[i].by \in TxnIds

\* The count of a kernel that restarts is the count it had: a crash leaves no stale
\* row behind a fresh watermark (kernel.rs:1904-1911, 3239-3253, 3605-3618).
UsageSurvives == pipe = NoPipe /\ journal # <<>> => usageHead = Len(journal) /\ usageRow = usage

\* What a commit promises, whatever it races with and wherever the process dies.
CommitSafe ==
    /\ KernelTypeOK
    /\ JournalTellsHistory /\ AppliedOnce /\ FirstCommitterWins /\ TimeOrder /\ UsageSurvives

-----------------------------------------------------------------------------
(* What the documentation says and the code does not do *)

\* kernel.rs:812-817: "the watermark rides every commit batch atomically with the rows, so
\* a match means the rows are exact".
UsageExact == journal # <<>> /\ usageHead = Len(journal) => usageRow = Rebuilt

\* transaction-contract.md:27-29: "a head that moved since begin yields the deterministic
\* VersionConflict": also when it was erased and created again.
MovedHeadConflicts ==
    \A i \in DOMAIN journal : journal[i].snap >= 0 =>
        \A j \in 1 .. i - 1 : journal[j].koid = journal[i].koid => journal[j].ts <= journal[i].snap

\* txn.rs:7-8: "reads pin the version set visible at begin": no commit that lands
\* later has a timestamp at or below the snapshot.
SnapshotPinned ==
    \A c \in Clients : txn[c] # NoTxn =>
        \A i \in DOMAIN journal : journal[i].ts <= txn[c].snap => i <= txn[c].begun
=============================================================================
