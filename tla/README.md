# TLA+ specifications of aikoql

aikoql is a knowledge database: persistent memory for AI agents behind an MCP
server. This directory holds TLA+ models of the parts whose correctness depends
on interleavings, crashes and lost messages, the TLC runs that check them on
small instances, and proofs, checked by TLAPS, of what holds for every value of
the constants. `PROJECT.json` maps every definition to the source lines it
models.

    tlc -workers 2 -config db_faults.cfg MCDb      # a run
    tlapm Lease_proofs.tla                         # a proof

Paths below are relative to `src/crates`; `mcp/` stands for
`services/api/mcp/src/` and `v2/` for `storage/aikoql-v2/src/`.

## 1. The system

| Part | State | Operations | Talks to |
|---|---|---|---|
| Storage engine (`v2/db.rs`, `wal.rs`, `memtable.rs`, `compaction.rs`, `format.rs`) | WAL, memtables, segment files, manifest and CURRENT, sequence numbers | write (Sync, Async, GroupCommit), get/scan, rotate, flush in phases A, B, C, compact, open, retained log | the kernel above, replication through `StorageAdminApi` |
| Compactor signal (`v2/db.rs`) | a pending flag, a condition variable, the shutdown flag | kick, wait, clear_pending, the hard bound, Drop | writers, the compactor thread |
| Directories (`v2/identity`, `v2/placement`, `checkpoint.rs`) | delta logs per generation, checkpoints | publish with a flush, replay, prune | flush, compaction, open |
| Block cache (`v2/cache.rs`) | entries, a lazily cleaned heap | get, insert, evict | segment readers |
| Snapshot (`v2/snapshot.rs`) | a marked copy of a generation, pins | snapshot_to, restore_from | replication, archive |
| Lease and failover (`mcp/ha.rs`) | the lease record; per node the renewer's version and clock, the standby's view, REPL-TERM on disk | begin, resume, try_win, renew, fence, stand_by, win, re-exec | a file, S3 or Kubernetes store; replication; the process supervisor |
| Replication (`mcp/replication.rs`) | REPL-TERM, REPL-HISTORY, `.rejoin`; Acked | handshake, stream, ack, snapshot, re-bootstrap, commit gate, claim_term | engine, lease |
| Archive (`mcp/archive.rs`) | snapshots and log batches per term in an object store | archive, prune, restore | retained log |
| Kernel: commits (`kernel/src/transaction`) | heads, versions, journal, idempotency and transaction rows, usage | remember, evolve, forget, transact, transactions | engine |
| Kernel: derived rows (`storage/repository.rs`, `cache.rs`) | relationship and type rows, a cache of heads | written with each commit, rebuilt | commits, readers |
| Kernel: schemas (`lifecycle/*`) | schema rows and the registry in memory | register, migrate, check | commits |
| Kernel: knowledge operations (`kernel/ops.rs`) | statuses, successors, stamps, conflicts, claims | verify, contradict, supersede, split, invalidate, resolve, derive, claim, handoff | commits |
| Kernel: keys (`security/keyring.rs`, `envelope.rs`, `kms.rs`) | wrapped data keys in files and rows | rotate, roll, open | store, key manager |
| Kernel: jobs (`jobs.rs`) | job rows, admission slots | submit, run, approve, recover | worker threads |
| Kernel: events (`event.rs`) | subscriptions, channels | subscribe, replay, ack, broadcast | MCP feeds, live queries |
| Scheduler (`engines/scheduler`) | index water marks and checkpoints, salience | index maintenance, consolidation | kernel, vector and property indexes |
| Vector index (`engines/vector`) | graph, labels, tombstones | upsert, delete, rebuild, checkpoint | index maintainer |
| Runtime (`runtime`) | an open cursor | plan, stream, evaluate | kernel, indexes |
| Ingestion (`ingestion`, `mcp/ingest.rs`), imports (`mcp/imports.rs`) | commit markers, run ids | ingest a tree, import a database | kernel, sources |
| MCP over HTTP (`mcp/mcp_http.rs`, `oauth.rs`, `session.rs`) | outboxes, codes, tokens | event streams, sign-ins | kernel, identity provider |
| Compiler, search engines, REST, SDKs, providers | none that lasts | parse, rank, serve | kernel |

How the modelled parts interact: a client write goes through the kernel into the
engine, which appends, syncs, applies, and then waits in the commit gate for a
standby's ack. Flush and compaction run beside writers on the same `State`. The
lease decides which node's kernel is open for writing; its term is the
replication term, and the term history is what a handshake compares.

What is hard here: work done without the lock between two locked phases (flush,
compaction); publication over several files with a crash at any point; errors
half-way through; a lease whose holder and challengers compare their own clocks;
compare-and-swap requests that land after they were given up; nodes that come
back with a tail nobody else has. `PROJECT.json` lists each such place under
"hazards" with the property that covers it.

What makes each part correct:

- engine: an acked write survives, is visible, and is never overridden by an
  older one; CURRENT always names whole files; flush, compaction and recovery
  change nothing a client can see;
- lease: one writer per term; only the holder writes, and it stops a margin
  before anyone may take over; somebody leads again in the end;
- replication: a stream only ever extends a prefix of the leader's log; the
  history tells the truth about every frame; answered writes survive a failover;
  standbys converge;
- snapshot, archive, re-bootstrap: what is complete can be restored, and nothing
  is ever a mixture of two histories;
- commits: one history per object, told by the journal in timestamp order; each
  request applied once; the first committer wins;
- everything derived (index rows, indexes, caches, views, feeds): never misses
  what was committed, and catches up;
- operations of several commits: cut off anywhere, they can be tried again and
  come to the same end;
- keys: at every instant the next open can read everything;
- threads: nobody waits for ever, no slot or token is lost or used twice.

## 2. Modules

| Module | What it is |
|---|---|
| `Db` | the engine's write path, flush, compaction, crash and recovery |
| `KvStore` | abstract specification: a durable map with batches in flight |
| `DbKv` | refinement mapping from `Db` to `KvStore` |
| `Lease` | the failover agent and the lease record, with time |
| `Replication` | terms, history, handshake, stream, acks, takeover |
| `CompactorSignal`, `RetainedLog`, `Directories`, `BlockCache`, `Snapshot` | the engine's other state machines |
| `Rejoin`, `Archive` | a standby replaced on disk; the continuous archive |
| `KernelCommit`, `KernelIndex`, `Schemas`, `Knowledge`, `Claims`, `KeyRing`, `Jobs` | the kernel |
| `IndexMaintainer`, `VectorIndex`, `Consolidation`, `QueryStream` | what runs beside or above the kernel |
| `Import`, `IngestDir`, `Subscriptions`, `EventStream`, `Grants` | the MCP server |
| `Clients` | `Grants` and `Claims` side by side: what callers hold from one request to the next |
| `MCDb`, `MCDbKv`, `MCLease`, `MCReplication` | instances for TLC |
| `MCStorage`, `MCKernel`, `MCBackground` | suites of instances for TLC |
| `Db_proofs`, `DbKv_proofs`, `Lease_proofs`, `Replication_proofs`, `Snapshot_proofs`, `Kernel_proofs`, `Clients_proofs`, `Promises_proofs` | theorems |

Definitions named `X_Something` right above a definition `X` are mutated forms
of `X`: each is a plausible mistake in that code, used to show that the property
it is meant for would notice. A component's promise (`...Promise`, `...Safe`) is
a conjunction of named parts, the type invariant among them; PROJECT.json names
one mutated form that breaks it. Where the parts are invariants, the promise is
an invariant. Where one of them speaks of a step, the promise is one action
property `[][(Inv)' /\ Step]_vars`: the invariants hold after every step and the
step is a permitted one (`NoneUndone`, `SweepCloses`, `OutageKeeps` and the like
are such predicates of a step). Where one of them is liveness, it is
`[](Inv) /\ Live`.

### Db

State follows `State` and the directory: `wal` is a sequence of frames (`ok` is
FALSE for a torn one) with `synced` saying how many an fsync covers; `active`,
`immutables`, `segments` are the layers a lookup goes through, newest first;
`records` is what the next manifest will list, kept apart from `segments`
because the code does. Rows are (key, seq, value); a put's value is the number
of its batch. `lock` is the RwLock's writer; `flush` and `merge[m]` hold a
flush's or merge's plan between its locked phases.

| Action | Code |
|---|---|
| WriteAppend, WriteApply, WriteAppendFail, WriteSyncFail | `write_at`, `commit_group` |
| Rotate | `rotate` |
| FlushPhaseA, FlushPhaseB(Fail), FlushPublish(Fail), FlushTruncate, FlushReappend, FlushRewriteFail | `flush_phase_a/b/c`, `flush_entry` |
| MergeCapture, MergeStale, MergeRename, MergePublish, MergeSwap, MergeFail | `compact_impl` |
| Crash, Open | process death; `open_with` with replay |

`Faults` selects the failures an instance admits, so that a passing run says
exactly which of them the code survives, and each violation run adds the one it
does not. A write counts as acked when it has been applied; a flush that a
write triggers and that fails is reported to the client as an error although the
write is applied, which the model does not tell apart. `MaxGroup` counts
batches; the code's `max_batch_ops` counts operations.

### Lease

`lease` is the record in the store. A version is abstracted to `known[n]`: is
the version that n remembers the current one? `late` holds requests that were
given up on and may still land. Time advances by `Tick`: `t[n]` is the timer of
n's sleep, request or start, `age[n]` the time since the last successful renewal
started (leader) or since this version was first seen (standby). A standby may
poll at any moment, which covers its TTL/5 period. `Timeout` is how long a
request may take: TTL/3 for S3 and Kubernetes (set in `main.rs`), 0 for the
file, `StartMax` and `ClaimMax` how long a start and a first claim take.

`ha.rs:14` derives a margin of TTL/3 from the 2/3 TTL fence. The code looks at
that deadline only after a renewal has failed, and the first renewal comes after
the claim, so `MarginKept` states what is left of it: once a standby has seen the
record unchanged for more than 2/3 TTL plus the time of a claim, nobody else
commits writes.

| Action | Code |
|---|---|
| Start, BeginFree, BeginOwn, BeginOther, Resume | `begin`, `resume` |
| Land, LandLate, Ok, Conflict, Fail | a compare-and-swap and its answer |
| Claim, OpenKernel | `try_win` after its CAS; the kernel opens, the slot is set |
| Renew, Fence, Exit | `renew`, `fence` |
| Poll, Follow, TakeOver, TakeOverUnanswered | `stand_by`, `win`, `reexec` |

Eligibility by sequence number is in `Replication`. Not modelled: a record
deleted by an operator (so `stand_by`'s `Ok(None)` arm does not occur), paused
processes, clocks that run at different rates.

### Replication

A frame is the term it was written under, so a log is a sequence of terms. The
lease is untimed here: a standby may take over once the holder no longer writes,
which is what `Lease` checks. Acks may be late or lost; the buffered end of a
dead leader's stream may still arrive; a node that has won still applies frames
until its exec. `acks` and `recorded` are ghosts: the writes answered Ok, and
the log the record's seq stands for.

| Action | Code |
|---|---|
| WinFirst, Claim, Lead, StandBy | `begin`, `try_win`, `claim_term`, `resume` |
| Write, Renew, Fence, Exit, Crash | client writes, `renew`, `fence` |
| Poll, Refused, Accepted, Rejected | `stand_by`, `serve_standby`, `follow_once` |
| Ship, LogGap, LinkDown | the stream, `log_since`'s gap, `follow`'s retry |
| FinishRebootstrap | `finish_rebootstrap`, `rebootstrap` as one step |
| TakeOver, Reexec | `stand_by`, `win`, `reexec` |

The handshake's deposal (`their_term > term`) is not an action: `LeaderNewest`
shows that it cannot happen while terms come from the lease. Manual promotion
(`serve` on a standby without a lease), authentication, TLS, index checkpoints
and log release are left out.

`FencingNext` adds a leader that fences itself and stays up to claim its term
again; `Spec` is without it, because of what `v_repl_reclaim` shows.

### The storage engine's other parts

**CompactorSignal.** The pending flag and the one condition variable of
`CompactorSignal`, step by step: `Kick`, the compactor's gate, wait, clear and
merge, writers held at `HardBound`, `SigDrop`. `KickWakes`: a pending kick never
meets a sleeping compactor nobody is about to wake. `HeldWritersReturn`, also when
a merge fails; `DropEnds`.

**RetainedLog.** `RlWrite`, `RlBurn` (an append that fails after its number was
taken), a flush as archive then truncate (`RlFlushBegin`, `RlArchive`,
`RlTruncate`), `log_since` as its three reads (`LogReadWal`, `LogList`,
`LogSend`), `Deliver`, `Ack`, and restarts and lost links between any two. A
consumer's thread reads the slowest ack (`ReadSlowest`) and releases the log to it
later (`Release`), without a lock across the two. `UnackedRetained`: a connected
consumer's frames stay until it has acked them, but for one that registers between
the two (`Unseen`); `HeldIsPrefix`.

**Directories.** The object API (`DirResolve`, `DirWrite`), flush, merge and
checkpoint file by file, `DirCrash` anywhere, `DirOpen` with its refusals.
`OnlyKnownRefusals`: open accepts whatever a crash leaves, with two named
exceptions; `IdsKept`; `ReopenReadsLatest`.

**BlockCache.** Lookup, read outside the lock, insert, and the eviction loop with
its stale heap nodes. `WithinCap`; `EvictsOldest`: the loop removes entries in the
order of last use although hits leave the heap alone.

**Snapshot.** `SnapCapture` under the lock, `SnapCopy` file by file beside
flushes, compactions and checkpoints, `SnapMark`. The manifest has a floor for each
directory's delta logs, which a flush moves and a checkpoint does not, although it
prunes the logs up to its generation. `Restores` is what `restore_from` demands;
`MarkedRestores` what holds of every marked snapshot: all segments and rows of the
capture, and each floor's log unless a checkpoint in the snapshot subsumes it
(`Subsumed`), which is when `restore_from` refuses it. `CopyNeverRaces`.

**Rejoin.** Every rename and removal of a re-bootstrap is an action, and
`RjCrash` may fall between any two. `NeverMixed`, `RecordHasSource`,
`CkptMatches`.

**Archive.** Archivers of several terms, uploads object by object, puts that land
although reported as failed, pruning as listing, choosing and deleting, and the
restore's choice of a timeline. A batch holds what follows the archived frames, up
to `LogBatch` of them (`BatchEnd`), so one that is put again after a reported
failure never ends earlier than the object the failed put may have left; were a
batch free to end anywhere, a restore could read the shorter one last and stop
short of what was archived. `LatestRestorable`, `PruneSpares`.

### The kernel

**KernelCommit.** A commit is `Remember`, `Evolve`, `Tombstone`, `Erase` or
`Commit` (pipe taken, timestamp fixed, batch assembled) and `Land` or
`LandFails`; `KernelCrash` anywhere. Begin and reads take no lock.
`JournalTellsHistory`, `AppliedOnce`, `FirstCommitterWins`, `TimeOrder`,
`UsageSurvives`. `FirstCommitterWins` excuses an object that was erased since the
transaction began, and says *landed since*, not *with a timestamp above the
snapshot*: begin takes no lock, so an erase that has its timestamp and has not
landed is below the snapshot of a transaction that begins meanwhile and still
resets the versions under it.

**KernelIndex.** Relationship and type rows in the commit's batch, computed from the
version the commit read and from its own; a version's relationships are a list, in
which a reference may occur twice and which may name an edge from either end. The
head cache has lock-free readers (`ReadMiss`, `ReadFill`), and the rebuild is three
steps without a lock; both overlap with commits. `RowsKept`: a step makes a row go
missing only by taking away one of two listings of an edge (`Relisted`) or in a
repair that a commit overlapped (`Overlapped`); `RebuildExact`: a repair is exact
about what no commit touched meanwhile; `CacheCoherent`: a cached head is the
current one unless it was read while a commit of the object was under way
(`suspect`). Leftover rows are harmless, since readers check them.

**Schemas.** Single writes, batches, `forget` (an erased koid may be created again)
and `evolve`; a uniqueness lookup that fails, in whole or for some objects, lets the
write pass (`Lookup`); the unique constraint is deferred or immediate, which is
chosen at the start. Schema registration is row, then memory; a migration lists the
heads (`MigrateScan`), reads them one by one and passes over those at the target
(`MigrateRead`), registers in memory (`MigrateRegister`), and commits or fails
(`MigrateCommit`, `MigrateFail`), with client commits, crashes and another
administrator's change between any two. `UniqueKept`, `TargetExclusive`,
`RegistryCurrent`, `MigrationWhole` and `NoneUndone` each name what they do not hold
of: failed lookups and the two writes of one immediate batch; koids erased under a
migration; changes that crossed; heads that were passed over and written since.

**Knowledge.** Each operation of `ops.rs` as the sequence of its commits;
`Abandon` cuts it off between two of them, and the caller may try again.
`OneGeneration`, `ReplayAgrees`, `SweepCloses`.

**Claims.** `ClaimTask`, `ReleaseTask`, `HandoffTask` (two commits), other
writers of the task, wall-clock time, and the 64-bit widths of `claim_until` in
small. `OneClaimant`; `BelievedHeld`: who was told that a claim is theirs until
some time has it until then. `DisturbedSpec` adds `transact` on a claimed task and
a clock that steps back.

**KeyRing.** A rotation is its seven numbered steps in the order of the code, any
of which may be cut off by a crash; `ErrorSteps` may also return an error, having
taken effect or not. Writers create tenants' keys beside it; `RollDeks` rolls
them. `StoreKeyOpens`, `FieldsReadable`, `OneKek`.

**Jobs.** `SubmitCheck`, `SubmitLoad`, `SubmitCas`, `SubmitWrite`,
`SubmitInsert`, `SubmitStart` per submitter, workers, approval, recovery at open.
`AdmissionBound`, `CompletedHasResult`, `FailedRetries`, `RunningIsAlive`,
`SlotsReturn`.

### Beside and above the kernel

**IndexMaintainer.** The maintainer's start, cut, receive, drain, apply and
checkpoint; a property index that is declared, dropped and rebuilt by DDL beside
it; lookups that patch the index with the journal's tail. `StampExact`,
`WaterExact`, `LookupComplete`, `CatchesUp`.

**VectorIndex.** One shard, which takes the dimension of its first vector and drops
those of another (`Mismatched`): each upsert or delete in the three steps of its locks,
rebuilds, a checkpoint that reads the parts one by one, a restart that loads it.
`FindsCurrent`, `GoneHidden`. The graph library is external.

**Consolidation.** The job's scan, merges and demotions as commits beside those of
clients; salience abstracted to whether it is below the threshold. `SourceOnce`:
no memory is merged twice; `Settles`: duplicates and stale memories are dealt with
in the end, when the process stays up.

**QueryStream.** A streamed scan, exact index lookup or eventual index lookup:
stamp, tail, probe, recheck, list, pin, verify, then batches, with commits between
any two. `OneVersionEach`, `WindowRight`, `StableDelivered`, `ExactComplete`. The
index follows the journal event by event; reseeds (`property.rs:400-451`,
`catalog.rs:276-281`) are left out here and are in `IndexMaintainer`.

### The MCP server

**Subscriptions.** Durable subscriptions, the feed and live-query threads,
connections that drop and leave a thread behind, acks that arrive late or fail. A
live query reads the heads or an index that lags behind the journal, its evaluation
may fail (the error is then what it shows), and its result may change with time
alone (`Lapse`). `AckedWasRead`, `FeedDelivers`; `LiveCurrent`: with nothing left to
do, the thread has last written the current result or an error, unless it read an
index that was behind or time has passed since.

**EventStream.** The outbox of a session, its streams and their replay; a client
without a Last-Event-ID is sent nothing again, and a stream above MAX_STREAMS is
refused. `NothingLost` (up to the bounds the code states, and what the first stream
took before the client had read anything, `missed`), `StreamDelivers`.

**Import, IngestDir.** Runs that read a source which changes under them, commit
row by row or object by object, and may fail or be cut off anywhere. An import's
tables are also MongoDB collections, whose cursor may end a read short
(`ReadShort`, `mongodb/src/lib.rs:121`), and Neo4j labels, of which a node has
several. `ImportedCurrent`, `PrunedWhereRead`; `OutageKeeps`: a run tombstones only
what its source lacked at some time since it began, short reads and nodes read under
another label excepted; `RunHeals`: a run without failures leaves the store right
whatever earlier runs left.

**Grants.** Sign-ins, codes, token exchange and rotation by concurrent requests,
the commit gate, crash and failover to a standby. `OneRefresh`, `OneCode`,
`SignInSurvives`.

## 3. Runs

Bounds are chosen so that every action fires and each property's mutant is
caught. For the engine, two keys and batches that overlap on a key are enough to
tell old rows from new, and generation 4 gives two flushes and a merge of each;
two nodes suffice for a takeover in each direction.

| Run | Checks | Instance |
|---|---|---|
| db_faults | TypeOK, FilesOwned, GenerationAdvances | Sync, one merger, every fault, two crashes |
| db_kv | AckedDurable, LayersSound, ImplementsKv | GroupCommit, groups of two, two mergers, power loss, three writes |
| lease_file | TypeOK, HolderWrites, LeaderReturns | TTL 6, immediate answers, slow starts, 2 faults, 2 crashes |
| lease_remote | OneWriterPerTerm, TermsOwned, LeaseAdvances, DeposedStops | TTL 3, answers up to TTL/3 late |
| repl_two | TypeOK, LogMatching, AckedSurvives, StandbysConverge | 2 nodes, 3 frames, 3 terms, 3 stops |
| storage_suite | LeaderNewest, RejoinSafe, SnapshotSafe, VectorSafe, RetainedLogPromise, ArchivePromise, DirectoriesPromise, BlockCachePromise | Replication with self-fencing leaders; Rejoin, Snapshot, VectorIndex, RetainedLog, Archive, Directories, BlockCache |
| kernel_suite | CommitSafe, KeysSafe, ClientsSafe, KernelIndexPromise, KnowledgePromise, ImportPromise, IngestPromise, SchemasPromise, QueryPromise | KernelCommit, KeyRing, Grants and Claims, KernelIndex, Knowledge, Import, IngestDir, Schemas, QueryStream |
| background_suite | SignalPromise, JobsPromise, SchedulerPromise, SubscriptionPromise, StreamPromise | CompactorSignal, Jobs, IndexMaintainer and Consolidation, Subscriptions, EventStream |

`LayersSound` is `LayersOrdered` and `LayersComplete`; `HolderWrites` is
`WritesHoldLease` and `MarginKept`; `LogMatching` is `StreamsPrefix`,
`SameFrameSamePast` and `HistorySound`.

A *suite* puts components that share no state side by side. The variable `part`,
chosen at the start, names the one that moves; the others stay in an initial
state. The states of a suite are the sum, not the product, of its components',
and a promise is checked on every behaviour of its own component. The suites use
one `.cfg` each, with a comment per component.

Some constants stand for how the store is used. The suites fix them at what the
code is written for, and the next section shows what happens otherwise. Where the
code makes no such demand, the instance has everything: two administrators and both
constraint timings in `Schemas`, all four runners in `Import`, lists of two
references in `KernelIndex`, vectors of two dimensions in `VectorIndex`, a limit of
two streams (MAX_STREAMS less what other sessions have) in `EventStream`.

| Constant | In the suites | Means |
|---|---|---|
| `Serving` (Rejoin) | TRUE | the standby has its engine open, so it records the snapshot and exits for its restart; otherwise the follower's loop restores it in place |
| `Gated` (Grants) | TRUE | the commit gate is on |
| `Snapshotters`, `DirWriters` | one | one snapshot, one creator at a time |
| `FirstTenants`, `ErrorSteps` (KeyRing) | {ua}, {2, 3} | field keys exist when a rotation begins; which steps may return an error |
| `Leases`, `SignedMax` (Claims) | {1, 2}, 7 | leases that fit in the signed width |

Deadlock is checked in the lease runs, where time can always pass. The others
are bounded in writes, generations, terms or crashes and may come to an end, so
their configurations say CHECK_DEADLOCK FALSE.

### Where code and documentation disagree

Each of these runs checks one sentence of the repository and finds a behaviour
of the code that contradicts it; "findings" in `PROJECT.json` quotes both.

| Run | Contradicts | Because |
|---|---|---|
| v_kill_in_rewrite | every crash window is recoverable (`db.rs:24`) | the WAL is emptied before its uncovered tail is rewritten |
| v_repl_reclaim | the divergence rule (`replication.rs:240`) | a self-fenced leader claims its term again from its head, which re-attributes the frames below |
| v_job_reuse | a job killed with its process is never silently dropped (`jobs.rs:10`) | `recover` leaves `next_id` at the largest id it read, and `submit`'s `fetch_add` returns the value before the addition (`jobs.rs:335`): the first job after a restart overwrites the last one before it |
| v_key_rotate | a rotation is crash-safe by generations (`keyring.rs:10`, `22`) | step 2 overwrites the `<dek>.next` that a rotation whose step 5 failed left behind (`keyring.rs:177`); a crash before step 4 leaves no wrap that the installed KEK opens |

Other instances of the same modules reproduce more of the kind. Each line is a
property that exists in the module and the constants that differ from the run's;
TLC stops at a counterexample.

| Property | Instance | What happens |
|---|---|---|
| Db!AckedVisible | Sync, no faults | phase A takes the memtables away from readers until phase C (`db.rs:12`) |
| Db!AckedDurable | Faults = {"buildFail"} | a failed segment build (`db.rs:3280`) drops the memtables taken in phase A; the next flush truncates their frames |
| Db!AckedDurable | Faults = {"publishFail"}, a merger, 3 writes, generation 5 | a failed publish leaves extended records (`db.rs:2286`) without readers; a compaction deletes their files unmerged |
| Db!AckedDurable | Faults = {"appendTorn"} | an acked frame follows the torn bytes of a failed append (`db.rs:1231`), and replay refuses the log |
| Db!AckedDurable | Async, power loss | a surviving prefix of the unsynced WAL shadows newer published rows (`db.rs:26`) |
| Db!AckedDurable | Faults = {"rewriteFail"} | the WAL is emptied and writing its tail back fails (`db.rs:2417`): acked frames that no segment covers are gone |
| DbKv!ImplementsKv | Faults = {"syncFail"} | a failed fsync (`db.rs:1238`, `3436`) leaves the frame of a write answered as failed; a crash before the next flush commits it, and a flush drops it |
| DbKv!ImplementsKv | GroupCommit, Faults = {"appendFail"} | an append that fails within a group (`db.rs:3420`) leaves the frames of the group's earlier writes, which are answered as failed |
| Db!SeqsIncrease | Sync | a compaction drops the newest tombstone; a reopen (`db.rs:807`) hands its number out again |
| Lease!WritesHoldLease | TTL 6, Timeout 2 | the deadline is checked only after a request returns (`ha.rs:14`) |
| Lease!WritesHoldLease | ClaimMax 6 | a first claim_term (`ha.rs:570`) as long as the TTL runs without a renewer |
| Replication!StreamsPrefix | 3 nodes, 2 frames | history entries beyond the head survive a claim (`replication.rs:303`), and a diverged standby passes |
| Replication!WinnerHoldsRecorded | 2 nodes | eligibility (`ha.rs:490`) ignores terms: a diverged tail as long as the record's seq takes over |
| Replication!StandbysConverge | FairFencingSpec | a standby refused by a leader that is fencing itself never follows it again (`ha.rs:482`) |
| CompactorSignal!BacklogDrains | no failing merges | a kick between the gate and `clear_pending` is lost (`db.rs:320`); the backlog waits for the next write |
| RetainedLog!ConnectedNeverGapped | suite | a burnt number is a gap to `log_since` (`db.rs:1093`): every standby is re-bootstrapped |
| Directories!SegmentMeansNewest | suite | a placement captured in phase B is published although a newer row is in a memtable (`db.rs:1590`) |
| Directories!AlwaysOpens | suite; two DirWriters | a later generation counts an orphan delta log as its own, and open refuses (`db.rs:549`); two racing creations of one object do too |
| Snapshot!CopyNeverRaces | two Snapshotters | pins are a set, so the first to finish unpins the other's files (`db.rs:305`) |
| Snapshot!AlwaysRestores | suite | a checkpoint prunes the log of a floor that the manifest keeps, and restoring the next snapshot is refused (`snapshot.rs:198`, against `snapshot.rs:576`) |
| Rejoin!RestartFinishes | RjLive | a crash while `.rejoin` is being removed leaves a snapshot that the restore refuses at every restart (`replication.rs:941`) |
| Rejoin!CkptMatches | Serving = FALSE | a stale index checkpoint is resumed from after a local recovery |
| KernelCommit!UsageExact | suite | batches that carry the watermark and not the usage rows make a match say nothing (`kernel.rs:815`) |
| KernelCommit!MovedHeadConflicts | one object, 4 commits | an object erased and created again has its old version number (`docs/transaction-contract.md:27`) |
| KernelCommit!SnapshotPinned | suite | a snapshot taken while a commit has its timestamp and has not landed (`txn.rs:7`) |
| KernelIndex!NoDrift, NeverStale | suite | dropping one of two listings of an edge deletes its row (`kernel.rs:1871`); a repair writes over a commit (`kernel.rs:4503`); a reader that read the old head fills the cache after the invalidation (`storage/cache.rs:3`) |
| Knowledge!SuccessorCurrent, OneSuccessor | suite | checks precede the commits they are about (`ops.rs:1868`, `1071`) |
| IndexMaintainer!LookupExact | Objs = {a, b} | a checkpoint is written under `properties/` and read from its parent (`property.rs:403`) |
| KeyRing!FieldsReadable | FirstTenants = {}, ErrorSteps = {3} | a rotation with no data keys stores an empty set of wraps, which any KEK opens; when step 3 then fails and the first tenant's key is created, the next open promotes the empty set over it (`envelope.rs:175`) |
| Import!NoneLinger, ImportedLive, NeverPruned | suite | types of which no row was read are not pruned (`imports.rs:110`), and a row that comes back stays tombstoned; a cursor that fails ends the list of a collection, and the rows it did not reach are pruned (`mongodb/src/lib.rs:121`); so is a node that a run over one label reads under another than its object's (`imports.rs:682`) |
| Subscriptions!LiveViewCurrent | SubLive | a live query's thread that outlives its connection acknowledges what the next one has to see (`dispatcher.rs:568`); and an evaluation that failed, or read an index that was behind (`live_query.rs:74`), is not repeated until the next event |
| VectorIndex!DeadRebuilt, TriggerKept | suite | entries loaded from a checkpoint have no vectors until they are upserted again, so a rebuild is put off (`lib.rs:248`); the node count is saved at another moment than the graph (`lib.rs:480`), and the ratio stays below the trigger |
| IngestDir!RefusedIsStored, NoGhosts | suite | an incremental run is refused as unchanged although the kernel does not hold the tree of that revision (`ingest_incremental.rs:146`); a clean run leaves a file an edge to an entity it no longer defines (`docs/IMPLEMENTATION-PLAN.md:2536`) |
| Schemas!NeverHybrid | suite | an object written or created between a migration's scan and its registration keeps the old stamp (`kernel.rs:1603`) |
| Grants!SignInSurvives | Gated = FALSE | a rotation answered and lost in a failover (`oauth.rs:10`) |
| Claims!ClaimsSafe | DisturbedSpec; Leases = {1, 9} | `transact` drops the claim (`kernel.rs:2276`); a long lease wraps to the past |
| Claims!HandoffRecorded, LiveRelease | suite | a handoff cut off after its first commit leaves no record (`tool_registry.rs:224`); a release of a lapsed claim is answered as one (`tool_registry.rs:223`) |
| QueryStream!OneVersionSet | suite | the timestamp is pinned while a commit with a smaller one is in flight (`streaming.rs:80`) |
| QueryStream!ScanExact | suite | the list is read before the timestamp is pinned (`streaming.rs:335`) |
| Consolidation!MergesCurrent | suite | a memory forgotten between scan and merge is merged (`consolidation.rs:128`) |
| Consolidation!UsedStayAlive | suite | a refresh within the epsilon writes nothing, and a memory just used is demoted (`kernel.rs:2008`) |
| Consolidation!Settles | RestartingSpec | the water mark restarts at the head: what was behind it is never looked at |

The exceptions that a passing property names are of the same kind: each is a
behaviour of the code that falls short of what one would expect or a comment says,
and the property says that there is no other. `UnackedRetained` excepts a standby
that registers while a thread is about to release the log (`replication.rs:595`,
`606-608`, `archive.rs:322`): it finds a gap and is re-bootstrapped. `FindsCurrent`
excepts embeddings of another dimension, which leave the old one to be found
(`engines/vector/src/lib.rs:323`). `NothingLost` excepts what a first stream took
and its client never read (`mcp_http.rs:399`). `UniqueKept` excepts failed lookups
(`kernel.rs:200-212`).

The passing properties of `repl_two` are therefore claims about one standby and
leaders that crash rather than fence themselves; MRFC-0080 names several
standbys as a limit, but not these two consequences.

### Fairness

`Lease!FairSpec`: weak fairness of each node's own steps (threads run, the
supervisor restarts what exits), of the kernel's opening and of time. Faults,
crashes and late writes are never forced, and are finite in number.
`LeaderReturns` needs a start plus a request to fit in the TTL: with answers
that regularly take TTL/3, or a claim longer than the TTL, healthy leaders are
deposed again and again. The term bound of that run is never reached.

`Replication!FairSpec`: weak fairness of restarts, polls and handshakes, strong
fairness of the stream, which says that a link that keeps coming back carries a
frame in the end (`follow` reconnects for ever). Nothing is assumed of clients,
takeovers or gaps.

`MCBackgroundSpec`: weak fairness of each thread's own steps, because the
threads of a live process run: the compactor, writers past their first step, and
Drop; submitters in the middle of a submit, and workers; the index maintainer and
an index build in progress; broadcast, a subscribe in progress, and the feed's and
live query's threads; stream pumps, whose keep-alives to a client that has gone fail
in the end (`PumpTake` or `PumpFails`), and a client that opens a stream again; the
consolidation job. Clients, faults, restarts and lost connections are never
forced, and their number is bounded.

## 4. Proofs

Each theorem holds for every set of nodes, keys, tenants or agents and every
bound, under the hypothesis in the third column where there is one. Where a
theorem names a property of a run, the run checks it on a small instance.

| Theorem | States | Hypothesis |
|---|---|---|
| `Db_proofs!TypeCorrect` | `TypeOK` of the engine | |
| `Db_proofs!FilesAlwaysOwned`, `GenerationAlwaysAdvances` | `FilesOwned`, `GenerationAdvances`, under every fault | |
| `DbKv_proofs!AckedAlwaysDurable`, `LayersAlwaysSound` | `AckedDurable`, `LayersSound` | `SafeFaults`: appends, fsyncs and merges may fail, and power where an ack waits for the fsync |
| `DbKv_proofs!EngineImplementsKv` | `ImplementsKv`: the engine refines `KvStore` | `KvFaults`: of those, none that leaves the frame of a failed write in the log |
| `Lease_proofs!LeaseTypeCorrect`, `TermsAlwaysOwned`, `TermsHaveOneWriter`, `LeaseAlwaysAdvances` | `TypeOK`, `TermsOwned`, `OneWriterPerTerm`, `LeaseAdvances`, for any timing | |
| `Lease_proofs!HolderAloneWrites` | `HolderWrites` | `Prompt`: answers at once, a first claim shorter than 2/3 TTL |
| `Replication_proofs!ReplicationTypes`, `LeaderAlwaysNewest` | `TypeOK`, `LeaderNewest`, with self-fences | |
| `Replication_proofs!LogsAlwaysMatch`, `AckedAlwaysSurvives` | `LogMatching`, `AckedSurvives`, without self-fences | `TwoNodes`: a leader and one standby |
| `Snapshot_proofs!RejoinNeverMixes` | `RjTypeOK`, `NeverMixed`, `RecordHasSource` | |
| `Snapshot_proofs!ServingRejoinSafe` | `RejoinSafe`, which adds `CkptMatches` | `Serving` |
| `Snapshot_proofs!SnapshotsRestore` | `SnapTypeOK`, `MarkedRestores` | |
| `Snapshot_proofs!LoneSnapshotSafe` | `SnapshotSafe`, which adds `CopyNeverRaces` | one snapshot at a time |
| `Snapshot_proofs!LogRetained` | `RetainedLogPromise` | |
| `Snapshot_proofs!ArchiveKept` | `ArchivePromise` | |
| `Kernel_proofs!CommitAlwaysSafe` | `CommitSafe` | |
| `Kernel_proofs!KeysAlwaysSafe` | `KeysSafe` | `SafeErrors`: no error after the KEK is installed, some tenant has a key |
| `Kernel_proofs!VectorAlwaysSafe` | `VectorSafe` | |
| `Clients_proofs!ClaimsAreHeld` | `ClaimsSafe` | `LeasesFit`: the end of a lease fits the signed width |
| `Clients_proofs!OneGrantEach` | `GrTypeOK`, `OneRefresh`, `OneCode`, with or without a gate | |
| `Clients_proofs!ClientsAreSafe` | `ClientsSafe`, which adds `SignInSurvives` | `Gated`, `LeasesFit` |
| `Clients_proofs!NoKickLost` | the safety part of `SignalPromise`: `SigTypeOK`, `KickWakes` | |
| `Clients_proofs!JobsKept` | the safety part of `JobsPromise`: `JobsTypeOK`, `AdmissionBound`, `CompletedHasResult`, `FailedRetries`, `RunningIsAlive` | |
| `Clients_proofs!MergedOnce` | the safety part of `ConsolidationPromise`: `ConTypeOK`, `SourceOnce`, with restarts as well | |
| `Clients_proofs!IndexesExact`, `LookupsMissNothing` | the safety part of `MaintainerPromise`: `MtTypeOK`, `StampExact`, `WaterExact`, `LookupComplete` | |
| `Clients_proofs!LiveQueriesCurrent` | of `SubscriptionPromise`: `LiveCurrent` | |
| `Promises_proofs!SchemasKept` | `SchemasPromise` | |
| `Promises_proofs!ImportsKept` | `ImportPromise` | |
| `Promises_proofs!IndexKept` | `KernelIndexPromise` | |
| `Promises_proofs!RunsHeal` | `IngestPromise` | |
| `Promises_proofs!KnowledgeKept` | `KnowledgePromise` | |

Every hypothesis is one that the code needs: section 3 has, for each, an instance
without it and the property that fails there. The other assumptions are the named
ASSUMEs of the modules, the types of the constants, which TLC evaluates in the
runs.

Hardly any of these properties is inductive. What the invariants add:

- *FilesOwned*: its core is that CURRENT's manifest is there with all its segments
  (`ManifestBacked`). A merge deletes the files it has replaced, and nothing in that
  says that those are not the ones CURRENT names; so `FilesOwned` is about what each
  thread owns: the records and the attached readers are backed by files
  (`ListsBacked`), a flush's plan (`PlanOwned`) and a merge's output
  (`OutputOwned`) use ids nobody else has, and the phase a thread is in agrees
  with the lock (`ThreadsOwned`). Allocation above every id in use then gives
  freshness.
- *AckedDurable* and *LayersSound* are proved together, from `DataInv`. Two
  predicates carry the argument. `Log(w, h)` says of a log and a history that the
  frames are of submitted writes in their order, that only an unanswered last one
  may be torn, and that no acked write is missing between two frames. `Base(U, w,
  h)` says that the rows U may lie below that log: none is newer than a frame
  unless an acked frame has it, and U answers for every key that no acked frame
  touches. `LogInv` and `BaseInv` state them of the disk and of what memory reads;
  `PendInv` says that writes in flight are the last ones and have frames no flush
  covers; `MemInv`, that memtables and flush plan hold the acked frames; `MergeInv`,
  what a merge has read; `RowInv`, that no number is used twice for a key; `OrdInv`,
  the order of the layers. Then each kind of step is one lemma about `Log` and `Base`:
  a write appends (`Appending`), a flush moves a prefix of the log below it
  (`Truncating`), a merge replaces rows by what they merge to (`BaseMerged`), power
  loss cuts the log at or above the last acked frame (`Cutting`). Tombstones that a
  compaction drops are why `Base` compares with the log and not with the history:
  rows below may be older than what a key once held, but only where nothing above
  could expose them.
- *ImplementsKv*: the abstract map is what the writes on disk leave in each key, the
  abstract queue the writes in flight, which are a suffix of the history
  (`Splits`). A write's append is `Submit`, its apply `Commit`, its failure `Refuse`;
  a crash is `Cut` with the number of frames that survive; opening, flush and merge
  stutter, by `DataInv`.
- *OneWriterPerTerm*: a claim copies a term from a record or a request into a
  directory. `TermsOwned` says who owns a term before that: the holder of the
  record, or the node whose CAS has landed and which is about to claim.
  `OneOwner` makes the owner unique, `TermsBelow` bounds every owned term by the
  record's, and `CallsValid` and `LateValid` say of every CAS that can still
  succeed, on time or late, that it writes a larger term or the very record. The
  timing plays no role: terms are safe even where the margin is not.
- *HolderWrites* is where the timing is: `TimeInv` relates the clocks. A leader's
  age at each of its steps is bounded, because it sleeps TTL/3, its requests take
  no time and only a first claim adds to them (`ClockInv`); a standby has seen the
  record unchanged for no longer than a live node's last success (`SeenInv`); and
  whoever is live holds the record, with nothing under way that could still take
  it (`HoldInv`).
- *LeaderNewest*: `NewestInv` bounds every node's and every snapshot's term by the
  record's, puts whoever leads at it, and says that nobody but a standby follows.
  `TypeInv` adds that the terms of a history grow, so that `claim_term` cuts it at
  one place.
- *LogMatching* and *AckedSurvives* are proved together, from `MatchInv`: a term is
  new until its holder claims it (`TermInv`); two histories that have a term have
  it from the same frame on (`HistInv`); whatever was written under the record's
  term is in its holder's log (`LeaderHas`); the history a standby took over may
  be ahead of its log, but not of the seq the record asks of its next holder
  (`FitInv`); a stream extends a prefix of the holder's log or of the one before
  it (`LinkInv`), and a shipped snapshot is of the holder (`SnapInv`). `FitInv` is
  what fails with three nodes: a node that has won still applies frames of the
  stream, which the record's seq does not count, so a third node may take over
  behind the first frame of the term it claims after, and its history attributes
  frames it never had.
- *RejoinSafe*: `RjInv` says for each step of the re-bootstrap which of the
  directory and its siblings holds what; *SnapshotSafe*: `SnapInv` says that what
  a snapshot has copied and has yet to copy are the files its generation needs,
  and that they and its WAL hold every row of the capture, the floor's logs among them or a
  checkpoint that covers them (`DeltaCovered`); `PinInv`, that what is
  yet to be copied is on disk and pinned.
- *RetainedLogPromise*: `RlInv` says that files and WAL are in order and of the
  leader's frames, a file that overlaps the WAL being the prefix a flush archived
  and has yet to truncate (`DiskInv`, `FlushInv`). The step lemmas then show that
  a reader whose files reach back to what it sent sees every frame between that
  and the newest it reads, which keeps `HeldIsPrefix`. `ReleaseInv` is for the
  release, which is later than the ack it goes by: whoever was counted in that ack
  still has every frame up to it, so the release takes nothing unacked from them.
- *ArchivePromise*: `ArcInv` says that something at least as new as every snapshot a
  prune keeps is complete (`KeptInv`), so that whatever is deleted has a newer
  replacement (`DoomedOlder`), that an upload is newer than all a prune keeps of its
  term and has its file before its marker (`UploadInv`, `FileInv`), that a marker is
  deleted before its file (`DoomInv`), that log objects follow one another, the one
  beyond what is counted as archived being the batch that will be put again
  (`BatchInv`), and that some complete snapshot of the newest timeline is followed by
  the log without a hole (`ChainInv`). `BatchInv` is not inductive for a batch that
  may end anywhere, which is how the rule in `BatchEnd` was found to matter.
- *CommitSafe*: `CommitInv` says that the holder of the pipe lock still has what it
  checked when its batch lands (`PipeInv`: the versions follow the heads, the key
  or id has no outcome, what it writes over is no newer than its snapshot), that
  every key and id of the journal has its outcome (`ByInv`), and what an open
  transaction may still rely on (`TxnInv`): the journal it began after is no newer
  than its snapshot, and a staged version counts no version above the snapshot,
  unless the object was erased since. A staged version equal to the head's then
  makes the two sets of versions equal. That argument gave `FirstCommitterWins`
  its form: the one by timestamps holds within the run's bounds and fails for an
  erase that lands after begin with an older timestamp.
- *KeysSafe*: `KeyInv` says that the rows the next open would choose are under the
  installed KEK and have the key of every committed ciphertext, what the memory
  holds against the rows, and which KEK each file and row is under at each step of
  a rotation.
- *VectorSafe*: `VecInv` says that the graph, the map and the tombstones are right
  about every object that no event after the applied ones is about, and the same
  of each part of a checkpoint with its water mark: the mark is read first, so
  the replay from it repairs whatever the parts, read later, disagree on. `DimInv`
  says that the shard, and its checkpoint, has the dimension of the journal's first
  vector, so that a replay drops the same vectors again.
- *ClientsSafe*: `BelievedHeld` is inductive with the types (`ClaimInv`); `GrInv`
  relates each request under way to the lock and to the codes and tokens it has
  read, keeps one token per sign-in in the store and on the standby, and puts an
  answered one on both.
- *KickWakes*: `SigInv` says that until Drop starts the compactor sleeps only between a
  test that found the flag clear and the next kick, and is then the only sleeper
  (`NoLostKick`), so that `notify_one` cannot wake anybody else in its place.
- The jobs' invariants are proved together, from `JobsInv`, which says who owns an id: a
  submit that has written its row has an id of its own, below the counter, that no
  worker has (`SubmitOwns`, `OwnIds`), and a worker's row is the one it was started for
  until its own last write (`WorkerOwns`).
- *SourceOnce*: `ConInv` says that what the job is about to merge is a source of no
  merge yet, because nobody else merges and it read the edges after its scan (`PairFree`); and
  `Balanced` counts: a merge takes two memories no other merge takes and gives one, so
  merges stay fewer than the memories clients wrote and a merge finds a fresh id.
- *StampExact*, *WaterExact* and *LookupComplete* are proved together, from `MtInv`:
  what is pending follows the last event applied without a gap, whatever was received
  twice or skipped between subscription and replay (`PendInv`); the contents, and a
  checkpoint's at its water mark, are exact up to the next event to apply (`AnnInv`); a
  rebuild by a starting maintainer ends before its replay (`ReseedInv`); the property
  index is exact at its stamp until the maintainer applies, at what was applied after
  that, and a batch that began before the index was declared is covered by its scan
  (`IxInv`); and what a quiet lookup has not put into its tail is below the stamp
  (`LookupInv`). `LookupInv` is not inductive for a batch that fails behind a reseed and
  is applied again from its first event: such a lookup may miss an object, which the
  run's bounds do not reach and an instance with two objects and a batch of three shows.
  `LookupComplete` excuses it, as it does a reseed that falls into the lookup.
- *LiveCurrent*: `SubInv` says that an open live query has its channel, and that an
  evaluation that is out of date, for another reason than the excepted ones
  (`Settled`), has an event in it or a broadcast still to come, because the thread
  subscribes before it evaluates.
- *SchemasPromise*: `SchInv` says what the registry and the row hold at each step
  of a change that no other crosses (`ChangeInv`), and that what a migration read is
  still what the object holds, and what it passed over still at the target, unless its
  version moved on (`ReadInv`), so that its commit, which checks the versions of what it
  read, undoes nothing. With koids used again a version may come back with another
  value, which is why `ReadInv` excepts those erased meanwhile. `HeadInv` says that the
  relationship index has every head's target, so that the lookup for another source
  finds it.
- *ImportPromise*: `ImpInv` says that what is held under a run id, and read by the
  run under way, is the source as it still is if it has not changed since the id was
  first used (`SourceInv`), that a fresh run finds no key of its own (`PutInv`), that
  a row looked for in a table and not found was gone from it or the read was cut short
  (`RunInv`), and that rows other than nodes stay with their table (`HomeInv`).
- *KernelIndexPromise*: `IndexInv` says that the cache and whoever is about to fill
  it have the current head of every object that no commit of its own overlapped
  (`CacheInv`), that a batch touches rows of its object only and takes away none that
  its own head needs unless the previous version listed the reference twice
  (`BatchInv`), and that what a repair scanned is still so of whatever no commit has
  touched (`RepairInv`).
- *IngestPromise*: `CleanInv` says how far a run none of whose calls has failed has
  come: what it has written of the entities, the files and the directory.
- *KnowledgePromise*: `KnInvariant` says that an answered or recorded successor is
  linked to a claim superseded at the instant of its creation, and that an answer
  is the one its key has (`AnswerInv`); what holds between a supersession's commits
  (`LinkInv`); and that a sweep, none of whose stamps failed, has stamped or will
  stamp whatever is derived from what it has stamped or will (`SweepInv`), since
  `Dependents` is closed (`DependentsClosed`) and no step takes a stamp back
  (`ClaimsGrow`).

A fact by induction (a set of naturals has a least element, so a history is cut
at one place, a set of versions has a newest one) is used in its set form, `Least`
in `DbKv_proofs`, `Replication_proofs`, `Snapshot_proofs` and `Kernel_proofs`,
`LastId` and `LastPosition` in `Clients_proofs`.

Only model-checked: all liveness (`DeposedStops`, `LeaderReturns`,
`StandbysConverge` and the `~>` parts of the promises of `MCBackground`), which is out
of the prover's reach; the promises `DirectoriesPromise`, `BlockCachePromise`
and `QueryPromise`, which speak of what a sequence adds up to, or holds after it was
sorted or filtered, which is induction over data; and, for the same reason, what
`SubscriptionPromise` says of acknowledgements (`AckedWasRead`) and `StreamPromise`
of frames (`NothingLost`): both follow what `SelectSeq` leaves of a backlog, which the
provers take as an operator they know nothing of.

## 5. Plan

1. The remaining action promises: what of `Directories`, `BlockCache`,
   `QueryStream`, `Subscriptions` and `EventStream` does not rest on what a
   sequence holds after a sum, a sort or a filter.
2. More of the system, as the code around it changes: the audit log, lockouts,
   the materializing executor beside writers.

## 6. Not modelled

| Part | Why |
|---|---|
| Segment byte format, statistics, bloom filters | sequential encoding of immutable files; `Db` takes a segment as the rows it holds |
| Migration and legacy envelopes | one process, one pass over a directory nobody else uses |
| Audit and KMS file formats | formats; their order against a rotation is in `KeyRing` |
| Compiler, materializing runtime | functions of a query and a snapshot, without state of their own; what a stream sees beside writers is in `QueryStream` |
| Graph, reasoning, semantic and text engines | ranking and numeric search over one snapshot; their maintenance is in `IndexMaintainer` and `VectorIndex` |
| Extraction pipelines (markdown, code, documents) | text in, objects out; what becomes of the objects is in `IngestDir` |
| REST and native surfaces, SDKs | one kernel call per request, no state across requests |

Within the modelled components: manual promotion, TLS and authentication in
replication; clocks that run at different rates, paused processes and a deleted
record in the lease; object content, authorisation and evidence in the kernel; reseeds
of the index under a streamed query.
`PROJECT.json` notes it for each component.

Coverage: the map names about a tenth of the implementation's lines. The rest is
mostly the code listed above, which is long and textual.
