---------------------------- MODULE QueryStream ----------------------------
(***************************************************************************)
(* A streamed query beside commits: execute_streaming and its operators    *)
(* (runtime/src/streaming.rs), Scan -> Filter -> Limit.                    *)
(*                                                                         *)
(* The list of objects to read comes from the class rows of the type, from *)
(* a property index, or from that index patched with the journal it has    *)
(* not applied; then a timestamp is pinned and batches are pulled.  Every  *)
(* read of the store is a step of its own, with commits, the index's       *)
(* maintainer and cancellation in between.                                 *)
(*                                                                         *)
(* The journal determines the versions: an entry is an object, whether its *)
(* version matches the query's predicate, and the commit's timestamp.  A   *)
(* commit takes its timestamp first and lands later, one commit at a time. *)
(* Left out: projection, erased objects, facts whose validity ends while   *)
(* the stream is open (each batch compares with the clock of its own), and *)
(* reseeds of the index (property.rs:400-451, catalog.rs:276-281): here it *)
(* is a prefix of the journal that only grows.  IndexMaintainer has them.  *)
(***************************************************************************)
EXTENDS Naturals, Sequences, FiniteSets, FiniteSetsExt, SequencesExt

CONSTANTS QKoids,       \* objects of the type; ids are numbers, lists are sorted
          Seeded,       \* those stored and indexed at the start, all matching
          QBatch,       \* batch_size
          QLimit, QOffset,
          QTailCap,     \* INDEX_TAIL_CAP
          MaxQLog       \* bound: entries of the journal

ASSUME StreamAssumption ==
    /\ QKoids \subseteq Nat /\ IsFiniteSet(QKoids) /\ Seeded \subseteq QKoids
    /\ QBatch \in Nat \ {0} /\ {QLimit, QOffset, QTailCap, MaxQLog} \subseteq Nat

VARIABLES
    qlog,    \* the journal, and with it the versions of every object
    qclk,    \* the hybrid logical clock
    qpend,   \* the commit that has its timestamp and has not landed
    qidx,    \* the property index: entries it holds, entries it is stamped with
    qs       \* the query

qVars == <<qlog, qclk, qpend, qidx, qs>>

Ascending(S) == SetToSortSeq(S, <)

NoCommit == [koids |-> {}, ts |-> 0, match |-> FALSE]
NoQuery == [pc |-> "idle", strategy |-> "Scan", begun |-> 0, head |-> 0, tries |-> 0,
            stamp |-> 0, tail |-> {}, list |-> <<>>, exact |-> FALSE, ts |-> 0, pinned |-> 0,
            cursor |-> 0, matched |-> <<>>, out |-> <<>>, offset |-> 0, remaining |-> 0,
            cancel |-> FALSE]

QInit ==
    /\ qlog = [i \in 1..Cardinality(Seeded) |->
                  [koid |-> Ascending(Seeded)[i], match |-> TRUE, ts |-> i]]
    /\ qclk = Cardinality(Seeded)
    /\ qpend = NoCommit
    /\ qidx = [applied |-> Cardinality(Seeded), stamp |-> Cardinality(Seeded)]
    /\ qs = NoQuery

-----------------------------------------------------------------------------
(* Reads *)

\* The entry of k's newest version among the first n with a timestamp up to ts.
EntryAt(k, n, ts) == Max({0} \cup {i \in 1..n : qlog[i].koid = k /\ qlog[i].ts <= ts})
MatchesIn(k, n, ts) == LET i == EntryAt(k, n, ts) IN i # 0 /\ qlog[i].match

\* scan_type: the class rows.
TypeKoids == {qlog[i].koid : i \in DOMAIN qlog}

\* scan_eq: what the index holds for the predicate's value.
ScanEq == {k \in QKoids : MatchesIn(k, qidx.applied, qclk)}

\* journal_after.
KoidsAfter(stamp) == {qlog[i].koid : i \in stamp + 1..Len(qlog)}

-----------------------------------------------------------------------------
(* Commits and the index *)

\* The pipe lock is taken and the timestamp fixed; one or two objects.
QCommitTake(S, match) ==
    /\ qpend = NoCommit /\ Len(qlog) + Cardinality(S) <= MaxQLog
    /\ qclk' = qclk + 1
    /\ qpend' = [koids |-> S, ts |-> qclk + 1, match |-> match]
    /\ UNCHANGED <<qlog, qidx, qs>>

QCommitLand ==
    /\ qpend # NoCommit
    /\ qlog' = qlog \o [i \in 1..Cardinality(qpend.koids) |->
                           [koid |-> Ascending(qpend.koids)[i], match |-> qpend.match,
                            ts |-> qpend.ts]]
    /\ qpend' = NoCommit
    /\ UNCHANGED <<qclk, qidx, qs>>

\* apply_batch: an event at a time, the stamp when the batch ends.
QIndexApply ==
    /\ \/ /\ qidx.applied < Len(qlog)
          /\ qidx' = [qidx EXCEPT !.applied = @ + 1]
       \/ /\ qidx.stamp < qidx.applied
          /\ qidx' = [qidx EXCEPT !.stamp = qidx.applied]
    /\ UNCHANGED <<qlog, qclk, qpend, qs>>

-----------------------------------------------------------------------------
(* Choosing the list *)

Go(next) == qs' = next /\ UNCHANGED <<qlog, qclk, qpend, qidx>>

\* execute_streaming: the strategy, and for Exact the journal's head.
QStart(strategy) ==
    /\ qs.pc = "idle"
    /\ Go([NoQuery EXCEPT !.strategy = strategy, !.begun = Len(qlog), !.head = Len(qlog),
                          !.offset = QOffset, !.remaining = QLimit,
                          !.pc = CASE strategy = "Scan" -> "list"
                                   [] strategy = "EventualIndex" -> "probe"
                                   [] strategy = "Exact" -> "stamp"])

\* unapplied: applied_seq, then the journal past it, unless that is too long.
QStamp == qs.pc = "stamp" /\ Go([qs EXCEPT !.pc = "tail", !.stamp = qidx.stamp])

\* Mutant: the index is taken to have the whole journal.
TailFrom_Head == Len(qlog)

\* Where the unapplied journal begins.
TailFrom == qs.stamp

QTail ==
    /\ qs.pc = "tail"
    /\ IF Len(qlog) - qs.stamp > QTailCap
       THEN Go([qs EXCEPT !.pc = "list"])
       ELSE Go([qs EXCEPT !.pc = "probe", !.tail = KoidsAfter(TailFrom)])

\* scan_eq; patched_eq adds the tail, sorts and deduplicates.
QProbe ==
    /\ qs.pc = "probe"
    /\ Go([qs EXCEPT !.list = Ascending(ScanEq \cup qs.tail),
                     !.pc = IF qs.strategy = "Exact" THEN "recheck" ELSE "pin"])

\* The head once more: unmoved, the list is kept; moved, one retry, then a scan.
QRecheck ==
    /\ qs.pc = "recheck"
    /\ IF Len(qlog) = qs.head
       THEN Go([qs EXCEPT !.pc = "pin", !.exact = TRUE])
       ELSE Go([qs EXCEPT !.pc = IF qs.tries = 0 THEN "stamp" ELSE "list",
                          !.tries = @ + 1, !.head = Len(qlog)])

-----------------------------------------------------------------------------
(* Opening *)

\* ScanOperator::open without a list: type_koids first ...
QList == qs.pc = "list" /\ Go([qs EXCEPT !.pc = "pin", !.list = Ascending(TypeKoids)])

\* ... then snapshot_now.
QPin ==
    /\ qs.pc = "pin"
    /\ qclk' = qclk + 1
    /\ qs' = [qs EXCEPT !.ts = qclk + 1, !.pinned = Len(qlog),
                        !.pc = IF qs.exact THEN "verify" ELSE "run"]
    /\ UNCHANGED <<qlog, qpend, qidx>>

\* Mutant: an assisted list is not checked again after open.
HeadHeld_Always == TRUE

\* The journal's head after open, for a list from the index.
HeadHeld == Len(qlog) = qs.head

\* A commit since the probe: the pipeline is built again over a type scan.
QVerify ==
    /\ qs.pc = "verify"
    /\ Go([qs EXCEPT !.exact = FALSE, !.pc = IF HeadHeld THEN "run" ELSE "list"])

-----------------------------------------------------------------------------
(* Pulling *)

\* Mutant: the head of every object, as the materializing scan reads it.
ReadAt_Head(k) == EntryAt(k, Len(qlog), qclk)

\* scan_by_type_range_at: the newest version up to the pinned timestamp.
ReadAt(k) == EntryAt(k, Len(qlog), qs.ts)

\* Mutant: the offset is dropped from every batch.
OffsetLeft_Kept(n) == qs.offset

\* LimitOperator: what is left to skip after a batch of n rows.
OffsetLeft(n) == qs.offset - Min({qs.offset, n})

\* next_batch, as far as one slice of the list: the rows that match, without those
\* still to skip, up to those that remain.  The token is looked at when a pull begins:
\* a slice may still be read after a cancel.
QPull ==
    /\ qs.pc = "run" /\ qs.remaining > 0 /\ qs.cursor < Len(qs.list)
    /\ LET end   == Min({qs.cursor + QBatch, Len(qs.list)})
           slice == SubSeq(qs.list, qs.cursor + 1, end)
           read  == [i \in DOMAIN slice |-> ReadAt(slice[i])]
           rows  == SelectSeq(read, LAMBDA i : i # 0 /\ qlog[i].match)
           skip  == Min({qs.offset, Len(rows)})
           take  == Min({qs.remaining, Len(rows) - skip})
       IN  Go([qs EXCEPT !.cursor = end, !.matched = @ \o rows,
                         !.out = @ \o SubSeq(rows, skip + 1, skip + take),
                         !.offset = OffsetLeft(Len(rows)), !.remaining = @ - take])

\* None: the list is exhausted or the limit reached.  Cancelled: the next pull fails.
QEnd ==
    /\ qs.pc = "run"
    /\ \/ qs.cancel /\ Go([qs EXCEPT !.pc = "cancelled"])
       \/ /\ ~qs.cancel /\ (qs.remaining = 0 \/ qs.cursor = Len(qs.list))
          /\ Go([qs EXCEPT !.pc = "done"])

\* CancellationToken::cancel, from any thread.
QCancel ==
    /\ qs.pc \notin {"idle", "done", "cancelled"} /\ ~qs.cancel
    /\ Go([qs EXCEPT !.cancel = TRUE])

QNext ==
    \/ \E S \in {T \in SUBSET QKoids : Cardinality(T) \in 1..2}, match \in BOOLEAN :
          QCommitTake(S, match)
    \/ QCommitLand \/ QIndexApply
    \/ \E strategy \in {"Scan", "Exact", "EventualIndex"} : QStart(strategy)
    \/ QStamp \/ QTail \/ QProbe \/ QRecheck \/ QList \/ QPin \/ QVerify
    \/ QPull \/ QEnd \/ QCancel

QSpec == QInit /\ [][QNext]_qVars

-----------------------------------------------------------------------------
(* Properties *)

QTypeOK ==
    /\ \A i \in DOMAIN qlog : qlog[i] \in [koid : QKoids, match : BOOLEAN, ts : 1..qclk]
    /\ qidx.stamp <= qidx.applied /\ qidx.applied <= Len(qlog)
    /\ qs.pc \in {"idle", "stamp", "tail", "probe", "recheck", "list", "pin", "verify", "run",
                  "done", "cancelled"}
    /\ qs.offset \in 0..QOffset /\ qs.remaining \in 0..QLimit

\* No object appears twice in a stream, and none in a version newer than the pinned
\* timestamp, however many commits land between two pulls.
OneVersionEach ==
    /\ \A i, j \in DOMAIN qs.matched :
          qlog[qs.matched[i]].koid = qlog[qs.matched[j]].koid => i = j
    /\ \A i \in DOMAIN qs.matched : qlog[qs.matched[i]].ts <= qs.ts

\* OFFSET and LIMIT cut one window out of the matching rows, wherever the batches end.
WindowRight ==
    qs.out = SubSeq(qs.matched, QOffset + 1, Min({Len(qs.matched), QOffset + QLimit}))

\* An object that matched when the query began, and has matched in every version since,
\* is in a finished stream of Scan or Exact, unless the limit ended it before: the
\* index's lag, its maintainer and the retries hide nothing.
Undisturbed(k) ==
    /\ MatchesIn(k, qs.begun, qclk)
    /\ \A i \in qs.begun + 1..Len(qlog) : qlog[i].koid = k => qlog[i].match
StableDelivered ==
    qs.pc = "done" /\ qs.strategy # "EventualIndex" /\ qs.remaining > 0
        => \A k \in QKoids : Undisturbed(k) => \E i \in DOMAIN qs.matched :
                                                  qlog[qs.matched[i]].koid = k

\* A list from the index that passes the check after open names every object whose
\* version at the pinned timestamp matches: the completeness Exact promises.
ExactComplete ==
    qs.pc = "verify" /\ qs'.pc = "run"
     => \A k \in QKoids : MatchesIn(k, Len(qlog), qs.ts) => k \in Range(qs.list)

\* What a streamed query promises: the parts above.
QueryPromise ==
    [][(QTypeOK /\ OneVersionEach /\ WindowRight /\ StableDelivered)' /\ ExactComplete]_qVars

\* "every batch resolves ... at that timestamp: one consistent version set": not of a
\* timestamp pinned while a commit with a smaller one has yet to land.
OneVersionSet == \A i \in DOMAIN qs.matched : qs.matched[i] <= qs.pinned

\* "the type scan pins the koid list at open, so the stream is exactly the open
\* snapshot": not of an object created between the list and the timestamp.
ScanExact ==
    qs.pc = "done" /\ qs.remaining > 0 /\ qs.strategy = "Scan"
        => \A k \in QKoids : MatchesIn(k, qs.pinned, qs.ts)
              => \E i \in DOMAIN qs.matched : qlog[qs.matched[i]].koid = k
=============================================================================
