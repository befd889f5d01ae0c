------------------------------- MODULE Archive -------------------------------
(***************************************************************************)
(* The continuous archive and point-in-time restore (mcp/src/archive.rs):  *)
(* every term's leader runs an archiver that uploads a snapshot, then the  *)
(* log in batches, then snapshots now and then, and prunes.  A deposed     *)
(* leader's archiver may go on for a while.  An upload is several objects, *)
(* the last of them COMPLETE; any put may land although it is reported as  *)
(* failed, and an archiver may die between two puts.                       *)
(*                                                                         *)
(* A frame is the term it was written under, so a log is a sequence of     *)
(* terms; ms is a clock of its own.                                        *)
(***************************************************************************)
EXTENDS Integers, Sequences, FiniteSets

CONSTANTS
    MaxArcTerm,   \* bound: terms
    MaxArcSeq,    \* bound: length of a log
    MaxArcMs,     \* bound: the clock
    LogBatch,     \* LOG_BATCH, the frames of a log object
    Keep,         \* snapshots retention keeps
    MaxArcFaults  \* bound: failed puts, gaps and dead archivers

ASSUME ArcAssumption ==
    /\ {MaxArcSeq, MaxArcMs, MaxArcFaults} \subseteq Nat
    /\ {MaxArcTerm, Keep, LogBatch} \subseteq Nat \ {0}

ArcTerms == 1 .. MaxArcTerm

VARIABLES
    alog,     \* per term: its leader's log
    aterm,    \* the newest term
    objects,  \* the keys in the object store
    arc,      \* per term: the archiver
    ams,      \* the clock
    arcFaults

arcVars == <<alog, aterm, objects, arc, ams, arcFaults>>

\* Keys of the store.  A snapshot is one data object and COMPLETE.
SnapKey(t, seq, ms, part) == [k |-> "snap", term |-> t, seq |-> seq, ms |-> ms, part |-> part]
LogKey(t, first, last, ms) == [k |-> "log", term |-> t, first |-> first, last |-> last, ms |-> ms]

\* `why` is what an upload is for; `snapped` the last periodic snapshot (-1: none).
ArcOff == [pc |-> "off", why |-> "start", archived |-> 0, seq |-> 0, ms |-> 0, snapped |-> -1,
           kept |-> {}, doomed |-> {}]

ArcInit ==
    /\ alog = [t \in ArcTerms |-> <<>>] /\ aterm = 1 /\ objects = {}
    /\ arc = [t \in ArcTerms |-> ArcOff] /\ ams = 1 /\ arcFaults = 0

-----------------------------------------------------------------------------
(* Timelines *)

\* Timeline::read_all: a snapshot counts once its COMPLETE is there.
Snaps(t) == {o \in objects : o.k = "snap" /\ o.part = "COMPLETE" /\ o.term = t}
Logs(t) == {o \in objects : o.k = "log" /\ o.term = t}

MaxOf(S) == CHOOSE m \in S : \A x \in S : x <= m

\* Archiver::start's resume point.
Resume(t) == MaxOf({l.last : l \in Logs(t)} \cup {s.seq : s \in Snaps(t)})

-----------------------------------------------------------------------------
(* Leaders *)

\* A standby that holds some prefix of the log takes over at the next term.
ArcTakeOver ==
    /\ aterm < MaxArcTerm
    /\ aterm' = aterm + 1
    /\ \E n \in 0 .. Len(alog[aterm]) : alog' = [alog EXCEPT ![aterm + 1] = SubSeq(alog[aterm], 1, n)]
    /\ UNCHANGED <<objects, arc, ams, arcFaults>>

ArcWrite ==
    /\ Len(alog[aterm]) < MaxArcSeq
    /\ alog' = [alog EXCEPT ![aterm] = Append(@, aterm)]
    /\ UNCHANGED <<aterm, objects, arc, ams, arcFaults>>

-----------------------------------------------------------------------------
(* The archiver of term t *)

Fault == arcFaults < MaxArcFaults /\ arcFaults' = arcFaults + 1

\* snapshot(), up to its first put: the snapshot's seq and ms are fixed here.
BeginSnap(t, why) ==
    /\ ams < MaxArcMs /\ ams' = ams + 1
    /\ arc' = [arc EXCEPT ![t] = [@ EXCEPT !.pc = "file", !.seq = Len(alog[t]), !.ms = ams,
                                           !.why = why]]

\* Archiver::start: resume where this term's timeline ends, or begin it.
ArcStart(t) ==
    /\ arc[t].pc = "off" /\ t <= aterm
    /\ IF Logs(t) \cup Snaps(t) = {}
       THEN BeginSnap(t, "start")
       ELSE arc' = [arc EXCEPT ![t] = [ArcOff EXCEPT !.pc = "idle", !.archived = Resume(t)]]
            /\ ams' = ams
    /\ UNCHANGED <<alog, aterm, objects, arcFaults>>

\* log_since: what follows the archived frames, up to LogBatch of them.
BatchEnd(t) == IF arc[t].archived + LogBatch < Len(alog[t]) THEN arc[t].archived + LogBatch
               ELSE Len(alog[t])

\* pass(): one batch of the log; the put may fail although it landed.
ArcBatch(t) ==
    /\ arc[t].pc = "idle" /\ arc[t].archived < Len(alog[t]) /\ ams < MaxArcMs
    /\ ams' = ams + 1
    /\ objects' = objects \cup {LogKey(t, arc[t].archived + 1, BatchEnd(t), ams)}
    /\ \/ arc' = [arc EXCEPT ![t].archived = BatchEnd(t)] /\ arcFaults' = arcFaults
       \/ arc' = arc /\ Fault
    /\ UNCHANGED <<alog, aterm>>

\* pass(): log_since reports a gap; start again from a fresh snapshot.
ArcGap(t) ==
    /\ arc[t].pc = "idle" /\ Fault
    /\ BeginSnap(t, "gap")
    /\ UNCHANGED <<alog, aterm, objects>>

\* run(): a periodic snapshot, unless nothing was written since the last one.
ArcPeriodic(t) ==
    /\ arc[t].pc = "idle" /\ arc[t].snapped # Len(alog[t])
    /\ BeginSnap(t, "periodic")
    /\ UNCHANGED <<alog, aterm, objects, arcFaults>>

\* Mutant: COMPLETE is put first.
UploadOrder_Reversed == <<"COMPLETE", "file">>

\* The data objects, then the marker.
UploadOrder == <<"file", "COMPLETE">>

\* snapshot(): the puts.
ArcPutFile(t) ==
    /\ arc[t].pc = "file"
    /\ objects' = objects \cup {SnapKey(t, arc[t].seq, arc[t].ms, UploadOrder[1])}
    /\ arc' = [arc EXCEPT ![t].pc = "complete"]
    /\ UNCHANGED <<alog, aterm, ams, arcFaults>>

\* The log goes on from a snapshot that began the timeline or filled a gap;
\* a periodic one leaves it where it is and is followed by prune().
ArcPutComplete(t) ==
    /\ arc[t].pc = "complete"
    /\ objects' = objects \cup {SnapKey(t, arc[t].seq, arc[t].ms, UploadOrder[2])}
    /\ arc' = [arc EXCEPT ![t] =
                  IF @.why = "periodic" THEN [@ EXCEPT !.pc = "list", !.snapped = arc[t].seq]
                                        ELSE [@ EXCEPT !.pc = "idle", !.archived = arc[t].seq]]
    /\ UNCHANGED <<alog, aterm, ams, arcFaults>>

\* A put is reported as failed, whether it landed or not: start() gives up, pass()
\* tries again later, run() prunes all the same.
ArcPutFails(t) ==
    /\ arc[t].pc \in {"file", "complete"} /\ Fault
    /\ \/ objects' = objects
       \/ objects' = objects \cup {SnapKey(t, arc[t].seq, arc[t].ms,
                                           UploadOrder[IF arc[t].pc = "file" THEN 1 ELSE 2])}
    /\ arc' = [arc EXCEPT ![t].pc = CASE arc[t].why = "start" -> "off"
                                      [] arc[t].why = "gap" -> "idle"
                                      [] arc[t].why = "periodic" -> "list"]
    /\ UNCHANGED <<alog, aterm, ams>>

\* prune(): the newest `keep` complete snapshots over all terms.
Newer(a, b) == \/ a.term > b.term
               \/ a.term = b.term /\ a.seq > b.seq
               \/ a.term = b.term /\ a.seq = b.seq /\ a.ms > b.ms
Complete == UNION {Snaps(t) : t \in ArcTerms}
Kept == {s \in Complete : Cardinality({r \in Complete : Newer(r, s)}) < Keep}
OldestTerm(kept) == CHOOSE t \in {s.term : s \in kept} : \A s \in kept : t <= s.term

\* Mutant: the floor of a term is its newest kept snapshot.
Floor_Newest(kept, t) == CHOOSE s \in kept : s.term = t /\ \A r \in kept : r.term = t => ~Newer(r, s)

\* A term's oldest kept snapshot.
Floor(kept, t) == CHOOSE s \in kept : s.term = t /\ \A r \in kept : r.term = t => ~Newer(s, r)

\* A log object is not needed once it ends at or below the term's oldest kept snapshot.
LogDoomed(o, floor) == o.last <= floor.seq

Doomed(kept) ==
    {o \in objects :
        \/ o.term < OldestTerm(kept)
        \/ /\ \E s \in kept : s.term = o.term
           /\ \/ o.k = "log" /\ LogDoomed(o, Floor(kept, o.term))
              \/ /\ o.k = "snap" /\ Newer(Floor(kept, o.term), o)
                 /\ \A s \in kept : ~(s.term = o.term /\ s.seq = o.seq /\ s.ms = o.ms)}

\* prune(): the first listing decides what is kept; nothing complete ends it.
PruneKeep(t) ==
    /\ arc[t].pc = "list"
    /\ arc' = [arc EXCEPT ![t].pc = IF Kept = {} THEN "idle" ELSE "doom", ![t].kept = Kept]
    /\ UNCHANGED <<alog, aterm, objects, ams, arcFaults>>

\* prune(): the second listing decides what goes.
PruneDoom(t) ==
    /\ arc[t].pc = "doom"
    /\ arc' = [arc EXCEPT ![t].pc = "delete", ![t].doomed = Doomed(arc[t].kept)]
    /\ UNCHANGED <<alog, aterm, objects, ams, arcFaults>>

\* Keys sort by term, log before snap, and COMPLETE before a snapshot's files.
KeyRank(o) == IF o.k = "log" THEN <<o.term, 0, o.first, o.last, o.ms, 0>>
              ELSE <<o.term, 1, o.seq, o.ms, IF o.part = "COMPLETE" THEN 0 ELSE 1, 0>>
LexLess(a, b) == \E i \in DOMAIN a : a[i] < b[i] /\ \A j \in 1 .. i - 1 : a[j] = b[j]
IsFirst(o, S) == \A p \in S \ {o} : LexLess(KeyRank(o), KeyRank(p))

\* prune(): one delete, in the order of the listing; an error gives up the rest.
PruneDelete(t) ==
    /\ arc[t].pc = "delete"
    /\ \/ \E o \in arc[t].doomed :
             /\ IsFirst(o, arc[t].doomed)
             /\ objects' = objects \ {o}
             /\ arc' = [arc EXCEPT ![t].doomed = @ \ {o}]
             /\ arcFaults' = arcFaults
       \/ /\ \/ arc[t].doomed = {} /\ arcFaults' = arcFaults
             \/ arc[t].doomed # {} /\ Fault
          /\ arc' = [arc EXCEPT ![t].pc = "idle", ![t].kept = {}, ![t].doomed = {}]
          /\ objects' = objects
    /\ UNCHANGED <<alog, aterm, ams>>

\* The process dies, at any point of an upload or a prune.
ArcDie(t) ==
    /\ arc[t].pc # "off" /\ Fault
    /\ arc' = [arc EXCEPT ![t] = ArcOff]
    /\ UNCHANGED <<alog, aterm, objects, ams>>

ArcNext ==
    \/ ArcTakeOver \/ ArcWrite
    \/ \E t \in ArcTerms : \/ ArcStart(t) \/ ArcBatch(t) \/ ArcGap(t) \/ ArcPeriodic(t)
                           \/ ArcPutFile(t) \/ ArcPutComplete(t) \/ ArcPutFails(t)
                           \/ PruneKeep(t) \/ PruneDoom(t) \/ PruneDelete(t) \/ ArcDie(t)

ArcSpec == ArcInit /\ [][ArcNext]_arcVars

-----------------------------------------------------------------------------
(* restore *)

Untils == {[by |-> "latest", at |-> 0]} \cup [by : {"seq"}, at : 0 .. MaxArcSeq]
                                        \cup [by : {"ms"}, at : 1 .. MaxArcMs]

FitsSnap(u, s) == CASE u.by = "latest" -> TRUE
                    [] u.by = "seq" -> s.seq <= u.at
                    [] u.by = "ms" -> s.ms <= u.at

\* The timeline's snapshot for u: the largest seq that fits, the last listed of a tie.
IsBase(t, u, s) ==
    /\ s \in Snaps(t) /\ FitsSnap(u, s)
    /\ \A r \in Snaps(t) : FitsSnap(u, r) => ~Newer(r, s)

\* The log objects replayed on top of it, and how far the last one of the listing
\* (by first, the sort is stable) reaches.
Replayed(t, u, s) == {l \in Logs(t) : l.last > s.seq /\ (u.by = "ms" => l.ms <= u.at)}
Reach(t, u, s) ==
    LET L == Replayed(t, u, s)
    IN  IF L = {} THEN s.seq ELSE (CHOOSE l \in L : \A m \in L \ {l} : LexLess(KeyRank(m), KeyRank(l))).last
Goal(t, u, s) == IF u.by = "seq" THEN u.at ELSE Reach(t, u, s)

\* Timelines restore may stop at for u, newest first: the newest with a fitting
\* snapshot that reaches the target.
Reaches(t, u) == \E s \in Snaps(t) : IsBase(t, u, s) /\ (u.by = "seq" => u.at <= Reach(t, u, s))
Chosen(u) == {t \in ArcTerms : Reaches(t, u) /\ \A r \in ArcTerms : Reaches(r, u) => r <= t}

\* replay stops at the first hole between the frames it has and the next object;
\* it has reached the goal if every number up to it is in the snapshot or in an object.
Succeeds(t, u, s) ==
    /\ SnapKey(t, s.seq, s.ms, "file") \in objects
    /\ \A n \in s.seq + 1 .. Goal(t, u, s) :
          \E l \in Replayed(t, u, s) : l.first <= n /\ n <= l.last

-----------------------------------------------------------------------------
(* Properties *)

ArcTypeOK ==
    /\ aterm \in ArcTerms /\ ams \in Nat /\ arcFaults \in Nat
    /\ \A t \in ArcTerms : /\ alog[t] \in Seq(ArcTerms)
                           /\ arc[t].pc \in {"off", "idle", "file", "complete", "list", "doom", "delete"}
                           /\ arc[t].archived \in Nat /\ arc[t].snapped \in Nat \cup {-1}

\* Once any snapshot is complete, "restore the latest" succeeds, from the newest
\* timeline, at any moment of any upload, prune or archiver's death, and reaches
\* everything that timeline's archiver reported as archived (archive.rs:11-16).
LatestRestorable ==
    Complete # {} =>
        \A t \in Chosen([by |-> "latest", at |-> 0]) :
            \A s \in Snaps(t) :
                LET u == [by |-> "latest", at |-> 0]
                IN  IsBase(t, u, s) =>
                        /\ Succeeds(t, u, s)
                        /\ arc[t].pc # "off" => arc[t].archived <= Goal(t, u, s)

\* Pruning never changes what a target that restores from a snapshot the pruner keeps
\* is restored to: a restore that succeeded still does, and reaches as far
\* (archive.rs:484-490).
PruneSpares ==
    \A r \in ArcTerms : arc[r].pc = "delete" /\ arc'[r].doomed # arc[r].doomed =>
       \A u \in Untils : \A t \in Chosen(u) : \A s \in Snaps(t) \cap arc[r].kept :
           IsBase(t, u, s) /\ Succeeds(t, u, s) =>
               s \in objects' /\ Succeeds(t, u, s)' /\ Goal(t, u, s)' = Goal(t, u, s)

\* What the archive promises a restore.
ArchivePromise == [][(ArcTypeOK /\ LatestRestorable)' /\ PruneSpares]_arcVars
=============================================================================
