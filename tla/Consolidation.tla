--------------------------- MODULE Consolidation ---------------------------
(***************************************************************************)
(* The consolidation job (engines/scheduler/src/consolidation.rs): a       *)
(* thread that merges near-duplicate memories and demotes stale ones, by   *)
(* ordinary commits beside those of the clients.                           *)
(*                                                                         *)
(* One type, one tenant, session scope.  Two memories are near-duplicates  *)
(* when they are of one group, and a merged one is of its sources' group.  *)
(* Time is "old": older than the session's lifetime.  Whether an old       *)
(* memory's salience is below the threshold is left open, and so is        *)
(* whether a refresh finds its salience unchanged (within the epsilon).    *)
(***************************************************************************)
EXTENDS Naturals, FiniteSets

CONSTANTS Groups,       \* near-duplicate classes
          MaxMemories,  \* bound: memories clients create
          MaxTouches    \* bound: other operations of clients, and aging

ASSUME ConsolidationAssumption ==
    IsFiniteSet(Groups) /\ Groups # {} /\ {MaxMemories, MaxTouches} \subseteq Nat

VARIABLES
    mem,      \* the heads
    derived,  \* derived_from edges of the job's merges: [to, from]
    recalled,     \* access_counts: the memories recalled since they were taken
    jhead,    \* the journal's head
    jwater,   \* ConsolidationJob::water
    job,      \* the thread
    touches

conVars == <<mem, derived, recalled, jhead, jwater, job, touches>>

Ids == 1..2 * MaxMemories
Absent == [st |-> "none", grp |-> CHOOSE g \in Groups : TRUE, old |-> FALSE]
Unread == [k \in Ids |-> Absent]
JobIdle == [pc |-> "idle", head |-> 0, scan |-> Unread, pair |-> {}, taken |-> {}, left |-> {}]

ConInit ==
    /\ mem = [k \in Ids |-> Absent]
    /\ derived = {} /\ recalled = {} /\ jhead = 0 /\ jwater = 0 /\ job = JobIdle /\ touches = 0

Stored(k) == mem[k].st \notin {"none", "erased"}
Created == {k \in Ids : mem[k].st # "none"}
FreshId == CHOOSE k \in Ids \ Created : TRUE
Merged == {d.to : d \in derived}

-----------------------------------------------------------------------------
(* Clients *)

\* remember: a new memory.
RememberNote(g) ==
    /\ Cardinality(Created \ Merged) < MaxMemories
    /\ mem' = [mem EXCEPT ![FreshId] = [st |-> "live", grp |-> g, old |-> FALSE]]
    /\ jhead' = jhead + 1
    /\ UNCHANGED <<derived, recalled, jwater, job, touches>>

Touch == touches < MaxTouches /\ touches' = touches + 1

\* remember over it: other content, a new version.
Rewrite(k, g) ==
    /\ Touch /\ mem[k].st = "live"
    /\ mem' = [mem EXCEPT ![k] = [@ EXCEPT !.grp = g, !.old = FALSE]]
    /\ jhead' = jhead + 1
    /\ UNCHANGED <<derived, recalled, jwater, job>>

\* forget, by tombstone or by erasure.
ForgetNote(k, how) ==
    /\ Touch /\ mem[k].st = "live"
    /\ mem' = [mem EXCEPT ![k].st = how]
    /\ jhead' = jhead + 1
    /\ UNCHANGED <<derived, recalled, jwater, job>>

\* recall: record_access.
Recall(k) ==
    /\ Touch /\ mem[k].st = "live" /\ k \notin recalled
    /\ recalled' = recalled \cup {k}
    /\ UNCHANGED <<mem, derived, jhead, jwater, job>>

\* The clock: SESSION_TTL_MS since the last version of k.
Aged(k) ==
    /\ Touch /\ Stored(k) /\ ~mem[k].old
    /\ mem' = [mem EXCEPT ![k].old = TRUE]
    /\ UNCHANGED <<derived, recalled, jhead, jwater, job>>

-----------------------------------------------------------------------------
(* A run *)

\* The loop of ConsolidationJob::start: a journal past the water mark.
JobWake ==
    /\ job.pc = "idle" /\ jhead > jwater
    /\ job' = [JobIdle EXCEPT !.pc = "scan", !.head = jhead]
    /\ UNCHANGED <<mem, derived, recalled, jhead, jwater, touches>>

\* consolidate: scan_by_type.
JobScan ==
    /\ job.pc = "scan"
    /\ job' = [job EXCEPT !.pc = "pick", !.scan = mem]
    /\ UNCHANGED <<mem, derived, recalled, jhead, jwater, touches>>

\* Mutant: what has been merged before is merged again.
IsSource_Never(k) == FALSE

\* outbound_edges(k, derived_from), as the store has them now.
IsSource(k) == \E d \in derived : k \in d.from

\* is_mergeable: current and alike as scanned, and not a source of an earlier merge.
IsMergeable(a, b, heads) ==
    /\ a # b /\ heads[a].st = "live" /\ heads[b].st = "live"
    /\ heads[a].grp = heads[b].grp
    /\ ~IsSource(a) /\ ~IsSource(b)

\* The first such pair; after one merge the type is left for the next run.
JobPick ==
    /\ job.pc = "pick"
    /\ LET pairs == {p \in Ids \X Ids : p[1] < p[2] /\ IsMergeable(p[1], p[2], job.scan)}
       IN  \/ pairs = {} /\ job' = [job EXCEPT !.pc = "decay", !.scan = Unread]
           \/ \E p \in pairs : job' = [job EXCEPT !.pc = "merge", !.pair = {p[1], p[2]},
                                                  !.scan = Unread]
    /\ UNCHANGED <<mem, derived, recalled, jhead, jwater, touches>>

\* An error anywhere ends the run; the water mark stays.
Failed == job' = JobIdle /\ UNCHANGED <<mem, derived, recalled, jhead, jwater, touches>>

\* merge: the sources' heads must exist, whatever their state, and give the content.
JobMerge ==
    /\ job.pc = "merge"
    /\ IF \E k \in job.pair : ~Stored(k) THEN Failed
       ELSE /\ \E k \in job.pair :
                  mem' = [mem EXCEPT ![FreshId] = [st |-> "live", grp |-> mem[k].grp, old |-> FALSE]]
            /\ derived' = derived \cup {[to |-> FreshId, from |-> job.pair]}
            /\ jhead' = jhead + 1
            /\ job' = [job EXCEPT !.pc = "decay", !.pair = {}]
            /\ UNCHANGED <<recalled, jwater, touches>>

\* decay: take_access_counts.
JobTake ==
    /\ job.pc = "decay"
    /\ job' = [job EXCEPT !.pc = "refresh", !.taken = recalled, !.left = recalled]
    /\ recalled' = {}
    /\ UNCHANGED <<mem, derived, jhead, jwater, touches>>

\* refresh_salience, one memory at a time: a new version, or nothing when the salience
\* comes out as stored.  One that was erased fails the run: the counts are gone.
JobRefresh ==
    /\ job.pc = "refresh" /\ job.left # {}
    /\ \E k \in job.left :
          IF ~Stored(k) THEN Failed
          ELSE /\ \/ mem' = [mem EXCEPT ![k].old = FALSE] /\ jhead' = jhead + 1
                  \/ UNCHANGED <<mem, jhead>>
               /\ job' = [job EXCEPT !.left = @ \ {k}]
               /\ UNCHANGED <<derived, recalled, jwater, touches>>

\* Mutant: demoted memories are looked at again.
IsStale_Demoted(k) == mem[k].st \in {"live", "demoted"} /\ mem[k].old

\* A current memory past the session's lifetime.
IsStale(k) == mem[k].st = "live" /\ mem[k].old

\* The scan of decay: those whose salience is below the threshold.
JobDecayScan ==
    /\ job.pc = "refresh" /\ job.left = {}
    /\ \E S \in SUBSET {k \in Ids : IsStale(k)} :
          job' = [job EXCEPT !.pc = "demote", !.left = S]
    /\ UNCHANGED <<mem, derived, recalled, jhead, jwater, touches>>

\* admin_transition_epistemic with no expected version: the head as it is now; a
\* missing head or a demoted one is an error.  A forgotten one is demoted too.
JobDemote ==
    /\ job.pc = "demote" /\ job.left # {}
    /\ \E k \in job.left :
          IF ~Stored(k) \/ mem[k].st = "demoted" THEN Failed
          ELSE /\ mem' = [mem EXCEPT ![k].st = IF @ = "live" THEN "demoted" ELSE @,
                                     ![k].old = FALSE]
               /\ jhead' = jhead + 1
               /\ job' = [job EXCEPT !.left = @ \ {k}]
               /\ UNCHANGED <<derived, recalled, jwater, touches>>

\* Mutant: the head when the run ends.
WaterAfter_Now == jhead

\* The run is done: the head it was started for.
WaterAfter == job.head

JobDone ==
    /\ job.pc = "demote" /\ job.left = {}
    /\ jwater' = WaterAfter
    /\ job' = JobIdle
    /\ UNCHANGED <<mem, derived, recalled, jhead, touches>>

ConJob == \/ JobWake \/ JobScan \/ JobPick \/ JobMerge \/ JobTake \/ JobRefresh
          \/ JobDecayScan \/ JobDemote \/ JobDone

ConNext ==
    \/ \E g \in Groups : RememberNote(g)
    \/ \E k \in Ids : \/ \E g \in Groups : Rewrite(k, g)
                      \/ \E how \in {"gone", "erased"} : ForgetNote(k, how)
                      \/ Recall(k) \/ Aged(k)
    \/ ConJob

ConSpec == ConInit /\ [][ConNext]_conVars /\ WF_conVars(ConJob)

\* A restart: the water mark and the counts are in memory, and the mark starts at the head.
JobRestart ==
    /\ Touch /\ job' = JobIdle /\ jwater' = jhead /\ recalled' = {}
    /\ UNCHANGED <<mem, derived, jhead>>

RestartingSpec == ConInit /\ [][ConNext \/ JobRestart]_conVars /\ WF_conVars(ConJob)

-----------------------------------------------------------------------------
(* Properties *)

ConTypeOK ==
    /\ mem \in [Ids -> [st : {"none", "live", "demoted", "gone", "erased"}, grp : Groups,
                        old : BOOLEAN]]
    /\ \A d \in derived : d.to \in Ids /\ d.from \subseteq Ids
    /\ jwater \in 0..jhead /\ recalled \subseteq Ids

\* A memory is a source of at most one merge, over all runs and whatever clients do
\* meanwhile: consolidation neither repeats a merge nor grows the store run after run.
SourceOnce == \A d, e \in derived : d.from \cap e.from # {} => d = e

\* When clients stop, every near-duplicate pair is merged and the job comes to rest:
\* a commit that lands during a run, and the job's own merges, start another one, and
\* its own refreshes and demotions do not keep it running.
Duplicates == \E a, b \in Ids : IsMergeable(a, b, mem)
Settles == <>[](job.pc = "idle" /\ ~Duplicates)

\* What the consolidation job promises: the parts above.
ConsolidationPromise == [](ConTypeOK /\ SourceOnce) /\ Settles

\* "Both sides must be current claims": not of one forgotten since the scan.
MergesCurrent == [][derived' # derived => \A d \in derived' \ derived :
                                             \A k \in d.from : mem[k].st = "live"]_conVars

\* "recently used memories stay alive": not of one whose refresh came out as stored.
UsedStayAlive == [][\A k \in job.taken : mem[k].st = "live" => mem'[k].st # "demoted"]_conVars
=============================================================================
