--------------------------- MODULE CompactorSignal ---------------------------
(***************************************************************************)
(* The handshake between the write path and the background compactor of    *)
(* the storage engine (db.rs): a flag behind a mutex, one condition        *)
(* variable shared by the compactor and by writers held at the hard bound, *)
(* and a shutdown flag set outside the mutex.  Sizes are counted in L0     *)
(* segments; L0Trigger is at least 2, so the gate on a single segment      *)
(* never decides, and l0_tier_ratio is 0 (the tier gate is open).          *)
(***************************************************************************)
EXTENDS Naturals

CONSTANTS
    SigWriters,   \* writing threads
    L0Trigger,    \* l0_compact_trigger
    HardBound,    \* backlog_hard_bound_bytes, in segments
    MaxL0Writes,  \* bound: writes over the whole behaviour
    MaxMergeErrors \* bound: merges that fail

ASSUME SigAssumption ==
    /\ HardBound \in Nat \ {0} /\ L0Trigger \in Nat \ {0, 1}
    /\ {MaxL0Writes, MaxMergeErrors} \subseteq Nat
    /\ "compactor" \notin SigWriters

VARIABLES
    pending,    \* the flag behind the mutex
    shutdown,   \* the atomic flag
    sigWait,    \* threads inside cv.wait
    l0,         \* L0 segments in State
    wpc,        \* per writer: "idle", "gate", "kick", "held"
    seenL0,     \* per writer: the l0 its maybe_compact read
    cpc,        \* the compactor: "park", "gate", "merge", "clear", "notify", "end"
    mergeL0,    \* the L0 segments the running merge captured
    dpc,        \* Drop: "open", "clear", "notify", "join", "closed"
    l0Writes, mergeErrors

sigVars == <<pending, shutdown, sigWait, l0, wpc, seenL0, cpc, mergeL0, dpc, l0Writes, mergeErrors>>

SigInit ==
    /\ pending = FALSE /\ shutdown = FALSE /\ sigWait = {} /\ l0 = 0
    /\ wpc = [w \in SigWriters |-> "idle"] /\ seenL0 = [w \in SigWriters |-> 0]
    /\ cpc = "park" /\ mergeL0 = 0 /\ dpc = "open" /\ l0Writes = 0 /\ mergeErrors = 0

-----------------------------------------------------------------------------
(* Writers *)

\* write_at up to maybe_compact: the write may have flushed one more L0 segment.
SigWrite(w) ==
    /\ dpc = "open" /\ wpc[w] = "idle" /\ l0Writes < MaxL0Writes
    /\ l0Writes' = l0Writes + 1
    /\ l0' \in {l0, l0 + 1}
    /\ wpc' = [wpc EXCEPT ![w] = "gate"]
    /\ UNCHANGED <<pending, shutdown, sigWait, seenL0, cpc, dpc, mergeL0, mergeErrors>>

\* maybe_compact reads the counters under the state lock and evaluates its gates.
WriterGate(w) ==
    /\ wpc[w] = "gate"
    /\ seenL0' = [seenL0 EXCEPT ![w] = l0]
    /\ wpc' = [wpc EXCEPT ![w] = IF l0 >= L0Trigger THEN "kick" ELSE "idle"]
    /\ UNCHANGED <<pending, shutdown, sigWait, l0, cpc, dpc, l0Writes, mergeL0, mergeErrors>>

\* Mutant: a thread held at the bound is not told that the compactor drained.
NotifyOne_Nobody(S) == {S}

\* notify_one on the condition variable: what may be left of the wait set.
NotifyOne(S) == IF S = {} THEN {{}} ELSE {S \ {t} : t \in S}

\* kick(), and the hard bound's test on its answer.
Kick(w) ==
    /\ wpc[w] = "kick"
    /\ pending' = TRUE
    /\ sigWait' \in NotifyOne(sigWait)
    /\ wpc' = [wpc EXCEPT ![w] = IF pending /\ seenL0[w] > HardBound THEN "held" ELSE "idle"]
    /\ UNCHANGED <<shutdown, l0, seenL0, cpc, dpc, l0Writes, mergeL0, mergeErrors>>

\* wait_idle(): with the mutex, wait or return.
WaitIdle(w) ==
    /\ wpc[w] = "held" /\ w \notin sigWait
    /\ IF pending /\ ~shutdown
       THEN sigWait' = sigWait \cup {w} /\ wpc' = wpc
       ELSE sigWait' = sigWait /\ wpc' = [wpc EXCEPT ![w] = "idle"]
    /\ UNCHANGED <<pending, shutdown, l0, seenL0, cpc, dpc, l0Writes, mergeL0, mergeErrors>>

-----------------------------------------------------------------------------
(* The compactor: compactor_loop *)

\* wait_kick(): with the mutex, wait, take the kick or end.
WaitKick ==
    /\ cpc = "park" /\ "compactor" \notin sigWait
    /\ IF ~pending /\ ~shutdown
       THEN sigWait' = sigWait \cup {"compactor"} /\ cpc' = cpc
       ELSE sigWait' = sigWait /\ cpc' = IF shutdown THEN "end" ELSE "gate"
    /\ UNCHANGED <<pending, shutdown, l0, wpc, seenL0, dpc, l0Writes, mergeL0, mergeErrors>>

\* The inner loop's gates, evaluated on fresh counters.
CompactorGate ==
    /\ cpc = "gate"
    /\ cpc' = IF ~shutdown /\ l0 >= L0Trigger THEN "merge" ELSE "clear"
    /\ mergeL0' = l0
    /\ UNCHANGED <<pending, shutdown, sigWait, l0, wpc, seenL0, dpc, l0Writes, mergeErrors>>

\* compact_impl: the L0 segments become one L1 segment; or a flush published
\* meanwhile and the output is discarded (Ok, the loop tries again); or an error.
CompactorMerge ==
    /\ cpc = "merge"
    /\ \/ /\ l0' = IF l0 = mergeL0 THEN 0 ELSE l0
          /\ cpc' = "gate" /\ mergeErrors' = mergeErrors
       \/ /\ mergeErrors < MaxMergeErrors
          /\ mergeErrors' = mergeErrors + 1
          /\ cpc' = "clear" /\ l0' = l0
    /\ UNCHANGED <<pending, shutdown, sigWait, wpc, seenL0, mergeL0, dpc, l0Writes>>

\* Mutant: a failed merge leaves the flag set.
ClearsPending_NotOnError == mergeErrors = 0

\* The flag is cleared after a drained backlog and after an error alike.
ClearsPending == TRUE

\* clear_pending(), first statement: the flag, under the mutex.
CompactorClear ==
    /\ cpc = "clear"
    /\ pending' = (pending /\ ~ClearsPending)
    /\ cpc' = "notify"
    /\ UNCHANGED <<shutdown, sigWait, l0, wpc, seenL0, dpc, l0Writes, mergeL0, mergeErrors>>

\* clear_pending(), second statement: notify_all, without the mutex.
CompactorNotify ==
    /\ cpc = "notify"
    /\ sigWait' = {} /\ cpc' = "park"
    /\ UNCHANGED <<pending, shutdown, l0, wpc, seenL0, dpc, l0Writes, mergeL0, mergeErrors>>

-----------------------------------------------------------------------------
(* Drop: &mut self, so no writer is inside a call. *)

DropFlag ==
    /\ dpc = "open" /\ \A w \in SigWriters : wpc[w] = "idle"
    /\ shutdown' = TRUE /\ dpc' = "clear"
    /\ UNCHANGED <<pending, sigWait, l0, wpc, seenL0, cpc, l0Writes, mergeL0, mergeErrors>>

DropClear ==
    /\ dpc = "clear" /\ pending' = FALSE /\ dpc' = "notify"
    /\ UNCHANGED <<shutdown, sigWait, l0, wpc, seenL0, cpc, l0Writes, mergeL0, mergeErrors>>

\* Mutant: shutdown only sets its flags.
Woken_Nobody == sigWait

\* notify_all
Woken == {}

DropNotify ==
    /\ dpc = "notify" /\ sigWait' = Woken /\ dpc' = "join"
    /\ UNCHANGED <<pending, shutdown, l0, wpc, seenL0, cpc, l0Writes, mergeL0, mergeErrors>>

DropJoin ==
    /\ dpc = "join" /\ cpc = "end" /\ dpc' = "closed"
    /\ UNCHANGED <<pending, shutdown, sigWait, l0, wpc, seenL0, cpc, l0Writes, mergeL0, mergeErrors>>

Compactor == \/ WaitKick \/ CompactorGate \/ CompactorMerge
             \/ CompactorClear \/ CompactorNotify
SigWriter(w) == SigWrite(w) \/ WriterGate(w) \/ Kick(w) \/ WaitIdle(w)
SigDrop == DropFlag \/ DropClear \/ DropNotify \/ DropJoin

SigNext == Compactor \/ SigDrop \/ \E w \in SigWriters : SigWriter(w)

SigSpec == SigInit /\ [][SigNext]_sigVars

\* Threads that can run do run; nobody is obliged to write or to close.
SigFairness ==
    /\ WF_sigVars(Compactor)
    /\ \A w \in SigWriters : WF_sigVars(WriterGate(w) \/ Kick(w) \/ WaitIdle(w))
    /\ WF_sigVars(DropClear \/ DropNotify \/ DropJoin)

SigLive == SigSpec /\ SigFairness

-----------------------------------------------------------------------------
(* Properties *)

SigTypeOK ==
    /\ pending \in BOOLEAN /\ shutdown \in BOOLEAN
    /\ sigWait \subseteq SigWriters \cup {"compactor"}
    /\ l0 \in Nat /\ mergeL0 \in Nat /\ l0Writes \in Nat /\ mergeErrors \in Nat
    /\ wpc \in [SigWriters -> {"idle", "gate", "kick", "held"}]
    /\ seenL0 \in [SigWriters -> Nat]
    /\ cpc \in {"park", "gate", "merge", "clear", "notify", "end"}
    /\ dpc \in {"open", "clear", "notify", "join", "closed"}

\* A writer stopped at the hard bound always gets on, merges that fail included
\* (db.rs:1380, "a failed merge clears the block"; db.rs:349-350).
HeldWritersReturn == \A w \in SigWriters : wpc[w] = "held" ~> wpc[w] = "idle"

\* Closing the database ends: the flag set outside the mutex never slips between
\* the compactor's test and its wait (db.rs:371-377, 3053-3056).
DropEnds == dpc # "open" ~> dpc = "closed"

\* No wakeup is lost: while a kick is pending, the compactor is not asleep without
\* a thread that is about to wake it (db.rs:320-322).
KickWakes ==
    pending /\ "compactor" \in sigWait => dpc # "open"

\* A backlog over the trigger is merged in the end, if merges do not fail
\* (db.rs:1337-1340, "the steady state is one L1 + the active L0").
BacklogDrains == (dpc = "open" /\ l0 >= L0Trigger) ~> (l0 < L0Trigger \/ dpc # "open")

\* What the signal promises writers, the compactor and Drop.
SignalPromise == [](SigTypeOK /\ KickWakes) /\ HeldWritersReturn /\ DropEnds
=============================================================================
