------------------------------ MODULE Knowledge ------------------------------
(***************************************************************************)
(* The semantic operations of the kernel (transaction/kernel/ops.rs):      *)
(* verify, contradict, supersede, split, invalidate, resolve_conflict, and *)
(* derive.  Each holds the commit pipe from its first check to its reply,  *)
(* but is several commits: a crash or a store error between two of them    *)
(* leaves the first ones in the store, and the caller tries again.         *)
(*                                                                         *)
(* Statuses before "verified" (observed, extracted, asserted, inferred)    *)
(* are one, "asserted".  Evidence, confidence and rationale are left out;  *)
(* the commits that write them are steps.                                  *)
(***************************************************************************)
EXTENDS Integers, FiniteSets

CONSTANTS
    Kos,           \* object ids
    FirstKos,      \* the claims of the initial state
    KnKeys,        \* idempotency keys
    NoKo,          \* no object, no key
    MaxKnOps,      \* bound: operations
    MaxKnFaults    \* bound: crashes and store errors

ASSUME KnAssumption ==
    /\ FirstKos \subseteq Kos /\ NoKo \notin Kos \cup KnKeys
    /\ {MaxKnOps, MaxKnFaults} \subseteq Nat

VARIABLES
    ko,         \* per object: its head
    derivedFrom,\* pairs <<premise, dependent>>: DERIVED_FROM edges
    conflicts,  \* conflict objects
    knIdem,     \* idempotency rows: per key: the object and the kind of operation
    op,         \* the operation that holds the pipe
    knTs,       \* the last commit time
    replied,    \* history: what the callers were told
    knOps, knFaults

knVars == <<ko, derivedFrom, conflicts, knIdem, op, knTs, replied, knOps, knFaults>>

\* born, ended: commit times of the creation and of the supersession (0: none);
\* closed: valid_to is set; inv: the invalidation stamp; part: what split moves; of (history): whose
\* successor it was created as.
NoClaim == [st |-> "none", born |-> 0, ended |-> 0, closed |-> FALSE, inv |-> FALSE, by |-> NoKo,
            part |-> FALSE, of |-> NoKo]
KnFresh(ts, part) == [NoClaim EXCEPT !.st = "asserted", !.born = ts, !.part = part]

\* kind: the request; k: its object; next: claims of a conflict still to handle.
KnIdle == [pc |-> "idle", kind |-> "none", k |-> NoKo, succ |-> NoKo, key |-> NoKo, pin |-> 0,
           next |-> {}, todo |-> {}, stamped |-> {}, ok |-> TRUE]

KnInit ==
    /\ ko = [k \in Kos |-> IF k \in FirstKos THEN KnFresh(1, TRUE) ELSE NoClaim]
    /\ derivedFrom \in SUBSET {e \in FirstKos \X FirstKos : e[1] # e[2]}
    /\ conflicts = [k \in Kos |-> [a |-> NoKo, b |-> NoKo, res |-> "none"]]
    /\ knIdem = [i \in KnKeys |-> [cell |-> NoKo, kind |-> "none"]]
    /\ op = KnIdle /\ knTs = 1 /\ replied = {} /\ knOps = 0 /\ knFaults = 0

-----------------------------------------------------------------------------
(* Helpers *)

Known(k) == ko[k].st # "none"
FreeKos == {k \in Kos : ~Known(k) /\ conflicts[k].res = "none"}

\* KOID::new: any id not in use is as good as another.
NewKo == CHOOSE k \in FreeKos : TRUE

\* EpistemicStatus::can_transition
CanBecome(from, to) ==
    CASE to = "verified" -> from = "asserted"
      [] to = "contradicted" -> from \in {"asserted", "verified"}
      [] to = "superseded" -> from \in {"asserted", "verified", "contradicted"}
      [] to = "asserted" -> from = "contradicted"

\* validate_successor
Current(k) == ko[k].st \in {"asserted", "verified"} /\ ~ko[k].inv

\* commit_version: the next commit time, unless the operation pinned one.
CommitTs == IF op.pin # 0 THEN op.pin ELSE knTs + 1

\* The pipe's mutex.
PipeFree == op.pc = "idle"

\* An operation starts: the checks and its first commit, under the pipe.
KnBegin ==
    /\ PipeFree /\ knOps < MaxKnOps
    /\ knOps' = knOps + 1 /\ knFaults' = knFaults

\* transition_epistemic_locked's new head.
Moved(k, to, by) ==
    [ko[k] EXCEPT !.st = to,
                  !.ended = IF to = "superseded" THEN CommitTs ELSE @,
                  !.closed = @ \/ to = "superseded",
                  !.by = IF to = "superseded" THEN by ELSE @]

\* Mutant: only the direct dependents.
Dependents_Direct(premise) == {d \in Kos : <<premise, d>> \in derivedFrom /\ Known(d) /\ ~ko[d].inv}

\* invalidate_dependents_locked, phase 1: the dependents reached through objects that
\* exist and are not stamped yet, the least set closed under that.
Dependents(premise) ==
    LET Unstamped == {d \in Kos : Known(d) /\ ~ko[d].inv}
        Closed(S) == \A d \in Unstamped : (\E x \in {premise} \cup S : <<x, d>> \in derivedFrom) => d \in S
    IN  {d \in Unstamped : \A S \in SUBSET Unstamped : Closed(S) => d \in S}

\* An operation ends and its caller is answered.
Answer(new) ==
    /\ replied' = replied \cup {[kind |-> op.kind, key |-> op.key, old |-> op.k, new |-> new]}
    /\ op' = KnIdle

\* A commit in the middle of an operation: only the pipe's holder moves.
KnCommit == op.pc # "idle" /\ knTs' = CommitTs /\ UNCHANGED <<knOps, knFaults>>

-----------------------------------------------------------------------------
(* Single commits *)

\* derive ends in remember_trusted, which takes the pipe.
DeriveHasPipe == PipeFree

\* derive (and merge): the sources are read before the pipe and need only exist.
Derive(sources) ==
    /\ DeriveHasPipe /\ knOps < MaxKnOps /\ knOps' = knOps + 1
    /\ \A s \in sources : Known(s)
    /\ FreeKos # {}
    /\ knTs' = knTs + 1
    /\ ko' = [ko EXCEPT ![NewKo] = KnFresh(knTs + 1, FALSE)]
    /\ derivedFrom' = derivedFrom \cup (sources \X {NewKo})
    /\ UNCHANGED <<conflicts, knIdem, op, replied, knFaults>>

\* transition_epistemic: one transition by request, with no sweep.
Transition(k, to, by) ==
    /\ KnBegin /\ Known(k) /\ CanBecome(ko[k].st, to)
    /\ by # NoKo => to = "superseded" /\ Known(by)
    /\ knTs' = knTs + 1
    /\ ko' = [ko EXCEPT ![k] = Moved(k, to, by)]
    /\ UNCHANGED <<derivedFrom, conflicts, knIdem, op, replied>>

-----------------------------------------------------------------------------
(* verify_knowledge: the transition, unless verified; then the confidence *)

Verify(k) ==
    /\ KnBegin /\ Known(k)
    /\ ko[k].st = "verified" \/ CanBecome(ko[k].st, "verified")
    /\ ko' = [ko EXCEPT ![k].st = "verified"]
    /\ knTs' = IF ko' = ko THEN knTs ELSE knTs + 1
    /\ op' = [KnIdle EXCEPT !.pc = "confirm", !.kind = "verify", !.k = k]
    /\ UNCHANGED <<derivedFrom, conflicts, knIdem, replied>>

Confirm ==
    /\ op.pc = "confirm" /\ KnCommit
    /\ Answer(NoKo)
    /\ UNCHANGED <<ko, derivedFrom, conflicts, knIdem>>

-----------------------------------------------------------------------------
(* contradict: the counter-claim, then the conflict object *)

Contradict(k) ==
    /\ KnBegin /\ Known(k) /\ FreeKos # {}
    /\ ~ko[k].inv /\ ~ko[k].closed
    /\ knTs' = knTs + 1
    /\ ko' = [ko EXCEPT ![NewKo] = KnFresh(knTs + 1, FALSE)]
    /\ op' = [KnIdle EXCEPT !.pc = "conflict", !.kind = "contradict", !.k = k, !.succ = NewKo]
    /\ UNCHANGED <<derivedFrom, conflicts, knIdem, replied>>

PutConflict ==
    /\ op.pc = "conflict" /\ KnCommit /\ FreeKos # {}
    /\ conflicts' = [conflicts EXCEPT ![NewKo] = [a |-> op.k, b |-> op.succ, res |-> "unresolved"]]
    /\ Answer(NewKo)
    /\ UNCHANGED <<ko, derivedFrom, knIdem>>

-----------------------------------------------------------------------------
(* Idempotency rows: split and supersede answer a repeated key from its row; a *)
(* row of another kind of operation is refused.                                *)

HasRow(key) == key # NoKo /\ knIdem[key].kind # "none"
RowPut(key, cell, kind) ==
    [i \in KnKeys |-> IF i = key THEN [cell |-> cell, kind |-> kind] ELSE knIdem[i]]

Replay(k, key) ==
    /\ KnBegin /\ Known(k) /\ HasRow(key)
    /\ replied' = replied \cup {[kind |-> knIdem[key].kind, key |-> key, old |-> k, new |-> knIdem[key].cell]}
    /\ UNCHANGED <<ko, derivedFrom, conflicts, knIdem, op, knTs>>

-----------------------------------------------------------------------------
(* split: side B with its edge and the idempotency row, then side A *)

Split(k, key) ==
    /\ KnBegin /\ Known(k) /\ ~ko[k].inv /\ ko[k].part /\ FreeKos # {}
    /\ ~HasRow(key)
    /\ knTs' = knTs + 1
    /\ ko' = [ko EXCEPT ![NewKo] = KnFresh(knTs + 1, TRUE)]
    /\ derivedFrom' = derivedFrom \cup {<<k, NewKo>>}
    /\ knIdem' = RowPut(key, NewKo, "split")
    /\ op' = [KnIdle EXCEPT !.pc = "sideA", !.kind = "split", !.k = k, !.key = key, !.succ = NewKo]
    /\ UNCHANGED <<conflicts, replied>>

SideA ==
    /\ op.pc = "sideA" /\ KnCommit
    /\ ko' = [ko EXCEPT ![op.k].part = FALSE]
    /\ Answer(op.succ)
    /\ UNCHANGED <<derivedFrom, conflicts, knIdem>>

-----------------------------------------------------------------------------
(* supersede *)

\* A fresh successor is the first commit, at the pinned instant.
SupersedeNew(k, key) ==
    /\ KnBegin /\ ~HasRow(key) /\ FreeKos # {}
    /\ CanBecome(ko[k].st, "superseded")
    /\ knTs' = knTs + 1
    /\ ko' = [ko EXCEPT ![NewKo] = [KnFresh(knTs + 1, FALSE) EXCEPT !.of = k]]
    /\ op' = [KnIdle EXCEPT !.pc = "transition", !.kind = "supersede", !.k = k, !.succ = NewKo, !.key = key,
                            !.pin = knTs + 1]
    /\ UNCHANGED <<derivedFrom, conflicts, knIdem, replied>>

\* superseded_by names a current object; NoKo is a retraction.
SupersedeBy(k, key, s) ==
    /\ KnBegin /\ ~HasRow(key)
    /\ CanBecome(ko[k].st, "superseded")
    /\ s # NoKo => Current(s)
    /\ op' = [KnIdle EXCEPT !.pc = "transition", !.kind = "supersedeBy", !.k = k, !.succ = s, !.key = key,
                            !.pin = knTs + 1]
    /\ UNCHANGED <<ko, derivedFrom, conflicts, knIdem, knTs, replied>>

\* Mutant: the transition takes a commit time of its own.
PinnedTs_None == knTs + 1

\* The supersession commits at the instant of the successor's creation.
PinnedTs == CommitTs

SupersedeTransition ==
    /\ op.pc = "transition" /\ KnCommit
    /\ ko' = [ko EXCEPT ![op.k] = [Moved(op.k, "superseded", op.succ) EXCEPT !.ended = PinnedTs]]
    /\ op' = [op EXCEPT !.pc = "sweep", !.todo = Dependents(op.k)]
    /\ UNCHANGED <<derivedFrom, conflicts, knIdem, replied>>

\* Outside the pinned instant: the evidence on the old claim.
SupersedeEvidence ==
    /\ op.pc = "evidence" /\ KnCommit
    /\ op' = [op EXCEPT !.pc = "row", !.pin = 0]
    /\ UNCHANGED <<ko, derivedFrom, conflicts, knIdem, replied>>

\* Mutant: the row names the claim instead of its successor.
RowCell_Old == op.k

\* The row's object; a retraction has none.
RowCell == op.succ

\* The idempotency row is the completion marker.
SupersedeRow ==
    /\ op.pc = "row" /\ UNCHANGED <<knTs, knOps, knFaults>>
    /\ knIdem' = RowPut(op.key, RowCell, op.kind)
    /\ Answer(op.succ)
    /\ UNCHANGED <<ko, derivedFrom, conflicts>>

-----------------------------------------------------------------------------
(* invalidate: contradicted where legal, the stamp, the sweep *)

Stamped(k) == [ko[k] EXCEPT !.inv = TRUE, !.closed = TRUE]

Invalidate(k) ==
    /\ KnBegin /\ Known(k) /\ ~ko[k].inv
    /\ IF CanBecome(ko[k].st, "contradicted")
       THEN ko' = [ko EXCEPT ![k].st = "contradicted"] /\ knTs' = knTs + 1
       ELSE UNCHANGED <<ko, knTs>>
    /\ op' = [KnIdle EXCEPT !.pc = "stamp", !.kind = "invalidate", !.k = k]
    /\ UNCHANGED <<derivedFrom, conflicts, knIdem, replied>>

InvalidateStamp ==
    /\ op.pc = "stamp" /\ KnCommit
    /\ ko' = [ko EXCEPT ![op.k] = Stamped(op.k)]
    /\ op' = [op EXCEPT !.pc = "sweep", !.todo = Dependents(op.k) \ {op.k}]
    /\ UNCHANGED <<derivedFrom, conflicts, knIdem, replied>>

-----------------------------------------------------------------------------
(* The sweep, phase 2: a stamp per dependent, best effort *)

StampOne(d) ==
    /\ op.pc = "sweep" /\ d \in op.todo /\ KnCommit
    /\ ko' = [ko EXCEPT ![d] = Stamped(d)]
    /\ op' = [op EXCEPT !.todo = @ \ {d}, !.stamped = @ \cup {d}]
    /\ UNCHANGED <<derivedFrom, conflicts, knIdem, replied>>

StampFails(d) ==
    /\ op.pc = "sweep" /\ d \in op.todo
    /\ knFaults < MaxKnFaults /\ knFaults' = knFaults + 1
    /\ op' = [op EXCEPT !.todo = @ \ {d}, !.ok = FALSE]
    /\ UNCHANGED <<ko, derivedFrom, conflicts, knIdem, knTs, replied, knOps>>

SweepEnds ==
    /\ op.pc = "sweep" /\ op.todo = {}
    /\ CASE op.kind = "invalidate" -> Answer(NoKo)
         [] op.kind = "supersede" -> op' = [op EXCEPT !.pc = "row", !.pin = 0] /\ replied' = replied
         [] op.kind = "supersedeBy" -> op' = [op EXCEPT !.pc = "evidence", !.pin = 0] /\ replied' = replied
         [] op.kind = "replace" -> /\ replied' = replied
                                   /\ op' = IF op.next = {} THEN [op EXCEPT !.pc = "record"]
                                            ELSE [op EXCEPT !.pc = "sweepNext"]
    /\ UNCHANGED <<ko, derivedFrom, conflicts, knIdem, knTs, knOps, knFaults>>

-----------------------------------------------------------------------------
(* resolve_conflict *)

\* transition_claim_if_legal: a dead claim is left as it is.
IfLegal(k, to, by) ==
    IF ko[k].st = to \/ ko[k].st = "superseded" THEN ko[k] ELSE Moved(k, to, by)

\* resolved_a_preferred, resolved_b_preferred (an authority-ranked decision is one of them).
Prefer(c, loser) ==
    /\ KnBegin /\ conflicts[c].res = "unresolved" /\ loser \in {conflicts[c].a, conflicts[c].b}
    /\ ko' = [ko EXCEPT ![loser] = IfLegal(loser, "contradicted", NoKo)]
    /\ knTs' = IF ko' = ko THEN knTs ELSE knTs + 1
    /\ op' = [KnIdle EXCEPT !.pc = "record", !.kind = "prefer", !.k = c, !.succ = loser]
    /\ UNCHANGED <<derivedFrom, conflicts, knIdem, replied>>

\* resolved_both_valid: with a split_at A's validity is closed, then B's is opened;
\* without one the decision is only recorded.
BothValid(c, split) ==
    /\ KnBegin /\ conflicts[c].res = "unresolved"
    /\ IF split
          THEN /\ knTs' = knTs + 1
               /\ ko' = [ko EXCEPT ![conflicts[c].a].closed = TRUE]
          ELSE UNCHANGED <<ko, knTs>>
    /\ op' = [KnIdle EXCEPT !.pc = IF split THEN "partition" ELSE "record",
                            !.kind = "both", !.k = c]
    /\ UNCHANGED <<derivedFrom, conflicts, knIdem, replied>>

PartitionB ==
    /\ op.pc = "partition" /\ KnCommit
    /\ op' = [op EXCEPT !.pc = "record"]
    /\ UNCHANGED <<ko, derivedFrom, conflicts, knIdem, replied>>

\* resolved_replaced: A, then B, superseded by the replacement; then both sweeps.
Replace(c, r) ==
    /\ KnBegin /\ conflicts[c].res = "unresolved" /\ Current(r)
    /\ ko' = [ko EXCEPT ![conflicts[c].a] = IfLegal(conflicts[c].a, "superseded", r)]
    /\ knTs' = IF ko' = ko THEN knTs ELSE knTs + 1
    /\ op' = [KnIdle EXCEPT !.pc = "replaceB", !.kind = "replace", !.k = c, !.succ = r]
    /\ UNCHANGED <<derivedFrom, conflicts, knIdem, replied>>

ReplaceB ==
    /\ op.pc = "replaceB" /\ UNCHANGED <<knOps, knFaults>>
    /\ ko' = [ko EXCEPT ![conflicts[op.k].b] = IfLegal(conflicts[op.k].b, "superseded", op.succ)]
    /\ knTs' = IF ko' = ko THEN knTs ELSE knTs + 1
    /\ op' = [op EXCEPT !.pc = "sweep", !.todo = Dependents(conflicts[op.k].a),
                        !.next = {conflicts[op.k].b}]
    /\ UNCHANGED <<derivedFrom, conflicts, knIdem, replied>>

ReplaceSweepB ==
    /\ op.pc = "sweepNext"
    /\ op' = [op EXCEPT !.pc = "sweep", !.todo = Dependents(conflicts[op.k].b), !.next = {}]
    /\ UNCHANGED <<ko, derivedFrom, conflicts, knIdem, knTs, replied, knOps, knFaults>>

\* The conflict object's resolution is the last commit.
Record ==
    /\ op.pc = "record" /\ KnCommit
    /\ conflicts' = [conflicts EXCEPT ![op.k].res = op.kind]
    /\ Answer(op.succ)
    /\ UNCHANGED <<ko, derivedFrom, knIdem>>

-----------------------------------------------------------------------------
(* A crash, or a store error of the operation's next commit: it goes no further. *)

Abandon ==
    /\ op.pc # "idle" /\ knFaults < MaxKnFaults
    /\ knFaults' = knFaults + 1 /\ op' = KnIdle
    /\ UNCHANGED <<ko, derivedFrom, conflicts, knIdem, knTs, replied, knOps>>

KnNext ==
    \/ \E k \in Kos : \/ Verify(k) \/ Contradict(k) \/ Invalidate(k) \/ StampOne(k) \/ StampFails(k)
                      \/ \E split \in BOOLEAN : BothValid(k, split)
    \/ \E j, k \in Kos : Derive({j, k}) \/ Prefer(j, k) \/ Replace(j, k)
    \/ \E k \in Kos, key \in KnKeys \cup {NoKo} :
          \/ Split(k, key) \/ SupersedeNew(k, key) \/ Replay(k, key)
          \/ \E s \in Kos \cup {NoKo} : SupersedeBy(k, key, s)
    \/ \E k \in Kos, to \in {"asserted", "verified", "contradicted", "superseded"},
          by \in Kos \cup {NoKo} : Transition(k, to, by)
    \/ Confirm \/ PutConflict \/ SideA \/ SupersedeTransition \/ SupersedeEvidence \/ SupersedeRow
    \/ InvalidateStamp \/ SweepEnds \/ PartitionB \/ ReplaceB \/ ReplaceSweepB \/ Record
    \/ Abandon

KnSpec == KnInit /\ [][KnNext]_knVars

-----------------------------------------------------------------------------
(* Properties *)

KnTypeOK ==
    /\ \A k \in Kos : /\ ko[k].st \in {"none", "asserted", "verified", "contradicted", "superseded"}
                      /\ ko[k].by \in Kos \cup {NoKo} /\ ko[k].born \in Nat
                      /\ ko[k].ended \in Nat
    /\ derivedFrom \subseteq Kos \X Kos /\ \A i \in KnKeys : knIdem[i].cell \in Kos \cup {NoKo}
    /\ op.todo \subseteq Kos /\ op.stamped \subseteq Kos

\* What an AS_OF slice shows of the two generations of a link.
ShownAt(k, ts) == ko[k].born <= ts /\ (ko[k].ended = 0 \/ ts < ko[k].ended)

\* No slice, at any commit time, shows both generations of a supersession that was
\* answered (ops.rs:1021-1025, "so no AS_OF slice can show both generations").
OneGeneration ==
    \A r \in replied : r.kind = "supersede" /\ ko[r.new].of = r.old =>
        \A ts \in 1 .. knTs : ~(ShownAt(r.old, ts) /\ ShownAt(r.new, ts))

\* A sweep that reports itself completed has left nothing behind: whatever is derived
\* from the premise, or from an object this sweep stamped, carries the stamp
\* (ops.rs:1504-1508, "withdraw support for a KO and everything derived from it").
SweepCloses ==
    op.pc = "sweep" /\ op'.pc # "sweep" /\ op.todo = {} /\ op.ok /\ op.kind # "replace" =>
       \A x \in {op.k} \cup op.stamped : \A d \in Kos : <<x, d>> \in derivedFrom => ko[d].inv

\* Calls of supersede under one key are all told of the same successor, however many
\* of them were cut off before (ops.rs:1113-1120, "an idempotent replay converges").
ReplayAgrees ==
    \A r, q \in replied : {r.kind, q.kind} \subseteq {"supersede", "supersedeBy"}
                          /\ r.key = q.key /\ r.key # NoKo => r.new = q.new

\* A supersession cut off in the middle is refused when it is tried again, so no key
\* creates two successors (ops.rs:1071-1075, "a crash mid-supersede degrades to
\* today's 'already superseded' refusal").
OneSuccessor ==
    \A k \in Kos : Cardinality({n \in Kos : ko[n].of = k}) <= 1

\* A successor that was checked to be current is current when supersede answers
\* (ops.rs:1868-1869, 1608-1610).
SuccessorCurrent ==
    [][op.pc = "row" /\ op'.pc = "idle" /\ replied' # replied /\ op.succ # NoKo => ~ko[op.succ].inv]_knVars

\* What the operations of several commits promise, wherever they are cut off.
KnowledgePromise == [][(KnTypeOK /\ OneGeneration /\ ReplayAgrees)' /\ SweepCloses]_knVars
=============================================================================
