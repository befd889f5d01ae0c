------------------------------- MODULE Schemas -------------------------------
(***************************************************************************)
(* What a write is checked against: the schema of its type (version stamp    *)
(* and one unique property), and the ontology's inbound-exclusive            *)
(* relationship; and how a schema changes under the writers' feet            *)
(* (kernel.rs remember_locked, transact_inner, forget, evolve,               *)
(* register_schema, apply_schema_migration; lifecycle/schema.rs,             *)
(* lifecycle/constraint.rs).                                                 *)
(*                                                                           *)
(* One type.  An object has its version, its schema stamp `sv`, the value    *)
(* of the unique property, the target of its one-to-many relationship, and   *)
(* whether it is live.  Commits are atomic (the pipe lock and one batch).  A *)
(* migration is not: it lists the heads and reads them one by one without    *)
(* the lock, registers the new schema in memory, and then commits.  Domain   *)
(* and check constraints, which look at one object only, are not told apart  *)
(* from validation.                                                          *)
(***************************************************************************)
EXTENDS Naturals, FiniteSets

CONSTANTS SchKos, SchVals, SchAdmins,
          SchTargets, NoTarget,    \* objects of another type, and none
          SchFirst,       \* objects stored at the start
          MaxSchema,      \* schema versions
          MaxSchOps,      \* commits of clients, and migrations and registrations begun
          MaxSchFaults    \* crashes, failed batches and failed lookups

ASSUME SchemasAssumption ==
    /\ SchFirst \subseteq SchKos /\ NoTarget \notin SchTargets
    /\ MaxSchema \in Nat \ {0} /\ MaxSchOps \in Nat /\ MaxSchFaults \in Nat

VARIABLES
    deferred,   \* the unique constraint's timing in a transaction
    obj,        \* koid to its head, or NoObject
    relIndex,   \* the relationship index: <<source, target>>
    registry,   \* the schema version registered in memory
    row,        \* ... and in the persisted row
    change,     \* admin to the schema change under way
    erased,     \* history: koids legally erased
    outlived,   \* history: ... while a migration held a reading of them
    crossed,    \* history: a change began while another was under way
    schOps, schFaults

schVars == <<deferred, obj, relIndex, registry, row, change, erased, outlived, crossed,
             schOps, schFaults>>

NoObject == [ver |-> 0]
HasHead(k) == obj[k] # NoObject
LiveHead(k) == HasHead(k) /\ obj[k].live

SchOps == [koid : SchKos, val : SchVals, target : SchTargets \cup {NoTarget}]
SchBatches == {{p, q} : p \in SchOps, q \in SchOps}

-----------------------------------------------------------------------------
(* The checks of a write.                                                    *)

\* uniqueness_conflict: another live object holds the value, among those that could be
\* read.  A failed scan, or a failed read of one object, counts as no conflict.
UniquenessConflict(k, v, seen) == \E o \in seen \ {k} : LiveHead(o) /\ obj[o].val = v

\* What the lookups of a write could read: everything, or less.
Lookup(seen) ==
    \/ seen = SchKos /\ UNCHANGED schFaults
    \/ seen # SchKos /\ schFaults < MaxSchFaults /\ schFaults' = schFaults + 1

\* unique_affected_by_write_set: a create writes every property.
Affected(op) == ~HasHead(op.koid) \/ obj[op.koid].val # op.val

\* relationships.inbound: the target is another source's already.
TargetTaken(op) ==
    op.target # NoTarget /\ \E s \in SchKos \ {op.koid} : <<s, op.target>> \in relIndex

\* evaluate_deferred between the operations of a batch.
BatchConflict(ops) == \E p, q \in ops : p # q /\ p.val = q.val

\* The deferred constraint: against storage and within the batch.
BatchUnique(ops, seen) ==
    ~BatchConflict(ops) /\ \A op \in ops : ~UniquenessConflict(op.koid, op.val, seen)

\* The immediate one: each operation against storage.
EachUnique(ops, seen) ==
    \A op \in ops : Affected(op) => ~UniquenessConflict(op.koid, op.val, seen)

UniqueIn(ops, seen) == IF deferred THEN BatchUnique(ops, seen) ELSE EachUnique(ops, seen)

\* batch_inbound: two operations of the batch take one target.
BatchTargets(ops) ==
    \A p, q \in ops : p # q => (p.target # q.target \/ p.target = NoTarget)

-----------------------------------------------------------------------------
(* Commits.                                                                  *)

Version(k) == IF HasHead(k) THEN obj[k].ver ELSE 0

\* The version a write commits, stamped with the registered schema
\* (validate_against refuses any other stamp); the lifecycle is kept.
Written(op) == [ver |-> Version(op.koid) + 1, sv |-> registry, val |-> op.val,
                target |-> op.target, live |-> IF HasHead(op.koid) THEN obj[op.koid].live ELSE TRUE]

\* Index rows of the batch: those of the new version, without those only the
\* old version had.
RelIndexAfter(ops) ==
    (relIndex \ {<<op.koid, obj[op.koid].target>> : op \in {o \in ops : HasHead(o.koid)}})
        \cup {<<op.koid, op.target>> : op \in {o \in ops : o.target # NoTarget}}

Committed(ops) ==
    /\ obj' = [k \in SchKos |-> IF \E op \in ops : op.koid = k
                                THEN Written(CHOOSE op \in ops : op.koid = k) ELSE obj[k]]
    /\ relIndex' = RelIndexAfter(ops)

ClientCommit == schOps < MaxSchOps /\ schOps' = schOps + 1

\* remember checks every constraint, deferred ones too.
RememberOne(op, seen) ==
    /\ ClientCommit /\ Lookup(seen)
    /\ EachUnique({op}, seen) /\ ~TargetTaken(op)
    /\ Committed({op})
    /\ UNCHANGED <<registry, row, change, erased, outlived, crossed>>

\* transact: one batch of writes, all or nothing.
TransactBatch(ops, seen) ==
    /\ ClientCommit /\ Lookup(seen)
    /\ \A p, q \in ops : p # q => p.koid # q.koid           \* duplicate KOIDs
    /\ \A op \in ops : ~TargetTaken(op)
    /\ UniqueIn(ops, seen) /\ BatchTargets(ops)
    /\ Committed(ops)
    /\ UNCHANGED <<registry, row, change, erased, outlived, crossed>>

\* forget leaves a tombstone, evolve another lifecycle state: the head is
\* committed again as it is.
CommitState(k, live) ==
    /\ HasHead(k) /\ ClientCommit
    /\ obj' = [obj EXCEPT ![k].ver = @ + 1, ![k].live = live]
    /\ UNCHANGED <<relIndex, registry, row, change, erased, outlived, crossed, schFaults>>

ForgetTombstone(k) == CommitState(k, FALSE)
EvolveState(k) == LiveHead(k) /\ CommitState(k, TRUE)

\* A migration read the object and has not committed it.
HeldReading(k) == \E a \in SchAdmins : change[a].step \in {"reading", "registered"} /\ k \in DOMAIN change[a].ops

\* forget, Erase: head and versions go, the relationship index is left alone.  The koid may
\* be created again, from version 1.
ForgetErase(k) ==
    /\ HasHead(k) /\ ClientCommit
    /\ obj' = [obj EXCEPT ![k] = NoObject]
    /\ erased' = erased \cup {k}
    /\ outlived' = IF HeldReading(k) THEN outlived \cup {k} ELSE outlived
    /\ UNCHANGED <<relIndex, registry, row, change, crossed, schFaults>>

-----------------------------------------------------------------------------
(* Schema changes.                                                           *)

NoChange == [step |-> "rest"]
ChangeFailed == [step |-> "failed"]
AtRest(a) == change[a].step \in {"rest", "failed", "done"}

\* Nothing keeps two admins from changing the schema at the same time.
BeginChange(a) ==
    /\ AtRest(a) /\ schOps < MaxSchOps /\ schOps' = schOps + 1
    /\ crossed' = (crossed \/ \E b \in SchAdmins : ~AtRest(b))

\* register_schema: the row, then the registry.
RegisterRow(a, v) ==
    /\ BeginChange(a)
    /\ row' = v
    /\ change' = [change EXCEPT ![a] = [step |-> "row", to |-> v]]
    /\ UNCHANGED <<obj, relIndex, registry, erased, outlived, schFaults>>

RegisterMemory(a) ==
    /\ change[a].step = "row"
    /\ registry' = change[a].to
    /\ change' = [change EXCEPT ![a] = NoChange]
    /\ UNCHANGED <<obj, relIndex, row, erased, outlived, crossed, schOps, schFaults>>

\* apply_schema_migration: the version gate, and the heads, without the lock.  `skipped` is
\* history: the version of each head that was passed over, 0 for one that had gone.
MigrateScan(a, to) ==
    LET live == {k \in SchKos : LiveHead(k)} IN
    /\ BeginChange(a)
    /\ to \in {registry, registry + 1}
    /\ change' = [change EXCEPT ![a] =
           [step |-> "reading", from |-> registry, to |-> to, heads |-> live, left |-> live,
            ops |-> << >>, skipped |-> << >>]]
    /\ UNCHANGED <<obj, relIndex, registry, row, erased, outlived, schFaults>>

\* f with one more value.
With(f, k, v) == [x \in DOMAIN f \cup {k} |-> IF x = k THEN v ELSE f[x]]

\* One head is read again.  An object at the target is passed over; the rename transform
\* needs the property of the version before, or the migration fails.
MigrateRead(a, k) ==
    LET c == change[a]
        over == ~HasHead(k) \/ obj[k].sv = c.to
    IN  /\ c.step = "reading" /\ k \in c.left
        /\ change' = [change EXCEPT ![a] =
               IF over THEN [c EXCEPT !.left = @ \ {k}, !.skipped = With(@, k, Version(k))]
               ELSE IF obj[k].sv = c.to - 1 THEN [c EXCEPT !.left = @ \ {k}, !.ops = With(@, k, obj[k])]
               ELSE ChangeFailed]
        /\ UNCHANGED <<obj, relIndex, registry, row, erased, outlived, crossed,
                       schOps, schFaults>>

\* The new schema is registered in memory.
MigrateRegister(a) ==
    /\ change[a].step = "reading" /\ change[a].left = {}
    /\ registry' = change[a].to
    /\ change' = [change EXCEPT ![a].step = "registered"]
    /\ UNCHANGED <<obj, relIndex, row, erased, outlived, crossed, schOps, schFaults>>

\* A slip in apply_schema_migration: no expected version is given.
Unmoved_Unchecked(ops) == \A k \in DOMAIN ops : HasHead(k)

\* Every object is at the version the migration read.
Unmoved(ops) == \A k \in DOMAIN ops : HasHead(k) /\ obj[k].ver = ops[k].ver

OpsOf(ops) == {[koid |-> k, val |-> ops[k].val, target |-> ops[k].target] : k \in DOMAIN ops}

\* The batch passes: versions, stamp, and the unique constraint.  Relationships are not
\* checked: the requests of a migration have the default referential policy.
MigrationPasses(c, seen) ==
    Unmoved(c.ops) /\ registry = c.to /\ UniqueIn(OpsOf(c.ops), seen)

\* The objects and the schema row land in one batch; with no objects, the row alone.
MigrateCommit(a, seen) ==
    LET c == change[a] IN
    /\ c.step = "registered"
    /\ Lookup(seen)
    /\ DOMAIN c.ops = {} \/ MigrationPasses(c, seen)
    /\ Committed(OpsOf(c.ops))
    /\ row' = c.to
    /\ change' = [change EXCEPT ![a] = [step |-> "done"]]
    /\ UNCHANGED <<registry, erased, outlived, crossed, schOps>>

\* A slip in apply_schema_migration: a failed batch leaves the new schema.
RolledBack_Kept(c) == registry

\* The registry after a failed batch.
RolledBack(c) == c.from

\* The batch is refused, or its write fails.
MigrateFail(a) ==
    LET c == change[a] IN
    /\ c.step = "registered"
    /\ \/ DOMAIN c.ops # {} /\ ~MigrationPasses(c, SchKos) /\ UNCHANGED schFaults
       \/ schFaults < MaxSchFaults /\ schFaults' = schFaults + 1
    /\ registry' = RolledBack(c)
    /\ change' = [change EXCEPT ![a] = ChangeFailed]
    /\ UNCHANGED <<obj, relIndex, row, erased, outlived, crossed, schOps>>

\* A kill; the next open loads the rows.
SchCrash ==
    /\ schFaults < MaxSchFaults /\ schFaults' = schFaults + 1
    /\ registry' = row /\ crossed' = FALSE
    /\ change' = [a \in SchAdmins |-> NoChange]
    /\ UNCHANGED <<obj, relIndex, row, erased, outlived, schOps>>

-----------------------------------------------------------------------------
First(v) == [ver |-> 1, sv |-> 1, val |-> v, target |-> NoTarget, live |-> TRUE]

SchInit ==
    /\ deferred \in BOOLEAN
    /\ \E v \in [SchFirst -> SchVals] :
          /\ \A j, k \in SchFirst : v[j] = v[k] => j = k
          /\ obj = [k \in SchKos |-> IF k \in SchFirst THEN First(v[k]) ELSE NoObject]
    /\ relIndex = {}
    /\ registry = 1 /\ row = 1
    /\ change = [a \in SchAdmins |-> NoChange]
    /\ erased = {} /\ outlived = {} /\ crossed = FALSE
    /\ schOps = 0 /\ schFaults = 0

SchNext ==
    /\ UNCHANGED deferred
    /\ \/ \E seen \in SUBSET SchKos :
             \/ \E op \in SchOps : RememberOne(op, seen)
             \/ \E ops \in SchBatches : TransactBatch(ops, seen)
             \/ \E a \in SchAdmins : MigrateCommit(a, seen)
       \/ \E k \in SchKos : ForgetTombstone(k) \/ ForgetErase(k) \/ EvolveState(k)
       \/ \E a \in SchAdmins :
             \/ \E v \in 1..MaxSchema : RegisterRow(a, v) \/ MigrateScan(a, v)
             \/ \E k \in SchKos : MigrateRead(a, k)
             \/ RegisterMemory(a) \/ MigrateRegister(a) \/ MigrateFail(a)
       \/ SchCrash

SchSpec == SchInit /\ [][SchNext]_schVars

-----------------------------------------------------------------------------
(* Properties.                                                               *)

\* Type invariant.
SchTypeOK ==
    /\ \A k \in SchKos : HasHead(k) =>
          /\ obj[k].ver \in Nat \ {0} /\ obj[k].sv \in 1..MaxSchema
          /\ obj[k].val \in SchVals /\ obj[k].target \in SchTargets \cup {NoTarget}
          /\ obj[k].live \in BOOLEAN
    /\ relIndex \subseteq SchKos \X SchTargets /\ {registry, row} \subseteq 1..MaxSchema
    /\ outlived \subseteq erased /\ erased \subseteq SchKos

Duplicates(j, k) == j # k /\ LiveHead(j) /\ LiveHead(k) /\ obj[j].val = obj[k].val

\* Two live objects come to hold one value of the unique property only where a lookup failed
\* (uniqueness_conflict lets the write pass), or where one transaction writes both of them
\* under an immediate constraint, which is checked against storage only.  Otherwise never:
\* through creates, updates, batches that move a value from one object to another, and
\* migrations committed from a stale reading (check_uniqueness, evaluate_deferred).
UniqueKept ==
    \A j, k \in SchKos : Duplicates(j, k)' /\ ~Duplicates(j, k) =>
        \/ schFaults' # schFaults
        \/ ~deferred /\ obj'[j] # obj[j] /\ obj'[k] # obj[k]

\* No target has two sources in an inbound-exclusive relationship, unless one of them was
\* erased, and perhaps created anew, while a migration held its earlier self.
TargetExclusive ==
    \A j, k \in SchKos \ outlived : j # k /\ HasHead(j) /\ HasHead(k) /\ obj[j].target # NoTarget
        => obj[j].target # obj[k].target

Finishes(a) == change[a].step = "registered" /\ change'[a].step = "done"

\* A migration commits whole: with the schema row, every head it listed has the new stamp
\* (transact_with_schema_row), but for one that was at the target, or gone, when the
\* migration read it and has been written since: "OCC re-check makes the pre-transact scan
\* race-safe" (kernel.rs:1607-1608) of the others only.
MigrationWhole ==
    \A a \in SchAdmins : Finishes(a) =>
        \A k \in change[a].heads : obj'[k] # NoObject =>
            \/ obj'[k].sv = change[a].to
            \/ /\ k \in DOMAIN change[a].skipped
               /\ k \in erased \/ obj[k].ver # change[a].skipped[k]

\* A migration never undoes a write that landed after it read the object, unless the object
\* was erased in between: created anew, it may be at the very version that was read.
NoneUndone ==
    \A a \in SchAdmins : Finishes(a) =>
        \A k \in SchKos \ outlived :
            HasHead(k) => obj'[k].val = obj[k].val /\ obj'[k].target = obj[k].target

\* Once all schema changes are over, and none ran beside another, the registry is the
\* persisted row: what writes are checked against now is what they are checked against
\* after a restart.
RegistryCurrent == ~crossed /\ (\A a \in SchAdmins : AtRest(a)) => registry = row

\* What comments say without those exceptions, and what is not so: "a kill mid-migration
\* leaves valid pre OR post state, never a hybrid" (kernel.rs:1603-1605): an object created
\* between the scan and the registration keeps the old stamp under the new row.
NeverHybrid == (\A a \in SchAdmins : AtRest(a)) => \A k \in SchKos : LiveHead(k) => obj[k].sv = row

\* What schemas and their migrations promise.
SchemasPromise ==
    [][/\ (SchTypeOK /\ TargetExclusive /\ RegistryCurrent)'
       /\ UniqueKept /\ MigrationWhole /\ NoneUndone]_schVars
=============================================================================
