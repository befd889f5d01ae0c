---------------------------- MODULE Promises_proofs ----------------------------
(***************************************************************************)
(* Theorems about promises that speak of steps as well as of states:       *)
(* Schemas, Import, KernelIndex, IngestDir and Knowledge, for any objects, *)
(* tables, readers, documents and claims and any bounds.                   *)
(***************************************************************************)
EXTENDS Schemas, Import, KernelIndex, IngestDir, Knowledge, TLAPS

-----------------------------------------------------------------------------
(* Schemas *)

Schema == 1 .. MaxSchema
SchHead == [ver : Nat \ {0}, sv : Schema, val : SchVals, target : SchTargets \cup {NoTarget},
            live : BOOLEAN]

Migrating(c) == c.step \in {"reading", "registered"}

ChangeOK(c) ==
    /\ c.step \in {"rest", "failed", "done", "row", "reading", "registered"}
    /\ c.step \in {"row", "reading", "registered"} => c.to \in Schema
    /\ Migrating(c) =>
          /\ c = [step |-> c.step, from |-> c.from, to |-> c.to, heads |-> c.heads, left |-> c.left,
                  ops |-> c.ops, skipped |-> c.skipped]
          /\ c.from \in Schema /\ c.heads \subseteq SchKos
          /\ c.heads = c.left \cup DOMAIN c.ops \cup DOMAIN c.skipped
          /\ \A k \in DOMAIN c.ops : c.ops[k] \in SchHead
          /\ \A k \in DOMAIN c.skipped : c.skipped[k] \in Nat
    /\ c.step = "registered" => c.left = {}

SchShape ==
    /\ obj \in [SchKos -> SchHead \cup {NoObject}]
    /\ relIndex \subseteq SchKos \X SchTargets
    /\ registry \in Schema /\ row \in Schema
    /\ DOMAIN change = SchAdmins /\ \A a \in SchAdmins : ChangeOK(change[a])
    /\ outlived \subseteq erased /\ erased \subseteq SchKos /\ crossed \in BOOLEAN

\* Where a schema change is, if no other runs beside it: what the registry and the row hold
\* at each step.
ChangeInv ==
    ~crossed =>
        /\ \A a, b \in SchAdmins : ~AtRest(a) /\ ~AtRest(b) => a = b
        /\ (\A a \in SchAdmins : AtRest(a)) => registry = row
        /\ \A a \in SchAdmins :
              /\ change[a].step = "row" => row = change[a].to
              /\ change[a].step = "reading" => registry = row /\ row = change[a].from
              /\ change[a].step = "registered" => row = change[a].from /\ registry = change[a].to

\* What a migration read is what the object still holds, unless its version moved on or it
\* was erased; what it passed over, and did not move, has the new stamp.
ReadOK(c) ==
    /\ \A k \in c.heads : HasHead(k) \/ k \in erased
    /\ \A k \in DOMAIN c.ops \ outlived :
          /\ HasHead(k) /\ c.ops[k].ver <= obj[k].ver
          /\ c.ops[k].ver = obj[k].ver => c.ops[k] = obj[k]
    /\ \A k \in DOMAIN c.skipped \ erased :
          /\ HasHead(k) /\ c.skipped[k] <= obj[k].ver
          /\ c.skipped[k] = obj[k].ver => obj[k].sv = c.to

ReadInv == \A a \in SchAdmins : Migrating(change[a]) => ReadOK(change[a])

\* The relationship index has every head's target.
HeadInv ==
    \A k \in SchKos : HasHead(k) /\ obj[k].target # NoTarget => <<k, obj[k].target>> \in relIndex

SchInv == SchShape /\ ChangeInv /\ ReadInv /\ HeadInv /\ TargetExclusive

LEMMA SchInitial == SchInit => SchInv
<1>. SUFFICES ASSUME SchInit PROVE SchInv
  OBVIOUS
<1>1. 1 \in Schema
  BY SchemasAssumption DEF Schema
<1>2. PICK v \in [SchFirst -> SchVals] :
         obj = [k \in SchKos |-> IF k \in SchFirst THEN First(v[k]) ELSE NoObject]
  BY DEF SchInit
<1>3. \A k \in SchFirst : First(v[k]) \in SchHead /\ First(v[k]).target = NoTarget
  BY <1>1 DEF First, SchHead
<1>4. \A k \in SchKos : obj[k] \in SchHead \cup {NoObject} /\ (HasHead(k) => obj[k].target = NoTarget)
  BY <1>2, <1>3 DEF HasHead
<1>5. \A a \in SchAdmins : change[a].step = "rest" /\ ~Migrating(change[a])
  BY DEF SchInit, NoChange, Migrating
<1>6. SchShape
  <2>1. obj \in [SchKos -> SchHead \cup {NoObject}]
    BY <1>2, <1>4
  <2>. QED  BY <1>1, <1>5, <2>1 DEF SchInit, SchShape, ChangeOK
<1>7. ChangeInv /\ ReadInv
  BY <1>5 DEF SchInit, ChangeInv, ReadInv, AtRest
<1>8. HeadInv /\ TargetExclusive
  BY <1>4 DEF HeadInv, TargetExclusive
<1>. QED  BY <1>6, <1>7, <1>8 DEF SchInv

\* What there is to know of a head.
LEMMA HeadTyped ==
    ASSUME SchShape, NEW k \in SchKos, HasHead(k)
    PROVE  /\ obj[k] \in SchHead /\ obj[k].ver \in Nat \ {0} /\ obj[k].sv \in Schema
           /\ obj[k].val \in SchVals /\ obj[k].target \in SchTargets \cup {NoTarget}
           /\ obj[k].live \in BOOLEAN
BY DEF SchShape, HasHead, SchHead

\* A record of a head is not the absence of one.
LEMMA SomeHead == \A h \in SchHead : h # NoObject
BY DEF SchHead, NoObject

-----------------------------------------------------------------------------
(* Commits.                                                                  *)

OpFor(ops, k) == CHOOSE w \in ops : w.koid = k
Wrote(ops, k) == \E w \in ops : w.koid = k

\* What a batch of writes makes of the heads.
LEMMA BatchCommits ==
    ASSUME SchShape, NEW ops \in SUBSET SchOps, Committed(ops)
    PROVE  /\ \A k \in SchKos : Wrote(ops, k) =>
                 /\ OpFor(ops, k) \in ops /\ OpFor(ops, k).koid = k
                 /\ obj'[k] \in SchHead /\ obj'[k].sv = registry
                 /\ obj'[k].val = OpFor(ops, k).val /\ obj'[k].target = OpFor(ops, k).target
                 /\ HasHead(k) => obj'[k].ver = obj[k].ver + 1 /\ obj'[k].live = obj[k].live
           /\ \A k \in SchKos : ~Wrote(ops, k) => obj'[k] = obj[k]
           /\ \A k \in SchKos : HasHead(k)' <=> Wrote(ops, k) \/ HasHead(k)
           /\ obj' \in [SchKos -> SchHead \cup {NoObject}]
           /\ relIndex' \subseteq SchKos \X SchTargets
<1>. DEFINE Op(k) == OpFor(ops, k)
<1>1. \A k : Wrote(ops, k) => Op(k) \in ops /\ Op(k).koid = k
  BY DEF OpFor, Wrote
<1>2. \A w \in ops : w.koid \in SchKos /\ w.val \in SchVals /\ w.target \in SchTargets \cup {NoTarget}
  BY DEF SchOps
<1>3. \A k \in SchKos : obj'[k] = IF Wrote(ops, k) THEN Written(Op(k)) ELSE obj[k]
  BY DEF Committed, OpFor, Wrote
<1>. HIDE DEF Op
<1>4. \A k \in SchKos : Wrote(ops, k) =>
         /\ obj'[k] \in SchHead /\ obj'[k].sv = registry
         /\ obj'[k].val = Op(k).val /\ obj'[k].target = Op(k).target
         /\ HasHead(k) => obj'[k].ver = obj[k].ver + 1 /\ obj'[k].live = obj[k].live
  <2>. SUFFICES ASSUME NEW k \in SchKos, Wrote(ops, k)
                PROVE  /\ obj'[k] \in SchHead /\ obj'[k].sv = registry
                       /\ obj'[k].val = Op(k).val /\ obj'[k].target = Op(k).target
                       /\ HasHead(k) => obj'[k].ver = obj[k].ver + 1 /\ obj'[k].live = obj[k].live
    OBVIOUS
  <2>1. /\ Op(k) \in ops /\ Op(k).koid = k /\ Op(k).val \in SchVals
        /\ Op(k).target \in SchTargets \cup {NoTarget}
    BY <1>1, <1>2
  <2>2. obj'[k] = Written(Op(k))
    BY <1>3
  <2>3. registry \in Schema
    BY DEF SchShape
  <2>4. CASE HasHead(k)
    <3>1. obj[k].ver \in Nat \ {0} /\ obj[k].live \in BOOLEAN
      BY <2>4, HeadTyped
    <3>2. obj'[k] = [ver |-> obj[k].ver + 1, sv |-> registry, val |-> Op(k).val,
                     target |-> Op(k).target, live |-> obj[k].live]
      BY <2>1, <2>2, <2>4 DEF Written, Version
    <3>3. obj[k].ver + 1 \in Nat \ {0}
      BY <3>1
    <3>. QED  BY <2>1, <2>3, <3>1, <3>2, <3>3 DEF SchHead
  <2>5. CASE ~HasHead(k)
    <3>1. obj'[k] = [ver |-> 1, sv |-> registry, val |-> Op(k).val,
                     target |-> Op(k).target, live |-> TRUE]
      BY <2>1, <2>2, <2>5 DEF Written, Version
    <3>2. obj'[k] \in SchHead
      BY <2>1, <2>3, <3>1 DEF SchHead
    <3>3. obj'[k].val = Op(k).val /\ obj'[k].target = Op(k).target /\ obj'[k].sv = registry
      BY <3>1
    <3>. QED  BY <2>5, <3>2, <3>3
  <2>. QED  BY <2>4, <2>5
<1>5. \A k \in SchKos : HasHead(k)' <=> Wrote(ops, k) \/ HasHead(k)
  BY <1>3, <1>4, SomeHead DEF HasHead
<1>6. obj' \in [SchKos -> SchHead \cup {NoObject}]
  <2>1. DOMAIN obj' = SchKos /\ obj' = [k \in SchKos |-> obj'[k]]
    BY DEF Committed
  <2>2. \A k \in SchKos : obj'[k] \in SchHead \cup {NoObject}
    BY <1>3, <1>4 DEF SchShape
  <2>. QED  BY <2>1, <2>2
<1>7. relIndex' \subseteq SchKos \X SchTargets
  BY <1>2 DEF Committed, RelIndexAfter, SchShape
<1>. QED  BY <1>1, <1>3, <1>4, <1>5, <1>6, <1>7 DEF Op

\* A commit of heads keeps the index complete, and what migrations read true or outdated.
LEMMA CommitsKeep ==
    ASSUME SchInv, NEW ops \in SUBSET SchOps, Committed(ops), UNCHANGED <<erased, outlived>>
    PROVE  /\ HeadInv'
           /\ \A c : ChangeOK(c) /\ Migrating(c) /\ ReadOK(c) => ReadOK(c)'
<1>0. SchShape
  BY DEF SchInv
<1>1. /\ \A k \in SchKos : Wrote(ops, k) =>
            /\ OpFor(ops, k) \in ops /\ OpFor(ops, k).koid = k
            /\ obj'[k].target = OpFor(ops, k).target
            /\ HasHead(k) => obj'[k].ver = obj[k].ver + 1
      /\ \A k \in SchKos : ~Wrote(ops, k) => obj'[k] = obj[k]
      /\ \A k \in SchKos : HasHead(k)' <=> Wrote(ops, k) \/ HasHead(k)
  BY <1>0, BatchCommits
<1>2. HeadInv'
  <2>. SUFFICES ASSUME NEW k \in SchKos, HasHead(k)', obj'[k].target # NoTarget
                PROVE  <<k, obj'[k].target>> \in relIndex'
    BY DEF HeadInv
  <2>1. CASE Wrote(ops, k)
    <3>1. PICK w \in ops : w.koid = k /\ w.target = obj'[k].target
      BY <1>1, <2>1
    <3>2. <<k, obj'[k].target>> \in {<<v.koid, v.target>> : v \in {o \in ops : o.target # NoTarget}}
      BY <3>1
    <3>. QED  BY <3>2 DEF Committed, RelIndexAfter
  <2>2. CASE ~Wrote(ops, k)
    <3>1. <<k, obj[k].target>> \in relIndex /\ obj'[k] = obj[k]
      BY <1>1, <2>2 DEF SchInv, HeadInv
    <3>2. \A w \in ops : w.koid # k
      BY <2>2 DEF Wrote
    <3>. QED  BY <3>1, <3>2 DEF Committed, RelIndexAfter
  <2>. QED  BY <2>1, <2>2
<1>3. ASSUME NEW c, ChangeOK(c), Migrating(c), ReadOK(c) PROVE ReadOK(c)'
  <2>1. c.heads \subseteq SchKos /\ DOMAIN c.ops \subseteq SchKos /\ DOMAIN c.skipped \subseteq SchKos
    BY <1>3 DEF ChangeOK
  <2>2. \A k \in DOMAIN c.ops : c.ops[k].ver \in Nat
    BY <1>3 DEF ChangeOK, SchHead
  <2>3. \A k \in DOMAIN c.skipped : c.skipped[k] \in Nat
    BY <1>3 DEF ChangeOK
  <2>4. \A k \in c.heads : HasHead(k)' \/ k \in erased'
    BY <1>1, <1>3, <2>1 DEF ReadOK
  <2>5. ASSUME NEW k \in DOMAIN c.ops \ outlived
        PROVE  /\ HasHead(k)' /\ c.ops[k].ver <= obj'[k].ver
               /\ c.ops[k].ver = obj'[k].ver => c.ops[k] = obj'[k]
    <3>1. /\ k \in SchKos /\ HasHead(k) /\ c.ops[k].ver <= obj[k].ver
          /\ c.ops[k].ver = obj[k].ver => c.ops[k] = obj[k]
      BY <1>3, <2>1 DEF ReadOK
    <3>2. obj[k].ver \in Nat /\ c.ops[k].ver \in Nat
      BY <1>0, <2>2, <3>1, HeadTyped
    <3>3. CASE Wrote(ops, k)
      BY <1>1, <3>1, <3>2, <3>3
    <3>4. CASE ~Wrote(ops, k)
      BY <1>1, <3>1, <3>4
    <3>. QED  BY <3>3, <3>4
  <2>6. ASSUME NEW k \in DOMAIN c.skipped \ erased
        PROVE  /\ HasHead(k)' /\ c.skipped[k] <= obj'[k].ver
               /\ c.skipped[k] = obj'[k].ver => obj'[k].sv = c.to
    <3>1. /\ k \in SchKos /\ HasHead(k) /\ c.skipped[k] <= obj[k].ver
          /\ c.skipped[k] = obj[k].ver => obj[k].sv = c.to
      BY <1>3, <2>1 DEF ReadOK
    <3>2. obj[k].ver \in Nat /\ c.skipped[k] \in Nat
      BY <1>0, <2>3, <3>1, HeadTyped
    <3>3. CASE Wrote(ops, k)
      BY <1>1, <3>1, <3>2, <3>3
    <3>4. CASE ~Wrote(ops, k)
      BY <1>1, <3>1, <3>4
    <3>. QED  BY <3>3, <3>4
  <2>. QED  BY <2>4, <2>5, <2>6 DEF ReadOK
<1>. QED  BY <1>2, <1>3

\* Two live objects with one value after a commit had it before, if what the batch wrote was
\* looked up and it does not write both.
LEMMA CommitsUnique ==
    ASSUME SchInv, NEW ops \in SUBSET SchOps, Committed(ops),
           schFaults' = schFaults =>
               \A w \in ops : Affected(w) => ~UniquenessConflict(w.koid, w.val, SchKos),
           deferred => ~BatchConflict(ops)
    PROVE  UniqueKept
<1>0. SchShape
  BY DEF SchInv
<1>1. /\ \A k \in SchKos : Wrote(ops, k) =>
            /\ OpFor(ops, k) \in ops /\ OpFor(ops, k).koid = k
            /\ obj'[k] \in SchHead /\ obj'[k].val = OpFor(ops, k).val
            /\ HasHead(k) => obj'[k].ver = obj[k].ver + 1 /\ obj'[k].live = obj[k].live
      /\ \A k \in SchKos : ~Wrote(ops, k) => obj'[k] = obj[k]
      /\ \A k \in SchKos : HasHead(k)' <=> Wrote(ops, k) \/ HasHead(k)
  BY <1>0, BatchCommits
<1>2. \A k \in SchKos : Wrote(ops, k) => obj'[k] # obj[k]
  <2>. SUFFICES ASSUME NEW k \in SchKos, Wrote(ops, k), obj'[k] = obj[k] PROVE FALSE
    OBVIOUS
  <2>1. HasHead(k)
    BY <1>1, SomeHead DEF HasHead
  <2>2. obj[k].ver \in Nat /\ obj[k].ver = obj[k].ver + 1
    BY <1>0, <1>1, <2>1, HeadTyped
  <2>. QED  BY <2>2
<1>. SUFFICES ASSUME NEW j \in SchKos, NEW k \in SchKos, j # k, LiveHead(j)', LiveHead(k)',
                     obj'[j].val = obj'[k].val, ~(LiveHead(j) /\ LiveHead(k) /\ obj[j].val = obj[k].val),
                     schFaults' = schFaults, deferred \/ ~Wrote(ops, j) \/ ~Wrote(ops, k)
              PROVE  FALSE
  BY <1>2 DEF UniqueKept, Duplicates
<1>3. ASSUME NEW x \in SchKos, NEW y \in SchKos, x # y, Wrote(ops, x), ~Wrote(ops, y),
             LiveHead(x)', LiveHead(y)', obj'[x].val = obj'[y].val
      PROVE  LiveHead(x) /\ LiveHead(y) /\ obj[x].val = obj[y].val
  <2>1. LiveHead(y) /\ obj[y].val = OpFor(ops, x).val
    BY <1>1, <1>3 DEF LiveHead
  <2>2. OpFor(ops, x) \in ops /\ OpFor(ops, x).koid = x
    BY <1>1, <1>3
  <2>3. UniquenessConflict(OpFor(ops, x).koid, OpFor(ops, x).val, SchKos)
    BY <1>3, <2>1, <2>2 DEF UniquenessConflict
  <2>4. HasHead(x) /\ obj[x].val = OpFor(ops, x).val
    BY <2>2, <2>3 DEF Affected
  <2>5. LiveHead(x)
    BY <1>1, <1>3, <2>4 DEF LiveHead
  <2>. QED  BY <2>1, <2>4, <2>5
<1>4. CASE Wrote(ops, j) /\ Wrote(ops, k)
  BY <1>1, <1>4 DEF BatchConflict
<1>5. CASE ~Wrote(ops, j) /\ ~Wrote(ops, k)
  BY <1>1, <1>5 DEF LiveHead
<1>. QED  BY <1>3, <1>4, <1>5

\* The targets stay apart when none of the batch's was taken.
LEMMA CommitsExclusive ==
    ASSUME SchInv, NEW ops \in SUBSET SchOps, Committed(ops), UNCHANGED outlived,
           \A w \in ops : ~TargetTaken(w), BatchTargets(ops)
    PROVE  TargetExclusive'
<1>0. SchShape
  BY DEF SchInv
<1>1. /\ \A k \in SchKos : Wrote(ops, k) =>
            /\ OpFor(ops, k) \in ops /\ OpFor(ops, k).koid = k
            /\ obj'[k].target = OpFor(ops, k).target
      /\ \A k \in SchKos : ~Wrote(ops, k) => obj'[k] = obj[k]
      /\ \A k \in SchKos : HasHead(k)' <=> Wrote(ops, k) \/ HasHead(k)
  BY <1>0, BatchCommits
<1>. SUFFICES ASSUME NEW j \in SchKos \ outlived, NEW k \in SchKos \ outlived, j # k, HasHead(j)',
                     HasHead(k)', obj'[j].target # NoTarget, obj'[j].target = obj'[k].target
              PROVE  FALSE
  BY DEF TargetExclusive
<1>2. ASSUME NEW x \in SchKos, NEW y \in SchKos, x # y, Wrote(ops, x), ~Wrote(ops, y),
             HasHead(y)', obj'[y].target # NoTarget, obj'[x].target = obj'[y].target
      PROVE  FALSE
  <2>1. OpFor(ops, x) \in ops /\ OpFor(ops, x).koid = x /\ OpFor(ops, x).target = obj'[x].target
    BY <1>1, <1>2
  <2>2. <<y, obj[y].target>> \in relIndex /\ obj[y] = obj'[y]
    BY <1>1, <1>2 DEF SchInv, HeadInv
  <2>3. TargetTaken(OpFor(ops, x))
    BY <1>2, <2>1, <2>2 DEF TargetTaken
  <2>. QED  BY <2>1, <2>3
<1>3. CASE Wrote(ops, j) /\ Wrote(ops, k)
  BY <1>1, <1>3 DEF BatchTargets
<1>4. CASE ~Wrote(ops, j) /\ ~Wrote(ops, k)
  BY <1>1, <1>4 DEF SchInv, TargetExclusive
<1>. QED  BY <1>2, <1>3, <1>4

\* A client's commit.
LEMMA ClientCommits ==
    ASSUME SchInv, NEW ops \in SUBSET SchOps, Committed(ops),
           UNCHANGED <<registry, row, change, erased, outlived, crossed>>,
           \A w \in ops : ~TargetTaken(w), BatchTargets(ops)
    PROVE  SchInv'
<1>0. SchShape
  BY DEF SchInv
<1>1. obj' \in [SchKos -> SchHead \cup {NoObject}] /\ relIndex' \subseteq SchKos \X SchTargets
  BY <1>0, BatchCommits
<1>2. SchShape'
  BY <1>0, <1>1 DEF SchShape, ChangeOK, Migrating
<1>3. ChangeInv'
  BY DEF SchInv, ChangeInv, AtRest
<1>4. HeadInv' /\ \A c : ChangeOK(c) /\ Migrating(c) /\ ReadOK(c) => ReadOK(c)'
  BY CommitsKeep
<1>5. \A a \in SchAdmins : ChangeOK(change[a]) /\ (Migrating(change[a]) => ReadOK(change[a]))
  BY DEF SchInv, SchShape, ReadInv
<1>6. ASSUME NEW a \in SchAdmins, Migrating(change[a]) PROVE ReadOK(change[a])'
  <2>1. PICK c : c = change[a]
    OBVIOUS
  <2>2. ReadOK(c)'
    BY <1>4, <1>5, <1>6, <2>1
  <2>. QED  BY <2>1, <2>2 DEF ReadOK
<1>7. ReadInv'
  BY <1>6 DEF ReadInv, Migrating
<1>. QED  BY <1>2, <1>3, <1>4, <1>7, CommitsExclusive DEF SchInv

\* A write that adds no fault looked everything up.
LEMMA LookupWhole ==
    ASSUME schFaults \in Nat, NEW seen, Lookup(seen), schFaults' = schFaults
    PROVE  seen = SchKos
BY DEF Lookup

LEMMA SchRemembers ==
    ASSUME SchInv, schFaults \in Nat, NEW w \in SchOps, NEW seen, RememberOne(w, seen)
    PROVE  SchInv' /\ UniqueKept
<1>1. {w} \in SUBSET SchOps /\ Committed({w}) /\ Lookup(seen)
  BY DEF RememberOne
<1>2. ~BatchConflict({w}) /\ BatchTargets({w}) /\ \A x \in {w} : ~TargetTaken(x)
  BY DEF BatchConflict, BatchTargets, RememberOne
<1>3. schFaults' = schFaults =>
         \A x \in {w} : Affected(x) => ~UniquenessConflict(x.koid, x.val, SchKos)
  BY <1>1, LookupWhole DEF RememberOne, EachUnique
<1>4. UNCHANGED <<registry, row, change, erased, outlived, crossed>>
  BY DEF RememberOne
<1>5. SchInv'
  BY ONLY SchInv, <1>1, <1>2, <1>4, ClientCommits
<1>6. UniqueKept
  BY ONLY SchInv, <1>1, <1>2, <1>3, CommitsUnique
<1>. QED  BY <1>5, <1>6

\* What passes the unique constraint, deferred or not, was looked up.
LEMMA UniqueLooked ==
    ASSUME schFaults \in Nat, NEW ops, NEW seen, Lookup(seen), UniqueIn(ops, seen)
    PROVE  /\ deferred => ~BatchConflict(ops)
           /\ schFaults' = schFaults =>
                 \A x \in ops : Affected(x) => ~UniquenessConflict(x.koid, x.val, SchKos)
BY LookupWhole DEF UniqueIn, BatchUnique, EachUnique

LEMMA SchTransacts ==
    ASSUME SchInv, schFaults \in Nat, NEW ops \in SchBatches, NEW seen, TransactBatch(ops, seen)
    PROVE  SchInv' /\ UniqueKept
<1>1. ops \in SUBSET SchOps
  BY DEF SchBatches
<1>2. Lookup(seen) /\ UniqueIn(ops, seen) /\ Committed(ops)
  BY DEF TransactBatch
<1>3. BatchTargets(ops) /\ (\A x \in ops : ~TargetTaken(x))
      /\ UNCHANGED <<registry, row, change, erased, outlived, crossed>>
  BY DEF TransactBatch
<1>4. SchInv'
  BY ONLY SchInv, <1>1, <1>2, <1>3, ClientCommits
<1>5. /\ deferred => ~BatchConflict(ops)
      /\ schFaults' = schFaults =>
            \A x \in ops : Affected(x) => ~UniquenessConflict(x.koid, x.val, SchKos)
  BY <1>2, UniqueLooked
<1>6. UniqueKept
  BY ONLY SchInv, <1>1, <1>2, <1>5, CommitsUnique
<1>. QED  BY <1>4, <1>6

\* forget and evolve: a head that was live or is not made so.
LEMMA SchStates ==
    ASSUME SchInv, NEW k \in SchKos, NEW live \in BOOLEAN, live => LiveHead(k), CommitState(k, live)
    PROVE  SchInv' /\ UniqueKept
<1>0. SchShape
  BY DEF SchInv
<1>1. HasHead(k) /\ UNCHANGED <<relIndex, registry, row, change, erased, outlived, crossed>>
  BY DEF CommitState
<1>2. /\ obj[k] \in SchHead /\ obj[k].ver \in Nat \ {0} /\ obj[k].sv \in Schema
      /\ obj[k].val \in SchVals /\ obj[k].target \in SchTargets \cup {NoTarget}
  BY <1>0, <1>1, HeadTyped
<1>3. \A j \in SchKos : j # k => obj'[j] = obj[j]
  BY DEF CommitState, SchInv, SchShape
<1>4. obj'[k] = [obj[k] EXCEPT !.ver = @ + 1, !.live = live]
  BY <1>2 DEF CommitState, SchInv, SchShape
<1>5. /\ obj'[k] \in SchHead /\ obj'[k].ver = obj[k].ver + 1 /\ obj'[k].live = live
      /\ obj'[k].sv = obj[k].sv /\ obj'[k].val = obj[k].val /\ obj'[k].target = obj[k].target
  <2>1. PICK n : n = obj[k].ver + 1
    OBVIOUS
  <2>2. n \in Nat \ {0}
    BY <1>2, <2>1
  <2>3. obj'[k] = [obj[k] EXCEPT !.ver = n, !.live = live]
    BY <1>4, <2>1
  <2>4. /\ obj'[k] \in SchHead /\ obj'[k].ver = n /\ obj'[k].live = live
        /\ obj'[k].sv = obj[k].sv /\ obj'[k].val = obj[k].val /\ obj'[k].target = obj[k].target
    BY <1>2, <2>2, <2>3 DEF SchHead
  <2>. QED  BY <2>1, <2>4
<1>6. \A j \in SchKos : HasHead(j)' <=> HasHead(j)
  BY <1>1, <1>3, <1>5, SomeHead DEF HasHead
<1>7. \A j \in SchKos : LiveHead(j)' => LiveHead(j)
  BY <1>1, <1>3, <1>5, <1>6 DEF LiveHead
<1>8. SchShape'
  <2>1. obj' \in [SchKos -> SchHead \cup {NoObject}]
    <3>1. DOMAIN obj' = SchKos /\ obj' = [j \in SchKos |-> obj'[j]]
      BY DEF CommitState, SchInv, SchShape
    <3>2. \A j \in SchKos : obj'[j] \in SchHead \cup {NoObject}
      BY <1>3, <1>5 DEF SchInv, SchShape
    <3>. QED  BY <3>1, <3>2
  <2>. QED  BY <1>0, <1>1, <2>1 DEF SchShape, ChangeOK, Migrating
<1>9. ChangeInv'
  BY <1>1 DEF SchInv, ChangeInv, AtRest
<1>10. ReadInv'
  <2>. SUFFICES ASSUME NEW a \in SchAdmins, Migrating(change[a]) PROVE ReadOK(change[a])'
    BY <1>1 DEF ReadInv, Migrating
  <2>1. PICK c : c = change[a]
    OBVIOUS
  <2>2. ChangeOK(c) /\ ReadOK(c) /\ Migrating(c)
    BY <2>1 DEF SchInv, SchShape, ReadInv
  <2>3. c.heads \subseteq SchKos /\ DOMAIN c.ops \subseteq SchKos /\ DOMAIN c.skipped \subseteq SchKos
    BY <2>2 DEF ChangeOK
  <2>4. /\ \A j \in DOMAIN c.ops : c.ops[j].ver \in Nat
        /\ \A j \in DOMAIN c.skipped : c.skipped[j] \in Nat
    BY <2>2 DEF ChangeOK, SchHead
  <2>5. \A j \in c.heads : HasHead(j)' \/ j \in erased'
    BY <1>1, <1>6, <2>2, <2>3 DEF ReadOK
  <2>6. ASSUME NEW j \in DOMAIN c.ops \ outlived
        PROVE  /\ HasHead(j)' /\ c.ops[j].ver <= obj'[j].ver
               /\ c.ops[j].ver = obj'[j].ver => c.ops[j] = obj'[j]
    <3>1. /\ j \in SchKos /\ HasHead(j) /\ c.ops[j].ver <= obj[j].ver
          /\ c.ops[j].ver = obj[j].ver => c.ops[j] = obj[j]
      BY <2>2, <2>3 DEF ReadOK
    <3>2. CASE j = k
      BY <1>2, <1>5, <1>6, <2>4, <3>1, <3>2
    <3>3. CASE j # k
      BY <1>3, <1>6, <3>1, <3>3
    <3>. QED  BY <3>2, <3>3
  <2>7. ASSUME NEW j \in DOMAIN c.skipped \ erased
        PROVE  /\ HasHead(j)' /\ c.skipped[j] <= obj'[j].ver
               /\ c.skipped[j] = obj'[j].ver => obj'[j].sv = c.to
    <3>1. /\ j \in SchKos /\ HasHead(j) /\ c.skipped[j] <= obj[j].ver
          /\ c.skipped[j] = obj[j].ver => obj[j].sv = c.to
      BY <2>2, <2>3 DEF ReadOK
    <3>2. CASE j = k
      BY <1>2, <1>5, <1>6, <2>4, <3>1, <3>2
    <3>3. CASE j # k
      BY <1>3, <1>6, <3>1, <3>3
    <3>. QED  BY <3>2, <3>3
  <2>8. ReadOK(c)'
    BY <1>1, <2>5, <2>6, <2>7 DEF ReadOK
  <2>. QED  BY <1>1, <2>1, <2>8 DEF ReadOK
<1>11. \A j \in SchKos : HasHead(j) => obj'[j].val = obj[j].val /\ obj'[j].target = obj[j].target
  BY <1>3, <1>5
<1>12. HeadInv' /\ TargetExclusive'
  BY <1>1, <1>6, <1>11 DEF SchInv, HeadInv, TargetExclusive
<1>13. UniqueKept
  BY <1>7, <1>11 DEF UniqueKept, Duplicates, LiveHead
<1>. QED  BY <1>8, <1>9, <1>10, <1>12, <1>13 DEF SchInv

LEMMA SchErases ==
    ASSUME SchInv, NEW k \in SchKos, ForgetErase(k)
    PROVE  SchInv' /\ UniqueKept
<1>1. /\ erased' = erased \cup {k} /\ outlived' = IF HeldReading(k) THEN outlived \cup {k} ELSE outlived
      /\ UNCHANGED <<relIndex, registry, row, change, crossed>>
  BY DEF ForgetErase
<1>2. obj' = [obj EXCEPT ![k] = NoObject]
  BY DEF ForgetErase
<1>3. \A j \in SchKos : (j # k => obj'[j] = obj[j]) /\ (HasHead(j)' <=> HasHead(j) /\ j # k)
  BY <1>2 DEF HasHead, SchInv, SchShape
<1>4. SchShape'
  <2>1. obj' \in [SchKos -> SchHead \cup {NoObject}]
    BY <1>2 DEF SchInv, SchShape
  <2>2. outlived' \subseteq erased' /\ erased' \subseteq SchKos
    BY <1>1 DEF SchInv, SchShape
  <2>. QED  BY <1>1, <2>1, <2>2 DEF SchInv, SchShape, ChangeOK, Migrating
<1>5. ChangeInv'
  BY <1>1 DEF SchInv, ChangeInv, AtRest
<1>6. ReadInv'
  <2>. SUFFICES ASSUME NEW a \in SchAdmins, Migrating(change[a]) PROVE ReadOK(change[a])'
    BY <1>1 DEF ReadInv, Migrating
  <2>1. PICK c : c = change[a]
    OBVIOUS
  <2>2. ChangeOK(c) /\ ReadOK(c) /\ Migrating(c)
    BY <2>1 DEF SchInv, SchShape, ReadInv
  <2>3. c.heads \subseteq SchKos /\ DOMAIN c.ops \subseteq SchKos /\ DOMAIN c.skipped \subseteq SchKos
    BY <2>2 DEF ChangeOK
  <2>4. k \in DOMAIN c.ops => k \in outlived'
    BY <1>1, <2>1, <2>2 DEF HeldReading, Migrating
  <2>5. outlived \subseteq outlived' /\ erased \subseteq erased' /\ k \in erased'
    BY <1>1
  <2>6. ReadOK(c)'
    BY <1>3, <2>2, <2>3, <2>4, <2>5 DEF ReadOK
  <2>. QED  BY <1>1, <2>1, <2>6 DEF ReadOK
<1>7. HeadInv' /\ TargetExclusive'
  <2>1. outlived \subseteq outlived'
    BY <1>1
  <2>. QED  BY <1>1, <1>3, <2>1 DEF SchInv, HeadInv, TargetExclusive
<1>8. UniqueKept
  BY <1>3 DEF UniqueKept, Duplicates, LiveHead
<1>. QED  BY <1>4, <1>5, <1>6, <1>7, <1>8 DEF SchInv

-----------------------------------------------------------------------------
(* Schema changes.                                                           *)

\* A step that keeps the objects and the index keeps what is said of them alone.
LEMMA KeepHeads ==
    ASSUME SchInv, UNCHANGED <<obj, relIndex, erased, outlived>>
    PROVE  /\ HeadInv' /\ TargetExclusive' /\ UniqueKept
           /\ \A c : ReadOK(c) => ReadOK(c)'
BY DEF SchInv, HeadInv, TargetExclusive, UniqueKept, Duplicates, LiveHead, HasHead, ReadOK

\* The next step of one change: its shape, where it is, and what it has read, are left to show.
ChangeTo(a, c) ==
    /\ change' = [change EXCEPT ![a] = c]
    /\ ~crossed' =>
          /\ \A b \in SchAdmins \ {a} : AtRest(b)
          /\ c.step \in {"rest", "failed", "done"} => registry' = row'
          /\ c.step = "row" => row' = c.to
          /\ c.step = "reading" => registry' = row' /\ row' = c.from
          /\ c.step = "registered" => row' = c.from /\ registry' = c.to

LEMMA Changed ==
    ASSUME SchInv, NEW a \in SchAdmins, NEW c, ChangeTo(a, c), ChangeOK(c), registry' \in Schema,
           row' \in Schema, crossed' \in BOOLEAN
    PROVE  /\ ChangeInv' /\ DOMAIN change' = SchAdmins /\ change'[a] = c
           /\ \A b \in SchAdmins \ {a} : change'[b] = change[b]
           /\ \A b \in SchAdmins : ChangeOK(change'[b])
<1>1. DOMAIN change' = SchAdmins /\ change'[a] = c /\ \A b \in SchAdmins \ {a} : change'[b] = change[b]
  BY DEF ChangeTo, SchInv, SchShape
<1>2. \A b \in SchAdmins : ChangeOK(change'[b])
  BY <1>1 DEF SchInv, SchShape
<1>3. ASSUME ~crossed' PROVE \A b \in SchAdmins \ {a} : AtRest(b)' /\ AtRest(b)
  BY <1>1, <1>3 DEF ChangeTo, AtRest
<1>4. c.step \in {"rest", "failed", "done", "row", "reading", "registered"}
  BY DEF ChangeOK
<1>5. ChangeInv'
  <2>. SUFFICES ASSUME ~crossed'
                PROVE  /\ \A b, d \in SchAdmins : ~AtRest(b)' /\ ~AtRest(d)' => b = d
                       /\ (\A b \in SchAdmins : AtRest(b)') => registry' = row'
                       /\ \A b \in SchAdmins :
                             /\ change'[b].step = "row" => row' = change'[b].to
                             /\ change'[b].step = "reading" => registry' = row' /\ row' = change'[b].from
                             /\ change'[b].step = "registered" =>
                                   row' = change'[b].from /\ registry' = change'[b].to
    BY DEF ChangeInv
  <2>1. \A b, d \in SchAdmins : ~AtRest(b)' /\ ~AtRest(d)' => b = d
    BY <1>3
  <2>2. (\A b \in SchAdmins : AtRest(b)') => registry' = row'
    BY <1>1 DEF AtRest, ChangeTo
  <2>3. ASSUME NEW b \in SchAdmins
        PROVE  /\ change'[b].step = "row" => row' = change'[b].to
               /\ change'[b].step = "reading" => registry' = row' /\ row' = change'[b].from
               /\ change'[b].step = "registered" => row' = change'[b].from /\ registry' = change'[b].to
    <3>1. CASE b = a
      BY <1>1, <3>1 DEF ChangeTo
    <3>2. CASE b # a
      BY <1>3, <3>2 DEF AtRest
    <3>. QED  BY <3>1, <3>2
  <2>. QED  BY <2>1, <2>2, <2>3
<1>. QED  BY <1>1, <1>2, <1>5

\* A change that leaves the objects alone.
LEMMA SchMoves ==
    ASSUME SchInv, NEW a \in SchAdmins, NEW c, UNCHANGED <<obj, relIndex, erased, outlived>>,
           ChangeTo(a, c), ChangeOK(c), registry' \in Schema, row' \in Schema, crossed' \in BOOLEAN,
           Migrating(c) => ReadOK(c)
    PROVE  SchInv' /\ UniqueKept
<1>1. /\ ChangeInv' /\ DOMAIN change' = SchAdmins /\ change'[a] = c
      /\ \A b \in SchAdmins \ {a} : change'[b] = change[b]
      /\ \A b \in SchAdmins : ChangeOK(change'[b])
  BY Changed
<1>2. SchShape'
  BY <1>1 DEF SchInv, SchShape, ChangeOK, Migrating
<1>3. /\ HeadInv' /\ TargetExclusive' /\ UniqueKept
      /\ \A d : ReadOK(d) => ReadOK(d)'
  BY KeepHeads
<1>4. ReadInv'
  <2>. SUFFICES ASSUME NEW b \in SchAdmins, Migrating(change'[b]) PROVE ReadOK(change[b])'
    BY DEF ReadInv, Migrating
  <2>1. PICK d : d = change'[b]
    OBVIOUS
  <2>2. ReadOK(d)
    BY <1>1, <2>1 DEF SchInv, ReadInv, Migrating
  <2>. QED  BY <1>3, <2>1, <2>2 DEF ReadOK
<1>. QED  BY <1>1, <1>2, <1>3, <1>4 DEF SchInv

\* A change goes on: if no other ran beside it, the others are at rest.
LEMMA Alone ==
    ASSUME SchInv, NEW a \in SchAdmins, ~AtRest(a), ~crossed
    PROVE  \A b \in SchAdmins \ {a} : AtRest(b)
BY DEF SchInv, ChangeInv

\* A change begins.
LEMMA Begins ==
    ASSUME SchInv, NEW a \in SchAdmins, BeginChange(a)
    PROVE  /\ crossed' \in BOOLEAN
           /\ ~crossed' => registry = row /\ \A b \in SchAdmins \ {a} : AtRest(b)
BY DEF SchInv, ChangeInv, BeginChange

LEMMA SchRegisters ==
    ASSUME SchInv, NEW a \in SchAdmins,
           (\E v \in 1 .. MaxSchema : RegisterRow(a, v)) \/ RegisterMemory(a) \/ MigrateFail(a)
    PROVE  SchInv' /\ UniqueKept
<1>1. registry \in Schema /\ row \in Schema /\ crossed \in BOOLEAN /\ ChangeOK(change[a])
  BY DEF SchInv, SchShape
<1>2. ~crossed =>
         /\ change[a].step = "row" => row = change[a].to
         /\ change[a].step = "registered" => row = change[a].from /\ registry = change[a].to
  BY DEF SchInv, ChangeInv
<1>3. ASSUME NEW v \in 1 .. MaxSchema, RegisterRow(a, v) PROVE SchInv' /\ UniqueKept
  <2>. DEFINE c == [step |-> "row", to |-> v]
  <2>1. c.step = "row" /\ ChangeOK(c) /\ c.to = v /\ ~Migrating(c)
    BY DEF ChangeOK, Schema, Migrating
  <2>2. /\ UNCHANGED <<obj, relIndex, erased, outlived, registry>> /\ row' = v /\ BeginChange(a)
        /\ change' = [change EXCEPT ![a] = c]
    BY <1>3 DEF RegisterRow
  <2>3. registry' \in Schema /\ row' \in Schema
    BY <1>1, <2>2 DEF Schema
  <2>. HIDE DEF c
  <2>4. ChangeTo(a, c) /\ crossed' \in BOOLEAN
    BY <2>1, <2>2, Begins DEF ChangeTo
  <2>. QED  BY <2>1, <2>2, <2>3, <2>4, SchMoves
<1>4. CASE RegisterMemory(a)
  <2>1. NoChange.step = "rest" /\ ChangeOK(NoChange) /\ ~Migrating(NoChange)
    BY DEF ChangeOK, NoChange, Migrating
  <2>2. /\ UNCHANGED <<obj, relIndex, erased, outlived, row, crossed>> /\ registry' = change[a].to
        /\ change' = [change EXCEPT ![a] = NoChange] /\ change[a].step = "row" /\ ~AtRest(a)
    BY <1>4 DEF RegisterMemory, AtRest
  <2>3. registry' \in Schema
    BY <1>1, <2>2 DEF ChangeOK
  <2>4. ChangeTo(a, NoChange)
    BY <1>2, <2>1, <2>2, Alone DEF ChangeTo
  <2>. QED  BY <1>1, <2>1, <2>2, <2>3, <2>4, SchMoves
<1>5. CASE MigrateFail(a)
  <2>1. ChangeFailed.step = "failed" /\ ChangeOK(ChangeFailed) /\ ~Migrating(ChangeFailed)
    BY DEF ChangeOK, ChangeFailed, Migrating
  <2>2. /\ UNCHANGED <<obj, relIndex, erased, outlived, row, crossed>> /\ registry' = change[a].from
        /\ change' = [change EXCEPT ![a] = ChangeFailed] /\ change[a].step = "registered" /\ ~AtRest(a)
    BY <1>5 DEF MigrateFail, RolledBack, AtRest
  <2>3. registry' \in Schema
    BY <1>1, <2>2 DEF ChangeOK, Migrating
  <2>4. ChangeTo(a, ChangeFailed)
    BY <1>2, <2>1, <2>2, Alone DEF ChangeTo
  <2>. QED  BY <1>1, <2>1, <2>2, <2>3, <2>4, SchMoves
<1>. QED  BY <1>3, <1>4, <1>5

LEMMA SchScans ==
    ASSUME SchInv, NEW a \in SchAdmins, NEW v \in 1 .. MaxSchema, MigrateScan(a, v)
    PROVE  SchInv' /\ UniqueKept
<1>. DEFINE live == {k \in SchKos : LiveHead(k)}
            c == [step |-> "reading", from |-> registry, to |-> v, heads |-> live, left |-> live,
                  ops |-> << >>, skipped |-> << >>]
<1>1. registry \in Schema /\ row \in Schema /\ v \in Schema
  BY DEF SchInv, SchShape, Schema
<1>2. /\ UNCHANGED <<obj, relIndex, erased, outlived, registry, row>> /\ BeginChange(a)
      /\ change' = [change EXCEPT ![a] = c]
  BY DEF MigrateScan
<1>3. live \subseteq SchKos /\ \A k \in live : HasHead(k)
  BY DEF LiveHead
<1>4. DOMAIN c.ops = {} /\ DOMAIN c.skipped = {}
  OBVIOUS
<1>5. /\ c.step = "reading" /\ c.from = registry /\ c.to = v /\ c.heads = live /\ c.left = live
      /\ c = [step |-> c.step, from |-> c.from, to |-> c.to, heads |-> c.heads, left |-> c.left,
              ops |-> c.ops, skipped |-> c.skipped]
  OBVIOUS
<1>. HIDE DEF live, c
<1>6. ChangeOK(c)
  BY <1>1, <1>3, <1>4, <1>5 DEF ChangeOK
<1>7. ReadOK(c)
  BY <1>3, <1>4, <1>5 DEF ReadOK
<1>8. ChangeTo(a, c) /\ crossed' \in BOOLEAN
  BY <1>2, <1>5, Begins DEF ChangeTo
<1>. QED  BY <1>1, <1>2, <1>6, <1>7, <1>8, SchMoves

LEMMA SchMarks ==
    ASSUME SchInv, NEW a \in SchAdmins, MigrateRegister(a)
    PROVE  SchInv' /\ UniqueKept
<1>. DEFINE c == change[a]
            d == [c EXCEPT !.step = "registered"]
<1>1. /\ c.step = "reading" /\ c.left = {} /\ registry' = c.to
      /\ UNCHANGED <<obj, relIndex, erased, outlived, row, crossed>>
      /\ change' = [change EXCEPT ![a] = d]
  BY DEF MigrateRegister, SchInv, SchShape
<1>2. ChangeOK(c) /\ Migrating(c) /\ ReadOK(c) /\ crossed \in BOOLEAN /\ row \in Schema
  BY <1>1 DEF SchInv, SchShape, ReadInv, Migrating
<1>3. ~crossed => row = c.from /\ \A b \in SchAdmins \ {a} : AtRest(b)
  BY <1>1, Alone DEF SchInv, ChangeInv, AtRest
<1>. HIDE DEF c
<1>4. c = [step |-> c.step, from |-> c.from, to |-> c.to, heads |-> c.heads, left |-> c.left,
           ops |-> c.ops, skipped |-> c.skipped]
  BY <1>2 DEF ChangeOK
<1>5. d = [step |-> "registered", from |-> c.from, to |-> c.to, heads |-> c.heads, left |-> c.left,
           ops |-> c.ops, skipped |-> c.skipped]
  BY <1>4
<1>. HIDE DEF d
<1>6. /\ d.step = "registered" /\ d.from = c.from /\ d.to = c.to /\ d.heads = c.heads
      /\ d.left = c.left /\ d.ops = c.ops /\ d.skipped = c.skipped
  BY <1>5
<1>7. ChangeOK(d)
  BY <1>1, <1>2, <1>5, <1>6 DEF ChangeOK, Migrating
<1>8. ReadOK(d)
  BY <1>2, <1>6 DEF ReadOK
<1>9. ChangeTo(a, d) /\ registry' \in Schema
  BY <1>1, <1>2, <1>3, <1>6 DEF ChangeTo, ChangeOK, Migrating
<1>. QED  BY <1>1, <1>2, <1>7, <1>8, <1>9, SchMoves

LEMMA SchReads ==
    ASSUME SchInv, NEW a \in SchAdmins, NEW k \in SchKos, MigrateRead(a, k)
    PROVE  SchInv' /\ UniqueKept
<1>0. PICK c : c = change[a]
  OBVIOUS
<1>. DEFINE over == ~HasHead(k) \/ obj[k].sv = c.to
            p == [c EXCEPT !.left = @ \ {k}, !.skipped = With(@, k, Version(k))]
            q == [c EXCEPT !.left = @ \ {k}, !.ops = With(@, k, obj[k])]
<1>1. /\ c.step = "reading" /\ k \in c.left
      /\ UNCHANGED <<obj, relIndex, registry, row, erased, outlived, crossed>>
      /\ change' = [change EXCEPT ![a] = IF over THEN p ELSE IF obj[k].sv = c.to - 1 THEN q ELSE ChangeFailed]
  BY <1>0 DEF MigrateRead
<1>2. /\ ChangeOK(c) /\ Migrating(c) /\ ReadOK(c) /\ crossed \in BOOLEAN
      /\ row \in Schema /\ registry \in Schema
  BY <1>0, <1>1 DEF SchInv, SchShape, ReadInv, Migrating
<1>3. ~crossed => row = c.from /\ registry = row /\ \A b \in SchAdmins \ {a} : AtRest(b)
  BY <1>0, <1>1, Alone DEF SchInv, ChangeInv, AtRest
<1>4. HasHead(k) => obj[k] \in SchHead /\ obj[k].ver \in Nat
  BY HeadTyped DEF SchInv
<1>5. c = [step |-> c.step, from |-> c.from, to |-> c.to, heads |-> c.heads, left |-> c.left,
           ops |-> c.ops, skipped |-> c.skipped]
  BY <1>2 DEF ChangeOK
<1>6. /\ c.to \in Schema /\ c.from \in Schema /\ c.heads \subseteq SchKos
      /\ c.heads = c.left \cup DOMAIN c.ops \cup DOMAIN c.skipped
      /\ \A j \in DOMAIN c.ops : c.ops[j] \in SchHead
      /\ \A j \in DOMAIN c.skipped : c.skipped[j] \in Nat
  BY <1>1, <1>2 DEF ChangeOK
<1>7. CASE over
  <2>1. PICK s : s = With(c.skipped, k, Version(k))
    OBVIOUS
  <2>2. p = [step |-> "reading", from |-> c.from, to |-> c.to, heads |-> c.heads, left |-> c.left \ {k},
             ops |-> c.ops, skipped |-> s]
    <3>1. PICK m : m = c.left \ {k}
      OBVIOUS
    <3>2. p = [c EXCEPT !.left = m, !.skipped = s]
      BY <2>1, <3>1
    <3>3. PICK d : d = [c EXCEPT !.left = m]
      OBVIOUS
    <3>4. d = [step |-> c.step, from |-> c.from, to |-> c.to, heads |-> c.heads, left |-> m,
               ops |-> c.ops, skipped |-> c.skipped]
      BY ONLY <1>5, <3>3
    <3>5. p = [d EXCEPT !.skipped = s]
      BY ONLY <3>2, <3>3
    <3>6. [d EXCEPT !.skipped = s] =
             [step |-> c.step, from |-> c.from, to |-> c.to, heads |-> c.heads, left |-> m,
              ops |-> c.ops, skipped |-> s]
      BY ONLY <3>4
    <3>. QED  BY ONLY <1>1, <3>1, <3>5, <3>6
  <2>3. /\ DOMAIN s = DOMAIN c.skipped \cup {k} /\ s[k] = Version(k)
        /\ \A j \in DOMAIN c.skipped \ {k} : s[j] = c.skipped[j]
    BY <2>1 DEF With
  <2>4. change' = [change EXCEPT ![a] = p]
    BY <1>1, <1>7
  <2>5. Version(k) \in Nat /\ (HasHead(k) => Version(k) = obj[k].ver /\ obj[k].sv = c.to)
    BY <1>4, <1>7 DEF Version
  <2>. HIDE DEF p, over
  <2>6. /\ p.step = "reading" /\ p.from = c.from /\ p.to = c.to /\ p.heads = c.heads
        /\ p.left = c.left \ {k} /\ p.ops = c.ops /\ p.skipped = s
    BY <2>2
  <2>7. ChangeOK(p)
    <3>1. p.heads = p.left \cup DOMAIN p.ops \cup DOMAIN p.skipped
      BY <1>1, <1>6, <2>3, <2>6
    <3>2. \A j \in DOMAIN p.skipped : p.skipped[j] \in Nat
      BY <1>6, <2>3, <2>5, <2>6
    <3>. QED  BY <1>6, <2>2, <2>6, <3>1, <3>2 DEF ChangeOK
  <2>8. ReadOK(p)
    <3>1. k \notin erased => HasHead(k)
      BY <1>1, <1>2, <1>6 DEF ReadOK
    <3>2. ASSUME NEW j \in DOMAIN s \ erased
          PROVE  HasHead(j) /\ s[j] <= obj[j].ver /\ (s[j] = obj[j].ver => obj[j].sv = c.to)
      <4>1. CASE j = k
        BY <1>4, <2>3, <2>5, <3>1, <3>2, <4>1
      <4>2. CASE j # k
        BY <1>2, <2>3, <3>2, <4>2 DEF ReadOK
      <4>. QED  BY <4>1, <4>2
    <3>. QED  BY <1>2, <2>6, <3>2 DEF ReadOK
  <2>9. ChangeTo(a, p)
    BY <1>1, <1>3, <2>4, <2>6 DEF ChangeTo
  <2>. QED  BY <1>1, <1>2, <2>7, <2>8, <2>9, SchMoves
<1>8. CASE ~over /\ obj[k].sv = c.to - 1
  <2>1. PICK s : s = With(c.ops, k, obj[k])
    OBVIOUS
  <2>2. q = [step |-> "reading", from |-> c.from, to |-> c.to, heads |-> c.heads, left |-> c.left \ {k},
             ops |-> s, skipped |-> c.skipped]
    <3>1. PICK m : m = c.left \ {k}
      OBVIOUS
    <3>2. q = [c EXCEPT !.left = m, !.ops = s]
      BY <2>1, <3>1
    <3>3. PICK d : d = [c EXCEPT !.left = m]
      OBVIOUS
    <3>4. d = [step |-> c.step, from |-> c.from, to |-> c.to, heads |-> c.heads, left |-> m,
               ops |-> c.ops, skipped |-> c.skipped]
      BY ONLY <1>5, <3>3
    <3>5. q = [d EXCEPT !.ops = s]
      BY ONLY <3>2, <3>3
    <3>6. [d EXCEPT !.ops = s] =
             [step |-> c.step, from |-> c.from, to |-> c.to, heads |-> c.heads, left |-> m,
              ops |-> s, skipped |-> c.skipped]
      BY ONLY <3>4
    <3>. QED  BY ONLY <1>1, <3>1, <3>5, <3>6
  <2>3. /\ DOMAIN s = DOMAIN c.ops \cup {k} /\ s[k] = obj[k]
        /\ \A j \in DOMAIN c.ops \ {k} : s[j] = c.ops[j]
    BY <2>1 DEF With
  <2>4. change' = [change EXCEPT ![a] = q] /\ HasHead(k)
    BY <1>1, <1>8
  <2>. HIDE DEF q, over
  <2>6. /\ q.step = "reading" /\ q.from = c.from /\ q.to = c.to /\ q.heads = c.heads
        /\ q.left = c.left \ {k} /\ q.ops = s /\ q.skipped = c.skipped
    BY <2>2
  <2>7. ChangeOK(q)
    <3>1. q.heads = q.left \cup DOMAIN q.ops \cup DOMAIN q.skipped
      BY <1>1, <1>6, <2>3, <2>6
    <3>2. \A j \in DOMAIN q.ops : q.ops[j] \in SchHead
      BY <1>4, <1>6, <2>3, <2>4, <2>6
    <3>. QED  BY <1>6, <2>2, <2>6, <3>1, <3>2 DEF ChangeOK
  <2>8. ReadOK(q)
    <3>1. ASSUME NEW j \in DOMAIN s \ outlived
          PROVE  HasHead(j) /\ s[j].ver <= obj[j].ver /\ (s[j].ver = obj[j].ver => s[j] = obj[j])
      <4>1. CASE j = k
        BY <1>4, <2>3, <2>4, <4>1
      <4>2. CASE j # k
        BY <1>2, <2>3, <3>1, <4>2 DEF ReadOK
      <4>. QED  BY <4>1, <4>2
    <3>. QED  BY <1>2, <2>6, <3>1 DEF ReadOK
  <2>9. ChangeTo(a, q)
    BY <1>1, <1>3, <2>4, <2>6 DEF ChangeTo
  <2>. QED  BY <1>1, <1>2, <2>7, <2>8, <2>9, SchMoves
<1>9. CASE ~over /\ obj[k].sv # c.to - 1
  <2>1. ChangeFailed.step = "failed" /\ ChangeOK(ChangeFailed) /\ ~Migrating(ChangeFailed)
    BY DEF ChangeOK, ChangeFailed, Migrating
  <2>2. change' = [change EXCEPT ![a] = ChangeFailed]
    BY <1>1, <1>9
  <2>3. ChangeTo(a, ChangeFailed)
    BY <1>1, <1>3, <2>1, <2>2 DEF ChangeTo
  <2>. QED  BY <1>1, <1>2, <2>1, <2>3, SchMoves
<1>. QED  BY <1>7, <1>8, <1>9

LEMMA SchCrashes == ASSUME SchInv, SchCrash PROVE SchInv' /\ UniqueKept
<1>1. /\ UNCHANGED <<obj, relIndex, erased, outlived, row>> /\ registry' = row /\ crossed' = FALSE
      /\ change' = [a \in SchAdmins |-> NoChange]
  BY DEF SchCrash
<1>2. DOMAIN change' = SchAdmins /\ \A a \in SchAdmins : change'[a].step = "rest"
  BY <1>1 DEF NoChange
<1>3. SchShape'
  BY <1>1, <1>2 DEF SchInv, SchShape, ChangeOK, Migrating
<1>4. ChangeInv' /\ ReadInv'
  BY <1>1, <1>2 DEF ChangeInv, AtRest, ReadInv, Migrating
<1>. QED  BY <1>1, <1>3, <1>4, KeepHeads DEF SchInv

\* A migration's commit: what it wrote was there, with the stamp of the target, and is as it
\* was read unless its koid was erased meanwhile.
LEMMA Migrates ==
    ASSUME SchInv, NEW a \in SchAdmins, NEW seen, MigrateCommit(a, seen)
    PROVE  /\ change[a].step = "registered" /\ OpsOf(change[a].ops) \in SUBSET SchOps
           /\ Committed(OpsOf(change[a].ops))
           /\ \A k \in DOMAIN change[a].ops : k \in SchKos /\ HasHead(k) /\ obj'[k].sv = change[a].to
           /\ \A k \in SchKos \ DOMAIN change[a].ops : obj'[k] = obj[k]
           /\ \A k \in SchKos \ outlived :
                 HasHead(k) => obj'[k].val = obj[k].val /\ obj'[k].target = obj[k].target
<1>1. PICK c : c = change[a]
  OBVIOUS
<1>2. /\ c.step = "registered" /\ Committed(OpsOf(c.ops))
      /\ DOMAIN c.ops = {} \/ MigrationPasses(c, seen)
  BY <1>1 DEF MigrateCommit
<1>3. ChangeOK(c) /\ ReadOK(c) /\ SchShape
  BY <1>1, <1>2 DEF SchInv, SchShape, ReadInv, Migrating
<1>4. DOMAIN c.ops \subseteq SchKos /\ \A k \in DOMAIN c.ops : c.ops[k] \in SchHead
  BY <1>2, <1>3 DEF ChangeOK, Migrating
<1>5. OpsOf(c.ops) \in SUBSET SchOps
  BY <1>4 DEF OpsOf, SchOps, SchHead
<1>6. \A k : Wrote(OpsOf(c.ops), k) <=> k \in DOMAIN c.ops
  <2>1. ASSUME NEW k, Wrote(OpsOf(c.ops), k) PROVE k \in DOMAIN c.ops
    BY <2>1 DEF Wrote, OpsOf
  <2>2. ASSUME NEW k \in DOMAIN c.ops PROVE Wrote(OpsOf(c.ops), k)
    <3>1. PICK w : w = [koid |-> k, val |-> c.ops[k].val, target |-> c.ops[k].target]
      OBVIOUS
    <3>2. w \in OpsOf(c.ops) /\ w.koid = k
      BY <3>1 DEF OpsOf
    <3>. QED  BY <3>2 DEF Wrote
  <2>. QED  BY <2>1, <2>2
<1>7. /\ \A k \in SchKos : Wrote(OpsOf(c.ops), k) =>
            /\ OpFor(OpsOf(c.ops), k) \in OpsOf(c.ops) /\ OpFor(OpsOf(c.ops), k).koid = k
            /\ obj'[k].sv = registry /\ obj'[k].val = OpFor(OpsOf(c.ops), k).val
            /\ obj'[k].target = OpFor(OpsOf(c.ops), k).target
      /\ \A k \in SchKos : ~Wrote(OpsOf(c.ops), k) => obj'[k] = obj[k]
  <2>1. PICK ops : ops = OpsOf(c.ops)
    OBVIOUS
  <2>. QED  BY <1>2, <1>3, <1>5, <2>1, BatchCommits
<1>8. ASSUME NEW k \in DOMAIN c.ops PROVE HasHead(k) /\ obj[k].ver = c.ops[k].ver /\ registry = c.to
  BY <1>2, <1>8 DEF MigrationPasses, Unmoved
<1>9. ASSUME NEW k \in DOMAIN c.ops
      PROVE  obj'[k].val = c.ops[k].val /\ obj'[k].target = c.ops[k].target /\ obj'[k].sv = c.to
  <2>1. PICK w : w = OpFor(OpsOf(c.ops), k)
    OBVIOUS
  <2>2. w \in OpsOf(c.ops) /\ w.koid = k /\ obj'[k].val = w.val /\ obj'[k].target = w.target
    BY <1>4, <1>6, <1>7, <2>1
  <2>3. w.val = c.ops[k].val /\ w.target = c.ops[k].target
    BY <2>2 DEF OpsOf
  <2>. QED  BY <1>4, <1>6, <1>7, <1>8, <2>2, <2>3
<1>10. ASSUME NEW k \in SchKos \ outlived, HasHead(k)
       PROVE  obj'[k].val = obj[k].val /\ obj'[k].target = obj[k].target
  <2>1. CASE k \in DOMAIN c.ops
    BY <1>3, <1>8, <1>9, <2>1 DEF ReadOK
  <2>2. CASE k \notin DOMAIN c.ops
    BY <1>6, <1>7, <2>2
  <2>. QED  BY <2>1, <2>2
<1>. QED  BY <1>1, <1>2, <1>4, <1>5, <1>6, <1>7, <1>8, <1>9, <1>10

LEMMA SchMigrates ==
    ASSUME SchInv, schFaults \in Nat, NEW a \in SchAdmins, NEW seen, MigrateCommit(a, seen)
    PROVE  SchInv' /\ UniqueKept
<1>1. PICK c : c = change[a]
  OBVIOUS
<1>2. PICK ops : ops = OpsOf(c.ops)
  OBVIOUS
<1>. DEFINE d == [step |-> "done"]
<1>3. /\ c.step = "registered" /\ ops \in SUBSET SchOps /\ Committed(ops)
      /\ \A k \in DOMAIN c.ops : k \in SchKos /\ HasHead(k)
      /\ \A k \in SchKos \ DOMAIN c.ops : obj'[k] = obj[k]
      /\ \A k \in SchKos \ outlived :
            HasHead(k) => obj'[k].val = obj[k].val /\ obj'[k].target = obj[k].target
  BY <1>1, <1>2, Migrates
<1>4. /\ UNCHANGED <<registry, erased, outlived, crossed>> /\ row' = c.to /\ Lookup(seen)
      /\ DOMAIN c.ops = {} \/ MigrationPasses(c, seen)
      /\ change' = [change EXCEPT ![a] = d]
  BY <1>1 DEF MigrateCommit
<1>5. ChangeOK(c) /\ SchShape /\ ~AtRest(a) /\ c.to \in Schema
  BY <1>1, <1>3 DEF SchInv, SchShape, AtRest, ChangeOK
<1>6. d.step = "done" /\ ChangeOK(d) /\ ~Migrating(d)
  BY DEF ChangeOK, Migrating
<1>. HIDE DEF d
<1>7. ChangeTo(a, d)
  BY <1>1, <1>3, <1>4, <1>5, <1>6, Alone DEF ChangeTo, SchInv, ChangeInv
<1>8. registry' \in Schema /\ row' \in Schema /\ crossed' \in BOOLEAN
  BY <1>4, <1>5 DEF SchShape
<1>9. /\ ChangeInv' /\ DOMAIN change' = SchAdmins /\ change'[a] = d
      /\ \A b \in SchAdmins \ {a} : change'[b] = change[b]
      /\ \A b \in SchAdmins : ChangeOK(change'[b])
  BY <1>6, <1>7, <1>8, Changed
<1>10. obj' \in [SchKos -> SchHead \cup {NoObject}] /\ relIndex' \subseteq SchKos \X SchTargets
  BY <1>3, <1>5, BatchCommits
<1>11. SchShape'
  BY <1>4, <1>5, <1>8, <1>9, <1>10 DEF SchShape, ChangeOK, Migrating
<1>12. HeadInv' /\ \A e : ChangeOK(e) /\ Migrating(e) /\ ReadOK(e) => ReadOK(e)'
  BY <1>3, <1>4, CommitsKeep
<1>13. ReadInv'
  <2>. SUFFICES ASSUME NEW b \in SchAdmins, Migrating(change'[b]) PROVE ReadOK(change[b])'
    BY DEF ReadInv, Migrating
  <2>1. PICK e : e = change'[b]
    OBVIOUS
  <2>2. e = change[b] /\ ChangeOK(e) /\ ReadOK(e) /\ Migrating(e)
    BY <1>6, <1>9, <2>1 DEF SchInv, SchShape, ReadInv
  <2>3. ReadOK(e)'
    BY <1>12, <2>2
  <2>. QED  BY <2>1, <2>3 DEF ReadOK
<1>14. TargetExclusive'
  <2>1. \A k \in SchKos : HasHead(k)' => HasHead(k)
    BY <1>3 DEF HasHead
  <2>. QED  BY <1>3, <1>4, <2>1 DEF SchInv, TargetExclusive
<1>15. /\ deferred => ~BatchConflict(ops)
       /\ schFaults' = schFaults =>
             \A x \in ops : Affected(x) => ~UniquenessConflict(x.koid, x.val, SchKos)
  <2>1. CASE DOMAIN c.ops = {}
    <3>1. ops = {}
      BY <1>2, <2>1 DEF OpsOf
    <3>. QED  BY <3>1 DEF BatchConflict
  <2>2. CASE MigrationPasses(c, seen)
    <3>1. UniqueIn(ops, seen)
      BY <1>2, <2>2 DEF MigrationPasses
    <3>. QED  BY <1>4, <3>1, UniqueLooked
  <2>. QED  BY <1>4, <2>1, <2>2
<1>16. UniqueKept
  BY <1>3, <1>15, CommitsUnique
<1>. QED  BY <1>9, <1>11, <1>12, <1>13, <1>14, <1>16 DEF SchInv

-----------------------------------------------------------------------------
LEMMA SchSteps ==
    ASSUME SchInv, schFaults \in Nat, [SchNext]_schVars
    PROVE  SchInv' /\ UniqueKept
<1>1. ASSUME NEW k \in SchKos, ForgetTombstone(k) PROVE SchInv' /\ UniqueKept
  BY <1>1, SchStates DEF ForgetTombstone
<1>2. ASSUME NEW k \in SchKos, EvolveState(k) PROVE SchInv' /\ UniqueKept
  BY <1>2, SchStates DEF EvolveState
<1>3. ASSUME NEW a \in SchAdmins,
             \/ \E v \in 1 .. MaxSchema : RegisterRow(a, v) \/ MigrateScan(a, v)
             \/ \E k \in SchKos : MigrateRead(a, k)
             \/ RegisterMemory(a) \/ MigrateRegister(a) \/ MigrateFail(a)
      PROVE  SchInv' /\ UniqueKept
  BY <1>3, SchRegisters, SchScans, SchReads, SchMarks
<1>4. CASE UNCHANGED schVars
  <2>1. UNCHANGED <<obj, relIndex, registry, row, change, erased, outlived, crossed>>
    BY <1>4 DEF schVars
  <2>2. HeadInv' /\ TargetExclusive' /\ UniqueKept
    BY <2>1, KeepHeads
  <2>3. SchShape' /\ ChangeInv'
    BY <2>1 DEF SchInv, SchShape, ChangeOK, Migrating, ChangeInv, AtRest
  <2>4. ReadInv'
    BY <2>1 DEF SchInv, ReadInv, Migrating, ReadOK, HasHead
  <2>. QED  BY <2>2, <2>3, <2>4 DEF SchInv
<1>5. ASSUME NEW seen \in SUBSET SchKos,
             \/ \E w \in SchOps : RememberOne(w, seen)
             \/ \E ops \in SchBatches : TransactBatch(ops, seen)
             \/ \E a \in SchAdmins : MigrateCommit(a, seen)
      PROVE  SchInv' /\ UniqueKept
  BY <1>5, SchRemembers, SchTransacts, SchMigrates
<1>. QED  BY <1>1, <1>2, <1>3, <1>4, <1>5, SchErases, SchCrashes DEF SchNext

LEMMA SchCounts ==
    ASSUME schFaults \in Nat, [SchNext]_schVars
    PROVE  schFaults' \in Nat
<1>1. UNCHANGED schFaults \/ schFaults' = schFaults + 1
  BY DEF SchNext, schVars, RememberOne, TransactBatch, MigrateCommit, Lookup, ForgetTombstone,
         ForgetErase, EvolveState, CommitState, RegisterRow, MigrateScan, MigrateRead,
         RegisterMemory, MigrateRegister, MigrateFail, SchCrash
<1>. QED  BY <1>1

\* Only the commit of a migration moves it from registered to done.
LEMMA SchDone ==
    ASSUME SchInv, [SchNext]_schVars, NEW a \in SchAdmins, Finishes(a)
    PROVE  \E seen \in SUBSET SchKos : MigrateCommit(a, seen)
<1>1. /\ DOMAIN change = SchAdmins /\ change' # change
      /\ change[a].step = "registered" /\ change'[a].step = "done"
  BY DEF SchInv, SchShape, Finishes
<1>2. \A w, seen : ~RememberOne(w, seen)
  BY <1>1 DEF RememberOne
<1>3. \A ops, seen : ~TransactBatch(ops, seen)
  BY <1>1 DEF TransactBatch
<1>4. \A k \in SchKos : ~ForgetTombstone(k) /\ ~ForgetErase(k) /\ ~EvolveState(k)
  BY <1>1 DEF ForgetTombstone, ForgetErase, EvolveState, CommitState
<1>5. ~SchCrash /\ ~UNCHANGED schVars
  BY <1>1 DEF SchCrash, NoChange, schVars
<1>7. ASSUME NEW b \in SchAdmins, NEW v \in 1 .. MaxSchema, RegisterRow(b, v) \/ MigrateScan(b, v)
      PROVE  FALSE
  BY <1>1, <1>7 DEF RegisterRow, MigrateScan
<1>8. ASSUME NEW b \in SchAdmins, RegisterMemory(b) \/ MigrateFail(b) PROVE FALSE
  BY <1>1, <1>8 DEF RegisterMemory, MigrateFail, NoChange, ChangeFailed
<1>9. ASSUME NEW b \in SchAdmins, MigrateRegister(b) PROVE FALSE
  <2>1. b = a
    BY <1>1, <1>9 DEF MigrateRegister
  <2>. QED  BY <1>1, <1>9, <2>1 DEF MigrateRegister
<1>10. ASSUME NEW b \in SchAdmins, NEW k \in SchKos, MigrateRead(b, k) PROVE FALSE
  <2>1. b = a
    BY <1>1, <1>10 DEF MigrateRead
  <2>. QED  BY <1>1, <1>10, <2>1 DEF MigrateRead
<1>11. PICK b \in SchAdmins, seen \in SUBSET SchKos : MigrateCommit(b, seen)
  BY <1>2, <1>3, <1>4, <1>5, <1>7, <1>8, <1>9, <1>10 DEF SchNext
<1>12. b = a
  BY <1>1, <1>11 DEF MigrateCommit
<1>. QED  BY <1>11, <1>12

LEMMA SchPromised ==
    ASSUME SchInv, schFaults \in Nat, SchInv', [SchNext]_schVars
    PROVE  /\ (SchTypeOK /\ TargetExclusive /\ RegistryCurrent)'
           /\ UniqueKept /\ MigrationWhole /\ NoneUndone
<1>1. SchTypeOK'
  <2>1. \A k \in SchKos : HasHead(k)' =>
          /\ obj'[k].ver \in Nat \ {0} /\ obj'[k].sv \in Schema
          /\ obj'[k].val \in SchVals /\ obj'[k].target \in SchTargets \cup {NoTarget}
          /\ obj'[k].live \in BOOLEAN
    BY DEF SchInv, SchShape, HasHead, SchHead
  <2>. QED  BY <2>1 DEF SchInv, SchShape, SchTypeOK, Schema
<1>2. TargetExclusive' /\ RegistryCurrent'
  BY DEF SchInv, ChangeInv, RegistryCurrent
<1>3. ASSUME NEW a \in SchAdmins, Finishes(a)
      PROVE  /\ \A k \in change[a].heads : obj'[k] # NoObject =>
                   \/ obj'[k].sv = change[a].to
                   \/ /\ k \in DOMAIN change[a].skipped
                      /\ k \in erased \/ obj[k].ver # change[a].skipped[k]
             /\ \A k \in SchKos \ outlived :
                   HasHead(k) => obj'[k].val = obj[k].val /\ obj'[k].target = obj[k].target
  <2>1. PICK seen \in SUBSET SchKos : MigrateCommit(a, seen)
    BY <1>3, SchDone
  <2>2. PICK c : c = change[a]
    OBVIOUS
  <2>3. /\ c.step = "registered" /\ ChangeOK(c) /\ ReadOK(c)
        /\ \A k \in DOMAIN c.ops : obj'[k].sv = c.to
        /\ \A k \in SchKos \ DOMAIN c.ops : obj'[k] = obj[k]
        /\ \A k \in SchKos \ outlived :
              HasHead(k) => obj'[k].val = obj[k].val /\ obj'[k].target = obj[k].target
    BY <1>3, <2>1, <2>2, Migrates DEF SchInv, SchShape, ReadInv, Migrating, Finishes
  <2>4. c.heads = DOMAIN c.ops \cup DOMAIN c.skipped /\ c.heads \subseteq SchKos
    BY <2>3 DEF ChangeOK, Migrating
  <2>5. ASSUME NEW k \in c.heads, k \notin DOMAIN c.ops, k \notin erased, obj[k].ver = c.skipped[k]
        PROVE  obj'[k].sv = c.to
    BY <2>3, <2>4, <2>5 DEF ReadOK
  <2>. QED  BY <2>2, <2>3, <2>4, <2>5
<1>. QED  BY <1>1, <1>2, <1>3, SchSteps DEF MigrationWhole, NoneUndone

\* Schemas.  Whatever lookups fail, administrators cross and koids are erased and used
\* again, the constraints hold of what is stored and a migration is whole, with the
\* exceptions the properties name and no others.
THEOREM SchemasKept == SchSpec => SchemasPromise
<1>. DEFINE Inv == SchInv /\ schFaults \in Nat
<1>1. SchInit => Inv
  BY SchInitial DEF SchInit
<1>2. Inv /\ [SchNext]_schVars => Inv'
  BY SchSteps, SchCounts
<1>3. Inv /\ Inv' /\ [SchNext]_schVars =>
         [/\ (SchTypeOK /\ TargetExclusive /\ RegistryCurrent)'
          /\ UniqueKept /\ MigrationWhole /\ NoneUndone]_schVars
  BY SchPromised
<1>. HIDE DEF Inv
<1>. QED  BY <1>1, <1>2, <1>3, PTL DEF SchSpec, SchemasPromise

-----------------------------------------------------------------------------
(* Import *)

ImpObj == [ver : Nat, val : Contents \cup {NoRow}, type : Tables \cup {0}, live : BOOLEAN]
Imp(read) == [pc : {"idle", "read", "done"}, kind : Runners, run : 0 .. MaxImports,
              fresh : BOOLEAN, tables : SUBSET Tables, unread : SUBSET Tables, read : {read},
              cut : SUBSET Tables, puts : SUBSET Rows, present : SUBSET Rows]

ImpShape ==
    /\ src \in [Rows -> Contents \cup {NoRow}]
    /\ kos \in [Rows -> ImpObj]
    /\ rowKeys \subseteq (0 .. MaxImports) \X Tables \X Rows
    /\ imp \in Imp(imp.read)
    /\ DOMAIN imp.read \subseteq Rows
    /\ \A r \in DOMAIN imp.read :
          imp.read[r].val \in Contents \cup {NoRow} /\ imp.read[r].type \in Tables
    /\ runIds \in Seq(Nat) /\ marked \subseteq 1 .. MaxImports
    /\ srcChanges \in Nat

\* A run of a sink has put every row it read and has not left to put, and a row that it
\* looked for in a table and has not found there was gone from it, or the read was short.
RunInv ==
    /\ imp.puts \subseteq DOMAIN imp.read /\ imp.present \subseteq DOMAIN imp.read
    /\ imp.pc # "idle" => imp.run \in DOMAIN runIds
    /\ imp.pc # "idle" => \A t \in Tables, r \in Rows : t \notin src[r].tabs => <<t, r>> \in gone
    /\ imp.unread \subseteq imp.tables
    /\ imp.cut # {} => imp.kind = "mongodb"
    /\ \A r \in DOMAIN imp.read : imp.read[r].type \in imp.tables \ imp.unread
    /\ Sink =>
          /\ imp.present = DOMAIN imp.read \ imp.puts
          /\ \A t \in imp.tables \ imp.unread, r \in Rows :
                r \in DOMAIN imp.read \/ <<t, r>> \in gone \/ t \in imp.cut
          /\ imp.pc = "done" => imp.puts = {}

\* Rows that are not nodes stay with their table.
HomeInv ==
    imp.kind # "neo4j" =>
        \A r \in Rows : /\ src[r].tabs \subseteq {TableOf[r]}
                        /\ r \in DOMAIN imp.read => imp.read[r].type = TableOf[r]
                        /\ kos[r].live => kos[r].type = TableOf[r]

\* The source has not changed since run id n was first used.
StillFrom(n) == runIds[n] = srcChanges

\* What is held under a run id, and read by the run under way, is the source as it
\* still is if it has not changed since an id was first used.
SourceInv ==
    /\ \A n \in DOMAIN runIds : runIds[n] <= srcChanges
    /\ \A n \in DOMAIN runIds : StillFrom(n) => \A r \in DOMAIN imp.read : imp.read[r].val = src[r]
    /\ \A n \in 1 .. MaxImports, t \in Tables, r \in Rows : <<n, t, r>> \in rowKeys =>
          n \in DOMAIN runIds /\ (StillFrom(n) => kos[r].val = src[r])

\* A fresh run finds no key of its own, and what a fresh run or a retry over an
\* unchanged source has put is in the store.
PutInv ==
    Sink /\ imp.pc # "idle" =>
        /\ imp.fresh => \A t \in Tables, r \in Rows : <<imp.run, t, r>> \in rowKeys =>
                            imp.unread = {} /\ r \notin imp.puts
        /\ imp.fresh \/ StillFrom(imp.run) =>
              \A r \in DOMAIN imp.read \ imp.puts : kos[r].val = imp.read[r].val

ImpInv == ImpShape /\ RunInv /\ HomeInv /\ SourceInv /\ PutInv /\ PrunedWhereRead

LEMMA ImpInitial == ImpInit => ImpInv
<1>. SUFFICES ASSUME ImpInit PROVE ImpInv
  OBVIOUS
<1>1. src \in [Rows -> Contents] /\ \A r \in Rows : MayList(imp.kind, r, src[r].tabs)
  BY DEF ImpInit
<1>2. PICK kind \in Runners : imp = ImpIdle(kind)
  BY DEF ImpInit
<1>3. /\ imp.pc = "idle" /\ imp.kind = kind /\ imp.run = 0 /\ imp.fresh = TRUE /\ imp.tables = {}
      /\ imp.unread = {} /\ imp.read = <<>> /\ imp.cut = {} /\ imp.puts = {} /\ imp.present = {}
  BY <1>2 DEF ImpIdle, NoReads
<1>4. DOMAIN imp.read = {}
  BY <1>3
<1>5. ImpShape
  <2>1. kos \in [Rows -> ImpObj]
    BY DEF ImpInit, NoObj, ImpObj
  <2>2. imp \in Imp(imp.read)
    <3>1. 0 \in 0 .. MaxImports
      BY ImportAssumption
    <3>. QED  BY <1>2, <1>3, <3>1 DEF ImpIdle, Imp
  <2>3. rowKeys = {} /\ runIds = <<>> /\ marked = {} /\ gone = {} /\ srcChanges = 0
    BY DEF ImpInit
  <2>4. runIds \in Seq(Nat) /\ srcChanges \in Nat
    BY <2>3
  <2>5. src \in [Rows -> Contents \cup {NoRow}]
    BY <1>1
  <2>. QED  BY <1>4, <2>1, <2>2, <2>3, <2>4, <2>5 DEF ImpShape, Imp, ImpObj
<1>6. RunInv
  BY <1>3, <1>4 DEF RunInv
<1>7. SourceInv
  <2>1. DOMAIN runIds = {} /\ rowKeys = {}
    BY DEF ImpInit
  <2>. QED  BY <2>1 DEF SourceInv
<1>8. PutInv /\ PrunedWhereRead
  BY <1>3 DEF PutInv, PrunedWhereRead
<1>9. HomeInv
  BY <1>1, <1>4 DEF HomeInv, MayList, ImpInit, NoObj
<1>. QED  BY <1>5, <1>6, <1>7, <1>8, <1>9 DEF ImpInv

\* The fields of the import process.
LEMMA ImpTyped ==
    ASSUME ImpShape
    PROVE  /\ imp.pc \in {"idle", "read", "done"} /\ imp.kind \in Runners /\ imp.run \in 0 .. MaxImports
           /\ imp.fresh \in BOOLEAN /\ imp.tables \subseteq Tables /\ imp.unread \subseteq Tables
           /\ imp.cut \subseteq Tables /\ imp.puts \subseteq Rows /\ imp.present \subseteq Rows
BY DEF ImpShape, Imp, ImpObj

LEMMA ImpSrcChanges ==
    ASSUME ImpInv, NEW r \in Rows, NEW v \in Contents \cup {NoRow}, SrcChange(r, v)
    PROVE  ImpInv'
<1>1. /\ UNCHANGED <<kos, rowKeys, imp, runIds, marked>> /\ srcChanges' = srcChanges + 1
      /\ srcChanges \in Nat
      /\ \A q \in Rows : src'[q] = IF q = r THEN v ELSE src[q]
      /\ gone' = gone \cup {<<t, r>> : t \in Tables \ v.tabs}
      /\ (v # NoRow => MayList(imp.kind, r, v.tabs)) /\ (Sink' <=> Sink)
  BY DEF Sink, SrcChange, ImpInv, ImpShape, Imp, ImpObj
<1>2. \A n \in DOMAIN runIds : runIds[n] \in Nat /\ runIds[n] <= srcChanges
  BY DEF ImpInv, ImpShape, SourceInv, Imp, ImpObj
<1>3. \A n \in DOMAIN runIds : runIds[n] <= srcChanges' /\ runIds[n] # srcChanges'
  BY <1>1, <1>2
<1>4. ImpShape'
  <2>1. src' \in [Rows -> Contents \cup {NoRow}]
    BY DEF SrcChange, ImpInv, ImpShape, Imp, ImpObj
  <2>. QED  BY <1>1, <2>1 DEF ImpInv, ImpShape, Imp, ImpObj
<1>5. RunInv'
  <2>1. imp.pc # "idle" => \A t \in Tables, q \in Rows : t \notin src'[q].tabs => <<t, q>> \in gone'
    BY <1>1 DEF ImpInv, RunInv
  <2>. QED  BY <1>1, <2>1 DEF ImpInv, RunInv
<1>6. SourceInv'
  BY <1>1, <1>3 DEF ImpInv, SourceInv, StillFrom
<1>9. HomeInv'
  BY <1>1 DEF ImpInv, HomeInv, MayList, NoRow
<1>7. PutInv'
  <2>1. imp.pc # "idle" => imp.run \in DOMAIN runIds
    BY DEF ImpInv, RunInv
  <2>. QED  BY <1>1, <1>3, <2>1 DEF ImpInv, PutInv, StillFrom
<1>8. PrunedWhereRead'
  BY <1>1 DEF ImpInv, PrunedWhereRead
<1>. QED  BY <1>4, <1>5, <1>6, <1>7, <1>8, <1>9 DEF ImpInv

LEMMA ImpStarts ==
    ASSUME ImpInv, NEW run \in 1 .. MaxImports, NEW ts \in {Tables} \cup {{t} : t \in Tables},
           StartImport(run, ts)
    PROVE  ImpInv'
<1>1. /\ UNCHANGED <<src, kos, rowKeys, marked, srcChanges>> /\ srcChanges \in Nat
      /\ run \in 1 .. (Len(runIds) + 1) /\ gone' = {x \in Tables \X Rows : x[1] \notin src[x[2]].tabs}
  BY DEF StartImport, ImpInv, ImpShape, Imp, ImpObj
<1>2. runIds \in Seq(Nat) /\ Len(runIds) \in Nat /\ DOMAIN runIds = 1 .. Len(runIds)
  BY DEF ImpInv, ImpShape, Imp, ImpObj
<1>3. /\ imp'.pc = "read" /\ imp'.kind = imp.kind /\ imp'.run = run /\ imp'.fresh = (run > Len(runIds))
      /\ imp'.tables = ts /\ imp'.unread = ts /\ imp'.read = <<>> /\ imp'.puts = {} /\ imp'.present = {}
      /\ imp'.cut = {} /\ (Sink' <=> Sink)
  BY DEF Sink, StartImport, ImpIdle, NoReads
<1>4. DOMAIN imp'.read = {} /\ ts \subseteq Tables /\ run \in 0 .. MaxImports
  BY <1>3
<1>5. /\ runIds' \in Seq(Nat) /\ DOMAIN runIds \subseteq DOMAIN runIds' /\ run \in DOMAIN runIds'
      /\ \A n \in DOMAIN runIds : runIds'[n] = runIds[n]
      /\ \A n \in DOMAIN runIds' \ DOMAIN runIds : runIds'[n] = srcChanges
  <2>1. CASE run > Len(runIds)
    <3>1. runIds' = Append(runIds, srcChanges) /\ run = Len(runIds) + 1
      BY <1>1, <1>2, <2>1 DEF StartImport
    <3>. QED  BY <1>1, <1>2, <3>1
  <2>2. CASE ~(run > Len(runIds))
    <3>1. runIds' = runIds
      BY <2>2 DEF StartImport
    <3>. QED  BY <1>1, <1>2, <2>2, <3>1
  <2>. QED  BY <2>1, <2>2
<1>6. ImpShape'
  <2>1. imp.kind \in Runners
    BY ImpTyped DEF ImpInv
  <2>2. imp' = [pc |-> "read", kind |-> imp.kind, run |-> run, fresh |-> run > Len(runIds), tables |-> ts,
                unread |-> ts, read |-> NoReads, cut |-> {}, puts |-> {}, present |-> {}]
    BY DEF StartImport, ImpIdle
  <2>3. (run > Len(runIds)) \in BOOLEAN
    OBVIOUS
  <2>4. imp' \in Imp(imp'.read)
    BY <1>4, <2>1, <2>2, <2>3 DEF Imp
  <2>. QED  BY <1>1, <1>4, <1>5, <2>4 DEF ImpInv, ImpShape, Imp, ImpObj
<1>7. RunInv'
  BY <1>1, <1>3, <1>4, <1>5 DEF RunInv
<1>8. SourceInv'
  <2>1. \A n \in DOMAIN runIds' : runIds'[n] <= srcChanges'
    BY <1>1, <1>2, <1>5 DEF ImpInv, SourceInv
  <2>2. \A n \in 1 .. MaxImports, t \in Tables, r \in Rows : <<n, t, r>> \in rowKeys =>
            n \in DOMAIN runIds /\ (runIds[n] = srcChanges => kos[r].val = src[r])
    BY DEF ImpInv, SourceInv, StillFrom
  <2>. QED  BY <1>1, <1>4, <1>5, <2>1, <2>2 DEF SourceInv, StillFrom
<1>9. PutInv'
  <2>1. imp'.fresh => \A t \in Tables, r \in Rows : <<run, t, r>> \notin rowKeys
    <3>1. \A t \in Tables, r \in Rows : <<run, t, r>> \in rowKeys => run \in DOMAIN runIds
      BY DEF ImpInv, SourceInv
    <3>2. run > Len(runIds) => run \notin DOMAIN runIds
      BY <1>2
    <3>. QED  BY <1>3, <3>1, <3>2
  <2>. QED  BY <1>1, <1>3, <1>4, <2>1 DEF PutInv
<1>10. PrunedWhereRead'
  BY <1>3 DEF PrunedWhereRead
<1>11. HomeInv'
  BY <1>1, <1>3, <1>4 DEF ImpInv, HomeInv
<1>. QED  BY <1>6, <1>7, <1>8, <1>9, <1>10, <1>11 DEF ImpInv

\* What a read of a table leaves, whole or short.
LEMMA ImpReads ==
    ASSUME ImpInv, NEW t \in Tables, MayRead(t), NEW rows \in SUBSET RowsOf(t), NEW cut,
           cut = {} \/ (cut = {t} /\ imp.kind = "mongodb"),
           Sink /\ cut = {} => rows = RowsOf(t),
           imp' = [ReadRows(t, rows) EXCEPT !.cut = imp.cut \cup cut],
           UNCHANGED <<src, kos, rowKeys, runIds, marked, gone, srcChanges>>
    PROVE  ImpInv'
<1>1. UNCHANGED <<src, kos, rowKeys, runIds, marked, gone, srcChanges>> /\ imp.pc = "read" /\ t \in imp.unread
  BY DEF MayRead
<1>. DEFINE new == rows \ DOMAIN imp.read
            read2 == [r \in DOMAIN imp.read \cup new |->
                        IF r \in new THEN [val |-> src[r], type |-> t] ELSE imp.read[r]]
<1>2. DOMAIN read2 = new \cup DOMAIN imp.read
  OBVIOUS
<1>3. /\ \A r \in new : read2[r].val = src[r] /\ read2[r].type = t
      /\ \A r \in DOMAIN imp.read : read2[r] = imp.read[r]
  OBVIOUS
<1>4. imp' = [[imp EXCEPT !.unread = @ \ {t}, !.read = read2, !.puts = @ \cup new] EXCEPT !.cut = imp.cut \cup cut]
  BY DEF ReadRows
<1>. HIDE DEF read2
<1>5. /\ imp'.pc = "read" /\ imp'.kind = imp.kind /\ imp'.run = imp.run /\ imp'.fresh = imp.fresh
      /\ imp'.tables = imp.tables /\ imp'.unread = imp.unread \ {t} /\ imp'.read = read2
      /\ imp'.puts = imp.puts \cup new /\ imp'.present = imp.present /\ imp'.cut = imp.cut \cup cut
  BY <1>1, <1>4 DEF ImpInv, ImpShape, Imp, ImpObj
<1>6. RowsOf(t) = {r \in Rows : t \in src[r].tabs} /\ (Sink' <=> Sink)
  BY <1>5 DEF RowsOf, Sink
<1>7. DOMAIN imp.read \subseteq Rows /\ \A r \in Rows : src[r] \in Contents \cup {NoRow}
  BY DEF ImpInv, ImpShape, Imp, ImpObj
<1>8. new \subseteq Rows /\ \A r \in DOMAIN imp.read : r \notin new
  BY <1>6
<1>9. ImpShape'
  <2>1. imp' \in Imp(imp'.read)
    <3>1. imp.puts \cup new \subseteq Rows /\ imp.cut \cup cut \subseteq Tables
      BY <1>8, ImpTyped DEF ImpInv
    <3>2. imp \in Imp(imp.read)
      BY DEF ImpInv, ImpShape, Imp, ImpObj
    <3>. QED  BY <1>4, <1>5, <3>1, <3>2 DEF Imp
  <2>2. /\ DOMAIN imp'.read \subseteq Rows
        /\ \A r \in DOMAIN imp'.read :
              imp'.read[r].val \in Contents \cup {NoRow} /\ imp'.read[r].type \in Tables
    <3>1. \A r \in DOMAIN imp.read :
              imp.read[r].val \in Contents \cup {NoRow} /\ imp.read[r].type \in Tables
      BY DEF ImpInv, ImpShape, Imp, ImpObj
    <3>. QED  BY <1>2, <1>3, <1>5, <1>7, <1>8, <3>1
  <2>. QED  BY <1>1, <2>1, <2>2 DEF ImpInv, ImpShape, Imp, ImpObj
<1>10. RunInv'
  <2>1. \A r \in DOMAIN imp'.read : imp'.read[r].type \in imp'.tables \ imp'.unread
    <3>1. \A r \in DOMAIN imp.read : imp.read[r].type \in imp.tables \ imp.unread
      BY DEF ImpInv, RunInv
    <3>2. t \in imp.tables
      BY <1>1 DEF ImpInv, RunInv
    <3>. QED  BY <1>1, <1>2, <1>3, <1>5, <3>1, <3>2
  <2>2. Sink' => imp'.present = DOMAIN imp'.read \ imp'.puts
    BY <1>2, <1>5, <1>6, <1>8 DEF ImpInv, RunInv
  <2>3. ASSUME Sink, NEW u \in imp'.tables \ imp'.unread, NEW r \in Rows
        PROVE  r \in DOMAIN imp'.read \/ <<u, r>> \in gone' \/ u \in imp'.cut
    <3>1. CASE u # t
      BY <1>1, <1>2, <1>5, <2>3, <3>1 DEF ImpInv, RunInv
    <3>2. CASE u = t
      <4>1. t \notin src[r].tabs => <<t, r>> \in gone
        BY <1>1 DEF ImpInv, RunInv
      <4>2. cut = {} => (t \in src[r].tabs => r \in new \cup DOMAIN imp.read)
        BY <1>6, <2>3
      <4>. QED  BY <1>1, <1>2, <1>5, <3>2, <4>1, <4>2
    <3>. QED  BY <3>1, <3>2
  <2>4. imp'.puts \subseteq DOMAIN imp'.read /\ imp'.present \subseteq DOMAIN imp'.read
    BY <1>2, <1>5 DEF ImpInv, RunInv
  <2>5. imp'.run \in DOMAIN runIds' /\ \A u \in Tables, r \in Rows : u \notin src'[r].tabs => <<u, r>> \in gone'
    BY <1>1, <1>5 DEF ImpInv, RunInv
  <2>6. imp'.unread \subseteq imp'.tables /\ (imp'.cut # {} => imp'.kind = "mongodb")
    BY <1>5 DEF ImpInv, RunInv
  <2>. QED  BY <1>5, <1>6, <2>1, <2>2, <2>3, <2>4, <2>5, <2>6 DEF RunInv
<1>11. SourceInv'
  <2>1. \A n \in DOMAIN runIds : StillFrom(n) => \A r \in DOMAIN read2 : read2[r].val = src[r]
    BY <1>2, <1>3 DEF ImpInv, SourceInv
  <2>. QED  BY <1>1, <1>5, <2>1 DEF ImpInv, SourceInv, StillFrom
<1>12. PutInv'
  <2>. SUFFICES ASSUME Sink
                PROVE  /\ imp.fresh => \A u \in Tables, r \in Rows : <<imp.run, u, r>> \in rowKeys =>
                                            imp'.unread = {} /\ r \notin imp'.puts
                       /\ imp.fresh \/ StillFrom(imp.run) =>
                             \A r \in DOMAIN read2 \ imp'.puts : kos[r].val = read2[r].val
    BY <1>1, <1>5, <1>6 DEF PutInv, StillFrom
  <2>1. imp.fresh => \A u \in Tables, r \in Rows : <<imp.run, u, r>> \notin rowKeys
    BY <1>1 DEF ImpInv, PutInv
  <2>2. imp.fresh \/ StillFrom(imp.run) => \A r \in DOMAIN imp.read \ imp.puts : kos[r].val = imp.read[r].val
    BY <1>1 DEF ImpInv, PutInv
  <2>. QED  BY <1>2, <1>3, <1>5, <2>1, <2>2
<1>13. PrunedWhereRead'
  BY <1>5 DEF PrunedWhereRead
<1>14. HomeInv'
  <2>. SUFFICES ASSUME imp.kind # "neo4j", NEW r \in Rows
                PROVE  /\ src[r].tabs \subseteq {TableOf[r]}
                       /\ r \in DOMAIN read2 => read2[r].type = TableOf[r]
                       /\ kos[r].live => kos[r].type = TableOf[r]
    BY <1>1, <1>5 DEF HomeInv
  <2>. QED  BY <1>2, <1>3, <1>6 DEF ImpInv, HomeInv
<1>. QED  BY <1>9, <1>10, <1>11, <1>12, <1>13, <1>14 DEF ImpInv

\* A row that a sink's run puts is in the store as it was read, when the run is fresh
\* or the source has not changed since its id was first used.
LEMMA PutLands ==
    ASSUME ImpInv, NEW r \in Rows, PutRow(r), Sink,
           imp.fresh \/ StillFrom(imp.run)
    PROVE  kos'[r].val = imp.read[r].val
<1>1. imp.pc = "read" /\ r \in imp.puts /\ r \in DOMAIN imp.read
  BY DEF PutRow, MayPut, ImpInv, RunInv
<1>2. CASE Commits(r)
  BY <1>2 DEF PutRow, Remembered, ImpInv, ImpShape, Imp, ImpObj
<1>3. CASE ~Commits(r)
  <2>1. kos' = kos /\ (Identical(r) \/ <<imp.run, imp.read[r].type, r>> \in rowKeys)
    BY <1>3 DEF PutRow, Commits, KeyOf, Sink, Sinks
  <2>4. imp.read[r].type \in Tables
    BY <1>1 DEF ImpInv, ImpShape, Imp, ImpObj
  <2>2. CASE Identical(r)
    BY <2>1, <2>2 DEF Identical
  <2>3. CASE <<imp.run, imp.read[r].type, r>> \in rowKeys
    <3>1. ~imp.fresh
      BY <1>1, <2>3, <2>4 DEF ImpInv, PutInv
    <3>2. StillFrom(imp.run) /\ imp.run \in DOMAIN runIds
      BY <1>1, <3>1 DEF ImpInv, RunInv
    <3>3. imp.run \in 1 .. MaxImports
      <4>1. imp.run \in 0 .. MaxImports /\ runIds \in Seq(Nat)
        BY ImpTyped DEF ImpInv, ImpShape, Imp, ImpObj
      <4>2. imp.run \in 1 .. Len(runIds) /\ Len(runIds) \in Nat
        BY <3>2, <4>1
      <4>. QED  BY <4>1, <4>2, ImportAssumption
    <3>4. kos[r].val = src[r]
      BY <2>3, <2>4, <3>2, <3>3 DEF ImpInv, SourceInv
    <3>5. imp.read[r].val = src[r]
      BY <1>1, <3>2 DEF ImpInv, SourceInv
    <3>. QED  BY <2>1, <3>4, <3>5
  <2>. QED  BY <2>1, <2>2, <2>3
<1>. QED  BY <1>2, <1>3

LEMMA ImpPuts ==
    ASSUME ImpInv, NEW r \in Rows, PutRow(r)
    PROVE  ImpInv'
<1>1. /\ UNCHANGED <<src, runIds, marked, gone, srcChanges>> /\ MayPut /\ imp.pc = "read"
      /\ r \in imp.puts /\ r \in DOMAIN imp.read
  BY DEF PutRow, MayPut, ImpInv, RunInv
<1>2. imp' = [imp EXCEPT !.puts = @ \ {r}, !.present = imp.present \cup {r}]
  BY DEF PutRow, PresentAfter
<1>3. /\ imp'.pc = "read" /\ imp'.kind = imp.kind /\ imp'.run = imp.run /\ imp'.fresh = imp.fresh
      /\ imp'.tables = imp.tables /\ imp'.unread = imp.unread /\ imp'.read = imp.read
      /\ imp'.puts = imp.puts \ {r} /\ imp'.present = imp.present \cup {r}
      /\ imp'.cut = imp.cut /\ (Sink' <=> Sink)
  BY <1>1, <1>2 DEF Sink, ImpInv, ImpShape, Imp, ImpObj
<1>4. \A q \in Rows : q # r => kos'[q] = kos[q]
  BY DEF PutRow, ImpInv, ImpShape, Imp, ImpObj
<1>5. rowKeys' = rowKeys \/ (rowKeys' = rowKeys \cup {KeyOf(r)} /\ kos'[r].val = imp.read[r].val)
  BY DEF PutRow, Remembered, ImpInv, ImpShape, Imp, ImpObj
<1>6. kos'[r].val = kos[r].val \/ kos'[r].val = imp.read[r].val
  BY DEF PutRow, Remembered, ImpInv, ImpShape, Imp, ImpObj
<1>7. KeyOf(r) \in (0 .. MaxImports) \X Tables \X Rows
  <2>1. imp.run \in 0 .. MaxImports /\ 0 \in 0 .. MaxImports /\ imp.read[r].type \in Tables
    BY <1>1, ImpTyped, ImportAssumption DEF ImpInv, ImpShape, Imp, ImpObj
  <2>. QED  BY <2>1 DEF KeyOf
<1>8. ImpShape'
  <2>1. kos' \in [Rows -> ImpObj]
    <3>1. /\ kos \in [Rows -> ImpObj]
          /\ imp.read[r].val \in Contents \cup {NoRow} /\ imp.read[r].type \in Tables
      BY <1>1 DEF ImpInv, ImpShape, Imp, ImpObj
    <3>2. Remembered(r) \in ImpObj
      <4>1. kos[r].ver \in Nat /\ kos[r].live \in BOOLEAN
        BY <3>1 DEF ImpObj
      <4>2. kos[r].ver + 1 \in Nat /\ (kos[r].ver = 0 \/ kos[r].live) \in BOOLEAN
        BY <4>1
      <4>. QED  BY <3>1, <4>2 DEF Remembered, ImpObj
    <3>. QED  BY <3>1, <3>2 DEF PutRow
  <2>2. rowKeys' \subseteq (0 .. MaxImports) \X Tables \X Rows
    BY <1>5, <1>7 DEF ImpInv, ImpShape, Imp, ImpObj
  <2>3. imp' \in Imp(imp'.read)
    <3>1. imp \in Imp(imp.read)
      BY DEF ImpInv, ImpShape, Imp, ImpObj
    <3>2. imp.puts \ {r} \subseteq Rows /\ imp.present \cup {r} \subseteq Rows
      BY ImpTyped DEF ImpInv
    <3>. QED  BY <1>2, <1>3, <3>1, <3>2 DEF Imp
  <2>. QED  BY <1>1, <1>3, <2>1, <2>2, <2>3 DEF ImpInv, ImpShape, Imp, ImpObj
<1>9. RunInv'
  <2>1. Sink' => imp'.present = DOMAIN imp'.read \ imp'.puts
    BY <1>1, <1>3 DEF ImpInv, RunInv
  <2>. QED  BY <1>1, <1>3, <2>1 DEF ImpInv, RunInv
<1>10. SourceInv'
  <2>1. ASSUME NEW n \in 1 .. MaxImports, NEW t \in Tables, NEW q \in Rows, <<n, t, q>> \in rowKeys'
        PROVE  n \in DOMAIN runIds /\ (StillFrom(n) => kos'[q].val = src[q])
    <3>1. n \in DOMAIN runIds
      <4>1. CASE <<n, t, q>> \in rowKeys
        BY <4>1 DEF ImpInv, SourceInv
      <4>2. CASE <<n, t, q>> = KeyOf(r)
        <5>1. n # 0
          OBVIOUS
        <5>2. n = imp.run
          BY <4>2, <5>1 DEF KeyOf
        <5>. QED  BY <1>1, <5>2 DEF ImpInv, RunInv
      <4>. QED  BY <1>5, <2>1, <4>1, <4>2
    <3>2. ASSUME StillFrom(n) PROVE kos'[q].val = src[q]
      <4>1. imp.read[r].val = src[r]
        BY <1>1, <3>1, <3>2 DEF ImpInv, SourceInv
      <4>2. CASE <<n, t, q>> \in rowKeys
        <5>1. kos[q].val = src[q]
          BY <3>2, <4>2 DEF ImpInv, SourceInv
        <5>. QED  BY <1>4, <1>6, <4>1, <5>1
      <4>3. CASE <<n, t, q>> \notin rowKeys
        <5>1. <<n, t, q>> = KeyOf(r) /\ kos'[r].val = imp.read[r].val
          BY <1>5, <2>1, <4>3
        <5>2. q = r
          BY <5>1 DEF KeyOf
        <5>. QED  BY <4>1, <5>1, <5>2
      <4>. QED  BY <4>2, <4>3
    <3>. QED  BY <3>1, <3>2
  <2>. QED  BY <1>1, <1>3, <2>1 DEF ImpInv, SourceInv, StillFrom
<1>11. PutInv'
  <2>. SUFFICES ASSUME Sink
                PROVE  /\ imp.fresh => \A t \in Tables, q \in Rows : <<imp.run, t, q>> \in rowKeys' =>
                                            imp.unread = {} /\ q \notin imp'.puts
                       /\ imp.fresh \/ StillFrom(imp.run) =>
                             \A q \in DOMAIN imp.read \ imp'.puts : kos'[q].val = imp.read[q].val
    BY <1>1, <1>3 DEF PutInv, StillFrom
  <2>1. imp.unread = {} /\ KeyOf(r) = <<imp.run, imp.read[r].type, r>>
    BY <1>1 DEF MayPut, KeyOf
  <2>2. imp.fresh => \A t \in Tables, q \in Rows : <<imp.run, t, q>> \in rowKeys' => q \notin imp'.puts
    BY <1>1, <1>3, <1>5, <2>1 DEF ImpInv, PutInv
  <2>3. imp.fresh \/ StillFrom(imp.run) =>
           \A q \in DOMAIN imp.read \ imp.puts : kos[q].val = imp.read[q].val
    BY <1>1 DEF ImpInv, PutInv
  <2>4. imp.fresh \/ StillFrom(imp.run) => kos'[r].val = imp.read[r].val
    BY PutLands
  <2>5. DOMAIN imp.read \subseteq Rows
    BY DEF ImpInv, ImpShape, Imp, ImpObj
  <2>6. ASSUME imp.fresh \/ StillFrom(imp.run), NEW q \in DOMAIN imp.read \ imp'.puts
        PROVE  kos'[q].val = imp.read[q].val
    BY <1>3, <1>4, <2>3, <2>4, <2>5, <2>6
  <2>. QED  BY <2>1, <2>2, <2>6
<1>12. PrunedWhereRead'
  BY <1>3 DEF PrunedWhereRead
<1>13. HomeInv'
  <2>1. kos'[r] = kos[r] \/ kos'[r].type = imp.read[r].type
    BY DEF PutRow, Remembered, ImpInv, ImpShape, Imp, ImpObj
  <2>. QED  BY <1>1, <1>3, <1>4, <2>1 DEF ImpInv, HomeInv
<1>. QED  BY <1>8, <1>9, <1>10, <1>11, <1>12, <1>13 DEF ImpInv

LEMMA ImpPrunes ==
    ASSUME ImpInv, NEW r \in Rows, PruneRow(r)
    PROVE  ImpInv'
<1>1. UNCHANGED <<src, rowKeys, imp, runIds, marked, gone, srcChanges>> /\ imp.pc = "read"
  BY DEF PruneRow, AllPut
<1>2. /\ kos \in [Rows -> ImpObj]
      /\ kos' = [kos EXCEPT ![r].ver = @ + 1, ![r].live = FALSE]
  BY DEF PruneRow, ImpInv, ImpShape, Imp, ImpObj
<1>3. \A q \in Rows : kos'[q].val = kos[q].val /\ kos'[q].type = kos[q].type
  BY <1>2 DEF ImpObj
<1>8. \A q \in Rows : kos'[q].live => kos[q].live
  BY <1>2 DEF ImpObj
<1>4. ImpShape'
  <2>1. PICK n : n = kos[r].ver + 1
    OBVIOUS
  <2>2. n \in Nat
    BY <1>2, <2>1 DEF ImpObj
  <2>3. PICK b \in BOOLEAN : b = FALSE
    OBVIOUS
  <2>. PICK s : s = [kos[r] EXCEPT !.ver = n, !.live = b]
    OBVIOUS
  <2>4. kos' \in [Rows -> ImpObj]
    <3>1. s \in ImpObj
      BY <1>2, <2>2 DEF ImpObj
    <3>2. kos' = [kos EXCEPT ![r] = s]
      BY <1>2, <2>1, <2>3
    <3>. QED  BY <1>2, <3>1, <3>2
  <2>. QED  BY <1>1, <2>4 DEF ImpInv, ImpShape, Imp, ImpObj
<1>5. RunInv' /\ PrunedWhereRead' /\ HomeInv'
  BY <1>1, <1>3, <1>8 DEF ImpInv, RunInv, PrunedWhereRead, HomeInv, Sink
<1>6. SourceInv'
  BY <1>1, <1>3 DEF ImpInv, SourceInv, StillFrom
<1>7. PutInv'
  <2>1. DOMAIN imp.read \subseteq Rows
    BY DEF ImpInv, ImpShape, Imp, ImpObj
  <2>2. Sink' <=> Sink
    BY <1>1 DEF Sink
  <2>. QED  BY <1>1, <1>3, <2>1, <2>2 DEF ImpInv, PutInv, StillFrom
<1>. QED  BY <1>4, <1>5, <1>6, <1>7 DEF ImpInv

LEMMA ImpFinishes ==
    ASSUME ImpInv, FinishImport
    PROVE  ImpInv'
<1>1. /\ UNCHANGED <<src, kos, rowKeys, runIds, marked, gone, srcChanges>>
      /\ imp.pc = "read" /\ imp.unread = {} /\ imp.puts = {} /\ (Sink => Stale = {})
  BY DEF FinishImport, AllPut
<1>2. /\ imp'.pc = "done" /\ imp'.kind = imp.kind /\ imp'.run = imp.run /\ imp'.fresh = imp.fresh
      /\ imp'.tables = imp.tables /\ imp'.unread = imp.unread /\ imp'.read = imp.read
      /\ imp'.puts = imp.puts /\ imp'.present = imp.present /\ imp'.cut = imp.cut /\ (Sink' <=> Sink)
  BY DEF Sink, FinishImport, ImpInv, ImpShape, Imp, ImpObj
<1>3. ImpShape'
  <2>1. imp' \in Imp(imp'.read)
    BY <1>2 DEF FinishImport, ImpInv, ImpShape, Imp, ImpObj
  <2>. QED  BY <1>1, <1>2, <2>1 DEF ImpInv, ImpShape, Imp, ImpObj
<1>4. RunInv' /\ HomeInv'
  BY <1>1, <1>2 DEF ImpInv, RunInv, HomeInv
<1>5. SourceInv' /\ PutInv'
  BY <1>1, <1>2 DEF ImpInv, SourceInv, PutInv, StillFrom
<1>6. PrunedWhereRead'
  <2>1. Sink => imp.present = DOMAIN imp.read
    BY <1>1 DEF ImpInv, RunInv
  <2>. QED  BY <1>1, <1>2, <2>1 DEF PrunedWhereRead, Stale, PresentAs, PresentTypes
<1>. QED  BY <1>3, <1>4, <1>5, <1>6 DEF ImpInv

\* A sink's run ends early, by an error or a kill.
LEMMA ImpEnds ==
    ASSUME ImpInv, imp' = ImpIdle(imp.kind), marked' \subseteq 1 .. MaxImports,
           UNCHANGED <<src, kos, rowKeys, runIds, gone, srcChanges>>
    PROVE  ImpInv'
<1>1. /\ imp'.pc = "idle" /\ imp'.kind = imp.kind /\ imp'.tables = {} /\ imp'.unread = {}
      /\ imp'.read = <<>> /\ imp'.puts = {} /\ imp'.present = {} /\ imp'.cut = {}
  BY DEF ImpIdle, NoReads
<1>2. DOMAIN imp'.read = {}
  BY <1>1
<1>3. ImpShape'
  <2>1. imp' \in Imp(imp'.read)
    <3>1. 0 \in 0 .. MaxImports /\ imp.kind \in Runners
      BY ImpTyped, ImportAssumption DEF ImpInv
    <3>. QED  BY <1>1, <3>1 DEF ImpIdle, Imp
  <2>. QED  BY <1>2, <2>1 DEF ImpInv, ImpShape, Imp, ImpObj
<1>4. RunInv' /\ PutInv' /\ PrunedWhereRead' /\ HomeInv'
  BY <1>1, <1>2 DEF RunInv, PutInv, PrunedWhereRead, ImpInv, HomeInv
<1>5. SourceInv'
  BY <1>2 DEF ImpInv, SourceInv, StillFrom
<1>. QED  BY <1>3, <1>4, <1>5 DEF ImpInv

LEMMA ImpErrs ==
    ASSUME ImpInv, ImportFails
    PROVE  ImpInv'
<1>1. imp.pc = "read" /\ UNCHANGED <<src, kos, rowKeys, runIds, gone, srcChanges>>
  BY DEF ImportFails
<1>2. CASE Sink
  <2>1. imp' = ImpIdle(imp.kind) /\ marked' = marked \cup {imp.run}
    BY <1>2 DEF ImportFails
  <2>2. imp.run \in 1 .. MaxImports
    <3>1. imp.run \in 0 .. MaxImports /\ runIds \in Seq(Nat) /\ imp.run \in DOMAIN runIds
      BY <1>1, ImpTyped DEF ImpInv, ImpShape, RunInv, Imp, ImpObj
    <3>2. imp.run \in 1 .. Len(runIds) /\ Len(runIds) \in Nat
      BY <3>1
    <3>. QED  BY <3>1, <3>2, ImportAssumption
  <2>3. marked' \subseteq 1 .. MaxImports
    BY <2>1, <2>2 DEF ImpInv, ImpShape, Imp, ImpObj
  <2>. QED  BY <1>1, <2>1, <2>3, ImpEnds
<1>3. CASE ~Sink
  <2>1. marked' = marked
    BY <1>3 DEF ImportFails
  <2>2. \/ \E r \in imp.puts : imp' = [imp EXCEPT !.puts = @ \ {r}]
        \/ \E t \in imp.unread : imp' = [imp EXCEPT !.unread = @ \ {t}]
    BY <1>3 DEF ImportFails
  <2>3. /\ imp'.pc = imp.pc /\ imp'.kind = imp.kind /\ imp'.run = imp.run /\ imp'.fresh = imp.fresh
        /\ imp'.tables = imp.tables /\ imp'.unread \subseteq imp.unread /\ imp'.read = imp.read
        /\ imp'.puts \subseteq imp.puts /\ imp'.present = imp.present /\ imp'.cut = imp.cut
    <3>. PICK i : i = imp
      OBVIOUS
    <3>1. imp \in Imp(i.read)
      BY DEF ImpInv, ImpShape, Imp, ImpObj
    <3>2. CASE \E r \in imp.puts : imp' = [imp EXCEPT !.puts = @ \ {r}]
      BY <3>1, <3>2 DEF Imp
    <3>3. CASE \E t \in imp.unread : imp' = [imp EXCEPT !.unread = @ \ {t}]
      BY <3>1, <3>3 DEF Imp
    <3>. QED  BY <2>2, <3>2, <3>3
  <2>4. ImpShape'
    <3>1. imp' \in Imp(imp'.read)
      BY <2>2, <2>3 DEF ImpInv, ImpShape, Imp, ImpObj
    <3>. QED  BY <1>1, <2>1, <2>3, <3>1 DEF ImpInv, ImpShape, Imp, ImpObj
  <2>5. RunInv' /\ HomeInv'
    BY <1>1, <1>3, <2>3 DEF ImpInv, RunInv, HomeInv, Sink
  <2>6. SourceInv'
    BY <1>1, <2>3 DEF ImpInv, SourceInv, StillFrom
  <2>7. PutInv' /\ PrunedWhereRead'
    BY <1>3, <2>3 DEF PutInv, PrunedWhereRead, Sink
  <2>. QED  BY <2>4, <2>5, <2>6, <2>7 DEF ImpInv
<1>. QED  BY <1>2, <1>3

LEMMA ImpSteps ==
    ASSUME ImpInv, [ImpNext]_impVars
    PROVE  ImpInv'
<1>1. CASE ImportKilled
  <2>1. imp' = ImpIdle(imp.kind) /\ marked' \subseteq 1 .. MaxImports
        /\ UNCHANGED <<src, kos, rowKeys, runIds, gone, srcChanges>>
    BY <1>1 DEF ImportKilled, ImpInv, ImpShape, Imp, ImpObj
  <2>. QED  BY <2>1, ImpEnds
<1>2. CASE UNCHANGED impVars
  BY <1>2 DEF impVars, ImpInv, ImpShape, RunInv, HomeInv, SourceInv, StillFrom, PutInv, PrunedWhereRead, Sink, Imp, ImpObj
<1>3. ASSUME NEW t \in Tables, ReadTable(t) PROVE ImpInv'
  <2>1. RowsOf(t) \in SUBSET RowsOf(t) /\ MayRead(t) /\ imp' = ReadRows(t, RowsOf(t))
        /\ UNCHANGED <<src, kos, rowKeys, runIds, marked, gone, srcChanges>>
    BY <1>3 DEF ReadTable
  <2>2. PICK none : none = {}
    OBVIOUS
  <2>3. imp' = [ReadRows(t, RowsOf(t)) EXCEPT !.cut = imp.cut \cup none]
    BY <2>1, <2>2 DEF ReadRows, ImpInv, ImpShape, Imp, ImpObj
  <2>. QED  BY <2>1, <2>2, <2>3, ImpReads
<1>4. ASSUME NEW t \in Tables, NEW rows \in SUBSET Rows, ReadShort(t, rows) PROVE ImpInv'
  <2>1. /\ rows \in SUBSET RowsOf(t) /\ MayRead(t) /\ imp.kind = "mongodb"
        /\ imp' = [ReadRows(t, rows) EXCEPT !.cut = @ \cup {t}]
        /\ UNCHANGED <<src, kos, rowKeys, runIds, marked, gone, srcChanges>>
    BY <1>4 DEF ReadShort
  <2>2. PICK cut : cut = {t}
    OBVIOUS
  <2>3. imp' = [ReadRows(t, rows) EXCEPT !.cut = imp.cut \cup cut]
    BY <2>1, <2>2 DEF ReadRows, ImpInv, ImpShape, Imp, ImpObj
  <2>. QED  BY <2>1, <2>2, <2>3, ImpReads
<1>. QED  BY <1>1, <1>2, <1>3, <1>4, ImpSrcChanges, ImpStarts, ImpPuts, ImpPrunes, ImpFinishes, ImpErrs
          DEF ImpNext

\* Only a prune takes an object's life.
LEMMA ImpPromised ==
    ASSUME ImpInv, ImpInv', [ImpNext]_impVars
    PROVE  (ImpTypeOK /\ ImportedCurrent /\ PrunedWhereRead)' /\ OutageKeeps
<1>1. ImpTypeOK'
  BY DEF ImpInv, ImpShape, RunInv, ImpTypeOK, Imp, ImpObj
<1>2. ImportedCurrent'
  BY DEF ImpInv, RunInv, PutInv, StillFrom, ImportedCurrent
<1>3. PrunedWhereRead'
  BY DEF ImpInv
<1>4. OutageKeeps
  <2>. SUFFICES ASSUME NEW r \in Rows, kos[r].live, ~kos'[r].live
                PROVE  \/ <<kos[r].type, r>> \in gone
                       \/ imp.kind = "mongodb" /\ kos[r].type \in imp.cut
                       \/ imp.kind = "neo4j" /\ r \in DOMAIN imp.read /\ imp.read[r].type # kos[r].type
    BY DEF OutageKeeps
  <2>1. kos \in [Rows -> ImpObj] /\ kos' # kos
    BY DEF ImpInv, ImpShape, Imp, ImpObj
  <2>2. ASSUME NEW q \in Rows, PutRow(q) PROVE FALSE
    BY <2>1, <2>2 DEF PutRow, Remembered, ImpObj
  <2>3. PICK q \in Rows : PruneRow(q)
    BY <2>1, <2>2 DEF ImpNext, impVars, SrcChange, StartImport, ReadTable, ReadShort, FinishImport, ImportFails, ImportKilled
  <2>4. q = r
    BY <2>1, <2>3 DEF PruneRow, ImpObj
  <2>5. r \in Stale /\ Sink /\ imp.puts = {}
    BY <2>3, <2>4 DEF PruneRow, AllPut
  <2>6. imp.present = DOMAIN imp.read
    BY <2>5 DEF ImpInv, RunInv
  <2>7. kos[r].type \in imp.tables \ imp.unread /\ ~(r \in DOMAIN imp.read /\ imp.read[r].type = kos[r].type)
    BY <2>5, <2>6 DEF Stale, PresentAs, PresentTypes, ImpInv, RunInv
  <2>8. CASE r \in DOMAIN imp.read
    BY <2>7, <2>8 DEF ImpInv, HomeInv
  <2>9. CASE r \notin DOMAIN imp.read
    BY <2>5, <2>7, <2>9 DEF ImpInv, RunInv
  <2>. QED  BY <2>8, <2>9
<1>. QED  BY <1>1, <1>2, <1>3, <1>4

\* Whatever is repeated, cut off or refused, a completed import is current, and prunes
\* only what the source did not list, short reads of MongoDB and relabelled nodes of Neo4j
\* apart.
THEOREM ImportsKept == ImpSpec => ImportPromise
<1>1. ImpInit => ImpInv
  BY ImpInitial
<1>2. ImpInv /\ [ImpNext]_impVars => ImpInv'
  BY ImpSteps
<1>3. ImpInv /\ ImpInv' /\ [ImpNext]_impVars =>
         [(ImpTypeOK /\ ImportedCurrent /\ PrunedWhereRead)' /\ OutageKeeps]_impVars
  BY ImpPromised
<1>. QED  BY <1>1, <1>2, <1>3, PTL DEF ImpSpec, ImportPromise

-----------------------------------------------------------------------------
(* KernelIndex *)

IdxHead(k) == [v : Nat \ {0}, type : TypeNames, rels : [Refs(k) -> Nat]]
IsHead(k, h) == h = Absent \/ h \in IdxHead(k)

TypeSet == SUBSET (TypeNames \X Nodes)
EdgeSet == SUBSET (Nodes \X Nodes)
AllHeads == {Absent} \cup UNION {IdxHead(k) : k \in Nodes}

IndexShape ==
    /\ DOMAIN heads = Nodes /\ DOMAIN cached = Nodes /\ DOMAIN reading = Readers
    /\ \A k \in Nodes : IsHead(k, heads[k]) /\ IsHead(k, cached[k])
    /\ \A r \in Readers :
          \/ reading[r] = Nothing
          \/ /\ reading[r] \in [on : {TRUE}, k : Nodes, h : AllHeads, raced : BOOLEAN]
             /\ IsHead(reading[r].k, reading[r].h)
    /\ typeRows \in TypeSet /\ relRows \in EdgeSet
    /\ repair \in [pc : {"off", "heads", "write"}, oldT : TypeSet, oldR : EdgeSet,
                   newT : TypeSet, newR : EdgeSet, touched : SUBSET Nodes]
    /\ iwrites \in Nat

\* Whoever fills the cache has the current head, and not one being written, unless a
\* commit of the object overlapped the read.
CacheInv ==
    /\ \A k \in Nodes \ suspect : cached[k] # Absent => cached[k] = heads[k]
    /\ batch.on => cached[batch.k] = Absent \/ batch.k \in suspect
    /\ \A r \in Readers : reading[r].on /\ ~reading[r].raced =>
          reading[r].h = heads[reading[r].k] /\ ~(batch.on /\ batch.k = reading[r].k)

Touches(e, k) == e[1] = k \/ e[2] = k

\* The batch under way touches rows of its own object only, and takes away none that its
\* own head needs unless the previous version listed the reference twice.
BatchInv ==
    \/ batch = NoBatch
    \/ /\ batch.on /\ batch.k \in Nodes /\ IsHead(batch.k, batch.h)
       /\ batch.putT \in TypeSet /\ batch.putR \in EdgeSet
       /\ \A e \in batch.putT \cup batch.delT : e[2] = batch.k
       /\ \A e \in batch.putR \cup batch.delR : Touches(e, batch.k)
       /\ batch.h # Absent =>
             /\ <<batch.h.type, batch.k>> \in batch.putT /\ batch.delT = {}
             /\ EdgesOf(batch.k, batch.h.rels) \subseteq batch.putR
             /\ \A e \in batch.delR \cap EdgesOf(batch.k, batch.h.rels) :
                   \E x \in Refs(batch.k) : Edge(batch.k, x) = e /\ batch.old[x] > 1

\* Two sets of rows have the same ones of the objects that are not in `out`.
SameT(s, t, out) == \A k \in Nodes \ out, n \in TypeNames : <<n, k>> \in s <=> <<n, k>> \in t
SameR(s, t, out) == \A j, k \in Nodes \ out : <<j, k>> \in s <=> <<j, k>> \in t

\* A repair's scans are what the rows and the heads still are where no commit touched them.
RepairInv ==
    /\ repair.pc = "off" => repair = NoRepair
    /\ repair.pc # "off" => SameT(repair.oldT, typeRows, repair.touched)
                            /\ SameR(repair.oldR, relRows, repair.touched)
    /\ repair.pc = "write" => SameT(repair.newT, TypeImage, repair.touched)
                              /\ SameR(repair.newR, RelImage, repair.touched)

IndexInv == IndexShape /\ CacheInv /\ BatchInv /\ RepairInv

LEMMA IndexInitial == IndexInit => IndexInv
<1>. SUFFICES ASSUME IndexInit PROVE IndexInv
  OBVIOUS
<1>1. \A k \in Nodes : heads[k] = Absent /\ cached[k] = Absent
  BY DEF IndexInit
<1>2. repair = NoRepair /\ repair.pc = "off" /\ batch = NoBatch /\ ~batch.on
  BY DEF IndexInit, NoRepair, NoBatch
<1>3. \A r \in Readers : ~reading[r].on /\ reading[r] = Nothing
  BY DEF IndexInit, Nothing
<1>4. IndexShape
  BY <1>1, <1>2, <1>3 DEF IndexInit, IndexShape, IsHead, TypeSet, EdgeSet, NoRepair
<1>5. CacheInv /\ BatchInv /\ RepairInv
  BY <1>1, <1>2, <1>3 DEF CacheInv, BatchInv, RepairInv
<1>. QED  BY <1>4, <1>5 DEF IndexInv

LEMMA NatLists ==
    ASSUME NEW k, NEW rels \in RelLists(k)
    PROVE  rels \in [Refs(k) -> Nat]
BY IndexAssumption DEF RelLists

\* A reference's edge has the object at one end, and tells the reference.
LEMMA EdgeOfRef ==
    ASSUME NEW k \in Nodes, NEW x \in Refs(k)
    PROVE  /\ Edge(k, x) \in Nodes \X Nodes /\ Touches(Edge(k, x), k)
           /\ \A y \in Refs(k) : Edge(k, x) = Edge(k, y) => x = y
<1>1. x[1] \in {"out", "in"} /\ x[2] \in Nodes /\ x[2] # k /\ x = <<x[1], x[2]>>
  BY DEF Refs
<1>2. Edge(k, x) = IF x[1] = "out" THEN <<k, x[2]>> ELSE <<x[2], k>>
  BY DEF Edge
<1>3. ASSUME NEW y \in Refs(k), Edge(k, x) = Edge(k, y) PROVE x = y
  <2>1. y[1] \in {"out", "in"} /\ y[2] \in Nodes /\ y[2] # k /\ y = <<y[1], y[2]>>
    BY DEF Refs
  <2>2. Edge(k, y) = IF y[1] = "out" THEN <<k, y[2]>> ELSE <<y[2], k>>
    BY DEF Edge
  <2>3. x[1] = y[1] /\ x[2] = y[2]
    BY <1>1, <1>2, <1>3, <2>1, <2>2
  <2>. QED  BY <1>1, <2>1, <2>3
<1>4. Edge(k, x) \in Nodes \X Nodes /\ Touches(Edge(k, x), k)
  BY <1>1, <1>2 DEF Touches
<1>. QED  BY <1>3, <1>4

LEMMA EdgesTouch ==
    ASSUME NEW k \in Nodes, NEW rels
    PROVE  \A e \in EdgesOf(k, rels) : e \in Nodes \X Nodes /\ Touches(e, k)
BY EdgeOfRef DEF EdgesOf

LEMMA TypeImageAt ==
    ASSUME NEW k, NEW t
    PROVE  <<t, k>> \in TypeImage <=> k \in Nodes /\ heads[k] # Absent /\ t = heads[k].type
BY DEF TypeImage

LEMMA RelImageAt ==
    ASSUME NEW e
    PROVE  e \in RelImage <=> \E k \in Nodes : heads[k] # Absent /\ e \in EdgesOf(k, heads[k].rels)
BY DEF RelImage

LEMMA ImageShape == ASSUME IndexInv PROVE TypeImage \in TypeSet /\ RelImage \in EdgeSet
<1>1. ASSUME NEW k \in Nodes, heads[k] # Absent PROVE heads[k].type \in TypeNames
  BY <1>1 DEF IndexInv, IndexShape, IsHead, IdxHead
<1>2. TypeImage \in TypeSet
  BY <1>1 DEF TypeSet, TypeImage
<1>3. RelImage \in EdgeSet
  BY RelImageAt, EdgesTouch DEF EdgeSet
<1>. QED  BY <1>2, <1>3

\* Marking the reads that a commit overlaps.
LEMMA Marked ==
    ASSUME IndexShape, NEW k, reading' = Overlapping(k)
    PROVE  /\ DOMAIN reading' = Readers
           /\ \A r \in Readers :
                 \/ reading'[r] = Nothing
                 \/ /\ reading'[r] \in [on : {TRUE}, k : Nodes, h : AllHeads, raced : BOOLEAN]
                    /\ IsHead(reading'[r].k, reading'[r].h)
           /\ \A r \in Readers : reading'[r].on /\ ~reading'[r].raced =>
                 reading'[r] = reading[r] /\ reading[r].k # k
<1>1. DOMAIN reading' = Readers
  BY DEF Overlapping
<1>. SUFFICES ASSUME NEW r \in Readers
     PROVE /\ \/ reading'[r] = Nothing
              \/ /\ reading'[r] \in [on : {TRUE}, k : Nodes, h : AllHeads, raced : BOOLEAN]
                 /\ IsHead(reading'[r].k, reading'[r].h)
           /\ reading'[r].on /\ ~reading'[r].raced => reading'[r] = reading[r] /\ reading[r].k # k
  BY <1>1
<1>2. reading'[r] = IF reading[r].on /\ reading[r].k = k
                    THEN [reading[r] EXCEPT !.raced = TRUE] ELSE reading[r]
  BY DEF Overlapping
<1>3. CASE ~(reading[r].on /\ reading[r].k = k)
  BY <1>2, <1>3 DEF IndexShape
<1>4. CASE reading[r].on /\ reading[r].k = k
  <2>1. /\ reading[r] \in [on : {TRUE}, k : Nodes, h : AllHeads, raced : BOOLEAN]
        /\ IsHead(reading[r].k, reading[r].h)
    <3>1. ~Nothing.on
      BY DEF Nothing
    <3>2. reading[r] # Nothing
      BY <1>4, <3>1
    <3>. QED  BY <3>2 DEF IndexShape
  <2>2. /\ reading'[r] \in [on : {TRUE}, k : Nodes, h : AllHeads, raced : BOOLEAN]
        /\ reading'[r].k = reading[r].k /\ reading'[r].h = reading[r].h /\ reading'[r].raced
    BY <1>2, <1>4, <2>1
  <2>. QED  BY <2>1, <2>2
<1>. QED  BY <1>3, <1>4

LEMMA HeadShape == ASSUME IndexShape, NEW k \in Nodes PROVE IsHead(k, HeadOf(k))
BY DEF IndexShape, HeadOf

\* Assembling a batch that is right keeps the rest.
LEMMA Assembled ==
    ASSUME IndexInv, ~batch.on, NEW k \in Nodes,
           cached' = [cached EXCEPT ![k] = Absent], iwrites' = iwrites + 1,
           reading' = Overlapping(k), suspect' = suspect \ {k},
           UNCHANGED <<heads, typeRows, relRows, repair>>, batch'.k = k, BatchInv'
    PROVE  IndexInv'
<1>1. IndexShape'
  <2>1. \A j \in Nodes : IsHead(j, cached'[j])
    BY DEF IndexInv, IndexShape, IsHead
  <2>2. iwrites' \in Nat /\ DOMAIN cached' = Nodes
    BY DEF IndexInv, IndexShape
  <2>3. /\ DOMAIN reading' = Readers
        /\ \A r \in Readers :
              \/ reading'[r] = Nothing
              \/ /\ reading'[r] \in [on : {TRUE}, k : Nodes, h : AllHeads, raced : BOOLEAN]
                 /\ IsHead(reading'[r].k, reading'[r].h)
    BY Marked DEF IndexInv
  <2>. QED  BY <2>1, <2>2, <2>3, Zenon DEF IndexInv, IndexShape
<1>2. CacheInv'
  <2>1. \A j \in Nodes : cached'[j] = IF j = k THEN Absent ELSE cached[j]
    BY DEF IndexInv, IndexShape
  <2>2. \A r \in Readers : reading'[r].on /\ ~reading'[r].raced =>
           reading'[r] = reading[r] /\ reading[r].k # k
    BY Marked DEF IndexInv
  <2>3. \A r \in Readers : reading[r].on /\ ~reading[r].raced => reading[r].h = heads[reading[r].k]
    BY DEF IndexInv, CacheInv
  <2>4. \A j \in Nodes \ suspect : cached[j] # Absent => cached[j] = heads[j]
    BY DEF IndexInv, CacheInv
  <2>. QED  BY <2>1, <2>2, <2>3, <2>4 DEF CacheInv
<1>3. RepairInv'
  BY DEF IndexInv, RepairInv, TypeImage, RelImage
<1>. QED  BY <1>1, <1>2, <1>3 DEF IndexInv

LEMMA IndexPuts ==
    ASSUME IndexInv, NEW k \in Nodes, NEW t \in TypeNames, NEW rels \in RelLists(k),
           PutVersion(k, t, rels)
    PROVE  IndexInv'
<1>. DEFINE old == IF HeadOf(k) = Absent THEN NoRels(k) ELSE HeadOf(k).rels
            h2 == [v |-> HeadOf(k).v + 1, type |-> t, rels |-> rels]
            del == {Edge(k, x) : x \in Removed(k, old, rels)}
<1>1. /\ ~batch.on /\ cached' = [cached EXCEPT ![k] = Absent] /\ iwrites' = iwrites + 1
      /\ reading' = Overlapping(k) /\ suspect' = suspect \ {k}
      /\ UNCHANGED <<heads, typeRows, relRows, repair>>
  BY DEF PutVersion, CacheAfter, CanCommitIndex
<1>2. batch' = [on |-> TRUE, k |-> k, h |-> h2, old |-> old, putT |-> {<<t, k>>}, delT |-> {},
                putR |-> EdgesOf(k, rels), delR |-> del]
  BY DEF PutVersion
<1>3. rels \in [Refs(k) -> Nat]
  BY NatLists
<1>4. old \in [Refs(k) -> Nat] /\ HeadOf(k).v \in Nat
  <2>1. NoRels(k) \in [Refs(k) -> Nat]
    BY DEF NoRels
  <2>2. IsHead(k, HeadOf(k))
    BY HeadShape DEF IndexInv
  <2>3. HeadOf(k) = Absent \/ (HeadOf(k).rels \in [Refs(k) -> Nat] /\ HeadOf(k).v \in Nat)
    <3>1. PICK h : h = HeadOf(k)
      OBVIOUS
    <3>. QED  BY <2>2, <3>1 DEF IsHead, IdxHead
  <2>4. HeadOf(k) = Absent => HeadOf(k).v \in Nat
    BY DEF Absent
  <2>. QED  BY <2>1, <2>3, <2>4
<1>5. IsHead(k, h2) /\ h2.type = t /\ h2.rels = rels
  <2>1. PICK n : n = HeadOf(k).v + 1
    OBVIOUS
  <2>2. n \in Nat \ {0}
    BY <1>4, <2>1
  <2>. QED  BY <1>3, <2>1, <2>2 DEF IdxHead, IsHead
<1>6. \A e \in del : Touches(e, k)
  BY EdgeOfRef DEF Removed
<1>7. \A e \in del \cap EdgesOf(k, rels) : \E x \in Refs(k) : Edge(k, x) = e /\ old[x] > 1
  <2>. SUFFICES ASSUME NEW e \in del \cap EdgesOf(k, rels)
                PROVE  \E x \in Refs(k) : Edge(k, x) = e /\ old[x] > 1
    OBVIOUS
  <2>1. PICK x \in Refs(k) : Edge(k, x) = e /\ old[x] > rels[x]
    BY DEF Removed
  <2>2. PICK y \in Refs(k) : Edge(k, y) = e /\ rels[y] > 0
    BY DEF EdgesOf
  <2>3. x = y
    BY <2>1, <2>2, EdgeOfRef
  <2>4. old[x] \in Nat /\ rels[x] \in Nat
    BY <1>3, <1>4
  <2>. QED  BY <2>1, <2>2, <2>3, <2>4
<1>. HIDE DEF old, h2, del
<1>8. BatchInv'
  <2>1. /\ batch'.on /\ batch'.k = k /\ batch'.h = h2 /\ batch'.putT = {<<t, k>>} /\ batch'.delT = {}
        /\ batch'.putR = EdgesOf(k, rels) /\ batch'.delR = del /\ batch'.old = old
    BY <1>2
  <2>2. EdgesOf(k, rels) \in EdgeSet /\ \A e \in EdgesOf(k, rels) : Touches(e, k)
    BY EdgesTouch DEF EdgeSet
  <2>3. {<<t, k>>} \in TypeSet
    BY DEF TypeSet
  <2>. QED  BY <1>5, <1>6, <1>7, <2>1, <2>2, <2>3 DEF BatchInv
<1>9. batch'.k = k
  BY <1>2
<1>. QED  BY <1>1, <1>8, <1>9, Assembled

LEMMA IndexErases ==
    ASSUME IndexInv, NEW k \in Nodes, EraseHead(k)
    PROVE  IndexInv'
<1>1. /\ ~batch.on /\ cached' = [cached EXCEPT ![k] = Absent] /\ iwrites' = iwrites + 1
      /\ reading' = Overlapping(k) /\ suspect' = suspect \ {k}
      /\ UNCHANGED <<heads, typeRows, relRows, repair>>
      /\ batch' = [on |-> TRUE, k |-> k, h |-> Absent, old |-> NoRels(k), putT |-> {},
                   delT |-> {<<HeadOf(k).type, k>>}, putR |-> {}, delR |-> {}]
  BY DEF EraseHead, CacheAfter, CanCommitIndex
<1>2. BatchInv'
  BY <1>1 DEF BatchInv, IsHead, TypeSet, EdgeSet
<1>3. batch'.k = k
  BY <1>1
<1>. QED  BY <1>1, <1>2, <1>3, Assembled

\* Away from the object of a batch its landing changes no row, and no row of the images.
LEMMA LandedElsewhere ==
    ASSUME IndexInv, LandIndex, NEW out, batch.k \in out
    PROVE  /\ SameT(typeRows, typeRows', out) /\ SameR(relRows, relRows', out)
           /\ SameT(TypeImage, TypeImage', out) /\ SameR(RelImage, RelImage', out)
<1>1. /\ batch.k \in Nodes
      /\ \A e \in batch.putT \cup batch.delT : e[2] = batch.k
      /\ \A e \in batch.putR \cup batch.delR : Touches(e, batch.k)
  <2>1. batch # NoBatch
    <3>1. ~NoBatch.on
      BY DEF NoBatch
    <3>. QED  BY <3>1 DEF LandIndex
  <2>. QED  BY <2>1, Zenon DEF IndexInv, BatchInv
<1>2. /\ typeRows' = (typeRows \cup batch.putT) \ batch.delT
      /\ relRows' = (relRows \cup batch.putR) \ batch.delR
  BY DEF LandIndex, RowsLanded
<1>3. \A j \in Nodes : j # batch.k => heads'[j] = heads[j]
  BY DEF LandIndex, IndexInv, IndexShape
<1>4. SameT(typeRows, typeRows', out)
  BY <1>1, <1>2 DEF SameT
<1>5. SameR(relRows, relRows', out)
  <2>. SUFFICES ASSUME NEW i \in Nodes \ out, NEW j \in Nodes \ out
                PROVE  <<i, j>> \in relRows <=> <<i, j>> \in relRows'
    BY DEF SameR
  <2>1. ~Touches(<<i, j>>, batch.k)
    BY DEF Touches
  <2>. QED  BY <1>1, <1>2, <2>1
<1>6. SameT(TypeImage, TypeImage', out)
  BY <1>3 DEF SameT, TypeImage
<1>7. SameR(RelImage, RelImage', out)
  <2>. SUFFICES ASSUME NEW i \in Nodes \ out, NEW j \in Nodes \ out
                PROVE  <<i, j>> \in RelImage <=> <<i, j>> \in RelImage'
    BY DEF SameR
  <2>1. ~Touches(<<i, j>>, batch.k)
    BY DEF Touches
  <2>2. \A rels : <<i, j>> \notin EdgesOf(batch.k, rels)
    BY <1>1, <2>1, EdgesTouch
  <2>3. <<i, j>> \in RelImage <=> \E m \in Nodes : heads[m] # Absent /\ <<i, j>> \in EdgesOf(m, heads[m].rels)
    BY RelImageAt
  <2>4. <<i, j>> \in RelImage' <=> \E m \in Nodes : heads'[m] # Absent /\ <<i, j>> \in EdgesOf(m, heads'[m].rels)
    BY DEF RelImage
  <2>. QED  BY <1>3, <2>2, <2>3, <2>4
<1>. QED  BY <1>4, <1>5, <1>6, <1>7

LEMMA IndexLands ==
    ASSUME IndexInv, LandIndex
    PROVE  IndexInv'
<1>. DEFINE k == batch.k
            out == IF repair.pc = "off" THEN {} ELSE repair.touched \cup {k}
<1>1. /\ batch.on /\ batch' = NoBatch /\ UNCHANGED <<cached, reading, suspect, iwrites>> /\ ~batch'.on
      /\ repair' = [repair EXCEPT !.touched = out]
  BY DEF LandIndex, NoBatch
<1>2. k \in Nodes /\ IsHead(k, batch.h) /\ batch.putT \in TypeSet /\ batch.putR \in EdgeSet
  BY <1>1 DEF IndexInv, BatchInv, NoBatch
<1>3. /\ typeRows' = (typeRows \cup batch.putT) \ batch.delT
      /\ relRows' = (relRows \cup batch.putR) \ batch.delR
  BY DEF LandIndex, RowsLanded
<1>4. DOMAIN heads' = Nodes /\ \A j \in Nodes : heads'[j] = IF j = k THEN batch.h ELSE heads[j]
  BY DEF LandIndex, IndexInv, IndexShape
<1>5. /\ repair'.pc = repair.pc /\ repair'.oldT = repair.oldT /\ repair'.oldR = repair.oldR
      /\ repair'.newT = repair.newT /\ repair'.newR = repair.newR /\ repair'.touched = out
      /\ repair' \in [pc : {"off", "heads", "write"}, oldT : TypeSet, oldR : EdgeSet,
                      newT : TypeSet, newR : EdgeSet, touched : SUBSET Nodes]
  BY <1>1, <1>2 DEF IndexInv, IndexShape
<1>6. IndexShape'
  <2>1. typeRows' \in TypeSet /\ relRows' \in EdgeSet
    BY <1>2, <1>3 DEF IndexInv, IndexShape, TypeSet, EdgeSet
  <2>. QED  BY <1>1, <1>2, <1>4, <1>5, <2>1 DEF IndexInv, IndexShape
<1>7. CacheInv'
  <2>1. cached[k] = Absent \/ k \in suspect
    BY <1>1 DEF IndexInv, CacheInv
  <2>2. \A r \in Readers : reading[r].on /\ ~reading[r].raced =>
           reading[r].h = heads[reading[r].k] /\ k # reading[r].k /\ reading[r].k \in Nodes
    <3>1. ~Nothing.on
      BY DEF Nothing
    <3>2. \A r \in Readers : reading[r].on => reading[r].k \in Nodes
      BY <3>1 DEF IndexInv, IndexShape
    <3>. QED  BY <1>1, <3>2 DEF IndexInv, CacheInv
  <2>3. \A j \in Nodes \ suspect : cached[j] # Absent => cached[j] = heads[j]
    BY DEF IndexInv, CacheInv
  <2>. HIDE DEF k
  <2>. QED  BY <1>1, <1>4, <2>1, <2>2, <2>3 DEF CacheInv
<1>8. RepairInv'
  <2>1. CASE repair.pc = "off"
    <3>1. repair = NoRepair /\ NoRepair.touched = {}
      BY <2>1 DEF IndexInv, RepairInv, NoRepair
    <3>2. repair' = NoRepair
      BY <1>1, <2>1, <3>1 DEF NoRepair
    <3>. QED  BY <1>5, <2>1, <3>2 DEF RepairInv
  <2>2. CASE repair.pc # "off"
    <3>1. out = repair.touched \cup {k} /\ k \in out
      BY <2>2
    <3>. HIDE DEF out, k
    <3>2. /\ SameT(typeRows, typeRows', out) /\ SameR(relRows, relRows', out)
          /\ SameT(TypeImage, TypeImage', out) /\ SameR(RelImage, RelImage', out)
      BY <3>1, LandedElsewhere DEF k
    <3>3. SameT(repair.oldT, typeRows', out) /\ SameR(repair.oldR, relRows', out)
      BY <2>2, <3>1, <3>2 DEF IndexInv, RepairInv, SameT, SameR
    <3>4. repair.pc = "write" => SameT(repair.newT, TypeImage', out) /\ SameR(repair.newR, RelImage', out)
      BY <3>1, <3>2 DEF IndexInv, RepairInv, SameT, SameR
    <3>. QED  BY <1>5, <2>2, <3>3, <3>4 DEF RepairInv
  <2>. QED  BY <2>1, <2>2
<1>. QED  BY <1>1, <1>6, <1>7, <1>8 DEF IndexInv, BatchInv

LEMMA IndexReads ==
    ASSUME IndexInv, NEW r \in Readers, (\E k \in Nodes : ReadMiss(r, k)) \/ ReadFill(r)
    PROVE  IndexInv'
<1>1. UNCHANGED <<heads, typeRows, relRows, batch, repair, iwrites>>
  BY DEF ReadMiss, ReadFill
<1>2. BatchInv' /\ RepairInv'
  BY <1>1 DEF IndexInv, BatchInv, RepairInv, TypeImage, RelImage
<1>3. ASSUME NEW k \in Nodes, ReadMiss(r, k) PROVE IndexShape' /\ CacheInv'
  <2>. DEFINE rec == [on |-> TRUE, k |-> k, h |-> heads[k], raced |-> batch.on /\ batch.k = k]
  <2>1. UNCHANGED <<cached, suspect>> /\ reading' = [reading EXCEPT ![r] = rec]
    BY <1>3 DEF ReadMiss
  <2>2. \A q \in Readers : reading'[q] = IF q = r THEN rec ELSE reading[q]
    BY <2>1 DEF IndexInv, IndexShape
  <2>3. /\ rec.on /\ rec.k = k /\ rec.h = heads[k] /\ (rec.raced <=> batch.on /\ batch.k = k)
        /\ IsHead(k, heads[k]) /\ heads[k] \in AllHeads
    BY DEF IndexInv, IndexShape, AllHeads, IsHead
  <2>4. rec \in [on : {TRUE}, k : Nodes, h : AllHeads, raced : BOOLEAN]
    <3>1. PICK b \in BOOLEAN : b = (batch.on /\ batch.k = k)
      BY Zenon
    <3>. QED  BY <2>3, <3>1
  <2>. HIDE DEF rec
  <2>5. IndexShape'
    <3>1. DOMAIN reading' = Readers /\ DOMAIN cached' = Nodes
      BY <2>1 DEF IndexInv, IndexShape
    <3>2. \A q \in Readers :
             \/ reading'[q] = Nothing
             \/ /\ reading'[q] \in [on : {TRUE}, k : Nodes, h : AllHeads, raced : BOOLEAN]
                /\ IsHead(reading'[q].k, reading'[q].h)
      BY <2>2, <2>3, <2>4, Zenon DEF IndexInv, IndexShape
    <3>. QED  BY <1>1, <2>1, <3>1, <3>2, Zenon DEF IndexInv, IndexShape
  <2>6. CacheInv'
    BY <1>1, <2>1, <2>2, <2>3, Zenon DEF IndexInv, CacheInv
  <2>. QED  BY <2>5, <2>6
<1>4. CASE ReadFill(r)
  <2>1. /\ reading[r].on /\ cached' = [cached EXCEPT ![reading[r].k] = reading[r].h]
        /\ suspect' = IF reading[r].raced THEN suspect \cup {reading[r].k} ELSE suspect \ {reading[r].k}
        /\ reading' = [reading EXCEPT ![r] = Nothing]
    BY <1>4 DEF ReadFill
  <2>2. ~Nothing.on
    BY DEF Nothing
  <2>3. reading[r].k \in Nodes /\ IsHead(reading[r].k, reading[r].h)
    BY <2>1, <2>2 DEF IndexInv, IndexShape
  <2>4. \A j \in Nodes : cached'[j] = IF j = reading[r].k THEN reading[r].h ELSE cached[j]
    BY <2>1 DEF IndexInv, IndexShape
  <2>5. \A q \in Readers : reading'[q] = IF q = r THEN Nothing ELSE reading[q]
    BY <2>1 DEF IndexInv, IndexShape
  <2>6. IndexShape'
    <3>1. DOMAIN reading' = Readers /\ DOMAIN cached' = Nodes
      BY <2>1 DEF IndexInv, IndexShape
    <3>2. \A j \in Nodes : IsHead(j, cached'[j])
      BY <2>3, <2>4 DEF IndexInv, IndexShape
    <3>. QED  BY <1>1, <2>5, <3>1, <3>2, Zenon DEF IndexInv, IndexShape
  <2>7. CacheInv'
    <3>1. ~reading[r].raced => reading[r].h = heads[reading[r].k]
                               /\ ~(batch.on /\ batch.k = reading[r].k)
      BY <2>1 DEF IndexInv, CacheInv
    <3>2. \A j \in Nodes \ suspect' : cached'[j] # Absent => cached'[j] = heads'[j]
      BY <1>1, <2>1, <2>3, <2>4, <3>1 DEF IndexInv, CacheInv
    <3>3. batch'.on => cached'[batch'.k] = Absent \/ batch'.k \in suspect'
      <4>1. batch.on => batch.k \in Nodes
        BY DEF IndexInv, BatchInv, NoBatch
      <4>. QED  BY <1>1, <2>1, <2>3, <2>4, <3>1, <4>1 DEF IndexInv, CacheInv
    <3>4. \A q \in Readers : reading'[q].on => reading'[q] = reading[q]
      BY <2>2, <2>5
    <3>5. \A q \in Readers : reading'[q].on /\ ~reading'[q].raced =>
             /\ reading'[q].h = heads'[reading'[q].k]
             /\ ~(batch'.on /\ batch'.k = reading'[q].k)
      <4>. SUFFICES ASSUME NEW q \in Readers, reading'[q].on, ~reading'[q].raced
                    PROVE  /\ reading'[q].h = heads'[reading'[q].k]
                           /\ ~(batch'.on /\ batch'.k = reading'[q].k)
        OBVIOUS
      <4>1. reading'[q] = reading[q]
        BY <3>4
      <4>2. reading[q].on /\ ~reading[q].raced
        BY <4>1
      <4>3. reading[q].h = heads[reading[q].k] /\ ~(batch.on /\ batch.k = reading[q].k)
        BY <4>2 DEF IndexInv, CacheInv
      <4>. QED  BY <1>1, <4>1, <4>3
    <3>. QED  BY <3>2, <3>3, <3>5 DEF CacheInv
  <2>. QED  BY <1>2, <2>6, <2>7 DEF IndexInv
<1>. QED  BY <1>2, <1>3, <1>4 DEF IndexInv

LEMMA IndexRepairs ==
    ASSUME IndexInv, RebuildOld \/ RebuildHeads
    PROVE  IndexInv'
<1>1. UNCHANGED <<heads, typeRows, relRows, cached, batch, reading, suspect, iwrites>>
  BY DEF RebuildOld, RebuildHeads
<1>2. TypeImage' = TypeImage /\ RelImage' = RelImage
  BY <1>1 DEF TypeImage, RelImage
<1>3. /\ RepairInv'
      /\ repair' \in [pc : {"off", "heads", "write"}, oldT : TypeSet, oldR : EdgeSet,
                      newT : TypeSet, newR : EdgeSet, touched : SUBSET Nodes]
  <2>1. CASE RebuildOld
    <3>1. /\ repair' = [pc |-> "heads", oldT |-> typeRows, oldR |-> relRows,
                        newT |-> {}, newR |-> {}, touched |-> {}]
      BY <2>1 DEF RebuildOld, NoRepair
    <3>. QED  BY <1>1, <3>1 DEF RepairInv, SameT, SameR, IndexInv, IndexShape, TypeSet, EdgeSet
  <2>2. CASE RebuildHeads
    <3>1. repair.pc = "heads" /\ repair' = [repair EXCEPT !.pc = "write", !.newT = TypeImage, !.newR = RelImage]
      BY <2>2 DEF RebuildHeads
    <3>2. /\ repair'.pc = "write" /\ repair'.oldT = repair.oldT /\ repair'.oldR = repair.oldR
          /\ repair'.newT = TypeImage /\ repair'.newR = RelImage /\ repair'.touched = repair.touched
          /\ repair' \in [pc : {"off", "heads", "write"}, oldT : TypeSet, oldR : EdgeSet,
                          newT : TypeSet, newR : EdgeSet, touched : SUBSET Nodes]
      BY <3>1, ImageShape DEF IndexInv, IndexShape
    <3>3. SameT(repair.oldT, typeRows, repair.touched) /\ SameR(repair.oldR, relRows, repair.touched)
      BY <3>1 DEF IndexInv, RepairInv
    <3>. QED  BY <1>1, <1>2, <3>2, <3>3 DEF RepairInv, SameT, SameR
  <2>. QED  BY <2>1, <2>2
<1>4. IndexShape' /\ CacheInv' /\ BatchInv'
  BY <1>1, <1>3, Zenon DEF IndexInv, IndexShape, CacheInv, BatchInv
<1>. QED  BY <1>3, <1>4 DEF IndexInv

LEMMA IndexRewrites ==
    ASSUME IndexInv, RebuildWrite
    PROVE  IndexInv'
<1>1. /\ UNCHANGED <<heads, cached, batch, reading, suspect, iwrites>> /\ repair' = NoRepair
  BY DEF RebuildWrite
<1>2. typeRows' \in TypeSet /\ relRows' \in EdgeSet
  BY DEF RebuildWrite, Repaired, IndexInv, IndexShape, TypeSet, EdgeSet
<1>3. NoRepair \in [pc : {"off", "heads", "write"}, oldT : TypeSet, oldR : EdgeSet,
                    newT : TypeSet, newR : EdgeSet, touched : SUBSET Nodes]
      /\ NoRepair.pc = "off"
  BY DEF NoRepair, TypeSet, EdgeSet
<1>4. IndexShape' /\ CacheInv' /\ BatchInv'
  BY <1>1, <1>2, <1>3, Zenon DEF IndexInv, IndexShape, CacheInv, BatchInv
<1>5. RepairInv'
  BY <1>1, <1>3 DEF RepairInv
<1>. QED  BY <1>4, <1>5 DEF IndexInv

LEMMA IndexSteps ==
    ASSUME IndexInv, [IndexNext]_indexVars
    PROVE  IndexInv'
<1>1. CASE LandIndexFails
  <2>1. batch' = NoBatch /\ ~batch'.on /\ UNCHANGED <<heads, typeRows, relRows, cached, reading, repair, suspect, iwrites>>
    BY <1>1 DEF LandIndexFails, NoBatch
  <2>2. IndexShape' /\ CacheInv' /\ BatchInv'
    BY <2>1, Zenon DEF IndexInv, IndexShape, CacheInv, BatchInv
  <2>3. RepairInv'
    BY <2>1 DEF IndexInv, RepairInv, TypeImage, RelImage
  <2>. QED  BY <2>2, <2>3 DEF IndexInv
<1>2. CASE UNCHANGED indexVars
  <2>1. UNCHANGED <<heads, typeRows, relRows, cached, batch, reading, repair, suspect, iwrites>>
    BY <1>2 DEF indexVars
  <2>2. IndexShape' /\ CacheInv' /\ BatchInv'
    BY <2>1, Zenon DEF IndexInv, IndexShape, CacheInv, BatchInv
  <2>3. RepairInv'
    BY <2>1 DEF IndexInv, RepairInv, TypeImage, RelImage
  <2>. QED  BY <2>2, <2>3 DEF IndexInv
<1>3. ASSUME NEW k \in Nodes, NEW r \in Readers, ReadMiss(r, k) PROVE IndexInv'
  BY <1>3, IndexReads
<1>4. ASSUME NEW r \in Readers, ReadFill(r) PROVE IndexInv'
  BY <1>4, IndexReads
<1>5. CASE RebuildOld \/ RebuildHeads
  BY <1>5, IndexRepairs
<1>. QED  BY <1>1, <1>2, <1>3, <1>4, <1>5, IndexPuts, IndexErases, IndexLands, IndexRewrites DEF IndexNext

\* A repair's write and the landing of a batch are the only steps that change rows.
LEMMA RowSteps ==
    ASSUME [IndexNext]_indexVars
    PROVE  \/ LandIndex \/ RebuildWrite
           \/ UNCHANGED <<heads, typeRows, relRows>> /\ ~(repair.pc = "write" /\ repair' = NoRepair)
<1>1. NoRepair.pc = "off"
  BY DEF NoRepair
<1>2. CASE RebuildOld
  BY <1>1, <1>2 DEF RebuildOld
<1>3. CASE RebuildHeads
  BY <1>1, <1>3 DEF RebuildHeads
<1>4. CASE UNCHANGED <<heads, typeRows, relRows, repair>>
  BY <1>1, <1>4
<1>. QED  BY <1>2, <1>3, <1>4 DEF IndexNext, indexVars, PutVersion, EraseHead, ReadMiss, LandIndexFails, ReadFill

\* The repair leaves out no row of an object that no commit touched.
LEMMA Rebuilt ==
    ASSUME IndexInv, RebuildWrite
    PROVE  /\ SameT(typeRows', TypeImage, repair.touched) /\ SameR(relRows', RelImage, repair.touched)
<1>1. /\ SameT(repair.oldT, typeRows, repair.touched) /\ SameR(repair.oldR, relRows, repair.touched)
      /\ SameT(repair.newT, TypeImage, repair.touched) /\ SameR(repair.newR, RelImage, repair.touched)
  BY DEF RebuildWrite, IndexInv, RepairInv
<1>2. /\ typeRows' = (typeRows \cup (repair.newT \ repair.oldT)) \ (repair.oldT \ repair.newT)
      /\ relRows' = (relRows \cup (repair.newR \ repair.oldR)) \ (repair.oldR \ repair.newR)
  BY DEF RebuildWrite, Repaired
<1>. QED  BY <1>1, <1>2 DEF SameT, SameR

LEMMA RowsPromised ==
    ASSUME IndexInv, IndexInv', [IndexNext]_indexVars
    PROVE  RowsKept
<1>1. CASE UNCHANGED <<heads, typeRows, relRows>>
  BY <1>1 DEF RowsKept, LeftOut, Untyped, RelImage, TypeImage
<1>2. CASE RebuildWrite
  <2>1. TypeImage' = TypeImage /\ RelImage' = RelImage
    BY <1>2 DEF RebuildWrite, TypeImage, RelImage
  <2>2. RelImage \in EdgeSet /\ TypeImage \in TypeSet
    BY ImageShape
  <2>3. ASSUME NEW e \in LeftOut' \ LeftOut PROVE Overlapped(e)
    <3>1. e \in RelImage /\ e \notin relRows'
      BY <2>1, <2>3 DEF LeftOut
    <3>2. PICK i, j \in Nodes : e = <<i, j>>
      BY <2>2, <3>1 DEF EdgeSet
    <3>3. i \in repair.touched \/ j \in repair.touched
      BY <1>2, <3>1, <3>2, Rebuilt DEF SameR
    <3>. QED  BY <3>2, <3>3 DEF Overlapped
  <2>4. ASSUME NEW t \in Untyped' \ Untyped PROVE t[2] \in repair.touched
    <3>1. t \in TypeImage /\ t \notin typeRows'
      BY <2>1, <2>4 DEF Untyped
    <3>2. PICK n \in TypeNames, k \in Nodes : t = <<n, k>>
      BY <2>2, <3>1 DEF TypeSet
    <3>. QED  BY <1>2, <3>1, <3>2, Rebuilt DEF SameT
  <2>. QED  BY <2>3, <2>4 DEF RowsKept
<1>3. CASE LandIndex
  <2>. DEFINE k == batch.k
  <2>1. /\ batch.on /\ k \in Nodes
        /\ \A e \in batch.delT : e[2] = k
        /\ batch.h # Absent =>
              /\ <<batch.h.type, k>> \in batch.putT /\ batch.delT = {}
              /\ EdgesOf(k, batch.h.rels) \subseteq batch.putR
              /\ \A e \in batch.delR \cap EdgesOf(k, batch.h.rels) :
                    \E x \in Refs(k) : Edge(k, x) = e /\ batch.old[x] > 1
    <3>1. batch.on /\ ~NoBatch.on
      BY <1>3 DEF LandIndex, NoBatch
    <3>2. batch # NoBatch
      BY <3>1
    <3>. QED  BY <3>1, <3>2, Zenon DEF IndexInv, BatchInv
  <2>2. /\ typeRows' = (typeRows \cup batch.putT) \ batch.delT
        /\ relRows' = (relRows \cup batch.putR) \ batch.delR
    BY <1>3 DEF LandIndex, RowsLanded
  <2>3. \A j \in Nodes : heads'[j] = IF j = k THEN batch.h ELSE heads[j]
    BY <1>3 DEF LandIndex, IndexInv, IndexShape
  <2>. HIDE DEF k
  <2>4. ASSUME NEW e \in LeftOut' \ LeftOut PROVE Relisted(e)
    <3>1. PICK j \in Nodes : heads'[j] # Absent /\ e \in EdgesOf(j, heads'[j].rels)
      BY <2>4 DEF LeftOut, RelImage
    <3>2. e \notin relRows'
      BY <2>4 DEF LeftOut
    <3>3. CASE j = k
      <4>1. e \in EdgesOf(k, batch.h.rels) /\ batch.h # Absent
        BY <2>3, <3>1, <3>3
      <4>2. e \in batch.delR
        BY <2>1, <2>2, <3>2, <4>1
      <4>. QED  BY <2>1, <4>1, <4>2 DEF Relisted, k
    <3>4. CASE j # k
      <4>1. heads[j] # Absent /\ e \in EdgesOf(j, heads[j].rels)
        BY <2>3, <3>1, <3>4
      <4>. QED  BY <2>1, <3>4, <4>1 DEF Relisted, Listing, k
    <3>. QED  BY <3>3, <3>4
  <2>5. Untyped' \subseteq Untyped
    <3>. SUFFICES ASSUME NEW t \in Untyped' PROVE t \in Untyped
      OBVIOUS
    <3>1. PICK j \in Nodes : heads'[j] # Absent /\ t = <<heads'[j].type, j>>
      BY DEF Untyped, TypeImage
    <3>2. t \notin typeRows'
      BY DEF Untyped
    <3>3. j # k
      BY <2>1, <2>2, <2>3, <3>1, <3>2
    <3>4. t \in TypeImage
      BY <2>3, <3>1, <3>3 DEF TypeImage
    <3>5. t \notin typeRows
      BY <2>1, <2>2, <3>1, <3>2, <3>3
    <3>. QED  BY <3>4, <3>5 DEF Untyped
  <2>. QED  BY <2>4, <2>5 DEF RowsKept
<1>. QED  BY <1>1, <1>2, <1>3, RowSteps

LEMMA IndexPromised ==
    ASSUME IndexInv, IndexInv', [IndexNext]_indexVars
    PROVE  (IndexTypeOK /\ CacheCoherent)' /\ RowsKept /\ RebuildExact
<1>1. IndexTypeOK'
  <2>1. \A k \in Nodes : heads'[k].v \in Nat /\ cached'[k].v \in Nat
    <3>. SUFFICES ASSUME NEW k \in Nodes, NEW h, IsHead(k, h) PROVE h.v \in Nat
      BY DEF IndexInv, IndexShape
    <3>. QED  BY DEF IsHead, IdxHead, Absent
  <2>. QED  BY <2>1 DEF IndexInv, IndexShape, IndexTypeOK, TypeSet, EdgeSet
<1>2. CacheCoherent'
  BY DEF IndexInv, CacheInv, CacheCoherent
<1>3. ASSUME repair.pc = "write", repair' = NoRepair PROVE RebuildExact
  <2>1. repair.pc # "off" /\ NoRepair.pc = "off"
    BY <1>3 DEF NoRepair
  <2>2. CASE RebuildWrite
    BY <2>2, Rebuilt DEF RebuildExact, SameT, SameR
  <2>3. CASE LandIndex
    <3>1. repair'.pc = repair.pc
      BY <2>3 DEF LandIndex, IndexInv, IndexShape
    <3>. QED  BY <1>3, <2>1, <3>1
  <2>. QED  BY <1>3, <2>2, <2>3, RowSteps
<1>. QED  BY <1>1, <1>2, <1>3, RowsPromised DEF RebuildExact

\* With any readers, repairs and commits: the index loses a row of a head only where one
\* of two listings of an edge is taken away or a commit overlaps a repair; the cache is
\* current but where a commit overlapped the read; a repair is exact but for the objects
\* committed meanwhile.
THEOREM IndexKept == IndexSpec => KernelIndexPromise
<1>1. IndexInit => IndexInv
  BY IndexInitial
<1>2. IndexInv /\ [IndexNext]_indexVars => IndexInv'
  BY IndexSteps
<1>3. IndexInv /\ IndexInv' /\ [IndexNext]_indexVars =>
         [(IndexTypeOK /\ CacheCoherent)' /\ RowsKept /\ RebuildExact]_indexVars
  BY IndexPromised
<1>. QED  BY <1>1, <1>2, <1>3, PTL DEF IndexSpec, KernelIndexPromise

-----------------------------------------------------------------------------
(* IngestDir *)

IngRun == [pc : {"idle", "scan", "entity", "file", "edges", "dir"}, rev : 0 .. MaxRevs,
           ir : Trees, todo : SUBSET (Docs \cup Entities), ents : SUBSET Entities,
           files : SUBSET Docs, clean : BOOLEAN]

IngShape ==
    /\ tree \in [rev : 1 .. MaxRevs, ir : Trees]
    /\ irun \in IngRun /\ track \in 0 .. MaxRevs
    /\ entKo \in [Entities -> [on : BOOLEAN, text : Texts \cup {NoText}, rels : SUBSET Entities]]
    /\ fileKo \in [Docs -> [on : BOOLEAN, contains : SUBSET Entities]]
    /\ dirKo \in [on : BOOLEAN, ir : Trees, files : SUBSET Docs, orphans : SUBSET Entities]

EntityIs(e, rels) == entKo[e] = [on |-> TRUE, text |-> irun.ir.text[e], rels |-> rels]

\* How far a run none of whose calls has failed has come.
CleanInv ==
    /\ irun.pc = "scan" => irun.ents = {}
    /\ irun.clean =>
          /\ irun.pc = "entity" =>
                /\ irun.todo \subseteq Defined(irun.ir) /\ irun.ents = Defined(irun.ir) \ irun.todo
                /\ \A e \in irun.ents : EntityIs(e, {})
          /\ irun.pc \in {"file", "edges", "dir"} => irun.ents = Defined(irun.ir)
          /\ irun.pc = "file" =>
                \A e \in irun.ents : EntityIs(e, {}) /\ e[1] \in irun.files \cup irun.todo
          /\ irun.pc = "edges" =>
                \A e \in irun.ents :
                   /\ EntityIs(e, IF e \in irun.todo THEN {} ELSE UsedBy(e))
                   /\ e[1] \in irun.todo \/ fileKo[e[1]].contains = Contained(e[1])
          /\ irun.pc = "dir" =>
                /\ \A e \in irun.ents : EntityIs(e, UsedBy(e)) /\ fileKo[e[1]].contains = Contained(e[1])
                /\ dirKo.ir = irun.ir

IngInv == IngShape /\ CleanInv
LEMMA EmptyTree == EmptyIr \in Trees /\ Defined(EmptyIr) = {}
<1>1. EmptyIr \in Irs
  BY DEF EmptyIr, Irs
<1>2. Defined(EmptyIr) = {}
  BY DEF Defined, EmptyIr
<1>. QED  BY <1>1, <1>2 DEF Trees, EmptyIr

\* What a tree is made of.
LEMMA TreeIs ==
    ASSUME NEW ir \in Trees
    PROVE  /\ ir \in Irs /\ Defined(ir) \subseteq Entities /\ ir.files \subseteq Docs
           /\ \A e \in Defined(ir) : e[1] \in ir.files
           /\ \A x, y : <<x, y>> \in ir.uses => x \in Defined(ir) /\ y \in Defined(ir)
<1>1. ir \in Irs /\ Defined(ir) \subseteq Entities /\ \A e \in Defined(ir) : e[1] \in ir.files
  BY DEF Trees, Defined
<1>2. ir.files \subseteq Docs
  BY <1>1 DEF Irs
<1>3. ASSUME NEW x, NEW y, <<x, y>> \in ir.uses PROVE x \in Defined(ir) /\ y \in Defined(ir)
  BY <1>3 DEF Trees
<1>. QED  BY <1>1, <1>2, <1>3

LEMMA IngInitial == IngInit => IngInv
<1>. SUFFICES ASSUME IngInit PROVE IngInv
  OBVIOUS
<1>1. PICK ir \in Trees : tree = [rev |-> 1, ir |-> ir]
  BY DEF IngInit
<1>2. 1 \in 1 .. MaxRevs /\ 0 \in 0 .. MaxRevs
  BY IngestAssumption
<1>3. irun = NoRun
  BY DEF IngInit
<1>4. tree \in [rev : 1 .. MaxRevs, ir : Trees]
  BY <1>1, <1>2
<1>5. irun \in IngRun
  BY <1>2, <1>3, EmptyTree DEF NoRun, IngRun
<1>6. entKo \in [Entities -> [on : BOOLEAN, text : Texts \cup {NoText}, rels : SUBSET Entities]]
  BY DEF IngInit, NoEnt
<1>7. fileKo \in [Docs -> [on : BOOLEAN, contains : SUBSET Entities]]
  BY DEF IngInit
<1>8. dirKo \in [on : BOOLEAN, ir : Trees, files : SUBSET Docs, orphans : SUBSET Entities]
  BY EmptyTree DEF IngInit
<1>9. track \in 0 .. MaxRevs
  BY <1>2 DEF IngInit
<1>10. CleanInv
  BY <1>3 DEF CleanInv, NoRun
<1>. QED  BY <1>4, <1>5, <1>6, <1>7, <1>8, <1>9, <1>10 DEF IngInv, IngShape

LEMMA IngTyped ==
    ASSUME IngShape
    PROVE  /\ irun.pc \in {"idle", "scan", "entity", "file", "edges", "dir"} /\ irun.rev \in 0 .. MaxRevs
           /\ irun.ir \in Trees /\ irun.todo \subseteq Docs \cup Entities /\ irun.ents \subseteq Entities
           /\ irun.files \subseteq Docs /\ irun.clean \in BOOLEAN
           /\ tree.ir \in Trees /\ tree.rev \in 1 .. MaxRevs
BY DEF IngShape, IngRun

\* A step of a run that stores no object.
LEMMA IngMoves ==
    ASSUME IngInv, tree' \in [rev : 1 .. MaxRevs, ir : Trees], track' \in 0 .. MaxRevs,
           irun' \in IngRun, UNCHANGED <<entKo, fileKo, dirKo>>, CleanInv'
    PROVE  IngInv'
BY DEF IngInv, IngShape

LEMMA IngRests ==
    ASSUME IngInv, irun' = NoRun,
           tree' \in [rev : 1 .. MaxRevs, ir : Trees], track' \in 0 .. MaxRevs,
           UNCHANGED <<entKo, fileKo, dirKo>>
    PROVE  IngInv'
<1>1. irun' \in IngRun /\ irun'.pc = "idle"
  <2>1. 0 \in 0 .. MaxRevs
    BY IngestAssumption
  <2>. QED  BY <2>1, EmptyTree DEF NoRun, IngRun
<1>2. CleanInv'
  BY <1>1 DEF CleanInv
<1>. QED  BY <1>1, <1>2, IngMoves

LEMMA IngTrees ==
    ASSUME IngInv, NEW ir \in Trees, ChangeTree(ir)
    PROVE  IngInv'
<1>1. UNCHANGED <<track, irun, entKo, fileKo, dirKo>>
  BY DEF ChangeTree
<1>2. tree' \in [rev : 1 .. MaxRevs, ir : Trees]
  <2>1. tree.rev + 1 \in 1 .. MaxRevs
    BY IngTyped, IngestAssumption DEF IngInv, ChangeTree
  <2>. QED  BY <2>1 DEF ChangeTree
<1>3. CleanInv'
  BY <1>1 DEF IngInv, CleanInv, EntityIs, UsedBy, Contained
<1>. QED  BY <1>1, <1>2, <1>3 DEF IngInv, IngShape

LEMMA IngStarts ==
    ASSUME IngInv, StartFull \/ StartIncremental
    PROVE  IngInv'
<1>1. UNCHANGED <<tree, track, entKo, fileKo, dirKo>>
  BY DEF StartFull, StartIncremental
<1>2. /\ tree.ir \in Trees /\ tree.rev \in 0 .. MaxRevs /\ 0 \in 0 .. MaxRevs
  BY IngTyped, IngestAssumption DEF IngInv
<1>3. Defined(tree.ir) \subseteq Docs \cup Entities
  BY <1>2, TreeIs
<1>4. irun' \in IngRun /\ CleanInv'
  <2>1. CASE StartFull
    <3>1. irun' = [pc |-> "entity", rev |-> 0, ir |-> tree.ir, todo |-> Defined(tree.ir), ents |-> {},
                   files |-> {}, clean |-> TRUE]
      BY <2>1 DEF StartFull, NoRun
    <3>. QED  BY <1>2, <1>3, <3>1 DEF IngRun, CleanInv
  <2>2. CASE StartIncremental
    <3>1. irun' = [pc |-> "scan", rev |-> tree.rev, ir |-> EmptyIr, todo |-> {}, ents |-> {},
                   files |-> {}, clean |-> TRUE]
      BY <2>2 DEF StartIncremental, NoRun
    <3>. QED  BY <1>2, <3>1, EmptyTree DEF IngRun, CleanInv
  <2>. QED  BY <2>1, <2>2
<1>. QED  BY <1>1, <1>4, IngMoves DEF IngInv, IngShape

LEMMA IngScans ==
    ASSUME IngInv, ScanAndTrack
    PROVE  IngInv'
<1>1. UNCHANGED <<tree, entKo, fileKo, dirKo>> /\ irun.pc = "scan"
  BY DEF ScanAndTrack
<1>2. track \in 0 .. MaxRevs /\ tree \in [rev : 1 .. MaxRevs, ir : Trees] /\ irun.ents = {}
  BY <1>1 DEF IngInv, IngShape, CleanInv
<1>3. CASE tree.ir.files = {}
  BY <1>1, <1>2, <1>3, IngRests DEF ScanAndTrack
<1>4. CASE tree.ir.files # {}
  <2>1. /\ irun' = [irun EXCEPT !.pc = "entity", !.ir = tree.ir, !.todo = Defined(tree.ir)]
        /\ track' = irun.rev
    BY <1>4 DEF ScanAndTrack
  <2>2. irun \in IngRun /\ track' \in 0 .. MaxRevs /\ tree.ir \in Trees
    BY <2>1, IngTyped DEF IngInv, IngShape
  <2>3. Defined(tree.ir) \subseteq Docs \cup Entities
    BY <2>2, TreeIs
  <2>4. irun' \in IngRun
    BY <2>1, <2>2, <2>3 DEF IngRun
  <2>5. /\ irun'.pc = "entity" /\ irun'.ir = tree.ir /\ irun'.todo = Defined(tree.ir)
        /\ irun'.ents = {}
    BY <1>2, <2>1, <2>2 DEF IngRun
  <2>6. CleanInv'
    BY <2>5 DEF CleanInv
  <2>. QED  BY <1>1, <1>2, <2>2, <2>4, <2>6, IngMoves
<1>. QED  BY <1>3, <1>4

\* A call that stores an entity, a file or an edge takes its object from the run's list.
LEMMA IngEntities ==
    ASSUME IngInv, NEW e \in Entities, StoreEntity(e)
    PROVE  IngInv'
<1>1. UNCHANGED <<tree, track, fileKo, dirKo>> /\ irun.pc = "entity" /\ e \in irun.todo
  BY DEF StoreEntity
<1>2. irun' = [irun EXCEPT !.todo = @ \ {e}, !.ents = @ \cup {e}] /\ irun \in IngRun
  BY DEF StoreEntity, IngInv, IngShape
<1>3. /\ irun'.pc = "entity" /\ irun'.ir = irun.ir /\ irun'.clean = irun.clean
      /\ irun'.todo = irun.todo \ {e} /\ irun'.ents = irun.ents \cup {e}
  BY <1>1, <1>2 DEF IngRun
<1>4. irun' \in IngRun
  BY <1>2 DEF IngRun
<1>5. \A x \in Entities : entKo'[x] = IF x = e THEN [on |-> TRUE, text |-> irun.ir.text[e], rels |-> {}]
                                       ELSE entKo[x]
  BY DEF StoreEntity, StoredEntity, IngInv, IngShape
<1>6. IngShape'
  <2>1. irun.ir.text[e] \in Texts \cup {NoText}
    <3>1. irun.ir \in Irs
      BY IngTyped, TreeIs DEF IngInv
    <3>. QED  BY <3>1 DEF Irs
  <2>2. entKo' \in [Entities -> [on : BOOLEAN, text : Texts \cup {NoText}, rels : SUBSET Entities]]
    BY <2>1 DEF StoreEntity, StoredEntity, IngInv, IngShape
  <2>. QED  BY <1>1, <1>4, <2>2 DEF IngInv, IngShape
<1>7. CleanInv'
  <2>. SUFFICES ASSUME irun.clean
                PROVE  /\ irun'.todo \subseteq Defined(irun.ir)
                       /\ irun'.ents = Defined(irun.ir) \ irun'.todo
                       /\ \A x \in irun'.ents : entKo'[x] = [on |-> TRUE, text |-> irun.ir.text[x], rels |-> {}]
    BY <1>3 DEF CleanInv, EntityIs
  <2>1. /\ irun.todo \subseteq Defined(irun.ir) /\ irun.ents = Defined(irun.ir) \ irun.todo
        /\ \A x \in irun.ents : entKo[x] = [on |-> TRUE, text |-> irun.ir.text[x], rels |-> {}]
    BY <1>1 DEF IngInv, CleanInv, EntityIs
  <2>2. irun.ents \subseteq Entities
    BY IngTyped DEF IngInv
  <2>. QED  BY <1>1, <1>3, <1>5, <2>1, <2>2
<1>. QED  BY <1>6, <1>7 DEF IngInv

LEMMA IngWalks ==
    ASSUME IngInv, WalkFiles
    PROVE  IngInv'
<1>1. UNCHANGED <<tree, track, entKo, fileKo, dirKo>> /\ irun.pc = "entity" /\ irun.todo = {}
  BY DEF WalkFiles
<1>. DEFINE fs == tree.ir.files \cup {e[1] : e \in irun.ents}
<1>2. irun' = [irun EXCEPT !.pc = "file", !.todo = fs] /\ irun \in IngRun
  BY DEF WalkFiles, IngInv, IngShape
<1>3. fs \subseteq Docs \cup Entities
  <2>1. tree.ir.files \subseteq Docs /\ irun.ents \subseteq Entities
    BY IngTyped, TreeIs DEF IngInv
  <2>. QED  BY <2>1 DEF Entities
<1>4. \A e \in irun.ents : e[1] \in fs
  OBVIOUS
<1>. HIDE DEF fs
<1>5. irun' \in IngRun
  BY <1>2, <1>3 DEF IngRun
<1>6. /\ irun'.pc = "file" /\ irun'.ir = irun.ir /\ irun'.clean = irun.clean
      /\ irun'.todo = fs /\ irun'.ents = irun.ents
  BY <1>2 DEF IngRun
<1>7. CleanInv'
  BY <1>1, <1>4, <1>6 DEF IngInv, CleanInv, EntityIs
<1>. QED  BY <1>1, <1>5, <1>7, IngMoves DEF IngInv, IngShape

LEMMA IngFiles ==
    ASSUME IngInv, NEW d \in Docs, StoreFile(d)
    PROVE  IngInv'
<1>1. UNCHANGED <<tree, track, entKo, dirKo>> /\ irun.pc = "file" /\ d \in irun.todo
  BY DEF StoreFile
<1>2. irun' = [irun EXCEPT !.todo = @ \ {d}, !.files = @ \cup {d}] /\ irun \in IngRun
  BY DEF StoreFile, IngInv, IngShape
<1>3. /\ irun'.pc = "file" /\ irun'.ir = irun.ir /\ irun'.clean = irun.clean
      /\ irun'.todo = irun.todo \ {d} /\ irun'.files = irun.files \cup {d} /\ irun'.ents = irun.ents
  BY <1>1, <1>2 DEF IngRun
<1>4. irun' \in IngRun
  BY <1>2 DEF IngRun
<1>5. fileKo' \in [Docs -> [on : BOOLEAN, contains : SUBSET Entities]]
  BY DEF StoreFile, IngInv, IngShape
<1>6. CleanInv'
  BY <1>1, <1>3 DEF IngInv, CleanInv, EntityIs
<1>. QED  BY <1>1, <1>4, <1>5, <1>6 DEF IngInv, IngShape

LEMMA IngGroups ==
    ASSUME IngInv, GroupEdges
    PROVE  IngInv'
<1>1. UNCHANGED <<tree, track, entKo, fileKo, dirKo>> /\ irun.pc = "file" /\ irun.todo = {}
  BY DEF GroupEdges
<1>2. irun' = [irun EXCEPT !.pc = "edges", !.todo = Outbound] /\ irun \in IngRun
  BY DEF GroupEdges, IngInv, IngShape
<1>3. irun.files \subseteq Docs /\ irun.ents \subseteq Entities
  BY IngTyped DEF IngInv
<1>4. Outbound \subseteq Docs \cup Entities
  BY <1>3 DEF Outbound
<1>5. irun' \in IngRun
  BY <1>2, <1>4 DEF IngRun
<1>6. /\ irun'.pc = "edges" /\ irun'.ir = irun.ir /\ irun'.clean = irun.clean
      /\ irun'.todo = Outbound /\ irun'.files = irun.files /\ irun'.ents = irun.ents
  BY <1>2 DEF IngRun
<1>7. CleanInv'
  <2>. SUFFICES ASSUME irun.clean
                PROVE  /\ irun.ents = Defined(irun.ir)
                       /\ \A e \in irun.ents :
                             /\ EntityIs(e, IF e \in Outbound THEN {} ELSE UsedBy(e))
                             /\ e[1] \in Outbound
    BY <1>1, <1>6 DEF CleanInv, EntityIs, UsedBy
  <2>1. /\ irun.ents = Defined(irun.ir)
        /\ \A e \in irun.ents : EntityIs(e, {}) /\ e[1] \in irun.files
    BY <1>1 DEF IngInv, CleanInv
  <2>2. \A e \in irun.ents : e \in Outbound \/ UsedBy(e) = {}
    BY DEF Outbound
  <2>3. \A e \in irun.ents : e[1] \in Outbound
    BY <2>1 DEF Outbound, Contained
  <2>. QED  BY <2>1, <2>2, <2>3
<1>. QED  BY <1>1, <1>5, <1>7, IngMoves DEF IngInv, IngShape

LEMMA IngEdges ==
    ASSUME IngInv, NEW x \in Docs \cup Entities, StoreEdges(x)
    PROVE  IngInv'
<1>1. UNCHANGED <<tree, track, dirKo>> /\ irun.pc = "edges" /\ x \in irun.todo
  BY DEF StoreEdges
<1>2. irun' = [irun EXCEPT !.todo = @ \ {x}] /\ irun \in IngRun
  BY DEF StoreEdges, IngInv, IngShape
<1>3. /\ irun'.pc = "edges" /\ irun'.ir = irun.ir /\ irun'.clean = irun.clean
      /\ irun'.todo = irun.todo \ {x} /\ irun'.files = irun.files /\ irun'.ents = irun.ents
  BY <1>1, <1>2 DEF IngRun
<1>4. irun' \in IngRun
  BY <1>2 DEF IngRun
<1>5. irun.ents \subseteq Entities /\ Docs \cap Entities = {}
  BY IngTyped, IngestAssumption DEF IngInv, Entities
<1>6. /\ entKo \in [Entities -> [on : BOOLEAN, text : Texts \cup {NoText}, rels : SUBSET Entities]]
      /\ fileKo \in [Docs -> [on : BOOLEAN, contains : SUBSET Entities]]
  BY DEF IngInv, IngShape
<1>7. irun.clean =>
         /\ irun.ents = Defined(irun.ir)
         /\ \A e \in irun.ents :
               /\ entKo[e] = [on |-> TRUE, text |-> irun.ir.text[e],
                              rels |-> IF e \in irun.todo THEN {} ELSE UsedBy(e)]
               /\ e[1] \in irun.todo \/ fileKo[e[1]].contains = Contained(e[1])
  BY <1>1 DEF IngInv, CleanInv, EntityIs
<1>8. ASSUME \A e \in irun.ents : irun.clean =>
                /\ entKo'[e] = [on |-> TRUE, text |-> irun.ir.text[e],
                                rels |-> IF e \in irun'.todo THEN {} ELSE UsedBy(e)]
                /\ e[1] \in irun'.todo \/ fileKo'[e[1]].contains = Contained(e[1])
      PROVE  CleanInv'
  BY <1>3, <1>7, <1>8 DEF CleanInv, EntityIs, UsedBy, Contained
<1>9. \A e \in irun.ents : e[1] \in Docs /\ e \in Entities
  BY <1>5 DEF Entities
<1>10. CASE x \in Docs
  <2>1. entKo' = entKo /\ fileKo' = [fileKo EXCEPT ![x].contains = Contained(x)]
    BY <1>10 DEF StoreEdges
  <2>2. Contained(x) \subseteq Entities
    BY <1>5 DEF Contained
  <2>3. IngShape'
    BY <1>1, <1>4, <1>6, <2>1, <2>2 DEF IngInv, IngShape
  <2>4. \A d \in Docs : fileKo'[d].contains = IF d = x THEN Contained(x) ELSE fileKo[d].contains
    BY <1>6, <2>1
  <2>5. \A e \in irun.ents : e \in irun'.todo <=> e \in irun.todo
    BY <1>3, <1>5, <1>10
  <2>6. CleanInv'
    BY <1>3, <1>7, <1>8, <1>9, <2>1, <2>4, <2>5
  <2>. QED  BY <2>3, <2>6 DEF IngInv
<1>11. CASE x \notin Docs
  <2>1. fileKo' = fileKo /\ entKo' = [entKo EXCEPT ![x].rels = UsedBy(x)] /\ x \in Entities
    BY <1>11 DEF StoreEdges
  <2>2. UsedBy(x) \subseteq Entities
    BY <1>5 DEF UsedBy
  <2>3. IngShape'
    BY <1>1, <1>4, <1>6, <2>1, <2>2 DEF IngInv, IngShape
  <2>4. ASSUME irun.clean, NEW e \in irun.ents
        PROVE  /\ entKo'[e] = [on |-> TRUE, text |-> irun.ir.text[e],
                               rels |-> IF e \in irun'.todo THEN {} ELSE UsedBy(e)]
               /\ e[1] \in irun'.todo \/ fileKo'[e[1]].contains = Contained(e[1])
    <3>1. e[1] \in irun'.todo \/ fileKo'[e[1]].contains = Contained(e[1])
      BY <1>3, <1>7, <1>9, <1>11, <2>1, <2>4
    <3>2. CASE e = x
      <4>1. PICK t, u : t = irun.ir.text[e] /\ u = UsedBy(e)
        OBVIOUS
      <4>2. entKo[e] = [on |-> TRUE, text |-> t, rels |-> {}] /\ e \notin irun'.todo
        BY <1>1, <1>3, <1>7, <2>4, <3>2, <4>1
      <4>3. entKo'[e] = [entKo[e] EXCEPT !.rels = u]
        BY <1>6, <1>9, <2>1, <3>2, <4>1
      <4>4. entKo'[e] = [on |-> TRUE, text |-> t, rels |-> u]
        <5>1. PICK b : b = TRUE
          OBVIOUS
        <5>2. entKo[e] = [on |-> b, text |-> t, rels |-> {}]
          BY <4>2, <5>1
        <5>3. entKo'[e] = [on |-> b, text |-> t, rels |-> u]
          BY <4>3, <5>2
        <5>. QED  BY <5>1, <5>3
      <4>. QED  BY <3>1, <4>1, <4>2, <4>4
    <3>3. CASE e # x
      <4>1. entKo'[e] = entKo[e] /\ (e \in irun'.todo <=> e \in irun.todo)
        BY <1>3, <1>6, <1>9, <2>1, <3>3
      <4>. QED  BY <1>7, <2>4, <3>1, <4>1
    <3>. QED  BY <3>2, <3>3
  <2>5. CleanInv'
    BY <1>8, <2>4
  <2>. QED  BY <2>3, <2>5 DEF IngInv
<1>. QED  BY <1>10, <1>11

LEMMA IngSnapshots ==
    ASSUME IngInv, StoreSnapshot
    PROVE  IngInv'
<1>1. /\ UNCHANGED <<tree, track, entKo, fileKo>> /\ irun.pc = "edges" /\ irun.todo = {}
      /\ dirKo' = [on |-> TRUE, ir |-> irun.ir, files |-> {}, orphans |-> {}]
  BY DEF StoreSnapshot
<1>2. irun' = [irun EXCEPT !.pc = "dir"] /\ irun \in IngRun
  BY DEF StoreSnapshot, IngInv, IngShape
<1>3. /\ irun'.pc = "dir" /\ irun'.ir = irun.ir /\ irun'.clean = irun.clean /\ irun'.ents = irun.ents
  BY <1>2 DEF IngRun
<1>4. irun' \in IngRun /\ irun.ir \in Trees
  BY <1>2 DEF IngRun
<1>5. IngShape'
  BY <1>1, <1>4 DEF IngInv, IngShape
<1>6. CleanInv'
  BY <1>1, <1>3 DEF IngInv, CleanInv, EntityIs, UsedBy, Contained
<1>. QED  BY <1>5, <1>6 DEF IngInv

LEMMA IngFinishes ==
    ASSUME IngInv, FinishRun
    PROVE  IngInv'
<1>1. UNCHANGED <<tree, track, entKo, fileKo>> /\ irun' = NoRun
  BY DEF FinishRun
<1>2. irun' \in IngRun /\ irun'.pc = "idle"
  <2>1. 0 \in 0 .. MaxRevs
    BY IngestAssumption
  <2>. QED  BY <1>1, <2>1, EmptyTree DEF NoRun, IngRun
<1>3. dirKo' \in [on : BOOLEAN, ir : Trees, files : SUBSET Docs, orphans : SUBSET Entities]
  <2>1. irun.files \subseteq Docs /\ {e \in irun.ents : e[1] \notin irun.files} \subseteq Entities
    BY IngTyped DEF IngInv
  <2>. QED  BY <2>1 DEF FinishRun, IngInv, IngShape
<1>4. CleanInv'
  BY <1>2 DEF CleanInv
<1>. QED  BY <1>1, <1>2, <1>3, <1>4 DEF IngInv, IngShape

LEMMA IngFails ==
    ASSUME IngInv, CallFails \/ CutOff
    PROVE  IngInv'
<1>1. UNCHANGED <<tree, track, entKo, fileKo, dirKo>>
  BY DEF CallFails, CutOff
<1>2. tree \in [rev : 1 .. MaxRevs, ir : Trees] /\ track \in 0 .. MaxRevs /\ irun \in IngRun
  BY DEF IngInv, IngShape
<1>3. CASE irun' = NoRun
  BY <1>1, <1>2, <1>3, IngRests
<1>4. CASE irun' # NoRun
  <2>1. PICK x \in irun.todo : irun' = [irun EXCEPT !.todo = @ \ {x}, !.clean = FALSE]
    BY <1>4 DEF CallFails, CutOff
  <2>2. irun' \in IngRun /\ ~irun'.clean /\ irun'.pc = irun.pc /\ irun'.ents = irun.ents
    BY <1>2, <2>1 DEF IngRun
  <2>3. CleanInv'
    BY <2>2 DEF IngInv, CleanInv
  <2>. QED  BY <1>1, <1>2, <2>2, <2>3, IngMoves
<1>. QED  BY <1>3, <1>4

LEMMA IngSteps ==
    ASSUME IngInv, [IngNext]_ingVars
    PROVE  IngInv'
<1>1. CASE UNCHANGED ingVars
  <2>1. UNCHANGED <<tree, track, irun, entKo, fileKo, dirKo>>
    BY <1>1 DEF ingVars
  <2>2. IngShape'
    BY <2>1 DEF IngInv, IngShape
  <2>3. CleanInv'
    BY <2>1 DEF IngInv, CleanInv, EntityIs, UsedBy, Contained
  <2>. QED  BY <2>2, <2>3 DEF IngInv
<1>. QED  BY <1>1, IngTrees, IngStarts, IngScans, IngEntities, IngWalks, IngFiles, IngGroups, IngEdges,
             IngSnapshots, IngFinishes, IngFails DEF IngNext

\* A run that ends clean has stored the tree it compiled.
LEMMA IngHeals ==
    ASSUME IngInv, irun.clean, FinishRun, NEW ir, ir = irun.ir
    PROVE  Stored(ir)'
<1>1. /\ UNCHANGED <<entKo, fileKo>> /\ irun.pc = "dir" /\ ir \in Trees
      /\ dirKo' = [dirKo EXCEPT !.files = irun.files, !.orphans = {e \in irun.ents : e[1] \notin irun.files}]
  BY IngTyped DEF FinishRun, IngInv
<1>2. /\ irun.ents = Defined(ir) /\ dirKo.ir = ir
      /\ \A e \in Defined(ir) :
            /\ entKo[e] = [on |-> TRUE, text |-> ir.text[e], rels |-> UsedBy(e)]
            /\ fileKo[e[1]].contains = Contained(e[1])
  BY <1>1 DEF IngInv, CleanInv, EntityIs
<1>3. dirKo'.ir = ir
  BY <1>1, <1>2 DEF IngInv, IngShape
<1>4. \A e \in Defined(ir) : UsedBy(e) = {x \in Entities : <<e, x>> \in ir.uses}
  BY <1>1, <1>2, TreeIs DEF UsedBy
<1>5. \A d : Contained(d) = {e \in Defined(ir) : e[1] = d}
  BY <1>2 DEF Contained
<1>6. \A e \in Defined(ir) :
         entKo'[e] = [on |-> TRUE, text |-> ir.text[e], rels |-> {x \in Entities : <<e, x>> \in ir.uses}]
  BY <1>1, <1>2, <1>4
<1>7. \A d \in {e[1] : e \in Defined(ir)} : fileKo'[d].contains = {e \in Defined(ir) : e[1] = d}
  <2>. SUFFICES ASSUME NEW e \in Defined(ir), NEW d, d = e[1]
                PROVE  fileKo'[d].contains = {x \in Defined(ir) : x[1] = d}
    OBVIOUS
  <2>1. fileKo'[d].contains = Contained(d)
    BY <1>1, <1>2
  <2>. QED  BY <1>5, <2>1
<1>. QED  BY <1>3, <1>6, <1>7 DEF Stored

LEMMA IngPromised ==
    ASSUME IngInv, IngInv', [IngNext]_ingVars
    PROVE  IngTypeOK' /\ RunHeals
<1>1. IngTypeOK'
  BY DEF IngInv, IngShape, IngRun, IngTypeOK
<1>2. RunHeals
  BY IngHeals DEF RunHeals
<1>. QED  BY <1>1, <1>2

\* Whatever earlier runs left behind, a run none of whose calls fails ends with the
\* kernel holding the tree it compiled.
THEOREM RunsHeal == IngSpec => IngestPromise
<1>1. IngInit => IngInv
  BY IngInitial
<1>2. IngInv /\ [IngNext]_ingVars => IngInv'
  BY IngSteps
<1>3. IngInv /\ IngInv' /\ [IngNext]_ingVars => [IngTypeOK' /\ RunHeals]_ingVars
  BY IngPromised
<1>. QED  BY <1>1, <1>2, <1>3, PTL DEF IngSpec, IngestPromise

-----------------------------------------------------------------------------
(* Knowledge *)

Statuses == {"none", "asserted", "verified", "contradicted", "superseded"}
Claim == [st : Statuses, born : Nat, ended : Nat, closed : BOOLEAN, inv : BOOLEAN,
          by : Kos \cup {NoKo}, part : BOOLEAN, of : Kos \cup {NoKo}]
Request == [pc : {"idle", "confirm", "conflict", "sideA", "transition", "evidence", "row", "stamp",
                  "sweep", "sweepNext", "record", "partition", "replaceB"},
            kind : {"none", "verify", "contradict", "split", "supersede", "supersedeBy", "invalidate",
                    "prefer", "both", "replace"},
            k : Kos \cup {NoKo}, succ : Kos \cup {NoKo}, key : KnKeys \cup {NoKo}, pin : Nat,
            next : SUBSET Kos, todo : SUBSET Kos, stamped : SUBSET Kos, ok : BOOLEAN]
Superseding == {"supersede", "supersedeBy"}

\* A conflict is between claims that exist.
ClaimsOf(c) == conflicts[c].res # "none" => /\ conflicts[c].a \in Kos /\ Known(conflicts[c].a)
                                            /\ conflicts[c].b \in Kos /\ Known(conflicts[c].b)
KnShape ==
    /\ ko \in [Kos -> Claim] /\ knTs \in Nat
    /\ \A e \in derivedFrom : \E x, d \in Kos : e = <<x, d>> /\ Known(x) /\ Known(d)
    /\ conflicts \in [Kos -> [a : Kos \cup {NoKo}, b : Kos \cup {NoKo},
                              res : {"none", "unresolved", "prefer", "both", "replace"}]]
    /\ \A c \in Kos : ClaimsOf(c)
    /\ knIdem \in [KnKeys -> [cell : Kos \cup {NoKo}, kind : {"none", "split"} \cup Superseding]]
    /\ op \in Request

\* n was created as the successor of a claim that was superseded at the same instant.
Linked(n) ==
    /\ n \in Kos /\ Known(n) /\ ko[n].born > 0 /\ ko[n].of \in Kos
    /\ ko[ko[n].of].st = "superseded" /\ ko[ko[n].of].ended = ko[n].born

\* Answered and recorded successors are linked, and an answer is the one its key has.
AnswerInv ==
    /\ \A i \in KnKeys : knIdem[i].kind = "supersede" => Linked(knIdem[i].cell)
    /\ \A r \in replied : r.kind = "supersede" => Linked(r.new)
    /\ \A r \in replied : r.kind \in Superseding /\ r.key # NoKo =>
          r.key \in KnKeys /\ knIdem[r.key].cell = r.new /\ knIdem[r.key].kind = r.kind

\* What the holder of the pipe may rely on.
OpInv ==
    /\ op.pc = "idle" => op = KnIdle
    /\ op.pc # "idle" => op.k \in Kos
    /\ op.pc = "confirm" => op.kind = "verify"
    /\ op.pc = "conflict" => op.kind = "contradict" /\ Known(op.k) /\ op.succ \in Kos /\ Known(op.succ)
    /\ op.pc = "sideA" => op.kind = "split"
    /\ op.pc \in {"transition", "evidence", "row"} => op.kind \in Superseding
    /\ op.pc = "stamp" => op.kind = "invalidate" /\ op.ok /\ op.stamped = {}
    /\ op.pc = "sweep" => op.kind \in Superseding \cup {"invalidate", "replace"}
    /\ op.pc \in {"record", "partition"} => op.kind \in {"prefer", "both", "replace"}
    /\ op.pc \in {"replaceB", "sweepNext"} => op.kind = "replace"
    /\ op.kind \in {"prefer", "both", "replace"} => op.k \in Kos /\ conflicts[op.k].res # "none"
    /\ op.kind \in Superseding => op.key = NoKo \/ ~HasRow(op.key)

\* A supersession under way: before its transition and after.
LinkInv ==
    /\ op.pc = "transition" =>
          /\ ko[op.k].st \notin {"none", "superseded"} /\ op.pin > 0 /\ op.ok /\ op.stamped = {}
          /\ op.kind = "supersede" => /\ op.succ \in Kos /\ Known(op.succ) /\ op.succ # op.k
                                      /\ ko[op.succ].of = op.k /\ ko[op.succ].born = op.pin
    /\ op.pc \in {"sweep", "evidence", "row"} /\ op.kind = "supersede" => Linked(op.succ)

\* Whatever is derived from what a sweep has stamped or will stamp, it has or will.
SweepInv ==
    op.pc = "sweep" /\ op.kind # "replace" /\ op.ok =>
        \A x \in {op.k} \cup op.todo \cup op.stamped : \A d \in Kos :
            <<x, d>> \in derivedFrom => ko[d].inv \/ d \in op.todo

KnInvariant == KnShape /\ AnswerInv /\ OpInv /\ LinkInv /\ SweepInv

-----------------------------------------------------------------------------

\* What no step does to a claim: forget it, its origin, its stamp or its supersession.
ClaimsGrow ==
    /\ ko' \in [Kos -> Claim]
    /\ \A k \in Kos : Known(k) => /\ ko'[k].st # "none"
                                  /\ ko'[k].of = ko[k].of /\ ko'[k].born = ko[k].born
                                  /\ ko[k].inv => ko'[k].inv
    /\ \A k \in Kos : ko[k].st = "superseded" =>
          ko'[k].st = "superseded" /\ ko'[k].ended = ko[k].ended
\* r may replace the claim c.
Follows(c, r) ==
    /\ r \in Claim
    /\ c.st # "none" => r.st # "none" /\ r.of = c.of /\ r.born = c.born /\ (c.inv => r.inv)
    /\ c.st = "superseded" => r.st = "superseded" /\ r.ended = c.ended

LEMMA OneClaim ==
    ASSUME KnShape, NEW k \in Kos, NEW r, Follows(ko[k], r), ko' = [ko EXCEPT ![k] = r]
    PROVE  ClaimsGrow
<1>1. ko \in [Kos -> Claim]
  BY DEF KnShape
<1>2. \A x \in Kos : ko'[x] = IF x = k THEN r ELSE ko[x]
  BY <1>1
<1>3. ko' \in [Kos -> Claim]
  BY <1>1 DEF Follows
<1>. QED  BY <1>2, <1>3 DEF ClaimsGrow, Follows, Known

LEMMA NoClaimMoves == ASSUME KnShape, UNCHANGED ko PROVE ClaimsGrow
BY DEF KnShape, ClaimsGrow, Known

LEMMA LinkedStays == ASSUME KnShape, ClaimsGrow, NEW n, Linked(n) PROVE Linked(n)'
<1>1. n \in Kos /\ Known(n) /\ ko[n].of \in Kos
  BY DEF Linked
<1>2. ko'[n].of = ko[n].of /\ ko'[n].born = ko[n].born /\ ko'[n].st # "none"
  BY <1>1 DEF ClaimsGrow
<1>. QED  BY <1>1, <1>2 DEF Linked, ClaimsGrow, Known

\* A step that answers nobody and puts no row.
LEMMA AnswersStay ==
    ASSUME KnShape, AnswerInv, ClaimsGrow, UNCHANGED <<knIdem, replied>>
    PROVE  AnswerInv'
BY LinkedStays DEF AnswerInv

\* An answer to another request than a supersession.
LEMMA OtherAnswers ==
    ASSUME KnShape, AnswerInv, ClaimsGrow, UNCHANGED knIdem, NEW new, Answer(new), op.kind \notin Superseding
    PROVE  AnswerInv'
<1>1. \A r \in replied' : r \in replied \/ r.kind \notin Superseding
  BY DEF Answer
<1>. QED  BY <1>1, LinkedStays DEF AnswerInv, Superseding

\* The edges between known claims.
LEMMA EdgesStay ==
    ASSUME KnShape, ClaimsGrow, UNCHANGED derivedFrom
    PROVE  \A e \in derivedFrom' : \E x, d \in Kos : e = <<x, d>> /\ Known(x)' /\ Known(d)'
BY DEF KnShape, ClaimsGrow, Known

LEMMA FreshIs ==
    ASSUME FreeKos # {}
    PROVE  NewKo \in Kos /\ ~Known(NewKo) /\ conflicts[NewKo].res = "none"
BY DEF NewKo, FreeKos

-----------------------------------------------------------------------------
(* Claims *)

LEMMA FreshClaim ==
    ASSUME NEW ts \in Nat, NEW part \in BOOLEAN, NEW r, r = KnFresh(ts, part)
    PROVE  r \in Claim /\ r.st = "asserted" /\ r.born = ts /\ r.of = NoKo
<1>1. PICK f : f = FALSE
  OBVIOUS
<1>2. r = [st |-> "asserted", born |-> ts, ended |-> 0, closed |-> f, inv |-> f, by |-> NoKo,
           part |-> part, of |-> NoKo]
  BY <1>1 DEF KnFresh, NoClaim
<1>3. f \in BOOLEAN
  BY <1>1
<1>. QED  BY <1>2, <1>3 DEF Claim, Statuses

LEMMA CommitTime == ASSUME KnShape PROVE CommitTs \in Nat
BY DEF KnShape, CommitTs, Request

\* A transition of a claim that is not dead.
LEMMA MovedFollows ==
    ASSUME KnShape, NEW k \in Kos, NEW to \in Statuses \ {"none"}, NEW by \in Kos \cup {NoKo},
           ko[k].st \notin {"none", "superseded"}
    PROVE  /\ Follows(ko[k], Moved(k, to, by)) /\ Moved(k, to, by).st = to
           /\ to = "superseded" => Moved(k, to, by).ended = CommitTs
<1>. PICK c \in Claim : c = ko[k]
  BY DEF KnShape
<1>. PICK b \in BOOLEAN : b = (c.closed \/ to = "superseded")
  OBVIOUS
<1>. PICK e : e = IF to = "superseded" THEN CommitTs ELSE c.ended
  OBVIOUS
<1>. PICK y : y = IF to = "superseded" THEN by ELSE c.by
  OBVIOUS
<1>1. e \in Nat /\ y \in Kos \cup {NoKo}
  BY CommitTime DEF Claim
<1>2. Moved(k, to, by) = [c EXCEPT !.st = to, !.ended = e, !.closed = b, !.by = y]
  BY DEF Moved
<1>. PICK m : m = [c EXCEPT !.st = to, !.ended = e, !.closed = b, !.by = y]
  OBVIOUS
<1>3. m \in Claim /\ m.st = to /\ m.ended = e /\ m.of = c.of /\ m.born = c.born /\ m.inv = c.inv
  <2>1. c.st \in Statuses /\ c.born \in Nat /\ c.inv \in BOOLEAN /\ c.part \in BOOLEAN
        /\ c.of \in Kos \cup {NoKo}
    BY DEF Claim
  <2>2. m = [st |-> to, born |-> c.born, ended |-> e, closed |-> b, inv |-> c.inv, by |-> y,
             part |-> c.part, of |-> c.of]
    BY DEF Claim
  <2>. QED  BY <1>1, <2>1, <2>2 DEF Claim
<1>. QED  BY <1>2, <1>3 DEF Follows, Statuses

LEMMA IfLegalFollows ==
    ASSUME KnShape, NEW k \in Kos, NEW to \in {"contradicted", "superseded"}, NEW by \in Kos \cup {NoKo},
           ko[k].st # "none"
    PROVE  Follows(ko[k], IfLegal(k, to, by))
<1>1. CASE ko[k].st = to \/ ko[k].st = "superseded"
  BY <1>1 DEF IfLegal, Follows, KnShape
<1>2. CASE ~ (ko[k].st = to \/ ko[k].st = "superseded")
  <2>1. to \in Statuses \ {"none"}
    BY DEF Statuses
  <2>. QED  BY <1>2, <2>1, MovedFollows DEF IfLegal
<1>. QED  BY <1>1, <1>2

LEMMA StampedFollows ==
    ASSUME KnShape, NEW k \in Kos PROVE Follows(ko[k], Stamped(k)) /\ Stamped(k).inv
<1>. PICK c \in Claim : c = ko[k]
  BY DEF KnShape
<1>. PICK b \in BOOLEAN : b = TRUE
  OBVIOUS
<1>. PICK m : m = [c EXCEPT !.inv = b, !.closed = b]
  OBVIOUS
<1>1. m \in Claim /\ m.st = c.st /\ m.ended = c.ended /\ m.of = c.of /\ m.born = c.born /\ m.inv
  BY DEF Claim
<1>2. Stamped(k) = m
  BY DEF Stamped
<1>. QED  BY <1>1, <1>2 DEF Follows

LEMMA FieldFollows ==
    ASSUME KnShape, NEW k \in Kos, NEW b \in BOOLEAN
    PROVE  /\ Follows(ko[k], [ko[k] EXCEPT !.part = b]) /\ Follows(ko[k], [ko[k] EXCEPT !.closed = b])
           /\ \A to \in Statuses \ {"none"} :
                 ko[k].st # "superseded" => Follows(ko[k], [ko[k] EXCEPT !.st = to])
<1>. PICK c \in Claim : c = ko[k]
  BY DEF KnShape
<1>. QED  BY DEF Follows, Claim, Statuses

LEMMA IdleRequest ==
    /\ KnIdle \in Request /\ KnIdle.pc = "idle" /\ KnIdle.kind = "none"
    /\ KnIdle.ok /\ KnIdle.stamped = {} /\ KnIdle.todo = {}
<1>1. PICK b \in BOOLEAN : b = TRUE
  OBVIOUS
<1>2. KnIdle = [pc |-> "idle", kind |-> "none", k |-> NoKo, succ |-> NoKo, key |-> NoKo, pin |-> 0,
                next |-> {}, todo |-> {}, stamped |-> {}, ok |-> b]
  BY <1>1 DEF KnIdle
<1>. QED  BY <1>1, <1>2 DEF Request

-----------------------------------------------------------------------------
(* Steps *)

NewRequest(pc, kind, k, succ, key, pin) ==
    [pc |-> pc, kind |-> kind, k |-> k, succ |-> succ, key |-> key, pin |-> pin,
     next |-> {}, todo |-> {}, stamped |-> {}, ok |-> TRUE]

LEMMA ConflictsStay ==
    ASSUME KnShape, ClaimsGrow, UNCHANGED conflicts PROVE \A c \in Kos : ClaimsOf(c)'
BY DEF KnShape, ClaimsGrow, Known, ClaimsOf

LEMMA ShapeStays ==
    ASSUME KnShape, ClaimsGrow, knTs' \in Nat, op' \in Request, UNCHANGED <<derivedFrom, conflicts, knIdem>>
    PROVE  KnShape'
<1>1. ko' \in [Kos -> Claim]
  BY DEF ClaimsGrow
<1>2. \A c \in Kos : ClaimsOf(c)'
  BY ConflictsStay
<1>. QED  BY <1>1, <1>2, EdgesStay DEF KnShape

LEMMA NobodyHolds == ASSUME op' = KnIdle PROVE OpInv' /\ LinkInv' /\ SweepInv'
BY IdleRequest DEF OpInv, LinkInv, SweepInv, Superseding

LEMMA KnInitial == KnInit => KnInvariant
<1>. SUFFICES ASSUME KnInit PROVE KnInvariant
  OBVIOUS
<1>1. PICK t \in BOOLEAN : t = TRUE
  OBVIOUS
<1>2. PICK f \in BOOLEAN : f = FALSE
  OBVIOUS
<1>3. NoClaim \in Claim
  <2>1. NoClaim = [st |-> "none", born |-> 0, ended |-> 0, closed |-> f, inv |-> f, by |-> NoKo,
                   part |-> f, of |-> NoKo]
    BY <1>2 DEF NoClaim
  <2>. QED  BY <2>1 DEF Claim, Statuses
<1>4. KnFresh(1, TRUE) \in Claim /\ KnFresh(1, TRUE).st = "asserted"
  BY FreshClaim
<1>5. ko \in [Kos -> Claim] /\ \A k \in FirstKos : Known(k)
  BY <1>3, <1>4, KnAssumption DEF KnInit, Known
<1>6. \A e \in derivedFrom : \E x, d \in Kos : e = <<x, d>> /\ Known(x) /\ Known(d)
  BY <1>5, KnAssumption DEF KnInit
<1>7. KnShape
  BY <1>5, <1>6, IdleRequest DEF KnInit, KnShape, ClaimsOf
<1>8. AnswerInv
  BY DEF KnInit, AnswerInv
<1>9. OpInv /\ LinkInv /\ SweepInv
  BY IdleRequest DEF KnInit, OpInv, LinkInv, SweepInv, Superseding
<1>. QED  BY <1>7, <1>8, <1>9 DEF KnInvariant

LEMMA DeriveKeeps == ASSUME KnInvariant, NEW j \in Kos, NEW k \in Kos, Derive({j, k}) PROVE KnInvariant'
<1>. PICK n : n = NewKo
  OBVIOUS
<1>0. op = KnIdle /\ UNCHANGED <<conflicts, knIdem, op, replied>> /\ knTs' = knTs + 1 /\ knTs \in Nat
      /\ Known(j) /\ Known(k) /\ ko' = [ko EXCEPT ![n] = KnFresh(knTs + 1, FALSE)]
      /\ derivedFrom' = derivedFrom \cup ({j, k} \X {n}) /\ FreeKos # {}
  BY DEF Derive, DeriveHasPipe, PipeFree, KnInvariant, OpInv, KnShape
<1>1. n \in Kos /\ ~Known(n)
  BY <1>0, FreshIs
<1>2. KnFresh(knTs + 1, FALSE) \in Claim /\ KnFresh(knTs + 1, FALSE).st = "asserted"
  <2>1. knTs + 1 \in Nat /\ FALSE \in BOOLEAN
    BY <1>0
  <2>. QED  BY <2>1, FreshClaim
<1>3. Follows(ko[n], KnFresh(knTs + 1, FALSE))
  BY <1>1, <1>2 DEF Follows, Known
<1>4. ClaimsGrow
  BY <1>0, <1>1, <1>3, OneClaim DEF KnInvariant
<1>5. KnShape'
  <2>1. ASSUME NEW e \in derivedFrom' PROVE \E x, d \in Kos : e = <<x, d>> /\ Known(x)' /\ Known(d)'
    <3>1. CASE e \in derivedFrom
      BY <3>1, <1>4 DEF KnInvariant, KnShape, ClaimsGrow, Known
    <3>2. CASE e \notin derivedFrom
      <4>1. PICK x \in {j, k} : e = <<x, n>>
        BY <2>1, <3>2, <1>0
      <4>2. Known(n)' /\ Known(x)'
        <5>1. ko'[n].st = "asserted"
          BY <1>0, <1>1, <1>2 DEF KnInvariant, KnShape
        <5>2. x \in Kos /\ Known(x)
          BY <1>0
        <5>. QED  BY <1>4, <5>1, <5>2 DEF ClaimsGrow, Known
      <4>. QED  BY <1>1, <4>1, <4>2
    <3>. QED  BY <3>1, <3>2
  <2>2. ko' \in [Kos -> Claim] /\ knTs' \in Nat
    <3>1. knTs' \in Nat
      BY <1>0
    <3>. QED  BY <1>4, <3>1 DEF ClaimsGrow
  <2>3. \A c \in Kos : ClaimsOf(c)'
    BY <1>0, <1>4, ConflictsStay DEF KnInvariant
  <2>. QED  BY <1>0, <2>1, <2>2, <2>3 DEF KnInvariant, KnShape
<1>. QED  BY <1>0, <1>4, <1>5, AnswersStay, NobodyHolds DEF KnInvariant

LEMMA TransitionKeeps ==
    ASSUME KnInvariant, NEW k \in Kos, NEW to \in {"asserted", "verified", "contradicted", "superseded"},
           NEW by \in Kos \cup {NoKo}, Transition(k, to, by)
    PROVE  KnInvariant'
<1>0. op = KnIdle /\ UNCHANGED <<derivedFrom, conflicts, knIdem, op, replied>> /\ knTs' = knTs + 1 /\ knTs \in Nat
      /\ ko' = [ko EXCEPT ![k] = Moved(k, to, by)]
  BY DEF Transition, KnBegin, PipeFree, KnInvariant, OpInv, KnShape
<1>1. ko[k].st \notin {"none", "superseded"} /\ to \in Statuses \ {"none"}
  BY DEF Transition, CanBecome, Known, Statuses
<1>2. ClaimsGrow
  BY <1>0, <1>1, MovedFollows, OneClaim DEF KnInvariant
<1>3. KnShape'
  BY <1>0, <1>2, IdleRequest, ShapeStays DEF KnInvariant
<1>. QED  BY <1>0, <1>2, <1>3, AnswersStay, NobodyHolds DEF KnInvariant

\* The end of a request that is not a supersession, with nothing more to commit.
LEMMA EndKeeps ==
    ASSUME KnInvariant, ClaimsGrow, knTs' \in Nat, UNCHANGED <<derivedFrom, conflicts, knIdem>>,
           op.kind \notin Superseding, NEW new, Answer(new)
    PROVE  KnInvariant'
<1>1. op' = KnIdle
  BY DEF Answer
<1>2. KnShape'
  BY <1>1, IdleRequest, ShapeStays DEF KnInvariant
<1>. QED  BY <1>1, <1>2, OtherAnswers, NobodyHolds DEF KnInvariant

\* A step of a request that answers nobody, when its part of the invariant holds.
LEMMA StepKeeps ==
    ASSUME KnInvariant, ClaimsGrow, knTs' \in Nat, op' \in Request,
           UNCHANGED <<derivedFrom, conflicts, knIdem, replied>>, OpInv', LinkInv', SweepInv'
    PROVE  KnInvariant'
BY ShapeStays, AnswersStay DEF KnInvariant

LEMMA VerifyKeeps == ASSUME KnInvariant, NEW k \in Kos, Verify(k) PROVE KnInvariant'
<1>0. UNCHANGED <<derivedFrom, conflicts, knIdem, replied>> /\ knTs \in Nat
      /\ ko' = [ko EXCEPT ![k] = [ko[k] EXCEPT !.st = "verified"]] /\ knTs' \in {knTs, knTs + 1}
  BY DEF Verify, KnBegin, KnInvariant, KnShape
<1>1. ko[k].st # "superseded" /\ "verified" \in Statuses \ {"none"}
  BY DEF Verify, CanBecome, Statuses
<1>2. ClaimsGrow
  BY <1>0, <1>1, FieldFollows, OneClaim DEF KnInvariant
<1>3. op' = NewRequest("confirm", "verify", k, NoKo, NoKo, 0)
  BY DEF Verify, KnIdle, NewRequest
<1>4. op' \in Request /\ op'.pc = "confirm" /\ op'.kind = "verify" /\ op'.k = k
  <2>1. PICK b \in BOOLEAN : b = TRUE
    OBVIOUS
  <2>. QED  BY <1>2, <1>3, <2>1 DEF NewRequest, Request
<1>5. OpInv' /\ LinkInv' /\ SweepInv'
  BY <1>4 DEF OpInv, LinkInv, SweepInv, Superseding
<1>6. knTs' \in Nat
  BY <1>0
<1>. QED  BY <1>0, <1>2, <1>4, <1>5, <1>6, StepKeeps

LEMMA ConfirmKeeps == ASSUME KnInvariant, Confirm PROVE KnInvariant'
<1>1. ClaimsGrow /\ knTs' \in Nat /\ op.kind \notin Superseding
      /\ UNCHANGED <<derivedFrom, conflicts, knIdem>> /\ Answer(NoKo)
  BY NoClaimMoves, CommitTime DEF Confirm, KnCommit, KnInvariant, OpInv, Superseding
<1>. QED  BY <1>1, EndKeeps

\* A claim created under an id not in use.
LEMMA Creates ==
    ASSUME KnInvariant, FreeKos # {}, NEW r \in Claim, ko' = [ko EXCEPT ![NewKo] = r]
    PROVE  /\ ClaimsGrow /\ NewKo \in Kos /\ ~Known(NewKo) /\ ko'[NewKo] = r
           /\ conflicts[NewKo].res = "none"
<1>1. NewKo \in Kos /\ ~Known(NewKo) /\ conflicts[NewKo].res = "none"
  BY FreshIs
<1>2. Follows(ko[NewKo], r)
  BY <1>1 DEF Follows, Known
<1>3. ClaimsGrow
  BY <1>1, <1>2, OneClaim DEF KnInvariant
<1>. QED  BY <1>1, <1>3 DEF KnInvariant, KnShape

LEMMA ContradictKeeps == ASSUME KnInvariant, NEW k \in Kos, Contradict(k) PROVE KnInvariant'
<1>. PICK n, r : n = NewKo /\ r = KnFresh(knTs + 1, FALSE)
  OBVIOUS
<1>0. UNCHANGED <<derivedFrom, conflicts, knIdem, replied>> /\ knTs + 1 \in Nat /\ knTs' = knTs + 1
      /\ ko' = [ko EXCEPT ![NewKo] = r] /\ FreeKos # {} /\ Known(k)
  BY DEF Contradict, KnBegin, KnInvariant, KnShape
<1>1. r \in Claim /\ r.st = "asserted"
  BY <1>0, FreshClaim
<1>2. ClaimsGrow /\ n \in Kos /\ ko'[n] = r
  BY <1>0, <1>1, Creates
<1>3. op' = NewRequest("conflict", "contradict", k, n, NoKo, 0)
  BY DEF Contradict, KnIdle, NewRequest
<1>4. op' \in Request /\ op'.pc = "conflict" /\ op'.kind = "contradict" /\ op'.k = k /\ op'.succ = n
  <2>1. PICK b \in BOOLEAN : b = TRUE
    OBVIOUS
  <2>. QED  BY <1>2, <1>3, <2>1 DEF NewRequest, Request
<1>5. ko'[k].st # "none" /\ ko'[n].st # "none"
  BY <1>0, <1>1, <1>2 DEF ClaimsGrow
<1>6. OpInv' /\ LinkInv' /\ SweepInv'
  BY <1>2, <1>4, <1>5 DEF OpInv, LinkInv, SweepInv, Superseding, Known
<1>. QED  BY <1>0, <1>2, <1>4, <1>6, StepKeeps

LEMMA PutConflictKeeps == ASSUME KnInvariant, PutConflict PROVE KnInvariant'
<1>. PICK n : n = NewKo
  OBVIOUS
<1>. PICK q : q = [a |-> op.k, b |-> op.succ, res |-> "unresolved"]
  OBVIOUS
<1>0. UNCHANGED <<ko, derivedFrom, knIdem>> /\ knTs' \in Nat /\ op' = KnIdle /\ FreeKos # {}
      /\ conflicts' = [conflicts EXCEPT ![n] = q]
  BY CommitTime DEF PutConflict, KnCommit, Answer, KnInvariant
<1>1. op.k \in Kos /\ Known(op.k) /\ op.succ \in Kos /\ Known(op.succ) /\ op.kind \notin Superseding
  BY DEF PutConflict, KnInvariant, OpInv, Superseding
<1>2. ClaimsGrow /\ n \in Kos
  BY <1>0, NoClaimMoves, FreshIs DEF KnInvariant
<1>3. conflicts' \in [Kos -> [a : Kos \cup {NoKo}, b : Kos \cup {NoKo},
                              res : {"none", "unresolved", "prefer", "both", "replace"}]]
  BY <1>0, <1>1, <1>2 DEF KnInvariant, KnShape
<1>4. \A c \in Kos : ClaimsOf(c)'
  BY <1>0, <1>1, <1>2 DEF KnInvariant, KnShape, ClaimsOf, Known
<1>5. KnShape'
  BY <1>0, <1>2, <1>3, <1>4, IdleRequest, EdgesStay DEF KnInvariant, KnShape, ClaimsGrow
<1>6. AnswerInv'
  BY <1>0, <1>1, <1>2, OtherAnswers DEF PutConflict, KnInvariant
<1>. QED  BY <1>0, <1>5, <1>6, NobodyHolds DEF KnInvariant

LEMMA ReplayKeeps ==
    ASSUME KnInvariant, NEW k \in Kos, NEW key \in KnKeys \cup {NoKo}, Replay(k, key) PROVE KnInvariant'
<1>. PICK q : q = [kind |-> knIdem[key].kind, key |-> key, old |-> k, new |-> knIdem[key].cell]
  OBVIOUS
<1>0. UNCHANGED <<ko, derivedFrom, conflicts, knIdem, op, knTs>> /\ replied' = replied \cup {q}
      /\ op = KnIdle /\ key \in KnKeys
  BY DEF Replay, HasRow, KnBegin, PipeFree, KnInvariant, OpInv
<1>1. ClaimsGrow
  BY <1>0, NoClaimMoves DEF KnInvariant
<1>2. KnShape'
  BY <1>0, <1>1, ShapeStays DEF KnInvariant, KnShape
<1>3. AnswerInv'
  <2>1. \A n : Linked(n)' <=> Linked(n)
    BY <1>0 DEF Linked, Known
  <2>2. q.kind = knIdem[key].kind /\ q.key = key /\ q.new = knIdem[key].cell
    OBVIOUS
  <2>. QED  BY <1>0, <2>1, <2>2 DEF KnInvariant, AnswerInv
<1>. QED  BY <1>0, <1>2, <1>3, NobodyHolds DEF KnInvariant

\* A row put under a key that has none.
LEMMA RowIs ==
    ASSUME KnInvariant, NEW key \in KnKeys \cup {NoKo}, ~HasRow(key), NEW cell \in Kos \cup {NoKo},
           NEW kind \in {"split"} \cup Superseding, knIdem' = RowPut(key, cell, kind)
    PROVE  /\ knIdem' \in [KnKeys -> [cell : Kos \cup {NoKo}, kind : {"none", "split"} \cup Superseding]]
           /\ \A i \in KnKeys : i # key => knIdem'[i] = knIdem[i]
           /\ key # NoKo => key \in KnKeys /\ knIdem'[key].cell = cell /\ knIdem'[key].kind = kind
           /\ \A r \in replied : r.kind \in Superseding /\ r.key # NoKo => r.key # key
<1>1. \A i \in KnKeys : knIdem'[i] = IF i = key THEN [cell |-> cell, kind |-> kind] ELSE knIdem[i]
  BY DEF RowPut
<1>2. knIdem' \in [KnKeys -> [cell : Kos \cup {NoKo}, kind : {"none", "split"} \cup Superseding]]
  BY DEF RowPut, KnInvariant, KnShape
<1>3. \A r \in replied : r.kind \in Superseding /\ r.key # NoKo => HasRow(r.key)
  BY DEF KnInvariant, AnswerInv, HasRow, Superseding
<1>. QED  BY <1>1, <1>2, <1>3

LEMMA SplitKeeps ==
    ASSUME KnInvariant, NEW k \in Kos, NEW key \in KnKeys \cup {NoKo}, Split(k, key) PROVE KnInvariant'
<1>. PICK n, r : n = NewKo /\ r = KnFresh(knTs + 1, TRUE)
  OBVIOUS
<1>0. UNCHANGED <<conflicts, replied>> /\ knTs + 1 \in Nat /\ knTs' = knTs + 1
      /\ ko' = [ko EXCEPT ![NewKo] = r] /\ FreeKos # {} /\ Known(k) /\ ~HasRow(key)
      /\ derivedFrom' = derivedFrom \cup {<<k, n>>} /\ knIdem' = RowPut(key, n, "split")
  BY DEF Split, KnBegin, KnInvariant, KnShape
<1>1. r \in Claim /\ r.st = "asserted"
  BY <1>0, FreshClaim
<1>2. ClaimsGrow /\ n \in Kos /\ ko'[n] = r
  BY <1>0, <1>1, Creates
<1>3. op' = NewRequest("sideA", "split", k, n, key, 0)
  BY DEF Split, KnIdle, NewRequest
<1>4. op' \in Request /\ op'.pc = "sideA" /\ op'.kind = "split" /\ op'.k = k
  <2>1. PICK b \in BOOLEAN : b = TRUE
    OBVIOUS
  <2>. QED  BY <1>2, <1>3, <2>1 DEF NewRequest, Request
<1>5. OpInv' /\ LinkInv' /\ SweepInv'
  BY <1>4 DEF OpInv, LinkInv, SweepInv, Superseding
<1>6. ASSUME NEW e \in derivedFrom' PROVE \E x, d \in Kos : e = <<x, d>> /\ Known(x)' /\ Known(d)'
  <2>1. Known(n)' /\ Known(k)'
    BY <1>0, <1>1, <1>2 DEF ClaimsGrow, Known
  <2>2. CASE e \in derivedFrom
    BY <2>2, <1>2 DEF KnInvariant, KnShape, ClaimsGrow, Known
  <2>3. CASE e = <<k, n>>
    BY <2>1, <2>3, <1>2
  <2>. QED  BY <1>0, <2>2, <2>3
<1>7. /\ knIdem' \in [KnKeys -> [cell : Kos \cup {NoKo}, kind : {"none", "split"} \cup Superseding]]
      /\ \A i \in KnKeys : i # key => knIdem'[i] = knIdem[i]
      /\ key # NoKo => key \in KnKeys /\ knIdem'[key].cell = n /\ knIdem'[key].kind = "split"
      /\ \A q \in replied : q.kind \in Superseding /\ q.key # NoKo => q.key # key
  BY <1>0, <1>2, RowIs
<1>8. KnShape'
  BY <1>0, <1>2, <1>4, <1>6, <1>7, ConflictsStay DEF KnInvariant, KnShape, ClaimsGrow
<1>9. AnswerInv'
  <2>1. \A m : Linked(m) => Linked(m)'
    BY <1>2, LinkedStays DEF KnInvariant
  <2>. QED  BY <1>0, <1>7, <2>1, KnAssumption DEF KnInvariant, AnswerInv, Superseding
<1>. QED  BY <1>5, <1>8, <1>9 DEF KnInvariant

LEMMA SideAKeeps == ASSUME KnInvariant, SideA PROVE KnInvariant'
<1>1. op.k \in Kos /\ ko' = [ko EXCEPT ![op.k] = [ko[op.k] EXCEPT !.part = FALSE]]
      /\ UNCHANGED <<derivedFrom, conflicts, knIdem>> /\ Answer(op.succ) /\ op.kind \notin Superseding
  BY DEF SideA, KnInvariant, OpInv, Superseding
<1>2. knTs' \in Nat
  BY CommitTime DEF SideA, KnCommit, KnInvariant
<1>3. ClaimsGrow
  BY <1>1, FieldFollows, OneClaim DEF KnInvariant
<1>. QED  BY <1>1, <1>2, <1>3, EndKeeps

LEMMA RowsStay == ASSUME NEW key, UNCHANGED knIdem PROVE HasRow(key)' <=> HasRow(key)
BY DEF HasRow

LEMMA SupersedeNewKeeps ==
    ASSUME KnInvariant, NEW k \in Kos, NEW key \in KnKeys \cup {NoKo}, SupersedeNew(k, key)
    PROVE  KnInvariant'
<1>. PICK n, r : n = NewKo /\ r = [KnFresh(knTs + 1, FALSE) EXCEPT !.of = k]
  OBVIOUS
<1>. PICK ts \in Nat : ts = knTs + 1 /\ ts > 0
  BY DEF KnInvariant, KnShape
<1>0. UNCHANGED <<derivedFrom, conflicts, knIdem, replied>> /\ knTs' = ts
      /\ ko' = [ko EXCEPT ![NewKo] = r] /\ FreeKos # {} /\ ~HasRow(key)
      /\ ko[k].st \notin {"none", "superseded"}
  BY DEF SupersedeNew, KnBegin, CanBecome
<1>1. r \in Claim /\ r.st = "asserted" /\ r.born = ts /\ r.of = k
  <2>1. PICK c : c = KnFresh(ts, FALSE)
    OBVIOUS
  <2>2. c \in Claim /\ c.st = "asserted" /\ c.born = ts
    BY <2>1, FreshClaim
  <2>. QED  BY <2>1, <2>2 DEF Claim
<1>2. ClaimsGrow /\ n \in Kos /\ ~Known(n) /\ ko'[n] = r
  BY <1>0, <1>1, Creates
<1>3. op' = NewRequest("transition", "supersede", k, n, key, ts)
  BY DEF SupersedeNew, KnIdle, NewRequest
<1>4. op' \in Request /\ op'.pc = "transition" /\ op'.kind = "supersede" /\ op'.k = k /\ op'.succ = n
      /\ op'.key = key /\ op'.pin = ts /\ op'.ok /\ op'.stamped = {}
  <2>1. PICK b \in BOOLEAN : b = TRUE
    OBVIOUS
  <2>. QED  BY <1>2, <1>3, <2>1 DEF NewRequest, Request
<1>5. k # n /\ ko'[k] = ko[k]
  BY <1>0, <1>2 DEF Known, KnInvariant, KnShape
<1>6. OpInv'
  BY <1>0, <1>4, RowsStay DEF OpInv, Superseding
<1>7. LinkInv'
  <2>1. ko'[k].st \notin {"none", "superseded"} /\ op'.pin > 0
    BY <1>0, <1>4, <1>5
  <2>2. op'.succ \in Kos /\ Known(op.succ)' /\ op'.succ # op'.k
    BY <1>1, <1>2, <1>4, <1>5 DEF Known
  <2>3. ko'[op'.succ].of = op'.k /\ ko'[op'.succ].born = op'.pin
    BY <1>1, <1>2, <1>4
  <2>. QED  BY <1>4, <2>1, <2>2, <2>3 DEF LinkInv
<1>8. SweepInv'
  BY <1>4 DEF SweepInv
<1>. QED  BY <1>0, <1>2, <1>4, <1>6, <1>7, <1>8, StepKeeps

LEMMA SupersedeByKeeps ==
    ASSUME KnInvariant, NEW k \in Kos, NEW key \in KnKeys \cup {NoKo}, NEW s \in Kos \cup {NoKo},
           SupersedeBy(k, key, s)
    PROVE  KnInvariant'
<1>. PICK ts \in Nat : ts = knTs + 1 /\ ts > 0
  BY DEF KnInvariant, KnShape
<1>0. UNCHANGED <<ko, derivedFrom, conflicts, knIdem, replied>> /\ knTs' \in Nat /\ ~HasRow(key)
      /\ ko[k].st \notin {"none", "superseded"}
  BY DEF SupersedeBy, KnBegin, CanBecome, KnInvariant, KnShape
<1>2. ClaimsGrow
  BY <1>0, NoClaimMoves DEF KnInvariant
<1>3. op' = NewRequest("transition", "supersedeBy", k, s, key, ts)
  BY DEF SupersedeBy, KnIdle, NewRequest
<1>4. op' \in Request /\ op'.pc = "transition" /\ op'.kind = "supersedeBy" /\ op'.k = k
      /\ op'.key = key /\ op'.pin = ts /\ op'.ok /\ op'.stamped = {}
  <2>1. PICK b \in BOOLEAN : b = TRUE
    OBVIOUS
  <2>. QED  BY <1>2, <1>3, <2>1 DEF NewRequest, Request
<1>6. OpInv'
  BY <1>0, <1>4, RowsStay DEF OpInv, Superseding
<1>7. LinkInv' /\ SweepInv'
  BY <1>0, <1>4 DEF LinkInv, SweepInv
<1>. QED  BY <1>0, <1>2, <1>4, <1>6, <1>7, StepKeeps

\* Whatever is derived from the premise or from one of its dependents is a dependent.
LEMMA DependentsClosed ==
    ASSUME KnShape, NEW p
    PROVE  /\ Dependents(p) \subseteq Kos
           /\ \A x \in {p} \cup Dependents(p) : \A d \in Kos :
                 <<x, d>> \in derivedFrom => ko[d].inv \/ d \in Dependents(p)
<1>. DEFINE U == {d \in Kos : Known(d) /\ ~ko[d].inv}
            Closed(S) == \A d \in U : (\E x \in {p} \cup S : <<x, d>> \in derivedFrom) => d \in S
<1>1. Dependents(p) = {d \in U : \A S \in SUBSET U : Closed(S) => d \in S}
  BY DEF Dependents
<1>2. ASSUME NEW x \in {p} \cup Dependents(p), NEW d \in Kos, <<x, d>> \in derivedFrom, ~ko[d].inv
      PROVE  d \in Dependents(p)
  <2>1. d \in U
    <3>1. PICK y, e \in Kos : <<x, d>> = <<y, e>> /\ Known(y) /\ Known(e)
      BY <1>2 DEF KnShape
    <3>. QED  BY <1>2, <3>1
  <2>2. ASSUME NEW S \in SUBSET U, Closed(S) PROVE d \in S
    <3>1. x \in {p} \cup S
      BY <1>1, <2>2
    <3>. QED  BY <1>2, <2>1, <2>2, <3>1
  <2>. QED  BY <1>1, <2>1, <2>2
<1>. QED  BY <1>1, <1>2

LEMMA EdgeEnds == ASSUME KnShape, NEW x, NEW d, <<x, d>> \in derivedFrom PROVE d \in Kos /\ Known(d)
<1>1. PICK y, e \in Kos : <<x, d>> = <<y, e>> /\ Known(y) /\ Known(e)
  BY DEF KnShape
<1>. QED  BY <1>1

LEMMA SupersedeTransitionKeeps == ASSUME KnInvariant, SupersedeTransition PROVE KnInvariant'
<1>. PICK m : m = Moved(op.k, "superseded", op.succ)
  OBVIOUS
<1>. PICK r : r = [m EXCEPT !.ended = PinnedTs]
  OBVIOUS
<1>. PICK D : D = Dependents(op.k)
  OBVIOUS
<1>0. UNCHANGED <<derivedFrom, conflicts, knIdem, replied>> /\ knTs' \in Nat
      /\ ko' = [ko EXCEPT ![op.k] = r] /\ op.pc = "transition"
      /\ op' = [op EXCEPT !.pc = "sweep", !.todo = D]
  BY CommitTime DEF SupersedeTransition, KnCommit, KnInvariant
<1>1. /\ op \in Request /\ op.k \in Kos /\ op.kind \in Superseding /\ ko[op.k].st \notin {"none", "superseded"}
      /\ op.pin > 0 /\ op.ok /\ op.stamped = {} /\ (op.key = NoKo \/ ~HasRow(op.key))
      /\ op.kind = "supersede" => /\ op.succ \in Kos /\ Known(op.succ) /\ op.succ # op.k
                                  /\ ko[op.succ].of = op.k /\ ko[op.succ].born = op.pin
  BY <1>0 DEF KnInvariant, KnShape, OpInv, LinkInv
<1>2. op.pin \in Nat /\ CommitTs = op.pin /\ op.succ \in Kos \cup {NoKo}
  BY <1>1 DEF CommitTs, Request
<1>3. Follows(ko[op.k], m) /\ m.st = "superseded" /\ m.ended = op.pin
  <2>1. "superseded" \in Statuses \ {"none"}
    BY DEF Statuses
  <2>. QED  BY <1>1, <1>2, <2>1, MovedFollows DEF KnInvariant
<1>4. r = m
  BY <1>2, <1>3 DEF PinnedTs, Follows, Claim
<1>5. ClaimsGrow /\ ko'[op.k] = m /\ \A x \in Kos : x # op.k => ko'[x] = ko[x]
  <2>1. ClaimsGrow
    BY <1>0, <1>1, <1>3, <1>4, OneClaim DEF KnInvariant
  <2>. QED  BY <1>0, <1>1, <1>4, <2>1 DEF KnInvariant, KnShape
<1>6. D \subseteq Kos /\ \A x \in {op.k} \cup D : \A d \in Kos :
                 <<x, d>> \in derivedFrom => ko[d].inv \/ d \in D
  BY DependentsClosed DEF KnInvariant
<1>7. op' \in Request /\ op'.pc = "sweep" /\ op'.kind = op.kind /\ op'.k = op.k /\ op'.succ = op.succ
      /\ op'.key = op.key /\ op'.todo = D /\ op'.stamped = {}
  BY <1>0, <1>1, <1>6 DEF Request
<1>8. OpInv'
  BY <1>0, <1>1, <1>7, RowsStay DEF OpInv, Superseding
<1>9. LinkInv'
  BY <1>1, <1>2, <1>3, <1>5, <1>7 DEF LinkInv, Linked, Known
<1>10. SweepInv'
  BY <1>0, <1>5, <1>6, <1>7, EdgeEnds DEF SweepInv, ClaimsGrow, KnInvariant
<1>. QED  BY <1>0, <1>5, <1>7, <1>8, <1>9, <1>10, StepKeeps

LEMMA SupersedeEvidenceKeeps == ASSUME KnInvariant, SupersedeEvidence PROVE KnInvariant'
<1>0. UNCHANGED <<ko, derivedFrom, conflicts, knIdem, replied>> /\ knTs' \in Nat
      /\ op.pc = "evidence" /\ op' = [op EXCEPT !.pc = "row", !.pin = 0] /\ op \in Request
  BY CommitTime DEF SupersedeEvidence, KnCommit, KnInvariant, KnShape
<1>1. ClaimsGrow
  BY <1>0, NoClaimMoves DEF KnInvariant
<1>2. op' \in Request /\ op'.pc = "row" /\ op'.kind = op.kind /\ op'.k = op.k /\ op'.succ = op.succ
      /\ op'.key = op.key
  BY <1>0 DEF Request
<1>3. OpInv'
  BY <1>0, <1>2, RowsStay DEF KnInvariant, OpInv, Superseding
<1>4. LinkInv' /\ SweepInv'
  BY <1>0, <1>1, <1>2, LinkedStays DEF KnInvariant, LinkInv, SweepInv
<1>. QED  BY <1>0, <1>1, <1>2, <1>3, <1>4, StepKeeps

LEMMA SupersedeRowKeeps == ASSUME KnInvariant, SupersedeRow PROVE KnInvariant'
<1>. PICK q : q = [kind |-> op.kind, key |-> op.key, old |-> op.k, new |-> op.succ]
  OBVIOUS
<1>0. UNCHANGED <<ko, derivedFrom, conflicts, knTs>> /\ op' = KnIdle /\ replied' = replied \cup {q}
      /\ knIdem' = RowPut(op.key, op.succ, op.kind) /\ op.pc = "row" /\ op \in Request
  BY DEF SupersedeRow, RowCell, Answer, KnInvariant, KnShape
<1>1. op.kind \in Superseding /\ ~HasRow(op.key) /\ (op.kind = "supersede" => Linked(op.succ))
  BY <1>0 DEF KnInvariant, OpInv, LinkInv, HasRow
<1>2. /\ knIdem' \in [KnKeys -> [cell : Kos \cup {NoKo}, kind : {"none", "split"} \cup Superseding]]
      /\ \A i \in KnKeys : i # op.key => knIdem'[i] = knIdem[i]
      /\ op.key # NoKo => op.key \in KnKeys /\ knIdem'[op.key].cell = op.succ /\ knIdem'[op.key].kind = op.kind
      /\ \A r \in replied : r.kind \in Superseding /\ r.key # NoKo => r.key # op.key
  <2>1. op.key \in KnKeys \cup {NoKo} /\ op.succ \in Kos \cup {NoKo}
    BY <1>0 DEF Request
  <2>. QED  BY <1>0, <1>1, <2>1, RowIs
<1>3. ClaimsGrow
  BY <1>0, NoClaimMoves DEF KnInvariant
<1>4. KnShape'
  BY <1>0, <1>2, <1>3, IdleRequest, EdgesStay, ConflictsStay DEF KnInvariant, KnShape, ClaimsGrow
<1>5. AnswerInv'
  <2>1. \A m : Linked(m) => Linked(m)'
    BY <1>3, LinkedStays DEF KnInvariant
  <2>2. q.kind = op.kind /\ q.key = op.key /\ q.new = op.succ
    OBVIOUS
  <2>3. \A i \in KnKeys : (knIdem[i].kind = "supersede" => Linked(knIdem[i].cell))'
    <3>1. op.key \in KnKeys => op.key # NoKo
      BY KnAssumption
    <3>. QED  BY <1>1, <1>2, <2>1, <3>1 DEF KnInvariant, AnswerInv
  <2>. QED  BY <1>0, <1>1, <1>2, <2>1, <2>2, <2>3 DEF KnInvariant, AnswerInv
<1>. QED  BY <1>0, <1>4, <1>5, NobodyHolds DEF KnInvariant

LEMMA InvalidateKeeps == ASSUME KnInvariant, NEW k \in Kos, Invalidate(k) PROVE KnInvariant'
<1>0. UNCHANGED <<derivedFrom, conflicts, knIdem, replied>> /\ knTs \in Nat /\ knTs' \in {knTs, knTs + 1}
  BY DEF Invalidate, KnBegin, KnInvariant, KnShape
<1>1. ClaimsGrow
  <2>1. CASE CanBecome(ko[k].st, "contradicted")
    <3>1. ko' = [ko EXCEPT ![k] = [ko[k] EXCEPT !.st = "contradicted"]]
      BY <2>1 DEF Invalidate
    <3>2. ko[k].st # "superseded" /\ "contradicted" \in Statuses \ {"none"}
      BY <2>1 DEF CanBecome, Statuses
    <3>. QED  BY <3>1, <3>2, FieldFollows, OneClaim DEF KnInvariant
  <2>2. CASE ~CanBecome(ko[k].st, "contradicted")
    BY <2>2, NoClaimMoves DEF Invalidate, KnInvariant
  <2>. QED  BY <2>1, <2>2
<1>2. op' = NewRequest("stamp", "invalidate", k, NoKo, NoKo, 0)
  BY DEF Invalidate, KnIdle, NewRequest
<1>3. op' \in Request /\ op'.pc = "stamp" /\ op'.kind = "invalidate" /\ op'.k = k /\ op'.ok /\ op'.stamped = {}
  <2>1. PICK b \in BOOLEAN : b = TRUE
    OBVIOUS
  <2>. QED  BY <1>2, <2>1 DEF NewRequest, Request
<1>4. OpInv' /\ LinkInv' /\ SweepInv'
  BY <1>3 DEF OpInv, LinkInv, SweepInv, Superseding
<1>5. knTs' \in Nat
  BY <1>0
<1>. QED  BY <1>0, <1>1, <1>3, <1>4, <1>5, StepKeeps

LEMMA InvalidateStampKeeps == ASSUME KnInvariant, InvalidateStamp PROVE KnInvariant'
<1>. PICK D : D = Dependents(op.k)
  OBVIOUS
<1>0. UNCHANGED <<derivedFrom, conflicts, knIdem, replied>> /\ knTs' \in Nat
      /\ ko' = [ko EXCEPT ![op.k] = Stamped(op.k)] /\ op.pc = "stamp"
      /\ op' = [op EXCEPT !.pc = "sweep", !.todo = D \ {op.k}]
  BY CommitTime DEF InvalidateStamp, KnCommit, KnInvariant
<1>1. op \in Request /\ op.k \in Kos /\ op.kind = "invalidate" /\ op.ok /\ op.stamped = {}
  BY <1>0 DEF KnInvariant, KnShape, OpInv
<1>2. ClaimsGrow /\ ko'[op.k].inv
  <2>1. ClaimsGrow
    BY <1>0, <1>1, StampedFollows, OneClaim DEF KnInvariant
  <2>2. ko'[op.k] = Stamped(op.k)
    BY <1>0, <1>1 DEF KnInvariant, KnShape
  <2>. QED  BY <1>1, <2>1, <2>2, StampedFollows DEF KnInvariant
<1>3. D \subseteq Kos /\ \A x \in {op.k} \cup D : \A d \in Kos :
                 <<x, d>> \in derivedFrom => ko[d].inv \/ d \in D
  BY DependentsClosed DEF KnInvariant
<1>4. op' \in Request /\ op'.pc = "sweep" /\ op'.kind = "invalidate" /\ op'.k = op.k
      /\ op'.todo = D \ {op.k} /\ op'.stamped = {}
  BY <1>0, <1>1, <1>3 DEF Request
<1>5. OpInv' /\ LinkInv'
  BY <1>1, <1>4 DEF OpInv, LinkInv, Superseding
<1>6. SweepInv'
  BY <1>0, <1>2, <1>3, <1>4, EdgeEnds DEF SweepInv, ClaimsGrow, KnInvariant
<1>. QED  BY <1>0, <1>2, <1>4, <1>5, <1>6, StepKeeps

LEMMA StampOneKeeps == ASSUME KnInvariant, NEW d \in Kos, StampOne(d) PROVE KnInvariant'
<1>0. UNCHANGED <<derivedFrom, conflicts, knIdem, replied>> /\ knTs' \in Nat
      /\ ko' = [ko EXCEPT ![d] = Stamped(d)] /\ op.pc = "sweep" /\ d \in op.todo /\ op \in Request
      /\ op' = [op EXCEPT !.todo = op.todo \ {d}, !.stamped = op.stamped \cup {d}]
  BY CommitTime DEF StampOne, KnCommit, KnInvariant, KnShape
<1>1. ClaimsGrow /\ ko'[d].inv
  <2>1. ClaimsGrow
    BY <1>0, StampedFollows, OneClaim DEF KnInvariant
  <2>2. ko'[d] = Stamped(d)
    BY <1>0 DEF KnInvariant, KnShape
  <2>. QED  BY <2>1, <2>2, StampedFollows DEF KnInvariant
<1>2. op' \in Request /\ op'.pc = "sweep" /\ op'.kind = op.kind /\ op'.k = op.k /\ op'.succ = op.succ
      /\ op'.key = op.key /\ op'.todo = op.todo \ {d} /\ op'.stamped = op.stamped \cup {d} /\ op'.ok = op.ok
  BY <1>0 DEF Request
<1>3. OpInv'
  BY <1>0, <1>2, RowsStay DEF KnInvariant, OpInv, Superseding
<1>4. LinkInv'
  BY <1>0, <1>1, <1>2, LinkedStays DEF KnInvariant, LinkInv
<1>5. SweepInv'
  BY <1>0, <1>1, <1>2, EdgeEnds DEF SweepInv, ClaimsGrow, KnInvariant
<1>. QED  BY <1>0, <1>1, <1>2, <1>3, <1>4, <1>5, StepKeeps

LEMMA StampFailsKeeps == ASSUME KnInvariant, NEW d \in Kos, StampFails(d) PROVE KnInvariant'
<1>1. PICK b \in BOOLEAN : b = FALSE
  OBVIOUS
<1>0. UNCHANGED <<ko, derivedFrom, conflicts, knIdem, replied>> /\ knTs' \in Nat
      /\ op.pc = "sweep" /\ op \in Request /\ op' = [op EXCEPT !.todo = op.todo \ {d}, !.ok = b]
  BY <1>1 DEF StampFails, KnInvariant, KnShape
<1>2. ClaimsGrow
  BY <1>0, NoClaimMoves DEF KnInvariant
<1>3. op' \in Request /\ op'.pc = "sweep" /\ op'.kind = op.kind /\ op'.k = op.k /\ op'.succ = op.succ
      /\ op'.key = op.key /\ ~op'.ok
  BY <1>0, <1>1 DEF Request
<1>4. OpInv'
  BY <1>0, <1>3, RowsStay DEF KnInvariant, OpInv, Superseding
<1>5. LinkInv' /\ SweepInv'
  BY <1>0, <1>2, <1>3, LinkedStays DEF KnInvariant, LinkInv, SweepInv
<1>. QED  BY <1>0, <1>2, <1>3, <1>4, <1>5, StepKeeps

LEMMA SweepEndsKeeps == ASSUME KnInvariant, SweepEnds PROVE KnInvariant'
<1>0. UNCHANGED <<ko, derivedFrom, conflicts, knIdem>> /\ knTs' \in Nat /\ op.pc = "sweep" /\ op \in Request
      /\ op.kind \in Superseding \cup {"invalidate", "replace"} /\ op.k \in Kos
  BY DEF SweepEnds, KnInvariant, KnShape, OpInv
<1>1. ClaimsGrow
  BY <1>0, NoClaimMoves DEF KnInvariant
<1>2. CASE op.kind = "invalidate"
  <2>1. Answer(NoKo)
    BY <1>2 DEF SweepEnds
  <2>. QED  BY <1>0, <1>1, <1>2, <2>1, EndKeeps DEF Superseding
<1>3. ASSUME op.kind # "invalidate" PROVE KnInvariant'
  <2>1. PICK pc \in {"row", "evidence", "record", "sweepNext"}, pin \in Nat :
           /\ op' = [op EXCEPT !.pc = pc, !.pin = pin] /\ replied' = replied
           /\ pc \in {"row", "evidence"} => op.kind \in Superseding
           /\ pc \in {"record", "sweepNext"} => op.kind = "replace"
    <3>1. CASE op.kind = "supersede"
      BY <3>1 DEF SweepEnds, Superseding
    <3>2. CASE op.kind = "supersedeBy"
      BY <3>2 DEF SweepEnds, Superseding
    <3>3. CASE op.kind = "replace"
      <4>1. op.pin \in Nat /\ \A pc : [op EXCEPT !.pc = pc] = [op EXCEPT !.pc = pc, !.pin = op.pin]
        BY <1>0 DEF Request
      <4>2. replied' = replied /\ op' \in {[op EXCEPT !.pc = "record"], [op EXCEPT !.pc = "sweepNext"]}
        BY <3>3 DEF SweepEnds
      <4>. QED  BY <3>3, <4>1, <4>2
    <3>. QED  BY <1>0, <1>3, <3>1, <3>2, <3>3 DEF Superseding
  <2>2. op' \in Request /\ op'.pc = pc /\ op'.kind = op.kind /\ op'.k = op.k /\ op'.succ = op.succ
        /\ op'.key = op.key
    BY <1>0, <2>1 DEF Request
  <2>3. OpInv'
    BY <1>0, <2>1, <2>2, RowsStay DEF KnInvariant, OpInv, Superseding
  <2>4. LinkInv' /\ SweepInv'
    BY <1>0, <1>1, <2>1, <2>2, LinkedStays DEF KnInvariant, LinkInv, SweepInv
  <2>. QED  BY <1>0, <1>1, <2>1, <2>2, <2>3, <2>4, StepKeeps
<1>. QED  BY <1>2, <1>3

LEMMA PreferKeeps == ASSUME KnInvariant, NEW c \in Kos, NEW loser \in Kos, Prefer(c, loser) PROVE KnInvariant'
<1>0. UNCHANGED <<derivedFrom, conflicts, knIdem, replied>> /\ knTs \in Nat /\ knTs' \in {knTs, knTs + 1}
      /\ ko' = [ko EXCEPT ![loser] = IfLegal(loser, "contradicted", NoKo)] /\ conflicts[c].res = "unresolved"
      /\ ko[loser].st # "none"
  BY DEF Prefer, KnBegin, KnInvariant, KnShape, ClaimsOf, Known
<1>1. ClaimsGrow
  BY <1>0, IfLegalFollows, OneClaim DEF KnInvariant
<1>2. op' = NewRequest("record", "prefer", c, loser, NoKo, 0)
  BY DEF Prefer, KnIdle, NewRequest
<1>3. op' \in Request /\ op'.pc = "record" /\ op'.kind = "prefer" /\ op'.k = c
  <2>1. PICK b \in BOOLEAN : b = TRUE
    OBVIOUS
  <2>. QED  BY <1>2, <2>1 DEF NewRequest, Request
<1>4. OpInv' /\ LinkInv' /\ SweepInv'
  BY <1>0, <1>3 DEF OpInv, LinkInv, SweepInv, Superseding
<1>5. knTs' \in Nat
  BY <1>0
<1>. QED  BY <1>0, <1>1, <1>3, <1>4, <1>5, StepKeeps

LEMMA BothValidKeeps == ASSUME KnInvariant, NEW c \in Kos, NEW split \in BOOLEAN, BothValid(c, split) PROVE KnInvariant'
<1>0. UNCHANGED <<derivedFrom, conflicts, knIdem, replied>> /\ knTs \in Nat /\ knTs' \in {knTs, knTs + 1}
      /\ conflicts[c].res = "unresolved" /\ conflicts[c].a \in Kos
  BY DEF BothValid, KnBegin, KnInvariant, KnShape, ClaimsOf
<1>1. ClaimsGrow
  <2>1. CASE split
    <3>1. ko' = [ko EXCEPT ![conflicts[c].a] = [ko[conflicts[c].a] EXCEPT !.closed = TRUE]]
      BY <2>1 DEF BothValid
    <3>. QED  BY <1>0, <3>1, FieldFollows, OneClaim DEF KnInvariant
  <2>2. CASE ~split
    BY <2>2, NoClaimMoves DEF BothValid, KnInvariant
  <2>. QED  BY <2>1, <2>2
<1>2. PICK pc \in {"partition", "record"} : op' = NewRequest(pc, "both", c, NoKo, NoKo, 0)
  BY DEF BothValid, KnIdle, NewRequest
<1>3. op' \in Request /\ op'.pc = pc /\ op'.kind = "both" /\ op'.k = c
  <2>1. PICK b \in BOOLEAN : b = TRUE
    OBVIOUS
  <2>. QED  BY <1>2, <2>1 DEF NewRequest, Request
<1>4. OpInv' /\ LinkInv' /\ SweepInv'
  BY <1>0, <1>3 DEF OpInv, LinkInv, SweepInv, Superseding
<1>5. knTs' \in Nat
  BY <1>0
<1>. QED  BY <1>0, <1>1, <1>3, <1>4, <1>5, StepKeeps

LEMMA PartitionBKeeps == ASSUME KnInvariant, PartitionB PROVE KnInvariant'
<1>0. UNCHANGED <<ko, derivedFrom, conflicts, knIdem, replied>> /\ knTs' \in Nat
      /\ op.pc = "partition" /\ op' = [op EXCEPT !.pc = "record"] /\ op \in Request
  BY CommitTime DEF PartitionB, KnCommit, KnInvariant, KnShape
<1>1. ClaimsGrow
  BY <1>0, NoClaimMoves DEF KnInvariant
<1>2. op' \in Request /\ op'.pc = "record" /\ op'.kind = op.kind /\ op'.k = op.k
  BY <1>0 DEF Request
<1>3. OpInv' /\ LinkInv' /\ SweepInv'
  BY <1>0, <1>2 DEF KnInvariant, OpInv, LinkInv, SweepInv, Superseding
<1>. QED  BY <1>0, <1>1, <1>2, <1>3, StepKeeps

LEMMA ReplaceKeeps == ASSUME KnInvariant, NEW c \in Kos, NEW r \in Kos, Replace(c, r) PROVE KnInvariant'
<1>. PICK x : x = conflicts[c].a
  OBVIOUS
<1>0. UNCHANGED <<derivedFrom, conflicts, knIdem, replied>> /\ knTs \in Nat /\ knTs' \in {knTs, knTs + 1}
      /\ ko' = [ko EXCEPT ![x] = IfLegal(x, "superseded", r)] /\ conflicts[c].res = "unresolved"
      /\ x \in Kos /\ ko[x].st # "none"
  BY DEF Replace, KnBegin, KnInvariant, KnShape, ClaimsOf, Known
<1>1. ClaimsGrow
  BY <1>0, IfLegalFollows, OneClaim DEF KnInvariant
<1>2. op' = NewRequest("replaceB", "replace", c, r, NoKo, 0)
  BY DEF Replace, KnIdle, NewRequest
<1>3. op' \in Request /\ op'.pc = "replaceB" /\ op'.kind = "replace" /\ op'.k = c
  <2>1. PICK b \in BOOLEAN : b = TRUE
    OBVIOUS
  <2>. QED  BY <1>2, <2>1 DEF NewRequest, Request
<1>4. OpInv' /\ LinkInv' /\ SweepInv'
  BY <1>0, <1>3 DEF OpInv, LinkInv, SweepInv, Superseding
<1>5. knTs' \in Nat
  BY <1>0
<1>. QED  BY <1>0, <1>1, <1>3, <1>4, <1>5, StepKeeps

LEMMA ReplaceBKeeps == ASSUME KnInvariant, ReplaceB PROVE KnInvariant'
<1>. PICK x, D : x = conflicts[op.k].b /\ D = Dependents(conflicts[op.k].a)
  OBVIOUS
<1>0. UNCHANGED <<derivedFrom, conflicts, knIdem, replied>> /\ knTs \in Nat /\ knTs' \in {knTs, knTs + 1}
      /\ ko' = [ko EXCEPT ![x] = IfLegal(x, "superseded", op.succ)] /\ op.pc = "replaceB" /\ op \in Request
      /\ op' = [op EXCEPT !.pc = "sweep", !.todo = D, !.next = {x}]
  BY DEF ReplaceB, KnInvariant, KnShape
<1>1. op.k \in Kos /\ op.kind = "replace" /\ conflicts[op.k].res # "none"
  BY <1>0 DEF KnInvariant, OpInv
<1>2. x \in Kos /\ ko[x].st # "none" /\ op.succ \in Kos \cup {NoKo}
  BY <1>0, <1>1 DEF KnInvariant, KnShape, ClaimsOf, Known, Request
<1>3. ClaimsGrow
  BY <1>0, <1>2, IfLegalFollows, OneClaim DEF KnInvariant
<1>4. D \subseteq Kos
  BY DependentsClosed DEF KnInvariant
<1>5. op' \in Request /\ op'.pc = "sweep" /\ op'.kind = op.kind /\ op'.k = op.k
  BY <1>0, <1>2, <1>4 DEF Request
<1>7. OpInv' /\ LinkInv' /\ SweepInv'
  BY <1>0, <1>1, <1>5 DEF OpInv, LinkInv, SweepInv, Superseding
<1>8. knTs' \in Nat
  BY <1>0
<1>. QED  BY <1>0, <1>3, <1>5, <1>7, <1>8, StepKeeps

LEMMA ReplaceSweepBKeeps == ASSUME KnInvariant, ReplaceSweepB PROVE KnInvariant'
<1>. PICK D : D = Dependents(conflicts[op.k].b)
  OBVIOUS
<1>0. UNCHANGED <<ko, derivedFrom, conflicts, knIdem, replied>> /\ knTs' \in Nat
      /\ op.pc = "sweepNext" /\ op \in Request /\ op' = [op EXCEPT !.pc = "sweep", !.todo = D, !.next = {}]
  BY DEF ReplaceSweepB, KnInvariant, KnShape
<1>1. op.k \in Kos /\ op.kind = "replace" /\ conflicts[op.k].res # "none"
  BY <1>0 DEF KnInvariant, OpInv
<1>2. ClaimsGrow /\ D \subseteq Kos
  BY <1>0, NoClaimMoves, DependentsClosed DEF KnInvariant
<1>3. op' \in Request /\ op'.pc = "sweep" /\ op'.kind = op.kind /\ op'.k = op.k
  BY <1>0, <1>2 DEF Request
<1>4. OpInv' /\ LinkInv' /\ SweepInv'
  BY <1>0, <1>1, <1>3 DEF OpInv, LinkInv, SweepInv, Superseding
<1>. QED  BY <1>0, <1>2, <1>3, <1>4, StepKeeps

LEMMA RecordKeeps == ASSUME KnInvariant, Record PROVE KnInvariant'
<1>0. UNCHANGED <<ko, derivedFrom, knIdem>> /\ knTs' \in Nat /\ op' = KnIdle /\ op.pc = "record"
      /\ conflicts' = [conflicts EXCEPT ![op.k].res = op.kind] /\ Answer(op.succ)
  BY CommitTime DEF Record, KnCommit, Answer, KnInvariant
<1>1. op.k \in Kos /\ op.kind \in {"prefer", "both", "replace"} /\ conflicts[op.k].res # "none"
  BY <1>0 DEF KnInvariant, OpInv
<1>2. ClaimsGrow
  BY <1>0, NoClaimMoves DEF KnInvariant
<1>3. conflicts' \in [Kos -> [a : Kos \cup {NoKo}, b : Kos \cup {NoKo},
                              res : {"none", "unresolved", "prefer", "both", "replace"}]]
      /\ \A c \in Kos : conflicts'[c].a = conflicts[c].a /\ conflicts'[c].b = conflicts[c].b
                        /\ (conflicts'[c].res # "none" => conflicts[c].res # "none")
  BY <1>0, <1>1 DEF KnInvariant, KnShape
<1>4. \A c \in Kos : ClaimsOf(c)'
  BY <1>0, <1>3 DEF KnInvariant, KnShape, ClaimsOf, Known
<1>5. KnShape'
  BY <1>0, <1>2, <1>3, <1>4, IdleRequest, EdgesStay DEF KnInvariant, KnShape, ClaimsGrow
<1>6. AnswerInv'
  BY <1>0, <1>1, <1>2, OtherAnswers DEF KnInvariant, Superseding
<1>. QED  BY <1>0, <1>5, <1>6, NobodyHolds DEF KnInvariant

LEMMA AbandonKeeps == ASSUME KnInvariant, Abandon PROVE KnInvariant'
<1>1. UNCHANGED <<ko, derivedFrom, conflicts, knIdem, replied>> /\ knTs' \in Nat /\ op' = KnIdle
  BY DEF Abandon, KnInvariant, KnShape
<1>2. ClaimsGrow
  BY <1>1, NoClaimMoves DEF KnInvariant
<1>. QED  BY <1>1, <1>2, IdleRequest, NobodyHolds, StepKeeps

LEMMA KnStays == ASSUME KnInvariant, UNCHANGED knVars PROVE KnInvariant'
<1>1. KnShape'
  BY DEF knVars, KnInvariant, KnShape, ClaimsOf, Known
<1>2. AnswerInv'
  BY DEF knVars, KnInvariant, AnswerInv, Linked, Known
<1>3. OpInv'
  BY DEF knVars, KnInvariant, OpInv, HasRow, Known
<1>4. LinkInv' /\ SweepInv'
  BY DEF knVars, KnInvariant, LinkInv, Linked, Known, SweepInv
<1>. QED  BY <1>1, <1>2, <1>3, <1>4 DEF KnInvariant

LEMMA KnInductive == KnInvariant /\ [KnNext]_knVars => KnInvariant'
<1>. SUFFICES ASSUME KnInvariant, KnNext PROVE KnInvariant'
  BY KnStays
<1>1. CASE \E k \in Kos : Verify(k) \/ Contradict(k) \/ Invalidate(k) \/ StampOne(k) \/ StampFails(k)
                          \/ \E split \in BOOLEAN : BothValid(k, split)
  BY <1>1, VerifyKeeps, ContradictKeeps, InvalidateKeeps, StampOneKeeps, StampFailsKeeps, BothValidKeeps
<1>2. CASE \E j, k \in Kos : Derive({j, k}) \/ Prefer(j, k) \/ Replace(j, k)
  BY <1>2, DeriveKeeps, PreferKeeps, ReplaceKeeps
<1>3. CASE \E k \in Kos, key \in KnKeys \cup {NoKo} :
              \/ Split(k, key) \/ SupersedeNew(k, key) \/ Replay(k, key)
              \/ \E s \in Kos \cup {NoKo} : SupersedeBy(k, key, s)
  BY <1>3, SplitKeeps, SupersedeNewKeeps, ReplayKeeps, SupersedeByKeeps
<1>4. CASE \E k \in Kos, to \in {"asserted", "verified", "contradicted", "superseded"},
              by \in Kos \cup {NoKo} : Transition(k, to, by)
  BY <1>4, TransitionKeeps
<1>5. CASE Confirm \/ PutConflict \/ SideA \/ SupersedeTransition \/ SupersedeEvidence \/ SupersedeRow
  BY <1>5, ConfirmKeeps, PutConflictKeeps, SideAKeeps, SupersedeTransitionKeeps, SupersedeEvidenceKeeps,
     SupersedeRowKeeps
<1>6. CASE InvalidateStamp \/ SweepEnds \/ PartitionB \/ ReplaceB \/ ReplaceSweepB \/ Record \/ Abandon
  BY <1>6, InvalidateStampKeeps, SweepEndsKeeps, PartitionBKeeps, ReplaceBKeeps, ReplaceSweepBKeeps,
     RecordKeeps, AbandonKeeps
<1>. QED  BY <1>1, <1>2, <1>3, <1>4, <1>5, <1>6 DEF KnNext

LEMMA KnStateParts == KnInvariant => KnTypeOK /\ OneGeneration /\ ReplayAgrees
<1>. SUFFICES ASSUME KnInvariant PROVE KnTypeOK /\ OneGeneration /\ ReplayAgrees
  OBVIOUS
<1>1. KnTypeOK
  <2>1. derivedFrom \subseteq Kos \X Kos
    BY DEF KnInvariant, KnShape
  <2>2. ASSUME NEW k \in Kos
        PROVE  /\ ko[k].st \in {"none", "asserted", "verified", "contradicted", "superseded"}
               /\ ko[k].by \in Kos \cup {NoKo} /\ ko[k].born \in Nat /\ ko[k].ended \in Nat
    <3>1. PICK c \in Claim : c = ko[k]
      BY DEF KnInvariant, KnShape
    <3>. QED  BY <3>1 DEF Claim, Statuses
  <2>3. op.todo \subseteq Kos /\ op.stamped \subseteq Kos
    BY DEF KnInvariant, KnShape, Request
  <2>4. \A i \in KnKeys : knIdem[i].cell \in Kos \cup {NoKo}
    BY DEF KnInvariant, KnShape
  <2>. QED  BY <2>1, <2>2, <2>3, <2>4 DEF KnTypeOK
<1>2. OneGeneration
  <2>1. SUFFICES ASSUME NEW r \in replied, r.kind = "supersede", ko[r.new].of = r.old, NEW ts \in 1 .. knTs,
                        ShownAt(r.old, ts), ShownAt(r.new, ts)
                 PROVE  FALSE
    BY DEF OneGeneration
  <2>2. Linked(r.new)
    BY <2>1 DEF KnInvariant, AnswerInv
  <2>3. r.new \in Kos /\ ko[r.new].born > 0 /\ ko[r.old].ended = ko[r.new].born
    BY <2>1, <2>2 DEF Linked
  <2>4. ko[r.new].born \in Nat /\ ts \in Int
    BY <1>1, <2>3 DEF KnTypeOK
  <2>5. ko[r.new].born <= ts /\ (ko[r.old].ended = 0 \/ ts < ko[r.old].ended)
    BY <2>1 DEF ShownAt
  <2>. QED  BY <2>3, <2>4, <2>5
<1>3. ReplayAgrees
  BY DEF ReplayAgrees, KnInvariant, AnswerInv, Superseding
<1>. QED  BY <1>1, <1>2, <1>3

LEMMA SweepStep == KnInvariant => SweepCloses
BY DEF KnInvariant, SweepInv, SweepCloses

\* Each operation of several commits (ops.rs), wherever it is cut off, leaves what the
\* callers were told true: an answered supersession is at one instant, a completed sweep
\* is closed, a repeated key is told the same.
THEOREM KnowledgeKept == KnSpec => KnowledgePromise
<1>1. KnInit => KnInvariant
  BY KnInitial
<1>2. KnInvariant /\ [KnNext]_knVars => KnInvariant'
  BY KnInductive
<1>3. KnInvariant /\ KnInvariant' /\ [KnNext]_knVars =>
          [(KnTypeOK /\ OneGeneration /\ ReplayAgrees)' /\ SweepCloses]_knVars
  <2>1. KnInvariant' => (KnTypeOK /\ OneGeneration /\ ReplayAgrees)'
    BY KnStateParts, PTL
  <2>. QED  BY <2>1, SweepStep
<1>. QED  BY <1>1, <1>2, <1>3, PTL DEF KnSpec, KnowledgePromise
================================================================================
