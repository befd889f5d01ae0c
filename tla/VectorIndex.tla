----------------------------- MODULE VectorIndex -----------------------------
(***************************************************************************)
(* One shard of the vector index (engines/vector/src/lib.rs,                 *)
(* HnswVectorIndex) and its three users: the index maintainer, which applies *)
(* the journal's events and rebuilds the graph once too many of its nodes    *)
(* are dead; the periodic checkpoint, which reads the parts of the index one *)
(* by one while the maintainer works; and the start of the next process,     *)
(* which loads the checkpoint and applies the events after its water mark.   *)
(*                                                                           *)
(* An event is [koid, op, vec]: "up" with an embedding, "blank" (an update   *)
(* without one, which the adapter ignores), "del".  The graph is a set of    *)
(* nodes <<koid, vec>>: inserting an object again leaves its old node        *)
(* (external: fast-hnsw, as upsert's comment describes it).  A loaded entry  *)
(* has no vector (NoCode), for checkpoints store labels only.  The whole     *)
(* checkpoint directory is published by one rename (IndexMaintainer).  The   *)
(* journal is there from the start, the maintainer however far behind it.    *)
(***************************************************************************)
EXTENDS Naturals, FiniteSets, Sequences

CONSTANTS VecKoids, Vecs,
          DimOf,          \* the length of every vector
          MaxVecEvents,   \* events in the journal
          MaxVecCkpts,    \* checkpoints begun
          MaxVecRestarts  \* restarts

ASSUME VectorIndexAssumption ==
    DimOf \in [Vecs -> Nat \ {0}] /\ MaxVecEvents \in Nat /\ MaxVecCkpts \in Nat /\ MaxVecRestarts \in Nat

NoCode == "empty"

VARIABLES
    vlog,        \* the journal's events
    vdim,        \* the dimension of the shard, 0 until its first vector
    graph,       \* nodes of the graph
    modelMap,    \* live entries: koid to vector
    tombstones,  \* removed koids
    physical,    \* nodes counted
    pendingRebuild,
    mt,          \* the maintainer: step, events applied, batches since the start
    ck,          \* a checkpoint being taken: step and what it has read
    saved,       \* the published checkpoint, or NoCkpt
    vecCkpts, vecRestarts

vecVars == <<vlog, vdim, graph, modelMap, tombstones, physical, pendingRebuild, mt, ck, saved,
             vecCkpts, vecRestarts>>

VecEvents == {[koid |-> k, op |-> "up", vec |-> v] : k \in VecKoids, v \in Vecs}
             \cup {[koid |-> k, op |-> o, vec |-> NoCode] : k \in VecKoids, o \in {"blank", "del"}}

NoCkpt == [water |-> 1000]
NoMap == [k \in {} |-> NoCode]
Fresh == [step |-> "next", applied |-> 0, batches |-> 0]
NotTaking == [step |-> "off"]

Event == vlog[mt.applied + 1]

\* dead_ratio() > REBUILD_DEAD_RATIO, 0.3.
DeadCrossed == physical > 0 /\ 10 * Cardinality(tombstones) > 3 * physical

-----------------------------------------------------------------------------
(* The maintainer: apply_batch with one event, then commit_batch.            *)

Goto(s) == mt' = [mt EXCEPT !.step = s]

\* The first vector gives the shard its dimension; one of another is counted and dropped.
Mismatched == Event.op = "up" /\ vdim # 0 /\ DimOf[Event.vec] # vdim

\* upsert: the graph; remove: the tombstone.
Apply1 ==
    /\ mt.step = "next" /\ mt.applied < Len(vlog)
    /\ \/ /\ Event.op = "up" /\ ~Mismatched
          /\ graph' = graph \cup {<<Event.koid, Event.vec>>} /\ vdim' = DimOf[Event.vec]
          /\ tombstones' = tombstones /\ Goto("map")
       \/ /\ Event.op = "del"
          /\ tombstones' = tombstones \cup {Event.koid}
          /\ UNCHANGED <<graph, vdim>> /\ Goto("map")
       \/ /\ Event.op = "blank" \/ Mismatched
          /\ UNCHANGED <<graph, vdim, tombstones>> /\ Goto("commit")
    /\ UNCHANGED <<vlog, modelMap, physical, pendingRebuild, ck, saved, vecCkpts, vecRestarts>>

\* A slip in remove: the live entry stays, and a rebuild brings it back.
EntriesLeft_Kept(k) == modelMap

\* remove: no live entry of the object is left.
EntriesLeft(k) == [x \in DOMAIN modelMap \ {k} |-> modelMap[x]]

\* upsert: the object's entry has its newest vector.
WithEntry(k, v) == [x \in DOMAIN modelMap \cup {k} |-> IF x = k THEN v ELSE modelMap[x]]

\* model_map, and the count of nodes for a new entry.
Apply2 ==
    /\ mt.step = "map"
    /\ modelMap' = IF Event.op = "up" THEN WithEntry(Event.koid, Event.vec)
                   ELSE EntriesLeft(Event.koid)
    /\ physical' = IF Event.op = "up" /\ Event.koid \notin DOMAIN modelMap
                   THEN physical + 1 ELSE physical
    /\ Goto("end")
    /\ UNCHANGED <<vlog, vdim, graph, tombstones, pendingRebuild, ck, saved, vecCkpts, vecRestarts>>

\* upsert: the tombstone goes; remove: the trigger is armed.
Apply3 ==
    /\ mt.step = "end"
    /\ tombstones' = IF Event.op = "up" THEN tombstones \ {Event.koid} ELSE tombstones
    /\ pendingRebuild' = (pendingRebuild \/ (Event.op = "del" /\ DeadCrossed))
    /\ Goto("commit")
    /\ UNCHANGED <<vlog, vdim, graph, modelMap, physical, ck, saved, vecCkpts, vecRestarts>>

EndBatch(pending) ==
    /\ pendingRebuild' = pending
    /\ mt' = [step |-> "next", applied |-> mt.applied + 1, batches |-> mt.batches + 1]

\* maybe_rebuild takes the trigger.
RebuildTest ==
    /\ mt.step = "commit"
    /\ IF pendingRebuild /\ DeadCrossed
       THEN pendingRebuild' = FALSE /\ Goto("rebuild")
       ELSE EndBatch(FALSE)
    /\ UNCHANGED <<vlog, vdim, graph, modelMap, tombstones, physical, ck, saved, vecCkpts, vecRestarts>>

\* A slip in maybe_rebuild: entries without a vector are not noticed.
LiveReady_Always == TRUE

\* Every live entry has its vector.
LiveReady == \A k \in DOMAIN modelMap : modelMap[k] # NoCode

\* The graph is built from the live entries and swapped in; or the trigger is
\* armed again.
Rebuild ==
    /\ mt.step = "rebuild"
    /\ IF LiveReady
       THEN /\ graph' = {<<k, modelMap[k]>> : k \in DOMAIN modelMap}
            /\ physical' = Cardinality(DOMAIN modelMap)
            /\ Goto("clear") /\ UNCHANGED pendingRebuild
       ELSE UNCHANGED <<graph, physical>> /\ EndBatch(TRUE)
    /\ UNCHANGED <<vlog, vdim, modelMap, tombstones, ck, saved, vecCkpts, vecRestarts>>

ClearTombstones ==
    /\ mt.step = "clear"
    /\ tombstones' = {}
    /\ EndBatch(pendingRebuild)
    /\ UNCHANGED <<vlog, vdim, graph, modelMap, physical, ck, saved, vecCkpts, vecRestarts>>

-----------------------------------------------------------------------------
(* The checkpoint thread: water, graph, models, tombstones, then the rest     *)
(* and the rename.                                                           *)

CkWater ==
    /\ ck.step = "off" /\ vecCkpts < MaxVecCkpts
    /\ vecCkpts' = vecCkpts + 1
    /\ ck' = [step |-> "graph", water |-> mt.applied]
    /\ UNCHANGED <<vlog, vdim, graph, modelMap, tombstones, physical, pendingRebuild, mt, saved, vecRestarts>>

CkGraph ==
    /\ ck.step = "graph"
    /\ ck' = [step |-> "models", water |-> ck.water, graph |-> graph]
    /\ UNCHANGED <<vlog, vdim, graph, modelMap, tombstones, physical, pendingRebuild, mt, saved, vecCkpts, vecRestarts>>

CkModels ==
    /\ ck.step = "models"
    /\ ck' = [step |-> "tombs", water |-> ck.water, graph |-> ck.graph, models |-> DOMAIN modelMap]
    /\ UNCHANGED <<vlog, vdim, graph, modelMap, tombstones, physical, pendingRebuild, mt, saved, vecCkpts, vecRestarts>>

CkTombs ==
    /\ ck.step = "tombs"
    /\ ck' = [step |-> "publish", water |-> ck.water, graph |-> ck.graph, models |-> ck.models,
              tombs |-> tombstones]
    /\ UNCHANGED <<vlog, vdim, graph, modelMap, tombstones, physical, pendingRebuild, mt, saved, vecCkpts, vecRestarts>>

\* The water mark saved is the one read before everything else.
CkWaterMark == ck.water

CkPublish ==
    /\ ck.step = "publish"
    /\ saved' = [water |-> CkWaterMark, graph |-> ck.graph, models |-> ck.models,
                 tombs |-> ck.tombs, physical |-> physical, pending |-> pendingRebuild, dim |-> vdim]
    /\ ck' = NotTaking
    /\ UNCHANGED <<vlog, vdim, graph, modelMap, tombstones, physical, pendingRebuild, mt, vecCkpts, vecRestarts>>

-----------------------------------------------------------------------------
(* A restart: the checkpoint is loaded, or the index starts empty.            *)

VecRestart ==
    /\ vecRestarts < MaxVecRestarts
    /\ vecRestarts' = vecRestarts + 1
    /\ ck' = NotTaking
    /\ IF saved = NoCkpt
       THEN /\ graph' = {} /\ modelMap' = NoMap /\ tombstones' = {} /\ physical' = 0
            /\ pendingRebuild' = FALSE /\ vdim' = 0
            /\ mt' = Fresh
       ELSE /\ graph' = IF saved.physical = 0 THEN {} ELSE saved.graph
            /\ modelMap' = [k \in saved.models |-> NoCode]
            /\ tombstones' = saved.tombs /\ physical' = saved.physical
            /\ pendingRebuild' = saved.pending /\ vdim' = saved.dim
            /\ mt' = [Fresh EXCEPT !.applied = saved.water]
    /\ UNCHANGED <<vlog, saved, vecCkpts>>

-----------------------------------------------------------------------------
VecInit ==
    /\ \E n \in 0..MaxVecEvents : vlog \in [1..n -> VecEvents]
    /\ vdim = 0 /\ graph = {} /\ modelMap = NoMap /\ tombstones = {} /\ physical = 0
    /\ pendingRebuild = FALSE /\ mt = Fresh /\ ck = NotTaking /\ saved = NoCkpt
    /\ vecCkpts = 0 /\ vecRestarts = 0

VecNext ==
    \/ Apply1 \/ Apply2 \/ Apply3 \/ RebuildTest \/ Rebuild \/ ClearTombstones
    \/ CkWater \/ CkGraph \/ CkModels \/ CkTombs \/ CkPublish
    \/ VecRestart

VecSpec == VecInit /\ [][VecNext]_vecVars

-----------------------------------------------------------------------------
(* Properties.                                                               *)

\* What a search can find of an object: the vectors of its nodes, if it is not
\* tombstoned and is among the live entries.
Finds(k) == {v \in Vecs \cup {NoCode} :
                <<k, v>> \in graph /\ k \notin tombstones /\ k \in DOMAIN modelMap}

CaughtUp == mt.step = "next" /\ mt.applied = Len(vlog)

\* A vector is taken if it has the dimension of the journal's first one.
FirstUp(l, i) == l[i].op = "up" /\ \A j \in 1..(i - 1) : l[j].op # "up"
Taken(l, i) == l[i].op = "up" =>
                  \E j \in 1..Len(l) : FirstUp(l, j) /\ DimOf[l[i].vec] = DimOf[l[j].vec]

\* The last event of an object that the index takes notice of.
Noticed(k) == {i \in 1..Len(vlog) : vlog[i].koid = k /\ vlog[i].op # "blank" /\ Taken(vlog, i)}
LastOp(k) == vlog[CHOOSE i \in Noticed(k) : \A j \in Noticed(k) : j <= i]

\* Type invariant.
VecTypeOK ==
    /\ graph \subseteq VecKoids \X (Vecs \cup {NoCode})
    /\ DOMAIN modelMap \subseteq VecKoids /\ tombstones \subseteq VecKoids
    /\ {physical, vdim} \subseteq Nat /\ pendingRebuild \in BOOLEAN
    /\ mt.applied \in 0..Len(vlog)
    /\ ck.step \in {"off", "graph", "models", "tombs", "publish"}

\* A maintainer that has caught up finds every object by its newest embedding that
\* has the dimension of the shard's first one: through rebuilds, checkpoints read
\* part by part beside them, and restarts from such a checkpoint (maybe_rebuild,
\* load).  An embedding of another dimension leaves the object found by its old one
\* (upsert, 323-328).
FindsCurrent ==
    CaughtUp => \A k \in VecKoids :
        Noticed(k) # {} /\ LastOp(k).op = "up" => LastOp(k).vec \in Finds(k)

\* ... and never finds an object that was deleted, though its node stays in the
\* graph and a rebuild forgets the tombstone (search).
GoneHidden ==
    CaughtUp => \A k \in VecKoids :
        Noticed(k) # {} /\ LastOp(k).op = "del" => Finds(k) = {}

\* More than 0.3 of the graph's nodes are of no live entry.
TooManyDead ==
    10 * Cardinality({n \in graph : n[1] \notin DOMAIN modelMap}) > 3 * Cardinality(graph)

\* "a crash between the delete and the rebuild must not disarm it": too many
\* dead nodes, and the trigger is armed, whenever the maintainer has caught up.
TriggerKept == CaughtUp /\ TooManyDead => pendingRebuild

\* "the catch-up re-upserts refill the map": after a batch of a maintainer that
\* has caught up, the graph has been rebuilt if it had too many dead nodes.
DeadRebuilt == CaughtUp /\ mt.batches > 0 => ~TooManyDead

\* What a search finds, whatever the maintainer is doing.
VectorSafe == VecTypeOK /\ FindsCurrent /\ GoneHidden
=============================================================================
