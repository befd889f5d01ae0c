------------------------------ MODULE IngestDir ------------------------------
(***************************************************************************)
(* Directory ingestion (mcp/src/ingest.rs, run_ingest_dir) with its commit  *)
(* marker (ingestion/src/ingest_incremental.rs).                            *)
(*                                                                          *)
(* A run compiles the source tree into an IR and writes it to the kernel    *)
(* one object at a time: every entity, every file, the edges, the snapshot  *)
(* object and its edges. Identity is the idempotency key of the object (its *)
(* path and name), so a run updates what an earlier run created. A call may *)
(* fail (the run goes on) and the run may be cut off anywhere; the next run *)
(* starts over. The tree changes under the runs, each change a new revision.*)
(*                                                                          *)
(* A file's parse is atomic with the scan. An entity is a (file, name) pair *)
(* with a text; path-named fallback entities, entities without a file and   *)
(* name resolution across files (names are unique here) are left out.       *)
(***************************************************************************)
EXTENDS Naturals, FiniteSets

CONSTANTS Docs, Names, Texts,
          MaxRevs, MaxRuns, MaxIngestFaults     \* bounds

ASSUME IngestAssumption ==
    /\ {MaxRevs, MaxRuns, MaxIngestFaults} \subseteq Nat /\ MaxRevs # 0
    /\ Docs \cap (Docs \X Names) = {}

Entities == Docs \X Names

VARIABLES tree,        \* the source tree: revision, files, texts of entities, relations
          track,       \* the revision in .aikoql-track.json, 0 for none
          irun,        \* the run in progress
          entKo, fileKo, dirKo,      \* the objects in the kernel
          iruns, ingestFaults

ingVars == <<tree, track, irun, entKo, fileKo, dirKo, iruns, ingestFaults>>

NoText == "none"
Irs == [files : SUBSET Docs, text : [Entities -> Texts \cup {NoText}],
        uses : SUBSET (Entities \X Entities)]
Defined(ir) == {e \in Entities : ir.text[e] # NoText}

\* A tree only has entities of its files, and relations between its entities.
Trees == {ir \in Irs : /\ \A e \in Defined(ir) : e[1] \in ir.files
                       /\ \A u \in ir.uses : u[1] # u[2] /\ {u[1], u[2]} \subseteq Defined(ir)}
EmptyIr == [files |-> {}, text |-> [e \in Entities |-> NoText], uses |-> {}]

NoRun == [pc |-> "idle", rev |-> 0, ir |-> EmptyIr, todo |-> {}, ents |-> {}, files |-> {},
          clean |-> TRUE]
NoEnt == [on |-> FALSE, text |-> NoText, rels |-> {}]

IngInit ==
    /\ \E ir \in Trees : tree = [rev |-> 1, ir |-> ir]
    /\ track = 0 /\ irun = NoRun
    /\ entKo = [e \in Entities |-> NoEnt]
    /\ fileKo = [d \in Docs |-> [on |-> FALSE, contains |-> {}]]
    /\ dirKo = [on |-> FALSE, ir |-> EmptyIr, files |-> {}, orphans |-> {}]
    /\ iruns = 0 /\ ingestFaults = 0

\* The developer commits another tree. EXTERNAL.
ChangeTree(ir) ==
    /\ tree.rev < MaxRevs /\ ir # tree.ir
    /\ tree' = [rev |-> tree.rev + 1, ir |-> ir]
    /\ UNCHANGED <<track, irun, entKo, fileKo, dirKo, iruns, ingestFaults>>

-----------------------------------------------------------------------------
\* A full run compiles the tree as it is; with no source file it ends.
StartFull ==
    /\ irun.pc = "idle" /\ iruns < MaxRuns /\ tree.ir.files # {}
    /\ iruns' = iruns + 1
    /\ irun' = [NoRun EXCEPT !.pc = "entity", !.ir = tree.ir, !.todo = Defined(tree.ir)]
    /\ UNCHANGED <<tree, track, entKo, fileKo, dirKo, ingestFaults>>

\* incremental_ingest_directory reads HEAD first, and goes on only when the
\* marker names another revision.
NeedsRun == track # tree.rev
StartIncremental ==
    /\ irun.pc = "idle" /\ iruns < MaxRuns /\ NeedsRun
    /\ iruns' = iruns + 1
    /\ irun' = [NoRun EXCEPT !.pc = "scan", !.rev = tree.rev]
    /\ UNCHANGED <<tree, track, entKo, fileKo, dirKo, ingestFaults>>

\* full_ingest_and_track: the scan, then the marker, before anything is stored.
ScanAndTrack ==
    /\ irun.pc = "scan"
    /\ IF tree.ir.files = {}
       THEN irun' = NoRun /\ UNCHANGED track
       ELSE /\ irun' = [irun EXCEPT !.pc = "entity", !.ir = tree.ir, !.todo = Defined(tree.ir)]
            /\ track' = irun.rev
    /\ UNCHANGED <<tree, entKo, fileKo, dirKo, iruns, ingestFaults>>

\* Phase 1: an entity whose key is known is updated (its relations are
\* replaced by none), a new one is created.
StoredEntity_Replayed(e) ==
    IF entKo[e].on THEN entKo[e] ELSE [on |-> TRUE, text |-> irun.ir.text[e], rels |-> {}]
StoredEntity(e) == [on |-> TRUE, text |-> irun.ir.text[e], rels |-> {}]

StoreEntity(e) ==
    /\ irun.pc = "entity" /\ e \in irun.todo
    /\ entKo' = [entKo EXCEPT ![e] = StoredEntity(e)]
    /\ irun' = [irun EXCEPT !.todo = @ \ {e}, !.ents = @ \cup {e}]
    /\ UNCHANGED <<tree, track, fileKo, dirKo, iruns, ingestFaults>>

\* Phases 0 and 1b: a File object for every file of the tree as it is walked
\* now, and for every file an entity came from.
WalkFiles ==
    /\ irun.pc = "entity" /\ irun.todo = {}
    /\ irun' = [irun EXCEPT !.pc = "file", !.todo = tree.ir.files \cup {e[1] : e \in irun.ents}]
    /\ UNCHANGED <<tree, track, entKo, fileKo, dirKo, iruns, ingestFaults>>

\* The object of a known key is returned as it is (an idempotent replay).
StoreFile(d) ==
    /\ irun.pc = "file" /\ d \in irun.todo
    /\ fileKo' = [fileKo EXCEPT ![d].on = TRUE]
    /\ irun' = [irun EXCEPT !.todo = @ \ {d}, !.files = @ \cup {d}]
    /\ UNCHANGED <<tree, track, entKo, dirKo, iruns, ingestFaults>>

\* Phase 2 groups the edges by the object they leave: only relations between
\* entities this run stored, only files that got an object.
Contained(d) == {e \in irun.ents : e[1] = d}
UsedBy(e) == {x \in irun.ents : <<e, x>> \in irun.ir.uses}
Outbound == {d \in irun.files : Contained(d) # {}} \cup {e \in irun.ents : UsedBy(e) # {}}

GroupEdges ==
    /\ irun.pc = "file" /\ irun.todo = {}
    /\ irun' = [irun EXCEPT !.pc = "edges", !.todo = Outbound]
    /\ UNCHANGED <<tree, track, entKo, fileKo, dirKo, iruns, ingestFaults>>

\* One update per object: its edges are replaced, its properties carried over.
StoreEdges(x) ==
    /\ irun.pc = "edges" /\ x \in irun.todo
    /\ IF x \in Docs
       THEN /\ fileKo' = [fileKo EXCEPT ![x].contains = Contained(x)]
            /\ UNCHANGED entKo
       ELSE /\ entKo' = [entKo EXCEPT ![x].rels = UsedBy(x)]
            /\ UNCHANGED fileKo
    /\ irun' = [irun EXCEPT !.todo = @ \ {x}]
    /\ UNCHANGED <<tree, track, dirKo, iruns, ingestFaults>>

\* The snapshot object, created or updated (its edges replaced by none).
StoreSnapshot ==
    /\ irun.pc = "edges" /\ irun.todo = {}
    /\ dirKo' = [on |-> TRUE, ir |-> irun.ir, files |-> {}, orphans |-> {}]
    /\ irun' = [irun EXCEPT !.pc = "dir"]
    /\ UNCHANGED <<tree, track, entKo, fileKo, iruns, ingestFaults>>

\* Its edges: every file of the run, and the entities whose file has no object.
FinishRun ==
    /\ irun.pc = "dir"
    /\ dirKo' = [dirKo EXCEPT !.files = irun.files,
                              !.orphans = {e \in irun.ents : e[1] \notin irun.files}]
    /\ irun' = NoRun
    /\ UNCHANGED <<tree, track, entKo, fileKo, iruns, ingestFaults>>

-----------------------------------------------------------------------------
\* A call fails: reported, and the run goes on without that object; without
\* the snapshot the run ends.
CallFails ==
    /\ ingestFaults < MaxIngestFaults /\ ingestFaults' = ingestFaults + 1
    /\ \/ /\ irun.pc \in {"entity", "file", "edges"} /\ irun.todo # {}
          /\ \E x \in irun.todo : irun' = [irun EXCEPT !.todo = @ \ {x}, !.clean = FALSE]
       \/ /\ irun.pc = "dir" \/ (irun.pc = "edges" /\ irun.todo = {})
          /\ irun' = NoRun
    /\ UNCHANGED <<tree, track, entKo, fileKo, dirKo, iruns>>

CutOff ==
    /\ irun.pc # "idle" /\ ingestFaults < MaxIngestFaults
    /\ ingestFaults' = ingestFaults + 1
    /\ irun' = NoRun
    /\ UNCHANGED <<tree, track, entKo, fileKo, dirKo, iruns>>

IngNext ==
    \/ \E ir \in Trees : ChangeTree(ir)
    \/ StartFull \/ StartIncremental \/ ScanAndTrack
    \/ \E e \in Entities : StoreEntity(e)
    \/ WalkFiles
    \/ \E d \in Docs : StoreFile(d)
    \/ GroupEdges
    \/ \E x \in Docs \cup Entities : StoreEdges(x)
    \/ StoreSnapshot \/ FinishRun \/ CallFails \/ CutOff

IngSpec == IngInit /\ [][IngNext]_ingVars

-----------------------------------------------------------------------------
IngTypeOK ==
    /\ tree.rev \in 1..MaxRevs /\ tree.ir \in Trees /\ track \in 0..MaxRevs
    /\ irun.pc \in {"idle", "scan", "entity", "file", "edges", "dir"}
    /\ irun.ir \in Trees /\ irun.ents \subseteq Entities /\ irun.files \subseteq Docs
    /\ irun.todo \subseteq Docs \cup Entities /\ irun.clean \in BOOLEAN
    /\ \A e \in Entities : entKo[e].on \in BOOLEAN /\ entKo[e].rels \subseteq Entities
    /\ \A d \in Docs : fileKo[d].on \in BOOLEAN /\ fileKo[d].contains \subseteq Entities
    /\ dirKo.on \in BOOLEAN /\ dirKo.ir \in Trees /\ dirKo.files \subseteq Docs

\* The kernel holds the tree of the IR: the texts and relations of its
\* entities, the containment of the files that have entities.
Stored(ir) ==
    /\ \A e \in Defined(ir) :
           entKo[e] = [on |-> TRUE, text |-> ir.text[e], rels |-> {x \in Entities : <<e, x>> \in ir.uses}]
    /\ \A d \in {e[1] : e \in Defined(ir)} : fileKo[d].contains = {e \in Defined(ir) : e[1] = d}
    /\ dirKo.ir = ir

\* "Replace semantics keep re-ingest idempotent" (ingest.rs:497-498): whatever
\* earlier runs left, cut off, with failed calls or of other revisions, a run
\* none of whose calls fails ends with the kernel holding what it compiled.
RunHeals ==
    irun.clean /\ FinishRun => \A ir \in {irun.ir} : Stored(ir)'

\* "Same SHA - nothing changed, return cached knowledge"
\* (ingest_incremental.rs:146): an incremental run is refused only when the
\* kernel holds the tree of that revision.
RefusedIsStored ==
    irun.pc = "idle" /\ track = tree.rev => Stored(tree.ir)

\* "After incremental + full run, the knowledge graph must be identical"
\* (docs/IMPLEMENTATION-PLAN.md:2536): a clean run leaves a file no edge to an
\* entity it does not define.
NoGhosts ==
    [][irun.clean /\ FinishRun =>
           \A d \in irun.files : fileKo[d].contains \subseteq Defined(irun.ir)]_ingVars

\* What the runs over a directory promise.
IngestPromise == [][IngTypeOK' /\ RunHeals]_ingVars
=============================================================================
