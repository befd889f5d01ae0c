-------------------------------- MODULE Import --------------------------------
(***************************************************************************)
(* Connector imports (services/api/mcp/src/imports.rs): a run reads tables  *)
(* of another database, commits every row as a knowledge object under an    *)
(* idempotency key, and tombstones the objects whose rows are gone.         *)
(*                                                                           *)
(* A run of an ImportSink (PostgreSQL, MongoDB, Neo4j) has a run id, fresh   *)
(* or given again with --run-id; it reads all its tables, then commits, then *)
(* prunes, and aborts at the first error.  The SQLite runner is of an older  *)
(* kind: table by table, one key per row for ever, errors only warned about, *)
(* no pruning.  The source changes while a run reads it.                     *)
(*                                                                           *)
(* A table is also a collection of MongoDB or a label of Neo4j, and a row a  *)
(* document or a node.  A row is listed by the table that its koid is made   *)
(* from, a node by each of its labels, which change; what links rows (foreign*)
(* keys, relationships) belongs to their contents.                           *)
(*                                                                           *)
(* A row's object is [ver, val, type, live]: ver 0 when there is none, live  *)
(* FALSE when it is tombstoned.  One process has the store open, so commits  *)
(* of a run never conflict.                                                  *)
(***************************************************************************)
EXTENDS Naturals, FiniteSets, Sequences

Sinks == {"postgres", "mongodb", "neo4j"}

CONSTANTS Tables,            \* in the order in which they are read
          Rows, TableOf,     \* rows, and the table of each where rows do not move
          RowVals,
          Runners,           \* the kinds of runner: "sqlite" and those of the sink
          MaxImports,        \* runs started
          MaxSrcChanges,     \* changes at the source
          MaxImportFaults    \* errors, short reads and crashes

ASSUME ImportAssumption ==
    /\ Tables \subseteq Nat /\ TableOf \in [Rows -> Tables]
    /\ Runners \subseteq Sinks \cup {"sqlite"}
    /\ MaxImports \in Nat /\ MaxSrcChanges \in Nat /\ MaxImportFaults \in Nat

\* What the source holds of a row: its value and the tables that list it.  The labels of a
\* node are among its properties.
Contents == [val : RowVals, tabs : SUBSET Tables]
NoRow == [val |-> "none", tabs |-> {}]

VARIABLES
    src,        \* the source: each row's contents or NoRow
    kos,        \* the store: each row's object
    rowKeys,    \* idempotency rows: run id, type name and row
    imp,        \* the import process
    runIds,     \* how many run ids were used, each with srcChanges at its first start
    marked,     \* runs with an "incomplete" marker
    gone,       \* history: tables and rows they did not list at some time since the run began
    imports, srcChanges, importFaults

impVars == <<src, kos, rowKeys, imp, runIds, marked, gone, imports, srcChanges, importFaults>>

NoObj == [ver |-> 0, val |-> NoRow, type |-> 0, live |-> FALSE]
NoReads == <<>>

\* An import: its runner and run id, the tables to read, those left, the rows read and the
\* table each was read from, the tables read short (history), the rows left to commit, the
\* rows present, and its stage.
ImpIdle(kind) == [pc |-> "idle", kind |-> kind, run |-> 0, fresh |-> TRUE, tables |-> {}, unread |-> {},
               read |-> NoReads, cut |-> {}, puts |-> {}, present |-> {}]

Sink == imp.kind \in Sinks

-----------------------------------------------------------------------------
(* The source.                                                               *)

\* Only nodes change the tables that list them.
MayList(kind, r, ts) == kind = "neo4j" \/ ts = {TableOf[r]}

SrcChange(r, v) ==
    /\ srcChanges < MaxSrcChanges /\ src[r] # v
    /\ v # NoRow => MayList(imp.kind, r, v.tabs)
    /\ src' = [src EXCEPT ![r] = v]
    /\ gone' = gone \cup {<<t, r>> : t \in Tables \ v.tabs}
    /\ srcChanges' = srcChanges + 1
    /\ UNCHANGED <<kos, rowKeys, imp, runIds, marked, imports, importFaults>>

-----------------------------------------------------------------------------
(* A run.                                                                    *)

Resting == imp.pc \in {"idle", "done"}

\* A fresh run id, or one used before; all tables, or the one of --table.
StartImport(run, ts) ==
    /\ Resting /\ imports < MaxImports
    /\ run \in 1..(Len(runIds) + 1)
    /\ runIds' = IF run > Len(runIds) THEN Append(runIds, srcChanges) ELSE runIds
    /\ imp' = [ImpIdle(imp.kind) EXCEPT !.pc = "read", !.run = run, !.fresh = run > Len(runIds),
                                      !.tables = ts, !.unread = ts]
    /\ gone' = {x \in Tables \X Rows : x[1] \notin src[x[2]].tabs}
    /\ imports' = imports + 1
    /\ UNCHANGED <<src, kos, rowKeys, marked, srcChanges, importFaults>>

\* The rows of a table, as one query of the source sees them.
RowsOf(t) == {r \in Rows : t \in src[r].tabs}

\* The tables in order; the SQLite runner commits one before it reads the next.
MayRead(t) ==
    /\ imp.pc = "read" /\ t \in imp.unread /\ \A u \in imp.unread : t <= u
    /\ imp.kind = "sqlite" => imp.puts = {}

\* A row that another table listed before counts once, as that table's (the labels of Neo4j).
ReadRows(t, rows) ==
    LET new == rows \ DOMAIN imp.read
    IN  [imp EXCEPT !.unread = @ \ {t},
                    !.read = [r \in DOMAIN @ \cup new |->
                                 IF r \in new THEN [val |-> src[r], type |-> t] ELSE @[r]],
                    !.puts = @ \cup new]

\* import_table, import_collection and import_nodes.
ReadTable(t) ==
    /\ MayRead(t)
    /\ imp' = ReadRows(t, RowsOf(t))
    /\ UNCHANGED <<src, kos, rowKeys, runIds, marked, gone, imports, srcChanges, importFaults>>

\* import_collection: a cursor that fails ends the list, which is returned as whole.
ReadShort(t, rows) ==
    /\ MayRead(t) /\ imp.kind = "mongodb" /\ importFaults < MaxImportFaults
    /\ rows \subseteq RowsOf(t) /\ rows # RowsOf(t)
    /\ importFaults' = importFaults + 1
    /\ imp' = [ReadRows(t, rows) EXCEPT !.cut = @ \cup {t}]
    /\ UNCHANGED <<src, kos, rowKeys, runIds, marked, gone, imports, srcChanges>>

\* A slip in the runners: a key without the run id.
KeyOf_Constant(r) == <<0, imp.read[r].type, r>>

\* The idempotency key of a row's commit.
KeyOf(r) == <<IF Sink THEN imp.run ELSE 0, imp.read[r].type, r>>

\* The head already holds what was read: put commits nothing.
Identical(r) == Sink /\ kos[r].ver > 0 /\ kos[r].val = imp.read[r].val

\* remember: a held key replays the first commit; the SQLite runner expects
\* version 0; an existing object keeps its lifecycle.
Commits(r) == /\ ~Identical(r) /\ KeyOf(r) \notin rowKeys
              /\ imp.kind = "sqlite" => kos[r].ver = 0

Remembered(r) == [ver |-> kos[r].ver + 1, val |-> imp.read[r].val, type |-> imp.read[r].type,
                  live |-> kos[r].ver = 0 \/ kos[r].live]

\* A slip in run_pg_import: only rows that made a commit count as present.
PresentAfter_Committed(r) == IF Commits(r) THEN imp.present \cup {r} ELSE imp.present

\* Every row read is present, committed or skipped.
PresentAfter(r) == imp.present \cup {r}

\* The sink's commits start when every table is read.
MayPut == imp.pc = "read" /\ (Sink => imp.unread = {})

\* ImportSink::put, and the loop of run_sqlite_import.
PutRow(r) ==
    /\ MayPut /\ r \in imp.puts
    /\ imp' = [imp EXCEPT !.puts = @ \ {r}, !.present = PresentAfter(r)]
    /\ kos' = IF Commits(r) THEN [kos EXCEPT ![r] = Remembered(r)] ELSE kos
    /\ rowKeys' = IF Commits(r) THEN rowKeys \cup {KeyOf(r)} ELSE rowKeys
    /\ UNCHANGED <<src, runIds, marked, gone, imports, srcChanges, importFaults>>

AllPut == imp.pc = "read" /\ imp.unread = {} /\ imp.puts = {}

\* A slip in prune_missing: only rows this run read are looked at.
Stale_OfRead == {r \in DOMAIN imp.read : kos[r].live /\ r \notin imp.present}

\* Present as an object of its type; and the types of which any row is.
PresentAs(r) == r \in imp.present /\ imp.read[r].type = kos[r].type
PresentTypes == {imp.read[p].type : p \in imp.present}

\* prune_missing's scan: live objects of a type that had rows, but not this.
Stale == {r \in Rows : kos[r].live /\ kos[r].type \in PresentTypes /\ ~PresentAs(r)}

\* forget(Tombstone), a commit for each row.
PruneRow(r) ==
    /\ AllPut /\ Sink /\ r \in Stale
    /\ kos' = [kos EXCEPT ![r].ver = @ + 1, ![r].live = FALSE]
    /\ UNCHANGED <<src, rowKeys, imp, runIds, marked, gone, imports, srcChanges, importFaults>>

FinishImport ==
    /\ AllPut
    /\ Sink => Stale = {}
    /\ imp' = [imp EXCEPT !.pc = "done"]
    /\ UNCHANGED <<src, kos, rowKeys, runIds, marked, gone, imports, srcChanges, importFaults>>

\* An error of the source or of a commit.  The sink aborts: it marks the run
\* incomplete and exits.  The SQLite runner goes on with the next row or table.
ImportFails ==
    /\ imp.pc = "read" /\ importFaults < MaxImportFaults
    /\ importFaults' = importFaults + 1
    /\ IF Sink
       THEN imp' = ImpIdle(imp.kind) /\ marked' = marked \cup {imp.run}
       ELSE /\ marked' = marked
            /\ \/ \E r \in imp.puts : imp' = [imp EXCEPT !.puts = @ \ {r}]
               \/ \E t \in imp.unread : imp.puts = {} /\ imp' = [imp EXCEPT !.unread = @ \ {t}]
    /\ UNCHANGED <<src, kos, rowKeys, runIds, gone, imports, srcChanges>>

\* The process is killed.
ImportKilled ==
    /\ imp.pc = "read" /\ importFaults < MaxImportFaults
    /\ importFaults' = importFaults + 1
    /\ imp' = ImpIdle(imp.kind)
    /\ UNCHANGED <<src, kos, rowKeys, runIds, marked, gone, imports, srcChanges>>

-----------------------------------------------------------------------------
ImpInit ==
    /\ \E kind \in Runners : imp = ImpIdle(kind)
    /\ src \in [Rows -> Contents] /\ \A r \in Rows : MayList(imp.kind, r, src[r].tabs)
    /\ kos = [r \in Rows |-> NoObj]
    /\ rowKeys = {} /\ runIds = <<>> /\ marked = {} /\ gone = {}
    /\ imports = 0 /\ srcChanges = 0 /\ importFaults = 0

ImpNext ==
    \/ \E r \in Rows, v \in Contents \cup {NoRow} : SrcChange(r, v)
    \/ \E run \in 1..MaxImports, ts \in {Tables} \cup {{t} : t \in Tables} : StartImport(run, ts)
    \/ \E t \in Tables : ReadTable(t) \/ \E rows \in SUBSET Rows : ReadShort(t, rows)
    \/ \E r \in Rows : PutRow(r) \/ PruneRow(r)
    \/ FinishImport \/ ImportFails \/ ImportKilled

ImpSpec == ImpInit /\ [][ImpNext]_impVars

-----------------------------------------------------------------------------
(* Properties.                                                               *)

\* Type invariant.
ImpTypeOK ==
    /\ src \in [Rows -> Contents \cup {NoRow}]
    /\ \A r \in Rows : kos[r].ver \in Nat /\ kos[r].val \in Contents \cup {NoRow}
                       /\ kos[r].type \in Tables \cup {0} /\ kos[r].live \in BOOLEAN
    /\ rowKeys \subseteq (0..MaxImports) \X Tables \X Rows
    /\ imp.pc \in {"idle", "read", "done"} /\ imp.kind \in Runners
    /\ imp.puts \subseteq DOMAIN imp.read /\ imp.present \subseteq DOMAIN imp.read
    /\ marked \subseteq 1..MaxImports

\* When a run completes, every row it read has the contents read as its newest
\* version, whatever runs before it did or left undone; so it is for a retry
\* of an aborted run under the same --run-id, if the source has not changed
\* since that id was first used (ImportSink: "a fresh run may update existing
\* KOs, while retrying the same --run-id replays the original commits").
ImportedCurrent ==
    /\ imp.pc = "done" /\ Sink
    /\ imp.fresh \/ runIds[imp.run] = srcChanges
    => \A r \in DOMAIN imp.read : kos[r].val = imp.read[r].val

\* An object is tombstoned only if, at some time since the run began, the source did not
\* list its row in the table its type names ("a partial run must not be mistaken for a
\* full picture of the source", CON-007, imports.rs:106-109), whatever failed in this run
\* or in those before it; but for
\*  - a collection of MongoDB whose cursor failed, which is taken for the full picture;
\*  - a node of Neo4j that the run read under another label than the object's type.
OutageKeeps ==
    \A r \in Rows : kos[r].live /\ ~kos'[r].live =>
        \/ <<kos[r].type, r>> \in gone
        \/ imp.kind = "mongodb" /\ kos[r].type \in imp.cut
        \/ imp.kind = "neo4j" /\ r \in DOMAIN imp.read /\ imp.read[r].type # kos[r].type

\* What CON-007 says without those exceptions, and what is not so: a row that the source
\* never lacked is not pruned.
NeverPruned ==
    \A r \in Rows : kos[r].live /\ ~kos'[r].live => \A t \in src[r].tabs : <<t, r>> \in gone

\* A completed run leaves no live object that it did not read as one of its type, of
\* any type that still has rows (prune_missing).
PrunedWhereRead ==
    imp.pc = "done" /\ Sink =>
        \A r \in Rows : kos[r].live /\ (\E p \in DOMAIN imp.read : imp.read[p].type = kos[r].type)
                        => r \in DOMAIN imp.read /\ imp.read[r].type = kos[r].type

\* What tests/connector_certification.rs says of a deleted row: "stale KOs must
\* not linger as live knowledge", in every table the run imports.
NoneLinger ==
    imp.pc = "done" /\ Sink =>
        \A r \in Rows : kos[r].live /\ kos[r].type \in imp.tables => r \in DOMAIN imp.read

\* A row that a completed run read is live knowledge.
ImportedLive == imp.pc = "done" /\ Sink => \A r \in DOMAIN imp.read : kos[r].live

\* What an import that is repeated, cut off or half refused promises.
ImportPromise == [][(ImpTypeOK /\ ImportedCurrent /\ PrunedWhereRead)' /\ OutageKeeps]_impVars
=============================================================================
