------------------------------- MODULE Rejoin -------------------------------
(***************************************************************************)
(* A standby replaced by its leader's snapshot, on disk (replication.rs:   *)
(* receive_dir, follow_into, finish_rebootstrap, rebootstrap): the         *)
(* directory, its siblings .rejoin, .new, .old and .ckpt, and the record   *)
(* rejoin.json, with a crash between any two of the renames and removals.  *)
(*                                                                         *)
(* What a directory holds is the number of the leader's snapshot it comes  *)
(* from (0: what the standby began with), once for the data and once for   *)
(* the TERM and HISTORY files.                                             *)
(***************************************************************************)
EXTENDS Integers

CONSTANTS
    Serving,        \* an open engine exits for its restart; otherwise the loop goes on
    MaxShips,       \* bound: snapshots the leader ships
    MaxRjCrashes    \* bound: crashes

ASSUME RejoinAssumption == Serving \in BOOLEAN /\ {MaxShips, MaxRjCrashes} \subseteq Nat

Nowhere == -1
Gone == [data |-> Nowhere, meta |-> Nowhere]
HoldsShip(n) == [data |-> n, meta |-> n]
Blank == -2  \* a directory that was created empty

VARIABLES
    rjDir, rjNew, rjOld,  \* {dir}, {dir}.new, {dir}.old
    rjSnap,               \* {dir}.rejoin: a snapshot, whole or not
    rjCkpt,               \* {dir}.ckpt: the snapshot its index describes
    rjPending,            \* rejoin.json: the snapshot it was written for
    rjPc,                 \* what the process is doing
    rjGoal,               \* the snapshot whose term and history the process carries
    rjShips, rjCrashes

rjVars == <<rjDir, rjNew, rjOld, rjSnap, rjCkpt, rjPending, rjPc, rjGoal, rjShips, rjCrashes>>

NoSource == [n |-> Nowhere, whole |-> FALSE]

RjInit ==
    /\ rjDir = HoldsShip(0) /\ rjNew = Gone /\ rjOld = Gone /\ rjSnap = NoSource
    /\ rjCkpt = 0 /\ rjPending = Nowhere /\ rjPc = "start" /\ rjGoal = Nowhere
    /\ rjShips = 0 /\ rjCrashes = 0

RjGo(pc) == rjPc' = pc

\* main: finish a recorded re-bootstrap first, then open (creating what is absent).
RjStart ==
    /\ rjPc = "start"
    /\ IF rjPending # Nowhere
       THEN RjGo("restore") /\ rjGoal' = rjPending /\ rjDir' = rjDir
       ELSE /\ RjGo("follow") /\ rjGoal' = Nowhere
            /\ rjDir' = IF rjDir = Gone THEN HoldsShip(Blank) ELSE rjDir
    /\ UNCHANGED <<rjNew, rjOld, rjSnap, rjCkpt, rjPending, rjShips, rjCrashes>>

\* The leader streams an index checkpoint for the history it shares.
RjCheckpoint ==
    /\ rjPc = "follow" /\ rjCkpt' = rjDir.data
    /\ UNCHANGED <<rjDir, rjNew, rjOld, rjSnap, rjPending, rjPc, rjGoal, rjShips, rjCrashes>>

\* Mutant: the received files are written in place.
Received_InPlace(n) == [n |-> n, whole |-> FALSE]

\* receive_dir renames the directory once its last file is synced.
Received(n) == [n |-> n, whole |-> TRUE]

\* receive_dir: the old .rejoin goes, the received one is renamed into place; a
\* serving standby records it and exits, the loop re-bootstraps at once.
RjReceive ==
    /\ rjPc = "follow" /\ rjShips < MaxShips
    /\ rjShips' = rjShips + 1 /\ rjGoal' = rjShips + 1
    /\ rjSnap' = Received(rjShips + 1)
    /\ RjGo(IF Serving THEN "record" ELSE "restore")
    /\ UNCHANGED <<rjDir, rjNew, rjOld, rjCkpt, rjPending, rjCrashes>>

RjRecord ==
    /\ rjPc = "record"
    /\ rjPending' = rjGoal /\ RjGo("start")
    /\ UNCHANGED <<rjDir, rjNew, rjOld, rjSnap, rjCkpt, rjGoal, rjShips, rjCrashes>>

\* rebootstrap: restore into .new; a snapshot that is not whole is refused, and the
\* process exits with an error.
RjRestore ==
    /\ rjPc = "restore" /\ rjOld' = rjOld
    /\ IF rjSnap.whole
       THEN rjNew' = [data |-> rjSnap.n, meta |-> Nowhere] /\ RjGo("meta")
       ELSE rjNew' = Gone /\ RjGo("refused")
    /\ UNCHANGED <<rjDir, rjSnap, rjCkpt, rjPending, rjGoal, rjShips, rjCrashes>>

\* Mutant: the term and the history are left to the first connection.
MetaOf_Kept(goal) == rjDir.meta

\* The term and the history are the ones that came with the snapshot.
MetaOf(goal) == goal

\* store_history, store_term, store_leader in .new; a stale .old is removed.
RjMeta ==
    /\ rjPc = "meta"
    /\ rjNew' = [rjNew EXCEPT !.meta = MetaOf(rjGoal)] /\ rjOld' = Gone
    /\ RjGo("moveOld")
    /\ UNCHANGED <<rjDir, rjSnap, rjCkpt, rjPending, rjGoal, rjShips, rjCrashes>>

RjMoveOld ==
    /\ rjPc = "moveOld"
    /\ rjOld' = rjDir /\ rjDir' = Gone
    /\ RjGo("moveNew")
    /\ UNCHANGED <<rjNew, rjSnap, rjCkpt, rjPending, rjGoal, rjShips, rjCrashes>>

RjMoveNew ==
    /\ rjPc = "moveNew"
    /\ rjDir' = rjNew /\ rjNew' = Gone
    /\ RjGo("dropOld")
    /\ UNCHANGED <<rjOld, rjSnap, rjCkpt, rjPending, rjGoal, rjShips, rjCrashes>>

RjDropOld ==
    /\ rjPc = "dropOld"
    /\ rjOld' = Gone /\ RjGo("dropSnap")
    /\ UNCHANGED <<rjDir, rjNew, rjSnap, rjCkpt, rjPending, rjGoal, rjShips, rjCrashes>>

\* remove_dir_all goes file by file.
RjDropSnap ==
    /\ rjPc = "dropSnap"
    /\ \/ rjSnap.whole /\ rjSnap' = [rjSnap EXCEPT !.whole = FALSE] /\ RjGo("dropSnap")
       \/ rjSnap' = NoSource /\ RjGo("dropCkpt")
    /\ UNCHANGED <<rjDir, rjNew, rjOld, rjCkpt, rjPending, rjGoal, rjShips, rjCrashes>>

\* Mutant: the index checkpoint is kept.
CkptAfter_Kept(c) == c

\* The index checkpoint described the replaced history.
CkptAfter(c) == Nowhere

RjDropCkpt ==
    /\ rjPc = "dropCkpt"
    /\ rjCkpt' = CkptAfter(rjCkpt) /\ RjGo("unrecord")
    /\ UNCHANGED <<rjDir, rjNew, rjOld, rjSnap, rjPending, rjGoal, rjShips, rjCrashes>>

\* finish_rebootstrap removes the record; then the directory is opened.
RjUnrecord ==
    /\ rjPc = "unrecord"
    /\ rjPending' = Nowhere /\ RjGo("follow")
    /\ UNCHANGED <<rjDir, rjNew, rjOld, rjSnap, rjCkpt, rjGoal, rjShips, rjCrashes>>

\* The supervisor restarts a process that refused.
RjRestart ==
    /\ rjPc = "refused" /\ RjGo("start")
    /\ UNCHANGED <<rjDir, rjNew, rjOld, rjSnap, rjCkpt, rjPending, rjGoal, rjShips, rjCrashes>>

\* A crash; one in the middle of the restore leaves .new in pieces, which is removed first.
RjCrash ==
    /\ rjPc \notin {"start", "refused"} /\ rjCrashes < MaxRjCrashes
    /\ rjCrashes' = rjCrashes + 1 /\ RjGo("start") /\ rjGoal' = Nowhere
    /\ UNCHANGED <<rjDir, rjNew, rjOld, rjSnap, rjCkpt, rjPending, rjShips>>

RjNext ==
    \/ RjStart \/ RjCheckpoint \/ RjReceive \/ RjRecord \/ RjRestore \/ RjMeta \/ RjMoveOld
    \/ RjMoveNew \/ RjDropOld \/ RjDropSnap \/ RjDropCkpt \/ RjUnrecord \/ RjRestart \/ RjCrash

RjSpec == RjInit /\ [][RjNext]_rjVars

\* A process goes on, and its supervisor restarts it.
RjFairness == WF_rjVars(\/ RjStart \/ RjRecord \/ RjRestore \/ RjMeta \/ RjMoveOld \/ RjMoveNew
                        \/ RjDropOld \/ RjDropSnap \/ RjDropCkpt \/ RjUnrecord \/ RjRestart)
RjLive == RjSpec /\ RjFairness

-----------------------------------------------------------------------------
(* Properties *)

RjTypeOK ==
    /\ rjPc \in {"start", "follow", "record", "restore", "meta", "moveOld", "moveNew", "dropOld",
                 "dropSnap", "dropCkpt", "unrecord", "refused"}
    /\ rjPending \in Nowhere .. MaxShips /\ rjGoal \in Nowhere .. MaxShips

\* "never a mixed history" (replication.rs:1013-1016): whatever a crash interrupts, the
\* directory a process opens has the term and history of its own data.
NeverMixed == rjDir.meta = rjDir.data /\ (rjPc = "follow" => rjDir # Gone)

\* A recorded re-bootstrap can still be finished from a whole snapshot, or the directory
\* is already the one it leads to (replication.rs:996-1010, 1040-1044).
RecordHasSource ==
    rjPending # Nowhere => (rjSnap.whole /\ rjSnap.n = rjPending) \/ rjDir = HoldsShip(rjPending)

\* An index checkpoint a started standby resumes from describes its own history
\* (replication.rs:1045-1046).
CkptMatches == rjPc = "follow" => rjCkpt \in {Nowhere, rjDir.data}

\* "the restart finishes the re-bootstrap" (replication.rs:941-942).
RestartFinishes == rjPending # Nowhere ~> rjPending = Nowhere

\* What a re-bootstrap keeps at every restart of the process.
RejoinSafe == RjTypeOK /\ NeverMixed /\ RecordHasSource /\ CkptMatches
=============================================================================
