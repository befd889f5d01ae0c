--------------------------------- MODULE Jobs ---------------------------------
(***************************************************************************)
(* The class-B job scheduler (kernel/src/jobs.rs and approve_job): submits *)
(* that deduplicate, claim an admission slot, write the Running row, and   *)
(* start a worker; the worker's terminal write; recovery on open.          *)
(* Submits and workers run concurrently; a write of the store may fail.    *)
(***************************************************************************)
EXTENDS Integers, FiniteSets

CONSTANTS
    Inputs,        \* input hashes
    Submitters,    \* threads that submit
    MaxRunning,    \* the admission limit
    MaxJobs,       \* bound: job ids
    MaxJobFaults,  \* bound: failed writes and failed admissions
    MaxRestarts    \* bound: process restarts

ASSUME JobsAssumption ==
    /\ {MaxRunning, MaxJobs, MaxJobFaults, MaxRestarts} \subseteq Nat
    /\ IsFiniteSet(Submitters) /\ "none" \notin Inputs

JobIds == 0 .. MaxJobs - 1

VARIABLES
    jobRow,     \* job/<id>
    jobRes,     \* jobres/<id>: the input whose result it is
    claims,     \* per id: the input whose claims approve_job committed under its keys
    byHash,     \* input -> id
    nextId, running,
    sub,        \* per submitter: where its submit is
    worker,     \* per id: the worker
    jobFaults, restarts

jobVars == <<jobRow, jobRes, claims, byHash, nextId, running, sub, worker, jobFaults, restarts>>

NoInput == "none"
NoRow == [status |-> "none", input |-> NoInput]
NoJob == -1
SubIdle == [pc |-> "idle", input |-> NoInput, cur |-> 0, id |-> NoJob]
NoWorker == [pc |-> "none", status |-> "none", input |-> NoInput]

JobsInit ==
    /\ jobRow = [i \in JobIds |-> NoRow] /\ jobRes = [i \in JobIds |-> NoInput]
    /\ claims = [i \in JobIds |-> NoInput]
    /\ byHash = [h \in Inputs |-> NoJob] /\ nextId = 0 /\ running = 0
    /\ sub = [s \in Submitters |-> SubIdle] /\ worker = [i \in JobIds |-> NoWorker]
    /\ jobFaults = 0 /\ restarts = 0

JobFault == jobFaults < MaxJobFaults /\ jobFaults' = jobFaults + 1

-----------------------------------------------------------------------------
(* submit *)

\* The dedup check: an input that is known returns its handle, which is no step.
SubmitCheck(s, h) ==
    /\ sub[s] = SubIdle /\ byHash[h] = NoJob
    /\ sub' = [sub EXCEPT ![s] = [SubIdle EXCEPT !.pc = "load", !.input = h]]
    /\ UNCHANGED <<jobRow, jobRes, claims, byHash, nextId, running, worker, jobFaults, restarts>>

\* The load of `running`.
SubmitLoad(s) ==
    /\ sub[s].pc = "load"
    /\ sub' = [sub EXCEPT ![s].pc = "cas", ![s].cur = running]
    /\ UNCHANGED <<jobRow, jobRes, claims, byHash, nextId, running, worker, jobFaults, restarts>>

\* Mutant: the value loaded earlier decides.
CasWins_Stale(s) == TRUE

CasWins(s) == running = sub[s].cur

\* Over the limit: rejected.  The exchange takes the slot, or loads again.
SubmitCas(s) ==
    /\ sub[s].pc = "cas"
    /\ \/ /\ sub[s].cur >= MaxRunning
          /\ sub' = [sub EXCEPT ![s] = SubIdle] /\ running' = running
       \/ /\ sub[s].cur < MaxRunning /\ CasWins(s)
          /\ sub' = [sub EXCEPT ![s].pc = "write"] /\ running' = running + 1
       \/ /\ sub[s].cur < MaxRunning /\ ~CasWins(s)
          /\ sub' = [sub EXCEPT ![s].cur = running] /\ running' = running
    /\ UNCHANGED <<jobRow, jobRes, claims, byHash, nextId, worker, jobFaults, restarts>>

\* The id, and the durable Running row; a failed write gives the slot back.
SubmitWrite(s) ==
    /\ sub[s].pc = "write" /\ nextId < MaxJobs
    /\ nextId' = nextId + 1
    /\ \/ /\ jobRow' = [jobRow EXCEPT ![nextId] = [status |-> "Running", input |-> sub[s].input]]
          /\ sub' = [sub EXCEPT ![s].pc = "insert", ![s].id = nextId]
          /\ UNCHANGED <<running, jobFaults>>
       \/ /\ JobFault
          /\ running' = running - 1 /\ sub' = [sub EXCEPT ![s] = SubIdle]
          /\ jobRow' = jobRow
    /\ UNCHANGED <<jobRes, claims, byHash, worker, restarts>>

SubmitInsert(s) ==
    /\ sub[s].pc = "insert"
    /\ byHash' = [byHash EXCEPT ![sub[s].input] = sub[s].id]
    /\ sub' = [sub EXCEPT ![s].pc = "start"]
    /\ UNCHANGED <<jobRow, jobRes, claims, nextId, running, worker, jobFaults, restarts>>

\* The audit event and the worker's thread.
SubmitStart(s) ==
    /\ sub[s].pc = "start"
    /\ worker' = [worker EXCEPT ![sub[s].id] = [NoWorker EXCEPT !.pc = "run", !.input = sub[s].input]]
    /\ sub' = [sub EXCEPT ![s] = SubIdle]
    /\ UNCHANGED <<jobRow, jobRes, claims, byHash, nextId, running, jobFaults, restarts>>

\* Mutant: the abort keeps the slot.
SlotsAfterAbort_Kept == running

SlotsAfterAbort == running - 1

\* abort_admission: the row (an error is ignored), the dedup entry and the slot.
SubmitAbort(s) ==
    /\ sub[s].pc = "start" /\ JobFault
    /\ \/ jobRow' = [jobRow EXCEPT ![sub[s].id] = NoRow]
       \/ jobRow' = jobRow
    /\ byHash' = [byHash EXCEPT ![sub[s].input] = NoJob]
    /\ running' = SlotsAfterAbort
    /\ sub' = [sub EXCEPT ![s] = SubIdle]
    /\ UNCHANGED <<jobRes, claims, nextId, worker, restarts>>

-----------------------------------------------------------------------------
(* Workers and approval *)

\* Mutant: the status is written and the result follows.
ResultLanded_Later(i, ok) == jobRes

\* The result rides the batch of the Completed status.
ResultLanded(i, ok) == IF ok THEN [jobRes EXCEPT ![i] = worker[i].input] ELSE jobRes

\* finish: a terminal row and its result in one batch, over the row as it is now (no
\* row: nothing is written); an error of the write is ignored.
WorkerFinish(i) ==
    /\ worker[i].pc = "run"
    /\ \E ok \in BOOLEAN :
          LET status == IF ok THEN "Completed" ELSE "Failed"
          IN  /\ worker' = [worker EXCEPT ![i].pc = "evict", ![i].status = status]
              /\ IF jobRow[i] = NoRow THEN UNCHANGED <<jobRow, jobRes, jobFaults>>
                 ELSE \/ /\ jobRow' = [jobRow EXCEPT ![i].status = status]
                         /\ jobRes' = ResultLanded(i, ok) /\ jobFaults' = jobFaults
                      \/ JobFault /\ UNCHANGED <<jobRow, jobRes>>
    /\ UNCHANGED <<claims, byHash, nextId, running, sub, restarts>>

\* Mutant: a failed input stays in the table.
ByHashAfter_Kept(i) == byHash

\* A failed input is evicted.
ByHashAfter(i) ==
    IF worker[i].status = "Failed" /\ jobRow[i] # NoRow
    THEN [byHash EXCEPT ![jobRow[i].input] = NoJob] ELSE byHash

\* The eviction, and the slot.
WorkerEnd(i) ==
    /\ worker[i].pc = "evict"
    /\ byHash' = ByHashAfter(i)
    /\ running' = running - 1
    /\ worker' = [worker EXCEPT ![i] = NoWorker]
    /\ UNCHANGED <<jobRow, jobRes, claims, nextId, sub, jobFaults, restarts>>

\* approve_job: claims enter the store once under the job's idempotency keys.
ApproveJob(i) ==
    /\ jobRow[i].status = "Completed" /\ claims[i] = NoInput
    /\ claims' = [claims EXCEPT ![i] = jobRes[i]]
    /\ UNCHANGED <<jobRow, jobRes, byHash, nextId, running, sub, worker, jobFaults, restarts>>

-----------------------------------------------------------------------------
(* Restart *)

\* The id submit hands out first after an open: the largest one of the table.
NextIdAtOpen(rows) ==
    LET U == {i \in JobIds : rows[i] # NoRow}
    IN  IF U = {} THEN 0 ELSE CHOOSE i \in U : \A j \in U : j <= i

\* Mutant: Running rows are left as they are.
RecoveredRow_Kept(row) == row

RecoveredRow(row) == IF row.status = "Running" THEN [row EXCEPT !.status = "Failed"] ELSE row

\* The process dies and recover_with runs: Running rows are marked Failed; the others
\* rebuild the dedup table, the last one of an input winning.
JobsRestart ==
    LET rows == [i \in JobIds |-> RecoveredRow(jobRow[i])]
        known(h) == {i \in JobIds : rows[i].input = h /\ rows[i].status # "Failed"}
    IN  /\ restarts < MaxRestarts
        /\ restarts' = restarts + 1
        /\ jobRow' = rows
        /\ byHash' = [h \in Inputs |-> IF known(h) = {} THEN NoJob
                                       ELSE CHOOSE i \in known(h) : \A j \in known(h) : j <= i]
        /\ nextId' = NextIdAtOpen(jobRow)
        /\ running' = 0
        /\ sub' = [s \in Submitters |-> SubIdle] /\ worker' = [i \in JobIds |-> NoWorker]
        /\ UNCHANGED <<jobRes, claims, jobFaults>>

JobsNext ==
    \/ \E s \in Submitters : \/ \E h \in Inputs : SubmitCheck(s, h)
                             \/ SubmitLoad(s) \/ SubmitCas(s) \/ SubmitWrite(s)
                             \/ SubmitInsert(s) \/ SubmitStart(s) \/ SubmitAbort(s)
    \/ \E i \in JobIds : WorkerFinish(i) \/ WorkerEnd(i) \/ ApproveJob(i)
    \/ JobsRestart

\* A thread that can go on does; submits and approvals are the callers' choice.
JobsFairness ==
    /\ \A s \in Submitters : WF_jobVars(SubmitLoad(s) \/ SubmitCas(s) \/ SubmitWrite(s)
                                        \/ SubmitInsert(s) \/ SubmitStart(s))
    /\ \A i \in JobIds : WF_jobVars(WorkerFinish(i) \/ WorkerEnd(i))

JobsSpec == JobsInit /\ [][JobsNext]_jobVars /\ JobsFairness

-----------------------------------------------------------------------------
(* Properties *)

JobsTypeOK ==
    /\ \A i \in JobIds : /\ jobRow[i].status \in {"none", "Running", "Completed", "Failed"}
                         /\ jobRes[i] \in Inputs \cup {NoInput}
                         /\ worker[i].pc \in {"none", "run", "evict"}
    /\ \A h \in Inputs : byHash[h] \in JobIds \cup {NoJob}
    /\ nextId \in 0 .. MaxJobs /\ running \in Int

\* Never more jobs than the admission limit, however submits race
\* (jobs.rs:393-399, "the admission slot is claimed by CAS").
AdmissionBound ==
    Cardinality({s \in Submitters : sub[s].pc \in {"write", "insert", "start"}})
    + Cardinality({i \in JobIds : worker[i].pc # "none"}) <= running /\ running <= MaxRunning

\* A Completed row has the result of its own input, across failures and restarts
\* (jobs.rs:489-492, "a crash never leaves Completed-without-result").
CompletedHasResult ==
    \A i \in JobIds : jobRow[i].status = "Completed" => jobRes[i] = jobRow[i].input

\* An input whose job failed is retried: once its worker is done, the dedup table
\* does not answer with the failed job, also after a restart (jobs.rs:13-16).
FailedRetries ==
    \A h \in Inputs : \A i \in JobIds :
        byHash[h] = i /\ jobRow[i] = [status |-> "Failed", input |-> h] => worker[i].pc = "evict"

\* A job that died with its process is not Running after the restart
\* (jobs.rs:9-11): Running rows have a submit or a worker, or their last write failed.
RunningIsAlive ==
    \A i \in JobIds : jobRow[i].status = "Running" =>
        \/ worker[i].pc # "none" \/ jobFaults > 0
        \/ \E s \in Submitters : sub[s].id = i

\* Slots come back: submits are not rejected for ever (jobs.rs:396-399, "every abort
\* path releases them").
SlotsReturn == []<>(running < MaxRunning \/ nextId = MaxJobs)

\* jobs.rs:9-11: "a job killed with its process is never silently dropped": no row is
\* taken over by a job with another input, and none disappears but by an abort.
NeverDropped ==
    [][\A i \in JobIds : jobRow[i] # NoRow /\ jobRow'[i] # NoRow => jobRow'[i].input = jobRow[i].input]_jobVars

\* What the scheduler promises those who submit jobs and read their results.
JobsPromise ==
    /\ [](JobsTypeOK /\ AdmissionBound /\ CompletedHasResult /\ FailedRetries /\ RunningIsAlive)
    /\ SlotsReturn
=============================================================================
