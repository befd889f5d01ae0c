----------------------------- MODULE MCBackground -----------------------------
(***************************************************************************)
(* The background threads of a node and the streams to its clients, side by *)
(* side: every behaviour is a behaviour of one of them, chosen initially,   *)
(* under its own fairness, while the others keep one of their initial       *)
(* states (in which what they must reach is reached).                       *)
(***************************************************************************)
EXTENDS CompactorSignal, Jobs, IndexMaintainer, Subscriptions, EventStream,
        Consolidation

VARIABLE part    \* the component this behaviour is about

allVars == <<part, sigVars, jobVars, mtVars, subVars, esVars, conVars>>

MCBackgroundInit ==
    /\ part \in {"signal", "jobs", "maintainer", "subscriptions", "stream", "consolidation"}
    /\ SigInit
    /\ JobsInit
    /\ MtInit /\ (part = "maintainer" \/ ix.row = "none")
    /\ SubInit /\ (part = "subscriptions" \/ conn.kind = "feed")
    /\ EsInit
    /\ ConInit

MCBackgroundNext ==
    /\ UNCHANGED part
    /\ \/ /\ part = "signal" /\ SigNext
          /\ UNCHANGED <<jobVars, mtVars, subVars, esVars, conVars>>
       \/ /\ part = "jobs" /\ JobsNext
          /\ UNCHANGED <<sigVars, mtVars, subVars, esVars, conVars>>
       \/ /\ part = "maintainer" /\ MtNext
          /\ UNCHANGED <<sigVars, jobVars, subVars, esVars, conVars>>
       \/ /\ part = "subscriptions" /\ SubNext
          /\ UNCHANGED <<sigVars, jobVars, mtVars, esVars, conVars>>
       \/ /\ part = "stream" /\ EsNext
          /\ UNCHANGED <<sigVars, jobVars, mtVars, subVars, conVars>>
       \/ /\ part = "consolidation" /\ ConNext
          /\ UNCHANGED <<sigVars, jobVars, mtVars, subVars, esVars>>

\* Each component's fairness, for the behaviours that are about it.
OnlySignal(A) == part = "signal" /\ A
OnlyJobs(A) == part = "jobs" /\ A
OnlyMaintainer(A) == part = "maintainer" /\ A
OnlySubs(A) == part = "subscriptions" /\ A
OnlyStream(A) == part = "stream" /\ A
OnlyConsolidation(A) == part = "consolidation" /\ A

MCBackgroundSpec ==
    /\ MCBackgroundInit /\ [][MCBackgroundNext]_allVars
    /\ WF_sigVars(OnlySignal(Compactor))
    /\ \A w \in SigWriters : WF_sigVars(OnlySignal(WriterGate(w) \/ Kick(w) \/ WaitIdle(w)))
    /\ WF_sigVars(OnlySignal(DropClear \/ DropNotify \/ DropJoin))
    /\ \A s \in Submitters : WF_jobVars(OnlyJobs(SubmitLoad(s) \/ SubmitCas(s) \/ SubmitWrite(s)
                                                 \/ SubmitInsert(s) \/ SubmitStart(s)))
    /\ \A i \in JobIds : WF_jobVars(OnlyJobs(WorkerFinish(i) \/ WorkerEnd(i)))
    /\ WF_mtVars(OnlyMaintainer(MtStart \/ MtCut \/ MtReceive \/ MtDrain \/ MtApply \/ MtBatchDone))
    /\ WF_mtVars(OnlyMaintainer(\E c \in {"ddl", "mt"} : InvalidateStamp(c) \/ ScanHeads(c)))
    /\ WF_subVars(OnlySubs(Broadcast)) /\ WF_subVars(OnlySubs(Subscribe))
    /\ WF_subVars(OnlySubs(Replay)) /\ WF_subVars(OnlySubs(FirstEvaluation))
    /\ WF_subVars(OnlySubs(WriteAnswer)) /\ WF_subVars(OnlySubs(FeedNext))
    /\ WF_subVars(OnlySubs(LiveNext)) /\ WF_subVars(OnlySubs(ReadFrame))
    /\ WF_esVars(OnlyStream(OpenStream))
    /\ \A g \in 1..MaxGets : /\ WF_esVars(OnlyStream(PumpTake(g) \/ PumpFails(g)))
                             /\ WF_esVars(OnlyStream(PumpWrite(g)))
    /\ WF_conVars(OnlyConsolidation(ConJob))

\* What the scheduler's threads promise: the index maintainer and the consolidation job.
SchedulerPromise == MaintainerPromise /\ ConsolidationPromise

=============================================================================
