------------------------------- MODULE MCKernel -------------------------------
(***************************************************************************)
(* The components around the kernel that share no state in these models,    *)
(* side by side: every behaviour is a behaviour of one of them, chosen      *)
(* initially, while the others keep one of their initial states.            *)
(***************************************************************************)
EXTENDS KernelCommit, KernelIndex, Knowledge, KeyRing, Import, IngestDir,
        Schemas, Clients, QueryStream

\* Rows that do not move are all of one table.
RowTables == [r \in Rows |-> 1]

VARIABLE part    \* the component this behaviour is about

allVars == <<part, kernelVars, indexVars, knVars, keyVars, impVars, ingVars,
             schVars, grVars, claimVars, qVars>>

MCKernelInit ==
    /\ part \in {"commit", "index", "knowledge", "keys", "import", "ingest", "schemas", "grants", "claims", "query"}
    /\ KernelInit
    /\ IndexInit
    /\ KnInit /\ (part = "knowledge" \/ derivedFrom = {})
    /\ KeyInit
    /\ ImpInit /\ (\A r \in Rows : src[r].val = "u")
    /\ part = "import" \/ (imp = ImpIdle("sqlite") /\ \A r \in Rows : src[r].tabs = {1})
    /\ IngInit /\ (part = "ingest" \/ tree.ir = EmptyIr)
    /\ SchInit /\ (\A k \in SchFirst : obj[k].val = "u") /\ (part = "schemas" \/ deferred)
    /\ GrInit
    /\ ClaimsInit
    /\ QInit

MCKernelNext ==
    /\ UNCHANGED part
    /\ \/ /\ part = "commit" /\ KernelNext
          /\ UNCHANGED <<indexVars, knVars, keyVars, impVars, ingVars, schVars,
                         grVars, claimVars, qVars>>
       \/ /\ part = "index" /\ IndexNext
          /\ UNCHANGED <<kernelVars, knVars, keyVars, impVars, ingVars,
                         schVars, grVars, claimVars, qVars>>
       \/ /\ part = "knowledge" /\ KnNext
          /\ UNCHANGED <<kernelVars, indexVars, keyVars, impVars, ingVars,
                         schVars, grVars, claimVars, qVars>>
       \/ /\ part = "keys" /\ KeyNext
          /\ UNCHANGED <<kernelVars, indexVars, knVars, impVars, ingVars,
                         schVars, grVars, claimVars, qVars>>
       \/ /\ part = "import" /\ ImpNext
          /\ UNCHANGED <<kernelVars, indexVars, knVars, keyVars, ingVars,
                         schVars, grVars, claimVars, qVars>>
       \/ /\ part = "ingest" /\ IngNext
          /\ UNCHANGED <<kernelVars, indexVars, knVars, keyVars, impVars,
                         schVars, grVars, claimVars, qVars>>
       \/ /\ part = "schemas" /\ SchNext
          /\ UNCHANGED <<kernelVars, indexVars, knVars, keyVars, impVars,
                         ingVars, grVars, claimVars, qVars>>
       \/ /\ part = "grants" /\ GrNext
          /\ UNCHANGED <<kernelVars, indexVars, knVars, keyVars, impVars,
                         ingVars, schVars, claimVars, qVars>>
       \/ /\ part = "claims" /\ ClaimsNext
          /\ UNCHANGED <<kernelVars, indexVars, knVars, keyVars, impVars,
                         ingVars, schVars, grVars, qVars>>
       \/ /\ part = "query" /\ QNext
          /\ UNCHANGED <<kernelVars, indexVars, knVars, keyVars, impVars,
                         ingVars, schVars, grVars, claimVars>>

MCKernelSpec == MCKernelInit /\ [][MCKernelNext]_allVars
=============================================================================
