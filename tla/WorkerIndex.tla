---------------------------- MODULE WorkerIndex -----------------------------
(***************************************************************************)
(* The worker with the rows it writes: what Pipeline commits is, in one    *)
(* database transaction, the journal, the holdings and the registry rows   *)
(* of one company and its token.                                           *)
(***************************************************************************)
EXTENDS HoldingsIndex, RegistryIndex

rowVars == <<holdingsVars, registryVars>>
indexVars == <<vars, rowVars>>

IndexInit == Init /\ HoldingsInit /\ RegistryInit

ApplyIndex == (Apply \/ ApplyThrowsAfterCommit) /\ WriteHoldings /\ WriteRegistry

Elsewhere ==
    /\ \/ Land
       \/ \E t \in Txs : Notify(t)
       \/ PassStep
       \/ Skip \/ ApplyThrows \/ Save \/ SaveThrows
       \/ Restart
    /\ UNCHANGED rowVars

IndexNext == ApplyIndex \/ Elsewhere

IndexSpec == IndexInit /\ [][IndexNext]_indexVars

\* Pipeline's fairness.
FairIndexSpec ==
    /\ IndexSpec
    /\ WF_indexVars(PassStep /\ Elsewhere)
    /\ WF_indexVars(ApplyIndex \/ (PipelineStep /\ Elsewhere))
============================================================================
