------------------------ MODULE BacktestRunsProofs ------------------------
(***************************************************************************)
(* Proofs about BacktestRuns, for any sets of runs and slots and any       *)
(* bounds.                                                                 *)
(***************************************************************************)
EXTENDS BacktestRuns, TLAPS

(* A slot is idle exactly when it holds no run, and a held delivery has a   *)
(* number; an open form is about a row that existed when it was read.       *)
SlotsOK ==
  \A w \in Workers :
    IF pc[w] = "idle" THEN job[w] = NoRun ELSE job[w] \in Runs /\ exec[w] # 0

FormOK ==
  form # NoForm => form.run \in Runs /\ form.status \notin {"none", "deleted"}

TypeInv == TypeOK /\ SlotsOK /\ FormOK

LEMMA InitTypeInv == Init => TypeInv
  BY NoRunAssumption DEF Init, TypeInv, TypeOK, SlotsOK, FormOK, NoForm, RowStatus,
     Choices, Unsettled, Terminal, Ages, SlotState, Executing

(* Every action keeps every variable in its type.                           *)
LEMMA NextTypeInv == TypeInv /\ [Next]_vars => TypeInv'
<1> SUFFICES ASSUME TypeInv, [Next]_vars PROVE TypeInv'
  OBVIOUS
<1> USE NoRunAssumption DEF TypeInv, TypeOK, SlotsOK, FormOK, RowStatus, Choices, Unsettled,
        Terminal, Ages, SlotState, Executing, InTry, Finishing, Goto, rowVars,
        resultVars, txnVars, slotVars, pruneVars, countVars, pastVars, dbVars, restVars, otherVars
<1>1. ASSUME NEW r \in Runs, CreateRun(r) PROVE TypeInv'
  BY <1>1 DEF CreateRun, InsertRow, Publish
<1>2. ASSUME NEW r \in Runs, CreateRunUnpublished(r) PROVE TypeInv'
  BY <1>2 DEF CreateRunUnpublished, InsertRow
<1>3. ASSUME NEW r \in Runs, Rerun(r) PROVE TypeInv'
  BY <1>3 DEF Rerun, Publish
<1>4. ASSUME NEW r \in Runs, DestroyRun(r) PROVE TypeInv'
  BY <1>4 DEF DestroyRun
<1>5. ASSUME NEW r \in Runs, OpenForm(r) PROVE TypeInv'
  BY <1>5 DEF OpenForm, Exists
<1>6. CASE SaveForm
  BY <1>6 DEF SaveForm, NoForm
<1>7. CASE DiscardForm
  BY <1>7 DEF DiscardForm, NoForm
<1>8. ASSUME NEW w \in Workers, NEW r \in Runs, TakeDelivery(w, r) PROVE TypeInv'
  BY <1>8 DEF TakeDelivery, Queued
<1>9. ASSUME NEW w \in Workers, LookupRun(w) PROVE TypeInv'
  BY <1>9 DEF LookupRun, Step
<1>10. ASSUME NEW w \in Workers, MarkRunning(w) PROVE TypeInv'
  BY <1>10 DEF MarkRunning, WriteRow, Alone
<1>11. ASSUME NEW w \in Workers, EngineReturns(w) PROVE TypeInv'
  BY <1>11 DEF EngineReturns, Step
<1>12. ASSUME NEW w \in Workers, TryRaises(w) PROVE TypeInv'
  BY <1>12 DEF TryRaises, EndTransaction
<1>13. ASSUME NEW w \in Workers, DeleteTrades(w) PROVE TypeInv'
  BY <1>13 DEF DeleteTrades
<1>14. ASSUME NEW w \in Workers, DeleteEquity(w) PROVE TypeInv'
  BY <1>14 DEF DeleteEquity
<1>15. ASSUME NEW w \in Workers, CommitResults(w) PROVE TypeInv'
  BY <1>15 DEF CommitResults, RowsReplaced, UpdateOrCreate, EndTransaction
<1>16. ASSUME NEW w \in Workers, WriteOutcome(w) PROVE TypeInv'
  BY <1>16 DEF WriteOutcome, WriteRow, FinalStatus
<1>17. ASSUME NEW w \in Workers, Acknowledge(w) PROVE TypeInv'
  BY <1>17 DEF Acknowledge, Release, EndTransaction
<1>18. ASSUME NEW w \in Workers, AbandonDelivery(w) PROVE TypeInv'
  BY <1>18 DEF AbandonDelivery, Release, EndTransaction
<1>19. ASSUME NEW w \in Workers, WorkerLost(w) PROVE TypeInv'
  BY <1>19 DEF WorkerLost, Requeue, Release, EndTransaction
<1>20. ASSUME NEW r \in Runs, RunAges(r) PROVE TypeInv'
  BY <1>20 DEF RunAges
<1>21. CASE SelectStaleRuns
  BY <1>21 DEF SelectStaleRuns, StaleRuns
<1>22. CASE PruneEquity
  BY <1>22 DEF PruneEquity
<1>23. CASE PruneTrades
  BY <1>23 DEF PruneTrades
<1>24. CASE CleanupKilled
  BY <1>24 DEF CleanupKilled
<1>25. CASE UNCHANGED vars
  BY <1>25 DEF vars
<1> QED
  BY <1>1, <1>2, <1>3, <1>4, <1>5, <1>6, <1>7, <1>8, <1>9, <1>10, <1>11,
     <1>12, <1>13, <1>14, <1>15, <1>16, <1>17, <1>18, <1>19, <1>20,
     <1>21, <1>22, <1>23, <1>24, <1>25 DEF Next, Web, SlotStep, Cleanup

LEMMA TypeInvariant == Spec => []TypeInv
  BY InitTypeInv, NextTypeInv, PTL DEF Spec

(* The rows, the queue, the slots and the cleanup stay within their types   *)
(* in every behaviour of the workers, the web process and the cleanup.      *)
THEOREM TypeCorrect == Spec => []TypeOK
<1>1. TypeInv => TypeOK
  BY DEF TypeInv
<1> QED
  BY <1>1, TypeInvariant, PTL

-----------------------------------------------------------------------------
(* NoSilentLoss is inductive over the types: each action that takes a       *)
(* message or a slot away from a run hands the run on or writes its outcome. *)

LossInv == TypeInv /\ NoSilentLoss

LEMMA NextLossInv == LossInv /\ [Next]_vars => NoSilentLoss'
<1> SUFFICES ASSUME LossInv, [Next]_vars PROVE NoSilentLoss'
  OBVIOUS
<1> USE DEF LossInv, NoSilentLoss, Attended, Exists, Unsettled, TypeInv, TypeOK, SlotsOK, FormOK, Executing,
        InTry, Finishing, Terminal, Goto, rowVars, resultVars, txnVars, slotVars,
        pruneVars, countVars, pastVars, dbVars, restVars, otherVars
<1>1. ASSUME NEW r \in Runs, CreateRun(r) PROVE NoSilentLoss'
  BY <1>1 DEF CreateRun, InsertRow, Publish
<1>2. ASSUME NEW r \in Runs, CreateRunUnpublished(r) PROVE NoSilentLoss'
  BY <1>2 DEF CreateRunUnpublished, InsertRow
<1>3. ASSUME NEW r \in Runs, Rerun(r) PROVE NoSilentLoss'
  BY <1>3 DEF Rerun, Publish
<1>4. ASSUME NEW r \in Runs, DestroyRun(r) PROVE NoSilentLoss'
  BY <1>4 DEF DestroyRun
<1>5. ASSUME NEW r \in Runs, OpenForm(r) PROVE NoSilentLoss'
  BY <1>5 DEF OpenForm
<1>6. CASE SaveForm
  BY <1>6 DEF SaveForm, Choices
<1>7. CASE DiscardForm
  BY <1>7 DEF DiscardForm
<1>8. ASSUME NEW w \in Workers, NEW r \in Runs, TakeDelivery(w, r) PROVE NoSilentLoss'
  BY <1>8 DEF TakeDelivery, Queued
<1>9. ASSUME NEW w \in Workers, LookupRun(w) PROVE NoSilentLoss'
  BY <1>9 DEF LookupRun, Step
<1>10. ASSUME NEW w \in Workers, MarkRunning(w) PROVE NoSilentLoss'
  BY <1>10 DEF MarkRunning, WriteRow, Alone
<1>11. ASSUME NEW w \in Workers, EngineReturns(w) PROVE NoSilentLoss'
  BY <1>11 DEF EngineReturns, Step
<1>12. ASSUME NEW w \in Workers, TryRaises(w) PROVE NoSilentLoss'
  BY <1>12 DEF TryRaises, EndTransaction
<1>13. ASSUME NEW w \in Workers, DeleteTrades(w) PROVE NoSilentLoss'
  BY <1>13 DEF DeleteTrades
<1>14. ASSUME NEW w \in Workers, DeleteEquity(w) PROVE NoSilentLoss'
  BY <1>14 DEF DeleteEquity
<1>15. ASSUME NEW w \in Workers, CommitResults(w) PROVE NoSilentLoss'
  BY <1>15 DEF CommitResults, RowsReplaced, UpdateOrCreate, EndTransaction
<1>16. ASSUME NEW w \in Workers, WriteOutcome(w) PROVE NoSilentLoss'
  BY <1>16 DEF WriteOutcome, WriteRow, FinalStatus
<1>17. ASSUME NEW w \in Workers, Acknowledge(w) PROVE NoSilentLoss'
  BY <1>17 DEF Acknowledge, Release, EndTransaction
<1>18. ASSUME NEW w \in Workers, AbandonDelivery(w) PROVE NoSilentLoss'
  BY <1>18 DEF AbandonDelivery, Release, EndTransaction
<1>19. ASSUME NEW w \in Workers, WorkerLost(w) PROVE NoSilentLoss'
  BY <1>19 DEF WorkerLost, Requeue, Release, EndTransaction
<1>20. ASSUME NEW r \in Runs, RunAges(r) PROVE NoSilentLoss'
  BY <1>20 DEF RunAges
<1>21. CASE SelectStaleRuns
  BY <1>21 DEF SelectStaleRuns, StaleRuns
<1>22. CASE PruneEquity
  BY <1>22 DEF PruneEquity
<1>23. CASE PruneTrades
  BY <1>23 DEF PruneTrades
<1>24. CASE CleanupKilled
  BY <1>24 DEF CleanupKilled
<1>25. CASE UNCHANGED vars
  BY <1>25 DEF vars
<1> QED
  BY <1>1, <1>2, <1>3, <1>4, <1>5, <1>6, <1>7, <1>8, <1>9, <1>10, <1>11,
     <1>12, <1>13, <1>14, <1>15, <1>16, <1>17, <1>18, <1>19, <1>20,
     <1>21, <1>22, <1>23, <1>24, <1>25 DEF Next, Web, SlotStep, Cleanup

(* A run that reads PENDING or RUNNING has a message or a worker behind it, *)
(* however often it is re-queued, executed at once or redelivered.          *)
THEOREM NothingLostSilently == Spec => []NoSilentLoss
<1>1. Init => NoSilentLoss
  BY DEF Init, NoSilentLoss, Unsettled
<1>2. TypeInv /\ NoSilentLoss /\ [Next]_vars => NoSilentLoss'
  BY NextLossInv DEF LossInv
<1> QED
  BY <1>1, <1>2, TypeInvariant, PTL DEF Spec

-----------------------------------------------------------------------------
(* Nothing works on a row before its INSERT, and a row that is not there    *)
(* has no trades, no curve and no metrics.                                  *)

RowsOK ==
  \A r \in Runs :
    /\ status[r] = "none" => queue[r] = 0 /\ ~ Held(r) /\ r \notin stale_ids
    /\ ~ Exists(r) => trades[r] = {} /\ equity[r] = {} /\ metrics[r] = 0

RowInv == TypeInv /\ RowsOK

LEMMA NextRowInv == RowInv /\ [Next]_vars => RowInv'
<1> SUFFICES ASSUME RowInv, [Next]_vars PROVE RowInv'
  OBVIOUS
<1> USE NoRunAssumption, NextTypeInv DEF RowInv, RowsOK, Held, RowStatus, Choices, NoForm,
        Exists, Unsettled, TypeInv, TypeOK, SlotsOK, FormOK, Executing,
        InTry, Finishing, Terminal, Goto, rowVars, resultVars, txnVars, slotVars,
        pruneVars, countVars, pastVars, dbVars, restVars, otherVars
<1>1. ASSUME NEW r \in Runs, CreateRun(r) PROVE RowInv'
  BY <1>1 DEF CreateRun, InsertRow, Publish
<1>2. ASSUME NEW r \in Runs, CreateRunUnpublished(r) PROVE RowInv'
  BY <1>2 DEF CreateRunUnpublished, InsertRow
<1>3. ASSUME NEW r \in Runs, Rerun(r) PROVE RowInv'
  BY <1>3 DEF Rerun, Publish
<1>4. ASSUME NEW r \in Runs, DestroyRun(r) PROVE RowInv'
  BY <1>4 DEF DestroyRun
<1>5. ASSUME NEW r \in Runs, OpenForm(r) PROVE RowInv'
  BY <1>5 DEF OpenForm
<1>6. CASE SaveForm
  BY <1>6 DEF SaveForm, Choices
<1>7. CASE DiscardForm
  BY <1>7 DEF DiscardForm
<1>8. ASSUME NEW w \in Workers, NEW r \in Runs, TakeDelivery(w, r) PROVE RowInv'
  BY <1>8 DEF TakeDelivery, Queued
<1>9. ASSUME NEW w \in Workers, LookupRun(w) PROVE RowInv'
  BY <1>9 DEF LookupRun, Step
<1>10. ASSUME NEW w \in Workers, MarkRunning(w) PROVE RowInv'
  BY <1>10 DEF MarkRunning, WriteRow, Alone
<1>11. ASSUME NEW w \in Workers, EngineReturns(w) PROVE RowInv'
  BY <1>11 DEF EngineReturns, Step
<1>12. ASSUME NEW w \in Workers, TryRaises(w) PROVE RowInv'
  BY <1>12 DEF TryRaises, EndTransaction
<1>13. ASSUME NEW w \in Workers, DeleteTrades(w) PROVE RowInv'
  BY <1>13 DEF DeleteTrades
<1>14. ASSUME NEW w \in Workers, DeleteEquity(w) PROVE RowInv'
  BY <1>14 DEF DeleteEquity
<1>15. ASSUME NEW w \in Workers, CommitResults(w) PROVE RowInv'
  BY <1>15 DEF CommitResults, RowsReplaced, UpdateOrCreate, EndTransaction
<1>16. ASSUME NEW w \in Workers, WriteOutcome(w) PROVE RowInv'
  BY <1>16 DEF WriteOutcome, WriteRow, FinalStatus
<1>17. ASSUME NEW w \in Workers, Acknowledge(w) PROVE RowInv'
  BY <1>17 DEF Acknowledge, Release, EndTransaction
<1>18. ASSUME NEW w \in Workers, AbandonDelivery(w) PROVE RowInv'
  BY <1>18 DEF AbandonDelivery, Release, EndTransaction
<1>19. ASSUME NEW w \in Workers, WorkerLost(w) PROVE RowInv'
  BY <1>19 DEF WorkerLost, Requeue, Release, EndTransaction
<1>20. ASSUME NEW r \in Runs, RunAges(r) PROVE RowInv'
  BY <1>20 DEF RunAges
<1>21. CASE SelectStaleRuns
  BY <1>21 DEF SelectStaleRuns, StaleRuns, Stale
<1>22. CASE PruneEquity
  BY <1>22 DEF PruneEquity
<1>23. CASE PruneTrades
  BY <1>23 DEF PruneTrades
<1>24. CASE CleanupKilled
  BY <1>24 DEF CleanupKilled
<1>25. CASE UNCHANGED vars
  BY <1>25 DEF vars
<1> QED
  BY <1>1, <1>2, <1>3, <1>4, <1>5, <1>6, <1>7, <1>8, <1>9, <1>10, <1>11,
     <1>12, <1>13, <1>14, <1>15, <1>16, <1>17, <1>18, <1>19, <1>20,
     <1>21, <1>22, <1>23, <1>24, <1>25 DEF Next, Web, SlotStep, Cleanup

LEMMA InitRowInv == Init => RowInv
<1>1. Init => \A r \in Runs : ~ Held(r)
  <2> SUFFICES ASSUME Init, NEW r \in Runs PROVE \A w \in Workers : job[w] # r
    BY DEF Held
  <2> QED
    BY NoRunAssumption DEF Init
<1>2. Init => RowsOK
  BY <1>1 DEF Init, RowsOK, Exists
<1> QED
  BY <1>2, InitTypeInv DEF RowInv

LEMMA RowInvariant == Spec => []RowInv
  BY InitRowInv, NextRowInv, PTL DEF Spec

-----------------------------------------------------------------------------
(* MetricsBelong needs to know that a slot about to write SUCCEEDED has     *)
(* stored metrics, which only a deletion of the row takes away again.       *)

StoredBeforeSuccess ==
  \A w \in Workers :
    pc[w] = "finish_succeeded" /\ job[w] \notin overwritten
      => ~ Exists(job[w]) \/ metrics[job[w]] # 0

MetricsInv == RowInv /\ StoredBeforeSuccess /\ MetricsBelong

LEMMA NextMetricsInv == MetricsInv /\ [Next]_vars => (StoredBeforeSuccess /\ MetricsBelong)'
<1> SUFFICES ASSUME MetricsInv, [Next]_vars PROVE (StoredBeforeSuccess /\ MetricsBelong)'
  OBVIOUS
<1> USE NoRunAssumption DEF MetricsInv, StoredBeforeSuccess, MetricsBelong, RowInv,
        RowsOK, Held, NoForm, Exists, Unsettled, TypeInv, TypeOK, SlotsOK, FormOK, Executing,
        InTry, Finishing, Terminal, Goto, rowVars, resultVars, txnVars, slotVars,
        pruneVars, countVars, pastVars, dbVars, restVars, otherVars
<1>1. ASSUME NEW r \in Runs, CreateRun(r) PROVE (StoredBeforeSuccess /\ MetricsBelong)'
  BY <1>1 DEF CreateRun, InsertRow, Publish
<1>2. ASSUME NEW r \in Runs, CreateRunUnpublished(r) PROVE (StoredBeforeSuccess /\ MetricsBelong)'
  BY <1>2 DEF CreateRunUnpublished, InsertRow
<1>3. ASSUME NEW r \in Runs, Rerun(r) PROVE (StoredBeforeSuccess /\ MetricsBelong)'
  BY <1>3 DEF Rerun, Publish
<1>4. ASSUME NEW r \in Runs, DestroyRun(r) PROVE (StoredBeforeSuccess /\ MetricsBelong)'
  BY <1>4 DEF DestroyRun
<1>5. ASSUME NEW r \in Runs, OpenForm(r) PROVE (StoredBeforeSuccess /\ MetricsBelong)'
  BY <1>5 DEF OpenForm
<1>6. CASE SaveForm
  BY <1>6 DEF SaveForm, Choices
<1>7. CASE DiscardForm
  BY <1>7 DEF DiscardForm
<1>8. ASSUME NEW w \in Workers, NEW r \in Runs, TakeDelivery(w, r) PROVE (StoredBeforeSuccess /\ MetricsBelong)'
  BY <1>8 DEF TakeDelivery, Queued
<1>9. ASSUME NEW w \in Workers, LookupRun(w) PROVE (StoredBeforeSuccess /\ MetricsBelong)'
  BY <1>9 DEF LookupRun, Step
<1>10. ASSUME NEW w \in Workers, MarkRunning(w) PROVE (StoredBeforeSuccess /\ MetricsBelong)'
  BY <1>10 DEF MarkRunning, WriteRow, Alone
<1>11. ASSUME NEW w \in Workers, EngineReturns(w) PROVE (StoredBeforeSuccess /\ MetricsBelong)'
  BY <1>11 DEF EngineReturns, Step
<1>12. ASSUME NEW w \in Workers, TryRaises(w) PROVE (StoredBeforeSuccess /\ MetricsBelong)'
  BY <1>12 DEF TryRaises, EndTransaction
<1>13. ASSUME NEW w \in Workers, DeleteTrades(w) PROVE (StoredBeforeSuccess /\ MetricsBelong)'
  BY <1>13 DEF DeleteTrades
<1>14. ASSUME NEW w \in Workers, DeleteEquity(w) PROVE (StoredBeforeSuccess /\ MetricsBelong)'
  BY <1>14 DEF DeleteEquity
<1>15. ASSUME NEW w \in Workers, CommitResults(w) PROVE (StoredBeforeSuccess /\ MetricsBelong)'
  BY <1>15 DEF CommitResults, RowsReplaced, UpdateOrCreate, EndTransaction
<1>16. ASSUME NEW w \in Workers, WriteOutcome(w) PROVE (StoredBeforeSuccess /\ MetricsBelong)'
  BY <1>16 DEF WriteOutcome, WriteRow, FinalStatus
<1>17. ASSUME NEW w \in Workers, Acknowledge(w) PROVE (StoredBeforeSuccess /\ MetricsBelong)'
  BY <1>17 DEF Acknowledge, Release, EndTransaction
<1>18. ASSUME NEW w \in Workers, AbandonDelivery(w) PROVE (StoredBeforeSuccess /\ MetricsBelong)'
  BY <1>18 DEF AbandonDelivery, Release, EndTransaction
<1>19. ASSUME NEW w \in Workers, WorkerLost(w) PROVE (StoredBeforeSuccess /\ MetricsBelong)'
  BY <1>19 DEF WorkerLost, Requeue, Release, EndTransaction
<1>20. ASSUME NEW r \in Runs, RunAges(r) PROVE (StoredBeforeSuccess /\ MetricsBelong)'
  BY <1>20 DEF RunAges
<1>21. CASE SelectStaleRuns
  BY <1>21 DEF SelectStaleRuns, StaleRuns
<1>22. CASE PruneEquity
  BY <1>22 DEF PruneEquity
<1>23. CASE PruneTrades
  BY <1>23 DEF PruneTrades
<1>24. CASE CleanupKilled
  BY <1>24 DEF CleanupKilled
<1>25. CASE UNCHANGED vars
  BY <1>25 DEF vars
<1> QED
  BY <1>1, <1>2, <1>3, <1>4, <1>5, <1>6, <1>7, <1>8, <1>9, <1>10, <1>11,
     <1>12, <1>13, <1>14, <1>15, <1>16, <1>17, <1>18, <1>19, <1>20,
     <1>21, <1>22, <1>23, <1>24, <1>25 DEF Next, Web, SlotStep, Cleanup

(* Whatever overlaps, a run a worker has made SUCCEEDED has metrics, and    *)
(* every curve holds the execution they describe.                           *)
THEOREM MetricsOfTheCurve == Spec => []MetricsBelong
<1>1. Init => StoredBeforeSuccess /\ MetricsBelong
  BY DEF Init, StoredBeforeSuccess, MetricsBelong
<1>2. RowInv /\ (StoredBeforeSuccess /\ MetricsBelong) /\ [Next]_vars
        => (StoredBeforeSuccess /\ MetricsBelong)'
  BY NextMetricsInv DEF MetricsInv
<1>3. Spec => [](StoredBeforeSuccess /\ MetricsBelong)
  BY <1>1, <1>2, RowInvariant, PTL DEF Spec
<1> QED
  BY <1>3, PTL

-----------------------------------------------------------------------------
(* ResultsConsistent is about runs that one activity at a time works on.    *)
(* For them an open save_run_results transaction has seen all rows there    *)
(* are, and what the cleanup has selected stays old until it is done or the *)
(* admin edits it.                                                          *)

Finished(r) == metrics[r] # 0 /\ equity[r] = {metrics[r]}

ExecutionOK(r, w) ==
  /\ pc[w] \in {"delete_equity", "commit"} => trades[r] \subseteq seen_trades[w]
  /\ pc[w] = "commit" => equity[r] \subseteq seen_equity[w]
  /\ pc[w] = "finish_succeeded" => ~ Exists(r) \/ Finished(r) \/ r \in overwritten
  /\ pc[w] \in InTry \cup Finishing => status[r] \notin Terminal \/ r \in overwritten

ActivityOK(r) ==
  /\ \A v, w \in Workers : job[v] = r /\ job[w] = r => v = w
  /\ Held(r) => r \notin stale_ids
  /\ r \in stale_ids => Stale(r) \/ ~ Exists(r) \/ r \in overwritten
  /\ \A w \in Workers : job[w] = r => ExecutionOK(r, w)

ActivitiesOK == \A r \in Runs \ contended : ActivityOK(r)

ActivityInv == RowInv /\ ActivitiesOK

LEMMA NextActivitiesOK == ActivityInv /\ [Next]_vars => ActivitiesOK'
<1> SUFFICES ASSUME ActivityInv, [Next]_vars PROVE ActivitiesOK'
  OBVIOUS
<1> USE NoRunAssumption DEF ActivityInv, RowInv, RowsOK, ActivitiesOK, ActivityOK,
        ExecutionOK, Stale, Finished, Held, Exists, Unsettled, TypeInv, TypeOK, SlotsOK, FormOK, Executing,
        InTry, Finishing, Terminal, Goto, rowVars, resultVars, txnVars, slotVars,
        pruneVars, countVars, pastVars, dbVars, restVars, otherVars
<1>1. ASSUME NEW r \in Runs, CreateRun(r) PROVE ActivitiesOK'
  BY <1>1 DEF CreateRun, InsertRow, Publish
<1>2. ASSUME NEW r \in Runs, CreateRunUnpublished(r) PROVE ActivitiesOK'
  BY <1>2 DEF CreateRunUnpublished, InsertRow
<1>3. ASSUME NEW r \in Runs, Rerun(r) PROVE ActivitiesOK'
  BY <1>3 DEF Rerun, Publish
<1>4. ASSUME NEW r \in Runs, DestroyRun(r) PROVE ActivitiesOK'
  BY <1>4 DEF DestroyRun
<1>5. ASSUME NEW r \in Runs, OpenForm(r) PROVE ActivitiesOK'
  BY <1>5 DEF OpenForm
<1>6. CASE SaveForm
  BY <1>6 DEF SaveForm, Choices
<1>7. CASE DiscardForm
  BY <1>7 DEF DiscardForm
<1>8. ASSUME NEW w \in Workers, NEW r \in Runs, TakeDelivery(w, r) PROVE ActivitiesOK'
  BY <1>8 DEF TakeDelivery, Queued
<1>9. ASSUME NEW w \in Workers, LookupRun(w) PROVE ActivitiesOK'
  BY <1>9 DEF LookupRun, Step
<1>10. ASSUME NEW w \in Workers, MarkRunning(w) PROVE ActivitiesOK'
  BY <1>10 DEF MarkRunning, WriteRow, Alone
<1>11. ASSUME NEW w \in Workers, EngineReturns(w) PROVE ActivitiesOK'
  BY <1>11 DEF EngineReturns, Step
<1>12. ASSUME NEW w \in Workers, TryRaises(w) PROVE ActivitiesOK'
  BY <1>12 DEF TryRaises, EndTransaction
<1>13. ASSUME NEW w \in Workers, DeleteTrades(w) PROVE ActivitiesOK'
  BY <1>13 DEF DeleteTrades
<1>14. ASSUME NEW w \in Workers, DeleteEquity(w) PROVE ActivitiesOK'
  BY <1>14 DEF DeleteEquity
<1>15. ASSUME NEW w \in Workers, CommitResults(w) PROVE ActivitiesOK'
  BY <1>15 DEF CommitResults, RowsReplaced, UpdateOrCreate, EndTransaction
<1>16. ASSUME NEW w \in Workers, WriteOutcome(w) PROVE ActivitiesOK'
  BY <1>16 DEF WriteOutcome, WriteRow, FinalStatus
<1>17. ASSUME NEW w \in Workers, Acknowledge(w) PROVE ActivitiesOK'
  BY <1>17 DEF Acknowledge, Release, EndTransaction
<1>18. ASSUME NEW w \in Workers, AbandonDelivery(w) PROVE ActivitiesOK'
  BY <1>18 DEF AbandonDelivery, Release, EndTransaction
<1>19. ASSUME NEW w \in Workers, WorkerLost(w) PROVE ActivitiesOK'
  BY <1>19 DEF WorkerLost, Requeue, Release, EndTransaction
<1>20. ASSUME NEW r \in Runs, RunAges(r) PROVE ActivitiesOK'
  BY <1>20 DEF RunAges
<1>21. CASE SelectStaleRuns
  BY <1>21 DEF SelectStaleRuns, StaleRuns
<1>22. CASE PruneEquity
  BY <1>22 DEF PruneEquity
<1>23. CASE PruneTrades
  BY <1>23 DEF PruneTrades
<1>24. CASE CleanupKilled
  BY <1>24 DEF CleanupKilled
<1>25. CASE UNCHANGED vars
  BY <1>25 DEF vars
<1> QED
  BY <1>1, <1>2, <1>3, <1>4, <1>5, <1>6, <1>7, <1>8, <1>9, <1>10, <1>11,
     <1>12, <1>13, <1>14, <1>15, <1>16, <1>17, <1>18, <1>19, <1>20,
     <1>21, <1>22, <1>23, <1>24, <1>25 DEF Next, Web, SlotStep, Cleanup

LEMMA ActivityInvariant == Spec => []ActivityInv
<1>1. Init => ActivitiesOK
  <2> SUFFICES ASSUME Init, NEW r \in Runs PROVE ActivityOK(r)
    BY DEF ActivitiesOK
  <2>1. \A w \in Workers : job[w] # r
    BY NoRunAssumption DEF Init
  <2>2. r \notin stale_ids
    BY DEF Init
  <2> QED
    BY <2>1, <2>2 DEF ActivityOK, Held
<1>2. RowInv /\ ActivitiesOK /\ [Next]_vars => ActivitiesOK'
  BY NextActivitiesOK DEF ActivityInv
<1>3. RowInv /\ ActivitiesOK => ActivityInv
  BY DEF ActivityInv
<1> QED
  BY <1>1, <1>2, <1>3, RowInvariant, PTL DEF Spec

LEMMA NextResultsConsistent == ActivityInv /\ ResultsConsistent /\ [Next]_vars => ResultsConsistent'
<1> SUFFICES ASSUME ActivityInv /\ ResultsConsistent, [Next]_vars PROVE ResultsConsistent'
  OBVIOUS
<1> USE NoRunAssumption DEF ActivityInv, RowInv, RowsOK, ActivitiesOK, ActivityOK,
        ExecutionOK, ResultsConsistent, OneExecutionShown, Stale, Finished, Held,
        Exists, Unsettled, TypeInv, TypeOK, SlotsOK, FormOK, Executing,
        InTry, Finishing, Terminal, Goto, rowVars, resultVars, txnVars, slotVars,
        pruneVars, countVars, pastVars, dbVars, restVars, otherVars
<1>1. ASSUME NEW r \in Runs, CreateRun(r) PROVE ResultsConsistent'
  BY <1>1 DEF CreateRun, InsertRow, Publish
<1>2. ASSUME NEW r \in Runs, CreateRunUnpublished(r) PROVE ResultsConsistent'
  BY <1>2 DEF CreateRunUnpublished, InsertRow
<1>3. ASSUME NEW r \in Runs, Rerun(r) PROVE ResultsConsistent'
  BY <1>3 DEF Rerun, Publish
<1>4. ASSUME NEW r \in Runs, DestroyRun(r) PROVE ResultsConsistent'
  BY <1>4 DEF DestroyRun
<1>5. ASSUME NEW r \in Runs, OpenForm(r) PROVE ResultsConsistent'
  BY <1>5 DEF OpenForm
<1>6. CASE SaveForm
  BY <1>6 DEF SaveForm, Choices
<1>7. CASE DiscardForm
  BY <1>7 DEF DiscardForm
<1>8. ASSUME NEW w \in Workers, NEW r \in Runs, TakeDelivery(w, r) PROVE ResultsConsistent'
  BY <1>8 DEF TakeDelivery, Queued
<1>9. ASSUME NEW w \in Workers, LookupRun(w) PROVE ResultsConsistent'
  BY <1>9 DEF LookupRun, Step
<1>10. ASSUME NEW w \in Workers, MarkRunning(w) PROVE ResultsConsistent'
  BY <1>10 DEF MarkRunning, WriteRow, Alone
<1>11. ASSUME NEW w \in Workers, EngineReturns(w) PROVE ResultsConsistent'
  BY <1>11 DEF EngineReturns, Step
<1>12. ASSUME NEW w \in Workers, TryRaises(w) PROVE ResultsConsistent'
  BY <1>12 DEF TryRaises, EndTransaction
<1>13. ASSUME NEW w \in Workers, DeleteTrades(w) PROVE ResultsConsistent'
  BY <1>13 DEF DeleteTrades
<1>14. ASSUME NEW w \in Workers, DeleteEquity(w) PROVE ResultsConsistent'
  BY <1>14 DEF DeleteEquity
<1>15. ASSUME NEW w \in Workers, CommitResults(w) PROVE ResultsConsistent'
  BY <1>15 DEF CommitResults, RowsReplaced, UpdateOrCreate, EndTransaction
<1>16. ASSUME NEW w \in Workers, WriteOutcome(w) PROVE ResultsConsistent'
  BY <1>16 DEF WriteOutcome, WriteRow, FinalStatus
<1>17. ASSUME NEW w \in Workers, Acknowledge(w) PROVE ResultsConsistent'
  BY <1>17 DEF Acknowledge, Release, EndTransaction
<1>18. ASSUME NEW w \in Workers, AbandonDelivery(w) PROVE ResultsConsistent'
  BY <1>18 DEF AbandonDelivery, Release, EndTransaction
<1>19. ASSUME NEW w \in Workers, WorkerLost(w) PROVE ResultsConsistent'
  BY <1>19 DEF WorkerLost, Requeue, Release, EndTransaction
<1>20. ASSUME NEW r \in Runs, RunAges(r) PROVE ResultsConsistent'
  BY <1>20 DEF RunAges
<1>21. CASE SelectStaleRuns
  BY <1>21 DEF SelectStaleRuns, StaleRuns
<1>22. CASE PruneEquity
  BY <1>22 DEF PruneEquity
<1>23. CASE PruneTrades
  BY <1>23 DEF PruneTrades
<1>24. CASE CleanupKilled
  BY <1>24 DEF CleanupKilled
<1>25. CASE UNCHANGED vars
  BY <1>25 DEF vars
<1> QED
  BY <1>1, <1>2, <1>3, <1>4, <1>5, <1>6, <1>7, <1>8, <1>9, <1>10, <1>11,
     <1>12, <1>13, <1>14, <1>15, <1>16, <1>17, <1>18, <1>19, <1>20,
     <1>21, <1>22, <1>23, <1>24, <1>25 DEF Next, Web, SlotStep, Cleanup

(* A run that one activity at a time works on shows the trades, the curve   *)
(* and the metrics of a single execution, whatever is edited, and a fresh   *)
(* SUCCEEDED one that no edit has made so shows all of them.                *)
THEOREM ResultsOfOneExecution == Spec => []ResultsConsistent
<1>1. Init => ResultsConsistent
  BY DEF Init, ResultsConsistent, OneExecutionShown
<1> QED
  BY <1>1, NextResultsConsistent, ActivityInvariant, PTL DEF Spec

OutcomeStep ==
  \A r \in Runs \ (contended \cup overwritten)' :
    status[r] \in Terminal /\ status'[r] # status[r]
      => status'[r] \in {"running", "deleted"}

LEMMA NextOutcomeStep == ActivityInv /\ [Next]_vars => OutcomeStep
<1> SUFFICES ASSUME ActivityInv, [Next]_vars PROVE OutcomeStep
  OBVIOUS
<1> USE NoRunAssumption DEF ActivityInv, RowInv, RowsOK, ActivitiesOK, ActivityOK,
        ExecutionOK, OutcomeStep, Held, Exists, Unsettled, TypeInv, TypeOK, SlotsOK, FormOK, Executing,
        InTry, Finishing, Terminal, Goto, rowVars, resultVars, txnVars, slotVars,
        pruneVars, countVars, pastVars, dbVars, restVars, otherVars
<1>1. ASSUME NEW r \in Runs, CreateRun(r) PROVE OutcomeStep
  BY <1>1 DEF CreateRun, InsertRow, Publish
<1>2. ASSUME NEW r \in Runs, CreateRunUnpublished(r) PROVE OutcomeStep
  BY <1>2 DEF CreateRunUnpublished, InsertRow
<1>3. ASSUME NEW r \in Runs, Rerun(r) PROVE OutcomeStep
  BY <1>3 DEF Rerun, Publish
<1>4. ASSUME NEW r \in Runs, DestroyRun(r) PROVE OutcomeStep
  BY <1>4 DEF DestroyRun
<1>5. ASSUME NEW r \in Runs, OpenForm(r) PROVE OutcomeStep
  BY <1>5 DEF OpenForm
<1>6. CASE SaveForm
  BY <1>6 DEF SaveForm, Choices
<1>7. CASE DiscardForm
  BY <1>7 DEF DiscardForm
<1>8. ASSUME NEW w \in Workers, NEW r \in Runs, TakeDelivery(w, r) PROVE OutcomeStep
  BY <1>8 DEF TakeDelivery, Queued
<1>9. ASSUME NEW w \in Workers, LookupRun(w) PROVE OutcomeStep
  BY <1>9 DEF LookupRun, Step
<1>10. ASSUME NEW w \in Workers, MarkRunning(w) PROVE OutcomeStep
  BY <1>10 DEF MarkRunning, WriteRow, Alone
<1>11. ASSUME NEW w \in Workers, EngineReturns(w) PROVE OutcomeStep
  BY <1>11 DEF EngineReturns, Step
<1>12. ASSUME NEW w \in Workers, TryRaises(w) PROVE OutcomeStep
  BY <1>12 DEF TryRaises, EndTransaction
<1>13. ASSUME NEW w \in Workers, DeleteTrades(w) PROVE OutcomeStep
  BY <1>13 DEF DeleteTrades
<1>14. ASSUME NEW w \in Workers, DeleteEquity(w) PROVE OutcomeStep
  BY <1>14 DEF DeleteEquity
<1>15. ASSUME NEW w \in Workers, CommitResults(w) PROVE OutcomeStep
  BY <1>15 DEF CommitResults, RowsReplaced, UpdateOrCreate, EndTransaction
<1>16. ASSUME NEW w \in Workers, WriteOutcome(w) PROVE OutcomeStep
  BY <1>16 DEF WriteOutcome, WriteRow, FinalStatus
<1>17. ASSUME NEW w \in Workers, Acknowledge(w) PROVE OutcomeStep
  BY <1>17 DEF Acknowledge, Release, EndTransaction
<1>18. ASSUME NEW w \in Workers, AbandonDelivery(w) PROVE OutcomeStep
  BY <1>18 DEF AbandonDelivery, Release, EndTransaction
<1>19. ASSUME NEW w \in Workers, WorkerLost(w) PROVE OutcomeStep
  BY <1>19 DEF WorkerLost, Requeue, Release, EndTransaction
<1>20. ASSUME NEW r \in Runs, RunAges(r) PROVE OutcomeStep
  BY <1>20 DEF RunAges
<1>21. CASE SelectStaleRuns
  BY <1>21 DEF SelectStaleRuns, StaleRuns
<1>22. CASE PruneEquity
  BY <1>22 DEF PruneEquity
<1>23. CASE PruneTrades
  BY <1>23 DEF PruneTrades
<1>24. CASE CleanupKilled
  BY <1>24 DEF CleanupKilled
<1>25. CASE UNCHANGED vars
  BY <1>25 DEF vars
<1> QED
  BY <1>1, <1>2, <1>3, <1>4, <1>5, <1>6, <1>7, <1>8, <1>9, <1>10, <1>11,
     <1>12, <1>13, <1>14, <1>15, <1>16, <1>17, <1>18, <1>19, <1>20,
     <1>21, <1>22, <1>23, <1>24, <1>25 DEF Next, Web, SlotStep, Cleanup

(* No worker's outcome replaces another one unless the run read RUNNING in  *)
(* between.                                                                 *)
THEOREM OutcomesStand == Spec => OutcomeStands
<1>1. ActivityInv /\ [Next]_vars => [OutcomeStep]_vars
  BY NextOutcomeStep
<1>2. Spec => [][OutcomeStep]_vars
  BY <1>1, ActivityInvariant, PTL DEF Spec
<1> QED
  BY <1>2 DEF OutcomeStands, OutcomeStep

PruneStep ==
  \A r \in Runs \ (contended \cup overwritten) :
    equity[r] # {} /\ equity'[r] = {} => Stale(r) \/ status'[r] = "deleted"

LEMMA NextPruneStep == ActivityInv /\ [Next]_vars => PruneStep
<1> SUFFICES ASSUME ActivityInv, [Next]_vars PROVE PruneStep
  OBVIOUS
<1> USE NoRunAssumption DEF ActivityInv, RowInv, RowsOK, ActivitiesOK, ActivityOK,
        ExecutionOK, PruneStep, Held, Exists, Unsettled, TypeInv, TypeOK, SlotsOK, FormOK, Executing,
        InTry, Finishing, Terminal, Goto, rowVars, resultVars, txnVars, slotVars,
        pruneVars, countVars, pastVars, dbVars, restVars, otherVars
<1>1. ASSUME NEW r \in Runs, CreateRun(r) PROVE PruneStep
  BY <1>1 DEF CreateRun, InsertRow, Publish
<1>2. ASSUME NEW r \in Runs, CreateRunUnpublished(r) PROVE PruneStep
  BY <1>2 DEF CreateRunUnpublished, InsertRow
<1>3. ASSUME NEW r \in Runs, Rerun(r) PROVE PruneStep
  BY <1>3 DEF Rerun, Publish
<1>4. ASSUME NEW r \in Runs, DestroyRun(r) PROVE PruneStep
  BY <1>4 DEF DestroyRun
<1>5. ASSUME NEW r \in Runs, OpenForm(r) PROVE PruneStep
  BY <1>5 DEF OpenForm
<1>6. CASE SaveForm
  BY <1>6 DEF SaveForm, Choices
<1>7. CASE DiscardForm
  BY <1>7 DEF DiscardForm
<1>8. ASSUME NEW w \in Workers, NEW r \in Runs, TakeDelivery(w, r) PROVE PruneStep
  BY <1>8 DEF TakeDelivery, Queued
<1>9. ASSUME NEW w \in Workers, LookupRun(w) PROVE PruneStep
  BY <1>9 DEF LookupRun, Step
<1>10. ASSUME NEW w \in Workers, MarkRunning(w) PROVE PruneStep
  BY <1>10 DEF MarkRunning, WriteRow, Alone
<1>11. ASSUME NEW w \in Workers, EngineReturns(w) PROVE PruneStep
  BY <1>11 DEF EngineReturns, Step
<1>12. ASSUME NEW w \in Workers, TryRaises(w) PROVE PruneStep
  BY <1>12 DEF TryRaises, EndTransaction
<1>13. ASSUME NEW w \in Workers, DeleteTrades(w) PROVE PruneStep
  BY <1>13 DEF DeleteTrades
<1>14. ASSUME NEW w \in Workers, DeleteEquity(w) PROVE PruneStep
  BY <1>14 DEF DeleteEquity
<1>15. ASSUME NEW w \in Workers, CommitResults(w) PROVE PruneStep
  <2>1. exec[w] \in equity'[job[w]] /\ status' = status
    BY <1>15 DEF CommitResults, RowsReplaced
  <2>2. \A r \in Runs \ {job[w]} : equity'[r] = equity[r]
    BY <1>15 DEF CommitResults, RowsReplaced
  <2> QED
    BY <2>1, <2>2
<1>16. ASSUME NEW w \in Workers, WriteOutcome(w) PROVE PruneStep
  BY <1>16 DEF WriteOutcome, WriteRow, FinalStatus
<1>17. ASSUME NEW w \in Workers, Acknowledge(w) PROVE PruneStep
  BY <1>17 DEF Acknowledge, Release, EndTransaction
<1>18. ASSUME NEW w \in Workers, AbandonDelivery(w) PROVE PruneStep
  BY <1>18 DEF AbandonDelivery, Release, EndTransaction
<1>19. ASSUME NEW w \in Workers, WorkerLost(w) PROVE PruneStep
  BY <1>19 DEF WorkerLost, Requeue, Release, EndTransaction
<1>20. ASSUME NEW r \in Runs, RunAges(r) PROVE PruneStep
  BY <1>20 DEF RunAges
<1>21. CASE SelectStaleRuns
  BY <1>21 DEF SelectStaleRuns, StaleRuns
<1>22. CASE PruneEquity
  BY <1>22 DEF PruneEquity
<1>23. CASE PruneTrades
  BY <1>23 DEF PruneTrades
<1>24. CASE CleanupKilled
  BY <1>24 DEF CleanupKilled
<1>25. CASE UNCHANGED vars
  BY <1>25 DEF vars
<1> QED
  BY <1>1, <1>2, <1>3, <1>4, <1>5, <1>6, <1>7, <1>8, <1>9, <1>10, <1>11,
     <1>12, <1>13, <1>14, <1>15, <1>16, <1>17, <1>18, <1>19, <1>20,
     <1>21, <1>22, <1>23, <1>24, <1>25 DEF Next, Web, SlotStep, Cleanup

(* The cleanup takes the curve of old SUCCEEDED runs only, when no worker   *)
(* has the run at the same time.                                            *)
THEOREM PrunesOnlyOldRuns == Spec => PruneOnlyOld
<1>1. ActivityInv /\ [Next]_vars => [PruneStep]_vars
  BY NextPruneStep
<1>2. Spec => [][PruneStep]_vars
  BY <1>1, ActivityInvariant, PTL DEF Spec
<1> QED
  BY <1>2 DEF PruneOnlyOld, PruneStep
=============================================================================
