--------------------------- MODULE BacktestRuns ---------------------------
(***************************************************************************)
(* The life of BacktestRun rows: the web process creates, re-queues, edits *)
(* and deletes them, the slots of the worker-untrusted container execute   *)
(* runs.run_backtest for them, and the weekly runs.cleanup_stale_runs      *)
(* prunes what they produced.  One action is one database statement (or    *)
(* one transaction that commits at once) of the code, so that statements   *)
(* of different processes interleave as they do in PostgreSQL under READ   *)
(* COMMITTED.                                                              *)
(*                                                                         *)
(* Celery is external.  It is modelled as settings.py configures it: a     *)
(* delivery is acknowledged late, a delivery whose worker process dies is  *)
(* requeued, and a task that raises or overruns its hard time limit is     *)
(* acknowledged as failed.                                                 *)
(***************************************************************************)
EXTENDS Naturals

CONSTANTS
  Runs,         \* primary keys of the table runs_backtestrun
  Workers,      \* prefork slots that consume the "untrusted" queue
  NoRun,        \* what a slot or a form holds when it holds no run
  MaxPublished, \* bound: run_backtest.delay() calls in one behaviour
  MaxKills,     \* bound: worker processes that die in one behaviour
  MaxEdits      \* bound: whole-row edits of a run in one behaviour

ASSUME NoRunAssumption  == NoRun \notin Runs
ASSUME BoundsAssumption == /\ MaxPublished \in Nat
                           /\ MaxKills \in Nat
                           /\ MaxEdits \in Nat

VARIABLES
  status,       \* BacktestRun.status, "none" before INSERT, "deleted" after DELETE
  finished_at,  \* BacktestRun.finished_at, as the cleanup's cutoff sees it
  trades,       \* executions whose Trade rows are in the table, per run
  equity,       \* executions whose EquityPoint rows are in the table, per run
  metrics,      \* execution whose RunMetrics row is in the table, 0 for none
  queue,        \* ready run_backtest messages, per run
  pc,           \* what each slot is about to do
  job,          \* run_id of the delivery a slot holds
  exec,         \* number of the execution a slot is in
  seen_trades,  \* rows the DELETE of Trade saw, per open transaction
  seen_equity,  \* rows the DELETE of EquityPoint saw, per open transaction
  cleanup,      \* what cleanup_stale_runs is about to do
  stale_ids,    \* stale_run_ids, read by it before it deletes
  form,         \* a row read by an edit that has not been saved yet
  published,    \* messages published so far
  kills,        \* worker processes that died so far
  edits,        \* edits begun so far
  executions,   \* deliveries started so far; numbers the executions
  dropped,      \* history: runs with a delivery never published or abandoned
  contended,    \* history: runs two activities have worked on at once
  overwritten   \* history: runs whose row an edit has changed, since when no
                \* worker has started the run anew

rowVars    == <<status, finished_at>>
resultVars == <<trades, equity, metrics>>
dbVars     == <<rowVars, resultVars>>
txnVars    == <<seen_trades, seen_equity>>
slotVars   == <<pc, job, exec, txnVars>>
pruneVars  == <<cleanup, stale_ids>>
countVars  == <<published, kills, edits, executions>>
pastVars   == <<dropped, contended, overwritten>>
\* What no statement of a running task touches, besides its own slot.
otherVars  == <<queue, job, exec, pruneVars, form, countVars, dropped, contended>>
restVars   == <<otherVars, overwritten>>
vars == <<status, finished_at, trades, equity, metrics, queue, pc, job, exec,
          seen_trades, seen_equity, cleanup, stale_ids, form, published, kills,
          edits, executions, dropped, contended, overwritten>>

Terminal  == {"succeeded", "failed"}
Unsettled == {"pending", "running"}
Choices   == {"cancelled"} \cup Unsettled \cup Terminal
RowStatus == {"none", "deleted"} \cup Choices
Ages      == {"null", "recent", "old"}
InTry     == {"engine", "delete_trades", "delete_equity", "commit"}
Finishing == {"finish_succeeded", "finish_failed"}
Executing == {"lookup", "mark_running"} \cup InTry \cup Finishing
SlotState == {"idle", "returned"} \cup Executing
NoForm    == [run |-> NoRun, status |-> "none", finished_at |-> "null"]

Exists(r)       == status[r] \notin {"none", "deleted"}
Held(r)         == \E w \in Workers : job[w] = r
Goto(w, label)  == pc' = [pc EXCEPT ![w] = label]

Init ==
  /\ status = [r \in Runs |-> "none"]
  /\ finished_at = [r \in Runs |-> "null"]
  /\ trades = [r \in Runs |-> {}]
  /\ equity = [r \in Runs |-> {}]
  /\ metrics = [r \in Runs |-> 0]
  /\ queue = [r \in Runs |-> 0]
  /\ pc = [w \in Workers |-> "idle"]
  /\ job = [w \in Workers |-> NoRun]
  /\ exec = [w \in Workers |-> 0]
  /\ seen_trades = [w \in Workers |-> {}]
  /\ seen_equity = [w \in Workers |-> {}]
  /\ cleanup = "idle"
  /\ stale_ids = {}
  /\ form = NoForm
  /\ published = 0
  /\ kills = 0
  /\ edits = 0
  /\ executions = 0
  /\ dropped = {}
  /\ contended = {}
  /\ overwritten = {}

-----------------------------------------------------------------------------
(* The web process: the REST viewset, the console and the admin.            *)

Publish(r) ==
  /\ published < MaxPublished
  /\ published' = published + 1
  /\ queue' = [queue EXCEPT ![r] = @ + 1]

InsertRow(r) ==
  /\ status[r] = "none"
  /\ status' = [status EXCEPT ![r] = "pending"]
  /\ UNCHANGED finished_at

\* POST /api/runs/: the row is committed, then the message is published.
CreateRun(r) ==
  /\ InsertRow(r)
  /\ Publish(r)
  /\ UNCHANGED <<resultVars, slotVars, pruneVars, form, kills, edits,
                 executions, pastVars>>

\* The broker refuses the message or the web process dies after the INSERT.
CreateRunUnpublished(r) ==
  /\ InsertRow(r)
  /\ dropped' = dropped \cup {r}
  /\ UNCHANGED <<resultVars, queue, slotVars, pruneVars, form, countVars,
                 contended, overwritten>>

\* Re-queueing publishes a message and looks at nothing but the row's existence.
Rerun(r) ==
  /\ Exists(r)
  /\ Publish(r)
  /\ UNCHANGED <<dbVars, slotVars, pruneVars, form, kills, edits,
                 executions, pastVars>>

\* DELETE /api/runs/<id>/ and the admin: Trade, EquityPoint and RunMetrics cascade.
DestroyRun(r) ==
  /\ Exists(r)
  /\ status' = [status EXCEPT ![r] = "deleted"]
  /\ finished_at' = [finished_at EXCEPT ![r] = "null"]
  /\ trades' = [trades EXCEPT ![r] = {}]
  /\ equity' = [equity EXCEPT ![r] = {}]
  /\ metrics' = [metrics EXCEPT ![r] = 0]
  /\ UNCHANGED <<queue, slotVars, pruneVars, form, countVars, pastVars>>

\* PUT /api/runs/<id>/ and the admin form read the whole row ...
OpenForm(r) ==
  /\ form = NoForm
  /\ Exists(r)
  /\ edits < MaxEdits
  /\ edits' = edits + 1
  /\ form' = [run |-> r, status |-> status[r], finished_at |-> finished_at[r]]
  /\ UNCHANGED <<dbVars, queue, slotVars, pruneVars, published, kills,
                 executions, pastVars>>

\* ... and later save all of it (an INSERT, if it was deleted meanwhile): PUT the
\* row as it was read, the admin with any status, and finished_at as it is by then.
SaveForm ==
  LET r == form.run IN
  /\ form # NoForm
  /\ \E s \in Choices, f \in {form.finished_at, finished_at[r]} :
       /\ status' = [status EXCEPT ![r] = s]
       /\ finished_at' = [finished_at EXCEPT ![r] = f]
       /\ overwritten' = IF <<s, f>> = <<status[r], finished_at[r]>>
                         THEN overwritten ELSE overwritten \cup {r}
  /\ form' = NoForm
  /\ UNCHANGED <<resultVars, queue, slotVars, pruneVars, countVars,
                 dropped, contended>>

\* The form is closed, or the request fails, before it saves.
DiscardForm ==
  /\ form # NoForm
  /\ form' = NoForm
  /\ UNCHANGED <<dbVars, queue, slotVars, pruneVars, countVars, pastVars>>

-----------------------------------------------------------------------------
(* runs.run_backtest in a slot w of worker-untrusted.                       *)

QueuedOrNot(r) == Exists(r)  \* mutant: starts without a message
Queued(r)      == queue[r] > 0

TakeDelivery(w, r) ==
  /\ pc[w] = "idle"
  /\ Queued(r)
  /\ queue' = [queue EXCEPT ![r] = @ - 1]
  /\ executions' = executions + 1
  /\ job' = [job EXCEPT ![w] = r]
  /\ exec' = [exec EXCEPT ![w] = executions']
  /\ contended' = IF Held(r) \/ r \in stale_ids THEN contended \cup {r}
                                                ELSE contended
  /\ Goto(w, "lookup")
  /\ UNCHANGED <<dbVars, txnVars, pruneVars, form, published, kills, edits,
                 dropped, overwritten>>

\* A statement that changes nothing in the database: the slot only moves on.
Step(w, from, to) ==
  /\ pc[w] = from
  /\ Goto(w, to)
  /\ UNCHANGED <<dbVars, restVars, txnVars>>

\* BacktestRun.objects.get(id=run_id), or DoesNotExist and an early return.
LookupRun(w) ==
  Step(w, "lookup", IF Exists(job[w]) THEN "mark_running" ELSE "returned")

\* Mutant: only a PENDING row is marked RUNNING.
WriteRowOnce(r, s, f) ==
  IF status[r] = "pending" \/ (Exists(r) /\ s # "running")
  THEN /\ status' = [status EXCEPT ![r] = s]
       /\ finished_at' = [finished_at EXCEPT ![r] = f]
  ELSE UNCHANGED rowVars

\* An UPDATE by id: it writes nothing when the row is gone.
WriteRow(r, s, f) ==
  IF Exists(r)
  THEN /\ status' = [status EXCEPT ![r] = s]
       /\ finished_at' = [finished_at EXCEPT ![r] = f]
  ELSE UNCHANGED rowVars

Alone(w) == \A v \in Workers \ {w} : job[v] # job[w]

\* The run starts anew, whatever an edit has made of its row.
MarkRunning(w) ==
  /\ pc[w] = "mark_running"
  /\ WriteRow(job[w], "running", "null")
  /\ overwritten' = IF Alone(w) THEN overwritten \ {job[w]} ELSE overwritten
  /\ Goto(w, "engine")
  /\ UNCHANGED <<resultVars, otherVars, txnVars>>

EngineReturns(w) == Step(w, "engine", "delete_trades")

EndTransaction(w) ==
  /\ seen_trades' = [seen_trades EXCEPT ![w] = {}]
  /\ seen_equity' = [seen_equity EXCEPT ![w] = {}]

\* Any exception of the try block, the soft time limit included; an open
\* save_run_results transaction rolls back.
TryRaises(w) ==
  /\ pc[w] \in InTry
  /\ Goto(w, "finish_failed")
  /\ EndTransaction(w)
  /\ UNCHANGED <<dbVars, restVars>>

\* save_run_results: each DELETE sees the rows committed when it starts.
DeleteTrades(w) ==
  /\ pc[w] = "delete_trades"
  /\ seen_trades' = [seen_trades EXCEPT ![w] = trades[job[w]]]
  /\ Goto(w, "delete_equity")
  /\ UNCHANGED <<dbVars, restVars, seen_equity>>

\* The first DELETE waits while another open transaction has deleted its rows.
TradesLocked(w) ==
  \E v \in Workers \ {w} :
    /\ pc[v] = "commit"
    /\ job[v] = job[w]
    /\ seen_trades[v] \cap seen_trades[w] \cap trades[job[w]] # {}

DeleteEquity(w) ==
  /\ pc[w] = "delete_equity"
  /\ ~ TradesLocked(w)
  /\ seen_equity' = [seen_equity EXCEPT ![w] = equity[job[w]]]
  /\ Goto(w, "commit")
  /\ UNCHANGED <<dbVars, restVars, seen_trades>>

RowsAdded(rows, seen, new)     == rows \cup new  \* mutant: no DELETE before
RowsReplaced(rows, seen, new)  == (rows \ seen) \cup new
GetOrCreate(old, new)          == IF old = 0 THEN new ELSE old  \* mutant
UpdateOrCreate(old, new)       == new

\* bulk_create of the new rows (a strategy may make no trade), update_or_create
\* of the metrics, COMMIT.
CommitResults(w) ==
  LET r == job[w] IN
  /\ pc[w] = "commit"
  /\ Exists(r)
  /\ \E traded \in {{}, {exec[w]}} :
       trades' = [trades EXCEPT ![r] = RowsReplaced(@, seen_trades[w], traded)]
  /\ equity' = [equity EXCEPT ![r] = RowsReplaced(@, seen_equity[w], {exec[w]})]
  /\ metrics' = [metrics EXCEPT ![r] = UpdateOrCreate(@, exec[w])]
  /\ Goto(w, "finish_succeeded")
  /\ EndTransaction(w)
  /\ UNCHANGED <<rowVars, restVars>>

\* Mutant: the except branch does not set final_status.
StatusUnlessFailed(w) ==
  IF pc[w] = "finish_succeeded" THEN "succeeded" ELSE status[job[w]]
FinalStatus(w) == IF pc[w] = "finish_succeeded" THEN "succeeded" ELSE "failed"

\* The closing UPDATE with status, finished_at, duration_ms and error.
WriteOutcome(w) ==
  /\ pc[w] \in Finishing
  /\ WriteRow(job[w], FinalStatus(w), "recent")
  /\ Goto(w, "returned")
  /\ UNCHANGED <<resultVars, restVars, txnVars>>

\* The slot is free again; max-tasks-per-child replaces its process.
Release(w) ==
  /\ Goto(w, "idle")
  /\ job' = [job EXCEPT ![w] = NoRun]
  /\ exec' = [exec EXCEPT ![w] = 0]
  /\ EndTransaction(w)

\* acks_late: the broker forgets the message only now.
Acknowledge(w) ==
  /\ pc[w] = "returned"
  /\ Release(w)
  /\ UNCHANGED <<dbVars, queue, pruneVars, form, countVars, pastVars>>

\* The hard time limit kills the process, or an exception escapes outside the
\* try block: the message is acknowledged and the row stays as it is.
AbandonDelivery(w) ==
  /\ pc[w] \in Executing
  /\ dropped' = dropped \cup {job[w]}
  /\ Release(w)
  /\ UNCHANGED <<dbVars, queue, pruneVars, form, countVars, contended,
                 overwritten>>

Forget(r)  == UNCHANGED queue  \* mutant: without reject_on_worker_lost
Requeue(r) == queue' = [queue EXCEPT ![r] = @ + 1]

\* reject_on_worker_lost: the process dies and the message is queued again.
WorkerLost(w) ==
  /\ pc[w] # "idle"
  /\ kills < MaxKills
  /\ kills' = kills + 1
  /\ Requeue(job[w])
  /\ Release(w)
  /\ UNCHANGED <<dbVars, pruneVars, form, published, edits, executions,
                 pastVars>>

-----------------------------------------------------------------------------
(* runs.cleanup_stale_runs in the default worker: three statements, no      *)
(* transaction around them.                                                 *)

\* More than older_than_days pass; no delivery or form lives that long.
RunAges(r) ==
  /\ finished_at[r] = "recent"
  /\ ~ Held(r)
  /\ form.run # r
  /\ finished_at' = [finished_at EXCEPT ![r] = "old"]
  /\ UNCHANGED <<status, resultVars, queue, slotVars, pruneVars, form,
                 countVars, pastVars>>

Stale(r) == status[r] = "succeeded" /\ finished_at[r] = "old"

OldRuns             == {r \in Runs : finished_at[r] = "old"}  \* mutant
StaleRunsWithCurve  == {r \in Runs : Stale(r) /\ equity[r] # {}}  \* mutant
StaleRuns           == {r \in Runs : Stale(r)}

SelectStaleRuns ==
  /\ cleanup = "idle"
  /\ stale_ids' = StaleRuns
  /\ stale_ids' # {}
  /\ cleanup' = "equity"
  /\ contended' = contended \cup {r \in stale_ids' : Held(r)}
  /\ UNCHANGED <<dbVars, queue, slotVars, form, countVars, dropped,
                 overwritten>>

PruneEquity ==
  /\ cleanup = "equity"
  /\ equity' = [r \in Runs |-> IF r \in stale_ids THEN {} ELSE equity[r]]
  /\ cleanup' = "trades"
  /\ UNCHANGED <<rowVars, trades, metrics, queue, slotVars, stale_ids, form,
                 countVars, pastVars>>

PruneTrades ==
  /\ cleanup = "trades"
  /\ trades' = [r \in Runs |-> IF r \in stale_ids THEN {} ELSE trades[r]]
  /\ cleanup' = "idle"
  /\ stale_ids' = {}
  /\ UNCHANGED <<rowVars, equity, metrics, queue, slotVars, form, countVars,
                 pastVars>>

\* The 60 s limit or a lost worker ends it between two statements.
CleanupKilled ==
  /\ cleanup # "idle"
  /\ kills < MaxKills
  /\ kills' = kills + 1
  /\ cleanup' = "idle"
  /\ stale_ids' = {}
  /\ UNCHANGED <<dbVars, queue, slotVars, form, published, edits,
                 executions, pastVars>>

-----------------------------------------------------------------------------
Web(r) ==
  \/ CreateRun(r) \/ CreateRunUnpublished(r) \/ Rerun(r) \/ DestroyRun(r)
  \/ OpenForm(r)

SlotStep(w) ==
  \/ LookupRun(w) \/ MarkRunning(w) \/ EngineReturns(w) \/ TryRaises(w)
  \/ DeleteTrades(w) \/ DeleteEquity(w) \/ CommitResults(w)
  \/ WriteOutcome(w) \/ Acknowledge(w)

Cleanup == SelectStaleRuns \/ PruneEquity \/ PruneTrades

Next ==
  \/ \E r \in Runs : Web(r) \/ RunAges(r)
  \/ SaveForm \/ DiscardForm
  \/ \E w \in Workers, r \in Runs : TakeDelivery(w, r)
  \/ \E w \in Workers : SlotStep(w) \/ AbandonDelivery(w) \/ WorkerLost(w)
  \/ Cleanup \/ CleanupKilled

Spec == Init /\ [][Next]_vars

\* A started task proceeds until it returns or its soft time limit raises, a
\* free slot fetches what is queued, and beat starts the cleanup every week.
FairSpec ==
  /\ Spec
  /\ \A w \in Workers : WF_vars(SlotStep(w))
  /\ \A r \in Runs : WF_vars(\E w \in Workers : TakeDelivery(w, r))
  /\ WF_vars(Cleanup)

-----------------------------------------------------------------------------
(* What the rows and the queue promise together.                            *)

\* Every variable keeps its type: the rows, the broker's messages, the slots of
\* the untrusted worker and the cleanup.
TypeOK ==
  /\ status \in [Runs -> RowStatus]
  /\ finished_at \in [Runs -> Ages]
  /\ trades \in [Runs -> SUBSET Nat]
  /\ equity \in [Runs -> SUBSET Nat]
  /\ metrics \in [Runs -> Nat]
  /\ queue \in [Runs -> Nat]
  /\ pc \in [Workers -> SlotState]
  /\ job \in [Workers -> Runs \cup {NoRun}]
  /\ exec \in [Workers -> Nat]
  /\ seen_trades \in [Workers -> SUBSET Nat]
  /\ seen_equity \in [Workers -> SUBSET Nat]
  /\ cleanup \in {"idle", "equity", "trades"}
  /\ stale_ids \in SUBSET Runs
  /\ form \in [run : Runs \cup {NoRun}, status : RowStatus, finished_at : Ages]
  /\ <<published, kills, edits, executions>> \in Nat \X Nat \X Nat \X Nat
  /\ dropped \in SUBSET Runs
  /\ contended \in SUBSET Runs
  /\ overwritten \in SUBSET Runs

\* A message for r is in the queue, or a slot has one and will still write the
\* outcome of r.
Attended(r) ==
  \/ queue[r] > 0
  \/ \E w \in Workers : job[w] = r /\ pc[w] \in Executing

\* No run waits for nothing.  A row that says PENDING or RUNNING has a message
\* or a worker behind it, whatever is re-queued, redelivered after a crash or
\* executed twice at once; only a publish that failed, a hard time limit and an
\* edit that changed the row (an outdated form, a status the admin chose) break
\* the link, and a worker that starts the run anew makes up for an edit.
NoSilentLoss ==
  \A r \in Runs :
    status[r] \in Unsettled => Attended(r) \/ r \in dropped \cup overwritten

\* What the run page shows of r comes from one execution: the trades and the
\* equity curve are those the metrics were computed from.
OneExecutionShown(r) ==
  /\ metrics[r] = 0 => trades[r] = {} /\ equity[r] = {}
  /\ trades[r] \subseteq {metrics[r]}
  /\ equity[r] \subseteq {metrics[r]}

\* A fresh SUCCEEDED run has its metrics and the curve they belong to, and no
\* run mixes two executions, through re-runs, failures between the deletes and
\* the commit, crashes after the commit, redeliveries and pruning, as long as
\* no two activities work on the run at once.  An edit can make a run read
\* SUCCEEDED that is not, until it is executed again; it mixes nothing.
ResultsConsistent ==
  \A r \in Runs \ contended :
    /\ OneExecutionShown(r)
    /\ status[r] = "succeeded" /\ finished_at[r] = "recent" /\ r \notin overwritten
         => metrics[r] # 0 /\ equity[r] = {metrics[r]}

\* Even when executions of a run overlap and the cleanup runs in between, the
\* metrics of a run that a worker has made SUCCEEDED exist, and its curve, unless
\* pruned, contains the points of the execution the metrics come from.
MetricsBelong ==
  \A r \in Runs :
    /\ status[r] = "succeeded" /\ r \notin overwritten => metrics[r] # 0
    /\ equity[r] = {} \/ metrics[r] \in equity[r]

\* An outcome is only moved on by a worker that has started the run again, by its
\* deletion, or in the admin.  No worker makes FAILED of SUCCEEDED, or the other
\* way round, without the run having read RUNNING, unless a second one or an edit
\* has come between its start and its end.
OutcomeStands ==
  [][\A r \in Runs \ (contended \cup overwritten)' :
       status[r] \in Terminal /\ status'[r] # status[r]
         => status'[r] \in {"running", "deleted"}]_vars

\* cleanup_stale_runs only takes the curve of a run that reads SUCCEEDED and is
\* past the cutoff at that very moment, unless a worker has the run as well, or an
\* edit has changed its row.
PruneOnlyOld ==
  [][\A r \in Runs \ (contended \cup overwritten) :
       equity[r] # {} /\ equity'[r] = {}
         => Stale(r) \/ status'[r] = "deleted"]_vars

\* "Drop equity points and trades for old SUCCEEDED runs" (tasks.py:202): a fresh
\* SUCCEEDED run still has its curve, even when a worker and the cleanup meet.
FreshRunsKeepCurve ==
  \A r \in Runs \ overwritten :
    status[r] = "succeeded" /\ finished_at[r] = "recent" => equity[r] # {}

\* Every PENDING or RUNNING run reaches an outcome, or one of the three faults
\* that NoSilentLoss names has happened to it.
RunsSettle ==
  \A r \in Runs :
    status[r] \in Unsettled
      ~> status[r] \notin Unsettled \/ r \in dropped \cup overwritten

\* A prune that died between its two deletes is made good: a run past the cutoff
\* loses all its artefacts unless it is started again, edited or deleted.
PruneCompletes ==
  \A r \in Runs :
    Stale(r) ~> (trades[r] = {} /\ equity[r] = {}) \/ ~ Stale(r)

-----------------------------------------------------------------------------
(* The task implements what its callers rely on.                            *)

PhaseOf(label) ==
  IF label = "idle" THEN "idle"
  ELSE IF label \in {"lookup", "mark_running"} THEN "taken"
  ELSE IF label = "returned" THEN "finished"
  ELSE "execute"

Contract == INSTANCE RunContract WITH
  phase  <- [w \in Workers |-> PhaseOf(pc[w])],
  edited <- [run |-> form.run, status |-> form.status]

\* Whatever the statements of several tasks, of the web process and of the cleanup
\* interleave to, they amount to the steps of the contract: an outcome is written
\* by a slot that executes the run, and nothing but a slot, a form or a deletion
\* touches the status of a submitted run.
ImplementsContract == Contract!Spec

=============================================================================
