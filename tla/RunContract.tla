---------------------------- MODULE RunContract ----------------------------
(***************************************************************************)
(* What the rest of the system may rely on of runs.run_backtest, without   *)
(* its statements: a message is taken by a slot, the row of its run reads  *)
(* RUNNING while the slot executes it, and reads SUCCEEDED or FAILED when  *)
(* the slot has finished.  BacktestRuns implements it with every statement *)
(* of the task, the results and the cleanup; Sweeps uses it for the        *)
(* children of a sweep.                                                    *)
(***************************************************************************)
EXTENDS Naturals

CONSTANTS Runs, Workers, NoRun

VARIABLES
  status,  \* BacktestRun.status
  queue,   \* ready run_backtest messages, per run
  phase,   \* what a slot does with its message
  job,     \* the run of the message a slot holds
  edited   \* the run and the status an open form would save, NoRun for none

vars == <<status, queue, phase, job, edited>>

Choices   == {"pending", "running", "succeeded", "failed", "cancelled"}
RowStatus == {"none", "deleted"} \cup Choices
Exists(r)         == status[r] \notin {"none", "deleted"}
SetStatus(r, s)   == status' = IF Exists(r) THEN [status EXCEPT ![r] = s] ELSE status
Hold(w, p, r)     == phase' = [phase EXCEPT ![w] = p] /\ job' = [job EXCEPT ![w] = r]

Init ==
  /\ status = [r \in Runs |-> "none"]
  /\ queue = [r \in Runs |-> 0]
  /\ phase = [w \in Workers |-> "idle"]
  /\ job = [w \in Workers |-> NoRun]
  /\ edited = [run |-> NoRun, status |-> "none"]

\* New rows read PENDING; a message may come with them, or later, or never.
Submit ==
  /\ UNCHANGED <<phase, job, edited>>
  /\ status' = [r \in Runs |-> IF status[r] = "none" /\ status'[r] # "none"
                              THEN "pending" ELSE status[r]]
  /\ queue' = [r \in Runs |-> IF queue'[r] = queue[r] THEN queue[r] ELSE queue[r] + 1]

Destroy(r) ==
  /\ Exists(r)
  /\ status' = [status EXCEPT ![r] = "deleted"]
  /\ UNCHANGED <<queue, phase, job, edited>>

OpenForm(r) ==
  /\ Exists(r)
  /\ edited' = [run |-> r, status |-> status[r]]
  /\ UNCHANGED <<status, queue, phase, job>>

\* A form saves the status it has read, or whichever the admin chose, or is closed.
CloseForm ==
  /\ edited.run # NoRun
  /\ \/ \E s \in Choices : status' = [status EXCEPT ![edited.run] = s]
     \/ UNCHANGED status
  /\ edited' = [run |-> NoRun, status |-> "none"]
  /\ UNCHANGED <<queue, phase, job>>

Consume(r) == queue[r] > 0 /\ queue' = [queue EXCEPT ![r] = @ - 1]

Take(w, r) ==
  /\ phase[w] = "idle"
  /\ Consume(r)
  /\ Hold(w, "taken", r)
  /\ UNCHANGED <<status, edited>>

\* The row is marked RUNNING; without a row there may be nothing to execute.
Start(w, r) ==
  /\ \/ phase[w] = "taken" /\ job[w] = r /\ UNCHANGED queue
     \/ phase[w] = "idle" /\ Consume(r)
  /\ SetStatus(r, "running")
  /\ \/ Hold(w, "execute", r)
     \/ ~ Exists(r) /\ Hold(w, "finished", r)
  /\ UNCHANGED edited

Finish(w) ==
  /\ phase[w] = "execute"
  /\ \E outcome \in {"succeeded", "failed"} : SetStatus(job[w], outcome)
  /\ Hold(w, "finished", job[w])
  /\ UNCHANGED <<queue, edited>>

\* The message is acknowledged, after the outcome or, when the execution is cut
\* off by its hard time limit, without one.
Leave(w) ==
  /\ phase[w] # "idle"
  /\ \/ Hold(w, "idle", NoRun)
     \/ phase[w] = "execute" /\ Hold(w, "finished", job[w])
  /\ UNCHANGED <<status, queue, edited>>

\* The slot's process dies and the message is ready again.
Redeliver(w) ==
  /\ phase[w] # "idle"
  /\ queue' = [queue EXCEPT ![job[w]] = @ + 1]
  /\ Hold(w, "idle", NoRun)
  /\ UNCHANGED <<status, edited>>

Next ==
  \/ Submit \/ CloseForm
  \/ \E r \in Runs : Destroy(r) \/ OpenForm(r)
  \/ \E w \in Workers, r \in Runs : Take(w, r) \/ Start(w, r)
  \/ \E w \in Workers : Finish(w) \/ Leave(w) \/ Redeliver(w)

Spec == Init /\ [][Next]_vars
=============================================================================
