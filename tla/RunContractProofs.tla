------------------------- MODULE RunContractProofs -------------------------
(***************************************************************************)
(* BacktestRuns implements RunContract, for any sets of runs and slots and *)
(* any bounds: the initial states are initial states of the contract, and  *)
(* every statement is a step of the contract or none at all.               *)
(***************************************************************************)
EXTENDS BacktestRunsProofs

phase  == [w \in Workers |-> PhaseOf(pc[w])]
edited == [run |-> form.run, status |-> form.status]

(* A slot that moves to a label moves its phase to that of the label.       *)
LEMMA PhaseStep ==
  ASSUME TypeOK, NEW w \in Workers, NEW label, Goto(w, label)
  PROVE  phase' = [phase EXCEPT ![w] = PhaseOf(label)]
  BY DEF TypeOK, Goto, phase

(* A step within a phase is invisible to the contract.                      *)
LEMMA SamePhase ==
  ASSUME TypeOK, NEW w \in Workers, NEW label, Goto(w, label),
         PhaseOf(label) = PhaseOf(pc[w])
  PROVE  phase' = phase
  BY DEF TypeOK, Goto, phase

(* Nothing is submitted, queued or open at first.                           *)
LEMMA InitContract == Init => Contract!Init
  BY DEF Init, Contract!Init, NoForm, PhaseOf

(* No variable of the contract changes.                                     *)
Untouched == UNCHANGED <<status, queue, phase, job, edited>>

(* What changes none of the five variables is no step of the contract.      *)
LEMMA StutterContract == Untouched => UNCHANGED Contract!vars
  BY DEF Untouched, Contract!vars, phase, edited

(* The statements of the web process, of the forms and of the broker.       *)
LEMMA WebContract ==
  ASSUME TypeInv, NEW r \in Runs, Web(r) \/ RunAges(r)
  PROVE  [Contract!Next]_(Contract!vars)
<1> USE DEF slotVars, Contract!Next
<1>1. CASE CreateRun(r)
  <2>1. Contract!Submit
    BY <1>1 DEF CreateRun, InsertRow, Publish, Contract!Submit, TypeInv, TypeOK
  <2> QED
    BY <2>1
<1>2. CASE CreateRunUnpublished(r)
  <2>1. Contract!Submit
    BY <1>2 DEF CreateRunUnpublished, InsertRow, Contract!Submit, TypeInv, TypeOK
  <2> QED
    BY <2>1
<1>3. CASE Rerun(r)
  <2>1. Contract!Submit
    BY <1>3 DEF Rerun, Publish, dbVars, rowVars, Contract!Submit, TypeInv, TypeOK
  <2> QED
    BY <2>1
<1>4. CASE DestroyRun(r)
  <2>1. Contract!Destroy(r)
    BY <1>4 DEF DestroyRun, Exists, Contract!Destroy, Contract!Exists
  <2> QED
    BY <2>1
<1>5. CASE OpenForm(r)
  <2>1. Contract!OpenForm(r)
    BY <1>5 DEF OpenForm, dbVars, rowVars, Exists, Contract!OpenForm, Contract!Exists
  <2> QED
    BY <2>1
<1>6. CASE RunAges(r)
  BY <1>6, StutterContract DEF RunAges, Untouched, phase, edited
<1> QED
  BY <1>1, <1>2, <1>3, <1>4, <1>5, <1>6 DEF Web

LEMMA FormContract ==
  ASSUME TypeInv, SaveForm \/ DiscardForm
  PROVE  [Contract!Next]_(Contract!vars)
<1>1. Contract!CloseForm
  BY NoRunAssumption
  DEF TypeInv, FormOK, NoForm, SaveForm, DiscardForm, dbVars, rowVars, slotVars,
      Contract!CloseForm, Contract!Choices, Choices, Unsettled, Terminal
<1> QED
  BY <1>1 DEF Contract!Next

-----------------------------------------------------------------------------
(* The statements of a slot.                                                *)

LEMMA TakeContract ==
  ASSUME TypeInv, NEW w \in Workers, NEW r \in Runs, TakeDelivery(w, r)
  PROVE  [Contract!Next]_(Contract!vars)
<1>1. phase' = [phase EXCEPT ![w] = "taken"]
  BY PhaseStep DEF TypeInv, TakeDelivery, PhaseOf
<1>2. phase[w] = "idle"
  BY DEF TakeDelivery, phase, PhaseOf
<1>3. Contract!Take(w, r)
  BY <1>1, <1>2 DEF TakeDelivery, Queued, dbVars, rowVars, phase,
     Contract!Take, Contract!Consume, Contract!Hold
<1> QED
  BY <1>3 DEF Contract!Next

LEMMA LookupContract ==
  ASSUME TypeInv, NEW w \in Workers, LookupRun(w)
  PROVE  [Contract!Next]_(Contract!vars)
<1> USE DEF LookupRun, Step, dbVars, rowVars, restVars, otherVars
<1>1. CASE Exists(job[w])
  <2>1. phase' = phase
    BY <1>1, SamePhase DEF TypeInv, PhaseOf
  <2> QED
    BY <2>1, StutterContract DEF Untouched, edited
<1>2. CASE ~ Exists(job[w])
  <2>1. phase' = [phase EXCEPT ![w] = "finished"]
    BY <1>2, PhaseStep DEF TypeInv, PhaseOf
  <2>2. job[w] \in Runs /\ phase[w] = "taken"
    BY DEF TypeInv, SlotsOK, phase, PhaseOf
  <2>3. job' = [job EXCEPT ![w] = job[w]]
    BY DEF TypeInv, TypeOK
  <2>4. Contract!Start(w, job[w])
    BY <1>2, <2>1, <2>2, <2>3 DEF Exists, phase, Contract!Start, Contract!SetStatus,
       Contract!Exists, Contract!Hold
  <2> QED
    BY <2>2, <2>4 DEF Contract!Next
<1> QED
  BY <1>1, <1>2

LEMMA MarkContract ==
  ASSUME TypeInv, NEW w \in Workers, MarkRunning(w)
  PROVE  [Contract!Next]_(Contract!vars)
<1>1. phase' = [phase EXCEPT ![w] = "execute"]
  BY PhaseStep DEF TypeInv, MarkRunning, PhaseOf
<1>2. job[w] \in Runs /\ phase[w] = "taken"
  BY DEF MarkRunning, TypeInv, SlotsOK, phase, PhaseOf
<1>3. job' = [job EXCEPT ![w] = job[w]]
  BY DEF MarkRunning, restVars, otherVars, TypeInv, TypeOK
<1>4. Contract!Start(w, job[w])
  BY <1>1, <1>2, <1>3 DEF MarkRunning, WriteRow, rowVars, restVars, otherVars, Exists, phase,
     Contract!Start, Contract!SetStatus, Contract!Exists, Contract!Hold
<1> QED
  BY <1>2, <1>4 DEF Contract!Next

(* The try block and save_run_results touch neither the row nor the message. *)
LEMMA TryContract ==
  ASSUME TypeInv, NEW w \in Workers,
         \/ EngineReturns(w) \/ TryRaises(w) \/ DeleteTrades(w)
         \/ DeleteEquity(w) \/ CommitResults(w)
  PROVE  [Contract!Next]_(Contract!vars)
<1>1. phase' = phase
  BY SamePhase DEF TypeInv, EngineReturns, Step, TryRaises, InTry, DeleteTrades,
     DeleteEquity, CommitResults, PhaseOf
<1>2. UNCHANGED <<status, queue, job, form>>
  BY DEF EngineReturns, Step, TryRaises, DeleteTrades, DeleteEquity, CommitResults,
     dbVars, rowVars, restVars, otherVars
<1> QED
  BY <1>1, <1>2, StutterContract DEF Untouched, edited

LEMMA OutcomeContract ==
  ASSUME TypeInv, NEW w \in Workers, WriteOutcome(w)
  PROVE  [Contract!Next]_(Contract!vars)
<1>1. phase' = [phase EXCEPT ![w] = "finished"]
  BY PhaseStep DEF TypeInv, WriteOutcome, PhaseOf
<1>2. phase[w] = "execute"
  BY DEF WriteOutcome, Finishing, phase, PhaseOf
<1>3. job' = [job EXCEPT ![w] = job[w]]
  BY DEF WriteOutcome, restVars, otherVars, TypeInv, TypeOK
<1>4. FinalStatus(w) \in {"succeeded", "failed"}
  BY DEF FinalStatus
<1>5. Contract!Finish(w)
  BY <1>1, <1>2, <1>3, <1>4 DEF WriteOutcome, WriteRow, rowVars, restVars, otherVars, Exists,
     phase, Contract!Finish, Contract!SetStatus, Contract!Exists, Contract!Hold
<1> QED
  BY <1>5 DEF Contract!Next

LEMMA LeaveContract ==
  ASSUME TypeInv, NEW w \in Workers,
         Acknowledge(w) \/ AbandonDelivery(w) \/ WorkerLost(w)
  PROVE  [Contract!Next]_(Contract!vars)
<1>1. phase' = [phase EXCEPT ![w] = "idle"] /\ job' = [job EXCEPT ![w] = NoRun]
  BY PhaseStep DEF TypeInv, Acknowledge, AbandonDelivery, WorkerLost, Release, PhaseOf
<1>2. phase[w] # "idle"
  BY DEF Acknowledge, AbandonDelivery, Executing, InTry, Finishing, WorkerLost,
     TypeInv, TypeOK, SlotState, phase, PhaseOf
<1>3. CASE Acknowledge(w) \/ AbandonDelivery(w)
  <2>1. Contract!Leave(w)
    BY <1>1, <1>2, <1>3 DEF Acknowledge, AbandonDelivery, dbVars, rowVars, phase,
       Contract!Leave, Contract!Hold
  <2> QED
    BY <2>1 DEF Contract!Next
<1>4. CASE WorkerLost(w)
  <2>1. Contract!Redeliver(w)
    BY <1>1, <1>2, <1>4 DEF WorkerLost, Requeue, dbVars, rowVars, phase,
       Contract!Redeliver, Contract!Hold
  <2> QED
    BY <2>1 DEF Contract!Next
<1> QED
  BY <1>3, <1>4

LEMMA CleanupContract ==
  ASSUME Cleanup \/ CleanupKilled
  PROVE  UNCHANGED Contract!vars
  BY StutterContract DEF Cleanup, SelectStaleRuns, PruneEquity, PruneTrades,
     CleanupKilled, dbVars, rowVars, slotVars, Untouched, phase, edited

LEMMA NextContract == TypeInv /\ [Next]_vars => [Contract!Next]_(Contract!vars)
<1>1. UNCHANGED vars => UNCHANGED Contract!vars
  BY StutterContract DEF vars, Untouched, phase, edited
<1> QED
  BY <1>1, WebContract, FormContract, TakeContract, LookupContract, MarkContract,
     TryContract, OutcomeContract, LeaveContract, CleanupContract
  DEF Next, SlotStep

(* Every behaviour of the task, the web process and the cleanup is one the   *)
(* callers of the task expect of its contract.                               *)
THEOREM TaskImplementsContract == Spec => ImplementsContract
  BY InitContract, NextContract, TypeInvariant, PTL
  DEF Spec, ImplementsContract, Contract!Spec
=============================================================================
