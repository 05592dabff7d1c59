------------------------------ MODULE Sweeps ------------------------------
(***************************************************************************)
(* One ParameterSweep: runs.optimize creates a BacktestRun per combination *)
(* of the grid and dispatches them as a Celery chord, worker-untrusted     *)
(* executes them, and the chord's callback runs.finalize_sweep tallies the *)
(* results.  A sweep that is re-queued, or whose optimize message is       *)
(* delivered again, gets a new generation of children.  What happens       *)
(* inside run_backtest is the subject of BacktestRuns; here an execution   *)
(* is its two row updates and its return.                                  *)
(*                                                                         *)
(* Celery and its Redis result backend are external.  A child that returns *)
(* adds its result to a sorted set and compares the size of that set with  *)
(* the chord's size, a key written just before the last child is sent; the *)
(* one that completes the set publishes the callback.                      *)
(***************************************************************************)
EXTENDS Naturals, FiniteSets

CONSTANTS
  Combos,         \* parameter combinations a grid may expand to
  Orchestrators,  \* slots of the default worker that run optimize
  Slots,          \* slots of worker-untrusted
  Durations,      \* values of duration_ms, which is part of a result
  MaxPublished,   \* bound: optimize messages published
  MaxKills,       \* bound: worker processes that die
  MaxOverruns,    \* bound: children that overrun the hard time limit
  MaxDeletes,     \* bound: children deleted by a user
  MaxRefused,     \* bound: calls that the broker or the database refuses
  MaxEdits,       \* bound: whole-row edits of the sweep
  MaxFaults       \* bound: all of these together

ASSUME FiniteAssumption == IsFiniteSet(Combos) /\ IsFiniteSet(Durations)
ASSUME BoundsAssumption == /\ MaxPublished \in Nat /\ MaxKills \in Nat
                           /\ MaxOverruns \in Nat /\ MaxDeletes \in Nat
                           /\ MaxRefused \in Nat /\ MaxEdits \in Nat
                           /\ MaxFaults \in Nat

VARIABLES
  grid,        \* what sweep.grid expands to; {} stands for a GridError
  sweep,       \* the sweep's row: status, the three counters and how often
               \* finished_at and duration_ms have been taken
  form,        \* a row read by an edit that has not been saved yet
  optimizing,  \* ready optimize messages
  opc,         \* what each slot running optimize is about to do
  ogen,        \* the generation it dispatches
  to_send,     \* the grid it has read, less the header tasks it has published
  generation,  \* generations of children created so far
  child,       \* BacktestRun.status per generation and combination
  ready,       \* children with a ready run_backtest message
  spc,         \* what each slot running run_backtest is about to do
  sjob,        \* the child it runs
  soutcome,    \* the status that execution ends with
  parts,       \* results stored for the chord of a generation
  chord_size,  \* the chord's size key, 0 while there is none
  callbacks,   \* ready finalize_sweep messages
  published,   \* optimize messages published so far
  kills, overruns, deletes, refused, edits, \* how often each has happened
  unqueued,    \* history: optimize raised, or was never published, and not since
  broken,      \* history: generations whose chord can no longer complete, or whose
               \* finalize_sweep has failed
  doubled,     \* history: generations a child of which returned twice
  tallied,     \* history: generation the sweep's row was last finalized for
  overwritten  \* history: an edit has changed the row since optimize reset it

sweepVars   == <<grid, sweep, form>>
optVars     == <<opc, ogen, to_send>>
childVars   == <<child, ready>>
slotVars    == <<spc, sjob, soutcome>>
chordVars   == <<parts, chord_size>>
orchestrationVars == <<sweepVars, optimizing, optVars, generation>>
executionVars     == <<childVars, slotVars, chordVars, callbacks>>
boundVars   == <<published, kills, overruns, deletes, refused, edits>>
historyVars == <<unqueued, broken, doubled, tallied, overwritten>>
vars == <<sweepVars, optimizing, optVars, generation, childVars, slotVars, chordVars,
          callbacks, boundVars, historyVars>>

\* Every delivery of an optimize message makes at most one generation.
Generations == 1 .. (MaxPublished + MaxKills)
Children    == Generations \X Combos
Final       == {"succeeded", "partial", "failed"}
Choices     == {"pending", "running", "cancelled"} \cup Final
SweepStatus == {"none", "deleted"} \cup Choices
Settled     == {"succeeded", "failed"}
ChildStatus == {"none", "deleted", "pending", "running"} \cup Settled
Part        == [combo : Combos, status : Settled \cup {"unknown", "exception"},
                duration : Durations]
Callback    == [generation : Generations, latest : Generations,
                succeeded : Nat, failed : Nat]

SweepExists      == sweep.status \notin {"none", "deleted"}
ChildExists(c)   == child[c] \notin {"none", "deleted"}
ChildrenOf(g)    == {c \in Children : c[1] = g /\ child[c] # "none"}
NewRow(s)        == [status |-> s, total |-> 0, succeeded |-> 0, failed |-> 0,
                     finished |-> 0]
NoForm           == NewRow("none")
MayFail          == kills + overruns + deletes + refused + edits < MaxFaults
Optimizer(o, l)  == opc' = [opc EXCEPT ![o] = l]
Slot(s, l)       == spc' = [spc EXCEPT ![s] = l]

Init ==
  /\ grid \in SUBSET Combos
  /\ sweep = NewRow("none")
  /\ form = NoForm
  /\ optimizing = 0
  /\ opc = [o \in Orchestrators |-> "idle"]
  /\ ogen = [o \in Orchestrators |-> 0]
  /\ to_send = [o \in Orchestrators |-> {}]
  /\ generation = 0
  /\ child = [c \in Children |-> "none"]
  /\ ready = {}
  /\ spc = [s \in Slots |-> "idle"]
  /\ sjob = [s \in Slots |-> <<>>]
  /\ soutcome = [s \in Slots |-> "none"]
  /\ parts = [g \in Generations |-> {}]
  /\ chord_size = [g \in Generations |-> 0]
  /\ callbacks = {}
  /\ published = 0
  /\ kills = 0
  /\ overruns = 0
  /\ deletes = 0
  /\ refused = 0
  /\ edits = 0
  /\ unqueued = FALSE
  /\ broken = {}
  /\ doubled = {}
  /\ tallied = 0
  /\ overwritten = FALSE

-----------------------------------------------------------------------------
(* The web process.                                                         *)

PublishOptimize ==
  /\ published < MaxPublished
  /\ published' = published + 1
  /\ optimizing' = optimizing + 1

\* The broker or the database refuses a call, or a time limit cuts the task off.
Refuse == MayFail /\ refused < MaxRefused /\ refused' = refused + 1

\* POST /api/sweeps/: nothing validates the grid.
CreateSweep ==
  /\ sweep.status = "none"
  /\ sweep' = NewRow("pending")
  /\ PublishOptimize
  /\ UNCHANGED <<grid, form, optVars, generation, executionVars, kills, overruns,
                 deletes, refused, edits, historyVars>>

\* The broker refuses the message after the INSERT.
CreateSweepUnpublished ==
  /\ sweep.status = "none"
  /\ sweep' = NewRow("pending")
  /\ Refuse
  /\ unqueued' = TRUE
  /\ UNCHANGED <<grid, form, optimizing, optVars, generation, executionVars,
                 published, kills, overruns, deletes, edits, broken, doubled,
                 tallied, overwritten>>

RerunSweep ==
  /\ SweepExists
  /\ PublishOptimize
  /\ UNCHANGED <<sweepVars, optVars, generation, executionVars, kills,
                 overruns, deletes, refused, edits, historyVars>>

\* DELETE /api/sweeps/<id>/: the children stay, with sweep = NULL.
DestroySweep ==
  /\ SweepExists
  /\ sweep' = NewRow("deleted")
  /\ UNCHANGED <<grid, form, optimizing, optVars, generation, executionVars,
                 boundVars, historyVars>>

DestroyChild(c) ==
  /\ ChildExists(c)
  /\ MayFail /\ deletes < MaxDeletes
  /\ deletes' = deletes + 1
  /\ child' = [child EXCEPT ![c] = "deleted"]
  /\ UNCHANGED <<orchestrationVars, ready, slotVars, chordVars, callbacks,
                 published, kills, overruns, refused, edits, historyVars>>

\* PUT /api/sweeps/<id>/ and the admin form read the whole row ...
OpenForm ==
  /\ SweepExists
  /\ MayFail /\ edits < MaxEdits
  /\ edits' = edits + 1
  /\ form' = sweep
  /\ UNCHANGED <<grid, sweep, optimizing, optVars, generation, executionVars,
                 published, kills, overruns, deletes, refused, historyVars>>

\* ... and save the whole row.  Only the admin can change the grid, and the status,
\* to any of its choices; its POST reads the counters again.  A row that has been
\* deleted meanwhile is inserted.
SaveForm ==
  /\ form # NoForm
  /\ \E s \in Choices :
       \/ sweep' = [form EXCEPT !.status = s]
       \/ SweepExists /\ sweep' = [sweep EXCEPT !.status = s]
  /\ grid' \in SUBSET Combos
  /\ form' = NoForm
  /\ overwritten' = (overwritten \/ sweep' # sweep)
  /\ UNCHANGED <<optimizing, optVars, generation, executionVars, boundVars, unqueued,
                 broken, doubled, tallied>>

-----------------------------------------------------------------------------
(* runs.optimize in a slot o of the default worker.                         *)

TakeOptimize(o) ==
  /\ opc[o] = "idle"
  /\ optimizing > 0
  /\ optimizing' = optimizing - 1
  /\ Optimizer(o, "materialize")
  /\ to_send' = [to_send EXCEPT ![o] = IF SweepExists THEN grid ELSE {}]
  /\ UNCHANGED <<sweepVars, ogen, generation, executionVars, boundVars,
                 historyVars>>

\* DoesNotExist, GridError, or a save of a row deleted since: the task returns
\* or raises before it has written anything.
OptimizeStops(o) ==
  /\ opc[o] = "materialize"
  /\ ~ SweepExists \/ to_send[o] = {}
  /\ unqueued' = TRUE
  /\ to_send' = [to_send EXCEPT ![o] = {}]
  /\ Optimizer(o, "ack")
  /\ UNCHANGED <<sweepVars, optimizing, ogen, generation, executionVars, boundVars,
                 broken, doubled, tallied, overwritten>>

\* Mutants: the children are dispatched without a row; those of earlier generations
\* start again.
Unsaved(g, combos) == child
Reset(g, combos) ==
  [c \in Children |-> IF c[1] <= g /\ c[2] \in combos THEN "pending" ELSE child[c]]
WithChildren(g, combos) ==
  [c \in Children |-> IF c[1] = g /\ c[2] \in combos THEN "pending" ELSE child[c]]

\* The atomic block: the row is reset and the children are created.
Materialize(o) ==
  LET g == generation + 1 IN
  /\ opc[o] = "materialize"
  /\ SweepExists
  /\ to_send[o] # {}
  /\ generation' = g
  /\ sweep' = [sweep EXCEPT !.status = "running", !.total = Cardinality(to_send[o]),
                            !.succeeded = 0, !.failed = 0]
  /\ overwritten' = FALSE
  /\ unqueued' = FALSE
  /\ child' = WithChildren(g, to_send[o])
  /\ ogen' = [ogen EXCEPT ![o] = g]
  /\ Optimizer(o, "dispatch")
  /\ UNCHANGED <<grid, form, optimizing, to_send, ready, slotVars, chordVars,
                 callbacks, boundVars, broken, doubled, tallied>>

\* chord(header, callback).apply_async(): one message after the other, and the
\* size of the chord just before the last one.
SizeChord(o) ==
  /\ opc[o] = "dispatch"
  /\ Cardinality(to_send[o]) = 1
  /\ chord_size[ogen[o]] = 0
  /\ chord_size' = [chord_size EXCEPT ![ogen[o]] = Cardinality(ChildrenOf(ogen[o]))]
  /\ UNCHANGED <<orchestrationVars, childVars, slotVars, parts, callbacks,
                 boundVars, historyVars>>

SendChild(o) ==
  /\ opc[o] = "dispatch"
  /\ Cardinality(to_send[o]) = 1 => chord_size[ogen[o]] # 0
  /\ \E k \in to_send[o] :
       /\ ready' = ready \cup {<<ogen[o], k>>}
       /\ to_send' = [to_send EXCEPT ![o] = @ \ {k}]
  /\ Optimizer(o, IF to_send'[o] = {} THEN "ack" ELSE "dispatch")
  /\ UNCHANGED <<sweepVars, optimizing, ogen, generation, child, slotVars,
                 chordVars, callbacks, boundVars, historyVars>>

\* The task raises and is acknowledged: the atomic block is rolled back, or the
\* header is published half-way.
OptimizeFails(o) ==
  /\ opc[o] \in {"materialize", "dispatch"}
  /\ Refuse
  /\ IF opc[o] = "dispatch" THEN broken' = broken \cup {ogen[o]} /\ UNCHANGED unqueued
                            ELSE unqueued' = TRUE /\ UNCHANGED broken
  /\ to_send' = [to_send EXCEPT ![o] = {}]
  /\ Optimizer(o, "ack")
  /\ UNCHANGED <<sweepVars, optimizing, ogen, generation, executionVars,
                 published, kills, overruns, deletes, edits, doubled, tallied,
                 overwritten>>

OptimizeAck(o) ==
  /\ opc[o] = "ack"
  /\ Optimizer(o, "idle")
  /\ ogen' = [ogen EXCEPT ![o] = 0]
  /\ UNCHANGED <<sweepVars, optimizing, to_send, generation, executionVars,
                 boundVars, historyVars>>

\* The process dies and the message is delivered again, to start from scratch.
OptimizeLost(o) ==
  /\ opc[o] # "idle"
  /\ MayFail /\ kills < MaxKills
  /\ kills' = kills + 1
  /\ optimizing' = optimizing + 1
  /\ broken' = IF opc[o] = "dispatch" THEN broken \cup {ogen[o]} ELSE broken
  /\ Optimizer(o, "idle")
  /\ ogen' = [ogen EXCEPT ![o] = 0]
  /\ to_send' = [to_send EXCEPT ![o] = {}]
  /\ UNCHANGED <<sweepVars, generation, executionVars, published, overruns,
                 deletes, refused, edits, unqueued, doubled, tallied, overwritten>>

-----------------------------------------------------------------------------
(* runs.run_backtest of a child in a slot s of worker-untrusted.            *)

\* The row is looked up and marked RUNNING; a deleted one ends the task.
StartChild(s, c) ==
  /\ spc[s] = "idle"
  /\ c \in ready
  /\ ready' = ready \ {c}
  /\ sjob' = [sjob EXCEPT ![s] = c]
  /\ IF ChildExists(c)
     THEN /\ child' = [child EXCEPT ![c] = "running"]
          /\ Slot(s, "execute")
          /\ UNCHANGED soutcome
     ELSE /\ soutcome' = [soutcome EXCEPT ![s] = "unknown"]
          /\ Slot(s, "return")
          /\ UNCHANGED child
  /\ UNCHANGED <<orchestrationVars, chordVars, callbacks, boundVars,
                 historyVars>>

FinishChild(s) ==
  LET c == sjob[s] IN
  /\ spc[s] = "execute"
  /\ \E outcome \in Settled :
       /\ soutcome' = [soutcome EXCEPT ![s] = outcome]
       /\ child' = IF ChildExists(c) THEN [child EXCEPT ![c] = outcome] ELSE child
  /\ Slot(s, "return")
  /\ UNCHANGED <<orchestrationVars, ready, sjob, chordVars, callbacks,
                 boundVars, historyVars>>

\* Mutants: the callback does not wait for the last child, or waits for one more.
AlmostComplete(g, n) == chord_size[g] # 0 /\ n + 1 >= chord_size[g]
OverComplete(g, n)   == chord_size[g] # 0 /\ n > chord_size[g]
Complete(g, n)       == chord_size[g] # 0 /\ n = chord_size[g]

\* The result joins the chord's set, where an equal one is there only once.
AddPart(s, result) ==
  LET g == sjob[s][1] IN
  /\ \E d \in Durations :
       parts' = [parts EXCEPT ![g] = @ \cup
                   {[combo |-> sjob[s][2], status |-> result, duration |-> d]}]
  /\ Slot(s, IF Complete(g, Cardinality(parts'[g])) THEN "call_back" ELSE "ack")

ReturnChild(s) ==
  /\ spc[s] = "return"
  /\ AddPart(s, soutcome[s])
  /\ UNCHANGED <<orchestrationVars, childVars, sjob, soutcome, chord_size,
                 callbacks, boundVars, historyVars>>

\* The hard limit kills the process, and its parent reports an exception instead;
\* one that escapes from run_backtest is reported as well.
ChildOverruns(s) ==
  /\ spc[s] = "execute"
  /\ MayFail /\ overruns < MaxOverruns
  /\ overruns' = overruns + 1
  /\ broken' = broken \cup {sjob[s][1]}
  /\ AddPart(s, "exception")
  /\ UNCHANGED <<orchestrationVars, childVars, sjob, soutcome, chord_size,
                 callbacks, published, kills, deletes, refused, edits, unqueued,
                 doubled, tallied, overwritten>>

Tally(g, statuses) == Cardinality({p \in parts[g] : p.status \in statuses})

\* The complete chord publishes finalize_sweep and is forgotten; one with an
\* exception in it raises ChordError and publishes nothing.
CallBack(s) ==
  LET g == sjob[s][1] IN
  /\ spc[s] = "call_back"
  /\ IF Tally(g, {"exception"}) = 0
     THEN /\ callbacks' = callbacks \cup
               {[generation |-> g, latest |-> generation,
                 succeeded  |-> Tally(g, {"succeeded"}),
                 failed     |-> Tally(g, {"failed", "unknown"})]}
          /\ parts' = [parts EXCEPT ![g] = {}]
          /\ chord_size' = [chord_size EXCEPT ![g] = 0]
     ELSE UNCHANGED <<callbacks, chordVars>>
  /\ Slot(s, "ack")
  /\ UNCHANGED <<orchestrationVars, childVars, sjob, soutcome, boundVars,
                 historyVars>>

FreeSlot(s) ==
  /\ Slot(s, "idle")
  /\ sjob' = [sjob EXCEPT ![s] = <<>>]
  /\ soutcome' = [soutcome EXCEPT ![s] = "none"]

AckChild(s) ==
  /\ spc[s] = "ack"
  /\ FreeSlot(s)
  /\ UNCHANGED <<orchestrationVars, childVars, chordVars, callbacks,
                 boundVars, historyVars>>

\* The process dies and the message is delivered again, even when the chord
\* already has the result.
ChildLost(s) ==
  /\ spc[s] # "idle"
  /\ MayFail /\ kills < MaxKills
  /\ kills' = kills + 1
  /\ ready' = ready \cup {sjob[s]}
  /\ doubled' = IF spc[s] \in {"call_back", "ack"} THEN doubled \cup {sjob[s][1]}
                                                  ELSE doubled
  /\ FreeSlot(s)
  /\ UNCHANGED <<orchestrationVars, child, chordVars, callbacks, published,
                 overruns, deletes, refused, edits, unqueued, broken, tallied,
                 overwritten>>

-----------------------------------------------------------------------------
(* runs.finalize_sweep.                                                     *)

\* Mutants: any success counts as success; no branch for a sweep without one.
OutcomeOfAny(succeeded, total) ==
  IF succeeded > 0 THEN "succeeded" ELSE "failed"
OutcomeWithoutElse(succeeded, total) ==
  IF succeeded = total THEN "succeeded"
  ELSE IF succeeded > 0 THEN "partial"
  ELSE sweep.status

Outcome(succeeded, total) ==
  IF succeeded = total THEN "succeeded"
  ELSE IF succeeded > 0 THEN "partial"
  ELSE "failed"

\* Mutant: the counters are added to instead of assigned.
Accumulated(m) ==
  [sweep EXCEPT !.succeeded = @ + m.succeeded, !.failed = @ + m.failed,
                !.status = Outcome(m.succeeded, sweep.total), !.finished = @ + 1]
Finalized(m) ==
  [sweep EXCEPT !.succeeded = m.succeeded, !.failed = m.failed,
                !.status = Outcome(m.succeeded, sweep.total), !.finished = @ + 1]

\* finished_at is taken before the row is locked: when optimize has written a
\* later started_at since the message was published, duration_ms may be negative,
\* which its column refuses.
Refused(m) == m.latest < generation

\* One transaction; a deleted sweep raises DoesNotExist, a refused duration
\* IntegrityError.  The message goes with the acknowledgement, unless the process
\* dies between the two.
FinalizeSweep(m) ==
  /\ m \in callbacks
  /\ \/ SweepExists /\ sweep' = Finalized(m) /\ tallied' = m.generation
     \/ (~ SweepExists \/ Refused(m)) /\ UNCHANGED <<sweep, tallied>>
  /\ \/ callbacks' = callbacks \ {m} /\ UNCHANGED kills
     \/ /\ MayFail /\ kills < MaxKills
        /\ kills' = kills + 1
        /\ UNCHANGED callbacks
  /\ UNCHANGED <<grid, form, optimizing, optVars, generation, childVars, slotVars,
                 chordVars, published, overruns, deletes, refused, edits, unqueued,
                 broken, doubled, overwritten>>

\* Any other exception, or a time limit: the transaction is rolled back, and there is
\* no retry.
FinalizeFails(m) ==
  /\ m \in callbacks
  /\ Refuse
  /\ callbacks' = callbacks \ {m}
  /\ broken' = broken \cup {m.generation}
  /\ UNCHANGED <<orchestrationVars, childVars, slotVars, chordVars, published, kills,
                 overruns, deletes, edits, unqueued, doubled, tallied, overwritten>>

-----------------------------------------------------------------------------
Web == CreateSweep \/ CreateSweepUnpublished \/ RerunSweep \/ DestroySweep
       \/ OpenForm \/ SaveForm

Optimize(o) == TakeOptimize(o) \/ OptimizeStops(o) \/ Materialize(o)
               \/ SizeChord(o) \/ SendChild(o) \/ OptimizeAck(o)

RunChild(s) == FinishChild(s) \/ ReturnChild(s) \/ CallBack(s) \/ AckChild(s)

Next ==
  \/ Web
  \/ \E c \in Children : DestroyChild(c)
  \/ \E o \in Orchestrators : Optimize(o) \/ OptimizeFails(o) \/ OptimizeLost(o)
  \/ \E s \in Slots, c \in Children : StartChild(s, c)
  \/ \E s \in Slots : RunChild(s) \/ ChildOverruns(s) \/ ChildLost(s)
  \/ \E m \in callbacks : FinalizeSweep(m) \/ FinalizeFails(m)

Spec == Init /\ [][Next]_vars

\* Workers fetch what is queued and proceed with what they have fetched.
FairSpec ==
  /\ Spec
  /\ \A o \in Orchestrators : WF_vars(Optimize(o))
  /\ \A c \in Children : WF_vars(\E s \in Slots : StartChild(s, c))
  /\ \A s \in Slots : WF_vars(RunChild(s))
  /\ WF_vars(\E m \in callbacks : FinalizeSweep(m))

-----------------------------------------------------------------------------
(* What the sweep's page may say of its children.                           *)

\* Every variable keeps its type; in particular the children, the messages and
\* the chords all belong to generations that optimize has created.
TypeOK ==
  /\ grid \in SUBSET Combos
  /\ {sweep, form} \subseteq [status : SweepStatus, total : Nat, succeeded : Nat,
                              failed : Nat, finished : Nat]
  /\ optimizing \in Nat
  /\ opc \in [Orchestrators -> {"idle", "materialize", "dispatch", "ack"}]
  /\ ogen \in [Orchestrators -> {0} \cup Generations]
  /\ to_send \in [Orchestrators -> SUBSET Combos]
  /\ generation \in {0} \cup Generations
  /\ child \in [Children -> ChildStatus]
  /\ ready \in SUBSET (UNION {ChildrenOf(g) : g \in 1 .. generation})
  /\ spc \in [Slots -> {"idle", "execute", "return", "call_back", "ack"}]
  /\ sjob \in [Slots -> {<<>>} \cup Children]
  /\ soutcome \in [Slots -> Settled \cup {"none", "unknown"}]
  /\ parts \in [Generations -> SUBSET Part]
  /\ chord_size \in [Generations -> Nat]
  /\ callbacks \in SUBSET Callback
  /\ tallied \in 0 .. generation

\* A final status was earned: every child of its generation has settled and the row
\* counts exactly the children that succeeded and failed, through lost workers,
\* overlapping generations and callbacks that are delivered again.  Not so when a
\* child of that generation returned twice or was deleted, when an edit has changed
\* the row, or when the row's total is that of a newer generation whose grid, edited
\* meanwhile, has another size.
TallyMatches ==
  LET Having(s) == {c \in ChildrenOf(tallied) : child[c] = s}
      SameSize  == Cardinality(ChildrenOf(tallied)) = Cardinality(ChildrenOf(generation))
  IN sweep.status \in Final /\ tallied \notin doubled /\ Having("deleted") = {}
       /\ ~ overwritten /\ SameSize
    => /\ ChildrenOf(tallied) = Having("succeeded") \cup Having("failed")
       /\ sweep.succeeded = Cardinality(Having("succeeded"))
       /\ sweep.failed = Cardinality(Having("failed"))
       /\ sweep.succeeded + sweep.failed = sweep.total
       /\ sweep.status = "succeeded" <=> Having("failed") = {}

\* finalize_sweep may run again for the same generation, when its message is
\* delivered twice: the status and the counters of the row it has finalized do not
\* change any more, unless a child of the generation returned twice or an edit has
\* changed the row.  finished_at and duration_ms do change: they are taken anew.
CallbacksIdempotent ==
  [][sweep.status \in Final /\ sweep'.status \in Final /\ tallied' = tallied
       => \/ [sweep' EXCEPT !.finished = sweep.finished] = sweep
          \/ tallied \in doubled \/ overwritten']_vars

\* While a sweep waits, something is under way that will write its row, in whatever
\* order slots, children and generations proceed and whichever workers die: a PENDING
\* one has an optimize message or a slot that has taken it; a RUNNING one has, of its
\* latest generation, a child to send, to run or to return, a slot about to call back
\* or a finalize_sweep message.  The exceptions are those of SweepSettles: optimize
\* could not run, an edit has written the row, the latest generation's chord was
\* broken, its finalize_sweep failed, or a child of it returned twice.
SweepUnderWay ==
  /\ sweep.status = "pending" /\ ~ overwritten /\ ~ unqueued
     => optimizing > 0 \/ \E o \in Orchestrators : opc[o] = "materialize"
  /\ sweep.status = "running" /\ ~ overwritten /\ generation \notin broken \cup doubled
     => \/ \E o \in Orchestrators : opc[o] = "dispatch" /\ ogen[o] = generation
        \/ \E c \in ready : c[1] = generation
        \/ \E s \in Slots : spc[s] \in {"execute", "return", "call_back"}
                              /\ sjob[s][1] = generation
        \/ \E m \in callbacks : m.generation = generation

\* A sweep does not stay PENDING or RUNNING for good, unless optimize could not
\* run, an edit has written one of these over the row, or the latest generation's
\* chord was broken, by a refused message, an exception of run_backtest, a hard time
\* limit or a worker that died after its child had returned, or its finalize_sweep
\* failed, which nothing runs again.
SweepSettles ==
  \/ []<>(sweep.status \notin {"pending", "running"})
  \/ <>[](unqueued \/ overwritten \/ generation \in broken \cup doubled)

\* "The finalize_sweep callback flips the parent to succeeded / partial / failed"
\* (README.md:164), whatever becomes of its children.
SweepFlips == sweep.status = "running" ~> sweep.status \in Final \cup {"deleted"}

\* "POST creates a sweep AND fans out via Celery chord" (README.md:216).
SweepFansOut == sweep.status = "pending" ~> sweep.status # "pending"

\* The status is "based on child outcomes" (README.md:165): a sweep that reads
\* SUCCEEDED has no child that has never been started.
SucceededMeansAll ==
  sweep.status = "succeeded" /\ tallied = generation
    => \A c \in ChildrenOf(generation) : child[c] # "pending"

-----------------------------------------------------------------------------
(* A child is executed as BacktestRuns executes a run.                      *)

PhaseOf(label) ==
  IF label \in {"idle", "execute"} THEN label ELSE "finished"

Child == INSTANCE RunContract WITH
  Runs    <- Children,
  Workers <- Slots,
  NoRun   <- <<>>,
  status  <- child,
  queue   <- [c \in Children |-> IF c \in ready THEN 1 ELSE 0],
  phase   <- [s \in Slots |-> PhaseOf(spc[s])],
  job     <- sjob,
  edited  <- [run |-> <<>>, status |-> "none"]

\* The children of all generations live as run_backtest lets them, and the sweep
\* only ever adds to them: a re-run, an edit of the sweep, a second delivery of optimize or a broken
\* chord neither resets a child nor starts one that has no message.
ChildrenUnderContract == Child!Spec

=============================================================================
