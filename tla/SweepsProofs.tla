---------------------------- MODULE SweepsProofs ----------------------------
(***************************************************************************)
(* Proofs about Sweeps, for any grid, any numbers of slots and any bounds. *)
(***************************************************************************)
EXTENDS Sweeps, FiniteSetTheorems, TLAPS

(* Types, with less about ready and tallied than TypeOK says.               *)
Rows == [status : SweepStatus, total : Nat, succeeded : Nat, failed : Nat,
         finished : Nat]

BaseTypes ==
  /\ grid \in SUBSET Combos
  /\ sweep \in Rows
  /\ form \in Rows
  /\ optimizing \in Nat
  /\ opc \in [Orchestrators -> {"idle", "materialize", "dispatch", "ack"}]
  /\ ogen \in [Orchestrators -> {0} \cup Generations]
  /\ to_send \in [Orchestrators -> SUBSET Combos]
  /\ generation \in Nat
  /\ child \in [Children -> ChildStatus]
  /\ ready \in SUBSET Children
  /\ spc \in [Slots -> {"idle", "execute", "return", "call_back", "ack"}]
  /\ sjob \in [Slots -> {<<>>} \cup Children]
  /\ soutcome \in [Slots -> Settled \cup {"none", "unknown"}]
  /\ parts \in [Generations -> SUBSET Part]
  /\ chord_size \in [Generations -> Nat]
  /\ callbacks \in SUBSET Callback
  /\ published \in 0 .. MaxPublished
  /\ kills \in 0 .. MaxKills
  /\ tallied \in Nat

(* Every delivery of an optimize message is paid for by its publication or  *)
(* by a killed process, so that there are never too many generations.       *)
Materializing == {o \in Orchestrators : opc[o] = "materialize"}

BudgetInv ==
  /\ IsFiniteSet(Materializing)
  /\ generation + optimizing + Cardinality(Materializing) =< published + kills

(* A slot is idle exactly when it holds no child, and knows the outcome of   *)
(* the execution when it returns.                                           *)
SlotsInv ==
  \A s \in Slots :
    IF spc[s] = "idle" THEN sjob[s] = <<>>
    ELSE /\ sjob[s] \in Children /\ child[sjob[s]] # "none"
         /\ spc[s] = "return" => soutcome[s] # "none"

(* Children, messages and chords belong to generations there have been.     *)
GenerationsInv ==
  /\ \A c \in Children : child[c] # "none" => c[1] =< generation
  /\ \A c \in ready : child[c] # "none"
  /\ \A o \in Orchestrators : opc[o] = "dispatch" =>
       /\ ogen[o] \in Generations /\ ogen[o] =< generation
       /\ \A k \in to_send[o] : child[<<ogen[o], k>>] # "none"
  /\ \A g \in Generations :
       /\ IsFiniteSet(parts[g])
       /\ g > generation => parts[g] = {} /\ chord_size[g] = 0
  /\ \A m \in callbacks : m.generation =< generation
  /\ tallied =< generation

TypeInv == BaseTypes /\ BudgetInv /\ SlotsInv /\ GenerationsInv

-----------------------------------------------------------------------------
(* Sizes.                                                                    *)

(* The generations are numbers.                                              *)
LEMMA GenerationsAreNumbers == Generations \subseteq Nat \ {0}
  BY BoundsAssumption DEF Generations

(* A child is a generation and a combination.                                *)
LEMMA ChildIsPair ==
  ASSUME NEW c \in Children
  PROVE  /\ c[1] \in Generations /\ c[1] \in Nat \ {0}
         /\ c[2] \in Combos /\ c = <<c[1], c[2]>>
<1>1. c[1] \in Generations /\ c[2] \in Combos /\ c = <<c[1], c[2]>>
  BY DEF Children
<1> QED
  BY <1>1, GenerationsAreNumbers

(* The children of a generation are finitely many.                           *)
LEMMA ChildrenAreFinite ==
  ASSUME NEW g \in Generations
  PROVE  IsFiniteSet(ChildrenOf(g)) /\ Cardinality(ChildrenOf(g)) \in Nat
<1>1. IsFiniteSet(Generations)
  BY FS_Interval, BoundsAssumption DEF Generations
<1>2. IsFiniteSet(Children)
  BY <1>1, FS_Product, FiniteAssumption DEF Children
<1>3. ChildrenOf(g) \in SUBSET Children
  BY DEF ChildrenOf
<1>4. IsFiniteSet(ChildrenOf(g))
  BY <1>2, <1>3, FS_Subset
<1> QED
  BY <1>4, FS_CardinalityType

(* A set of combinations has a size.                                         *)
LEMMA CombosAreFinite ==
  ASSUME NEW K \in SUBSET Combos
  PROVE  IsFiniteSet(K) /\ Cardinality(K) \in Nat
<1>1. IsFiniteSet(K)
  BY FiniteAssumption, FS_Subset
<1> QED
  BY <1>1, FS_CardinalityType

(* So has what is tallied of the results of a chord.                         *)
LEMMA TallyIsNat ==
  ASSUME TypeInv, NEW g \in Generations, NEW statuses
  PROVE  Tally(g, statuses) \in Nat
<1>1. IsFiniteSet(parts[g])
  BY DEF TypeInv, GenerationsInv
<1>2. {p \in parts[g] : p.status \in statuses} \in SUBSET parts[g]
  OBVIOUS
<1>3. IsFiniteSet({p \in parts[g] : p.status \in statuses})
  BY <1>1, <1>2, FS_Subset
<1> QED
  BY <1>3, FS_CardinalityType DEF Tally

-----------------------------------------------------------------------------
(* Types.                                                                    *)

LEMMA InitTypeInv == Init => TypeInv
<1> SUFFICES ASSUME Init PROVE TypeInv
  OBVIOUS
<1>1. Materializing = {}
  BY DEF Init, Materializing
<1>2. IsFiniteSet(Materializing) /\ Cardinality(Materializing) = 0
  BY <1>1, FS_EmptySet
<1>3. BaseTypes
  BY BoundsAssumption DEF Init, BaseTypes, Rows, NewRow, NoForm, SweepStatus, Choices,
     ChildStatus, Settled
<1>4. BudgetInv
  BY <1>2 DEF Init, BudgetInv
<1>5. SlotsInv /\ GenerationsInv
  BY FS_EmptySet, GenerationsAreNumbers DEF Init, SlotsInv, GenerationsInv
<1> QED
  BY <1>3, <1>4, <1>5 DEF TypeInv

(* A delivery that may still materialize counts as one.                      *)
Weight(label) == IF label = "materialize" THEN 1 ELSE 0

(* A move of an optimizer that does not raise the sum keeps the budget.      *)
LEMMA BudgetMove ==
  ASSUME TypeInv, NEW o \in Orchestrators, NEW label, Optimizer(o, label),
         generation' \in Nat, optimizing' \in Nat, published' \in Nat, kills' \in Nat,
         generation' + optimizing' + Weight(label) - published' - kills'
           =< generation + optimizing + Weight(opc[o]) - published - kills
  PROVE  BudgetInv'
<1> DEFINE M == Materializing
           N == Materializing \ {o}
<1>1. IsFiniteSet(M) /\ Cardinality(M) \in Nat
  BY FS_CardinalityType DEF TypeInv, BudgetInv
<1>2. IsFiniteSet(N) /\ Cardinality(N) = Cardinality(M) - Weight(opc[o])
  BY <1>1, FS_RemoveElement DEF Weight, Materializing
<1>3. Cardinality(N) \in Nat
  BY <1>2, FS_CardinalityType
<1>4. Materializing' = IF label = "materialize" THEN N \cup {o} ELSE N
  BY DEF TypeInv, BaseTypes, Optimizer, Materializing
<1>5. o \notin N
  OBVIOUS
<1> HIDE DEF M, N
<1>6. IsFiniteSet(N \cup {o}) /\ Cardinality(N \cup {o}) = Cardinality(N) + 1
  BY <1>2, <1>5, FS_AddElement
<1>7. IsFiniteSet(Materializing') /\ Cardinality(Materializing') = Cardinality(N) + Weight(label)
  BY <1>2, <1>3, <1>4, <1>6 DEF Weight
<1>8. generation + optimizing + Cardinality(M) =< published + kills
  BY DEF TypeInv, BudgetInv, M
<1>9. {generation, optimizing, published, kills} \subseteq Int
  BY DEF TypeInv, BaseTypes
<1>10. Weight(label) \in Int /\ Weight(opc[o]) \in Int
  BY DEF Weight
<1>11. generation' + optimizing' + Cardinality(N) + Weight(label) =< published' + kills'
  BY <1>1, <1>2, <1>8, <1>9, <1>10
<1> QED
  BY <1>3, <1>7, <1>10, <1>11 DEF BudgetInv

(* Every action stays within its deliveries.                                 *)
LEMMA NextBudgetInv == TypeInv /\ [Next]_vars => BudgetInv'
<1> SUFFICES ASSUME TypeInv, [Next]_vars PROVE BudgetInv'
  OBVIOUS
<1> USE BoundsAssumption DEF sweepVars, optVars, childVars, slotVars, chordVars,
        orchestrationVars, executionVars, boundVars, historyVars
<1>1. ASSUME UNCHANGED <<opc, generation>>, {optimizing', published', kills'} \subseteq Nat,
             optimizing' - published' - kills' =< optimizing - published - kills
      PROVE  BudgetInv'
  <2>1. Cardinality(Materializing) \in Nat
    BY FS_CardinalityType DEF TypeInv, BudgetInv
  <2>2. {generation, optimizing, published, kills} \subseteq Int
    BY DEF TypeInv, BaseTypes
  <2>3. Materializing' = Materializing
    BY <1>1 DEF Materializing
  <2> HIDE DEF Materializing
  <2> QED
    BY <1>1, <2>1, <2>2, <2>3 DEF TypeInv, BudgetInv
<1>2. {generation, optimizing, published, kills} \subseteq Nat
  BY DEF TypeInv, BaseTypes
<1>3. ASSUME NEW o \in Orchestrators, Optimize(o) \/ OptimizeFails(o) \/ OptimizeLost(o)
      PROVE  BudgetInv'
  <2>1. CASE TakeOptimize(o)
    BY <1>2, <2>1, BudgetMove DEF TakeOptimize, Weight
  <2>2. CASE OptimizeStops(o)
    BY <1>2, <2>2, BudgetMove DEF OptimizeStops, Weight
  <2>3. CASE Materialize(o)
    BY <1>2, <2>3, BudgetMove DEF Materialize, Weight
  <2>4. CASE SizeChord(o)
    BY <1>1, <1>2, <2>4 DEF SizeChord
  <2>5. CASE SendChild(o)
    BY <1>2, <2>5, BudgetMove DEF SendChild, Weight
  <2>6. CASE OptimizeFails(o)
    BY <1>2, <2>6, BudgetMove DEF OptimizeFails, Weight
  <2>7. CASE OptimizeAck(o)
    BY <1>2, <2>7, BudgetMove DEF OptimizeAck, Weight
  <2>8. CASE OptimizeLost(o)
    BY <1>2, <2>8, BudgetMove DEF OptimizeLost, Weight
  <2> QED
    BY <1>3, <2>1, <2>2, <2>3, <2>4, <2>5, <2>6, <2>7, <2>8 DEF Optimize
<1>4. CASE Web
  BY <1>1, <1>2, <1>4 DEF Web, CreateSweep, CreateSweepUnpublished, RerunSweep,
     DestroySweep, OpenForm, SaveForm, PublishOptimize
<1>5. ASSUME NEW s \in Slots, RunChild(s) \/ ChildOverruns(s) \/ ChildLost(s)
      PROVE  BudgetInv'
  BY <1>1, <1>2, <1>5 DEF RunChild, FinishChild, ReturnChild, CallBack, AckChild,
     ChildOverruns, ChildLost
<1>6. ASSUME NEW c \in Children, DestroyChild(c) \/ \E s \in Slots : StartChild(s, c)
      PROVE  BudgetInv'
  BY <1>1, <1>2, <1>6 DEF DestroyChild, StartChild
<1>7. ASSUME NEW m \in callbacks, FinalizeSweep(m) \/ FinalizeFails(m) PROVE BudgetInv'
  BY <1>1, <1>2, <1>7 DEF FinalizeSweep, FinalizeFails
<1>8. CASE UNCHANGED vars
  BY <1>1, <1>2, <1>8 DEF vars
<1> QED
  BY <1>3, <1>4, <1>5, <1>6, <1>7, <1>8 DEF Next

(* There is room for the generation an optimizer is about to create.         *)
LEMMA RoomForOne ==
  ASSUME TypeInv, NEW o \in Orchestrators, opc[o] = "materialize"
  PROVE  generation + 1 \in Generations
<1> DEFINE M == Materializing
<1>1. o \in M
  BY DEF Materializing
<1>2. IsFiniteSet(M) /\ Cardinality(M) \in Nat
  BY FS_CardinalityType DEF TypeInv, BudgetInv
<1>3. Cardinality(M) # 0
  BY <1>1, <1>2, FS_EmptySet
<1>4. generation + optimizing + Cardinality(M) =< published + kills
  BY DEF TypeInv, BudgetInv
<1> HIDE DEF M
<1> QED
  BY <1>2, <1>3, <1>4, BoundsAssumption DEF TypeInv, BaseTypes, Generations

(* There are never more generations than there may be.                      *)
LEMMA GenerationInRange ==
  ASSUME TypeInv
  PROVE  generation \in {0} \cup Generations
<1>1. Cardinality(Materializing) \in Nat
  BY FS_CardinalityType DEF TypeInv, BudgetInv
<1>2. generation + optimizing + Cardinality(Materializing) =< published + kills
  BY DEF TypeInv, BudgetInv
<1> HIDE DEF Materializing
<1> QED
  BY <1>1, <1>2, BoundsAssumption DEF TypeInv, BaseTypes, Generations

(* Every action keeps every variable in its type.                            *)
LEMMA NextBaseTypes == TypeInv /\ [Next]_vars => BaseTypes'
<1> SUFFICES ASSUME TypeInv, [Next]_vars PROVE BaseTypes'
  OBVIOUS
<1> USE BoundsAssumption DEF TypeInv, BaseTypes, sweepVars, optVars, childVars, slotVars, chordVars, orchestrationVars,
        executionVars, boundVars, historyVars
<1>1. CASE CreateSweep
  BY <1>1 DEF CreateSweep, PublishOptimize, Rows, NewRow, SweepStatus, Choices, Final
<1>2. CASE CreateSweepUnpublished
  BY <1>2 DEF CreateSweepUnpublished, Rows, NewRow, SweepStatus, Choices, Final
<1>3. CASE RerunSweep
  BY <1>3 DEF RerunSweep, PublishOptimize
<1>4. CASE DestroySweep
  BY <1>4 DEF DestroySweep, Rows, NewRow, SweepStatus, Choices, Final
<1>5. CASE OpenForm
  BY <1>5 DEF OpenForm
<1>6. CASE SaveForm
  <2>1. sweep' \in Rows /\ form' \in Rows
    BY <1>6 DEF SaveForm, NoForm, NewRow, Rows, SweepStatus, Choices, Final
  <2> QED
    BY <1>6, <2>1 DEF SaveForm
<1>7. ASSUME NEW c \in Children, DestroyChild(c) PROVE BaseTypes'
  BY <1>7 DEF DestroyChild, ChildStatus
<1>8. ASSUME NEW o \in Orchestrators, TakeOptimize(o) PROVE BaseTypes'
  BY <1>8 DEF TakeOptimize, Optimizer
<1>9. ASSUME NEW o \in Orchestrators, OptimizeStops(o) PROVE BaseTypes'
  BY <1>9 DEF OptimizeStops, Optimizer
<1>10. ASSUME NEW o \in Orchestrators, Materialize(o) PROVE BaseTypes'
  <2>1. sweep' \in Rows
    BY <1>10, CombosAreFinite DEF Materialize, Rows, SweepStatus, Choices, Final
  <2>2. child' \in [Children -> ChildStatus]
    BY <1>10 DEF Materialize, WithChildren, ChildStatus
  <2>3. generation + 1 \in Generations
    BY <1>10, RoomForOne DEF Materialize
  <2> QED
    BY <1>10, <2>1, <2>2, <2>3 DEF Materialize, Optimizer
<1>11. ASSUME NEW o \in Orchestrators, SizeChord(o) PROVE BaseTypes'
  <2>1. ogen[o] \in Generations
    BY <1>11 DEF SizeChord, GenerationsInv
  <2> QED
    BY <1>11, <2>1, ChildrenAreFinite DEF SizeChord
<1>12. ASSUME NEW o \in Orchestrators, SendChild(o) PROVE BaseTypes'
  <2>1. ogen[o] \in Generations
    BY <1>12 DEF SendChild, GenerationsInv
  <2>2. PICK k \in to_send[o] : /\ ready' = ready \cup {<<ogen[o], k>>}
                              /\ to_send' = [to_send EXCEPT ![o] = @ \ {k}]
    BY <1>12 DEF SendChild
  <2>3. <<ogen[o], k>> \in Children
    BY <2>1 DEF Children
  <2>4. ready' \in SUBSET Children
    BY <2>2, <2>3
  <2>5. to_send' \in [Orchestrators -> SUBSET Combos]
    BY <2>2
  <2> QED
    BY <1>12, <2>4, <2>5 DEF SendChild, Optimizer
<1>13. ASSUME NEW o \in Orchestrators, OptimizeFails(o) PROVE BaseTypes'
  BY <1>13 DEF OptimizeFails, Optimizer
<1>14. ASSUME NEW o \in Orchestrators, OptimizeAck(o) PROVE BaseTypes'
  BY <1>14 DEF OptimizeAck, Optimizer
<1>15. ASSUME NEW o \in Orchestrators, OptimizeLost(o) PROVE BaseTypes'
  BY <1>15 DEF OptimizeLost, Optimizer
<1>16. ASSUME NEW s \in Slots, NEW c \in Children, StartChild(s, c) PROVE BaseTypes'
  BY <1>16 DEF StartChild, Slot, ChildStatus
<1>17. ASSUME NEW s \in Slots, FinishChild(s) PROVE BaseTypes'
  <2>1. soutcome' \in [Slots -> Settled \cup {"none", "unknown"}]
    BY <1>17 DEF FinishChild
  <2>2. child' \in [Children -> ChildStatus]
    BY <1>17 DEF FinishChild, ChildStatus
  <2> QED
    BY <1>17, <2>1, <2>2 DEF FinishChild, Slot
<1>18. ASSUME NEW s \in Slots, ReturnChild(s) PROVE BaseTypes'
  <2>1. sjob[s] \in Children
    BY <1>18 DEF ReturnChild, SlotsInv
  <2>2. sjob[s][1] \in Generations /\ sjob[s][2] \in Combos
    BY <2>1 DEF Children
  <2>3. soutcome[s] \in Settled \cup {"unknown", "exception"}
    BY <1>18 DEF ReturnChild, SlotsInv
  <2>4. parts' \in [Generations -> SUBSET Part]
    BY <1>18, <2>2, <2>3 DEF ReturnChild, AddPart, Part
  <2> QED
    BY <1>18, <2>4 DEF ReturnChild, AddPart, Slot
<1>19. ASSUME NEW s \in Slots, CallBack(s) PROVE BaseTypes'
  <2> DEFINE g == sjob[s][1]
         m == [generation |-> g, latest |-> generation,
               succeeded  |-> Tally(g, {"succeeded"}),
               failed     |-> Tally(g, {"failed", "unknown"})]
  <2>1. sjob[s] \in Children /\ child[sjob[s]] # "none"
    BY <1>19 DEF CallBack, SlotsInv
  <2>2. g \in Generations /\ g =< generation
    BY <2>1 DEF Children, GenerationsInv
  <2>3. generation \in Generations
    BY <2>2, GenerationInRange, GenerationsAreNumbers
  <2>4. m \in Callback
    BY <2>2, <2>3, TallyIsNat DEF Callback
  <2>5. callbacks' \in SUBSET Callback
    BY <1>19, <2>4 DEF CallBack
  <2>6. parts' \in {parts, [parts EXCEPT ![g] = {}]}
        /\ chord_size' \in {chord_size, [chord_size EXCEPT ![g] = 0]}
    BY <1>19 DEF CallBack
  <2>7. parts' \in [Generations -> SUBSET Part] /\ chord_size' \in [Generations -> Nat]
    BY <2>6
  <2> QED
    BY <1>19, <2>5, <2>7 DEF CallBack, Slot
<1>20. ASSUME NEW s \in Slots, AckChild(s) PROVE BaseTypes'
  BY <1>20 DEF AckChild, FreeSlot, Slot
<1>21. ASSUME NEW s \in Slots, ChildOverruns(s) PROVE BaseTypes'
  <2>1. sjob[s] \in Children
    BY <1>21 DEF ChildOverruns, SlotsInv
  <2>2. sjob[s][1] \in Generations /\ sjob[s][2] \in Combos
    BY <2>1 DEF Children
  <2>3. "exception" \in Settled \cup {"unknown", "exception"}
    BY <1>21 DEF ChildOverruns, SlotsInv
  <2>4. parts' \in [Generations -> SUBSET Part]
    BY <1>21, <2>2, <2>3 DEF ChildOverruns, AddPart, Part
  <2> QED
    BY <1>21, <2>4 DEF ChildOverruns, AddPart, Slot
<1>22. ASSUME NEW s \in Slots, ChildLost(s) PROVE BaseTypes'
  <2>1. sjob[s] \in Children
    BY <1>22 DEF ChildLost, SlotsInv
  <2> QED
    BY <1>22, <2>1 DEF ChildLost, FreeSlot, Slot
<1>23. ASSUME NEW m \in callbacks, FinalizeSweep(m) \/ FinalizeFails(m) PROVE BaseTypes'
  <2>1. m.succeeded \in Nat /\ m.failed \in Nat /\ m.generation \in Generations
    BY DEF Callback
  <2>2. Finalized(m) \in Rows
    <3>1. Outcome(m.succeeded, sweep.total) \in SweepStatus
      BY DEF Outcome, SweepStatus, Choices, Final
    <3>2. sweep.finished + 1 \in Nat
      BY DEF Rows
    <3> QED
      BY <2>1, <3>1, <3>2 DEF Finalized, Rows
  <2>3. sweep' \in Rows /\ tallied' \in Nat
    <3>1. CASE FinalizeSweep(m)
      <4>1. sweep' = Finalized(m) \/ sweep' = sweep
        BY <3>1 DEF FinalizeSweep
      <4>2. tallied' = m.generation \/ tallied' = tallied
        BY <3>1 DEF FinalizeSweep
      <4> QED
        BY <2>1, <2>2, <4>1, <4>2, GenerationsAreNumbers
    <3>2. CASE FinalizeFails(m)
      BY <3>2 DEF FinalizeFails
    <3> QED
      BY <1>23, <3>1, <3>2, Zenon
  <2>4. callbacks' \in SUBSET Callback /\ kills' \in 0 .. MaxKills
    BY <1>23 DEF FinalizeSweep, FinalizeFails
  <2> QED
    BY <1>23, <2>3, <2>4 DEF FinalizeSweep, FinalizeFails
<1>24. CASE UNCHANGED vars
  BY <1>24 DEF vars
<1> QED
  BY <1>1, <1>2, <1>3, <1>4, <1>5, <1>6, <1>7, <1>8, <1>9, <1>10, <1>11,
     <1>12, <1>13, <1>14, <1>15, <1>16, <1>17, <1>18, <1>19, <1>20, <1>21,
     <1>22, <1>23, <1>24 DEF Next, Web, Optimize, RunChild

(* A child that has been created stays in the table, deleted or not.         *)
LEMMA ChildStays ==
  ASSUME TypeInv, [Next]_vars, NEW c \in Children, child[c] # "none"
  PROVE  child'[c] # "none"
<1> USE DEF TypeInv, BaseTypes, sweepVars, optVars, childVars, slotVars, chordVars, orchestrationVars,
        executionVars, boundVars, historyVars
<1>1. CASE UNCHANGED child
  BY <1>1
<1>2. ASSUME NEW o \in Orchestrators, Materialize(o) PROVE child'[c] # "none"
  BY <1>2 DEF Materialize, WithChildren
<1>3. ASSUME NEW d \in Children, DestroyChild(d) PROVE child'[c] # "none"
  BY <1>3 DEF DestroyChild
<1>4. ASSUME NEW s \in Slots, NEW d \in Children, StartChild(s, d)
      PROVE  child'[c] # "none"
  BY <1>4 DEF StartChild
<1>5. ASSUME NEW s \in Slots, FinishChild(s) PROVE child'[c] # "none"
  <2>1. PICK outcome \in Settled :
          child' = IF ChildExists(sjob[s]) THEN [child EXCEPT ![sjob[s]] = outcome] ELSE child
    BY <1>5 DEF FinishChild
  <2> QED
    BY <1>5, <2>1 DEF Settled
<1>6. CASE Web
  BY <1>1, <1>6 DEF Web, CreateSweep, CreateSweepUnpublished, RerunSweep,
     DestroySweep, OpenForm, SaveForm
<1>7. ASSUME NEW o \in Orchestrators, Optimize(o) \/ OptimizeFails(o) \/ OptimizeLost(o)
      PROVE  child'[c] # "none"
  BY <1>1, <1>2, <1>7 DEF Optimize, TakeOptimize, OptimizeStops, SizeChord, SendChild,
     OptimizeAck, OptimizeFails, OptimizeLost
<1>8. ASSUME NEW s \in Slots, RunChild(s) \/ ChildOverruns(s) \/ ChildLost(s)
      PROVE  child'[c] # "none"
  BY <1>1, <1>5, <1>8 DEF RunChild, ReturnChild, CallBack, AckChild, ChildOverruns, ChildLost
<1>9. ASSUME NEW m \in callbacks, FinalizeSweep(m) \/ FinalizeFails(m) PROVE child'[c] # "none"
  BY <1>1, <1>9 DEF FinalizeSweep, FinalizeFails
<1>10. CASE UNCHANGED vars
  BY <1>1, <1>10 DEF vars
<1> QED
  BY <1>3, <1>4, <1>6, <1>7, <1>8, <1>9, <1>10 DEF Next

(* A busy slot holds a child; one that returns knows how the execution ended. *)
LEMMA NextSlotsInv == TypeInv /\ [Next]_vars => SlotsInv'
<1> SUFFICES ASSUME TypeInv, [Next]_vars PROVE SlotsInv'
  OBVIOUS
<1>b. BaseTypes' /\ \A c \in Children : child[c] # "none" => child'[c] # "none"
  BY NextBaseTypes, ChildStays
<1> USE DEF TypeInv, BaseTypes, SlotsInv, sweepVars, optVars, childVars, slotVars, chordVars, orchestrationVars,
        executionVars, boundVars, historyVars
<1>1. CASE UNCHANGED slotVars
  BY <1>b, <1>1
<1>2. ASSUME NEW s \in Slots, NEW c \in Children, StartChild(s, c) PROVE SlotsInv'
  <2>1. child[c] # "none"
    BY <1>2 DEF StartChild, GenerationsInv
  <2> QED
    BY <1>b, <1>2, <2>1 DEF StartChild, Slot
<1>3. ASSUME NEW s \in Slots, FinishChild(s) PROVE SlotsInv'
  <2>1. PICK outcome \in Settled : soutcome' = [soutcome EXCEPT ![s] = outcome]
    BY <1>3 DEF FinishChild
  <2> QED
    BY <1>b, <1>3, <2>1 DEF FinishChild, Slot, Settled
<1>4. ASSUME NEW s \in Slots, ReturnChild(s) PROVE SlotsInv'
  BY <1>b, <1>4 DEF ReturnChild, AddPart, Slot
<1>5. ASSUME NEW s \in Slots, CallBack(s) PROVE SlotsInv'
  BY <1>b, <1>5 DEF CallBack, Slot
<1>6. ASSUME NEW s \in Slots, AckChild(s) PROVE SlotsInv'
  BY <1>b, <1>6 DEF AckChild, FreeSlot, Slot
<1>7. ASSUME NEW s \in Slots, ChildOverruns(s) PROVE SlotsInv'
  BY <1>b, <1>7 DEF ChildOverruns, AddPart, Slot
<1>8. ASSUME NEW s \in Slots, ChildLost(s) PROVE SlotsInv'
  BY <1>b, <1>8 DEF ChildLost, FreeSlot, Slot
<1>9. CASE Web
  BY <1>1, <1>9 DEF Web, CreateSweep, CreateSweepUnpublished, RerunSweep,
     DestroySweep, OpenForm, SaveForm
<1>10. ASSUME NEW o \in Orchestrators, Optimize(o) \/ OptimizeFails(o) \/ OptimizeLost(o)
       PROVE  SlotsInv'
  BY <1>1, <1>10 DEF Optimize, TakeOptimize, OptimizeStops, Materialize, SizeChord,
     SendChild, OptimizeAck, OptimizeFails, OptimizeLost
<1>11. ASSUME NEW c \in Children, DestroyChild(c) PROVE SlotsInv'
  BY <1>1, <1>11 DEF DestroyChild
<1>12. ASSUME NEW m \in callbacks, FinalizeSweep(m) \/ FinalizeFails(m) PROVE SlotsInv'
  BY <1>1, <1>12 DEF FinalizeSweep, FinalizeFails
<1>13. CASE UNCHANGED vars
  BY <1>1, <1>13 DEF vars
<1> QED
  BY <1>2, <1>3, <1>4, <1>5, <1>6, <1>7, <1>8, <1>9, <1>10, <1>11, <1>12, <1>13
     DEF Next, RunChild

(* The combinations an optimizer still has to send are children.             *)
LEMMA SendablesStay ==
  ASSUME TypeInv, [Next]_vars, NEW o \in Orchestrators, opc[o] = "dispatch",
         NEW k \in to_send[o]
  PROVE  <<ogen[o], k>> \in Children /\ child'[<<ogen[o], k>>] # "none"
<1>1. <<ogen[o], k>> \in Children /\ child[<<ogen[o], k>>] # "none"
  BY DEF TypeInv, BaseTypes, GenerationsInv, Children
<1> QED
  BY <1>1, ChildStays

(* What the messages, the chords and the optimizers name is not ahead of the *)
(* generations created so far.                                               *)
LEMMA NextGenerationsInv == TypeInv /\ [Next]_vars => GenerationsInv'
<1> SUFFICES ASSUME TypeInv, [Next]_vars PROVE GenerationsInv'
  OBVIOUS
<1>b. BaseTypes' /\ \A c \in Children : child[c] # "none" => child'[c] # "none"
  BY NextBaseTypes, ChildStays
<1> USE DEF TypeInv, BaseTypes, GenerationsInv, sweepVars, optVars, childVars, slotVars, chordVars, orchestrationVars,
        executionVars, boundVars, historyVars
<1>1. CASE CreateSweep
  BY <1>1 DEF CreateSweep, PublishOptimize, NewRow
<1>2. CASE CreateSweepUnpublished
  BY <1>2 DEF CreateSweepUnpublished, NewRow
<1>3. CASE RerunSweep
  BY <1>3 DEF RerunSweep, PublishOptimize
<1>4. CASE DestroySweep
  BY <1>4 DEF DestroySweep, NewRow
<1>5. CASE OpenForm
  BY <1>5 DEF OpenForm
<1>6. CASE SaveForm
  BY <1>6 DEF SaveForm
<1>7. ASSUME NEW c \in Children, DestroyChild(c) PROVE GenerationsInv'
  BY <1>7, <1>b DEF DestroyChild, ChildExists
<1>8. ASSUME NEW o \in Orchestrators, TakeOptimize(o) PROVE GenerationsInv'
  BY <1>8 DEF TakeOptimize, Optimizer
<1>9. ASSUME NEW o \in Orchestrators, OptimizeStops(o) PROVE GenerationsInv'
  BY <1>9 DEF OptimizeStops, Optimizer
<1>10. ASSUME NEW o \in Orchestrators, Materialize(o) PROVE GenerationsInv'
  <2>1. generation + 1 \in Generations
    BY <1>10, RoomForOne DEF Materialize
  <2>2. \A c \in Children : child'[c] # "none" => c[1] =< generation'
    BY <1>10, ChildIsPair DEF Materialize, WithChildren
  <2>3. \A k \in to_send[o] : child'[<<generation + 1, k>>] # "none"
    BY <1>10, <2>1 DEF Materialize, WithChildren, Children
  <2>4. \A c \in ready' : child'[c] # "none"
    BY <1>10, <1>b DEF Materialize
  <2>5. \A oo \in Orchestrators : opc'[oo] = "dispatch" =>
          /\ ogen'[oo] \in Generations /\ ogen'[oo] =< generation'
          /\ \A k \in to_send'[oo] : child'[<<ogen'[oo], k>>] # "none"
    <3> SUFFICES ASSUME NEW oo \in Orchestrators, opc'[oo] = "dispatch"
                 PROVE  /\ ogen'[oo] \in Generations /\ ogen'[oo] =< generation'
                        /\ \A k \in to_send'[oo] : child'[<<ogen'[oo], k>>] # "none"
      OBVIOUS
    <3>1. CASE oo = o
      BY <1>10, <2>1, <2>3, <3>1 DEF Materialize
    <3>2. CASE oo # o
      <4>1. /\ opc[oo] = "dispatch" /\ ogen'[oo] = ogen[oo] /\ to_send'[oo] = to_send[oo]
            /\ generation' = generation + 1
        BY <1>10, <3>2 DEF Materialize, Optimizer
      <4>2. \A k \in to_send[oo] : child'[<<ogen[oo], k>>] # "none"
        BY <4>1, SendablesStay
      <4>3. ogen[oo] \in Generations /\ ogen[oo] =< generation
        BY <4>1
      <4>4. \A k \in to_send'[oo] : child'[<<ogen'[oo], k>>] # "none"
        BY <4>1, <4>2, Zenon
      <4>5. ogen[oo] \in Nat /\ generation \in Nat
        BY <4>3, GenerationsAreNumbers
      <4>6. ogen[oo] =< generation + 1
        BY <4>3, <4>5
      <4>7. ogen'[oo] \in Generations /\ ogen'[oo] =< generation'
        BY <4>1, <4>3, <4>6, Zenon
      <4> QED
        BY <4>4, <4>7
    <3> QED
      BY <3>1, <3>2
  <2>6. \A g \in Generations :
          IsFiniteSet(parts'[g]) /\ (g > generation' => parts'[g] = {} /\ chord_size'[g] = 0)
    BY <1>10, GenerationsAreNumbers DEF Materialize
  <2>7. (\A m \in callbacks' : m.generation =< generation') /\ tallied' =< generation'
    BY <1>10, GenerationsAreNumbers DEF Materialize, Callback
  <2> QED
    BY <2>2, <2>4, <2>5, <2>6, <2>7
<1>11. ASSUME NEW o \in Orchestrators, SizeChord(o) PROVE GenerationsInv'
  <2>1. ogen[o] \in Generations /\ ogen[o] =< generation
    BY <1>11 DEF SizeChord
  <2> QED
    BY <1>11, <1>b, <2>1, GenerationsAreNumbers DEF SizeChord
<1>12. ASSUME NEW o \in Orchestrators, SendChild(o) PROVE GenerationsInv'
  <2>1. PICK k \in to_send[o] : /\ ready' = ready \cup {<<ogen[o], k>>}
                              /\ to_send' = [to_send EXCEPT ![o] = @ \ {k}]
    BY <1>12 DEF SendChild
  <2>2. \A c \in ready' : child'[c] # "none"
    BY <1>12, <2>1 DEF SendChild
  <2>3. \A oo \in Orchestrators : /\ opc'[oo] = "dispatch" => opc[oo] = "dispatch"
                                 /\ to_send'[oo] \subseteq to_send[oo]
    BY <1>12, <2>1 DEF SendChild, Optimizer
  <2> QED
    BY <1>12, <2>2, <2>3 DEF SendChild
<1>13. ASSUME NEW o \in Orchestrators, OptimizeFails(o) PROVE GenerationsInv'
  BY <1>13 DEF OptimizeFails, Optimizer
<1>14. ASSUME NEW o \in Orchestrators, OptimizeAck(o) PROVE GenerationsInv'
  BY <1>14 DEF OptimizeAck, Optimizer
<1>15. ASSUME NEW o \in Orchestrators, OptimizeLost(o) PROVE GenerationsInv'
  BY <1>15 DEF OptimizeLost, Optimizer
<1>16. ASSUME NEW s \in Slots, NEW c \in Children, StartChild(s, c) PROVE GenerationsInv'
  <2>1. child[c] # "none"
    BY <1>16 DEF StartChild
  <2>2. \A d \in Children : child'[d] # "none" => d[1] =< generation
    BY <1>16, <2>1 DEF StartChild
  <2>3. \A d \in ready' : child'[d] # "none"
    BY <1>16, <1>b DEF StartChild
  <2> QED
    BY <1>16, <1>b, <2>2, <2>3, SendablesStay DEF StartChild
<1>17. ASSUME NEW s \in Slots, FinishChild(s) PROVE GenerationsInv'
  <2>1. sjob[s] \in Children /\ child[sjob[s]] # "none"
    BY <1>17 DEF FinishChild, SlotsInv
  <2>2. \A c \in Children : c # sjob[s] => child'[c] = child[c]
    BY <1>17 DEF FinishChild
  <2>3. \A c \in Children : child'[c] # "none" => c[1] =< generation
    BY <2>1, <2>2
  <2> QED
    BY <1>17, <1>b, <2>3, SendablesStay DEF FinishChild
<1>18. ASSUME NEW s \in Slots, ReturnChild(s) PROVE GenerationsInv'
  <2>1. sjob[s] \in Children /\ child[sjob[s]] # "none"
    BY <1>18 DEF ReturnChild, SlotsInv
  <2>2. sjob[s][1] \in Generations /\ sjob[s][1] =< generation
    BY <2>1 DEF Children
  <2>3. PICK p : parts' = [parts EXCEPT ![sjob[s][1]] = @ \cup {p}]
    BY <1>18 DEF ReturnChild, AddPart
  <2>4. \A g \in Generations : IsFiniteSet(parts'[g])
    BY <2>2, <2>3, FS_AddElement
  <2>5. \A g \in Generations : g > generation => parts'[g] = {}
    BY <2>2, <2>3, GenerationsAreNumbers
  <2> QED
    BY <1>18, <2>4, <2>5 DEF ReturnChild, AddPart
<1>19. ASSUME NEW s \in Slots, CallBack(s) PROVE GenerationsInv'
  <2>1. sjob[s] \in Children /\ child[sjob[s]] # "none"
    BY <1>19 DEF CallBack, SlotsInv
  <2>2. sjob[s][1] \in Generations /\ sjob[s][1] =< generation
    BY <2>1 DEF Children
  <2>3. parts' \in {parts, [parts EXCEPT ![sjob[s][1]] = {}]}
        /\ chord_size' \in {chord_size, [chord_size EXCEPT ![sjob[s][1]] = 0]}
    BY <1>19 DEF CallBack
  <2>4. \A m \in callbacks' : m \in callbacks \/ m.generation = sjob[s][1]
    BY <1>19 DEF CallBack
  <2>5. \A g \in Generations : parts'[g] \in {parts[g], {}} /\ chord_size'[g] \in {chord_size[g], 0}
    BY <2>2, <2>3
  <2>6. \A g \in Generations : IsFiniteSet(parts'[g])
    BY <2>5, FS_EmptySet
  <2>7. \A g \in Generations : g > generation => parts'[g] = {} /\ chord_size'[g] = 0
    BY <2>5
  <2>8. \A m \in callbacks' : m.generation =< generation
    BY <2>2, <2>4
  <2> QED
    BY <1>19, <2>6, <2>7, <2>8 DEF CallBack
<1>20. ASSUME NEW s \in Slots, AckChild(s) PROVE GenerationsInv'
  BY <1>20 DEF AckChild, FreeSlot, Slot
<1>21. ASSUME NEW s \in Slots, ChildOverruns(s) PROVE GenerationsInv'
  <2>1. sjob[s] \in Children /\ child[sjob[s]] # "none"
    BY <1>21 DEF ChildOverruns, SlotsInv
  <2>2. sjob[s][1] \in Generations /\ sjob[s][1] =< generation
    BY <2>1 DEF Children
  <2>3. PICK p : parts' = [parts EXCEPT ![sjob[s][1]] = @ \cup {p}]
    BY <1>21 DEF ChildOverruns, AddPart
  <2>4. \A g \in Generations : IsFiniteSet(parts'[g])
    BY <2>2, <2>3, FS_AddElement
  <2>5. \A g \in Generations : g > generation => parts'[g] = {}
    BY <2>2, <2>3, GenerationsAreNumbers
  <2> QED
    BY <1>21, <2>4, <2>5 DEF ChildOverruns, AddPart
<1>22. ASSUME NEW s \in Slots, ChildLost(s) PROVE GenerationsInv'
  <2>1. sjob[s] \in Children /\ child[sjob[s]] # "none"
    BY <1>22 DEF ChildLost, SlotsInv
  <2> QED
    BY <1>22, <2>1 DEF ChildLost
<1>23. ASSUME NEW m \in callbacks, FinalizeSweep(m) \/ FinalizeFails(m) PROVE GenerationsInv'
  <2>1. tallied' =< generation
    BY <1>23 DEF FinalizeSweep, FinalizeFails
  <2> QED
    BY <1>23, <2>1 DEF FinalizeSweep, FinalizeFails
<1>24. CASE UNCHANGED vars
  BY <1>24 DEF vars
<1> QED
  BY <1>1, <1>2, <1>3, <1>4, <1>5, <1>6, <1>7, <1>8, <1>9, <1>10, <1>11,
     <1>12, <1>13, <1>14, <1>15, <1>16, <1>17, <1>18, <1>19, <1>20, <1>21,
     <1>22, <1>23, <1>24 DEF Next, Web, Optimize, RunChild

LEMMA NextTypeInv == TypeInv /\ [Next]_vars => TypeInv'
  BY NextBudgetInv, NextBaseTypes, NextSlotsInv, NextGenerationsInv DEF TypeInv

LEMMA SpecTypeInv == Spec => []TypeInv
  BY InitTypeInv, NextTypeInv, PTL DEF Spec

(* TypeOK: every variable of the sweep keeps its type, and nothing refers to a *)
(* generation or a child that optimize has not created, however often the   *)
(* sweep is re-queued and its messages are delivered again.                  *)
THEOREM SweepTypeCorrect == Spec => []TypeOK
<1>1. TypeInv => TypeOK
  <2> SUFFICES ASSUME TypeInv PROVE TypeOK
    OBVIOUS
  <2>0. {sweep, form} \subseteq [status : SweepStatus, total : Nat, succeeded : Nat,
                               failed : Nat, finished : Nat]
    BY DEF TypeInv, BaseTypes, Rows
  <2>1. generation \in {0} \cup Generations
    BY GenerationInRange
  <2>2. \A c \in ready : c[1] \in 1 .. generation /\ c \in ChildrenOf(c[1])
    BY ChildIsPair DEF TypeInv, BaseTypes, GenerationsInv, ChildrenOf
  <2>3. ready \in SUBSET (UNION {ChildrenOf(g) : g \in 1 .. generation})
    BY <2>2
  <2>4. tallied \in 0 .. generation
    BY DEF TypeInv, BaseTypes, GenerationsInv
  <2> QED
    BY <2>0, <2>1, <2>3, <2>4 DEF TypeInv, BaseTypes, TypeOK
<1> QED
  BY <1>1, SpecTypeInv, PTL

-----------------------------------------------------------------------------
(* The children of a sweep live by the contract of run_backtest.             *)

queue  == [c \in Children |-> IF c \in ready THEN 1 ELSE 0]
phase  == [s \in Slots |-> PhaseOf(spc[s])]

(* No variable of the contract changes.                                      *)
Untouched == UNCHANGED <<child, queue, phase, sjob>>

LEMMA StutterChild == Untouched => UNCHANGED Child!vars
  BY DEF Untouched, Child!vars, queue, phase

(* A slot that moves to a label moves its phase to that of the label.        *)
LEMMA SlotPhase ==
  ASSUME TypeInv, NEW s \in Slots, NEW label, Slot(s, label)
  PROVE  phase' = [phase EXCEPT ![s] = PhaseOf(label)]
  BY DEF TypeInv, BaseTypes, Slot, phase

LEMMA InitChild == Init => Child!Init
  BY DEF Init, Child!Init, PhaseOf

(* optimize submits children: as rows first, then as messages.               *)
LEMMA MaterializeSubmits ==
  ASSUME TypeInv, NEW o \in Orchestrators, Materialize(o)
  PROVE  Child!Submit
<1>1. \A c \in Children : c[1] = generation + 1 => child[c] = "none"
  BY ChildIsPair DEF TypeInv, BaseTypes, GenerationsInv
<1>2. child' = [c \in Children |-> IF child[c] = "none" /\ child'[c] # "none"
                                  THEN "pending" ELSE child[c]]
  BY <1>1 DEF Materialize, WithChildren
<1>3. UNCHANGED <<queue, phase, sjob>>
  BY DEF Materialize, slotVars, queue, phase
<1>4. queue' = [c \in Children |-> IF queue'[c] = queue[c] THEN queue[c] ELSE queue[c] + 1]
  BY <1>3 DEF queue
<1> QED
  BY <1>2, <1>3, <1>4 DEF Child!Submit, queue, phase

LEMMA SendChildSubmits ==
  ASSUME TypeInv, NEW o \in Orchestrators, SendChild(o)
  PROVE  Child!Submit
<1>1. PICK k \in to_send[o] : ready' = ready \cup {<<ogen[o], k>>}
  BY DEF SendChild
<1>2. UNCHANGED <<child, phase, sjob>>
  BY DEF SendChild, slotVars, phase
<1>3. child' = [c \in Children |-> IF child[c] = "none" /\ child'[c] # "none"
                                  THEN "pending" ELSE child[c]]
  BY <1>2 DEF TypeInv, BaseTypes
<1>4. queue' = [c \in Children |-> IF queue'[c] = queue[c] THEN queue[c] ELSE queue[c] + 1]
  BY <1>1 DEF queue
<1> QED
  BY <1>2, <1>3, <1>4 DEF Child!Submit, queue, phase

(* A slot takes a child and marks its row, or finds that it has none.        *)
LEMMA StartChildStarts ==
  ASSUME TypeInv, NEW s \in Slots, NEW c \in Children, StartChild(s, c)
  PROVE  Child!Start(s, c)
<1>1. phase[s] = "idle" /\ c \in ready /\ ready' = ready \ {c}
  BY DEF StartChild, phase, PhaseOf
<1>c. queue[c] > 0 /\ queue' = [queue EXCEPT ![c] = @ - 1]
  <2>1. queue[c] = 1
    BY <1>1 DEF queue
  <2>2. queue' = [queue EXCEPT ![c] = 0]
    BY <1>1 DEF queue
  <2> HIDE DEF queue
  <2> QED
    BY <2>1, <2>2
<1>2. sjob' = [sjob EXCEPT ![s] = c]
  BY DEF StartChild
<1>3. CASE ChildExists(c)
  <2>1. phase' = [phase EXCEPT ![s] = "execute"]
    BY <1>3, SlotPhase DEF StartChild, PhaseOf
  <2> QED
    BY <1>1, <1>c, <1>2, <1>3, <2>1 DEF StartChild, ChildExists, Child!Start, Child!Consume,
       Child!SetStatus, Child!Exists, Child!Hold, queue, phase
<1>4. CASE ~ ChildExists(c)
  <2>1. phase' = [phase EXCEPT ![s] = "finished"]
    BY <1>4, SlotPhase DEF StartChild, PhaseOf
  <2> QED
    BY <1>1, <1>c, <1>2, <1>4, <2>1 DEF StartChild, ChildExists, Child!Start, Child!Consume,
       Child!SetStatus, Child!Exists, Child!Hold, queue, phase
<1> QED
  BY <1>3, <1>4

(* The outcome is written as the execution ends.                             *)
LEMMA FinishChildFinishes ==
  ASSUME TypeInv, NEW s \in Slots, FinishChild(s)
  PROVE  Child!Finish(s)
<1>1. PICK outcome \in Settled :
        child' = IF ChildExists(sjob[s]) THEN [child EXCEPT ![sjob[s]] = outcome] ELSE child
  BY DEF FinishChild
<1>2. phase[s] = "execute" /\ phase' = [phase EXCEPT ![s] = "finished"]
  BY SlotPhase DEF FinishChild, PhaseOf, phase
<1>3. UNCHANGED <<queue, sjob>> /\ sjob' = [sjob EXCEPT ![s] = sjob[s]]
  BY DEF FinishChild, queue, TypeInv, BaseTypes
<1> QED
  BY <1>1, <1>2, <1>3 DEF Settled, ChildExists, Child!Finish, Child!SetStatus,
     Child!Exists, Child!Hold, queue, phase

(* The return of a result and the callback are no business of the contract.  *)
LEMMA ChordStutters ==
  ASSUME TypeInv, NEW s \in Slots, ReturnChild(s) \/ CallBack(s)
  PROVE  Untouched
<1>1. UNCHANGED <<child, queue, sjob>>
  BY DEF ReturnChild, CallBack, childVars, queue
<1>2. PICK label \in {"call_back", "ack"} : Slot(s, label)
  BY DEF ReturnChild, CallBack, AddPart
<1>3. PhaseOf(label) = PhaseOf(spc[s])
  BY DEF ReturnChild, CallBack, PhaseOf
<1>4. phase' = phase
  BY <1>2, <1>3 DEF TypeInv, BaseTypes, Slot, phase
<1> QED
  BY <1>1, <1>4 DEF Untouched

(* A slot leaves its child when it has finished, or its hard limit has.      *)
LEMMA LeavesChild ==
  ASSUME TypeInv, NEW s \in Slots, ChildOverruns(s) \/ AckChild(s)
  PROVE  Child!Leave(s)
<1>1. CASE ChildOverruns(s)
  <2>1. PICK label \in {"call_back", "ack"} : Slot(s, label)
    BY <1>1 DEF ChildOverruns, AddPart
  <2>2. phase[s] = "execute" /\ phase' = [phase EXCEPT ![s] = "finished"]
    BY <1>1, <2>1, SlotPhase DEF ChildOverruns, PhaseOf, phase
  <2>3. UNCHANGED <<child, queue>> /\ sjob' = [sjob EXCEPT ![s] = sjob[s]]
    BY <1>1 DEF ChildOverruns, childVars, queue, TypeInv, BaseTypes
  <2> QED
    BY <2>2, <2>3 DEF Child!Leave, Child!Hold, queue, phase
<1>2. CASE AckChild(s)
  <2>1. phase[s] # "idle" /\ phase' = [phase EXCEPT ![s] = "idle"]
    BY <1>2, SlotPhase DEF AckChild, FreeSlot, PhaseOf, phase
  <2>2. UNCHANGED <<child, queue>> /\ sjob' = [sjob EXCEPT ![s] = <<>>]
    BY <1>2 DEF AckChild, FreeSlot, childVars, queue
  <2> QED
    BY <2>1, <2>2 DEF Child!Leave, Child!Hold, queue, phase
<1> QED
  BY <1>1, <1>2

(* A lost child is ready again; there is one message for it, even when it    *)
(* was there already.                                                        *)
LEMMA LostChild ==
  ASSUME TypeInv, NEW s \in Slots, ChildLost(s)
  PROVE  Child!Redeliver(s) \/ Child!Leave(s)
<1>1. phase[s] # "idle" /\ phase' = [phase EXCEPT ![s] = "idle"]
  BY SlotPhase DEF ChildLost, FreeSlot, PhaseOf, phase, TypeInv, BaseTypes
<1>2. UNCHANGED child /\ sjob' = [sjob EXCEPT ![s] = <<>>] /\ sjob[s] \in Children
  BY DEF ChildLost, FreeSlot, TypeInv, SlotsInv
<1>3. CASE sjob[s] \in ready
  <2>1. UNCHANGED queue
    BY <1>3 DEF ChildLost, queue
  <2> QED
    BY <1>1, <1>2, <2>1 DEF Child!Leave, Child!Hold, queue, phase
<1>4. CASE sjob[s] \notin ready
  <2>1. queue' = [queue EXCEPT ![sjob[s]] = @ + 1]
    BY <1>2, <1>4 DEF ChildLost, queue
  <2> QED
    BY <1>1, <1>2, <2>1 DEF Child!Redeliver, Child!Hold, queue, phase
<1> QED
  BY <1>3, <1>4

LEMMA DestroyChildDestroys ==
  ASSUME NEW c \in Children, DestroyChild(c)
  PROVE  Child!Destroy(c)
  BY DEF DestroyChild, ChildExists, slotVars, Child!Destroy, Child!Exists

LEMMA NextChild == TypeInv /\ [Next]_vars => [Child!Next]_(Child!vars)
<1> SUFFICES ASSUME TypeInv, [Next]_vars PROVE [Child!Next]_(Child!vars)
  OBVIOUS
<1> USE DEF Child!Next
<1>1. ASSUME UNCHANGED <<childVars, slotVars>> PROVE UNCHANGED Child!vars
  BY <1>1, StutterChild DEF childVars, slotVars, Untouched, queue, phase
<1>2. CASE Web \/ UNCHANGED vars
  BY <1>1, <1>2 DEF Web, CreateSweep, CreateSweepUnpublished, RerunSweep, DestroySweep,
     OpenForm, SaveForm, vars, executionVars
<1>3. ASSUME NEW o \in Orchestrators, Optimize(o) \/ OptimizeFails(o) \/ OptimizeLost(o)
      PROVE  [Child!Next]_(Child!vars)
  BY <1>1, <1>3, MaterializeSubmits, SendChildSubmits DEF Optimize, TakeOptimize,
     OptimizeStops, SizeChord, OptimizeAck, OptimizeFails, OptimizeLost, executionVars
<1>4. ASSUME NEW s \in Slots, RunChild(s) \/ ChildOverruns(s) \/ ChildLost(s)
      PROVE  [Child!Next]_(Child!vars)
  BY <1>4, FinishChildFinishes, ChordStutters, StutterChild, LeavesChild, LostChild
     DEF RunChild
<1>5. ASSUME NEW m \in callbacks, FinalizeSweep(m) \/ FinalizeFails(m) PROVE UNCHANGED Child!vars
  BY <1>1, <1>5 DEF FinalizeSweep, FinalizeFails
<1> QED
  BY <1>2, <1>3, <1>4, <1>5, DestroyChildDestroys, StartChildStarts DEF Next

(* ChildrenUnderContract: whatever happens to the sweep, its chord and its    *)
(* workers, a child is created, queued, executed and settled exactly as the *)
(* contract of run_backtest allows, and no re-run resets or restarts it.     *)
THEOREM SweepKeepsContract == Spec => ChildrenUnderContract
  BY InitChild, NextChild, SpecTypeInv, PTL DEF Spec, ChildrenUnderContract, Child!Spec
=============================================================================
