-------------------------- MODULE SweepsTallyProofs --------------------------
(***************************************************************************)
(* The row of a finished sweep counts its children, and a waiting one has   *)
(* something under way: proofs of TallyMatches, CallbacksIdempotent and    *)
(* SweepUnderWay.  The argument follows one child from the message that    *)
(* optimize sends to the result in the chord's set, where it is once, and  *)
(* the chord from its last result to the row.                              *)
(***************************************************************************)
EXTENDS SweepsProofs

(* Where a child is that has not returned.                                  *)
Unsent(c)   == \E o \in Orchestrators :
                 opc[o] = "dispatch" /\ ogen[o] = c[1] /\ c[2] \in to_send[o]
Held(c)     == \E s \in Slots : sjob[s] = c
Running(c)  == \E s \in Slots : sjob[s] = c /\ spc[s] \in {"execute", "return"}
Open(c)     == Unsent(c) \/ c \in ready \/ Running(c)

(* Its result is in the chord's set; its generation has been tallied, or is  *)
(* about to be.                                                             *)
Returned(c) == \E p \in parts[c[1]] : p.combo = c[2]
Over(g)     == tallied = g \/ \E m \in callbacks : m.generation = g

CallsBack(s, g) == spc[s] = "call_back" /\ sjob[s][1] = g

(* One slot of optimize dispatches a generation, and has something to send;  *)
(* the chord's size, once there is one, is the number of children.          *)
DispatchInv ==
  /\ \A o \in Orchestrators : opc[o] = "dispatch" => to_send[o] # {}
  /\ \A o, oo \in Orchestrators :
       opc[o] = "dispatch" /\ opc[oo] = "dispatch" /\ ogen[o] = ogen[oo] => o = oo
  /\ \A g \in Generations : chord_size[g] # 0 => chord_size[g] = Cardinality(ChildrenOf(g))

(* A child is in one place at a time, and has not returned before that place *)
(* is behind it.                                                            *)
Placed(c) ==
  /\ Open(c) => ~ Returned(c) /\ ~ Over(c[1])
  /\ Unsent(c) => c \notin ready
  /\ Unsent(c) \/ c \in ready => ~ Held(c)
  /\ \A s, t \in Slots : sjob[s] = c /\ sjob[t] = c => s = t

PlaceInv == \A c \in Children : c[1] \notin doubled => Placed(c)

(* A chord holds one result of each child, and one slot calls back for it,   *)
(* once and when it holds all of them.                                      *)
Chorded(g) ==
  /\ \A p, q \in parts[g] : p.combo = q.combo => p = q
  /\ \A p \in parts[g] : child[<<g, p.combo>>] # "none"
  /\ \A s \in Slots : CallsBack(s, g) =>
       /\ ~ Over(g)
       /\ \A c \in ChildrenOf(g) : Returned(c)
       /\ \A t \in Slots : CallsBack(t, g) => t = s

ChordInv == \A g \in Generations \ doubled : Chorded(g)

(* The result of a child is what its row says, unless that was deleted.      *)
Accounted(c) ==
  /\ \A p \in parts[c[1]] : p.combo = c[2] /\ p.status # "exception"
                             => child[c] \in {p.status, "deleted"}
  /\ \A s \in Slots : sjob[s] = c /\ spc[s] = "return"
                         => child[c] \in {soutcome[s], "deleted"}
  /\ Over(c[1]) /\ child[c] # "none" => child[c] \in Settled \cup {"deleted"}

OutcomeInv == \A c \in Children : c[1] \notin doubled => Accounted(c)

Having(g, s)   == {c \in ChildrenOf(g) : child[c] = s}
NoneDeleted(g) == Having(g, "deleted") = {}

(* The callback carries the counts of the children, and is the only one.     *)
Counted(g) ==
  /\ \A m, n \in callbacks : m.generation = g /\ n.generation = g => m = n
  /\ \A m \in callbacks : m.generation = g /\ NoneDeleted(g) =>
       /\ m.succeeded = Cardinality(Having(g, "succeeded"))
       /\ m.failed = Cardinality(Having(g, "failed"))

CountInv == \A g \in Generations \ doubled : Counted(g)

(* The row has the total of the latest generation and the counts of the one  *)
(* that was tallied.                                                        *)
RowInv ==
  /\ sweep.status = "none" => generation = 0
  /\ form = NoForm \/ form.status \notin {"none", "deleted"}
  /\ ~ overwritten /\ generation > 0 /\ SweepExists =>
       sweep.total = Cardinality(ChildrenOf(generation))
  /\ ~ overwritten /\ sweep.status \in Final =>
       /\ tallied # 0
       /\ sweep.status = Outcome(sweep.succeeded, sweep.total)
       /\ tallied \notin doubled =>
            /\ NoneDeleted(tallied) =>
                 /\ sweep.succeeded = Cardinality(Having(tallied, "succeeded"))
                 /\ sweep.failed = Cardinality(Having(tallied, "failed"))
            /\ \A m \in callbacks : m.generation = tallied =>
                 m.succeeded = sweep.succeeded /\ m.failed = sweep.failed

TallyInv ==
  TypeInv /\ DispatchInv /\ PlaceInv /\ ChordInv /\ OutcomeInv /\ CountInv /\ RowInv

-----------------------------------------------------------------------------
(* At first there is nothing to count.                                       *)
LEMMA InitTallyInv == Init => TallyInv
<1> SUFFICES ASSUME Init PROVE TallyInv
  OBVIOUS
<1>1. TypeInv
  BY InitTypeInv
<1>2. DispatchInv /\ PlaceInv
  BY ChildIsPair DEF Init, DispatchInv, PlaceInv, Placed, Open, Unsent, Held, Running, Over, Children
<1>3. ChordInv
  BY DEF Init, ChordInv, Chorded, CallsBack
<1>4. OutcomeInv
  BY ChildIsPair DEF Init, OutcomeInv, Accounted, Over
<1>5. CountInv /\ RowInv
  BY DEF Init, CountInv, Counted, RowInv, NoForm, NewRow, Final
<1> QED
  BY <1>1, <1>2, <1>3, <1>4, <1>5 DEF TallyInv

(* A generation that is dispatched has been created.                         *)
LEMMA DispatchedEarlier ==
  ASSUME TypeInv, NEW o \in Orchestrators, opc[o] = "dispatch"
  PROVE  ogen[o] \in Generations /\ ogen[o] =< generation /\ ogen[o] # generation + 1
<1>1. ogen[o] \in Generations /\ ogen[o] =< generation /\ generation \in Nat
  BY DEF TypeInv, BaseTypes, GenerationsInv
<1>2. ogen[o] \in Nat
  BY <1>1, GenerationsAreNumbers
<1> QED
  BY <1>1, <1>2

(* A generation has the children it was created with.                        *)
LEMMA ChildrenSame ==
  ASSUME TypeInv, [Next]_vars, NEW g \in Generations, g =< generation
  PROVE  ChildrenOf(g)' = ChildrenOf(g)
<1>1. ASSUME NEW c \in Children, c[1] = g, child[c] = "none"
      PROVE  child'[c] = "none"
  <2> USE DEF TypeInv, BaseTypes, sweepVars, optVars, childVars, slotVars, chordVars, orchestrationVars,
        executionVars, boundVars, historyVars
  <2>1. CASE UNCHANGED child
    BY <1>1, <2>1
  <2>2. ASSUME NEW o \in Orchestrators, Materialize(o) PROVE child'[c] = "none"
    <3>1. c[1] # generation + 1
      BY <1>1, GenerationsAreNumbers
    <3> QED
      BY <1>1, <2>2, <3>1 DEF Materialize, WithChildren
  <2>3. ASSUME NEW d \in Children, DestroyChild(d) PROVE child'[c] = "none"
    BY <1>1, <2>3 DEF DestroyChild, ChildExists
  <2>4. ASSUME NEW s \in Slots, NEW d \in Children, StartChild(s, d)
        PROVE  child'[c] = "none"
    BY <1>1, <2>4 DEF StartChild, ChildExists
  <2>5. ASSUME NEW s \in Slots, FinishChild(s) PROVE child'[c] = "none"
    <3>1. PICK outcome \in Settled :
            child' = IF ChildExists(sjob[s]) THEN [child EXCEPT ![sjob[s]] = outcome] ELSE child
      BY <2>5 DEF FinishChild
    <3> QED
      BY <1>1, <3>1 DEF ChildExists
  <2>6. CASE Web
    BY <2>1, <2>6 DEF Web, CreateSweep, CreateSweepUnpublished, RerunSweep,
       DestroySweep, OpenForm, SaveForm
  <2>7. ASSUME NEW o \in Orchestrators, Optimize(o) \/ OptimizeFails(o) \/ OptimizeLost(o)
        PROVE  child'[c] = "none"
    BY <2>1, <2>2, <2>7 DEF Optimize, TakeOptimize, OptimizeStops, SizeChord, SendChild,
       OptimizeAck, OptimizeFails, OptimizeLost
  <2>8. ASSUME NEW s \in Slots, RunChild(s) \/ ChildOverruns(s) \/ ChildLost(s)
        PROVE  child'[c] = "none"
    BY <2>1, <2>5, <2>8 DEF RunChild, ReturnChild, CallBack, AckChild, ChildOverruns, ChildLost
  <2>9. ASSUME NEW m \in callbacks, FinalizeSweep(m) \/ FinalizeFails(m) PROVE child'[c] = "none"
    BY <2>1, <2>9 DEF FinalizeSweep, FinalizeFails
  <2>10. CASE UNCHANGED vars
    BY <2>1, <2>10 DEF vars
  <2> QED
    BY <2>3, <2>4, <2>6, <2>7, <2>8, <2>9, <2>10 DEF Next
<1>2. \A c \in Children : child[c] # "none" => child'[c] # "none"
  BY ChildStays
<1> QED
  BY <1>1, <1>2 DEF ChildrenOf

(* The size of a chord is that of its generation, from when it is known.      *)
LEMMA ChordSizes ==
  ASSUME TypeInv, DispatchInv, [Next]_vars, NEW g \in Generations, chord_size'[g] # 0
  PROVE  chord_size'[g] = Cardinality(ChildrenOf(g)')
<1> DEFINE Sized == chord_size'[g] = Cardinality(ChildrenOf(g)) /\ g =< generation
           Kept == chord_size'[g] = chord_size[g] \/ chord_size'[g] = 0
<1>1. Kept \/ Sized
  <2> USE DEF TypeInv, BaseTypes, sweepVars, optVars, childVars, slotVars, chordVars, orchestrationVars,
        executionVars, boundVars, historyVars
  <2>1. CASE UNCHANGED chord_size
    BY <2>1
  <2>2. ASSUME NEW o \in Orchestrators, SizeChord(o)
        PROVE  Kept \/ Sized
    <3>1. ogen[o] \in Generations /\ ogen[o] =< generation
      BY <2>2, DispatchedEarlier DEF SizeChord
    <3>2. chord_size' = [chord_size EXCEPT ![ogen[o]] = Cardinality(ChildrenOf(ogen[o]))]
      BY <2>2 DEF SizeChord
    <3>3. CASE g = ogen[o]
      BY <3>1, <3>2, <3>3
    <3>4. CASE g # ogen[o]
      BY <3>1, <3>2, <3>4
    <3> QED
      BY <3>3, <3>4
  <2>3. ASSUME NEW s \in Slots, CallBack(s) PROVE Kept \/ Sized
    <3>1. sjob[s][1] \in Generations
      BY <2>3, ChildIsPair DEF CallBack, SlotsInv
    <3>2. chord_size' \in {chord_size, [chord_size EXCEPT ![sjob[s][1]] = 0]}
      BY <2>3 DEF CallBack
    <3> QED
      BY <3>1, <3>2
  <2>4. CASE Web
    BY <2>1, <2>4 DEF Web, CreateSweep, CreateSweepUnpublished, RerunSweep,
       DestroySweep, OpenForm, SaveForm
  <2>5. ASSUME NEW o \in Orchestrators, Optimize(o) \/ OptimizeFails(o) \/ OptimizeLost(o)
        PROVE  chord_size' = chord_size \/ SizeChord(o)
    BY <2>5 DEF Optimize, TakeOptimize, OptimizeStops, Materialize, SendChild,
       OptimizeAck, OptimizeFails, OptimizeLost
  <2>6. ASSUME NEW s \in Slots, RunChild(s) \/ ChildOverruns(s) \/ ChildLost(s)
        PROVE  chord_size' = chord_size \/ CallBack(s)
    BY <2>6 DEF RunChild, FinishChild, ReturnChild, AckChild, ChildOverruns, ChildLost
  <2>7. ASSUME NEW c \in Children, DestroyChild(c) \/ \E s \in Slots : StartChild(s, c)
        PROVE  UNCHANGED chord_size
    BY <2>7 DEF DestroyChild, StartChild
  <2>8. ASSUME NEW m \in callbacks, FinalizeSweep(m) \/ FinalizeFails(m) PROVE UNCHANGED chord_size
    BY <2>8 DEF FinalizeSweep, FinalizeFails
  <2>9. CASE UNCHANGED vars
    BY <2>9 DEF vars
  <2> QED
    BY <2>1, <2>2, <2>3, <2>4, <2>5, <2>6, <2>7, <2>8, <2>9 DEF Next
<1>2. chord_size[g] # 0 => g =< generation
  BY GenerationsAreNumbers DEF TypeInv, BaseTypes, GenerationsInv
<1>3. g =< generation
  BY <1>1, <1>2
<1>4. ChildrenOf(g)' = ChildrenOf(g)
  BY <1>3, ChildrenSame
<1>5. chord_size[g] # 0 => chord_size[g] = Cardinality(ChildrenOf(g))
  BY DEF DispatchInv
<1> QED
  BY <1>1, <1>4, <1>5

(* No two slots dispatch one generation.                                     *)
LEMMA NextDispatchInv == TypeInv /\ DispatchInv /\ [Next]_vars => DispatchInv'
<1> SUFFICES ASSUME TypeInv, DispatchInv, [Next]_vars PROVE DispatchInv'
  OBVIOUS
<1>c. (\A g \in Generations : chord_size[g] # 0 => chord_size[g] = Cardinality(ChildrenOf(g)))'
  BY ChordSizes
<1>1. ASSUME \A o \in Orchestrators : opc'[o] = "dispatch" =>
               opc[o] = "dispatch" /\ ogen'[o] = ogen[o] /\ to_send'[o] # {}
      PROVE  DispatchInv'
  BY <1>1, <1>c DEF DispatchInv
<1> USE DEF TypeInv, BaseTypes, sweepVars, optVars, childVars, slotVars, chordVars, orchestrationVars,
        executionVars, boundVars, historyVars
<1>2. ASSUME UNCHANGED optVars PROVE DispatchInv'
  BY <1>1, <1>2 DEF DispatchInv
<1>3. ASSUME NEW o \in Orchestrators, Materialize(o) PROVE DispatchInv'
  <2>1. \A oo \in Orchestrators : opc'[oo] = "dispatch" /\ oo # o =>
          /\ opc[oo] = "dispatch" /\ ogen'[oo] = ogen[oo] /\ ogen[oo] # generation + 1
          /\ to_send'[oo] = to_send[oo]
    BY <1>3, DispatchedEarlier DEF Materialize, Optimizer
  <2>2. opc'[o] = "dispatch" /\ ogen'[o] = generation + 1 /\ to_send'[o] # {}
    BY <1>3 DEF Materialize, Optimizer
  <2>3. (\A oo \in Orchestrators : opc[oo] = "dispatch" => to_send[oo] # {})'
    <3> SUFFICES ASSUME NEW oo \in Orchestrators, opc'[oo] = "dispatch" PROVE to_send'[oo] # {}
      OBVIOUS
    <3> QED
      BY <2>1, <2>2 DEF DispatchInv
  <2>4. (\A oo, oa \in Orchestrators :
           opc[oo] = "dispatch" /\ opc[oa] = "dispatch" /\ ogen[oo] = ogen[oa] => oo = oa)'
    <3> SUFFICES ASSUME NEW oo \in Orchestrators, NEW oa \in Orchestrators,
                        opc'[oo] = "dispatch", opc'[oa] = "dispatch", ogen'[oo] = ogen'[oa]
                 PROVE  oo = oa
      OBVIOUS
    <3> QED
      BY <2>1, <2>2 DEF DispatchInv
  <2> QED
    BY <1>c, <2>3, <2>4 DEF DispatchInv
<1>4. ASSUME NEW o \in Orchestrators, SendChild(o) PROVE DispatchInv'
  BY <1>1, <1>4 DEF SendChild, Optimizer, DispatchInv
<1>5. ASSUME NEW o \in Orchestrators, SizeChord(o) PROVE DispatchInv'
  BY <1>2, <1>5 DEF SizeChord
<1>6. ASSUME NEW o \in Orchestrators,
             \/ TakeOptimize(o) \/ OptimizeStops(o) \/ OptimizeAck(o)
             \/ OptimizeFails(o) \/ OptimizeLost(o)
      PROVE  DispatchInv'
  BY <1>1, <1>6 DEF TakeOptimize, OptimizeStops, OptimizeAck, OptimizeFails, OptimizeLost,
     Optimizer, DispatchInv
<1>7. CASE Web \/ UNCHANGED vars
  BY <1>2, <1>7 DEF Web, CreateSweep, CreateSweepUnpublished, RerunSweep,
     DestroySweep, OpenForm, SaveForm, vars
<1>8. ASSUME NEW s \in Slots, RunChild(s) \/ ChildOverruns(s) \/ ChildLost(s)
      PROVE  DispatchInv'
  BY <1>2, <1>8 DEF RunChild, FinishChild, ReturnChild, CallBack, AckChild,
     ChildOverruns, ChildLost
<1>9. ASSUME NEW c \in Children, DestroyChild(c) \/ \E s \in Slots : StartChild(s, c)
      PROVE  DispatchInv'
  BY <1>2, <1>9 DEF DestroyChild, StartChild
<1>10. ASSUME NEW m \in callbacks, FinalizeSweep(m) \/ FinalizeFails(m) PROVE DispatchInv'
  BY <1>2, <1>10 DEF FinalizeSweep, FinalizeFails
<1> QED
  BY <1>3, <1>4, <1>5, <1>6, <1>7, <1>8, <1>9, <1>10 DEF Next, Optimize

-----------------------------------------------------------------------------
(* Where the children are.                                                   *)

(* The job of an idle slot is no child.                                      *)
LEMMA NoChild == ASSUME NEW c \in Children PROVE c # <<>>
  BY ChildIsPair

(* A child that has not returned, and one in a slot, exist.                  *)
LEMMA OpenExists ==
  ASSUME TypeInv, NEW c \in Children, Open(c) \/ Held(c)
  PROVE  child[c] # "none" /\ c \in ChildrenOf(c[1])
<1>1. ASSUME Held(c) PROVE child[c] # "none"
  BY <1>1, NoChild DEF Held, TypeInv, SlotsInv
<1>2. ASSUME Unsent(c) PROVE child[c] # "none"
  BY <1>2, ChildIsPair DEF Unsent, TypeInv, GenerationsInv
<1>3. ASSUME c \in ready PROVE child[c] # "none"
  BY <1>3 DEF TypeInv, GenerationsInv
<1>4. Running(c) => Held(c)
  BY DEF Running, Held
<1> QED
  BY <1>1, <1>2, <1>3, <1>4 DEF Open, ChildrenOf

(* Most steps put no child anywhere.                                         *)
LEMMA PlacedStays ==
  ASSUME NEW c \in Children, Placed(c),
         Unsent(c)' => Unsent(c), c \in ready' => c \in ready, Running(c)' => Running(c),
         \A s \in Slots : sjob'[s] = c => sjob[s] = c,
         Returned(c)' => Returned(c), Over(c[1])' => Over(c[1])
  PROVE  Placed(c)'
<1>1. Held(c)' => Held(c)
  BY DEF Held
<1> QED
  BY <1>1 DEF Placed, Open

(* What is unsent stays so at most, unless a generation is created.          *)
LEMMA UnsentStays ==
  ASSUME NEW c, \A o \in Orchestrators : opc'[o] = "dispatch" =>
           opc[o] = "dispatch" /\ ogen'[o] = ogen[o] /\ to_send'[o] \subseteq to_send[o]
  PROVE  Unsent(c)' => Unsent(c)
  BY DEF Unsent

(* A child of a generation that has been created just now is nowhere else.   *)
LEMMA MaterializePlaces ==
  ASSUME TypeInv, NEW c \in Children, Placed(c), NEW o \in Orchestrators, Materialize(o)
  PROVE  Placed(c)'
<1> DEFINE g == generation + 1
<1>1. \A s \in Slots : sjob'[s] = sjob[s] /\ spc'[s] = spc[s]
  BY DEF Materialize, slotVars
<1>2. Running(c)' = Running(c) /\ Held(c)' = Held(c)
  BY DEF Materialize, slotVars, Running, Held
<1>3. UNCHANGED <<ready, parts, callbacks, tallied>>
  BY DEF Materialize, chordVars
<1>4. Returned(c)' = Returned(c) /\ Over(c[1])' = Over(c[1])
  BY <1>3 DEF Returned, Over
<1>5. CASE c[1] # g
  <2>1. Unsent(c)' => Unsent(c)
    BY <1>5 DEF Materialize, Optimizer, Unsent, TypeInv, BaseTypes
  <2> QED
    BY <1>1, <1>2, <1>3, <1>4, <2>1, PlacedStays
<1>6. CASE c[1] = g
  <2>1. child[c] = "none"
    BY <1>6, ChildIsPair DEF TypeInv, BaseTypes, GenerationsInv
  <2>2. ~ Open(c) /\ ~ Held(c)
    BY <2>1, OpenExists
  <2>3. parts[g] = {}
    <3>1. g \in Generations /\ g > generation
      BY <1>6, ChildIsPair DEF TypeInv, BaseTypes
    <3> QED
      BY <3>1 DEF TypeInv, GenerationsInv
  <2>4. ~ Returned(c)
    BY <1>6, <2>3 DEF Returned
  <2>5. ~ Over(c[1])
    BY <1>6, ChildIsPair, GenerationsAreNumbers
       DEF Over, TypeInv, BaseTypes, GenerationsInv, Callback
  <2>6. ~ Running(c)
    BY <2>2 DEF Open
  <2> QED
    BY <1>1, <1>2, <1>3, <1>4, <2>2, <2>4, <2>5 DEF Placed, Open, Held
<1> QED
  BY <1>5, <1>6

LEMMA SendChildPlaces ==
  ASSUME TypeInv, DispatchInv, NEW c \in Children, Placed(c),
         NEW o \in Orchestrators, SendChild(o)
  PROVE  Placed(c)'
<1>1. PICK k \in to_send[o] : /\ ready' = ready \cup {<<ogen[o], k>>}
                            /\ to_send' = [to_send EXCEPT ![o] = @ \ {k}]
  BY DEF SendChild
<1>2. \A oo \in Orchestrators : opc'[oo] = "dispatch" =>
        opc[oo] = "dispatch" /\ ogen'[oo] = ogen[oo] /\ to_send'[oo] \subseteq to_send[oo]
  BY <1>1 DEF SendChild, Optimizer, TypeInv, BaseTypes
<1>3. Unsent(c)' => Unsent(c)
  BY <1>2, UnsentStays
<1>4. Running(c)' = Running(c) /\ Held(c)' = Held(c)
      /\ Returned(c)' = Returned(c) /\ Over(c[1])' = Over(c[1])
  BY DEF SendChild, slotVars, chordVars, historyVars, Running, Held, Returned, Over
<1>5. \A s \in Slots : sjob'[s] = sjob[s]
  BY DEF SendChild, slotVars
<1>6. CASE c # <<ogen[o], k>>
  BY <1>1, <1>3, <1>4, <1>5, <1>6, PlacedStays
<1>7. CASE c = <<ogen[o], k>>
  <2>1. c[1] = ogen[o] /\ c[2] = k
    BY <1>7
  <2>2. Unsent(c)
    BY <2>1 DEF Unsent, SendChild
  <2>3. ~ Unsent(c)'
    <3> SUFFICES ASSUME NEW oo \in Orchestrators, opc'[oo] = "dispatch", ogen'[oo] = c[1],
                        c[2] \in to_send'[oo]
                 PROVE  FALSE
      BY DEF Unsent
    <3>1. opc[oo] = "dispatch" /\ ogen[oo] = c[1]
      BY <1>2
    <3>2. oo = o
      BY <2>1, <3>1 DEF DispatchInv, SendChild
    <3> QED
      BY <1>1, <2>1, <3>2 DEF TypeInv, BaseTypes
  <2> QED
    BY <1>4, <1>5, <2>2, <2>3 DEF Placed, Open
<1> QED
  BY <1>6, <1>7

LEMMA StartChildPlaces ==
  ASSUME TypeInv, NEW c \in Children, Placed(c),
         NEW s \in Slots, NEW d \in Children, StartChild(s, d)
  PROVE  Placed(c)'
<1>1. Unsent(c)' = Unsent(c) /\ Returned(c)' = Returned(c) /\ Over(c[1])' = Over(c[1])
  BY DEF StartChild, orchestrationVars, optVars, chordVars, historyVars, Unsent, Returned, Over
<1>2. d \in ready /\ ready' = ready \ {d}
  BY DEF StartChild
<1>3. \A t \in Slots : IF t = s THEN sjob'[t] = d
                       ELSE sjob'[t] = sjob[t] /\ spc'[t] = spc[t]
  BY DEF StartChild, Slot, TypeInv, BaseTypes
<1>4. CASE c # d
  <2>1. Running(c)' => Running(c)
    BY <1>3, <1>4 DEF Running
  <2>2. \A t \in Slots : sjob'[t] = c => sjob[t] = c
    BY <1>3, <1>4
  <2> QED
    BY <1>1, <1>2, <2>1, <2>2, PlacedStays
<1>5. CASE c = d
  <2>1. ~ Unsent(c) /\ ~ Held(c) /\ ~ Returned(c) /\ ~ Over(c[1])
    BY <1>2, <1>5 DEF Placed, Open
  <2>2. \A t \in Slots : sjob'[t] = c => t = s
    BY <1>3, <2>1 DEF Held
  <2> QED
    BY <1>1, <1>2, <1>5, <2>1, <2>2 DEF Placed, Open
<1> QED
  BY <1>4, <1>5

LEMMA PartPlaces ==
  ASSUME TypeInv, NEW c \in Children, Placed(c),
         NEW s \in Slots, ReturnChild(s) \/ ChildOverruns(s)
  PROVE  Placed(c)'
<1> DEFINE d == sjob[s]
<1>1. Unsent(c)' = Unsent(c) /\ Over(c[1])' = Over(c[1]) /\ UNCHANGED <<ready, sjob>>
  BY DEF ReturnChild, ChildOverruns, orchestrationVars, optVars, childVars, historyVars,
     Unsent, Over
<1>2. d \in Children /\ spc[s] \in {"execute", "return"}
  BY DEF ReturnChild, ChildOverruns, TypeInv, SlotsInv
<1>3. Held(d) /\ Running(d)
  BY <1>2 DEF Held, Running
<1>4. PICK label \in {"call_back", "ack"} : Slot(s, label)
  BY DEF ReturnChild, ChildOverruns, AddPart
<1>5. PICK p : p.combo = d[2] /\ parts' = [parts EXCEPT ![d[1]] = @ \cup {p}]
  BY DEF ReturnChild, ChildOverruns, AddPart
<1>6. Running(c)' => Running(c)
  BY <1>1, <1>4 DEF Running, Slot, TypeInv, BaseTypes
<1>7. CASE c # d
  <2>1. Returned(c)' => Returned(c)
    <3>1. c[1] # d[1] \/ c[2] # d[2]
      BY <1>2, <1>7, ChildIsPair
    <3>2. c[1] \in Generations /\ d[1] \in Generations
      BY <1>2, ChildIsPair
    <3> HIDE DEF d
    <3> QED
      BY <1>5, <3>1, <3>2 DEF Returned, TypeInv, BaseTypes
  <2> QED
    BY <1>1, <1>6, <2>1, PlacedStays
<1>8. CASE c = d
  <2>1. ~ Unsent(c) /\ c \notin ready
    BY <1>3, <1>8 DEF Placed
  <2>2. ~ Running(c)'
    BY <1>1, <1>4, <1>8 DEF Placed, Running, Slot, TypeInv, BaseTypes
  <2> QED
    BY <1>1, <2>1, <2>2 DEF Placed, Open
<1> QED
  BY <1>7, <1>8

(* The chord that calls back has no child left that could come later.        *)
LEMMA CallBackPlaces ==
  ASSUME TypeInv, ChordInv, NEW c \in Children, c[1] \notin doubled, Placed(c),
         NEW s \in Slots, CallBack(s)
  PROVE  Placed(c)'
<1> DEFINE h == sjob[s][1]
<1>1. Unsent(c)' = Unsent(c) /\ UNCHANGED <<ready, sjob, tallied>>
  BY DEF CallBack, orchestrationVars, optVars, childVars, historyVars, Unsent
<1>2. h \in Generations /\ CallsBack(s, h)
  BY ChildIsPair DEF CallBack, TypeInv, SlotsInv, CallsBack
<1>3. Running(c)' => Running(c)
  BY <1>1 DEF CallBack, Running, Slot, TypeInv, BaseTypes
<1>4. parts' \in {parts, [parts EXCEPT ![h] = {}]}
  BY DEF CallBack, chordVars
<1>5. Returned(c)' => Returned(c)
  BY <1>2, <1>4, ChildIsPair DEF Returned, TypeInv, BaseTypes
<1>6. \A m \in callbacks' : m \in callbacks \/ m.generation = h
  BY DEF CallBack
<1>7. CASE c[1] # h
  <2>1. Over(c[1])' => Over(c[1])
    BY <1>1, <1>6, <1>7 DEF Over
  <2> QED
    BY <1>1, <1>3, <1>5, <2>1, PlacedStays
<1>8. CASE c[1] = h
  <2>1. ~ Open(c)
    BY <1>2, <1>8, OpenExists DEF ChordInv, Chorded, Placed
  <2>2. ~ Open(c)'
    BY <1>1, <1>3, <2>1 DEF Open
  <2> QED
    BY <1>1, <2>1, <2>2 DEF Placed, Open
<1> QED
  BY <1>7, <1>8

LEMMA ChildLostPlaces ==
  ASSUME TypeInv, NEW c \in Children, c[1] \notin doubled', Placed(c),
         NEW s \in Slots, ChildLost(s)
  PROVE  Placed(c)'
<1> DEFINE d == sjob[s]
<1>1. Unsent(c)' = Unsent(c) /\ Returned(c)' = Returned(c) /\ Over(c[1])' = Over(c[1])
  BY DEF ChildLost, orchestrationVars, optVars, chordVars, Unsent, Returned, Over
<1>2. d \in Children /\ ready' = ready \cup {d}
  BY DEF ChildLost, TypeInv, SlotsInv
<1>3. \A t \in Slots : IF t = s THEN sjob'[t] = <<>>
                       ELSE sjob'[t] = sjob[t] /\ spc'[t] = spc[t]
  BY DEF ChildLost, FreeSlot, Slot, TypeInv, BaseTypes
<1>4. \A t \in Slots : sjob'[t] = c => t # s /\ sjob[t] = c /\ spc'[t] = spc[t]
  BY <1>3, NoChild
<1>5. Running(c)' => Running(c)
  BY <1>4 DEF Running
<1>6. CASE c # d
  BY <1>1, <1>2, <1>4, <1>5, <1>6, PlacedStays
<1>7. CASE c = d
  <2>1. spc[s] \in {"execute", "return"}
    BY <1>7 DEF ChildLost, TypeInv, BaseTypes
  <2>2. Running(c) /\ Held(c)
    BY <1>7, <2>1 DEF Running, Held
  <2>3. ~ Held(c)'
    BY <1>4, <1>7 DEF Placed, Held
  <2> QED
    BY <1>1, <1>4, <2>2, <2>3 DEF Placed, Open
<1> QED
  BY <1>6, <1>7

(* No other step moves a child forward.                                      *)
LEMMA OthersPlace ==
  ASSUME TypeInv, NEW c \in Children, Placed(c), Next,
         \A o \in Orchestrators : ~ Materialize(o) /\ ~ SendChild(o),
         \A s \in Slots, d \in Children : ~ StartChild(s, d),
         \A s \in Slots : ~ ReturnChild(s) /\ ~ ChildOverruns(s) /\ ~ CallBack(s) /\ ~ ChildLost(s)
  PROVE  Placed(c)'
<1> USE DEF sweepVars, optVars, childVars, slotVars, chordVars, orchestrationVars,
        executionVars, boundVars, historyVars
<1>1. ASSUME UNCHANGED optVars PROVE Unsent(c)' => Unsent(c)
  BY <1>1 DEF Unsent
<1>2. ASSUME UNCHANGED slotVars
      PROVE  (Running(c)' => Running(c)) /\ \A s \in Slots : sjob'[s] = c => sjob[s] = c
  BY <1>2 DEF Running
<1>3. ASSUME UNCHANGED parts PROVE Returned(c)' => Returned(c)
  BY <1>3 DEF Returned
<1>4. ASSUME UNCHANGED <<callbacks, tallied>> PROVE Over(c[1])' => Over(c[1])
  BY <1>4 DEF Over
<1>5. CASE Web
  BY <1>1, <1>2, <1>3, <1>4, <1>5, PlacedStays DEF Web, CreateSweep, CreateSweepUnpublished,
     RerunSweep, DestroySweep, OpenForm, SaveForm
<1>6. ASSUME NEW d \in Children, DestroyChild(d) PROVE Placed(c)'
  BY <1>1, <1>2, <1>3, <1>4, <1>6, PlacedStays DEF DestroyChild
<1>7. ASSUME NEW o \in Orchestrators,
             \/ TakeOptimize(o) \/ OptimizeStops(o) \/ OptimizeAck(o)
             \/ OptimizeFails(o) \/ OptimizeLost(o)
      PROVE  Placed(c)'
  <2>1. \A oo \in Orchestrators : opc'[oo] = "dispatch" =>
          opc[oo] = "dispatch" /\ ogen'[oo] = ogen[oo] /\ to_send'[oo] \subseteq to_send[oo]
    BY <1>7 DEF TakeOptimize, OptimizeStops, OptimizeAck, OptimizeFails, OptimizeLost,
       Optimizer, TypeInv, BaseTypes
  <2>2. Unsent(c)' => Unsent(c)
    BY <2>1, UnsentStays
  <2> QED
    BY <1>2, <1>3, <1>4, <1>7, <2>2, PlacedStays DEF TakeOptimize, OptimizeStops, OptimizeAck,
       OptimizeFails, OptimizeLost
<1>8. ASSUME NEW o \in Orchestrators, SizeChord(o) PROVE Placed(c)'
  BY <1>1, <1>2, <1>3, <1>4, <1>8, PlacedStays DEF SizeChord
<1>9. ASSUME NEW s \in Slots, FinishChild(s) \/ AckChild(s) PROVE Placed(c)'
  <2>1. \A t \in Slots : sjob'[t] = c => sjob[t] = c
    BY <1>9, NoChild DEF FinishChild, AckChild, FreeSlot, TypeInv, BaseTypes
  <2>2. Running(c)' => Running(c)
    BY <1>9, <2>1 DEF FinishChild, AckChild, FreeSlot, Slot, TypeInv, BaseTypes, Running
  <2> QED
    BY <1>1, <1>3, <1>4, <1>9, <2>1, <2>2, PlacedStays DEF FinishChild, AckChild
<1>10. ASSUME NEW m \in callbacks, FinalizeSweep(m) \/ FinalizeFails(m) PROVE Placed(c)'
  <2>1. Over(c[1])' => Over(c[1])
    BY <1>10 DEF FinalizeSweep, FinalizeFails, Over
  <2> QED
    BY <1>1, <1>2, <1>3, <1>10, <2>1, PlacedStays DEF FinalizeSweep, FinalizeFails
<1> QED
  BY <1>5, <1>6, <1>7, <1>8, <1>9, <1>10 DEF Next, Optimize, RunChild

(* What has returned twice is never forgotten.                               *)
LEMMA DoubledStays == ASSUME TypeInv, [Next]_vars PROVE doubled \subseteq doubled'
<1> USE DEF sweepVars, optVars, childVars, slotVars, chordVars, orchestrationVars,
        executionVars, boundVars, historyVars
<1>1. ASSUME NEW o \in Orchestrators, Optimize(o) \/ OptimizeFails(o) \/ OptimizeLost(o)
      PROVE  UNCHANGED doubled
  BY <1>1 DEF Optimize, TakeOptimize, OptimizeStops, Materialize, SizeChord, SendChild,
     OptimizeAck, OptimizeFails, OptimizeLost
<1>2. ASSUME NEW s \in Slots, RunChild(s) \/ ChildOverruns(s) \/ ChildLost(s)
      PROVE  doubled \subseteq doubled'
  BY <1>2 DEF RunChild, FinishChild, ReturnChild, CallBack, AckChild, ChildOverruns, ChildLost
<1>3. CASE Web \/ UNCHANGED vars
  BY <1>3 DEF Web, CreateSweep, CreateSweepUnpublished, RerunSweep, DestroySweep,
     OpenForm, SaveForm, vars
<1>4. ASSUME NEW c \in Children, DestroyChild(c) \/ \E s \in Slots : StartChild(s, c)
      PROVE  UNCHANGED doubled
  BY <1>4 DEF DestroyChild, StartChild
<1>5. ASSUME NEW m \in callbacks, FinalizeSweep(m) \/ FinalizeFails(m) PROVE UNCHANGED doubled
  BY <1>5 DEF FinalizeSweep, FinalizeFails
<1> QED
  BY <1>1, <1>2, <1>3, <1>4, <1>5 DEF Next

LEMMA NextPlaceInv ==
  TypeInv /\ DispatchInv /\ PlaceInv /\ ChordInv /\ [Next]_vars => PlaceInv'
<1> SUFFICES ASSUME TypeInv, DispatchInv, PlaceInv, ChordInv, [Next]_vars,
                    NEW c \in Children, c[1] \notin doubled'
             PROVE  Placed(c)'
  BY DEF PlaceInv
<1>1. c[1] \notin doubled /\ Placed(c)
  BY DoubledStays DEF PlaceInv
<1>2. CASE UNCHANGED vars
  BY <1>1, <1>2 DEF vars, sweepVars, optVars, childVars, slotVars, chordVars, orchestrationVars,
        executionVars, boundVars, historyVars, Placed, Open, Unsent, Running, Held, Returned, Over
<1>3. CASE Next
  BY <1>1, <1>3, MaterializePlaces, SendChildPlaces, StartChildPlaces, PartPlaces,
     CallBackPlaces, ChildLostPlaces, OthersPlace
<1> QED
  BY <1>2, <1>3

-----------------------------------------------------------------------------
(* The chords.                                                               *)

(* A chord with as many results as there are children has one of each.       *)
LEMMA FullChord ==
  ASSUME NEW g \in Generations, NEW P,
         \A p, q \in P : p.combo = q.combo => p = q,
         \A p \in P : <<g, p.combo>> \in ChildrenOf(g),
         Cardinality(P) = Cardinality(ChildrenOf(g)),
         NEW c \in ChildrenOf(g)
  PROVE  \E p \in P : p.combo = c[2]
<1> DEFINE f == [p \in P |-> <<g, p.combo>>]
<1>1. f \in [P -> ChildrenOf(g)]
  OBVIOUS
<1>2. \A p, q \in P : f[p] = f[q] => p = q
  OBVIOUS
<1>3. f \in Injection(P, ChildrenOf(g))
  BY <1>1, <1>2 DEF Injection, IsInjective
<1>4. f \in Surjection(P, ChildrenOf(g))
  BY <1>3, ChildrenAreFinite, FS_Injection
<1>5. PICK p \in P : f[p] = c
  BY <1>4 DEF Surjection
<1> QED
  BY <1>5

(* Who calls back has a child.                                               *)
LEMMA CallsBackEarlier ==
  ASSUME TypeInv, NEW s \in Slots, NEW g, CallsBack(s, g)
  PROVE  /\ g \in Generations /\ g =< generation
         /\ sjob[s] \in ChildrenOf(g)
<1>1. sjob[s] \in Children /\ child[sjob[s]] # "none"
  BY DEF CallsBack, TypeInv, SlotsInv
<1> QED
  BY <1>1, ChildIsPair DEF CallsBack, ChildrenOf, TypeInv, GenerationsInv

(* Most steps leave the chords alone.                                        *)
LEMMA ChordedStays ==
  ASSUME TypeInv, [Next]_vars, NEW g \in Generations, Chorded(g), parts'[g] = parts[g],
         \A s \in Slots : CallsBack(s, g)' => CallsBack(s, g), Over(g)' => Over(g)
  PROVE  Chorded(g)'
<1>1. \A p \in parts'[g] : child'[<<g, p.combo>>] # "none"
  <2> SUFFICES ASSUME NEW p \in parts[g] PROVE child'[<<g, p.combo>>] # "none"
    OBVIOUS
  <2>1. <<g, p.combo>> \in Children
    BY DEF TypeInv, BaseTypes, Part, Children
  <2> QED
    BY <2>1, ChildStays DEF Chorded
<1>2. ASSUME NEW s \in Slots, CallsBack(s, g)'
      PROVE  /\ ~ Over(g)'
             /\ \A c \in ChildrenOf(g)' : Returned(c)'
             /\ \A t \in Slots : CallsBack(t, g)' => t = s
  <2>1. CallsBack(s, g)
    BY <1>2
  <2>2. ChildrenOf(g)' = ChildrenOf(g)
    BY <2>1, CallsBackEarlier, ChildrenSame
  <2>3. \A c \in ChildrenOf(g) : Returned(c)
    BY <2>1 DEF Chorded
  <2>4. \A c \in ChildrenOf(g) : Returned(c)'
    BY <2>3 DEF Returned, ChildrenOf
  <2> QED
    BY <2>1, <2>2, <2>4 DEF Chorded
<1>3. \A p, q \in parts'[g] : p.combo = q.combo => p = q
  BY DEF Chorded
<1> QED
  BY <1>1, <1>2, <1>3 DEF Chorded

(* A result that joins its chord is the only one of its child, and completes *)
(* the chord when it is the last.                                            *)
LEMMA PartChorded ==
  ASSUME TypeInv, DispatchInv, PlaceInv, ChordInv, [Next]_vars,
         NEW g \in Generations \ doubled, NEW s \in Slots, ReturnChild(s) \/ ChildOverruns(s)
  PROVE  Chorded(g)'
<1> DEFINE d == sjob[s]
           h == sjob[s][1]
<1>1. d \in Children /\ h \in Generations /\ spc[s] \in {"execute", "return"}
  BY ChildIsPair DEF ReturnChild, ChildOverruns, TypeInv, SlotsInv
<1>2. PICK p : /\ p.combo = d[2]
               /\ parts' = [parts EXCEPT ![h] = @ \cup {p}]
  BY DEF ReturnChild, ChildOverruns, AddPart
<1>3. \A t \in Slots : t # s => spc'[t] = spc[t]
  BY DEF ReturnChild, ChildOverruns, AddPart, Slot, TypeInv, BaseTypes
<1>4. spc'[s] = "call_back" => chord_size[h] # 0 /\ Cardinality(parts'[h]) = chord_size[h]
  BY DEF ReturnChild, ChildOverruns, AddPart, Slot, Complete, TypeInv, BaseTypes
<1>5. UNCHANGED <<sjob, child, callbacks, tallied, chord_size>>
  BY DEF ReturnChild, ChildOverruns, childVars, historyVars
<1>6. Over(g)' = Over(g)
  BY <1>5 DEF Over
<1>7. Chorded(g)
  BY DEF ChordInv
<1>8. CASE g # h
  <2>1. \A t \in Slots : CallsBack(t, g)' => CallsBack(t, g)
    BY <1>3, <1>5, <1>8 DEF CallsBack
  <2>2. parts'[g] = parts[g]
    BY <1>1, <1>2, <1>8 DEF TypeInv, BaseTypes
  <2> QED
    BY <1>6, <1>7, <2>1, <2>2, ChordedStays
<1>9. CASE g = h
  <2>1. Open(d) /\ d \in ChildrenOf(g)
    <3>1. Open(d)
      BY <1>1 DEF Open, Running
    <3> QED
      BY <1>1, <1>9, <3>1, OpenExists
  <2>2. ~ Returned(d) /\ ~ Over(g)
    BY <1>1, <1>9, <2>1 DEF PlaceInv, Placed
  <2>3. parts'[g] = parts[g] \cup {p}
    BY <1>2, <1>9 DEF TypeInv, BaseTypes
  <2>4. \A q \in parts[g] : q.combo # p.combo
    BY <1>2, <1>9, <2>2 DEF Returned
  <2>5. \A q, r \in parts'[g] : q.combo = r.combo => q = r
    BY <1>7, <2>3, <2>4 DEF Chorded
  <2>6. \A q \in parts'[g] : <<g, q.combo>> \in ChildrenOf(g)
    <3>1. \A q \in parts[g] : <<g, q.combo>> \in ChildrenOf(g)
      BY <1>7 DEF Chorded, ChildrenOf, Children, TypeInv, BaseTypes, Part
    <3>2. <<g, p.combo>> = d
      BY <1>1, <1>2, <1>9, ChildIsPair
    <3> QED
      BY <2>1, <2>3, <3>1, <3>2
  <2>7. ChildrenOf(g)' = ChildrenOf(g)
    BY <1>5 DEF ChildrenOf
  <2>8. \A t \in Slots : ~ CallsBack(t, g)
    BY <1>7, <2>1, <2>2 DEF Chorded
  <2>9. \A t \in Slots : CallsBack(t, g)' => t = s
    BY <1>3, <1>5, <2>8 DEF CallsBack
  <2>10. ASSUME NEW t \in Slots, CallsBack(t, g)', NEW c \in ChildrenOf(g)
         PROVE  Returned(c)'
    <3>1. chord_size[g] # 0 /\ Cardinality(parts'[g]) = chord_size[g]
      BY <1>4, <1>9, <2>9, <2>10 DEF CallsBack
    <3>2. Cardinality(parts'[g]) = Cardinality(ChildrenOf(g))
      BY <3>1 DEF DispatchInv
    <3>3. \E q \in parts'[g] : q.combo = c[2]
      BY <2>5, <2>6, <3>2, FullChord
    <3> QED
      BY <3>3 DEF Returned, ChildrenOf
  <2>11. \A q \in parts'[g] : child'[<<g, q.combo>>] # "none"
    BY <1>5, <2>6 DEF ChildrenOf
  <2> QED
    BY <1>6, <2>2, <2>5, <2>7, <2>9, <2>10, <2>11 DEF Chorded
<1> QED
  BY <1>8, <1>9

(* A chord that has called back is gone.                                     *)
LEMMA CallBackChorded ==
  ASSUME TypeInv, ChordInv, [Next]_vars, NEW g \in Generations \ doubled,
         NEW s \in Slots, CallBack(s)
  PROVE  Chorded(g)'
<1> DEFINE h == sjob[s][1]
<1>1. CallsBack(s, h) /\ h \in Generations
  BY CallsBackEarlier DEF CallBack, CallsBack
<1>2. \A t \in Slots, i \in Generations : CallsBack(t, i)' => CallsBack(t, i) /\ t # s
  BY DEF CallBack, Slot, CallsBack, TypeInv, BaseTypes
<1>3. parts' \in {parts, [parts EXCEPT ![h] = {}]} /\ UNCHANGED tallied
      /\ \A m \in callbacks' : m \in callbacks \/ m.generation = h
  BY DEF CallBack, chordVars, historyVars
<1>4. Chorded(g)
  BY DEF ChordInv
<1>5. CASE g # h
  <2>1. parts'[g] = parts[g]
    BY <1>1, <1>3, <1>5 DEF TypeInv, BaseTypes
  <2>2. Over(g)' => Over(g)
    BY <1>3, <1>5 DEF Over
  <2> QED
    BY <1>2, <1>4, <2>1, <2>2, ChordedStays
<1>6. CASE g = h
  <2>1. \A t \in Slots : ~ CallsBack(t, g)'
    BY <1>1, <1>2, <1>4, <1>6 DEF Chorded
  <2>2. parts'[g] = parts[g] \/ parts'[g] = {}
    BY <1>1, <1>3, <1>6 DEF TypeInv, BaseTypes
  <2>3. UNCHANGED child
    BY DEF CallBack, childVars
  <2> QED
    BY <1>4, <2>1, <2>2, <2>3 DEF Chorded
<1> QED
  BY <1>5, <1>6

LEMMA OthersChorded ==
  ASSUME TypeInv, [Next]_vars, NEW g \in Generations, Chorded(g),
         \A s \in Slots : ~ ReturnChild(s) /\ ~ ChildOverruns(s) /\ ~ CallBack(s)
  PROVE  Chorded(g)'
<1> USE DEF sweepVars, optVars, childVars, slotVars, chordVars, orchestrationVars,
        executionVars, boundVars, historyVars
<1>1. ASSUME UNCHANGED slotVars
      PROVE  \A s \in Slots : CallsBack(s, g)' => CallsBack(s, g)
  BY <1>1 DEF CallsBack
<1>2. ASSUME UNCHANGED <<callbacks, tallied>> PROVE Over(g)' => Over(g)
  BY <1>2 DEF Over
<1>3. CASE Web \/ UNCHANGED vars
  BY <1>1, <1>2, <1>3, ChordedStays DEF Web, CreateSweep, CreateSweepUnpublished,
     RerunSweep, DestroySweep, OpenForm, SaveForm, vars
<1>4. ASSUME NEW d \in Children, DestroyChild(d) PROVE Chorded(g)'
  BY <1>1, <1>2, <1>4, ChordedStays DEF DestroyChild
<1>5. ASSUME NEW o \in Orchestrators, Optimize(o) \/ OptimizeFails(o) \/ OptimizeLost(o)
      PROVE  parts' = parts /\ UNCHANGED <<slotVars, callbacks, tallied>>
  BY <1>5 DEF Optimize, TakeOptimize, OptimizeStops, Materialize, SizeChord, SendChild,
     OptimizeAck, OptimizeFails, OptimizeLost
<1>6. ASSUME NEW s \in Slots, FinishChild(s) \/ AckChild(s) \/ ChildLost(s)
             \/ \E d \in Children : StartChild(s, d)
      PROVE  Chorded(g)'
  <2>1. \A t \in Slots : CallsBack(t, g)' => CallsBack(t, g)
    BY <1>6 DEF FinishChild, AckChild, ChildLost, StartChild, FreeSlot, Slot, TypeInv,
       BaseTypes, CallsBack
  <2> QED
    BY <1>2, <1>6, <2>1, ChordedStays DEF FinishChild, AckChild, ChildLost, StartChild
<1>7. ASSUME NEW m \in callbacks, FinalizeSweep(m) \/ FinalizeFails(m) PROVE Chorded(g)'
  <2>1. Over(g)' => Over(g)
    BY <1>7 DEF FinalizeSweep, FinalizeFails, Over
  <2> QED
    BY <1>1, <1>7, <2>1, ChordedStays DEF FinalizeSweep, FinalizeFails
<1> QED
  BY <1>1, <1>2, <1>3, <1>4, <1>5, <1>6, <1>7, ChordedStays DEF Next, RunChild

LEMMA NextChordInv ==
  TypeInv /\ DispatchInv /\ PlaceInv /\ ChordInv /\ [Next]_vars => ChordInv'
<1> SUFFICES ASSUME TypeInv, DispatchInv, PlaceInv, ChordInv, [Next]_vars,
                    NEW g \in Generations, g \notin doubled'
             PROVE  Chorded(g)'
  BY DEF ChordInv
<1>1. g \in Generations \ doubled /\ Chorded(g)
  BY DoubledStays DEF ChordInv
<1> QED
  BY <1>1, PartChorded, CallBackChorded, OthersChorded

-----------------------------------------------------------------------------
(* What the results say.                                                     *)

(* Most steps leave the row of a child and its result alone.                 *)
LEMMA AccountedStays ==
  ASSUME NEW c \in Children, Accounted(c), child'[c] = child[c], parts'[c[1]] = parts[c[1]],
         \A s \in Slots : sjob'[s] = c /\ spc'[s] = "return" =>
           sjob[s] = c /\ spc[s] = "return" /\ soutcome'[s] = soutcome[s],
         Over(c[1])' => Over(c[1])
  PROVE  Accounted(c)'
  BY DEF Accounted

(* A row that is written belongs to a child that has not returned.           *)
LEMMA AccountedOpen ==
  ASSUME NEW c \in Children, ~ Returned(c), ~ Over(c[1]), UNCHANGED <<parts, callbacks, tallied>>,
         \A s \in Slots : sjob'[s] = c /\ spc'[s] = "return"
                             => child'[c] \in {soutcome'[s], "deleted"}
  PROVE  Accounted(c)'
<1>1. ~ Over(c[1])'
  BY DEF Over
<1> QED
  BY <1>1 DEF Accounted, Returned

LEMMA MaterializeAccounts ==
  ASSUME TypeInv, NEW c \in Children, Accounted(c), NEW o \in Orchestrators, Materialize(o)
  PROVE  Accounted(c)'
<1> DEFINE g == generation + 1
<1>1. UNCHANGED <<sjob, spc, soutcome, parts, callbacks, tallied>>
  BY DEF Materialize, slotVars, chordVars
<1>2. Over(c[1])' = Over(c[1])
  BY <1>1 DEF Over
<1>3. CASE c[1] # g
  <2>1. child'[c] = child[c]
    BY <1>3 DEF Materialize, WithChildren
  <2> QED
    BY <1>1, <1>2, <2>1, AccountedStays
<1>4. CASE c[1] = g
  <2>1. g \in Generations /\ g > generation
    BY <1>4, ChildIsPair DEF TypeInv, BaseTypes
  <2>2. parts[g] = {} /\ child[c] = "none"
    BY <1>4, <2>1, ChildIsPair DEF TypeInv, BaseTypes, GenerationsInv
  <2>3. \A s \in Slots : sjob[s] # c
    BY <2>2, OpenExists DEF Held
  <2>4. ~ Over(g)
    BY <2>1 DEF Over, TypeInv, BaseTypes, GenerationsInv, Callback
  <2>5. ~ Returned(c)
    BY <1>4, <2>2 DEF Returned
  <2> QED
    BY <1>1, <1>4, <2>3, <2>4, <2>5, AccountedOpen
<1> QED
  BY <1>3, <1>4

LEMMA StartChildAccounts ==
  ASSUME TypeInv, NEW c \in Children, Placed(c), Accounted(c),
         NEW s \in Slots, NEW d \in Children, StartChild(s, d)
  PROVE  Accounted(c)'
<1>1. UNCHANGED <<parts, callbacks, tallied>>
  BY DEF StartChild, chordVars, historyVars
<1>2. Over(c[1])' = Over(c[1])
  BY <1>1 DEF Over
<1>3. d \in ready /\ child[d] # "none"
  BY DEF StartChild, TypeInv, GenerationsInv
<1>4. \A t \in Slots : IF t = s THEN sjob'[t] = d
                       ELSE sjob'[t] = sjob[t] /\ spc'[t] = spc[t] /\ soutcome'[t] = soutcome[t]
  BY DEF StartChild, Slot, TypeInv, BaseTypes
<1>5. CASE c # d
  <2>1. child' = [child EXCEPT ![d] = "running"] \/ child' = child
    BY DEF StartChild
  <2>2. child'[c] = child[c]
    BY <1>5, <2>1 DEF TypeInv, BaseTypes
  <2> QED
    BY <1>1, <1>2, <1>4, <1>5, <2>2, AccountedStays
<1>6. CASE c = d
  <2>1. ~ Held(c) /\ ~ Returned(c) /\ ~ Over(c[1])
    BY <1>3, <1>6 DEF Placed, Open
  <2>2. spc'[s] = "return" => child'[c] = "deleted"
    <3>1. CASE ChildExists(d)
      BY <3>1 DEF StartChild, Slot, TypeInv, BaseTypes
    <3>2. CASE ~ ChildExists(d)
      BY <1>3, <1>6, <3>2 DEF StartChild, ChildExists
    <3> QED
      BY <3>1, <3>2
  <2>3. \A t \in Slots : sjob'[t] = c => t = s
    BY <1>4, <2>1 DEF Held
  <2> QED
    BY <1>1, <2>1, <2>2, <2>3, AccountedOpen
<1> QED
  BY <1>5, <1>6

LEMMA FinishChildAccounts ==
  ASSUME TypeInv, NEW c \in Children, Placed(c), Accounted(c), NEW s \in Slots, FinishChild(s)
  PROVE  Accounted(c)'
<1> DEFINE d == sjob[s]
<1>1. UNCHANGED <<sjob, parts, callbacks, tallied>>
  BY DEF FinishChild, chordVars, historyVars
<1>2. Over(c[1])' = Over(c[1])
  BY <1>1 DEF Over
<1>3. d \in Children /\ child[d] # "none" /\ spc[s] = "execute"
  BY DEF FinishChild, TypeInv, SlotsInv
<1>4. PICK outcome \in Settled :
        /\ soutcome' = [soutcome EXCEPT ![s] = outcome]
        /\ child' = IF ChildExists(d) THEN [child EXCEPT ![d] = outcome] ELSE child
  BY DEF FinishChild
<1>5. \A t \in Slots : t # s => spc'[t] = spc[t] /\ soutcome'[t] = soutcome[t]
  BY <1>4 DEF FinishChild, Slot, TypeInv, BaseTypes
<1>6. CASE c # d
  <2>1. child'[c] = child[c]
    BY <1>4, <1>6
  <2> QED
    BY <1>1, <1>2, <1>5, <1>6, <2>1, AccountedStays
<1>7. CASE c = d
  <2>1. Running(c)
    BY <1>3, <1>7 DEF Running
  <2>2. ~ Returned(c) /\ ~ Over(c[1]) /\ \A t \in Slots : sjob[t] = c => t = s
    BY <1>7, <2>1 DEF Placed, Open
  <2>3. child'[c] = outcome \/ child'[c] = "deleted"
    BY <1>3, <1>4, <1>7 DEF ChildExists, TypeInv, BaseTypes
  <2>4. soutcome'[s] = outcome
    BY <1>4 DEF TypeInv, BaseTypes
  <2> QED
    BY <1>1, <2>2, <2>3, <2>4, AccountedOpen
<1> QED
  BY <1>6, <1>7

LEMMA PartAccounts ==
  ASSUME TypeInv, NEW c \in Children, Placed(c), Accounted(c),
         NEW s \in Slots, ReturnChild(s) \/ ChildOverruns(s)
  PROVE  Accounted(c)'
<1> DEFINE d == sjob[s]
<1>1. UNCHANGED <<sjob, child, callbacks, tallied, soutcome>>
  BY DEF ReturnChild, ChildOverruns, childVars, historyVars
<1>2. Over(c[1])' = Over(c[1])
  BY <1>1 DEF Over
<1>3. d \in Children
  BY DEF ReturnChild, ChildOverruns, TypeInv, SlotsInv
<1>4. PICK p : /\ p.combo = d[2]
               /\ p.status = "exception" \/ (p.status = soutcome[s] /\ spc[s] = "return")
               /\ parts' = [parts EXCEPT ![d[1]] = @ \cup {p}]
  <2>1. CASE ReturnChild(s)
    BY <2>1 DEF ReturnChild, AddPart
  <2>2. CASE ChildOverruns(s)
    <3>1. PICK e \in Durations :
            parts' = [parts EXCEPT ![d[1]] = @ \cup
                       {[combo |-> d[2], status |-> "exception", duration |-> e]}]
      BY <2>2 DEF ChildOverruns, AddPart
    <3> DEFINE r == [combo |-> d[2], status |-> "exception", duration |-> e]
    <3>2. r.combo = d[2] /\ r.status = "exception"
      OBVIOUS
    <3>3. parts' = [parts EXCEPT ![d[1]] = @ \cup {r}]
      BY <3>1
    <3> WITNESS r
    <3> HIDE DEF r
    <3> QED
      BY <3>2, <3>3
  <2> QED
    BY <2>1, <2>2
<1>5. \A t \in Slots : spc'[t] = "return" => spc[t] = "return"
  BY DEF ReturnChild, ChildOverruns, AddPart, Slot, TypeInv, BaseTypes
<1>6. CASE c[1] # d[1]
  <2>1. parts'[c[1]] = parts[c[1]]
    BY <1>3, <1>4, <1>6, ChildIsPair DEF TypeInv, BaseTypes
  <2> QED
    BY <1>1, <1>2, <1>5, <2>1, AccountedStays
<1>7. CASE c[1] = d[1]
  <2>1. parts'[c[1]] = parts[c[1]] \cup {p}
    BY <1>3, <1>4, <1>7, ChildIsPair DEF TypeInv, BaseTypes
  <2>2. p.combo = c[2] => c = d
    BY <1>3, <1>4, <1>7, ChildIsPair
  <2>3. p.combo = c[2] /\ p.status # "exception" => child[c] \in {p.status, "deleted"}
    BY <1>4, <2>2 DEF Accounted
  <2> HIDE DEF d
  <2> QED
    BY <1>1, <1>2, <1>5, <2>1, <2>3 DEF Accounted
<1> QED
  BY <1>6, <1>7

(* No exception is among what is counted as none.                            *)
LEMMA NoException ==
  ASSUME TypeInv, NEW g \in Generations, Tally(g, {"exception"}) = 0, NEW p \in parts[g]
  PROVE  p.status # "exception" /\ p.status \in Settled \cup {"unknown"}
<1> DEFINE E == {q \in parts[g] : q.status \in {"exception"}}
<1>1. IsFiniteSet(E)
  BY FS_Subset DEF TypeInv, GenerationsInv
<1>2. E = {}
  BY <1>1, FS_EmptySet DEF Tally
<1> QED
  BY <1>2 DEF TypeInv, BaseTypes, Part

LEMMA CallBackAccounts ==
  ASSUME TypeInv, NEW c \in Children, Chorded(c[1]), Accounted(c), NEW s \in Slots, CallBack(s)
  PROVE  Accounted(c)'
<1> DEFINE h == sjob[s][1]
<1>1. CallsBack(s, h) /\ h \in Generations
  BY CallsBackEarlier DEF CallBack, CallsBack
<1>2. \A t \in Slots : spc'[t] = "return" => spc[t] = "return"
  BY DEF CallBack, Slot, TypeInv, BaseTypes
<1>3. UNCHANGED <<child, sjob, soutcome, tallied>>
  BY DEF CallBack, childVars, historyVars
<1>4. CASE Tally(h, {"exception"}) # 0
  <2>1. UNCHANGED <<parts, callbacks>>
    BY <1>4 DEF CallBack, chordVars
  <2>2. Over(c[1])' => Over(c[1])
    BY <1>3, <2>1 DEF Over
  <2> QED
    BY <1>2, <1>3, <2>1, <2>2, AccountedStays
<1>5. CASE Tally(h, {"exception"}) = 0
  <2>1. parts' = [parts EXCEPT ![h] = {}]
        /\ \A m \in callbacks' : m \in callbacks \/ m.generation = h
    BY <1>5 DEF CallBack
  <2>2. CASE c[1] # h
    <3>1. parts'[c[1]] = parts[c[1]]
      BY <1>1, <2>1, <2>2, ChildIsPair DEF TypeInv, BaseTypes
    <3>2. Over(c[1])' => Over(c[1])
      BY <1>3, <2>1, <2>2 DEF Over
    <3> QED
      BY <1>2, <1>3, <3>1, <3>2, AccountedStays
  <2>3. CASE c[1] = h
    <3>1. ASSUME child[c] # "none" PROVE child[c] \in Settled \cup {"deleted"}
      <4>1. c \in ChildrenOf(h)
        BY <2>3, <3>1 DEF ChildrenOf
      <4>2. PICK p \in parts[h] : p.combo = c[2]
        BY <1>1, <2>3, <4>1 DEF Chorded, Returned
      <4>3. p.status # "exception" /\ p.status \in Settled \cup {"unknown"}
        BY <1>1, <1>5, NoException
      <4>4. child[c] \in {p.status, "deleted"}
        BY <2>3, <4>2, <4>3 DEF Accounted
      <4> QED
        BY <4>3, <4>4 DEF TypeInv, BaseTypes, ChildStatus, Settled
    <3>2. parts'[c[1]] = {}
      BY <1>1, <2>1, <2>3 DEF TypeInv, BaseTypes
    <3> QED
      BY <1>2, <1>3, <3>1, <3>2 DEF Accounted
  <2> QED
    BY <2>2, <2>3
<1> QED
  BY <1>4, <1>5

LEMMA DestroyChildAccounts ==
  ASSUME TypeInv, NEW c \in Children, Accounted(c), NEW d \in Children, DestroyChild(d)
  PROVE  Accounted(c)'
<1>1. UNCHANGED <<sjob, spc, soutcome, parts, callbacks, tallied>>
  BY DEF DestroyChild, slotVars, chordVars, historyVars
<1>2. Over(c[1])' = Over(c[1])
  BY <1>1 DEF Over
<1>3. child'[c] = IF c = d THEN "deleted" ELSE child[c]
  BY DEF DestroyChild, TypeInv, BaseTypes
<1> QED
  BY <1>1, <1>2, <1>3 DEF Accounted

LEMMA OthersAccount ==
  ASSUME TypeInv, [Next]_vars, NEW c \in Children, Accounted(c),
         \A o \in Orchestrators : ~ Materialize(o),
         \A s \in Slots, d \in Children : ~ StartChild(s, d),
         \A d \in Children : ~ DestroyChild(d),
         \A s \in Slots : ~ FinishChild(s) /\ ~ ReturnChild(s) /\ ~ ChildOverruns(s) /\ ~ CallBack(s)
  PROVE  Accounted(c)'
<1> USE DEF sweepVars, optVars, childVars, slotVars, chordVars, orchestrationVars,
        executionVars, boundVars, historyVars
<1>1. UNCHANGED <<child, parts>>
  <2>1. CASE Web \/ UNCHANGED vars
    BY <2>1 DEF Web, CreateSweep, CreateSweepUnpublished, RerunSweep, DestroySweep,
       OpenForm, SaveForm, vars
  <2>2. ASSUME NEW o \in Orchestrators, Optimize(o) \/ OptimizeFails(o) \/ OptimizeLost(o)
        PROVE  UNCHANGED <<child, parts>>
    BY <2>2 DEF Optimize, TakeOptimize, OptimizeStops, SizeChord, SendChild,
       OptimizeAck, OptimizeFails, OptimizeLost
  <2>3. ASSUME NEW s \in Slots, AckChild(s) \/ ChildLost(s) PROVE UNCHANGED <<child, parts>>
    BY <2>3 DEF AckChild, ChildLost
  <2>4. ASSUME NEW m \in callbacks, FinalizeSweep(m) \/ FinalizeFails(m) PROVE UNCHANGED <<child, parts>>
    BY <2>4 DEF FinalizeSweep, FinalizeFails
  <2> QED
    BY <2>1, <2>2, <2>3, <2>4 DEF Next, RunChild
<1>2. Over(c[1])' => Over(c[1])
  <2>1. CASE Web \/ UNCHANGED vars
    BY <2>1 DEF Web, CreateSweep, CreateSweepUnpublished, RerunSweep, DestroySweep,
       OpenForm, SaveForm, vars, Over
  <2>2. ASSUME NEW o \in Orchestrators, Optimize(o) \/ OptimizeFails(o) \/ OptimizeLost(o)
        PROVE  UNCHANGED <<callbacks, tallied>>
    BY <2>2 DEF Optimize, TakeOptimize, OptimizeStops, SizeChord, SendChild,
       OptimizeAck, OptimizeFails, OptimizeLost
  <2>3. ASSUME NEW s \in Slots, AckChild(s) \/ ChildLost(s) PROVE UNCHANGED <<callbacks, tallied>>
    BY <2>3 DEF AckChild, ChildLost
  <2>4. ASSUME NEW m \in callbacks, FinalizeSweep(m) \/ FinalizeFails(m) PROVE Over(c[1])' => Over(c[1])
    BY <2>4 DEF FinalizeSweep, FinalizeFails, Over
  <2> QED
    BY <2>1, <2>2, <2>3, <2>4 DEF Next, RunChild, Over
<1>3. \A s \in Slots : sjob'[s] = c /\ spc'[s] = "return" =>
        sjob[s] = c /\ spc[s] = "return" /\ soutcome'[s] = soutcome[s]
  <2>1. CASE Web \/ UNCHANGED vars
    BY <2>1 DEF Web, CreateSweep, CreateSweepUnpublished, RerunSweep, DestroySweep,
       OpenForm, SaveForm, vars
  <2>2. ASSUME NEW o \in Orchestrators, Optimize(o) \/ OptimizeFails(o) \/ OptimizeLost(o)
        PROVE  UNCHANGED slotVars
    BY <2>2 DEF Optimize, TakeOptimize, OptimizeStops, SizeChord, SendChild,
       OptimizeAck, OptimizeFails, OptimizeLost
  <2>3. ASSUME NEW t \in Slots, AckChild(t) \/ ChildLost(t),
               NEW s \in Slots, spc'[s] = "return"
        PROVE  sjob'[s] = sjob[s] /\ spc[s] = "return" /\ soutcome'[s] = soutcome[s]
    BY <2>3 DEF AckChild, ChildLost, FreeSlot, Slot, TypeInv, BaseTypes
  <2>4. ASSUME NEW m \in callbacks, FinalizeSweep(m) \/ FinalizeFails(m) PROVE UNCHANGED slotVars
    BY <2>4 DEF FinalizeSweep, FinalizeFails
  <2> QED
    BY <2>1, <2>2, <2>3, <2>4 DEF Next, RunChild
<1> QED
  BY <1>1, <1>2, <1>3, AccountedStays

LEMMA NextOutcomeInv ==
  TypeInv /\ PlaceInv /\ ChordInv /\ OutcomeInv /\ [Next]_vars => OutcomeInv'
<1> SUFFICES ASSUME TypeInv, PlaceInv, ChordInv, OutcomeInv, [Next]_vars,
                    NEW c \in Children, c[1] \notin doubled'
             PROVE  Accounted(c)'
  BY DEF OutcomeInv
<1>1. c[1] \notin doubled /\ c[1] \in Generations
  BY DoubledStays, ChildIsPair
<1>2. Placed(c) /\ Chorded(c[1]) /\ Accounted(c)
  BY <1>1 DEF PlaceInv, ChordInv, OutcomeInv
<1> QED
  BY <1>2, MaterializeAccounts, StartChildAccounts, FinishChildAccounts, PartAccounts,
     CallBackAccounts, DestroyChildAccounts, OthersAccount

-----------------------------------------------------------------------------
(* What the callback counts.                                                 *)

(* The row of a child is written while it has not returned, or is deleted.   *)
LEMMA RowOfOpenChild ==
  ASSUME TypeInv, [Next]_vars, NEW c \in Children, child[c] # "none"
  PROVE  child'[c] = child[c] \/ child'[c] = "deleted" \/ Open(c)
<1> USE DEF sweepVars, optVars, childVars, slotVars, chordVars, orchestrationVars,
        executionVars, boundVars, historyVars
<1> DEFINE G == child'[c] = child[c] \/ child'[c] = "deleted" \/ Open(c)
<1>1. CASE UNCHANGED child
  BY <1>1
<1>2. ASSUME NEW o \in Orchestrators, Materialize(o) PROVE G
  <2>1. c[1] # generation + 1
    BY GenerationsAreNumbers, ChildIsPair DEF TypeInv, BaseTypes, GenerationsInv
  <2> QED
    BY <1>2, <2>1 DEF Materialize, WithChildren
<1>3. ASSUME NEW d \in Children, DestroyChild(d) PROVE G
  BY <1>3 DEF DestroyChild, TypeInv, BaseTypes
<1>4. ASSUME NEW s \in Slots, NEW d \in Children, StartChild(s, d) PROVE G
  <2>1. d \in ready /\ (child' = [child EXCEPT ![d] = "running"] \/ child' = child)
    BY <1>4 DEF StartChild
  <2>2. CASE c = d
    BY <2>1, <2>2 DEF Open
  <2>3. CASE c # d
    BY <2>1, <2>3 DEF TypeInv, BaseTypes
  <2> QED
    BY <2>2, <2>3
<1>5. ASSUME NEW s \in Slots, FinishChild(s) PROVE G
  <2>1. PICK outcome \in Settled :
          child' = IF ChildExists(sjob[s]) THEN [child EXCEPT ![sjob[s]] = outcome] ELSE child
    BY <1>5 DEF FinishChild
  <2>2. CASE c = sjob[s]
    BY <1>5, <2>2 DEF FinishChild, Open, Running
  <2>3. CASE c # sjob[s]
    BY <2>1, <2>3 DEF TypeInv, BaseTypes
  <2> QED
    BY <2>2, <2>3
<1>6. CASE Web \/ UNCHANGED vars
  BY <1>1, <1>6 DEF Web, CreateSweep, CreateSweepUnpublished, RerunSweep,
     DestroySweep, OpenForm, SaveForm, vars
<1>7. ASSUME NEW o \in Orchestrators, Optimize(o) \/ OptimizeFails(o) \/ OptimizeLost(o)
      PROVE  G
  BY <1>1, <1>2, <1>7 DEF Optimize, TakeOptimize, OptimizeStops, SizeChord, SendChild,
     OptimizeAck, OptimizeFails, OptimizeLost
<1>8. ASSUME NEW s \in Slots, RunChild(s) \/ ChildOverruns(s) \/ ChildLost(s) PROVE G
  BY <1>1, <1>5, <1>8 DEF RunChild, ReturnChild, CallBack, AckChild, ChildOverruns, ChildLost
<1>9. ASSUME NEW m \in callbacks, FinalizeSweep(m) \/ FinalizeFails(m) PROVE G
  BY <1>1, <1>9 DEF FinalizeSweep, FinalizeFails
<1> QED
  BY <1>3, <1>4, <1>6, <1>7, <1>8, <1>9 DEF Next

(* A generation that has been tallied, or is about to be, has been created.  *)
LEMMA OverEarlier ==
  ASSUME TypeInv, NEW g \in Generations, Over(g)
  PROVE  g =< generation
  BY DEF Over, TypeInv, GenerationsInv

(* What its children are does not change any more, unless one is deleted.    *)
LEMMA HavingStays ==
  ASSUME TypeInv, PlaceInv, [Next]_vars, NEW g \in Generations \ doubled, Over(g),
         NoneDeleted(g)'
  PROVE  NoneDeleted(g) /\ \A s : Having(g, s)' = Having(g, s)
<1>1. ChildrenOf(g)' = ChildrenOf(g)
  BY OverEarlier, ChildrenSame
<1>2. ASSUME NEW c \in ChildrenOf(g) PROVE child'[c] = child[c]
  <2>1. c \in Children /\ c[1] = g /\ child[c] # "none"
    BY DEF ChildrenOf
  <2>2. ~ Open(c)
    BY <2>1 DEF PlaceInv, Placed
  <2>3. child'[c] # "deleted"
    BY <1>1 DEF NoneDeleted, Having
  <2> QED
    BY <2>1, <2>2, <2>3, RowOfOpenChild
<1>3. \A s : Having(g, s)' = Having(g, s)
  BY <1>1, <1>2 DEF Having
<1> QED
  BY <1>3 DEF NoneDeleted

(* The results with an outcome are as many as the children with it.          *)
LEMMA TallyCounts ==
  ASSUME TypeInv, NEW g \in Generations, Chorded(g), NEW s \in Slots, CallsBack(s, g),
         \A c \in Children : c[1] = g => Accounted(c),
         Tally(g, {"exception"}) = 0, NoneDeleted(g),
         NEW x \in Settled
  PROVE  /\ Tally(g, {x}) = Cardinality(Having(g, x))
         /\ Tally(g, {x, "unknown"}) = Cardinality(Having(g, x))
<1> DEFINE P == {p \in parts[g] : p.status \in {x}}
           Q == {p \in parts[g] : p.status \in {x, "unknown"}}
           f == [p \in P |-> <<g, p.combo>>]
<1>1. ASSUME NEW p \in parts[g]
      PROVE  /\ <<g, p.combo>> \in ChildrenOf(g)
             /\ child[<<g, p.combo>>] = p.status
  <2>1. p.combo \in Combos /\ <<g, p.combo>> \in Children
    BY DEF TypeInv, BaseTypes, Part, Children
  <2>2. <<g, p.combo>> \in ChildrenOf(g)
    BY <2>1 DEF Chorded, ChildrenOf
  <2>3. p.status # "exception"
    BY NoException
  <2>4. child[<<g, p.combo>>] \in {p.status, "deleted"}
    BY <2>1, <2>3 DEF Accounted
  <2>5. child[<<g, p.combo>>] # "deleted"
    BY <2>2 DEF NoneDeleted, Having
  <2> QED
    BY <2>2, <2>4, <2>5
<1>2. \A p \in parts[g] : p.status # "unknown"
  <2> SUFFICES ASSUME NEW p \in parts[g], p.status = "unknown" PROVE FALSE
    OBVIOUS
  <2>1. child[<<g, p.combo>>] \in ChildStatus
    BY <1>1 DEF ChildrenOf, TypeInv, BaseTypes
  <2> QED
    BY <1>1, <2>1 DEF ChildStatus, Settled
<1>3. P = Q
  BY <1>2
<1>4. \A p \in P : f[p] \in Having(g, x)
  BY <1>1 DEF Having
<1>5. f \in [P -> Having(g, x)]
  BY <1>4
<1>6. \A p, q \in P : f[p] = f[q] => p = q
  BY DEF Chorded
<1>7. \A c \in Having(g, x) : \E p \in P : f[p] = c
  <2> SUFFICES ASSUME NEW c \in Having(g, x) PROVE \E p \in P : f[p] = c
    OBVIOUS
  <2>1. c \in ChildrenOf(g) /\ c \in Children /\ c[1] = g /\ child[c] = x
    BY DEF Having, ChildrenOf
  <2>2. PICK p \in parts[g] : p.combo = c[2]
    BY <2>1 DEF Chorded, Returned
  <2>3. <<g, p.combo>> = c
    BY <2>1, <2>2, ChildIsPair
  <2>4. p \in P
    BY <1>1, <2>1, <2>3
  <2> QED
    BY <2>3, <2>4
<1>8. f \in Bijection(P, Having(g, x))
  BY <1>5, <1>6, <1>7 DEF Bijection, Injection, IsInjective, Surjection
<1>9. IsFiniteSet(P)
  BY FS_Subset DEF TypeInv, GenerationsInv
<1>10. Cardinality(Having(g, x)) = Cardinality(P)
  BY <1>8, <1>9, FS_Bijection DEF ExistsBijection
<1> QED
  BY <1>3, <1>10 DEF Tally

(* A message that was there keeps its counts.                                *)
LEMMA CountedStays ==
  ASSUME TypeInv, PlaceInv, [Next]_vars, NEW g \in Generations \ doubled, Counted(g),
         \A m \in callbacks' : m.generation = g => m \in callbacks
  PROVE  Counted(g)'
<1>1. ASSUME NEW m \in callbacks', m.generation = g, NoneDeleted(g)'
      PROVE  /\ m.succeeded = Cardinality(Having(g, "succeeded")')
             /\ m.failed = Cardinality(Having(g, "failed")')
  <2>1. m \in callbacks /\ Over(g)
    BY <1>1 DEF Over
  <2>2. NoneDeleted(g) /\ \A s : Having(g, s)' = Having(g, s)
    BY <1>1, <2>1, HavingStays
  <2> QED
    BY <1>1, <2>1, <2>2 DEF Counted
<1>2. \A m, n \in callbacks' : m.generation = g /\ n.generation = g => m = n
  BY DEF Counted
<1> QED
  BY <1>1, <1>2 DEF Counted

(* The callback of a complete chord is its first, and counts the rows.       *)
LEMMA CallBackCounts ==
  ASSUME TypeInv, PlaceInv, ChordInv, OutcomeInv, [Next]_vars,
         NEW g \in Generations \ doubled, Counted(g), NEW s \in Slots, CallBack(s)
  PROVE  Counted(g)'
<1> DEFINE h == sjob[s][1]
           new == [generation |-> h, latest |-> generation,
                   succeeded  |-> Tally(h, {"succeeded"}),
                   failed     |-> Tally(h, {"failed", "unknown"})]
<1>1. CallsBack(s, h)
  BY DEF CallBack, CallsBack
<1>2. \/ Tally(h, {"exception"}) = 0 /\ callbacks' = callbacks \cup {new}
      \/ UNCHANGED callbacks
  BY DEF CallBack
<1>3. CASE UNCHANGED callbacks \/ g # h
  BY <1>2, <1>3, CountedStays
<1>4. CASE Tally(h, {"exception"}) = 0 /\ callbacks' = callbacks \cup {new} /\ g = h
  <2>1. Chorded(g) /\ ~ Over(g) /\ \A c \in Children : c[1] = g => Accounted(c)
    BY <1>1, <1>4 DEF ChordInv, Chorded, OutcomeInv
  <2>2. \A m \in callbacks' : m.generation = g => m = new
    BY <1>4, <2>1 DEF Over
  <2>3. UNCHANGED child
    BY DEF CallBack, childVars
  <2>4. NoneDeleted(g)' = NoneDeleted(g) /\ \A x : Having(g, x)' = Having(g, x)
    BY <2>3 DEF NoneDeleted, Having, ChildrenOf
  <2>5. ASSUME NoneDeleted(g)
        PROVE  /\ new.succeeded = Cardinality(Having(g, "succeeded"))
               /\ new.failed = Cardinality(Having(g, "failed"))
    BY <1>1, <1>4, <2>1, <2>5, TallyCounts DEF Settled
  <2> HIDE DEF new
  <2> QED
    BY <2>2, <2>4, <2>5 DEF Counted
<1> QED
  BY <1>2, <1>3, <1>4

LEMMA NextCountInv ==
  TypeInv /\ PlaceInv /\ ChordInv /\ OutcomeInv /\ CountInv /\ [Next]_vars => CountInv'
<1> SUFFICES ASSUME TypeInv, PlaceInv, ChordInv, OutcomeInv, CountInv, [Next]_vars,
                    NEW g \in Generations, g \notin doubled'
             PROVE  Counted(g)'
  BY DEF CountInv
<1> USE DEF sweepVars, optVars, childVars, slotVars, chordVars, orchestrationVars,
        executionVars, boundVars, historyVars
<1>1. g \in Generations \ doubled /\ Counted(g)
  BY DoubledStays DEF CountInv
<1>2. CASE callbacks' \subseteq callbacks
  BY <1>1, <1>2, CountedStays
<1>3. ASSUME NEW s \in Slots, CallBack(s) PROVE Counted(g)'
  BY <1>1, <1>3, CallBackCounts
<1>4. CASE Web \/ UNCHANGED vars
  BY <1>2, <1>4 DEF Web, CreateSweep, CreateSweepUnpublished, RerunSweep, DestroySweep,
     OpenForm, SaveForm, vars
<1>5. ASSUME NEW o \in Orchestrators, Optimize(o) \/ OptimizeFails(o) \/ OptimizeLost(o)
      PROVE  UNCHANGED callbacks
  BY <1>5 DEF Optimize, TakeOptimize, OptimizeStops, Materialize, SizeChord, SendChild,
     OptimizeAck, OptimizeFails, OptimizeLost
<1>6. ASSUME NEW s \in Slots, RunChild(s) \/ ChildOverruns(s) \/ ChildLost(s)
      PROVE  CallBack(s) \/ UNCHANGED callbacks
  BY <1>6 DEF RunChild, FinishChild, ReturnChild, AckChild, ChildOverruns, ChildLost
<1>7. ASSUME NEW c \in Children, DestroyChild(c) \/ \E s \in Slots : StartChild(s, c)
      PROVE  UNCHANGED callbacks
  BY <1>7 DEF DestroyChild, StartChild
<1>8. ASSUME NEW m \in callbacks, FinalizeSweep(m) \/ FinalizeFails(m) PROVE callbacks' \subseteq callbacks
  BY <1>8 DEF FinalizeSweep, FinalizeFails
<1> QED
  BY <1>2, <1>3, <1>4, <1>5, <1>6, <1>7, <1>8 DEF Next

-----------------------------------------------------------------------------
(* The row of the sweep.                                                     *)

(* A generation that was tallied is one.                                     *)
LEMMA TalliedGeneration ==
  ASSUME TypeInv, tallied # 0
  PROVE  tallied \in Generations /\ generation \in Generations /\ Over(tallied)
<1>1. generation \in {0} \cup Generations
  BY GenerationInRange
<1>2. tallied \in Nat /\ tallied =< generation /\ generation \in Nat
  BY DEF TypeInv, BaseTypes, GenerationsInv
<1> QED
  BY <1>1, <1>2, BoundsAssumption DEF Generations, Over

(* A step that leaves the row and the history alone keeps what they say, when *)
(* no callback joins those of the generation that was tallied.               *)
LEMMA RowStays ==
  ASSUME TypeInv, PlaceInv, RowInv, [Next]_vars,
         UNCHANGED <<sweep, generation, tallied>>, ~ overwritten' => ~ overwritten,
         form' = NoForm \/ form'.status \notin {"none", "deleted"},
         \A m \in callbacks' : tallied \in Generations \ doubled /\ m.generation = tallied
                               => m \in callbacks
  PROVE  RowInv'
<1>1. ASSUME generation > 0 PROVE ChildrenOf(generation)' = ChildrenOf(generation)
  <2>1. generation \in Generations /\ generation =< generation
    BY <1>1, GenerationInRange DEF TypeInv, BaseTypes
  <2>2. ChildrenOf(generation)' = {c \in Children : c[1] = generation /\ child'[c] # "none"}
    BY DEF ChildrenOf
  <2>3. \A g \in Generations : g =< generation =>
          {c \in Children : c[1] = g /\ child'[c] # "none"} = ChildrenOf(g)
    BY ChildrenSame DEF ChildrenOf
  <2> QED
    BY <2>1, <2>2, <2>3
<1>2. ~ overwritten' /\ generation' > 0 /\ SweepExists' =>
        sweep'.total = Cardinality(ChildrenOf(generation)')
  BY <1>1 DEF RowInv, SweepExists
<1>3. ASSUME ~ overwritten', sweep'.status \in Final, tallied' \notin doubled'
      PROVE  /\ NoneDeleted(tallied)' =>
                  /\ sweep'.succeeded = Cardinality(Having(tallied, "succeeded")')
                  /\ sweep'.failed = Cardinality(Having(tallied, "failed")')
             /\ \A m \in callbacks' : m.generation = tallied' =>
                  m.succeeded = sweep'.succeeded /\ m.failed = sweep'.failed
  <2>1. tallied # 0 /\ tallied \notin doubled
    BY <1>3, DoubledStays DEF RowInv
  <2>2. tallied \in Generations \ doubled /\ Over(tallied)
    BY <2>1, TalliedGeneration
  <2>3. \A g \in Generations \ doubled : Over(g) /\ (Having(g, "deleted") = {})' =>
          NoneDeleted(g) /\ \A s : Having(g, s)' = Having(g, s)
    BY HavingStays DEF NoneDeleted
  <2>4. \A g, x : Having(g, x)' = {c \in Children : (c[1] = g /\ child'[c] # "none") /\ child'[c] = x}
    BY DEF Having, ChildrenOf
  <2>5. \A x : Having(tallied, x)' = {c \in Children : (c[1] = tallied /\ child'[c] # "none") /\ child'[c] = x}
    BY DEF Having, ChildrenOf
  <2>6. ASSUME NoneDeleted(tallied)'
        PROVE  NoneDeleted(tallied) /\ \A x : Having(tallied, x)' = Having(tallied, x)
    BY <2>2, <2>3, <2>4, <2>5, <2>6 DEF NoneDeleted
  <2> QED
    BY <1>3, <2>1, <2>2, <2>6 DEF RowInv
<1> QED
  BY <1>2, <1>3 DEF RowInv

(* optimize writes the number of the children it creates.                    *)
LEMMA MaterializeRow ==
  ASSUME TypeInv, RowInv, NEW o \in Orchestrators, Materialize(o)
  PROVE  RowInv'
<1> DEFINE g == generation + 1
           K == to_send[o]
           f == [k \in K |-> <<g, k>>]
           New == {c \in Children : c[1] = g /\ child'[c] # "none"}
<1>1. g \in Generations /\ K \in SUBSET Combos
  BY RoomForOne DEF Materialize, TypeInv, BaseTypes
<1>2. \A c \in Children : c[1] = g => (child'[c] # "none" <=> c[2] \in K)
  <2> SUFFICES ASSUME NEW c \in Children, c[1] = g PROVE child'[c] # "none" <=> c[2] \in K
    OBVIOUS
  <2>1. child[c] = "none"
    BY ChildIsPair DEF TypeInv, BaseTypes, GenerationsInv
  <2> QED
    BY <2>1 DEF Materialize, WithChildren
<1>3. \A k \in K : <<g, k>> \in Children
  BY <1>1 DEF Children
<1>4. f \in [K -> New]
  BY <1>2, <1>3
<1>5. \A c \in New : \E k \in K : f[k] = c
  BY <1>2, ChildIsPair
<1>6. f \in Bijection(K, New)
  BY <1>4, <1>5 DEF Bijection, Injection, IsInjective, Surjection
<1>7. Cardinality(New) = Cardinality(K)
  BY <1>1, <1>6, CombosAreFinite, FS_Bijection DEF ExistsBijection
<1>8. /\ generation' = g /\ UNCHANGED form
      /\ sweep' = [sweep EXCEPT !.status = "running", !.total = Cardinality(K),
                                !.succeeded = 0, !.failed = 0]
  BY DEF Materialize
<1>9. ChildrenOf(generation)' = New
  BY <1>8 DEF ChildrenOf
<1>10. sweep'.status = "running" /\ sweep'.total = Cardinality(K)
  BY <1>8 DEF TypeInv, BaseTypes, Rows
<1>11. sweep'.status \notin Final
  BY <1>10 DEF Final
<1> HIDE DEF g, K, New
<1> QED
  BY <1>7, <1>8, <1>9, <1>10, <1>11 DEF RowInv

(* A callback counts the generation it was published for, and its outcome    *)
(* follows from that count and the row's total.                              *)
LEMMA FinalizeRow ==
  ASSUME TypeInv, PlaceInv, CountInv, RowInv, [Next]_vars,
         NEW m \in callbacks, FinalizeSweep(m) \/ FinalizeFails(m)
  PROVE  RowInv'
<1>1. UNCHANGED <<form, generation, child, doubled, overwritten>> /\ callbacks' \subseteq callbacks
  BY DEF FinalizeSweep, FinalizeFails, childVars, orchestrationVars, sweepVars
<1>2. CASE UNCHANGED <<sweep, tallied>>
  BY <1>1, <1>2, RowStays DEF RowInv
<1>3. CASE SweepExists /\ sweep' = Finalized(m) /\ tallied' = m.generation
  <2> DEFINE g == m.generation
  <2>1. g \in Generations /\ g # 0
    BY GenerationsAreNumbers DEF TypeInv, BaseTypes, Callback
  <2>2. /\ sweep'.succeeded = m.succeeded /\ sweep'.failed = m.failed
        /\ sweep'.total = sweep.total
        /\ sweep'.status = Outcome(m.succeeded, sweep.total)
    BY <1>3 DEF Finalized, TypeInv, BaseTypes, Rows
  <2>3. sweep'.status \in Final
    BY <2>2 DEF Outcome, Final
  <2>4. ChildrenOf(generation)' = ChildrenOf(generation)
    BY <1>1 DEF ChildrenOf
  <2>5. \A x : Having(tallied, x)' = Having(g, x)
    BY <1>1, <1>3 DEF Having, ChildrenOf
  <2>6. NoneDeleted(tallied)' = NoneDeleted(g)
    BY <2>5 DEF NoneDeleted
  <2>7. ASSUME g \notin doubled
        PROVE  /\ NoneDeleted(g) => /\ m.succeeded = Cardinality(Having(g, "succeeded"))
                                    /\ m.failed = Cardinality(Having(g, "failed"))
               /\ \A n \in callbacks : n.generation = g => n = m
    BY <2>1, <2>7 DEF CountInv, Counted
  <2>8. Outcome(sweep.succeeded, sweep.total)' = Outcome(m.succeeded, sweep.total)
    BY <2>2 DEF Outcome
  <2>9. sweep'.status # "none"
    BY <2>3 DEF Final
  <2>10. (~ overwritten /\ generation > 0 /\ SweepExists =>
           sweep.total = Cardinality(ChildrenOf(generation)))'
    BY <1>1, <1>3, <2>2, <2>4 DEF RowInv
  <2>11. (~ overwritten /\ sweep.status \in Final =>
           /\ tallied # 0
           /\ sweep.status = Outcome(sweep.succeeded, sweep.total)
           /\ tallied \notin doubled =>
                /\ NoneDeleted(tallied) =>
                     /\ sweep.succeeded = Cardinality(Having(tallied, "succeeded"))
                     /\ sweep.failed = Cardinality(Having(tallied, "failed"))
                /\ \A n \in callbacks : n.generation = tallied =>
                     n.succeeded = sweep.succeeded /\ n.failed = sweep.failed)'
    <3>1. tallied' # 0 /\ sweep'.status = Outcome(sweep.succeeded, sweep.total)'
      BY <1>3, <2>1, <2>2, <2>8
    <3>2. ASSUME tallied' \notin doubled'
          PROVE  /\ NoneDeleted(tallied)' =>
                      /\ sweep'.succeeded = Cardinality(Having(tallied, "succeeded")')
                      /\ sweep'.failed = Cardinality(Having(tallied, "failed")')
                 /\ \A n \in callbacks' : n.generation = tallied' =>
                      n.succeeded = sweep'.succeeded /\ n.failed = sweep'.failed
      BY <1>1, <1>3, <2>2, <2>5, <2>6, <2>7, <3>2
    <3> QED
      BY <3>1, <3>2
  <2> QED
    BY <1>1, <2>9, <2>10, <2>11 DEF RowInv
<1>4. CASE FinalizeFails(m)
  BY <1>2, <1>4 DEF FinalizeFails, orchestrationVars, sweepVars
<1> QED
  BY <1>2, <1>3, <1>4 DEF FinalizeSweep

LEMMA NextRowInv ==
  TypeInv /\ PlaceInv /\ ChordInv /\ CountInv /\ RowInv /\ [Next]_vars => RowInv'
<1> SUFFICES ASSUME TypeInv, PlaceInv, ChordInv, CountInv, RowInv, [Next]_vars PROVE RowInv'
  OBVIOUS
<1> USE DEF sweepVars, optVars, childVars, slotVars, chordVars, orchestrationVars,
        executionVars, boundVars, historyVars
<1>f. form = NoForm \/ form.status \notin {"none", "deleted"}
  BY DEF RowInv
<1>1. ASSUME UNCHANGED <<sweep, form, generation, overwritten, tallied, callbacks>> PROVE RowInv'
  BY <1>f, <1>1, RowStays
<1>2. CASE CreateSweep \/ CreateSweepUnpublished
  <2>1. generation' = 0 /\ form' = form /\ sweep'.status = "pending"
    BY <1>2 DEF CreateSweep, CreateSweepUnpublished, RowInv, NewRow
  <2> QED
    BY <2>1 DEF RowInv, Final
<1>3. CASE RerunSweep
  BY <1>1, <1>3 DEF RerunSweep
<1>4. CASE DestroySweep
  <2>1. form' = form /\ sweep'.status = "deleted"
    BY <1>4 DEF DestroySweep, NewRow
  <2> QED
    BY <2>1 DEF RowInv, Final, SweepExists
<1>5. CASE OpenForm
  BY <1>5, RowStays DEF OpenForm, SweepExists
<1>6. CASE SaveForm
  <2>1. form' = NoForm
    BY <1>6 DEF SaveForm
  <2>2. sweep'.status # "none"
    BY <1>6 DEF SaveForm, Choices, Final, TypeInv, BaseTypes, Rows
  <2>3. CASE overwritten'
    BY <2>1, <2>2, <2>3 DEF RowInv
  <2>4. CASE ~ overwritten'
    <3>1. UNCHANGED <<generation, tallied, callbacks>> /\ overwritten' = (overwritten \/ sweep' # sweep)
      BY <1>6 DEF SaveForm
    <3>2. ~ overwritten /\ sweep' = sweep
      BY <2>4, <3>1, Zenon
    <3> QED
      BY <2>1, <3>1, <3>2, RowStays
  <2> QED
    BY <2>3, <2>4
<1>7. ASSUME NEW o \in Orchestrators, Materialize(o) PROVE RowInv'
  BY <1>7, MaterializeRow
<1>8. ASSUME NEW s \in Slots, CallBack(s) PROVE RowInv'
  <2>1. CallsBack(s, sjob[s][1])
    BY <1>8 DEF CallBack, CallsBack
  <2>2. \A m \in callbacks' : m \in callbacks \/ m.generation = sjob[s][1]
    BY <1>8 DEF CallBack
  <2>3. ASSUME tallied \in Generations \ doubled PROVE sjob[s][1] # tallied
    BY <2>1, <2>3 DEF ChordInv, Chorded, Over
  <2>4. \A m \in callbacks' : tallied \in Generations \ doubled /\ m.generation = tallied
                               => m \in callbacks
    BY <2>2, <2>3
  <2>5. UNCHANGED <<sweep, form, generation, overwritten, tallied>>
    BY <1>8 DEF CallBack
  <2> QED
    BY <1>f, <2>4, <2>5, RowStays
<1>9. ASSUME NEW m \in callbacks, FinalizeSweep(m) \/ FinalizeFails(m) PROVE RowInv'
  BY <1>9, FinalizeRow
<1>10. ASSUME NEW o \in Orchestrators, Optimize(o) \/ OptimizeFails(o) \/ OptimizeLost(o)
       PROVE  Materialize(o) \/ UNCHANGED <<sweep, form, generation, overwritten, tallied, callbacks>>
  BY <1>10 DEF Optimize, TakeOptimize, OptimizeStops, SizeChord, SendChild,
     OptimizeAck, OptimizeFails, OptimizeLost
<1>11. ASSUME NEW s \in Slots, RunChild(s) \/ ChildOverruns(s) \/ ChildLost(s)
       PROVE  CallBack(s) \/ UNCHANGED <<sweep, form, generation, overwritten, tallied, callbacks>>
  BY <1>11 DEF RunChild, FinishChild, ReturnChild, AckChild, ChildOverruns, ChildLost
<1>12. ASSUME NEW c \in Children, DestroyChild(c) \/ \E s \in Slots : StartChild(s, c)
       PROVE  UNCHANGED <<sweep, form, generation, overwritten, tallied, callbacks>>
  BY <1>12 DEF DestroyChild, StartChild
<1>13. CASE UNCHANGED vars
  BY <1>1, <1>13 DEF vars
<1> QED
  BY <1>1, <1>2, <1>3, <1>4, <1>5, <1>6, <1>7, <1>8, <1>9, <1>10, <1>11, <1>12, <1>13
     DEF Next, Web

-----------------------------------------------------------------------------
(* TallyInv: a child is in one place at a time, its chord holds its result    *)
(* once, the callback counts the rows and the row has the counts, whatever  *)
(* is lost, delivered again, deleted, refused or edited.                     *)
THEOREM TallyInvariant == Spec => []TallyInv
<1>1. TallyInv /\ [Next]_vars => TallyInv'
  BY NextTypeInv, NextDispatchInv, NextPlaceInv, NextChordInv, NextOutcomeInv, NextCountInv,
     NextRowInv DEF TallyInv
<1> QED
  BY <1>1, InitTallyInv, PTL DEF Spec

(* A final status, in a state of the invariant, was earned.                  *)
LEMMA TallyInvMatches == TallyInv => TallyMatches
<1> SUFFICES ASSUME TallyInv, sweep.status \in Final, tallied \notin doubled,
                    Having(tallied, "deleted") = {}, ~ overwritten,
                    Cardinality(ChildrenOf(tallied)) = Cardinality(ChildrenOf(generation))
             PROVE  /\ ChildrenOf(tallied) = Having(tallied, "succeeded") \cup Having(tallied, "failed")
                    /\ sweep.succeeded = Cardinality(Having(tallied, "succeeded"))
                    /\ sweep.failed = Cardinality(Having(tallied, "failed"))
                    /\ sweep.succeeded + sweep.failed = sweep.total
                    /\ sweep.status = "succeeded" <=> Having(tallied, "failed") = {}
  BY DEF TallyMatches, Having
<1> DEFINE C == ChildrenOf(tallied)
           S == Having(tallied, "succeeded")
           F == Having(tallied, "failed")
<1> USE DEF TallyInv
<1>1. tallied # 0 /\ sweep.status = Outcome(sweep.succeeded, sweep.total)
  BY DEF RowInv
<1>2. tallied \in Generations /\ generation \in Generations /\ Over(tallied)
  BY <1>1, TalliedGeneration
<1>3. sweep.succeeded = Cardinality(S) /\ sweep.failed = Cardinality(F)
  BY DEF RowInv, NoneDeleted
<1>4. \A c \in C : child[c] \in {"succeeded", "failed"}
  BY <1>2 DEF OutcomeInv, Accounted, Settled, Having, ChildrenOf
<1>5. C = S \cup F /\ S \cap F = {}
  BY <1>4 DEF Having
<1>6. IsFiniteSet(S) /\ IsFiniteSet(F)
  BY <1>2, <1>5, ChildrenAreFinite, FS_Subset
<1>7. Cardinality(S) \in Nat /\ Cardinality(F) \in Nat
  BY <1>6, FS_CardinalityType
<1>8. Cardinality(C) = Cardinality(S) + Cardinality(F)
  <2>1. Cardinality(S \cup F) = Cardinality(S) + Cardinality(F) - Cardinality(S \cap F)
    BY <1>6, FS_Union
  <2>2. Cardinality(S \cap F) = 0
    BY <1>5, FS_EmptySet
  <2> HIDE DEF C, S, F
  <2> QED
    BY <1>5, <1>7, <2>1, <2>2
<1>9. sweep.total = Cardinality(C)
  <2>1. SweepExists /\ generation > 0
    BY <1>2, GenerationsAreNumbers DEF SweepExists, Final
  <2> QED
    BY <2>1 DEF RowInv
<1>10. Cardinality(F) = 0 <=> F = {}
  BY <1>6, FS_EmptySet
<1>11. sweep.status = "succeeded" <=> sweep.succeeded = sweep.total
  BY <1>1 DEF Outcome
<1> QED
  BY <1>3, <1>5, <1>7, <1>8, <1>9, <1>10, <1>11

(* TallyMatches: the row of a finished sweep has exactly the counts of its    *)
(* children, every one of which has settled, for any grid, any number of    *)
(* slots and any number of faults of the kinds the model has.                *)
THEOREM SweepTallies == Spec => []TallyMatches
  BY TallyInvariant, TallyInvMatches, PTL

(* What CallbacksIdempotent says of a step.                                  *)
SameTally ==
  sweep.status \in Final /\ sweep'.status \in Final /\ tallied' = tallied
    => \/ [sweep' EXCEPT !.finished = sweep.finished] = sweep
       \/ tallied \in doubled \/ overwritten'

LEMMA NextSameTally == TallyInv /\ [Next]_vars => [SameTally]_vars
<1> SUFFICES ASSUME TallyInv, [Next]_vars PROVE SameTally
  OBVIOUS
<1> SUFFICES ASSUME sweep.status \in Final, sweep'.status \in Final, tallied' = tallied,
                    tallied \notin doubled, ~ overwritten'
             PROVE  [sweep' EXCEPT !.finished = sweep.finished] = sweep
  BY DEF SameTally
<1>0. ASSUME sweep' = sweep PROVE [sweep' EXCEPT !.finished = sweep.finished] = sweep
  BY <1>0 DEF TallyInv, TypeInv, BaseTypes, Rows
<1> USE DEF sweepVars, optVars, childVars, slotVars, chordVars, orchestrationVars,
        executionVars, boundVars, historyVars
<1>1. ASSUME Web PROVE sweep' = sweep
  <2>1. CASE SaveForm
    <3>1. overwritten' = (overwritten \/ sweep' # sweep)
      BY <2>1 DEF SaveForm
    <3> QED
      BY <3>1, Zenon
  <2> QED
    BY <1>1, <2>1 DEF Web, CreateSweep, CreateSweepUnpublished, RerunSweep, DestroySweep,
       OpenForm, NewRow, Final
<1>2. ASSUME NEW o \in Orchestrators, Optimize(o) \/ OptimizeFails(o) \/ OptimizeLost(o)
      PROVE  sweep' = sweep
  BY <1>2 DEF Optimize, TakeOptimize, OptimizeStops, Materialize, SizeChord, SendChild,
     OptimizeAck, OptimizeFails, OptimizeLost, Final, TallyInv, TypeInv, BaseTypes, Rows
<1>3. ASSUME NEW s \in Slots, RunChild(s) \/ ChildOverruns(s) \/ ChildLost(s)
      PROVE  sweep' = sweep
  BY <1>3 DEF RunChild, FinishChild, ReturnChild, CallBack, AckChild, ChildOverruns, ChildLost
<1>4. ASSUME NEW c \in Children, DestroyChild(c) \/ \E s \in Slots : StartChild(s, c)
      PROVE  sweep' = sweep
  BY <1>4 DEF DestroyChild, StartChild
<1>5. ASSUME NEW m \in callbacks, FinalizeSweep(m) \/ FinalizeFails(m)
      PROVE  [sweep' EXCEPT !.finished = sweep.finished] = sweep
  <2>1. CASE UNCHANGED sweep
    BY <1>0, <2>1
  <2>2. CASE sweep' = Finalized(m) /\ tallied' = m.generation
    <3>1. ~ overwritten
      BY <1>5 DEF FinalizeSweep, FinalizeFails
    <3>2. /\ sweep.status = Outcome(sweep.succeeded, sweep.total)
          /\ m.succeeded = sweep.succeeded /\ m.failed = sweep.failed
      BY <2>2, <3>1 DEF TallyInv, RowInv
    <3>3. sweep \in Rows
      BY DEF TallyInv, TypeInv, BaseTypes
    <3> QED
      BY <2>2, <3>2, <3>3 DEF Finalized, Rows
  <2> QED
    BY <1>5, <2>1, <2>2 DEF FinalizeSweep, FinalizeFails
<1>6. ASSUME UNCHANGED vars PROVE sweep' = sweep
  BY <1>6 DEF vars
<1> QED
  BY <1>0, <1>1, <1>2, <1>3, <1>4, <1>5, <1>6 DEF Next

(* CallbacksIdempotent: finalize_sweep run again for a generation writes the  *)
(* status and the counters it has written, because every callback of that    *)
(* generation is the same; only finished_at and duration_ms are new.         *)
THEOREM FinalizeIdempotent == Spec => CallbacksIdempotent
<1>1. Spec => [][SameTally]_vars
  BY NextSameTally, TallyInvariant, PTL DEF Spec
<1> QED
  BY <1>1 DEF CallbacksIdempotent, SameTally

-----------------------------------------------------------------------------
(* What is under way while the sweep waits.                                  *)

Called(g)      == \E m \in callbacks : m.generation = g
Dispatching(g) == \E o \in Orchestrators : opc[o] = "dispatch" /\ ogen[o] = g

(* The chord of a generation that has not been called back can complete:     *)
(* every child is on its way or has left a result which is no exception, the *)
(* size is there as soon as all have been sent, and the slot that added the  *)
(* last result is about to call back.                                        *)
Collecting(g) ==
  /\ \A c \in ChildrenOf(g) : Open(c) \/ Returned(c)
  /\ \A p \in parts[g] : p.status # "exception"
  /\ Dispatching(g) \/ chord_size[g] # 0
  /\ (\A c \in ChildrenOf(g) : Returned(c)) => \E s \in Slots : CallsBack(s, g)

Whole(g) == g \notin broken /\ g \notin doubled

UnderWayInv ==
  /\ \A m \in callbacks : m.generation =< m.latest
  /\ sweep.status = "pending" /\ ~ overwritten /\ ~ unqueued =>
       optimizing > 0 \/ \E o \in Orchestrators : opc[o] = "materialize"
  /\ sweep.status = "running" /\ ~ overwritten =>
       /\ generation # 0
       /\ Whole(generation) => Called(generation) \/ Collecting(generation)

(* A chord that is broken stays so.                                          *)
LEMMA BrokenStays == ASSUME [Next]_vars PROVE broken \subseteq broken'
<1> USE DEF sweepVars, optVars, childVars, slotVars, chordVars, orchestrationVars,
        executionVars, boundVars, historyVars
<1>1. ASSUME NEW o \in Orchestrators, Optimize(o) \/ OptimizeFails(o) \/ OptimizeLost(o)
      PROVE  broken \subseteq broken'
  BY <1>1 DEF Optimize, TakeOptimize, OptimizeStops, Materialize, SizeChord, SendChild,
     OptimizeAck, OptimizeFails, OptimizeLost
<1>2. ASSUME NEW s \in Slots, RunChild(s) \/ ChildOverruns(s) \/ ChildLost(s)
      PROVE  broken \subseteq broken'
  BY <1>2 DEF RunChild, FinishChild, ReturnChild, CallBack, AckChild, ChildOverruns, ChildLost
<1>3. CASE Web \/ UNCHANGED vars
  BY <1>3 DEF Web, CreateSweep, CreateSweepUnpublished, RerunSweep, DestroySweep,
     OpenForm, SaveForm, vars
<1>4. ASSUME NEW c \in Children, DestroyChild(c) \/ \E s \in Slots : StartChild(s, c)
      PROVE  UNCHANGED broken
  BY <1>4 DEF DestroyChild, StartChild
<1>5. ASSUME NEW m \in callbacks, FinalizeSweep(m) \/ FinalizeFails(m)
      PROVE  broken \subseteq broken'
  BY <1>5 DEF FinalizeSweep, FinalizeFails
<1> QED
  BY <1>1, <1>2, <1>3, <1>4, <1>5 DEF Next

(* A generation that is being dispatched has a child that is not sent.       *)
LEMMA DispatchingUnsent ==
  ASSUME TypeInv, DispatchInv, NEW g, Dispatching(g)
  PROVE  \E c \in ChildrenOf(g) : Unsent(c)
<1>1. PICK o \in Orchestrators : opc[o] = "dispatch" /\ ogen[o] = g
  BY DEF Dispatching
<1>2. PICK k \in to_send[o] : TRUE
  BY <1>1 DEF DispatchInv
<1>3. <<g, k>> \in Children /\ child[<<g, k>>] # "none"
  BY <1>1 DEF TypeInv, BaseTypes, GenerationsInv, Children
<1>4. <<g, k>> \in ChildrenOf(g) /\ Unsent(<<g, k>>)
  BY <1>1, <1>3 DEF ChildrenOf, Unsent
<1> QED
  BY <1>4

(* Results of all children, one of each, are as many as the children.        *)
LEMMA OneOfEach ==
  ASSUME NEW g \in Generations, NEW P, IsFiniteSet(P),
         \A p, q \in P : p.combo = q.combo => p = q,
         \A p \in P : <<g, p.combo>> \in ChildrenOf(g),
         \A c \in ChildrenOf(g) : \E p \in P : p.combo = c[2]
  PROVE  Cardinality(P) = Cardinality(ChildrenOf(g))
<1> DEFINE f == [p \in P |-> <<g, p.combo>>]
<1>1. f \in [P -> ChildrenOf(g)]
  OBVIOUS
<1>2. \A p, q \in P : f[p] = f[q] => p = q
  OBVIOUS
<1>3. \A c \in ChildrenOf(g) : \E p \in P : f[p] = c
  <2> SUFFICES ASSUME NEW c \in ChildrenOf(g) PROVE \E p \in P : f[p] = c
    OBVIOUS
  <2>1. PICK p \in P : p.combo = c[2]
    OBVIOUS
  <2>2. c \in Children /\ c[1] = g
    BY DEF ChildrenOf
  <2>3. <<g, p.combo>> = c
    BY <2>1, <2>2, ChildIsPair
  <2> QED
    BY <2>3
<1>4. f \in Bijection(P, ChildrenOf(g))
  BY <1>1, <1>2, <1>3 DEF Bijection, Injection, IsInjective, Surjection
<1> QED
  BY <1>4, FS_Bijection DEF ExistsBijection

(* Most steps take nothing away.                                             *)
LEMMA CollectingStays ==
  ASSUME TypeInv, [Next]_vars, NEW g \in Generations, g =< generation, Collecting(g),
         \A c \in Children : c[1] = g /\ Open(c) => Open(c)',
         parts'[g] = parts[g],
         Dispatching(g) \/ chord_size[g] # 0 => Dispatching(g)' \/ chord_size'[g] # 0,
         \A s \in Slots : CallsBack(s, g) => CallsBack(s, g)'
  PROVE  Collecting(g)'
<1>1. ChildrenOf(g)' = ChildrenOf(g)
  BY ChildrenSame
<1>2. \A c \in ChildrenOf(g) : c \in Children /\ c[1] = g
  BY DEF ChildrenOf
<1>3. \A c \in ChildrenOf(g) : Returned(c)' = Returned(c)
  BY <1>2 DEF Returned
<1>4. \A c \in ChildrenOf(g) : Open(c)' \/ Returned(c)'
  BY <1>2, <1>3 DEF Collecting
<1>5. (\A c \in ChildrenOf(g) : Returned(c)') => \E s \in Slots : CallsBack(s, g)'
  BY <1>3 DEF Collecting
<1>6. \A p \in parts'[g] : p.status # "exception"
  BY DEF Collecting
<1>7. Dispatching(g)' \/ chord_size'[g] # 0
  BY DEF Collecting
<1> QED
  BY <1>1, <1>4, <1>5, <1>6, <1>7 DEF Collecting

(* A new generation has all its children to send.                            *)
LEMMA MaterializeCollects ==
  ASSUME TypeInv, NEW o \in Orchestrators, Materialize(o),
         NEW g \in Generations, g = generation + 1
  PROVE  Collecting(g)'
<1>1. g > generation
  BY DEF TypeInv, BaseTypes
<1>2. opc'[o] = "dispatch" /\ ogen'[o] = g /\ to_send'[o] = to_send[o]
  BY DEF Materialize, Optimizer, TypeInv, BaseTypes
<1>3. generation' = g /\ parts' = parts /\ child' = WithChildren(g, to_send[o])
  BY DEF Materialize, chordVars
<1>4. PICK k \in to_send[o] : k \in Combos
  BY DEF Materialize, TypeInv, BaseTypes
<1>5. parts[g] = {}
  BY <1>1 DEF TypeInv, GenerationsInv
<1>6. \A c \in Children : c[1] = g => child[c] = "none"
  BY <1>1 DEF TypeInv, BaseTypes, GenerationsInv
<1>7. ASSUME NEW c \in Children, c[1] = g, child'[c] # "none"
      PROVE  Unsent(c)' /\ ~ Returned(c)'
  <2>1. c[2] \in to_send[o]
    BY <1>3, <1>6, <1>7 DEF WithChildren
  <2> QED
    BY <1>2, <1>3, <1>5, <1>7, <2>1 DEF Unsent, Returned
<1>8. <<g, k>> \in Children /\ <<g, k>>[1] = g /\ child'[<<g, k>>] # "none"
  BY <1>1, <1>3, <1>4 DEF Children, WithChildren
<1>9. \A c : c \in ChildrenOf(g)' <=> c \in Children /\ c[1] = g /\ child'[c] # "none"
  BY DEF ChildrenOf
<1>10. \A c \in ChildrenOf(g)' : Open(c)' /\ ~ Returned(c)'
  BY <1>7, <1>9 DEF Open
<1>11. <<g, k>> \in ChildrenOf(g)'
  BY <1>8, <1>9
<1>12. Dispatching(g)'
  BY <1>2 DEF Dispatching
<1>13. \A p \in parts'[g] : p.status # "exception"
  BY <1>3, <1>5
<1> QED
  BY <1>10, <1>11, <1>12, <1>13 DEF Collecting

(* A child that is sent is ready, and the last one is sent after the size.   *)
LEMMA SendChildCollects ==
  ASSUME TypeInv, [Next]_vars, NEW g \in Generations, g =< generation, Collecting(g),
         NEW o \in Orchestrators, SendChild(o)
  PROVE  Collecting(g)'
<1>1. PICK k \in to_send[o] : /\ ready' = ready \cup {<<ogen[o], k>>}
                            /\ to_send' = [to_send EXCEPT ![o] = @ \ {k}]
  BY DEF SendChild
<1>2. to_send'[o] = to_send[o] \ {k}
  BY <1>1 DEF TypeInv, BaseTypes
<1>3. \A oo \in Orchestrators \ {o} : opc'[oo] = opc[oo] /\ to_send'[oo] = to_send[oo]
  BY <1>1 DEF SendChild, Optimizer, TypeInv, BaseTypes
<1>4. UNCHANGED <<ogen, spc, sjob, parts, chord_size>>
  BY DEF SendChild, slotVars, chordVars
<1>5. to_send'[o] # {} => opc'[o] = "dispatch"
  BY DEF SendChild, Optimizer, TypeInv, BaseTypes
<1>6. to_send'[o] = {} => chord_size[ogen[o]] # 0
  <2> SUFFICES ASSUME to_send'[o] = {} PROVE chord_size[ogen[o]] # 0
    OBVIOUS
  <2>1. to_send[o] = {k}
    BY <1>2
  <2>2. Cardinality(to_send[o]) = 1
    BY <2>1, FS_Singleton
  <2> QED
    BY <2>2 DEF SendChild
<1>7. ASSUME NEW c \in Children, Open(c) PROVE Open(c)'
  <2>1. CASE c \in ready \/ Running(c)
    BY <1>1, <1>4, <2>1 DEF Open, Running
  <2>2. ASSUME NEW oo \in Orchestrators, opc[oo] = "dispatch", ogen[oo] = c[1],
               c[2] \in to_send[oo]
        PROVE  Open(c)'
    <3>1. CASE oo # o
      BY <1>3, <1>4, <2>2, <3>1 DEF Open, Unsent
    <3>2. CASE oo = o /\ c[2] # k
      BY <1>2, <1>4, <1>5, <2>2, <3>2 DEF Open, Unsent
    <3>3. CASE oo = o /\ c[2] = k
      <4>1. c = <<ogen[o], k>>
        BY <2>2, <3>3, ChildIsPair
      <4> QED
        BY <1>1, <4>1 DEF Open
    <3> QED
      BY <3>1, <3>2, <3>3
  <2>3. Unsent(c) => Open(c)'
    BY <2>2 DEF Unsent
  <2>4. Unsent(c) \/ c \in ready \/ Running(c)
    BY <1>7 DEF Open
  <2> QED
    BY <2>1, <2>3, <2>4
<1>8. ASSUME NEW oo \in Orchestrators, opc[oo] = "dispatch", ogen[oo] = g
      PROVE  Dispatching(g)' \/ chord_size'[g] # 0
  BY <1>3, <1>4, <1>5, <1>6, <1>8 DEF Dispatching
<1>9. Dispatching(g) \/ chord_size[g] # 0 => Dispatching(g)' \/ chord_size'[g] # 0
  BY <1>4, <1>8 DEF Dispatching
<1>10. \A s \in Slots : CallsBack(s, g) => CallsBack(s, g)'
  BY <1>4 DEF CallsBack
<1> QED
  BY <1>4, <1>7, <1>9, <1>10, CollectingStays

(* The size is that of a generation that has children.                       *)
LEMMA SizeChordCollects ==
  ASSUME TypeInv, [Next]_vars, NEW g \in Generations, g =< generation,
         Collecting(g), NEW o \in Orchestrators, SizeChord(o)
  PROVE  Collecting(g)'
<1>1. UNCHANGED <<optVars, ready, slotVars, parts>>
  BY DEF SizeChord, orchestrationVars, childVars
<1>2. Dispatching(g)' = Dispatching(g)
  BY <1>1 DEF Dispatching, optVars
<1>3. ogen[o] # g => chord_size'[g] = chord_size[g]
  BY DEF SizeChord, TypeInv, BaseTypes
<1>4. ogen[o] = g => Dispatching(g)
  BY DEF SizeChord, Dispatching
<1>5. \A c \in Children : Open(c)' = Open(c)
  BY <1>1 DEF Open, Unsent, Running, optVars, slotVars
<1>6. \A s \in Slots : CallsBack(s, g)' = CallsBack(s, g)
  BY <1>1 DEF CallsBack, slotVars
<1> QED
  BY <1>1, <1>2, <1>3, <1>4, <1>5, <1>6, CollectingStays

(* No other step of optimize touches a chord that it does not break.         *)
LEMMA OptimizeCollects ==
  ASSUME TypeInv, [Next]_vars, NEW g \in Generations, g =< generation, Collecting(g),
         g \notin broken', NEW o \in Orchestrators,
         \/ TakeOptimize(o) \/ OptimizeStops(o) \/ OptimizeAck(o)
         \/ OptimizeFails(o) \/ OptimizeLost(o)
  PROVE  Collecting(g)'
<1>1. UNCHANGED <<ready, slotVars, chordVars>>
  BY DEF TakeOptimize, OptimizeStops, OptimizeAck, OptimizeFails, OptimizeLost,
     executionVars, childVars
<1>2. \A oo \in Orchestrators : opc[oo] = "dispatch" /\ ogen[oo] = g =>
        opc'[oo] = "dispatch" /\ ogen'[oo] = g /\ to_send'[oo] = to_send[oo]
  BY DEF TakeOptimize, OptimizeStops, OptimizeAck, OptimizeFails, OptimizeLost, Optimizer,
     TypeInv, BaseTypes
<1>3. Dispatching(g) => Dispatching(g)'
  BY <1>2 DEF Dispatching
<1>4. \A c \in Children : c[1] = g /\ Unsent(c) => Unsent(c)'
  BY <1>2 DEF Unsent
<1>5. \A c \in Children : c[1] = g /\ Open(c) => Open(c)'
  BY <1>1, <1>4 DEF Open, Running, slotVars
<1>6. \A s \in Slots : CallsBack(s, g)' = CallsBack(s, g)
  BY <1>1 DEF CallsBack, slotVars
<1> QED
  BY <1>1, <1>3, <1>5, <1>6, CollectingStays DEF chordVars

(* A result leaves the chords of other generations alone.                    *)
LEMMA PartElsewhereCollects ==
  ASSUME TypeInv, [Next]_vars, NEW g \in Generations, g =< generation, Collecting(g),
         NEW s \in Slots, ReturnChild(s) \/ ChildOverruns(s), sjob[s][1] # g
  PROVE  Collecting(g)'
<1> DEFINE h == sjob[s][1]
<1>1. h \in Generations /\ spc[s] \in {"execute", "return"}
  BY ChildIsPair DEF ReturnChild, ChildOverruns, TypeInv, SlotsInv
<1>2. UNCHANGED <<optVars, ready, sjob, chord_size>>
  BY DEF ReturnChild, ChildOverruns, orchestrationVars, childVars
<1>3. parts'[g] = parts[g]
  BY <1>1 DEF ReturnChild, ChildOverruns, AddPart, TypeInv, BaseTypes
<1>4. \A t \in Slots : sjob[t][1] = g => spc'[t] = spc[t]
  BY DEF ReturnChild, ChildOverruns, AddPart, Slot, TypeInv, BaseTypes
<1>5. \A c \in Children : c[1] = g /\ Open(c) => Open(c)'
  BY <1>2, <1>4 DEF Open, Unsent, Running, optVars
<1>6. Dispatching(g)' = Dispatching(g)
  BY <1>2 DEF Dispatching, optVars
<1>7. \A t \in Slots : CallsBack(t, g) => CallsBack(t, g)'
  BY <1>2, <1>4 DEF CallsBack
<1> QED
  BY <1>2, <1>3, <1>5, <1>6, <1>7, CollectingStays

(* A result that joins its chord is no exception, and when it is the last    *)
(* one the chord has its size and the slot calls back.                       *)
LEMMA ReturnChildCollects ==
  ASSUME TypeInv, DispatchInv, PlaceInv, ChordInv, [Next]_vars,
         NEW g \in Generations \ doubled, g =< generation, Collecting(g),
         NEW s \in Slots, ReturnChild(s), sjob[s][1] = g
  PROVE  Collecting(g)'
<1> DEFINE d == sjob[s]
<1>1. d \in Children /\ spc[s] = "return"
  BY DEF ReturnChild, TypeInv, SlotsInv
<1>2. UNCHANGED <<optVars, childVars, sjob, chord_size, doubled>>
  BY DEF ReturnChild, orchestrationVars, historyVars
<1>3. PICK p : /\ p.combo = d[2] /\ p.status = soutcome[s]
               /\ parts' = [parts EXCEPT ![g] = @ \cup {p}]
  BY DEF ReturnChild, AddPart
<1>4. parts'[g] = parts[g] \cup {p}
  BY <1>3 DEF TypeInv, BaseTypes
<1>5. \A t \in Slots : t # s => spc'[t] = spc[t]
  BY DEF ReturnChild, AddPart, Slot, TypeInv, BaseTypes
<1>6. chord_size[g] # 0 /\ Cardinality(parts'[g]) = chord_size[g] => spc'[s] = "call_back"
  BY DEF ReturnChild, AddPart, Slot, Complete, TypeInv, BaseTypes
<1>7. ChildrenOf(g)' = ChildrenOf(g)
  BY ChildrenSame
<1>8. Dispatching(g)' = Dispatching(g)
  BY <1>2 DEF Dispatching, optVars
<1>9. \A q \in parts'[g] : q.status # "exception"
  <2>1. soutcome[s] # "exception"
    BY DEF TypeInv, BaseTypes, Settled
  <2> QED
    BY <1>3, <1>4, <2>1 DEF Collecting
<1>10. \A c \in ChildrenOf(g) : c \in Children /\ c[1] = g
  BY DEF ChildrenOf
<1>11. \A c \in ChildrenOf(g) : Open(c)' \/ Returned(c)'
  <2> SUFFICES ASSUME NEW c \in ChildrenOf(g) PROVE Open(c)' \/ Returned(c)'
    OBVIOUS
  <2>1. CASE c = d
    BY <1>3, <1>4, <1>10, <2>1 DEF Returned
  <2>2. CASE c # d /\ Open(c)
    BY <1>2, <1>5, <2>2 DEF Open, Unsent, Running, optVars, childVars
  <2>3. CASE Returned(c)
    BY <1>4, <1>10, <2>3 DEF Returned
  <2> QED
    BY <2>1, <2>2, <2>3 DEF Collecting
<1>12. ASSUME \A c \in ChildrenOf(g) : Returned(c)' PROVE CallsBack(s, g)'
  <2>1. Chorded(g)'
    BY PartChorded
  <2>2. \A c \in ChildrenOf(g) : ~ Unsent(c)
    <3>1. PlaceInv'
      BY NextPlaceInv
    <3>2. \A c \in ChildrenOf(g) : ~ Open(c)'
      BY <1>2, <1>10, <1>12, <3>1 DEF PlaceInv, Placed
    <3> QED
      BY <1>2, <3>2 DEF Open, Unsent, optVars
  <2>3. chord_size[g] # 0
    BY <2>2, DispatchingUnsent DEF Collecting
  <2>4. IsFiniteSet(parts'[g])
    <3>1. IsFiniteSet(parts[g])
      BY DEF TypeInv, GenerationsInv
    <3> QED
      BY <1>4, <3>1, FS_AddElement
  <2>5. \A q \in parts'[g] : <<g, q.combo>> \in ChildrenOf(g)
    <3>1. <<g, p.combo>> = d /\ d \in ChildrenOf(g)
      BY <1>1, <1>3, ChildIsPair DEF TypeInv, SlotsInv, ChildrenOf
    <3>2. \A q \in parts[g] : <<g, q.combo>> \in ChildrenOf(g)
      BY DEF ChordInv, Chorded, ChildrenOf, Children, TypeInv, BaseTypes, Part
    <3> QED
      BY <1>4, <3>1, <3>2
  <2>6. \A c \in ChildrenOf(g) : \E q \in parts'[g] : q.combo = c[2]
    BY <1>10, <1>12 DEF Returned
  <2>7. Cardinality(parts'[g]) = Cardinality(ChildrenOf(g))
    BY <2>1, <2>4, <2>5, <2>6, OneOfEach DEF Chorded
  <2>8. spc'[s] = "call_back"
    BY <1>6, <2>3, <2>7 DEF DispatchInv
  <2> QED
    BY <1>2, <2>8 DEF CallsBack
<1> QED
  BY <1>2, <1>7, <1>8, <1>9, <1>11, <1>12 DEF Collecting

(* A chord that calls back has no exception in it.                           *)
LEMMA CallBackCollects ==
  ASSUME TypeInv, ChordInv, [Next]_vars, NEW g \in Generations \ doubled,
         g =< generation, Collecting(g), NEW s \in Slots, CallBack(s)
  PROVE  Called(g)' \/ Collecting(g)'
<1> DEFINE h == sjob[s][1]
<1>1. CallsBack(s, h) /\ h \in Generations
  BY CallsBackEarlier DEF CallBack, CallsBack
<1>2. CASE h = g
  <2>1. {p \in parts[g] : p.status \in {"exception"}} = {}
    BY DEF Collecting
  <2>2. Tally(g, {"exception"}) = 0
    BY <2>1, FS_EmptySet DEF Tally
  <2> DEFINE m == [generation |-> g, latest |-> generation,
                   succeeded |-> Tally(g, {"succeeded"}),
                   failed |-> Tally(g, {"failed", "unknown"})]
  <2>3. m \in callbacks'
    BY <1>2, <2>2 DEF CallBack
  <2>4. m.generation = g
    OBVIOUS
  <2> QED
    BY <2>3, <2>4 DEF Called
<1>3. CASE h # g
  <2>1. UNCHANGED <<optVars, ready, sjob>>
    BY DEF CallBack, orchestrationVars, childVars
  <2>2. parts'[g] = parts[g] /\ chord_size'[g] = chord_size[g]
    BY <1>1, <1>3 DEF CallBack, chordVars, TypeInv, BaseTypes
  <2>3. \A t \in Slots : t # s => spc'[t] = spc[t]
    BY DEF CallBack, Slot, TypeInv, BaseTypes
  <2>4. \A c \in Children : c[1] = g /\ Open(c) => Open(c)'
    BY <1>3, <2>1, <2>3 DEF Open, Unsent, Running, optVars
  <2>5. Dispatching(g)' = Dispatching(g)
    BY <2>1 DEF Dispatching, optVars
  <2>6. \A t \in Slots : CallsBack(t, g) => CallsBack(t, g)'
    BY <1>3, <2>1, <2>3 DEF CallsBack
  <2> QED
    BY <2>2, <2>4, <2>5, <2>6, CollectingStays
<1> QED
  BY <1>2, <1>3

(* A child in the hands of a worker is ready again when that dies.           *)
LEMMA ChildLostCollects ==
  ASSUME TypeInv, [Next]_vars, NEW g \in Generations, g =< generation, Collecting(g),
         g \notin doubled', NEW s \in Slots, ChildLost(s)
  PROVE  Collecting(g)'
<1>1. UNCHANGED <<optVars, chordVars>> /\ ready' = ready \cup {sjob[s]}
  BY DEF ChildLost, orchestrationVars
<1>2. \A t \in Slots \ {s} : sjob'[t] = sjob[t] /\ spc'[t] = spc[t]
  BY DEF ChildLost, FreeSlot, Slot, TypeInv, BaseTypes
<1>3. \A c \in Children : c[1] = g /\ Open(c) => Open(c)'
  BY <1>1, <1>2 DEF Open, Unsent, Running, optVars
<1>4. Dispatching(g)' = Dispatching(g)
  BY <1>1 DEF Dispatching, optVars
<1>5. ~ CallsBack(s, g)
  BY DEF ChildLost, CallsBack
<1>6. \A t \in Slots : CallsBack(t, g) => CallsBack(t, g)'
  BY <1>2, <1>5 DEF CallsBack
<1> QED
  BY <1>1, <1>3, <1>4, <1>6, CollectingStays DEF chordVars

(* A ready child that is started is executed or returns at once.             *)
LEMMA SlotCollects ==
  ASSUME TypeInv, [Next]_vars, NEW g \in Generations, g =< generation, Collecting(g),
         NEW s \in Slots,
         FinishChild(s) \/ AckChild(s) \/ \E c \in Children : StartChild(s, c)
  PROVE  Collecting(g)'
<1>1. UNCHANGED <<optVars, chordVars>>
  BY DEF FinishChild, AckChild, StartChild, orchestrationVars
<1>2. \A t \in Slots \ {s} : sjob'[t] = sjob[t] /\ spc'[t] = spc[t]
  BY DEF FinishChild, AckChild, StartChild, FreeSlot, Slot, TypeInv, BaseTypes
<1>3. \A c \in Children : c \in ready => c \in ready' \/ Running(c)'
  BY DEF FinishChild, AckChild, StartChild, childVars, Slot, Running, TypeInv, BaseTypes
<1>4. \A c \in Children : Running(c) => Running(c)'
  <2> SUFFICES ASSUME NEW c \in Children, NEW t \in Slots, sjob[t] = c,
                      spc[t] \in {"execute", "return"}
               PROVE  Running(c)'
    BY DEF Running
  <2>1. CASE t # s
    BY <1>2, <2>1 DEF Running
  <2>2. CASE t = s
    <3>1. FinishChild(s)
      BY <2>2 DEF AckChild, StartChild
    <3> QED
      BY <2>2, <3>1 DEF FinishChild, Slot, Running, TypeInv, BaseTypes
  <2> QED
    BY <2>1, <2>2
<1>5. \A c \in Children : Open(c) => Open(c)'
  BY <1>1, <1>3, <1>4 DEF Open, Unsent, optVars
<1>6. Dispatching(g)' = Dispatching(g)
  BY <1>1 DEF Dispatching, optVars
<1>7. \A t \in Slots : CallsBack(t, g) => CallsBack(t, g)'
  BY <1>2 DEF CallsBack, FinishChild, AckChild, StartChild
<1> QED
  BY <1>1, <1>5, <1>6, <1>7, CollectingStays DEF chordVars

(* The other steps touch neither optimize nor children nor chords.           *)
LEMMA IdleCollects ==
  ASSUME TypeInv, [Next]_vars, NEW g \in Generations, g =< generation, Collecting(g),
         UNCHANGED <<optVars, ready, slotVars, chordVars>>
  PROVE  Collecting(g)'
<1>1. \A c \in Children : Open(c)' = Open(c)
  BY DEF Open, Unsent, Running, optVars, slotVars
<1>2. Dispatching(g)' = Dispatching(g)
  BY DEF Dispatching, optVars
<1>3. \A s \in Slots : CallsBack(s, g)' = CallsBack(s, g)
  BY DEF CallsBack, slotVars
<1> QED
  BY <1>1, <1>2, <1>3, CollectingStays DEF chordVars

(* So a chord that can complete goes on to do so, or has called back.        *)
LEMMA NextCollects ==
  ASSUME TallyInv, [Next]_vars, NEW g \in Generations, g =< generation, Collecting(g),
         g \notin broken', g \notin doubled',
         \A o \in Orchestrators : ~ Materialize(o)
  PROVE  Called(g)' \/ Collecting(g)'
<1> USE DEF TallyInv
<1>1. g \in Generations \ doubled
  BY DoubledStays
<1>2. CASE Web \/ UNCHANGED vars
  BY <1>2, IdleCollects DEF Web, CreateSweep, CreateSweepUnpublished, RerunSweep,
     DestroySweep, OpenForm, SaveForm, executionVars, childVars, vars
<1>3. ASSUME NEW c \in Children, DestroyChild(c) PROVE Collecting(g)'
  BY <1>3, IdleCollects DEF DestroyChild, orchestrationVars
<1>4. ASSUME NEW m \in callbacks, FinalizeSweep(m) \/ FinalizeFails(m) PROVE Collecting(g)'
  BY <1>4, IdleCollects DEF FinalizeSweep, FinalizeFails, childVars, orchestrationVars
<1>5. ASSUME NEW o \in Orchestrators, Optimize(o) \/ OptimizeFails(o) \/ OptimizeLost(o)
      PROVE  Collecting(g)'
  BY <1>5, SendChildCollects, SizeChordCollects, OptimizeCollects DEF Optimize
<1>6. ASSUME NEW s \in Slots, ChildOverruns(s) PROVE Collecting(g)'
  <2>1. sjob[s][1] # g
    BY <1>6 DEF ChildOverruns
  <2> QED
    BY <1>6, <2>1, PartElsewhereCollects
<1>7. ASSUME NEW s \in Slots, ReturnChild(s) PROVE Collecting(g)'
  BY <1>1, <1>7, PartElsewhereCollects, ReturnChildCollects
<1>8. ASSUME NEW s \in Slots, CallBack(s) PROVE Called(g)' \/ Collecting(g)'
  BY <1>1, <1>8, CallBackCollects
<1>9. ASSUME NEW s \in Slots, ChildLost(s) PROVE Collecting(g)'
  BY <1>9, ChildLostCollects
<1>10. ASSUME NEW s \in Slots,
              FinishChild(s) \/ AckChild(s) \/ \E c \in Children : StartChild(s, c)
       PROVE  Collecting(g)'
  BY <1>10, SlotCollects
<1> QED
  BY <1>2, <1>3, <1>4, <1>5, <1>6, <1>7, <1>8, <1>9, <1>10 DEF Next, RunChild

(* A callback knows of its own generation.                                   *)
LEMMA NextLatest ==
  ASSUME TypeInv, [Next]_vars, \A m \in callbacks : m.generation =< m.latest
  PROVE  \A m \in callbacks' : m.generation =< m.latest
<1> USE DEF sweepVars, optVars, childVars, slotVars, chordVars, orchestrationVars,
        executionVars, boundVars, historyVars
<1>1. ASSUME callbacks' \subseteq callbacks
      PROVE  \A m \in callbacks' : m.generation =< m.latest
  BY <1>1
<1>2. ASSUME NEW s \in Slots, CallBack(s)
      PROVE  \A m \in callbacks' : m.generation =< m.latest
  <2>1. sjob[s][1] =< generation
    BY <1>2, CallsBackEarlier DEF CallBack, CallsBack
  <2> QED
    BY <1>2, <2>1 DEF CallBack
<1>3. CASE Web \/ UNCHANGED vars
  BY <1>3 DEF Web, CreateSweep, CreateSweepUnpublished, RerunSweep, DestroySweep,
     OpenForm, SaveForm, vars
<1>4. ASSUME NEW o \in Orchestrators, Optimize(o) \/ OptimizeFails(o) \/ OptimizeLost(o)
      PROVE  UNCHANGED callbacks
  BY <1>4 DEF Optimize, TakeOptimize, OptimizeStops, Materialize, SizeChord, SendChild,
     OptimizeAck, OptimizeFails, OptimizeLost
<1>5. ASSUME NEW s \in Slots, RunChild(s) \/ ChildOverruns(s) \/ ChildLost(s)
      PROVE  UNCHANGED callbacks \/ CallBack(s)
  BY <1>5 DEF RunChild, FinishChild, ReturnChild, AckChild, ChildOverruns, ChildLost
<1>6. ASSUME NEW c \in Children, DestroyChild(c) \/ \E s \in Slots : StartChild(s, c)
      PROVE  UNCHANGED callbacks
  BY <1>6 DEF DestroyChild, StartChild
<1>7. ASSUME NEW m \in callbacks, FinalizeSweep(m) \/ FinalizeFails(m) PROVE callbacks' \subseteq callbacks
  BY <1>7 DEF FinalizeSweep, FinalizeFails
<1> QED
  BY <1>1, <1>2, <1>3, <1>4, <1>5, <1>6, <1>7 DEF Next

(* An optimize message is in the queue, in the hands of a slot that has not  *)
(* written yet, or was in vain.                                             *)
LEMMA NextPending ==
  ASSUME TypeInv, UnderWayInv, [Next]_vars,
         sweep'.status = "pending", ~ overwritten', ~ unqueued'
  PROVE  optimizing' > 0 \/ \E o \in Orchestrators : opc'[o] = "materialize"
<1> DEFINE Waits == optimizing > 0 \/ \E o \in Orchestrators : opc[o] = "materialize"
<1> USE DEF sweepVars, optVars, childVars, slotVars, chordVars, orchestrationVars,
        executionVars, boundVars, historyVars
<1>1. ASSUME UNCHANGED <<sweep, overwritten, unqueued>> PROVE Waits
  BY <1>1 DEF UnderWayInv
<1>2. ASSUME UNCHANGED <<optimizing, opc>>, Waits PROVE Waits'
  BY <1>2
<1>3. optimizing \in Nat
  BY DEF TypeInv, BaseTypes
<1>4. CASE Web
  <2>1. CASE SaveForm
    <3>1. overwritten' = (overwritten \/ sweep' # sweep)
      BY <2>1 DEF SaveForm
    <3>2. sweep' = sweep /\ ~ overwritten
      BY <3>1, Zenon
    <3>3. Waits /\ UNCHANGED <<optimizing, opc>>
      BY <2>1, <3>2 DEF SaveForm, UnderWayInv
    <3> QED
      BY <1>2, <3>3
  <2>2. CASE CreateSweep \/ RerunSweep
    BY <1>3, <2>2 DEF CreateSweep, RerunSweep, PublishOptimize
  <2>3. CASE CreateSweepUnpublished \/ DestroySweep
    BY <2>3 DEF CreateSweepUnpublished, DestroySweep, NewRow
  <2>4. CASE OpenForm
    BY <1>1, <1>2, <2>4 DEF OpenForm
  <2> QED
    BY <1>4, <2>1, <2>2, <2>3, <2>4 DEF Web
<1>5. ASSUME NEW o \in Orchestrators, Optimize(o) \/ OptimizeFails(o) \/ OptimizeLost(o)
      PROVE  Waits'
  <2>1. CASE TakeOptimize(o) \/ OptimizeLost(o)
    BY <1>3, <2>1 DEF TakeOptimize, OptimizeLost, Optimizer, TypeInv, BaseTypes
  <2>2. CASE OptimizeStops(o) \/ Materialize(o)
    BY <2>2 DEF OptimizeStops, Materialize, TypeInv, BaseTypes, Rows
  <2>3. CASE SizeChord(o) \/ SendChild(o) \/ OptimizeAck(o)
             \/ (OptimizeFails(o) /\ opc[o] = "dispatch")
    <3>1. Waits /\ UNCHANGED optimizing
      BY <1>1, <2>3 DEF SizeChord, SendChild, OptimizeAck, OptimizeFails
    <3>2. \A oo \in Orchestrators : opc[oo] = "materialize" => opc'[oo] = "materialize"
      BY <2>3 DEF SizeChord, SendChild, OptimizeAck, OptimizeFails, Optimizer, TypeInv, BaseTypes
    <3> QED
      BY <3>1, <3>2
  <2>4. CASE OptimizeFails(o) /\ opc[o] # "dispatch"
    BY <2>4 DEF OptimizeFails
  <2> QED
    BY <1>5, <2>1, <2>2, <2>3, <2>4 DEF Optimize
<1>6. ASSUME NEW s \in Slots, RunChild(s) \/ ChildOverruns(s) \/ ChildLost(s)
      PROVE  Waits'
  BY <1>1, <1>2, <1>6 DEF RunChild, FinishChild, ReturnChild, CallBack, AckChild,
     ChildOverruns, ChildLost
<1>7. ASSUME NEW c \in Children, DestroyChild(c) \/ \E s \in Slots : StartChild(s, c)
      PROVE  Waits'
  BY <1>1, <1>2, <1>7 DEF DestroyChild, StartChild
<1>8. ASSUME NEW m \in callbacks, FinalizeSweep(m) \/ FinalizeFails(m) PROVE Waits'
  <2>1. sweep' = sweep
    BY <1>8 DEF FinalizeSweep, FinalizeFails, Finalized, Outcome, TypeInv, BaseTypes, Rows
  <2> QED
    BY <1>1, <1>2, <1>8, <2>1 DEF FinalizeSweep, FinalizeFails
<1>9. CASE UNCHANGED vars
  BY <1>1, <1>2, <1>9 DEF vars
<1> QED
  BY <1>4, <1>5, <1>6, <1>7, <1>8, <1>9 DEF Next

(* Nothing but Materialize makes a sweep run, and no callback of the latest   *)
(* generation goes without making it final, unless it fails.                 *)
LEMMA NextRunning ==
  ASSUME TypeInv, UnderWayInv, [Next]_vars, \A o \in Orchestrators : ~ Materialize(o),
         sweep'.status = "running", ~ overwritten'
  PROVE  /\ sweep.status = "running" /\ ~ overwritten /\ generation' = generation
         /\ Called(generation) /\ generation \notin broken'
              => \E m \in callbacks' : m.generation = generation
<1> USE DEF sweepVars, optVars, childVars, slotVars, chordVars, orchestrationVars,
        executionVars, boundVars, historyVars
<1>1. CASE Web
  <2>1. CASE SaveForm
    <3>1. overwritten' = (overwritten \/ sweep' # sweep)
      BY <2>1 DEF SaveForm
    <3>2. sweep' = sweep /\ ~ overwritten
      BY <3>1, Zenon
    <3> QED
      BY <2>1, <3>2 DEF SaveForm, Called
  <2>2. CASE CreateSweep \/ CreateSweepUnpublished \/ DestroySweep
    BY <2>2 DEF CreateSweep, CreateSweepUnpublished, DestroySweep, NewRow
  <2>3. CASE RerunSweep \/ OpenForm
    BY <2>3 DEF RerunSweep, OpenForm, Called
  <2> QED
    BY <1>1, <2>1, <2>2, <2>3 DEF Web
<1>2. ASSUME NEW o \in Orchestrators, Optimize(o) \/ OptimizeFails(o) \/ OptimizeLost(o)
      PROVE  UNCHANGED <<sweep, overwritten, generation, callbacks>>
  BY <1>2 DEF Optimize, TakeOptimize, OptimizeStops, SizeChord, SendChild, OptimizeAck,
     OptimizeFails, OptimizeLost
<1>3. ASSUME NEW s \in Slots, RunChild(s) \/ ChildOverruns(s) \/ ChildLost(s)
      PROVE  UNCHANGED <<sweep, overwritten, generation>> /\ callbacks \subseteq callbacks'
  BY <1>3 DEF RunChild, FinishChild, ReturnChild, CallBack, AckChild, ChildOverruns, ChildLost
<1>4. ASSUME NEW c \in Children, DestroyChild(c) \/ \E s \in Slots : StartChild(s, c)
      PROVE  UNCHANGED <<sweep, overwritten, generation, callbacks>>
  BY <1>4 DEF DestroyChild, StartChild
<1>5. ASSUME NEW m \in callbacks, FinalizeSweep(m) \/ FinalizeFails(m)
      PROVE  /\ UNCHANGED <<sweep, overwritten, generation>>
             /\ \A n \in callbacks : n.generation = generation
                  => n \in callbacks' \/ generation \in broken'
  <2>0. CASE FinalizeFails(m)
    BY <2>0 DEF FinalizeFails
  <2> SUFFICES ASSUME FinalizeSweep(m)
               PROVE  /\ UNCHANGED <<sweep, overwritten, generation>>
                      /\ \A n \in callbacks : n.generation = generation => n \in callbacks'
    BY <1>5, <2>0
  <2>1. sweep' = sweep
    BY <1>5 DEF FinalizeSweep, Finalized, Outcome, TypeInv, BaseTypes, Rows
  <2>2. sweep' # Finalized(m)
    BY DEF Finalized, Outcome, TypeInv, BaseTypes, Rows
  <2>3. Refused(m)
    BY <2>1, <2>2 DEF FinalizeSweep, SweepExists
  <2>4. m.generation =< m.latest /\ m.generation \in Nat /\ m.latest \in Nat
    BY GenerationsAreNumbers DEF UnderWayInv, TypeInv, BaseTypes, Callback
  <2>5. m.generation # generation
    BY <2>3, <2>4 DEF Refused, TypeInv, BaseTypes
  <2> QED
    BY <2>1, <2>5 DEF FinalizeSweep
<1>6. CASE UNCHANGED vars
  BY <1>6 DEF vars, Called
<1> QED
  BY <1>1, <1>2, <1>3, <1>4, <1>5, <1>6 DEF Next, Called

LEMMA InitUnderWayInv == Init => UnderWayInv
  BY DEF Init, NewRow, UnderWayInv

LEMMA NextUnderWayInv == TallyInv /\ UnderWayInv /\ [Next]_vars => UnderWayInv'
<1> SUFFICES ASSUME TallyInv, UnderWayInv, [Next]_vars PROVE UnderWayInv'
  OBVIOUS
<1> USE DEF TallyInv
<1>1. \A m \in callbacks' : m.generation =< m.latest
  BY NextLatest DEF UnderWayInv
<1>2. sweep'.status = "pending" /\ ~ overwritten' /\ ~ unqueued' =>
        optimizing' > 0 \/ \E o \in Orchestrators : opc'[o] = "materialize"
  BY NextPending
<1>3. ASSUME sweep'.status = "running", ~ overwritten', NEW g, g = generation'
      PROVE  /\ g # 0
             /\ g \notin broken' /\ g \notin doubled' => Called(g)' \/ Collecting(g)'
  <2>1. ASSUME NEW o \in Orchestrators, Materialize(o)
        PROVE  g # 0 /\ Collecting(g)'
    <3>1. g = generation + 1 /\ g \in Generations
      BY <1>3, <2>1, RoomForOne DEF Materialize
    <3> QED
      BY <2>1, <3>1, MaterializeCollects, GenerationsAreNumbers
  <2>2. CASE \A o \in Orchestrators : ~ Materialize(o)
    <3>1. /\ sweep.status = "running" /\ ~ overwritten /\ g = generation
          /\ Called(g) /\ g \notin broken' => Called(g)'
      BY <1>3, <2>2, NextRunning DEF Called
    <3>2. g # 0 /\ (Whole(g) => Called(g) \/ Collecting(g))
      BY <3>1 DEF UnderWayInv
    <3>3. g \in Generations /\ g =< generation
      BY <3>1, <3>2, GenerationInRange DEF TypeInv, BaseTypes
    <3>4. g \notin broken' /\ g \notin doubled' => Whole(g)
      BY BrokenStays, DoubledStays DEF Whole
    <3> QED
      BY <2>2, <3>1, <3>2, <3>3, <3>4, NextCollects
  <2> QED
    BY <2>1, <2>2
<1>4. sweep'.status = "running" /\ ~ overwritten' =>
        /\ generation' # 0
        /\ Whole(generation)' => Called(generation)' \/ Collecting(generation)'
  BY <1>3 DEF Whole
<1> QED
  BY <1>1, <1>2, <1>4 DEF UnderWayInv

(* A chord that can complete has a child on its way or a slot to call back.   *)
LEMMA CollectingIsUnderWay ==
  ASSUME NEW g, Called(g) \/ Collecting(g)
  PROVE  \/ \E o \in Orchestrators : opc[o] = "dispatch" /\ ogen[o] = g
         \/ \E c \in ready : c[1] = g
         \/ \E s \in Slots : spc[s] \in {"execute", "return", "call_back"} /\ sjob[s][1] = g
         \/ \E m \in callbacks : m.generation = g
<1>1. CASE Called(g)
  BY <1>1 DEF Called
<1>2. CASE Collecting(g)
  <2>1. CASE \A c \in ChildrenOf(g) : Returned(c)
    BY <1>2, <2>1 DEF Collecting, CallsBack
  <2>2. ASSUME NEW c \in ChildrenOf(g), ~ Returned(c)
        PROVE  \/ \E o \in Orchestrators : opc[o] = "dispatch" /\ ogen[o] = g
               \/ \E d \in ready : d[1] = g
               \/ \E s \in Slots : spc[s] \in {"execute", "return"} /\ sjob[s][1] = g
    <3>1. Open(c) /\ c[1] = g
      BY <1>2, <2>2 DEF Collecting, ChildrenOf
    <3> QED
      BY <3>1 DEF Open, Unsent, Running
  <2> QED
    BY <2>1, <2>2
<1> QED
  BY <1>1, <1>2

(* UnderWayInv and TallyInv: a chord that is not broken keeps every child that *)
(* has not returned on its way, until a slot calls back, and its callback    *)
(* stays in the queue until it has written the row or failed.                *)
THEOREM UnderWayInvariant == Spec => [](TallyInv /\ UnderWayInv)
<1>1. TallyInv /\ UnderWayInv /\ [Next]_vars => UnderWayInv'
  BY NextUnderWayInv
<1> QED
  BY <1>1, InitUnderWayInv, TallyInvariant, PTL DEF Spec

(* SweepUnderWay: a sweep that reads PENDING or RUNNING is never forgotten,   *)
(* for any grid, slots and faults: something is left that will write its row, *)
(* with only the exceptions the property names.                              *)
THEOREM SweepNeverForgotten == Spec => []SweepUnderWay
<1>1. UnderWayInv => SweepUnderWay
  <2> SUFFICES ASSUME UnderWayInv PROVE SweepUnderWay
    OBVIOUS
  <2>1. ASSUME sweep.status = "running", ~ overwritten, generation \notin broken \cup doubled
        PROVE  Called(generation) \/ Collecting(generation)
    BY <2>1 DEF UnderWayInv, Whole
  <2> QED
    BY <2>1, CollectingIsUnderWay DEF SweepUnderWay, UnderWayInv
<1> QED
  BY <1>1, UnderWayInvariant, PTL
=============================================================================
