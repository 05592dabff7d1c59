-------------------------- MODULE ExecutionProofs --------------------------
(***************************************************************************)
(* Proofs about Execution, for any symbols, days, programs, statistics and *)
(* bounds.                                                                 *)
(***************************************************************************)
EXTENDS Execution, TLAPS, FiniteSetTheorems, WellFoundedInduction

-----------------------------------------------------------------------------
(* The first symbol.                                                        *)

(* A set of numbers that is not empty has a smallest one.                   *)
LEMMA Smallest ==
  ASSUME NEW S \in SUBSET Nat, S # {}
  PROVE  \E m \in S : \A n \in S : m =< n
<1> DEFINE Less == OpToRel(<, Nat)
<1>1. \A x, y \in Nat : x < y => <<x, y>> \in Less
  BY Zenon DEF OpToRel
<1>2. IsWellFoundedOn(Less, Nat)
  BY Zenon, NatLessThanWellFounded
<1> HIDE DEF Less
<1>3. PICK m \in S : \A n \in S : ~ (<<n, m>> \in Less)
  BY <1>2, WFMin, Zenon
<1>4. \A n \in S : ~ (n < m)
  BY <1>1, <1>3, Zenon
<1>5. \A n \in S : m =< n
  BY <1>4
<1> QED
  BY <1>5

-----------------------------------------------------------------------------
(* The inductive invariant: the task's variables come from rows there have   *)
(* been, its symbol is the run's first as long as the run keeps its symbols  *)
(* and they keep their tickers, and what the engine has returned can be      *)
(* stored.                                                                   *)

Labels  == {"idle", "symbol", "bars", "class", "engine", "save", "commit", "done"}
Working == {"bars", "class", "engine", "save", "commit"}

Distinct   == \A s, o \in known : ticker[s] = ticker[o] => s = o
IsFirst(s) == s \in symbols /\ \A o \in symbols : ticker[s] =< ticker[o]

RowsInv ==
  /\ {strategy, program} \subseteq held /\ held \subseteq Programs
  /\ {run, row} \subseteq RunRows
  /\ exists \in BOOLEAN
  /\ known \subseteq Symbols /\ symbols \subseteq known
  /\ ticker \in [Symbols -> Tickers] /\ Distinct
  /\ bars \in [Symbols -> SUBSET Days]
  /\ pc \in Labels
  /\ switched \in BOOLEAN

SymbolInv ==
  /\ pc \in Working => symbol \in Symbols /\ (~ switched => IsFirst(symbol))
  /\ pc = "commit" /\ ~ switched => primary_symbol = symbol

ClassInv ==
  cls # NoClass => cls = LoadStrategyClass(program.source, program.entrypoint)

ResultInv ==
  /\ pc \in Working \cup {"symbol"} => outcome = "none"
  /\ pc \in {"symbol", "bars", "class", "engine"} => result = NoResult
  /\ pc \in {"save", "commit"} => Storable(result.stats)
  /\ EngineResultsAreKept

ExecInv == RowsInv /\ SymbolInv /\ ClassInv /\ ResultInv

(* The first symbol of a run has the first ticker, or is None.               *)
LEMMA FirstIsOne ==
  ASSUME RowsInv, First(symbols) # 0
  PROVE  IsFirst(First(symbols))
<1> DEFINE S == {ticker[s] : s \in symbols}
<1>1. symbols # {}
  BY DEF First
<1>a. \A s \in symbols : ticker[s] \in Nat
  BY SymbolsAssumption DEF RowsInv
<1>2. S \in SUBSET Nat /\ S # {}
  BY <1>1, <1>a
<1>3. PICK m \in S : \A n \in S : m =< n
  BY <1>2, Smallest
<1>4. \E s \in symbols : \A o \in symbols : ticker[s] =< ticker[o]
  BY <1>3
<1>5. First(symbols) = CHOOSE s \in symbols : \A o \in symbols : ticker[s] =< ticker[o]
  BY <1>1 DEF First
<1> HIDE DEF S
<1> QED
  BY <1>4, <1>5, Zenon DEF IsFirst

(* There is only one.                                                        *)
LEMMA FirstIsUnique ==
  ASSUME RowsInv, NEW s, NEW o, IsFirst(s), IsFirst(o)
  PROVE  s = o
<1>1. ticker[s] =< ticker[o] /\ ticker[o] =< ticker[s] /\ {s, o} \subseteq known
  BY DEF IsFirst, RowsInv
<1>2. ticker[s] \in Nat /\ ticker[o] \in Nat
  BY <1>1, SymbolsAssumption DEF RowsInv
<1>3. ticker[s] = ticker[o]
  BY <1>1, <1>2
<1> QED
  BY <1>1, <1>3 DEF RowsInv, Distinct

(* A run with symbols has a first one.                                       *)
LEMMA FirstOfSome ==
  ASSUME RowsInv, NEW s, IsFirst(s)
  PROVE  First(symbols) = s
<1>1. First(symbols) # 0
  <2>1. symbols # {} /\ \E o \in symbols : \A q \in symbols : ticker[o] =< ticker[q]
    BY DEF IsFirst
  <2>2. First(symbols) \in symbols
    BY <2>1 DEF First
  <2> QED
    BY <2>2, SymbolsAssumption DEF RowsInv
<1> QED
  BY <1>1, FirstIsOne, FirstIsUnique

(* Whatever the library's statistics are, what is serialized can be stored.  *)
LEMMA SerializedIsStorable ==
  ASSUME NEW stats \in Statistics
  PROVE  Storable(SerializeMetrics(stats))
<1> DEFINE metrics == SerializeMetrics(stats)
<1>1. ASSUME NEW k \in DOMAIN metrics
      PROVE  metrics[k] = Coerce(stats[k]) /\ stats[k] \in Kinds
  BY StatisticsAssumption DEF SerializeMetrics
<1>2. \A kind \in Kinds : Coerce(kind) \in {"none", "float", "int", "str"}
  BY DEF Kinds, Coerce
<1> HIDE DEF metrics
<1>3. Storable(metrics)
  BY <1>1, <1>2 DEF Storable
<1> QED
  BY <1>3 DEF metrics

(* Nothing has been read, returned or stored at first.                      *)
LEMMA InitExecInv == Init => ExecInv
<1> SUFFICES ASSUME Init PROVE ExecInv
  OBVIOUS
<1>1. ticker \in [Symbols -> Tickers] /\ Distinct
  BY SymbolsAssumption DEF Init, Distinct
<1>2. RowsInv
  BY <1>1 DEF Init, RowsInv, Labels
<1>3. SymbolInv /\ ClassInv /\ ResultInv
  BY DEF Init, SymbolInv, ClassInv, ResultInv, EngineResultsAreKept, Working
<1> QED
  BY <1>2, <1>3 DEF ExecInv

(* What users do leaves the task's own variables alone.                      *)
LEMMA EnvironmentExecInv == ExecInv /\ Environment => ExecInv'
<1> SUFFICES ASSUME ExecInv, Environment PROVE ExecInv'
  OBVIOUS
<1>1. RowsInv'
  <2> USE DEF ExecInv, RowsInv, Distinct, Change, localVars
  <2>1. ASSUME NEW new \in Programs, SaveStrategy(new) PROVE RowsInv'
    BY <2>1 DEF SaveStrategy
  <2>2. CASE EditStrategy \/ InstallBuiltin
    BY <2>1, <2>2, ProgramsAssumption DEF EditStrategy, InstallBuiltin
  <2>3. CASE EditRun
    BY <2>3 DEF EditRun, SetSymbols
  <2>4. CASE DestroyRun
    BY <2>4 DEF DestroyRun, SetSymbols
  <2>5. ASSUME NEW s \in Symbols, IngestBars(s) PROVE RowsInv'
    BY <2>5 DEF IngestBars
  <2>6. ASSUME NEW s \in Symbols, RenameSymbol(s) PROVE RowsInv'
    BY <2>6 DEF RenameSymbol
  <2>7. ASSUME NEW s \in Symbols, DeleteSymbol(s) PROVE RowsInv'
    BY <2>7 DEF DeleteSymbol, SetSymbols
  <2> QED
    BY <2>2, <2>3, <2>4, <2>5, <2>6, <2>7 DEF Environment
<1>2. UNCHANGED <<pc, localVars, outcome>>
  BY DEF Environment, EditStrategy, InstallBuiltin, SaveStrategy, EditRun, DestroyRun,
     IngestBars, RenameSymbol, DeleteSymbol, Change
<1>3. /\ switched => switched'
      /\ ~ switched' => symbols' = symbols /\ \A s \in symbols : ticker'[s] = ticker[s]
      /\ ~ exists => ~ exists'
  <2>1. ASSUME NEW s \in Symbols, RenameSymbol(s)
        PROVE  /\ (switched => switched') /\ symbols' = symbols /\ exists' = exists
               /\ ~ switched' => \A o \in symbols : ticker'[o] = ticker[o]
    BY <2>1 DEF RenameSymbol, ExecInv, RowsInv
  <2>2. ASSUME NEW s \in Symbols, IngestBars(s)
        PROVE  UNCHANGED <<symbols, ticker, exists, switched>>
    BY <2>2 DEF IngestBars
  <2>4. ASSUME NEW s \in Symbols, DeleteSymbol(s)
        PROVE  /\ (switched => switched') /\ UNCHANGED <<ticker, exists>>
               /\ ~ switched' => symbols' = symbols
    BY <2>4 DEF DeleteSymbol, SetSymbols
  <2>3. CASE EditStrategy \/ InstallBuiltin \/ EditRun \/ DestroyRun
    BY <2>3 DEF EditStrategy, InstallBuiltin, SaveStrategy, EditRun, DestroyRun, SetSymbols,
       ExecInv, RowsInv
  <2> QED
    BY <2>1, <2>2, <2>3, <2>4 DEF Environment
<1>4. SymbolInv' /\ ClassInv'
  BY <1>2, <1>3 DEF ExecInv, SymbolInv, ClassInv, localVars, IsFirst
<1>5. ResultInv'
  BY <1>2, <1>3 DEF ExecInv, ResultInv, EngineResultsAreKept, Working, localVars
<1> QED
  BY <1>1, <1>4, <1>5 DEF ExecInv

(* Every statement of the task keeps the invariant.                         *)
LEMMA TaskExecInv == ExecInv /\ Task => ExecInv'
<1> SUFFICES ASSUME ExecInv, Task PROVE ExecInv'
  OBVIOUS
<1>0. UNCHANGED rowVars
  BY DEF Task, Lookup, FirstSymbol, Load, LoadClass, EngineReturns, EngineRaises,
     SecondSymbol, Commit
<1>d. Distinct' /\ \A s : IsFirst(s)' <=> IsFirst(s)
  BY <1>0 DEF rowVars, Distinct, IsFirst, ExecInv, RowsInv
<1> USE DEF Fail, Pass, rowVars, countVars, localVars, ExecInv
<1>1. CASE Lookup
  BY <1>d, <1>1 DEF Lookup, RowsInv, SymbolInv, ClassInv, ResultInv,
     EngineResultsAreKept, Labels, Working
<1>2. CASE FirstSymbol
  <2>1. symbol' # 0 => symbol' \in Symbols /\ IsFirst(symbol')
    BY <1>2, FirstIsOne DEF FirstSymbol, RowsInv, IsFirst
  <2>2. RowsInv' /\ ClassInv' /\ ResultInv'
    BY <1>d, <1>2 DEF FirstSymbol, RowsInv, ClassInv, ResultInv, EngineResultsAreKept,
       Labels, Working
  <2>3. SymbolInv'
    BY <1>d, <1>2, <2>1 DEF FirstSymbol, SymbolInv, Working
  <2> QED
    BY <2>2, <2>3
<1>3. CASE Load
  BY <1>d, <1>3 DEF Load, RowsInv, SymbolInv, ClassInv, ResultInv, EngineResultsAreKept,
     Labels, Working
<1>4. CASE LoadClass
  BY <1>d, <1>4 DEF LoadClass, AsRead, RowsInv, SymbolInv, ClassInv, ResultInv,
     EngineResultsAreKept, Labels, Working
<1>5. CASE EngineReturns
  <2>1. Storable(result'.stats)
    <3>1. PICK traded \in BOOLEAN, fits \in BOOLEAN, stats \in Statistics :
            result' = [traded |-> traded, fits |-> fits, stats |-> SerializeMetrics(stats)]
      BY <1>5, Zenon DEF EngineReturns
    <3> QED
      BY <3>1, SerializedIsStorable
  <2>2. ResultInv'
    <3>1. pc' = "save" /\ outcome' = "none"
      BY <1>5 DEF EngineReturns, ResultInv, Working
    <3> QED
      BY <2>1, <3>1 DEF ResultInv, EngineResultsAreKept
  <2>3. RowsInv' /\ SymbolInv' /\ ClassInv'
    BY <1>d, <1>5 DEF EngineReturns, RowsInv, SymbolInv, ClassInv, Labels, Working
  <2> QED
    BY <2>2, <2>3
<1>6. CASE EngineRaises
  BY <1>d, <1>6 DEF EngineRaises, RowsInv, SymbolInv, ClassInv, ResultInv,
     EngineResultsAreKept, Labels, Working
<1>7. CASE SecondSymbol
  <2>1. ASSUME ~ switched PROVE primary_symbol' = symbol
    BY <1>7, <2>1, FirstOfSome DEF SecondSymbol, PrimarySymbol, SymbolInv, Working
  <2>2. SymbolInv'
    BY <1>d, <1>7, <2>1 DEF SecondSymbol, SymbolInv, Working
  <2> QED
    BY <1>d, <1>7, <2>2 DEF SecondSymbol, RowsInv, ClassInv, ResultInv,
       EngineResultsAreKept, Labels, Working
<1>8. CASE Commit
  <2>1. ASSUME ~ switched PROVE primary_symbol \in known
    BY <1>8, <2>1 DEF Commit, SymbolInv, Working, IsFirst, RowsInv
  <2>2. ~ Saved => ~ result.fits \/ ~ exists \/ (result.traded /\ switched)
    BY <1>8, <2>1 DEF Commit, Saved, ResultInv
  <2>3. RowsInv' /\ SymbolInv' /\ ClassInv'
    BY <1>d, <1>8 DEF Commit, RowsInv, SymbolInv, ClassInv, Labels, Working
  <2>4. ResultInv'
    BY <1>8, <2>2 DEF Commit, ResultInv, EngineResultsAreKept, Working
  <2> QED
    BY <2>3, <2>4
<1> QED
  BY <1>1, <1>2, <1>3, <1>4, <1>5, <1>6, <1>7, <1>8 DEF Task

(* The invariant holds in every behaviour.                                  *)
LEMMA ExecInvariant == Spec => []ExecInv
<1>1. ASSUME ExecInv, UNCHANGED vars PROVE ExecInv'
  <2>1. RowsInv'
    BY <1>1 DEF vars, rowVars, localVars, ExecInv, RowsInv, Distinct
  <2>2. SymbolInv' /\ ClassInv'
    BY <1>1 DEF vars, rowVars, localVars, ExecInv, SymbolInv, ClassInv, IsFirst
  <2>3. ResultInv'
    BY <1>1 DEF vars, rowVars, localVars, ExecInv, ResultInv, EngineResultsAreKept
  <2> QED
    BY <2>1, <2>2, <2>3 DEF ExecInv
<1>2. ExecInv /\ [Next]_vars => ExecInv'
  BY <1>1, EnvironmentExecInv, TaskExecInv DEF Next
<1> QED
  BY <1>2, InitExecInv, PTL DEF Spec

-----------------------------------------------------------------------------
(* What follows from the invariant.                                         *)

(* The code and the entrypoint that are loaded have been in the Strategy row *)
(* together, however it is edited meanwhile.                                 *)
THEOREM OneVersionLoaded == Spec => []OneVersion
<1>1. ExecInv => OneVersion
  BY DEF ExecInv, RowsInv, OneVersion
<1> QED
  BY <1>1, ExecInvariant, PTL

(* A single candidate leaves no other class that could have been meant.      *)
LEMMA OnlyCandidateIsOnly ==
  ASSUME NEW names, IsFiniteSet(DOMAIN names), OnlyCandidate(names) # NoClass
  PROVE  /\ OnlyCandidate(names) \in Subclasses
         /\ \A n \in DOMAIN names :
              names[n] \in Subclasses => names[n] = OnlyCandidate(names)
<1>1. IsFiniteSet(Candidates(names))
  BY FS_Subset DEF Candidates
<1>2. Cardinality(Candidates(names)) = 1
  BY DEF OnlyCandidate
<1>3. PICK x : Candidates(names) = {x}
  BY <1>1, <1>2, FS_Singleton
<1>4. OnlyCandidate(names) = names[x]
  BY <1>2, <1>3 DEF OnlyCandidate
<1> QED
  BY <1>3, <1>4 DEF Candidates

(* The class that runs is the one the entrypoint names or, where it names     *)
(* none, the only one there is: the loader of runs.sandbox never guesses.    *)
THEOREM LoaderNeverGuesses == Spec => []LoadedClassIsMeant
<1>1. ASSUME ExecInv PROVE LoadedClassIsMeant
  <2> DEFINE names == program.source.namespace
             entrypoint == program.entrypoint
             bound == IF entrypoint \in DOMAIN names THEN names[entrypoint] ELSE NoClass
             named == Named(names, entrypoint)
  <2> SUFFICES ASSUME cls # NoClass
               PROVE  /\ cls \in Subclasses
                      /\ \/ cls = bound
                         \/ /\ entrypoint = "Strategy" \/ bound = NoClass
                            /\ \A n \in DOMAIN names :
                                 names[n] \in Subclasses => names[n] = cls
    BY DEF LoadedClassIsMeant
  <2>1. cls = LoadStrategyClass(program.source, entrypoint)
    BY <1>1 DEF ExecInv, ClassInv
  <2>2. IsFiniteSet(DOMAIN names)
    BY <1>1, ProgramsAssumption DEF ExecInv, RowsInv
  <2>3. entrypoint = "Strategy" \/ named = bound
    BY DEF Named
  <2>4. CASE named = NoClass
    <3>1. cls = OnlyCandidate(names)
      BY <2>1, <2>4 DEF LoadStrategyClass
    <3> QED
      BY <2>2, <2>3, <2>4, <3>1, OnlyCandidateIsOnly
  <2>5. CASE named # NoClass
    <3>1. cls = named /\ named \in Subclasses
      BY <2>1, <2>5 DEF LoadStrategyClass
    <3>2. named = bound
      BY <2>5 DEF Named
    <3> QED
      BY <3>1, <3>2
  <2> QED
    BY <2>4, <2>5
<1> QED
  BY <1>1, ExecInvariant, PTL

(* What the engine has returned is kept, whatever its statistics: NaN, NaT   *)
(* and infinities are stored as NULL, and nothing but an amount or a tag that *)
(* does not fit, a deleted run or changed symbols loses a result.            *)
THEOREM ResultsAreKept == Spec => []EngineResultsAreKept
<1>1. ExecInv => EngineResultsAreKept
  BY DEF ExecInv, ResultInv
<1> QED
  BY <1>1, ExecInvariant, PTL

(* Trades are stored under the symbol of the bars that produced them.        *)
THEOREM TradesBelongToBars == Spec => TradesOfTheirBars
<1>1. ASSUME ExecInv, [Next]_vars, stored' # stored, result.traded, ~ switched
      PROVE  stored'.symbol = stored'.of
  <2>1. Commit \/ DestroyRun
    BY <1>1 DEF Next, Environment, EditStrategy, InstallBuiltin, SaveStrategy, EditRun,
       IngestBars, RenameSymbol, DeleteSymbol, Change, Task, Lookup, FirstSymbol, Load,
       LoadClass, EngineReturns, EngineRaises, SecondSymbol, vars
  <2>2. CASE Commit
    BY <1>1, <2>2 DEF Commit, ExecInv, SymbolInv
  <2>3. CASE DestroyRun
    BY <2>3 DEF DestroyRun, NothingStored
  <2> QED
    BY <2>1, <2>2, <2>3
<1> QED
  BY <1>1, ExecInvariant, PTL DEF Spec, TradesOfTheirBars

(* A run uses the bars of exactly its window, shifted by a day east of UTC.  *)
THEOREM WindowIsExact == Spec => WindowExact
<1> DEFINE Step == pc = "bars" /\ pc' # "bars" =>
                     LET shift == IF Offset[symbol] > 0 THEN 1 ELSE 0 IN
                     df' = {d \in bars[symbol] : d - shift \in row.start .. row.end}
<1>1. ASSUME ExecInv, [Next]_vars PROVE Step
  <2> SUFFICES ASSUME pc = "bars", pc' # "bars" PROVE Step
    OBVIOUS
  <2>1. df' = LoadBars(symbol, row.start, row.end)
    BY <1>1 DEF Next, Environment, EditStrategy, InstallBuiltin, SaveStrategy, EditRun, DestroyRun,
       IngestBars, RenameSymbol, DeleteSymbol, Change, Task, Lookup, FirstSymbol, Load, LoadClass, EngineReturns, EngineRaises,
       SecondSymbol, Commit, vars
  <2>2. symbol \in Symbols /\ bars[symbol] \subseteq Int /\ row.start \in Int /\ row.end \in Int
    BY <1>1, RowsAssumption DEF ExecInv, RowsInv, SymbolInv, Working
  <2>3. Offset[symbol] \in -12 .. 14
    BY <2>2, OffsetAssumption
  <2>4. \A d \in bars[symbol] :
          Stamp(symbol, d) \in 24 * row.start .. 24 * row.end + 23
            <=> d - (IF Offset[symbol] > 0 THEN 1 ELSE 0) \in row.start .. row.end
    BY <2>2, <2>3 DEF Stamp
  <2> QED
    BY <2>1, <2>4 DEF LoadBars
<1> QED
  BY <1>1, ExecInvariant, PTL DEF Spec, WindowExact
=============================================================================
