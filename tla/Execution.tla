----------------------------- MODULE Execution -----------------------------
(***************************************************************************)
(* What one execution of runs.run_backtest reads, computes and stores: the *)
(* rows of the run and of its strategy, the first of the run's symbols and *)
(* the bars of its window, the class the loader finds, the engine's result *)
(* and how it is serialized and saved.  Every read is a statement of its   *)
(* own, between which users edit the run, the strategy and the symbols,    *)
(* rename or delete them, and bars are ingested.  The statuses of the row, *)
(* overlapping executions, time limits, crashes and failures of the        *)
(* database are the subject of BacktestRuns.                               *)
(*                                                                         *)
(* The backtesting library is external: it refuses some inputs, a strategy *)
(* may raise in it, and its statistics may be NaN, NaT or infinite.        *)
(***************************************************************************)
EXTENDS Integers, StrategyLoader

CONSTANTS
  Symbols,       \* numbered in the order of the tickers they have at first
  Tickers,       \* numbered in their order
  Offset,        \* hours by which a symbol's exchange is ahead of UTC
  Days,          \* trading days, numbered
  Programs,      \* what a Strategy row may hold: its code and its entrypoint
  Builtin,       \* the program of the bundled strategy
  Parameters,    \* parameters each class declares
  RunRows,       \* what a BacktestRun row may hold
  Statistics,    \* kinds of values the library's statistics may take, per key
  MaxExecutions, \* bound: executions of the run
  MaxChanges     \* bound: edits, deletions and ingestions

ASSUME SymbolsAssumption ==
  Symbols \subseteq Tickers /\ Tickers \subseteq Nat /\ 0 \notin Symbols
ASSUME OffsetAssumption  == Offset \in [Symbols -> -12 .. 14]
ASSUME RowsAssumption    == /\ Days \subseteq Int
                            /\ \A r \in RunRows : r.start \in Int /\ r.end \in Int
ASSUME ProgramsAssumption ==
  /\ Builtin \in Programs
  /\ \A p \in Programs : IsFiniteSet(DOMAIN p.source.namespace)

VARIABLES
  strategy,  \* the Strategy row
  run,       \* the BacktestRun row: start_date, end_date, params and inputs
  exists,    \* whether the run has not been deleted
  symbols,   \* BacktestRun.symbols
  known,     \* the Symbol rows
  ticker,    \* Symbol.ticker
  bars,      \* trading days of the bars of each symbol
  pc,        \* what the task does next
  program,   \* run.strategy, as the task has read it
  row,       \* run, as the task has read it
  symbol,    \* the symbol whose bars are used, 0 for None
  df,        \* the trading days of these bars
  cls,       \* the class that was loaded
  result,    \* what the engine has returned: its statistics, whether it traded, and
             \* whether the columns hold its amounts and its trades' tags
  primary_symbol, \* the symbol the trades are saved under
  stored,    \* the rows of the last execution that succeeded
  outcome,   \* status of the last execution
  held,      \* history: what the Strategy row has held
  switched,  \* history: symbols were added to the run or taken from it, or one of
             \* them was renamed, since the bars were loaded
  executions, changes

rowVars   == <<strategy, held, run, exists, symbols, known, ticker, bars>>
localVars == <<program, row, symbol, df, cls, result, primary_symbol>>
countVars == <<executions, changes>>
vars == <<rowVars, pc, localVars, stored, outcome, switched, countVars>>

NoResult      == [traded |-> FALSE, fits |-> FALSE, stats |-> <<>>]
NothingStored == [of |-> 0, days |-> {}, traded |-> FALSE, symbol |-> 0]

-----------------------------------------------------------------------------
(* engine.py and persistence.py: values.                                    *)

\* run.symbols.first(): Symbol is ordered by ticker.
First(set) ==
  IF set = {} THEN 0 ELSE CHOOSE s \in set : \A o \in set : ticker[s] =< ticker[o]

\* A bar is stamped with its exchange's midnight, in UTC: hours since day 0.
Stamp(s, day) == 24 * day - Offset[s]

\* Mutant: the end of the window is the beginning of its last day.
HalfOpen(s, start, end) == {d \in bars[s] : Stamp(s, d) \in 24 * start .. 24 * end - 1}
\* load_bars_dataframe from time.min of the first to time.max of the last day.
LoadBars(s, start, end) ==
  {d \in bars[s] : Stamp(s, d) \in 24 * start .. 24 * end + 23}

\* Mutant: only NaN is taken for missing.
CoerceNaN(kind) == CASE kind \in {"nan", "nat"} -> "none"
                     [] kind = "timedelta"      -> "float"
                     [] kind = "timestamp"      -> "str"
                     [] kind = "numpy int"      -> "int"
                     [] OTHER                   -> kind
Coerce(kind) == CASE kind \in {"none", "nan", "nat", "inf"} -> "none"
                  [] kind = "timedelta"                     -> "float"
                  [] kind = "timestamp"                     -> "str"
                  [] kind = "numpy int"                     -> "int"
                  [] OTHER                                  -> kind

\* Keys that start with an underscore are frames and objects, and left out.
Internal == {"_equity_curve", "_trades", "_strategy"}
SerializeMetrics(stats) == [k \in DOMAIN stats \ Internal |-> Coerce(stats[k])]

\* What the columns of RunMetrics, all nullable, and its JSON column can hold.
Storable(metrics) ==
  \A k \in DOMAIN metrics : metrics[k] \in {"none", "float", "int", "str"}

\* The kinds of values pandas leaves in the statistics.
Kinds == {"none", "nan", "nat", "inf", "timedelta", "timestamp", "numpy int", "float",
          "int", "str"}
ASSUME StatisticsAssumption ==
  \A stats \in Statistics : \A k \in DOMAIN stats \ Internal : stats[k] \in Kinds

-----------------------------------------------------------------------------
Init ==
  /\ strategy \in Programs
  /\ held = {strategy}
  /\ run \in RunRows
  /\ exists = TRUE
  /\ symbols \in SUBSET Symbols
  /\ known = Symbols
  /\ ticker = [s \in Symbols |-> s]
  /\ bars \in [Symbols -> {{}, Days}]
  /\ pc = "idle"
  /\ program = strategy
  /\ row = run
  /\ symbol = 0
  /\ df = {}
  /\ cls = NoClass
  /\ result = NoResult
  /\ primary_symbol = 0
  /\ stored = NothingStored
  /\ outcome = "none"
  /\ switched = FALSE
  /\ executions = 0
  /\ changes = 0

(* Users, the admin and the ingestion.                                      *)

Change ==
  /\ changes < MaxChanges
  /\ changes' = changes + 1
  /\ UNCHANGED <<pc, localVars, outcome, executions>>

SetSymbols(set) ==
  /\ symbols' = set
  /\ switched' = (switched \/ set # symbols)

\* One statement saves the code and the entrypoint.
SaveStrategy(new) ==
  /\ strategy' = new
  /\ held' = held \cup {new}
  /\ Change
  /\ UNCHANGED <<run, exists, symbols, known, ticker, bars, stored, switched>>

\* PUT and PATCH /api/strategies/ and the admin.
EditStrategy == \E new \in Programs \ {strategy} : SaveStrategy(new)

\* install_builtin_strategies takes an edit of the bundled strategy back.
InstallBuiltin == SaveStrategy(Builtin)

\* The admin's form saves the row and its symbols in one transaction.
EditRun ==
  /\ exists
  /\ run' \in RunRows
  /\ \E set \in SUBSET known : SetSymbols(set)
  /\ Change
  /\ UNCHANGED <<strategy, held, exists, known, ticker, bars, stored>>

\* The run's symbols, trades, curve and metrics go with its row.
DestroyRun ==
  /\ exists
  /\ exists' = FALSE
  /\ SetSymbols({})
  /\ stored' = NothingStored
  /\ Change
  /\ UNCHANGED <<strategy, held, run, known, ticker, bars>>

IngestBars(s) ==
  /\ s \in known
  /\ bars' = [bars EXCEPT ![s] = Days]
  /\ Change
  /\ UNCHANGED <<strategy, held, run, exists, symbols, known, ticker, stored, switched>>

\* PUT and PATCH /api/symbols/ and the admin can change the ticker, by which the
\* symbols of a run are ordered.
RenameSymbol(s) ==
  /\ s \in known
  /\ \E new \in Tickers \ {ticker[o] : o \in known} : ticker' = [ticker EXCEPT ![s] = new]
  /\ switched' = (switched \/ s \in symbols)
  /\ Change
  /\ UNCHANGED <<strategy, held, run, exists, symbols, known, bars, stored>>

\* Trade.symbol protects a symbol; its bars and its place in a run cascade.
DeleteSymbol(s) ==
  /\ s \in known
  /\ ~ (stored.traded /\ stored.symbol = s)
  /\ known' = known \ {s}
  /\ bars' = [bars EXCEPT ![s] = {}]
  /\ SetSymbols(symbols \ {s})
  /\ Change
  /\ UNCHANGED <<strategy, held, run, exists, ticker, stored>>

-----------------------------------------------------------------------------
(* The task.                                                                *)

\* The except branch of the task; a transaction it interrupts rolls back.
Fail == pc' = "done" /\ outcome' = "failed"
Pass(label) == pc' = label /\ UNCHANGED outcome

\* run_backtest reads the run with its strategy in one SELECT; a deleted run ends
\* the task.
Lookup ==
  /\ pc \in {"idle", "done"}
  /\ exists
  /\ executions < MaxExecutions
  /\ executions' = executions + 1
  /\ program' = strategy
  /\ row' = run
  /\ pc' = "symbol"
  /\ outcome' = "none"
  /\ symbol' = 0
  /\ df' = {}
  /\ cls' = NoClass
  /\ result' = NoResult
  /\ primary_symbol' = 0
  /\ UNCHANGED <<rowVars, stored, switched, changes>>

FirstSymbol ==
  /\ pc = "symbol"
  /\ symbol' = First(symbols)
  /\ switched' = FALSE
  /\ IF symbol' = 0 THEN Fail ELSE Pass("bars")
  /\ UNCHANGED <<rowVars, program, row, df, cls, result, primary_symbol, stored,
                 countVars>>

Load ==
  /\ pc = "bars"
  /\ df' = LoadBars(symbol, row.start, row.end)
  /\ IF df' = {} THEN Fail ELSE Pass("class")
  /\ UNCHANGED <<rowVars, program, row, symbol, cls, result, primary_symbol,
                 stored, switched, countVars>>

\* Mutant: the entrypoint is read again when the class is loaded.
EntrypointNow == [program EXCEPT !.entrypoint = strategy.entrypoint]
AsRead        == program

LoadClass ==
  /\ pc = "class"
  /\ program' = AsRead
  /\ cls' = LoadStrategyClass(program'.source, program'.entrypoint)
  /\ IF cls' = NoClass THEN Fail ELSE Pass("engine")
  /\ UNCHANGED <<rowVars, row, symbol, df, result, primary_symbol, stored,
                 switched, countVars>>

\* Backtest(...) and bt.run(**params): unknown parameters, and a capital or a
\* commission the library refuses, raise, and so may the strategy.  What it earns,
\* and the tags of its orders, are its own: an amount of 10^12, or a tag of more than
\* 120 characters, has no room in its column, and a capital that is too large never
\* has any.
EngineReturns ==
  /\ pc = "engine"
  /\ row.inputs # "refused"
  /\ row.params \subseteq Parameters[cls]
  /\ \E traded, fits \in BOOLEAN, stats \in Statistics :
       /\ fits => row.inputs # "too large"
       /\ result' = [traded |-> traded, fits |-> fits, stats |-> SerializeMetrics(stats)]
  /\ Pass("save")
  /\ UNCHANGED <<rowVars, program, row, symbol, df, cls, primary_symbol, stored,
                 switched, countVars>>

EngineRaises ==
  /\ pc = "engine"
  /\ Fail
  /\ UNCHANGED <<rowVars, localVars, stored, switched, countVars>>

LastSymbol    ==  \* mutant
  IF symbols = {} THEN 0
  ELSE CHOOSE s \in symbols : \A o \in symbols : ticker[s] >= ticker[o]
PrimarySymbol == First(symbols)

\* save_run_results reads the run's first symbol again ...
SecondSymbol ==
  /\ pc = "save"
  /\ primary_symbol' = PrimarySymbol
  /\ Pass("commit")
  /\ UNCHANGED <<rowVars, program, row, symbol, df, cls, result, stored, switched,
                 countVars>>

\* ... and stores the trades under it, with a point of equity per bar and the
\* metrics, all of which refer to the run.
Saved ==
  /\ exists
  /\ result.traded => primary_symbol \in known
  /\ result.fits
  /\ Storable(result.stats)

Commit ==
  /\ pc = "commit"
  /\ IF Saved
     THEN /\ stored' = [of |-> symbol, days |-> df, traded |-> result.traded,
                        symbol |-> primary_symbol]
          /\ pc' = "done"
          /\ outcome' = "succeeded"
     ELSE Fail /\ UNCHANGED stored
  /\ UNCHANGED <<rowVars, localVars, switched, countVars>>

-----------------------------------------------------------------------------
Environment ==
  \/ EditStrategy \/ InstallBuiltin \/ EditRun \/ DestroyRun
  \/ \E s \in Symbols : IngestBars(s) \/ RenameSymbol(s) \/ DeleteSymbol(s)

Task ==
  \/ Lookup \/ FirstSymbol \/ Load \/ LoadClass \/ EngineReturns \/ EngineRaises
  \/ SecondSymbol \/ Commit

Next == Environment \/ Task

Spec == Init /\ [][Next]_vars

-----------------------------------------------------------------------------
(* What the stored results were computed from.                              *)

\* Trades are stored under the symbol whose bars produced them, although the
\* symbol is read twice, as the first in the order of the tickers: only a change of
\* the run's own symbols between the two reads parts them, when one is added, taken
\* away, deleted or renamed, not an edit of the strategy, a change of another symbol
\* or an ingestion.
TradesOfTheirBars ==
  [][stored' # stored /\ result.traded /\ ~ switched => stored'.symbol = stored'.of]_vars

\* The code and the entrypoint that are loaded have been in the Strategy row
\* together: an edit during the execution does not join one version's code with
\* another's entrypoint.
OneVersion == program \in held

\* The loader never guesses: the class it returns is the one the entrypoint names;
\* where it names none, because it is the default, is misspelt or stands for None, no
\* other class could have been meant.  The comment of load_strategy_class
\* (sandbox.py:86-88) promises this for the default entrypoint only, and "Class name
\* to load" (models.py:22) for none: that a misspelt one, too, runs the only class
\* there is, and is not refused, is what the code does.
LoadedClassIsMeant ==
  cls # NoClass =>
    LET names == program.source.namespace
        named == IF program.entrypoint \in DOMAIN names THEN names[program.entrypoint]
                 ELSE NoClass
    IN /\ cls \in Subclasses
       /\ \/ cls = named
          \/ /\ program.entrypoint = "Strategy" \/ named = NoClass
             /\ \A n \in DOMAIN names : names[n] \in Subclasses => names[n] = cls

\* "NaN/NaT/Inf -> None": what the engine has returned can be stored, whatever the
\* statistics of a run with or without trades are.  A result is lost only when an
\* amount overflows its column, when a tag is too long for its own, when the run was
\* deleted, or when a change of the run's symbols meanwhile leaves its trades without
\* one.
EngineResultsAreKept ==
  outcome = "failed" /\ result # NoResult =>
    ~ result.fits \/ ~ exists \/ (result.traded /\ switched)

\* A run uses exactly the bars of the trading days from start_date to end_date; on
\* an exchange east of UTC a trading day begins on the UTC day before it, and the
\* window stands for the days after these.
WindowExact ==
  [][pc = "bars" /\ pc' # "bars" =>
       LET shift == IF Offset[symbol] > 0 THEN 1 ELSE 0 IN
       df' = {d \in bars[symbol] : d - shift \in row.start .. row.end}]_vars
=============================================================================
