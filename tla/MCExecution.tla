---------------------------- MODULE MCExecution ----------------------------
(* A small instance of Execution for TLC: an American and a Japanese stock, *)
(* a strategy that is edited between programs of every kind.                *)
EXTENDS Execution, Functions

Source(imports, names, namespace) ==
  [parses |-> TRUE, imports |-> imports, names |-> names, raises |-> FALSE,
   namespace |-> namespace]
Program(source, entrypoint) == [source |-> source, entrypoint |-> entrypoint]

Imported == [Strategy |-> "base", pd |-> "module"]
One      == [Strategy |-> "base", SmaCross |-> "A"]
Two      == [Strategy |-> "base", SmaCross |-> "A", Breakout |-> "B"]
Aliased  == [Strategy |-> "base", SmaCross |-> "A", Default |-> "A", SMA |-> "function"]
Plain    == Source({"backtesting"}, {"range"}, One)

\* The built-in strategy; one class with the default entrypoint and with a
\* misspelt one; several classes, named or not; an alias; no class; a function's
\* name; and sources that do not load.
MCBuiltin == Program(Source({"pandas", "backtesting"}, {"crossover"}, One), "SmaCross")
MCPrograms ==
  {MCBuiltin,
   Program(Plain, "Strategy"), Program(Plain, "SmaCros"),
   Program(Source({"backtesting"}, {}, Two), "Breakout"),
   Program(Source({"backtesting"}, {}, Two), "Strategy"),
   Program(Source({"backtesting"}, {}, Aliased), "Default"),
   Program(Source({"backtesting"}, {}, Aliased), "SMA"),
   Program(Source({"pandas"}, {}, Imported), "Strategy"),
   Program(Source({"os"}, {}, One), "SmaCross"),
   Program([Plain EXCEPT !.raises = TRUE], "SmaCross")}

MCOffset     == <<-5, 9>>
MCParameters == [A |-> {"n"}, B |-> {}]
MCRunRows ==
  [start : {1}, end : {2}, params : {{}, {"n"}}, inputs : {"fine", "too large"}]
    \cup [start : {0}, end : {0}, params : {{}}, inputs : {"fine", "refused"}]

Stats(sharpe, duration) ==
  [Sharpe_Ratio |-> sharpe, Max_Drawdown_Duration |-> duration,
   Trades |-> "numpy int", Start |-> "timestamp", _trades |-> "frame"]
MCStatistics ==
  {Stats("float", "timedelta"), Stats("nan", "nat"), Stats("inf", "timedelta")}
=============================================================================
