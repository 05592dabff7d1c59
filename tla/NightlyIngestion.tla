-------------------------- MODULE NightlyIngestion --------------------------
(***************************************************************************)
(* A calendar of nights: beat starts bars.ingest_all_active_bars, which    *)
(* queues an ingestion of the last DaysBack days for every active symbol,  *)
(* while the admin queues backfills, the ingest_bars command ingests       *)
(* directly, and the source restates all past prices of a symbol when it   *)
(* splits.  Messages name a symbol by its ticker, which users may change.  *)
(* A day's bar is identified with the basis its prices have: every split,  *)
(* and every change of the ticker they are quoted under, makes a new one;  *)
(* 0 is no bar.                                                            *)
(*                                                                         *)
(* What happens inside one ingestion, its attempts, limits and retries, is *)
(* the subject of Ingestion; here it fetches and stores, or is given up.   *)
(***************************************************************************)
EXTENDS Integers, FiniteSetsExt

CONSTANTS
  Symbols,     \* Symbol rows, named by their first tickers
  Tickers,
  LastDay,     \* bound: days of the calendar
  DaysBack,    \* days_back of the nightly schedule
  Backfill,    \* days_back of the admin's backfill and of the command
  MaxBacklog,  \* bound: messages, tickers and fetches left over for the next night
  MaxIncidents \* bound: splits, edits, backfills, commands, deaths and failures

ASSUME DaysAssumption ==
  /\ LastDay \in Nat /\ DaysBack \in 1 .. LastDay /\ Backfill \in Nat
  /\ Symbols \subseteq Tickers

VARIABLES
  day,       \* today; it is past 02:00 UTC
  symbol,    \* "unknown", or whether the Symbol row is_active
  ticker,    \* its ticker
  joined,    \* the day since which it has been active
  series,    \* the basis of the bar of each day
  basis,     \* the source's basis
  fanouts,   \* ready ingest_all_active_bars messages
  tickers,   \* what the running fan-out has still to queue
  queue,     \* ready ingest_bars messages, per ticker and days_back
  fetched,   \* ingestions that have fetched and not yet stored
  command,   \* symbols the running command has still to ingest
  former,    \* those of them it would ingest under a ticker they have no more
  lost,      \* history: nights lost to a named cause, per symbol
  unified,   \* history: symbols backfilled since their last split
  incidents

symbolVars  == <<symbol, ticker, joined>>
fanoutVars  == <<fanouts, tickers>>
commandVars == <<command, former>>
pastVars    == <<lost, unified>>
vars == <<day, symbolVars, series, basis, fanoutVars, queue, fetched, commandVars,
          pastVars, incidents>>

Calendar == 0 .. LastDay - 1
Windows  == {DaysBack, Backfill}
Active   == {s \in Symbols : symbol[s] = "active"}
Known(t) == {s \in Symbols : symbol[s] # "unknown" /\ ticker[s] = t}

Init ==
  /\ day = 0
  /\ symbol \in [Symbols -> {"unknown", "active"}]
  /\ ticker = [s \in Symbols |-> s]
  /\ joined = [s \in Symbols |-> 0]
  /\ series = [s \in Symbols |-> [d \in Calendar |-> 0]]
  /\ basis = [s \in Symbols |-> 1]
  /\ fanouts = 0
  /\ tickers = {}
  /\ queue = [m \in Tickers \X Windows |-> 0]
  /\ fetched = {}
  /\ command = {}
  /\ former = {}
  /\ lost = [s \in Symbols |-> {}]
  /\ unified = {}
  /\ incidents = 0

Incident == incidents < MaxIncidents /\ incidents' = incidents + 1

\* Tonight's ingestion of these symbols is lost, to a named cause.
LoseNight(ss) ==
  lost' = [s \in Symbols |-> lost[s] \cup (IF s \in ss THEN {day} ELSE {})]

-----------------------------------------------------------------------------
(* The calendar, the source and the users.                                  *)

\* The running fan-out or a message asks for the night's bars of ticker t.
Addressed(t) == t \in tickers \/ queue[<<t, DaysBack>>] > 0

\* A nightly ingestion of s that has been asked for and is not over.
Pending(s) ==
  \/ fanouts > 0 \/ Addressed(ticker[s])
  \/ \E f \in fetched : f.symbol = s /\ f.window = DaysBack

Backlog ==
  fanouts + Cardinality(tickers) + Cardinality(fetched)
    + MapThenSumSet(LAMBDA m : queue[m], DOMAIN queue)

\* None is running, one, or a second worker-and-beat.
Beats == 0 .. 2

\* The next 02:00 UTC: beat publishes the fan-out, or is down; a second beat
\* publishes it twice.  What is pending has not made it in its night.
NextNight ==
  /\ day < LastDay /\ Backlog <= MaxBacklog
  /\ day' = day + 1
  /\ \E beats \in Beats :
       /\ IF beats = 1 THEN UNCHANGED incidents ELSE Incident
       /\ fanouts' = fanouts + beats
       /\ lost' = [s \in Symbols |->
            lost[s] \cup (IF Pending(s) THEN {day} ELSE {})
                    \cup (IF beats = 0 THEN {day + 1} ELSE {})]
  /\ UNCHANGED <<symbolVars, series, basis, tickers, queue, fetched,
                 commandVars, unified>>

Split(s) ==
  /\ Incident
  /\ basis' = [basis EXCEPT ![s] = @ + 1]
  /\ unified' = unified \ {s}
  /\ UNCHANGED <<day, symbolVars, series, fanoutVars, queue, fetched, commandVars,
                 lost>>

SetSymbol(s, state) ==
  /\ symbol' = [symbol EXCEPT ![s] = state]
  /\ joined' = IF state = "active" /\ symbol[s] # "active"
               THEN [joined EXCEPT ![s] = day] ELSE joined
  /\ UNCHANGED ticker

\* POST, PATCH and DELETE of /api/symbols/ and the admin: a symbol is created,
\* activated, deactivated or deleted.  Bars are deleted with their symbol, and none
\* can be stored for the row that is gone.
EditSymbol(s) ==
  /\ Incident
  /\ \E state \in {"unknown", "active", "inactive"} \ {symbol[s]} :
       /\ SetSymbol(s, state)
       /\ IF state = "unknown"
          THEN /\ series' = [series EXCEPT ![s] = [d \in Calendar |-> 0]]
               /\ unified' = unified \ {s}
               /\ fetched' = {[f EXCEPT !.days = IF f.symbol = s THEN {} ELSE @] :
                               f \in fetched}
               /\ command' = command \ {s}
               /\ former' = former \ {s}
          ELSE UNCHANGED <<series, unified, fetched, commandVars>>
  /\ UNCHANGED <<day, basis, fanoutVars, queue, lost>>

\* PATCH of the ticker, which is unique: the row keeps its bars.  What has been asked
\* for under the old ticker will find no such symbol, or another one that takes the
\* ticker; a running command goes on with the rows it has read.
RenameSymbol(s, t) ==
  /\ symbol[s] # "unknown"
  /\ t # ticker[s] /\ Known(t) = {}
  /\ Incident
  /\ ticker' = [r \in Symbols |-> IF r = s THEN t
                                 ELSE IF ticker[r] = t THEN ticker[s] ELSE ticker[r]]
  /\ basis' = [basis EXCEPT ![s] = @ + 1]
  /\ unified' = unified \ {s}
  /\ former' = former \cup ({s} \cap command)
  /\ LoseNight({r \in Symbols : r = s /\ Addressed(ticker[s])})
  /\ UNCHANGED <<day, symbol, joined, series, fanoutVars, queue, fetched, command>>

\* The admin's backfill action queues one message per selected symbol.
QueueBackfill(s) ==
  /\ symbol[s] # "unknown"
  /\ Incident
  /\ queue' = [queue EXCEPT ![<<ticker[s], Backfill>>] = @ + 1]
  /\ UNCHANGED <<day, symbolVars, series, basis, fanoutVars, fetched, commandVars,
                 pastVars>>

-----------------------------------------------------------------------------
(* bars.ingest_all_active_bars.                                             *)

\* One fan-out at a time; with no active symbol it returns at once.
ListTickers ==
  /\ fanouts > 0 /\ tickers = {}
  /\ fanouts' = fanouts - 1
  /\ tickers' = {ticker[s] : s \in Active}
  /\ UNCHANGED <<day, symbolVars, series, basis, queue, fetched, commandVars,
                 pastVars, incidents>>

Delay(t) == queue' = [queue EXCEPT ![<<t, DaysBack>>] = @ + 1]

\* In the order of the tickers, on which nothing here depends.
QueueTicker ==
  /\ \E t \in tickers : Delay(t) /\ tickers' = tickers \ {t}
  /\ UNCHANGED <<day, symbolVars, series, basis, fanouts, fetched, commandVars,
                 pastVars, incidents>>

\* The database refuses the list of tickers, the broker one of the messages, or the
\* time limit strikes: the task fails, and is not retried.
FanOutFails ==
  /\ Incident
  /\ \/ /\ fanouts > 0 /\ tickers = {}
        /\ fanouts' = fanouts - 1
        /\ LoseNight(Active)
        /\ UNCHANGED tickers
     \/ /\ tickers # {}
        /\ tickers' = {}
        /\ LoseNight({s \in Symbols : ticker[s] \in tickers})
        /\ UNCHANGED fanouts
  /\ UNCHANGED <<day, symbolVars, series, basis, queue, fetched, commandVars, unified>>

Forgotten == fanouts  \* mutant: acknowledged before it runs
Redelivered == fanouts + 1

\* The worker dies before or after it has queued a ticker: the message is delivered
\* again, and starts from the beginning.
FanOutLost ==
  /\ tickers # {}
  /\ Incident
  /\ (\E t \in tickers : Delay(t)) \/ UNCHANGED queue
  /\ fanouts' = Redelivered
  /\ tickers' = {}
  /\ UNCHANGED <<day, symbolVars, series, basis, fetched, commandVars, pastVars>>

-----------------------------------------------------------------------------
(* bars.ingest_bars: ingest_symbol fetches, and stores later.               *)

Consume(t, k) == queue[<<t, k>>] > 0 /\ queue' = [queue EXCEPT ![<<t, k>>] = @ - 1]

\* The dates from now - days_back, to now, which the source excludes.
Window(k) == {d \in Calendar : d \in day - k .. day - 1}
Ingestion(s, k, days, b) ==
  [symbol |-> s, ticker |-> ticker[s], window |-> k, days |-> days, basis |-> b]

\* The symbol that has the ticker now, if there is one.
Fetch(t, k) ==
  /\ Consume(t, k)
  /\ fetched' = fetched \cup {Ingestion(s, k, Window(k), basis[s]) : s \in Known(t)}
  /\ UNCHANGED <<day, symbolVars, series, basis, fanoutVars, commandVars, pastVars,
                 incidents>>

\* The retries are exhausted, or a time limit or the database ends the task.
FetchFails(t, k) ==
  /\ Consume(t, k)
  /\ Incident
  /\ LoseNight({s \in Symbols : ticker[s] = t /\ k = DaysBack})
  /\ UNCHANGED <<day, symbolVars, series, basis, fanoutVars, fetched, commandVars,
                 unified>>

\* Mutant: ignore_conflicts instead of update_conflicts.
Inserted(f) == [d \in Calendar |-> IF d \in f.days /\ series[f.symbol][d] = 0
                                   THEN f.basis ELSE series[f.symbol][d]]
Upserted(f) == [d \in Calendar |-> IF d \in f.days THEN f.basis
                                                   ELSE series[f.symbol][d]]

\* A backfill of today's basis that reaches back to the first bar, with no older
\* fetch of the symbol still to be stored, and no command still to make one.
Unifies(f) ==
  /\ f.window = Backfill
  /\ f.basis = basis[f.symbol]
  /\ f.days # {} /\ \A d \in Calendar \ f.days : series[f.symbol][d] = 0
  /\ \A g \in fetched : g.symbol = f.symbol => g.basis = f.basis
  /\ f.symbol \notin former

Store(f) ==
  /\ f \in fetched
  /\ fetched' = fetched \ {f}
  /\ series' = [series EXCEPT ![f.symbol] = Upserted(f)]
  /\ unified' = IF Unifies(f) THEN unified \cup {f.symbol} ELSE unified
  /\ UNCHANGED <<day, symbolVars, basis, fanoutVars, queue, commandVars, lost,
                 incidents>>

\* The database, or a time limit, refuses the bars: the task is not retried.
StoreFails(f) ==
  /\ f \in fetched
  /\ Incident
  /\ fetched' = fetched \ {f}
  /\ LoseNight({s \in Symbols : s = f.symbol /\ f.window = DaysBack})
  /\ UNCHANGED <<day, symbolVars, series, basis, fanoutVars, queue, commandVars,
                 unified>>

\* The worker dies, before or after its transaction, and starts over, in vain if
\* the symbol has been renamed.
IngestionLost(f) ==
  /\ f \in fetched
  /\ Incident
  /\ fetched' = fetched \ {f}
  /\ queue' = [queue EXCEPT ![<<f.ticker, f.window>>] = @ + 1]
  /\ LoseNight({s \in Symbols :
                  s = f.symbol /\ f.window = DaysBack /\ ticker[s] # f.ticker})
  /\ UNCHANGED <<day, symbolVars, series, basis, fanoutVars, commandVars, unified>>

-----------------------------------------------------------------------------
(* The ingest_bars command, in a process of its own.                        *)

\* Window 0 marks what the command has fetched and not yet stored.
Ingesting == {f \in fetched : f.window = 0}

\* --all takes the active symbols; tickers are looked up, or created, all of them
\* before the first is ingested.
StartCommand ==
  /\ command = {} /\ Ingesting = {}
  /\ Incident
  /\ \/ command' = Active /\ UNCHANGED symbolVars
     \/ \E wanted \in SUBSET Symbols \ {{}} :
          LET missing == {s \in wanted : symbol[s] = "unknown"} IN
          /\ command' = wanted
          /\ symbol' = [s \in Symbols |-> IF s \in missing THEN "active" ELSE symbol[s]]
          /\ joined' = [s \in Symbols |-> IF s \in missing THEN day ELSE joined[s]]
  /\ UNCHANGED <<day, ticker, series, basis, fanoutVars, queue, fetched, former,
                 pastVars>>

\* One symbol after the other, over a range of the operator's choice; under a former
\* ticker, prices that are not those of the symbol's ticker.
CommandFetches(s) ==
  /\ s \in command /\ Ingesting = {}
  /\ command' = command \ {s}
  /\ former' = former \ {s}
  /\ \E days \in {Window(Backfill), Window(DaysBack)} :
       fetched' = fetched \cup
         {Ingestion(s, 0, days, IF s \in former THEN basis[s] - 1 ELSE basis[s])}
  /\ UNCHANGED <<day, symbolVars, series, basis, fanoutVars, queue, pastVars,
                 incidents>>

\* The first failure ends the command, and so does the death of its process.
CommandFails ==
  /\ command # {} \/ Ingesting # {}
  /\ command' = {}
  /\ former' = {}
  /\ fetched' = fetched \ Ingesting
  /\ UNCHANGED <<day, symbolVars, series, basis, fanoutVars, queue, pastVars,
                 incidents>>

-----------------------------------------------------------------------------
Next ==
  \/ NextNight \/ ListTickers \/ QueueTicker \/ FanOutFails \/ FanOutLost
  \/ \E s \in Symbols : Split(s) \/ EditSymbol(s) \/ QueueBackfill(s)
  \/ \E s \in Symbols, t \in Tickers : RenameSymbol(s, t)
  \/ \E t \in Tickers, k \in Windows : Fetch(t, k) \/ FetchFails(t, k)
  \/ \E f \in fetched :
       Store(f) \/ (f.window # 0 /\ (StoreFails(f) \/ IngestionLost(f)))
  \/ StartCommand \/ CommandFails \/ \E s \in Symbols : CommandFetches(s)

Spec == Init /\ [][Next]_vars

-----------------------------------------------------------------------------
(* What a symbol's series looks like.                                       *)

\* A day is missing from the series of a symbol that was active all along only if
\* each of the nights that would have fetched it was lost for a reason: beat was
\* down, the database or the broker refused the fan-out, the ingestion was given
\* up or its bars refused, the symbol's ticker changed while the night's messages
\* had the old one, or the ingestion was still pending at the next night.  A lost
\* worker, a second beat, a split or any other edit is none.
NoGaps ==
  \A s \in Active : \A d \in joined[s] .. day - DaysBack - 1 :
    series[s][d] = 0 => d + 1 .. d + DaysBack \subseteq lost[s]

\* A backfill after a split puts the series on one basis, and the nights keep it
\* there until the next split or change of the ticker, unless an ingestion of the old
\* prices stores them after the backfill did.
OneBasisAfterBackfill ==
  \A s \in unified : \A d \in Calendar : series[s][d] \in {0, basis[s]}
=============================================================================
