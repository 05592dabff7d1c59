----------------------- MODULE NightlyIngestionProofs -----------------------
(***************************************************************************)
(* Proofs about NightlyIngestion, for any set of symbols, any calendar and *)
(* any lengths of the nightly window and of the backfill.                  *)
(***************************************************************************)
EXTENDS NightlyIngestion, TLAPS

Bases == Nat \ {0}
Days  == [Calendar -> Nat]
Fetches == [symbol : Symbols, ticker : Tickers, window : Windows \cup {0},
            days : SUBSET Calendar, basis : Bases]

TypeInv ==
  /\ day \in 0 .. LastDay
  /\ symbol \in [Symbols -> {"unknown", "active", "inactive"}]
  /\ ticker \in [Symbols -> Tickers]
  /\ joined \in [Symbols -> Nat]
  /\ series \in [Symbols -> Days]
  /\ basis \in [Symbols -> Bases]
  /\ fanouts \in Nat
  /\ queue \in [Tickers \X Windows -> Nat]
  /\ fetched \in SUBSET Fetches
  /\ lost \in [Symbols -> SUBSET Int]
  /\ unified \subseteq Symbols
  /\ former \subseteq {s \in Symbols : basis[s] > 1}

(* What has been fetched of a symbol on one basis is on that basis too, and  *)
(* the command will fetch nothing else, so that storing it cannot bring old  *)
(* prices back.                                                             *)
BasisInv ==
  \A s \in unified :
    /\ \A d \in Calendar : series[s][d] \in {0, basis[s]}
    /\ \A f \in fetched : f.symbol = s => f.basis = basis[s]
    /\ s \notin former

(* This night's ingestion of s is somewhere between beat and the transaction *)
(* that stores it: what is Pending, less the fetches of earlier nights.      *)
Fresh(s) ==
  \/ fanouts > 0
  \/ Addressed(ticker[s])
  \/ \E f \in fetched : f.symbol = s /\ f.window = DaysBack /\ f.days = Window(DaysBack)

(* The days that night n fetches are in the series.                          *)
Covered(s, n) == \A d \in Calendar : d \in n - DaysBack .. n - 1 => series[s][d] # 0

(* Every night since s is active has been lost, or is under way, or is stored. *)
Nights(s) ==
  \A n \in joined[s] + 1 .. day :
    n \in lost[s] \/ (n = day /\ Fresh(s)) \/ Covered(s, n)

NightsInv == \A s \in Active : Nights(s)

NightlyInv == TypeInv /\ BasisInv /\ NightsInv

-----------------------------------------------------------------------------
(* Types.                                                                   *)

USE DaysAssumption

LEMMA InitTypeInv == Init => TypeInv
  BY DEF Init, TypeInv, Bases, Days, Windows, Calendar, Fetches

(* Queueing and taking messages keep the queue a function to Nat; an update  *)
(* outside of its domain changes nothing.                                    *)
LEMMA QueueType ==
  ASSUME queue \in [Tickers \X Windows -> Nat], NEW m
  PROVE  /\ [queue EXCEPT ![m] = @ + 1] \in [Tickers \X Windows -> Nat]
         /\ queue[m] > 0 =>
              [queue EXCEPT ![m] = @ - 1] \in [Tickers \X Windows -> Nat]
<1>. CASE m \in Tickers \X Windows
  OBVIOUS
<1>. CASE m \notin Tickers \X Windows
  OBVIOUS
<1>. QED
  OBVIOUS

LEMMA IngestionType ==
  ASSUME TypeInv, NEW s \in Symbols, NEW k \in Windows \cup {0},
         NEW days \in SUBSET Calendar, NEW b \in Bases
  PROVE  Ingestion(s, k, days, b) \in Fetches
  BY DEF TypeInv, Ingestion, Fetches

(* Losing a night adds today to the nights of the symbols it is lost for.     *)
LEMMA LostType ==
  ASSUME TypeInv, NEW ss, LoseNight(ss)
  PROVE  /\ lost' \in [Symbols -> SUBSET Int]
         /\ \A s \in Symbols :
              lost'[s] = lost[s] \cup (IF s \in ss THEN {day} ELSE {})
<1>. day \in Int /\ lost \in [Symbols -> SUBSET Int]
  BY DEF TypeInv
<1>1. ASSUME NEW s \in Symbols
      PROVE  lost[s] \cup (IF s \in ss THEN {day} ELSE {}) \in SUBSET Int
  OBVIOUS
<1>. QED
  BY <1>1 DEF LoseNight

LEMMA NextTypeInv == TypeInv /\ [Next]_vars => TypeInv'
<1>. SUFFICES ASSUME TypeInv, [Next]_vars PROVE TypeInv'
  OBVIOUS
<1>1. CASE UNCHANGED vars
  BY <1>1 DEF vars, symbolVars, fanoutVars, commandVars, pastVars, TypeInv
<1>2. CASE NextNight
  BY <1>2 DEF NextNight, TypeInv, Beats, symbolVars, commandVars
<1>3. CASE ListTickers
  BY <1>3 DEF ListTickers, TypeInv, symbolVars, commandVars, pastVars
<1>4. CASE QueueTicker
  <2>1. queue' \in [Tickers \X Windows -> Nat]
    BY <1>4, QueueType DEF QueueTicker, Delay, TypeInv
  <2>. QED
    BY <1>4, <2>1 DEF QueueTicker, TypeInv, symbolVars, commandVars, pastVars
<1>5. CASE FanOutFails
  <2>1. PICK ss : LoseNight(ss)
    BY <1>5 DEF FanOutFails
  <2>2. lost' \in [Symbols -> SUBSET Int]
    BY <2>1, LostType
  <2>3. fanouts' \in Nat
    BY <1>5 DEF FanOutFails, TypeInv
  <2>. QED
    BY <1>5, <2>2, <2>3 DEF FanOutFails, TypeInv, symbolVars, commandVars
<1>6. CASE FanOutLost
  <2>1. queue' \in [Tickers \X Windows -> Nat]
    <3>1. ASSUME NEW t \in tickers, Delay(t) PROVE queue' \in [Tickers \X Windows -> Nat]
      BY <3>1, QueueType DEF Delay, TypeInv
    <3>2. CASE UNCHANGED queue
      BY <3>2 DEF TypeInv
    <3>. QED
      BY <1>6, <3>1, <3>2 DEF FanOutLost
  <2>. QED
    BY <1>6, <2>1 DEF FanOutLost, Redelivered, TypeInv, symbolVars, commandVars,
                        pastVars
<1>7. ASSUME NEW s \in Symbols, Split(s) PROVE TypeInv'
  BY <1>7 DEF Split, TypeInv, Bases, symbolVars, fanoutVars, commandVars
<1>8. ASSUME NEW s \in Symbols, EditSymbol(s) PROVE TypeInv'
  <2>. PICK state \in {"unknown", "active", "inactive"} \ {symbol[s]} :
         /\ SetSymbol(s, state)
         /\ IF state = "unknown"
            THEN /\ series' = [series EXCEPT ![s] = [d \in Calendar |-> 0]]
                 /\ fetched' = {[f EXCEPT !.days = IF f.symbol = s THEN {} ELSE @] :
                                 f \in fetched}
            ELSE UNCHANGED <<series, fetched>>
    BY <1>8 DEF EditSymbol
  <2>1. UNCHANGED <<day, basis, fanouts, queue, lost>>
    BY <1>8 DEF EditSymbol, fanoutVars
  <2>2. symbol' \in [Symbols -> {"unknown", "active", "inactive"}]
        /\ joined' \in [Symbols -> Nat]
    BY DEF SetSymbol, TypeInv
  <2>3. series' \in [Symbols -> Days]
    <3>1. [d \in Calendar |-> 0] \in Days
      BY DEF Days
    <3>. QED
      BY <3>1 DEF TypeInv
  <2>4. fetched' \in SUBSET Fetches
    <3>1. ASSUME NEW f \in fetched
          PROVE [f EXCEPT !.days = IF f.symbol = s THEN {} ELSE @]
                  \in Fetches
      BY <3>1 DEF TypeInv, Fetches
    <3>. QED
      BY <3>1 DEF TypeInv
  <2>5. unified' \subseteq Symbols /\ former' \subseteq former /\ UNCHANGED ticker
    BY <1>8 DEF EditSymbol, SetSymbol, TypeInv, commandVars
  <2>. QED
    BY <2>1, <2>2, <2>3, <2>4, <2>5 DEF TypeInv
<1>9. ASSUME NEW s \in Symbols, QueueBackfill(s) PROVE TypeInv'
  <2>1. queue' \in [Tickers \X Windows -> Nat]
    BY <1>9, QueueType DEF QueueBackfill, TypeInv
  <2>. QED
    BY <1>9, <2>1 DEF QueueBackfill, TypeInv, symbolVars, fanoutVars, commandVars,
                      pastVars
<1>10. ASSUME NEW t \in Tickers, NEW k \in Windows, Fetch(t, k) PROVE TypeInv'
  <2>1. queue' \in [Tickers \X Windows -> Nat]
    BY <1>10, QueueType DEF Fetch, Consume, TypeInv
  <2>2. Window(k) \in SUBSET Calendar
    BY DEF Window
  <2>3. ASSUME NEW s \in Known(t) PROVE Ingestion(s, k, Window(k), basis[s]) \in Fetches
    BY <2>2, IngestionType DEF Known, TypeInv
  <2>4. fetched' \in SUBSET Fetches
    BY <1>10, <2>3 DEF Fetch, TypeInv
  <2>. QED
    BY <1>10, <2>1, <2>4 DEF Fetch, TypeInv, symbolVars, fanoutVars, commandVars, pastVars
<1>11. ASSUME NEW t \in Tickers, NEW k \in Windows, FetchFails(t, k) PROVE TypeInv'
  <2>1. queue' \in [Tickers \X Windows -> Nat]
    BY <1>11, QueueType DEF FetchFails, Consume, TypeInv
  <2>2. lost' \in [Symbols -> SUBSET Int]
    BY <1>11, LostType DEF FetchFails
  <2>. QED
    BY <1>11, <2>1, <2>2 DEF FetchFails, TypeInv, symbolVars, fanoutVars, commandVars
<1>12. ASSUME NEW f \in fetched, Store(f) PROVE TypeInv'
  <2>1. Upserted(f) \in Days
    BY <1>12 DEF Upserted, Days, TypeInv, Bases, Fetches
  <2>2. unified' \subseteq Symbols
    BY <1>12 DEF Store, TypeInv, Fetches
  <2>3. series' \in [Symbols -> Days]
    BY <1>12, <2>1 DEF Store, TypeInv
  <2>. QED
    BY <1>12, <2>2, <2>3 DEF Store, TypeInv, symbolVars, fanoutVars, commandVars
<1>13. ASSUME NEW f \in fetched, IngestionLost(f) PROVE TypeInv'
  <2>1. queue' \in [Tickers \X Windows -> Nat]
    BY <1>13, QueueType DEF IngestionLost, TypeInv
  <2>2. lost' \in [Symbols -> SUBSET Int]
    BY <1>13, LostType DEF IngestionLost
  <2>. QED
    BY <1>13, <2>1, <2>2 DEF IngestionLost, TypeInv, symbolVars, fanoutVars, commandVars
<1>14. CASE StartCommand
  BY <1>14 DEF StartCommand, TypeInv, symbolVars, fanoutVars, pastVars
<1>15. CASE CommandFails
  BY <1>15 DEF CommandFails, TypeInv, symbolVars, fanoutVars, pastVars
<1>16. ASSUME NEW s \in Symbols, CommandFetches(s) PROVE TypeInv'
  <2>. DEFINE b == IF s \in former THEN basis[s] - 1 ELSE basis[s]
  <2>1. Window(Backfill) \in SUBSET Calendar /\ Window(DaysBack) \in SUBSET Calendar
    BY DEF Window
  <2>2. b \in Bases
    BY DEF TypeInv, Bases
  <2>3. \E days \in {Window(Backfill), Window(DaysBack)} :
          fetched' = fetched \cup {Ingestion(s, 0, days, b)}
    BY <1>16 DEF CommandFetches
  <2>4. fetched' \in SUBSET Fetches
    <3>. HIDE DEF b
    <3>1. Ingestion(s, 0, Window(Backfill), b) \in Fetches
          /\ Ingestion(s, 0, Window(DaysBack), b) \in Fetches
      BY <2>1, <2>2, IngestionType
    <3>. QED
      BY <2>3, <3>1 DEF TypeInv
  <2>. QED
    BY <1>16, <2>4 DEF CommandFetches, TypeInv, symbolVars, fanoutVars, pastVars
<1>17. ASSUME NEW s \in Symbols, NEW t \in Tickers, RenameSymbol(s, t) PROVE TypeInv'
  <2>1. lost' \in [Symbols -> SUBSET Int]
    BY <1>17, LostType DEF RenameSymbol
  <2>2. ticker' \in [Symbols -> Tickers]
    BY <1>17 DEF RenameSymbol, TypeInv
  <2>3. basis' \in [Symbols -> Bases] /\ former' \subseteq {r \in Symbols : basis'[r] > 1}
    BY <1>17 DEF RenameSymbol, TypeInv, Bases
  <2>. QED
    BY <1>17, <2>1, <2>2, <2>3 DEF RenameSymbol, TypeInv, fanoutVars
<1>18. ASSUME NEW f \in fetched, StoreFails(f) PROVE TypeInv'
  <2>1. lost' \in [Symbols -> SUBSET Int]
    BY <1>18, LostType DEF StoreFails
  <2>. QED
    BY <1>18, <2>1 DEF StoreFails, TypeInv, symbolVars, fanoutVars, commandVars
<1>. QED
  BY <1>1, <1>2, <1>3, <1>4, <1>5, <1>6, <1>7, <1>8, <1>9, <1>10, <1>11, <1>12,
     <1>13, <1>14, <1>15, <1>16, <1>17, <1>18 DEF Next

-----------------------------------------------------------------------------
(* Basis.                                                                   *)

LEMMA InitBasisInv == Init => BasisInv
  BY DEF Init, BasisInv

(* A step that restates nothing and stores nothing keeps every series on its *)
(* basis, as long as it drops fetches or adds some of the current basis.     *)
LEMMA BasisStays ==
  ASSUME BasisInv, UNCHANGED <<series, basis>>, unified' \subseteq unified,
         former' \subseteq former,
         \A f \in fetched' : f \in fetched \/ f.basis = basis[f.symbol]
  PROVE  BasisInv'
  BY DEF BasisInv

LEMMA NextBasisInv == TypeInv /\ BasisInv /\ [Next]_vars => BasisInv'
<1>. SUFFICES ASSUME TypeInv, BasisInv, [Next]_vars PROVE BasisInv'
  OBVIOUS
<1>1. CASE UNCHANGED vars
  BY <1>1, BasisStays DEF vars, pastVars, commandVars
<1>2. CASE NextNight \/ ListTickers \/ QueueTicker \/ FanOutFails \/ FanOutLost
  BY <1>2, BasisStays
     DEF NextNight, ListTickers, QueueTicker, FanOutFails, FanOutLost, pastVars,
         commandVars
<1>3. ASSUME NEW s \in Symbols, Split(s) PROVE BasisInv'
  BY <1>3 DEF Split, BasisInv, TypeInv, commandVars
<1>4. ASSUME NEW s \in Symbols, EditSymbol(s) PROVE BasisInv'
  <2>. PICK state \in {"unknown", "active", "inactive"} \ {symbol[s]} :
         IF state = "unknown"
         THEN /\ series' = [series EXCEPT ![s] = [d \in Calendar |-> 0]]
              /\ unified' = unified \ {s}
              /\ fetched' = {[f EXCEPT !.days = IF f.symbol = s THEN {} ELSE @] :
                              f \in fetched}
         ELSE UNCHANGED <<series, unified, fetched>>
    BY <1>4 DEF EditSymbol
  <2>1. UNCHANGED basis /\ former' \subseteq former
    BY <1>4 DEF EditSymbol, commandVars
  <2>2. CASE state # "unknown"
    BY <2>1, <2>2, BasisStays
  <2>3. CASE state = "unknown"
    <3>. SUFFICES ASSUME NEW t \in unified'
                  PROVE  /\ \A d \in Calendar : series'[t][d] \in {0, basis[t]}
                         /\ \A f \in fetched' : f.symbol = t => f.basis = basis[t]
      BY <2>1, <2>3 DEF BasisInv
    <3>1. t \in unified /\ t # s
      BY <2>3
    <3>2. \A d \in Calendar : series'[t][d] \in {0, basis[t]}
      <4>1. series'[t] = series[t]
        BY <2>3, <3>1 DEF TypeInv
      <4>. QED
        BY <3>1, <4>1 DEF BasisInv
    <3>3. ASSUME NEW f \in fetched', f.symbol = t PROVE f.basis = basis[t]
      <4>1. PICK g \in fetched :
              f = [g EXCEPT !.days = IF g.symbol = s THEN {} ELSE @]
        BY <2>3, <3>3
      <4>2. g.symbol = f.symbol /\ g.basis = f.basis
        BY <4>1 DEF TypeInv, Fetches
      <4>. QED
        BY <3>1, <3>3, <4>2 DEF BasisInv
    <3>. QED
      BY <3>2, <3>3
  <2>. QED
    BY <2>2, <2>3
<1>5. ASSUME NEW s \in Symbols, QueueBackfill(s) PROVE BasisInv'
  BY <1>5, BasisStays DEF QueueBackfill, pastVars, commandVars
<1>6. ASSUME NEW t \in Tickers, NEW k \in Windows, Fetch(t, k) PROVE BasisInv'
  BY <1>6, BasisStays DEF Fetch, Ingestion, pastVars, commandVars
<1>7. ASSUME NEW t \in Tickers, NEW k \in Windows, FetchFails(t, k) PROVE BasisInv'
  BY <1>7, BasisStays DEF FetchFails, commandVars
<1>8. ASSUME NEW f \in fetched, Store(f) PROVE BasisInv'
  <2>1. /\ fetched' = fetched \ {f} /\ UNCHANGED basis
        /\ series' = [series EXCEPT ![f.symbol] = Upserted(f)]
        /\ unified' = IF Unifies(f) THEN unified \cup {f.symbol} ELSE unified
        /\ UNCHANGED former
    BY <1>8 DEF Store, commandVars
  <2>. SUFFICES ASSUME NEW t \in unified'
                PROVE  /\ \A d \in Calendar : series'[t][d] \in {0, basis[t]}
                       /\ \A g \in fetched' : g.symbol = t => g.basis = basis[t]
                       /\ t \notin former
    BY <2>1 DEF BasisInv
  <2>2. f.symbol \in Symbols /\ f.symbol \in DOMAIN series
    BY DEF TypeInv, Fetches
  <2>3. CASE t # f.symbol
    <3>1. t \in unified /\ t \in Symbols
      BY <2>1, <2>3 DEF TypeInv
    <3>2. series'[t] = series[t]
      BY <2>1, <2>3, <3>1 DEF TypeInv
    <3>. QED
      BY <2>1, <3>1, <3>2 DEF BasisInv
  <2>4. CASE t = f.symbol /\ Unifies(f)
    <3>1. series'[t] = Upserted(f)
      BY <2>1, <2>2, <2>4
    <3>2. \A d \in Calendar : series'[t][d] \in {0, basis[t]}
      BY <2>4, <3>1 DEF Unifies, Upserted
    <3>. QED
      BY <2>1, <2>4, <3>2 DEF Unifies
  <2>5. CASE t = f.symbol /\ t \in unified
    <3>1. series'[t] = Upserted(f)
      BY <2>1, <2>2, <2>5
    <3>2. f.basis = basis[t]
      BY <2>5 DEF BasisInv
    <3>3. \A d \in Calendar : series'[t][d] \in {0, basis[t]}
      BY <2>5, <3>1, <3>2 DEF BasisInv, Upserted
    <3>. QED
      BY <2>1, <2>5, <3>3 DEF BasisInv
  <2>. QED
    BY <2>1, <2>3, <2>4, <2>5
<1>9. ASSUME NEW f \in fetched, IngestionLost(f) PROVE BasisInv'
  BY <1>9, BasisStays DEF IngestionLost, commandVars
<1>10. CASE StartCommand
  BY <1>10, BasisStays DEF StartCommand, pastVars
<1>11. CASE CommandFails
  BY <1>11, BasisStays DEF CommandFails, pastVars
<1>12. ASSUME NEW s \in Symbols, CommandFetches(s) PROVE BasisInv'
  <2>. DEFINE b == IF s \in former THEN basis[s] - 1 ELSE basis[s]
  <2>1. /\ UNCHANGED <<series, basis, unified>> /\ former' \subseteq former
        /\ \A f \in fetched' : f \in fetched \/ (f.symbol = s /\ f.basis = b)
    BY <1>12 DEF CommandFetches, Ingestion, pastVars
  <2>2. CASE s \in former
    <3>1. s \notin unified
      BY <2>2 DEF BasisInv
    <3>. QED
      BY <2>1, <3>1 DEF BasisInv
  <2>3. CASE s \notin former
    BY <2>1, <2>3, BasisStays
  <2>. QED
    BY <2>2, <2>3
<1>13. ASSUME NEW s \in Symbols, NEW t \in Tickers, RenameSymbol(s, t) PROVE BasisInv'
  BY <1>13 DEF RenameSymbol, BasisInv, TypeInv
<1>14. ASSUME NEW f \in fetched, StoreFails(f) PROVE BasisInv'
  BY <1>14, BasisStays DEF StoreFails, commandVars
<1>. QED
  BY <1>1, <1>2, <1>3, <1>4, <1>5, <1>6, <1>7, <1>8, <1>9, <1>10, <1>11, <1>12,
     <1>13, <1>14 DEF Next

-----------------------------------------------------------------------------
(* Nights.                                                                  *)

LEMMA InitNightsInv == Init => NightsInv
<1>. SUFFICES ASSUME Init, NEW s \in Symbols PROVE Nights(s)
  BY DEF NightsInv, Active
<1>1. day = 0 /\ joined[s] = 0
  BY DEF Init
<1>. QED
  BY <1>1 DEF Nights

(* Within a night, a step may only move the night's ingestion of s along, or *)
(* lose it to a named cause, or store what it fetched.                       *)
LEMMA NightsStay ==
  ASSUME TypeInv, NEW s \in Symbols, Nights(s),
         UNCHANGED day, joined'[s] = joined[s], lost[s] \subseteq lost'[s],
         Fresh(s) => Fresh(s)' \/ day \in lost'[s] \/ Covered(s, day)',
         \A d \in Calendar : series[s][d] # 0 => series'[s][d] # 0
  PROVE  Nights(s)'
<1>1. ASSUME NEW n \in joined[s] + 1 .. day, Covered(s, n) PROVE Covered(s, n)'
  BY <1>1 DEF Covered
<1>. QED
  BY <1>1 DEF Nights

(* Edits that (re)activate a symbol start its nights anew.                   *)
LEMMA NightsStart ==
  ASSUME TypeInv, NEW s \in Symbols, UNCHANGED day, joined'[s] = day
  PROVE  Nights(s)'
  BY DEF Nights, TypeInv

LEMMA NextNightsInv == TypeInv /\ NightsInv /\ [Next]_vars => NightsInv'
<1>. SUFFICES ASSUME TypeInv, NightsInv, [Next]_vars, NEW s \in Active'
              PROVE  Nights(s)'
  BY DEF NightsInv
<1>. s \in Symbols
  BY DEF Active
<1>a. symbol'[s] = symbol[s] => Nights(s) /\ s \in Active
  BY DEF NightsInv, Active
<1>b. lost[s] \in SUBSET Int /\ day \in Nat /\ joined[s] \in Nat
  BY DEF TypeInv
<1>1. CASE UNCHANGED vars
  <2>. UNCHANGED <<day, symbol, ticker, joined, series, fanouts, tickers, queue, fetched,
                  lost>>
    BY <1>1 DEF vars, symbolVars, fanoutVars, pastVars
  <2>1. Fresh(s) => Fresh(s)'
    BY DEF Fresh, Addressed, Window
  <2>. QED
    BY <1>a, <2>1, NightsStay
<1>2. CASE NextNight
  <2>0. /\ day' = day + 1 /\ UNCHANGED <<symbol, ticker, joined, series, tickers, queue, fetched>>
    BY <1>2 DEF NextNight, symbolVars
  <2>. PICK beats \in Beats :
         /\ fanouts' = fanouts + beats
         /\ lost' = [t \in Symbols |->
              lost[t] \cup (IF Pending(t) THEN {day} ELSE {})
                      \cup (IF beats = 0 THEN {day + 1} ELSE {})]
    BY <1>2 DEF NextNight
  <2>1. lost'[s] = lost[s] \cup (IF Pending(s) THEN {day} ELSE {})
                           \cup (IF beats = 0 THEN {day + 1} ELSE {})
    OBVIOUS
  <2>2. Fresh(s) => day \in lost'[s]
    BY <2>1 DEF Fresh, Pending
  <2>3. day + 1 \in lost'[s] \/ Fresh(s)'
    <3>1. CASE beats = 0
      BY <2>1, <3>1
    <3>2. CASE beats # 0
      BY <3>2 DEF Fresh, Beats, TypeInv
    <3>. QED
      BY <3>1, <3>2
  <2>4. ASSUME NEW n \in Int, Covered(s, n) PROVE Covered(s, n)'
    BY <2>0, <2>4 DEF Covered
  <2>. SUFFICES ASSUME NEW n \in joined[s] + 1 .. day + 1
                PROVE  n \in lost'[s] \/ (n = day + 1 /\ Fresh(s)') \/ Covered(s, n)'
    BY <2>0 DEF Nights
  <2>5. CASE n = day + 1
    BY <2>3, <2>5
  <2>6. CASE n # day + 1
    <3>1. n \in joined[s] + 1 .. day /\ n \in Int
      BY <1>b, <2>6
    <3>2. n \in lost[s] \/ (n = day /\ Fresh(s)) \/ Covered(s, n)
      BY <1>a, <2>0, <3>1 DEF Nights
    <3>. QED
      BY <2>1, <2>2, <2>4, <3>1, <3>2
  <2>. QED
    BY <2>5, <2>6
<1>3. CASE ListTickers
  <2>0. /\ UNCHANGED <<day, symbol, ticker, joined, series, queue, fetched, lost>>
        /\ tickers = {} /\ tickers' = {ticker[t] : t \in Active}
    BY <1>3 DEF ListTickers, symbolVars, pastVars
  <2>1. ticker[s] \in tickers'
    BY <1>a, <2>0
  <2>2. Fresh(s)'
    BY <2>0, <2>1 DEF Fresh, Addressed
  <2>. QED
    BY <1>a, <2>0, <2>2, NightsStay
<1>4. CASE QueueTicker
  <2>. PICK t \in tickers : Delay(t) /\ tickers' = tickers \ {t}
    BY <1>4 DEF QueueTicker
  <2>0. UNCHANGED <<day, symbol, ticker, joined, series, fanouts, fetched, lost>>
    BY <1>4 DEF QueueTicker, symbolVars, pastVars
  <2>1. queue[<<ticker[s], DaysBack>>] \in Nat /\ <<ticker[s], DaysBack>> \in DOMAIN queue
    BY DEF TypeInv, Windows
  <2>2. CASE ticker[s] # t
    <3>1. queue'[<<ticker[s], DaysBack>>] = queue[<<ticker[s], DaysBack>>]
      BY <2>1, <2>2 DEF Delay
    <3>2. Fresh(s) => Fresh(s)'
      BY <2>0, <2>2, <3>1 DEF Fresh, Addressed, Window
    <3>. QED
      BY <1>a, <2>0, <3>2, NightsStay
  <2>3. CASE ticker[s] = t
    <3>1. queue'[<<ticker[s], DaysBack>>] > 0
      BY <2>1, <2>3 DEF Delay
    <3>2. Fresh(s)'
      BY <2>0, <3>1 DEF Fresh, Addressed
    <3>. QED
      BY <1>a, <2>0, <3>2, NightsStay
  <2>. QED
    BY <2>2, <2>3
<1>5. CASE FanOutFails
  <2>0. UNCHANGED <<day, symbol, ticker, joined, series, queue, fetched>>
    BY <1>5 DEF FanOutFails, symbolVars
  <2>1. CASE LoseNight(Active)
    <3>1. lost[s] \subseteq lost'[s] /\ day \in lost'[s]
      BY <1>a, <2>0, <2>1, LostType
    <3>. QED
      BY <1>a, <2>0, <3>1, NightsStay
  <2>2. CASE /\ LoseNight({t \in Symbols : ticker[t] \in tickers})
             /\ UNCHANGED fanouts
    <3>1. /\ lost[s] \subseteq lost'[s]
          /\ ticker[s] \in tickers => day \in lost'[s]
      BY <2>2, LostType
    <3>2. Fresh(s) => Fresh(s)' \/ day \in lost'[s]
      BY <2>0, <2>2, <3>1 DEF Fresh, Addressed, Window
    <3>. QED
      BY <1>a, <2>0, <3>1, <3>2, NightsStay
  <2>. QED
    BY <1>5, <2>1, <2>2 DEF FanOutFails
<1>6. CASE FanOutLost
  <2>0. /\ UNCHANGED <<day, symbol, ticker, joined, series, fetched, lost>>
        /\ fanouts' = fanouts + 1
    BY <1>6 DEF FanOutLost, Redelivered, symbolVars, pastVars
  <2>1. Fresh(s)'
    BY <2>0 DEF Fresh, TypeInv
  <2>. QED
    BY <1>a, <2>0, <2>1, NightsStay
<1>7. ASSUME NEW t \in Symbols, Split(t) PROVE Nights(s)'
  <2>0. UNCHANGED <<day, symbol, ticker, joined, series, fanouts, tickers, queue, fetched, lost>>
    BY <1>7 DEF Split, symbolVars, fanoutVars
  <2>1. Fresh(s) => Fresh(s)'
    BY <2>0 DEF Fresh, Addressed, Window
  <2>. QED
    BY <1>a, <2>0, <2>1, NightsStay
<1>8. ASSUME NEW t \in Symbols, EditSymbol(t) PROVE Nights(s)'
  <2>. PICK state \in {"unknown", "active", "inactive"} \ {symbol[t]} :
         /\ SetSymbol(t, state)
         /\ IF state = "unknown"
            THEN /\ series' = [series EXCEPT ![t] = [d \in Calendar |-> 0]]
                 /\ fetched' = {[f EXCEPT !.days = IF f.symbol = t THEN {} ELSE @] :
                                 f \in fetched}
            ELSE UNCHANGED <<series, fetched>>
    BY <1>8 DEF EditSymbol
  <2>0. UNCHANGED <<day, ticker, fanouts, tickers, queue, lost>>
    BY <1>8 DEF EditSymbol, SetSymbol, fanoutVars
  <2>1. CASE s = t
    <3>1. state = "active" /\ symbol[t] # "active"
      BY <2>1 DEF SetSymbol, TypeInv, Active
    <3>2. joined'[s] = day
      BY <2>1, <3>1 DEF SetSymbol, TypeInv
    <3>. QED
      BY <2>0, <3>2, NightsStart
  <2>2. CASE s # t
    <3>1. symbol'[s] = symbol[s] /\ joined'[s] = joined[s]
      BY <2>2 DEF SetSymbol, TypeInv
    <3>2. series'[s] = series[s]
      BY <2>2 DEF TypeInv
    <3>3. ASSUME NEW f \in fetched, f.symbol = s PROVE f \in fetched'
      <4>1. [f EXCEPT !.days = IF f.symbol = t THEN {} ELSE @] = f
        BY <2>2, <3>3 DEF TypeInv, Fetches
      <4>. QED
        BY <4>1
    <3>4. Fresh(s) => Fresh(s)'
      BY <2>0, <3>3 DEF Fresh, Addressed, Window
    <3>. QED
      BY <1>a, <2>0, <3>1, <3>2, <3>4, NightsStay
  <2>. QED
    BY <2>1, <2>2
<1>9. ASSUME NEW t \in Symbols, QueueBackfill(t) PROVE Nights(s)'
  <2>0. /\ UNCHANGED <<day, symbol, ticker, joined, series, fanouts, tickers, fetched, lost>>
        /\ queue' = [queue EXCEPT ![<<ticker[t], Backfill>>] = @ + 1]
    BY <1>9 DEF QueueBackfill, symbolVars, fanoutVars, pastVars
  <2>1. queue[<<ticker[s], DaysBack>>] > 0 => queue'[<<ticker[s], DaysBack>>] > 0
    BY <2>0 DEF TypeInv, Windows
  <2>2. Fresh(s) => Fresh(s)'
    BY <2>0, <2>1 DEF Fresh, Addressed, Window
  <2>. QED
    BY <1>a, <2>0, <2>2, NightsStay
<1>10. ASSUME NEW t \in Tickers, NEW k \in Windows, Fetch(t, k) PROVE Nights(s)'
  <2>0. /\ UNCHANGED <<day, symbol, ticker, joined, series, fanouts, tickers, lost>>
        /\ queue' = [queue EXCEPT ![<<t, k>>] = @ - 1]
        /\ fetched' = fetched \cup {Ingestion(r, k, Window(k), basis[r]) : r \in Known(t)}
    BY <1>10 DEF Fetch, Consume, symbolVars, fanoutVars, pastVars
  <2>1. CASE t = ticker[s] /\ k = DaysBack
    <3>. DEFINE f == Ingestion(s, DaysBack, Window(DaysBack), basis[s])
    <3>1. s \in Known(t)
      BY <1>a, <2>0, <2>1 DEF Active, Known
    <3>2. f \in fetched'
      BY <2>0, <2>1, <3>1
    <3>3. f.symbol = s /\ f.window = DaysBack /\ f.days = Window(DaysBack)'
      BY <2>0 DEF Ingestion, Window
    <3>4. Fresh(s)'
      <4>. HIDE DEF f
      <4>. QED
        BY <3>2, <3>3 DEF Fresh
    <3>. QED
      BY <1>a, <2>0, <3>4, NightsStay
  <2>2. CASE t # ticker[s] \/ k # DaysBack
    <3>1. queue'[<<ticker[s], DaysBack>>] = queue[<<ticker[s], DaysBack>>]
      BY <2>0, <2>2 DEF TypeInv, Windows
    <3>2. fetched \subseteq fetched'
      BY <2>0
    <3>3. Fresh(s) => Fresh(s)'
      BY <2>0, <3>1, <3>2 DEF Fresh, Addressed, Window
    <3>. QED
      BY <1>a, <2>0, <3>3, NightsStay
  <2>. QED
    BY <2>1, <2>2
<1>11. ASSUME NEW t \in Tickers, NEW k \in Windows, FetchFails(t, k) PROVE Nights(s)'
  <2>0. /\ UNCHANGED <<day, symbol, ticker, joined, series, fanouts, tickers, fetched>>
        /\ queue' = [queue EXCEPT ![<<t, k>>] = @ - 1]
        /\ LoseNight({r \in Symbols : ticker[r] = t /\ k = DaysBack})
    BY <1>11 DEF FetchFails, Consume, symbolVars, fanoutVars
  <2>1. /\ lost[s] \subseteq lost'[s]
        /\ ticker[s] = t /\ k = DaysBack => day \in lost'[s]
    BY <2>0, LostType
  <2>2. CASE ticker[s] = t /\ k = DaysBack
    BY <1>a, <2>0, <2>1, <2>2, NightsStay
  <2>3. CASE ~ (ticker[s] = t /\ k = DaysBack)
    <3>1. queue'[<<ticker[s], DaysBack>>] = queue[<<ticker[s], DaysBack>>]
      BY <2>0, <2>3 DEF TypeInv, Windows
    <3>2. Fresh(s) => Fresh(s)'
      BY <2>0, <3>1 DEF Fresh, Addressed, Window
    <3>. QED
      BY <1>a, <2>0, <2>1, <3>2, NightsStay
  <2>. QED
    BY <2>2, <2>3
<1>12. ASSUME NEW f \in fetched, Store(f) PROVE Nights(s)'
  <2>0. /\ UNCHANGED <<day, symbol, ticker, joined, fanouts, tickers, queue, lost>>
        /\ fetched' = fetched \ {f}
        /\ series' = [series EXCEPT ![f.symbol] = Upserted(f)]
    BY <1>12 DEF Store, symbolVars, fanoutVars
  <2>1. f.basis \in Nat \ {0} /\ f.symbol \in Symbols
    BY DEF TypeInv, Fetches, Bases
  <2>2. series'[s] = IF f.symbol = s THEN Upserted(f) ELSE series[s]
    BY <2>0 DEF TypeInv
  <2>3. ASSUME NEW d \in Calendar, series[s][d] # 0 PROVE series'[s][d] # 0
    <3>1. CASE f.symbol = s
      BY <2>1, <2>2, <2>3, <3>1 DEF Upserted
    <3>2. CASE f.symbol # s
      BY <2>2, <2>3, <3>2
    <3>. QED
      BY <3>1, <3>2
  <2>4. CASE f.symbol = s /\ f.window = DaysBack /\ f.days = Window(DaysBack)
    <3>1. \A d \in Calendar : d \in day - DaysBack .. day - 1 => series'[s][d] # 0
      BY <2>1, <2>2, <2>4 DEF Upserted, Window
    <3>2. Covered(s, day)'
      BY <2>0, <3>1 DEF Covered
    <3>. QED
      BY <1>a, <2>0, <2>3, <3>2, NightsStay
  <2>5. CASE ~(f.symbol = s /\ f.window = DaysBack /\ f.days = Window(DaysBack))
    <3>1. Fresh(s) => Fresh(s)'
      BY <2>0, <2>5 DEF Fresh, Addressed, Window
    <3>. QED
      BY <1>a, <2>0, <2>3, <3>1, NightsStay
  <2>. QED
    BY <2>4, <2>5
<1>13. ASSUME NEW f \in fetched, IngestionLost(f) PROVE Nights(s)'
  <2>0. /\ UNCHANGED <<day, symbol, ticker, joined, series, fanouts, tickers>>
        /\ fetched' = fetched \ {f}
        /\ queue' = [queue EXCEPT ![<<f.ticker, f.window>>] = @ + 1]
        /\ LoseNight({r \in Symbols :
                       r = f.symbol /\ f.window = DaysBack /\ ticker[r] # f.ticker})
    BY <1>13 DEF IngestionLost, symbolVars, fanoutVars
  <2>1. /\ lost[s] \subseteq lost'[s]
        /\ s = f.symbol /\ f.window = DaysBack /\ ticker[s] # f.ticker => day \in lost'[s]
    BY <2>0, LostType
  <2>2. queue[<<ticker[s], DaysBack>>] > 0 => queue'[<<ticker[s], DaysBack>>] > 0
    BY <2>0 DEF TypeInv, Windows
  <2>3. f.ticker = ticker[s] /\ f.window = DaysBack => queue'[<<ticker[s], DaysBack>>] > 0
    BY <2>0 DEF TypeInv, Windows
  <2>4. Fresh(s) => Fresh(s)' \/ day \in lost'[s]
    BY <2>0, <2>1, <2>2, <2>3 DEF Fresh, Addressed, Window
  <2>. QED
    BY <1>a, <2>0, <2>1, <2>4, NightsStay
<1>14. CASE StartCommand
  <2>0. UNCHANGED <<day, ticker, series, fanouts, tickers, queue, fetched, lost>>
    BY <1>14 DEF StartCommand, fanoutVars, pastVars
  <2>1. \/ symbol'[s] = symbol[s] /\ joined'[s] = joined[s]
        \/ joined'[s] = day
    BY <1>14 DEF StartCommand, symbolVars
  <2>2. Fresh(s) => Fresh(s)'
    BY <2>0 DEF Fresh, Addressed, Window
  <2>3. CASE joined'[s] = day
    BY <2>0, <2>3, NightsStart
  <2>4. CASE symbol'[s] = symbol[s] /\ joined'[s] = joined[s]
    BY <1>a, <2>0, <2>2, <2>4, NightsStay
  <2>. QED
    BY <2>1, <2>3, <2>4
<1>15. CASE CommandFails
  <2>0. /\ UNCHANGED <<day, symbol, ticker, joined, series, fanouts, tickers, queue, lost>>
        /\ fetched' = fetched \ Ingesting
    BY <1>15 DEF CommandFails, symbolVars, fanoutVars, pastVars
  <2>1. \A f \in fetched : f.window = DaysBack => f \in fetched'
    BY <2>0 DEF Ingesting
  <2>2. Fresh(s) => Fresh(s)'
    BY <2>0, <2>1 DEF Fresh, Addressed, Window
  <2>. QED
    BY <1>a, <2>0, <2>2, NightsStay
<1>16. ASSUME NEW t \in Symbols, CommandFetches(t) PROVE Nights(s)'
  <2>0. /\ UNCHANGED <<day, symbol, ticker, joined, series, fanouts, tickers, queue, lost>>
        /\ fetched \subseteq fetched'
    BY <1>16 DEF CommandFetches, symbolVars, fanoutVars, pastVars
  <2>1. Fresh(s) => Fresh(s)'
    BY <2>0 DEF Fresh, Addressed, Window
  <2>. QED
    BY <1>a, <2>0, <2>1, NightsStay
<1>17. ASSUME NEW r \in Symbols, NEW t \in Tickers, RenameSymbol(r, t) PROVE Nights(s)'
  <2>0. /\ UNCHANGED <<day, symbol, joined, series, fanouts, tickers, queue, fetched>>
        /\ Known(t) = {}
        /\ LoseNight({q \in Symbols : q = r /\ Addressed(ticker[r])})
        /\ ticker' = [q \in Symbols |-> IF q = r THEN t
                                       ELSE IF ticker[q] = t THEN ticker[r] ELSE ticker[q]]
    BY <1>17 DEF RenameSymbol, fanoutVars
  <2>1. /\ lost[s] \subseteq lost'[s]
        /\ s = r /\ Addressed(ticker[r]) => day \in lost'[s]
    BY <2>0, LostType
  <2>2. CASE s = r
    <3>1. Fresh(s) => Fresh(s)' \/ day \in lost'[s]
      BY <2>0, <2>1, <2>2 DEF Fresh, Window
    <3>. QED
      BY <1>a, <2>0, <2>1, <3>1, NightsStay
  <2>3. CASE s # r
    <3>1. ticker[s] # t
      BY <1>a, <2>0 DEF Known, Active
    <3>2. ticker'[s] = ticker[s]
      BY <2>0, <2>3, <3>1
    <3>3. Fresh(s) => Fresh(s)'
      BY <2>0, <3>2 DEF Fresh, Addressed, Window
    <3>. QED
      BY <1>a, <2>0, <2>1, <3>3, NightsStay
  <2>. QED
    BY <2>2, <2>3
<1>18. ASSUME NEW f \in fetched, StoreFails(f) PROVE Nights(s)'
  <2>0. /\ UNCHANGED <<day, symbol, ticker, joined, series, fanouts, tickers, queue>>
        /\ fetched' = fetched \ {f}
        /\ LoseNight({r \in Symbols : r = f.symbol /\ f.window = DaysBack})
    BY <1>18 DEF StoreFails, symbolVars, fanoutVars
  <2>1. /\ lost[s] \subseteq lost'[s]
        /\ s = f.symbol /\ f.window = DaysBack => day \in lost'[s]
    BY <2>0, LostType
  <2>2. Fresh(s) => Fresh(s)' \/ day \in lost'[s]
    BY <2>0, <2>1 DEF Fresh, Addressed, Window
  <2>. QED
    BY <1>a, <2>0, <2>1, <2>2, NightsStay
<1>. QED
  BY <1>1, <1>2, <1>3, <1>4, <1>5, <1>6, <1>7, <1>8, <1>9, <1>10, <1>11, <1>12,
     <1>13, <1>14, <1>15, <1>16, <1>17, <1>18 DEF Next

-----------------------------------------------------------------------------
(* What the nights and the backfills promise.                               *)

(* The inductive invariant holds of the calendar.                            *)
THEOREM NightlyInvariant == Spec => []NightlyInv
<1>1. Init => NightlyInv
  BY InitTypeInv, InitBasisInv, InitNightsInv DEF NightlyInv
<1>2. NightlyInv /\ [Next]_vars => NightlyInv'
  BY NextTypeInv, NextBasisInv, NextNightsInv DEF NightlyInv
<1>. QED
  BY <1>1, <1>2, PTL DEF Spec

(* No gap in a series without a named cause for each night that would have   *)
(* filled it: ingest_all_active_bars and ingest_bars lose none in silence,   *)
(* with any number of symbols, messages, deaths, edits and commands.         *)
THEOREM NightsLeaveNoGaps == Spec => []NoGaps
<1>1. NightlyInv => NoGaps
  <2>. SUFFICES ASSUME NightlyInv, NEW s \in Active,
                       NEW d \in joined[s] .. day - DaysBack - 1, series[s][d] = 0,
                       NEW n \in d + 1 .. d + DaysBack
                PROVE  n \in lost[s]
    BY DEF NoGaps
  <2>1. s \in Symbols /\ day \in 0 .. LastDay /\ joined[s] \in Nat
    BY DEF NightlyInv, TypeInv, Active
  <2>2. n \in joined[s] + 1 .. day /\ n # day /\ d \in n - DaysBack .. n - 1
    BY <2>1
  <2>3. d \in Calendar
    BY <2>1 DEF Calendar
  <2>4. ~ Covered(s, n)
    BY <2>2, <2>3 DEF Covered
  <2>. QED
    BY <2>2, <2>4 DEF NightlyInv, NightsInv, Nights
<1>. QED
  BY <1>1, NightlyInvariant, PTL

(* Once a backfill has restated a series, upserts keep it on one basis until *)
(* the next split, in any interleaving of the workers and the command.       *)
THEOREM BackfillUnifies == Spec => []OneBasisAfterBackfill
<1>1. NightlyInv => OneBasisAfterBackfill
  BY DEF NightlyInv, BasisInv, OneBasisAfterBackfill
<1>. QED
  BY <1>1, NightlyInvariant, PTL
=============================================================================
