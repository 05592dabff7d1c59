----------------------------- MODULE Ingestion -----------------------------
(***************************************************************************)
(* bars.ingest_bars for one symbol: the attempts and sleeps of             *)
(* fetch_daily_bars on a clock, inside the soft and hard time limits of    *)
(* the default queue, inside Celery's autoretry; and the upsert of what    *)
(* was fetched, by tasks that may overlap.  Prices are revised at the      *)
(* source (auto_adjust), so a bar is identified with the revision it was   *)
(* fetched from; 0 is no bar, or a bar with a NaN in it.                   *)
(***************************************************************************)
EXTENDS Integers, SequencesExt

CONSTANTS
  Slots,        \* slots of the default worker
  Days,         \* timestamps of bars
  Fetches,      \* what history() may return: sequences of [ts, usable]
  Durations,    \* seconds a lookup or an attempt may take: the timeout of 15 s is
                \* one of each request, and an attempt makes several
  MaxAttempts, FirstDelay, MaxDelay,  \* fetch_daily_bars
  SoftLimit, HardLimit,               \* CELERY_TASK_(SOFT_)TIME_LIMIT
  MaxRetries,                         \* of ingest_bars
  MaxPublished, \* bound: ingest_bars.delay() calls
  MaxRevisions, \* bound: revisions of the prices
  MaxKills      \* bound: worker processes that die

ASSUME LimitsAssumption ==
  /\ {MaxAttempts, FirstDelay, MaxDelay, SoftLimit, HardLimit,
      MaxRetries, MaxPublished, MaxRevisions, MaxKills} \subseteq Nat
  /\ 1 <= MaxAttempts /\ FirstDelay <= MaxDelay /\ SoftLimit < HardLimit
ASSUME FetchesAssumption ==
  Durations \subseteq Nat /\ Fetches \subseteq Seq([ts : Days, usable : BOOLEAN])

VARIABLES
  known,        \* the Symbol row exists
  bars,         \* revision of the Bar row of each day
  revision,     \* the source's latest revision
  queue,        \* ready messages, per number of retries made before
  pc, job,      \* what a slot is about to do, and its message's retries
  clock,        \* seconds since the task started
  attempt, delay, fetched, \* locals of fetch_daily_bars and ingest_symbol
  warned,       \* SoftTimeLimitExceeded has been raised in this task
  spent,        \* history: seconds of this task that it has not slept
  overlap,      \* history: two tasks have been running since one was alone
  published, kills

symbolVars == <<known, bars, revision>>
loopVars   == <<clock, attempt, delay, warned, spent>>
boundVars  == <<published, kills>>
vars == <<symbolVars, queue, pc, job, loopVars, fetched, overlap, boundVars>>

Labels == {"idle", "lookup", "fetch", "sleep", "exhausted", "upsert",
           "returned", "given_up", "refused"}
Goto(w, label) == pc' = [pc EXCEPT ![w] = label]
Retries == 0 .. MaxRetries

Init ==
  /\ known = TRUE
  /\ bars = [d \in Days |-> 0]
  /\ revision = 1
  /\ queue = [n \in Retries |-> 0]
  /\ pc = [w \in Slots |-> "idle"]
  /\ job = [w \in Slots |-> 0]
  /\ clock = [w \in Slots |-> 0]
  /\ attempt = [w \in Slots |-> 0]
  /\ delay = [w \in Slots |-> 0]
  /\ fetched = [w \in Slots |-> <<>>]
  /\ warned = [w \in Slots |-> FALSE]
  /\ spent = [w \in Slots |-> 0]
  /\ overlap = FALSE
  /\ published = 0
  /\ kills = 0

-----------------------------------------------------------------------------
(* The environment: beat and the admin, the source, the symbol's owner.     *)

PublishIngest ==
  /\ published < MaxPublished
  /\ published' = published + 1
  /\ queue' = [queue EXCEPT ![0] = @ + 1]
  /\ UNCHANGED <<symbolVars, pc, job, loopVars, fetched, overlap, kills>>

Revise ==
  /\ revision < MaxRevisions
  /\ revision' = revision + 1
  /\ UNCHANGED <<known, bars, queue, pc, job, loopVars, fetched, overlap, boundVars>>

\* The bars of a deleted symbol cascade.
DeleteSymbol ==
  /\ known
  /\ known' = FALSE
  /\ bars' = [d \in Days |-> 0]
  /\ UNCHANGED <<revision, queue, pc, job, loopVars, fetched, overlap,
                 boundVars>>

-----------------------------------------------------------------------------
(* ingest_bars in a slot w.                                                 *)

TakeIngest(w, n) ==
  /\ pc[w] = "idle"
  /\ queue[n] > 0
  /\ queue' = [queue EXCEPT ![n] = @ - 1]
  /\ job' = [job EXCEPT ![w] = n]
  /\ overlap' = (overlap \/ \E v \in Slots : pc[v] # "idle")
  /\ Goto(w, "lookup")
  /\ UNCHANGED <<symbolVars, loopVars, fetched, boundVars>>

\* Mutant: the default queue has no time limits.
Unlimited(w) == 2 * HardLimit + MaxDelay
\* The limit that ends, or interrupts, the task next.
Limit(w) == IF warned[w] THEN HardLimit ELSE SoftLimit

Spend(w, s) ==
  /\ clock' = [clock EXCEPT ![w] = @ + s]
  /\ spent' = [spent EXCEPT ![w] = @ + s]

LookupSymbol(w) ==
  /\ pc[w] = "lookup"
  /\ \E s \in Durations : clock[w] + s < SoftLimit /\ Spend(w, s)
  /\ IF known
     THEN /\ attempt' = [attempt EXCEPT ![w] = 1]
          /\ delay' = [delay EXCEPT ![w] = FirstDelay]
          /\ Goto(w, "fetch")
     ELSE Goto(w, "returned") /\ UNCHANGED <<attempt, delay>>
  /\ UNCHANGED <<symbolVars, queue, job, warned, fetched, overlap, boundVars>>

AttemptSucceeds(w) ==
  /\ pc[w] = "fetch"
  /\ \E s \in Durations : clock[w] + s < Limit(w) /\ Spend(w, s)
  /\ \E rows \in Fetches :
       fetched' = [fetched EXCEPT ![w] =
         [i \in DOMAIN rows |->
            [ts |-> rows[i].ts, rev |-> IF rows[i].usable THEN revision ELSE 0]]]
  /\ Goto(w, "upsert")
  /\ UNCHANGED <<symbolVars, queue, job, attempt, delay, warned, overlap, boundVars>>

AttemptFails(w) ==
  /\ pc[w] = "fetch"
  /\ \E s \in Durations : clock[w] + s < Limit(w) /\ Spend(w, s)
  /\ Goto(w, "sleep")
  /\ UNCHANGED <<symbolVars, queue, job, attempt, delay, warned, fetched,
                 overlap, boundVars>>

\* SoftTimeLimitExceeded is an Exception, which the loop takes for a failed
\* attempt.
SoftLimitInAttempt(w) ==
  /\ pc[w] = "fetch"
  /\ ~ warned[w]
  /\ \E s \in Durations :
       clock[w] + s >= SoftLimit /\ Spend(w, SoftLimit - clock[w])
  /\ warned' = [warned EXCEPT ![w] = TRUE]
  /\ Goto(w, "sleep")
  /\ UNCHANGED <<symbolVars, queue, job, attempt, delay, fetched, overlap, boundVars>>

NextDelay(d) == IF 2 * d < MaxDelay THEN 2 * d ELSE MaxDelay

Sleep(w) ==
  /\ pc[w] = "sleep"
  /\ clock[w] + delay[w] < Limit(w)
  /\ clock' = [clock EXCEPT ![w] = @ + delay[w]]
  /\ delay' = [delay EXCEPT ![w] = NextDelay(@)]
  /\ IF attempt[w] < MaxAttempts
     THEN attempt' = [attempt EXCEPT ![w] = @ + 1] /\ Goto(w, "fetch")
     ELSE UNCHANGED attempt /\ Goto(w, "exhausted")
  /\ UNCHANGED <<symbolVars, queue, job, warned, spent, fetched, overlap, boundVars>>

\* The soft limit raises out of a sleep, or the hard limit kills the process:
\* the message is acknowledged and not retried.
LimitEndsTask(w) ==
  /\ \/ pc[w] = "sleep" /\ clock[w] + delay[w] >= Limit(w)
     \/ /\ pc[w] = "fetch" /\ warned[w]
        /\ \E s \in Durations : clock[w] + s >= HardLimit
  /\ Goto(w, "given_up")
  /\ UNCHANGED <<symbolVars, queue, job, loopVars, fetched, overlap, boundVars>>

OneRetryLess(n) == n + 1 < MaxRetries  \* mutant
MayRetry(n)     == n < MaxRetries

\* RuntimeError: autoretry publishes the task again, max_retries times.
Exhausted(w) ==
  /\ pc[w] = "exhausted"
  /\ IF MayRetry(job[w])
     THEN queue' = [queue EXCEPT ![job[w] + 1] = @ + 1] /\ Goto(w, "returned")
     ELSE UNCHANGED queue /\ Goto(w, "given_up")
  /\ UNCHANGED <<symbolVars, job, loopVars, fetched, overlap, boundVars>>

\* _clean_rows: unusable rows are dropped first, then the last row of a day wins.
LastRows(rows) ==  \* mutant: the other way round
  LET of(d) == {i \in DOMAIN rows : rows[i].ts = d}
  IN [d \in {e \in Days : of(e) # {} /\ rows[Max(of(e))].rev # 0} |-> rows[Max(of(d))].rev]
CleanRows(rows) ==
  LET of(d) == {i \in DOMAIN rows : rows[i].ts = d /\ rows[i].rev # 0}
  IN [d \in {e \in Days : of(e) # {}} |-> rows[Max(of(d))].rev]

Replaced(old, new) ==  \* mutant: the window is deleted, then inserted
  [d \in Days |-> IF d \in DOMAIN new THEN new[d] ELSE 0]
Upserted(old, new) == [d \in Days |-> IF d \in DOMAIN new THEN new[d] ELSE old[d]]

\* upsert_bars, one transaction; nothing is written when no row is usable.
Upsert(w) ==
  /\ pc[w] = "upsert"
  /\ known \/ DOMAIN CleanRows(fetched[w]) = {}
  /\ bars' = Upserted(bars, CleanRows(fetched[w]))
  /\ Goto(w, "returned")
  /\ UNCHANGED <<known, revision, queue, job, loopVars, fetched, overlap, boundVars>>

\* The database refuses the lookup or the bars (an IntegrityError when the symbol
\* is gone), a time limit strikes there, or the broker refuses the retry: none of
\* these is a RuntimeError, and the task is not retried.
TaskRefused(w) ==
  /\ pc[w] \in {"lookup", "exhausted", "upsert"}
  /\ Goto(w, "refused")
  /\ UNCHANGED <<symbolVars, queue, job, loopVars, fetched, overlap, boundVars>>

Release(w) ==
  /\ Goto(w, "idle")
  /\ job' = [job EXCEPT ![w] = 0]
  /\ clock' = [clock EXCEPT ![w] = 0]
  /\ attempt' = [attempt EXCEPT ![w] = 0]
  /\ delay' = [delay EXCEPT ![w] = 0]
  /\ fetched' = [fetched EXCEPT ![w] = <<>>]
  /\ warned' = [warned EXCEPT ![w] = FALSE]
  /\ spent' = [spent EXCEPT ![w] = 0]
  /\ overlap' = (overlap /\ \E v \in Slots \ {w} : pc[v] # "idle")

Acknowledge(w) ==
  /\ pc[w] \in {"returned", "given_up", "refused"}
  /\ Release(w)
  /\ UNCHANGED <<symbolVars, queue, boundVars>>

\* reject_on_worker_lost: the same message is delivered again.
WorkerLost(w) ==
  /\ pc[w] # "idle"
  /\ kills < MaxKills
  /\ kills' = kills + 1
  /\ queue' = [queue EXCEPT ![job[w]] = @ + 1]
  /\ Release(w)
  /\ UNCHANGED <<symbolVars, published>>

-----------------------------------------------------------------------------
SlotStep(w) ==
  \/ LookupSymbol(w) \/ AttemptSucceeds(w) \/ AttemptFails(w)
  \/ SoftLimitInAttempt(w) \/ Sleep(w) \/ LimitEndsTask(w) \/ Exhausted(w)
  \/ Upsert(w) \/ TaskRefused(w) \/ Acknowledge(w)

Next ==
  \/ PublishIngest \/ Revise \/ DeleteSymbol
  \/ \E w \in Slots, n \in Retries : TakeIngest(w, n)
  \/ \E w \in Slots : SlotStep(w) \/ WorkerLost(w)

Spec == Init /\ [][Next]_vars

-----------------------------------------------------------------------------
(* What the bar table and the retries promise.                              *)

\* Every variable keeps its type; no retry is numbered past max_retries, and a
\* running task is always short of the limit that will end it.
TypeOK ==
  /\ known \in BOOLEAN
  /\ bars \in [Days -> 0 .. revision]
  /\ queue \in [Retries -> Nat]
  /\ pc \in [Slots -> Labels]
  /\ job \in [Slots -> Retries]
  /\ clock \in [Slots -> 0 .. HardLimit - 1]
  /\ attempt \in [Slots -> 0 .. MaxAttempts]
  /\ delay \in [Slots -> 0 .. MaxDelay]
  /\ warned \in [Slots -> BOOLEAN]
  /\ overlap \in BOOLEAN

\* The sleeps after four failed attempts, the last one's too: 2, 4, 8 and 16 s.
Sleeps == 15 * FirstDelay

\* "Exponential-backoff retry": unless the database or the broker refuses, an
\* ingestion is given up before Celery's last retry only if the task has spent more
\* than the sleeps leave of its soft limit, 20 s, on its requests.  A source that
\* fails fast never meets the time limits; one that fails slowly is not retried.
GivesUpLate ==
  \A w \in Slots :
    pc[w] = "given_up" => job[w] = MaxRetries \/ spent[w] >= SoftLimit - Sleeps

\* "Idempotent upserts": unless two tasks overlap, a bar is only ever replaced by
\* one of a later revision, whatever is redelivered or retried, and none is lost.
BarsMoveForward ==
  [][known' /\ ~ overlap => \A d \in Days : bars'[d] >= bars[d]]_vars

\* A task that has upserted leaves no day without a bar for which the source had
\* a usable one, and unless another task overlaps, none older than it fetched.
UpsertComplete ==
  \A w \in Slots :
    pc[w] = "returned" /\ known =>
      \A i \in DOMAIN fetched[w] :
        LET r == fetched[w][i] IN
        r.rev # 0 => bars[r.ts] # 0 /\ (overlap \/ bars[r.ts] >= r.rev)
=============================================================================
