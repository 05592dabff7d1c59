-------------------------- MODULE IngestionProofs --------------------------
(***************************************************************************)
(* Proofs about Ingestion, for any number of workers, any sequence of rows *)
(* the source returns and any retry policy.                                *)
(***************************************************************************)
EXTENDS Ingestion, WellFoundedInduction, TLAPS

Rows == [ts : Days, rev : 0 .. revision]

TypeInv ==
  /\ TypeOK
  /\ revision \in Nat
  /\ fetched \in [Slots -> Seq(Rows)]

(* Rows are held from the fetch to the acknowledgement.                     *)
HeldInv == \A w \in Slots : pc[w] \notin {"upsert", "returned", "refused"} => fetched[w] = <<>>

(* Unless tasks overlap, one slot runs at most.                             *)
AloneInv == overlap \/ \A v, w \in Slots : pc[v] # "idle" /\ pc[w] # "idle" => v = w

(* One fetch sees one revision, which is not older than any bar as long as  *)
(* no other task runs.                                                      *)
RevisionInv ==
  \A w \in Slots : \A i \in DOMAIN fetched[w] :
    fetched[w][i].rev # 0 =>
      /\ \A j \in DOMAIN fetched[w] : fetched[w][j].rev \in {0, fetched[w][i].rev}
      /\ (pc[w] = "upsert" /\ ~ overlap) => \A d \in Days : bars[d] <= fetched[w][i].rev

IngestionInv == TypeInv /\ HeldInv /\ AloneInv /\ RevisionInv /\ UpsertComplete

-----------------------------------------------------------------------------
(* Types.                                                                   *)

LEMMA Limits ==
  /\ MaxAttempts \in Nat /\ FirstDelay \in Nat /\ MaxDelay \in Nat
  /\ SoftLimit \in Nat /\ HardLimit \in Nat /\ MaxRetries \in Nat
  /\ 1 <= MaxAttempts /\ FirstDelay <= MaxDelay /\ SoftLimit < HardLimit
  /\ \A s \in Durations : s \in Nat
  BY LimitsAssumption, FetchesAssumption

USE Limits

(* A finite set of numbers has a greatest one.                              *)
LEMMA MaxOfSet ==
  ASSUME NEW n \in Nat, NEW S \in SUBSET (1 .. n), S # {}
  PROVE  Max(S) \in S
<1>. DEFINE T == {n - i : i \in S}
<1>1. T \subseteq Nat /\ T # {}
  <2>1. \A i \in S : n - i \in Nat /\ n - i \in T
    OBVIOUS
  <2>. QED
    BY <2>1
<1>. DEFINE Less == {p \in Nat \X Nat : p[1] < p[2]}
<1>2. IsWellFoundedOn(Less, Nat)
  BY NatLessThanWellFounded DEF OpToRel
<1>3. PICK x \in T : \A y \in T : ~ (y < x)
  <2>. PICK x \in T : \A y \in T : ~ (<<y, x>> \in Less)
    BY <1>1, <1>2, WFMin
  <2>. WITNESS x \in T
  <2>. QED
    BY <1>1
<1>4. PICK m \in S : x = n - m
  OBVIOUS
<1>5. \A i \in S : m >= i
  <2>. TAKE i \in S
  <2>1. ~ (n - i < n - m)
    BY <1>3, <1>4
  <2>. QED
    BY <2>1
<1>. QED
  BY <1>5 DEF Max

LEMMA SequenceOfRows ==
  ASSUME NEW S
  PROVE  /\ <<>> \in Seq(S)
         /\ \A rows \in Seq(S) : rows \in [1 .. Len(rows) -> S] /\ Len(rows) \in Nat
         /\ \A n \in Nat : [1 .. n -> S] \subseteq Seq(S)
  OBVIOUS

(* _clean_rows keeps each day that comes with a usable row, and its revision *)
(* is that of one of the day's usable rows.                                  *)
LEMMA CleanRowsOfDay ==
  ASSUME NEW S, NEW rows \in Seq(S)
  PROVE  /\ DOMAIN CleanRows(rows) =
              {d \in Days : \E i \in DOMAIN rows : rows[i].ts = d /\ rows[i].rev # 0}
         /\ \A d \in DOMAIN CleanRows(rows) : \E i \in DOMAIN rows :
              /\ rows[i].ts = d /\ rows[i].rev # 0
              /\ CleanRows(rows)[d] = rows[i].rev
<1>. DEFINE of(d) == {i \in DOMAIN rows : rows[i].ts = d /\ rows[i].rev # 0}
<1>1. CleanRows(rows) = [d \in {e \in Days : of(e) # {}} |-> rows[Max(of(d))].rev]
  BY DEF CleanRows
<1>2. DOMAIN rows = 1 .. Len(rows) /\ Len(rows) \in Nat
  OBVIOUS
<1>3. ASSUME NEW d, of(d) # {} PROVE Max(of(d)) \in of(d)
  BY <1>2, <1>3, MaxOfSet
<1>4. DOMAIN CleanRows(rows) = {d \in Days : of(d) # {}}
  BY <1>1
<1>5. ASSUME NEW d \in DOMAIN CleanRows(rows)
      PROVE  Max(of(d)) \in of(d) /\ CleanRows(rows)[d] = rows[Max(of(d))].rev
  BY <1>1, <1>3, <1>4, <1>5
<1>. QED
  BY <1>4, <1>5

LEMMA InitTypeInv == Init => TypeInv
<1>1. /\ 0 \in Retries /\ 0 \in 0 .. HardLimit - 1
      /\ 0 \in 0 .. MaxAttempts /\ 0 \in 0 .. MaxDelay
  BY DEF Retries
<1>. QED
  BY <1>1, SequenceOfRows DEF Init, TypeInv, TypeOK, Labels

(* A sequence of rows stays one when the source's revision goes up.         *)
LEMMA RowsStay ==
  ASSUME revision \in Nat, revision' \in Nat, revision <= revision'
  PROVE  Seq(Rows) \subseteq Seq(Rows')
<1>1. Rows \subseteq Rows'
  BY DEF Rows
<1>. QED
  BY <1>1

LEMMA QueueType ==
  ASSUME queue \in [Retries -> Nat], NEW n \in Retries
  PROVE  /\ [queue EXCEPT ![n] = @ + 1] \in [Retries -> Nat]
         /\ queue[n] > 0 => [queue EXCEPT ![n] = @ - 1] \in [Retries -> Nat]
  OBVIOUS

LEMMA ReleaseType ==
  ASSUME TypeInv, NEW w \in Slots, Release(w),
         UNCHANGED <<symbolVars>>, queue' \in [Retries -> Nat]
  PROVE  TypeInv'
<1>1. UNCHANGED <<known, bars, revision>>
  BY DEF symbolVars
<1>2. fetched' \in [Slots -> Seq(Rows)] /\ Rows' = Rows
  <2>1. <<>> \in Seq(Rows)
    BY SequenceOfRows
  <2>2. Rows' = Rows
    BY <1>1 DEF Rows
  <2>. QED
    BY <2>1, <2>2 DEF Release, TypeInv
<1>3. /\ pc' \in [Slots -> Labels]
      /\ job' \in [Slots -> Retries]
      /\ clock' \in [Slots -> 0 .. HardLimit - 1]
      /\ attempt' \in [Slots -> 0 .. MaxAttempts]
      /\ delay' \in [Slots -> 0 .. MaxDelay]
      /\ warned' \in [Slots -> BOOLEAN]
      /\ overlap' \in BOOLEAN
  <2>1. 0 \in Retries /\ 0 \in 0 .. HardLimit - 1 /\ 0 \in 0 .. MaxAttempts
        /\ 0 \in 0 .. MaxDelay
    BY DEF Retries
  <2>2. overlap' \in BOOLEAN
    BY DEF Release
  <2>. QED
    BY <2>1, <2>2 DEF Release, Goto, Labels, TypeInv, TypeOK
<1>. QED
  BY <1>1, <1>2, <1>3 DEF TypeInv, TypeOK

LEMMA NextTypeInv == TypeInv /\ [Next]_vars => TypeInv'
<1>. SUFFICES ASSUME TypeInv, [Next]_vars PROVE TypeInv'
  OBVIOUS
<1>. USE DEF symbolVars, loopVars, boundVars
<1>1. CASE UNCHANGED vars
  BY <1>1 DEF vars, TypeInv, TypeOK, Rows
<1>2. CASE PublishIngest
  <2>1. queue' \in [Retries -> Nat]
    BY <1>2, QueueType DEF PublishIngest, TypeInv, TypeOK, Retries
  <2>. QED
    BY <1>2, <2>1 DEF PublishIngest, TypeInv, TypeOK, Rows
<1>3. CASE Revise
  <2>1. revision' \in Nat /\ revision <= revision'
    BY <1>3 DEF Revise, TypeInv
  <2>2. fetched' \in [Slots -> Seq(Rows)']
    BY <1>3, <2>1, RowsStay DEF Revise, TypeInv
  <2>. QED
    BY <1>3, <2>1, <2>2 DEF Revise, TypeInv, TypeOK
<1>4. CASE DeleteSymbol
  <2>1. Rows' = Rows
    BY <1>4 DEF DeleteSymbol, Rows
  <2>2. bars' \in [Days -> 0 .. revision]
    BY <1>4 DEF DeleteSymbol, TypeInv
  <2>. QED
    BY <1>4, <2>1, <2>2 DEF DeleteSymbol, TypeInv, TypeOK
<1>5. ASSUME NEW w \in Slots, NEW n \in Retries, TakeIngest(w, n) PROVE TypeInv'
  <2>1. queue' \in [Retries -> Nat]
    BY <1>5, QueueType DEF TakeIngest, TypeInv, TypeOK
  <2>. QED
    BY <1>5, <2>1 DEF TakeIngest, Goto, Labels, TypeInv, TypeOK, Rows
<1>6. ASSUME NEW w \in Slots, LookupSymbol(w) PROVE TypeInv'
  <2>1. /\ Rows' = Rows
        /\ UNCHANGED <<known, bars, revision, queue, job, warned, fetched, overlap>>
    BY <1>6 DEF LookupSymbol, Rows
  <2>c. clock' \in [Slots -> 0 .. HardLimit - 1]
    BY <1>6 DEF LookupSymbol, Spend, TypeInv, TypeOK
  <2>2. attempt' \in [Slots -> 0 .. MaxAttempts] /\ delay' \in [Slots -> 0 .. MaxDelay]
    <3>1. 1 \in 0 .. MaxAttempts /\ FirstDelay \in 0 .. MaxDelay
      OBVIOUS
    <3>2. attempt \in [Slots -> 0 .. MaxAttempts] /\ delay \in [Slots -> 0 .. MaxDelay]
      BY DEF TypeInv, TypeOK
    <3>3. \/ attempt' = [attempt EXCEPT ![w] = 1] /\ delay' = [delay EXCEPT ![w] = FirstDelay]
          \/ UNCHANGED <<attempt, delay>>
      BY <1>6 DEF LookupSymbol
    <3>. QED
      BY <3>1, <3>2, <3>3
  <2>3. pc' \in [Slots -> Labels]
    BY <1>6 DEF LookupSymbol, Goto, Labels, TypeInv, TypeOK
  <2>. QED
    BY <2>1, <2>c, <2>2, <2>3 DEF TypeInv, TypeOK
<1>7. ASSUME NEW w \in Slots, AttemptSucceeds(w) PROVE TypeInv'
  <2>1. clock' \in [Slots -> 0 .. HardLimit - 1]
    BY <1>7 DEF AttemptSucceeds, Spend, Limit, TypeInv, TypeOK
  <2>2. fetched' \in [Slots -> Seq(Rows)]
    <3>. PICK rows \in Fetches :
           fetched' = [fetched EXCEPT ![w] =
             [i \in DOMAIN rows |->
                [ts |-> rows[i].ts, rev |-> IF rows[i].usable THEN revision ELSE 0]]]
      BY <1>7 DEF AttemptSucceeds
    <3>. DEFINE got == [i \in DOMAIN rows |->
                [ts |-> rows[i].ts, rev |-> IF rows[i].usable THEN revision ELSE 0]]
    <3>1. /\ DOMAIN rows = 1 .. Len(rows) /\ Len(rows) \in Nat
          /\ \A i \in DOMAIN rows : rows[i].ts \in Days
      <4>1. rows \in Seq([ts : Days, usable : BOOLEAN])
        BY FetchesAssumption
      <4>2. rows \in [1 .. Len(rows) -> [ts : Days, usable : BOOLEAN]] /\ Len(rows) \in Nat
        BY <4>1, SequenceOfRows
      <4>. QED
        BY <4>2
    <3>2. \A i \in DOMAIN rows : got[i] \in Rows
      BY <3>1 DEF Rows, TypeInv
    <3>3. got \in [1 .. Len(rows) -> Rows]
      BY <3>1, <3>2
    <3>4. got \in Seq(Rows)
      BY <3>1, <3>3, SequenceOfRows
    <3>. QED
      BY <3>4 DEF TypeInv
  <2>. QED
    BY <1>7, <2>1, <2>2 DEF AttemptSucceeds, Goto, Labels, TypeInv, TypeOK, Rows
<1>8. ASSUME NEW w \in Slots, AttemptFails(w) PROVE TypeInv'
  <2>1. clock' \in [Slots -> 0 .. HardLimit - 1]
    BY <1>8 DEF AttemptFails, Spend, Limit, TypeInv, TypeOK
  <2>. QED
    BY <1>8, <2>1 DEF AttemptFails, Goto, Labels, TypeInv, TypeOK, Rows
<1>9. ASSUME NEW w \in Slots, SoftLimitInAttempt(w) PROVE TypeInv'
  <2>1. clock' \in [Slots -> 0 .. HardLimit - 1]
    BY <1>9 DEF SoftLimitInAttempt, Spend, TypeInv, TypeOK
  <2>. QED
    BY <1>9, <2>1 DEF SoftLimitInAttempt, Goto, Labels, TypeInv, TypeOK, Rows
<1>10. ASSUME NEW w \in Slots, Sleep(w) PROVE TypeInv'
  <2>1. clock' \in [Slots -> 0 .. HardLimit - 1]
    BY <1>10 DEF Sleep, Limit, TypeInv, TypeOK
  <2>2. delay' \in [Slots -> 0 .. MaxDelay]
    BY <1>10 DEF Sleep, NextDelay, TypeInv, TypeOK
  <2>3. attempt' \in [Slots -> 0 .. MaxAttempts]
    <3>1. attempt \in [Slots -> 0 .. MaxAttempts]
      BY DEF TypeInv, TypeOK
    <3>2. \/ attempt[w] < MaxAttempts /\ attempt' = [attempt EXCEPT ![w] = @ + 1]
          \/ UNCHANGED attempt
      BY <1>10 DEF Sleep
    <3>. QED
      BY <3>1, <3>2
  <2>4. pc' \in [Slots -> Labels]
    BY <1>10 DEF Sleep, Goto, Labels, TypeInv, TypeOK
  <2>. QED
    BY <1>10, <2>1, <2>2, <2>3, <2>4 DEF Sleep, TypeInv, TypeOK, Rows
<1>11. ASSUME NEW w \in Slots, LimitEndsTask(w) PROVE TypeInv'
  BY <1>11 DEF LimitEndsTask, Goto, Labels, TypeInv, TypeOK, Rows
<1>12. ASSUME NEW w \in Slots, Exhausted(w) PROVE TypeInv'
  <2>1. queue' \in [Retries -> Nat]
    <3>1. CASE MayRetry(job[w])
      <4>1. job[w] + 1 \in Retries
        BY <3>1 DEF MayRetry, TypeInv, TypeOK, Retries
      <4>. QED
        BY <1>12, <3>1, <4>1, QueueType DEF Exhausted, TypeInv, TypeOK
    <3>2. CASE ~ MayRetry(job[w])
      BY <1>12, <3>2 DEF Exhausted, TypeInv, TypeOK
    <3>. QED
      BY <3>1, <3>2
  <2>. QED
    BY <1>12, <2>1 DEF Exhausted, Goto, Labels, TypeInv, TypeOK, Rows
<1>13. ASSUME NEW w \in Slots, Upsert(w) PROVE TypeInv'
  <2>1. bars' = Upserted(bars, CleanRows(fetched[w]))
    BY <1>13 DEF Upsert
  <2>2. fetched[w] \in Seq(Rows)
    BY DEF TypeInv
  <2>3. \A i \in DOMAIN fetched[w] : fetched[w][i].rev \in 0 .. revision
    <3>1. \A i \in DOMAIN fetched[w] : fetched[w][i] \in Rows
      BY <2>2, SequenceOfRows
    <3>. QED
      BY <3>1 DEF Rows
  <2>4. ASSUME NEW d \in DOMAIN CleanRows(fetched[w])
        PROVE  CleanRows(fetched[w])[d] \in 0 .. revision
    <3>1. PICK i \in DOMAIN fetched[w] : CleanRows(fetched[w])[d] = fetched[w][i].rev
      BY <2>2, CleanRowsOfDay
    <3>. QED
      BY <2>3, <3>1
  <2>5. bars' \in [Days -> 0 .. revision]
    BY <2>1, <2>4 DEF Upserted, TypeInv, TypeOK
  <2>. QED
    BY <1>13, <2>5 DEF Upsert, Goto, Labels, TypeInv, TypeOK, Rows
<1>14. ASSUME NEW w \in Slots, Acknowledge(w) PROVE TypeInv'
  BY <1>14, ReleaseType DEF Acknowledge, TypeInv, TypeOK
<1>15. ASSUME NEW w \in Slots, WorkerLost(w) PROVE TypeInv'
  <2>1. queue' \in [Retries -> Nat]
    BY <1>15, QueueType DEF WorkerLost, TypeInv, TypeOK
  <2>. QED
    BY <1>15, <2>1, ReleaseType DEF WorkerLost
<1>16. ASSUME NEW w \in Slots, TaskRefused(w) PROVE TypeInv'
  BY <1>16 DEF TaskRefused, Goto, Labels, TypeInv, TypeOK, Rows
<1>. QED
  BY <1>1, <1>2, <1>3, <1>4, <1>5, <1>6, <1>7, <1>8, <1>9, <1>10, <1>11, <1>12,
     <1>13, <1>14, <1>15, <1>16 DEF Next, SlotStep

-----------------------------------------------------------------------------
(* Bars.                                                                    *)

LEMMA InitBarsInv == Init => HeldInv /\ AloneInv /\ RevisionInv /\ UpsertComplete
  BY DEF Init, HeldInv, AloneInv, RevisionInv, UpsertComplete

(* What the slots hold is made of numbers.                                  *)
LEMMA Held ==
  ASSUME TypeInv, NEW w \in Slots
  PROVE  /\ fetched[w] \in Seq(Rows)
         /\ \A i \in DOMAIN fetched[w] :
              /\ fetched[w][i].ts \in Days /\ fetched[w][i].rev \in 0 .. revision
              /\ bars[fetched[w][i].ts] \in 0 .. revision
<1>1. fetched[w] \in Seq(Rows)
  BY DEF TypeInv
<1>2. \A i \in DOMAIN fetched[w] : fetched[w][i] \in Rows
  BY <1>1, SequenceOfRows
<1>. QED
  BY <1>1, <1>2 DEF Rows, TypeInv, TypeOK

(* A slot goes from one label to another of those before the upsert, or      *)
(* returns without having fetched.                                          *)
Quiet(w) ==
  /\ pc[w] \notin {"idle", "upsert", "returned", "refused"}
  /\ \E label \in {"fetch", "sleep", "exhausted", "returned", "given_up"} : Goto(w, label)
  /\ UNCHANGED <<known, bars, fetched, overlap>>

LEMMA QuietSteps ==
  ASSUME NEW w \in Slots,
         \/ LookupSymbol(w) \/ AttemptFails(w) \/ SoftLimitInAttempt(w) \/ Sleep(w)
         \/ LimitEndsTask(w) \/ Exhausted(w)
  PROVE  Quiet(w)
  BY DEF LookupSymbol, AttemptFails, SoftLimitInAttempt, Sleep, LimitEndsTask,
         Exhausted, Quiet, symbolVars

LEMMA QuietStays ==
  ASSUME TypeInv, HeldInv, AloneInv, RevisionInv, UpsertComplete,
         NEW w \in Slots, Quiet(w)
  PROVE  HeldInv' /\ AloneInv' /\ RevisionInv' /\ UpsertComplete'
<1>1. PICK label \in {"fetch", "sleep", "exhausted", "returned", "given_up"} :
        pc' = [pc EXCEPT ![w] = label]
  BY DEF Quiet, Goto
<1>2. /\ pc'[w] = label /\ pc[w] \notin {"idle", "upsert", "returned", "refused"}
      /\ \A v \in Slots \ {w} : pc'[v] = pc[v]
      /\ UNCHANGED <<known, bars, fetched, overlap>>
  BY <1>1 DEF Quiet, TypeInv, TypeOK
<1>3. fetched[w] = <<>>
  BY <1>2 DEF HeldInv
<1>4. HeldInv'
  BY <1>2, <1>3 DEF HeldInv
<1>5. AloneInv'
  BY <1>2 DEF AloneInv
<1>6. RevisionInv'
  BY <1>2 DEF RevisionInv
<1>7. UpsertComplete'
  <2>. SUFFICES ASSUME NEW v \in Slots, pc'[v] = "returned", known,
                       NEW i \in DOMAIN fetched[v], fetched[v][i].rev # 0
                PROVE  LET r == fetched[v][i] IN
                       bars[r.ts] # 0 /\ (overlap \/ bars[r.ts] >= r.rev)
    BY <1>2 DEF UpsertComplete
  <2>1. v # w
    BY <1>3
  <2>. QED
    BY <1>2, <2>1 DEF UpsertComplete
<1>. QED
  BY <1>4, <1>5, <1>6, <1>7

LEMMA ReleaseStays ==
  ASSUME TypeInv, HeldInv, AloneInv, RevisionInv, UpsertComplete,
         NEW w \in Slots, Release(w), UNCHANGED <<known, bars>>
  PROVE  HeldInv' /\ AloneInv' /\ RevisionInv' /\ UpsertComplete'
<1>1. /\ pc'[w] = "idle" /\ fetched'[w] = <<>>
      /\ \A v \in Slots \ {w} : pc'[v] = pc[v] /\ fetched'[v] = fetched[v]
  BY DEF Release, Goto, Labels, TypeInv, TypeOK
<1>2. overlap' = (overlap /\ \E v \in Slots \ {w} : pc[v] # "idle")
  BY DEF Release
<1>3. ASSUME NEW v \in Slots \ {w}, pc[v] # "idle" PROVE overlap' = overlap
  BY <1>2, <1>3 DEF TypeInv, TypeOK
<1>4. HeldInv'
  BY <1>1 DEF HeldInv
<1>5. AloneInv'
  <2>1. CASE \A v \in Slots \ {w} : pc[v] = "idle"
    BY <1>1, <2>1 DEF AloneInv
  <2>2. CASE \E v \in Slots \ {w} : pc[v] # "idle"
    BY <1>1, <1>2, <2>2 DEF AloneInv
  <2>. QED
    BY <2>1, <2>2
<1>6. RevisionInv'
  <2>. SUFFICES ASSUME NEW v \in Slots, NEW i \in DOMAIN fetched'[v],
                       fetched'[v][i].rev # 0
                PROVE  /\ \A j \in DOMAIN fetched'[v] :
                            fetched'[v][j].rev \in {0, fetched'[v][i].rev}
                       /\ (pc'[v] = "upsert" /\ ~ overlap') =>
                            \A d \in Days : bars[d] <= fetched'[v][i].rev
    BY DEF RevisionInv
  <2>1. v # w
    BY <1>1
  <2>2. fetched'[v] = fetched[v] /\ pc'[v] = pc[v]
    BY <1>1, <2>1
  <2>3. pc[v] = "upsert" => overlap' = overlap
    BY <1>3, <2>1
  <2>. QED
    BY <2>2, <2>3 DEF RevisionInv
<1>7. UpsertComplete'
  <2>. SUFFICES ASSUME NEW v \in Slots, pc'[v] = "returned", known,
                       NEW i \in DOMAIN fetched'[v], fetched'[v][i].rev # 0
                PROVE  LET r == fetched'[v][i] IN
                       bars[r.ts] # 0 /\ (overlap' \/ bars[r.ts] >= r.rev)
    BY DEF UpsertComplete
  <2>1. v # w
    BY <1>1
  <2>2. fetched'[v] = fetched[v] /\ pc[v] = "returned"
    BY <1>1, <2>1
  <2>3. overlap' = overlap
    BY <1>3, <2>1, <2>2
  <2>. QED
    BY <2>2, <2>3 DEF UpsertComplete
<1>. QED
  BY <1>4, <1>5, <1>6, <1>7

(* The bars of an upsert are the day's rows, of the fetch's revision; the    *)
(* others stay.                                                             *)
LEMMA UpsertedBars ==
  ASSUME TypeInv, RevisionInv, NEW w \in Slots, Upsert(w), NEW d \in Days
  PROVE  \/ /\ bars'[d] = bars[d]
            /\ \A i \in DOMAIN fetched[w] :
                 fetched[w][i].rev # 0 => fetched[w][i].ts # d
         \/ /\ \E i \in DOMAIN fetched[w] :
                 fetched[w][i].rev # 0 /\ bars'[d] = fetched[w][i].rev
            /\ \A i \in DOMAIN fetched[w] : fetched[w][i].rev \in {0, bars'[d]}
<1>. DEFINE new == CleanRows(fetched[w])
<1>1. bars'[d] = IF d \in DOMAIN new THEN new[d] ELSE bars[d]
  BY DEF Upsert, Upserted
<1>2. CASE d \notin DOMAIN new
  <2>1. fetched[w] \in Seq(Rows)
    BY Held
  <2>2. ~ \E i \in DOMAIN fetched[w] : fetched[w][i].ts = d /\ fetched[w][i].rev # 0
    BY <1>2, <2>1, CleanRowsOfDay
  <2>. QED
    BY <1>1, <1>2, <2>2
<1>3. CASE d \in DOMAIN new
  <2>1. PICK i \in DOMAIN fetched[w] : fetched[w][i].rev # 0 /\ new[d] = fetched[w][i].rev
    BY <1>3, Held, CleanRowsOfDay
  <2>2. bars'[d] = fetched[w][i].rev
    BY <1>1, <1>3, <2>1
  <2>3. \A j \in DOMAIN fetched[w] : fetched[w][j].rev \in {0, bars'[d]}
    BY <2>1, <2>2 DEF RevisionInv
  <2>. QED
    BY <2>1, <2>2, <2>3
<1>. QED
  BY <1>2, <1>3

LEMMA UpsertStays ==
  ASSUME TypeInv, HeldInv, AloneInv, RevisionInv, UpsertComplete,
         NEW w \in Slots, Upsert(w)
  PROVE  HeldInv' /\ AloneInv' /\ RevisionInv' /\ UpsertComplete'
<1>1. /\ pc[w] = "upsert" /\ pc'[w] = "returned"
      /\ \A v \in Slots \ {w} : pc'[v] = pc[v]
      /\ UNCHANGED <<known, fetched, overlap>>
  BY DEF Upsert, Goto, Labels, TypeInv, TypeOK
<1>2. \A v \in Slots \ {w} : pc[v] # "idle" => overlap
  BY <1>1 DEF AloneInv
<1>3. HeldInv' /\ AloneInv'
  BY <1>1 DEF HeldInv, AloneInv
<1>4. RevisionInv'
  <2>1. \A v \in Slots : pc'[v] = "upsert" => overlap'
    BY <1>1, <1>2
  <2>. QED
    BY <1>1, <2>1 DEF RevisionInv
<1>5. UpsertComplete'
  <2>. SUFFICES ASSUME NEW v \in Slots, pc'[v] = "returned", known,
                       NEW i \in DOMAIN fetched[v], fetched[v][i].rev # 0
                PROVE  LET r == fetched[v][i] IN
                       bars'[r.ts] # 0 /\ (overlap \/ bars'[r.ts] >= r.rev)
    BY <1>1 DEF UpsertComplete
  <2>1. /\ fetched[v][i].ts \in Days /\ fetched[v][i].rev \in 0 .. revision
        /\ revision \in Nat
    BY Held DEF TypeInv
  <2>2. CASE v = w
    <3>1. bars'[fetched[v][i].ts] = fetched[v][i].rev
      BY <2>1, <2>2, UpsertedBars
    <3>. QED
      BY <2>1, <3>1
  <2>3. CASE v # w
    <3>1. pc[v] = "returned" /\ overlap
      BY <1>1, <1>2, <2>3
    <3>2. bars[fetched[v][i].ts] # 0
      BY <3>1 DEF UpsertComplete
    <3>3. bars'[fetched[v][i].ts] # 0
      BY <2>1, <3>2, UpsertedBars
    <3>. QED
      BY <3>1, <3>3
  <2>. QED
    BY <2>2, <2>3
<1>. QED
  BY <1>3, <1>4, <1>5

LEMMA NextBarsInv ==
  TypeInv /\ HeldInv /\ AloneInv /\ RevisionInv /\ UpsertComplete /\ [Next]_vars
    => HeldInv' /\ AloneInv' /\ RevisionInv' /\ UpsertComplete'
<1>. SUFFICES ASSUME TypeInv, HeldInv, AloneInv, RevisionInv, UpsertComplete,
                     [Next]_vars
              PROVE  HeldInv' /\ AloneInv' /\ RevisionInv' /\ UpsertComplete'
  OBVIOUS
<1>1. CASE UNCHANGED vars \/ PublishIngest \/ Revise
  <2>1. UNCHANGED <<known, bars, pc, fetched, overlap>>
    BY <1>1 DEF vars, PublishIngest, Revise, symbolVars
  <2>. QED
    BY <2>1 DEF HeldInv, AloneInv, RevisionInv, UpsertComplete
<1>2. CASE DeleteSymbol
  <2>1. /\ UNCHANGED <<pc, fetched, overlap>> /\ known' = FALSE
        /\ bars' = [d \in Days |-> 0]
    BY <1>2 DEF DeleteSymbol
  <2>2. RevisionInv'
    <3>1. \A w \in Slots : \A i \in DOMAIN fetched[w] : fetched[w][i].rev >= 0
      BY Held DEF TypeInv
    <3>. QED
      BY <2>1, <3>1 DEF RevisionInv
  <2>. QED
    BY <2>1, <2>2 DEF HeldInv, AloneInv, UpsertComplete
<1>3. ASSUME NEW w \in Slots, NEW n \in Retries, TakeIngest(w, n)
      PROVE  HeldInv' /\ AloneInv' /\ RevisionInv' /\ UpsertComplete'
  <2>1. /\ UNCHANGED <<known, bars, fetched>>
        /\ pc[w] = "idle" /\ pc'[w] = "lookup"
        /\ \A v \in Slots \ {w} : pc'[v] = pc[v]
    BY <1>3 DEF TakeIngest, Goto, Labels, TypeInv, TypeOK, symbolVars
  <2>2. overlap' = (overlap \/ \E v \in Slots : pc[v] # "idle")
    BY <1>3 DEF TakeIngest
  <2>3. AloneInv'
    <3>1. CASE overlap'
      BY <3>1 DEF AloneInv
    <3>2. CASE ~ overlap'
      BY <2>1, <2>2, <3>2 DEF AloneInv
    <3>. QED
      BY <3>1, <3>2
  <2>4. HeldInv'
    BY <2>1 DEF HeldInv
  <2>5. ~ overlap' => ~ overlap
    BY <2>2
  <2>6. RevisionInv'
    BY <2>1, <2>5 DEF RevisionInv
  <2>7. UpsertComplete'
    BY <2>1, <2>5 DEF UpsertComplete
  <2>. QED
    BY <2>3, <2>4, <2>6, <2>7
<1>4. ASSUME NEW w \in Slots, AttemptSucceeds(w)
      PROVE  HeldInv' /\ AloneInv' /\ RevisionInv' /\ UpsertComplete'
  <2>. PICK rows \in Fetches :
         fetched' = [fetched EXCEPT ![w] =
           [i \in DOMAIN rows |->
              [ts |-> rows[i].ts, rev |-> IF rows[i].usable THEN revision ELSE 0]]]
    BY <1>4 DEF AttemptSucceeds
  <2>1. /\ UNCHANGED <<known, bars, overlap>>
        /\ pc[w] = "fetch" /\ pc'[w] = "upsert"
        /\ \A v \in Slots \ {w} : pc'[v] = pc[v] /\ fetched'[v] = fetched[v]
    BY <1>4 DEF AttemptSucceeds, Goto, Labels, TypeInv, TypeOK, symbolVars
  <2>2. \A i \in DOMAIN fetched'[w] : fetched'[w][i].rev \in {0, revision}
    BY DEF TypeInv
  <2>3. \A d \in Days : bars[d] <= revision
    BY DEF TypeInv, TypeOK
  <2>4. HeldInv' /\ AloneInv'
    BY <2>1 DEF HeldInv, AloneInv
  <2>5. RevisionInv'
    <3>. SUFFICES ASSUME NEW v \in Slots, NEW i \in DOMAIN fetched'[v],
                         fetched'[v][i].rev # 0
                  PROVE  /\ \A j \in DOMAIN fetched'[v] :
                              fetched'[v][j].rev \in {0, fetched'[v][i].rev}
                         /\ (pc'[v] = "upsert" /\ ~ overlap) =>
                              \A d \in Days : bars[d] <= fetched'[v][i].rev
      BY <2>1 DEF RevisionInv
    <3>1. CASE v = w
      BY <2>2, <2>3, <3>1
    <3>2. CASE v # w
      BY <2>1, <3>2 DEF RevisionInv
    <3>. QED
      BY <3>1, <3>2
  <2>6. UpsertComplete'
    BY <2>1 DEF UpsertComplete
  <2>. QED
    BY <2>4, <2>5, <2>6
<1>5. ASSUME NEW w \in Slots,
             \/ LookupSymbol(w) \/ AttemptFails(w) \/ SoftLimitInAttempt(w)
             \/ Sleep(w) \/ LimitEndsTask(w) \/ Exhausted(w)
      PROVE  HeldInv' /\ AloneInv' /\ RevisionInv' /\ UpsertComplete'
  BY <1>5, QuietSteps, QuietStays
<1>6. ASSUME NEW w \in Slots, Upsert(w)
      PROVE  HeldInv' /\ AloneInv' /\ RevisionInv' /\ UpsertComplete'
  BY <1>6, UpsertStays
<1>8. ASSUME NEW w \in Slots, TaskRefused(w)
      PROVE  HeldInv' /\ AloneInv' /\ RevisionInv' /\ UpsertComplete'
  <2>1. /\ UNCHANGED <<known, bars, fetched, overlap>>
        /\ pc[w] \notin {"idle", "returned"} /\ pc'[w] = "refused"
        /\ \A v \in Slots \ {w} : pc'[v] = pc[v]
    BY <1>8 DEF TaskRefused, Goto, TypeInv, TypeOK, symbolVars
  <2>2. HeldInv' /\ AloneInv'
    BY <2>1 DEF HeldInv, AloneInv
  <2>3. RevisionInv'
    BY <2>1 DEF RevisionInv
  <2>4. UpsertComplete'
    BY <2>1 DEF UpsertComplete
  <2>. QED
    BY <2>2, <2>3, <2>4
<1>7. ASSUME NEW w \in Slots, Acknowledge(w) \/ WorkerLost(w)
      PROVE  HeldInv' /\ AloneInv' /\ RevisionInv' /\ UpsertComplete'
  BY <1>7, ReleaseStays DEF Acknowledge, WorkerLost, symbolVars
<1>. QED
  BY <1>1, <1>2, <1>3, <1>4, <1>5, <1>6, <1>7, <1>8 DEF Next, SlotStep

-----------------------------------------------------------------------------
(* What the bar table promises.                                             *)

(* The inductive invariant of the tasks and the bar table.                   *)
THEOREM IngestionInvariant == Spec => []IngestionInv
<1>1. Init => IngestionInv
  BY InitTypeInv, InitBarsInv DEF IngestionInv
<1>2. IngestionInv /\ [Next]_vars => IngestionInv'
  BY NextTypeInv, NextBarsInv DEF IngestionInv
<1>. QED
  BY <1>1, <1>2, PTL DEF Spec

(* Tasks, messages and bars keep their types; the clock of a task stays short *)
(* of the hard limit and no retry is numbered past max_retries.              *)
THEOREM IngestionTypeCorrect == Spec => []TypeOK
<1>1. IngestionInv => TypeOK
  BY DEF IngestionInv, TypeInv
<1>. QED
  BY <1>1, IngestionInvariant, PTL

(* ingest_symbol leaves no fetched day out of the table, for any sequence of *)
(* rows that history() returns.                                             *)
THEOREM UpsertsComplete == Spec => []UpsertComplete
<1>1. IngestionInv => UpsertComplete
  BY DEF IngestionInv
<1>. QED
  BY <1>1, IngestionInvariant, PTL

(* upsert_bars never replaces a bar by an older one unless tasks overlap.     *)
THEOREM BarsNeverGoBack == Spec => BarsMoveForward
<1>1. IngestionInv /\ [Next]_vars
        => [known' /\ ~ overlap => \A d \in Days : bars'[d] >= bars[d]]_vars
  <2>. SUFFICES ASSUME IngestionInv, Next, known', ~ overlap, NEW d \in Days
                PROVE  bars'[d] >= bars[d]
    OBVIOUS
  <2>. /\ TypeInv /\ RevisionInv /\ bars[d] \in Nat
    BY DEF IngestionInv, TypeInv, TypeOK
  <2>1. CASE UNCHANGED bars
    BY <2>1
  <2>2. ASSUME NEW w \in Slots, Upsert(w) PROVE bars'[d] >= bars[d]
    <3>1. pc[w] = "upsert"
      BY <2>2 DEF Upsert
    <3>2. \A i \in DOMAIN fetched[w] : fetched[w][i].rev # 0 => bars[d] <= fetched[w][i].rev
      BY <3>1 DEF RevisionInv
    <3>3. bars'[d] = bars[d] \/ \E i \in DOMAIN fetched[w] :
            fetched[w][i].rev # 0 /\ bars'[d] = fetched[w][i].rev
      BY <2>2, <3>1, UpsertedBars
    <3>. QED
      BY <3>2, <3>3, Held
  <2>3. ASSUME NEW w \in Slots, SlotStep(w) \/ WorkerLost(w)
        PROVE  UNCHANGED bars \/ Upsert(w)
    BY <2>3 DEF SlotStep, LookupSymbol, AttemptSucceeds, AttemptFails, SoftLimitInAttempt,
         Sleep, LimitEndsTask, Exhausted, TaskRefused, Acknowledge, WorkerLost, symbolVars
  <2>4. ASSUME PublishIngest \/ Revise \/ \E w \in Slots, n \in Retries : TakeIngest(w, n)
        PROVE  UNCHANGED bars
    BY <2>4 DEF PublishIngest, Revise, TakeIngest, symbolVars
  <2>5. ~ DeleteSymbol
    BY DEF DeleteSymbol
  <2>. QED
    BY <2>1, <2>2, <2>3, <2>4, <2>5 DEF Next
<1>. QED
  BY <1>1, IngestionInvariant, PTL DEF Spec, BarsMoveForward

-----------------------------------------------------------------------------
(* Giving up.                                                               *)

(* The limits of the code, whatever time its requests take.                 *)
CodeLimits ==
  /\ MaxAttempts = 4 /\ FirstDelay = 2 /\ MaxDelay = 60
  /\ SoftLimit = 50 /\ HardLimit = 60

(* The sleeps before an attempt, and the one after it.                      *)
Slept(a) == CASE a <= 1 -> 0 [] a = 2 -> 2 [] a = 3 -> 6 [] a = 4 -> 14
Pause(a) == CASE a = 1 -> 2 [] a = 2 -> 4 [] a = 3 -> 8 [] a = 4 -> 16

(* The clock of a task is what it has slept and what it has spent; a task    *)
(* that has met a limit has spent 20 s.                                     *)
ClockOf(w) ==
  /\ pc[w] \in {"idle", "lookup"} => clock[w] = 0 /\ spent[w] = 0 /\ ~ warned[w]
  /\ pc[w] \in {"fetch", "sleep"} =>
       /\ attempt[w] \in 1 .. 4
       /\ delay[w] = Pause(attempt[w])
       /\ clock[w] = Slept(attempt[w]) + spent[w]
       /\ IF warned[w] THEN spent[w] >= 20 ELSE clock[w] < 50
  /\ pc[w] = "given_up" => job[w] = MaxRetries \/ spent[w] >= 20

GaveUpInv ==
  /\ spent \in [Slots -> Nat]
  /\ \A w \in Slots : ClockOf(w)

LEMMA InitGaveUpInv == Init => GaveUpInv
  BY DEF Init, GaveUpInv, ClockOf

LEMMA Sleeping ==
  /\ \A a \in 1 .. 3 : Slept(a + 1) = Slept(a) + Pause(a)
  /\ \A a \in 1 .. 4 : Slept(a) \in 0 .. 14 /\ Pause(a) \in 2 .. 16
                       /\ Slept(a) + Pause(a) <= 30
  BY DEF Slept, Pause

(* A step of one slot leaves the clocks of the others alone.                *)
LEMMA ClocksOfOthers ==
  ASSUME GaveUpInv, NEW w \in Slots, spent' \in [Slots -> Nat], ClockOf(w)',
         \A v \in Slots \ {w} :
           /\ pc'[v] = pc[v] /\ clock'[v] = clock[v] /\ attempt'[v] = attempt[v]
           /\ delay'[v] = delay[v] /\ warned'[v] = warned[v]
           /\ spent'[v] = spent[v] /\ job'[v] = job[v]
  PROVE  GaveUpInv'
<1>1. ASSUME NEW v \in Slots \ {w} PROVE ClockOf(v)'
  BY DEF GaveUpInv, ClockOf
<1>. QED
  BY <1>1 DEF GaveUpInv

(* What a request that takes s seconds adds to the clock.                   *)
LEMMA SpendClock ==
  ASSUME TypeInv, GaveUpInv, NEW w \in Slots, NEW s \in Nat, Spend(w, s)
  PROVE  /\ spent' \in [Slots -> Nat]
         /\ clock'[w] = clock[w] + s /\ spent'[w] = spent[w] + s
         /\ \A v \in Slots \ {w} : clock'[v] = clock[v] /\ spent'[v] = spent[v]
  BY DEF Spend, GaveUpInv, TypeInv, TypeOK

LEMMA NextGaveUpInv ==
  ASSUME CodeLimits, TypeInv, GaveUpInv, [Next]_vars
  PROVE  GaveUpInv'
<1>. USE DEF symbolVars, loopVars, boundVars
<1>0. /\ clock \in [Slots -> Nat] /\ attempt \in [Slots -> Nat]
      /\ delay \in [Slots -> Nat] /\ spent \in [Slots -> Nat]
      /\ warned \in [Slots -> BOOLEAN]
      /\ MaxAttempts = 4 /\ FirstDelay = 2 /\ MaxDelay = 60
      /\ SoftLimit = 50 /\ HardLimit = 60
  <2>1. /\ clock \in [Slots -> 0 .. HardLimit - 1] /\ attempt \in [Slots -> 0 .. MaxAttempts]
        /\ delay \in [Slots -> 0 .. MaxDelay] /\ warned \in [Slots -> BOOLEAN]
    BY DEF TypeInv, TypeOK
  <2>2. \A m \in Int : 0 .. m \subseteq Nat
    OBVIOUS
  <2>3. HardLimit - 1 \in Int
    OBVIOUS
  <2>4. clock \in [Slots -> Nat] /\ attempt \in [Slots -> Nat] /\ delay \in [Slots -> Nat]
    BY <2>1, <2>2, <2>3
  <2>. QED
    BY <2>1, <2>4 DEF GaveUpInv, CodeLimits
<1>p. pc \in [Slots -> Labels]
  BY DEF TypeInv, TypeOK
<1>1. CASE UNCHANGED vars \/ PublishIngest \/ Revise \/ DeleteSymbol
  <2>1. UNCHANGED <<pc, clock, attempt, delay, warned, spent, job>>
    BY <1>1 DEF vars, PublishIngest, Revise, DeleteSymbol
  <2>. QED
    BY <2>1 DEF GaveUpInv, ClockOf
<1>2. ASSUME NEW w \in Slots, NEW n \in Retries, TakeIngest(w, n) PROVE GaveUpInv'
  <2>1. /\ UNCHANGED <<clock, attempt, delay, warned, spent>>
        /\ pc[w] = "idle" /\ pc' = [pc EXCEPT ![w] = "lookup"]
        /\ job' = [job EXCEPT ![w] = n]
    BY <1>2 DEF TakeIngest, Goto
  <2>2. ClockOf(w)'
    BY <1>p, <2>1 DEF GaveUpInv, ClockOf
  <2>3. \A v \in Slots \ {w} : job'[v] = job[v] /\ pc'[v] = pc[v]
    BY <1>p, <2>1 DEF TypeInv, TypeOK
  <2>. QED
    BY <1>0, <2>1, <2>2, <2>3, ClocksOfOthers
<1>3. ASSUME NEW w \in Slots, LookupSymbol(w) PROVE GaveUpInv'
  <2>. PICK s \in Durations : clock[w] + s < 50 /\ Spend(w, s)
    BY <1>0, <1>3 DEF LookupSymbol
  <2>1. /\ UNCHANGED <<warned, job>> /\ pc[w] = "lookup"
        /\ \/ /\ attempt' = [attempt EXCEPT ![w] = 1]
              /\ delay' = [delay EXCEPT ![w] = FirstDelay]
              /\ pc' = [pc EXCEPT ![w] = "fetch"]
           \/ UNCHANGED <<attempt, delay>> /\ pc' = [pc EXCEPT ![w] = "returned"]
    BY <1>3 DEF LookupSymbol, Goto
  <2>2. /\ spent' \in [Slots -> Nat]
        /\ clock'[w] = clock[w] + s /\ spent'[w] = spent[w] + s
        /\ \A v \in Slots \ {w} : clock'[v] = clock[v] /\ spent'[v] = spent[v]
    BY SpendClock
  <2>3. clock[w] = 0 /\ spent[w] = 0 /\ ~ warned[w]
    BY <2>1 DEF GaveUpInv, ClockOf
  <2>4. ClockOf(w)'
    BY <1>0, <1>p, <2>1, <2>2, <2>3 DEF ClockOf, Slept, Pause
  <2>5. \A v \in Slots \ {w} : /\ attempt'[v] = attempt[v] /\ delay'[v] = delay[v]
                               /\ pc'[v] = pc[v]
    BY <1>0, <1>p, <2>1
  <2>. QED
    BY <2>1, <2>2, <2>4, <2>5, ClocksOfOthers
<1>4. ASSUME NEW w \in Slots, AttemptSucceeds(w) PROVE GaveUpInv'
  <2>. PICK s \in Durations : Spend(w, s)
    BY <1>4 DEF AttemptSucceeds
  <2>1. /\ UNCHANGED <<attempt, delay, warned, job>>
        /\ pc[w] = "fetch" /\ pc' = [pc EXCEPT ![w] = "upsert"]
    BY <1>4 DEF AttemptSucceeds, Goto
  <2>2. /\ spent' \in [Slots -> Nat]
        /\ \A v \in Slots \ {w} : clock'[v] = clock[v] /\ spent'[v] = spent[v]
    BY SpendClock
  <2>3. ClockOf(w)'
    BY <1>p, <2>1 DEF ClockOf
  <2>. QED
    BY <1>p, <2>1, <2>2, <2>3, ClocksOfOthers
<1>5. ASSUME NEW w \in Slots, AttemptFails(w) PROVE GaveUpInv'
  <2>. PICK s \in Durations : clock[w] + s < Limit(w) /\ Spend(w, s)
    BY <1>5 DEF AttemptFails
  <2>1. /\ UNCHANGED <<attempt, delay, warned, job>>
        /\ pc[w] = "fetch" /\ pc' = [pc EXCEPT ![w] = "sleep"]
    BY <1>5 DEF AttemptFails, Goto
  <2>2. /\ spent' \in [Slots -> Nat]
        /\ clock'[w] = clock[w] + s /\ spent'[w] = spent[w] + s
        /\ \A v \in Slots \ {w} : clock'[v] = clock[v] /\ spent'[v] = spent[v]
    BY SpendClock
  <2>3. /\ attempt[w] \in 1 .. 4 /\ delay[w] = Pause(attempt[w])
        /\ clock[w] = Slept(attempt[w]) + spent[w]
        /\ warned[w] => spent[w] >= 20
    BY <2>1 DEF GaveUpInv, ClockOf
  <2>4. /\ clock'[w] = Slept(attempt[w]) + spent'[w]
        /\ IF warned[w] THEN spent'[w] >= 20 ELSE clock'[w] < 50
    <3>1. Slept(attempt[w]) \in Nat /\ clock[w] \in Nat /\ spent[w] \in Nat
      BY <1>0, <2>3, Sleeping
    <3>. QED
      BY <1>0, <2>2, <2>3, <3>1 DEF Limit
  <2>5. ClockOf(w)'
    BY <1>p, <2>1, <2>3, <2>4 DEF ClockOf
  <2>. QED
    BY <1>p, <2>1, <2>2, <2>5, ClocksOfOthers
<1>6. ASSUME NEW w \in Slots, SoftLimitInAttempt(w) PROVE GaveUpInv'
  <2>1. /\ UNCHANGED <<attempt, delay, job>> /\ Spend(w, 50 - clock[w])
        /\ warned' = [warned EXCEPT ![w] = TRUE] /\ ~ warned[w]
        /\ pc[w] = "fetch" /\ pc' = [pc EXCEPT ![w] = "sleep"]
    BY <1>0, <1>6 DEF SoftLimitInAttempt, Goto
  <2>2. /\ attempt[w] \in 1 .. 4 /\ delay[w] = Pause(attempt[w])
        /\ clock[w] = Slept(attempt[w]) + spent[w]
    BY <2>1 DEF GaveUpInv, ClockOf
  <2>3. 50 - clock[w] \in Nat
    BY <1>0, <2>1 DEF GaveUpInv, ClockOf
  <2>4. /\ spent' \in [Slots -> Nat]
        /\ clock'[w] = clock[w] + (50 - clock[w]) /\ spent'[w] = spent[w] + (50 - clock[w])
        /\ \A v \in Slots \ {w} : clock'[v] = clock[v] /\ spent'[v] = spent[v]
    BY <2>1, <2>3, SpendClock
  <2>5. clock'[w] = Slept(attempt[w]) + spent'[w] /\ spent'[w] >= 20
    <3>1. Slept(attempt[w]) \in 0 .. 14 /\ clock[w] \in Nat /\ spent[w] \in Nat
      BY <1>0, <2>2, Sleeping
    <3>. QED
      BY <2>2, <2>4, <3>1
  <2>6. ClockOf(w)'
    <3>1. warned'[w] /\ pc'[w] = "sleep"
      BY <1>0, <1>p, <2>1
    <3>. QED
      BY <2>1, <2>2, <2>5, <3>1 DEF ClockOf
  <2>7. \A v \in Slots \ {w} : warned'[v] = warned[v] /\ pc'[v] = pc[v]
    BY <1>0, <1>p, <2>1
  <2>. QED
    BY <2>1, <2>4, <2>6, <2>7, ClocksOfOthers
<1>7. ASSUME NEW w \in Slots, Sleep(w) PROVE GaveUpInv'
  <2>1. /\ UNCHANGED <<warned, spent, job>>
        /\ pc[w] = "sleep"
        /\ clock' = [clock EXCEPT ![w] = @ + delay[w]]
        /\ clock[w] + delay[w] < Limit(w)
        /\ delay' = [delay EXCEPT ![w] = NextDelay(@)]
        /\ \/ /\ attempt[w] < 4 /\ attempt' = [attempt EXCEPT ![w] = @ + 1]
              /\ pc' = [pc EXCEPT ![w] = "fetch"]
           \/ UNCHANGED attempt /\ pc' = [pc EXCEPT ![w] = "exhausted"]
    BY <1>0, <1>7 DEF Sleep, Goto
  <2>2. ClockOf(w)'
    <3>1. /\ attempt[w] \in 1 .. 4 /\ delay[w] = Pause(attempt[w])
          /\ clock[w] = Slept(attempt[w]) + spent[w]
          /\ warned[w] => spent[w] >= 20
      BY <2>1 DEF GaveUpInv, ClockOf
    <3>2. CASE attempt[w] < 4 /\ attempt' = [attempt EXCEPT ![w] = @ + 1]
                              /\ pc' = [pc EXCEPT ![w] = "fetch"]
      <4>1. attempt'[w] = attempt[w] + 1 /\ attempt'[w] \in 1 .. 4 /\ attempt[w] \in 1 .. 3
        BY <1>0, <3>1, <3>2
      <4>2. delay'[w] = Pause(attempt'[w])
        <5>1. delay'[w] = NextDelay(Pause(attempt[w]))
          BY <1>0, <2>1, <3>1
        <5>2. \A a \in 1 .. 3 : NextDelay(Pause(a)) = Pause(a + 1)
          BY <1>0 DEF NextDelay, Pause
        <5>. QED
          BY <4>1, <5>1, <5>2
      <4>3. clock'[w] = Slept(attempt'[w]) + spent[w]
        <5>1. clock'[w] = clock[w] + Pause(attempt[w])
          BY <1>0, <2>1, <3>1
        <5>2. Slept(attempt'[w]) = Slept(attempt[w]) + Pause(attempt[w])
          BY <4>1, Sleeping
        <5>3. /\ Slept(attempt[w]) \in Nat /\ Pause(attempt[w]) \in Nat
              /\ clock[w] \in Nat /\ spent[w] \in Nat
          BY <1>0, <3>1, Sleeping
        <5>. QED
          BY <3>1, <5>1, <5>2, <5>3
      <4>4. pc'[w] = "fetch"
        BY <1>p, <3>2
      <4>5. warned[w] \/ clock'[w] < 50
        BY <1>0, <2>1 DEF Limit
      <4>. QED
        BY <2>1, <3>1, <4>1, <4>2, <4>3, <4>4, <4>5 DEF ClockOf
    <3>3. CASE pc' = [pc EXCEPT ![w] = "exhausted"]
      BY <1>p, <3>3 DEF ClockOf
    <3>. QED
      BY <2>1, <3>2, <3>3
  <2>3. \A v \in Slots \ {w} : /\ clock'[v] = clock[v] /\ delay'[v] = delay[v]
                               /\ attempt'[v] = attempt[v] /\ pc'[v] = pc[v]
    BY <1>0, <1>p, <2>1
  <2>. QED
    BY <1>0, <2>1, <2>2, <2>3, ClocksOfOthers
<1>8. ASSUME NEW w \in Slots, LimitEndsTask(w) PROVE GaveUpInv'
  <2>1. /\ UNCHANGED <<clock, attempt, delay, warned, spent, job>>
        /\ pc' = [pc EXCEPT ![w] = "given_up"]
        /\ \/ pc[w] = "sleep" /\ clock[w] + delay[w] >= Limit(w)
           \/ pc[w] = "fetch" /\ warned[w]
    BY <1>8 DEF LimitEndsTask, Goto
  <2>2. ClockOf(w)
    BY DEF GaveUpInv
  <2>3. spent[w] >= 20
    <3>1. CASE warned[w]
      BY <2>1, <2>2, <3>1 DEF ClockOf
    <3>2. CASE ~ warned[w]
      <4>1. pc[w] = "sleep" /\ clock[w] + delay[w] >= 50
        BY <1>0, <2>1, <3>2 DEF Limit
      <4>2. /\ attempt[w] \in 1 .. 4 /\ delay[w] = Pause(attempt[w])
            /\ clock[w] = Slept(attempt[w]) + spent[w]
        BY <2>2, <4>1 DEF ClockOf
      <4>3. /\ Slept(attempt[w]) \in Nat /\ Pause(attempt[w]) \in Nat
            /\ Slept(attempt[w]) + Pause(attempt[w]) <= 30
            /\ clock[w] \in Nat /\ spent[w] \in Nat
        BY <1>0, <4>2, Sleeping
      <4>. QED
        BY <4>1, <4>2, <4>3
    <3>. QED
      BY <3>1, <3>2
  <2>4. ClockOf(w)'
    BY <1>p, <2>1, <2>3 DEF ClockOf
  <2>. QED
    BY <1>0, <1>p, <2>1, <2>4, ClocksOfOthers
<1>9. ASSUME NEW w \in Slots, Exhausted(w) PROVE GaveUpInv'
  <2>1. /\ UNCHANGED <<clock, attempt, delay, warned, spent, job>>
        /\ \/ pc' = [pc EXCEPT ![w] = "returned"]
           \/ pc' = [pc EXCEPT ![w] = "given_up"] /\ ~ MayRetry(job[w])
    BY <1>9 DEF Exhausted, Goto
  <2>2. ~ MayRetry(job[w]) => job[w] = MaxRetries
    BY DEF MayRetry, TypeInv, TypeOK, Retries
  <2>3. ClockOf(w)'
    BY <1>p, <2>1, <2>2 DEF ClockOf
  <2>. QED
    BY <1>0, <1>p, <2>1, <2>3, ClocksOfOthers
<1>10. ASSUME NEW w \in Slots, Upsert(w) \/ TaskRefused(w) PROVE GaveUpInv'
  <2>1. /\ UNCHANGED <<clock, attempt, delay, warned, spent, job>>
        /\ \E label \in {"returned", "refused"} : pc' = [pc EXCEPT ![w] = label]
    BY <1>10 DEF Upsert, TaskRefused, Goto
  <2>2. ClockOf(w)'
    BY <1>p, <2>1 DEF ClockOf
  <2>. QED
    BY <1>0, <1>p, <2>1, <2>2, ClocksOfOthers
<1>11. ASSUME NEW w \in Slots, Acknowledge(w) \/ WorkerLost(w) PROVE GaveUpInv'
  <2>1. Release(w)
    BY <1>11 DEF Acknowledge, WorkerLost
  <2>2. /\ pc'[w] = "idle" /\ clock'[w] = 0 /\ spent'[w] = 0 /\ warned'[w] = FALSE
        /\ spent' \in [Slots -> Nat]
        /\ \A v \in Slots \ {w} :
             /\ pc'[v] = pc[v] /\ clock'[v] = clock[v] /\ attempt'[v] = attempt[v]
             /\ delay'[v] = delay[v] /\ warned'[v] = warned[v]
             /\ spent'[v] = spent[v] /\ job'[v] = job[v]
    BY <1>0, <1>p, <2>1 DEF Release, Goto, TypeInv, TypeOK
  <2>3. ClockOf(w)'
    BY <2>2 DEF ClockOf
  <2>. QED
    BY <2>2, <2>3, ClocksOfOthers
<1>. QED
  BY <1>1, <1>2, <1>3, <1>4, <1>5, <1>6, <1>7, <1>8, <1>9, <1>10, <1>11
     DEF Next, SlotStep

(* With the code's limits, whatever time each request takes, and however many *)
(* tasks, retries, revisions and deaths: no ingestion is kept from Celery's   *)
(* retries by the time limits unless its requests took 20 s.                  *)
THEOREM GivesUpOnlyLate == ASSUME CodeLimits PROVE Spec => []GivesUpLate
<1>1. IngestionInv /\ GaveUpInv /\ [Next]_vars => GaveUpInv'
  BY NextGaveUpInv DEF IngestionInv
<1>2. GaveUpInv => GivesUpLate
  <2>1. SoftLimit - Sleeps = 20
    BY DEF CodeLimits, Sleeps
  <2>. QED
    BY <2>1 DEF GaveUpInv, ClockOf, GivesUpLate
<1>. QED
  BY <1>1, <1>2, InitGaveUpInv, IngestionInvariant, PTL DEF Spec
=============================================================================
