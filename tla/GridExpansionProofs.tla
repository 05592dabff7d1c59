------------------------ MODULE GridExpansionProofs ------------------------
(***************************************************************************)
(* Proofs about GridExpansion, for any grids, any resolution of round() and *)
(* any number of values.                                                   *)
(***************************************************************************)
EXTENDS GridExpansion, WellFoundedInduction, TLAPS

Sequence(s) == s \in Seq(Range(s))

(* The i-th value of a range.                                               *)
Term(entry, i) == entry.start + (i - 1) * entry.step

(* What the loop has collected is the beginning of the progression, and its  *)
(* value is the next term.                                                  *)
Exactly(entry) ==
  /\ values = [i \in 1 .. Len(values) |-> Term(entry, i)]
  /\ value = Term(entry, Len(values) + 1)
  /\ entry.float # "none" => is_float /\ Exact(value)
  /\ Len(values) = 0 \/ Within(entry, Term(entry, Len(values)))

(* Distances in the direction of the step: of two values, of stop and of v    *)
(* from the start.                                                          *)
Stride(entry) == IF entry.step > 0 THEN entry.step ELSE -entry.step
Span(entry) == IF entry.step > 0 THEN entry.stop - entry.start
                                 ELSE entry.start - entry.stop
Ahead(entry, v) == IF entry.step > 0 THEN v - entry.start ELSE entry.start - v

(* How far floats have come, decimals or not: only the first sums are off by  *)
(* more than round(_, 12) makes good.                                       *)
Advanced(entry, n) ==
  /\ value \in Int
  /\ is_float <=> (n >= 1 \/ entry.float = "start")
  /\ (n >= 2 \/ (n = 1 /\ entry.float = "start")) => Exact(value)
  /\ n = 0 => value = entry.start
  /\ (n = 1 /\ entry.float = "step") => value = entry.start + entry.step + error[1]
  /\ ~ Finer(entry) => 2 * Ahead(entry, value) >= (n - 1) * Stride(entry)
  /\ NeverAdvances(entry) => value = entry.start

RangeInv ==
  /\ Sequence(values) /\ (~ in_range => values = <<>>)
  /\ in_range =>
       /\ Axis \in DOMAIN grid /\ Entry.kind = "range" /\ Entry.step # 0
       /\ pass \in Passes \cup {"killed"}
       /\ Len(values) <= MaxValues
       /\ Regular(Entry) => Exactly(Entry)
       /\ Entry.float # "none" => Advanced(Entry, Len(values))

ShapeInv ==
  /\ grid \in Grids
  /\ error \in [1 .. MaxValues -> Errors]
  /\ pass \in Passes \cup {"raised", "killed", "done"}
  /\ Sequence(lists) /\ Len(lists) <= Len(grid)
  /\ \A a \in DOMAIN lists : lists[a] # <<>>

EndInv ==
  /\ pass = "killed" => in_range /\ Within(Entry, value) /\ Len(values) = MaxValues
  /\ pass = "done" => Len(lists) = Len(grid)

GridInv == ShapeInv /\ RangeInv /\ EndInv /\ AxesExact /\ RefusedJustly /\ RangesEnd

-----------------------------------------------------------------------------
(* Numbers.                                                                 *)

USE GrainAssumption

LEMMA Product ==
  ASSUME NEW d \in Nat \ {0}, NEW k \in Int
  PROVE  /\ d * k \in Int
         /\ k >= 1 => d * k >= d
         /\ k <= -1 => d * k <= -d
         /\ d * (k + 1) = d * k + d /\ d * (k - 1) = d * k - d
         /\ k * d = d * k
<1>1. /\ d * k \in Int /\ d * (k + 1) = d * k + d /\ d * (k - 1) = d * k - d
      /\ k * d = d * k
  OBVIOUS
<1>2. ASSUME k >= 1 PROVE d * k >= d
  <2>1. d * (k - 1) >= 0
    BY <1>2
  <2>. QED
    BY <1>1, <2>1
<1>3. ASSUME k <= -1 PROVE d * k <= -d
  <2>1. d * (k + 1) <= 0
    BY <1>3
  <2>. QED
    BY <1>1, <2>1
<1>. QED
  BY <1>1, <1>2, <1>3

LEMMA Quotient ==
  ASSUME NEW d \in Nat \ {0}, NEW n \in Int
  PROVE  /\ n \div d \in Int /\ n % d \in 0 .. d - 1
         /\ n = d * (n \div d) + (n % d)
  OBVIOUS

(* A quotient and a remainder are the only ones.                            *)
LEMMA Division ==
  ASSUME NEW d \in Nat \ {0}, NEW n \in Int, NEW q \in Int, NEW r \in Int,
         n = d * q + r, 0 <= r, r < d
  PROVE  n \div d = q /\ n % d = r
<1>. DEFINE a == n \div d
            b == n % d
<1>1. a \in Int /\ b \in 0 .. d - 1 /\ n = d * a + b
  BY Quotient
<1>. HIDE DEF a, b
<1>2. a - q \in Int /\ d * (a - q) = d * a - d * q
  BY <1>1
<1>3. d * a \in Int /\ d * q \in Int
  BY <1>1, Product
<1>4. a - q = 0
  <2>1. d * (a - q) < d /\ d * (a - q) > -d
    BY <1>1, <1>2, <1>3
  <2>. QED
    BY <1>2, <2>1, Product
<1>5. a = q
  BY <1>1, <1>4
<1>6. b = r
  BY <1>1, <1>3, <1>5
<1>. QED
  BY <1>5, <1>6 DEF a, b

(* round(_, 12) takes off the error of a float sum of decimals, and the error *)
(* of two.                                                                  *)
LEMMA RoundedExactly ==
  ASSUME NEW x \in Int, Exact(x), NEW e \in Int, -Grain < 2 * e, 2 * e < Grain
  PROVE  Rounded(x + e) = x
<1>. DEFINE m == x \div Grain
<1>1. m \in Int /\ x = Grain * m /\ x + e \in Int /\ Grain * (m - 1) = x - Grain
  <2>1. m \in Int /\ x = Grain * m + (x % Grain)
    BY Quotient
  <2>2. x = Grain * m
    BY <2>1 DEF Exact
  <2>. HIDE DEF m
  <2>3. Grain * (m - 1) = Grain * m - Grain
    BY <2>1, Product
  <2>. QED
    BY <2>1, <2>2, <2>3
<1>. HIDE DEF m
<1>2. CASE e >= 0
  <2>1. x + e = Grain * m + e /\ e < Grain
    BY <1>1
  <2>2. (x + e) \div Grain = m /\ (x + e) % Grain = e
    BY <1>1, <1>2, <2>1, Division
  <2>. QED
    BY <1>1, <2>2 DEF Rounded
<1>3. CASE e < 0
  <2>1. x + e = Grain * (m - 1) + (Grain + e) /\ 0 <= Grain + e /\ Grain + e < Grain
    BY <1>1, <1>3
  <2>2. (x + e) \div Grain = m - 1 /\ (x + e) % Grain = Grain + e
    <3>1. Grain + e \in Int /\ m - 1 \in Int
      BY <1>1
    <3>2. \A r \in Int : x + e = Grain * (m - 1) + r /\ 0 <= r /\ r < Grain
                           => (x + e) \div Grain = m - 1 /\ (x + e) % Grain = r
      BY <1>1, <3>1, Division
    <3>. QED
      BY <2>1, <3>1, <3>2
  <2>3. ~ (2 * (Grain + e) < Grain) /\ 2 * (Grain + e) # Grain
    BY <1>3
  <2>4. Rounded(x + e) = Grain * (m - 1 + 1)
    BY <2>2, <2>3 DEF Rounded
  <2>. QED
    BY <1>1, <2>4
<1>. QED
  BY <1>2, <1>3

LEMMA SumExact ==
  ASSUME NEW x \in Int, NEW y \in Int, Exact(x), Exact(y)
  PROVE  Exact(x + y)
<1>1. /\ x = Grain * (x \div Grain) /\ x \div Grain \in Int
      /\ y = Grain * (y \div Grain) /\ y \div Grain \in Int
  BY Quotient DEF Exact
<1>. DEFINE q == (x \div Grain) + (y \div Grain)
<1>2. q \in Int /\ x + y \in Int
  BY <1>1
<1>3. x + y = Grain * q + 0
  BY <1>1
<1>. HIDE DEF q
<1>4. (x + y) % Grain = 0
  <2>1. \A r \in Int : x + y = Grain * q + r /\ 0 <= r /\ r < Grain => (x + y) % Grain = r
    BY <1>2, Division
  <2>. QED
    BY <1>2, <1>3, <2>1
<1>. QED
  BY <1>4 DEF Exact

(* Two different results of round(_, 12) are at least 1e-12 apart.           *)
LEMMA Apart ==
  ASSUME NEW x \in Int, NEW y \in Int, Exact(x), Exact(y), x # y
  PROVE  x >= y + Grain \/ y >= x + Grain
<1>0. /\ x = Grain * (x \div Grain) /\ x \div Grain \in Int
      /\ y = Grain * (y \div Grain) /\ y \div Grain \in Int
  BY Quotient DEF Exact
<1>. DEFINE a == x \div Grain
            b == y \div Grain
<1>1. a \in Int /\ b \in Int /\ x = Grain * a /\ y = Grain * b
  BY <1>0
<1>. HIDE DEF a, b
<1>2. a - b \in Int /\ Grain * (a - b) = x - y
  BY <1>1
<1>3. a # b
  BY <1>1
<1>4. a - b >= 1 \/ a - b <= -1
  BY <1>1, <1>3
<1>5. Grain * (a - b) >= Grain \/ Grain * (a - b) <= -Grain
  <2>. DEFINE k == a - b
  <2>1. k \in Int /\ (k >= 1 \/ k <= -1)
    BY <1>2, <1>4
  <2>. HIDE DEF k
  <2>2. Grain * k >= Grain \/ Grain * k <= -Grain
    BY <2>1, Product
  <2>. QED
    BY <2>2 DEF k
<1>. QED
  BY <1>2, <1>5

(* A float sum is off by less than half of 1e-12.                            *)
LEMMA ErrorFacts ==
  ASSUME NEW d \in Errors, NEW e \in Errors
  PROVE  /\ d \in Int /\ e \in Int /\ d + e \in Int
         /\ -Grain < 2 * d /\ 2 * d < Grain
         /\ -Grain < 2 * (d + e) /\ 2 * (d + e) < Grain
<1>1. d \in Int /\ e \in Int /\ -Grain < 2 * d /\ 2 * d < Grain
  OBVIOUS
<1>. QED
  BY <1>1, TwoErrorsAssumption

(* round(_, 12) moves a number by no more than half of 1e-12.                *)
LEMMA RoundedNear ==
  ASSUME NEW x \in Int
  PROVE  /\ Rounded(x) \in Int /\ Exact(Rounded(x))
         /\ -Grain <= 2 * (Rounded(x) - x) /\ 2 * (Rounded(x) - x) <= Grain
<1>. DEFINE q == x \div Grain
            r == x % Grain
<1>1. q \in Int /\ r \in 0 .. Grain - 1 /\ x = Grain * q + r
  BY Quotient
<1>2. Rounded(x) = Grain * (IF 2 * r < Grain \/ (2 * r = Grain /\ q % 2 = 0) THEN q ELSE q + 1)
  BY DEF Rounded
<1>. HIDE DEF q, r
<1>3. Grain * q \in Int /\ Grain * (q + 1) = Grain * q + Grain
  BY <1>1, Product
<1>4. \A k \in Int : Exact(Grain * k)
  <2>. SUFFICES ASSUME NEW k \in Int PROVE Exact(Grain * k)
    OBVIOUS
  <2>1. Grain * k \in Int /\ Grain * k = Grain * k + 0
    BY Product
  <2>2. (Grain * k) % Grain = 0
    <3>1. \A n, t \in Int : n = Grain * k + t /\ 0 <= t /\ t < Grain => n % Grain = t
      BY Division
    <3>. QED
      BY <2>1, <3>1
  <2>. QED
    BY <2>2 DEF Exact
<1>5. \/ Rounded(x) = Grain * q /\ 2 * r <= Grain
      \/ Rounded(x) = Grain * (q + 1) /\ 2 * r >= Grain
  BY <1>1, <1>2
<1>6. Exact(Rounded(x)) /\ Rounded(x) \in Int
  <2>1. /\ Grain * q \in Int /\ Exact(Grain * q)
        /\ Grain * (q + 1) \in Int /\ Exact(Grain * (q + 1))
    <3>1. q + 1 \in Int
      BY <1>1
    <3>2. \A k \in Int : Grain * k \in Int /\ Exact(Grain * k)
      BY <1>4, Product
    <3>. QED
      BY ONLY <1>1, <3>1, <3>2, Zenon
  <2>. QED
    BY <1>5, <2>1
<1>. DEFINE m == Grain * q
<1>7. /\ m \in Int /\ x = m + r
      /\ \/ Rounded(x) = m /\ 2 * r <= Grain
         \/ Rounded(x) = m + Grain /\ 2 * r >= Grain
  BY <1>1, <1>3, <1>5
<1>. HIDE DEF m
<1>8. -Grain <= 2 * (Rounded(x) - x) /\ 2 * (Rounded(x) - x) <= Grain
  BY <1>1, <1>7
<1>. QED
  BY <1>6, <1>8

-----------------------------------------------------------------------------
(* Ranges.                                                                  *)

(* The loop leaves the progression exactly after its last term.             *)
LEMMA CountOfTerms ==
  ASSUME NEW s \in Nat \ {0}, NEW d \in Int, NEW k \in Nat,
         k = 0 \/ s * (k - 1) <= d, s * k > d
  PROVE  1 .. ((d \div s) + 1) = 1 .. k
<1>. DEFINE q == d \div s
            r == d % s
<1>1. q \in Int /\ r \in 0 .. s - 1 /\ d = s * q + r
  BY Quotient
<1>. HIDE DEF q, r
<1>2. /\ s * q \in Int /\ s * k \in Int /\ s * (k - 1) = s * k - s
  BY <1>1, Product
<1>3. s * (k - q) = s * k - s * q /\ k - q \in Int
  BY <1>1
<1>4. s * (k - q) > 0
  BY <1>1, <1>2, <1>3
<1>5. k - q >= 1
  <2>1. k - q <= -1 => s * (k - q) <= -s
    BY <1>3, Product
  <2>2. k - q = 0 => s * (k - q) = 0
    OBVIOUS
  <2>. QED
    BY <1>3, <1>4, <2>1, <2>2
<1>6. k = 0 \/ k - q <= 1
  <2>. SUFFICES ASSUME k # 0, k - q >= 2 PROVE FALSE
    BY <1>3
  <2>. DEFINE j == k - q - 1
  <2>1. j \in Int /\ j >= 1 /\ k - 1 = q + j
    BY <1>1, <1>3
  <2>2. s * (k - 1) = s * q + s * j
    BY <1>1, <2>1
  <2>. HIDE DEF j
  <2>3. s * j \in Int /\ s * j >= s
    BY <2>1, Product
  <2>. QED
    BY <1>1, <1>2, <2>2, <2>3
<1>7. k = q + 1 \/ (k = 0 /\ q + 1 <= 0)
  BY <1>1, <1>3, <1>5, <1>6
<1>. QED
  BY <1>1, <1>7 DEF q

(* A term that is not past stop has its place in the progression.            *)
LEMMA PlaceOfTerm ==
  ASSUME NEW s \in Nat \ {0}, NEW d \in Int, NEW k \in Nat, s * k <= d
  PROVE  k + 1 \in 1 .. ((d \div s) + 1)
<1>. DEFINE q == d \div s
            r == d % s
<1>1. q \in Int /\ r \in 0 .. s - 1 /\ d = s * q + r
  BY Quotient
<1>. HIDE DEF q, r
<1>2. s * (q - k) = s * q - s * k /\ q - k \in Int /\ s * q \in Int /\ s * k \in Int
  BY <1>1, Product
<1>3. s * (q - k) > -s
  BY <1>1, <1>2
<1>4. q - k >= 0
  BY <1>2, <1>3, Product
<1>. QED
  BY <1>1, <1>2, <1>4 DEF q

RangeEntry(entry) ==
  /\ entry.kind = "range" /\ entry.step # 0
  /\ entry.start \in Int /\ entry.stop \in Int /\ entry.step \in Int

LEMMA Terms ==
  ASSUME NEW entry, RangeEntry(entry)
  PROVE  /\ Stride(entry) \in Nat \ {0} /\ Span(entry) \in Int
         /\ Progression(entry) =
              [i \in 1 .. ((Span(entry) \div Stride(entry)) + 1) |-> Term(entry, i)]
         /\ \A i \in Int : /\ Term(entry, i) \in Int
                           /\ Term(entry, i + 1) = Term(entry, i) + entry.step
                           /\ Within(entry, Term(entry, i + 1))
                                <=> Stride(entry) * i <= Span(entry)
<1>1. Stride(entry) \in Nat \ {0} /\ Span(entry) \in Int
  BY DEF RangeEntry, Stride, Span
<1>2. Progression(entry) =
        [i \in 1 .. ((Span(entry) \div Stride(entry)) + 1) |-> Term(entry, i)]
  <2>1. CASE entry.step > 0
    BY <2>1 DEF RangeEntry, Progression, Stride, Span, Term
  <2>2. CASE ~ (entry.step > 0)
    <3>1. (-1) * (entry.stop - entry.start) = entry.start - entry.stop
          /\ (-1) * entry.step = -entry.step
      BY DEF RangeEntry
    <3>2. Progression(entry) =
            [i \in 1 .. ((((-1) * (entry.stop - entry.start)) \div ((-1) * entry.step)) + 1)
               |-> Term(entry, i)]
      BY <2>2 DEF Progression, Term
    <3>. QED
      BY <2>2, <3>1, <3>2 DEF Stride, Span
  <2>. QED
    BY <2>1, <2>2
<1>3. ASSUME NEW i \in Int
      PROVE  /\ Term(entry, i) \in Int
             /\ Term(entry, i + 1) = Term(entry, i) + entry.step
             /\ Term(entry, i + 1) = entry.start + i * entry.step
  BY DEF Term, RangeEntry
<1>4. ASSUME NEW i \in Int
      PROVE  Within(entry, Term(entry, i + 1)) <=> Stride(entry) * i <= Span(entry)
  <2>. DEFINE p == i * entry.step
  <2>1. p \in Int /\ entry.start \in Int /\ entry.stop \in Int
    BY DEF RangeEntry
  <2>2. Stride(entry) * i = IF entry.step > 0 THEN p ELSE -p
    BY DEF Stride, RangeEntry
  <2>3. Term(entry, i + 1) = entry.start + p
    BY <1>3
  <2>. HIDE DEF p
  <2>. QED
    BY <2>1, <2>2, <2>3 DEF Within, Span
<1>. QED
  BY <1>1, <1>2, <1>3, <1>4

(* The rounded sum with a step of at least 1e-12 is half a step further.       *)
LEMMA AdvancesByHalf ==
  ASSUME NEW entry, RangeEntry(entry), ~ Finer(entry), NEW v \in Int, Exact(v),
         NEW e \in Errors
  PROVE  2 * Ahead(entry, Rounded(v + entry.step + e)) >= 2 * Ahead(entry, v) + Stride(entry)
<1>. DEFINE x == v + entry.step + e
            w == Rounded(x)
<1>1. /\ e \in Int /\ -Grain < 2 * e /\ 2 * e < Grain
      /\ entry.step \in Int /\ entry.start \in Int /\ x \in Int
  BY ErrorFacts DEF RangeEntry
<1>2. /\ w \in Int /\ Exact(w)
      /\ -Grain <= 2 * (w - x) /\ 2 * (w - x) <= Grain
  BY <1>1, RoundedNear
<1>3. x = v + entry.step + e
  OBVIOUS
<1>. HIDE DEF x, w
<1>4. w # v => w >= v + Grain \/ v >= w + Grain
  BY <1>2, Apart
<1>5. CASE entry.step > 0
  <2>1. entry.step >= Grain
    BY <1>1, <1>5 DEF Finer
  <2>2. 2 * (w - v) >= entry.step
    BY <1>1, <1>2, <1>3, <1>4, <2>1
  <2>. QED
    BY <1>1, <1>2, <1>5, <2>2 DEF Ahead, Stride, w, x
<1>6. CASE ~ (entry.step > 0)
  <2>1. -entry.step >= Grain
    BY <1>1, <1>6 DEF Finer
  <2>2. 2 * (v - w) >= -entry.step
    BY <1>1, <1>2, <1>3, <1>4, <2>1
  <2>. QED
    BY <1>1, <1>2, <1>6, <2>2 DEF Ahead, Stride, w, x
<1>. QED
  BY <1>5, <1>6

(* The first sum, rounded or not, and the second one if the first was not.     *)
LEMMA FirstSums ==
  ASSUME NEW entry, RangeEntry(entry), ~ Finer(entry), NEW d \in Errors, NEW e \in Errors
  PROVE  /\ 2 * Ahead(entry, Rounded(entry.start + entry.step + d)) >= 0
         /\ 2 * Ahead(entry, entry.start + entry.step + d) >= 0
         /\ 2 * Ahead(entry, Rounded(entry.start + entry.step + d + entry.step + e))
              >= Stride(entry)
<1>. DEFINE x == entry.start + entry.step + d
            y == entry.start + entry.step + d + entry.step + e
<1>1. /\ d \in Int /\ e \in Int /\ -Grain < 2 * d /\ 2 * d < Grain
      /\ -Grain < 2 * (d + e) /\ 2 * (d + e) < Grain
      /\ entry.step \in Int /\ entry.start \in Int /\ x \in Int /\ y \in Int
      /\ x = entry.start + entry.step + d
      /\ y = entry.start + 2 * entry.step + (d + e)
  BY ErrorFacts DEF RangeEntry
<1>2. /\ Rounded(x) \in Int /\ -Grain <= 2 * (Rounded(x) - x) /\ 2 * (Rounded(x) - x) <= Grain
      /\ Rounded(y) \in Int /\ -Grain <= 2 * (Rounded(y) - y) /\ 2 * (Rounded(y) - y) <= Grain
  BY <1>1, RoundedNear
<1>3. entry.step >= Grain \/ -entry.step >= Grain
  BY <1>1 DEF Finer
<1>. DEFINE u == Rounded(x)
            w == Rounded(y)
<1>4. u = Rounded(x) /\ w = Rounded(y)
  OBVIOUS
<1>. HIDE DEF x, y, u, w
<1>5. CASE entry.step > 0
  <2>1. 2 * (u - entry.start) >= 0 /\ 2 * (x - entry.start) >= 0
        /\ 2 * (w - entry.start) >= entry.step
    BY <1>1, <1>2, <1>3, <1>4, <1>5
  <2>. QED
    BY <1>5, <2>1 DEF Ahead, Stride, u, w, x, y
<1>6. CASE ~ (entry.step > 0)
  <2>1. 2 * (entry.start - u) >= 0 /\ 2 * (entry.start - x) >= 0
        /\ 2 * (entry.start - w) >= -entry.step
    BY <1>1, <1>2, <1>3, <1>4, <1>6
  <2>. QED
    BY <1>6, <2>1 DEF Ahead, Stride, u, w, x, y
<1>. QED
  BY <1>5, <1>6

(* A loop that goes on to the k-th term and no further has met them all.      *)
LEMMA ProgressionOf ==
  ASSUME NEW entry, RangeEntry(entry), NEW k \in Nat,
         k = 0 \/ Within(entry, Term(entry, k)), ~ Within(entry, Term(entry, k + 1))
  PROVE  Progression(entry) = [i \in 1 .. k |-> Term(entry, i)]
<1>. DEFINE s == Stride(entry)
            d == Span(entry)
<1>1. /\ s \in Nat \ {0} /\ d \in Int
      /\ Progression(entry) = [i \in 1 .. ((d \div s) + 1) |-> Term(entry, i)]
  BY Terms
<1>2. s * k > d
  <2>1. ~ (s * k <= d)
    BY Terms
  <2>. QED
    BY <1>1, <2>1
<1>3. k = 0 \/ s * (k - 1) <= d
  <2>. SUFFICES ASSUME k # 0 PROVE s * (k - 1) <= d
    OBVIOUS
  <2>1. Within(entry, Term(entry, (k - 1) + 1)) /\ k - 1 \in Int
    OBVIOUS
  <2>. QED
    BY <2>1, Terms
<1>. HIDE DEF s, d
<1>4. 1 .. ((d \div s) + 1) = 1 .. k
  BY <1>1, <1>2, <1>3, CountOfTerms
<1>. QED
  BY <1>1, <1>4

-----------------------------------------------------------------------------
(* Sequences.                                                               *)

LEMMA SequenceFacts ==
  ASSUME NEW s, Sequence(s)
  PROVE  /\ Len(s) \in Nat /\ DOMAIN s = 1 .. Len(s)
         /\ s = <<>> <=> Len(s) = 0
  BY DEF Sequence

LEMMA EmptySequence == Sequence(<<>>)
  BY DEF Sequence

LEMMA AppendTo ==
  ASSUME NEW s, Sequence(s), NEW e
  PROVE  /\ Sequence(Append(s, e))
         /\ Len(Append(s, e)) = Len(s) + 1
         /\ Append(s, e)[Len(s) + 1] = e
         /\ \A i \in 1 .. Len(s) : Append(s, e)[i] = s[i]
<1>. DEFINE R == Range(s) \cup {e}
<1>1. s \in Seq(R)
  <2>1. s \in Seq(Range(s)) /\ Range(s) \subseteq R
    BY DEF Sequence
  <2>. HIDE DEF R
  <2>. QED
    BY <2>1
<1>. e \in R
  OBVIOUS
<1>. HIDE DEF R
<1>2. /\ Append(s, e) \in Seq(R) /\ Len(Append(s, e)) = Len(s) + 1
      /\ Append(s, e)[Len(s) + 1] = e
      /\ \A i \in 1 .. Len(s) : Append(s, e)[i] = s[i]
  BY <1>1
<1>3. \A t \in Seq(R) : t \in Seq(Range(t))
  BY DEF Range
<1>. QED
  BY <1>2, <1>3 DEF Sequence

LEMMA GridFacts ==
  ASSUME GridInv
  PROVE  /\ Sequence(grid) /\ Sequence(lists) /\ Sequence(values)
         /\ DOMAIN grid = 1 .. Len(grid) /\ Len(grid) \in Nat
         /\ DOMAIN lists = 1 .. Len(lists) /\ Len(lists) \in Nat
         /\ DOMAIN values = 1 .. Len(values) /\ Len(values) \in Nat
         /\ Axis = Len(lists) + 1 /\ MaxValues \in Nat
<1>1. Sequence(grid)
  BY GridsAssumption DEF GridInv, ShapeInv, Sequence
<1>. QED
  BY <1>1, SequenceFacts, BoundsAssumption DEF GridInv, ShapeInv, RangeInv, Axis

LEMMA EntryOfRange ==
  ASSUME GridInv, Axis \in DOMAIN grid, Entry.kind = "range", Entry.step # 0
  PROVE  /\ RangeEntry(Entry) /\ Entry.float \in {"none", "start", "step"}
         /\ Meaning(Entry) = Progression(Entry)
<1>1. /\ {Entry.start, Entry.stop, Entry.step} \subseteq Int
      /\ Entry.float \in {"none", "start", "step"}
  BY GridsAssumption DEF GridInv, ShapeInv, Entry
<1>. QED
  BY <1>1 DEF RangeEntry, Meaning

-----------------------------------------------------------------------------
(* The expansion.                                                           *)

LEMMA InitGridInv == Init => GridInv
<1>. SUFFICES ASSUME Init PROVE GridInv
  OBVIOUS
<1>1. Sequence(grid)
  BY GridsAssumption DEF Init, Sequence
<1>2. ShapeInv
  BY <1>1, SequenceFacts, EmptySequence DEF Init, ShapeInv, Passes
<1>3. RangeInv /\ EndInv /\ AxesExact /\ RefusedJustly /\ RangesEnd
  BY EmptySequence DEF Init, RangeInv, EndInv, AxesExact, RefusedJustly, RangesEnd
<1>. QED
  BY <1>2, <1>3 DEF GridInv

(* An axis is done with, or refused: _expand_value_spec returns or raises.    *)
LEMMA ExpandStays ==
  ASSUME GridInv, NEW list, Expand(list), pass \in Passes, Axis \in DOMAIN grid,
         Regular(Entry) => list = Meaning(Entry),
         NeverAdvances(Entry) => list = <<>>
  PROVE  GridInv'
<1>0. /\ UNCHANGED <<grid, error>> /\ in_range' = FALSE /\ values' = <<>>
      /\ grid \in Grids /\ error \in [1 .. MaxValues -> Errors]
      /\ Axis \in 1 .. Len(grid) /\ pass \notin {"raised", "killed", "done"}
  BY GridFacts DEF Expand, GridInv, ShapeInv, Passes
<1>1. RangeInv'
  BY <1>0, EmptySequence DEF RangeInv
<1>2. CASE list = <<>>
  <2>1. pass' = "raised" /\ UNCHANGED lists
    BY <1>2 DEF Expand
  <2>2. RefusedJustly'
    BY <1>0, <1>2, <2>1 DEF RefusedJustly, RegularGrid, Entry, Axis
  <2>3. ShapeInv' /\ EndInv' /\ AxesExact' /\ RangesEnd'
    BY <1>0, <2>1 DEF ShapeInv, EndInv, AxesExact, RangesEnd, GridInv
  <2>. QED
    BY <1>1, <2>2, <2>3 DEF GridInv
<1>3. CASE list # <<>>
  <2>1. lists' = Append(lists, list) /\ UNCHANGED pass
    BY <1>3 DEF Expand
  <2>2. /\ Sequence(lists') /\ Len(lists') = Axis /\ lists'[Axis] = list
        /\ \A a \in 1 .. Len(lists) : lists'[a] = lists[a]
    BY <2>1, GridFacts, AppendTo
  <2>3. DOMAIN lists' = 1 .. Len(lists) \cup {Axis}
    BY <2>2, SequenceFacts, GridFacts
  <2>4. ShapeInv'
    BY <1>0, <1>3, <2>1, <2>2, <2>3, GridFacts DEF ShapeInv, GridInv
  <2>5. AxesExact'
    BY <1>0, <2>2, <2>3, GridFacts DEF AxesExact, GridInv, Entry
  <2>6. EndInv' /\ RefusedJustly'
    BY <1>0, <2>1 DEF EndInv, RefusedJustly
  <2>7. RangesEnd'
    <3>1. pass' # "killed"
      BY <1>0, <2>1
    <3>2. \A a \in DOMAIN lists' : ~ NeverAdvances(grid[a])
      BY <1>3, <2>3, GridFacts DEF RangesEnd, GridInv, Entry
    <3>. QED
      BY <1>0, <3>1, <3>2 DEF RangesEnd
  <2>. QED
    BY <1>1, <2>4, <2>5, <2>6, <2>7 DEF GridInv
<1>. QED
  BY <1>2, <1>3

LEMMA StartRangeStays ==
  ASSUME GridInv, StartRange
  PROVE  GridInv'
<1>1. /\ UNCHANGED <<grid, error, pass, lists, values, children_total, children>>
      /\ in_range' = TRUE /\ ~ in_range /\ pass \in Passes
      /\ value' = Entry.start /\ is_float' = (Entry.float = "start")
      /\ Axis <= Len(grid) /\ Entry.kind = "range" /\ Entry.step # 0
  BY DEF StartRange, At
<1>2. Axis' = Axis /\ Entry' = Entry /\ Axis \in DOMAIN grid
  BY <1>1, GridFacts DEF Axis, Entry
<1>3. values = <<>> /\ Len(values) = 0
  BY <1>1 DEF GridInv, RangeInv
<1>4. Regular(Entry) => Exactly(Entry)'
  <2>. SUFFICES ASSUME Regular(Entry) PROVE Exactly(Entry)'
    OBVIOUS
  <2>1. RangeEntry(Entry)
    BY <1>1, <1>2, EntryOfRange
  <2>2. Term(Entry, 1) = Entry.start
    BY <2>1 DEF Term, RangeEntry
  <2>3. Entry.float # "none" => is_float' /\ Exact(value')
    BY <1>1 DEF Regular
  <2>. HIDE DEF Entry
  <2>4. values' = [i \in 1 .. Len(values') |-> Term(Entry, i)]
    BY <1>1, <1>3
  <2>. QED
    BY <1>1, <1>2, <1>3, <2>2, <2>3, <2>4 DEF Exactly
<1>5. Entry.float # "none" => Advanced(Entry, Len(values))'
  <2>. SUFFICES ASSUME Entry.float # "none" PROVE Advanced(Entry, Len(values))'
    BY <1>2
  <2>1. RangeEntry(Entry)
    BY <1>1, <1>2, EntryOfRange
  <2>2. 2 * Ahead(Entry, Entry.start) >= (0 - 1) * Stride(Entry)
    BY <2>1 DEF Ahead, Stride, RangeEntry
  <2>. HIDE DEF Entry
  <2>3. value' = Entry.start /\ Entry.start \in Int /\ Len(values)' = 0
        /\ (is_float' <=> Entry.float = "start")
    BY <1>1, <1>3, <2>1 DEF RangeEntry
  <2>. QED
    BY <1>2, <2>2, <2>3 DEF Advanced
<1>6. RangeInv'
  BY <1>1, <1>2, <1>3, <1>4, <1>5, GridFacts DEF RangeInv
<1>. QED
  BY <1>1, <1>6 DEF GridInv, ShapeInv, EndInv, AxesExact, RefusedJustly, RangesEnd,
     Passes, RegularGrid

LEMMA RangeValueAdvances ==
  ASSUME GridInv, RangeValue, Entry.float # "none"
  PROVE  Advanced(Entry, Len(values))'
<1>. DEFINE n == Len(values)
            e == error[n + 1]
<1>1. /\ UNCHANGED <<grid, error, lists>>
      /\ in_range /\ n < MaxValues
      /\ values' = Append(values, value)
      /\ value' = NextValue(value, Entry, is_float, error[Len(values')])
      /\ is_float' = TRUE
  BY DEF RangeValue
<1>2. Entry' = Entry
  BY <1>1 DEF Entry, Axis
<1>3. /\ Axis \in DOMAIN grid /\ Entry.kind = "range" /\ Entry.step # 0
      /\ Sequence(values) /\ n \in Nat /\ MaxValues \in Nat
      /\ Advanced(Entry, n) /\ error \in [1 .. MaxValues -> Errors]
  BY <1>1, GridFacts DEF GridInv, RangeInv, ShapeInv
<1>4. RangeEntry(Entry) /\ Entry.float \in {"start", "step"}
  BY <1>3, EntryOfRange
<1>5. Len(values') = n + 1
  BY <1>1, <1>3, AppendTo
<1>6. /\ n >= 1 => error[1] \in Errors
      /\ e \in Errors /\ e \in Int
  <2>1. n + 1 \in 1 .. MaxValues /\ (n >= 1 => 1 \in 1 .. MaxValues)
    BY <1>1, <1>3
  <2>2. e \in Errors /\ (n >= 1 => error[1] \in Errors)
    BY <1>3, <2>1
  <2>. QED
    BY <2>2, ErrorFacts
<1>7. value' = IF is_float THEN Rounded(value + Entry.step + e) ELSE value + Entry.step + e
  BY <1>1, <1>4, <1>5 DEF NextValue
<1>. DEFINE v == value
            w == value'
<1>. HIDE DEF Entry, n, e
<1>8. /\ Entry.step \in Int /\ Entry.start \in Int /\ v \in Int
      /\ v + Entry.step + e \in Int
  BY <1>3, <1>4, <1>6 DEF RangeEntry, Advanced
<1>9. /\ w \in Int
      /\ (n + 1 >= 2 \/ Entry.float = "start") => Exact(w)
  <2>1. (n + 1 >= 2 \/ Entry.float = "start") => is_float
    BY <1>3 DEF Advanced
  <2>. QED
    BY <1>7, <1>8, <2>1, RoundedNear
<1>10. (n + 1 = 1 /\ Entry.float = "step") => w = Entry.start + Entry.step + e
  BY <1>3, <1>7 DEF Advanced
<1>11. ~ Finer(Entry) => 2 * Ahead(Entry, w) >= n * Stride(Entry)
  <2>. SUFFICES ASSUME ~ Finer(Entry) PROVE 2 * Ahead(Entry, w) >= n * Stride(Entry)
    OBVIOUS
  <2>0. Stride(Entry) \in Int /\ 0 * Stride(Entry) = 0 /\ 1 * Stride(Entry) = Stride(Entry)
    BY <1>8 DEF Stride
  <2>1. CASE n = 0
    <3>1. w \in {Rounded(Entry.start + Entry.step + e), Entry.start + Entry.step + e}
      BY <1>3, <1>7, <2>1 DEF Advanced
    <3>. QED
      BY <1>4, <1>6, <2>0, <2>1, <3>1, FirstSums
  <2>2. CASE n = 1 /\ Entry.float = "step"
    <3>1. w = Rounded(Entry.start + Entry.step + error[1] + Entry.step + e)
          /\ error[1] \in Errors
      BY <1>3, <1>6, <1>7, <2>2 DEF Advanced
    <3>. QED
      BY <1>4, <1>6, <2>0, <2>2, <3>1, FirstSums
  <2>3. CASE n >= 1 /\ ~ (n = 1 /\ Entry.float = "step")
    <3>1. is_float /\ Exact(v) /\ 2 * Ahead(Entry, v) >= (n - 1) * Stride(Entry)
      BY <1>3, <1>4, <2>3 DEF Advanced
    <3>2. 2 * Ahead(Entry, w) >= 2 * Ahead(Entry, v) + Stride(Entry)
      BY <1>4, <1>6, <1>7, <1>8, <3>1, AdvancesByHalf
    <3>3. /\ Ahead(Entry, v) \in Int /\ Ahead(Entry, w) \in Int
      BY <1>8, <1>9 DEF Ahead
    <3>4. /\ n * Stride(Entry) = (n - 1) * Stride(Entry) + Stride(Entry)
          /\ (n - 1) * Stride(Entry) \in Int
      <4>1. \A s \in Int, m \in Nat : m * s = (m - 1) * s + s /\ (m - 1) * s \in Int
        OBVIOUS
      <4>. QED
        BY <1>3, <2>0, <4>1
    <3>. QED
      BY <2>0, <3>1, <3>2, <3>3, <3>4
  <2>. QED
    BY <1>3, <1>4, <2>1, <2>2, <2>3
<1>12. NeverAdvances(Entry) => w = Entry.start
  <2>. SUFFICES ASSUME NeverAdvances(Entry) PROVE w = Entry.start
    OBVIOUS
  <2>1. v = Entry.start /\ is_float /\ Exact(Entry.start)
    BY <1>3 DEF Advanced, NeverAdvances
  <2>. DEFINE d == Entry.step + e
  <2>2. d \in Int /\ -Grain < 2 * d /\ 2 * d < Grain /\ v + Entry.step + e = v + d
    BY <1>6, <1>8 DEF NeverAdvances
  <2>. HIDE DEF d
  <2>3. Rounded(v + d) = v
    BY <1>8, <2>1, <2>2, RoundedExactly
  <2>. QED
    BY <1>7, <2>1, <2>2, <2>3
<1>13. /\ n + 1 # 0 /\ (n + 1) - 1 = n
       /\ (n + 1 = 1 => error[1] = e) /\ (is_float' <=> (n + 1 >= 1 \/ Entry.float = "start"))
  BY <1>1, <1>3 DEF e
<1>. QED
  BY <1>1, <1>2, <1>5, <1>9, <1>10, <1>11, <1>12, <1>13 DEF Advanced

LEMMA RangeValueStays ==
  ASSUME GridInv, RangeValue
  PROVE  GridInv'
<1>1. /\ UNCHANGED <<grid, error, pass, lists, in_range>>
      /\ in_range /\ Within(Entry, value) /\ Len(values) < MaxValues
      /\ values' = Append(values, value)
      /\ value' = NextValue(value, Entry, is_float, error[Len(values')])
      /\ is_float' = (Entry.float # "none")
  BY DEF RangeValue
<1>2. Axis' = Axis /\ Entry' = Entry
  BY <1>1 DEF Axis, Entry
<1>3. /\ Axis \in DOMAIN grid /\ Entry.kind = "range" /\ Entry.step # 0
      /\ Sequence(values) /\ Len(values) \in Nat
  BY <1>1, GridFacts DEF GridInv, RangeInv
<1>4. /\ Sequence(values') /\ Len(values') = Len(values) + 1
      /\ values'[Len(values) + 1] = value
      /\ \A i \in 1 .. Len(values) : values'[i] = values[i]
  BY <1>1, <1>3, AppendTo
<1>5. Regular(Entry) => Exactly(Entry)'
  <2>. SUFFICES ASSUME Regular(Entry) PROVE Exactly(Entry)'
    OBVIOUS
  <2>0. RangeEntry(Entry) /\ Entry.float \in {"none", "start", "step"}
    BY <1>3, EntryOfRange
  <2>1. Exactly(Entry)
    BY <1>1 DEF GridInv, RangeInv
  <2>. DEFINE n == Len(values)
  <2>2. /\ n \in Nat /\ value = Term(Entry, n + 1) /\ value \in Int
        /\ Term(Entry, (n + 1) + 1) = value + Entry.step
    <3>1. n \in Nat /\ n + 1 \in Int /\ value = Term(Entry, n + 1)
      BY <1>3, <2>1 DEF Exactly
    <3>2. Term(Entry, n + 1) \in Int
          /\ Term(Entry, (n + 1) + 1) = Term(Entry, n + 1) + Entry.step
      BY <2>0, <3>1, Terms
    <3>. QED
      BY <3>1, <3>2
  <2>3. error[Len(values')] \in Errors
    BY <1>1, <1>3, <1>4, GridFacts DEF GridInv, ShapeInv
  <2>4. /\ value' = value + Entry.step
        /\ Entry.float # "none" => is_float' /\ Exact(value')
    <3>1. CASE Entry.float = "none"
      BY <1>1, <3>1 DEF NextValue
    <3>2. CASE Entry.float # "none"
      <4>1. is_float /\ Exact(value) /\ Exact(Entry.step) /\ Entry.step \in Int
        BY <1>3, <2>0, <2>1, <3>2 DEF Exactly, Regular, RangeEntry
      <4>2. Exact(value + Entry.step) /\ value + Entry.step \in Int
        <5>1. \A x, y \in Int : Exact(x) /\ Exact(y) => Exact(x + y) /\ x + y \in Int
          BY ONLY SumExact
        <5>. QED
          BY ONLY <2>2, <4>1, <5>1
      <4>3. value' = Rounded(value + Entry.step + error[Len(values')])
        BY <1>1, <3>2, <4>1 DEF NextValue
      <4>. QED
        BY <1>1, <2>3, <3>2, <4>2, <4>3, RoundedExactly
    <3>. QED
      BY <3>1, <3>2
  <2>. HIDE DEF Entry
  <2>5. values' = [i \in 1 .. Len(values') |-> Term(Entry, i)]
    <3>1. \A i \in 1 .. n + 1 : values'[i] = Term(Entry, i)
      <4>1. \A i \in 1 .. n : values[i] = Term(Entry, i)
        BY <2>1 DEF Exactly
      <4>2. \A i \in 1 .. n + 1 : i \in 1 .. n \/ i = n + 1
        BY <2>2
      <4>. QED
        BY <1>4, <2>2, <4>1, <4>2
    <3>2. values' = [i \in 1 .. Len(values') |-> values'[i]]
      BY <1>4 DEF Sequence
    <3>. QED
      BY <1>4, <3>1, <3>2
  <2>. QED
    BY <1>1, <1>2, <1>4, <2>2, <2>4, <2>5 DEF Exactly
<1>6. pass # "killed"
  BY <1>1, GridFacts DEF GridInv, EndInv
<1>7. Entry.float # "none" => Advanced(Entry, Len(values))'
  BY RangeValueAdvances
<1>8. RangeInv'
  BY <1>1, <1>2, <1>3, <1>4, <1>5, <1>7, GridFacts DEF RangeInv, GridInv
<1>. QED
  BY <1>1, <1>6, <1>8 DEF GridInv, ShapeInv, EndInv, AxesExact, RefusedJustly,
     RangesEnd, RegularGrid

(* When the loop ends it has collected the whole progression.                *)
LEMMA EndRangeExact ==
  ASSUME GridInv, in_range, ~ Within(Entry, value), Regular(Entry)
  PROVE  values = Meaning(Entry)
<1>1. /\ Axis \in DOMAIN grid /\ Entry.kind = "range" /\ Entry.step # 0
      /\ Exactly(Entry) /\ Len(values) \in Nat
  BY GridFacts DEF GridInv, RangeInv
<1>2. RangeEntry(Entry) /\ Meaning(Entry) = Progression(Entry)
  BY <1>1, EntryOfRange
<1>3. ~ Within(Entry, Term(Entry, Len(values) + 1))
  BY <1>1 DEF Exactly
<1>4. Len(values) = 0 \/ Within(Entry, Term(Entry, Len(values)))
  BY <1>1 DEF Exactly
<1>. QED
  BY <1>1, <1>2, <1>3, <1>4, ProgressionOf DEF Exactly

(* A range that never advances does not end.                                 *)
LEMMA EndRangeAdvances ==
  ASSUME GridInv, in_range, ~ Within(Entry, value)
  PROVE  ~ NeverAdvances(Entry)
<1>1. Entry.float # "none" => Advanced(Entry, Len(values))
  BY DEF GridInv, RangeInv
<1>. QED
  BY <1>1 DEF Advanced, NeverAdvances

(* What has been collected in the time limit: at least half of what a coarse   *)
(* range means.                                                             *)
LEMMA HalfOfTheTerms ==
  ASSUME NEW entry, RangeEntry(entry), NEW v \in Int, Within(entry, v), NEW n \in Nat,
         2 * Ahead(entry, v) >= (n - 1) * Stride(entry)
  PROVE  2 * Len(Progression(entry)) >= n
<1>. DEFINE s == Stride(entry)
            d == Span(entry)
            q == d \div s
            r == d % s
<1>1. /\ s \in Nat \ {0} /\ d \in Int
      /\ Progression(entry) = [i \in 1 .. (q + 1) |-> Term(entry, i)]
  BY Terms
<1>2. Ahead(entry, v) <= d /\ Ahead(entry, v) \in Int
  BY DEF RangeEntry, Within, Ahead, Span
<1>3. 2 * Ahead(entry, v) >= (n - 1) * s
  OBVIOUS
<1>4. q \in Int /\ r \in 0 .. s - 1 /\ d = s * q + r
  BY <1>1, Quotient
<1>. HIDE DEF s, d, q, r
<1>5. q + 1 >= 0 => Len(Progression(entry)) = q + 1
  BY <1>1, <1>4
<1>6. q + 1 < 0 => Len(Progression(entry)) = 0
  <2>. SUFFICES ASSUME q + 1 < 0 PROVE Len(Progression(entry)) = 0
    OBVIOUS
  <2>1. 1 .. (q + 1) = {}
    BY <1>4
  <2>2. Progression(entry) = <<>>
    BY <1>1, <2>1
  <2>. QED
    BY <2>2
<1>7. /\ s * q \in Int /\ s * (q + 1) = s * q + s /\ (n - 1) * s \in Int
  BY <1>1, <1>4
<1>8. 2 * (s * (q + 1)) > (n - 1) * s
  BY <1>1, <1>2, <1>3, <1>4, <1>7
<1>9. s * (2 * (q + 1) - (n - 1)) > 0
  BY <1>1, <1>4, <1>7, <1>8
<1>10. 2 * (q + 1) - (n - 1) >= 1
  <2>. DEFINE k == 2 * (q + 1) - (n - 1)
  <2>1. k \in Int /\ s * k > 0
    BY <1>4, <1>9
  <2>. HIDE DEF k
  <2>2. k <= -1 => s * k <= -s
    BY <1>1, <2>1, Product
  <2>3. k = 0 => s * k = 0
    BY <1>1
  <2>4. k >= 1
    BY <1>1, <2>1, <2>2, <2>3
  <2>. QED
    BY <2>4 DEF k
<1>11. 2 * (q + 1) >= n
  BY <1>4, <1>10
<1>. QED
  BY <1>4, <1>5, <1>6, <1>11

LEMMA TimeLimitStays ==
  ASSUME GridInv, TimeLimit
  PROVE  GridInv'
<1>1. /\ UNCHANGED <<grid, error, lists, in_range, value, is_float, values>>
      /\ in_range /\ Within(Entry, value) /\ Len(values) = MaxValues
      /\ pass' = "killed"
  BY DEF TimeLimit, rangeVars
<1>2. /\ Axis \in DOMAIN grid /\ Entry.kind = "range" /\ Entry.step # 0
      /\ Regular(Entry) => Exactly(Entry)
      /\ Len(values) \in Nat
  BY <1>1, GridFacts DEF GridInv, RangeInv
<1>3. Axis' = Axis /\ Entry' = Entry
  BY <1>1 DEF Axis, Entry
<1>4. Regular(Entry) => Len(Meaning(Entry)) > MaxValues
  <2>. SUFFICES ASSUME Regular(Entry) PROVE Len(Meaning(Entry)) > MaxValues
    OBVIOUS
  <2>1. RangeEntry(Entry) /\ Meaning(Entry) = Progression(Entry)
    BY <1>2, EntryOfRange
  <2>. DEFINE s == Stride(Entry)
              d == Span(Entry)
              q == d \div s
  <2>2. /\ s \in Nat \ {0} /\ d \in Int
        /\ Progression(Entry) = [i \in 1 .. (q + 1) |-> Term(Entry, i)]
    BY <2>1, Terms
  <2>3. s * Len(values) <= d
    BY <1>1, <1>2, <2>1, Terms DEF Exactly
  <2>. HIDE DEF s, d
  <2>4. Len(values) + 1 \in 1 .. (q + 1)
    BY <1>2, <2>2, <2>3, PlaceOfTerm
  <2>5. q \in Int
    BY <2>2, Quotient
  <2>. HIDE DEF q, Entry
  <2>6. Len(Progression(Entry)) = q + 1
    BY <1>2, <2>2, <2>4, <2>5
  <2>. QED
    BY <1>1, <1>2, <2>1, <2>4, <2>5, <2>6
<1>5. ~ Regular(Entry) => Finer(Entry) \/ 2 * Len(Meaning(Entry)) >= MaxValues
  <2>. SUFFICES ASSUME ~ Regular(Entry), ~ Finer(Entry)
                PROVE  2 * Len(Meaning(Entry)) >= MaxValues
    OBVIOUS
  <2>1. RangeEntry(Entry) /\ Meaning(Entry) = Progression(Entry)
    BY <1>2, EntryOfRange
  <2>2. Advanced(Entry, Len(values))
    BY <1>1 DEF Regular, GridInv, RangeInv
  <2>. HIDE DEF Entry
  <2>. QED
    BY <1>1, <1>2, <2>1, <2>2, HalfOfTheTerms DEF Advanced
<1>6. RangesEnd'
  <2>1. \A a \in DOMAIN lists : ~ NeverAdvances(grid[a])
    BY DEF GridInv, RangesEnd
  <2>2. \/ Len(Meaning(Entry)) > MaxValues
        \/ ~ Regular(Entry) /\ (Finer(Entry) \/ 2 * Len(Meaning(Entry)) >= MaxValues)
    BY <1>4, <1>5
  <2>. HIDE DEF Entry
  <2>. QED
    BY <1>1, <1>3, <2>1, <2>2 DEF RangesEnd
<1>7. RangeInv'
  BY <1>1, <1>2, <1>3 DEF RangeInv, GridInv, Exactly, Advanced
<1>8. EndInv' /\ RefusedJustly'
  BY <1>1, <1>3 DEF EndInv, RefusedJustly
<1>. QED
  BY <1>1, <1>6, <1>7, <1>8 DEF GridInv, ShapeInv, AxesExact

LEMMA NextGridInv == GridInv /\ [Next]_vars => GridInv'
<1>. SUFFICES ASSUME GridInv, [Next]_vars PROVE GridInv'
  OBVIOUS
<1>1. CASE UNCHANGED vars
  BY <1>1 DEF vars, rangeVars, GridInv, ShapeInv, RangeInv, EndInv, AxesExact,
     RefusedJustly, RangesEnd, RegularGrid, Entry, Axis, Exactly, Advanced
<1>2. CASE ExpandList
  <2>1. /\ Expand(Entry.values) /\ pass \in Passes /\ Axis \in DOMAIN grid
        /\ Entry.kind = "list"
    BY <1>2, GridFacts DEF ExpandList, At
  <2>2. Meaning(Entry) = Entry.values /\ ~ NeverAdvances(Entry)
    BY <2>1 DEF Meaning, NeverAdvances
  <2>. QED
    BY <2>1, <2>2, ExpandStays
<1>3. CASE ExpandScalar
  <2>1. /\ Expand(<<Entry.value>>) /\ pass \in Passes /\ Axis \in DOMAIN grid
        /\ Entry.kind = "scalar"
    BY <1>3, GridFacts DEF ExpandScalar, At
  <2>2. Meaning(Entry) = <<Entry.value>> /\ ~ NeverAdvances(Entry)
    BY <2>1 DEF Meaning, NeverAdvances
  <2>. QED
    BY <2>1, <2>2, ExpandStays
<1>4. CASE RangeRefused
  <2>1. /\ Expand(<<>>) /\ pass \in Passes /\ Axis \in DOMAIN grid
        /\ Entry.kind = "incomplete" \/ (Entry.kind = "range" /\ Entry.step = 0)
    BY <1>4, GridFacts DEF RangeRefused, At
  <2>2. Meaning(Entry) = <<>>
    BY <2>1 DEF Meaning
  <2>. QED
    BY <2>1, <2>2, ExpandStays
<1>5. CASE EndRange
  <2>1. Expand(values) /\ in_range /\ ~ Within(Entry, value) /\ Axis \in DOMAIN grid
    BY <1>5 DEF EndRange, GridInv, RangeInv
  <2>2. pass \in Passes
    BY <2>1 DEF GridInv, RangeInv, EndInv
  <2>. QED
    BY <2>1, <2>2, EndRangeExact, EndRangeAdvances, ExpandStays
<1>6. CASE CountChildren
  <2>1. /\ UNCHANGED <<grid, error, in_range, value, is_float, values>>
        /\ pass' = "combos" /\ lists' = <<>> /\ Axis > Len(grid)
    BY <1>6 DEF CountChildren, Expanded, rangeVars
  <2>2. ~ in_range /\ values = <<>>
    BY <2>1, GridFacts DEF GridInv, RangeInv
  <2>3. ShapeInv'
    BY <2>1, EmptySequence, GridFacts DEF GridInv, ShapeInv, Passes
  <2>. QED
    BY <2>1, <2>2, <2>3, EmptySequence DEF GridInv, RangeInv, EndInv, AxesExact,
       RefusedJustly, RangesEnd
<1>7. CASE CreateChildren
  <2>1. /\ UNCHANGED <<grid, error, lists, in_range, value, is_float, values>>
        /\ pass' = "done" /\ Axis > Len(grid)
    BY <1>7 DEF CreateChildren, Expanded, rangeVars
  <2>2. ~ in_range /\ values = <<>> /\ Len(lists) = Len(grid)
        /\ DOMAIN lists = DOMAIN grid
    BY <2>1, GridFacts DEF GridInv, RangeInv, ShapeInv
  <2>3. RefusedJustly'
    BY <2>1, <2>2 DEF GridInv, ShapeInv, RefusedJustly, RegularGrid, AxesExact
  <2>4. EndInv' /\ RangeInv' /\ RangesEnd'
    BY <2>1, <2>2, EmptySequence DEF EndInv, RangeInv, RangesEnd, GridInv
  <2>. QED
    BY <2>1, <2>3, <2>4 DEF GridInv, ShapeInv, AxesExact
<1>. QED
  BY <1>1, <1>2, <1>3, <1>4, <1>5, <1>6, <1>7, StartRangeStays, RangeValueStays,
     TimeLimitStays DEF Next

-----------------------------------------------------------------------------
(* Folds.                                                                   *)

(* Induction up to N.                                                       *)
LEMMA UpTo ==
  ASSUME NEW N \in Nat, NEW T, 0 \in T, \A n \in 0 .. N - 1 : n \in T => n + 1 \in T
  PROVE  0 .. N \subseteq T
<1>. DEFINE Bad  == 0 .. N \ T
            Less == {p \in Nat \X Nat : p[1] < p[2]}
<1>. SUFFICES ASSUME Bad # {} PROVE FALSE
  OBVIOUS
<1>1. IsWellFoundedOn(Less, Nat)
  BY NatLessThanWellFounded DEF OpToRel
<1>2. PICK n \in Bad : \A m \in Bad : ~ (<<m, n>> \in Less)
  <2>1. Bad \subseteq Nat
    OBVIOUS
  <2>. HIDE DEF Bad, Less
  <2>. QED
    BY <1>1, <2>1, WFMin
<1>3. n # 0 /\ n - 1 \in 0 .. N - 1 /\ n - 1 < n /\ n \in Nat /\ n - 1 \in Nat
  OBVIOUS
<1>4. n - 1 \in T
  <2>1. n - 1 \notin Bad
    <3>. SUFFICES ASSUME n - 1 \in Bad PROVE FALSE
      OBVIOUS
    <3>1. <<n - 1, n>> \in Less
      BY <1>3
    <3>. QED
      BY <1>2, <3>1
  <2>. QED
    BY <1>3, <2>1
<1>. QED
  BY <1>3, <1>4

LEMMA MaxOf ==
  ASSUME NEW n \in Nat, NEW s \in SUBSET (1 .. n)
  PROVE  /\ s # {} => Max(s) \in s
         /\ n \in s => Max(s) = n
<1>1. ASSUME NEW m \in s, \A i \in s : m >= i PROVE Max(s) = m
  <2>1. Max(s) \in s /\ \A i \in s : Max(s) >= i
    BY <1>1 DEF Max
  <2>2. Max(s) \in 1 .. n /\ m \in 1 .. n /\ Max(s) >= m /\ m >= Max(s)
    BY <1>1, <2>1
  <2>. QED
    BY <2>2
<1>2. n \in s => Max(s) = n
  BY <1>1
<1>3. ASSUME s # {} PROVE Max(s) \in s
  <2>. DEFINE T == {k \in 0 .. n : (\E i \in s : i >= n - k) => \E m \in s : \A i \in s : m >= i}
  <2>1. 0 \in T
    OBVIOUS
  <2>2. ASSUME NEW k \in 0 .. n - 1, k \in T PROVE k + 1 \in T
    <3>. SUFFICES ASSUME NEW i \in s, i >= n - (k + 1), \A j \in s : ~ (j >= n - k)
                  PROVE \E m \in s : \A j \in s : m >= j
      BY <2>2
    <3>. WITNESS i \in s
    <3>. QED
      OBVIOUS
  <2>. HIDE DEF T
  <2>3. n \in T
    BY <2>1, <2>2, UpTo
  <2>4. PICK i \in s : i \in 1 .. n
    BY <1>3
  <2>5. \E m \in s : \A j \in s : m >= j
    BY <2>3, <2>4 DEF T
  <2>. QED
    BY <1>1, <2>5
<1>. QED
  BY <1>2, <1>3

LEMMA Intervals ==
  ASSUME NEW n \in Nat, NEW i \in 1 .. n
  PROVE  /\ Max(1 .. i) = i
         /\ 1 .. i \in SUBSET (1 .. n) /\ 1 .. i # {}
         /\ (1 .. i) \ {i} = 1 .. (i - 1) /\ 1 .. (i - 1) \in SUBSET (1 .. n)
<1>1. Max(1 .. i) = i
  BY MaxOf
<1>. QED
  BY <1>1

(* g folds the numbers up to n, the greatest one last.                      *)
Folds(g, n, base, step) ==
  \A s \in SUBSET (1 .. n) :
    g[s] = IF s = {} THEN base ELSE step[<<Max(s), g[s \ {Max(s)}]>>]

(* A fold's function exists: its CHOOSE has something to choose.             *)
LEMMA FoldExists ==
  ASSUME NEW N \in Nat, NEW V, NEW base \in V, NEW step \in [(1 .. N) \X V -> V]
  PROVE  \E g \in [SUBSET (1 .. N) -> V] : Folds(g, N, base, step)
<1>. DEFINE Exists(n) == \E g \in [SUBSET (1 .. n) -> V] : Folds(g, n, base, step)
            T == {n \in 0 .. N : Exists(n)}
<1>1. 0 \in T
  <2>. DEFINE g == [s \in SUBSET (1 .. 0) |-> base]
  <2>1. SUBSET (1 .. 0) = {{}}
    OBVIOUS
  <2>2. g \in [SUBSET (1 .. 0) -> V] /\ Folds(g, 0, base, step)
    BY <2>1 DEF Folds
  <2>. HIDE DEF g
  <2>3. (\E g0 \in [SUBSET (1 .. 0) -> V] : Folds(g0, 0, base, step)) /\ 0 \in 0 .. N
    BY <2>2
  <2>. QED
    BY <2>3, Zenon
<1>2. ASSUME NEW n \in 0 .. N - 1, n \in T PROVE n + 1 \in T
  <2>. PICK g \in [SUBSET (1 .. n) -> V] : Folds(g, n, base, step)
    BY <1>2
  <2>. DEFINE h == [s \in SUBSET (1 .. n + 1) |->
                      IF n + 1 \in s THEN step[<<n + 1, g[s \ {n + 1}]>>] ELSE g[s]]
  <2>1. \A s \in SUBSET (1 .. n + 1) : s \ {n + 1} \in SUBSET (1 .. n)
    OBVIOUS
  <2>2. h \in [SUBSET (1 .. n + 1) -> V]
    BY <2>1
  <2>3. Folds(h, n + 1, base, step)
    <3>. SUFFICES ASSUME NEW s \in SUBSET (1 .. n + 1)
                  PROVE h[s] = IF s = {} THEN base ELSE step[<<Max(s), h[s \ {Max(s)}]>>]
      BY DEF Folds
    <3>1. CASE n + 1 \in s
      <4>1. Max(s) = n + 1 /\ s # {}
        BY <3>1, MaxOf
      <4>2. h[s \ {n + 1}] = g[s \ {n + 1}] /\ h[s] = step[<<n + 1, g[s \ {n + 1}]>>]
        BY <3>1
      <4>. QED
        BY <4>1, <4>2
    <3>2. CASE n + 1 \notin s
      <4>1. s \in SUBSET (1 .. n) /\ s \ {Max(s)} \in SUBSET (1 .. n)
        <5>1. \A i \in s : i \in 1 .. n
          BY <3>2
        <5>. QED
          BY <5>1
      <4>2. h[s] = g[s] /\ h[s \ {Max(s)}] = g[s \ {Max(s)}]
        BY <3>2
      <4>. QED
        BY <4>1, <4>2 DEF Folds
    <3>. QED
      BY <3>1, <3>2
  <2>. HIDE DEF h
  <2>. QED
    BY <2>2, <2>3
<1>. HIDE DEF T
<1>3. N \in T
  BY <1>1, <1>2, UpTo
<1>. QED
  BY <1>3 DEF T

(* grid_size of some lists.                                                 *)
SizeOf(l) == FoldLeft(LAMBDA total, list : total * Len(list), 1, l)

LEMMA SizeFold ==
  ASSUME NEW l, Sequence(l), \A a \in DOMAIN l : Len(l[a]) \in Nat
  PROVE  \E f \in [0 .. Len(l) -> Nat] :
           /\ f[0] = 1
           /\ \A n \in 1 .. Len(l) : f[n] = f[n - 1] * Len(l[n])
           /\ SizeOf(l) = f[Len(l)]
<1>. DEFINE N == Len(l)
            step == [p \in (1 .. N) \X Nat |-> p[2] * Len(l[p[1]])]
<1>0. N \in Nat /\ DOMAIN l = 1 .. N
  BY SequenceFacts
<1>1. step \in [(1 .. N) \X Nat -> Nat]
  <2>1. \A p \in (1 .. N) \X Nat : p[2] * Len(l[p[1]]) \in Nat
    BY <1>0
  <2>. QED
    BY <2>1
<1>2. PICK g \in [SUBSET (1 .. N) -> Nat] : Folds(g, N, 1, step)
  <2>. HIDE DEF step, N
  <2>. QED
    BY <1>0, <1>1, FoldExists
<1>. DEFINE Of(it) == [s \in SUBSET DOMAIN l |->
       IF s = {} THEN 1 ELSE it[s \ {Max(s)}] * Len(l[Max(s)])]
            iter == CHOOSE it : it = Of(it)
<1>3. SizeOf(l) = iter[DOMAIN l]
  BY DEF SizeOf, FoldLeft, MapThenFoldSet
<1>4. iter = Of(iter)
  <2>1. ASSUME NEW s \in SUBSET (1 .. N), s # {}
        PROVE  step[<<Max(s), g[s \ {Max(s)}]>>] = g[s \ {Max(s)}] * Len(l[Max(s)])
    <3>1. Max(s) \in 1 .. N /\ g[s \ {Max(s)}] \in Nat
      BY <1>0, <2>1, MaxOf
    <3>. QED
      BY <3>1
  <2>. HIDE DEF step
  <2>2. g = Of(g)
    BY <1>0, <1>2, <2>1 DEF Folds
  <2>. HIDE DEF Of
  <2>. QED
    BY <2>2
<1>. DEFINE f == [n \in 0 .. N |-> iter[1 .. n]]
<1>. HIDE DEF iter, step
<1>5. /\ iter[{}] = 1
      /\ \A s \in SUBSET (1 .. N) : s # {} => iter[s] = iter[s \ {Max(s)}] * Len(l[Max(s)])
  BY <1>0, <1>4
<1>6. /\ f[0] = 1
      /\ \A n \in 1 .. N : f[n] = f[n - 1] * Len(l[n])
  <2>1. 1 .. 0 = {} /\ 0 \in 0 .. N
    BY <1>0
  <2>2. ASSUME NEW n \in 1 .. N PROVE f[n] = f[n - 1] * Len(l[n])
    <3>1. n - 1 \in 0 .. N /\ n \in 0 .. N
      BY <1>0
    <3>. QED
      BY <1>0, <1>5, <3>1, Intervals
  <2>. QED
    BY <1>5, <2>1, <2>2
<1>7. f \in [0 .. N -> Nat]
  <2>. DEFINE T == {n \in 0 .. N : f[n] \in Nat}
  <2>1. 0 \in T
    BY <1>0, <1>6
  <2>2. ASSUME NEW n \in 0 .. N - 1, n \in T PROVE n + 1 \in T
    <3>1. n + 1 \in 1 .. N /\ (n + 1) - 1 = n /\ f[n] \in Nat
      BY <1>0, <2>2
    <3>2. f[n + 1] = f[n] * Len(l[n + 1]) /\ Len(l[n + 1]) \in Nat
      BY <1>0, <1>6, <3>1
    <3>. HIDE DEF f
    <3>. QED
      BY <3>1, <3>2
  <2>. HIDE DEF T
  <2>3. 0 .. N \subseteq T
    BY <1>0, <2>1, <2>2, UpTo
  <2>. QED
    BY <2>3 DEF T
<1>8. SizeOf(l) = f[N]
  BY <1>0, <1>3
<1>. HIDE DEF f
<1>. QED
  BY <1>6, <1>7, <1>8

LEMMA Concatenation ==
  ASSUME NEW S, NEW s \in Seq(S), NEW t \in Seq(S)
  PROVE  /\ s \o t \in Seq(S) /\ Len(s \o t) = Len(s) + Len(t)
         /\ Range(s \o t) = Range(s) \cup Range(t)
<1>1. /\ s \o t \in Seq(S) /\ Len(s \o t) = Len(s) + Len(t)
      /\ Len(s) \in Nat /\ Len(t) \in Nat
      /\ DOMAIN s = 1 .. Len(s) /\ DOMAIN t = 1 .. Len(t)
      /\ DOMAIN (s \o t) = 1 .. (Len(s) + Len(t))
  OBVIOUS
<1>2. /\ \A i \in 1 .. Len(s) : (s \o t)[i] = s[i]
      /\ \A i \in 1 .. Len(t) : (s \o t)[Len(s) + i] = t[i]
  OBVIOUS
<1>3. Range(s) \subseteq Range(s \o t)
  BY <1>1, <1>2 DEF Range
<1>4. Range(t) \subseteq Range(s \o t)
  <2>1. ASSUME NEW i \in 1 .. Len(t) PROVE t[i] \in Range(s \o t)
    <3>1. Len(s) + i \in DOMAIN (s \o t)
      BY <1>1
    <3>. QED
      BY <1>2, <3>1 DEF Range
  <2>. QED
    BY <1>1, <2>1 DEF Range
<1>5. ASSUME NEW j \in DOMAIN (s \o t) PROVE (s \o t)[j] \in Range(s) \cup Range(t)
  <2>1. CASE j <= Len(s)
    <3>1. j \in DOMAIN s /\ (s \o t)[j] = s[j]
      BY <1>1, <1>2, <2>1
    <3>. QED
      BY <3>1 DEF Range
  <2>2. CASE j > Len(s)
    <3>. DEFINE i == j - Len(s)
    <3>1. i \in 1 .. Len(t) /\ Len(s) + i = j
      BY <1>1, <2>2
    <3>. HIDE DEF i
    <3>2. i \in DOMAIN t /\ (s \o t)[j] = t[i]
      BY <1>1, <1>2, <3>1
    <3>. QED
      BY <3>2 DEF Range
  <2>. QED
    BY <1>1, <2>1, <2>2
<1>. QED
  BY <1>1, <1>3, <1>4, <1>5 DEF Range

(* FlattenSeq of sequences of the same length.                              *)
LEMMA Flattened ==
  ASSUME NEW S, NEW ss \in Seq(Seq(S)), NEW w \in Nat, \A i \in DOMAIN ss : Len(ss[i]) = w
  PROVE  /\ FlattenSeq(ss) \in Seq(S)
         /\ Len(FlattenSeq(ss)) = Len(ss) * w
         /\ Range(FlattenSeq(ss)) = UNION {Range(ss[i]) : i \in DOMAIN ss}
<1>. DEFINE n == Len(ss)
<1>1. n \in Nat /\ DOMAIN ss = 1 .. n /\ \A i \in 1 .. n : ss[i] \in Seq(S)
  OBVIOUS
<1>0. n = Len(ss)
  OBVIOUS
<1>. HIDE DEF n
<1>2. CASE n = 0
  <2>1. FlattenSeq(ss) = <<>> /\ ss = <<>> /\ DOMAIN ss = {}
    BY <1>0, <1>1, <1>2 DEF FlattenSeq
  <2>2. UNION {Range(ss[i]) : i \in DOMAIN ss} = {} /\ Range(<<>>) = {}
    BY <2>1 DEF Range
  <2>3. Len(<<>>) = 0 * w /\ <<>> \in Seq(S)
    OBVIOUS
  <2>. QED
    BY <1>0, <1>2, <2>1, <2>2, <2>3
<1>3. CASE n # 0
  <2>. DEFINE Of(fl) == [i \in 1 .. n |-> IF i = 1 THEN ss[i] ELSE fl[i - 1] \o ss[i]]
              flatten == CHOOSE fl : fl = Of(fl)
              step == [p \in (1 .. n) \X Seq(S) |->
                         IF p[1] = 1 THEN ss[1] ELSE p[2] \o ss[p[1]]]
  <2>1. FlattenSeq(ss) = flatten[n]
    BY <1>0, <1>1, <1>3 DEF FlattenSeq
  <2>2. flatten = Of(flatten)
    <3>1. step \in [(1 .. n) \X Seq(S) -> Seq(S)]
      <4>1. ASSUME NEW p \in (1 .. n) \X Seq(S)
            PROVE  (IF p[1] = 1 THEN ss[1] ELSE p[2] \o ss[p[1]]) \in Seq(S)
        <5>1. p[1] \in 1 .. n /\ p[2] \in Seq(S) /\ ss[p[1]] \in Seq(S)
          BY <1>1
        <5>2. p[2] \o ss[p[1]] \in Seq(S)
          BY <5>1, Concatenation
        <5>. QED
          BY <1>1, <5>1, <5>2
      <4>. QED
        BY <4>1
    <3>2. <<>> \in Seq(S)
      OBVIOUS
    <3>3. PICK g \in [SUBSET (1 .. n) -> Seq(S)] : Folds(g, n, <<>>, step)
      <4>. HIDE DEF step
      <4>. QED
        BY <1>1, <3>1, <3>2, FoldExists
    <3>. DEFINE fl == [i \in 1 .. n |-> g[1 .. i]]
    <3>4. ASSUME NEW i \in 1 .. n
          PROVE  fl[i] = IF i = 1 THEN ss[i] ELSE fl[i - 1] \o ss[i]
      <4>2. /\ Max(1 .. i) = i
            /\ 1 .. i \in SUBSET (1 .. n) /\ 1 .. i # {}
            /\ (1 .. i) \ {i} = 1 .. (i - 1) /\ 1 .. (i - 1) \in SUBSET (1 .. n)
        BY <1>1, Intervals
      <4>3. g[1 .. i] = step[<<i, g[1 .. (i - 1)]>>] /\ g[1 .. (i - 1)] \in Seq(S)
        <5>. HIDE DEF step
        <5>. QED
          BY <3>3, <4>2 DEF Folds
      <4>4. g[1 .. i] = IF i = 1 THEN ss[i] ELSE g[1 .. (i - 1)] \o ss[i]
        BY <1>1, <4>3
      <4>5. i # 1 => i - 1 \in 1 .. n
        BY <1>1
      <4>. HIDE DEF step
      <4>. QED
        BY <4>4, <4>5
    <3>. HIDE DEF fl
    <3>5. \E z : z = Of(z)
      <4>1. fl = Of(fl)
        BY <3>4 DEF fl
      <4>. QED
        BY <4>1
    <3>. HIDE DEF Of
    <3>. QED
      BY <3>5
  <2>. HIDE DEF flatten
  <2>3. \A i \in 1 .. n : flatten[i] = IF i = 1 THEN ss[i] ELSE flatten[i - 1] \o ss[i]
    BY <2>2
  <2>. DEFINE Upto(i) == UNION {Range(ss[j]) : j \in 1 .. i}
              Good(i) == /\ flatten[i] \in Seq(S) /\ Len(flatten[i]) = i * w
                         /\ Range(flatten[i]) = Upto(i)
              T == {i \in 0 .. n : i = 0 \/ Good(i)}
  <2>4. 0 \in T
    BY <1>1
  <2>5. ASSUME NEW i \in 0 .. n - 1, i \in T PROVE i + 1 \in T
    <3>1. i + 1 \in 1 .. n /\ i \in Nat /\ (i + 1) - 1 = i /\ ss[i + 1] \in Seq(S)
          /\ Len(ss[i + 1]) = w
      <4>. HIDE DEF T, Good
      <4>1. i + 1 \in 1 .. n /\ i \in Nat /\ (i + 1) - 1 = i
        BY <1>1
      <4>. QED
        BY <1>1, <4>1
    <3>2. Upto(i + 1) = Upto(i) \cup Range(ss[i + 1])
      <4>1. 1 .. i + 1 = 1 .. i \cup {i + 1}
        BY <3>1
      <4>. QED
        BY <4>1
    <3>3. CASE i = 0
      <4>1. flatten[1] = ss[1] /\ 1 * w = w
        BY <2>3, <3>1, <3>3
      <4>2. Upto(0) = {}
        OBVIOUS
      <4>3. Good(i + 1)
        BY <3>1, <3>2, <3>3, <4>1, <4>2
      <4>. QED
        BY <3>1, <4>3
    <3>4. CASE i # 0
      <4>0. i + 1 # 1
        BY <3>1, <3>4
      <4>a. flatten[i + 1] = flatten[(i + 1) - 1] \o ss[i + 1]
        BY <2>3, <3>1, <4>0
      <4>1. flatten[i + 1] = flatten[i] \o ss[i + 1]
        BY <3>1, <4>a
      <4>2. Good(i)
        BY <2>5, <3>4
      <4>b. flatten[i] \in Seq(S)
        BY <4>2
      <4>3. i * w + w = (i + 1) * w
        BY <3>1
      <4>4. /\ flatten[i + 1] \in Seq(S)
            /\ Len(flatten[i + 1]) = Len(flatten[i]) + Len(ss[i + 1])
            /\ Range(flatten[i + 1]) = Range(flatten[i]) \cup Range(ss[i + 1])
        <5>. DEFINE a == flatten[i]
                    b == ss[i + 1]
        <5>1. a \in Seq(S) /\ b \in Seq(S) /\ flatten[i + 1] = a \o b
          BY <3>1, <4>1, <4>b
        <5>. HIDE DEF a, b
        <5>2. /\ a \o b \in Seq(S)
              /\ Len(a \o b) = Len(a) + Len(b)
              /\ Range(a \o b) = Range(a) \cup Range(b)
          BY ONLY <5>1, Concatenation
        <5>. QED
          BY <5>1, <5>2 DEF a, b
      <4>. HIDE DEF Upto
      <4>5. Good(i + 1)
        BY <3>1, <3>2, <4>2, <4>3, <4>4
      <4>. HIDE DEF Good
      <4>. QED
        BY <3>1, <4>5
    <3>. QED
      BY <3>3, <3>4
  <2>. HIDE DEF T
  <2>6. n \in T
    <3>1. 0 .. n \subseteq T
      BY <1>1, <2>4, <2>5, UpTo
    <3>. QED
      BY <1>1, <3>1
  <2>. QED
    BY <1>0, <1>1, <1>3, <2>1, <2>6 DEF T
<1>. QED
  BY <1>2, <1>3

-----------------------------------------------------------------------------
(* Combinations.                                                            *)

(* One more axis.                                                           *)
Extend(combos, list) ==
  FlattenSeq([c \in DOMAIN combos |-> [k \in DOMAIN list |-> Append(combos[c], list[k])]])

(* iter_combos of some lists.                                               *)
CombosOf(l) ==
  FoldLeft(LAMBDA combos, list :
             FlattenSeq([c \in DOMAIN combos |->
                           [k \in DOMAIN list |-> Append(combos[c], list[k])]]),
           << <<>> >>, l)

LEMMA Extended ==
  ASSUME NEW S, NEW combos \in Seq(Seq(S)), NEW list \in Seq(S)
  PROVE  /\ Extend(combos, list) \in Seq(Seq(S))
         /\ Len(Extend(combos, list)) = Len(combos) * Len(list)
         /\ \A x : x \in Range(Extend(combos, list)) <=>
                    \E c \in Range(combos) : \E v \in Range(list) : x = Append(c, v)
<1>. DEFINE row(c) == [k \in DOMAIN list |-> Append(combos[c], list[k])]
            ss == [c \in DOMAIN combos |-> row(c)]
<1>1. /\ DOMAIN combos = 1 .. Len(combos) /\ Len(combos) \in Nat
      /\ DOMAIN list = 1 .. Len(list) /\ Len(list) \in Nat
  OBVIOUS
<1>2. ASSUME NEW c \in DOMAIN combos
      PROVE  row(c) \in Seq(Seq(S)) /\ Len(row(c)) = Len(list)
  <2>1. combos[c] \in Seq(S)
    OBVIOUS
  <2>2. \A k \in DOMAIN list : Append(combos[c], list[k]) \in Seq(S)
    BY <2>1
  <2>. QED
    BY <1>1, <2>2
<1>. HIDE DEF row
<1>3. ss \in Seq(Seq(Seq(S))) /\ Len(ss) = Len(combos) /\ DOMAIN ss = DOMAIN combos
  BY <1>1, <1>2
<1>4. \A c \in DOMAIN ss : ss[c] = row(c) /\ Len(ss[c]) = Len(list)
  BY <1>2
<1>5. Extend(combos, list) = FlattenSeq(ss)
  BY DEF Extend, row
<1>. HIDE DEF ss
<1>6. /\ FlattenSeq(ss) \in Seq(Seq(S))
      /\ Len(FlattenSeq(ss)) = Len(ss) * Len(list)
      /\ Range(FlattenSeq(ss)) = UNION {Range(ss[c]) : c \in DOMAIN ss}
  <2>. DEFINE R == Seq(S)
  <2>1. ss \in Seq(Seq(R)) /\ Len(list) \in Nat
    BY <1>1, <1>3
  <2>. HIDE DEF R
  <2>2. /\ FlattenSeq(ss) \in Seq(R)
        /\ Len(FlattenSeq(ss)) = Len(ss) * Len(list)
        /\ Range(FlattenSeq(ss)) = UNION {Range(ss[c]) : c \in DOMAIN ss}
    BY <1>4, <2>1, Flattened
  <2>. QED
    BY <2>2 DEF R
<1>7. ASSUME NEW x
      PROVE  x \in UNION {Range(ss[c]) : c \in DOMAIN ss} <=>
               \E c \in Range(combos) : \E v \in Range(list) : x = Append(c, v)
  <2>1. ASSUME NEW c \in DOMAIN combos
        PROVE  x \in Range(ss[c]) <=> \E v \in Range(list) : x = Append(combos[c], v)
    <3>1. Range(ss[c]) = {Append(combos[c], list[k]) : k \in DOMAIN list}
      BY <1>3, <1>4 DEF row, Range
    <3>. QED
      BY <3>1 DEF Range
  <2>2. x \in UNION {Range(ss[c]) : c \in DOMAIN ss} <=> \E c \in DOMAIN ss : x \in Range(ss[c])
    OBVIOUS
  <2>3. \A c : c \in Range(combos) <=> \E i \in DOMAIN combos : c = combos[i]
    BY DEF Range
  <2>. QED
    BY <1>3, <2>1, <2>2, <2>3
<1>. QED
  BY <1>3, <1>5, <1>6, <1>7

LEMMA CombosFold ==
  ASSUME NEW S, NEW l, Sequence(l), \A a \in DOMAIN l : l[a] \in Seq(S)
  PROVE  \E f \in [0 .. Len(l) -> Seq(Seq(S))] :
           /\ f[0] = << <<>> >>
           /\ \A n \in 1 .. Len(l) : f[n] = Extend(f[n - 1], l[n])
           /\ CombosOf(l) = f[Len(l)]
<1>. DEFINE N == Len(l)
            V == Seq(Seq(S))
            base == << <<>> >>
            step == [p \in (1 .. N) \X V |-> Extend(p[2], l[p[1]])]
<1>0. N \in Nat /\ DOMAIN l = 1 .. N
  BY SequenceFacts
<1>1. step \in [(1 .. N) \X V -> V]
  <2>1. \A p \in (1 .. N) \X V : Extend(p[2], l[p[1]]) \in V
    BY <1>0, Extended
  <2>. QED
    BY <2>1
<1>a. base \in V
  OBVIOUS
<1>2. PICK g \in [SUBSET (1 .. N) -> V] : Folds(g, N, base, step)
  <2>. HIDE DEF step, N, V, base
  <2>. QED
    BY <1>0, <1>1, <1>a, FoldExists
<1>. DEFINE Of(it) == [s \in SUBSET DOMAIN l |->
       IF s = {} THEN << <<>> >>
       ELSE FlattenSeq([c \in DOMAIN it[s \ {Max(s)}] |->
                          [k \in DOMAIN l[Max(s)] |->
                             Append(it[s \ {Max(s)}][c], l[Max(s)][k])]])]
            OfE(it) == [s \in SUBSET DOMAIN l |->
       IF s = {} THEN << <<>> >> ELSE Extend(it[s \ {Max(s)}], l[Max(s)])]
            iter == CHOOSE it : it = Of(it)
<1>3. CombosOf(l) = iter[DOMAIN l]
  BY DEF CombosOf, FoldLeft, MapThenFoldSet
<1>4. iter = OfE(iter)
  <2>1. ASSUME NEW s \in SUBSET (1 .. N), s # {}
        PROVE  step[<<Max(s), g[s \ {Max(s)}]>>] = Extend(g[s \ {Max(s)}], l[Max(s)])
    <3>1. Max(s) \in 1 .. N /\ g[s \ {Max(s)}] \in V
      BY <1>0, <2>1, MaxOf
    <3>. QED
      BY <3>1
  <2>. HIDE DEF step
  <2>2. g = OfE(g)
    BY <1>0, <1>2, <2>1 DEF Folds
  <2>3. \A it : Of(it) = OfE(it)
    BY DEF Extend
  <2>. HIDE DEF Of, OfE
  <2>4. g = Of(g)
    BY <2>2, <2>3
  <2>. QED
    BY <2>3, <2>4
<1>. DEFINE f == [n \in 0 .. N |-> iter[1 .. n]]
<1>. HIDE DEF iter, step, V
<1>5. /\ iter[{}] = << <<>> >>
      /\ \A s \in SUBSET (1 .. N) : s # {} => iter[s] = Extend(iter[s \ {Max(s)}], l[Max(s)])
  BY <1>0, <1>4
<1>6. /\ f[0] = << <<>> >>
      /\ \A n \in 1 .. N : f[n] = Extend(f[n - 1], l[n])
  <2>1. 1 .. 0 = {} /\ 0 \in 0 .. N
    BY <1>0
  <2>2. ASSUME NEW n \in 1 .. N PROVE f[n] = Extend(f[n - 1], l[n])
    <3>1. n - 1 \in 0 .. N /\ n \in 0 .. N
      BY <1>0
    <3>2. f[n] = iter[1 .. n] /\ f[n - 1] = iter[1 .. (n - 1)]
      BY <3>1
    <3>3. iter[1 .. n] = Extend(iter[1 .. (n - 1)], l[n])
      <4>1. /\ Max(1 .. n) = n
            /\ 1 .. n \in SUBSET (1 .. N) /\ 1 .. n # {}
            /\ (1 .. n) \ {n} = 1 .. (n - 1)
        BY <1>0, Intervals
      <4>2. iter[1 .. n] = Extend(iter[(1 .. n) \ {Max(1 .. n)}], l[Max(1 .. n)])
        BY <1>5, <4>1
      <4>. QED
        BY <4>1, <4>2
    <3>. QED
      BY <3>2, <3>3
  <2>. QED
    BY <1>5, <2>1, <2>2
<1>7. f \in [0 .. N -> V]
  <2>. DEFINE T == {n \in 0 .. N : f[n] \in V}
  <2>1. 0 \in T
    BY <1>0, <1>6, <1>a
  <2>2. ASSUME NEW n \in 0 .. N - 1, n \in T PROVE n + 1 \in T
    <3>1. n + 1 \in 1 .. N /\ (n + 1) - 1 = n /\ f[n] \in V /\ n + 1 \in 0 .. N
      BY <1>0, <2>2
    <3>2. f[n + 1] = Extend(f[n], l[n + 1]) /\ l[n + 1] \in Seq(S)
      BY <1>0, <1>6, <3>1
    <3>. HIDE DEF f
    <3>3. f[n + 1] \in V
      BY <3>1, <3>2, Extended DEF V
    <3>. QED
      BY <3>1, <3>3
  <2>. HIDE DEF T
  <2>3. 0 .. N \subseteq T
    BY <1>0, <2>1, <2>2, UpTo
  <2>. QED
    BY <2>3 DEF T
<1>8. CombosOf(l) = f[N]
  BY <1>0, <1>3
<1>. HIDE DEF f
<1>. QED
  BY <1>6, <1>7, <1>8 DEF V

(* One value of each of the first n lists.                                  *)
Choice(c, l, n) == Len(c) = n /\ \A i \in 1 .. n : c[i] \in Range(l[i])

(* The combinations of n + 1 lists.                                         *)
LEMMA OneMore ==
  ASSUME NEW S, NEW l, NEW n \in Nat, l[n + 1] \in Seq(S), NEW x
  PROVE  (\E c \in Seq(S) : Choice(c, l, n) /\ \E v \in Range(l[n + 1]) : x = Append(c, v))
           <=> x \in Seq(S) /\ Choice(x, l, n + 1)
<1>1. ASSUME NEW c \in Seq(S), Choice(c, l, n), NEW v \in Range(l[n + 1]), x = Append(c, v)
      PROVE  x \in Seq(S) /\ Choice(x, l, n + 1)
  <2>1. v \in S
    BY DEF Range
  <2>2. /\ x \in Seq(S) /\ Len(x) = n + 1 /\ x[n + 1] = v
        /\ \A i \in 1 .. n : x[i] = c[i]
    BY <1>1, <2>1 DEF Choice
  <2>3. \A i \in 1 .. n + 1 : i \in 1 .. n \/ i = n + 1
    OBVIOUS
  <2>. QED
    BY <1>1, <2>2, <2>3 DEF Choice
<1>2. ASSUME x \in Seq(S), Choice(x, l, n + 1)
      PROVE  \E c \in Seq(S) : Choice(c, l, n) /\ \E v \in Range(l[n + 1]) : x = Append(c, v)
  <2>. DEFINE c == [i \in 1 .. n |-> x[i]]
              v == x[n + 1]
  <2>1. Len(x) = n + 1 /\ DOMAIN x = 1 .. n + 1 /\ \A i \in 1 .. n + 1 : x[i] \in S
    BY <1>2 DEF Choice
  <2>2. c \in Seq(S) /\ Len(c) = n /\ \A i \in 1 .. n : c[i] = x[i]
    BY <2>1
  <2>3. n + 1 \in 1 .. n + 1 /\ v \in S /\ v \in Range(l[n + 1])
    BY <1>2, <2>1 DEF Choice
  <2>. HIDE DEF c
  <2>4. Choice(c, l, n)
    BY <1>2, <2>2 DEF Choice
  <2>. HIDE DEF v
  <2>5. Append(c, v) \in Seq(S) /\ Len(Append(c, v)) = n + 1
        /\ \A i \in 1 .. n + 1 : Append(c, v)[i] = IF i <= n THEN c[i] ELSE v
    BY <2>2, <2>3
  <2>6. x = Append(c, v)
    <3>1. \A i \in 1 .. n + 1 : Append(c, v)[i] = x[i]
      BY <2>2, <2>5 DEF v
    <3>2. DOMAIN Append(c, v) = 1 .. n + 1
      BY <2>5
    <3>. DEFINE y == Append(c, v)
    <3>3. /\ x \in Seq(S) /\ y \in Seq(S) /\ Len(x) = n + 1 /\ Len(y) = n + 1
          /\ \A i \in 1 .. n + 1 : y[i] = x[i]
      BY <1>2, <2>1, <2>5, <3>1
    <3>. HIDE DEF y
    <3>4. x = y
      BY <3>3
    <3>. QED
      BY <3>4 DEF y
  <2>. QED
    BY <2>2, <2>3, <2>4, <2>6
<1>. QED
  BY <1>1, <1>2

(* The combinations are the choices of a value from each list, as many as     *)
(* grid_size counts.                                                        *)
LEMMA AllCombos ==
  ASSUME NEW S, NEW l, Sequence(l), \A a \in DOMAIN l : l[a] \in Seq(S)
  PROVE  /\ CombosOf(l) \in Seq(Seq(S))
         /\ Len(CombosOf(l)) = SizeOf(l) /\ SizeOf(l) \in Nat
         /\ \A x : x \in Range(CombosOf(l)) <=> x \in Seq(S) /\ Choice(x, l, Len(l))
<1>. DEFINE N == Len(l)
<1>1. N \in Nat /\ DOMAIN l = 1 .. N /\ \A a \in DOMAIN l : Len(l[a]) \in Nat
  BY SequenceFacts
<1>2. PICK f \in [0 .. N -> Seq(Seq(S))] :
        /\ f[0] = << <<>> >>
        /\ \A n \in 1 .. N : f[n] = Extend(f[n - 1], l[n])
        /\ CombosOf(l) = f[N]
  BY CombosFold
<1>3. PICK g \in [0 .. N -> Nat] :
        /\ g[0] = 1
        /\ \A n \in 1 .. N : g[n] = g[n - 1] * Len(l[n])
        /\ SizeOf(l) = g[N]
  BY <1>1, SizeFold
<1>. DEFINE All(n) == /\ Len(f[n]) = g[n]
                      /\ \A x : x \in Range(f[n]) <=> x \in Seq(S) /\ Choice(x, l, n)
            T == {n \in 0 .. N : All(n)}
<1>. HIDE DEF N
<1>4. 0 \in T
  <2>1. Len(f[0]) = g[0]
    BY <1>2, <1>3
  <2>2. \A x : x \in Range(f[0]) <=> x = <<>>
    BY <1>2 DEF Range
  <2>3. ASSUME NEW x PROVE x \in Seq(S) /\ Choice(x, l, 0) <=> x = <<>>
    <3>1. ASSUME x \in Seq(S), Choice(x, l, 0) PROVE x = <<>>
      BY <3>1 DEF Choice
    <3>2. <<>> \in Seq(S) /\ Len(<<>>) = 0 /\ 1 .. 0 = {}
      OBVIOUS
    <3>3. <<>> \in Seq(S) /\ Choice(<<>>, l, 0)
      BY <3>2 DEF Choice
    <3>. QED
      BY <3>1, <3>3
  <2>. QED
    BY <1>1, <2>1, <2>2, <2>3
<1>5. ASSUME NEW n \in 0 .. N - 1, n \in T PROVE n + 1 \in T
  <2>1. /\ n \in Nat /\ n \in 0 .. N /\ n + 1 \in 1 .. N /\ n + 1 \in 0 .. N /\ (n + 1) - 1 = n
    BY <1>1
  <2>2. /\ f[n + 1] = Extend(f[n], l[n + 1]) /\ g[n + 1] = g[n] * Len(l[n + 1])
        /\ f[n] \in Seq(Seq(S)) /\ l[n + 1] \in Seq(S)
    <3>. HIDE DEF T
    <3>1. f[n + 1] = Extend(f[(n + 1) - 1], l[n + 1]) /\ g[n + 1] = g[(n + 1) - 1] * Len(l[n + 1])
      BY <1>2, <1>3, <2>1
    <3>2. l[n + 1] \in Seq(S)
      BY <1>1, <2>1
    <3>. QED
      BY <1>2, <2>1, <3>1, <3>2
  <2>3. Len(f[n]) = g[n] /\ \A x : x \in Range(f[n]) <=> x \in Seq(S) /\ Choice(x, l, n)
    BY <1>5
  <2>4. /\ Len(f[n + 1]) = Len(f[n]) * Len(l[n + 1])
        /\ \A x : x \in Range(f[n + 1]) <=>
                    \E c \in Range(f[n]) : \E v \in Range(l[n + 1]) : x = Append(c, v)
    <3>. HIDE DEF T
    <3>. DEFINE combos == f[n]
                list == l[n + 1]
    <3>1. combos \in Seq(Seq(S)) /\ list \in Seq(S) /\ f[n + 1] = Extend(combos, list)
      BY <2>2
    <3>. HIDE DEF combos, list
    <3>2. /\ Len(Extend(combos, list)) = Len(combos) * Len(list)
          /\ \A x : x \in Range(Extend(combos, list)) <=>
                     \E c \in Range(combos) : \E v \in Range(list) : x = Append(c, v)
      BY ONLY <3>1, Extended
    <3>. QED
      BY <3>1, <3>2 DEF combos, list
  <2>5. ASSUME NEW x PROVE x \in Range(f[n + 1]) <=> x \in Seq(S) /\ Choice(x, l, n + 1)
    <3>. HIDE DEF T
    <3>1. (\E c \in Seq(S) : Choice(c, l, n) /\ \E v \in Range(l[n + 1]) : x = Append(c, v))
            <=> x \in Seq(S) /\ Choice(x, l, n + 1)
      BY <2>1, <2>2, OneMore
    <3>. QED
      BY <2>3, <2>4, <3>1
  <2>. QED
    BY <2>1, <2>2, <2>3, <2>4, <2>5
<1>6. N \in T
  <2>. HIDE DEF T
  <2>1. 0 .. N \subseteq T
    BY <1>1, <1>4, <1>5, UpTo
  <2>. QED
    BY <1>1, <2>1
<1>. QED
  BY <1>1, <1>2, <1>3, <1>6 DEF N

-----------------------------------------------------------------------------
(* Both passes.                                                             *)

(* The value of a range is a float.                                         *)
IsFloat(entry, i) == IF i = 1 THEN entry.float = "start" ELSE entry.float # "none"

(* What the loop computes from the i-th value of a range.                    *)
Sum(entry, err, s, i) == NextValue(s[i], entry, IsFloat(entry, i), err[i])
Coming(entry, err, s) == IF Len(s) = 0 THEN entry.start ELSE Sum(entry, err, s, Len(s))

Collects(entry, err, s) ==
  /\ Sequence(s) /\ Len(s) <= MaxValues
  /\ \A i \in DOMAIN s : /\ Within(entry, s[i])
                         /\ s[i] = IF i = 1 THEN entry.start ELSE Sum(entry, err, s, i - 1)

(* list is what the axis is expanded to.                                     *)
Expands(entry, err, list) ==
  /\ entry.kind \in {"list", "scalar", "range"}
  /\ entry.kind = "list" => list = entry.values
  /\ entry.kind = "scalar" => list = <<entry.value>>
  /\ entry.kind = "range" => Collects(entry, err, list) /\ ~ Within(entry, Coming(entry, err, list))

ExpansionInv ==
  /\ in_range => /\ Collects(Entry, error, values) /\ value = Coming(Entry, error, values)
                 /\ is_float = IsFloat(Entry, Len(values) + 1)
  /\ \A a \in DOMAIN lists : Expands(grid[a], error, lists[a])

(* No two expansions of an axis differ: grid_size and iter_combos agree.      *)
LEMMA ExpandsOnce ==
  ASSUME NEW entry, NEW err, NEW s, NEW t, Expands(entry, err, s), Expands(entry, err, t)
  PROVE  s = t
<1>1. CASE entry.kind # "range"
  BY <1>1 DEF Expands
<1>2. CASE entry.kind = "range"
  <2>. DEFINE Agree(i) == i <= Len(s) /\ i <= Len(t) => i = 0 \/ s[i] = t[i]
              T(n) == {i \in 0 .. n : Agree(i)}
  <2>1. /\ Len(s) \in Nat /\ DOMAIN s = 1 .. Len(s) /\ Len(t) \in Nat /\ DOMAIN t = 1 .. Len(t)
        /\ \A i \in DOMAIN s : /\ Within(entry, s[i])
                               /\ s[i] = IF i = 1 THEN entry.start ELSE Sum(entry, err, s, i - 1)
        /\ \A i \in DOMAIN t : /\ Within(entry, t[i])
                               /\ t[i] = IF i = 1 THEN entry.start ELSE Sum(entry, err, t, i - 1)
        /\ ~ Within(entry, Coming(entry, err, s)) /\ ~ Within(entry, Coming(entry, err, t))
    BY <1>2, SequenceFacts DEF Expands, Collects
  <2>2. ASSUME NEW n \in Nat PROVE 0 .. n \subseteq T(n)
    <3>1. 0 \in T(n)
      OBVIOUS
    <3>2. ASSUME NEW i \in 0 .. n - 1, i \in T(n) PROVE i + 1 \in T(n)
      <4>. SUFFICES ASSUME i + 1 <= Len(s), i + 1 <= Len(t) PROVE s[i + 1] = t[i + 1]
        BY <3>2
      <4>1. i + 1 \in DOMAIN s /\ i + 1 \in DOMAIN t /\ (i + 1) - 1 = i
        BY <2>1
      <4>2. CASE i = 0
        BY <2>1, <4>1, <4>2
      <4>3. CASE i # 0
        <5>1. s[i] = t[i]
          BY <2>1, <3>2, <4>3
        <5>2. s[i + 1] = Sum(entry, err, s, i) /\ t[i + 1] = Sum(entry, err, t, i)
          <6>1. /\ s[i + 1] = Sum(entry, err, s, (i + 1) - 1)
                /\ t[i + 1] = Sum(entry, err, t, (i + 1) - 1)
            BY <2>1, <4>1, <4>3
          <6>. QED
            BY <4>1, <6>1
        <5>. QED
          BY <5>1, <5>2 DEF Sum
      <4>. QED
        BY <4>2, <4>3
    <3>. HIDE DEF T
    <3>. QED
      BY <3>1, <3>2, UpTo
  <2>3. \A i \in Nat : i # 0 /\ i <= Len(s) /\ i <= Len(t) => s[i] = t[i]
    BY <2>2
  <2>4. ASSUME NEW u, NEW v, Len(u) \in Nat, Len(v) \in Nat, Len(u) < Len(v),
               DOMAIN v = 1 .. Len(v),
               \A i \in DOMAIN v : /\ Within(entry, v[i])
                                   /\ v[i] = IF i = 1 THEN entry.start ELSE Sum(entry, err, v, i - 1),
               \A i \in Nat : i # 0 /\ i <= Len(u) => u[i] = v[i],
               ~ Within(entry, Coming(entry, err, u))
        PROVE  FALSE
    <3>. DEFINE m == Len(u) + 1
    <3>1. m \in DOMAIN v /\ m - 1 = Len(u) /\ (m = 1 <=> Len(u) = 0)
      BY <2>4
    <3>2. Within(entry, v[m]) /\ v[m] = IF m = 1 THEN entry.start ELSE Sum(entry, err, v, m - 1)
      BY <2>4, <3>1
    <3>. HIDE DEF m
    <3>3. Len(u) # 0 => u[Len(u)] = v[Len(u)]
      BY <2>4
    <3>. QED
      BY <2>4, <3>1, <3>2, <3>3 DEF Coming, Sum
  <2>5. Len(s) = Len(t)
    <3>1. ASSUME Len(s) < Len(t) PROVE FALSE
      <4>1. \A i \in Nat : i # 0 /\ i <= Len(s) => s[i] = t[i]
        BY <2>1, <2>3, <3>1
      <4>. QED
        BY <2>1, <2>4, <3>1, <4>1
    <3>2. ASSUME Len(t) < Len(s) PROVE FALSE
      <4>1. \A i \in Nat : i # 0 /\ i <= Len(t) => t[i] = s[i]
        BY <2>1, <2>3, <3>2
      <4>. QED
        BY <2>1, <2>4, <3>2, <4>1
    <3>3. Len(s) \in Nat /\ Len(t) \in Nat
      BY <2>1
    <3>4. ~ (Len(s) < Len(t)) /\ ~ (Len(t) < Len(s))
      BY <3>1, <3>2
    <3>. QED
      BY <3>3, <3>4
  <2>6. Sequence(s) /\ Sequence(t)
    BY <1>2 DEF Expands, Collects
  <2>7. s = [i \in 1 .. Len(s) |-> s[i]] /\ t = [i \in 1 .. Len(s) |-> t[i]]
    BY <2>1, <2>5, <2>6 DEF Sequence
  <2>8. \A i \in 1 .. Len(s) : s[i] = t[i]
    BY <2>1, <2>3, <2>5
  <2>. QED
    BY <2>7, <2>8
<1>. QED
  BY <1>1, <1>2

LEMMA CollectsMore ==
  ASSUME NEW entry, NEW err, NEW s, Collects(entry, err, s), Len(s) < MaxValues,
         Within(entry, Coming(entry, err, s))
  PROVE  LET more == Append(s, Coming(entry, err, s))
         IN /\ Collects(entry, err, more) /\ Len(more) = Len(s) + 1
            /\ Coming(entry, err, more)
                 = NextValue(Coming(entry, err, s), entry, IsFloat(entry, Len(s) + 1), err[Len(s) + 1])
<1>. DEFINE v == Coming(entry, err, s)
            n == Len(s)
            more == Append(s, v)
<1>1. n \in Nat /\ DOMAIN s = 1 .. n /\ MaxValues \in Nat
  BY SequenceFacts, BoundsAssumption DEF Collects
<1>2. /\ Sequence(more) /\ Len(more) = n + 1 /\ more[n + 1] = v
      /\ \A i \in 1 .. n : more[i] = s[i]
  BY AppendTo DEF Collects
<1>3. DOMAIN more = 1 .. n + 1
  BY <1>2, SequenceFacts
<1>4. \A i \in 1 .. n : /\ Within(entry, s[i])
                        /\ s[i] = IF i = 1 THEN entry.start ELSE Sum(entry, err, s, i - 1)
  BY <1>1 DEF Collects
<1>5. v = IF n = 0 THEN entry.start ELSE Sum(entry, err, s, n)
  BY DEF Coming
<1>6. Within(entry, v) /\ n < MaxValues
  OBVIOUS
<1>. HIDE DEF v, n, more
<1>7. ASSUME NEW i \in 1 .. n + 1
      PROVE  /\ Within(entry, more[i])
             /\ more[i] = IF i = 1 THEN entry.start ELSE Sum(entry, err, more, i - 1)
  <2>1. CASE i = n + 1
    <3>1. i # 1 => i - 1 = n /\ n \in 1 .. n /\ n # 0
      BY <1>1, <2>1
    <3>2. i = 1 => n = 0
      BY <1>1, <2>1
    <3>3. i # 1 => more[i - 1] = s[n]
      BY <1>2, <3>1
    <3>. QED
      BY <1>2, <1>5, <1>6, <2>1, <3>1, <3>2, <3>3 DEF Sum
  <2>2. CASE i # n + 1
    <3>1. i \in 1 .. n /\ (i # 1 => i - 1 \in 1 .. n)
      BY <1>1, <2>2
    <3>2. i # 1 => more[i - 1] = s[i - 1]
      BY <1>2, <3>1
    <3>. QED
      BY <1>2, <1>4, <3>1, <3>2 DEF Sum
  <2>. QED
    BY <2>1, <2>2
<1>8. Collects(entry, err, more)
  BY <1>1, <1>2, <1>3, <1>6, <1>7 DEF Collects
<1>9. Coming(entry, err, more) = NextValue(v, entry, IsFloat(entry, n + 1), err[n + 1])
  <2>1. Len(more) # 0
    BY <1>1, <1>2
  <2>. QED
    BY <1>2, <2>1 DEF Coming, Sum
<1>. QED
  BY <1>2, <1>8, <1>9 DEF v, n, more

LEMMA ExpandKeeps ==
  ASSUME GridInv, ExpansionInv, NEW list, Expand(list), Axis \in DOMAIN grid,
         list # <<>> => Expands(Entry, error, list)
  PROVE  ExpansionInv'
<1>1. UNCHANGED <<grid, error>> /\ in_range' = FALSE
  BY DEF Expand
<1>2. CASE list = <<>>
  BY <1>1, <1>2 DEF Expand, ExpansionInv
<1>3. CASE list # <<>>
  <2>1. lists' = Append(lists, list)
    BY <1>3 DEF Expand
  <2>2. /\ Sequence(lists') /\ Len(lists') = Axis /\ lists'[Axis] = list
        /\ \A a \in 1 .. Len(lists) : lists'[a] = lists[a]
    BY <2>1, GridFacts, AppendTo
  <2>3. DOMAIN lists' = 1 .. Len(lists) \cup {Axis}
    BY <2>2, SequenceFacts, GridFacts
  <2>4. ASSUME NEW a \in DOMAIN lists' PROVE Expands(grid[a], error, lists'[a])
    <3>1. CASE a = Axis
      BY <1>3, <2>2, <3>1 DEF Entry
    <3>2. CASE a # Axis
      BY <2>2, <2>3, <3>2, GridFacts DEF ExpansionInv
    <3>. QED
      BY <3>1, <3>2
  <2>. QED
    BY <1>1, <2>4 DEF ExpansionInv
<1>. QED
  BY <1>2, <1>3

LEMMA NextExpansionInv ==
  ASSUME GridInv, GridInv', ExpansionInv, [Next]_vars
  PROVE  ExpansionInv'
<1>1. CASE UNCHANGED vars
  BY <1>1 DEF vars, rangeVars, ExpansionInv, Entry, Axis
<1>2. CASE ExpandList
  <2>1. Expand(Entry.values) /\ Axis \in DOMAIN grid /\ Entry.kind = "list"
    BY <1>2, GridFacts DEF ExpandList, At
  <2>. QED
    BY <2>1, ExpandKeeps DEF Expands
<1>3. CASE ExpandScalar
  <2>1. Expand(<<Entry.value>>) /\ Axis \in DOMAIN grid /\ Entry.kind = "scalar"
    BY <1>3, GridFacts DEF ExpandScalar, At
  <2>. QED
    BY <2>1, ExpandKeeps DEF Expands
<1>4. CASE RangeRefused
  <2>1. Expand(<<>>) /\ Axis \in DOMAIN grid
    BY <1>4, GridFacts DEF RangeRefused, At
  <2>. QED
    BY <2>1, ExpandKeeps
<1>5. CASE StartRange
  <2>1. /\ UNCHANGED <<grid, error, lists, values>> /\ in_range' /\ ~ in_range
        /\ value' = Entry.start /\ is_float' = (Entry.float = "start")
        /\ values = <<>>
    BY <1>5 DEF StartRange, GridInv, RangeInv
  <2>2. Entry' = Entry
    BY <2>1 DEF Entry, Axis
  <2>3. Len(values) = 0 /\ DOMAIN values = {} /\ Sequence(values) /\ 0 <= MaxValues
    BY <2>1, EmptySequence, BoundsAssumption
  <2>4. /\ Collects(Entry, error, values) /\ Entry.start = Coming(Entry, error, values)
        /\ (Entry.float = "start") = IsFloat(Entry, Len(values) + 1)
    BY <2>3 DEF Collects, Coming, IsFloat
  <2>. QED
    BY <2>1, <2>2, <2>4 DEF ExpansionInv
<1>6. CASE RangeValue
  <2>1. /\ UNCHANGED <<grid, error, lists, in_range>>
        /\ in_range /\ Within(Entry, value) /\ Len(values) < MaxValues
        /\ values' = Append(values, value)
        /\ value' = NextValue(value, Entry, is_float, error[Len(values')])
        /\ is_float' = (Entry.float # "none")
    BY <1>6 DEF RangeValue
  <2>2. Entry' = Entry
    BY <2>1 DEF Entry, Axis
  <2>3. /\ Collects(Entry, error, values) /\ value = Coming(Entry, error, values)
        /\ is_float = IsFloat(Entry, Len(values) + 1)
    BY <2>1 DEF ExpansionInv
  <2>4. /\ Collects(Entry, error, values') /\ Len(values') = Len(values) + 1
        /\ Coming(Entry, error, values')
             = NextValue(value, Entry, IsFloat(Entry, Len(values) + 1), error[Len(values) + 1])
    BY <2>1, <2>3, CollectsMore
  <2>5. is_float' = IsFloat(Entry, Len(values') + 1)
    BY <2>1, <2>4, GridFacts DEF IsFloat
  <2>. QED
    BY <2>1, <2>2, <2>3, <2>4, <2>5 DEF ExpansionInv
<1>7. CASE EndRange
  <2>1. /\ Expand(values) /\ in_range /\ ~ Within(Entry, value) /\ Axis \in DOMAIN grid
        /\ Entry.kind = "range"
    BY <1>7 DEF EndRange, GridInv, RangeInv
  <2>2. Expands(Entry, error, values)
    BY <2>1 DEF Expands, ExpansionInv
  <2>. QED
    BY <2>1, <2>2, ExpandKeeps
<1>8. CASE TimeLimit
  BY <1>8 DEF TimeLimit, rangeVars, ExpansionInv, Entry, Axis
<1>9. CASE CountChildren
  <2>1. lists' = <<>> /\ UNCHANGED in_range /\ Axis > Len(grid)
    BY <1>9 DEF CountChildren, Expanded, rangeVars
  <2>2. ~ in_range
    BY <2>1, GridFacts DEF GridInv, RangeInv
  <2>. QED
    BY <2>1, <2>2 DEF ExpansionInv
<1>10. CASE CreateChildren
  BY <1>10 DEF CreateChildren, rangeVars, ExpansionInv, Entry, Axis
<1>. QED
  BY <1>1, <1>2, <1>3, <1>4, <1>5, <1>6, <1>7, <1>8, <1>9, <1>10 DEF Next

Values(l) == UNION {Range(l[a]) : a \in DOMAIN l}

(* Between the passes, what grid_size counted are the combinations of the     *)
(* only lists the axes expand to.                                            *)
CountInv ==
  pass = "combos" =>
    \E l : /\ Sequence(l) /\ Len(l) = Len(grid)
           /\ \A a \in DOMAIN grid : Expands(grid[a], error, l[a])
           /\ children_total = SizeOf(l)

ChildrenInv == ExpansionInv /\ CountInv /\ ChildrenCounted

LEMMA SameExpansions ==
  ASSUME GridInv, NEW s, NEW t, Sequence(s), Sequence(t), Len(s) = Len(grid), Len(t) = Len(grid),
         \A a \in DOMAIN grid : Expands(grid[a], error, s[a]),
         \A a \in DOMAIN grid : Expands(grid[a], error, t[a])
  PROVE  s = t
<1>1. \A a \in DOMAIN grid : s[a] = t[a]
  BY ExpandsOnce
<1>2. /\ DOMAIN s = DOMAIN grid /\ DOMAIN t = DOMAIN grid
      /\ s = [a \in DOMAIN s |-> s[a]] /\ t = [a \in DOMAIN t |-> t[a]]
  BY GridFacts, SequenceFacts DEF Sequence
<1>. QED
  BY <1>1, <1>2

(* Every list an axis is expanded to is a sequence.                          *)
LEMMA ListsAreSequences ==
  ASSUME GridInv, ExpansionInv
  PROVE  /\ \A a \in DOMAIN lists : Sequence(lists[a])
         /\ \A a \in DOMAIN lists : lists[a] \in Seq(Values(lists))
<1>1. ASSUME NEW a \in DOMAIN lists PROVE Sequence(lists[a])
  <2>1. Expands(grid[a], error, lists[a]) /\ a \in DOMAIN grid /\ grid \in Grids
    BY GridFacts DEF ExpansionInv, GridInv, ShapeInv
  <2>2. CASE grid[a].kind = "list"
    BY <2>1, <2>2, GridsAssumption DEF Expands, Sequence
  <2>3. CASE grid[a].kind = "scalar"
    <3>1. lists[a] = <<grid[a].value>>
      BY <2>1, <2>3 DEF Expands
    <3>2. \A v : <<v>> \in Seq({v}) /\ Range(<<v>>) = {v}
      BY DEF Range
    <3>. QED
      BY <3>1, <3>2 DEF Sequence
  <2>4. CASE grid[a].kind = "range"
    BY <2>1, <2>4 DEF Expands, Collects
  <2>. QED
    BY <2>1, <2>2, <2>3, <2>4 DEF Expands
<1>2. ASSUME NEW a \in DOMAIN lists PROVE lists[a] \in Seq(Values(lists))
  <2>1. lists[a] \in Seq(Range(lists[a])) /\ Range(lists[a]) \subseteq Values(lists)
    BY <1>1 DEF Sequence, Values
  <2>. HIDE DEF Values
  <2>. QED
    BY <2>1
<1>. QED
  BY <1>1, <1>2

(* CreateChildren: the children are counted, and are the assignments of the   *)
(* values of the axes over the base parameters.                              *)
LEMMA CreatedChildren ==
  ASSUME GridInv, ExpansionInv, CreateChildren
  PROVE  /\ Len(children') = SizeOf(lists)
         /\ RegularGrid => Range(children') = Assignments(grid)
<1>. DEFINE S == Values(lists)
            combos == CombosOf(lists)
            n == Len(lists)
<1>1. /\ Sequence(lists) /\ n \in Nat /\ DOMAIN lists = 1 .. n /\ DOMAIN grid = 1 .. n
      /\ n = Len(grid)
  BY GridFacts DEF CreateChildren, Expanded, GridInv, ShapeInv
<1>2. \A a \in DOMAIN lists : lists[a] \in Seq(S)
  BY ListsAreSequences
<1>. HIDE DEF S
<1>3. /\ combos \in Seq(Seq(S)) /\ Len(combos) = SizeOf(lists) /\ SizeOf(lists) \in Nat
      /\ \A x : x \in Range(combos) <=> x \in Seq(S) /\ Choice(x, lists, n)
  BY <1>1, <1>2, AllCombos
<1>4. children' = [c \in DOMAIN combos |-> MergeParams(Base, combos[c])]
  <2>1. IterCombos = combos
    BY DEF IterCombos, CombosOf
  <2>. QED
    BY <2>1 DEF CreateChildren
<1>. HIDE DEF combos, n
<1>5. DOMAIN combos = 1 .. SizeOf(lists)
  BY <1>3
<1>6. Len(children') = SizeOf(lists)
  <2>. DEFINE param(c) == MergeParams(Base, combos[c])
              all == {param(c) : c \in 1 .. SizeOf(lists)}
  <2>1. children' = [c \in 1 .. SizeOf(lists) |-> param(c)]
    BY <1>4, <1>5
  <2>. HIDE DEF param
  <2>2. \A c \in 1 .. SizeOf(lists) : param(c) \in all
    OBVIOUS
  <2>. HIDE DEF all, param
  <2>3. children' \in Seq(all) /\ DOMAIN children' = 1 .. SizeOf(lists)
    BY <1>3, <2>1, <2>2
  <2>. QED
    BY <1>3, <2>3
<1>7. ASSUME RegularGrid
      PROVE  Range(children') = Assignments(grid)
  <2>. DEFINE W == UNION {Range(Meaning(grid[a])) : a \in DOMAIN grid}
              D == DOMAIN Base \cup DOMAIN grid
              Good(p) == \A q \in DOMAIN p :
                           IF q \in DOMAIN grid THEN p[q] \in Range(Meaning(grid[q]))
                                                ELSE p[q] = Base[q]
              Params == {p \in [D -> Range(Base) \cup W] : Good(p)}
  <2>1. \A a \in DOMAIN grid : Meaning(grid[a]) = lists[a]
    BY <1>1, <1>7 DEF RegularGrid, GridInv, AxesExact
  <2>2. \A q \in DOMAIN Base : Base[q] \in Range(Base)
    BY DEF Range
  <2>3. ASSUME NEW c, c \in Range(combos) PROVE MergeParams(Base, c) \in Params
    <3>. DEFINE p == MergeParams(Base, c)
    <3>1. c \in Seq(S) /\ DOMAIN c = DOMAIN grid
      BY <1>1, <1>3, <2>3 DEF Choice
    <3>2. \A q \in DOMAIN grid : c[q] \in Range(Meaning(grid[q]))
      BY <1>1, <1>3, <2>1, <2>3 DEF Choice
    <3>3. p = [q \in D |-> IF q \in DOMAIN grid THEN c[q] ELSE Base[q]]
      BY <3>1 DEF MergeParams
    <3>4. \A q \in D : (IF q \in DOMAIN grid THEN c[q] ELSE Base[q]) \in Range(Base) \cup W
      BY <2>2, <3>2
    <3>. HIDE DEF W
    <3>5. p \in [D -> Range(Base) \cup W]
      BY <3>3, <3>4
    <3>6. Good(p)
      BY <3>2, <3>3
    <3>. QED
      BY <3>5, <3>6
  <2>4. ASSUME NEW p \in Params PROVE \E c \in Range(combos) : p = MergeParams(Base, c)
    <3>. DEFINE c == [i \in 1 .. n |-> p[i]]
    <3>1. p \in [D -> Range(Base) \cup W] /\ Good(p)
      OBVIOUS
    <3>2. \A i \in 1 .. n : p[i] \in Range(lists[i]) /\ p[i] \in S
      <4>1. \A i \in 1 .. n : p[i] \in Range(lists[i])
        BY <1>1, <2>1, <3>1
      <4>. QED
        BY <1>1, <4>1 DEF S, Values
    <3>3. c \in Seq(S) /\ Len(c) = n /\ \A i \in 1 .. n : c[i] = p[i]
      BY <1>1, <3>2
    <3>4. DOMAIN c = DOMAIN grid
      BY <1>1
    <3>. HIDE DEF c
    <3>5. c \in Range(combos)
      BY <1>3, <3>2, <3>3 DEF Choice
    <3>6. MergeParams(Base, c) = [q \in D |-> IF q \in DOMAIN grid THEN c[q] ELSE Base[q]]
      BY <3>4 DEF MergeParams
    <3>7. \A q \in D : p[q] = IF q \in DOMAIN grid THEN c[q] ELSE Base[q]
      BY <1>1, <3>1, <3>3
    <3>8. p = [q \in D |-> p[q]]
      BY <3>1
    <3>9. p = MergeParams(Base, c)
      BY <3>6, <3>7, <3>8
    <3>. QED
      BY <3>5, <3>9
  <2>. HIDE DEF Params
  <2>5. \A p : p \in Range(children') <=> \E c \in Range(combos) : p = MergeParams(Base, c)
    BY <1>4 DEF Range
  <2>6. Range(children') = Params
    <3>1. ASSUME NEW p \in Range(children') PROVE p \in Params
      <4>1. PICK c \in Range(combos) : p = MergeParams(Base, c)
        BY <2>5, <3>1
      <4>. QED
        BY <2>3, <4>1
    <3>2. ASSUME NEW p \in Params PROVE p \in Range(children')
      BY <2>4, <2>5, <3>2
    <3>. QED
      BY <3>1, <3>2
  <2>. QED
    BY <2>6 DEF Params, Assignments
<1>. QED
  BY <1>6, <1>7

LEMMA InitChildrenInv == Init => ChildrenInv
  BY DEF Init, ChildrenInv, ExpansionInv, CountInv, ChildrenCounted

LEMMA NextChildrenInv ==
  ASSUME GridInv, GridInv', ChildrenInv, [Next]_vars
  PROVE  ChildrenInv'
<1>1. ExpansionInv'
  BY NextExpansionInv DEF ChildrenInv
<1>2. CASE CountChildren
  <2>0. GridSize = SizeOf(lists)
    BY DEF GridSize, SizeOf
  <2>1. /\ UNCHANGED <<grid, error>> /\ children_total' = SizeOf(lists) /\ pass' = "combos"
        /\ Len(lists) = Len(grid)
    BY <1>2, <2>0, GridFacts DEF CountChildren, Expanded, GridInv, ShapeInv
  <2>2. \A a \in DOMAIN grid : Expands(grid[a], error, lists[a])
    BY <2>1, GridFacts DEF ChildrenInv, ExpansionInv
  <2>3. CountInv'
    BY <2>1, <2>2, GridFacts DEF CountInv
  <2>. QED
    BY <1>1, <2>1, <2>3 DEF ChildrenInv, ChildrenCounted
<1>3. CASE CreateChildren
  <2>1. /\ UNCHANGED <<grid, error, lists, children_total>> /\ pass = "combos" /\ pass' = "done"
        /\ Len(lists) = Len(grid)
    BY <1>3, GridFacts DEF CreateChildren, Expanded, GridInv, ShapeInv
  <2>2. PICK l : /\ Sequence(l) /\ Len(l) = Len(grid)
                 /\ \A a \in DOMAIN grid : Expands(grid[a], error, l[a])
                 /\ children_total = SizeOf(l)
    BY <2>1 DEF ChildrenInv, CountInv
  <2>3. \A a \in DOMAIN grid : Expands(grid[a], error, lists[a])
    BY <2>1, GridFacts DEF ChildrenInv, ExpansionInv
  <2>4. l = lists
    BY <2>1, <2>2, <2>3, GridFacts, SameExpansions
  <2>5. children_total' = Len(children')
    BY <1>3, <2>1, <2>2, <2>4, CreatedChildren DEF ChildrenInv
  <2>6. ChildrenCounted'
    BY <1>3, <2>1, <2>5, CreatedChildren DEF ChildrenInv, ChildrenCounted, RegularGrid
  <2>. QED
    BY <1>1, <2>1, <2>6 DEF ChildrenInv, CountInv
<1>4. CASE \/ ExpandList \/ ExpandScalar \/ RangeRefused
           \/ StartRange \/ RangeValue \/ EndRange \/ TimeLimit \/ UNCHANGED vars
  <2>1. /\ UNCHANGED <<grid, error, children_total, children>>
        /\ pass' \in {pass, "raised", "killed"}
    BY <1>4 DEF ExpandList, ExpandScalar, RangeRefused, StartRange, RangeValue, EndRange,
       TimeLimit, Expand, vars, rangeVars
  <2>. QED
    BY <1>1, <2>1 DEF ChildrenInv, CountInv, ChildrenCounted, RegularGrid
<1>. QED
  BY <1>2, <1>3, <1>4 DEF Next

-----------------------------------------------------------------------------
(* The errors of ranges with a whole start and a float step.                 *)

(* What the i-th value of a range with a whole start and a float step is.     *)
Nearly(entry, err, i) == Term(entry, i) + (IF i = 2 THEN err[1] ELSE 0)

(* Only the first sum is left unrounded, and the second takes its error off.   *)
LEMMA SumNearly ==
  ASSUME NEW entry, NEW err, FirstSumUnrounded(entry), RangeEntry(entry),
         NEW i \in Nat \ {0}, Exact(Term(entry, i)), err[1] \in Errors, err[i] \in Errors
  PROVE  /\ Exact(Term(entry, i + 1))
         /\ NextValue(Nearly(entry, err, i), entry, IsFloat(entry, i), err[i])
              = Nearly(entry, err, i + 1)
<1>. DEFINE t == Term(entry, i)
            u == Term(entry, i + 1)
<1>1. t \in Int /\ u \in Int /\ u = t + entry.step /\ entry.step \in Int /\ Exact(entry.step)
  <2>1. i \in Int
    OBVIOUS
  <2>. QED
    BY <2>1, Terms DEF RangeEntry, FirstSumUnrounded
<1>2. Exact(t)
  OBVIOUS
<1>3. /\ err[1] \in Int /\ err[i] \in Int
      /\ -Grain < 2 * err[i] /\ 2 * err[i] < Grain
      /\ -Grain < 2 * (err[1] + err[i]) /\ 2 * (err[1] + err[i]) < Grain
  BY ErrorFacts
<1>4. entry.float = "step"
  BY DEF FirstSumUnrounded
<1>. HIDE DEF t, u
<1>5. Exact(u)
  BY <1>1, <1>2, SumExact
<1>6. CASE i = 1
  <2>1. Nearly(entry, err, i) = t /\ Nearly(entry, err, i + 1) = u + err[1]
    BY <1>1, <1>6 DEF Nearly, t, u
  <2>2. ~ IsFloat(entry, i)
    BY <1>4, <1>6 DEF IsFloat
  <2>3. NextValue(t, entry, IsFloat(entry, i), err[i]) = t + entry.step + err[i]
    BY <1>4, <2>2 DEF NextValue
  <2>. QED
    BY <1>1, <1>5, <1>6, <2>1, <2>3 DEF u
<1>7. CASE i # 1
  <2>. DEFINE e == (IF i = 2 THEN err[1] ELSE 0) + err[i]
  <2>1. Nearly(entry, err, i) = t + (IF i = 2 THEN err[1] ELSE 0)
        /\ Nearly(entry, err, i + 1) = u
    BY <1>1, <1>7 DEF Nearly, t, u
  <2>2. e \in Int /\ -Grain < 2 * e /\ 2 * e < Grain
    <3>1. CASE i = 2
      BY <1>3, <3>1
    <3>2. CASE i # 2
      BY <1>3, <3>2
    <3>. QED
      BY <3>1, <3>2
  <2>3. Nearly(entry, err, i) + entry.step + err[i] = u + e
    BY <1>1, <1>3, <2>1
  <2>. HIDE DEF e
  <2>4. Rounded(u + e) = u
    BY <1>1, <1>5, <2>2, RoundedExactly
  <2>5. IsFloat(entry, i)
    BY <1>4, <1>7 DEF IsFloat
  <2>6. NextValue(Nearly(entry, err, i), entry, IsFloat(entry, i), err[i]) = Rounded(u + e)
    BY <1>4, <2>3, <2>5 DEF NextValue
  <2>. QED
    BY <1>5, <2>1, <2>4, <2>6 DEF u
<1>. QED
  BY <1>6, <1>7

LEMMA NearlyExpanded ==
  ASSUME NEW entry, NEW err \in [1 .. MaxValues -> Errors], NEW list,
         RangeEntry(entry), FirstSumUnrounded(entry), Expands(entry, err, list)
  PROVE  LET means == Progression(entry)
         IN /\ \/ Len(list) = Len(means)
               \/ Len(list) = 1 /\ Len(means) = 2 /\ means[2] = entry.stop
            /\ \A i \in DOMAIN list \ {2} : list[i] = means[i]
            /\ 2 \in DOMAIN list => list[2] - means[2] \in Errors
<1>. DEFINE n == Len(list)
            means == Progression(entry)
<1>1. /\ n \in Nat /\ DOMAIN list = 1 .. n /\ n <= MaxValues /\ MaxValues \in Nat
      /\ \A i \in 1 .. n : /\ Within(entry, list[i])
                           /\ list[i] = IF i = 1 THEN entry.start ELSE Sum(entry, err, list, i - 1)
      /\ ~ Within(entry, Coming(entry, err, list))
  BY SequenceFacts, BoundsAssumption DEF Expands, Collects, FirstSumUnrounded
<1>2. \A i \in 1 .. n : err[i] \in Errors
  BY <1>1
<1>3. /\ Exact(entry.start) /\ Exact(entry.stop) /\ Term(entry, 1) = entry.start
      /\ entry.start \in Int /\ entry.stop \in Int
  BY DEF FirstSumUnrounded, RangeEntry, Term
<1>4. Coming(entry, err, list) = IF n = 0 THEN entry.start ELSE Sum(entry, err, list, n)
  BY DEF Coming
<1>. HIDE DEF n, means
<1>5. ASSUME NEW i \in 1 .. n, list[i] = Nearly(entry, err, i), Exact(Term(entry, i))
      PROVE  Sum(entry, err, list, i) = Nearly(entry, err, i + 1) /\ Exact(Term(entry, i + 1))
  <2>1. i \in Nat \ {0} /\ err[1] \in Errors /\ err[i] \in Errors
    BY <1>1, <1>2
  <2>. QED
    BY <1>5, <2>1, SumNearly DEF Sum
<1>0. n \in Nat
  BY <1>1
<1>6. ASSUME NEW i \in 1 .. n PROVE list[i] = Nearly(entry, err, i) /\ Exact(Term(entry, i))
  <2>. DEFINE T == {j \in 0 .. n : j = 0 \/ (list[j] = Nearly(entry, err, j) /\ Exact(Term(entry, j)))}
  <2>1. 0 \in T
    BY <1>1
  <2>2. ASSUME NEW j \in 0 .. n - 1, j \in T PROVE j + 1 \in T
    <3>1. j + 1 \in 1 .. n /\ (j + 1) - 1 = j
      <4>. HIDE DEF T
      <4>. QED
        BY <1>0
    <3>2. CASE j = 0
      <4>1. list[1] = entry.start /\ Nearly(entry, err, 1) = entry.start
        BY <1>1, <1>3, <3>1, <3>2 DEF Nearly
      <4>. QED
        BY <1>3, <3>1, <3>2, <4>1
    <3>3. CASE j # 0
      <4>1. j \in 1 .. n /\ list[j] = Nearly(entry, err, j) /\ Exact(Term(entry, j))
        BY <1>1, <2>2, <3>3
      <4>2. list[j + 1] = Sum(entry, err, list, (j + 1) - 1)
        BY <1>1, <3>1, <3>3
      <4>3. list[j + 1] = Sum(entry, err, list, j)
        BY <3>1, <4>2
      <4>. QED
        BY <1>5, <3>1, <4>1, <4>3
    <3>. QED
      BY <3>2, <3>3
  <2>. HIDE DEF T
  <2>3. 0 .. n \subseteq T
    BY <1>1, <2>1, <2>2, UpTo
  <2>. QED
    BY <1>1, <2>3 DEF T
<1>7. ~ Within(entry, Nearly(entry, err, n + 1)) /\ Exact(Term(entry, n + 1))
  <2>1. CASE n = 0
    BY <1>1, <1>3, <1>4, <2>1 DEF Nearly
  <2>2. CASE n # 0
    <3>1. n \in 1 .. n
      BY <1>1, <2>2
    <3>. QED
      BY <1>1, <1>4, <1>5, <1>6, <2>2, <3>1
  <2>. QED
    BY <2>1, <2>2
<1>8. \A i \in Int : Term(entry, i) \in Int /\ Term(entry, i + 1) = Term(entry, i) + entry.step
  BY Terms
<1>a. Term(entry, 2) \in Int /\ Term(entry, 2 + 1) = Term(entry, 2) + entry.step
  <2>. DEFINE two == 2
  <2>1. two \in Int /\ two = 2
    OBVIOUS
  <2>. HIDE DEF two
  <2>2. Term(entry, two) \in Int /\ Term(entry, two + 1) = Term(entry, two) + entry.step
    BY <1>8, <2>1
  <2>. QED
    BY <2>1, <2>2
<1>9. n >= 1 => Within(entry, Term(entry, 1))
  <2>. SUFFICES ASSUME n >= 1 PROVE Within(entry, Term(entry, 1))
    OBVIOUS
  <2>1. 1 \in 1 .. n
    BY <1>1
  <2>. QED
    BY <1>1, <1>3, <2>1
<1>10. n >= 1 => err[1] \in Errors /\ err[1] \in Int /\ -Grain < 2 * err[1] /\ 2 * err[1] < Grain
  BY <1>1, <1>2, ErrorFacts
<1>11. CASE n # 1
  <2>1. n = 0 \/ Within(entry, Term(entry, n))
    <3>1. CASE n = 2
      <4>1. Within(entry, Term(entry, 2) + err[1]) /\ Exact(Term(entry, 2))
        BY <1>1, <1>6, <3>1 DEF Nearly
      <4>2. Term(entry, 2) # entry.stop =>
              Term(entry, 2) >= entry.stop + Grain \/ entry.stop >= Term(entry, 2) + Grain
        BY <1>3, <1>a, <4>1, Apart
      <4>3. err[1] \in Int /\ -Grain < 2 * err[1] /\ 2 * err[1] < Grain
        BY <1>10, <3>1
      <4>. QED
        BY <1>3, <1>a, <3>1, <4>1, <4>2, <4>3 DEF Within
    <3>2. CASE n # 2 /\ n # 0
      <4>1. n \in 1 .. n /\ n \in Int
        BY <1>1, <3>2
      <4>2. list[n] = Term(entry, n)
        <5>1. list[n] = Term(entry, n) + 0 /\ Term(entry, n) \in Int
          BY <1>6, <1>8, <3>2, <4>1 DEF Nearly
        <5>. QED
          BY <5>1
      <4>. QED
        BY <1>1, <4>1, <4>2
    <3>. QED
      BY <3>1, <3>2
  <2>2. ~ Within(entry, Term(entry, n + 1))
    <3>1. Nearly(entry, err, n + 1) = Term(entry, n + 1)
      BY <1>1, <1>8, <1>11 DEF Nearly
    <3>. QED
      BY <1>7, <3>1
  <2>3. means = [i \in 1 .. n |-> Term(entry, i)]
    BY <1>1, <2>1, <2>2, ProgressionOf DEF means
  <2>4. Len(means) = n
    BY <1>1, <2>3
  <2>5. \A i \in 1 .. n : list[i] = means[i] + (IF i = 2 THEN err[1] ELSE 0)
    BY <1>6, <2>3 DEF Nearly
  <2>6. \A i \in DOMAIN list \ {2} : list[i] = means[i]
    <3>. SUFFICES ASSUME NEW i \in 1 .. n, i # 2 PROVE list[i] = means[i]
      BY <1>1
    <3>1. means[i] \in Int /\ list[i] = means[i] + 0
      BY <1>8, <2>3, <2>5
    <3>. QED
      BY <3>1
  <2>7. 2 \in DOMAIN list => list[2] - means[2] \in Errors
    <3>. SUFFICES ASSUME 2 \in 1 .. n PROVE list[2] - means[2] \in Errors
      BY <1>1
    <3>1. means[2] \in Int /\ list[2] = means[2] + err[1] /\ err[1] \in Int /\ err[1] \in Errors
      BY <1>1, <1>8, <1>10, <2>3, <2>5
    <3>2. list[2] - means[2] = err[1]
      BY <3>1
    <3>. QED
      BY <3>1, <3>2
  <2>. QED
    BY <2>4, <2>6, <2>7 DEF n, means
<1>12. CASE n = 1
  <2>1. list[1] = Term(entry, 1)
    BY <1>1, <1>3, <1>12
  <2>2. ~ Within(entry, Term(entry, 2) + err[1]) /\ Exact(Term(entry, 2))
    BY <1>7, <1>12 DEF Nearly
  <2>3. CASE ~ Within(entry, Term(entry, 2))
    <3>1. means = [i \in 1 .. 1 |-> Term(entry, i)]
      <4>1. Within(entry, Term(entry, 1)) /\ ~ Within(entry, Term(entry, 1 + 1))
        BY <1>9, <1>12, <2>3
      <4>. QED
        BY <4>1, ProgressionOf DEF means
    <3>2. Len(means) = 1 /\ means[1] = Term(entry, 1)
      BY <3>1
    <3>. QED
      BY <1>1, <1>12, <2>1, <3>2 DEF n, means
  <2>4. CASE Within(entry, Term(entry, 2))
    <3>1. Term(entry, 2) = entry.stop
      <4>1. Term(entry, 2) # entry.stop =>
              Term(entry, 2) >= entry.stop + Grain \/ entry.stop >= Term(entry, 2) + Grain
        BY <1>3, <1>a, <2>2, Apart
      <4>2. err[1] \in Int /\ -Grain < 2 * err[1] /\ 2 * err[1] < Grain
        BY <1>10, <1>12
      <4>. QED
        BY <1>3, <1>a, <2>2, <2>4, <4>1, <4>2 DEF Within
    <3>2. ~ Within(entry, Term(entry, 2 + 1))
      <4>1. Term(entry, 2 + 1) = entry.stop + entry.step
        BY <1>a, <3>1
      <4>. QED
        BY <1>3, <4>1 DEF Within, RangeEntry
    <3>3. means = [i \in 1 .. 2 |-> Term(entry, i)]
      BY <2>4, <3>2, ProgressionOf DEF means
    <3>4. Len(means) = 2 /\ means[1] = Term(entry, 1) /\ means[2] = Term(entry, 2)
      BY <3>3
    <3>. QED
      BY <1>1, <1>12, <2>1, <3>1, <3>4 DEF n, means
  <2>. QED
    BY <2>3, <2>4
<1>. QED
  BY <1>11, <1>12

-----------------------------------------------------------------------------
(* What a grid is expanded to.                                              *)

(* The inductive invariant of both passes.                                  *)
THEOREM GridInvariant == Spec => []GridInv
  BY InitGridInv, NextGridInv, PTL DEF Spec

(* _expand_value_spec yields the values an axis means, whatever the errors of *)
(* float sums below the resolution of round(_, 12).                          *)
THEOREM AxesExpandExactly == Spec => []AxesExact
<1>1. GridInv => AxesExact
  BY DEF GridInv
<1>. QED
  BY <1>1, GridInvariant, PTL

(* GridError is raised for the grids that mean no child, and for no other.     *)
THEOREM GridsRefusedJustly == Spec => []RefusedJustly
<1>1. GridInv => RefusedJustly
  BY DEF GridInv
<1>. QED
  BY <1>1, GridInvariant, PTL

(* The expansion of a range runs into optimize's time limit only if it is too   *)
(* long for it or its step finer than round(_, 12) resolves, and there it does,  *)
(* for whatever time the limit gives it.                                    *)
THEOREM RangesEndUnlessTooFine == Spec => []RangesEnd
<1>1. GridInv => RangesEnd
  BY DEF GridInv
<1>. QED
  BY <1>1, GridInvariant, PTL

(* The invariant of both passes together: the second finds the lists of the    *)
(* first, so the children are as many as were counted.                      *)
THEOREM ChildrenInvariant == Spec => []ChildrenInv
  BY InitChildrenInv, NextChildrenInv, GridInvariant, PTL DEF Spec

(* grid_size is the number of children iter_combos creates, for every grid and *)
(* all errors, and they are the assignments the grid means.                  *)
THEOREM ChildrenAreCounted == Spec => []ChildrenCounted
<1>1. ChildrenInv => ChildrenCounted
  BY DEF ChildrenInv
<1>. QED
  BY <1>1, ChildrenInvariant, PTL

(* The unrounded first sum of a whole start and a float step puts the second   *)
(* value off by one error, and loses at most a second value that is stop.     *)
THEOREM ErrorsStaySmall == Spec => []ErrorStaysOnce
<1>1. GridInv /\ ExpansionInv => ErrorStaysOnce
  <2>. SUFFICES ASSUME GridInv, ExpansionInv, NEW a \in DOMAIN lists, FirstSumUnrounded(grid[a])
                PROVE  LET list  == lists[a]
                           means == Meaning(grid[a])
                       IN /\ \/ Len(list) = Len(means)
                             \/ Len(list) = 1 /\ Len(means) = 2 /\ means[2] = grid[a].stop
                          /\ \A i \in DOMAIN list \ {2} : list[i] = means[i]
                          /\ 2 \in DOMAIN list => list[2] - means[2] \in Errors
    BY DEF ErrorStaysOnce
  <2>1. a \in DOMAIN grid /\ grid \in Grids /\ error \in [1 .. MaxValues -> Errors]
        /\ Expands(grid[a], error, lists[a])
    BY GridFacts DEF GridInv, ShapeInv, ExpansionInv
  <2>2. RangeEntry(grid[a]) /\ Meaning(grid[a]) = Progression(grid[a])
    BY <2>1, GridsAssumption DEF FirstSumUnrounded, RangeEntry, Meaning
  <2>. QED
    BY <2>1, <2>2, NearlyExpanded
<1>2. ChildrenInv => ExpansionInv
  BY DEF ChildrenInv
<1>. QED
  BY <1>1, <1>2, GridInvariant, ChildrenInvariant, PTL
=============================================================================
