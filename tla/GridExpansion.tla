-------------------------- MODULE GridExpansion --------------------------
(***************************************************************************)
(* How runs.optimize expands the grid of a sweep: grid_size expands every  *)
(* axis to count the children, iter_combos expands them once more to       *)
(* enumerate the children's parameters.  Axis i of a grid is its i-th key  *)
(* in sorted order.                                                        *)
(*                                                                         *)
(* Numbers are counted in a unit finer than round(_, 12), whose results    *)
(* are the multiples of Grain; the sum of two floats may be off by a few   *)
(* units.                                                                  *)
(***************************************************************************)
EXTENDS Integers, SequencesExt

CONSTANTS
  Grids,      \* grids a sweep may have: sequences of axis specifications
  Base,       \* the sweep's base_params
  Grain,      \* how many units make 1e-12
  Errors,     \* errors of a float sum, in units
  MaxValues   \* bound: values a range collects before the time limit

\* A sum is off by less than half of 1e-12, as are those of up to two thousand.
ASSUME GrainAssumption ==
  /\ Grain \in Nat \ {0}
  /\ \A e \in Errors : e \in Int /\ -Grain < 2 * e /\ 2 * e < Grain
\* So are two sums together.
ASSUME TwoErrorsAssumption ==
  \A d, e \in Errors : -Grain < 2 * (d + e) /\ 2 * (d + e) < Grain

VARIABLES
  grid,            \* sweep.grid
  error,           \* the error of the i-th sum of a range
  pass,            \* "size", "combos" or how the expansion ended
  lists,           \* value_lists of this pass, so far
  in_range,        \* a range is being expanded
  value, is_float, \* the loop's value, and whether it is a float
  values,          \* what the loop has collected
  children_total,  \* what grid_size returned
  children         \* parameters of the children created

rangeVars == <<in_range, value, is_float, values>>
vars == <<grid, error, pass, lists, rangeVars, children_total, children>>

Passes == {"size", "combos"}
Axis   == Len(lists) + 1
Entry  == grid[Axis]  \* the axis that is being expanded
At(kind) == pass \in Passes /\ Axis <= Len(grid) /\ Entry.kind = kind

Init ==
  /\ grid \in Grids
  /\ error \in [1 .. MaxValues -> Errors]
  /\ pass = "size"
  /\ lists = <<>>
  /\ in_range = FALSE
  /\ value = 0
  /\ is_float = FALSE
  /\ values = <<>>
  /\ children_total = 0
  /\ children = <<>>

-----------------------------------------------------------------------------
(* _expand_value_spec.                                                      *)

\* The axis is expanded to a list, or a GridError ends the pass.
Expand(list) ==
  /\ IF list = <<>> THEN pass' = "raised" /\ UNCHANGED lists
                    ELSE lists' = Append(lists, list) /\ UNCHANGED pass
  /\ in_range' = FALSE
  /\ value' = 0
  /\ is_float' = FALSE
  /\ values' = <<>>
  /\ UNCHANGED <<grid, error, children_total, children>>

ExpandList   == At("list") /\ Expand(Entry.values)
ExpandScalar == At("scalar") /\ Expand(<<Entry.value>>)

\* A range without 'start' or 'stop', or with step zero.
RangeRefused ==
  /\ At("incomplete") \/ (At("range") /\ Entry.step = 0)
  /\ Expand(<<>>)

StartRange ==
  /\ At("range")
  /\ ~ in_range
  /\ Entry.step # 0
  /\ in_range' = TRUE
  /\ value' = Entry.start
  /\ is_float' = (Entry.float = "start")
  /\ UNCHANGED <<grid, error, pass, lists, values, children_total, children>>

Before(entry, v) == IF entry.step > 0 THEN v < entry.stop ELSE v > entry.stop  \* mutant
Within(entry, v) == IF entry.step > 0 THEN v <= entry.stop ELSE v >= entry.stop

\* Round half to even.
Rounded(x) ==
  LET q == x \div Grain
      r == x % Grain
  IN Grain * (IF 2 * r < Grain \/ (2 * r = Grain /\ q % 2 = 0) THEN q ELSE q + 1)

Drifting(v, entry, float, e) == v + entry.step + (IF entry.float = "none" THEN 0 ELSE e) \* mutant
Floored(v, entry, float, e) ==  \* mutant
  IF entry.float = "none" THEN v + entry.step
                          ELSE Grain * ((v + entry.step + e) \div Grain)
\* Only the sum with a value that is already a float is rounded.
NextValue(v, entry, float, e) ==
  IF entry.float = "none" THEN v + entry.step
  ELSE IF float THEN Rounded(v + entry.step + e)
  ELSE v + entry.step + e

RangeValue ==
  /\ in_range
  /\ Within(Entry, value)
  /\ Len(values) < MaxValues
  /\ values' = Append(values, value)
  /\ value' = NextValue(value, Entry, is_float, error[Len(values')])
  /\ is_float' = (Entry.float # "none")
  /\ UNCHANGED <<grid, error, pass, lists, in_range, children_total, children>>

EndRange ==
  /\ in_range
  /\ ~ Within(Entry, value)
  /\ Expand(values)

\* The loop goes on until optimize's time limit ends the task.
TimeLimit ==
  /\ in_range
  /\ pass \in Passes
  /\ Within(Entry, value)
  /\ Len(values) = MaxValues
  /\ pass' = "killed"
  /\ UNCHANGED <<grid, error, lists, rangeVars, children_total, children>>

-----------------------------------------------------------------------------
(* grid_size, iter_combos and merge_params.                                 *)

GridSize == FoldLeft(LAMBDA total, list : total * Len(list), 1, lists)

\* itertools.product: the last axis varies fastest.
IterCombos ==
  FoldLeft(LAMBDA combos, list :
             FlattenSeq([c \in DOMAIN combos |->
                           [k \in DOMAIN list |-> Append(combos[c], list[k])]]),
           << <<>> >>, lists)

BaseWins(base, combo) ==  \* mutant
  [p \in DOMAIN base \cup DOMAIN combo |->
     IF p \in DOMAIN base THEN base[p] ELSE combo[p]]
MergeParams(base, combo) ==
  [p \in DOMAIN base \cup DOMAIN combo |->
     IF p \in DOMAIN combo THEN combo[p] ELSE base[p]]

Expanded(p) == pass = p /\ Axis > Len(grid)

CountChildren ==
  /\ Expanded("size")
  /\ children_total' = GridSize
  /\ pass' = "combos"
  /\ lists' = <<>>
  /\ UNCHANGED <<grid, error, rangeVars, children>>

CreateChildren ==
  /\ Expanded("combos")
  /\ children' = [c \in DOMAIN IterCombos |-> MergeParams(Base, IterCombos[c])]
  /\ pass' = "done"
  /\ UNCHANGED <<grid, error, lists, rangeVars, children_total>>

Next ==
  \/ ExpandList \/ ExpandScalar \/ RangeRefused
  \/ StartRange \/ RangeValue \/ EndRange \/ TimeLimit
  \/ CountChildren \/ CreateChildren

Spec == Init /\ [][Next]_vars

-----------------------------------------------------------------------------
(* What a grid means, independently of how it is expanded.                  *)

Exact(n) == n % Grain = 0

\* Python computes with it as with decimal numbers: whole numbers only, or a
\* float start and numbers of at most twelve decimals.
Regular(entry) ==
  (entry.kind = "range" /\ entry.float # "none")
    => entry.float = "start" /\ Exact(entry.start) /\ Exact(entry.step)

RegularGrid == \A a \in DOMAIN grid : Regular(grid[a])

\* All of start, start + step, ... that do not pass stop, and stop itself if met.
Progression(entry) ==
  LET sign  == IF entry.step > 0 THEN 1 ELSE -1
      count == (sign * (entry.stop - entry.start)) \div (sign * entry.step) + 1
  IN [i \in 1 .. count |-> entry.start + (i - 1) * entry.step]

Meaning(entry) ==
  CASE entry.kind = "list"       -> entry.values
    [] entry.kind = "scalar"     -> <<entry.value>>
    [] entry.kind = "incomplete" -> <<>>
    [] entry.kind = "range"      ->
         IF entry.step = 0 THEN <<>> ELSE Progression(entry)

ASSUME GridsAssumption ==
  \A g \in Grids :
    /\ g \in Seq(Range(g))
    /\ \A a \in DOMAIN g :
         /\ g[a].kind \in {"list", "scalar", "incomplete", "range"}
         /\ g[a].kind = "list" => g[a].values \in Seq(Range(g[a].values))
         /\ g[a].kind = "range" => /\ {g[a].start, g[a].stop, g[a].step} \subseteq Int
                                   /\ g[a].float \in {"none", "start", "step"}

ASSUME BoundsAssumption == MaxValues \in Nat

\* Axes are expanded to what they mean: float errors never add up, never lose
\* the last value of a range and never admit one past stop, in either pass.
AxesExact ==
  \A a \in DOMAIN lists : Regular(grid[a]) => lists[a] = Meaning(grid[a])

\* The first sum of a range with a whole start and a float step is not rounded:
\* -1 + 1.1 is 0.10000000000000009.
FirstSumUnrounded(entry) ==
  /\ entry.kind = "range" /\ entry.float = "step" /\ entry.step # 0
  /\ Exact(entry.start) /\ Exact(entry.stop) /\ Exact(entry.step)

\* That costs no more than it must: only the second value is off, by the error of
\* one sum, no later sum carries the error on, no value past stop is admitted, and
\* none is lost but a second one that is stop itself.
ErrorStaysOnce ==
  \A a \in DOMAIN lists : FirstSumUnrounded(grid[a]) =>
    LET list  == lists[a]
        means == Meaning(grid[a])
    IN /\ \/ Len(list) = Len(means)
          \/ Len(list) = 1 /\ Len(means) = 2 /\ means[2] = grid[a].stop
       /\ \A i \in DOMAIN list \ {2} : list[i] = means[i]
       /\ 2 \in DOMAIN list => list[2] - means[2] \in Errors

\* A grid is refused exactly when one of its axes means no value.
RefusedJustly ==
  /\ (RegularGrid /\ pass = "raised") => \E a \in DOMAIN grid : Meaning(grid[a]) = <<>>
  /\ (RegularGrid /\ pass = "done")   => \A a \in DOMAIN grid : Meaning(grid[a]) # <<>>

\* A step finer than round(_, 12) resolves.
Finer(entry) == -Grain < entry.step /\ entry.step < Grain

\* round(_, 12) takes such a step back: the value of the loop stays the start.
NeverAdvances(entry) ==
  /\ entry.kind = "range" /\ entry.float = "start" /\ entry.step # 0
  /\ Exact(entry.start) /\ Within(entry, entry.start)
  /\ \A e \in Errors : -Grain < 2 * (entry.step + e) /\ 2 * (entry.step + e) < Grain

\* The loop runs into optimize's time limit on a range of more values than it
\* has time for, and on a step finer than 1e-12; every other step advances, by no
\* less than half of what it means. A range that never advances is never expanded.
RangesEnd ==
  /\ pass = "killed" =>
       \/ Len(Meaning(Entry)) > MaxValues
       \/ ~ Regular(Entry) /\ (Finer(Entry) \/ 2 * Len(Meaning(Entry)) >= MaxValues)
  /\ \A a \in DOMAIN lists : ~ NeverAdvances(grid[a])

\* A value for each swept parameter, and the base parameters for the others.
Assignments(g) ==
  {p \in [DOMAIN Base \cup DOMAIN g ->
            Range(Base) \cup UNION {Range(Meaning(g[a])) : a \in DOMAIN g}] :
     \A q \in DOMAIN p :
       IF q \in DOMAIN g THEN p[q] \in Range(Meaning(g[q])) ELSE p[q] = Base[q]}

\* The count of the first pass is the number of children the second creates, for
\* every grid, and these are the assignments of values to its parameters.
ChildrenCounted ==
  pass = "done" =>
    /\ children_total = Len(children)
    /\ RegularGrid => Range(children) = Assignments(grid)
=============================================================================
