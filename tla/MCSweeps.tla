----------------------------- MODULE MCSweeps -----------------------------
(* Small instances of Sweeps for TLC. *)
EXTENDS Sweeps, TLC

\* Combinations, slots and durations are interchangeable; used where no liveness
\* is checked.
Symmetry ==
  Permutations(Combos) \cup Permutations(Slots) \cup Permutations(Durations)
=============================================================================
