-------------------------- MODULE MCBacktestRuns --------------------------
(* Small instances of BacktestRuns for TLC. *)
EXTENDS BacktestRuns, TLC

\* Slots, and runs, are interchangeable; used where no liveness is checked.
WorkerSymmetry == Permutations(Workers)
RunSymmetry    == Permutations(Runs) \cup WorkerSymmetry
=============================================================================
