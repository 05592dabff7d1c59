------------------------- MODULE MCNightlyIngestion -------------------------
(* A small instance of NightlyIngestion for TLC.                           *)
EXTENDS NightlyIngestion, TLC

SymbolSymmetry == Permutations(Symbols)
=============================================================================
