---------------------------- MODULE MCIngestion ----------------------------
(* A small instance of Ingestion for TLC.                                  *)
EXTENDS Ingestion

CONSTANTS d1, d2

Row(d, usable) == [ts |-> d, usable |-> usable]

\* Nothing, one day, both days, and a day that comes twice, the second unusable.
MCFetches ==
  {<<>>, <<Row(d1, TRUE)>>, <<Row(d1, TRUE), Row(d2, TRUE)>>,
   <<Row(d1, TRUE), Row(d1, FALSE), Row(d2, FALSE)>>}

SlotSymmetry == Permutations(Slots)
=============================================================================
