--------------------------- MODULE MCEpochRounds ---------------------------
(* Instances of EpochRounds small enough for TLC.                          *)
EXTENDS EpochRounds, TLC

CONSTANTS d1, d2

DevSym == Permutations(Dev)
=============================================================================
