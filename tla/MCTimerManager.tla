--------------------------- MODULE MCTimerManager ---------------------------
(***************************************************************************)
(* Instances of TimerManager for TLC.                                      *)
(***************************************************************************)
EXTENDS TimerManager, TLC

CONSTANTS w1, w2

Symmetry == Permutations(Workers)
=============================================================================
