--------------------------- MODULE MCAccountHealth ---------------------------
(* Small instances of AccountHealth for TLC.                                 *)
EXTENDS AccountHealth, TLC

CONSTANTS j1, j2

JobSymmetry == Permutations(Jobs)
=============================================================================
