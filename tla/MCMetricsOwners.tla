--------------------------- MODULE MCMetricsOwners ----------------------------
(* The two owners of a collection, the ledger of windows and the keys of     *)
(* manual requests, in one run: they meet in no row, since a snapshot belongs *)
(* to one or the other, so a behaviour shows one of them at work.            *)
EXTENDS MCMetricsTasks, ExternalOperations

CONSTANTS c1, c2, c3

OwnersInit == Init /\ OpInit

OwnersNext ==
    \/ OpInit /\ Next /\ UNCHANGED opVars
    \/ Init /\ OpNext /\ UNCHANGED vars

OwnersSpec == OwnersInit /\ [][OwnersNext]_<<vars, opVars>>

OwnersSymmetry == RunnerSymmetry \cup Permutations(Callers)
=============================================================================
