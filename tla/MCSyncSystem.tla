---------------------------- MODULE MCSyncSystem ----------------------------
(* Small instances of SyncSystem for TLC.                                  *)
EXTENDS SyncSystem, TLC

SyncConfigs == {[enabled |-> TRUE, sync_enabled |-> TRUE, interval |-> 1]}

Symmetry == Permutations(Calls) \cup Permutations(RunIds)
=============================================================================
