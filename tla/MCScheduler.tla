---------------------------- MODULE MCScheduler -----------------------------
(* Small instances of Scheduler for TLC.                                   *)
EXTENDS Scheduler, TLC

Syncing(seconds) == [enabled |-> TRUE, sync_enabled |-> TRUE, interval |-> seconds]

Paused == [enabled |-> TRUE, sync_enabled |-> FALSE, interval |-> 1]

Disabled == [enabled |-> FALSE, sync_enabled |-> TRUE, interval |-> 1]

FastConfigs == {Syncing(1), Paused}

(* Intervals below, at and above the stale threshold.                      *)
CadenceConfigs == {Syncing(1), Syncing(2), Syncing(3), Paused, Disabled}

Symmetry == Permutations(RunIds)
=============================================================================
