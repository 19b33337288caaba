-------------------------- MODULE MCScheduleControl --------------------------
(***************************************************************************)
(* Two operators and two bootstraps on one row whose first interval is one *)
(* that may no longer be asked for.                                        *)
(***************************************************************************)
EXTENDS ScheduleControl, TLC

SameOperators == Permutations(Operators)

Plan(sync, interval) == [sync |-> sync, interval |-> interval]

MCSchedules == {Plan(TRUE, 1), Plan(TRUE, 2), Plan(FALSE, 2)}

MCAllowed == {s \in MCSchedules : s.interval >= 2}

MCFirstRow == [sync |-> TRUE, interval |-> 1, config |-> "first", version |-> 0]

MCCandidate == [b1 |-> [sync |-> TRUE, interval |-> 1, config |-> "renamed"],
                b2 |-> [sync |-> TRUE, interval |-> 2, config |-> "moved"]]
=============================================================================
