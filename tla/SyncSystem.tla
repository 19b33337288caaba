----------------------------- MODULE SyncSystem -----------------------------
(***************************************************************************)
(* The two writers of NetBox on one host: the manual apply worker and the  *)
(* scheduled tick, which share the run history, the lock file and NetBox,  *)
(* and know nothing else of each other.                                    *)
(***************************************************************************)
EXTENDS ApplyWorker, Scheduler

systemVars == <<boundaryVars, workerVars, schedulerVars>>

Init == BoundaryInit /\ WorkerInit /\ SchedulerInit

WorkerMoves == WorkerNext /\ UNCHANGED schedulerVars

SchedulerMoves == SchedulerNext /\ UNCHANGED workerVars

EnvironmentMoves == EnvironmentStep /\ UNCHANGED <<workerVars, schedulerVars>>

Next == WorkerMoves \/ SchedulerMoves \/ EnvironmentMoves

Spec == Init /\ [][Next]_systemVars

-----------------------------------------------------------------------------
(* Type invariant of the whole system.                                     *)
TypeOK == BoundaryType /\ WorkerType /\ SchedulerType

(* The run that may be writing to NetBox right now.                        *)
WorkerApplying == wpc \in ChildPoints

SchedulerApplying == spc \in ExecutePoints

(* Manual and scheduled executions never overlap, and neither runs inside  *)
(* a maintenance window: whatever crashes, restarts or gives up, at most   *)
(* one process is between its last look at NetBox and its last write       *)
(* (apply's flock, run-scheduled-sync.sh, Maintenance).                    *)
MutualExclusion ==
    /\ ~(WorkerApplying /\ SchedulerApplying)
    /\ lock \in {"free", "maintenance"} => ~WorkerApplying /\ ~SchedulerApplying

(* The run whose plan was computed and whose writes are not over.          *)
Committed(r) == \/ wpc \in {"precheck", "write"} /\ r = run
                \/ spc \in {"precheck", "write"} /\ r = srun

(* Between the plan a run was checked against and its last write, nobody   *)
(* else changes NetBox, except a request of a run that died or failed      *)
(* earlier and that NetBox executes late: the lock does not cover those.   *)
PlanStaysCurrent ==
    [][\A r, q \in RunIds :
          Committed(r) /\ q # r /\ left'[q] < left[q] => q \in inflight]_systemVars
=============================================================================
