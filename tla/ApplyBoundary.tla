---------------------------- MODULE ApplyBoundary ---------------------------
(***************************************************************************)
(* What every writer of NetBox shares: the run history, the flock on       *)
(* /run/netbox-sync/apply.lock, and NetBox itself, reduced to how far the  *)
(* mutations of each run have got.                                         *)
(*                                                                         *)
(*   left[r]    mutations of run r's executors that have not landed yet    *)
(*   touched    runs of which at least one mutation landed                 *)
(*   applied[r] digest of the plan computed right before run r's writes    *)
(*   inflight   runs whose process died with an HTTP request unanswered;   *)
(*              NetBox may still execute it                                *)
(*                                                                         *)
(* Plans: the inventory of a provider and the content of NetBox change at  *)
(* any time, so each plan that is computed may have any digest; a plan     *)
(* whose digest is in Blocked holds a BLOCKED item (apply_allowed = false).*)
(***************************************************************************)
EXTENDS RunHistory

CONSTANTS Blocked,     \* digests of plans with a BLOCKED item
          MaxWrites,   \* bound: mutations of one run
          MaxTime      \* bound: ticks of the clock

ASSUME BoundaryAssumption ==
    /\ Blocked \subseteq Digests
    /\ MaxWrites \in Nat
    /\ MaxTime \in Nat

VARIABLES lock, left, touched, inflight, applied

boundaryVars == <<runs, now, lock, left, touched, inflight, applied>>

Holders == {"free", "worker", "scheduler", "maintenance"}

BoundaryType ==
    /\ RunsType
    /\ now \in Nat
    /\ lock \in Holders
    /\ left \in [RunIds -> Nat]
    /\ touched \subseteq RunIds
    /\ inflight \subseteq RunIds
    /\ applied \in [RunIds -> Digests \cup {None}]

BoundaryInit ==
    /\ runs = [r \in RunIds |-> NoRow]
    /\ now = 0
    /\ lock = "free"
    /\ left = [r \in RunIds |-> 0]
    /\ touched = {}
    /\ inflight = {}
    /\ applied = [r \in RunIds |-> None]

Advance ==
    /\ now < MaxTime
    /\ now' = now + 1
    /\ UNCHANGED <<runs, lock, left, touched, inflight, applied>>

(***************************************************************************)
(* One statement against sync_runs may succeed, fail, or commit with its   *)
(* acknowledgement lost: the caller of the last two sees an exception.     *)
(***************************************************************************)
Outcomes == {"ok", "failed", "lost"}

StartRunOutcome(r, s, trigger, outcome) ==
    IF outcome = "failed" THEN UNCHANGED runs ELSE StartRun(r, s, trigger)

FinishRunOutcome(r, status, d, outcome) ==
    IF outcome = "failed" \/ ~Finishable(r)
    THEN UNCHANGED runs
    ELSE FinishRun(r, status, d)

(***************************************************************************)
(* One mutation request of run r: it lands and is acknowledged; it ends in *)
(* an error, having landed, not landed, or being still under way behind a  *)
(* broken connection; or its process dies while it is under way.  NetBox   *)
(* executes what is under way later or never.                              *)
(***************************************************************************)
Landed(r) ==
    /\ left[r] > 0
    /\ left' = [left EXCEPT ![r] = @ - 1]
    /\ touched' = touched \cup {r}

WriteLands(r) == Landed(r) /\ UNCHANGED inflight

Drops(r) ==
    /\ left[r] > 0
    /\ inflight' = inflight \cup {r}
    /\ UNCHANGED <<left, touched>>

WriteErrs(r) ==
    \/ Landed(r) /\ UNCHANGED inflight
    \/ UNCHANGED <<left, touched, inflight>>
    \/ Drops(r)

Abandon(r, writing) ==
    \/ UNCHANGED <<left, touched, inflight>>
    \/ writing /\ Drops(r)

LateWrite(r) ==
    /\ r \in inflight
    /\ inflight' = inflight \ {r}
    /\ \/ Landed(r)
       \/ UNCHANGED <<left, touched>>
    /\ UNCHANGED <<runs, now, lock, applied>>

(***************************************************************************)
(* The other user of the lock file: deploy/backup.py opens its maintenance *)
(* window under the same flock and never writes NetBox.  Only the lock is  *)
(* modelled here; that it stops the workers is one of their crashes.       *)
(***************************************************************************)
MaintenanceBegin ==
    /\ lock = "free"
    /\ lock' = "maintenance"
    /\ UNCHANGED <<runs, now, left, touched, inflight, applied>>

MaintenanceEnd ==
    /\ lock = "maintenance"
    /\ lock' = "free"
    /\ UNCHANGED <<runs, now, left, touched, inflight, applied>>

(* The rest of the host, for whoever writes NetBox: the clock, the requests *)
(* that NetBox executes late and the other holder of the lock file.        *)
EnvironmentStep ==
    \/ Advance
    \/ \E r \in RunIds : LateWrite(r)
    \/ MaintenanceBegin
    \/ MaintenanceEnd

-----------------------------------------------------------------------------
(***************************************************************************)
(* The history's verdict on each run, in the terms of AuditedRun.  FAILED  *)
(* is the verdict "unchanged" on the manual path, where every failure past *)
(* the first mutation is OUTCOME_UNCERTAIN; on the scheduled path it       *)
(* claims nothing.                                                         *)
(***************************************************************************)
Verdict(row) ==
    CASE row.status = "ABSENT"    -> "none"
      [] row.status = "RUNNING"   -> "open"
      [] row.status = "SUCCEEDED" -> "done"
      [] row.status \in {"OUTCOME_UNCERTAIN", "PARTIALLY_APPLIED"} -> "unknown"
      [] row.status = "FAILED"    -> IF row.trigger = "manual" THEN "unchanged" ELSE "unknown"
      [] OTHER                    -> "unchanged"

Audit == INSTANCE AuditedRun WITH verdict <- [r \in RunIds |-> Verdict(runs[r])]

(* Whoever writes NetBox implements AuditedRun: a row is opened before any *)
(* mutation, closed once (start_run, finish_run), and what its status says *)
(* of NetBox holds for ever, mutations that land late included.            *)
HistoryIsTruthful == Audit!Spec
=============================================================================
