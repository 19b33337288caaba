----------------------------- MODULE RunHistory -----------------------------
(***************************************************************************)
(* The sync_runs table of netbox_sync/run_history.py: one row per manual   *)
(* or scheduled execution of one source, inserted RUNNING before anything  *)
(* is executed and finalised at most once by a conditional UPDATE.         *)
(*                                                                         *)
(* A run id is the uuid4 of the row; an id that has no row yet maps to     *)
(* NoRow.  Plan digests are opaque values.  "UNLISTED" stands for every    *)
(* error code outside SAFE_ERROR_MESSAGES (SOURCE_NOT_FOUND,               *)
(* REGISTRY_UNAVAILABLE, CREDENTIAL_UNAVAILABLE, an exception without a    *)
(* code, ...), which the code collapses to APPLY_FAILED.                   *)
(***************************************************************************)
EXTENDS Naturals

CONSTANTS Sources,   \* source_instance values
          RunIds,    \* uuids
          Digests,   \* plan digests
          None       \* Python's None and SQL's NULL

ASSUME NoneAssumption == None \notin Digests \cup RunIds

VARIABLES runs,      \* sync_runs
          now        \* the UTC clock

RunStatus == {"RUNNING", "SUCCEEDED", "FAILED_BEFORE_WRITE", "PARTIALLY_APPLIED",
              "OUTCOME_UNCERTAIN", "BLOCKED", "LOCKED", "FAILED"}

RunTrigger == {"manual", "scheduled"}

NoRow == [status |-> "ABSENT"]

Row == [source : Sources, trigger : RunTrigger, started : Nat,
        status : RunStatus, digest : Digests \cup {None}]

RunsType == runs \in [RunIds -> Row \cup {NoRow}]

(***************************************************************************)
(* Closed mapping of error codes to terminal statuses.                     *)
(***************************************************************************)
SafeErrorCodes == {"APPLY_LOCKED", "PLAN_BLOCKED", "PLAN_STALE",
                   "CONFIRMATION_EXPIRED", "CONFIRMATION_INVALID",
                   "CONFIRMATION_SOURCE_MISMATCH", "FAILED_BEFORE_WRITE",
                   "PARTIALLY_APPLIED", "OUTCOME_UNCERTAIN", "APPLY_FAILED"}

SafeErrorCode(code) == IF code \in SafeErrorCodes THEN code ELSE "APPLY_FAILED"

(* Fault: a code without a status of its own is stored as it is.           *)
TerminalStatusUnmapped(code) == IF code = "PLAN_BLOCKED" THEN "BLOCKED" ELSE code

TerminalStatus(code) ==
    CASE code = "APPLY_LOCKED"        -> "LOCKED"
      [] code = "PLAN_BLOCKED"        -> "BLOCKED"
      [] code = "FAILED_BEFORE_WRITE" -> "FAILED_BEFORE_WRITE"
      [] code = "PARTIALLY_APPLIED"   -> "PARTIALLY_APPLIED"
      [] code = "OUTCOME_UNCERTAIN"   -> "OUTCOME_UNCERTAIN"
      [] OTHER                        -> "FAILED"

(***************************************************************************)
(* start_run: INSERT a RUNNING row under a fresh uuid.                     *)
(***************************************************************************)
StartRun(r, s, trigger) ==
    /\ runs[r] = NoRow
    /\ runs' = [runs EXCEPT ![r] =
                    [source |-> s, trigger |-> trigger, started |-> now,
                     status |-> "RUNNING", digest |-> None]]

(***************************************************************************)
(* finish_run: UPDATE ... WHERE run_id = r AND status = 'RUNNING', with    *)
(* plan_digest = COALESCE(d, plan_digest).  A row that is missing or       *)
(* already terminal is left alone and the call raises.                     *)
(***************************************************************************)
Finishable(r) == runs[r].status = "RUNNING"

FinishRun(r, status, d) ==
    /\ Finishable(r)
    /\ runs' = [runs EXCEPT ![r] =
                    [source |-> runs[r].source, trigger |-> runs[r].trigger,
                     started |-> runs[r].started, status |-> status,
                     digest |-> IF d = None THEN runs[r].digest ELSE d]]

(***************************************************************************)
(* latest_by_source(trigger = 'scheduled') and the same with status =      *)
(* 'RUNNING', reduced to what the scheduler uses of the newest row: the    *)
(* set of its started_at (empty when there is no such row).                *)
(***************************************************************************)
ScheduledRows(s) == {r \in RunIds : /\ runs[r] # NoRow
                                    /\ runs[r].source = s
                                    /\ runs[r].trigger = "scheduled"}

Newest(rows) == {runs[r].started : r \in {x \in rows :
                    \A y \in rows : runs[y].started <= runs[x].started}}

(* Fault: only runs that succeeded count as the latest.                    *)
LatestScheduledSuccess(s) == Newest({r \in ScheduledRows(s) : runs[r].status = "SUCCEEDED"})

LatestScheduled(s) == Newest(ScheduledRows(s))

LatestRunning(s) == Newest({r \in ScheduledRows(s) : runs[r].status = "RUNNING"})
=============================================================================
