----------------------------- MODULE Scheduling -----------------------------
(***************************************************************************)
(* The cadence policy of netbox_sync/application/scheduling.py, shared by  *)
(* the scheduler tick and by the diagnostics.  It is a pure function of    *)
(* one source's configuration, the start of its newest scheduled run and   *)
(* of its newest scheduled run still RUNNING, and the clock.  An absent    *)
(* row is the empty set, a present one the singleton of its started_at.    *)
(***************************************************************************)
EXTENDS Naturals

CONSTANTS StaleSeconds,   \* stale_threshold(), 7200 by default
          DelayWindow     \* the minimum of 1800 seconds before DELAYED

ASSUME SchedulingAssumption == StaleSeconds \in Nat /\ DelayWindow \in Nat

SchedulerState == {"DISABLED", "WAITING", "DUE", "RUNNING", "DELAYED"}

SourceConfig == [enabled : BOOLEAN, sync_enabled : BOOLEAN, interval : Nat]

AtLeast(a, b) == IF a >= b THEN a ELSE b

Reached(config, latest, t) == \A ref \in latest : ref + config.interval <= t

(* Fault: a run exactly at the threshold counts as stale.                  *)
StillRunningStrict(running, t) == \E b \in running : t < b + StaleSeconds

StillRunning(running, t) == \E b \in running : t <= b + StaleSeconds

EvaluateSchedule(config, latest, running, t) ==
    IF ~config.enabled \/ ~config.sync_enabled THEN "DISABLED"
    ELSE IF StillRunning(running, t) THEN "RUNNING"
    ELSE IF ~Reached(config, latest, t) THEN "WAITING"
    ELSE IF \E ref \in latest :
                t > ref + AtLeast(2 * config.interval, DelayWindow)
                /\ t # ref + config.interval
         THEN "DELAYED"
    ELSE "DUE"

Eligible(config, latest, running, t) ==
    EvaluateSchedule(config, latest, running, t) \in {"DUE", "DELAYED"}
=============================================================================
