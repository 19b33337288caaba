------------------------------ MODULE Scheduler -----------------------------
(***************************************************************************)
(* The scheduled path: the systemd timer starts run-scheduled-sync.sh,     *)
(* which takes the apply lock with flock -n and runs one tick of           *)
(* scheduler_runtime.run_scheduler_tick under it; the tick evaluates every *)
(* registry row once and hands the eligible ones, in the order of their    *)
(* ids, to orchestrator.run_sources.  SYNC_MODE=apply, APPLY_SCOPE=full    *)
(* and APPLY_CONFIRM=FULL_WRITE, as deploy/install.py writes them.         *)
(*                                                                         *)
(* A source is represented by the position of its id in the sort order.    *)
(* spc is the point the tick has reached.  The registry is read once; a    *)
(* row that cannot be converted to a SourceConfig is None.                 *)
(***************************************************************************)
EXTENDS ApplyBoundary, Scheduling

CONSTANT Configs    \* configurations a registry row may hold

ASSUME SchedulerAssumption == Sources \subseteq Nat /\ Configs \subseteq SourceConfig
                              /\ None \notin Configs

VARIABLES spc,       \* point of the tick
          snapshot,  \* configs: what load_scheduler_source_configs returned
          tick,      \* now, read when the tick evaluates
          due,       \* eligible
          results,   \* SourceRunResult of each attempted source
          src, srun, \* the source under execution and its row
          scode      \* how its execution ended

schedulerVars == <<spc, snapshot, tick, due, results, src, srun, scode>>
schedulerSystemVars == <<boundaryVars, schedulerVars>>

ExecutePoints == {"plan", "precheck", "write"}

SchedulerPoints == ExecutePoints \cup {"off", "load", "evaluate", "next", "finish", "exit", "error"}

SourceRunResult == [success : BOOLEAN,
                    history : {"RECORDED", "START_FAILED", "FINALIZE_FAILED"}]

ASSUME ResultAssumption == None \notin SourceRunResult

NoSnapshot == [s \in Sources |-> None]

NoResults == [s \in Sources |-> None]

SchedulerType ==
    /\ spc \in SchedulerPoints
    /\ snapshot \in [Sources -> Configs \cup {None}]
    /\ tick \in Nat
    /\ due \subseteq Sources
    /\ results \in [Sources -> SourceRunResult \cup {None}]
    /\ src \in Sources \cup {None}
    /\ srun \in RunIds \cup {None}
    /\ scode \in SafeErrorCodes \cup {"SUCCEEDED", None}

Cleared(snap, t, eligible) ==
    /\ snapshot' = snap /\ tick' = t /\ due' = eligible
    /\ results' = NoResults
    /\ src' = None /\ srun' = None /\ scode' = None

SchedulerInit ==
    /\ spc = "off"
    /\ snapshot = NoSnapshot /\ tick = 0 /\ due = {}
    /\ results = NoResults
    /\ src = None /\ srun = None /\ scode = None

-----------------------------------------------------------------------------
(***************************************************************************)
(* The tick.  A timer that fires while the lock is held elsewhere, or      *)
(* while the unit is active, changes nothing.                              *)
(***************************************************************************)
(* Fault: the unit runs the container without flock.                       *)
TickBeginWithoutFlock ==
    /\ spc = "off"
    /\ spc' = "load"
    /\ UNCHANGED <<boundaryVars, snapshot, tick, due, results, src, srun, scode>>

TickBegin ==
    /\ spc = "off"
    /\ lock = "free"
    /\ lock' = "scheduler"
    /\ spc' = "load"
    /\ UNCHANGED <<runs, now, left, touched, inflight, applied>>
    /\ UNCHANGED <<snapshot, tick, due, results, src, srun, scode>>

TickLoad ==
    /\ spc = "load"
    /\ \E rows \in [Sources -> Configs \cup {None}] : Cleared(rows, tick, {})
    /\ spc' = "evaluate"
    /\ UNCHANGED boundaryVars

(* Fault: a tick that cannot read what it needs starts over at once.       *)
TickStartsOver ==
    /\ spc \in {"load", "evaluate"}
    /\ spc' = "load"
    /\ UNCHANGED <<boundaryVars, snapshot, tick, due, results, src, srun, scode>>

(* The registry or the history cannot be read, or the registry names two   *)
(* legacy identity owners: the process ends with an error.                 *)
TickFails ==
    /\ spc \in {"load", "evaluate"}
    /\ spc' = "error"
    /\ UNCHANGED <<boundaryVars, snapshot, tick, due, results, src, srun, scode>>

TickEvaluate ==
    /\ spc = "evaluate"
    /\ Cleared(snapshot, now,
               {s \in Sources : /\ snapshot[s] # None
                                /\ Eligible(snapshot[s], LatestScheduled(s),
                                            LatestRunning(s), now)})
    /\ spc' = "next"
    /\ UNCHANGED boundaryVars

-----------------------------------------------------------------------------
(***************************************************************************)
(* run_sources: one source after the other, failures isolated.             *)
(***************************************************************************)
Pending == {s \in due : results[s] = None}

Result(s, success, history) ==
    results' = [results EXCEPT ![s] = [success |-> success, history |-> history]]

Begin(s, outcome) ==
    /\ s \in Pending /\ \A x \in Pending : s <= x
    /\ \E r \in RunIds :
         /\ runs[r] = NoRow
         /\ StartRunOutcome(r, s, "scheduled", outcome)
         /\ IF outcome = "ok"
            THEN src' = s /\ srun' = r /\ spc' = "plan" /\ UNCHANGED results
            ELSE Result(s, FALSE, "START_FAILED") /\ UNCHANGED <<spc, src, srun>>

SourceStart ==
    /\ spc = "next"
    /\ \E s \in Pending, outcome \in Outcomes : Begin(s, outcome)
    /\ UNCHANGED <<now, lock, left, touched, inflight, applied>>
    /\ UNCHANGED <<snapshot, tick, due, scode>>

(* Fault: the exception of one source ends the loop.                       *)
RaisedUncaught == spc' = "exit" /\ scode' = "APPLY_FAILED"

Raised == spc' = "finish" /\ scode' = "APPLY_FAILED"

(* Credentials, discovery, planning or one of the read-only prechecks.     *)
SourceFails ==
    /\ spc \in {"plan", "precheck"}
    /\ Raised
    /\ UNCHANGED <<boundaryVars, snapshot, tick, due, results, src, srun>>

(* build_runtime_plan: the plan is kept for the history; its apply_allowed *)
(* is not consulted.                                                       *)
SourcePlan ==
    /\ spc = "plan"
    /\ \E d \in Digests : applied' = [applied EXCEPT ![srun] = d]
    /\ spc' = "precheck"
    /\ UNCHANGED <<runs, now, lock, left, touched, inflight>>
    /\ UNCHANGED <<snapshot, tick, due, results, src, srun, scode>>

SourcePrecheck ==
    /\ spc = "precheck"
    /\ \E n \in 0 .. MaxWrites : left' = [left EXCEPT ![srun] = n]
    /\ spc' = "write"
    /\ UNCHANGED <<runs, now, lock, touched, inflight, applied>>
    /\ UNCHANGED <<snapshot, tick, due, results, src, srun, scode>>

SourceWrite ==
    /\ spc = "write"
    /\ WriteLands(srun)
    /\ UNCHANGED <<runs, now, lock, applied>>
    /\ UNCHANGED schedulerVars

SourceWriteFails ==
    /\ spc = "write"
    /\ WriteErrs(srun)
    /\ Raised
    /\ UNCHANGED <<runs, now, lock, applied>>
    /\ UNCHANGED <<snapshot, tick, due, results, src, srun>>

SourceDone ==
    /\ spc = "write"
    /\ left[srun] = 0
    /\ spc' = "finish" /\ scode' = "SUCCEEDED"
    /\ UNCHANGED <<boundaryVars, snapshot, tick, due, results, src, srun>>

SourceFinish ==
    /\ spc = "finish"
    /\ \E outcome \in Outcomes :
         LET success == scode = "SUCCEEDED" IN
         /\ FinishRunOutcome(srun, IF success THEN "SUCCEEDED" ELSE TerminalStatus(scode),
                             IF success THEN applied[srun] ELSE None, outcome)
         /\ Result(src, success, IF outcome = "ok" THEN "RECORDED" ELSE "FINALIZE_FAILED")
    /\ spc' = "next"
    /\ src' = None /\ srun' = None /\ scode' = None
    /\ UNCHANGED <<now, lock, left, touched, inflight, applied>>
    /\ UNCHANGED <<snapshot, tick, due>>

TickEnd ==
    /\ spc = "next"
    /\ Pending = {}
    /\ spc' = "exit"
    /\ UNCHANGED <<boundaryVars, snapshot, tick, due, results, src, srun, scode>>

(* Fault: history_failures is left out.                                    *)
TickFailedExecution ==
    \/ \E s \in Sources : snapshot[s] = None
    \/ \E s \in Sources : results[s] # None /\ ~results[s].success

(* SchedulerTickResult.failed: the process exits with status 1.            *)
TickFailed ==
    \/ \E s \in Sources : snapshot[s] = None
    \/ \E s \in Sources : results[s] # None
                          /\ (~results[s].success \/ results[s].history # "RECORDED")

Gone ==
    /\ lock' = "free"
    /\ spc' = "off"
    /\ Cleared(NoSnapshot, 0, {})

TickExit ==
    /\ spc \in {"exit", "error"}
    /\ Gone
    /\ UNCHANGED <<runs, now, left, touched, inflight, applied>>

(* The container, its flock wrapper or the host dies.                      *)
SchedulerCrash ==
    /\ spc # "off"
    /\ Abandon(srun, spc = "write")
    /\ Gone
    /\ UNCHANGED <<runs, now, applied>>

TickStep ==
    \/ TickLoad \/ TickFails \/ TickEvaluate \/ SourceStart \/ SourceFails \/ SourcePlan
    \/ SourcePrecheck \/ SourceWrite \/ SourceWriteFails \/ SourceDone \/ SourceFinish
    \/ TickEnd \/ TickExit

SchedulerNext == TickBegin \/ TickStep \/ SchedulerCrash

-----------------------------------------------------------------------------
(***************************************************************************)
(* The scheduler on its own, with the rest of the host.                    *)
(***************************************************************************)
SchedulerSystemInit == BoundaryInit /\ SchedulerInit

SchedulerSystemNext == SchedulerNext \/ (EnvironmentStep /\ UNCHANGED schedulerVars)

SchedulerSystemSpec == SchedulerSystemInit /\ [][SchedulerSystemNext]_schedulerSystemVars

(***************************************************************************)
(* Only the steps between two requests are fair: a process that waits for  *)
(* nobody goes on.  Nothing is assumed of the requests to the registry,    *)
(* the history, Proxmox and NetBox, none of which the tick bounds in time: *)
(* they may stay unanswered for ever.  Nothing is assumed of the timer.    *)
(***************************************************************************)
LocalStep == SourceDone \/ TickEnd \/ TickExit

SchedulerFairSpec == SchedulerSystemSpec /\ WF_schedulerSystemVars(LocalStep)

-----------------------------------------------------------------------------
(* Type invariant of the scheduler and of what it shares.                  *)
SchedulerTypeOK == BoundaryType /\ SchedulerType

(* The lock is the scheduler's exactly while a tick is under way.          *)
SchedulerHoldsLock == spc # "off" <=> lock = "scheduler"

(* r is a scheduled run that this step starts.                             *)
Starts(r) == runs[r] = NoRow /\ runs'[r] # NoRow /\ runs'[r].trigger = "scheduled"

(* A scheduled run of a source never starts beside another one that may    *)
(* still be executing: each row of that source that is still RUNNING,      *)
(* crashed ticks and lost statements included, is older than the stale     *)
(* threshold (evaluate_schedule).                                          *)
NoOverlap ==
    [][\A r \in RunIds : Starts(r) =>
          \A q \in ScheduledRows(runs'[r].source) :
              runs[q].status = "RUNNING" => runs'[r].started > runs[q].started + StaleSeconds
      ]_schedulerSystemVars

(* A scheduled run starts only for a source that the registry enabled when *)
(* the tick loaded it, and never sooner after any earlier scheduled run of *)
(* that source, whatever became of it, than its interval.                  *)
StartsOnCadence ==
    [][\A r \in RunIds : Starts(r) =>
          LET config == snapshot[runs'[r].source] IN
          /\ config # None /\ config.enabled /\ config.sync_enabled
          /\ \A q \in ScheduledRows(runs'[r].source) :
                 runs'[r].started >= runs[q].started + config.interval
      ]_schedulerSystemVars

(* The row of source s that this tick wrote.                               *)
TickRows(s) == {r \in ScheduledRows(s) : runs[r].started >= tick}

(* A tick that ends by itself attempted every eligible source, whatever    *)
(* failed for the ones before it: each has a row of this tick, or its own  *)
(* START_FAILED (run_sources).                                             *)
FailuresAreIsolated ==
    spc = "exit" => \A s \in due : \/ results[s] # None /\ results[s].history = "START_FAILED"
                                   \/ TickRows(s) # {}

(* Exit status 0 means that every registry row was readable and that every *)
(* eligible source has a row of this tick that says SUCCEEDED and all its  *)
(* mutations in NetBox.                                                    *)
ExitStatusIsHonest ==
    spc = "exit" /\ ~TickFailed =>
        /\ \A s \in Sources : snapshot[s] # None
        /\ \A s \in due : \E r \in TickRows(s) :
               runs[r].status = "SUCCEEDED" /\ left[r] = 0 /\ r \notin inflight

(* A plan that holds a BLOCKED item is not written: docs/architecture.md,  *)
(* "One source's REVIEW_REQUIRED or BLOCKED plan prevents writes only for  *)
(* that single-source execution".                                          *)
BlockedPlanNotWritten == \A r \in touched : applied[r] \notin Blocked

(* The tick has a request under way: reading the registry or the history,  *)
(* recording a run, planning, checking or writing.                         *)
AwaitsAnswer ==
    \/ spc \in {"load", "evaluate", "plan", "precheck", "finish"}
    \/ spc = "next" /\ Pending # {}
    \/ spc = "write" /\ left[srun] > 0

(* The tick takes no further step, and the request it has sent stays       *)
(* without an answer.                                                      *)
HangsOnOneRequest == <>[]AwaitsAnswer /\ <>[][FALSE]_<<schedulerVars, left>>

(* Whatever fails in a tick, and wherever it is killed, it gives the apply *)
(* lock back, with one exception: a request that never returns.  No source *)
(* fails in a way that keeps the loop of run_sources going, no ending and  *)
(* no crash keeps the flock of run-scheduled-sync.sh.                      *)
TickReleasesLock == []<>(lock # "scheduler") \/ HangsOnOneRequest
=============================================================================
