-------------------------- MODULE SyncSystemProofs --------------------------
(***************************************************************************)
(* Proofs about the manual and the scheduled writer together: exclusion,   *)
(* types, and what the row of a run says while the run executes.           *)
(***************************************************************************)
EXTENDS SyncSystem, WriterProofs

(***************************************************************************)
(* Mutual exclusion.  What is inductive is that each writer has the lock   *)
(* exactly at its own locked points; since the lock names one holder,      *)
(* exclusion follows.                                                      *)
(***************************************************************************)
LockInv == WorkerHoldsLock /\ SchedulerHoldsLock

(* No lock is held initially.                                              *)
LEMMA LockInit == Init => LockInv
BY DEF Init, BoundaryInit, WorkerInit, SchedulerInit, LockInv, WorkerHoldsLock,
       SchedulerHoldsLock, LockedPoints, ChildPoints

(* Every step of the system keeps LockInv.                                 *)
LEMMA LockStep ==
    ASSUME LockInv, [Next]_systemVars
    PROVE  LockInv'
<1>1. CASE WorkerMoves
  <2>1. WorkerHoldsLock' /\ (lock' # lock => {lock, lock'} = {"free", "worker"})
    BY <1>1, WorkerLockStep DEF WorkerMoves, LockInv
  <2> QED
    BY <1>1, <2>1 DEF WorkerMoves, LockInv, SchedulerHoldsLock, schedulerVars
<1>2. CASE SchedulerMoves
  <2>1. SchedulerHoldsLock' /\ (lock' # lock => {lock, lock'} = {"free", "scheduler"})
    BY <1>2, SchedulerLockStep DEF SchedulerMoves, LockInv
  <2> QED
    BY <1>2, <2>1 DEF SchedulerMoves, LockInv, WorkerHoldsLock, workerVars
<1>3. CASE EnvironmentMoves
  BY <1>3 DEF EnvironmentMoves, EnvironmentStep, Advance, LateWrite, MaintenanceBegin,
              MaintenanceEnd, LockInv, WorkerHoldsLock, SchedulerHoldsLock, workerVars,
              schedulerVars
<1>4. CASE UNCHANGED systemVars
  BY <1>4 DEF systemVars, boundaryVars, workerVars, schedulerVars, LockInv, WorkerHoldsLock,
              SchedulerHoldsLock
<1> QED
  BY <1>1, <1>2, <1>3, <1>4 DEF Next

(* Manual, scheduled and maintenance windows exclude each other            *)
(* (MutualExclusion), whatever crashes and however many sources, runs,     *)
(* calls and mutations there are.                                          *)
THEOREM Exclusion == Spec => []MutualExclusion
<1>1. LockInv => MutualExclusion
  BY DEF LockInv, WorkerHoldsLock, SchedulerHoldsLock, MutualExclusion, WorkerApplying,
         SchedulerApplying, LockedPoints, ExecutePoints
<1>2. LockInv /\ [Next]_systemVars => LockInv'
  BY LockStep
<1> QED
  BY <1>1, <1>2, LockInit, PTL DEF Spec

-----------------------------------------------------------------------------
(***************************************************************************)
(* Type correctness of the system: each writer leaves the other's control  *)
(* invariant alone.                                                        *)
(***************************************************************************)
ControlInv == WorkerInv /\ SchedulerInv

(* The initial state is well formed.                                       *)
LEMMA ControlInit == Init => ControlInv
BY WorkerInitInv, SchedulerInitInv
   DEF Init, WorkerSystemInit, SchedulerSystemInit, ControlInv

(* Every step of the system keeps ControlInv.                              *)
LEMMA ControlStep ==
    ASSUME ControlInv, [Next]_systemVars
    PROVE  ControlInv'
<1>1. CASE WorkerMoves
  <2>1. WorkerInv'
    BY <1>1, WorkerStepInv DEF WorkerMoves, ControlInv
  <2> QED
    BY <1>1, <2>1 DEF WorkerMoves, ControlInv, WorkerInv, SchedulerInv, SchedulerType,
                      SchedulerControl, schedulerVars
<1>2. CASE SchedulerMoves
  <2>1. SchedulerInv'
    BY <1>2, SchedulerStepInv DEF SchedulerMoves, ControlInv
  <2> QED
    BY <1>2, <2>1 DEF SchedulerMoves, ControlInv, SchedulerInv, WorkerInv, WorkerType,
                      ConfirmationType, WorkerControl, ReqOK, LocalsOK, QueueOK, Serving, workerVars
<1>3. CASE EnvironmentMoves
  <2>1. BoundaryType'
    BY <1>3, EnvironmentType DEF EnvironmentMoves, ControlInv, WorkerInv
  <2> QED
    BY <1>3, <2>1 DEF EnvironmentMoves, ControlInv, SchedulerInv, SchedulerType, SchedulerControl,
                      WorkerInv, WorkerType, ConfirmationType, WorkerControl, ReqOK, LocalsOK,
                      QueueOK, Serving, workerVars, schedulerVars
<1>4. CASE UNCHANGED systemVars
  BY <1>4 DEF systemVars, boundaryVars, ControlInv, SchedulerInv, SchedulerType, SchedulerControl,
              WorkerInv, BoundaryType, RunsType, WorkerType, ConfirmationType, WorkerControl, ReqOK,
              LocalsOK, QueueOK, Serving, workerVars, schedulerVars
<1> QED
  BY <1>1, <1>2, <1>3, <1>4 DEF Next

(* Type correctness of the composed system (TypeOK).                       *)
THEOREM Typing == Spec => []TypeOK
<1>1. ControlInv => TypeOK
  BY DEF ControlInv, WorkerInv, SchedulerInv, TypeOK
<1>2. ControlInv /\ [Next]_systemVars => ControlInv'
  BY ControlStep
<1> QED
  BY <1>1, <1>2, ControlInit, PTL DEF Spec

(* The worker plans and lands mutations of its own run only, while its     *)
(* child is at work.                                                       *)
LEMMA WorkerMutates ==
    ASSUME WorkerMoves
    PROVE  UNCHANGED left \/ (wpc \in ChildPoints /\ \E n : left' = [left EXCEPT ![run] = n])
<1> USE DEF boundaryVars
<1>1. CASE ChildStep
  BY <1>1 DEF ChildStep, ChildDiscoverFails, ChildReplan, ChildPrecheckFails, ChildPrecheck,
              ChildWrite, ChildWriteFails, ChildDone, ChildLost, WriteLands, WriteErrs, Landed,
              Abandon, Drops, ChildPoints
<1>2. CASE ApplySource \/ ApplyStart \/ ApplyConsume \/ ApplyOpen \/ ApplyLock \/ ApplyReload
           \/ ApplyUnlock \/ ApplyFinish \/ ApplyRefinish
  BY <1>2 DEF ApplySource, ApplyStart, ApplyConsume, ApplyOpen, ApplyLock, ApplyReload,
              ApplyUnlock, ApplyFinish, ApplyRefinish
<1>3. CASE Accept \/ PrepareStep \/ Reply \/ Restart \/ ClientStep
  BY <1>3 DEF Accept, PrepareStep, PrepareSource, PrepareFails, PreparePlan, Reply, Restart,
              ClientStep, Submit, ClientGone
<1>4. CASE ReplyFails \/ Crash
  BY <1>4 DEF ReplyFails, Crash, Die, Abandon, Drops
<1> QED
  BY <1>1, <1>2, <1>3, <1>4 DEF WorkerMoves, WorkerNext, ServeStep, ApplyStep

(* The scheduler plans and lands mutations of its own run only, during a   *)
(* tick.                                                                   *)
LEMMA SchedulerMutates ==
    ASSUME SchedulerMoves
    PROVE  UNCHANGED left \/ (spc # "off" /\ \E n : left' = [left EXCEPT ![srun] = n])
<1> USE DEF boundaryVars
<1>1. CASE SourcePrecheck \/ SourceWrite \/ SourceWriteFails \/ SchedulerCrash
  BY <1>1 DEF SourcePrecheck, SourceWrite, SourceWriteFails, SchedulerCrash, WriteLands, WriteErrs,
              Landed, Abandon, Drops
<1>2. CASE TickBegin \/ TickLoad \/ TickFails \/ TickEvaluate \/ TickEnd \/ TickExit
  BY <1>2 DEF TickBegin, TickLoad, TickFails, TickEvaluate, TickEnd, TickExit
<1>3. CASE SourceStart \/ SourceFails \/ SourcePlan \/ SourceDone \/ SourceFinish
  BY <1>3 DEF SourceStart, SourceFails, SourcePlan, SourceDone, SourceFinish
<1> QED
  BY <1>1, <1>2, <1>3 DEF SchedulerMoves, SchedulerNext, TickStep

(* Between the plan of a run and its last write nobody else changes NetBox *)
(* except by a request that an earlier run left under way                  *)
(* (PlanStaysCurrent): a mutation of another run needs the lock.           *)
THEOREM NoInterference == Spec => PlanStaysCurrent
<1> DEFINE A == \A r, q \in RunIds :
                    Committed(r) /\ q # r /\ left'[q] < left[q] => q \in inflight
<1>1. ControlInv /\ LockInv /\ [Next]_systemVars => [A]_systemVars
  <2> SUFFICES ASSUME ControlInv, LockInv, Next, NEW r \in RunIds, NEW q \in RunIds,
                      Committed(r), q # r, left'[q] < left[q]
               PROVE  q \in inflight
    OBVIOUS
  <2>1. BoundaryType
    BY DEF ControlInv, WorkerInv
  <2>2. left'[q] # left[q]
    BY <2>1 DEF BoundaryType
  <2>3. CASE WorkerMoves
    <3>1. wpc \in ChildPoints /\ \E n : left' = [left EXCEPT ![run] = n]
      BY <2>2, <2>3, WorkerMutates
    <3>2. r = run
      BY <3>1 DEF LockInv, WorkerHoldsLock, SchedulerHoldsLock, LockedPoints, Committed
    <3> QED
      BY <2>1, <2>2, <3>1, <3>2 DEF BoundaryType
  <2>4. CASE SchedulerMoves
    <3>1. spc # "off" /\ \E n : left' = [left EXCEPT ![srun] = n]
      BY <2>2, <2>4, SchedulerMutates
    <3>2. r = srun
      BY <3>1 DEF LockInv, WorkerHoldsLock, SchedulerHoldsLock, LockedPoints, ChildPoints, Committed
    <3> QED
      BY <2>1, <2>2, <3>1, <3>2 DEF BoundaryType
  <2>5. CASE EnvironmentMoves
    BY <2>1, <2>2, <2>5 DEF EnvironmentMoves, EnvironmentStep, Advance, LateWrite, Landed,
         MaintenanceBegin, MaintenanceEnd, BoundaryType
  <2> QED
    BY <2>3, <2>4, <2>5 DEF Next
<1>2. ControlInv /\ [Next]_systemVars => ControlInv'
  BY ControlStep
<1>3. LockInv /\ [Next]_systemVars => LockInv'
  BY LockStep
<1> QED
  BY <1>1, <1>2, <1>3, ControlInit, LockInit, PTL DEF Spec, PlanStaysCurrent

-----------------------------------------------------------------------------
(***************************************************************************)
(* A run that has no row has done nothing; a row was started in the past   *)
(* and has no digest while it is open; and each writer executes a run      *)
(* whose open row carries its own trigger, so that the two never meet on a *)
(* row.                                                                    *)
(***************************************************************************)
NoRowNoEffect ==
    \A r \in RunIds : runs[r] = NoRow =>
        /\ r \notin touched /\ r \notin inflight
        /\ left[r] = 0 /\ applied[r] = None /\ authorised[r] = None

RowsOK ==
    \A r \in RunIds : runs[r] # NoRow =>
        /\ runs[r].started <= now
        /\ runs[r].status = "RUNNING" => runs[r].digest = None

WorkerRow ==
    wpc \in RunPoints =>
        /\ runs[run] # NoRow /\ runs[run].trigger = "manual"
        /\ runs[run].source = calls[req].source
        /\ wpc # "refinish" => runs[run].status = "RUNNING"

SchedulerRow ==
    spc \in SchedulerRunPoints =>
        runs[srun] # NoRow /\ runs[srun].trigger = "scheduled" /\ runs[srun].status = "RUNNING"

RowInv == NoRowNoEffect /\ RowsOK /\ WorkerRow /\ SchedulerRow

(* A row that exists differs from NoRow.                                   *)
LEMMA RowIsRow ==
    ASSUME RunsType, NEW r \in RunIds
    PROVE  /\ runs[r] # NoRow <=> runs[r] \in Row
           /\ runs[r].status = "RUNNING" => runs[r] # NoRow
BY DEF RunsType, Row, NoRow, RunStatus

(* start_run touches one row, which did not exist.                         *)
LEMMA StartRunRows ==
    ASSUME RunsType, now \in Nat, NEW r \in RunIds, NEW s \in Sources,
           NEW trigger \in RunTrigger, NEW outcome, runs[r] = NoRow,
           StartRunOutcome(r, s, trigger, outcome)
    PROVE  /\ \A q \in RunIds : q # r => runs'[q] = runs[q]
           /\ outcome = "failed" => UNCHANGED runs
           /\ outcome # "failed" =>
                /\ runs'[r] # NoRow /\ runs'[r].source = s /\ runs'[r].trigger = trigger
                /\ runs'[r].started = now /\ runs'[r].status = "RUNNING" /\ runs'[r].digest = None
BY DEF RunsType, StartRunOutcome, StartRun, NoRow

(* finish_run touches one row, of which it keeps source, trigger and       *)
(* start; it closes the row or leaves it alone.                            *)
LEMMA FinishRunRows ==
    ASSUME RunsType, NEW r \in RunIds, NEW status \in RunStatus \ {"RUNNING"},
           NEW d \in Digests \cup {None}, NEW outcome, runs[r] # NoRow,
           FinishRunOutcome(r, status, d, outcome)
    PROVE  /\ \A q \in RunIds : q # r => runs'[q] = runs[q]
           /\ runs'[r] # NoRow
           /\ runs'[r].source = runs[r].source /\ runs'[r].trigger = runs[r].trigger
           /\ runs'[r].started = runs[r].started
           /\ \/ UNCHANGED runs
              \/ /\ runs[r].status = "RUNNING" /\ runs'[r].status = status
                 /\ runs'[r].digest = IF d = None THEN runs[r].digest ELSE d
<1>1. CASE UNCHANGED runs
  BY <1>1
<1>2. CASE FinishRun(r, status, d)
  BY <1>2 DEF FinishRun, Finishable, RunsType, NoRow, RunStatus
<1> QED
  BY <1>1, <1>2 DEF FinishRunOutcome

-----------------------------------------------------------------------------
(* A step that leaves the rows, the clock and NetBox alone keeps RowInv if *)
(* the handler goes on with its run or drops it.                           *)
LEMMA QuietStep ==
    ASSUME RowInv,
           UNCHANGED <<runs, now, left, touched, inflight, applied, authorised, schedulerVars>>,
           wpc' \in RunPoints =>
               /\ wpc \in RunPoints
               /\ run' = run /\ calls'[req'].source = calls[req].source
               /\ wpc = "refinish" => wpc' = "refinish"
    PROVE  RowInv'
BY DEF RowInv, NoRowNoEffect, RowsOK, WorkerRow, SchedulerRow, schedulerVars

(* Every step of the worker, its child and its clients keeps RowInv.       *)
LEMMA WorkerRowStep ==
    ASSUME ControlInv, RowInv, WorkerMoves
    PROVE  RowInv'
<1> USE DEF RunPoints, LockedPoints, ChildPoints, Goto, Respond, Leave, boundaryVars, workerVars
<1>0. /\ UNCHANGED schedulerVars /\ WorkerInv /\ BoundaryType /\ RunsType /\ now \in Nat
      /\ ReqOK /\ LocalsOK
  BY DEF WorkerMoves, ControlInv, WorkerInv, WorkerControl, BoundaryType
<1>1. CASE Accept \/ PrepareStep \/ ApplySource \/ Reply \/ Restart
  BY <1>0, <1>1, QuietStep DEF Accept, PrepareStep, PrepareSource, PrepareFails, PreparePlan, ApplySource,
                         Reply, Restart
<1>2. CASE ApplyOpen \/ ApplyLock \/ ApplyReload \/ ApplyUnlock \/ ChildDiscoverFails
           \/ ChildPrecheckFails \/ ChildDone
  BY <1>0, <1>2, QuietStep DEF ApplyOpen, ApplyLock, FlockNonBlocking, ApplyReload, ApplyUnlock,
                         ChildDiscoverFails, ChildPrecheckFails, ChildDone
<1>3. CASE ApplyStart
  <2>1. wpc = "start" /\ calls[req].source \in Sources
    BY <1>0, <1>3, RequestFields DEF ApplyStart, ReqOK, Serving
  <2>2. PICK r \in RunIds, outcome \in Outcomes :
            /\ runs[r] = NoRow
            /\ StartRunOutcome(r, calls[req].source, "manual", outcome)
            /\ outcome = "ok" => run' = r /\ wpc' = "consume"
            /\ outcome # "ok" => wpc' = "reply"
    BY <1>3 DEF ApplyStart
  <2>3. /\ \A q \in RunIds : q # r => runs'[q] = runs[q]
        /\ outcome = "failed" => UNCHANGED runs
        /\ outcome # "failed" =>
             /\ runs'[r] # NoRow /\ runs'[r].source = calls[req].source /\ runs'[r].trigger = "manual"
             /\ runs'[r].started = now /\ runs'[r].status = "RUNNING" /\ runs'[r].digest = None
    BY <1>0, <2>1, <2>2, StartRunRows DEF RunTrigger
  <2>4. UNCHANGED <<now, left, touched, inflight, applied, authorised, calls, req>>
    BY <1>3 DEF ApplyStart
  <2>5. spc \in SchedulerRunPoints => srun \in RunIds /\ srun # r
    BY <2>2 DEF ControlInv, SchedulerInv, SchedulerControl, RowInv, SchedulerRow
  <2>6. NoRowNoEffect' /\ RowsOK'
    BY <1>0, <2>2, <2>3, <2>4 DEF RowInv, NoRowNoEffect, RowsOK
  <2>7. WorkerRow'
    BY <2>2, <2>3, <2>4 DEF WorkerRow
  <2>8. SchedulerRow'
    BY <1>0, <2>3, <2>5 DEF RowInv, SchedulerRow, schedulerVars
  <2> QED
    BY <2>6, <2>7, <2>8 DEF RowInv
<1>4. CASE ApplyConsume
  <2>1. wpc = "consume" /\ run \in RunIds /\ runs[run] # NoRow
    BY <1>0, <1>4 DEF ApplyConsume, LocalsOK, RowInv, WorkerRow
  <2>2. \A r \in RunIds : r # run => authorised'[r] = authorised[r]
    BY <1>0, <1>4, <2>1 DEF ApplyConsume, WorkerInv, WorkerType
  <2>3. /\ UNCHANGED <<runs, now, left, touched, inflight, applied, calls, req, run>>
        /\ wpc' \in {"open", "finish"}
    BY <1>4 DEF ApplyConsume
  <2> QED
    BY <1>0, <2>1, <2>2, <2>3 DEF RowInv, NoRowNoEffect, RowsOK, WorkerRow, SchedulerRow, schedulerVars
<1>5. CASE ChildReplan \/ ChildPrecheck \/ ChildWrite \/ ChildWriteFails \/ ChildLost
  <2>1. wpc \in ChildPoints /\ run \in RunIds /\ runs[run] # NoRow
    BY <1>0, <1>5 DEF ChildReplan, ChildPrecheck, ChildWrite, ChildWriteFails, ChildLost, LocalsOK,
                      RowInv, WorkerRow
  <2>2. \A r \in RunIds : r # run =>
            /\ left'[r] = left[r] /\ applied'[r] = applied[r]
            /\ r \in touched' => r \in touched
            /\ r \in inflight' => r \in inflight
    BY <1>0, <1>5, <2>1 DEF ChildReplan, ChildPrecheck, ChildWrite, ChildWriteFails, ChildLost,
         WriteLands, WriteErrs, Abandon, Landed, Drops, BoundaryType
  <2>3. /\ UNCHANGED <<runs, now, authorised, calls, req, run>>
        /\ wpc' \in RunPoints \ {"refinish"}
    BY <1>5, <2>1 DEF ChildReplan, ChildPrecheck, ChildWrite, ChildWriteFails, ChildLost
  <2> QED
    BY <1>0, <2>1, <2>2, <2>3 DEF RowInv, NoRowNoEffect, RowsOK, WorkerRow, SchedulerRow, schedulerVars
<1>6. CASE ApplyFinish \/ ApplyRefinish
  <2>1. wpc \in {"finish", "refinish"} /\ run \in RunIds /\ runs[run] # NoRow
        /\ runs[run].trigger = "manual" /\ runs[run].source = calls[req].source
    BY <1>0, <1>6 DEF ApplyFinish, ApplyRefinish, LocalsOK, RowInv, WorkerRow
  <2>2. ClaimedDigest \in Digests \cup {None}
    BY <1>0 DEF ClaimedDigest, WorkerInv, WorkerType, Claims
  <2>3. PICK status \in RunStatus \ {"RUNNING"}, outcome \in Outcomes :
            FinishRunOutcome(run, status, ClaimedDigest, outcome)
    <3>1. TerminalStatus(SafeErrorCode(code)) \in RunStatus \ {"RUNNING"}
      BY TerminalStatusType
    <3>2. {"SUCCEEDED", "OUTCOME_UNCERTAIN"} \subseteq RunStatus \ {"RUNNING"}
      BY DEF RunStatus
    <3> QED
      BY <1>6, <3>1, <3>2 DEF ApplyFinish, ApplyRefinish
  <2>4. /\ \A q \in RunIds : q # run => runs'[q] = runs[q]
        /\ runs'[run] # NoRow
        /\ runs'[run].source = runs[run].source /\ runs'[run].trigger = runs[run].trigger
        /\ runs'[run].started = runs[run].started
        /\ \/ UNCHANGED runs
           \/ runs'[run].status # "RUNNING"
    BY <1>0, <2>1, <2>2, <2>3, FinishRunRows
  <2>5. UNCHANGED <<now, left, touched, inflight, applied, authorised, calls, req, run>>
        /\ wpc' \in {"reply", "refinish"}
    BY <1>6 DEF ApplyFinish, ApplyRefinish
  <2>6. spc \in SchedulerRunPoints => srun \in RunIds /\ srun # run
    BY <2>1 DEF ControlInv, SchedulerInv, SchedulerControl, RowInv, SchedulerRow
  <2>7. NoRowNoEffect' /\ RowsOK'
    BY <2>1, <2>4, <2>5 DEF RowInv, NoRowNoEffect, RowsOK
  <2>8. WorkerRow'
    BY <2>1, <2>4, <2>5 DEF RowInv, WorkerRow
  <2>9. SchedulerRow'
    BY <1>0, <2>4, <2>6 DEF RowInv, SchedulerRow, schedulerVars
  <2> QED
    BY <2>7, <2>8, <2>9 DEF RowInv
<1>7. CASE ReplyFails \/ Crash
  <2>1. Die
    BY <1>7 DEF ReplyFails, Crash
  <2>2. \/ UNCHANGED <<left, touched, inflight>>
        \/ /\ run \in RunIds /\ runs[run] # NoRow
           /\ inflight' = inflight \cup {run} /\ UNCHANGED <<left, touched>>
    BY <1>0, <2>1 DEF Die, Abandon, Drops, LocalsOK, RowInv, WorkerRow
  <2>3. UNCHANGED <<runs, now, applied, authorised>> /\ wpc' = "down"
    BY <2>1 DEF Die
  <2> QED
    BY <1>0, <2>2, <2>3 DEF RowInv, NoRowNoEffect, RowsOK, WorkerRow, SchedulerRow, schedulerVars
<1>8. ASSUME NEW c \in Calls, Submit(c) \/ ClientGone(c)
      PROVE  RowInv'
  <2>1. wpc \in RunPoints => calls'[req].source = calls[req].source
    <3>1. wpc \in RunPoints => req \in Calls /\ calls[req] # Unsent
      BY <1>0, CallStates DEF ReqOK, Serving, WorkerInv
    <3> QED
      BY <1>0, <1>8, <3>1 DEF Submit, ClientGone, WorkerInv, WorkerType
  <2>2. UNCHANGED <<boundaryVars, wpc, req, run, authorised>>
    BY <1>8 DEF Submit, ClientGone
  <2> QED
    BY <1>0, <2>1, <2>2, QuietStep
<1> QED
  BY <1>1, <1>2, <1>3, <1>4, <1>5, <1>6, <1>7, <1>8
     DEF WorkerMoves, WorkerNext, ServeStep, ApplyStep, ChildStep, ClientStep

(* Every step of the scheduler keeps RowInv.                               *)
LEMMA SchedulerRowStep ==
    ASSUME ControlInv, RowInv, SchedulerMoves
    PROVE  RowInv'
<1> USE DEF SchedulerRunPoints, ExecutePoints, boundaryVars
<1>0. /\ UNCHANGED workerVars /\ BoundaryType /\ RunsType /\ now \in Nat
      /\ SchedulerType /\ SchedulerControl
      /\ wpc \in RunPoints => run \in RunIds
  BY DEF SchedulerMoves, ControlInv, SchedulerInv, BoundaryType, WorkerInv, WorkerControl, LocalsOK
<1>1. CASE \/ TickBegin \/ TickLoad \/ TickFails \/ TickEvaluate \/ TickEnd \/ TickExit
           \/ SourceFails \/ SourceDone
  <2>1. /\ UNCHANGED <<runs, now, left, touched, inflight, applied>>
        /\ spc' \in SchedulerRunPoints => spc \in SchedulerRunPoints /\ srun' = srun
    BY <1>1 DEF TickBegin, TickLoad, TickFails, TickEvaluate, TickEnd, TickExit, Gone, SourceFails,
                SourceDone, Raised
  <2> QED
    BY <1>0, <2>1 DEF RowInv, NoRowNoEffect, RowsOK, WorkerRow, SchedulerRow, workerVars
<1>2. CASE SourceStart
  <2>1. PICK s \in Pending, outcome \in Outcomes : Begin(s, outcome)
    BY <1>2 DEF SourceStart
  <2>2. s \in Sources
    BY <1>0, <2>1 DEF Pending, SchedulerType
  <2>3. PICK r \in RunIds :
            /\ runs[r] = NoRow
            /\ StartRunOutcome(r, s, "scheduled", outcome)
            /\ outcome = "ok" => srun' = r /\ spc' = "plan"
            /\ outcome # "ok" => UNCHANGED spc
    BY <2>1 DEF Begin
  <2>4. /\ \A q \in RunIds : q # r => runs'[q] = runs[q]
        /\ outcome = "failed" => UNCHANGED runs
        /\ outcome # "failed" =>
             /\ runs'[r] # NoRow /\ runs'[r].trigger = "scheduled"
             /\ runs'[r].started = now /\ runs'[r].status = "RUNNING" /\ runs'[r].digest = None
    BY <1>0, <2>2, <2>3, StartRunRows DEF RunTrigger
  <2>5. UNCHANGED <<now, left, touched, inflight, applied>> /\ spc = "next"
    BY <1>2 DEF SourceStart
  <2>6. NoRowNoEffect' /\ RowsOK'
    BY <1>0, <2>3, <2>4, <2>5 DEF RowInv, NoRowNoEffect, RowsOK, workerVars
  <2>7. WorkerRow'
    BY <1>0, <2>3, <2>4 DEF RowInv, WorkerRow, workerVars
  <2>8. SchedulerRow'
    BY <2>3, <2>4, <2>5 DEF SchedulerRow
  <2> QED
    BY <2>6, <2>7, <2>8 DEF RowInv
<1>3. CASE SourcePlan \/ SourcePrecheck \/ SourceWrite \/ SourceWriteFails
  <2>1. spc \in ExecutePoints /\ srun \in RunIds /\ runs[srun] # NoRow
    BY <1>0, <1>3 DEF SourcePlan, SourcePrecheck, SourceWrite, SourceWriteFails, SchedulerControl,
                      RowInv, SchedulerRow
  <2>2. \A r \in RunIds : r # srun =>
            /\ left'[r] = left[r] /\ applied'[r] = applied[r]
            /\ r \in touched' => r \in touched
            /\ r \in inflight' => r \in inflight
    BY <1>0, <1>3, <2>1 DEF SourcePlan, SourcePrecheck, SourceWrite, SourceWriteFails, WriteLands,
         WriteErrs, Landed, Drops, BoundaryType
  <2>3. UNCHANGED <<runs, now, srun>> /\ spc' \in SchedulerRunPoints
    BY <1>3 DEF SourcePlan, SourcePrecheck, SourceWrite, SourceWriteFails, Raised, schedulerVars
  <2> QED
    BY <1>0, <2>1, <2>2, <2>3 DEF RowInv, NoRowNoEffect, RowsOK, WorkerRow, SchedulerRow, workerVars
<1>4. CASE SourceFinish
  <2>1. spc = "finish" /\ srun \in RunIds /\ runs[srun] # NoRow
        /\ runs[srun].trigger = "scheduled"
    BY <1>0, <1>4 DEF SourceFinish, SchedulerControl, RowInv, SchedulerRow
  <2>2. applied[srun] \in Digests \cup {None}
    BY <1>0, <2>1 DEF BoundaryType
  <2>3. PICK status \in RunStatus \ {"RUNNING"}, d \in Digests \cup {None}, outcome \in Outcomes :
            FinishRunOutcome(srun, status, d, outcome)
    <3>1. TerminalStatus(scode) \in RunStatus \ {"RUNNING"}
      BY TerminalStatusType
    <3>2. "SUCCEEDED" \in RunStatus \ {"RUNNING"}
      BY DEF RunStatus
    <3> QED
      BY <1>4, <2>2, <3>1, <3>2 DEF SourceFinish
  <2>4. /\ \A q \in RunIds : q # srun => runs'[q] = runs[q]
        /\ runs'[srun] # NoRow
        /\ runs'[srun].started = runs[srun].started
        /\ UNCHANGED runs \/ runs'[srun].status # "RUNNING"
    BY <1>0, <2>1, <2>3, FinishRunRows
  <2>5. UNCHANGED <<now, left, touched, inflight, applied>> /\ spc' = "next"
    BY <1>4 DEF SourceFinish
  <2>6. NoRowNoEffect' /\ RowsOK'
    BY <1>0, <2>1, <2>4, <2>5 DEF RowInv, NoRowNoEffect, RowsOK, workerVars
  <2>7. WorkerRow'
    BY <1>0, <2>1, <2>4 DEF RowInv, WorkerRow, workerVars
  <2> QED
    BY <2>5, <2>6, <2>7 DEF RowInv, SchedulerRow
<1>5. CASE SchedulerCrash
  <2>1. \/ UNCHANGED <<left, touched, inflight>>
        \/ /\ srun \in RunIds /\ runs[srun] # NoRow
           /\ inflight' = inflight \cup {srun} /\ UNCHANGED <<left, touched>>
    BY <1>0, <1>5 DEF SchedulerCrash, Abandon, Drops, SchedulerControl, RowInv, SchedulerRow
  <2>2. UNCHANGED <<runs, now, applied>> /\ spc' = "off"
    BY <1>5 DEF SchedulerCrash, Gone
  <2> QED
    BY <1>0, <2>1, <2>2 DEF RowInv, NoRowNoEffect, RowsOK, WorkerRow, SchedulerRow, workerVars
<1> QED
  BY <1>1, <1>2, <1>3, <1>4, <1>5 DEF SchedulerMoves, SchedulerNext, TickStep

(* Every step of the system keeps RowInv.                                  *)
LEMMA RowStep ==
    ASSUME ControlInv, RowInv, [Next]_systemVars
    PROVE  RowInv'
<1>1. CASE EnvironmentMoves
  <2>1. BoundaryType
    BY DEF ControlInv, WorkerInv
  <2> QED
    BY <1>1, <2>1 DEF EnvironmentMoves, EnvironmentStep, Advance, LateWrite, Landed,
         MaintenanceBegin, MaintenanceEnd, BoundaryType, RunsType, Row, RowInv, NoRowNoEffect,
         RowsOK, WorkerRow, SchedulerRow, workerVars, schedulerVars
<1>2. CASE UNCHANGED systemVars
  BY <1>2 DEF systemVars, boundaryVars, workerVars, schedulerVars, RowInv, NoRowNoEffect, RowsOK,
              WorkerRow, SchedulerRow
<1> QED
  BY <1>1, <1>2, WorkerRowStep, SchedulerRowStep DEF Next

(* No row exists initially.                                                *)
LEMMA RowInit == Init => RowInv
BY DEF Init, BoundaryInit, WorkerInit, SchedulerInit, RowInv, NoRowNoEffect, RowsOK, WorkerRow,
       SchedulerRow, RunPoints, LockedPoints, ChildPoints, SchedulerRunPoints, ExecutePoints

-----------------------------------------------------------------------------
(* The row of a manual, of a scheduled run.                               *)
Manual(r) == runs[r] # NoRow /\ runs[r].trigger = "manual"

Scheduled(r) == runs[r] # NoRow /\ runs[r].trigger = "scheduled"

(* The scheduler leaves manual runs alone, rows, plans and NetBox          *)
(* included.                                                               *)
LEMMA SchedulerKeepsManual ==
    ASSUME ControlInv, RowInv, SchedulerMoves, NEW r \in RunIds, Manual(r)' \/ Manual(r)
    PROVE  /\ runs'[r] = runs[r] /\ applied'[r] = applied[r] /\ left'[r] = left[r]
           /\ r \in touched' <=> r \in touched
           /\ r \in inflight' <=> r \in inflight
<1> USE DEF SchedulerRunPoints, ExecutePoints, boundaryVars, Manual
<1>0. BoundaryType /\ RunsType /\ now \in Nat /\ SchedulerType /\ SchedulerControl
  BY DEF ControlInv, SchedulerInv, BoundaryType
<1>1. CASE \/ TickBegin \/ TickLoad \/ TickFails \/ TickEvaluate \/ TickEnd \/ TickExit
           \/ SourceFails \/ SourceDone
  BY <1>1 DEF TickBegin, TickLoad, TickFails, TickEvaluate, TickEnd, TickExit, SourceFails, SourceDone
<1>2. CASE SourceStart
  <2>1. PICK s \in Pending, outcome \in Outcomes, q \in RunIds :
            runs[q] = NoRow /\ StartRunOutcome(q, s, "scheduled", outcome)
    BY <1>2 DEF SourceStart, Begin
  <2>2. s \in Sources
    BY <1>0, <2>1 DEF Pending, SchedulerType
  <2>3. /\ \A x \in RunIds : x # q => runs'[x] = runs[x]
        /\ runs'[q] # NoRow => runs'[q].trigger = "scheduled"
    BY <1>0, <2>1, <2>2, StartRunRows DEF RunTrigger
  <2>4. r # q
    BY <2>1, <2>3
  <2> QED
    BY <1>2, <2>3, <2>4 DEF SourceStart
<1>3. CASE SourcePlan \/ SourcePrecheck \/ SourceWrite \/ SourceWriteFails \/ SchedulerCrash
  <2>1. UNCHANGED runs
    BY <1>3 DEF SourcePlan, SourcePrecheck, SourceWrite, SourceWriteFails, SchedulerCrash
  <2>2. spc \in ExecutePoints => srun \in RunIds /\ srun # r
    BY <1>0, <2>1 DEF SchedulerControl, RowInv, SchedulerRow
  <2> QED
    BY <1>0, <1>3, <2>1, <2>2 DEF SourcePlan, SourcePrecheck, SourceWrite, SourceWriteFails,
         SchedulerCrash, Abandon, WriteLands, WriteErrs, Landed, Drops, BoundaryType
<1>4. CASE SourceFinish
  <2>1. spc = "finish" /\ srun \in RunIds /\ runs[srun] # NoRow /\ runs[srun].trigger = "scheduled"
    BY <1>0, <1>4 DEF SourceFinish, SchedulerControl, RowInv, SchedulerRow
  <2>2. applied[srun] \in Digests \cup {None}
    BY <1>0, <2>1 DEF BoundaryType
  <2>3. PICK status \in RunStatus \ {"RUNNING"}, d \in Digests \cup {None}, outcome \in Outcomes :
            FinishRunOutcome(srun, status, d, outcome)
    <3>1. TerminalStatus(scode) \in RunStatus \ {"RUNNING"}
      BY TerminalStatusType
    <3>2. "SUCCEEDED" \in RunStatus \ {"RUNNING"}
      BY DEF RunStatus
    <3> QED
      BY <1>4, <2>2, <3>1, <3>2 DEF SourceFinish
  <2>4. /\ \A q \in RunIds : q # srun => runs'[q] = runs[q]
        /\ runs'[srun].trigger = "scheduled"
    BY <1>0, <2>1, <2>3, FinishRunRows
  <2>5. r # srun
    BY <2>1, <2>4
  <2> QED
    BY <1>4, <2>4, <2>5 DEF SourceFinish
<1> QED
  BY <1>1, <1>2, <1>3, <1>4 DEF SchedulerMoves, SchedulerNext, TickStep

(* The worker leaves scheduled runs alone.                                 *)
LEMMA WorkerKeepsScheduled ==
    ASSUME ControlInv, RowInv, WorkerMoves, NEW r \in RunIds, Scheduled(r)
    PROVE  /\ runs'[r] = runs[r] /\ left'[r] = left[r]
           /\ r \in touched' <=> r \in touched
           /\ r \in inflight' <=> r \in inflight
<1> USE DEF boundaryVars, RunPoints, LockedPoints, ChildPoints, Scheduled
<1>0. BoundaryType /\ RunsType /\ now \in Nat /\ WorkerType /\ ReqOK /\ LocalsOK
  BY DEF ControlInv, WorkerInv, WorkerControl, BoundaryType
<1>1. CASE \/ Accept \/ PrepareStep \/ ApplySource \/ ApplyConsume \/ Reply \/ Restart \/ ClientStep
           \/ ApplyOpen \/ ApplyLock \/ ApplyReload \/ ApplyUnlock \/ ChildDiscoverFails
           \/ ChildReplan \/ ChildPrecheckFails \/ ChildDone
  BY <1>1 DEF Accept, PrepareStep, PrepareSource, PrepareFails, PreparePlan, ApplySource, ApplyConsume,
       Reply, Restart, ClientStep, Submit, ClientGone, ApplyOpen, ApplyLock, ApplyReload,
       ApplyUnlock, ChildDiscoverFails, ChildReplan, ChildPrecheckFails, ChildDone
<1>2. CASE ApplyStart
  <2>1. calls[req].source \in Sources
    BY <1>0, <1>2, RequestFields DEF ApplyStart, ReqOK, Serving
  <2>2. PICK q \in RunIds, outcome \in Outcomes :
            runs[q] = NoRow /\ StartRunOutcome(q, calls[req].source, "manual", outcome)
    BY <1>2 DEF ApplyStart
  <2>3. \A x \in RunIds : x # q => runs'[x] = runs[x]
    BY <1>0, <2>1, <2>2, StartRunRows DEF RunTrigger
  <2> QED
    BY <1>2, <2>2, <2>3 DEF ApplyStart
<1>3. CASE ChildPrecheck \/ ChildWrite \/ ChildWriteFails \/ ChildLost \/ ReplyFails \/ Crash
  <2>1. wpc \in RunPoints => run \in RunIds /\ run # r
    BY <1>0 DEF LocalsOK, RowInv, WorkerRow
  <2> QED
    BY <1>0, <1>3, <2>1 DEF ChildPrecheck, ChildWrite, ChildWriteFails, ChildLost, ReplyFails, Crash,
         Die, Abandon, WriteLands, WriteErrs, Landed, Drops, BoundaryType
<1>4. CASE ApplyFinish \/ ApplyRefinish
  <2>1. run \in RunIds /\ run # r
    BY <1>0, <1>4 DEF ApplyFinish, ApplyRefinish, LocalsOK, RowInv, WorkerRow
  <2>2. PICK status, d, outcome : FinishRunOutcome(run, status, d, outcome)
    BY <1>4 DEF ApplyFinish, ApplyRefinish
  <2>3. runs'[r] = runs[r]
    BY <1>0, <2>1, <2>2 DEF FinishRunOutcome, FinishRun, RunsType
  <2> QED
    BY <1>4, <2>3 DEF ApplyFinish, ApplyRefinish
<1> QED
  BY <1>1, <1>2, <1>3, <1>4 DEF WorkerMoves, WorkerNext, ServeStep, ApplyStep, ChildStep
=============================================================================
