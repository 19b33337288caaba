---------------------------- MODULE CadenceProofs ---------------------------
(***************************************************************************)
(* Proofs about what a tick of the scheduler starts and what it reports,   *)
(* beside the manual writer: when a source may start was judged once, at   *)
(* the beginning of the tick, and is used later.                           *)
(***************************************************************************)
EXTENDS AuditProofs, WellFoundedInduction

(* The order of the natural numbers, as the library's theorem on least     *)
(* elements takes it.                                                      *)
LessThan == {pair \in Nat \X Nat : pair[1] < pair[2]}

LEMMA LessThanWellFounded == IsWellFoundedOn(LessThan, Nat)
BY NatLessThanWellFounded DEF OpToRel, LessThan

LEMMA LeastNatural ==
    ASSUME NEW S \in SUBSET Nat, S # {}
    PROVE  \E least \in S : \A a \in S : least <= a
<1>1. PICK least \in S : \A a \in S : ~(<<a, least>> \in LessThan)
  BY LessThanWellFounded, WFMin
<1>2. ASSUME NEW a \in S PROVE least <= a
  <2>1. <<a, least>> \in Nat \X Nat /\ <<a, least>>[1] = a /\ <<a, least>>[2] = least
    OBVIOUS
  <2>2. ~(a < least)
    BY <1>1, <2>1 DEF LessThan
  <2> QED
    BY <2>2
<1> QED
  BY <1>2

(***************************************************************************)
(* latest_by_source: the newest of a set of rows is at least as new as     *)
(* each of them.  The set need not be finite: the rows are not younger     *)
(* than the clock.                                                         *)
(***************************************************************************)
LEMMA NewestIsNewest ==
    ASSUME RunsType, now \in Nat, RowsOK,
           NEW rows \in SUBSET RunIds, \A r \in rows : runs[r] # NoRow, NEW q \in rows
    PROVE  \E ref \in Newest(rows) : ref \in Nat /\ runs[q].started <= ref
<1> DEFINE Age(r) == now - runs[r].started
           Ages == {Age(r) : r \in rows}
<1>1. \A r \in rows : runs[r].started \in Nat /\ runs[r].started <= now
  BY DEF RunsType, Row, RowsOK
<1>2. \A r \in rows : Age(r) \in Nat
  BY <1>1
<1>3. Ages \subseteq Nat /\ Ages # {}
  BY <1>2
<1>5. PICK least \in Ages : \A a \in Ages : least <= a
  <2> HIDE DEF Ages
  <2> QED
    BY <1>3, LeastNatural
<1>6. PICK x \in rows : least = Age(x)
  OBVIOUS
<1>7. \A y \in rows : runs[y].started <= runs[x].started
  <2> SUFFICES ASSUME NEW y \in rows PROVE runs[y].started <= runs[x].started
    OBVIOUS
  <2>1. Age(x) <= Age(y)
    BY <1>5, <1>6
  <2> QED
    BY <1>1, <2>1
<1>8. runs[x].started \in Newest(rows)
  BY <1>7 DEF Newest
<1> QED
  BY <1>1, <1>7, <1>8

(* evaluate_schedule: an eligible source is enabled, its interval has      *)
(* passed since each of its scheduled runs, and each of them that is still *)
(* RUNNING is stale.                                                       *)
LEMMA EligibleMeans ==
    ASSUME RunsType, now \in Nat, RowsOK, NEW s \in Sources, NEW config \in SourceConfig,
           Eligible(config, LatestScheduled(s), LatestRunning(s), now)
    PROVE  /\ config.enabled /\ config.sync_enabled
           /\ \A q \in ScheduledRows(s) :
                 /\ runs[q].started + config.interval <= now
                 /\ runs[q].status = "RUNNING" => runs[q].started + StaleSeconds < now
<1>1. /\ config.enabled /\ config.sync_enabled
      /\ ~StillRunning(LatestRunning(s), now)
      /\ Reached(config, LatestScheduled(s), now)
  BY DEF Eligible, EvaluateSchedule
<1>2. config.interval \in Nat /\ StaleSeconds \in Nat
  BY SchedulingAssumption DEF SourceConfig
<1>3. ASSUME NEW q \in ScheduledRows(s)
      PROVE  runs[q].started + config.interval <= now
  <2>1. PICK ref \in LatestScheduled(s) : ref \in Nat /\ runs[q].started <= ref
    BY NewestIsNewest DEF LatestScheduled, ScheduledRows
  <2>2. ref + config.interval <= now
    BY <1>1, <2>1 DEF Reached
  <2>3. runs[q].started \in Nat
    BY DEF ScheduledRows, RunsType, Row
  <2> QED
    BY <1>2, <2>1, <2>2, <2>3
<1>4. ASSUME NEW q \in ScheduledRows(s), runs[q].status = "RUNNING"
      PROVE  runs[q].started + StaleSeconds < now
  <2>1. PICK ref \in LatestRunning(s) : ref \in Nat /\ runs[q].started <= ref
    BY <1>4, NewestIsNewest DEF LatestRunning, ScheduledRows
  <2>2. ref + StaleSeconds < now
    BY <1>1, <1>2, <2>1 DEF StillRunning
  <2>3. runs[q].started \in Nat
    BY DEF ScheduledRows, RunsType, Row
  <2> QED
    BY <1>2, <2>1, <2>2, <2>3
<1> QED
  BY <1>1, <1>3, <1>4

-----------------------------------------------------------------------------
(***************************************************************************)
(* What the tick still knows to be true when it uses it.                   *)
(***************************************************************************)
TickIsPast == tick <= now

(* Nothing of s stands against starting it, judged at the time of the tick.*)
MayStart(s) ==
    /\ snapshot[s] # None /\ snapshot[s].enabled /\ snapshot[s].sync_enabled
    /\ \A q \in ScheduledRows(s) :
          /\ runs[q].started + snapshot[s].interval <= tick
          /\ runs[q].status = "RUNNING" => runs[q].started + StaleSeconds < tick

(* The eligible sources that run_sources has not reached yet.              *)
Waiting == IF spc \in SchedulerRunPoints THEN Pending \ {src} ELSE Pending

WaitingMayStart == \A s \in Waiting : MayStart(s)

(* The source under execution has no result yet, and the row of this tick. *)
RowOfTick ==
    spc \in SchedulerRunPoints =>
        /\ src \in Pending
        /\ runs[srun].source = src /\ runs[srun].started >= tick

NothingDropped ==
    spc \in ExecutePoints \/ (spc = "finish" /\ scode = "SUCCEEDED") => srun \notin inflight

(* What the result of a source says of its row.                            *)
Attempted ==
    \A s \in Sources : results[s] # None =>
        \/ results[s].history = "START_FAILED"
        \/ TickRows(s) # {}

Written(r) == runs[r].status = "SUCCEEDED" /\ left[r] = 0 /\ r \notin inflight

Recorded ==
    \A s \in Sources : results[s] # None /\ results[s].success /\ results[s].history = "RECORDED" =>
        \E r \in TickRows(s) : Written(r)

NothingWaits == spc = "exit" => Pending = {}

CadenceInv == /\ TickIsPast /\ WaitingMayStart /\ RowOfTick /\ NothingDropped
              /\ Attempted /\ Recorded /\ NothingWaits

(***************************************************************************)
(* Everything that is not the scheduler: scheduled runs are left alone,    *)
(* except that a mutation that is under way may land, and none appears.    *)
(***************************************************************************)
Background ==
    /\ UNCHANGED schedulerVars
    /\ now' \in Nat /\ now' >= now
    /\ \A r \in RunIds : Scheduled(r)' => Scheduled(r)
    /\ \A r \in RunIds : Scheduled(r) =>
          /\ runs'[r] = runs[r]
          /\ left[r] = 0 => left'[r] = 0
          /\ r \in inflight' => r \in inflight

(* The worker never moves the clock.                                       *)
LEMMA WorkerKeepsClock ==
    ASSUME WorkerMoves
    PROVE  UNCHANGED now
<1> USE DEF boundaryVars
<1>1. CASE Accept \/ PrepareStep \/ Reply \/ Restart \/ ClientStep \/ ReplyFails \/ Crash
  BY <1>1 DEF Accept, PrepareStep, PrepareSource, PrepareFails, PreparePlan, Reply, Restart,
              ClientStep, Submit, ClientGone, ReplyFails, Crash, Die
<1>2. CASE ApplySource \/ ApplyStart \/ ApplyConsume \/ ApplyOpen \/ ApplyLock \/ ApplyReload
           \/ ApplyUnlock \/ ApplyFinish \/ ApplyRefinish
  BY <1>2 DEF ApplySource, ApplyStart, ApplyConsume, ApplyOpen, ApplyLock, ApplyReload,
              ApplyUnlock, ApplyFinish, ApplyRefinish
<1>3. CASE ChildStep
  BY <1>3 DEF ChildStep, ChildDiscoverFails, ChildReplan, ChildPrecheckFails, ChildPrecheck,
              ChildWrite, ChildWriteFails, ChildDone, ChildLost
<1> QED
  BY <1>1, <1>2, <1>3 DEF WorkerMoves, WorkerNext, ServeStep, ApplyStep

(* The runs that the worker starts are manual.                             *)
LEMMA WorkerStartsManual ==
    ASSUME ControlInv, RowInv, WorkerMoves, NEW r \in RunIds, Scheduled(r)'
    PROVE  Scheduled(r)
<1> USE DEF boundaryVars, Scheduled
<1>0. BoundaryType /\ RunsType /\ now \in Nat /\ WorkerType /\ ReqOK /\ LocalsOK
  BY DEF ControlInv, WorkerInv, WorkerControl, BoundaryType
<1>1. CASE Accept \/ PrepareStep \/ Reply \/ Restart \/ ClientStep \/ ReplyFails \/ Crash
  BY <1>1 DEF Accept, PrepareStep, PrepareSource, PrepareFails, PreparePlan, Reply, Restart,
              ClientStep, Submit, ClientGone, ReplyFails, Crash, Die
<1>2. CASE ApplySource \/ ApplyConsume \/ ApplyOpen \/ ApplyLock \/ ApplyReload \/ ApplyUnlock
           \/ ChildStep
  BY <1>2 DEF ApplySource, ApplyConsume, ApplyOpen, ApplyLock, ApplyReload, ApplyUnlock, ChildStep,
              ChildDiscoverFails, ChildReplan, ChildPrecheckFails, ChildPrecheck, ChildWrite,
              ChildWriteFails, ChildDone, ChildLost
<1>3. CASE ApplyStart
  <2>1. calls[req].source \in Sources
    BY <1>0, <1>3, RequestFields DEF ApplyStart, ReqOK, Serving
  <2>2. PICK q \in RunIds, outcome \in Outcomes :
            runs[q] = NoRow /\ StartRunOutcome(q, calls[req].source, "manual", outcome)
    BY <1>3 DEF ApplyStart
  <2>3. /\ \A x \in RunIds : x # q => runs'[x] = runs[x]
        /\ runs'[q] # NoRow => runs'[q].trigger = "manual"
    BY <1>0, <2>1, <2>2, StartRunRows DEF RunTrigger
  <2> QED
    BY <2>3
<1>4. CASE ApplyFinish \/ ApplyRefinish
  <2>1. run \in RunIds /\ Manual(run)
    BY <1>0, <1>4 DEF ApplyFinish, ApplyRefinish, LocalsOK, RowInv, WorkerRow, RunPoints, Manual
  <2>2. PICK status, d, outcome : FinishRunOutcome(run, status, d, outcome)
    BY <1>4 DEF ApplyFinish, ApplyRefinish
  <2>3. runs'[run].trigger = "manual" /\ \A x \in RunIds : x # run => runs'[x] = runs[x]
    BY <1>0, <2>1, <2>2 DEF FinishRunOutcome, FinishRun, RunsType, Manual
  <2> QED
    BY <2>3
<1> QED
  BY <1>1, <1>2, <1>3, <1>4 DEF WorkerMoves, WorkerNext, ServeStep, ApplyStep

(* The worker, its child, its clients, the clock and maintenance are       *)
(* Background.                                                             *)
LEMMA OthersAreBackground ==
    ASSUME ControlInv, RowInv, WorkerMoves \/ EnvironmentMoves \/ UNCHANGED systemVars
    PROVE  Background
<1>0. BoundaryType /\ RunsType /\ now \in Nat
  BY DEF ControlInv, WorkerInv, BoundaryType
<1>1. CASE WorkerMoves
  <2>1. UNCHANGED schedulerVars /\ UNCHANGED now
    BY <1>1, WorkerKeepsClock DEF WorkerMoves
  <2>2. \A r \in RunIds : Scheduled(r)' => Scheduled(r)
    BY <1>1, WorkerStartsManual
  <2>3. \A r \in RunIds : Scheduled(r) =>
           /\ runs'[r] = runs[r] /\ left'[r] = left[r] /\ (r \in inflight' <=> r \in inflight)
    BY <1>1, WorkerKeepsScheduled
  <2> QED
    BY <1>0, <2>1, <2>2, <2>3 DEF Background
<1>2. CASE EnvironmentMoves
  <2>1. UNCHANGED <<runs, schedulerVars>> /\ now' \in Nat /\ now' >= now
    BY <1>0, <1>2 DEF EnvironmentMoves, EnvironmentStep, Advance, LateWrite, MaintenanceBegin,
                      MaintenanceEnd
  <2>2. \A r \in RunIds : (left[r] = 0 => left'[r] = 0) /\ (r \in inflight' => r \in inflight)
    BY <1>0, <1>2 DEF EnvironmentMoves, EnvironmentStep, Advance, LateWrite, Landed, MaintenanceBegin,
                      MaintenanceEnd, BoundaryType
  <2> QED
    BY <2>1, <2>2 DEF Background, Scheduled
<1>3. CASE UNCHANGED systemVars
  BY <1>0, <1>3 DEF systemVars, boundaryVars, Background, Scheduled
<1> QED
  BY <1>1, <1>2, <1>3

-----------------------------------------------------------------------------
(* The rows of a source that a step leaves alone.                          *)
RowsKept(s) == \A q \in RunIds : /\ q \in ScheduledRows(s)' <=> q \in ScheduledRows(s)
                                 /\ q \in ScheduledRows(s) => runs'[q] = runs[q]

(* What was judged when the tick began stays so while nobody starts or     *)
(* finishes a scheduled run of that source.                                *)
LEMMA JudgementKept ==
    ASSUME NEW s, MayStart(s), RowsKept(s), UNCHANGED <<snapshot, tick>>
    PROVE  MayStart(s)'
BY DEF MayStart, RowsKept, ScheduledRows

(* A row of the tick stays one.                                            *)
LEMMA TickRowKept ==
    ASSUME NEW s, NEW r \in TickRows(s), RowsKept(s), UNCHANGED tick
    PROVE  r \in TickRows(s)' /\ runs'[r] = runs[r]
BY DEF TickRows, RowsKept, ScheduledRows

(* What results say of the rows stays true if what is written stays        *)
(* written.                                                                *)
LEMMA ResultsKept ==
    ASSUME Attempted, Recorded, UNCHANGED <<tick, results>>, \A s \in Sources : RowsKept(s),
           \A s \in Sources : \A r \in TickRows(s) :
               Written(r) => left'[r] = 0 /\ r \notin inflight'
    PROVE  Attempted' /\ Recorded'
<1>1. ASSUME NEW s \in Sources, results[s] # None, results[s].history # "START_FAILED"
      PROVE  TickRows(s)' # {}
  BY <1>1, TickRowKept DEF Attempted
<1>2. ASSUME NEW s \in Sources, results[s] # None, results[s].success,
             results[s].history = "RECORDED"
      PROVE  \E r \in TickRows(s)' : Written(r)'
  <2>1. PICK r \in TickRows(s) : Written(r)
    BY <1>2 DEF Recorded
  <2>2. r \in TickRows(s)' /\ runs'[r] = runs[r] /\ left'[r] = 0 /\ r \notin inflight'
    BY <2>1, TickRowKept
  <2> QED
    BY <2>1, <2>2 DEF Written
<1> QED
  BY <1>1, <1>2 DEF Attempted, Recorded

(* The others leave all of it alone.                                       *)
LEMMA BackgroundStep ==
    ASSUME ControlInv, RowInv, CadenceInv, Background
    PROVE  CadenceInv'
<1>0. /\ BoundaryType /\ RunsType /\ now \in Nat /\ SchedulerType /\ SchedulerControl
      /\ TickIsPast /\ WaitingMayStart /\ RowOfTick /\ NothingDropped /\ Attempted /\ Recorded
      /\ NothingWaits
  BY DEF ControlInv, SchedulerInv, BoundaryType, CadenceInv
<1>1. UNCHANGED <<spc, snapshot, tick, due, results, src, srun, scode>>
  BY DEF Background, schedulerVars
<1>2. \A s \in Sources : RowsKept(s)
  BY DEF Background, RowsKept, ScheduledRows, Scheduled
<1>3. \A s \in Sources : \A r \in TickRows(s) : Written(r) => left'[r] = 0 /\ r \notin inflight'
  BY DEF Background, TickRows, ScheduledRows, Scheduled, Written
<1>4. Attempted' /\ Recorded'
  BY <1>0, <1>1, <1>2, <1>3, ResultsKept
<1>5. WaitingMayStart'
  <2>1. Waiting' = Waiting /\ Waiting \subseteq Sources
    BY <1>0, <1>1 DEF Waiting, Pending, SchedulerType
  <2>2. \A s \in Waiting : MayStart(s)'
    BY <1>0, <1>1, <1>2, <2>1, JudgementKept DEF WaitingMayStart
  <2> QED
    BY <2>1, <2>2 DEF WaitingMayStart
<1>6. spc \in SchedulerRunPoints => srun \in RunIds /\ Scheduled(srun)
  BY <1>0 DEF SchedulerControl, RowInv, SchedulerRow, Scheduled
<1>7. RowOfTick' /\ NothingDropped'
  BY <1>0, <1>1, <1>6 DEF RowOfTick, NothingDropped, Pending, Background, SchedulerRunPoints
<1>8. TickIsPast' /\ NothingWaits'
  BY <1>0, <1>1 DEF Background, TickIsPast, NothingWaits, Pending, SchedulerType
<1> QED
  BY <1>4, <1>5, <1>7, <1>8 DEF CadenceInv

(* Every step of the tick keeps CadenceInv.                                *)
LEMMA CadenceSchedulerStep ==
    ASSUME ControlInv, RowInv, AuditInv, CadenceInv, SchedulerMoves
    PROVE  CadenceInv'
<1>0. /\ BoundaryType /\ RunsType /\ now \in Nat /\ SchedulerType /\ SchedulerControl
      /\ TickIsPast /\ WaitingMayStart /\ RowOfTick /\ NothingDropped /\ Attempted /\ Recorded
      /\ NothingWaits
  BY DEF ControlInv, SchedulerInv, BoundaryType, CadenceInv
<1> USE DEF SchedulerRunPoints, ExecutePoints, boundaryVars
<1>1. CASE TickBegin \/ TickFails \/ TickEnd \/ SourceFails \/ SourcePlan \/ SourceDone
  <2>1. UNCHANGED <<runs, now, left, inflight, snapshot, tick, due, results, src, srun>>
    BY <1>1 DEF TickBegin, TickFails, TickEnd, SourceFails, SourcePlan, SourceDone
  <2>2. \/ spc \notin SchedulerRunPoints /\ spc' \in {"load", "error"}
        \/ spc \notin SchedulerRunPoints /\ spc' = "exit" /\ Pending = {}
        \/ spc \in ExecutePoints /\ spc' \in SchedulerRunPoints
    BY <1>1 DEF TickBegin, TickFails, TickEnd, SourceFails, SourcePlan, SourceDone, Raised
  <2>3. Waiting' = Waiting /\ Pending' = Pending
    BY <2>1, <2>2 DEF Waiting, Pending
  <2>4. \A s : RowsKept(s) /\ (MayStart(s) => MayStart(s)')
    BY <2>1 DEF RowsKept, ScheduledRows, MayStart
  <2>5. Attempted' /\ Recorded'
    BY <1>0, <2>1, <2>4, ResultsKept DEF Written
  <2>6. WaitingMayStart' /\ RowOfTick'
    BY <1>0, <2>1, <2>2, <2>3, <2>4 DEF WaitingMayStart, RowOfTick
  <2>7. TickIsPast' /\ NothingDropped' /\ NothingWaits'
    BY <1>0, <2>1, <2>2, <2>3 DEF TickIsPast, NothingDropped, NothingWaits
  <2> QED
    BY <2>5, <2>6, <2>7 DEF CadenceInv
<1>2. CASE TickLoad \/ TickExit \/ SchedulerCrash
  <2>1. /\ due' = {} /\ results' = NoResults /\ UNCHANGED now
        /\ spc' \in {"evaluate", "off"} /\ tick' \in {tick, 0}
    BY <1>2 DEF TickLoad, TickExit, SchedulerCrash, Gone, Cleared
  <2>2. Pending' = {} /\ Waiting' = {}
    BY <2>1 DEF Pending, Waiting
  <2> QED
    BY <1>0, <2>1, <2>2 DEF CadenceInv, TickIsPast, WaitingMayStart, RowOfTick, NothingDropped,
                            Attempted, Recorded, NothingWaits, NoResults, SchedulerType
<1>3. CASE TickEvaluate
  <2>1. /\ tick' = now /\ UNCHANGED <<runs, now, snapshot>> /\ results' = NoResults /\ spc' = "next"
        /\ due' = {s \in Sources : /\ snapshot[s] # None
                                   /\ Eligible(snapshot[s], LatestScheduled(s), LatestRunning(s), now)}
    BY <1>3 DEF TickEvaluate, Cleared
  <2>2. Waiting' \subseteq due'
    BY <2>1 DEF Waiting, Pending
  <2>3. ASSUME NEW s \in due' PROVE MayStart(s)'
    <3>1. s \in Sources /\ snapshot[s] \in SourceConfig
      BY <1>0, <2>1, SchedulerAssumption DEF SchedulerType
    <3>2. /\ snapshot[s].enabled /\ snapshot[s].sync_enabled
          /\ \A q \in ScheduledRows(s) :
                /\ runs[q].started + snapshot[s].interval <= now
                /\ runs[q].status = "RUNNING" => runs[q].started + StaleSeconds < now
      BY <1>0, <2>1, <3>1, EligibleMeans DEF RowInv
    <3> QED
      BY <2>1, <3>2 DEF MayStart, ScheduledRows
  <2>4. WaitingMayStart'
    BY <2>2, <2>3 DEF WaitingMayStart
  <2> QED
    BY <1>0, <2>1, <2>4 DEF CadenceInv, TickIsPast, RowOfTick, NothingDropped, Attempted, Recorded,
                            NothingWaits, NoResults
<1>4. CASE SourceStart
  <2>1. PICK s \in Pending, outcome \in Outcomes : Begin(s, outcome)
    BY <1>4 DEF SourceStart
  <2>2. s \in Sources
    BY <1>0, <2>1 DEF Pending, SchedulerType
  <2>3. PICK r \in RunIds :
            /\ runs[r] = NoRow
            /\ StartRunOutcome(r, s, "scheduled", outcome)
            /\ IF outcome = "ok"
               THEN src' = s /\ srun' = r /\ spc' = "plan" /\ UNCHANGED results
               ELSE Result(s, FALSE, "START_FAILED") /\ UNCHANGED <<spc, src, srun>>
    BY <2>1 DEF Begin
  <2>4. /\ \A q \in RunIds : q # r => runs'[q] = runs[q]
        /\ outcome = "failed" => UNCHANGED runs
        /\ outcome # "failed" =>
             /\ runs'[r] # NoRow /\ runs'[r].source = s /\ runs'[r].trigger = "scheduled"
             /\ runs'[r].started = now
    BY <1>0, <2>2, <2>3, StartRunRows DEF RunTrigger
  <2>5. UNCHANGED <<now, left, inflight, snapshot, tick, due>> /\ spc = "next"
    BY <1>4 DEF SourceStart
  <2>6. \A x \in Sources : x # s => RowsKept(x)
    BY <2>3, <2>4 DEF RowsKept, ScheduledRows
  <2>7. results[s] = None /\ s \in due /\ results \in [Sources -> SourceRunResult \cup {None}]
    BY <1>0, <2>1 DEF Pending, SchedulerType
  <2>8. /\ \A x \in Sources : x # s => results'[x] = results[x]
        /\ \/ results'[s] = None /\ src' = s /\ srun' = r /\ spc' = "plan" /\ outcome = "ok"
           \/ /\ results'[s] # None /\ results'[s].success = FALSE
              /\ results'[s].history = "START_FAILED" /\ spc' = "next"
    <3>1. CASE outcome = "ok"
      BY <2>3, <2>7, <3>1
    <3>2. CASE outcome # "ok"
      <4>1. results' = [results EXCEPT ![s] = [success |-> FALSE, history |-> "START_FAILED"]]
        BY <2>3, <3>2 DEF Result
      <4>2. [success |-> FALSE, history |-> "START_FAILED"] \in SourceRunResult
        BY DEF SourceRunResult
      <4> QED
        BY <2>2, <2>3, <2>5, <2>7, <3>2, <4>1, <4>2, ResultAssumption
    <3> QED
      BY <3>1, <3>2
  <2>9. Waiting' = Waiting \ {s}
    BY <1>0, <2>2, <2>5, <2>8 DEF Waiting, Pending, SchedulerType
  <2>10. WaitingMayStart'
    <3>1. \A x \in Waiting \ {s} : MayStart(x)'
      BY <1>0, <2>5, <2>6, JudgementKept DEF WaitingMayStart, Waiting, Pending, SchedulerType
    <3> QED
      BY <2>9, <3>1 DEF WaitingMayStart
  <2>11. RowOfTick' /\ NothingDropped'
    BY <1>0, <2>3, <2>4, <2>5, <2>7, <2>8
       DEF RowOfTick, NothingDropped, Pending, TickIsPast, RowInv, NoRowNoEffect
  <2>12. \A x \in Sources : x # s => \A q \in TickRows(x) : q \in TickRows(x)' /\ runs'[q] = runs[q]
    BY <2>5, <2>6, TickRowKept
  <2>13. Attempted'
    <3> SUFFICES ASSUME NEW x \in Sources, results'[x] # None, results'[x].history # "START_FAILED"
                 PROVE  TickRows(x)' # {}
      BY DEF Attempted
    <3>1. x # s
      BY <2>8
    <3> QED
      BY <1>0, <2>8, <2>12, <3>1 DEF Attempted
  <2>14. Recorded'
    <3> SUFFICES ASSUME NEW x \in Sources, results'[x] # None, results'[x].success,
                        results'[x].history = "RECORDED"
                 PROVE  \E q \in TickRows(x)' : Written(q)'
      BY DEF Recorded
    <3>1. x # s
      BY <2>8
    <3>2. PICK q \in TickRows(x) : Written(q)
      BY <1>0, <2>8, <3>1 DEF Recorded
    <3> QED
      BY <2>5, <2>12, <3>1, <3>2 DEF Written
  <2> QED
    BY <1>0, <2>5, <2>8, <2>10, <2>11, <2>13, <2>14 DEF CadenceInv, TickIsPast, NothingWaits
<1>5. CASE SourcePrecheck \/ SourceWrite \/ SourceWriteFails
  <2>1. /\ spc \in ExecutePoints /\ srun \in RunIds /\ runs[srun].status = "RUNNING"
        /\ spc' \in SchedulerRunPoints
        /\ UNCHANGED <<runs, now, snapshot, tick, due, results, src, srun>>
    BY <1>0, <1>5 DEF SourcePrecheck, SourceWrite, SourceWriteFails, Raised, schedulerVars,
                      SchedulerControl, RowInv, SchedulerRow
  <2>2. \A r \in RunIds : r # srun => left'[r] = left[r] /\ (r \in inflight' => r \in inflight)
    BY <1>0, <1>5, <2>1 DEF SourcePrecheck, SourceWrite, SourceWriteFails, WriteLands, WriteErrs,
                            Landed, Drops, BoundaryType
  <2>3. (UNCHANGED inflight) \/ (spc' = "finish" /\ scode' = "APPLY_FAILED")
    BY <1>5 DEF SourcePrecheck, SourceWrite, SourceWriteFails, WriteLands, Raised
  <2>4. Waiting' = Waiting /\ Pending' = Pending
    BY <2>1 DEF Waiting, Pending
  <2>5. \A s : RowsKept(s) /\ (MayStart(s) => MayStart(s)')
    BY <2>1 DEF RowsKept, ScheduledRows, MayStart
  <2>6. Attempted' /\ Recorded'
    <3>1. \A s \in Sources : \A r \in TickRows(s) : Written(r) => left'[r] = 0 /\ r \notin inflight'
      BY <2>1, <2>2 DEF Written, TickRows, ScheduledRows
    <3> QED
      BY <1>0, <2>1, <2>5, <3>1, ResultsKept
  <2>7. WaitingMayStart' /\ RowOfTick'
    BY <1>0, <2>1, <2>4, <2>5 DEF WaitingMayStart, RowOfTick
  <2>8. TickIsPast' /\ NothingDropped' /\ NothingWaits'
    BY <1>0, <2>1, <2>3 DEF TickIsPast, NothingDropped, NothingWaits
  <2> QED
    BY <2>6, <2>7, <2>8 DEF CadenceInv
<1>6. CASE SourceFinish
  <2> DEFINE success == scode = "SUCCEEDED"
             status == IF success THEN "SUCCEEDED" ELSE TerminalStatus(scode)
             digest == IF success THEN applied[srun] ELSE None
  <2>1. /\ spc = "finish" /\ srun \in RunIds /\ src \in Sources /\ src \in due
        /\ Scheduled(srun) /\ runs[srun].status = "RUNNING"
        /\ runs[srun].source = src /\ runs[srun].started >= tick
    BY <1>0, <1>6 DEF SourceFinish, SchedulerControl, RowInv, SchedulerRow, RowOfTick, Scheduled,
                      Pending
  <2>2. digest \in Digests \cup {None} /\ status \in RunStatus \ {"RUNNING"}
    BY <1>0, <2>1, TerminalStatusType DEF BoundaryType, RunStatus
  <2> HIDE DEF status, digest
  <2>3. PICK outcome \in Outcomes :
            /\ FinishRunOutcome(srun, status, digest, outcome)
            /\ Result(src, success, IF outcome = "ok" THEN "RECORDED" ELSE "FINALIZE_FAILED")
    BY <1>6 DEF SourceFinish, status, digest
  <2>4. /\ \A q \in RunIds : q # srun => runs'[q] = runs[q]
        /\ runs'[srun] # NoRow /\ runs'[srun].source = src /\ runs'[srun].trigger = "scheduled"
        /\ runs'[srun].started = runs[srun].started
        /\ outcome = "ok" => runs'[srun].status = status
    <3>1. /\ \A q \in RunIds : q # srun => runs'[q] = runs[q]
          /\ runs'[srun] # NoRow
          /\ runs'[srun].source = runs[srun].source /\ runs'[srun].trigger = runs[srun].trigger
          /\ runs'[srun].started = runs[srun].started
      BY <1>0, <2>1, <2>2, <2>3, FinishRunRows DEF Scheduled
    <3>2. outcome = "ok" => runs'[srun].status = status
      BY <1>0, <2>1, <2>3 DEF FinishRunOutcome, Finishable, FinishRun, RunsType
    <3> QED
      BY <2>1, <3>1, <3>2 DEF Scheduled
  <2>5. UNCHANGED <<now, left, inflight, snapshot, tick, due>> /\ spc' = "next"
    BY <1>6 DEF SourceFinish
  <2>6. \A x \in Sources : x # src => RowsKept(x)
    BY <2>1, <2>4 DEF RowsKept, ScheduledRows
  <2>7. /\ \A x \in Sources : x # src => results'[x] = results[x]
        /\ results'[src] # None /\ results'[src].success = success
        /\ results'[src].history = IF outcome = "ok" THEN "RECORDED" ELSE "FINALIZE_FAILED"
    <3> DEFINE history == IF outcome = "ok" THEN "RECORDED" ELSE "FINALIZE_FAILED"
               result == [success |-> success, history |-> history]
    <3>1. result \in SourceRunResult /\ result.success = success /\ result.history = history
      BY DEF SourceRunResult
    <3>2. results' = [results EXCEPT ![src] = result] /\ results \in [Sources -> SourceRunResult \cup {None}]
      BY <1>0, <2>3 DEF Result, SchedulerType
    <3> HIDE DEF result
    <3> QED
      BY <2>1, <3>1, <3>2, ResultAssumption
  <2>8. Waiting' = Waiting
    BY <1>0, <2>1, <2>5, <2>7 DEF Waiting, Pending, SchedulerType
  <2>9. WaitingMayStart'
    <3>1. \A x \in Waiting : x \in Sources /\ x # src
      BY <1>0, <2>1 DEF Waiting, Pending, SchedulerType
    <3>2. \A x \in Waiting : MayStart(x)'
      BY <1>0, <2>5, <2>6, <3>1, JudgementKept DEF WaitingMayStart
    <3> QED
      BY <2>8, <3>2 DEF WaitingMayStart
  <2>10. \A x \in Sources : x # src => \A q \in TickRows(x) : q \in TickRows(x)' /\ runs'[q] = runs[q]
    BY <2>5, <2>6, TickRowKept
  <2>11. PICK s \in Sources, r \in RunIds : s = src /\ r = srun
    BY <2>1
  <2>12. r \in TickRows(s)'
    BY <2>1, <2>4, <2>5, <2>11 DEF TickRows, ScheduledRows
  <2>13. Attempted'
    <3> SUFFICES ASSUME NEW x \in Sources, results'[x] # None, results'[x].history # "START_FAILED"
                 PROVE  TickRows(x)' # {}
      BY DEF Attempted
    <3>1. CASE x = src
      BY <2>11, <2>12, <3>1
    <3>2. CASE x # src
      BY <1>0, <2>7, <2>10, <3>2 DEF Attempted
    <3> QED
      BY <3>1, <3>2
  <2>14. Recorded'
    <3> SUFFICES ASSUME NEW x \in Sources, results'[x] # None, results'[x].success,
                        results'[x].history = "RECORDED"
                 PROVE  \E q \in TickRows(x)' : Written(q)'
      BY DEF Recorded
    <3>1. CASE x = src
      <4>1. success /\ outcome = "ok"
        BY <2>7, <3>1
      <4>2. runs'[srun].status = "SUCCEEDED"
        BY <2>4, <4>1 DEF status
      <4>3. left[srun] = 0 /\ srun \notin inflight
        BY <1>0, <2>1, <4>1 DEF AuditInv, SchedulerHonest, NothingDropped
      <4> QED
        BY <2>5, <2>11, <2>12, <3>1, <4>2, <4>3 DEF Written
    <3>2. CASE x # src
      <4>1. PICK q \in TickRows(x) : Written(q)
        BY <1>0, <2>7, <3>2 DEF Recorded
      <4> QED
        BY <2>5, <2>10, <3>2, <4>1 DEF Written
    <3> QED
      BY <3>1, <3>2
  <2> QED
    BY <1>0, <2>5, <2>9, <2>13, <2>14 DEF CadenceInv, TickIsPast, RowOfTick, NothingDropped,
                                          NothingWaits
<1> QED
  BY <1>1, <1>2, <1>3, <1>4, <1>5, <1>6 DEF SchedulerMoves, SchedulerNext, TickStep

(* Every step of the system keeps CadenceInv.                              *)
LEMMA CadenceStep ==
    ASSUME ControlInv, RowInv, AuditInv, CadenceInv, [Next]_systemVars
    PROVE  CadenceInv'
BY OthersAreBackground, BackgroundStep, CadenceSchedulerStep DEF Next

(* No tick is under way initially.                                         *)
LEMMA CadenceInit == Init => CadenceInv
BY DEF Init, BoundaryInit, SchedulerInit, CadenceInv, TickIsPast, WaitingMayStart, Waiting, Pending,
       RowOfTick, NothingDropped, Attempted, Recorded, NothingWaits, NoResults, SchedulerRunPoints,
       ExecutePoints

(* All that the proofs of the tick rest on.                                *)
TickInv == ControlInv /\ RowInv /\ AuditInv /\ CadenceInv

LEMMA TickInvariance == Spec => []TickInv
<1>1. Init => TickInv
  BY ControlInit, RowInit, AuditInit, CadenceInit DEF TickInv
<1>2. TickInv /\ [Next]_systemVars => TickInv'
  BY ControlStep, RowStep, SystemAuditStep, CadenceStep DEF TickInv
<1> QED
  BY <1>1, <1>2, PTL DEF Spec

-----------------------------------------------------------------------------
(* A scheduled run that starts is started by the tick, for a source that   *)
(* waits, and its row carries the present time.                            *)
LEMMA StartsWaiting ==
    ASSUME TickInv, Next, NEW r \in RunIds, Starts(r)
    PROVE  /\ spc = "next" /\ runs'[r].source \in Waiting
           /\ runs'[r].started = now /\ now \in Nat /\ tick <= now
<1>0. /\ BoundaryType /\ RunsType /\ now \in Nat /\ SchedulerType /\ SchedulerControl
      /\ ControlInv /\ RowInv /\ TickIsPast
  BY DEF TickInv, ControlInv, SchedulerInv, BoundaryType, CadenceInv
<1>1. ~Scheduled(r) /\ Scheduled(r)'
  BY DEF Starts, Scheduled
<1>2. SchedulerMoves
  BY <1>0, <1>1, OthersAreBackground DEF Next, Background
<1>3. SourceStart
  <2>1. CASE SourceFinish
    <3>1. srun \in RunIds /\ Scheduled(srun)
      BY <1>0, <2>1 DEF SourceFinish, SchedulerControl, RowInv, SchedulerRow, Scheduled,
                        SchedulerRunPoints
    <3>2. PICK status, d, outcome : FinishRunOutcome(srun, status, d, outcome)
      BY <2>1 DEF SourceFinish
    <3>3. \A q \in RunIds : q # srun => runs'[q] = runs[q]
      BY <1>0, <3>2 DEF FinishRunOutcome, FinishRun, RunsType
    <3> QED
      BY <1>1, <3>1, <3>3 DEF Scheduled
  <2>2. CASE TickBegin \/ TickLoad \/ TickFails \/ TickEvaluate \/ TickEnd \/ TickExit
    BY <1>1, <2>2 DEF TickBegin, TickLoad, TickFails, TickEvaluate, TickEnd, TickExit, Scheduled,
                      boundaryVars
  <2>3. CASE SourceFails \/ SourcePlan \/ SourcePrecheck \/ SourceWrite \/ SourceWriteFails
             \/ SourceDone \/ SchedulerCrash
    BY <1>1, <2>3 DEF SourceFails, SourcePlan, SourcePrecheck, SourceWrite, SourceWriteFails,
                      SourceDone, SchedulerCrash, Scheduled, boundaryVars
  <2> QED
    BY <1>2, <2>1, <2>2, <2>3 DEF SchedulerMoves, SchedulerNext, TickStep
<1>4. PICK s \in Pending, outcome \in Outcomes, q \in RunIds :
          runs[q] = NoRow /\ StartRunOutcome(q, s, "scheduled", outcome)
  BY <1>3 DEF SourceStart, Begin
<1>5. s \in Sources
  BY <1>0, <1>4 DEF Pending, SchedulerType
<1>6. /\ \A x \in RunIds : x # q => runs'[x] = runs[x]
      /\ outcome = "failed" => UNCHANGED runs
      /\ outcome # "failed" => runs'[q].source = s /\ runs'[q].started = now
  BY <1>0, <1>4, <1>5, StartRunRows DEF RunTrigger
<1>7. r = q /\ outcome # "failed"
  BY <1>1, <1>4, <1>6 DEF Scheduled
<1> QED
  BY <1>0, <1>3, <1>4, <1>6, <1>7
     DEF SourceStart, Waiting, SchedulerRunPoints, ExecutePoints, TickIsPast

(* A scheduled run never starts beside one of its source that may still be *)
(* executing (NoOverlap), whatever the manual writer, the clock and        *)
(* crashed ticks do between the judgement and the start.                   *)
THEOREM SourcesDoNotOverlap == Spec => NoOverlap
<1> DEFINE A == \A r \in RunIds : Starts(r) =>
                    \A q \in ScheduledRows(runs'[r].source) :
                        runs[q].status = "RUNNING" =>
                            runs'[r].started > runs[q].started + StaleSeconds
<1>1. TickInv /\ [Next]_systemVars => [A]_schedulerSystemVars
  <2>1. CASE UNCHANGED systemVars
    BY <2>1 DEF systemVars, schedulerSystemVars
  <2>2. ASSUME TickInv, Next, NEW r \in RunIds, Starts(r),
               NEW q \in ScheduledRows(runs'[r].source), runs[q].status = "RUNNING"
        PROVE  runs'[r].started > runs[q].started + StaleSeconds
    <3>1. runs'[r].source \in Waiting /\ runs'[r].started = now /\ now \in Nat /\ tick <= now
      BY <2>2, StartsWaiting
    <3>2. runs[q].started + StaleSeconds < tick
      BY <2>2, <3>1 DEF TickInv, CadenceInv, WaitingMayStart, MayStart
    <3>3. runs[q].started \in Nat /\ StaleSeconds \in Nat /\ tick \in Nat
      BY <2>2, SchedulingAssumption DEF ScheduledRows, TickInv, ControlInv, SchedulerInv, BoundaryType,
           RunsType, Row, SchedulerType
    <3> QED
      BY <3>1, <3>2, <3>3
  <2> QED
    BY <2>1, <2>2
<1> QED
  BY <1>1, TickInvariance, PTL DEF Spec, NoOverlap

(* A scheduled run starts only for an enabled source and its interval      *)
(* after every earlier scheduled run of it (StartsOnCadence).              *)
THEOREM CadenceRespected == Spec => StartsOnCadence
<1> DEFINE A == \A r \in RunIds : Starts(r) =>
                    LET config == snapshot[runs'[r].source] IN
                    /\ config # None /\ config.enabled /\ config.sync_enabled
                    /\ \A q \in ScheduledRows(runs'[r].source) :
                           runs'[r].started >= runs[q].started + config.interval
<1>1. TickInv /\ [Next]_systemVars => [A]_schedulerSystemVars
  <2>1. CASE UNCHANGED systemVars
    BY <2>1 DEF systemVars, schedulerSystemVars
  <2>2. ASSUME TickInv, Next, NEW r \in RunIds, Starts(r)
        PROVE  LET config == snapshot[runs'[r].source] IN
               /\ config # None /\ config.enabled /\ config.sync_enabled
               /\ \A q \in ScheduledRows(runs'[r].source) :
                      runs'[r].started >= runs[q].started + config.interval
    <3> DEFINE s == runs'[r].source
    <3>1. s \in Waiting /\ runs'[r].started = now /\ now \in Nat /\ tick <= now
      BY <2>2, StartsWaiting
    <3>2. MayStart(s)
      BY <2>2, <3>1 DEF TickInv, CadenceInv, WaitingMayStart
    <3>3. s \in Sources /\ SchedulerType /\ RunsType
      BY <2>2, <3>1 DEF Waiting, Pending, TickInv, ControlInv, SchedulerInv, SchedulerType, BoundaryType
    <3>4. snapshot[s] # None => snapshot[s] \in SourceConfig
      BY <3>3, SchedulerAssumption DEF SchedulerType
    <3> HIDE DEF s
    <3>5. ASSUME NEW q \in ScheduledRows(s)
          PROVE  runs'[r].started >= runs[q].started + snapshot[s].interval
      <4>1. runs[q].started \in Nat /\ tick \in Nat /\ snapshot[s].interval \in Nat
        BY <3>2, <3>3, <3>4 DEF ScheduledRows, RunsType, Row, SchedulerType, MayStart, SourceConfig
      <4>2. runs[q].started + snapshot[s].interval <= tick
        BY <3>2 DEF MayStart
      <4> QED
        BY <3>1, <4>1, <4>2
    <3>6. snapshot[s] # None /\ snapshot[s].enabled /\ snapshot[s].sync_enabled
      BY <3>2 DEF MayStart
    <3> QED
      BY <3>5, <3>6 DEF s
  <2> QED
    BY <2>1, <2>2
<1> QED
  BY <1>1, TickInvariance, PTL DEF Spec, StartsOnCadence

(* A tick that ends by itself attempted every eligible source              *)
(* (FailuresAreIsolated).                                                  *)
THEOREM EverySourceAttempted == Spec => []FailuresAreIsolated
<1>1. TickInv => FailuresAreIsolated
  BY DEF TickInv, ControlInv, SchedulerInv, SchedulerType, CadenceInv, NothingWaits, Pending,
         Attempted, FailuresAreIsolated
<1> QED
  BY <1>1, TickInvariance, PTL

(* Exit status 0 of a tick tells the truth about every source, and goes on *)
(* doing so beside the manual writer and with writes that land late        *)
(* (ExitStatusIsHonest).                                                   *)
THEOREM ExitStatusHonest == Spec => []ExitStatusIsHonest
<1>1. TickInv => ExitStatusIsHonest
  <2> SUFFICES ASSUME TickInv, spc = "exit", ~TickFailed
               PROVE  /\ \A s \in Sources : snapshot[s] # None
                      /\ \A s \in due : \E r \in TickRows(s) : Written(r)
    BY DEF ExitStatusIsHonest, Written
  <2>1. ASSUME NEW s \in due PROVE \E r \in TickRows(s) : Written(r)
    <3>1. s \in Sources /\ results[s] # None
      BY DEF TickInv, ControlInv, SchedulerInv, SchedulerType, CadenceInv, NothingWaits, Pending
    <3>2. results[s].success /\ results[s].history = "RECORDED"
      BY <3>1 DEF TickFailed
    <3> QED
      BY <3>1, <3>2 DEF TickInv, CadenceInv, Recorded
  <2> QED
    BY <2>1 DEF TickFailed
<1> QED
  BY <1>1, TickInvariance, PTL
=============================================================================
