---------------------------- MODULE AuditProofs -----------------------------
(***************************************************************************)
(* What a run leaves behind: each confirmation is used once and only the   *)
(* plan that was reviewed is written, and the system implements AuditedRun, *)
(* so what the run history says of NetBox stays true.                      *)
(***************************************************************************)
EXTENDS SyncSystemProofs

(***************************************************************************)
(* Confirmations.                                                          *)
(***************************************************************************)

(***************************************************************************)
(* A token in the table is as it was granted, a token that a run consumed  *)
(* is out of the table and was granted, and the run about to consume one   *)
(* has none yet.  SingleUse alone is not inductive: that the next token to *)
(* be consumed is not the token of an earlier run follows from Consumed.   *)
(***************************************************************************)
Stored == \A t \in Tokens : entries[t] # None => granted[t] = entries[t]

Consumed == \A r \in RunIds : authorised[r] # None =>
                entries[authorised[r]] = None /\ granted[authorised[r]] # None

NotYetConsumed == wpc = "consume" => authorised[run] = None

TokenInv == Stored /\ Consumed /\ NotYetConsumed /\ SingleUse

(* A step that issues and consumes nothing keeps TokenInv.                 *)
LEMMA TokenQuiet ==
    ASSUME TokenInv, UNCHANGED <<entries, granted, authorised>>,
           wpc' = "consume" => authorised[run'] = None
    PROVE  TokenInv'
BY DEF TokenInv, Stored, Consumed, NotYetConsumed, SingleUse

(* Every step of the system keeps TokenInv.                                *)
LEMMA TokenStep ==
    ASSUME ControlInv, RowInv, TokenInv, [Next]_systemVars
    PROVE  TokenInv'
<1>0. WorkerType /\ ConfirmationType /\ ReqOK /\ LocalsOK
  BY DEF ControlInv, WorkerInv, WorkerType, WorkerControl
<1> USE DEF boundaryVars, workerVars, Goto, Respond, Leave
<1>1. CASE ApplyConsume
  <2> DEFINE t == calls[req].arg
  <2>1. wpc = "consume" /\ run \in RunIds /\ t \in Tokens /\ authorised[run] = None
    BY <1>0, <1>1, RequestFields
       DEF ApplyConsume, ReqOK, LocalsOK, Serving, ApplyPoints, RunPoints, TokenInv, NotYetConsumed
  <2>2. entries' = [entries EXCEPT ![t] = None] /\ UNCHANGED granted /\ wpc' # "consume"
    BY <1>1 DEF ApplyConsume, Consume
  <2>3. \/ UNCHANGED authorised
        \/ authorised' = [authorised EXCEPT ![run] = t] /\ entries[t] # None
    BY <1>1 DEF ApplyConsume, ConsumeCode
  <2> HIDE DEF t
  <2>4. Stored'
    BY <1>0, <2>1, <2>2 DEF TokenInv, Stored, ConfirmationType
  <2>5. Consumed'
    BY <1>0, <2>1, <2>2, <2>3 DEF TokenInv, Stored, Consumed, ConfirmationType, WorkerType
  <2>6. SingleUse'
    BY <1>0, <2>1, <2>3 DEF TokenInv, Consumed, SingleUse, WorkerType
  <2> QED
    BY <2>2, <2>4, <2>5, <2>6 DEF TokenInv, NotYetConsumed
<1>2. CASE PreparePlan
  <2>1. UNCHANGED authorised /\ wpc' # "consume"
    BY <1>2 DEF PreparePlan
  <2>2. \/ UNCHANGED <<entries, granted>>
        \/ entries' = Pruned /\ UNCHANGED granted
        \/ \E t \in Tokens : Issue(t, claims)
    BY <1>2 DEF PreparePlan, IssueRefused
  <2>3. ASSUME NEW t \in Tokens, Issue(t, claims)
        PROVE  TokenInv'
    <3>1. PICK entry : /\ entries' = [Pruned EXCEPT ![t] = entry]
                       /\ granted' = [granted EXCEPT ![t] = entry]
                       /\ granted[t] = None /\ entry # None
      <4>1. wpc = "prepPlan" /\ claims \in Claims /\ now \in Nat
        BY <1>0, <1>2 DEF PreparePlan, LocalsOK, ClaimPoints, ControlInv, WorkerInv, BoundaryType
      <4>2. [source |-> claims.source, id |-> claims.id, digest |-> claims.digest,
             expires |-> now + Ttl] \in Entry
        BY <4>1, ConfirmationAssumption DEF Claims, Entry
      <4> QED
        BY <2>3, <4>2, ConfirmationAssumption DEF Issue
    <3>2. \A r \in RunIds : authorised[r] # t
      BY <3>1, ConfirmationAssumption DEF TokenInv, Consumed
    <3> QED
      BY <1>0, <2>1, <3>1, <3>2
         DEF Pruned, ConfirmationType, WorkerType, TokenInv, Stored, Consumed, NotYetConsumed, SingleUse
  <2>4. CASE entries' = Pruned /\ UNCHANGED granted
    BY <1>0, <2>1, <2>4 DEF Pruned, WorkerType, TokenInv, Stored, Consumed, NotYetConsumed, SingleUse
  <2>5. CASE UNCHANGED <<entries, granted>>
    BY <2>1, <2>5, TokenQuiet
  <2> QED
    BY <2>2, <2>3, <2>4, <2>5
<1>3. CASE ApplyStart
  BY <1>3, TokenQuiet DEF ApplyStart, RowInv, NoRowNoEffect
<1>4. CASE ReplyFails \/ Crash
  <2>1. Forget /\ UNCHANGED authorised /\ wpc' = "down"
    BY <1>4 DEF ReplyFails, Crash, Die
  <2> QED
    BY <1>0, <2>1 DEF Forget, TokenInv, Stored, Consumed, NotYetConsumed, SingleUse, WorkerType
<1>5. CASE Accept \/ PrepareSource \/ PrepareFails \/ ApplySource \/ Reply \/ Restart
  BY <1>5, TokenQuiet DEF Accept, PrepareSource, PrepareFails, ApplySource, Reply, Restart
<1>6. CASE ApplyOpen \/ ApplyLock \/ ApplyReload \/ ApplyUnlock \/ ApplyFinish \/ ApplyRefinish
  BY <1>6, TokenQuiet DEF ApplyOpen, ApplyLock, FlockNonBlocking, ApplyReload, ApplyUnlock,
                          ApplyFinish, ApplyRefinish
<1>7. CASE ChildStep
  BY <1>7, TokenQuiet DEF ChildStep, ChildDiscoverFails, ChildReplan, ChildPrecheckFails,
                          ChildPrecheck, ChildWrite, ChildWriteFails, ChildDone, ChildLost
<1>8. CASE ClientStep \/ SchedulerMoves \/ EnvironmentMoves \/ UNCHANGED systemVars
  <2>1. UNCHANGED <<entries, granted, authorised, wpc, run>>
    BY <1>8 DEF ClientStep, Submit, ClientGone, SchedulerMoves, EnvironmentMoves, systemVars
  <2> QED
    BY <2>1, TokenQuiet DEF TokenInv, NotYetConsumed
<1> QED
  BY <1>1, <1>2, <1>3, <1>4, <1>5, <1>6, <1>7, <1>8
     DEF Next, WorkerMoves, WorkerNext, ServeStep, PrepareStep, ApplyStep

(* No token exists initially.                                              *)
LEMMA TokenInit == Init => TokenInv
BY DEF Init, WorkerInit, ConfirmationInit, TokenInv, Stored, Consumed, NotYetConsumed, SingleUse

(* A confirmation authorises at most one run (SingleUse), for any number   *)
(* of tokens, runs, requests and restarts.                                 *)
THEOREM OneRunPerConfirmation == Spec => []SingleUse
<1> DEFINE I == ControlInv /\ RowInv /\ TokenInv
<1>1. Init => I
  BY ControlInit, RowInit, TokenInit
<1>2. I /\ [Next]_systemVars => I'
  BY ControlStep, RowStep, TokenStep
<1>3. I => SingleUse
  BY DEF TokenInv
<1> QED
  BY <1>1, <1>2, <1>3, PTL DEF Spec

-----------------------------------------------------------------------------
(***************************************************************************)
(* What binds a manual run to its review.  The chain is: the row names the *)
(* source of the request; consume binds the run to a token of that source; *)
(* replan records the digest of that token; only then are there writes.    *)
(***************************************************************************)
Reviewed(r) ==
    /\ authorised[r] # None =>
          /\ granted[authorised[r]].source = runs[r].source
          /\ granted[authorised[r]].expires > runs[r].started
    /\ applied[r] # None =>
          /\ authorised[r] # None /\ granted[authorised[r]].digest = applied[r]
          /\ applied[r] \notin Blocked
          /\ runs[r].digest \in {None, applied[r]}
    /\ r \in touched \cup inflight => applied[r] # None

ManualReviewed == \A r \in RunIds : Manual(r) => Reviewed(r)

NoClaims == wpc \in {"idle", "down", "prepSource", "source", "start", "consume"} => claims = None

ClaimsBound ==
    wpc \in RunPoints =>
        /\ claims # None => /\ authorised[run] # None
                            /\ granted[authorised[run]].digest = claims.digest
        /\ applied[run] # None => claims # None
        /\ wpc \in {"precheck", "write"} => applied[run] # None

ReviewInv == ManualReviewed /\ NoClaims /\ ClaimsBound

(* What a run consumed stays as it was granted.                            *)
GrantsKept == \A r \in RunIds : authorised[r] # None =>
                  granted'[authorised[r]] = granted[authorised[r]]

(* A step that leaves rows, authorisations, digests and NetBox alone keeps *)
(* ReviewInv if the handler goes on with its run or drops it.              *)
LEMMA ReviewQuiet ==
    ASSUME ReviewInv, GrantsKept, LocalsOK,
           UNCHANGED <<runs, authorised, applied, touched, inflight>>,
           wpc' \in RunPoints => wpc \in RunPoints /\ run' = run /\ claims' = claims,
           wpc' \in {"precheck", "write"} => wpc \in {"precheck", "write"},
           NoClaims'
    PROVE  ReviewInv'
<1>1. ManualReviewed'
  BY DEF ReviewInv, ManualReviewed, Manual, Reviewed, GrantsKept
<1>2. ClaimsBound'
  BY DEF ReviewInv, ClaimsBound, GrantsKept, LocalsOK
<1> QED
  BY <1>1, <1>2 DEF ReviewInv

(* Every step of the worker, its child and its clients keeps ReviewInv.    *)
LEMMA WorkerReviewStep ==
    ASSUME ControlInv, RowInv, TokenInv, ReviewInv, WorkerMoves
    PROVE  ReviewInv'
<1>0. /\ BoundaryType /\ RunsType /\ now \in Nat
      /\ WorkerType /\ ConfirmationType /\ ReqOK /\ LocalsOK
      /\ UNCHANGED schedulerVars
  BY DEF ControlInv, WorkerInv, WorkerType, WorkerControl, BoundaryType, WorkerMoves
<1> USE DEF boundaryVars, workerVars, Goto, Respond, Leave, RunPoints, LockedPoints, ChildPoints
<1>1. CASE ApplyConsume
  <2> DEFINE t == calls[req].arg
  <2>1. wpc = "consume" /\ run \in RunIds /\ t \in Tokens /\ authorised[run] = None
    BY <1>0, <1>1, RequestFields
       DEF ApplyConsume, ReqOK, LocalsOK, Serving, ApplyPoints, TokenInv, NotYetConsumed
  <2>2. /\ Manual(run) /\ runs[run].source = calls[req].source /\ runs[run].started <= now
        /\ runs[run] \in Row
    BY <1>0, <2>1, RowIsRow DEF RowInv, WorkerRow, RowsOK, Manual
  <2>3. claims = None /\ applied[run] = None /\ run \notin touched \cup inflight
    BY <2>1, <2>2 DEF ReviewInv, NoClaims, ManualReviewed, Reviewed
  <2>4. UNCHANGED <<runs, applied, touched, inflight, granted, run>>
    BY <1>1 DEF ApplyConsume, Consume
  <2>5. CASE ConsumeCode(t, calls[req].source) = "OK"
    <3>1. /\ claims' = ClaimsOf(t) /\ authorised' = [authorised EXCEPT ![run] = t] /\ wpc' = "open"
      BY <1>1, <2>5 DEF ApplyConsume
    <3>2. /\ entries[t] # None /\ entries[t].expires > now /\ entries[t].source = runs[run].source
          /\ granted[t] = entries[t]
      BY <1>0, <2>1, <2>2, <2>5 DEF ConsumeCode, TokenInv, Stored, ConfirmationType, Entry
    <3>3. entries[t] \in Entry /\ runs[run].started \in Nat
      BY <1>0, <2>1, <2>2, <3>2 DEF ConfirmationType, Row
    <3>4. Reviewed(run)'
      BY <1>0, <2>1, <2>2, <2>3, <2>4, <3>1, <3>2, <3>3 DEF Reviewed, WorkerType, Entry
    <3>5. \A r \in RunIds : r # run /\ Manual(r)' => Reviewed(r)'
      BY <1>0, <2>1, <2>4, <3>1 DEF ReviewInv, ManualReviewed, Manual, Reviewed, WorkerType
    <3>6. ClaimsBound' /\ NoClaims'
      <4>1. authorised'[run'] = t /\ t # None /\ applied'[run'] = None
        BY <1>0, <2>1, <2>3, <2>4, <3>1, ConfirmationAssumption DEF WorkerType
      <4> QED
        BY <2>4, <3>1, <3>2, <4>1 DEF ClaimsBound, NoClaims, ClaimsOf
    <3> QED
      BY <2>4, <3>4, <3>5, <3>6 DEF ReviewInv, ManualReviewed
  <2>6. CASE ConsumeCode(t, calls[req].source) # "OK"
    <3>1. wpc' = "finish" /\ UNCHANGED <<claims, authorised>>
      BY <1>1, <2>6 DEF ApplyConsume
    <3>2. GrantsKept /\ NoClaims'
      BY <2>4, <3>1 DEF GrantsKept, NoClaims
    <3> QED
      BY <1>0, <2>1, <2>4, <3>1, <3>2, ReviewQuiet
  <2> QED
    BY <2>5, <2>6
<1>2. CASE PreparePlan
  <2>1. UNCHANGED <<runs, authorised, applied, touched, inflight>> /\ wpc' = "reply"
    BY <1>2 DEF PreparePlan
  <2>2. GrantsKept
    BY <1>0, <1>2 DEF PreparePlan, IssueRefused, Issue, GrantsKept, TokenInv, Consumed,
                      WorkerType, ConfirmationType
  <2> QED
    BY <1>0, <2>1, <2>2, ReviewQuiet DEF NoClaims
<1>3. CASE ApplyStart
  <2>1. wpc = "start" /\ calls[req].source \in Sources /\ claims = None
    BY <1>0, <1>3, RequestFields DEF ApplyStart, ReqOK, Serving, ReviewInv, NoClaims
  <2>2. PICK r \in RunIds, outcome \in Outcomes :
            /\ runs[r] = NoRow
            /\ StartRunOutcome(r, calls[req].source, "manual", outcome)
            /\ outcome = "ok" => run' = r /\ wpc' = "consume"
            /\ outcome # "ok" => wpc' = "reply"
    BY <1>3 DEF ApplyStart
  <2>3. \A q \in RunIds : q # r => runs'[q] = runs[q]
    BY <1>0, <2>1, <2>2, StartRunRows DEF RunTrigger
  <2>4. UNCHANGED <<applied, authorised, touched, inflight, granted, claims>>
    BY <1>3 DEF ApplyStart
  <2>5. authorised[r] = None /\ applied[r] = None /\ r \notin touched \cup inflight
    BY <2>2 DEF RowInv, NoRowNoEffect
  <2>6. ManualReviewed'
    BY <2>3, <2>4, <2>5 DEF ReviewInv, ManualReviewed, Manual, Reviewed
  <2> QED
    BY <2>1, <2>2, <2>4, <2>5, <2>6 DEF ReviewInv, NoClaims, ClaimsBound
<1>4. CASE ReplyFails \/ Crash
  <2>1. Die
    BY <1>4 DEF ReplyFails, Crash
  <2>2. /\ UNCHANGED <<runs, authorised, applied, granted, touched>>
        /\ wpc' = "down" /\ claims' = None
    BY <2>1 DEF Die, Abandon, Drops, Forget, ClearLocals
  <2>3. \A r \in RunIds : r \in inflight' => r \in inflight \/ (r = run /\ wpc = "write")
    BY <2>1 DEF Die, Abandon, Drops
  <2>4. wpc = "write" => applied[run] # None
    BY DEF ReviewInv, ClaimsBound
  <2>5. ManualReviewed'
    BY <2>2, <2>3, <2>4 DEF ReviewInv, ManualReviewed, Manual, Reviewed
  <2> QED
    BY <2>2, <2>5 DEF ReviewInv, NoClaims, ClaimsBound
<1>5. CASE Accept \/ PrepareSource \/ PrepareFails \/ ApplySource \/ Reply \/ Restart
  <2>1. /\ UNCHANGED <<runs, authorised, applied, touched, inflight, granted>>
        /\ wpc' \notin RunPoints
    BY <1>5 DEF Accept, PrepareSource, PrepareFails, ApplySource, Reply, Restart
  <2>2. NoClaims'
    BY <1>5 DEF Accept, PrepareSource, PrepareFails, ApplySource, Reply, Restart, ClearLocals,
                ReviewInv, NoClaims
  <2> QED
    BY <1>0, <2>1, <2>2, ReviewQuiet DEF GrantsKept
<1>6. CASE ApplyOpen \/ ApplyLock \/ ApplyReload \/ ApplyUnlock \/ ChildDiscoverFails
           \/ ChildPrecheckFails \/ ChildDone
  <2>1. /\ UNCHANGED <<runs, authorised, applied, touched, inflight, granted, claims, run>>
        /\ wpc \in RunPoints /\ wpc' \in RunPoints \ {"consume", "precheck", "write"}
    BY <1>6 DEF ApplyOpen, ApplyLock, FlockNonBlocking, ApplyReload, ApplyUnlock,
                ChildDiscoverFails, ChildPrecheckFails, ChildDone
  <2> QED
    BY <1>0, <2>1, ReviewQuiet DEF GrantsKept, NoClaims
<1>7. CASE ApplyFinish \/ ApplyRefinish
  <2>1. wpc \in {"finish", "refinish"} /\ run \in RunIds /\ Manual(run)
    BY <1>0, <1>7 DEF ApplyFinish, ApplyRefinish, LocalsOK, RowInv, WorkerRow, Manual
  <2>2. ClaimedDigest \in Digests \cup {None}
    BY <1>0 DEF ClaimedDigest, WorkerType, Claims
  <2>3. PICK status \in RunStatus \ {"RUNNING"}, outcome \in Outcomes :
            FinishRunOutcome(run, status, ClaimedDigest, outcome)
    <3>1. TerminalStatus(SafeErrorCode(code)) \in RunStatus \ {"RUNNING"}
      BY TerminalStatusType
    <3>2. {"SUCCEEDED", "OUTCOME_UNCERTAIN"} \subseteq RunStatus \ {"RUNNING"}
      BY DEF RunStatus
    <3> QED
      BY <1>7, <3>1, <3>2 DEF ApplyFinish, ApplyRefinish
  <2>4. /\ \A q \in RunIds : q # run => runs'[q] = runs[q]
        /\ runs'[run].source = runs[run].source /\ runs'[run].trigger = runs[run].trigger
        /\ runs'[run].started = runs[run].started
        /\ \/ UNCHANGED runs
           \/ runs'[run].digest = IF ClaimedDigest = None THEN runs[run].digest ELSE ClaimedDigest
    BY <1>0, <2>1, <2>2, <2>3, FinishRunRows DEF Manual
  <2>5. UNCHANGED <<applied, authorised, touched, inflight, granted, claims, run>>
        /\ wpc' \in {"reply", "refinish"}
    BY <1>7 DEF ApplyFinish, ApplyRefinish
  <2>6. applied[run] # None => ClaimedDigest = applied[run]
    BY <2>1 DEF ClaimedDigest, ReviewInv, ManualReviewed, Reviewed, ClaimsBound
  <2>7. Reviewed(run)'
    BY <2>1, <2>4, <2>5, <2>6 DEF ReviewInv, ManualReviewed, Reviewed
  <2>8. \A r \in RunIds : r # run /\ Manual(r)' => Reviewed(r)'
    BY <2>4, <2>5 DEF ReviewInv, ManualReviewed, Manual, Reviewed
  <2>9. NoClaims' /\ ClaimsBound'
    BY <2>1, <2>5 DEF ReviewInv, NoClaims, ClaimsBound
  <2> QED
    BY <2>5, <2>7, <2>8, <2>9 DEF ReviewInv, ManualReviewed
<1>8. CASE ChildReplan
  <2>1. wpc = "replan" /\ run \in RunIds /\ claims \in Claims /\ claims # None
    BY <1>0, <1>8, ConfirmationAssumption DEF ChildReplan, LocalsOK, ClaimPoints
  <2>2. runs[run].digest = None /\ authorised[run] # None
        /\ granted[authorised[run]].digest = claims.digest
    BY <2>1 DEF RowInv, WorkerRow, RowsOK, ReviewInv, ClaimsBound
  <2>3. UNCHANGED <<runs, touched, inflight, granted, authorised, claims, run>>
    BY <1>8 DEF ChildReplan
  <2>4. PICK d \in Digests :
            \/ wpc' = "unlock" /\ UNCHANGED applied
            \/ /\ d \notin Blocked /\ d = claims.digest /\ wpc' = "precheck"
               /\ applied' = [applied EXCEPT ![run] = d]
    BY <1>8 DEF ChildReplan, StillReviewed
  <2>5. CASE UNCHANGED applied /\ wpc' = "unlock"
    BY <1>0, <2>1, <2>3, <2>5, ReviewQuiet DEF GrantsKept, NoClaims
  <2>6. CASE /\ d \notin Blocked /\ d = claims.digest /\ wpc' = "precheck"
             /\ applied' = [applied EXCEPT ![run] = d]
    <3>1. applied'[run] = d /\ d # None /\ \A r \in RunIds : r # run => applied'[r] = applied[r]
      BY <1>0, <2>1, <2>6, NoneAssumption DEF BoundaryType
    <3>2. Manual(run)
      BY <2>1 DEF RowInv, WorkerRow, Manual
    <3>3. ManualReviewed'
      BY <2>1, <2>2, <2>3, <2>6, <3>1, <3>2 DEF ReviewInv, ManualReviewed, Manual, Reviewed
    <3> QED
      BY <2>1, <2>2, <2>3, <2>6, <3>1, <3>3 DEF ReviewInv, NoClaims, ClaimsBound
  <2> QED
    BY <2>4, <2>5, <2>6
<1>9. CASE ChildPrecheck \/ ChildWrite \/ ChildWriteFails \/ ChildLost
  <2>1. wpc \in ChildPoints /\ run \in RunIds
    BY <1>0, <1>9 DEF ChildPrecheck, ChildWrite, ChildWriteFails, ChildLost, LocalsOK
  <2>2. \A r \in RunIds : r \in touched' \cup inflight' =>
            r \in touched \cup inflight \/ (r = run /\ wpc = "write")
    BY <1>9, <2>1 DEF ChildPrecheck, ChildWrite, ChildWriteFails, ChildLost, WriteLands, WriteErrs,
                      Abandon, Landed, Drops
  <2>3. UNCHANGED <<runs, applied, authorised, granted, claims, run>>
        /\ wpc' \in {"write", "unlock"} /\ (wpc' = "write" => wpc \in {"precheck", "write"})
    BY <1>9 DEF ChildPrecheck, ChildWrite, ChildWriteFails, ChildLost
  <2>4. wpc = "write" => applied[run] # None
    BY DEF ReviewInv, ClaimsBound
  <2>5. ManualReviewed'
    BY <2>2, <2>3, <2>4 DEF ReviewInv, ManualReviewed, Manual, Reviewed
  <2> QED
    BY <2>1, <2>3, <2>5 DEF ReviewInv, NoClaims, ClaimsBound
<1>10. CASE ClientStep
  <2>1. UNCHANGED <<runs, authorised, applied, touched, inflight, granted, wpc, run, claims>>
    BY <1>10 DEF ClientStep, Submit, ClientGone
  <2> QED
    BY <1>0, <2>1, ReviewQuiet DEF GrantsKept, NoClaims, ReviewInv
<1> QED
  BY <1>1, <1>2, <1>3, <1>4, <1>5, <1>6, <1>7, <1>8, <1>9, <1>10
     DEF WorkerMoves, WorkerNext, ServeStep, PrepareStep, ApplyStep, ChildStep

(* Every step of the system keeps ReviewInv.                               *)
LEMMA ReviewStep ==
    ASSUME ControlInv, RowInv, TokenInv, ReviewInv, [Next]_systemVars
    PROVE  ReviewInv'
<1>0. LocalsOK /\ BoundaryType
  BY DEF ControlInv, WorkerInv, WorkerControl
<1>1. CASE WorkerMoves
  BY <1>1, WorkerReviewStep
<1>2. CASE SchedulerMoves
  <2>1. UNCHANGED <<entries, granted, authorised, wpc, run, claims>>
    BY <1>2 DEF SchedulerMoves, workerVars
  <2>2. ManualReviewed'
    <3> SUFFICES ASSUME NEW r \in RunIds, Manual(r)' PROVE Reviewed(r)'
      BY DEF ManualReviewed
    <3>1. /\ runs'[r] = runs[r] /\ applied'[r] = applied[r]
          /\ r \in touched' <=> r \in touched
          /\ r \in inflight' <=> r \in inflight
      BY <1>2, SchedulerKeepsManual
    <3> QED
      BY <2>1, <3>1 DEF ReviewInv, ManualReviewed, Manual, Reviewed
  <2>3. wpc \in RunPoints => run \in RunIds /\ Manual(run)
    BY <1>0 DEF LocalsOK, RowInv, WorkerRow, Manual
  <2>4. wpc \in RunPoints => applied'[run] = applied[run]
    BY <1>2, <2>3, SchedulerKeepsManual
  <2> QED
    BY <2>1, <2>2, <2>4 DEF ReviewInv, NoClaims, ClaimsBound
<1>3. CASE EnvironmentMoves
  <2>1. UNCHANGED <<runs, applied, granted, authorised, wpc, run, claims>>
    BY <1>3 DEF EnvironmentMoves, EnvironmentStep, Advance, LateWrite, MaintenanceBegin,
                MaintenanceEnd, workerVars
  <2>2. touched' \cup inflight' \subseteq touched \cup inflight
    BY <1>3 DEF EnvironmentMoves, EnvironmentStep, Advance, LateWrite, Landed, MaintenanceBegin,
                MaintenanceEnd
  <2> QED
    BY <2>1, <2>2 DEF ReviewInv, ManualReviewed, Manual, Reviewed, NoClaims, ClaimsBound
<1>4. CASE UNCHANGED systemVars
  BY <1>4 DEF systemVars, boundaryVars, workerVars, ReviewInv, ManualReviewed, Manual, Reviewed,
              NoClaims, ClaimsBound
<1> QED
  BY <1>1, <1>2, <1>3, <1>4 DEF Next

(* Nothing is reviewed initially, and nothing needs to be.                 *)
LEMMA ReviewInit == Init => ReviewInv
BY DEF Init, BoundaryInit, WorkerInit, ReviewInv, ManualReviewed, Manual, NoClaims, ClaimsBound,
       RunPoints, LockedPoints, ChildPoints

(* A manual run that changed NetBox, or still may, applied exactly the     *)
(* plan that was reviewed (WritesAreReviewed), whatever other clients, the *)
(* scheduler, crashes and late requests do meanwhile.                      *)
THEOREM OnlyReviewedPlansWritten == Spec => []WritesAreReviewed
<1> DEFINE I == ControlInv /\ RowInv /\ TokenInv /\ ReviewInv
<1>1. Init => I
  BY ControlInit, RowInit, TokenInit, ReviewInit
<1>2. I /\ [Next]_systemVars => I'
  BY ControlStep, RowStep, TokenStep, ReviewStep
<1>3. I => WritesAreReviewed
  <2> SUFFICES ASSUME I, NEW r \in touched \cup inflight, runs[r].trigger = "manual"
               PROVE  \E t \in Tokens :
                          /\ authorised[r] = t
                          /\ granted[t] # None
                          /\ granted[t].source = runs[r].source
                          /\ granted[t].digest = applied[r]
                          /\ granted[t].expires > runs[r].started
                          /\ applied[r] \notin Blocked
                          /\ runs[r].digest \in {None, applied[r]}
    BY DEF WritesAreReviewed
  <2>1. r \in RunIds /\ authorised[r] \in Tokens \cup {None}
    BY DEF ControlInv, WorkerInv, BoundaryType, WorkerType
  <2>2. Manual(r)
    BY <2>1 DEF RowInv, NoRowNoEffect, Manual
  <2>3. Reviewed(r) /\ applied[r] # None /\ authorised[r] # None
    BY <2>1, <2>2 DEF ReviewInv, ManualReviewed, Reviewed
  <2>4. granted[authorised[r]] # None
    BY <2>1, <2>3 DEF TokenInv, Consumed
  <2> QED
    BY <2>1, <2>3, <2>4 DEF Reviewed
<1> QED
  BY <1>1, <1>2, <1>3, PTL DEF Spec

-----------------------------------------------------------------------------
(***************************************************************************)
(* The run history.                                                        *)
(***************************************************************************)

(***************************************************************************)
(* The part of the invariant that concerns closed rows: a mutation that    *)
(* lands late, when the row may be closed, must not make it lie.           *)
(***************************************************************************)
DoneIsDone == \A r \in RunIds : Verdict(runs[r]) = "done" => left[r] = 0

UnchangedIsClean ==
    \A r \in RunIds : Verdict(runs[r]) = "unchanged" => r \notin touched \cup inflight

Truthful == DoneIsDone /\ UnchangedIsClean

AuditVars == <<[r \in RunIds |-> Verdict(runs[r])], left, touched>>

(* One step of the boundary as AuditedRun sees it.                         *)
AuditStep == Truthful' /\ [Audit!Next]_AuditVars

(* The verdict on a row.                                                   *)
LEMMA VerdictOf ==
    /\ Verdict(NoRow) = "none"
    /\ \A row \in Row :
         /\ Verdict(row) \in {"open", "done", "unknown", "unchanged"}
         /\ Verdict(row) = "open" <=> row.status = "RUNNING"
         /\ Verdict(row) = "done" <=> row.status = "SUCCEEDED"
         /\ row.status \in {"OUTCOME_UNCERTAIN", "PARTIALLY_APPLIED"} => Verdict(row) = "unknown"
         /\ row.status = "FAILED" /\ row.trigger = "scheduled" => Verdict(row) = "unknown"
BY DEF Verdict, NoRow, Row, RunStatus, RunTrigger

(* Nothing the history speaks of changes.                                  *)
LEMMA AuditQuiet ==
    ASSUME Truthful, UNCHANGED <<runs, left, touched, inflight>>
    PROVE  AuditStep
BY DEF Truthful, DoneIsDone, UnchangedIsClean, AuditStep, AuditVars

(* start_run opens a run.                                                  *)
LEMMA AuditStart ==
    ASSUME Truthful, BoundaryType, NEW r \in RunIds, NEW s \in Sources, NEW trigger \in RunTrigger,
           NEW outcome, runs[r] = NoRow, StartRunOutcome(r, s, trigger, outcome),
           UNCHANGED <<left, touched, inflight>>
    PROVE  AuditStep
<1>1. CASE UNCHANGED runs
  BY <1>1, AuditQuiet
<1>2. CASE StartRun(r, s, trigger)
  <2>1. /\ \A q \in RunIds : q # r => runs'[q] = runs[q]
        /\ runs'[r] \in Row /\ runs'[r].status = "RUNNING"
    BY <1>2 DEF StartRun, BoundaryType, RunsType, Row, RunStatus
  <2>2. Verdict(runs[r]) = "none" /\ Verdict(runs'[r]) = "open"
    BY <2>1, VerdictOf
  <2>3. Truthful'
    BY <2>1, <2>2 DEF Truthful, DoneIsDone, UnchangedIsClean
  <2>4. Audit!Open(r)
    BY <2>1, <2>2 DEF Audit!Open
  <2> QED
    BY <2>3, <2>4 DEF AuditStep, Audit!Next
<1> QED
  BY <1>1, <1>2 DEF StartRunOutcome

(* finish_run closes a run, if what its status claims is the case.         *)
LEMMA AuditFinish ==
    ASSUME Truthful, BoundaryType, NEW r \in RunIds, NEW status \in RunStatus \ {"RUNNING"},
           NEW d \in Digests \cup {None}, NEW outcome, runs[r] # NoRow,
           FinishRunOutcome(r, status, d, outcome),
           UNCHANGED <<left, touched, inflight>>,
           status = "SUCCEEDED" => left[r] = 0,
           \/ status \in {"SUCCEEDED", "OUTCOME_UNCERTAIN", "PARTIALLY_APPLIED"}
           \/ status = "FAILED" /\ runs[r].trigger = "scheduled"
           \/ r \notin touched \cup inflight
    PROVE  AuditStep
<1>1. CASE UNCHANGED runs
  BY <1>1, AuditQuiet
<1>2. CASE FinishRun(r, status, d)
  <2>1. runs[r] \in Row /\ runs[r].status = "RUNNING"
    BY <1>2 DEF FinishRun, Finishable, BoundaryType, RunsType
  <2>2. /\ \A q \in RunIds : q # r => runs'[q] = runs[q]
        /\ runs'[r] \in Row /\ runs'[r].status = status /\ runs'[r].trigger = runs[r].trigger
    BY <1>2, <2>1 DEF FinishRun, BoundaryType, RunsType, Row
  <2>3. Verdict(runs[r]) = "open" /\ Verdict(runs'[r]) \in {"done", "unchanged", "unknown"}
    BY <2>1, <2>2, VerdictOf
  <2>4. /\ Verdict(runs'[r]) = "done" => left[r] = 0
        /\ Verdict(runs'[r]) = "unchanged" => r \notin touched \cup inflight
    BY <2>2, VerdictOf
  <2>5. Truthful'
    BY <2>2, <2>4 DEF Truthful, DoneIsDone, UnchangedIsClean
  <2>6. Audit!Close(r, Verdict(runs'[r]))
    BY <2>2, <2>3, <2>4 DEF Audit!Close
  <2> QED
    BY <2>3, <2>5, <2>6 DEF AuditStep, Audit!Next
<1> QED
  BY <1>1, <1>2 DEF FinishRunOutcome

(* The prechecks of a run fix the number of its mutations.                 *)
LEMMA AuditPlan ==
    ASSUME Truthful, BoundaryType, NEW r \in RunIds, NEW n \in Nat, runs[r].status = "RUNNING",
           r \notin touched, left' = [left EXCEPT ![r] = n], UNCHANGED <<runs, touched, inflight>>
    PROVE  AuditStep
<1>1. Verdict(runs[r]) = "open"
  BY VerdictOf, RowIsRow DEF BoundaryType
<1>2. left'[r] = n /\ \A q \in RunIds : q # r => left'[q] = left[q]
  BY DEF BoundaryType
<1>3. Truthful'
  BY <1>1, <1>2 DEF Truthful, DoneIsDone, UnchangedIsClean
<1>4. Audit!Plan(r)
  BY <1>1, <1>2 DEF Audit!Plan
<1> QED
  BY <1>3, <1>4 DEF AuditStep, Audit!Next

(* A mutation of a run whose verdict is "open" or "unknown", answered,     *)
(* failed, abandoned or late.                                              *)
LEMMA AuditChange ==
    ASSUME Truthful, BoundaryType, NEW r \in RunIds, Verdict(runs[r]) \in {"open", "unknown"},
           UNCHANGED runs, inflight' \subseteq inflight \cup {r},
           Landed(r) \/ UNCHANGED <<left, touched>>
    PROVE  AuditStep
<1>1. Truthful'
  BY DEF Truthful, DoneIsDone, UnchangedIsClean, Landed, BoundaryType
<1>2. CASE UNCHANGED <<left, touched>>
  BY <1>1, <1>2 DEF AuditStep, AuditVars
<1>3. CASE Landed(r)
  <2>1. Audit!Change(r)
    BY <1>3 DEF Landed, Audit!Change
  <2> QED
    BY <1>1, <2>1 DEF AuditStep, Audit!Next
<1> QED
  BY <1>2, <1>3

(* The clock, a late mutation and maintenance.                             *)
LEMMA AuditEnvironment ==
    ASSUME Truthful, BoundaryType, NoRowNoEffect, EnvironmentStep
    PROVE  AuditStep
<1>1. CASE Advance \/ MaintenanceBegin \/ MaintenanceEnd
  BY <1>1, AuditQuiet DEF Advance, MaintenanceBegin, MaintenanceEnd
<1>2. ASSUME NEW r \in RunIds, LateWrite(r)
      PROVE  AuditStep
  <2>1. runs[r] \in Row /\ r \in inflight
    BY <1>2, RowIsRow DEF LateWrite, NoRowNoEffect, BoundaryType
  <2>2. Verdict(runs[r]) \in {"open", "done", "unknown"}
    BY <2>1, VerdictOf DEF Truthful, UnchangedIsClean
  <2>3. CASE Verdict(runs[r]) = "done"
    <3>1. left[r] = 0
      BY <2>3 DEF Truthful, DoneIsDone
    <3> QED
      BY <1>2, <3>1 DEF LateWrite, Landed, Truthful, DoneIsDone, UnchangedIsClean, AuditStep, AuditVars
  <2>4. CASE Verdict(runs[r]) \in {"open", "unknown"}
    BY <1>2, <2>4, AuditChange DEF LateWrite
  <2> QED
    BY <2>2, <2>3, <2>4
<1> QED
  BY <1>1, <1>2 DEF EnvironmentStep

-----------------------------------------------------------------------------
(***************************************************************************)
(* The part that concerns runs under way: before its first mutation a run  *)
(* is clean, and the outcome a writer is about to record is right.  A      *)
(* handler that carries OUTCOME_UNCERTAIN claims nothing.                  *)
(***************************************************************************)
Clean(r) == r \notin touched \cup inflight

WorkerHonest ==
    /\ wpc \in {"consume", "open", "lock", "reload", "replan", "precheck"} => Clean(run)
    /\ wpc \in {"unlock", "finish"} =>
          /\ code = "SUCCEEDED" => left[run] = 0
          /\ code \notin {"SUCCEEDED", "OUTCOME_UNCERTAIN"} => Clean(run)

SchedulerHonest ==
    /\ spc \in {"plan", "precheck"} => Clean(srun)
    /\ spc = "finish" /\ scode = "SUCCEEDED" => left[srun] = 0

AuditInv == Truthful /\ WorkerHonest /\ SchedulerHonest

(* Every step of the worker, its child and its clients is a step of        *)
(* AuditedRun, and leaves the outcome it carries right.                    *)
LEMMA WorkerAuditStep ==
    ASSUME ControlInv, RowInv, AuditInv, WorkerMoves
    PROVE  AuditStep /\ WorkerHonest'
<1>0. /\ BoundaryType /\ RunsType /\ now \in Nat /\ WorkerType /\ ReqOK /\ LocalsOK
      /\ Truthful /\ WorkerHonest
  BY DEF ControlInv, WorkerInv, WorkerControl, BoundaryType, AuditInv
<1> USE DEF boundaryVars, workerVars, Goto, Respond, Leave, RunPoints, LockedPoints, ChildPoints
<1>1. CASE Accept \/ PrepareStep \/ ApplySource \/ Reply \/ Restart
  <2>1. UNCHANGED <<runs, left, touched, inflight>> /\ wpc' \notin RunPoints
    BY <1>1 DEF Accept, PrepareStep, PrepareSource, PrepareFails, PreparePlan, ApplySource, Reply, Restart
  <2> QED
    BY <1>0, <2>1, AuditQuiet DEF WorkerHonest
<1>2. CASE \/ ApplyConsume \/ ApplyOpen \/ ApplyLock \/ ApplyReload \/ ApplyUnlock
           \/ ChildDiscoverFails \/ ChildReplan \/ ChildPrecheckFails \/ ChildDone
  <2>1. UNCHANGED <<runs, left, touched, inflight, run>>
    BY <1>2 DEF ApplyConsume, ApplyOpen, ApplyLock, ApplyReload, ApplyUnlock, ChildDiscoverFails,
                ChildReplan, ChildPrecheckFails, ChildDone
  <2>2. CASE wpc \in {"consume", "open", "lock", "reload", "replan", "precheck"}
    <3>1. (Clean(run) /\ code' # "SUCCEEDED") \/ wpc' \notin {"unlock", "finish"}
      BY <1>0, <1>2, <2>2 DEF ApplyConsume, ConsumeCode, ApplyOpen, ApplyLock, FlockNonBlocking,
           ApplyReload, ApplyUnlock, ChildDiscoverFails, ChildReplan, ChildPrecheckFails, ChildDone,
           WorkerHonest
    <3> QED
      BY <1>0, <2>1, <2>2, <3>1, AuditQuiet DEF WorkerHonest, Clean
  <2>3. CASE ApplyUnlock
    <3>1. wpc = "unlock" /\ wpc' = "finish" /\ UNCHANGED code
      BY <2>3 DEF ApplyUnlock
    <3> QED
      BY <1>0, <2>1, <3>1, AuditQuiet DEF WorkerHonest, Clean
  <2>4. CASE ChildDone
    <3>1. left[run] = 0 /\ wpc' = "unlock" /\ code' \in {"SUCCEEDED", "OUTCOME_UNCERTAIN"}
      BY <2>4 DEF ChildDone
    <3> QED
      BY <1>0, <2>1, <3>1, AuditQuiet DEF WorkerHonest
  <2> QED
    BY <1>2, <2>2, <2>3, <2>4 DEF ApplyConsume, ApplyOpen, ApplyLock, ApplyReload,
         ChildDiscoverFails, ChildReplan, ChildPrecheckFails
<1>3. CASE ApplyStart
  <2>1. calls[req].source \in Sources
    BY <1>0, <1>3, RequestFields DEF ApplyStart, ReqOK, Serving
  <2>2. PICK r \in RunIds, outcome \in Outcomes :
            /\ runs[r] = NoRow
            /\ StartRunOutcome(r, calls[req].source, "manual", outcome)
            /\ (run' = r /\ wpc' = "consume") \/ wpc' = "reply"
    BY <1>3 DEF ApplyStart
  <2>3. UNCHANGED <<left, touched, inflight>>
    BY <1>3 DEF ApplyStart
  <2>4. AuditStep
    BY <1>0, <2>1, <2>2, <2>3, AuditStart DEF RunTrigger
  <2>5. Clean(r)
    BY <2>2 DEF RowInv, NoRowNoEffect, Clean
  <2> QED
    BY <2>2, <2>3, <2>4, <2>5 DEF WorkerHonest, Clean
<1>4. CASE ChildPrecheck
  <2>1. wpc = "precheck" /\ run \in RunIds /\ runs[run].status = "RUNNING" /\ Clean(run)
    BY <1>0, <1>4 DEF ChildPrecheck, LocalsOK, RowInv, WorkerRow, WorkerHonest
  <2>2. PICK n \in 0 .. MaxWrites : left' = [left EXCEPT ![run] = n]
    BY <1>4 DEF ChildPrecheck
  <2>3. n \in Nat
    BY <2>2, BoundaryAssumption
  <2>4. AuditStep
    BY <1>0, <1>4, <2>1, <2>2, <2>3, AuditPlan DEF ChildPrecheck, Clean
  <2> QED
    BY <1>4, <2>4 DEF ChildPrecheck, WorkerHonest
<1>5. CASE ChildWrite \/ ChildWriteFails \/ ChildLost
  <2>1. wpc \in ChildPoints /\ run \in RunIds /\ runs[run].status = "RUNNING"
    BY <1>0, <1>5 DEF ChildWrite, ChildWriteFails, ChildLost, LocalsOK, RowInv, WorkerRow
  <2>2. Verdict(runs[run]) = "open"
    BY <1>0, <2>1, VerdictOf, RowIsRow
  <2>3. /\ UNCHANGED runs /\ inflight' \subseteq inflight \cup {run}
        /\ Landed(run) \/ UNCHANGED <<left, touched>>
    BY <1>5 DEF ChildWrite, ChildWriteFails, ChildLost, WriteLands, WriteErrs, Abandon, Drops
  <2>4. AuditStep
    BY <1>0, <2>1, <2>2, <2>3, AuditChange
  <2>5. (wpc' = "unlock" /\ code' = "OUTCOME_UNCERTAIN") \/ wpc' = "write"
    BY <1>5 DEF ChildWrite, ChildWriteFails, ChildLost, LostChild
  <2> QED
    BY <2>4, <2>5 DEF WorkerHonest
<1>6. CASE ApplyFinish
  <2> DEFINE status == IF code = "SUCCEEDED" THEN code ELSE TerminalStatus(SafeErrorCode(code))
  <2>1. wpc = "finish" /\ run \in RunIds /\ runs[run] # NoRow
    BY <1>0, <1>6 DEF ApplyFinish, LocalsOK, RowInv, WorkerRow
  <2>2. ClaimedDigest \in Digests \cup {None}
    BY <1>0 DEF ClaimedDigest, WorkerType, Claims
  <2>3. status \in RunStatus \ {"RUNNING"}
    BY TerminalStatusType DEF RunStatus
  <2>4. /\ status = "SUCCEEDED" => left[run] = 0
        /\ status \in {"SUCCEEDED", "OUTCOME_UNCERTAIN"} \/ Clean(run)
    <3>1. CASE code = "SUCCEEDED"
      BY <1>0, <2>1, <3>1 DEF WorkerHonest
    <3>2. CASE code = "OUTCOME_UNCERTAIN"
      BY <3>2 DEF TerminalStatus, SafeErrorCode, SafeErrorCodes
    <3>3. CASE code \notin {"SUCCEEDED", "OUTCOME_UNCERTAIN"}
      BY <1>0, <2>1, <3>3, TerminalStatusType DEF WorkerHonest
    <3> QED
      BY <3>1, <3>2, <3>3
  <2> HIDE DEF status
  <2>5. PICK outcome \in Outcomes : FinishRunOutcome(run, status, ClaimedDigest, outcome)
    BY <1>6 DEF ApplyFinish, status
  <2>6. UNCHANGED <<left, touched, inflight>> /\ wpc' \in {"reply", "refinish"}
    BY <1>6 DEF ApplyFinish
  <2>7. AuditStep
    BY <1>0, <2>1, <2>2, <2>3, <2>4, <2>5, <2>6, AuditFinish DEF Clean
  <2> QED
    BY <2>6, <2>7 DEF WorkerHonest
<1>7. CASE ApplyRefinish
  <2>1. wpc = "refinish" /\ run \in RunIds /\ runs[run] # NoRow
    BY <1>0, <1>7 DEF ApplyRefinish, LocalsOK, RowInv, WorkerRow
  <2>2. ClaimedDigest \in Digests \cup {None} /\ "OUTCOME_UNCERTAIN" \in RunStatus \ {"RUNNING"}
    BY <1>0 DEF ClaimedDigest, WorkerType, Claims, RunStatus
  <2>3. PICK outcome \in Outcomes :
            FinishRunOutcome(run, "OUTCOME_UNCERTAIN", ClaimedDigest, outcome)
    BY <1>7 DEF ApplyRefinish
  <2>4. UNCHANGED <<left, touched, inflight>> /\ wpc' = "reply"
    BY <1>7 DEF ApplyRefinish
  <2>5. AuditStep
    BY <1>0, <2>1, <2>2, <2>3, <2>4, AuditFinish
  <2> QED
    BY <2>4, <2>5 DEF WorkerHonest
<1>8. CASE ReplyFails \/ Crash
  <2>1. Die
    BY <1>8 DEF ReplyFails, Crash
  <2>2. CASE UNCHANGED <<left, touched, inflight>>
    BY <1>0, <2>1, <2>2, AuditQuiet DEF Die, WorkerHonest
  <2>3. CASE wpc = "write" /\ Drops(run)
    <3>1. run \in RunIds /\ runs[run].status = "RUNNING"
      BY <1>0, <2>3 DEF LocalsOK, RowInv, WorkerRow
    <3>2. Verdict(runs[run]) = "open"
      BY <1>0, <3>1, VerdictOf, RowIsRow
    <3> QED
      BY <1>0, <2>1, <2>3, <3>1, <3>2, AuditChange DEF Die, Drops, WorkerHonest
  <2> QED
    BY <2>1, <2>2, <2>3 DEF Die, Abandon
<1>9. CASE ClientStep
  <2>1. UNCHANGED <<runs, left, touched, inflight, wpc, run, code>>
    BY <1>9 DEF ClientStep, Submit, ClientGone
  <2> QED
    BY <1>0, <2>1, AuditQuiet DEF WorkerHonest, Clean
<1> QED
  BY <1>1, <1>2, <1>3, <1>4, <1>5, <1>6, <1>7, <1>8, <1>9
     DEF WorkerMoves, WorkerNext, ServeStep, ApplyStep, ChildStep

(* The same for the scheduler.                                             *)
LEMMA SchedulerAuditStep ==
    ASSUME ControlInv, RowInv, AuditInv, SchedulerMoves
    PROVE  AuditStep /\ SchedulerHonest'
<1>0. /\ BoundaryType /\ RunsType /\ SchedulerType /\ SchedulerControl
      /\ Truthful /\ SchedulerHonest
  BY DEF ControlInv, SchedulerInv, BoundaryType, AuditInv
<1> USE DEF boundaryVars, SchedulerRunPoints, ExecutePoints
<1>1. CASE \/ TickBegin \/ TickLoad \/ TickFails \/ TickEvaluate \/ TickEnd \/ TickExit
           \/ SourceFails \/ SourcePlan \/ SourceDone
  <2>1. UNCHANGED <<runs, left, touched, inflight>>
    BY <1>1 DEF TickBegin, TickLoad, TickFails, TickEvaluate, TickEnd, TickExit, SourceFails,
                SourcePlan, SourceDone
  <2>2. SchedulerHonest'
    BY <1>0, <1>1 DEF TickBegin, TickLoad, TickFails, TickEvaluate, TickEnd, TickExit, Gone,
         SourceFails, Raised, SourcePlan, SourceDone, SchedulerHonest, Clean
  <2> QED
    BY <1>0, <2>1, <2>2, AuditQuiet
<1>2. CASE SourceStart
  <2>1. PICK s \in Pending, outcome \in Outcomes : Begin(s, outcome)
    BY <1>2 DEF SourceStart
  <2>2. s \in Sources
    BY <1>0, <2>1 DEF Pending, SchedulerType
  <2>3. PICK r \in RunIds :
            /\ runs[r] = NoRow
            /\ StartRunOutcome(r, s, "scheduled", outcome)
            /\ (srun' = r /\ spc' = "plan") \/ UNCHANGED spc
    BY <2>1 DEF Begin
  <2>4. UNCHANGED <<left, touched, inflight>> /\ spc = "next"
    BY <1>2 DEF SourceStart
  <2>5. AuditStep
    BY <1>0, <2>2, <2>3, <2>4, AuditStart DEF RunTrigger
  <2>6. Clean(r)
    BY <2>3 DEF RowInv, NoRowNoEffect, Clean
  <2> QED
    BY <2>3, <2>4, <2>5, <2>6 DEF SchedulerHonest, Clean
<1>3. CASE SourcePrecheck
  <2>1. spc = "precheck" /\ srun \in RunIds /\ runs[srun].status = "RUNNING" /\ Clean(srun)
    BY <1>0, <1>3 DEF SourcePrecheck, SchedulerControl, RowInv, SchedulerRow, SchedulerHonest
  <2>2. PICK n \in 0 .. MaxWrites : left' = [left EXCEPT ![srun] = n]
    BY <1>3 DEF SourcePrecheck
  <2>3. n \in Nat
    BY <2>2, BoundaryAssumption
  <2>4. AuditStep
    BY <1>0, <1>3, <2>1, <2>2, <2>3, AuditPlan DEF SourcePrecheck, Clean
  <2> QED
    BY <1>3, <2>4 DEF SourcePrecheck, SchedulerHonest
<1>4. CASE SourceWrite \/ SourceWriteFails
  <2>1. spc = "write" /\ srun \in RunIds /\ runs[srun].status = "RUNNING"
    BY <1>0, <1>4 DEF SourceWrite, SourceWriteFails, SchedulerControl, RowInv, SchedulerRow
  <2>2. Verdict(runs[srun]) = "open"
    BY <1>0, <2>1, VerdictOf, RowIsRow
  <2>3. /\ UNCHANGED runs /\ inflight' \subseteq inflight \cup {srun}
        /\ Landed(srun) \/ UNCHANGED <<left, touched>>
    BY <1>4 DEF SourceWrite, SourceWriteFails, WriteLands, WriteErrs, Drops
  <2>4. AuditStep
    BY <1>0, <2>1, <2>2, <2>3, AuditChange
  <2> QED
    BY <1>4, <2>4 DEF SourceWrite, SourceWriteFails, Raised, schedulerVars, SchedulerHonest
<1>5. CASE SourceFinish
  <2> DEFINE status == IF scode = "SUCCEEDED" THEN "SUCCEEDED" ELSE TerminalStatus(scode)
             digest == IF scode = "SUCCEEDED" THEN applied[srun] ELSE None
  <2>1. spc = "finish" /\ srun \in RunIds /\ runs[srun] # NoRow /\ runs[srun].trigger = "scheduled"
        /\ scode \in {"SUCCEEDED", "APPLY_FAILED"}
    BY <1>0, <1>5 DEF SourceFinish, SchedulerControl, RowInv, SchedulerRow
  <2>2. digest \in Digests \cup {None}
    BY <1>0, <2>1 DEF BoundaryType
  <2>3. status \in RunStatus \ {"RUNNING"}
    BY TerminalStatusType DEF RunStatus
  <2>4. status \in {"SUCCEEDED", "FAILED"} /\ (status = "SUCCEEDED" => left[srun] = 0)
    BY <1>0, <2>1 DEF SchedulerHonest, TerminalStatus
  <2> HIDE DEF status, digest
  <2>5. PICK outcome \in Outcomes : FinishRunOutcome(srun, status, digest, outcome)
    BY <1>5 DEF SourceFinish, status, digest
  <2>6. UNCHANGED <<left, touched, inflight>> /\ spc' = "next"
    BY <1>5 DEF SourceFinish
  <2>7. AuditStep
    BY <1>0, <2>1, <2>2, <2>3, <2>4, <2>5, <2>6, AuditFinish
  <2> QED
    BY <2>6, <2>7 DEF SchedulerHonest
<1>6. CASE SchedulerCrash
  <2>1. UNCHANGED runs /\ spc' = "off"
    BY <1>6 DEF SchedulerCrash, Gone
  <2>2. CASE UNCHANGED <<left, touched, inflight>>
    BY <1>0, <2>1, <2>2, AuditQuiet DEF SchedulerHonest
  <2>3. CASE spc = "write" /\ Drops(srun)
    <3>1. srun \in RunIds /\ runs[srun].status = "RUNNING"
      BY <1>0, <2>3 DEF SchedulerControl, RowInv, SchedulerRow
    <3>2. Verdict(runs[srun]) = "open"
      BY <1>0, <3>1, VerdictOf, RowIsRow
    <3> QED
      BY <1>0, <2>1, <2>3, <3>1, <3>2, AuditChange DEF Drops, SchedulerHonest
  <2> QED
    BY <1>6, <2>2, <2>3 DEF SchedulerCrash, Abandon
<1> QED
  BY <1>1, <1>2, <1>3, <1>4, <1>5, <1>6 DEF SchedulerMoves, SchedulerNext, TickStep

-----------------------------------------------------------------------------
(* Every step of the system keeps AuditInv and is a step of AuditedRun.    *)
LEMMA SystemAuditStep ==
    ASSUME ControlInv, RowInv, AuditInv, [Next]_systemVars
    PROVE  AuditInv' /\ [Audit!Next]_AuditVars
<1>0. /\ BoundaryType /\ LocalsOK /\ SchedulerControl /\ Truthful /\ WorkerHonest
      /\ SchedulerHonest
  BY DEF ControlInv, WorkerInv, WorkerControl, SchedulerInv, AuditInv
<1>1. CASE WorkerMoves
  <2>1. AuditStep /\ WorkerHonest'
    BY <1>1, WorkerAuditStep
  <2>2. UNCHANGED schedulerVars
    BY <1>1 DEF WorkerMoves
  <2>3. spc \in SchedulerRunPoints => srun \in RunIds /\ Scheduled(srun)
    BY <1>0 DEF SchedulerControl, RowInv, SchedulerRow, Scheduled
  <2>4. spc \in SchedulerRunPoints =>
            left'[srun] = left[srun] /\ (Clean(srun) => Clean(srun)')
    BY <1>1, <2>2, <2>3, WorkerKeepsScheduled DEF Clean, schedulerVars
  <2>5. SchedulerHonest'
    BY <1>0, <2>2, <2>4 DEF SchedulerHonest, schedulerVars, SchedulerRunPoints, ExecutePoints, Clean
  <2> QED
    BY <2>1, <2>5 DEF AuditStep, AuditInv
<1>2. CASE SchedulerMoves
  <2>1. AuditStep /\ SchedulerHonest'
    BY <1>2, SchedulerAuditStep
  <2>2. UNCHANGED workerVars
    BY <1>2 DEF SchedulerMoves
  <2>3. wpc \in RunPoints => run \in RunIds /\ Manual(run)
    BY <1>0 DEF LocalsOK, RowInv, WorkerRow, Manual
  <2>4. wpc \in RunPoints => left'[run] = left[run] /\ (Clean(run) => Clean(run)')
    BY <1>2, <2>2, <2>3, SchedulerKeepsManual DEF Clean, workerVars
  <2>5. WorkerHonest'
    BY <1>0, <2>2, <2>4 DEF WorkerHonest, workerVars, RunPoints, LockedPoints, ChildPoints, Clean
  <2> QED
    BY <2>1, <2>5 DEF AuditStep, AuditInv
<1>3. CASE EnvironmentMoves
  <2>1. AuditStep
    BY <1>0, <1>3, AuditEnvironment DEF EnvironmentMoves, RowInv
  <2>2. UNCHANGED <<workerVars, schedulerVars>>
    BY <1>3 DEF EnvironmentMoves
  <2>3. /\ touched' \cup inflight' \subseteq touched \cup inflight
        /\ \A r \in RunIds : left[r] = 0 => left'[r] = 0
    BY <1>0, <1>3 DEF EnvironmentMoves, EnvironmentStep, Advance, LateWrite, Landed,
                      MaintenanceBegin, MaintenanceEnd, BoundaryType
  <2>4. WorkerHonest'
    BY <1>0, <2>2, <2>3 DEF WorkerHonest, Clean, workerVars, LocalsOK, RunPoints, LockedPoints
  <2>5. SchedulerHonest'
    BY <1>0, <2>2, <2>3 DEF SchedulerHonest, Clean, schedulerVars, SchedulerControl,
                            SchedulerRunPoints
  <2> QED
    BY <2>1, <2>4, <2>5 DEF AuditStep, AuditInv
<1>4. CASE UNCHANGED systemVars
  <2>1. AuditStep
    BY <1>0, <1>4, AuditQuiet DEF systemVars, boundaryVars
  <2>2. WorkerHonest' /\ SchedulerHonest'
    BY <1>0, <1>4 DEF systemVars, boundaryVars, workerVars, schedulerVars, WorkerHonest,
                      SchedulerHonest, Clean
  <2> QED
    BY <2>1, <2>2 DEF AuditStep, AuditInv
<1> QED
  BY <1>1, <1>2, <1>3, <1>4 DEF Next

(* Initially no row exists, and NetBox is as the runs found it.            *)
LEMMA AuditInit == Init => AuditInv /\ Audit!Init
<1> SUFFICES ASSUME Init PROVE AuditInv /\ Audit!Init
  OBVIOUS
<1>1. \A r \in RunIds : Verdict(runs[r]) = "none"
  BY VerdictOf DEF Init, BoundaryInit
<1>2. AuditInv
  BY <1>1 DEF Init, BoundaryInit, WorkerInit, SchedulerInit, AuditInv, Truthful, DoneIsDone,
              UnchangedIsClean, WorkerHonest, SchedulerHonest
<1>3. Audit!Init
  BY <1>1 DEF Init, BoundaryInit, Audit!Init
<1> QED
  BY <1>2, <1>3

(* The manual and the scheduled writer together implement AuditedRun       *)
(* (HistoryIsTruthful): whatever crashes, is lost or lands late, a         *)
(* terminal row never says of NetBox what is not so.                       *)
THEOREM HistoryRefinement == Spec => HistoryIsTruthful
<1> DEFINE I == ControlInv /\ RowInv /\ AuditInv
<1>1. Init => I /\ Audit!Init
  BY ControlInit, RowInit, AuditInit
<1>2. I /\ [Next]_systemVars => I'
  BY ControlStep, RowStep, SystemAuditStep
<1>3. I /\ [Next]_systemVars => [Audit!Next]_AuditVars
  BY SystemAuditStep
<1> QED
  BY <1>1, <1>2, <1>3, PTL DEF Spec, HistoryIsTruthful, Audit!Spec, AuditVars

-----------------------------------------------------------------------------
(***************************************************************************)
(* What clients are told.  The answer and the row say the same, when the   *)
(* answer is formed and ever after, since a closed row does not change;    *)
(* that the row is right is then the refinement's.                         *)
(***************************************************************************)
SaysSame(reply, r) ==
    /\ reply = "SUCCEEDED" => runs[r].status = "SUCCEEDED"
    /\ reply \in SafeErrorCodes =>
          runs[r].status = TerminalStatus(reply) /\ runs[r].trigger = "manual"

AnswersSaySame ==
    \A c \in Calls :
        calls[c].state = "answered" /\ calls[c].op = "apply" /\ calls[c].run # None =>
            SaysSame(calls[c].reply, calls[c].run)

ReplySaysSame ==
    wpc = "reply" /\ calls[req].op = "apply" /\ run # None => SaysSame(code, run)

AnswerInv == AnswersSaySame /\ ReplySaysSame

(* The table changes by start_run and finish_run only.                     *)
LEMMA RowsEvolve ==
    ASSUME [Next]_systemVars
    PROVE  \/ UNCHANGED runs
           \/ \E r \in RunIds : \E s, trigger : StartRun(r, s, trigger)
           \/ \E r, status, d : FinishRun(r, status, d)
<1> USE DEF boundaryVars
<1>1. CASE ApplyStart \/ SourceStart
  BY <1>1 DEF ApplyStart, SourceStart, Begin, StartRunOutcome
<1>2. CASE ApplyFinish \/ ApplyRefinish \/ SourceFinish
  BY <1>2 DEF ApplyFinish, ApplyRefinish, SourceFinish, FinishRunOutcome
<1>3. CASE Accept \/ PrepareStep \/ Reply \/ Restart \/ ClientStep \/ ReplyFails \/ Crash
  BY <1>3 DEF Accept, PrepareStep, PrepareSource, PrepareFails, PreparePlan, Reply, Restart,
              ClientStep, Submit, ClientGone, ReplyFails, Crash, Die
<1>4. CASE ApplySource \/ ApplyConsume \/ ApplyOpen \/ ApplyLock \/ ApplyReload \/ ApplyUnlock
           \/ ChildStep
  BY <1>4 DEF ApplySource, ApplyConsume, ApplyOpen, ApplyLock, ApplyReload, ApplyUnlock, ChildStep,
              ChildDiscoverFails, ChildReplan, ChildPrecheckFails, ChildPrecheck, ChildWrite,
              ChildWriteFails, ChildDone, ChildLost
<1>5. CASE \/ TickBegin \/ TickLoad \/ TickFails \/ TickEvaluate \/ TickEnd \/ TickExit
           \/ SourceFails \/ SourcePlan \/ SourcePrecheck \/ SourceWrite \/ SourceWriteFails
           \/ SourceDone \/ SchedulerCrash
  BY <1>5 DEF TickBegin, TickLoad, TickFails, TickEvaluate, TickEnd, TickExit, SourceFails, SourcePlan,
              SourcePrecheck, SourceWrite, SourceWriteFails, SourceDone, SchedulerCrash
<1>6. CASE EnvironmentStep \/ UNCHANGED systemVars
  BY <1>6 DEF EnvironmentStep, Advance, LateWrite, MaintenanceBegin, MaintenanceEnd, systemVars
<1> QED
  BY <1>1, <1>2, <1>3, <1>4, <1>5, <1>6
     DEF Next, WorkerMoves, WorkerNext, ServeStep, ApplyStep, SchedulerMoves, SchedulerNext, TickStep,
         EnvironmentMoves

(* A closed row does not change.                                           *)
LEMMA ClosedRowKept ==
    ASSUME RunsType, [Next]_systemVars, NEW r \in RunIds,
           runs[r].status \in RunStatus \ {"RUNNING"}
    PROVE  runs'[r] = runs[r]
<1>1. CASE \E q \in RunIds : \E s, trigger : StartRun(q, s, trigger)
  BY <1>1 DEF StartRun, NoRow, RunStatus, RunsType
<1>2. CASE \E q, status, d : FinishRun(q, status, d)
  BY <1>2 DEF FinishRun, Finishable, RunsType
<1> QED
  BY <1>1, <1>2, RowsEvolve

(* An answer that agrees with its row goes on agreeing with it.            *)
LEMMA AgreementKept ==
    ASSUME RunsType, [Next]_systemVars, NEW r \in RunIds, NEW reply, SaysSame(reply, r)
    PROVE  SaysSame(reply, r)'
<1>1. reply = "SUCCEEDED" \/ reply \in SafeErrorCodes =>
          runs[r].status \in RunStatus \ {"RUNNING"}
  BY TerminalStatusType DEF SaysSame, RunStatus
<1> QED
  BY <1>1, ClosedRowKept DEF SaysSame

(* The answer that finish_run's result leads to agrees with the row.       *)
LEMMA FinishSaysSame ==
    ASSUME ControlInv, RowInv, ApplyFinish \/ ApplyRefinish
    PROVE  SaysSame(code, run)' \/ wpc' # "reply"
<1>0. /\ RunsType /\ run \in RunIds /\ run' = run /\ runs[run] # NoRow /\ runs[run].trigger = "manual"
      /\ wpc = "finish" => runs[run].status = "RUNNING"
      /\ ApplyFinish => wpc = "finish"
  BY DEF ApplyFinish, ApplyRefinish, ControlInv, WorkerInv, WorkerControl, LocalsOK, RunPoints, RowInv,
         WorkerRow, BoundaryType
<1>1. CASE code' = "WORKER_INTERNAL_ERROR"
  BY <1>1 DEF SaysSame, SafeErrorCodes
<1>2. CASE ApplyFinish /\ wpc' = "reply" /\ code' # "WORKER_INTERNAL_ERROR"
  <2> DEFINE status == IF code = "SUCCEEDED" THEN code ELSE TerminalStatus(SafeErrorCode(code))
  <2>1. FinishRunOutcome(run, status, ClaimedDigest, "ok") /\ code' = code
    BY <1>2 DEF ApplyFinish, Respond, Outcomes
  <2>2. runs'[run].status = status /\ runs'[run].trigger = "manual"
    <3> HIDE DEF status
    <3> QED
      BY <1>0, <1>2, <2>1 DEF FinishRunOutcome, Finishable, FinishRun, RunsType
  <2>3. /\ code = "SUCCEEDED" => status = "SUCCEEDED"
        /\ code \in SafeErrorCodes => status = TerminalStatus(code)
    BY DEF SafeErrorCode, SafeErrorCodes
  <2> HIDE DEF status
  <2> QED
    BY <1>0, <2>1, <2>2, <2>3 DEF SaysSame
<1>3. CASE ApplyRefinish /\ code' # "WORKER_INTERNAL_ERROR"
  <2>1. /\ FinishRunOutcome(run, "OUTCOME_UNCERTAIN", ClaimedDigest, "ok") /\ Finishable(run)
        /\ code' = "OUTCOME_UNCERTAIN"
    BY <1>3 DEF ApplyRefinish, Respond, Outcomes
  <2>2. runs'[run].status = "OUTCOME_UNCERTAIN" /\ runs'[run].trigger = "manual"
    BY <1>0, <2>1 DEF FinishRunOutcome, Finishable, FinishRun, RunsType
  <2>3. TerminalStatus("OUTCOME_UNCERTAIN") = "OUTCOME_UNCERTAIN"
    BY DEF TerminalStatus
  <2> QED
    BY <1>0, <2>1, <2>2, <2>3 DEF SaysSame
<1> QED
  BY <1>1, <1>2, <1>3

(* Every step of the system keeps AnswerInv.                               *)
LEMMA AnswerStep ==
    ASSUME ControlInv, RowInv, AnswerInv, [Next]_systemVars
    PROVE  AnswerInv'
<1>0. /\ RunsType /\ WorkerType /\ ReqOK /\ AnswersSaySame /\ ReplySaysSame
      /\ run \in RunIds \cup {None}
  BY DEF ControlInv, WorkerInv, WorkerControl, WorkerType, BoundaryType, AnswerInv
<1>1. \A c \in Calls : calls[c].state = "answered" /\ calls[c].op = "apply" /\ calls[c].run # None =>
          calls[c].run \in RunIds /\ SaysSame(calls[c].reply, calls[c].run)
  BY <1>0 DEF AnswersSaySame, WorkerType, Request, Response, Unsent
<1>2. ASSUME NEW c \in Calls, calls'[c] = calls[c], calls[c].state = "answered",
             calls[c].op = "apply", calls[c].run # None
      PROVE  SaysSame(calls[c].reply, calls[c].run)'
  <2>1. PICK r \in RunIds : r = calls[c].run
    BY <1>1, <1>2
  <2>2. PICK reply : reply = calls[c].reply
    OBVIOUS
  <2>3. SaysSame(reply, r)'
    BY <1>0, <1>1, <1>2, <2>1, <2>2, AgreementKept
  <2> QED
    BY <1>2, <2>1, <2>2, <2>3 DEF SaysSame
<1>3. ASSUME UNCHANGED <<calls, req, run, code>>, wpc = "reply" PROVE ReplySaysSame'
  <2> SUFFICES ASSUME calls[req].op = "apply", run # None PROVE SaysSame(code, run)'
    BY <1>3 DEF ReplySaysSame
  <2>1. PICK r \in RunIds : r = run
    BY <1>0
  <2>2. PICK reply : reply = code
    OBVIOUS
  <2>3. SaysSame(reply, r)'
    BY <1>0, <1>3, <2>1, <2>2, AgreementKept DEF ReplySaysSame
  <2> QED
    BY <1>3, <2>1, <2>2, <2>3 DEF SaysSame
<1>4. ASSUME UNCHANGED calls PROVE AnswersSaySame'
  BY <1>2, <1>4 DEF AnswersSaySame
<1> USE DEF Goto, Respond, Leave, boundaryVars, workerVars
<1>5. CASE SchedulerMoves \/ EnvironmentMoves \/ UNCHANGED systemVars
  <2>1. UNCHANGED <<calls, req, run, code, wpc>>
    BY <1>5 DEF SchedulerMoves, EnvironmentMoves, systemVars
  <2> QED
    BY <1>3, <1>4, <2>1 DEF AnswerInv, ReplySaysSame
<1>6. CASE \/ Accept \/ Restart \/ ApplyConsume \/ ApplyOpen \/ ApplyLock \/ ApplyReload
           \/ ApplyUnlock \/ ChildStep
  <2>1. UNCHANGED calls /\ wpc' # "reply"
    BY <1>6 DEF Accept, Restart, ApplyConsume, ApplyOpen, ApplyLock, FlockNonBlocking, ApplyReload,
                ApplyUnlock, ChildStep, ChildDiscoverFails, ChildReplan, ChildPrecheckFails,
                ChildPrecheck, ChildWrite, ChildWriteFails, ChildDone, ChildLost
  <2> QED
    BY <1>4, <2>1 DEF AnswerInv, ReplySaysSame
<1>7. CASE PrepareStep
  <2>1. UNCHANGED <<calls, req>> /\ calls[req].op = "prepare"
    BY <1>0, <1>7 DEF PrepareStep, PrepareSource, PrepareFails, PreparePlan, ReqOK
  <2> QED
    BY <1>4, <2>1 DEF AnswerInv, ReplySaysSame
<1>8. CASE ApplySource \/ ApplyStart
  <2>1. UNCHANGED calls /\ (wpc' = "reply" => code' \in {"UNLISTED", "WORKER_INTERNAL_ERROR"})
    BY <1>8 DEF ApplySource, ApplyStart
  <2> QED
    BY <1>4, <2>1 DEF AnswerInv, ReplySaysSame, SaysSame, SafeErrorCodes
<1>9. CASE ApplyFinish \/ ApplyRefinish
  <2>1. UNCHANGED calls
    BY <1>9 DEF ApplyFinish, ApplyRefinish
  <2> QED
    BY <1>4, <1>9, <2>1, FinishSaysSame DEF AnswerInv, ReplySaysSame
<1>10. CASE Reply
  <2>1. /\ wpc = "reply" /\ wpc' = "idle" /\ req \in Calls /\ UNCHANGED runs
        /\ calls' = [calls EXCEPT ![req] = Answer(calls[req].op, code, token, run)]
    BY <1>0, <1>10 DEF Reply, ReqOK, Serving
  <2>2. \A c \in Calls : c # req => calls'[c] = calls[c]
    BY <1>0, <2>1 DEF WorkerType
  <2>3. /\ calls'[req].op = calls[req].op /\ calls'[req].reply = code
        /\ calls'[req].run = run
    BY <1>0, <2>1 DEF WorkerType, Answer
  <2>4. AnswersSaySame'
    <3> SUFFICES ASSUME NEW c \in Calls, calls'[c].state = "answered", calls'[c].op = "apply",
                        calls'[c].run # None
                 PROVE  SaysSame(calls[c].reply, calls[c].run)'
      BY DEF AnswersSaySame
    <3>1. CASE c = req
      BY <1>0, <2>1, <2>3, <3>1 DEF ReplySaysSame, SaysSame
    <3>2. CASE c # req
      BY <1>2, <2>2, <3>2 DEF SaysSame
    <3> QED
      BY <3>1, <3>2
  <2> QED
    BY <2>1, <2>4 DEF AnswerInv, ReplySaysSame
<1>11. CASE ReplyFails \/ Crash
  <2>1. /\ wpc' = "down"
        /\ \A c \in Calls : calls'[c] = calls[c] \/ calls'[c].run = None
    BY <1>0, <1>11 DEF ReplyFails, Crash, Die, Answer, WorkerType
  <2>2. AnswersSaySame'
    <3> SUFFICES ASSUME NEW c \in Calls, calls'[c].state = "answered", calls'[c].op = "apply",
                        calls'[c].run # None
                 PROVE  SaysSame(calls[c].reply, calls[c].run)'
      BY DEF AnswersSaySame
    <3> QED
      BY <1>2, <2>1 DEF SaysSame
  <2> QED
    BY <2>1, <2>2 DEF AnswerInv, ReplySaysSame
<1>12. ASSUME NEW c \in Calls, Submit(c) \/ ClientGone(c)
       PROVE  AnswerInv'
  <2>1. /\ UNCHANGED <<req, run, code, wpc, runs>>
        /\ \A x \in Calls : x # c => calls'[x] = calls[x]
        /\ calls'[c].state # "answered" \/ calls'[c].run = None
        /\ calls[c] = Unsent \/ calls'[c].op = calls[c].op
    BY <1>0, <1>12 DEF Submit, ClientGone, WorkerType, Requests, Answer
  <2>2. AnswersSaySame'
    <3> SUFFICES ASSUME NEW x \in Calls, calls'[x].state = "answered", calls'[x].op = "apply",
                        calls'[x].run # None
                 PROVE  SaysSame(calls[x].reply, calls[x].run)'
      BY DEF AnswersSaySame
    <3> QED
      BY <1>2, <2>1 DEF SaysSame
  <2>3. wpc = "reply" => req \in Calls /\ calls[req] # Unsent
    BY <1>0, CallStates DEF ReqOK, Serving
  <2>4. ReplySaysSame'
    BY <1>0, <2>1, <2>3 DEF ReplySaysSame, SaysSame
  <2> QED
    BY <2>2, <2>4 DEF AnswerInv
<1> QED
  BY <1>5, <1>6, <1>7, <1>8, <1>9, <1>10, <1>11, <1>12
     DEF Next, WorkerMoves, WorkerNext, ServeStep, ApplyStep, ClientStep

(* An answer that agrees with a row that is right is right.                *)
LEMMA AgreementIsHonest ==
    ASSUME RunsType, Truthful, NEW r \in RunIds, NEW reply, SaysSame(reply, r)
    PROVE  /\ reply = "SUCCEEDED" => left[r] = 0 /\ runs[r].status = "SUCCEEDED"
           /\ reply \in NoChangeCodes => r \notin touched \cup inflight
           /\ reply \in SafeErrorCodes => runs[r].status = TerminalStatus(reply)
<1>1. ASSUME reply = "SUCCEEDED" PROVE left[r] = 0
  <2>1. runs[r].status = "SUCCEEDED" /\ runs[r] \in Row
    BY <1>1 DEF SaysSame, RunsType, NoRow
  <2> QED
    BY <2>1, VerdictOf DEF Truthful, DoneIsDone
<1>2. ASSUME reply \in NoChangeCodes PROVE r \notin touched \cup inflight
  <2>1. /\ runs[r].status \in {"FAILED", "BLOCKED", "LOCKED", "FAILED_BEFORE_WRITE"}
        /\ runs[r].trigger = "manual"
    BY <1>2 DEF SaysSame, NoChangeCodes, SafeErrorCodes, TerminalStatus
  <2>2. Verdict(runs[r]) = "unchanged"
    BY <2>1 DEF Verdict
  <2> QED
    BY <2>2 DEF Truthful, UnchangedIsClean
<1> QED
  BY <1>1, <1>2 DEF SaysSame

(* What the client of an apply was told stays true (AnswersAreHonest), for *)
(* any number of calls and runs, beside the scheduler, through lost        *)
(* statements, crashes and writes that land late.                          *)
THEOREM HonestAnswers == Spec => []AnswersAreHonest
<1> DEFINE I == ControlInv /\ RowInv /\ AuditInv /\ AnswerInv
<1>1. Init => I
  <2>1. Init => AnswerInv
    BY DEF Init, WorkerInit, AnswerInv, AnswersSaySame, ReplySaysSame, Unsent
  <2> QED
    BY <2>1, ControlInit, RowInit, AuditInit
<1>2. I /\ [Next]_systemVars => I'
  BY ControlStep, RowStep, SystemAuditStep, AnswerStep
<1>3. I => AnswersAreHonest
  <2> SUFFICES ASSUME I, NEW c \in Calls, calls[c].state = "answered", calls[c].op = "apply",
                      calls[c].run # None
               PROVE  LET a == calls[c] IN
                      /\ a.reply = "SUCCEEDED" => left[a.run] = 0 /\ runs[a.run].status = "SUCCEEDED"
                      /\ a.reply \in NoChangeCodes => a.run \notin touched \cup inflight
                      /\ a.reply \in SafeErrorCodes => runs[a.run].status = TerminalStatus(a.reply)
    BY DEF AnswersAreHonest
  <2>1. RunsType /\ Truthful /\ WorkerType
    BY DEF ControlInv, WorkerInv, BoundaryType, AuditInv
  <2>2. calls[c].run \in RunIds
    BY <2>1 DEF WorkerType, Request, Response, Unsent
  <2>3. SaysSame(calls[c].reply, calls[c].run)
    BY DEF AnswerInv, AnswersSaySame
  <2> QED
    BY <2>1, <2>2, <2>3, AgreementIsHonest
<1> QED
  BY <1>1, <1>2, <1>3, PTL DEF Spec
=============================================================================
