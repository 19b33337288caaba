---------------------------- MODULE WriterProofs ----------------------------
(***************************************************************************)
(* Proofs about each writer of NetBox on its own, for every number of      *)
(* sources, runs, tokens, calls, mutations and clock ticks.                *)
(***************************************************************************)
EXTENDS ApplyWorker, Scheduler, TLAPS

(***************************************************************************)
(* What the operations on the shared boundary preserve, whoever performs   *)
(* them.                                                                   *)
(***************************************************************************)

(* Every error code has a terminal status (ERROR_STATUS, terminal_status). *)
LEMMA TerminalStatusType ==
    \A c : TerminalStatus(c) \in RunStatus \ {"RUNNING", "SUCCEEDED"}
BY DEF TerminalStatus, RunStatus

(* start_run keeps the table well formed, whatever becomes of the INSERT.  *)
LEMMA StartRunType ==
    ASSUME RunsType, now \in Nat, NEW r \in RunIds, NEW s \in Sources,
           NEW trigger \in RunTrigger, NEW outcome,
           StartRunOutcome(r, s, trigger, outcome)
    PROVE  RunsType'
BY DEF RunsType, StartRunOutcome, StartRun, Row, RunStatus

(* finish_run keeps the table well formed, whatever becomes of the UPDATE. *)
LEMMA FinishRunType ==
    ASSUME RunsType, NEW r \in RunIds, NEW status \in RunStatus,
           NEW d \in Digests \cup {None}, NEW outcome,
           FinishRunOutcome(r, status, d, outcome)
    PROVE  RunsType'
<1>1. CASE UNCHANGED runs
  BY <1>1 DEF RunsType
<1>2. CASE FinishRun(r, status, d)
  <2>1. runs[r] \in Row
    BY <1>2 DEF FinishRun, Finishable, RunsType, NoRow
  <2> QED
    BY <1>2, <2>1 DEF FinishRun, RunsType, Row
<1> QED
  BY <1>1, <1>2 DEF FinishRunOutcome

(* The types of the three variables a mutation changes.                    *)
WritesType == left \in [RunIds -> Nat] /\ touched \subseteq RunIds /\ inflight \subseteq RunIds

(* A mutation, answered, failed or abandoned, keeps the types.             *)
LEMMA WriteType ==
    ASSUME WritesType, NEW r \in RunIds,
           WriteLands(r) \/ WriteErrs(r) \/ Drops(r)
    PROVE  WritesType'
BY DEF WritesType, WriteLands, WriteErrs, Landed, Drops

(* The environment keeps the types of the boundary.                        *)
LEMMA EnvironmentType ==
    ASSUME BoundaryType, EnvironmentStep
    PROVE  BoundaryType'
BY DEF EnvironmentStep, BoundaryType, RunsType, Holders, Advance, LateWrite, Landed, MaintenanceBegin,
       MaintenanceEnd

-----------------------------------------------------------------------------
(***************************************************************************)
(* The manual path.                                                        *)
(***************************************************************************)

(* Every point of apply between flock and close, and no other, is where    *)
(* the worker has the lock: one step at a time.                            *)
LEMMA WorkerLockStep ==
    ASSUME WorkerHoldsLock, WorkerNext
    PROVE  WorkerHoldsLock' /\ (lock' # lock => {lock, lock'} = {"free", "worker"})
<1> USE DEF WorkerHoldsLock, LockedPoints, ChildPoints, boundaryVars, workerVars
<1>1. CASE Accept
  BY <1>1 DEF Accept, Goto
<1>2. CASE PrepareStep
  BY <1>2 DEF PrepareStep, PrepareSource, PrepareFails, PreparePlan, Goto, Respond
<1>3. CASE ApplySource \/ ApplyStart \/ ApplyConsume \/ ApplyOpen
  BY <1>3 DEF ApplySource, ApplyStart, ApplyConsume, ApplyOpen, Goto, Respond
<1>4. CASE ApplyLock
  BY <1>4 DEF ApplyLock, FlockNonBlocking, Goto
<1>5. CASE ApplyReload
  BY <1>5 DEF ApplyReload, Goto, Leave
<1>6. CASE ChildStep
  BY <1>6 DEF ChildStep, ChildDiscoverFails, ChildReplan, ChildPrecheckFails, ChildPrecheck,
              ChildWrite, ChildWriteFails, ChildDone, ChildLost, Goto, Leave
<1>7. CASE ApplyUnlock \/ ApplyFinish \/ ApplyRefinish
  BY <1>7 DEF ApplyUnlock, ApplyFinish, ApplyRefinish, Goto, Respond
<1>8. CASE Reply \/ Restart
  BY <1>8 DEF Reply, Restart, Goto
<1>9. CASE ReplyFails \/ Crash
  BY <1>9 DEF ReplyFails, Crash, Die, Goto
<1>10. CASE ClientStep
  BY <1>10 DEF ClientStep, Submit, ClientGone
<1> QED
  BY <1>1, <1>2, <1>3, <1>4, <1>5, <1>6, <1>7, <1>8, <1>9, <1>10
     DEF WorkerNext, ServeStep, ApplyStep

-----------------------------------------------------------------------------
(***************************************************************************)
(* The control invariant: what the local variables of the handler hold at  *)
(* each of its points.  WorkerType alone is not inductive: that apply has  *)
(* a run to finalise, claims to compare and a call to answer depends on    *)
(* the point it has reached.                                               *)
(***************************************************************************)
Serving == wpc \notin {"idle", "down"}

ApplyPoints == RunPoints \cup {"source", "start"}

ClaimPoints == LockedPoints \cup {"prepPlan", "open", "lock"}

ReqOK ==
    /\ Serving => req \in Calls /\ calls[req] \in Request
    /\ wpc \in {"prepSource", "prepPlan"} => calls[req].op = "prepare"
    /\ wpc \in ApplyPoints => calls[req].op = "apply"

LocalsOK ==
    /\ wpc \in RunPoints => run \in RunIds
    /\ wpc \in ClaimPoints => claims \in Claims
    /\ wpc \in {"unlock", "finish", "refinish", "reply"} => code \in Codes

(* A connection waits in the queue once, and not while it is served.       *)
QueueOK ==
    \A i \in 1 .. Len(queue) :
        /\ calls[queue[i]] \in Request
        /\ Serving => queue[i] # req
        /\ \A j \in 1 .. Len(queue) : queue[i] = queue[j] => i = j

WorkerControl == ReqOK /\ LocalsOK /\ QueueOK

WorkerInv == BoundaryType /\ WorkerType /\ WorkerControl

(* The states of a call: not sent, under way, answered.                    *)
LEMMA CallStates ==
    ASSUME WorkerType, NEW c \in Calls
    PROVE  /\ calls[c].state \in {"waiting", "gone"} <=> calls[c] \in Request
           /\ calls[c] = Unsent => calls[c] \notin Request
BY DEF WorkerType, Request, Response, Unsent

(* What a request carries.                                                 *)
LEMMA RequestFields ==
    ASSUME NEW q \in Request
    PROVE  /\ q.state \in {"waiting", "gone"}
           /\ q.op \in {"prepare", "apply"}
           /\ q.source \in Sources
           /\ q.op = "prepare" => q.arg \in Digests
           /\ q.op = "apply" => q.arg \in Tokens
BY DEF Request

(* The initial state is well formed.                                       *)
LEMMA WorkerInitInv == WorkerSystemInit => WorkerInv
BY DEF WorkerSystemInit, BoundaryInit, WorkerInit, ConfirmationInit, WorkerInv, BoundaryType,
       RunsType, Holders, WorkerType, ConfirmationType, WorkerControl, ReqOK, LocalsOK, QueueOK,
       Serving, ApplyPoints, ClaimPoints, RunPoints, LockedPoints, ChildPoints, WorkerPoints

(* Every step of the worker, its child and its clients keeps WorkerInv.    *)
LEMMA WorkerStepInv ==
    ASSUME WorkerInv, WorkerNext
    PROVE  WorkerInv'
<1> USE DEF WorkerInv, WorkerControl, Serving, ApplyPoints, ClaimPoints, RunPoints, LockedPoints,
            ChildPoints, WorkerPoints, Goto, Respond, Leave
<1>1. CASE Accept
  <2>1. queue \in Seq(Calls) /\ queue # <<>>
    BY <1>1 DEF Accept, WorkerType
  <2>2. req' = queue[1] /\ Len(queue) >= 1 /\ req' \in Calls
    BY <1>1, <2>1 DEF Accept
  <2>3. queue' \in Seq(Calls) /\ Len(queue') = Len(queue) - 1
        /\ \A i \in 1 .. Len(queue') : queue'[i] = queue[i + 1]
    BY <1>1, <2>1 DEF Accept
  <2>4. calls[req'].op \in {"prepare", "apply"}
    BY <2>2, <2>1, RequestFields DEF QueueOK
  <2>5. QueueOK'
    BY <1>1, <2>1, <2>2, <2>3 DEF Accept, QueueOK
  <2>6. ReqOK' /\ LocalsOK'
    BY <1>1, <2>1, <2>2, <2>4 DEF Accept, QueueOK, ReqOK, LocalsOK
  <2> QED
    BY <1>1, <2>2, <2>3, <2>5, <2>6 DEF Accept, BoundaryType, RunsType, boundaryVars, WorkerType,
                                        ConfirmationType
<1>2. CASE PrepareSource
  <2>1. wpc = "prepSource" /\ req \in Calls /\ calls[req] \in Request /\ calls[req].op = "prepare"
    BY <1>2 DEF PrepareSource, ReqOK
  <2>2. calls[req].source \in Sources /\ calls[req].arg \in Digests
    BY <2>1, RequestFields
  <2>3. claims' \in Claims \cup {None} /\ (wpc' = "prepPlan" => claims' \in Claims)
    BY <1>2, <2>2 DEF PrepareSource, Lookup, Claims, WorkerType
  <2>4. WorkerType'
    BY <1>2, <2>3 DEF PrepareSource, WorkerType, ConfirmationType, Codes
  <2>5. ReqOK' /\ LocalsOK' /\ QueueOK'
    BY <1>2, <2>1, <2>3 DEF PrepareSource, ReqOK, LocalsOK, QueueOK, Codes
  <2> QED
    BY <1>2, <2>4, <2>5 DEF PrepareSource, BoundaryType, RunsType, boundaryVars
<1>3. CASE PrepareFails
  <2>1. WorkerType'
    BY <1>3 DEF PrepareFails, LostChild, WorkerType, ConfirmationType, Codes, SafeErrorCodes
  <2>2. ReqOK' /\ LocalsOK' /\ QueueOK'
    BY <1>3 DEF PrepareFails, LostChild, ReqOK, LocalsOK, QueueOK, Codes, SafeErrorCodes
  <2> QED
    BY <1>3, <2>1, <2>2 DEF PrepareFails, BoundaryType, RunsType, boundaryVars
<1>4. CASE PreparePlan
  <2>1. wpc = "prepPlan" /\ claims \in Claims /\ now \in Nat
    BY <1>4 DEF PreparePlan, LocalsOK, BoundaryType
  <2>2. ConfirmationType' /\ token' \in Tokens \cup {None}
    <3>1. CASE UNCHANGED <<entries, granted, token>>
      BY <3>1 DEF WorkerType, ConfirmationType
    <3>2. CASE IssueRefused /\ UNCHANGED token
      BY <3>2 DEF IssueRefused, Pruned, WorkerType, ConfirmationType
    <3>3. CASE \E t \in Tokens : Issue(t, claims) /\ token' = t
      <4>1. PICK t \in Tokens : Issue(t, claims) /\ token' = t
        BY <3>3
      <4> DEFINE entry == [source |-> claims.source, id |-> claims.id,
                           digest |-> claims.digest, expires |-> now + Ttl]
      <4>2. entry \in Entry
        BY <2>1, ConfirmationAssumption DEF Claims, Entry
      <4>3. Pruned \in [Tokens -> Entry \cup {None}]
        BY DEF Pruned, WorkerType, ConfirmationType
      <4> HIDE DEF entry
      <4>4. entries' = [Pruned EXCEPT ![t] = entry] /\ granted' = [granted EXCEPT ![t] = entry]
        BY <4>1 DEF Issue, entry
      <4> QED
        BY <4>1, <4>2, <4>3, <4>4 DEF WorkerType, ConfirmationType
    <3> QED
      BY <1>4, <3>1, <3>2, <3>3 DEF PreparePlan
  <2>3. wpc' = "reply" /\ code' \in Codes
    BY <1>4 DEF PreparePlan, Codes, SafeErrorCodes
  <2>4. WorkerType'
    BY <1>4, <2>2, <2>3 DEF PreparePlan, WorkerType
  <2>5. ReqOK' /\ LocalsOK' /\ QueueOK'
    BY <1>4, <2>1, <2>3 DEF PreparePlan, ReqOK, LocalsOK, QueueOK
  <2> QED
    BY <1>4, <2>4, <2>5 DEF PreparePlan, BoundaryType, RunsType, boundaryVars
<1>5. CASE ApplySource
  <2>1. WorkerType'
    BY <1>5 DEF ApplySource, WorkerType, ConfirmationType, Codes
  <2>2. ReqOK' /\ LocalsOK' /\ QueueOK'
    BY <1>5 DEF ApplySource, ReqOK, LocalsOK, QueueOK, Codes
  <2> QED
    BY <1>5, <2>1, <2>2 DEF ApplySource, BoundaryType, RunsType, boundaryVars
<1>6. CASE ApplyStart
  <2>1. wpc = "start" /\ req \in Calls /\ calls[req] \in Request
    BY <1>6 DEF ApplyStart, ReqOK
  <2>2. calls[req].source \in Sources
    BY <2>1, RequestFields
  <2>3. RunsType'
    BY <1>6, <2>2, StartRunType DEF ApplyStart, BoundaryType, RunTrigger
  <2>4. WorkerType'
    BY <1>6 DEF ApplyStart, WorkerType, ConfirmationType, Codes
  <2>5. ReqOK' /\ LocalsOK' /\ QueueOK'
    BY <1>6, <2>1 DEF ApplyStart, ReqOK, LocalsOK, QueueOK, Codes
  <2> QED
    BY <1>6, <2>3, <2>4, <2>5 DEF ApplyStart, BoundaryType
<1>7. CASE ApplyConsume
  <2> DEFINE t == calls[req].arg
             result == ConsumeCode(t, calls[req].source)
  <2>1. wpc = "consume" /\ req \in Calls /\ calls[req] \in Request /\ calls[req].op = "apply"
        /\ run \in RunIds
    BY <1>7 DEF ApplyConsume, ReqOK, LocalsOK
  <2>2. t \in Tokens
    BY <2>1, RequestFields
  <2>3. ConfirmationType'
    BY <1>7, <2>2 DEF ApplyConsume, Consume, WorkerType, ConfirmationType
  <2>4. result = "OK" => ClaimsOf(t) \in Claims
    BY <2>2 DEF ConsumeCode, ClaimsOf, Claims, WorkerType, ConfirmationType, Entry
  <2>5. result # "OK" => result \in Codes
    BY DEF ConsumeCode, Codes, SafeErrorCodes
  <2> HIDE DEF result
  <2>6. \/ /\ result = "OK" /\ wpc' = "open" /\ claims' = ClaimsOf(t) /\ UNCHANGED code
           /\ authorised' = [authorised EXCEPT ![run] = t]
        \/ /\ result # "OK" /\ wpc' = "finish" /\ code' = result
           /\ UNCHANGED <<claims, authorised>>
    BY <1>7 DEF ApplyConsume, result
  <2> HIDE DEF t
  <2>7. WorkerType'
    BY <1>7, <2>1, <2>2, <2>3, <2>4, <2>5, <2>6 DEF ApplyConsume, WorkerType
  <2>8. ReqOK' /\ LocalsOK' /\ QueueOK'
    BY <1>7, <2>1, <2>4, <2>5, <2>6 DEF ApplyConsume, ReqOK, LocalsOK, QueueOK
  <2> QED
    BY <1>7, <2>7, <2>8 DEF ApplyConsume, BoundaryType, RunsType, boundaryVars
<1>8. CASE ApplyOpen \/ ApplyReload \/ ChildDiscoverFails \/ ChildPrecheckFails \/ ChildDone
  <2>1. wpc \in {"open", "reload", "replan", "precheck", "write"}
    BY <1>8 DEF ApplyOpen, ApplyReload, ChildDiscoverFails, ChildPrecheckFails, ChildDone
  <2>2. /\ wpc' \in RunPoints /\ code' \in Codes \cup {None}
        /\ wpc' \in {"finish", "unlock"} => code' \in Codes
        /\ wpc' # "refinish"
    BY <1>8 DEF ApplyOpen, ApplyReload, ChildDiscoverFails, ChildPrecheckFails, ChildDone,
                WorkerType, Codes, SafeErrorCodes
  <2>3. UNCHANGED <<boundaryVars, entries, granted, calls, queue, req, run, claims, token, authorised>>
    BY <1>8 DEF ApplyOpen, ApplyReload, ChildDiscoverFails, ChildPrecheckFails, ChildDone
  <2>4. WorkerType'
    BY <2>2, <2>3 DEF WorkerType, ConfirmationType
  <2>5. ReqOK' /\ LocalsOK' /\ QueueOK'
    BY <2>1, <2>2, <2>3 DEF ReqOK, LocalsOK, QueueOK
  <2> QED
    BY <2>3, <2>4, <2>5 DEF BoundaryType, RunsType, boundaryVars
<1>9. CASE ApplyLock \/ ApplyUnlock
  <2>1. WorkerType'
    BY <1>9 DEF ApplyLock, FlockNonBlocking, ApplyUnlock, WorkerType, ConfirmationType, Codes,
                SafeErrorCodes
  <2>2. ReqOK' /\ LocalsOK' /\ QueueOK'
    BY <1>9 DEF ApplyLock, FlockNonBlocking, ApplyUnlock, ReqOK, LocalsOK, QueueOK, Codes,
                SafeErrorCodes
  <2> QED
    BY <1>9, <2>1, <2>2 DEF ApplyLock, FlockNonBlocking, ApplyUnlock, BoundaryType, RunsType, Holders
<1>10. CASE ChildReplan
  <2>1. wpc = "replan" /\ run \in RunIds
    BY <1>10 DEF ChildReplan, LocalsOK
  <2>2. BoundaryType'
    BY <1>10, <2>1 DEF ChildReplan, BoundaryType, RunsType
  <2>3. WorkerType'
    BY <1>10 DEF ChildReplan, WorkerType, ConfirmationType, Codes, SafeErrorCodes
  <2>4. ReqOK' /\ LocalsOK' /\ QueueOK'
    BY <1>10 DEF ChildReplan, ReqOK, LocalsOK, QueueOK, Codes, SafeErrorCodes
  <2> QED
    BY <2>2, <2>3, <2>4
<1>11. CASE ChildPrecheck
  <2>1. wpc = "precheck" /\ run \in RunIds
    BY <1>11 DEF ChildPrecheck, LocalsOK
  <2>2. BoundaryType'
    BY <1>11, <2>1, BoundaryAssumption DEF ChildPrecheck, BoundaryType, RunsType
  <2>3. WorkerType'
    BY <1>11 DEF ChildPrecheck, WorkerType, ConfirmationType
  <2>4. ReqOK' /\ LocalsOK' /\ QueueOK'
    BY <1>11 DEF ChildPrecheck, ReqOK, LocalsOK, QueueOK
  <2> QED
    BY <2>2, <2>3, <2>4
<1>12. CASE ChildWrite \/ ChildWriteFails \/ ChildLost
  <2>1. wpc \in ChildPoints /\ run \in RunIds
    BY <1>12 DEF ChildWrite, ChildWriteFails, ChildLost, LocalsOK
  <2>2. /\ WriteLands(run) \/ WriteErrs(run) \/ Drops(run) \/ UNCHANGED <<left, touched, inflight>>
        /\ UNCHANGED <<runs, now, lock, applied>>
    BY <1>12 DEF ChildWrite, ChildWriteFails, ChildLost, Abandon
  <2>3. BoundaryType'
    BY <2>1, <2>2, WriteType DEF WritesType, BoundaryType, RunsType
  <2>4. WorkerType'
    BY <1>12 DEF ChildWrite, ChildWriteFails, ChildLost, LostChild, workerVars, WorkerType,
                 ConfirmationType, Codes, SafeErrorCodes
  <2>5. ReqOK' /\ LocalsOK' /\ QueueOK'
    BY <1>12 DEF ChildWrite, ChildWriteFails, ChildLost, LostChild, workerVars, ReqOK, LocalsOK,
                 QueueOK, Codes, SafeErrorCodes
  <2> QED
    BY <2>3, <2>4, <2>5
<1>13. CASE ApplyFinish \/ ApplyRefinish
  <2>1. wpc \in {"finish", "refinish"} /\ run \in RunIds /\ code \in Codes
    BY <1>13 DEF ApplyFinish, ApplyRefinish, LocalsOK
  <2>2. ClaimedDigest \in Digests \cup {None}
    BY DEF ClaimedDigest, WorkerType, Claims
  <2>3. \E status \in RunStatus, outcome \in Outcomes :
            FinishRunOutcome(run, status, ClaimedDigest, outcome)
    <3>1. TerminalStatus(SafeErrorCode(code)) \in RunStatus
      BY TerminalStatusType
    <3>2. "SUCCEEDED" \in RunStatus /\ "OUTCOME_UNCERTAIN" \in RunStatus
      BY DEF RunStatus
    <3> QED
      BY <1>13, <3>1, <3>2 DEF ApplyFinish, ApplyRefinish
  <2>4. RunsType'
    BY <2>1, <2>2, <2>3, FinishRunType DEF BoundaryType
  <2>5. UNCHANGED <<now, lock, left, touched, inflight, applied, entries, granted, calls, queue,
                    req, run, claims, token, authorised>>
    BY <1>13 DEF ApplyFinish, ApplyRefinish
  <2>6. code' \in Codes /\ (wpc' = "reply" \/ (wpc = "finish" /\ wpc' = "refinish"))
    BY <1>13, <2>1 DEF ApplyFinish, ApplyRefinish, Codes, SafeErrorCodes
  <2>7. WorkerType'
    BY <2>5, <2>6 DEF WorkerType, ConfirmationType
  <2>8. ReqOK' /\ LocalsOK' /\ QueueOK'
    BY <2>1, <2>5, <2>6 DEF ReqOK, LocalsOK, QueueOK
  <2> QED
    BY <2>4, <2>5, <2>7, <2>8 DEF BoundaryType
<1>14. CASE Reply
  <2>1. wpc = "reply" /\ req \in Calls /\ calls[req] \in Request /\ code \in Codes
    BY <1>14 DEF Reply, ReqOK, LocalsOK
  <2>2. calls[req].op \in {"prepare", "apply"}
    BY <2>1, RequestFields
  <2>3. Answer(calls[req].op, code, token, run) \in Response
    BY <2>1, <2>2 DEF Answer, Response, WorkerType
  <2>4. WorkerType'
    BY <1>14, <2>1, <2>3 DEF Reply, ClearLocals, WorkerType, ConfirmationType
  <2>5. QueueOK'
    BY <1>14, <2>1 DEF Reply, ClearLocals, QueueOK, WorkerType
  <2>6. ReqOK' /\ LocalsOK'
    BY <1>14 DEF Reply, ReqOK, LocalsOK
  <2> QED
    BY <1>14, <2>4, <2>5, <2>6 DEF Reply, BoundaryType, RunsType, boundaryVars
<1>15. CASE ReplyFails \/ Crash
  <2>1. Die
    BY <1>15 DEF ReplyFails, Crash
  <2>2. UNCHANGED <<left, touched, inflight>> \/ (run \in RunIds /\ Drops(run))
    BY <2>1 DEF Die, Abandon, LocalsOK
  <2>3. BoundaryType'
    BY <2>1, <2>2, WriteType DEF Die, WritesType, BoundaryType, RunsType, Holders
  <2>4. \A c \in Calls : calls'[c] \in Request \cup Response \cup {Unsent}
    <3> SUFFICES ASSUME NEW c \in Calls PROVE calls'[c] \in Request \cup Response \cup {Unsent}
      OBVIOUS
    <3>1. calls[c] \in Request \cup Response \cup {Unsent}
      BY DEF WorkerType
    <3>2. CASE calls[c].state = "waiting"
      <4>1. calls[c].op \in {"prepare", "apply"}
        BY <3>2, CallStates, RequestFields
      <4>2. Answer(calls[c].op, "APPLY_UNAVAILABLE", None, None) \in Response
        BY <4>1 DEF Answer, Response, Codes
      <4> QED
        BY <2>1, <3>2, <4>2 DEF Die
    <3>3. CASE calls[c].state # "waiting"
      BY <2>1, <3>1, <3>3 DEF Die
    <3> QED
      BY <3>2, <3>3
  <2>5. WorkerType'
    BY <2>1, <2>4 DEF Die, Forget, ClearLocals, WorkerType, ConfirmationType
  <2>6. ReqOK' /\ LocalsOK' /\ QueueOK'
    BY <2>1 DEF Die, ReqOK, LocalsOK, QueueOK
  <2> QED
    BY <2>3, <2>5, <2>6
<1>16. CASE Restart
  <2>1. WorkerType' /\ ReqOK' /\ LocalsOK' /\ QueueOK'
    BY <1>16 DEF Restart, WorkerType, ConfirmationType, ReqOK, LocalsOK, QueueOK
  <2> QED
    BY <1>16, <2>1 DEF Restart, BoundaryType, RunsType, boundaryVars
<1>17. ASSUME NEW c \in Calls, Submit(c)
       PROVE  WorkerInv'
  <2>1. calls[c] = Unsent /\ calls[c] \notin Request
    BY <1>17, CallStates DEF Submit
  <2>2. PICK q \in Requests :
            \/ /\ calls' = [calls EXCEPT ![c] = Answer(q.op, "APPLY_UNAVAILABLE", None, None)]
               /\ wpc = "down" /\ UNCHANGED queue
            \/ calls' = [calls EXCEPT ![c] = q] /\ queue' = Append(queue, c)
    BY <1>17 DEF Submit
  <2>3. q \in Request
    BY <2>2 DEF Requests, Request, KnownTokens
  <2>4. Answer(q.op, "APPLY_UNAVAILABLE", None, None) \in Response
    BY <2>3, RequestFields DEF Answer, Response, Codes
  <2>5. calls \in [Calls -> Request \cup Response \cup {Unsent}] /\ queue \in Seq(Calls)
    BY DEF WorkerType
  <2>6. UNCHANGED <<boundaryVars, entries, granted, wpc, req, run, claims, code, token, authorised>>
    BY <1>17 DEF Submit
  <2>7. WorkerType'
    BY <2>2, <2>3, <2>4, <2>5, <2>6, SMTT(30) DEF WorkerType, ConfirmationType
  <2>8. ReqOK' /\ LocalsOK'
    BY <2>1, <2>2, <2>5, <2>6 DEF ReqOK, LocalsOK
  <2>9. QueueOK'
    <3>1. \A i \in 1 .. Len(queue) : queue[i] \in Calls /\ queue[i] # c
      BY <2>1, <2>5 DEF QueueOK
    <3>2. CASE UNCHANGED queue
      BY <2>2, <2>3, <2>5, <2>6, <3>1, <3>2 DEF QueueOK
    <3>3. CASE calls' = [calls EXCEPT ![c] = q] /\ queue' = Append(queue, c)
      <4>1. Len(queue') = Len(queue) + 1 /\ queue'[Len(queue) + 1] = c
            /\ \A i \in 1 .. Len(queue) : queue'[i] = queue[i]
        BY <2>5, <3>3
      <4>2. \A i \in 1 .. Len(queue') : i \in 1 .. Len(queue) \/ i = Len(queue) + 1
        BY <2>5, <4>1
      <4>3. Serving => req # c
        BY <2>1 DEF ReqOK
      <4> QED
        BY <2>3, <2>5, <2>6, <3>1, <3>3, <4>1, <4>2, <4>3 DEF QueueOK
    <3> QED
      BY <2>2, <3>2, <3>3
  <2> QED
    BY <2>6, <2>7, <2>8, <2>9 DEF BoundaryType, RunsType, boundaryVars
<1>18. ASSUME NEW c \in Calls, ClientGone(c)
       PROVE  WorkerInv'
  <2> DEFINE gone == [state |-> "gone", op |-> calls[c].op,
                      source |-> calls[c].source, arg |-> calls[c].arg]
  <2>1. calls[c] \in Request
    BY <1>18, CallStates DEF ClientGone
  <2>2. gone \in Request /\ gone.op = calls[c].op
    BY <2>1 DEF Request
  <2> HIDE DEF gone
  <2>3. calls' = [calls EXCEPT ![c] = gone]
        /\ UNCHANGED <<boundaryVars, entries, granted, queue, wpc, req, run, claims, code, token,
                       authorised>>
    BY <1>18 DEF ClientGone, gone
  <2>4. calls \in [Calls -> Request \cup Response \cup {Unsent}] /\ queue \in Seq(Calls)
    BY DEF WorkerType
  <2>5. WorkerType'
    BY <2>2, <2>3, <2>4 DEF WorkerType, ConfirmationType
  <2>6. ReqOK' /\ LocalsOK'
    BY <2>2, <2>3, <2>4 DEF ReqOK, LocalsOK
  <2>7. QueueOK'
    BY <2>2, <2>3, <2>4 DEF QueueOK
  <2> QED
    BY <2>3, <2>5, <2>6, <2>7 DEF BoundaryType, RunsType, boundaryVars
<1> QED
  BY <1>1, <1>2, <1>3, <1>4, <1>5, <1>6, <1>7, <1>8, <1>9, <1>10, <1>11, <1>12, <1>13, <1>14,
     <1>15, <1>16, <1>17, <1>18
     DEF WorkerNext, ServeStep, PrepareStep, ApplyStep, ChildStep, ClientStep

(* Type correctness of the manual path: the variables of the worker, of    *)
(* its clients and of the boundary keep their types in every behaviour,    *)
(* crashes and lost statements included.                                   *)
THEOREM WorkerTyping == WorkerSystemSpec => []WorkerTypeOK
<1>1. WorkerSystemInit => WorkerInv
  BY WorkerInitInv
<1>2. WorkerInv /\ [WorkerSystemNext]_workerSystemVars => WorkerInv'
  <2> SUFFICES ASSUME WorkerInv, [WorkerSystemNext]_workerSystemVars PROVE WorkerInv'
    OBVIOUS
  <2>1. CASE WorkerNext
    BY <2>1, WorkerStepInv
  <2>2. CASE EnvironmentStep /\ UNCHANGED workerVars
    <3>1. BoundaryType'
      BY <2>2, EnvironmentType DEF WorkerInv
    <3> QED
      BY <2>2, <3>1 DEF workerVars, WorkerInv, WorkerType, ConfirmationType, WorkerControl, ReqOK,
                        LocalsOK, QueueOK, Serving
  <2>3. CASE UNCHANGED workerSystemVars
    BY <2>3 DEF workerSystemVars, boundaryVars, workerVars, WorkerInv, BoundaryType, RunsType,
                WorkerType, ConfirmationType, WorkerControl, ReqOK, LocalsOK, QueueOK, Serving
  <2> QED
    BY <2>1, <2>2, <2>3 DEF WorkerSystemNext
<1>3. WorkerInv => WorkerTypeOK
  BY DEF WorkerInv, WorkerTypeOK
<1> QED
  BY <1>1, <1>2, <1>3, PTL DEF WorkerSystemSpec

-----------------------------------------------------------------------------
(***************************************************************************)
(* The scheduled path.                                                     *)
(***************************************************************************)

(* The scheduler has the lock exactly while a tick is under way: one step  *)
(* at a time.                                                              *)
LEMMA SchedulerLockStep ==
    ASSUME SchedulerHoldsLock, SchedulerNext
    PROVE  SchedulerHoldsLock' /\ (lock' # lock => {lock, lock'} = {"free", "scheduler"})
<1> USE DEF SchedulerHoldsLock, boundaryVars, schedulerVars
<1>1. CASE TickBegin
  BY <1>1 DEF TickBegin
<1>2. CASE TickLoad \/ TickFails \/ TickEvaluate \/ TickEnd
  BY <1>2 DEF TickLoad, TickFails, TickEvaluate, TickEnd
<1>3. CASE SourceStart
  BY <1>3 DEF SourceStart, Begin
<1>4. CASE SourceFails \/ SourcePlan \/ SourcePrecheck
  BY <1>4 DEF SourceFails, SourcePlan, SourcePrecheck, Raised
<1>5. CASE SourceWrite \/ SourceWriteFails \/ SourceDone \/ SourceFinish
  BY <1>5 DEF SourceWrite, SourceWriteFails, SourceDone, SourceFinish, Raised
<1>6. CASE TickExit \/ SchedulerCrash
  BY <1>6 DEF TickExit, SchedulerCrash, Gone
<1> QED
  BY <1>1, <1>2, <1>3, <1>4, <1>5, <1>6 DEF SchedulerNext, TickStep

-----------------------------------------------------------------------------
(***************************************************************************)
(* The control invariant: while a source executes there is a row to        *)
(* finalise, and an execution ends in success or in APPLY_FAILED.          *)
(***************************************************************************)
SchedulerRunPoints == ExecutePoints \cup {"finish"}

SchedulerControl ==
    /\ spc \in SchedulerRunPoints => src \in Sources /\ srun \in RunIds
    /\ spc = "finish" => scode \in {"SUCCEEDED", "APPLY_FAILED"}

SchedulerInv == BoundaryType /\ SchedulerType /\ SchedulerControl

(* The initial state is well formed.                                       *)
LEMMA SchedulerInitInv == SchedulerSystemInit => SchedulerInv
BY DEF SchedulerSystemInit, BoundaryInit, SchedulerInit, SchedulerInv, BoundaryType, RunsType,
       Holders, SchedulerType, SchedulerControl, NoSnapshot, NoResults, SchedulerRunPoints,
       SchedulerPoints, ExecutePoints

(* Every step of the scheduler keeps SchedulerInv.                         *)
LEMMA SchedulerStepInv ==
    ASSUME SchedulerInv, SchedulerNext
    PROVE  SchedulerInv'
<1> USE DEF SchedulerInv, SchedulerControl, SchedulerRunPoints, SchedulerPoints, ExecutePoints
<1>1. CASE TickBegin \/ TickFails \/ TickEnd
  BY <1>1 DEF TickBegin, TickFails, TickEnd, BoundaryType, RunsType, Holders, boundaryVars,
              SchedulerType
<1>2. CASE TickLoad
  <2>1. PICK rows \in [Sources -> Configs \cup {None}] : Cleared(rows, tick, {})
    BY <1>2 DEF TickLoad
  <2> QED
    BY <1>2, <2>1 DEF TickLoad, Cleared, NoResults, BoundaryType, RunsType, boundaryVars,
                      SchedulerType
<1>3. CASE TickEvaluate
  <2>1. PICK eligible \in SUBSET Sources : Cleared(snapshot, now, eligible)
    BY <1>3 DEF TickEvaluate
  <2> QED
    BY <1>3, <2>1 DEF TickEvaluate, Cleared, NoResults, BoundaryType, RunsType, boundaryVars,
                      SchedulerType
<1>4. CASE SourceStart
  <2>1. PICK s \in Pending, outcome \in Outcomes : Begin(s, outcome)
    BY <1>4 DEF SourceStart
  <2>2. s \in Sources
    BY <2>1 DEF Pending, SchedulerType
  <2>3. PICK r \in RunIds :
            /\ StartRunOutcome(r, s, "scheduled", outcome)
            /\ IF outcome = "ok"
               THEN src' = s /\ srun' = r /\ spc' = "plan" /\ UNCHANGED results
               ELSE Result(s, FALSE, "START_FAILED") /\ UNCHANGED <<spc, src, srun>>
    BY <2>1 DEF Begin
  <2>4. RunsType'
    BY <2>2, <2>3, StartRunType DEF BoundaryType, RunTrigger
  <2>5. results' \in [Sources -> SourceRunResult \cup {None}]
    <3>1. results \in [Sources -> SourceRunResult \cup {None}]
      BY DEF SchedulerType
    <3>2. [success |-> FALSE, history |-> "START_FAILED"] \in SourceRunResult
      BY DEF SourceRunResult
    <3>3. UNCHANGED results \/ Result(s, FALSE, "START_FAILED")
      BY <2>3
    <3> QED
      BY <2>2, <3>1, <3>2, <3>3 DEF Result
  <2>6. BoundaryType'
    BY <1>4, <2>4 DEF SourceStart, BoundaryType
  <2>7. UNCHANGED <<snapshot, tick, due, scode>> /\ spc = "next"
    BY <1>4 DEF SourceStart
  <2>8. \/ src' = s /\ srun' = r /\ spc' = "plan"
        \/ UNCHANGED <<spc, src, srun>>
    BY <2>3
  <2>9. SchedulerType'
    BY <2>2, <2>5, <2>7, <2>8 DEF SchedulerType
  <2>10. SchedulerControl'
    BY <2>2, <2>7, <2>8
  <2> QED
    BY <2>6, <2>9, <2>10
<1>5. CASE SourceFails \/ SourceDone
  BY <1>5 DEF SourceFails, SourceDone, Raised, BoundaryType, RunsType, boundaryVars, SchedulerType,
              SafeErrorCodes
<1>6. CASE SourcePlan
  BY <1>6 DEF SourcePlan, BoundaryType, RunsType, SchedulerType
<1>7. CASE SourcePrecheck
  BY <1>7, BoundaryAssumption DEF SourcePrecheck, BoundaryType, RunsType, SchedulerType
<1>8. CASE SourceWrite \/ SourceWriteFails
  <2>1. srun \in RunIds /\ (WriteLands(srun) \/ WriteErrs(srun)) /\ UNCHANGED <<runs, now, lock, applied>>
    BY <1>8 DEF SourceWrite, SourceWriteFails
  <2>2. BoundaryType'
    BY <2>1, WriteType DEF WritesType, BoundaryType, RunsType
  <2>3. SchedulerType' /\ SchedulerControl'
    BY <1>8 DEF SourceWrite, SourceWriteFails, Raised, schedulerVars, SchedulerType, SafeErrorCodes
  <2> QED
    BY <2>2, <2>3
<1>9. CASE SourceFinish
  <2>1. spc = "finish" /\ srun \in RunIds /\ src \in Sources
    BY <1>9 DEF SourceFinish
  <2> DEFINE success == scode = "SUCCEEDED"
             status == IF success THEN "SUCCEEDED" ELSE TerminalStatus(scode)
             digest == IF success THEN applied[srun] ELSE None
  <2>2. PICK outcome \in Outcomes :
            /\ FinishRunOutcome(srun, status, digest, outcome)
            /\ Result(src, success, IF outcome = "ok" THEN "RECORDED" ELSE "FINALIZE_FAILED")
    BY <1>9 DEF SourceFinish
  <2>3. status \in RunStatus
    BY TerminalStatusType DEF RunStatus
  <2>4. digest \in Digests \cup {None}
    BY <2>1 DEF BoundaryType
  <2>5. RunsType'
    <3> HIDE DEF status, digest
    <3> QED
      BY <2>1, <2>2, <2>3, <2>4, FinishRunType DEF BoundaryType
  <2>6. results' \in [Sources -> SourceRunResult \cup {None}]
    BY <2>1, <2>2 DEF Result, SourceRunResult, SchedulerType
  <2> QED
    BY <1>9, <2>5, <2>6 DEF SourceFinish, BoundaryType, SchedulerType
<1>10. CASE TickExit \/ SchedulerCrash
  <2>1. UNCHANGED <<left, touched, inflight>> \/ (srun \in RunIds /\ Drops(srun))
    BY <1>10 DEF TickExit, SchedulerCrash, Abandon
  <2>2. UNCHANGED <<runs, now, applied>> /\ Gone
    BY <1>10 DEF TickExit, SchedulerCrash
  <2>3. BoundaryType'
    BY <2>1, <2>2, WriteType DEF Gone, WritesType, BoundaryType, RunsType, Holders
  <2> QED
    BY <2>2, <2>3 DEF Gone, Cleared, NoSnapshot, NoResults, SchedulerType
<1> QED
  BY <1>1, <1>2, <1>3, <1>4, <1>5, <1>6, <1>7, <1>8, <1>9, <1>10 DEF SchedulerNext, TickStep

(* Type correctness of the scheduled path: the variables of the tick and   *)
(* of the boundary keep their types in every behaviour, ticks that fail or *)
(* die anywhere included.                                                  *)
THEOREM SchedulerTyping == SchedulerSystemSpec => []SchedulerTypeOK
<1>1. SchedulerSystemInit => SchedulerInv
  BY SchedulerInitInv
<1>2. SchedulerInv /\ [SchedulerSystemNext]_schedulerSystemVars => SchedulerInv'
  <2> SUFFICES ASSUME SchedulerInv, [SchedulerSystemNext]_schedulerSystemVars PROVE SchedulerInv'
    OBVIOUS
  <2>1. CASE SchedulerNext
    BY <2>1, SchedulerStepInv
  <2>2. CASE EnvironmentStep /\ UNCHANGED schedulerVars
    <3>1. BoundaryType'
      BY <2>2, EnvironmentType DEF SchedulerInv
    <3> QED
      BY <2>2, <3>1 DEF schedulerVars, SchedulerInv, SchedulerType, SchedulerControl
  <2>3. CASE UNCHANGED schedulerSystemVars
    BY <2>3 DEF schedulerSystemVars, boundaryVars, schedulerVars, SchedulerInv, BoundaryType,
                RunsType, SchedulerType, SchedulerControl
  <2> QED
    BY <2>1, <2>2, <2>3 DEF SchedulerSystemNext
<1>3. SchedulerInv => SchedulerTypeOK
  BY DEF SchedulerInv, SchedulerTypeOK
<1> QED
  BY <1>1, <1>2, <1>3, PTL DEF SchedulerSystemSpec
=============================================================================
