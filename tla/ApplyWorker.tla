----------------------------- MODULE ApplyWorker ----------------------------
(***************************************************************************)
(* The manual synchronization path: API clients (api/apply_client.py), the *)
(* single-threaded Unix-socket worker (apply_worker.py: serve, prepare,    *)
(* apply) and the unprivileged child it runs for each plan and apply       *)
(* (execute_child).                                                        *)
(*                                                                         *)
(* The worker takes one request at a time.  wpc is the point its handler   *)
(* has reached; every point is one place where it calls the registry, the  *)
(* run history, the lock file, its child or the client's socket, and where *)
(* other processes run meanwhile.  The registry and the plan are read      *)
(* afresh at each of their points and may have changed in any way since.   *)
(*                                                                         *)
(* Left out: the health operation, requests that _receive or _authorize    *)
(* reject (neither changes state), and the wording of errors.              *)
(***************************************************************************)
EXTENDS Confirmation, Sequences

CONSTANTS Calls,     \* requests of the API, each sent once
          Backlog    \* listen(8)

ASSUME WorkerAssumption == Backlog \in Nat \ {0} /\ None \notin Calls

VARIABLES calls,       \* what each API client sent and was told
          queue,       \* connections waiting to be accepted
          wpc, req,    \* point of the handler and the call it serves
          run, claims, \* local variables of prepare and apply
          code,        \* the response under construction
          token,       \* the token a prepare is about to return
          authorised   \* history: the token run r consumed

workerVars == <<entries, granted, calls, queue, wpc, req, run, claims, code,
                token, authorised>>
workerSystemVars == <<boundaryVars, workerVars>>

Unsent == [state |-> "unsent"]

Codes == SafeErrorCodes \cup {"SUCCEEDED", "TOKEN", "UNLISTED",
                              "WORKER_INTERNAL_ERROR", "APPLY_UNAVAILABLE"}

Request == [state : {"waiting", "gone"}, op : {"prepare"}, source : Sources, arg : Digests]
           \cup [state : {"waiting", "gone"}, op : {"apply"}, source : Sources, arg : Tokens]

Response == [state : {"answered"}, op : {"prepare", "apply"}, reply : Codes,
             token : Tokens \cup {None}, run : RunIds \cup {None}]

ChildPoints == {"replan", "precheck", "write"}

LockedPoints == ChildPoints \cup {"reload", "unlock"}

RunPoints == LockedPoints \cup {"consume", "open", "lock", "finish", "refinish"}

WorkerPoints == RunPoints \cup {"down", "idle", "prepSource", "prepPlan",
                                "source", "start", "reply"}

WorkerType ==
    /\ ConfirmationType
    /\ calls \in [Calls -> Request \cup Response \cup {Unsent}]
    /\ queue \in Seq(Calls)
    /\ wpc \in WorkerPoints
    /\ req \in Calls \cup {None}
    /\ run \in RunIds \cup {None}
    /\ claims \in Claims \cup {None}
    /\ code \in Codes \cup {None}
    /\ token \in Tokens \cup {None}
    /\ authorised \in [RunIds -> Tokens \cup {None}]

WorkerInit ==
    /\ ConfirmationInit
    /\ calls = [c \in Calls |-> Unsent]
    /\ queue = <<>>
    /\ wpc = "idle"
    /\ req = None
    /\ run = None
    /\ claims = None
    /\ code = None
    /\ token = None
    /\ authorised = [r \in RunIds |-> None]

-----------------------------------------------------------------------------
(***************************************************************************)
(* API clients.  A client knows the tokens that answered prepares gave.    *)
(***************************************************************************)
KnownTokens == {t \in Tokens : \E c \in Calls : calls[c].state = "answered"
                                              /\ calls[c].token = t}

Requests ==
    {[state |-> "waiting", op |-> "prepare", source |-> s, arg |-> d] :
        s \in Sources, d \in Digests} \cup
    {[state |-> "waiting", op |-> "apply", source |-> s, arg |-> t] :
        s \in Sources, t \in KnownTokens}

Answer(op, reply, t, r) ==
    [state |-> "answered", op |-> op, reply |-> reply, token |-> t, run |-> r]

(* connect and send; without a listener the connection is refused.         *)
Submit(c) ==
    /\ calls[c] = Unsent
    /\ \E q \in Requests :
         IF wpc = "down"
         THEN /\ calls' = [calls EXCEPT ![c] = Answer(q.op, "APPLY_UNAVAILABLE", None, None)]
              /\ UNCHANGED queue
         ELSE /\ Len(queue) < Backlog
              /\ calls' = [calls EXCEPT ![c] = q]
              /\ queue' = Append(queue, c)
    /\ UNCHANGED <<boundaryVars, entries, granted, wpc, req, run, claims, code,
                   token, authorised>>

(* The client gives up (its socket timeout, or the API process stops); the *)
(* request it sent stays where it is.                                      *)
ClientGone(c) ==
    /\ calls[c].state = "waiting"
    /\ calls' = [calls EXCEPT ![c] = [state |-> "gone", op |-> calls[c].op,
                                      source |-> calls[c].source, arg |-> calls[c].arg]]
    /\ UNCHANGED <<boundaryVars, entries, granted, queue, wpc, req, run, claims,
                   code, token, authorised>>

-----------------------------------------------------------------------------
(***************************************************************************)
(* The worker.                                                             *)
(***************************************************************************)
Goto(point) == wpc' = point

Respond(result) == wpc' = "reply" /\ code' = result

(* Fault: an exception skips os.close(lock_fd).                            *)
LeaveWithoutClose(outcome) == wpc' = "finish" /\ code' = outcome

(* Leave the locked region of apply with an outcome: close(lock_fd) next.  *)
Leave(outcome) == wpc' = "unlock" /\ code' = outcome

Accept ==
    /\ wpc = "idle"
    /\ queue # <<>>
    /\ req' = Head(queue)
    /\ queue' = Tail(queue)
    /\ Goto(IF calls[Head(queue)].op = "prepare" THEN "prepSource" ELSE "source")
    /\ UNCHANGED <<boundaryVars, entries, granted, calls, run, claims, code, token, authorised>>

(* _source: the row's id, or None when it is missing, disabled, unreadable. *)
Lookup == Ids \cup {None}

PrepareSource ==
    /\ wpc = "prepSource"
    /\ \E id \in Lookup :
         IF id = None
         THEN Respond("UNLISTED") /\ UNCHANGED claims
         ELSE /\ claims' = [source |-> calls[req].source, id |-> id,
                            digest |-> calls[req].arg]
              /\ Goto("prepPlan")
              /\ UNCHANGED code
    /\ UNCHANGED <<boundaryVars, entries, granted, calls, queue, req, run, token, authorised>>

(* Fault: a lost child counts as one that wrote nothing.                   *)
LostChildIgnoresOperation(operation) == IF operation = "plan" THEN "APPLY_FAILED"
                                                              ELSE "FAILED_BEFORE_WRITE"

(* _child: what a child that is killed by CHILD_TIMEOUT, that dies or that *)
(* answers nonsense stands for.                                            *)
LostChild(operation) == IF operation = "plan" THEN "FAILED_BEFORE_WRITE"
                                              ELSE "OUTCOME_UNCERTAIN"

(* A secret cannot be read (UNLISTED), the child cannot be started, raises, *)
(* is killed or answers nonsense.                                          *)
PrepareFails ==
    /\ wpc = "prepPlan"
    /\ \E result \in {"UNLISTED", "WORKER_INTERNAL_ERROR", "APPLY_FAILED",
                       LostChild("plan")} : Respond(result)
    /\ UNCHANGED <<boundaryVars, entries, granted, calls, queue, req, run, claims,
                   token, authorised>>

PreparePlan ==
    /\ wpc = "prepPlan"
    /\ \E d \in Digests :
         \/ /\ d \in Blocked
            /\ Respond("PLAN_BLOCKED")
            /\ UNCHANGED <<entries, granted, token>>
         \/ /\ d \notin Blocked /\ d # claims.digest
            /\ Respond("PLAN_STALE")
            /\ UNCHANGED <<entries, granted, token>>
         \/ /\ d \notin Blocked /\ d = claims.digest
            /\ IssueRefused
            /\ Respond("WORKER_INTERNAL_ERROR")
            /\ UNCHANGED token
         \/ /\ d \notin Blocked /\ d = claims.digest
            /\ \E t \in Tokens : Issue(t, claims) /\ token' = t
            /\ Respond("TOKEN")
    /\ UNCHANGED <<boundaryVars, calls, queue, req, run, claims, authorised>>

ApplySource ==
    /\ wpc = "source"
    /\ \E id \in Lookup : IF id = None THEN Respond("UNLISTED")
                                       ELSE Goto("start") /\ UNCHANGED code
    /\ UNCHANGED <<boundaryVars, entries, granted, calls, queue, req, run, claims,
                   token, authorised>>

(* The row is inserted before the confirmation is looked at.               *)
ApplyStart ==
    /\ wpc = "start"
    /\ \E r \in RunIds, outcome \in Outcomes :
         /\ runs[r] = NoRow
         /\ StartRunOutcome(r, calls[req].source, "manual", outcome)
         /\ IF outcome = "ok"
            THEN run' = r /\ Goto("consume") /\ UNCHANGED code
            ELSE Respond("WORKER_INTERNAL_ERROR") /\ UNCHANGED run
    /\ UNCHANGED <<now, lock, left, touched, inflight, applied>>
    /\ UNCHANGED <<entries, granted, calls, queue, req, claims, token, authorised>>

ApplyConsume ==
    /\ wpc = "consume"
    /\ LET t == calls[req].arg
           result == ConsumeCode(t, calls[req].source) IN
         /\ Consume(t)
         /\ IF result = "OK"
            THEN /\ claims' = ClaimsOf(t)
                 /\ authorised' = [authorised EXCEPT ![run] = t]
                 /\ Goto("open")
                 /\ UNCHANGED code
            ELSE /\ wpc' = "finish" /\ code' = result
                 /\ UNCHANGED <<claims, authorised>>
    /\ UNCHANGED <<boundaryVars, calls, queue, req, run, token>>

(* os.open of the lock file.                                               *)
ApplyOpen ==
    /\ wpc = "open"
    /\ \/ Goto("lock") /\ UNCHANGED code
       \/ wpc' = "finish" /\ code' = "FAILED_BEFORE_WRITE"
    /\ UNCHANGED <<boundaryVars, entries, granted, calls, queue, req, run, claims,
                   token, authorised>>

(* Fault: flock(LOCK_EX) waits for the holder.                             *)
FlockBlocking == lock = "free" /\ lock' = "worker" /\ Goto("reload") /\ UNCHANGED code

(* Fault: the failure of flock is ignored.                                 *)
FlockIgnored == lock' = "worker" /\ Goto("reload") /\ UNCHANGED code

(* flock(LOCK_EX | LOCK_NB) never waits.                                   *)
FlockNonBlocking ==
    IF lock = "free"
    THEN lock' = "worker" /\ Goto("reload") /\ UNCHANGED code
    ELSE wpc' = "finish" /\ code' = "APPLY_LOCKED" /\ UNCHANGED lock

ApplyLock ==
    /\ wpc = "lock"
    /\ FlockNonBlocking
    /\ UNCHANGED <<runs, now, left, touched, inflight, applied>>
    /\ UNCHANGED <<entries, granted, calls, queue, req, run, claims, token, authorised>>

ApplyReload ==
    /\ wpc = "reload"
    /\ \E id \in Lookup :
         IF id = None THEN Leave("UNLISTED")
         ELSE IF id # claims.id THEN Leave("PLAN_STALE")
         ELSE Goto("replan") /\ UNCHANGED code
    /\ UNCHANGED <<boundaryVars, entries, granted, calls, queue, req, run, claims,
                   token, authorised>>

(***************************************************************************)
(* The child of an apply: discover and plan again, compare, prove every    *)
(* precheck, then write.                                                   *)
(***************************************************************************)
ChildDiscoverFails ==
    /\ wpc = "replan"
    /\ Leave("APPLY_FAILED") \/ Leave("UNLISTED")
    /\ UNCHANGED <<boundaryVars, entries, granted, calls, queue, req, run, claims,
                   token, authorised>>

(* Fault: the digest is not compared again under the lock.                 *)
StillAllowed(d) == d \notin Blocked

(* plan.apply_allowed and plan.digest == expected_digest                   *)
StillReviewed(d) == d \notin Blocked /\ d = claims.digest

ChildReplan ==
    /\ wpc = "replan"
    /\ \E d \in Digests :
         IF StillReviewed(d)
         THEN /\ applied' = [applied EXCEPT ![run] = d]
              /\ Goto("precheck")
              /\ UNCHANGED code
         ELSE Leave("PLAN_STALE") /\ UNCHANGED applied
    /\ UNCHANGED <<runs, now, lock, left, touched, inflight>>
    /\ UNCHANGED <<entries, granted, calls, queue, req, run, claims, token, authorised>>

ChildPrecheckFails ==
    /\ wpc = "precheck"
    /\ Leave("FAILED_BEFORE_WRITE")
    /\ UNCHANGED <<boundaryVars, entries, granted, calls, queue, req, run, claims,
                   token, authorised>>

ChildPrecheck ==
    /\ wpc = "precheck"
    /\ \E n \in 0 .. MaxWrites : left' = [left EXCEPT ![run] = n]
    /\ Goto("write")
    /\ UNCHANGED <<runs, now, lock, touched, inflight, applied>>
    /\ UNCHANGED <<entries, granted, calls, queue, req, run, claims, code, token, authorised>>

ChildWrite ==
    /\ wpc = "write"
    /\ WriteLands(run)
    /\ UNCHANGED <<runs, now, lock, applied>>
    /\ UNCHANGED workerVars

ChildWriteFails ==
    /\ wpc = "write"
    /\ WriteErrs(run)
    /\ Leave("OUTCOME_UNCERTAIN")
    /\ UNCHANGED <<runs, now, lock, applied>>
    /\ UNCHANGED <<entries, granted, calls, queue, req, run, claims, token, authorised>>

ChildDone ==
    /\ wpc = "write"
    /\ left[run] = 0
    /\ Leave(IF applied[run] = claims.digest THEN "SUCCEEDED" ELSE "OUTCOME_UNCERTAIN")
    /\ UNCHANGED <<boundaryVars, entries, granted, calls, queue, req, run, claims,
                   token, authorised>>

ChildLost ==
    /\ wpc \in ChildPoints
    /\ Abandon(run, wpc = "write")
    /\ Leave(LostChild("apply"))
    /\ UNCHANGED <<runs, now, lock, applied>>
    /\ UNCHANGED <<entries, granted, calls, queue, req, run, claims, token, authorised>>

(* finally: os.close(lock_fd).  The history is finalised after the lock is *)
(* released.                                                               *)
ApplyUnlock ==
    /\ wpc = "unlock"
    /\ lock' = "free"
    /\ Goto("finish")
    /\ UNCHANGED <<runs, now, left, touched, inflight, applied>>
    /\ UNCHANGED <<entries, granted, calls, queue, req, run, claims, code, token, authorised>>

ClaimedDigest == IF claims = None THEN None ELSE claims.digest

ApplyFinish ==
    /\ wpc = "finish"
    /\ \E outcome \in Outcomes :
         /\ FinishRunOutcome(run, IF code = "SUCCEEDED" THEN code
                                  ELSE TerminalStatus(SafeErrorCode(code)),
                             ClaimedDigest, outcome)
         /\ IF outcome = "ok" THEN Respond(code)
            ELSE IF code = "SUCCEEDED"
                 THEN wpc' = "refinish" /\ code' = "OUTCOME_UNCERTAIN"
            ELSE Respond("WORKER_INTERNAL_ERROR")
    /\ UNCHANGED <<now, lock, left, touched, inflight, applied>>
    /\ UNCHANGED <<entries, granted, calls, queue, req, run, claims, token, authorised>>

(* finish_run(SUCCEEDED) raised: the generic handler finalises the row as  *)
(* uncertain, and raises in turn when the first UPDATE had committed.      *)
ApplyRefinish ==
    /\ wpc = "refinish"
    /\ \E outcome \in Outcomes :
         /\ FinishRunOutcome(run, "OUTCOME_UNCERTAIN", ClaimedDigest, outcome)
         /\ Respond(IF outcome = "ok" /\ Finishable(run) THEN "OUTCOME_UNCERTAIN"
                                                         ELSE "WORKER_INTERNAL_ERROR")
    /\ UNCHANGED <<now, lock, left, touched, inflight, applied>>
    /\ UNCHANGED <<entries, granted, calls, queue, req, run, claims, token, authorised>>

-----------------------------------------------------------------------------
(***************************************************************************)
(* The end of a request, and of the worker.                                *)
(***************************************************************************)
ClearLocals == req' = None /\ run' = None /\ claims' = None /\ code' = None /\ token' = None

Reply ==
    /\ wpc = "reply"
    /\ calls[req].state = "waiting"
    /\ calls' = [calls EXCEPT ![req] =
                    Answer(calls[req].op, code, token, run)]
    /\ Goto("idle")
    /\ ClearLocals
    /\ UNCHANGED <<boundaryVars, entries, granted, queue, authorised>>

(* The process ends: its memory and its lock go, its child is killed, and  *)
(* every connection it had is closed under its client.                     *)
Die ==
    /\ Forget
    /\ lock' = IF wpc \in LockedPoints THEN "free" ELSE lock
    /\ Abandon(run, wpc = "write")
    /\ calls' = [c \in Calls |-> IF calls[c].state = "waiting"
                                 THEN Answer(calls[c].op, "APPLY_UNAVAILABLE", None, None)
                                 ELSE calls[c]]
    /\ queue' = <<>>
    /\ Goto("down")
    /\ ClearLocals
    /\ UNCHANGED <<runs, now, applied, authorised>>

(* sendall to a client that is gone raises outside serve's try.            *)
ReplyFails ==
    /\ wpc = "reply"
    /\ calls[req].state = "gone"
    /\ Die

Crash == wpc # "down" /\ Die

(* restart: unless-stopped                                                 *)
Restart ==
    /\ wpc = "down"
    /\ Goto("idle")
    /\ UNCHANGED <<boundaryVars, entries, granted, calls, queue, req, run, claims,
                   code, token, authorised>>

PrepareStep == PrepareSource \/ PrepareFails \/ PreparePlan

ChildStep == \/ ChildDiscoverFails \/ ChildReplan \/ ChildPrecheckFails \/ ChildPrecheck
             \/ ChildWrite \/ ChildWriteFails \/ ChildDone \/ ChildLost

ApplyStep == \/ ApplySource \/ ApplyStart \/ ApplyConsume \/ ApplyOpen \/ ApplyLock
             \/ ApplyReload \/ ChildStep \/ ApplyUnlock \/ ApplyFinish \/ ApplyRefinish

ServeStep == Accept \/ PrepareStep \/ ApplyStep \/ Reply \/ ReplyFails \/ Restart

ClientStep == \E c \in Calls : Submit(c) \/ ClientGone(c)

WorkerNext == ServeStep \/ Crash \/ ClientStep

-----------------------------------------------------------------------------
(***************************************************************************)
(* The worker on its own, with the rest of the host.  The system with the  *)
(* scheduler is module SyncSystem.                                         *)
(***************************************************************************)
WorkerSystemInit == BoundaryInit /\ WorkerInit

WorkerSystemNext == WorkerNext \/ (EnvironmentStep /\ UNCHANGED workerVars)

WorkerSystemSpec == WorkerSystemInit /\ [][WorkerSystemNext]_workerSystemVars

(***************************************************************************)
(* The worker process keeps running, its child runs or is killed by        *)
(* CHILD_TIMEOUT, and Docker restarts a worker that died.  Nothing is      *)
(* assumed of clients, crashes, the clock or the other lock holder.        *)
(***************************************************************************)
WorkerFairSpec == WorkerSystemSpec /\ WF_workerSystemVars(ServeStep)

-----------------------------------------------------------------------------
(***************************************************************************)
(* Properties.                                                             *)
(***************************************************************************)

(* Type invariant of the worker and of what it shares.                     *)
WorkerTypeOK == BoundaryType /\ WorkerType

(* A confirmation authorises at most one run, however often, by whomever   *)
(* and in whatever order its token is presented, restarts included         *)
(* (ConfirmationStore.consume, apply).                                     *)
SingleUse ==
    \A r1, r2 \in RunIds :
        authorised[r1] = authorised[r2] /\ authorised[r1] # None => r1 = r2

(* A manual run that changed NetBox, or still may, applied exactly the     *)
(* plan that was reviewed: its own source, the digest the confirmation was *)
(* issued for, no BLOCKED item, a confirmation that had not expired when   *)
(* the run began, and a history row that names that same plan.             *)
WritesAreReviewed ==
    \A r \in touched \cup inflight :
        runs[r].trigger = "manual" =>
            \E t \in Tokens :
                /\ authorised[r] = t
                /\ granted[t] # None
                /\ granted[t].source = runs[r].source
                /\ granted[t].digest = applied[r]
                /\ granted[t].expires > runs[r].started
                /\ applied[r] \notin Blocked
                /\ runs[r].digest \in {None, applied[r]}

(* The codes an operator is shown as "nothing was changed"                 *)
(* (frontend/src/ui/syncOutcome.ts: STALE, BLOCKED, LOCKED and             *)
(* FAILED_BEFORE_WRITE).                                                   *)
NoChangeCodes == {"PLAN_STALE", "PLAN_BLOCKED", "APPLY_LOCKED", "FAILED_BEFORE_WRITE",
                  "CONFIRMATION_EXPIRED", "CONFIRMATION_INVALID",
                  "CONFIRMATION_SOURCE_MISMATCH"}

(* What an apply's client was told stays true: success means that every    *)
(* mutation landed and that the row says so; a no-change answer means that *)
(* no mutation of its run landed or ever will; and a definite answer is    *)
(* the one the history records (apply, serve, terminal_status).            *)
AnswersAreHonest ==
    \A c \in Calls :
        LET a == calls[c] IN
        a.state = "answered" /\ a.op = "apply" /\ a.run # None =>
            /\ a.reply = "SUCCEEDED" => left[a.run] = 0 /\ runs[a.run].status = "SUCCEEDED"
            /\ a.reply \in NoChangeCodes => a.run \notin touched \cup inflight
            /\ a.reply \in SafeErrorCodes => runs[a.run].status = TerminalStatus(a.reply)

(* The lock is the worker's exactly while its handler is between flock and *)
(* close, whichever way it leaves (apply's finally, the worker's death).   *)
WorkerHoldsLock == wpc \in LockedPoints <=> lock = "worker"

(* Every request the worker accepted or has queued is answered, unless its *)
(* client leaves first, whatever the child, the history and the lock do.   *)
CallsAnswered ==
    \A c \in Calls : calls[c].state = "waiting" ~> calls[c].state # "waiting"

(* The worker never keeps the apply lock for ever.                         *)
LockReleased == lock = "worker" ~> lock # "worker"
=============================================================================
