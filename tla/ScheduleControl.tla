--------------------------- MODULE ScheduleControl ---------------------------
(***************************************************************************)
(* The row of one source in the registry and the two ways to change it:    *)
(* the schedule worker's conditional update of the schedule columns, asked *)
(* for by operators through the API (application/schedules.py,             *)
(* api/schedule_client.py, schedule_worker.py), and the registry's         *)
(* optimistic update of the whole row, used by the legacy bootstrap        *)
(* (source_registry.py, source_bootstrap.py).                              *)
(*                                                                         *)
(* A schedule is the pair of the columns sync_enabled and                  *)
(* sync_interval_seconds; config stands for all the other mutable columns  *)
(* and version for updated_at.  The row exists: no code deletes one, and a *)
(* bootstrap that finds none inserts it and changes nothing else.          *)
(***************************************************************************)
EXTENDS Naturals, Sequences, FiniteSets

CONSTANTS Operators,     \* browsers that edit the schedule
          Bootstraps,    \* runs of the legacy bootstrap
          Candidate,     \* the columns each bootstrap wants
          Schedules,     \* schedules an operator may ask for
          Allowed,       \* those whose interval is accepted
          FirstRow,      \* the row at the beginning
          MaxRequests    \* bound on requests of one operator

Columns == {"sync", "interval", "config"}

ASSUME ScheduleAssumption == Allowed \subseteq Schedules /\ MaxRequests \in Nat

ASSUME RowAssumption == DOMAIN FirstRow = Columns \cup {"version"} /\ FirstRow.version \in Nat

VARIABLES row,
          view,          \* the schedule an operator looks at
          asked,         \* requests of an operator so far
          told,          \* what the current request was answered
          queue,         \* requests the worker has not answered
          worker,        \* up or down
          boot,          \* what a bootstrap has read and where it stands
          applied        \* requests that changed the row

vars == <<row, view, asked, told, queue, worker, boot, applied>>

Unread == [sync |-> "unread"]

Schedule(r) == [sync |-> r.sync, interval |-> r.interval]

Init ==
    /\ row = FirstRow
    /\ view = [o \in Operators |-> Unread] /\ asked = [o \in Operators |-> 0]
    /\ told = [o \in Operators |-> "nothing"]
    /\ queue = <<>> /\ worker = "up" /\ applied = {}
    /\ boot = [b \in Bootstraps |-> [at |-> "start", changes |-> {}, read |-> FirstRow]]

Request(o) == <<o, asked[o]>>

-----------------------------------------------------------------------------
(* ScheduleService.get.                                                    *)
get(o) ==
    /\ told[o] # "waiting" /\ asked[o] < MaxRequests
    /\ view' = [view EXCEPT ![o] = Schedule(row)]
    /\ UNCHANGED <<row, asked, told, queue, worker, boot, applied>>

(* Fault: connections are taken newest first.                              *)
ListenNewestFirst(q, m) == <<m>> \o q

(* server.listen and server.accept: one connection after the other, in the *)
(* order they were made.                                                   *)
Listen(q, m) == Append(q, m)

(* ScheduleService.update: the context is read first and may fail; the     *)
(* request carries the schedule the operator has seen.                     *)
update(o, desired) ==
    /\ told[o] # "waiting" /\ asked[o] < MaxRequests /\ view[o] # Unread
    /\ asked' = [asked EXCEPT ![o] = @ + 1]
    /\ \/ told' = [told EXCEPT ![o] = "refused"] /\ queue' = queue
       \/ /\ worker = "down"
          /\ told' = [told EXCEPT ![o] = "unavailable"] /\ queue' = queue
       \/ /\ worker = "up"
          /\ told' = [told EXCEPT ![o] = "waiting"]
          /\ queue' = Listen(queue, [from |-> Request(o)', operator |-> o, desired |-> desired,
                                     expected |-> view[o]])
    /\ UNCHANGED <<row, view, worker, boot, applied>>

(* The client's timeout.                                                   *)
give_up(o) ==
    /\ told[o] = "waiting"
    /\ told' = [told EXCEPT ![o] = "unavailable"]
    /\ UNCHANGED <<row, view, asked, queue, worker, boot, applied>>

Awaits(m) == told[m.operator] = "waiting" /\ Request(m.operator) = m.from

(* serve: an answer that cannot be sent raises outside the handler and     *)
(* ends the worker with its queue.                                         *)
Answer(m, answer) ==
    IF Awaits(m)
    THEN /\ told' = [told EXCEPT ![m.operator] = answer]
         /\ queue' = Tail(queue) /\ worker' = worker
    ELSE told' = told /\ queue' = <<>> /\ worker' = "down"

Matches(m) == Schedule(row) = m.expected

(* Fault: a database error is reported as a conflict.                      *)
code_of_failure == "conflict"

CodeOfFailure == "failed"

Apply(m) ==
    /\ row' = [row EXCEPT !.sync = m.desired.sync, !.interval = m.desired.interval]
    /\ applied' = applied \cup {m.from}

(* ScheduleStore.update: one conditional statement, which may fail with    *)
(* its commit done or not; updated_at is left alone.                       *)
ScheduleStore_update ==
    LET m == Head(queue)
    IN  /\ worker = "up" /\ queue # <<>>
        /\ \/ m.desired \notin Allowed /\ UNCHANGED <<row, applied>> /\ Answer(m, "invalid")
           \/ m.desired \in Allowed /\ Matches(m) /\ Apply(m) /\ Answer(m, "saved")
           \/ /\ m.desired \in Allowed /\ ~Matches(m)
              /\ UNCHANGED <<row, applied>> /\ Answer(m, "conflict")
           \/ /\ m.desired \in Allowed
              /\ UNCHANGED <<row, applied>> \/ (Matches(m) /\ Apply(m))
              /\ Answer(m, CodeOfFailure)
        /\ UNCHANGED <<view, asked, boot>>

worker_restart ==
    /\ worker = "down" /\ worker' = "up"
    /\ UNCHANGED <<row, view, asked, told, queue, boot, applied>>

-----------------------------------------------------------------------------
(* bootstrap_legacy_source: the changes come from one read.                *)
Differs(r, b) == {f \in Columns : r[f] # Candidate[b][f]}

bootstrap_legacy_source(b) ==
    /\ boot[b].at = "start"
    /\ boot' = [boot EXCEPT ![b].at = IF Differs(row, b) = {} THEN "done" ELSE "changes",
                            ![b].changes = Differs(row, b)]
    /\ UNCHANGED <<row, view, asked, told, queue, worker, applied>>

(* update_source reads the row again and puts the changes into it.         *)
update_source_read(b) ==
    /\ boot[b].at = "changes"
    /\ boot' = [boot EXCEPT ![b].at = IF Differs(row, b) \cap boot[b].changes = {} THEN "done"
                                      ELSE "write",
                            ![b].read = row]
    /\ UNCHANGED <<row, view, asked, told, queue, worker, applied>>

Desired(b) ==
    [f \in Columns |-> IF f \in boot[b].changes THEN Candidate[b][f] ELSE boot[b].read[f]]

(* Fault: WHERE names the row only.                                        *)
unconditional(b) == TRUE

Unchanged(b) == row.version = boot[b].read.version

(* The UPDATE under updated_at; without a match the caller is told.        *)
update_source_write(b) ==
    /\ boot[b].at = "write"
    /\ row' = IF Unchanged(b)
              THEN [f \in DOMAIN row |-> IF f = "version" THEN row.version + 1 ELSE Desired(b)[f]]
              ELSE row
    /\ boot' = [boot EXCEPT ![b].at = IF Unchanged(b) THEN "done" ELSE "concurrent"]
    /\ UNCHANGED <<view, asked, told, queue, worker, applied>>

Next ==
    \/ \E o \in Operators : \/ get(o) \/ give_up(o)
                            \/ \E desired \in Schedules : update(o, desired)
    \/ ScheduleStore_update \/ worker_restart
    \/ \E b \in Bootstraps :
           bootstrap_legacy_source(b) \/ update_source_read(b) \/ update_source_write(b)

Spec == Init /\ [][Next]_vars

-----------------------------------------------------------------------------
(* Properties.                                                             *)

(* Answers are true for ever: a request that was answered saved has been   *)
(* applied, and one that was answered conflict or invalid never is, though *)
(* requests outlive their clients in the queue and the worker dies with    *)
(* it.                                                                     *)
ScheduleAnswersHold ==
    \A o \in Operators :
        /\ told[o] = "saved" => Request(o) \in applied
        /\ told[o] \in {"conflict", "invalid", "refused"} => Request(o) \notin applied

(* The edits of one operator take effect in the order they were made, and  *)
(* none after the worker has answered a later one: an edit whose client    *)
(* gave up stays in the backlog of the socket while its operator edits     *)
(* again, and is out of the way before the new edit is answered.           *)
EditsInOrder ==
    [][\A o \in Operators : \A n \in 1 .. asked[o] :
           <<o, n>> \in applied' \ applied =>
               /\ \A k \in n + 1 .. asked[o] : <<o, k>> \notin applied
               /\ told[o] \notin {"saved", "conflict", "invalid", "failed"}]_vars

Overwrites(b, f) == boot[b].at = "write" /\ boot'[b].at = "done" /\ row[f] # boot[b].read[f]

(* Two registry updates of a row never lose each other's columns.          *)
ConfigUpdatesKept == [][\A b \in Bootstraps : ~Overwrites(b, "config")]_vars

(* A registry update does not silently undo a schedule change that was     *)
(* committed after it read the row.                                        *)
ScheduleUpdatesKept == [][\A b \in Bootstraps : ~Overwrites(b, "sync") /\ ~Overwrites(b, "interval")]_vars
=============================================================================
