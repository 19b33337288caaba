---------------------------- MODULE SecretBroker ----------------------------
(***************************************************************************)
(* secret_broker.py and its client BrokerSecretStore: files that are       *)
(* created exclusively, marked complete when they are whole, and removed   *)
(* by whoever presents the receipt of their creation.                      *)
(*                                                                         *)
(* The broker serves one connection at a time, in order.  A client sends a *)
(* request, waits, and sends the same request once more when the answer    *)
(* does not come; the first one may still be in the queue.  The broker may *)
(* die at any step: the queue is lost, the files stay.  A file is its      *)
(* extended attributes and its content; the two names an attribute may     *)
(* have (current and legacy) are one.                                      *)
(***************************************************************************)
EXTENDS Naturals, Sequences, FiniteSets

CONSTANTS Clients,       \* calls that use the broker
          Keys,          \* logical names of secrets
          Attempts,      \* tries of one request
          MaxCrashes     \* bound on deaths of processes

ASSUME BrokerAssumption == Attempts \in Nat \ {0} /\ MaxCrashes \in Nat

VARIABLES files,         \* the secret directory
          queue,         \* connections the broker has not answered
          broker,        \* ready, writing the file of the first request, or down
          awaited,       \* the request a client waits for
          reply,         \* the answer that arrived
          tries,         \* attempts at the current request
          submitted,     \* an attempt may have reached the broker
          crashes

disk == <<files, queue, broker>>
wire == <<awaited, reply, tries, submitted>>
brokerVars == <<disk, wire, crashes>>

Nothing == <<>>

(* op is the operation id, the same in every attempt; id the attempt.      *)
CreateRequest(c, op, n, key, value) ==
    [client |-> c, action |-> "create", op |-> op, id |-> n, key |-> key, value |-> value,
     receipt |-> Nothing]

RollbackRequest(c, op, n, key, receipt) ==
    [client |-> c, action |-> "rollback", op |-> op, id |-> n, key |-> key, value |-> Nothing,
     receipt |-> receipt]

Ok(receipt) == [ok |-> TRUE, receipt |-> receipt, code |-> "none"]

(* A refusal (SECRET_ALREADY_EXISTS, ROLLBACK_NOT_AUTHORIZED) is taken for *)
(* certain; after SECRET_CREATE_FAILED and after an internal error the     *)
(* client cannot know.                                                     *)
Refused == [ok |-> FALSE, receipt |-> Nothing, code |-> "failed"]

Broken == [ok |-> FALSE, receipt |-> Nothing, code |-> "uncertain"]

(* The refusal a create gets when an error of the disk keeps the broker    *)
(* from seeing that it has completed this very operation.  To the client   *)
(* it is the same SECRET_ALREADY_EXISTS; the name is for the properties.   *)
Denied == [ok |-> FALSE, receipt |-> Nothing, code |-> "denied"]

Without(key) == [k \in DOMAIN files \ {key} |-> files[k]]

With(key, file) == [k \in DOMAIN files \cup {key} |-> IF k = key THEN file ELSE files[k]]

BrokerInit(f) ==
    /\ files = f /\ queue = <<>> /\ broker = "ready"
    /\ awaited = [c \in Clients |-> Nothing] /\ reply = [c \in Clients |-> Nothing]
    /\ tries = [c \in Clients |-> 0] /\ submitted = [c \in Clients |-> FALSE]
    /\ crashes = 0

-----------------------------------------------------------------------------
(* The client, BrokerSecretStore._request.                                 *)

(* A new request.                                                          *)
Fresh(c) ==
    /\ awaited' = [awaited EXCEPT ![c] = Nothing] /\ reply' = [reply EXCEPT ![c] = Nothing]
    /\ tries' = [tries EXCEPT ![c] = 0] /\ submitted' = [submitted EXCEPT ![c] = FALSE]

MayTry(c) == tries[c] < Attempts

(* One attempt: without a broker the connection is refused.                *)
Send(c, m) ==
    /\ awaited[c] = Nothing /\ MayTry(c)
    /\ tries' = [tries EXCEPT ![c] = @ + 1]
    /\ IF broker = "down"
       THEN UNCHANGED <<queue, awaited, submitted>>
       ELSE /\ queue' = Append(queue, m)
            /\ awaited' = [awaited EXCEPT ![c] = m]
            /\ submitted' = [submitted EXCEPT ![c] = TRUE]
    /\ UNCHANGED <<files, broker, reply, crashes>>

(* The client's timeout, or a connection that was reset.                   *)
GiveUp(c) ==
    /\ awaited[c] # Nothing /\ reply[c] = Nothing
    /\ awaited' = [awaited EXCEPT ![c] = Nothing]
    /\ UNCHANGED <<disk, reply, tries, submitted, crashes>>

Exhausted(c) == awaited[c] = Nothing /\ tries[c] = Attempts

-----------------------------------------------------------------------------
(* The broker, serve and SecretBrokerStore.                                *)

(* _reply: an answer nobody waits for is lost.                             *)
Reply(m, answer) ==
    /\ queue' = Tail(queue)
    /\ reply' = IF awaited[m.client] = m THEN [reply EXCEPT ![m.client] = answer] ELSE reply
    /\ UNCHANGED <<awaited, tries, submitted, crashes>>

Serving(action) == broker = "ready" /\ queue # <<>> /\ Head(queue).action = action

(* Fault: O_EXCL is missing.                                               *)
VacantOrNot(key) == TRUE

Vacant(key) == key \notin DOMAIN files

(* create: the file exists from here on, without its completion mark.  The *)
(* receipt is drawn for this attempt.                                      *)
CreateExclusive ==
    LET m == Head(queue)
    IN  /\ Serving("create") /\ Vacant(m.key)
        /\ files' = With(m.key, [op |-> m.op, receipt |-> <<m.op, m.id>>, value |-> m.value,
                                 complete |-> FALSE])
        /\ broker' = "writing"
        /\ UNCHANGED <<queue, wire, crashes>>

CreateCompletes ==
    LET m == Head(queue)
    IN  /\ broker = "writing"
        /\ files' = [files EXCEPT ![m.key].complete = TRUE]
        /\ broker' = "ready"
        /\ \/ Reply(m, Ok(files[m.key].receipt))
           \/ Reply(m, Broken)

(* A write fails: _unlink_owned removes the file, or fails as well.        *)
CreateFails ==
    LET m == Head(queue)
    IN  /\ broker = "writing"
        /\ files' \in {Without(m.key), files}
        /\ broker' = "ready"
        /\ Reply(m, Broken)

SameAttempt(f, m) == f.complete /\ f.op = m.op /\ f.value = m.value

(* _repeat_create.  An error while the entry is read or synced is answered *)
(* like a file of somebody else.                                           *)
RepeatCreate ==
    LET m == Head(queue)
    IN  /\ Serving("create") /\ m.key \in DOMAIN files
        /\ IF SameAttempt(files[m.key], m)
           THEN Reply(m, Ok(files[m.key].receipt)) \/ Reply(m, Denied)
           ELSE Reply(m, Refused)
        /\ UNCHANGED <<files, broker>>

Authorized(f, m) == f.complete /\ f.op = m.op /\ f.receipt = m.receipt

(* rollback; an error while the entry is removed is answered like a        *)
(* refusal, with the file gone or not.                                     *)
Rollback ==
    LET m == Head(queue)
    IN  /\ Serving("rollback")
        /\ IF m.key \in DOMAIN files /\ Authorized(files[m.key], m)
           THEN \/ files' = Without(m.key) /\ Reply(m, Ok(Nothing))
                \/ files' \in {Without(m.key), files} /\ Reply(m, Refused)
           ELSE files' = files /\ Reply(m, Refused)
        /\ UNCHANGED broker

BrokerCrash ==
    /\ broker # "down" /\ crashes < MaxCrashes
    /\ broker' = "down" /\ queue' = <<>> /\ crashes' = crashes + 1
    /\ UNCHANGED <<files, wire>>

BrokerRestart ==
    /\ broker = "down" /\ broker' = "ready"
    /\ UNCHANGED <<files, queue, wire, crashes>>

BrokerNext ==
    \/ CreateExclusive \/ CreateCompletes \/ CreateFails \/ RepeatCreate \/ Rollback
    \/ BrokerCrash \/ BrokerRestart
=============================================================================
