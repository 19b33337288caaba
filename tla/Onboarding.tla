----------------------------- MODULE Onboarding -----------------------------
(***************************************************************************)
(* application/onboarding.py with its adapters: credentials are tested,    *)
(* kept in memory under a token, and registered by creating their secrets  *)
(* through the broker and then one row of the registry.  Calls run         *)
(* concurrently; the database may lose an acknowledgement or commit late;  *)
(* the API process may die and forget what it was doing.                   *)
(*                                                                         *)
(* Secret keys are random in the code; here any key may be drawn, also one *)
(* that is in use.                                                         *)
(***************************************************************************)
EXTENDS SecretBroker

CONSTANTS Tokens,        \* onboarding tokens, with their credentials
          Proxmox,       \* those whose credentials are two secrets
          Sources,       \* source instances
          Capacity,      \* pending credentials kept at once
          EarlierRows    \* rows and secrets registered before

ASSUME OnboardingAssumption ==
    Proxmox \subseteq Tokens /\ Nothing \notin Tokens /\ Capacity \in Nat

(* Earlier registrations are not by calls of this process and have one     *)
(* secret each.                                                            *)
ASSUME EarlierAssumption ==
    /\ "earlier" \notin Clients \cup Tokens
    /\ \A s \in DOMAIN EarlierRows :
           /\ EarlierRows[s].call = "earlier" /\ EarlierRows[s].token = "earlier"
           /\ EarlierRows[s].keys[1] \in Keys

VARIABLES pending,       \* tokens whose credentials can be had
          issued,        \* tokens drawn so far
          call,          \* the state of each register call
          rows,          \* the registry
          late           \* calls whose INSERT the server may still commit

vars == <<brokerVars, pending, issued, call, rows, late>>

Labels(t) == IF t \in Proxmox THEN {1, 2} ELSE {1}

SecretValue(t, label) == <<t, label>>

NewCall == [at |-> "idle", source |-> Nothing, token |-> Nothing, keys |-> <<>>,
            receipts |-> <<>>, err |-> "none", clean |-> TRUE, answer |-> "none"]

EarlierFiles ==
    [k \in {EarlierRows[s].keys[1] : s \in DOMAIN EarlierRows} |->
        [op |-> <<"earlier", k>>, receipt |-> <<"earlier", k>>, complete |-> TRUE,
         value |-> SecretValue("earlier", 1)]]

Init ==
    /\ BrokerInit(EarlierFiles)
    /\ pending = {} /\ issued = {}
    /\ call = [c \in Clients |-> NewCall]
    /\ rows = EarlierRows /\ late = {}

-----------------------------------------------------------------------------
(* EphemeralOnboardingStore and the connection test before it.  An expired *)
(* entry that its timer has not removed is pruned before entries are       *)
(* counted and refused by consume: it is as good as gone.                  *)

(* test_connection with a successful test.                                 *)
test_connection(t) ==
    /\ t \in Tokens \ issued
    /\ issued' = issued \cup {t}
    /\ pending' = IF Cardinality(pending) >= Capacity THEN pending ELSE pending \cup {t}
    /\ UNCHANGED <<brokerVars, call, rows, late>>

(* The time to live ends, or cancel discards the entry.                    *)
expire_or_cancel(t) ==
    /\ t \in pending
    /\ pending' = pending \ {t}
    /\ UNCHANGED <<brokerVars, issued, call, rows, late>>

(* Fault: the credentials stay retrievable.                                *)
consume_keeping(t) == pending

consume(t) == pending \ {t}

-----------------------------------------------------------------------------
(* SourceOnboardingService._register.                                      *)
Goto(c, at) == call' = [call EXCEPT ![c].at = at]

Answer(c, answer) == call' = [call EXCEPT ![c].at = "answered", ![c].answer = answer]

(* Undo what was created, then answer err.                                 *)
Fail(c, err) == call' = [call EXCEPT ![c].at = "undo", ![c].err = err]

(* The request is validated and its token consumed; it may name another    *)
(* connection than the one tested.                                         *)
register(c, s, t) ==
    /\ call[c].at = "idle"
    /\ \/ Answer(c, "failed") /\ pending' = pending
       \/ Answer(c, "failed") /\ pending' = consume(t)
       \/ /\ t \in pending /\ pending' = consume(t)
          /\ call' = [call EXCEPT ![c].at = "find", ![c].source = s, ![c].token = t]
    /\ UNCHANGED <<brokerVars, issued, rows, late>>

(* The duplicate check, which may fail.                                    *)
find(c) ==
    /\ call[c].at = "find"
    /\ \/ Answer(c, "failed")
       \/ call[c].source \notin DOMAIN rows /\ Goto(c, "key")
    /\ UNCHANGED <<brokerVars, pending, issued, rows, late>>

(* secrets.create with a new key and operation.                            *)
draw_key(c, key) ==
    /\ call[c].at = "key"
    /\ call' = [call EXCEPT ![c].at = "create", ![c].keys = Append(@, key)]
    /\ Fresh(c)
    /\ UNCHANGED <<disk, crashes, pending, issued, rows, late>>

Label(c) == Len(call[c].receipts) + 1

create_send(c) ==
    /\ call[c].at = "create"
    /\ Send(c, CreateRequest(c, <<c, Label(c)>>, tries[c] + 1, call[c].keys[Label(c)],
                             SecretValue(call[c].token, Label(c))))
    /\ UNCHANGED <<pending, issued, call, rows, late>>

wait_ends(c) ==
    /\ call[c].at \in {"create", "undo"} /\ GiveUp(c)
    /\ UNCHANGED <<pending, issued, call, rows, late>>

(* Fault: the attempts that got through are forgotten.                     *)
code_when_exhausted(c) == "failed"

CodeWhenExhausted(c) == IF submitted[c] THEN "uncertain" ELSE "failed"

create_done(c) ==
    /\ call[c].at = "create"
    /\ \/ /\ reply[c] # Nothing /\ reply[c].ok
          /\ call' = [call EXCEPT ![c].receipts = Append(@, reply[c].receipt),
                                  ![c].at = IF Label(c) \in Labels(call[c].token)
                                               /\ Label(c) + 1 \in Labels(call[c].token)
                                            THEN "key" ELSE "insert"]
       \/ /\ reply[c] # Nothing /\ ~reply[c].ok
          /\ Fail(c, reply[c].code)
       \/ Exhausted(c) /\ Fail(c, CodeWhenExhausted(c))
    /\ Fresh(c)
    /\ UNCHANGED <<disk, crashes, pending, issued, rows, late>>

Row(c) == [call |-> c, token |-> call[c].token, keys |-> call[c].keys]

Inserted(c) == [s \in DOMAIN rows \cup {call[c].source} |->
                   IF s = call[c].source THEN Row(c) ELSE rows[s]]

Free(c) == call[c].source \notin DOMAIN rows

(* Fault: a lost acknowledgement is taken for a rejection.                 *)
after_lost_ack(c) == Fail(c, "failed")

AfterLostAck(c) == Goto(c, "reconcile")

(* RegistrationRegistry.create: rejected for certain, committed, or lost   *)
(* with the statement committed, still running, or without effect.         *)
insert(c) ==
    /\ call[c].at = "insert"
    /\ \/ Fail(c, "failed") /\ UNCHANGED <<rows, late>>
       \/ Free(c) /\ rows' = Inserted(c) /\ late' = late /\ Goto(c, "returned")
       \/ /\ AfterLostAck(c)
          /\ \/ UNCHANGED <<rows, late>>
             \/ Free(c) /\ rows' = Inserted(c) /\ late' = late
             \/ late' = late \cup {c} /\ rows' = rows
    /\ UNCHANGED <<brokerVars, pending, issued>>

(* The server finishes a statement whose client has gone.                  *)
commit_late(c) ==
    /\ c \in late /\ late' = late \ {c}
    /\ rows' = IF Free(c) THEN Inserted(c) ELSE rows
    /\ UNCHANGED <<brokerVars, pending, issued, call>>

returned(c) ==
    /\ call[c].at = "returned" /\ Answer(c, "created")
    /\ UNCHANGED <<brokerVars, pending, issued, rows, late>>

IsCommitted(c) == call[c].source \in DOMAIN rows /\ rows[call[c].source] = Row(c)

(* Only the exact row proves the commit; nothing proves its absence.       *)
reconcile(c) ==
    /\ call[c].at = "reconcile"
    /\ \/ IsCommitted(c) /\ Answer(c, "created")
       \/ Answer(c, "uncertain")
    /\ UNCHANGED <<brokerVars, pending, issued, rows, late>>

-----------------------------------------------------------------------------
(* _rollback, newest first, going on after a failure.                      *)
undo_send(c) ==
    LET i == Len(call[c].receipts)
    IN  /\ call[c].at = "undo" /\ i > 0
        /\ Send(c, RollbackRequest(c, <<c, i>>, tries[c] + 1, call[c].keys[i], call[c].receipts[i]))
        /\ UNCHANGED <<pending, issued, call, rows, late>>

undo_done(c) ==
    /\ call[c].at = "undo" /\ call[c].receipts # <<>>
    /\ reply[c] # Nothing \/ Exhausted(c)
    /\ call' = [call EXCEPT ![c].receipts = SubSeq(@, 1, Len(@) - 1),
                            ![c].clean = @ /\ reply[c] # Nothing /\ reply[c].ok]
    /\ Fresh(c)
    /\ UNCHANGED <<disk, crashes, pending, issued, rows, late>>

(* A denied create is answered like every definite failure.                *)
AnswerOf(err) == IF err = "denied" THEN "failed" ELSE err

undone(c) ==
    /\ call[c].at = "undo" /\ call[c].receipts = <<>>
    /\ Answer(c, IF call[c].clean THEN AnswerOf(call[c].err) ELSE "uncertain")
    /\ UNCHANGED <<brokerVars, pending, issued, rows, late>>

Active(c) == call[c].at \notin {"idle", "answered", "gone"}

(* The API process dies: its memory and its connections are gone.          *)
ApiCrash ==
    /\ crashes < MaxCrashes /\ crashes' = crashes + 1
    /\ pending' = {}
    /\ call' = [c \in Clients |-> IF Active(c) THEN [call[c] EXCEPT !.at = "gone"] ELSE call[c]]
    /\ awaited' = [c \in Clients |-> Nothing] /\ reply' = [c \in Clients |-> Nothing]
    /\ UNCHANGED <<disk, tries, submitted, issued, rows, late>>

CallStep(c) ==
    \/ find(c) \/ \E key \in Keys : draw_key(c, key)
    \/ create_send(c) \/ wait_ends(c) \/ create_done(c)
    \/ insert(c) \/ returned(c) \/ reconcile(c)
    \/ undo_send(c) \/ undo_done(c) \/ undone(c)

Next ==
    \/ \E t \in Tokens : test_connection(t) \/ expire_or_cancel(t)
    \/ \E c \in Clients :
           \/ \E s \in Sources, t \in Tokens : register(c, s, t)
           \/ CallStep(c) \/ commit_late(c)
    \/ BrokerNext /\ UNCHANGED <<pending, issued, call, rows, late>>
    \/ ApiCrash

Spec == Init /\ [][Next]_vars

-----------------------------------------------------------------------------
(* Properties.                                                             *)

(* The row of a source can be used: each of its references is a complete   *)
(* file with the credential that was registered.                           *)
Usable(r) ==
    \A i \in Labels(r.token) :
        /\ r.keys[i] \in DOMAIN files
        /\ files[r.keys[i]].complete /\ files[r.keys[i]].value = SecretValue(r.token, i)

Promise == INSTANCE RegisteredSources WITH
    Calls <- Clients,
    Sources <- Sources \cup DOMAIN EarlierRows,
    registered <- [s \in DOMAIN rows |-> IF Usable(rows[s]) THEN rows[s].call ELSE "unusable"],
    answers <- [c \in Clients |-> call[c].answer]

(* Registry and secret directory behave as one store: whatever is retried, *)
(* lost, late or killed, a source appears with exactly the credentials of  *)
(* one call, keeps them, and a definite answer is true for ever.           *)
RegistrationIsAtomic == Promise!Spec

(* A definite failure leaves no usable secret behind and no request that   *)
(* would still create one, whatever was retried, given up or lost.  One    *)
(* secret may stay: the last of the call, when the broker had completed it *)
(* and an error of the disk made it deny that to the repeated request      *)
(* (_repeat_create answers SECRET_ALREADY_EXISTS).                         *)
FailureLeavesNoSecret ==
    \A c \in Clients : call[c].answer = "failed" =>
        /\ \A k \in DOMAIN files : files[k].complete /\ files[k].op[1] = c =>
               call[c].err = "denied" /\ files[k].op[2] = Len(call[c].keys)
        /\ \A i \in DOMAIN queue : queue[i].client = c => queue[i].action # "create"

(* Completed secrets are write-once: nothing changes one, and only the     *)
(* rollback of the call that created it, which is then not registered,     *)
(* removes it.                                                             *)
SecretsAreWriteOnce ==
    [][\A k \in DOMAIN files : files[k].complete =>
           \/ k \in DOMAIN files' /\ files'[k] = files[k]
           \/ /\ k \notin DOMAIN files'
              /\ \A s \in DOMAIN rows : rows[s].call # files[k].op[1]]_vars

(* Tested credentials are registered at most once.                         *)
OneRegistrationPerTest ==
    \A r, s \in DOMAIN rows : rows[r].token \in Tokens /\ r # s => rows[r].token # rows[s].token
=============================================================================
