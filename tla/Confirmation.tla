---------------------------- MODULE Confirmation ----------------------------
(***************************************************************************)
(* ConfirmationStore of netbox_sync/application/confirmation.py: the       *)
(* in-memory table of single-use capabilities, each bound to one source,   *)
(* one registry id and one plan digest.                                    *)
(*                                                                         *)
(* A token is 256 random bits: a token that is issued was never issued     *)
(* before, which the history variable granted remembers.                   *)
(***************************************************************************)
EXTENDS ApplyBoundary, FiniteSets

CONSTANTS Tokens,    \* confirmation tokens
          Ids,       \* ids of registry rows
          Ttl,       \* ttl_seconds, 300
          Maximum    \* capacity, 256

VARIABLES entries,   \* self._entries, None for a token that is not in it
          granted    \* history: the entry each token was issued with

Claims == [source : Sources, id : Ids, digest : Digests]

Entry == [source : Sources, id : Ids, digest : Digests, expires : Nat]

ASSUME ConfirmationAssumption ==
    /\ Ttl \in Nat \ {0}
    /\ Maximum \in Nat \ {0}
    /\ None \notin Tokens \cup Ids \cup Claims \cup Entry

ConfirmationType ==
    /\ entries \in [Tokens -> Entry \cup {None}]
    /\ granted \in [Tokens -> Entry \cup {None}]

ConfirmationInit ==
    /\ entries = [t \in Tokens |-> None]
    /\ granted = [t \in Tokens |-> None]

Unexpired(t) == entries[t] # None /\ entries[t].expires > now

Pruned == [t \in Tokens |-> IF Unexpired(t) THEN entries[t] ELSE None]

Full == Cardinality({t \in Tokens : Unexpired(t)}) >= Maximum

(***************************************************************************)
(* issue: prune the expired entries, then refuse at capacity (the pruning  *)
(* stands) or store the claims under a fresh token.                        *)
(***************************************************************************)
IssueRefused ==
    /\ Full
    /\ entries' = Pruned
    /\ UNCHANGED granted

Issue(t, claims) ==
    LET entry == [source |-> claims.source, id |-> claims.id,
                  digest |-> claims.digest, expires |-> now + Ttl] IN
    /\ ~Full
    /\ granted[t] = None
    /\ entries' = [Pruned EXCEPT ![t] = entry]
    /\ granted' = [granted EXCEPT ![t] = entry]

(***************************************************************************)
(* consume: the entry is removed before it is validated, so a token can    *)
(* be presented once whatever the result.                                  *)
(***************************************************************************)
ConsumeCode(t, s) ==
    IF t \notin Tokens \/ entries[t] = None THEN "CONFIRMATION_INVALID"
    ELSE IF entries[t].expires <= now THEN "CONFIRMATION_EXPIRED"
    ELSE IF entries[t].source # s THEN "CONFIRMATION_SOURCE_MISMATCH"
    ELSE "OK"

ClaimsOf(t) == [source |-> entries[t].source, id |-> entries[t].id,
                digest |-> entries[t].digest]

(* Fault: the entry is read and left in the table.                         *)
ConsumeKeepsEntry(t) == t \in Tokens /\ UNCHANGED <<entries, granted>>

Consume(t) ==
    /\ entries' = [entries EXCEPT ![t] = None]
    /\ UNCHANGED granted

(* The store lives in the worker's memory: a restart forgets every token.  *)
Forget ==
    /\ entries' = [t \in Tokens |-> None]
    /\ UNCHANGED granted
=============================================================================
