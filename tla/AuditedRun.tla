----------------------------- MODULE AuditedRun -----------------------------
(***************************************************************************)
(* What the run history promises about NetBox, whoever executes the run.   *)
(*                                                                         *)
(* A run is opened before it may plan a mutation, and closed at most once, *)
(* with a verdict that stays true for ever:                                *)
(*    "done"       every mutation it planned has landed;                   *)
(*    "unchanged"  none has landed and none will;                          *)
(*    "unknown"    nothing is claimed, and a mutation may still land.      *)
(* A run that stays "open" claims nothing either.                          *)
(***************************************************************************)
EXTENDS Naturals

CONSTANT RunIds

VARIABLES verdict, left, touched

Init ==
    /\ verdict = [r \in RunIds |-> "none"]
    /\ left = [r \in RunIds |-> 0]
    /\ touched = {}

Open(r) ==
    /\ verdict[r] = "none"
    /\ verdict' = [verdict EXCEPT ![r] = "open"]
    /\ UNCHANGED <<left, touched>>

Plan(r) ==
    /\ verdict[r] = "open" /\ r \notin touched
    /\ left'[r] \in Nat
    /\ left' = [left EXCEPT ![r] = left'[r]]
    /\ UNCHANGED <<verdict, touched>>

Change(r) ==
    /\ verdict[r] \in {"open", "unknown"}
    /\ left[r] > 0
    /\ left' = [left EXCEPT ![r] = @ - 1]
    /\ touched' = touched \cup {r}
    /\ UNCHANGED verdict

Close(r, v) ==
    /\ verdict[r] = "open"
    /\ v = "done" => left[r] = 0
    /\ v = "unchanged" => r \notin touched
    /\ verdict' = [verdict EXCEPT ![r] = v]
    /\ UNCHANGED <<left, touched>>

Next == \E r \in RunIds : \/ Open(r) \/ Plan(r) \/ Change(r)
                          \/ \E v \in {"done", "unchanged", "unknown"} : Close(r, v)

Spec == Init /\ [][Next]_<<verdict, left, touched>>
=============================================================================
