-------------------------- MODULE RegisteredSources --------------------------
(***************************************************************************)
(* What source onboarding promises, as if the registry and the secret      *)
(* directory were one store: a source is registered in one step, by one    *)
(* call, with the credentials of that call, and stays as it was            *)
(* registered.  A caller may be left uncertain, but what it is told is so. *)
(***************************************************************************)
CONSTANTS Calls, Sources

VARIABLES registered,    \* the call that registered each source
          answers

Registrants == {registered[s] : s \in DOMAIN registered}

Init ==
    /\ DOMAIN registered \subseteq Sources /\ Registrants \cap Calls = {}
    /\ answers = [c \in Calls |-> "none"]

Register(c, s) ==
    /\ s \notin DOMAIN registered /\ c \notin Registrants /\ answers[c] # "failed"
    /\ registered' = [x \in DOMAIN registered \cup {s} |-> IF x = s THEN c ELSE registered[x]]
    /\ answers' = answers

Tell(c, answer) ==
    /\ answers[c] = "none"
    /\ answer = "created" => c \in Registrants
    /\ answer = "failed" => c \notin Registrants
    /\ answers' = [answers EXCEPT ![c] = answer]
    /\ registered' = registered

Next ==
    \E c \in Calls :
        \/ \E s \in Sources : Register(c, s)
        \/ \E answer \in {"created", "failed", "uncertain"} : Tell(c, answer)

Spec == Init /\ [][Next]_<<registered, answers>>
=============================================================================
