---------------------------- MODULE MCOnboarding ----------------------------
(***************************************************************************)
(* Two concurrent registrations beside a source that is already there.     *)
(***************************************************************************)
EXTENDS Onboarding, TLC

CONSTANTS k0, k1, k2, old, s1, s2

MCEarlierRows == [s \in {old} |-> [call |-> "earlier", token |-> "earlier", keys |-> <<k0>>]]

Symmetry == Permutations({k1, k2}) \cup Permutations({s1, s2}) \cup Permutations(Clients)
=============================================================================
