--------------------------- MODULE MCApplyWorker ----------------------------
(* Small instances of ApplyWorker for TLC.                                 *)
EXTENDS ApplyWorker, TLC

Symmetry == Permutations(Calls) \cup Permutations(RunIds) \cup Permutations(Tokens)
            \cup Permutations(Sources) \cup Permutations(Ids)
=============================================================================
