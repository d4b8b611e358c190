-------------------------- MODULE MCSemanticCache --------------------------
(* Small instances of SemanticCache: two goroutines, a prompt and what it   *)
(* is after redaction.                                                     *)
EXTENDS SemanticCache, TLC

CONSTANTS k1, k2, w1, w2

MCKeys == {k1, k2}
MCLogKey == [k \in MCKeys |-> k2]
MCWorkers == {w1, w2}
MCSymmetry == Permutations(MCWorkers)
=============================================================================
