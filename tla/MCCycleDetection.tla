-------------------------- MODULE MCCycleDetection --------------------------
(* Small instances of CycleDetection: two requests at once.                      *)
EXTENDS CycleDetection, TLC

CONSTANTS s1, s2, s3, r1, r2

ThreeSessions == {s1, s2, s3}
TwoRequests == {r1, r2}

\* Prompts and responses are numbers, 0 the empty response; with a threshold
\* of 1 a prompt's pair with response 1 is near the one with none, and the
\* pairs of different prompts are apart.
HashOf == [x \in {1, 2} \X {0, 1, 2} |-> 10 * x[1] + x[2] * x[2]]

Alike == Permutations(Sessions) \cup Permutations(Requests)
=============================================================================
