-------------------------- MODULE MCRoutePipeline --------------------------
(* Small instances of RoutePipeline: two weak models and one strong model,  *)
(* the second weak model being the judge; one model has two keys.           *)
EXTENDS RoutePipeline

CONSTANTS r1, m1, m2, m3

MCRequests == {r1}
MCModels == {m1, m2, m3}
MCWeak == <<m1, m2>>
MCStrong == <<m3>>
MCJudges == <<m2>>
MCKeyCount == [m \in MCModels |-> IF m = m1 THEN 2 ELSE 1]
=============================================================================
