---------------------------- MODULE RouteDecision ----------------------------
(***************************************************************************)
(* The decision between the tiers, as a function of what the judge says,   *)
(* of the dynamic threshold and of the cycle detector.  Scores and         *)
(* thresholds are in hundredths.                                           *)
(***************************************************************************)
EXTENDS Integers

CONSTANT StrictPenalty   \* of the score in strict mode: 15 in the code, less in small instances

\* Mutation: strict mode is looked at before the cycle.
StrictBeforeCycle(score, impact, threshold, strict, cycle) ==
    IF strict /\ impact # "HIGH" THEN "weak"
    ELSE IF cycle \/ (IF strict THEN score - StrictPenalty ELSE score) >= threshold
         THEN "strong" ELSE "weak"

decideRoute(score, impact, threshold, strict, cycle) ==
    IF \/ cycle
       \/ /\ (IF strict THEN score - StrictPenalty ELSE score) >= threshold
          /\ strict => impact = "HIGH"
    THEN "strong" ELSE "weak"
=============================================================================
