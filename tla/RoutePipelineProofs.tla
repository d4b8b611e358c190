------------------------- MODULE RoutePipelineProofs -------------------------
(***************************************************************************)
(* Proofs about RoutePipeline for any number of requests, any tiers, keys, *)
(* judges, scores and thresholds.                                          *)
(***************************************************************************)
EXTENDS RoutePipeline, TLAPS

\* The order of either tier is a sequence of models.
LEMMA OrderSeq ==
    ASSUME NEW t
    PROVE  Order(t) \in Seq(Models)
BY PipelineAssumption DEF Order

\* The place of a candidate that is left is one of its tier's order.
LEMMA CandidateMember ==
    ASSUME TypeOK, NEW r \in Requests, at[r] >= 1, ~NoneLeft(r)
    PROVE  Candidate(r) \in Members(Order(tier[r])) /\ Candidate(r) \in Models
<1>1. Order(tier[r]) \in Seq(Models)
  BY OrderSeq
<1>2. at[r] \in 1..Len(Order(tier[r]))
  BY <1>1 DEF TypeOK, NoneLeft
<1>3. QED
  BY <1>1, <1>2 DEF Candidate, Members

\* Where Route is working on the list of candidates.
Calling == {"next", "call", "busy"}

\* A candidate that is being called is one of the list.
PlaceOK ==
    \A r \in Requests :
        /\ pc[r] \in Calling => at[r] >= 1
        /\ pc[r] \in {"call", "busy"} => ~NoneLeft(r) /\ Candidate(r) \in listed[r]
        /\ pc[r] = "busy" => keys[r] > 0

TInv == TypeOK /\ PlaceOK

\* A step of one request.
RequestStep(r) ==
    \/ Arrive(r) \/ Prepare(r) \/ Refuse(r) \/ AskJudge(r) \/ Decide(r)
    \/ List(r) \/ Skip(r) \/ Choose(r) \/ Exhausted(r) \/ OutOfKeys(r) \/ TooLate(r)
    \/ Call(r) \/ Chunk(r) \/ Deadline(r) \/ Fails(r) \/ Answers(r) \/ Settle(r)
    \/ Respond(r)

\* The steps up to the decision keep the types.
LEMMA TypeOneStep ==
    ASSUME TInv, NEW r \in Requests,
           \/ Arrive(r) \/ Prepare(r) \/ Refuse(r) \/ AskJudge(r) \/ Decide(r)
    PROVE  TypeOK'
<1> USE DEF TInv, TypeOK, Goto, PCs, decision, timing, calls, judging
<1>1. CASE Arrive(r)
  BY <1>1 DEF Arrive
<1>2. CASE Prepare(r)
  <2>1. verdict' \in [Requests -> Verdicts]
    BY <1>2 DEF Prepare, Verdicts, Impacts, NoVerdict
  <2>2. QED
    BY <1>2, <2>1 DEF Prepare
<1>3. CASE Refuse(r)
  BY <1>3 DEF Refuse
<1>4. CASE AskJudge(r)
  <2>1. PICK n \in 0..Len(JudgeOrder), s \in Scores, i \in Impacts :
          /\ judges' = [judges EXCEPT ![r] = @ \cup {JudgeOrder[k] : k \in 1..n}]
          /\ verdict' = [verdict EXCEPT ![r] = [score |-> s, impact |-> i]]
    BY <1>4 DEF AskJudge
  <2>2. {JudgeOrder[k] : k \in 1..n} \subseteq Models
    BY PipelineAssumption
  <2>3. [score |-> s, impact |-> i] \in Verdicts
    BY PipelineAssumption DEF Verdicts
  <2>4. judges' \in [Requests -> SUBSET Models]
    BY <2>1, <2>2
  <2>5. verdict' \in [Requests -> Verdicts]
    BY <2>1, <2>3
  <2>6. judged' \in [Requests -> Nat]
    BY <1>4 DEF AskJudge
  <2>7. QED
    BY <1>4, <2>4, <2>5, <2>6 DEF AskJudge
<1>5. CASE Decide(r)
  <2>1. PICK th \in Thresholds, strict \in BOOLEAN, d \in {"weak", "strong"} :
          /\ route' = [route EXCEPT ![r] = d]
          /\ tier' = [tier EXCEPT ![r] = d]
          /\ timed' = [timed EXCEPT ![r] =
                         ~late[r] /\ ask[r].mode = "smart" /\ ask[r].cached = "none"
                         /\ d = "weak"]
    BY <1>5 DEF Decide, decideRoute
  <2>2. QED
    BY <1>5, <2>1 DEF Decide
<1>6. QED
  BY <1>1, <1>2, <1>3, <1>4, <1>5

\* The steps from the list to the response keep the types: Fails takes one of
\* the keys PlaceOK says are left.
LEMMA TypeTwoStep ==
    ASSUME TInv, NEW r \in Requests,
           \/ List(r) \/ Skip(r) \/ Choose(r) \/ Exhausted(r) \/ OutOfKeys(r) \/ TooLate(r)
           \/ Call(r) \/ Chunk(r) \/ Deadline(r) \/ Fails(r) \/ Answers(r) \/ Settle(r)
           \/ Respond(r)
    PROVE  TypeOK'
<1> USE DEF TInv, TypeOK, Goto, PCs, decision, timing, calls, judging
<1>0. pc[r] \in {"call", "busy"} => Candidate(r) \in Models
  BY CandidateMember DEF PlaceOK, Calling
<1>1. CASE List(r)
  BY <1>1 DEF List
<1>2. CASE Skip(r)
  BY <1>2 DEF Skip
<1>3. CASE Choose(r)
  <2>1. Candidate(r) \in Models
    BY <1>3, CandidateMember DEF Choose, PlaceOK, Calling
  <2>2. KeyCount[Candidate(r)] \in Nat
    BY <2>1, PipelineAssumption
  <2>3. QED
    BY <1>3, <2>2 DEF Choose
<1>4. CASE Exhausted(r)
  BY <1>4 DEF Exhausted
<1>5. CASE OutOfKeys(r)
  BY <1>5 DEF OutOfKeys
<1>6. CASE TooLate(r)
  BY <1>6 DEF TooLate
<1>7. CASE Call(r)
  BY <1>0, <1>7 DEF Call
<1>8. CASE Chunk(r)
  BY <1>0, <1>8 DEF Chunk
<1>9. CASE Deadline(r)
  BY <1>9 DEF Deadline
<1>10. CASE Fails(r)
  BY <1>10 DEF Fails, PlaceOK
<1>11. CASE Answers(r)
  BY <1>0, <1>11 DEF Answers
<1>12. CASE Settle(r)
  BY <1>12 DEF Settle
<1>13. CASE Respond(r)
  BY <1>13 DEF Respond
<1>14. QED
  BY <1>1, <1>2, <1>3, <1>4, <1>5, <1>6, <1>7, <1>8, <1>9, <1>10, <1>11, <1>12, <1>13

\* The operator's switches keep the types.
LEMMA TypeOperatorStep ==
    ASSUME TypeOK, (\E m \in Models : SetModelStatus(m)) \/ SetAllModelStatus
    PROVE  TypeOK'
BY DEF TypeOK, SetModelStatus, SetAllModelStatus, decision, timing, calls, judging


\* The place is a function of the variables it names: a step that leaves them
\* alone for a request leaves PlaceOK alone for it.
LEMMA PlaceStep ==
    ASSUME TInv, TypeOK',
           NEW r \in Requests,
           RequestStep(r)
    PROVE  PlaceOK'
<1> USE DEF RequestStep, TInv, TypeOK, PlaceOK, Goto, Calling, NoneLeft, Candidate, decision, timing, calls,
        judging
<1>1. CASE Arrive(r)
  BY <1>1 DEF Arrive
<1>2. CASE Prepare(r)
  BY <1>2 DEF Prepare
<1>3. CASE Refuse(r)
  BY <1>3 DEF Refuse
<1>4. CASE AskJudge(r)
  BY <1>4 DEF AskJudge
<1>5. CASE Decide(r)
  BY <1>5 DEF Decide
<1>6. CASE List(r)
  BY <1>6 DEF List
<1>7. CASE Skip(r)
  BY <1>7 DEF Skip
<1>8. CASE Choose(r)
  BY <1>8 DEF Choose
<1>9. CASE Exhausted(r)
  BY <1>9 DEF Exhausted
<1>10. CASE OutOfKeys(r)
  BY <1>10 DEF OutOfKeys
<1>11. CASE TooLate(r)
  BY <1>11 DEF TooLate
<1>12. CASE Call(r)
  BY <1>12 DEF Call
<1>13. CASE Chunk(r)
  BY <1>13 DEF Chunk
<1>14. CASE Deadline(r)
  BY <1>14 DEF Deadline
<1>15. CASE Fails(r)
  BY <1>15 DEF Fails
<1>16. CASE Answers(r)
  BY <1>16 DEF Answers
<1>17. CASE Settle(r)
  BY <1>17 DEF Settle
<1>18. CASE Respond(r)
  BY <1>18 DEF Respond
<1>19. QED
  BY <1>1, <1>2, <1>3, <1>4, <1>5, <1>6, <1>7, <1>8, <1>9, <1>10, <1>11, <1>12, <1>13,
     <1>14, <1>15, <1>16, <1>17, <1>18

Decided == {"list", "next", "call", "busy", "settle", "respond", "done"}

\* From the decision on, the tier is the decided one, also after the second
\* decision: List, Choose, Call and Answers all read the tier.
TierInv ==
    /\ \A r \in Requests : pc[r] \in Decided => tier[r] = route[r]
    /\ AnswerFromTier

\* A step of a request keeps tier and route together.
LEMMA TierStep ==
    ASSUME TInv, TypeOK', TierInv, NEW r \in Requests, RequestStep(r)
    PROVE  TierInv'
<1> USE DEF TypeOK, Goto, decision, timing, calls, judging, TInv, TierInv,
        AnswerFromTier, Ended, Decided
<1>1. CASE Arrive(r)
  BY <1>1 DEF Arrive
<1>2. CASE Prepare(r)
  BY <1>2 DEF Prepare
<1>3. CASE Refuse(r)
  BY <1>3 DEF Refuse
<1>4. CASE AskJudge(r)
  BY <1>4 DEF AskJudge
<1>5. CASE Decide(r)
  <2>1. PICK th \in Thresholds, strict \in BOOLEAN :
          LET d == decideRoute(verdict[r].score, verdict[r].impact, th, strict, ask[r].cycle)
          IN  /\ route' = [route EXCEPT ![r] = d]
              /\ tier' = [tier EXCEPT ![r] = d]
    BY <1>5 DEF Decide
  <2>2. QED
    BY <1>5, <2>1 DEF Decide
<1>6. CASE List(r)
  BY <1>6 DEF List
<1>7. CASE Skip(r)
  BY <1>7 DEF Skip
<1>8. CASE Choose(r)
  BY <1>8 DEF Choose
<1>9. CASE Exhausted(r)
  BY <1>9 DEF Exhausted
<1>10. CASE OutOfKeys(r)
  BY <1>10 DEF OutOfKeys
<1>11. CASE TooLate(r)
  BY <1>11 DEF TooLate
<1>12. CASE Call(r)
  BY <1>12 DEF Call
<1>13. CASE Chunk(r)
  BY <1>13 DEF Chunk
<1>14. CASE Deadline(r)
  BY <1>14 DEF Deadline
<1>15. CASE Fails(r)
  BY <1>15 DEF Fails
<1>16. CASE Answers(r)
  <2>1. Candidate(r) \in Members(Order(tier[r]))
    BY <1>16, CandidateMember DEF Answers, TInv, PlaceOK, Calling
  <2>2. QED
    BY <1>16, <2>1 DEF Answers
<1>17. CASE Settle(r)
  BY <1>17 DEF Settle
<1>18. CASE Respond(r)
  BY <1>18 DEF Respond
<1>19. QED
  BY <1>1, <1>2, <1>3, <1>4, <1>5, <1>6, <1>7, <1>8, <1>9,
     <1>10, <1>11, <1>12, <1>13, <1>14, <1>15, <1>16, <1>17, <1>18 DEF RequestStep


\* A request with a cycle is decided for the strong tier, whatever else holds,
\* and calls only models of its tier.
CycleInv ==
    /\ \A r \in Requests : pc[r] = "idle" => called[r] = {}
    /\ \A r \in Requests : pc[r] \in Decided /\ ask[r].cycle => tier[r] = "strong"
    /\ CycleGoesStrong

\* A step of a request keeps a request with a cycle off the weak tier.
LEMMA CycleStep ==
    ASSUME TInv, TypeOK', CycleInv, NEW r \in Requests, RequestStep(r)
    PROVE  CycleInv'
<1> USE DEF TypeOK, Goto, decision, timing, calls, judging, TInv, CycleInv, CycleGoesStrong, Decided
<1>1. CASE Arrive(r)
  BY <1>1 DEF Arrive
<1>2. CASE Prepare(r)
  BY <1>2 DEF Prepare
<1>3. CASE Refuse(r)
  BY <1>3 DEF Refuse
<1>4. CASE AskJudge(r)
  BY <1>4 DEF AskJudge
<1>5. CASE Decide(r)
  <2>1. PICK th \in Thresholds, strict \in BOOLEAN :
          tier' = [tier EXCEPT ![r] = decideRoute(verdict[r].score, verdict[r].impact,
                                                  th, strict, ask[r].cycle)]
    BY <1>5 DEF Decide
  <2>2. ask[r].cycle => tier'[r] = "strong"
    BY <2>1 DEF decideRoute
  <2>3. QED
    BY <1>5, <2>1, <2>2 DEF Decide
<1>6. CASE List(r)
  BY <1>6 DEF List
<1>7. CASE Skip(r)
  BY <1>7 DEF Skip
<1>8. CASE Choose(r)
  BY <1>8 DEF Choose
<1>9. CASE Exhausted(r)
  BY <1>9 DEF Exhausted
<1>10. CASE OutOfKeys(r)
  BY <1>10 DEF OutOfKeys
<1>11. CASE TooLate(r)
  BY <1>11 DEF TooLate
<1>12. CASE Call(r)
  <2>1. Candidate(r) \in Members(Order(tier[r]))
    BY <1>12, CandidateMember DEF Call, TInv, PlaceOK, Calling
  <2>2. ask[r].cycle => Candidate(r) \notin Members(WeakTier)
    BY <1>12, <2>1, PipelineAssumption DEF Call, Order
  <2>3. QED
    BY <1>12, <2>2 DEF Call
<1>13. CASE Chunk(r)
  BY <1>13 DEF Chunk
<1>14. CASE Deadline(r)
  BY <1>14 DEF Deadline
<1>15. CASE Fails(r)
  BY <1>15 DEF Fails
<1>16. CASE Answers(r)
  BY <1>16 DEF Answers
<1>17. CASE Settle(r)
  BY <1>17 DEF Settle
<1>18. CASE Respond(r)
  BY <1>18 DEF Respond
<1>19. QED
  BY <1>1, <1>2, <1>3, <1>4, <1>5, <1>6, <1>7, <1>8, <1>9,
     <1>10, <1>11, <1>12, <1>13, <1>14, <1>15, <1>16, <1>17, <1>18 DEF RequestStep


\* Where the judge is asked, and what has been asked before.
JudgeInv ==
    /\ \A r \in Requests : pc[r] \in {"idle", "prepare"} => judged[r] = 0 /\ ~late[r]
    /\ \A r \in Requests :
          pc[r] = "judge" =>
             /\ judged[r] = 0 /\ ask[r].cached = "none" /\ ask[r].mode # "never"
             /\ ask[r].mode = "smart" => (expired[r] \/ slow[r]) /\ late[r]
    /\ \A r \in Requests :
          pc[r] \in {"decide", "list", "next", "call", "busy"} /\ ask[r].mode = "smart" =>
             judged[r] = 0 \/ late[r]
    /\ \A r \in Requests :
          pc[r] \in {"list", "next", "call", "busy"} /\ timed[r] =>
             judged[r] = 0 /\ ask[r].mode = "smart" /\ ask[r].cached = "none"
    /\ JudgeAsPromised

\* A step of a request keeps the count of judge calls and their occasion.
LEMMA JudgeStep ==
    ASSUME TInv, TypeOK', JudgeInv, NEW r \in Requests, RequestStep(r)
    PROVE  JudgeInv'
<1> USE DEF TypeOK, Goto, decision, timing, calls, judging, TInv, JudgeInv, JudgeAsPromised
<1>1. CASE Arrive(r)
  BY <1>1 DEF Arrive
<1>2. CASE Prepare(r)
  BY <1>2 DEF Prepare
<1>3. CASE Refuse(r)
  BY <1>3 DEF Refuse
<1>4. CASE AskJudge(r)
  BY <1>4 DEF AskJudge
<1>5. CASE Decide(r)
  <2>1. timed'[r] = (~late[r] /\ ask[r].mode = "smart" /\ ask[r].cached = "none"
                       /\ tier'[r] = "weak")
    BY <1>5 DEF Decide, decideRoute
  <2>2. timed' = [timed EXCEPT ![r] = timed'[r]]
    BY <1>5, <2>1 DEF Decide
  <2>3. /\ pc[r] = "decide" /\ pc' = [pc EXCEPT ![r] = "list"]
        /\ UNCHANGED <<ask, late, expired, slow, judged>>
    BY <1>5 DEF Decide
  <2>4. \A q \in Requests \ {r} : timed'[q] = timed[q] /\ pc'[q] = pc[q]
    BY <2>2, <2>3
  <2>5. pc'[r] = "list" /\ timed'[r] => judged[r] = 0
    BY <2>1, <2>3
  <2>6. QED
    BY <2>1, <2>3, <2>4, <2>5
<1>6. CASE List(r)
  BY <1>6 DEF List
<1>7. CASE Skip(r)
  BY <1>7 DEF Skip
<1>8. CASE Choose(r)
  BY <1>8 DEF Choose
<1>9. CASE Exhausted(r)
  BY <1>9 DEF Exhausted
<1>10. CASE OutOfKeys(r)
  BY <1>10 DEF OutOfKeys
<1>11. CASE TooLate(r)
  BY <1>11 DEF TooLate
<1>12. CASE Call(r)
  BY <1>12 DEF Call
<1>13. CASE Chunk(r)
  BY <1>13 DEF Chunk
<1>14. CASE Deadline(r)
  BY <1>14 DEF Deadline
<1>15. CASE Fails(r)
  BY <1>15 DEF Fails
<1>16. CASE Answers(r)
  BY <1>16 DEF Answers
<1>17. CASE Settle(r)
  BY <1>17 DEF Settle
<1>18. CASE Respond(r)
  BY <1>18 DEF Respond
<1>19. QED
  BY <1>1, <1>2, <1>3, <1>4, <1>5, <1>6, <1>7, <1>8, <1>9,
     <1>10, <1>11, <1>12, <1>13, <1>14, <1>15, <1>16, <1>17, <1>18 DEF RequestStep


\* What is listed was on when the list was made, so it is not among the models
\* that have been off all the time, and neither is the one that answers.
OffInv ==
    /\ \A r \in Requests : pc[r] # "idle" => off[r] \cap active = {}
    /\ \A r \in Requests : pc[r] \in Calling => listed[r] \cap off[r] = {}
    /\ \A r \in Requests : pc[r] = "idle" => used[r] = NoModel /\ chunks[r] = {}
    /\ InactiveNeverAnswers

\* A step of a request keeps what is listed apart from what has been off.
LEMMA OffStep ==
    ASSUME TInv, TypeOK', OffInv, NEW r \in Requests, RequestStep(r)
    PROVE  OffInv'
<1> USE DEF TypeOK, Goto, decision, timing, calls, judging, TInv, PlaceOK, OffInv,
        InactiveNeverAnswers, Calling
<1>1. CASE Arrive(r)
  <2>1. used[r] = NoModel /\ chunks[r] = {} /\ NoModel \notin off'[r]
    BY <1>1, PipelineAssumption DEF Arrive
  <2>2. off'[r] \cap active' = {}
    BY <1>1 DEF Arrive
  <2>3. QED
    BY <1>1, <2>1, <2>2 DEF Arrive
<1>2. CASE Prepare(r)
  BY <1>2 DEF Prepare
<1>3. CASE Refuse(r)
  BY <1>3 DEF Refuse
<1>4. CASE AskJudge(r)
  BY <1>4 DEF AskJudge
<1>5. CASE Decide(r)
  BY <1>5 DEF Decide
<1>6. CASE List(r)
  BY <1>6 DEF List
<1>7. CASE Skip(r)
  BY <1>7 DEF Skip
<1>8. CASE Choose(r)
  BY <1>8 DEF Choose
<1>9. CASE Exhausted(r)
  BY <1>9 DEF Exhausted
<1>10. CASE OutOfKeys(r)
  BY <1>10 DEF OutOfKeys
<1>11. CASE TooLate(r)
  BY <1>11 DEF TooLate
<1>12. CASE Call(r)
  BY <1>12 DEF Call
<1>13. CASE Chunk(r)
  BY <1>13 DEF Chunk
<1>14. CASE Deadline(r)
  BY <1>14 DEF Deadline
<1>15. CASE Fails(r)
  BY <1>15 DEF Fails
<1>16. CASE Answers(r)
  BY <1>16 DEF Answers
<1>17. CASE Settle(r)
  BY <1>17 DEF Settle
<1>18. CASE Respond(r)
  BY <1>18 DEF Respond
<1>19. QED
  BY <1>1, <1>2, <1>3, <1>4, <1>5, <1>6, <1>7, <1>8, <1>9,
     <1>10, <1>11, <1>12, <1>13, <1>14, <1>15, <1>16, <1>17, <1>18 DEF RequestStep

-----------------------------------------------------------------------------
(* The theorems *)

OperatorStep == (\E m \in Models : SetModelStatus(m)) \/ SetAllModelStatus

\* The next-state relation, by who takes the step.
LEMMA NextCases ==
    Next <=> (\E r \in Requests : RequestStep(r)) \/ OperatorStep
BY Zenon DEF Next, Handle, RequestStep, OperatorStep

IInv == TInv /\ TierInv /\ CycleInv /\ JudgeInv /\ OffInv

\* The inductive invariant holds at first.
LEMMA InitInv == Init => IInv
<1> SUFFICES ASSUME Init PROVE IInv
  OBVIOUS
<1>1. TypeOK
  <2>1. ask \in [Requests -> Asks]
    BY DEF Init, Asks
  <2>2. verdict \in [Requests -> Verdicts]
    BY DEF Init, Verdicts, NoVerdict, Impacts
  <2>3. QED
    BY <2>1, <2>2 DEF Init, TypeOK, PCs
<1>2. PlaceOK
  BY DEF Init, PlaceOK, Calling
<1>3. TierInv
  BY DEF Init, TierInv, AnswerFromTier, Ended, Decided
<1>4. CycleInv
  BY DEF Init, CycleInv, CycleGoesStrong, Decided
<1>5. JudgeInv
  BY DEF Init, JudgeInv, JudgeAsPromised
<1>6. OffInv
  BY DEF Init, OffInv, InactiveNeverAnswers, Calling
<1>7. QED
  BY <1>1, <1>2, <1>3, <1>4, <1>5, <1>6 DEF IInv, TInv

\* The operator's switches reach a request only through active and off.
LEMMA OperatorInv ==
    ASSUME IInv, OperatorStep
    PROVE  IInv'
<1> USE DEF OperatorStep
<1>0. UNCHANGED <<pc, ask, decision, late, timing, calls, judging, chunks>>
  BY DEF SetModelStatus, SetAllModelStatus
<1>1. TypeOK'
  BY TypeOperatorStep DEF IInv, TInv
<1>2. PlaceOK'
  BY <1>0 DEF IInv, TInv, PlaceOK, NoneLeft, Candidate, decision, timing, calls
<1>3. TierInv'
  BY <1>0 DEF IInv, TierInv, AnswerFromTier, Ended, decision, timing, calls
<1>4. CycleInv'
  BY <1>0 DEF IInv, CycleInv, CycleGoesStrong, decision, timing, calls
<1>5. JudgeInv'
  BY <1>0 DEF IInv, JudgeInv, JudgeAsPromised, timing, judging
<1>6. OffInv'
  <2>1. \A r \in Requests :
           /\ off'[r] \subseteq off[r]
           /\ off[r] \cap active = {} => off'[r] \cap active' = {}
    BY DEF IInv, TInv, TypeOK, SetModelStatus, SetAllModelStatus
  <2>2. QED
    BY <1>0, <2>1 DEF IInv, OffInv, InactiveNeverAnswers, calls
<1>7. QED
  BY <1>1, <1>2, <1>3, <1>4, <1>5, <1>6 DEF IInv, TInv

\* A step of a request preserves the inductive invariant.
LEMMA RequestInv ==
    ASSUME IInv, NEW r \in Requests, RequestStep(r)
    PROVE  IInv'
<1>1. TypeOK'
  BY TypeOneStep, TypeTwoStep DEF IInv, RequestStep
<1>2. PlaceOK'
  BY <1>1, PlaceStep DEF IInv
<1>3. TierInv' /\ CycleInv' /\ JudgeInv' /\ OffInv'
  BY <1>1, TierStep, CycleStep, JudgeStep, OffStep DEF IInv
<1>4. QED
  BY <1>1, <1>2, <1>3 DEF IInv, TInv

\* So does a step that changes nothing.
LEMMA StutterInv ==
    ASSUME IInv, UNCHANGED vars
    PROVE  IInv'
<1> USE DEF vars, decision, timing, calls, judging
<1>1. TInv'
  BY DEF IInv, TInv, TypeOK, PlaceOK, NoneLeft, Candidate
<1>2. TierInv' /\ CycleInv'
  BY DEF IInv, TierInv, AnswerFromTier, Ended, CycleInv, CycleGoesStrong
<1>3. JudgeInv' /\ OffInv'
  BY DEF IInv, JudgeInv, JudgeAsPromised, OffInv, InactiveNeverAnswers
<1>4. QED
  BY <1>1, <1>2, <1>3 DEF IInv

\* The inductive invariant holds throughout.
LEMMA Inductive == Spec => []IInv
<1>1. IInv /\ [Next]_vars => IInv'
  BY NextCases, RequestInv, OperatorInv, StutterInv
<1>2. QED
  BY InitInv, <1>1, PTL DEF Spec

\* Every variable keeps its type; the keys left never go below zero.
THEOREM PipelineTypeCorrect == Spec => []TypeOK
<1>1. IInv => TypeOK
  BY DEF IInv, TInv
<1>2. QED
  BY Inductive, <1>1, PTL

\* The answer comes from the tier that is reported, with any tiers, keys and
\* judges, and also when the deadline has led to a second decision.
THEOREM ReportedTierAnswered == Spec => []AnswerFromTier
<1>1. IInv => AnswerFromTier
  BY DEF IInv, TierInv
<1>2. QED
  BY Inductive, <1>1, PTL

\* A request with a detected cycle never calls a weak model: this needs the
\* tiers to be disjoint, which SentinelConfig.Validate enforces.
THEOREM CycleLeavesWeakTier == Spec => []CycleGoesStrong
<1>1. IInv => CycleGoesStrong
  BY DEF IInv, CycleInv
<1>2. QED
  BY Inductive, <1>1, PTL

\* The judge is asked at most once per request and only when it may be.
THEOREM JudgeOnceAndOnlyWhenDue == Spec => []JudgeAsPromised
<1>1. IInv => JudgeAsPromised
  BY DEF IInv, JudgeInv
<1>2. QED
  BY Inductive, <1>1, PTL

\* A model that was off from a request's arrival on does not answer it,
\* whenever the operator switches it.
THEOREM OffModelNeverAnswers == Spec => []InactiveNeverAnswers
<1>1. IInv => InactiveNeverAnswers
  BY DEF IInv, OffInv
<1>2. QED
  BY Inductive, <1>1, PTL
=============================================================================
