--------------------------- MODULE RouterPartsProofs ---------------------------
(***************************************************************************)
(* Proofs about the parts the router is put together from, each with its   *)
(* own specification: the registry of judges, the sliding-window limiter,  *)
(* the registry of cycle detectors and the dynamic threshold.  They hold   *)
(* for any number of judges, calls, requests and sessions and any limits,  *)
(* windows and thresholds.  The limiter, the cycle detectors and the       *)
(* threshold keep the end of a sequence, and share what is said of it.     *)
(***************************************************************************)
EXTENDS JudgeRegistry, RateLimiter, EscalationControl, CycleDetection,
        FiniteSetTheorems, SequenceTheorems, TLAPS


-----------------------------------------------------------------------------
(* JudgeRegistry                                                           *)

LEMMA MinOfTwo ==
    ASSUME NEW a \in Int, NEW b \in Int
    PROVE  Min({a, b}) = IF a <= b THEN a ELSE b
<1>1. \E x \in {a, b} : \A y \in {a, b} : x <= y
  <2>1. CASE a <= b
    BY <2>1
  <2>2. CASE b <= a
    BY <2>2
  <2>3. QED
    BY <2>1, <2>2
<1>2. Min({a, b}) \in {a, b} /\ \A y \in {a, b} : Min({a, b}) <= y
  BY <1>1 DEF Min
<1>3. QED
  BY <1>2

LEMMA EnoughType == Enough \in Nat /\ Cardinality(Evaluations) \in Nat
BY RegistryAssumption, FS_CardinalityType DEF Enough

\* A count goes up by one, and not beyond its bound.
LEMMA CountedUp ==
    ASSUME NEW bound \in Nat, NEW f \in [Judges -> 0..bound], NEW j \in Judges
    PROVE  /\ Counted(f, j, bound) \in [Judges -> 0..bound]
           /\ Counted(f, j, bound)[j] = IF f[j] < bound THEN f[j] + 1 ELSE bound
           /\ \A i \in Judges : i # j => Counted(f, j, bound)[i] = f[i]
<1>1. f[j] \in 0..bound
  OBVIOUS
<1>2. Min({f[j] + 1, bound}) = IF f[j] + 1 <= bound THEN f[j] + 1 ELSE bound
  BY <1>1, MinOfTwo
<1>3. Counted(f, j, bound) = [f EXCEPT ![j] = Min({f[j] + 1, bound})]
  BY DEF Counted
<1>4. QED
  BY <1>1, <1>2, <1>3

-----------------------------------------------------------------------------
(* Types *)

\* A judge that is being called is one of the order, and an idle evaluation is
\* at its beginning.
PlaceOK ==
    \A e \in Evaluations :
        /\ place[e] = "calling" => next[e] <= Len(ModelOrder)
        /\ place[e] = "idle" => next[e] = 1 /\ healthy[e] = {}

TInv == TypeOK /\ PlaceOK

LEMMA LenType == Len(ModelOrder) \in Nat /\ ModelOrder \in [1..Len(ModelOrder) -> Judges]
BY RegistryAssumption

\* The judge whose turn it is.
LEMMA CandidateType ==
    ASSUME TypeOK, NEW e \in Evaluations, next[e] <= Len(ModelOrder)
    PROVE  Candidate(e) \in Judges /\ next[e] \in 1..Len(ModelOrder)
<1>1. next[e] \in 1..Len(ModelOrder)
  BY LenType DEF TypeOK
<1>2. QED
  BY <1>1, LenType DEF Candidate

LEMMA InitT == Init => TInv
<1> SUFFICES ASSUME Init
             PROVE  TInv
  OBVIOUS
<1>1. FailureThreshold \in Nat \ {0} /\ Cooldown \in Nat \ {0} /\ MaxAttempts \in Nat \ {0}
  BY RegistryAssumption
<1>2. failures \in [Judges -> 0..FailureThreshold]
  BY <1>1 DEF Init
<1>3. circuit \in [Judges -> Closed..Cooldown]
  BY <1>1 DEF Init, Closed
<1>4. next \in [Evaluations -> 1..(Len(ModelOrder) + 1)]
  BY LenType DEF Init
<1>5. attempts \in [Evaluations -> 0..MaxAttempts]
  BY <1>1 DEF Init
<1>6. burst \in [Judges -> 0..Enough]
  BY EnoughType DEF Init
<1>7. \A j \in Judges : circuit[j] # Closed <=> failures[j] = FailureThreshold
  BY <1>1 DEF Init
<1>8. PlaceOK
  BY DEF Init, PlaceOK
<1>9. QED
  BY <1>2, <1>3, <1>4, <1>5, <1>6, <1>7, <1>8 DEF Init, TInv, TypeOK

\* The end of an evaluation.
LEMMA ReturnT ==
    ASSUME TInv, NEW e \in Evaluations, Return(e)
    PROVE  /\ place' \in [Evaluations -> {"idle", "choosing", "calling", "heuristic"}]
           /\ next' \in [Evaluations -> 1..(Len(ModelOrder) + 1)]
           /\ attempts' \in [Evaluations -> 0..MaxAttempts]
           /\ usable' \in [Evaluations -> SUBSET Judges]
           /\ cancelled' \in [Evaluations -> BOOLEAN]
           /\ healthy' \in [Evaluations -> SUBSET Judges]
           /\ PlaceOK'
<1> USE DEF TInv, TypeOK, Return
<1>1. next' \in [Evaluations -> 1..(Len(ModelOrder) + 1)]
  BY LenType
<1>2. attempts' \in [Evaluations -> 0..MaxAttempts]
  BY RegistryAssumption
<1>3. place'[e] = "idle" /\ next'[e] = 1 /\ healthy'[e] = {}
  OBVIOUS
<1>4. \A d \in Evaluations : d # e => place'[d] = place[d] /\ next'[d] = next[d] /\ healthy'[d] = healthy[d]
  OBVIOUS
<1>5. PlaceOK'
  BY <1>3, <1>4 DEF PlaceOK
<1>6. QED
  BY <1>1, <1>2, <1>5

\* What a step leaves of the circuits, and what it makes of them.
CircuitsOK ==
    /\ failures \in [Judges -> 0..FailureThreshold]
    /\ circuit \in [Judges -> Closed..Cooldown]
    /\ \A j \in Judges : circuit[j] # Closed <=> failures[j] = FailureThreshold
    /\ burst \in [Judges -> 0..Enough]

LEMMA SuccessCircuits ==
    ASSUME TInv, NEW e \in Evaluations, Success(e)
    PROVE  CircuitsOK'
<1>1. PICK j \in Judges :
        /\ failures' = [failures EXCEPT ![j] = 0]
        /\ circuit' = [circuit EXCEPT ![j] = Closed]
        /\ burst' = [burst EXCEPT ![j] = 0]
  <2>1. Candidate(e) \in Judges
    BY CandidateType DEF TInv, PlaceOK, Success
  <2>2. QED
    BY <2>1 DEF Success
<1>2. FailureThreshold \in Nat \ {0} /\ Closed \in Closed..Cooldown /\ 0 \in 0..Enough
  BY RegistryAssumption, EnoughType DEF Closed
<1>3. /\ failures' \in [Judges -> 0..FailureThreshold]
      /\ circuit' \in [Judges -> Closed..Cooldown]
      /\ burst' \in [Judges -> 0..Enough]
  BY <1>1, <1>2 DEF TInv, TypeOK
<1>4. failures'[j] = 0 /\ circuit'[j] = Closed
  BY <1>1 DEF TInv, TypeOK
<1>5. \A i \in Judges : i # j => failures'[i] = failures[i] /\ circuit'[i] = circuit[i]
  BY <1>1 DEF TInv, TypeOK
<1>6. QED
  BY <1>2, <1>3, <1>4, <1>5 DEF TInv, TypeOK, CircuitsOK

LEMMA FailCircuits ==
    ASSUME TInv, NEW j \in Judges, RecordFailure(j), burst' = Counted(burst, j, Enough)
    PROVE  CircuitsOK'
<1>1. FailureThreshold \in Nat \ {0} /\ Cooldown \in Nat \ {0}
  BY RegistryAssumption
<1>2. /\ failures' \in [Judges -> 0..FailureThreshold]
      /\ failures'[j] = IF failures[j] < FailureThreshold THEN failures[j] + 1 ELSE FailureThreshold
      /\ \A i \in Judges : i # j => failures'[i] = failures[i]
  <2>1. failures \in [Judges -> 0..FailureThreshold] /\ FailureThreshold \in Nat
    BY <1>1 DEF TInv, TypeOK
  <2>2. failures' = Counted(failures, j, FailureThreshold)
    BY DEF RecordFailure
  <2>3. QED
    BY <2>1, <2>2, CountedUp
<1>3. burst' \in [Judges -> 0..Enough]
  BY EnoughType, CountedUp DEF TInv, TypeOK
<1>4. Cooldown \in Closed..Cooldown /\ Cooldown # Closed
  BY <1>1 DEF Closed
<1>5. circuit' \in [Judges -> Closed..Cooldown]
  BY <1>4 DEF TInv, TypeOK, RecordFailure
<1>6. failures[j] \in 0..FailureThreshold
  BY DEF TInv, TypeOK
<1>7. circuit'[j] # Closed <=> failures'[j] = FailureThreshold
  <2>1. CASE failures[j] + 1 >= FailureThreshold
    BY <1>1, <1>2, <1>4, <1>6, <2>1 DEF TInv, TypeOK, RecordFailure
  <2>2. CASE ~(failures[j] + 1 >= FailureThreshold)
    BY <1>1, <1>2, <1>6, <2>2 DEF TInv, TypeOK, RecordFailure
  <2>3. QED
    BY <2>1, <2>2
<1>8. \A i \in Judges : i # j => circuit'[i] = circuit[i]
  BY DEF TInv, TypeOK, RecordFailure
<1>9. QED
  BY <1>2, <1>3, <1>5, <1>7, <1>8 DEF TInv, TypeOK, CircuitsOK

\* The steps that leave the circuits alone.
LEMMA QuietT ==
    ASSUME TInv, NEW e \in Evaluations,
           \/ Start(e) \/ Cancel(e) \/ Skip(e) \/ Call(e) \/ Heuristic(e) \/ HeuristicReturns(e)
    PROVE  TInv'
<1> USE DEF TInv, TypeOK, circuits, evaluation
<1>1. CASE Start(e)
  <2>1. PICK js \in Configured :
          /\ usable' = [usable EXCEPT ![e] = js]
          /\ healthy' = [healthy EXCEPT ![e] = {j \in js \cap Range(ModelOrder) : IsAvailable(j)}]
    BY <1>1 DEF Start
  <2>2. js \subseteq Judges
    BY RegistryAssumption
  <2>3. usable' \in [Evaluations -> SUBSET Judges] /\ healthy' \in [Evaluations -> SUBSET Judges]
    BY <2>1, <2>2
  <2>4. \A d \in Evaluations : d # e => healthy'[d] = healthy[d]
    BY <2>1
  <2>5. place'[e] = "choosing" /\ \A d \in Evaluations : d # e => place'[d] = place[d]
    BY <1>1 DEF Start
  <2>6. next' = next
    BY <1>1 DEF Start
  <2>7. PlaceOK'
    BY <2>4, <2>5, <2>6 DEF PlaceOK
  <2>8. QED
    BY <1>1, <2>3, <2>7 DEF Start
<1>2. CASE Cancel(e)
  BY <1>2 DEF Cancel, PlaceOK
<1>3. CASE Skip(e)
  <2>1. next' \in [Evaluations -> 1..(Len(ModelOrder) + 1)]
    BY <1>3, LenType DEF Skip, MayTry
  <2>2. PlaceOK'
    BY <1>3 DEF Skip, MayTry, PlaceOK
  <2>3. QED
    BY <1>3, <2>1, <2>2 DEF Skip
<1>4. CASE Call(e)
  <2>1. attempts' \in [Evaluations -> 0..MaxAttempts]
    <3>1. attempts[e] \in 0..MaxAttempts /\ attempts[e] < MaxAttempts /\ MaxAttempts \in Nat
      BY <1>4, RegistryAssumption DEF Call, MayTry
    <3>2. attempts[e] + 1 \in 0..MaxAttempts
      BY <3>1
    <3>3. QED
      BY <1>4, <3>2 DEF Call
  <2>2. PlaceOK'
    BY <1>4 DEF Call, MayTry, PlaceOK
  <2>3. QED
    BY <1>4, <2>1, <2>2 DEF Call
<1>5. CASE Heuristic(e)
  BY <1>5 DEF Heuristic, PlaceOK
<1>6. CASE HeuristicReturns(e)
  BY <1>6, ReturnT DEF HeuristicReturns
<1>7. QED
  BY <1>1, <1>2, <1>3, <1>4, <1>5, <1>6

LEMMA FailT ==
    ASSUME TInv, NEW e \in Evaluations, Fail(e)
    PROVE  TInv'
<1>1. Candidate(e) \in Judges /\ next[e] \in 1..Len(ModelOrder)
  BY CandidateType DEF TInv, PlaceOK, Fail
<1>2. CircuitsOK'
  BY <1>1, FailCircuits DEF Fail
<1>3. next' \in [Evaluations -> 1..(Len(ModelOrder) + 1)]
  BY <1>1, LenType DEF TInv, TypeOK, Fail
<1>4. healthy' \in [Evaluations -> SUBSET Judges]
  BY DEF TInv, TypeOK, Fail
<1>5. PlaceOK'
  <2>1. place'[e] = "choosing"
    BY DEF TInv, TypeOK, Fail
  <2>2. \A d \in Evaluations : d # e => place'[d] = place[d] /\ next'[d] = next[d]
    BY DEF TInv, TypeOK, Fail
  <2>3. \A d \in Evaluations : healthy'[d] \subseteq healthy[d]
    BY DEF Fail
  <2>4. QED
    BY <2>1, <2>2, <2>3 DEF TInv, PlaceOK
<1>6. QED
  BY <1>2, <1>3, <1>4, <1>5 DEF TInv, TypeOK, Fail, CircuitsOK

LEMMA TickT ==
    ASSUME TInv, Tick
    PROVE  TInv'
<1>1. Cooldown \in Nat
  BY RegistryAssumption
<1>2. circuit' \in [Judges -> Closed..Cooldown]
  BY <1>1 DEF TInv, TypeOK, Tick, Closed
<1>3. burst' \in [Judges -> 0..Enough]
  BY EnoughType DEF TInv, TypeOK, Tick
<1>4. \A j \in Judges : circuit'[j] # Closed <=> circuit[j] # Closed
  BY <1>1 DEF TInv, TypeOK, Tick, Closed
<1>5. QED
  BY <1>2, <1>3, <1>4 DEF TInv, TypeOK, PlaceOK, Tick, evaluation

LEMMA NextT == TInv /\ [Next]_vars => TInv'
<1> SUFFICES ASSUME TInv, [Next]_vars
             PROVE  TInv'
  OBVIOUS
<1>1. ASSUME NEW e \in Evaluations, Success(e)
      PROVE  TInv'
  <2>1. CircuitsOK'
    BY <1>1, SuccessCircuits
  <2>2. QED
    BY <1>1, <2>1, ReturnT DEF Success, TInv, TypeOK, CircuitsOK
<1>2. CASE UNCHANGED vars
  BY <1>2 DEF TInv, TypeOK, PlaceOK, vars, circuits, evaluation
<1>3. QED
  BY <1>1, <1>2, QuietT, FailT, TickT DEF Next, Advance

\* Every variable keeps its type; a circuit has an entry exactly when the
\* threshold of failures has been met (health.go:44-60).
THEOREM RegistryTypeCorrect == Spec => []TypeOK
<1>1. TInv => TypeOK
  BY DEF TInv
<1>2. QED
  BY <1>1, InitT, NextT, PTL DEF Spec

-----------------------------------------------------------------------------
(* The heuristic is the last resort *)

\* While an evaluation goes through the order, a judge that stayed available
\* and uncalled is still ahead of it.
HealthyAhead ==
    /\ \A e \in Evaluations, j \in Judges :
          place[e] \in {"choosing", "calling"} /\ j \in healthy[e] =>
              /\ j \in usable[e] /\ IsAvailable(j)
              /\ \E k \in next[e]..Len(ModelOrder) : ModelOrder[k] = j
    /\ \A e \in Evaluations :
          /\ place[e] = "calling" => Candidate(e) \notin healthy[e]
          /\ place[e] = "heuristic" => attempts[e] = MaxAttempts \/ healthy[e] = {}

LEMMA InitAhead == Init => HealthyAhead
BY DEF Init, HealthyAhead

\* A step of e that leaves the others alone, and leaves ahead of e what it was
\* to ask.
LEMMA AheadOfOthers ==
    ASSUME TInv, HealthyAhead, NEW e \in Evaluations,
           \A d \in Evaluations : d # e =>
               /\ place'[d] = place[d] /\ next'[d] = next[d] /\ usable'[d] = usable[d]
               /\ attempts'[d] = attempts[d] /\ healthy'[d] \subseteq healthy[d]
               /\ \A j \in healthy'[d] : IsAvailable(j) => IsAvailable(j)',
           place'[e] \in {"choosing", "calling"} =>
               \A j \in healthy'[e] :
                   /\ j \in usable'[e] /\ IsAvailable(j)'
                   /\ \E k \in next'[e]..Len(ModelOrder) : ModelOrder[k] = j,
           place'[e] = "calling" => Candidate(e)' \notin healthy'[e],
           place'[e] = "heuristic" => attempts'[e] = MaxAttempts \/ healthy'[e] = {}
    PROVE  HealthyAhead'
<1>1. ASSUME NEW d \in Evaluations, NEW j \in Judges,
             place'[d] \in {"choosing", "calling"}, j \in healthy'[d]
      PROVE  /\ j \in usable'[d] /\ IsAvailable(j)'
             /\ \E k \in next'[d]..Len(ModelOrder) : ModelOrder[k] = j
  <2>1. CASE d = e
    BY <1>1, <2>1
  <2>2. CASE d # e
    <3>1. /\ place[d] \in {"choosing", "calling"} /\ j \in healthy[d]
          /\ usable'[d] = usable[d] /\ next'[d] = next[d]
      BY <1>1, <2>2
    <3>2. j \in usable[d] /\ IsAvailable(j) /\ \E k \in next[d]..Len(ModelOrder) : ModelOrder[k] = j
      BY <3>1 DEF HealthyAhead
    <3>3. QED
      BY <1>1, <2>2, <3>1, <3>2
  <2>3. QED
    BY <2>1, <2>2
<1>2. ASSUME NEW d \in Evaluations
      PROVE  /\ place'[d] = "calling" => Candidate(d)' \notin healthy'[d]
             /\ place'[d] = "heuristic" => attempts'[d] = MaxAttempts \/ healthy'[d] = {}
  <2>1. CASE d = e
    BY <2>1
  <2>2. CASE d # e
    BY <2>2 DEF HealthyAhead, Candidate
  <2>3. QED
    BY <2>1, <2>2
<1>3. QED
  BY <1>1, <1>2 DEF HealthyAhead

LEMMA StartAhead ==
    ASSUME TInv, HealthyAhead, NEW e \in Evaluations, Start(e)
    PROVE  HealthyAhead'
<1> USE DEF TInv, TypeOK, PlaceOK, circuits
<1>1. PICK js \in Configured :
        /\ usable' = [usable EXCEPT ![e] = js]
        /\ healthy' = [healthy EXCEPT ![e] = {j \in js \cap Range(ModelOrder) : IsAvailable(j)}]
  BY DEF Start
<1>2. place'[e] = "choosing" /\ next'[e] = 1 /\ usable'[e] = js
  BY <1>1 DEF Start
<1>3. \A j \in healthy'[e] : j \in js /\ j \in Range(ModelOrder) /\ IsAvailable(j)
  BY <1>1
<1>4. \A j \in Range(ModelOrder) : \E k \in 1..Len(ModelOrder) : ModelOrder[k] = j
  BY LenType DEF Range
<1>5. \A d \in Evaluations : d # e =>
        /\ place'[d] = place[d] /\ next'[d] = next[d] /\ usable'[d] = usable[d]
        /\ attempts'[d] = attempts[d] /\ healthy'[d] = healthy[d]
  BY <1>1 DEF Start
<1>6. circuit' = circuit
  BY DEF Start
<1>7. \A j : IsAvailable(j) => IsAvailable(j)'
  BY <1>6 DEF IsAvailable
<1> HIDE DEF TInv, TypeOK, PlaceOK, circuits
<1>8. QED
  BY <1>2, <1>3, <1>4, <1>5, <1>7, AheadOfOthers

LEMMA SkipAhead ==
    ASSUME TInv, HealthyAhead, NEW e \in Evaluations, Skip(e)
    PROVE  HealthyAhead'
<1> USE DEF TInv, TypeOK, PlaceOK, circuits
<1>1. next[e] \in 1..Len(ModelOrder) /\ place[e] = "choosing"
  BY CandidateType DEF Skip, MayTry
<1>2. next'[e] = next[e] + 1 /\ \A d \in Evaluations : d # e => next'[d] = next[d]
  BY DEF Skip
<1>3. UNCHANGED <<failures, circuit, burst, place, attempts, usable, cancelled, healthy>>
  BY DEF Skip
<1>4. Candidate(e) \notin healthy[e]
  BY <1>1, CandidateType DEF Skip, HealthyAhead
<1>5. \A j \in healthy[e] : \E k \in next'[e]..Len(ModelOrder) : ModelOrder[k] = j
  <2> SUFFICES ASSUME NEW j \in healthy[e]
               PROVE  \E k \in next'[e]..Len(ModelOrder) : ModelOrder[k] = j
    OBVIOUS
  <2>1. PICK k \in next[e]..Len(ModelOrder) : ModelOrder[k] = j
    BY <1>1 DEF HealthyAhead
  <2>2. k # next[e]
    BY <1>4, <2>1 DEF Candidate
  <2>3. k \in next'[e]..Len(ModelOrder)
    BY <1>1, <1>2, <2>1, <2>2, LenType
  <2>4. QED
    BY <2>1, <2>3
<1>6. \A j : IsAvailable(j) => IsAvailable(j)'
  BY <1>3 DEF IsAvailable
<1>7. \A j \in healthy[e] : j \in usable[e] /\ IsAvailable(j)
  BY <1>1 DEF HealthyAhead
<1> HIDE DEF TInv, TypeOK, PlaceOK, circuits
<1>8. QED
  BY <1>1, <1>2, <1>3, <1>5, <1>6, <1>7, AheadOfOthers

LEMMA CallAhead ==
    ASSUME TInv, HealthyAhead, NEW e \in Evaluations, Call(e)
    PROVE  HealthyAhead'
<1> USE DEF TInv, TypeOK, PlaceOK, circuits
<1>1. place[e] = "choosing" /\ place'[e] = "calling"
  BY DEF Call, MayTry
<1>2. healthy'[e] = healthy[e] \ {Candidate(e)}
  BY DEF Call
<1>3. \A d \in Evaluations : d # e =>
        place'[d] = place[d] /\ attempts'[d] = attempts[d] /\ healthy'[d] = healthy[d]
  BY DEF Call
<1>4. UNCHANGED <<circuit, next, usable>>
  BY DEF Call
<1>5. \A j : IsAvailable(j) => IsAvailable(j)'
  BY <1>4 DEF IsAvailable
<1>6. \A j \in healthy[e] : /\ j \in usable[e] /\ IsAvailable(j)
                            /\ \E k \in next[e]..Len(ModelOrder) : ModelOrder[k] = j
  BY <1>1 DEF HealthyAhead
<1>7. Candidate(e)' = Candidate(e)
  BY <1>4 DEF Candidate
<1> HIDE DEF TInv, TypeOK, PlaceOK, circuits
<1>8. QED
  BY <1>1, <1>2, <1>3, <1>4, <1>5, <1>6, <1>7, AheadOfOthers

LEMMA HeuristicAhead ==
    ASSUME TInv, HealthyAhead, NEW e \in Evaluations, Heuristic(e)
    PROVE  HealthyAhead'
<1> USE DEF TInv, TypeOK, PlaceOK, circuits, evaluation
<1>1. place[e] = "choosing" /\ place'[e] = "heuristic"
  BY DEF Heuristic
<1>2. UNCHANGED <<circuit, next, usable, attempts, healthy>>
  BY DEF Heuristic
<1>3. attempts[e] = MaxAttempts \/ healthy[e] = {}
  <2>1. CASE attempts[e] >= MaxAttempts
    BY <2>1, RegistryAssumption
  <2>2. CASE next[e] > Len(ModelOrder)
    BY <1>1, <2>2, LenType DEF HealthyAhead
  <2>3. QED
    BY <2>1, <2>2 DEF Heuristic
<1>4. \A d \in Evaluations : d # e => place'[d] = place[d]
  BY DEF Heuristic
<1>5. QED
  BY <1>1, <1>2, <1>3, <1>4 DEF HealthyAhead, IsAvailable, Candidate

\* An evaluation that returns, while every circuit that was open for a while
\* or closed stays so or is closed.
LEMMA ReturnAhead ==
    ASSUME TInv, HealthyAhead, NEW e \in Evaluations, Return(e),
           \A j \in Judges : circuit'[j] = circuit[j] \/ circuit'[j] = Closed
    PROVE  HealthyAhead'
<1> USE DEF TInv, TypeOK, PlaceOK, Return
<1>1. place'[e] = "idle"
  OBVIOUS
<1>2. \A d \in Evaluations : d # e =>
        /\ place'[d] = place[d] /\ next'[d] = next[d] /\ usable'[d] = usable[d]
        /\ attempts'[d] = attempts[d] /\ healthy'[d] = healthy[d]
  OBVIOUS
<1>3. ASSUME NEW j \in Judges, IsAvailable(j)
      PROVE  IsAvailable(j)'
  <2>1. circuit'[j] = circuit[j] \/ circuit'[j] = -1
    BY DEF Closed
  <2>2. QED
    BY <1>3, <2>1 DEF IsAvailable
<1>4. \A d \in Evaluations : healthy[d] \subseteq Judges
  OBVIOUS
<1> HIDE DEF TInv, TypeOK, PlaceOK, Return
<1>5. QED
  BY <1>1, <1>2, <1>3, <1>4, AheadOfOthers

LEMMA FailAhead ==
    ASSUME TInv, HealthyAhead, NEW e \in Evaluations, Fail(e)
    PROVE  HealthyAhead'
<1> USE DEF TInv, TypeOK, PlaceOK, circuits
<1>1. next[e] \in 1..Len(ModelOrder) /\ place[e] = "calling" /\ place'[e] = "choosing"
  BY CandidateType DEF Fail
<1>2. next'[e] = next[e] + 1 /\ \A d \in Evaluations : d # e => next'[d] = next[d]
  BY DEF Fail
<1>3. \A d \in Evaluations : healthy'[d] = {j \in healthy[d] : circuit'[j] <= 0}
  BY DEF Fail
<1>4. \A d \in Evaluations : d # e => place'[d] = place[d]
  BY DEF Fail
<1>5. UNCHANGED <<attempts, usable>>
  BY DEF Fail
<1>6. Candidate(e) \notin healthy[e]
  BY <1>1 DEF HealthyAhead
<1>7. \A j \in healthy[e] : \E k \in next'[e]..Len(ModelOrder) : ModelOrder[k] = j
  <2> SUFFICES ASSUME NEW j \in healthy[e]
               PROVE  \E k \in next'[e]..Len(ModelOrder) : ModelOrder[k] = j
    OBVIOUS
  <2>1. PICK k \in next[e]..Len(ModelOrder) : ModelOrder[k] = j
    BY <1>1 DEF HealthyAhead
  <2>2. k # next[e]
    BY <1>6, <2>1 DEF Candidate
  <2>3. k \in next'[e]..Len(ModelOrder)
    BY <1>1, <1>2, <2>1, <2>2, LenType
  <2>4. QED
    BY <2>1, <2>3
<1>8. QED
  BY <1>1, <1>2, <1>3, <1>4, <1>5, <1>7 DEF HealthyAhead, IsAvailable, Candidate

LEMMA NextAhead == TInv /\ HealthyAhead /\ [Next]_vars => HealthyAhead'
<1> SUFFICES ASSUME TInv, HealthyAhead, [Next]_vars
             PROVE  HealthyAhead'
  OBVIOUS
<1>1. ASSUME NEW e \in Evaluations, Cancel(e)
      PROVE  HealthyAhead'
  BY <1>1 DEF Cancel, HealthyAhead, IsAvailable, Candidate, circuits
<1>2. ASSUME NEW e \in Evaluations, Success(e)
      PROVE  HealthyAhead'
  <2>1. \A j \in Judges : circuit'[j] = circuit[j] \/ circuit'[j] = Closed
    BY <1>2 DEF Success, TInv, TypeOK
  <2>2. QED
    BY <1>2, <2>1, ReturnAhead DEF Success
<1>3. ASSUME NEW e \in Evaluations, HeuristicReturns(e)
      PROVE  HealthyAhead'
  BY <1>3, ReturnAhead DEF HeuristicReturns, circuits
<1>4. CASE Tick
  <2>1. \A j \in Judges : IsAvailable(j) => IsAvailable(j)'
    BY <1>4 DEF Tick, IsAvailable, TInv, TypeOK
  <2>2. QED
    BY <1>4, <2>1 DEF Tick, HealthyAhead, Candidate, evaluation
<1>5. CASE UNCHANGED vars
  BY <1>5 DEF vars, circuits, evaluation, HealthyAhead, IsAvailable, Candidate
<1>6. QED
  BY <1>1, <1>2, <1>3, <1>4, <1>5, StartAhead, SkipAhead, CallAhead, HeuristicAhead, FailAhead
     DEF Next, Advance

\* The heuristic answers only when the attempts are used up or when no usable
\* judge stayed available and uncalled (registry.go:31, 57).
THEOREM JudgesComeFirst == Spec => []HeuristicIsLastResort
<1>1. HealthyAhead => HeuristicIsLastResort
  BY DEF HealthyAhead, HeuristicIsLastResort
<1>2. QED
  BY <1>1, InitT, NextT, InitAhead, NextAhead, PTL DEF Spec

-----------------------------------------------------------------------------
(* A failing judge is spared *)

Callers(j) == {e \in Evaluations : place[e] = "calling" /\ Candidate(e) = j}

\* Failures in a row while a circuit is closed, none of them counted against a
\* judge whose cooldown is over, and those that are still to come in an open one.
Counts(j) ==
    /\ circuit[j] = Closed => burst[j] <= failures[j]
    /\ circuit[j] = 0 => burst[j] = 0
    /\ circuit[j] > 0 => burst[j] + Cardinality(Callers(j)) <= FailureThreshold - 1 + Cardinality(Evaluations)

CountsOK == \A j \in Judges : Counts(j)

LEMMA InitCounts == Init => CountsOK
BY DEF Init, CountsOK, Counts, Closed

LEMMA CallersFinite ==
    ASSUME NEW j
    PROVE  /\ IsFiniteSet(Callers(j)) /\ Cardinality(Callers(j)) \in Nat
           /\ Cardinality(Callers(j)) <= Cardinality(Evaluations)
<1>1. Callers(j) \subseteq Evaluations /\ IsFiniteSet(Evaluations)
  BY RegistryAssumption DEF Callers
<1>2. IsFiniteSet(Callers(j)) /\ Cardinality(Callers(j)) <= Cardinality(Evaluations)
  BY <1>1, FS_Subset
<1>3. QED
  BY <1>2, FS_CardinalityType

\* The types that the counting needs.
LEMMA CountTypes ==
    ASSUME TInv, NEW j \in Judges
    PROVE  /\ failures[j] \in 0..FailureThreshold /\ burst[j] \in 0..Enough
           /\ circuit[j] \in Closed..Cooldown
           /\ (circuit[j] # Closed <=> failures[j] = FailureThreshold)
           /\ FailureThreshold \in Nat \ {0} /\ Cooldown \in Nat \ {0}
           /\ Cardinality(Evaluations) \in Nat /\ Enough \in Nat
BY RegistryAssumption, EnoughType DEF TInv, TypeOK

\* A judge of which nothing changes but that it may lose callers, or gain one
\* with its circuit not open.
LEMMA CountsKept ==
    ASSUME TInv, CountsOK, NEW j \in Judges,
           circuit'[j] = circuit[j], burst'[j] = burst[j], failures'[j] = failures[j],
           circuit[j] > 0 => Callers(j)' \subseteq Callers(j)
    PROVE  Counts(j)'
<1>1. CASE circuit[j] > 0
  <2>1. Cardinality(Callers(j)') <= Cardinality(Callers(j)) /\ Cardinality(Callers(j)') \in Nat
    BY <1>1, CallersFinite, FS_Subset, FS_CardinalityType
  <2>2. burst[j] + Cardinality(Callers(j)) <= FailureThreshold - 1 + Cardinality(Evaluations)
    BY <1>1 DEF CountsOK, Counts
  <2>3. burst[j] + Cardinality(Callers(j)') <= FailureThreshold - 1 + Cardinality(Evaluations)
    BY <2>1, <2>2, CallersFinite, CountTypes
  <2>4. circuit[j] # Closed /\ circuit[j] # 0
    BY <1>1 DEF Closed
  <2>5. QED
    BY <2>3, <2>4 DEF Counts
<1>2. CASE ~(circuit[j] > 0)
  BY <1>2 DEF CountsOK, Counts
<1>3. QED
  BY <1>1, <1>2

LEMMA QuietCounts ==
    ASSUME TInv, CountsOK, NEW e \in Evaluations,
           \/ Start(e) \/ Cancel(e) \/ Skip(e) \/ Call(e) \/ Heuristic(e) \/ HeuristicReturns(e)
    PROVE  CountsOK'
<1> SUFFICES ASSUME NEW j \in Judges
             PROVE  Counts(j)'
  BY DEF CountsOK
<1>1. UNCHANGED circuits
  BY DEF Start, Cancel, Skip, Call, Heuristic, HeuristicReturns
<1>2. ASSUME circuit[j] > 0, NEW d \in Callers(j)'
      PROVE  d \in Callers(j)
  <2>1. d \in Evaluations /\ place'[d] = "calling" /\ Candidate(d)' = j
    BY <1>2 DEF Callers
  <2>2. CASE d # e
    <3>1. place[d] = place'[d] /\ next[d] = next'[d]
      <4>1. place \in [Evaluations -> {"idle", "choosing", "calling", "heuristic"}]
            /\ next \in [Evaluations -> 1..(Len(ModelOrder) + 1)]
        BY DEF TInv, TypeOK
      <4>2. CASE Start(e) \/ Cancel(e) \/ Call(e) \/ Heuristic(e)
        BY <2>1, <2>2, <4>1, <4>2 DEF Start, Cancel, Call, Heuristic, evaluation
      <4>3. CASE Skip(e)
        BY <2>1, <2>2, <4>1, <4>3 DEF Skip
      <4>4. CASE HeuristicReturns(e)
        BY <2>1, <2>2, <4>1, <4>4 DEF HeuristicReturns, Return
      <4>5. QED
        BY <4>2, <4>3, <4>4
    <3>2. QED
      BY <2>1, <3>1 DEF Callers, Candidate
  <2>3. CASE d = e /\ Call(e)
    <3>1. Candidate(e)' = Candidate(e) /\ IsAvailable(Candidate(e))
      BY <2>3 DEF Call, Candidate
    <3>2. circuit[j] <= 0
      BY <2>1, <2>3, <3>1 DEF IsAvailable
    <3>3. QED
      BY <1>2, <3>2, CountTypes DEF Closed
  <2>4. CASE d = e /\ Cancel(e)
    BY <2>1, <2>4 DEF Cancel, Callers, Candidate
  <2>5. CASE d = e /\ (Start(e) \/ Skip(e) \/ Heuristic(e) \/ HeuristicReturns(e))
    BY <2>1, <2>5 DEF Start, Skip, MayTry, Heuristic, HeuristicReturns, Return, TInv, TypeOK
  <2>6. QED
    BY <2>2, <2>3, <2>4, <2>5
<1>3. circuit[j] > 0 => Callers(j)' \subseteq Callers(j)
  BY <1>2
<1>4. QED
  BY <1>1, <1>3, CountsKept DEF circuits

LEMMA SuccessCounts ==
    ASSUME TInv, CountsOK, NEW e \in Evaluations, Success(e)
    PROVE  CountsOK'
<1> SUFFICES ASSUME NEW j \in Judges
             PROVE  Counts(j)'
  BY DEF CountsOK
<1>1. CASE j = Candidate(e)
  <2>1. burst'[j] = 0 /\ failures'[j] = 0 /\ circuit'[j] = Closed
    BY <1>1 DEF Success, TInv, TypeOK
  <2>2. QED
    BY <2>1 DEF Counts, Closed
<1>2. CASE j # Candidate(e)
  <2>1. circuit'[j] = circuit[j] /\ burst'[j] = burst[j] /\ failures'[j] = failures[j]
    BY <1>2 DEF Success, TInv, TypeOK
  <2>2. Callers(j)' \subseteq Callers(j)
    BY DEF Success, Return, Callers, Candidate, TInv, TypeOK
  <2>3. QED
    BY <2>1, <2>2, CountsKept
<1>3. QED
  BY <1>1, <1>2

LEMMA FailCounts ==
    ASSUME TInv, CountsOK, NEW e \in Evaluations, Fail(e)
    PROVE  CountsOK'
<1> SUFFICES ASSUME NEW j \in Judges
             PROVE  Counts(j)'
  BY DEF CountsOK
<1>1. Candidate(e) \in Judges /\ place[e] = "calling"
  BY CandidateType DEF TInv, PlaceOK, Fail
<1>2. place'[e] = "choosing"
  BY DEF Fail, TInv, TypeOK
<1>3. \A d \in Evaluations : d # e => place'[d] = place[d] /\ next'[d] = next[d]
  BY DEF Fail, TInv, TypeOK
<1>4. \A i : Callers(i)' = Callers(i) \ {e}
  BY <1>2, <1>3 DEF Callers, Candidate
<1>5. failures' = Counted(failures, Candidate(e), FailureThreshold) /\ burst' = Counted(burst, Candidate(e), Enough)
  BY DEF Fail, RecordFailure
<1>6. failures \in [Judges -> 0..FailureThreshold] /\ burst \in [Judges -> 0..Enough]
  BY DEF TInv, TypeOK
<1>7. CASE j # Candidate(e)
  <2>1. failures'[j] = failures[j] /\ burst'[j] = burst[j]
    BY <1>1, <1>5, <1>6, <1>7, CountedUp, CountTypes
  <2>2. circuit'[j] = circuit[j]
    BY <1>7 DEF Fail, RecordFailure, TInv, TypeOK
  <2>3. QED
    BY <1>4, <2>1, <2>2, CountsKept
<1>8. CASE j = Candidate(e)
  <2>1. /\ failures'[j] = IF failures[j] < FailureThreshold THEN failures[j] + 1 ELSE FailureThreshold
        /\ burst'[j] = IF burst[j] < Enough THEN burst[j] + 1 ELSE Enough
    BY <1>1, <1>5, <1>6, <1>8, CountedUp, CountTypes
  <2>2. Cardinality(Callers(j)') = Cardinality(Callers(j)) - 1
    <3>1. e \in Callers(j)
      BY <1>1, <1>8 DEF Callers
    <3>2. QED
      BY <1>4, <3>1, CallersFinite, FS_RemoveElement
  <2>3. Cardinality(Callers(j)) \in Nat /\ Cardinality(Callers(j)) <= Cardinality(Evaluations)
    BY CallersFinite
  <2>4. Counts(j)
    BY DEF CountsOK
  <2>5. CASE failures[j] + 1 >= FailureThreshold
    <3>1. circuit'[j] = Cooldown
      BY <1>8, <2>5 DEF Fail, RecordFailure, TInv, TypeOK
    <3>2. circuit'[j] > 0 /\ circuit'[j] # Closed /\ circuit'[j] # 0
      BY <3>1, CountTypes DEF Closed
    <3>3. burst[j] + Cardinality(Callers(j)) <= FailureThreshold - 1 + Cardinality(Evaluations)
      <4>1. CASE circuit[j] = Closed
        <5>1. burst[j] <= failures[j] /\ failures[j] <= FailureThreshold - 1
          BY <2>4, <4>1, CountTypes DEF Counts
        <5>2. QED
          BY <2>3, <5>1, CountTypes
      <4>2. CASE circuit[j] = 0
        BY <2>3, <2>4, <4>2, CountTypes DEF Counts
      <4>3. CASE circuit[j] > 0
        BY <2>4, <4>3 DEF Counts
      <4>4. QED
        BY <4>1, <4>2, <4>3, CountTypes DEF Closed
    <3>4. burst'[j] <= burst[j] + 1 /\ burst'[j] \in Nat
      BY <2>1, CountTypes
    <3>5. burst'[j] + Cardinality(Callers(j)') <= FailureThreshold - 1 + Cardinality(Evaluations)
      BY <2>2, <2>3, <3>3, <3>4, CountTypes
    <3>6. QED
      BY <3>2, <3>5 DEF Counts
  <2>6. CASE ~(failures[j] + 1 >= FailureThreshold)
    <3>1. circuit'[j] = circuit[j] /\ circuit[j] = Closed
      BY <1>8, <2>6, CountTypes DEF Fail, RecordFailure, TInv, TypeOK
    <3>2. burst'[j] <= failures'[j]
      BY <2>1, <2>4, <2>6, <3>1, CountTypes DEF Counts
    <3>3. QED
      BY <3>1, <3>2 DEF Counts, Closed
  <2>7. QED
    BY <2>5, <2>6
<1>9. QED
  BY <1>7, <1>8

LEMMA TickCounts ==
    ASSUME TInv, CountsOK, Tick
    PROVE  CountsOK'
<1> SUFFICES ASSUME NEW j \in Judges
             PROVE  Counts(j)'
  BY DEF CountsOK
<1>1. Callers(j)' = Callers(j) /\ failures'[j] = failures[j]
  BY DEF Tick, Callers, Candidate, evaluation
<1>2. /\ circuit'[j] = IF circuit[j] > 0 THEN circuit[j] - 1 ELSE circuit[j]
      /\ burst'[j] = IF circuit[j] = 1 THEN 0 ELSE burst[j]
  BY DEF Tick
<1>3. Counts(j)
  BY DEF CountsOK
<1>4. QED
  BY <1>1, <1>2, <1>3, CountTypes DEF Counts, Closed

LEMMA NextCounts == TInv /\ CountsOK /\ [Next]_vars => CountsOK'
<1> SUFFICES ASSUME TInv, CountsOK, [Next]_vars
             PROVE  CountsOK'
  OBVIOUS
<1>1. CASE UNCHANGED vars
  BY <1>1 DEF vars, circuits, evaluation, CountsOK, Counts, Callers, Candidate
<1>2. QED
  BY <1>1, QuietCounts, SuccessCounts, FailCounts, TickCounts DEF Next, Advance

LEMMA CountsBound ==
    ASSUME TInv, CountsOK, NEW j \in Judges
    PROVE  burst[j] <= FailureThreshold - 1 + Cardinality(Evaluations)
<1>1. Counts(j)
  BY DEF CountsOK
<1>2. CASE circuit[j] = Closed
  <2>1. burst[j] <= failures[j] /\ failures[j] <= FailureThreshold - 1
    BY <1>1, <1>2, CountTypes DEF Counts
  <2>2. QED
    BY <2>1, CountTypes
<1>3. CASE circuit[j] = 0
  BY <1>1, <1>3, CountTypes DEF Counts
<1>4. CASE circuit[j] > 0
  BY <1>1, <1>4, CountTypes, CallersFinite DEF Counts
<1>5. QED
  BY <1>2, <1>3, <1>4, CountTypes DEF Closed

\* A judge that only fails gets at most the threshold of calls and one for each
\* other evaluation, until its cooldown is over (health.go:52).
THEOREM FailingJudgeSpared == Spec => []FailingJudgeIsSpared
<1>1. TInv /\ CountsOK => FailingJudgeIsSpared
  BY CountsBound DEF FailingJudgeIsSpared
<1>2. QED
  BY <1>1, InitT, NextT, InitCounts, NextCounts, PTL DEF Spec

-----------------------------------------------------------------------------
(* The end of a sequence                                                   *)

\* What is left of a sequence without its first k elements.
Drop(seq, k) == SubSeq(seq, k + 1, Len(seq))

LEMMA DropProperties ==
    ASSUME NEW S, NEW seq \in Seq(S), NEW k \in 0..Len(seq)
    PROVE  /\ Drop(seq, k) \in Seq(S)
           /\ Len(Drop(seq, k)) = Len(seq) - k
           /\ \A i \in 1..(Len(seq) - k) : Drop(seq, k)[i] = seq[k + i]
BY SubSeqProperties DEF Drop

LEMMA DropNone ==
    ASSUME NEW S, NEW seq \in Seq(S)
    PROVE  Drop(seq, 0) = seq
<1>1. Len(seq) \in Nat /\ 0 \in 0..Len(seq)
  OBVIOUS
<1>2. /\ Drop(seq, 0) \in Seq(S)
      /\ Len(Drop(seq, 0)) = Len(seq) - 0
      /\ \A i \in 1..(Len(seq) - 0) : Drop(seq, 0)[i] = seq[0 + i]
  BY <1>1, DropProperties
<1>3. \A i \in 1..Len(seq) : Drop(seq, 0)[i] = seq[i]
  BY <1>1, <1>2
<1>4. QED
  BY <1>1, <1>2, <1>3, SeqEqual

LEMMA DropOfDrop ==
    ASSUME NEW S, NEW seq \in Seq(S), NEW k \in 0..Len(seq), NEW m \in 0..(Len(seq) - k)
    PROVE  Drop(Drop(seq, k), m) = Drop(seq, k + m)
<1>1. /\ Drop(seq, k) \in Seq(S)
      /\ Len(Drop(seq, k)) = Len(seq) - k
      /\ \A i \in 1..(Len(seq) - k) : Drop(seq, k)[i] = seq[k + i]
  BY DropProperties
<1>2. /\ Drop(Drop(seq, k), m) \in Seq(S)
      /\ Len(Drop(Drop(seq, k), m)) = Len(seq) - k - m
      /\ \A i \in 1..(Len(seq) - k - m) : Drop(Drop(seq, k), m)[i] = Drop(seq, k)[m + i]
  <2>1. m \in 0..Len(Drop(seq, k)) /\ Len(seq) \in Nat
    BY <1>1
  <2>2. /\ Drop(Drop(seq, k), m) \in Seq(S)
        /\ Len(Drop(Drop(seq, k), m)) = Len(Drop(seq, k)) - m
        /\ \A i \in 1..(Len(Drop(seq, k)) - m) : Drop(Drop(seq, k), m)[i] = Drop(seq, k)[m + i]
    BY <1>1, <2>1, DropProperties
  <2>3. QED
    BY <1>1, <2>2
<1>3. k + m \in 0..Len(seq)
  OBVIOUS
<1>4. /\ Drop(seq, k + m) \in Seq(S)
      /\ Len(Drop(seq, k + m)) = Len(seq) - (k + m)
      /\ \A i \in 1..(Len(seq) - (k + m)) : Drop(seq, k + m)[i] = seq[(k + m) + i]
  BY <1>3, DropProperties
<1>5. \A i \in 1..(Len(seq) - k - m) : Drop(Drop(seq, k), m)[i] = Drop(seq, k + m)[i]
  <2>1. TAKE i \in 1..(Len(seq) - k - m)
  <2>2. /\ m + i \in 1..(Len(seq) - k) /\ i \in 1..(Len(seq) - (k + m))
        /\ k + (m + i) = (k + m) + i
    OBVIOUS
  <2>3. QED
    BY <1>1, <1>2, <1>4, <2>2
<1>6. QED
  BY <1>2, <1>4, <1>5, SeqEqual

\* A set of positions that goes down to the first one is an interval.
LEMMA DownwardClosed ==
    ASSUME NEW n \in Nat, NEW P \in SUBSET (1..n), \A i \in P : 1..i \subseteq P
    PROVE  /\ Cardinality(P) \in 0..n
           /\ P = 1..Cardinality(P)
<1>1. /\ IsFiniteSet(1..n) /\ Cardinality(1..n) = n
  BY FS_Interval
<1>2. IsFiniteSet(P) /\ Cardinality(P) \in Nat /\ Cardinality(P) <= n
  BY <1>1, FS_Subset, FS_CardinalityType
<1>3. ASSUME NEW i \in P
      PROVE  i \in 1..Cardinality(P)
  <2>1. Cardinality(1..i) = i
    BY FS_Interval
  <2>2. (1..i) \in SUBSET P
    OBVIOUS
  <2>3. Cardinality(1..i) <= Cardinality(P)
    BY <1>2, <2>2, FS_Subset
  <2>4. QED
    BY <1>2, <2>1, <2>3
<1>4. P \in SUBSET (1..Cardinality(P))
  BY <1>3
<1>5. IsFiniteSet(1..Cardinality(P)) /\ Cardinality(1..Cardinality(P)) = Cardinality(P)
  BY <1>2, FS_Interval
<1>6. P = 1..Cardinality(P)
  BY <1>4, <1>5, FS_Subset
<1>7. QED
  BY <1>2, <1>6

-----------------------------------------------------------------------------
(* RateLimiter                                                             *)

\* k events are older than the width.
CutAt(events, width, k) ==
    /\ k \in 0..Len(events)
    /\ \A j \in 1..k : events[j].age > width
    /\ k < Len(events) => ~(events[k + 1].age > width)

\* trimEvents cuts at one place, and where it cuts is known by CutAt.
LEMMA TrimCuts ==
    ASSUME NEW S, NEW events \in Seq(S), NEW width
    PROVE  \E k \in 0..Len(events) :
              CutAt(events, width, k) /\ trimEvents(events, width) = Drop(events, k)
<1> DEFINE old == {i \in 1..Len(events) : \A j \in 1..i : events[j].age > width}
<1>1. Len(events) \in Nat
  OBVIOUS
<1>2. old \in SUBSET (1..Len(events)) /\ \A i \in old : 1..i \subseteq old
  OBVIOUS
<1> HIDE DEF old
<1>3. Cardinality(old) \in 0..Len(events) /\ old = 1..Cardinality(old)
  BY <1>1, <1>2, DownwardClosed
<1>4. PICK k \in 0..Len(events) : k = Cardinality(old) /\ old = 1..k
  BY <1>3
<1>5. \A j \in 1..k : events[j].age > width
  BY <1>4 DEF old
<1>6. k < Len(events) => ~(events[k + 1].age > width)
  <2>1. k \in Nat /\ k + 1 \notin old
    <3>1. k \in Nat
      BY <1>1
    <3>2. k + 1 \notin 1..k
      BY <3>1
    <3>3. old = 1..k
      BY <1>4
    <3>4. QED
      BY <3>1, <3>2, <3>3
  <2>2. SUFFICES ASSUME k < Len(events), events[k + 1].age > width
                 PROVE  FALSE
    OBVIOUS
  <2>3. k + 1 \in old
    BY <1>1, <1>5, <2>1, <2>2 DEF old
  <2>4. QED
    BY <2>1, <2>3
<1>7. trimEvents(events, width) = Drop(events, k)
  BY <1>4 DEF trimEvents, Drop, old
<1>8. QED
  BY <1>5, <1>6, <1>7 DEF CutAt

LEMMA TrimAt ==
    ASSUME NEW S, NEW events \in Seq(S), NEW width, NEW k, CutAt(events, width, k)
    PROVE  trimEvents(events, width) = Drop(events, k)
<1>1. PICK m \in 0..Len(events) :
          CutAt(events, width, m) /\ trimEvents(events, width) = Drop(events, m)
  BY TrimCuts
<1>2. k = m
  BY <1>1 DEF CutAt
<1>3. QED
  BY <1>1, <1>2

-----------------------------------------------------------------------------
LEMMA LimiterNumbers ==
    /\ Minute \in Nat /\ Day \in Nat /\ Minute <= Day
    /\ Ages = 0..(Day + 1)
BY LimiterAssumption DEF Ages

LEMMA EventOfNow ==
    ASSUME NEW n \in Tokens
    PROVE  [age |-> 0, tokens |-> n] \in Events
BY LimiterNumbers DEF Events

\* Trimming keeps the type, and trimming again changes nothing.
LEMMA TrimAgain ==
    ASSUME NEW S, NEW events \in Seq(S), NEW width
    PROVE  /\ trimEvents(events, width) \in Seq(S)
           /\ trimEvents(trimEvents(events, width), width) = trimEvents(events, width)
<1>1. PICK k \in 0..Len(events) :
          CutAt(events, width, k) /\ trimEvents(events, width) = Drop(events, k)
  BY TrimCuts
<1> DEFINE left == Drop(events, k)
<1>2. /\ left \in Seq(S) /\ Len(left) = Len(events) - k
      /\ \A i \in 1..(Len(events) - k) : left[i] = events[k + i]
  BY DropProperties
<1> HIDE DEF left
<1>3. Len(events) \in Nat /\ k \in Nat /\ Len(left) \in Nat
  BY <1>2
<1>4. CutAt(left, width, 0)
  <2>1. 0 < Len(left) => ~(left[1].age > width)
    BY <1>1, <1>2, <1>3 DEF CutAt
  <2>2. QED
    BY <1>3, <2>1 DEF CutAt
<1>5. trimEvents(left, width) = Drop(left, 0)
  BY <1>2, <1>4, TrimAt
<1>6. Drop(left, 0) = left
  BY <1>2, DropNone
<1>7. QED
  BY <1>1, <1>2, <1>5, <1>6 DEF left

\* An event of now is never trimmed, nor does it keep an older one.
LEMMA TrimAppend ==
    ASSUME NEW S, NEW events \in Seq(S), NEW event \in S, event.age = 0, NEW width \in Nat
    PROVE  /\ trimEvents(Append(events, event), width) \in Seq(S)
           /\ Len(trimEvents(Append(events, event), width)) = Len(trimEvents(events, width)) + 1
<1>1. PICK k \in 0..Len(events) :
          CutAt(events, width, k) /\ trimEvents(events, width) = Drop(events, k)
  BY TrimCuts
<1> DEFINE more == Append(events, event)
<1>2. /\ more \in Seq(S) /\ Len(more) = Len(events) + 1
      /\ \A i \in 1..Len(events) : more[i] = events[i]
      /\ more[Len(events) + 1] = event
  BY AppendProperties
<1> HIDE DEF more
<1>3. Len(events) \in Nat /\ k \in 0..Len(more)
  BY <1>2
<1>4. CutAt(more, width, k)
  <2>1. \A j \in 1..k : more[j].age > width
    BY <1>1, <1>2, <1>3 DEF CutAt
  <2>2. ~(more[k + 1].age > width)
    <3>1. CASE k = Len(events)
      BY <1>2, <3>1
    <3>2. CASE k < Len(events)
      <4>1. k + 1 \in 1..Len(events)
        BY <1>3, <3>2
      <4>2. QED
        BY <1>1, <1>2, <3>2, <4>1 DEF CutAt
    <3>3. QED
      BY <1>3, <3>1, <3>2
  <2>3. QED
    BY <1>3, <2>1, <2>2 DEF CutAt
<1>5. trimEvents(more, width) = Drop(more, k)
  BY <1>2, <1>4, TrimAt
<1>6. Drop(more, k) \in Seq(S) /\ Len(Drop(more, k)) = Len(more) - k
  BY <1>2, <1>3, DropProperties
<1>7. Len(Drop(events, k)) = Len(events) - k
  BY DropProperties
<1>8. QED
  BY <1>1, <1>2, <1>3, <1>5, <1>6, <1>7 DEF more

\* An event that gets older keeps its tokens, and is a bit older.
Aged(event) == [event EXCEPT !.age = IF @ > Day THEN @ ELSE @ + 1]

LEMMA AgedEvent ==
    ASSUME NEW event \in Events
    PROVE  /\ Aged(event) \in Events
           /\ Aged(event).age = IF event.age > Day THEN event.age ELSE event.age + 1
           /\ event.age \in Nat /\ event.age <= Day + 1
BY LimiterNumbers DEF Aged, Events

LEMMA OlderProperties ==
    ASSUME NEW events \in Seq(Events)
    PROVE  /\ Older(events) \in Seq(Events)
           /\ Len(Older(events)) = Len(events)
           /\ \A i \in 1..Len(events) : Older(events)[i] = Aged(events[i])
<1>1. Older(events) = [i \in 1..Len(events) |-> Aged(events[i])]
  <2>1. DOMAIN events = 1..Len(events)
    OBVIOUS
  <2>2. QED
    BY <2>1, Zenon DEF Older, Aged
<1>2. \A i \in 1..Len(events) : events[i] \in Events
  OBVIOUS
<1>3. \A i \in 1..Len(events) : Aged(events[i]) \in Events
  BY <1>2, AgedEvent
<1>4. Len(events) \in Nat
  OBVIOUS
<1>5. QED
  BY <1>1, <1>3, <1>4

\* Time only trims more.
LEMMA TrimOlder ==
    ASSUME NEW events \in Seq(Events), NEW width \in Nat
    PROVE  Len(trimEvents(Older(events), width)) <= Len(trimEvents(events, width))
<1>1. PICK k \in 0..Len(events) :
          CutAt(events, width, k) /\ trimEvents(events, width) = Drop(events, k)
  BY TrimCuts
<1>2. /\ Older(events) \in Seq(Events) /\ Len(Older(events)) = Len(events)
      /\ \A i \in 1..Len(events) : Older(events)[i] = Aged(events[i])
  BY OlderProperties
<1>3. PICK m \in 0..Len(events) :
          CutAt(Older(events), width, m) /\ trimEvents(Older(events), width) = Drop(Older(events), m)
  BY <1>2, TrimCuts
<1>4. Len(events) \in Nat /\ k \in Nat /\ m \in Nat
  OBVIOUS
<1>5. k <= m
  <2>1. SUFFICES ASSUME m < k
                 PROVE  FALSE
    BY <1>4
  <2>2. m + 1 \in 1..k /\ m + 1 \in 1..Len(events) /\ m < Len(events)
    BY <1>4, <2>1
  <2>3. events[m + 1].age > width
    BY <1>1, <2>2 DEF CutAt
  <2>4. ~(Aged(events[m + 1]).age > width)
    BY <1>2, <1>3, <2>2 DEF CutAt
  <2>5. events[m + 1] \in Events
    BY <2>2
  <2>6. QED
    BY <2>3, <2>4, <2>5, AgedEvent, LimiterNumbers
<1>6. Len(Drop(events, k)) = Len(events) - k
  BY DropProperties
<1>7. Len(Drop(Older(events), m)) = Len(events) - m
  BY <1>2, DropProperties
<1>8. QED
  BY <1>1, <1>3, <1>4, <1>5, <1>6, <1>7

\* The minute window is the last part of the day window.
LastPart(part, whole) == \E k \in 0..Len(whole) : part = Drop(whole, k)

\* Trimming one by the minute and the other by the day leaves it that way:
\* what is older than a day is older than a minute.
LEMMA LastPartTrim ==
    ASSUME NEW whole \in Seq(Events), NEW part, LastPart(part, whole)
    PROVE  LastPart(trimEvents(part, Minute), trimEvents(whole, Day))
<1>1. PICK k \in 0..Len(whole) : part = Drop(whole, k)
  BY DEF LastPart
<1>2. /\ part \in Seq(Events) /\ Len(part) = Len(whole) - k
      /\ \A i \in 1..(Len(whole) - k) : part[i] = whole[k + i]
  BY <1>1, DropProperties
<1>3. PICK d \in 0..Len(whole) :
          CutAt(whole, Day, d) /\ trimEvents(whole, Day) = Drop(whole, d)
  BY TrimCuts
<1>4. PICK m \in 0..Len(part) :
          CutAt(part, Minute, m) /\ trimEvents(part, Minute) = Drop(part, m)
  BY <1>2, TrimCuts
<1>5. Len(whole) \in Nat /\ k \in Nat /\ d \in Nat /\ m \in Nat /\ k + m <= Len(whole)
  BY <1>2
<1>6. d <= k + m
  <2>1. SUFFICES ASSUME k + m < d
                 PROVE  FALSE
    BY <1>5
  <2>2. k + m + 1 \in 1..d /\ m + 1 \in 1..(Len(whole) - k) /\ m < Len(part)
    BY <1>2, <1>5, <2>1
  <2>3. whole[k + m + 1].age > Day
    BY <1>3, <2>2 DEF CutAt
  <2>4. ~(part[m + 1].age > Minute)
    BY <1>4, <2>2 DEF CutAt
  <2>5. part[m + 1] = whole[k + m + 1]
    BY <1>2, <1>5, <2>2
  <2>6. part[m + 1] \in Events
    BY <1>2, <2>2
  <2>7. QED
    BY <2>3, <2>4, <2>5, <2>6, AgedEvent, LimiterNumbers
<1>7. /\ k + m - d \in 0..(Len(whole) - d)
      /\ d + (k + m - d) = k + m
      /\ d \in 0..Len(whole)
      /\ m \in 0..(Len(whole) - k)
  BY <1>5, <1>6
<1>8. Drop(Drop(whole, d), k + m - d) = Drop(whole, k + m)
  BY <1>7, DropOfDrop
<1>9. Drop(part, m) = Drop(whole, k + m)
  BY <1>1, <1>7, DropOfDrop
<1>10. Len(Drop(whole, d)) = Len(whole) - d
  BY DropProperties
<1>11. QED
  BY <1>3, <1>4, <1>7, <1>8, <1>9, <1>10 DEF LastPart

LEMMA LastPartAppend ==
    ASSUME NEW whole \in Seq(Events), NEW part, LastPart(part, whole), NEW event \in Events
    PROVE  LastPart(Append(part, event), Append(whole, event))
<1>1. PICK k \in 0..Len(whole) : part = Drop(whole, k)
  BY DEF LastPart
<1>2. /\ part \in Seq(Events) /\ Len(part) = Len(whole) - k
      /\ \A i \in 1..(Len(whole) - k) : part[i] = whole[k + i]
  BY <1>1, DropProperties
<1> DEFINE more == Append(whole, event)
<1>3. /\ more \in Seq(Events) /\ Len(more) = Len(whole) + 1
      /\ \A i \in 1..Len(whole) : more[i] = whole[i]
      /\ more[Len(whole) + 1] = event
  BY AppendProperties
<1> HIDE DEF more
<1>4. /\ Append(part, event) \in Seq(Events) /\ Len(Append(part, event)) = Len(part) + 1
      /\ \A i \in 1..Len(part) : Append(part, event)[i] = part[i]
      /\ Append(part, event)[Len(part) + 1] = event
  BY <1>2, AppendProperties
<1>5. Len(whole) \in Nat /\ k \in 0..Len(more)
  BY <1>3
<1>6. /\ Drop(more, k) \in Seq(Events) /\ Len(Drop(more, k)) = Len(more) - k
      /\ \A i \in 1..(Len(more) - k) : Drop(more, k)[i] = more[k + i]
  BY <1>3, <1>5, DropProperties
<1>7. \A i \in 1..(Len(part) + 1) : Append(part, event)[i] = Drop(more, k)[i]
  <2>1. TAKE i \in 1..(Len(part) + 1)
  <2>2. i \in 1..(Len(more) - k) /\ i \in Nat
    BY <1>2, <1>3, <1>5
  <2>3. CASE i = Len(part) + 1
    <3>1. k + i = Len(whole) + 1
      BY <1>2, <1>5, <2>3
    <3>2. QED
      BY <1>3, <1>4, <1>6, <2>2, <2>3, <3>1
  <2>4. CASE i # Len(part) + 1
    <3>1. Len(part) \in Nat
      BY <1>2, <1>5
    <3>2. i \in 1..Len(part)
      BY <2>2, <2>4, <3>1
    <3>3. i \in 1..(Len(whole) - k) /\ k + i \in 1..Len(whole)
      BY <1>2, <1>5, <3>2
    <3>4. QED
      BY <1>2, <1>3, <1>4, <1>6, <2>2, <3>2, <3>3
  <2>5. QED
    BY <2>3, <2>4
<1>8. Len(Append(part, event)) = Len(Drop(more, k))
  BY <1>2, <1>3, <1>4, <1>5, <1>6
<1>9. Append(part, event) = Drop(more, k)
  BY <1>4, <1>6, <1>7, <1>8, SeqEqual
<1>10. QED
  BY <1>5, <1>9 DEF LastPart, more

LEMMA LastPartOlder ==
    ASSUME NEW whole \in Seq(Events), NEW part, LastPart(part, whole)
    PROVE  LastPart(Older(part), Older(whole))
<1>1. PICK k \in 0..Len(whole) : part = Drop(whole, k)
  BY DEF LastPart
<1>2. /\ part \in Seq(Events) /\ Len(part) = Len(whole) - k
      /\ \A i \in 1..(Len(whole) - k) : part[i] = whole[k + i]
  BY <1>1, DropProperties
<1>3. /\ Older(whole) \in Seq(Events) /\ Len(Older(whole)) = Len(whole)
      /\ \A i \in 1..Len(whole) : Older(whole)[i] = Aged(whole[i])
  BY OlderProperties
<1>4. /\ Older(part) \in Seq(Events) /\ Len(Older(part)) = Len(part)
      /\ \A i \in 1..Len(part) : Older(part)[i] = Aged(part[i])
  BY <1>2, OlderProperties
<1>5. /\ Drop(Older(whole), k) \in Seq(Events)
      /\ Len(Drop(Older(whole), k)) = Len(whole) - k
      /\ \A i \in 1..(Len(whole) - k) : Drop(Older(whole), k)[i] = Older(whole)[k + i]
  BY <1>3, DropProperties
<1>6. ASSUME NEW i \in 1..Len(Older(part))
      PROVE  Older(part)[i] = Drop(Older(whole), k)[i]
  <2>1. i \in 1..(Len(whole) - k) /\ i \in 1..Len(part)
    BY <1>2, <1>4
  <2>2. k + i \in 1..Len(whole)
    BY <2>1
  <2>3. part[i] = whole[k + i]
    BY <1>2, <2>1
  <2>4. Older(part)[i] = Aged(part[i]) /\ Older(whole)[k + i] = Aged(whole[k + i])
    BY <1>3, <1>4, <2>1, <2>2
  <2>5. QED
    BY <1>5, <2>1, <2>3, <2>4
<1>7. Older(part) = Drop(Older(whole), k)
  BY <1>2, <1>4, <1>5, <1>6, SeqEqual
<1>8. QED
  BY <1>3, <1>7 DEF LastPart

\* The days' events are in the order in which they were recorded.
Sorted(events) == \A i, j \in 1..Len(events) : i < j => events[i].age >= events[j].age

LEMMA SortedTrim ==
    ASSUME NEW events \in Seq(Events), Sorted(events), NEW width
    PROVE  Sorted(trimEvents(events, width))
<1>1. PICK k \in 0..Len(events) : trimEvents(events, width) = Drop(events, k)
  BY TrimCuts
<1>2. /\ Len(Drop(events, k)) = Len(events) - k
      /\ \A i \in 1..(Len(events) - k) : Drop(events, k)[i] = events[k + i]
  BY DropProperties
<1>3. ASSUME NEW i \in 1..(Len(events) - k), NEW j \in 1..(Len(events) - k), i < j
      PROVE  Drop(events, k)[i].age >= Drop(events, k)[j].age
  <2>1. k + i \in 1..Len(events) /\ k + j \in 1..Len(events) /\ k + i < k + j
    BY <1>3
  <2>2. QED
    BY <1>2, <2>1 DEF Sorted
<1>4. QED
  BY <1>1, <1>2, <1>3 DEF Sorted

LEMMA SortedAppend ==
    ASSUME NEW events \in Seq(Events), Sorted(events), NEW event \in Events, event.age = 0
    PROVE  Sorted(Append(events, event))
<1>1. /\ Len(Append(events, event)) = Len(events) + 1
      /\ \A i \in 1..Len(events) : Append(events, event)[i] = events[i]
      /\ Append(events, event)[Len(events) + 1] = event
  BY AppendProperties
<1>2. Len(events) \in Nat
  OBVIOUS
<1>3. ASSUME NEW i \in 1..(Len(events) + 1), NEW j \in 1..(Len(events) + 1), i < j
      PROVE  Append(events, event)[i].age >= Append(events, event)[j].age
  <2>1. i \in 1..Len(events) /\ events[i] \in Events
    BY <1>2, <1>3
  <2>2. events[i].age \in Nat
    BY <2>1, AgedEvent
  <2>3. CASE j = Len(events) + 1
    BY <1>1, <2>1, <2>2, <2>3
  <2>4. CASE j # Len(events) + 1
    <3>1. j \in 1..Len(events)
      BY <1>2, <2>4
    <3>2. QED
      BY <1>1, <1>3, <2>1, <3>1 DEF Sorted
  <2>5. QED
    BY <2>3, <2>4
<1>4. QED
  BY <1>1, <1>3 DEF Sorted

LEMMA SortedOlder ==
    ASSUME NEW events \in Seq(Events), Sorted(events)
    PROVE  Sorted(Older(events))
<1>1. /\ Len(Older(events)) = Len(events)
      /\ \A i \in 1..Len(events) : Older(events)[i] = Aged(events[i])
  BY OlderProperties
<1>2. ASSUME NEW i \in 1..Len(events), NEW j \in 1..Len(events), i < j
      PROVE  Older(events)[i].age >= Older(events)[j].age
  <2>1. events[i] \in Events /\ events[j] \in Events /\ events[i].age >= events[j].age
    BY <1>2 DEF Sorted
  <2>2. Aged(events[i]).age >= Aged(events[j]).age
    BY <2>1, AgedEvent, LimiterNumbers
  <2>3. QED
    BY <1>1, <2>2
<1>3. QED
  BY <1>1, <1>2 DEF Sorted

\* The invariant: types, and the minute as the last part of the day.
WindowsInv == LimiterTypeOK /\ LastPart(requestMinute, requestDay)

LEMMA LimiterTypeMeans ==
    LimiterTypeOK <=> /\ requestMinute \in Seq(Events)
                      /\ requestDay \in Seq(Events)
                      /\ Sorted(requestDay)
                      /\ calling \subseteq Workers
BY DEF LimiterTypeOK, Sorted

LEMMA LimiterInitWindows == LimiterInit => WindowsInv
<1> SUFFICES ASSUME LimiterInit
             PROVE  WindowsInv
  OBVIOUS
<1>1. requestMinute = <<>> /\ requestDay = <<>> /\ calling = {}
  BY DEF LimiterInit
<1>2. requestDay \in Seq(Events) /\ Len(requestDay) = 0 /\ 0 \in 0..Len(requestDay)
  BY <1>1
<1>3. LimiterTypeOK
  BY <1>1, <1>2 DEF LimiterTypeOK
<1>4. LastPart(requestMinute, requestDay)
  <2>1. requestMinute = Drop(requestDay, 0)
    BY <1>1, <1>2, DropNone
  <2>2. QED
    BY <1>2, <2>1 DEF LastPart
<1>5. QED
  BY <1>3, <1>4 DEF WindowsInv

\* Both windows are trimmed, whatever they hold by then.
LEMMA TrimmedWindows ==
    ASSUME NEW minute \in Seq(Events), NEW day \in Seq(Events), Sorted(day), LastPart(minute, day),
           requestMinute' = trimEvents(minute, Minute), requestDay' = trimEvents(day, Day),
           calling' \subseteq Workers
    PROVE  WindowsInv'
<1>1. requestMinute' \in Seq(Events) /\ requestDay' \in Seq(Events)
  BY TrimAgain
<1>2. Sorted(requestDay')
  BY SortedTrim
<1>3. LastPart(requestMinute', requestDay')
  BY LastPartTrim
<1>4. LimiterTypeOK'
  BY <1>1, <1>2 DEF LimiterTypeOK, Sorted
<1>5. QED
  BY <1>3, <1>4 DEF WindowsInv

LEMMA LimiterStepWindows == WindowsInv /\ [LimiterNext]_limiterVars => WindowsInv'
<1> SUFFICES ASSUME WindowsInv, [LimiterNext]_limiterVars
             PROVE  WindowsInv'
  OBVIOUS
<1>0. /\ requestMinute \in Seq(Events) /\ requestDay \in Seq(Events)
      /\ Sorted(requestDay) /\ calling \subseteq Workers
      /\ LastPart(requestMinute, requestDay)
  BY LimiterTypeMeans DEF WindowsInv
<1>1. ASSUME NEW w \in Workers, Check(w)
      PROVE  WindowsInv'
  <2>1. calling' \subseteq Workers
    BY <1>0, <1>1 DEF Check
  <2>2. /\ requestMinute' = trimEvents(requestMinute, Minute)
        /\ requestDay' = trimEvents(requestDay, Day)
    BY <1>1 DEF Check, Clean, CleanMinute, CleanDay
  <2>3. QED
    BY <1>0, <2>1, <2>2, TrimmedWindows
<1>2. ASSUME NEW w \in Workers, CallFails(w)
      PROVE  WindowsInv'
  <2>1. calling' \subseteq Workers /\ UNCHANGED <<requestMinute, requestDay>>
    BY <1>0, <1>2 DEF CallFails
  <2>2. LimiterTypeOK'
    BY <1>0, <2>1 DEF LimiterTypeOK, Sorted
  <2>3. QED
    BY <1>0, <2>1, <2>2 DEF WindowsInv
<1>3. ASSUME NEW w \in Workers, Record(w)
      PROVE  WindowsInv'
  <2>1. PICK n \in Tokens :
          /\ requestMinute' = trimEvents(Append(requestMinute, [age |-> 0, tokens |-> n]), Minute)
          /\ requestDay' = trimEvents(Append(requestDay, [age |-> 0, tokens |-> n]), Day)
    BY <1>3 DEF Record
  <2>2. PICK event \in Events : event = [age |-> 0, tokens |-> n]
    BY EventOfNow
  <2>3. event.age = 0
    BY <2>2
  <2>4. /\ Append(requestMinute, event) \in Seq(Events)
        /\ Append(requestDay, event) \in Seq(Events)
    BY <1>0
  <2>5. Sorted(Append(requestDay, event))
    BY <1>0, <2>3, SortedAppend
  <2>6. LastPart(Append(requestMinute, event), Append(requestDay, event))
    BY <1>0, LastPartAppend
  <2>7. calling' \subseteq Workers
    BY <1>0, <1>3 DEF Record
  <2>8. /\ requestMinute' = trimEvents(Append(requestMinute, event), Minute)
        /\ requestDay' = trimEvents(Append(requestDay, event), Day)
    BY <2>1, <2>2
  <2>9. QED
    BY <2>4, <2>5, <2>6, <2>7, <2>8, TrimmedWindows
<1>4. CASE Usage
  <2>1. /\ requestMinute' = trimEvents(requestMinute, Minute)
        /\ requestDay' = trimEvents(requestDay, Day)
        /\ calling' \subseteq Workers
    BY <1>0, <1>4 DEF Usage, Clean, CleanMinute, CleanDay
  <2>2. QED
    BY <1>0, <2>1, TrimmedWindows
<1>5. CASE TimePasses
  <2>1. /\ requestMinute' = Older(requestMinute) /\ requestDay' = Older(requestDay)
        /\ calling' = calling
    BY <1>5 DEF TimePasses
  <2>2. Older(requestMinute) \in Seq(Events) /\ Older(requestDay) \in Seq(Events)
    BY <1>0, OlderProperties
  <2>3. Sorted(Older(requestDay))
    BY <1>0, SortedOlder
  <2>4. LastPart(Older(requestMinute), Older(requestDay))
    BY <1>0, LastPartOlder
  <2>5. LimiterTypeOK'
    BY <1>0, <2>1, <2>2, <2>3 DEF LimiterTypeOK, Sorted
  <2>6. QED
    BY <2>1, <2>4, <2>5 DEF WindowsInv
<1>6. CASE UNCHANGED limiterVars
  <2>1. UNCHANGED <<requestMinute, requestDay, calling>>
    BY <1>6 DEF limiterVars
  <2>2. LimiterTypeOK'
    BY <1>0, <2>1 DEF LimiterTypeOK, Sorted
  <2>3. QED
    BY <1>0, <2>1, <2>2 DEF WindowsInv
<1>7. QED
  BY <1>1, <1>2, <1>3, <1>4, <1>5, <1>6 DEF LimiterNext

LEMMA LimiterWindows == LimiterSpec => []WindowsInv
BY LimiterInitWindows, LimiterStepWindows, PTL DEF LimiterSpec

\* The windows keep their events, the day's in the order of their recording
\* (limiter.go:40-48, 112-122).
THEOREM LimiterTypeCorrect == LimiterSpec => []LimiterTypeOK
<1>1. WindowsInv => LimiterTypeOK
  BY DEF WindowsInv
<1>2. QED
  BY <1>1, LimiterWindows, PTL

\* The minute is the latest part of the day at every moment, whichever of the
\* two was trimmed or recorded in when (limiter.go:83-99).
THEOREM MinuteWithinDay == LimiterSpec => []MinuteIsLatestOfDay
<1>1. WindowsInv => MinuteIsLatestOfDay
  <2> SUFFICES ASSUME WindowsInv
               PROVE  MinuteIsLatestOfDay
    OBVIOUS
  <2>1. requestDay \in Seq(Events) /\ LastPart(requestMinute, requestDay)
    BY DEF WindowsInv, LimiterTypeOK
  <2>2. LastPart(CleanMinute, CleanDay)
    BY <2>1, LastPartTrim DEF CleanMinute, CleanDay
  <2>3. QED
    BY <2>2 DEF LastPart, Drop, MinuteIsLatestOfDay
<1>2. QED
  BY <1>1, LimiterWindows, PTL

-----------------------------------------------------------------------------
(* The overshoot *)

\* A window has room for every worker whose call is under way, and one fewer.
Bounded(events, width, limit) ==
    limit > 0 /\ Cap(limit) > 0 =>
        Len(trimEvents(events, width)) + Cardinality(calling) <= Cap(limit) - 1 + N

OvershootInv ==
    /\ WindowsInv
    /\ Bounded(requestMinute, Minute, Rpm)
    /\ Bounded(requestDay, Day, Rpd)

LEMMA CapType ==
    ASSUME NEW limit \in Nat
    PROVE  Cap(limit) \in Int
BY LimiterAssumption DEF Cap

LEMMA LimitTypes == Rpm \in Nat /\ Rpd \in Nat
BY LimiterAssumption

LEMMA CallingFinite ==
    ASSUME NEW C \in SUBSET Workers
    PROVE  IsFiniteSet(C) /\ Cardinality(C) \in Nat /\ N \in Nat /\ Cardinality(C) <= N
BY LimiterAssumption, FS_Subset, FS_CardinalityType DEF N

LEMMA TrimLength ==
    ASSUME NEW events \in Seq(Events), NEW width
    PROVE  Len(trimEvents(events, width)) \in Nat
BY TrimAgain

\* The bound after a step, on what the step leaves of a window.
BoundedNext(later, width, limit) ==
    limit > 0 /\ Cap(limit) > 0 =>
        Len(trimEvents(later, width)) + Cardinality(calling') <= Cap(limit) - 1 + N

\* A step that leaves no more than before bounds the overshoot.
LEMMA FewerBounded ==
    ASSUME NEW events \in Seq(Events), NEW later \in Seq(Events), NEW width, NEW limit \in Nat,
           calling \subseteq Workers, calling' \subseteq Workers,
           Bounded(events, width, limit),
           Len(trimEvents(later, width)) + Cardinality(calling')
              <= Len(trimEvents(events, width)) + Cardinality(calling)
    PROVE  BoundedNext(later, width, limit)
<1>1. /\ Cardinality(calling) \in Nat /\ Cardinality(calling') \in Nat /\ N \in Nat
      /\ Cap(limit) \in Int
      /\ Len(trimEvents(events, width)) \in Nat /\ Len(trimEvents(later, width)) \in Nat
  BY CallingFinite, CapType, TrimLength
<1>2. QED
  BY <1>1 DEF Bounded, BoundedNext

\* A check that passes has met both counts below their caps, one that does not
\* leaves things as they are.
LEMMA CheckBounded ==
    ASSUME NEW events \in Seq(Events), NEW width, NEW limit \in Nat, NEW w \in Workers,
           calling \subseteq Workers, Bounded(events, width, limit),
           \/ calling' = calling
           \/ calling' = calling \cup {w} /\ Below(Len(trimEvents(events, width)), limit)
    PROVE  BoundedNext(trimEvents(events, width), width, limit)
<1>1. /\ trimEvents(trimEvents(events, width), width) = trimEvents(events, width)
      /\ Len(trimEvents(events, width)) \in Nat
  BY TrimAgain
<1>2. /\ calling' \subseteq Workers /\ Cardinality(calling') \in Nat /\ N \in Nat
      /\ Cardinality(calling') <= N /\ Cap(limit) \in Int
  BY CallingFinite, CapType
<1>3. CASE calling' = calling
  BY <1>1, <1>3 DEF Bounded, BoundedNext
<1>4. CASE Below(Len(trimEvents(events, width)), limit)
  BY <1>1, <1>2, <1>4 DEF Below, BoundedNext
<1>5. QED
  BY <1>3, <1>4

\* What a worker records takes the place the worker had.
LEMMA RecordBounded ==
    ASSUME NEW events \in Seq(Events), NEW event \in Events, event.age = 0,
           NEW width \in Nat, NEW limit \in Nat, NEW w \in calling,
           calling \subseteq Workers, calling' = calling \ {w}, Bounded(events, width, limit)
    PROVE  BoundedNext(trimEvents(Append(events, event), width), width, limit)
<1>1. /\ Append(events, event) \in Seq(Events)
      /\ Len(trimEvents(Append(events, event), width)) = Len(trimEvents(events, width)) + 1
  BY TrimAppend
<1>2. trimEvents(trimEvents(Append(events, event), width), width) = trimEvents(Append(events, event), width)
  BY <1>1, TrimAgain
<1>3. Cardinality(calling') = Cardinality(calling) - 1
  BY CallingFinite, FS_RemoveElement
<1>4. Cardinality(calling) \in Nat /\ Len(trimEvents(events, width)) \in Nat
  BY CallingFinite, TrimLength
<1>5. QED
  BY <1>1, <1>2, <1>3, <1>4 DEF Bounded, BoundedNext

LEMMA OvershootStep == OvershootInv /\ [LimiterNext]_limiterVars => OvershootInv'
<1> SUFFICES ASSUME OvershootInv, [LimiterNext]_limiterVars
             PROVE  OvershootInv'
  OBVIOUS
<1>0. /\ requestMinute \in Seq(Events) /\ requestDay \in Seq(Events) /\ calling \subseteq Workers
      /\ Bounded(requestMinute, Minute, Rpm) /\ Bounded(requestDay, Day, Rpd)
      /\ Rpm \in Nat /\ Rpd \in Nat /\ Minute \in Nat /\ Day \in Nat
  BY LimiterTypeMeans, LimitTypes, LimiterNumbers DEF OvershootInv, WindowsInv
<1>1. WindowsInv'
  BY LimiterStepWindows DEF OvershootInv
<1>2. /\ requestMinute' \in Seq(Events) /\ requestDay' \in Seq(Events) /\ calling' \subseteq Workers
  BY <1>1 DEF WindowsInv, LimiterTypeOK
<1>3. SUFFICES /\ BoundedNext(requestMinute', Minute, Rpm)
               /\ BoundedNext(requestDay', Day, Rpd)
  BY <1>1 DEF OvershootInv, Bounded, BoundedNext, Cap, N
<1>4. ASSUME NEW w \in Workers, Check(w)
      PROVE  BoundedNext(requestMinute', Minute, Rpm) /\ BoundedNext(requestDay', Day, Rpd)
  <2>1. /\ requestMinute' = trimEvents(requestMinute, Minute)
        /\ requestDay' = trimEvents(requestDay, Day)
    BY <1>4 DEF Check, Clean, CleanMinute, CleanDay
  <2>2. \/ calling' = calling
        \/ /\ calling' = calling \cup {w}
           /\ Below(Len(trimEvents(requestMinute, Minute)), Rpm)
           /\ Below(Len(trimEvents(requestDay, Day)), Rpd)
    BY <1>4 DEF Check, Allowed, CleanMinute, CleanDay
  <2>3. \/ calling' = calling
        \/ calling' = calling \cup {w} /\ Below(Len(trimEvents(requestMinute, Minute)), Rpm)
    BY <2>2
  <2>4. \/ calling' = calling
        \/ calling' = calling \cup {w} /\ Below(Len(trimEvents(requestDay, Day)), Rpd)
    BY <2>2
  <2>5. BoundedNext(trimEvents(requestMinute, Minute), Minute, Rpm)
    BY <1>0, <2>3, CheckBounded
  <2>6. BoundedNext(trimEvents(requestDay, Day), Day, Rpd)
    BY <1>0, <2>4, CheckBounded
  <2>7. QED
    BY <2>1, <2>5, <2>6
<1>5. ASSUME NEW w \in Workers, Record(w)
      PROVE  BoundedNext(requestMinute', Minute, Rpm) /\ BoundedNext(requestDay', Day, Rpd)
  <2>1. PICK n \in Tokens :
          /\ requestMinute' = trimEvents(Append(requestMinute, [age |-> 0, tokens |-> n]), Minute)
          /\ requestDay' = trimEvents(Append(requestDay, [age |-> 0, tokens |-> n]), Day)
    BY <1>5 DEF Record
  <2>2. PICK event \in Events : event = [age |-> 0, tokens |-> n]
    BY EventOfNow
  <2>3. event.age = 0 /\ w \in calling /\ calling' = calling \ {w}
    BY <1>5, <2>2 DEF Record
  <2>4. BoundedNext(trimEvents(Append(requestMinute, event), Minute), Minute, Rpm)
    BY <1>0, <2>3, RecordBounded
  <2>5. BoundedNext(trimEvents(Append(requestDay, event), Day), Day, Rpd)
    BY <1>0, <2>3, RecordBounded
  <2>6. QED
    BY <2>1, <2>2, <2>4, <2>5
<1>6. ASSUME /\ Len(trimEvents(requestMinute', Minute)) <= Len(trimEvents(requestMinute, Minute))
             /\ Len(trimEvents(requestDay', Day)) <= Len(trimEvents(requestDay, Day))
             /\ calling' \subseteq calling
      PROVE  BoundedNext(requestMinute', Minute, Rpm) /\ BoundedNext(requestDay', Day, Rpd)
  <2>1. /\ Cardinality(calling') <= Cardinality(calling)
        /\ Cardinality(calling') \in Nat /\ Cardinality(calling) \in Nat
    BY <1>0, <1>6, CallingFinite, FS_Subset
  <2>2. /\ Len(trimEvents(requestMinute', Minute)) \in Nat
        /\ Len(trimEvents(requestMinute, Minute)) \in Nat
        /\ Len(trimEvents(requestDay', Day)) \in Nat
        /\ Len(trimEvents(requestDay, Day)) \in Nat
    BY <1>0, <1>2, TrimLength
  <2>3. /\ Len(trimEvents(requestMinute', Minute)) + Cardinality(calling')
              <= Len(trimEvents(requestMinute, Minute)) + Cardinality(calling)
        /\ Len(trimEvents(requestDay', Day)) + Cardinality(calling')
              <= Len(trimEvents(requestDay, Day)) + Cardinality(calling)
    BY <1>6, <2>1, <2>2
  <2>4. BoundedNext(requestMinute', Minute, Rpm)
    BY <1>0, <1>2, <2>3, FewerBounded
  <2>5. BoundedNext(requestDay', Day, Rpd)
    BY <1>0, <1>2, <2>3, FewerBounded
  <2>6. QED
    BY <2>4, <2>5
<1>7. ASSUME NEW w \in Workers, CallFails(w)
      PROVE  BoundedNext(requestMinute', Minute, Rpm) /\ BoundedNext(requestDay', Day, Rpd)
  <2>1. UNCHANGED <<requestMinute, requestDay>> /\ calling' \subseteq calling
    BY <1>7 DEF CallFails
  <2>2. Len(trimEvents(requestMinute, Minute)) \in Nat /\ Len(trimEvents(requestDay, Day)) \in Nat
    BY <1>0, TrimLength
  <2>3. QED
    BY <1>6, <2>1, <2>2
<1>8. CASE Usage
  <2>1. /\ requestMinute' = trimEvents(requestMinute, Minute)
        /\ requestDay' = trimEvents(requestDay, Day)
        /\ calling' \subseteq calling
    BY <1>8 DEF Usage, Clean, CleanMinute, CleanDay
  <2>2. /\ trimEvents(requestMinute', Minute) = trimEvents(requestMinute, Minute)
        /\ trimEvents(requestDay', Day) = trimEvents(requestDay, Day)
    BY <1>0, <2>1, TrimAgain
  <2>3. Len(trimEvents(requestMinute, Minute)) \in Nat /\ Len(trimEvents(requestDay, Day)) \in Nat
    BY <1>0, TrimLength
  <2>4. QED
    BY <1>6, <2>1, <2>2, <2>3
<1>9. CASE TimePasses
  <2>1. /\ requestMinute' = Older(requestMinute) /\ requestDay' = Older(requestDay)
        /\ calling' \subseteq calling
    BY <1>9 DEF TimePasses
  <2>2. QED
    BY <1>0, <1>6, <2>1, TrimOlder
<1>10. CASE UNCHANGED limiterVars
  <2>1. UNCHANGED <<requestMinute, requestDay>> /\ calling' \subseteq calling
    BY <1>10 DEF limiterVars
  <2>2. Len(trimEvents(requestMinute, Minute)) \in Nat /\ Len(trimEvents(requestDay, Day)) \in Nat
    BY <1>0, TrimLength
  <2>3. QED
    BY <1>6, <2>1, <2>2
<1>11. QED
  BY <1>4, <1>5, <1>7, <1>8, <1>9, <1>10 DEF LimiterNext

LEMMA OvershootInit == LimiterInit => OvershootInv
<1> SUFFICES ASSUME LimiterInit
             PROVE  OvershootInv
  OBVIOUS
<1>1. requestMinute = <<>> /\ requestDay = <<>> /\ calling = {}
  BY DEF LimiterInit
<1>2. ASSUME NEW width, NEW limit \in Nat
      PROVE  Bounded(<<>>, width, limit)
  <2>1. Len(trimEvents(<<>>, width)) = 0
    <3>1. <<>> \in Seq(Events) /\ Len(<<>>) = 0
      OBVIOUS
    <3>2. PICK k \in 0..Len(<<>>) : trimEvents(<<>>, width) = Drop(<<>>, k)
      BY <3>1, TrimCuts
    <3>3. k = 0
      BY <3>1
    <3>4. QED
      BY <3>1, <3>2, <3>3, DropNone
  <2>2. Cardinality(calling) = 0
    BY <1>1, FS_EmptySet
  <2>3. Cap(limit) \in Int /\ N \in Nat
    BY CapType, CallingFinite
  <2>4. QED
    BY <2>1, <2>2, <2>3 DEF Bounded
<1>3. Bounded(requestMinute, Minute, Rpm) /\ Bounded(requestDay, Day, Rpd)
  BY <1>1, <1>2, LimitTypes
<1>4. QED
  BY <1>3, LimiterInitWindows DEF OvershootInv

\* However many goroutines check at once, they overshoot a cap on requests by
\* one fewer than they are, in every minute and every day (limiter.go:50).
THEOREM OvershootIsBounded == LimiterSpec => []OvershootBounded
<1>1. OvershootInv => OvershootBounded
  BY DEF OvershootInv, Bounded, OvershootBounded, CleanMinute, CleanDay
<1>2. QED
  BY <1>1, OvershootInit, OvershootStep, PTL DEF LimiterSpec

-----------------------------------------------------------------------------
(* CycleDetection                                                          *)

\* The first of a sequence without the element at p, and the element moved to its end.
Moved(seq, p) == Append(RemoveAt(seq, p), seq[p])

LEMMA RemoveAtProperties ==
    ASSUME NEW S, NEW seq \in Seq(S), NEW p \in 1..Len(seq)
    PROVE  /\ RemoveAt(seq, p) \in Seq(S)
           /\ Len(RemoveAt(seq, p)) = Len(seq) - 1
           /\ \A i \in 1..(Len(seq) - 1) : RemoveAt(seq, p)[i] = IF i < p THEN seq[i] ELSE seq[i + 1]
<1> DEFINE head == SubSeq(seq, 1, p - 1)
           tail == SubSeq(seq, p + 1, Len(seq))
<1>1. /\ Len(seq) \in Nat /\ p \in Nat /\ p >= 1 /\ p <= Len(seq)
      /\ \A i \in 1..Len(seq) : seq[i] \in S
  OBVIOUS
<1>2. /\ head \in Seq(S) /\ Len(head) = p - 1
      /\ \A i \in 1..(p - 1) : head[i] = seq[i]
  <2>1. \A i \in 1..(p - 1) : seq[i] \in S
    BY <1>1
  <2>2. /\ head \in Seq(S) /\ Len(head) = IF 1 <= p - 1 THEN (p - 1) - 1 + 1 ELSE 0
        /\ \A i \in 1..((p - 1) - 1 + 1) : head[i] = seq[1 + i - 1]
    BY <1>1, <2>1, SubSeqProperties
  <2>3. QED
    BY <1>1, <2>2
<1>3. /\ tail \in Seq(S) /\ Len(tail) = Len(seq) - p
      /\ \A i \in 1..(Len(seq) - p) : tail[i] = seq[p + i]
  <2>1. \A i \in (p + 1)..Len(seq) : seq[i] \in S
    BY <1>1
  <2>2. /\ tail \in Seq(S) /\ Len(tail) = IF p + 1 <= Len(seq) THEN Len(seq) - (p + 1) + 1 ELSE 0
        /\ \A i \in 1..(Len(seq) - (p + 1) + 1) : tail[i] = seq[(p + 1) + i - 1]
    BY <1>1, <2>1, SubSeqProperties
  <2>3. QED
    BY <1>1, <2>2
<1>4. RemoveAt(seq, p) = head \o tail
  BY DEF RemoveAt
<1> HIDE DEF head, tail
<1>5. /\ head \o tail \in Seq(S)
      /\ Len(head \o tail) = Len(head) + Len(tail)
      /\ \A i \in 1..(Len(head) + Len(tail)) :
            (head \o tail)[i] = IF i <= Len(head) THEN head[i] ELSE tail[i - Len(head)]
  BY <1>2, <1>3, ConcatProperties
<1>6. ASSUME NEW i \in 1..(Len(seq) - 1)
      PROVE  (head \o tail)[i] = IF i < p THEN seq[i] ELSE seq[i + 1]
  <2>1. i \in 1..(Len(head) + Len(tail)) /\ i \in Nat
    BY <1>1, <1>2, <1>3
  <2>2. CASE i < p
    <3>1. i <= Len(head) /\ i \in 1..(p - 1)
      BY <1>1, <1>2, <2>1, <2>2
    <3>2. QED
      BY <1>2, <1>5, <2>1, <2>2, <3>1
  <2>3. CASE ~(i < p)
    <3>1. ~(i <= Len(head)) /\ i - Len(head) \in 1..(Len(seq) - p) /\ p + (i - Len(head)) = i + 1
      BY <1>1, <1>2, <2>1, <2>3
    <3>2. QED
      BY <1>3, <1>5, <2>1, <2>3, <3>1
  <2>4. QED
    BY <2>2, <2>3
<1>7. Len(head) + Len(tail) = Len(seq) - 1
  BY <1>1, <1>2, <1>3
<1>8. /\ head \o tail \in Seq(S) /\ Len(head \o tail) = Len(seq) - 1
  BY <1>5, <1>7
<1>9. QED
  BY <1>4, <1>6, <1>8

\* No element occurs twice.
LEMMA RemoveFirstThere ==
    ASSUME NEW S, NEW seq \in Seq(S), IsInjective(seq), NEW p \in 1..Len(seq)
    PROVE  RemoveFirst(seq, seq[p]) = RemoveAt(seq, p)
<1> DEFINE I == {i \in 1..Len(seq) : seq[i] = seq[p]}
<1>1. DOMAIN seq = 1..Len(seq)
  OBVIOUS
<1>2. I = {p}
  BY <1>1 DEF IsInjective
<1>3. Min(I) = p
  BY <1>2 DEF Min
<1>4. I # {}
  BY <1>2
<1>5. SelectInSeq(seq, LAMBDA v : v = seq[p]) = IF I # {} THEN Min(I) ELSE 0
  BY DEF SelectInSeq
<1>6. QED
  BY <1>3, <1>4, <1>5 DEF RemoveFirst

LEMMA RemoveFirstNotThere ==
    ASSUME NEW S, NEW seq \in Seq(S), NEW e, e \notin Range(seq)
    PROVE  RemoveFirst(seq, e) = seq
BY DEF RemoveFirst, Range

LEMMA MovedProperties ==
    ASSUME NEW S, NEW seq \in Seq(S), NEW p \in 1..Len(seq)
    PROVE  /\ Moved(seq, p) \in Seq(S)
           /\ Len(Moved(seq, p)) = Len(seq)
           /\ \A i \in 1..Len(seq) :
                 Moved(seq, p)[i] = IF i < p THEN seq[i] ELSE IF i < Len(seq) THEN seq[i + 1] ELSE seq[p]
<1>1. /\ Len(seq) \in Nat /\ p \in Nat /\ seq[p] \in S
  OBVIOUS
<1> DEFINE rest == RemoveAt(seq, p)
<1>2. /\ rest \in Seq(S) /\ Len(rest) = Len(seq) - 1
      /\ \A i \in 1..(Len(seq) - 1) : rest[i] = IF i < p THEN seq[i] ELSE seq[i + 1]
  BY RemoveAtProperties
<1>3. Moved(seq, p) = Append(rest, seq[p])
  BY DEF Moved
<1> HIDE DEF rest
<1>4. /\ Append(rest, seq[p]) \in Seq(S) /\ Len(Append(rest, seq[p])) = Len(rest) + 1
      /\ \A i \in 1..Len(rest) : Append(rest, seq[p])[i] = rest[i]
      /\ Append(rest, seq[p])[Len(rest) + 1] = seq[p]
  BY <1>1, <1>2, AppendProperties
<1>5. ASSUME NEW i \in 1..Len(seq)
      PROVE  Append(rest, seq[p])[i]
               = IF i < p THEN seq[i] ELSE IF i < Len(seq) THEN seq[i + 1] ELSE seq[p]
  <2>1. CASE i = Len(seq)
    BY <1>1, <1>2, <1>4, <2>1
  <2>2. CASE i < Len(seq)
    <3>1. i \in 1..(Len(seq) - 1)
      BY <1>1, <2>2
    <3>2. Append(rest, seq[p])[i] = rest[i]
      BY <1>2, <1>4, <3>1
    <3>3. QED
      BY <1>2, <2>2, <3>1, <3>2
  <2>3. i = Len(seq) \/ i < Len(seq)
    BY <1>1
  <2>4. QED
    BY <2>1, <2>2, <2>3
<1>6. QED
  BY <1>1, <1>2, <1>3, <1>4, <1>5

LEMMA MovedInjective ==
    ASSUME NEW S, NEW seq \in Seq(S), IsInjective(seq), NEW p \in 1..Len(seq)
    PROVE  IsInjective(Moved(seq, p)) /\ Range(Moved(seq, p)) = Range(seq)
<1>1. /\ Moved(seq, p) \in Seq(S)
      /\ Len(Moved(seq, p)) = Len(seq)
      /\ \A i \in 1..Len(seq) :
            Moved(seq, p)[i] = IF i < p THEN seq[i] ELSE IF i < Len(seq) THEN seq[i + 1] ELSE seq[p]
  BY MovedProperties
<1>2. /\ DOMAIN seq = 1..Len(seq) /\ DOMAIN Moved(seq, p) = 1..Len(seq)
      /\ Len(seq) \in Nat /\ p \in Nat /\ 1 <= p /\ p <= Len(seq)
  BY <1>1
<1> DEFINE from(i) == IF i < p THEN i ELSE IF i < Len(seq) THEN i + 1 ELSE p
<1>3. ASSUME NEW i \in 1..Len(seq)
      PROVE  from(i) \in 1..Len(seq) /\ Moved(seq, p)[i] = seq[from(i)]
  BY <1>1, <1>2
<1>4. ASSUME NEW i \in 1..Len(seq), NEW j \in 1..Len(seq), from(i) = from(j)
      PROVE  i = j
  BY <1>2, <1>4
<1>5. ASSUME NEW j \in 1..Len(seq)
      PROVE  \E i \in 1..Len(seq) : from(i) = j
  <2>1. CASE j < p
    BY <2>1
  <2>2. CASE j = p
    <3>1. PICK n \in Nat : n = Len(seq)
      BY <1>2
    <3>2. n \in 1..Len(seq) /\ ~(n < p) /\ ~(n < Len(seq))
      BY <1>2, <3>1
    <3>3. from(n) = j
      BY <2>2, <3>2
    <3>4. QED
      BY <3>2, <3>3
  <2>3. CASE p < j
    <3>1. j - 1 \in 1..Len(seq) /\ from(j - 1) = j
      BY <1>2, <2>3
    <3>2. QED
      BY <3>1
  <2>4. QED
    BY <1>2, <2>1, <2>2, <2>3
<1> HIDE DEF from
<1>6. IsInjective(Moved(seq, p))
  BY <1>2, <1>3, <1>4 DEF IsInjective
<1>7. Range(Moved(seq, p)) = Range(seq)
  <2>1. \A i \in 1..Len(seq) : Moved(seq, p)[i] \in {seq[j] : j \in 1..Len(seq)}
    BY <1>3
  <2>2. \A j \in 1..Len(seq) : seq[j] \in {Moved(seq, p)[i] : i \in 1..Len(seq)}
    BY <1>3, <1>5
  <2>3. QED
    BY <1>2, <2>1, <2>2 DEF Range
<1>8. QED
  BY <1>6, <1>7

LEMMA DropMoved ==
    ASSUME NEW S, NEW seq \in Seq(S), NEW k \in 0..Len(seq), NEW p \in 1..(Len(seq) - k)
    PROVE  Drop(Moved(seq, k + p), k) = Moved(Drop(seq, k), p)
<1>1. Len(seq) \in Nat /\ k \in Nat /\ p \in Nat /\ k + p \in 1..Len(seq)
  OBVIOUS
<1> DEFINE whole == Moved(seq, k + p)
           part == Drop(seq, k)
           left == Drop(whole, k)
           right == Moved(part, p)
<1>2. /\ whole \in Seq(S) /\ Len(whole) = Len(seq)
      /\ \A i \in 1..Len(seq) :
            whole[i] = IF i < k + p THEN seq[i] ELSE IF i < Len(seq) THEN seq[i + 1] ELSE seq[k + p]
  BY <1>1, MovedProperties
<1>3. /\ part \in Seq(S) /\ Len(part) = Len(seq) - k
      /\ \A i \in 1..(Len(seq) - k) : part[i] = seq[k + i]
  BY DropProperties
<1> HIDE DEF whole, part
<1>4. /\ left \in Seq(S) /\ Len(left) = Len(seq) - k
      /\ \A i \in 1..(Len(seq) - k) : left[i] = whole[k + i]
  BY <1>1, <1>2, DropProperties
<1>5. /\ right \in Seq(S) /\ Len(right) = Len(part)
      /\ \A i \in 1..Len(part) :
            right[i] = IF i < p THEN part[i] ELSE IF i < Len(part) THEN part[i + 1] ELSE part[p]
  BY <1>1, <1>3, MovedProperties
<1> HIDE DEF left, right
<1>6. ASSUME NEW i \in 1..(Len(seq) - k)
      PROVE  left[i] = right[i]
  <2>1. i \in Nat /\ k + i \in 1..Len(seq) /\ (k + i < k + p <=> i < p) /\ (k + i < Len(seq) <=> i < Len(part))
    BY <1>1, <1>3
  <2>2. left[i] = IF i < p THEN seq[k + i] ELSE IF i < Len(part) THEN seq[k + i + 1] ELSE seq[k + p]
    BY <1>2, <1>4, <2>1
  <2>3. CASE i < p
    BY <1>3, <1>5, <2>2, <2>3
  <2>4. CASE ~(i < p) /\ i < Len(part)
    <3>1. i + 1 \in 1..(Len(seq) - k) /\ k + (i + 1) = k + i + 1
      BY <1>1, <1>3, <2>1, <2>4
    <3>2. QED
      BY <1>3, <1>5, <2>2, <2>4, <3>1
  <2>5. CASE ~(i < p) /\ ~(i < Len(part))
    BY <1>3, <1>5, <2>2, <2>5
  <2>6. QED
    BY <2>3, <2>4, <2>5
<1>7. left = right
  BY <1>3, <1>4, <1>5, <1>6, SeqEqual
<1>8. QED
  BY <1>7 DEF left, right, whole, part

\* How many elements Latest leaves out.
Cut(n, seq) == Len(seq) - (IF Len(seq) < n THEN Len(seq) ELSE n)

LEMMA LatestIsDrop ==
    ASSUME NEW S, NEW seq \in Seq(S), NEW n \in Nat
    PROVE  /\ Cut(n, seq) \in 0..Len(seq)
           /\ Cut(n, seq) = IF Len(seq) < n THEN 0 ELSE Len(seq) - n
           /\ Latest(n, seq) = Drop(seq, Cut(n, seq))
<1>1. Len(seq) \in Nat
  OBVIOUS
<1>2. Latest(n, seq) = Drop(seq, Cut(n, seq))
  BY DEF Latest, Drop, Cut
<1>3. QED
  BY <1>1, <1>2 DEF Cut

LEMMA LatestProperties ==
    ASSUME NEW S, NEW seq \in Seq(S), NEW n \in Nat
    PROVE  /\ Latest(n, seq) \in Seq(S)
           /\ Len(Latest(n, seq)) = Len(seq) - Cut(n, seq)
           /\ Len(Latest(n, seq)) <= n
           /\ \A i \in 1..(Len(seq) - Cut(n, seq)) : Latest(n, seq)[i] = seq[Cut(n, seq) + i]
<1>1. /\ Cut(n, seq) \in 0..Len(seq)
      /\ Cut(n, seq) = IF Len(seq) < n THEN 0 ELSE Len(seq) - n
      /\ Latest(n, seq) = Drop(seq, Cut(n, seq))
  BY LatestIsDrop
<1>2. /\ Drop(seq, Cut(n, seq)) \in Seq(S)
      /\ Len(Drop(seq, Cut(n, seq))) = Len(seq) - Cut(n, seq)
      /\ \A i \in 1..(Len(seq) - Cut(n, seq)) : Drop(seq, Cut(n, seq))[i] = seq[Cut(n, seq) + i]
  BY <1>1, DropProperties
<1>3. Len(seq) \in Nat
  OBVIOUS
<1>4. Len(seq) - Cut(n, seq) <= n
  BY <1>1, <1>3
<1>5. QED
  BY <1>1, <1>2, <1>4

\* A new element takes one of the places.
LEMMA LatestAppend ==
    ASSUME NEW S, NEW seq \in Seq(S), NEW e \in S, NEW n \in Nat \ {0}
    PROVE  Latest(n, Append(seq, e)) = Append(Latest(n - 1, seq), e)
<1>1. n - 1 \in Nat /\ Len(seq) \in Nat
  OBVIOUS
<1> DEFINE more == Append(seq, e)
           part == Latest(n - 1, seq)
           left == Latest(n, more)
           right == Append(part, e)
           c == Cut(n - 1, seq)
<1>2. /\ more \in Seq(S) /\ Len(more) = Len(seq) + 1
      /\ \A i \in 1..Len(seq) : more[i] = seq[i]
      /\ more[Len(seq) + 1] = e
  BY AppendProperties
<1>3. /\ part \in Seq(S) /\ Len(part) = Len(seq) - c
      /\ \A i \in 1..(Len(seq) - c) : part[i] = seq[c + i]
  BY <1>1, LatestProperties
<1>4. c \in 0..Len(seq) /\ c = IF Len(seq) < n - 1 THEN 0 ELSE Len(seq) - (n - 1)
  BY <1>1, LatestIsDrop
<1> HIDE DEF more, part, c
<1>5. Cut(n, more) = c
  <2>1. Cut(n, more) = IF Len(more) < n THEN 0 ELSE Len(more) - n
    BY <1>2, LatestIsDrop
  <2>2. QED
    BY <1>1, <1>2, <1>4, <2>1
<1>6. /\ left \in Seq(S) /\ Len(left) = Len(more) - c
      /\ \A i \in 1..(Len(more) - c) : left[i] = more[c + i]
  BY <1>2, <1>5, LatestProperties
<1>7. /\ right \in Seq(S) /\ Len(right) = Len(part) + 1
      /\ \A i \in 1..Len(part) : right[i] = part[i]
      /\ right[Len(part) + 1] = e
  BY <1>3, AppendProperties
<1> HIDE DEF left, right
<1>8. Len(left) = Len(right)
  <2>1. c \in Int
    BY <1>1, <1>4
  <2>2. Len(left) = Len(seq) + 1 - c
    <3>1. Len(left) = Len(more) - c
      BY <1>6
    <3>2. Len(more) = Len(seq) + 1
      BY <1>2
    <3>3. QED
      BY <1>1, <2>1, <3>1, <3>2
  <2>3. Len(right) = Len(seq) - c + 1
    BY <1>3, <1>7
  <2>4. QED
    BY <1>1, <2>1, <2>2, <2>3
<1>9. ASSUME NEW i \in 1..Len(left)
      PROVE  left[i] = right[i]
  <2>1. i \in Nat /\ i >= 1 /\ i <= Len(seq) + 1 - c /\ i \in 1..(Len(more) - c) /\ c \in Nat
    BY <1>1, <1>2, <1>4, <1>6
  <2>2. CASE i = Len(seq) + 1 - c
    <3>1. c + i = Len(seq) + 1 /\ i = Len(part) + 1
      BY <1>1, <1>3, <1>4, <2>1, <2>2
    <3>2. left[i] = e
      BY <1>2, <1>6, <2>1, <3>1
    <3>3. right[i] = e
      BY <1>7, <3>1
    <3>4. QED
      BY <3>2, <3>3
  <2>3. CASE i # Len(seq) + 1 - c
    <3>1. i \in 1..(Len(seq) - c) /\ i \in 1..Len(part) /\ c + i \in 1..Len(seq)
      <4>1. i <= Len(seq) - c
        BY <1>1, <2>1, <2>3
      <4>2. QED
        BY <1>1, <1>3, <2>1, <4>1
    <3>2. left[i] = seq[c + i]
      BY <1>2, <1>6, <2>1, <3>1
    <3>3. right[i] = seq[c + i]
      BY <1>3, <1>7, <3>1
    <3>4. QED
      BY <3>2, <3>3
  <2>4. QED
    BY <2>2, <2>3
<1>10. left = right
  BY <1>6, <1>7, <1>8, <1>9, SeqEqual
<1>11. QED
  BY <1>10 DEF left, right, more, part

LEMMA LatestLatest ==
    ASSUME NEW S, NEW seq \in Seq(S), NEW n \in Nat \ {0}
    PROVE  Latest(n - 1, Latest(n, seq)) = Latest(n - 1, seq)
<1>1. n - 1 \in Nat /\ n \in Nat /\ Len(seq) \in Nat
  OBVIOUS
<1> DEFINE part == Latest(n, seq)
           c == Cut(n, seq)
           d == Cut(n - 1, part)
<1>2. /\ c \in 0..Len(seq) /\ c = (IF Len(seq) < n THEN 0 ELSE Len(seq) - n)
      /\ part = Drop(seq, c)
  BY <1>1, LatestIsDrop
<1>3. part \in Seq(S) /\ Len(part) = Len(seq) - c
  BY <1>1, LatestProperties
<1> HIDE DEF part, c
<1>4. /\ d \in 0..Len(part) /\ d = (IF Len(part) < n - 1 THEN 0 ELSE Len(part) - (n - 1))
      /\ Latest(n - 1, part) = Drop(part, d)
  BY <1>1, <1>3, LatestIsDrop
<1>5. /\ Cut(n - 1, seq) = (IF Len(seq) < n - 1 THEN 0 ELSE Len(seq) - (n - 1))
      /\ Latest(n - 1, seq) = Drop(seq, Cut(n - 1, seq))
  BY <1>1, LatestIsDrop
<1> HIDE DEF d
<1>6. d \in 0..(Len(seq) - c) /\ c + d = Cut(n - 1, seq)
  <2>1. PICK l \in Nat : l = Len(seq)
    BY <1>1
  <2>2. c = (IF l < n THEN 0 ELSE l - n) /\ Len(part) = l - c
    BY <1>2, <1>3, <2>1
  <2>3. d = (IF l - c < n - 1 THEN 0 ELSE l - c - (n - 1))
    BY <1>4, <2>2
  <2>4. Cut(n - 1, seq) = (IF l < n - 1 THEN 0 ELSE l - (n - 1))
    BY <1>5, <2>1
  <2>5. CASE l < n
    <3>1. c = 0 /\ d = Cut(n - 1, seq) /\ d \in 0..l
      BY <2>2, <2>3, <2>4, <2>5
    <3>2. QED
      BY <2>1, <3>1
  <2>6. CASE ~(l < n)
    <3>1. c = l - n /\ d = 1 /\ Cut(n - 1, seq) = l - (n - 1)
      BY <2>2, <2>3, <2>4, <2>6
    <3>2. QED
      BY <2>1, <3>1
  <2>7. QED
    BY <2>5, <2>6
<1>7. Drop(Drop(seq, c), d) = Drop(seq, c + d)
  BY <1>2, <1>6, DropOfDrop
<1>8. QED
  BY <1>2, <1>4, <1>5, <1>6, <1>7 DEF part

\* What goes away further ahead leaves the last elements as they are.
LEMMA LatestRemoved ==
    ASSUME NEW S, NEW seq \in Seq(S), NEW n \in Nat, NEW p \in 1..Len(seq), p + n <= Len(seq)
    PROVE  Latest(n, RemoveAt(seq, p)) = Latest(n, seq)
<1>1. Len(seq) \in Nat /\ p \in Nat /\ p >= 1 /\ p <= Len(seq)
  OBVIOUS
<1> DEFINE rest == RemoveAt(seq, p)
           left == Latest(n, rest)
           right == Latest(n, seq)
<1>2. /\ rest \in Seq(S) /\ Len(rest) = Len(seq) - 1
      /\ \A i \in 1..(Len(seq) - 1) : rest[i] = IF i < p THEN seq[i] ELSE seq[i + 1]
  BY RemoveAtProperties
<1> HIDE DEF rest
<1>3. Cut(n, rest) = Len(seq) - 1 - n
  <2>1. Cut(n, rest) = IF Len(rest) < n THEN 0 ELSE Len(rest) - n
    BY <1>2, LatestIsDrop
  <2>2. QED
    BY <1>1, <1>2, <2>1
<1>4. Cut(n, seq) = Len(seq) - n
  <2>1. Cut(n, seq) = IF Len(seq) < n THEN 0 ELSE Len(seq) - n
    BY LatestIsDrop
  <2>2. QED
    BY <1>1, <2>1
<1>5. /\ left \in Seq(S) /\ Len(left) = Len(rest) - Cut(n, rest)
      /\ \A i \in 1..(Len(rest) - Cut(n, rest)) : left[i] = rest[Cut(n, rest) + i]
  BY <1>2, LatestProperties
<1>6. /\ right \in Seq(S) /\ Len(right) = Len(seq) - Cut(n, seq)
      /\ \A i \in 1..(Len(seq) - Cut(n, seq)) : right[i] = seq[Cut(n, seq) + i]
  BY LatestProperties
<1> HIDE DEF left, right
<1>7. Len(left) = n /\ Len(right) = n
  BY <1>1, <1>2, <1>3, <1>4, <1>5, <1>6
<1>8. ASSUME NEW i \in 1..n
      PROVE  left[i] = right[i]
  <2>1. i \in Nat /\ i >= 1 /\ i <= n
    OBVIOUS
  <2>2. left[i] = rest[Len(seq) - 1 - n + i]
    BY <1>3, <1>5, <1>7
  <2>3. right[i] = seq[Len(seq) - n + i]
    BY <1>4, <1>6, <1>7
  <2>4. /\ Len(seq) - 1 - n + i \in 1..(Len(seq) - 1)
        /\ ~(Len(seq) - 1 - n + i < p)
        /\ (Len(seq) - 1 - n + i) + 1 = Len(seq) - n + i
    BY <1>1, <2>1
  <2>5. rest[Len(seq) - 1 - n + i] = seq[(Len(seq) - 1 - n + i) + 1]
    BY <1>2, <2>4
  <2>6. QED
    BY <2>2, <2>3, <2>4, <2>5
<1>9. left = right
  BY <1>5, <1>6, <1>7, <1>8, SeqEqual
<1>10. QED
  BY <1>9 DEF left, right, rest

LEMMA DropInjective ==
    ASSUME NEW S, NEW seq \in Seq(S), IsInjective(seq), NEW k \in 0..Len(seq)
    PROVE  IsInjective(Drop(seq, k)) /\ Range(Drop(seq, k)) \subseteq Range(seq)
<1>1. /\ Drop(seq, k) \in Seq(S) /\ Len(Drop(seq, k)) = Len(seq) - k
      /\ \A i \in 1..(Len(seq) - k) : Drop(seq, k)[i] = seq[k + i]
  BY DropProperties
<1>2. /\ DOMAIN seq = 1..Len(seq) /\ DOMAIN Drop(seq, k) = 1..(Len(seq) - k)
      /\ Len(seq) \in Nat /\ k \in Nat
  BY <1>1
<1>3. \A i \in 1..(Len(seq) - k) : k + i \in 1..Len(seq)
  BY <1>2
<1>4. ASSUME NEW i \in 1..(Len(seq) - k), NEW j \in 1..(Len(seq) - k), Drop(seq, k)[i] = Drop(seq, k)[j]
      PROVE  i = j
  <2>1. k + i = k + j
    BY <1>1, <1>2, <1>3, <1>4 DEF IsInjective
  <2>2. QED
    BY <1>2, <2>1
<1>5. IsInjective(Drop(seq, k))
  BY <1>2, <1>4 DEF IsInjective
<1>6. Range(Drop(seq, k)) \subseteq Range(seq)
  BY <1>1, <1>2, <1>3 DEF Range
<1>7. QED
  BY <1>5, <1>6

ExchangeHashes == {SimHash[<<p, r>>] : p \in Prompts, r \in Responses}
Detectors == [recentHashes : Hashes, lastResponse : Responses \cup {None}]

\* The registry holds the last sessions that were used, each once.
RegistryInv ==
    /\ used \in Seq(Sessions) /\ IsInjective(used)
    /\ order = Latest(MaxSize, used)
    /\ DOMAIN detectors = Range(order)

\* Requests, and what each detector knows.
DetectorInv ==
    /\ detectors \in [DOMAIN detectors -> Detectors]
    /\ session \in [Requests -> Sessions \cup {None}]
    /\ prompt \in [Requests -> Prompts \cup {None}]
    /\ \A r \in Requests : session[r] # None => prompt[r] \in Prompts
    /\ live \subseteq {r \in Requests : session[r] \in DOMAIN detectors}
    /\ apart \subseteq {r \in Requests : session[r] # None}
    /\ alone \in [Sessions -> SUBSET (Prompts \X Responses)]

\* What a session did last alone is what its detector holds.
AloneKept ==
    \A s \in Sessions : \A exchange \in alone[s] :
        /\ s \in DOMAIN detectors
        /\ detectors[s].lastResponse = exchange[2]
        /\ \E i \in DOMAIN detectors[s].recentHashes :
              detectors[s].recentHashes[i] = SimHash[<<exchange[1], exchange[2]>>]

CyclesInv == RegistryInv /\ DetectorInv /\ AloneKept

LEMMA CycleNumbers ==
    /\ MaxSize \in Nat \ {0} /\ MaxHashes \in Nat \ {0} /\ Threshold \in Nat
    /\ None \notin Sessions
BY CycleAssumption

LEMMA RangeOfAppend ==
    ASSUME NEW S, NEW seq \in Seq(S), NEW e \in S
    PROVE  /\ Range(Append(seq, e)) = Range(seq) \cup {e}
           /\ IsInjective(seq) /\ e \notin Range(seq) => IsInjective(Append(seq, e))
<1>1. /\ Len(seq) \in Nat /\ Append(seq, e) \in Seq(S)
      /\ Len(Append(seq, e)) = Len(seq) + 1
      /\ \A i \in 1..Len(seq) : Append(seq, e)[i] = seq[i]
      /\ Append(seq, e)[Len(seq) + 1] = e
  BY AppendProperties
<1>2. /\ DOMAIN seq = 1..Len(seq)
      /\ DOMAIN Append(seq, e) = 1..(Len(seq) + 1)
      /\ 1..(Len(seq) + 1) = (1..Len(seq)) \cup {Len(seq) + 1}
  BY <1>1
<1>3. Range(Append(seq, e)) = Range(seq) \cup {e}
  <2>1. \A i \in 1..(Len(seq) + 1) : Append(seq, e)[i] \in {seq[j] : j \in 1..Len(seq)} \cup {e}
    BY <1>1, <1>2
  <2>2. \A j \in 1..Len(seq) : seq[j] \in {Append(seq, e)[i] : i \in 1..(Len(seq) + 1)}
    BY <1>1, <1>2
  <2>3. e \in {Append(seq, e)[i] : i \in 1..(Len(seq) + 1)}
    BY <1>1, <1>2
  <2>4. QED
    BY <1>2, <2>1, <2>2, <2>3 DEF Range
<1>4. ASSUME IsInjective(seq), e \notin Range(seq)
      PROVE  IsInjective(Append(seq, e))
  <2>1. \A i \in 1..Len(seq) : seq[i] # e
    BY <1>2, <1>4 DEF Range
  <2>2. ASSUME NEW i \in 1..(Len(seq) + 1), NEW j \in 1..(Len(seq) + 1),
               Append(seq, e)[i] = Append(seq, e)[j]
        PROVE  i = j
    <3>1. CASE i \in 1..Len(seq) /\ j \in 1..Len(seq)
      BY <1>1, <1>2, <1>4, <2>2, <3>1 DEF IsInjective
    <3>2. CASE i = Len(seq) + 1 /\ j \in 1..Len(seq)
      BY <1>1, <2>1, <2>2, <3>2
    <3>3. CASE i \in 1..Len(seq) /\ j = Len(seq) + 1
      BY <1>1, <2>1, <2>2, <3>3
    <3>4. CASE i = Len(seq) + 1 /\ j = Len(seq) + 1
      BY <3>4
    <3>5. QED
      BY <1>2, <3>1, <3>2, <3>3, <3>4
  <2>3. QED
    BY <1>2, <2>2 DEF IsInjective
<1>5. QED
  BY <1>3, <1>4

\* What the invariant says of the order.
LEMMA OrderProperties ==
    ASSUME RegistryInv
    PROVE  /\ order \in Seq(Sessions) /\ IsInjective(order) /\ Len(order) <= MaxSize
           /\ DOMAIN detectors \subseteq Sessions
           /\ Cut(MaxSize, used) \in 0..Len(used)
           /\ Len(order) = Len(used) - Cut(MaxSize, used)
           /\ order = Drop(used, Cut(MaxSize, used))
           /\ \A i \in 1..(Len(used) - Cut(MaxSize, used)) : order[i] = used[Cut(MaxSize, used) + i]
<1>1. /\ MaxSize \in Nat /\ used \in Seq(Sessions) /\ IsInjective(used)
      /\ order = Latest(MaxSize, used) /\ DOMAIN detectors = Range(order)
  BY CycleNumbers DEF RegistryInv
<1>2. /\ order \in Seq(Sessions)
      /\ Len(order) = Len(used) - Cut(MaxSize, used)
      /\ Len(order) <= MaxSize
      /\ \A i \in 1..(Len(used) - Cut(MaxSize, used)) : order[i] = used[Cut(MaxSize, used) + i]
  BY <1>1, LatestProperties
<1>3. /\ Cut(MaxSize, used) \in 0..Len(used)
      /\ order = Drop(used, Cut(MaxSize, used))
  BY <1>1, LatestIsDrop
<1>4. IsInjective(order)
  BY <1>1, <1>3, DropInjective
<1>5. \A i \in DOMAIN order : order[i] \in Sessions
  BY <1>2
<1>6. DOMAIN detectors \subseteq Sessions
  BY <1>1, <1>5 DEF Range
<1>7. QED
  BY <1>2, <1>3, <1>4, <1>6

\* A session that is found moves to the end of both.
LEMMA FoundRegistry ==
    ASSUME RegistryInv, NEW s \in DOMAIN detectors, Get(s), used' = Append(RemoveFirst(used, s), s)
    PROVE  RegistryInv'
<1> DEFINE k == Cut(MaxSize, used)
<1>1. /\ order \in Seq(Sessions) /\ IsInjective(order)
      /\ k \in 0..Len(used) /\ Len(order) = Len(used) - k
      /\ order = Drop(used, k)
      /\ \A i \in 1..(Len(used) - k) : order[i] = used[k + i]
  BY OrderProperties
<1>2. /\ used \in Seq(Sessions) /\ IsInjective(used) /\ DOMAIN detectors = Range(order)
      /\ MaxSize \in Nat
  BY CycleNumbers DEF RegistryInv
<1>3. k = IF Len(used) < MaxSize THEN 0 ELSE Len(used) - MaxSize
  BY <1>2, LatestIsDrop
<1> HIDE DEF k
<1>4. PICK p \in 1..Len(order) : order[p] = s
  <2>1. s \in Range(order) /\ DOMAIN order = 1..Len(order)
    BY <1>1, <1>2
  <2>2. QED
    BY <2>1 DEF Range
<1>5. /\ p \in 1..(Len(used) - k) /\ k + p \in 1..Len(used) /\ used[k + p] = s
  <2>1. p \in 1..(Len(used) - k)
    BY <1>1
  <2>2. k \in Nat /\ Len(used) \in Nat /\ k <= Len(used)
    BY <1>1, <1>2
  <2>3. k + p \in 1..Len(used)
    BY <2>1, <2>2
  <2>4. QED
    BY <1>1, <1>4, <2>1, <2>3
<1>6. order' = Moved(order, p) /\ detectors' = detectors
  <2>1. order' = Append(RemoveFirst(order, s), s) /\ detectors' = detectors
    BY DEF Get, Touch
  <2>2. RemoveFirst(order, s) = RemoveAt(order, p)
    BY <1>1, <1>4, RemoveFirstThere
  <2>3. QED
    BY <1>4, <2>1, <2>2 DEF Moved
<1>7. used' = Moved(used, k + p)
  <2>1. RemoveFirst(used, s) = RemoveAt(used, k + p)
    BY <1>2, <1>5, RemoveFirstThere
  <2>2. QED
    BY <1>5, <2>1 DEF Moved
<1>8. used' \in Seq(Sessions) /\ Len(used') = Len(used) /\ IsInjective(used')
  BY <1>2, <1>5, <1>7, MovedProperties, MovedInjective
<1>9. order' = Latest(MaxSize, used')
  <2>1. Latest(MaxSize, used') = Drop(used', k)
    <3>1. /\ Cut(MaxSize, used') = IF Len(used') < MaxSize THEN 0 ELSE Len(used') - MaxSize
          /\ Latest(MaxSize, used') = Drop(used', Cut(MaxSize, used'))
      BY <1>2, <1>8, LatestIsDrop
    <3>2. Cut(MaxSize, used') = k
      BY <1>3, <1>8, <3>1
    <3>3. QED
      BY <3>1, <3>2
  <2>2. Drop(Moved(used, k + p), k) = Moved(Drop(used, k), p)
    BY <1>1, <1>2, <1>5, DropMoved
  <2>3. QED
    BY <1>1, <1>6, <1>7, <2>1, <2>2
<1>10. Range(order') = Range(order)
  BY <1>1, <1>6, MovedInjective
<1>11. DOMAIN detectors' = Range(order')
  BY <1>2, <1>6, <1>10
<1>12. QED
  BY <1>8, <1>9, <1>11 DEF RegistryInv, Latest

\* What a new session leaves of the order.
LEMMA KeptProperties ==
    ASSUME RegistryInv
    PROVE  /\ Latest(MaxSize - 1, order) \in Seq(Sessions)
           /\ Range(Latest(MaxSize - 1, order)) \subseteq DOMAIN detectors
           /\ Latest(MaxSize - 1, order) = Latest(MaxSize - 1, used)
<1>1. MaxSize \in Nat \ {0} /\ MaxSize - 1 \in Nat
  BY CycleNumbers
<1>2. /\ order \in Seq(Sessions) /\ IsInjective(order) /\ DOMAIN detectors = Range(order)
      /\ used \in Seq(Sessions) /\ order = Latest(MaxSize, used)
  BY OrderProperties DEF RegistryInv
<1>3. /\ Cut(MaxSize - 1, order) \in 0..Len(order)
      /\ Latest(MaxSize - 1, order) = Drop(order, Cut(MaxSize - 1, order))
  BY <1>1, <1>2, LatestIsDrop
<1>4. Range(Latest(MaxSize - 1, order)) \subseteq Range(order)
  BY <1>2, <1>3, DropInjective
<1>5. Latest(MaxSize - 1, order) \in Seq(Sessions)
  BY <1>1, <1>2, LatestProperties
<1>6. Latest(MaxSize - 1, order) = Latest(MaxSize - 1, used)
  BY <1>1, <1>2, LatestLatest
<1>7. QED
  BY <1>2, <1>4, <1>5, <1>6

\* A new session comes last in both, and the one used longest ago goes.
LEMMA NewRegistry ==
    ASSUME RegistryInv, NEW s \in Sessions, s \notin DOMAIN detectors,
           Get(s), used' = Append(RemoveFirst(used, s), s)
    PROVE  RegistryInv'
<1> DEFINE kept == Latest(MaxSize - 1, order)
           k == Cut(MaxSize, used)
<1>1. MaxSize \in Nat \ {0} /\ MaxSize - 1 \in Nat
  BY CycleNumbers
<1>2. /\ used \in Seq(Sessions) /\ IsInjective(used) /\ DOMAIN detectors = Range(order)
  BY DEF RegistryInv
<1>3. /\ order \in Seq(Sessions) /\ k \in 0..Len(used) /\ Len(order) = Len(used) - k
      /\ \A i \in 1..(Len(used) - k) : order[i] = used[k + i]
  BY OrderProperties
<1>4. k = IF Len(used) < MaxSize THEN 0 ELSE Len(used) - MaxSize
  BY <1>1, <1>2, LatestIsDrop
<1>5. kept \in Seq(Sessions) /\ kept = Latest(MaxSize - 1, used)
  BY KeptProperties
<1>6. order' = Append(kept, s) /\ DOMAIN detectors' = Range(kept) \cup {s}
  BY DEF Get
<1> HIDE DEF kept, k
<1>7. DOMAIN detectors' = Range(order')
  BY <1>5, <1>6, RangeOfAppend
<1>8. CASE s \notin Range(used)
  <2>1. used' = Append(used, s)
    BY <1>2, <1>8, RemoveFirstNotThere
  <2>2. used' \in Seq(Sessions) /\ IsInjective(used')
    BY <1>2, <1>8, <2>1, RangeOfAppend, AppendProperties
  <2>3. Latest(MaxSize, Append(used, s)) = Append(Latest(MaxSize - 1, used), s)
    BY <1>1, <1>2, LatestAppend
  <2>4. order' = Latest(MaxSize, used')
    BY <1>5, <1>6, <2>1, <2>3
  <2>5. QED
    BY <1>7, <2>2, <2>4 DEF RegistryInv, Latest
<1>9. CASE s \in Range(used)
  <2>1. PICK p \in 1..Len(used) : used[p] = s
    <3>1. DOMAIN used = 1..Len(used)
      BY <1>2
    <3>2. QED
      BY <1>9, <3>1 DEF Range
  <2>2. Len(used) \in Nat /\ k \in Nat
    BY <1>2, <1>3
  <2>3. p <= k
    <3>1. SUFFICES ASSUME k < p
                   PROVE  FALSE
      BY <2>2
    <3>2. p - k \in 1..(Len(used) - k) /\ k + (p - k) = p
      BY <2>2, <3>1
    <3>3. order[p - k] = s
      BY <1>3, <2>1, <3>2
    <3>4. p - k \in DOMAIN order
      BY <1>3, <3>2
    <3>5. QED
      BY <1>2, <3>3, <3>4 DEF Range
  <2>4. p + (MaxSize - 1) <= Len(used)
    BY <1>1, <1>4, <2>2, <2>3
  <2>5. RemoveFirst(used, s) = RemoveAt(used, p)
    BY <1>2, <2>1, RemoveFirstThere
  <2>6. used' = Append(RemoveAt(used, p), s) /\ used' = Moved(used, p)
    BY <2>1, <2>5 DEF Moved
  <2>7. used' \in Seq(Sessions) /\ IsInjective(used')
    BY <1>2, <2>6, MovedProperties, MovedInjective
  <2>8. RemoveAt(used, p) \in Seq(Sessions)
    BY <1>2, RemoveAtProperties
  <2>9. Latest(MaxSize, Append(RemoveAt(used, p), s)) = Append(Latest(MaxSize - 1, RemoveAt(used, p)), s)
    BY <1>1, <2>8, LatestAppend
  <2>10. Latest(MaxSize - 1, RemoveAt(used, p)) = Latest(MaxSize - 1, used)
    BY <1>1, <1>2, <2>4, LatestRemoved
  <2>11. order' = Latest(MaxSize, used')
    BY <1>5, <1>6, <2>6, <2>9, <2>10
  <2>12. QED
    BY <1>7, <2>7, <2>11 DEF RegistryInv, Latest
<1>10. QED
  BY <1>8, <1>9

-----------------------------------------------------------------------------
(* The detectors and the requests that hold them *)

LEMMA HashesMeans ==
    ASSUME NEW hashes
    PROVE  hashes \in Hashes <=> hashes \in Seq(ExchangeHashes) /\ Len(hashes) <= MaxHashes
<1>1. MaxHashes \in Nat
  BY CycleNumbers
<1>2. Hashes = UNION {[1..m -> ExchangeHashes] : m \in 0..MaxHashes}
  BY DEF Hashes, BoundedSeq, SeqOf, ExchangeHashes
<1>3. ASSUME hashes \in Hashes
      PROVE  hashes \in Seq(ExchangeHashes) /\ Len(hashes) <= MaxHashes
  <2>1. PICK m \in 0..MaxHashes : hashes \in [1..m -> ExchangeHashes]
    BY <1>2, <1>3
  <2>2. m \in Nat /\ hashes \in Seq(ExchangeHashes)
    BY <2>1
  <2>3. Len(hashes) = m
    BY <2>1, <2>2
  <2>4. QED
    BY <1>1, <2>2, <2>3
<1>4. ASSUME hashes \in Seq(ExchangeHashes), Len(hashes) <= MaxHashes
      PROVE  hashes \in Hashes
  <2>1. Len(hashes) \in 0..MaxHashes /\ hashes \in [1..Len(hashes) -> ExchangeHashes]
    BY <1>1, <1>4
  <2>2. QED
    BY <1>2, <2>1
<1>5. QED
  BY <1>3, <1>4

LEMMA FreshType == Fresh \in Detectors /\ Fresh.recentHashes = <<>>
<1>1. <<>> \in Hashes
  <2>1. <<>> \in Seq(ExchangeHashes) /\ Len(<<>>) <= MaxHashes
    BY CycleNumbers
  <2>2. QED
    BY <2>1, HashesMeans
<1>2. QED
  BY <1>1 DEF Fresh, Detectors

\* The hash that is added is there afterwards, however full the detector was.
LEMMA AddedProperties ==
    ASSUME NEW hashes \in Hashes, NEW h \in ExchangeHashes
    PROVE  /\ Added(hashes, h) \in Hashes
           /\ \E i \in DOMAIN Added(hashes, h) : Added(hashes, h)[i] = h
<1>1. hashes \in Seq(ExchangeHashes) /\ MaxHashes \in Nat \ {0} /\ MaxHashes - 1 \in Nat
  BY CycleNumbers, HashesMeans
<1> DEFINE part == Latest(MaxHashes - 1, hashes)
<1>2. part \in Seq(ExchangeHashes) /\ Len(part) <= MaxHashes - 1
  BY <1>1, LatestProperties
<1>3. Added(hashes, h) = Append(part, h)
  BY <1>1, LatestAppend DEF Added
<1> HIDE DEF part
<1>4. /\ Append(part, h) \in Seq(ExchangeHashes) /\ Len(Append(part, h)) = Len(part) + 1
      /\ Append(part, h)[Len(part) + 1] = h
      /\ Len(part) \in Nat
  BY <1>2, AppendProperties
<1>5. Len(part) + 1 <= MaxHashes /\ Len(part) + 1 \in DOMAIN Append(part, h)
  BY <1>1, <1>2, <1>4
<1>6. QED
  BY <1>3, <1>4, <1>5, HashesMeans

\* The hash of an exchange is a number.
LEMMA HashType ==
    ASSUME NEW p \in Prompts, NEW r \in Responses
    PROVE  SimHash[<<p, r>>] \in ExchangeHashes /\ SimHash[<<p, r>>] \in Nat
<1>1. <<p, r>> \in Prompts \X (Responses \cup {None})
  OBVIOUS
<1>2. QED
  BY <1>1, CycleAssumption DEF ExchangeHashes

LEMMA CyclesInitInv == CyclesInit => CyclesInv
<1> SUFFICES ASSUME CyclesInit
             PROVE  CyclesInv
  OBVIOUS
<1>1. /\ order = <<>> /\ detectors = <<>> /\ used = <<>>
      /\ DOMAIN order = {} /\ DOMAIN detectors = {} /\ DOMAIN used = {}
  BY DEF CyclesInit
<1>2. RegistryInv
  <2>1. used \in Seq(Sessions) /\ Len(used) = 0 /\ MaxSize \in Nat
    BY <1>1, CycleNumbers
  <2>2. /\ Cut(MaxSize, used) \in 0..Len(used)
        /\ Latest(MaxSize, used) = Drop(used, Cut(MaxSize, used))
    BY <2>1, LatestIsDrop
  <2>3. Cut(MaxSize, used) = 0
    BY <2>1, <2>2
  <2>4. Latest(MaxSize, used) = used
    BY <2>1, <2>2, <2>3, DropNone
  <2>5. IsInjective(used) /\ DOMAIN detectors = Range(order)
    BY <1>1 DEF IsInjective, Range
  <2>6. QED
    BY <1>1, <2>1, <2>4, <2>5 DEF RegistryInv
<1>3. DetectorInv
  <2>1. detectors \in [DOMAIN detectors -> Detectors]
    BY <1>1
  <2>2. QED
    BY <2>1 DEF DetectorInv, CyclesInit
<1>4. AloneKept
  BY DEF AloneKept, CyclesInit
<1>5. QED
  BY <1>2, <1>3, <1>4 DEF CyclesInv

\* A request that arrives finds a detector, or makes one that knows nothing.
LEMMA GetDetectors ==
    ASSUME RegistryInv, DetectorInv, NEW s \in Sessions, Get(s)
    PROVE  /\ detectors' \in [DOMAIN detectors' -> Detectors]
           /\ s \in DOMAIN detectors'
           /\ \A t \in DOMAIN detectors' : t \in DOMAIN detectors => detectors'[t] = detectors[t]
<1>1. detectors \in [DOMAIN detectors -> Detectors]
  BY DEF DetectorInv
<1>2. CASE s \in DOMAIN detectors
  BY <1>1, <1>2 DEF Get
<1>3. CASE s \notin DOMAIN detectors
  <2> DEFINE kept == Latest(MaxSize - 1, order)
  <2>1. Range(kept) \subseteq DOMAIN detectors
    BY KeptProperties
  <2>2. detectors' = [t \in Range(kept) \cup {s} |-> IF t = s THEN Fresh ELSE detectors[t]]
    BY <1>3 DEF Get
  <2> HIDE DEF kept
  <2>3. \A t \in Range(kept) \cup {s} : (IF t = s THEN Fresh ELSE detectors[t]) \in Detectors
    BY <1>1, <2>1, FreshType
  <2>4. DOMAIN detectors' = Range(kept) \cup {s}
    BY <2>2
  <2>5. detectors' \in [Range(kept) \cup {s} -> Detectors]
    BY <2>2, <2>3
  <2>6. ASSUME NEW t \in DOMAIN detectors', t \in DOMAIN detectors
        PROVE  detectors'[t] = detectors[t]
    BY <1>3, <2>2, <2>4, <2>6
  <2>7. QED
    BY <2>4, <2>5, <2>6
<1>4. QED
  BY <1>2, <1>3

LEMMA ArriveInv ==
    ASSUME CyclesInv, NEW r \in Requests, Arrive(r)
    PROVE  CyclesInv'
<1>1. PICK s \in Sessions, p \in Prompts :
        /\ session' = [session EXCEPT ![r] = s]
        /\ prompt' = [prompt EXCEPT ![r] = p]
        /\ Get(s)
        /\ used' = Append(RemoveFirst(used, s), s)
        /\ live' = {q \in live : session[q] \in DOMAIN detectors'} \cup {r}
        /\ apart' = IF Others(r, s) = {} THEN apart \cup {r} ELSE apart \ Others(r, s)
        /\ alone' = [t \in Sessions |-> IF t \in DOMAIN detectors' THEN alone[t] ELSE {}]
  BY DEF Arrive
<1>2. RegistryInv /\ DetectorInv /\ AloneKept /\ session[r] = None /\ None \notin Sessions
  BY CycleNumbers DEF CyclesInv, Arrive
<1>3. RegistryInv'
  BY <1>1, <1>2, FoundRegistry, NewRegistry
<1>4. /\ detectors' \in [DOMAIN detectors' -> Detectors]
      /\ s \in DOMAIN detectors'
      /\ \A t \in DOMAIN detectors' : t \in DOMAIN detectors => detectors'[t] = detectors[t]
  BY <1>1, <1>2, GetDetectors
<1>5. /\ session \in [Requests -> Sessions \cup {None}] /\ prompt \in [Requests -> Prompts \cup {None}]
      /\ \A q \in Requests : session[q] # None => prompt[q] \in Prompts
      /\ live \subseteq {q \in Requests : session[q] \in DOMAIN detectors}
      /\ apart \subseteq {q \in Requests : session[q] # None}
      /\ alone \in [Sessions -> SUBSET (Prompts \X Responses)]
  BY <1>2 DEF DetectorInv
<1>6. /\ session' \in [Requests -> Sessions \cup {None}] /\ prompt' \in [Requests -> Prompts \cup {None}]
      /\ session'[r] = s /\ prompt'[r] = p
      /\ \A q \in Requests \ {r} : session'[q] = session[q] /\ prompt'[q] = prompt[q]
  BY <1>1, <1>5
<1>7. \A q \in Requests : session'[q] # None => prompt'[q] \in Prompts
  BY <1>5, <1>6
<1>8. live' \subseteq {q \in Requests : session'[q] \in DOMAIN detectors'}
  BY <1>1, <1>4, <1>5, <1>6
<1>9. apart' \subseteq {q \in Requests : session'[q] # None}
  <2>1. apart' \subseteq apart \cup {r}
    BY <1>1
  <2>2. QED
    BY <1>2, <1>5, <1>6, <2>1
<1>10. alone' \in [Sessions -> SUBSET (Prompts \X Responses)]
  BY <1>1, <1>5
<1>11. DetectorInv'
  BY <1>4, <1>6, <1>7, <1>8, <1>9, <1>10 DEF DetectorInv
<1>12. AloneKept'
  <2>1. ASSUME NEW t \in Sessions, NEW exchange \in alone'[t]
        PROVE  /\ t \in DOMAIN detectors'
               /\ detectors'[t].lastResponse = exchange[2]
               /\ \E i \in DOMAIN detectors'[t].recentHashes :
                     detectors'[t].recentHashes[i] = SimHash[<<exchange[1], exchange[2]>>]
    <3>1. t \in DOMAIN detectors' /\ exchange \in alone[t]
      BY <1>1, <2>1
    <3>2. /\ t \in DOMAIN detectors
          /\ detectors[t].lastResponse = exchange[2]
          /\ \E i \in DOMAIN detectors[t].recentHashes :
                detectors[t].recentHashes[i] = SimHash[<<exchange[1], exchange[2]>>]
      BY <1>2, <3>1 DEF AloneKept
    <3>3. detectors'[t] = detectors[t]
      BY <1>4, <3>1, <3>2
    <3>4. QED
      BY <3>1, <3>2, <3>3
  <2>2. QED
    BY <2>1 DEF AloneKept
<1>13. QED
  BY <1>3, <1>11, <1>12 DEF CyclesInv

\* The end of a request, whatever it leaves in its detector.
LEMMA DoneInv ==
    ASSUME CyclesInv, NEW r \in Requests, Done(r), UNCHANGED <<order, used>>,
           detectors' \in [DOMAIN detectors -> Detectors],
           alone' \in [Sessions -> SUBSET (Prompts \X Responses)]
    PROVE  RegistryInv' /\ DetectorInv'
<1>1. RegistryInv /\ DetectorInv
  BY DEF CyclesInv
<1>2. DOMAIN detectors' = DOMAIN detectors
  OBVIOUS
<1>3. RegistryInv'
  BY <1>1, <1>2 DEF RegistryInv, Latest
<1>4. /\ session \in [Requests -> Sessions \cup {None}] /\ prompt \in [Requests -> Prompts \cup {None}]
      /\ \A q \in Requests : session[q] # None => prompt[q] \in Prompts
      /\ live \subseteq {q \in Requests : session[q] \in DOMAIN detectors}
      /\ apart \subseteq {q \in Requests : session[q] # None}
  BY <1>1 DEF DetectorInv
<1>5. /\ session' = [session EXCEPT ![r] = None] /\ prompt' = [prompt EXCEPT ![r] = None]
      /\ live' = live \ {r} /\ apart' = apart \ {r}
  BY DEF Done
<1>6. /\ session' \in [Requests -> Sessions \cup {None}] /\ prompt' \in [Requests -> Prompts \cup {None}]
      /\ session'[r] = None
      /\ \A q \in Requests \ {r} : session'[q] = session[q] /\ prompt'[q] = prompt[q]
  BY <1>4, <1>5
<1>7. /\ \A q \in Requests : session'[q] # None => prompt'[q] \in Prompts
      /\ live' \subseteq {q \in Requests : session'[q] \in DOMAIN detectors'}
      /\ apart' \subseteq {q \in Requests : session'[q] # None}
  BY <1>2, <1>4, <1>5, <1>6
<1>8. QED
  BY <1>2, <1>3, <1>6, <1>7 DEF DetectorInv

\* What a session is said to have done alone is kept as long as its detector is.
LEMMA AloneElsewhere ==
    ASSUME AloneKept, DOMAIN detectors' = DOMAIN detectors,
           \A t \in Sessions :
              /\ alone'[t] \subseteq alone[t]
              /\ alone'[t] # {} => detectors'[t] = detectors[t]
    PROVE  AloneKept'
<1>1. ASSUME NEW t \in Sessions, NEW exchange \in alone'[t]
      PROVE  /\ t \in DOMAIN detectors'
             /\ detectors'[t].lastResponse = exchange[2]
             /\ \E i \in DOMAIN detectors'[t].recentHashes :
                   detectors'[t].recentHashes[i] = SimHash[<<exchange[1], exchange[2]>>]
  <2>1. exchange \in alone[t] /\ detectors'[t] = detectors[t]
    BY <1>1
  <2>2. /\ t \in DOMAIN detectors
        /\ detectors[t].lastResponse = exchange[2]
        /\ \E i \in DOMAIN detectors[t].recentHashes :
              detectors[t].recentHashes[i] = SimHash[<<exchange[1], exchange[2]>>]
    BY <2>1 DEF AloneKept
  <2>3. QED
    BY <2>1, <2>2
<1>2. QED
  BY <1>1 DEF AloneKept

LEMMA LiveSession ==
    ASSUME CyclesInv, NEW r \in live
    PROVE  session[r] \in DOMAIN detectors /\ session[r] \in Sessions
BY OrderProperties DEF CyclesInv, DetectorInv

LEMMA ClearInv ==
    ASSUME CyclesInv, NEW r \in Requests, ClearLastResponse(r)
    PROVE  CyclesInv'
<1>1. /\ Done(r) /\ UNCHANGED <<order, used>>
      /\ detectors' = IF r \in live THEN [detectors EXCEPT ![session[r]].lastResponse = None] ELSE detectors
      /\ alone' = IF r \in live THEN [alone EXCEPT ![session[r]] = {}] ELSE alone
  BY DEF ClearLastResponse
<1>2. /\ detectors \in [DOMAIN detectors -> Detectors] /\ AloneKept
      /\ alone \in [Sessions -> SUBSET (Prompts \X Responses)]
  BY DEF CyclesInv, DetectorInv
<1>3. CASE r \in live
  <2> PICK s \in Sessions : s = session[r] /\ s \in DOMAIN detectors
    BY <1>3, LiveSession
  <2>1. detectors' = [detectors EXCEPT ![s] = [detectors[s] EXCEPT !.lastResponse = None]]
    BY <1>1, <1>3
  <2>2. [detectors[s] EXCEPT !.lastResponse = None] \in Detectors
    BY <1>2 DEF Detectors
  <2>3. /\ detectors' \in [DOMAIN detectors -> Detectors]
        /\ \A t \in DOMAIN detectors \ {s} : detectors'[t] = detectors[t]
    BY <1>2, <2>1, <2>2
  <2>4. /\ alone' \in [Sessions -> SUBSET (Prompts \X Responses)]
        /\ alone'[s] = {} /\ \A t \in Sessions \ {s} : alone'[t] = alone[t]
    BY <1>1, <1>2, <1>3
  <2>5. \A t \in Sessions : alone'[t] # {} => t \in DOMAIN detectors /\ t # s
    BY <1>2, <2>4 DEF AloneKept
  <2>6. AloneKept'
    <3>1. DOMAIN detectors' = DOMAIN detectors
      BY <2>3
    <3>2. \A t \in Sessions :
             /\ alone'[t] \subseteq alone[t]
             /\ alone'[t] # {} => detectors'[t] = detectors[t]
      BY <2>3, <2>4, <2>5
    <3>3. QED
      BY <1>2, <3>1, <3>2, AloneElsewhere
  <2>7. QED
    BY <1>1, <2>3, <2>4, <2>6, DoneInv DEF CyclesInv
<1>4. CASE r \notin live
  <2>1. detectors' = detectors /\ alone' = alone
    BY <1>1, <1>4
  <2>2. AloneKept'
    BY <1>2, <2>1, AloneElsewhere
  <2>3. QED
    BY <1>1, <1>2, <2>1, <2>2, DoneInv DEF CyclesInv
<1>5. QED
  BY <1>3, <1>4

LEMMA EmptyInv ==
    ASSUME CyclesInv, NEW r \in Requests, AnswerIsEmpty(r)
    PROVE  CyclesInv'
<1>1. Done(r) /\ UNCHANGED <<order, detectors, used, alone>>
  BY DEF AnswerIsEmpty, registry
<1>2. /\ detectors \in [DOMAIN detectors -> Detectors] /\ AloneKept
      /\ alone \in [Sessions -> SUBSET (Prompts \X Responses)]
  BY DEF CyclesInv, DetectorInv
<1>3. AloneKept'
  BY <1>1, <1>2, AloneElsewhere
<1>4. QED
  BY <1>1, <1>2, <1>3, DoneInv DEF CyclesInv

LEMMA AddInv ==
    ASSUME CyclesInv, NEW r \in Requests, Add(r)
    PROVE  CyclesInv'
<1>1. /\ Done(r) /\ UNCHANGED <<order, used>> /\ r \in apart
  BY DEF Add
<1>2. /\ detectors \in [DOMAIN detectors -> Detectors] /\ AloneKept
      /\ alone \in [Sessions -> SUBSET (Prompts \X Responses)]
      /\ prompt[r] \in Prompts
  BY <1>1 DEF CyclesInv, DetectorInv
<1>3. CASE r \in live
  <2> PICK s \in Sessions : s = session[r] /\ s \in DOMAIN detectors
    BY <1>3, LiveSession
  <2> PICK p \in Prompts : p = prompt[r]
    BY <1>2
  <2>1. PICK response \in Responses :
          /\ detectors' =
               [detectors EXCEPT ![s] =
                  [recentHashes |-> Added(@.recentHashes, SimHash[<<p, response>>]),
                   lastResponse |-> response]]
          /\ alone' = [alone EXCEPT ![s] = {<<p, response>>}]
    BY <1>3 DEF Add
  <2> DEFINE hashes == Added(detectors[s].recentHashes, SimHash[<<p, response>>])
             d == [recentHashes |-> hashes, lastResponse |-> response]
  <2>2. detectors[s] \in Detectors /\ detectors[s].recentHashes \in Hashes
    BY <1>2 DEF Detectors
  <2>3. /\ hashes \in Hashes
        /\ \E i \in DOMAIN hashes : hashes[i] = SimHash[<<p, response>>]
    BY <2>2, HashType, AddedProperties
  <2> HIDE DEF hashes
  <2>4. detectors' = [detectors EXCEPT ![s] = d]
    BY <2>1 DEF hashes
  <2>5. d \in Detectors
    BY <2>3 DEF Detectors
  <2>6. /\ detectors' \in [DOMAIN detectors -> Detectors]
        /\ detectors'[s] = d
        /\ \A t \in DOMAIN detectors \ {s} : detectors'[t] = detectors[t]
    BY <1>2, <2>4, <2>5
  <2>7. /\ alone' \in [Sessions -> SUBSET (Prompts \X Responses)]
        /\ alone'[s] = {<<p, response>>}
        /\ \A t \in Sessions \ {s} : alone'[t] = alone[t]
    BY <1>2, <2>1
  <2>8. ASSUME NEW t \in Sessions, NEW exchange \in alone'[t]
        PROVE  /\ t \in DOMAIN detectors'
               /\ detectors'[t].lastResponse = exchange[2]
               /\ \E i \in DOMAIN detectors'[t].recentHashes :
                     detectors'[t].recentHashes[i] = SimHash[<<exchange[1], exchange[2]>>]
    <3>1. CASE t = s
      <4>1. exchange = <<p, response>>
        BY <2>7, <2>8, <3>1
      <4>2. exchange[1] = p /\ exchange[2] = response
        BY <4>1
      <4>3. detectors'[t].recentHashes = hashes /\ detectors'[t].lastResponse = response
        BY <2>6, <3>1
      <4>4. QED
        BY <2>3, <2>6, <3>1, <4>2, <4>3
    <3>2. CASE t # s
      <4>1. exchange \in alone[t]
        BY <2>7, <2>8, <3>2
      <4>2. /\ t \in DOMAIN detectors
            /\ detectors[t].lastResponse = exchange[2]
            /\ \E i \in DOMAIN detectors[t].recentHashes :
                  detectors[t].recentHashes[i] = SimHash[<<exchange[1], exchange[2]>>]
        BY <1>2, <4>1 DEF AloneKept
      <4>3. detectors'[t] = detectors[t] /\ t \in DOMAIN detectors'
        BY <2>6, <3>2, <4>2
      <4>4. QED
        BY <4>2, <4>3
    <3>3. QED
      BY <3>1, <3>2
  <2>9. AloneKept'
    BY <2>8 DEF AloneKept
  <2>10. QED
    BY <1>1, <2>6, <2>7, <2>9, DoneInv DEF CyclesInv
<1>4. CASE r \notin live
  <2>1. detectors' = detectors /\ alone' = alone
    BY <1>4 DEF Add
  <2>2. AloneKept'
    BY <1>2, <2>1, AloneElsewhere
  <2>3. QED
    BY <1>1, <1>2, <2>1, <2>2, DoneInv DEF CyclesInv
<1>5. QED
  BY <1>3, <1>4

LEMMA AddRacesInv ==
    ASSUME CyclesInv, NEW r \in Requests, AddRaces(r)
    PROVE  CyclesInv'
<1>1. Done(r) /\ UNCHANGED <<order, used>>
  BY DEF AddRaces
<1>2. /\ detectors \in [DOMAIN detectors -> Detectors] /\ AloneKept
      /\ alone \in [Sessions -> SUBSET (Prompts \X Responses)]
  BY DEF CyclesInv, DetectorInv
<1>3. CASE r \in live
  <2> PICK s \in Sessions : s = session[r] /\ s \in DOMAIN detectors
    BY <1>3, LiveSession
  <2>1. PICK hashes \in Hashes, response \in Responses :
          detectors' = [detectors EXCEPT ![s] = [recentHashes |-> hashes, lastResponse |-> response]]
    BY <1>3 DEF AddRaces
  <2>2. alone' = [alone EXCEPT ![s] = {}]
    BY <1>3 DEF AddRaces
  <2>3. [recentHashes |-> hashes, lastResponse |-> response] \in Detectors
    BY DEF Detectors
  <2>4. /\ detectors' \in [DOMAIN detectors -> Detectors]
        /\ \A t \in DOMAIN detectors \ {s} : detectors'[t] = detectors[t]
    BY <1>2, <2>1, <2>3
  <2>5. /\ alone' \in [Sessions -> SUBSET (Prompts \X Responses)]
        /\ alone'[s] = {} /\ \A t \in Sessions \ {s} : alone'[t] = alone[t]
    BY <1>2, <2>2
  <2>6. \A t \in Sessions : alone'[t] # {} => t \in DOMAIN detectors /\ t # s
    BY <1>2, <2>5 DEF AloneKept
  <2>7. AloneKept'
    <3>1. DOMAIN detectors' = DOMAIN detectors
      BY <2>4
    <3>2. \A t \in Sessions :
             /\ alone'[t] \subseteq alone[t]
             /\ alone'[t] # {} => detectors'[t] = detectors[t]
      BY <2>4, <2>5, <2>6
    <3>3. QED
      BY <1>2, <3>1, <3>2, AloneElsewhere
  <2>8. QED
    BY <1>1, <2>4, <2>5, <2>7, DoneInv DEF CyclesInv
<1>4. CASE r \notin live
  <2>1. detectors' = detectors /\ alone' = alone
    BY <1>4 DEF AddRaces
  <2>2. AloneKept'
    BY <1>2, <2>1, AloneElsewhere
  <2>3. QED
    BY <1>1, <1>2, <2>1, <2>2, DoneInv DEF CyclesInv
<1>5. QED
  BY <1>3, <1>4

LEMMA CyclesPolicyInv ==
    ASSUME CyclesInv, UpdatePolicy
    PROVE  CyclesInv'
<1>1. /\ order' = <<>> /\ detectors' = <<>> /\ used' = <<>>
      /\ DOMAIN order' = {} /\ DOMAIN detectors' = {} /\ DOMAIN used' = {}
      /\ live' = {} /\ alone' = [s \in Sessions |-> {}]
      /\ UNCHANGED <<session, prompt, apart>>
  BY DEF UpdatePolicy
<1>2. RegistryInv'
  <2>1. used' \in Seq(Sessions) /\ Len(used') = 0 /\ MaxSize \in Nat
    BY <1>1, CycleNumbers
  <2>2. /\ Cut(MaxSize, used') \in 0..Len(used')
        /\ Latest(MaxSize, used') = Drop(used', Cut(MaxSize, used'))
    BY <2>1, LatestIsDrop
  <2>3. Cut(MaxSize, used') = 0
    BY <2>1, <2>2
  <2>4. Latest(MaxSize, used') = used'
    BY <2>1, <2>2, <2>3, DropNone
  <2>5. IsInjective(used') /\ DOMAIN detectors' = Range(order')
    BY <1>1 DEF IsInjective, Range
  <2>6. QED
    BY <1>1, <2>1, <2>4, <2>5 DEF RegistryInv, Latest
<1>3. DetectorInv'
  <2>1. detectors' \in [DOMAIN detectors' -> Detectors]
    BY <1>1
  <2>2. QED
    BY <1>1, <2>1 DEF DetectorInv, CyclesInv
<1>4. AloneKept'
  BY <1>1 DEF AloneKept
<1>5. QED
  BY <1>2, <1>3, <1>4 DEF CyclesInv

LEMMA CyclesStep == CyclesInv /\ [CyclesNext]_cyclesVars => CyclesInv'
<1> SUFFICES ASSUME CyclesInv, [CyclesNext]_cyclesVars
             PROVE  CyclesInv'
  OBVIOUS
<1>1. CASE UNCHANGED cyclesVars
  <2>1. UNCHANGED <<order, detectors, session, prompt, live, apart, used, alone>>
    BY <1>1 DEF cyclesVars, registry, request
  <2>2. RegistryInv'
    BY <2>1 DEF CyclesInv, RegistryInv, Latest
  <2>3. DetectorInv'
    BY <2>1 DEF CyclesInv, DetectorInv
  <2>4. AloneKept'
    BY <2>1 DEF CyclesInv, AloneKept
  <2>5. QED
    BY <2>2, <2>3, <2>4 DEF CyclesInv
<1>2. QED
  BY <1>1, ArriveInv, ClearInv, EmptyInv, AddInv, AddRacesInv, CyclesPolicyInv DEF CyclesNext

LEMMA CyclesInvariant == CyclesSpec => []CyclesInv
BY CyclesInitInv, CyclesStep, PTL DEF CyclesSpec

\* Registry and order agree and stay within their bounds, and no detector holds
\* more hashes than it may (detector.go:37-45, 73-99).
THEOREM CyclesTypeCorrect == CyclesSpec => []CyclesTypeOK
<1>1. CyclesInv => CyclesTypeOK
  <2> SUFFICES ASSUME CyclesInv
               PROVE  CyclesTypeOK
    OBVIOUS
  <2>1. /\ IsInjective(order) /\ Range(order) = DOMAIN detectors /\ Len(order) <= MaxSize
        /\ DOMAIN detectors \subseteq Sessions
    BY OrderProperties DEF CyclesInv, RegistryInv
  <2>2. ASSUME NEW s \in DOMAIN detectors
        PROVE  /\ detectors[s].recentHashes \in Hashes
               /\ detectors[s].lastResponse \in Responses \cup {None}
    BY DEF CyclesInv, DetectorInv, Detectors
  <2>3. QED
    BY <2>1, <2>2 DEF CyclesTypeOK, CyclesInv, DetectorInv
<1>2. QED
  BY <1>1, CyclesInvariant, PTL

\* The sessions in the registry are the MaxSize used last, in the order of their
\* last use (detector.go:73-99).
THEOREM LatestSessionsKept == CyclesSpec => []KeepsLatestSessions
<1>1. CyclesInv => KeepsLatestSessions
  BY DEF CyclesInv, RegistryInv, KeepsLatestSessions
<1>2. QED
  BY <1>1, CyclesInvariant, PTL

\* A session that repeats what it did alone is seen to, whatever the others did
\* in between (detector.go:27-45).
THEOREM RepetitionSeen == CyclesSpec => []RepetitionIsSeen
<1>1. CyclesInv => RepetitionIsSeen
  <2> SUFFICES ASSUME CyclesInv, NEW s \in DOMAIN detectors, NEW exchange \in alone[s]
               PROVE  DetectPrompt(detectors[s], exchange[1])
    BY DEF RepetitionIsSeen
  <2>1. s \in Sessions
    BY OrderProperties DEF CyclesInv
  <2>2. exchange \in Prompts \X Responses
    BY <2>1 DEF CyclesInv, DetectorInv
  <2>3. exchange[1] \in Prompts /\ exchange[2] \in Responses
    BY <2>2
  <2>4. PICK h \in Nat : h = SimHash[<<exchange[1], exchange[2]>>]
    BY <2>3, HashType
  <2>5. PICK i \in DOMAIN detectors[s].recentHashes : detectors[s].recentHashes[i] = h
    BY <2>1, <2>4 DEF CyclesInv, AloneKept
  <2>6. SimHash[<<exchange[1], detectors[s].lastResponse>>] = h
    BY <2>1, <2>4 DEF CyclesInv, AloneKept
  <2>7. Near(h, h)
    BY CycleNumbers DEF Near
  <2>8. QED
    BY <2>5, <2>6, <2>7 DEF DetectPrompt
<1>2. QED
  BY <1>1, CyclesInvariant, PTL

-----------------------------------------------------------------------------
(* EscalationControl                                                       *)

\* The window is what the history ends with, as long as the history is not full.
WindowIsLatest == Len(history) < MaxHistory => window = Latest(WindowSize, history)

EscalationInv == EscalationTypeOK /\ WindowIsLatest

LEMMA EscalationNumbers ==
    /\ WindowSize \in Nat \ {0} /\ Ceiling \in Nat /\ MaxHistory \in Nat
    /\ InitialThreshold \in Nat \ {0}
    /\ Highest \in Nat /\ Ceiling <= Highest /\ InitialThreshold <= Highest
BY EscalationAssumption DEF Highest

\* The part of the type invariant that is about threshold, window and history.
WindowType ==
    /\ threshold \in 0..Highest
    /\ window \in Seq(BOOLEAN) /\ Len(window) <= WindowSize
    /\ history \in Seq(BOOLEAN) /\ Len(history) <= MaxHistory

\* The part that is about the requests.
RequestsType ==
    /\ pc \in [Goroutines -> {"idle", "read", "decide", "add", "adjust"}]
    /\ ask \in [Goroutines -> Asks \cup {NoAsk}]
    /\ seen \in [Goroutines -> 0..Highest]
    /\ route \in [Goroutines -> {"none", "weak", "strong"}]

LEMMA EscalationTypeParts == EscalationTypeOK <=> WindowType /\ RequestsType
BY DEF EscalationTypeOK, WindowType, RequestsType

LEMMA EmptyWindow ==
    ASSUME threshold' \in 0..Highest, window' = <<>>, history' = <<>>
    PROVE  WindowType' /\ WindowIsLatest'
<1> DEFINE none == << >>
<1>1. none \in Seq(BOOLEAN) /\ Len(none) = 0
  OBVIOUS
<1> HIDE DEF none
<1>2. WindowSize \in Nat /\ MaxHistory \in Nat
  BY EscalationNumbers
<1>3. Cut(WindowSize, none) = 0 /\ Latest(WindowSize, none) = Drop(none, Cut(WindowSize, none))
  <2>1. /\ Cut(WindowSize, none) \in 0..Len(none)
        /\ Latest(WindowSize, none) = Drop(none, Cut(WindowSize, none))
    BY <1>1, <1>2, LatestIsDrop
  <2>2. QED
    BY <1>1, <2>1
<1>4. Latest(WindowSize, none) = none
  BY <1>1, <1>3, DropNone
<1>5. window' = none /\ history' = none
  BY DEF none
<1>6. WindowIsLatest'
  BY <1>4, <1>5 DEF WindowIsLatest, Latest
<1>7. QED
  BY <1>1, <1>2, <1>5, <1>6 DEF WindowType

LEMMA EscalationInitInv == EscalationInit => EscalationInv
<1> SUFFICES ASSUME EscalationInit
             PROVE  EscalationInv
  OBVIOUS
<1> DEFINE none == << >>
<1>1. none \in Seq(BOOLEAN) /\ Len(none) = 0
  OBVIOUS
<1> HIDE DEF none
<1>2. /\ threshold \in 0..Highest /\ window = none /\ history = none
      /\ WindowSize \in Nat /\ MaxHistory \in Nat
  BY EscalationNumbers DEF EscalationInit, none
<1>3. Cut(WindowSize, none) = 0 /\ Latest(WindowSize, none) = Drop(none, Cut(WindowSize, none))
  <2>1. /\ Cut(WindowSize, none) \in 0..Len(none)
        /\ Latest(WindowSize, none) = Drop(none, Cut(WindowSize, none))
    BY <1>1, <1>2, LatestIsDrop
  <2>2. QED
    BY <1>1, <2>1
<1>4. Latest(WindowSize, none) = none
  BY <1>1, <1>3, DropNone
<1>5. WindowType /\ WindowIsLatest
  BY <1>1, <1>2, <1>4 DEF WindowType, WindowIsLatest
<1>6. RequestsType
  BY EscalationNumbers DEF EscalationInit, RequestsType
<1>7. QED
  BY <1>5, <1>6, EscalationTypeParts DEF EscalationInv

\* What moves a request on keeps its type.
LEMMA WindowUnchanged ==
    ASSUME WindowType, WindowIsLatest, UNCHANGED <<threshold, window, history>>
    PROVE  WindowType' /\ WindowIsLatest'
BY DEF WindowType, WindowIsLatest, Latest

\* A decision enters the window as it enters the history, and the oldest of a full
\* window leaves.
LEMMA AddKeepsWindow ==
    ASSUME WindowType, WindowIsLatest, NEW r \in Goroutines, AddDecision(r)
    PROVE  WindowType' /\ WindowIsLatest'
<1> DEFINE strong == route[r] = "strong"
<1>1. PICK e \in BOOLEAN : e = strong
  OBVIOUS
<1>2. /\ window' = Append(IF Full THEN Tail(window) ELSE window, e)
      /\ history' = IF Len(history) < MaxHistory THEN Append(history, e) ELSE history
      /\ threshold' = threshold
  BY <1>1 DEF AddDecision
<1>3. /\ threshold \in 0..Highest
      /\ window \in Seq(BOOLEAN) /\ Len(window) \in Nat /\ Len(window) <= WindowSize
      /\ history \in Seq(BOOLEAN) /\ Len(history) \in Nat /\ Len(history) <= MaxHistory
      /\ WindowSize \in Nat \ {0} /\ MaxHistory \in Nat /\ WindowSize - 1 \in Nat
  BY EscalationNumbers DEF WindowType
<1> DEFINE kept == IF Full THEN Tail(window) ELSE window
<1>4. kept \in Seq(BOOLEAN) /\ Len(kept) \in Nat /\ Len(kept) <= WindowSize - 1
  <2>1. CASE Full
    <3>1. Len(window) = WindowSize /\ window # << >>
      BY <1>3, <2>1 DEF Full
    <3>2. Tail(window) \in Seq(BOOLEAN) /\ Len(Tail(window)) = Len(window) - 1
      BY <1>3, <3>1, HeadTailProperties
    <3>3. QED
      BY <1>3, <2>1, <3>1, <3>2
  <2>2. CASE ~Full
    BY <1>3, <2>2 DEF Full
  <2>3. QED
    BY <2>1, <2>2
<1>5. kept = Latest(WindowSize - 1, history) \/ ~(Len(history) < MaxHistory)
  <2> SUFFICES ASSUME Len(history) < MaxHistory
               PROVE  kept = Latest(WindowSize - 1, history)
    OBVIOUS
  <2>1. window = Latest(WindowSize, history)
    BY DEF WindowIsLatest
  <2>2. Len(window) = Len(history) - Cut(WindowSize, history)
    BY <1>3, <2>1, LatestProperties
  <2>3. Cut(WindowSize, history) = IF Len(history) < WindowSize THEN 0 ELSE Len(history) - WindowSize
    BY <1>3, LatestIsDrop
  <2>4. Cut(WindowSize - 1, history)
          = IF Len(history) < WindowSize - 1 THEN 0 ELSE Len(history) - (WindowSize - 1)
    BY <1>3, LatestIsDrop
  <2>5. /\ window = Drop(history, Cut(WindowSize, history))
        /\ Latest(WindowSize - 1, history) = Drop(history, Cut(WindowSize - 1, history))
    BY <1>3, <2>1, LatestIsDrop
  <2>6. CASE Full
    <3>1. Len(window) = WindowSize
      BY <1>3, <2>6 DEF Full
    <3>2. Len(history) >= WindowSize /\ Cut(WindowSize, history) = Len(history) - WindowSize
      BY <1>3, <2>2, <2>3, <3>1
    <3>3. Cut(WindowSize - 1, history) = Cut(WindowSize, history) + 1
      BY <1>3, <2>4, <3>2
    <3>4. Tail(window) = Drop(window, 1)
      <4>1. window # << >>
        BY <1>3, <3>1
      <4>2. /\ Tail(window) \in Seq(BOOLEAN) /\ Len(Tail(window)) = Len(window) - 1
            /\ \A i \in 1..Len(Tail(window)) : Tail(window)[i] = window[i + 1]
        BY <1>3, <4>1, HeadTailProperties
      <4>3. 1 \in 0..Len(window)
        BY <1>3, <3>1
      <4>4. /\ Drop(window, 1) \in Seq(BOOLEAN) /\ Len(Drop(window, 1)) = Len(window) - 1
            /\ \A i \in 1..(Len(window) - 1) : Drop(window, 1)[i] = window[1 + i]
        BY <1>3, <4>3, DropProperties
      <4>5. \A i \in 1..Len(Tail(window)) : Tail(window)[i] = Drop(window, 1)[i]
        <5>1. TAKE i \in 1..Len(Tail(window))
        <5>2. i \in 1..(Len(window) - 1) /\ i + 1 = 1 + i
          BY <1>3, <4>2
        <5>3. QED
          BY <4>2, <4>4, <5>2
      <4>6. QED
        BY <4>2, <4>4, <4>5, SeqEqual
    <3>5. /\ Cut(WindowSize, history) \in 0..Len(history)
          /\ 1 \in 0..(Len(history) - Cut(WindowSize, history))
      BY <1>3, <3>2
    <3>6. Drop(Drop(history, Cut(WindowSize, history)), 1) = Drop(history, Cut(WindowSize, history) + 1)
      BY <1>3, <3>5, DropOfDrop
    <3>7. QED
      BY <2>5, <2>6, <3>3, <3>4, <3>6
  <2>7. CASE ~Full
    <3>1. Len(window) < WindowSize
      BY <1>3, <2>7 DEF Full
    <3>2. Len(history) < WindowSize
      BY <1>3, <2>2, <2>3, <3>1
    <3>3. Cut(WindowSize, history) = 0 /\ Cut(WindowSize - 1, history) = 0
      BY <1>3, <2>3, <2>4, <3>2
    <3>4. QED
      BY <2>5, <2>7, <3>3
  <2>8. QED
    BY <2>6, <2>7
<1> HIDE DEF kept
<1>6. /\ Append(kept, e) \in Seq(BOOLEAN) /\ Len(Append(kept, e)) = Len(kept) + 1
      /\ Append(history, e) \in Seq(BOOLEAN) /\ Len(Append(history, e)) = Len(history) + 1
  BY <1>3, <1>4, AppendProperties
<1>7. window' = Append(kept, e)
  BY <1>2 DEF kept
<1>8. WindowType'
  <2>1. window' \in Seq(BOOLEAN) /\ Len(window') <= WindowSize
    BY <1>3, <1>4, <1>6, <1>7
  <2>2. history' \in Seq(BOOLEAN) /\ Len(history') <= MaxHistory
    <3>1. CASE Len(history) < MaxHistory
      BY <1>2, <1>3, <1>6, <3>1
    <3>2. CASE ~(Len(history) < MaxHistory)
      BY <1>2, <1>3, <3>2
    <3>3. QED
      BY <3>1, <3>2
  <2>3. QED
    BY <1>2, <1>3, <2>1, <2>2 DEF WindowType
<1>9. WindowIsLatest'
  <2> SUFFICES ASSUME Len(history') < MaxHistory
               PROVE  window' = Latest(WindowSize, history')
    BY DEF WindowIsLatest, Latest
  <2>1. Len(history) < MaxHistory /\ history' = Append(history, e)
    BY <1>2
  <2>2. Latest(WindowSize, Append(history, e)) = Append(Latest(WindowSize - 1, history), e)
    BY <1>3, LatestAppend
  <2>3. QED
    BY <1>5, <1>7, <2>1, <2>2
<1>10. QED
  BY <1>8, <1>9

LEMMA AdjustStays ==
    ASSUME threshold \in 0..Highest, NEW r \in Goroutines, Adjust(r)
    PROVE  threshold' \in 0..Highest
BY EscalationNumbers DEF Adjust

\* Every step of a request keeps the types of the requests.
LEMMA RequestsStep ==
    ASSUME EscalationTypeOK, NEW r \in Goroutines,
           Begin(r) \/ Handle(r) \/ ProviderFails(r)
    PROVE  RequestsType'
<1>1. /\ RequestsType /\ threshold \in 0..Highest
  BY EscalationTypeParts DEF WindowType
<1>2. CASE Begin(r)
  BY <1>1, <1>2 DEF RequestsType, Begin, Goto
<1>3. CASE ReadThreshold(r)
  BY <1>1, <1>3 DEF RequestsType, ReadThreshold, Goto
<1>4. CASE Decide(r)
  <2> DEFINE v == IF ask[r].smart THEN NoAsk ELSE ask[r]
             tier == decideRoute(v.score, v.impact, seen[r], IsStrictMode, ask[r].cycle)
  <2>1. tier \in {"none", "weak", "strong"}
    BY DEF decideRoute
  <2>2. route' = [route EXCEPT ![r] = tier]
    BY <1>4 DEF Decide
  <2> HIDE DEF tier
  <2>3. /\ seen' = [seen EXCEPT ![r] = 0] /\ pc' = [pc EXCEPT ![r] = "add"]
        /\ ask' = ask /\ 0 \in 0..Highest
    BY <1>4, EscalationNumbers DEF Decide, Goto
  <2>4. QED
    BY <1>1, <2>1, <2>2, <2>3 DEF RequestsType
<1>5. CASE AddDecision(r)
  BY <1>1, <1>5 DEF RequestsType, AddDecision, Goto
<1>6. CASE Adjust(r)
  BY <1>1, <1>6 DEF RequestsType, Adjust, Goto
<1>7. CASE ProviderFails(r)
  BY <1>1, <1>7 DEF RequestsType, ProviderFails, Goto
<1>8. QED
  BY <1>2, <1>3, <1>4, <1>5, <1>6, <1>7 DEF Handle

LEMMA EscalationStep == EscalationInv /\ [EscalationNext]_escalationVars => EscalationInv'
<1> SUFFICES ASSUME EscalationInv, [EscalationNext]_escalationVars
             PROVE  EscalationInv'
  OBVIOUS
<1>1. EscalationTypeOK /\ WindowType /\ RequestsType /\ WindowIsLatest /\ threshold \in 0..Highest
  BY EscalationTypeParts DEF EscalationInv, WindowType
<1>2. WindowType' /\ WindowIsLatest' /\ RequestsType' => EscalationInv'
  BY DEF EscalationInv, EscalationTypeOK, WindowType, RequestsType
<1>3. ASSUME NEW r \in Goroutines, Begin(r) \/ Handle(r) \/ ProviderFails(r)
      PROVE  WindowType' /\ WindowIsLatest'
  <2>1. CASE Begin(r)
    BY <1>1, <2>1, WindowUnchanged DEF Begin
  <2>2. CASE ReadThreshold(r)
    BY <1>1, <2>2, WindowUnchanged DEF ReadThreshold
  <2>3. CASE Decide(r)
    BY <1>1, <2>3, WindowUnchanged DEF Decide
  <2>4. CASE AddDecision(r)
    BY <1>1, <2>4, AddKeepsWindow
  <2>5. CASE Adjust(r)
    <3>1. threshold' \in 0..Highest /\ UNCHANGED <<window, history>>
      BY <1>1, <2>5, AdjustStays DEF Adjust
    <3>2. QED
      BY <1>1, <3>1 DEF WindowType, WindowIsLatest, Latest
  <2>6. CASE ProviderFails(r)
    BY <1>1, <2>6, WindowUnchanged DEF ProviderFails
  <2>7. QED
    BY <1>3, <2>1, <2>2, <2>3, <2>4, <2>5, <2>6 DEF Handle
<1>4. CASE \E r \in Goroutines : Begin(r) \/ Handle(r) \/ ProviderFails(r)
  BY <1>1, <1>2, <1>3, <1>4, RequestsStep
<1>5. CASE Reset
  <2>1. WindowType' /\ WindowIsLatest'
    BY <1>1, <1>5, EmptyWindow DEF Reset
  <2>2. RequestsType'
    BY <1>1, <1>5 DEF Reset, RequestsType
  <2>3. QED
    BY <1>2, <2>1, <2>2
<1>6. CASE InstallPolicy
  <2>1. threshold' \in 0..Highest
    BY <1>6, EscalationNumbers DEF InstallPolicy
  <2>2. WindowType' /\ WindowIsLatest'
    BY <1>6, <2>1, EmptyWindow DEF InstallPolicy
  <2>3. RequestsType'
    BY <1>1, <1>6 DEF InstallPolicy, RequestsType
  <2>4. QED
    BY <1>2, <2>2, <2>3
<1>7. CASE UNCHANGED escalationVars
  <2>1. UNCHANGED <<threshold, window, pc, ask, seen, route, history>>
    BY <1>7 DEF escalationVars
  <2>2. WindowType' /\ WindowIsLatest'
    BY <1>1, <2>1, WindowUnchanged
  <2>3. RequestsType'
    BY <1>1, <2>1 DEF RequestsType
  <2>4. QED
    BY <1>2, <2>2, <2>3
<1>8. QED
  BY <1>4, <1>5, <1>6, <1>7 DEF EscalationNext

LEMMA EscalationInvariant == EscalationSpec => []EscalationInv
BY EscalationInitInv, EscalationStep, PTL DEF EscalationSpec

\* The threshold stays between 0 and its ceiling, or its start if that is higher,
\* and the window within its size, whatever INITIAL_THRESHOLD is, as long as it is
\* positive (threshold.go:13-69).
THEOREM EscalationTypeCorrect == EscalationSpec => []EscalationTypeOK
<1>1. EscalationInv => EscalationTypeOK
  BY DEF EscalationInv
<1>2. QED
  BY <1>1, EscalationInvariant, PTL

\* The threshold moves only on what the last WindowSize decisions say, or back to its
\* start with an empty window; with too many strong routes it rises, or comes to its
\* ceiling from above, with too few it falls (threshold.go:55-69).
THEOREM ThresholdMovesOnEvidence == EscalationSpec => MovesOnEvidence
<1> DEFINE Moves ==
             threshold' # threshold /\ Len(history) < MaxHistory =>
                \/ /\ Len(history) >= WindowSize
                   /\ \/ AboveTarget(Recent) /\ (threshold' > threshold \/ threshold' = Ceiling)
                      \/ BelowTarget(Recent) /\ threshold' < threshold
                \/ history' = <<>> /\ threshold' = InitialThreshold
<1>1. EscalationInv /\ [EscalationNext]_escalationVars => [Moves]_escalationVars
  <2> SUFFICES ASSUME EscalationInv, [EscalationNext]_escalationVars,
                      threshold' # threshold, Len(history) < MaxHistory
               PROVE  \/ /\ Len(history) >= WindowSize
                         /\ \/ AboveTarget(Recent) /\ (threshold' > threshold \/ threshold' = Ceiling)
                            \/ BelowTarget(Recent) /\ threshold' < threshold
                      \/ history' = <<>> /\ threshold' = InitialThreshold
    OBVIOUS
  <2>1. InstallPolicy \/ \E r \in Goroutines : Adjust(r)
    BY DEF EscalationNext, Begin, Handle, ReadThreshold, Decide, AddDecision, ProviderFails,
           Reset, escalationVars
  <2>2. CASE InstallPolicy
    BY <2>2 DEF InstallPolicy
  <2>3. CASE \E r \in Goroutines : Adjust(r)
    <3>1. /\ Full
          /\ threshold' = IF AboveTarget(window)
                          THEN IF threshold < Ceiling THEN threshold + 1 ELSE Ceiling
                          ELSE IF BelowTarget(window)
                          THEN IF threshold > 2 THEN threshold - 2 ELSE 0
                          ELSE threshold
      BY <2>3 DEF Adjust
    <3>2. /\ threshold \in 0..Highest /\ Ceiling \in Nat /\ WindowSize \in Nat
          /\ history \in Seq(BOOLEAN) /\ Len(history) \in Nat
          /\ Len(window) \in Nat /\ Len(window) <= WindowSize
          /\ window = Latest(WindowSize, history)
      BY EscalationNumbers DEF EscalationInv, EscalationTypeOK, WindowIsLatest
    <3>3. Len(window) = WindowSize
      BY <3>1, <3>2 DEF Full
    <3>4. /\ Len(window) = Len(history) - Cut(WindowSize, history)
          /\ Cut(WindowSize, history) = IF Len(history) < WindowSize THEN 0 ELSE Len(history) - WindowSize
          /\ window = Drop(history, Cut(WindowSize, history))
      BY <3>2, LatestIsDrop, LatestProperties
    <3>5. Len(history) >= WindowSize /\ Cut(WindowSize, history) = Len(history) - WindowSize
      BY <3>2, <3>3, <3>4
    <3>6. window = Recent
      BY <3>4, <3>5 DEF Drop, Recent
    <3>7. \/ AboveTarget(window) /\ (threshold' > threshold \/ threshold' = Ceiling)
          \/ BelowTarget(window) /\ threshold' < threshold
      <4>1. threshold \in Nat
        BY <3>2, EscalationNumbers
      <4>2. QED
        BY <3>1, <3>2, <4>1
    <3>8. QED
      BY <3>5, <3>6, <3>7
  <2>4. QED
    BY <2>1, <2>2, <2>3
<1>2. EscalationSpec => [][Moves]_escalationVars
  BY <1>1, EscalationInvariant, PTL DEF EscalationSpec
<1>3. QED
  BY <1>2 DEF MovesOnEvidence
=============================================================================
