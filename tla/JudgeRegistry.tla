---------------------------- MODULE JudgeRegistry ----------------------------
(***************************************************************************)
(* The judges' registry: evaluations that go through the judges in order,  *)
(* and the circuit breaker that each of them shares with all others.  The  *)
(* breaker is read, the judge is called and the outcome is recorded in     *)
(* three separate steps.                                                   *)
(***************************************************************************)
EXTENDS Integers, Sequences, FiniteSets, FiniteSetsExt, Functions

CONSTANTS
    Judges,
    ModelOrder,         \* judge.model_order
    Evaluations,        \* goroutines that evaluate prompts
    Configured,         \* judges that are enabled and have a key, per configuration
    FailureThreshold,
    Cooldown,           \* in ticks
    MaxAttempts

ASSUME RegistryAssumption ==
    /\ IsFiniteSet(Judges) /\ IsFiniteSet(Evaluations)
    /\ ModelOrder \in Seq(Judges)
    /\ Configured \subseteq SUBSET Judges
    /\ {FailureThreshold, Cooldown, MaxAttempts} \subseteq Nat \ {0}

VARIABLES
    failures,       \* per judge; counted up to the threshold, beyond which nothing changes
    circuit,        \* ticks the circuit stays open, 0 once they are over, Closed without an entry
    place,          \* of each evaluation: "idle", "choosing", "calling", "heuristic"
    next,           \* position in ModelOrder
    attempts,
    usable,         \* judges that are enabled and have a key in the evaluation's configuration
    cancelled,      \* the client has gone
    healthy,        \* history: usable judges not called yet and available all along
    burst           \* history: failures in a row since the circuit last let calls through

circuits == <<failures, circuit, burst>>
evaluation == <<next, attempts, usable, cancelled>>
vars == <<circuits, evaluation, place, healthy>>

Closed == -1

\* The bound on the counts of the history.
Enough == FailureThreshold + Cardinality(Evaluations)

TypeOK ==
    /\ failures \in [Judges -> 0..FailureThreshold]
    /\ circuit \in [Judges -> Closed..Cooldown]
    /\ \A j \in Judges : circuit[j] # Closed <=> failures[j] = FailureThreshold
    /\ place \in [Evaluations -> {"idle", "choosing", "calling", "heuristic"}]
    /\ next \in [Evaluations -> 1..(Len(ModelOrder) + 1)]
    /\ attempts \in [Evaluations -> 0..MaxAttempts]
    /\ usable \in [Evaluations -> SUBSET Judges]
    /\ cancelled \in [Evaluations -> BOOLEAN]
    /\ healthy \in [Evaluations -> SUBSET Judges]
    /\ burst \in [Judges -> 0..Enough]

Init ==
    /\ failures = [j \in Judges |-> 0]
    /\ circuit = [j \in Judges |-> Closed]
    /\ place = [e \in Evaluations |-> "idle"]
    /\ next = [e \in Evaluations |-> 1]
    /\ attempts = [e \in Evaluations |-> 0]
    /\ usable = [e \in Evaluations |-> {}]
    /\ cancelled = [e \in Evaluations |-> FALSE]
    /\ healthy = [e \in Evaluations |-> {}]
    /\ burst = [j \in Judges |-> 0]

-----------------------------------------------------------------------------

\* Mutation: only a success closes a circuit.
IsAvailableClosed(j) == circuit[j] = Closed

\* No entry, or one whose time is over.
IsAvailable(j) == circuit[j] <= 0

Candidate(e) == ModelOrder[next[e]]

\* The loop goes on.
MayTry(e) ==
    /\ place[e] = "choosing"
    /\ next[e] <= Len(ModelOrder)
    /\ attempts[e] < MaxAttempts

\* The evaluation is over and the router takes its result.
Return(e) ==
    /\ place' = [place EXCEPT ![e] = "idle"]
    /\ next' = [next EXCEPT ![e] = 1]
    /\ attempts' = [attempts EXCEPT ![e] = 0]
    /\ usable' = [usable EXCEPT ![e] = {}]
    /\ cancelled' = [cancelled EXCEPT ![e] = FALSE]
    /\ healthy' = [healthy EXCEPT ![e] = {}]

\* With the judges disabled none is usable.
Start(e) ==
    /\ place[e] = "idle"
    /\ place' = [place EXCEPT ![e] = "choosing"]
    /\ \E judges \in Configured :
          /\ usable' = [usable EXCEPT ![e] = judges]
          /\ healthy' = [healthy EXCEPT ![e] = {j \in judges \cap Range(ModelOrder) : IsAvailable(j)}]
    /\ UNCHANGED <<circuits, next, attempts, cancelled>>

\* The client hangs up; the calls made for it fail from now on.
Cancel(e) ==
    /\ place[e] \in {"choosing", "calling"}
    /\ cancelled' = [cancelled EXCEPT ![e] = TRUE]
    /\ UNCHANGED <<circuits, place, next, attempts, usable, healthy>>

\* The open circuit, the disabled model or the missing key is passed over.
Skip(e) ==
    /\ MayTry(e)
    /\ ~IsAvailable(Candidate(e)) \/ Candidate(e) \notin usable[e]
    /\ next' = [next EXCEPT ![e] = @ + 1]
    /\ UNCHANGED <<circuits, place, attempts, usable, cancelled, healthy>>

Call(e) ==
    /\ MayTry(e)
    /\ IsAvailable(Candidate(e)) /\ Candidate(e) \in usable[e]
    /\ attempts' = [attempts EXCEPT ![e] = @ + 1]
    /\ healthy' = [healthy EXCEPT ![e] = @ \ {Candidate(e)}]
    /\ place' = [place EXCEPT ![e] = "calling"]
    /\ UNCHANGED <<circuits, next, usable, cancelled>>

\* RecordSuccess deletes the judge's entries.
Success(e) ==
    /\ place[e] = "calling" /\ ~cancelled[e]
    /\ LET j == Candidate(e)
       IN  /\ failures' = [failures EXCEPT ![j] = 0]
           /\ circuit' = [circuit EXCEPT ![j] = Closed]
           /\ burst' = [burst EXCEPT ![j] = 0]
    /\ Return(e)

Counted(f, j, bound) == [f EXCEPT ![j] = Min({@ + 1, bound})]

\* Mutation: the circuit opens when the threshold is met and not beyond it.
RecordFailureOnce(j) ==
    /\ failures' = Counted(failures, j, FailureThreshold)
    /\ circuit' = IF failures[j] + 1 = FailureThreshold THEN [circuit EXCEPT ![j] = Cooldown] ELSE circuit

RecordFailure(j) ==
    /\ failures' = Counted(failures, j, FailureThreshold)
    /\ circuit' = IF failures[j] + 1 >= FailureThreshold THEN [circuit EXCEPT ![j] = Cooldown] ELSE circuit

\* The call fails or what it answered is not JSON; the next judge has its turn.
Fail(e) ==
    /\ place[e] = "calling"
    /\ LET j == Candidate(e)
       IN  /\ RecordFailure(j)
           /\ burst' = Counted(burst, j, Enough)
    /\ healthy' = [d \in Evaluations |-> {j \in healthy[d] : circuit'[j] <= 0}]
    /\ next' = [next EXCEPT ![e] = @ + 1]
    /\ place' = [place EXCEPT ![e] = "choosing"]
    /\ UNCHANGED <<attempts, usable, cancelled>>

\* Mutation: one attempt is not used.
HeuristicTooEarly(e) ==
    /\ place[e] = "choosing"
    /\ next[e] > Len(ModelOrder) \/ attempts[e] >= MaxAttempts - 1
    /\ place' = [place EXCEPT ![e] = "heuristic"]
    /\ UNCHANGED <<circuits, evaluation, healthy>>

\* Nobody is left to ask, or enough were asked.
Heuristic(e) ==
    /\ place[e] = "choosing"
    /\ next[e] > Len(ModelOrder) \/ attempts[e] >= MaxAttempts
    /\ place' = [place EXCEPT ![e] = "heuristic"]
    /\ UNCHANGED <<circuits, evaluation, healthy>>

HeuristicReturns(e) ==
    /\ place[e] = "heuristic"
    /\ Return(e)
    /\ UNCHANGED circuits

Tick ==
    /\ circuit' = [j \in Judges |-> IF circuit[j] > 0 THEN circuit[j] - 1 ELSE circuit[j]]
    /\ burst' = [j \in Judges |-> IF circuit[j] = 1 THEN 0 ELSE burst[j]]
    /\ UNCHANGED <<failures, evaluation, place, healthy>>

Advance(e) == Skip(e) \/ Call(e) \/ Success(e) \/ Fail(e) \/ Heuristic(e) \/ HeuristicReturns(e)

Next ==
    \/ \E e \in Evaluations : Start(e) \/ Cancel(e) \/ Advance(e)
    \/ Tick

Spec == Init /\ [][Next]_vars

\* Every call ends, the loop goes on, time passes.
FairSpec == Spec /\ WF_vars(Tick) /\ \A e \in Evaluations : WF_vars(Advance(e))

-----------------------------------------------------------------------------
(* Properties *)

\* A judge that only fails gets no more calls than the threshold and one for
\* each other evaluation under way, until its cooldown is over: failures that
\* arrive late and the calls let through after a cooldown are all counted
\* (health.go:52).
FailingJudgeIsSpared ==
    \A j \in Judges : burst[j] <= FailureThreshold - 1 + Cardinality(Evaluations)

\* The heuristic answers only when all attempts were used or when no usable
\* judge stayed available, uncalled, from the first step of the loop to the
\* last (registry.go:31).
HeuristicIsLastResort ==
    \A e \in Evaluations :
        place[e] = "heuristic" => attempts[e] = MaxAttempts \/ healthy[e] = {}

\* No judge is left out for ever, whatever late failures arrive.
TriedAgain == \A j \in Judges : []<>IsAvailable(j)
=============================================================================
