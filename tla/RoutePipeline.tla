---------------------------- MODULE RoutePipeline ----------------------------
(***************************************************************************)
(* What Router.Route does with a request between its arrival and its       *)
(* answer: the cached route or the judge, the decision, the candidates of  *)
(* the tier with their keys, the smart-mode deadline that brings in the    *)
(* judge late, the streamed chunks, and an operator who switches models on *)
(* and off meanwhile.                                                      *)
(*                                                                         *)
(* The other components are seen from here by what they may answer: the    *)
(* session budget admits or refuses, the cache recommends a route or none, *)
(* the detector sees a cycle or not, the limiter lets a model be called or *)
(* not, the threshold has any of the values in Thresholds, strict or not.  *)
(* Scores and thresholds are in hundredths.                                *)
(***************************************************************************)
EXTENDS RouteDecision, Integers, Sequences

CONSTANTS
    Requests,
    Models,
    WeakTier,       \* routing_policy.weak_tier.order
    StrongTier,     \* routing_policy.strong_tier.order
    JudgeOrder,     \* judge.model_order
    KeyCount,       \* KeyCount[m]: usable key instances of m
    Scores,         \* complexity scores a judge gives
    Thresholds,     \* values of the dynamic threshold
    NoModel

Members(s) == {s[i] : i \in 1..Len(s)}

\* SentinelConfig.Validate.
ASSUME PipelineAssumption ==
    /\ WeakTier \in Seq(Models) /\ WeakTier # <<>>
    /\ StrongTier \in Seq(Models) /\ StrongTier # <<>>
    /\ Members(WeakTier) \cap Members(StrongTier) = {}
    /\ JudgeOrder \in Seq(Models)
    /\ KeyCount \in [Models -> Nat]
    /\ Scores \subseteq 0..100 /\ Scores # {}
    /\ Thresholds \subseteq Nat /\ Thresholds # {}
    /\ NoModel \notin Models

Impacts == {"LOW", "MEDIUM", "HIGH"}
Asks == [mode : {"smart", "always", "never"}, stream : BOOLEAN, cycle : BOOLEAN,
         cached : {"none", "weak", "strong"}]
Verdicts == [score : 0..100, impact : Impacts]
NoVerdict == [score |-> 0, impact |-> "LOW"]

VARIABLES
    active,     \* models whose runtime status is active
    pc,         \* pc[r]: where Route is
    ask,        \* ask[r]: the request, and what cache and detector say of it
    verdict,    \* verdict[r]: the judge's result, or what stands in for it
    route,      \* route[r]: routeDecision
    tier,       \* tier[r]: priorityGroup and resultTier, which go together
    late,       \* late[r]: the decision after the deadline is under way
    timed,      \* timed[r]: conditionalWeakCall
    expired,    \* expired[r]: the deadline of callCtx has passed
    slow,       \* slow[r]: the last failure of the timed call was a timeout of its own
    listed,     \* listed[r]: models that could route when the list was made
    at,         \* at[r]: the place of the candidate in its tier's order
    keys,       \* keys[r]: keys of the candidate not tried yet
    called,     \* called[r]: models asked for a completion
    judges,     \* judges[r]: models asked for a verdict
    judged,     \* judged[r]: how often the judge was asked
    used,       \* used[r]: modelUsed
    chunks,     \* chunks[r]: models whose chunks the client has got
    off         \* history: models inactive ever since r arrived

decision == <<verdict, route, tier>>
timing == <<timed, expired, slow>>
calls == <<listed, at, keys, called, used>>
judging == <<judges, judged>>
vars == <<active, pc, ask, verdict, route, tier, late, timed, expired, slow, listed, at,
          keys, called, judges, judged, used, chunks, off>>

PCs == {"idle", "prepare", "judge", "decide", "list", "next", "call", "busy",
        "settle", "respond", "done", "failed"}

TypeOK ==
    /\ active \subseteq Models
    /\ pc \in [Requests -> PCs]
    /\ ask \in [Requests -> Asks]
    /\ verdict \in [Requests -> Verdicts]
    /\ route \in [Requests -> {"none", "weak", "strong"}]
    /\ tier \in [Requests -> {"none", "weak", "strong"}]
    /\ late \in [Requests -> BOOLEAN]
    /\ timed \in [Requests -> BOOLEAN]
    /\ expired \in [Requests -> BOOLEAN]
    /\ slow \in [Requests -> BOOLEAN]
    /\ listed \in [Requests -> SUBSET Models]
    /\ at \in [Requests -> Nat]
    /\ keys \in [Requests -> Nat]
    /\ called \in [Requests -> SUBSET Models]
    /\ judges \in [Requests -> SUBSET Models]
    /\ judged \in [Requests -> Nat]
    /\ used \in [Requests -> Models \cup {NoModel}]
    /\ chunks \in [Requests -> SUBSET Models]
    /\ off \in [Requests -> SUBSET Models]

Init ==
    /\ active = Models
    /\ pc = [r \in Requests |-> "idle"]
    /\ ask = [r \in Requests |-> [mode |-> "smart", stream |-> FALSE, cycle |-> FALSE,
                                  cached |-> "none"]]
    /\ verdict = [r \in Requests |-> NoVerdict]
    /\ route = [r \in Requests |-> "none"]
    /\ tier = [r \in Requests |-> "none"]
    /\ late = [r \in Requests |-> FALSE]
    /\ timed = [r \in Requests |-> FALSE]
    /\ expired = [r \in Requests |-> FALSE]
    /\ slow = [r \in Requests |-> FALSE]
    /\ listed = [r \in Requests |-> {}]
    /\ at = [r \in Requests |-> 0]
    /\ keys = [r \in Requests |-> 0]
    /\ called = [r \in Requests |-> {}]
    /\ judges = [r \in Requests |-> {}]
    /\ judged = [r \in Requests |-> 0]
    /\ used = [r \in Requests |-> NoModel]
    /\ chunks = [r \in Requests |-> {}]
    /\ off = [r \in Requests |-> {}]

Goto(r, l) == pc' = [pc EXCEPT ![r] = l]

-----------------------------------------------------------------------------
(* The decision *)

Arrive(r) ==
    /\ pc[r] = "idle"
    /\ \E a \in Asks : ask' = [ask EXCEPT ![r] = a]
    /\ off' = [off EXCEPT ![r] = Models \ active]
    /\ Goto(r, "prepare")
    /\ UNCHANGED <<active, decision, late, timing, calls, judging, chunks>>

\* The session budget refuses.
Refuse(r) ==
    /\ pc[r] = "prepare"
    /\ Goto(r, "failed")
    /\ UNCHANGED <<active, ask, decision, late, timing, calls, judging, chunks, off>>

\* A confident cache comes before anything the request says about the judge.
Prepare(r) ==
    /\ pc[r] = "prepare"
    /\ \/ /\ ask[r].cached = "none" /\ ask[r].mode = "always"
          /\ Goto(r, "judge")
          /\ UNCHANGED verdict
       \/ /\ ask[r].cached = "strong"
          /\ verdict' = [verdict EXCEPT ![r] = [score |-> 95, impact |-> "HIGH"]]
          /\ Goto(r, "decide")
       \/ /\ \/ ask[r].cached = "weak"
             \/ ask[r].cached = "none" /\ ask[r].mode # "always"
          /\ verdict' = [verdict EXCEPT ![r] = NoVerdict]
          /\ Goto(r, "decide")
    /\ UNCHANGED <<active, ask, route, tier, late, timing, calls, judging, chunks, off>>

\* evaluateJudge: some of the judges are called, in order, and one of them or
\* the heuristic gives the verdict.  The runtime status is not looked at.
AskJudge(r) ==
    /\ pc[r] = "judge"
    /\ \E n \in 0..Len(JudgeOrder), s \in Scores, i \in Impacts :
          /\ judges' = [judges EXCEPT ![r] = @ \cup {JudgeOrder[k] : k \in 1..n}]
          /\ verdict' = [verdict EXCEPT ![r] = [score |-> s, impact |-> i]]
    /\ judged' = [judged EXCEPT ![r] = @ + 1]
    /\ Goto(r, "decide")
    /\ UNCHANGED <<active, ask, route, tier, late, timing, calls, chunks, off>>

\* Mutation: the late decision does not move the request to the strong tier.
DecideKeepsTier(r) ==
    /\ pc[r] = "decide"
    /\ \E th \in Thresholds, strict \in BOOLEAN :
          LET d == decideRoute(verdict[r].score, verdict[r].impact, th, strict, ask[r].cycle)
          IN  /\ route' = [route EXCEPT ![r] = d]
              /\ tier' = [tier EXCEPT ![r] = IF late[r] THEN @ ELSE d]
              /\ timed' = [timed EXCEPT ![r] =
                             ~late[r] /\ ask[r].mode = "smart" /\ ask[r].cached = "none"
                             /\ d = "weak"]
    /\ Goto(r, "list")
    /\ UNCHANGED <<active, ask, verdict, late, expired, slow, calls, judging, chunks, off>>

\* Only the first call to the weak tier in smart mode has a deadline.
Decide(r) ==
    /\ pc[r] = "decide"
    /\ \E th \in Thresholds, strict \in BOOLEAN :
          LET d == decideRoute(verdict[r].score, verdict[r].impact, th, strict, ask[r].cycle)
          IN  /\ route' = [route EXCEPT ![r] = d]
              /\ tier' = [tier EXCEPT ![r] = d]
              /\ timed' = [timed EXCEPT ![r] =
                             ~late[r] /\ ask[r].mode = "smart" /\ ask[r].cached = "none"
                             /\ d = "weak"]
    /\ Goto(r, "list")
    /\ UNCHANGED <<active, ask, verdict, late, expired, slow, calls, judging, chunks, off>>

-----------------------------------------------------------------------------
(* callCandidates *)

Order(t) == IF t = "strong" THEN StrongTier ELSE WeakTier

Candidate(r) == Order(tier[r])[at[r]]

NoneLeft(r) == at[r] > Len(Order(tier[r]))

\* Mutation: the runtime status is not looked at.
ListEnabled(r) ==
    /\ pc[r] = "list"
    /\ listed' = [listed EXCEPT ![r] = Models]
    /\ at' = [at EXCEPT ![r] = 1]
    /\ Goto(r, "next")
    /\ UNCHANGED <<active, ask, decision, late, timing, keys, called, used,
                   judging, chunks, off>>

\* candidates: the list is made once; a status changed later is not seen.
List(r) ==
    /\ pc[r] = "list"
    /\ listed' = [listed EXCEPT ![r] = active]
    /\ at' = [at EXCEPT ![r] = 1]
    /\ Goto(r, "next")
    /\ UNCHANGED <<active, ask, decision, late, timing, keys, called, used,
                   judging, chunks, off>>

\* A model that is not listed is passed over, one the limiter holds back too.
Skip(r) ==
    /\ pc[r] = "next" /\ ~NoneLeft(r)
    /\ at' = [at EXCEPT ![r] = @ + 1]
    /\ UNCHANGED <<active, pc, ask, decision, late, timing, listed, keys, called,
                   used, judging, chunks, off>>

Choose(r) ==
    /\ pc[r] = "next" /\ ~NoneLeft(r)
    /\ Candidate(r) \in listed[r]
    /\ keys' = [keys EXCEPT ![r] = KeyCount[Candidate(r)]]
    /\ Goto(r, "call")
    /\ UNCHANGED <<active, ask, decision, late, timing, listed, at, called, used,
                   judging, chunks, off>>

\* Mutation: any failure of the first call brings in the judge.
ExhaustedAsksJudge(r) ==
    /\ pc[r] = "next" /\ NoneLeft(r)
    /\ \/ /\ ~late[r]
          /\ late' = [late EXCEPT ![r] = TRUE]
          /\ Goto(r, "judge")
       \/ /\ late[r]
          /\ Goto(r, "failed")
          /\ UNCHANGED late
    /\ UNCHANGED <<active, ask, decision, timing, calls, judging, chunks, off>>

\* No candidate is left: contextTimedOut decides between the judge and an error.
\* It cannot tell the deadline from a timeout of the HTTP client, if that is last.
Exhausted(r) ==
    /\ pc[r] = "next" /\ NoneLeft(r)
    /\ \/ /\ timed[r] /\ (expired[r] \/ slow[r])
          /\ late' = [late EXCEPT ![r] = TRUE]
          /\ Goto(r, "judge")
       \/ /\ ~(timed[r] /\ (expired[r] \/ slow[r]))
          /\ Goto(r, "failed")
          /\ UNCHANGED late
    /\ UNCHANGED <<active, ask, decision, timing, calls, judging, chunks, off>>

OutOfKeys(r) ==
    /\ pc[r] = "call" /\ keys[r] = 0
    /\ at' = [at EXCEPT ![r] = @ + 1]
    /\ Goto(r, "next")
    /\ UNCHANGED <<active, ask, decision, late, timing, listed, keys, called, used,
                   judging, chunks, off>>

\* With an expired context no request leaves the process.
TooLate(r) ==
    /\ pc[r] = "call" /\ keys[r] > 0
    /\ timed[r] /\ expired[r]
    /\ keys' = [keys EXCEPT ![r] = @ - 1]
    /\ UNCHANGED <<active, pc, ask, decision, late, timing, listed, at, called, used,
                   judging, chunks, off>>

Call(r) ==
    /\ pc[r] = "call" /\ keys[r] > 0
    /\ ~(timed[r] /\ expired[r])
    /\ called' = [called EXCEPT ![r] = @ \cup {Candidate(r)}]
    /\ Goto(r, "busy")
    /\ UNCHANGED <<active, ask, decision, late, timing, listed, at, keys, used, judging,
                   chunks, off>>

\* The stream handler passes a chunk on to the client.
Chunk(r) ==
    /\ pc[r] = "busy" /\ ask[r].stream
    /\ chunks' = [chunks EXCEPT ![r] = @ \cup {Candidate(r)}]
    /\ UNCHANGED <<active, pc, ask, decision, late, timing, calls, judging, off>>

Deadline(r) ==
    /\ pc[r] \in {"list", "next", "call", "busy"}
    /\ timed[r] /\ ~expired[r]
    /\ expired' = [expired EXCEPT ![r] = TRUE]
    /\ UNCHANGED <<active, pc, ask, decision, late, timed, slow, calls, judging, chunks, off>>

\* Mutation: after a failure the same key is tried again.
FailsAgain(r) ==
    /\ pc[r] = "busy"
    /\ Goto(r, "call")
    /\ UNCHANGED <<active, ask, decision, late, timing, calls, judging, chunks, off>>

\* An error of the provider, the deadline, a timeout of the HTTP client, or a
\* client that went away.
Fails(r) ==
    /\ pc[r] = "busy"
    /\ \E timeout \in BOOLEAN :
          slow' = [slow EXCEPT ![r] = IF timed[r] THEN timeout ELSE @]
    /\ keys' = [keys EXCEPT ![r] = @ - 1]
    /\ Goto(r, "call")
    /\ UNCHANGED <<active, ask, decision, late, timed, expired, listed, at, called, used, judging,
                   chunks, off>>

Answers(r) ==
    /\ pc[r] = "busy"
    /\ used' = [used EXCEPT ![r] = Candidate(r)]
    /\ Goto(r, "settle")
    /\ UNCHANGED <<active, ask, decision, late, timing, listed, at, keys, called, judging,
                   chunks, off>>

\* The settlement and the routing decision are written, or one of them fails.
Settle(r) ==
    /\ pc[r] = "settle"
    /\ \/ Goto(r, "respond") \/ Goto(r, "failed")
    /\ UNCHANGED <<active, ask, decision, late, timing, calls, judging, chunks, off>>

\* The answer, or the last event of the stream.
Respond(r) ==
    /\ pc[r] = "respond"
    /\ Goto(r, "done")
    /\ UNCHANGED <<active, ask, decision, late, timing, calls, judging, chunks, off>>

-----------------------------------------------------------------------------
(* The operator *)

SetModelStatus(m) ==
    /\ \/ /\ active' = active \cup {m}
          /\ off' = [r \in Requests |-> off[r] \ {m}]
       \/ /\ active' = active \ {m}
          /\ UNCHANGED off
    /\ UNCHANGED <<pc, ask, decision, late, timing, calls, judging, chunks>>

SetAllModelStatus ==
    /\ \/ active' = Models /\ off' = [r \in Requests |-> {}]
       \/ active' = {} /\ UNCHANGED off
    /\ UNCHANGED <<pc, ask, decision, late, timing, calls, judging, chunks>>

Handle(r) ==
    \/ Prepare(r) \/ Refuse(r) \/ AskJudge(r) \/ Decide(r)
    \/ List(r) \/ Skip(r) \/ Choose(r) \/ Exhausted(r) \/ OutOfKeys(r) \/ TooLate(r) \/ Call(r)
    \/ Fails(r) \/ Answers(r) \/ Settle(r) \/ Respond(r)

Next ==
    \/ \E r \in Requests : Arrive(r) \/ Handle(r) \/ Chunk(r) \/ Deadline(r)
    \/ \E m \in Models : SetModelStatus(m)
    \/ SetAllModelStatus

Spec == Init /\ [][Next]_vars

\* A goroutine that can go on does: provider calls end (the HTTP client gives
\* up after 60 seconds and retries are counted), and so do database statements.
FairSpec == Spec /\ \A r \in Requests : WF_vars(Handle(r))

-----------------------------------------------------------------------------
(* Properties *)

Ended(r) == pc[r] \in {"settle", "respond", "done"}

\* The answer comes from the tier that the decision, the response and the
\* audit name, also when the decision was made again after the deadline
\* (router.go:184-196).
AnswerFromTier ==
    \A r \in Requests :
        Ended(r) => tier[r] = route[r] /\ used[r] \in Members(Order(route[r]))

\* A request with a detected cycle reaches no weak model, whatever the
\* threshold, strict mode, the cache and the judge say (router.go:560).
CycleGoesStrong ==
    \A r \in Requests :
        ask[r].cycle => called[r] \cap Members(WeakTier) = {}

\* The judge is asked once at most, never for a request that refuses it or
\* that the cache answers, and in smart mode only when the call of the weak
\* tier has timed out (router.go:149-196).
JudgeAsPromised ==
    \A r \in Requests :
        /\ judged[r] <= 1
        /\ judged[r] = 1 =>
              /\ ask[r].cached = "none"
              /\ ask[r].mode # "never"
              /\ ask[r].mode = "smart" => expired[r] \/ slow[r]

\* A model that was off all the time answers no request and puts no chunk into
\* a stream, whatever lists were made before and after (router.go:496).
InactiveNeverAnswers ==
    \A r \in Requests : pc[r] # "idle" => (chunks[r] \cup {used[r]}) \cap off[r] = {}

\* Every request is answered or refused.
Answered ==
    \A r \in Requests : pc[r] = "prepare" ~> pc[r] \in {"done", "failed"}

=============================================================================
