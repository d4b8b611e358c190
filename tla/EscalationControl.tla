-------------------------- MODULE EscalationControl --------------------------
(***************************************************************************)
(* The dynamic threshold as the loop it closes: requests read threshold    *)
(* and strict mode, are routed by them, and when they are done add their   *)
(* route to the window from which the threshold is adjusted.  Reading,     *)
(* adding and adjusting are critical sections of their own, so requests    *)
(* overlap in between; an operator resets the window or installs a policy. *)
(*                                                                         *)
(* Scores, rates and thresholds are in hundredths, and compared exactly    *)
(* where the code compares floating-point numbers.                         *)
(***************************************************************************)
EXTENDS RouteDecision, Integers, Sequences, FiniteSets

CONSTANTS
    Goroutines,         \* goroutines that serve requests, one after the other
    Asks,               \* what requests bring: mode, cycle and the judge's verdict
    WindowSize,
    TargetRate,
    InitialThreshold,   \* not checked by the code: may be above the ceiling
    Ceiling,            \* of the threshold: 99 in the code, less in small instances
    MaxHistory          \* bound: decisions the history variable keeps

ASSUME EscalationAssumption ==
    /\ Asks \subseteq [smart : BOOLEAN, cycle : BOOLEAN, score : Nat,
                       impact : {"LOW", "MEDIUM", "HIGH"}]
    /\ WindowSize \in Nat \ {0}
    /\ TargetRate \in Nat \ {0}
    /\ Ceiling \in Nat
    /\ InitialThreshold \in Nat \ {0}
    /\ MaxHistory \in Nat

VARIABLES
    threshold,
    window,     \* the last routes, TRUE for the strong tier
    pc,
    ask,        \* ask[r]: the request being served
    seen,       \* seen[r]: currentThreshold
    route,      \* route[r]: routeDecision
    history     \* history: routes added since the window was emptied

escalationVars == <<threshold, window, pc, ask, seen, route, history>>

\* No threshold is higher.
Highest == IF InitialThreshold > Ceiling THEN InitialThreshold ELSE Ceiling

NoAsk == [smart |-> TRUE, cycle |-> FALSE, score |-> 0, impact |-> "LOW"]

EscalationTypeOK ==
    /\ threshold \in 0..Highest
    /\ window \in Seq(BOOLEAN) /\ Len(window) <= WindowSize
    /\ pc \in [Goroutines -> {"idle", "read", "decide", "add", "adjust"}]
    /\ ask \in [Goroutines -> Asks \cup {NoAsk}]
    /\ seen \in [Goroutines -> 0..Highest]
    /\ route \in [Goroutines -> {"none", "weak", "strong"}]
    /\ history \in Seq(BOOLEAN) /\ Len(history) <= MaxHistory

EscalationInit ==
    /\ threshold = InitialThreshold
    /\ window = <<>>
    /\ pc = [r \in Goroutines |-> "idle"]
    /\ ask = [r \in Goroutines |-> NoAsk]
    /\ seen = [r \in Goroutines |-> 0]
    /\ route = [r \in Goroutines |-> "none"]
    /\ history = <<>>

Goto(r, l) == pc' = [pc EXCEPT ![r] = l]

Strongs(s) == Cardinality({i \in 1..Len(s) : s[i]})

Full == Len(window) >= WindowSize
AboveTarget(s) == 100 * Strongs(s) > TargetRate * Len(s)
BelowTarget(s) == 100 * Strongs(s) < (TargetRate - 2) * Len(s)

IsStrictMode == Full /\ AboveTarget(window)

Begin(r) ==
    /\ pc[r] = "idle"
    /\ \E a \in Asks : ask' = [ask EXCEPT ![r] = a]
    /\ Goto(r, "read")
    /\ UNCHANGED <<threshold, window, seen, route, history>>

ReadThreshold(r) ==
    /\ pc[r] = "read"
    /\ seen' = [seen EXCEPT ![r] = threshold]
    /\ Goto(r, "decide")
    /\ UNCHANGED <<threshold, window, ask, route, history>>

\* In smart mode a placeholder stands in for the verdict: score 0, impact LOW.
Decide(r) ==
    /\ pc[r] = "decide"
    /\ LET v == IF ask[r].smart THEN NoAsk ELSE ask[r]
       IN  route' = [route EXCEPT ![r] =
                       decideRoute(v.score, v.impact, seen[r], IsStrictMode, ask[r].cycle)]
    /\ seen' = [seen EXCEPT ![r] = 0]
    /\ Goto(r, "add")
    /\ UNCHANGED <<threshold, window, ask, history>>

\* A provider error: the decision is not added.
ProviderFails(r) ==
    /\ pc[r] = "add"
    /\ Goto(r, "idle")
    /\ route' = [route EXCEPT ![r] = "none"]
    /\ ask' = [ask EXCEPT ![r] = NoAsk]
    /\ UNCHANGED <<threshold, window, seen, history>>

\* Mutation: a full window gets no new decisions.
AddToFull(r) ==
    /\ pc[r] = "add"
    /\ LET strong == route[r] = "strong"
       IN  /\ window' = IF Full THEN window ELSE Append(window, strong)
           /\ history' = IF Len(history) < MaxHistory THEN Append(history, strong) ELSE history
    /\ Goto(r, "adjust")
    /\ UNCHANGED <<threshold, ask, seen, route>>

AddDecision(r) ==
    /\ pc[r] = "add"
    /\ LET strong == route[r] = "strong"
       IN  /\ window' = Append(IF Full THEN Tail(window) ELSE window, strong)
           /\ history' = IF Len(history) < MaxHistory THEN Append(history, strong) ELSE history
    /\ Goto(r, "adjust")
    /\ UNCHANGED <<threshold, ask, seen, route>>

\* Mutation: too many strong routes lower the threshold, too few raise it.
AdjustSwapped(r) ==
    /\ pc[r] = "adjust"
    /\ threshold' = IF ~Full THEN threshold
                    ELSE IF BelowTarget(window)
                    THEN IF threshold < Ceiling THEN threshold + 1 ELSE Ceiling
                    ELSE IF AboveTarget(window)
                    THEN IF threshold > 2 THEN threshold - 2 ELSE 0
                    ELSE threshold
    /\ Goto(r, "idle")
    /\ route' = [route EXCEPT ![r] = "none"]
    /\ ask' = [ask EXCEPT ![r] = NoAsk]
    /\ UNCHANGED <<window, seen, history>>

\* Mutation: the upper bound is forgotten.
AdjustUnbounded(r) ==
    /\ pc[r] = "adjust"
    /\ threshold' = IF ~Full THEN threshold
                    ELSE IF AboveTarget(window) THEN threshold + 1
                    ELSE IF BelowTarget(window) /\ threshold > 1 THEN threshold - 2
                    ELSE threshold
    /\ Goto(r, "idle")
    /\ route' = [route EXCEPT ![r] = "none"]
    /\ ask' = [ask EXCEPT ![r] = NoAsk]
    /\ UNCHANGED <<window, seen, history>>

Adjust(r) ==
    /\ pc[r] = "adjust"
    /\ threshold' = IF ~Full THEN threshold
                    ELSE IF AboveTarget(window)
                    THEN IF threshold < Ceiling THEN threshold + 1 ELSE Ceiling
                    ELSE IF BelowTarget(window)
                    THEN IF threshold > 2 THEN threshold - 2 ELSE 0
                    ELSE threshold
    /\ Goto(r, "idle")
    /\ route' = [route EXCEPT ![r] = "none"]
    /\ ask' = [ask EXCEPT ![r] = NoAsk]
    /\ UNCHANGED <<window, seen, history>>

\* The operator empties the window; the threshold stays where it is.
Reset ==
    /\ window' = <<>> /\ history' = <<>>
    /\ UNCHANGED <<threshold, pc, ask, seen, route>>

\* Any policy update makes a new object, whatever it changes.
InstallPolicy ==
    /\ threshold' = InitialThreshold
    /\ window' = <<>> /\ history' = <<>>
    /\ UNCHANGED <<pc, ask, seen, route>>

Handle(r) == ReadThreshold(r) \/ Decide(r) \/ AddDecision(r) \/ Adjust(r)

EscalationNext ==
    \/ \E r \in Goroutines : Begin(r) \/ Handle(r) \/ ProviderFails(r)
    \/ Reset
    \/ InstallPolicy

EscalationSpec == EscalationInit /\ [][EscalationNext]_escalationVars

\* A goroutine that serves a request goes on.
EscalationFairSpec == EscalationSpec /\ \A r \in Goroutines : WF_escalationVars(Handle(r))

-----------------------------------------------------------------------------
(* Properties *)

Recent == SubSeq(history, Len(history) - WindowSize + 1, Len(history))

\* The threshold moves only when the last WindowSize decisions ask for it, also
\* when other requests add theirs between a request's AddDecision and Adjust,
\* and never on decisions from before a reset.  Too many strong routes raise it,
\* or bring it to the ceiling, down to it if it started above; too few lower it
\* (threshold.go:55-69).
MovesOnEvidence ==
    [][ threshold' # threshold /\ Len(history) < MaxHistory =>
          \/ /\ Len(history) >= WindowSize
             /\ \/ AboveTarget(Recent) /\ (threshold' > threshold \/ threshold' = Ceiling)
                \/ BelowTarget(Recent) /\ threshold' < threshold
          \/ history' = <<>> /\ threshold' = InitialThreshold ]_escalationVars

\* Strict mode does not last: if from some time on no request has a cycle and
\* requests keep coming, whatever their scores, the threshold climbs until even
\* the highest score less the penalty stays below it, and the window falls below
\* the target; it rests on the ceiling being above that score less the penalty
\* (threshold.go:43-69, router.go:560-575).
StrictModeEnds ==
    /\ <>[]\A r \in Goroutines : ~ask[r].cycle
    /\ []<>\E r \in Goroutines : pc[r] = "adjust"
    => []<>~IsStrictMode
=============================================================================
