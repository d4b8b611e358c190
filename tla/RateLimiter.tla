----------------------------- MODULE RateLimiter -----------------------------
(***************************************************************************)
(* The sliding windows of one model in the limiter, and the goroutines     *)
(* that check them before a call and record in them when a call has        *)
(* succeeded.  Check and record are critical sections; the call between    *)
(* them is not.  Time is the age of what was recorded.                     *)
(***************************************************************************)
EXTENDS Integers, Sequences, FiniteSets, Functions

CONSTANTS
    Workers,
    Margin,                 \* safetyMargin in hundredths
    Rpm, Tpm, Rpd, Tpd,     \* limits of the model; 0 is no limit
    Minute, Day,            \* in ticks
    Tokens                  \* what calls are estimated and found to use

ASSUME LimiterAssumption ==
    /\ IsFiniteSet(Workers)
    /\ Margin \in 1..100
    /\ {Rpm, Tpm, Rpd, Tpd} \subseteq Nat
    /\ Minute \in Nat \ {0} /\ Day \in Nat /\ Day >= Minute
    /\ Tokens \subseteq Nat

VARIABLES
    requestMinute,  \* events, the oldest first
    requestDay,
    calling         \* workers whose check was passed and whose call is under way

limiterVars == <<requestMinute, requestDay, calling>>

\* Events that are older than a day are all the same.
Ages == 0..(Day + 1)
Events == [age : Ages, tokens : Tokens]

LimiterTypeOK ==
    /\ requestMinute \in Seq(Events)
    /\ requestDay \in Seq(Events)
    /\ \A i, j \in 1..Len(requestDay) : i < j => requestDay[i].age >= requestDay[j].age
    /\ calling \subseteq Workers

LimiterInit ==
    /\ requestMinute = <<>> /\ requestDay = <<>>
    /\ calling = {}

-----------------------------------------------------------------------------

\* Mutation: one event is trimmed at a time.
trimOne(events, width) ==
    IF events # <<>> /\ events[1].age > width THEN Tail(events) ELSE events

\* The events from the first one on that is not before the cutoff.
trimEvents(events, width) ==
    LET old == {i \in 1..Len(events) : \A j \in 1..i : events[j].age > width}
    IN  SubSeq(events, Cardinality(old) + 1, Len(events))

CleanMinute == trimEvents(requestMinute, Minute)
CleanDay == trimEvents(requestDay, Day)

TokensIn(events) ==
    FoldFunctionOnSet(+, 0, [i \in 1..Len(events) |-> events[i].tokens], 1..Len(events))

\* int(float64(limit) * safetyMargin)
Cap(limit) == (limit * Margin) \div 100

\* Mutation: a limit is held only when it is exceeded.
BelowOrAt(used, limit) == limit > 0 => used <= Cap(limit)

Below(used, limit) == limit > 0 => used < Cap(limit)

\* Check, with usage after the cleanup.
Allowed(estimate) ==
    /\ Below(Len(CleanMinute), Rpm)
    /\ Below(TokensIn(CleanMinute), Tpm)
    /\ Below(Len(CleanDay), Rpd)
    /\ Below(TokensIn(CleanDay), Tpd)
    /\ estimate > 0 => Below(TokensIn(CleanMinute) + estimate, Tpm)

Clean == requestMinute' = CleanMinute /\ requestDay' = CleanDay

\* A model that is held back is passed over.
Check(w) ==
    /\ w \notin calling
    /\ \E estimate \in Tokens :
          calling' = IF Allowed(estimate) THEN calling \cup {w} ELSE calling
    /\ Clean

\* A call that fails with every key is never recorded.
CallFails(w) ==
    /\ w \in calling
    /\ calling' = calling \ {w}
    /\ UNCHANGED <<requestMinute, requestDay>>

\* Mutation: only the minute is recorded.
RecordMinute(w) ==
    /\ w \in calling
    /\ calling' = calling \ {w}
    /\ \E n \in Tokens :
          requestMinute' = trimEvents(Append(requestMinute, [age |-> 0, tokens |-> n]), Minute)
    /\ requestDay' = CleanDay

\* Mutation: the newest event comes first.
RecordFirst(w) ==
    /\ w \in calling
    /\ calling' = calling \ {w}
    /\ \E n \in Tokens :
          LET event == <<[age |-> 0, tokens |-> n]>>
          IN  /\ requestMinute' = trimEvents(event \o requestMinute, Minute)
              /\ requestDay' = trimEvents(event \o requestDay, Day)

\* The call has succeeded, with n tokens.
Record(w) ==
    /\ w \in calling
    /\ calling' = calling \ {w}
    /\ \E n \in Tokens :
          LET event == [age |-> 0, tokens |-> n]
          IN  /\ requestMinute' = trimEvents(Append(requestMinute, event), Minute)
              /\ requestDay' = trimEvents(Append(requestDay, event), Day)

\* The dashboard reads the usage.
Usage == Clean /\ UNCHANGED calling

Older(events) ==
    [i \in DOMAIN events |-> [events[i] EXCEPT !.age = IF @ > Day THEN @ ELSE @ + 1]]

TimePasses ==
    /\ requestMinute' = Older(requestMinute)
    /\ requestDay' = Older(requestDay)
    /\ UNCHANGED calling

LimiterNext ==
    \/ \E w \in Workers : Check(w) \/ CallFails(w) \/ Record(w)
    \/ Usage
    \/ TimePasses

LimiterSpec == LimiterInit /\ [][LimiterNext]_limiterVars

\* Time passes.
LimiterFairSpec == LimiterSpec /\ WF_limiterVars(TimePasses)

-----------------------------------------------------------------------------
(* Properties *)

N == Cardinality(Workers)

\* Checks that overlap let at most one request more than the cap through for
\* each goroutine but one, in every minute and every day (limiter.go:50).
OvershootBounded ==
    /\ Rpm > 0 /\ Cap(Rpm) > 0 =>
          Len(CleanMinute) + Cardinality(calling) <= Cap(Rpm) - 1 + N
    /\ Rpd > 0 /\ Cap(Rpd) > 0 =>
          Len(CleanDay) + Cardinality(calling) <= Cap(Rpd) - 1 + N

\* The two windows tell one story: the minute is the latest part of the day,
\* however long nobody looked and whichever of the two was trimmed.
MinuteIsLatestOfDay ==
    \E k \in 0..Len(CleanDay) : CleanMinute = SubSeq(CleanDay, k + 1, Len(CleanDay))

\* A model that was held back is let through again, sooner or later.
Recovers == []<>Allowed(0)
=============================================================================
