--------------------------- MODULE SessionBudget ---------------------------
(***************************************************************************)
(* The budget kill switch: the sessions table of the store, the budget     *)
(* manager's limit and the steps of concurrent Router.Route calls that     *)
(* touch them.  Each SQL statement is one action, since SQLite runs one    *)
(* writer at a time; what a request remembers between two statements is    *)
(* kept per request and may be stale when it is used.                      *)
(*                                                                         *)
(* Money is counted in integer units.  Rows are never deleted and          *)
(* is_active is never cleared by the running program, so the rows the      *)
(* program reads again (RequireBudget's second GetOrCreateSession, the     *)
(* GetSessionRequired after a reservation or a settlement) are found, and  *)
(* those reads matter only as points where the request can fail: Abort.    *)
(***************************************************************************)
EXTENDS Integers, FiniteSets, Functions

CONSTANTS
    Sessions,
    Requests,       \* one element per HTTP request, each handled once
    Estimate,       \* Route's estimatedWorstCaseCost
    Epsilon,        \* budgetEpsilon
    MaxRetries,     \* reservation attempts: RequireBudget passes 3
    EnvLimit,       \* MAX_COST_PER_SESSION
    PolicyLimits,   \* limits an operator may post to the admin policy
    Costs,          \* response.Cost of a provider's answer
    KillSwitch      \* ENABLE_BUDGET_KILLSWITCH

ASSUME BudgetAssumption ==
    /\ IsFiniteSet(Requests)
    /\ Estimate \in Nat \ {0}
    /\ Epsilon \in Nat \ {0}
    /\ Epsilon <= Estimate
    /\ MaxRetries \in Nat \ {0}
    /\ EnvLimit \in Int
    /\ PolicyLimits \subseteq Int
    /\ Costs \subseteq Int
    /\ KillSwitch \in BOOLEAN

VARIABLES
    rows,       \* sessions that have a row
    max,        \* max[s]: max_cost_per_session
    cost,       \* cost[s]: current_cost
    limit,      \* Manager.maxCostPerSession
    saved,      \* the limit a restart starts from
    sid,        \* sid[r]: the session request r names
    pc,         \* pc[r]: where request r is in Route
    quote,      \* quote[r]: the limit read when the request arrived
    tries,      \* tries[r]: reservation attempts that met a conflict
    spent       \* spent[r]: what the provider charged

table == <<rows, max, cost>>
policy == <<limit, saved>>
vars == <<rows, max, cost, limit, saved, sid, pc, quote, tries, spent>>

InFlight == {"lookup", "insert", "reserve", "reread", "call", "settle", "audit"}

\* done       answered;
\* refused    budget exceeded, nothing called;
\* failed     an error before anything was reserved;
\* stranded   an error or a crash after the reservation and before the
\*            settlement: the reservation stays in current_cost;
\* unaudited  charged, but without a routing decision.
Final == {"done", "refused", "failed", "stranded", "unaudited"}

TypeOK ==
    /\ rows \subseteq Sessions
    /\ max \in [Sessions -> Int]
    /\ cost \in [Sessions -> Nat]
    /\ limit \in Int
    /\ saved \in Int
    /\ sid \in [Requests -> Sessions]
    /\ pc \in [Requests -> {"idle"} \cup InFlight \cup Final]
    /\ quote \in [Requests -> Int]
    /\ tries \in [Requests -> Nat]
    /\ spent \in [Requests -> Nat]

Init ==
    /\ rows = {}
    /\ max = [s \in Sessions |-> 0]
    /\ cost = [s \in Sessions |-> 0]
    /\ limit = EnvLimit
    /\ saved = EnvLimit
    /\ sid \in [Requests -> Sessions]
    /\ pc = [r \in Requests |-> "idle"]
    /\ quote = [r \in Requests |-> 0]
    /\ tries = [r \in Requests |-> 0]
    /\ spent = [r \in Requests |-> 0]

-----------------------------------------------------------------------------
(* Helpers *)

Goto(r, l) == pc' = [pc EXCEPT ![r] = l]

\* Where Route goes once the session's row exists.
Admitted == IF KillSwitch THEN "reserve" ELSE "call"

\* The condition TryReserveBudget and ReserveBudget both test.
Room(s) == cost[s] + Estimate <= max[s]

\* A provider cost below zero stands for "not reported" and counts as zero.
FinalCost(c) == IF c >= 0 THEN c ELSE 0

\* Where a request ends that is given up at l.
Lost(l) ==
    CASE l \in {"call", "settle"} -> "stranded"
      [] l = "audit" -> "unaudited"
      [] l \in {"lookup", "insert", "reserve", "reread"} -> "failed"
      [] OTHER -> l

-----------------------------------------------------------------------------
(* The session row *)

\* Route calls Manager.GetOrCreateSession, which reads the limit now and
\* may use it much later.
Arrive(r) ==
    /\ pc[r] = "idle"
    /\ quote' = [quote EXCEPT ![r] = limit]
    /\ Goto(r, "lookup")
    /\ UNCHANGED <<table, policy, sid, tries, spent>>

Lookup(r) ==
    /\ pc[r] = "lookup"
    /\ Goto(r, IF sid[r] \in rows THEN Admitted ELSE "insert")
    /\ UNCHANGED <<table, policy, sid, quote, tries, spent>>

\* Mutation: INSERT OR REPLACE, so that a late creator overwrites the row.
InsertOrReplace(r) ==
    /\ pc[r] = "insert"
    /\ rows' = rows \cup {sid[r]}
    /\ max' = [max EXCEPT ![sid[r]] = quote[r]]
    /\ cost' = [cost EXCEPT ![sid[r]] = 0]
    /\ Goto(r, Admitted)
    /\ UNCHANGED <<policy, sid, quote, tries, spent>>

\* Mutation: the INSERT is repeated after a constraint error.
InsertAgain(r) ==
    /\ pc[r] = "insert"
    /\ \/ /\ sid[r] \notin rows
          /\ rows' = rows \cup {sid[r]}
          /\ max' = [max EXCEPT ![sid[r]] = quote[r]]
          /\ Goto(r, Admitted)
          /\ UNCHANGED cost
       \/ sid[r] \in rows /\ UNCHANGED <<table, pc>>
    /\ UNCHANGED <<policy, sid, quote, tries, spent>>

\* The primary key decides between concurrent creators: the loser gets a
\* constraint error and starts over with the lookup.
Insert(r) ==
    /\ pc[r] = "insert"
    /\ \/ /\ sid[r] \notin rows
          /\ rows' = rows \cup {sid[r]}
          /\ max' = [max EXCEPT ![sid[r]] = quote[r]]
          /\ cost' = [cost EXCEPT ![sid[r]] = 0]
          /\ Goto(r, Admitted)
       \/ /\ sid[r] \in rows
          /\ Goto(r, "lookup")
          /\ UNCHANGED table
    /\ UNCHANGED <<policy, sid, quote, tries, spent>>

-----------------------------------------------------------------------------
(* Reservation *)

\* Mutation: the UPDATE without its cost condition, trusting an earlier read.
ReserveUnguarded(r) ==
    /\ pc[r] = "reserve"
    /\ cost' = [cost EXCEPT ![sid[r]] = @ + Estimate]
    /\ Goto(r, "call")
    /\ UNCHANGED <<rows, max, policy, sid, quote, tries, spent>>

\* TryReserveBudget: one guarded UPDATE.
Reserve(r) ==
    /\ pc[r] = "reserve"
    /\ \/ /\ Room(sid[r])
          /\ cost' = [cost EXCEPT ![sid[r]] = @ + Estimate]
          /\ Goto(r, "call")
       \/ /\ ~Room(sid[r])
          /\ Goto(r, "reread")
          /\ UNCHANGED cost
    /\ UNCHANGED <<rows, max, policy, sid, quote, tries, spent>>

\* Mutation: a reservation that affected no row is a refusal, unread.
RereadSkipped(r) ==
    /\ pc[r] = "reread"
    /\ Goto(r, "refused")
    /\ UNCHANGED <<table, policy, sid, quote, tries, spent>>

\* ReserveBudget after an UPDATE that affected no row: refuse if there is
\* really no room, otherwise try again, and give up with a conflict error
\* after MaxRetries attempts.
Reread(r) ==
    /\ pc[r] = "reread"
    /\ \/ /\ ~Room(sid[r])
          /\ Goto(r, "refused")
          /\ UNCHANGED tries
       \/ /\ Room(sid[r])
          /\ tries' = [tries EXCEPT ![r] = @ + 1]
          /\ Goto(r, IF tries[r] + 1 < MaxRetries THEN "reserve" ELSE "failed")
    /\ UNCHANGED <<table, policy, sid, quote, spent>>

-----------------------------------------------------------------------------
(* The call and its settlement *)

CallReturns(r) ==
    /\ pc[r] = "call"
    /\ \E c \in Costs : spent' = [spent EXCEPT ![r] = FinalCost(c)]
    /\ Goto(r, "settle")
    /\ UNCHANGED <<table, policy, sid, quote, tries>>

\* Every candidate failed or timed out: Route returns, and leaves the
\* reservation where it is.
CallFails(r) ==
    /\ pc[r] = "call"
    /\ Goto(r, "stranded")
    /\ UNCHANGED <<table, policy, sid, quote, tries, spent>>

\* AdjustReservedCost: a difference below Epsilon is ignored, a refund stops
\* at zero, a top-up is a second guarded UPDATE that may not fit.
Adjust(r) ==
    LET s == sid[r]
        diff == spent[r] - Estimate
    IN  \/ /\ diff < Epsilon /\ -diff < Epsilon
           /\ Goto(r, "audit")
           /\ UNCHANGED cost
        \/ /\ diff <= -Epsilon
           /\ cost' = [cost EXCEPT ![s] = IF @ + diff < 0 THEN 0 ELSE @ + diff]
           /\ Goto(r, "audit")
        \/ /\ diff >= Epsilon
           /\ cost[s] + diff <= max[s]
           /\ cost' = [cost EXCEPT ![s] = @ + diff]
           /\ Goto(r, "audit")
        \/ /\ diff >= Epsilon
           /\ cost[s] + diff > max[s]
           /\ Goto(r, "stranded")
           /\ UNCHANGED cost

\* Mutation: the whole amount is added again instead of the difference.
SettleInFull(r) ==
    /\ pc[r] = "settle"
    /\ cost' = [cost EXCEPT ![sid[r]] = @ + spent[r]]
    /\ Goto(r, "audit")
    /\ UNCHANGED <<rows, max, policy, sid, quote, tries, spent>>

\* Mutation: the reservation is returned and the price is not booked.
SettleReleases(r) ==
    /\ pc[r] = "settle"
    /\ cost' = [cost EXCEPT ![sid[r]] = @ - Estimate]
    /\ Goto(r, "audit")
    /\ UNCHANGED <<rows, max, policy, sid, quote, tries, spent>>

\* SettleCost, or AddCost when the kill switch is off.
Settle(r) ==
    /\ pc[r] = "settle"
    /\ \/ KillSwitch /\ Adjust(r)
       \/ /\ ~KillSwitch
          /\ cost' = [cost EXCEPT ![sid[r]] = @ + spent[r]]
          /\ Goto(r, "audit")
    /\ UNCHANGED <<rows, max, policy, sid, quote, tries, spent>>

\* InsertRoutingDecision, after which Route can no longer fail.
Audit(r) ==
    /\ pc[r] = "audit"
    /\ Goto(r, "done")
    /\ UNCHANGED <<table, policy, sid, quote, tries, spent>>

\* A statement fails: the client went away and its context is cancelled, or
\* the database stayed busy.  Route returns the error and undoes nothing.
Abort(r) ==
    /\ pc[r] \in InFlight
    /\ Goto(r, Lost(pc[r]))
    /\ UNCHANGED <<table, policy, sid, quote, tries, spent>>

-----------------------------------------------------------------------------
(* The operator and the process *)

\* POST of an admin policy with max_cost_per_session = v: the manager
\* ignores a limit that is not positive, the saved policy keeps it.  Saving
\* may fail, which the handler only reports.
UpdateLimit(v) ==
    /\ limit' = IF v > 0 THEN v ELSE limit
    /\ saved' \in {v, saved}
    /\ UNCHANGED <<table, sid, pc, quote, tries, spent>>

\* The process stops, or crashes, and starts again on the same database.  A
\* saved policy that cannot be loaded is logged and left out.
Restart ==
    /\ limit' \in {saved, EnvLimit}
    /\ pc' = [r \in Requests |-> Lost(pc[r])]
    /\ UNCHANGED <<table, saved, sid, quote, tries, spent>>

\* What the server does by itself once a request has arrived.
Serve(r) ==
    \/ Lookup(r)
    \/ Insert(r)
    \/ Reserve(r)
    \/ Reread(r)
    \/ CallReturns(r)
    \/ CallFails(r)
    \/ Settle(r)
    \/ Audit(r)

Next ==
    \/ \E r \in Requests : Arrive(r) \/ Serve(r) \/ Abort(r)
    \/ \E v \in PolicyLimits : UpdateLimit(v)
    \/ Restart

Spec == Init /\ [][Next]_vars

\* SQLite's busy timeout and the provider client's HTTP timeout bound every
\* wait of a request, so each of its steps is eventually taken; nothing is
\* assumed of clients, operators or crashes.
FairSpec == Spec /\ \A r \in Requests : WF_vars(Serve(r))

-----------------------------------------------------------------------------
(* What the kill switch guarantees *)

On(s) == {r \in Requests : sid[r] = s}

\* The requests whose reservation is part of cost[s].
Holders(s) == {r \in On(s) : KillSwitch /\ pc[r] \in {"call", "settle", "stranded"}}

\* The requests whose price is part of cost[s].
Booked(s) == {r \in On(s) : pc[r] \in {"audit", "done", "unaudited"}}

\* What providers have charged for the requests in S.
Spend(S) == SumFunctionOnSet(spent, S)

\* No order of reservations, refunds and top-ups of concurrent requests takes
\* a session's cost over the limit in its row (storage/budget.go:14, :41).
WithinLimit ==
    KillSwitch => \A s \in Sessions : cost[s] = 0 \/ cost[s] <= max[s]

\* The cost of a session always covers the reservations of the requests that
\* hold one, so a refund never takes away what another request reserved and
\* the clamp at zero of AdjustReservedCost (storage/budget.go:36) never acts.
HeldCovered ==
    \A s \in Sessions : cost[s] >= Estimate * Cardinality(Holders(s))

\* A session's cost is its outstanding reservations and what its settled
\* requests were charged, up to less than Epsilon for each of them
\* (storage/budget.go:31): no charge is lost, none is booked twice.
CostIsAccounted ==
    \A s \in Sessions :
        LET error == cost[s] - Estimate * Cardinality(Holders(s)) - Spend(Booked(s))
            drift == (Epsilon - 1) * Cardinality(Booked(s))
        IN  -drift <= error /\ error <= drift

\* As long as no call on a session cost more than the estimate, what the
\* providers really charged stays within the limit, whatever fails, is given
\* up or crashes in between (router.go:136, :197, :213).
SpendWithinLimit ==
    KillSwitch =>
        \A s \in Sessions :
            (\A r \in On(s) : spent[r] <= Estimate)
                => Spend(On(s)) = 0 \/ Spend(On(s)) <= max[s]

\* A row is made once: no later creator, policy or restart replaces it or
\* moves its limit (storage.go:201-225).
RowIsStable ==
    [][\A s \in rows : s \in rows' /\ max'[s] = max[s]]_vars

\* A request that has arrived is answered, one way or another: neither the
\* get-or-create recursion (storage.go:219) nor the reservation loop
\* (storage/budget.go:64) runs forever.
Answered ==
    \A r \in Requests : (pc[r] \in InFlight) ~> (pc[r] \in Final)

-----------------------------------------------------------------------------
(* SessionBudget implements BudgetLedger when the kill switch is on.       *)

LedgerStatus(l) ==
    CASE l \in {"call", "settle", "stranded"} -> "holding"
      [] l \in {"audit", "done", "unaudited"} -> "charged"
      [] l = "refused" -> "refused"
      [] OTHER -> "none"

Ledger == INSTANCE BudgetLedger WITH
    Amounts <- {FinalCost(c) : c \in Costs} \cup {Estimate},
    Caps <- PolicyLimits \cup {EnvLimit},
    open <- rows,
    cap <- max,
    settled <- [s \in Sessions |-> cost[s] - Estimate * Cardinality(Holders(s))],
    owner <- sid,
    status <- [r \in Requests |-> LedgerStatus(pc[r])]

\* Stale reads, retries, lost races, errors and crashes included, the calls
\* behave as one ledger that decides every hold, refusal and charge at a
\* single moment: in particular a request is refused only when the session
\* really had no room for it (storage/budget.go:83).
RefinesLedger == Ledger!Spec

=============================================================================
