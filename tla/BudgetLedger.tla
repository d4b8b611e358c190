---------------------------- MODULE BudgetLedger ----------------------------
(***************************************************************************)
(* What the budget kill switch promises, without saying how: every session *)
(* is an account with a cap fixed when it is opened, a request takes a     *)
(* hold of a fixed size before it may spend, and its hold is later         *)
(* replaced by one charge.  SessionBudget implements this with a row that  *)
(* only stores the sum of holds and charges, updated by guarded SQL        *)
(* statements of concurrent requests.                                      *)
(*                                                                         *)
(* There is no action that releases a hold without a charge: the program   *)
(* has none, so a hold of a failed request stays.                          *)
(***************************************************************************)
EXTENDS Integers, FiniteSets

CONSTANTS
    Sessions,
    Requests,
    Estimate,   \* size of a hold, a positive number
    Amounts,    \* the charges that may replace a hold, natural numbers
    Caps        \* the caps a session may be opened with, integers

VARIABLES
    open,       \* the sessions that have an account
    cap,        \* cap[s]: its limit
    settled,    \* settled[s]: the charges booked so far
    owner,      \* owner[r]: the session request r spends from
    status      \* status[r]: "none", "holding", "charged" or "refused"

vars == <<open, cap, settled, owner, status>>

HoldersOf(s) == {r \in Requests : owner[r] = s /\ status[r] = "holding"}

\* What the account counts as used: charges and outstanding holds.
Balance(s) == settled[s] + Estimate * Cardinality(HoldersOf(s))

Init ==
    /\ open = {}
    /\ cap = [s \in Sessions |-> 0]
    /\ settled = [s \in Sessions |-> 0]
    /\ owner \in [Requests -> Sessions]
    /\ status = [r \in Requests |-> "none"]

Open(s) ==
    /\ s \notin open
    /\ open' = open \cup {s}
    /\ \E c \in Caps : cap' = [cap EXCEPT ![s] = c]
    /\ UNCHANGED <<settled, owner, status>>

Hold(r) ==
    /\ status[r] = "none"
    /\ owner[r] \in open
    /\ Balance(owner[r]) + Estimate <= cap[owner[r]]
    /\ status' = [status EXCEPT ![r] = "holding"]
    /\ UNCHANGED <<open, cap, settled, owner>>

\* A request is refused only at a moment when the account has no room for it.
Refuse(r) ==
    /\ status[r] = "none"
    /\ owner[r] \in open
    /\ Balance(owner[r]) + Estimate > cap[owner[r]]
    /\ status' = [status EXCEPT ![r] = "refused"]
    /\ UNCHANGED <<open, cap, settled, owner>>

\* A charge above the hold is booked only when the account has room for it.
Charge(r, a) ==
    /\ status[r] = "holding"
    /\ a > Estimate => Balance(owner[r]) + (a - Estimate) <= cap[owner[r]]
    /\ settled' = [settled EXCEPT ![owner[r]] = @ + a]
    /\ status' = [status EXCEPT ![r] = "charged"]
    /\ UNCHANGED <<open, cap, owner>>

Next ==
    \/ \E s \in Sessions : Open(s)
    \/ \E r \in Requests : Hold(r) \/ Refuse(r)
    \/ \E r \in Requests, a \in Amounts : Charge(r, a)

Spec == Init /\ [][Next]_vars
=============================================================================
