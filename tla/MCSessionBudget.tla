-------------------------- MODULE MCSessionBudget --------------------------
(* Small instances of SessionBudget.  A unit is a fifth of a dollar or so:  *)
(* an estimate of 4 units, a limit that fits two estimates and not three.   *)
EXTENDS SessionBudget

CONSTANTS s1, s2, r1, r2

MCSessions == {s1, s2}
MCTwoRequests == {r1, r2}

\* A limit the manager ignores and one that fits a single estimate.
MCPolicyLimits == {0, 5}

\* Not reported, a refund, a difference below Epsilon and a top-up.
MCCosts == {-1, 1, 3, 9}
=============================================================================
