------------------------- MODULE SessionBudgetProofs -------------------------
(***************************************************************************)
(* Proofs about SessionBudget for any number of sessions and concurrent    *)
(* requests, any estimate, limits, prices and retry bound.                 *)
(***************************************************************************)
EXTENDS SessionBudget, Folds, FiniteSetTheorems, WellFoundedInduction, TLAPS

\* A request that got past its get-or-create has a row: nothing deletes one.
RowExists ==
    \A r \in Requests :
        pc[r] \notin {"idle", "lookup", "insert", "failed"} => sid[r] \in rows

\* A session without a row has spent nothing.
NoRowNoCost == \A s \in Sessions : s \notin rows => cost[s] = 0

\* WithinLimit is inductive only together with HeldCovered: a refund of a
\* request must not reach below what the others hold, or the clamp at zero
\* would forgive part of a reservation.
BudgetInv ==
    /\ TypeOK
    /\ RowExists
    /\ NoRowNoCost
    /\ WithinLimit
    /\ HeldCovered

-----------------------------------------------------------------------------
(* Lemmas about the helpers *)

LEMMA FinalCostNat ==
    ASSUME NEW c \in Costs
    PROVE  FinalCost(c) \in Nat
BY BudgetAssumption DEF FinalCost

\* Where a lost request ends, by where it was.
LEMMA LostPlace ==
    ASSUME NEW l \in {"idle"} \cup InFlight \cup Final
    PROVE  /\ Lost(l) \in {"idle"} \cup Final
           /\ l = "idle" => Lost(l) = "idle"
           /\ Lost(l) \in {"call", "settle", "stranded"}
                <=> l \in {"call", "settle", "stranded"}
           /\ Lost(l) \notin {"idle", "lookup", "insert", "failed"}
                => l \notin {"idle", "lookup", "insert", "failed"}
           /\ Lost(l) \in {"audit", "done", "unaudited"}
                <=> l \in {"audit", "done", "unaudited"}
           /\ Lost(l) = "refused" <=> l = "refused"
BY DEF Lost, InFlight, Final

LEMMA HoldersFinite ==
    ASSUME NEW s
    PROVE  /\ IsFiniteSet(Holders(s))
           /\ Cardinality(Holders(s)) \in Nat
<1>1. Holders(s) \subseteq Requests
  BY DEF Holders, On
<1>2. IsFiniteSet(Holders(s))
  BY <1>1, BudgetAssumption, FS_Subset
<1>3. QED
  BY <1>2, FS_CardinalityType

LEMMA OneMore ==
    ASSUME NEW n \in Nat
    PROVE  /\ Estimate * n \in Nat
           /\ Estimate * (n + 1) = Estimate * n + Estimate
BY BudgetAssumption, SMT

LEMMA NothingHeld ==
    ASSUME NEW c \in Nat, NEW S, S = {}
    PROVE  c >= Estimate * Cardinality(S)
<1>1. Cardinality(S) = 0
  BY FS_EmptySet
<1>2. QED
  BY <1>1, BudgetAssumption

\* The three ways a step changes who holds a reservation on session s: not
\* at all, by one more request, or by one fewer.
LEMMA SameHolders ==
    ASSUME TypeOK, UNCHANGED sid, NEW s \in Sessions,
           \A r \in Requests : pc'[r] \in {"call", "settle", "stranded"}
                                 <=> pc[r] \in {"call", "settle", "stranded"}
    PROVE  Holders(s)' = Holders(s)
BY DEF Holders, On

LEMMA HolderAdded ==
    ASSUME TypeOK, UNCHANGED sid, KillSwitch,
           NEW r \in Requests, NEW s \in Sessions, s = sid[r],
           pc[r] \notin {"call", "settle", "stranded"},
           pc'[r] \in {"call", "settle", "stranded"},
           \A q \in Requests \ {r} : pc'[q] = pc[q]
    PROVE  /\ Cardinality(Holders(s))' = Cardinality(Holders(s)) + 1
           /\ \A q \in Sessions \ {s} : Holders(q)' = Holders(q)
<1>1. Holders(s)' = Holders(s) \cup {r}
  BY DEF Holders, On
<1>2. r \notin Holders(s)
  BY DEF Holders
<1>3. \A q \in Sessions \ {s} : Holders(q)' = Holders(q)
  BY DEF Holders, On
<1>4. Cardinality(Holders(s) \cup {r}) = Cardinality(Holders(s)) + 1
  BY <1>2, HoldersFinite, FS_AddElement
<1>5. QED
  BY <1>1, <1>3, <1>4

LEMMA HolderRemoved ==
    ASSUME TypeOK, UNCHANGED sid, KillSwitch,
           NEW r \in Requests, NEW s \in Sessions, s = sid[r],
           pc[r] \in {"call", "settle", "stranded"},
           pc'[r] \notin {"call", "settle", "stranded"},
           \A q \in Requests \ {r} : pc'[q] = pc[q]
    PROVE  /\ Cardinality(Holders(s)) = Cardinality(Holders(s))' + 1
           /\ Cardinality(Holders(s))' \in Nat
           /\ \A q \in Sessions \ {s} : Holders(q)' = Holders(q)
<1>1. Holders(s)' = Holders(s) \ {r}
  BY DEF Holders, On
<1>2. r \in Holders(s)
  BY DEF Holders, On
<1>3. \A q \in Sessions \ {s} : Holders(q)' = Holders(q)
  BY DEF Holders, On
<1>4. /\ IsFiniteSet(Holders(s) \ {r})
      /\ Cardinality(Holders(s) \ {r}) = Cardinality(Holders(s)) - 1
  BY <1>2, HoldersFinite, FS_RemoveElement
<1>5. Cardinality(Holders(s) \ {r}) \in Nat
  BY <1>4, FS_CardinalityType
<1>6. QED
  BY <1>1, <1>3, <1>4, <1>5, HoldersFinite

-----------------------------------------------------------------------------
(* Types *)

LEMMA TypeStep ==
    ASSUME TypeOK, [Next]_vars
    PROVE  TypeOK'
<1> USE BudgetAssumption DEF TypeOK, InFlight, Final, Goto, table, policy
<1>1. ASSUME NEW r \in Requests, Arrive(r)
      PROVE  TypeOK'
  BY <1>1 DEF Arrive
<1>2. ASSUME NEW r \in Requests, Lookup(r)
      PROVE  TypeOK'
  BY <1>2 DEF Lookup, Admitted
<1>3. ASSUME NEW r \in Requests, Insert(r)
      PROVE  TypeOK'
  BY <1>3 DEF Insert, Admitted
<1>4. ASSUME NEW r \in Requests, Reserve(r)
      PROVE  TypeOK'
  BY <1>4 DEF Reserve
<1>5. ASSUME NEW r \in Requests, Reread(r)
      PROVE  TypeOK'
  BY <1>5 DEF Reread
<1>6. ASSUME NEW r \in Requests, CallReturns(r)
      PROVE  TypeOK'
  BY <1>6, FinalCostNat DEF CallReturns
<1>7. ASSUME NEW r \in Requests, CallFails(r)
      PROVE  TypeOK'
  BY <1>7 DEF CallFails
<1>8. ASSUME NEW r \in Requests, Settle(r)
      PROVE  TypeOK'
  <2>1. sid[r] \in Sessions /\ cost[sid[r]] \in Nat /\ spent[r] \in Nat
    OBVIOUS
  <2>2. pc' \in [Requests -> {"idle"} \cup InFlight \cup Final]
    BY <1>8 DEF Settle, Adjust
  <2>3. cost' \in [Sessions -> Nat]
    BY <1>8, <2>1 DEF Settle, Adjust
  <2>4. QED
    BY <1>8, <2>2, <2>3 DEF Settle
<1>9. ASSUME NEW r \in Requests, Audit(r)
      PROVE  TypeOK'
  BY <1>9 DEF Audit
<1>10. ASSUME NEW r \in Requests, Abort(r)
       PROVE  TypeOK'
  BY <1>10, LostPlace DEF Abort
<1>11. ASSUME NEW v \in PolicyLimits, UpdateLimit(v)
       PROVE  TypeOK'
  BY <1>11 DEF UpdateLimit
<1>12. CASE Restart
  BY <1>12, LostPlace DEF Restart
<1>13. CASE UNCHANGED vars
  BY <1>13 DEF vars
<1>14. QED
  BY <1>1, <1>2, <1>3, <1>4, <1>5, <1>6, <1>7, <1>8, <1>9, <1>10, <1>11, <1>12, <1>13
     DEF Next, Serve

\* Every variable of SessionBudget keeps its type.
THEOREM TypeCorrect == Spec => []TypeOK
<1>1. Init => TypeOK
  BY BudgetAssumption DEF Init, TypeOK
<1>2. TypeOK /\ [Next]_vars => TypeOK'
  BY TypeStep
<1>3. QED
  BY <1>1, <1>2, PTL DEF Spec

-----------------------------------------------------------------------------
(* The inductive invariant *)

LEMMA BudgetInit == Init => BudgetInv
<1> SUFFICES ASSUME Init
             PROVE  BudgetInv
  OBVIOUS
<1>1. TypeOK
  BY BudgetAssumption DEF Init, TypeOK
<1>2. \A s \in Sessions : Holders(s) = {}
  BY DEF Init, Holders, On
<1>3. HeldCovered
  BY <1>1, <1>2, FS_EmptySet, BudgetAssumption DEF HeldCovered, Init
<1>4. RowExists /\ NoRowNoCost /\ WithinLimit
  BY DEF Init, RowExists, NoRowNoCost, WithinLimit
<1>5. QED
  BY <1>1, <1>3, <1>4 DEF BudgetInv

\* A step that leaves the table and the set of holders alone.
LEMMA TableUntouched ==
    ASSUME BudgetInv, TypeOK', UNCHANGED <<table, sid>>,
           \A r \in Requests : pc'[r] \in {"call", "settle", "stranded"}
                                 <=> pc[r] \in {"call", "settle", "stranded"},
           \A r \in Requests :
               pc'[r] \notin {"idle", "lookup", "insert", "failed"}
                 => \/ pc[r] \notin {"idle", "lookup", "insert", "failed"}
                    \/ sid[r] \in rows
    PROVE  BudgetInv'
<1>1. \A s \in Sessions : Holders(s)' = Holders(s)
  BY SameHolders DEF BudgetInv
<1>2. HeldCovered'
  BY <1>1 DEF HeldCovered, BudgetInv, table
<1>3. RowExists'
  BY DEF RowExists, BudgetInv, table
<1>4. NoRowNoCost' /\ WithinLimit'
  BY DEF NoRowNoCost, WithinLimit, BudgetInv, table
<1>5. QED
  BY <1>2, <1>3, <1>4 DEF BudgetInv

LEMMA InsertStep ==
    ASSUME BudgetInv, TypeOK', NEW r \in Requests, Insert(r)
    PROVE  BudgetInv'
<1> USE DEF Goto, TypeOK, BudgetInv
<1>1. CASE sid[r] \in rows
  BY <1>1, TableUntouched DEF Insert, policy, table
<1>2. CASE sid[r] \notin rows
  <2> PICK s \in Sessions : s = sid[r]
    OBVIOUS
  <2>1. /\ rows' = rows \cup {s}
        /\ max' = [max EXCEPT ![s] = quote[r]]
        /\ cost' = [cost EXCEPT ![s] = 0]
        /\ pc' = [pc EXCEPT ![r] = Admitted]
        /\ sid' = sid
    BY <1>2 DEF Insert, policy
  <2>2. cost[s] = 0 /\ cost' = cost
    BY <1>2, <2>1 DEF NoRowNoCost
  <2>3. \A q \in Sessions : Holders(q)' = Holders(q)
    <3>1. Holders(s) = {} /\ Holders(s)' = {}
      <4>1. \A q \in Requests : sid[q] = s => pc[q] \notin {"call", "settle", "stranded"}
        BY <1>2 DEF RowExists
      <4>2. KillSwitch => pc'[r] = "reserve"
        BY <2>1 DEF Admitted
      <4>3. QED
        BY <2>1, <4>1, <4>2 DEF Holders, On
    <3>2. \A q \in Sessions \ {s} : Holders(q)' = Holders(q)
      BY <2>1 DEF Holders, On
    <3>3. QED
      BY <3>1, <3>2
  <2>4. HeldCovered'
    BY <2>2, <2>3 DEF HeldCovered
  <2>5. RowExists'
    BY <2>1 DEF RowExists
  <2>6. NoRowNoCost'
    BY <2>1, <2>2 DEF NoRowNoCost
  <2>7. WithinLimit'
    BY <2>1, <2>2 DEF WithinLimit
  <2>8. QED
    BY <2>4, <2>5, <2>6, <2>7
<1>3. QED
  BY <1>1, <1>2

LEMMA ReserveStep ==
    ASSUME BudgetInv, TypeOK', KillSwitch, NEW r \in Requests, Reserve(r)
    PROVE  BudgetInv'
<1> USE DEF Goto, TypeOK, BudgetInv
<1>0. sid[r] \in rows
  BY DEF Reserve, RowExists
<1>1. CASE ~Room(sid[r])
  BY <1>0, <1>1, TableUntouched DEF Reserve, policy, table
<1>2. CASE Room(sid[r])
  <2> PICK s \in Sessions : s = sid[r]
    OBVIOUS
  <2>1. /\ pc[r] = "reserve"
        /\ cost' = [cost EXCEPT ![s] = @ + Estimate]
        /\ pc' = [pc EXCEPT ![r] = "call"]
        /\ UNCHANGED <<rows, max, sid>>
    BY <1>2 DEF Reserve, policy
  <2>2. /\ Cardinality(Holders(s))' = Cardinality(Holders(s)) + 1
        /\ \A q \in Sessions \ {s} : Holders(q)' = Holders(q)
    BY <2>1, HolderAdded
  <2>3. HeldCovered'
    <3>1. Estimate * Cardinality(Holders(s))' = Estimate * Cardinality(Holders(s)) + Estimate
      BY <2>2, HoldersFinite, OneMore
    <3>2. cost[s] >= Estimate * Cardinality(Holders(s))
      BY DEF HeldCovered
    <3>3. Estimate * Cardinality(Holders(s)) \in Nat
      BY HoldersFinite, OneMore
    <3>4. cost'[s] >= Estimate * Cardinality(Holders(s))'
      BY <2>1, <3>1, <3>2, <3>3, BudgetAssumption
    <3>5. ASSUME NEW q \in Sessions \ {s}
          PROVE  cost'[q] >= Estimate * Cardinality(Holders(q))'
      BY <2>1, <2>2 DEF HeldCovered
    <3>6. QED
      BY <3>4, <3>5 DEF HeldCovered
  <2>4. RowExists' /\ NoRowNoCost'
    BY <1>0, <2>1 DEF RowExists, NoRowNoCost
  <2>5. WithinLimit'
    BY <1>2, <2>1, BudgetAssumption DEF WithinLimit, Room
  <2>6. QED
    BY <2>3, <2>4, <2>5
<1>3. QED
  BY <1>1, <1>2

\* The settlement of a reservation: r stops holding Estimate, and what
\* remains still covers the others.
LEMMA AdjustStep ==
    ASSUME BudgetInv, TypeOK', KillSwitch, NEW r \in Requests, Settle(r)
    PROVE  BudgetInv'
<1> USE DEF Goto, TypeOK, BudgetInv
<1> PICK s \in Sessions : s = sid[r]
  OBVIOUS
<1> PICK diff \in Int : diff = spent[r] - Estimate
  BY BudgetAssumption
<1>0. /\ sid[r] \in rows
      /\ pc[r] = "settle"
      /\ UNCHANGED <<rows, max, sid>>
      /\ Adjust(r)
  BY DEF Settle, RowExists
<1>a. s \in Sessions /\ cost[s] \in Nat /\ spent[r] \in Nat /\ Estimate \in Nat
      /\ Epsilon \in Nat /\ diff \in Int /\ max[s] \in Int /\ Epsilon <= Estimate
  BY BudgetAssumption
<1>1. CASE pc' = [pc EXCEPT ![r] = "stranded"]
  <2>1. cost' = cost
    BY <1>0, <1>1 DEF Adjust
  <2>2. UNCHANGED <<table, sid>>
    BY <1>0, <2>1 DEF table
  <2>3. QED
    BY <1>0, <1>1, <2>2, TableUntouched
<1>2. CASE pc' = [pc EXCEPT ![r] = "audit"]
  <2>1. /\ Cardinality(Holders(s)) = Cardinality(Holders(s))' + 1
        /\ Cardinality(Holders(s))' \in Nat
        /\ \A q \in Sessions \ {s} : Holders(q)' = Holders(q)
    BY <1>0, <1>2, HolderRemoved
  <2> DEFINE rest == Estimate * Cardinality(Holders(s))'
  <2>2. rest \in Nat /\ cost[s] >= rest + Estimate
    BY <2>1, OneMore DEF HeldCovered
  <2>3. \/ cost' = cost /\ diff < Epsilon /\ -diff < Epsilon
        \/ cost' = [cost EXCEPT ![s] = @ + diff] /\ diff <= -Epsilon
        \/ cost' = [cost EXCEPT ![s] = @ + diff] /\ diff >= Epsilon /\ cost[s] + diff <= max[s]
    <3>1. cost[s] + diff >= 0
      BY <1>a, <2>2
    <3>2. QED
      BY <1>0, <1>2, <1>a, <3>1 DEF Adjust
  <2>4. cost'[s] >= rest
    BY <1>a, <2>2, <2>3
  <2>5. \A q \in Sessions \ {s} : cost'[q] = cost[q]
    BY <2>3
  <2>6. HeldCovered'
    BY <2>1, <2>4, <2>5 DEF HeldCovered
  <2>7. RowExists' /\ NoRowNoCost'
    BY <1>0, <1>2, <2>5 DEF RowExists, NoRowNoCost
  <2>8. cost'[s] = 0 \/ cost'[s] <= max[s]
    BY <1>a, <2>2, <2>3, BudgetAssumption DEF WithinLimit
  <2>9. WithinLimit'
    BY <1>0, <2>5, <2>8 DEF WithinLimit
  <2>10. QED
    BY <2>6, <2>7, <2>9
<1>3. QED
  BY <1>0, <1>1, <1>2 DEF Adjust

\* Without the kill switch nothing is held and nothing is limited.
LEMMA AddCostStep ==
    ASSUME BudgetInv, TypeOK', ~KillSwitch, NEW r \in Requests,
           Settle(r) \/ Reserve(r)
    PROVE  BudgetInv'
<1> USE DEF Goto, TypeOK, BudgetInv
<1>1. \A s \in Sessions : Holders(s)' = {}
  BY DEF Holders
<1>2. HeldCovered'
  <2>1. ASSUME NEW s \in Sessions
        PROVE  cost'[s] >= Estimate * Cardinality(Holders(s)')
    BY <1>1, NothingHeld
  <2>2. QED
    BY <2>1 DEF HeldCovered
<1>3. WithinLimit'
  BY DEF WithinLimit
<1>4. RowExists' /\ NoRowNoCost'
  BY DEF RowExists, NoRowNoCost, Settle, Reserve, policy, Adjust
<1>5. QED
  BY <1>2, <1>3, <1>4

LEMMA BudgetStep ==
    ASSUME BudgetInv, [Next]_vars
    PROVE  BudgetInv'
<1> USE DEF Goto
<1>0. TypeOK /\ TypeOK'
  BY TypeStep DEF BudgetInv
<1>1. ASSUME NEW r \in Requests, Insert(r)
      PROVE  BudgetInv'
  BY <1>0, <1>1, InsertStep
<1>2. ASSUME NEW r \in Requests, Reserve(r)
      PROVE  BudgetInv'
  BY <1>0, <1>2, ReserveStep, AddCostStep
<1>3. ASSUME NEW r \in Requests, Settle(r)
      PROVE  BudgetInv'
  BY <1>0, <1>3, AdjustStep, AddCostStep
<1>4. ASSUME NEW r \in Requests, Lookup(r)
      PROVE  BudgetInv'
  <2>1. CASE KillSwitch \/ sid[r] \notin rows
    BY <1>0, <1>4, <2>1, TableUntouched DEF Lookup, Admitted, TypeOK, policy, table
  <2>2. CASE ~KillSwitch /\ sid[r] \in rows
    <3>1. \A s \in Sessions : Holders(s)' = {}
      BY <2>2 DEF Holders
    <3>2. HeldCovered'
      <4>1. ASSUME NEW s \in Sessions
            PROVE  cost'[s] >= Estimate * Cardinality(Holders(s)')
        BY <1>0, <3>1, NothingHeld DEF TypeOK
      <4>2. QED
        BY <4>1 DEF HeldCovered
    <3>3. WithinLimit'
      BY <2>2 DEF WithinLimit
    <3>4. RowExists' /\ NoRowNoCost'
      BY <1>0, <1>4, <2>2
         DEF RowExists, NoRowNoCost, Lookup, table, policy, BudgetInv, TypeOK
    <3>5. QED
      BY <1>0, <3>2, <3>3, <3>4 DEF BudgetInv
  <2>3. QED
    BY <2>1, <2>2
<1>5. ASSUME NEW r \in Requests,
             Arrive(r) \/ Reread(r) \/ CallReturns(r) \/ CallFails(r) \/ Audit(r)
      PROVE  BudgetInv'
  <2>1. UNCHANGED <<table, sid>>
    BY <1>5 DEF Arrive, Reread, CallReturns, CallFails, Audit
  <2>2. QED
    BY <1>0, <1>5, <2>1, TableUntouched
       DEF Arrive, Reread, CallReturns, CallFails, Audit, TypeOK
<1>6. ASSUME NEW r \in Requests, Abort(r)
      PROVE  BudgetInv'
  BY <1>0, <1>6, LostPlace, TableUntouched DEF Abort, TypeOK, InFlight
<1>7. CASE Restart
  <2>3. ASSUME NEW r \in Requests
        PROVE  /\ pc'[r] \in {"call", "settle", "stranded"}
                    <=> pc[r] \in {"call", "settle", "stranded"}
               /\ pc'[r] \notin {"idle", "lookup", "insert", "failed"}
                    => pc[r] \notin {"idle", "lookup", "insert", "failed"}
    <3>1. pc'[r] = Lost(pc[r])
      BY <1>7 DEF Restart
    <3>2. pc[r] \in {"idle"} \cup InFlight \cup Final
      BY <1>0 DEF TypeOK
    <3>3. PICK l \in {"idle"} \cup InFlight \cup Final : l = pc[r]
      BY <3>2
    <3>4. pc'[r] = Lost(l)
      BY <3>1, <3>3
    <3>5. /\ Lost(l) \in {"call", "settle", "stranded"}
               <=> l \in {"call", "settle", "stranded"}
          /\ Lost(l) \notin {"idle", "lookup", "insert", "failed"}
               => l \notin {"idle", "lookup", "insert", "failed"}
      BY LostPlace, Zenon
    <3>6. QED
      BY <3>3, <3>4, <3>5, Zenon
  <2>4. UNCHANGED <<table, sid>>
    BY <1>7 DEF Restart
  <2>5. QED
    BY <1>0, <2>3, <2>4, TableUntouched
<1>8. ASSUME NEW v \in PolicyLimits, UpdateLimit(v)
      PROVE  BudgetInv'
  BY <1>0, <1>8, TableUntouched DEF UpdateLimit
<1>9. CASE UNCHANGED vars
  BY <1>0, <1>9, TableUntouched DEF vars, table
<1>10. QED
  BY <1>1, <1>2, <1>3, <1>4, <1>5, <1>6, <1>7, <1>8, <1>9 DEF Next, Serve

THEOREM BudgetInvariant == Spec => []BudgetInv
<1>1. Init => BudgetInv
  BY BudgetInit
<1>2. BudgetInv /\ [Next]_vars => BudgetInv'
  BY BudgetStep
<1>3. QED
  BY <1>1, <1>2, PTL DEF Spec

\* The kill switch holds for any traffic: however many requests race, no
\* session's cost exceeds the limit in its row.
THEOREM CostWithinLimit == Spec => []WithinLimit
<1>1. BudgetInv => WithinLimit
  BY DEF BudgetInv
<1>2. QED
  BY <1>1, BudgetInvariant, PTL

\* A refund never eats another request's reservation: the cost of a session
\* covers every reservation still held on it.
THEOREM ReservationsCovered == Spec => []HeldCovered
<1>1. BudgetInv => HeldCovered
  BY DEF BudgetInv
<1>2. QED
  BY <1>1, BudgetInvariant, PTL

\* A row is created once: no race of creators, policy change or restart ever
\* replaces a session's row or its limit.
THEOREM RowNeverReplaced == Spec => RowIsStable
<1>1. ASSUME TypeOK, [Next]_vars, NEW s \in rows
      PROVE  s \in rows' /\ max'[s] = max[s]
  <2>1. ASSUME NEW r \in Requests, Insert(r)
        PROVE  s \in rows' /\ max'[s] = max[s]
    BY <1>1, <2>1 DEF Insert, TypeOK, table
  <2>2. CASE UNCHANGED <<rows, max>>
    BY <2>2
  <2>3. CASE Restart \/ (\E v \in PolicyLimits : UpdateLimit(v)) \/ UNCHANGED vars
    BY <2>3 DEF Restart, UpdateLimit, vars, table
  <2>4. ASSUME NEW r \in Requests,
               \/ Arrive(r) \/ Abort(r) \/ Lookup(r) \/ Reserve(r) \/ Reread(r)
               \/ CallReturns(r) \/ CallFails(r) \/ Settle(r) \/ Audit(r)
        PROVE  UNCHANGED <<rows, max>>
    BY <2>4 DEF Arrive, Abort, Lookup, Reserve, Reread, CallReturns, CallFails,
                Settle, Audit, table
  <2>5. QED
    BY <1>1, <2>1, <2>2, <2>3, <2>4 DEF Next, Serve
<1>2. TypeOK /\ [Next]_vars => [\A s \in rows : s \in rows' /\ max'[s] = max[s]]_vars
  BY <1>1
<1>3. QED
  BY <1>2, TypeCorrect, PTL DEF Spec, RowIsStable

-----------------------------------------------------------------------------
(***************************************************************************)
(* With the kill switch on, SessionBudget implements BudgetLedger.         *)
(***************************************************************************)

Caps == PolicyLimits \cup {EnvLimit}
Prices == {FinalCost(c) : c \in Costs}

\* Limits come from the environment or the operator, prices from providers.
ValuesKnown ==
    /\ limit \in Caps
    /\ saved \in Caps
    /\ \A r \in Requests : pc[r] # "idle" => quote[r] \in Caps
    /\ \A r \in Requests : pc[r] = "settle" => spent[r] \in Prices

RefinementInv == BudgetInv /\ ValuesKnown

LEMMA ValuesStep ==
    ASSUME TypeOK, ValuesKnown, [Next]_vars
    PROVE  ValuesKnown'
<1> USE DEF ValuesKnown, TypeOK, Goto, table, policy, Caps
<1>1. ASSUME NEW r \in Requests, Arrive(r)
      PROVE  ValuesKnown'
  BY <1>1 DEF Arrive
<1>2. ASSUME NEW r \in Requests, CallReturns(r)
      PROVE  ValuesKnown'
  BY <1>2 DEF CallReturns, Prices
<1>3. ASSUME NEW r \in Requests,
             Lookup(r) \/ Insert(r) \/ Reserve(r) \/ Reread(r)
      PROVE  ValuesKnown'
  BY <1>3 DEF Lookup, Insert, Reserve, Reread, Admitted
<1>4. ASSUME NEW r \in Requests, CallFails(r) \/ Settle(r) \/ Audit(r)
      PROVE  ValuesKnown'
  BY <1>4 DEF CallFails, Settle, Audit, Adjust
<1>5. ASSUME NEW r \in Requests, Abort(r)
      PROVE  ValuesKnown'
  <2>1. pc[r] # "idle" /\ Lost(pc[r]) # "settle"
    BY <1>5 DEF Abort, Lost, InFlight
  <2>2. QED
    BY <1>5, <2>1 DEF Abort
<1>6. ASSUME NEW v \in PolicyLimits, UpdateLimit(v)
      PROVE  ValuesKnown'
  BY <1>6 DEF UpdateLimit
<1>7. CASE Restart
  <2>1. limit' \in Caps /\ saved' = saved /\ quote' = quote
    BY <1>7 DEF Restart
  <2>2. ASSUME NEW r \in Requests
        PROVE  pc'[r] # "settle" /\ (pc'[r] # "idle" => pc[r] # "idle")
    <3>1. pc'[r] = Lost(pc[r])
      BY <1>7 DEF Restart
    <3>2. PICK l \in {"idle"} \cup InFlight \cup Final : l = pc[r]
      BY DEF TypeOK
    <3>3. Lost(l) \in {"idle"} \cup Final /\ (l = "idle" => Lost(l) = "idle")
      BY LostPlace, Zenon
    <3>4. QED
      BY <3>1, <3>2, <3>3 DEF Final
  <2>3. QED
    BY <2>1, <2>2
<1>8. CASE UNCHANGED vars
  BY <1>8 DEF vars
<1>9. QED
  BY <1>1, <1>2, <1>3, <1>4, <1>5, <1>6, <1>7, <1>8 DEF Next, Serve

LEMMA RefinementInvariant == Spec => []RefinementInv
<1>1. Init => RefinementInv
  BY BudgetInit DEF RefinementInv, ValuesKnown, Init, Caps
<1>2. RefinementInv /\ [Next]_vars => RefinementInv'
  BY BudgetStep, ValuesStep DEF RefinementInv, BudgetInv
<1>3. QED
  BY <1>1, <1>2, PTL DEF Spec

-----------------------------------------------------------------------------
(* The mapping *)

settledMap == [s \in Sessions |-> cost[s] - Estimate * Cardinality(Holders(s))]
statusMap == [r \in Requests |-> LedgerStatus(pc[r])]

\* The instance brings its own copy of the FiniteSets definitions.
LEMMA SameCardinality ==
    ASSUME NEW S
    PROVE  Ledger!Cardinality(S) = Cardinality(S)
BY DEF Ledger!Cardinality, Cardinality

\* Seen through the mapping, the balance of an account is the stored cost.
LEMMA LedgerBalance ==
    ASSUME KillSwitch, TypeOK, NEW s \in Sessions
    PROVE  /\ Ledger!HoldersOf(s) = Holders(s)
           /\ Ledger!Balance(s) = cost[s]
<1>1. Ledger!HoldersOf(s) = Holders(s)
  BY DEF Ledger!HoldersOf, Holders, On, LedgerStatus
<1>2. Estimate * Cardinality(Holders(s)) \in Nat
  BY HoldersFinite, OneMore
<1>3. cost[s] \in Nat
  BY DEF TypeOK
<1>4. Ledger!Cardinality(Ledger!HoldersOf(s)) = Cardinality(Holders(s))
  BY <1>1, SameCardinality
<1>5. QED
  BY <1>1, <1>2, <1>3, <1>4 DEF Ledger!Balance

LEMMA StatusOf ==
    ASSUME NEW l
    PROVE  /\ LedgerStatus(l) = "holding" <=> l \in {"call", "settle", "stranded"}
           /\ LedgerStatus(l) = "charged" <=> l \in {"audit", "done", "unaudited"}
           /\ LedgerStatus(l) = "refused" <=> l = "refused"
           /\ LedgerStatus(l) \in {"holding", "charged", "refused", "none"}
BY DEF LedgerStatus

LEMMA SameStatus ==
    ASSUME NEW l, NEW m, LedgerStatus(l) = LedgerStatus(m)
    PROVE  l \in {"call", "settle", "stranded"} <=> m \in {"call", "settle", "stranded"}
<1>1. LedgerStatus(l) = "holding" <=> LedgerStatus(m) = "holding"
  OBVIOUS
<1>2. LedgerStatus(l) = "holding" <=> l \in {"call", "settle", "stranded"}
  BY StatusOf
<1>3. LedgerStatus(m) = "holding" <=> m \in {"call", "settle", "stranded"}
  BY StatusOf
<1>4. QED
  BY <1>1, <1>2, <1>3

LEMMA LedgerInit ==
    ASSUME Init
    PROVE  Ledger!Init
<1>1. \A s \in Sessions : Holders(s) = {}
  BY DEF Init, Holders, On
<1>2. settledMap = [s \in Sessions |-> 0]
  <2>1. ASSUME NEW s \in Sessions
        PROVE  cost[s] - Estimate * Cardinality(Holders(s)) = 0
    <3>1. Cardinality(Holders(s)) = 0
      BY <1>1, FS_EmptySet
    <3>2. QED
      BY <3>1, BudgetAssumption DEF Init
  <2>2. QED
    BY <2>1 DEF settledMap
<1>3. statusMap = [r \in Requests |-> "none"]
  BY DEF Init, statusMap, LedgerStatus
<1>4. QED
  BY <1>2, <1>3 DEF Init, Ledger!Init, settledMap, statusMap

\* A step that changes neither the table nor what a request's status maps to
\* is a stutter of the ledger.
LEMMA LedgerStutter ==
    ASSUME TypeOK, UNCHANGED <<table, sid>>,
           \A r \in Requests : LedgerStatus(pc'[r]) = LedgerStatus(pc[r])
    PROVE  UNCHANGED Ledger!vars
<1>1. \A r \in Requests : pc'[r] \in {"call", "settle", "stranded"}
                            <=> pc[r] \in {"call", "settle", "stranded"}
  BY SameStatus
<1>2. \A s \in Sessions : Holders(s)' = Holders(s)
  BY <1>1, SameHolders
<1>3. settledMap' = settledMap
  BY <1>2 DEF settledMap, table
<1>4. statusMap' = statusMap
  BY DEF statusMap
<1>5. QED
  BY <1>3, <1>4 DEF Ledger!vars, settledMap, statusMap, table

\* Only the statement that really inserts the row opens an account.
LEMMA LedgerInsert ==
    ASSUME RefinementInv, TypeOK', KillSwitch, NEW r \in Requests, Insert(r)
    PROVE  Ledger!Next \/ UNCHANGED Ledger!vars
<1> USE DEF RefinementInv, BudgetInv, TypeOK, Goto
<1> PICK s \in Sessions : s = sid[r]
  OBVIOUS
<1>1. \A q \in Requests : LedgerStatus(pc'[q]) = LedgerStatus(pc[q])
  BY DEF Insert, LedgerStatus, Admitted
<1>2. CASE s \in rows
  <2>1. UNCHANGED <<table, sid>>
    BY <1>2 DEF Insert, policy
  <2>2. QED
    BY <1>1, <2>1, LedgerStutter
<1>3. CASE s \notin rows
  <2>1. /\ rows' = rows \cup {s}
        /\ max' = [max EXCEPT ![s] = quote[r]]
        /\ cost' = cost /\ sid' = sid
    BY <1>3 DEF Insert, policy, NoRowNoCost
  <2>2. \A q \in Requests : pc'[q] \in {"call", "settle", "stranded"}
                              <=> pc[q] \in {"call", "settle", "stranded"}
    BY <1>1, SameStatus
  <2>3. \A q \in Sessions : Holders(q)' = Holders(q)
    BY <2>1, <2>2, SameHolders
  <2>4. settledMap' = settledMap
    BY <2>1, <2>3 DEF settledMap
  <2>5. statusMap' = statusMap
    BY <1>1 DEF statusMap
  <2>6. quote[r] \in Caps
    BY DEF Insert, ValuesKnown
  <2>7. Ledger!Open(s)
    BY <1>3, <2>1, <2>4, <2>5, <2>6 DEF Ledger!Open, settledMap, statusMap, Caps
  <2>8. QED
    BY <2>7 DEF Ledger!Next
<1>4. QED
  BY <1>2, <1>3

LEMMA LedgerReserve ==
    ASSUME RefinementInv, TypeOK', KillSwitch, NEW r \in Requests, Reserve(r)
    PROVE  Ledger!Next \/ UNCHANGED Ledger!vars
<1> USE DEF RefinementInv, BudgetInv, TypeOK, Goto
<1> PICK s \in Sessions : s = sid[r]
  OBVIOUS
<1>1. CASE ~Room(s)
  <2>1. UNCHANGED <<table, sid>>
    BY <1>1 DEF Reserve, policy, table
  <2>2. \A q \in Requests : LedgerStatus(pc'[q]) = LedgerStatus(pc[q])
    BY <1>1 DEF Reserve, LedgerStatus
  <2>3. QED
    BY <2>1, <2>2, LedgerStutter
<1>2. CASE Room(s)
  <2>1. /\ pc[r] = "reserve"
        /\ cost' = [cost EXCEPT ![s] = @ + Estimate]
        /\ pc' = [pc EXCEPT ![r] = "call"]
        /\ UNCHANGED <<rows, max, sid>>
    BY <1>2 DEF Reserve, policy
  <2>2. /\ Cardinality(Holders(s))' = Cardinality(Holders(s)) + 1
        /\ \A q \in Sessions \ {s} : Holders(q)' = Holders(q)
    BY <2>1, HolderAdded
  <2>3. settledMap' = settledMap
    <3>1. Estimate * Cardinality(Holders(s))' = Estimate * Cardinality(Holders(s)) + Estimate
      BY <2>2, HoldersFinite, OneMore
    <3>2. Estimate * Cardinality(Holders(s)) \in Nat
      BY HoldersFinite, OneMore
    <3>3. cost'[s] - Estimate * Cardinality(Holders(s))'
            = cost[s] - Estimate * Cardinality(Holders(s))
      BY <2>1, <3>1, <3>2, BudgetAssumption
    <3>4. ASSUME NEW q \in Sessions \ {s}
          PROVE  cost'[q] - Estimate * Cardinality(Holders(q))'
                   = cost[q] - Estimate * Cardinality(Holders(q))
      BY <2>1, <2>2
    <3>5. QED
      BY <3>3, <3>4 DEF settledMap
  <2>4. statusMap' = [statusMap EXCEPT ![r] = "holding"] /\ statusMap[r] = "none"
    BY <2>1 DEF statusMap, LedgerStatus
  <2>5. Ledger!Balance(s) + Estimate <= max[s] /\ s \in rows
    BY <1>2, <2>1, LedgerBalance DEF Room, RowExists
  <2>6. Ledger!Hold(r)
    BY <2>1, <2>3, <2>4, <2>5 DEF Ledger!Hold, settledMap, statusMap
  <2>7. QED
    BY <2>6 DEF Ledger!Next
<1>3. QED
  BY <1>1, <1>2

LEMMA LedgerReread ==
    ASSUME RefinementInv, TypeOK', KillSwitch, NEW r \in Requests, Reread(r)
    PROVE  Ledger!Next \/ UNCHANGED Ledger!vars
<1> USE DEF RefinementInv, BudgetInv, TypeOK, Goto
<1> PICK s \in Sessions : s = sid[r]
  OBVIOUS
<1>0. UNCHANGED <<table, sid>> /\ pc[r] = "reread"
  BY DEF Reread
<1>1. CASE Room(s)
  <2>1. \A q \in Requests : LedgerStatus(pc'[q]) = LedgerStatus(pc[q])
    BY <1>1 DEF Reread, LedgerStatus
  <2>2. QED
    BY <1>0, <2>1, LedgerStutter
<1>2. CASE ~Room(s)
  <2>1. pc' = [pc EXCEPT ![r] = "refused"]
    BY <1>2 DEF Reread
  <2>2. \A q \in Sessions : Holders(q)' = Holders(q)
    BY <1>0, <2>1, SameHolders
  <2>3. settledMap' = settledMap
    BY <1>0, <2>2 DEF settledMap, table
  <2>4. statusMap' = [statusMap EXCEPT ![r] = "refused"] /\ statusMap[r] = "none"
    BY <1>0, <2>1 DEF statusMap, LedgerStatus
  <2>5. Ledger!Balance(s) + Estimate > max[s] /\ s \in rows
    BY <1>0, <1>2, LedgerBalance, BudgetAssumption DEF Room, RowExists
  <2>6. Ledger!Refuse(r)
    BY <1>0, <2>3, <2>4, <2>5 DEF Ledger!Refuse, settledMap, statusMap, table
  <2>7. QED
    BY <2>6 DEF Ledger!Next
<1>3. QED
  BY <1>1, <1>2

\* A settlement charges the price, or the whole reservation when the two
\* differ by less than Epsilon.
LEMMA LedgerSettle ==
    ASSUME RefinementInv, TypeOK', KillSwitch, NEW r \in Requests, Settle(r)
    PROVE  Ledger!Next \/ UNCHANGED Ledger!vars
<1> USE DEF RefinementInv, BudgetInv, TypeOK, Goto
<1> PICK s \in Sessions : s = sid[r]
  OBVIOUS
<1> PICK diff \in Int : diff = spent[r] - Estimate
  BY BudgetAssumption
<1>0. /\ pc[r] = "settle"
      /\ UNCHANGED <<rows, max, sid>>
      /\ Adjust(r)
  BY DEF Settle
<1>a. cost[s] \in Nat /\ spent[r] \in Nat /\ Estimate \in Nat /\ max[s] \in Int
      /\ Epsilon \in Nat /\ Epsilon > 0
  BY BudgetAssumption
<1>1. CASE pc' = [pc EXCEPT ![r] = "stranded"]
  <2>1. UNCHANGED <<table, sid>>
    BY <1>0, <1>1 DEF Adjust, table
  <2>2. \A q \in Requests : LedgerStatus(pc'[q]) = LedgerStatus(pc[q])
    BY <1>0, <1>1 DEF LedgerStatus
  <2>3. QED
    BY <2>1, <2>2, LedgerStutter
<1>2. CASE pc' = [pc EXCEPT ![r] = "audit"]
  <2>1. /\ Cardinality(Holders(s)) = Cardinality(Holders(s))' + 1
        /\ Cardinality(Holders(s))' \in Nat
        /\ \A q \in Sessions \ {s} : Holders(q)' = Holders(q)
    BY <1>0, <1>2, HolderRemoved
  <2> PICK rest \in Nat : rest = Estimate * Cardinality(Holders(s))'
    BY <2>1, OneMore
  <2>2. Estimate * Cardinality(Holders(s)) = rest + Estimate
    BY <2>1, OneMore
  <2>3. cost[s] >= rest + Estimate
    BY <2>2 DEF HeldCovered
  <2> PICK a \in Prices \cup {Estimate} :
         a = IF diff < Epsilon /\ -diff < Epsilon THEN Estimate ELSE spent[r]
    BY <1>0 DEF ValuesKnown
  <2>4. /\ a \in Nat
        /\ cost' = [cost EXCEPT ![s] = @ + (a - Estimate)]
        /\ a > Estimate => cost[s] + (a - Estimate) <= max[s]
    <3>1. CASE diff < Epsilon /\ -diff < Epsilon
      <4>1. cost' = cost
        BY <1>0, <1>2, <1>a, <3>1 DEF Adjust
      <4>2. cost' = [cost EXCEPT ![s] = @ + (Estimate - Estimate)]
        BY <1>a, <4>1
      <4>3. QED
        BY <1>a, <3>1, <4>2
    <3>2. CASE ~(diff < Epsilon /\ -diff < Epsilon)
      <4>1. a = spent[r]
        BY <3>2
      <4>2. cost[s] + diff >= 0
        BY <1>a, <2>3
      <4>3. /\ cost' = [cost EXCEPT ![s] = @ + diff]
            /\ diff >= Epsilon => cost[s] + diff <= max[s]
        BY <1>0, <1>2, <1>a, <3>2, <4>2 DEF Adjust
      <4>4. diff > 0 => diff >= Epsilon
        BY <1>a, <3>2
      <4>5. a - Estimate = diff
        BY <4>1
      <4>6. a \in Nat
        BY <1>a, <4>1
      <4>7. cost' = [cost EXCEPT ![s] = @ + (a - Estimate)]
        BY <4>3, <4>5
      <4>8. a > Estimate => cost[s] + (a - Estimate) <= max[s]
        BY <1>a, <4>3, <4>4, <4>5, <4>6
      <4>9. QED
        BY <4>1, <4>6, <4>7, <4>8
    <3>3. QED
      BY <3>1, <3>2
  <2>5. settledMap' = [settledMap EXCEPT ![s] = @ + a]
    <3>1. cost'[s] - Estimate * Cardinality(Holders(s))'
            = (cost[s] - Estimate * Cardinality(Holders(s))) + a
      BY <1>a, <2>2, <2>4
    <3>2. ASSUME NEW q \in Sessions \ {s}
          PROVE  cost'[q] - Estimate * Cardinality(Holders(q))'
                   = cost[q] - Estimate * Cardinality(Holders(q))
      BY <2>1, <2>4
    <3>3. QED
      BY <3>1, <3>2 DEF settledMap
  <2>6. statusMap' = [statusMap EXCEPT ![r] = "charged"] /\ statusMap[r] = "holding"
    BY <1>0, <1>2 DEF statusMap, LedgerStatus
  <2>7. a > Estimate => Ledger!Balance(s) + (a - Estimate) <= max[s]
    BY <2>4, LedgerBalance
  <2>8. Ledger!Charge(r, a)
    BY <1>0, <2>5, <2>6, <2>7 DEF Ledger!Charge, settledMap, statusMap
  <2>9. QED
    BY <2>8 DEF Ledger!Next, Prices
<1>3. QED
  BY <1>0, <1>1, <1>2 DEF Adjust

LEMMA LedgerStep ==
    ASSUME RefinementInv, KillSwitch, [Next]_vars
    PROVE  Ledger!Next \/ UNCHANGED Ledger!vars
<1> USE DEF Goto
<1>0. TypeOK /\ TypeOK'
  BY TypeStep DEF RefinementInv, BudgetInv
<1>1. ASSUME NEW r \in Requests, Insert(r)
      PROVE  Ledger!Next \/ UNCHANGED Ledger!vars
  BY <1>0, <1>1, LedgerInsert
<1>2. ASSUME NEW r \in Requests, Reserve(r)
      PROVE  Ledger!Next \/ UNCHANGED Ledger!vars
  BY <1>0, <1>2, LedgerReserve
<1>3. ASSUME NEW r \in Requests, Reread(r)
      PROVE  Ledger!Next \/ UNCHANGED Ledger!vars
  BY <1>0, <1>3, LedgerReread
<1>4. ASSUME NEW r \in Requests, Settle(r)
      PROVE  Ledger!Next \/ UNCHANGED Ledger!vars
  BY <1>0, <1>4, LedgerSettle
<1>5. ASSUME NEW r \in Requests,
             Arrive(r) \/ Lookup(r) \/ CallReturns(r) \/ CallFails(r) \/ Audit(r)
      PROVE  UNCHANGED Ledger!vars
  <2>1. UNCHANGED <<table, sid>>
    BY <1>5 DEF Arrive, Lookup, CallReturns, CallFails, Audit
  <2>2. ASSUME NEW q \in Requests
        PROVE  LedgerStatus(pc'[q]) = LedgerStatus(pc[q])
    BY <1>0, <1>5
       DEF Arrive, Lookup, CallReturns, CallFails, Audit, Admitted, LedgerStatus, TypeOK
  <2>3. QED
    BY <1>0, <2>1, <2>2, LedgerStutter
<1>6. ASSUME \/ Restart
             \/ \E r \in Requests : Abort(r)
      PROVE  UNCHANGED Ledger!vars
  <2>1. UNCHANGED <<table, sid>>
    BY <1>6 DEF Abort, Restart
  <2>2. ASSUME NEW q \in Requests
        PROVE  LedgerStatus(pc'[q]) = LedgerStatus(pc[q])
    <3>1. pc'[q] = pc[q] \/ pc'[q] = Lost(pc[q])
      BY <1>0, <1>6 DEF Abort, Restart, TypeOK
    <3>2. pc[q] \in {"idle"} \cup InFlight \cup Final
      BY <1>0 DEF TypeOK
    <3>3. QED
      BY <3>1, <3>2 DEF LedgerStatus, Lost, InFlight, Final
  <2>3. QED
    BY <1>0, <2>1, <2>2, LedgerStutter
<1>7. ASSUME NEW v \in PolicyLimits, UpdateLimit(v)
      PROVE  UNCHANGED Ledger!vars
  BY <1>0, <1>7, LedgerStutter DEF UpdateLimit
<1>8. CASE UNCHANGED vars
  BY <1>0, <1>8, LedgerStutter DEF vars, table
<1>9. QED
  BY <1>1, <1>2, <1>3, <1>4, <1>5, <1>6, <1>7, <1>8 DEF Next, Serve

\* The concurrent implementation and the ledger cannot be told apart: every
\* hold, refusal and charge takes effect at one moment, at which its
\* condition is true.
THEOREM ImplementsLedger == KillSwitch => (Spec => RefinesLedger)
<1> SUFFICES ASSUME KillSwitch
             PROVE  Spec => RefinesLedger
  OBVIOUS
<1>1. Init => Ledger!Init
  BY LedgerInit
<1>2. RefinementInv /\ [Next]_vars => [Ledger!Next]_(Ledger!vars)
  BY LedgerStep
<1>3. QED
  BY <1>1, <1>2, RefinementInvariant, PTL DEF Spec, RefinesLedger, Ledger!Spec

-----------------------------------------------------------------------------
(* Sums over finite sets *)

\* An induction over the subsets of a finite set: where there are counterexamples,
\* there is one without a smaller one.
LEMMA LeastSubset ==
    ASSUME NEW S, IsFiniteSet(S), NEW D \in SUBSET (SUBSET S), D # {}
    PROVE  \E T \in D : \A U \in SUBSET T : U # T => U \notin D
<1>1. FiniteSubsetsOf(S) = SUBSET S
  BY FS_FiniteSubsetsOfFinite
<1>2. IsWellFoundedOn(StrictSubsetOrdering(S), SUBSET S)
  BY <1>1, FS_StrictSubsetOrderingWellFounded
<1>3. PICK T \in D : \A U \in D : ~(<<U, T>> \in StrictSubsetOrdering(S))
  BY <1>2, WFMin
<1>4. ASSUME NEW U \in SUBSET T, U # T
      PROVE  U \notin D
  <2>1. <<U, T>> \in StrictSubsetOrdering(S)
    BY <1>4 DEF StrictSubsetOrdering
  <2>2. QED
    BY <1>3, <2>1
<1>5. QED
  BY <1>4

\* The element a sum over s takes out first.
First(s) == CHOOSE x \in s : TRUE

\* The sum over s, from the sums in g of smaller sets.
SumThrough(f, g, s) == IF s = {} THEN 0 ELSE f[First(s)] + g[s \ {First(s)}]

\* g is a table of the sums over all subsets of S.
IsTable(f, S, g) == g = [s \in SUBSET S |-> SumThrough(f, g, s)]

LEMMA SumFromTable ==
    ASSUME NEW f, NEW S
    PROVE  SumFunctionOnSet(f, S) = (CHOOSE g : IsTable(f, S, g))[S]
BY DEF SumFunctionOnSet, FoldFunctionOnSet, MapThenFoldSet, IsTable, SumThrough, First

LEMMA FirstProperties ==
    ASSUME NEW s, s # {}
    PROVE  First(s) \in s
BY DEF First

\* g is right about the sets of at most n elements.
IsTableTo(f, S, n, g) ==
    \A s \in SUBSET S : Cardinality(s) <= n => g[s] = SumThrough(f, g, s)

LEMMA TableGrows ==
    ASSUME NEW f, NEW S, IsFiniteSet(S), NEW n \in Nat, NEW g, IsTableTo(f, S, n, g)
    PROVE  IsTableTo(f, S, n + 1, [s \in SUBSET S |-> SumThrough(f, g, s)])
<1> DEFINE h == [s \in SUBSET S |-> SumThrough(f, g, s)]
<1>1. \A s \in SUBSET S : h[s] = SumThrough(f, g, s)
  OBVIOUS
<1> HIDE DEF h
<1>2. ASSUME NEW s \in SUBSET S, Cardinality(s) <= n + 1
      PROVE  h[s] = SumThrough(f, h, s)
  <2>1. CASE s = {}
    BY <1>1, <2>1 DEF SumThrough
  <2>2. CASE s # {}
    <3> DEFINE rest == s \ {First(s)}
    <3>1. First(s) \in s
      BY <2>2, FirstProperties
    <3>2. IsFiniteSet(s) /\ Cardinality(s) \in Nat
      BY FS_Subset, FS_CardinalityType
    <3>3. Cardinality(rest) = Cardinality(s) - 1
      BY <3>1, <3>2, FS_RemoveElement
    <3>4. rest \in SUBSET S /\ Cardinality(rest) <= n
      BY <1>2, <3>2, <3>3
    <3>5. g[rest] = h[rest]
      BY <1>1, <3>4 DEF IsTableTo
    <3>6. QED
      BY <1>1, <2>2, <3>5 DEF SumThrough
  <2>3. QED
    BY <2>1, <2>2
<1>3. IsTableTo(f, S, n + 1, h)
  BY <1>2 DEF IsTableTo
<1>4. QED
  BY <1>3 DEF h

LEMMA TableExists ==
    ASSUME NEW f, NEW S, IsFiniteSet(S)
    PROVE  \E g : IsTable(f, S, g)
<1> DEFINE D == {T \in SUBSET S : ~ \E g : IsTableTo(f, S, Cardinality(T), g)}
<1>1. D = {}
  <2> SUFFICES ASSUME D # {}
               PROVE  FALSE
    OBVIOUS
  <2>1. PICK T \in D : \A U \in SUBSET T : U # T => U \notin D
    <3>1. D \in SUBSET (SUBSET S)
      OBVIOUS
    <3> HIDE DEF D
    <3>2. QED
      BY <3>1, LeastSubset
  <2>2. IsFiniteSet(T) /\ Cardinality(T) \in Nat
    BY FS_Subset, FS_CardinalityType
  <2>3. CASE T = {}
    <3> DEFINE none == [s \in SUBSET S |-> 0]
    <3>1. ASSUME NEW s \in SUBSET S, Cardinality(s) <= Cardinality(T)
          PROVE  none[s] = SumThrough(f, none, s)
      <4>1. IsFiniteSet(s) /\ Cardinality(s) \in Nat /\ Cardinality(T) = 0
        BY <2>3, FS_Subset, FS_CardinalityType, FS_EmptySet
      <4>2. Cardinality(s) = 0
        BY <3>1, <4>1
      <4>3. s = {}
        BY <4>1, <4>2, FS_EmptySet
      <4>4. QED
        BY <4>3 DEF SumThrough
    <3>2. IsTableTo(f, S, Cardinality(T), none)
      BY <3>1 DEF IsTableTo
    <3>3. QED
      BY <3>2
  <2>4. CASE T # {}
    <3> PICK x \in T : TRUE
      BY <2>4
    <3>1. T \ {x} \in SUBSET S /\ T \ {x} \notin D
      BY <2>1
    <3>2. PICK g : IsTableTo(f, S, Cardinality(T \ {x}), g)
      BY <3>1
    <3>3. Cardinality(T \ {x}) = Cardinality(T) - 1
      BY <2>2, FS_RemoveElement
    <3>4. IsFiniteSet(T \ {x}) /\ Cardinality(T \ {x}) \in Nat
      BY <2>2, FS_Subset, FS_CardinalityType
    <3>5. Cardinality(T) = Cardinality(T \ {x}) + 1
      BY <2>2, <3>3
    <3>6. IsTableTo(f, S, Cardinality(T \ {x}) + 1, [s \in SUBSET S |-> SumThrough(f, g, s)])
      BY <3>2, <3>4, TableGrows
    <3>7. QED
      BY <3>5, <3>6
  <2>5. QED
    BY <2>3, <2>4
<1>2. PICK g : IsTableTo(f, S, Cardinality(S), g)
  BY <1>1
<1> DEFINE h == [s \in SUBSET S |-> SumThrough(f, g, s)]
<1>3. \A s \in SUBSET S : g[s] = SumThrough(f, g, s)
  <2>1. \A s \in SUBSET S : Cardinality(s) <= Cardinality(S)
    BY FS_Subset
  <2>2. QED
    BY <1>2, <2>1 DEF IsTableTo
<1>4. \A s \in SUBSET S : h[s] = g[s]
  BY <1>3
<1>5. \A s \in SUBSET S : SumThrough(f, g, s) = SumThrough(f, h, s)
  <2>1. TAKE s \in SUBSET S
  <2>2. s \ {First(s)} \in SUBSET S
    OBVIOUS
  <2>3. h[s \ {First(s)}] = g[s \ {First(s)}]
    BY <1>4, <2>2
  <2> HIDE DEF h
  <2>4. QED
    BY <2>3 DEF SumThrough
<1>6. h = [s \in SUBSET S |-> SumThrough(f, h, s)]
  <2>1. h = [s \in SUBSET S |-> SumThrough(f, g, s)]
    OBVIOUS
  <2> HIDE DEF h
  <2>2. [s \in SUBSET S |-> SumThrough(f, g, s)] = [s \in SUBSET S |-> SumThrough(f, h, s)]
    BY <1>5
  <2>3. QED
    BY <2>1, <2>2
<1> HIDE DEF h
<1>7. QED
  BY <1>6 DEF IsTable

\* Tables agree where they overlap.
LEMMA TablesAgree ==
    ASSUME NEW f, NEW S, IsFiniteSet(S), NEW R \in SUBSET S,
           NEW g, NEW h, IsTable(f, S, g), IsTable(f, R, h)
    PROVE  \A U \in SUBSET R : g[U] = h[U]
<1> DEFINE D == {U \in SUBSET R : g[U] # h[U]}
<1> SUFFICES ASSUME D # {}
             PROVE  FALSE
  OBVIOUS
<1>1. /\ \A U \in SUBSET S : g[U] = SumThrough(f, g, U)
      /\ \A U \in SUBSET R : h[U] = SumThrough(f, h, U)
  BY DEF IsTable
<1>2. PICK U \in D : \A V \in SUBSET U : V # U => V \notin D
  <2>1. D \in SUBSET (SUBSET S)
    OBVIOUS
  <2> HIDE DEF D
  <2>2. QED
    BY <2>1, LeastSubset
<1>3. U \in SUBSET R /\ U \in SUBSET S
  OBVIOUS
<1>4. CASE U = {}
  BY <1>1, <1>3, <1>4 DEF SumThrough
<1>5. CASE U # {}
  <2>1. First(U) \in U
    BY <1>5, FirstProperties
  <2>2. g[U \ {First(U)}] = h[U \ {First(U)}]
    BY <1>2, <1>3, <2>1
  <2>3. QED
    BY <1>1, <1>3, <1>5, <2>2 DEF SumThrough
<1>6. QED
  BY <1>4, <1>5

LEMMA SumOfNone ==
    ASSUME NEW f
    PROVE  SumFunctionOnSet(f, {}) = 0
<1> DEFINE g == CHOOSE g : IsTable(f, {}, g)
<1>1. IsFiniteSet({})
  BY FS_EmptySet
<1>2. IsTable(f, {}, g)
  BY <1>1, TableExists
<1>3. SumFunctionOnSet(f, {}) = g[{}]
  BY SumFromTable
<1> HIDE DEF g
<1>4. QED
  BY <1>2, <1>3 DEF IsTable, SumThrough

LEMMA SumTakesFirst ==
    ASSUME NEW f, NEW S, IsFiniteSet(S), S # {}
    PROVE  SumFunctionOnSet(f, S) = f[First(S)] + SumFunctionOnSet(f, S \ {First(S)})
<1> DEFINE g == CHOOSE g : IsTable(f, S, g)
           R == S \ {First(S)}
           h == CHOOSE h : IsTable(f, R, h)
<1>1. R \in SUBSET S /\ IsFiniteSet(R)
  BY FS_Subset
<1>2. SumFunctionOnSet(f, S) = g[S] /\ SumFunctionOnSet(f, R) = h[R]
  BY SumFromTable
<1>3. IsTable(f, S, g)
  BY TableExists
<1>4. IsTable(f, R, h)
  BY <1>1, TableExists
<1> HIDE DEF g, h
<1>5. g[R] = h[R]
  <2> HIDE DEF R
  <2>1. QED
    BY <1>1, <1>3, <1>4, TablesAgree
<1>6. g[S] = f[First(S)] + g[R]
  BY <1>3 DEF IsTable, SumThrough
<1>7. QED
  BY <1>2, <1>5, <1>6

LEMMA TimesOneMore ==
    ASSUME NEW n \in Nat, NEW b \in Nat
    PROVE  b * (n + 1) = b * n + b /\ b * n \in Nat
OBVIOUS

LEMMA SumType ==
    ASSUME NEW D, IsFiniteSet(D), NEW f \in [D -> Int], NEW S \in SUBSET D
    PROVE  SumFunctionOnSet(f, S) \in Int
<1> DEFINE Bad == {T \in SUBSET D : SumFunctionOnSet(f, T) \notin Int}
<1> SUFFICES ASSUME Bad # {}
             PROVE  FALSE
  OBVIOUS
<1>1. PICK T \in Bad : \A U \in SUBSET T : U # T => U \notin Bad
  <2>1. Bad \in SUBSET (SUBSET D)
    OBVIOUS
  <2> HIDE DEF Bad
  <2>2. QED
    BY <2>1, LeastSubset
<1>2. T \in SUBSET D /\ IsFiniteSet(T) /\ SumFunctionOnSet(f, T) \notin Int
  BY FS_Subset
<1>3. T # {}
  BY <1>2, SumOfNone
<1>4. First(T) \in T
  BY <1>3, FirstProperties
<1>5. T \ {First(T)} \in SUBSET T /\ T \ {First(T)} # T
  BY <1>4
<1>6. T \ {First(T)} \notin Bad /\ T \ {First(T)} \in SUBSET D
  BY <1>1, <1>5
<1>7. SumFunctionOnSet(f, T \ {First(T)}) \in Int
  BY <1>6
<1>8. f[First(T)] \in Int
  BY <1>2, <1>4
<1>9. SumFunctionOnSet(f, T) = f[First(T)] + SumFunctionOnSet(f, T \ {First(T)})
  BY <1>2, <1>3, SumTakesFirst
<1>10. QED
  BY <1>2, <1>7, <1>8, <1>9

\* The order in which elements are added does not matter.
LEMMA SumOfOneMore ==
    ASSUME NEW D, IsFiniteSet(D), NEW f \in [D -> Int], NEW S \in SUBSET D, NEW x \in D \ S
    PROVE  SumFunctionOnSet(f, S \cup {x}) = SumFunctionOnSet(f, S) + f[x]
<1> DEFINE Sum(T) == SumFunctionOnSet(f, T)
           Bad == {T \in SUBSET D : \E y \in D \ T : Sum(T \cup {y}) # Sum(T) + f[y]}
<1> SUFFICES ASSUME Bad # {}
             PROVE  FALSE
  OBVIOUS
<1>1. PICK T \in Bad : \A U \in SUBSET T : U # T => U \notin Bad
  <2>1. Bad \in SUBSET (SUBSET D)
    OBVIOUS
  <2> HIDE DEF Bad
  <2>2. QED
    BY <2>1, LeastSubset
<1>2. PICK y \in D \ T : Sum(T \cup {y}) # Sum(T) + f[y]
  OBVIOUS
<1> DEFINE more == T \cup {y}
           z == First(more)
<1>3. T \in SUBSET D /\ more \in SUBSET D /\ IsFiniteSet(more) /\ more # {}
  <2>1. T \in SUBSET D /\ more \in SUBSET D /\ more # {}
    OBVIOUS
  <2>2. QED
    BY <2>1, FS_Subset
<1>4. z \in more
  BY <1>3, FirstProperties
<1>5. Sum(more) = f[z] + Sum(more \ {z})
  BY <1>3, SumTakesFirst
<1>6. \A U \in SUBSET D : Sum(U) \in Int
  BY SumType
<1>7. CASE z = y
  <2>1. more \ {z} = T
    BY <1>7
  <2>2. f[y] \in Int /\ Sum(T) \in Int
    BY <1>3, <1>6
  <2> HIDE DEF Sum, Bad, more, z
  <2>3. Sum(more) = f[y] + Sum(T)
    BY <1>5, <1>7, <2>1
  <2>4. Sum(more) = Sum(T) + f[y]
    BY <2>2, <2>3
  <2>5. QED
    BY <1>2, <2>4 DEF more
<1>8. CASE z # y
  <2> DEFINE V == T \ {z}
  <2>1. z \in T /\ V \in SUBSET T /\ V # T /\ V \in SUBSET D
    BY <1>3, <1>4, <1>8
  <2>2. V \notin Bad
    BY <1>1, <2>1
  <2>3. \A w \in D \ V : Sum(V \cup {w}) = Sum(V) + f[w]
    BY <2>1, <2>2
  <2>4. y \in D \ V /\ z \in D \ V
    BY <1>2, <2>1
  <2>5. Sum(V \cup {y}) = Sum(V) + f[y] /\ Sum(V \cup {z}) = Sum(V) + f[z]
    BY <2>3, <2>4
  <2>6. V \cup {y} = more \ {z} /\ V \cup {z} = T
    BY <1>2, <1>8, <2>1
  <2>7. Sum(V) \in Int /\ f[y] \in Int /\ f[z] \in Int
    BY <1>6, <2>1, <2>4
  <2> HIDE DEF Sum, Bad, more, z, V
  <2>8. Sum(more) = f[z] + (Sum(V) + f[y]) /\ Sum(T) = Sum(V) + f[z]
    BY <1>5, <2>5, <2>6
  <2>9. Sum(more) = Sum(T) + f[y]
    BY <2>7, <2>8
  <2>10. QED
    BY <1>2, <2>9 DEF more
<1>9. QED
  BY <1>7, <1>8

\* What a sum over a subset is made of: nothing, or a smaller sum and an element.
LEMMA SumTakesOut ==
    ASSUME NEW D, IsFiniteSet(D), NEW f \in [D -> Int], NEW S \in SUBSET D, NEW x \in S
    PROVE  SumFunctionOnSet(f, S) = SumFunctionOnSet(f, S \ {x}) + f[x]
<1>1. S \ {x} \in SUBSET D /\ x \in D \ (S \ {x}) /\ (S \ {x}) \cup {x} = S
  OBVIOUS
<1>2. SumFunctionOnSet(f, (S \ {x}) \cup {x}) = SumFunctionOnSet(f, S \ {x}) + f[x]
  BY <1>1, SumOfOneMore
<1>3. QED
  BY <1>1, <1>2

LEMMA SumOfSame ==
    ASSUME NEW D, IsFiniteSet(D), NEW f \in [D -> Int], NEW g \in [D -> Int], NEW S \in SUBSET D,
           \A x \in S : f[x] = g[x]
    PROVE  SumFunctionOnSet(f, S) = SumFunctionOnSet(g, S)
<1> DEFINE Bad == {T \in SUBSET S : SumFunctionOnSet(f, T) # SumFunctionOnSet(g, T)}
<1> SUFFICES ASSUME Bad # {}
             PROVE  FALSE
  OBVIOUS
<1>1. PICK T \in Bad : \A U \in SUBSET T : U # T => U \notin Bad
  <2>1. Bad \in SUBSET (SUBSET S) /\ IsFiniteSet(S)
    BY FS_Subset
  <2> HIDE DEF Bad
  <2>2. QED
    BY <2>1, LeastSubset
<1>2. T # {} /\ T \in SUBSET D
  BY SumOfNone
<1> PICK x \in T : TRUE
  BY <1>2
<1>3. SumFunctionOnSet(f, T \ {x}) = SumFunctionOnSet(g, T \ {x})
  <2>1. T \ {x} \in SUBSET T /\ T \ {x} # T /\ T \ {x} \in SUBSET S
    OBVIOUS
  <2>2. T \ {x} \notin Bad
    BY <1>1, <2>1
  <2>3. QED
    BY <2>1, <2>2
<1>4. /\ SumFunctionOnSet(f, T) = SumFunctionOnSet(f, T \ {x}) + f[x]
      /\ SumFunctionOnSet(g, T) = SumFunctionOnSet(g, T \ {x}) + g[x]
  BY <1>2, SumTakesOut
<1>5. f[x] = g[x]
  OBVIOUS
<1>6. QED
  BY <1>3, <1>4, <1>5

\* The sum over two sets that have nothing in common.
LEMMA SumOfUnion ==
    ASSUME NEW D, IsFiniteSet(D), NEW f \in [D -> Int], NEW R \in SUBSET D, NEW S \in SUBSET D,
           R \cap S = {}
    PROVE  SumFunctionOnSet(f, R \cup S) = SumFunctionOnSet(f, R) + SumFunctionOnSet(f, S)
<1> DEFINE Sum(T) == SumFunctionOnSet(f, T)
           Bad == {T \in SUBSET S : Sum(R \cup T) # Sum(R) + Sum(T)}
<1> SUFFICES ASSUME Bad # {}
             PROVE  FALSE
  OBVIOUS
<1>1. PICK T \in Bad : \A U \in SUBSET T : U # T => U \notin Bad
  <2>1. Bad \in SUBSET (SUBSET S) /\ IsFiniteSet(S)
    BY FS_Subset
  <2> HIDE DEF Bad
  <2>2. QED
    BY <2>1, LeastSubset
<1>2. T \in SUBSET S /\ T \in SUBSET D /\ Sum(R \cup T) # Sum(R) + Sum(T)
  OBVIOUS
<1>3. \A U \in SUBSET D : Sum(U) \in Int
  BY SumType
<1>4. CASE T = {}
  <2>1. Sum(T) = 0 /\ Sum(R) \in Int
    BY <1>3, <1>4, SumOfNone
  <2>2. R \cup T = R
    BY <1>4
  <2>3. Sum(R \cup T) = Sum(R)
    BY <2>2
  <2> HIDE DEF Sum, Bad
  <2>4. QED
    BY <1>2, <2>1, <2>3
<1>5. CASE T # {}
  <2> PICK x \in T : TRUE
    BY <1>5
  <2> DEFINE V == T \ {x}
  <2>1. V \in SUBSET T /\ V # T /\ V \in SUBSET S /\ V \in SUBSET D /\ x \in D \ V
    BY <1>2
  <2>2. V \notin Bad
    BY <1>1, <2>1
  <2>3. Sum(R \cup V) = Sum(R) + Sum(V)
    BY <2>1, <2>2
  <2>4. R \cup V \in SUBSET D /\ x \in D \ (R \cup V) /\ (R \cup V) \cup {x} = R \cup T /\ V \cup {x} = T
    BY <1>2, <2>1
  <2>5. Sum((R \cup V) \cup {x}) = Sum(R \cup V) + f[x] /\ Sum(V \cup {x}) = Sum(V) + f[x]
    <3>1. Sum(V \cup {x}) = Sum(V) + f[x]
      BY <2>1, SumOfOneMore
    <3> DEFINE W == R \cup V
    <3>2. W \in SUBSET D /\ x \in D \ W
      BY <2>4
    <3> HIDE DEF W, V
    <3>3. Sum(W \cup {x}) = Sum(W) + f[x]
      BY <3>2, SumOfOneMore
    <3>4. QED
      BY <3>1, <3>3 DEF W
  <2>6. Sum(R) \in Int /\ Sum(V) \in Int /\ f[x] \in Int
    BY <1>3, <2>1
  <2> HIDE DEF Sum, Bad, V
  <2>7. Sum(R \cup T) = (Sum(R) + Sum(V)) + f[x] /\ Sum(T) = Sum(V) + f[x]
    BY <2>3, <2>4, <2>5
  <2>8. QED
    BY <1>2, <2>6, <2>7
<1>6. QED
  BY <1>4, <1>5

\* A sum of summands none of which exceeds a bound.
LEMMA SumBound ==
    ASSUME NEW D, IsFiniteSet(D), NEW f \in [D -> Int], NEW S \in SUBSET D, NEW b \in Nat,
           \A x \in S : f[x] <= b
    PROVE  SumFunctionOnSet(f, S) <= b * Cardinality(S)
<1> DEFINE Sum(T) == SumFunctionOnSet(f, T)
           Bad == {T \in SUBSET S : ~(Sum(T) <= b * Cardinality(T))}
<1> SUFFICES ASSUME Bad # {}
             PROVE  FALSE
  BY FS_Subset
<1>1. PICK T \in Bad : \A U \in SUBSET T : U # T => U \notin Bad
  <2>1. Bad \in SUBSET (SUBSET S) /\ IsFiniteSet(S)
    BY FS_Subset
  <2> HIDE DEF Bad
  <2>2. QED
    BY <2>1, LeastSubset
<1>2. T \in SUBSET S /\ T \in SUBSET D /\ ~(Sum(T) <= b * Cardinality(T))
  OBVIOUS
<1>3. IsFiniteSet(T) /\ Cardinality(T) \in Nat
  BY <1>2, FS_Subset, FS_CardinalityType
<1>4. CASE T = {}
  <2>1. Sum(T) = 0 /\ Cardinality(T) = 0
    BY <1>4, SumOfNone, FS_EmptySet
  <2> HIDE DEF Sum, Bad
  <2>2. QED
    BY <1>2, <2>1
<1>5. CASE T # {}
  <2> PICK x \in T : TRUE
    BY <1>5
  <2> DEFINE V == T \ {x}
  <2>1. V \in SUBSET T /\ V # T /\ V \in SUBSET S /\ V \in SUBSET D
    BY <1>2
  <2>2. V \notin Bad
    BY <1>1, <2>1
  <2>3. Sum(V) <= b * Cardinality(V)
    BY <2>1, <2>2
  <2>4. Sum(T) = Sum(V) + f[x]
    BY <1>2, SumTakesOut
  <2>5. Sum(V) \in Int /\ f[x] \in Int /\ f[x] <= b
    BY <1>2, <2>1, SumType
  <2>6. PICK n \in Nat : n = Cardinality(V)
    BY <1>3, FS_Subset, FS_CardinalityType
  <2>7. Cardinality(T) = n + 1
    <3>1. Cardinality(T \ {x}) = Cardinality(T) - 1
      BY <1>3, FS_RemoveElement
    <3>2. QED
      BY <1>3, <2>6, <3>1
  <2> HIDE DEF Sum, Bad, V
  <2>8. b * (n + 1) = b * n + b /\ b * n \in Nat
    BY TimesOneMore
  <2>9. QED
    BY <1>2, <2>3, <2>4, <2>5, <2>6, <2>7, <2>8
<1>6. QED
  BY <1>4, <1>5

LEMMA SumOfZeros ==
    ASSUME NEW D, IsFiniteSet(D), NEW f \in [D -> Int], NEW S \in SUBSET D,
           \A x \in S : f[x] = 0
    PROVE  SumFunctionOnSet(f, S) = 0
<1> DEFINE Bad == {T \in SUBSET S : SumFunctionOnSet(f, T) # 0}
<1> SUFFICES ASSUME Bad # {}
             PROVE  FALSE
  OBVIOUS
<1>1. PICK T \in Bad : \A U \in SUBSET T : U # T => U \notin Bad
  <2>1. Bad \in SUBSET (SUBSET S) /\ IsFiniteSet(S)
    BY FS_Subset
  <2> HIDE DEF Bad
  <2>2. QED
    BY <2>1, LeastSubset
<1>2. T # {} /\ T \in SUBSET D
  BY SumOfNone
<1> PICK x \in T : TRUE
  BY <1>2
<1>3. T \ {x} \in SUBSET T /\ T \ {x} # T /\ T \ {x} \in SUBSET S
  OBVIOUS
<1>4. T \ {x} \notin Bad
  BY <1>1, <1>3
<1>5. SumFunctionOnSet(f, T \ {x}) = 0 /\ f[x] = 0
  BY <1>3, <1>4
<1>6. SumFunctionOnSet(f, T) = SumFunctionOnSet(f, T \ {x}) + f[x]
  BY <1>2, SumTakesOut
<1>7. QED
  BY <1>5, <1>6

-----------------------------------------------------------------------------
(* The account of a session: what it is charged is what the providers charge. *)

\* Nobody has a price who has not been called, and without the kill switch nobody
\* reserves.
PricesFollowCalls ==
    \A r \in Requests :
        /\ spent[r] # 0 => pc[r] \in {"settle", "stranded", "audit", "done", "unaudited"}
        /\ ~KillSwitch => pc[r] \notin {"reserve", "reread"}

\* A difference that the settlement ignores is in the session's disfavour, as long as
\* no price exceeds the estimate: the cost covers what it stands for.
CostCoversSpend ==
    KillSwitch =>
        \A s \in Sessions :
            (\A r \in On(s) : spent[r] <= Estimate)
                => cost[s] >= Estimate * Cardinality(Holders(s)) + Spend(Booked(s))

\* A refund keeps the account only because HeldCovered, in BudgetInv, keeps the clamp
\* at zero from acting.
AccountInv == BudgetInv /\ PricesFollowCalls /\ CostIsAccounted /\ CostCoversSpend

LEMMA SpentType ==
    ASSUME TypeOK
    PROVE  /\ IsFiniteSet(Requests) /\ spent \in [Requests -> Int]
           /\ \A s \in Sessions :
                 /\ On(s) \in SUBSET Requests
                 /\ Holders(s) \in SUBSET Requests
                 /\ Booked(s) \in SUBSET Requests
                 /\ IsFiniteSet(Booked(s)) /\ Cardinality(Booked(s)) \in Nat
                 /\ Spend(Booked(s)) \in Int
<1>1. IsFiniteSet(Requests) /\ spent \in [Requests -> Int]
  BY BudgetAssumption DEF TypeOK
<1>2. ASSUME NEW s \in Sessions
      PROVE  /\ On(s) \in SUBSET Requests
             /\ Holders(s) \in SUBSET Requests
             /\ Booked(s) \in SUBSET Requests
             /\ IsFiniteSet(Booked(s)) /\ Cardinality(Booked(s)) \in Nat
             /\ Spend(Booked(s)) \in Int
  <2>1. /\ On(s) \in SUBSET Requests
        /\ Holders(s) \in SUBSET Requests
        /\ Booked(s) \in SUBSET Requests
    BY DEF On, Holders, Booked
  <2>2. IsFiniteSet(Booked(s))
    BY <1>1, <2>1, FS_Subset
  <2>3. Spend(Booked(s)) \in Int
    BY <1>1, <2>1, SumType DEF Spend
  <2>4. QED
    BY <2>1, <2>2, <2>3, FS_CardinalityType
<1>3. QED
  BY <1>1, <1>2

\* What a session's account says, in numbers.
LEMMA AccountMeans ==
    ASSUME NEW c \in Int, NEW h \in Int, NEW p \in Int, NEW n \in Nat
    PROVE  LET error == c - h - p
               drift == (Epsilon - 1) * n
           IN  (-drift <= error /\ error <= drift)
                 <=> /\ h + p - (Epsilon - 1) * n <= c
                     /\ c <= h + p + (Epsilon - 1) * n
<1>1. (Epsilon - 1) * n \in Int
  BY BudgetAssumption
<1>2. PICK d \in Int : d = (Epsilon - 1) * n
  BY <1>1
<1>3. QED
  BY <1>2

\* A step that moves no reservation, books no price and leaves the costs.
LEMMA AccountUntouched ==
    ASSUME TypeOK, TypeOK', PricesFollowCalls, CostIsAccounted, CostCoversSpend,
           UNCHANGED <<cost, sid>>,
           \A s \in Sessions : Holders(s)' = Holders(s) /\ Booked(s)' = Booked(s),
           \A r \in Requests :
              spent[r] # 0 \/ pc[r] \in {"audit", "done", "unaudited"} => spent'[r] = spent[r]
    PROVE  CostIsAccounted' /\ CostCoversSpend'
<1>1. ASSUME NEW s \in Sessions
      PROVE  Spend(Booked(s))' = Spend(Booked(s))
  <2>1. \A r \in Booked(s) : spent'[r] = spent[r]
    BY DEF Booked, On
  <2>2. Booked(s) \in SUBSET Requests /\ IsFiniteSet(Requests) /\ spent \in [Requests -> Int]
    BY SpentType
  <2>3. spent' \in [Requests -> Int]
    BY DEF TypeOK
  <2>4. SumFunctionOnSet(spent', Booked(s)) = SumFunctionOnSet(spent, Booked(s))
    BY <2>1, <2>2, <2>3, SumOfSame
  <2>5. Booked(s)' = Booked(s)
    OBVIOUS
  <2>6. QED
    BY <2>4, <2>5 DEF Spend
<1>2. ASSUME NEW s \in Sessions, \A r \in On(s)' : spent'[r] <= Estimate
      PROVE  \A r \in On(s) : spent[r] <= Estimate
  <2>1. On(s)' = On(s)
    BY DEF On
  <2>2. QED
    BY <1>2, <2>1, BudgetAssumption DEF On
<1>3. CostIsAccounted'
  BY <1>1 DEF CostIsAccounted
<1>4. CostCoversSpend'
  BY <1>1, <1>2 DEF CostCoversSpend
<1>5. QED
  BY <1>3, <1>4

\* A settlement books one price more.
LEMMA OneMoreBooked ==
    ASSUME TypeOK, UNCHANGED <<sid, spent>>, NEW r \in Requests, pc[r] = "settle",
           pc' = [pc EXCEPT ![r] = "audit"]
    PROVE  /\ Cardinality(Booked(sid[r]))' = Cardinality(Booked(sid[r])) + 1
           /\ Spend(Booked(sid[r]))' = Spend(Booked(sid[r])) + spent[r]
           /\ \A t \in Sessions \ {sid[r]} : Booked(t)' = Booked(t)
<1>1. pc'[r] = "audit" /\ \A q \in Requests \ {r} : pc'[q] = pc[q]
  BY DEF TypeOK
<1>2. /\ Booked(sid[r])' = Booked(sid[r]) \cup {r}
      /\ r \notin Booked(sid[r])
      /\ \A t \in Sessions \ {sid[r]} : Booked(t)' = Booked(t)
  BY <1>1 DEF Booked, On
<1>3. sid[r] \in Sessions
  BY DEF TypeOK
<1>4. /\ IsFiniteSet(Booked(sid[r])) /\ Booked(sid[r]) \in SUBSET Requests
      /\ IsFiniteSet(Requests) /\ spent \in [Requests -> Int]
  BY <1>3, SpentType
<1>5. Cardinality(Booked(sid[r]) \cup {r}) = Cardinality(Booked(sid[r])) + 1
  BY <1>2, <1>4, FS_AddElement
<1>6. r \in Requests \ Booked(sid[r])
  BY <1>2
<1>7. SumFunctionOnSet(spent, Booked(sid[r]) \cup {r}) = SumFunctionOnSet(spent, Booked(sid[r])) + spent[r]
  BY <1>4, <1>6, SumOfOneMore
<1>8. QED
  BY <1>2, <1>5, <1>7 DEF Spend

LEMMA PricesStep ==
    ASSUME TypeOK, PricesFollowCalls, [Next]_vars
    PROVE  PricesFollowCalls'
<1> USE DEF Goto, TypeOK
<1>1. ASSUME NEW r \in Requests, Arrive(r) \/ Lookup(r) \/ Insert(r) \/ Reserve(r) \/ Reread(r)
      PROVE  PricesFollowCalls'
  BY <1>1 DEF PricesFollowCalls, Arrive, Lookup, Insert, Reserve, Reread, Admitted
<1>2. ASSUME NEW r \in Requests, CallReturns(r) \/ CallFails(r) \/ Settle(r) \/ Audit(r)
      PROVE  PricesFollowCalls'
  BY <1>2 DEF PricesFollowCalls, CallReturns, CallFails, Settle, Adjust, Audit
<1>3. ASSUME NEW r \in Requests, pc'[r] \in {pc[r], Lost(pc[r])}, spent' = spent
      PROVE  /\ spent'[r] # 0 => pc'[r] \in {"settle", "stranded", "audit", "done", "unaudited"}
             /\ ~KillSwitch => pc'[r] \notin {"reserve", "reread"}
  BY <1>3 DEF PricesFollowCalls, Lost, InFlight, Final
<1>4. ASSUME NEW r \in Requests, Abort(r)
      PROVE  PricesFollowCalls'
  <2>1. spent' = spent /\ \A q \in Requests : pc'[q] \in {pc[q], Lost(pc[q])}
    BY <1>4 DEF Abort
  <2>2. QED
    BY <1>3, <2>1 DEF PricesFollowCalls
<1>5. CASE Restart
  <2>1. spent' = spent /\ \A q \in Requests : pc'[q] \in {pc[q], Lost(pc[q])}
    BY <1>5 DEF Restart
  <2>2. QED
    BY <1>3, <2>1 DEF PricesFollowCalls
<1>6. CASE UNCHANGED <<pc, spent>>
  BY <1>6 DEF PricesFollowCalls
<1>7. QED
  BY <1>1, <1>2, <1>4, <1>5, <1>6 DEF Next, Serve, UpdateLimit, vars

\* Prices are not negative, and neither are their sums.
LEMMA SpendNat ==
    ASSUME TypeOK, NEW s \in Sessions
    PROVE  Spend(On(s)) >= 0
<1> DEFINE Bad == {T \in SUBSET On(s) : ~(SumFunctionOnSet(spent, T) >= 0)}
<1> SUFFICES ASSUME Bad # {}
             PROVE  FALSE
  BY DEF Spend
<1>1. IsFiniteSet(Requests) /\ spent \in [Requests -> Int] /\ On(s) \in SUBSET Requests
  BY SpentType
<1>2. PICK T \in Bad : \A U \in SUBSET T : U # T => U \notin Bad
  <2>1. Bad \in SUBSET (SUBSET On(s)) /\ IsFiniteSet(On(s))
    BY <1>1, FS_Subset
  <2> HIDE DEF Bad
  <2>2. QED
    BY <2>1, LeastSubset
<1>3. T # {} /\ T \in SUBSET Requests
  BY <1>1, SumOfNone
<1> PICK x \in T : TRUE
  BY <1>3
<1>4. T \ {x} \in SUBSET T /\ T \ {x} # T /\ T \ {x} \in SUBSET On(s) /\ T \ {x} \in SUBSET Requests
  BY <1>3
<1>5. T \ {x} \notin Bad
  BY <1>2, <1>4
<1>6. SumFunctionOnSet(spent, T \ {x}) >= 0
  BY <1>4, <1>5
<1>7. SumFunctionOnSet(spent, T) = SumFunctionOnSet(spent, T \ {x}) + spent[x]
  BY <1>1, <1>3, SumTakesOut
<1>8. SumFunctionOnSet(spent, T \ {x}) \in Int /\ spent[x] \in Nat
  BY <1>1, <1>3, <1>4, SumType DEF TypeOK
<1>9. ~(SumFunctionOnSet(spent, T) >= 0)
  OBVIOUS
<1>10. QED
  BY <1>6, <1>7, <1>8, <1>9

\* The accounts of the other sessions are as they were.
LEMMA OtherAccounts ==
    ASSUME TypeOK, CostIsAccounted, CostCoversSpend, UNCHANGED <<sid, spent>>,
           NEW t \in Sessions, cost'[t] = cost[t],
           Holders(t)' = Holders(t), Booked(t)' = Booked(t)
    PROVE  /\ LET error == cost'[t] - Estimate * Cardinality(Holders(t))' - Spend(Booked(t))'
                  drift == (Epsilon - 1) * Cardinality(Booked(t))'
              IN  -drift <= error /\ error <= drift
           /\ KillSwitch /\ (\A r \in On(t)' : spent'[r] <= Estimate)
                => cost'[t] >= Estimate * Cardinality(Holders(t))' + Spend(Booked(t))'
<1>1. Spend(Booked(t))' = Spend(Booked(t))
  BY DEF Spend
<1>2. On(t)' = On(t)
  BY DEF On
<1>3. QED
  BY <1>1, <1>2 DEF CostIsAccounted, CostCoversSpend

LEMMA DriftGrows ==
    ASSUME NEW n \in Nat
    PROVE  /\ (Epsilon - 1) * n \in Nat
           /\ (Epsilon - 1) * (n + 1) = (Epsilon - 1) * n + (Epsilon - 1)
<1>1. PICK b \in Nat : b = Epsilon - 1
  BY BudgetAssumption
<1>2. b * (n + 1) = b * n + b /\ b * n \in Nat
  BY TimesOneMore
<1>3. QED
  BY <1>1, <1>2

LEMMA SettleAudited ==
    ASSUME AccountInv, NEW r \in Requests, Settle(r), pc' = [pc EXCEPT ![r] = "audit"], TypeOK'
    PROVE  CostIsAccounted' /\ CostCoversSpend'
<1> USE DEF AccountInv, BudgetInv
<1> PICK s \in Sessions : s = sid[r]
  BY DEF TypeOK
<1>1. TypeOK /\ pc[r] = "settle" /\ UNCHANGED <<sid, spent>>
  BY DEF Settle, policy
<1>2. /\ Cardinality(Booked(s))' = Cardinality(Booked(s)) + 1
      /\ Spend(Booked(s))' = Spend(Booked(s)) + spent[r]
      /\ \A t \in Sessions \ {s} : Booked(t)' = Booked(t)
  BY <1>1, OneMoreBooked
<1>3. \A t \in Sessions \ {s} : cost'[t] = cost[t] /\ Holders(t)' = Holders(t)
  <2>1. \A t \in Sessions \ {s} : cost'[t] = cost[t]
    BY <1>1 DEF TypeOK, Settle, Adjust
  <2>2. CASE KillSwitch
    <3>1. \A q \in Requests \ {r} : pc'[q] = pc[q]
      BY DEF TypeOK
    <3>2. pc'[r] = "audit"
      BY <1>1 DEF TypeOK
    <3>3. \A t \in Sessions \ {s} : Holders(t)' = Holders(t)
      BY <1>1, <2>2, <3>1, <3>2, HolderRemoved
    <3>4. QED
      BY <2>1, <3>3
  <2>3. CASE ~KillSwitch
    BY <2>1, <2>3 DEF Holders
  <2>4. QED
    BY <2>2, <2>3
<1> PICK c \in Nat, d \in Nat, p \in Int, n \in Nat, price \in Nat :
           /\ c = cost[s] /\ d = cost'[s] /\ p = Spend(Booked(s))
           /\ n = Cardinality(Booked(s)) /\ price = spent[r]
  <2>1. cost[s] \in Nat /\ cost'[s] \in Nat /\ spent[r] \in Nat
    BY <1>1 DEF TypeOK
  <2>2. Spend(Booked(s)) \in Int /\ Cardinality(Booked(s)) \in Nat
    BY <1>1, SpentType
  <2>3. QED
    BY <2>1, <2>2
<1>4. Estimate \in Nat /\ Epsilon \in Nat /\ (Epsilon - 1) * n \in Int
  BY BudgetAssumption
<1>5. /\ Estimate * Cardinality(Holders(s)) \in Nat
      /\ Estimate * Cardinality(Holders(s)) + p - (Epsilon - 1) * n <= c
      /\ c <= Estimate * Cardinality(Holders(s)) + p + (Epsilon - 1) * n
  <2>1. Estimate * Cardinality(Holders(s)) \in Nat
    BY <1>4, HoldersFinite
  <2>2. LET error == cost[s] - Estimate * Cardinality(Holders(s)) - Spend(Booked(s))
            drift == (Epsilon - 1) * Cardinality(Booked(s))
        IN  -drift <= error /\ error <= drift
    BY DEF CostIsAccounted
  <2> PICK h \in Int : h = Estimate * Cardinality(Holders(s))
    BY <2>1
  <2>3. LET error == c - h - p
            drift == (Epsilon - 1) * n
        IN  -drift <= error /\ error <= drift
    BY <2>2
  <2>4. h + p - (Epsilon - 1) * n <= c /\ c <= h + p + (Epsilon - 1) * n
    <3> PICK m \in Int : m = (Epsilon - 1) * n
      BY <1>4
    <3>1. -m <= c - h - p /\ c - h - p <= m
      BY <2>3
    <3>2. h + p - m <= c /\ c <= h + p + m
      BY <3>1
    <3>3. QED
      BY <3>2
  <2>5. QED
    BY <2>1, <2>4
\* What the settled request had reserved: with the kill switch the estimate.
<1>6. \E h \in Nat, k \in Int :
         /\ Cardinality(Holders(s))' = h
         /\ Estimate * Cardinality(Holders(s)) = Estimate * h + k
         /\ KillSwitch => k = Estimate
         /\ \/ d = c /\ price - k < Epsilon /\ -(price - k) < Epsilon
            \/ d = c + (price - k)
  <2>1. CASE KillSwitch
    <3>1. \A q \in Requests \ {r} : pc'[q] = pc[q]
      BY DEF TypeOK
    <3>2. pc'[r] = "audit"
      BY <1>1 DEF TypeOK
    <3>3. /\ Cardinality(Holders(s)) = Cardinality(Holders(s))' + 1
          /\ Cardinality(Holders(s))' \in Nat
      BY <1>1, <2>1, <3>1, <3>2, HolderRemoved
    <3> PICK h \in Nat : h = Cardinality(Holders(s))'
      BY <3>3
    <3>4. Estimate * Cardinality(Holders(s)) = Estimate * h + Estimate /\ Estimate * h \in Nat
      BY <3>3, OneMore
    <3>5. c >= Estimate
      BY <1>4, <3>4 DEF HeldCovered
    <3>6. \/ d = c /\ price - Estimate < Epsilon /\ -(price - Estimate) < Epsilon
          \/ d = c + (price - Estimate)
      <4>1. Adjust(r)
        BY <2>1 DEF Settle
      <4> PICK diff \in Int : diff = spent[r] - Estimate
        BY <1>4
      <4>2. ~(c + diff < 0)
        BY <1>4, <3>5
      <4>3. cost[s] = c
        OBVIOUS
      <4>4. \/ cost' = cost /\ diff < Epsilon /\ -diff < Epsilon
            \/ cost' = [cost EXCEPT ![s] = cost[s] + diff]
        BY <1>1, <3>2, <4>1, <4>2, <4>3 DEF Adjust, Goto, TypeOK
      <4>5. \/ d = c /\ diff < Epsilon /\ -diff < Epsilon
            \/ d = c + diff
        BY <1>1, <4>4 DEF TypeOK
      <4>6. QED
        BY <4>5
    <3>7. QED
      BY <1>4, <2>1, <3>4, <3>6
  <2>2. CASE ~KillSwitch
    <3>1. Holders(s) = {} /\ Holders(s)' = {}
      BY <2>2 DEF Holders
    <3>2. Cardinality(Holders(s)) = 0 /\ Cardinality(Holders(s))' = 0
      BY <3>1, FS_EmptySet
    <3>3. d = c + price
      BY <1>1, <2>2 DEF Settle, TypeOK
    <3>4. Estimate * 0 = 0 /\ price - 0 = price
      BY <1>4
    <3>5. QED
      BY <2>2, <3>2, <3>3, <3>4
  <2>3. QED
    BY <2>1, <2>2
<1> PICK h \in Nat, k \in Int :
         /\ Cardinality(Holders(s))' = h
         /\ Estimate * Cardinality(Holders(s)) = Estimate * h + k
         /\ KillSwitch => k = Estimate
         /\ \/ d = c /\ price - k < Epsilon /\ -(price - k) < Epsilon
            \/ d = c + (price - k)
  BY <1>6
<1> PICK e \in Nat : e = Estimate * h
  BY OneMore
<1>7. /\ e + (p + price) - (Epsilon - 1) * (n + 1) <= d
      /\ d <= e + (p + price) + (Epsilon - 1) * (n + 1)
      /\ price <= k /\ c >= e + k + p => d >= e + (p + price)
  <2>1. e + k + p - (Epsilon - 1) * n <= c /\ c <= e + k + p + (Epsilon - 1) * n
    BY <1>5
  <2>2. \/ d = c /\ price - k < Epsilon /\ -(price - k) < Epsilon
        \/ d = c + (price - k)
    OBVIOUS
  <2> PICK drift \in Nat : drift = (Epsilon - 1) * n
    BY DriftGrows
  <2>3. (Epsilon - 1) * (n + 1) = drift + (Epsilon - 1)
    BY DriftGrows
  <2>4. e + k + p - drift <= c /\ c <= e + k + p + drift
    BY <2>1
  <2>5. /\ e + (p + price) - (drift + (Epsilon - 1)) <= d
        /\ d <= e + (p + price) + (drift + (Epsilon - 1))
        /\ price <= k /\ c >= e + k + p => d >= e + (p + price)
    BY <2>2, <2>4, BudgetAssumption
  <2>6. QED
    BY <2>3, <2>5
<1>8. /\ Estimate * Cardinality(Holders(s))' = e
      /\ Spend(Booked(s))' = p + price
      /\ Cardinality(Booked(s))' = n + 1
  BY <1>2
<1>9. CostIsAccounted'
  <2>1. LET error == d - e - (p + price)
            drift == (Epsilon - 1) * (n + 1)
        IN  -drift <= error /\ error <= drift
    BY <1>7, AccountMeans
  <2>2. LET error == cost'[s] - Estimate * Cardinality(Holders(s))' - Spend(Booked(s))'
            drift == (Epsilon - 1) * Cardinality(Booked(s))'
        IN  -drift <= error /\ error <= drift
    BY <1>8, <2>1
  <2>3. \A t \in Sessions \ {s} :
           LET error == cost'[t] - Estimate * Cardinality(Holders(t))' - Spend(Booked(t))'
               drift == (Epsilon - 1) * Cardinality(Booked(t))'
           IN  -drift <= error /\ error <= drift
    BY <1>1, <1>2, <1>3, OtherAccounts
  <2>4. QED
    BY <2>2, <2>3 DEF CostIsAccounted
<1>10. CostCoversSpend'
  <2>1. ASSUME KillSwitch, \A q \in On(s)' : spent'[q] <= Estimate
        PROVE  cost'[s] >= Estimate * Cardinality(Holders(s))' + Spend(Booked(s))'
    <3>1. On(s)' = On(s) /\ spent' = spent
      BY <1>1 DEF On
    <3>2. r \in On(s) /\ price <= k
      BY <2>1, <3>1 DEF On
    <3>3. c >= Estimate * Cardinality(Holders(s)) + p
      BY <2>1, <3>1 DEF CostCoversSpend
    <3>4. c >= e + k + p
      BY <3>3
    <3>5. QED
      BY <1>7, <1>8, <3>2, <3>4
  <2>2. \A t \in Sessions \ {s} :
           KillSwitch /\ (\A q \in On(t)' : spent'[q] <= Estimate)
             => cost'[t] >= Estimate * Cardinality(Holders(t))' + Spend(Booked(t))'
    BY <1>1, <1>2, <1>3, OtherAccounts
  <2>3. QED
    BY <2>1, <2>2 DEF CostCoversSpend
<1>11. QED
  BY <1>9, <1>10

\* A reservation goes to the cost and to what is held at once.
LEMMA ReserveAccount ==
    ASSUME AccountInv, TypeOK', NEW r \in Requests, Reserve(r)
    PROVE  CostIsAccounted' /\ CostCoversSpend'
<1> USE DEF AccountInv, BudgetInv, Goto
<1> PICK s \in Sessions : s = sid[r]
  BY DEF TypeOK
<1>1. TypeOK /\ pc[r] = "reserve" /\ UNCHANGED <<sid, spent>> /\ KillSwitch
  BY BudgetAssumption DEF Reserve, policy, PricesFollowCalls
<1>2. \A t \in Sessions : Booked(t)' = Booked(t)
  <2>1. \A q \in Requests : pc'[q] \in {"audit", "done", "unaudited"}
                              <=> pc[q] \in {"audit", "done", "unaudited"}
    BY <1>1 DEF Reserve, TypeOK
  <2>2. QED
    BY <1>1, <2>1 DEF Booked, On
<1>3. CASE ~Room(s)
  <2>1. UNCHANGED cost /\ pc' = [pc EXCEPT ![r] = "reread"]
    BY <1>3 DEF Reserve
  <2>2. \A t \in Sessions : Holders(t)' = Holders(t)
    BY <1>1, <2>1 DEF Holders, On, TypeOK
  <2>3. \A q \in Requests :
           spent[q] # 0 \/ pc[q] \in {"audit", "done", "unaudited"} => spent'[q] = spent[q]
    BY <1>1
  <2>4. QED
    BY <1>1, <1>2, <2>1, <2>2, <2>3, AccountUntouched
<1>4. CASE Room(s)
  <2>1. cost' = [cost EXCEPT ![s] = @ + Estimate] /\ pc' = [pc EXCEPT ![r] = "call"]
    BY <1>4 DEF Reserve
  <2>2. pc'[r] = "call" /\ \A q \in Requests \ {r} : pc'[q] = pc[q]
    BY <2>1 DEF TypeOK
  <2>3. /\ Cardinality(Holders(s))' = Cardinality(Holders(s)) + 1
        /\ \A t \in Sessions \ {s} : Holders(t)' = Holders(t)
    BY <1>1, <2>2, HolderAdded
  <2>4. \A t \in Sessions \ {s} : cost'[t] = cost[t]
    BY <2>1 DEF TypeOK
  <2>5. /\ \A t \in Sessions \ {s} :
             LET error == cost'[t] - Estimate * Cardinality(Holders(t))' - Spend(Booked(t))'
                 drift == (Epsilon - 1) * Cardinality(Booked(t))'
             IN  -drift <= error /\ error <= drift
        /\ \A t \in Sessions \ {s} :
             KillSwitch /\ (\A q \in On(t)' : spent'[q] <= Estimate)
               => cost'[t] >= Estimate * Cardinality(Holders(t))' + Spend(Booked(t))'
    BY <1>1, <1>2, <2>3, <2>4, OtherAccounts
  <2>6. Estimate * Cardinality(Holders(s))' = Estimate * Cardinality(Holders(s)) + Estimate
    <3>1. PICK h \in Nat : h = Cardinality(Holders(s))
      BY HoldersFinite
    <3>2. Estimate * (h + 1) = Estimate * h + Estimate
      BY OneMore
    <3>3. QED
      BY <2>3, <3>1, <3>2
  <2>7. Spend(Booked(s))' = Spend(Booked(s)) /\ Cardinality(Booked(s))' = Cardinality(Booked(s))
    BY <1>1, <1>2 DEF Spend
  <2> PICK c \in Nat, e \in Nat, p \in Int :
         c = cost[s] /\ e = Estimate * Cardinality(Holders(s)) /\ p = Spend(Booked(s))
    <3>1. Estimate * Cardinality(Holders(s)) \in Nat
      BY HoldersFinite, OneMore
    <3>2. cost[s] \in Nat /\ Spend(Booked(s)) \in Int
      BY SpentType DEF TypeOK
    <3>3. QED
      BY <3>1, <3>2
  <2>8. cost'[s] = c + Estimate
    BY <2>1 DEF TypeOK
  <2>9. (c + Estimate) - (e + Estimate) - p = c - e - p
    BY BudgetAssumption
  <2>10. LET error == cost'[s] - Estimate * Cardinality(Holders(s))' - Spend(Booked(s))'
             drift == (Epsilon - 1) * Cardinality(Booked(s))'
         IN  -drift <= error /\ error <= drift
    <3>1. LET error == c - e - p
              drift == (Epsilon - 1) * Cardinality(Booked(s))
          IN  -drift <= error /\ error <= drift
      BY DEF CostIsAccounted
    <3>2. QED
      BY <2>6, <2>7, <2>8, <2>9, <3>1
  <2>11. KillSwitch /\ (\A q \in On(s)' : spent'[q] <= Estimate)
           => cost'[s] >= Estimate * Cardinality(Holders(s))' + Spend(Booked(s))'
    <3> SUFFICES ASSUME \A q \in On(s)' : spent'[q] <= Estimate
                 PROVE  c + Estimate >= (e + Estimate) + p
      BY <2>6, <2>7, <2>8
    <3>1. \A q \in On(s) : spent[q] <= Estimate
      BY <1>1 DEF On
    <3>2. c >= e + p
      BY <1>1, <3>1 DEF CostCoversSpend
    <3>3. QED
      BY <3>2, BudgetAssumption
  <2>12. QED
    BY <2>5, <2>10, <2>11 DEF CostIsAccounted, CostCoversSpend
<1>5. QED
  BY <1>3, <1>4

\* The steps that touch no account: nothing is deleted, and a new row costs nothing.
LEMMA OtherStepsAccount ==
    ASSUME AccountInv, [Next]_vars, TypeOK',
           \A r \in Requests : ~Reserve(r) /\ ~Settle(r)
    PROVE  CostIsAccounted' /\ CostCoversSpend'
<1> USE DEF AccountInv, BudgetInv, Goto, TypeOK
<1>1. UNCHANGED <<cost, sid>>
  <2>1. ASSUME NEW r \in Requests, Insert(r)
        PROVE  UNCHANGED <<cost, sid>>
    <3>1. UNCHANGED sid
      BY <2>1 DEF Insert
    <3>2. CASE sid[r] \in rows
      BY <2>1, <3>2 DEF Insert, table
    <3>3. CASE sid[r] \notin rows
      <4>1. cost[sid[r]] = 0 /\ cost' = [cost EXCEPT ![sid[r]] = 0]
        BY <2>1, <3>3 DEF Insert, NoRowNoCost
      <4>2. QED
        BY <3>1, <4>1
    <3>4. QED
      BY <3>2, <3>3, <3>1
  <2>2. ASSUME NEW r \in Requests,
               Arrive(r) \/ Lookup(r) \/ Reread(r) \/ CallReturns(r) \/ CallFails(r) \/ Audit(r) \/ Abort(r)
        PROVE  UNCHANGED <<cost, sid>>
    BY <2>2 DEF Arrive, Lookup, Reread, CallReturns, CallFails, Audit, Abort, table
  <2>3. CASE Restart \/ (\E v \in PolicyLimits : UpdateLimit(v)) \/ UNCHANGED vars
    BY <2>3 DEF Restart, UpdateLimit, vars, table
  <2>4. QED
    BY <2>1, <2>2, <2>3 DEF Next, Serve
<1>2. ASSUME NEW r \in Requests
      PROVE  /\ KillSwitch => (pc'[r] \in {"call", "settle", "stranded"}
                                 <=> pc[r] \in {"call", "settle", "stranded"})
             /\ pc'[r] \in {"audit", "done", "unaudited"} <=> pc[r] \in {"audit", "done", "unaudited"}
  <2>1. PICK l \in {"idle"} \cup InFlight \cup Final : l = pc[r]
    OBVIOUS
  <2>2. /\ Lost(l) \in {"call", "settle", "stranded"} <=> l \in {"call", "settle", "stranded"}
        /\ Lost(l) \in {"audit", "done", "unaudited"} <=> l \in {"audit", "done", "unaudited"}
    BY LostPlace, Zenon
  <2>3. CASE pc'[r] \in {pc[r], Lost(pc[r])}
    BY <2>1, <2>2, <2>3
  <2>4. ASSUME NEW q \in Requests,
               Arrive(q) \/ Lookup(q) \/ Insert(q) \/ Reread(q) \/ CallReturns(q) \/ CallFails(q) \/ Audit(q)
        PROVE  /\ KillSwitch => (pc'[r] \in {"call", "settle", "stranded"}
                                   <=> pc[r] \in {"call", "settle", "stranded"})
               /\ pc'[r] \in {"audit", "done", "unaudited"} <=> pc[r] \in {"audit", "done", "unaudited"}
    BY <2>4 DEF Arrive, Lookup, Insert, Reread, CallReturns, CallFails, Audit, Admitted
  <2>5. ASSUME NEW q \in Requests, Abort(q)
        PROVE  pc'[r] \in {pc[r], Lost(pc[r])}
    BY <2>5 DEF Abort
  <2>6. CASE Restart \/ (\E v \in PolicyLimits : UpdateLimit(v)) \/ UNCHANGED vars
    <3>1. pc'[r] \in {pc[r], Lost(pc[r])}
      BY <2>6 DEF Restart, UpdateLimit, vars
    <3>2. QED
      BY <2>3, <3>1
  <2>7. QED
    BY <2>3, <2>4, <2>5, <2>6 DEF Next, Serve
<1>3. ASSUME NEW s \in Sessions
      PROVE  Holders(s)' = Holders(s) /\ Booked(s)' = Booked(s)
  <2>1. \A r \in Requests : pc'[r] \in {"audit", "done", "unaudited"}
                              <=> pc[r] \in {"audit", "done", "unaudited"}
    BY <1>2
  <2>2. Booked(s)' = Booked(s)
    BY <1>1, <2>1 DEF Booked, On
  <2>3. Holders(s)' = Holders(s)
    <3>1. CASE KillSwitch
      <4>1. \A r \in Requests : pc'[r] \in {"call", "settle", "stranded"}
                                  <=> pc[r] \in {"call", "settle", "stranded"}
        BY <1>2, <3>1
      <4>2. QED
        BY <1>1, <4>1 DEF Holders, On
    <3>2. CASE ~KillSwitch
      BY <3>2 DEF Holders
    <3>3. QED
      BY <3>1, <3>2
  <2>4. QED
    BY <2>2, <2>3
<1>4. ASSUME NEW r \in Requests, spent[r] # 0 \/ pc[r] \in {"audit", "done", "unaudited"}
      PROVE  spent'[r] = spent[r]
  <2>1. ASSUME NEW q \in Requests, CallReturns(q)
        PROVE  spent'[r] = spent[r]
    <3>1. pc[q] = "call" /\ spent[q] = 0
      BY <2>1 DEF CallReturns, PricesFollowCalls
    <3>2. r # q
      BY <1>4, <3>1
    <3>3. QED
      BY <2>1, <3>2 DEF CallReturns
  <2>2. ASSUME NEW q \in Requests,
               Arrive(q) \/ Lookup(q) \/ Insert(q) \/ Reread(q) \/ CallFails(q) \/ Audit(q) \/ Abort(q)
        PROVE  spent'[r] = spent[r]
    BY <2>2 DEF Arrive, Lookup, Insert, Reread, CallFails, Audit, Abort
  <2>3. ASSUME Restart
        PROVE  spent'[r] = spent[r]
    BY <2>3 DEF Restart
  <2>4. ASSUME NEW v \in PolicyLimits, UpdateLimit(v)
        PROVE  spent'[r] = spent[r]
    BY <2>4 DEF UpdateLimit
  <2>5. ASSUME UNCHANGED vars
        PROVE  spent'[r] = spent[r]
    BY <2>5 DEF vars
  <2>6. QED
    BY <2>1, <2>2, <2>3, <2>4, <2>5 DEF Next, Serve
<1>5. TypeOK /\ TypeOK' /\ PricesFollowCalls /\ CostIsAccounted /\ CostCoversSpend
  OBVIOUS
<1> HIDE DEF AccountInv, BudgetInv, Goto, TypeOK
<1>6. QED
  BY <1>1, <1>3, <1>4, <1>5, AccountUntouched

LEMMA AccountStep == AccountInv /\ [Next]_vars => AccountInv'
<1> SUFFICES ASSUME AccountInv, [Next]_vars
             PROVE  AccountInv'
  OBVIOUS
<1>1. BudgetInv /\ BudgetInv' /\ TypeOK /\ TypeOK' /\ PricesFollowCalls /\ PricesFollowCalls'
  BY BudgetStep, PricesStep DEF AccountInv, BudgetInv
<1>2. ASSUME NEW r \in Requests, Settle(r)
      PROVE  CostIsAccounted' /\ CostCoversSpend'
  <2>1. \/ pc' = [pc EXCEPT ![r] = "audit"]
        \/ pc' = [pc EXCEPT ![r] = "stranded"] /\ KillSwitch /\ UNCHANGED cost
    <3>1. CASE KillSwitch /\ Adjust(r)
      BY <3>1 DEF Adjust, Goto
    <3>2. CASE ~KillSwitch
      BY <1>2, <3>2 DEF Settle, Goto
    <3>3. QED
      BY <1>2, <3>1, <3>2 DEF Settle
  <2>2. CASE pc' = [pc EXCEPT ![r] = "audit"]
    BY <1>1, <1>2, <2>2, SettleAudited
  <2>3. CASE pc' = [pc EXCEPT ![r] = "stranded"] /\ KillSwitch /\ UNCHANGED cost
    <3>1. pc[r] = "settle" /\ UNCHANGED <<cost, sid, spent>>
      BY <1>2, <2>3 DEF Settle
    <3>2. \A s \in Sessions : Holders(s)' = Holders(s) /\ Booked(s)' = Booked(s)
      BY <1>1, <2>3, <3>1 DEF Holders, Booked, On, TypeOK
    <3>3. \A q \in Requests :
             spent[q] # 0 \/ pc[q] \in {"audit", "done", "unaudited"} => spent'[q] = spent[q]
      BY <3>1
    <3>4. QED
      BY <1>1, <3>1, <3>2, <3>3, AccountUntouched DEF AccountInv
  <2>4. QED
    BY <2>1, <2>2, <2>3
<1>3. CostIsAccounted' /\ CostCoversSpend'
  BY <1>1, <1>2, ReserveAccount, OtherStepsAccount
<1>4. QED
  BY <1>1, <1>3 DEF AccountInv

LEMMA AccountInit == Init => AccountInv
<1> SUFFICES ASSUME Init
             PROVE  AccountInv
  OBVIOUS
<1>1. BudgetInv
  BY BudgetInit
<1>2. PricesFollowCalls
  BY DEF Init, PricesFollowCalls
<1>3. ASSUME NEW s \in Sessions
      PROVE  /\ cost[s] = 0 /\ Estimate * Cardinality(Holders(s)) = 0
             /\ Spend(Booked(s)) = 0 /\ (Epsilon - 1) * Cardinality(Booked(s)) = 0
  <2>1. Holders(s) = {} /\ Booked(s) = {}
    BY DEF Init, Holders, Booked, On
  <2>2. Cardinality(Holders(s)) = 0 /\ Cardinality(Booked(s)) = 0 /\ Spend(Booked(s)) = 0
    BY <2>1, FS_EmptySet, SumOfNone DEF Spend
  <2>3. Estimate * 0 = 0 /\ (Epsilon - 1) * 0 = 0
    BY BudgetAssumption
  <2>4. QED
    BY <2>2, <2>3 DEF Init
<1>4. CostIsAccounted
  BY <1>3 DEF CostIsAccounted
<1>5. CostCoversSpend
  BY <1>3 DEF CostCoversSpend
<1>6. QED
  BY <1>1, <1>2, <1>4, <1>5 DEF AccountInv

LEMMA AccountInvariant == Spec => []AccountInv
BY AccountInit, AccountStep, PTL DEF Spec

\* Whatever order reservations, settlements, failures and restarts come in, a session's
\* cost is what is held and what was charged, but for less than Epsilon per request
\* (storage/budget.go:12-60).
THEOREM CostAccounted == Spec => []CostIsAccounted
<1>1. AccountInv => CostIsAccounted
  BY DEF AccountInv
<1>2. QED
  BY <1>1, AccountInvariant, PTL

\* What the providers charged stays within the limit as long as no call costs more than
\* the estimate (router.go:136, :197, :213).
THEOREM SpendStaysWithinLimit == Spec => []SpendWithinLimit
<1>1. AccountInv => SpendWithinLimit
  <2> SUFFICES ASSUME AccountInv, KillSwitch, NEW s \in Sessions,
                      \A r \in On(s) : spent[r] <= Estimate
               PROVE  Spend(On(s)) = 0 \/ Spend(On(s)) <= max[s]
    BY DEF SpendWithinLimit
  <2> DEFINE Rest == On(s) \ (Holders(s) \cup Booked(s))
             Both == Holders(s) \cup Booked(s)
  <2>1. TypeOK /\ WithinLimit /\ PricesFollowCalls /\ CostCoversSpend
    BY DEF AccountInv, BudgetInv
  <2>2. /\ IsFiniteSet(Requests) /\ spent \in [Requests -> Int]
        /\ On(s) \in SUBSET Requests /\ Holders(s) \in SUBSET Requests /\ Booked(s) \in SUBSET Requests
    BY <2>1, SpentType
  <2>3. /\ Rest \in SUBSET Requests /\ Both \in SUBSET Requests
        /\ Both \cap Rest = {} /\ Holders(s) \cap Booked(s) = {}
        /\ On(s) = Both \cup Rest
    BY <2>2 DEF Holders, Booked
  <2>4. \A r \in Rest : spent[r] = 0
    <3>1. TAKE r \in Rest
    <3>2. r \in Requests /\ pc[r] \notin {"call", "settle", "stranded"}
                         /\ pc[r] \notin {"audit", "done", "unaudited"}
      BY DEF Holders, Booked, On
    <3>3. QED
      BY <2>1, <3>2 DEF PricesFollowCalls
  <2>5. \A r \in Holders(s) : spent[r] <= Estimate
    BY DEF Holders
  <2> HIDE DEF Rest, Both
  <2>6. SumFunctionOnSet(spent, Rest) = 0
    BY <2>2, <2>3, <2>4, SumOfZeros
  <2>7. SumFunctionOnSet(spent, Both \cup Rest)
          = SumFunctionOnSet(spent, Both) + SumFunctionOnSet(spent, Rest)
    BY <2>2, <2>3, SumOfUnion
  <2>8. SumFunctionOnSet(spent, Both)
          = SumFunctionOnSet(spent, Holders(s)) + SumFunctionOnSet(spent, Booked(s))
    BY <2>2, <2>3, SumOfUnion DEF Both
  <2>9. SumFunctionOnSet(spent, Holders(s)) <= Estimate * Cardinality(Holders(s))
    BY <2>2, <2>5, SumBound, BudgetAssumption
  <2>10. cost[s] >= Estimate * Cardinality(Holders(s)) + SumFunctionOnSet(spent, Booked(s))
    BY <2>1 DEF CostCoversSpend, Spend
  <2> PICK h \in Int, b \in Int, e \in Nat, c \in Nat, m \in Int, total \in Int :
        /\ h = SumFunctionOnSet(spent, Holders(s)) /\ b = SumFunctionOnSet(spent, Booked(s))
        /\ e = Estimate * Cardinality(Holders(s)) /\ c = cost[s] /\ m = max[s]
        /\ total = Spend(On(s))
    <3>1. /\ SumFunctionOnSet(spent, Holders(s)) \in Int /\ SumFunctionOnSet(spent, Booked(s)) \in Int
          /\ Spend(On(s)) \in Int
      BY <2>2, SumType DEF Spend
    <3>2. Estimate * Cardinality(Holders(s)) \in Nat
      BY HoldersFinite, OneMore
    <3>3. cost[s] \in Nat /\ max[s] \in Int
      BY <2>1 DEF TypeOK
    <3>4. QED
      BY <3>1, <3>2, <3>3
  <2>11. total = h + b
    BY <2>3, <2>6, <2>7, <2>8 DEF Spend
  <2>12. total <= c /\ (c = 0 \/ c <= m)
    BY <2>1, <2>9, <2>10, <2>11 DEF WithinLimit
  <2>13. total >= 0
    BY <2>1, SpendNat
  <2>14. QED
    BY <2>12, <2>13
<1>2. QED
  BY <1>1, AccountInvariant, PTL
=============================================================================
