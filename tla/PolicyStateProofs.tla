--------------------------- MODULE PolicyStateProofs ---------------------------
(***************************************************************************)
(* Proofs about PolicyState, for any number of requests of the operator,   *)
(* any limits, modes and session ids.                                      *)
(***************************************************************************)
EXTENDS PolicyState, FiniteSetTheorems, TLAPS

LEMMA RowOfOne ==
    ASSUME NEW S, NEW x \in S
    PROVE  {x} \in Row(S)
<1>1. Cardinality({x}) = 1
  BY FS_Singleton
<1>2. QED
  BY <1>1 DEF Row

LEMMA RowOfNone ==
    ASSUME NEW S
    PROVE  {} \in Row(S)
<1>1. Cardinality({}) = 0
  BY FS_EmptySet
<1>2. QED
  BY <1>1 DEF Row

\* A copy is read back as what was put into it.
LEMMA CopyReads ==
    ASSUME NEW x
    PROVE  (CHOOSE y \in {x} : TRUE) = x
OBVIOUS

LEMMA StoredType ==
    ASSUME TypeOK
    PROVE  StoredCost \in Costs /\ StoredDefaults \in Defaults
<1>1. policyRow \subseteq Costs /\ defaultsRow \subseteq Defaults
  BY DEF TypeOK, Row
<1>2. BaseCost \in Costs /\ BaseDefaults \in Defaults
  BY PolicyAssumption DEF BaseDefaults, Defaults
<1>3. StoredCost \in Costs
  BY <1>1, <1>2 DEF StoredCost
<1>4. StoredDefaults \in Defaults
  BY <1>1, <1>2 DEF StoredDefaults
<1>5. QED
  BY <1>3, <1>4

LEMMA InitType == Init => TypeOK
<1> SUFFICES ASSUME Init
             PROVE  TypeOK
  OBVIOUS
<1>1. BaseCost \in Costs /\ BaseDefaults \in Defaults
  BY PolicyAssumption DEF BaseDefaults, Defaults
<1>2. {} \in Row(Costs) /\ {} \in Row(Defaults)
  BY RowOfNone
<1>3. QED
  BY <1>1, <1>2 DEF Init, TypeOK, Places

LEMMA PolicyType ==
    ASSUME TypeOK, NEW h \in Handlers,
           ChangePolicy(h) \/ ChangeMode(h) \/ Apply(h) \/ ReadPolicy(h) \/ SavePolicy(h)
    PROVE  TypeOK'
<1> USE DEF TypeOK, Go, Places, rows, memory
<1>1. {} \in Row(Costs) /\ {maxCost} \in Row(Costs)
  BY RowOfOne, RowOfNone
<1>2. CASE ChangePolicy(h)
  BY <1>2 DEF ChangePolicy, Since
<1>3. CASE ChangeMode(h)
  <2>1. PICK mode \in Modes : ChangeDefaults([defaults EXCEPT !.judge = mode])
    BY <1>3 DEF ChangeMode
  <2>2. defaults' \in Defaults /\ defaults' \in was' /\ was' \subseteq Defaults
    BY <2>1 DEF ChangeDefaults, Defaults, Since
  <2>3. QED
    BY <1>1, <1>3, <2>2 DEF ChangeMode
<1>4. CASE Apply(h)
  <2>1. cost[h] \subseteq Costs /\ cost[h] # {}
    BY <1>4 DEF Apply, Row
  <2>2. (CHOOSE x \in cost[h] : TRUE) \in Costs
    BY <2>1
  <2>3. limit' \in Costs
    BY <1>4, <2>2 DEF Apply
  <2>4. QED
    BY <1>1, <1>4, <2>3 DEF Apply
<1>5. CASE ReadPolicy(h)
  BY <1>1, <1>5 DEF ReadPolicy
<1>6. CASE SavePolicy(h)
  <2>1. policyRow' \in Row(Costs)
    BY <1>6 DEF SavePolicy
  <2>2. cost' \in [Handlers -> Row(Costs)] /\ cost'[h] = {}
    BY <1>1, <1>6 DEF SavePolicy
  <2>3. \A g \in Handlers : g # h => cost'[g] = cost[g] /\ place'[g] = place[g]
    BY <1>6 DEF SavePolicy
  <2>4. place' \in [Handlers -> Places] /\ place[h] = "savePolicy" /\ place'[h] = "policySaved"
    BY <1>6 DEF SavePolicy
  <2>5. missed' \subseteq {"policy", "defaults"}
    BY <1>6 DEF SavePolicy
  <2>6. QED
    BY <1>6, <2>1, <2>2, <2>3, <2>4, <2>5 DEF SavePolicy
<1>7. QED
  BY <1>2, <1>3, <1>4, <1>5, <1>6

LEMMA DefaultsType ==
    ASSUME TypeOK, NEW h \in Handlers,
           ReadDefaults(h) \/ UpdateDefaults(h) \/ SaveDefaults(h)
    PROVE  TypeOK'
<1> USE DEF TypeOK, Go, Places, rows, memory
<1>1. {} \in Row(Defaults) /\ \A d \in Defaults : {d} \in Row(Defaults)
  BY RowOfOne, RowOfNone
<1>2. CASE ReadDefaults(h)
  BY <1>1, <1>2 DEF ReadDefaults
<1>3. CASE UpdateDefaults(h)
  <2>1. PICK d \in Defaults : ChangeDefaults(d) /\ saved' = [saved EXCEPT ![h] = {d}]
    BY <1>3 DEF UpdateDefaults
  <2>2. QED
    BY <1>1, <1>3, <2>1 DEF UpdateDefaults, ChangeDefaults, Since
<1>4. CASE SaveDefaults(h)
  <2>1. defaultsRow' \in Row(Defaults)
    BY <1>4 DEF SaveDefaults
  <2>2. saved' \in [Handlers -> Row(Defaults)] /\ saved'[h] = {}
    BY <1>1, <1>4 DEF SaveDefaults
  <2>3. \A g \in Handlers : g # h => saved'[g] = saved[g] /\ place'[g] = place[g]
    BY <1>4 DEF SaveDefaults
  <2>4. place' \in [Handlers -> Places] /\ place[h] = "saveDefaults" /\ place'[h] = "idle"
    BY <1>4 DEF SaveDefaults
  <2>5. missed' \subseteq {"policy", "defaults"}
    BY <1>4 DEF SaveDefaults
  <2>6. QED
    BY <1>4, <2>1, <2>2, <2>3, <2>4, <2>5 DEF SaveDefaults
<1>5. QED
  BY <1>2, <1>3, <1>4

LEMMA RestartType == TypeOK /\ Restart => TypeOK'
<1> SUFFICES ASSUME TypeOK, Restart
             PROVE  TypeOK'
  OBVIOUS
<1>1. StoredCost \in Costs /\ StoredDefaults \in Defaults
  BY StoredType
<1>2. BaseCost \in Costs /\ BaseDefaults \in Defaults
  BY PolicyAssumption DEF BaseDefaults, Defaults
<1>3. {} \in Row(Costs) /\ {} \in Row(Defaults)
  BY RowOfNone
<1>4. PICK failed \in SUBSET {"policy", "defaults"} : Load(failed)
  BY DEF Restart
<1>5. maxCost' \in Costs /\ limit' \in Costs /\ defaults' \in Defaults
  BY <1>1, <1>2, <1>4 DEF Load
<1>6. missed' \subseteq {"policy", "defaults"}
  BY <1>4 DEF Load
<1>7. QED
  BY <1>3, <1>5, <1>6 DEF Restart, TypeOK, Places, rows

LEMMA NextType == TypeOK /\ [Next]_vars => TypeOK'
<1> SUFFICES ASSUME TypeOK, [Next]_vars
             PROVE  TypeOK'
  OBVIOUS
<1>1. CASE Next
  BY <1>1, PolicyType, DefaultsType, RestartType DEF Next
<1>2. CASE UNCHANGED vars
  BY <1>2 DEF TypeOK, vars, memory, rows
<1>3. QED
  BY <1>1, <1>2

\* Every variable keeps its type; a handler holds a copy of the policy or of the
\* defaults exactly between reading and using it (server.go:866-929).
THEOREM PolicyTypeCorrect == Spec => []TypeOK
BY InitType, NextType, PTL DEF Spec

-----------------------------------------------------------------------------
(* What is saved was in force *)

CopiesWereInForce ==
    /\ SavedWasInForce
    /\ \A h \in Handlers : saved[h] \subseteq was

LEMMA InitCopies == Init => CopiesWereInForce
BY DEF Init, CopiesWereInForce, SavedWasInForce, StoredDefaults

LEMMA NextCopies == TypeOK /\ CopiesWereInForce /\ [Next]_vars => CopiesWereInForce'
<1> SUFFICES ASSUME TypeOK, CopiesWereInForce, [Next]_vars
             PROVE  CopiesWereInForce'
  OBVIOUS
<1> USE DEF TypeOK, Go, rows, memory
<1>1. \A h \in Handlers : saved[h] \subseteq was
  BY DEF CopiesWereInForce
<1>2. \A h \in Handlers : saved[h] \subseteq Since
  BY <1>1 DEF Since, Idle
<1>3. ASSUME ~Idle', \A h \in Handlers : saved'[h] \subseteq was'
      PROVE  CopiesWereInForce'
  BY <1>3 DEF CopiesWereInForce, SavedWasInForce
<1>4. ASSUME NEW h \in Handlers, place'[h] # "idle"
      PROVE  ~Idle'
  BY <1>4 DEF Idle
<1>5. ASSUME NEW h \in Handlers, Apply(h) \/ ReadPolicy(h) \/ SavePolicy(h)
      PROVE  CopiesWereInForce'
  <2>1. place'[h] # "idle"
    BY <1>5 DEF Apply, ReadPolicy, SavePolicy
  <2>2. saved' = saved /\ was' = was
    BY <1>5 DEF Apply, ReadPolicy, SavePolicy
  <2>3. QED
    BY <1>1, <1>3, <1>4, <2>1, <2>2
<1>6. ASSUME NEW h \in Handlers, ChangePolicy(h) \/ ChangeMode(h)
      PROVE  CopiesWereInForce'
  <2>1. place'[h] # "idle"
    BY <1>6 DEF ChangePolicy, ChangeMode
  <2>2. saved' = saved /\ Since \subseteq was'
    BY <1>6 DEF ChangePolicy, ChangeMode, ChangeDefaults
  <2>3. QED
    BY <1>2, <1>3, <1>4, <2>1, <2>2
<1>7. ASSUME NEW h \in Handlers, ReadDefaults(h)
      PROVE  CopiesWereInForce'
  <2>1. place'[h] # "idle"
    BY <1>7 DEF ReadDefaults
  <2>2. \A g \in Handlers : saved'[g] \subseteq was'
    BY <1>1, <1>7 DEF ReadDefaults
  <2>3. QED
    BY <1>3, <1>4, <2>1, <2>2
<1>8. ASSUME NEW h \in Handlers, UpdateDefaults(h)
      PROVE  CopiesWereInForce'
  <2>1. place'[h] # "idle"
    BY <1>8 DEF UpdateDefaults
  <2>2. \A g \in Handlers : saved'[g] \subseteq was'
    BY <1>2, <1>8 DEF UpdateDefaults, ChangeDefaults
  <2>3. QED
    BY <1>3, <1>4, <2>1, <2>2
<1>9. ASSUME NEW h \in Handlers, SaveDefaults(h)
      PROVE  CopiesWereInForce'
  <2>1. saved[h] # {} /\ saved[h] \subseteq was /\ was' = was
    BY <1>1, <1>9 DEF SaveDefaults
  <2>2. \A g \in Handlers : saved'[g] \subseteq was'
    BY <1>1, <1>9 DEF SaveDefaults
  <2>3. CASE "defaults" \in missed'
    BY <2>2, <2>3 DEF CopiesWereInForce, SavedWasInForce
  <2>4. CASE defaultsRow' = saved[h]
    <3>1. (CHOOSE d \in saved[h] : TRUE) \in was
      BY <2>1
    <3>2. StoredDefaults' \in was'
      BY <2>1, <2>4, <3>1 DEF StoredDefaults
    <3>3. QED
      BY <2>2, <3>2 DEF CopiesWereInForce, SavedWasInForce
  <2>5. QED
    BY <1>9, <2>3, <2>4 DEF SaveDefaults
<1>10. CASE Restart
  <2>1. PICK failed \in SUBSET {"policy", "defaults"} : Load(failed)
    BY <1>10 DEF Restart
  <2>2. was' = {defaults'} /\ StoredDefaults' = StoredDefaults
    BY <1>10 DEF Restart, StoredDefaults
  <2>3. "defaults" \notin missed' => StoredDefaults' \in was'
    BY <2>1, <2>2 DEF Load
  <2>4. \A h \in Handlers : saved'[h] = {}
    BY <1>10 DEF Restart
  <2>5. QED
    BY <2>3, <2>4 DEF CopiesWereInForce, SavedWasInForce
<1>11. CASE UNCHANGED vars
  BY <1>11 DEF vars, CopiesWereInForce, SavedWasInForce, StoredDefaults, Idle
<1>12. QED
  BY <1>5, <1>6, <1>7, <1>8, <1>9, <1>10, <1>11 DEF Next

\* What is in the defaults' row when the handlers are done was in force as a
\* whole while they were at work, however they overlap, unless the latest write
\* or load of the row failed (server.go:433, 1001-1011).
THEOREM SavedWholeFromForce == Spec => []SavedWasInForce
<1>1. CopiesWereInForce => SavedWasInForce
  BY DEF CopiesWereInForce
<1>2. QED
  BY <1>1, InitType, NextType, InitCopies, NextCopies, PTL DEF Spec

-----------------------------------------------------------------------------
(* One request after the other *)

\* Places where the policy in memory is ahead of the router, or of its row.
Unapplied == {"changed", "applying"}
Unsaved == {"changed", "applying", "applied", "savePolicy"}

LimitApplied == maxCost > 0 => limit = maxCost
PolicySaved == "policy" \notin missed => StoredCost = maxCost
DefaultsSaved == "defaults" \notin missed => StoredDefaults = defaults

\* What holds at every place of the one handler at work.
Orderly ==
    ~overlapped =>
        /\ \A g, h \in Handlers : place[g] # "idle" /\ place[h] # "idle" => g = h
        /\ (\A h \in Handlers : place[h] \notin Unapplied) => LimitApplied
        /\ (\A h \in Handlers : place[h] \notin Unsaved) => PolicySaved
        /\ Idle => DefaultsSaved
        /\ \A h \in Handlers :
              /\ place[h] \in {"applying", "savePolicy"} => cost[h] = {maxCost}
              /\ place[h] = "saveDefaults" => saved[h] = {defaults}

LEMMA InitOrderly == Init => Orderly
BY DEF Init, Orderly, Idle, LimitApplied, PolicySaved, DefaultsSaved, StoredCost, StoredDefaults

\* A step of the only handler at work, or of one that begins when none is.
LEMMA StepAlone ==
    ASSUME TypeOK, Orderly, ~overlapped, NEW h \in Handlers,
           place[h] # "idle" \/ Idle
    PROVE  \A g \in Handlers : g # h => place[g] = "idle"
BY DEF Orderly, Idle

LEMMA PolicyOrderly ==
    ASSUME TypeOK, Orderly, NEW h \in Handlers, ~overlapped',
           ChangePolicy(h) \/ ChangeMode(h) \/ Apply(h) \/ ReadPolicy(h) \/ SavePolicy(h)
    PROVE  Orderly'
<1>1. ~overlapped /\ (place[h] # "idle" \/ Idle)
  BY DEF TypeOK, ChangePolicy, ChangeMode, Apply, ReadPolicy, SavePolicy, Go
<1>2. \A g \in Handlers : g # h => place[g] = "idle"
  BY <1>1, StepAlone
<1>3. \A g \in Handlers : g # h => place'[g] = "idle"
  BY <1>2 DEF TypeOK, ChangePolicy, ChangeMode, Apply, ReadPolicy, SavePolicy, Go
<1> USE DEF TypeOK, Go, rows, memory, Unapplied, Unsaved
<1>4. CASE ChangePolicy(h)
  <2>1. place'[h] = "changed"
    BY <1>4 DEF ChangePolicy
  <2>2. QED
    BY <1>3, <2>1 DEF Orderly, Idle
<1>5. CASE ChangeMode(h)
  <2>1. place'[h] = "applying" /\ cost'[h] = {maxCost} /\ maxCost' = maxCost
    BY <1>5 DEF ChangeMode
  <2>2. QED
    BY <1>3, <2>1 DEF Orderly, Idle
<1>6. CASE Apply(h)
  <2>1. place'[h] = "applied" /\ maxCost' = maxCost
    BY <1>6 DEF Apply
  <2>2. cost[h] = {maxCost}
    BY <1>1, <1>6 DEF Apply, Orderly
  <2>3. (CHOOSE x \in cost[h] : TRUE) = maxCost
    BY <2>2
  <2>4. LimitApplied'
    BY <1>6, <2>1, <2>3 DEF Apply, LimitApplied
  <2>5. QED
    BY <1>3, <2>1, <2>4 DEF Orderly, Idle
<1>7. CASE ReadPolicy(h)
  <2>1. place'[h] = "savePolicy" /\ cost'[h] = {maxCost} /\ maxCost' = maxCost /\ limit' = limit
    BY <1>7 DEF ReadPolicy
  <2>2. LimitApplied
    BY <1>1, <1>2, <1>7 DEF Orderly, ReadPolicy
  <2>3. QED
    BY <1>3, <2>1, <2>2 DEF Orderly, Idle, LimitApplied
<1>8. CASE SavePolicy(h)
  <2>1. place'[h] = "policySaved" /\ maxCost' = maxCost /\ limit' = limit
    BY <1>8 DEF SavePolicy
  <2>2. LimitApplied /\ cost[h] = {maxCost}
    BY <1>1, <1>2, <1>8 DEF Orderly, SavePolicy
  <2>3. policyRow' = {maxCost} \/ "policy" \in missed'
    BY <1>8, <2>2 DEF SavePolicy
  <2>4. PolicySaved'
    BY <2>1, <2>3 DEF PolicySaved, StoredCost
  <2>5. QED
    BY <1>3, <2>1, <2>2, <2>4 DEF Orderly, Idle, LimitApplied
<1>9. QED
  BY <1>4, <1>5, <1>6, <1>7, <1>8

LEMMA DefaultsOrderly ==
    ASSUME TypeOK, Orderly, NEW h \in Handlers, ~overlapped',
           ReadDefaults(h) \/ UpdateDefaults(h) \/ SaveDefaults(h)
    PROVE  Orderly'
<1>1. ~overlapped /\ (place[h] # "idle" \/ Idle)
  BY DEF TypeOK, ReadDefaults, UpdateDefaults, SaveDefaults, Go
<1>2. \A g \in Handlers : g # h => place[g] = "idle"
  BY <1>1, StepAlone
<1>3. \A g \in Handlers : g # h => place'[g] = "idle"
  BY <1>2 DEF TypeOK, ReadDefaults, UpdateDefaults, SaveDefaults, Go
<1>4. LimitApplied /\ PolicySaved
  BY <1>1, <1>2 DEF Orderly, Unapplied, Unsaved, ReadDefaults, UpdateDefaults, SaveDefaults, Go
<1>5. "policy" \notin missed' => "policy" \notin missed
  BY DEF ReadDefaults, UpdateDefaults, SaveDefaults
<1>6. maxCost' = maxCost /\ limit' = limit /\ policyRow' = policyRow
  BY DEF ReadDefaults, UpdateDefaults, SaveDefaults, memory, rows
<1>7. LimitApplied' /\ PolicySaved'
  BY <1>4, <1>5, <1>6 DEF LimitApplied, PolicySaved, StoredCost
<1> USE DEF TypeOK, Go, rows, memory
<1>8. CASE ReadDefaults(h)
  <2>1. place'[h] = "saveDefaults" /\ saved'[h] = {defaults} /\ defaults' = defaults
    BY <1>8 DEF ReadDefaults
  <2>2. QED
    BY <1>3, <1>7, <2>1 DEF Orderly, Idle
<1>9. CASE UpdateDefaults(h)
  <2>1. place'[h] = "saveDefaults" /\ saved'[h] = {defaults'}
    BY <1>9 DEF UpdateDefaults, ChangeDefaults
  <2>2. QED
    BY <1>3, <1>7, <2>1 DEF Orderly, Idle
<1>10. CASE SaveDefaults(h)
  <2>1. saved[h] = {defaults} /\ place'[h] = "idle" /\ defaults' = defaults
    BY <1>1, <1>10 DEF SaveDefaults, Orderly
  <2>2. defaultsRow' = {defaults} \/ "defaults" \in missed'
    BY <1>10, <2>1 DEF SaveDefaults
  <2>3. DefaultsSaved'
    BY <2>1, <2>2 DEF DefaultsSaved, StoredDefaults
  <2>4. QED
    BY <1>3, <1>7, <2>1, <2>3 DEF Orderly, Idle
<1>11. QED
  BY <1>8, <1>9, <1>10

LEMMA RestartOrderly ==
    ASSUME Restart
    PROVE  Orderly'
<1>1. \A h \in Handlers : place'[h] = "idle"
  BY DEF Restart
<1>2. StoredCost' = StoredCost /\ StoredDefaults' = StoredDefaults
  BY DEF Restart, rows, StoredCost, StoredDefaults
<1>3. PICK failed \in SUBSET {"policy", "defaults"} : Load(failed)
  BY DEF Restart
<1>4. LimitApplied' /\ PolicySaved' /\ DefaultsSaved'
  BY <1>2, <1>3 DEF Load, LimitApplied, PolicySaved, DefaultsSaved
<1>5. QED
  BY <1>1, <1>4 DEF Orderly

LEMMA NextOrderly == TypeOK /\ Orderly /\ [Next]_vars => Orderly'
<1> SUFFICES ASSUME TypeOK, Orderly, [Next]_vars, ~overlapped'
             PROVE  Orderly'
  BY DEF Orderly
<1>1. CASE Next
  BY <1>1, PolicyOrderly, DefaultsOrderly, RestartOrderly DEF Next
<1>2. CASE UNCHANGED vars
  BY <1>2 DEF Orderly, Idle, LimitApplied, PolicySaved, DefaultsSaved, StoredCost,
              StoredDefaults, vars, memory, rows
<1>3. QED
  BY <1>1, <1>2

\* Between requests that come one after the other, what is in force is what a
\* start that can read the rows brings back and what is enforced, unless the
\* latest write of a row or its load failed and unless the limit is none
\* (server.go:435, 925-929, 1001-1011, budget.go:69).
THEOREM OrderlyUpdatesSurvive == Spec => []UpdatesSurvive
<1>1. Orderly => UpdatesSurvive
  BY DEF Orderly, UpdatesSurvive, Idle, Unapplied, Unsaved, LimitApplied, PolicySaved, DefaultsSaved
<1>2. QED
  BY <1>1, InitType, NextType, InitOrderly, NextOrderly, PTL DEF Spec
=============================================================================
