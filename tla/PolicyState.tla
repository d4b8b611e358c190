----------------------------- MODULE PolicyState -----------------------------
(***************************************************************************)
(* What an operator can change at run time: the policy, of which the       *)
(* session limit stands for all numbers, and the session defaults.  Both   *)
(* are kept in the server's memory, handed to the router and saved in      *)
(* app_state, in steps that are not one: only the changes of the defaults  *)
(* are under a lock, and no write to the database is.                      *)
(***************************************************************************)
EXTENDS Integers, FiniteSets

CONSTANTS
    Handlers,       \* requests of the operator
    Costs,          \* session limits that are asked for; the code takes any number
    BaseCost,       \* MAX_COST_PER_SESSION
    Modes,          \* of the judge: "always", "never", "smart"
    BaseMode,
    SessionIds,     \* stand for the other session defaults as well
    BaseId

ASSUME PolicyAssumption ==
    /\ IsFiniteSet(Handlers)
    /\ Costs \subseteq Int
    /\ BaseCost \in Costs
    /\ BaseMode \in Modes /\ BaseId \in SessionIds

Defaults == [judge : Modes, id : SessionIds]
BaseDefaults == [judge |-> BaseMode, id |-> BaseId]

\* A row of app_state, or none.
Row(S) == {r \in SUBSET S : Cardinality(r) <= 1}

VARIABLES
    maxCost,        \* s.settings
    limit,          \* what the router's budget manager enforces
    defaults,       \* s.sessionDefaults
    policyRow, defaultsRow,
    place,          \* where each handler is
    cost,           \* its copy of the policy: to apply or to save; in a set, empty without
    saved,          \* its copy of the defaults, to save; likewise
    missed,         \* history: rows whose latest write, or load at the start, has failed
    was,            \* history: the defaults since the handlers at work found none at work
    overlapped      \* history: two handlers have been at work at once in this process

memory == <<maxCost, limit, defaults>>
rows == <<policyRow, defaultsRow>>
vars == <<memory, rows, place, cost, saved, missed, was,
          overlapped>>

Places == {"idle", "changed", "applying", "applied", "savePolicy", "policySaved", "saveDefaults"}

TypeOK ==
    /\ maxCost \in Costs /\ limit \in Costs
    /\ defaults \in Defaults /\ defaults \in was /\ was \subseteq Defaults
    /\ policyRow \in Row(Costs) /\ defaultsRow \in Row(Defaults)
    /\ place \in [Handlers -> Places]
    /\ cost \in [Handlers -> Row(Costs)] /\ saved \in [Handlers -> Row(Defaults)]
    /\ \A h \in Handlers :
          /\ cost[h] # {} <=> place[h] \in {"applying", "savePolicy"}
          /\ saved[h] # {} <=> place[h] = "saveDefaults"
    /\ missed \subseteq {"policy", "defaults"}
    /\ overlapped \in BOOLEAN

\* What a start takes that can read the rows: the settings where there is none.
StoredCost == IF policyRow = {} THEN BaseCost ELSE CHOOSE c \in policyRow : TRUE
StoredDefaults == IF defaultsRow = {} THEN BaseDefaults ELSE CHOOSE d \in defaultsRow : TRUE

Init ==
    /\ maxCost = BaseCost /\ limit = BaseCost
    /\ defaults = BaseDefaults
    /\ policyRow = {} /\ defaultsRow = {}
    /\ place = [h \in Handlers |-> "idle"]
    /\ cost = [h \in Handlers |-> {}] /\ saved = [h \in Handlers |-> {}]
    /\ missed = {}
    /\ was = {BaseDefaults}
    /\ overlapped = FALSE

-----------------------------------------------------------------------------

Go(h, from, to) == place[h] = from /\ place' = [place EXCEPT ![h] = to]

Idle == \A h \in Handlers : place[h] = "idle"

Since == IF Idle THEN {defaults} ELSE was

ChangeDefaults(d) == defaults' = d /\ was' = Since \cup {d}

\* updatePolicy: the numbers it was given, without a lock, ...
ChangePolicy(h) ==
    /\ Go(h, "idle", "changed")
    /\ maxCost' \in Costs \cup {maxCost}
    /\ was' = Since
    /\ overlapped' = (overlapped \/ ~Idle)
    /\ UNCHANGED <<limit, defaults, rows, cost, saved, missed>>

\* ... the judge's mode with one; the settings are copied for the router.
ChangeMode(h) ==
    /\ Go(h, "changed", "applying")
    /\ \E mode \in Modes : ChangeDefaults([defaults EXCEPT !.judge = mode])
    /\ cost' = [cost EXCEPT ![h] = {maxCost}]
    /\ UNCHANGED <<maxCost, limit, rows, saved, missed, overlapped>>

\* Mutation: the budget manager is forgotten.
ApplyElsewhere(h) ==
    /\ Go(h, "applying", "applied")
    /\ cost' = [cost EXCEPT ![h] = {}]
    /\ UNCHANGED <<memory, rows, saved, missed, was, overlapped>>

\* Router.UpdatePolicy; the budget manager takes positive limits only.
Apply(h) ==
    /\ Go(h, "applying", "applied")
    /\ limit' = (LET c == CHOOSE x \in cost[h] : TRUE IN IF c > 0 THEN c ELSE limit)
    /\ cost' = [cost EXCEPT ![h] = {}]
    /\ UNCHANGED <<maxCost, defaults, rows, saved, missed, was, overlapped>>

\* persistedPolicy reads the settings as they are now.
ReadPolicy(h) ==
    /\ Go(h, "applied", "savePolicy")
    /\ cost' = [cost EXCEPT ![h] = {maxCost}]
    /\ UNCHANGED <<memory, rows, saved, missed, was, overlapped>>

\* A write fails when the client has gone, and the handler goes on.
SavePolicy(h) ==
    /\ Go(h, "savePolicy", "policySaved")
    /\ \/ policyRow' = cost[h] /\ missed' = missed \ {"policy"}
       \/ policyRow' = policyRow /\ missed' = missed \cup {"policy"}
    /\ cost' = [cost EXCEPT ![h] = {}]
    /\ UNCHANGED <<memory, defaultsRow, saved, was, overlapped>>

\* Mutation: the policy's handler leaves the defaults in memory only.
ReadDefaultsNever(h) ==
    /\ Go(h, "policySaved", "idle")
    /\ UNCHANGED <<memory, rows, cost, saved, missed, was, overlapped>>

ReadDefaults(h) ==
    /\ Go(h, "policySaved", "saveDefaults")
    /\ saved' = [saved EXCEPT ![h] = {defaults}]
    /\ UNCHANGED <<memory, rows, cost, missed, was, overlapped>>

\* Mutation: the update is saved and not what it made of the defaults.
UpdateDefaultsAlone(h) ==
    /\ Go(h, "idle", "saveDefaults")
    /\ \E d \in Defaults :
          /\ ChangeDefaults([defaults EXCEPT !.id = d.id])
          /\ saved' = [saved EXCEPT ![h] = {d}]
    /\ overlapped' = (overlapped \/ ~Idle)
    /\ UNCHANGED <<maxCost, limit, rows, cost, missed>>

\* updateSessionDefaults and regenerateSessionID, up to the unlock.
UpdateDefaults(h) ==
    /\ Go(h, "idle", "saveDefaults")
    /\ \E d \in Defaults : ChangeDefaults(d) /\ saved' = [saved EXCEPT ![h] = {d}]
    /\ overlapped' = (overlapped \/ ~Idle)
    /\ UNCHANGED <<maxCost, limit, rows, cost, missed>>

SaveDefaults(h) ==
    /\ Go(h, "saveDefaults", "idle")
    /\ \/ defaultsRow' = saved[h] /\ missed' = missed \ {"defaults"}
       \/ defaultsRow' = defaultsRow /\ missed' = missed \cup {"defaults"}
    /\ saved' = [saved EXCEPT ![h] = {}]
    /\ UNCHANGED <<memory, policyRow, cost, was, overlapped>>

\* loadPersistedRuntimeState: a load that fails is only logged, and the process
\* runs on its settings while the row stays as it is.
Load(failed) ==
    /\ maxCost' = (IF "policy" \in failed THEN BaseCost ELSE StoredCost)
    /\ limit' = maxCost'
    /\ defaults' = (IF "defaults" \in failed THEN BaseDefaults ELSE StoredDefaults)
    /\ missed' = failed

\* The process stops, wherever the handlers are, and starts again.
Restart ==
    /\ \E failed \in SUBSET {"policy", "defaults"} : Load(failed)
    /\ place' = [h \in Handlers |-> "idle"]
    /\ cost' = [h \in Handlers |-> {}] /\ saved' = [h \in Handlers |-> {}]
    /\ was' = {defaults'}
    /\ overlapped' = FALSE
    /\ UNCHANGED rows

Next ==
    \/ \E h \in Handlers :
          \/ ChangePolicy(h) \/ ChangeMode(h) \/ Apply(h) \/ ReadPolicy(h) \/ SavePolicy(h)
          \/ ReadDefaults(h) \/ UpdateDefaults(h) \/ SaveDefaults(h)
    \/ Restart

Spec == Init /\ [][Next]_vars

-----------------------------------------------------------------------------
(* Properties *)

\* As long as the operator's requests come one after the other, a restart that
\* can read a row changes neither the limit shown nor the session defaults,
\* unless the latest write of the row, or its load when the process started,
\* failed: whichever failed or were cut off by a crash before, and although two
\* kinds of handlers write the defaults; and a limit that is shown is the one
\* enforced, unless it is none (server.go:435, 925-929, 1001-1011, budget.go:69).
UpdatesSurvive ==
    Idle /\ ~overlapped =>
        /\ maxCost > 0 => limit = maxCost
        /\ "policy" \notin missed => StoredCost = maxCost
        /\ "defaults" \notin missed => StoredDefaults = defaults

\* However handlers overlap, the defaults saved when all are done were in force
\* as a whole while they were at work: never a mixture of two updates, never a
\* part of one, and none that is older than the handlers that overlapped, unless
\* the latest write or load of the row failed (server.go:433, 1001-1011).
SavedWasInForce == Idle /\ "defaults" \notin missed => StoredDefaults \in was
=============================================================================
