---------------------------- MODULE ModelCatalog ----------------------------
(***************************************************************************)
(* What is in the configuration: keys, key instances, models, the tiers'   *)
(* orders and the judges; the dashboard's requests that change them, the   *)
(* check they must pass, the file they are kept in and the older file that *)
(* is imported when there is none.  Requests come one after the other: how *)
(* they overlap is in ConfigReload, which keeps of a content whether it    *)
(* can be loaded.                                                          *)
(*                                                                         *)
(* The file is JSON: a model or an instance in it is a record that may     *)
(* lack fields, and a key's value in it may be a placeholder that stands   *)
(* for a variable of the environment.  The configuration in force has all  *)
(* fields and the variables' values.  Prices, limits and names are left    *)
(* out.                                                                    *)
(***************************************************************************)
EXTENDS Integers, FiniteSets, Sequences, SequencesExt

CONSTANTS
    NoInstance,         \* the empty key_instance
    NoValue,            \* the empty value of a key
    Env,                \* Env[v]: what the placeholder v stands for, maybe nothing
    ModelIds,           \* numbers, in alphabetical order
    LegacyFiles,        \* contents of the older file
    EnvKeys,            \* EnvKeys[p]: provider p's key in the settings, maybe none
    Gemini, JudgeNamed, \* the provider; models with "judge" in their names
    NewModels, ModelUpdates, OrderUpdates, JudgeUpdates, KeyUpdates, \* what requests send
    FilesByHand,        \* what an operator may put in the file's place
    MaxChanges          \* bound: requests and edits

\* No file, and one that cannot be read.
Absent == [state |-> "absent"]
Broken == [state |-> "broken"]

Sections == {"keys", "instances", "models", "weak", "strong", "judging", "judges"}

\* A configuration, in force or as JSON, has all its sections; one that a file
\* leaves out is an empty one, and so is a missing provider or key.
IsConfiguration(f) ==
    /\ DOMAIN f = Sections /\ f = [x \in Sections |-> f[x]]
    /\ \A m \in DOMAIN f.models : "provider" \in DOMAIN f.models[m]
    /\ \A i \in DOMAIN f.instances : "key" \in DOMAIN f.instances[i]
    /\ \A k \in DOMAIN f.keys : {"type", "value"} \subseteq DOMAIN f.keys[k]

ASSUME CatalogAssumption ==
    /\ ModelIds \subseteq Nat
    /\ \A f \in FilesByHand : f \in {Absent, Broken} \/ IsConfiguration(f)
    /\ \A older \in LegacyFiles : \A m \in DOMAIN older :
          m \in ModelIds /\ older[m].order \in Int /\ older[m].provider \in DOMAIN EnvKeys
    /\ \A p \in DOMAIN EnvKeys : EnvKeys[p] \notin DOMAIN Env
    /\ \A v \in DOMAIN Env : Env[v] \notin DOMAIN Env
    /\ \A model \in NewModels : "provider" \in DOMAIN model
    /\ \A update \in OrderUpdates : DOMAIN update \subseteq {"weak", "strong"}
    /\ \A update \in JudgeUpdates : DOMAIN update \subseteq {"judging", "judges"}
    /\ \A update \in KeyUpdates : \A k \in DOMAIN update : "value" \in DOMAIN update[k]
    /\ MaxChanges \in Nat

VARIABLES
    file,       \* the sentinel file
    legacy,     \* the older file: a function from models
    config,     \* the configuration in force
    changes,
    named       \* history: the entries that the file's latest change names

vars == <<file, legacy, config, changes, named>>

\* What an edit by hand names.
WholeFile == {<<"file">>}

-----------------------------------------------------------------------------
(* Reading and writing JSON *)

\* Fields of u replace those of f.
Merge(f, u) == [x \in DOMAIN f \cup DOMAIN u |-> IF x \in DOMAIN u THEN u[x] ELSE f[x]]

\* What a field that is missing reads as (UnmarshalJSON).
InstanceDefaults == [enabled |-> TRUE]
ModelDefaults == [enabled |-> TRUE, inst |-> NoInstance, insts |-> <<>>]

\* resolveEnvPlaceholders: a variable that is not set gives the empty value.
Resolve(value) == IF value \in DOMAIN Env THEN Env[value] ELSE value

Parse(raw) ==
    [raw EXCEPT
       !.keys = [k \in DOMAIN raw.keys |-> [type |-> raw.keys[k].type,
                                           value |-> Resolve(raw.keys[k].value)]],
       !.instances = [i \in DOMAIN raw.instances |-> Merge(InstanceDefaults, raw.instances[i])],
       !.models = [m \in DOMAIN raw.models |-> Merge(ModelDefaults, raw.models[m])]]

\* Mutation: "enabled" has omitempty too.
OmittedFalse(model) ==
    {f \in {"inst", "insts"} : model[f] = ModelDefaults[f]}
        \cup {f \in {"enabled"} : ~model[f]}

\* omitempty, which "enabled" does not have.
Omitted(model) ==
    {f \in {"inst", "insts"} : model[f] = ModelDefaults[f]}

Marshal(cfg) ==
    [cfg EXCEPT !.models =
        [m \in DOMAIN cfg.models |->
            Restrict(cfg.models[m], DOMAIN cfg.models[m] \ Omitted(cfg.models[m]))]]

-----------------------------------------------------------------------------
(* Validate *)

\* key_instance counts only where there are no key_instances.
Instances(model) ==
    IF model.insts = <<>> /\ model.inst # NoInstance THEN <<model.inst>> ELSE model.insts

\* Mutation: a disabled instance is enough.
ModelValidAnyInstance(cfg, model) ==
    LET insts == Range(Instances(model))
    IN  /\ insts # {} /\ IsInjective(Instances(model)) /\ insts \subseteq DOMAIN cfg.instances
        /\ \A i \in insts : cfg.keys[cfg.instances[i].key].type = model.provider

ModelValid(cfg, model) ==
    LET insts == Range(Instances(model))
    IN  /\ insts # {} /\ IsInjective(Instances(model)) /\ insts \subseteq DOMAIN cfg.instances
        /\ \A i \in insts : cfg.keys[cfg.instances[i].key].type = model.provider
        /\ model.enabled => \E i \in insts : cfg.instances[i].enabled

OrderValid(cfg, order) ==
    /\ order # <<>>
    /\ \A m \in Range(order) : m \in DOMAIN cfg.models /\ cfg.models[m].enabled

Valid(cfg) ==
    /\ DOMAIN cfg.keys # {} /\ DOMAIN cfg.instances # {} /\ DOMAIN cfg.models # {}
    /\ \A i \in DOMAIN cfg.instances : cfg.instances[i].key \in DOMAIN cfg.keys
    /\ \A m \in DOMAIN cfg.models : ModelValid(cfg, cfg.models[m])
    /\ OrderValid(cfg, cfg.weak) /\ OrderValid(cfg, cfg.strong)
    /\ Range(cfg.weak) \cap Range(cfg.strong) = {}
    /\ cfg.judging => cfg.judges # <<>>
    /\ Range(cfg.judges) \subseteq DOMAIN cfg.models

\* Validate leaves key_instances set in every model.
Normal(cfg) ==
    [cfg EXCEPT !.models =
        [m \in DOMAIN cfg.models |-> [cfg.models[m] EXCEPT !.insts = Instances(cfg.models[m])]]]

-----------------------------------------------------------------------------
(* Loading the file, or importing the older one *)

\* Mutation: models of the same order stay as the map gave them.
BeforeByOrder(older, a, b) == older[a].order < older[b].order

Before(older, a, b) ==
    \/ older[a].order < older[b].order
    \/ older[a].order = older[b].order /\ a < b

\* sort.SliceStable of items that came in the order of rank.
Sorted(older, S, rank) ==
    LET Sooner(a, b) == \/ Before(older, a, b)
                        \/ ~Before(older, b, a) /\ rank[a] < rank[b]
    IN  CHOOSE s \in SetToSeqs(S) : \A i, j \in DOMAIN s : i < j => Sooner(s[i], s[j])

\* A provider's name stands for the key and the instance made for it.
Import(older, rank) ==
    LET active == {m \in DOMAIN older : older[m].active}
        providers == {older[m].provider : m \in active}
        weak == Sorted(older, {m \in active : ~older[m].strong}, rank)
        judging == Sorted(older, {m \in active : older[m].provider = Gemini \/ m \in JudgeNamed}, rank)
    IN  [keys |-> [p \in providers |-> [type |-> p, value |-> EnvKeys[p]]],
         instances |-> [p \in providers |-> [key |-> p, enabled |-> TRUE]],
         models |-> [m \in active |-> [enabled |-> TRUE, provider |-> older[m].provider,
                                       inst |-> NoInstance, insts |-> <<older[m].provider>>]],
         weak |-> weak,
         strong |-> Sorted(older, {m \in active : older[m].strong}, rank),
         judging |-> TRUE,
         judges |-> IF judging # <<>> THEN judging
                    ELSE IF Len(weak) > 2 THEN SubSeq(weak, 1, 2) ELSE weak]

\* A Go map is read in any order.
MapOrders(S) == {rank \in [S -> 1..Cardinality(S)] : IsInjective(rank)}

\* The configurations that loading f may give; none if it fails.
Loads(f, older) ==
    LET read == CASE f = Absent -> {Import(older, rank) : rank \in MapOrders(DOMAIN older)}
                  [] f = Broken -> {}
                  [] OTHER -> {Parse(f)}
    IN  {Normal(cfg) : cfg \in {c \in read : Valid(c)}}

Init ==
    /\ file \in FilesByHand /\ legacy \in LegacyFiles
    /\ config \in Loads(file, legacy)
    /\ changes = 0
    /\ named = {}

\* What cannot be loaded leaves the configuration as it is.
ForceReload(f) ==
    \/ config' \in Loads(f, legacy)
    \/ Loads(f, legacy) = {} /\ UNCHANGED config

\* The watcher, and a restart, which succeeds only when the file can be loaded.
Reload ==
    /\ ForceReload(file)
    /\ UNCHANGED <<file, legacy, changes, named>>

-----------------------------------------------------------------------------
(* The dashboard *)

\* ensureRawSentinelConfig
Raw == IF file = Absent THEN Marshal(config) ELSE file

Change(entries) ==
    /\ changes < MaxChanges
    /\ changes' = changes + 1
    /\ named' = entries
    /\ UNCHANGED legacy

\* patchRawConfig: what is not valid is not written.
Patch(entries, raw) ==
    /\ Change(entries)
    /\ Valid(Parse(raw))
    /\ file' = raw
    /\ ForceReload(raw)

CreateModel(m, model) ==
    /\ file # Broken /\ m \notin DOMAIN Raw.models
    /\ Patch({<<"models", m>>}, [Raw EXCEPT !.models = Merge(@, [x \in {m} |-> model])])

UpdateModel(m, update) ==
    /\ file # Broken /\ m \in DOMAIN Raw.models
    /\ Patch({<<"models", m>>}, [Raw EXCEPT !.models[m] = Merge(@, update)])

DeleteModel(m) ==
    /\ file # Broken /\ m \in DOMAIN Raw.models
    /\ Patch({<<"models", m>>}, [Raw EXCEPT !.models = Restrict(@, DOMAIN @ \ {m})])

\* A request for the judge, or for the tiers' orders.
UpdateSection(update) ==
    /\ file # Broken
    /\ Patch({<<section>> : section \in DOMAIN update}, Merge(Raw, update))

\* Mutation: a key's type is taken from the request also when it exists.
KeysAfterRetyped(keys, update) ==
    Merge(keys, [k \in DOMAIN update |-> IF k \in DOMAIN keys THEN Merge(keys[k], update[k])
                                         ELSE update[k]])

\* A key that exists keeps its type.
KeysAfter(keys, update) ==
    Merge(keys, [k \in DOMAIN update |->
                   IF k \in DOMAIN keys THEN [keys[k] EXCEPT !.value = update[k].value]
                   ELSE update[k]])

\* Any number of keys at once, written without a look at the rest, and then
\* loaded, if they can be.  An empty value, and a new key without a type, is refused.
UpdateKeys(update) ==
    /\ file # Broken
    /\ \A k \in DOMAIN update :
          /\ update[k].value # NoValue
          /\ k \in DOMAIN Raw.keys \/ "type" \in DOMAIN update[k]
    /\ Change({<<"keys", k>> : k \in DOMAIN update})
    /\ file' = [Raw EXCEPT !.keys = KeysAfter(@, update)]
    /\ ForceReload(file')

\* The operator edits or removes the file.
Edit ==
    /\ changes < MaxChanges
    /\ changes' = changes + 1
    /\ file' \in FilesByHand
    /\ named' = WholeFile
    /\ UNCHANGED <<legacy, config>>

Next ==
    \/ Reload
    \/ \E m \in ModelIds :
          \/ \E model \in NewModels : CreateModel(m, model)
          \/ \E update \in ModelUpdates : UpdateModel(m, update)
          \/ DeleteModel(m)
    \/ \E update \in OrderUpdates \cup JudgeUpdates : UpdateSection(update)
    \/ \E update \in KeyUpdates : UpdateKeys(update)
    \/ Edit

Spec == Init /\ [][Next]_vars

-----------------------------------------------------------------------------
(* What the router takes from a configuration *)

\* candidates, as far as the configuration decides.
Candidates(cfg, order) ==
    {m \in Range(order) : m \in DOMAIN cfg.models /\ cfg.models[m].enabled}

\* The keys of orderedKeys: an enabled instance of the model counts if its key
\* has a value.
KeysFor(cfg, model) ==
    {cfg.instances[i].key : i \in {j \in Range(Instances(model)) \cap DOMAIN cfg.instances :
                                      cfg.instances[j].enabled}}
        \cap {k \in DOMAIN cfg.keys : cfg.keys[k].value # NoValue}

-----------------------------------------------------------------------------
(* Properties *)

\* The value of an enabled instance's key is missing.
LacksValue(cfg, model) ==
    \E i \in Range(Instances(model)) :
        /\ cfg.instances[i].enabled
        /\ cfg.keys[cfg.instances[i].key].value = NoValue

\* Whatever was requested, imported or edited, the router finds what it relies
\* on in the configuration in force: a model in each tier, no model in both,
\* for each of them keys of its own provider only, and one at least unless an
\* empty value is what is missing, and known judges where judging is on
\* (sentinel.go:136, router.go:480, 525).
PipelineGetsWhatItNeeds ==
    /\ \A order \in {config.weak, config.strong} :
          /\ order # <<>> /\ Candidates(config, order) = Range(order)
          /\ \A m \in Range(order) :
                LET model == config.models[m]
                    keys == KeysFor(config, model)
                IN  /\ keys # {} \/ LacksValue(config, model)
                    /\ \A k \in keys : config.keys[k].type = model.provider
    /\ Range(config.weak) \cap Range(config.strong) = {}
    /\ config.judging => config.judges # <<>>
    /\ Range(config.judges) \subseteq DOMAIN config.models

\* A request for keys writes the file without validating it, and yet a file
\* that could be loaded can still be (server.go:740-790): only an edit by hand
\* makes one that a restart would refuse.
KeysNeverBreakTheFile ==
    [][Loads(file, legacy) # {} /\ Loads(file', legacy) = {} => named' = WholeFile]_vars

\* The entries in which two configurations differ.
Changed(c, d) ==
    LET different(f, g) == {x \in DOMAIN f \cup DOMAIN g :
                               x \notin DOMAIN f \cap DOMAIN g \/ f[x] # g[x]}
    IN  {<<"keys", k>> : k \in different(c.keys, d.keys)}
          \cup {<<"instances", i>> : i \in different(c.instances, d.instances)}
          \cup {<<"models", m>> : m \in different(c.models, d.models)}
          \cup {<<x>> : x \in {y \in {"weak", "strong", "judging", "judges"} : c[y] # d[y]}}

\* While the file is the one in force, or is gone and has to be written anew,
\* a request changes what it names and nothing else, and a reload or restart
\* changes nothing: no default, round trip through JSON or order of a Go map
\* wakes a disabled model or moves another (server.go:1075, sentinel.go:46, 350).
OnlyTheTargetChanges ==
    [][/\ file' = file /\ config \in Loads(file, legacy) => config' = config
       /\ (file' \notin {file, Absent} /\ (file = Absent \/ config \in Loads(file, legacy)))
            => Changed(config, config') \subseteq named']_vars
=============================================================================
