-------------------------- MODULE ModelCatalogProofs --------------------------
(***************************************************************************)
(* Proofs about ModelCatalog, for any models, keys, files, older files and *)
(* requests.                                                               *)
(***************************************************************************)
EXTENDS ModelCatalog, TLAPS

\* The defaults are filled in.
Complete(c) ==
    /\ \A m \in DOMAIN c.models : {"enabled", "inst", "insts"} \subseteq DOMAIN c.models[m]
    /\ \A i \in DOMAIN c.instances : "enabled" \in DOMAIN c.instances[i]

\* What is in force, once Validate has set key_instances in every model.
FitForUse(c) ==
    /\ IsConfiguration(c) /\ Complete(c)
    /\ \A m \in DOMAIN c.models : c.models[m].insts = Instances(c.models[m])
    /\ Valid(c)

FileOK(f) == f \in {Absent, Broken} \/ IsConfiguration(f)

CatalogInv == FileOK(file) /\ FitForUse(config)

-----------------------------------------------------------------------------
(* Merging, reading and writing *)

LEMMA MergeValues ==
    ASSUME NEW f, NEW u
    PROVE  /\ DOMAIN Merge(f, u) = DOMAIN f \cup DOMAIN u
           /\ \A x \in DOMAIN u : Merge(f, u)[x] = u[x]
           /\ \A x \in DOMAIN f \ DOMAIN u : Merge(f, u)[x] = f[x]
BY DEF Merge

LEMMA MergeGives ==
    ASSUME NEW f, NEW u, NEW x \in DOMAIN u
    PROVE  Merge(f, u)[x] = u[x]
BY DEF Merge

LEMMA DefaultFields ==
    /\ DOMAIN ModelDefaults = {"enabled", "inst", "insts"}
    /\ DOMAIN InstanceDefaults = {"enabled"}
BY DEF ModelDefaults, InstanceDefaults

LEMMA AbsentIsNone ==
    /\ ~IsConfiguration(Absent) /\ ~IsConfiguration(Broken)
    /\ Absent # Broken
<1>1. "keys" \in Sections /\ "keys" \notin DOMAIN Absent /\ "keys" \notin DOMAIN Broken
  BY DEF Sections, Absent, Broken
<1>2. QED
  BY <1>1 DEF IsConfiguration, Absent, Broken

LEMMA ReplacedSection ==
    ASSUME NEW c, IsConfiguration(c), NEW s \in Sections, NEW v
    PROVE  /\ DOMAIN [c EXCEPT ![s] = v] = Sections
           /\ [c EXCEPT ![s] = v] = [x \in Sections |-> [c EXCEPT ![s] = v][x]]
           /\ [c EXCEPT ![s] = v][s] = v
           /\ \A x \in Sections \ {s} : [c EXCEPT ![s] = v][x] = c[x]
BY DEF IsConfiguration

\* The keys once the placeholders are resolved.
ReadKeys(keys) ==
    [k \in DOMAIN keys |-> [type |-> keys[k].type, value |-> Resolve(keys[k].value)]]

\* Parse fills the defaults in, resolves the placeholders and keeps the rest.
LEMMA Parsed ==
    ASSUME NEW raw, IsConfiguration(raw)
    PROVE  /\ IsConfiguration(Parse(raw)) /\ Complete(Parse(raw))
           /\ \A x \in Sections \ {"keys", "models", "instances"} : Parse(raw)[x] = raw[x]
           /\ Parse(raw).keys = ReadKeys(raw.keys)
           /\ DOMAIN Parse(raw).models = DOMAIN raw.models
           /\ \A m \in DOMAIN raw.models :
                 Parse(raw).models[m] = Merge(ModelDefaults, raw.models[m])
           /\ DOMAIN Parse(raw).instances = DOMAIN raw.instances
           /\ \A i \in DOMAIN raw.instances :
                 Parse(raw).instances[i] = Merge(InstanceDefaults, raw.instances[i])
<1> DEFINE p == Parse(raw)
<1>1. /\ DOMAIN p = Sections /\ p = [x \in Sections |-> p[x]]
      /\ \A x \in Sections \ {"keys", "models", "instances"} : p[x] = raw[x]
      /\ p.keys = ReadKeys(raw.keys)
      /\ p.models = [m \in DOMAIN raw.models |-> Merge(ModelDefaults, raw.models[m])]
      /\ p.instances = [i \in DOMAIN raw.instances |-> Merge(InstanceDefaults, raw.instances[i])]
  BY DEF IsConfiguration, Parse, Sections, ReadKeys
<1>2. \A m \in DOMAIN raw.models :
        DOMAIN p.models[m] = {"enabled", "inst", "insts"} \cup DOMAIN raw.models[m]
  <2>1. \A m \in DOMAIN raw.models : p.models[m] = Merge(ModelDefaults, raw.models[m])
    BY <1>1
  <2>2. \A u : DOMAIN Merge(ModelDefaults, u) = {"enabled", "inst", "insts"} \cup DOMAIN u
    BY MergeValues, DefaultFields
  <2>3. QED
    BY <2>1, <2>2
<1>3. \A i \in DOMAIN raw.instances :
        DOMAIN p.instances[i] = {"enabled"} \cup DOMAIN raw.instances[i]
  <2>1. \A i \in DOMAIN raw.instances : p.instances[i] = Merge(InstanceDefaults, raw.instances[i])
    BY <1>1
  <2>2. \A u : DOMAIN Merge(InstanceDefaults, u) = {"enabled"} \cup DOMAIN u
    BY MergeValues, DefaultFields
  <2>3. QED
    BY <2>1, <2>2
<1> HIDE DEF p
<1>4. \A k \in DOMAIN p.keys : {"type", "value"} \subseteq DOMAIN p.keys[k]
  BY <1>1 DEF ReadKeys
<1>5. IsConfiguration(p) /\ Complete(p)
  BY <1>1, <1>2, <1>3, <1>4 DEF IsConfiguration, Complete
<1>6. QED
  BY <1>1, <1>5 DEF p

\* Validate's normalisation.
LEMMA Normalised ==
    ASSUME NEW c, IsConfiguration(c), Complete(c)
    PROVE  /\ IsConfiguration(Normal(c)) /\ Complete(Normal(c))
           /\ \A x \in Sections \ {"models"} : Normal(c)[x] = c[x]
           /\ DOMAIN Normal(c).models = DOMAIN c.models
           /\ \A m \in DOMAIN c.models :
                 /\ Normal(c).models[m].insts = Instances(c.models[m])
                 /\ Normal(c).models[m].inst = c.models[m].inst
                 /\ Normal(c).models[m].enabled = c.models[m].enabled
                 /\ Normal(c).models[m].provider = c.models[m].provider
<1> DEFINE n == Normal(c)
<1>1. /\ DOMAIN n = Sections /\ n = [x \in Sections |-> n[x]]
      /\ \A x \in Sections \ {"models"} : n[x] = c[x]
      /\ n.models = [m \in DOMAIN c.models |-> [c.models[m] EXCEPT !.insts = Instances(c.models[m])]]
  BY DEF IsConfiguration, Normal, Sections
<1>2. \A m \in DOMAIN c.models :
        /\ DOMAIN n.models[m] = DOMAIN c.models[m]
        /\ n.models[m].insts = Instances(c.models[m])
        /\ \A x \in DOMAIN c.models[m] \ {"insts"} : n.models[m][x] = c.models[m][x]
  BY <1>1 DEF Complete
<1>3. n.instances = c.instances /\ n.keys = c.keys
  BY <1>1 DEF Sections
<1> HIDE DEF n
<1>4. IsConfiguration(n) /\ Complete(n)
  BY <1>1, <1>2, <1>3 DEF IsConfiguration, Complete
<1>5. QED
  BY <1>1, <1>2, <1>4 DEF n, IsConfiguration, Complete

-----------------------------------------------------------------------------
(* Which changes leave a valid configuration valid *)

\* d has what Validate reads in c, and perhaps more keys.
Covers(d, c) ==
    /\ DOMAIN c.keys \subseteq DOMAIN d.keys
    /\ \A k \in DOMAIN c.keys : d.keys[k].type = c.keys[k].type
    /\ DOMAIN d.instances = DOMAIN c.instances
    /\ \A i \in DOMAIN c.instances :
          d.instances[i].key = c.instances[i].key /\ d.instances[i].enabled = c.instances[i].enabled
    /\ DOMAIN d.models = DOMAIN c.models
    /\ \A m \in DOMAIN c.models :
          /\ d.models[m].provider = c.models[m].provider
          /\ d.models[m].enabled = c.models[m].enabled
          /\ Instances(d.models[m]) = Instances(c.models[m])
    /\ d.weak = c.weak /\ d.strong = c.strong
    /\ d.judging = c.judging /\ d.judges = c.judges

LEMMA CoversValid ==
    ASSUME NEW c, NEW d, Covers(d, c), Valid(c)
    PROVE  Valid(d)
<1>1. \A m \in DOMAIN c.models : ModelValid(d, d.models[m])
  <2> SUFFICES ASSUME NEW m \in DOMAIN c.models
               PROVE  ModelValid(d, d.models[m])
    OBVIOUS
  <2>1. ModelValid(c, c.models[m]) /\ \A i \in DOMAIN c.instances : c.instances[i].key \in DOMAIN c.keys
    BY DEF Valid
  <2>2. /\ Instances(d.models[m]) = Instances(c.models[m])
        /\ d.models[m].provider = c.models[m].provider
        /\ d.models[m].enabled = c.models[m].enabled
    BY DEF Covers
  <2>3. \A i \in Range(Instances(d.models[m])) :
          /\ i \in DOMAIN d.instances
          /\ d.keys[d.instances[i].key].type = d.models[m].provider
          /\ d.instances[i].enabled = c.instances[i].enabled
    BY <2>1, <2>2 DEF Covers, ModelValid
  <2>4. QED
    BY <2>1, <2>2, <2>3 DEF ModelValid
<1>2. OrderValid(d, d.weak) /\ OrderValid(d, d.strong)
  BY DEF Covers, Valid, OrderValid
<1>3. \A i \in DOMAIN d.instances : d.instances[i].key \in DOMAIN d.keys
  BY DEF Covers, Valid
<1>4. QED
  BY <1>1, <1>2, <1>3 DEF Covers, Valid

LEMMA NormalInstances ==
    ASSUME NEW model, NEW other, other.insts = Instances(model), other.inst = model.inst
    PROVE  Instances(other) = Instances(model)
BY DEF Instances

\* What can be loaded is fit for use once it is normalised.
LEMMA NormalFits ==
    ASSUME NEW c, IsConfiguration(c), Complete(c), Valid(c)
    PROVE  FitForUse(Normal(c))
<1>1. \A m \in DOMAIN c.models : Instances(Normal(c).models[m]) = Instances(c.models[m])
  BY Normalised, NormalInstances
<1>2. Covers(Normal(c), c)
  BY <1>1, Normalised DEF Covers, Sections
<1>3. Valid(Normal(c))
  BY <1>2, CoversValid
<1>4. QED
  BY <1>1, <1>3, Normalised DEF FitForUse

\* The older file becomes a configuration.
LEMMA Imported ==
    ASSUME NEW older, NEW rank
    PROVE  IsConfiguration(Import(older, rank)) /\ Complete(Import(older, rank))
<1> DEFINE c == Import(older, rank)
           active == {m \in DOMAIN older : older[m].active}
<1>1. DOMAIN c = Sections /\ c = [x \in Sections |-> c[x]]
  BY DEF Import, Sections
<1>2. c.models = [m \in active |-> [enabled |-> TRUE, provider |-> older[m].provider,
                                    inst |-> NoInstance, insts |-> <<older[m].provider>>]]
  BY DEF Import
<1>3. c.instances = [p \in {older[m].provider : m \in active} |-> [key |-> p, enabled |-> TRUE]]
  BY DEF Import
<1>4. c.keys = [p \in {older[m].provider : m \in active} |-> [type |-> p, value |-> EnvKeys[p]]]
  BY DEF Import
<1> HIDE DEF c, active
<1>5. \A k \in DOMAIN c.keys : {"type", "value"} \subseteq DOMAIN c.keys[k]
  BY <1>4
<1>6. \A m \in DOMAIN c.models : {"provider", "enabled", "inst", "insts"} \subseteq DOMAIN c.models[m]
  BY <1>2
<1>7. \A i \in DOMAIN c.instances : {"key", "enabled"} \subseteq DOMAIN c.instances[i]
  BY <1>3
<1>8. IsConfiguration(c) /\ Complete(c)
  BY <1>1, <1>5, <1>6, <1>7 DEF IsConfiguration, Complete
<1>9. QED
  BY <1>8 DEF c

\* Whatever is loaded is fit for use.
LEMMA LoadedFits ==
    ASSUME NEW f, FileOK(f), NEW older, NEW c \in Loads(f, older)
    PROVE  FitForUse(c)
<1>1. PICK d : /\ c = Normal(d) /\ Valid(d)
               /\ \/ f = Absent /\ \E rank : d = Import(older, rank)
                  \/ f \notin {Absent, Broken} /\ d = Parse(f)
  BY AbsentIsNone DEF Loads
<1>2. IsConfiguration(d) /\ Complete(d)
  BY <1>1, Imported, Parsed DEF FileOK
<1>3. QED
  BY <1>1, <1>2, NormalFits

\* A file that parses to something valid can be loaded.
LEMMA ValidLoads ==
    ASSUME NEW f, IsConfiguration(f), NEW older
    PROVE  Loads(f, older) # {} <=> Valid(Parse(f))
BY AbsentIsNone DEF Loads

\* What is in force survives being written and read.
LEMMA MarshalledBack ==
    ASSUME NEW c, FitForUse(c)
    PROVE  IsConfiguration(Marshal(c)) /\ Valid(Parse(Marshal(c)))
<1> DEFINE j == Marshal(c)
<1>1. /\ DOMAIN j = Sections /\ j = [x \in Sections |-> j[x]]
      /\ \A x \in Sections \ {"models"} : j[x] = c[x]
      /\ j.models = [m \in DOMAIN c.models |->
                       Restrict(c.models[m], DOMAIN c.models[m] \ Omitted(c.models[m]))]
  BY DEF FitForUse, IsConfiguration, Marshal, Sections
<1>2. \A m \in DOMAIN c.models :
        /\ DOMAIN j.models[m] = DOMAIN c.models[m] \ Omitted(c.models[m])
        /\ \A x \in DOMAIN j.models[m] : j.models[m][x] = c.models[m][x]
  <2> SUFFICES ASSUME NEW m \in DOMAIN c.models
               PROVE  /\ DOMAIN j.models[m] = DOMAIN c.models[m] \ Omitted(c.models[m])
                      /\ \A x \in DOMAIN j.models[m] : j.models[m][x] = c.models[m][x]
    OBVIOUS
  <2>1. j.models[m] = Restrict(c.models[m], DOMAIN c.models[m] \ Omitted(c.models[m]))
    BY <1>1
  <2> HIDE DEF j
  <2>2. QED
    BY <2>1 DEF Restrict
<1>3. j.instances = c.instances /\ j.keys = c.keys
  BY <1>1 DEF Sections
<1> HIDE DEF j
<1>4. IsConfiguration(j)
  BY <1>1, <1>2, <1>3 DEF IsConfiguration, FitForUse, Omitted
<1>5. ASSUME NEW m \in DOMAIN c.models
      PROVE  /\ Parse(j).models[m].provider = c.models[m].provider
             /\ Parse(j).models[m].enabled = c.models[m].enabled
             /\ Parse(j).models[m].inst = c.models[m].inst
             /\ Parse(j).models[m].insts = c.models[m].insts
  <2> DEFINE model == c.models[m]
  <2>1. Parse(j).models[m] = Merge(ModelDefaults, j.models[m])
    BY <1>1, <1>4, Parsed
  <2>2. {"provider", "enabled", "inst", "insts"} \subseteq DOMAIN model
    BY DEF FitForUse, IsConfiguration, Complete
  <2>3. ASSUME NEW x \in {"provider", "enabled", "inst", "insts"}
        PROVE  Parse(j).models[m][x] = model[x]
    <3>1. CASE x \in DOMAIN j.models[m]
      <4>1. Merge(ModelDefaults, j.models[m])[x] = j.models[m][x]
        BY <3>1, MergeGives
      <4>2. j.models[m][x] = model[x]
        BY <1>2, <3>1
      <4>3. QED
        BY <2>1, <4>1, <4>2
    <3>2. CASE x \notin DOMAIN j.models[m]
      <4>1. x \in {"inst", "insts"} /\ model[x] = ModelDefaults[x]
        BY <1>2, <2>2, <3>2 DEF Omitted
      <4>2. Merge(ModelDefaults, j.models[m])[x] = ModelDefaults[x]
        BY <3>2, <4>1, MergeValues, DefaultFields
      <4>3. QED
        BY <2>1, <4>1, <4>2
    <3>3. QED
      BY <3>1, <3>2
  <2>4. QED
    BY <2>3
<1>6. ASSUME NEW i \in DOMAIN c.instances
      PROVE  Parse(j).instances[i].key = c.instances[i].key /\ Parse(j).instances[i].enabled = c.instances[i].enabled
  <2>1. Parse(j).instances[i] = Merge(InstanceDefaults, c.instances[i])
    BY <1>3, <1>4, Parsed
  <2>2. {"key", "enabled"} \subseteq DOMAIN c.instances[i]
    BY DEF FitForUse, IsConfiguration, Complete
  <2>3. \A x \in {"key", "enabled"} :
          Merge(InstanceDefaults, c.instances[i])[x] = c.instances[i][x]
    BY <2>2, MergeGives
  <2>4. QED
    BY <2>1, <2>3
<1>7. \A m \in DOMAIN c.models : Instances(Parse(j).models[m]) = Instances(c.models[m])
  BY <1>5 DEF Instances
<1>8. Covers(Parse(j), c)
  <2>1. \A x \in Sections \ {"keys", "models", "instances"} : Parse(j)[x] = c[x]
    BY <1>1, <1>4, Parsed DEF Sections
  <2>2. DOMAIN Parse(j).models = DOMAIN c.models /\ DOMAIN Parse(j).instances = DOMAIN c.instances
    BY <1>1, <1>3, <1>4, Parsed
  <2>3. /\ DOMAIN Parse(j).keys = DOMAIN c.keys
        /\ \A k \in DOMAIN c.keys : Parse(j).keys[k].type = c.keys[k].type
    <3>1. Parse(j).keys = ReadKeys(c.keys)
      BY <1>3, <1>4, Parsed, Zenon
    <3>2. QED
      BY <3>1 DEF ReadKeys
  <2>4. QED
    BY <1>5, <1>6, <1>7, <2>1, <2>2, <2>3 DEF Covers, Sections
<1>9. QED
  BY <1>4, <1>8, CoversValid DEF FitForUse, j

\* A key that is added, or gets a new value under its old type, spoils nothing.
LEMMA NewKeySpoilsNothing ==
    ASSUME NEW raw, IsConfiguration(raw), NEW new,
           DOMAIN raw.keys \subseteq DOMAIN new,
           \A k \in DOMAIN new : {"type", "value"} \subseteq DOMAIN new[k],
           \A k \in DOMAIN raw.keys : new[k].type = raw.keys[k].type
    PROVE  /\ IsConfiguration([raw EXCEPT !.keys = new])
           /\ Valid(Parse(raw)) => Valid(Parse([raw EXCEPT !.keys = new]))
<1> DEFINE r == [raw EXCEPT !.keys = new]
<1>1. /\ DOMAIN r = Sections /\ r = [x \in Sections |-> r[x]]
      /\ r.keys = new
      /\ \A x \in Sections \ {"keys"} : r[x] = raw[x]
  BY DEF IsConfiguration, Sections
<1>2. r.models = raw.models /\ r.instances = raw.instances
  BY <1>1 DEF Sections
<1> HIDE DEF r
<1>3. IsConfiguration(r)
  BY <1>1, <1>2 DEF IsConfiguration
<1>4. \A m \in DOMAIN raw.models : Parse(r).models[m] = Parse(raw).models[m]
  BY <1>2, <1>3, Parsed
<1>5. \A i \in DOMAIN raw.instances : Parse(r).instances[i] = Parse(raw).instances[i]
  BY <1>2, <1>3, Parsed
<1>6. /\ DOMAIN Parse(r).models = DOMAIN raw.models /\ DOMAIN Parse(raw).models = DOMAIN raw.models
      /\ DOMAIN Parse(r).instances = DOMAIN raw.instances
      /\ DOMAIN Parse(raw).instances = DOMAIN raw.instances
  BY <1>2, <1>3, Parsed
<1>7. /\ Parse(r).keys = ReadKeys(new) /\ Parse(raw).keys = ReadKeys(raw.keys)
      /\ \A x \in {"weak", "strong", "judging", "judges"} : Parse(r)[x] = Parse(raw)[x]
  BY <1>1, <1>3, Parsed DEF Sections
<1>8. Covers(Parse(r), Parse(raw))
  BY <1>4, <1>5, <1>6, <1>7 DEF Covers, ReadKeys
<1>9. QED
  BY <1>3, <1>8, CoversValid DEF r

-----------------------------------------------------------------------------
(* One content gives one configuration *)

\* The order of a Go map does not reach the configuration: among models that
\* differ, one always comes before the other.
LEMMA SortedOnce ==
    ASSUME NEW older \in LegacyFiles, NEW S \in SUBSET DOMAIN older, NEW rank, NEW other
    PROVE  Sorted(older, S, rank) = Sorted(older, S, other)
<1> DEFINE Sooner(r, a, b) == \/ Before(older, a, b)
                              \/ ~Before(older, b, a) /\ r[a] < r[b]
           InOrder(r, s) == \A i, j \in DOMAIN s : i < j => Sooner(r, s[i], s[j])
<1>1. ASSUME NEW a \in S, NEW b \in S, a # b
      PROVE  Sooner(rank, a, b) <=> Sooner(other, a, b)
  <2>1. a \in Int /\ b \in Int /\ older[a].order \in Int /\ older[b].order \in Int
    <3>1. a \in DOMAIN older /\ b \in DOMAIN older
      OBVIOUS
    <3>2. \A m \in DOMAIN older : m \in ModelIds /\ older[m].order \in Int
      BY CatalogAssumption, Zenon
    <3>3. ModelIds \subseteq Nat
      BY CatalogAssumption, Zenon
    <3>4. a \in ModelIds /\ b \in ModelIds /\ older[a].order \in Int /\ older[b].order \in Int
      BY <3>1, <3>2, Zenon
    <3>5. a \in Nat /\ b \in Nat
      BY <3>3, <3>4, Zenon
    <3>6. a \in Int /\ b \in Int
      BY <3>5
    <3>7. QED
      BY <3>4, <3>6, Zenon
  <2>2. Before(older, a, b) \/ Before(older, b, a)
    BY <1>1, <2>1 DEF Before
  <2>3. QED
    BY <2>2
<1>2. ASSUME NEW s \in SetToSeqs(S)
      PROVE  InOrder(rank, s) <=> InOrder(other, s)
  <2>1. ASSUME NEW i \in DOMAIN s, NEW j \in DOMAIN s, i < j
        PROVE  Sooner(rank, s[i], s[j]) <=> Sooner(other, s[i], s[j])
    <3>1. /\ s \in [1..Cardinality(S) -> S]
          /\ \A k, l \in 1..Cardinality(S) : k # l => s[k] # s[l]
      BY DEF SetToSeqs
    <3>2. i \in 1..Cardinality(S) /\ j \in 1..Cardinality(S) /\ i # j
      BY <2>1, <3>1
    <3>3. s[i] \in S /\ s[j] \in S /\ s[i] # s[j]
      BY <3>1, <3>2
    <3> HIDE DEF Sooner
    <3>4. QED
      BY <1>1, <3>3
  <2> HIDE DEF Sooner
  <2>2. QED
    BY <2>1
<1>3. /\ Sorted(older, S, rank) = (CHOOSE s \in SetToSeqs(S) : InOrder(rank, s))
      /\ Sorted(older, S, other) = (CHOOSE s \in SetToSeqs(S) : InOrder(other, s))
  BY Zenon DEF Sorted
<1> HIDE DEF InOrder
<1>4. (CHOOSE s \in SetToSeqs(S) : InOrder(rank, s)) = (CHOOSE s \in SetToSeqs(S) : InOrder(other, s))
  BY <1>2, Zenon
<1>5. QED
  BY <1>3, <1>4, Zenon

LEMMA ImportOnce ==
    ASSUME NEW older \in LegacyFiles, NEW rank, NEW other
    PROVE  Import(older, rank) = Import(older, other)
<1> DEFINE active == {m \in DOMAIN older : older[m].active}
           weak == {m \in active : ~older[m].strong}
           strong == {m \in active : older[m].strong}
           judging == {m \in active : older[m].provider = Gemini \/ m \in JudgeNamed}
<1>1. /\ weak \in SUBSET DOMAIN older /\ strong \in SUBSET DOMAIN older
      /\ judging \in SUBSET DOMAIN older
  OBVIOUS
<1>2. Sorted(older, weak, rank) = Sorted(older, weak, other)
  BY <1>1, SortedOnce, Zenon
<1>3. Sorted(older, strong, rank) = Sorted(older, strong, other)
  BY <1>1, SortedOnce, Zenon
<1>4. Sorted(older, judging, rank) = Sorted(older, judging, other)
  BY <1>1, SortedOnce, Zenon
<1>5. QED
  BY <1>2, <1>3, <1>4, Zenon DEF Import

LEMMA LoadsOnce ==
    ASSUME NEW f, NEW older \in LegacyFiles, NEW c \in Loads(f, older), NEW d \in Loads(f, older)
    PROVE  c = d
<1>1. CASE f = Absent
  <2>1. PICK rank, other : c = Normal(Import(older, rank)) /\ d = Normal(Import(older, other))
    BY <1>1 DEF Loads
  <2>2. QED
    BY <2>1, ImportOnce, Zenon
<1>2. CASE f # Absent
  BY <1>2 DEF Loads
<1>3. QED
  BY <1>1, <1>2

-----------------------------------------------------------------------------
(* There and back *)

\* Models, instances and keys are records, and nothing besides, and no key's
\* value is a placeholder.
Whole(c) ==
    /\ c.keys = ReadKeys(c.keys)
    /\ c.models = [m \in DOMAIN c.models |-> [x \in DOMAIN c.models[m] |-> c.models[m][x]]]
    /\ c.instances = [i \in DOMAIN c.instances |-> [x \in DOMAIN c.instances[i] |-> c.instances[i][x]]]

LEMMA NormalWhole ==
    ASSUME NEW c, IsConfiguration(c), c.keys = ReadKeys(c.keys),
           c.instances = [i \in DOMAIN c.instances |-> [x \in DOMAIN c.instances[i] |-> c.instances[i][x]]]
    PROVE  Whole(Normal(c))
<1>1. /\ Normal(c).instances = c.instances /\ Normal(c).keys = c.keys
      /\ Normal(c).models = [m \in DOMAIN c.models |-> [c.models[m] EXCEPT !.insts = Instances(c.models[m])]]
  BY DEF Normal, IsConfiguration, Sections
<1> DEFINE ms == Normal(c).models
<1>2. ms = [m \in DOMAIN c.models |-> [c.models[m] EXCEPT !.insts = Instances(c.models[m])]]
  BY <1>1
<1> HIDE DEF ms
<1>3. ms = [m \in DOMAIN ms |-> [x \in DOMAIN ms[m] |-> ms[m][x]]]
  BY <1>2
<1>4. QED
  BY <1>1, <1>3 DEF Whole, ms

LEMMA ResolvedOnce ==
    ASSUME NEW v
    PROVE  Resolve(Resolve(v)) = Resolve(v)
BY CatalogAssumption DEF Resolve

LEMMA LoadedWhole ==
    ASSUME NEW f, FileOK(f), NEW older \in LegacyFiles, NEW c \in Loads(f, older)
    PROVE  Whole(c)
<1>1. PICK d : /\ c = Normal(d)
               /\ \/ f = Absent /\ \E rank : d = Import(older, rank)
                  \/ f \notin {Absent, Broken} /\ d = Parse(f)
  BY AbsentIsNone DEF Loads
<1>2. CASE \E rank : d = Import(older, rank)
  <2>1. PICK rank : d = Import(older, rank)
    BY <1>2
  <2>2. IsConfiguration(d)
    BY <2>1, Imported
  <2>3. \E P : d.instances = [p \in P |-> [key |-> p, enabled |-> TRUE]]
    BY <2>1 DEF Import
  <2>4. d.instances = [i \in DOMAIN d.instances |-> [x \in DOMAIN d.instances[i] |-> d.instances[i][x]]]
    BY <2>3
  <2>5. d.keys = ReadKeys(d.keys)
    <3> DEFINE P == {older[m].provider : m \in {n \in DOMAIN older : older[n].active}}
    <3>1. d.keys = [p \in P |-> [type |-> p, value |-> EnvKeys[p]]]
      BY <2>1 DEF Import
    <3>2. \A p \in P : EnvKeys[p] \notin DOMAIN Env
      BY CatalogAssumption, Zenon
    <3> HIDE DEF P
    <3>3. \A p \in P : Resolve(EnvKeys[p]) = EnvKeys[p]
      BY <3>2 DEF Resolve
    <3>4. QED
      BY <3>1, <3>3 DEF ReadKeys
  <2>6. QED
    BY <1>1, <2>2, <2>4, <2>5, NormalWhole
<1>3. CASE f \notin {Absent, Broken} /\ d = Parse(f)
  <2>1. IsConfiguration(f) /\ IsConfiguration(d)
    BY <1>3, Parsed DEF FileOK
  <2>2. d.instances = [i \in DOMAIN f.instances |-> Merge(InstanceDefaults, f.instances[i])]
    BY <1>3, <2>1 DEF Parse, IsConfiguration, Sections
  <2>3. \A u : Merge(InstanceDefaults, u) =
                 [x \in DOMAIN Merge(InstanceDefaults, u) |-> Merge(InstanceDefaults, u)[x]]
    BY DEF Merge
  <2>4. d.instances = [i \in DOMAIN d.instances |-> [x \in DOMAIN d.instances[i] |-> d.instances[i][x]]]
    BY <2>2, <2>3
  <2>5. d.keys = ReadKeys(d.keys)
    <3>1. d.keys = ReadKeys(f.keys)
      BY <1>3, <2>1, Parsed
    <3>2. QED
      BY <3>1, ResolvedOnce DEF ReadKeys
  <2>6. QED
    BY <1>1, <2>1, <2>4, <2>5, NormalWhole
<1>4. QED
  BY <1>1, <1>2, <1>3

\* Written and read back, a configuration in force is the same.
LEMMA ThereAndBack ==
    ASSUME NEW c, FitForUse(c), Whole(c)
    PROVE  Normal(Parse(Marshal(c))) = c
<1> DEFINE j == Marshal(c)
           p == Parse(j)
           n == Normal(p)
<1>1. /\ \A x \in Sections \ {"models"} : j[x] = c[x]
      /\ j.models = [m \in DOMAIN c.models |->
                       Restrict(c.models[m], DOMAIN c.models[m] \ Omitted(c.models[m]))]
      /\ IsConfiguration(j)
  BY MarshalledBack DEF FitForUse, IsConfiguration, Marshal, Sections
<1> HIDE DEF j
<1>2. /\ IsConfiguration(p) /\ Complete(p)
      /\ \A x \in Sections \ {"keys", "models", "instances"} : p[x] = j[x]
      /\ p.keys = ReadKeys(j.keys)
      /\ p.models = [m \in DOMAIN j.models |-> Merge(ModelDefaults, j.models[m])]
      /\ p.instances = [i \in DOMAIN j.instances |-> Merge(InstanceDefaults, j.instances[i])]
  <2>1. /\ IsConfiguration(p) /\ Complete(p)
        /\ \A x \in Sections \ {"keys", "models", "instances"} : p[x] = j[x]
        /\ p.keys = ReadKeys(j.keys)
    BY <1>1, Parsed, Zenon
  <2>2. /\ p.models = [m \in DOMAIN j.models |-> Merge(ModelDefaults, j.models[m])]
        /\ p.instances = [i \in DOMAIN j.instances |-> Merge(InstanceDefaults, j.instances[i])]
    BY <1>1 DEF Parse, IsConfiguration, Sections
  <2>3. QED
    BY <2>1, <2>2
<1> HIDE DEF p
<1>3. /\ DOMAIN n = Sections /\ n = [x \in Sections |-> n[x]]
      /\ \A x \in Sections \ {"models"} : n[x] = p[x]
      /\ n.models = [m \in DOMAIN p.models |-> [p.models[m] EXCEPT !.insts = Instances(p.models[m])]]
  BY <1>2 DEF Normal, IsConfiguration, Sections
<1> HIDE DEF n
<1>4. ASSUME NEW m \in DOMAIN c.models
      PROVE  p.models[m] = c.models[m]
  <2> DEFINE model == c.models[m]
             written == Restrict(model, DOMAIN model \ Omitted(model))
  <2>1. p.models[m] = Merge(ModelDefaults, written)
    BY <1>1, <1>2
  <2>2. {"enabled", "inst", "insts"} \subseteq DOMAIN model
    BY DEF FitForUse, Complete
  <2>3. model = [x \in DOMAIN model |-> model[x]]
    BY DEF Whole
  <2> HIDE DEF model
  <2>4. DOMAIN written = DOMAIN model \ Omitted(model) /\ \A x \in DOMAIN written : written[x] = model[x]
    BY DEF Restrict
  <2> HIDE DEF written
  <2>5. /\ Omitted(model) \subseteq {"inst", "insts"}
        /\ \A x \in Omitted(model) : model[x] = ModelDefaults[x]
    BY DEF Omitted
  <2>6. DOMAIN Merge(ModelDefaults, written) = DOMAIN model
    <3>1. DOMAIN Merge(ModelDefaults, written) = {"enabled", "inst", "insts"} \cup DOMAIN written
      BY MergeValues, DefaultFields, Zenon
    <3>2. QED
      BY <2>2, <2>4, <2>5, <3>1
  <2>7. ASSUME NEW x \in DOMAIN model
        PROVE  Merge(ModelDefaults, written)[x] = model[x]
    <3>1. CASE x \in DOMAIN written
      BY <2>4, <3>1, MergeGives
    <3>2. CASE x \notin DOMAIN written
      <4>1. x \in Omitted(model)
        BY <2>4, <3>2
      <4>2. x \in DOMAIN ModelDefaults \ DOMAIN written
        BY <2>5, <3>2, <4>1, DefaultFields
      <4>3. Merge(ModelDefaults, written)[x] = ModelDefaults[x]
        BY <4>2, MergeValues, Zenon
      <4>4. QED
        BY <2>5, <4>1, <4>3
    <3>3. QED
      BY <3>1, <3>2
  <2>8. Merge(ModelDefaults, written) = [x \in DOMAIN model |-> Merge(ModelDefaults, written)[x]]
    BY <2>6 DEF Merge
  <2>9. QED
    BY <2>1, <2>3, <2>7, <2>8 DEF model
<1>5. n.models = c.models
  <2>1. DOMAIN p.models = DOMAIN c.models
    BY <1>1, <1>2
  <2>2. ASSUME NEW m \in DOMAIN c.models
        PROVE  [p.models[m] EXCEPT !.insts = Instances(p.models[m])] = [x \in DOMAIN c.models[m] |-> c.models[m][x]]
    <3>1. c.models[m].insts = Instances(c.models[m])
      BY DEF FitForUse
    <3>2. [c.models[m] EXCEPT !.insts = Instances(c.models[m])] = [x \in DOMAIN c.models[m] |-> c.models[m][x]]
      BY <3>1
    <3>3. QED
      BY <1>4, <3>2
  <2>3. n.models = [m \in DOMAIN c.models |-> [x \in DOMAIN c.models[m] |-> c.models[m][x]]]
    BY <1>3, <2>1, <2>2
  <2>4. QED
    BY <2>3 DEF Whole
<1>6. n.instances = c.instances
  <2>1. j.instances = c.instances /\ n.instances = p.instances
    BY <1>1, <1>3 DEF Sections
  <2>2. ASSUME NEW i \in DOMAIN c.instances
        PROVE  Merge(InstanceDefaults, c.instances[i]) = [x \in DOMAIN c.instances[i] |-> c.instances[i][x]]
    <3>1. "enabled" \in DOMAIN c.instances[i]
      BY DEF FitForUse, Complete
    <3>2. QED
      BY <3>1, DefaultFields DEF Merge
  <2>3. p.instances = [i \in DOMAIN c.instances |-> [x \in DOMAIN c.instances[i] |-> c.instances[i][x]]]
    BY <1>2, <2>1, <2>2
  <2>4. QED
    BY <2>1, <2>3 DEF Whole
<1>7. \A x \in Sections : n[x] = c[x]
  <2>1. n.keys = c.keys
    BY <1>1, <1>2, <1>3 DEF Sections, Whole
  <2>2. QED
    BY <1>1, <1>2, <1>3, <1>5, <1>6, <2>1 DEF Sections
<1>8. c = [x \in Sections |-> c[x]]
  BY DEF FitForUse, IsConfiguration
<1>9. QED
  BY <1>3, <1>7, <1>8 DEF n, p, j

-----------------------------------------------------------------------------
(* What a request changes *)

\* What is in force once raw, a file's content, is loaded.
Loaded(raw) == Normal(Parse(raw))
ReadModel(raw) ==
    [Merge(ModelDefaults, raw) EXCEPT !.insts = Instances(Merge(ModelDefaults, raw))]

LEMMA LoadedIs ==
    ASSUME NEW raw, IsConfiguration(raw)
    PROVE  /\ \A x \in {"weak", "strong", "judging", "judges"} : Loaded(raw)[x] = raw[x]
           /\ Loaded(raw).keys = ReadKeys(raw.keys)
           /\ Loaded(raw).models = [m \in DOMAIN raw.models |-> ReadModel(raw.models[m])]
           /\ Loaded(raw).instances =
                [i \in DOMAIN raw.instances |-> Merge(InstanceDefaults, raw.instances[i])]
<1> DEFINE p == Parse(raw)
<1>1. /\ IsConfiguration(p)
      /\ \A x \in {"weak", "strong", "judging", "judges"} : p[x] = raw[x]
      /\ p.keys = ReadKeys(raw.keys)
      /\ p.models = [m \in DOMAIN raw.models |-> Merge(ModelDefaults, raw.models[m])]
      /\ p.instances = [i \in DOMAIN raw.instances |-> Merge(InstanceDefaults, raw.instances[i])]
  BY Parsed DEF Parse, IsConfiguration, Sections
<1> HIDE DEF p
<1>2. /\ \A x \in Sections \ {"models"} : Normal(p)[x] = p[x]
      /\ Normal(p).models = [m \in DOMAIN p.models |-> [p.models[m] EXCEPT !.insts = Instances(p.models[m])]]
  BY <1>1 DEF Normal, IsConfiguration, Sections
<1>3. Loaded(raw) = Normal(p)
  BY DEF Loaded, p
<1>4. Normal(p).models = [m \in DOMAIN raw.models |-> ReadModel(raw.models[m])]
  BY <1>1, <1>2 DEF ReadModel
<1>5. QED
  BY <1>1, <1>2, <1>3, <1>4 DEF Sections

\* The places where two functions differ.
Different(f, g) ==
    {x \in DOMAIN f \cup DOMAIN g : x \notin DOMAIN f \cap DOMAIN g \/ f[x] # g[x]}

LEMMA ChangedIs ==
    ASSUME NEW c, NEW d
    PROVE  Changed(c, d) =
             {<<"keys", k>> : k \in Different(c.keys, d.keys)}
               \cup {<<"instances", i>> : i \in Different(c.instances, d.instances)}
               \cup {<<"models", m>> : m \in Different(c.models, d.models)}
               \cup {<<x>> : x \in {y \in {"weak", "strong", "judging", "judges"} : c[y] # d[y]}}
BY Zenon DEF Changed, Different

\* Enough for the changes to be within entries.
LEMMA ChangedWithin ==
    ASSUME NEW c, NEW d, NEW entries,
           \A k \in Different(c.keys, d.keys) : <<"keys", k>> \in entries,
           c.instances = d.instances,
           \A m \in Different(c.models, d.models) : <<"models", m>> \in entries,
           \A x \in {"weak", "strong", "judging", "judges"} : c[x] = d[x] \/ <<x>> \in entries
    PROVE  Changed(c, d) \subseteq entries
<1>1. Different(c.instances, d.instances) = {}
  BY DEF Different
<1>2. QED
  BY <1>1, ChangedIs

LEMMA NoneChanged ==
    ASSUME NEW c
    PROVE  Changed(c, c) = {}
<1>1. /\ Different(c.keys, c.keys) = {} /\ Different(c.models, c.models) = {}
      /\ Different(c.instances, c.instances) = {}
  BY DEF Different
<1>2. QED
  BY <1>1, ChangedIs

\* Raw contents whose configurations differ within entries.
Near(entries, r, s) == Changed(Loaded(r), Loaded(s)) \subseteq entries

LEMMA OtherModelNear ==
    ASSUME NEW r, IsConfiguration(r), NEW new, NEW m,
           IsConfiguration([r EXCEPT !.models = new]),
           DOMAIN r.models \ {m} = DOMAIN new \ {m},
           \A n \in DOMAIN new \ {m} : new[n] = r.models[n]
    PROVE  Near({<<"models", m>>}, r, [r EXCEPT !.models = new])
<1> DEFINE s == [r EXCEPT !.models = new]
           c == Loaded(r)
           d == Loaded(s)
<1>1. s.models = new /\ \A x \in Sections \ {"models"} : s[x] = r[x]
  BY DEF IsConfiguration, Sections
<1>2. IsConfiguration(s)
  OBVIOUS
<1> HIDE DEF s
<1>3. /\ \A x \in {"weak", "strong", "judging", "judges"} : c[x] = d[x]
      /\ c.keys = d.keys /\ c.instances = d.instances
      /\ c.models = [n \in DOMAIN r.models |-> ReadModel(r.models[n])]
      /\ d.models = [n \in DOMAIN new |-> ReadModel(new[n])]
  <2>1. /\ \A x \in {"weak", "strong", "judging", "judges"} : c[x] = r[x]
        /\ c.keys = ReadKeys(r.keys)
        /\ c.models = [n \in DOMAIN r.models |-> ReadModel(r.models[n])]
        /\ c.instances = [n \in DOMAIN r.instances |-> Merge(InstanceDefaults, r.instances[n])]
    BY LoadedIs
  <2>2. /\ \A x \in {"weak", "strong", "judging", "judges"} : d[x] = s[x]
        /\ d.keys = ReadKeys(s.keys)
        /\ d.models = [n \in DOMAIN s.models |-> ReadModel(s.models[n])]
        /\ d.instances = [n \in DOMAIN s.instances |-> Merge(InstanceDefaults, s.instances[n])]
    BY <1>2, LoadedIs
  <2> HIDE DEF c, d
  <2>3. QED
    BY <1>1, <2>1, <2>2 DEF Sections
<1> HIDE DEF c, d
<1>4. Different(c.models, d.models) \subseteq {m} /\ Different(c.keys, d.keys) = {}
  BY <1>3 DEF Different
<1>5. Changed(c, d) \subseteq {<<"models", m>>}
  <2> DEFINE entries == {<<"models", m>>}
  <2>1. /\ \A k \in Different(c.keys, d.keys) : <<"keys", k>> \in entries
        /\ \A n \in Different(c.models, d.models) : <<"models", n>> \in entries
    BY <1>4
  <2>2. \A x \in {"weak", "strong", "judging", "judges"} : c[x] = d[x] \/ <<x>> \in entries
    BY <1>3
  <2>3. c.instances = d.instances
    BY <1>3
  <2> HIDE DEF entries
  <2>4. Changed(c, d) \subseteq entries
    BY <2>1, <2>2, <2>3, ChangedWithin
  <2>5. QED
    BY <2>4 DEF entries
<1>6. QED
  BY <1>5 DEF Near, c, d, s

LEMMA OtherKeysNear ==
    ASSUME NEW r, IsConfiguration(r), NEW new, NEW K,
           IsConfiguration([r EXCEPT !.keys = new]),
           DOMAIN r.keys \ K = DOMAIN new \ K,
           \A j \in DOMAIN new \ K : new[j] = r.keys[j]
    PROVE  Near({<<"keys", k>> : k \in K}, r, [r EXCEPT !.keys = new])
<1> DEFINE s == [r EXCEPT !.keys = new]
           c == Loaded(r)
           d == Loaded(s)
<1>1. s.keys = new /\ \A x \in Sections \ {"keys"} : s[x] = r[x]
  BY DEF IsConfiguration, Sections
<1>2. IsConfiguration(s)
  OBVIOUS
<1> HIDE DEF s
<1>3. /\ \A x \in {"weak", "strong", "judging", "judges"} : c[x] = d[x]
      /\ c.instances = d.instances /\ c.models = d.models
      /\ c.keys = ReadKeys(r.keys) /\ d.keys = ReadKeys(new)
  <2>1. /\ \A x \in {"weak", "strong", "judging", "judges"} : c[x] = r[x]
        /\ c.keys = ReadKeys(r.keys)
        /\ c.models = [n \in DOMAIN r.models |-> ReadModel(r.models[n])]
        /\ c.instances = [n \in DOMAIN r.instances |-> Merge(InstanceDefaults, r.instances[n])]
    BY LoadedIs
  <2>2. /\ \A x \in {"weak", "strong", "judging", "judges"} : d[x] = s[x]
        /\ d.keys = ReadKeys(s.keys)
        /\ d.models = [n \in DOMAIN s.models |-> ReadModel(s.models[n])]
        /\ d.instances = [n \in DOMAIN s.instances |-> Merge(InstanceDefaults, s.instances[n])]
    BY <1>2, LoadedIs
  <2> HIDE DEF c, d
  <2>3. QED
    BY <1>1, <2>1, <2>2 DEF Sections
<1> HIDE DEF c, d
<1>4. Different(c.keys, d.keys) \subseteq K /\ Different(c.models, d.models) = {}
  BY <1>3 DEF Different, ReadKeys
<1>5. Changed(c, d) \subseteq {<<"keys", k>> : k \in K}
  <2> DEFINE entries == {<<"keys", j>> : j \in K}
  <2>1. /\ \A k \in Different(c.keys, d.keys) : <<"keys", k>> \in entries
        /\ \A n \in Different(c.models, d.models) : <<"models", n>> \in entries
    BY <1>4
  <2>2. \A x \in {"weak", "strong", "judging", "judges"} : c[x] = d[x] \/ <<x>> \in entries
    BY <1>3
  <2>3. c.instances = d.instances
    BY <1>3
  <2> HIDE DEF entries
  <2>4. Changed(c, d) \subseteq entries
    BY <2>1, <2>2, <2>3, ChangedWithin
  <2>5. QED
    BY <2>4 DEF entries
<1>6. QED
  BY <1>5 DEF Near, c, d, s

LEMMA OtherSectionNear ==
    ASSUME NEW r, IsConfiguration(r), NEW s, IsConfiguration(s), NEW X,
           \A x \in Sections \ X : s[x] = r[x],
           \A x \in {"keys", "instances", "models"} : s[x] = r[x]
    PROVE  Near({<<x>> : x \in X}, r, s)
<1> DEFINE c == Loaded(r)
           d == Loaded(s)
<1>1. /\ \A x \in {"weak", "strong", "judging", "judges"} : c[x] = r[x] /\ d[x] = s[x]
      /\ c.keys = d.keys /\ c.instances = d.instances /\ c.models = d.models
  <2>1. /\ \A x \in {"weak", "strong", "judging", "judges"} : c[x] = r[x]
        /\ c.keys = ReadKeys(r.keys)
        /\ c.models = [n \in DOMAIN r.models |-> ReadModel(r.models[n])]
        /\ c.instances = [n \in DOMAIN r.instances |-> Merge(InstanceDefaults, r.instances[n])]
    BY LoadedIs
  <2>2. /\ \A x \in {"weak", "strong", "judging", "judges"} : d[x] = s[x]
        /\ d.keys = ReadKeys(s.keys)
        /\ d.models = [n \in DOMAIN s.models |-> ReadModel(s.models[n])]
        /\ d.instances = [n \in DOMAIN s.instances |-> Merge(InstanceDefaults, s.instances[n])]
    BY LoadedIs
  <2> HIDE DEF c, d
  <2>3. QED
    BY <2>1, <2>2
<1> HIDE DEF c, d
<1>2. Different(c.keys, d.keys) = {} /\ Different(c.models, d.models) = {}
  BY <1>1 DEF Different
<1>3. \A x \in {"weak", "strong", "judging", "judges"} : c[x] = d[x] \/ <<x>> \in {<<y>> : y \in X}
  BY <1>1 DEF Sections
<1>4. Changed(c, d) \subseteq {<<x>> : x \in X}
  <2> DEFINE entries == {<<y>> : y \in X}
  <2>1. /\ \A k \in Different(c.keys, d.keys) : <<"keys", k>> \in entries
        /\ \A n \in Different(c.models, d.models) : <<"models", n>> \in entries
    BY <1>2
  <2>2. \A x \in {"weak", "strong", "judging", "judges"} : c[x] = d[x] \/ <<x>> \in entries
    BY <1>3
  <2>3. c.instances = d.instances
    BY <1>1
  <2> HIDE DEF entries
  <2>4. Changed(c, d) \subseteq entries
    BY <2>1, <2>2, <2>3, ChangedWithin
  <2>5. QED
    BY <2>4 DEF entries
<1>5. QED
  BY <1>4 DEF Near, c, d

-----------------------------------------------------------------------------
(* The invariant *)

\* A reload gives something fit for use or changes nothing.
LEMMA ReloadFits ==
    ASSUME FitForUse(config), NEW f, FileOK(f), ForceReload(f)
    PROVE  FitForUse(config)'
<1>1. CASE config' \in Loads(f, legacy)
  <2>1. FitForUse(config')
    BY <1>1, LoadedFits
  <2>2. QED
    BY <2>1 DEF FitForUse, IsConfiguration, Complete
<1>2. CASE UNCHANGED config
  BY <1>2
<1>3. QED
  BY <1>1, <1>2 DEF ForceReload

\* What a request starts from.
LEMMA RawOK ==
    ASSUME CatalogInv, file # Broken
    PROVE  /\ IsConfiguration(Raw)
           /\ Loads(file, legacy) # {} => Valid(Parse(Raw))
<1>1. CASE file = Absent
  BY <1>1, MarshalledBack DEF CatalogInv, Raw
<1>2. CASE file # Absent
  <2>1. Raw = file /\ IsConfiguration(file)
    BY <1>2 DEF CatalogInv, FileOK, Raw
  <2>2. QED
    BY <2>1, ValidLoads
<1>3. QED
  BY <1>1, <1>2

\* A request that changes models keeps the shape, if what it writes has it.
LEMMA NewModelsShape ==
    ASSUME NEW raw, IsConfiguration(raw), NEW new,
           \A m \in DOMAIN new : "provider" \in DOMAIN new[m]
    PROVE  IsConfiguration([raw EXCEPT !.models = new])
<1> DEFINE r == [raw EXCEPT !.models = new]
<1>1. /\ DOMAIN r = Sections /\ r = [x \in Sections |-> r[x]]
      /\ r.models = new /\ r.instances = raw.instances /\ r.keys = raw.keys
  BY DEF IsConfiguration, Sections
<1> HIDE DEF r
<1>2. IsConfiguration(r)
  BY <1>1 DEF IsConfiguration
<1>3. QED
  BY <1>2 DEF r

\* A request that changes what it names.
Patches == \E entries, raw : IsConfiguration(raw) /\ Near(entries, Raw, raw) /\ Patch(entries, raw)

LEMMA CreateShape ==
    ASSUME CatalogInv, NEW m \in ModelIds, NEW model \in NewModels, CreateModel(m, model)
    PROVE  Patches
<1> DEFINE new == Merge(Raw.models, [x \in {m} |-> model])
<1>1. IsConfiguration(Raw)
  BY RawOK DEF CreateModel
<1>2. \A n \in DOMAIN new : "provider" \in DOMAIN new[n]
  BY <1>1, CatalogAssumption DEF IsConfiguration, Merge
<1>3. IsConfiguration([Raw EXCEPT !.models = new])
  BY <1>1, <1>2, NewModelsShape
<1>4. Near({<<"models", m>>}, Raw, [Raw EXCEPT !.models = new])
  <2>1. /\ DOMAIN Raw.models \ {m} = DOMAIN new \ {m}
        /\ \A n \in DOMAIN new \ {m} : new[n] = Raw.models[n]
    BY DEF Merge
  <2> HIDE DEF new
  <2>2. QED
    BY <1>1, <1>3, <2>1, OtherModelNear
<1>5. QED
  BY <1>3, <1>4 DEF CreateModel, Patches

LEMMA UpdateShape ==
    ASSUME CatalogInv, NEW m \in ModelIds, NEW update \in ModelUpdates, UpdateModel(m, update)
    PROVE  Patches
<1> DEFINE new == [Raw.models EXCEPT ![m] = Merge(@, update)]
<1>1. IsConfiguration(Raw)
  BY RawOK DEF UpdateModel
<1>2. \A n \in DOMAIN new : "provider" \in DOMAIN new[n]
  <2>1. DOMAIN new = DOMAIN Raw.models
    OBVIOUS
  <2>2. \A n \in DOMAIN new : n # m => new[n] = Raw.models[n]
    OBVIOUS
  <2>3. m \in DOMAIN new => new[m] = Merge(Raw.models[m], update)
    OBVIOUS
  <2>4. DOMAIN Raw.models[m] \subseteq DOMAIN Merge(Raw.models[m], update)
    BY DEF Merge
  <2>5. QED
    BY <1>1, <2>1, <2>2, <2>3, <2>4 DEF IsConfiguration
<1>3. IsConfiguration([Raw EXCEPT !.models = new])
  BY <1>1, <1>2, NewModelsShape
<1>4. [Raw EXCEPT !.models = new] = [Raw EXCEPT !.models[m] = Merge(@, update)]
  OBVIOUS
<1>5. Near({<<"models", m>>}, Raw, [Raw EXCEPT !.models = new])
  <2>1. /\ DOMAIN Raw.models \ {m} = DOMAIN new \ {m}
        /\ \A n \in DOMAIN new \ {m} : new[n] = Raw.models[n]
    OBVIOUS
  <2> HIDE DEF new
  <2>2. QED
    BY <1>1, <1>3, <2>1, OtherModelNear
<1>6. QED
  BY <1>3, <1>4, <1>5 DEF UpdateModel, Patches

LEMMA DeleteShape ==
    ASSUME CatalogInv, NEW m \in ModelIds, DeleteModel(m)
    PROVE  Patches
<1> DEFINE new == Restrict(Raw.models, DOMAIN Raw.models \ {m})
<1>1. IsConfiguration(Raw)
  BY RawOK DEF DeleteModel
<1>2. \A n \in DOMAIN new : "provider" \in DOMAIN new[n]
  BY <1>1 DEF IsConfiguration, Restrict
<1>3. IsConfiguration([Raw EXCEPT !.models = new])
  BY <1>1, <1>2, NewModelsShape
<1>4. Near({<<"models", m>>}, Raw, [Raw EXCEPT !.models = new])
  <2>1. /\ DOMAIN Raw.models \ {m} = DOMAIN new \ {m}
        /\ \A n \in DOMAIN new \ {m} : new[n] = Raw.models[n]
    BY DEF Restrict
  <2> HIDE DEF new
  <2>2. QED
    BY <1>1, <1>3, <2>1, OtherModelNear
<1>5. QED
  BY <1>3, <1>4 DEF DeleteModel, Patches

LEMMA SectionShape ==
    ASSUME CatalogInv, NEW update \in OrderUpdates \cup JudgeUpdates, UpdateSection(update)
    PROVE  Patches
<1> DEFINE r == Merge(Raw, update)
<1>1. IsConfiguration(Raw)
  BY RawOK DEF UpdateSection
<1>2. DOMAIN update \subseteq {"weak", "strong"} \/ DOMAIN update \subseteq {"judging", "judges"}
  BY CatalogAssumption
<1>3. DOMAIN r = Sections /\ r = [x \in Sections |-> r[x]]
  BY <1>1, <1>2 DEF Merge, IsConfiguration, Sections
<1>4. \A x \in Sections \ DOMAIN update : r[x] = Raw[x]
  BY <1>1 DEF Merge, IsConfiguration
<1> HIDE DEF r
<1>5. r.keys = Raw.keys /\ r.models = Raw.models /\ r.instances = Raw.instances
  BY <1>2, <1>4 DEF Sections
<1>6. IsConfiguration(r)
  BY <1>1, <1>3, <1>5 DEF IsConfiguration
<1>7. Near({<<x>> : x \in DOMAIN update}, Raw, r)
  BY <1>1, <1>4, <1>5, <1>6, OtherSectionNear
<1>8. QED
  BY <1>6, <1>7 DEF UpdateSection, Patches, r

\* What the keys are after a request: those at hand keep their types.
LEMMA KeysAfterKeep ==
    ASSUME NEW keys, NEW update,
           \A k \in DOMAIN keys : {"type", "value"} \subseteq DOMAIN keys[k],
           \A k \in DOMAIN update : "value" \in DOMAIN update[k],
           \A k \in DOMAIN update : k \in DOMAIN keys \/ "type" \in DOMAIN update[k]
    PROVE  LET new == KeysAfter(keys, update)
           IN  /\ DOMAIN new = DOMAIN keys \cup DOMAIN update
               /\ \A k \in DOMAIN new : {"type", "value"} \subseteq DOMAIN new[k]
               /\ \A k \in DOMAIN keys : new[k].type = keys[k].type
               /\ \A k \in DOMAIN new \ DOMAIN update : new[k] = keys[k]
<1> DEFINE sent == [k \in DOMAIN update |->
                     IF k \in DOMAIN keys THEN [keys[k] EXCEPT !.value = update[k].value]
                     ELSE update[k]]
           new == KeysAfter(keys, update)
<1>1. new = Merge(keys, sent) /\ DOMAIN sent = DOMAIN update
  BY DEF KeysAfter
<1>2. \A k \in DOMAIN update :
        /\ k \in DOMAIN keys => sent[k] = [keys[k] EXCEPT !.value = update[k].value]
        /\ k \notin DOMAIN keys => sent[k] = update[k]
  OBVIOUS
<1> HIDE DEF sent, new
<1>3. /\ DOMAIN new = DOMAIN keys \cup DOMAIN update
      /\ \A k \in DOMAIN update : new[k] = sent[k]
      /\ \A k \in DOMAIN keys \ DOMAIN update : new[k] = keys[k]
  <2>1. /\ DOMAIN Merge(keys, sent) = DOMAIN keys \cup DOMAIN sent
        /\ \A k \in DOMAIN sent : Merge(keys, sent)[k] = sent[k]
        /\ \A k \in DOMAIN keys \ DOMAIN sent : Merge(keys, sent)[k] = keys[k]
    BY MergeValues
  <2>2. QED
    BY <1>1, <2>1
<1>4. ASSUME NEW k \in DOMAIN keys
      PROVE  {"type", "value"} \subseteq DOMAIN new[k] /\ new[k].type = keys[k].type
  <2>1. CASE k \in DOMAIN update
    <3>1. new[k] = [keys[k] EXCEPT !.value = update[k].value]
      BY <1>2, <1>3, <2>1, Zenon
    <3>2. QED
      BY <3>1
  <2>2. CASE k \notin DOMAIN update
    BY <1>3, <2>2
  <2>3. QED
    BY <2>1, <2>2
<1>5. ASSUME NEW k \in DOMAIN update, k \notin DOMAIN keys
      PROVE  {"type", "value"} \subseteq DOMAIN new[k]
  BY <1>2, <1>3, <1>5
<1>6. QED
  BY <1>3, <1>4, <1>5 DEF new

\* A request for keys.
LEMMA KeyShape ==
    ASSUME CatalogInv, NEW update \in KeyUpdates, UpdateKeys(update)
    PROVE  /\ IsConfiguration(file') /\ ForceReload(file') /\ Near(named', Raw, file')
           /\ Valid(Parse(Raw)) => Valid(Parse(file'))
<1> DEFINE new == KeysAfter(Raw.keys, update)
<1>1. IsConfiguration(Raw)
  BY RawOK DEF UpdateKeys
<1>2. \A k \in DOMAIN Raw.keys : {"type", "value"} \subseteq DOMAIN Raw.keys[k]
  BY <1>1 DEF IsConfiguration
<1>3. \A k \in DOMAIN update : "value" \in DOMAIN update[k]
  BY CatalogAssumption, Zenon
<1>4. \A k \in DOMAIN update : k \in DOMAIN Raw.keys \/ "type" \in DOMAIN update[k]
  BY DEF UpdateKeys
<1>5. /\ DOMAIN new = DOMAIN Raw.keys \cup DOMAIN update
      /\ \A k \in DOMAIN new : {"type", "value"} \subseteq DOMAIN new[k]
      /\ \A k \in DOMAIN Raw.keys : new[k].type = Raw.keys[k].type
      /\ \A k \in DOMAIN new \ DOMAIN update : new[k] = Raw.keys[k]
  BY <1>2, <1>3, <1>4, KeysAfterKeep, Zenon
<1>6. file' = [Raw EXCEPT !.keys = new] /\ named' = {<<"keys", k>> : k \in DOMAIN update}
  BY DEF UpdateKeys, Change
<1> HIDE DEF new
<1>7. IsConfiguration(file') /\ (Valid(Parse(Raw)) => Valid(Parse(file')))
  BY <1>1, <1>5, <1>6, NewKeySpoilsNothing
<1>8. Near(named', Raw, file')
  <2>1. DOMAIN Raw.keys \ DOMAIN update = DOMAIN new \ DOMAIN update
    BY <1>5
  <2>2. IsConfiguration([Raw EXCEPT !.keys = new])
    BY <1>6, <1>7
  <2>3. Near({<<"keys", k>> : k \in DOMAIN update}, Raw, [Raw EXCEPT !.keys = new])
    BY <1>1, <1>5, <2>1, <2>2, OtherKeysNear
  <2>4. QED
    BY <1>6, <2>3
<1>9. QED
  BY <1>7, <1>8 DEF UpdateKeys

\* A patch leaves a file that can be loaded.
LEMMA PatchStep ==
    ASSUME CatalogInv, NEW entries, NEW raw, IsConfiguration(raw), Patch(entries, raw)
    PROVE  CatalogInv' /\ Loads(file', legacy) # {}
<1>1. file' = raw /\ ForceReload(raw) /\ Valid(Parse(raw))
  BY DEF Patch
<1>2. FitForUse(config)'
  BY <1>1, ReloadFits DEF CatalogInv, FileOK
<1>3. FileOK(file)'
  BY <1>1 DEF FileOK, IsConfiguration, Absent, Broken, Sections
<1>4. QED
  BY <1>1, <1>2, <1>3, ValidLoads DEF CatalogInv

LEMMA InitCatalog == Init => CatalogInv
<1> SUFFICES ASSUME Init
             PROVE  CatalogInv
  OBVIOUS
<1>1. FileOK(file)
  BY CatalogAssumption DEF Init, FileOK
<1>2. FitForUse(config)
  BY <1>1, LoadedFits DEF Init
<1>3. QED
  BY <1>1, <1>2 DEF CatalogInv

\* Requests other than those for keys.
ModelStep ==
    \/ \E m \in ModelIds :
          \/ \E model \in NewModels : CreateModel(m, model)
          \/ \E update \in ModelUpdates : UpdateModel(m, update)
          \/ DeleteModel(m)
    \/ \E update \in OrderUpdates \cup JudgeUpdates : UpdateSection(update)

LEMMA ModelStepPatches ==
    ASSUME CatalogInv, ModelStep
    PROVE  Patches
BY CreateShape, UpdateShape, DeleteShape, SectionShape DEF ModelStep

LEMMA NextCatalog == CatalogInv /\ [Next]_vars => CatalogInv'
<1> SUFFICES ASSUME CatalogInv, [Next]_vars
             PROVE  CatalogInv'
  OBVIOUS
<1>1. CASE Reload
  <2>1. FitForUse(config)'
    BY <1>1, ReloadFits DEF Reload, CatalogInv
  <2>2. QED
    BY <1>1, <2>1 DEF Reload, CatalogInv
<1>2. CASE ModelStep
  BY <1>2, ModelStepPatches, PatchStep DEF Patches
<1>3. ASSUME NEW update \in KeyUpdates, UpdateKeys(update)
      PROVE  CatalogInv'
  <2>1. IsConfiguration(file') /\ ForceReload(file')
    BY <1>3, KeyShape
  <2>2. FileOK(file')
    BY <2>1 DEF FileOK
  <2>3. FitForUse(config)'
    BY <2>1, <2>2, ReloadFits DEF CatalogInv
  <2>4. QED
    BY <2>2, <2>3 DEF CatalogInv, FileOK, IsConfiguration, Absent, Broken, Sections
<1>4. CASE Edit
  <2>1. file' \in FilesByHand /\ config' = config
    BY <1>4 DEF Edit
  <2>2. FileOK(file')
    BY <2>1, CatalogAssumption DEF FileOK
  <2>3. QED
    BY <2>1, <2>2 DEF CatalogInv, FileOK, FitForUse
<1>5. CASE UNCHANGED vars
  BY <1>5 DEF vars, CatalogInv
<1>6. QED
  BY <1>1, <1>2, <1>3, <1>4, <1>5 DEF Next, ModelStep

-----------------------------------------------------------------------------
(* The theorems *)

LEMMA FitServes ==
    ASSUME FitForUse(config)
    PROVE  PipelineGetsWhatItNeeds
<1>1. ASSUME NEW order \in {config.weak, config.strong}
      PROVE  /\ order # <<>> /\ Candidates(config, order) = Range(order)
             /\ \A m \in Range(order) : m \in DOMAIN config.models /\ config.models[m].enabled
  BY DEF FitForUse, Valid, OrderValid, Candidates
<1>2. ASSUME NEW m \in DOMAIN config.models, config.models[m].enabled
      PROVE  LET model == config.models[m]
                 keys == KeysFor(config, model)
             IN  /\ keys # {} \/ LacksValue(config, model)
                 /\ \A k \in keys : config.keys[k].type = model.provider
  <2> DEFINE model == config.models[m]
  <2>1. ModelValid(config, model) /\ \A i \in DOMAIN config.instances : config.instances[i].key \in DOMAIN config.keys
    BY DEF FitForUse, Valid
  <2>2. PICK i \in Range(Instances(model)) : config.instances[i].enabled
    BY <1>2, <2>1 DEF ModelValid
  <2>3. config.instances[i].key \in KeysFor(config, model) \/ LacksValue(config, model)
    BY <2>1, <2>2 DEF KeysFor, ModelValid, LacksValue
  <2>4. \A k \in KeysFor(config, model) : config.keys[k].type = model.provider
    BY <2>1 DEF KeysFor, ModelValid
  <2>5. QED
    BY <2>3, <2>4
<1>3. /\ Range(config.weak) \cap Range(config.strong) = {}
      /\ config.judging => config.judges # <<>>
      /\ Range(config.judges) \subseteq DOMAIN config.models
  BY DEF FitForUse, Valid
<1>4. QED
  BY <1>1, <1>2, <1>3 DEF PipelineGetsWhatItNeeds

\* The router finds a model in each tier and for each a key of its provider,
\* unless the key of an enabled instance is empty, whatever was requested,
\* imported or edited (sentinel.go:136, router.go:541).
THEOREM PipelineIsServed == Spec => []PipelineGetsWhatItNeeds
<1>1. CatalogInv => PipelineGetsWhatItNeeds
  BY FitServes DEF CatalogInv
<1>2. QED
  BY <1>1, InitCatalog, NextCatalog, PTL DEF Spec

\* Keys are written unseen and yet no request makes a file that a restart would
\* refuse (server.go:740-790).
THEOREM KeysKeepTheFile == Spec => KeysNeverBreakTheFile
<1> DEFINE Breaks == Loads(file, legacy) # {} /\ Loads(file', legacy) = {}
<1>1. ASSUME CatalogInv, [Next]_vars
      PROVE  [Breaks => named' = WholeFile]_vars
  <2> SUFFICES ASSUME Breaks
               PROVE  named' = WholeFile
    OBVIOUS
  <2>1. file' # file
    OBVIOUS
  <2>2. ~ModelStep
    BY <1>1, ModelStepPatches, PatchStep DEF Patches
  <2>3. ASSUME NEW update \in KeyUpdates, UpdateKeys(update)
        PROVE  FALSE
    <3>1. IsConfiguration(file') /\ (Valid(Parse(Raw)) => Valid(Parse(file')))
      BY <1>1, <2>3, KeyShape
    <3>2. Valid(Parse(Raw))
      BY <1>1, <2>3, RawOK DEF UpdateKeys
    <3>3. QED
      BY <3>1, <3>2, ValidLoads
  <2>4. CASE Edit
    BY <2>4 DEF Edit
  <2>5. QED
    BY <1>1, <2>1, <2>2, <2>3, <2>4 DEF Next, ModelStep, Reload, vars
<1>2. QED
  BY <1>1, InitCatalog, NextCatalog, PTL DEF Spec, KeysNeverBreakTheFile

-----------------------------------------------------------------------------
(* Nothing else changes *)

\* The older file is one of those it may be, and the content in force is made
\* of records: it is equal to what has the same fields.
KeptInv == legacy \in LegacyFiles /\ Whole(config)

LEMMA ConfigSteps ==
    ASSUME [Next]_vars
    PROVE  /\ UNCHANGED legacy
           /\ UNCHANGED config \/ config' \in Loads(file', legacy)
<1>1. CASE Reload
  BY <1>1 DEF Reload, ForceReload
<1>2. ASSUME NEW entries, NEW raw, Patch(entries, raw)
      PROVE  UNCHANGED legacy /\ (UNCHANGED config \/ config' \in Loads(file', legacy))
  BY <1>2 DEF Patch, Change, ForceReload
<1>3. ASSUME NEW update \in KeyUpdates, UpdateKeys(update)
      PROVE  UNCHANGED legacy /\ (UNCHANGED config \/ config' \in Loads(file', legacy))
  <2>1. ForceReload(file') /\ UNCHANGED legacy
    BY <1>3 DEF UpdateKeys, Change
  <2>2. QED
    BY <2>1 DEF ForceReload
<1>4. CASE Edit \/ UNCHANGED vars
  BY <1>4 DEF Edit, vars
<1>5. CASE ModelStep
  <2>1. \E entries, raw : Patch(entries, raw)
    BY <1>5 DEF ModelStep, CreateModel, UpdateModel, DeleteModel, UpdateSection
  <2>2. QED
    BY <1>2, <2>1
<1>6. QED
  BY <1>1, <1>3, <1>4, <1>5 DEF Next, ModelStep

LEMMA InitKept == Init => KeptInv
<1> SUFFICES ASSUME Init
             PROVE  KeptInv
  OBVIOUS
<1>1. FileOK(file)
  BY InitCatalog DEF CatalogInv
<1>2. QED
  BY <1>1, LoadedWhole DEF Init, KeptInv

LEMMA NextKept ==
    ASSUME CatalogInv, CatalogInv', KeptInv, [Next]_vars
    PROVE  KeptInv'
<1>1. UNCHANGED legacy
  BY ConfigSteps
<1>2. CASE UNCHANGED config
  BY <1>1, <1>2 DEF KeptInv
<1>3. CASE config' \in Loads(file', legacy)
  <2>1. FileOK(file')
    BY DEF CatalogInv, FileOK, IsConfiguration
  <2>2. Whole(config')
    BY <1>3, <2>1, LoadedWhole DEF KeptInv
  <2>3. QED
    BY <1>1, <2>2 DEF KeptInv, Whole, ReadKeys, Resolve
<1>4. QED
  BY <1>2, <1>3, ConfigSteps

LEMMA KeptInvariant == Spec => [](CatalogInv /\ KeptInv)
<1>1. CatalogInv /\ KeptInv /\ [Next]_vars => (CatalogInv /\ KeptInv)'
  BY NextCatalog, NextKept
<1>2. Init => CatalogInv /\ KeptInv
  BY InitCatalog, InitKept
<1>3. QED
  BY <1>1, <1>2, PTL DEF Spec

\* A file that is no configuration gives nothing, any other gives one thing.
LEMMA FileGives ==
    ASSUME NEW f, f \notin {Absent, Broken}, NEW older, NEW c \in Loads(f, older)
    PROVE  c = Loaded(f)
BY DEF Loads, Loaded

\* The content in force is that of what a request starts from.
LEMMA InForceIsRaw ==
    ASSUME CatalogInv, KeptInv, file # Broken,
           file = Absent \/ config \in Loads(file, legacy)
    PROVE  config = Loaded(Raw)
<1>1. CASE file = Absent
  BY <1>1, ThereAndBack DEF Raw, Loaded, CatalogInv, KeptInv
<1>2. CASE file # Absent
  BY <1>2, FileGives DEF Raw
<1>3. QED
  BY <1>1, <1>2

\* A request that came through changed what it names.
LEMMA RequestChanges ==
    ASSUME CatalogInv, KeptInv, file # Broken,
           file = Absent \/ config \in Loads(file, legacy),
           NEW entries, NEW raw, IsConfiguration(raw), Near(entries, Raw, raw),
           ForceReload(raw)
    PROVE  Changed(config, config') \subseteq entries
<1>1. config = Loaded(Raw)
  BY InForceIsRaw
<1>2. raw \notin {Absent, Broken}
  BY AbsentIsNone
<1>3. CASE config' \in Loads(raw, legacy)
  BY <1>1, <1>2, <1>3, FileGives DEF Near
<1>4. CASE UNCHANGED config
  BY <1>4, NoneChanged
<1>5. QED
  BY <1>3, <1>4 DEF ForceReload

LEMMA NamedChanges ==
    ASSUME CatalogInv, KeptInv, [Next]_vars,
           file' \notin {file, Absent},
           file = Absent \/ config \in Loads(file, legacy)
    PROVE  Changed(config, config') \subseteq named'
<1>1. CASE ModelStep
  <2>1. PICK entries, raw : IsConfiguration(raw) /\ Near(entries, Raw, raw) /\ Patch(entries, raw)
    BY <1>1, ModelStepPatches DEF Patches
  <2>2. file # Broken
    BY <1>1 DEF ModelStep, CreateModel, UpdateModel, DeleteModel, UpdateSection
  <2>3. ForceReload(raw) /\ named' = entries
    BY <2>1 DEF Patch, Change
  <2>4. QED
    BY <2>1, <2>2, <2>3, RequestChanges
<1>2. ASSUME NEW update \in KeyUpdates, UpdateKeys(update)
      PROVE  Changed(config, config') \subseteq named'
  <2>1. IsConfiguration(file') /\ ForceReload(file') /\ Near(named', Raw, file')
    BY <1>2, KeyShape
  <2>2. file # Broken
    BY <1>2 DEF UpdateKeys
  <2>3. PICK entries, raw : entries = named' /\ raw = file'
    OBVIOUS
  <2>4. QED
    BY <2>1, <2>2, <2>3, RequestChanges
<1>3. CASE Edit
  BY <1>3, NoneChanged DEF Edit
<1>4. CASE Reload \/ UNCHANGED vars
  BY <1>4 DEF Reload, vars
<1>5. QED
  BY <1>1, <1>2, <1>3, <1>4 DEF Next, ModelStep

\* While the file is the one in force or is gone, a request changes what it
\* names and a reload nothing: an order of a Go map, a default or the way through
\* JSON reaches nothing else (server.go:1075, sentinel.go:46, 350).
THEOREM OthersStay == Spec => OnlyTheTargetChanges
<1>1. ASSUME CatalogInv, KeptInv, [Next]_vars, file' = file, config \in Loads(file, legacy)
      PROVE  config' = config
  <2>1. CASE config' \in Loads(file', legacy)
    BY <1>1, <2>1, LoadsOnce DEF KeptInv
  <2>2. QED
    BY <1>1, <2>1, ConfigSteps
<1>2. CatalogInv /\ KeptInv /\ [Next]_vars =>
        [/\ file' = file /\ config \in Loads(file, legacy) => config' = config
         /\ (file' \notin {file, Absent} /\ (file = Absent \/ config \in Loads(file, legacy)))
              => Changed(config, config') \subseteq named']_vars
  BY <1>1, NamedChanges
<1>3. QED
  BY <1>2, KeptInvariant, PTL DEF Spec, OnlyTheTargetChanges
=============================================================================
