-------------------------- MODULE ConfigReloadProofs --------------------------
(***************************************************************************)
(* Proofs about ConfigReload, for any number of requests, edits by hand    *)
(* and crashes.                                                            *)
(***************************************************************************)
EXTENDS ConfigReload, TLAPS

Good(c) == c.state = "good"

\* A step of the manager, for a handler or for the watcher.
ReloadStep(a) == Load(a) \/ LoadFails(a) \/ Digest(a) \/ Install(a)

LEMMA LegacyType == Legacy \in Contents /\ NoFile \in Contents
BY ReloadAssumption DEF Legacy, NoFile, Contents, States

LEMMA LoadedType ==
    ASSUME NEW f \in Contents
    PROVE  Loaded(f) \in Contents
BY LegacyType DEF Loaded

LEMMA InitType == Init => TypeOK
<1> SUFFICES ASSUME Init
             PROVE  TypeOK
  OBVIOUS
<1>1. file \in Contents /\ config \in Contents /\ digest \in Contents
  BY LegacyType DEF Init
<1>2. edits \in 0..MaxEdits /\ crashes \in 0..MaxCrashes
  BY ReloadAssumption DEF Init
<1>3. past \in SUBSET Contents
  BY LegacyType DEF Init
<1>4. buf \in [Actors -> Contents] /\ sum \in [Actors -> Contents]
  BY LegacyType DEF Init
<1>5. QED
  BY <1>1, <1>2, <1>3, <1>4 DEF Init, TypeOK

\* What is put in the file's place keeps the types.
LEMMA ReplaceType ==
    ASSUME TypeOK, NEW c \in Contents, Replace(c)
    PROVE  file' \in Contents /\ past' \in SUBSET Contents /\ slipped' \in BOOLEAN
BY DEF TypeOK, Replace

LEMMA WriteType ==
    ASSUME TypeOK, NEW h \in Handlers, NEW st \in {"good", "invalid"}
    PROVE  [buf[h] EXCEPT !.has = @ \cup {h}, !.state = st] \in Contents
<1>1. buf[h] \in Contents
  BY DEF TypeOK, Actors
<1>2. QED
  BY <1>1 DEF Contents, States

LEMMA HandlerType ==
    ASSUME TypeOK, NEW h \in Handlers, ReadRaw(h) \/ Refuse(h) \/ Write(h)
    PROVE  TypeOK'
<1> USE DEF TypeOK, Actors, counts
<1>1. CASE ReadRaw(h)
  BY <1>1 DEF ReadRaw, Goto
<1>2. CASE Refuse(h)
  BY <1>2, LegacyType DEF Refuse, Leave, Goto, Answer
<1>3. CASE Write(h)
  <2>1. PICK st \in {"good", "invalid"} :
          Replace([buf[h] EXCEPT !.has = @ \cup {h}, !.state = st])
    BY <1>3 DEF Write
  <2>2. file' \in Contents /\ past' \in SUBSET Contents /\ slipped' \in BOOLEAN
    BY <2>1, WriteType, ReplaceType
  <2>3. QED
    BY <1>3, <2>2 DEF Write, Goto
<1>4. QED
  BY <1>1, <1>2, <1>3

LEMMA ManagerType ==
    ASSUME TypeOK, NEW a \in Actors, ReloadStep(a)
    PROVE  TypeOK'
<1> USE DEF TypeOK, Actors, counts
<1>1. CASE Load(a)
  BY <1>1, LoadedType DEF Load, Goto
<1>2. CASE LoadFails(a)
  BY <1>2, LegacyType DEF LoadFails, Leave, Goto, Answer
<1>3. CASE Digest(a)
  BY <1>3 DEF Digest, Goto
<1>4. CASE Install(a)
  BY <1>4, LegacyType DEF Install, Leave, Goto, Answer
<1>5. QED
  BY <1>1, <1>2, <1>3, <1>4 DEF ReloadStep

LEMMA OutsideType ==
    ASSUME TypeOK, Notice \/ Edit \/ Crash \/ Start
    PROVE  TypeOK'
<1> USE DEF TypeOK, Actors, counts
<1>1. CASE Notice
  BY <1>1 DEF Notice, Goto
<1>2. CASE Edit
  <2>1. PICK st \in {"good", "invalid", "broken"} :
          Replace([state |-> st, has |-> file.has, rev |-> edits + 1])
    BY <1>2 DEF Edit
  <2>2. edits' \in 0..MaxEdits
    BY <1>2, ReloadAssumption DEF Edit
  <2>3. [state |-> st, has |-> file.has, rev |-> edits + 1] \in Contents
    BY <1>2, <2>2 DEF Edit, Contents, States
  <2>4. file' \in Contents /\ past' \in SUBSET Contents /\ slipped' \in BOOLEAN
    BY <2>1, <2>3, ReplaceType
  <2>5. QED
    BY <1>2, <2>2, <2>4 DEF Edit
<1>3. CASE Crash
  <2>1. crashes' \in 0..MaxCrashes
    BY <1>3, ReloadAssumption DEF Crash
  <2>2. buf' \in [Actors -> Contents] /\ sum' \in [Actors -> Contents]
    BY <1>3, LegacyType DEF Crash
  <2>3. answer' \in [Handlers -> {"none", "done", "refused", "lost"}]
    BY <1>3 DEF Crash
  <2>4. pc' \in [Actors -> {"idle", "write", "load", "digest", "install"}]
    BY <1>3 DEF Crash
  <2>5. QED
    BY <1>3, <2>1, <2>2, <2>3, <2>4 DEF Crash
<1>4. CASE Start
  BY <1>4, LoadedType DEF Start
<1>5. QED
  BY <1>1, <1>2, <1>3, <1>4

LEMMA NextType == TypeOK /\ [Next]_vars => TypeOK'
<1> SUFFICES ASSUME TypeOK, [Next]_vars
             PROVE  TypeOK'
  OBVIOUS
<1>1. CASE Next
  BY <1>1, HandlerType, ManagerType, OutsideType DEF Next, Reload, ReloadStep
<1>2. CASE UNCHANGED vars
  BY <1>2 DEF TypeOK, vars, counts
<1>3. QED
  BY <1>1, <1>2

\* Every variable keeps its type (the state that manager.go and the handlers of
\* server.go keep), whatever edits and crashes come.
THEOREM ReloadTypeCorrect == Spec => []TypeOK
<1>1. QED
  BY InitType, NextType, PTL DEF Spec

-----------------------------------------------------------------------------
(* What is in force was a good file *)

\* Everything that is in force, or about to be, is a good content of the past.
SourceOK ==
    /\ Good(config) /\ config \in past
    /\ Legacy \in past
    /\ Good(file) => file \in past
    /\ \A a \in Actors : pc[a] \in {"digest", "install"} => Good(buf[a]) /\ buf[a] \in past

LEMMA LoadedSource ==
    ASSUME SourceOK, Good(Loaded(file))
    PROVE  Loaded(file) \in past
BY DEF SourceOK, Loaded

LEMMA ReplaceKeepsPast ==
    ASSUME NEW c, Replace(c)
    PROVE  past \subseteq past' /\ (Good(file') => file' \in past')
BY DEF Replace, Good

LEMMA InitSource == Init => SourceOK
BY DEF Init, SourceOK, Good, Legacy, NoFile

LEMMA NextSource == TypeOK /\ SourceOK /\ [Next]_vars => SourceOK'
<1> SUFFICES ASSUME TypeOK, SourceOK, [Next]_vars
             PROVE  SourceOK'
  OBVIOUS
<1> USE DEF TypeOK, SourceOK, Actors, counts
<1>1. ASSUME NEW h \in Handlers, ReadRaw(h)
      PROVE  SourceOK'
  BY <1>1 DEF ReadRaw, Goto
<1>2. ASSUME NEW h \in Handlers, Refuse(h)
      PROVE  SourceOK'
  BY <1>2 DEF Refuse, Leave, Goto
<1>3. ASSUME NEW h \in Handlers, Write(h)
      PROVE  SourceOK'
  <2>1. past \subseteq past' /\ (Good(file') => file' \in past')
    BY <1>3, ReplaceKeepsPast DEF Write
  <2>2. \A a \in Actors : pc'[a] \in {"digest", "install"} => pc[a] = pc'[a]
    BY <1>3 DEF Write, Goto
  <2>3. QED
    BY <1>3, <2>1, <2>2 DEF Write
<1>4. ASSUME NEW a \in Actors, Load(a)
      PROVE  SourceOK'
  <2>1. Good(Loaded(file)) /\ Loaded(file) \in past
    BY <1>4, LoadedSource DEF Load, Good
  <2>2. QED
    BY <1>4, <2>1 DEF Load, Goto
<1>5. ASSUME NEW a \in Actors, LoadFails(a)
      PROVE  SourceOK'
  BY <1>5 DEF LoadFails, Leave, Goto
<1>6. ASSUME NEW a \in Actors, Digest(a)
      PROVE  SourceOK'
  BY <1>6 DEF Digest, Goto
<1>7. ASSUME NEW a \in Actors, Install(a)
      PROVE  SourceOK'
  BY <1>7 DEF Install, Leave, Goto
<1>8. CASE Notice
  BY <1>8 DEF Notice, Goto
<1>9. CASE Edit
  <2>1. past \subseteq past' /\ (Good(file') => file' \in past')
    BY <1>9, ReplaceKeepsPast DEF Edit
  <2>2. QED
    BY <1>9, <2>1 DEF Edit
<1>10. CASE Crash
  BY <1>10 DEF Crash
<1>11. CASE Start
  <2>1. Good(Loaded(file)) /\ Loaded(file) \in past
    BY <1>11, LoadedSource DEF Start, Good
  <2>2. QED
    BY <1>11, <2>1 DEF Start
<1>12. CASE UNCHANGED vars
  BY <1>12 DEF vars
<1>13. QED
  BY <1>1, <1>2, <1>3, <1>4, <1>5, <1>6, <1>7, <1>8, <1>9, <1>10, <1>11, <1>12
     DEF Next, Reload

\* What is in force was loaded whole from a good file, whatever edits, renames
\* and crashes come between the steps of a reload (manager.go:38).
THEOREM OnlyGoodInForce == Spec => []InForceWasGood
<1>1. SourceOK => InForceWasGood
  BY DEF SourceOK, InForceWasGood, Good
<1>2. QED
  BY <1>1, InitType, NextType, InitSource, NextSource, PTL DEF Spec

-----------------------------------------------------------------------------
(* The digest stands for the configuration *)

\* Unless a reload was overtaken, what it has read is still the file.
DigestOK ==
    ~slipped =>
        /\ up => config = Loaded(digest)
        /\ \A a \in Actors :
              /\ pc[a] = "digest" => buf[a] = Loaded(file)
              /\ pc[a] = "install" => buf[a] = Loaded(file) /\ sum[a] = file

LEMMA InitDigest == Init => DigestOK
BY DEF Init, DigestOK, Loaded, Legacy, NoFile

\* A change of the file that overtakes no reload finds none that has read it.
LEMMA ReplaceOvertakes ==
    ASSUME TypeOK, NEW c, Replace(c), ~slipped'
    PROVE  ~slipped /\ \A a \in Actors : pc[a] \notin {"digest", "install"}
BY DEF Replace, TypeOK

LEMMA NextDigest == TypeOK /\ DigestOK /\ [Next]_vars => DigestOK'
<1> SUFFICES ASSUME TypeOK, DigestOK, [Next]_vars, ~slipped'
             PROVE  DigestOK'
  BY DEF DigestOK
<1> USE DEF TypeOK, DigestOK, Actors, counts
<1>1. ASSUME NEW h \in Handlers, ReadRaw(h)
      PROVE  DigestOK'
  BY <1>1 DEF ReadRaw, Goto
<1>2. ASSUME NEW h \in Handlers, Refuse(h)
      PROVE  DigestOK'
  BY <1>2 DEF Refuse, Leave, Goto
<1>3. ASSUME NEW h \in Handlers, Write(h)
      PROVE  DigestOK'
  <2>1. ~slipped /\ \A a \in Actors : pc[a] \notin {"digest", "install"}
    BY <1>3, ReplaceOvertakes DEF Write
  <2>2. \A a \in Actors : pc'[a] \notin {"digest", "install"}
    BY <1>3, <2>1 DEF Write, Goto
  <2>3. QED
    BY <1>3, <2>1, <2>2 DEF Write
<1>4. ASSUME NEW a \in Actors, Load(a)
      PROVE  DigestOK'
  BY <1>4 DEF Load, Goto
<1>5. ASSUME NEW a \in Actors, LoadFails(a)
      PROVE  DigestOK'
  BY <1>5 DEF LoadFails, Leave, Goto
<1>6. ASSUME NEW a \in Actors, Digest(a)
      PROVE  DigestOK'
  BY <1>6 DEF Digest, Goto
<1>7. ASSUME NEW a \in Actors, Install(a)
      PROVE  DigestOK'
  BY <1>7 DEF Install, Leave, Goto
<1>8. CASE Notice
  BY <1>8 DEF Notice, Goto
<1>9. CASE Edit
  <2>1. ~slipped /\ \A a \in Actors : pc[a] \notin {"digest", "install"}
    BY <1>9, ReplaceOvertakes DEF Edit
  <2>2. QED
    BY <1>9, <2>1 DEF Edit
<1>10. CASE Crash
  BY <1>10 DEF Crash
<1>11. CASE Start
  BY <1>11 DEF Start
<1>12. CASE UNCHANGED vars
  BY <1>12 DEF vars
<1>13. QED
  BY <1>1, <1>2, <1>3, <1>4, <1>5, <1>6, <1>7, <1>8, <1>9, <1>10, <1>11, <1>12
     DEF Next, Reload

\* The watcher is quiet only about a file that is in force, as long as no
\* reload was overtaken by a change of the file (manager.go:38-48).
THEOREM QuietOnlyInForce == Spec => []DigestIsHonest
<1>1. DigestOK => DigestIsHonest
  BY DEF DigestOK, DigestIsHonest
<1>2. QED
  BY <1>1, InitType, NextType, InitDigest, NextDigest, PTL DEF Spec

-----------------------------------------------------------------------------
(* The dashboard alone keeps the file good *)

\* A change is found somewhere only when its request is past the write and was
\* not refused.
Written(h) == pc[h] \in {"load", "digest", "install"} \/ answer[h] \in {"done", "lost"}

TracesOK ==
    /\ \A h \in Handlers : pc[h] # "idle" => answer[h] = "none"
    /\ edits = 0 =>
          /\ file.state \in {"absent", "good"}
          /\ \A h \in Handlers :
                /\ pc[h] = "write" => Good(buf[h])
                /\ h \in file.has \cup config.has => Written(h)
                /\ \A a \in Actors : h \in buf[a].has => Written(h)

LEMMA InitTraces == Init => TracesOK
BY DEF Init, TracesOK, Legacy, NoFile, Actors

LEMMA LoadedHas == Loaded(file).has \subseteq file.has
BY DEF Loaded, Legacy

\* Without edits by hand no reload fails.
LEMMA NoEditNoFailure ==
    ASSUME TypeOK, TracesOK, edits = 0
    PROVE  Loaded(file).state = "good"
BY DEF TracesOK, Loaded, Legacy

LEMMA HandlerTraces ==
    ASSUME TypeOK, SourceOK, TracesOK,
           NEW h \in Handlers, ReadRaw(h) \/ Refuse(h) \/ Write(h)
    PROVE  TracesOK'
<1> USE DEF TypeOK, TracesOK, Actors, counts
<1>1. CASE ReadRaw(h)
  <2>1. edits = 0 => Good(buf'[h])
    BY <1>1 DEF ReadRaw, SourceOK, Good
  <2>2. \A g \in Handlers : Written(g) => Written(g)'
    BY <1>1 DEF ReadRaw, Goto, Written
  <2>3. \A a \in Actors : buf'[a].has \subseteq buf[a].has \cup file.has \cup config.has
    BY <1>1 DEF ReadRaw
  <2>4. \A g \in Handlers : pc'[g] = "write" => g = h \/ (pc[g] = "write" /\ buf'[g] = buf[g])
    BY <1>1 DEF ReadRaw, Goto
  <2>5. \A g \in Handlers : pc'[g] # "idle" => answer'[g] = "none"
    BY <1>1 DEF ReadRaw, Goto
  <2>6. file' = file /\ config' = config /\ edits' = edits
    BY <1>1 DEF ReadRaw
  <2>7. QED
    BY <2>1, <2>2, <2>3, <2>4, <2>5, <2>6 DEF Good
<1>2. CASE Refuse(h)
  <2>1. ~Written(h)
    BY <1>2 DEF Refuse, Written
  <2>2. \A g \in Handlers : g # h => pc'[g] = pc[g] /\ answer'[g] = answer[g] /\ buf'[g] = buf[g]
    BY <1>2 DEF Refuse, Leave, Goto, Answer
  <2>3. \A g \in Handlers : Written(g) => Written(g)'
    BY <2>1, <2>2 DEF Written
  <2>4. \A a \in Actors : buf'[a].has \subseteq buf[a].has
    BY <1>2 DEF Refuse, Leave, Legacy
  <2>5. pc'[h] = "idle"
    BY <1>2 DEF Refuse, Leave, Goto
  <2>6. file' = file /\ config' = config /\ edits' = edits
    BY <1>2 DEF Refuse
  <2>7. QED
    BY <2>2, <2>3, <2>4, <2>5, <2>6 DEF Good
<1>3. CASE Write(h)
  <2>1. PICK st \in {"good", "invalid"} :
          /\ h \in Patches \/ buf[h].state = "good" => st = "good"
          /\ Replace([buf[h] EXCEPT !.has = @ \cup {h}, !.state = st])
    BY <1>3 DEF Write
  <2>2. buf[h] \in Contents
    OBVIOUS
  <2>3. file'.has = buf[h].has \cup {h} /\ file'.state = st
    BY <2>1, <2>2 DEF Replace, Contents
  <2>4. pc'[h] = "load" /\ \A g \in Handlers : g # h => pc'[g] = pc[g]
    BY <1>3 DEF Write, Goto
  <2>5. \A g \in Handlers : Written(g) \/ g = h => Written(g)'
    BY <1>3, <2>4 DEF Write, Written
  <2>6. edits = 0 => file'.state = "good"
    BY <1>3, <2>1, <2>3 DEF Write, Good
  <2>7. buf' = buf /\ config' = config /\ edits' = edits /\ answer' = answer
    BY <1>3 DEF Write
  <2>8. pc[h] = "write"
    BY <1>3 DEF Write
  <2>9. QED
    BY <2>3, <2>4, <2>5, <2>6, <2>7, <2>8 DEF Good
<1>4. QED
  BY <1>1, <1>2, <1>3

LEMMA ManagerTraces ==
    ASSUME TypeOK, TracesOK, NEW a \in Actors, ReloadStep(a)
    PROVE  TracesOK'
<1> USE DEF TypeOK, TracesOK, Actors, counts
<1>1. CASE Load(a)
  <2>1. \A g \in Handlers : Written(g) => Written(g)'
    BY <1>1 DEF Load, Goto, Written
  <2>2. \A b \in Actors : buf'[b].has \subseteq buf[b].has \cup file.has
    BY <1>1, LoadedHas DEF Load
  <2>3. \A g \in Handlers : pc'[g] = "write" => pc[g] = "write" /\ buf'[g] = buf[g]
    BY <1>1 DEF Load, Goto
  <2>4. \A g \in Handlers : pc'[g] # "idle" => pc[g] # "idle"
    BY <1>1 DEF Load, Goto
  <2>5. file' = file /\ config' = config /\ edits' = edits /\ answer' = answer
    BY <1>1 DEF Load
  <2>6. QED
    BY <2>1, <2>2, <2>3, <2>4, <2>5 DEF Good
<1>2. CASE LoadFails(a)
  <2>1. edits # 0 /\ edits' = edits
    BY <1>2, NoEditNoFailure DEF LoadFails
  <2>2. \A g \in Handlers : pc'[g] # "idle" => pc[g] # "idle" /\ answer'[g] = answer[g]
    BY <1>2 DEF LoadFails, Leave, Goto, Answer
  <2>3. QED
    BY <2>1, <2>2
<1>3. CASE Digest(a)
  <2>1. \A g \in Handlers : Written(g) => Written(g)'
    BY <1>3 DEF Digest, Goto, Written
  <2>2. \A g \in Handlers : pc'[g] = "write" => pc[g] = "write"
    BY <1>3 DEF Digest, Goto
  <2>3. \A g \in Handlers : pc'[g] # "idle" => pc[g] # "idle"
    BY <1>3 DEF Digest, Goto
  <2>4. file' = file /\ config' = config /\ edits' = edits /\ answer' = answer /\ buf' = buf
    BY <1>3 DEF Digest
  <2>5. QED
    BY <2>1, <2>2, <2>3, <2>4
<1>4. CASE Install(a)
  <2>1. \A g \in Handlers : g # a => pc'[g] = pc[g] /\ answer'[g] = answer[g] /\ buf'[g] = buf[g]
    BY <1>4 DEF Install, Leave, Goto, Answer
  <2>2. pc'[a] = "idle" /\ (a \in Handlers => answer'[a] = "done")
    BY <1>4 DEF Install, Leave, Goto, Answer
  <2>3. \A g \in Handlers : Written(g) => Written(g)'
    BY <2>1, <2>2 DEF Written
  <2>4. \A b \in Actors : buf'[b].has \subseteq buf[b].has
    BY <1>4 DEF Install, Leave, Legacy
  <2>5. file' = file /\ config' = buf[a] /\ edits' = edits
    BY <1>4 DEF Install
  <2>6. QED
    BY <2>1, <2>2, <2>3, <2>4, <2>5
<1>5. QED
  BY <1>1, <1>2, <1>3, <1>4 DEF ReloadStep

LEMMA OutsideTraces ==
    ASSUME TypeOK, TracesOK, Notice \/ Edit \/ Crash \/ Start
    PROVE  TracesOK'
<1> USE DEF TypeOK, TracesOK, Actors, counts
<1>1. CASE Notice
  <2>1. \A g \in Handlers : pc'[g] = pc[g]
    BY <1>1, ReloadAssumption DEF Notice, Goto
  <2>2. QED
    BY <1>1, <2>1 DEF Notice, Written
<1>2. CASE Edit
  <2>1. edits' # 0
    BY <1>2 DEF Edit
  <2>2. QED
    BY <1>2, <2>1 DEF Edit
<1>3. CASE Crash
  <2>1. \A g \in Handlers : pc'[g] = "idle"
    BY <1>3 DEF Crash
  <2>2. \A g \in Handlers : Written(g) => Written(g)'
    BY <1>3 DEF Crash, Written
  <2>3. \A a \in Actors : buf'[a].has = {}
    BY <1>3 DEF Crash, Legacy
  <2>4. QED
    BY <1>3, <2>1, <2>2, <2>3 DEF Crash
<1>4. CASE Start
  BY <1>4, LoadedHas DEF Start, Written
<1>5. QED
  BY <1>1, <1>2, <1>3, <1>4

LEMMA NextTraces == TypeOK /\ SourceOK /\ TracesOK /\ [Next]_vars => TracesOK'
<1> SUFFICES ASSUME TypeOK, SourceOK, TracesOK, [Next]_vars
             PROVE  TracesOK'
  OBVIOUS
<1>1. CASE Next
  BY <1>1, HandlerTraces, ManagerTraces, OutsideTraces DEF Next, Reload, ReloadStep
<1>2. CASE UNCHANGED vars
  BY <1>2 DEF TracesOK, Written, Good, vars, counts
<1>3. QED
  BY <1>1, <1>2

\* As long as nobody edits the file by hand, the dashboard leaves one that a
\* restart accepts, and a request that was refused is not in it, however many
\* requests race and wherever the process crashes (server.go:1107).
THEOREM DashboardLeavesGoodFile == Spec => []DashboardKeepsFileGood
<1>1. TracesOK => DashboardKeepsFileGood
  <2> SUFFICES ASSUME TracesOK, edits = 0, NEW h \in Handlers, answer[h] = "refused"
               PROVE  h \notin file.has
    BY DEF TracesOK, DashboardKeepsFileGood
  <2>1. QED
    BY DEF TracesOK, Written
<1>2. QED
  BY <1>1, InitType, NextType, InitSource, NextSource, InitTraces, NextTraces, PTL DEF Spec
=============================================================================
