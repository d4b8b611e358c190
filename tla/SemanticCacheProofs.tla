------------------------- MODULE SemanticCacheProofs -------------------------
(***************************************************************************)
(* Proofs about SemanticCache for any number of goroutines, prompts, cache *)
(* objects and recorded calls.                                             *)
(***************************************************************************)
EXTENDS SemanticCache, TLAPS

\* A worker between the query and the end of the load holds the mutex of an
\* object that is not loaded.
LoadsAlone ==
    \A w \in Workers :
        pc[w] \in {"query", "install"} => holder[obj[w]] = w /\ ~loaded[obj[w]]

-----------------------------------------------------------------------------
LEMMA NoCallsStats == NoCalls \in Stats /\ Calls(NoCalls) = 0
BY DEF NoCalls, Stats, Calls

LEMMA BumpStats ==
    ASSUME NEW st \in Stats, NEW r \in Routes, now \in Nat
    PROVE  /\ Bump(st, r) \in Stats
           /\ Calls(Bump(st, r)) = Calls(st) + 1
BY DEF Bump, Stats, Routes, Calls

LEMMA JobFields ==
    ASSUME TypeOK, NEW w \in Workers
    PROVE  /\ job[w].op \in {"ask", "record", "reset"}
           /\ job[w].key \in Keys
           /\ job[w].route \in Routes
BY DEF TypeOK, Jobs

\* One statistic of a table of tables is replaced.
LEMMA OneReplaced ==
    ASSUME NEW A, NEW B, NEW S, NEW f \in [A -> [B -> S]], NEW a \in A, NEW b \in B,
           NEW st \in S, NEW g, g = [f EXCEPT ![a][b] = st]
    PROVE  /\ g \in [A -> [B -> S]]
           /\ \A x \in A, y \in B : g[x][y] = IF x = a /\ y = b THEN st ELSE f[x][y]
<1>1. g = [f EXCEPT ![a] = [f[a] EXCEPT ![b] = st]]
  OBVIOUS
<1>2. [f[a] EXCEPT ![b] = st] \in [B -> S]
  OBVIOUS
<1>3. QED
  BY <1>1, <1>2

LEMMA NoCallsRow == [k \in Keys |-> NoCalls] \in [Keys -> Stats]
BY NoCallsStats

\* Where a worker may be.
PCs == {"idle", "load", "query", "install", "ask", "record", "copy", "upsert",
        "reset", "clear", "mark"}

LEMMA GotoType ==
    ASSUME TypeOK, NEW w \in Workers, NEW l \in PCs, Goto(w, l)
    PROVE  pc' \in [Workers -> PCs]
BY DEF TypeOK, Goto, PCs

LEMMA DropType ==
    ASSUME TypeOK, NEW w \in Workers, Drop(w)
    PROVE  copy' \in [Workers -> [Keys -> Stats]]
BY NoCallsRow DEF TypeOK, Drop

-----------------------------------------------------------------------------
LEMMA StartType ==
    ASSUME TypeOK, NEW w \in Workers, Start(w)
    PROVE  TypeOK'
<1>1. PICK j \in Jobs : /\ job' = [job EXCEPT ![w] = j]
                        /\ Goto(w, IF j.op = "reset" THEN "reset" ELSE "load")
  BY DEF Start
<1>2. pc' \in [Workers -> PCs]
  BY <1>1, GotoType DEF PCs
<1>3. job' \in [Workers -> Jobs]
  BY <1>1 DEF TypeOK
<1>4. obj' \in [Workers -> Objects] /\ answer' \in [Workers -> Routes \cup {"none"}]
  BY DEF TypeOK, Start
<1>5. QED
  BY <1>2, <1>3, <1>4 DEF TypeOK, Start, memory, PCs

LEMMA LoadType ==
    ASSUME TypeOK, NEW w \in Workers, Load(w)
    PROVE  TypeOK'
<1>1. job[w].op \in PCs /\ "query" \in PCs
  BY JobFields DEF PCs
<1>2. pc' \in [Workers -> PCs]
  BY <1>1, GotoType DEF Load
<1>3. holder' \in [Objects -> Workers \cup {Nobody}]
  BY DEF TypeOK, Load
<1>4. QED
  BY <1>2, <1>3 DEF TypeOK, Load, PCs

LEMMA QueryType ==
    ASSUME TypeOK, NEW w \in Workers, Query(w)
    PROVE  TypeOK'
<1>1. job[w].op \in PCs /\ "install" \in PCs
  BY JobFields DEF PCs
<1>2. pc' \in [Workers -> PCs]
  BY <1>1, GotoType DEF Query
<1>3. holder' \in [Objects -> Workers \cup {Nobody}]
  BY DEF TypeOK, Query
<1>4. copy' \in [Workers -> [Keys -> Stats]]
  BY DEF TypeOK, Query
<1>5. QED
  BY <1>2, <1>3, <1>4 DEF TypeOK, Query, PCs

LEMMA InstallType ==
    ASSUME TypeOK, NEW w \in Workers, Install(w)
    PROVE  TypeOK'
<1>1. job[w].op \in PCs
  BY JobFields DEF PCs
<1>2. pc' \in [Workers -> PCs]
  BY <1>1, GotoType DEF Install
<1>3. copy' \in [Workers -> [Keys -> Stats]]
  BY DropType DEF Install
<1>4. mem' \in [Objects -> [Keys -> Stats]]
  BY DEF TypeOK, Install
<1>5. /\ loaded' \in [Objects -> BOOLEAN]
      /\ holder' \in [Objects -> Workers \cup {Nobody}]
  BY DEF TypeOK, Install
<1>6. QED
  BY <1>2, <1>3, <1>4, <1>5 DEF TypeOK, Install, PCs

LEMMA AskType ==
    ASSUME TypeOK, NEW w \in Workers, Ask(w)
    PROVE  TypeOK'
<1>0. obj[w] \in Objects /\ job[w].key \in Keys
  BY JobFields DEF TypeOK
<1>1. pc' \in [Workers -> PCs]
  BY GotoType DEF Ask, PCs
<1>2. mem' \in [Objects -> [Keys -> Stats]]
  <2>1. CASE mem' = mem
    BY <2>1 DEF TypeOK
  <2>2. CASE mem' = [mem EXCEPT ![obj[w]][job[w].key] = NoCalls]
    <3>1. mem \in [Objects -> [Keys -> Stats]] /\ NoCalls \in Stats
      BY NoCallsStats DEF TypeOK
    <3>2. QED
      BY <1>0, <2>2, <3>1, OneReplaced
  <2>3. QED
    BY <2>1, <2>2 DEF Ask
<1>3. Recommend(mem[obj[w]][job[w].key]) \in Routes \cup {"none"}
  BY DEF Recommend, Routes
<1>4. answer' \in [Workers -> Routes \cup {"none"}]
  BY <1>3 DEF TypeOK, Ask
<1>5. QED
  BY <1>1, <1>2, <1>4 DEF TypeOK, Ask, PCs

LEMMA RecordType ==
    ASSUME TypeOK, NEW w \in Workers, Record(w)
    PROVE  TypeOK'
<1>0. obj[w] \in Objects /\ job[w].key \in Keys /\ job[w].route \in Routes
  BY JobFields DEF TypeOK
<1>1. pc' \in [Workers -> PCs]
  BY GotoType DEF Record, PCs
<1>2. mem' \in [Objects -> [Keys -> Stats]]
  <2>1. mem \in [Objects -> [Keys -> Stats]] /\ now \in Nat
    BY DEF TypeOK
  <2>2. Bump(mem[obj[w]][job[w].key], job[w].route) \in Stats
    BY <1>0, <2>1, BumpStats
  <2>3. mem' = [mem EXCEPT ![obj[w]][job[w].key]
                  = Bump(mem[obj[w]][job[w].key], job[w].route)]
    BY DEF Record
  <2>4. QED
    BY <1>0, <2>1, <2>2, <2>3, OneReplaced
<1>3. seen' \in [Keys -> [Routes -> Nat]]
  <2>1. seen \in [Keys -> [Routes -> Nat]]
    BY DEF TypeOK
  <2>2. seen[job[w].key][job[w].route] + 1 \in Nat
    BY <1>0, <2>1
  <2>3. seen' = [seen EXCEPT ![job[w].key][job[w].route]
                   = seen[job[w].key][job[w].route] + 1]
    BY DEF Record
  <2>4. QED
    BY <1>0, <2>1, <2>2, <2>3, OneReplaced
<1>4. QED
  BY <1>1, <1>2, <1>3 DEF TypeOK, Record, PCs

LEMMA CopyType ==
    ASSUME TypeOK, NEW w \in Workers, Copy(w)
    PROVE  TypeOK'
<1>0. obj[w] \in Objects /\ job[w].key \in Keys
  BY JobFields DEF TypeOK
<1>1. pc' \in [Workers -> PCs]
  BY GotoType DEF Copy, PCs
<1>2. mem' \in [Objects -> [Keys -> Stats]]
  <2>1. CASE mem' = mem
    BY <2>1 DEF TypeOK
  <2>2. CASE mem' = [mem EXCEPT ![obj[w]][job[w].key] = NoCalls]
    <3>1. mem \in [Objects -> [Keys -> Stats]] /\ NoCalls \in Stats
      BY NoCallsStats DEF TypeOK
    <3>2. QED
      BY <1>0, <2>2, <3>1, OneReplaced
  <2>3. QED
    BY <2>1, <2>2 DEF Copy
<1>3. copy' \in [Workers -> [Keys -> Stats]]
  <2>1. CASE copy' = copy
    BY <2>1 DEF TypeOK
  <2>2. CASE copy' = [copy EXCEPT ![w][job[w].key] = mem[obj[w]][job[w].key]]
    <3>1. /\ copy \in [Workers -> [Keys -> Stats]]
          /\ mem[obj[w]][job[w].key] \in Stats
      BY <1>0 DEF TypeOK
    <3>2. QED
      BY <1>0, <2>2, <3>1, OneReplaced
  <2>3. QED
    BY <2>1, <2>2 DEF Copy
<1>4. QED
  BY <1>1, <1>2, <1>3 DEF TypeOK, Copy, PCs

LEMMA UpsertType ==
    ASSUME TypeOK, NEW w \in Workers, Upsert(w)
    PROVE  TypeOK'
<1>1. pc' \in [Workers -> PCs]
  BY GotoType DEF Upsert, PCs
<1>2. copy' \in [Workers -> [Keys -> Stats]]
  BY DropType DEF Upsert
<1>3. copy[w][job[w].key] \in Stats
  BY JobFields DEF TypeOK
<1>4. rows' \in [Keys -> Stats]
  BY <1>3 DEF TypeOK, Upsert
<1>5. QED
  BY <1>1, <1>2, <1>4 DEF TypeOK, Upsert, memory, PCs

LEMMA ResetType ==
    ASSUME TypeOK, NEW w \in Workers, ResetMemory(w) \/ ClearRows(w) \/ MarkLoaded(w)
    PROVE  TypeOK'
<1>1. pc' \in [Workers -> PCs]
  BY GotoType DEF ResetMemory, ClearRows, MarkLoaded, PCs
<1>2. CASE ResetMemory(w)
  <2>1. mem' \in [Objects -> [Keys -> Stats]]
    BY <1>2, NoCallsRow DEF TypeOK, ResetMemory
  <2>2. QED
    BY <1>1, <1>2, <2>1 DEF TypeOK, ResetMemory, PCs
<1>3. CASE ClearRows(w)
  <2>1. rows' \in [Keys -> Stats]
    BY <1>3, NoCallsRow DEF TypeOK, ClearRows
  <2>2. QED
    BY <1>1, <1>3, <2>1 DEF TypeOK, ClearRows, memory, PCs
<1>4. CASE MarkLoaded(w)
  <2>1. loaded' \in [Objects -> BOOLEAN]
    BY <1>4 DEF TypeOK, MarkLoaded
  <2>2. QED
    BY <1>1, <1>4, <2>1 DEF TypeOK, MarkLoaded, PCs
<1>5. QED
  BY <1>2, <1>3, <1>4

LEMMA EnvironmentType ==
    ASSUME TypeOK, UpdatePolicy \/ Restart \/ Tick
    PROVE  TypeOK'
<1> USE CacheAssumption
<1>1. CASE UpdatePolicy
  BY <1>1 DEF TypeOK, UpdatePolicy, Objects, memory, worker
<1>2. CASE Restart
  <2>1. /\ pc' \in [Workers -> PCs]
        /\ copy' \in [Workers -> [Keys -> Stats]]
    BY <1>2, NoCallsRow DEF Restart, PCs
  <2>2. QED
    BY <1>2, <2>1 DEF TypeOK, Restart, Objects, memory, PCs
<1>3. CASE Tick
  BY <1>3 DEF TypeOK, Tick, memory, worker
<1>4. QED
  BY <1>1, <1>2, <1>3

LEMMA CacheTypeStep ==
    ASSUME TypeOK, [Next]_vars
    PROVE  TypeOK'
<1>1. CASE UNCHANGED vars
  BY <1>1 DEF TypeOK, vars
<1>2. CASE Next
  BY <1>2, StartType, LoadType, QueryType, InstallType, AskType, RecordType, CopyType,
     UpsertType, ResetType, EnvironmentType DEF Next, Work
<1>3. QED
  BY <1>1, <1>2

LEMMA CacheTypeInit == Init => TypeOK
BY CacheAssumption, NoCallsStats DEF Init, TypeOK, Objects, Jobs

\* Every variable of SemanticCache keeps its type.
THEOREM CacheTypeCorrect == Spec => []TypeOK
<1>1. TypeOK /\ [Next]_vars => TypeOK'
  BY CacheTypeStep
<1>2. QED
  BY <1>1, CacheTypeInit, PTL DEF Spec

-----------------------------------------------------------------------------
(* The lazy load *)

\* Taking and giving back the mutex.
LEMMA LoadsLoad ==
    ASSUME TypeOK, LoadsAlone, NEW w \in Workers, Load(w) \/ Query(w) \/ Install(w)
    PROVE  LoadsAlone'
<1> USE DEF TypeOK, LoadsAlone, Goto
<1>1. job[w].op \in {"ask", "record", "reset"}
  BY JobFields
<1>2. CASE Load(w)
  BY <1>1, <1>2, CacheAssumption DEF Load
<1>3. ASSUME pc[w] \in {"query", "install"}
      PROVE  \A v \in Workers \ {w} : pc[v] \in {"query", "install"} => obj[v] # obj[w]
  BY <1>3
<1>4. CASE Query(w)
  BY <1>1, <1>3, <1>4 DEF Query
<1>5. CASE Install(w)
  BY <1>1, <1>3, <1>5 DEF Install
<1>6. QED
  BY <1>2, <1>4, <1>5

\* The other steps of a worker mark an object at most, while nobody loads it.
LEMMA LoadsRest ==
    ASSUME TypeOK, LoadsAlone, NEW w \in Workers,
           \/ Start(w) \/ Ask(w) \/ Record(w) \/ Copy(w) \/ Upsert(w)
           \/ ResetMemory(w) \/ ClearRows(w) \/ MarkLoaded(w)
    PROVE  LoadsAlone'
<1> USE DEF TypeOK, LoadsAlone, Goto, memory
<1>1. CASE Start(w)
  <2>1. UNCHANGED <<holder, loaded>> /\ obj' = [obj EXCEPT ![w] = current]
    BY <1>1 DEF Start
  <2>2. PICK l \in {"load", "reset"} : pc' = [pc EXCEPT ![w] = l]
    BY <1>1 DEF Start
  <2>3. QED
    BY <2>1, <2>2
<1>2. CASE MarkLoaded(w)
  BY <1>2, CacheAssumption DEF MarkLoaded
<1>3. CASE Ask(w) \/ Record(w) \/ Copy(w) \/ Upsert(w) \/ ResetMemory(w) \/ ClearRows(w)
  <2>1. UNCHANGED <<holder, loaded, obj>>
    BY <1>3 DEF Ask, Record, Copy, Upsert, ResetMemory, ClearRows
  <2>2. PICK l \in {"idle", "copy", "upsert", "clear", "mark"} : pc' = [pc EXCEPT ![w] = l]
    BY <1>3 DEF Ask, Record, Copy, Upsert, ResetMemory, ClearRows
  <2>3. QED
    BY <2>1, <2>2
<1>4. QED
  BY <1>1, <1>2, <1>3

LEMMA LoadsStep ==
    ASSUME TypeOK, LoadsAlone, [Next]_vars
    PROVE  LoadsAlone'
<1>1. ASSUME NEW w \in Workers, Start(w) \/ Work(w)
      PROVE  LoadsAlone'
  BY <1>1, LoadsLoad, LoadsRest DEF Work
<1>2. CASE UpdatePolicy \/ Restart \/ Tick \/ UNCHANGED vars
  <2>1. /\ UNCHANGED <<loaded, holder, obj>>
        /\ pc' = pc \/ pc' = [w \in Workers |-> "idle"]
    BY <1>2 DEF UpdatePolicy, Restart, Tick, vars, memory, worker
  <2>2. QED
    BY <2>1 DEF LoadsAlone
<1>3. QED
  BY <1>1, <1>2 DEF Next

LEMMA LoadsInit == Init => LoadsAlone
BY DEF Init, LoadsAlone

\* A step that shrinks the statistics of a prompt expires or resets them.
LEMMA ShrinkStep ==
    ASSUME TypeOK, TypeOK', LoadsAlone, [Next]_vars,
           NEW o \in Objects, NEW k \in Keys, loaded[o], Shrinks(o, k)
    PROVE  \/ Expired(mem[o][k])
           \/ \E w \in Workers : obj[w] = o /\ pc[w] = "reset" /\ pc'[w] = "clear"
<1>1. mem' # mem
  BY DEF Shrinks, Calls, TypeOK, Stats
<1>2. PICK w \in Workers : Install(w) \/ Ask(w) \/ Record(w) \/ Copy(w) \/ ResetMemory(w)
  BY <1>1 DEF Next, Work, Start, Load, Query, Upsert, ClearRows, MarkLoaded, UpdatePolicy,
     Restart, Tick, vars, memory
<1>3. /\ mem[o][k] \in Stats /\ mem'[o][k] \in Stats
      /\ obj[w] \in Objects /\ job[w].key \in Keys /\ job[w].route \in Routes
  BY JobFields DEF TypeOK
<1>4. CASE Install(w)
  <2>1. o = obj[w]
    BY <1>4 DEF TypeOK, Install, Shrinks, Calls, Stats
  <2>2. QED
    BY <1>4, <2>1 DEF Install, LoadsAlone
<1>5. CASE Ask(w)
  <2>1. /\ Expired(mem[obj[w]][job[w].key])
        /\ mem' = [mem EXCEPT ![obj[w]][job[w].key] = NoCalls]
    BY <1>1, <1>5 DEF Ask
  <2>2. mem \in [Objects -> [Keys -> Stats]] /\ NoCalls \in Stats
    BY NoCallsStats DEF TypeOK
  <2>3. o = obj[w] /\ k = job[w].key
    <3>1. mem'[o][k] = IF o = obj[w] /\ k = job[w].key THEN NoCalls ELSE mem[o][k]
      BY <1>3, <2>1, <2>2, OneReplaced
    <3>2. mem'[o][k] # mem[o][k]
      BY <1>3 DEF Shrinks, Calls, Stats
    <3>3. QED
      BY <3>1, <3>2
  <2>4. QED
    BY <2>1, <2>3
<1>6. CASE Copy(w)
  <2>1. /\ Expired(mem[obj[w]][job[w].key])
        /\ mem' = [mem EXCEPT ![obj[w]][job[w].key] = NoCalls]
    BY <1>1, <1>6 DEF Copy
  <2>2. mem \in [Objects -> [Keys -> Stats]] /\ NoCalls \in Stats
    BY NoCallsStats DEF TypeOK
  <2>3. o = obj[w] /\ k = job[w].key
    <3>1. mem'[o][k] = IF o = obj[w] /\ k = job[w].key THEN NoCalls ELSE mem[o][k]
      BY <1>3, <2>1, <2>2, OneReplaced
    <3>2. mem'[o][k] # mem[o][k]
      BY <1>3 DEF Shrinks, Calls, Stats
    <3>3. QED
      BY <3>1, <3>2
  <2>4. QED
    BY <2>1, <2>3
<1>7. CASE Record(w)
  <2>1. mem \in [Objects -> [Keys -> Stats]] /\ now \in Nat
    BY DEF TypeOK
  <2>2. /\ Bump(mem[obj[w]][job[w].key], job[w].route) \in Stats
        /\ Calls(Bump(mem[obj[w]][job[w].key], job[w].route))
             = Calls(mem[obj[w]][job[w].key]) + 1
    BY <1>3, <2>1, BumpStats
  <2>3. mem' = [mem EXCEPT ![obj[w]][job[w].key]
                  = Bump(mem[obj[w]][job[w].key], job[w].route)]
    BY <1>7 DEF Record
  <2>4. mem'[o][k] = IF o = obj[w] /\ k = job[w].key
                     THEN Bump(mem[obj[w]][job[w].key], job[w].route)
                     ELSE mem[o][k]
    BY <1>3, <2>1, <2>2, <2>3, OneReplaced
  <2>5. Calls(mem'[o][k]) >= Calls(mem[o][k])
    <3>1. Calls(mem[o][k]) \in Nat
      BY <1>3 DEF Calls, Stats
    <3>2. QED
      BY <2>2, <2>4, <3>1
  <2>6. QED
    BY <1>3, <2>5 DEF Shrinks, Calls, Stats
<1>8. CASE ResetMemory(w)
  <2>1. o = obj[w]
    BY <1>8 DEF TypeOK, ResetMemory, Shrinks, Calls, Stats
  <2>2. QED
    BY <1>8, <2>1 DEF TypeOK, ResetMemory, Goto
<1>9. QED
  BY <1>2, <1>4, <1>5, <1>6, <1>7, <1>8

\* An object that has loaded its rows forgets calls only by expiry or by its
\* own reset, whatever number of goroutines race for the load and whichever
\* loads failed before.
THEOREM LoadKeepsCalls == Spec => LoadLosesNothing
<1>1. TypeOK /\ LoadsAlone /\ [Next]_vars => TypeOK' /\ LoadsAlone'
  BY CacheTypeStep, LoadsStep
<1>2. TypeOK /\ TypeOK' /\ LoadsAlone /\ [Next]_vars =>
        [\A o \in Objects, k \in Keys :
           loaded[o] /\ Shrinks(o, k) =>
             \/ Expired(mem[o][k])
             \/ \E w \in Workers : obj[w] = o /\ pc[w] = "reset" /\ pc'[w] = "clear"]_vars
  BY ShrinkStep
<1>3. QED
  BY <1>1, <1>2, CacheTypeInit, LoadsInit, PTL DEF Spec, LoadLosesNothing

-----------------------------------------------------------------------------
(* The evidence behind an answer *)

LEMMA BackedLater ==
    ASSUME TypeOK, NEW k \in Keys, NEW st \in Stats, Backed(st, k),
           seen'[k]["weak"] \in Nat, seen'[k]["strong"] \in Nat,
           seen'[k]["weak"] >= seen[k]["weak"], seen'[k]["strong"] >= seen[k]["strong"]
    PROVE  st.weak <= seen'[k]["weak"] /\ st.strong <= seen'[k]["strong"]
<1>1. /\ st.weak \in Nat /\ st.strong \in Nat
      /\ seen[k]["weak"] \in Nat /\ seen[k]["strong"] \in Nat
  BY DEF TypeOK, Stats, Routes
<1>2. QED
  BY <1>1 DEF Backed

\* What a step puts in a place was in another place for the same prompt, is
\* nothing, or is what Record makes of it.
LEMMA EvidenceSame ==
    ASSUME TypeOK, EvidenceIsReal, seen' = seen,
           \A k \in Keys :
             /\ rows'[k] \in {rows[k], NoCalls} \cup {copy[w][k] : w \in Workers}
             /\ \A o \in Objects :
                  mem'[o][k] \in {mem[o][k], NoCalls} \cup {copy[w][k] : w \in Workers}
             /\ \A w \in Workers :
                  copy'[w][k] \in {copy[w][k], NoCalls, rows[k]} \cup {mem[o][k] : o \in Objects}
    PROVE  EvidenceIsReal'
<1> SUFFICES ASSUME NEW k \in Keys
             PROVE  /\ Backed(rows[k], k)'
                    /\ \A o \in Objects : Backed(mem[o][k], k)'
                    /\ \A w \in Workers : Backed(copy[w][k], k)'
  BY DEF EvidenceIsReal
<1>1. Backed(NoCalls, k)
  BY DEF TypeOK, Backed, NoCalls, Routes
<1>2. Backed(rows'[k], k)
  BY <1>1 DEF EvidenceIsReal
<1>3. \A o \in Objects : Backed(mem'[o][k], k)
  BY <1>1 DEF EvidenceIsReal
<1>4. \A w \in Workers : Backed(copy'[w][k], k)
  BY <1>1 DEF EvidenceIsReal
<1>5. QED
  BY <1>2, <1>3, <1>4 DEF Backed

LEMMA EvidenceRecord ==
    ASSUME TypeOK, TypeOK', EvidenceIsReal, NEW w \in Workers, Record(w)
    PROVE  EvidenceIsReal'
<1>0. obj[w] \in Objects /\ job[w].key \in Keys /\ job[w].route \in Routes
  BY JobFields DEF TypeOK
<1>1. /\ mem \in [Objects -> [Keys -> Stats]] /\ now \in Nat
      /\ seen \in [Keys -> [Routes -> Nat]]
  BY DEF TypeOK
<1>2. /\ \A k \in Keys, r \in Routes :
           seen'[k][r] = IF k = job[w].key /\ r = job[w].route
                         THEN seen[job[w].key][job[w].route] + 1 ELSE seen[k][r]
      /\ rows' = rows /\ copy' = copy
  <2>1. seen' = [seen EXCEPT ![job[w].key][job[w].route]
                   = seen[job[w].key][job[w].route] + 1]
    BY DEF Record
  <2>2. seen[job[w].key][job[w].route] + 1 \in Nat
    BY <1>0, <1>1
  <2>3. QED
    BY <1>0, <1>1, <2>1, <2>2, OneReplaced DEF Record
<1>3. \A k \in Keys : /\ seen'[k]["weak"] >= seen[k]["weak"]
                      /\ seen'[k]["strong"] >= seen[k]["strong"]
                      /\ seen'[k]["weak"] \in Nat /\ seen'[k]["strong"] \in Nat
  <2>1. "weak" \in Routes /\ "strong" \in Routes
    BY DEF Routes
  <2>2. \A k \in Keys, r \in Routes : seen[k][r] \in Nat
    BY <1>1
  <2>3. QED
    BY <1>0, <1>2, <2>1, <2>2
<1>4. \A k \in Keys : Backed(rows[k], k)'
  BY <1>2, <1>3, BackedLater DEF TypeOK, EvidenceIsReal, Backed
<1>5. \A k \in Keys, v \in Workers : Backed(copy[v][k], k)'
  BY <1>2, <1>3, BackedLater DEF TypeOK, EvidenceIsReal, Backed
<1>6. ASSUME NEW o \in Objects, NEW k \in Keys
      PROVE  Backed(mem[o][k], k)'
  <2>1. mem' = [mem EXCEPT ![obj[w]][job[w].key]
                  = Bump(mem[obj[w]][job[w].key], job[w].route)]
    BY DEF Record
  <2>2. Bump(mem[obj[w]][job[w].key], job[w].route) \in Stats
    BY <1>0, <1>1, BumpStats
  <2>3. mem'[o][k] = IF o = obj[w] /\ k = job[w].key
                     THEN Bump(mem[obj[w]][job[w].key], job[w].route)
                     ELSE mem[o][k]
    BY <1>0, <1>1, <2>1, <2>2, OneReplaced
  <2>4. CASE ~(o = obj[w] /\ k = job[w].key)
    BY <1>1, <1>3, <2>3, <2>4, BackedLater DEF EvidenceIsReal, Backed
  <2>5. CASE o = obj[w] /\ k = job[w].key
    <3>1. /\ mem[o][k] \in Stats /\ Backed(mem[o][k], k)
          /\ seen[k]["weak"] \in Nat /\ seen[k]["strong"] \in Nat
      BY <1>1 DEF EvidenceIsReal, Routes
    <3>2. CASE job[w].route = "weak"
      <4>1. /\ mem'[o][k].weak = mem[o][k].weak + 1
            /\ mem'[o][k].strong = mem[o][k].strong
        BY <2>3, <2>5, <3>2 DEF Bump
      <4>2. /\ seen'[k]["weak"] = seen[k]["weak"] + 1
            /\ seen'[k]["strong"] = seen[k]["strong"]
        BY <1>2, <2>5, <3>2 DEF Routes
      <4>3. QED
        BY <3>1, <4>1, <4>2 DEF Backed, Stats
    <3>3. CASE job[w].route = "strong"
      <4>1. /\ mem'[o][k].weak = mem[o][k].weak
            /\ mem'[o][k].strong = mem[o][k].strong + 1
        BY <2>3, <2>5, <3>3 DEF Bump
      <4>2. /\ seen'[k]["weak"] = seen[k]["weak"]
            /\ seen'[k]["strong"] = seen[k]["strong"] + 1
        BY <1>2, <2>5, <3>3 DEF Routes
      <4>3. QED
        BY <3>1, <4>1, <4>2 DEF Backed, Stats
    <3>4. QED
      BY <1>0, <3>2, <3>3 DEF Routes
  <2>6. QED
    BY <2>4, <2>5
<1>7. QED
  BY <1>4, <1>5, <1>6 DEF EvidenceIsReal

LEMMA EvidenceStep ==
    ASSUME TypeOK, TypeOK', EvidenceIsReal, [Next]_vars
    PROVE  EvidenceIsReal'
<1>1. ASSUME NEW w \in Workers, Record(w)
      PROVE  EvidenceIsReal'
  BY <1>1, EvidenceRecord
<1>2. CASE seen' = seen /\ UNCHANGED <<mem, rows>>
      /\ \/ copy' = copy
         \/ copy' = [v \in Workers |-> [k \in Keys |-> NoCalls]]
         \/ \E w \in Workers : copy' = [copy EXCEPT ![w] = rows]
  <2>1. \A k \in Keys, v \in Workers : copy'[v][k] \in {copy[v][k], NoCalls, rows[k]}
    <3>1. CASE copy' = copy
      BY <3>1
    <3>2. ASSUME NEW w \in Workers, copy' = [copy EXCEPT ![w] = rows]
          PROVE  \A k \in Keys, v \in Workers :
                   copy'[v][k] \in {copy[v][k], NoCalls, rows[k]}
      BY <3>2 DEF TypeOK
    <3>3. CASE copy' = [v \in Workers |-> [k \in Keys |-> NoCalls]]
      BY <3>3
    <3>4. QED
      BY <1>2, <3>1, <3>2, <3>3
  <2>2. QED
    BY <1>2, <2>1, EvidenceSame
<1>3. ASSUME NEW w \in Workers, Install(w)
      PROVE  EvidenceIsReal'
  <2>1. \A k \in Keys, o \in Objects :
          mem'[o][k] \in {mem[o][k], NoCalls} \cup {copy[v][k] : v \in Workers}
    BY <1>3 DEF TypeOK, Install
  <2>2. \A k \in Keys, v \in Workers : copy'[v][k] \in {copy[v][k], NoCalls}
    BY <1>3 DEF TypeOK, Install, Drop
  <2>3. seen' = seen /\ rows' = rows
    BY <1>3 DEF Install
  <2>4. QED
    BY <2>1, <2>2, <2>3, EvidenceSame
<1>4. ASSUME NEW w \in Workers, Ask(w) \/ Copy(w)
      PROVE  EvidenceIsReal'
  <2>0. /\ obj[w] \in Objects /\ job[w].key \in Keys
        /\ mem \in [Objects -> [Keys -> Stats]]
        /\ copy \in [Workers -> [Keys -> Stats]]
    BY JobFields DEF TypeOK
  <2>1. mem' = mem \/ mem' = [mem EXCEPT ![obj[w]][job[w].key] = NoCalls]
    BY <1>4 DEF Ask, Copy
  <2>2. \A k \in Keys, o \in Objects : mem'[o][k] \in {mem[o][k], NoCalls}
    <3>1. CASE mem' = mem
      BY <3>1
    <3>2. CASE mem' = [mem EXCEPT ![obj[w]][job[w].key] = NoCalls]
      BY <2>0, <3>2, NoCallsStats, OneReplaced
    <3>3. QED
      BY <2>1, <3>1, <3>2
  <2>3. \/ copy' = copy
        \/ copy' = [copy EXCEPT ![w][job[w].key] = mem[obj[w]][job[w].key]]
    BY <1>4 DEF Ask, Copy
  <2>4. \A k \in Keys, v \in Workers :
          copy'[v][k] \in {copy[v][k]} \cup {mem[o][k] : o \in Objects}
    <3>1. CASE copy' = copy
      BY <3>1
    <3>2. CASE copy' = [copy EXCEPT ![w][job[w].key] = mem[obj[w]][job[w].key]]
      <4>1. mem[obj[w]][job[w].key] \in Stats
        BY <2>0
      <4>2. \A v \in Workers, k \in Keys :
              copy'[v][k] = IF v = w /\ k = job[w].key
                            THEN mem[obj[w]][job[w].key] ELSE copy[v][k]
        BY <2>0, <3>2, <4>1, OneReplaced
      <4>3. QED
        BY <2>0, <4>2
    <3>3. QED
      BY <2>3, <3>1, <3>2
  <2>5. seen' = seen /\ rows' = rows
    BY <1>4 DEF Ask, Copy
  <2>6. QED
    BY <2>2, <2>4, <2>5, EvidenceSame
<1>5. ASSUME NEW w \in Workers, Upsert(w)
      PROVE  EvidenceIsReal'
  <2>1. \A k \in Keys : rows'[k] \in {rows[k]} \cup {copy[v][k] : v \in Workers}
    BY <1>5, JobFields DEF TypeOK, Upsert
  <2>2. \A k \in Keys, v \in Workers : copy'[v][k] \in {copy[v][k], NoCalls}
    BY <1>5 DEF TypeOK, Upsert, Drop
  <2>3. seen' = seen /\ mem' = mem
    BY <1>5 DEF Upsert, memory
  <2>4. QED
    BY <2>1, <2>2, <2>3, EvidenceSame
<1>6. ASSUME NEW w \in Workers, ResetMemory(w) \/ ClearRows(w)
      PROVE  EvidenceIsReal'
  <2>1. \A k \in Keys : rows'[k] \in {rows[k], NoCalls}
    BY <1>6 DEF ResetMemory, ClearRows
  <2>2. \A k \in Keys, o \in Objects : mem'[o][k] \in {mem[o][k], NoCalls}
    <3>1. mem' = mem \/ mem' = [mem EXCEPT ![obj[w]] = [k \in Keys |-> NoCalls]]
      BY <1>6 DEF ResetMemory, ClearRows, memory
    <3>2. CASE mem' = mem
      BY <3>2
    <3>3. CASE mem' = [mem EXCEPT ![obj[w]] = [k \in Keys |-> NoCalls]]
      BY <3>3 DEF TypeOK
    <3>4. QED
      BY <3>1, <3>2, <3>3
  <2>3. seen' = seen /\ copy' = copy
    BY <1>6 DEF ResetMemory, ClearRows
  <2>4. QED
    BY <2>1, <2>2, <2>3, EvidenceSame
<1>7. QED
  <2>1. CASE UNCHANGED vars \/ UpdatePolicy \/ Restart \/ Tick
    <3>1. /\ UNCHANGED <<mem, rows, seen>>
          /\ copy' = copy \/ copy' = [v \in Workers |-> [k \in Keys |-> NoCalls]]
      <4>1. CASE UNCHANGED vars
        BY <4>1 DEF vars
      <4>2. CASE UpdatePolicy
        BY <4>2 DEF UpdatePolicy, memory, worker
      <4>3. CASE Restart
        BY <4>3 DEF Restart, memory
      <4>4. CASE Tick
        BY <4>4 DEF Tick, memory, worker
      <4>5. QED
        BY <2>1, <4>1, <4>2, <4>3, <4>4
    <3>2. QED
      BY <1>2, <3>1
  <2>2. ASSUME NEW w \in Workers, Start(w) \/ Load(w) \/ MarkLoaded(w) \/ Query(w)
        PROVE  EvidenceIsReal'
    BY <1>2, <2>2 DEF Start, Load, MarkLoaded, Query, memory
  <2>3. QED
    BY <1>1, <1>3, <1>4, <1>5, <1>6, <2>1, <2>2 DEF Next, Work

LEMMA EvidenceInit == Init => EvidenceIsReal
<1> SUFFICES ASSUME Init, NEW k \in Keys
             PROVE  /\ Backed(rows[k], k)
                    /\ \A o \in Objects : Backed(mem[o][k], k)
                    /\ \A w \in Workers : Backed(copy[w][k], k)
  BY DEF EvidenceIsReal
<1>1. Backed(NoCalls, k)
  BY DEF Init, Backed, NoCalls, Routes
<1>2. QED
  BY <1>1 DEF Init

\* No interleaving counts a call twice, in memory, in the rows or in flight.
THEOREM EvidenceReal == Spec => []EvidenceIsReal
<1>1. TypeOK /\ EvidenceIsReal /\ [Next]_vars => TypeOK' /\ EvidenceIsReal'
  BY CacheTypeStep, EvidenceStep
<1>2. QED
  BY <1>1, CacheTypeInit, EvidenceInit, PTL DEF Spec

-----------------------------------------------------------------------------
\* A recommended route has more calls than the other, of MinSamples at least.
LEMMA RecommendBacked ==
    ASSUME NEW st \in Stats, Recommend(st) # "none"
    PROVE  /\ st.weak + st.strong >= MinSamples
           /\ \/ Recommend(st) = "weak" /\ st.weak > st.strong
              \/ Recommend(st) = "strong" /\ st.strong > st.weak
<1>1. \/ Confident(st) /\ st.weak > st.strong /\ Recommend(st) = "weak"
      \/ Confident(st) /\ st.strong > st.weak /\ Recommend(st) = "strong"
  <2>1. Confident(st) /\ st.weak # st.strong
    BY DEF Recommend
  <2>2. st.weak \in Nat /\ st.strong \in Nat
    BY DEF Stats
  <2>3. CASE st.weak > st.strong
    BY <2>1, <2>3 DEF Recommend
  <2>4. CASE st.strong > st.weak
    <3>1. ~(st.weak > st.strong)
      BY <2>2, <2>4
    <3>2. QED
      BY <2>1, <2>4, <3>1 DEF Recommend
  <2>5. QED
    BY <2>1, <2>2, <2>3, <2>4
<1>2. QED
  BY <1>1 DEF Confident, Calls

\* The history n of a prompt has MinSamples calls, half of them on route r.
Enough(n, r) ==
    /\ n["weak"] + n["strong"] >= MinSamples
    /\ 2 * n[r] >= MinSamples

LEMMA EnoughLater ==
    ASSUME TypeOK, TypeOK', [Next]_vars, NEW k \in Keys, NEW r \in Routes,
           Enough(seen[k], r)
    PROVE  Enough(seen'[k], r)
<1>1. \A q \in Routes : seen'[k][q] >= seen[k][q] /\ seen[k][q] \in Nat /\ seen'[k][q] \in Nat
  <2>1. \A q \in Routes : seen[k][q] \in Nat /\ seen'[k][q] \in Nat
    BY DEF TypeOK
  <2>2. CASE seen' = seen
    BY <2>1, <2>2
  <2>3. ASSUME NEW w \in Workers, Record(w)
        PROVE  \A q \in Routes : seen'[k][q] >= seen[k][q]
    <3>1. /\ job[w].key \in Keys /\ job[w].route \in Routes
          /\ seen \in [Keys -> [Routes -> Nat]]
      BY JobFields DEF TypeOK
    <3>2. seen[job[w].key][job[w].route] + 1 \in Nat
      BY <3>1
    <3>3. seen' = [seen EXCEPT ![job[w].key][job[w].route]
                     = seen[job[w].key][job[w].route] + 1]
      BY <2>3 DEF Record
    <3>4. \A q \in Routes :
             seen'[k][q] = IF k = job[w].key /\ q = job[w].route
                           THEN seen[job[w].key][job[w].route] + 1 ELSE seen[k][q]
      BY <3>1, <3>2, <3>3, OneReplaced
    <3>5. QED
      BY <2>1, <3>1, <3>4
  <2>4. seen' = seen \/ \E w \in Workers : Record(w)
    BY DEF Next, Work, Start, Load, Query, Install, Ask, Copy, Upsert, ResetMemory, ClearRows,
       MarkLoaded, UpdatePolicy, Restart, Tick, vars
  <2>5. QED
    BY <2>1, <2>2, <2>3, <2>4
<1>2. "weak" \in Routes /\ "strong" \in Routes
  BY DEF Routes
<1>3. MinSamples \in Nat
  BY CacheAssumption
<1>4. QED
  BY <1>1, <1>2, <1>3 DEF Enough

LEMMA AnswersStep ==
    ASSUME TypeOK, TypeOK', EvidenceIsReal, AnswersAreBacked, [Next]_vars
    PROVE  AnswersAreBacked'
<1> SUFFICES ASSUME NEW w \in Workers, answer'[w] # "none"
             PROVE  Enough(seen'[job'[w].key], answer'[w])
  BY DEF AnswersAreBacked, Enough
<1>1. CASE answer'[w] = answer[w] /\ job'[w] = job[w]
  <2>1. PICK k \in Keys, r \in Routes : k = job[w].key /\ r = answer[w]
    BY <1>1, JobFields DEF TypeOK
  <2>2. Enough(seen[k], r)
    BY <1>1, <2>1 DEF AnswersAreBacked, Enough
  <2>3. Enough(seen'[k], r)
    BY <2>2, EnoughLater
  <2>4. QED
    BY <1>1, <2>1, <2>3
<1>2. CASE Ask(w) /\ answer' # answer
  <2>1. PICK o \in Objects, k \in Keys : o = obj[w] /\ k = job[w].key
    BY JobFields DEF TypeOK
  <2>2. answer' = [answer EXCEPT ![w] = Recommend(mem[o][k])] /\ seen' = seen /\ job' = job
    BY <1>2, <2>1 DEF Ask
  <2>3. /\ mem[o][k] \in Stats /\ Backed(mem[o][k], k)
        /\ answer'[w] = Recommend(mem[o][k])
    BY <2>2 DEF TypeOK, EvidenceIsReal
  <2>4. /\ seen[k]["weak"] \in Nat /\ seen[k]["strong"] \in Nat
    BY DEF TypeOK, Routes
  <2>5. /\ mem[o][k].weak + mem[o][k].strong >= MinSamples
        /\ \/ answer'[w] = "weak" /\ mem[o][k].weak > mem[o][k].strong
           \/ answer'[w] = "strong" /\ mem[o][k].strong > mem[o][k].weak
    BY <2>3, RecommendBacked
  <2>6. /\ mem[o][k].weak \in Nat /\ mem[o][k].strong \in Nat /\ MinSamples \in Nat
        /\ mem[o][k].weak <= seen[k]["weak"] /\ mem[o][k].strong <= seen[k]["strong"]
    BY <2>3, CacheAssumption DEF Backed, Stats
  <2>7. Enough(seen[k], answer'[w])
    BY <2>4, <2>5, <2>6 DEF Enough
  <2>8. QED
    BY <2>1, <2>2, <2>7
<1>3. CASE Start(w)
  BY <1>3 DEF Start, TypeOK
<1>4. QED
  <2>1. CASE UNCHANGED <<answer, job>>
    BY <1>1, <2>1
  <2>2. ASSUME NEW v \in Workers, Start(v)
        PROVE  Start(w) \/ (answer'[w] = answer[w] /\ job'[w] = job[w])
    BY <2>2 DEF Start, TypeOK
  <2>3. ASSUME NEW v \in Workers, Ask(v)
        PROVE  Ask(w) \/ (answer'[w] = answer[w] /\ job'[w] = job[w])
    BY <2>3 DEF Ask, TypeOK
  <2>4. \/ UNCHANGED <<answer, job>>
        \/ \E v \in Workers : Start(v) \/ Ask(v)
    BY DEF Next, Work, Load, Query, Install, Record, Copy, Upsert, ResetMemory, ClearRows,
       MarkLoaded, UpdatePolicy, Restart, Tick, vars, worker
  <2>5. CASE Ask(w) /\ answer' = answer
    BY <1>1, <2>5 DEF Ask
  <2>6. QED
    BY <1>1, <1>2, <1>3, <2>1, <2>2, <2>3, <2>4, <2>5

LEMMA AnswersInit == Init => AnswersAreBacked
BY DEF Init, AnswersAreBacked

\* A route recommended instead of asking the judge stands on MinSamples real
\* calls, most of them on that route.
THEOREM AnswersBacked == Spec => []AnswersAreBacked
<1>1. TypeOK /\ EvidenceIsReal /\ AnswersAreBacked /\ [Next]_vars
        => TypeOK' /\ EvidenceIsReal' /\ AnswersAreBacked'
  BY CacheTypeStep, EvidenceStep, AnswersStep
<1>2. QED
  BY <1>1, CacheTypeInit, EvidenceInit, AnswersInit, PTL DEF Spec

-----------------------------------------------------------------------------
(* The mutex is held by whoever loads the object, and by nobody else *)

\* An object that is, or may still come, into the hands of a worker.
InUse(o) == o = current \/ \E w \in Workers : pc[w] # "idle" /\ obj[w] = o

\* A restart leaves the mutexes of the old process as they were; the objects
\* that are used from then on are new and were free up to then.
MutexInv ==
    /\ \A w \in Workers : obj[w] <= current
    /\ \A o \in Objects : o > current => holder[o] = Nobody
    /\ \A o \in Objects :
          InUse(o) /\ holder[o] # Nobody =>
              pc[holder[o]] \in {"query", "install"} /\ obj[holder[o]] = o

\* Who is not loading holds no mutex that matters.
LEMMA HoldsNothing ==
    ASSUME MutexInv, NEW w \in Workers, pc[w] \notin {"query", "install"}
    PROVE  \A o \in Objects : holder[o] = w => ~InUse(o)
<1>1. w # Nobody
  BY CacheAssumption
<1>2. QED
  BY <1>1 DEF MutexInv

\* Taking and giving back the mutex.
LEMMA MutexLoad ==
    ASSUME TypeOK, MutexInv, NEW w \in Workers, Load(w) \/ Query(w) \/ Install(w)
    PROVE  MutexInv'
<1> USE DEF TypeOK, MutexInv, InUse, Objects, Goto, memory
<1>0. job[w].op \in {"ask", "record", "reset"}
  BY JobFields
<1>1. CASE Load(w)
  <2>0. pc[w] = "load"
    BY <1>1 DEF Load
  <2>1. /\ UNCHANGED <<obj, current>> /\ holder[obj[w]] = Nobody
        /\ \A o \in Objects : InUse(o)' => InUse(o)
    BY <1>0, <1>1 DEF Load
  <2>2. CASE UNCHANGED holder
    <3>1. PICK l \in {"ask", "record", "reset", "query"} : pc' = [pc EXCEPT ![w] = l]
      BY <1>0, <1>1 DEF Load
    <3>2. \A o \in Objects : holder[o] = w => ~InUse(o)
      BY <2>0, HoldsNothing
    <3>3. QED
      BY <2>0, <2>1, <2>2, <3>1, <3>2
  <2>3. CASE /\ holder' = [holder EXCEPT ![obj[w]] = w]
             /\ pc' = [pc EXCEPT ![w] = "query"]
    <3>1. \A o \in Objects : holder[o] = w => ~InUse(o)
      BY <2>0, HoldsNothing
    <3>2. \A o \in Objects : holder'[o] = IF o = obj[w] THEN w ELSE holder[o]
      BY <2>3
    <3>3. \A o \in Objects : o > current => holder'[o] = Nobody
      BY <2>1, <3>2
    <3>4. ASSUME NEW o \in Objects, InUse(o)', holder'[o] # Nobody
          PROVE  pc'[holder'[o]] \in {"query", "install"} /\ obj'[holder'[o]] = o
      <4>1. CASE o = obj[w]
        BY <2>0, <2>1, <2>3, <3>2, <4>1
      <4>2. CASE o # obj[w]
        BY <2>1, <2>3, <3>1, <3>2, <3>4, <4>2
      <4>3. QED
        BY <4>1, <4>2
    <3>5. QED
      BY <2>1, <3>3, <3>4
  <2>4. QED
    BY <1>1, <2>2, <2>3 DEF Load
<1>2. ASSUME UNCHANGED <<obj, current>>, pc[w] \in {"query", "install"},
             \/ pc' = [pc EXCEPT ![w] = "install"] /\ UNCHANGED holder
             \/ /\ pc' = [pc EXCEPT ![w] = job[w].op]
                /\ holder' = [holder EXCEPT ![obj[w]] = Nobody]
      PROVE  MutexInv'
  <2>1. CASE pc' = [pc EXCEPT ![w] = "install"] /\ UNCHANGED holder
    BY <1>2, <2>1, CacheAssumption
  <2>2. CASE /\ pc' = [pc EXCEPT ![w] = job[w].op]
             /\ holder' = [holder EXCEPT ![obj[w]] = Nobody]
    <3>1. \A o \in Objects : InUse(o)' => InUse(o)
      BY <1>0, <1>2, <2>2
    <3>2. \A o \in Objects : o # obj[w] /\ holder[o] = w => ~InUse(o)
      BY <1>2, CacheAssumption
    <3>3. \A o \in Objects : holder'[o] = IF o = obj[w] THEN Nobody ELSE holder[o]
      BY <2>2
    <3>4. ASSUME NEW o \in Objects, InUse(o)', holder'[o] # Nobody
          PROVE  pc'[holder'[o]] \in {"query", "install"} /\ obj'[holder'[o]] = o
      <4>1. o # obj[w] /\ InUse(o) /\ holder'[o] = holder[o] /\ holder[o] # w
        BY <3>1, <3>2, <3>3, <3>4
      <4>2. QED
        BY <1>2, <2>2, <3>4, <4>1
    <3>5. QED
      BY <1>2, <3>3, <3>4
  <2>3. QED
    BY <1>2, <2>1, <2>2
<1>3. CASE Query(w)
  BY <1>2, <1>3 DEF Query
<1>4. CASE Install(w)
  BY <1>2, <1>4 DEF Install
<1>5. QED
  BY <1>1, <1>3, <1>4

\* Starting an operation, and the steps that leave all mutexes alone.
LEMMA MutexRest ==
    ASSUME TypeOK, MutexInv, NEW w \in Workers,
           \/ Start(w) \/ Ask(w) \/ Record(w) \/ Copy(w) \/ Upsert(w)
           \/ ResetMemory(w) \/ ClearRows(w) \/ MarkLoaded(w)
    PROVE  MutexInv'
<1> USE DEF TypeOK, MutexInv, InUse, Objects, Goto, memory
<1>1. CASE Start(w)
  <2>1. UNCHANGED <<holder, current>> /\ obj' = [obj EXCEPT ![w] = current] /\ pc[w] = "idle"
    BY <1>1 DEF Start
  <2>2. PICK l \in {"load", "reset"} : pc' = [pc EXCEPT ![w] = l]
    BY <1>1 DEF Start
  <2>3. QED
    BY <2>1, <2>2, CacheAssumption
<1>2. CASE ~Start(w)
  <2>1. UNCHANGED <<holder, current, obj>> /\ pc[w] \notin {"idle", "query", "install"}
    BY <1>2 DEF Ask, Record, Copy, Upsert, ResetMemory, ClearRows, MarkLoaded
  <2>2. PICK l \in {"idle", "copy", "upsert", "clear", "mark"} : pc' = [pc EXCEPT ![w] = l]
    BY <1>2 DEF Ask, Record, Copy, Upsert, ResetMemory, ClearRows, MarkLoaded
  <2>3. \A o \in Objects : InUse(o)' => InUse(o)
    BY <2>1, <2>2
  <2>4. \A o \in Objects : holder[o] = w => ~InUse(o)
    BY <2>1, HoldsNothing
  <2>5. QED
    BY <2>1, <2>2, <2>3, <2>4
<1>3. QED
  BY <1>1, <1>2

\* Every step keeps the mutexes in order.
LEMMA MutexStep ==
    ASSUME TypeOK, TypeOK', MutexInv, [Next]_vars
    PROVE  MutexInv'
<1>1. ASSUME NEW w \in Workers, Start(w) \/ Work(w) PROVE MutexInv'
  BY <1>1, MutexLoad, MutexRest DEF Work
<1>2. CASE UpdatePolicy
  BY <1>2 DEF UpdatePolicy, MutexInv, InUse, TypeOK, Objects, memory, worker
<1>3. CASE Restart
  BY <1>3 DEF Restart, MutexInv, InUse, TypeOK, Objects, memory
<1>4. CASE Tick
  BY <1>4 DEF Tick, MutexInv, InUse, memory, worker
<1>5. CASE UNCHANGED vars
  BY <1>5 DEF vars, MutexInv, InUse
<1>6. QED
  BY <1>1, <1>2, <1>3, <1>4, <1>5 DEF Next

LEMMA MutexInit == Init => MutexInv
BY CacheAssumption DEF Init, MutexInv, InUse, Objects

\* Whoever waits for the mutex waits for a goroutine that will give it back:
\* for any number of goroutines and objects, failed loads and restarts
\* included.
THEOREM MutexComesBack == Spec => []WaitersAreServed
<1>1. TypeOK /\ MutexInv => WaitersAreServed
  BY DEF MutexInv, WaitersAreServed, InUse, TypeOK
<1>2. Init => MutexInv
  BY MutexInit
<1>3. TypeOK /\ TypeOK' /\ MutexInv /\ [Next]_vars => MutexInv'
  BY MutexStep
<1>4. QED
  BY <1>1, <1>2, <1>3, CacheTypeCorrect, PTL DEF Spec
=============================================================================
