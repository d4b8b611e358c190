---------------------------- MODULE SemanticCache ----------------------------
(***************************************************************************)
(* The semantic route cache: a PersistentCache object holds statistics per *)
(* prompt hash in memory, loads them lazily from the                       *)
(* semantic_cache_stats rows and writes every change back.  The goroutines *)
(* of concurrent requests ask it for a route and record what was routed,   *)
(* the dashboard resets it, and a policy update replaces the object while  *)
(* requests still use the old one.                                         *)
(*                                                                         *)
(* Of a statistic the model keeps the weak and strong counts (TotalCalls   *)
(* is their sum) and the time of the last call.  A prompt that is absent   *)
(* is one with no calls.  The append-only semantic_cache_entries table is  *)
(* never read back by the cache and is left out.                           *)
(***************************************************************************)
EXTENDS Integers

CONSTANTS
    Keys,           \* prompt hashes
    LogKey,         \* LogKey[k]: k after redaction for the logs
    Workers,        \* goroutines that use the cache
    Operations,     \* what they do: a subset of {"ask", "record", "reset"}
    MinSamples,
    MinConfidence,  \* confidenceThreshold, in percent
    Ttl,
    DatabaseFails,  \* whether a statement may fail
    MaxObjects,     \* bound: cache objects ever made
    MaxClock,       \* bound: the time
    MaxCalls,       \* bound: calls recorded per prompt before no more start
    Nobody          \* no worker

ASSUME CacheAssumption ==
    /\ LogKey \in [Keys -> Keys]
    /\ Operations \subseteq {"ask", "record", "reset"}
    /\ MinSamples \in Nat \ {0}
    /\ MinConfidence \in Nat \ {0}
    /\ Ttl \in Nat
    /\ DatabaseFails \in BOOLEAN
    /\ MaxObjects \in Nat \ {0}
    /\ MaxClock \in Nat
    /\ MaxCalls \in Nat
    /\ Nobody \notin Workers

Objects == 1..MaxObjects
Routes == {"weak", "strong"}
Stats == [weak : Nat, strong : Nat, at : Nat]
NoCalls == [weak |-> 0, strong |-> 0, at |-> 0]

VARIABLES
    mem,        \* mem[o][k]: the statistics of k in object o
    loaded,     \* loaded[o]: PersistentCache.loaded
    holder,     \* holder[o]: who holds PersistentCache.mu
    rows,       \* rows[k]: the row of k
    current,    \* the object Router.cache points to
    now,        \* the time
    pc,         \* pc[w]: where worker w is
    obj,        \* obj[w]: the object w works on
    job,        \* job[w]: its operation, prompt and route
    copy,       \* copy[w]: rows read, or statistics about to be written
    answer,     \* answer[w]: the last answer of ConfidentRoute
    seen        \* history: what was recorded for each prompt, ever

memory == <<mem, loaded, holder>>
worker == <<pc, obj, job, copy, answer>>
vars == <<mem, loaded, holder, rows, current, now, pc, obj, job, copy, answer, seen>>

Jobs == [op : {"ask", "record", "reset"}, key : Keys, route : Routes]

TypeOK ==
    /\ mem \in [Objects -> [Keys -> Stats]]
    /\ loaded \in [Objects -> BOOLEAN]
    /\ holder \in [Objects -> Workers \cup {Nobody}]
    /\ rows \in [Keys -> Stats]
    /\ current \in Objects
    /\ now \in Nat
    /\ pc \in [Workers -> {"idle", "load", "query", "install", "ask", "record",
                            "copy", "upsert", "reset", "clear", "mark"}]
    /\ obj \in [Workers -> Objects]
    /\ job \in [Workers -> Jobs]
    /\ copy \in [Workers -> [Keys -> Stats]]
    /\ answer \in [Workers -> Routes \cup {"none"}]
    /\ seen \in [Keys -> [Routes -> Nat]]

Calls(st) == st.weak + st.strong

\* Cache.Lookup forgets an entry that was last called longer than Ttl ago.
Expired(st) == Calls(st) > 0 /\ now - st.at > Ttl

Init ==
    /\ mem = [o \in Objects |-> [k \in Keys |-> NoCalls]]
    /\ loaded = [o \in Objects |-> FALSE]
    /\ holder = [o \in Objects |-> Nobody]
    /\ rows = [k \in Keys |-> NoCalls]
    /\ current = 1
    /\ now = 0
    /\ pc = [w \in Workers |-> "idle"]
    /\ obj = [w \in Workers |-> 1]
    /\ job \in [Workers -> {j \in Jobs : j.op = "ask" /\ j.route = "weak"}]
    /\ copy = [w \in Workers |-> [k \in Keys |-> NoCalls]]
    /\ answer = [w \in Workers |-> "none"]
    /\ seen = [k \in Keys |-> [r \in Routes |-> 0]]

Goto(w, l) == pc' = [pc EXCEPT ![w] = l]

\* The statistics a function holds in a local variable end with it.
Drop(w) == copy' = [copy EXCEPT ![w] = [k \in Keys |-> NoCalls]]

-----------------------------------------------------------------------------
(* Starting an operation, and the lazy load that precedes it *)

\* With redaction of the logs alone a request asks under its prompt as it
\* came and records under the scrubbed one; in the other modes both are the
\* same and LogKey is the identity.
Recorded == {LogKey[k] : k \in Keys}

\* Route reads Router.cache once and calls a method of that object.
Start(w) ==
    /\ pc[w] = "idle"
    /\ \E j \in Jobs :
          /\ j.op \in Operations
          /\ j.op = "record" => Calls([weak |-> seen[j.key]["weak"],
                                       strong |-> seen[j.key]["strong"]]) < MaxCalls
          /\ j.op = "record" => j.key \in Recorded
          /\ j.op # "record" => j.route = "weak"
          /\ job' = [job EXCEPT ![w] = j]
          /\ Goto(w, IF j.op = "reset" THEN "reset" ELSE "load")
    /\ obj' = [obj EXCEPT ![w] = current]
    /\ answer' = [answer EXCEPT ![w] = "none"]
    /\ UNCHANGED <<memory, rows, current, now, copy, seen>>

\* Mutation: the loaded flag is tested without taking the mutex.
LoadUnlocked(w) ==
    /\ pc[w] = "load"
    /\ Goto(w, IF loaded[obj[w]] THEN job[w].op ELSE "query")
    /\ UNCHANGED <<memory, rows, current, now, obj, job, copy, answer, seen>>

\* ensureLoaded takes the mutex; it keeps it only if there is work to do.
Load(w) ==
    /\ pc[w] = "load"
    /\ holder[obj[w]] = Nobody
    /\ \/ /\ loaded[obj[w]]
          /\ Goto(w, job[w].op)
          /\ UNCHANGED holder
       \/ /\ ~loaded[obj[w]]
          /\ holder' = [holder EXCEPT ![obj[w]] = w]
          /\ Goto(w, "query")
    /\ UNCHANGED <<mem, loaded, rows, current, now, obj, job, copy, answer, seen>>

\* Mutation: the error return forgets the mutex.
QueryKeepsLock(w) ==
    /\ pc[w] = "query"
    /\ \/ copy' = [copy EXCEPT ![w] = rows] /\ Goto(w, "install")
       \/ DatabaseFails /\ Goto(w, job[w].op) /\ UNCHANGED copy
    /\ UNCHANGED <<memory, rows, current, now, obj, job, answer, seen>>

\* LoadSemanticCacheStats.  Its error is ignored by every caller: they go on
\* with an empty memory and the next operation tries again.
Query(w) ==
    /\ pc[w] = "query"
    /\ \/ /\ copy' = [copy EXCEPT ![w] = rows]
          /\ Goto(w, "install")
          /\ UNCHANGED holder
       \/ /\ DatabaseFails
          /\ holder' = [holder EXCEPT ![obj[w]] = Nobody]
          /\ Goto(w, job[w].op)
          /\ UNCHANGED copy
    /\ UNCHANGED <<mem, loaded, rows, current, now, obj, job, answer, seen>>

\* Mutation: the counts of the rows are added to those in memory.
InstallAdds(w) ==
    /\ pc[w] = "install"
    /\ mem' = [mem EXCEPT ![obj[w]] =
                 [k \in Keys |-> [weak |-> @[k].weak + copy[w][k].weak,
                                  strong |-> @[k].strong + copy[w][k].strong,
                                  at |-> now]]]
    /\ loaded' = [loaded EXCEPT ![obj[w]] = TRUE]
    /\ holder' = [holder EXCEPT ![obj[w]] = Nobody]
    /\ Goto(w, job[w].op)
    /\ Drop(w)
    /\ UNCHANGED <<rows, current, now, obj, job, answer, seen>>

\* LoadFromStats puts every row into memory, over what is there.
Install(w) ==
    /\ pc[w] = "install"
    /\ mem' = [mem EXCEPT ![obj[w]] =
                 [k \in Keys |-> IF Calls(copy[w][k]) > 0 THEN copy[w][k] ELSE @[k]]]
    /\ loaded' = [loaded EXCEPT ![obj[w]] = TRUE]
    /\ holder' = [holder EXCEPT ![obj[w]] = Nobody]
    /\ Goto(w, job[w].op)
    /\ Drop(w)
    /\ UNCHANGED <<rows, current, now, obj, job, answer, seen>>

-----------------------------------------------------------------------------
(* ConfidentRoute *)

Larger(st) == IF st.strong > st.weak THEN st.strong ELSE st.weak

\* Mutation: the sample count is not looked at.
ConfidentOnOne(st) ==
    /\ Calls(st) > 0
    /\ 100 * Larger(st) >= MinConfidence * Calls(st)

Confident(st) ==
    /\ Calls(st) >= MinSamples
    /\ 100 * Larger(st) >= MinConfidence * Calls(st)

\* The answer of ConfidentRoute; a tie is no answer.
Recommend(st) ==
    IF ~Confident(st) \/ st.weak = st.strong THEN "none"
    ELSE IF st.weak > st.strong THEN "weak" ELSE "strong"

Ask(w) ==
    LET st == mem[obj[w]][job[w].key]
    IN  /\ pc[w] = "ask"
        /\ \/ /\ Expired(st)
              /\ mem' = [mem EXCEPT ![obj[w]][job[w].key] = NoCalls]
              /\ UNCHANGED answer
           \/ /\ ~Expired(st)
              /\ answer' = [answer EXCEPT ![w] = Recommend(st)]
              /\ UNCHANGED mem
        /\ Goto(w, "idle")
        /\ UNCHANGED <<loaded, holder, rows, current, now, obj, job, copy, seen>>

-----------------------------------------------------------------------------
(* Record: three critical sections, not one *)

Bump(st, route) ==
    [weak   |-> IF route = "weak" THEN st.weak + 1 ELSE st.weak,
     strong |-> IF route = "strong" THEN st.strong + 1 ELSE st.strong,
     at     |-> now]

\* An entry that has expired but was not looked up is counted on.
Record(w) ==
    LET k == job[w].key
    IN  /\ pc[w] = "record"
        /\ mem' = [mem EXCEPT ![obj[w]][k] = Bump(@, job[w].route)]
        /\ seen' = [seen EXCEPT ![k][job[w].route] = @ + 1]
        /\ Goto(w, "copy")
        /\ UNCHANGED <<loaded, holder, rows, current, now, obj, job, copy, answer>>

\* Record looks the entry up again: it may be gone by now.
Copy(w) ==
    LET st == mem[obj[w]][job[w].key]
    IN  /\ pc[w] = "copy"
        /\ \/ /\ Calls(st) = 0
              /\ Goto(w, "idle")
              /\ UNCHANGED <<mem, copy>>
           \/ /\ Expired(st)
              /\ mem' = [mem EXCEPT ![obj[w]][job[w].key] = NoCalls]
              /\ Goto(w, "idle")
              /\ UNCHANGED copy
           \/ /\ Calls(st) > 0 /\ ~Expired(st)
              /\ copy' = [copy EXCEPT ![w][job[w].key] = st]
              /\ Goto(w, "upsert")
              /\ UNCHANGED mem
        /\ UNCHANGED <<loaded, holder, rows, current, now, obj, job, answer, seen>>

\* UpsertSemanticCacheStats writes the counts it was given, however old.
Upsert(w) ==
    /\ pc[w] = "upsert"
    /\ \/ rows' = [rows EXCEPT ![job[w].key] = copy[w][job[w].key]]
       \/ DatabaseFails /\ UNCHANGED rows
    /\ Drop(w)
    /\ Goto(w, "idle")
    /\ UNCHANGED <<memory, current, now, obj, job, answer, seen>>

-----------------------------------------------------------------------------
(* Reset: memory, then the rows, then the flag *)

ResetMemory(w) ==
    /\ pc[w] = "reset"
    /\ mem' = [mem EXCEPT ![obj[w]] = [k \in Keys |-> NoCalls]]
    /\ Goto(w, "clear")
    /\ UNCHANGED <<loaded, holder, rows, current, now, obj, job, copy, answer, seen>>

ClearRows(w) ==
    /\ pc[w] = "clear"
    /\ \/ rows' = [k \in Keys |-> NoCalls]
       \/ DatabaseFails /\ UNCHANGED rows
    /\ Goto(w, "mark")
    /\ UNCHANGED <<memory, current, now, obj, job, copy, answer, seen>>

MarkLoaded(w) ==
    /\ pc[w] = "mark"
    /\ holder[obj[w]] = Nobody
    /\ loaded' = [loaded EXCEPT ![obj[w]] = TRUE]
    /\ Goto(w, "idle")
    /\ UNCHANGED <<mem, holder, rows, current, now, obj, job, copy, answer, seen>>

-----------------------------------------------------------------------------
(* The operator, the process and time *)

\* UpdatePolicy makes a new cache object; workers keep the one they have.
UpdatePolicy ==
    /\ current < MaxObjects
    /\ current' = current + 1
    /\ UNCHANGED <<memory, rows, now, worker, seen>>

\* The process stops with whatever is in flight and starts with a new object.
Restart ==
    /\ current < MaxObjects
    /\ current' = current + 1
    /\ pc' = [w \in Workers |-> "idle"]
    /\ copy' = [w \in Workers |-> [k \in Keys |-> NoCalls]]
    /\ UNCHANGED <<memory, rows, now, obj, job, answer, seen>>

Tick ==
    /\ now < MaxClock
    /\ now' = now + 1
    /\ UNCHANGED <<memory, rows, current, worker, seen>>

Work(w) ==
    \/ Load(w) \/ Query(w) \/ Install(w)
    \/ Ask(w)
    \/ Record(w) \/ Copy(w) \/ Upsert(w)
    \/ ResetMemory(w) \/ ClearRows(w) \/ MarkLoaded(w)

Next ==
    \/ \E w \in Workers : Start(w) \/ Work(w)
    \/ UpdatePolicy
    \/ Restart
    \/ Tick

Spec == Init /\ [][Next]_vars

-----------------------------------------------------------------------------
(* Properties *)

Backed(st, k) == st.weak <= seen[k]["weak"] /\ st.strong <= seen[k]["strong"]

\* No interleaving of loads, writes, resets, policy updates and restarts
\* counts a call twice: no copy of a prompt's statistics, in any object, in
\* the rows or in flight, holds more calls than were made
\* (persistent_cache.go:51, semantic_cache.go:60).
EvidenceIsReal ==
    \A k \in Keys :
        /\ Backed(rows[k], k)
        /\ \A o \in Objects : Backed(mem[o][k], k)
        /\ \A w \in Workers : Backed(copy[w][k], k)

\* The cache replaces the judge only with a route that MinSamples real calls
\* stand behind, most of them on that route (cache.go:74-90).
AnswersAreBacked ==
    \A w \in Workers :
        answer[w] # "none" =>
            LET n == seen[job[w].key]
            IN  n["weak"] + n["strong"] >= MinSamples /\ 2 * n[answer[w]] >= MinSamples

Shrinks(o, k) == Calls(mem'[o][k]) < Calls(mem[o][k])

\* An object that has loaded its rows forgets calls only when they expire or
\* when it is reset, whatever number of goroutines race for the load, whichever
\* loads failed before, and although a reset marks the object as loaded while
\* others may be waiting to load it: no load is installed over what was recorded
\* since another one was (persistent_cache.go:25-54, 102-108).
LoadLosesNothing ==
    [][\A o \in Objects, k \in Keys :
           loaded[o] /\ Shrinks(o, k) =>
               \/ Expired(mem[o][k])
               \/ \E w \in Workers : obj[w] = o /\ pc[w] = "reset" /\ pc'[w] = "clear"]_vars

\* A goroutine that waits for the mutex of its object waits for one that is
\* loading the same object, also after failed loads, policy updates and
\* restarts: no error return keeps the mutex (persistent_cache.go:25-54).
WaitersAreServed ==
    \A w \in Workers :
        pc[w] \in {"load", "mark"} /\ holder[obj[w]] # Nobody =>
            LET h == holder[obj[w]]
            IN  pc[h] \in {"query", "install"} /\ obj[h] = obj[w]

=============================================================================
