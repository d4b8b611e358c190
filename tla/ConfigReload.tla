----------------------------- MODULE ConfigReload -----------------------------
(***************************************************************************)
(* The runtime configuration and its file.  Dashboard handlers read the    *)
(* file, change it in memory, replace it by a rename and reload; a watcher *)
(* compares digests every second and reloads; an operator edits the file   *)
(* by hand; the process crashes and starts again.                          *)
(*                                                                         *)
(* Of a file's content the model keeps whether it can be loaded, which     *)
(* dashboard changes are in it and which edit by hand it goes back to.     *)
(* A digest is the content it was made of.                                 *)
(***************************************************************************)
EXTENDS Naturals, FiniteSets

CONSTANTS
    Patches,        \* requests that patch models, judge or routing order
    KeyUpdates,     \* requests that change keys
    Watcher,
    MaxEdits,       \* bound: edits by hand
    MaxCrashes      \* bound: crashes

Handlers == Patches \cup KeyUpdates
Actors == Handlers \cup {Watcher}

ASSUME ReloadAssumption ==
    /\ Patches \cap KeyUpdates = {}
    /\ Watcher \notin Handlers
    /\ MaxEdits \in Nat /\ MaxCrashes \in Nat

\* "invalid" is JSON that Validate refuses, "broken" is no JSON.
States == {"absent", "good", "invalid", "broken"}
Contents == [state : States, has : SUBSET Handlers, rev : 0..MaxEdits]

\* What is loaded when there is no sentinel file.
Legacy == [state |-> "good", has |-> {}, rev |-> 0]
NoFile == [Legacy EXCEPT !.state = "absent"]

VARIABLES
    file,
    config,     \* Manager.config
    digest,     \* Manager.digest
    up,         \* the process runs
    pc,
    buf,        \* buf[a]: raw in a handler, then cfg in ForceReload
    sum,        \* sum[a]: digest in ForceReload
    answer,     \* answer[h]: what the client was told
    edits, crashes,
    past,       \* history: good contents the file has had
    slipped     \* history: the file changed under a reload that had read it

vars == <<file, config, digest, up, pc, buf, sum, answer, edits, crashes, past, slipped>>
counts == <<edits, crashes>>

TypeOK ==
    /\ file \in Contents
    /\ config \in Contents /\ digest \in Contents
    /\ up \in BOOLEAN
    /\ pc \in [Actors -> {"idle", "write", "load", "digest", "install"}]
    /\ buf \in [Actors -> Contents] /\ sum \in [Actors -> Contents]
    /\ answer \in [Handlers -> {"none", "done", "refused", "lost"}]
    /\ edits \in 0..MaxEdits /\ crashes \in 0..MaxCrashes
    /\ past \in SUBSET Contents
    /\ slipped \in BOOLEAN

Init ==
    /\ file \in {NoFile, Legacy}
    /\ config = Legacy /\ digest = file
    /\ up = TRUE
    /\ pc = [a \in Actors |-> "idle"]
    /\ buf = [a \in Actors |-> Legacy]
    /\ sum = [a \in Actors |-> Legacy]
    /\ answer = [h \in Handlers |-> "none"]
    /\ edits = 0 /\ crashes = 0
    /\ past = {Legacy}
    /\ slipped = FALSE

Goto(a, l) == pc' = [pc EXCEPT ![a] = l]

\* The end of an operation: its local variables are gone.
Leave(a) ==
    /\ Goto(a, "idle")
    /\ buf' = [buf EXCEPT ![a] = Legacy]
    /\ sum' = [sum EXCEPT ![a] = Legacy]
Answer(h, r) == answer' = [answer EXCEPT ![h] = r]

\* The file gets a new content, in one step: the rename, or a save.
Replace(content) ==
    /\ file' = content
    /\ past' = IF content.state = "good" THEN past \cup {content} ELSE past
    /\ slipped' = (slipped \/ \E a \in Actors : pc[a] \in {"digest", "install"})

-----------------------------------------------------------------------------
(* The handlers: patchRawConfig and updateKeys *)

\* ensureRawSentinelConfig: without a file, the configuration in force.
ReadRaw(h) ==
    /\ up /\ pc[h] = "idle" /\ answer[h] = "none"
    /\ file.state # "broken"
    /\ buf' = [buf EXCEPT ![h] = IF file.state = "absent" THEN config ELSE file]
    /\ Goto(h, "write")
    /\ UNCHANGED <<file, config, digest, up, sum, answer, counts, past, slipped>>

\* The request is bad, the file is no JSON, or the temporary file fails.
Refuse(h) ==
    /\ up /\ answer[h] = "none"
    /\ pc[h] \in {"idle", "write"}
    /\ Leave(h)
    /\ Answer(h, "refused")
    /\ UNCHANGED <<file, config, digest, up, counts, past, slipped>>

\* Mutation: a patch is written whether or not Validate accepts the result.
WriteAnything(h) ==
    /\ up /\ pc[h] = "write"
    /\ \E st \in {"good", "invalid"} :
          Replace([buf[h] EXCEPT !.has = @ \cup {h}, !.state = st])
    /\ Goto(h, "load")
    /\ UNCHANGED <<config, digest, up, buf, sum, answer, counts>>

\* A patch is written only if the result is valid; keys are written unseen and
\* may make a file valid that was not, never the reverse (ModelCatalog).
Write(h) ==
    /\ up /\ pc[h] = "write"
    /\ \E st \in {"good", "invalid"} :
          /\ h \in Patches \/ buf[h].state = "good" => st = "good"
          /\ Replace([buf[h] EXCEPT !.has = @ \cup {h}, !.state = st])
    /\ Goto(h, "load")
    /\ UNCHANGED <<config, digest, up, buf, sum, answer, counts>>

-----------------------------------------------------------------------------
(* The manager: ForceReload, called by the handlers and by the watcher *)

\* Every second; an equal digest ends it.
Notice ==
    /\ up /\ pc[Watcher] = "idle"
    /\ digest # file
    /\ Goto(Watcher, "load")
    /\ UNCHANGED <<file, config, digest, up, buf, sum, answer, counts, past, slipped>>

Loaded(f) == IF f.state = "absent" THEN Legacy ELSE f

\* Mutation: a file that cannot be loaded is installed all the same.
LoadUnchecked(a) ==
    /\ up /\ pc[a] = "load"
    /\ buf' = [buf EXCEPT ![a] = Loaded(file)]
    /\ Goto(a, "digest")
    /\ UNCHANGED <<file, config, digest, up, sum, answer, counts, past, slipped>>

Load(a) ==
    /\ up /\ pc[a] = "load"
    /\ Loaded(file).state = "good"
    /\ buf' = [buf EXCEPT ![a] = Loaded(file)]
    /\ Goto(a, "digest")
    /\ UNCHANGED <<file, config, digest, up, sum, answer, counts, past, slipped>>

\* The old configuration stays; a handler answers with the error.
LoadFails(a) ==
    /\ up /\ pc[a] = "load"
    /\ Loaded(file).state # "good"
    /\ Leave(a)
    /\ IF a \in Handlers THEN Answer(a, "refused") ELSE UNCHANGED answer
    /\ UNCHANGED <<file, config, digest, up, counts, past, slipped>>

\* The file is read once more for its digest.
Digest(a) ==
    /\ up /\ pc[a] = "digest"
    /\ sum' = [sum EXCEPT ![a] = file]
    /\ Goto(a, "install")
    /\ UNCHANGED <<file, config, digest, up, buf, answer, counts, past, slipped>>

\* Mutation: the digest is kept although the configuration is not replaced.
InstallDigest(a) ==
    /\ up /\ pc[a] = "install"
    /\ UNCHANGED config
    /\ digest' = sum[a]
    /\ Leave(a)
    /\ IF a \in Handlers THEN Answer(a, "done") ELSE UNCHANGED answer
    /\ UNCHANGED <<file, up, counts, past, slipped>>

Install(a) ==
    /\ up /\ pc[a] = "install"
    /\ config' = buf[a]
    /\ digest' = sum[a]
    /\ Leave(a)
    /\ IF a \in Handlers THEN Answer(a, "done") ELSE UNCHANGED answer
    /\ UNCHANGED <<file, up, counts, past, slipped>>

-----------------------------------------------------------------------------
(* The operator, crashes and restarts *)

\* An edit by hand starts from the content at hand and may not be loadable.
Edit ==
    /\ edits < MaxEdits
    /\ edits' = edits + 1
    /\ \E st \in {"good", "invalid", "broken"} :
          Replace([state |-> st, has |-> file.has, rev |-> edits + 1])
    /\ UNCHANGED <<config, digest, up, pc, buf, sum, answer, crashes>>

Crash ==
    /\ up /\ crashes < MaxCrashes
    /\ crashes' = crashes + 1
    /\ up' = FALSE
    /\ pc' = [a \in Actors |-> "idle"]
    /\ buf' = [a \in Actors |-> Legacy]
    /\ sum' = [a \in Actors |-> Legacy]
    /\ answer' = [h \in Handlers |-> IF pc[h] # "idle" THEN "lost" ELSE answer[h]]
    /\ UNCHANGED <<file, config, digest, edits, past, slipped>>

\* main gives up when the file cannot be loaded, and is started again.
Start ==
    /\ ~up
    /\ Loaded(file).state = "good"
    /\ up' = TRUE
    /\ config' = Loaded(file) /\ digest' = file
    /\ UNCHANGED <<file, pc, buf, sum, answer, counts, past, slipped>>

Reload(a) == Load(a) \/ LoadFails(a) \/ Digest(a) \/ Install(a)

Next ==
    \/ \E h \in Handlers : ReadRaw(h) \/ Refuse(h) \/ Write(h)
    \/ Notice
    \/ \E a \in Actors : Reload(a)
    \/ Edit \/ Crash \/ Start

Spec == Init /\ [][Next]_vars

\* The ticker ticks, a handler that has begun goes on, and the process is
\* started again.
FairSpec ==
    /\ Spec
    /\ WF_vars(Notice) /\ WF_vars(Start)
    /\ \A a \in Actors : WF_vars(Reload(a))
    /\ \A h \in Handlers : WF_vars(pc[h] = "write" /\ (Write(h) \/ Refuse(h)))

-----------------------------------------------------------------------------
(* Properties *)

\* What is in force was loaded whole from a good file: no edit, rename or crash
\* at any moment lets anything else in (manager.go:38, sentinel.go:136).
InForceWasGood == config.state = "good" /\ config \in past

\* A digest that equals the file's stands for the configuration in force, as
\* long as no reload was overtaken by a change (manager.go:38-48).
DigestIsHonest == ~slipped /\ up /\ digest = file => config = Loaded(file)

\* A good file takes effect, after whatever came before, unless it changed
\* under a reload (manager.go:52-77).
FileTakesEffect ==
    <>[](~slipped /\ file.state = "good" => up /\ config = file)

\* Without edits by hand the dashboard never writes a file that a restart
\* would refuse, and a refused patch leaves no trace in it (server.go:1107).
DashboardKeepsFileGood ==
    edits = 0 =>
        /\ file.state \in {"absent", "good"}
        /\ \A h \in Handlers : answer[h] = "refused" => h \notin file.has

-----------------------------------------------------------------------------
(* What a message says and the code does not do *)

\* server.go:600: "Model %s created": a change that was acknowledged is in the
\* file, which edits by hand do not take it out of.
AcknowledgedIsKept == \A h \in Handlers : answer[h] = "done" => h \in file.has
=============================================================================
