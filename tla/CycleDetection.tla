--------------------------- MODULE CycleDetection ---------------------------
(***************************************************************************)
(* The registry of cycle detectors and the requests that use them.  A      *)
(* request takes its session's detector from the registry under a lock,    *)
(* asks it, and adds to it or clears it when the answer or the error of    *)
(* the provider is there, without a lock.  By then the detector may have   *)
(* been evicted or its registry replaced: what is added to it then is seen *)
(* by nobody, as a detector is asked only right after it was taken.  Two   *)
(* requests of one session race on its detector.                           *)
(***************************************************************************)
EXTENDS Integers, Sequences, FiniteSets, SequencesExt

CONSTANTS
    Sessions, Requests,
    Prompts, Responses,
    None,               \* the empty text; no session, no prompt
    SimHash,            \* of a prompt and a response: here a point on a line
    Threshold,          \* distance up to which two hashes are near
    MaxSize,            \* detectors in the registry
    MaxHashes           \* of a detector

ASSUME CycleAssumption ==
    /\ IsFiniteSet(Requests)
    /\ None \notin Sessions
    /\ SimHash \in [Prompts \X (Responses \cup {None}) -> Nat]
    /\ Threshold \in Nat
    /\ {MaxSize, MaxHashes} \subseteq Nat \ {0}

VARIABLES
    order,          \* of the registry, the least recently used first
    detectors,      \* [recentHashes, lastResponse] of each session in the registry
    session, prompt,    \* of each request that is under way
    live,           \* requests whose detector is still the registry's
    apart,          \* requests that met no other one of their session
    used,           \* history: sessions since the registry was made, in the order of their last use
    alone           \* history: per session, its last exchange if its request met no other, in a set

registry == <<order, detectors>>
request == <<session, prompt, live, apart>>
cyclesVars == <<registry, request, used, alone>>

Hashes == BoundedSeq({SimHash[<<p, r>>] : p \in Prompts, r \in Responses}, MaxHashes)
Fresh == [recentHashes |-> <<>>, lastResponse |-> None]

CyclesTypeOK ==
    /\ IsInjective(order) /\ Range(order) = DOMAIN detectors /\ Len(order) <= MaxSize
    /\ DOMAIN detectors \subseteq Sessions
    /\ \A s \in DOMAIN detectors :
          /\ detectors[s].recentHashes \in Hashes
          /\ detectors[s].lastResponse \in Responses \cup {None}
    /\ session \in [Requests -> Sessions \cup {None}] /\ prompt \in [Requests -> Prompts \cup {None}]
    /\ live \subseteq {r \in Requests : session[r] \in DOMAIN detectors}
    /\ apart \subseteq {r \in Requests : session[r] # None}

CyclesInit ==
    /\ order = <<>> /\ detectors = <<>>
    /\ session = [r \in Requests |-> None] /\ prompt = [r \in Requests |-> None]
    /\ live = {} /\ apart = {}
    /\ used = <<>>
    /\ alone = [s \in Sessions |-> {}]

-----------------------------------------------------------------------------

Near(a, b) == a - b \in -Threshold..Threshold

DetectPrompt(d, p) ==
    \E i \in DOMAIN d.recentHashes : Near(SimHash[<<p, d.lastResponse>>], d.recentHashes[i])

Latest(n, seq) == SubSeq(seq, Len(seq) - (IF Len(seq) < n THEN Len(seq) ELSE n) + 1, Len(seq))

\* Mutation: a detector that is found keeps its place.
TouchNever(s) == order

\* The session moves to the end of the order.
Touch(s) == Append(RemoveFirst(order, s), s)

\* Registry.Get.
Get(s) ==
    IF s \in DOMAIN detectors
    THEN order' = Touch(s) /\ UNCHANGED detectors
    ELSE LET kept == Latest(MaxSize - 1, order)
         IN  /\ order' = Append(kept, s)
             /\ detectors' = [t \in Range(kept) \cup {s} |-> IF t = s THEN Fresh ELSE detectors[t]]

Others(r, s) == {q \in Requests \ {r} : session[q] = s}

\* A request is routed: it takes its detector, asks it and calls a model.
Arrive(r) ==
    /\ session[r] = None
    /\ \E s \in Sessions, p \in Prompts :
          /\ session' = [session EXCEPT ![r] = s]
          /\ prompt' = [prompt EXCEPT ![r] = p]
          /\ Get(s)
          /\ used' = Append(RemoveFirst(used, s), s)
          /\ live' = {q \in live : session[q] \in DOMAIN detectors'} \cup {r}
          /\ apart' = IF Others(r, s) = {} THEN apart \cup {r} ELSE apart \ Others(r, s)
          /\ alone' = [t \in Sessions |-> IF t \in DOMAIN detectors' THEN alone[t] ELSE {}]

Done(r) ==
    /\ session' = [session EXCEPT ![r] = None] /\ prompt' = [prompt EXCEPT ![r] = None]
    /\ live' = live \ {r} /\ apart' = apart \ {r}

\* The provider's error.
ClearLastResponse(r) ==
    /\ session[r] # None
    /\ detectors' = IF r \in live THEN [detectors EXCEPT ![session[r]].lastResponse = None] ELSE detectors
    /\ alone' = IF r \in live THEN [alone EXCEPT ![session[r]] = {}] ELSE alone
    /\ Done(r)
    /\ UNCHANGED <<order, used>>

\* An answer without content is not added.
AnswerIsEmpty(r) ==
    /\ session[r] # None
    /\ Done(r)
    /\ UNCHANGED <<registry, used, alone>>

\* Mutation: a full detector keeps its oldest hashes.
AddedKeepsFirst(hashes, h) == IF Len(hashes) = MaxHashes THEN hashes ELSE Append(hashes, h)

\* Mutation: one hash too many is kept.
AddedKeepsOneMore(hashes, h) == Latest(MaxHashes + 1, Append(hashes, h))

Added(hashes, h) == Latest(MaxHashes, Append(hashes, h))

\* Add, alone with the detector.
Add(r) ==
    /\ r \in apart
    /\ \E response \in Responses :
          LET s == session[r]
              p == prompt[r]
          IN  IF r \in live
              THEN /\ detectors' =
                         [detectors EXCEPT ![s] =
                            [recentHashes |-> Added(@.recentHashes, SimHash[<<p, response>>]),
                             lastResponse |-> response]]
                   /\ alone' = [alone EXCEPT ![s] = {<<p, response>>}]
              ELSE UNCHANGED <<detectors, alone>>
    /\ Done(r)
    /\ UNCHANGED <<order, used>>

\* Add, when requests have raced on the detector: it may hold anything.
AddRaces(r) ==
    /\ session[r] # None /\ r \notin apart
    /\ IF r \in live
       THEN /\ \E hashes \in Hashes, response \in Responses :
                   detectors' = [detectors EXCEPT ![session[r]] =
                                   [recentHashes |-> hashes, lastResponse |-> response]]
            /\ alone' = [alone EXCEPT ![session[r]] = {}]
       ELSE UNCHANGED <<detectors, alone>>
    /\ Done(r)
    /\ UNCHANGED <<order, used>>

\* A policy update makes a new registry.
UpdatePolicy ==
    /\ order' = <<>> /\ detectors' = <<>>
    /\ live' = {}
    /\ used' = <<>>
    /\ alone' = [s \in Sessions |-> {}]
    /\ UNCHANGED <<session, prompt, apart>>

CyclesNext ==
    \/ \E r \in Requests : Arrive(r) \/ ClearLastResponse(r) \/ AnswerIsEmpty(r) \/ Add(r) \/ AddRaces(r)
    \/ UpdatePolicy

CyclesSpec == CyclesInit /\ [][CyclesNext]_cyclesVars

-----------------------------------------------------------------------------
(* Properties *)

\* The registry holds the sessions that were used last, in the order of their
\* use, however many come and go (detector.go:73).
KeepsLatestSessions == order = Latest(MaxSize, used)

\* A session whose last exchange met no other request of the session is seen
\* to repeat itself as soon as the prompt comes again, as long as its detector
\* is in the registry: eviction, trimming, replaced registries, races that are
\* over and requests that hold a detector nobody else has do not make it
\* forget (detector.go:27).
RepetitionIsSeen ==
    \A s \in DOMAIN detectors : \A exchange \in alone[s] : DetectPrompt(detectors[s], exchange[1])
=============================================================================
