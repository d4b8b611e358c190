# Verification of SentinelRouter

SentinelRouter (`src/`) is a Go gateway that takes OpenAI-style chat
completions, picks a weak or a strong model tier for each, calls the providers
of that tier in order and keeps, per session, a running cost in SQLite that a
"budget kill switch" compares with a limit.  This directory holds TLA+ models of
its logic, the TLC configurations that check them on small instances, and TLAPS
proofs of the results that matter most, for every value of the constants.

## 1. Inventory

| Part | State it keeps | Operations | Talks to |
|---|---|---|---|
| Router (`internal/router`) | settings, per-model status and runtime counters, pointers to all the parts below | `Route`, `UpdatePolicy`, `SetModelStatus`, `ResetModelCost`, ... | everything; runs once per HTTP request, concurrently |
| Budget manager (`internal/budget`) and session table (`internal/storage/{storage,budget}.go`) | the current limit (memory), one row per session (SQLite) | get-or-create, reserve, settle, add | Router |
| Routing audit (`storage/audit.go`, `storage.go:274`) | append-only tables | insert, list, summarise, clear | Router, dashboard |
| Semantic cache (`internal/semantic`, `storage/semantic_cache.go`) | a map from prompt hash to statistics in memory, the same rows in SQLite, a loaded flag | `ConfidentRoute`, `Record`, `Reset`, lazy load | Router, dashboard |
| Dynamic threshold (`internal/threshold`) | window of recent escalations, current threshold | `AddDecision`, `Adjust`, `Reset` | Router |
| Cycle detection (`internal/cycle`) | per-session detector in an LRU registry | `Get`, `DetectPrompt`, `Add` | Router |
| Rate limiter (`internal/rate`) | per-model windows of calls and tokens | `Check`, `Record`, `Usage` | Router |
| Judge (`internal/judge`) | health (circuit breaker) per judge | `Evaluate`, `RecordSuccess`, `RecordFailure` | Router, providers |
| Configuration (`internal/config`) | current configuration and its digest; the file: keys, instances, models, tiers, judges | `ForceReload`, `ReloadIfChanged`, `Watch`, validation, legacy import | Router, admin API, file system |
| Admin API, dashboard and chat endpoints (`internal/server`) | session defaults, settings, saved state rows | chat (plain, streamed), policy, defaults, model and key administration | all of the above |
| Providers (`internal/provider`) | HTTP client | completion, streamed completion, retries, key validation | external services |
| Redaction (`internal/redaction`) | regular expressions | `Scrub` | Router |
| Metrics (`internal/metrics`) | ring of 1000 events, a JSONL file | `Record`, aggregation | Router, dashboard |
| Start-up and shutdown (`cmd/sentinelrouter`) | none | start, drain for 10 s, exit | all |

Behaviours that are hard to get right:

* every HTTP request runs `Route` in a goroutine of its own; the SQLite rows,
  the cache, the threshold, the limiter, the judges' health and the
  configuration are shared, each with a lock of its own or none, and `Route`
  reads one and writes another much later;
* a provider call takes up to a minute (streams, retries), may fail, time out or
  be cancelled by the client, and everything `Route` did before it stays done;
* the process may stop at any point; sessions, cache rows, the policy and the
  session defaults survive in SQLite, the rest does not;
* an operator changes policy, models, keys and the configuration file while
  requests run.

What makes each part correct:

* budget: the cost in a row is what is reserved plus what was charged, never
  goes over the limit, and a refusal is justified;
* semantic cache: memory and rows agree, a reset is a reset, a restart brings
  back what was recorded;
* threshold: stays within its bounds, escalates when it should, a smart-mode
  request starts on the weak tier;
* cycle registry: never holds more than its capacity, never forgets the session
  just used;
* limiter: a model is not called beyond its limits, and is not blocked forever;
* judges: a failing judge is left alone for a while and tried again later, an
  unavailable registry still gives a score;
* configuration: what is in force is what is in the file, soon after it changed,
  and holds what the pipeline relies on: a model in each tier, none in both, and
  for each of them an enabled instance of a key of its own provider (whose value
  may be empty, section 6);
* provider calls: bounded in tries and time, never repeated once the provider began
  to answer, and what is returned is what the client was given;
* persistence: what the operator sees before a restart is what is in force after.


## 2. The modules

| Module | Models | Checked by | Proofs |
|---|---|---|---|
| `SessionBudget` | `Route`'s path through the sessions table | run `budget` | `SessionBudgetProofs` |
| `BudgetLedger` | what it promises: an atomic ledger of holds, refusals and charges | (property `RefinesLedger`) | `SessionBudgetProofs` |
| `SemanticCache` | the persistent route cache | run `cache` | `SemanticCacheProofs` |
| `RouteDecision` | `decideRoute`, shared by the next two | | |
| `RoutePipeline` | `Route` from arrival to answer, and the operator's model switches | run `route` | `RoutePipelineProofs` |
| `EscalationControl` | the dynamic threshold as a closed loop | run `escalation` | `RouterPartsProofs` |
| `ProviderCall` | one call of a provider client, whole or streamed | run `provider` | `ProviderCallProofs` |
| `ModelCall` | what it promises the router | (property `RefinesCall`) | `ProviderCallProofs` |
| `ModelCatalog` | the configuration's contents: JSON and its defaults, validation, import, the dashboard's requests | run `catalog` | `ModelCatalogProofs` |
| `ConfigReload` | the configuration's file: overlapping dashboard writes, watcher, crashes | run `config` | `ConfigReloadProofs` |
| `RateLimiter` | the sliding windows of one model | run `limiter` | `RouterPartsProofs` |
| `JudgeRegistry` | evaluations and circuit breakers | run `judges` | `RouterPartsProofs` |
| `PolicyState` | policy and session defaults, memory and rows | run `policy` | `PolicyStateProofs` |
| `CycleDetection` | registry and detectors | run `cycles` | `RouterPartsProofs` |

`RouterPartsProofs` extends four modules at once, so their definitions have names of
their own (`LimiterInit`, `EscalationNext`, `CyclesTypeOK`, ...).

Each `MC<module>` gives a module the constants of its small instance.

`RoutePipeline` is the hub.  It sees the other parts by what they may answer: the
budget admits or refuses, the cache recommends a route or not, the detector sees
a cycle or not, the limiter holds a model back or not, the threshold has any
value it may have; a provider call succeeds or fails, in one piece or several
(what a call is to it is written down in `ModelCall`, which `ProviderCall`
implements), and the models, tiers and keys are constants that satisfy what
`ModelCatalog` shows of every configuration in force.  The modules of those parts
have `Route`'s calls as their actions, so each of them is closed: who calls it, in which order and with which
interruptions is in it.  `RouteDecision` is the one definition both the pipeline
and the threshold's loop rest on.  `ConfigReload` and `ModelCatalog` share one
subject: the first has overlapping writers and keeps one bit of a content, whether
it can be loaded; the second takes requests one at a time and has the contents that
bit stands for.

How state and actions correspond to the code:

* **SessionBudget.** `rows`, `cost`, `max` are the sessions table; `limit` the
  budget manager's number, `saved` the row of `app_state` it comes back from;
  `pc`, `sid`, `quote`, `tries`, `spent` the local variables of a goroutine in
  `Route`.  One action per SQL statement or call: `Lookup`/`Insert`
  (`GetOrCreateSession`, whose insert may lose a race and start over),
  `Reserve` (the guarded UPDATE), `Reread` (the loop of `ReserveBudget`),
  `CallReturns`/`CallFails`, `Settle` (`SettleCost` with its epsilon and its
  guarded top-up, or `AddCost`), `Audit`, `Abort` (a database error or a gone
  client), `UpdateLimit`, `Restart`.
* **SemanticCache.** `mem`, `loaded`, `holder` are a `PersistentCache` object with
  its mutex, `rows` the statistics table, `current` the object the router points
  to.  The lazy load is `Load`, `Query`, `Install`; `Record` is the three critical
  sections it is in the code (`Record`, `Copy`, `Upsert`), `Reset` likewise.
  `LogKey` is what redaction makes of a prompt: with redaction of the logs alone the
  router asks under the prompt as it came and records under the scrubbed one; in the
  other modes `LogKey` is the identity.  What that means for prompts with something to
  redact is in section 6.
* **RoutePipeline.** `pc` names the place in `Route` and `callCandidates`;
  `verdict`, `route`, `tier`, `late`, `timed` are its local variables; `listed`
  and `at` stand for the slice of candidates, `keys` for the keys not tried yet.
  The deadline may pass at any step of a timed call, between attempts too, and a
  failure may look like a timeout of the HTTP client, which `contextTimedOut`
  cannot tell from the deadline.
* **EscalationControl.** `threshold` and `window` are the object; reading the
  threshold, reading strict mode, adding and adjusting are four critical sections
  of a request and four actions.  `Ceiling` and `StrictPenalty` stand for the code's 99
  and 15 hundredths, so that an instance can scale them together with the scores.
* **ProviderCall.** `kind` (OpenAI-style, Groq, or one of the two whose answers come
  whole), `streamed` and the caller's `deadline` are what the call is made with;
  `now` and `since` are seconds, for the client's timeout and the sleeps.  `postJSON`
  is `Send`, then `DoFails` (the network) or `Hear`, then `BodyBreaks`, `Refused`,
  `Busy` or `Parse`; a stream is `Piece`, `StreamBreaks` and `StreamEnds`; an answer
  that came whole is handed to a streaming caller by `Deliver` and `DeliverUsage`.
  `text`, `given`, `closed` are what was read, what the handler took, and whether it
  took the usage.
* **ModelCatalog.** `file` is JSON, where a model or an instance may lack fields and a
  key's value may be a placeholder for a variable; `config` is complete and has the
  variables' values.  `Parse` (with `Resolve`) and `Marshal` are the two directions with
  their defaults and `omitempty`, `Valid` and `Normal` are `Validate`, `Import` is the older
  file, read in any order a Go map may have, `Loads` is what loading may give.  A
  request is one action (`CreateModel`, `UpdateModel`, `DeleteModel`,
  `UpdateSection`, `UpdateKeys`): it changes the JSON, checks it (a request for keys,
  of which it may send several or none, does not), writes it and reloads.  `Edit` is a
  hand on the file, `Reload` the watcher or a restart.  `KeysFor` is what the router
  finds for a model: keys that are empty do not count.  `named` is the history of what
  the file's latest change was asked for.
* **ConfigReload.** `file`, `config` and `digest` are the file and the manager's
  two fields; a handler is `ReadRaw`, `Write`, then the manager's `Load`, `Digest`,
  `Install`, which the watcher runs as well.  `Edit` is a hand on the file; `Crash`
  and `Start` are the process.
* **RateLimiter.** The two slices of events with ages instead of time stamps;
  `Check`, the call between, `Record` or `Fail`, `Usage` of the dashboard, `Tick`.
* **JudgeRegistry.** The breaker's two maps; an evaluation reads a breaker and
  calls (`Call`, `Skip`), and the outcome is recorded later (`Success`, `Fail`);
  `Cancel` is a client that hangs up.
* **PolicyState.** `updatePolicy` is six steps (numbers, mode, router, read, save,
  and the defaults' save), `updateSessionDefaults` two; each save may fail.  `Restart`
  loads both rows (`Load`), either of which may fail: the process then runs on the
  settings and built-in defaults and the row stays as it was.  `missed` remembers which
  rows had a failed write or load last, `was` which defaults the handlers at work have
  seen in force.
* **CycleDetection.** `order` and `detectors` are the registry; `live` are the
  requests whose detector is still in it, `apart` those that shared it with no
  other.  A race of two requests on the unlocked slice may leave anything.

Abstractions all of them share: contents are small tokens (a digest is the
content it was made of, a prompt is its hash, hashes are points on a line); time
is ticks, or ages; scores, thresholds and rates are in hundredths; money is in
units of a fifth of a dollar.  Counts that only matter up to a limit stop there.
Variables marked *history* exist for the properties only and no guard reads them,
except where a bound named in `CONSTANTS` needs a count.

## 3. What the runs check

Eleven passing runs, one per module, and one that ends in a counterexample.  Type
invariants are checked by the runs `escalation` (`EscalationTypeOK`), `limiter`
(`LimiterTypeOK`), `cycles` (`CyclesTypeOK`) and `provider` (`TypeOK`); those of the
other modules are theorems only (section 5).

| Run | Instance | What it shows |
|---|---|---|
| `budget` | 2 requests, 2 sessions, estimate 4, limits 10, 5 and an ignored 0, costs: none, refund, below epsilon, top-up; 2 retries | limits hold (`WithinLimit`), refunds never eat reservations (`HeldCovered`), the cost is what was booked within the documented drift (`CostIsAccounted`), real spend stays within the limit as long as no call exceeds the estimate (`SpendWithinLimit`), the concurrent protocol is an atomic ledger in which every refusal is justified (`RefinesLedger`), every request ends (`Answered`) |
| `cache` | 2 goroutines, a prompt and its redacted form, 2 objects, 1 tick, entries that expire at once, any statement may fail | no call is counted twice anywhere (`EvidenceIsReal`), the judge is skipped only on `MinSamples` real calls (`AnswersAreBacked`), no error return keeps the mutex (`WaitersAreServed`), an object that is loaded forgets calls only by expiry or a reset of its own, never by a second load (`LoadLosesNothing`) |
| `route` | 1 request, 2 weak models and 1 strong, 1 of them a judge, 2 keys for one, every form of request, operator at any step | the answer comes from the tier that is reported (`AnswerFromTier`), a cycle calls no weak model (`CycleGoesStrong`), the judge is asked once and when due (`JudgeAsPromised`), an inactive model neither answers nor streams (`InactiveNeverAnswers`), every request ends (`Answered`) |
| `escalation` | 2 requests, window of 2, ceiling 8, start at 10, scores 3, 6 and 9, penalty 3 | the threshold moves only on the last full window of decisions and never on those from before a reset (`MovesOnEvidence`), strict mode ends although requests of high score go strong in it (`StrictModeEnds`) |
| `config` | 1 patch, 1 key update, watcher, 1 edit, 1 crash, with and without a file at first | only whole good files come into force (`InForceWasGood`), equal digests mean an up-to-date configuration (`DigestIsHonest`), the dashboard alone leaves a file a restart accepts (`DashboardKeepsFileGood`), a good file takes effect (`FileTakesEffect`) |
| `limiter` | 3 goroutines, caps 3 and 5 requests, tokens of 10 | overshoot is at most one per other goroutine (`OvershootBounded`), the minute is the tail of the day (`MinuteIsLatestOfDay`), nobody is held back for ever (`Recovers`) |
| `judges` | 2 judges, 2 evaluations, threshold 2, 2 attempts | a failing judge is spared (`FailingJudgeIsSpared`) and tried again (`TriedAgain`), the heuristic is the last resort (`HeuristicIsLastResort`) |
| `policy` | 2 handlers, limits 0, 1 and 2, 2 modes, 2 defaults, any save and any load may fail | with handlers one after the other, what is in force is what a restart brings back and what the router enforces, also after earlier failures and crashes (`UpdatesSurvive`); with overlapping ones, the defaults saved were in force as a whole while they were at work (`SavedWasInForce`) |
| `cycles` | 3 sessions, room for 2, 2 hashes each, 2 requests | the registry holds the sessions used last (`KeepsLatestSessions`), an undisturbed repetition is seen (`RepetitionIsSeen`) |
| `provider` | 3 tries, a client timeout of 4 s, streams of 2 pieces, a caller's deadline that has passed, falls into a try or a sleep, or never comes | whatever breaks when, a call is to the router what `ModelCall` says: never repeated after the provider began to answer, no success after a break, the text returned is the text handed over, the usage comes last (`RefinesCall`); it ends by its own timeouts and at most one sleep after the deadline (`ReturnsInTime`) |
| `catalog` | 2 providers, 3 models, an older file with two models of the same order, a provider without a key in the settings, a file with a disabled instance, a disabled model and a placeholder that resolves to nothing, one with a missing key, a broken and a missing one, requests for no, one and two keys, 4 requests or edits | what is in force always fits the pipeline, and a model has no usable key only if an enabled one is empty (`PipelineGetsWhatItNeeds`), a key request, which validates nothing, never spoils a good file (`KeysNeverBreakTheFile`), a request changes what it names and a reload nothing (`OnlyTheTargetChanges`) |
| `config_lost` | 2 patches | violated: `AcknowledgedIsKept` |

Why these bounds are enough to mean something.  Two requests meet in every pair of
steps, which is where the budget, cache, threshold, detector and handlers can go
wrong; the limiter has three because its bound counts the others.  The budget's
limit of 10 fits two estimates and not a third charge, so refusal, refund, top-up
and failed top-up all occur; the limit of 5 fits one.  Two prompts suffice for the
cache because entries do not touch each other except through whole-object loads
and resets and through redaction, which sends one to the other; two objects let a
request outlive a policy update.  The pipeline's request is alone because requests
share nothing in it but the models' status, which the operator's steps already
change at will.  A window of two decisions
fills, slides and is reset within a few requests; the ceiling of 8 is reached from
below and, since nothing keeps the code from starting above it, from 10.  The code's
ceiling of 99 and penalty of 15 are scaled to 8 and 3: a score of 9 is, as in the code,
still above most thresholds after the penalty (strict mode feeds on such requests as
long as the threshold is at most 6) and below the ceiling.  With a penalty of 1 that is
no longer so and `StrictModeEnds` fails, as it would in the code with a penalty of
nothing.  A
history of four decisions (`MaxHistory`) is two windows.  A registry for two
among three sessions evicts all the time.  Three tries are the code's own number;
with a timeout of four seconds the deadlines 3 and 8 fall into the first exchange
and into a later one or the sleep before it.  Four changes of the catalogue suffice
to disable an instance, move a model, remove its file and have it written anew.

`CHECK_DEADLOCK FALSE` stands in the two configurations of `ConfigReload` only:
every handler serves one request and edits and crashes are counted, so the model
may really come to rest.

## 4. Fairness

* `SessionBudget`, `RoutePipeline`, `EscalationControl`, `JudgeRegistry`: a goroutine
  that can go on does.  The HTTP client gives up after 60 s and its attempts are
  counted (`provider/client.go:430`), statements end (SQLite's busy timeout), loops
  sleep for a bounded time.  Nothing makes a request arrive, an operator act, a
  client leave or a deadline pass.
* `ConfigReload`: the watcher's ticker ticks, a handler that has read the file
  writes or gives up, a process that stopped is started again.
* `RateLimiter`, `JudgeRegistry`: time passes.
* `SemanticCache`, `PolicyState`, `CycleDetection`, `ProviderCall`, `ModelCatalog` have
  no liveness property; that no goroutine waits for a mutex in vain is the invariant
  `WaitersAreServed`, that a provider call ends is the bound `ReturnsInTime`.

`StrictModeEnds` has its own premise: from some time on no request has a cycle (a
cycle is always sent to the strong tier, which keeps strict mode alive by design)
and requests keep being served.  It rests on the highest score less the penalty being
below the ceiling (85 and 99 in the code).

## 5. What is proved

Every safety invariant, action property and refinement that a passing run checks is
also a theorem; only liveness is not.  The proofs hold for every value of the
constants that the modules' assumptions allow; those are named (`BudgetAssumption`,
`CacheAssumption`, `PipelineAssumption`, `CallAssumption`, `CatalogAssumption`,
`ReloadAssumption`, `PolicyAssumption`, `RegistryAssumption`, `LimiterAssumption`,
`CycleAssumption`, `EscalationAssumption`) and say what configuration loading ensures
(positive limits, disjoint tiers, non-empty orders), what the types of the inputs are
(in `CatalogAssumption` also which sections a request can name, and that a variable's
value is not itself a placeholder), that goroutines are finitely many, or that a bound
is a number.  What the code does not check is not assumed: the initial threshold is any
positive number, session limits are any numbers.

* `SessionBudgetProofs`: `TypeCorrect`, `CostWithinLimit`, `ReservationsCovered`,
  `RowNeverReplaced`.  The inductive invariant (`BudgetInv`) adds to the two safety
  properties that what a session holds in reservations is at most its cost, counted
  over the set of holders: without it the clamp in `Settle` could eat a
  reservation, and `WithinLimit` alone says nothing about the refund that follows.
  `ImplementsLedger`: initial states map to initial states and every step to a step
  of the ledger or to none.  The hard step is the refusal: `Reread` refuses on the
  reading it has just made, at which moment the session had no room.  It assumes the
  kill switch on.
* `CostAccounted` and `SpendStaysWithinLimit`, in the same module, are about sums over
  the requests of a session.  The library sums by a recursive function, of which a
  prover knows nothing; the first part of that section proves what is needed of it (a
  table of the sums exists, it is unique, a term can be taken out, equal terms give
  equal sums).  `AccountInv` then adds two facts to `BudgetInv`: a price belongs to a
  request that has been called (`PricesFollowCalls`), and, as long as no call exceeds
  the estimate, the cost covers what is reserved plus what was spent
  (`CostCoversSpend`).  The second is needed because the drift within epsilon that
  `CostIsAccounted` allows has no sign of its own; a settlement ignores a difference
  below epsilon, and with no price above the estimate what it ignores stays booked.
* `SemanticCacheProofs`: `CacheTypeCorrect`, `EvidenceReal`, `AnswersBacked`,
  `MutexComesBack`, and `LoadKeepsCalls` (`LoadLosesNothing`, whichever statements
  fail).  `EvidenceIsReal` is inductive as it stands because it speaks of memory,
  rows and copies in flight at once.  `LoadKeepsCalls` needs `LoadsAlone`: whoever
  loads an object holds its mutex, and the object is not loaded yet.  `MutexComesBack` needs `MutexInv`, which leaves
  out the objects of earlier processes that nobody can reach any more.
* `RoutePipelineProofs`: `PipelineTypeCorrect`, `ReportedTierAnswered`,
  `CycleLeavesWeakTier`, `JudgeOnceAndOnlyWhenDue`, `OffModelNeverAnswers`, from
  one invariant `IInv` with a part for each: the place in the candidates and the
  keys left (`PlaceOK`), the tier behind each place (`TierInv`), the decision behind
  a cycle (`CycleInv`, with disjoint tiers), the occasions of the judge
  (`JudgeInv`), and what is listed against what has been off (`OffInv`).
* `ProviderCallProofs`: `ImplementsCall`, the refinement of `ModelCall`.  The invariant
  (`CallInv`) is about order: nothing is read before the answer (`HandedOK`), a
  try is left where one is begun (`TriesOK`), no usage and no break before the end
  (`LastOK`).  Every step then looks failed, idle, given or over to the router; the
  lemmas of those names are the four cases.  `CallTypeCorrect` and
  `CallReturnsInTime` add the clock (`ClockOK`): between tries the time is bounded by
  the tries made so far (`Lasting`), during one by its beginning and the timeout, and
  the deadline is passed only by a sleep.  The sleeps, and their sum, are recursive
  functions (`Backoff`, `Slept`); that such functions exist, and grow, is proved first,
  by least counterexamples.
* `ConfigReloadProofs`: `ReloadTypeCorrect`, `OnlyGoodInForce`, `QuietOnlyInForce`,
  `DashboardLeavesGoodFile`.  `SourceOK` says that what is in force, or
  on its way there in some actor's buffer, is a good content the file has had;
  `DigestOK` that, unless a reload was overtaken, what a reload has read is still the
  file; `TracesOK` that, without edits by hand, the file is absent or good and carries
  only changes of handlers that got as far as writing.
* `PolicyStateProofs`: `PolicyTypeCorrect`, `SavedWholeFromForce`,
  `OrderlyUpdatesSurvive`, with failing writes and loads.  The last rests on `Orderly`:
  while no two handlers have overlapped at most one is at work, and by its place it is
  known which of the router's limit, the policy's row and the defaults' row already
  agree with memory, unless they are `missed`.
* `RouterPartsProofs`, judges: `RegistryTypeCorrect`, `JudgesComeFirst`,
  `FailingJudgeSpared`.  `JudgesComeFirst` needs `HealthyAhead`: a judge that stayed
  available and uncalled is still ahead in the order.  `FailingJudgeSpared` needs a
  count (`CountsOK`): the failures recorded and the calls that may still fail, together,
  stay below what the property allows; the set of callers changes by one member per
  step.
* `RouterPartsProofs`, limiter: `LimiterTypeCorrect`, `MinuteWithinDay`,
  `OvershootIsBounded`.  `WindowsInv` is the types with the minute as the last part of the
  day, which trimming keeps because the events are in order.  For the overshoot
  `OvershootInv` counts, with the events in a window, the workers whose calls are under
  way: a check leaves room for one more, a record turns one of them into an event.  The
  property alone is not inductive, for it does not see the calls that have not come
  back.
* `RouterPartsProofs`, cycles: `CyclesTypeCorrect`, `LatestSessionsKept`,
  `RepetitionSeen`.  `RegistryInv` ties order, detectors and the history of use together:
  the registry is the last `MaxSize` sessions used.  `RepetitionSeen` needs `AloneKept`:
  what a session did last without another request of its own in between is still in its
  detector, among the hashes and as the last response, through evictions and
  trims of the history.
* `RouterPartsProofs`, threshold: `EscalationTypeCorrect` (with the bounds of the
  threshold, which are the ceiling or the initial value if that is higher, and the size
  of the window) and `ThresholdMovesOnEvidence`, for which
  `WindowIsLatest` says that the window is the end of the history of decisions, until
  the history, which the model bounds, is full.
* `ModelCatalogProofs`: `PipelineIsServed`, `KeysKeepTheFile`, `OthersStay`.  `CatalogInv`
  says that the file is well-formed or cannot be read and that what is in force passed
  `Validate`; `KeysKeepTheFile` needs that adding a key or changing its value keeps
  everything a valid configuration rests on (`Covers`), which holds because the type
  of a known key is kept.  `PipelineIsServed` follows from what `Validate` checks, which
  leaves out the value of a key: hence its "unless an enabled key is empty".  `OthersStay` is the action property `OnlyTheTargetChanges`
  and rests on three results: the import does not depend on the order in which a Go map
  is read (`ImportOnce`, since models of the same order are sorted by name); a
  configuration in force that is written and read again is the same (`ThereAndBack`);
  and contents that differ in one model, some keys or some sections give configurations
  that differ there only (`OtherModelNear`, `OtherKeysNear`, `OtherSectionNear`).
  `KeptInv`, the invariant added for it, says that models, instances and keys in force
  are records, without which equal fields would not make them equal, and that no key in
  force is a placeholder.

Only model-checked: the liveness properties (`Answered` of `SessionBudget` and of
`RoutePipeline`, `StrictModeEnds`, `FileTakesEffect`, `Recovers`, `TriedAgain`), which
are out of the prover's reach, and the counterexample of `config_lost`.

## 6. Where the code and its documents part

Shown by a run: of two overlapping dashboard patches one is lost although both were
answered with success (`config_lost`, `server.go:1096`).

Seen while modelling, and left out of the properties or allowed by them.

Budget:

* an error after the reservation leaves the estimate in the session's cost for good
  (`router.go:197`);
* a call dearer than the estimate is noticed after it was paid for; if the top-up
  does not fit, the difference is booked nowhere (`storage/budget.go:41`);
* a session keeps the limit it was created with (`storage.go:206`);
* a limit of 0 or less is saved and shown but not enforced before the next start
  (`budget/budget.go:69`).

Cache:

* the cache that a policy update "resets" loads its old rows again (`router.go:341`);
* two overlapping `Record`s may leave the older counts in the row
  (`persistent_cache.go:77`), an upsert that comes after a reset brings old counts back,
  and after a failed load the next `Record` may write a row without them
  (`persistent_cache.go:31`);
* with redaction of the logs alone the cache is asked under the prompt as it came
  (`router.go:124`) and recorded under the scrubbed one (`router.go:296`): a prompt with
  something to redact is judged however often it comes, although `src/README.md:12`
  says that the cache remembers repeated prompt patterns and can skip the judge.

Pipeline and providers:

* a stream whose model fails half-way goes on with the next model's chunks
  (`router.go:454`), and its `X-Sentinel` headers are set after the status line went
  out (`server.go:388`);
* a stream that ends without `[DONE]` counts as complete, and one without usage is
  booked at cost 0 (`client.go:293`);
* a failed write to a client that is gone is an error of the handler, after which
  the next key or model is tried (`router.go:454`);
* after a timeout before the headers a request is sent again, though the provider
  may have worked on it; the last try is followed by a sleep as well
  (`client.go:464`);
* a model that was switched off is still asked as a judge (`judge/registry.go:39`);
* a model that is deleted and created again finds its old status;
* with the default settings 55 weak decisions in a row take the threshold to 0,
  where a smart request starts strong (`threshold.go:66`);
* the initial threshold is not checked against the ceiling (`settings.go:64`): above
  0.99, the first adjustment that finds too many strong routes lowers it to 0.99
  instead of raising it.

Configuration:

* a reload overtaken by another write keeps an old configuration under the new
  digest (`manager.go:43`; the variable `slipped`);
* an update of `key_instance` has no effect on a model that has `key_instances`
  (`Instances` in `ModelCatalog`), and a configuration read once has them;
* without a file, the first dashboard patch writes the whole configuration in force,
  values taken from the environment included (`server.go:1075`);
* validation does not look at the value of a key, which is empty when a placeholder's
  variable or, in an import, a provider's setting is not set; the router skips such a
  key (`router.go:541`), so that a tier may hold models that can never be called.

Others:

* overlapping checks exceed the requests per minute, and a limit of one is cut to
  zero (`rate/limiter.go:57`);
* clients that hang up count as failures of the judge (`judge/registry.go:55`);
* overlapping handlers may save the older defaults last (`server.go:435`);
* a row of `app_state` that cannot be read at the start is logged and no more
  (`server.go:1001-1011`): the process enforces the settings of the environment or the
  built-in defaults, and the next update of any part saves all of them over the row;
* a write of `app_state` that fails is told to nobody, and the answer is a success
  (`server.go:926`).

## 7. Not modelled

* The data of provider calls: payloads, the parsing of chunks beyond where a stream
  ends, prices.  Asking a provider whether a key is valid changes no state; masking
  keys is presentation.
* The rest of the schema: prices, limits, names, priorities of instances, the judge's
  and the cache's numbers.  Their validation is a list of independent comparisons.
* The patterns of redaction: regular expressions over text.  What redaction does to
  the cache is in `SemanticCache`.
* Metrics: a list and a file under one lock, with errors ignored; nothing reads it to
  decide, and its `Reset` is not called.  The same holds for the models' runtime
  counters, audit tables and their summaries.
* A change of the environment's variables between two starts: `Env` and `EnvKeys` are
  constants.  Placeholders outside the values of keys.
* Dashboard pages, read endpoints, the wire format of server-sent events, settings
  from the environment, build files.
* `setAllModelsEnabled`, `DeactivateSession`, `ResetSession`, `CheckBudget` and the type
  `judge.Judge` with its own `Evaluate`: no path of the program calls them.
* The drain at shutdown is not a module: a restart may come at any moment in
  `SessionBudget`, `SemanticCache`, `ConfigReload` and `PolicyState`, so also where the
  drain gives up.
* Data races are modelled where they decide something (`CycleDetection`); torn
  reads of the settings while a policy is updated are not, since every number they
  may mix was asked for.

## 8. Plan

The order was: the budget and its ledger; the cache; the pipeline that binds them;
then the parts it sees through choices, each with the neighbours that change its
state; then what a call and a configuration are to the pipeline (`ModelCall`,
`PipelineGetsWhatItNeeds`); proofs along the same order.  Next:

1. Abstract specifications for more parts, each with its refinement: what `Route`
   promises a client, for `RoutePipeline`; a cache that may lose the latest counts but
   never invents any, for `SemanticCache`.
2. A second number in `PolicyState`, for policies torn by overlapping handlers.
3. The metrics collector with its file, once something reads it.
