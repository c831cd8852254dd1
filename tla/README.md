# swarm-sentinel in TLA+

swarm-sentinel polls a Docker Swarm, compares what runs with what a compose
file declares, keeps the health of every service between polls, and alerts
when it changes. This directory specifies that program: TLA+ modules translated
from the Go source, TLC configurations that check them on small instances, and
TLAPS proofs of their safety for every value of the constants. `PROJECT.json`
maps every definition to the source lines it stands for.

    tlc -config <run>.cfg <module>     # module of each run: see the table
    tlapm <module>_proofs.tla          # see section 4

## 1. The system

| Part (`src/`) | State | Operations | Hard because |
|---|---|---|---|
| runner (`internal/runner`) | per stack: ETag, fingerprint, desired and actual state | `Run`, `RunOnce`, `evaluateAndPersist`, `stabilizeTransitions` | one goroutine per stack, one shared file and mutex, early returns after partial updates, counters over long histories |
| transition (`internal/transition`) | none | `DetectServiceTransitions` | computes the previous status a second time, from other data than the runner |
| state (`internal/state`) | the state file | `Load`, `Save` | kills and power losses between calls; files of other versions |
| coordinator (`internal/coordinator`) | cancel, done, runner errors | `Run`, `Stop`, `spawnRunner` | concurrent Stop, runners that cannot start |
| healthcheck (`internal/healthcheck`) | last cycle, ready | `RecordCycle`, `Healthy`, `Ready`, `Snapshot`, two handlers | shared by runners and requests, two locks per request, clock outside the lock |
| health (`internal/health`) | none | `EvaluateStackHealth` | precedence of rules; applied to a picture taken in several calls |
| swarm (`internal/swarm`) | none between calls | `GetActualState`, `Ping`, retries, paging | the swarm changes between `ServiceList` and each `TaskList`; retries and prefix paging share one timeout |
| notify (`internal/notify`) | a rate limiter per stack | `Notify` of Multi, Slack, Webhook, DryRun, Noop | parts of a batch, retries, `Retry-After`, several notifiers |
| compose (`internal/compose`) | none | `Fetch`, `ParseDesiredState`, `Fingerprint` | conditional requests, retries, bodies that do not parse |
| config (`internal/config`) | none | `Load`, `FindMappingFile`, `LoadMappingFile` | settings that exclude or imply each other, older names of the TLS settings |
| cmd, server (`cmd/swarm-sentinel`, `internal/server`) | the stages of the start, a server | `main`, `Start` | the mapping file is looked for twice, a signal comes at any stage, fatal errors exit at once |
| metrics, logging | counters | | no behaviour depends on them |

A runner calls the fetcher, the Docker client, the evaluation, and then, under
the mutex that all runners share, `Store.Load`, `stabilizeTransitions` and
`Store.Save`. It releases the mutex and calls the notifier, and at the end
`RecordCycle`. The coordinator starts and cancels the runners; HTTP handlers
read the tracker. Every call takes the context that a signal cancels.

What makes each part correct:

- **alerts** - raised after a stable change only, each starting from what the
  last one said; no stable change forgotten; not repeated after a crash;
- **cycles** - as if each were one step, whatever the other stacks do;
- **state file** - an atomic register, through kills and power losses;
- **compose** - statuses are evaluated against what the source served last,
  however many requests that took; a fetch ends;
- **coordinator** - Stop returns, and only when no runner is left;
- **health endpoints** - an answer is justified by the cycle it shows;
- **evaluation** - what was fine throughout is OK, what was down throughout is
  FAILED, and OK is never said of what was never fine;
- **Docker listing** - ends, and drops nothing that was there throughout;
- **delivery** - nil means delivered, every notifier gets its turn, it returns;
- **process** - does what its environment asks for or does not start, ends when
  it is told to and with the right status, and leaves no cycle cut in two.

The hazards behind these, with lines, are listed in `PROJECT.json`.

## 2. The modules

```
Stabilization            pure: counters, baselines, transitions of one cycle
  AlertCycle             abstract: atomic cycles of one stack + one delivery each
    AlertHistory         + what was alerted and observed (history variables)
      AlertHistory_proofs
  Sentinel               all runners, mutex, file, failures  => AlertCycle, per stack
    MC_Sentinel
    ComposeFetch         + the requests a fetch is made of   => Sentinel
      MC_ComposeFetch
      Sentinel_proofs    about Sentinel and ComposeFetch
StateStore               abstract: atomic register with crashes
  (implemented by) FileStore      Save call by call on a POSIX file system
    FileStore_proofs
Configuration            pure: Load, FindMappingFile, LoadMappingFile, TLS
  Process                main, from the environment to the exit: composes
    MC_Process
    Process_proofs
    Coordinator          Run / Stop / spawnRunner
      Coordinator_proofs
    HealthTracker        tracker and HTTP handlers
HealthEvaluation         pure: declarations, task summaries, statuses
  SwarmHealth            collection from a swarm that changes
    MC_SwarmHealth
    SwarmHealth_proofs
DockerListing            retries and prefix paging of one listing
  MC_DockerListing
  DockerListing_proofs
Delivery                 one Notify: notifiers, parts, retries, limiter
  Delivery_proofs
```

How the levels meet:

- `Sentinel` evaluates to *any* status per desired service and to DEGRADED for
  extra ones (`EvaluationsOf`). `SwarmHealth` computes the statuses and its
  `TypeOK` shows that they have that shape (proved: `SwarmHealthTypeCorrect`).
- `Sentinel` treats `Load` and `Save` as single steps that may fail.
  `FileStore` justifies this by implementing `StateStore` (proved:
  `ImplementsRegister`). A power loss that
  undoes the last saves exists in `FileStore` only; `Crash` in `Sentinel` is
  the death of the process.
- `Sentinel` treats `Notify` as one step that may never come; `Delivery` shows
  when it comes.
- `Sentinel` treats a fetch as one step, in which the source answers and the
  runner acts on it. `ComposeFetch` implements `Sentinel` under the mapping
  that lets the source change when a request finds it changed (`remote <- seen`):
  between a request and the use of its answer the source goes on, and `Sentinel`
  does not know yet (proved: `FetchImplementsSentinel`).
- `Sentinel` implements `AlertCycle` for every stack (proved:
  `ImplementsAlertCycle`), so the theorems about alerts hold of each stack of
  the interleaved program, fetches by requests included.
- `Coordinator` and `Process` treat a runner as something that returns once it
  is cancelled; `ShutdownCompletes` in `Sentinel` is the reason it does.
- `Process` lets `Coordinator` and `HealthTracker` act as they do alone, each
  under the conditions main puts them in: the coordinator exists after the
  mapping file was read, cycles are recorded by runners that run, and requests
  are taken while the server is up. Cycles themselves are in `Sentinel`.

### Correspondence with the code

**Stabilization.** A snapshot is a function from the services it has to
`[status, cycles, notified]`, i.e. `Status`, `ConsecutiveCycles` and
`LastNotifiedStatus` of `health.ServiceHealth`. A missing snapshot and an empty
one are the same to `firstRun` and are both the empty function. Reasons, drift,
images and replica counts ride along and are left out. `Updated` and
`Transitions` are the two results of `stabilizeTransitions`; the previous status
is computed in the runner (`LastNotified`) and again in the transition package
(`PreviousStatus`), as in the code. The code's counters grow without a cap; the
model's saturate at `CycleCap`, which is at least the threshold, and give the same
answers to the only questions the code asks of them, whether they are positive
and whether they have reached the threshold (proved: `SaturationLosesNothing`).

**AlertCycle, AlertHistory.** `Cycle` is load, decide and save in one step,
`Dispatch` the single delivery attempt, `Forget` the loss of the file.
`UpgradedFile` starts from records without counters and notified statuses.
`AlertHistory` adds, per service, the last alert and a window of the last
`Threshold` evaluations. The variables restrict nothing, by their form: each
action is one of `AlertCycle`, without a further guard, joined with equations
that say what the history is next.

**Sentinel.** One program counter per runner; the points are listed at the top
of the module. Bodies, their ETags and their fingerprints are the same model
values, as a hash identifies its input. `etag`, `hash` and `desired` are the
fields `composeETag`, `composeHash` and `lastDesiredState`. A fetch is a
failure, a 304 or a 200 with or without an ETag; `FetchBody` keeps the code's
order (ETag, fingerprint, then parse). `Leave` clears locals to keep the state
space small. `Notify` has one outcome because the runner only logs an error.

**ComposeFetch.** `Sentinel` with the fetch taken apart. A request (`Serve`,
`ServeNothing`) is handled by the source in one step, and what comes back is in
`reply`: a 304, a body with or without ETag, a refusal (another status, an empty
body), a server or network error, or a body that is cut short or too long; the
last two are `TransientReplies`. `Retry`, `Resume` and `GiveUp` are the loop of
`Fetch` with its backoff, during which the source may change. The ETag that is
sent is the one the runner kept before the first attempt. Times are left out:
a request that times out is "unavailable".

**FileStore.** One action per call in `Save`. `path` is what a reader sees,
`durable` the set of contents a power loss may leave: `Rename` adds the new
content (torn if it was not synced), a synced directory removes the old one.
After an error `Remove` is the cleanup, whose own error the code discards: the
temporary file may stay, like that of a dead process (`leftover`). Nothing
removes it later, nor does anything read it.

**Coordinator.** One action per critical section or blocking call. `handle` is
the set of Stops that read a non-nil `cancel` and `done`. A mapping is a
function from its stacks to whether `NewHTTPFetcher` accepts the URL.

**Configuration, Process.** An environment is a record of the settings that
matter to each other; those that are only checked one by one are the Boolean
`valid`. A compose URL is "lower", "upper" (an upper-case scheme), "refused" or
"unset"; nothing else about it is ever asked. `Load`, `FindMappingFile`,
`LoadMappingFile`, `FetcherBuilt` and `DockerClientBuilt` say which settings each
of these functions accepts, and `Process` calls them in the order of `main`, one
stage each. An `Edit` of the mapping files may come anywhere between the two
searches and the reading. `Fatal` ends the process from any stage before
`running`; from then on `main` waits in `Runner.Run` or `Coordinator.Run`, and
`MainReturns` does not wait for the server, as in the code. The health server is
its two goroutines; the metrics server is left out.

**HealthTracker.** `RecordCycle` is two steps, as the clock is read before the
lock; a request is two steps, as the decision and the snapshot take the lock
separately. The handler's own reading of the clock falls together with its
decision. Time is a counter up to `MaxTime`.

**HealthEvaluation, SwarmHealth.** Images are `[ref, digest]`, and configs and
secrets one set of tagged names, as the code treats them alike. The statuses are stated by
rule (`Failed`, `Degraded`) instead of by successive worsening. The swarm
(`Deploy`, `ChangeUpdate`, `StartTask`, `EndTask`, ...) is external and goes on
between the calls of a collection; `views` collects the states it was in, so
that properties can speak of what was true throughout or at some time. What
Swarm wants of a global service or a job (`TaskCounts`) is its own affair; the
mode of a job is one the code treats like a replicated one.

**DockerListing.** The recursion over prefixes is a stack of prefixes. An API
call and its retries are steps; items come and go between them.

**Delivery.** One stack's notifications. `notifiers` is what `main` gives to
`NewMultiNotifier`: each with a URL or without (a `NoopNotifier`, or a nil
`*WebhookNotifier`, which the list keeps), and `dryRun` whether a
`DryRunNotifier` is around them. `elapsed` stands for the elapsed time
of the exponential backoff and `Budget` for its limit; waiting for a
`Retry-After` does not count against it.

## 3. Runs

Runs that must pass:

| Run (cfg) | Module | Shows |
|---|---|---|
| `AlertHistory_stable` | AlertHistory | threshold 3, mixed record versions: alerts need stability (`AlertNeedsStability`), form a chain (`AlertsChain`), leave no stable change behind (`SettledWhenStable`), baselines move by alerts only (`BaselineMovesOnlyByAlert`) and reach the status a service keeps (`BaselineConverges`) |
| `Sentinel_shared_file` | MC_Sentinel | two runners over one file, one with a source that changes, every failure, shutdown, crash, loss of the file: `StacksIsolated`, `PendingIsPersisted`, refinement of AlertCycle (`CyclesAreAtomic`), `WaitersProceed`, `ShutdownCompletes` |
| `ComposeFetch_one_source` | MC_ComposeFetch | one source that changes between requests, also to a body that does not parse, up to three retries: refinement of `Sentinel` and of `AlertCycle` (`ImplementsSentinel`), `AnswerBecomesDesired`, `ServedIsEvaluated`, `FetchEnds` |
| `FileStore_crashes` | FileStore | refinement of StateStore; half a file is never found (`SaveNeverTears`); no Save returns before it has renamed or tried to remove its temporary file (`TypeOK`) |
| `Coordinator_stop` | Coordinator | every mapping of up to three stacks, two Stops: `StopWaitsForRunners`, `StopCompletes` |
| `Process_main` | MC_Process | every way to name the source and the mapping file, with an edit on the way, every TLS setting: one mode, with a source and the TLS that were asked for (`RunsAsConfigured`; the source if nobody edited the files); signals, fatal errors and stacks that cannot start: `NothingLeftBehind`, `NormalExitIsShutdown`, `EndsWhenTold`; what the endpoints say meanwhile: `AnswersAreJustified` |
| `SwarmHealth_collect` | MC_SwarmHealth | a service and a job, changing during a collection: `AsDeclaredIsOK`, `RollingIsOK`, `DownIsFailed`, `OKIsEarned` |
| `Delivery_parts` | Delivery | with and without URLs and dry run: `NilMeansDelivered`, `EveryNotifierTried`, `NotifyReturns` |
| `DockerListing_pages` | MC_DockerListing | `ListingIsComplete`, `ListingEnds` |

Runs that end in a counterexample, each a disagreement between the code and
what the repository says of it:

| Run | Property | Disagreement |
|---|---|---|
| `AlertHistory_new_service` | `StableFailureAlerted` | with a threshold of 2 or more, a service that appears broken after the first run is never alerted (runner.go:473) |
| `Sentinel_unparsable` | `FingerprintDescribesDesired` | the fingerprint advances before the body is parsed, and is saved with statuses of the body before (runner.go:248) |
| `SwarmHealth_parked` | `AsDeclaredIsOK` | 0 replicas and a config: FAILED for ever (evaluate.go:111) |

### Bounds

- `Services`: one or two. Two let one service be new while another is known,
  which is what `firstRun` distinguishes; services are otherwise independent.
- `AlertStabilizationCycles` 1, 2 or 3 with `CycleCap` at or above it: a reset,
  a start from 0 and a counter beyond the threshold all occur. In `Sentinel`,
  where the counters are not the question but whose copy of them is, 1.
- `Stacks`: two. A lost update needs one writer and one victim; the entries of
  further stacks are treated like the victim's. One of the two sources changes
  and sends ETags, the other does neither (`Served`, `ETagChoices`); a source
  that sends ETags now and then is left out: it is the first limit
  in section 6.
- In `ComposeFetch`, two bodies that parse and one that does not suffice for "old,
  other, old again" and "good, bad, bad again".
- `MaxRetries` 3, the code's default: a fetch may meet each of the bodies and
  each kind of failure.
- `Data`: two states, so that old and new differ. Kills, power losses and errors
  are not counted. Whether the file system can sync directories (`dirSyncs`) is
  chosen at the start.
- `Coordinator_stop`: every mapping of up to three stacks, and two Stops, so
  that one may find the other's work done.
- `Process_main`: environments that differ from a usual one in what belongs
  together - URL, explicit path and one mapping file in any place; all the TLS
  settings and hosts - as the settings of different groups do not meet in the
  code. Mapping files of two stacks (both, one or none of which can start), with
  a duplicate, or empty; one edit, which suffices to change the outcome of the
  second search or of the reading. One probe, as probes share nothing, and a
  clock of four ticks, beyond twice the poll interval; the four attempts of a
  Ping.
- `MaxChanges` 2: two steps of the swarm during a collection (an update that
  starts and a task that ends, a removal and a new deployment). `MaxTasks`: two
  of `web`, which occurs replicated and global and in every state, one of `db`,
  a job, which may be undeclared.
- Pages of one item, prefixes of up to two of two characters, IDs of three, so
  that some part is still too long at the last depth; the code's four attempts.
  IDs have to be at least as long as the longest prefix: see section 4.
- Up to five transitions in Slack messages of two, one webhook message: one to
  three messages, with and without a remainder; all settings of the notifiers.

### Fairness

Safety is checked without fairness. For liveness:

- a runner's own steps (`Cycle`, `Tick`) are weakly fair: every call has a
  timeout and a limited number of retries, and the ticker fires;
- `Acquire` is strongly fair: a waiter finds the mutex free again and again,
  and Go's mutex hands over to a waiter that starves;
- `Stop` is strongly fair: select picks at random among ready cases;
- `Notify` is fair only once the context is done, as a `Retry-After` may come
  for ever;
- in `ComposeFetch` requests are answered, refused or time out, and backoffs
  end. `ServedIsEvaluated` has as its premise, an assumption about the
  environment, that the source answers well again and again and that
  notifications return;
- in `Process` main, the coordinator and the recording of a cycle are weakly
  fair (a Ping ends by its timeout), and a runner's return is strongly fair,
  for the reason given for `Stop`. No signal need come, nor a request;
- the goroutines of the coordinator are weakly fair; nobody has to call Stop;
- in `Delivery`, `Answered` is strongly fair: an endpoint may ask to retry
  later, but not for ever. The code has no bound on that (http_poster.go:103), so
  `NotifyReturns` is about every other mixture of answers;
- in `DockerListing` the client's steps are weakly fair: calls end by the
  timeout of the collection at the latest;
- in `AlertCycle` cycles go on and deliveries end (`FairSpec`).

Deadlock is checked except in `Coordinator_stop` and `Process_main`, where the
program ends.

Every property of a passing run has a mutant in `PROJECT.json`: a definition
with a plausible bug, written beside the original as a "Mutated form", under
which TLC finds the property violated.

## 4. Proofs

Every safety invariant and every action property of a passing run is a theorem,
for every value of the constants that the modules' assumptions admit. Each proof
module defines an inductive invariant (`IInv`), proves that it holds at the
start and is kept by every action - one lemma per action or group of actions -
and derives the properties from it. The tables name the theorems; the other
lemmas are steps towards them. TLC checks `IInv` as an invariant on the
instances of the runs, which is how most of its parts were found.

| Module | Inductive invariant | What follows |
|---|---|---|
| `AlertHistory_proofs` | `Inductive` | `TypeCorrect`, `StableIsSettled`, `AlertsFormChain`, `AlertsAreStable`; about AlertCycle alone `CoreTypeCorrect`, `BaselineNeedsAlert` |
| `Sentinel_proofs` | `SentinelInductive` | `SentinelTypeCorrect`, `NotifiedIsPersisted`, `StacksStayIsolated`, `CyclesRefine`, `ImplementsAlertCycle` |
| | `FetchInductive` | `FetchTypeCorrect`, `FetchImplementsSentinel`, `AnswersAreCurrent` |
| `FileStore_proofs` | `FileStoreInductive` | `FileStoreTypeCorrect`, `NoSaveTears`, `ImplementsRegister` |
| `Coordinator_proofs` | `CoordinatorInductive` | `CoordinatorTypeCorrect`, `StopIsPatient` |
| `Process_proofs` | `ProcessInductive` | `ProcessTypeCorrect`, `NothingIsLeftBehind`, `NormalExitsAreShutdowns`, `RunsAsItWasTold`, `EveryAnswerIsJustified` |
| `SwarmHealth_proofs` | `SwarmHealthInductive` | `SwarmHealthTypeCorrect`, `DownIsAlwaysFailed`, `RollingIsAlwaysOK`, `OKIsAlwaysEarned`, `AsDeclaredIsAlwaysOK` |
| `DockerListing_proofs` | `DockerListingInductive` | `DockerListingTypeCorrect`, `ReturnedIsComplete` |
| `Delivery_proofs` | `DeliveryInductive` | `DeliveryTypeCorrect`, `NilAlwaysMeansDelivered`, `EveryNotifierIsTried` |

### Assumptions

| Assumption | Says | Because |
|---|---|---|
| `StabilizationAssumption` | integer threshold and cap, the cap at or above the threshold | the code has no cap; `SaturationLosesNothing` |
| `AlertCycleAssumption` | `UpgradedFile` is Boolean | |
| `SentinelAssumption` | bodies have services, sources have ETag habits, `NoHolder` and `NoCompose` are neither stack nor body | a free mutex and "no body yet" are told apart from the rest |
| `ComposeFetchAssumption` | `MaxRetries` is a natural number | |
| `FileStoreAssumption` | no file, a torn one and a complete one differ, as do no call and a call | JSON cut short does not parse |
| `ProcessAssumption` | environments and mapping files are what `Configuration` describes; stacks have names; at least one attempt, a positive poll interval, a clock | `Load` refuses others; YAML loading yields a list of entries |
| `SwarmHealthAssumption` | counts are natural numbers, "unset" is none, a replicated service has a number of replicas | the Docker API |
| `DockerListingAssumption` | a non-empty alphabet, at least one attempt and one level, IDs over the alphabet and at least `MaxDepth` long | Docker's IDs have 25 characters, the deepest prefix fewer |
| `DeliveryAssumption` | there are transitions, and a message holds some | `runner.go` does not notify of nothing; the Slack limit is a constant |

Two theorems have a hypothesis, which the passing runs satisfy and which marks
where the program falls short otherwise:

- `AnswersAreCurrent` assumes `ETagsConsistent`: no source sends an ETag with
  some of its bodies only (runner.go:234). Without it the property is false:
  with `ETagChoices` BOOLEAN, TLC finds the counterexample of section 6.
- `AsDeclaredIsAlwaysOK` assumes `NothingParked`: nothing with configs or
  secrets is wanted without a task (evaluate.go:111). Without it the property
  is false, as the run `SwarmHealth_parked` shows.

### Arguments

**AlertHistory.** `SettledWhenStable` relates a window of observations to a
baseline, but not to the counter that decides when the baseline moves. Added:
the last alert about a tracked service is its notified status
(`AlertedIsNotified`), a service without a record has an empty window
(`UntrackedUnobserved`), and the counter of a record counts equal evaluations at
the end of the window and, up to the threshold, all of them (`CounterSound`,
`CounterComplete`; the 0 of an old record counts as one, `RunLength`).
`CounterStep` is the arithmetic of one more observation. The action properties
follow from `IInv` and the facts about one cycle (`CycleFacts`,
`TransitionFacts`).

**Sentinel.** The mutex makes the cycles atomic: whoever is between Load and
Save holds it, and nobody else does (`HolderIsInside`); so what a runner loaded
is still what the file holds when it saves (`LoadedIsCurrent`), and a Save
changes the entry of its own stack only. A runner comes to the mutex with this
cycle's statuses (`ObservedIsFresh`), and alerts wait only while their runner is
at Notify (`OutboxIsTransient`). Then a successful Save is AlertCycle's `Cycle`
of that stack, the return of Notify is `Dispatch`, the loss of the file is
`Forget` in every stack at once, and all else is a stutter (`StepRefines`).

**ComposeFetch.** The invariant of Sentinel carries over, with the state of each
request (`RequestTypeOK`). Every step of a request is a stutter of Sentinel or,
when the answer is acted on, Sentinel's fetch, with `seen` as the body
(`FetchStepRefines`). For `AnswersAreCurrent` a second invariant says that the
kept ETag is that of the kept fingerprint and the desired state is that of the
fingerprint, unless that body did not parse (`Agrees`): this is what a 304
confirms.

**FileStore.** At each call of Save it is known how far the temporary file has
come (`TempFollowsStep`): it is complete and synced at the rename. An error
before it leaves only the cleanup to do, which touches no other file. What a power
loss may leave always includes what is there now (`PathMaySurvive`). The
refinement maps the register to what Load makes of the path, and the contents a
power loss may bring back to what Load makes of `durable`.

**Coordinator.** `StopWaitsForRunners` speaks of Stops and runners, which never
touch each other. Added is what connects them: a Stop that holds the channel
returns after it was closed (`StopSeesClosed`), `Run`'s return alone closes it
(`ClosedByRun`), and `Run` is past its wait group only when every runner has
exited (`WaitIsOver`), after which none is started. In `Process` main does not
call Stop, and the coordinator appears with its own part of the invariant.

**Process.** Its properties depend on each other. What Load and NewDockerClient
decided still holds of the environment, which stays what it was
(`EnvironmentOK`); as long as nobody edits the files, the second search finds
what the first one found (`SourceIsKept`), which is all that keeps a mapping and
a URL apart; the mode is chosen once (`ModeIsKept`). That no cycle is left half recorded needs `BusyRunnersWork`: a
runner that has read the clock for the tracker has not returned. What `/healthz`
says in single-stack mode needs that the tracker never goes back in time then
(`TimeGoesForward`), and that the cycle a request will show is the one it
decided on or a later one (`Shown`).

**SwarmHealth.** Everything in the picture was true at some time since
ServiceList: a service as it was listed (`ListingWasTrue`), with its tasks as
they were at another time (`CollectedWasSeen`); and a status comes from such a
picture or from an absence (`StatusWasSeen`). Each property then compares two
moments: what held throughout holds of both. `OKIsEarned` asks for one moment at
which all was well, and gets it from the moment the tasks were listed.
`AsDeclaredIsOK` needs in addition that a service that always had the tasks
Swarm wanted always had the same number of them, as the two never change in one
step (`SettledIsSteady`).

**DockerListing.** What existed throughout was found, or is in the part asked
for now, or in a part still to be asked for (`NothingDropped`). A part that is
too long is replaced by longer prefixes that together cover it
(`LongerCovers`).

**Delivery.** What a notifier has posted during its turn adds up to full
messages (`PartsAddUp`; `CeilingFacts` is the rounded-up division that counts
them), and one that has not had its turn has posted nothing (`TurnsAreKept`). An
error is remembered exactly if some turn ended too early (`FailureIsKnown`), and
only a call that is told to stop ends a turn before it began (`TurnsAreTaken`).

### What the proofs changed

- `LongerCovers` fails for an ID that is itself a prefix that is split: none of
  the longer ones has it, and the listing drops it. The assumption on `Ids`
  now excludes this, as Docker's IDs do.
- `Mappings` and `Evaluations` read `SUBSET S \ {{}}`, which TLC and the prover
  bind differently: for the prover it was a larger set. They are now
  parenthesised.
- Assumptions of Sentinel, FileStore, SwarmHealth and Process were incomplete:
  "nobody", "no call" and "unset" could have been ordinary values.

### Only model-checked

- Liveness, which needs fairness and ENABLED: `BaselineConverges`,
  `WaitersProceed`, `ShutdownCompletes`, `ServedIsEvaluated`, `FetchEnds`,
  `StopCompletes`, `EndsWhenTold`, `NotifyReturns`, `ListingEnds`.
- `StableFailureAlerted`: it fails for thresholds above 1 and should hold for 1.
- `FingerprintDescribesDesired`, which is false.

## 5. Not modelled

- Wording, formats and templates of messages and logs; metrics and their server,
  on which nothing depends; what `net/http` and the Docker SDK do.
- YAML loading (a library); what it yields per service is in `HealthEvaluation`,
  per stack in `Configuration`.
- Replica and image details of alerts.
- The values of durations, ports and webhook URLs in the configuration: each is
  checked by itself and only accepted or not. Secrets read from files
  (`loadSecretFromFile`) only decide whether a notifier has a URL.
- The `-healthcheck` and `-version` commands, which are one request and one line.
- A `ServiceStatus` that the daemon leaves out: `HealthEvaluation` has the case,
  no run reaches it, as the client asks for it (docker_client.go:252).

## 6. Known limits of the program

Found while modelling, and reported by no run. Where a property of a passing
run is weaker or its instance narrower than one would like, this is why. The
hazards behind the first four are listed without a property: the code falls
short of the one that would cover them, and the passing properties except the
case.

- A 200 without ETag keeps the ETag of an older body; when the source goes back
  to that body its 304 confirms the desired state of the body in between, for as
  long as the source keeps it (runner.go:234), though what it serves is said to
  be authoritative (ARCHITECTURE.md:103). `AnswerBecomesDesired` holds for
  sources that always send an ETag or never do.
- The mapping file is looked for again after the configuration was checked
  (main.go:123): if one appears meanwhile, it wins over the URL, although both
  together are refused (config.go:248). `RunsAsConfigured` has this as an
  exception; that a file which disappears does not leave a process without a
  source, it says without one.
- `Run` returns nil at once if no stack can start (coordinator.go:168), though
  it is said to block until the context is cancelled (coordinator.go:95), and the
  process then ends with status 0; `NormalExitIsShutdown` excepts it. A URL with
  an upper-case scheme gets a stack there: `validateHTTPURL` accepts it
  (config.go:368), `NewHTTPFetcher` does not (fetcher.go:100). If other stacks
  can start it is only logged.
- `RecordCycle` reads the clock before it takes the lock (tracker.go:34), so two
  runners can record their cycles in the wrong order and the time of the "latest
  cycle" (tracker.go:8) goes back; `AnswersAreJustified` asks of `/healthz` only
  in single-stack mode.
- While a body does not parse, the desired state stays behind the source
  (runner.go:248); `AnswerBecomesDesired` speaks of bodies that parse.
- A body over the size limit is an error without a status and is asked for again
  as if the network had failed (fetcher.go:287, 53-57).
- The temporary file of a Save stays if it cannot be removed after an error
  (file_store.go:96, 101) or the process is killed; nothing cleans up later.
- A 429 with `Retry-After` is retried without a bound (http_poster.go:103): such
  an endpoint keeps one runner from its next cycle. The others go on
  (`WaitersProceed`), and a signal still ends it (`ShutdownCompletes`).
- `main` returns without waiting for `Shutdown` of the servers, and a server
  that cannot bind is only logged (server.go:65, 74).
- The `-healthcheck` command takes `SS_HEALTH_PORT` from the environment only
  (main.go:198), `main` also from `.env` (config.go:87); and it asks port 0 if
  that is how the health server was switched off, and fails.
- A secret file that cannot be read counts as no URL, and alerts are dropped
  (config.go:306).
- In multi-stack mode one working stack keeps `/healthz` at 200 while others
  are stuck (tracker.go:74).
- An update that starts between ServiceList and TaskList can be complained
  about, as its state was read before (docker_client.go:208; TASKS.md:218);
  `RollingIsOK` asks for an update seen throughout.
- The rate limiter is asked once per batch, whatever the number of messages
  (slack.go:74; TASKS.md:168).
- A call to Docker is attempted four times (docker_client.go:313; TASKS.md:184),
  and a list that failed for good is asked for again in parts.
- A delivery that fails is not tried again, since its alerts are already
  persisted as notified (runner.go:405-409); so are those of a dry run
  (dry_run.go:22), which are not raised again when it is switched off.
- Jobs whose tasks have completed are FAILED (evaluate.go:97), as
  `DownIsFailed` shows.

## 7. Plan

Done, in this order: the alerting core (Stabilization, AlertCycle,
AlertHistory and its proofs), Sentinel over it, FileStore under it, then
Coordinator, HealthTracker, SwarmHealth, DockerListing and Delivery; ComposeFetch
under Sentinel, and Configuration and Process around Coordinator and
HealthTracker; then the proofs of all their safety properties and refinements.

Next:

1. `StableFailureAlerted` for threshold 1 and fresh files.
2. The histories of alerts as a theorem about each stack of `Sentinel`: the
   history variables added there, or shown to be a function of its behaviours.
3. The tracker alone, with requests and any number of runners, as
   `Coordinator_proofs` has the coordinator alone.
4. Lemmas about the operators of Configuration, HealthEvaluation and
   Stabilization that are so far parts of larger proofs.
