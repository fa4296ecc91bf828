# Guvnor: verification project

TLA+ models of the Go program in `src/` (Guvnor, an incident-management
platform), TLC runs over small instances, and TLAPS proofs of the properties
that matter most. Line numbers refer to files under `src/internal/`.

## 1. Inventory

| Component | State it keeps | Operations | Hard behaviour | What makes it correct |
|---|---|---|---|---|
| Incident aggregate (`core/domain/incident.go`) | status, resolved_at, assignee, events | CanTransitionTo, TransitionTo, Validate, RecordEvent | long sequences of transitions | resolved iff stamped; only permitted transitions |
| Incident service (`core/services/incident_service.go`) | human-ID counter (own mutex) | CreateIncident, UpdateStatus, AddResponder, RecordEvent, generateHumanReadableID | read / decide / write without a lock; ignored event failures; cancelled contexts | no lost update, legal stored transitions, append-only trail, unique human IDs |
| Memory repository (`adapters/storage/memory/incident_repository.go`) | `incidents` and `events` maps under one RWMutex | Create, Get, List, Update, AddEvent, Delete | whole-record overwrite from stale snapshots | both maps agree; no orphan events; no resurrection |
| Postgres repository (`adapters/storage/postgres/incident_repository.go`) | rows; updated_at as optimistic lock | the same port | transactions, check-then-insert, three-query Get, update trigger | lost updates detected; a legitimate update succeeds |
| Schedules (`core/domain/schedule.go`, `core/services/schedule_service.go`, `adapters/storage/memory/schedule_repository.go`, `config/schedule_loader.go`) | schedules, rotation | GetCurrentOnCall, GetNextRotation, create / update / delete, conversion from and to YAML | integer division of durations, saturation and overflow, boundary instants, two editors | the hand-off announced is the hand-off that happens; a cycle skips nobody; export and reload keep the rota |
| Detection (`detection/detector.go`) | rules, cooldowns, signal history, one RWMutex | ProcessSignal, ProcessSignalGroup, evaluationWorker, Start, Stop | a lock taken twice, cooldown check-then-act | nobody waits for ever; one incident per cooldown |
| Correlation (`correlation/engine.go`) | groups, fingerprint index, dedup cache | ProcessSignal, cleanup, GetGroups, Stop | index entries outliving or preceding their group | index points to live groups; size and window limits |
| Notifications (`notification/service.go`) | bounded queue, workers, started flag | Start, Stop, Notify*, worker | accept during Stop, restart, cancelled worker context | what was accepted is delivered or reported |
| Webhook client (`notification/webhook/client.go`) | circuit breakers, delivery history | SendNotification, sendToEndpoint, CanExecute / RecordSuccess / RecordFailure | retries, back-off, breaker transitions shared by workers | an open breaker blocks; an error means that nobody was told |
| Telemetry (`telemetry/*.go`) | recentSignals map, sub-receivers | Start, Stop, ConsumeMetrics / Traces / Logs, HandleSignal | partial start, unguarded map, suppression before success | a signal suppressed was handled; stop releases what start acquired |
| HTTP API (`api/handlers`, `api/dto`) | none | create, status, events, list | several service calls per request, one answer for all of them; error mapping | a 200 was stored; an error hides no change from a client that waits |
| Listing (`core/ports/repositories.go`, both repositories, `api/handlers`) | none | filter, sort, limit and offset, total and has_more | a client pages while others write; equal keys; count and query in two statements | nothing that stays is missed; an undisturbed walk is exact |
| Server (`server/server.go`) | http.Server, receiver | Start, Shutdown, health | shared deadline, serve failure | shutdown completes; failure is reported |
| Migrations (`cmd/migrate.go`) | none of its own | up, down, status | - | not modelled (see section 6) |
| Config, logging, middleware, CLI root and version | settings, log lines | load, log | none shared | not modelled |

The server (`server/server.go:83`) wires the HTTP API and the telemetry
receiver to the incident service and the *memory* repository. Detection,
correlation, notification and the Postgres repository are library components
that the server does not start yet; they are modelled as their exported
interface lets a program use them.

Interactions: an HTTP goroutine or the telemetry handler calls the service; the
service calls the repository; the notification workers call the webhook
client; the detector and the correlation engine run a background goroutine
each next to their callers. Everything is shared memory and locks; nothing is
persisted by the wired configuration.

## 2. Modules

Each module's head comment names the code it models; `PROJECT.json` maps every
definition to its lines. A definition whose comment begins with "Mutant:" is
not part of a model: it is the form the definition after it would have with a
plausible bug, and is used to check that a property notices it.

| Module | Models | State | Actions |
|---|---|---|---|
| `IncidentDomain` | `core/domain/incident.go` | none (operators) | `CanTransitionTo`, `TransitionTo`, `Validate`, `RecordEvent` |
| `IncidentRepository` | memory repository | `incidents`, `events` | `Get`, `Create`, `Update`, `AddEvent`, `Delete`: each one critical section of the RWMutex |
| `IncidentService` | `core/services/incident_service.go` | the repository's, the human-ID `counter`, and of every client its `pc` and the snapshot (`local`) it works on | one action per repository call of each method, so that other clients run between two calls; `ContextDone`; `NewYear` |
| `IncidentLedger` | nothing: the abstract promise | `status`, `trail` | `Open`, `Move`, `Record`, `Remove` |
| `IncidentAPI` | `api/handlers/incident_handler.go`, the requests and answers of `api/dto` | the service's, and of every client its `http` request and its last `answer`; the `writer` of each incident (history) | one action per handler entry, per service step on behalf of a request, and per continuation: `AfterUpdate`, `RecordComment`, `ReadBack`, `CallFails` |
| `IncidentProofs` | theorems about the service, its refinement and the API | | |
| `IncidentListing` | filter, sort and page of both repositories, `ListFilter.Validate`, the handler's total and has_more | stored rows with their stamps, and one client's `walk` | `Build`, `Store`, `UpdateStatus`, `Delete` by others; `StartWalk`, `ListPage` under one lock, `CountRows` and `QueryRows` as two statements |
| `IncidentListingProofs` | theorems | | |
| `Rotation` | `Rotation` in `core/domain/schedule.go` | none (operators on integers) | |
| `Schedules` | `Schedule`, and its YAML form in `config/schedule_loader.go` | none (operators) | |
| `ScheduleService` | `core/services/schedule_service.go` over the memory repository | `schedules`; of every editor the object it `held` and its `pc`; the clock | stamp and validate, then the repository call: `CreateSchedule` / `CreateStore`, `UpdateSchedule` / `UpdateStore`, `DeleteSchedule`, `GetSchedule`, `Edit`, `ContextDone` |
| `ScheduleServiceProofs` | theorems | | |
| `PostgresRepository` | postgres repository and schema | `row`, `events`, row `lock`, `stamp`; of every caller `pc`, `object`, `result` | one action per SQL statement; `Rollback`, a lost answer of `Commit` |
| `PostgresRepositoryProofs` | theorems | | |
| `CircuitBreaker` | `CircuitBreaker` of the webhook client | none (operators on a record) | |
| `WebhookClient` | `notification/webhook/client.go` | the configured list of endpoints, the breakers and the map they are registered in; of every sender its place in the endpoint and retry loops | lookup under RLock, creation under Lock, check, request, outcome, back-off, cancellation |
| `WebhookClientProofs` | theorems | | |
| `NotificationService` | `notification/service.go` | `queue`, `started`, stop channel, workers | `Start`, `StopBegin` / `StopDone` / `StopTimeout`, `Notify` / `Enqueue` / `Refuse`, `Take` / `Finish` / `WorkerExit` |
| `NotificationServiceProofs` | theorems | | |
| `CorrelationEngine` | `correlation/engine.go` | groups, fingerprint index, dedup cache, metrics, cleanup goroutine | `FilterDuplicate`, `JoinGroup`, `OpenGroup` (the outcomes of ProcessSignal, one critical section), `Cleanup`, `Stop` |
| `Detector` | `detection/detector.go` | the RWMutex, cooldowns, processors, evaluator | the lock sections of ProcessSignal(Group), of a tick, of Start and Stop |
| `SignalPathProofs` | theorems about correlation and detection | | |
| `SignalProcessor` | extraction in `telemetry/signal_processor.go` | none (operators) | `ProcessMetrics`, `ProcessTraces` (resources with their spans, counted by `CountUpTo`), `ProcessLogs` |
| `TelemetryReceiver` | the filter in `signal_processor.go`, the consumers of `receiver.go`, `incident_signal_handler.go` | `recentSignals`; of every consumer the batch it works on | one action per access to the unguarded map, those of the clean-up (`FindExpired`, `DeleteSignal`) included; creation and attachment of each signal |
| `Server` | `server/server.go` with all of the above consumers | main goroutine, listener, receiver, requests, deadline | `Start`, the signal, the two-stage `Shutdown`, crash |
| `ServerProofs` | theorems about the filter, the extraction and the types of the server | | |
| `MC*` | small instances for TLC | | |

Composition. `IncidentService` EXTENDS the memory repository and the domain;
`IncidentAPI` EXTENDS `IncidentService` and calls its actions, so that each of
its steps is a step of the service or leaves the service alone (the theorem
`APIImplementsService`): what holds of the service holds behind the API;
`ScheduleService` EXTENDS `Schedules`, which EXTENDS `Rotation`;
`WebhookClient` EXTENDS `CircuitBreaker`; `Server` EXTENDS `TelemetryReceiver`,
which EXTENDS `SignalProcessor`. `IncidentService` implements `IncidentLedger`
(one client at a time) through the instance `Ledger`, whose refinement mapping
reads status and trail off the two maps. The service is modelled over the
memory repository because that is the one the server wires
(`server/server.go:83`); the Postgres repository is modelled behind the same
port for any caller.

### What the data is abstracted to

* Incident: UUID, human ID as (year, sequence), status, whether resolved_at is
  set, the trail, and whether updated_at is before created_at (`behind`, the one
  thing `Validate` asks of the two stamps). Titles, labels and severities do not steer anything.
* Event: source (the call that wrote it), status it leads to, and the number of
  the operation, so that no two events are equal.
* Postgres row: updated_at as a number, and the set of Update calls whose
  effect it contains (a history of what optimistic locking has to protect).
  Versions are only compared for equality; the model assumes that two stored
  versions differ, which leaves out transactions that begin in one microsecond.
* Time: in `WebhookClient`, `Detector` and `TelemetryReceiver` ages and
  countdowns (no clock value that grows), in `CorrelationEngine` a bounded
  clock, because the engine compares received and processed times.
  The wall clock may be stepped back where the code compares two of its
  readings: between creation and update of an incident, and between any two
  stamps of the listing, which may be equal as well. Two properties assume that
  it is not, and say so: `UpdatedNeverGoesBack` of the schedules, and
  `HumanIDsUnique` of the year.
* Signals: the fields the fingerprints are made of. Ratios are integers of one
  hundredth, compared without division. A span: whether its status
  is an error, and its duration. A metric: the keywords in its name, its type
  and its points. A log record: which of the two pattern lists it matches.
* HTTP: a request is its route, its incident, the status it asks for and whether
  it carries a comment with or without an actor; an answer is its code and the
  status it shows. What the request did before it was answered is history.
* Instants and durations of a rotation: integers of one tick, with the
  saturation of `Sub` and the wrap-around of a `Duration` product kept. A time
  zone is known or unknown: `In(loc)` moves no instant.
* Listing: of the filters, the status stands for all, being the one an update
  changes; of the sort fields, the two stamps and one ranked field.

## 3. Runs

Every run is one cfg of the same name. `TypeOK` of the service is checked in
`service_concurrent`. The type invariants of the other modules are proved for
every instance instead of checked on one, with one exception: that of the
webhook client bounds a back-off by a power of two, about which the provers
know nothing; it was model-checked. A "violation" run shows a disagreement
between the code and what a comment in it says, listed under "findings".

| Run | Instance | What it shows |
|---|---|---|
| `service_concurrent` | the API over the service: 2 clients, 1 incident, 4 operations, cancellations, deletions from elsewhere; requests ask for triggered, acknowledged, resolved | The repository stays consistent whatever interleaves: resolved and stamped agree, the repository refuses what the service built only when the clock stamps it before its creation, no orphan events, nothing deleted comes back. Lost updates exist, but replace record and trail together: the trail always explains the status. A 200 was stored and shows what was asked for unless another client wrote between; an error hides no visible change from a client that waits. |
| `service_serial` | 1 client, 2 incidents, all operations, 5 of them, one turn of the year | Human IDs are unique across the year, and the service implements the ledger: permitted moves, each with its event, in a trail that only grows. |
| `service_legal` | 2 clients, 1 incident | **Violation.** "This method enforces status transition rules" (`incident_service.go:250`): two clients read the same status, and the later Update stores one that the rules forbid from the one stored before. |
| `postgres` | 3 callers, 1 incident, 6 calls | An acknowledged update is never lost, acknowledged events stay, no orphans, and the first Update with the version a caller got is refused only for cause. Three callers so that two contend while a third deletes or re-creates. |
| `webhook_delivery` | 2 senders, every list of up to 2 endpoints, enabled or not, 2 attempts at each | All senders share one breaker per endpoint, retries overrun an open breaker by less than one round of every sender, an error is returned exactly when some endpoint was enabled and none took the notification, and every send returns. |
| `notify_pool` | 2 workers, 3 requests, buffer of 2, 2 starts | An accepted request is in one place, is handled unless the service is stopped or cancelled, Stop returns and leaves no worker behind. |
| `correlation` | 3 kinds of signal, groups of 2, 4 signals, time to 6 | Index and groups agree, counters agree with each other and the groups, duplicates and late joins do not happen, and only cleanup forgets, and not early. |
| `detector` | 2 processors, a matching and a never-matching rule | Cooldown lets through at most one incident per goroutine, calls and Stop return, and nobody deadlocks: deadlock is checked. |
| `detector_deadlock` | 1 processor, a rule of type error_rate | **Violation.** The evaluator holds the mutex while it asks `isInCooldown`, which takes it again (`detector.go:436`, `:675`): every later ProcessSignal waits for ever. |
| `server` | 2 consumers, a metrics batch that reports one kind of signal twice around a value below its threshold, a log batch without any, 1 HTTP request at a time, clock skew of 1 | The filter without a mutex still bounds incidents of one kind, although a clean-up can delete a new record, and never suppresses for ever; extraction of traces is exact on every batch of up to 3 resources of up to 2 spans; shutdown returns. |
| `schedules` | 2 editors, 1 schedule, 3 calls; 9 drafts of every type, valid and not; 37 instants, durations up to 31 | What GetNextRotation announces happens; every cycle has everyone once; listing, activity and on-call agree at the boundary instants; export and reload lose nothing but a fraction of a second; a stored stamp never goes back. |
| `listing` | 3 incidents, 3 stamps in any order, 7 requests (every sort, both directions, pages of 1, 2 and 50, a filter, two refused ones) | Paging by creation time misses nothing that stays and shares its stamp with no other, whatever is created between pages; an undisturbed walk over distinct keys returns each match once under the right total. |

Deadlock is switched off (`CHECK_DEADLOCK FALSE`) where the system really
stops: a service whose clients or editors have used up their calls, a process
that has exited, an engine at the end of its bounded clock, a walk through the
list that has ended, a notification service that crashed or has nobody calling it, and the deadlocking detector itself.

### Bounds

* `MaxOps` (service): a lost update takes a create and two status changes;
  four operations leave one more to meet its result, a comment or a deletion.
  Five serial ones reach every status, a reopening and a deletion. Clients and
  UUIDs are symmetric. In `service_concurrent` one incident is enough, since
  no operation touches two; the human IDs of two are the business of
  `service_serial`, which turns the year, and of the theorem
  `HumanIDUniqueness`.
  Requests answered without any effect come before the last operation only.
* `Wanted`: a forward step, a resolution, a reopening, and from resolved a
  refused one.
* `MaxOps` (postgres): a create, two reads, two updates and one more call that
  races with them. Callers are symmetric; one incident suffices because
  statements on different rows do not meet.
* `MaxYear`, `FirstYear`: one turn of the year (no handler reads the clock).
* `MaxCalls`, `MaxNow` (schedules): a create and two updates that cross, over
  one tick of the clock. `Times`, `Day`, `MaxDuration`: instants over more than
  two weeks of two ticks a day, past the largest duration, so that saturation
  and wrap-around occur.
* `MaxEndpoints`: one to fail and one to succeed, in both orders; the lists
  include the empty one and those with all endpoints disabled.
* `Stamps` (listing): as many as incidents, so that all can differ, and any two
  be equal or out of order. Incidents change until the walk ends or something
  happens that the properties except (`Underway`).
* `MaxStarts`: a start, a stop and another start.
* `MaxSignals`, `MaxTime`, `MaxDelay`: enough signals to fill a group and open
  its successor, and time for the window, the cache and the time to live to
  run out one after the other.
* `MaxSkew`: how old the `time.Now()` of a consumer can be when it is used; at
  most half of `MinSignalInterval` (see section 4).
* `SpanBatches`: the batches of spans about which `TracesExact` is asked.
* `MaxRequests`: one HTTP request in progress stands for any number; only
  "none" and "some" are told apart.
* `OverrunBound`, `BurstBound`: saturation of history counters just above the
  value the properties allow.

### Fairness

None in the service, the API, the schedules, the listing, the correlation
engine and Postgres: only safety is claimed, clients may stop anywhere.

* `WebhookClient`: a runnable sender runs, time passes (WF on each). Sends and
  cancellations are not fair.
* `NotificationService`: workers run, and Stop notices that they are gone.
  Nothing is assumed of callers, of Stop's timeout, or of Start.
* `Detector`: SF for a processor, because Go's RWMutex hands the lock to a
  waiting writer, which a spinning evaluator cannot overtake for ever, and SF
  for the evaluator's exit, because `select` chooses among ready cases at
  random. Neither tick, Stop nor calls are fair.
* `Server`: every goroutine that can run does (WF), time and the shutdown
  deadline pass. Signals, HTTP clients and OTLP clients are not fair.

## 4. Proofs

Checked by TLAPS for all values of the constants that satisfy the named ASSUMEs
of the modules: `NoIncidentAssumption`, `ServiceAssumption`, `APIAssumption`,
`NotificationAssumption`, `PostgresAssumption`, `BreakerAssumption`,
`WebhookAssumption`, `CorrelationAssumption`, `DetectorAssumption`,
`RotationAssumption`, `SchedulesAssumption`, `ScheduleAssumption`,
`ListingAssumption`, `ThresholdAssumption`, `SpansAssumption`,
`TelemetryAssumption`, `BatchesAssumption`, `ServerAssumption`. Bounds are
naturals, durations and limits positive, payloads lists, and markers such as
`NoIncident`, `NoRow`, `Omitted` no values of the set they are added to.
Clients, callers, editors and workers may be infinitely many; senders,
processors, consumers and the incidents of the listing are counted, and finite.
Two assumptions say more than that. `TelemetryAssumption` asks for an interval
at least twice the skew of a reading of the clock: a filter that takes longer
than that has overslept the interval it guards. And `CooldownsBoundBursts` has the hypothesis `Cooldown > 0`: it is 0
only when a rule and the default both leave it out (`detector.go:95`, `:185`),
and then nothing is promised.

`IncidentProofs`, the service. The properties are not inductive alone. `IInv`
adds: stored records validate (`StoredValid`); objects held *between* two
repository calls are well formed, that is, validate but for their stamps
(`HeldValid`), since they are what the next call stores; objects come from issued UUIDs (`Issued`); and a UUID being created is
stored nowhere and claimed once (`CreatesFresh`), which is why Create never
collides. From it: `TypeCorrect`, `ResolvedConsistency`, `RefusalsAreTheClocks`,
`NoOrphans` and, as an action property, `NoResurrection`. `HumanIDUniqueness`
uses a second invariant, `HumanInv`: every human ID borne by a stored or held
incident is spent (below the counter) and borne by one UUID; stale snapshots
keep bearing theirs, so an overwriting Update cannot duplicate one.

`TrailsExplain` adds `TrailHeld`: the object a client is about to store carries
a trail that explains its own status. Update stores the two together, so which
of several snapshots wins does not matter; an event that is no transition
leaves the explanation alone (`LeadsToOther`), and a permitted transition at
the end of an explained trail extends it (`LeadsToTransition`). AddResponder is
excluded by hypothesis (`"responder" \notin Kinds`; the API never calls it): it
can write a record over a newer one while an empty trail is not written.

`ServiceIsALedger` proves the refinement of `IncidentLedger` for one client at
a time (`OneClient`). Its invariant `SerialInv` says that the held object is
the stored one with the operation's own change made to it; hence a store is
`Open`, `Move` or nothing, an event is `Record`, a deletion `Remove`, and every
other step a stutter.

`IncidentProofs`, the API. `APIInv` adds to the service's `IInv` where each
request is in its service call and whether its update took effect
(`RequestsTracked`), that a written incident is no longer one to be created
(`WrittenExisted`), and that until another client writes an incident shows what
its writer asked for (`WriterSeen`). From it `SuccessesAreStored` and
`FailuresAreHonest`; `APIImplementsService` follows from `RequestsTracked`.

`ScheduleServiceProofs`. The arithmetic comes first, as lemmas about any
rotation that validates, any start date and any instant: division brackets an
instant in its slot, the next slot begins at the announced instant, and
consecutive turns are distinct. `ScheduleIInv` (stored and submitted objects
validate, stamps lie in the past) carries them to the stored schedules:
`HandOffsAreKept` and `TurnsAreFair` (both for instants at which the slot's end
is a `Duration` away from the start), `ActiveIsOnCall`, `StampsMoveForward`,
and `OnlyCreates`, which no run checks: nothing but Create brings a deleted
schedule back. `ExportsLoadAgain` follows from `StoredValid`: what validates has
a name, a type and a duration that its YAML form can leave out or write down
and the loader puts back, so that only the fraction of a second is lost.

`IncidentListingProofs`. `ListingInv` adds `UnseenAhead` (what was listed from
the start and not seen stands at or behind the offset, because newcomers can
only push it back), `QuietSeen` (in an undisturbed walk the pages so far are
the first `offset` incidents), `FirstStay` and `CountFresh`. `UnseenAhead` speaks of an incident
only while no other of the list has its stamp: nothing keeps two creations from
being stamped alike, and each page may order those anew. The counting arguments
rest on cardinalities of finite sets.

`WebhookClientProofs`. `MapInv`: an endpoint gets at most one breaker
(`OneObject`), and a sender past its lookup holds the registered one
(`Attached`); hence `BreakersAreShared` although lookup and creation are two
critical sections. `LoopInv` ties the success a sender counts to what was
delivered at every place of the loops (`LoopSound`), and the last result to
both (`ResultSound`); hence `ErrorsAreHonest`, for lists with
nothing enabled too. `LoadInv` counts the requests that
reach an endpoint while its breaker blocks: those already made (`overrun`) and
those that senders in their retry loops may still make (`ToCome`) are together
fewer than one round of all senders (`Budgeted`), because the request whose
failure opened the breaker is in neither. Nothing is summed over senders:
`ToCome` is a set of pairs of a sender and the number of an attempt, of which a
step takes one away. Hence `OverrunsAreBounded`.

`SignalPathProofs`, correlation. `EngineInv` has two halves. `MapsInv` is about
maps and counters; `SignalsInv` about the signals in the groups: when they were
processed (`Stamped`, `SignalTimes`), when they joined (`Joins`), what the
cache still knows of them (`CacheSound`), and what therefore lies between two
of them (`Apart`). Cleanup may evict a cache entry, but only at an age at which
no duplicate can follow within the window. From it all five properties of the
run.

`SignalPathProofs`, detection. `BurstInv` relates, for one rule, the incidents
of the running cooldown to two sets of processors: those that matched the rule
and may still create an incident (`Holders`), and those that created one and
have not set the cooldown (`AtCooldown`). Incidents and holders are never more
than processors; and while no cooldown runs, every incident is of somebody at
its cooldown, so that only the others can match anew. Hence
`CooldownsBoundBursts`. `DetectorTypes` is the detector's type invariant, for
any rules and items.

`ServerProofs`, the filter. The map has no mutex, so a consumer that passed a
signal may write an old reading over a newer one. The invariant looks at one
fingerprint at a time (`Sound`): E, the recent passes; P, the consumers that
passed and have not written yet; r, the age in the map. Passes fall into two
rounds by an age h: of the round that began when the map last let consumers
pass, every consumer has at most one signal, written or pending; of what is left
of the round before, late writers and passes together are fewer than the
consumers (`Round`). While the entry keeps no one from passing there is less
than one round (`LettingPassSound`). One lemma for each thing that can happen to
a fingerprint (`PassIsSound`, `RecordIsSound`, `CleaningIsSound`, `TickIsSound`)
carries this through every step of the server, and E holds at most
`2 * Cardinality(Consumers) - 1` signals.

That counts what passed since an entry was last lost. A clean-up finds an entry
expired in one access and deletes it in another; an entry recorded in between is
lost, and as many signals may pass again. `LossInv` counts the losses: only an
expired entry is doomed, so while a live entry stands or a loss lies within the
interval, the consumers about to delete get fewer and no new one joins them; the
one that wrote the entry is not among them (`LossSound`). So there are fewer
losses than consumers, and `BurstsAreBounded` follows. `TypeCorrect` adds what
each consumer has in hand.

`ServerProofs`, the extraction. `TracesAreExact` holds for batches of any
length. It needs induction over the batch, which the provers do not offer as
such; instead the library's theorem that strict inclusion of finite sets is
well-founded gives least counterexamples (`LeastSubset`, `LeastNatural`), from
which follow that the recursion inside `FlattenSeq` defines something
(`JoinedExists`) and loses nothing (`FlattenRange`). The rest is about
counters: one that lives as long as the batch only grows (`CountedGrows`), and
at the last resource of its service has seen every span (`ReachedIsOverloaded`).

`NotificationServiceProofs`. `Inv` = types, `OnePlace` and `StoppedIsQuiet`
together are inductive. From it `RequestsInOnePlace` and `QuietAfterStop`.
`WorkersWhileRunning` holds for at most one start only: the stop channel is
never made again, so a second Start launches workers that exit at once. The
assumption `MaxStarts <= 1` in the theorem is that restriction.

`PostgresRepositoryProofs`. `IInv` adds three facts to the properties. A
transaction past its UPDATE holds the row lock and the row still has the
version it expects (`HoldsRow`). No version in circulation is ahead of the
clock, and an object that has the version of the row knows every edit in it
(`VersionsSound`): a new version is ahead of every one in circulation, so an
old object cannot match by accident, also across a delete and a re-creation.
And until a row changes, its readers still match it (`UnchangedMatches`).
Steps that write no table are one lemma, `QuietKeeps`; every write of a row
goes through `RowWritten`. From it: `TypeCorrect`, `OptimisticLocking`,
`EventsWithTheirIncident`, `ConflictsAreReal`.

The strengthened invariants were model-checked on the instances of the runs
before they were proved.

Every invariant and every step property that a passing run checks is the
statement of a theorem, and so is the refinement of the ledger. Only
model-checked: the liveness properties (`SendReturns`, `AcceptedHandled`,
`StopReturns` of service and detector, `ProcessReturns`, `SuppressionEnds`, `ShutdownReturns`), which are
out of the prover's reach, freedom from deadlock, and the type invariant of
`WebhookClient` (section 3).

## 5. Behaviour worth knowing that no run shows

* The incident service moves `UpdatedAt` to now before it calls Update, and
  Postgres' Update compares that very field with the stored one: with this
  repository every status change would be refused with ErrConflict. Update
  itself also moves the field before the row is written, so a call that failed
  cannot be repeated with the same object. (`Touch` and `SelectVersion`;
  `NoFalseConflict` speaks of the first use of an untouched object.)
* A notification service that was stopped and started again accepts requests
  and handles none (`WorkersWhileRunning` explains the restriction), and a
  Stop leaves what is queued where it is.
* The filter of recent signals limits a kind to two rounds of its consumers per
  interval, and two more for each record that a clean-up deletes by mistake, only
  while filtering a batch takes at most half an interval (section 4). With the default of 5 minutes that is never in doubt; the
  configuration accepts any interval.
* Correlation's cleanup deletes the index entry of an expired group although a
  newer group may own it: the newer one is then not found by fingerprint.
* While the receiver drains, the HTTP listener still accepts, against the order
  in the comment at `server.go:159`; and an error of the receiver's Stop is
  only logged, so a shutdown called graceful may have cut consumers short.
* A breaker that has opened never leaves "open": the half-open state
  (`webhook/client.go:60`) is assigned nowhere, so after the timeout requests
  pass, but neither failures nor successes change the state again.
* A listener that fails only logs, and the process stays up without serving
  (`server.go:174`); the comment at `server.go:156` says that
  StartWithGracefulShutdown returns on an error.
* API. A refused status transition is wrapped by the service and compared with
  `==` by the handler (`incident_handler.go:540`), so it is answered 500 where
  409 is documented. An event without an actor is answered 500, a comment
  without one is dropped without a word. The description, service and labels of
  a POST are on the answered copy only. A comment is an event like any other:
  a concurrent stale Update can replace the trail it was added to.
* Schedules. A daily slot is 24 hours of elapsed time in every time zone, so
  hand-offs move with daylight saving time. UpdateSchedule takes the whole
  record, CreatedAt included, and the last writer wins. Past the largest
  Duration (292 years) the announced hand-off lies in the past. An exported
  start date loses its fraction of a second. Nothing outside the tests
  constructs the service or the loader.
* Listing. Postgres counts and queries in two statements, so has_more can end a
  walk too early when an incident joins between them. Equal sort keys, equal
  creation stamps among them, stand in any order on each page, so that pages
  repeat one and miss the other. The memory repository includes the bounds of
  created_after and created_before, Postgres excludes them; `%` and `_` of a
  search are wildcards in Postgres only. An incident that leaves the list moves
  the ones behind it forward past the offset.

## 6. Not modelled, and what could follow

* Migrations (`cmd/migrate.go`): version, dirty flag, locking and the order of
  the files are golang-migrate's; the command makes one call of it and prints
  what it returns. A model would be one of the library.
* Configuration (`config/config.go`), logging, request-ID and logging
  middleware, the command line: no shared or lasting state.
* The collector's own gRPC and HTTP servers and the database are external.
* Signal payloads are stored with an incident and never read by any decision.
* The detector's signal history is written by every call and trimmed only by
  the evaluator; what evaluation would compute from it is left out.

What could follow: an abstract specification of what the notification service
promises (accepted, then handled or reported) and of the correlation index, each
with its refinement proved as that of the ledger is; the incident service
composed with the Postgres repository, once the server wires that one.
