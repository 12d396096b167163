# Travel Watch in TLA+

Models of the services of Travel Watch, checked by TLC on small instances and, where marked, proved with TLAPS for every instance. Each module follows the Go code and the SQL it sends; `PROJECT.json` maps every definition to the lines it stands for.

## 1. The system and its parts

An owner saves a trip in **Cabinet**. Cabinet tells **Search** of it through an outbox and Kafka; Search builds route schemes from its sources, then asks timetables for journeys along them, and reports its progress back to Cabinet, again through an outbox and Kafka. Each service has a PostgreSQL database of its own and several kinds of process (`serve`, `publish-outbox`, `consume-progress` of Cabinet; `consume-trips`, `build-routes`, `publish-progress`, `results` of Search). Everything is delivered at least once, and processes may stop between any two transactions.

| Part | State | Operations | What makes it correct | Module |
| --- | --- | --- | --- | --- |
| Trips and expiry (Cabinet) | `trip_requests`, `outbox_events` | create under a key, list, cancel, expiry passes of several `serve` processes | a trip and the events sent about it agree; a repeated creation gets its trip; overdue trips end | `CabinetTrips`, `TripApi` |
| Progress projection (Cabinet) | stage, revision and history of a trip | `ApplyProgress`, events in any order, more than once | the owner sees the newest stage; no event stops the consumer | `CabinetTrips`, `TravelWatch` |
| Outbox relay (Cabinet) | `outbox_events` rows, leases, retry times | claim, publish, acknowledge, retry | published means in the topic; a stuck event does not starve others | `OutboxRelay` |
| Accounts, sessions, login limit (Cabinet) | `users`, `sessions`, a table in memory | register, log in, log out, clean up | a session ends when its owner is told so; nothing is half done; each window of an address admits at most the limit, any span of that length less than twice it | `Sessions` |
| City and airport catalogs | snapshots | download, validate, publish | readers see one snapshot; older or shrunken ones are refused | `Catalogs` |
| Inbox (Search) | `inbox_events`, `search_requests` | created, cancelled, expired, in any order, with tombstones | the state depends on the set of events only | `RouteBuilding` |
| Route building (Search) | `route_building`, `planner_runs`, `progress_outbox` | claim under a lease, two concurrent sources, barrier, exhaustion, cancellation | job, sources and history agree through every race; it always ends | `RouteBuilding`, `RequestLifecycle` |
| Progress publisher (Search) and its consumers | leases of `progress_outbox`, offsets | claim, publish, acknowledge; fetch, apply, commit | no event is skipped, every one is shown or overtaken | `ProgressDelivery` |
| Graph planner (Search) | none outside its run | call Collector under budgets, keep schemes | schemes are there to be found; what is cut is told | `GraphPlanner` |
| Gemini planner, route results, gRPC client, export | none | one call; group, page and read | a reply is taken whole or not; an export shows one moment | `RouteView` |
| Synthetic routes, journeys, evaluation | none | plan, compare, assemble | both planners agree unless a limit is told; journeys are those that can be made | `RoutePlanners` |
| Schedule checks (Search) | `schedule_checks` | claim, re-check, give up, save | a saved report survives failures and older outcomes; nothing is forgotten | `ScheduleChecks` |
| Schedule matcher and report (Search) | none | two search algorithms under limits; rows of all variants | what is found can be made; what is left out is reported | `ScheduleMatch`, `ScheduleReport` |
| Collector process and its providers | one child process, framed pipes, a bridge process | call, answer, kill, signal | an answer is that of its call; every call returns; nothing is left behind | `Collector` |
| Frontend, configuration, certificates | none | show and wire | | the export and the polling only |
| Notification | | | directories without code | not modelled |

The hard behaviours, listed with their lines under `hazards` in `PROJECT.json`:

- A claim reads the status of a request and locks another row, so a cancellation falls between the two (`planning.go`, `ClaimBuilding`).
- A process whose lease has lapsed still holds results; its job may have been claimed, cancelled or closed since (`FinishSource`, `FinishSchedules`, `AckOutbox`).
- Crashes at any attempt, up to the attempt at which a job is given up.
- Events of a trip that overtake each other in both directions.
- Expiry passes of several processes and the owner racing for one trip.
- A write to Kafka that timed out and lands later.
- A search that is cut by one of several limits or by its deadline.
- One refused event blocks a consumer at its offset.
- A consumer that stops between its transaction and the commit of the offset, and a partition that moves.
- Frames without names on a pipe whose owner, child and grandchild may each die alone.
- Overlapping requests of one browser, with answers that are lost after the commit.
- Pages read one after the other while what they show changes.
- Imports that overlap while the source renews its files.
- A check that nobody may touch any more.

## 2. The modules

Times are abstract. A lease is `none`, `live` or `lapsed`, and `LeaseLapses` lets it pass at any moment. A moment in the future (`available_at`, `next_check_at`) is a place in an order and a set of those that have passed. A process holds one job at a time, so its name stands for the random token of its claim. A transaction is one action where the row locks of the code make it so.

**`RouteBuilding`** has the inbox, the job and its two sources, the events and the processes. `ApplyCreated`, `ApplyCancelled` and `ApplyExpired` are the three branches of `Store.Apply`; an event that is already in `inbox_events` changes nothing and is not a step. `ClaimBuilding` is cut in two, `ClaimSelect` (its query reads `search_requests` in a snapshot) and `ClaimStart`, `ClaimExhausted` or `ClaimLost` (what it does once it has locked the row of `route_building`), since a cancellation may commit in between. With `ApplyExpired`, which does not touch `route_building`, the claim may thus start a job of a request that has expired meanwhile: the code does the same, and the order is as if the claim had come first. `FinishSource`, `DropResult` and `PollInactive` are what `MultiWorker.Step` does with a result and with the answer of `BuildingActive`. `progress[q]` is the list of the events of a request: a revision is a place in it.

**`RequestLifecycle`** is what Search promises, without leases, attempts, processes or events: the sources asked, what each found, the stage that follows. `RouteBuilding` implements it (`ImplementsLifecycle`), with the stages of `route_building`, its saved `planners`, and the runs that have ended as `found`.

**`CabinetTrips`** has the trips, the expiry passes and the projection. A pass reads a batch of candidates without locks (`ExpiryPass`) and then expires each in a transaction that reads the status again (`ExpireTrip`); an error or a stop ends it (`PassFails`). `Feed` gives the progress events a trip may receive, in any order; in the composition they come from Search. The status `completed` is in the schema and no code sets it.

**`OutboxRelay`** has the rows of `outbox_events` and the relays. `PublishFails` covers a refusal, a broker that is down and a timeout after which the write may still land (`WriteLands`) or not (`WriteLost`). `attempts` only sets the delay and is capped where the delay reaches `retry_max` (`Doublings`). `RetryOutbox` puts a row among the later ones according to its delay. `Leased` says whose lease a row is under; two relays may hold the same row, one of them in vain.

**`TravelWatch`** composes `CabinetTrips` and `RouteBuilding`. An event that is committed on one side may be consumed at any later time by the other (`ConsumeTrip`, `ConsumeProgress`): that is what the relays, the topics and the inboxes promise together. `Delivery` is the evidence for both halves.

**`ScheduleChecks`** has the rows of `schedule_checks` and the processes. `ClaimSchedules` gives up checks that were abandoned three times and then claims, in this order, a request never checked, an abandoned one, and the one whose next check came first; `ClaimNothing` is the same without a candidate. `FinishSchedules` saves, keeps the old report or drops the outcome; its comparison of `source_finished_at` always holds, since the run of a source that has ended never changes (`EndedRunsKept`), and is left out. The plan is the order of `next_check_at`; `PlannedBefore` is a place in it, `Others` the plan without a request. `Shown` is what `readSchedules` answers. `overtaken` is no state of the code but a history: the processes whose check another has claimed, or a claim has given up, since they began it. No guard reads it; `ReportKept` needs it to say that such a process saves nothing.

**`ScheduleMatch`** has one search along one scheme: `NarrowLeg` and `NarrowStart` are `narrowWindows`, the `Enter...` actions are the early returns at the top of `walk`, `TryNext`, `LimitReached` and `LegDone` its loop, `Report` its end. The brute matcher runs first and the windowed one after it on the same timetable, as `TestWindowedMatchesBruteForce` does; production runs one of them. Departures are kept as places in the timetable. The bound of `filterByArrival`, between the earliest and the latest next departure, is written with two existential departures. `Compatible` says what is to be found without any walk, window or limit. The scheme is taken as the last one of a check whose lists are complete and whose nodes meet.

**`ScheduleReport`** is the rest of `Checker.Check`: the days examined, the candidates and their access variants, `fetch` with its memo, its days on either side and its budget of calls (`KnownLeg`, `NewLeg`, `Call`, `Fetched`), and the rows with their state. Time is counted in days, since that is how timetables are asked. The matcher is its result, `Matches`: any part of the journeys if it is truncated or its deadline has passed, else all of them. That this is what the matcher does is `FoundIsThose` of `ScheduleMatch`, proved for every timetable and all limits.

**`GraphPlanner`** has the agenda of `Planner.Plan`: each task (a page of a search, of arrivals, a thread, a flight, a station, a path of Google) makes at most one call through `Answers`, which is `run.call` with its cache, its budget and its failures. A deadline passes at any point. Places are points on a line and radii are lengths; `Diverse` is the choice of `diverseAirports`. `Findable` says which schemes there are, without agenda, budget or order.

**`RoutePlanners`** has `GraphPlan` (patterns walked backwards under budgets, `build.go`), `Explored` (a walk forward without patterns, `exploration.go`) and the planner that replies with links (`Followed`), their common validation, the comparison, and `Assemble`. Each search is a recursive operator over paths, as the code has it, and an action is one call of a planner or one assembly with its outcome. Times are small numbers: only their order and their distance matter.

**`Collector`** has the owner (`Write`, `Read`), the two pipes, the process (`Take`, `Serve`, `Put`) and the bridge to Google Flights. `Answer` is what a provider shows of what it knows, page by page, and what it tells of the rest. The end of the owner's context kills the process (`Kill`), at any point; a signal reaches Collector alone.

**`ProgressDelivery`** has the rows of `progress_outbox`, the publishers, one partition and its consumers. A write that failed for its publisher may land later; a consumer that stops loses what it had not committed; `Rebalance` gives the partition, from its committed offset on, to another one.

**`Sessions`** has the handlers of `auth/http.go` in front of `auth/service.go` and the statements of `storage.go`. A request goes through its steps one statement or transaction at a time, between those of others. **`TripApi`** has `CreateTrip` with its advisory lock on the request id and `ListTrips` with its offsets: a page is the trips that have from `offset` to `offset + PageSize` trips ahead of them in `ORDER BY created_at DESC`, the one too many telling that there are more; **`RouteView`** what a source makes of its answers, what is saved, `GetRoutes` and the export of the page.

**`Catalogs`** has an import of cities or of airports as the code has it: download, read (the lines in any order), publish in one transaction whose batches are steps of their own, seen by nobody before the commit. A file is the set of its records, so two records that are equal in everything the model has are one.

Four modules compose parts that share no state, so that one run examines them under one specification: **`Delivery`** (`OutboxRelay`, `ProgressDelivery`, `Collector`), **`OwnerApi`** (`Sessions`, `TripApi`, `RouteView`), **`Planners`** (`GraphPlanner`, `RoutePlanners`) and **`CheckLimits`** (`ScheduleMatch`, `ScheduleReport`). A behaviour shows one part and leaves the others alone: interleaving parts without common state would only multiply states.

Each `MC...` module gives the constants their values; each `.cfg` is one run.

## 3. What the runs show

| Run | Instance | Properties |
| --- | --- | --- |
| `building_races` | one request, two processes (one with the graph source only, one with both), three attempts, four results | `AggregateBarrier`, `HistoryAddsUp`, `SilentAfterCancel`, `OnlyCurrentAttempt`, `ImplementsLifecycle` |
| `trip_races` | two trips, two `serve` processes, batch of one | `EventsTellStatus`, `OverdueEnds` |
| `services` | one trip through both services, two build processes with one source each, two attempts | `EndingsAgree`, `ProgressAccepted`, `ProjectionConverges`, `ActiveTripAnswered`, `CancelStopsSearch` |
| `delivery` | two relays and two events, one always refused; two publishers, two consumers and two progress events; seven calls of six methods to Collector, one refused, one too long for a frame | `MarkedIsInTopic`, `CommittedIsApplied`, `AnswersAreTrue`, `EveryEventPublished`, `ProgressArrives`, `CallsReturn`, `NothingLeftRunning` |
| `schedule` | two requests, two processes | `ShownIsSaved`, `NothingForgotten`, `ReportKept`, `ChecksMade` |
| `check_limits` | search: a transfer, a train, a transfer, a flight, a train and a transfer, each of the 512 timetables out of three departures per leg, under a limit of thirteen steps, two journeys and one per day, and a deadline; report: seven saved graphs, two timetables, six sets of limits, two calls not answered in full | `FoundIsThose`, `NarrowingIsSafe`, `MatchersAgree`, `RowsAreTrue`, `CompleteIsAll` |
| `planner_limits` | building: two networks of nine airports under five sets of limits, two failing calls and a deadline; comparing: nine maps, six budgets, seven replies, three timetables | `SchemesHold`, `CutIsTold`, `PlannersAgree`, `JourneysAreThose` |
| `owner_api` | sessions: two browsers, three requests under way, three scripts; trips: three or four forms, pages of one; routes: plans and replies at and beyond each limit, pages of two | `AttemptsBounded`, `SignedOutStaysOut`, `NothingHalfDone`, `RetriesAgree`, `PagesSkipNothing`, `ExportIsWhole` |
| `catalog_imports` | three imports by two processes, two versions of the files, batches of two rows | `ShownIsOneImport`, `NeverOlder` |

The property comments in the modules say what each one means.

### Why the bounds are enough

- Rows of different requests touch only through the choice of a claim, so the races of a job are checked on one request; schedule checks, where requests take turns, on two.
- Two processes make every hand-over: one that lost its lease and one that has it. A third adds no new pair. Different `Members` let a job be continued by a process with other sources.
- Three attempts are the default of the code and cover first, middle and last; the results are the two ends of the count, with and without an outcome. Through both services two attempts are enough for one to be late and one to be the last, and two processes with a source each for a job to be continued by one that would not have started it.
- One event the broker takes and one it refuses make every order the relays can meet: the refused one in front, behind, leased and waiting. Delays of the outbox stop growing after two doublings, so a row goes through each kind of position.
- `Rechecks = TRUE` covers re-checks; without them the plan is empty and the claims that remain are a subset.
- The timetables mix waits of exactly the least and the longest length, journeys longer than allowed, departures outside the request and dead ends; the limits on steps, journeys and days are each reached in some and not in others. Three legs are the fewest for which a window follows from a narrowed one.
- The report, the planners and the collector's calls are cut by limits: each limit is given a value out of reach once and one that bites once, alone, so that what is lost can be told from what was never there. Two failed calls are enough to fail a call, and another that depends on it or stands beside it.
- Two publishers, two consumers and two events make the older event overtake, be overtaken, repeat and be skipped if it can be; two faults let a late write meet a lost lease.
- Three requests of a browser under way are a login between another login and a logout. A window of two attempts, with room for one address, makes the table full and its entries end one after the other.
- Three imports are one that is shown, and two that race for replacing it.

### Fairness

- Leases lapse and planned moments come (`WF` of `LeaseLapses`, `BecomesDue`): time passes.
- In `TravelWatch` a `build-routes` process polls for ever: for jobs when idle, for its job being still active when busy (`WF` of `Claims`, `PollInactive`). Nothing says that a source answers or that a process lives; attempts are what makes building end. Events are delivered in the end (`WF` of `ConsumeTrip`, `ConsumeProgress`), which is `EveryEventPublished`, `ProgressArrives` and consumers that are restarted. Neither the owner nor expiry need ever act.
- An expiry timer fires for ever, and its transaction does not fail every time (`SF` of `ExpireTrip`).
- In `OutboxRelay` a broker that is up answers within the lease again and again (`SF` of `Answered`); the configuration requires a lease longer than a publication and two transactions. A relay that runs on finishes what it claimed.
- In `ProgressDelivery` processes that run go on (`WF` of the steps of each publisher and consumer) and the group gives a partition without an owner to somebody (`WF` of `Rebalance` then); faults are bounded by `MaxFaults`, since a broker that never takes a write delivers nothing.
- In `ScheduleChecks` every check may be cut short by a crash (`Finishes \/ WorkerStops`): giving up is what ends it.
- In `Collector` the two processes run, a provider answers or times out (its client has a timeout), and the bridge is killed or ends. Deadlines and signals need not come.

`CHECK_DEADLOCK FALSE` is set where a system of finitely many trips comes to rest.

### Runs that find a disagreement

| Run | What it shows |
| --- | --- |
| `expired_check_runs_on` | When a request expires during the first or second attempt of a check, nobody may save, claim or give up that check: it is shown as running for ever and the page polls for ever. |
| `deadline_is_no_match` | A deadline that passes during the last search of a check leaves a scheme as `no_match` in a complete check. |
| `login_window_edge` | `docs/specs/cabinet-auth.md:17` promises "не более 10 попыток в минуту на адрес соединения". A window of `limiter.allow` opens with an attempt, and the next one starts from nothing, so attempts late in one and at the start of the next come to more than the limit within a minute: three where two are allowed in the run, up to 19 as shipped. `AttemptsPerWindow` is the promise; `AttemptsBounded`, with twice the limit less one, is what the code keeps. |

More differences were met while the models were written, and have no run:

- `MaxJourneysPerDay` is read only when a first departure is taken (`match.go:115`), so its connections may exceed it; `docs/ops/schedules.md:26` says no more than five on one day. A run of an earlier state of these models showed it with a limit of one.
- The graph planner stops reading the threads of arrivals at its budget of discovery, and does not say so when this falls on the end of a page (`planner.go:138`); `docs/ops/route-planner.md:34` says that `limit_reached` marks every cut. `CutIsTold` therefore speaks of plans that read all arrivals (`ArrivalsRead`). It also looks up one thread of a number and joins one flight of a pair of airports (`planner.go:111` and `:156`), which loses nothing only if a number, and a pair, stand for one flight (`NamesTell`).
- A settlement that the provider answers with no or several places drops the trains of the origin without a failure or a limit (`planner.go:49`); an invalid path of Google Flights is counted as a failure of the provider.
- The time of an airport import is that of the start of its download, so of two imports the one that began later wins even if it holds the older file; imports of cities have no such comparison at all, and the last one to commit is shown.
- A list of the active trips, paged by offset, may skip a trip when another one ends between two pages; `PagesSkipNothing` speaks of the list of all trips.
- A re-check that is given up after three crashes keeps the old report and sets no `refresh_failed_at` (`ClaimSchedules`), while migration 00007 and `docs/ops/schedules.md:46` say that a failed re-check with an earlier result records it. `GivenUp` and `Saved` in `ScheduleChecks` keep the two apart.
- After the last allowed journey the brute matcher enters a dead end the windowed one has dropped, and alone reports a truncation; `match.go:110` says that both must report the same.
- When the brute search runs out of combinations the windowed one may return journeys it does not; `docs/ops/schedules.md:27` calls the results identical and `match_test.go:66` knows they are not. `MatchersAgree` therefore speaks of searches that did not run out, and only of their journeys.

## 4. What is proved

Eight modules `...Proofs` hold the theorems; each extends the module of its name, `PlannerProofs` extends `GraphPlanner`, and `ScheduleProofs` both `ScheduleChecks` and `CheckLimits`, whose names are kept apart for that (`ChecksSpec` and `Spec`). All of them are about every value of the constants under the named `ASSUME`s of that module, which say what the configuration and the schemas of the code ensure. Some name bounds that the code has and a reader may miss: a source has two versions of its files (`UpstreamsAssumption`); `MaxAttempts` is at most ten, as `config/progress.go` requires; the departures of a leg come in order and each arrives after it leaves (`TimetablesAssumption`); no transfer or buffer is negative (`DurationsAssumption`); the date of a station is at most a day off from that of the origin, which is what the days on either side of the period are for (`WorldsAssumption`); only candidates that have legs have access variants (`InputsAssumption`); an answer of Collector has at least one page, pages are finite, a Google path has at least one flight, and a catalog places its airports (`WorldsAssumption` and `CatalogAssumption` of `GraphPlanner`). In each, the invariant that is inductive was first checked by TLC on the instance of its run (that of the planner, whose tasks cannot be listed, task by task over random behaviours).

**`RouteBuildingProofs`**, for any requests, processes, results and number of attempts.

- `TypeCorrect`: `TypeOK`. Inductive with `Selected`: a process that has selected a job has a request, so the job it reads exists.
- `OrderOfEventsIrrelevant`, `BarrierHolds`, `ClaimsStartSources`, `CancellationWins`: the invariants `StatusFollowsInbox`, `AggregateBarrier`, `MembershipValid` and `CancelWins`.
- `CancelledIsSilent`, `EndedRunsKept`: the action properties `SilentAfterCancel` and `RunsKept`.
- `StaleResultsDropped`: `OnlyCurrentAttempt`, from the types and `OwnAttempt` (a process works for the attempt it claimed): whoever has lost the lease is no longer the holder, so what it brings changes nothing.
- `LifecycleImplemented`: the refinement of `RequestLifecycle`, step by step.
- `HistoryIsConsistent`: `HistoryAddsUp`.

None of these is inductive alone. The invariant is `Inductive == Typed /\ StatusFollowsInbox /\ Consistent /\ MembershipValid`. `Consistent` relates the job of a request to its runs: a queued job has no runs and no saved sources, a building one has a run of each saved source and at least one open, a closed one has the stage that summarises its runs, a cancelled one has none open, and `CancelWins`. With it, a claim of a lapsed job finds an open run to start again (`ClaimsStartSources`), and closing a job when its last run ends gives the stage of the summary (`BarrierHolds`).

The refinement and the history need more: what an action does to a request is one of six `Changes` (nothing, queue, cancel, start, report, exhaust), shown once for all actions; `Rows` (the marks of rows and runs agree with their stages) makes each change a step of `RequestLifecycle` or a stutter, and `Histories` says what the events tell of the rows: for a source an end exactly when its run has ended, with its count; for the stage as a whole an end after those of its sources, with their sum.

**`CabinetTripsProofs`**: `SearchIsTold` (`EventsTellStatus`) and `OwnerSeesNewest` (`ProjectionIsNewest`, an invariant of its own: an active trip shows the event of the whole stage with the greatest revision that has arrived, in any order). The second comparison of the status in `ExpireTrip` is what makes the step of a pass keep the first.

**`TravelWatchProofs`**: `EndingsAreTheSame` (`EndingsAgree`), `ConsumerNeverRefuses` (`ProgressAccepted`) and `OwnerSeesSearch` (`ProjectionConverges`), over the composition. A step of the composition is a step of a service, or hands an event over; so the invariants of both services, taken from the proof modules of each by `INSTANCE`, hold here, and only `Linked` is new: Search has taken what Cabinet has committed, Cabinet has received what is in the history of Search, each under its own revision, and a trip runs once an event later than `queued` has reached it. That a cancelled stage never reaches an active trip follows from the three together.

**`DeliveryProofs`** has the three protocols between processes. `MarksAreTrue` (`MarkedIsInTopic`) and `OffsetsAreTrue` (`CommittedIsApplied`). A relay or publisher says that it has published only after the write has landed, and what has landed stays; a consumer has applied everything from the committed offset to its own. Neither depends on queues or leases, so duplicates, lost leases and late writes need no case of their own. `AnswersAreTrue` of `Collector` is `AnswersAreTheirs`, for any calls and whatever the providers know: a frame has no name, so what keeps an answer with its call is `PipeInv`. As long as the owner has not turned deaf, what can be read from the two pipes and the process is of the one call in hand (`OneCall`), and every reply is true of its call (`IsReply`); once an answer was not waited for, nothing is read any more.

**`ScheduleProofs`**, who makes a check, for any requests and processes, and what a check brings, for any timetables, limits, graphs and answers.

- `DoneHasReport` (`ShownIsSaved`), `EndedIsPlanned` (`NothingForgotten`) and `ReportsAreKept` (`ReportKept`), over `ChecksSpec`. `Inductive` adds to the types that a row that says `done`, or that its refresh failed, has a saved report. The lemmas about `Others` and `Replanned` show that planning a request again loses no other, for which the requests must be finite (`RequestsAssumption`). That an overtaken process saves nothing rests on `TokensGone`: it is still at its check and the row is no longer under its token, which stays so through every later claim because a claim only puts the name of a process that had no check (`ClaimsOvertake`).
- `WindowsAreSafe` (`NarrowingIsSafe`): narrowing never drops a departure of a journey that can be made. The invariant `Windows` adds the types of what is narrowed. The one step that matters is `ConnectionInWindow`: the next departure of the journey is itself a witness for both ends of the window, and it has not been dropped because the legs are narrowed from the last one back.
- `SearchFindsThose` (`FoundIsThose`) and `MatchersReturnTheSame` (`MatchersAgree`), from `MatchInv`. A walk passes the journeys in the order of their departures (`Less`). `Walking` says of where it stands that the path in hand is a beginning of a journey (`Begins`), that the list is of journeys, in order (`Met`), and that each journey the walk has passed is settled: in the list, or shut out by a limit that was reached, or lost to a deadline or to the steps (`Settled`). The second is what is hard: the path moves on by one departure or goes back by several at once, a window may have dropped a whole branch, and a limit that shut out a journey must still do so after the list has grown (`LimitStays`). What a search returns is then a matter of the timetable alone: a journey is in the list exactly if fewer than the allowed ones come before it, in all and on its day (`TakenOnly`), and two lists of which this is true are the same (`SameLists`); neither matcher is compared with the steps of the other.
- `RowsTellTheTruth` (`RowsAreTrue`) and `CompleteReportsHaveAll` (`CompleteIsAll`), from `ReportInv`: what the memo has of a leg is in the timetable, and all of the period where it is marked whole (`Memory`), which for a call under way holds up to the day in hand (`Calling`); the row in hand has just what the memo has (`LegsInHand`); the rows are those of the places passed, one each (`Reported`), and true. The days on either side of the period are enough because a station's date is at most one off (`DaysBetween`).
- `EachPartIsItself`: the composition is a behaviour of the search and one of the report, so the theorems about the search hold in it.

**`OwnerApiProofs`**: six theorems over `ApiSpec`, from `ApiOK`, the conjunction of `SessionsOK`, `Windows`, `TripsOK`, `ListOK` and `RoutesOK`.

- `LimitHolds` (`AttemptsBounded`): fewer than twice the allowed attempts of an address in any span of a window, which is what a fixed window can keep (section 3, `login_window_edge`). For an open window (`Window`) there are attempts that it counts, one of which opened it; those before it that are still recent are too few to fill another. An entry that makes room for another address has ended, and with it its window (`TickWindows`, `AdmitWindows`).
- `EndedSessionsStayEnded` (`SignedOutStaysOut`) and `WritesAreWhole` (`NothingHalfDone`): a token is minted by one request, only the commit of that request makes it a session, and a browser can send only a token that it was told; so a session that has gone, or was replaced, cannot come back.
- `RepetitionsAgree` (`RetriesAgree`): of the transactions of one key only one is past the advisory lock, and one that goes on to insert has seen that there is no trip, which stays so until it commits (`Serialized`).
- `NoTripIsSkipped` (`PagesSkipNothing`): what was there at the first page and has not been seen has at least `offset` trips in front of it (`Walked`), because no trip leaves the list of all trips and those that commit late only push others back. That a page of ranks has no gap (`NoGaps`) needs only that the order of creation is a total one on finitely many trips.
- `ExportsAreWhole` (`ExportIsWhole`): the revision of a building only grows and a saved result of a revision does not change (`past` has what each revision showed), so a reader who goes on while the revision stays the same has read pages of one and the same moment; what it has of each source so far is the beginning of the schemes of that moment (`Read`).

**`PlannerProofs`**: `SchemesAreThere` (`SchemesHold`), for any catalog, answers and budgets: whatever was cut, failed or came late, each scheme that is kept can be pieced together on the map, is kept once, and names only dates on which its flights were seen. The agenda is what has to be understood. `Tasks` are those that may ever be on it: a search is one of those that `Begun` lists, for a page there is, with legs of that connection; what a search has found is put to a purpose it serves (`FoundServes`: a feeder to the airport where the flight in hand starts, a flight into the destination); trains are only looked for where the city is known; a path to be noted or added was seen for its pair of airports on its dates. The invariant `Planned` says that the agenda holds such tasks, that the flights, paths and ways known are those of the map, and that the schemes kept are `Sane`, and each action keeps it by a lemma of its own. `NewCandidate` and `NewVariant` show that `add` keeps a scheme once, also where it joins a group of feeders: the key of a group determines all of a scheme but its first leg. The orders of airports and flights (`Ordered`) are proved to be lists of what they order, for which `FirstTo`, `Diverse` and `NearestFirst` must be strict orders (`PlacesAreTaken`: in a finite set each place of a strict order is taken), and `FlattenSeq` of lists to be a list of what they hold, from the equation it chooses a solution of.

`CutsAreTold` (`CutIsTold`) is the other half: a plan that tells of no cut, no failure and no empty page, is not out of time and has read every page of arrivals has left nothing out. Its invariant `Telling` follows what there is to find through the tasks that lead to it, and holds besides `Planned`. What the ledger tells is never taken back (`Worse`), so such a plan was one at each earlier step, and `Covered` can say of it: each direct flight is seen as a scheme, or is brought by a task still to come (`Brought`: a leg to use, a search with pages left on which it is, stations with a train that has it); so is each flight into the destination, each leg to the airport a flight taken starts from, and each way to an airport from which a path was seen (`Sought`); what of an answered page of arrivals has not landed is a thread still to look at, and what lands of a number looked up has landed; each flight that came in is still to be joined or its pair is taken; each path of a date is noted or is to be, and each noted path is after each known way, or a round that adds it is still to come. What makes it inductive is the order of the agenda (`Orderly`): the city is asked for before anything that needs it, flights are sorted after the last was looked for, ways looked for after the last path was noted, and paths joined after the last way was looked for, and one airport of the destination is read at a time, so that starting the next may forget the numbers of the last. Each action has a lemma of what it does (`SearchPageDoes`, `ThreadDoes`, `FlightDoes`, `CombineDoes`, ...) and each part of `Covered` one that it stays (`ListedStays`, `TakenJoinedStays`, ...). When the agenda is empty nothing is still to come, and every way into `Findable` ends in `seen`, which `Planned` says is what is kept.

**`CatalogsProofs`**: `ShownIsWhole` (`ShownIsOneImport`) and `NewerReplacesOlder` (`NeverOlder`), for any files, processes and limits. While the lines are read, what is chosen of each thing is the best of the lines read so far (`BestOf`), since `Better` is a total order whatever the order of lines; the draft of a publication shows just the rows written (`DraftTold`); one process at a time has the lock (`OneWriter`), so what it was compared with is still shown when it commits (`StillAcceptable`), and the count it was compared with is the number of rows shown, which is part of `ShownIsOneImport`. This proof found two gaps in an earlier state of the model: the repeated identities of cities and codes of countries and regions that `Validate` and `Load` refuse, without which a region could be shown under another's name, and a property that compared the numbers of names only below ten.

### Only model-checked

- All liveness properties: they rest on fairness, which the prover does not treat.
- `PlannersAgree` and `JourneysAreThose`: `RoutePlanners` declares recursive operators, which are out of the prover's reach, and so it and `Planners` stay with TLC for good; no other module has any.
- What a recursive function computes. Facts about natural numbers are proved by the least counterexample where they are needed (`Smallest` in `ScheduleProofs` and `PlannerProofs`), since the library's induction theorems take an operator that no installed prover can instantiate.
- What a run says of a bound is not more general for being next to a theorem: the theorems hold of the models, whose abstractions section 2 names.

## 5. What is not modelled

- The contents of trips and reports as far as they are only shown, prompts, formats of numbers and times, geometry on the sphere.
- The locks inside a transaction. `FinishSource` and `ClaimBuilding` take `search_requests` and `route_building` in opposite orders; PostgreSQL ends such a deadlock by failing one transaction, which here is a process that stops.
- `FOR UPDATE SKIP LOCKED`: a claim takes the first row that is free. Two claims at the same instant would take the first two.
- More than one Kafka partition: the events of a request have one key, and so one partition.
- The consumer of Search message by message: it is the loop of `ProgressDelivery`, and in `RouteBuilding` an event may come again at any time.
- The single-source `Worker` and `FinishBuilding`, which no command starts any more.
- Fixtures of the synthetic planners, the report of the experiment, the station lookup and the test provider of Collector: manual tools and formatting.
- Generated code (`src/gen`), certificates, configuration files, and the frontend but for its export.

## 6. Plan

The runs are twelve, nine that pass with forty properties and three that find a disagreement, each with one; what a run no longer checks is either proved (see 4), part of a property that says more (`ChecksMade` of the first checks and re-checks, `FoundIsThose` of what is found and what is left out, `MarkedIsInTopic` of both ways, `ProgressAccepted` of the contract and the projection), or asked of the composition (that building ends is part of `ActiveTripAnswered`).

Theorems: every invariant of the runs that is in the prover's reach is proved. What is left of worth is that `RouteBuilding` and `GraphPlanner` together keep what `RouteBuilding` takes from a planner.

Models: the row locks of `ClaimBuilding`, `FinishSource` and `Apply` with the deadlock detector of PostgreSQL, to show that no transaction is lost.
