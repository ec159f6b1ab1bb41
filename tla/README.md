# A verification development for wasmrunner

wasmrunner (`src/src/`) is a small supervisor: it starts the services found
under `services/` as WasmEdge processes, routes HTTP requests to them, calls
some of their endpoints on a schedule, delivers messages between them over
in-memory queues, and shows it all on a dashboard on port 14000.  This
directory holds TLA+ modules of its behaviour, configurations with which TLC
checks them on small instances, and proofs that TLAPS checks for every
instance.

## 1. The system

### Processes and threads

`run_high_level_runner` (`src/src/lib.rs`) loads the configurations, fills the
log and memory stores, spawns the instance threads, starts the health poller
and the schedule threads, creates the statistics and the queue registry, and
then serves requests for ever.  What runs from then on:

- **one server thread** (`run_server`): it takes requests from the unbounded
  FIFO queue of `tiny_http`, one after the other.  While it waits for a service
  nothing else is answered.  Calls for proxied requests and deliveries have no
  timeout; only the manual run of a schedule has one, of five seconds;
- **one thread for each schedule** (`run_schedule`);
- **one thread for each instance** (`run_module_with_output`), and for each
  process one memory probe and two log forwarders;
- **one poller** (`start_health_monitor`);
- **the services**, separate processes that serve any number of calls at once
  and whose webhooks call the runner's queue endpoint while they are being
  called by the runner;
- **the pages** of the operators, in browsers of their own, whose requests wait
  in the queue of the server thread like all others and whose answers arrive in
  any order or not at all.

### Components

| Component | State | Operations | What makes it correct |
|---|---|---|---|
| Entry server, `server.rs` | the request queue, the call it waits for | proxy, publish and deliver, toggle, manual run, pages answered on the spot | every request is answered, in order; one order of messages for all subscribers; an acknowledgement means that all were offered the message; what was proxied is in the statistics |
| Round-robin router, `server.rs` | a `usize` counter per service | `next_base_url` | every copy has its turn, also when the counter wraps |
| Queue registry, `queue.rs` | subscribers, `message_count`, `instantiated` of each queue | `register_listener`, `prepare_delivery`, `snapshot` | a listener hears a message once however often it is declared; the counter saturates |
| Webhook scheduler, `scheduler.rs` | `ScheduleState` of each schedule in one mutex; countdowns local to the threads | `run_schedule`, `toggle_schedule`, `trigger_schedule_now` | shown results are whole; pauses stick; a full interval before each call; a thread never ends |
| Instances and probes, `process.rs`, `memory.rs` | processes, stop flags, one memory entry per service | spawn, exit, probe, join | the shown usage is of a running probe; threads end after their process |
| Health poller, `health.rs` | status of each service | poll of `base_url/health` | a service at whose base URL nothing answers any more is shown so |
| Configuration, `config.rs` | the list of services | `load_services` and its checks | all or nothing; routes do not depend on the order of directories; schedules can run; limits and ports survive their conversions |
| Statistics, `stats.rs` | counts by endpoint, minute, status | `record_http_status`, `snapshot` | what is in the window is counted, whatever the clock does |
| Log store, `logs.rs` | a bounded deque per service | forwarders, `record_log_line` | the latest lines, without gaps |
| Services, `src/services/*/src/main.rs` | none that outlives a call | dispatch an endpoint, publish events one by one, answer | there is a handler for everything the runner calls; success is reported only if an event was accepted |
| Dashboard, `dashboard.html` | on each page: the state shown of each schedule, the disabled buttons, the load it belongs to | load, press, an answer arrives or is lost | a page that knows of the last toggle shows what is so; it does not go back |
| Command line, `main.rs` and `detect_invocation`; `scripts/` | none | argument parsing, shell | not modelled (section 7) |

### What is hard

- The server thread and the services wait for each other: a webhook publishes
  to the runner, and awaits its answer, in the middle of being called by it.
- Schedule threads, toggles and manual runs write the same entries in separate
  critical sections, with calls to services in between.
- A call that timed out is over for the runner but not for its handler: events
  that it sent stay in the request queue, and are delivered.
- Probes of the copies of one service share one entry and end in any order.
- Services fail, end and are never started again.
- A port belongs to whichever process binds it first, of the service that was
  meant, of another one, or of an earlier run that left its instances behind.
- Pages show what they were told, by a thread that may be busy, over
  connections that overtake each other, while other operators press the same
  buttons.
- Configurations, OpenAPI documents and the sources of the services are written
  apart and must agree: declared paths, listener paths, prefixes, ports.
- Counters, windows and limits: `usize` wrap-around, `u64` saturation, the
  conversion of megabytes to `u32` pages, the last port, the window of an hour
  under a clock that may be set back.

PROJECT.json lists each of these hazards at its line, with the properties that
are about it.

## 2. The modules

| Module | Models | State against the code |
|---|---|---|
| `Scheduler` | `scheduler.rs` | `schedules` is the shared map, `thread`/`remaining` the locals of `run_schedule`, `trigger` the server thread inside `trigger_schedule_now`, `clock` is `Instant::now()`. One action for each critical section and each stretch between two of them. The outcome of a call is a parameter of the actions. |
| `QueueRegistry` | `queue.rs` | `queues` is the map of `QueueInfo`; a missing entry is the default one. `RegisterListener` is one pass of the start-up loops, `PrepareDelivery` the call of `handle_queue_publish`. |
| `RoundRobinRouter` | `RoundRobinRouter` of `server.rs` | `counters`; `Modulus` is 2^w of the `usize`. `waits` is a history variable. |
| `QueueBroker` | nothing in the code: the abstract promise of the queue endpoint | messages are accepted in one order, each is offered once to every subscriber, then acknowledged, then the next. |
| `Runner` | `run_server`, the handlers of `server.rs`, the schedule threads and the handlers of the services | `requests`/`taken` are the queue of tiny_http and the server thread's place in it, `server` the call it waits for, `calls` every call made so far with the progress of its handler. It contains the three modules above by `INSTANCE`: `TakePublish` is `Registry!PrepareDelivery` and more, `TakeProxy` is `Router!NextBaseUrl` and more, the schedule actions are those of `Sched` with the outcomes of real calls. |
| `Instances` | `lib.rs`, `process.rs`, `memory.rs`, `health.rs` | `loaded` is what `load_services` returned, chosen in `Init`; one program counter for main, each instance thread and each probe; `child` is the process, `others` the ports that programs other than the instances listen on, `memory` the shared entry, `poller` a poll that has its result but has not written it. Whoever listens on a port answers there (`Answered`). |
| `ServiceConfig` | `config.rs`, `resolve_service_route`, `lookup_memory_page_limit` | a configuration is a record of its JSON fields; a text is a sequence of tokens, among them `/` and a blank, because trimming is what the properties are about. `services` is the vector that `load_services` fills, in the order of `read_dir`, then sorted. |
| `Gateway` | the dispatch of `handle_request`, the endpoints of the programs in `services/`, the ports | extends `ServiceConfig`: whatever was loaded is served. `owner` is the service whose process has bound each port, `exchange` one request, schedule run or health poll with its calls and its status. An exchange is one step; how exchanges wait for each other is in `Runner`. |
| `StatsStore` | `stats.rs` | `data`, with the clock as an environment action; `StatsSnapshot` is what is shown of it. |
| `LogStore` | `logs.rs` | `store`, and each forwarder between its read and its write. Services write to their streams and close them as they end; `Seeds` are the streams that `seed_log_store` has complete in memory. |
| `Dashboard` | the script of `dashboard.html`, and what the server thread answers it | `requests` and `running` are the server thread as the pages see it, `answers` the responses on their way, `shown`, `waiting` and `load` the pages. The scheduler is `INSTANCE Scheduler`: the pages press on the real schedules while their threads run. |

The `MC...` modules give the constants values for TLC: `MCServiceConfig` the
synthetic configurations, `MCGateway` on top of it the repository's own services
and the requests, `MCStores` the five components that `stores` moves one at a
time.  The `...Proofs` modules hold the theorems: `SchedulerProofs`,
`QueueRegistryProofs`, `InstancesProofs`, `DashboardProofs`; `ServiceConfigProofs`
for `ServiceConfig` and `Gateway`; `StoresProofs` for the router, the statistics,
the log lines and their composition in `MCStores`; and, for `Runner`,
`RunnerProofs` with `DeliveryProofs` on top of it.  A definition marked *Fault*
is a plausible bug, with the same parameters as the definition after it: with it
in place TLC finds the property that PROJECT.json pairs it with violated.

### Requests and calls in `Runner`

A request is of one of five kinds: `proxy`, `publish`, `toggle`, `run`, and
`local` for everything that is answered without a call (the dashboard, /health,
logs, statistics, OpenAPI documents and all rejections of `handle_request`).
Its sender is a client or the handler of a call.  A call is to an endpoint, and
`Events` says to which queues that endpoint publishes before it answers.  The
handler publishes its next event, awaits the answer, counts it if it is a 202,
and in the end replies 202 if at least one was accepted and 500 otherwise, as
`trigger_orders_webhook` and `trigger_customer_update_webhook` do.  A handler
whose connection the runner has given up may be dropped, or may go on; hyper
allows both.  `Healthy = FALSE` lets services fail at any point, bodies break
off, publications be rejected and timed calls time out at any point.  With
`Healthy = TRUE` a call with a timeout still runs into it when its handler
waits for the runner.

## 3. What the runs check

| Run | Instance | States | What it shows |
|---|---|---|---|
| `scheduler` | two schedules, intervals 1 and 3, two runs of each thread, a manual run | 167,967 | results are whole (`ResultOfOneRun`), pauses stick, a full interval precedes each call, at most one late start after a pause, threads never go back in time and never stop |
| `scheduler_monotone` | the same | – | *violated:* a manual run may replace a newer result |
| `runner` | three services, one of two runners, a webhook that publishes to two queues, one schedule, one client, failures of every kind | 1,051,770 | the safety of the composed system, and that it implements `QueueBroker` and `Scheduler` |
| `runner_live` | the same with one event, two clients, healthy services | 128,155 | `AllAnswered`, `SchedulesKeepRunning`, `OwnEventsWait` |
| `runner_health` | the same | – | *violated:* /health is never answered again |
| `runner_manual` | the same, clients ask for no webhook | – | *violated:* a manual run of a healthy webhook fails |
| `instances` | one service with two copies, or two services whose URLs name the same port; another program may take that port | 461,948 | `UsageIsLive`, `RunnersEnd`, `DownIsShown` |
| `config` | the repository's own services, and three directories with any of 15 configurations, in every order; then some forty requests, the schedules and the health polls, one exchange after the other | 64,854 | the types and five properties of loading, routing and conversion; `PublishedAsAsked`, `CallsAreServed`, `ForwardsDeclaredOnly` |
| `config_prefix` | the three directories | – | *violated:* a prefix that begins another prefix takes its requests |
| `gateway_template` | the repository's own services | – | *violated:* a declared path with a parameter is answered 404 |
| `gateway_ports` | the same, the first with the three runners of the README | – | *violated:* a call reaches a process of another service |
| `stores` | three queues and four listeners with a duplicate, services of 1 to 4 runners with counters of 4 bits, a window of two minutes of two ticks with a clock that jumps, four streams of two lines into deques of three, two pages that load twice with two presses | 728,670 | `EachListenerOnce`, `EveryRunnerInTurn`, `CountsTheWindow`, `ShowsLatest`, `PageIsCurrent`, `NeverGoesBack` |

`stores` holds five components that share no variable.  The run moves one of
them and leaves the others at their start: their interleavings would multiply
the states and add no behaviour of any.

### Why the bounds are enough

- *Schedules.* An interval of 1 is the boundary of the countdown, 3 is one
  where a pause can fall into the middle of it.  Two runs of a thread let a
  result replace another one, with a manual run between them.
- *Runner.* Three services give a subscriber with and one without a runner of
  its own choice; the duplicate listener and two subscribers let a delivery
  fail half-way.  The webhook publishes to two queues, so that one of its events
  may be accepted and the other not.  The message counter saturates at 2, within
  reach of a client, a schedule and a manual run.  One client is enough for
  failures since the webhook of the schedule publishes at the same time; the
  deadlock and the liveness need a second request behind the first, hence two
  clients, and one event.
- *Registry and router.* The duplicate listener is declared with another one in
  between.  16 is no multiple of 3, so that the wrap is irregular for one
  service and regular for others.
- *Instances.* Two copies are what it takes for two probes to share an entry, and
  two services with one port what it takes for one to be polled at the other's
  process.  The other program contends for the first port, that of a base URL,
  from the start or later.
- *Configuration.* Three services are enough for a pair and one beside it; every
  check of the code has a configuration on each side of it, and the numeric
  limits (ports, pages, megabytes) are small constants with the same relations
  as the real ones.  Requests go to every branch of `handle_request` and to
  every kind of endpoint of every program, with and without parameters, extra
  slashes and a query.  An exchange changes nothing that another one reads, so
  one at a time is all there is to see here.
- *Statistics and logs.* The clock spans twice the window and starts at 0, where
  the subtraction saturates; four records per behaviour allow two endpoints to
  alternate.  Three streams write more lines than the deque holds.
- *Pages.* Two loads let a reload race with the answers to the page before it,
  two presses let both pages toggle the same schedule or one page toggle while a
  manual run is under way.  One run of each kind replaces a result by an older
  one.

Runs of `config` and its violations, `runner_live`, `runner_health` and `stores`
do not check for deadlock: log streams and presses end, a load may end in an
error, and a blocked server thread is what `runner_health` is about. In the
other runs TLC checks it; `Rest` is where `Runner`, its bounds used up, may come
to a stop.

### Fairness

Weak fairness, only of what the code's own scheduling provides:

- threads of the runner that can take a step take one (operating system);
- a call *with* a timeout ends, and a poll ends after two seconds;
- in `Runner`, a service goes on with calls that it has begun (tokio), in which
  no step waits for anything but the runner's answer.

A client that has asked sends its body and reads its answer: the server thread
reads and writes on the client's connection without a timeout, and `AllAnswered`
would not hold beside a client that stops half-way.

Nothing makes a client ask, an operator press a button, a service fail, an
instance or another program start to listen or end, `wait()` return an error, or
the clock move.  Strong fairness is used
nowhere.  `KeepsRunning` therefore assumes in its own statement that the
schedule does not stay paused, and `AllAnswered` names the one state in which
the server thread may stay for ever.

## 4. Where code and documents disagree

Six runs end in a counterexample, each to a sentence of the repository that
PROJECT.json quotes; the property says in its comment why it does not hold.

- **`runner_health`.** A `GET` of a webhook that publishes, through the proxy,
  stops the runner: the server thread waits without a timeout for the service,
  the service for the server thread.  Both webhooks of the repository's own
  services publish.  `AllAnswered` shows that this wait is the only thing that
  stops the server thread, and `OwnEventsWait` is its cause, proved for every
  instance.
- **`runner_manual`.** The same wait, with a timeout: the dashboard's button
  for a manual run of such a webhook always ends in an error, while the events
  are delivered afterwards.
- **`scheduler_monotone`.** The time of a manual run is read before the lock.
- **`config_prefix`.** `strip_prefix` on strings, so `orders` takes
  `/orders-new/...` whose remainder is then no declared endpoint.
- **`gateway_template`.** `supports` compares the path of a request with the
  text of the declared paths.  One with a parameter is never supported, unless
  the request has the parameter's name in braces in it, so most endpoints of the
  repository's own services cannot be reached through the runner.
- **`gateway_ports`.** The port range of a service is checked against the end of
  the port range and against nothing else.  Three runners from port 15001, the
  example of the README, take the ports of two more services of the repository,
  and whichever process binds first answers for the other.

More were noted while modelling and have no run, since one look at the code
settles them:

- instances are not waited for at start-up (`src/src/README.md:11-13`), and
  requests are balanced over the configured copies and not over the active ones
  (`src/src/README.md:14-15`);
- the badge of a service says what answers at its base URL and not whether its own
  process runs (`health.rs:61-84`).  In the situation of `gateway_ports`, or beside
  an instance that an earlier run left behind, a service that is gone is shown as
  healthy for as long as the other process answers; `DownIsShown` therefore speaks
  of base URLs at which nothing listens;
- the name of a queue is taken from the URL as it was sent (`server.rs:350-355`):
  `%20` is not decoded, and a blank cannot be sent, so a listener whose queue has
  a blank inside its name is never called;
- an error in the configuration of one service lifts the memory limit of another
  that is run with `--module` (`README.md:140-142`; the code warns);
- minutes are pruned per endpoint and only when it records, so the statistics
  may show minutes older than the window they name;
- `renderStatsChart` (`dashboard.html:173-245`) expects a map of arrays and
  `/__runner__/stats` answers an object of `generated_at`, `window_minutes`,
  `global` and `services`, so the chart ends in a TypeError;
- a late answer of one dialog is shown under the title of the next
  (`dashboard.html:112-137`);
- the request of a pause button is a toggle, so a page that was loaded before
  another operator paused a schedule resumes it.  `PageIsCurrent` says no more
  than holds: it speaks of pages that know of the last toggle.

## 5. What is proved

All proofs are checked by TLAPS with no assumption other than the named
`ASSUME`s on constants, and one hypothesis about the files of the repository
(`CallsHaveHandlers` below); TLC evaluates all of them in the runs.  PROJECT.json
lists the theorems.

**`SchedulerProofs`**, for any schedules, intervals and bounds.  One inductive
invariant `Inv` has, beside `TypeOK`, `ResultOfOneRun` and `PauseSticks`, three
parts that the checked properties do not state: `TimesPast` (no time that was
written, or is about to be, lies ahead of the clock; needed for
`ThreadWritesNewest`, since the new time must exceed the old one), `Countdown`
(ticks counted plus ticks left are the interval; needed for `FullInterval`) and
`LateStart` (after its late start a thread is not about to call again; needed
for `OneLateStart`).

**`QueueRegistryProofs`**, for any listeners, any order of them and any width of
the counter: types, `EachListenerOnce`, `ListedMeansUsed`, `CountNeverFalls`.
The conjunction of the first three is inductive.  The last two are proved and in
no run.

**`RunnerProofs`**, for any services, endpoints, events, listeners, schedules
and number of clients, healthy or not.  `Base` is the types and the shape of the
server thread (which calls it and the schedule threads may be waiting for).
`Handlers` says that what is left to a handler is within the events of its
endpoint and that it awaits a request that arrived.  On top of them:

- `RunnerTypes` and `AnswersInOrder`: `Base /\ Handlers /\ InOrder` is
  inductive;
- `SuccessIsAccepted` needs `Published`: an awaited request is a publication
  sent by that very handler and its answer is 202 or 500, so that a 202 counted
  by the handler is one that the runner gave;
- `OwnEventsAreNotServed` needs `InOrder`: an event sent by the handler that the
  server thread waits for is behind the request being served, and requests
  behind it are unanswered;
- `ProxiedRecorded`: `ProxiedIsRecorded` with `Base` and `Handlers` is inductive,
  since the server thread records a status in the steps that answer a proxied
  request and in no others;
- `SchedulerRefined` and `RouterRefined`: every step of `Runner` is a step of
  `Scheduler`, and one of `RoundRobinRouter`, or leaves its variables alone, so
  what is proved of these modules holds in the composed system.

**`DeliveryProofs`**, on top of it: what becomes of a message, for any listeners,
any number of subscribers and any failures of theirs.

- `OffersInOrder` and `AcksAreOffered`: the offers are those of the calls ever
  made that the server thread makes in its loop.  The invariant `Deliveries` says
  that each offer is of an accepted message to one of its subscribers
  (`OffersAreOffers`), that they are in order (`InTheirOrder`), that those of the
  current message are exactly the ones up to `server.delivered` (`Loop`), and
  that those of an answered one are complete (`Acked`).  It needs `Registered`:
  no request arrives before the listeners are registered, so the subscribers of
  a queue do not change in the middle of a delivery.
- `CountsAreAccepted`: the counter moves in the step in which the set of
  accepted publications of its queue gains one element, or is at its limit;
  the cardinalities are those of FiniteSetTheorems.
- `RegistryRefined`: every step of `Runner` is a step of `QueueRegistry` or
  leaves it alone.  The theorems of `QueueRegistryProofs` are then cited for the
  runner's registry, among them that each listener is subscribed once.
- `BrokerRefined`: `Runner` implements `QueueBroker`.  The mapping takes the
  accepted publications in the order of their requests, `server.delivered` as the
  offers of the last one, and the answers 202 as acknowledgements.  `BrokerInv`
  has what the other theorems needed, `Reg!EachListenerOnce`, which makes the
  subscribers of a queue as many as the broker's `Fanout`, and `Ranked`, that the
  k-th accepted publication exists for each k up to their number, so that a
  newly accepted one is appended and none before it moves.

**`DashboardProofs`**, for any pages, schedules, loads and presses:
`PagesAreCurrent`.  `paused` alone cannot be followed on its way to a page, since
it takes only two values; the invariant is that every flag - the one in the map,
those in answers on their way, those on pages - has the parity of the number of
toggles that it accounts for.  Equal numbers then mean equal flags.

`NothingGoesBack` needs the order of what is on its way to a page.  `OrderInv`
says that each request is in one place only (waiting, under way, or answered),
that a page waits for at most one answer of each button and load, that nothing
told of a schedule is newer than the map or than the result that is about to be
written, and that an answer which a page would still accept is not older than
what it shows.  The last part rests on the disabled button: the second answer to
it cannot overtake the first.

`ScheduledByPages` shows that the scheduler behind the pages implements
`Scheduler`: whatever the operators press, the server thread starts and records
at most one manual run at a time.  With it the types of the scheduler are those
proved in `SchedulerProofs`, and `DashboardTypes` adds those of the pages and of
the requests.

**`ServiceConfigProofs`**, for any directories with any contents, read in any
order, and any limits: the types and `LoadsAllOrNothing`, `CopiesStayApart`,
`LoadedSchedulesCanRun`, `LoadedLimitsHold`, `PathsRouteByName`. `LoadInv` says
that what is loaded is, for each directory that was read and holds a service,
what `Loaded` makes of it, once, that none was left out, and, after `Finish`,
that it is sorted; that the list stays the same but for its order needs the
counting argument of `PlacesOfNames`. It uses `LimitsAssumption` and
`FilesAssumption`, which say that directories can be ordered and what serde and
`Url::parse` return. Texts stay opaque in these theorems: no proof says what
trimming does, only that the check and the use of a path trim it alike.

`LoadRefined` shows that the runner at work loads its services in this way and
then leaves them alone, so that `LoadInv` holds while it serves.

`PublicationsAsAsked` relates a publication to the configurations as they are
written: by `LoadInv` the listeners of each loaded service are those of its
directory, trimmed, and none is missing.  What the server does to the name of the
queue in the URL is nothing: `RequestsAssumption` says that a request line has no
blank in its URL, so there is none to trim (`NothingToTrim`, `QueueAsSent`).

With `LoadRefined`,
`DeclaredOnly` and `CallsHaveHandlers` are proved for any requests.  The latter
has a hypothesis, `AllSourcesAgree`: the source of each service has a handler for
what its OpenAPI document declares and its listeners name.  It is about the files
of the repository and not about the runner, and `MCGateway` has TLC evaluate it
for them; the theorem is that nothing the runner does to these texts between
reading them and calling makes them disagree.

**`StoresProofs`** is about what the server thread keeps between requests.

*The router*, for any services, any number of runners and any width of the
counter: the types, and `TurnsComeRound`.  The invariant `Turns` gives the
wait of each runner that was picked since the counter last stood at 0 as a
function of the counter; any other runner has waited at most `n - 1` picks longer
than the counter has counted, which bounds the irregular round.  The proof
needs `WidthAssumption`, that a `usize` counts at least as far as there are
runners, which the number of ports guarantees.

*The statistics*, for any finite set of endpoints, any window and minute, and any
clock: `WindowIsCounted`.  `StatsInv` says of each endpoint that its counts are
the numbers of its records that no later record of its own has put out of the
window, which a call of `record` preserves because the minute it prunes at is the
minute it adds to.  The sum over the endpoints is a fold, which the
prover cannot do induction on; `SumCountsUnits` therefore shows that it equals
the cardinality of a set, with as many units for each endpoint as it adds, by
taking a smallest set of endpoints for which it does not.

*The log lines*, for any streams, deques and limit: `LatestAreShown`.  `LogInv`
says of each stream that the lines in the deque carry the number that is due less
the number of lines of its own behind them, and that none is missing unless the
deque is full.  Appending a line, and dropping the first, preserve this
(`LatestAppended`, `LatestDropped`), whichever stream the line is of.  A forwarder
is between its two steps only with a line that it has read, and ends only when
it has read all that was written.

`StoresRefined` is about their composition with the registry and the pages in
`MCStores`: a step of the run is a step of one of the five and leaves the
variables of the others alone, so each of the five specifications holds of it,
and with them the theorems above.

**`InstancesProofs`**, for anything that may be loaded, any services, any number
of copies and any ports: the types, and `UsageStaysLive`. What was loaded never
changes (`LoadedStays`), so that the instances of a state are those of its
successor. `UsageIsLive` is inductive with the types: a probe that ends resets
the entry in the very step in which it ends, and a reading that survives a step
of a probe is either its own new one or one that another probe, still running,
has written.

## 6. What is only model-checked

Liveness (`KeepsRunning`, `SchedulesKeepRunning`, `AllAnswered`, `RunnersEnd`,
`DownIsShown`), since fairness is stated with `ENABLED`, which is beyond the
prover.  Every safety property that a passing run checks is also a theorem.

Some things are proved only up to an operator that stays opaque: what `Trim`,
`TrimStart`, `Segments` and `FirstOf` make of a text is evaluated by TLC for the
texts of the runs.  Of `Trim` it is proved that it leaves a text without blanks as
it is.  That the services of the repository satisfy
`AllSourcesAgree` is a fact about data, which TLC evaluates.

## 7. What is not modelled, and why

- The HTML of the dashboard, its dialogs and chart, the JSON of statistics and
  the text of log lines: formatting of snapshots that the models have.  The
  dialogs change nothing but themselves.
- `detect_invocation`, `main.rs`, `launch` and `scripts/`: no state.
- Poisoned locks.  Nothing panics while it holds a lock, so the branches for
  them, among them those that end a schedule thread, are never taken.
- Base URLs that name no port or another host, in `Instances`: a port stands for
  the URL.
- The values that sysinfo returns, and the factor 1024 applied to them, which is
  right for some of its versions.  A reading is the instance it is of.
- Overflow of the `u32` counts of one minute.
- Header filtering of proxied requests and the payloads of services.
- Network partitions between runner and services other than as failed calls:
  everything is on one host.

## 8. Plan

Done, in this order: `Scheduler` and its proofs; `QueueRegistry` and its proofs;
`RoundRobinRouter`; `QueueBroker` and `Runner`, which composes the previous
ones; `RunnerProofs`; `Instances` and its proofs; `ServiceConfig`; `StatsStore`;
`LogStore`; `Gateway`; `Dashboard`; `DeliveryProofs` with the refinements of the
registry and the broker, `DashboardProofs`, `ServiceConfigProofs`,
`StoresProofs`.

Next, for the models: the separate refinement of probe and instance by an
abstract supervisor of one service.

Next, for the proofs: that supervisor, once it is stated, and the sequence in
which the threads of `Instances` end, as far as it is a safety property; what
trimming does to a text, so that a route can be proved to reach the endpoint that
was declared.
