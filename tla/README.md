# Verification of the security event pipeline

TLA+ specifications of the pipeline's own logic, model-checked with TLC on
small instances and, where it matters most, proved with TLAPS for every value
of the constants. Every definition is read from the source; `PROJECT.json`
maps each one to its lines.

## 1. Inventory: the system

Four Go programs around a NATS JetStream stream and an InfluxDB 3 table:

```
Daemon --publish--> JetStream stream --push--> Writer --WritePoints--> InfluxDB
                                                                          |
                              Client --request/reply (NATS)--> Reader <--query
                              HTTP clients ------GET /events-----^
```

| Component | State it keeps | Operations | Interacts by |
|---|---|---|---|
| Daemon: `EventEmitter`, `Generator`, `NATSPublisher` | rate limiter, connection | make the stream at start-up; generate an event with a fresh id, publish it with at most three tries in two seconds | JetStream publish and its acknowledgement |
| Writer: `NATSSubscriber` | semaphore of 10 slots, wait group, subscription with its inbox, `nats.Msg` flags | callback per message, goroutine per message, `Close` | push deliveries, Ack/Nak/Term; calls `Handle` |
| Writer: `EventProcessor` | counters (logged only) | `Handle`: validate, sanitize, save with retries and backoff | calls `Save`; returns nil, `ErrInvalidEvent` or an error |
| Writer: `InfluxRepository` | `pointCh` (5 x 50), `stopCh`, 5 workers each with a batch, a result channel per call | `ensureDatabase`, `verifyConnection` at start-up; `Save`, `writeWorker`, `flushBatch`, `Close` | channels between callers and workers; `WritePoints` |
| Writer: `main` | phase of the shutdown | start, signal, `gracefulShutdown` (30 s), deferred `Close` of the repository | goroutine that runs `NATSSubscriber.Close` |
| Reader: responder, HTTP handler, `QueryService`, `InfluxDBQuerier` | subscription, HTTP server | answer a query | NATS request/reply, HTTP, SQL |
| Reader: `main`, `NewRouter` | errgroup of three goroutines, chains of handlers | start, signal, shutdown; headers, origins, routes | cancellation of the group's context |
| Client | none | one request, one table | NATS request/reply |
| `pkg/config`, `pkg/security` | environment, certificate files | load and validate settings, check and load certificates | called at start-up |
| `pkg/logger`, `pkg/sanitizer` | none | log, redact | called everywhere |

What is hard here, and what makes each part correct:

* **Write worker pool.** Callers and workers meet on two kinds of channels while
  deadlines pass and `Close` stops the pool. Correct when nil from `Save` means
  stored, no request is lost or answered twice, `Close` answers everything
  accepted before it, and nobody hangs.
* **Subscriber and processor.** Deliveries are repeated, overlap, and are
  acknowledged from two goroutines; handlers retry under a deadline; the process
  crashes, stops and starts again, and an orderly stop may delete the durable
  consumer; `Close` races the callback. Correct when nil means stored, each
  message ends for a cause the Writer has given, slots are returned on every
  path, and every message comes to its end.
* **The whole way.** An event that a Daemon was told is persisted is in the end
  stored, or lost for one of a few known causes.
* **Event data.** Validate, sanitize, point, row, result, line: each stage
  changes the data, and a point's tags decide whether two events are one row.
  Correct when each event of a Daemon has a row of its own with its own data,
  rows are normalized, and the Client's lines show what was sent.
* **Daemon.** Messages and acknowledgements get lost while a deadline, a signal
  and a closed connection race the tries. Correct when nil means persisted, no
  event is in the stream twice, and the stream keeps the order. The three tries
  share one deadline of two seconds: a try whose answer is unknown uses it up,
  which excludes duplicates, at the price that a lost message is not tried again.
* **Reader and Client.** Requests queue behind a sequential callback while the
  clients' own timeouts pass and rows are stored; a reply may be an error
  envelope; several replicas answer. Correct when rows that are shown match, are
  the newest and in order, every handled request gets one reply, and both
  transports refuse the same parameters.
* **Reader lifecycle.** Three goroutines end each other through the group's
  context; the HTTP server returns from serving before its requests are
  answered. Correct when the process ends upon the signal or the end of a
  server, a clean exit cuts nothing off, and the exit code is true.
* **Start-up.** Stream, database and consumer are each checked and then made,
  by replicas that start at once and are restarted when they fail. Correct when
  a race costs nobody its start, a Writer that runs has what it needs, and the
  services come up in any order.
* **Deployment.** The environment decides what is loaded; files are checked
  first and read later. Correct when a program that runs verifies its servers,
  a service recovers when its files do, and every HTTP reply is guarded.

`PROJECT.json` lists the hazards one by one at their lines.

## 2. Modules

| Module | Models | State and actions |
|---|---|---|
| `EventRepository` | the Writer's outbound port: what `Save` promises | `call` (what each caller sees), `rows`; `Start`, `Store`, `ReturnOk`, `ReturnError` |
| `Publisher` | the Daemon's outbound port: what `PublishEvent` promises | `result`, `stream`; `Persist`, `ReturnNil`, `ReturnError` |
| `EventFlow` | what the pipeline as a whole promises | `persisted`, `told`, `open`, `stored`; `Persist`, `Tell`, `Store`, `Close`, `Replay` |
| `WritePool` | `InfluxRepository` | one action per step of a goroutine between two points where it can block: `Save*` for the callers, `Worker*` and `Flush*` for the workers, `Close*` |
| `Writer` | `NATSSubscriber`, `EventProcessor.Handle`, start and shutdown of `main`, over `EventRepository`; JetStream consumer and nats.go as external actions | `Deliver`, `AckWaitExpires`, `ServerReceives`, `DeleteConsumer` (server); `HandleMalformed`, `HandleSaturated`, `HandleSpawn`, `CallbackReturns` (callback); `HandleInvalid`, `StartAttempt`, `SaveSucceeds`, `SaveFails`, `BackoffExpires`, `Settle` (goroutine); `Shutdown`, `WaitHandlers`, `CloseConnection`, `ReturnFromRun`, `Exit`, `Crash`, `Restart` |
| `Pipeline` | `Publisher` and `Writer` around one stream | `Publish`, `Deliver`, `Write`: the steps of the two |
| `EventPath` | the data of an event from `newEvent` over `Validate`, `Sanitize`, `Save`, the querier and the JSON to `displayTable` | `sent`, `saved`, `rejected`, `table`, `shown`; `Generate`, `Publish`, `Reject`, `Save`, `Display` |
| `Daemon` | `EventEmitter.Run`, `NATSPublisher.PublishEvent`; js.Publish, connection and stream as external actions | `Emit`, `EmitStops` (Run); `Publish`, `PublishAnswered`, `PublishExpires`, `PublishGivesUp`, `Awake` (PublishEvent); `Deadline`, `Signal`, `Crash`, `ConnectionCloses`, `ServerReceives` |
| `QueryPath` | `NATSRequester`, the Client's `run`, `NATSResponder`, `GinHandler.GetEvents`, `QueryService`, `InfluxDBQuerier.Query`; NATS, HTTP clients and the Writer's rows as external actions | `Request`, `ClientReceives`, `ClientExpires` (client); `TakeMessage`, `HandleIgnore`, `HandleRun`, `HandleReply` (callback); `Get`, `GetEvents` (HTTP); `Stop`, `Exit`, `Restart` |
| `ReaderProcess` | the state of a Reader process and what its exit shows | the variables of `ReaderService`; no actions |
| `ReaderService` | `cmd/reader/main.go`: the errgroup, the HTTP server, the listener | `Bind`, `ServeFails`, `ServeClosed`; `ShutdownBegins`, `ShutdownDone`, `ShutdownExpires`; `Listen`, `ListenReturns`; `Accept`, `Answer`, `Ready`, `Connection`, `Signal`, `WaitReturns` |
| `StartUp` | `NewNATSPublisher`, `ensureDatabase`, `verifyConnection`, `NewNATSSubscriber` over several replicas; js.Subscribe and the servers as external actions | `StreamInfo`, `AddStream` (Daemon); `ListDatabases`, `CreateDatabase`, `VerifyConnection`, `LookUp`, `AddConsumer`, `Attach`, `StartFails` (Writer); `DaemonEnds`, `StopWriter`, `CrashWriter`, `Noticed` |
| `Router` | `NewRouter` and its middleware | no state: `Reply` sends a reply through the chain of handlers |
| `Deployment` | `config.Load` and `Validate`, `pkg/security`, the order of `run` in all four programs, the Daemon's limiter, the Reader's routes | `program`, `env`, `file`, `at`, `loaded`, `tokens`, `reply`; `Start`, `LoadConfig`, `Stat`, `LoadPair`, `LoadCA`, `InfluxStat`, `InfluxRead`, `Database`, `Connect`; `Emit`, `Refill`, `WaitFails`, `Serve`, `ClientEnds`, `Change`, `Kill` |
| `WritePoolProofs`, `WriterProofs`, `PipelineProofs`, `DaemonProofs`, `StartUpProofs`, `EventPathProofs`, `QueryPathProofs`, `DeploymentProofs` | | proofs about the modules of those names (`QueryPathProofs` also about `ReaderService`, `DeploymentProofs` about `Router`) |
| `MCWritePool`, `MCWriter`, `MCQueryPath`, `MCEventPath`, `MCDeployment` | | values of the constants for TLC |

**How the layers fit.** `WritePool` implements `EventRepository`, `Writer` calls
the repository only through the actions of `EventRepository`, `Daemon`
implements `Publisher`, and `Pipeline` is `Publisher` and `Writer` around one
stream and implements `EventFlow`. What one part needs of another is therefore
exactly what the other is shown to give, and the state spaces of the detailed
modules are never multiplied.

### WritePool

A request is named by the call of `Save` that made it; the name stands for its
point and its result channel. `pc[c]` is `enqueue` in the first `select` of
`Save` and `wait` in the second. A `select` is the choice among the actions
whose guard holds, so Go's random choice among ready cases is covered: in
particular `SaveSend` may win although `stopCh` is closed. A deadline may pass
at any moment, so `SaveExpired` needs no clock. `mode[w]` tells the outer loop
of `writeWorker` from the drain loop and from the last flush; `batch[w]` holds
what `points` and `results` hold, and `FlushNotify` is one send of
`flushBatch`'s loop, which blocks when the result channel is full. An error of
`WritePoints` leaves any subset of the batch stored. `early` is an auxiliary
variable: the calls accepted before `stopCh` was closed.

### Writer

A delivery `<<m, n>>` is the n-th push of message m and has its own `nats.Msg`
and, if a slot was free, its own goroutine. `settled` is the flag of a
`nats.Msg` that makes the second of Ack, Nak, Term fail. `Send` may lose what it
sends. The consumer accepts a late answer to an earlier delivery and ignores
answers to what is settled. What `Writer` calls invalid is what `Validate` of
`EventPath` refuses.

The subscription is made without `nats.ManualAck()`; nats.go then wraps the
callback and acknowledges after it has returned. This is `CallbackReturns` with
`AutoAck = TRUE`, the code as it is. `AutoAck = FALSE` is the same code with the
option; it is used in one configuration (`Writer_manual.cfg`), to show what the
option decides, and the proofs cover both.

`durable` says who has made the durable consumer. The library deletes on drain
what it has made itself (`DeleteConsumer`); the process after that makes a new
consumer, and the whole stream is delivered again (`Restart`). A process that
crashes finds its consumer again.

### Pipeline and EventFlow

The messages of the Writer's consumer are the events of the Publisher, and the
server delivers what is persisted. `open` of `EventFlow` are the persisted
events that the consumer has not finally settled; `Replay` is the new consumer.
`CutShort` and `NeverHandled` name the ways in which an event that was confirmed
to the Daemon can be lost.

### EventPath

A message is a sequence of runs of words and of blank space with their lengths;
equal runs stand for equal text. Conversions are kept as what they do: `Format`
loses nothing, `TimeString` is a layout that the Client cannot parse, `Result`
drops identifier and severity, `Truncate` cuts at 35 bytes. Foreign publishers
send what `NewEvent` never makes. `Key` is what makes a point one point for
InfluxDB; a later point of the same key overwrites.

### Daemon

An event is named by its daemon and a number, which stands for the random
identifier of `newEventID`. `pc` is the place in the loop of `PublishEvent`;
`waiting` is inside `js.Publish`, which ends with an answer or with its context.
`wire` and `answers` are the messages on their way to the server and back, either
of which may be lost or late; an answer that is no acknowledgement (`ok` is
false) is an error at once. The port's stream is a sequence to which an event is
appended once: a second message of the same event in the stream would be no step
of `Publisher`. After a crash the next process generates new events.

### QueryPath and ReaderService

`inbox`, `current` and `outcome` are the queue of the subscription, the request
its callback is at work on and what it will reply. `Query` reads `table` at one
moment; `Select` is the set of answers that the SQL allows, since rows of one
time come in any order. `Decode` is what the client makes of a reply. `asked`,
`handled`, `published`, `erred` and `swallowed` are auxiliary: the table when a
query was sent, who has handled it, how often it was answered, whether InfluxDB
returned an error for it, and whether an error passed for a missing table. An
answer may lack rows only if it is `swallowed`, or if the client has made an
empty table of an error envelope; an HTTP answer and a reply that is a result
have only the first excuse.

`QueryPath` keeps only the `phase` of each Reader. It is what `ReaderService`
gives in detail: `up` until the group's context is done, `stopping` until
`g.Wait` returns, `down` until the restart (theorem `PhasesAreTrue`). A Reader
that stops is still subscribed until `Listen` returns, and its server still
accepts until `Shutdown` is called, so it may or may not take a request. In
`ReaderService`, `goroutine` has the three
members of the errgroup, `groupErr` is the group's error, `failed` and
`readyWith` are auxiliary.

### StartUp

Each request to a server is an action, so that other replicas act between a check
and what is done upon it. A consumer is the number of the subject it delivers to;
`interest` is what the server believes of subscriptions, a crashed process
included until its connection is `Noticed` to be gone. A request that fails may
have done its work (`StartFails`, `AddStream`). A replica that is `down` has given
up or crashed and is started again; one that is `stopped` was stopped by
somebody, which `restart: unless-stopped` (`docker-compose.yaml:96,137`) leaves as
it is: it may be started again, and nothing makes it.

The parts of nats.go (v1.48) that matter are external: a subscription with a
durable name looks the consumer up, refuses one that is bound, and makes it if
there is none; draining the subscription deletes a consumer that its library
has made. Left out: a stream of another name with the same subject, which the
README's troubleshooting table describes.

### Deployment and Router

`Steps` is the order of `run` in each program, and `at` the place in it. Between
any two steps somebody may change a file (`Change`): what `Stat` has seen is not
what `LoadPair` reads. `loaded` are the certificates a process holds; a server
is only talked to with the CA that signed its certificate (`Connect`,
`Database`). The Daemon and the Client load the NATS files with nats.go's options,
which need the files they are given; the Writer's `LoadClientTLSConfig` passes
over names that are empty. `Load` is what `pkg/config` makes of the environment,
with the default where a text is no number. `Number` is what `strconv.Atoi` reads:
a text outside of its domain is none, and a number is taken as it is, negative or
zero, since nobody checks it. The limiter (x/time/rate, external) with a rate of
zero or less gives its burst and nothing more, so that `Run` waits for ever after
it; with a burst of zero or less the first wait fails and the process ends. `Kill`
is a crash, which the container runtime answers with a restart; a stop by hand
is not in this module.

`Serve` gives a request to `Router`. A request is its method, its origin, its path
without the last slash, and whether there is one. A request that would have a
route with one slash more or less gets gin's redirect
(`gin.New()`, `gin_router.go:28`, keeps `RedirectTrailingSlash`) before any handler;
any other goes through the global middleware and the route's chain until a
handler aborts it. Replies that net/http gives itself, to a malformed request or
to `OPTIONS *`, do not reach the router and are left out.

`Idle`, `Done` and `Exited` disjuncts stand for a system that has nothing left
to do, so that TLC's deadlock check is on in every run.

## 3. Runs

| Run | Instance | Shows |
|---|---|---|
| `pool_batch` | 1 worker, batch 2, channel 2, 4 calls, 2 of them for one point | types, nil means stored, one answer each, under back-pressure, full batches, ticks and `Close` at any moment |
| `pool_live` | 2 workers, batch 2, channel 4, 2 calls for one point, 1 rejected | workers that drain side by side: `Close` drains, returns, and nothing is written after it; every accepted call is answered; the port `EventRepository` is implemented |
| `writer_kinds` | a valid, an invalid, a malformed message, 1 delivery each, 1 slot, 2 attempts, an orderly stop that may delete the consumer and a new start | types, slots, and that a message ends for a cause: acknowledged only if a handler had it, terminated only if invalid, given up only after all deliveries |
| `writer_redelivery` | 1 message, 2 deliveries, 2 attempts, 2 slots, a crash and an orderly stop that leaves the consumer in place | overlapping handlers of one event: nil means stored, dead letters are earned, `Close` returns, the message comes to its end |
| `pipeline_flow` | 1 event, 1 delivery for each of 2 consumers, 2 attempts, a crash and an orderly stop | what is lost is lost for one of three causes, a deleted consumer costs no event, the whole implements `EventFlow` |
| `event_path` | 2 messages, of 2 Daemons with 3 instants or of odd publishers | one row per event, normalized rows, lines that show what was sent |
| `query_answers` | 2 rows, 1 query and 1 message without reply subject over NATS, 2 GETs (limit 2; limit 0), a Reader that stops once | rows are right and lack nothing but for an error that passed for a missing table or an envelope read as a table; one reply each, no inbox gets stuck |
| `reader_live` | 2 requests, every failure | a clean exit cuts nothing, the exit code is true, the process ends |
| `daemon_publish` | 1 daemon, 2 events, 3 tries | no duplicate, order, `Run` ends, the port `Publisher`, which takes an event once, is implemented |
| `start_services` | 2 Daemons, 2 Writers, 2 failed requests, 2 stops | races for stream and database cost nobody its start; what a running Writer needs exists; in the end the Daemons that nobody stopped run, and a Writer that is fed, unless a Writer was stopped for good or no stream will ever be made |
| `deployment` | 4 programs, the compose file's environment and 35 others, 3 changes of files or crashes, 39 HTTP requests | a program that runs has verified its servers, services recover with their files, the Daemon is silenced by a number that is zero or less and by nothing else, every reply but a redirect is guarded |
| `writer_autoack` | 2 messages, 1 slot | a violation, see section 5 |

**Bounds.** They are the smallest with which the cases that matter happen. A
channel of two is filled by the third caller, a batch of two is left half full
by an odd call, two workers are the fewest that can drain past each other. Two
deliveries are the fewest that can overlap, two attempts the fewest with a
backoff between them; three kinds of message for one slot are saturation for
each. In the pipeline one event suffices, since `Writer`'s handlers meet only in
the semaphore, which `writer_kinds` has; two consumers are the one that is
deleted and its successor. `writer_kinds` goes up to the making of the successor
(`FirstConsumer`, its state constraint) and leaves its life to `pipeline_flow`,
where `StopReplays` is checked; `writer_redelivery` has one consumer
(`MaxConsumers` is 1) and says nothing of a stop that deletes it. Two rows, the
older the more critical, and a limit of one tell selecting from cutting; ties of
time are in the definition of `Select` and covered by the proof. Two events show
order, three tries are the code's. Messages of 1000 and 1001 bytes, and runs
whose blanks cross the limit, are the sides of the limit; criticalities run from
-1 to 12. The numbers for the limiter are -1, 0 and 1, and a text that is none,
each as rate and as burst. Two replicas race. Three changes of files are a file
that vanishes, one that is half written, and a repair. `MaxStops`, `MaxCrashes`,
`MaxFailures`, `MaxEvents`, `MaxSent`, `MaxConsumers` and `MaxChanges` bound
what may go wrong, and thereby the state space. `pool_batch` uses symmetry:
exchanging the two calls for one point maps behaviours to behaviours, and the
run has no liveness property. The proofs lift the bounds.

**Fairness.** Each goroutine that has something to do runs (weak fairness per
worker, handler, callback, caller and process), and deadlines pass: `Save`,
`Handle`, `PublishEvent` and `server.Shutdown` all are given a context with a
timeout. A crashed container is started again, as docker-compose says, and so is
a service whose start fails; a service that was told to stop need not be, in
`StartUp` neither a Writer nor a Daemon.
Nobody is forced to call `Save` or `Close`, to send a signal or to answer an HTTP
request; the network may lose everything. JetStream delivers and its AckWait
passes. In `StartUp` the server is assumed to notice a connection that is gone,
and only finitely many requests fail (`MaxFailures`): with failures for ever no
service needs to come up. `ServicesComeUp` has two exceptions: that a
Writer was stopped and the others have come through their start, and that no
Daemon is left to make the stream. The first cannot be dropped
(`RemainingIsFed`, section 5). `FilesHeal` speaks of files that are good for good in
the end, and of nothing else. The 30 seconds of `gracefulShutdown` are not needed
for `Close` to return.

## 4. Proofs

For every value of the constants, under the assumptions that the modules state
of them. Each proof module defines an inductive invariant, `IInv` (in
`WritePool` the module itself does), of which the properties follow; the
properties alone are not inductive. There is one lemma per action or group of
actions, with one step per conjunct that it can disturb.

`WritePoolProofs` assumes a finite non-empty set of workers, a positive batch
size, a point for each call. That `Save`'s nil is backed by a row follows only
from a chain, `NilIsStored` (worker's outcome, result channel, caller); that
appending a request keeps the queues free of duplicates needs
`SentBeforeAnswered` (a caller still in its first `select` is nowhere in the
pool); and that `Close` drains needs `Draining`: a worker that leaves has seen
the channel empty after `stopCh` was closed, so what is in the channel since
then is not early. It rests on four lemmas about queues of distinct elements.
From `IInv` follow `TypeCorrect`, `NilMeansStored`, `NoRequestIsLost`,
`AtMostOneAnswer` (a worker never waits for room in a result channel, and none is
written to twice), `CloseDrainsThePool`, `ClosedIsQuiet`, and `PoolImplementsPort`,
the step simulation of the port.

`WriterProofs` assumes positive numbers of deliveries, slots, tries and
consumers; the messages may be infinitely many, and the flag for the
acknowledgement may have either value. `Queue` says which deliveries wait (each
sent, once, its `nats.Msg` not settled, no handler yet), `WorkOf(d)` ties the
place of each handler to its attempts, to what `Handle` returned and to the
rows, `Slots` says that the handlers alive are finitely many and hold one slot
each, `Causes` backs what the consumer has finished with by what the Writer did
to a delivery, `OnlyValid` says that nothing else is stored. `DeadLetterIsEarned`
is its own conjunct. Proved are `TypeCorrect`, `NoSlotLeaks`, `NilIsStored`,
`DeadLetterEarned` and `EndsHaveCauses`; further `OneSaveAtATime`, an attempt is
only made when all before it have failed, and `WriterKeepsToPort`, every step of
the Writer, of its crashes and of its consumer is one of `EventRepository` at the
repository or none: with `PoolImplementsPort` on the other side of the port, what
the worker pool promises holds for the Writer. `ManualAckIsTrue` is about the option
the code does not set: with `AutoAck = FALSE` what is acknowledged was handled, and
is stored. The lemmas `AckFromVerdict` and `AckedByWire` follow an acknowledgement
from the handler's verdict over the wire to the consumer. The code has `AutoAck = TRUE`, and
`writer_autoack` refutes the same property there.

`PipelineProofs` assumes what `Writer` does. It instantiates `WriterProofs`
(`W == INSTANCE WriterProofs WITH ...`): the steps of the pipeline are steps of
the Writer or leave it alone (`WriterInvariance`), so all facts above hold of
the Writer in the pipeline. `Known` adds that the Writer only ever sees what is
persisted. `LossesHaveCauses` is the theorem that matters to an operator: an
event the consumer is done with is stored, or recorded as a dead letter, or the
process ended under its handler, or the handler's context ended before its last
attempt, or no delivery of it ever had a handler. `AckedIsStored` carries
`ManualAckIsTrue` over to the events of the stream, and `PortsAreKept` says that
the pipeline keeps to `Publisher` and to `EventRepository`.
`PipelineImplementsFlow` is the step simulation of `EventFlow`.

`DaemonProofs` assumes at least one try. Absence of duplicates is a property of
the whole retry loop, and its heart is `CleanRetry`: another try follows only
when the earlier ones have left no trace on the wire or in the stream, or when
nothing can be sent any more, the context being done or the connection closed.
It rests on `Counted` (the counters agree with the place in the loop), `Made`
(what is on its way or stored belongs to a try that was made), `OneMessage`
(one message of an event on the wire, none once it is stored), `Backed` (nil is
backed by the stream) and `LateIsLost` (an event stored after a later one of its
daemon was reported lost). Steps that touch one daemon only go through the lemma
`LocalStep`. From `IInv` follow `TypeCorrect`, `NilIsPersisted`, `NoDuplicates`,
`OrderIsKept`; and `DaemonImplementsPort`, where each step is sorted into
`ServerReceives` (which may append an event), `Returns` (`PublishEvent` comes back)
and `Silent` (all the others). `Fresh` is about the results: a call that is under
way has returned nothing yet. That what the server appends is not in the stream
yet, which the port demands, is `OneMessage`.

`QueryPathProofs` takes any set of rows, clients and replicas. The table and the
errors of InfluxDB only grow, so what an answer was right about stays right:
`Good` says of a result that it is right with respect to some table that the
server had since the query was sent, or empty and `swallowed`, and `OnItsWay`
and `Received` say it of every outcome, reply and result on the way to the
caller. `SelectIsRight` shows that what the SQL selects are the newest matching
rows in order; that an answer not cut by the limit is complete is a pigeonhole
argument: a sequence of distinct rows as long as there are matching rows has
them all. It is the reason why `Typed` states that the table is finite.
`OneReplyEach` needs `Once` (a query is waiting, at work, or handled, and only
one of them) and `Up` (a Reader that was not stopped is up). Proved are
`AnsweredOnce` and `AnswersRight`.

It also proves, about `ReaderService` and any set of HTTP requests, `CleanExit`,
`ExitCodeTells` and `PhasesAreTrue`. `ErrorKept` ties the group's error to the
goroutines that failed, `Drained` says what is true of the requests once the
server's shutdown has returned nil, `CutAtExit` that a request is only cut off by
an exit with an error, `ExitLast` that the process ends after its goroutines,
`Cancelled` that the shutdown starts only when the group's context is done.
`PhasesAreTrue` justifies what `QueryPath` keeps of a process: it goes from `up`
over `stopping` to `down`, and then no HTTP request is open.

`StartUpProofs` needs no more than the types of the bounds. `Checked`, what a
Writer has found on its way is still there, carries the knowledge of each check
to the end of the start; from it follow `TypeCorrect` and `RunningHasStores`.
`FailuresHaveCauses` goes through the actions once. `SingleWriterIsFed` assumes
that there is no second Writer, as in `docker-compose.yaml`: then the subject a
Writer has been told is the consumer's as long as it keeps it (`Fed`), through
every lost answer and every stop that deletes the consumer. With two Writers this
is false, as `StartUp_shared.cfg` shows.

`EventPathProofs` takes messages of any length and any publishers whose
identifiers are not those of Daemons. What `Words` and `Length` make of a message
is known by induction over its runs. The library's induction theorems take an
operator as a parameter, which the provers cannot instantiate; the lemma
`Induction` speaks of a set of numbers instead and rests on `Least`, that a set
of naturals has a least element (`NatLessThanWellFounded`, `WFMin`). `Recursion`
then gives the values of a recursive function. On them rest `NormalizedIs` (what
`Normalized` returns has words at the odd places and single blanks at the even
ones), `WordsNormalized` (it keeps the words) and `NormalStays` (what is in that
form stays as it is, so an event of a Daemon is stored unchanged).
The inductive invariant ties each row to a saved event (`RowsOfSaved`) and each
event of a Daemon to its row (`Kept`), which no other point overwrites, since
identifiers of Daemons are fresh (`OneId`). From it follow `EventsHaveRows`,
`RowsAreNormalized` and `LinesAreTrue`.

`DeploymentProofs` takes any environments and any number of changes of files.
`PastPair`, `PastDatabase` and `PastConnect` say what a program has loaded by
its place in the order of `run`. Their point is that what a step checks is not
what a later one reads: `RunningIsVerified` holds because of what `Connect` and
`Database` were given, and not because a file was there when `Stat` looked.
`EveryReplyIsGuarded` unfolds `Router`'s chain handler by handler, for every
request, every list of origins and every set of Swagger pages that names no
other route (`RouterAssumption`): a reply is a redirect, or it has the security
headers and keeps to the list of origins. That the redirect has neither is in
section 5.

**Only model-checked.** Liveness and fairness (`EarlyIsAnswered`, `CloseReturns`,
`EveryMessageEnds`, `StopReplays`, `ServiceEnds`, `StopEnds`, `ServicesComeUp`,
`InboxIsServed`, `FilesHeal`, `DaemonEmits`), with the liveness half of the
refinement of `EventRepository`: tlapm does not reason about `ENABLED`. All other
properties of the passing runs are theorems.

## 5. Findings

One run refutes what the repository says of itself: `writer_autoack`.
`js.Subscribe` without `nats.ManualAck()` acknowledges each message when the
callback returns, before its event is saved (`README.md:162`,
`processor.go:41`). `LossHasCause` shows what it costs: an event whose process
ends, or whose context expires, during the retries is gone from the stream.

Further configurations, to be run by hand (`tlc -config X.cfg M`), check what
documents and comments say of the program. TLC stops at the first property that
is refuted; where a configuration names several, keep the line of the one to be
seen.

| Configuration | Module | Property | What the code does |
|---|---|---|---|
| `WritePool_orphan` | `MCWritePool` | `EveryRequestIsAnswered` | comment above `writeWorker`, "always written to exactly once": a request accepted after the workers left is never answered; its caller waits for its deadline |
| `Writer_docs` | `MCWriter` | `StopLeavesNoHandler` | `README.md:235`: `wg.Wait` may return before the callback starts the next handler, which is then cut off |
| | | `PermanentFailureIsLogged` | `README.md:576`: an event is given up without a dead-letter line when its context ends during the backoff |
| | | `SaturatedIsRedelivered` | comment in `handleMessage`, "so JetStream redelivers it later": a NAK for saturation uses up a delivery, and after the last one the event is gone without a handler |
| | | `NoRetryAfterShutdown` | `README.md:199`: the signal does not cancel a retry sleep, another attempt follows |
| `Writer_durable` | `MCWriter` | `DurableSurvives` | `README.md:26`, "survives restarts": draining deletes the consumer that this process has made |
| `Writer_manual` | `MCWriter` | `AckAfterHandle`, `AckMeansStored` | hold: with manual acknowledgement what is acknowledged is handled and stored (theorem `ManualAckIsTrue`) |
| `Pipeline_atleastonce` | `Pipeline` | `AtLeastOnce` | `README.md:13`: an event is through without a row or a dead letter |
| `EventPath_docs` | `MCEventPath` | `StoredHasMessage` | `event.go:27`, `README.md:222`: a message of blank space passes and is stored empty |
| | | `EveryEventHasARow` | `README.md:185`: events of foreign publishers without an identifier, of one time and severity, overwrite one another |
| | | `TimeColumnIsEventTime` | `README.md:303-312`: `Time.String()` is not RFC 3339, so each line shows the client's time |
| | | `ColorsAsDocumented` | `README.md:312`: the colours have other bounds |
| `Daemon_giveup` | `Daemon` | `GivenUpAfterAllTries` | `README.md:129`, `README.md:25`: one lost message uses up the deadline of all tries |
| `QueryPath_replicas` | `MCQueryPath` | `OneReaderPerQuery` | `README.md:559`: without a queue group every replica handles every query |
| `QueryPath_envelope` | `MCQueryPath` | `EmptyIsAResult` | `asyncapi.yaml:82`: an error envelope is shown as a table without events |
| `QueryPath_swallowed` | `MCQueryPath` | `OnlyMissingTableIsSwallowed` | `influxdb_querier.go:92`: any error that names a table counts as "not yet created" |
| `ReaderService_halfdead` | `ReaderService` | `NoHalfDeadService` | `README.md:262`: when the NATS connection is closed for good no goroutine of the errgroup returns, and the Reader goes on over HTTP alone |
| `ReaderService_ready` | `ReaderService` | `ReadyMeansConnected` | `gin_handler.go:108`: `/ready` answers 200 with the connection closed |
| `StartUp_single` | `StartUp` | `RunningIsFed` | holds: a single Writer that runs is subscribed to what the consumer delivers (theorem `SingleWriterIsFed`) |
| `StartUp_replicas` | `StartUp` | `EveryReplicaRuns` | `README.md:554`, "JetStream load-balances messages across all instances": the subscription names no queue group, so a second replica is refused and restarted for ever |
| `StartUp_shared` | `StartUp` | `OneIsFed` | `README.md:554`, "exactly one writer": two replicas that look up an unbound consumer both subscribe to its subject |
| `StartUp_withdrawn` | `StartUp` | `RemainingIsFed` | `README.md:554`, as above: a failed request leaves a consumer that nobody is bound to, one Writer attaches to it, another makes the next one, is stopped in order and deletes it; the first is up and subscribed to a subject nothing is delivered to, and stays so |
| `StartUp_durable` | `StartUp` | `DurableSurvives` | `README.md:26`, as above, with the requests of the start |
| `Deployment_docs` | `MCDeployment` | `AlwaysMutual` | `README.md:428`: a Writer that is named no certificate files connects without a certificate of its own |
| | | `DefaultsMeet` | `README.md:333`: the default subjects of Client and Reader differ |
| | | `SwaggerInDevelopmentOnly` | `README.md:283`: nothing sets `AppEnv`, which decides the route |
| | | `DevelopmentAllowsAll` | `gin_router.go:21`, "all origins are permitted": with `APP_ENV=development` an origin that is not listed is refused all the same, since nothing sets `AppEnv` |
| | | `EveryReplyHasHeaders` | `gin_router.go:88`, `README.md:413`, `README.md:620`, `integration_test.go:119`: `GET /health/`, `/api/v1/events/` and `/swagger` get gin's 301, which no middleware has seen |
| | | `ReaderReads` | `README.md:434`: a Reader that found no CA file at its start warns and runs, and every query fails from then on |

That a rate or burst of zero or less silences the Daemon (`config.go:191` reads
any integer, `emitter.go` hands it to the limiter) contradicts no document; it is
the exception that `DaemonEmits` makes, and the hazard of that line refers to it.

## 6. Not modelled, and plan

* **Logging and the sanitizer package** (`pkg/logger`, `pkg/sanitizer`): regular
  expressions and wording over log text, which no other part reads.
* **Generated API documentation** (`docs/`): generated.
* **Configuration**: durations, booleans and addresses are either parameters of
  the other modules or not used; what is modelled are the settings that decide
  control.
* **MaxAttempts 0**: the loop of `Handle` would then save nothing and report
  success. The only policy the code makes is `DefaultRetryPolicy`, with three
  attempts, and `WriterAssumption` says so.
* **A stream of another name with the same subject**, which the README's
  troubleshooting table describes, and JetStream's storage limits.
* **The layout of the Client's table**: formatting. What decides a line's
  content is in `EventPath`.

Left to do: nothing of the plan. That the Daemon and the worker pool may stand in
for their ports inside the pipeline is shown port by port (`DaemonImplementsPort`,
`PoolImplementsPort`, `PortsAreKept`) and not as one theorem about the system put
together of the detailed modules. Liveness stays with TLC.
