# A verification of observability-agent

TLA+ models of the agent that collects logs, detects anomalies in them, has an
LLM explain the anomalies and notifies people; the TLC runs that check the models
on small instances; and TLAPS proofs of what holds for every instance. File names
below are relative to `src/src/`.

## 1. The system

| Component | State it keeps | Operations | What makes it correct |
|---|---|---|---|
| HTTP endpoint, `ingestion/http_endpoint.py` | none (two lazy singletons) | `POST /log`, `POST /logs/batch`: 202, then a background task | what was answered with 202 is accounted for |
| Log producer, `ingestion/kafka_producer.py` | `_sent`, `_failed`, the client's buffer, the dead-letter file | `send` (retries), `send_batch`, `flush`, `_delivery_report` | no duplicates of its own making; an entry is in Kafka or in the dead-letter file, never in both; what is lost without a trace is bounded |
| Normaliser, `ingestion/collector.py`, `models.py` | none | `normalise` | what it accepts, the consumer can read |
| Log consumer, `ingestion/kafka_consumer.py` | `_running`, the Kafka client's assignment and position, the batch in hand, counters | `start`, `stop`, `_poll_batch`, `_process_batch` | the committed offset passes only what was dealt with; at least once |
| Log store, `ingestion/db.py` | table `raw_logs` | `insert_logs_bulk`, `fetch_logs` | idempotent inserts; entries get stored |
| Ingestion process, `ingestion/main.py`, `db.py` | the pool, the server, the consumer's task | `startup`, `shutdown`, `run_consumer`, `get_pool`, `close_pool` | no pool is forgotten and no table missing without a cause |
| Detection, `detection/pipeline.py`, `feature_extractor.py`, `anomaly_detector.py`, `statistical_detector.py`, `ml_detector.py` | per service: baselines, CUSUM sums, training buffer and model; counters | `process_batch`, `analyze_batch` | every detected anomaly is pushed |
| Anomaly queue, `detection/anomaly_queue.py` | Redis list `anomaly:queue`, lock keys `anomaly:dedup:*` | `push`, `push_batch`, `pop` | bounded; deduplication hides no incident |
| Analysis worker, `analysis/worker.py` | `_running`, the task set, the semaphore, counters; table `analysis_results` | `start`, `stop`, `_process` | bounded concurrency; at most one row per anomaly; nothing dropped without a reason |
| Analysis graph, `analysis/agent.py`, `tools.py`, `prompts.py` | none between calls | `fetch_context`, `llm_analyze`, `format_result` | always ends with a result |
| Alert engine, `alerting/engine.py`, `router.py`, `models.py`, `db.py` | lock keys `alert:dedup:*`, the `Alert`, counters; table `alerts` | `process`, `route`, `_deliver`, `save_alert` | status, row and counters tell what happened; a cooldown has a cause |
| Slack and PagerDuty clients | none | `send` | an answer for every alert |
| Dashboard API, `dashboard/routers/` | none | `GET` endpoints, each a sequence of queries | the figures of an answer agree, totals do not go back |
| Live feed, `dashboard/routers/websocket.py` | the set of WebSocket clients | the handler with its two loops; `broadcast_anomaly` | no more clients than the limit; a dead client goes |
| `demo_simulator.py`, `seed_data.py` | | | demonstration data |

How they interact:

- The endpoint hands entries to the producer (a background task), the producer to
  Kafka (the client library's buffer), Kafka to the consumer (`poll`).
- The consumer writes `raw_logs`, then calls the `on_batch` callback, which is
  `DetectionPipeline.process_batch` when detection is attached, then commits. As
  `ingestion/main.py` runs it there is no callback: the constant `OnBatch`.
- Detection pushes to Redis; the workers pop from Redis.
- `AlertEngine.process` takes an `AnalysisResult`. Its docstring names the analysis
  worker as the caller, but no code under `src/` calls it: the model lets up to
  `Concurrency` calls be under way, which is what the worker's semaphore would allow.
- The ingestion process serves HTTP and runs the consumer in one event loop; both take
  the pool from `get_pool`.
- The dashboard reads the tables that the others write.

The hard behaviours are: group rebalances under a batch in hand; commits that carry
no offsets; failures between insert, callback and commit; check-then-act pairs of
Redis commands interleaved between processes; pops that remove before the worker
has; cancellations that reach tasks through `gather`; a local send buffer that
answers before the broker does, and whose places only a later send frees; stop requests at awkward moments; a lazily created pool
whose creation awaits; answers put together from several snapshots of a table. `PROJECT.json`
lists them with their lines.

## 2. The modules

| Module | Models | Run(s) |
|---|---|---|
| `LogConsumer` | the consumer processes, the broker they talk to, `raw_logs` | `consumer`, `consumer_stores` |
| `LogStore` | what the consumers promise: an at-least-once store | refined by `LogConsumer` |
| `LogConsumerProofs` | proofs about `LogConsumer` | |
| `AnomalyQueue` | the Redis queue, its pushers and poppers | `queue` |
| `AnomalyQueueProofs` | proofs about `AnomalyQueue` | |
| `AlertEngine` | concurrent calls of `process`, with router, channels, table | `alerts`, `alerts_cooldown` |
| `AlertEngineProofs` | proofs about `AlertEngine` and `AnalysisToAlert` | |
| `AnalysisWorker` | worker processes, their tasks, the queue they pop | `worker` |
| `AnalysisWorkerProofs` | proofs about `AnalysisWorker` | |
| `AnalysisOnce` | what the workers promise: at most once | refined by `AnalysisWorker` |
| `AnalysisGraph` | what the graph makes of the LLM's reply (pure) | through `AnalysisToAlert` |
| `AnalysisToAlert` | `AlertEngine` fed with the results of `AnalysisGraph` | `alerts`, `alerts_cooldown` |
| `Normaliser` | what a posted log becomes, and what the consumer reads (pure) | through `LogProducer` |
| `LogProducer` | requests, `send`, the client's buffer | `producer_dlq` |
| `IngestionService` | the ingestion process: `LogProducer`, the startup, the pool, the ends | `producer` |
| `IngestionServiceProofs` | proofs about `IngestionService`, `LogProducer` and `Normaliser` | |
| `Detector` | the state of the two detectors per service, the ensemble, `process_batch` up to the push | `detector` |
| `DetectorProofs` | proofs about `Detector` | |
| `LiveFeed` | the WebSocket clients of the dashboard and their handlers | `feed`, `feed_broadcast` |
| `LiveFeedProofs` | proofs about `LiveFeed` | |
| `Dashboard` | the endpoints against tables that change under them | `dashboard` |
| `DashboardProofs` | proofs about `Dashboard` | |
| `MCAnomalyQueue`, `MCAlertEngine`, `MCLogProducer`, `MCIngestionService` | instances and symmetry for TLC | |

Operators named `Bad...` are plausible mistakes in the operator they are named
after. No action uses them; putting one in place of its original shows that a
property can fail.

### LogConsumer

State and code: `topic`, `committed`, `owner`, `members`, `joined` are the broker's
(external, modelled from the settings in `kafka_consumer.py:57-67` and from the
calls the code makes); `assigned`, `position` are the client library's; `pc` is the
place in `start()`: `poll` (`_poll_batch` in its thread), `insert`, `callback`,
`commit`, `closing` (the `finally` clause), `down`. `batch` is `raw_messages`. One
action per await or blocking call:

| Action | Code |
|---|---|
| `PollRecord`, `PollError`, `EndPoll` | `_poll_batch`, then the deserialisation and the early return of `_process_batch` |
| `InsertRows`, `InsertFails` | `insert_logs_bulk`, one `executemany` in one implicit transaction; a failure may have been applied |
| `Callback` | `on_batch`, whose exception is swallowed |
| `Commit`, `CommitRaises` | `commit(asynchronous=False)`; an exception leaves `start()` |
| `RequestStop`, `Cancel`, `Crash`, `Close` | the ends of a process |
| `JoinGroup`, `Rebalance`, `Evict`, `Produce` | the client library, the coordinator, the producers |

Two facts make the model delicate. `commit()` has no arguments, so it commits the
position of the client for its current assignment, whatever batch the code has in
hand. And no rebalance callback is registered, so the assignment may change between
any two steps, which resets the positions to the committed offsets. `Fenced` is the
broker's rule that only members of the current generation may commit.

`insert_logs_bulk` hands `log.attributes`, a dict, to asyncpg for a `JSONB` column (`db.py:93`). asyncpg
takes text there unless the pool has a codec; `get_pool` sets none, and nothing here calls
`json.dumps`, as `alerting/db.py`, `analysis/db.py` and `seed_data.py` do. So as the code is, every insert of a
batch that has an entry raises. `codec` says whether the pool has such a codec, the constant `Codecs` which
values a run or a proof considers: `{FALSE}` is the code as it is, and with both values everything
else is checked and proved for the day it is mended, too. Without a codec only `InsertFails` is
possible, and it takes no fault.

A message is a decodable entry or garbage; a payload is its id, since inserts are
keyed by id. A record that a batch skips as garbage counts as dealt with.

### AnomalyQueue

One action per Redis command of `push`: `CheckLock` (gate and `EXISTS`), `CheckSize`
(`LLEN`), `LPush`, `SetEx`; between them every other pipeline, `Pop` and `Expire` may
act. `Interrupted` is an exception or the death of the process at any of them, the
command applied or not; it ends the batch, as nothing catches it. `Returned` is
the loop of `push_batch` and the sum of `process_batch`. Time is abstract: `Expire`
may happen at any moment after `SETEX`. `window[k]` counts what was queued for a key
since its lock last expired.

### AlertEngine

The call for result `r` is at `get`, `setex` (the two awaits of `_is_duplicate`),
`deliver` (`gather` over the channels) or `save`. `ApplyResults` applies `mark_sent`
and `mark_failed` in the order of the rule's channels (`Applied`). `Deliver` has the third
outcome that a client with a timeout has: failure, though the message got through.
`Abort` is an exception of Redis in `route`, which nothing catches, or a
cancellation.

### AnalysisWorker

`pc` is the place in `start()`: `starting` (the two awaits before the loop), `pop`,
`gather`, `finally`. `phase[a]` is the place of the task for `a`: `waiting` for the
semaphore (FIFO, as `asyncio.Semaphore` is: by the order of the pushes, in which a worker
pops), `analysing` (the graph), `saving`,
`ended`; an ended task stays in `tasks` until its done-callback runs (`Discard`). The
graph is one step: `fetch_context` replaces failed tools by defaults and `llm_analyze`
replaces a failed call by the fallback, so it ends with a result; an exception
elsewhere is `TaskFails`. `stopping` remembers whether `stop()` came while `start()` connected
(`early`): then `worker.py:51` (`Started`) overwrites it. Anomalies are named by the order of their
pushes, so that one behaviour stands for all orders of their names. `CancelGather` is the rule of asyncio that cancelling a
`gather` cancels what it waits for.

### AnalysisGraph and AnalysisToAlert

`AnalysisResult` composes the nodes of the graph. A reply of the LLM is an answer, whose
confidence and severity the validators clean, or a failure of any kind, which
`llm_analyze_node` replaces by `_fallback_analysis`. An exception without a message would
make `success` true for a fallback; no exception that the calls raise has an empty one.
`AnalysisToAlert` takes these results as the arguments of `process`: the assumption
`GraphAssumption` ties the constants of `AlertEngine` to the graph.

### Normaliser

Strings by their kind: empty, blank, padded, of the wrong case. `FromDict` picks the fields with
their defaults, `LogEntry` is the validators, `Normalise` the two of them with exceptions as
the empty set. Two things the model does not need but a reader may: `_from_dict` merges
`attributes` into themselves, as `attributes` is not a reserved key; and ids are generated
per request, so that a client which repeats a `POST` makes a second entry.

### LogProducer

`Accept` is a request, single or batch, every log of which normalises. `_produce_one` is two steps of
a pool thread, `Produce` and `Poll`; `BufferError` and `ProduceRaises` are the other outcomes of
`produce()` as `send` treats them, and neither gets to the `poll(0)` of line 124. `KafkaException` may come at
any attempt. `Deliver` and `DeliveryFails` are the client library's and the broker's. The client
is not idempotent (`enable.idempotence` is not set), so a lost acknowledgement repeats a record,
and records may overtake one another.

What the client is done with, delivered or given up, is in `reports` until a `poll()` serves its report, and
holds its place in the client until then (`Full`). That `poll(0)` is the only one: nothing polls
or flushes after the last send. So `_delivery_report` hears of an entry only in a later `send`
(or, if the broker is quick, in its own): `refused` is what the client gave up, `undelivered` what was
reported of it. And a client that is full stays full, because the sends that could free a
place all raise `BufferError` before they poll. Of the sends of a batch that raise, `gather()` passes on
the first exception and drops the others: they are in no log.

### IngestionService

Extends `LogProducer` by `server` (uvicorn), `consumer` (its task), `at[c]` (where the `get_pool()` call of
the startup handler or of an insert is: `creating`, `tables`, `ready`), `held[c]` (the pool it
got), `pool` (`_pool`), `open` and `tables`. `GetPool` goes up to the first await, `CreatePool` is the
assignment after it, `CreateTables` the statement and the return, which reads `_pool` again.
`run_consumer` installs signal handlers over those of the server, so that a signal stops the
consumer and nothing else (`ConsumerStops`), and the process goes on serving; `close_pool`
runs only when an exception of the consumer leaves `gather()` (`ConsumerFails`, `ClosePool`).
A startup that fails lets `serve()` return while the consumer runs on. Of the consumer only its
inserts are here. `ProcessEnds` is the `Shutdown` of the producer with that of everything else;
what is under way, in the buffer or given up and unreported then is `purged`.

### Dashboard

A request is its endpoint's sequence of queries (`Queries`), answered one by one, or in any order
by the two endpoints of `metrics.py`. No endpoint uses a transaction, so that rows may come
(`Insert`) and leave a window (`Age`) between two queries. A row is what the queries tell apart: its
mark (level, severity, status) and its age in windows. The queries of an answer do not disturb
one another, therefore a behaviour follows one table and at most two figures of each answer: any
violation of a relation between two figures is still found. `FetchvalFails` is `_fetchval`'s
`None`, shown as 0; any other failure is a 500.

Observations that are no properties: `suppressed` of `/api/alerts/stats` is `total - sent`, so it counts
failed alerts, and differs from `suppressed_last_24h` of `/api/metrics/summary`; `pipeline_health`
never answers "down" although its docstring names it, and reports detection and alerting as ok
without looking; the lifespan closes the ingestion pool only.

### Detector

`samples` and `spoilt` are what the histories of a service hold: how many values, and for
how many more windows one that is not finite. The four features are recorded together,
so one history stands for four. `seen`, `trained` and `poisoned` are `windows_seen` (also
`len(buffer)`: nothing trims the buffer), `last_train_at`, and whether the buffer holds
a vector that is not finite. `Analyze` is one `analyze()`: `Record`, `Buffer`, `Train`, then
the two scores, which are any grade of a small set wherever the code computes one, and
the ensemble (`Fuse`, `Severity`, `IsAnomaly`) in exact integers. `AnalyzeRaises` is an
exception of scikit-learn: `analyze_batch` has no handler, so the batch ends, although
the docstring of `analyze` says that it "Always returns a result". Which vectors
scikit-learn rejects depends on its version, therefore `Analyze` stays possible.

Two things the sources say differently: the header of `statistical_detector.py` says the
score is the maximum over the features, the code takes their weighted sum; the model
has neither, as a score is any grade.

### LiveFeed

`handler[ws]` is the await at which `websocket_live` is (`accept`, `first`, `wait`), `push[ws]`
and `recv[ws]` those of the two loops, `link[ws]` the client's end. A payload is built and
sent in one step, as nothing depends on its contents: it arrives, times out or fails.
`CancelPending` is `task.cancel()`, which ends a loop at its await.
`Broadcast` raises in its first line (`BroadcastSent` is empty), see below.

## 3. What the runs check

Bounds are constants of the modules or set in the `.cfg` files. Deadlock is not
checked in any run, because each system may really stop: processes end and nothing
restarts them, and the inputs of an instance run out.

- **consumer**. Two consumers, one partition, two entries and a garbage payload, topics of
  two records, one fault, two starts, pools with and without a codec, under `FairSpec`. Two consumers are enough for an evicted one
  and its successor. `CommitCoversOnlySettled`, `CommitCoversOffered`,
  `CommittedNeverRewinds`, the inductive invariant `IndInv` (which has `OfferedAreStored`, that the callback
  sees stored entries only), the refinement `ImplementsLogStore`, and the liveness property
  `RecordsAreWorkedOff`: a record is committed, or given up by an insert that raised; no record holds
  the group up. Without a codec it is always the latter. The instance is small because of liveness (no symmetry); all of the
  safety properties are proved for every size (section 4).
- **consumer_stores**, expected to fail. `EntriesGetStored`, the header of `kafka_consumer.py`: "persists to
  PostgreSQL in bulk". One process as `main.py` runs it and no fault: the insert raises, the batch is
  dropped, and the entry never becomes a row. Once inserts work, a second thing comes to light, which
  the run `consumer` allows (`Settled` counts a failed insert): `_process_batch` returns without a commit after
  an insert that raised, but the commit of the next batch covers both, although
  `kafka_consumer.py:166` says "Commit offsets only after successful processing".
- **queue**. Two pipelines, a queue of two, five events (four of one key, one of them
  unreadable, one of low severity), batches of up to two, one interruption.
  `QueueBound`: the size guard can be exceeded by one event for each further
  pipeline. `DuplicatesBounded`: one event per pipeline and lock, and one per
  interruption. `SuppressedOnlyBehindQueued`: nevertheless no event is suppressed
  unless another one of its key was queued, because the lock comes after the push.
  `EveryEventHasAnOutcome`. `anomaly_queue.py:8` says an event "won't re-queue" within the
  TTL; `DuplicatesBounded` is what is left of that when several pipelines push.
- **alerts**. Seven results: three confident criticals of one service (interchangeable),
  one below the threshold, one that the LLM calls low, one whose severity no rule names, one
  of a failed analysis; two calls at a time, one fault. `StatusTellsDelivery`, `CooldownHasACause`,
  `OutcomesAgree` (rows, statuses and counters), `RoutedPerCooldown`, and
  `FailedAnalysesStaySilent`: while the LLM fails nobody is alerted, since the fallback has confidence
  0, but nothing is held back behind it either.
- **alerts_cooldown**, expected to fail. `HeldBackAfterASending`, the sentence of
  `src/README.md:336`: both channels fail, the next alert is held back.
- **worker**. Two workers of concurrency one, three anomalies, one of which may not parse, one fault,
  two starts, under `FairSpec`: with two tasks the loop waits in a gather, and the third
  anomaly arrives meanwhile. `TasksBounded`, `EveryAnomalyIsAccountedFor` (by the system and
  by the counters), `ImplementsAnalysisOnce`, `QueueIsWorkedOff`, and `StopTerminates`: a worker that was
  told to stop once its loop had begun ends. A `stop()` that comes earlier is lost.
- **producer**. `IngestionService` with three logs that normalise (one of them by defaults) and a blank
  one, requests of up to two, two attempts, a buffer of two, one lost acknowledgement, one insert of the
  consumer and one fault of the database, with the producer's fairness. One insert is
  enough for two overlapping calls of `get_pool()`, and for an insert after a startup whose
  `CREATE TABLE` failed. `DeadLettersAreNotInKafka`, `NoDuplicatesBySend`, `EveryEntryIsAccountedFor`,
  `FullForGood`, `TopicIsReadable` (what the topic holds the consumer can read, and for every kind of posted log
  only a blank field rejects it), `PoolTroubleHasACause` (an open pool is forgotten only by
  overlapping calls, one each; an insert finds no table only after overlapping calls or a
  failed `CREATE TABLE`), `SendEnds`. `EveryEntryIsAccountedFor` does not take a loss for an account: what
  was called sent is in Kafka, with the client, given up by it, or ended with the process; a `BufferError`
  takes a client that took as many entries as it holds; and what is in neither the topic nor a logged
  error is never more than that either. `FullForGood`: nothing but the end of the process
  empties a full client, so that from then on the endpoint answers 202 and loses every entry. With
  three entries for two places both cases occur: the report of an entry is served by the send of
  another one, and a send finds the client full of reports.
- **producer_dlq**, expected to fail. `FailedDeliveriesAreDeadLetters`, the header of
  `kafka_producer.py`: a delivery that fails after `send` returned is only logged, by the `poll(0)` of another send.
- **feed**. Three clients, two places, one failing payload, under `FairSpec`: the third
  client can be admitted beyond the limit, when its handshake overlaps with another's. `LimitExceededOnlyByOverlap`: the limit
  is tested before `accept()` and the client counted after it, so that the excess is
  less than the number of handshakes that overlapped. `QuietClientsStay`: the push loop
  skips a timeout, so that a client which only listens keeps its feed; a client which
  asks may lose it, as the receive loop treats a timeout as an end. `GoneClientsLeave`:
  whatever the handler is doing when the client goes, the registry loses it.
- **feed_broadcast**, expected to fail. `BroadcastReachesAll`, the docstring of
  `websocket.py:175`: `_connected_clients -= dead` makes the name local, and the first
  line of the function raises `UnboundLocalError`.
- **detector**. Two services, batches of up to two windows, histories of three values
  (scored from two on), training at three windows and every two, six windows between
  two resets: enough for two trainings, for a spoilt value to leave a history, and for
  a poisoned buffer to be due for training. `ForestIsCurrent`: a warm service has a model
  that is never older than the interval, unless a vector that is not finite is in its
  buffer, after which training may fail for ever. `FlaggedByStatistics`: the forest
  alone never flags, and it clears no window of a history that holds a value which is not
  finite: its service is flagged until the value has left the history. `FlaggedIsQueueable`: the two tables of thresholds agree.
- **dashboard**. Three rows, two changes during a request, lists of one or two: two changes are
  an insertion and a row that leaves a window within one answer. `FiguresAgree`: the figures of an answer differ at
  most by what happened while it was put together, and those that count rows which never
  go away differ in the direction of their queries only; `total - sent` is not below minus
  the insertions. `PollsAdvance`: no total of any endpoint is below one shown before.

### Fairness

`LogConsumer`: weak fairness of every step the event loop would run (a coroutine that
can continue does) and of the coordinator; strong fairness of `PollRecord`, because
`poll()` returns a record as soon as there is one, so that `_poll_batch` does not time
out for ever before a partition that has records. There is none of `Start`:
`docker-compose.yml` sets no restart policy, so a process that ended stays down and
the liveness properties except that case. There is none of the faults.

`AnalysisWorker`: weak fairness of the loop and of each task. `BRPOP` returns or times
out; the LLM client has a timeout; the database is assumed to answer.

`LogProducer` and `IngestionService`: weak fairness of each `send`, whose steps the event loop and its thread
pool run, and of the client's own thread, which delivers an entry or, by `message.timeout.ms`, gives it up
without any call of ours. That a report is ever served is not assumed, as it takes another send: `SendEnds`
ends in the topic or in `refused`, not in the error report. There is none of the pool, the server and the consumer: `asyncpg.create_pool` may hang.

`LiveFeed`: weak fairness of what the event loop runs; the sends have a timeout and
`receive_text()` reports a disconnect. There is none of what clients do.

## 4. What is proved

`LogConsumerProofs`, for any set of consumers, partitions and entries and any bounds,
from `SizesAssumption` and `NamesAssumption` only:

- `TypeCorrect`, `InvCorrect`: `[]TypeOK` and `[]IndInv`.
- `NothingPassedUnsettled`, `NothingPassedUnoffered`, `NothingOfferedUnstored`: the three
  safety invariants, with a codec or without.
- `NeverRewinds`: no step moves a committed offset back.
- `Implements`: `Spec => Promise!Spec`, the refinement of `LogStore`.

The argument. That committed records are handled is not inductive: the commit copies
the position, so one has to know about everything the position has passed. `IndInv`
says of a consumer of the current generation that it owns exactly what the
coordinator gave it, that its positions are not behind the committed offsets
(`FencedByGeneration`), and that everything below its position is handled or in the
batch it holds (`ReadIsHandledOrHeld`); and of any consumer, evicted or not, that a
batch on its way to the commit is stored and offered (`HeldIsStored`). A
rebalance empties `joined`; joining sets the position to the committed offset, from
where the claim starts again; a zombie is no member of `joined`, so that nothing is
claimed of its position, and `Fenced` keeps it from committing. `OnlyProduced` bounds
all of them by the length of the topic.

`AnomalyQueueProofs`, from `QueueAssumption`:

- `TypeCorrect`: `[]TypeOK`, which includes that a pipeline at a Redis command has an
  event in hand.
- `QueueIsBounded`: `[]QueueBound`. The invariant counts the pipelines that are past the
  guard together with the queue (`QueueBoundInductive`): passing the guard needs a queue
  below the limit, and then at most the other pipelines can be past it too.
- `NothingIsHidden`: `[]SuppressedOnlyBehindQueued`. Every lock has an event of its key that
  was queued (`LocksHaveEvents`), because a lock is set by a pipeline whose event is in the
  queue already; and the event held back is another one, because what a pipeline has in
  hand was not queued before, is its own and is there once (`OwnEvents`).
- `OutcomesAreKnown`: `[]EveryEventHasAnOutcome`.
- `DuplicatesAreFew`: `[]DuplicatesBounded`. While a key has no lock, what was pushed is about
  to get one or was interrupted, and only a pipeline that found no lock adds to it; so the
  pushes in a lock's life and the pipelines still past `EXISTS` are at most all pipelines
  and the interruptions (`FewDuplicates`).

`AlertEngineProofs`, from `AlertAssumption` and `GraphAssumption`:

- `TypeCorrect`: `[]TypeOK`, the alerts and the answers included.
- `StatusIsTrue`: `[]StatusTellsDelivery`. Until its channels answer, nothing but its routing
  happens to an alert, and afterwards it is what `ApplyResults` made of the answers
  (`CallsInv`). What that is, `AppliedTells` says: by induction over the channels of the rule, the
  alert is sent once a channel before has accepted it, failed when all refused it, and
  names the channels that accepted it.
- `CooldownsHaveCauses`: `[]CooldownHasACause`. A lock has a call behind it that passed the gate
  and was not suppressed (`CausesInv`), because `SETEX` comes after both; what is behind a
  cooldown stays behind it, whatever becomes of the call (`StaysBehind`).
- `OutcomesAreTrue`: `[]OutcomesAgree`. A step lets at most its own call finish, and that call
  counts as sent exactly when a channel accepted its alert (`SentInv`), because the status which
  the counter follows tells it.
- `CooldownBoundsRouting`: `[]RoutedPerCooldown`. A key without a lock has been routed by
  nobody since the last one, or by calls that have not set it yet (`CooldownInv`); a call
  is counted once, so that the calls that can be under way bound the alerts.
- `NoCallIsLost`: `[]CallsAreCounted`, and `RowsAreTrue`: `[]RowsTellTheOutcome`, on which
  `OutcomesAreTrue` rests.
- `GateIsSilent`: `[]GateHolds`, the silence of the confidence gate: a result that the gate holds
  back is never between `GET` and the row.
- `FailuresAreSilent`: from `GateAssumption` as well (the rules of the severities that reach
  analysis ask for some confidence, as `router.py:33` does), `[]FailedAnalysesStaySilent`: the
  fallback of the graph has confidence 0 (`FailuresHaveNoConfidence`), so the gate keeps it.

`AnalysisWorkerProofs`, from `WorkerAssumption`:

- `TypeCorrect`, `InvCorrect`: `[]TypeOK` and `[]IInv`.
- `TasksAreBounded`: `[]TasksBounded`. The loop creates a task only below the limit, and a
  gather leaves the tasks it waits for out of it: `LoopInv` bounds the tasks together with
  those the loop waits for, because by then the latter are gone.
- `Accounted`: `[]EveryAnomalyIsAccountedFor`.
- `Implements`: `Spec => Promise!Spec`, the refinement of `AnalysisOnce`.

The argument: an anomaly without a task is yet to be pushed, once in the queue, or lost
(`QueueInv`); a task belongs to the one process that created it and is in its set until it
has ended (`TaskInv`); it has no row before it ends, one at most after, and none only after
a fault (`RowInv`). So a pop makes a task of an anomaly nobody else has, a step of one
worker touches no counter of another, and where an anomaly is in `AnalysisOnce` can be read
off its phase (`Located`).

`IngestionServiceProofs`, from `ProducerAssumption` and `ServiceAssumption`, for
`ServiceSpec`; every step of the process is a step of `LogProducer` or leaves it alone:

- `TypeCorrect`, `DeadLetters`, `NoDuplicates`, `Accounted`, `Topic`: `[]` of
  `ServiceTypeOK`, `DeadLettersAreNotInKafka`, `NoDuplicatesBySend`,
  `EveryEntryIsAccountedFor`, `TopicIsReadable`. Where an entry may be follows from how its
  `send` ended (`SendInv`): in the buffer, the topic, the reports or among what was given up only after
  `produce()` took it, in the dead-letter file only after "failed". An entry that enters the buffer is
  therefore new to buffer and topic, and each step that leaves one behind in both has its
  lost acknowledgement. For the bounds of
  `EveryEntryIsAccountedFor` one has to know that buffer and reports together have no entry twice (`PlaceInv`): so a
  full client took as many entries as it holds, and while the process runs what is unknown
  holds a place, since a poll logs what was given up among the reports it serves. The topic is readable because the validators change nothing the
  second time (`Readable`, by cases over the kinds of strings).
- `NeverFreed`: `FullForGood`. A delivery moves an entry from the buffer to the reports, which by `PlaceInv`
  do not have it yet, so that it frees nothing.
- `PoolTrouble`: `[]PoolTroubleHasACause`. Each `create_pool()` under way beside another, or
  beside a pool, will forget a pool and has its overlap already (`PoolInv`); a pool
  without tables has a caller at its `CREATE TABLE`, or nobody who would use it
  (`TableInv`).

`LiveFeedProofs`, from `FeedAssumption`: `TypeCorrect`, `LimitHolds`
(`[]LimitExceededOnlyByOverlap`) and `QuietStay` (`[]QuietClientsStay`). The limit needs that
`overlap` is at least the number of handshakes under way (`LimitInv`): admitting one more
needs a registry below the limit, and from then on the sum of registered and
accepting clients only shrinks, or grows with `overlap`. A quiet client stays because,
while the server has not failed, its handler waits, its push loop sleeps or sends, and its
receive loop is at `receive_text()` (`Listening`).

`DetectorProofs`, from `DetectorAssumption`: `TypeCorrect`, `ForestStaysCurrent`,
`StatisticsDecide`, `FlaggedAreQueued`. `ForestIsCurrent` needs in addition that a model was
trained on `MinTrain` windows at least (`TrainedWhenWarm`), or the step to the
`MinTrain`-th window might find a model trained on fewer. The two about flagged windows rest on
`SeverityOfScore`, which goes through the table of thresholds, and on `FuseBounds`; they
hold for every score, where the run has four grades. That a window of a history that is
not finite is flagged needs that each service has one window in a batch (`OncePerService`)
and that its grade is the top one (`SpoiltIsFlagged`).

`DashboardProofs`, from `DashboardAssumption`: `AnswersAgree` (`[]FiguresAgree`) and
`AnswersAdvance` (`[]PollsAdvance`), for tables of any length. Two answered figures are
related through the table: a figure and what its query counts now differ by what came or left a
window since (`StaysNear`), because an insertion adds one row to what a query counts
(`InsertMatching`), and a row that grows old takes one from it (`AgeMatching`). When a later query is
answered it counts what the table holds then, so that the two figures agree up to the changes
between them, and in the direction of their queries (`OneByOneAgree`); the order in which
concurrent queries are answered is not known, therefore `AtOnceAgree` has the changes in both
directions. A total that counts all rows has no window that a row could leave; what an
earlier answer showed is therefore bounded by the rows (`known`), and a later query sees all of them.

On induction. The induction theorems of the library have an operator as a parameter, which the
provers used here cannot instantiate. Where a proof needs induction over the naturals
(`AppliedTells`), it takes it from the well-foundedness of their order: a set of naturals that is
not empty has a least element (`Least`), and a set that holds the first number and with
each number the next one holds all of them (`Induction`). `Recursion` shows in the same way that the
function which `Applied` defines recursively exists.

Only model-checked: liveness (`RecordsAreWorkedOff`, `QueueIsWorkedOff`, `StopTerminates`,
`SendEnds`, `GoneClientsLeave`), since fairness and `ENABLED` are out of reach of the
proof system used here. Every other property of the passing runs is stated by a theorem. That the
four failing runs fail is shown by their counterexamples.

## 5. Not modelled

- The prompts, the payloads of Slack and PagerDuty, the answers of the tools: text. The
  dependency map of `tools.py` is a constant, and its depth goes nowhere: the context takes
  only callers and callees.
- Plain-text lines in the normaliser (nothing under `src/` posts them), timestamps, attributes.
- The pools of `alerting/db.py` and `analysis/db.py`: the same code as that of `ingestion/db.py`, and
  nothing closes them.
- The scores of the detectors: floating point and scikit-learn (any grade instead).
- The durability of PostgreSQL, Redis and Kafka: they are taken to keep what they
  acknowledged, and PostgreSQL to take what the client library sends it. That Redis may evict or lose keys is not considered.
- The demo scripts: they generate demonstration data.

## 6. Plan

In this order:

1. `LogConsumer`, `LogStore` and their proofs: done.
2. `AnomalyQueue` and the proofs of its types and its bound: done.
3. `AlertEngine`, `AnalysisWorker` with `AnalysisOnce`, `LogProducer`: modelled and checked.
4. `LiveFeed` and `Detector`: modelled, checked, and their safety properties proved.
5. `IngestionService` with the pool, `Normaliser`, `AnalysisGraph` with `AnalysisToAlert`, `Dashboard`: modelled
   and checked.
6. A composition of consumer, queue and worker (`OnBatch`, `process_batch`, `pop`) that
   follows one incident from the topic to a row of `analysis_results`.
7. Proofs of `AnomalyQueue` and of `AlertEngine`: done.
8. Proofs of `AnalysisWorker`, the refinement of `AnalysisOnce` among them: done.
9. Proofs of `IngestionService`, the producer and the normaliser in it: done.
10. Proofs of `Dashboard`: done. With them every safety property of the runs is proved.
11. To come: theorems on what the runs do not ask, as action properties (a settled alert is never
    changed, the dead-letter file only grows, a stored result stays), from the invariants
    that are proved already; shorter proofs where lemmas repeat one another.
