# CoinWhale data pipeline: TLA+ specification

TLA+ models of the parts of the pipeline that are hard to test: the ClickHouse
write path of the Silver jobs, the ClickHouse client they share, the Kafka
producer wrapper of the collectors, the data-quality gate, the collector
process, the path of a trade from its partition to the totals of its window, and
what two jobs remember in the driver between batches. TLC checks them on small
instances; TLAPS proves every safety property of the passing runs, and the
refinement, for every value of the constants.

## The system

```
Binance WS / REST --> collectors --> Kafka --> Spark Silver jobs --> ClickHouse stream.* --> dbt gold.*
                        |              ^            |      |
                   bad rows, DLQ ------+     dead letters  quarantine, quality events
```

| Component | State | Operations | Hard behaviour |
|---|---|---|---|
| Collector process (`collectors/run_all.py`, `base_collector.py`, `rest_poller.py`) | one asyncio loop; per WebSocket collector the `running` flag, the reconnect delay, the idle time; per REST endpoint the number of failures in a row | connect, receive, time out, reconnect; poll, back off; shut down | tasks interleave at every await; the first task that stops closes the producer of all; an exception of one task ends the process |
| Kafka producer wrapper (`common/kafka_utils.py`, `common/bad_rows.py`) | `_closed`, `_in_delivery_callback`, pending counter; the library's queue | `send`, `send_bad_row`, `flush`, `close`, delivery callbacks | called from the event loop, a thread pool and the library's own thread; callbacks nested in polls; a dead letter may itself fail |
| Silver write path (`spark_jobs/ch_writer.py`, `silver/oi.py`, `silver/price.py`) | checkpoints, tables, dead-letter directory, audit log; failure counters | `write_to_clickhouse`, direct inserts, dead-lettering, retention, fail-fast | swallowed and re-raised exceptions decide whether Spark commits; crashes and replays; inserts that end after their client gave up |
| Shared ClickHouse client (`ch_writer.get_client`) | cached client, lock, time of the last health check | get, ping, connect, discard | used with and without the lock by queries that run concurrently |
| Silver application (`spark_jobs/silver_aggregator.py`) | the running queries | start, `awaitAnyTermination`, stop all | one failing query stops all |
| Data-quality gate (`spark_jobs/quality_gate.py`, `silver/base.py`) | quarantine, quality events, fallback files | gate, quarantine, report, clean up, strict mode | two queries judge the same rows at different times; three-valued conditions; each write may fail |
| Routing (`common/config.py`) | none | partition spans, lanes, route | remainders, overrides, symbols outside the universe |
| CVD job, reader, offset limits (`silver/cvd.py`, `silver/base.py`, `spark_jobs/kafka_reader.py`) | offsets, planned batch, state store and watermark in the checkpoint; limits fixed at the start | start, plan, gate, aggregate, write, commit | two topics under one watermark; limits that leave trades behind; replays; dead letters |
| OI and price state (`silver/oi.py`, `silver/price.py`) | last open interest, book snapshots, all driver-local | update, read | updated before the insert; fed by other queries; lost with the process |
| Schema checks (`common/collector_schema.py`) | none | pure functions | field by field |
| Batch ledger, row hashes (`batch_ledger_contract.py`, `row_hash_policy.py`) | none; not wired into a job | pure functions | order of status transitions |
| dbt marts, Airflow, metrics | outside the model | | |

What makes each correct: no row is lost without a trace (a committed batch is in
its table or in a dead letter; a message is delivered, dead-lettered or in the
fallback file; a rejected row is in the quarantine or a note says it may not
be; an accepted trade is counted once); the records that are kept tell the truth
(audit events, quality events, the basis and the open-interest change of a row);
shared objects are used safely; and nothing gets stuck.
`PROJECT.json` lists the hazards line by line with the properties aimed at them.

## Modules

| Module | Models |
|---|---|
| `SilverWriter` | the write path: plan, collect, insert, classify, dead-letter, clean up, decide, commit; shutdown, crash, restart |
| `BatchDelivery` | what the write path promises, in three actions |
| `ClickHouseClient` | the cached client and its lock |
| `KafkaProducer` | the producer wrapper with both backends |
| `QualityGate` | gate, quarantine, quality events, retention |
| `Collectors` | WebSocket collectors, REST pollers, `run_all` |
| `TopicRouting` | the partition of a record: operators without state |
| `CvdStream` | composes `TopicRouting` with the CVD query: arrivals, start, batches, restarts |
| `DriverCaches` | the dictionaries of `price.py` and `oi.py` and the queries around them |
| `MC*` | instances for TLC |
| `*Proofs` | theorems, checked by TLAPS |

`PROJECT.json` maps every definition to its source lines. Definitions named
"Mutant" are wrong on purpose and are not part of any specification: each is a
plausible bug that the property beside it in `PROJECT.json` must notice.

**SilverWriter.** A query's handler is a program counter `pc[q]` that moves
through the steps of `write_to_clickhouse`; a step of the model ends where
another query, retention, a crash or the server can interfere. An exception is a
set of text markers, since `_classify_ch_error` searches texts. An insert that
raises may have been applied, not applied, or be running still (`inflight`), and
then lands later. Spark's side (planning, commit log, replay of the same rows)
is external. Each query instantiates the same module; `DirectQueries` are the
two jobs that insert by themselves and re-raise everything. `Refusals` are the choices
of what ClickHouse refuses however often it is tried. `audit` is the event that is
built; `AuditLog` what is printed of it, which takes `SPARK_WRITE_AUDIT_STDOUT=1`.

**BatchDelivery** is the abstract specification: batches are committed in order,
each with rows only after its rows have landed or been put aside completely.
`ImplementsBatchDelivery` maps `done` to the commit log, `landed` to the table
and `aside` to complete dead letters, those removed by retention included.

**ClickHouseClient.** Clients are numbered in the order of their creation; a
connection may break at any time, a health check is due from time to time, and
writers go through `get_client`, the insert, and the except clause that discards
the cached client, whichever it is by then. `ping()` of the pinned
clickhouse-connect 0.15.1 catches what it meets and returns False, which
`get_client` ignores: whatever `ping()` returns, the client is handed out as healthy
(`PingReturns`). Only an exception it lets through has the client replaced
(`PingRaises`).

**KafkaProducer.** An activation (`frames`) is a call in progress: its thread,
its depth in the thread's stack, its message and its location. A confluent
callback runs nested inside the `poll` or `flush` of some thread; a kafka-python
callback runs in the library's thread, or at once when the future is done before
the callback is attached.

**QualityGate.** A topic is a sequence of rows, each reduced to what the gate
looks at. The main and the quality query read it at their own pace and judge a
row at the time of their own batch; each begins at the end the topic has when it
starts for the first time (`Begin`; `startingOffsets=latest`), so rows between the two
beginnings are seen by one of them only. The rollup book-ticker topics have no quality
query: a row the gate rejects there leaves no evidence by design. `everKept` and `noted` are history variables:
what was once written, whatever retention has removed since.

**Collectors.** One program counter per task. A recv timeout is a step that adds
to the idle time; REST delays are computed as in `compute_backoff_delay`, with
jitter as a choice of factor and in hundredths of a second, so that nothing is
rounded. (The jitter of a reconnect changes only how long the sleep is.) `FloatExponent` stands for 1023, the exponent
beyond which `2 ** n` is no float any more; failure counters saturate just above
it, because larger values behave alike.

**TopicRouting** keeps the names of `config.py`. A hash is a number; an override
of `KAFKA_ACTIVE_LANES` is a function from pairs with `"*"` for "any". A symbol
that is not in the routing universe extends it, each symbol by itself, so that
two of them share a span; `OnePartitionOneSymbol` is therefore stated for listed
symbols (`ROUTING_SYMBOLS` defaults to what the process itself collects, so two
collector processes with different lists may disagree).

**CvdStream.** A trade is known by its place (market, partition, offset); its
record has the symbol, its own time and the time at which it came to Kafka. `Plan`
writes offsets, time and watermark of a batch to the checkpoint, as Spark does
before it runs one; `Write` is the handler, `Commit` the commit of offsets, state
store and watermark. An insert that fails for the client has no effect, has had its
effect, or is still running (`FailedInsert`), and then ends after newer rows of the same
windows (`LateInsertEnds`); `stale` has the windows whose row is known to be out of date:
its last version went to a dead letter or was replaced by such an insert. `Start` is the start of a query in `silver/base.py`: the
latest offsets without a checkpoint, the limit from the lag if the exporter
answers. The division of a limit over partitions, watermarks and eviction are
Spark's and external. Volumes of a window are represented by its trade count.
The handler is one step here, or its failure: what happens inside it is `SilverWriter`. Batches
without data, which only move the watermark's effect forward, are left out.

**DriverCaches.** A cached quote is the origin of its columns: for bid, ask and
time, the row each was taken from, because `last(ignorenulls)` takes every column
by itself. The mark-price handler takes its time once and reads the two markets in
two steps, between which other threads may replace either. A quote query's handler
and its commit are one step, since nothing the handler does survives the process.
A snapshot of the open interest is a number; `_calc_change_pct` remembers the last
value before the insert. The failure of any handler ends the process, and with it
both dictionaries. Symbols do not interact, so there is one; price and open
interest do not either, so a process runs one of the jobs.

## Runs

| Run | Checks | States |
|---|---|---|
| `silver_default` | `CH_WRITER_RAISE_AFTER_DLQ` off and on: `NoSilentLoss`, `AuditTellsTheOutcome`, `RegressesOnlyByLateInsert`, `StrictModeCommitsOnlyStored`, refinement of `BatchDelivery`; two queries share the dead-letter directory | 1,900,000 |
| `silver_failfast` | `CH_WRITER_FAIL_FAST=1`: bounded runs of failed commits; every batch is committed in the end, unless a batch of a direct query is always refused | 250,000 |
| `silver_unbound` | violation, see findings | |
| `client_shared` | locked inserts exclude each other and keep their client; one open client; the client behind a classified failure is replaced | 13,000 |
| `client_lock` | violation, see findings | |
| `kafka_wrapper` | both backends: nothing vanishes, no dead-letter loop; kafka-python only: nothing is left at exit, every message comes to rest | 590,000 |
| `kafka_refused` | violation, see findings | |
| `quality_gate` | all three modes: rejections are kept or noted, what shadow mode loses is explained by the two verdicts (`DropsAreExplained`), batches reported, strict limit, retention, every row after a query's beginning is gated | 820,000 |
| `quality_null` | violation, see findings | |
| `collector_process` | backoff, idle detection, what ends the process, shutdown, endpoints | 66,000 |
| `cvd_path` | `OnePartitionOneSymbol`; only an accepted trade with a later time makes another late (`OnlyOvertakenTradesAreLate`); a window's row counts each accepted trade once or is known to be out of date, and none twice, through replays, dead letters and late inserts (`TotalsAreExact`); every trade is judged in the end (`CatchesUp`) | 385,000 |
| `driver_caches` | cached columns come from one quote (`BookHoldsRealQuotes`); the two quotes of a row belong together (`BasisIsContemporary`); a change is against a stored value (`BaseWasStored`) | 2,700,000 |

**Bounds.** Every bound is a constant marked "bound" and appears in a guard.
Two queries and two or three batches are enough for every interference the code
has (a shared directory, a shared client, a shared process): handlers of
different queries share nothing else. One empty batch and one that is always
refused, of a common writer or of a direct query, occur in the runs. Two faults reach "the insert fails and so does the
dead-letter write", the longest chain of failures in one handler; one crash at
any step reaches every replay. The producer runs have two threads besides the
library's, which is what a race on one flag or counter needs, and two or three
messages. The topic of the gate has a row that does not parse and one that is
late or not, depending on when it is read, by which query; one row may come before
the queries have begun (`MaxMissed`), and the clock starts in the middle of a day, so that
it reaches the end of retention. Three endpoints of four show an
earlier, a failing and a later one. The trades of `cvd_path` come on time, late,
ahead of their time as far as the gate lets them, which is more than the watermark's
delay as in the shipped defaults (60 s and 30 s), and further ahead than that, in two symbols and two markets; three of them with limits of
one and two let a batch leave trades behind, and three partitions for two symbols
give spans of different size. In `driver_caches` a quote has all columns, lacks
one, or is ahead of the clock, and the clock runs far enough for a quote to be
refused as late, and to become stale between its update and its use. Deadlock is not checked where behaviours
end at a bound or at the end of the process.

**Fairness.** Only the runs with a liveness property use it.
- `SilverWriter`, `QualityGate`: weak fairness of the queries' beginning, of planning, handler steps and
  commits (the driver schedules its queries), of the shutdown
  (`awaitAnyTermination` returns), and of `Restart`. Nothing in the repository
  restarts the application (the compose file has no restart policy): that one is
  an assumption about the operator, and without it a stopped pipeline stays so.
  No fairness on faults, crashes or arrivals.
- `CvdStream`: weak fairness of the trigger (`Plan`), of the handler (`Write`; it may
  raise instead, as often as there are faults), of the commit, and of the start, the
  same assumption about the operator. None that a late insert ends.
- `ClickHouseClient`: strong fairness of a writer's steps (a lock that is free
  again and again is obtained) and weak fairness of the passing of time.
- `KafkaProducer`: threads run, and the library answers each record, at the
  latest when its delivery timeout has passed.
- `Collectors`: every await ends, since connects, receives and requests have
  timeouts and sleeps an end; no outcome is assumed.

## Findings

- `silver_unbound`: after a failed dead-letter write `dlq_persisted` is unbound
  at `ch_writer.py:793`, and an `UnboundLocalError` decides what
  `_should_raise_after_dlq` should have. The batch is not committed, by accident:
  `NoSilentLoss` holds because of it.
- `client_lock`: `oi.py` and `price.py` insert outside `_client_lock`, and the
  failure of another query closes the client under them.
- `kafka_refused`: `send()` on a closed producer drops the record, while
  `send_bad_row()` keeps it; shutdown closes the producer first.
- `quality_null`: a row with NULL in an optional column gets the verdict NULL
  and is neither aggregated nor quarantined nor counted.

Seen while modelling, not checked by a run of their own:
- `get_client` takes a client for healthy if `ping()` does not raise
  (`ch_writer.py:231-234`); clickhouse-connect 0.15.1, the pinned version, returns False
  instead, and `tests/test_spark_write_audit.py:100` has its mock raise. A client that has
  lost its connection is therefore replaced only when an insert of `write_to_clickhouse`
  fails with a text that `_classify_ch_error` calls a connection error or a timeout:
  `FailedClientIsReplaced` says that, and no more holds;
- a batch of `oi.py` or `price.py` that ClickHouse always refuses is replayed for ever
  (`oi.py:150`, `price.py:344` re-raise every error) and, through
  `silver_aggregator.py:153`, stops all queries each time; `EveryBatchCommits` excepts it;
- with the shipped defaults the gate lets a trade be 60 s ahead while the watermark waits
  30 s (`cvd.py:39`), and the two markets have one watermark but limits of their own: one
  early trade, or a backlog of one market, makes trades late that came in time.
  `OnlyOvertakenTradesAreLate` states what does hold, and none of it is a bound;
- an insert that times out at the client and ends later replaces newer rows of its windows
  (`init.sql:36` has no version column), with no trace but its dead letter, until the next
  batch of the window;
- a row that is late for the main query and in time for the quality query is lost without
  evidence; `DropsAreExplained` has it as one of its two exceptions;
- the count limit of `_cleanup_old_dlq_files` applies only when nothing was
  deleted by age (`ch_writer.py:170`), so the directory may exceed
  `DLQ_MAX_FILES` after a cleanup;
- `_increment_pending` runs after `produce` (`kafka_utils.py:232`): a callback
  served in between is clamped at zero and the gauge stays one too high;
- `_in_delivery_callback` is one flag for all threads (`kafka_utils.py:484`);
- the local bad-row file is only ever appended to (`bad_rows.py:116`), although
  `docs/ARCHITECTURE.md` calls the fallback bounded;
- the backoff of a REST endpoint overflows after 1025 failures in a row
  (`rest_poller.py:125`) and ends the whole process; `StopsOnlyForAReason` states
  it as the one exception;
- `oi.py:11` defines the change against the previous value; the first row after a
  restart has no base and the change zero, and a window that is written again may
  be compared with its own earlier value (`BaseWasStored` says what does hold);
- the dictionaries of `price.py` are read by one thread while others insert into
  them, without a lock; CPython makes the single operations atomic, and no more is
  assumed;
- the default ban cooldown of 900 s is cut to 300 s by the cap, and jitter may
  undercut a `Retry-After`; `PollersHoldBack` states what does hold.

## Proofs

The theorems hold for all values of the constants that satisfy the assumptions
stated in the module, for any number of queries, batches, threads, messages,
rows, tasks, trades, quotes, faults and crashes. The name of the property a
theorem is about is in parentheses.

- `SilverWriterProofs`: `TypeCorrect`, `NoLoss` (`NoSilentLoss`),
  `AuditIsFaithful` (`AuditTellsTheOutcome`), `StrictMode`
  (`StrictModeCommitsOnlyStored`), `FailFastBound`
  (`FailFastBoundsFailedCommits`), `OnlyLateInsertsRegress`
  (`RegressesOnlyByLateInsert`), `Delivers` (`ImplementsBatchDelivery`).
  - `TypeOK` is inductive together with `InRange` (a handler runs only for a batch
    that is not committed yet, so batch numbers stay in range).
  - `NoSilentLoss` speaks of committed batches only; its strengthening
    `PlacementInv` says for every location of a handler what is already known of the
    current batch (at "return" it is stored or dead-lettered; with `dlq_persisted`
    true its complete dead letter exists; after the metadata file its own file is
    there). The lemma `NothingForgotten` shows that no step takes a stored batch or
    a dead letter away, retention included, so only the steps of the query itself
    need care.
  - `FailFastInv` relates the counter of the code to the streak of failed commits:
    never behind it, and one ahead while a failure is handled; what resets the
    counter is followed by the commit that resets the streak.
  - `OrderInv`: no insert, applied or running still, is ahead of the current batch.
  - The refinement goes step by step: initial states map to initial states
    (`DeliveryInit`); a step of the writer lands rows (`LandStep`), completes a dead
    letter, commits, or changes nothing the abstract state shows (`DeliveryStep`).
    `PlacementInv` gives the guard of the abstract commit; `AsideGrows` that dead letters
    removed by retention are still put aside; `StampInv` that the data of a dead letter,
    found by a time stamp, never completes the letter of another batch.
- `ClickHouseClientProofs`: `TypeCorrect`, `LockExcludes`
  (`CommonWritersAreSafe`), `NoClientLeaks` (`OnlyCachedIsOpen`). The invariant
  adds `LockInv`: whoever is inside `get_client` holds the lock, and a locked
  insert uses the cached client.
- `KafkaProducerProofs`: `TypeCorrect`, `NothingVanishes` (`Accounted`),
  `DeadLettersEnd` (`NoDlqLoop`), `NothingLeftBehind` (`ExitLosesNothing`).
  - For the second the invariant adds `ReportsTrue` (a positive report means that
    the record is in its topic); lemma `Kept` reduces each step to the message of
    the one activation it removes.
  - `OnceInv` says where the work for a message is: not handed over, with one
    activation that may still produce for it, in one record of the library, or in
    one report; and that no dead letter was produced while it is anywhere but in a
    dead letter. Every step moves it (`WorkProduced`, `WorkAnswered`,
    `WorkReported`) or lets it be (`WorkStays`).
  - `ExitInv` is for kafka-python: each record and report is watched (its callbacks
    are attached, or the activation that produced it will attach them); and once
    the wrapper is closed either `close()` is still going on or the library is shut
    with nothing left that only its thread could do. At exit there are no
    activations, so no record and no unserved report can be left, and `Accounted`
    says the rest. That a record is never in the queue and reported at once, which
    attaching a callback to a finished future relies on, comes from `OnceInv`.
- `QualityGateProofs`: `TypeCorrect`, `RejectionsKept` (`NoRejectionIsSilent`),
  `BatchesReported` (`EveryBatchReported`), `StrictRatio`
  (`StrictModeLimitsInvalid`), `DropsExplained` (`DropsAreExplained`), `RetentionSafe`
  (`RetentionKeepsRecentEvidence`), `FallbackBounded` (`CleanupBoundsFallback`).
  (`TypeOK` is proved here and therefore not among the run's invariants.) `InOrder` says
  that the committed batches cover a stretch of the topic from where the query began and
  the planned one continues it, without which the next offset, a cardinality, is not known
  to be a row. `JudgedOneWay` is the logic of the two verdicts: a condition that does not
  look at the clock rejects a row at both times or at neither. `GateInv` states what the
  handler has achieved at each of its locations (quarantine before event, event before
  cleanup, ratio last) and that a committed batch keeps all of it; the lemma
  `HistoriesGrow` that nothing kept or noted is forgotten. `DayEndsLater` is the
  arithmetic of days: a row is never younger than the end of its day, so what an expired
  day holds is expired.
- `CollectorsProofs`: `TypeCorrect`, `SilentBackoff` (`SilentStreamsBackOff`),
  `HoldingBack` (`PollersHoldBack`), `StopsForAReason` (`StopsOnlyForAReason`),
  `ShutdownIsPrompt` (`OneMessageAfterShutdown`). `Power2` is a recursive function; that it
  satisfies its equation is itself proved, with a least counterexample in place of
  induction (`TablesExist`, `TablesAgree`, `Power2Def`). `SocketInv` relates the reconnect
  delay to the number of silent connections, `PollerInv` a sleep to the response that
  caused it. `StopInv` says that while `gather` runs the flags `running` and the signal
  agree, that only an exhausted poller raises, and that a collector that has taken up a
  message after the signal is processing it or done. The proof that nobody else ends the
  process needs a task to exist (`Pollers \cup Sockets # {}` in `ConstantsAssumption`):
  `symbol_config.py` refuses an empty list of symbols.
- `CvdStreamProofs`: `TypeCorrect`, `SymbolsKeptApart` (`OnePartitionOneSymbol`),
  `LateIsOvertaken` (`OnlyOvertakenTradesAreLate`), `CountsAreExact` (`TotalsAreExact`).
  - The arithmetic of the spans is in `SpansDisjoint`: with `base` partitions for each
    symbol and one more for the first `extra`, the span of a symbol ends before that
    of a later one begins; `LogInv` says that a record is in the span of its symbol.
  - `FlowInv` strengthens `TypeOK`: nothing beyond the log is committed or planned,
    and a batch keeps the watermark it was planned with.
  - That a late trade was overtaken rests on `SeenInv`: the watermark, once there is one,
    is that of a trade an earlier batch has taken up. The window of a late trade ends at or
    before it, so that trade is at least `WatermarkDelay` past that end. That a greatest watermark
    and a greatest lag step exist follows from the well-foundedness of the naturals.
  - `ExactInv` has four parts. `CountedInv`: what is counted lies below the committed
    offsets, so that no batch holds it again (`BatchIsNew`). `StateInv`: the state store is
    exact for every window the watermark has not passed, and no accepted trade is of
    another (`TouchedWindows`). `RowsInv`: a row whose window no late insert has touched
    is as of the last batch or of the one that is running, and certainly of the latter once
    its handler has returned. `BoundInv`: no row, in the table or in an insert that still
    runs on the server, exceeds what was accepted; this is what holds of rows a late
    insert has replaced. A batch adds cardinalities of disjoint sets (`ExactSum`).
- `DriverCachesProofs`: `TypeCorrect` (this `TypeOK` is proved and therefore not among
  the run's invariants), `QuotesAreReal` (`BookHoldsRealQuotes`),
  `BasisCurrent` (`BasisIsContemporary`), `BaseIsStored` (`BaseWasStored`). `BookInv`
  adds to the first that a cached quote is no further ahead than the gate admits;
  `RowInv` follows a row through the handler, from the moment it has one quote.
  `BaseInv` says that what `oi.py` remembers is stored or in the rows about to be
  inserted: the failed insert ends the process and its memory.

Only model-checked: the liveness properties `EveryBatchCommits`, `FailedClientIsReplaced`,
`EventuallySettled`, `EveryRowIsGated`, `ShutdownCompletes`, `SilentLinkIsReplaced`,
`EveryEndpointIsAsked` and `CatchesUp`. They rest on fairness, and with it on
`ENABLED`, which is outside the proof system's reach. The four findings are
counterexamples, found by TLC.

## Not modelled

- Payload contents and their validation (`collector_schema.py`), the parsers of
  the jobs below, `symbol_config.py` (a small YAML reader whose result is the
  constant `RoutingSymbols`), metrics and logs.
- The CVD job over the rollup topic (`CVD_USE_TRADE_ROLLUP`): what produces that topic is
  not in the repository.
- Funding, liquidation, market metrics and long/short ratio: column lists in the
  scheme `CvdStream` has for two topics; their writes are batches of
  `SilverWriter`.
- Row hashes and the batch ledger contract: pure functions that no job calls.
- ClickHouse merges beyond "the last insert wins", dbt, Airflow, deployment.
- ClickHouse's asynchronous insert without waiting (`CH_WAIT_FOR_ASYNC_INSERT=0`),
  which acknowledges before rows are durable; it is off by default.

## Plan

1. Done: `SilverWriter`, `BatchDelivery`, `ClickHouseClient`, `KafkaProducer`,
   `QualityGate`, `Collectors`, `TopicRouting`, `CvdStream`, `DriverCaches`, with
   the proofs above.
2. Proofs that are left: none of a safety property of a passing run. Worth adding: what
   the abstract specification `BatchDelivery` promises, proved once on its own; and the
   safety part of the liveness properties (what cannot get stuck because some step is
   always possible is out of reach, what cannot go back is not).
3. Compositions: `SilverWriter` with `ClickHouseClient` (an insert fails because
   its client was closed), `Collectors` with `KafkaProducer` (what becomes of the
   one message after a shutdown).
4. Once jobs call them: the batch ledger contract and the row hashes.
