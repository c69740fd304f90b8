# A verification project for OrderFlow

OrderFlow is a trading system of three Rust services (`systems/market_data_ingestor`, `systems/indicator_engine`,
`systems/llm`) and a replayer (`systems/md_replayer`).  They share a PostgreSQL main database, an ops database and a
RabbitMQ broker.  This directory holds TLA+ modules translated from that code, TLC configurations that check them on
small instances, and proofs that TLAPS checks for every instance.

`PROJECT.json` lists components, runs, mutants (a plausible bug per property, which the property must notice), the map
from definitions to source lines, findings, hazards and theorems.

Contents: 1 the system, 2 the components, 3 the modules, 4 the runs, 5 fairness, 6 the proofs, 7 findings,
8 what is only model-checked and what is not modelled, 9 the plan, 10 how to run.

## 1. The system

    exchange --> market_data_ingestor --(md.* tables, x.md.live)--> indicator_engine --(feat.* tables, x.ind)--> llm --> exchange
                        |  ops.outbox_event                            |  ops.indicator_bundle_outbox
                        +--> dispatcher workers --> RabbitMQ           +--> relay, dispatcher, fan-out --> RabbitMQ

* The **ingestor** normalises the exchange's streams, aggregates them into minute rows, publishes each row and writes it
  to `md.*`.  What is not on the hot path goes through `ops.outbox_event`, from which dispatcher workers publish.
* The **indicator engine** consumes the minute rows, finalizes minutes in an in-memory history, computes 27 indicators
  per minute and writes them in minute order.  A minute's bundle is published through an intent in the main database, a
  mirrored row in the ops database and a dispatcher; its rows are published a second time, one message each, by the
  snapshot fan-out.
* The **strategy service** (`llm`) turns bundles into plans with a language model, watches the price for triggers and
  places entry and exit orders.

What makes it hard: two databases and a broker without a common transaction; leases; a main loop, three kinds of workers
and background rewrites over one history; corrections that arrive after the minute they correct was published; processes
that exit between any two statements; orders that fill while their exits are being placed.

## 2. Components

| Component | State | Operations | What makes it correct | Module |
|---|---|---|---|---|
| Market data outbox | `ops.outbox_event`, insert channels, claimed batches | enqueue, insert batch, claim, load, publish, confirm, delete, fail, prune, exit | nothing leaves the table unsent except after ten failures; leases exclude; dead is final; rows settle | `MdOutbox` |
| Minute bundle publication | snapshot rows, intents, mirrored rows, payload cache, relay and dispatcher rounds | write, enqueue, patch, repair, mirror, resync, claim, publish, finalize, sweep orphans | an unsent row keeps its intent; 'sent' means at the broker; intents settle; orphans go | `BundleRelay` |
| Live minute pipeline | canonical inputs, finalized history, epoch, queues, frontiers, deferred gaps, dirty and pending ranges, rows | ingest, enqueue, prepare, compute, ordered commit, late repair, gap deferral, catch-up, cutover, historical batch | rows are current or owed; stale jobs never commit; frontier jumps exactly with rebuilds; output reopens | `LivePipeline` |
| Snapshot fan-out | two progress rows, wake budgets | wake, seek, publish, advance, mark, rewind | rows not yet published are ahead of or marked in a progress row | `SnapshotFanout` |
| Persist queue | lanes, shards, prebatch windows, checkpoints | enqueue, batch, publish, write, checkpoint | every trade the detector passed reaches the row of its minute, once | `TradeIngest` (trade lane), publish step in `MdOutbox` |
| Minute aggregation | chunks per minute, emitted flags, VPIN buckets | aggregate, flush, re-emit, trim | each flushed row contains all of its minute's events | `TradeIngest` (trade chunks) |
| Gap detection, checkpoints, depth reconcile | id baselines, pending flags, sync states | detect, request, reconcile, replay | gaps are exactly the losses; each is answered; no trade vanishes | `TradeIngest`, `DepthBook` |
| Exchange pipelines | websocket sessions, one-second chunks, session book, replays | connect, receive, drop, flush, reconcile, throttle | the session's book is the exchange's; the chunk weighs it | `TradeIngest`, `DepthBook` |
| Strategy workflow | state file, Stage 1 output, entry snapshots, stage flights, event buffer, armed plan | invoke, refresh, approve, replay, trigger, manage, restart | no double exposure; each price event judged once; no entry past the stop or on a superseded answer | `StrategyWorkflow` |
| Order execution | orders, positions, account stream and its cache, watchers, sweeps | enter, stage exits, clean up, manage, flatten | a position has its stop; no exit outlives its position | `OrderExecution` |
| Backfill scheduler | target buckets, attempts | attempt, retry, complete | each 5-minute bucket is completed or given up on | planned |
| Startup recovery of the engine | snapshot of the state, progress | save, load, backfill, rewind, prime | the engine resumes with the minute after the last persisted one | planned |
| Open interest and ratio patches | patch tasks | patch, abort | a patch never undoes a commit | planned |
| Normalisation, SQL writers, indicator formulas, providers, prompts, tools | | | | not modelled, see 8 |

Interactions: the ingestor's persist path calls the outbox writer through channels; dispatchers share only rows.  The
engine's main loop talks to prepare, compute and commit workers through channels and to the commit worker through an
atomic epoch and an override of its frontier; the commit worker writes rows and intents; relay, dispatcher and fan-out
read what it wrote.  In the ingestor the websocket loop, the replays and the reconciles share the persist queue with its
shard workers; the depth rebuilder gets requests from the detector and puts its snapshots into the queue.  In the strategy
service every invoked bundle is a task beside the select loop, and they meet in files: each loads the workflow state, waits
for a model or the exchange, and saves its copy.  The cleanup watchers, the sweeps and the loop meet at the exchange only,
each deciding from a read that may be old.

## 3. Modules

Each module is parameterised by CONSTANTS under a named assumption (`ConstantsAssumption`), has one action per
statement, handler or section of a loop, and states its properties at its end.  `MC*` modules give TLC its instances.
Definitions that no action uses (`ClaimableIgnoringLease`, `FreshAlways`, ...) are the mutants.

### DeliveryPromise
What an outbox promises, without tables: a message taken over stays promised until the broker has a copy or it is
withdrawn by name; `Forget` is the only way out.  `MdOutbox` and `BundleRelay` implement it (`KeepsPromise`).  For
`MdOutbox` the promised messages are the rows of the table and the withdrawn ones those that failed `MaxRetry` times;
for `BundleRelay` the promised ones are the intents and the withdrawn ones those a repair took back.

### MdOutbox
`publish_pipeline_event` (direct or through an insert worker's channel), `run_insert_worker`, the table, and the
dispatcher workers: nine claim statements per scan (tier by bucket), the payload read, publishing and confirming row by
row, the DELETE, failures with backoff, dead rows and their pruning, database errors and process exits.

* Time is relative: `wait[m]` is `available_at - now()` in ticks, `age[m]` is today minus the bucket date.  Both
  saturate where no statement tells values apart.
* One SQL statement is one step; `FOR UPDATE SKIP LOCKED` makes a claim atomic.  Idle sleeps and the loop's drain
  counters are merged into `Wake`.  Rows of one statement have no order among themselves (`RETURNING` gives none), and
  the order by id of rows available at the same time is left open.
* Partition maintenance and the larger batch sizes at startup are left out.  `DayRoll` may happen at any time, which is
  why `RowSettles` has the case of a row too old for the hot claim.
* `overrun` records that some worker outlived its lease: leases exclude only until then, which is all the code offers.

### BundleRelay
The minute pipeline's two transactions (rows, then intent), patches and repairs, the relay's round of statements over
two databases (finalize, sweep, mirror, cache, mark) and the dispatcher's batch (claim, filter, publish, confirm, mark).

* A bundle is `<<minute, content>>`, as its `message_id` is a hash of both; contents of a minute are numbered.
* Time is a choice: `BecomeDue` and `GrowStale` (30 s) happen at any moment.  With `Prompt` they respect that due rows
  are sent and sent rows finalized within the resync interval; only the liveness run assumes it.
* The LIMITs (512, 1000) exceed every backlog considered.  The resync may come in any round.  The payload cache read
  and the fallback to the snapshot are one step.

### LivePipeline
The main loop's tick, with each section an action of its own (so a tick may skip any of them): gap repair and
deferral, confirmed late repair, entering catch-up, cutover, enqueueing live or state-only minutes, ending the tick with
historical batches; and the prepare, compute and ordered commit workers between the sections.  What a minute's rows hold
is abstracted to `body`: for each minute up to it, the number of updates of its inputs that the computation saw.

* Update counters stand for data, so "rows are current" compares versions.
* A repair or cutover is one step: in the code it holds the commit gate and requires an empty prepare queue.
  Reconciling the tail against the database is the same step as a late ingest.
* The `computed` channel and the commit worker's pending map are one set; the last finalized minute is derived from the
  history; `spawnTurn` says whether the tick has passed enqueueing.
* The slots for new minutes are two loads of two counters, as in `available_live_pipeline_slots` (`LoadReady`, then one of
  `EnqueueNone`, `EnqueueLive`, `EnqueueCatchup`); between them the prepare worker hands over the jobs it has made
  (`handing`) one by one, from the counter read second to the one read first.  `slipped` is how many the count missed,
  and `down` that a handoff found the job queue full, which ends the service.
* `ReconcileFails` is a tail reconcile whose later page fails: rows are changed and dirty, the repair they call for is
  lost with the error.  `stranded` is the first such minute, until a rebuild takes it in.
* `skipped` are minutes left out of the history: a gap that was deferred, or minutes still in the prepare queue when catch-up
  passed by them.  `DeferGap` may have read the minute's page before it failed.
* `dropped` records minutes whose jobs a repair or cutover dropped, or whose pending rewrite it overtook, without rebuilding
  them (see section 7); the persistence properties except exactly those.  A historical batch may write an incomplete skipped minute from the store.
* Left out: open interest patches, heatmap hydration, retention of the history, process exits.

### SnapshotFanout
The projector's loop with its wake budget, its share reserved for repairs, load, publish and advance for both progress
rows, a failed publish, an abort at any point, and the writers cut down to what they do to a minute's rows: live
commits, historical batches (clear, write, mark), the rewind at a restart.

* The rows of a minute are a version; a publish is one message per minute.
* At the first start rows before the progress are taken as published, as the code does.  The rewind is considered when
  no pending range covers the tail.
* `lost` records minutes whose mark the projector's advance overwrote because it was computed from a repair row read
  before the mark.  `UnpublishedIsOwed` and `RowIsPublished` except exactly those minutes; the race is listed as a hazard.

### TradeIngest
How a futures trade reaches the row of its minute.  Per task, one action per section between two awaits: the websocket loop
(`Connect`, `ConnectFails`, `ReceiveTrade`, `ReceiveBar`, `FlushExpired`, `Drop`), the replay of a gap (`GapFetch`,
`GapEmit`, `GapFetchFails`), the reconcile after a reconnect (`SyncFetch`, ...), the replays of one-minute bars, the prebatch
worker, the shard worker (`TakeJob` per job, `EndBatch`, `FlushTick`, `WriteRows`) and the checkpoint worker; `Restart` empties what is in memory.

* A trade is its aggregate trade id; a chunk or row is the bag of the ids summed into it.  The code sums quantities and
  keeps no id: that is why the bag can count one twice.
* Second and minute are kept apart: one-second chunks are closed by the next second or a tick, minute chunks by the
  watermark, re-emitted when dirty again, trimmed after `Retention` minutes.
* The shard's channel is bounded (`Capacity`), the prebatch channel is not; `Throttled` is the backfill throttle's high watermark.
* A replayed bar goes through the direct path with an aggregator that knows no trades (`JobOfBar`, `Overwrite`).
* `hist.lost` collects the trades the code gives up on, each at the step where it does, and `hist.again` those that were fetched
  a second time; `NoTradeVanishes` and `TwiceOnlyIfRefetched` except exactly these.
* Left out: the split of a chunk at its maximum of events, the rate limit of requests, rows that only log (`data_gap`,
  job runs), the spot variant, the other lanes, parquet copies, and the publish step (`MdOutbox`).

### DepthBook
The order book of one market: the depth stream with its update ids, the session's book and one-second chunk, the gap detector
(`GapBefore`), the depth rebuilder's ticks, requests and snapshots, and the book and chunk of the queue's prebatch worker.

* A level's quantity in the exchange's book after message n is `TrueBook(n)`; message i covers the ids after `Prev(i)` up to
  `Final(i)`, of which spot announces the first (`U`) and futures the predecessor (`pu`).
* `chunk.heat` is the lazy sum per level that the code keeps (`Visit` when a level changes and at the close); `weight`
  is the history sum it has to equal.
* `ReceiveQuote` sets a level as `md.bbo` does; a message that cannot be decoded (`Garble`) is gone but counts as delivered.
* Left out: the truncation at 200 levels, the OFI and OBI scalars, the rebuilder's ticks for the other market, the
  merge into the minute, `data_gap` rows.

### StrategyWorkflow
The strategy service for one symbol and one side: bundle jobs (load, Stage 1, Stage 2a, Stages 2b and 2c, save), the priority
refresh, and the event handler with its sections (replay and review, stop-out, management of positions and of orders, the entry).

* `file` is the persisted workflow state; `jobs[j].st` and `loop.st` are the copies that are saved over it.  A job's save is two steps,
  as `save_workflow_state` holds no lock: `Saving` reads the file and merges (`Preserve` keeps the file's two replay marks), `Renamed`
  puts the result in its place, whatever others have saved in between.  Each of a job's saves is a step of its own.  The loop's
  saves are one step: only jobs run beside it, and their two steps already put the loop's before, between or after them.
* An attempt at the exchange has the context it was placed under: a new one for an entry, the one of the replaced order for a
  replacement, the one of the position for an addition (`ManagedAdd`).  `Recorded` saves the snapshot and the state once the
  exchange has accepted the order.
* Every read of the account by the loop prefers the cache, so that it may report a flat account (`Views`, a blind read); the
  clean-up at startup has no cache yet and sees the account as it is.
* A price is what it means for the plan (entry condition, failure level, first target, neither); the stop loss of a plan is the
  failure level, as `finalize_stage2a_output_with_stage1_risk` takes it from there.
* `Window` is the part of the event buffer a replay judges; `buffer.from` is what a restart has lost of it.
* `hist` keeps what the properties need: which events were judged for a plan version; plans that left the file (`gone`); saves that
  rolled the last Stage 1 answer back (`rolled`); plans whose replay mark was saved between the two steps of another's save
  (`unmarked`); events taken up while an approved plan, stamped already, was being written (`unseen`); attempts whose snapshot
  went in one of the ways `OpenEntryHasSnapshot` names (`excused`).  `loop.torn` is an event taken up between the two files of
  a Stage 1 answer.
* A job between two of its saves lets others in only if it is a slow one (`BecomesSlow`); how many are is a bound.
* Left out: the other side, contexts without path or snapshot, target bracket levels, `request_enabled` off, dry run, trimming
  of the 15-minute buffer, variants of reasons by origin, the details of entry conditions; Stages 2b and 2c answer in one step.

### OrderExecution
Execution on Binance for one symbol in hedge mode with exit orders placed, the defaults: the loop's entries and additions with
staged exits (and their rollback), the five management operations, one cleanup watcher per entry, sweeps after flatten events, the
account stream with its position cache, and the exchange (external), where orders fill and trigger and events arrive between any two requests.

* Every request is a step; a read of positions and orders is three reads one after another (`view`).
* Of prices one thing is kept: whether an exit lies on the losing side of the entry price, at it, or on the winning side (`at`).  That is what
  `find_live_exit_trigger_price` decides by (`HasTarget`, `HasStop`), and an exit at the entry price counts as neither.  Management may
  move exits to the levels of the scenario; an addition moves the entry price, and with it every exit that was moved before.
* `Enter` is an entry on a side seen as empty and an addition to one seen as held, which opens its entry beside what is there.
* `holes[s]` names what the code does not recover from.  In `Uncovering` are the causes for a position without stop: `accepted`, an entry
  whose reply was lost; `filled`, one that filled before its failed staging was rolled back; `halfway`, a request that failed in the middle
  of an operation on the stops; `moved`, a stop taken or sized on a position that had moved since it was read; `partial`, one taken
  or sized while an entry was still filling, where no read was stale; `restart`.  In `Leaving` are those for an exit without position.
  `StopCoversPosition` and `LeftoverExitGoes` claim the rest; each cause is needed, that is, TLC refutes the property without it.
* `Blind(s)` is a flatten event that was lost while the cache still shows the position and nothing has the cache checked: a stop and a
  target are both left, or neither is, as with a stop at breakeven.
* Left out: one-way mode, dry run, prices beyond the level, balance, leverage.

## 4. Runs

Every passing run terminates with no error; sizes are distinct states.

| Run | Bounds | Shows |
|---|---|---|
| `md_outbox` | 2 workers, 2 rows of different tiers, batch 2, lease 2 ticks, 2 retries, 1 fault (761 k) | leases exclude, dead is final, `KeepsPromise`; every pair of claim, overrun, confirm and failure occurs |
| `md_outbox_live` | 1 worker, 2 rows, a hot-path message, lookback 1 day, age up to 2, 1 fault (215 k) | `RowSettles` under fairness |
| `bundle_relay` | 1 minute with 2 contents, 1 fault, 1 repair (2.55 M) | finalize against re-mirror, sent against re-enqueue, deletion of intents under relay and dispatcher |
| `bundle_relay_live` | 1 minute, 2 faults, 1 repair, `Prompt` (36 k) | `IntentSettles`, `OrphanRowIsSwept` |
| `live_pipeline` | 4 minutes, minute 3 may stay incomplete, 1 late correction, 2 slots, 1 compute worker, batches of 2, mute at lag 2, resume at 1, tail 2, reconcile up to lag 2 (142 k) | rows current or owed, commits follow the state, the queue overflows only by a miscount; persistence, reopening and settling under fairness |
| `snapshot_fanout` | 2 minutes, 2 rewrites, 1 rewind, 1 fault, budget 2 (1.4 M) | `UnpublishedIsOwed`, `RowIsPublished` |
| `order_execution` | nine scenarios (below), one side, 1 event in flight (635 k) | `StopCoversPosition`, `LeftoverExitGoes` |
| `strategy_workflow` | eleven scenarios, 1 path, 2 minutes (2.28 M) | exposure, snapshots, replay, refresh, and the two action properties about entries |
| `trade_ingest` | five scenarios, three trades at seconds 0, 1, 2, minutes of 2 s, retention 1, pages of 2, channel of 2, batches of 3, throttle above 1 (438 k) | `NoTradeVanishes`, `TwiceOnlyIfRefetched`, `TradeIsStored` under fairness |
| `trade_ingest_twice` (violation) | one drop | finding 1 |
| `depth_book` | four scenarios, 2 levels, 3 messages, chunks of 3 events (209 k) | book, chunk, gaps, and `GapIsAnswered` under fairness |
| `depth_book_synced` (violation) | the same scenarios | finding 2 |

**Scenarios.**  Four modules have so many kinds of trouble that all of them at once is out of reach; their
`Scenarios` bound each kind, Init picks one, and the MC module lists combinations that meet.
`MCOrderExecution`: an addition, or a second entry, beside the watcher and sweep of the first; an entry managed as it fills in two parts; a
managed one with a failing request; one with stops moved to breakeven and beyond and a lost event; a restart during management; an
addition whose exits are at breakeven, to a position whose stop is moved; entries and additions whose staging fails and whose events
are lost (two scenarios); a restart whose sweep fails.
`MCStrategyWorkflow`: a restart and a blind read between two entries; a second answer while the first plan fires; an invalid answer; an
answer stamped after events still on their way; orders that are replaced and positions added to; a failing call; a first target before
the entry; quiet events that two jobs save across; and three with a slow job, whose saves meet an entry, a replay, a newer answer.
`MCTradeIngest`: a drop with a failing page, with a failing write, with a restart; a drop that misses bars; two drops, the second
within the reconcile of the first.  A gap that is skipped because another is being replayed needs five trades and is not reached.
`MCDepthBook`: a futures message lost in a session with a failing snapshot; a spot message lost between two sessions; two
levels with quotes over two sessions; two levels with a loss over the end of a second.

Why the bounds suffice.  Two rows and two workers give every order of two claims and a late report.  Two contents of one
minute are what the shared cache and the per-minute rows need to be confused; two minutes are what a repair of a tail
needs.  In `LivePipeline` the smallest interesting range is: a committed minute, one in flight, one being repaired and
one behind them, with lag 2 to mute and lag 1 to resume, and a batch size below the length of the history.  Two rewrites are
needed for a mark to arrive while the repair row is being worked through.  Bounds appear as constants (`MaxFaults`,
`MaxEdits`, `MaxVer`, `MaxRepairs`, `MaxRewinds`, `Last`, `MaxAge`, `MaxCount`, `LastSecond`, `MaxUpdates`, `MaxEntries`, `MaxInFlight`, `MaxMinutes`,
`MaxPriority`) or as `Scenarios` in guards (with `busy`, how many tasks are at work at a time, and `slow`, how many jobs linger).  Three trades over two minutes are a page and one more, a minute that is emitted, one that follows,
and a replay that comes after either; two levels are one that changes and one that does not; two entries are the first
one's watcher and somebody to disturb it.

`CHECK_DEADLOCK FALSE` is set for `LivePipeline`, `SnapshotFanout`, `OrderExecution`, `StrategyWorkflow` and `TradeIngest`: their
clock or scenario ends, after which the system has nothing left to do.

## 5. Fairness

* `MdOutbox`: weak fairness of each dispatcher worker (its loop always runs; a restart by the supervisor is part of
  `Wake`), of inserting a queued batch, and of time.  None of new messages, nacks, errors, exits or `DayRoll`.
* `BundleRelay`: weak fairness of relay and dispatcher rounds (both are loops that are restarted on error), of time for each row,
  of pruning, and of a historical batch rewriting what it cleared.  None of faults, repairs or new content.
* `LivePipeline`: weak fairness of the clock, of the arrival of the inputs of minutes that are not gappy, of the tick's
  sections and of the workers.  None of late corrections or of a gap healing, so `OutputReopens` speaks of runs in
  which every gappy minute healed.
  Nor of a failing reconcile or handoff, which the properties name.
* `SnapshotFanout`: weak fairness of the batches and of the projector, whose task `run_loop` sleeps and retries for ever.
* `OrderExecution`: weak fairness of the account stream, the loop and the sweep; strong fairness of each watcher, which polls on
  a timer and shares the bound `budget.busy` with the others.  None of fills, hits, losses or failures.
* `TradeIngest`: weak fairness per task - time and trades, the websocket loop, gap replay, reconcile, the replays of bars, prebatch
  worker, shard worker: each is a task of its own in a loop that never ends by itself.  None of drops, failures, or restarts.
* `DepthBook`: weak fairness of starting, of the tick, of answering a request, of the end of a run and of the queue; strong
  fairness of taking a request, as the rebuilder's select takes either a tick (every 30 s) or a request.
* `StrategyWorkflow`: none; that a requested refresh happens is stated as safety (`RefreshIsOnItsWay`: somebody has it in hand).

Faults are bounded in number, so liveness means: after the last fault the system recovers.

## 6. Proofs

Five modules hold the theorems: `MdOutboxProofs`, `BundleRelayProofs`, `SnapshotFanoutProofs`, `TradeIngestProofs` and `DepthBookProofs`.
They hold for every value of the constants that the modules' assumptions allow: any number of messages, workers, minutes,
trades, levels and faults, any capacity, window and schedule.

**MdOutbox.**  `IInv` adds to the type invariant and the three safety invariants:
`RowsAreStored` (a row exists only for a message the publish path stored), `SentIsDelivered` (what a worker
counts as acked the broker has), `HeldIsLeased` (while no worker has outlived its lease, a held row is 'sending' and not
yet due again) and `Phases` (which sets may be non-empty at which step of a worker).  `NothingDroppedUnsent` is not
inductive without `SentIsDelivered`, as the DELETE looks at `sent[w]` alone; `LeaseIsExclusive` is not without `HeldIsLeased`,
as the claim looks at the row alone.  Proved: `TypeInvariant`, `Invariance` (`Spec => []IInv`), `NothingDroppedUnsentHolds`,
`LeaseIsExclusiveHolds`, `DeadAtMaxRetryHolds`, `DeadIsFinalHolds` (an action property) and `KeepsPromiseHolds` (the
refinement of `DeliveryPromise`, step by step from `PromiseChange`).  No run lists `NothingDroppedUnsent` and
`DeadAtMaxRetry`: `KeepsPromise` implies the first, and the second follows the statement that sets the status.

**BundleRelay.**  `IInv` adds `FreshIds` (intent ids are below the sequence), `IdsAreOwned` (an id the relay or the
dispatcher remembers belongs to the bundle it was read for, or to none), `SentIsDelivered`, `CurIsUnsent` (a row the dispatcher
may still mark was not sent meanwhile) and `RelayPhases`.  The heart is `UnsentRowHasIntent`: `finalize` deletes intents by id
in one database for rows read in another, and `IdsAreOwned` with `FreshIds` is why a minute enqueued again in between
is not hit: its intent has a new id or its row is not 'sent'.  Proved: `TypeInvariant`, `Invariance`,
`UnsentRowHasIntentHolds`, `SentIsAtBrokerHolds`, `KeepsPromiseHolds`.

**SnapshotFanout.**  `UnpublishedIsOwed` speaks of rows and progress rows only; what makes it inductive is what the projector
has in hand.  `LiveTaskIsSettled` and `RepairTaskIsSettled` say that between its load and its advance a task leaves behind
nothing but what it is about to settle, or a mark covers, or the batch rewrites; `BatchIsPending` and `RowsAreBehind` keep a
batch inside the pending range and everything behind the frontier; `BudgetLasts` is what stops a task from starting
without budget, and thereby without a progress row.  The minutes lost to the projector's overwritten mark
are in `lost`, as in the run.

**TradeIngest.**  `Sound` is the shape of the state: the wire is in order and ahead of the detector (`WireFits`), a gap's
replay ends where the detector was (`GapFits`), a chunk or job holds trades of its second or minute only (`ChunkFits`,
`JobFits`).  `NoTradeVanishes` is not inductive: that a trade is in its row does not say that a later write leaves it
there.  `Settled` does: the minute's chunk has the trade too, or was trimmed, and then a job that brings the minute
back is one of those `hist.lost` records; `WritesTheChunk` ties what the worker is writing to the chunk it came from, and
`SightBegins` makes every id that comes into sight one that is at hand, in the gap, or skipped with it.
`TwiceOnlyIfRefetched` follows from `Alone`: a trade that no reconcile or restart fetched again is in one chunk or channel or in the
aggregator, once, and the detector has passed it while no gap still owes it - so neither the wire nor a gap brings it again.

**DepthBook.**  The session's book is the exchange's because the wire is (`StreamIsInOrder`: from the newest delivered message
on, every depth message once and in order, quotes as of the message before them); the gaps are the losses because
the baseline is the last message received and no gap reaches beyond it (`DetectorIsBehind`); the lazily kept sum of a chunk
is the sum over the whole book because a level's sum and its quantity times the events since its last visit are its
weight (`ChunksFollow`, `Sound`).  `RebuilderTypes` and `SnapshotsAreBehind` are what the rebuilder adds.

The proofs go one lemma per conjunct and one step per action; effects used in several places (`MarkFailedEffect`,
`StatusEffect`, `IntentEffect`, ...) are lemmas.  Each `IInv` is made of parts that TLC checked first.

## 7. Findings

1. `trade_ingest_twice`: a reconnect sums the trades around it into their minutes twice, where docs/系统架构设计.md:613
   has the producer idempotent per trade id.
2. `depth_book_synced`: a market is LIVE_SYNCED while the book its deltas go to lacks what the snapshot holds, where
   docs/系统架构设计.md:359 aligns the two.

Quotations and lines are in `PROJECT.json`.  More observations came up while modelling.  They have no run: the repository
says nothing that they contradict, or the property would restate one line; where a checked property needs them as an exception
or assumption this is said.

**Outbox and bundles.**
* A row that failed ten times is dead and later deleted, whereas docs/系统架构设计.md:609 speaks of at-least-once delivery
  for everything stored: the withdrawn messages of `KeepsPromise`.
* A message published directly on the hot path has no row behind it; the comment at sinks/mq_publisher.rs:241 says the outbox
  covers it.
* `mirror_due_intents` makes a patched row claimable before `ensure_ops_payload_cache` replaces its body: the cached
  body of the unpatched minute can be sent under it.

**Minute pipeline and fan-out.**
* A cutover leaves a running historical batch alone (`maybe_execute_live_catchup_cutover`, runtime.rs:5172; a late repair and
  entering catch-up abort it): what the cutover takes off the pending range and the batch then overwrites is lost
  (`dropped`, found by the proof of `RowsAreCurrentOrOwed`).
* The free slots of the live pipeline are counted from two counters that are loaded one after the other while the prepare worker moves minutes
  from the second to the first (`available_live_pipeline_slots`, runtime.rs:5989-5990): a minute in neither is a slot too many, and
  the handoff that finds the queue full ends the service (`slipped`, `down`).
* A tail reconcile whose later page fails leaves the rows of the earlier pages changed and the state dirty, with no repair
  pending; the callers log the error.  While it is dirty the next reconcile and the cutover are refused, so that muted output stays muted
  until another correction of a finalized minute is confirmed (`stranded`, an exception of `RowsAreCurrentOrOwed` and `OutputReopens`).
* `live_catchup_resume_lag_minutes` is not checked against the cutover's tail; at or beyond it the minutes between would be
  skipped (the instance has the lag below the tail; the defaults are 1 and at least 35).
* A late repair advances the epoch of every live job in flight, also of minutes before its start, which it neither
  rebuilds nor marks; the frontier then skips them (`dropped`, an exception of `RowsAreCurrentOrOwed`).
* Catch-up advances the shared state without waiting for the prepare queue (runtime.rs:6904-6923): a task still in it is past its minutes when
  its turn comes, and their jobs are made without them (`skipped`, the same exception).
* With `live_catchup_progress_only_enabled` off, the default, a deferred gap mutes output and nothing reopens it.
* Healing a gap clears the deferred minutes before it (`clear_deferred_gaps_through`), skipped ones too: one that arrives later is
  not materialised, its successors are computed without it, and the ordered commit can wait for it (exceptions of
  `RowsAreCurrentOrOwed`, `MinuteIsPersistedOrOwed` and `ComputedJobSettles`).
* A cutover whose contiguous range ends before a skipped gap reopens output with the ordered commit waiting for the
  gap's minute (same exceptions).
* The projector overwrites marks that arrive between its read and its write of the repair row (`lost`).

**Ingest.**
* Replayed one-minute bars are aggregated by an aggregator that knows no trades, and overwrite the row of their minute with a bar
  without trade sums (`hist.lost`).  For the premium index the comment at futures_pipeline.rs:1763-1769 skips the direct path for
  this reason; the test `live_1m_kline_updates_fold_into_canonical_trade_row` (aggregate/minute_agg.rs:2051) has the lane's.
* A trade replayed after its minute's chunk was trimmed starts a new chunk, whose row replaces the full one (`hist.lost`).
* Trade checkpoints come from replayed trades only: a restart without one loses the trades of its downtime without a gap, one with an
  old one fetches trades again that are in their rows.  A reconcile can push the checkpoint past ids a slower gap replay owes,
  and the saved checkpoint can regress.
* A gap found while another is being replayed is skipped and not kept; `data_gap` rows are deduplicated for 300 s.
* Once the message is published the chunk is clean; a row that cannot be written is not written again (`hist.lost`).
* A reconcile of bars skips a single missing bar (its start is not before its end); the bar of a minute closes it before
  the last second's chunk arrives, so that a minute is regularly emitted twice.
* The low watermark of the throttle has no effect; a raw trade without price stays in the pending counter; a replay's
  VPIN snapshot restores over the live one.

**Depth.**
* Two books per market: the session's gets deltas and quotes, the queue's gets snapshots only, and the chunks of both are added
  into one minute.  A snapshot taken for a gap never repairs the session's book.
* The depth baseline a restart could seed is never read back (`build_checkpoint` asks for fields a snapshot does not have),
  so that a gap over the downtime is not noticed; the first tick takes a snapshot anyway.
* A gap found while a request is pending is dropped; the periodic tick answers it.

**Strategy.**
* A stop-out increments `filled_stopout_attempts` and the same handler then clears the plan with the counter, so that the limit
  is not reached (docs/llm层工作流的修改方案v2.0.0.md:742-746 counts them).
* A stale save rolls the last Stage 1 answer back (`rolled`) or brings back a removed plan, which may then fire (`gone`), where
  the test `failure_level_touch_requests_stage1_refresh_when_flat` has the touch clear it.  `EntryFollowsStage1` and
  `NoEntryPastStop` except exactly those.
* A plan made from a replaced order starts its replay at the newest event and may keep a pending refresh of its own minute;
  a failure level touched in that minute then precedes a firing that no longer has the snapshot of it, which is why
  `NoEntryPastStop` has no inductive form and is checked by TLC only.
* Two jobs, or a job and the loop, save the workflow state without a lock: a replay mark saved between the other's load and rename is lost,
  and the events of its plan are judged again (`unmarked`, an exception of `JudgedOnce`).
* An approved plan is stamped before it is in the file: what arrives in between is neither replayed nor put to it (`unseen`, an
  exception of `NoEntryPastStop`).  A Stage 1 answer is two files, and an event between them reads the path of one and the state of
  the other (`loop.torn`); a touch in that time has its request overwritten (an exception of `RefreshIsOnItsWay`).
* A replacement and an addition have the snapshot of the order or position they follow.  It is deleted when the
  position is reconciled as flat, closed or stopped out while they still rest at the exchange; from then on nothing knows of
  them, and the path may be entered again (`excused` in `OpenEntryHasSnapshot` and `NoDoubleExposure`).  A cancellation that
  races the order's fill, and a flat account read from the cache, lose a snapshot the same way.
* A delayed bundle job may run Stage 1 on an older bundle; an answer without refresh erases a pending request.
* The snapshot of a position without management plan that its take profit closed is not removed and blocks its path id.

**Order execution.**
* A maker's take profit is a STOP limit order, which `exact_order_type_matches_exit_kind` counts among the stop losses: MOVE_STOP
  cancels it, and UPDATE_TAKE_PROFIT leaves the old one.  The test at execution/binance.rs:5427 recognises it by price.
* MOVE_STOP, REDUCE and FLATTEN on an entry that is still filling cancel its stop and place one for what has filled: the rest fills
  without stop, although no read was stale and no request failed (`partial`, an exception of `StopCoversPosition`).
* A flatten event lost over a reconnect leaves the position in the cache.  REST is asked only if exactly one of stop and target is left by
  price; with both, or with a stop at breakeven alone, which is neither, the watcher waits for ever (`Blind`, an exception of `LeftoverExitGoes`).
* A watcher reads the orders, confirms and cancels what it read: an exit placed meanwhile for a later entry stays when it ends
  (`late`); it ends, too, when a cancellation fails (`kept`).

## 8. What is not proved and what is not modelled

Only model-checked: all liveness (`RowSettles`, `IntentSettles`, `OrphanRowIsSwept`, `MinuteIsPersistedOrOwed`,
`OutputReopens`, `ComputedJobSettles`, `RowIsPublished`, `LeftoverExitGoes`, `TradeIsStored`, `GapIsAnswered`), which needs fairness
and ENABLED, beyond the prover; the two claims of the findings, which TLC refutes; and
what `LivePipeline`, `StrategyWorkflow` and `OrderExecution` claim: what follows from the races they model (a count of two
loads, saves in two steps, contexts that orders share, entries beside entries) rests on what every task remembers of states that have
changed since, and no inductive form of it is proved here.

Not claimed: that pending history drains while the pipeline never idles (the code does not promise it); that a repair waiting
for an incomplete late row ends (the loop waits for that row, see the hazards); that a trade is counted once (finding 1).

Not modelled: conversion of JSON (`normalize`, `decoder`), the text of SQL upserts (`md_db_writer`, `ops_db_writer`,
`event_writer`, `feature_writer`, `level_writer`), network clients, prompts and model providers, floating-point indicator formulas:
they keep no state that interleavings reach, or their content is arithmetic on reals.  The TTLs and dead-letter
queues are the broker's.  Maintenance binaries are run by hand, one at a time.  The replayer is one loop
over a cursor.  The components marked "planned" are next.

These parts are most of the source by lines.  The map covers about an eighth of it; of the rest, prompts and providers, JSON, SQL
texts, indicator formulas and unit tests inside the source files make up by far the most.

## 9. Plan

1. `MdOutbox`, `MdOutboxProofs` - done.
2. `DeliveryPromise`, `BundleRelay`, `BundleRelayProofs` - done.
3. `LivePipeline` - done.
4. `SnapshotFanout`, `SnapshotFanoutProofs` - done.
5. `TradeIngest` (minute aggregation and persist queue, composed), `TradeIngestProofs` - done.  Left: the non-trade lanes,
   VPIN and the 3d bar.
6. `DepthBook`, `DepthBookProofs` - done.
7. `StrategyWorkflow` - done but for `NoEntryPastStop`; `OrderExecution`,
   `OrderExecutionProofs` - done; one-way mode is left.
8. Backfill scheduler: attempt times, retries and completion of 5-minute buckets.
9. `StartupRecovery`: snapshot, backfill, rewind, priming; composed with `LivePipeline`'s first state; open interest patches.
10. Discrete algorithms checked against reference definitions in TLC only: VPIN buckets, attempt schedules, quantities.

## 10. Running

    tlc -workers 2 -config MCMdOutbox.cfg MCMdOutbox.tla
    tlapm MdOutboxProofs.tla

Each run of `PROJECT.json` names its module and configuration.
