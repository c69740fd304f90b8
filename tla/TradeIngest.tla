----------------------------- MODULE TradeIngest -----------------------------
(***************************************************************************)
(* How a futures trade reaches the row of its minute in the market data    *)
(* ingestor (systems/market_data_ingestor): the websocket session, the     *)
(* gap detector, the replay of a gap, the reconcile after a reconnect, the *)
(* replay of missed one-minute bars, the trade lane of the persist queue   *)
(* (prebatch worker, bounded channel, shard worker, minute aggregator) and *)
(* the checkpoint worker.  One symbol, so one shard; a trade is its        *)
(* aggregate trade id, and a row or chunk is the bag of the ids summed     *)
(* into it (the code sums quantities and keeps no id).                     *)
(***************************************************************************)
EXTENDS Integers, Sequences, SequencesExt

CONSTANTS Times,          \* Times[i]: the second of trade i, not decreasing
          SecsPerMinute,  \* seconds in a minute (60 in the code)
          Retention,      \* EMITTED_CHUNK_RETENTION_MINUTES
          PageLimit,      \* REST_PAGE_LIMIT
          Capacity,       \* slots of the shard's bounded channel
          BatchSize,      \* events a batch stops at
          High,           \* queue_high_watermark of the backfill throttle
          MaxCount,       \* bound: a bag counts an id at most this often
          LastSecond,     \* bound: the clock stops here at the latest
          Scenarios       \* bounds: [trades, drops, rest, db, restarts, bars, until]

ASSUME TimesAssumption ==
    /\ Times \in Seq(Nat)
    /\ \A i \in 1..Len(Times) - 1 : Times[i] <= Times[i + 1]
ASSUME SizeAssumption ==
    /\ {SecsPerMinute, PageLimit, Capacity, BatchSize, MaxCount} \subseteq Nat \ {0}
    /\ {Retention, High, LastSecond} \subseteq Nat
ASSUME ScenarioAssumption ==
    \A s \in Scenarios :
        s \in [trades : 0..Len(Times), drops : Nat, rest : Nat, db : Nat,
               restarts : Nat, bars : BOOLEAN, until : 0..LastSecond]

VARIABLES
    now,       \* the clock, in seconds
    head,      \* the newest trade of the exchange
    wire,      \* what the websocket still has to deliver
    session,   \* [up, attempt, seen, bar]: the websocket loop
    chunk,     \* the one-second chunk of the websocket loop
    gap,       \* replay_trade_gap, one at a time
    sync,      \* the trades of reconcile_after_ws_reconnect
    bars,      \* replays of bars: the gap worker's and the reconcile's
    pre,       \* raw trades for the prebatch worker (unbounded channel)
    preChunk,  \* the one-second chunk of the prebatch worker
    queue,     \* jobs for the shard worker
    agg,       \* the minute chunks of the shard's MinuteBatchAggregator
    worker,    \* [stage, out, n, cp, ref, batch]: the shard worker
    rows,      \* md.agg_trade_1m
    cps,       \* [buffer, saved]: newest replayed trade of the checkpoints
    hist,      \* history: [since, lost, again, ref]
    left       \* what the scenario still allows

vars == <<now, head, wire, session, chunk, gap, sync, bars, pre, preChunk,
          queue, agg, worker, rows, cps, hist, left>>

lane == <<pre, preChunk, queue, agg, worker, rows, cps>>
feed == <<wire, session, chunk>>

------------------------------------------------------------------------------
\* Counts of trades, seconds and minutes.

Ids == 1..Len(Times)
Counts == [Ids -> 0..MaxCount]
NoTrades == [i \in Ids |-> 0]
Members(b) == {i \in Ids : b[i] > 0}
Smaller(a, b) == IF a < b THEN a ELSE b
Larger(a, b) == IF a > b THEN a ELSE b
Plus(a, b) == [i \in Ids |-> Smaller(a[i] + b[i], MaxCount)]
One(i) == [NoTrades EXCEPT ![i] = 1]

Minute(t) == t \div SecsPerMinute
MinuteOf(i) == Minute(Times[i])
Minutes == 0..Minute(LastSecond)

None == -1                             \* no second, minute or bar
NoChunk == [sec |-> None, trades |-> NoTrades, n |-> 0, cp |-> 0]
NoReplay == [stage |-> "none", next |-> 0, to |-> 0, page |-> 0,
             short |-> FALSE, bar |-> None]
NoMinute == [kept |-> FALSE, trades |-> NoTrades, dirty |-> FALSE]
NoRows == [m \in {} |-> NoTrades]
Idle == [stage |-> "idle", out |-> NoRows, n |-> 0, cp |-> 0, ref |-> 0, batch |-> FALSE]

Init ==
    /\ now = 0 /\ head = 0 /\ wire = <<>>
    /\ session = [up |-> FALSE, attempt |-> FALSE, seen |-> 0, bar |-> None]
    /\ chunk = NoChunk
    /\ gap = NoReplay /\ sync = NoReplay
    /\ bars = [gap |-> <<>>, sync |-> <<>>]
    /\ pre = <<>> /\ preChunk = NoChunk /\ queue = <<>>
    /\ agg = [m \in Minutes |-> NoMinute]
    /\ worker = Idle
    /\ rows = [m \in Minutes |-> NoTrades]
    /\ cps = [buffer |-> 0, saved |-> 0]
    /\ hist = [since |-> 0, lost |-> {}, again |-> {}, ref |-> None]
    /\ left \in Scenarios

------------------------------------------------------------------------------
\* The exchange and the clock.

\* A trade happens; a connected session has it on the wire.
Trade ==
    /\ head < left.trades /\ Times[head + 1] = now
    /\ head' = head + 1
    /\ wire' = IF session.up THEN Append(wire, [kind |-> "trade", n |-> head'])
                             ELSE wire
    /\ UNCHANGED <<now, session, chunk, gap, sync, bars, lane, hist, left>>

\* A second passes, no trade of it is left; a minute that ends closes its bar.
Tick ==
    /\ now < left.until
    /\ head < left.trades => Times[head + 1] > now
    /\ now' = now + 1
    /\ wire' = IF /\ session.up /\ left.bars
                  /\ Minute(now') # Minute(now)
               THEN Append(wire, [kind |-> "bar", n |-> Minute(now)])
               ELSE wire
    /\ UNCHANGED <<head, session, chunk, gap, sync, bars, lane, hist, left>>

------------------------------------------------------------------------------
\* The persist queue as its producers see it.

JobOf(c) == [ref |-> Minute(c.sec), into |-> Minute(c.sec),
             trades |-> c.trades, n |-> c.n, cp |-> c.cp]

\* A closed bar is of the minute before the one its event is sent in.
JobOfBar(m) == [ref |-> m + 1, into |-> m, trades |-> NoTrades, n |-> 1, cp |-> 0]

\* Mutant of Enqueue: the channel has no bound.
EnqueueUnbounded(jobs) == queue' = queue \o jobs

\* A bounded channel is lossless: the sender waits for a slot.
Enqueue(jobs) ==
    /\ Len(queue) + Len(jobs) <= Capacity
    /\ queue' = queue \o jobs

SumOver(jobs) == FoldLeft(LAMBDA n, j : n + j.n, 0, jobs)

\* The counter of events that were enqueued and not yet persisted.
Pending == Len(pre) + preChunk.n + SumOver(queue) + worker.n

Throttled == Pending > High

------------------------------------------------------------------------------
\* The websocket loop of the market group.

\* The reconcile runs beside the live flow; one that still runs is not repeated.
SyncBusy == sync.stage # "none" \/ bars.sync # <<>>

\* The first bar to replay of a reconcile, and whether there is one.
SyncBars(bar) ==
    IF bar = None \/ bar + 1 >= Minute(now) - 1 THEN <<>>
    ELSE <<[next |-> bar + 1, end |-> Minute(now) - 1, fetched |-> FALSE]>>

Connect ==
    /\ ~session.up
    /\ session' = [session EXCEPT !.up = TRUE, !.attempt = FALSE]
    /\ IF ~session.attempt \/ SyncBusy THEN UNCHANGED <<sync, bars>>
       ELSE IF session.seen = 0
       THEN /\ bars' = [bars EXCEPT !.sync = SyncBars(session.bar)]
            /\ UNCHANGED sync
       ELSE /\ sync' = [NoReplay EXCEPT !.stage = "fetch", !.next = session.seen + 1,
                                        !.bar = session.bar]
            /\ UNCHANGED bars
    /\ UNCHANGED <<now, head, wire, chunk, gap, lane, hist, left>>

ConnectFails ==
    /\ ~session.up /\ ~session.attempt /\ left.drops > 0
    /\ session' = [session EXCEPT !.attempt = TRUE]
    /\ left' = [left EXCEPT !.drops = @ - 1]
    /\ UNCHANGED <<now, head, wire, chunk, gap, sync, bars, lane, hist>>

\* The session ends: what the wire holds is gone, the open chunk is queued.
Drop ==
    /\ session.up /\ left.drops > 0
    /\ session' = [session EXCEPT !.up = FALSE, !.attempt = TRUE]
    /\ wire' = <<>>
    /\ Enqueue(IF chunk.sec = None THEN <<>> ELSE <<JobOf(chunk)>>)
    /\ chunk' = NoChunk
    /\ left' = [left EXCEPT !.drops = @ - 1]
    /\ UNCHANGED <<now, head, gap, sync, bars, pre, preChunk, agg, worker, rows,
                   cps, hist>>

\* detect_trade_gap: ids not above the newest are ignored.
GapBefore(id) == session.seen # 0 /\ id > session.seen + 1

\* Mutant of HandleTradeGap: the gap includes the trade that showed it.
HandleTradeGapInclusive(id) ==
    /\ session' = [session EXCEPT !.seen = Larger(@, id)]
    /\ gap' = IF GapBefore(id) /\ gap.stage = "none"
              THEN [NoReplay EXCEPT !.stage = "fetch", !.next = session.seen + 1,
                                    !.to = id]
              ELSE gap
    /\ hist' = [hist EXCEPT !.since = IF @ = 0 THEN id ELSE @]

\* handle_trade_gap: one replay at a time, a gap met meanwhile is skipped.
HandleTradeGap(id) ==
    /\ session' = [session EXCEPT !.seen = Larger(@, id)]
    /\ gap' = IF GapBefore(id) /\ gap.stage = "none"
              THEN [NoReplay EXCEPT !.stage = "fetch", !.next = session.seen + 1,
                                    !.to = id - 1]
              ELSE gap
    /\ hist' = [hist EXCEPT
                  !.since = IF @ = 0 THEN id ELSE @,
                  !.lost = IF GapBefore(id) /\ gap.stage # "none"
                           THEN @ \cup (session.seen + 1)..(id - 1) ELSE @]

\* A trade opens the chunk of its second; the chunk of another second is queued.
ReceiveTrade ==
    /\ wire # <<>> /\ Head(wire).kind = "trade"
    /\ LET id == Head(wire).n
           open == chunk.sec = Times[id]
       IN  /\ HandleTradeGap(id)
           /\ Enqueue(IF chunk.sec = None \/ open THEN <<>> ELSE <<JobOf(chunk)>>)
           /\ chunk' = [sec |-> Times[id], n |-> 1, cp |-> 0,
                        trades |-> Plus(IF open THEN chunk.trades ELSE NoTrades,
                                        One(id))]
    /\ wire' = Tail(wire)
    /\ UNCHANGED <<now, head, sync, bars, pre, preChunk, agg, worker, rows, cps,
                   left>>

\* handle_kline_gap: the bars between the last one and this one are replayed.
ReceiveBar ==
    /\ wire # <<>> /\ Head(wire).kind = "bar"
    /\ LET m == Head(wire).n
       IN  /\ bars' = IF session.bar # None /\ m > session.bar + 1
                      THEN [bars EXCEPT !.gap = Append(@,
                              [next |-> session.bar + 1, end |-> m - 1,
                               fetched |-> FALSE])]
                      ELSE bars
           /\ session' = [session EXCEPT !.bar = m]
           /\ Enqueue(<<JobOfBar(m)>>)
    /\ wire' = Tail(wire)
    /\ UNCHANGED <<now, head, chunk, gap, sync, pre, preChunk, agg, worker, rows,
                   cps, hist, left>>

\* The one-second tick of the loop queues a chunk whose second is over.
FlushExpired ==
    /\ session.up /\ chunk.sec # None /\ chunk.sec < now
    /\ Enqueue(<<JobOf(chunk)>>)
    /\ chunk' = NoChunk
    /\ UNCHANGED <<now, head, wire, session, gap, sync, bars, pre, preChunk, agg,
                   worker, rows, cps, hist, left>>

------------------------------------------------------------------------------
\* Replays from REST: pages of trades from an id on, and bars.

\* A page holds the trades from r.next to r.page; one below the limit is short.
Fetched(r) ==
    LET last == Smaller(r.next + PageLimit - 1, head)
    IN  IF last < r.next THEN [r EXCEPT !.stage = "done"]
        ELSE [r EXCEPT !.stage = "emit", !.page = last,
                       !.short = last - r.next + 1 < PageLimit]

\* After a trade: the rest of the page, the next page, or the end.
Advanced(r, last) ==
    LET more == [r EXCEPT !.next = @ + 1]
    IN  IF r.next >= last THEN [more EXCEPT !.stage = "done"]
        ELSE IF r.next < r.page THEN more
        ELSE [more EXCEPT !.stage = IF r.short THEN "done" ELSE "fetch"]

GapEnded(r) == IF r.stage = "done" THEN NoReplay ELSE r

\* Trades a gap replay has still to hand over.
OwedBy(r) == IF r.stage = "none" THEN {} ELSE r.next..r.to

GapFetch ==
    /\ gap.stage = "fetch"
    /\ gap' = GapEnded(Fetched(gap))
    /\ UNCHANGED <<now, head, feed, sync, bars, lane, hist, left>>

\* before_emit, then the trade goes to the prebatch worker.
GapEmit ==
    /\ gap.stage = "emit" /\ ~Throttled
    /\ gap' = GapEnded(Advanced(gap, gap.to))
    /\ pre' = Append(pre, gap.next)
    /\ UNCHANGED <<now, head, feed, sync, bars, preChunk, queue, agg, worker, rows,
                   cps, hist, left>>

\* An error ends the replay; nothing retries it.
GapFetchFails ==
    /\ gap.stage = "fetch" /\ left.rest > 0
    /\ gap' = NoReplay
    /\ hist' = [hist EXCEPT !.lost = @ \cup OwedBy(gap)]
    /\ left' = [left EXCEPT !.rest = @ - 1]
    /\ UNCHANGED <<now, head, feed, sync, bars, lane>>

\* The reconcile goes on to the bars when its trades are done.
SyncGoesOn(r) ==
    IF r.stage = "done"
    THEN /\ sync' = NoReplay
         /\ bars' = [bars EXCEPT !.sync = SyncBars(r.bar)]
    ELSE sync' = r /\ UNCHANGED bars

SyncFetch ==
    /\ sync.stage = "fetch"
    /\ SyncGoesOn(Fetched(sync))
    /\ UNCHANGED <<now, head, feed, gap, lane, hist, left>>

SyncEmit ==
    /\ sync.stage = "emit" /\ ~Throttled
    /\ SyncGoesOn(Advanced(sync, Len(Times) + 1))
    /\ pre' = Append(pre, sync.next)
    /\ hist' = [hist EXCEPT !.again = @ \cup {sync.next}]
    /\ UNCHANGED <<now, head, feed, gap, preChunk, queue, agg, worker, rows, cps,
                   left>>

SyncFetchFails ==
    /\ sync.stage = "fetch" /\ left.rest > 0
    /\ sync' = NoReplay
    /\ left' = [left EXCEPT !.rest = @ - 1]
    /\ UNCHANGED <<now, head, feed, gap, bars, lane, hist>>

BarsFetch(w) ==
    /\ bars[w] # <<>> /\ ~Head(bars[w]).fetched
    /\ \/ /\ bars' = [bars EXCEPT ![w][1].fetched = TRUE]
          /\ UNCHANGED left
       \/ /\ left.rest > 0
          /\ bars' = [bars EXCEPT ![w] = Tail(@)]
          /\ left' = [left EXCEPT !.rest = @ - 1]
    /\ UNCHANGED <<now, head, feed, gap, sync, lane, hist>>

\* A replayed bar does not go through the queue: the direct aggregator knows the
\* bar and no trade of the minute, publishes that and writes it over the row.
\* A failed write ends the replay.
BarReplay(w) ==
    /\ bars[w] # <<>> /\ Head(bars[w]).fetched /\ ~Throttled
    /\ LET m == Head(bars[w]).next
           after == IF m = Head(bars[w]).end THEN Tail(bars[w])
                    ELSE [bars[w] EXCEPT ![1].next = m + 1]
       IN  \/ /\ bars' = [bars EXCEPT ![w] = after]
              /\ rows' = [rows EXCEPT ![m] = NoTrades]
              /\ hist' = [hist EXCEPT !.lost = @ \cup Members(rows[m])]
              /\ UNCHANGED left
           \/ /\ left.db > 0
              /\ bars' = [bars EXCEPT ![w] = Tail(@)]
              /\ left' = [left EXCEPT !.db = @ - 1]
              /\ UNCHANGED <<rows, hist>>
    /\ UNCHANGED <<now, head, feed, gap, sync, pre, preChunk, queue, agg, worker,
                   cps>>

------------------------------------------------------------------------------
\* The prebatch worker: replayed trades, one chunk per second.

PrebatchRecv ==
    /\ pre # <<>>
    /\ LET id == Head(pre)
           open == preChunk.sec = Times[id]
           c == IF open THEN preChunk ELSE [NoChunk EXCEPT !.sec = Times[id]]
       IN  /\ Enqueue(IF preChunk.sec = None \/ open THEN <<>>
                      ELSE <<JobOf(preChunk)>>)
           /\ preChunk' = [c EXCEPT !.trades = Plus(@, One(id)), !.n = @ + 1,
                                    !.cp = Larger(@, id)]
    /\ pre' = Tail(pre)
    /\ UNCHANGED <<now, head, feed, gap, sync, bars, agg, worker, rows, cps, hist,
                   left>>

PrebatchTick ==
    /\ preChunk.sec # None /\ preChunk.sec < now
    /\ Enqueue(<<JobOf(preChunk)>>)
    /\ preChunk' = NoChunk
    /\ UNCHANGED <<now, head, feed, gap, sync, bars, pre, agg, worker, rows, cps,
                   hist, left>>

------------------------------------------------------------------------------
\* The shard worker and its minute aggregator.

\* A job is summed into the chunk of its minute and makes it dirty.
Absorb(a, j) == [a EXCEPT ![j.into] = [kept |-> TRUE, dirty |-> TRUE,
                                       trades |-> Plus(@.trades, j.trades)]]

Ready(a, ref) == {m \in Minutes : a[m].dirty /\ m < ref}

\* Mutant of Trimmed: an emitted chunk is forgotten at once.
TrimmedAtOnce(a, ref) ==
    [m \in Minutes |-> IF m < ref /\ ~a[m].dirty THEN NoMinute ELSE a[m]]

\* trim_emitted_chunks: an emitted chunk stays for Retention minutes.
Trimmed(a, ref) ==
    [m \in Minutes |-> IF m < ref - Retention /\ ~a[m].dirty THEN NoMinute ELSE a[m]]

\* flush_ready_before_minute_ms: the chunks after it; what it emits is Emitted.
Flushed(a, ref) ==
    Trimmed([m \in Minutes |-> IF m \in Ready(a, ref) THEN [a[m] EXCEPT !.dirty = FALSE]
                               ELSE a[m]], ref)
Emitted(a, ref) == [m \in Ready(a, ref) |-> a[m].trades]

\* The row a job will overwrite although the chunk of its minute was trimmed.
TooLate(j) ==
    IF ~agg[j.into].kept /\ j.into < hist.ref - Retention THEN Members(rows[j.into])
    ELSE {}

\* A batch takes what is queued, waiting for more, until it is full or the
\* coalescing time is over.  Only the worker sees its aggregator, so a job is
\* absorbed when it is taken.
TakeJob ==
    /\ queue # <<>>
    /\ worker.stage = "idle" \/ (worker.stage = "taking" /\ worker.n < BatchSize)
    /\ LET j == Head(queue)
       IN  /\ agg' = Absorb(agg, j)
           /\ worker' = [worker EXCEPT !.stage = "taking", !.n = @ + j.n,
                                       !.cp = Larger(@, j.cp), !.ref = Larger(@, j.ref)]
           /\ hist' = [hist EXCEPT !.lost = @ \cup TooLate(j)]
    /\ queue' = Tail(queue)
    /\ UNCHANGED <<now, head, feed, gap, sync, bars, pre, preChunk, rows, cps, left>>

\* The end of the batch publishes the minutes before its newest.
EndBatch ==
    /\ worker.stage = "taking"
    /\ agg' = Flushed(agg, worker.ref)
    /\ worker' = [worker EXCEPT !.stage = "writing", !.out = Emitted(agg, worker.ref),
                                !.batch = TRUE]
    /\ hist' = [hist EXCEPT !.ref = Larger(@, worker.ref)]
    /\ UNCHANGED <<now, head, feed, gap, sync, bars, pre, preChunk, queue, rows, cps,
                   left>>

\* Mutant of FlushTick: the minutes before the newest one with data.
FlushTickByData ==
    /\ worker.stage = "idle"
    /\ agg' = Flushed(agg, hist.ref) /\ agg' # agg
    /\ worker' = [Idle EXCEPT !.stage = IF Ready(agg, hist.ref) = {} THEN "idle" ELSE "writing",
                              !.out = Emitted(agg, hist.ref)]
    /\ UNCHANGED <<now, head, feed, gap, sync, bars, pre, preChunk, queue, rows,
                   cps, hist, left>>

\* The flush tick: the minutes before the current one.
FlushTick ==
    /\ worker.stage = "idle"
    /\ agg' = Flushed(agg, Minute(now)) /\ agg' # agg
    /\ worker' = [Idle EXCEPT !.stage = IF Ready(agg, Minute(now)) = {} THEN "idle" ELSE "writing",
                              !.out = Emitted(agg, Minute(now))]
    /\ hist' = [hist EXCEPT !.ref = Larger(@, Minute(now))]
    /\ UNCHANGED <<now, head, feed, gap, sync, bars, pre, preChunk, queue, rows,
                   cps, left>>

Overwrite(ms) == [m \in Minutes |-> IF m \in ms THEN worker.out[m] ELSE rows[m]]

\* A batch write that fails is repeated row by row: a batch goes on after a row
\* that fails, a flush stops at it.  The chunks stay clean either way.
Written ==
    IF worker.batch THEN SUBSET DOMAIN worker.out
    ELSE {{m \in DOMAIN worker.out : m < x} : x \in DOMAIN worker.out}

\* The rows, then the checkpoint of the batch, then the counters.
WriteRows ==
    /\ worker.stage = "writing"
    /\ \/ /\ rows' = Overwrite(DOMAIN worker.out)
          /\ UNCHANGED <<hist, left>>
       \/ /\ left.db > 0 /\ DOMAIN worker.out # {}
          /\ \E ms \in Written \ {DOMAIN worker.out} :
               /\ rows' = Overwrite(ms)
               /\ hist' = [hist EXCEPT !.lost = @ \cup
                             UNION {Members(worker.out[m]) :
                                      m \in DOMAIN worker.out \ ms}]
          /\ left' = [left EXCEPT !.db = @ - 1]
    /\ cps' = [cps EXCEPT !.buffer = Larger(@, worker.cp)]
    /\ worker' = Idle
    /\ UNCHANGED <<now, head, feed, gap, sync, bars, pre, preChunk, queue, agg>>

\* The checkpoint worker upserts its buffer as it is, a failure loses it.
SaveCheckpoint ==
    /\ cps.buffer # 0
    /\ \/ /\ cps' = [buffer |-> 0, saved |-> cps.buffer]
          /\ UNCHANGED left
       \/ /\ left.db > 0
          /\ cps' = [cps EXCEPT !.buffer = 0]
          /\ left' = [left EXCEPT !.db = @ - 1]
    /\ UNCHANGED <<now, head, feed, gap, sync, bars, pre, preChunk, queue, agg,
                   worker, rows, hist>>

------------------------------------------------------------------------------
\* The process stops and starts again.  The detector is seeded from the saved
\* checkpoint, which only replayed trades write; the last bar is whichever the
\* bars' own checkpoints hold.
Restart ==
    /\ left.restarts > 0
    /\ \E seen \in {0, cps.saved},
          bar \in IF left.bars THEN None..Minute(now) - 1 ELSE {None} :
         /\ session' = [up |-> FALSE, attempt |-> FALSE, seen |-> seen, bar |-> bar]
         /\ hist' = [hist EXCEPT !.since = IF seen = 0 THEN 0 ELSE seen + 1,
                                 !.lost = {}, !.again = 1..head,
                                 !.ref = None]
    /\ wire' = <<>> /\ chunk' = NoChunk
    /\ gap' = NoReplay /\ sync' = NoReplay
    /\ bars' = [gap |-> <<>>, sync |-> <<>>]
    /\ pre' = <<>> /\ preChunk' = NoChunk /\ queue' = <<>>
    /\ agg' = [m \in Minutes |-> NoMinute]
    /\ worker' = Idle
    /\ cps' = [cps EXCEPT !.buffer = 0]
    /\ left' = [left EXCEPT !.restarts = @ - 1]
    /\ UNCHANGED <<now, head, rows>>

Next ==
    \/ Trade \/ Tick
    \/ Connect \/ ConnectFails \/ Drop
    \/ ReceiveTrade \/ ReceiveBar \/ FlushExpired
    \/ GapFetch \/ GapEmit \/ GapFetchFails
    \/ SyncFetch \/ SyncEmit \/ SyncFetchFails
    \/ \E w \in {"gap", "sync"} : BarsFetch(w) \/ BarReplay(w)
    \/ PrebatchRecv \/ PrebatchTick
    \/ TakeJob \/ EndBatch \/ FlushTick \/ WriteRows \/ SaveCheckpoint
    \/ Restart

Spec == Init /\ [][Next]_vars

\* Time goes on, so a trade happens in its second, and every task takes its next
\* step when it has one: the websocket loop, the replays, the prebatch worker and
\* the shard worker, whose select! may pick any of its branches.  No fault is fair.
FairSpec ==
    /\ Spec
    /\ WF_vars(Trade \/ Tick)
    /\ WF_vars(Connect \/ ReceiveTrade \/ ReceiveBar \/ FlushExpired)
    /\ WF_vars(GapFetch \/ GapEmit)
    /\ WF_vars(SyncFetch \/ SyncEmit \/ BarsFetch("sync") \/ BarReplay("sync"))
    /\ WF_vars(BarsFetch("gap") \/ BarReplay("gap"))
    /\ WF_vars(PrebatchRecv \/ PrebatchTick)
    /\ WF_vars(TakeJob \/ EndBatch \/ FlushTick \/ WriteRows)

------------------------------------------------------------------------------
\* Properties.

Jobs == [ref : 0..Minute(LastSecond) + 1, into : Minutes, trades : Counts, n : Nat,
         cp : Nat]
Chunks == [sec : None..LastSecond, trades : Counts, n : Nat, cp : Nat]
Replays == [stage : {"none", "fetch", "emit"}, next : Nat, to : Nat, page : Nat,
            short : BOOLEAN, bar : None..Minute(LastSecond)]
BarReplays == [next : Minutes, end : Minutes, fetched : BOOLEAN]

TypeOK ==
    /\ now \in 0..LastSecond /\ head \in 0..Len(Times)
    /\ wire \in Seq([kind : {"trade", "bar"}, n : Nat])
    /\ session \in [up : BOOLEAN, attempt : BOOLEAN, seen : 0..head,
                    bar : None..Minute(LastSecond)]
    /\ {chunk, preChunk} \subseteq Chunks
    /\ {gap, sync} \subseteq Replays
    /\ bars \in [gap : Seq(BarReplays), sync : Seq(BarReplays)]
    /\ pre \in Seq(1..head) /\ queue \in Seq(Jobs) /\ Len(queue) <= Capacity
    /\ agg \in [Minutes -> [kept : BOOLEAN, trades : Counts, dirty : BOOLEAN]]
    /\ worker \in [stage : {"idle", "taking", "writing"}, n : Nat, cp : Nat,
                   out : [DOMAIN worker.out -> Counts],
                   ref : 0..Minute(LastSecond) + 1, batch : BOOLEAN]
    /\ DOMAIN worker.out \subseteq Minutes
    /\ rows \in [Minutes -> Counts]
    /\ cps \in [buffer : 0..head, saved : 0..head]
    /\ hist \in [since : Nat, lost : SUBSET Ids, again : SUBSET Ids,
                 ref : None..Minute(LastSecond) + 1]
    /\ left \in [trades : Nat, drops : Nat, rest : Nat, db : Nat, restarts : Nat,
                 bars : BOOLEAN, until : 0..LastSecond]

\* The ids the detector has passed since the process knows the stream.
InSight(id) == hist.since # 0 /\ hist.since <= id /\ id <= session.seen

InRow(id) == rows[MinuteOf(id)][id] > 0

OnItsWay(id) ==
    LET m == MinuteOf(id)
    IN  \/ id \in OwedBy(gap)
        \/ chunk.trades[id] > 0 \/ preChunk.trades[id] > 0
        \/ id \in Range(pre)
        \/ \E j \in Range(queue) : j.trades[id] > 0
        \/ agg[m].dirty /\ agg[m].trades[id] > 0
        \/ m \in DOMAIN worker.out /\ worker.out[m][id] > 0

\* Every id up to the newest one seen, received or missed, is in the row of its
\* minute or on its way there: in a replay, a chunk, a channel, the aggregator or
\* a write.  The exceptions are hist.lost: a gap met while another is replayed, a
\* page that cannot be fetched, a row that cannot be written, a bar written over
\* the row, and a row rebuilt from trades later than the aggregator's retention.
NoTradeVanishes ==
    \A id \in Ids : InSight(id) /\ id \notin hist.lost => OnItsWay(id) \/ InRow(id)

\* The aggregator and the rows sum ids without remembering them; a trade enters
\* twice only if a reconcile fetched it, or a restart made the stream start over:
\* the detector hands each id either to the live chunk or to one gap replay.
TwiceOnlyIfRefetched ==
    \A m \in Minutes, id \in Ids :
        rows[m][id] > 1 \/ agg[m].trades[id] > 1 => id \in hist.again

\* "The producer's idempotency key of a trade is market + symbol + agg_trade_id":
\* a trade counts once in the row of its minute.
TradeCountedOnce == \A m \in Minutes, id \in Ids : rows[m][id] <= 1

\* A trade the detector has passed gets into the row of its minute without a
\* further trade to push it: by the ticks of the loop, the prebatch worker and the
\* aggregator alone.  Same exceptions as NoTradeVanishes, and a restart.
TradeIsStored ==
    []<>(\A id \in Ids : InSight(id) => InRow(id) \/ id \in hist.lost)

==============================================================================
