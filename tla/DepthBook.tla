------------------------------ MODULE DepthBook ------------------------------
(***************************************************************************)
(* The order book of one market in the market data ingestor                *)
(* (systems/market_data_ingestor): the depth stream of a websocket         *)
(* session, the book and the one-second chunk the session folds it into,   *)
(* the detector of gaps in the update ids, the depth rebuilder that takes  *)
(* REST snapshots, every 30 s and when a gap is found, and the prebatch    *)
(* worker of the persist queue that folds the snapshots into a book and a  *)
(* chunk of its own.  A restart begins at Init, with the exchange's book   *)
(* not empty: the detector's saved baseline is never read back.            *)
(***************************************************************************)
EXTENDS Naturals, Sequences, FiniteSetsExt

CONSTANTS Levels,       \* price levels (of both sides: a price is on one)
          MaxEvents,    \* ORDERBOOK_PREBATCH_MAX_EVENTS
          MaxUpdates,   \* bound: depth messages of the exchange
          LastSecond,   \* bound: the clock stops here
          Scenarios     \* the market, and bounds:
                        \* [futures, updates, levels, quotes, sessions, garbled, failures, until]

ASSUME DepthAssumption ==
    /\ IsFiniteSet(Levels) /\ Levels # {}
    /\ MaxEvents \in Nat \ {0}
    /\ {MaxUpdates, LastSecond} \subseteq Nat
    /\ Scenarios \subseteq [futures : BOOLEAN, updates : 0..MaxUpdates, levels : SUBSET Levels,
                            quotes : BOOLEAN, sessions : Nat, garbled : Nat, failures : Nat,
                            until : 0..LastSecond]

VARIABLES
    now,       \* the clock, in seconds
    feed,      \* the exchange's depth messages: [level, qty], qty 0 removes
    wire,      \* what the session still has to deliver
    session,   \* [up, count, since, head]: messages up to since were missed,
               \* head is the newest the session delivered, readable or not
    garbled,   \* messages of this session that could not be decoded
    baseline,  \* depth_last_final_update_id, 0 for none
    book,      \* the quantities of the session's book and of the queue's
    chunk,     \* the one-second chunk built beside each book
    pending,   \* DEPTH_SNAPSHOT_PENDING of the market
    request,   \* a request is in the rebuilder's channel
    rebuilder, \* [stage, byGap, at]: run_one_market, at is what it fetched
    sync,      \* DepthSyncState of the market
    queue,     \* [open, snapshots]: the registered persist queue
    weight,    \* history: per book, the quantities of the open chunk's samples
    hist,      \* history: [got, gaps, snapshot, failures]
    bound      \* the scenario

vars == <<now, feed, wire, session, garbled, baseline, book, chunk, pending,
          request, rebuilder, sync, queue, weight, hist, bound>>

stream == <<wire, session, garbled, baseline>>
rebuild == <<pending, request, rebuilder, sync, queue>>
folded == <<book, chunk, weight>>

Books == {"session", "queue"}
Messages == 1..Len(feed)
NoChunk == [second |-> 0, cursor |-> 0, heat |-> <<>>]
Empty == [l \in Levels |-> 0]

(* Message i covers the ids after Prev(i) up to Final(i).  Its U is the    *)
(* first of them on spot; a futures range need not begin there, but names  *)
(* Prev(i) as pu.                                                          *)
Final(i) == 2 * i
Prev(i) == Final(i - 1)
First(i) == IF bound.futures THEN Final(i) ELSE Prev(i) + 1

(* The exchange's book after its first n messages. *)
LastOn(l, n) == Max({0} \cup {i \in 1..n : feed[i].level = l})
TrueBook(n) == [l \in Levels |-> IF LastOn(l, n) = 0 THEN 0 ELSE feed[LastOn(l, n)].qty]

-----------------------------------------------------------------------------
(* The incremental chunk: each sample weighs every level by its quantity,  *)
(* but a level is only visited when it changes and when the chunk closes.  *)

Level(qty, cursor) == [qty |-> qty, last |-> cursor, sum |-> 0]

SeededEmpty(b, second) ==
    [second |-> second, cursor |-> 0, heat |-> [l \in Levels |-> Level(0, 0)]]

(* A new chunk starts from the whole book. *)
Seeded(b, second) ==
    [second |-> second, cursor |-> 0, heat |-> [l \in Levels |-> Level(book[b][l], 0)]]

Visit(level, qty, cursor) ==
    [qty |-> qty, last |-> cursor, sum |-> level.sum + level.qty * (cursor - level.last)]

(* What finalize_to_event gives a level. *)
Weighed(c, l) == Visit(c.heat[l], 0, c.cursor).sum

(* An event of the given second sets the quantities of some levels of book *)
(* b, and is sampled; a full chunk is sent at once.                        *)
Fold(b, second, changed, newBook) ==
    LET goesOn == chunk[b] # NoChunk /\ chunk[b].second = second
        c == IF goesOn THEN chunk[b] ELSE Seeded(b, second)
        sampled == [c EXCEPT !.cursor = @ + 1,
                             !.heat = [l \in Levels |-> IF l \in changed
                                                        THEN Visit(@[l], newBook[l], c.cursor)
                                                        ELSE @[l]]]
        full == sampled.cursor >= MaxEvents
    IN  /\ book' = [book EXCEPT ![b] = newBook]
        /\ chunk' = [chunk EXCEPT ![b] = IF full THEN NoChunk ELSE sampled]
        /\ weight' = [weight EXCEPT ![b] =
                          [l \in Levels |-> IF full THEN 0
                                            ELSE newBook[l] + IF goesOn THEN @[l] ELSE 0]]

(* The chunk is sent and forgotten. *)
Sent(b) ==
    /\ chunk' = [chunk EXCEPT ![b] = NoChunk]
    /\ weight' = [weight EXCEPT ![b] = Empty]

-----------------------------------------------------------------------------
Init ==
    /\ now = 0
    /\ feed = <<>>
    /\ wire = <<>>
    /\ session = [up |-> FALSE, count |-> 0, since |-> 0, head |-> 0]
    /\ garbled = {}
    /\ baseline = 0
    /\ book = [b \in Books |-> Empty]
    /\ chunk = [b \in Books |-> NoChunk]
    /\ pending = FALSE
    /\ request = FALSE
    /\ rebuilder = [stage |-> "starting", byGap |-> FALSE, at |-> 0]
    /\ sync = "INIT"
    /\ queue = [open |-> FALSE, snapshots |-> <<>>]
    /\ weight = [b \in Books |-> Empty]
    /\ hist = [got |-> {}, gaps |-> {}, snapshot |-> 0, failures |-> 0]
    /\ bound \in Scenarios

(* The exchange. *)
Clock ==
    /\ now < bound.until
    /\ now' = now + 1
    /\ UNCHANGED <<feed, stream, folded, rebuild, hist, bound>>

Sends(n, l, qty, quote) ==
    wire' = IF session.up
            THEN Append(wire, [n |-> n, level |-> l, qty |-> qty, quote |-> quote, second |-> now])
            ELSE wire

(* A level gets a quantity no level had before, or goes. *)
Update(l, qty) ==
    /\ Len(feed) < bound.updates /\ l \in bound.levels
    /\ qty = Len(feed) + 1 \/ (qty = 0 /\ TrueBook(Len(feed))[l] # 0)
    /\ feed' = Append(feed, [level |-> l, qty |-> qty])
    /\ Sends(Len(feed) + 1, l, qty, FALSE)
    /\ UNCHANGED <<now, session, garbled, baseline, folded, rebuild, hist, bound>>

(* bookTicker: the best price as it is; one quote on the wire at a time. *)
Quote(l) ==
    /\ session.up /\ bound.quotes
    /\ \A k \in DOMAIN wire : ~wire[k].quote
    /\ TrueBook(Len(feed))[l] # 0
    /\ Sends(Len(feed), l, TrueBook(Len(feed))[l], TRUE)
    /\ UNCHANGED <<now, feed, session, garbled, baseline, folded, rebuild, hist, bound>>

-----------------------------------------------------------------------------
(* The websocket session.                                                  *)

(* The pipeline registers its persist queue before it connects. *)
StartPipeline ==
    /\ ~queue.open
    /\ queue' = [queue EXCEPT !.open = TRUE]
    /\ UNCHANGED <<now, feed, stream, folded, pending, request, rebuilder, sync, hist, bound>>

ConnectKeepsBook ==
    /\ queue.open /\ ~session.up
    /\ session.count < bound.sessions
    /\ session' = [up |-> TRUE, count |-> session.count + 1,
                   since |-> Len(feed), head |-> Len(feed)]
    /\ garbled' = {}
    /\ UNCHANGED <<now, feed, wire, baseline, folded, rebuild, hist, bound>>

(* A session begins with an empty pre-aggregator. *)
Connect ==
    /\ queue.open /\ ~session.up
    /\ session.count < bound.sessions
    /\ session' = [up |-> TRUE, count |-> session.count + 1,
                   since |-> Len(feed), head |-> Len(feed)]
    /\ garbled' = {}
    /\ book' = [book EXCEPT !["session"] = Empty]
    /\ UNCHANGED <<now, feed, wire, baseline, chunk, weight, rebuild, hist, bound>>

(* The session ends, whatever the reason: flush_all. *)
Disconnect ==
    /\ session.up
    /\ session' = [session EXCEPT !.up = FALSE]
    /\ wire' = <<>>
    /\ Sent("session")
    /\ UNCHANGED <<now, feed, garbled, baseline, book, rebuild, hist, bound>>

GapBeforeFirst(i) ==
    IF baseline # 0 /\ First(i) > baseline + 1 THEN {<<baseline + 1, First(i) - 1>>} ELSE {}

(* detect_depth_gap: the ids missing before message i. *)
GapBefore(i) ==
    LET to == IF bound.futures THEN Prev(i) ELSE First(i) - 1
    IN  IF baseline # 0 /\ Final(i) > baseline /\ to > baseline
        THEN {<<baseline + 1, to>>} ELSE {}

(* request_immediate_depth_reconcile: nothing while a request of the       *)
(* market is pending, or before the rebuilder has opened its channel.      *)
RequestReconcile ==
    IF pending \/ rebuilder.stage = "starting"
    THEN UNCHANGED <<pending, request>>
    ELSE pending' = TRUE /\ request' = TRUE

Delivered(n) ==
    /\ wire' = Tail(wire)
    /\ session' = [session EXCEPT !.head = n]

(* A frame of the depth stream: handle_depth_gap, then ingest_raw_event. *)
ReceiveDepth ==
    /\ wire # <<>> /\ ~Head(wire).quote
    /\ LET m == Head(wire)
           gap == GapBefore(m.n)
       IN  /\ baseline' = Max({baseline, Final(m.n)})
           /\ IF gap = {} THEN UNCHANGED <<pending, request>> ELSE RequestReconcile
           /\ hist' = [hist EXCEPT !.got = @ \cup {m.n}, !.gaps = @ \cup gap]
           /\ Fold("session", m.second, {m.level}, [book["session"] EXCEPT ![m.level] = m.qty])
           /\ Delivered(m.n)
    /\ UNCHANGED <<now, feed, garbled, rebuilder, sync, queue, bound>>

(* A quote goes into the same book and chunk, and has no update id to check. *)
ReceiveQuote ==
    /\ wire # <<>> /\ Head(wire).quote
    /\ LET m == Head(wire)
       IN  /\ Fold("session", m.second, {m.level}, [book["session"] EXCEPT ![m.level] = m.qty])
           /\ Delivered(m.n)
    /\ UNCHANGED <<now, feed, garbled, baseline, rebuild, hist, bound>>

(* A depth message that cannot be decoded or normalized is skipped. *)
Garble ==
    /\ wire # <<>> /\ ~Head(wire).quote
    /\ Cardinality(garbled) < bound.garbled
    /\ garbled' = garbled \cup {Head(wire).n}
    /\ Delivered(Head(wire).n)
    /\ UNCHANGED <<now, feed, baseline, folded, rebuild, hist, bound>>

(* The ticks of the session (flush_expired) and of the prebatch worker. *)
FlushTick(b) ==
    /\ chunk[b] # NoChunk
    /\ chunk[b].second < now
    /\ Sent(b)
    /\ UNCHANGED <<now, feed, stream, book, rebuild, hist, bound>>

-----------------------------------------------------------------------------
(* The depth rebuilder.  Its ticks and requests of the other market, which *)
(* take its time but share no state with this one, are not shown.          *)

(* After at most 5 s of waiting for the queues the channel opens. *)
StartRebuilder ==
    /\ rebuilder.stage = "starting"
    /\ rebuilder' = [rebuilder EXCEPT !.stage = "idle"]
    /\ UNCHANGED <<now, feed, stream, folded, pending, request, sync, queue, hist, bound>>

Run(byGap) ==
    /\ rebuilder.stage = "idle"
    /\ rebuilder' = [stage |-> "asked", byGap |-> byGap, at |-> 0]
    /\ sync' = "SNAPSHOT_SYNCING"

(* The ticker; bound: the worker has taken the snapshot before. *)
Tick ==
    /\ queue.snapshots = <<>>
    /\ Run(FALSE)
    /\ UNCHANGED <<now, feed, stream, folded, pending, request, queue, hist, bound>>

TakeRequest ==
    /\ request
    /\ Run(TRUE)
    /\ request' = FALSE
    /\ UNCHANGED <<now, feed, stream, folded, pending, queue, hist, bound>>

(* The exchange makes the snapshot. *)
Answer ==
    /\ rebuilder.stage = "asked"
    /\ rebuilder' = [rebuilder EXCEPT !.stage = "answered", !.at = Len(feed)]
    /\ UNCHANGED <<now, feed, stream, folded, pending, request, sync, queue, hist, bound>>

EndRunClears ==
    /\ rebuilder' = [stage |-> "idle", byGap |-> FALSE, at |-> 0]
    /\ pending' = FALSE
    /\ UNCHANGED request

(* The run ends; one that a request asked for clears the pending mark. *)
EndRun ==
    /\ rebuilder' = [stage |-> "idle", byGap |-> FALSE, at |-> 0]
    /\ pending' = (pending /\ ~rebuilder.byGap)
    /\ UNCHANGED request

PublishFirst ==
    /\ rebuilder.stage = "answered"
    /\ queue' = IF queue.open /\ book["queue"] = Empty
                THEN [queue EXCEPT !.snapshots = Append(@, [at |-> rebuilder.at, second |-> now])]
                ELSE queue
    /\ sync' = "LIVE_SYNCED"
    /\ EndRun
    /\ UNCHANGED <<now, feed, stream, folded, hist, bound>>

(* The snapshot is queued, if the persist queue is there to take it. *)
Publish ==
    /\ rebuilder.stage = "answered"
    /\ IF queue.open
       THEN /\ queue' = [queue EXCEPT !.snapshots =
                             Append(@, [at |-> rebuilder.at, second |-> now])]
            /\ sync' = "LIVE_SYNCED"
       ELSE /\ sync' = "DESYNC"
            /\ UNCHANGED queue
    /\ EndRun
    /\ UNCHANGED <<now, feed, stream, folded, hist, bound>>

FetchFails ==
    /\ rebuilder.stage \in {"asked", "answered"}
    /\ hist.failures < bound.failures
    /\ hist' = [hist EXCEPT !.failures = @ + 1]
    /\ sync' = "DESYNC"
    /\ EndRun
    /\ UNCHANGED <<now, feed, stream, folded, queue, bound>>

(* The prebatch worker: apply_snapshot_with_heatmap_diffs visits the levels *)
(* that differ.                                                            *)
TakeSnapshot ==
    /\ queue.snapshots # <<>>
    /\ LET s == Head(queue.snapshots)
           newBook == TrueBook(s.at)
       IN  /\ Fold("queue", s.second, {l \in Levels : newBook[l] # book["queue"][l]}, newBook)
           /\ hist' = [hist EXCEPT !.snapshot = s.at]
    /\ queue' = [queue EXCEPT !.snapshots = Tail(@)]
    /\ UNCHANGED <<now, feed, stream, pending, request, rebuilder, sync, bound>>

-----------------------------------------------------------------------------
Exchange ==
    \/ \E l \in Levels : Quote(l) \/ \E qty \in 0..MaxUpdates : Update(l, qty)
    \/ Clock
Session ==
    \/ StartPipeline \/ Connect \/ Disconnect
    \/ ReceiveDepth \/ ReceiveQuote \/ Garble
    \/ \E b \in Books : FlushTick(b)
Rebuilder ==
    \/ StartRebuilder \/ Tick \/ TakeRequest
    \/ Answer \/ Publish \/ FetchFails \/ TakeSnapshot

Next == Exchange \/ Session \/ Rebuilder

Spec == Init /\ [][Next]_vars

(* The tasks run.  The ticker of 30 s leaves a request its turn; the       *)
(* exchange answers, by a failure perhaps, as long as those are bounded.   *)
Fairness ==
    /\ WF_vars(StartPipeline)
    /\ WF_vars(StartRebuilder)
    /\ WF_vars(Tick)
    /\ SF_vars(TakeRequest)
    /\ WF_vars(Answer)
    /\ WF_vars(Publish \/ FetchFails)
    /\ WF_vars(TakeSnapshot)

FairSpec == Spec /\ Fairness

-----------------------------------------------------------------------------
Items == [n : 0..MaxUpdates, level : Levels, qty : 0..MaxUpdates,
          quote : BOOLEAN, second : 0..LastSecond]

(* Types; and a request under way is marked pending, once. *)
TypeOK ==
    /\ now \in 0..LastSecond
    /\ feed \in Seq([level : Levels, qty : 0..MaxUpdates]) /\ Len(feed) <= MaxUpdates
    /\ wire \in Seq(Items) /\ (~session.up => wire = <<>>)
    /\ session \in [up : BOOLEAN, count : 0..bound.sessions, since : 0..Len(feed), head : 0..Len(feed)]
    /\ garbled \subseteq Messages /\ hist.got \subseteq Messages
    /\ baseline \in {0} \cup {Final(i) : i \in Messages}
    /\ book \in [Books -> [Levels -> 0..MaxUpdates]]
    /\ \A b \in Books : chunk[b] = NoChunk \/ chunk[b].cursor \in 1..MaxEvents - 1
    /\ rebuilder.stage \in {"starting", "idle", "asked", "answered"}
    /\ sync \in {"INIT", "SNAPSHOT_SYNCING", "LIVE_SYNCED", "DESYNC"}
    /\ pending <=> request \/ rebuilder.byGap
    /\ ~(request /\ rebuilder.byGap)

(* The session's book shows every level as the exchange had it when the    *)
(* last delivered message was sent, except a level whose newest change     *)
(* could not be decoded, and one untouched since the session began, which  *)
(* is absent: not stale from an earlier session, nor from a quote that a   *)
(* delta overtook.                                                         *)
SessionBookIsCurrent ==
    session.up =>
        \A l \in Levels :
            \/ book["session"][l] = TrueBook(session.head)[l]
            \/ LastOn(l, session.head) \in garbled
            \/ LastOn(l, session.head) <= session.since /\ book["session"][l] = 0

(* The sums of a chunk, kept by visiting only what changes, are those of   *)
(* the whole book summed after every event: levels nothing touched in its  *)
(* second count in full, and a snapshot ends those it does not list.       *)
ChunkWeighsTheBook ==
    \A b \in Books : \A l \in Levels :
        chunk[b] # NoChunk => Weighed(chunk[b], l) = weight[b][l]

(* Some id of message i lies in a reported gap. *)
Reported(i) == \E g \in hist.gaps : g[1] <= Final(i) /\ Prev(i) < g[2]

(* From the first depth message of the process on, the detector reports    *)
(* what was lost, to garbling or between sessions, and nothing that came.  *)
GapsAreTheLosses ==
    \A i \in Messages :
        hist.got # {} /\ Min(hist.got) <= i /\ Final(i) <= baseline =>
            (i \notin hist.got <=> Reported(i))

(* A reported gap is followed by a snapshot that is at least as new, though *)
(* its request is dropped when an older one is still running, and the mark *)
(* is free again for the next gap.                                         *)
GapIsAnswered ==
    \A i \in 1..MaxUpdates :
        Reported(i) ~> hist.snapshot >= i /\ ~pending

(* "SNAPSHOT_SYNCING: take the snapshot and align the U/u/pu chain;        *)
(* LIVE_SYNCED: the chain is continuous": with everything delivered, the   *)
(* book the deltas go to is the exchange's.                                *)
SyncedBookIsCurrent ==
    sync = "LIVE_SYNCED" /\ session.up /\ wire = <<>> /\ queue.snapshots = <<>>
        /\ hist.snapshot = Len(feed) => book["session"] = TrueBook(Len(feed))

=============================================================================
