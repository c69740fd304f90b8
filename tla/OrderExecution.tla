--------------------------- MODULE OrderExecution ---------------------------
(***************************************************************************)
(* Order execution of the llm service (execution/binance.rs) for one       *)
(* symbol in hedge mode with place_exit_orders on, the defaults.           *)
(*                                                                         *)
(* The strategy loop submits an entry, or adds to a position, stages a     *)
(* stop loss and a take profit for it, and later manages the position; a   *)
(* watcher per entry and a sweep per flatten event cancel the exits that   *)
(* are left when the position is gone; the account stream keeps a cache of *)
(* positions that these readers prefer to REST.  Every request to the      *)
(* exchange is a step of its own: orders trigger and events arrive between *)
(* any two of them.                                                        *)
(*                                                                         *)
(* The exchange is external.  An entry fills unit by unit; an exit closes  *)
(* at most the position; compute_execution_rr refuses an entry that does   *)
(* not lie before its stop, so a stop does not trigger while an entry of   *)
(* its side is open.  Of an exit's price the model keeps where it lies     *)
(* from the entry price of the position, the level `at`.  Balance,         *)
(* leverage and quantities other than whole units are left out, dry_run is *)
(* off.                                                                    *)
(***************************************************************************)
EXTENDS Integers, Sequences, FiniteSets, FiniteSetsExt

CONSTANTS
    Sides,       \* hedge position sides, LONG and SHORT
    Scenarios,   \* bounds: records of the units of an entry (lot), of whether
                 \* entries may rest in the book (makers, is_maker_entry), of the
                 \* levels that exits are moved to, of the operations considered,
                 \* of how many tasks are at work at a time (busy), and of how many
                 \* entries, exits hit by the market, management operations,
                 \* failing requests, lost account events and restarts there are
    MaxEntries,  \* bound on the entries of a scenario
    MaxInFlight  \* bound on account events on their way

Ops == {"FLATTEN_POSITION", "REDUCE_POSITION", "MOVE_STOP",
        "UPDATE_TAKE_PROFIT", "CANCEL_PENDING_ENTRY"}

\* Beyond the entry price on the losing side, at it, on the winning side.
Levels == {"loss", "even", "profit"}

ASSUME ConstantsAssumption ==
    /\ Scenarios \subseteq [lot : Nat \ {0}, makers : SUBSET BOOLEAN \ {{}},
                           levels : SUBSET Levels, ops : SUBSET Ops, busy : Nat,
                           entries : 1..MaxEntries, hits : Nat, managed : Nat,
                           fails : Nat, lost : Nat, restarts : Nat]
    /\ {MaxEntries, MaxInFlight} \subseteq Nat

VARIABLES
    pos,      \* units held on each side, at the exchange
    book,     \* open orders at the exchange
    stream,   \* account events on their way: a side and its position
    cache,    \* AccountWsState::positions
    ready,    \* AccountWsState::position_snapshot_ready_symbols
    flat,     \* flattened_at: the watchers of a side older than its last flatten
    task,     \* each task: where it stands, the trading state it has read, the
              \* orders it is about to cancel, and the sides that have moved
              \* under it since it read the positions (history)
    job,      \* the loop's work: side, operation, entry order, maker, stop id
    watch,    \* what each watcher tracks: side, entry order, exits
    sweeps,   \* flatten events whose sweep has not begun
    holes,    \* what has met each side that the code does not recover from (history)
    budget    \* what is left of the scenario

vars == <<pos, book, stream, cache, ready, flat, task, job, watch, sweeps,
          holes, budget>>

exchange == <<pos, book, stream>>
account == <<cache, ready, flat>>

Loop == <<"loop", 0>>
Sweep == <<"sweep", 0>>
Watchers == {<<"watch", n>> : n \in 1..MaxEntries}
Tasks == {Loop, Sweep} \cup Watchers

NoJob == [side |-> "", op |-> "", entry |-> 0, maker |-> FALSE, stop |-> 0]
NoView == [pos |-> [s \in Sides |-> 0], orders |-> {}, fromWs |-> FALSE]
At(label) == [pc |-> label, view |-> NoView, todo |-> {}, touched |-> {}]
NoWatch == [side |-> "", entry |-> 0, exits |-> {}]

-----------------------------------------------------------------------------
(* Orders and what the code takes them for.                                *)

IsEntry(o) == o.kind \in {"entry", "addition"}
IsExit(o) == ~IsEntry(o)
IsStop(o) == o.kind = "stopLoss"

\* The take profit of a maker entry is a STOP limit order, which
\* exact_order_type_matches_exit_kind counts among the stop losses.
TypedAs(o, exit) ==
    IF exit = "stopLoss" THEN o.kind \in {"stopLoss", "makerTakeProfit"}
                         ELSE o.kind = "takeProfit"

OfSide(orders, s) == {o \in orders : o.side = s}
Entries(orders, s) == {o \in OfSide(orders, s) : IsEntry(o)}
Exits(orders, s) == {o \in OfSide(orders, s) : IsExit(o)}
Stops(orders, s) == {o \in OfSide(orders, s) : IsStop(o)}

\* find_live_exit_trigger_price: the price decides whatever the type, and an
\* exit at the entry price is neither.
HasTarget(orders, s) == \E o \in Exits(orders, s) : o.at = "profit"
HasStop(orders, s) == \E o \in Exits(orders, s) : o.at = "loss"

\* Where an exit of a kind lies unless it has been moved.
UsualLevel(kind) == IF kind = "stopLoss" THEN "loss" ELSE "profit"
MovedExits(s) == {o \in Exits(book, s) : o.at # UsualLevel(o.kind)}

\* How much of a position the stop losses of a side close, unit by unit.
Units(orders) == UNION {{o} \X (1..o.qty) : o \in orders}
StopSize(s) == Cardinality(Units(Stops(book, s)))

Orphans(v) ==
    {o \in v.orders : /\ IsExit(o)
                      /\ v.pos[o.side] = 0
                      /\ Entries(v.orders, o.side) = {}}

\* Mutant of ShouldReconcile: only a position without any order is checked.
ShouldReconcileBare(v) ==
    v.fromWs /\ v.orders = {} /\ \E s \in Sides : v.pos[s] > 0

ShouldReconcile(v) ==
    /\ v.fromWs
    /\ \E s \in Sides :
        /\ v.pos[s] > 0
        /\ \/ v.orders = {}
           \/ /\ OfSide(v.orders, s) # {}
              /\ Entries(v.orders, s) = {}
              /\ HasTarget(v.orders, s) # HasStop(v.orders, s)

-----------------------------------------------------------------------------
\* run starts the account listener and sweeps once before its loop.
AtStartup == [t \in Tasks |-> At(IF t = Loop THEN "read"
                                 ELSE IF t = Sweep THEN "idle" ELSE "done")]
StartupJob == [NoJob EXCEPT !.op = "STARTUP"]

Init ==
    /\ pos = [s \in Sides |-> 0]
    /\ book = {}
    /\ stream = <<>>
    /\ cache = [s \in Sides |-> 0]
    /\ ready = FALSE
    /\ flat = [s \in Sides |-> {}]
    /\ task = AtStartup
    /\ job = StartupJob
    /\ watch = [w \in Watchers |-> NoWatch]
    /\ sweeps = 0
    /\ holes = [s \in Sides |-> {}]
    /\ budget \in Scenarios

\* A task between two pieces of work has read nothing.
Resting == {"idle", "read", "done"}
Moved(tasks, t, label) ==
    [tasks EXCEPT ![t] = IF label \in Resting THEN At(label) ELSE [@ EXCEPT !.pc = label]]
Goto(t, label) == task' = Moved(task, t, label)
Touched(s) ==
    [t \in Tasks |-> IF task[t].pc \in Resting THEN task[t]
                     ELSE [task[t] EXCEPT !.touched = @ \cup {s}]]

\* What the code does not recover from.  What may leave a position without stop: an
\* entry accepted although the reply was lost, one that had filled when its
\* staging was rolled back, an operation on its stops whose request failed, one
\* that acted on a position that had moved since it was read, one on an entry
\* that was still filling, a restart in the middle of one.  What may leave an
\* exit without position: a watcher that ended although its cancellation had
\* failed, or leaving an exit that was placed after it had read the orders, and a
\* failing request of the startup sweep.
Uncovering == {"accepted", "filled", "halfway", "moved", "partial", "restart"}
Leaving == {"kept", "late"}
StopOps == {"FLATTEN_POSITION", "REDUCE_AGAIN", "MOVE_STOP"}

Hole(s, causes) == [holes EXCEPT ![s] = @ \cup causes]
Spend(what) == /\ budget[what] > 0
               /\ budget' = [budget EXCEPT ![what] = @ - 1]

\* The exchange never gives out an id again; here one that nobody remembers is.
Remembered ==
    {o.id : o \in book \cup UNION {task[t].view.orders : t \in Tasks}}
    \cup {job.entry, job.stop}
    \cup UNION {watch[w].exits \cup {watch[w].entry} : w \in Watchers}
NewId == CHOOSE i \in 1..(Cardinality(Remembered) + 1) : i \notin Remembered

Order(s, kind, qty, at) ==
    [id |-> NewId, side |-> s, kind |-> kind, qty |-> qty, at |-> at]

-----------------------------------------------------------------------------
(* The exchange and the account stream.                                    *)

Position(s, q) ==
    /\ pos' = [pos EXCEPT ![s] = q]
    /\ stream' = Append(stream, [side |-> s, pos |-> q])

\* An addition moves the entry price of the position: exits that have been moved
\* may come to lie anywhere, the others keep their level.
Fill(o) ==
    /\ IsEntry(o)
    /\ Len(stream) < MaxInFlight
    /\ Position(o.side, pos[o.side] + 1)
    /\ \E level \in [IF o.kind = "addition" THEN MovedExits(o.side) ELSE {} -> Levels] :
        book' = {IF x \in DOMAIN level THEN [x EXCEPT !.at = level[x]] ELSE x :
                    x \in book \ {o}}
                \cup (IF o.qty > 1 THEN {[o EXCEPT !.qty = @ - 1]} ELSE {})
    /\ task' = Touched(o.side)
    /\ UNCHANGED <<account, job, watch, sweeps, holes, budget>>

\* The market hits an exit.
Trigger(o) ==
    /\ IsExit(o)
    /\ pos[o.side] > 0
    /\ Len(stream) < MaxInFlight
    /\ IsStop(o) => Entries(book, o.side) = {}
    /\ Position(o.side, pos[o.side] - Min({o.qty, pos[o.side]}))
    /\ book' = book \ {o}
    /\ Spend("hits")
    /\ UNCHANGED <<account, task, job, watch, sweeps, holes>>

\* apply_account_update_event; a position that goes to zero marks the side
\* flattened and has the listener spawn a sweep.
Deliver ==
    /\ stream # <<>>
    /\ LET e == Head(stream)
           flattens == e.pos = 0 /\ cache[e.side] > 0
       IN  /\ cache' = [cache EXCEPT ![e.side] = e.pos]
           /\ flat' = [flat EXCEPT ![e.side] =
                IF e.pos > 0 THEN {}
                ELSE IF flattens THEN {w \in Watchers : task[w].pc # "done"}
                ELSE @]
           /\ sweeps' = IF flattens THEN sweeps + 1 ELSE sweeps
    /\ ready' = TRUE
    /\ stream' = Tail(stream)
    /\ UNCHANGED <<pos, book, task, job, watch, holes, budget>>

\* The socket is down until the listener reconnects: the event is never sent
\* again, and the cache keeps its flags.
Lose ==
    /\ stream # <<>>
    /\ Spend("lost")
    /\ stream' = Tail(stream)
    /\ UNCHANGED <<pos, book, account, task, job, watch, sweeps, holes>>

-----------------------------------------------------------------------------
(* What each task decides on the trading state v it has read.              *)

Held == task[Loop].view.pos[job.side]

\* The orders that an operation of the loop cancels; the startup sweep takes
\* the orphans.
Candidates(op, v) ==
    LET orders == OfSide(v.orders, job.side)
    IN  CASE op = "STARTUP" -> Orphans(v)
          [] op = "FLATTEN_POSITION" -> orders
          [] op = "REDUCE_AGAIN" -> {o \in orders : IsExit(o)}
          [] op = "MOVE_STOP" -> {o \in orders : TypedAs(o, "stopLoss")}
          [] op = "UPDATE_TAKE_PROFIT" -> {o \in orders : TypedAs(o, "takeProfit")}
          [] op = "CANCEL_PENDING_ENTRY" ->
                {o \in orders : IsEntry(o) \/ v.pos[job.side] = 0}

\* Mutant of WatchedOver: an entry that is still open does not matter.
WatchedOverEarly(w, v) == v.pos[watch[w].side] = 0

\* should_cleanup_staged_exit_orders
WatchedOver(w, v) ==
    /\ v.pos[watch[w].side] = 0
    /\ \A o \in v.orders : o.id # watch[w].entry

\* collect_staged_exit_cleanup_orders
Leftover(w, v) ==
    IF Orphans(v) # {} THEN Orphans(v)
    ELSE {o \in v.orders : o.id \in watch[w].exits}

To(t, label, v, orders) ==
    /\ task' = [task EXCEPT ![t].pc = label, ![t].view = v, ![t].todo = orders]
    /\ UNCHANGED job

Finish == Goto(Loop, "idle") /\ job' = NoJob

Decide(t, v) ==
    \/ /\ t \in Watchers
       /\ IF WatchedOver(t, v) THEN To(t, "confirm", v, {})
                               ELSE Goto(t, "read") /\ UNCHANGED job
    \/ /\ t = Sweep
       /\ To(t, "cancel", v, Orphans(v))
    \/ /\ t = Loop
       /\ CASE job.op = "REDUCE_POSITION" /\ v.pos[job.side] > 0 -> To(t, "reduce", v, {})
            [] job.op \in {"REDUCE_POSITION", "MOVE_STOP", "UPDATE_TAKE_PROFIT"}
                 /\ v.pos[job.side] = 0 -> Finish
            [] OTHER -> To(t, "cancel", v, Candidates(job.op, v))

-----------------------------------------------------------------------------
(* fetch_symbol_trading_state: positions, then open orders, then algo      *)
(* orders, then perhaps positions again.  Every exit is an algo order.     *)

\* fetch_active_positions_from_rest with sync_account_ws_positions_from_rest.
SyncPositions ==
    /\ cache' = pos
    /\ ready' = TRUE
    /\ flat' = [s \in Sides |-> IF pos[s] > 0 THEN {} ELSE flat[s]]

Busy == {t \in Tasks : task[t].pc \notin Resting}

OpenOrders == {o \in book : IsEntry(o)}

\* From the cache: the request for the open orders follows at once, so the two
\* are one step; that the cache lags behind the exchange is the stream's doing.
ReadCache(t) ==
    /\ task[t].pc = "read"
    /\ ready
    /\ Cardinality(Busy) < budget.busy
    /\ task' = [task EXCEPT ![t] =
        [At("algoOrders") EXCEPT
            !.view = [pos |-> cache, orders |-> OpenOrders, fromWs |-> TRUE],
            !.touched = {s \in Sides : cache[s] # pos[s]}]]
    /\ UNCHANGED <<exchange, account, job, watch, sweeps, holes, budget>>

ReadPositions(t) ==
    /\ task[t].pc = "read"
    /\ ~ready
    /\ Cardinality(Busy) < budget.busy
    /\ SyncPositions
    /\ task' = [task EXCEPT ![t] =
        [At("openOrders") EXCEPT !.view = [NoView EXCEPT !.pos = pos]]]
    /\ UNCHANGED <<exchange, job, watch, sweeps, holes, budget>>

ReadOpenOrders(t) ==
    /\ task[t].pc = "openOrders"
    /\ task' = [task EXCEPT ![t].pc = "algoOrders", ![t].view.orders = OpenOrders]
    /\ UNCHANGED <<exchange, account, job, watch, sweeps, holes, budget>>

\* With the last answer the task decides what to do.
ReadAlgoOrders(t) ==
    /\ task[t].pc = "algoOrders"
    /\ LET v == [task[t].view EXCEPT !.orders = @ \cup {o \in book : IsExit(o)}]
       IN  IF ShouldReconcile(v)
           THEN task' = [task EXCEPT ![t].pc = "reconcile", ![t].view = v] /\ UNCHANGED job
           ELSE Decide(t, v)
    /\ UNCHANGED <<exchange, account, watch, sweeps, holes, budget>>

Reconcile(t) ==
    /\ task[t].pc = "reconcile"
    /\ Decide(t, [task[t].view EXCEPT !.pos = pos])
    /\ SyncPositions
    /\ UNCHANGED <<exchange, watch, sweeps, holes, budget>>

\* Nothing but the startup sweep knows of the exits that a restart leaves.
StartingUp(t) == t = Loop /\ job.op = "STARTUP"

\* Any of the requests fails: a watcher waits for its next tick, the others
\* give up.
FetchFails(t) ==
    /\ task[t].pc \in {"openOrders", "algoOrders", "reconcile"}
    /\ Spend("fails")
    /\ Goto(t, IF t \in Watchers THEN "read" ELSE "idle")
    /\ job' = IF t = Loop THEN NoJob ELSE job
    /\ holes' = IF StartingUp(t)
                THEN [s \in Sides |-> holes[s] \cup {c \in {"kept"} : Exits(book, s) # {}}]
                ELSE holes
    /\ UNCHANGED <<exchange, account, watch, sweeps>>

Fetch(t) == ReadCache(t) \/ ReadPositions(t) \/ ReadOpenOrders(t) \/ ReadAlgoOrders(t)
            \/ Reconcile(t) \/ FetchFails(t)

-----------------------------------------------------------------------------
(* Requests that place and cancel.  A request that fails may have been     *)
(* carried out all the same: only its reply is lost.                       *)

Place(o, ok) ==
    IF ok THEN book' = book \cup {o} /\ UNCHANGED budget
    ELSE /\ Spend("fails")
         /\ \/ UNCHANGED book
            \/ book' = book \cup {o}

\* An order that is already gone counts as cancelled.
Cancel(id, ok) ==
    LET rest == {o \in book : o.id # id}
    IN  IF ok THEN book' = rest /\ UNCHANGED budget
              ELSE Spend("fails") /\ book' \in {book, rest}

-----------------------------------------------------------------------------
(* execute_workflow_execution_intent and place_staged_exit_orders.         *)

Seen(s) == (IF ready THEN cache ELSE pos)[s]

\* The strategy enters a side on which it sees neither position nor entry, or
\* adds to the position it sees.  Post-only rejections and the retry after a
\* margin error end in one of these outcomes.  On an empty side the history
\* begins anew.
Enter(s) ==
    /\ task[Loop].pc = "idle"
    /\ Seen(s) = 0 => Entries(book, s) = {}
    /\ budget.entries > 0
    /\ Cardinality(Busy) < budget.busy
    /\ LET o == Order(s, IF Seen(s) > 0 THEN "addition" ELSE "entry", budget.lot, "even")
           left == [budget EXCEPT !.entries = @ - 1]
           known == IF pos[s] = 0 /\ OfSide(book, s) = {} THEN {} ELSE holes[s]
       IN  \/ /\ book' = book \cup {o}
              /\ \E maker \in budget.makers :
                    job' = [NoJob EXCEPT !.side = s, !.entry = o.id, !.maker = maker,
                                         !.op = IF Seen(s) > 0 THEN "ADD" ELSE "ENTER"]
              /\ task' = Moved(Touched(s), Loop, "stageStop")
              /\ budget' = left
              /\ holes' = [holes EXCEPT ![s] = known]
           \/ /\ budget.fails > 0
              /\ budget' = [left EXCEPT !.fails = @ - 1]
              /\ \/ UNCHANGED <<book, task, holes>>
                 \/ /\ book' = book \cup {o}
                    /\ task' = Touched(s)
                    /\ holes' = [holes EXCEPT ![s] = known \cup {"accepted"}]
              /\ UNCHANGED job
    /\ UNCHANGED <<pos, stream, account, watch, sweeps>>

\* A first entry's exits lie on either side of its price; those of an addition
\* and of a reduced position are at the levels that management has moved to.
PlacedAt(kind) ==
    {UsualLevel(kind)} \cup (IF job.op = "ENTER" THEN {} ELSE budget.levels)

StageStopLoss ==
    /\ task[Loop].pc = "stageStop"
    /\ \E ok \in BOOLEAN, level \in PlacedAt("stopLoss") :
        LET o == Order(job.side, "stopLoss", budget.lot, level)
        IN  /\ Place(o, ok)
            /\ Goto(Loop, IF ok THEN "stageTarget" ELSE "rollback")
            /\ job' = IF ok THEN [job EXCEPT !.stop = o.id] ELSE job
    /\ UNCHANGED <<pos, stream, account, watch, sweeps, holes>>

\* Once both exits are placed a watcher is spawned.
StageTakeProfit ==
    /\ task[Loop].pc = "stageTarget"
    /\ LET kind == IF job.maker THEN "makerTakeProfit" ELSE "takeProfit"
           unused == {w \in Watchers : task[w].pc = "done"}
       IN  \E ok \in BOOLEAN, level \in PlacedAt(kind) :
            LET o == Order(job.side, kind, budget.lot, level)
            IN  /\ Place(o, ok)
                /\ IF ok
                   THEN \E w \in unused :
                        /\ \A x \in unused : w[2] <= x[2]
                        /\ watch' = [watch EXCEPT ![w] =
                                [side |-> job.side, entry |-> job.entry,
                                 exits |-> {o.id, job.stop}]]
                        /\ task' = Moved(Moved(task, Loop, "idle"), w, "read")
                        /\ flat' = [x \in Sides |-> flat[x] \ {w}]
                        /\ job' = NoJob
                   ELSE /\ Goto(Loop, "unstage")
                        /\ UNCHANGED <<job, watch, flat>>
    /\ UNCHANGED <<pos, stream, cache, ready, sweeps, holes>>

\* The stop loss is cancelled, whether or not that succeeds.
Unstage ==
    /\ task[Loop].pc = "unstage"
    /\ \E ok \in BOOLEAN : Cancel(job.stop, ok)
    /\ Goto(Loop, "rollback")
    /\ UNCHANGED <<pos, stream, account, job, watch, sweeps, holes>>

\* So is the entry, which may have filled, and may go on filling.
RollBack ==
    /\ task[Loop].pc = "rollback"
    /\ \E ok \in BOOLEAN : Cancel(job.entry, ok)
    /\ LET whole(orders) == \E o \in orders : o.id = job.entry /\ o.qty = budget.lot
       IN  holes' = IF whole(book) /\ ~whole(book') THEN holes ELSE Hole(job.side, {"filled"})
    /\ Finish
    /\ UNCHANGED <<pos, stream, account, watch, sweeps>>

-----------------------------------------------------------------------------
(* execute_workflow_management_action, the cancellation of a pending entry *)
(* (cancel_workflow_pending_entry_orders) and the sweep at startup.        *)

Manage(op, s) ==
    /\ task[Loop].pc = "idle"
    /\ Spend("managed")
    /\ IF op = "CANCEL_PENDING_ENTRY" THEN Entries(book, s) # {} ELSE cache[s] > 0
    /\ job' = [NoJob EXCEPT !.side = s, !.op = op]
    /\ Goto(Loop, "read")
    /\ UNCHANGED <<exchange, account, watch, sweeps, holes>>

\* Mutant of AfterCancel: exits are placed whatever the refreshed position.
AfterCancelUnchecked(op) ==
    CASE op \in {"STARTUP", "CANCEL_PENDING_ENTRY"} -> "idle"
      [] op = "FLATTEN_POSITION" -> "close"
      [] op \in {"REDUCE_AGAIN", "UPDATE_TAKE_PROFIT"} -> "placeTarget"
      [] op = "MOVE_STOP" -> "placeStop"

\* What an operation does when its cancellations are through.
AfterCancel(op) ==
    CASE op \in {"STARTUP", "CANCEL_PENDING_ENTRY"} \/ Held = 0 -> "idle"
      [] op = "FLATTEN_POSITION" /\ Held > 0 -> "close"
      [] op \in {"REDUCE_AGAIN", "UPDATE_TAKE_PROFIT"} /\ Held > 0 -> "placeTarget"
      [] op = "MOVE_STOP" /\ Held > 0 -> "placeStop"

\* A market order closes at most what is left of the position.
MarketClose(s, q) ==
    IF pos[s] = 0 THEN UNCHANGED <<pos, stream>>
                  ELSE Position(s, pos[s] - Min({q, pos[s]}))

\* plan_workflow_reduce_quantity rounds to the step and closes dust.
Reduce ==
    /\ task[Loop].pc = "reduce"
    /\ \/ /\ \E q \in 1..Held : MarketClose(job.side, q)
          /\ job' = [job EXCEPT !.op = "REDUCE_AGAIN"]
          /\ Goto(Loop, "read")
          /\ UNCHANGED budget
       \/ /\ Spend("fails")
          /\ Finish
          /\ (UNCHANGED <<pos, stream>> \/ MarketClose(job.side, Held))
    /\ UNCHANGED <<book, account, watch, sweeps, holes>>

CloseAtMarket ==
    /\ task[Loop].pc = "close"
    /\ \/ /\ MarketClose(job.side, Held)
          /\ holes' = IF job.side \in task[Loop].touched THEN Hole(job.side, {"moved"}) ELSE holes
          /\ UNCHANGED budget \/ Spend("fails")
       \/ /\ Spend("fails")
          /\ holes' = Hole(job.side, {"halfway"})
          /\ UNCHANGED <<pos, stream>>
    /\ Finish
    /\ UNCHANGED <<book, account, watch, sweeps>>

\* The loop sizes a stop while an entry of the side is still filling: what fills
\* from then on has no stop, though no read was stale and no request failed.
Filling(s) == Entries(book, s) # {}

\* place_workflow_exit_for_position sizes the exit to the position it read.
PlaceExit ==
    /\ task[Loop].pc \in {"placeTarget", "placeStop"}
    /\ LET kind == IF task[Loop].pc = "placeStop" THEN "stopLoss" ELSE "takeProfit"
       IN  \E ok \in BOOLEAN, level \in PlacedAt(kind) :
            /\ Place(Order(job.side, kind, Held, level), ok)
            /\ IF ok /\ kind = "takeProfit" /\ job.op = "REDUCE_AGAIN"
               THEN Goto(Loop, "placeStop") /\ UNCHANGED job
               ELSE Finish
            /\ holes' = Hole(job.side, {c \in Uncovering :
                    \/ c = "halfway" /\ ~ok /\ job.op # "UPDATE_TAKE_PROFIT"
                    \/ c = "moved" /\ kind = "stopLoss" /\ job.side \in task[Loop].touched
                    \/ c = "partial" /\ kind = "stopLoss" /\ Filling(job.side)})
    /\ UNCHANGED <<pos, stream, account, watch, sweeps>>

-----------------------------------------------------------------------------
(* watch_staged_exit_orders and cleanup_orphan_exit_orders_for_symbol.     *)

\* should_cleanup_staged_exit_orders_after_confirmation: a flatten event since
\* the watcher began, or REST.
Confirm(w) ==
    /\ task[w].pc = "confirm"
    /\ LET side == watch[w].side
           collect == task' = [task EXCEPT ![w].pc = "cancel", ![w].todo = Leftover(w, task[w].view)]
       IN  \/ w \in flat[side] /\ collect /\ UNCHANGED <<account, budget>>
          \/ /\ w \notin flat[side]
             /\ SyncPositions
             /\ IF pos[side] = 0 THEN collect ELSE Goto(w, "read")
             /\ UNCHANGED budget
          \/ /\ w \notin flat[side]
             /\ Spend("fails")
             /\ Goto(w, "read")
             /\ UNCHANGED account
    /\ UNCHANGED <<exchange, job, watch, sweeps, holes>>

\* One sweep is spawned for each flatten event; they run one by one here.
SpawnSweep ==
    /\ sweeps > 0
    /\ task[Sweep].pc = "idle"
    /\ sweeps' = sweeps - 1
    /\ Goto(Sweep, "read")
    /\ UNCHANGED <<exchange, account, job, watch, holes, budget>>

\* Entries come before exits, as in the list that was read.  A watcher goes on
\* to the next order when a cancellation fails, the others return the error.
CancelOne(t) ==
    /\ task[t].pc = "cancel"
    /\ \E o \in task[t].todo, ok \in BOOLEAN :
        /\ IsExit(o) => \A x \in task[t].todo : IsExit(x)
        /\ Cancel(o.id, ok)
        /\ IF ok \/ t \in Watchers
           THEN task' = [task EXCEPT ![t].todo = @ \ {o}] /\ UNCHANGED job
           ELSE Goto(t, "idle") /\ job' = IF t = Loop THEN NoJob ELSE job
        /\ holes' = Hole(o.side, {c \in Uncovering \cup Leaving :
                \/ c = "moved" /\ IsStop(o) /\ o.side \in task[t].touched
                \/ c = "partial" /\ IsStop(o) /\ t = Loop /\ Filling(o.side)
                \/ c = "halfway" /\ ~ok /\ t = Loop /\ job.op \in StopOps
                \/ c = "kept" /\ ~ok /\ (t \in Watchers \/ StartingUp(t))})
    /\ UNCHANGED <<pos, stream, account, watch, sweeps>>

EndCancel(t) ==
    /\ task[t].pc = "cancel"
    /\ task[t].todo = {}
    /\ LET label == CASE t \in Watchers -> "done"
                      [] t = Sweep -> "idle"
                      [] t = Loop -> AfterCancel(job.op)
       IN  /\ Goto(t, label)
           /\ job' = IF t = Loop /\ label = "idle" THEN NoJob ELSE job
           /\ watch' = IF label = "done" THEN [watch EXCEPT ![t] = NoWatch] ELSE watch
           /\ holes' = IF label = "done" /\ Exits(book, watch[t].side) \ task[t].view.orders # {}
                       THEN Hole(watch[t].side, {"late"}) ELSE holes
    /\ UNCHANGED <<exchange, account, sweeps, budget>>

-----------------------------------------------------------------------------
\* The watchers, the cache and whatever the loop was doing are gone.
Restart ==
    /\ Spend("restarts")
    /\ stream' = <<>>
    /\ cache' = [s \in Sides |-> 0]
    /\ ready' = FALSE
    /\ flat' = [s \in Sides |-> {}]
    /\ task' = AtStartup
    /\ job' = StartupJob
    /\ watch' = [w \in Watchers |-> NoWatch]
    /\ sweeps' = 0
    /\ holes' = [s \in Sides |-> IF job.side = s THEN holes[s] \cup {"restart"}
                                                 ELSE holes[s]]
    /\ UNCHANGED <<pos, book>>

LoopStep == \/ StageStopLoss \/ StageTakeProfit \/ Unstage \/ RollBack
            \/ Reduce \/ CloseAtMarket \/ PlaceExit

Task(t) == \/ Fetch(t) \/ CancelOne(t) \/ EndCancel(t)
           \/ t \in Watchers /\ Confirm(t)
           \/ t = Sweep /\ SpawnSweep
           \/ t = Loop /\ LoopStep

Next ==
    \/ \E o \in book : Fill(o) \/ Trigger(o)
    \/ Deliver \/ Lose
    \/ \E s \in Sides : Enter(s) \/ \E op \in budget.ops : Manage(op, s)
    \/ \E t \in Tasks : Task(t)
    \/ Restart

Spec == Init /\ [][Next]_vars

\* Tasks run on and events arrive; the market and the strategy need not move.
\* That other tasks may take up all of budget.busy is no reason for a watcher never
\* to tick, hence its strong fairness.
FairSpec ==
    /\ Spec
    /\ WF_vars(Deliver) /\ WF_vars(Task(Loop)) /\ WF_vars(Task(Sweep))
    /\ \A w \in Watchers : SF_vars(Task(w))

-----------------------------------------------------------------------------
(* Properties.                                                             *)

TypeOK ==
    /\ pos \in [Sides -> Nat] /\ cache \in [Sides -> Nat]
    /\ \A o \in book : /\ o.side \in Sides /\ o.id \in Nat
                       /\ o.qty \in Nat \ {0} /\ o.at \in Levels
    /\ \A i \in DOMAIN stream : stream[i].side \in Sides /\ stream[i].pos \in Nat
    /\ ready \in BOOLEAN
    /\ flat \in [Sides -> SUBSET Watchers]
    /\ job.side \in Sides \cup {""}
    /\ \A t \in Tasks : task[t].touched \subseteq Sides
    /\ sweeps \in Nat
    /\ holes \in [Sides -> SUBSET (Uncovering \cup Leaving)]

\* The loop is placing, replacing or withdrawing the stop of a side.
InHand(s) ==
    /\ job.side = s
    /\ task[Loop].pc \in {"stageStop", "rollback", "cancel", "close", "placeTarget", "placeStop"}

\* A position is covered by its stop losses to the last unit, unless the loop has
\* it in hand, or one of the events in Uncovering has met the side since it was
\* last empty: an entry was accepted although the reply was lost, one filled
\* before its failed staging was rolled back, a request failed in the middle of
\* an operation on the stops, the loop, a watcher or a sweep took or sized a
\* stop on a position that had moved since it was read, the loop did so while an
\* entry was still filling, or the service restarted in the middle of an
\* operation.  In particular additions, the watchers and the sweeps of an earlier
\* entry, lost account events and what fails elsewhere take no stop away.
StopCoversPosition ==
    \A s \in Sides : pos[s] > StopSize(s) => InHand(s) \/ holes[s] \cap Uncovering # {}

Orphaned(s) == pos[s] = 0 /\ Entries(book, s) = {} /\ Exits(book, s) # {}
Watched(s) == \E w \in Watchers : watch[w].side = s /\ task[w].pc # "done"
\* The flatten event was lost, and the cached position is never checked against
\* REST: a stop and a target are both still there, or what is left lies at the
\* entry price and counts as neither (a stop moved to breakeven).
Blind(s) ==
    /\ pos[s] = 0 /\ cache[s] > 0
    /\ HasTarget(book, s) = HasStop(book, s)

\* While a watcher follows the side, the exit that a closed position leaves
\* behind is cancelled in the end, even when the account events that told of
\* the close are lost: a target alone or a stop alone has the cache checked.
\* A restart ends the watcher, and the startup sweep takes its place.  Exceptions
\* are a side that the check is blind to, a failing request of the startup sweep,
\* and an exit that a watcher leaves when it ends, because its cancellation failed
\* or because the exit was placed after the watcher had read the orders.
LeftoverExitGoes ==
    \A s \in Sides :
        Orphaned(s) /\ Watched(s)
            ~> ~Orphaned(s) \/ Blind(s) \/ holes[s] \cap Leaving # {}

=============================================================================
