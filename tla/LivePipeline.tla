---------------------------- MODULE LivePipeline ----------------------------
(***************************************************************************)
(* The minute pipeline of indicator_engine (app/runtime.rs): how a closed  *)
(* minute goes from the canonical data in memory (runtime/state_store.rs)  *)
(* through the prepare worker, the compute workers and the ordered commit  *)
(* worker into the indicator tables, while the main loop repairs late      *)
(* corrections, defers gaps, mutes itself when it falls behind, cuts over  *)
(* to live output again, and rewrites past minutes in background batches.  *)
(*                                                                         *)
(* The main loop takes the sections of a tick in one order; here each is   *)
(* an action of its own and a tick may skip any of them.  Workers run      *)
(* between the sections.  What a minute's rows hold is abstracted to the   *)
(* data they were computed from: body[i] is the number of updates of       *)
(* minute i's canonical inputs that the computation saw.                   *)
(*                                                                         *)
(* Before minute 1 everything is finalized and persisted.  oi_ratio        *)
(* patches, heatmap hydration and history retention are left out.          *)
(***************************************************************************)
EXTENDS Integers, Sequences, FiniteSets

CONSTANTS
    Last,           \* bound on the clock: the last minute considered
    Gappy,          \* minutes that may stay incomplete, in the database too
    MaxEdits,       \* bound on late updates of canonical inputs
    Slots,          \* LIVE_READY_JOB_QUEUE_CAPACITY (8)
    ComputeWorkers, \* LIVE_MATERIALIZE_WORKER_COUNT (3)
    BatchSize,      \* ASYNC_HISTORICAL_MATERIALIZE_BATCH_SIZE (60)
    CatchupEnabled, \* live_catchup_progress_only_enabled
    EnterLag,       \* live_catchup_progress_only_lag_minutes (60)
    ResumeLag,      \* live_catchup_resume_lag_minutes (1)
    TailMinutes,    \* cutover tail minutes (at least 35)
    ReconcileLag    \* LIVE_TAIL_RECONCILE_MAX_BACKLOG_MINUTES (5)

ASSUME ConstantsAssumption ==
    /\ Last \in Nat \ {0}
    /\ Gappy \subseteq 1..Last
    /\ MaxEdits \in Nat
    /\ Slots \in Nat \ {0}
    /\ BatchSize \in Nat \ {0}
    /\ CatchupEnabled \in BOOLEAN
    /\ EnterLag \in Nat \ {0}
    /\ ResumeLag \in 0..(EnterLag - 1)
    /\ TailMinutes \in Nat \ {0}
    /\ ReconcileLag \in Nat
    /\ ComputeWorkers \in Nat \ {0}

Minutes == 1..Last

VARIABLES
    closed,     \* latest confirmed closed minute
    own,        \* updates of each minute's canonical inputs, 0 when it has none
    whole,      \* minutes whose canonical inputs are complete
    edits,      \* late updates so far
    fin,        \* history rows: the update of each minute they hold, 0 when absent
    next,       \* scheduler: next_minute_to_emit
    muted,      \* LivePublishState::MutedCatchup
    deferred,   \* LiveCanonicalRepairController::deferred_gap_minutes
    dirty,      \* dirty_recompute_from, or 0
    pending,    \* ConfirmedLateRepairController::pending_from_ts, or 0
    hist,       \* pending historical materialization, <<from, to>> or Nothing
    spawnTurn,  \* the tick is past enqueue_live_ready_jobs
    counting,   \* it is there between the loads of the two counters, ...
    counted,    \* ... and has read ready_job_pending
    tasks,      \* prepare queue: sequence of ranges <<first, last>>
    handing,    \* jobs the prepare worker has made and not handed over yet
    epoch,      \* live_epoch
    ready,      \* jobs in the job queue or in a compute worker
    computed,   \* jobs sent to the commit worker
    held,       \* job it took from its pending map, not written yet, or Nothing
    nextCommit, \* its next_commit_ts
    override,   \* live_commit_frontier_override_ts, or 0
    batch,      \* historical materialization batch in the background, or Nothing
    rows,       \* body the tables hold for each minute, << >> when they hold none
    down,       \* a handoff found the job queue full: the service has ended
    dropped,    \* history: minutes a repair or cutover has left to no one
    skipped,    \* history: minutes a deferral or catch-up left out of fin
    stranded,   \* history: first minute a failed reconcile left dirty, or 0
    waiting,    \* history: minutes in the prepare worker at the first load
    slipped     \* history: how many of them the last enqueue counted nowhere

inputVars == <<closed, own, whole, edits>>
mainVars == <<next, muted, deferred, dirty, pending, hist>>
workVars == <<tasks, handing, ready, computed, held, nextCommit>>
countVars == <<counting, counted, waiting, slipped>>
leftVars == <<skipped, stranded>>
vars == <<inputVars, mainVars, workVars, countVars, leftVars, fin, spawnTurn, epoch, override,
          batch, rows, down, dropped>>

Nothing == <<>>
Bodies == UNION {[1..m -> 0..(MaxEdits + 1)] : m \in 0..Last}
Jobs == [m : Minutes, ep : Nat, body : Bodies]
Ranges == Minutes \X Minutes

TypeOK ==
    /\ closed \in 0..Last
    /\ own \in [Minutes -> 0..(MaxEdits + 1)]
    /\ whole \in SUBSET Minutes
    /\ edits \in 0..MaxEdits
    /\ fin \in [Minutes -> 0..(MaxEdits + 1)]
    /\ next \in 1..(Last + 1)
    /\ muted \in BOOLEAN
    /\ deferred \in SUBSET Minutes
    /\ dirty \in 0..Last
    /\ pending \in 0..Last
    /\ hist \in {Nothing} \cup Ranges
    /\ spawnTurn \in BOOLEAN
    /\ counting \in BOOLEAN
    /\ counted \in Nat
    /\ tasks \in Seq(Ranges)
    /\ handing \in SUBSET Jobs
    /\ epoch \in Nat
    /\ ready \in SUBSET Jobs
    /\ computed \in SUBSET Jobs
    /\ held = Nothing \/ held \in Jobs
    /\ nextCommit \in 1..(Last + 1)
    /\ override \in 0..Last
    /\ batch = Nothing \/ batch \in [from : Minutes, to : Minutes, at : 0..(Last + 1), body : Bodies]
    /\ rows \in [Minutes -> Bodies]
    /\ down \in BOOLEAN
    /\ dropped \in SUBSET Minutes
    /\ skipped \in SUBSET Minutes
    /\ stranded \in 0..Last
    /\ waiting \in Nat
    /\ slipped \in Nat

Init ==
    /\ closed = 0
    /\ own = [m \in Minutes |-> 0]
    /\ whole = {}
    /\ edits = 0
    /\ fin = [m \in Minutes |-> 0]
    /\ next = 1
    /\ muted = FALSE
    /\ deferred = {}
    /\ dirty = 0
    /\ pending = 0
    /\ hist = Nothing
    /\ spawnTurn = FALSE
    /\ counting = FALSE
    /\ counted = 0
    /\ tasks = <<>>
    /\ handing = {}
    /\ epoch = 0
    /\ ready = {}
    /\ computed = {}
    /\ held = Nothing
    /\ nextCommit = 1
    /\ override = 0
    /\ batch = Nothing
    /\ rows = [m \in Minutes |-> <<>>]
    /\ down = FALSE
    /\ dropped = {}
    /\ skipped = {}
    /\ stranded = 0
    /\ waiting = 0
    /\ slipped = 0

-----------------------------------------------------------------------------
(* The state store.                                                        *)

Least(S) == CHOOSE x \in S : \A y \in S : x <= y
Greatest(S) == CHOOSE x \in S : \A y \in S : x >= y
Lower(x, y) == IF x = 0 \/ y < x THEN y ELSE x

(* last_finalized_minute: the history's last row, 0 when it has none here. *)
LastRow(f) == Greatest({0} \cup {m \in Minutes : f[m] # 0})

(* latest_contiguous_complete_canonical_minute_from(from, closed), 0 when  *)
(* minute from is incomplete.                                              *)
ReadyThroughOf(w, from) ==
    Greatest({0} \cup {m \in from..closed : from..m \subseteq w})
ReadyThrough(from) == ReadyThroughOf(whole, from)

(* advance_finalized_state of every minute of first..last.                 *)
AdvanceFinalized(f, o, first, last) ==
    [m \in Minutes |-> IF m \in first..last THEN o[m] ELSE f[m]]

(* rewind_finalized_state_from(from), rebuild_repair_state_range(from, to).*)
Rebuilt(f, o, from, to) ==
    [m \in Minutes |-> IF m < from THEN f[m] ELSE IF m <= to THEN o[m] ELSE 0]

(* finalize_minute_for_live_job: the finalized prefix as of minute m.      *)
BodyOf(f, m) == [i \in 1..m |-> f[i]]

(* Mutant of MarkHist: the newest range replaces the pending one.          *)
MarkHistNewest(from, to) == hist' = <<from, to>>

(* mark_historical_materialization_pending.                                *)
MarkHist(from, to) ==
    hist' = IF hist = Nothing THEN <<from, to>>
            ELSE <<IF from < hist[1] THEN from ELSE hist[1],
                   IF to > hist[2] THEN to ELSE hist[2]>>

(* Mutant of AdvanceHist: a batch ends the whole range. *)
AdvanceHistAll(to) == hist' = Nothing

(* advance_historical_materialization_through.                             *)
AdvanceHist(to) ==
    hist' = IF hist = Nothing \/ to >= hist[2] THEN Nothing
            ELSE IF to < hist[1] THEN hist
            ELSE <<to + 1, hist[2]>>

(* Mutant of ClearDirty: a rebuild leaves its minutes dirty.               *)
ClearDirtyNever == dirty' = dirty

(* clear_dirty_recompute_state.                                            *)
ClearDirty == dirty' = 0

-----------------------------------------------------------------------------
(* Input.                                                                  *)

(* Between the sections of a tick, and not between the two loads.          *)
AtSection == ~spawnTurn /\ ~counting

(* The watermark passes the end of a minute; the loop looks at it when a   *)
(* tick begins.                                                            *)
CloseMinute ==
    /\ AtSection
    /\ closed < Last
    /\ closed' = closed + 1
    /\ UNCHANGED <<own, whole, edits, mainVars, workVars, fin, spawnTurn, epoch, override,
                   batch, rows, dropped, leftVars, countVars, down>>

(* StateStore::ingest of canonical rows of minute m, complete with them or *)
(* not; the first complete ones are not counted as an edit.                *)
StoreInputs(m, complete) ==
    /\ m <= closed
    /\ (own[m] # 0 \/ ~complete) => edits < MaxEdits
    /\ edits' = IF own[m] = 0 /\ complete THEN edits ELSE edits + 1
    /\ own[m] < MaxEdits + 1
    /\ own' = [own EXCEPT ![m] = @ + 1]
    /\ whole' = IF complete THEN whole \cup {m} ELSE whole

(* mark_dirty_recompute_if_finalized.                                      *)
LateFor(m) == m <= LastRow(fin)

(* An event of the main loop, or a row read again by a tail reconcile that *)
(* succeeds: one of a finalized minute marks the minute dirty and asks for *)
(* a repair.                                                               *)
Ingest(m, complete) ==
    /\ AtSection
    /\ complete \/ m \in Gappy \ whole
    /\ StoreInputs(m, complete)
    /\ dirty' = IF LateFor(m) THEN Lower(dirty, m) ELSE dirty
    /\ pending' = IF LateFor(m) THEN Lower(pending, m) ELSE pending
    /\ UNCHANGED <<closed, next, muted, deferred, hist, workVars, fin, spawnTurn, epoch,
                   override, batch, rows, dropped, leftVars, countVars, down>>

-----------------------------------------------------------------------------
(* The main loop.                                                          *)

Backlog == IF closed > next THEN closed - next ELSE 0

(* ingest_canonical_range_from_db for the tail reconcile, when a page      *)
(* after the one with minute m fails: the store has the row and is dirty,  *)
(* and the repair to ask for is lost with the error, which is only logged. *)
(* allow_live_tail_reconcile then refuses the next one.                    *)
ReconcileFails(m, complete) ==
    /\ AtSection
    /\ dirty = 0
    /\ Backlog <= ReconcileLag
    /\ LateFor(m)
    /\ complete \/ m \in Gappy \ whole
    /\ StoreInputs(m, complete)
    /\ dirty' = m
    /\ stranded' = Lower(stranded, m)
    /\ UNCHANGED <<closed, next, muted, deferred, pending, hist, workVars, fin, spawnTurn, epoch,
                   override, batch, rows, dropped, skipped, countVars, down>>

(* live_prepare_minute_pending is zero.                                    *)
PrepareIdle == tasks = <<>> /\ handing = {}

(* The jobs live_ready_job_pending counts, and those to come after them.   *)
PendingJobs == ready \cup computed \cup (IF held = Nothing THEN {} ELSE {held})
InFlight == handing \cup PendingJobs
QueuedMinutes == UNION {tasks[i][1]..tasks[i][2] : i \in 1..Len(tasks)}

(* first_incomplete_canonical_minute_from(next, scan end).                 *)
Blocked(g) ==
    /\ g \in next..closed
    /\ g \notin whole
    /\ next..(g - 1) \subseteq whole
    /\ g = next \/ \E m \in whole : m > g

(* The gap repair finds minute g in the database.  What it clears of       *)
(* deferred_gap_minutes is everything up to the healed stretch's end.      *)
HealGap(g) ==
    /\ AtSection
    /\ pending = 0
    /\ Blocked(g)
    /\ g \notin deferred \/ g # next
    /\ StoreInputs(g, TRUE)
    /\ deferred' = {d \in deferred : d > ReadyThroughOf(whole', g)}
    /\ UNCHANGED <<closed, next, muted, dirty, pending, hist, workVars, fin, spawnTurn, epoch,
                   override, batch, rows, dropped, leftVars, countVars, down>>

(* The gap repair fails, a page with the minute read or not (got), or a    *)
(* deferred gap is next: output is muted, and the minute is skipped once   *)
(* it is the next one.                                                     *)
DeferGap(g, got) ==
    /\ AtSection
    /\ pending = 0
    /\ g \in Gappy
    /\ Blocked(g)
    /\ IF got
       THEN /\ g \notin deferred \/ g # next
            /\ StoreInputs(g, TRUE)
            /\ UNCHANGED closed
       ELSE UNCHANGED inputVars
    /\ deferred' = deferred \cup {g}
    /\ next' = IF g = next THEN g + 1 ELSE next
    /\ skipped' = IF g = next THEN skipped \cup {g} ELSE skipped
    /\ muted' = TRUE
    /\ UNCHANGED <<dirty, pending, hist, workVars, fin, spawnTurn, epoch, override, batch, rows,
                   dropped, stranded, countVars, down>>

(* abort_historical_materialize_handle.                                    *)
Aborted(b) == Nothing

(* A pending repair ends the batch in the background.                      *)
AbortBatch ==
    /\ AtSection
    /\ pending # 0
    /\ batch # Nothing
    /\ batch' = Aborted(batch)
    /\ UNCHANGED <<inputVars, mainVars, workVars, fin, spawnTurn, epoch, override, rows, dropped, leftVars, countVars, down>>

(* sync_frontiers_after_state_only_rebuild.                                *)
SyncFrontiers(to) ==
    /\ next' = IF next <= to THEN to + 1 ELSE next
    /\ override' = to

(* What advancing the epoch drops and the rebuild does not make up for,    *)
(* and the minutes of the rebuild that are not written again (overtaken).  *)
DropOutside(from, to, overtaken) ==
    /\ dropped' = (dropped \ (from..to)) \cup overtaken
                  \cup {m \in Minutes \ (from..to) : \E j \in InFlight : j.m = m /\ j.ep = epoch}
    /\ skipped' = skipped \ (from..to)
    /\ stranded' = IF from <= stranded THEN 0 ELSE stranded

(* maybe_execute_confirmed_repair_replay.  The commit gate is held from    *)
(* before the epoch advances to the end, and no task is queued: no worker  *)
(* acts on what is in between, and the replay is one step.  The published  *)
(* tail it suppresses is modelled in BundleRelay.                          *)
RepairReplay ==
    LET to == ReadyThrough(pending) IN
    /\ AtSection
    /\ pending # 0
    /\ PrepareIdle
    /\ to # 0
    /\ batch' = Aborted(batch)
    /\ epoch' = epoch + 1
    /\ DropOutside(pending, to, {})
    /\ fin' = Rebuilt(fin, own, pending, to)
    /\ ClearDirty
    /\ pending' = 0
    /\ MarkHist(pending, to)
    /\ SyncFrontiers(to)
    /\ UNCHANGED <<inputVars, muted, deferred, spawnTurn, workVars, rows, countVars, down>>

(* live_catchup_enter: publishing has fallen behind.                       *)
EnterCatchup ==
    /\ AtSection
    /\ pending = 0
    /\ ~muted
    /\ CatchupEnabled
    /\ Backlog >= EnterLag
    /\ batch' = Aborted(batch)
    /\ muted' = TRUE
    /\ UNCHANGED <<inputVars, next, deferred, dirty, pending, hist, workVars, fin, spawnTurn,
                   epoch, override, rows, dropped, leftVars, countVars, down>>

CutoverReady ==
    /\ AtSection
    /\ pending = 0
    /\ muted
    /\ CatchupEnabled
    /\ closed > 0
    /\ Backlog <= ResumeLag
    /\ dirty = 0
    /\ PrepareIdle

(* repair_start_ts of maybe_execute_live_catchup_cutover.                  *)
CutoverFrom ==
    LET tail == IF closed - TailMinutes + 1 > 1 THEN closed - TailMinutes + 1 ELSE 1
    IN Least({tail} \cup {d \in deferred : d < tail})

(* The rows the cutover reads from the database: a late update of minute c *)
(* among them, or none (c = 0).  It extends the repair and is not queued.  *)
CutoverReads(c) ==
    IF c = 0 THEN UNCHANGED inputVars
    ELSE /\ c \in CutoverFrom..closed
         /\ LateFor(c)
         /\ StoreInputs(c, c \in whole)
         /\ UNCHANGED closed

(* A batch that runs on through a cutover takes minutes of the rebuilt     *)
(* tail off the pending range when it ends, with what it read before.      *)
Overtaken(from, to) ==
    IF batch = Nothing THEN {} ELSE {m \in from..to : m <= batch.to}

(* maybe_execute_live_catchup_cutover: the tail is rebuilt, like in a      *)
(* repair one step, and output resumes.                                    *)
CutOver(c) ==
    LET from == CutoverFrom
        to == ReadyThrough(from)
    IN
    /\ CutoverReady
    /\ CutoverReads(c)
    /\ to # 0
    /\ epoch' = epoch + 1
    /\ DropOutside(from, to, Overtaken(from, to))
    /\ fin' = Rebuilt(fin, own', from, to)
    /\ ClearDirty
    /\ MarkHist(from, to)
    /\ SyncFrontiers(to)
    /\ deferred' = {d \in deferred : d > to}
    /\ muted' = FALSE
    /\ spawnTurn' = (next <= closed /\ next \in whole)
    /\ UNCHANGED <<pending, workVars, batch, rows, countVars, down>>

(* The cutover finds no contiguous tail: it has read the database, and     *)
(* marked what it found dirty, and waits.                                  *)
CutoverWaits(c) ==
    /\ CutoverReady
    /\ c # 0
    /\ CutoverReads(c)
    /\ ReadyThrough(CutoverFrom) = 0
    /\ dirty' = Lower(dirty, c)
    /\ UNCHANGED <<next, muted, deferred, pending, hist, workVars, fin, spawnTurn, epoch,
                   override, batch, rows, dropped, leftVars, countVars, down>>

(* Mutant of QueuedCount: minutes still in the prepare queue do not count. *)
QueuedCountHanding == Cardinality(handing)

(* live_prepare_minute_pending.                                            *)
QueuedCount == Cardinality(QueuedMinutes) + Cardinality(handing)

(* Mutant of LastReady: as many minutes as there are slots, ready or not.  *)
FreeSlots == Slots - counted - QueuedCount
LastReadySlots == next + FreeSlots - 1

(* enqueue_live_ready_jobs: the contiguous complete minutes from next on,  *)
(* as many as the pipeline has slots by the two counters.                  *)
LastReady ==
    Least({ReadyThrough(next), next + FreeSlots - 1})

CanEnqueue ==
    /\ ~spawnTurn
    /\ pending = 0
    /\ next <= closed
    /\ next \in whole

(* available_live_pipeline_slots loads live_ready_job_pending first.  With *)
(* that at the capacity there is no slot, and the tick enqueues nothing.   *)
LoadReady ==
    /\ AtSection
    /\ CanEnqueue
    /\ Cardinality(PendingJobs) < Slots
    /\ counting' = TRUE
    /\ counted' = Cardinality(PendingJobs)
    /\ waiting' = QueuedCount
    /\ UNCHANGED <<inputVars, mainVars, workVars, fin, spawnTurn, epoch, override, batch, rows,
                   dropped, leftVars, slipped, down>>

(* The other load, of live_prepare_minute_pending, is part of the step     *)
(* that uses the sum: minutes handed over in between are in neither.       *)
Counted ==
    /\ counting
    /\ counting' = FALSE
    /\ counted' = 0
    /\ waiting' = 0

EnqueueNone ==
    /\ Counted
    /\ FreeSlots <= 0
    /\ spawnTurn' = TRUE
    /\ UNCHANGED <<inputVars, mainVars, workVars, fin, epoch, override, batch, rows, dropped,
                   leftVars, slipped, down>>

EnqueueLive ==
    /\ CanEnqueue
    /\ Counted
    /\ FreeSlots > 0
    /\ ~muted
    /\ tasks' = Append(tasks, <<next, LastReady>>)
    /\ next' = LastReady + 1
    /\ slipped' = waiting - QueuedCount
    /\ spawnTurn' = TRUE
    /\ UNCHANGED <<inputVars, muted, deferred, dirty, pending, hist, handing, ready, computed,
                   held, nextCommit, fin, epoch, override, batch, rows, dropped, leftVars, down>>

(* DispatchMode::LiveCatchup: the state advances, nothing is published.    *)
(* Minutes still in the prepare queue are passed by: the worker finalizes  *)
(* no minute before the last one.                                          *)
EnqueueCatchup ==
    /\ CanEnqueue
    /\ Counted
    /\ FreeSlots > 0
    /\ muted
    /\ fin' = AdvanceFinalized(fin, own, next, LastReady)
    /\ MarkHist(next, LastReady)
    /\ next' = LastReady + 1
    /\ skipped' = skipped \cup QueuedMinutes
    /\ UNCHANGED <<inputVars, muted, deferred, dirty, pending, spawnTurn, workVars, epoch,
                   override, batch, rows, dropped, stranded, slipped, down>>

EndTick ==
    /\ spawnTurn
    /\ spawnTurn' = FALSE
    /\ UNCHANGED <<inputVars, mainVars, workVars, fin, epoch, override, batch, rows, dropped, leftVars, countVars, down>>

-----------------------------------------------------------------------------
(* Historical materialization.                                             *)

(* maybe_spawn_historical_materialization_batch, the end of a tick that    *)
(* found a minute ready: the batch takes a snapshot of the state.          *)
SpawnBatch ==
    /\ spawnTurn
    /\ spawnTurn' = FALSE
    /\ batch = Nothing
    /\ ~muted
    /\ PrepareIdle /\ PendingJobs = {}
    /\ Backlog <= ResumeLag
    /\ dirty = 0
    /\ hist # Nothing
    /\ LET to == Least({hist[2], hist[1] + BatchSize - 1}) IN
       batch' = [from |-> hist[1], to |-> to, at |-> 0,
                 body |-> [i \in 1..to |-> IF i < hist[1] THEN fin[i] ELSE own[i]]]
    /\ UNCHANGED <<inputVars, mainVars, workVars, fin, epoch, override, rows, dropped, leftVars, countVars, down>>

(* clear_persisted_range_for_repair.                                       *)
BatchClear ==
    /\ batch # Nothing
    /\ batch.at = 0
    /\ batch' = [batch EXCEPT !.at = batch.from]
    /\ rows' = [m \in Minutes |-> IF m \in batch.from..batch.to THEN <<>> ELSE rows[m]]
    /\ UNCHANGED <<inputVars, mainVars, workVars, fin, spawnTurn, epoch, override, dropped, leftVars, countVars, down>>

(* materialize_repair_range, a minute at a time.                           *)
BatchWrite ==
    /\ batch # Nothing
    /\ batch.at \in batch.from..batch.to
    /\ batch' = [batch EXCEPT !.at = @ + 1]
    /\ rows' = [rows EXCEPT ![batch.at] = BodyOf(batch.body, batch.at)]
    /\ UNCHANGED <<inputVars, mainVars, workVars, fin, spawnTurn, epoch, override, dropped, leftVars, countVars, down>>

(* poll_historical_materialize_handle.                                     *)
BatchDone ==
    /\ AtSection
    /\ batch # Nothing
    /\ batch.at > batch.to
    /\ AdvanceHist(batch.to)
    /\ batch' = Nothing
    /\ UNCHANGED <<inputVars, next, muted, deferred, dirty, pending, workVars, fin, spawnTurn,
                   epoch, override, rows, dropped, leftVars, countVars, down>>

-----------------------------------------------------------------------------
(* The workers.                                                            *)

(* run_live_prepare_loop: the minutes not finalized yet are, and a job is  *)
(* made for each.  A task is never older than the epoch: repairs wait.     *)
Prepare ==
    LET first == tasks[1][1]
        last == tasks[1][2]
        from == Greatest({first, LastRow(fin) + 1})
        f == AdvanceFinalized(fin, own, from, last)
    IN
    /\ tasks # <<>>
    /\ handing = {}
    /\ tasks' = SubSeq(tasks, 2, Len(tasks))
    /\ fin' = f
    /\ handing' = {[m |-> m, ep |-> epoch, body |-> BodyOf(f, m)] : m \in first..last}
    /\ UNCHANGED <<inputVars, mainVars, spawnTurn, ready, computed, held, nextCommit, epoch,
                   override, batch, rows, dropped, leftVars, countVars, down>>

(* The earliest of the jobs made. *)
FirstJob(j) == j \in handing /\ \A k \in handing : j.m <= k.m

(* They are handed over one by one, and their minutes leave one counter    *)
(* for the other.  Some of the jobs in ready may be in a compute worker.   *)
HandOff(j) ==
    /\ FirstJob(j)
    /\ Cardinality(ready) < Slots + ComputeWorkers
    /\ handing' = handing \ {j}
    /\ ready' = ready \cup {j}
    /\ UNCHANGED <<inputVars, mainVars, tasks, computed, held, nextCommit, fin, spawnTurn, epoch,
                   override, batch, rows, dropped, leftVars, countVars, down>>

(* The job queue is full: the worker fails, and the service with it.       *)
HandOffFails ==
    /\ handing # {}
    /\ Cardinality(ready) >= Slots
    /\ down' = TRUE
    /\ UNCHANGED <<inputVars, mainVars, workVars, fin, spawnTurn, epoch, override, batch, rows,
                   dropped, leftVars, countVars>>

(* run_live_materialize_compute_loop, three workers: a job is computed...  *)
Compute(j) ==
    /\ j \in ready
    /\ j.ep = epoch
    /\ ready' = ready \ {j}
    /\ computed' = computed \cup {j}
    /\ UNCHANGED <<inputVars, mainVars, fin, spawnTurn, tasks, handing, held, nextCommit, epoch, override,
                   batch, rows, dropped, leftVars, countVars, down>>

(* ... or dropped when the epoch advanced before or while it was computed. *)
DropStale(j) ==
    /\ j \in ready
    /\ j.ep # epoch
    /\ ready' = ready \ {j}
    /\ UNCHANGED <<inputVars, mainVars, fin, spawnTurn, tasks, handing, computed, held, nextCommit, epoch,
                   override, batch, rows, dropped, leftVars, countVars, down>>

(* Mutant of Fresh: the commit worker does not look at epochs. *)
FreshAlways(j) == TRUE

Fresh(j) == j.ep = epoch

(* Mutant of ResolvedNext: the override of a rebuild is not looked at.     *)
ResolvedNextOwn(jobs) == nextCommit

(* resolved_live_commit_next_ts of the fresh jobs.                         *)
ResolvedNext(jobs) ==
    IF /\ override # 0
       /\ \A j \in jobs : j.m >= override
    THEN Greatest({nextCommit, override + 1})
    ELSE nextCommit

(* commit_live_jobs_in_order up to the gate: stale and superseded jobs are *)
(* dropped, and the next minute's job is taken if it has arrived.          *)
TakeForCommit ==
    LET fresh == {j \in computed : Fresh(j)}
        n == ResolvedNext(fresh)
        due == {j \in fresh : j.m = n}
    IN
    /\ held = Nothing
    /\ nextCommit' = n
    /\ computed' = {j \in fresh : j.m > n}
    /\ held' = IF due = {} THEN Nothing ELSE CHOOSE j \in due : TRUE
    /\ UNCHANGED <<inputVars, mainVars, fin, spawnTurn, tasks, handing, ready, epoch, override, batch,
                   rows, dropped, leftVars, countVars, down>>

(* Under the gate the epoch is checked again, and the minute is written.   *)
WriteHeld ==
    /\ held # Nothing
    /\ held' = Nothing
    /\ IF Fresh(held)
       THEN /\ rows' = [rows EXCEPT ![held.m] = held.body]
            /\ nextCommit' = held.m + 1
       ELSE UNCHANGED <<rows, nextCommit>>
    /\ UNCHANGED <<inputVars, mainVars, fin, spawnTurn, tasks, handing, ready, computed, epoch, override,
                   batch, dropped, leftVars, countVars, down>>

-----------------------------------------------------------------------------

MainLoop ==
    \/ \E m \in Minutes, complete \in BOOLEAN : ReconcileFails(m, complete)
    \/ \E g \in Minutes : HealGap(g) \/ \E got \in BOOLEAN : DeferGap(g, got)
    \/ AbortBatch \/ RepairReplay
    \/ EnterCatchup
    \/ \E c \in 0..Last : CutOver(c) \/ CutoverWaits(c)
    \/ LoadReady \/ EnqueueNone \/ EnqueueLive \/ EnqueueCatchup
    \/ SpawnBatch \/ EndTick
    \/ BatchDone

Workers ==
    \/ Prepare
    \/ \E j \in handing : HandOff(j)
    \/ \E j \in ready : Compute(j) \/ DropStale(j)
    \/ TakeForCommit \/ WriteHeld

Background == BatchClear \/ BatchWrite

Next ==
    /\ ~down
    /\ \/ CloseMinute
       \/ \E m \in Minutes, complete \in BOOLEAN : Ingest(m, complete)
       \/ MainLoop \/ Workers \/ HandOffFails \/ Background

(* Minutes close, the inputs of the others than Gappy arrive, and loop and *)
(* workers go on; late updates are bounded by MaxEdits.                    *)
Fairness ==
    /\ WF_vars(~down /\ CloseMinute)
    /\ \A m \in Minutes \ Gappy : WF_vars(~down /\ own[m] = 0 /\ Ingest(m, TRUE))
    /\ WF_vars(~down /\ LoadReady)
    /\ WF_vars(~down /\ (EnqueueNone \/ EnqueueLive \/ EnqueueCatchup \/ EndTick))
    /\ WF_vars(~down /\ AbortBatch) /\ WF_vars(~down /\ RepairReplay)
    /\ WF_vars(~down /\ EnterCatchup) /\ WF_vars(~down /\ CutOver(0))
    /\ WF_vars(~down /\ (Background \/ BatchDone))
    /\ \A g \in Gappy : WF_vars(~down /\ DeferGap(g, FALSE))
    /\ WF_vars(~down /\ Workers)

Spec == Init /\ [][Next]_vars
FairSpec == Spec /\ Fairness

-----------------------------------------------------------------------------
(* Safety.                                                                 *)

(* Queued and unwritten minutes together exceed the capacity of the job    *)
(* queue at most by those that moved, while slots were counted, from the   *)
(* counter read second to the one read first; so the prepare worker finds  *)
(* the queue full, which ends the service, only after such a count.  Stale *)
(* jobs that a repair leaves behind are counted on.                        *)
QueueOverflowsOnlyBySlip ==
    /\ Cardinality(QueuedMinutes) + Cardinality(InFlight) <= Slots + slipped
    /\ down => slipped > 0

InHist(m) == hist # Nothing /\ m \in hist[1]..hist[2]
Owed(m) == InHist(m) \/ (pending # 0 /\ pending <= m)
Truth(m) == BodyOf(own, m)

(* A minute at or before m was left out of the finalized history, ...      *)
AfterSkip(m) == \E g \in skipped : g <= m /\ fin[g] = 0

(* ... or changed by a tail reconcile that then failed.                    *)
AfterStranded(m) == stranded # 0 /\ stranded <= m

(* Every minute the scheduler has passed has rows computed from all the    *)
(* data up to it, or something pending will write them: a repair, a        *)
(* historical range, a queued task or a job of the current epoch.  The     *)
(* exceptions are minutes whose job a repair dropped without rebuilding    *)
(* them (it drops every job in flight, of minutes before its start too);   *)
(* minutes of a cutover that a batch from before it takes for written; and *)
(* the minutes, until a rebuild takes them in, from one on that was        *)
(* skipped as a gap or passed by catch-up in the prepare queue, and from   *)
(* one on that a failing tail reconcile changed, whose repair is lost.     *)
RowsAreCurrentOrOwed ==
    \A m \in 1..(next - 1) :
        \/ rows[m] = Truth(m)
        \/ Owed(m)
        \/ m \in QueuedMinutes
        \/ \E j \in InFlight : j.ep = epoch /\ j.m = m /\ j.body = Truth(m)
        \/ m \in dropped
        \/ AfterSkip(m)
        \/ AfterStranded(m)

(* A live commit writes what the finalized history says at that moment:    *)
(* no write was computed before the last repair or cutover.                *)
CommitFollowsState ==
    [][\A m \in Minutes :
          rows'[m] # rows[m] /\ batch' = batch => rows'[m] = BodyOf(fin, m)]_vars

-----------------------------------------------------------------------------
(* Liveness.                                                               *)

(* Every closed minute with complete inputs is persisted, owed to a         *)
(* historical range, or one a repair dropped; unless the ordered commit     *)
(* waits for a skipped minute, which it does until a rebuild jumps over it, *)
(* or the service has ended.                                               *)
MinuteIsPersistedOrOwed ==
    \A m \in Minutes \ Gappy :
        m \in whole ~>
            rows[m] # <<>> \/ Owed(m) \/ m \in dropped \/ nextCommit \in Gappy \/ down

(* Muted output opens again once the minutes whose inputs stayed incomplete *)
(* have been healed, unless a tail reconcile has failed that had changed a  *)
(* minute (the minute stays dirty until another correction is confirmed),   *)
(* or the service has ended.                                                *)
OutputReopens ==
    muted /\ Gappy \subseteq whole ~> ~muted \/ (stranded # 0 /\ dirty # 0) \/ down

(* The ordered commit gets through with the computed jobs: it does not wait *)
(* for ever for a minute that never comes, but for a skipped one that       *)
(* arrives later, and unless the service has ended.                         *)
ComputedJobSettles ==
    computed # {} ~> computed = {} \/ nextCommit \in Gappy \/ down

=============================================================================
